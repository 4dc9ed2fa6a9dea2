------------------------------- MODULE MCFilter -------------------------------
(* Filter for TLC: short strings of letters two of which differ in case.   *)
EXTENDS Filter

Strings == {<<"b">>, <<"A", "b">>, <<"b", "a">>}
RuleStrings == {<<"a">>, <<"a", "b">>}
Unnamed == <<"b">>
=============================================================================
