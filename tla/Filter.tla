-------------------------------- MODULE Filter --------------------------------
(***************************************************************************)
(* native/jni/filter.cpp and the part of main() around it: a list of rules *)
(* is built when sys_reader starts, then every record is held against the  *)
(* rules in their order and printed or not.                                *)
(*                                                                         *)
(* A string is a sequence of letters, of which some differ only in case.   *)
(* The process column is not in the record: the name is asked from /proc   *)
(* whenever a rule or the printed line needs it, while the process may     *)
(* end, execute another program or leave its pid to another one.           *)
(* Definitions named Bug... are mistakes the properties must catch.        *)
(***************************************************************************)
EXTENDS Naturals, Sequences, FiniteSets

CONSTANTS
  Columns,        (* the columns of a record; "process" is looked up        *)
  Values,         (* the strings records and processes have                 *)
  RuleValues,     (* the strings rules have                                 *)
  Fallback,       (* "PROCESS #<pid>", shown when there is no name          *)
  Gone,           (* there is no process with the pid of the record         *)
  MaxRules,
  MaxNames        (* bound on the names its process has during one record   *)

Letters == {"a", "A", "b"}
Operates == {"is", "is not", "contains", "excludes", "begins with", "ends with"}
Actions == {"include", "exclude"}

ASSUME FilterAssumption ==
  /\ "process" \in Columns
  /\ Values \subseteq Seq(Letters) /\ RuleValues \subseteq Seq(Letters)
  /\ Gone \notin Values /\ Fallback \in Values
  /\ <<>> \notin RuleValues
  /\ MaxRules \in Nat /\ MaxNames \in Nat

VARIABLES
  rules,          (* the list from filter_header to filter_tail             *)
  stage,          (* where main() is                                        *)
  record,         (* the columns of the record                              *)
  process,        (* the name of the process of its pid, or Gone            *)
  p,              (* the rule FilterLog looks at                            *)
  result,         (* what it has so far                                     *)
  line,           (* the process name printed with the record, Gone if none *)
  names           (* history: the names of the process since the record came *)

vars == <<rules, stage, record, process, p, result, line, names>>

-----------------------------------------------------------------------------
(* FilterValueWithFilter.                                                  *)

Lower == [c \in Letters |-> IF c = "A" THEN "a" ELSE c]
Folded(s) == [i \in DOMAIN s |-> Lower[s[i]]]

(* strcasecmp, strstr and strncasecmp. *)
SameText(s, t) == Folded(s) = Folded(t)
Within(t, s) ==
  \E i \in 0 .. Len(s) : i + Len(t) <= Len(s) /\ SubSeq(s, i + 1, i + Len(t)) = t
BeginsWith(s, t) == Len(s) >= Len(t) /\ SameText(SubSeq(s, 1, Len(t)), t)

(* The end one letter too early. *)
BugEndsWith(s, t) ==
  Len(s) > Len(t) /\ SameText(SubSeq(s, Len(s) - Len(t), Len(s) - 1), t)
EndsWith(s, t) ==
  Len(s) >= Len(t) /\ SameText(SubSeq(s, Len(s) - Len(t) + 1, Len(s)), t)

Matched(operate, s, t) ==
  CASE operate = "is" -> SameText(s, t)
    [] operate = "is not" -> ~SameText(s, t)
    [] operate = "contains" -> Within(t, s)
    [] operate = "excludes" -> ~Within(t, s)
    [] operate = "begins with" -> BeginsWith(s, t)
    [] operate = "ends with" -> EndsWith(s, t)
    [] operate = "none" -> FALSE

-----------------------------------------------------------------------------
(* AddFilter.                                                              *)

(* The regular expression takes any blank between two words of an          *)
(* operator, GetOperateFromString only a space: with another blank the     *)
(* rule is there and matches nothing. *)
Operate(operate, blank) ==
  IF operate \in {"is", "contains", "excludes"} \/ blank = "space" THEN operate ELSE "none"

Init ==
  /\ rules = <<>>
  /\ stage = "setup"
  /\ record = [c \in Columns \ {"process"} |-> Fallback]
  /\ process = Gone
  /\ p = 1
  /\ result = "include"
  /\ line = Gone
  /\ names = {Fallback}

(* A text that is not a rule, or that there is no memory for, adds         *)
(* nothing, and main() does not look. *)
AddFilter(rule, blank) ==
  /\ stage = "setup" /\ Len(rules) < MaxRules
  /\ rules' = Append(rules, [rule EXCEPT !.operate = Operate(@, blank)])
  /\ UNCHANGED <<stage, record, process, p, result, line, names>>

(* Initize. *)
Start ==
  /\ stage = "setup" /\ stage' = "started"
  /\ UNCHANGED <<rules, record, process, p, result, line, names>>

-----------------------------------------------------------------------------
(* main(): ReadHeader and ReadContent.  The process may be gone already. *)
Read ==
  /\ stage \in {"started", "shown"} /\ stage' = "filter"
  /\ record' \in [Columns \ {"process"} -> Values]
  /\ process' \in Values \cup {Gone}
  /\ p' = 1
  /\ result' = "include"
  /\ line' = Gone
  /\ names' = {IF process' = Gone THEN Fallback ELSE process'}
  /\ UNCHANGED rules

(* GetProcessFromNative, then GetProcessFromDriver, which knows none. *)
ProcessName == IF process = Gone THEN Fallback ELSE process

ColumnValue(column, name) == IF column = "process" THEN name ELSE record[column]

(* FilterOneLog, for a process of that name. *)
FilterOneLog(rule, name) ==
  IF Matched(rule.operate, ColumnValue(rule.column, name), rule.value)
  THEN rule.action ELSE "none"

(* An exclude rule that does not match leaves the result alone. *)
BugVerdict(rule) ==
  LET answer == FilterOneLog(rule, ProcessName)
  IN  IF rule.action = "exclude" /\ answer = "none" THEN result ELSE answer

(* What the loop of FilterLog makes of one rule: an exclude rule that does *)
(* not match includes, an include rule that does not match leaves none. *)
Verdict(rule) ==
  LET answer == FilterOneLog(rule, ProcessName)
  IN  IF rule.action = "exclude" /\ answer = "none" THEN "include" ELSE answer

(* The last rule has another one after it. *)
BugAfter(rule) == IF p = Len(rules) THEN p + 2 ELSE p + 1

(* A rule that matches ends the loop. *)
After(rule) == IF FilterOneLog(rule, ProcessName) # "none" THEN Len(rules) + 1 ELSE p + 1

FilterLog ==
  /\ stage = "filter" /\ p <= Len(rules)
  /\ result' = Verdict(rules[p])
  /\ p' = After(rules[p])
  /\ UNCHANGED <<rules, stage, record, process, line, names>>

(* The line is printed, with the name as it is now. *)
Show ==
  /\ stage = "filter" /\ p = Len(rules) + 1
  /\ line' = IF result = "include" THEN ProcessName ELSE Gone
  /\ stage' = "shown"
  /\ UNCHANGED <<rules, record, process, p, result, names>>

(* The process ends, or its pid gets another name. *)
Change(name) ==
  /\ stage = "filter"
  /\ process' = name
  /\ names' = names \cup {IF name = Gone THEN Fallback ELSE name}
  /\ Cardinality(names') <= MaxNames
  /\ UNCHANGED <<rules, stage, record, p, result, line>>

Rules == [column : Columns, operate : Operates, value : RuleValues, action : Actions]

Next ==
  \/ \E rule \in Rules, blank \in {"space", "tab"} : AddFilter(rule, blank)
  \/ Start \/ Read \/ FilterLog \/ Show
  \/ \E name \in Values \cup {Gone} : Change(name)

Spec == Init /\ [][Next]_vars

-----------------------------------------------------------------------------
(* Properties.                                                             *)

(* Every variable has its type; the walk over the rules never leaves the   *)
(* list (filter.cpp:188, 301).                                             *)
TypeOK ==
  /\ rules \in Seq([column : Columns, operate : Operates \cup {"none"},
                    value : RuleValues, action : Actions])
  /\ stage \in {"setup", "started", "filter", "shown"}
  /\ record \in [Columns \ {"process"} -> Values]
  /\ process \in Values \cup {Gone}
  /\ p \in 1 .. Len(rules) + 1
  /\ result \in Actions \cup {"none"}
  /\ line \in Values \cup {Gone}
  /\ names \subseteq Values

(* What a list of rules means for a record whose process has that name:    *)
(* the first rule that matches decides; when none does, a list that ends   *)
(* with an include rule asked for something else, and any other list lets  *)
(* the record through. *)
Hits(name) == {i \in 1 .. Len(rules) : FilterOneLog(rules[i], name) # "none"}
Wanted(name) ==
  \/ \E i \in Hits(name) : rules[i].action = "include" /\ \A j \in Hits(name) : i <= j
  \/ Hits(name) = {} /\ (rules = <<>> \/ rules[Len(rules)].action = "exclude")

AskForProcess == {i \in 1 .. Len(rules) : rules[i].column = "process"}

(* A record is printed exactly when the rules, read as above, want it.  If *)
(* its process ends or gets another name meanwhile they want it for one of *)
(* the names, as long as no more than one rule asks for the process: each  *)
(* asks anew, and two may see different names (filter.cpp:255, 301-323).   *)
ShownAsWanted ==
  stage = "shown" /\ (Cardinality(names) = 1 \/ Cardinality(AskForProcess) <= 1) =>
      \E name \in names : (line # Gone <=> Wanted(name))

(* The operators agree with each other on every value a rule meets: what   *)
(* is the value begins and ends with it and is as long, and what contains  *)
(* it and is one letter longer begins or ends with it (filter.cpp:28-69).  *)
OperatorsAgree ==
  \A i \in 1 .. Len(rules), name \in names :
    LET s == ColumnValue(rules[i].column, name)
        t == rules[i].value
    IN  /\ Matched("is", s, t) <=>
             Len(s) = Len(t) /\ Matched("begins with", s, t) /\ Matched("ends with", s, t)
        /\ Matched("contains", s, t) /\ Len(s) = Len(t) + 1 =>
             Matched("begins with", s, t) \/ Matched("ends with", s, t)
=============================================================================
