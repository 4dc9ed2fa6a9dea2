---------------------------- MODULE FilterProofs ----------------------------
(***************************************************************************)
(* Proofs about Filter, for any columns and values, any number of rules    *)
(* and any number of names a process takes while its record is filtered.   *)
(***************************************************************************)
EXTENDS Filter, FiniteSetTheorems, TLAPS

USE FilterAssumption

-----------------------------------------------------------------------------
(* The operators.                                                          *)

LEMMA SameLength ==
  ASSUME NEW s \in Seq(Letters), NEW t \in Seq(Letters), SameText(s, t)
  PROVE  Len(s) = Len(t)
<1>1. DOMAIN Folded(s) = DOMAIN s /\ DOMAIN Folded(t) = DOMAIN t
  BY DEF Folded
<1>2. DOMAIN s = DOMAIN t
  BY <1>1 DEF SameText
<1> QED BY <1>2

LEMMA WholeText ==
  ASSUME NEW s \in Seq(Letters)
  PROVE  SubSeq(s, 1, Len(s)) = s
OBVIOUS

LEMMA IsBeginsEnds ==
  ASSUME NEW s \in Seq(Letters), NEW t \in Seq(Letters)
  PROVE  SameText(s, t) <=> Len(s) = Len(t) /\ BeginsWith(s, t) /\ EndsWith(s, t)
<1>1. ASSUME Len(s) = Len(t)
      PROVE  /\ BeginsWith(s, t) <=> SameText(s, t)
             /\ EndsWith(s, t) <=> SameText(s, t)
  <2>1. Len(s) - Len(t) + 1 = 1 /\ Len(s) >= Len(t)
    BY <1>1
  <2> QED BY <1>1, <2>1, WholeText DEF BeginsWith, EndsWith
<1> QED BY <1>1, SameLength

LEMMA OneLonger ==
  ASSUME NEW s \in Seq(Letters), NEW t \in Seq(Letters), Within(t, s), Len(s) = Len(t) + 1
  PROVE  BeginsWith(s, t) \/ EndsWith(s, t)
<1>1. PICK i \in 0 .. Len(s) : i + Len(t) =< Len(s) /\ SubSeq(s, i + 1, i + Len(t)) = t
  BY DEF Within
<1>2. SameText(t, t) /\ Len(s) >= Len(t)
  BY DEF SameText
<1>3. CASE i = 0
  <2>1. SubSeq(s, 1, Len(t)) = t
    BY <1>1, <1>3
  <2> QED BY <1>2, <2>1 DEF BeginsWith
<1>4. CASE i = 1
  <2>1. i + 1 = Len(s) - Len(t) + 1 /\ i + Len(t) = Len(s)
    BY <1>4
  <2>2. SubSeq(s, Len(s) - Len(t) + 1, Len(s)) = t
    BY <1>1, <2>1
  <2> QED BY <1>2, <2>2 DEF EndsWith
<1> QED BY <1>1, <1>3, <1>4

-----------------------------------------------------------------------------
(* The inductive invariant.                                                *)

Hit(i, name) == FilterOneLog(rules[i], name) # "none"

(* The rules before p let the record pass, the last of them leaving its    *)
(* kind of result, ...                                                     *)
Walks(name) ==
  /\ \A j \in 1 .. p - 1 : ~Hit(j, name)
  /\ result = IF p = 1 \/ rules[p - 1].action = "exclude" THEN "include" ELSE "none"

(* ... or one of them matched, the first.                                  *)
Stops(name) ==
  /\ p = Len(rules) + 1
  /\ \E i \in 1 .. Len(rules) :
       /\ Hit(i, name) /\ result = rules[i].action
       /\ \A j \in 1 .. i - 1 : ~Hit(j, name)

(* One name explains what the rules said so far, if the process has only   *)
(* one or only one rule asks for it.                                       *)
OneNameAsked == \A i, j \in AskForProcess : i = j
OneName == \A n, m \in names : n = m
Explained ==
  stage \in {"filter", "shown"} /\ (OneName \/ OneNameAsked) =>
    \E name \in names : Walks(name) \/ Stops(name)

FilterInv ==
  /\ TypeOK
  /\ IsFiniteSet(names)
  /\ stage = "setup" => p = 1
  /\ stage \in {"filter", "shown"} => ProcessName \in names
  /\ stage = "shown" => p = Len(rules) + 1 /\ (line # Gone <=> result = "include")
  /\ Explained

Rule == [column : Columns, operate : Operates \cup {"none"}, value : RuleValues,
         action : Actions]

LEMMA RuleTypes ==
  ASSUME TypeOK, NEW i \in 1 .. Len(rules)
  PROVE  /\ rules[i] \in Rule
         /\ rules[i].column \in Columns /\ rules[i].action \in Actions
         /\ rules[i].value \in RuleValues
<1>1. rules \in Seq(Rule)
  BY DEF TypeOK, Rule
<1>2. rules[i] \in Rule
  BY <1>1
<1> QED BY <1>2 DEF Rule

(* A rule that does not ask for the process says the same of every name.   *)
LEMMA AnyName ==
  ASSUME NEW i \in 1 .. Len(rules), i \notin AskForProcess, NEW n, NEW m
  PROVE  FilterOneLog(rules[i], n) = FilterOneLog(rules[i], m)
BY DEF AskForProcess, FilterOneLog, ColumnValue

LEMMA Answers ==
  ASSUME TypeOK, NEW i \in 1 .. Len(rules), NEW name
  PROVE  /\ FilterOneLog(rules[i], name) \in {"none", rules[i].action}
         /\ rules[i].action # "none"
BY RuleTypes DEF FilterOneLog, Actions

-----------------------------------------------------------------------------
(* One round of the loop of FilterLog.                                     *)

LEMMA RoundKeeps ==
  ASSUME FilterInv, FilterLog
  PROVE  Explained'
<1> DEFINE now == ProcessName
<1>1. /\ stage = "filter" /\ p \in 1 .. Len(rules) /\ Len(rules) \in Nat
      /\ result' = Verdict(rules[p]) /\ p' = After(rules[p])
      /\ UNCHANGED <<rules, stage, record, process, names>>
      /\ now \in names
  BY DEF FilterLog, FilterInv, TypeOK
<1>2. /\ FilterOneLog(rules[p], now) \in {"none", rules[p].action}
      /\ rules[p].action # "none" /\ rules[p].action \in Actions
  BY <1>1, Answers, RuleTypes DEF FilterInv
<1>3. /\ \A i, name : Hit(i, name)' = Hit(i, name)
      /\ OneName' = OneName /\ OneNameAsked' = OneNameAsked
  BY <1>1 DEF Hit, FilterOneLog, ColumnValue, OneName, OneNameAsked, AskForProcess
<1> HIDE DEF now
<1> SUFFICES ASSUME OneName \/ OneNameAsked
             PROVE  \E name \in names : Walks(name)' \/ Stops(name)'
  BY <1>1, <1>3 DEF Explained
<1>4. PICK name \in names : Walks(name)
  <2>1. PICK name \in names : Walks(name) \/ Stops(name)
    BY <1>1 DEF FilterInv, Explained
  <2> QED BY <1>1, <2>1 DEF Stops
(* The name that explains the next round, too: the present one if the rule *)
(* asks for it.                                                            *)
<1>5. PICK next \in names :
        /\ FilterOneLog(rules[p], next) = FilterOneLog(rules[p], now)
        /\ \A j \in 1 .. p - 1 : ~Hit(j, next)
  <2>1. CASE OneName
    BY <1>1, <1>4, <2>1 DEF OneName, Walks
  <2>2. CASE p \notin AskForProcess
    BY <1>1, <1>4, <2>2, AnyName DEF Walks
  <2>3. CASE p \in AskForProcess /\ OneNameAsked
    <3>1. ASSUME NEW j \in 1 .. p - 1 PROVE ~Hit(j, now)
      <4>1. j \in 1 .. Len(rules) /\ j # p
        BY <1>1
      <4>2. j \notin AskForProcess
        BY <2>3, <4>1 DEF OneNameAsked
      <4>3. ~Hit(j, name)
        BY <1>4 DEF Walks
      <4> QED BY <4>1, <4>2, <4>3, AnyName DEF Hit
    <3> QED BY <1>1, <3>1
  <2> QED BY <2>1, <2>2, <2>3
<1>6. CASE FilterOneLog(rules[p], now) = "none"
  <2>1. p' = p + 1 /\ result' = IF rules[p].action = "exclude" THEN "include" ELSE "none"
    BY <1>1, <1>6 DEF Verdict, After, now
  <2>2. \A j \in 1 .. p : ~Hit(j, next)
    BY <1>1, <1>5, <1>6 DEF Hit
  <2>3. Walks(next)'
    BY <1>1, <1>3, <2>1, <2>2 DEF Walks
  <2> QED BY <2>3
<1>7. CASE FilterOneLog(rules[p], now) = rules[p].action
  <2>1. p' = Len(rules) + 1 /\ result' = rules[p].action
    BY <1>1, <1>2, <1>7 DEF Verdict, After, now
  <2>2. Hit(p, next)
    BY <1>2, <1>5, <1>7 DEF Hit
  <2>3. Stops(next)'
    BY <1>1, <1>3, <1>5, <2>1, <2>2 DEF Stops
  <2> QED BY <2>3
<1> QED BY <1>2, <1>6, <1>7

LEMMA TypeKeeps ==
  ASSUME FilterInv, [Next]_vars
  PROVE  TypeOK'
<1> USE DEF FilterInv, TypeOK
<1>1. ASSUME NEW rule \in Rules, NEW blank, AddFilter(rule, blank) PROVE TypeOK'
  <2>1. [rule EXCEPT !.operate = Operate(@, blank)] \in Rule
    BY DEF Rules, Rule, Operate
  <2>2. rules \in Seq(Rule) /\ rules' = Append(rules, [rule EXCEPT !.operate = Operate(@, blank)])
    BY <1>1 DEF AddFilter, Rule
  <2>3. rules' \in Seq(Rule) /\ Len(rules') = Len(rules) + 1 /\ Len(rules) \in Nat
    BY <2>1, <2>2
  <2>4. p' \in 1 .. Len(rules') + 1
    BY <1>1, <2>3 DEF AddFilter
  <2> QED BY <1>1, <2>3, <2>4 DEF AddFilter, Rule
<1>2. CASE Start
  BY <1>2 DEF Start
<1>3. CASE Read
  BY <1>3 DEF Read, Actions
<1>4. CASE FilterLog
  <2>1. p \in 1 .. Len(rules) /\ Len(rules) \in Nat
    BY <1>4 DEF FilterLog
  <2>2. Verdict(rules[p]) \in Actions \cup {"none"}
    BY <2>1, Answers, RuleTypes DEF Verdict, Actions
  <2>3. After(rules[p]) \in 1 .. Len(rules) + 1
    BY <2>1 DEF After
  <2> QED BY <1>4, <2>2, <2>3 DEF FilterLog
<1>5. CASE Show
  BY <1>5 DEF Show, ProcessName
<1>6. ASSUME NEW name \in Values \cup {Gone}, Change(name) PROVE TypeOK'
  BY <1>6 DEF Change
<1>7. CASE UNCHANGED vars
  BY <1>7 DEF vars
<1> QED BY <1>1, <1>2, <1>3, <1>4, <1>5, <1>6, <1>7 DEF Next

LEMMA FilterInit == Init => FilterInv
<1> SUFFICES ASSUME Init PROVE FilterInv OBVIOUS
<1>1. TypeOK
  BY DEF Init, TypeOK, Actions
<1>2. IsFiniteSet(names)
  BY FS_Singleton DEF Init
<1> QED BY <1>1, <1>2 DEF Init, FilterInv, Explained

LEMMA FilterNext ==
  ASSUME FilterInv, [Next]_vars
  PROVE  FilterInv'
<1>1. TypeOK'
  BY TypeKeeps
<1>2. ASSUME NEW rule, NEW blank, AddFilter(rule, blank) PROVE FilterInv'
  BY <1>1, <1>2 DEF AddFilter, FilterInv, Explained
<1>3. CASE Start
  BY <1>1, <1>3 DEF Start, FilterInv, Explained
<1>4. CASE Read
  <2>1. /\ stage' = "filter" /\ p' = 1 /\ result' = "include"
        /\ names' = {IF process' = Gone THEN Fallback ELSE process'}
    BY <1>4 DEF Read
  <2>2. ProcessName' \in names' /\ IsFiniteSet(names')
    BY <2>1, FS_Singleton DEF ProcessName
  <2>3. \A name : Walks(name)'
    BY <2>1 DEF Walks
  <2> QED BY <1>1, <2>1, <2>2, <2>3 DEF FilterInv, Explained
<1>5. CASE FilterLog
  BY <1>1, <1>5, RoundKeeps DEF FilterLog, FilterInv, ProcessName
<1>6. CASE Show
  <2>1. /\ stage = "filter" /\ stage' = "shown" /\ p = Len(rules) + 1
        /\ UNCHANGED <<rules, record, process, p, result, names>>
        /\ line' = IF result = "include" THEN ProcessName ELSE Gone
    BY <1>6 DEF Show
  <2>2. ProcessName \in Values
    BY DEF ProcessName, FilterInv, TypeOK
  <2>3. Explained'
    BY <2>1 DEF FilterInv, Explained, OneName, OneNameAsked, AskForProcess, Walks, Stops, Hit,
       FilterOneLog, ColumnValue
  <2> QED BY <1>1, <2>1, <2>2, <2>3 DEF FilterInv, ProcessName
<1>7. ASSUME NEW name \in Values \cup {Gone}, Change(name) PROVE FilterInv'
  <2>1. /\ stage = "filter" /\ process' = name
        /\ names' = names \cup {IF name = Gone THEN Fallback ELSE name}
        /\ UNCHANGED <<rules, stage, record, p, result, line>>
    BY <1>7 DEF Change
  <2>2. IsFiniteSet(names') /\ ProcessName' \in names'
    BY <2>1, FS_AddElement DEF FilterInv, ProcessName
  <2>3. OneName' \/ OneNameAsked' => OneName \/ OneNameAsked
    BY <2>1 DEF OneName, OneNameAsked, AskForProcess
  <2>4. \A n : Walks(n)' = Walks(n) /\ Stops(n)' = Stops(n)
    BY <2>1 DEF Walks, Stops, Hit, FilterOneLog, ColumnValue
  <2>5. Explained'
    BY <2>1, <2>3, <2>4 DEF FilterInv, Explained
  <2> QED BY <1>1, <2>1, <2>2, <2>5 DEF FilterInv
<1>8. CASE UNCHANGED vars
  BY <1>1, <1>8 DEF vars, FilterInv, ProcessName, Explained, OneName, OneNameAsked,
     AskForProcess, Walks, Stops, Hit, FilterOneLog, ColumnValue
<1> QED BY <1>2, <1>3, <1>4, <1>5, <1>6, <1>7, <1>8 DEF Next

-----------------------------------------------------------------------------
(* A set with at most one member. *)
LEMMA AtMostOne ==
  ASSUME NEW S, IsFiniteSet(S), Cardinality(S) =< 1
  PROVE  \A i, j \in S : i = j
<1> SUFFICES ASSUME NEW i \in S, NEW j \in S, i # j PROVE FALSE
  OBVIOUS
<1>1. IsFiniteSet({j}) /\ Cardinality({j}) = 1
  BY FS_Singleton
<1>2. IsFiniteSet({j} \cup {i}) /\ Cardinality({j} \cup {i}) = 2
  <2>1. /\ IsFiniteSet({j} \cup {i})
        /\ Cardinality({j} \cup {i}) = Cardinality({j}) + 1
    BY <1>1, FS_AddElement
  <2>2. 1 + 1 = 2
    OBVIOUS
  <2> QED BY <1>1, <2>1, <2>2, Zenon
<1>3. Cardinality({j} \cup {i}) =< Cardinality(S)
  BY <1>2, FS_Subset
<1> QED BY <1>2, <1>3, FS_CardinalityType

LEMMA WantedIs ==
  ASSUME FilterInv, stage = "shown", NEW name, Walks(name) \/ Stops(name)
  PROVE  line # Gone <=> Wanted(name)
<1>1. /\ p = Len(rules) + 1 /\ Len(rules) \in Nat /\ (line # Gone <=> result = "include")
      /\ rules \in Seq(Rule)
  BY DEF FilterInv, TypeOK, Rule
<1>2. Hits(name) = {i \in 1 .. Len(rules) : Hit(i, name)}
  BY DEF Hits, Hit
<1>3. CASE Walks(name)
  <2>1. Hits(name) = {}
    BY <1>1, <1>2, <1>3 DEF Walks
  <2>2. rules = <<>> <=> p = 1
    BY <1>1
  <2>3. p - 1 = Len(rules)
    BY <1>1
  <2> QED BY <1>1, <1>3, <2>1, <2>2, <2>3 DEF Walks, Wanted
<1>4. CASE Stops(name)
  <2>1. PICK i \in 1 .. Len(rules) :
          /\ Hit(i, name) /\ result = rules[i].action
          /\ \A j \in 1 .. i - 1 : ~Hit(j, name)
    BY <1>4 DEF Stops
  <2>2. i \in Hits(name) /\ \A j \in Hits(name) : i =< j
    BY <1>1, <1>2, <2>1
  <2>3. \A k \in Hits(name) : (\A j \in Hits(name) : k =< j) => k = i
    BY <1>1, <1>2, <2>2
  <2>4. Wanted(name) <=> rules[i].action = "include"
    BY <2>2, <2>3 DEF Wanted
  <2> QED BY <1>1, <2>1, <2>4
<1> QED BY <1>3, <1>4

LEMMA FilterCorrect == Spec => []FilterInv
<1>1. Init => FilterInv BY FilterInit
<1>2. FilterInv /\ [Next]_vars => FilterInv' BY FilterNext
<1> QED BY <1>1, <1>2, PTL DEF Spec

(* Types, and that the walk over the rules never leaves the list, for any  *)
(* number of rules (filter.cpp:188, 301).                                  *)
THEOREM FilterTypeCorrect == Spec => []TypeOK
<1>1. FilterInv => TypeOK BY DEF FilterInv
<1> QED BY <1>1, FilterCorrect, PTL

(* The loop of FilterLog (filter.cpp:301-323) computes the meaning of the  *)
(* list of rules for one name its process had meanwhile.                   *)
THEOREM PrintedAsWanted == Spec => []ShownAsWanted
<1>1. ASSUME FilterInv PROVE ShownAsWanted
  <2> SUFFICES ASSUME stage = "shown",
                      Cardinality(names) = 1 \/ Cardinality(AskForProcess) =< 1
               PROVE  \E name \in names : (line # Gone <=> Wanted(name))
    BY DEF ShownAsWanted
  <2>1. IsFiniteSet(names) /\ Len(rules) \in Nat
    BY <1>1 DEF FilterInv, TypeOK
  <2>2. AskForProcess \in SUBSET (1 .. Len(rules))
    BY DEF AskForProcess
  <2>3. IsFiniteSet(AskForProcess)
    <3>1. IsFiniteSet(1 .. Len(rules))
      BY <2>1, FS_Interval
    <3> QED BY <2>2, <3>1, FS_Subset, Zenon
  <2>4. OneName \/ OneNameAsked
    BY <2>1, <2>3, AtMostOne DEF OneName, OneNameAsked
  <2>5. PICK name \in names : Walks(name) \/ Stops(name)
    BY <1>1, <2>4 DEF FilterInv, Explained
  <2> QED BY <1>1, <2>5, WantedIs
<1> QED BY <1>1, FilterCorrect, PTL

(* The comparisons of FilterValueWithFilter (filter.cpp:28-69) fit         *)
(* together for strings of any length.                                     *)
THEOREM OperatorsFit == Spec => []OperatorsAgree
<1>1. ASSUME FilterInv PROVE OperatorsAgree
  <2> SUFFICES ASSUME NEW i \in 1 .. Len(rules), NEW name \in names
               PROVE  LET s == ColumnValue(rules[i].column, name)
                          t == rules[i].value
                      IN  /\ Matched("is", s, t) <=>
                               /\ Len(s) = Len(t)
                               /\ Matched("begins with", s, t)
                               /\ Matched("ends with", s, t)
                          /\ Matched("contains", s, t) /\ Len(s) = Len(t) + 1 =>
                               Matched("begins with", s, t) \/ Matched("ends with", s, t)
    BY DEF OperatorsAgree
  <2>1. /\ rules[i].column \in Columns /\ rules[i].value \in Seq(Letters)
        /\ name \in Seq(Letters)
    BY <1>1, RuleTypes DEF FilterInv, TypeOK
  <2>2. PICK s : s = ColumnValue(rules[i].column, name)
    OBVIOUS
  <2>3. PICK t : t = rules[i].value
    OBVIOUS
  <2>4. s \in Seq(Letters) /\ t \in Seq(Letters)
    BY <1>1, <2>1, <2>2, <2>3 DEF ColumnValue, FilterInv, TypeOK
  <2>5. /\ Matched("is", s, t) <=> SameText(s, t)
        /\ Matched("contains", s, t) <=> Within(t, s)
        /\ Matched("begins with", s, t) <=> BeginsWith(s, t)
        /\ Matched("ends with", s, t) <=> EndsWith(s, t)
    BY DEF Matched
  <2> QED BY <2>2, <2>3, <2>4, <2>5, IsBeginsEnds, OneLonger
<1> QED BY <1>1, FilterCorrect, PTL
=============================================================================
