---------------------------- MODULE CallLogProofs ----------------------------
(***************************************************************************)
(* Proofs about the log item of CallLog: its type, the strings it leads    *)
(* to, the room for the details and what they show.                        *)
(***************************************************************************)
EXTENDS CallLog, FiniteSetTheorems, SequenceTheorems, WellFoundedInduction, TLAPS

USE CallLogAssumption

(* The array is the one of the call, and what was not added yet is Null. *)
ItemInv ==
  item = Null \/
    /\ item \in Items
    /\ item.count = ParamCount[item.api]
    /\ item.current <= item.count
    /\ item.strings # Null =>
         /\ item.strings \in [1 .. item.count -> ParamLengths \cup {Null}]
         /\ \A i \in 1 .. item.count : i > item.current => item.strings[i] = Null

(* A call past its begin has an array with a place for each parameter that *)
(* is still to be added. *)
CallInv ==
  /\ pc \in {"user", "params", "details", "store"}
  /\ added \in Nat
  /\ ours \in BOOLEAN
  /\ lost \in Nat /\ leaked \in Nat
  /\ pc # "user" =>
       /\ item # Null /\ item.strings # Null
       /\ item.current <= added /\ added <= item.count

(* The size of the buffer follows from the path, and what is left of it    *)
(* from what was written; something always is left. *)
DetailsInv ==
  /\ details \in [size : Nat, left : Int, i : Nat, written : Nat, text : Seq(Nat)]
  /\ pc = "details" => details.size > 0 /\ details.i > 0
  /\ pc \in {"details", "store"} /\ details.size > 0 =>
       /\ details.size = DetailSize
       /\ details.written = details.size - details.left
       /\ details.left > 0
  /\ details.size = 0 => details.written = 0

IInv == ItemInv /\ CallInv /\ DetailsInv /\ StringsAccounted

-----------------------------------------------------------------------------
(* Facts about the data.                                                   *)

LEMMA CountType == \A api \in Apis : ParamCount[api] \in Nat \ {0}
BY DEF ParamCount

LEMMA ArrayOfCall ==
  ASSUME NEW api \in Apis, NEW s \in [1 .. ParamCount[api] -> ParamLengths \cup {Null}]
  PROVE  s \in Arrays /\ s # Null
BY DEF Arrays

(* What an array leads to: finitely many strings. *)
LEMMA StringsFinite ==
  ASSUME NEW n \in Nat, NEW s
  PROVE  /\ IsFiniteSet({i \in 1 .. n : s[i] # Null})
         /\ Cardinality({i \in 1 .. n : s[i] # Null}) \in Nat
<1>1. IsFiniteSet(1 .. n) BY FS_Interval
<1>2. {i \in 1 .. n : s[i] # Null} \in SUBSET (1 .. n) OBVIOUS
<1> QED BY <1>1, <1>2, FS_Subset, FS_CardinalityType

LEMMA HeldType == ItemInv => Held \in Nat
<1> SUFFICES ASSUME ItemInv, item # Null PROVE Held \in Nat
  BY DEF Held
<1>1. item.count \in Nat BY DEF ItemInv, Items
<1>2. Cardinality({i \in 1 .. item.count : item.strings[i] # Null}) \in Nat
  BY <1>1, StringsFinite
<1> QED BY <1>2 DEF Held

(* A new item leads to its path alone. *)
LEMMA HeldFresh ==
  ASSUME NEW api \in Apis, NEW path \in PathLengths \cup {Null},
         item' = Fresh(api, path)
  PROVE  /\ ItemInv'
         /\ item' # Null /\ item'.strings # Null
         /\ item'.current = 0 /\ item'.count = ParamCount[api]
         /\ Held' = Copied(path)
<1> DEFINE s == [i \in 1 .. ParamCount[api] |-> Null]
<1>1. ParamCount[api] \in Nat \ {0} BY CountType
<1>2. s \in [1 .. ParamCount[api] -> ParamLengths \cup {Null}] OBVIOUS
<1>3. s \in Arrays /\ s # Null BY <1>2, ArrayOfCall
<1>4. /\ item' = [api |-> api, path |-> path, count |-> ParamCount[api],
                  current |-> 0, strings |-> s]
      /\ item' \in Items
  BY <1>1, <1>3 DEF Fresh, Items
<1>5. item' # Null BY <1>4
<1>6. ItemInv' BY <1>1, <1>2, <1>3, <1>4 DEF ItemInv
<1>7. {i \in 1 .. ParamCount[api] : s[i] # Null} = {} OBVIOUS
<1>8. Cardinality({i \in 1 .. ParamCount[api] : s[i] # Null}) = 0
  BY <1>7, FS_EmptySet
<1>9. Held' = (IF path = Null THEN 0 ELSE 1)
  BY <1>3, <1>4, <1>5, <1>8 DEF Held
<1> QED BY <1>3, <1>4, <1>5, <1>6, <1>9 DEF Copied
-----------------------------------------------------------------------------
(* The begin of a call.                                                    *)

LEMMA InitInv == Init => IInv
BY DEF Init, IInv, ItemInv, CallInv, DetailsInv, StringsAccounted, Held, NoDetails

(* The item does not change, the strings of the log program's call do. *)
LEMMA HeldStays ==
  ASSUME UNCHANGED item
  PROVE  /\ Held' = Held
         /\ ItemInv => ItemInv'
         /\ DetailSize' = DetailSize
BY DEF Held, ItemInv, DetailSize, PathSize

LEMMA BeginRefusedInv ==
  ASSUME IInv, NEW api \in Apis, NEW path \in PathsOf(api), BeginRefused(api, path)
  PROVE  IInv'
<1>1. UNCHANGED <<item, pc, added, ours, leaked, details>> BY DEF BeginRefused
<1>2. Copied(path) \in Nat BY DEF Copied
<1>3. CallInv' BY <1>1, <1>2 DEF IInv, CallInv, BeginRefused
<1>4. DetailsInv' BY <1>1, HeldStays DEF IInv, DetailsInv
<1>5. StringsAccounted'
  <2>1. live' = live + Copied(path) /\ lost' = lost + Copied(path)
    BY DEF BeginRefused
  <2>2. Held \in Nat /\ lost \in Nat /\ leaked \in Nat BY HeldType DEF IInv, CallInv
  <2> QED BY <1>1, <1>2, <2>1, <2>2, HeldStays DEF IInv, StringsAccounted
<1> QED BY <1>1, <1>3, <1>4, <1>5, HeldStays DEF IInv

LEMMA BeginWithoutItemInv ==
  ASSUME IInv, NEW api \in Apis, NEW path \in PathsOf(api), BeginWithoutItem(path)
  PROVE  IInv'
<1>1. UNCHANGED <<item, pc, added, ours, lost, details>> BY DEF BeginWithoutItem
<1>2. Copied(path) \in Nat BY DEF Copied
<1>3. CallInv' BY <1>1, <1>2 DEF IInv, CallInv, BeginWithoutItem
<1>4. DetailsInv' BY <1>1, HeldStays DEF IInv, DetailsInv
<1>5. StringsAccounted'
  <2>1. live' = live + Copied(path) /\ leaked' = leaked + Copied(path)
    BY DEF BeginWithoutItem
  <2>2. Held \in Nat /\ lost \in Nat /\ leaked \in Nat BY HeldType DEF IInv, CallInv
  <2> QED BY <1>1, <1>2, <2>1, <2>2, HeldStays DEF IInv, StringsAccounted
<1> QED BY <1>1, <1>3, <1>4, <1>5, HeldStays DEF IInv

LEMMA BeginInv ==
  ASSUME IInv, NEW api \in Apis, NEW path \in PathsOf(api), Begin(api, path)
  PROVE  IInv'
<1>1. path \in PathLengths \cup {Null} BY DEF PathsOf
<1>2. item' = Fresh(api, path) BY DEF Begin
<1>3. /\ ItemInv' /\ item' # Null /\ item'.strings # Null
      /\ item'.current = 0 /\ item'.count = ParamCount[api] /\ Held' = Copied(path)
  BY <1>1, <1>2, HeldFresh
<1>4. CallInv' BY <1>3, CountType DEF Begin, IInv, CallInv
<1>5. DetailsInv' BY DEF Begin, IInv, DetailsInv
<1>6. StringsAccounted'
  <2>1. live' = (live - Held) + Copied(path) /\ UNCHANGED <<lost, leaked>> BY DEF Begin
  <2>2. {Held, lost, leaked, Copied(path)} \subseteq Nat
    BY HeldType DEF IInv, CallInv, Copied
  <2> QED BY <1>3, <2>1, <2>2 DEF IInv, StringsAccounted
<1> QED BY <1>3, <1>4, <1>5, <1>6 DEF IInv

LEMMA BeginWithoutArrayInv ==
  ASSUME IInv, NEW api \in Apis, NEW path \in PathsOf(api), BeginWithoutArray(api, path)
  PROVE  IInv'
<1>1. path \in PathLengths \cup {Null} /\ ParamCount[api] \in Nat
  BY CountType DEF PathsOf
<1>2. item' = [api |-> api, path |-> path, count |-> ParamCount[api], current |-> 0,
               strings |-> Null]
  BY DEF BeginWithoutArray, Fresh
<1>3. item' \in Items BY <1>1, <1>2 DEF Items
<1>4. ItemInv' BY <1>1, <1>2, <1>3 DEF ItemInv
<1>5. Held' = Copied(path) BY <1>2, <1>3 DEF Held, Copied
<1>6. CallInv' BY DEF BeginWithoutArray, IInv, CallInv
<1>7. DetailsInv' BY DEF BeginWithoutArray, IInv, DetailsInv
<1>8. StringsAccounted'
  <2>1. live' = (live - Held) + Copied(path) /\ UNCHANGED <<lost, leaked>> BY DEF BeginWithoutArray
  <2>2. {Held, lost, leaked, Copied(path)} \subseteq Nat
    BY HeldType DEF IInv, CallInv, Copied
  <2> QED BY <1>5, <2>1, <2>2 DEF IInv, StringsAccounted
<1> QED BY <1>4, <1>6, <1>7, <1>8 DEF IInv

-----------------------------------------------------------------------------
(* Its parameters.                                                         *)

LEMMA AddParamInv ==
  ASSUME IInv, NEW len \in ParamLengths, AddParam(len)
  PROVE  IInv'
<1> DEFINE n == item.current + 1
           Set(s) == {i \in 1 .. item.count : s[i] # Null}
<1>1. /\ item \in Items /\ item # Null /\ item.strings # Null
      /\ item.count = ParamCount[item.api] /\ item.count \in Nat /\ item.current \in Nat
      /\ item.strings \in [1 .. item.count -> ParamLengths \cup {Null}]
      /\ \A i \in 1 .. item.count : i > item.current => item.strings[i] = Null
      /\ item.current <= added /\ added \in Nat
  BY DEF AddParam, IInv, ItemInv, CallInv, Items
<1>2. n \in 1 .. item.count /\ added + 1 <= item.count
  BY <1>1, SMTT(30) DEF AddParam
<1>3. item' = [item EXCEPT !.strings = [item.strings EXCEPT ![n] = len], !.current = n]
  BY <1>1, <1>2 DEF AddParam, Items
<1>4. /\ item'.api = item.api /\ item'.path = item.path /\ item'.count = item.count
      /\ item'.current = n
      /\ item'.strings = [item.strings EXCEPT ![n] = len]
  BY <1>1, <1>3 DEF Items
<1>5. item'.strings \in [1 .. item.count -> ParamLengths \cup {Null}]
  BY <1>1, <1>2, <1>4
<1>6. item.api \in Apis BY <1>1 DEF Items
<1>7. item'.strings \in Arrays /\ item'.strings # Null
  BY <1>1, <1>5, <1>6, ArrayOfCall
<1>8. item' \in Items /\ item' # Null
  <2>1. item' = [api |-> item.api, path |-> item.path, count |-> item.count,
                 current |-> n, strings |-> item'.strings]
    BY <1>1, <1>3 DEF Items
  <2>2. item.path \in PathLengths \cup {Null} BY <1>1 DEF Items
  <2> HIDE DEF n
  <2>3. n \in Nat BY <1>2
  <2> QED BY <1>1, <1>6, <1>7, <2>1, <2>2, <2>3 DEF Items
<1>9. ItemInv'
  BY <1>1, <1>2, <1>4, <1>5, <1>8 DEF ItemInv
<1>10. CallInv'
  <2>1. /\ pc = "params" /\ pc' = pc /\ added' = added + 1 /\ ours' = ours
        /\ UNCHANGED <<lost, leaked>> /\ ours \in BOOLEAN /\ lost \in Nat /\ leaked \in Nat
    BY DEF AddParam, IInv, CallInv
  <2>2. added' \in Nat /\ item'.current <= added' /\ added' <= item'.count
    BY <1>1, <1>2, <1>4, <2>1
  <2> QED BY <1>7, <1>8, <2>1, <2>2 DEF CallInv
<1>11. DetailsInv' BY DEF AddParam, IInv, DetailsInv
<1>12. Held' = Held + 1
  <2>1. Set(item'.strings) = Set(item.strings) \cup {n}
    BY <1>1, <1>2, <1>4
  <2>2. n \notin Set(item.strings) BY <1>1, <1>2
  <2>3. IsFiniteSet(Set(item.strings)) /\ Cardinality(Set(item.strings)) \in Nat
    <3>1. item.count \in Nat BY <1>1
    <3> QED BY <3>1, StringsFinite
  <2>4. Cardinality(Set(item'.strings)) = Cardinality(Set(item.strings)) + 1
    BY <2>1, <2>2, <2>3, FS_AddElement
  <2>5. Held = (IF item.path = Null THEN 0 ELSE 1) + Cardinality(Set(item.strings))
    BY <1>1 DEF Held
  <2>6. Held' = (IF item.path = Null THEN 0 ELSE 1) + Cardinality(Set(item'.strings))
    BY <1>4, <1>7, <1>8 DEF Held
  <2> QED BY <2>3, <2>4, <2>5, <2>6
<1>13. StringsAccounted'
  <2>1. Held \in Nat /\ lost \in Nat /\ leaked \in Nat BY HeldType DEF IInv, CallInv
  <2> QED BY <1>12, <2>1 DEF AddParam, IInv, StringsAccounted
<1> QED BY <1>9, <1>10, <1>11, <1>13 DEF IInv

(* The other steps of a call leave the item and the strings alone. *)
LEMMA StringsStay ==
  ASSUME IInv, UNCHANGED <<item, live, lost, leaked>>
  PROVE  ItemInv' /\ StringsAccounted'
BY HeldStays DEF IInv, StringsAccounted

LEMMA AddWithoutMemoryInv ==
  ASSUME IInv, AddWithoutMemory
  PROVE  IInv'
<1>1. ItemInv' /\ StringsAccounted' BY StringsStay DEF AddWithoutMemory
<1>2. item.count = ParamCount[item.api] /\ item.current \in Nat /\ item.count \in Nat
  BY DEF AddWithoutMemory, IInv, CallInv, ItemInv, Items
<1>3. CallInv' BY <1>2 DEF AddWithoutMemory, IInv, CallInv
<1>4. DetailsInv' BY DEF AddWithoutMemory, IInv, DetailsInv
<1> QED BY <1>1, <1>3, <1>4 DEF IInv

-----------------------------------------------------------------------------
(* Its end.                                                                *)

LEMMA SizeType ==
  ASSUME IInv, pc # "user"
  PROVE  /\ DetailSize \in Int
         /\ \A i \in 1 .. item.count : Length(i) \in Nat
         /\ item.count \in Nat
<1>1. item \in Items /\ item.strings \in [1 .. item.count -> ParamLengths \cup {Null}]
  BY DEF IInv, CallInv, ItemInv
<1>2. item.path \in PathLengths \cup {Null} /\ item.count \in Nat BY <1>1 DEF Items
<1>3. DetailSize \in Int
  <2>1. PathSize \in Nat BY <1>2 DEF PathSize
  <2> QED BY <2>1 DEF DetailSize
<1>4. \A i \in 1 .. item.count : Length(i) \in Nat BY <1>1 DEF Length
<1> QED BY <1>2, <1>3, <1>4

LEMMA EndInv ==
  ASSUME IInv, End \/ EndWithoutDetails
  PROVE  IInv'
<1>1. ItemInv' /\ StringsAccounted' BY StringsStay DEF End, EndWithoutDetails
<1>2. CallInv' BY DEF End, EndWithoutDetails, IInv, CallInv
<1>3. DetailSize' = DetailSize BY HeldStays DEF End, EndWithoutDetails
<1>4. DetailsInv'
  <2>1. CASE End
    <3>1. DetailSize \in Int /\ DetailSize > 0 BY <2>1, SizeType DEF End
    <3> QED BY <1>3, <2>1, <3>1 DEF End, DetailsInv
  <2>2. CASE EndWithoutDetails
    BY <2>2 DEF EndWithoutDetails, NoDetails, DetailsInv
  <2> QED BY <2>1, <2>2
<1> QED BY <1>1, <1>2, <1>4 DEF IInv

LEMMA AppendParamInv ==
  ASSUME IInv, AppendParam
  PROVE  IInv'
<1>1. ItemInv' /\ StringsAccounted' BY StringsStay DEF AppendParam
<1>2. CallInv' BY DEF AppendParam, IInv, CallInv
<1>3. DetailSize' = DetailSize BY HeldStays DEF AppendParam
<1>4. /\ details \in [size : Nat, left : Int, i : Nat, written : Nat, text : Seq(Nat)]
      /\ details.size > 0 /\ details.size = DetailSize
      /\ details.written = details.size - details.left
  BY DEF AppendParam, IInv, DetailsInv
<1> DEFINE i == details.i
           text == IF Another THEN details.text \o <<i, 0>> ELSE details.text \o <<i>>
           left == IF Another THEN Left - 2 ELSE Left
           written == details.written + Length(i) + (IF Another THEN 2 ELSE 0)
<1>5. details' = [size |-> details.size, left |-> left, i |-> i + 1,
                  written |-> written, text |-> text]
  BY <1>4 DEF AppendParam
<1>6. Length(i) \in Nat
  <2>1. i \in 1 .. item.count \/ i = 0 BY <1>4, SizeType DEF AppendParam
  <2>2. i # 0 BY DEF AppendParam, IInv, DetailsInv
  <2> QED BY <2>1, <2>2, SizeType DEF AppendParam
<1>7. Left = details.left - Length(i) /\ Left \in Int /\ Left > 0
  BY <1>4, <1>6 DEF Left, AppendParam
<1>8. left \in Int /\ left > 0 BY <1>7 DEF Another
<1>9. written \in Nat /\ written = details.size - left
  BY <1>4, <1>6, <1>7
<1>10. text \in Seq(Nat) BY <1>4
<1> HIDE DEF i, text, left, written
<1>11. DetailsInv'
  BY <1>3, <1>4, <1>5, <1>8, <1>9, <1>10 DEF DetailsInv, i
<1> QED BY <1>1, <1>2, <1>11 DEF IInv

LEMMA EndLoopInv ==
  ASSUME IInv, EndLoop
  PROVE  IInv'
<1>1. ItemInv' /\ StringsAccounted' BY StringsStay DEF EndLoop
<1>2. CallInv' BY DEF EndLoop, IInv, CallInv
<1>3. DetailsInv' BY HeldStays DEF EndLoop, IInv, DetailsInv
<1> QED BY <1>1, <1>2, <1>3 DEF IInv

LEMMA StoreInv ==
  ASSUME IInv, Store
  PROVE  IInv'
<1>1. ItemInv' /\ StringsAccounted' BY StringsStay DEF Store
<1>2. CallInv' BY DEF Store, IInv, CallInv
<1>3. DetailsInv' BY DEF Store, DetailsInv, NoDetails
<1> QED BY <1>1, <1>2, <1>3 DEF IInv

-----------------------------------------------------------------------------
(* Outside of a call.                                                      *)

LEMMA OwnInv == ASSUME IInv, Own PROVE IInv'
<1>1. ItemInv' /\ StringsAccounted' BY StringsStay DEF Own
<1>2. CallInv' BY DEF Own, IInv, CallInv
<1>3. DetailsInv' BY DEF Own, IInv, DetailsInv
<1> QED BY <1>1, <1>2, <1>3 DEF IInv

LEMMA CleanupInv == ASSUME IInv, Cleanup PROVE IInv'
<1>1. ItemInv' /\ Held' = 0 BY DEF Cleanup, ItemInv, Held
<1>2. CallInv' BY DEF Cleanup, IInv, CallInv
<1>3. DetailsInv' BY DEF Cleanup, IInv, DetailsInv
<1>4. StringsAccounted'
  <2>1. Held \in Nat /\ lost \in Nat /\ leaked \in Nat BY HeldType DEF IInv, CallInv
  <2> QED BY <1>1, <2>1 DEF Cleanup, IInv, StringsAccounted
<1> QED BY <1>1, <1>2, <1>3, <1>4 DEF IInv

LEMMA StutterInv == ASSUME IInv, UNCHANGED vars PROVE IInv'
<1>1. ItemInv' /\ StringsAccounted' BY StringsStay DEF vars
<1>2. CallInv' BY DEF vars, IInv, CallInv
<1>3. DetailsInv' BY HeldStays DEF vars, IInv, DetailsInv
<1> QED BY <1>1, <1>2, <1>3 DEF IInv

LEMMA NextInv == IInv /\ [Next]_vars => IInv'
<1> SUFFICES ASSUME IInv, [Next]_vars PROVE IInv'
  OBVIOUS
<1>1. CASE \E api \in Apis : \E path \in PathsOf(api) :
             BeginRefused(api, path) \/ BeginWithoutItem(path)
  BY <1>1, BeginRefusedInv, BeginWithoutItemInv
<1>2. CASE \E api \in Apis : \E path \in PathsOf(api) : BeginWithoutArray(api, path)
  BY <1>2, BeginWithoutArrayInv
<1>3. CASE \E api \in Apis : \E path \in PathsOf(api) : Begin(api, path)
  BY <1>3, BeginInv
<1>4. CASE \E len \in ParamLengths : AddParam(len)
  BY <1>4, AddParamInv
<1>5. CASE AddWithoutMemory BY <1>5, AddWithoutMemoryInv
<1>6. CASE End \/ EndWithoutDetails BY <1>6, EndInv
<1>7. CASE AppendParam BY <1>7, AppendParamInv
<1>8. CASE EndLoop BY <1>8, EndLoopInv
<1>9. CASE Store BY <1>9, StoreInv
<1>10. CASE Own BY <1>10, OwnInv
<1>11. CASE Cleanup BY <1>11, CleanupInv
<1>12. CASE UNCHANGED vars BY <1>12, StutterInv
<1> QED
  BY <1>1, <1>2, <1>3, <1>4, <1>5, <1>6, <1>7, <1>8, <1>9, <1>10, <1>11, <1>12 DEF Next

THEOREM LogInvariant == Spec => []IInv
<1>1. Init => IInv BY InitInv
<1>2. IInv /\ [Next]_vars => IInv' BY NextInv
<1> QED BY <1>1, <1>2, PTL DEF Spec

-----------------------------------------------------------------------------
(* How much of the parameters the details show.                            *)

LEMMA SetInduction ==
  ASSUME NEW S, 0 \in S, \A n \in Nat : n \in S => n + 1 \in S
  PROVE  Nat \subseteq S
<1> SUFFICES ASSUME Nat \ S # {} PROVE FALSE
  OBVIOUS
<1> DEFINE R == OpToRel(<, Nat)
<1>1. R = {pair \in Nat \X Nat : pair[1] < pair[2]}
  BY DEF OpToRel
<1>2. IsWellFoundedOn(R, Nat)
  BY NatLessThanWellFounded
<1> HIDE DEF R
<1>3. PICK m \in Nat \ S : \A n \in Nat \ S : ~(<<n, m>> \in R)
  BY <1>2, WFMin
<1>4. \A n \in Nat \ S : ~(n < m)
  BY <1>1, <1>3
<1>5. m # 0 /\ m - 1 \in Nat /\ (m - 1) + 1 = m /\ m - 1 < m
  BY <1>3
<1> QED BY <1>3, <1>4, <1>5

(* The length of the first m of count parameters whose lengths are len. *)
Adds(count, len, f) == f = [m \in 0 .. count |-> IF m = 0 THEN 0 ELSE f[m - 1] + len[m]]

LEMMA AddsExists ==
  ASSUME NEW count \in Nat, NEW len
  PROVE  \E f : Adds(count, len, f)
<1> DEFINE Sums(f, n) == \A m \in 0 .. n : f[m] = IF m = 0 THEN 0 ELSE f[m - 1] + len[m]
           Can == {n \in Nat : \E f : Sums(f, n)}
<1>1. 0 \in Can
  <2>1. PICK f : f = [m \in {0} |-> 0]
    OBVIOUS
  <2>2. \A m \in 0 .. 0 : m = 0 /\ f[m] = 0
    BY <2>1
  <2>3. Sums(f, 0)
    BY <2>2
  <2> QED BY <2>3
<1>2. ASSUME NEW n \in Nat, n \in Can PROVE n + 1 \in Can
  <2>1. PICK f : Sums(f, n)
    BY <1>2
  <2>2. PICK g : g = [m \in 0 .. n + 1 |-> IF m = n + 1 THEN f[n] + len[n + 1] ELSE f[m]]
    OBVIOUS
  <2>3. g[n + 1] = f[n] + len[n + 1] /\ \A m \in 0 .. n : g[m] = f[m]
    BY <2>2
  <2>4. ASSUME NEW m \in 0 .. n + 1 PROVE g[m] = IF m = 0 THEN 0 ELSE g[m - 1] + len[m]
    <3>1. CASE m = n + 1
      BY <2>3, <3>1
    <3>2. CASE m # n + 1
      BY <2>1, <2>3, <3>2
    <3> QED BY <3>1, <3>2
  <2>5. Sums(g, n + 1)
    BY <2>4
  <2> QED BY <2>5
<1>3. count \in Can
  BY <1>1, <1>2, SetInduction
<1>4. PICK f : Sums(f, count)
  BY <1>3
<1>5. PICK g : g = [m \in 0 .. count |-> f[m]]
  OBVIOUS
<1>6. ASSUME NEW m \in 0 .. count PROVE g[m] = IF m = 0 THEN 0 ELSE g[m - 1] + len[m]
  BY <1>4, <1>5
<1>7. g = [m \in 0 .. count |-> IF m = 0 THEN 0 ELSE g[m - 1] + len[m]]
  BY <1>5, <1>6
<1> QED BY <1>7 DEF Adds

LEMMA AddsUp ==
  ASSUME NEW count \in Nat, NEW len, \A m \in 1 .. count : len[m] \in Nat,
         NEW f, Adds(count, len, f)
  PROVE  /\ f[0] = 0 /\ \A m \in 1 .. count : f[m] = f[m - 1] + len[m]
         /\ \A m \in 0 .. count : f[m] \in Nat
         /\ \A m, n \in 0 .. count : m =< n => f[m] =< f[n]
<1>1. \A m \in 0 .. count : f[m] = IF m = 0 THEN 0 ELSE f[m - 1] + len[m]
  BY DEF Adds
<1>2. f[0] = 0 /\ \A m \in 1 .. count : f[m] = f[m - 1] + len[m]
  BY <1>1
<1> DEFINE Typed == {n \in Nat : n =< count => f[n] \in Nat}
<1>3. 0 \in Typed
  BY <1>2
<1>4. ASSUME NEW n \in Nat, n \in Typed PROVE n + 1 \in Typed
  <2> SUFFICES ASSUME n + 1 =< count PROVE f[n + 1] \in Nat
    OBVIOUS
  <2>1. n + 1 \in 1 .. count /\ (n + 1) - 1 = n /\ f[n] \in Nat
    BY <1>4
  <2> QED BY <1>2, <2>1
<1>5. Nat \subseteq Typed
  BY <1>3, <1>4, SetInduction
<1>6. \A m \in 0 .. count : f[m] \in Nat
  BY <1>5
<1>7. ASSUME NEW m \in 0 .. count PROVE \A n \in 0 .. count : m =< n => f[m] =< f[n]
  <2> DEFINE Above == {n \in Nat : m =< n /\ n =< count => f[m] =< f[n]}
  <2>1. 0 \in Above
    BY <1>6
  <2>2. ASSUME NEW n \in Nat, n \in Above PROVE n + 1 \in Above
    <3> SUFFICES ASSUME m =< n + 1, n + 1 =< count PROVE f[m] =< f[n + 1]
      OBVIOUS
    <3>1. n + 1 \in 1 .. count /\ n \in 0 .. count /\ (n + 1) - 1 = n
      OBVIOUS
    <3>2. f[n + 1] = f[n] + len[n + 1] /\ len[n + 1] \in Nat
      BY <1>2, <3>1
    <3>3. f[n] \in Nat /\ f[m] \in Nat
      BY <1>6, <3>1
    <3>4. CASE m = n + 1
      BY <3>2, <3>3, <3>4
    <3>5. CASE m # n + 1
      <4>1. f[m] =< f[n]
        BY <2>2, <3>1, <3>5
      <4> QED BY <3>2, <3>3, <4>1
    <3> QED BY <3>4, <3>5
  <2>3. Nat \subseteq Above
    BY <2>1, <2>2, SetInduction
  <2> QED BY <2>3
<1> QED BY <1>2, <1>6, <1>7

(* The parameters of the item. *)
Lengths == [i \in 1 .. item.count |-> Length(i)]
Total == CHOOSE f : f = [m \in 0 .. item.count |-> IF m = 0 THEN 0 ELSE f[m - 1] + Length(m)]

LEMMA TotalIs ==
  ASSUME IInv, pc # "user"
  PROVE  /\ Total[0] = 0 /\ \A m \in 1 .. item.count : Total[m] = Total[m - 1] + Length(m)
         /\ \A m \in 0 .. item.count : Total[m] \in Nat
         /\ \A m, n \in 0 .. item.count : m =< n => Total[m] =< Total[n]
         /\ \A n \in 0 .. item.count : Fits(n) <=> Total[n] + 2 * (n - 1) < details.size
<1>1. PICK count \in Nat : count = item.count
  BY SizeType
<1>2. PICK len : len = Lengths
  OBVIOUS
<1>3. \A m \in 1 .. count : len[m] = Length(m) /\ len[m] \in Nat
  BY <1>1, <1>2, SizeType DEF Lengths
<1>4. ASSUME NEW f
      PROVE  Adds(count, len, f)
               <=> f = [m \in 0 .. count |-> IF m = 0 THEN 0 ELSE f[m - 1] + Length(m)]
  <2>1. [m \in 0 .. count |-> IF m = 0 THEN 0 ELSE f[m - 1] + len[m]]
          = [m \in 0 .. count |-> IF m = 0 THEN 0 ELSE f[m - 1] + Length(m)]
    BY <1>3
  <2> QED BY <2>1 DEF Adds
<1>5. PICK f : f = Total
  OBVIOUS
<1>6. Adds(count, len, f)
  <2>1. PICK g : Adds(count, len, g)
    BY AddsExists
  <2>2. g = [m \in 0 .. count |-> IF m = 0 THEN 0 ELSE g[m - 1] + Length(m)]
    BY <1>4, <2>1
  <2>3. f = [m \in 0 .. count |-> IF m = 0 THEN 0 ELSE f[m - 1] + Length(m)]
    BY <1>1, <1>5, <2>2 DEF Total
  <2> QED BY <1>4, <2>3
<1>7. /\ f[0] = 0 /\ \A m \in 1 .. count : f[m] = f[m - 1] + len[m]
      /\ \A m \in 0 .. count : f[m] \in Nat
      /\ \A m, n \in 0 .. count : m =< n => f[m] =< f[n]
  BY <1>3, <1>6, AddsUp
<1>8. \A n \in 0 .. count : Fits(n) <=> f[n] + 2 * (n - 1) < details.size
  BY <1>5 DEF Fits, Total
<1> QED BY <1>1, <1>3, <1>5, <1>7, <1>8

(* Parameters and separators take turns. *)
Turn(j) == IF j % 2 = 1 THEN (j + 1) \div 2 ELSE 0
Alternates(text) == \A j \in 1 .. Len(text) : text[j] = Turn(j)

LEMMA ShownIs ==
  ASSUME NEW text \in Seq(Nat), Alternates(text), NEW k \in Nat,
         Len(text) = 2 * k \/ (k > 0 /\ Len(text) = 2 * k - 1)
  PROVE  Cardinality({j \in DOMAIN text : text[j] # 0}) = k
<1>1. PICK len \in Nat : len = Len(text) /\ DOMAIN text = 1 .. len
  OBVIOUS
<1>2. PICK S : S = {j \in DOMAIN text : text[j] # 0}
  OBVIOUS
<1>3. \A j \in 1 .. len : text[j] # 0 <=> j % 2 = 1
  <2>1. \A j \in 1 .. len : Turn(j) # 0 <=> j % 2 = 1
    BY DEF Turn
  <2> QED BY <1>1, <2>1 DEF Alternates
<1>4. PICK f : f = [m \in 1 .. k |-> 2 * m - 1]
  OBVIOUS
<1>5. ASSUME NEW m \in 1 .. k PROVE f[m] = 2 * m - 1 /\ f[m] \in S
  <2>1. 2 * m - 1 \in 1 .. len /\ (2 * m - 1) % 2 = 1
    BY <1>1
  <2> QED BY <1>1, <1>2, <1>3, <1>4, <2>1
<1>6. ASSUME NEW j \in S PROVE \E m \in 1 .. k : f[m] = j
  <2>1. j \in 1 .. len /\ j % 2 = 1
    BY <1>1, <1>2, <1>3
  <2>2. PICK m \in 1 .. k : j = 2 * m - 1
    <3>1. (j + 1) \div 2 \in 1 .. k /\ j = 2 * ((j + 1) \div 2) - 1
      BY <1>1, <2>1
    <3> QED BY <3>1
  <2> QED BY <1>5, <2>2
<1>7. f \in Bijection(1 .. k, S)
  <2>1. f \in [1 .. k -> S]
    BY <1>4, <1>5
  <2>2. \A m, n \in 1 .. k : f[m] = f[n] => m = n
    BY <1>5
  <2> QED BY <1>6, <2>1, <2>2 DEF Bijection, Injection, Surjection, IsInjective
<1>8. Cardinality(S) = Cardinality(1 .. k) /\ Cardinality(1 .. k) = k
  <2>1. IsFiniteSet(1 .. k) /\ Cardinality(1 .. k) = k
    <3>1. IsFiniteSet(1 .. k) /\ Cardinality(1 .. k) = IF 1 > k THEN 0 ELSE k - 1 + 1
      <4>1. 1 \in Int /\ k \in Int
        OBVIOUS
      <4> QED BY <4>1, FS_Interval
    <3> QED BY <3>1
  <2> QED BY <1>7, <2>1, FS_Bijection DEF ExistsBijection
<1> QED BY <1>2, <1>8

(* k parameters are shown, and the next one may come (More), or it may not,  *)
(* as there is none or no room (NoMore). *)
More(text, left, k) ==
  /\ k < item.count
  /\ Len(text) = 2 * k /\ left = details.size - Total[k] - 2 * k

NoMore(text, left, k) ==
  /\ k > 0
  /\ Len(text) = 2 * k - 1 /\ left = details.size - Total[k] - 2 * (k - 1)
  /\ k = item.count \/ left =< 2

Showing(k) ==
  /\ k \in 0 .. item.count
  /\ Alternates(details.text)
  /\ More(details.text, details.left, k) \/ NoMore(details.text, details.left, k)

PrefixInv ==
  pc \in {"details", "store"} /\ details.size > 0 =>
    /\ Showing(details.i - 1)
    /\ pc = "store" /\ details.i =< item.count => Left =< 0

(* What PrefixInv says of a step that leaves the parameters alone. *)
LEMMA TotalStays == UNCHANGED item => Total' = Total
BY DEF Total, Length

(* One round of the loop takes the next turn, or the next two. *)
LEMMA TakesTurn ==
  ASSUME NEW text \in Seq(Nat), Alternates(text), NEW k \in Nat, Len(text) = 2 * k,
         NEW i, i = k + 1
  PROVE  /\ Len(text \o <<i>>) = 2 * i - 1 /\ Alternates(text \o <<i>>)
         /\ Len(text \o <<i, 0>>) = 2 * i /\ Alternates(text \o <<i, 0>>)
<1>1. \A j \in 1 .. 2 * k : text[j] = Turn(j)
  BY DEF Alternates
<1>2. /\ <<i>> \in Seq(Nat) /\ Len(<<i>>) = 1 /\ <<i>>[1] = i
      /\ <<i, 0>> \in Seq(Nat) /\ Len(<<i, 0>>) = 2 /\ <<i, 0>>[1] = i /\ <<i, 0>>[2] = 0
  OBVIOUS
<1>3. PICK a : a = text \o <<i>>
  OBVIOUS
<1>4. Len(a) = 2 * k + 1 /\ \A j \in 1 .. 2 * k + 1 : a[j] = IF j =< 2 * k THEN text[j] ELSE i
  <2>1. /\ Len(a) = 2 * k + 1
        /\ \A j \in 1 .. 2 * k + 1 : a[j] = IF j =< 2 * k THEN text[j] ELSE <<i>>[j - 2 * k]
    BY <1>2, <1>3, ConcatProperties
  <2>2. \A j \in 1 .. 2 * k + 1 : ~(j =< 2 * k) => j - 2 * k = 1
    OBVIOUS
  <2> QED BY <1>2, <2>1, <2>2
<1>5. Alternates(a)
  <2>1. ASSUME NEW j \in 1 .. 2 * k + 1
        PROVE  a[j] = Turn(j)
    <3>1. CASE j =< 2 * k
      BY <1>1, <1>4, <3>1
    <3>2. CASE ~(j =< 2 * k)
      <4>1. j = 2 * k + 1 /\ Turn(j) = i
        BY <3>2 DEF Turn
      <4> QED BY <1>4, <3>2, <4>1
    <3> QED BY <3>1, <3>2
  <2> QED BY <1>4, <2>1 DEF Alternates
<1>6. PICK b : b = text \o <<i, 0>>
  OBVIOUS
<1>7. /\ Len(b) = 2 * k + 2
      /\ \A j \in 1 .. 2 * k + 2 :
           b[j] = IF j =< 2 * k THEN text[j] ELSE IF j = 2 * k + 1 THEN i ELSE 0
  <2>1. /\ Len(b) = 2 * k + 2
        /\ \A j \in 1 .. 2 * k + 2 : b[j] = IF j =< 2 * k THEN text[j] ELSE <<i, 0>>[j - 2 * k]
    BY <1>2, <1>6, ConcatProperties
  <2>2. \A j \in 1 .. 2 * k + 2 :
          ~(j =< 2 * k) => j - 2 * k = IF j = 2 * k + 1 THEN 1 ELSE 2
    OBVIOUS
  <2> QED BY <1>2, <2>1, <2>2
<1>8. Alternates(b)
  <2>1. ASSUME NEW j \in 1 .. 2 * k + 2
        PROVE  b[j] = Turn(j)
    <3>1. CASE j =< 2 * k
      BY <1>1, <1>7, <3>1
    <3>2. CASE j = 2 * k + 1
      <4>1. Turn(j) = i
        BY <3>2 DEF Turn
      <4> QED BY <1>7, <3>2, <4>1
    <3>3. CASE j = 2 * k + 2
      <4>1. Turn(j) = 0 /\ ~(j =< 2 * k) /\ j # 2 * k + 1
        BY <3>3 DEF Turn
      <4> QED BY <1>7, <4>1
    <3> QED BY <3>1, <3>2, <3>3
  <2> QED BY <1>7, <2>1 DEF Alternates
<1> QED BY <1>3, <1>4, <1>5, <1>6, <1>7, <1>8

LEMMA EndShows ==
  ASSUME IInv, IInv', End
  PROVE  PrefixInv'
<1>1. PICK size \in Nat : size = DetailSize /\ size > 0
  BY SizeType DEF End
<1>2. details' = [size |-> size, left |-> size, i |-> 1, written |-> 0, text |-> <<>>]
  BY <1>1 DEF End
<1>3. item' = item /\ pc' = "details" /\ pc # "user"
  BY DEF End
<1>4. item.count \in Nat \ {0}
  <2>1. item # Null /\ item \in Items /\ item.count = ParamCount[item.api]
    BY <1>3 DEF IInv, CallInv, ItemInv
  <2> QED BY <2>1, CountType DEF Items
<1>5. Total' = Total /\ Total[0] = 0
  BY <1>3, TotalStays, TotalIs
<1>6. details'.i - 1 = 0 /\ details'.text = <<>> /\ details'.left = size /\ details'.size = size
  BY <1>2
<1>7. Showing(0)'
  BY <1>3, <1>4, <1>5, <1>6 DEF Showing, More, Alternates
<1> QED BY <1>3, <1>6, <1>7 DEF PrefixInv

LEMMA AppendShows ==
  ASSUME IInv, PrefixInv, AppendParam
  PROVE  PrefixInv'
<1>1. /\ details \in [size : Nat, left : Int, i : Nat, written : Nat, text : Seq(Nat)]
      /\ details.size > 0 /\ details.i > 0 /\ pc = "details" /\ details.i =< item.count
      /\ Left > 0 /\ item' = item /\ pc' = "details"
  BY DEF AppendParam, IInv, DetailsInv
<1>2. PICK i \in Nat \ {0} : i = details.i
  BY <1>1
<1>3. PICK k \in Nat : k = i - 1 /\ Showing(k)
  BY <1>1, <1>2 DEF PrefixInv
<1>4. PICK count \in Nat : count = item.count
  BY <1>1, SizeType
<1>5. PICK left \in Int : left = details.left
  BY <1>1
<1>6. PICK size \in Nat : size = details.size
  BY <1>1
<1>7. PICK len \in Nat : len = Length(i) /\ len >= 2 /\ Left = left - len /\ left - len > 0
  <2>1. i \in 1 .. item.count
    BY <1>1, <1>2, <1>4
  <2>2. Length(i) \in Nat /\ Length(i) >= 2
    <3>1. item.strings \in [1 .. item.count -> ParamLengths \cup {Null}]
      BY <1>1 DEF IInv, CallInv, ItemInv
    <3>2. item.strings[i] \in ParamLengths \cup {Null}
      BY <2>1, <3>1
    <3>3. PICK s \in ParamLengths \cup {Null} : s = item.strings[i]
      BY <3>2
    <3>4. Length(i) = IF s = Null THEN 6 ELSE s
      BY <3>3 DEF Length
    <3>5. s # Null => s \in Nat /\ s >= 2
      BY <3>3
    <3> QED BY <3>4, <3>5
  <2> QED BY <1>1, <1>2, <1>5, <2>2 DEF Left
<1>8. PICK text \in Seq(Nat) : text = details.text
  BY <1>1
<1>9. PICK sum \in Nat : sum = Total[k] /\ Total[i] = sum + len /\ i \in 1 .. count
  <2>1. i \in 1 .. item.count /\ k \in 0 .. item.count
    BY <1>1, <1>2, <1>3, <1>4
  <2>2. Total[i] = Total[i - 1] + Length(i) /\ Total[k] \in Nat
    BY <1>1, <2>1, TotalIs
  <2> QED BY <1>3, <1>4, <1>7, <2>1, <2>2
(* It could come only if there was more. *)
<1>10. Len(text) = 2 * k /\ left = size - sum - 2 * k /\ Alternates(text)
  <2>1. ~NoMore(text, left, k)
    <3>1. k # count /\ left > 2
      BY <1>3, <1>7, <1>9
    <3> QED BY <1>4, <3>1 DEF NoMore
  <2>2. More(text, left, k) /\ Alternates(text)
    BY <1>3, <1>5, <1>8, <2>1 DEF Showing
  <2> QED BY <1>6, <1>9, <2>2 DEF More
<1>11. Another <=> i # count /\ left - len > 2
  BY <1>2, <1>4, <1>7 DEF Another
<1>12. /\ details'.left = (IF Another THEN Left - 2 ELSE Left) /\ details'.size = details.size
       /\ details'.text = (IF Another THEN details.text \o <<details.i, 0>>
                                      ELSE details.text \o <<details.i>>)
       /\ details'.i = details.i + 1
  BY <1>1 DEF AppendParam
<1>13. details'.size = size /\ details'.i = i + 1
  BY <1>2, <1>6, <1>12
<1>16. Total' = Total
  BY <1>1, TotalStays
<1>i. i = k + 1 /\ left = size - sum - 2 * k /\ i \in 1 .. count
  BY <1>3, <1>9, <1>10
<1>14. ASSUME Another PROVE Showing(i)'
  <2>1. PICK text2 : text2 = text \o <<i, 0>>
    OBVIOUS
  <2>2. Alternates(text2) /\ Len(text2) = 2 * i
    BY <1>i, <1>10, <2>1, TakesTurn
  <2>3. details'.text = text2 /\ details'.left = left - len - 2
    BY <1>2, <1>7, <1>8, <1>12, <1>14, <2>1
  <2>4. i < count /\ left - len - 2 = size - (sum + len) - 2 * i
    BY <1>i, <1>11, <1>14
  <2>5. item'.count = count /\ Total'[i] = sum + len
    BY <1>1, <1>4, <1>9, <1>16
  <2>6. More(text2, left - len - 2, i)'
    BY <1>13, <2>2, <2>4, <2>5 DEF More
  <2> QED BY <1>9, <2>2, <2>3, <2>5, <2>6 DEF Showing
<1>15. ASSUME ~Another PROVE Showing(i)'
  <2>1. PICK text2 : text2 = text \o <<i>>
    OBVIOUS
  <2>2. Alternates(text2) /\ Len(text2) = 2 * i - 1
    BY <1>i, <1>10, <2>1, TakesTurn
  <2>3. details'.text = text2 /\ details'.left = left - len
    BY <1>2, <1>7, <1>8, <1>12, <1>15, <2>1
  <2>4. /\ i > 0 /\ left - len = size - (sum + len) - 2 * (i - 1)
        /\ i = count \/ left - len =< 2
    BY <1>i, <1>11, <1>15
  <2>5. item'.count = count /\ Total'[i] = sum + len
    BY <1>1, <1>4, <1>9, <1>16
  <2>6. NoMore(text2, left - len, i)'
    BY <1>13, <2>2, <2>4, <2>5 DEF NoMore
  <2> QED BY <1>9, <2>2, <2>3, <2>5, <2>6 DEF Showing
<1>17. Showing(i)'
  BY <1>14, <1>15
<1>18. details'.i - 1 = i
  BY <1>13
<1> QED BY <1>1, <1>17, <1>18 DEF PrefixInv

LEMMA EndLoopShows ==
  ASSUME IInv, PrefixInv, EndLoop
  PROVE  PrefixInv'
<1>1. UNCHANGED <<item, details>> /\ pc = "details" /\ pc' = "store"
      /\ (details.i =< item.count => Left =< 0)
  BY DEF EndLoop
<1>2. Total' = Total /\ Left' = Left
  BY <1>1, TotalStays DEF Left, Length
<1>3. details.size > 0 /\ Showing(details.i - 1)
  BY <1>1 DEF IInv, DetailsInv, PrefixInv
<1>4. Showing(details.i - 1)'
  BY <1>1, <1>2, <1>3 DEF Showing, More, NoMore
<1> QED BY <1>1, <1>2, <1>4 DEF PrefixInv

LEMMA ElsewhereShows ==
  ASSUME pc' \in {"user", "params"} \/ details' = NoDetails
  PROVE  PrefixInv'
BY DEF PrefixInv, NoDetails

LEMMA StutterShows ==
  ASSUME PrefixInv, UNCHANGED vars
  PROVE  PrefixInv'
BY TotalStays DEF PrefixInv, vars, Showing, More, NoMore, Left, Length

LEMMA NextShows ==
  ASSUME IInv, IInv', PrefixInv, [Next]_vars
  PROVE  PrefixInv'
<1>1. CASE \E api \in Apis : \E path \in PathsOf(api) :
              \/ BeginRefused(api, path) \/ BeginWithoutItem(path)
              \/ BeginWithoutArray(api, path) \/ Begin(api, path)
  BY <1>1, ElsewhereShows DEF BeginRefused, BeginWithoutItem, BeginWithoutArray, Begin
<1>2. CASE (\E len \in ParamLengths : AddParam(len)) \/ AddWithoutMemory
  BY <1>2, ElsewhereShows DEF AddParam, AddWithoutMemory
<1>3. CASE EndWithoutDetails \/ Store \/ Own \/ Cleanup
  BY <1>3, ElsewhereShows DEF EndWithoutDetails, Store, Own, Cleanup
<1> QED BY <1>1, <1>2, <1>3, EndShows, AppendShows, EndLoopShows, StutterShows DEF Next

-----------------------------------------------------------------------------
(* What follows from it.                                                   *)

(* Every variable of the call log has its type: the parameters added never *)
(* run over the array allocated for the call (log.c:336-347, 425).         *)
THEOREM LogTypeCorrect == Spec => []TypeOK
<1>1. IInv => TypeOK
  <2> SUFFICES ASSUME IInv PROVE TypeOK
    OBVIOUS
  <2>1. live \in Nat BY HeldType DEF IInv, StringsAccounted, CallInv
  <2>2. item = Null \/
          /\ item \in Items
          /\ item.current <= item.count
          /\ item.strings = Null \/ DOMAIN item.strings = 1 .. item.count
    BY DEF IInv, ItemInv
  <2> QED BY <2>1, <2>2 DEF IInv, CallInv, DetailsInv, TypeOK
<1> QED BY <1>1, LogInvariant, PTL

(* Whatever allocations fail and whichever calls never end, the slot leads *)
(* to every string that is allocated, but for the copied paths of the log  *)
(* program's calls and of calls that found no memory for their item        *)
(* (log.c:75-91, 229-250, 309-313, 355-360). *)
THEOREM NoStringLost == Spec => []StringsAccounted
<1>1. IInv => StringsAccounted BY DEF IInv
<1> QED BY <1>1, LogInvariant, PTL

(* For all lengths of paths and parameters, the details fit their buffer   *)
(* with the terminating zero, and the record its largest size unless       *)
(* header and path alone exceed that (log.c:558-568, 583-617).             *)
THEOREM DetailsAlwaysFit == Spec => []DetailsFit
<1>1. IInv => DetailsFit
  <2> SUFFICES ASSUME IInv, pc \in {"details", "store"}
               PROVE  /\ details.size > 0 => details.written < details.size
                      /\ \/ FullSize <= RECORD_MAX_SIZE
                         \/ HeaderSize + PathSize + 2 > RECORD_MAX_SIZE
    BY DEF DetailsFit
  <2>1. item \in Items BY DEF IInv, ItemInv, CallInv
  <2>2. item.path \in Nat \cup {Null} BY <2>1 DEF Items
  <2>3. CASE details.size > 0
    <3>1. /\ details.size \in Nat /\ details.left \in Int /\ details.written \in Nat
          /\ details.size = DetailSize
          /\ details.written = details.size - details.left /\ details.left > 0
      BY <2>3 DEF IInv, DetailsInv
    <3>2. details.written + 1 <= details.size BY <3>1
    <3>3. FullSize <= RECORD_MAX_SIZE
      BY <2>2, <3>1, <3>2 DEF FullSize, DetailSize, PathSize
    <3> QED BY <3>1, <3>2, <3>3
  <2>4. CASE ~(details.size > 0)
    <3>1. details.size = 0 /\ details.written = 0
      BY <2>4 DEF IInv, DetailsInv
    <3>2. FullSize =< HeaderSize + PathSize + 2
      BY <2>2, <3>1 DEF FullSize, PathSize
    <3>3. FullSize \in Int /\ HeaderSize + PathSize + 2 \in Int
      BY <2>2, <3>1 DEF FullSize, PathSize
    <3> QED BY <3>1, <3>2, <3>3
  <2> QED BY <2>3, <2>4
<1> QED BY <1>1, LogInvariant, PTL

(* What is stored when the loop has ended. *)
LEMMA PrefixLongest ==
  ASSUME IInv, PrefixInv
  PROVE  LongestPrefix
<1> SUFFICES ASSUME pc = "store", details.size > 0
             PROVE  /\ \A n \in 1 .. item.count : Fits(n) <=> n <= Shown
                    /\ \A j \in DOMAIN details.text :
                         details.text[j] = IF j % 2 = 1 THEN (j + 1) \div 2 ELSE 0
  BY DEF LongestPrefix
<1>1. /\ details \in [size : Nat, left : Int, i : Nat, written : Nat, text : Seq(Nat)]
      /\ details.left > 0
  BY DEF IInv, DetailsInv
<1>2. PICK k : k = details.i - 1
  OBVIOUS
<1>3. Showing(k) /\ (details.i =< item.count => Left =< 0)
  BY <1>2 DEF PrefixInv
<1>4. PICK count \in Nat : count = item.count /\ k \in 0 .. count /\ details.i = k + 1
  BY <1>1, <1>2, <1>3, SizeType DEF Showing
<1>5. PICK text \in Seq(Nat) : text = details.text
  BY <1>1
<1>6. PICK left \in Nat : left = details.left /\ left > 0
  BY <1>1
<1>7. PICK size \in Nat : size = details.size
  BY <1>1
<1>8. PICK total : total = Total
  OBVIOUS
<1>9. /\ \A m \in 1 .. count : total[m] = total[m - 1] + Length(m)
      /\ \A m \in 0 .. count : total[m] \in Nat
      /\ \A m, n \in 0 .. count : m =< n => total[m] =< total[n]
      /\ \A n \in 0 .. count : Fits(n) <=> total[n] + 2 * (n - 1) < size
  BY <1>4, <1>7, <1>8, TotalIs
<1>10. /\ Alternates(text)
       /\ \/ k < count /\ Len(text) = 2 * k /\ left = size - total[k] - 2 * k
          \/ /\ k > 0 /\ Len(text) = 2 * k - 1 /\ left = size - total[k] - 2 * (k - 1)
             /\ k = count \/ left =< 2
  BY <1>3, <1>4, <1>5, <1>6, <1>7, <1>8 DEF Showing, More, NoMore
<1>11. Shown = k
  <2>1. k \in Nat /\ (Len(text) = 2 * k \/ (k > 0 /\ Len(text) = 2 * k - 1))
    BY <1>4, <1>10
  <2> QED BY <1>5, <1>10, <2>1, ShownIs DEF Shown
<1>12. k > 0 => total[k] + 2 * (k - 1) < size
  <2>1. PICK sum \in Nat : sum = total[k]
    BY <1>4, <1>9
  <2>2. left = size - sum - 2 * k \/ left = size - sum - 2 * (k - 1)
    BY <1>10, <2>1
  <2>3. k \in Nat
    BY <1>4
  <2>4. sum + 2 * (k - 1) < size
    BY <1>6, <2>2, <2>3
  <2> QED BY <2>1, <2>4
<1>13. k < count => total[k + 1] + 2 * k >= size
  <2> SUFFICES ASSUME k < count PROVE total[k + 1] + 2 * k >= size
    OBVIOUS
  <2>1. k + 1 \in 1 .. count /\ (k + 1) - 1 = k /\ k \in 0 .. count
    BY <1>4
  <2>2. PICK len \in Nat : len = Length(k + 1)
    BY <1>4, <2>1, SizeType
  <2>3. PICK sum \in Nat : sum = total[k] /\ total[k + 1] = sum + len
    BY <1>9, <2>1, <2>2
  <2>4. left - len =< 0
    BY <1>3, <1>4, <1>6, <2>1, <2>2 DEF Left
  <2>5. left = size - sum - 2 * k \/ (left = size - sum - 2 * (k - 1) /\ left =< 2)
    BY <1>4, <1>10, <2>3
  <2>6. k \in Nat
    BY <1>4
  <2>7. sum + len + 2 * k >= size
    BY <2>4, <2>5, <2>6
  <2> QED BY <2>3, <2>7
<1>14. ASSUME NEW n \in 1 .. count PROVE Fits(n) <=> n <= k
  <2>1. n \in 0 .. count /\ k \in 0 .. count /\ total[n] \in Nat /\ total[k] \in Nat
    BY <1>4, <1>9
  <2>2. CASE n =< k
    <3>1. total[n] =< total[k] /\ k > 0
      BY <1>9, <2>1, <2>2
    <3> QED BY <1>9, <1>12, <2>1, <2>2, <3>1
  <2>3. CASE k < n
    <3>1. k + 1 \in 0 .. count /\ total[k + 1] \in Nat /\ total[k + 1] =< total[n]
      BY <1>9, <2>1, <2>3
    <3>2. PICK sum \in Nat, all \in Nat : sum = total[k + 1] /\ all = total[n]
      BY <2>1, <3>1
    <3>3. sum + 2 * k >= size /\ sum =< all /\ k \in Nat /\ n \in Nat /\ k + 1 =< n
      BY <1>4, <1>13, <2>3, <3>1, <3>2
    <3>4. ~(all + 2 * (n - 1) < size)
      BY <3>3
    <3>5. Fits(n) <=> all + 2 * (n - 1) < size
      BY <1>9, <2>1, <3>2
    <3> QED BY <2>3, <3>3, <3>4, <3>5
  <2> QED BY <2>1, <2>2, <2>3
<1>15. \A j \in DOMAIN text : text[j] = IF j % 2 = 1 THEN (j + 1) \div 2 ELSE 0
  BY <1>10 DEF Alternates, Turn
<1> QED BY <1>4, <1>5, <1>11, <1>14, <1>15

(* For all lengths of paths and parameters and any size of the buffer, the *)
(* details of a record show the longest prefix of the parameters that fits *)
(* with its separators, in order and each separated from the next          *)
(* (log.c:583-617).                                                        *)
THEOREM LongestShown == Spec => []LongestPrefix
<1>1. Init => PrefixInv
  BY DEF Init, PrefixInv
<1>2. IInv /\ IInv' /\ PrefixInv /\ [Next]_vars => PrefixInv'
  BY NextShows
<1>3. IInv /\ PrefixInv => LongestPrefix
  BY PrefixLongest
<1> QED BY <1>1, <1>2, <1>3, LogInvariant, PTL DEF Spec
=============================================================================
