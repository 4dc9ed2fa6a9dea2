---------------------------- MODULE ProcessProofs ----------------------------
(***************************************************************************)
(* Proofs about the records of ProcessTable: whom they belong to and what  *)
(* they say of the process that has the pid; and about the list they are   *)
(* on, which is changed without proc_sem: its walk ends, and what it does  *)
(* not meet was linked by two processes at once.                           *)
(***************************************************************************)
EXTENDS ProcessTable, FiniteSetTheorems, WellFoundedInduction, TLAPS

USE ProcessAssumption DEF table, world, vars

Places == {"user", "link", "head", "publish", "body", "execve"}
Fields == [next : Records \cup {Null}, start_time : Nat, filename : Nat,
           before_execve : BOOLEAN, files : {"none", "some", "freed"}]

(* The record process p has published, or has in hand. *)
Has(p, r) == r # Null /\ (process_cache[p] = r \/ mine[p] = r)

(* A record is allocated, and one process has it; a process has one. *)
OwnRecord ==
  /\ \A p \in Pids, r \in Records : Has(p, r) => r \in heap
  /\ \A p, q \in Pids, r \in Records : Has(p, r) /\ Has(q, r) => p = q
  /\ \A p \in Pids : mine[p] # Null => process_cache[p] = Null

(* What a record says: it is not of a later process than the one that has  *)
(* the pid; when it is of this one, and no execve was announced, it names  *)
(* its program. *)
Describes(p, r) ==
  /\ record[r].start_time <= started[p]
  /\ record[r].start_time = started[p] /\ ~record[r].before_execve =>
       record[r].filename = image[p]
  /\ pc[p] = "execve" => record[r].before_execve
  /\ pc[p] \notin {"user", "execve"} =>
       record[r].start_time = started[p] /\ record[r].filename = image[p]

IInv ==
  /\ TypeOK
  /\ OwnRecord
  /\ \A p \in Pids, r \in Records : Has(p, r) => Describes(p, r)
  /\ \A r \in Records : record[r].files # "freed"

LEMMA InitInv == Init => IInv
<1> SUFFICES ASSUME Init PROVE IInv
  OBVIOUS
<1>1. TypeOK BY DEF Init, TypeOK, Blank
<1>2. \A p \in Pids, r \in Records : ~Has(p, r) BY DEF Init, Has
<1>3. \A r \in Records : record[r].files # "freed" BY DEF Init, Blank
<1>4. \A p \in Pids : mine[p] = Null BY DEF Init
<1> QED BY <1>1, <1>2, <1>3, <1>4 DEF IInv, OwnRecord

-----------------------------------------------------------------------------
(* A step of process p on its own record r, which changes nobody else's.   *)

(* What such a step has to show. *)
LEMMA OwnStep ==
  ASSUME IInv, TypeOK', NEW p \in Pids, NEW r \in Records,
         \A q \in Pids : q # p =>
           /\ process_cache'[q] = process_cache[q] /\ mine'[q] = mine[q]
           /\ pc'[q] = pc[q] /\ started'[q] = started[q] /\ image'[q] = image[q],
         \A s \in Records : s # r => record'[s] = record[s],
         heap \subseteq heap', r \in heap',
         Has(p, r) \/ r \notin heap,
         \A s \in Records : Has(p, s)' => s = r,
         mine'[p] # Null => process_cache'[p] = Null,
         Has(p, r)' => Describes(p, r)',
         record'[r].files # "freed"
  PROVE  IInv'
<1>1. \A q \in Pids, s \in Records : q # p => (Has(q, s)' <=> Has(q, s)) BY DEF Has
<1>2. \A q \in Pids : q # p => ~Has(q, r) BY DEF IInv, OwnRecord
<1>3. OwnRecord'
  <2>1. ASSUME NEW q \in Pids, NEW s \in Records, Has(q, s)' PROVE s \in heap'
    BY <1>1, <2>1 DEF IInv, OwnRecord
  <2>2. ASSUME NEW q \in Pids, NEW u \in Pids, NEW s \in Records, Has(q, s)', Has(u, s)'
        PROVE  q = u
    BY <1>1, <1>2, <2>2 DEF IInv, OwnRecord
  <2>3. \A q \in Pids : mine'[q] # Null => process_cache'[q] = Null
    BY DEF IInv, OwnRecord
  <2> QED BY <2>1, <2>2, <2>3 DEF OwnRecord
<1>4. ASSUME NEW q \in Pids, NEW s \in Records, Has(q, s)' PROVE Describes(q, s)'
  <2>1. CASE q = p BY <1>4, <2>1
  <2>2. CASE q # p
    <3>1. Has(q, s) /\ s # r BY <1>1, <1>2, <1>4, <2>2
    <3> QED BY <2>2, <3>1 DEF IInv, Describes
  <2> QED BY <2>1, <2>2
<1>5. \A s \in Records : record'[s].files # "freed" BY DEF IInv
<1> QED BY <1>3, <1>4, <1>5 DEF IInv

(* A step of p that leaves the records and who has them alone. *)
LEMMA PlainStep ==
  ASSUME IInv, TypeOK', NEW p \in Pids,
         UNCHANGED <<process_cache, mine, record, heap>>,
         \A q \in Pids : q # p =>
           pc'[q] = pc[q] /\ started'[q] = started[q] /\ image'[q] = image[q],
         \A r \in Records : Has(p, r) => Describes(p, r)'
  PROVE  IInv'
<1>1. \A q \in Pids, r \in Records : Has(q, r)' <=> Has(q, r) BY DEF Has
<1>2. OwnRecord' BY <1>1 DEF IInv, OwnRecord
<1>3. ASSUME NEW q \in Pids, NEW r \in Records, Has(q, r)' PROVE Describes(q, r)'
  BY <1>1, <1>3 DEF IInv, Describes
<1> QED BY <1>2, <1>3 DEF IInv

-----------------------------------------------------------------------------
(* The types of records.                                                   *)

LEMMA BlankType == Blank \in Fields /\ Blank.files # "freed"
BY DEF Blank, Fields

LEMMA BuiltType ==
  ASSUME NEW p \in Pids, NEW r \in Fields, started[p] \in Nat, image[p] \in Nat
  PROVE  /\ Built(p, r) \in Fields
         /\ Built(p, r).start_time = started[p] /\ Built(p, r).filename = image[p]
         /\ ~Built(p, r).before_execve /\ Built(p, r).files = "none"
BY DEF Built, Fields

LEMMA FreedType == ASSUME NEW r \in Fields PROVE FilesFreed(r) \in Fields
BY DEF FilesFreed, Fields

(* A call in progress, and the record of its process. *)
LEMMA CallerHas ==
  ASSUME IInv, NEW p \in Pids
  PROVE  /\ record \in [Records -> Fields]
         /\ process_cache[p] \in Records \cup {Null} /\ mine[p] \in Records \cup {Null}
         /\ process_cache[p] # Null =>
              /\ Has(p, process_cache[p]) /\ process_cache[p] \in heap
              /\ mine[p] = Null
         /\ mine[p] # Null =>
              /\ Has(p, mine[p]) /\ mine[p] \in heap
              /\ process_cache[p] = Null
         /\ pc[p] \in Places
         /\ mine[p] = Null <=> pc[p] \in {"user", "body", "execve"}
         /\ started[p] \in Nat /\ image[p] \in Nat
BY DEF IInv, OwnRecord, TypeOK, Has, Fields, Places

-----------------------------------------------------------------------------
(* notify_enter.                                                           *)

LEMMA EnterKnownInv == ASSUME IInv, NEW p \in Pids, EnterKnown(p) PROVE IInv'
<1>1. TypeOK' BY CallerHas DEF EnterKnown, Goto, IInv, TypeOK, Places
<1>2. pc' = [pc EXCEPT ![p] = "body"] /\ pc \in [Pids -> Places]
  BY DEF EnterKnown, Goto, IInv, TypeOK, Places
<1>3. ASSUME NEW r \in Records, Has(p, r) PROVE Describes(p, r)'
  <2>1. r = process_cache[p] BY <1>3, CallerHas DEF EnterKnown, Goto, Has
  <2> QED BY <1>2, <1>3, <2>1 DEF EnterKnown, IInv, Describes
<1> QED BY <1>1, <1>2, <1>3, PlainStep DEF EnterKnown

(* The record of the caller is built again. *)
LEMMA BuildAgain ==
  ASSUME IInv, NEW p \in Pids, NEW r \in Records, NEW old \in Fields,
         process_cache[p] = r,
         record' = [record EXCEPT ![r] = Built(p, old)],
         pc[p] = "user", pc' = [pc EXCEPT ![p] = "body"],
         twice' \subseteq Records,
         UNCHANGED <<loaded, table, heap, mine, world, overlapped>>
  PROVE  IInv'
<1>1. r # Null /\ mine[p] = Null /\ r \in heap /\ Has(p, r)
  BY CallerHas
<1>2. record' \in [Records -> Fields] /\ record'[r] = Built(p, old)
  BY BuiltType, CallerHas
<1>3. pc' \in [Pids -> Places] /\ pc'[p] = "body" BY DEF IInv, TypeOK, Places
<1>4. TypeOK' BY <1>1, <1>2, <1>3 DEF IInv, TypeOK, Fields, Places
<1>5. Describes(p, r)'
  BY <1>2, <1>3, BuiltType, CallerHas DEF Describes
<1>6. record'[r].files # "freed" BY <1>2, BuiltType, CallerHas
<1>7. \A s \in Records : Has(p, s)' => s = r BY <1>1 DEF Has
<1>8. \A s \in Records : s # r => record'[s] = record[s] BY CallerHas
<1>9. \A q \in Pids : q # p => pc'[q] = pc[q] BY DEF IInv, TypeOK
<1> QED BY <1>1, <1>4, <1>5, <1>6, <1>7, <1>8, <1>9, OwnStep

LEMMA EnterExecutedInv == ASSUME IInv, NEW p \in Pids, EnterExecuted(p) PROVE IInv'
<1> DEFINE r == process_cache[p]
<1>1. r \in Records /\ record[r] \in Fields BY CallerHas DEF EnterExecuted
<1>2. FilesFreed(record[r]) \in Fields BY <1>1, FreedType
<1>3. twice' \subseteq Records BY <1>1 DEF EnterExecuted, IInv, TypeOK
<1>4. record' = [record EXCEPT ![r] = Built(p, FilesFreed(record[r]))]
  BY DEF EnterExecuted
<1> HIDE DEF r
<1> QED BY <1>1, <1>2, <1>3, <1>4, BuildAgain DEF EnterExecuted, Goto, r

LEMMA EnterReusedInv == ASSUME IInv, NEW p \in Pids, EnterReused(p) PROVE IInv'
<1> DEFINE r == process_cache[p]
           old == FilesFreed(FilesFreed(record[r]))
<1>1. r \in Records /\ record[r] \in Fields BY CallerHas DEF EnterReused
<1>2. old \in Fields BY <1>1, FreedType
<1>3. twice' \subseteq Records BY <1>1 DEF EnterReused, IInv, TypeOK
<1>4. record' = [record EXCEPT ![r] = Built(p, old)] BY DEF EnterReused
<1> HIDE DEF r, old
<1> QED BY <1>1, <1>2, <1>3, <1>4, BuildAgain DEF EnterReused, Goto, r

LEMMA EnterFirstInv == ASSUME IInv, NEW p \in Pids, EnterFirst(p) PROVE IInv'
<1>1. PICK r \in Records \ heap :
        /\ heap' = heap \cup {r}
        /\ mine' = [mine EXCEPT ![p] = r]
        /\ record' = [record EXCEPT ![r] = Built(p, Blank)]
        /\ overlapped' = IF \E q \in Pids : Linking(q)
                         THEN overlapped \cup {r} \cup {mine[q] : q \in {q \in Pids : Linking(q)}}
                         ELSE overlapped
  BY DEF EnterFirst
<1>2. /\ pc[p] = "user" /\ pc' \in [Pids -> Places] /\ pc'[p] \in {"link", "head"}
      /\ process_cache[p] = Null /\ mine[p] = Null
      /\ \A q \in Pids : q # p => pc'[q] = pc[q] /\ mine'[q] = mine[q]
  BY <1>1, CallerHas DEF EnterFirst, Goto, IInv, TypeOK, Places
<1>3. record' \in [Records -> Fields] /\ record'[r] = Built(p, Blank)
  BY <1>1, BuiltType, BlankType, CallerHas
<1>4. mine' \in [Pids -> Records \cup {Null}] /\ mine'[p] = r
  BY <1>1 DEF IInv, TypeOK
<1>5. overlapped' \subseteq Records
  <2>1. \A q \in Pids : Linking(q) => mine[q] \in Records
    BY CallerHas DEF Linking
  <2> QED BY <1>1, <2>1 DEF IInv, TypeOK
<1>6. \A q \in Pids : mine'[q] = Null <=> pc'[q] \in {"user", "body", "execve"}
  BY <1>2, <1>4 DEF IInv, TypeOK
<1>7. TypeOK'
  BY <1>1, <1>2, <1>3, <1>4, <1>5, <1>6 DEF EnterFirst, IInv, TypeOK, Fields, Places
<1>8. Describes(p, r)'
  BY <1>2, <1>3, BuiltType, BlankType, CallerHas DEF Describes, EnterFirst
<1>9. record'[r].files # "freed" BY <1>3, BuiltType, BlankType, CallerHas
<1>10. process_cache' = process_cache /\ UNCHANGED world BY DEF EnterFirst
<1>11. \A s \in Records : Has(p, s)' => s = r BY <1>2, <1>4, <1>10 DEF Has
<1>12. \A s \in Records : s # r => record'[s] = record[s] BY <1>1, CallerHas
<1> QED BY <1>1, <1>2, <1>7, <1>8, <1>9, <1>10, <1>11, <1>12, OwnStep

LEMMA EnterWithoutMemoryInv ==
  ASSUME IInv, NEW p \in Pids, EnterWithoutMemory(p) PROVE IInv'
<1>1. TypeOK' BY CallerHas DEF EnterWithoutMemory, Goto, IInv, TypeOK, Places
<1>2. pc' = [pc EXCEPT ![p] = "body"] /\ pc \in [Pids -> Places]
  BY DEF EnterWithoutMemory, Goto, IInv, TypeOK, Places
<1>3. \A r \in Records : ~Has(p, r)
  BY CallerHas DEF EnterWithoutMemory, Goto, Has
<1> QED BY <1>1, <1>2, <1>3, PlainStep DEF EnterWithoutMemory

LEMMA LinkNextInv == ASSUME IInv, NEW p \in Pids, LinkNext(p) PROVE IInv'
<1>0. PICK r \in Records : r = mine[p] BY CallerHas DEF LinkNext, Goto
<1>1. /\ r \in Records /\ Has(p, r) /\ r \in heap /\ process_cache[p] = Null
      /\ record \in [Records -> Fields] /\ pc[p] = "link"
  BY <1>0, CallerHas DEF LinkNext, Goto
<1>2. outstanding_header \in Records \cup {Null} BY DEF IInv, TypeOK
<1>3. record'[r] = [record[r] EXCEPT !.next = outstanding_header]
  BY <1>0, <1>1 DEF LinkNext
<1>4. /\ record'[r] \in Fields /\ record'[r].start_time = record[r].start_time
      /\ record'[r].filename = record[r].filename
      /\ record'[r].before_execve = record[r].before_execve
      /\ record'[r].files = record[r].files
  BY <1>1, <1>2, <1>3 DEF Fields
<1>5. \A s \in Records : s # r => record'[s] = record[s] BY <1>0, <1>1 DEF LinkNext
<1>6. record' \in [Records -> Fields] BY <1>0, <1>1, <1>4, <1>5 DEF LinkNext
<1>7. /\ pc' \in [Pids -> Places] /\ pc'[p] = "head"
      /\ \A q \in Pids : q # p => pc'[q] = pc[q]
  BY DEF LinkNext, Goto, IInv, TypeOK, Places
<1>8. \A q \in Pids : mine'[q] = Null <=> pc'[q] \in {"user", "body", "execve"}
  BY <1>0, <1>1, <1>7 DEF LinkNext, IInv, TypeOK
<1>9. TypeOK' BY <1>6, <1>7, <1>8 DEF LinkNext, IInv, TypeOK, Fields, Places
<1>10. Describes(p, r)' BY <1>1, <1>4, <1>7 DEF LinkNext, IInv, Describes
<1>11. record'[r].files # "freed" BY <1>1, <1>4 DEF IInv
<1>12. \A s \in Records : Has(p, s)' => s = r BY <1>0, <1>1 DEF LinkNext, Has
<1>13. UNCHANGED <<process_cache, mine, heap, world>> BY DEF LinkNext
<1> QED BY <1>1, <1>5, <1>7, <1>9, <1>10, <1>11, <1>12, <1>13, OwnStep

LEMMA LinkHeadInv == ASSUME IInv, NEW p \in Pids, LinkHead(p) PROVE IInv'
<1>1. mine[p] \in Records /\ pc[p] = "head" BY CallerHas DEF LinkHead, Goto
<1>2. /\ pc' \in [Pids -> Places] /\ pc'[p] = "publish"
      /\ \A q \in Pids : q # p => pc'[q] = pc[q]
  BY DEF LinkHead, Goto, IInv, TypeOK, Places
<1>3. TypeOK' BY <1>1, <1>2 DEF LinkHead, IInv, TypeOK, Places
<1>4. \A r \in Records : Has(p, r) => Describes(p, r)'
  BY <1>1, <1>2 DEF LinkHead, IInv, Describes
<1> QED BY <1>2, <1>3, <1>4, PlainStep DEF LinkHead

LEMMA PublishInv == ASSUME IInv, NEW p \in Pids, Publish(p) PROVE IInv'
<1>0. PICK r \in Records : r = mine[p] BY CallerHas DEF Publish, Goto
<1>1. r \in Records /\ Has(p, r) /\ r \in heap /\ pc[p] = "publish"
  BY <1>0, CallerHas DEF Publish, Goto
<1>2. /\ pc' \in [Pids -> Places] /\ pc'[p] = "body"
      /\ process_cache' \in [Pids -> Records \cup {Null}] /\ process_cache'[p] = r
      /\ mine' \in [Pids -> Records \cup {Null}] /\ mine'[p] = Null
      /\ \A q \in Pids : q # p =>
           pc'[q] = pc[q] /\ process_cache'[q] = process_cache[q] /\ mine'[q] = mine[q]
  BY <1>0, <1>1 DEF Publish, Goto, IInv, TypeOK, Places
<1>3. TypeOK' BY <1>2 DEF Publish, IInv, TypeOK, Places
<1>4. Describes(p, r)'
  <2>1. Describes(p, r) BY <1>1 DEF IInv
  <2>2. UNCHANGED <<record, world>> BY DEF Publish
  <2> QED BY <1>1, <1>2, <2>1, <2>2 DEF Describes
<1>5. \A s \in Records : Has(p, s)' => s = r BY <1>2 DEF Has
<1>6. UNCHANGED <<record, heap, world>> BY DEF Publish
<1>7. record'[r].files # "freed" BY <1>1, <1>6 DEF IInv
<1>8. mine'[p] # Null => process_cache'[p] = Null BY <1>2
<1>9. Has(p, r)' => Describes(p, r)' BY <1>4
<1>10. \A q \in Pids : q # p =>
         /\ process_cache'[q] = process_cache[q] /\ mine'[q] = mine[q]
         /\ pc'[q] = pc[q] /\ started'[q] = started[q] /\ image'[q] = image[q]
  BY <1>2, <1>6
<1> QED BY <1>1, <1>3, <1>5, <1>6, <1>7, <1>8, <1>9, <1>10, OwnStep

-----------------------------------------------------------------------------
(* The rest of a call, and what happens between calls.                     *)

LEMMA FilesChangeInv == ASSUME IInv, NEW p \in Pids, FilesChange(p) PROVE IInv'
<1>0. PICK r \in Records : r = process_cache[p] BY CallerHas DEF FilesChange
<1>1. /\ r \in Records /\ Has(p, r) /\ r \in heap /\ mine[p] = Null
      /\ record \in [Records -> Fields] /\ pc[p] = "body"
  BY <1>0, CallerHas DEF FilesChange
<1>2. PICK files \in {"none", "some"} : record' = [record EXCEPT ![r].files = files]
  BY <1>0 DEF FilesChange
<1>3. record'[r] = [record[r] EXCEPT !.files = files] BY <1>1, <1>2
<1>4. /\ record'[r] \in Fields /\ record'[r].start_time = record[r].start_time
      /\ record'[r].filename = record[r].filename
      /\ record'[r].files # "freed"
  BY <1>1, <1>3 DEF Fields
<1>5. \A s \in Records : s # r => record'[s] = record[s] BY <1>1, <1>2
<1>6. record' \in [Records -> Fields] BY <1>1, <1>2, <1>4, <1>5
<1>7. UNCHANGED <<loaded, table, heap, pc, mine, world, overlapped, twice>>
  BY DEF FilesChange
<1>8. TypeOK' BY <1>6, <1>7 DEF IInv, TypeOK, Fields
<1>9. Describes(p, r)' BY <1>1, <1>4, <1>7 DEF IInv, Describes
<1>10. \A s \in Records : Has(p, s)' => s = r BY <1>0, <1>1, <1>7 DEF Has
<1>11. mine'[p] # Null => process_cache'[p] = Null BY <1>1, <1>7
<1> QED BY <1>1, <1>4, <1>5, <1>7, <1>8, <1>9, <1>10, <1>11, OwnStep

(* notify_execve, with and without a record. *)
LEMMA NotifyExecveInv == ASSUME IInv, NEW p \in Pids, NotifyExecve(p) PROVE IInv'
<1>1. /\ pc[p] = "body" /\ pc' \in [Pids -> Places] /\ pc'[p] = "execve"
      /\ \A q \in Pids : q # p => pc'[q] = pc[q]
      /\ mine[p] = Null /\ record \in [Records -> Fields]
  BY CallerHas DEF NotifyExecve, Goto, IInv, TypeOK, Places
<1>2. UNCHANGED <<loaded, table, heap, mine, world, overlapped, twice>>
  BY DEF NotifyExecve
<1>3. CASE process_cache[p] = Null
  <2>1. record' = record BY <1>3 DEF NotifyExecve
  <2>2. TypeOK' BY <1>1, <1>2, <2>1 DEF IInv, TypeOK, Places
  <2>3. \A r \in Records : ~Has(p, r) BY <1>1, <1>3 DEF Has
  <2> QED BY <1>1, <1>2, <2>1, <2>2, <2>3, PlainStep
<1>4. CASE process_cache[p] # Null
  <2>1. PICK r \in Records : r = process_cache[p] /\ Has(p, r) /\ r \in heap
    BY <1>4, CallerHas
  <2>2. record' = [record EXCEPT ![r].before_execve = TRUE]
    BY <1>4, <2>1 DEF NotifyExecve
  <2>3. record'[r] = [record[r] EXCEPT !.before_execve = TRUE] BY <1>1, <2>2
  <2>4. /\ record'[r] \in Fields /\ record'[r].start_time = record[r].start_time
        /\ record'[r].before_execve = TRUE
        /\ record'[r].files = record[r].files
    <3>1. record[r] \in Fields BY <1>1
    <3>2. /\ record'[r].start_time = record[r].start_time
          /\ record'[r].files = record[r].files
      BY <2>3, <3>1 DEF Fields
    <3>3. record'[r].before_execve = TRUE BY <2>3, <3>1, Zenon DEF Fields
    <3>4. record'[r] \in Fields BY <2>3, <3>1, Zenon DEF Fields
    <3> QED BY <3>2, <3>3, <3>4
  <2>5. \A s \in Records : s # r => record'[s] = record[s] BY <1>1, <2>2
  <2>6. record' \in [Records -> Fields] BY <1>1, <2>2, <2>4, <2>5
  <2>7. TypeOK' BY <1>1, <1>2, <2>6 DEF IInv, TypeOK, Fields, Places
  <2>8. Describes(p, r)' BY <1>1, <1>2, <2>1, <2>4 DEF IInv, Describes
  <2>9. record'[r].files # "freed" BY <2>4 DEF IInv
  <2>10. \A s \in Records : Has(p, s)' => s = r BY <1>1, <1>2, <2>1 DEF Has
  <2>11. mine'[p] # Null => process_cache'[p] = Null BY <1>1, <1>2
  <2> QED BY <1>1, <1>2, <2>1, <2>5, <2>7, <2>8, <2>9, <2>10, <2>11, OwnStep
<1> QED BY <1>3, <1>4

LEMMA ExecveInv == ASSUME IInv, NEW p \in Pids, Execve(p) PROVE IInv'
<1>1. /\ pc[p] = "execve" /\ pc' \in [Pids -> Places] /\ pc'[p] = "user"
      /\ \A q \in Pids : q # p => pc'[q] = pc[q]
  BY DEF Execve, Goto, IInv, TypeOK, Places
<1>2. /\ image' \in [Pids -> Nat]
      /\ \A q \in Pids : q # p => image'[q] = image[q]
  BY CallerHas DEF Execve, IInv, TypeOK
<1>3. UNCHANGED <<loaded, table, record, heap, mine, started, overlapped, twice>>
  BY DEF Execve
<1>4. TypeOK' BY <1>1, <1>2, <1>3 DEF IInv, TypeOK, Places
<1>5. ASSUME NEW r \in Records, Has(p, r) PROVE Describes(p, r)'
  <2>1. record[r].before_execve /\ record[r].start_time <= started[p]
    BY <1>1, <1>5 DEF IInv, Describes
  <2> QED BY <1>1, <1>3, <2>1 DEF Describes
<1> QED BY <1>1, <1>2, <1>3, <1>4, <1>5, PlainStep

LEMMA ReturnInv == ASSUME IInv, NEW p \in Pids, Return(p) PROVE IInv'
<1>1. /\ pc[p] = "body" /\ pc' \in [Pids -> Places] /\ pc'[p] = "user"
      /\ \A q \in Pids : q # p => pc'[q] = pc[q]
  BY DEF Return, Goto, IInv, TypeOK, Places
<1>2. UNCHANGED <<loaded, table, record, heap, mine, world, overlapped, twice>>
  BY DEF Return
<1>3. TypeOK' BY <1>1, <1>2 DEF IInv, TypeOK, Places
<1>4. ASSUME NEW r \in Records, Has(p, r) PROVE Describes(p, r)'
  BY <1>1, <1>2, <1>4 DEF IInv, Describes
<1> QED BY <1>1, <1>2, <1>3, <1>4, PlainStep

LEMMA NextProcessInv == ASSUME IInv, NEW p \in Pids, NextProcess(p) PROVE IInv'
<1>1. pc[p] = "user" /\ started[p] \in Nat BY CallerHas DEF NextProcess
<1>2. /\ started' \in [Pids -> Nat] /\ started'[p] = started[p] + 1
      /\ image' \in [Pids -> Nat]
      /\ \A q \in Pids : q # p => started'[q] = started[q] /\ image'[q] = image[q]
  BY <1>1 DEF NextProcess, IInv, TypeOK
<1>3. UNCHANGED <<loaded, table, record, heap, pc, mine, overlapped, twice>>
  BY DEF NextProcess
<1>4. TypeOK' BY <1>2, <1>3 DEF IInv, TypeOK
<1>5. ASSUME NEW r \in Records, Has(p, r) PROVE Describes(p, r)'
  <2>1. record[r].start_time <= started[p] BY <1>5 DEF IInv, Describes
  <2>2. record[r].start_time \in Nat BY DEF IInv, TypeOK
  <2> QED BY <1>1, <1>2, <1>3, <2>1, <2>2 DEF Describes
<1> QED BY <1>2, <1>3, <1>4, <1>5, PlainStep

-----------------------------------------------------------------------------
(* Loading and unloading: no process has a record afterwards.              *)

LEMMA LoadInv == ASSUME IInv, Load PROVE IInv'
<1>1. \A p \in Pids : process_cache'[p] = Null BY DEF Load
<1>2. TypeOK' BY DEF Load, IInv, TypeOK
<1>3. OwnRecord' BY <1>1 DEF Load, IInv, OwnRecord, Has
<1>4. ASSUME NEW p \in Pids, NEW r \in Records, Has(p, r)' PROVE Describes(p, r)'
  BY <1>1, <1>4 DEF Load, IInv, Has, Describes
<1> QED BY <1>2, <1>3, <1>4 DEF Load, IInv

LEMMA UnloadInv == ASSUME IInv, Unload PROVE IInv'
<1>1. \A p \in Pids : process_cache'[p] = Null /\ mine'[p] = Null
  BY CallerHas DEF Unload
<1>2. \A p \in Pids, r \in Records : ~Has(p, r)' BY <1>1 DEF Has
<1>3. OwnRecord' BY <1>1, <1>2 DEF OwnRecord
<1>4. record' \in [Records -> Fields] /\ \A r \in Records : record'[r].files # "freed"
  BY BlankType DEF Unload
<1>5. {r \in Listed : record[r].files = "freed"} \subseteq Records
  BY DEF Listed
<1>6. TypeOK' BY <1>4, <1>5 DEF Unload, IInv, TypeOK, Fields
<1> QED BY <1>2, <1>3, <1>4, <1>6 DEF IInv

LEMMA NextInv == IInv /\ [Next]_vars => IInv'
<1> SUFFICES ASSUME IInv, [Next]_vars PROVE IInv'
  OBVIOUS
<1>1. CASE \E p \in Pids : EnterKnown(p) \/ EnterExecuted(p) \/ EnterReused(p)
  BY <1>1, EnterKnownInv, EnterExecutedInv, EnterReusedInv
<1>2. CASE \E p \in Pids : EnterFirst(p) \/ EnterWithoutMemory(p)
  BY <1>2, EnterFirstInv, EnterWithoutMemoryInv
<1>3. CASE \E p \in Pids : LinkNext(p) \/ LinkHead(p) \/ Publish(p)
  BY <1>3, LinkNextInv, LinkHeadInv, PublishInv
<1>4. CASE \E p \in Pids : Return(p) BY <1>4, ReturnInv
<1>5. CASE \E p \in Changing : FilesChange(p) \/ NotifyExecve(p)
  BY <1>5, FilesChangeInv, NotifyExecveInv
<1>6. CASE \E p \in Changing : Execve(p) \/ NextProcess(p)
  BY <1>6, ExecveInv, NextProcessInv
<1>7. CASE Load \/ Unload BY <1>7, LoadInv, UnloadInv
<1>8. CASE UNCHANGED vars
  BY <1>8 DEF IInv, TypeOK, OwnRecord, Has, Describes
<1> QED BY <1>1, <1>2, <1>3, <1>4, <1>5, <1>6, <1>7, <1>8 DEF Next, Enter

THEOREM RecordsInvariant == Spec => []IInv
<1>1. Init => IInv BY InitInv
<1>2. IInv /\ [Next]_vars => IInv' BY NextInv
<1> QED BY <1>1, <1>2, PTL DEF Spec

-----------------------------------------------------------------------------
(* Induction over the naturals, for sets.                                  *)

LEMMA Least ==
  ASSUME NEW T \in SUBSET Nat, T # {}
  PROVE  \E m \in T : \A n \in T : m <= n
<1> DEFINE R == OpToRel(<, Nat)
<1>1. R = {ss \in Nat \X Nat : ss[1] < ss[2]}
  BY DEF OpToRel
<1>2. IsWellFoundedOn(R, Nat)
  BY NatLessThanWellFounded
<1> HIDE DEF R
<1>3. PICK m \in T : \A n \in T : ~(<<n, m>> \in R)
  BY <1>2, WFMin
<1>4. ASSUME NEW n \in T PROVE m <= n
  <2>1. m \in Nat /\ n \in Nat /\ (n < m => <<n, m>> \in R)
    BY <1>1
  <2> QED BY <1>3, <2>1
<1> QED BY <1>4

LEMMA SetInduction ==
  ASSUME NEW S, 0 \in S, \A n \in Nat : n \in S => n + 1 \in S
  PROVE  Nat \subseteq S
<1> SUFFICES ASSUME Nat \ S # {} PROVE FALSE
  OBVIOUS
<1>1. PICK m \in Nat \ S : \A n \in Nat \ S : m <= n
  BY Least
<1>2. m # 0 /\ m - 1 \in Nat /\ (m - 1) + 1 = m
  BY <1>1
<1> QED BY <1>1, <1>2

-----------------------------------------------------------------------------
(* The list from outstanding_header.                                       *)

Length == Cardinality(Records)
links == [r \in heap |-> record[r].next]

(* The step of the walk that comes to place n. *)
WalkStep(f, n) ==
  IF n = 0 THEN outstanding_header
  ELSE IF f[n - 1] = Null THEN Null ELSE record[f[n - 1]].next

LEMMA WalkExists == \A k \in Nat : \E f : f = [n \in 0 .. k |-> WalkStep(f, n)]
<1> DEFINE Can == {k \in Nat : \E f : f = [n \in 0 .. k |-> WalkStep(f, n)]}
<1>1. 0 \in Can
  <2> DEFINE f == [n \in 0 .. 0 |-> outstanding_header]
  <2>1. f = [n \in 0 .. 0 |-> WalkStep(f, n)]
    BY DEF WalkStep
  <2> QED BY <2>1
<1>2. ASSUME NEW k \in Nat, k \in Can PROVE k + 1 \in Can
  <2>1. PICK f : f = [n \in 0 .. k |-> WalkStep(f, n)]
    BY <1>2
  <2> DEFINE g == [n \in 0 .. k + 1 |-> IF n <= k THEN f[n] ELSE WalkStep(f, n)]
  <2>2. ASSUME NEW n \in 0 .. k + 1 PROVE g[n] = WalkStep(g, n)
    <3>1. n # 0 => n - 1 \in 0 .. k + 1 /\ n - 1 <= k
      OBVIOUS
    <3>2. WalkStep(g, n) = WalkStep(f, n)
      BY <3>1 DEF WalkStep
    <3>3. n <= k => f[n] = WalkStep(f, n)
      BY <2>1
    <3> QED BY <3>2, <3>3
  <2>3. g = [n \in 0 .. k + 1 |-> WalkStep(g, n)]
    BY <2>2
  <2> HIDE DEF g
  <2> QED BY <2>3
<1> HIDE DEF Can
<1>3. Nat \subseteq Can
  BY <1>1, <1>2, SetInduction
<1> QED BY <1>3 DEF Can

LEMMA WalkIs ==
  /\ Length \in Nat
  /\ DOMAIN Nth = 0 .. Length
  /\ \A n \in 0 .. Length : Nth[n] = WalkStep(Nth, n)
<1>1. Length \in Nat
  BY FS_CardinalityType, ProcessAssumption DEF Length
<1>2. Nth = [n \in 0 .. Length |-> WalkStep(Nth, n)]
  <2>1. \E f : f = [n \in 0 .. Length |-> WalkStep(f, n)]
    BY <1>1, WalkExists
  <2> QED BY <2>1 DEF Nth, WalkStep, Length
<1> HIDE DEF Length
<1> QED BY <1>1, <1>2

(* No next leads back to where the walk has been. *)
Descends(next, rank) ==
  \A r \in DOMAIN next :
    next[r] # Null => next[r] \in DOMAIN next /\ rank[next[r]] < rank[r]

LEMMA WalkFacts ==
  ASSUME TypeOK, outstanding_header \in heap \cup {Null},
         NEW rank \in [Records -> Nat], Descends(links, rank)
  PROVE  /\ WalkEnds
         /\ outstanding_header # Null => outstanding_header \in Listed
         /\ \A r \in Listed : links[r] # Null => links[r] \in Listed
<1> DEFINE N == Length
<1>0. N \in Nat /\ heap \subseteq Records /\ DOMAIN links = heap
      /\ \A r \in heap : links[r] = record[r].next
  BY WalkIs DEF links, TypeOK
<1>1. /\ Nth[0] = outstanding_header
      /\ \A n \in Nat : n + 1 <= N =>
           Nth[n + 1] = IF Nth[n] = Null THEN Null ELSE record[Nth[n]].next
  <2>1. Nth[0] = outstanding_header
    BY <1>0, WalkIs DEF WalkStep
  <2>2. ASSUME NEW n \in Nat, n + 1 <= N
        PROVE  Nth[n + 1] = IF Nth[n] = Null THEN Null ELSE record[Nth[n]].next
    <3>1. n + 1 \in 0 .. N /\ n + 1 # 0 /\ (n + 1) - 1 = n
      BY <1>0, <2>2
    <3>2. Nth[n + 1] = WalkStep(Nth, n + 1)
      BY <3>1, WalkIs
    <3> QED BY <3>1, <3>2 DEF WalkStep
  <2> QED BY <2>1, <2>2
<1> HIDE DEF N
<1>2. \A n \in 0 .. N : Nth[n] \in heap \cup {Null}
  <2> DEFINE Good == {n \in Nat : n <= N => Nth[n] \in heap \cup {Null}}
  <2>1. 0 \in Good
    BY <1>1
  <2>2. ASSUME NEW n \in Nat, n \in Good PROVE n + 1 \in Good
    <3> SUFFICES ASSUME n + 1 <= N PROVE Nth[n + 1] \in heap \cup {Null}
      OBVIOUS
    <3>1. n <= N /\ Nth[n] \in heap \cup {Null}
      BY <1>0, <2>2
    <3> QED BY <1>0, <1>1, <3>1 DEF Descends
  <2>3. Nat \subseteq Good
    <3> HIDE DEF Good
    <3> QED BY <2>1, <2>2, SetInduction
  <2> QED BY <2>3
<1>3. ASSUME NEW m \in 0 .. N
      PROVE  \A n \in 0 .. N : m < n /\ Nth[n] # Null =>
               Nth[m] # Null /\ rank[Nth[n]] < rank[Nth[m]]
  <2> DEFINE Lower == {n \in Nat : m < n /\ n <= N /\ Nth[n] # Null =>
                         Nth[m] # Null /\ rank[Nth[n]] < rank[Nth[m]]}
  <2>1. 0 \in Lower
    OBVIOUS
  <2>2. ASSUME NEW n \in Nat, n \in Lower PROVE n + 1 \in Lower
    <3> SUFFICES ASSUME m < n + 1, n + 1 <= N, Nth[n + 1] # Null
                 PROVE  Nth[m] # Null /\ rank[Nth[n + 1]] < rank[Nth[m]]
      OBVIOUS
    <3>1. n \in 0 .. N /\ n + 1 \in 0 .. N
      BY <1>0
    <3>2. Nth[n] # Null /\ Nth[n + 1] = links[Nth[n]] /\ Nth[n] \in heap /\ Nth[n + 1] \in heap
      BY <1>0, <1>1, <1>2, <3>1
    <3>3. rank[Nth[n + 1]] < rank[Nth[n]]
      BY <1>0, <3>2 DEF Descends
    <3>4. m = n \/ (m < n /\ Nth[m] # Null /\ rank[Nth[n]] < rank[Nth[m]])
      BY <1>0, <2>2, <3>1, <3>2
    <3>5. /\ rank[Nth[n]] \in Nat /\ rank[Nth[n + 1]] \in Nat
          /\ Nth[m] # Null => rank[Nth[m]] \in Nat
      BY <1>0, <1>2, <3>2
    <3> QED BY <3>2, <3>3, <3>4, <3>5
  <2>3. Nat \subseteq Lower
    <3> HIDE DEF Lower
    <3> QED BY <2>1, <2>2, SetInduction
  <2> QED BY <1>0, <2>3
<1>4. ASSUME NEW m \in 0 .. N, NEW n \in 0 .. N, m # n, Nth[m] = Nth[n], Nth[m] # Null
      PROVE  FALSE
  <2>1. rank[Nth[m]] \in Nat
    BY <1>0, <1>2, <1>4
  <2>2. m < n \/ n < m
    BY <1>0, <1>4
  <2> QED BY <1>3, <1>4, <2>1, <2>2
<1>5. Nth[N] = Null
  <2> SUFFICES ASSUME Nth[N] # Null PROVE FALSE
    OBVIOUS
  <2> DEFINE f == [n \in 0 .. N |-> Nth[n]]
  <2>1. \A n \in 0 .. N : Nth[n] \in Records
    <3>1. ASSUME NEW n \in 0 .. N PROVE Nth[n] # Null
      <4>1. n = N \/ n < N
        BY <1>0
      <4> QED BY <1>0, <1>3, <4>1
    <3> QED BY <1>0, <1>2, <3>1
  <2>2. f \in [0 .. N -> Records]
    BY <2>1
  <2>3. IsFiniteSet(0 .. N) /\ Cardinality(0 .. N) = N + 1
    BY <1>0, FS_Interval
  <2>4. IsFiniteSet(Records) /\ Cardinality(Records) < Cardinality(0 .. N)
    BY <1>0, <2>3, ProcessAssumption DEF N, Length
  <2>5. \E m, n \in 0 .. N : m # n /\ f[m] = f[n]
    <3> HIDE DEF f
    <3> QED BY <2>2, <2>3, <2>4, FS_PigeonHole
  <2> QED BY <1>4, <2>1, <2>5, ProcessAssumption
<1>6. \A r \in Records : r \in Listed <=> \E n \in 0 .. N : Nth[n] = r
  BY WalkIs DEF Listed, N
<1>7. Listed \subseteq heap
  BY <1>2, <1>6, ProcessAssumption DEF Listed
<1>8. WalkEnds
  BY <1>4, <1>5, <1>7, WalkIs DEF WalkEnds, N, Length
<1>9. outstanding_header # Null => outstanding_header \in Listed
  BY <1>0, <1>1, <1>6
<1>10. ASSUME NEW r \in Listed, links[r] # Null PROVE links[r] \in Listed
  <2>1. PICK n \in 0 .. N : Nth[n] = r
    BY <1>6 DEF Listed
  <2>2. r \in heap /\ r # Null
    BY <1>0, <1>7, ProcessAssumption
  <2>3. n \in Nat /\ n + 1 <= N /\ n + 1 \in 0 .. N
    BY <1>0, <1>5, <2>1, <2>2
  <2>4. Nth[n + 1] = links[r]
    BY <1>0, <1>1, <2>1, <2>2, <2>3
  <2>5. links[r] \in Records
    BY <1>0, <1>10, <2>2 DEF Descends
  <2> QED BY <1>6, <2>3, <2>4, <2>5
<1> QED BY <1>8, <1>9, <1>10

-----------------------------------------------------------------------------
(* The inductive invariant of the list.                                    *)

(* Who has the list from head, has all of X. *)
Leads(next, head, X) ==
  \A S \in SUBSET Records :
    /\ \A r \in S \cap DOMAIN next : next[r] # Null => next[r] \in S
    /\ head # Null => head \in S
    => X \subseteq S

(* Records on their way to the list, and those that must be on it.         *)
InHand  == {mine[p] : p \in {p \in Pids : Linking(p)}}
Settled == (heap \ overlapped) \ InHand

HeadThere == outstanding_header \in heap \cup {Null}

Ordered == \E rank \in [Records -> Nat] : Descends(links, rank)

(* Nothing leads yet to a record on its way to the list. *)
Unlinked ==
  \A p \in Pids : Linking(p) =>
    outstanding_header # mine[p] /\ \A r \in heap : links[r] # mine[p]

Overlaps == \A p, q \in Pids : p # q /\ Linking(p) /\ Linking(q) => mine[p] \in overlapped

(* Every record that must be on the list is on it, and on the one that     *)
(* each process is about to make it. *)
AllLead ==
  /\ Leads(links, outstanding_header, Settled)
  /\ \A p \in Pids : pc[p] = "head" => Leads(links, links[mine[p]], Settled)

Unloaded ==
  ~loaded => heap \subseteq overlapped /\ \A p \in Pids : pc[p] \in {"user", "execve"}

ListInv == HeadThere /\ Ordered /\ Unlinked /\ Overlaps /\ AllLead /\ Unloaded

-----------------------------------------------------------------------------
(* What the list from a record leads to.                                   *)

LEMMA LeadsLess ==
  ASSUME NEW next, NEW head, NEW X, NEW Y \in SUBSET X, Leads(next, head, X)
  PROVE  Leads(next, head, Y)
BY DEF Leads

(* One that nothing leads to does not matter. *)
LEMMA LeadsOn ==
  ASSUME NEW old, NEW new, NEW r \in Records, NEW head, NEW X, NEW Y \in SUBSET X,
         Leads(old, head, X), head # r, DOMAIN old \subseteq DOMAIN new,
         \A s \in DOMAIN old : s # r => new[s] = old[s] /\ old[s] # r
  PROVE  Leads(new, head, Y)
<1> SUFFICES ASSUME NEW S \in SUBSET Records,
                    \A s \in S \cap DOMAIN new : new[s] # Null => new[s] \in S,
                    head # Null => head \in S
             PROVE  Y \subseteq S
  BY DEF Leads
<1> DEFINE T == S \ {r}
<1>1. \A s \in T \cap DOMAIN old : old[s] # Null => old[s] \in T
  OBVIOUS
<1>2. T \in SUBSET Records /\ (head # Null => head \in T)
  OBVIOUS
<1> HIDE DEF T
<1>3. X \subseteq T
  BY <1>1, <1>2 DEF Leads
<1> QED BY <1>3 DEF T

LEMMA LeadsThrough ==
  ASSUME NEW next, NEW r \in DOMAIN next, r # Null, NEW X, Leads(next, next[r], X)
  PROVE  Leads(next, r, X \cup {r})
BY DEF Leads

-----------------------------------------------------------------------------
(* The steps and the list.                                                 *)

(* Who has a record on its way to the list. *)
LEMMA LinkFacts ==
  ASSUME IInv
  PROVE  /\ TypeOK /\ heap \subseteq Records
         /\ DOMAIN links = heap /\ \A r \in heap : links[r] = record[r].next
         /\ \A p \in Pids : Linking(p) => mine[p] \in heap /\ mine[p] # Null
         /\ \A p, q \in Pids : p # q /\ Linking(p) /\ Linking(q) => mine[p] # mine[q]
<1>1. TypeOK /\ heap \subseteq Records
  BY DEF IInv, TypeOK
<1>2. \A p \in Pids : Linking(p) =>
        mine[p] \in heap /\ mine[p] # Null /\ mine[p] \in Records /\ Has(p, mine[p])
  BY CallerHas DEF Linking
<1>3. \A p, q \in Pids : p # q /\ Linking(p) /\ Linking(q) => mine[p] # mine[q]
  BY <1>2 DEF IInv, OwnRecord
<1> QED BY <1>1, <1>2, <1>3 DEF links

(* Most steps leave the list, and who is about to change it, alone. *)
LEMMA ListStays ==
  ASSUME ListInv, UNCHANGED <<links, heap, outstanding_header, loaded, overlapped>>,
         \A p \in Pids : (Linking(p)' <=> Linking(p)) /\ (pc'[p] = "head" <=> pc[p] = "head"),
         \A p \in Pids : Linking(p) => mine'[p] = mine[p],
         ~loaded => \A p \in Pids : pc'[p] \in {"user", "execve"}
  PROVE  ListInv'
<1>1. InHand' = InHand /\ Settled' = Settled
  BY DEF InHand, Settled
<1>2. HeadThere' /\ Ordered' /\ Unlinked' /\ Overlaps' /\ Unloaded'
  BY DEF ListInv, HeadThere, Ordered, Unlinked, Overlaps, Unloaded
<1>3. \A p \in Pids : pc[p] = "head" => mine'[p] = mine[p]
  BY DEF Linking
<1>4. AllLead'
  BY <1>1, <1>3 DEF ListInv, AllLead
<1> QED BY <1>2, <1>4 DEF ListInv

LEMMA EnterFirstList ==
  ASSUME IInv, ListInv, NEW p \in Pids, EnterFirst(p)
  PROVE  ListInv'
<1>1. PICK r \in Records \ heap :
        /\ heap' = heap \cup {r}
        /\ mine' = [mine EXCEPT ![p] = r]
        /\ record' = [record EXCEPT ![r] = Built(p, Blank)]
        /\ overlapped' = IF \E q \in Pids : Linking(q)
                         THEN overlapped \cup {r} \cup {mine[q] : q \in {q \in Pids : Linking(q)}}
                         ELSE overlapped
  BY DEF EnterFirst
<1>2. /\ loaded /\ loaded' /\ outstanding_header' = outstanding_header /\ pc[p] = "user"
      /\ pc'[p] = IF outstanding_header = Null THEN "head" ELSE "link"
      /\ \A q \in Pids \ {p} : pc'[q] = pc[q] /\ mine'[q] = mine[q]
      /\ mine'[p] = r
  BY <1>1 DEF EnterFirst, Goto, IInv, TypeOK
<1>3. /\ DOMAIN links' = heap \cup {r} /\ links'[r] = Null
      /\ \A s \in heap : links'[s] = links[s]
      /\ \A s \in heap : links[s] \in heap \cup {Null}
  <2>1. record'[r].next = Null
    BY <1>1 DEF IInv, TypeOK, Built, Blank
  <2>2. \A s \in heap : record'[s] = record[s]
    BY <1>1 DEF IInv, TypeOK
  <2>3. \A s \in heap : links[s] \in heap \cup {Null}
    BY LinkFacts DEF ListInv, Ordered, Descends
  <2> QED BY <1>1, <2>1, <2>2, <2>3 DEF links
<1>4. \A q \in Pids \ {p} : (Linking(q)' <=> Linking(q)) /\ mine'[q] = mine[q]
  BY <1>2 DEF Linking
<1>5. InHand' = InHand \cup {r} /\ Settled' \subseteq Settled
  <2>1. Linking(p)' /\ ~Linking(p)
    BY <1>2 DEF Linking
  <2>2. InHand' = InHand \cup {r}
    BY <1>2, <1>4, <2>1 DEF InHand
  <2> QED BY <1>1, <2>2 DEF Settled
<1>6. HeadThere' /\ Unloaded'
  BY <1>1, <1>2 DEF ListInv, HeadThere, Unloaded
<1>7. Ordered'
  BY <1>1, <1>3, LinkFacts DEF ListInv, Ordered, Descends
<1>8. Unlinked'
  BY <1>1, <1>2, <1>3, <1>4, LinkFacts DEF ListInv, Unlinked, HeadThere
<1>9. Overlaps'
  BY <1>1, <1>2, <1>4, LinkFacts DEF ListInv, Overlaps, Linking
<1>10. ASSUME NEW head, Leads(links, head, Settled), head # r PROVE Leads(links, head, Settled)'
  <2>1. \A s \in heap : links'[s] = links[s] /\ links[s] # r
    BY <1>1, <1>3, ProcessAssumption
  <2> QED BY <1>3, <1>5, <1>10, <2>1, LinkFacts, LeadsOn
<1>11. AllLead'
  <2>1. Leads(links, outstanding_header, Settled)'
    BY <1>2, <1>10, ProcessAssumption DEF ListInv, AllLead, HeadThere
  <2>2. pc'[p] = "head" => Leads(links, links[mine[p]], Settled)'
    BY <1>2, <1>3, <2>1
  <2>3. ASSUME NEW q \in Pids \ {p}, pc'[q] = "head" PROVE Leads(links, links[mine[q]], Settled)'
    <3>1. pc[q] = "head" /\ Linking(q) /\ mine'[q] = mine[q] /\ mine[q] \in heap
      BY <1>2, <2>3, LinkFacts DEF Linking
    <3>2. links'[mine'[q]] = links[mine[q]] /\ links[mine[q]] # r
      BY <1>1, <1>3, <3>1, ProcessAssumption
    <3>3. Leads(links, links[mine[q]], Settled)
      BY <3>1 DEF ListInv, AllLead
    <3> QED BY <1>10, <3>2, <3>3
  <2> QED BY <2>1, <2>2, <2>3 DEF AllLead
<1> QED BY <1>6, <1>7, <1>8, <1>9, <1>11 DEF ListInv

LEMMA LinkNextList ==
  ASSUME IInv, ListInv, NEW p \in Pids, LinkNext(p)
  PROVE  ListInv'
<1> DEFINE r == mine[p]
<1>1. /\ pc[p] = "link" /\ Linking(p) /\ r \in heap /\ r # Null /\ r \in Records
      /\ UNCHANGED <<loaded, table, heap, mine, world, overlapped, twice>>
      /\ record' = [record EXCEPT ![r].next = outstanding_header]
      /\ pc'[p] = "head" /\ \A q \in Pids \ {p} : pc'[q] = pc[q]
  BY LinkFacts DEF LinkNext, Goto, Linking, IInv, TypeOK
<1>2. /\ DOMAIN links' = heap /\ links'[r] = outstanding_header
      /\ \A s \in heap \ {r} : links'[s] = links[s]
      /\ outstanding_header # r /\ \A s \in heap : links[s] # r
  BY <1>1 DEF links, IInv, TypeOK, ListInv, Unlinked
<1>3. (\A q \in Pids : Linking(q)' <=> Linking(q)) /\ InHand' = InHand /\ Settled' = Settled
  BY <1>1 DEF Linking, InHand, Settled
<1>4. HeadThere' /\ Overlaps' /\ Unloaded'
  BY <1>1, <1>3 DEF ListInv, HeadThere, Overlaps, Unloaded
<1>5. Unlinked'
  BY <1>1, <1>2, <1>3, LinkFacts DEF ListInv, Unlinked
<1>6. Ordered'
  <2>1. PICK rank \in [Records -> Nat] : Descends(links, rank)
    BY DEF ListInv, Ordered
  <2> DEFINE new == [rank EXCEPT ![r] = IF outstanding_header = Null THEN 0
                                        ELSE rank[outstanding_header] + 1]
  <2>2. outstanding_header # Null =>
          outstanding_header \in heap /\ rank[outstanding_header] \in Nat
    BY LinkFacts DEF ListInv, HeadThere
  <2>3. /\ new \in [Records -> Nat]
        /\ outstanding_header # Null => rank[outstanding_header] < new[r]
        /\ \A s \in Records \ {r} : new[s] = rank[s]
    BY <1>1, <2>2
  <2> HIDE DEF new
  <2>4. Descends(links', new)
    <3> SUFFICES ASSUME NEW s \in heap, links'[s] # Null
                 PROVE  links'[s] \in heap /\ new[links'[s]] < new[s]
      BY <1>2 DEF Descends
    <3>1. CASE s = r
      BY <1>2, <2>2, <2>3, <3>1, LinkFacts
    <3>2. CASE s # r
      <4>1. links'[s] = links[s] /\ links[s] # r /\ links[s] \in heap /\ rank[links[s]] < rank[s]
        BY <1>2, <2>1, <3>2, LinkFacts DEF Descends
      <4> QED BY <2>3, <3>2, <4>1, LinkFacts
    <3> QED BY <3>1, <3>2
  <2> QED BY <2>3, <2>4 DEF Ordered
<1>7. ASSUME NEW head, Leads(links, head, Settled), head # r PROVE Leads(links, head, Settled)'
  BY <1>1, <1>2, <1>3, <1>7, LinkFacts, LeadsOn
<1>8. AllLead'
  <2>1. Leads(links, outstanding_header, Settled)'
    BY <1>1, <1>2, <1>7 DEF ListInv, AllLead
  <2>2. Leads(links, links[mine[p]], Settled)'
    BY <1>1, <1>2, <2>1
  <2>3. ASSUME NEW q \in Pids \ {p}, pc'[q] = "head" PROVE Leads(links, links[mine[q]], Settled)'
    <3>1. pc[q] = "head" /\ Linking(q) /\ mine'[q] = mine[q] /\ mine[q] \in heap /\ mine[q] # r
      BY <1>1, <2>3, LinkFacts DEF Linking
    <3>2. links'[mine'[q]] = links[mine[q]] /\ links[mine[q]] # r
      BY <1>2, <3>1
    <3>3. Leads(links, links[mine[q]], Settled)
      BY <3>1 DEF ListInv, AllLead
    <3> QED BY <1>7, <3>2, <3>3
  <2> QED BY <2>1, <2>2, <2>3 DEF AllLead
<1> QED BY <1>4, <1>5, <1>6, <1>8 DEF ListInv

LEMMA LinkHeadList ==
  ASSUME IInv, ListInv, NEW p \in Pids, LinkHead(p)
  PROVE  ListInv'
<1> DEFINE r == mine[p]
<1>1. /\ pc[p] = "head" /\ Linking(p) /\ r \in heap /\ r # Null /\ r \in Records
      /\ UNCHANGED <<loaded, process_cache, record, heap, mine, world, overlapped, twice>>
      /\ outstanding_header' = r
      /\ pc'[p] = "publish" /\ \A q \in Pids \ {p} : pc'[q] = pc[q]
  BY LinkFacts DEF LinkHead, Goto, Linking, IInv, TypeOK
<1>2. links' = links /\ DOMAIN links = heap
  BY <1>1 DEF links
<1>3. ~Linking(p)' /\ \A q \in Pids \ {p} : Linking(q)' <=> Linking(q)
  BY <1>1 DEF Linking
<1>4. /\ Settled' \subseteq Settled \cup {r}
      /\ (\E q \in Pids \ {p} : Linking(q)) => Settled' \subseteq Settled
  <2>1. InHand' = InHand \ {r}
    BY <1>1, <1>3, LinkFacts DEF InHand
  <2>2. (\E q \in Pids \ {p} : Linking(q)) => r \in overlapped
    BY <1>1 DEF ListInv, Overlaps
  <2> QED BY <1>1, <2>1, <2>2 DEF Settled
<1>5. HeadThere' /\ Overlaps' /\ Unloaded'
  BY <1>1, <1>3 DEF ListInv, HeadThere, Overlaps, Unloaded
<1>6. Unlinked'
  BY <1>1, <1>2, <1>3, LinkFacts DEF ListInv, Unlinked
<1>7. Ordered'
  BY <1>2 DEF ListInv, Ordered
<1>8. AllLead'
  <2>1. Leads(links, links[r], Settled)
    BY <1>1 DEF ListInv, AllLead
  <2>2. Leads(links, r, Settled \cup {r})
    BY <1>1, <1>2, <2>1, LeadsThrough
  <2>3. Leads(links, r, Settled')
    BY <1>4, <2>2, LeadsLess
  <2>4. ASSUME NEW q \in Pids, pc'[q] = "head" PROVE Leads(links, links[mine[q]], Settled)'
    <3>1. q # p /\ pc[q] = "head" /\ Linking(q) /\ mine'[q] = mine[q]
      BY <1>1, <2>4 DEF Linking
    <3>2. Leads(links, links[mine[q]], Settled) /\ Settled' \subseteq Settled
      BY <1>4, <3>1 DEF ListInv, AllLead
    <3>3. Leads(links, links[mine[q]], Settled')
      BY <3>2, LeadsLess
    <3> QED BY <1>2, <3>1, <3>3
  <2> QED BY <1>1, <1>2, <2>3, <2>4 DEF AllLead
<1> QED BY <1>5, <1>6, <1>7, <1>8 DEF ListInv

LEMMA LoadList == ASSUME ListInv, Load PROVE ListInv'
<1>1. /\ ~loaded /\ loaded' /\ UNCHANGED <<links, heap, pc, mine, overlapped>>
      /\ outstanding_header' = Null
  BY DEF Load, links
<1>2. (\A p \in Pids : ~Linking(p) /\ ~Linking(p)') /\ Settled' = {}
  BY <1>1 DEF ListInv, Unloaded, Linking, Settled
<1>3. HeadThere' /\ Ordered' /\ Unlinked' /\ Overlaps' /\ Unloaded'
  BY <1>1, <1>2 DEF ListInv, HeadThere, Ordered, Unlinked, Overlaps, Unloaded
<1>4. AllLead'
  BY <1>1, <1>2 DEF AllLead, Leads, Linking
<1> QED BY <1>3, <1>4 DEF ListInv

(* The walk meets every record that must be on the list. *)
LEMMA AllMet ==
  ASSUME IInv, ListInv
  PROVE  WalkEnds /\ Settled \subseteq Listed
<1>1. PICK rank \in [Records -> Nat] : Descends(links, rank)
  BY DEF ListInv, Ordered
<1>2. /\ WalkEnds
      /\ outstanding_header # Null => outstanding_header \in Listed
      /\ \A r \in Listed : links[r] # Null => links[r] \in Listed
  BY <1>1, WalkFacts DEF IInv, ListInv, HeadThere
<1>3. Listed \in SUBSET Records
  BY DEF Listed
<1>4. Leads(links, outstanding_header, Settled)
  BY DEF ListInv, AllLead
<1> QED BY <1>2, <1>3, <1>4 DEF Leads

LEMMA UnloadList == ASSUME IInv, ListInv, Unload PROVE ListInv'
<1>1. /\ ~loaded' /\ heap' = heap \ Listed /\ record' = [r \in Records |-> Blank]
      /\ outstanding_header' = Null /\ UNCHANGED <<pc, mine, overlapped>>
      /\ \A p \in Pids : pc[p] \in {"user", "execve"}
  BY DEF Unload
<1>2. \A p \in Pids : ~Linking(p) /\ ~Linking(p)' /\ pc'[p] # "head"
  BY <1>1 DEF Linking
<1>3. heap' \subseteq overlapped'
  BY <1>1, <1>2, AllMet DEF Settled, InHand
<1>4. HeadThere' /\ Unlinked' /\ Overlaps' /\ Unloaded'
  BY <1>1, <1>2, <1>3 DEF HeadThere, Unlinked, Overlaps, Unloaded
<1>5. AllLead'
  BY <1>1, <1>2, <1>3 DEF AllLead, Leads, Settled
<1>6. Ordered'
  <2>1. heap' \subseteq Records
    BY <1>1, LinkFacts
  <2>2. DOMAIN links' = heap' /\ \A r \in heap' : links'[r] = Null
    BY <1>1, <2>1 DEF links, Blank
  <2>3. [r \in Records |-> 0] \in [Records -> Nat]
    OBVIOUS
  <2> QED BY <2>2, <2>3 DEF Ordered, Descends
<1> QED BY <1>4, <1>5, <1>6 DEF ListInv

LEMMA ListInitial == Init => ListInv
<1> SUFFICES ASSUME Init PROVE ListInv
  OBVIOUS
<1>1. /\ ~loaded /\ heap = {} /\ outstanding_header = Null
      /\ \A p \in Pids : pc[p] = "user" /\ ~Linking(p)
  BY DEF Init, Linking
<1>2. Ordered
  <2>1. [r \in Records |-> 0] \in [Records -> Nat] /\ DOMAIN links = {}
    BY <1>1 DEF links
  <2> QED BY <2>1 DEF Ordered, Descends
<1> QED BY <1>1, <1>2 DEF ListInv, HeadThere, Unlinked, Overlaps, AllLead, Leads, Settled, Unloaded

(* A record that is built again, or changed, keeps its place. *)
LEMMA RecordStays ==
  ASSUME IInv, NEW r \in Records, NEW new, new.next = record[r].next,
         record' = [record EXCEPT ![r] = new], heap' = heap
  PROVE  links' = links
BY LinkFacts DEF links, IInv, TypeOK

LEMMA EnterList ==
  ASSUME IInv, ListInv, NEW p \in Pids,
         EnterKnown(p) \/ EnterExecuted(p) \/ EnterReused(p) \/ EnterWithoutMemory(p)
  PROVE  ListInv'
<1>1. /\ loaded /\ pc[p] = "user" /\ pc' = [pc EXCEPT ![p] = "body"]
      /\ UNCHANGED <<heap, table, loaded, mine, overlapped>>
  BY DEF EnterKnown, EnterExecuted, EnterReused, EnterWithoutMemory, Goto
<1>2. links' = links
  <2>1. CASE record' = record
    BY <1>1, <2>1 DEF links
  <2>2. CASE EnterExecuted(p) \/ EnterReused(p)
    <3> DEFINE r == process_cache[p]
    <3>1. r \in Records /\ record[r] \in Fields
      BY <2>2, CallerHas DEF EnterExecuted, EnterReused
    <3>2. \A s \in Fields : FilesFreed(s) \in Fields /\ FilesFreed(s).next = s.next
                            /\ Built(p, s).next = s.next
      BY DEF FilesFreed, Built, Fields
    <3>3. PICK old \in Fields :
            old.next = record[r].next /\ record' = [record EXCEPT ![r] = Built(p, old)]
      BY <2>2, <3>1, <3>2 DEF EnterExecuted, EnterReused
    <3>4. Built(p, old).next = record[r].next
      BY <3>2, <3>3
    <3> HIDE DEF r
    <3> QED BY <1>1, <3>1, <3>3, <3>4, RecordStays
  <2> QED BY <2>1, <2>2 DEF EnterKnown, EnterWithoutMemory
<1>3. \A q \in Pids : (Linking(q)' <=> Linking(q)) /\ (pc'[q] = "head" <=> pc[q] = "head")
  BY <1>1 DEF Linking, IInv, TypeOK
<1> QED BY <1>1, <1>2, <1>3, ListStays

LEMMA PublishList == ASSUME IInv, ListInv, NEW p \in Pids, Publish(p) PROVE ListInv'
<1>1. /\ loaded /\ pc[p] = "publish" /\ pc' = [pc EXCEPT ![p] = "body"]
      /\ mine' = [mine EXCEPT ![p] = Null] /\ ~Linking(p)
      /\ UNCHANGED <<record, heap, outstanding_header, loaded, overlapped>>
  BY DEF Publish, Goto, ListInv, Unloaded, Linking
<1>2. \A q \in Pids : (Linking(q)' <=> Linking(q)) /\ (pc'[q] = "head" <=> pc[q] = "head")
  BY <1>1 DEF Linking, IInv, TypeOK
<1>3. \A q \in Pids : Linking(q) => mine'[q] = mine[q]
  BY <1>1
<1> QED BY <1>1, <1>2, <1>3, ListStays DEF links

LEMMA BodyList ==
  ASSUME IInv, ListInv, NEW p \in Pids,
         FilesChange(p) \/ NotifyExecve(p) \/ Execve(p) \/ Return(p) \/ NextProcess(p)
  PROVE  ListInv'
<1>1. /\ UNCHANGED <<heap, table, loaded, mine, overlapped>>
      /\ \/ pc' = pc
         \/ /\ pc[p] \in {"body", "execve"}
            /\ \E to \in {"user", "execve"} : pc' = [pc EXCEPT ![p] = to]
  BY DEF FilesChange, NotifyExecve, Execve, Return, NextProcess, Goto
<1>2. links' = links
  <2>1. CASE record' = record
    BY <1>1, <2>1 DEF links
  <2>2. CASE process_cache[p] # Null /\ (FilesChange(p) \/ NotifyExecve(p))
    <3> DEFINE r == process_cache[p]
    <3>1. r \in Records /\ record[r] \in Fields
      BY <2>2, CallerHas
    <3>2. \E new : new.next = record[r].next /\ record' = [record EXCEPT ![r] = new]
      <4>1. CASE FilesChange(p)
        <5>1. PICK files \in {"none", "some"} : record' = [record EXCEPT ![r].files = files]
          BY <4>1 DEF FilesChange
        <5>2. [record[r] EXCEPT !.files = files].next = record[r].next
          BY <3>1 DEF Fields
        <5>3. record' = [record EXCEPT ![r] = [record[r] EXCEPT !.files = files]]
          BY <5>1
        <5> QED BY <5>2, <5>3
      <4>2. CASE NotifyExecve(p)
        <5>1. record' = [record EXCEPT ![r] = [record[r] EXCEPT !.before_execve = TRUE]]
          BY <2>2, <4>2 DEF NotifyExecve
        <5>2. [record[r] EXCEPT !.before_execve = TRUE].next = record[r].next
          BY <3>1 DEF Fields
        <5> QED BY <5>1, <5>2
      <4> QED BY <2>2, <4>1, <4>2
    <3> HIDE DEF r
    <3> QED BY <1>1, <3>1, <3>2, RecordStays
  <2> QED BY <2>1, <2>2 DEF FilesChange, NotifyExecve, Execve, Return, NextProcess
<1>3. \A q \in Pids : (Linking(q)' <=> Linking(q)) /\ (pc'[q] = "head" <=> pc[q] = "head")
  BY <1>1 DEF Linking, IInv, TypeOK
<1>4. ~loaded => \A q \in Pids : pc'[q] \in {"user", "execve"}
  BY <1>1 DEF ListInv, Unloaded, IInv, TypeOK
<1> QED BY <1>1, <1>2, <1>3, <1>4, ListStays

LEMMA ListStep == IInv /\ ListInv /\ [Next]_vars => ListInv'
<1> SUFFICES ASSUME IInv, ListInv, [Next]_vars PROVE ListInv'
  OBVIOUS
<1>1. ASSUME NEW p \in Pids, Enter(p) PROVE ListInv'
  BY <1>1, EnterList, EnterFirstList, LinkNextList, LinkHeadList, PublishList DEF Enter
<1>2. ASSUME NEW p \in Pids,
             FilesChange(p) \/ NotifyExecve(p) \/ Execve(p) \/ Return(p) \/ NextProcess(p)
      PROVE  ListInv'
  BY <1>2, BodyList
<1>3. CASE UNCHANGED vars
  <2>1. UNCHANGED <<links, heap, outstanding_header, loaded, overlapped, pc, mine>>
    BY <1>3 DEF links
  <2>2. \A p \in Pids : Linking(p)' <=> Linking(p)
    BY <2>1 DEF Linking
  <2> QED BY <2>1, <2>2, ListStays DEF ListInv, Unloaded
<1> QED BY <1>1, <1>2, <1>3, LoadList, UnloadList, ProcessAssumption DEF Next

(* The inductive invariant of the list. *)
THEOREM ListInvariant == Spec => []ListInv
<1> QED BY ListInitial, ListStep, RecordsInvariant, PTL DEF Spec

-----------------------------------------------------------------------------
(* What follows from it.                                                   *)

(* Every variable of the process table has its type, and who links a       *)
(* record has one, for any number of processes and records (process.c:307, *)
(* 433).                                                                   *)
THEOREM ProcessTypeCorrect == Spec => []TypeOK
<1>1. IInv => TypeOK BY DEF IInv
<1> QED BY <1>1, RecordsInvariant, PTL

(* However pids are reused, programs executed and the module unloaded and  *)
(* loaded, the record found in a hooked call describes the caller, and is  *)
(* nobody else's (process.c:393-424, 458). *)
THEOREM CallerAlwaysKnown == Spec => []CallerKnown
<1>1. IInv => CallerKnown
  <2> SUFFICES ASSUME IInv PROVE CallerKnown
    OBVIOUS
  <2>1. ASSUME NEW p \in Pids, pc[p] = "body", process_cache[p] # Null
        PROVE  /\ record[process_cache[p]].start_time = started[p]
               /\ record[process_cache[p]].filename = image[p]
    BY <2>1, CallerHas DEF IInv, Describes
  <2>2. ASSUME NEW p \in Pids, NEW q \in Pids, p # q,
               process_cache[p] = process_cache[q], process_cache[p] # Null
        PROVE  FALSE
    <3>1. Has(p, process_cache[p]) /\ Has(q, process_cache[p]) BY <2>2, CallerHas
    <3> QED BY <2>2, <3>1, CallerHas DEF IInv, OwnRecord
  <2> QED BY <2>1, <2>2 DEF CallerKnown
<1> QED BY <1>1, RecordsInvariant, PTL

(* Descriptors are released a second time only for the next user of a pid: *)
(* not by execve, and not by unloading (process.c:348, 416). *)
THEOREM FreedTwiceOnlyByReuse == Spec => FreedTwiceByReuse
<1> DEFINE A == \A r \in twice' \ twice :
                  \E p \in Pids : process_cache[p] = r /\ record[r].start_time # started[p]
<1>1. IInv /\ [Next]_vars => [A]_vars
  <2> SUFFICES ASSUME IInv, Next, NEW r \in twice' \ twice
               PROVE  \E p \in Pids : process_cache[p] = r /\ record[r].start_time # started[p]
    OBVIOUS
  <2>1. CASE Unload
    BY <2>1 DEF Unload, IInv, Listed
  <2>2. ASSUME NEW p \in Pids, EnterExecuted(p) PROVE FALSE
    <3>1. process_cache[p] \in Records BY <2>2, CallerHas DEF EnterExecuted
    <3> QED BY <2>2, <3>1 DEF EnterExecuted, IInv
  <2>3. ASSUME NEW p \in Pids, EnterReused(p)
        PROVE  \E q \in Pids : process_cache[q] = r /\ record[r].start_time # started[q]
    <3>1. r = process_cache[p] BY <2>3 DEF EnterReused
    <3> QED BY <2>3, <3>1 DEF EnterReused
  <2>4. twice' = twice \/ Unload \/ \E p \in Pids : EnterExecuted(p) \/ EnterReused(p)
    BY DEF Next, Enter, EnterKnown, EnterFirst, EnterWithoutMemory, LinkNext, LinkHead,
       Publish, Return, FilesChange, NotifyExecve, Execve, NextProcess, Load
  <2> QED BY <2>1, <2>2, <2>3, <2>4
<1>2. Spec => [][A]_vars BY <1>1, RecordsInvariant, PTL DEF Spec
<1> QED BY <1>2 DEF FreedTwiceByReuse

(* Although the list is changed without proc_sem, the walk of              *)
(* process_monitor_cleanup ends, meets only allocated memory and no record *)
(* twice (process.c:327-343). *)
THEOREM CleanupWalkEnds == Spec => []WalkEnds
<1>1. IInv /\ ListInv => WalkEnds
  BY AllMet
<1> QED BY <1>1, RecordsInvariant, ListInvariant, PTL

(* What stays allocated after unloading are records that two processes     *)
(* linked at the same time, and no others (process.c:113, 340, 342). *)
THEOREM OnlyOverlappedLost == Spec => []OnlyOverlappedStay
<1>1. ListInv => OnlyOverlappedStay
  BY DEF ListInv, Unloaded, OnlyOverlappedStay
<1> QED BY <1>1, ListInvariant, PTL
=============================================================================
