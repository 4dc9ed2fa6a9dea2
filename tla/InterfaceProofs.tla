--------------------------- MODULE InterfaceProofs ---------------------------
(***************************************************************************)
(* Proofs about Interface, for any set of tasks, any size of the ring and  *)
(* any record and read sizes.  The theorems assume that no signal cuts     *)
(* interface_read's wait for the semaphore short: with such a signal they  *)
(* fail (see the run interface_full).                                      *)
(***************************************************************************)
EXTENDS Interface, TLAPS

(* The semaphore counts the tasks it has let in. *)
Exclusive ==
  /\ sem \in {0, 1}
  /\ pc \in [Tasks -> Labels]
  /\ \A t \in Tasks : InCS(t) => sem = 0
  /\ MutualExclusion

USE DEF device, locals, history, ring, vars

(* The steps of Next, and a read of any count, as the program of SysReader *)
(* makes them.                                                             *)
AnyRead(t) ==
  \/ \E count \in Nat : ReadBegin(t, count)
  \/ ReadDown(t) \/ ReadSignalled(t) \/ ReadPlan(t)
  \/ ReadFirst(t) \/ ReadRest(t) \/ ReadUp(t)

Moves ==
  \/ \E t \in Writers : WriterStep(t)
  \/ \E t \in Readers : OpenCloseStep(t) \/ AnyRead(t)

LEMMA NextMoves == Next => Moves
<1>1. ASSUME NEW t \in Readers, ReadStep(t) PROVE AnyRead(t)
  <2>1. ReadCounts \subseteq Nat BY SizesAssumption
  <2> QED BY <1>1, <2>1 DEF ReadStep, AnyRead
<1> QED BY <1>1 DEF Next, Moves

LEMMA ExclusiveInit == Init => Exclusive
BY TasksAssumption
   DEF Init, Exclusive, MutualExclusion, InCS, CriticalSection, Labels, Tasks

(* The three ways a step can change pc and sem. *)
LEMMA EnterKeeps ==
  ASSUME Exclusive, NEW t \in Tasks, NEW from \in Labels, NEW to \in Labels,
         Goto(t, from, to), sem > 0, sem' = sem - 1
  PROVE  Exclusive'
BY DEF Exclusive, MutualExclusion, InCS, Goto

LEMMA LeaveKeeps ==
  ASSUME Exclusive, NEW t \in Tasks, NEW from \in CriticalSection,
         NEW to \in Labels \ CriticalSection, Goto(t, from, to), sem' = sem + 1
  PROVE  Exclusive'
BY DEF Exclusive, MutualExclusion, InCS, Goto

LEMMA StayKeeps ==
  ASSUME Exclusive, NEW t \in Tasks, NEW from \in Labels, NEW to \in Labels,
         to \in CriticalSection => from \in CriticalSection,
         Goto(t, from, to), sem' = sem
  PROVE  Exclusive'
BY DEF Exclusive, MutualExclusion, InCS, Goto

LEMMA ExclusiveNext ==
  ASSUME "read" \notin Interruptible, Exclusive, [Moves]_vars
  PROVE  Exclusive'
<1>1. ASSUME NEW t \in Writers, WriterStep(t) PROVE Exclusive'
  <2> t \in Tasks BY DEF Tasks
  <2>1. CASE WriteBegin(t)
    BY <2>1, StayKeeps DEF WriteBegin, Labels, CriticalSection
  <2>2. CASE WriteDown(t)
    BY <2>2, EnterKeeps DEF WriteDown, Down, Labels, CriticalSection
  <2>3. CASE WriteSignalled(t)
    BY <2>3, StayKeeps DEF WriteSignalled, Signalled, Labels, CriticalSection
  <2>4. CASE WriteCheck(t)
    BY <2>4, StayKeeps DEF WriteCheck, Labels, CriticalSection
  <2>5. CASE WriteCopy(t)
    BY <2>5, StayKeeps DEF WriteCopy, Labels, CriticalSection
  <2>6. CASE WriteUp(t)
    BY <2>6, LeaveKeeps DEF WriteUp, Up, Labels, CriticalSection
  <2> QED BY <1>1, <2>1, <2>2, <2>3, <2>4, <2>5, <2>6 DEF WriterStep
<1>2. ASSUME NEW t \in Readers, OpenCloseStep(t) PROVE Exclusive'
  <2> t \in Tasks BY DEF Tasks
  <2>1. CASE OpenBegin(t)
    BY <2>1, StayKeeps DEF OpenBegin, Labels, CriticalSection
  <2>2. CASE OpenDown(t)
    BY <2>2, EnterKeeps DEF OpenDown, Down, Labels, CriticalSection
  <2>3. CASE OpenSignalled(t)
    BY <2>3, StayKeeps DEF OpenSignalled, Signalled, Labels, CriticalSection
  <2>4. CASE OpenCheck(t)
    BY <2>4, StayKeeps DEF OpenCheck, Labels, CriticalSection
  <2>5. CASE OpenTake(t)
    BY <2>5, StayKeeps DEF OpenTake, Labels, CriticalSection
  <2>6. CASE OpenUp(t)
    BY <2>6, LeaveKeeps DEF OpenUp, Up, Labels, CriticalSection
  <2>7. CASE CloseBegin(t)
    BY <2>7, StayKeeps DEF CloseBegin, Labels, CriticalSection
  <2>8. CASE CloseDown(t)
    BY <2>8, EnterKeeps DEF CloseDown, Down, Labels, CriticalSection
  <2>9. CASE CloseSignalled(t)
    BY <2>9, StayKeeps DEF CloseSignalled, Signalled, Labels, CriticalSection
  <2>10. CASE CloseCheck(t)
    BY <2>10, StayKeeps DEF CloseCheck, Labels, CriticalSection
  <2>11. CASE CloseClear(t)
    BY <2>11, StayKeeps DEF CloseClear, Labels, CriticalSection
  <2>12. CASE CloseUp(t)
    BY <2>12, LeaveKeeps DEF CloseUp, Up, Labels, CriticalSection
  <2> QED BY <1>2, <2>1, <2>2, <2>3, <2>4, <2>5, <2>6, <2>7, <2>8, <2>9,
             <2>10, <2>11, <2>12 DEF OpenCloseStep
<1>3. ASSUME NEW t \in Readers, AnyRead(t) PROVE Exclusive'
  <2> t \in Tasks BY DEF Tasks
  <2>1. ASSUME NEW count \in Nat, ReadBegin(t, count) PROVE Exclusive'
    BY <2>1, StayKeeps DEF ReadBegin, Labels, CriticalSection
  <2>2. CASE ReadDown(t)
    BY <2>2, EnterKeeps DEF ReadDown, Down, Labels, CriticalSection
  <2>3. CASE ReadSignalled(t)
    BY <2>3 DEF ReadSignalled, Signalled
  <2>4. CASE ReadPlan(t)
    BY <2>4, StayKeeps DEF ReadPlan, Labels, CriticalSection
  <2>5. CASE ReadFirst(t)
    BY <2>5, StayKeeps DEF ReadFirst, Labels, CriticalSection
  <2>6. CASE ReadRest(t)
    BY <2>6, StayKeeps DEF ReadRest, Labels, CriticalSection
  <2>7. CASE ReadUp(t)
    BY <2>7, LeaveKeeps DEF ReadUp, Up, Labels, CriticalSection
  <2> QED BY <1>3, <2>1, <2>2, <2>3, <2>4, <2>5, <2>6, <2>7 DEF AnyRead
<1>4. CASE UNCHANGED vars
  BY <1>4 DEF Exclusive, MutualExclusion, InCS
<1> QED BY <1>1, <1>2, <1>3, <1>4 DEF Moves

(* interface.c keeps write_to_interface, open, read and release out of     *)
(* each other's critical section, whatever the number of tasks.            *)
THEOREM Exclusion ==
  ASSUME "read" \notin Interruptible
  PROVE  Spec => []MutualExclusion
<1>1. Init => Exclusive BY ExclusiveInit
<1>2. Exclusive /\ [Next]_vars => Exclusive' BY ExclusiveNext, NextMoves
<1>3. Exclusive => MutualExclusion BY DEF Exclusive
<1> QED BY <1>1, <1>2, <1>3, PTL DEF Spec

-----------------------------------------------------------------------------
(* Arithmetic of the ring.                                                 *)

LEMMA UsedSizeRange ==
  ASSUME read_ptr \in Cells, write_ptr \in Cells
  PROVE  UsedSize \in 0 .. BufSize - 1
BY SizesAssumption DEF UsedSize, Cells

LEMMA AdvanceInRing ==
  ASSUME NEW p \in Cells, NEW n \in 0 .. BufSize
  PROVE  Advance(p, n) \in Cells
BY SizesAssumption DEF Advance, Cells

(* Writing n bytes that leave a byte free. *)
LEMMA UsedAfterWrite ==
  ASSUME read_ptr \in Cells, write_ptr \in Cells,
         NEW n \in Nat, n < BufSize - UsedSize,
         read_ptr' = read_ptr, write_ptr' = Advance(write_ptr, n)
  PROVE  UsedSize' = UsedSize + n
BY SizesAssumption DEF UsedSize, Advance, Cells

(* The unread cells are out of copy_to_buffer's way ... *)
LEMMA OffsetOfUnread ==
  ASSUME read_ptr \in Cells, write_ptr \in Cells,
         NEW n \in Nat, n < BufSize - UsedSize, NEW i \in 0 .. UsedSize - 1
  PROVE  Offset(write_ptr, Advance(read_ptr, i)) >= n
BY SizesAssumption DEF UsedSize, Advance, Offset, Cells

(* ... and those after them are the ones it fills. *)
LEMMA OffsetOfNew ==
  ASSUME read_ptr \in Cells, write_ptr \in Cells,
         NEW n \in Nat, n < BufSize - UsedSize, NEW i \in 0 .. n - 1
  PROVE  Offset(write_ptr, Advance(read_ptr, UsedSize + i)) = i
BY SizesAssumption DEF UsedSize, Advance, Offset, Cells

(* Taking n bytes that do not lie on both sides of the end. *)
LEMMA UsedAfterRead ==
  ASSUME read_ptr \in Cells, write_ptr \in Cells,
         NEW n \in 0 .. UsedSize, read_ptr + n =< BufSize,
         read_ptr' = Advance(read_ptr, n), write_ptr' = write_ptr
  PROVE  /\ UsedSize' = UsedSize - n
         /\ \A i \in 0 .. UsedSize - n - 1 :
              Advance(read_ptr', i) = Advance(read_ptr, n + i)
BY SizesAssumption DEF UsedSize, Advance, Cells

-----------------------------------------------------------------------------
(* The inductive invariant.  Between the decision of a task and the copy   *)
(* it decided on, the ring still is as the task found it.                  *)

WriterPlan ==
  \A t \in Writers : pc[t] = "w_copy" => want[t] < BufSize - UsedSize

ReaderPlanOf(t) ==
  /\ pc[t] \in {"r_down", "r_plan", "r_first", "r_rest"} => copyed[t] \in Nat
  /\ pc[t] \in {"r_first", "r_rest"} => want[t] =< UsedSize
  /\ pc[t] = "r_first" => /\ first_size[t] = BufSize - read_ptr
                          /\ first_size[t] =< want[t]
  /\ pc[t] = "r_rest" => read_ptr + want[t] < BufSize

ReaderPlan == \A t \in Readers : ReaderPlanOf(t)

RingInv ==
  /\ TypeOK
  /\ Exclusive
  /\ RingHoldsStream
  /\ next >= accepted - UsedSize
  /\ WriterPlan
  /\ ReaderPlan

LEMMA RingInit == Init => RingInv
<1> SUFFICES ASSUME Init PROVE RingInv OBVIOUS
<1>1. TypeOK
  <2>1. [i \in Cells |-> NoByte] \in [Cells -> Int] BY DEF NoByte
  <2>2. user_buf \in [Readers -> [Cells -> Int]] BY <2>1 DEF Init
  <2>3. pc \in [Tasks -> Labels]
    BY DEF Init, Labels, CriticalSection
  <2>4. 0 \in Cells BY SizesAssumption DEF Cells
  <2>5. /\ want \in [Tasks -> Nat]
        /\ first_size \in [Readers -> Nat]
        /\ copyed \in [Readers -> Nat \cup {EINTR}]
    BY DEF Init
  <2>6. /\ sem \in Nat
        /\ owner_pid \in Readers \cup {NoPid}
        /\ device_ready \in BOOLEAN
        /\ cycle_buffer \in [Cells -> Int]
    BY <2>1 DEF Init
  <2>7. read_ptr \in Cells /\ write_ptr \in Cells /\ accepted \in Nat /\ next \in Int
    BY <2>4 DEF Init
  <2> QED BY <2>2, <2>3, <2>5, <2>6, <2>7 DEF TypeOK
<1>2. UsedSize = 0 BY DEF Init, UsedSize
<1>3. RingHoldsStream /\ next >= accepted - UsedSize
  BY <1>2 DEF Init, RingHoldsStream
<1>4. WriterPlan /\ ReaderPlan
  BY TasksAssumption DEF Init, WriterPlan, ReaderPlan, ReaderPlanOf, Tasks
<1> QED BY <1>1, <1>3, <1>4, ExclusiveInit DEF RingInv

LEMMA CopyToUserType ==
  ASSUME TypeOK, NEW t \in Readers, NEW len \in Nat, copyed[t] \in Nat,
         read_ptr + len =< BufSize, CopyToUser(t, len)
  PROVE  /\ copyed' \in [Readers -> Nat \cup {EINTR}]
         /\ user_buf' \in [Readers -> [Cells -> Int]]
         /\ next' \in Int
<1>1. \A i \in copyed[t] .. copyed[t] + len - 1 :
        cycle_buffer[read_ptr + i - copyed[t]] \in Int
  <2>1. /\ read_ptr \in Nat /\ BufSize \in Nat
        /\ cycle_buffer \in [0 .. BufSize - 1 -> Int]
    BY SizesAssumption DEF TypeOK, Cells
  <2>2. \A i \in copyed[t] .. copyed[t] + len - 1 :
          read_ptr + i - copyed[t] \in 0 .. BufSize - 1
    BY <2>1
  <2> QED BY <2>1, <2>2
<1>2. [i \in Cells |-> IF i \in copyed[t] .. copyed[t] + len - 1
                       THEN cycle_buffer[read_ptr + i - copyed[t]]
                       ELSE user_buf[t][i]] \in [Cells -> Int]
  BY <1>1 DEF TypeOK
<1>3. next' \in Int
  BY SizesAssumption DEF TypeOK, Cells, CopyToUser
<1> QED BY <1>2, <1>3 DEF CopyToUser, TypeOK

LEMMA TypeNext ==
  ASSUME "read" \notin Interruptible, RingInv, [Moves]_vars
  PROVE  TypeOK'
<1> USE DEF TypeOK
<1>0. TypeOK /\ sem' \in Nat /\ pc' \in [Tasks -> Labels]
  BY ExclusiveNext DEF RingInv, Exclusive
<1>1. ASSUME NEW t \in Writers, WriterStep(t) PROVE TypeOK'
  <2> t \in Tasks BY DEF Tasks
  <2>1. CASE WriteBegin(t)
    BY <1>0, <2>1, SizesAssumption DEF WriteBegin
  <2>2. CASE WriteDown(t) BY <1>0, <2>2 DEF WriteDown, Down
  <2>3. CASE WriteSignalled(t) BY <1>0, <2>3 DEF WriteSignalled, Signalled
  <2>4. CASE WriteCheck(t) BY <1>0, <2>4 DEF WriteCheck
  <2>5. CASE WriteCopy(t)
    <3>1. want[t] \in 0 .. BufSize
      BY <1>0, <2>5, UsedSizeRange, SizesAssumption
         DEF WriteCopy, Goto, RingInv, WriterPlan
    <3>2. write_ptr' \in Cells BY <1>0, <2>5, <3>1, AdvanceInRing DEF WriteCopy
    <3>3. \A i \in Cells : Offset(write_ptr, i) \in Int
      BY <1>0, SizesAssumption DEF Offset, Cells
    <3>4. cycle_buffer' \in [Cells -> Int]
      BY <1>0, <2>5, <3>3 DEF WriteCopy, CopyToBuffer
    <3> QED BY <1>0, <2>5, <3>2, <3>4 DEF WriteCopy
  <2>6. CASE WriteUp(t) BY <1>0, <2>6 DEF WriteUp, Up
  <2> QED BY <1>1, <2>1, <2>2, <2>3, <2>4, <2>5, <2>6 DEF WriterStep
<1>2. ASSUME NEW t \in Readers, OpenCloseStep(t) PROVE TypeOK'
  BY <1>0, <1>2 DEF OpenCloseStep, OpenBegin, OpenDown, OpenSignalled,
     OpenCheck, OpenTake, OpenUp, CloseBegin, CloseDown, CloseSignalled,
     CloseCheck, CloseClear, CloseUp, Down, Up, Signalled
<1>3. ASSUME NEW t \in Readers, AnyRead(t) PROVE TypeOK'
  <2> t \in Tasks BY DEF Tasks
  <2>1. ASSUME NEW count \in Nat, ReadBegin(t, count) PROVE TypeOK'
    BY <1>0, <2>1, SizesAssumption DEF ReadBegin, NoByte
  <2>2. CASE ReadDown(t) BY <1>0, <2>2 DEF ReadDown, Down
  <2>3. CASE ReadSignalled(t) BY <2>3 DEF ReadSignalled, Signalled
  <2>4. CASE ReadPlan(t)
    <3>1. UsedSize \in Nat /\ BufSize - read_ptr \in Nat
      BY <1>0, UsedSizeRange, SizesAssumption DEF Cells
    <3> QED BY <1>0, <2>4, <3>1 DEF ReadPlan
  <2>5. CASE ReadFirst(t)
    <3>1. /\ copyed[t] \in Nat
          /\ first_size[t] = BufSize - read_ptr
          /\ first_size[t] =< want[t]
      BY <2>5 DEF ReadFirst, RingInv, ReaderPlan, ReaderPlanOf
    <3>2. PICK left \in Left(first_size[t]) : CopyToUser(t, first_size[t] - left)
      BY <2>5 DEF ReadFirst
    <3>3. first_size[t] - left \in Nat /\ first_size[t] - left =< BufSize - read_ptr
      BY <1>0, <3>1, <3>2 DEF Left
    <3>4. /\ copyed' \in [Readers -> Nat \cup {EINTR}]
          /\ user_buf' \in [Readers -> [Cells -> Int]]
          /\ next' \in Int
      BY <1>0, <3>1, <3>2, <3>3, CopyToUserType, SizesAssumption DEF Cells
    <3>5. want[t] \in Nat /\ first_size[t] \in Nat BY <1>0
    <3>6. want[t] - first_size[t] \in Nat BY <3>1, <3>5
    <3>7. read_ptr' \in Cells
      <4>1. 0 \in Cells BY SizesAssumption DEF Cells
      <4> QED BY <1>0, <2>5, <4>1 DEF ReadFirst
    <3>8. want' \in [Tasks -> Nat] BY <1>0, <2>5, <3>6 DEF ReadFirst
    <3> QED BY <1>0, <2>5, <3>4, <3>7, <3>8 DEF ReadFirst
  <2>6. CASE ReadRest(t)
    <3>1. copyed[t] \in Nat /\ read_ptr + want[t] < BufSize
      BY <2>6 DEF ReadRest, Goto, RingInv, ReaderPlan, ReaderPlanOf
    <3>2. PICK left \in Left(want[t]) : /\ CopyToUser(t, want[t] - left)
                                        /\ read_ptr' = read_ptr + want[t] - left
      BY <2>6 DEF ReadRest
    <3>3. /\ want[t] - left \in Nat /\ want[t] - left =< want[t]
          /\ want[t] \in Nat /\ left \in Nat
      BY <1>0, <3>2 DEF Left
    <3> read_ptr \in Nat /\ read_ptr =< BufSize - 1 /\ BufSize \in Nat
      BY <1>0, SizesAssumption DEF Cells
    <3> HIDE DEF TypeOK
    <3>6. read_ptr + (want[t] - left) =< BufSize BY <3>1, <3>3
    <3>4. /\ copyed' \in [Readers -> Nat \cup {EINTR}]
          /\ user_buf' \in [Readers -> [Cells -> Int]]
          /\ next' \in Int
      BY <1>0, <3>1, <3>2, <3>3, <3>6, CopyToUserType
    <3>5. read_ptr' \in Cells
      BY <3>1, <3>2, <3>3 DEF Cells
    <3> QED BY <1>0, <2>6, <3>4, <3>5 DEF ReadRest, TypeOK
  <2>7. CASE ReadUp(t) BY <1>0, <2>7 DEF ReadUp, Up
  <2> QED BY <1>3, <2>1, <2>2, <2>3, <2>4, <2>5, <2>6, <2>7 DEF AnyRead
<1>4. CASE UNCHANGED vars BY <1>0, <1>4
<1> QED BY <1>1, <1>2, <1>3, <1>4 DEF Moves

(* A step that touches neither the ring nor the stream need only be shown  *)
(* to keep the plans.                                                      *)
LEMMA QuietKeeps ==
  ASSUME RingInv, TypeOK', Exclusive', UNCHANGED <<ring, history>>,
         WriterPlan', ReaderPlan'
  PROVE  RingInv'
<1>1. UsedSize' = UsedSize BY DEF UsedSize
<1>2. RingHoldsStream' BY <1>1 DEF RingInv, RingHoldsStream, Advance
<1>3. (next >= accepted - UsedSize)' BY <1>1 DEF RingInv
<1> QED BY <1>2, <1>3 DEF RingInv

(* Steps that change at most the place of one task, which is not one of    *)
(* those the plans speak of.                                               *)
LEMMA MoveKeepsPlans ==
  ASSUME RingInv, TypeOK', NEW t \in Tasks, NEW from, NEW to, Goto(t, from, to),
         to \notin {"w_copy", "r_down", "r_plan", "r_first", "r_rest"},
         UNCHANGED <<ring, want, first_size>>,
         \A u \in Readers : u # t => copyed'[u] = copyed[u]
  PROVE  WriterPlan' /\ ReaderPlan'
<1>1. UsedSize' = UsedSize BY DEF UsedSize
<1>2. WriterPlan' BY <1>1 DEF RingInv, TypeOK, WriterPlan, Goto
<1>3. ReaderPlan' BY <1>1 DEF RingInv, TypeOK, ReaderPlan, ReaderPlanOf, Goto
<1> QED BY <1>2, <1>3

LEMMA WriterNext ==
  ASSUME RingInv, TypeOK', Exclusive', NEW t \in Writers, WriterStep(t)
  PROVE  RingInv'
<1> t \in Tasks BY DEF Tasks
<1>0. TypeOK BY DEF RingInv
<1>1. CASE WriteBegin(t)
  <2>1. UNCHANGED <<ring, history, first_size, copyed>> BY <1>1 DEF WriteBegin
  <2>2. UsedSize' = UsedSize BY <2>1 DEF UsedSize
  <2>3. \A u \in Tasks : u # t => want'[u] = want[u] /\ pc'[u] = pc[u]
    BY <1>0, <1>1 DEF WriteBegin, Goto, TypeOK
  <2>4. pc'[t] = "w_down" BY <1>0, <1>1 DEF WriteBegin, Goto, TypeOK
  <2>5. WriterPlan' /\ ReaderPlan'
    BY <2>1, <2>2, <2>3, <2>4 DEF RingInv, WriterPlan, ReaderPlan, ReaderPlanOf, Tasks
  <2> QED BY <2>1, <2>5, QuietKeeps
<1>2. CASE WriteDown(t)
  BY <1>2, MoveKeepsPlans, QuietKeeps DEF WriteDown, Down
<1>3. CASE WriteSignalled(t)
  BY <1>3, MoveKeepsPlans, QuietKeeps DEF WriteSignalled, Signalled
<1>4. CASE WriteCheck(t)
  <2>1. UsedSize' = UsedSize BY <1>4 DEF WriteCheck, UsedSize
  <2>2. BufSize \in Nat /\ UsedSize \in Nat /\ want[t] \in Nat
    BY <1>0, UsedSizeRange, SizesAssumption DEF TypeOK
  <2>3. pc'[t] = "w_copy" => want'[t] < BufSize - UsedSize
    BY <1>0, <1>4, <2>2 DEF WriteCheck, Goto, TypeOK
  <2>4. WriterPlan'
    BY <1>0, <1>4, <2>1, <2>3 DEF RingInv, TypeOK, WriterPlan, WriteCheck, Goto
  <2>5. ReaderPlan'
    BY <1>0, <1>4, <2>1 DEF RingInv, TypeOK, ReaderPlan, ReaderPlanOf, WriteCheck, Goto
  <2> QED BY <1>4, <2>4, <2>5, QuietKeeps DEF WriteCheck
<1>5. CASE WriteCopy(t)
  <2> DEFINE n == want[t]
  <2>0. TypeOK /\ n \in Nat /\ BufSize \in Nat \ {0} /\ UsedSize \in 0 .. BufSize - 1
    BY <1>0, UsedSizeRange, SizesAssumption DEF TypeOK
  <2>1. n < BufSize - UsedSize BY <1>5 DEF WriteCopy, Goto, RingInv, WriterPlan
  <2>2. /\ read_ptr \in Cells /\ write_ptr \in Cells
        /\ read_ptr' = read_ptr
        /\ write_ptr' = Advance(write_ptr, n)
        /\ accepted' = accepted + n
        /\ next' = next
        /\ accepted \in Nat /\ next \in Int
        /\ cycle_buffer' = CopyToBuffer(write_ptr, n)
    BY <1>0, <1>5 DEF WriteCopy, TypeOK
  <2> HIDE DEF n
  <2>3. UsedSize' = UsedSize + n BY <2>0, <2>1, <2>2, UsedAfterWrite
  <2>4. RingHoldsStream'
    <3>1. SUFFICES ASSUME NEW i \in 0 .. UsedSize + n - 1
                   PROVE  cycle_buffer'[Advance(read_ptr, i)] = accepted - UsedSize + i
      BY <2>0, <2>2, <2>3 DEF RingHoldsStream, Advance
    <3>2. Advance(read_ptr, i) \in Cells BY <2>0, <2>1, <2>2, AdvanceInRing
    <3>3. CASE i < UsedSize
      <4>1. Offset(write_ptr, Advance(read_ptr, i)) >= n
        BY <2>0, <2>1, <2>2, <3>3, OffsetOfUnread
      <4>2. Offset(write_ptr, Advance(read_ptr, i)) \in Int
        BY <2>0, <2>2, <3>2 DEF Offset, Cells
      <4>3. cycle_buffer'[Advance(read_ptr, i)] = cycle_buffer[Advance(read_ptr, i)]
        BY <2>0, <2>2, <3>2, <4>1, <4>2 DEF CopyToBuffer
      <4> QED BY <2>0, <3>3, <4>3 DEF RingInv, RingHoldsStream
    <3>4. CASE i >= UsedSize
      <4>1. i - UsedSize \in 0 .. n - 1 /\ UsedSize + (i - UsedSize) = i
        BY <2>0, <3>4
      <4>2. Offset(write_ptr, Advance(read_ptr, i)) = i - UsedSize
        BY <2>0, <2>1, <2>2, <4>1, OffsetOfNew
      <4>3. cycle_buffer'[Advance(read_ptr, i)] = accepted + (i - UsedSize)
        BY <2>0, <2>2, <3>2, <4>1, <4>2 DEF CopyToBuffer
      <4> QED BY <2>0, <2>2, <4>3
    <3> QED BY <2>0, <3>3, <3>4
  <2>5. (next >= accepted - UsedSize)' BY <2>0, <2>2, <2>3 DEF RingInv
  <2>6. \A u \in Tasks : u # t => pc'[u] = pc[u] /\ pc[u] \notin CriticalSection
    BY <1>0, <1>5 DEF RingInv, Exclusive, MutualExclusion, InCS, WriteCopy, Goto,
                     TypeOK, CriticalSection
  <2>7. pc'[t] = "w_up" BY <1>0, <1>5 DEF WriteCopy, Goto, TypeOK
  <2>8. WriterPlan' /\ ReaderPlan'
    BY <1>5, <2>6, <2>7
       DEF WriteCopy, RingInv, WriterPlan, ReaderPlan, ReaderPlanOf, Tasks, CriticalSection
  <2> QED BY <2>4, <2>5, <2>8 DEF RingInv
<1>6. CASE WriteUp(t)
  BY <1>6, MoveKeepsPlans, QuietKeeps DEF WriteUp, Up
<1> QED BY <1>1, <1>2, <1>3, <1>4, <1>5, <1>6 DEF WriterStep

LEMMA OpenCloseNext ==
  ASSUME RingInv, TypeOK', Exclusive', NEW t \in Readers, OpenCloseStep(t)
  PROVE  RingInv'
<1> t \in Tasks BY DEF Tasks
<1> USE MoveKeepsPlans, QuietKeeps
<1>1. CASE OpenBegin(t) BY <1>1 DEF OpenBegin
<1>2. CASE OpenDown(t) BY <1>2 DEF OpenDown, Down
<1>3. CASE OpenSignalled(t) BY <1>3 DEF OpenSignalled, Signalled
<1>4. CASE OpenCheck(t) BY <1>4 DEF OpenCheck
<1>5. CASE OpenTake(t) BY <1>5 DEF OpenTake
<1>6. CASE OpenUp(t) BY <1>6 DEF OpenUp, Up
<1>7. CASE CloseBegin(t) BY <1>7 DEF CloseBegin
<1>8. CASE CloseDown(t) BY <1>8 DEF CloseDown, Down
<1>9. CASE CloseSignalled(t) BY <1>9 DEF CloseSignalled, Signalled
<1>10. CASE CloseCheck(t) BY <1>10 DEF CloseCheck
<1>11. CASE CloseClear(t) BY <1>11 DEF CloseClear
<1>12. CASE CloseUp(t) BY <1>12 DEF CloseUp, Up
<1> QED BY <1>1, <1>2, <1>3, <1>4, <1>5, <1>6, <1>7, <1>8, <1>9, <1>10,
           <1>11, <1>12 DEF OpenCloseStep

(* The two copies of interface_read.  An unfinished first part leaves the  *)
(* pointers; in every other case len bytes leave the ring.                 *)
LEMMA CopyAdvances ==
  ASSUME RingInv, NEW t \in Readers, NEW len \in 0 .. UsedSize,
         read_ptr + len =< BufSize, CopyToUser(t, len),
         UNCHANGED <<cycle_buffer, write_ptr, accepted>>,
         read_ptr' = Advance(read_ptr, len)
  PROVE  /\ UsedSize' = UsedSize - len
         /\ RingHoldsStream'
         /\ next' = IF len > 0 THEN accepted - UsedSize + len ELSE next
<1>0. /\ read_ptr \in Cells /\ write_ptr \in Cells
      /\ BufSize \in Nat /\ UsedSize \in 0 .. BufSize - 1
      /\ accepted \in Nat /\ next \in Int
  BY UsedSizeRange, SizesAssumption DEF RingInv, TypeOK
<1>1. /\ UsedSize' = UsedSize - len
      /\ \A i \in 0 .. UsedSize - len - 1 :
           Advance(read_ptr', i) = Advance(read_ptr, len + i)
  BY <1>0, UsedAfterRead
<1>2. RingHoldsStream'
  <2>1. SUFFICES ASSUME NEW i \in 0 .. UsedSize - len - 1
                 PROVE  cycle_buffer[Advance(read_ptr, len + i)]
                          = accepted - (UsedSize - len) + i
    BY <1>1 DEF RingHoldsStream, Advance
  <2>2. len + i \in 0 .. UsedSize - 1 BY <1>0
  <2>3. cycle_buffer[Advance(read_ptr, len + i)] = accepted - UsedSize + (len + i)
    BY <2>2 DEF RingInv, RingHoldsStream
  <2> QED BY <1>0, <2>3
<1>3. ASSUME len > 0 PROVE next' = accepted - UsedSize + len
  <2>1. len - 1 \in 0 .. UsedSize - 1 BY <1>0, <1>3
  <2>2. Advance(read_ptr, len - 1) = read_ptr + len - 1
    BY <1>0, <1>3 DEF Advance, Cells
  <2>3. next' = accepted - UsedSize + (len - 1) + 1
    BY <1>3, <2>1, <2>2 DEF CopyToUser, RingInv, RingHoldsStream
  <2> QED BY <1>0, <2>3
<1>4. len <= 0 => next' = next BY DEF CopyToUser
<1> QED BY <1>0, <1>1, <1>2, <1>3, <1>4

LEMMA ReadNext ==
  ASSUME "read" \notin Interruptible, RingInv, TypeOK', Exclusive',
         NEW t \in Readers, AnyRead(t)
  PROVE  RingInv'
<1> t \in Tasks BY DEF Tasks
<1>0. TypeOK BY DEF RingInv
<1>a. InCS(t) => \A u \in Tasks : u # t => pc[u] \notin CriticalSection
  BY DEF RingInv, Exclusive, MutualExclusion, InCS
<1>1. ASSUME NEW count \in Nat, ReadBegin(t, count) PROVE RingInv'
  <2>1. UsedSize' = UsedSize BY <1>1 DEF ReadBegin, UsedSize
  <2>2. WriterPlan'
    BY <1>0, <1>1, <2>1, TasksAssumption
       DEF ReadBegin, Goto, RingInv, TypeOK, WriterPlan, Tasks
  <2>3. ReaderPlan'
    BY <1>0, <1>1, <2>1 DEF ReadBegin, Goto, RingInv, TypeOK, ReaderPlan, ReaderPlanOf, Tasks
  <2> QED BY <1>1, <2>2, <2>3, QuietKeeps DEF ReadBegin
<1>2. CASE ReadDown(t)
  <2>1. UsedSize' = UsedSize BY <1>2 DEF ReadDown, Down, UsedSize
  <2>2. WriterPlan'
    BY <1>0, <1>2, <2>1, TasksAssumption
       DEF ReadDown, Down, Goto, RingInv, TypeOK, WriterPlan, Tasks
  <2>3. ReaderPlan'
    BY <1>0, <1>2, <2>1 DEF ReadDown, Down, Goto, RingInv, TypeOK, ReaderPlan, ReaderPlanOf
  <2> QED BY <1>2, <2>2, <2>3, QuietKeeps DEF ReadDown, Down
<1>3. CASE ReadSignalled(t) BY <1>3 DEF ReadSignalled, Signalled
<1>4. CASE ReadPlan(t)
  <2>0. /\ read_ptr \in Cells /\ write_ptr \in Cells /\ BufSize \in Nat
        /\ want[t] \in Nat /\ UsedSize \in Nat /\ copyed[t] \in Nat
    BY <1>0, <1>4, UsedSizeRange, SizesAssumption
       DEF ReadPlan, Goto, RingInv, TypeOK, ReaderPlan, ReaderPlanOf
  <2>1. UsedSize' = UsedSize BY <1>4 DEF ReadPlan, UsedSize
  <2>2. WriterPlan'
    BY <1>0, <1>4, <2>1, TasksAssumption
       DEF ReadPlan, Goto, RingInv, TypeOK, WriterPlan, Tasks
  <2>3. want'[t] =< UsedSize /\ want'[t] \in Nat
    BY <1>0, <1>4, <2>0 DEF ReadPlan, TypeOK
  <2>4. pc'[t] = "r_first" => first_size'[t] = BufSize - read_ptr /\ first_size'[t] =< want'[t]
    BY <1>0, <1>4, <2>0 DEF ReadPlan, Goto, TypeOK
  <2>5. pc'[t] = "r_rest" => read_ptr + want'[t] < BufSize
    <3>1. SUFFICES ASSUME pc'[t] = "r_rest" PROVE read_ptr + want'[t] < BufSize
      OBVIOUS
    <3>2. read_ptr # write_ptr /\ ~ (read_ptr > write_ptr /\ BufSize - read_ptr =< want'[t])
      BY <1>0, <1>4, <3>1 DEF ReadPlan, Goto, TypeOK
    <3>3. CASE read_ptr > write_ptr
      BY <2>0, <2>3, <3>2, <3>3 DEF Cells
    <3>4. CASE read_ptr < write_ptr
      BY <2>0, <2>3, <3>4 DEF Cells, UsedSize
    <3> QED BY <2>0, <3>2, <3>3, <3>4 DEF Cells
  <2>6. \A u \in Readers : u # t => pc'[u] = pc[u] /\ want'[u] = want[u]
                                     /\ first_size'[u] = first_size[u]
    BY <1>0, <1>4 DEF ReadPlan, Goto, TypeOK, Tasks
  <2>7. UNCHANGED <<ring, history, copyed>> BY <1>4 DEF ReadPlan
  <2>8. ReaderPlan'
    <3>1. SUFFICES ASSUME NEW u \in Readers PROVE ReaderPlanOf(u)'
      BY DEF ReaderPlan
    <3>2. CASE u = t BY <2>0, <2>1, <2>3, <2>4, <2>5, <2>7, <3>2 DEF ReaderPlanOf
    <3>3. CASE u # t BY <2>1, <2>6, <2>7, <3>3 DEF RingInv, ReaderPlan, ReaderPlanOf
    <3> QED BY <3>2, <3>3
  <2> QED BY <2>2, <2>7, <2>8, QuietKeeps
<1>5. CASE ReadFirst(t)
  <2> DEFINE first == first_size[t]
  <2>0. /\ read_ptr \in Cells /\ BufSize \in Nat \ {0} /\ want[t] \in Nat /\ first \in Nat
        /\ UsedSize \in 0 .. BufSize - 1 /\ copyed[t] \in Nat
        /\ first = BufSize - read_ptr /\ first =< want[t] /\ want[t] =< UsedSize
    BY <1>0, <1>5, UsedSizeRange, SizesAssumption
       DEF ReadFirst, RingInv, TypeOK, ReaderPlan, ReaderPlanOf
  <2>1. PICK left \in Left(first) :
          /\ CopyToUser(t, first - left)
          /\ IF left = 0
             THEN /\ Goto(t, "r_first", "r_rest")
                  /\ read_ptr' = 0
                  /\ want' = [want EXCEPT ![t] = want[t] - first]
             ELSE /\ Goto(t, "r_first", "r_up")
                  /\ UNCHANGED <<read_ptr, want>>
    BY <1>5 DEF ReadFirst
  <2>2. UNCHANGED <<cycle_buffer, write_ptr, first_size, accepted>>
    BY <1>5 DEF ReadFirst
  <2>3. left \in 0 .. first BY <2>0, <2>1 DEF Left
  <2>4. \A u \in Tasks : u # t => pc'[u] = pc[u] /\ pc[u] \notin CriticalSection
    BY <1>0, <1>5, <1>a, <2>1 DEF ReadFirst, Goto, TypeOK, InCS, CriticalSection
  <2>5. \A u \in Readers : u # t => copyed'[u] = copyed[u]
    BY <1>0, <2>1 DEF CopyToUser, TypeOK
  <2>6. WriterPlan'
    BY <2>4, TasksAssumption DEF WriterPlan, Tasks, CriticalSection
  <2> HIDE DEF first
  <2>7. CASE left = 0
    <3>1. read_ptr' = Advance(read_ptr, first)
      BY <2>0, <2>1, <2>7 DEF Advance, Cells
    <3>2. CopyToUser(t, first) /\ first \in 0 .. UsedSize /\ read_ptr + first =< BufSize
      BY <2>0, <2>1, <2>7 DEF Cells
    <3>3. /\ UsedSize' = UsedSize - first
          /\ RingHoldsStream'
          /\ next' = IF first > 0 THEN accepted - UsedSize + first ELSE next
      BY <2>2, <3>1, <3>2, CopyAdvances
    <3>6. (next >= accepted - UsedSize)'
      BY <1>0, <2>0, <2>2, <3>3 DEF RingInv, TypeOK
    <3>4. /\ pc'[t] = "r_rest" /\ read_ptr' = 0
          /\ want'[t] = want[t] - first /\ copyed'[t] = copyed[t] + first
      BY <1>0, <2>1, <2>7, <3>2 DEF Goto, CopyToUser, TypeOK
    <3>5. ReaderPlan'
      <4>1. SUFFICES ASSUME NEW u \in Readers PROVE ReaderPlanOf(u)'
        BY DEF ReaderPlan
      <4>2. CASE u = t BY <2>0, <3>3, <3>4, <4>2 DEF ReaderPlanOf
      <4>3. CASE u # t
        BY <2>4, <2>5, <4>3 DEF RingInv, ReaderPlan, ReaderPlanOf, Tasks, CriticalSection
      <4> QED BY <4>2, <4>3
    <3> QED BY <2>6, <3>3, <3>5, <3>6 DEF RingInv
  <2>8. CASE left # 0
    <3> DEFINE len == first - left
    <3>1. len \in 0 .. UsedSize - 1 /\ read_ptr + len < BufSize
      BY <2>0, <2>3, <2>8 DEF Cells
    <3>2. UNCHANGED <<read_ptr, ring>> BY <2>1, <2>2, <2>8
    <3>3. UsedSize' = UsedSize BY <3>2 DEF UsedSize
    <3>4. RingHoldsStream'
      BY <2>2, <3>2, <3>3 DEF RingInv, RingHoldsStream, Advance
    <3>5. (next >= accepted - UsedSize)'
      <4>1. CASE len = 0
        BY <2>1, <2>2, <3>3, <4>1 DEF CopyToUser, RingInv
      <4>2. CASE len > 0
        <5>1. len - 1 \in 0 .. UsedSize - 1 BY <2>0, <3>1, <4>2
        <5>2. Advance(read_ptr, len - 1) = read_ptr + len - 1
          BY <2>0, <3>1, <4>2 DEF Advance, Cells
        <5>3. next' = accepted - UsedSize + (len - 1) + 1
          BY <2>1, <4>2, <5>1, <5>2 DEF CopyToUser, RingInv, RingHoldsStream
        <5> QED BY <1>0, <2>0, <2>2, <3>1, <3>3, <5>3 DEF TypeOK
      <4> QED BY <2>0, <3>1, <4>1, <4>2
    <3>6. pc'[t] = "r_up" BY <1>0, <2>1, <2>8 DEF Goto, TypeOK
    <3>7. ReaderPlan'
      <4>1. SUFFICES ASSUME NEW u \in Readers PROVE ReaderPlanOf(u)'
        BY DEF ReaderPlan
      <4>2. CASE u = t BY <3>6, <4>2 DEF ReaderPlanOf
      <4>3. CASE u # t
        BY <2>4, <2>5, <4>3 DEF RingInv, ReaderPlan, ReaderPlanOf, Tasks, CriticalSection
      <4> QED BY <4>2, <4>3
    <3> QED BY <2>6, <3>4, <3>5, <3>7 DEF RingInv
  <2> QED BY <2>7, <2>8
<1>6. CASE ReadRest(t)
  <2>0. /\ read_ptr \in Cells /\ BufSize \in Nat \ {0} /\ want[t] \in Nat
        /\ UsedSize \in 0 .. BufSize - 1
        /\ read_ptr + want[t] < BufSize /\ want[t] =< UsedSize
    BY <1>0, <1>6, UsedSizeRange, SizesAssumption
       DEF ReadRest, Goto, RingInv, TypeOK, ReaderPlan, ReaderPlanOf
  <2>1. PICK left \in Left(want[t]) : /\ CopyToUser(t, want[t] - left)
                                      /\ read_ptr' = read_ptr + want[t] - left
    BY <1>6 DEF ReadRest
  <2> DEFINE len == want[t] - left
  <2>2. len \in 0 .. UsedSize /\ read_ptr + len =< BufSize /\ left \in Nat
    BY <2>0, <2>1 DEF Left, Cells
  <2>3. read_ptr' = Advance(read_ptr, len)
    BY <2>0, <2>1, <2>2 DEF Advance, Cells, Left
  <2>4. UNCHANGED <<cycle_buffer, write_ptr, accepted>> BY <1>6 DEF ReadRest
  <2>5. RingHoldsStream' /\ (next >= accepted - UsedSize)'
    <3>1. /\ UsedSize' = UsedSize - len
          /\ RingHoldsStream'
          /\ next' = IF len > 0 THEN accepted - UsedSize + len ELSE next
      BY <2>1, <2>2, <2>3, <2>4, CopyAdvances
    <3> QED BY <1>0, <2>0, <2>2, <2>4, <3>1 DEF RingInv, TypeOK
  <2>6. \A u \in Tasks : u # t => pc'[u] = pc[u] /\ pc[u] \notin CriticalSection
    BY <1>0, <1>6, <1>a DEF ReadRest, Goto, TypeOK, InCS, CriticalSection
  <2>7. pc'[t] = "r_up" BY <1>0, <1>6 DEF ReadRest, Goto, TypeOK
  <2>8. \A u \in Readers : u # t => copyed'[u] = copyed[u]
    BY <1>0, <2>1 DEF CopyToUser, TypeOK
  <2>9. \A u \in Tasks : pc'[u] \notin {"w_copy", "r_plan", "r_first", "r_rest"}
    BY <2>6, <2>7 DEF CriticalSection
  <2>10. WriterPlan' BY <2>9 DEF WriterPlan, Tasks
  <2>11. ReaderPlan'
    BY <2>6, <2>7, <2>8, <2>9 DEF RingInv, ReaderPlan, ReaderPlanOf, Tasks
  <2> QED BY <2>5, <2>10, <2>11 DEF RingInv
<1>7. CASE ReadUp(t)
  BY <1>7, MoveKeepsPlans, QuietKeeps DEF ReadUp, Up
<1> QED BY <1>1, <1>2, <1>3, <1>4, <1>5, <1>6, <1>7 DEF AnyRead

LEMMA RingNext ==
  ASSUME "read" \notin Interruptible, RingInv, [Moves]_vars
  PROVE  RingInv'
<1>1. TypeOK' BY TypeNext
<1>2. Exclusive' BY ExclusiveNext DEF RingInv
<1>3. CASE UNCHANGED vars
  <2>1. WriterPlan' /\ ReaderPlan'
    BY <1>3 DEF RingInv, WriterPlan, ReaderPlan, ReaderPlanOf, UsedSize
  <2> QED BY <1>1, <1>2, <1>3, <2>1, QuietKeeps
<1> QED BY <1>1, <1>2, <1>3, WriterNext, OpenCloseNext, ReadNext DEF Moves

LEMMA RingCorrect ==
  ASSUME "read" \notin Interruptible
  PROVE  Spec => []RingInv
<1>1. RingInv /\ [Next]_vars => RingInv' BY RingNext, NextMoves
<1> QED BY <1>1, RingInit, PTL DEF Spec

(* Every variable keeps its type: read_ptr and write_ptr stay inside the   *)
(* ring of interface.c, whatever its size.                                 *)
THEOREM TypeCorrect ==
  ASSUME "read" \notin Interruptible
  PROVE  Spec => []TypeOK
<1>1. RingInv => TypeOK BY DEF RingInv
<1> QED BY <1>1, RingCorrect, PTL

(* copy_to_buffer and interface_read keep the unread bytes whole and in    *)
(* order: nothing unread is ever overwritten.                              *)
THEOREM StreamIntact ==
  ASSUME "read" \notin Interruptible
  PROVE  Spec => []RingHoldsStream
<1>1. RingInv => RingHoldsStream BY DEF RingInv
<1> QED BY <1>1, RingCorrect, PTL

(* interface.c:113: the buffer is never full, so that equal pointers mean  *)
(* an empty ring.                                                          *)
THEOREM NotFull ==
  ASSUME "read" \notin Interruptible
  PROVE  Spec => []NeverFull
<1>1. RingInv => NeverFull
  BY UsedSizeRange, SizesAssumption DEF RingInv, TypeOK, NeverFull
<1> QED BY <1>1, RingCorrect, PTL

-----------------------------------------------------------------------------
(* The refinement: every step is a Push, a Pop, a Peek or a stutter.       *)

LEMMA WriteCopyPushes ==
  ASSUME RingInv, NEW t \in Writers, WriteCopy(t)
  PROVE  [AbstractPipe!Next]_(AbstractPipe!vars)
<1> DEFINE n == want[t]
<1>1. /\ n \in Nat /\ n < BufSize - UsedSize
      /\ UsedSize \in 0 .. BufSize - 1 /\ BufSize \in Nat /\ accepted \in Nat
      /\ read_ptr \in Cells /\ write_ptr \in Cells
      /\ read_ptr' = read_ptr /\ write_ptr' = Advance(write_ptr, n)
      /\ accepted' = accepted + n /\ next' = next
  BY UsedSizeRange, SizesAssumption
     DEF RingInv, TypeOK, WriterPlan, WriteCopy, Goto, Tasks
<1> HIDE DEF n
<1>2. UsedSize' = UsedSize + n BY <1>1, UsedAfterWrite
<1>3. CASE n = 0 BY <1>1, <1>2, <1>3 DEF AbstractPipe!vars
<1>4. CASE n > 0
  <2>1. n \in 1 .. BufSize - 1 BY <1>1, <1>4
  <2>2. AbstractPipe!Push(n) BY <1>1, <1>2 DEF AbstractPipe!Push
  <2> QED BY <2>1, <2>2 DEF AbstractPipe!Next
<1> QED BY <1>1, <1>3, <1>4

LEMMA ReadFirstPopsOrPeeks ==
  ASSUME RingInv, NEW t \in Readers, ReadFirst(t)
  PROVE  [AbstractPipe!Next]_(AbstractPipe!vars)
<1> DEFINE first == first_size[t]
<1>0. /\ read_ptr \in Cells /\ BufSize \in Nat \ {0} /\ first \in Nat
      /\ UsedSize \in 0 .. BufSize - 1 /\ accepted \in Nat /\ next \in Int
      /\ first = BufSize - read_ptr /\ first =< UsedSize
  BY UsedSizeRange, SizesAssumption
     DEF ReadFirst, RingInv, TypeOK, ReaderPlan, ReaderPlanOf, Tasks
<1>1. PICK left \in Left(first) :
        /\ CopyToUser(t, first - left)
        /\ left = 0 => read_ptr' = 0
        /\ left # 0 => read_ptr' = read_ptr
  BY DEF ReadFirst
<1>2. UNCHANGED <<cycle_buffer, write_ptr, accepted>> BY DEF ReadFirst
<1>3. left \in 0 .. first /\ (left # 0 => CopyFaults)
  BY <1>0, <1>1 DEF Left
<1> HIDE DEF first
<1>4. CASE left = 0
  <2>1. read_ptr' = Advance(read_ptr, first)
    BY <1>0, <1>1, <1>4 DEF Advance, Cells
  <2>2. /\ UsedSize' = UsedSize - first
        /\ next' = IF first > 0 THEN accepted - UsedSize + first ELSE next
    BY <1>0, <1>1, <1>2, <1>4, <2>1, CopyAdvances DEF Cells
  <2>3. first \in 1 .. BufSize - 1 BY <1>0 DEF Cells
  <2>4. AbstractPipe!Pop(first) BY <1>0, <1>2, <2>2, <2>3 DEF AbstractPipe!Pop
  <2> QED BY <2>3, <2>4 DEF AbstractPipe!Next
<1>5. CASE left # 0
  <2> DEFINE len == first - left
  <2>1. UsedSize' = UsedSize BY <1>1, <1>2, <1>5 DEF UsedSize
  <2>2. CASE len = 0
    BY <1>1, <1>2, <2>1, <2>2 DEF CopyToUser, AbstractPipe!vars
  <2>3. CASE len > 0
    <3>1. len - 1 \in 0 .. UsedSize - 1 /\ len \in 1 .. BufSize - 1
      BY <1>0, <1>3, <2>3
    <3>2. Advance(read_ptr, len - 1) = read_ptr + len - 1
      BY <1>0, <1>3, <1>5, <2>3 DEF Advance, Cells
    <3>3. next' = accepted - UsedSize + (len - 1) + 1
      BY <1>1, <2>3, <3>1, <3>2 DEF CopyToUser, RingInv, RingHoldsStream
    <3>4. AbstractPipe!Peek(len)
      BY <1>0, <1>2, <1>3, <1>5, <2>1, <3>1, <3>3 DEF AbstractPipe!Peek
    <3> QED BY <3>1, <3>4 DEF AbstractPipe!Next
  <2> QED BY <1>0, <1>3, <2>2, <2>3
<1> QED BY <1>4, <1>5

LEMMA ReadRestPops ==
  ASSUME RingInv, NEW t \in Readers, ReadRest(t)
  PROVE  [AbstractPipe!Next]_(AbstractPipe!vars)
<1>0. /\ read_ptr \in Cells /\ BufSize \in Nat \ {0} /\ want[t] \in Nat
      /\ UsedSize \in 0 .. BufSize - 1 /\ accepted \in Nat /\ next \in Int
      /\ read_ptr + want[t] < BufSize /\ want[t] =< UsedSize
  BY UsedSizeRange, SizesAssumption
     DEF ReadRest, Goto, RingInv, TypeOK, ReaderPlan, ReaderPlanOf, Tasks
<1>1. PICK left \in Left(want[t]) : /\ CopyToUser(t, want[t] - left)
                                    /\ read_ptr' = read_ptr + want[t] - left
  BY DEF ReadRest
<1> DEFINE len == want[t] - left
<1>2. len \in 0 .. UsedSize /\ read_ptr + len =< BufSize /\ left \in Nat
  BY <1>0, <1>1 DEF Left, Cells
<1>3. read_ptr' = Advance(read_ptr, len)
  BY <1>0, <1>1, <1>2 DEF Advance, Cells, Left
<1>4. UNCHANGED <<cycle_buffer, write_ptr, accepted>> BY DEF ReadRest
<1>5. /\ UsedSize' = UsedSize - len
      /\ next' = IF len > 0 THEN accepted - UsedSize + len ELSE next
  BY <1>1, <1>2, <1>3, <1>4, CopyAdvances
<1> HIDE DEF len
<1>6. CASE len = 0
  BY <1>0, <1>4, <1>5, <1>6 DEF AbstractPipe!vars
<1>7. CASE len > 0
  <2>1. len \in 1 .. BufSize - 1 BY <1>0, <1>2, <1>7
  <2>2. AbstractPipe!Pop(len)
    BY <1>0, <1>2, <1>4, <1>5, <1>7 DEF AbstractPipe!Pop
  <2> QED BY <2>1, <2>2 DEF AbstractPipe!Next
<1> QED BY <1>2, <1>6, <1>7

LEMMA StepRefines ==
  ASSUME "read" \notin Interruptible, RingInv, [Next]_vars
  PROVE  [AbstractPipe!Next]_(AbstractPipe!vars)
<1>1. ASSUME UNCHANGED <<ring, history>>
      PROVE  UNCHANGED AbstractPipe!vars
  BY <1>1 DEF AbstractPipe!vars, UsedSize
<1>2. ASSUME NEW t \in Writers, WriterStep(t)
      PROVE  UNCHANGED <<ring, history>> \/ WriteCopy(t)
  BY <1>2 DEF WriterStep, WriteBegin, WriteDown, WriteSignalled, WriteCheck,
              WriteUp, Down, Signalled, Up
<1>3. ASSUME NEW t \in Readers, OpenCloseStep(t)
      PROVE  UNCHANGED <<ring, history>>
  BY <1>3 DEF OpenCloseStep, OpenBegin, OpenDown, OpenSignalled, OpenCheck,
              OpenTake, OpenUp, CloseBegin, CloseDown, CloseSignalled,
              CloseCheck, CloseClear, CloseUp, Down, Signalled, Up
<1>4. ASSUME NEW t \in Readers, ReadStep(t)
      PROVE  UNCHANGED <<ring, history>> \/ ReadFirst(t) \/ ReadRest(t)
  BY <1>4 DEF ReadStep, ReadBegin, ReadDown, ReadSignalled, ReadPlan, ReadUp,
              Down, Signalled, Up
<1> QED BY <1>1, <1>2, <1>3, <1>4, WriteCopyPushes, ReadFirstPopsOrPeeks,
           ReadRestPops DEF Next

(* The device of interface.c is a bounded FIFO of bytes, for any size of   *)
(* the ring and any number of loggers and readers.                         *)
THEOREM PipeImplemented ==
  ASSUME "read" \notin Interruptible
  PROVE  Spec => ImplementsPipe
<1>1. Init => AbstractPipe!Init BY DEF Init, AbstractPipe!Init, UsedSize
<1>2. RingInv /\ [Next]_vars => [AbstractPipe!Next]_(AbstractPipe!vars)
  BY StepRefines
<1> QED BY <1>1, <1>2, RingCorrect, PTL
        DEF Spec, ImplementsPipe, AbstractPipe!Spec

-----------------------------------------------------------------------------
(* The order of what is handed out.  A read starts at offset 0 of the      *)
(* user's buffer, its second part where the first ended, and both fit; as  *)
(* long as copies are whole, the oldest unread byte is the next one due.   *)

OrderOf(t) ==
  /\ copyed[t] \in Nat
  /\ pc[t] \in {"r_down", "r_plan", "r_first"} => copyed[t] = 0
  /\ pc[t] = "r_rest" => copyed[t] + want[t] < BufSize

OrderInv ==
  /\ RingInv
  /\ ~CopyFaults => next = accepted - UsedSize
  /\ \A t \in Readers : OrderOf(t)

LEMMA OrderInit == Init => OrderInv
<1> SUFFICES ASSUME Init PROVE OrderInv OBVIOUS
<1>1. UsedSize = 0 BY DEF Init, UsedSize
<1>2. next = accepted - UsedSize BY <1>1 DEF Init
<1>3. \A t \in Readers : OrderOf(t)
  BY TasksAssumption DEF Init, OrderOf, Tasks
<1> QED BY <1>2, <1>3, RingInit DEF OrderInv

(* What a copy puts into the user's buffer is the unread stream.           *)
LEMMA CopyInOrder ==
  ASSUME RingInv, NEW t \in Readers, NEW len \in 0 .. UsedSize,
         read_ptr + len =< BufSize, copyed[t] \in Nat,
         copyed[t] + len =< BufSize, CopyToUser(t, len)
  PROVE  /\ copyed'[t] = copyed[t] + len
         /\ \A u \in Readers : u # t => copyed'[u] = copyed[u]
         /\ \A i \in copyed[t] .. copyed[t] + len - 1 :
              user_buf'[t][i] = accepted - UsedSize + i - copyed[t]
<1>1. /\ read_ptr \in 0 .. BufSize - 1 /\ BufSize \in Nat /\ UsedSize \in Nat
      /\ accepted \in Nat
      /\ copyed \in [Readers -> Nat \cup {EINTR}]
      /\ user_buf \in [Readers -> [Cells -> Int]]
  <2>1. /\ read_ptr \in Cells /\ write_ptr \in Cells /\ accepted \in Nat
        /\ copyed \in [Readers -> Nat \cup {EINTR}]
        /\ user_buf \in [Readers -> [Cells -> Int]]
    BY DEF RingInv, TypeOK
  <2>2. UsedSize \in 0 .. BufSize - 1 BY <2>1, UsedSizeRange
  <2> QED BY <2>1, <2>2, SizesAssumption DEF Cells
<1>2. /\ copyed'[t] = copyed[t] + len
      /\ \A u \in Readers : u # t => copyed'[u] = copyed[u]
  BY <1>1 DEF CopyToUser
<1>3. ASSUME NEW i \in copyed[t] .. copyed[t] + len - 1
      PROVE  user_buf'[t][i] = accepted - UsedSize + i - copyed[t]
  <2> DEFINE k == i - copyed[t]
  <2>1. i \in Cells BY <1>1 DEF Cells
  <2>2. user_buf'[t][i] = cycle_buffer[read_ptr + i - copyed[t]]
    BY <1>1, <1>3, <2>1 DEF CopyToUser
  <2>3. k \in 0 .. UsedSize - 1 /\ read_ptr + i - copyed[t] = read_ptr + k
    BY <1>1
  <2>4. Advance(read_ptr, k) = read_ptr + k BY <1>1 DEF Advance
  <2>5. cycle_buffer[Advance(read_ptr, k)] = accepted - UsedSize + k
    BY <2>3 DEF RingInv, RingHoldsStream
  <2>6. accepted - UsedSize + k = accepted - UsedSize + i - copyed[t]
    BY <1>1
  <2> HIDE DEF k
  <2> QED BY <2>2, <2>3, <2>4, <2>5, <2>6
<1> QED BY <1>2, <1>3

(* HandsOutInOrder, of one step of one reader. *)
InOrder(t) ==
  \A i \in copyed[t] .. copyed'[t] - 1 :
    LET from == user_buf'[t][copyed[t]]
    IN  /\ user_buf'[t][i] = from + i - copyed[t]
        /\ IF CopyFaults THEN from =< next ELSE from = next

LEMMA CopyStepInOrder ==
  ASSUME OrderInv, NEW t \in Readers, NEW len \in 0 .. UsedSize,
         read_ptr + len =< BufSize, copyed[t] + len =< BufSize,
         CopyToUser(t, len)
  PROVE  \A u \in Readers : InOrder(u)
<1>1. /\ RingInv /\ accepted \in Nat /\ next \in Int /\ BufSize \in Nat
      /\ UsedSize \in Nat /\ next >= accepted - UsedSize
      /\ \A u \in Readers : copyed[u] \in Nat
  BY UsedSizeRange, SizesAssumption DEF OrderInv, OrderOf, RingInv, TypeOK
<1>2. /\ copyed'[t] = copyed[t] + len
      /\ \A u \in Readers : u # t => copyed'[u] = copyed[u]
      /\ \A i \in copyed[t] .. copyed[t] + len - 1 :
           user_buf'[t][i] = accepted - UsedSize + i - copyed[t]
  BY <1>1, CopyInOrder
<1>3. ASSUME NEW u \in Readers, u # t PROVE InOrder(u)
  BY <1>1, <1>2, <1>3 DEF InOrder
<1>4. InOrder(t)
  <2>1. SUFFICES ASSUME NEW i \in copyed[t] .. copyed'[t] - 1
        PROVE  LET from == user_buf'[t][copyed[t]]
               IN  /\ user_buf'[t][i] = from + i - copyed[t]
                   /\ IF CopyFaults THEN from =< next ELSE from = next
    BY DEF InOrder
  <2>2. copyed[t] \in copyed[t] .. copyed[t] + len - 1 BY <1>1, <1>2, <2>1
  <2>3. user_buf'[t][copyed[t]] = accepted - UsedSize BY <1>1, <1>2, <2>2
  <2>4. user_buf'[t][i] = accepted - UsedSize + i - copyed[t]
    <3>1. copyed'[t] - 1 = copyed[t] + len - 1 BY <1>1, <1>2
    <3> QED BY <1>2, <2>1, <3>1
  <2>5. ~CopyFaults => next = accepted - UsedSize BY DEF OrderInv
  <2> QED BY <1>1, <2>3, <2>4, <2>5
<1> QED BY <1>3, <1>4

(* A step that hands nothing out. *)
LEMMA IdleInOrder ==
  ASSUME OrderInv, \A u \in Readers : copyed'[u] \in {0, copyed[u]}
  PROVE  \A u \in Readers : InOrder(u)
<1> SUFFICES ASSUME NEW u \in Readers PROVE InOrder(u) OBVIOUS
<1>1. copyed[u] \in Nat BY DEF OrderInv, OrderOf
<1>2. copyed[u] .. copyed'[u] - 1 = {} BY <1>1
<1> QED BY <1>2 DEF InOrder

(* Most steps keep OrderInv by what they leave alone. *)
LEMMA QuietKeepsOrder ==
  ASSUME OrderInv, RingInv', UNCHANGED <<ring, history>>,
         \A u \in Readers : OrderOf(u)'
  PROVE  OrderInv'
BY DEF OrderInv, UsedSize

LEMMA OrderWriter ==
  ASSUME OrderInv, RingInv', NEW t \in Writers, WriterStep(t)
  PROVE  OrderInv' /\ \A u \in Readers : InOrder(u)
<1>0. t \in Tasks /\ TypeOK /\ RingInv BY DEF Tasks, OrderInv, RingInv
<1>1. /\ copyed' = copyed
      /\ \A u \in Tasks : u # t => pc'[u] = pc[u] /\ want'[u] = want[u]
  BY <1>0 DEF WriterStep, WriteBegin, WriteDown, WriteSignalled, WriteCheck,
     WriteCopy, WriteUp, Goto, Down, Signalled, Up, TypeOK
<1>2. \A u \in Readers : OrderOf(u)'
  BY <1>1, TasksAssumption DEF OrderInv, OrderOf, Tasks
<1>3. \A u \in Readers : InOrder(u) BY <1>1, IdleInOrder
<1>4. ASSUME UNCHANGED <<ring, history>> PROVE OrderInv'
  BY <1>2, <1>4, QuietKeepsOrder
<1>5. ASSUME WriteCopy(t) PROVE OrderInv'
  <2> DEFINE n == want[t]
  <2>1. /\ n \in Nat /\ n < BufSize - UsedSize /\ UsedSize \in 0 .. BufSize - 1
        /\ read_ptr \in Cells /\ write_ptr \in Cells /\ accepted \in Nat
        /\ read_ptr' = read_ptr /\ write_ptr' = Advance(write_ptr, n)
        /\ accepted' = accepted + n /\ next' = next
    BY <1>0, <1>5, UsedSizeRange
       DEF WriteCopy, Goto, RingInv, WriterPlan, TypeOK
  <2> HIDE DEF n
  <2>2. UsedSize' = UsedSize + n BY <2>1, UsedAfterWrite
  <2>3. (~CopyFaults => next = accepted - UsedSize)'
    BY <2>1, <2>2 DEF OrderInv
  <2> QED BY <1>2, <2>3 DEF OrderInv
<1>6. UNCHANGED <<ring, history>> \/ WriteCopy(t)
  BY DEF WriterStep, WriteBegin, WriteDown, WriteSignalled, WriteCheck,
     WriteUp, Down, Signalled, Up
<1> QED BY <1>3, <1>4, <1>5, <1>6

LEMMA OrderOpenClose ==
  ASSUME OrderInv, RingInv', NEW t \in Readers, OpenCloseStep(t)
  PROVE  OrderInv' /\ \A u \in Readers : InOrder(u)
<1>0. t \in Tasks /\ TypeOK BY DEF Tasks, OrderInv, RingInv
<1>1. /\ UNCHANGED <<ring, history, copyed, want>>
      /\ pc'[t] \notin {"r_down", "r_plan", "r_first", "r_rest"}
      /\ \A u \in Tasks : u # t => pc'[u] = pc[u]
  BY <1>0 DEF OpenCloseStep, OpenBegin, OpenDown, OpenSignalled, OpenCheck,
     OpenTake, OpenUp, CloseBegin, CloseDown, CloseSignalled, CloseCheck,
     CloseClear, CloseUp, Goto, Down, Signalled, Up, TypeOK
<1>2. \A u \in Readers : OrderOf(u)'
  BY <1>1 DEF OrderInv, OrderOf, Tasks
<1> QED BY <1>1, <1>2, QuietKeepsOrder, IdleInOrder

LEMMA OrderReader ==
  ASSUME "read" \notin Interruptible, OrderInv, RingInv',
         NEW t \in Readers, AnyRead(t)
  PROVE  OrderInv' /\ \A u \in Readers : InOrder(u)
<1> t \in Tasks BY DEF Tasks
<1>0. TypeOK /\ RingInv /\ ReaderPlanOf(t) /\ OrderOf(t)
  BY DEF OrderInv, RingInv, ReaderPlan
<1>a. /\ read_ptr \in Cells /\ write_ptr \in Cells /\ BufSize \in Nat \ {0}
      /\ UsedSize \in 0 .. BufSize - 1 /\ want[t] \in Nat
      /\ accepted \in Nat /\ next \in Int /\ copyed[t] \in Nat
  BY <1>0, UsedSizeRange, SizesAssumption DEF TypeOK, OrderOf
<1>1. ASSUME NEW count \in Nat, ReadBegin(t, count)
      PROVE  OrderInv' /\ \A u \in Readers : InOrder(u)
  <2>1. \A u \in Readers : copyed'[u] \in {0, copyed[u]}
    BY <1>0, <1>1 DEF ReadBegin, TypeOK
  <2>2. \A u \in Readers : OrderOf(u)'
    BY <1>0, <1>1 DEF ReadBegin, Goto, TypeOK, OrderInv, OrderOf, Tasks
  <2> QED BY <1>1, <2>1, <2>2, QuietKeepsOrder, IdleInOrder DEF ReadBegin
<1>2. CASE ReadDown(t) \/ ReadUp(t)
  <2>1. UNCHANGED <<ring, history, copyed, want>>
    BY <1>2 DEF ReadDown, ReadUp, Down, Up
  <2>2. \A u \in Readers : OrderOf(u)'
    BY <1>0, <1>2, <2>1
       DEF ReadDown, ReadUp, Down, Up, Goto, TypeOK, OrderInv, OrderOf, Tasks
  <2> QED BY <2>1, <2>2, QuietKeepsOrder, IdleInOrder
<1>3. CASE ReadSignalled(t) BY <1>3 DEF ReadSignalled, Signalled
<1>4. CASE ReadPlan(t)
  <2>1. UNCHANGED <<ring, history, copyed>> BY <1>4 DEF ReadPlan
  <2>2. want'[t] < BufSize /\ want'[t] \in Nat
    BY <1>0, <1>a, <1>4 DEF ReadPlan, TypeOK
  <2>3. copyed[t] = 0 /\ pc'[t] \in {"r_up", "r_first", "r_rest"}
    BY <1>0, <1>4 DEF ReadPlan, Goto, OrderOf, TypeOK
  <2>4. \A u \in Readers : u # t => pc'[u] = pc[u] /\ want'[u] = want[u]
    BY <1>0, <1>4 DEF ReadPlan, Goto, TypeOK, Tasks
  <2>5. \A u \in Readers : OrderOf(u)'
    <3>1. OrderOf(t)' BY <2>1, <2>2, <2>3, <1>a DEF OrderOf
    <3>2. \A u \in Readers : u # t => OrderOf(u)'
      BY <2>1, <2>4 DEF OrderInv, OrderOf
    <3> QED BY <3>1, <3>2
  <2> QED BY <2>1, <2>5, QuietKeepsOrder, IdleInOrder
<1>5. CASE ReadFirst(t)
  <2> DEFINE first == first_size[t]
  <2>1. /\ first \in Nat /\ first = BufSize - read_ptr /\ first =< want[t]
        /\ want[t] =< UsedSize /\ copyed[t] = 0
    BY <1>0, <1>5 DEF ReadFirst, Goto, TypeOK, ReaderPlanOf, OrderOf
  <2>2. PICK left \in Left(first) :
          /\ CopyToUser(t, first - left)
          /\ IF left = 0
             THEN /\ Goto(t, "r_first", "r_rest")
                  /\ read_ptr' = 0
                  /\ want' = [want EXCEPT ![t] = want[t] - first]
             ELSE /\ Goto(t, "r_first", "r_up")
                  /\ UNCHANGED <<read_ptr, want>>
    BY <1>5 DEF ReadFirst
  <2>3. UNCHANGED <<cycle_buffer, write_ptr, accepted>> BY <1>5 DEF ReadFirst
  <2>4. left \in 0 .. first /\ (~CopyFaults => left = 0) BY <2>1, <2>2 DEF Left
  <2>5. \A u \in Tasks : u # t => pc'[u] = pc[u] /\ want'[u] = want[u]
    BY <1>0, <2>2 DEF Goto, TypeOK
  <2> HIDE DEF first
  <2> DEFINE len == first - left
  <2>6. /\ len \in 0 .. UsedSize /\ read_ptr + len =< BufSize
        /\ copyed[t] + len =< BufSize
    BY <1>a, <2>1, <2>4 DEF Cells
  <2>7. /\ \A u \in Readers : InOrder(u)
        /\ copyed'[t] = copyed[t] + len
        /\ \A u \in Readers : u # t => copyed'[u] = copyed[u]
    BY <1>0, <1>a, <2>2, <2>6, CopyStepInOrder, CopyInOrder
  <2>8. \A u \in Readers : OrderOf(u)'
    <3>1. pc'[t] = IF left = 0 THEN "r_rest" ELSE "r_up"
      BY <1>0, <2>2 DEF Goto, TypeOK
    <3>2. left = 0 => want'[t] = want[t] - first BY <1>0, <2>2 DEF TypeOK
    <3>3. OrderOf(t)' BY <1>a, <2>1, <2>4, <2>6, <2>7, <3>1, <3>2 DEF OrderOf
    <3>4. \A u \in Readers : u # t => OrderOf(u)'
      BY <2>5, <2>7 DEF OrderInv, OrderOf, Tasks
    <3> QED BY <3>3, <3>4
  <2>9. (~CopyFaults => next = accepted - UsedSize)'
    <3> SUFFICES ASSUME ~CopyFaults PROVE next' = accepted' - UsedSize'
      OBVIOUS
    <3>1. left = 0 /\ len = first BY <2>1, <2>4
    <3>2. read_ptr' = Advance(read_ptr, len)
      BY <1>a, <2>1, <2>2, <3>1 DEF Advance, Cells
    <3>3. /\ UsedSize' = UsedSize - len
          /\ next' = IF len > 0 THEN accepted - UsedSize + len ELSE next
      BY <1>0, <2>2, <2>3, <2>6, <3>2, CopyAdvances
    <3> HIDE DEF len
    <3> QED BY <1>a, <2>3, <2>6, <3>3 DEF OrderInv
  <2> QED BY <2>7, <2>8, <2>9 DEF OrderInv
<1>6. CASE ReadRest(t)
  <2>1. /\ read_ptr + want[t] < BufSize /\ want[t] =< UsedSize
        /\ copyed[t] + want[t] < BufSize
    BY <1>0, <1>6 DEF ReadRest, Goto, ReaderPlanOf, OrderOf
  <2>2. PICK left \in Left(want[t]) : /\ CopyToUser(t, want[t] - left)
                                      /\ read_ptr' = read_ptr + want[t] - left
    BY <1>6 DEF ReadRest
  <2>3. UNCHANGED <<cycle_buffer, write_ptr, accepted, want>>
    BY <1>6 DEF ReadRest
  <2> DEFINE len == want[t] - left
  <2>4. /\ len \in 0 .. UsedSize /\ read_ptr + len =< BufSize
        /\ copyed[t] + len =< BufSize /\ left \in Nat
    BY <1>a, <2>1, <2>2 DEF Left, Cells
  <2>5. read_ptr' = Advance(read_ptr, len)
    BY <1>a, <2>1, <2>2, <2>4 DEF Advance, Cells
  <2>6. /\ \A u \in Readers : InOrder(u)
        /\ copyed'[t] = copyed[t] + len
        /\ \A u \in Readers : u # t => copyed'[u] = copyed[u]
    BY <1>0, <1>a, <2>2, <2>4, CopyStepInOrder, CopyInOrder
  <2>7. /\ UsedSize' = UsedSize - len
        /\ next' = IF len > 0 THEN accepted - UsedSize + len ELSE next
    BY <1>0, <2>2, <2>3, <2>4, <2>5, CopyAdvances
  <2>8. pc'[t] = "r_up" /\ \A u \in Readers : u # t => pc'[u] = pc[u]
    BY <1>0, <1>6 DEF ReadRest, Goto, TypeOK, Tasks
  <2> HIDE DEF len
  <2>9. \A u \in Readers : OrderOf(u)'
    BY <1>a, <2>3, <2>4, <2>6, <2>8 DEF OrderInv, OrderOf
  <2>10. (~CopyFaults => next = accepted - UsedSize)'
    BY <1>a, <2>3, <2>4, <2>7 DEF OrderInv
  <2> QED BY <2>6, <2>9, <2>10 DEF OrderInv
<1> QED BY <1>1, <1>2, <1>3, <1>4, <1>5, <1>6 DEF AnyRead

LEMMA OrderNext ==
  ASSUME "read" \notin Interruptible, OrderInv, [Moves]_vars
  PROVE  OrderInv' /\ \A u \in Readers : InOrder(u)
<1>1. RingInv' BY RingNext DEF OrderInv
<1>2. CASE UNCHANGED vars
  <2>1. \A u \in Readers : OrderOf(u)' BY <1>2 DEF OrderInv, OrderOf
  <2> QED BY <1>1, <1>2, <2>1, QuietKeepsOrder, IdleInOrder
<1> QED BY <1>1, <1>2, OrderWriter, OrderOpenClose, OrderReader DEF Moves

(* interface_read hands the stream out in order: a read continues where    *)
(* the one before it, of whatever process, left off, and nothing is        *)
(* skipped even when copies stop short.                                    *)
THEOREM ReadsInOrder ==
  ASSUME "read" \notin Interruptible
  PROVE  Spec => HandsOutInOrder
<1>1. Init => OrderInv BY OrderInit
<1>2. OrderInv /\ [Next]_vars => OrderInv' BY OrderNext, NextMoves
<1>3. OrderInv /\ [Next]_vars => \A t \in Readers : InOrder(t)
  BY OrderNext, NextMoves
<1> QED BY <1>1, <1>2, <1>3, PTL DEF Spec, HandsOutInOrder, InOrder

-----------------------------------------------------------------------------
(* Ownership: interface_open and interface_release set owner_pid and       *)
(* device_ready after a test of owner_pid made in an earlier step.         *)

(* Between the test of owner_pid and the assignment it allows, owner_pid   *)
(* still is what the test found.                                           *)
Decided(t) ==
  /\ pc[t] = "o_take" => owner_pid = NoPid
  /\ pc[t] = "c_clear" => owner_pid = t

OwnerInv ==
  /\ Exclusive
  /\ owner_pid \in Readers \cup {NoPid}
  /\ \A t \in Readers : Decided(t)

LEMMA OwnerInit == Init => OwnerInv
BY ExclusiveInit, TasksAssumption DEF Init, OwnerInv, Decided, Tasks

(* Everything but OpenTake and CloseClear leaves the device alone. *)
LEMMA DeviceStays ==
  ASSUME [Next]_vars
  PROVE  \/ UNCHANGED device
         \/ \E t \in Readers : OpenTake(t) \/ CloseClear(t)
BY DEF Next, WriterStep, OpenCloseStep, ReadStep, WriteBegin, WriteDown,
   WriteSignalled, WriteCheck, WriteCopy, WriteUp, OpenBegin, OpenDown,
   OpenSignalled, OpenCheck, OpenUp, CloseBegin, CloseDown, CloseSignalled,
   CloseCheck, CloseUp, ReadBegin, ReadDown, ReadSignalled, ReadPlan,
   ReadFirst, ReadRest, ReadUp, Down, Signalled, Up

(* Who decides is in the critical section, so nobody else acts. *)
LEMMA DecisionsStand ==
  ASSUME OwnerInv, Exclusive', NEW t \in Readers,
         OpenTake(t) \/ CloseClear(t)
  PROVE  OwnerInv'
<1> t \in Tasks BY DEF Tasks
<1>1. pc \in [Tasks -> Labels] BY DEF OwnerInv, Exclusive
<1>2. \A u \in Readers : u # t => pc[u] \notin {"o_take", "c_clear"}
  BY DEF OwnerInv, Exclusive, MutualExclusion, InCS, CriticalSection,
         OpenTake, CloseClear, Goto, Tasks
<1>3. \A u \in Readers : pc'[u] \notin {"o_take", "c_clear"}
  BY <1>1, <1>2 DEF OpenTake, CloseClear, Goto, Tasks
<1>4. owner_pid' \in Readers \cup {NoPid} BY DEF OpenTake, CloseClear
<1> QED BY <1>3, <1>4 DEF OwnerInv, Decided

LEMMA OwnerNext ==
  ASSUME "read" \notin Interruptible, OwnerInv, [Next]_vars
  PROVE  OwnerInv'
<1>1. Exclusive' BY ExclusiveNext, NextMoves DEF OwnerInv
<1>2. CASE \E t \in Readers : OpenTake(t) \/ CloseClear(t)
  BY <1>1, <1>2, DecisionsStand
<1>3. CASE UNCHANGED device
  <2> SUFFICES ASSUME NEW u \in Readers PROVE Decided(u)'
    BY <1>1, <1>3 DEF OwnerInv
  <2>0. u \in Tasks /\ pc \in [Tasks -> Labels] /\ Decided(u)
    BY DEF Tasks, OwnerInv, Exclusive
  <2>1. ASSUME NEW t \in Writers, WriterStep(t) PROVE pc'[u] = pc[u]
    BY <2>0, <2>1, TasksAssumption DEF WriterStep, WriteBegin, WriteDown,
       WriteSignalled, WriteCheck, WriteCopy, WriteUp, Goto, Down, Signalled, Up
  <2>2. ASSUME NEW t \in Readers, ReadStep(t)
        PROVE  pc'[u] = pc[u] \/ pc'[u] \notin {"o_take", "c_clear"}
    BY <2>0, <2>2 DEF ReadStep, ReadBegin, ReadDown, ReadSignalled, ReadPlan,
       ReadFirst, ReadRest, ReadUp, Goto, Down, Signalled, Up
  <2>3. ASSUME NEW t \in Readers, OpenCloseStep(t)
        PROVE  \/ pc'[u] = pc[u]
               \/ pc'[u] \notin {"o_take", "c_clear"}
               \/ u = t /\ (OpenCheck(t) \/ CloseCheck(t))
    BY <2>0, <2>3 DEF OpenCloseStep, OpenBegin, OpenDown, OpenSignalled,
       OpenCheck, OpenTake, OpenUp, CloseBegin, CloseDown, CloseSignalled,
       CloseCheck, CloseClear, CloseUp, Goto, Down, Signalled, Up
  <2>4. OpenCheck(u) => Decided(u)'
    BY <1>3, <2>0 DEF OpenCheck, Goto, Decided
  <2>5. CloseCheck(u) => Decided(u)'
    BY <1>3, <2>0 DEF CloseCheck, Goto, Decided
  <2>6. pc'[u] = pc[u] \/ pc'[u] \notin {"o_take", "c_clear"} => Decided(u)'
    BY <1>3, <2>0 DEF Decided
  <2>7. CASE UNCHANGED vars BY <2>6, <2>7
  <2> QED BY <2>1, <2>2, <2>3, <2>4, <2>5, <2>6, <2>7 DEF Next
<1> QED BY <1>2, <1>3, DeviceStays

LEMMA OwnerCorrect ==
  ASSUME "read" \notin Interruptible
  PROVE  Spec => []OwnerInv
BY OwnerInit, OwnerNext, PTL DEF Spec

(* A process that owns the device keeps it, and loggers keep writing for   *)
(* it, until its own interface_release: no open or close of another        *)
(* process, whatever their number and order, takes the device from it.     *)
THEOREM OwnershipKept ==
  ASSUME "read" \notin Interruptible
  PROVE  Spec => OwnerKeepsDevice
<1> DEFINE Kept == owner_pid # NoPid /\ pc[owner_pid] # "c_clear"
                     => owner_pid' = owner_pid /\ device_ready' = device_ready
<1>1. OwnerInv /\ [Next]_vars => Kept
  BY DeviceStays, TasksAssumption
     DEF OwnerInv, Decided, OpenTake, CloseClear, Goto
<1> QED BY <1>1, OwnerCorrect, PTL DEF Spec, OwnerKeepsDevice

-----------------------------------------------------------------------------
(* With releases that always get the semaphore, the owner also is a        *)
(* process that has the device open.                                       *)

HasOpen(t) == HasDevice(t) /\ pc[t] # "c_up"

OpenInv ==
  /\ OwnerInv
  /\ \A t \in Readers : owner_pid = t => HasOpen(t)

LEMMA OpenNext ==
  ASSUME "read" \notin Interruptible, "release" \notin Interruptible,
         OpenInv, [Next]_vars
  PROVE  OpenInv'
<1>1. OwnerInv' BY OwnerNext DEF OpenInv
<1>2. pc \in [Tasks -> Labels] BY DEF OpenInv, OwnerInv, Exclusive
<1> SUFFICES ASSUME NEW u \in Readers, owner_pid' = u PROVE HasOpen(u)'
  BY <1>1 DEF OpenInv
<1> u \in Tasks BY DEF Tasks
<1>3. owner_pid = u => HasOpen(u) BY DEF OpenInv
<1>4. ASSUME NEW t \in Readers, OpenTake(t) PROVE HasOpen(u)'
  BY <1>2, <1>4 DEF OpenTake, Goto, HasOpen, HasDevice
<1>5. ASSUME NEW t \in Readers, CloseClear(t) PROVE FALSE
  BY <1>5, TasksAssumption DEF CloseClear
<1>6. CASE UNCHANGED device
  <2>1. HasOpen(u) BY <1>3, <1>6
  <2>2. ASSUME NEW t \in Writers, WriterStep(t) PROVE pc'[u] = pc[u]
    BY <1>2, <2>2, TasksAssumption DEF WriterStep, WriteBegin, WriteDown,
       WriteSignalled, WriteCheck, WriteCopy, WriteUp, Goto, Down, Signalled, Up
  <2>3. ASSUME NEW t \in Readers, ReadStep(t) PROVE HasOpen(u)'
    BY <1>2, <2>1, <2>3 DEF ReadStep, ReadBegin, ReadDown, ReadSignalled,
       ReadPlan, ReadFirst, ReadRest, ReadUp, Goto, Down, Signalled, Up,
       HasOpen, HasDevice
  <2>4. ASSUME NEW t \in Readers, OpenCloseStep(t) PROVE HasOpen(u)'
    <3>1. CASE CloseCheck(t)
      BY <1>2, <1>6, <2>1, <3>1 DEF CloseCheck, Goto, HasOpen, HasDevice
    <3>2. ~ CloseSignalled(t) BY DEF CloseSignalled, Signalled
    <3>3. CASE OpenTake(t) BY <1>4, <3>3
    <3>4. CASE CloseClear(t) BY <1>5, <3>4
    <3> QED
      BY <1>2, <2>1, <2>4, <3>1, <3>2, <3>3, <3>4 DEF OpenCloseStep,
         OpenBegin, OpenDown, OpenSignalled, OpenCheck, OpenUp, CloseBegin,
         CloseDown, CloseUp, Goto, Down, Signalled, Up, HasOpen, HasDevice
  <2>5. pc'[u] = pc[u] => HasOpen(u)' BY <2>1 DEF HasOpen, HasDevice
  <2> QED BY <2>2, <2>3, <2>4, <2>5 DEF Next
<1> QED BY <1>4, <1>5, <1>6, DeviceStays

(* interface.c:280: once its owner has closed it, the device belongs to    *)
(* nobody.  The hypothesis on release cannot be dropped: an                *)
(* interface_release cut short by a signal leaves its owner behind.        *)
THEOREM OwnerIsOpen ==
  ASSUME "read" \notin Interruptible, "release" \notin Interruptible
  PROVE  Spec => []OwnerHasDevice
<1>1. Init => OpenInv
  BY OwnerInit, TasksAssumption DEF Init, OpenInv
<1>2. OpenInv /\ [Next]_vars => OpenInv' BY OpenNext
<1>3. OpenInv => OwnerHasDevice
  BY DEF OpenInv, OwnerInv, HasOpen, OwnerHasDevice
<1> QED BY <1>1, <1>2, <1>3, PTL DEF Spec
=============================================================================
