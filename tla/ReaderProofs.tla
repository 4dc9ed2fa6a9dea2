----------------------------- MODULE ReaderProofs -----------------------------
(***************************************************************************)
(* Proofs about SysReader, for any number of loggers, any size of the ring *)
(* and any record sizes: what one sys_reader passes on are the records.    *)
(* The theorem assumes what the code relies on: that no other process      *)
(* reads the device, that the buffer of the program can be written to,     *)
(* that no signal cuts short the wait of a read, and that the program is   *)
(* not ended between a header and its content (README).                    *)
(***************************************************************************)
EXTENDS SysReader, InterfaceProofs

Undisturbed ==
  /\ \E r : Readers = {r}
  /\ ~CopyFaults
  /\ "read" \notin Interruptible
  /\ "content" \notin KillPoints

-----------------------------------------------------------------------------
(* The inductive invariant.                                                *)

(* Where record i ends in the stream. *)
EndOf(rs, i) == IF i = 0 THEN 0 ELSE rs[i].first + rs[i].size
End(i) == EndOf(records, i)

(* The records lie in the stream one after the other.  That no two begin   *)
(* at one place is said apart: it follows only by induction.               *)
Tiled ==
  /\ records \in Seq([first : Nat, size : RecordSizes])
  /\ accepted = End(Len(records))
  /\ \A i \in 1 .. Len(records) : records[i].first = End(i - 1)
  /\ \A i, j \in 1 .. Len(records) : i < j => End(i) =< records[j].first

(* What a logger is about to write is a record. *)
WritesRecords ==
  \A t \in Writers : pc[t] \in {"w_down", "w_check", "w_copy"} => want[t] \in RecordSizes

(* The record whose turn it is. *)
Due == Len(logged) + 1
HasRecord == Due =< Len(records)

ProgramTypes ==
  /\ point \in [Readers -> Points]
  /\ header \in [Readers -> Int]
  /\ need \in [Readers -> Int]
  /\ logged \in Seq([header : Int, content : Int, size : Int])

(* A read of count bytes from base on: nothing yet, the part before the    *)
(* end of the ring, or all of it; only a header may not be there yet.      *)
Untouched(t, base) == copyed[t] = 0 /\ next = base
Complete(t, base, count) ==
  HasRecord /\ copyed[t] = count /\ next = base + count /\ user_buf[t][0] = base
Reading(t, base, count) ==
  /\ pc[t] \in {"r_down", "r_plan", "r_first"} => want[t] = count /\ Untouched(t, base)
  /\ pc[t] = "r_first" => HasRecord
  /\ pc[t] = "r_rest" =>
       /\ HasRecord
       /\ copyed[t] + want[t] = count /\ next = base + copyed[t]
       /\ copyed[t] > 0 => user_buf[t][0] = base
  /\ pc[t] \in {"r_up", "open"} =>
       \/ Complete(t, base, count)
       \/ point[t] = "header_read" /\ Untouched(t, base)

(* What the header said. *)
Announced(t) ==
  /\ HasRecord
  /\ header[t] = End(Len(logged))
  /\ need[t] = records[Due].size - HeaderSize

Opening == {"o_down", "o_check", "o_take", "o_up"}
Closing == {"c_down", "c_check", "c_clear", "c_up", "closed"}
InRead  == {"r_down", "r_plan", "r_first", "r_rest", "r_up", "open"}

(* The place of the program in its loop and in the stream.                 *)
Place(t) ==
  LET begin == End(Len(logged))
  IN  /\ point[t] = "stopped" => pc[t] \in Closing /\ next = begin
      /\ point[t] = "killed" => pc[t] \in Closing \cup {"open"} /\ next = begin
      /\ point[t] = "leave" => FALSE
      /\ point[t] = "header" => pc[t] \in Opening \cup {"open"} /\ next = begin
      /\ point[t] = "header_read" => pc[t] \in InRead /\ Reading(t, begin, HeaderSize)
      /\ point[t] = "content" =>
           pc[t] = "open" /\ next = begin + HeaderSize /\ Announced(t)
      /\ point[t] = "content_read" =>
           pc[t] \in InRead /\ Announced(t) /\ Reading(t, begin + HeaderSize, need[t])

ReaderInv ==
  /\ OrderInv
  /\ ProgramTypes
  /\ Tiled
  /\ WritesRecords
  /\ LogsRecords
  /\ \A t \in Readers : Place(t)

USE DEF device, locals, history, ring, vars, program, rvars

-----------------------------------------------------------------------------
(* The records in the stream.                                              *)

Record == [first : Nat, size : RecordSizes]

LEMMA RecordTypes ==
  ASSUME ReaderInv
  PROVE  \A i \in 1 .. Len(records) : records[i] \in Record
<1>1. records \in Seq(Record)
  BY DEF ReaderInv, Tiled, Record
<1> QED BY <1>1

LEMMA DueFacts ==
  ASSUME ReaderInv
  PROVE  /\ Len(logged) \in Nat /\ Len(records) \in Nat /\ Len(logged) =< Len(records)
         /\ HeaderSize \in Nat \ {0} /\ accepted \in Nat /\ next \in Int
         /\ End(Len(logged)) \in Nat
         /\ HasRecord =>
              /\ records[Due] \in [first : Nat, size : RecordSizes]
              /\ records[Due].first = End(Len(logged))
              /\ records[Due].size \in Nat /\ records[Due].size > HeaderSize
              /\ End(Due) = End(Len(logged)) + records[Due].size
              /\ End(Due) =< accepted
         /\ ~HasRecord => End(Len(logged)) = accepted
<1>1. /\ Len(logged) \in Nat /\ Len(records) \in Nat /\ Len(logged) =< Len(records)
      /\ accepted \in Nat /\ next \in Int /\ HeaderSize \in Nat \ {0}
  BY ReaderAssumption
     DEF ReaderInv, ProgramTypes, Tiled, LogsRecords, OrderInv, RingInv, TypeOK
<1>2. \A i \in 1 .. Len(records) :
        /\ records[i] \in [first : Nat, size : RecordSizes]
        /\ records[i].first \in Nat /\ records[i].size \in Nat
        /\ records[i].size > HeaderSize
        /\ records[i].first = End(i - 1)
  <2> SUFFICES ASSUME NEW i \in 1 .. Len(records)
               PROVE  /\ records[i] \in [first : Nat, size : RecordSizes]
                      /\ records[i].first \in Nat /\ records[i].size \in Nat
                      /\ records[i].size > HeaderSize
                      /\ records[i].first = End(i - 1)
    OBVIOUS
  <2>1. records[i] \in [first : Nat, size : RecordSizes] /\ records[i].first = End(i - 1)
    BY RecordTypes DEF ReaderInv, Tiled, Record
  <2> QED BY <2>1, SizesAssumption, ReaderAssumption
<1>3. \A i \in 0 .. Len(records) : End(i) \in Nat
  BY <1>1, <1>2 DEF End, EndOf
<1>4. ASSUME HasRecord
      PROVE  /\ records[Due].first = End(Len(logged))
             /\ End(Due) = End(Len(logged)) + records[Due].size
             /\ End(Due) =< accepted
  <2>1. Due \in 1 .. Len(records) /\ Due - 1 = Len(logged) /\ Due # 0
    BY <1>1, <1>4 DEF HasRecord, Due
  <2>2. records[Due].first = End(Len(logged))
    BY <1>2, <2>1
  <2>3. End(Due) = records[Due].first + records[Due].size
    BY <2>1 DEF End, EndOf
  <2>4. accepted = End(Len(records))
    BY DEF ReaderInv, Tiled
  <2>5. CASE Due = Len(records)
    BY <1>1, <2>2, <2>3, <2>4, <2>5
  <2>6. CASE Due < Len(records)
    <3>1. Len(records) \in 1 .. Len(records)
      BY <1>1, <2>1
    <3>2. End(Due) =< records[Len(records)].first
      BY <2>1, <2>6, <3>1 DEF ReaderInv, Tiled
    <3>3. End(Len(records)) = records[Len(records)].first + records[Len(records)].size
      BY <3>1 DEF End, EndOf
    <3>4. records[Len(records)].first \in Nat /\ records[Len(records)].size \in Nat /\ End(Due) \in Nat
      BY <1>2, <1>3, <2>1, <3>1
    <3>5. End(Due) =< End(Len(records))
      BY <3>2, <3>3, <3>4
    <3> QED BY <2>2, <2>3, <2>4, <3>5
  <2> QED BY <1>1, <2>1, <2>5, <2>6
<1>5. ~HasRecord => Len(logged) = Len(records)
  BY <1>1 DEF HasRecord, Due
<1>6. HasRecord => Due \in 1 .. Len(records)
  BY <1>1 DEF HasRecord, Due
<1>7. ~HasRecord => End(Len(logged)) = accepted
  BY <1>5 DEF ReaderInv, Tiled
<1>8. End(Len(logged)) \in Nat
  BY <1>1, <1>3
<1> QED BY <1>1, <1>2, <1>4, <1>6, <1>7, <1>8

(* The header of the record due says how long its content is.              *)
LEMMA SizeOfDue ==
  ASSUME ReaderInv, HasRecord
  PROVE  ContentSizes(End(Len(logged))) = {records[Due].size - HeaderSize}
<1> DEFINE starting == {i \in 1 .. Len(records) : records[i].first = End(Len(logged))}
<1>1. Due \in 1 .. Len(records) /\ records[Due].first = End(Len(logged))
  BY DueFacts DEF HasRecord, Due
<1>2. ASSUME NEW i \in 1 .. Len(records), records[i].first = records[Due].first
      PROVE  i = Due
  <2>1. /\ i < Due => End(i) =< records[Due].first
        /\ Due < i => End(Due) =< records[i].first
    BY <1>1 DEF ReaderInv, Tiled
  <2>2. /\ records[i] \in [first : Nat, size : RecordSizes]
        /\ records[Due] \in [first : Nat, size : RecordSizes]
    BY <1>1, RecordTypes DEF Record
  <2>3. /\ records[i].first \in Nat /\ records[i].size \in Nat \ {0}
        /\ records[Due].first \in Nat /\ records[Due].size \in Nat \ {0}
    BY <2>2, SizesAssumption
  <2>4. End(i) > records[i].first /\ End(Due) > records[Due].first
    BY <1>1, <2>3 DEF End, EndOf
  <2>5. End(i) \in Nat /\ End(Due) \in Nat
    BY <1>1, <2>3 DEF End, EndOf
  <2> QED BY <1>1, <1>2, <2>1, <2>3, <2>4, <2>5
<1>3. starting = {Due}
  BY <1>1, <1>2
<1>4. ContentSizes(End(Len(logged))) =
        IF starting = {} THEN 0 .. BufSize ELSE {records[i].size - HeaderSize : i \in starting}
  BY DEF ContentSizes
<1> HIDE DEF starting
<1>5. {records[i].size - HeaderSize : i \in {Due}} = {records[Due].size - HeaderSize}
  OBVIOUS
<1> QED BY <1>3, <1>4, <1>5

(* Due and End speak of what was accepted before.                          *)
LEMMA RecordsGrow ==
  ASSUME ReaderInv, logged' = logged, Len(records') \in Nat, Len(records') >= Len(records),
         \A i \in 1 .. Len(records) : records'[i] = records[i]
  PROVE  /\ End(Len(logged))' = End(Len(logged))
         /\ HasRecord => HasRecord' /\ records'[Due] = records[Due]
         /\ Due' = Due
<1>1. /\ Len(logged) \in Nat /\ Len(records) \in Nat /\ Len(logged) =< Len(records)
  BY DueFacts
<1>2. Len(logged) # 0 => records'[Len(logged)] = records[Len(logged)]
  BY <1>1
<1>3. HasRecord => Due \in 1 .. Len(records)
  BY <1>1 DEF HasRecord, Due
<1> QED BY <1>1, <1>2, <1>3 DEF End, EndOf, HasRecord, Due

-----------------------------------------------------------------------------
(* The driver's side of a step.                                            *)

LEMMA DeviceMoves ==
  ASSUME ReaderInv, [RNext]_rvars
  PROVE  [Moves]_vars
<1>1. ASSUME NEW t \in Writers, Call(t) \/ Store(t) PROVE Moves
  BY <1>1 DEF Call, Store, Moves, WriterStep
<1>2. ASSUME NEW t \in Readers, ReaderCall(t) PROVE Moves
  BY <1>2 DEF ReaderCall, Moves, OpenCloseStep, AnyRead
<1>3. ASSUME NEW t \in Readers, Start(t) \/ Leave(t) PROVE Moves
  BY <1>3 DEF Start, Leave, Moves, OpenCloseStep
<1>4. ASSUME NEW t \in Readers, AskHeader(t) PROVE Moves
  <2>1. HeaderSize \in Nat BY ReaderAssumption
  <2> QED BY <1>4, <2>1 DEF AskHeader, Moves, AnyRead
<1>5. ASSUME NEW t \in Readers, AskContent(t) PROVE Moves \/ UNCHANGED vars
  <2>1. need[t] > 0 => need[t] \in Nat BY DEF ReaderInv, ProgramTypes
  <2>2. CASE need[t] > 0
    BY <1>5, <2>1, <2>2 DEF AskContent, Moves, AnyRead
  <2>3. CASE ~(need[t] > 0)
    BY <1>5, <2>3 DEF AskContent
  <2> QED BY <2>2, <2>3
<1>6. ASSUME NEW t \in Readers, TakeHeader(t) \/ TakeContent(t) \/ Kill(t)
      PROVE  UNCHANGED vars
  BY <1>6 DEF TakeHeader, TakeContent, Kill
<1> QED BY <1>1, <1>2, <1>3, <1>4, <1>5, <1>6 DEF RNext, Main

LEMMA OrderKeeps ==
  ASSUME Undisturbed, ReaderInv, [RNext]_rvars
  PROVE  OrderInv'
BY DeviceMoves, OrderNext DEF Undisturbed, ReaderInv

-----------------------------------------------------------------------------
(* The loggers.                                                            *)

LEMMA WritersKeepPlace ==
  ASSUME ReaderInv, UNCHANGED <<program, logged>>, NEW t \in Readers,
         pc'[t] = pc[t], want'[t] = want[t], UNCHANGED <<copyed, user_buf, next>>,
         Len(records') \in Nat, Len(records') >= Len(records),
         \A i \in 1 .. Len(records) : records'[i] = records[i]
  PROVE  Place(t)'
<1>1. /\ End(Len(logged))' = End(Len(logged)) /\ Due' = Due
      /\ HasRecord => HasRecord' /\ records'[Due] = records[Due]
  BY RecordsGrow
<1>2. Place(t)
  BY DEF ReaderInv
<1>3. Announced(t) => Announced(t)'
  BY <1>1 DEF Announced
<1>4. ASSUME NEW base, NEW count, Reading(t, base, count)
      PROVE  Reading(t, base, count)'
  BY <1>1, <1>4 DEF Reading, Complete, Untouched
<1>5. \E begin : begin = End(Len(logged))
  OBVIOUS
<1>6. PICK begin : begin = End(Len(logged))
  BY <1>5
<1>7. PICK count : count = need[t]
  OBVIOUS
<1> HIDE DEF Reading, Announced
<1>8. /\ Reading(t, begin, HeaderSize) => Reading(t, begin, HeaderSize)'
      /\ Reading(t, begin + HeaderSize, count) => Reading(t, begin + HeaderSize, count)'
  BY <1>4
<1> QED BY <1>1, <1>2, <1>3, <1>6, <1>7, <1>8 DEF Place

LEMMA StoreTiles ==
  ASSUME ReaderInv, NEW size \in RecordSizes, accepted' = accepted + size,
         records' = Append(records, [first |-> accepted, size |-> size])
  PROVE  /\ Tiled'
         /\ Len(records') = Len(records) + 1
         /\ \A i \in 1 .. Len(records) : records'[i] = records[i]
<1> DEFINE new == [first |-> accepted, size |-> size]
<1>0. PICK n : n = Len(records)
  OBVIOUS
<1>1. n \in Nat /\ accepted \in Nat /\ size \in Nat /\ records \in Seq(Record)
  BY <1>0, DueFacts, SizesAssumption DEF ReaderInv, Tiled, Record
<1>2. /\ records' \in Seq(Record) /\ Len(records') = n + 1 /\ records'[n + 1] = new
      /\ \A i \in 1 .. n : records'[i] = records[i]
  BY <1>0, <1>1 DEF Record
<1> HIDE DEF new
<1>3. /\ \A i \in 0 .. n : EndOf(records', i) = End(i)
      /\ EndOf(records', n + 1) = accepted'
  <2>1. ASSUME NEW i \in 0 .. n PROVE EndOf(records', i) = End(i)
    <3>1. i = 0 \/ i \in 1 .. n
      BY <1>1
    <3> QED BY <1>2, <3>1 DEF End, EndOf
  <2>2. n + 1 # 0 /\ new.first = accepted /\ new.size = size
    BY <1>1 DEF new
  <2> QED BY <1>2, <2>1, <2>2 DEF End, EndOf
<1>4. accepted = End(n) /\ \A i \in 1 .. n : records[i].first = End(i - 1)
  BY <1>0 DEF ReaderInv, Tiled
<1>5. ASSUME NEW i \in 1 .. n + 1 PROVE records'[i].first = EndOf(records', i - 1)
  <2>1. CASE i \in 1 .. n
    <3>1. i - 1 \in 0 .. n
      BY <1>1, <2>1
    <3>2. EndOf(records', i - 1) = End(i - 1)
      BY <1>3, <3>1
    <3> QED BY <1>2, <1>4, <2>1, <3>2
  <2>2. CASE i = n + 1
    <3>1. n \in 0 .. n /\ i - 1 = n
      BY <1>1, <2>2
    <3>2. EndOf(records', n) = End(n)
      BY <1>3, <3>1
    <3>3. records'[i] = new /\ new.first = accepted
      BY <1>2, <2>2 DEF new
    <3> QED BY <1>4, <3>1, <3>2, <3>3
  <2>3. i \in 1 .. n \/ i = n + 1
    BY <1>1
  <2> QED BY <2>1, <2>2, <2>3, Zenon
<1>6. ASSUME NEW i \in 1 .. n + 1, NEW j \in 1 .. n + 1, i < j
      PROVE  EndOf(records', i) =< records'[j].first
  <2>1. i \in 1 .. n
    BY <1>1, <1>6
  <2>2. CASE j \in 1 .. n
    <3>1. End(i) =< records[j].first /\ i \in 0 .. n
      BY <1>0, <1>1, <1>6, <2>1, <2>2 DEF ReaderInv, Tiled
    <3>2. EndOf(records', i) = End(i)
      BY <1>3, <3>1
    <3> QED BY <1>2, <2>2, <3>1, <3>2
  <2>3. CASE j = n + 1 /\ i = n
    <3>1. i \in 0 .. n /\ records'[j].first = End(n) /\ End(n) \in Nat
      BY <1>1, <1>2, <1>4, <2>1, <2>3 DEF new
    <3>2. EndOf(records', i) = accepted
      BY <1>3, <1>4, <2>3, <3>1
    <3>3. records'[j].first = accepted
      BY <1>4, <3>1
    <3>4. accepted =< accepted
      BY <1>1
    <3> QED BY <3>2, <3>3, <3>4, Zenon
  <2>4. CASE j = n + 1 /\ i < n
    <3>1. n \in 1 .. n
      BY <1>1, <2>1
    <3>2. End(i) =< records[n].first
      BY <1>0, <2>1, <2>4, <3>1 DEF ReaderInv, Tiled
    <3>3. /\ records[n] \in Record /\ records[i] \in Record
      BY <2>1, <3>1, <1>0, RecordTypes
    <3>4. /\ records[n].first \in Nat /\ records[n].size \in Nat
          /\ records[i].first \in Nat /\ records[i].size \in Nat
      BY <3>3, SizesAssumption DEF Record
    <3>5. End(n) = records[n].first + records[n].size
          /\ End(i) = records[i].first + records[i].size
      BY <2>1, <3>1 DEF End, EndOf
    <3>6. End(i) =< End(n)
      BY <3>2, <3>4, <3>5
    <3>7. i \in 0 .. n /\ records'[j].first = End(n)
      BY <1>1, <1>2, <1>4, <2>1, <2>4 DEF new
    <3>8. EndOf(records', i) = End(i)
      BY <1>3, <3>7
    <3> QED BY <3>6, <3>7, <3>8
  <2>5. j \in 1 .. n \/ (j = n + 1 /\ i = n) \/ (j = n + 1 /\ i < n)
    BY <1>1, <2>1
  <2> QED BY <2>2, <2>3, <2>4, <2>5, Zenon
<1>7. accepted' = EndOf(records', Len(records'))
  BY <1>2, <1>3
<1> QED BY <1>0, <1>2, <1>5, <1>6, <1>7 DEF Tiled, Record, End

LEMMA WriterKeeps ==
  ASSUME ReaderInv, NEW t \in Writers, Call(t) \/ Store(t)
  PROVE  /\ ProgramTypes' /\ Tiled' /\ WritesRecords' /\ LogsRecords'
         /\ \A r \in Readers : Place(r)'
<1> t \in Tasks /\ pc \in [Tasks -> Labels] /\ want \in [Tasks -> Nat]
  BY DEF Tasks, ReaderInv, OrderInv, RingInv, TypeOK
<1>1. /\ UNCHANGED <<program, logged, copyed, user_buf, next>>
      /\ \A u \in Tasks : u # t => pc'[u] = pc[u] /\ want'[u] = want[u]
  BY DEF Call, Store, WriteBegin, WriteDown, WriteSignalled, WriteCheck, WriteCopy, WriteUp,
     Goto, Down, Signalled, Up
<1>2. WritesRecords'
  <2>1. pc'[t] \in {"w_down", "w_check", "w_copy"} => want'[t] \in RecordSizes
    <3>1. CASE WriteBegin(t)
      BY <3>1 DEF WriteBegin
    <3>2. CASE ~WriteBegin(t)
      BY <3>2 DEF ReaderInv, WritesRecords, Call, Store, WriteDown, WriteSignalled, WriteCheck,
         WriteCopy, WriteUp, Goto, Down, Signalled, Up
    <3> QED BY <3>1, <3>2
  <2> QED BY <1>1, <2>1 DEF ReaderInv, WritesRecords, Tasks
<1>3. ASSUME Call(t)
      PROVE  UNCHANGED <<records, accepted>>
  BY <1>3 DEF Call, WriteBegin, WriteDown, WriteSignalled, WriteCheck, WriteUp, Down,
     Signalled, Up
<1>4. ASSUME Store(t)
      PROVE  /\ want[t] \in RecordSizes /\ accepted' = accepted + want[t]
             /\ records' = Append(records, [first |-> accepted, size |-> want[t]])
  BY <1>4 DEF Store, WriteCopy, Goto, ReaderInv, WritesRecords
<1>5. /\ Tiled' /\ Len(records') \in Nat /\ Len(records') >= Len(records)
      /\ \A i \in 1 .. Len(records) : records'[i] = records[i]
  <2>1. CASE Call(t)
    <3>1. Tiled'
      BY <1>3, <2>1 DEF ReaderInv, Tiled, End, EndOf
    <3> QED BY <1>3, <2>1, <3>1, DueFacts
  <2>2. CASE Store(t)
    BY <1>4, <2>2, StoreTiles, DueFacts
  <2> QED BY <2>1, <2>2
<1>6. ProgramTypes'
  BY <1>1 DEF ReaderInv, ProgramTypes
<1>7. LogsRecords'
  <2>1. /\ Len(logged) \in Nat /\ Len(records) \in Nat /\ Len(logged) =< Len(records)
    BY DueFacts
  <2> QED BY <1>1, <1>5, <2>1 DEF ReaderInv, LogsRecords
<1>8. ASSUME NEW r \in Readers PROVE Place(r)'
  <2>1. r # t /\ r \in Tasks
    BY TasksAssumption DEF Tasks
  <2> QED BY <1>1, <1>5, <2>1, WritersKeepPlace
<1> QED BY <1>2, <1>5, <1>6, <1>7, <1>8

-----------------------------------------------------------------------------
(* A read() of the program.                                                *)

LEMMA RingFacts ==
  ASSUME ReaderInv, Undisturbed, NEW t \in Readers
  PROVE  /\ TypeOK /\ RingInv /\ OrderInv
         /\ read_ptr \in Cells /\ write_ptr \in Cells /\ BufSize \in Nat \ {0}
         /\ UsedSize \in 0 .. BufSize - 1 /\ accepted \in Nat /\ next \in Int
         /\ next = accepted - UsedSize
         /\ UsedSize = 0 <=> read_ptr = write_ptr
         /\ t \in Tasks /\ want[t] \in Nat /\ copyed[t] \in Nat
         /\ ReaderPlanOf(t) /\ OrderOf(t)
<1>1. TypeOK /\ RingInv /\ OrderInv /\ OrderOf(t) /\ ReaderPlanOf(t) /\ next = accepted - UsedSize
  BY DEF ReaderInv, OrderInv, RingInv, ReaderPlan, Undisturbed
<1>2. read_ptr \in Cells /\ write_ptr \in Cells /\ accepted \in Nat /\ next \in Int
      /\ want \in [Tasks -> Nat]
  BY <1>1 DEF TypeOK
<1>3. BufSize \in Nat \ {0}
  BY SizesAssumption
<1>4. UsedSize \in 0 .. BufSize - 1
  BY <1>2, UsedSizeRange
<1>5. UsedSize = 0 <=> read_ptr = write_ptr
  BY <1>2, <1>3 DEF UsedSize, Cells
<1>6. copyed[t] \in Nat
  BY <1>1 DEF OrderOf
<1> QED BY <1>1, <1>2, <1>3, <1>4, <1>5, <1>6 DEF Tasks

LEMMA CopyFacts ==
  ASSUME ReaderInv, Undisturbed, NEW t \in Readers, NEW len \in 0 .. UsedSize,
         read_ptr + len =< BufSize, copyed[t] + len =< BufSize, CopyToUser(t, len),
         UNCHANGED <<cycle_buffer, write_ptr, accepted>>,
         read_ptr' = Advance(read_ptr, len)
  PROVE  /\ copyed'[t] = copyed[t] + len
         /\ next' = next + len
         /\ copyed[t] = 0 /\ len > 0 => user_buf'[t][0] = next
         /\ copyed[t] > 0 => user_buf'[t][0] = user_buf[t][0]
<1>0. /\ TypeOK /\ RingInv /\ BufSize \in Nat \ {0} /\ UsedSize \in 0 .. BufSize - 1
      /\ accepted \in Nat /\ next = accepted - UsedSize /\ copyed[t] \in Nat
  BY RingFacts
<1>1. /\ copyed'[t] = copyed[t] + len
      /\ \A i \in copyed[t] .. copyed[t] + len - 1 :
           user_buf'[t][i] = accepted - UsedSize + i - copyed[t]
  BY <1>0, CopyInOrder
<1>2. next' = IF len > 0 THEN accepted - UsedSize + len ELSE next
  BY <1>0, CopyAdvances
<1>3. next' = next + len
  BY <1>0, <1>2
<1>4. ASSUME copyed[t] = 0, len > 0 PROVE user_buf'[t][0] = next
  <2>1. 0 \in copyed[t] .. copyed[t] + len - 1
    BY <1>0, <1>4
  <2>2. user_buf'[t][0] = accepted - UsedSize + 0 - copyed[t]
    BY <1>1, <2>1
  <2> QED BY <1>0, <1>4, <2>2
<1>5. ASSUME copyed[t] > 0 PROVE user_buf'[t][0] = user_buf[t][0]
  <2>1. 0 \in Cells /\ 0 \notin copyed[t] .. copyed[t] + len - 1
    BY <1>0, <1>5 DEF Cells
  <2>2. user_buf \in [Readers -> [Cells -> Int]]
    BY <1>0 DEF TypeOK
  <2>3. user_buf'[t] =
          [i \in Cells |-> IF i \in copyed[t] .. copyed[t] + len - 1
                           THEN cycle_buffer[read_ptr + i - copyed[t]]
                           ELSE user_buf[t][i]]
    BY <2>2 DEF CopyToUser
  <2> QED BY <2>1, <2>3
<1> QED BY <1>1, <1>3, <1>4, <1>5

ReadInside(t) == ReadDown(t) \/ ReadPlan(t) \/ ReadFirst(t) \/ ReadRest(t) \/ ReadUp(t)

LEMMA ReadKeeps ==
  ASSUME ReaderInv, Undisturbed, NEW t \in Readers, ReadInside(t),
         UNCHANGED <<point, records, logged>>,
         NEW base \in Int, NEW count \in Nat \ {0}, Reading(t, base, count),
         HasRecord => base + count =< accepted,
         ~HasRecord => base = accepted /\ point[t] = "header_read"
  PROVE  Reading(t, base, count)' /\ pc'[t] \in InRead
<1>0. /\ t \in Tasks /\ want[t] \in Nat /\ copyed[t] \in Nat
      /\ accepted \in Nat /\ next \in Int /\ next = accepted - UsedSize
      /\ UsedSize \in 0 .. BufSize - 1 /\ (UsedSize = 0 <=> read_ptr = write_ptr)
      /\ BufSize \in Nat \ {0} /\ read_ptr \in Cells
      /\ ReaderPlanOf(t) /\ OrderOf(t)
  BY RingFacts
<1>1. HasRecord' = HasRecord
  BY DEF HasRecord, Due
<1>t. pc \in [Tasks -> Labels] /\ want \in [Tasks -> Nat]
  BY RingFacts DEF TypeOK
<1>2. CASE ReadDown(t) \/ ReadUp(t)
  <2>1. /\ UNCHANGED <<want, copyed, next, user_buf>>
        /\ \/ pc[t] = "r_down" /\ pc'[t] = "r_plan"
           \/ pc[t] = "r_up" /\ pc'[t] = "open"
    BY <1>0, <1>t, <1>2 DEF ReadDown, ReadUp, Down, Up, Goto
  <2> QED BY <1>1, <2>1 DEF Reading, Untouched, Complete, InRead
<1>3. CASE ReadPlan(t)
  <2>1. /\ pc[t] = "r_plan" /\ UNCHANGED <<copyed, next, user_buf>>
        /\ want'[t] = IF want[t] > UsedSize THEN UsedSize ELSE want[t]
        /\ pc'[t] \in {"r_up", "r_first", "r_rest"}
        /\ pc'[t] = "r_up" <=> read_ptr = write_ptr
    BY <1>0, <1>t, <1>3 DEF ReadPlan, Goto
  <2>2. want[t] = count /\ copyed[t] = 0 /\ next = base
    BY <2>1 DEF Reading, Untouched
  <2>3. CASE UsedSize = 0
    <3>1. ~HasRecord
      BY <1>0, <2>2, <2>3
    <3> QED BY <1>0, <1>1, <2>1, <2>2, <2>3, <3>1 DEF Reading, Untouched, InRead
  <2>4. CASE UsedSize # 0
    <3>1. HasRecord
      BY <1>0, <2>2, <2>4
    <3>2. want'[t] = count
      BY <1>0, <2>1, <2>2, <3>1
    <3> QED BY <1>0, <1>1, <2>1, <2>2, <2>4, <3>1, <3>2 DEF Reading, Untouched, InRead
  <2> QED BY <2>3, <2>4
<1>4. CASE ReadFirst(t)
  <2> DEFINE first == first_size[t]
  <2>1. /\ pc[t] = "r_first" /\ HasRecord
        /\ want[t] = count /\ copyed[t] = 0 /\ next = base
    BY <1>4 DEF ReadFirst, Reading, Untouched
  <2>2. first = BufSize - read_ptr /\ first =< want[t] /\ want[t] =< UsedSize
    BY <1>0, <2>1 DEF ReaderPlanOf
  <2>3. first \in 0 .. UsedSize /\ first > 0 /\ read_ptr + first = BufSize
    BY <1>0, <2>2 DEF Cells
  <2>4. /\ CopyToUser(t, first) /\ read_ptr' = 0 /\ pc'[t] = "r_rest"
        /\ want'[t] = want[t] - first
        /\ UNCHANGED <<cycle_buffer, write_ptr, accepted>>
    <3>1. Left(first) = {0} /\ first - 0 = first
      BY <2>3 DEF Undisturbed, Left
    <3> QED BY <1>0, <1>t, <1>4, <3>1 DEF ReadFirst, Goto
  <2>5. read_ptr' = Advance(read_ptr, first) /\ copyed[t] + first =< BufSize
    BY <1>0, <2>1, <2>3, <2>4 DEF Advance, Cells
  <2> HIDE DEF first
  <2>6. copyed'[t] = first /\ next' = next + first /\ user_buf'[t][0] = next
    BY <1>0, <2>1, <2>3, <2>4, <2>5, CopyFacts
  <2> QED BY <1>0, <1>1, <2>1, <2>2, <2>3, <2>4, <2>6 DEF Reading, InRead
<1>5. CASE ReadRest(t)
  <2> DEFINE len == want[t]
  <2>1. /\ pc[t] = "r_rest" /\ HasRecord /\ copyed[t] + len = count
        /\ next = base + copyed[t] /\ (copyed[t] > 0 => user_buf[t][0] = base)
    BY <1>5 DEF ReadRest, Goto, Reading
  <2>2. /\ len =< UsedSize /\ read_ptr + len < BufSize /\ copyed[t] + len < BufSize
    BY <1>0, <2>1 DEF ReaderPlanOf, OrderOf
  <2>3. /\ CopyToUser(t, len) /\ read_ptr' = read_ptr + len /\ pc'[t] = "r_up"
        /\ UNCHANGED <<cycle_buffer, write_ptr, accepted>>
    <3>1. Left(len) = {0} /\ len - 0 = len /\ read_ptr + len - 0 = read_ptr + len
      BY <1>0 DEF Undisturbed, Left, Cells
    <3> QED BY <1>0, <1>t, <1>5, <3>1 DEF ReadRest, Goto
  <2>4. read_ptr' = Advance(read_ptr, len) /\ len \in 0 .. UsedSize /\ read_ptr + len =< BufSize
    BY <1>0, <2>2, <2>3 DEF Advance, Cells
  <2> HIDE DEF len
  <2>5. /\ copyed'[t] = copyed[t] + len /\ next' = next + len
        /\ copyed[t] = 0 /\ len > 0 => user_buf'[t][0] = next
        /\ copyed[t] > 0 => user_buf'[t][0] = user_buf[t][0]
    BY <1>0, <2>2, <2>3, <2>4, CopyFacts
  <2>6. copyed'[t] = count /\ next' = base + count /\ user_buf'[t][0] = base
    BY <1>0, <2>1, <2>4, <2>5
  <2> QED BY <1>1, <2>1, <2>3, <2>6 DEF Reading, Complete, InRead
<1> QED BY <1>2, <1>3, <1>4, <1>5 DEF ReadInside

-----------------------------------------------------------------------------
(* The program.                                                            *)

ProgramStep(t) == ReaderCall(t) \/ Start(t) \/ Main(t) \/ Kill(t)

LEMMA ReaderFrame ==
  ASSUME ReaderInv, NEW t \in Readers, ProgramStep(t)
  PROVE  /\ UNCHANGED <<records, accepted>> /\ Tiled' /\ WritesRecords'
         /\ pc \in [Tasks -> Labels] /\ t \in Tasks
<1>1. /\ UNCHANGED <<records, accepted>>
      /\ \A u \in Tasks : u # t => pc'[u] = pc[u] /\ want'[u] = want[u]
  <2>1. pc \in [Tasks -> Labels] /\ want \in [Tasks -> Nat] /\ t \in Tasks
    BY DEF ReaderInv, OrderInv, RingInv, TypeOK, Tasks
  <2>2. CASE ReaderCall(t)
    BY <2>1, <2>2 DEF ReaderCall, OpenDown, OpenSignalled, OpenCheck, OpenTake, OpenUp,
       CloseDown, CloseSignalled, CloseCheck, CloseClear, CloseUp, ReadDown, ReadSignalled,
       ReadPlan, ReadFirst, ReadRest, ReadUp, Goto, Down, Signalled, Up
  <2>3. CASE Start(t) \/ Main(t) \/ Kill(t)
    BY <2>1, <2>3 DEF Start, Main, Kill, AskHeader, TakeHeader, AskContent, TakeContent,
       Leave, OpenBegin, CloseBegin, ReadBegin, Goto
  <2> QED BY <2>2, <2>3 DEF ProgramStep
<1>2. WritesRecords'
  <2>1. \A u \in Writers : u # t /\ u \in Tasks
    BY TasksAssumption DEF Tasks
  <2> QED BY <1>1, <2>1 DEF ReaderInv, WritesRecords
<1>3. Tiled'
  BY <1>1 DEF ReaderInv, Tiled, End, EndOf
<1> QED BY <1>1, <1>2, <1>3 DEF ReaderInv, OrderInv, RingInv, TypeOK, Tasks

(* The calls of the driver in which nothing is handed out.                 *)
OpenCloseInside(t) ==
  \/ OpenDown(t) \/ OpenSignalled(t) \/ OpenCheck(t) \/ OpenTake(t) \/ OpenUp(t)
  \/ CloseDown(t) \/ CloseSignalled(t) \/ CloseCheck(t) \/ CloseClear(t) \/ CloseUp(t)

LEMMA OpenCloseKeeps ==
  ASSUME ReaderInv, NEW t \in Readers, OpenCloseInside(t), UNCHANGED <<program, records, logged>>
  PROVE  Place(t)'
<1>0. pc \in [Tasks -> Labels] /\ t \in Tasks
  BY DEF ReaderInv, OrderInv, RingInv, TypeOK, Tasks
<1>1. /\ next' = next
      /\ \/ pc[t] \in Opening /\ pc'[t] \in Opening \cup {"open"}
         \/ pc[t] \in Closing \ {"closed"} /\ pc'[t] \in Closing
  BY <1>0 DEF OpenCloseInside, OpenDown, OpenSignalled, OpenCheck, OpenTake, OpenUp, CloseDown,
     CloseSignalled, CloseCheck, CloseClear, CloseUp, Goto, Down, Signalled, Up, Opening, Closing
<1>2. Place(t)
  BY DEF ReaderInv
<1>3. point[t] \in {"stopped", "killed", "header"} /\ pc[t] # "open"
  BY <1>1, <1>2 DEF Place, Opening, Closing, InRead, ReaderInv, ProgramTypes, Points
<1>4. End(Len(logged))' = End(Len(logged))
  BY DEF End, EndOf
<1> QED BY <1>1, <1>2, <1>3, <1>4 DEF Place, Opening, Closing

LEMMA ReadCallKeeps ==
  ASSUME ReaderInv, Undisturbed, NEW t \in Readers, ReadInside(t),
         UNCHANGED <<program, records, logged>>
  PROVE  Place(t)'
<1>1. PICK begin : begin = End(Len(logged))
  OBVIOUS
<1>2. PICK content : content = need[t]
  OBVIOUS
<1>3. /\ begin \in Nat /\ HeaderSize \in Nat \ {0} /\ accepted \in Nat
      /\ HasRecord => begin + HeaderSize < accepted
      /\ ~HasRecord => begin = accepted
  <2>1. HasRecord => /\ records[Due].size \in Nat /\ records[Due].size > HeaderSize
                     /\ begin + records[Due].size =< accepted
    BY <1>1, DueFacts
  <2> QED BY <1>1, <2>1, DueFacts
<1>4. Announced(t) => content \in Nat \ {0} /\ begin + HeaderSize + content =< accepted
  <2>1. HasRecord => /\ records[Due].size \in Nat /\ records[Due].size > HeaderSize
                     /\ begin + records[Due].size =< accepted
    BY <1>1, DueFacts
  <2> QED BY <1>2, <1>3, <2>1 DEF Announced
<1>5. /\ End(Len(logged))' = begin /\ need'[t] = content
      /\ Announced(t)' = Announced(t)
  BY <1>1, <1>2 DEF End, EndOf, Announced, HasRecord, Due
<1>6. Place(t) /\ pc[t] \in {"r_down", "r_plan", "r_first", "r_rest", "r_up"}
  BY DEF ReaderInv, ReadInside, ReadDown, ReadPlan, ReadFirst, ReadRest, ReadUp, Down, Up, Goto
<1>7. point[t] \in {"header_read", "content_read"}
  BY <1>6 DEF Place, Opening, Closing, ReaderInv, ProgramTypes, Points
<1>8. CASE point[t] = "header_read"
  <2>1. Reading(t, begin, HeaderSize)
    BY <1>1, <1>6, <1>8 DEF Place
  <2>2. Reading(t, begin, HeaderSize)' /\ pc'[t] \in InRead
    BY <1>3, <1>8, <2>1, ReadKeeps
  <2> QED BY <1>5, <1>8, <2>2 DEF Place
<1>9. CASE point[t] = "content_read"
  <2>1. Announced(t) /\ Reading(t, begin + HeaderSize, content)
    BY <1>1, <1>2, <1>6, <1>9 DEF Place
  <2>2. HasRecord
    BY <2>1 DEF Announced
  <2>3. begin + HeaderSize \in Int
    BY <1>3
  <2>4. Reading(t, begin + HeaderSize, content)' /\ pc'[t] \in InRead
    BY <1>4, <2>1, <2>2, <2>3, ReadKeeps
  <2> QED BY <1>5, <1>9, <2>1, <2>4 DEF Place
<1> QED BY <1>7, <1>8, <1>9

LEMMA CallKeeps ==
  ASSUME ReaderInv, Undisturbed, NEW t \in Readers, ReaderCall(t)
  PROVE  ProgramTypes' /\ LogsRecords' /\ Place(t)'
<1>1. UNCHANGED <<program, records, logged>>
  BY DEF ReaderCall
<1>2. ProgramTypes' /\ LogsRecords'
  BY <1>1 DEF ReaderInv, ProgramTypes, LogsRecords
<1>3. OpenCloseInside(t) \/ ReadInside(t)
  BY DEF ReaderCall, OpenCloseInside, ReadInside, Undisturbed, ReadSignalled, Signalled
<1> QED BY <1>1, <1>2, <1>3, OpenCloseKeeps, ReadCallKeeps

-----------------------------------------------------------------------------
(* The steps of main() between its calls.                                  *)

MainKept(t) == ProgramTypes' /\ LogsRecords' /\ Place(t)'

LEMMA StartKeeps ==
  ASSUME ReaderInv, NEW t \in Readers, Start(t) \/ Kill(t) \/ Leave(t), Undisturbed
  PROVE  MainKept(t)
<1>0. /\ pc \in [Tasks -> Labels] /\ t \in Tasks /\ Place(t)
      /\ point \in [Readers -> Points]
  BY DEF ReaderInv, OrderInv, RingInv, TypeOK, Tasks, ProgramTypes
<1>1. UNCHANGED <<header, need, records, logged, next>>
  BY DEF Start, Kill, Leave, OpenBegin, CloseBegin
<1>2. LogsRecords' /\ End(Len(logged))' = End(Len(logged))
  BY <1>1 DEF ReaderInv, LogsRecords, End, EndOf
<1>3. CASE Start(t)
  <2>1. point' = [point EXCEPT ![t] = "header"] /\ pc'[t] = "o_down"
        /\ point[t] \in {"stopped", "killed"}
    BY <1>0, <1>3 DEF Start, OpenBegin, Goto
  <2>2. Place(t)'
    BY <1>0, <1>2, <1>1, <2>1 DEF Place, Opening
  <2> QED BY <1>0, <1>1, <1>2, <2>1, <2>2 DEF MainKept, ReaderInv, ProgramTypes, Points
<1>4. CASE Kill(t)
  <2>1. point' = [point EXCEPT ![t] = "killed"] /\ pc' = pc /\ pc[t] = "open"
        /\ point[t] = "header"
    BY <1>4, ReaderAssumption DEF Kill, Undisturbed
  <2>2. Place(t)'
    BY <1>0, <1>2, <1>1, <2>1 DEF Place
  <2> QED BY <1>0, <1>1, <1>2, <2>1, <2>2 DEF MainKept, ReaderInv, ProgramTypes, Points
<1>5. CASE Leave(t)
  <2>1. point' = point /\ pc'[t] = "c_down" /\ point[t] = "killed"
    <3>1. point[t] = "killed"
      BY <1>0, <1>5 DEF Leave, Place
    <3> QED BY <1>0, <1>5, <3>1 DEF Leave, CloseBegin, Goto
  <2>2. Place(t)'
    BY <1>0, <1>2, <1>1, <2>1 DEF Place, Closing
  <2> QED BY <1>0, <1>1, <1>2, <2>1, <2>2 DEF MainKept, ReaderInv, ProgramTypes
<1> QED BY <1>3, <1>4, <1>5

LEMMA AskKeeps ==
  ASSUME ReaderInv, NEW t \in Readers, AskHeader(t) \/ AskContent(t)
  PROVE  MainKept(t)
<1>0. /\ pc \in [Tasks -> Labels] /\ t \in Tasks /\ Place(t)
      /\ want \in [Tasks -> Nat] /\ copyed \in [Readers -> Nat \cup {EINTR}]
      /\ point \in [Readers -> Points]
  BY DEF ReaderInv, OrderInv, RingInv, TypeOK, Tasks, ProgramTypes
<1>1. PICK begin : begin = End(Len(logged))
  OBVIOUS
<1>2. PICK content : content = need[t]
  OBVIOUS
<1>3. Announced(t) => content > 0
  <2>1. HasRecord => /\ records[Due].size \in Nat /\ records[Due].size > HeaderSize
                     /\ HeaderSize \in Nat
    BY DueFacts
  <2> QED BY <1>2, <2>1 DEF Announced
<1>4. /\ UNCHANGED <<header, need, records, logged, next>>
      /\ \/ /\ point[t] = "header" /\ point' = [point EXCEPT ![t] = "header_read"]
            /\ pc'[t] = "r_down" /\ want'[t] = HeaderSize /\ copyed'[t] = 0
         \/ /\ point[t] = "content" /\ point' = [point EXCEPT ![t] = "content_read"]
            /\ pc'[t] = "r_down" /\ want'[t] = content /\ copyed'[t] = 0
  <2>1. CASE AskHeader(t)
    BY <1>0, <2>1 DEF AskHeader, At, ReadBegin, Goto
  <2>2. CASE AskContent(t)
    <3>1. point[t] = "content" /\ need[t] > 0
      BY <1>0, <1>2, <1>3, <2>2 DEF AskContent, At, Place
    <3> QED BY <1>0, <1>2, <2>2, <3>1 DEF AskContent, At, ReadBegin, Goto
  <2> QED BY <2>1, <2>2
<1>5. /\ LogsRecords' /\ End(Len(logged))' = begin /\ need'[t] = content
      /\ Announced(t)' = Announced(t)
  BY <1>1, <1>2, <1>4
     DEF ReaderInv, LogsRecords, End, EndOf, Announced, HasRecord, Due
<1>6. /\ point'[t] \in {"header_read", "content_read"} /\ ProgramTypes'
  BY <1>0, <1>4 DEF ReaderInv, ProgramTypes, Points
<1>7. CASE point'[t] = "header_read"
  <2>1. point[t] = "header" /\ pc'[t] = "r_down" /\ want'[t] = HeaderSize /\ copyed'[t] = 0
    BY <1>0, <1>4, <1>7
  <2>2. Reading(t, begin, HeaderSize)'
    BY <1>0, <1>1, <1>4, <2>1 DEF Reading, Untouched, Place
  <2> QED BY <1>5, <1>6, <1>7, <2>1, <2>2 DEF MainKept, Place, InRead
<1>8. CASE point'[t] = "content_read"
  <2>1. point[t] = "content" /\ pc'[t] = "r_down" /\ want'[t] = content /\ copyed'[t] = 0
    BY <1>0, <1>4, <1>8
  <2>2. Reading(t, begin + HeaderSize, content)' /\ Announced(t)
    BY <1>0, <1>1, <1>4, <2>1 DEF Reading, Untouched, Place
  <2> QED BY <1>5, <1>6, <1>8, <2>1, <2>2 DEF MainKept, Place, InRead
<1> QED BY <1>6, <1>7, <1>8

LEMMA TakeHeaderKeeps ==
  ASSUME ReaderInv, NEW t \in Readers, TakeHeader(t)
  PROVE  MainKept(t)
<1>0. /\ Place(t) /\ point \in [Readers -> Points] /\ HeaderSize \in Nat \ {0}
      /\ header \in [Readers -> Int] /\ need \in [Readers -> Int]
      /\ End(Len(logged)) \in Nat
  BY DueFacts DEF ReaderInv, ProgramTypes
<1>1. /\ UNCHANGED <<records, logged, next, pc>> /\ pc[t] = "open"
      /\ point[t] = "header_read"
  BY DEF TakeHeader, At
<1>2. PICK begin : begin = End(Len(logged))
  OBVIOUS
<1>3. /\ LogsRecords' /\ End(Len(logged))' = begin /\ HasRecord' = HasRecord /\ Due' = Due
  BY <1>1, <1>2 DEF ReaderInv, LogsRecords, End, EndOf, HasRecord, Due
<1>4. Complete(t, begin, HeaderSize) \/ Untouched(t, begin)
  BY <1>0, <1>1, <1>2 DEF Place, Reading
<1>5. CASE Complete(t, begin, HeaderSize)
  <2>1. HasRecord /\ copyed[t] = HeaderSize /\ next = begin + HeaderSize /\ user_buf[t][0] = begin
    BY <1>5 DEF Complete
  <2>2. records[Due].size - HeaderSize \in Int
    BY <1>0, <2>1, DueFacts
  <2>3. ContentSizes(begin) = {records[Due].size - HeaderSize}
    BY <1>2, <2>1, SizeOfDue
  <2>4. /\ point' = [point EXCEPT ![t] = "content"]
        /\ header' = [header EXCEPT ![t] = begin]
        /\ need' = [need EXCEPT ![t] = records[Due].size - HeaderSize]
    BY <2>1, <2>3 DEF TakeHeader
  <2>5. Announced(t)'
    BY <1>0, <1>1, <1>3, <2>1, <2>4 DEF Announced
  <2>6. Place(t)'
    BY <1>0, <1>1, <1>3, <2>1, <2>4, <2>5 DEF Place
  <2>7. ProgramTypes'
    BY <1>0, <1>1, <1>2, <2>2, <2>4 DEF ReaderInv, ProgramTypes, Points
  <2> QED BY <1>3, <2>6, <2>7 DEF MainKept
<1>6. CASE Untouched(t, begin)
  <2>1. copyed[t] = 0 /\ next = begin
    BY <1>6 DEF Untouched
  <2>2. point' = [point EXCEPT ![t] = "header"] /\ UNCHANGED <<header, need>>
    BY <1>0, <2>1 DEF TakeHeader
  <2>3. Place(t)'
    BY <1>0, <1>1, <1>3, <2>1, <2>2 DEF Place
  <2>4. ProgramTypes'
    BY <1>0, <1>1, <2>2 DEF ReaderInv, ProgramTypes, Points
  <2> QED BY <1>3, <2>3, <2>4 DEF MainKept
<1> QED BY <1>4, <1>5, <1>6

(* The content is the rest of the record due, which so becomes logged.     *)
LEMMA TakeContentKeeps ==
  ASSUME ReaderInv, NEW t \in Readers, TakeContent(t)
  PROVE  MainKept(t)
<1> DEFINE new == [header |-> header[t], content |-> user_buf[t][0], size |-> need[t]]
<1>0. PICK n : n = Len(logged)
  OBVIOUS
<1>1. /\ Place(t) /\ point \in [Readers -> Points] /\ HeaderSize \in Nat \ {0}
      /\ n \in Nat /\ End(n) \in Nat /\ Len(records) \in Nat /\ n =< Len(records)
      /\ logged \in Seq([header : Int, content : Int, size : Int]) /\ Due = n + 1
      /\ need[t] \in Int /\ header[t] \in Int
  BY <1>0, DueFacts DEF ReaderInv, ProgramTypes, Due
<1>2. /\ UNCHANGED <<records, next, pc, header, need>> /\ pc[t] = "open"
      /\ point[t] = "content_read"
  BY DEF TakeContent, At
<1>3. Announced(t) /\ Complete(t, End(n) + HeaderSize, need[t])
  BY <1>0, <1>1, <1>2 DEF Place, Reading
<1>4. /\ n + 1 =< Len(records) /\ header[t] = End(n)
      /\ need[t] = records[n + 1].size - HeaderSize
      /\ copyed[t] = need[t] /\ user_buf[t][0] = End(n) + HeaderSize
      /\ next = End(n) + HeaderSize + need[t]
  BY <1>1, <1>0, <1>3 DEF Announced, Complete, HasRecord
<1>5. /\ records[n + 1].first = End(n) /\ records[n + 1].size \in Nat
      /\ End(n + 1) = End(n) + records[n + 1].size
  BY <1>0, <1>1, <1>4, DueFacts DEF HasRecord
<1>6. /\ point' = [point EXCEPT ![t] = "header"]
      /\ logged' = Append(logged, new)
  BY <1>4 DEF TakeContent
<1>7. new \in [header : Int, content : Int, size : Int]
  BY <1>1, <1>4
<1>8. new = [header |-> records[n + 1].first, content |-> records[n + 1].first + HeaderSize,
             size |-> records[n + 1].size - HeaderSize]
  BY <1>4, <1>5
<1> HIDE DEF new
<1>9. /\ logged' \in Seq([header : Int, content : Int, size : Int])
      /\ Len(logged') = n + 1 /\ logged'[n + 1] = new
      /\ \A i \in 1 .. n : logged'[i] = logged[i]
  BY <1>0, <1>1, <1>6, <1>7
<1>10. LogsRecords'
  <2>1. ASSUME NEW i \in 1 .. n + 1
        PROVE  logged'[i] = [header |-> records[i].first,
                             content |-> records[i].first + HeaderSize,
                             size |-> records[i].size - HeaderSize]
    <3>1. CASE i = n + 1
      BY <1>8, <1>9, <3>1
    <3>2. CASE i \in 1 .. n
      BY <1>0, <1>9, <3>2 DEF ReaderInv, LogsRecords
    <3>3. i = n + 1 \/ i \in 1 .. n
      BY <1>1
    <3> QED BY <3>1, <3>2, <3>3, Zenon
  <2> QED BY <1>2, <1>4, <1>9, <2>1 DEF LogsRecords
<1>11. End(Len(logged))' = End(n + 1)
  BY <1>2, <1>9 DEF End, EndOf
<1>12. Place(t)'
  <2>1. next = End(n + 1)
    BY <1>1, <1>4, <1>5
  <2> QED BY <1>1, <1>2, <1>6, <1>11, <2>1 DEF Place
<1>13. ProgramTypes'
  BY <1>1, <1>2, <1>6, <1>9 DEF ReaderInv, ProgramTypes, Points
<1> QED BY <1>10, <1>12, <1>13 DEF MainKept

-----------------------------------------------------------------------------
LEMMA ReaderInit == RInit => ReaderInv
<1> SUFFICES ASSUME RInit PROVE ReaderInv OBVIOUS
<1>1. OrderInv
  BY OrderInit DEF RInit
<1>2. ProgramTypes
  BY DEF RInit, ProgramTypes, Points, NoByte
<1>3. Len(records) = 0 /\ Len(logged) = 0 /\ accepted = 0 /\ next = 0
  BY DEF RInit, Init
<1>4. Tiled
  BY <1>3 DEF RInit, Tiled, End, EndOf
<1>5. WritesRecords
  BY DEF RInit, Init, WritesRecords, Tasks
<1>6. LogsRecords
  BY <1>3 DEF LogsRecords
<1>7. ASSUME NEW t \in Readers PROVE Place(t)
  <2>1. point[t] = "stopped" /\ pc[t] = "closed"
    BY TasksAssumption DEF RInit, Init, Tasks
  <2> QED BY <1>3, <2>1 DEF Place, Closing, End, EndOf
<1> QED BY <1>1, <1>2, <1>4, <1>5, <1>6, <1>7 DEF ReaderInv

LEMMA ReaderNext ==
  ASSUME Undisturbed, ReaderInv, [RNext]_rvars
  PROVE  ReaderInv'
<1>1. OrderInv'
  BY OrderKeeps
<1>2. CASE UNCHANGED rvars
  <2>1. \A t \in Readers : Place(t)'
    BY <1>2 DEF ReaderInv, Place, Reading, Announced, Complete, Untouched, HasRecord, Due,
       End, EndOf
  <2>2. ProgramTypes' /\ Tiled' /\ WritesRecords' /\ LogsRecords'
    BY <1>2 DEF ReaderInv, ProgramTypes, Tiled, WritesRecords, LogsRecords, End, EndOf
  <2> QED BY <1>1, <2>1, <2>2 DEF ReaderInv
<1>3. ASSUME NEW t \in Writers, Call(t) \/ Store(t) PROVE ReaderInv'
  BY <1>1, <1>3, WriterKeeps DEF ReaderInv
<1>4. ASSUME NEW t \in Readers, ProgramStep(t) PROVE ReaderInv'
  <2>1. ProgramTypes' /\ LogsRecords' /\ Place(t)'
    <3>1. ReaderCall(t) => MainKept(t)
      BY CallKeeps DEF MainKept
    <3>2. ProgramStep(t) => MainKept(t)
      BY <3>1, StartKeeps, AskKeeps, TakeHeaderKeeps, TakeContentKeeps
         DEF ProgramStep, Main
    <3> QED BY <1>4, <3>2 DEF MainKept
  <2>2. Tiled' /\ WritesRecords'
    BY <1>4, ReaderFrame
  <2>3. Readers = {t}
    BY DEF Undisturbed
  <2> QED BY <1>1, <2>1, <2>2, <2>3 DEF ReaderInv
<1> QED BY <1>2, <1>3, <1>4 DEF RNext, ProgramStep

(* The one sys_reader of the device passes on the records loggers stored,  *)
(* in order, whole, and each with the content its header announces         *)
(* (ReadHeader and ReadContent in interface.cpp, the loop at main.cpp:40), *)
(* whatever the sizes of the records and of the ring, also when it is      *)
(* ended while it waits for a header and is started again.                 *)
THEOREM RecordsPassedOn ==
  ASSUME Undisturbed
  PROVE  RSpec => []LogsRecords
<1>1. RInit => ReaderInv BY ReaderInit
<1>2. ReaderInv /\ [RNext]_rvars => ReaderInv' BY ReaderNext
<1>3. ReaderInv => LogsRecords BY DEF ReaderInv
<1> QED BY <1>1, <1>2, <1>3, PTL DEF RSpec
=============================================================================
