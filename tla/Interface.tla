------------------------------ MODULE Interface ------------------------------
(***************************************************************************)
(* driver/interface.c: the character device /dev/sys_monitor and the ring  *)
(* buffer behind it.  Tasks inside a hooked system call (Writers) append   *)
(* log records with write_to_interface; processes that opened the device   *)
(* (Readers) take bytes out with interface_read.  Every entry point but    *)
(* the readiness test works between down_interruptible(&sem) and up(&sem). *)
(*                                                                         *)
(* A byte is modelled by its position in the stream of all bytes the ring  *)
(* ever accepted, so that a lost, repeated or overwritten byte shows.      *)
(* A step ends where the code has decided something from shared state: if  *)
(* the semaphore failed to exclude another task, the decision would be     *)
(* stale when it is acted upon.                                            *)
(*                                                                         *)
(* A definition named Bug... is not part of the specification: it is the   *)
(* definition after it with a plausible mistake in it, which TLC must      *)
(* tell from the correct one.                                              *)
(***************************************************************************)
EXTENDS Integers

CONSTANTS
  Writers,        (* tasks that log: pids of monitored processes            *)
  Readers,        (* processes that open the device                         *)
  NoPid,          (* the 0 of owner_pid                                     *)
  BufSize,        (* cycle_buffer_size                                      *)
  RecordSizes,    (* the full_size values log_item_to_storage produces      *)
  ReadCounts,     (* the byte counts processes pass to read()               *)
  Interruptible,  (* the calls whose wait for sem a signal may cut short    *)
  CopyFaults,     (* whether copy_to_user may stop before the end           *)
  MaxAccepted     (* bound on the length of the accepted stream             *)

Calls == {"write", "open", "read", "release"}

ASSUME TasksAssumption ==
  /\ Writers \cap Readers = {}
  /\ NoPid \notin Writers \cup Readers
ASSUME SizesAssumption ==
  /\ BufSize \in Nat \ {0}
  /\ RecordSizes \subseteq Nat \ {0}
  /\ ReadCounts \subseteq Nat
  /\ MaxAccepted \in Nat
ASSUME EnvironmentAssumption ==
  /\ Interruptible \subseteq Calls
  /\ CopyFaults \in BOOLEAN

Tasks == Writers \cup Readers
Cells == 0 .. BufSize - 1
EINTR == -4       (* what a read cut short by a signal returns              *)
NoByte == -1      (* what a cell holds before anything is copied into it    *)

VARIABLES
  sem,            (* count of the semaphore                                 *)
  owner_pid,      (* process the device belongs to, or NoPid                *)
  device_ready,   (* whether loggers should write                           *)
  cycle_buffer,   (* the ring                                               *)
  read_ptr,       (* offset of the oldest unread byte                       *)
  write_ptr,      (* offset the next byte goes to                           *)
  pc,             (* where each task is                                     *)
  want,           (* a writer's buffer_size; a reader's count, then min     *)
  first_size,     (* a reader's first_size                                  *)
  copyed,         (* a reader's copyed, then the result of its read         *)
  user_buf,       (* the buffer a reader passed to read()                   *)
  accepted,       (* history: length of the stream the ring accepted        *)
  next            (* history: position after the last byte handed out       *)

device  == <<owner_pid, device_ready>>
locals  == <<want, first_size, copyed, user_buf>>
history == <<accepted, next>>
ring    == <<cycle_buffer, read_ptr, write_ptr>>
vars    == <<sem, device, ring, pc, locals, history>>

Init ==
  /\ sem = 1
  /\ owner_pid = NoPid
  /\ device_ready = FALSE
  /\ cycle_buffer = [i \in Cells |-> NoByte]
  /\ read_ptr = 0
  /\ write_ptr = 0
  /\ pc = [t \in Tasks |-> IF t \in Writers THEN "idle" ELSE "closed"]
  /\ want = [t \in Tasks |-> 0]
  /\ first_size = [t \in Readers |-> 0]
  /\ copyed = [t \in Readers |-> 0]
  /\ user_buf = [t \in Readers |-> [i \in Cells |-> NoByte]]
  /\ accepted = 0
  /\ next = 0

-----------------------------------------------------------------------------
(* The semaphore and the two helpers of the ring.                          *)

Goto(t, from, to) ==
  /\ pc[t] = from
  /\ pc' = [pc EXCEPT ![t] = to]

(* down_interruptible that gets the semaphore. *)
Down(t, from, to) ==
  /\ Goto(t, from, to)
  /\ sem > 0
  /\ sem' = sem - 1
  /\ UNCHANGED <<device, ring, locals, history>>

(* down_interruptible returns an error only to a task that had to wait. *)
Signalled(t, call, from, to) ==
  /\ Goto(t, from, to)
  /\ call \in Interruptible
  /\ sem = 0
  /\ UNCHANGED <<device, ring, want, first_size, user_buf, history>>

Up(t, from, to) ==
  /\ Goto(t, from, to)
  /\ sem' = sem + 1
  /\ UNCHANGED <<device, ring, locals, history>>

UsedSize ==
  IF read_ptr = write_ptr THEN 0
  ELSE IF read_ptr > write_ptr THEN BufSize - (read_ptr - write_ptr)
  ELSE write_ptr - read_ptr

(* Distance from start to cell i, going up and around the end. *)
Offset(start, i) == IF i >= start THEN i - start ELSE i + BufSize - start

(* Without "buffer += first_size". *)
BugCopyToBuffer(start, size) ==
  [i \in Cells |-> IF Offset(start, i) < size
                   THEN accepted + (IF i >= start THEN i - start ELSE i)
                   ELSE cycle_buffer[i]]

(* copy_to_buffer: the ring with size new bytes from start on ... *)
CopyToBuffer(start, size) ==
  [i \in Cells |-> IF Offset(start, i) < size
                   THEN accepted + Offset(start, i)
                   ELSE cycle_buffer[i]]

(* With > where the code has >=. *)
BugAdvance(start, size) ==
  IF start + size > BufSize THEN start + size - BufSize ELSE start + size

(* ... and the position after the last of them, which it returns. *)
Advance(start, size) ==
  IF start + size >= BufSize THEN start + size - BufSize ELSE start + size

-----------------------------------------------------------------------------
(* write_to_interface                                                      *)

(* The readiness test is made before the semaphore is taken. *)
WriteBegin(t) ==
  /\ Goto(t, "idle", "w_down")
  /\ device_ready
  /\ \E size \in RecordSizes :
       /\ accepted + size =< MaxAccepted
       /\ want' = [want EXCEPT ![t] = size]
  /\ UNCHANGED <<sem, device, ring, first_size, copyed, user_buf, history>>

WriteDown(t) == Down(t, "w_down", "w_check")

(* The cleanup label of interface_read, here. *)
BugWriteSignalled(t) ==
  /\ Signalled(t, "write", "w_down", "idle")
  /\ sem' = sem + 1
  /\ UNCHANGED copyed

(* The record is given up. *)
WriteSignalled(t) ==
  /\ Signalled(t, "write", "w_down", "idle")
  /\ UNCHANGED <<sem, copyed>>

(* With >= where the code has >. *)
BugWriteCheck(t) ==
  /\ Goto(t, "w_check", IF BufSize - UsedSize >= want[t] THEN "w_copy" ELSE "w_up")
  /\ UNCHANGED <<sem, device, ring, locals, history>>

(* A return in place of the else branch. *)
BugWriteDrop(t) ==
  /\ Goto(t, "w_check", IF BufSize - UsedSize > want[t] THEN "w_copy" ELSE "idle")
  /\ UNCHANGED <<sem, device, ring, locals, history>>

(* A record that would fill the ring to the last byte is dropped too. *)
WriteCheck(t) ==
  /\ Goto(t, "w_check", IF BufSize - UsedSize > want[t] THEN "w_copy" ELSE "w_up")
  /\ UNCHANGED <<sem, device, ring, locals, history>>

WriteCopy(t) ==
  /\ Goto(t, "w_copy", "w_up")
  /\ cycle_buffer' = CopyToBuffer(write_ptr, want[t])
  /\ write_ptr' = Advance(write_ptr, want[t])
  /\ accepted' = accepted + want[t]
  /\ UNCHANGED <<sem, device, read_ptr, locals, next>>

WriteUp(t) == Up(t, "w_up", "idle")

-----------------------------------------------------------------------------
(* interface_open.  The error it computes is not what it returns: the      *)
(* function ends in "return 0", so the file is open on every path.         *)

OpenBegin(t) ==
  /\ Goto(t, "closed", "o_down")
  /\ UNCHANGED <<sem, device, ring, locals, history>>

OpenDown(t) == Down(t, "o_down", "o_check")

OpenSignalled(t) ==
  /\ Signalled(t, "open", "o_down", "open")
  /\ UNCHANGED <<sem, copyed>>

(* Without the test of owner_pid. *)
BugOpenCheck(t) ==
  /\ \E write_mode \in BOOLEAN :
       Goto(t, "o_check", IF write_mode THEN "o_up" ELSE "o_take")
  /\ UNCHANGED <<sem, device, ring, locals, history>>

(* FMODE_WRITE in f_mode, or an owner already there: no ownership. *)
OpenCheck(t) ==
  /\ \E write_mode \in BOOLEAN :
       Goto(t, "o_check", IF owner_pid # NoPid \/ write_mode THEN "o_up" ELSE "o_take")
  /\ UNCHANGED <<sem, device, ring, locals, history>>

OpenTake(t) ==
  /\ Goto(t, "o_take", "o_up")
  /\ owner_pid' = t
  /\ device_ready' = TRUE
  /\ UNCHANGED <<sem, ring, locals, history>>

OpenUp(t) == Up(t, "o_up", "open")

-----------------------------------------------------------------------------
(* interface_read                                                          *)

ReadBegin(t, count) ==
  /\ Goto(t, "open", "r_down")
  /\ want' = [want EXCEPT ![t] = count]
  /\ copyed' = [copyed EXCEPT ![t] = 0]
  /\ user_buf' = [user_buf EXCEPT ![t] = [i \in Cells |-> NoByte]]
  /\ UNCHANGED <<sem, device, ring, first_size, history>>

ReadDown(t) == Down(t, "r_down", "r_plan")

(* The failed down_interruptible jumps to the label that calls up(). *)
ReadSignalled(t) ==
  /\ Signalled(t, "read", "r_down", "open")
  /\ copyed' = [copyed EXCEPT ![t] = EINTR]
  /\ sem' = sem + 1

ReadPlan(t) ==
  LET min   == IF want[t] > UsedSize THEN UsedSize ELSE want[t]
      first == BufSize - read_ptr
  IN  /\ Goto(t, "r_plan",
              IF read_ptr = write_ptr THEN "r_up"
              ELSE IF read_ptr > write_ptr /\ first =< min THEN "r_first"
              ELSE "r_rest")
      /\ want' = [want EXCEPT ![t] = min]
      /\ first_size' = [first_size EXCEPT ![t] = first]
      /\ UNCHANGED <<sem, device, ring, copyed, user_buf, history>>

(* copy_to_user of the len bytes at read_ptr leaves out the last left.     *)
Left(len) == IF CopyFaults THEN 0 .. len ELSE {0}

CopyToUser(t, len) ==
  /\ user_buf' = [user_buf EXCEPT ![t] =
       [i \in Cells |-> IF i \in copyed[t] .. copyed[t] + len - 1
                        THEN cycle_buffer[read_ptr + i - copyed[t]]
                        ELSE user_buf[t][i]]]
  /\ copyed' = [copyed EXCEPT ![t] = copyed[t] + len]
  /\ next' = IF len > 0 THEN cycle_buffer[read_ptr + len - 1] + 1 ELSE next

(* Without "min -= copyed". *)
BugReadFirst(t) ==
  /\ pc[t] = "r_first"
  /\ \E left \in Left(first_size[t]) :
       /\ CopyToUser(t, first_size[t] - left)
       /\ IF left = 0
          THEN /\ Goto(t, "r_first", "r_rest")
               /\ read_ptr' = 0
               /\ want' = want
          ELSE /\ Goto(t, "r_first", "r_up")
               /\ UNCHANGED <<read_ptr, want>>
  /\ UNCHANGED <<sem, device, cycle_buffer, write_ptr, first_size, accepted>>

(* The part up to the end of the ring.  When the copy stops short,         *)
(* read_ptr stays although bytes were handed out.                          *)
ReadFirst(t) ==
  /\ pc[t] = "r_first"
  /\ \E left \in Left(first_size[t]) :
       /\ CopyToUser(t, first_size[t] - left)
       /\ IF left = 0
          THEN /\ Goto(t, "r_first", "r_rest")
               /\ read_ptr' = 0
               /\ want' = [want EXCEPT ![t] = want[t] - first_size[t]]
          ELSE /\ Goto(t, "r_first", "r_up")
               /\ UNCHANGED <<read_ptr, want>>
  /\ UNCHANGED <<sem, device, cycle_buffer, write_ptr, first_size, accepted>>

(* read_ptr moves by min, whatever was left. *)
BugReadRest(t) ==
  /\ Goto(t, "r_rest", "r_up")
  /\ \E left \in Left(want[t]) :
       /\ CopyToUser(t, want[t] - left)
       /\ read_ptr' = read_ptr + want[t]
  /\ UNCHANGED <<sem, device, cycle_buffer, write_ptr, want, first_size, accepted>>

(* The part from the start of the ring, or the whole of an unbroken read. *)
ReadRest(t) ==
  /\ Goto(t, "r_rest", "r_up")
  /\ \E left \in Left(want[t]) :
       /\ CopyToUser(t, want[t] - left)
       /\ read_ptr' = read_ptr + want[t] - left
  /\ UNCHANGED <<sem, device, cycle_buffer, write_ptr, want, first_size, accepted>>

ReadUp(t) == Up(t, "r_up", "open")

-----------------------------------------------------------------------------
(* interface_release, at the last close of the file or at exit.  The       *)
(* kernel ignores its result: the file is gone on every path.              *)

CloseBegin(t) ==
  /\ Goto(t, "open", "c_down")
  /\ UNCHANGED <<sem, device, ring, locals, history>>

CloseDown(t) == Down(t, "c_down", "c_check")

CloseSignalled(t) ==
  /\ Signalled(t, "release", "c_down", "closed")
  /\ UNCHANGED <<sem, copyed>>

CloseCheck(t) ==
  /\ Goto(t, "c_check", IF owner_pid = t THEN "c_clear" ELSE "c_up")
  /\ UNCHANGED <<sem, device, ring, locals, history>>

(* Only device_ready is reset. *)
BugCloseClear(t) ==
  /\ Goto(t, "c_clear", "c_up")
  /\ device_ready' = FALSE
  /\ UNCHANGED <<sem, owner_pid, ring, locals, history>>

CloseClear(t) ==
  /\ Goto(t, "c_clear", "c_up")
  /\ owner_pid' = NoPid
  /\ device_ready' = FALSE
  /\ UNCHANGED <<sem, ring, locals, history>>

CloseUp(t) == Up(t, "c_up", "closed")

-----------------------------------------------------------------------------
WriterStep(t) ==
  \/ WriteBegin(t) \/ WriteDown(t) \/ WriteSignalled(t)
  \/ WriteCheck(t) \/ WriteCopy(t) \/ WriteUp(t)

OpenCloseStep(t) ==
  \/ OpenBegin(t) \/ OpenDown(t) \/ OpenSignalled(t)
  \/ OpenCheck(t) \/ OpenTake(t) \/ OpenUp(t)
  \/ CloseBegin(t) \/ CloseDown(t) \/ CloseSignalled(t)
  \/ CloseCheck(t) \/ CloseClear(t) \/ CloseUp(t)

ReadStep(t) ==
  \/ \E count \in ReadCounts : ReadBegin(t, count)
  \/ ReadDown(t) \/ ReadSignalled(t) \/ ReadPlan(t)
  \/ ReadFirst(t) \/ ReadRest(t) \/ ReadUp(t)

Next ==
  \/ \E t \in Writers : WriterStep(t)
  \/ \E t \in Readers : OpenCloseStep(t) \/ ReadStep(t)

Spec == Init /\ [][Next]_vars

(* A task that runs inside one of the calls is scheduled again; waiters of *)
(* a kernel semaphore are served in order, so each gets it in the end.     *)
(* Nothing makes a process begin a call.                                   *)
Fairness ==
  /\ \A t \in Writers :
       /\ SF_vars(WriteDown(t))
       /\ WF_vars(WriteCheck(t) \/ WriteCopy(t) \/ WriteUp(t))
  /\ \A t \in Readers :
       /\ SF_vars(OpenDown(t) \/ ReadDown(t) \/ CloseDown(t))
       /\ WF_vars(OpenCheck(t) \/ OpenTake(t) \/ OpenUp(t))
       /\ WF_vars(CloseCheck(t) \/ CloseClear(t) \/ CloseUp(t))
       /\ WF_vars(ReadPlan(t) \/ ReadFirst(t) \/ ReadRest(t) \/ ReadUp(t))

FairSpec == Spec /\ Fairness

-----------------------------------------------------------------------------
(* Properties                                                              *)

CriticalSection ==
  {"w_check", "w_copy", "w_up", "o_check", "o_take", "o_up",
   "c_check", "c_clear", "c_up",
   "r_plan", "r_first", "r_rest", "r_up"}

Labels == CriticalSection \cup
  {"idle", "w_down", "closed", "o_down", "open", "r_down", "c_down"}

InCS(t) == pc[t] \in CriticalSection

(* Every variable has its type; the pointers stay inside the ring.         *)
TypeOK ==
  /\ sem \in Nat
  /\ owner_pid \in Readers \cup {NoPid}
  /\ device_ready \in BOOLEAN
  /\ cycle_buffer \in [Cells -> Int]
  /\ read_ptr \in Cells
  /\ write_ptr \in Cells
  /\ pc \in [Tasks -> Labels]
  /\ want \in [Tasks -> Nat]
  /\ first_size \in [Readers -> Nat]
  /\ copyed \in [Readers -> Nat \cup {EINTR}]
  /\ user_buf \in [Readers -> [Cells -> Int]]
  /\ accepted \in Nat
  /\ next \in Int

(* The semaphore of interface.c admits one task at a time to the code      *)
(* between down_interruptible and up, on all the error paths together.     *)
MutualExclusion ==
  \A t, u \in Tasks : InCS(t) /\ InCS(u) => t = u

(* The unread part of the ring is the end of the accepted stream, whole    *)
(* and in order: copy_to_buffer never overwrites a byte nobody has read,   *)
(* and neither pointer runs past the other, around the end or not.         *)
RingHoldsStream ==
  \A i \in 0 .. UsedSize - 1 :
    cycle_buffer[Advance(read_ptr, i)] = accepted - UsedSize + i

(* interface.c:113 "we will never let our buffer be full": the bytes       *)
(* accepted and not yet handed out never take the whole ring.              *)
NeverFull == accepted - next < BufSize

(* What interface_read puts into a user buffer continues the stream where  *)
(* the read before it, in whatever process, left off.  A copy that stops   *)
(* short may make bytes come again; nothing makes one disappear.           *)
HandsOutInOrder ==
  [][\A t \in Readers : \A i \in copyed[t] .. copyed'[t] - 1 :
       LET from == user_buf'[t][copyed[t]]
       IN  /\ user_buf'[t][i] = from + i - copyed[t]
           /\ IF CopyFaults THEN from =< next ELSE from = next]_vars

(* The device implements the bounded FIFO of module Pipe: the records      *)
(* enter whole, the bytes leave in order and exactly once, unless a fault  *)
(* of the reader's buffer makes them come again.                           *)
AbstractPipe == INSTANCE Pipe WITH
  head <- accepted - UsedSize, tail <- accepted,
  Capacity <- BufSize, MayRepeat <- CopyFaults
ImplementsPipe == AbstractPipe!Spec

(* The processes that hold the device open, as the kernel sees it.         *)
HasDevice(t) == pc[t] \notin {"closed", "o_down", "o_check", "o_take"}

(* interface.c:280 "clean up owner process and prepare for next open":     *)
(* the device belongs to nobody once its owner has closed it.              *)
OwnerHasDevice == owner_pid # NoPid => HasDevice(owner_pid)

(* A process that owns the device owns it until it closes it: whatever    *)
(* other processes open and close meanwhile, nobody takes the device from  *)
(* it and loggers keep writing for it.                                     *)
OwnerKeepsDevice ==
  [][owner_pid # NoPid /\ pc[owner_pid] # "c_clear"
       => owner_pid' = owner_pid /\ device_ready' = device_ready]_vars

(* Every call that begins comes back: no path through write_to_interface,  *)
(* open, read or release keeps the semaphore.                              *)
CallsReturn ==
  \A t \in Tasks : pc[t] \notin {"idle", "open", "closed"}
                       ~> pc[t] \in {"idle", "open", "closed"}
=============================================================================
