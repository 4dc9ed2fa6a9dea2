----------------------------- MODULE ProcessTable -----------------------------
(***************************************************************************)
(* driver/process.c: what the driver knows of every process.  A record is  *)
(* found by pid in process_cache and, to be released, on a list from       *)
(* outstanding_header.  Every hooked call begins with notify_enter, which  *)
(* builds the record of a process at its first call, again after execve,   *)
(* and again when the pid has gone to another process; execve announces    *)
(* itself with notify_execve.                                              *)
(*                                                                         *)
(* A pid is acted upon by the process that has it, so what it does to its  *)
(* own record is one step.  process_cache is read and written under        *)
(* proc_sem, one access at a time; the list is shared without it, and each *)
(* access to its head is a step.  prev is written and never read: it is    *)
(* left out.  Definitions named Bug... are mistakes the properties must    *)
(* catch.                                                                  *)
(***************************************************************************)
EXTENDS Naturals, FiniteSets

CONSTANTS
  Pids,
  Records,        (* names of process_record structures                     *)
  Null,
  Changing,       (* the pids whose process opens files, calls execve, or   *)
                  (* ends and leaves the pid to another one                 *)
  MaxStarts,      (* bound on the processes that have one pid in turn       *)
  MaxImages       (* bound on the programs one process executes             *)

ASSUME ProcessAssumption ==
  /\ IsFiniteSet(Records)
  /\ Null \notin Records
  /\ Changing \subseteq Pids
  /\ MaxStarts \in Nat /\ MaxImages \in Nat

VARIABLES
  loaded,         (* whether the module is there                            *)
  process_cache,
  outstanding_header,
  record,         (* the fields of each record                              *)
  heap,           (* the records allocated                                  *)
  pc,             (* where the process of each pid is                       *)
  mine,           (* the local variable record of notify_enter              *)
  started,        (* start time of the process that has the pid now         *)
  image,          (* the program it executes                                *)
  overlapped,     (* history: records linked while another one was          *)
  twice           (* history: records whose descriptors were freed twice    *)

table == <<process_cache, outstanding_header>>
world == <<started, image>>
vars  == <<loaded, table, record, heap, pc, mine, world, overlapped, twice>>

(* files: file_fd_head is NULL, leads to descriptors, or to freed memory.  *)
Blank == [next |-> Null, start_time |-> 0, filename |-> 0, before_execve |-> FALSE,
          files |-> "none"]

Init ==
  /\ loaded = FALSE
  /\ process_cache = [p \in Pids |-> Null]
  /\ outstanding_header = Null
  /\ record = [r \in Records |-> Blank]
  /\ heap = {}
  /\ pc = [p \in Pids |-> "user"]
  /\ mine = [p \in Pids |-> Null]
  /\ started = [p \in Pids |-> 1]
  /\ image = [p \in Pids |-> 1]
  /\ overlapped = {}
  /\ twice = {}

Goto(p, from, to) ==
  /\ pc[p] = from
  /\ pc' = [pc EXCEPT ![p] = to]

-----------------------------------------------------------------------------
(* Building records.                                                       *)

(* fd_cache_cleanup: file_fd_head keeps its value. *)
FilesFreed(r) == [r EXCEPT !.files = IF @ = "none" THEN "none" ELSE "freed"]

(* What build_process_record writes; fd_cache_initize comes last. *)
Built(p, r) ==
  [r EXCEPT !.start_time = started[p], !.filename = image[p], !.before_execve = FALSE,
            !.files = "none"]

(* Between the test of the head of the list and its update. *)
Linking(p) == pc[p] \in {"link", "head"}

-----------------------------------------------------------------------------
(* notify_enter.                                                           *)

(* The record is there and describes the caller. *)
EnterKnown(p) ==
  LET r == process_cache[p]
  IN  /\ loaded /\ r # Null
      /\ Goto(p, "user", "body")
      /\ record[r].start_time = started[p] /\ ~record[r].before_execve
      /\ UNCHANGED <<loaded, table, record, heap, mine, world, overlapped, twice>>

(* The flag is looked at, the program is not read again. *)
BugEnterExecuted(p) ==
  LET r == process_cache[p]
  IN  /\ loaded /\ r # Null
      /\ Goto(p, "user", "body")
      /\ record[r].start_time = started[p] /\ record[r].before_execve
      /\ record' = [record EXCEPT ![r].before_execve = FALSE]
      /\ UNCHANGED <<loaded, table, heap, mine, world, overlapped, twice>>

(* The record is cleaned first, as for a reused pid. *)
BugEnterExecutedCleans(p) ==
  LET r == process_cache[p]
      cleaned == FilesFreed(record[r])
  IN  /\ loaded /\ r # Null
      /\ Goto(p, "user", "body")
      /\ record[r].start_time = started[p] /\ record[r].before_execve
      /\ twice' = IF cleaned.files = "freed" THEN twice \cup {r} ELSE twice
      /\ record' = [record EXCEPT ![r] = Built(p, FilesFreed(cleaned))]
      /\ UNCHANGED <<loaded, table, heap, mine, world, overlapped>>

(* The caller has called execve: update_process_record, in which           *)
(* build_process_record releases the descriptors. *)
EnterExecuted(p) ==
  LET r == process_cache[p]
  IN  /\ loaded /\ r # Null
      /\ Goto(p, "user", "body")
      /\ record[r].start_time = started[p] /\ record[r].before_execve
      /\ twice' = IF record[r].files = "freed" THEN twice \cup {r} ELSE twice
      /\ record' = [record EXCEPT ![r] = Built(p, FilesFreed(@))]
      /\ UNCHANGED <<loaded, table, heap, mine, world, overlapped>>

(* The record is of a process that had the pid before:                     *)
(* cleanup_process_record, then build_process_record, which releases the   *)
(* descriptors a second time. *)
EnterReused(p) ==
  LET r == process_cache[p]
      cleaned == FilesFreed(record[r])
  IN  /\ loaded /\ r # Null
      /\ Goto(p, "user", "body")
      /\ record[r].start_time # started[p]
      /\ twice' = IF cleaned.files = "freed" THEN twice \cup {r} ELSE twice
      /\ record' = [record EXCEPT ![r] = Built(p, FilesFreed(cleaned))]
      /\ UNCHANGED <<loaded, table, heap, mine, world, overlapped>>

(* There is none: build_process_record(NULL) up to its look at the head of *)
(* the list. *)
EnterFirst(p) ==
  /\ loaded /\ process_cache[p] = Null
  /\ \E r \in Records \ heap :
       /\ heap' = heap \cup {r}
       /\ mine' = [mine EXCEPT ![p] = r]
       /\ record' = [record EXCEPT ![r] = Built(p, Blank)]
       /\ overlapped' = IF \E q \in Pids : Linking(q)
                        THEN overlapped \cup {r} \cup {mine[q] : q \in {q \in Pids : Linking(q)}}
                        ELSE overlapped
  /\ Goto(p, "user", IF outstanding_header = Null THEN "head" ELSE "link")
  /\ UNCHANGED <<loaded, table, world, twice>>

(* The result of kmalloc not looked at. *)
BugEnterWithoutMemory(p) ==
  /\ loaded /\ process_cache[p] = Null
  /\ Goto(p, "user", "head")
  /\ UNCHANGED <<loaded, table, record, heap, mine, world, overlapped, twice>>

(* kmalloc fails: the call goes on without a record. *)
EnterWithoutMemory(p) ==
  /\ loaded /\ process_cache[p] = Null
  /\ Goto(p, "user", "body")
  /\ UNCHANGED <<loaded, table, record, heap, mine, world, overlapped, twice>>

(* The head is set before the next of the record is. *)
BugLinkNext(p) ==
  /\ Goto(p, "link", "head")
  /\ outstanding_header' = mine[p]
  /\ record' = [record EXCEPT ![mine[p]].next = mine[p]]
  /\ UNCHANGED <<loaded, process_cache, heap, mine, world, overlapped, twice>>

(* record->next = outstanding_header, where the list was not empty; *)
LinkNext(p) ==
  /\ Goto(p, "link", "head")
  /\ record' = [record EXCEPT ![mine[p]].next = outstanding_header]
  /\ UNCHANGED <<loaded, table, heap, mine, world, overlapped, twice>>

(* The head of the list without the record. *)
BugLinkHead(p) ==
  /\ Goto(p, "head", "publish")
  /\ outstanding_header' = IF outstanding_header = Null THEN mine[p] ELSE outstanding_header
  /\ UNCHANGED <<loaded, process_cache, record, heap, mine, world, overlapped, twice>>

(* outstanding_header = record. *)
LinkHead(p) ==
  /\ Goto(p, "head", "publish")
  /\ outstanding_header' = mine[p]
  /\ UNCHANGED <<loaded, process_cache, record, heap, mine, world, overlapped, twice>>

Publish(p) ==
  /\ Goto(p, "publish", "body")
  /\ process_cache' = [process_cache EXCEPT ![p] = mine[p]]
  /\ mine' = [mine EXCEPT ![p] = Null]
  /\ UNCHANGED <<loaded, outstanding_header, record, heap, world, overlapped, twice>>

-----------------------------------------------------------------------------
(* The rest of a hooked call.                                              *)

(* insert_into_cache, or delete_cache_by_fd of the last descriptor. *)
FilesChange(p) ==
  LET r == process_cache[p]
  IN  /\ pc[p] = "body" /\ r # Null
      /\ \E files \in {"none", "some"} : record' = [record EXCEPT ![r].files = files]
      /\ UNCHANGED <<loaded, table, heap, pc, mine, world, overlapped, twice>>

(* notify_execve in the fake of execve, *)
NotifyExecve(p) ==
  LET r == process_cache[p]
  IN  /\ Goto(p, "body", "execve")
      /\ record' = IF r = Null THEN record ELSE [record EXCEPT ![r].before_execve = TRUE]
      /\ UNCHANGED <<loaded, table, heap, mine, world, overlapped, twice>>

(* and the original execve, which fails or starts another program. *)
Execve(p) ==
  /\ Goto(p, "execve", "user")
  /\ \E n \in {image[p], image[p] + 1} \cap 1 .. MaxImages : image' = [image EXCEPT ![p] = n]
  /\ UNCHANGED <<loaded, table, record, heap, mine, started, overlapped, twice>>

Return(p) ==
  /\ Goto(p, "body", "user")
  /\ UNCHANGED <<loaded, table, record, heap, mine, world, overlapped, twice>>

(* The process ends, and another one gets its pid.  notify_exit and        *)
(* notify_create do nothing. *)
NextProcess(p) ==
  /\ pc[p] = "user"
  /\ started[p] < MaxStarts
  /\ started' = [started EXCEPT ![p] = @ + 1]
  /\ image' = [image EXCEPT ![p] = 1]
  /\ UNCHANGED <<loaded, table, record, heap, pc, mine, overlapped, twice>>

-----------------------------------------------------------------------------
(* Loading and unloading.  No process is between trace_dog_enter and       *)
(* trace_dog_leave (ModuleLife).                                           *)

(* process_monitor_init. *)
Load ==
  /\ ~loaded /\ loaded' = TRUE
  /\ process_cache' = [p \in Pids |-> Null]
  /\ outstanding_header' = Null
  /\ UNCHANGED <<record, heap, pc, mine, world, overlapped, twice>>

(* The n-th record of the list, Null past its end. *)
Nth ==
  LET nth[n \in 0 .. Cardinality(Records)] ==
        IF n = 0 THEN outstanding_header
        ELSE IF nth[n - 1] = Null THEN Null ELSE record[nth[n - 1]].next
  IN  nth
Listed == {r \in Records : \E n \in DOMAIN Nth : Nth[n] = r}

(* process_monitor_cleanup.  Nothing leads to a record it does not meet:   *)
(* the fields of all are blanked. *)
Unload ==
  /\ loaded /\ loaded' = FALSE
  /\ \A p \in Pids : pc[p] \in {"user", "execve"}
  /\ twice' = twice \cup {r \in Listed : record[r].files = "freed"}
  /\ heap' = heap \ Listed
  /\ record' = [r \in Records |-> Blank]
  /\ process_cache' = [p \in Pids |-> Null]
  /\ outstanding_header' = Null
  /\ UNCHANGED <<pc, mine, world, overlapped>>

Enter(p) ==
  \/ EnterKnown(p) \/ EnterExecuted(p) \/ EnterReused(p)
  \/ EnterFirst(p) \/ EnterWithoutMemory(p)
  \/ LinkNext(p) \/ LinkHead(p) \/ Publish(p)

Next ==
  \/ \E p \in Pids : Enter(p) \/ Return(p)
  \/ \E p \in Changing : FilesChange(p) \/ NotifyExecve(p) \/ Execve(p) \/ NextProcess(p)
  \/ Load \/ Unload

Spec == Init /\ [][Next]_vars

-----------------------------------------------------------------------------
(* Properties.                                                             *)

(* Every variable has its type; a process that links or publishes has a    *)
(* record in hand, also when memory runs out (process.c:307, 433). *)
TypeOK ==
  /\ loaded \in BOOLEAN
  /\ process_cache \in [Pids -> Records \cup {Null}]
  /\ outstanding_header \in Records \cup {Null}
  /\ record \in [Records ->
       [next : Records \cup {Null}, start_time : Nat, filename : Nat,
        before_execve : BOOLEAN, files : {"none", "some", "freed"}]]
  /\ heap \subseteq Records
  /\ pc \in [Pids -> {"user", "link", "head", "publish", "body", "execve"}]
  /\ mine \in [Pids -> Records \cup {Null}]
  /\ \A p \in Pids : mine[p] = Null <=> pc[p] \in {"user", "body", "execve"}
  /\ started \in [Pids -> Nat]
  /\ image \in [Pids -> Nat]
  /\ overlapped \subseteq Records
  /\ twice \subseteq Records

(* The walk of process_monitor_cleanup ends, meets only memory that was    *)
(* not released, and no record twice: although the list is changed without *)
(* proc_sem, links get lost and never go wrong (process.c:327-343).        *)
WalkEnds ==
  /\ Listed \subseteq heap
  /\ Nth[Cardinality(Records)] = Null
  /\ \A m, n \in DOMAIN Nth : m # n /\ Nth[m] = Nth[n] => Nth[m] = Null

(* process.c:113 "complete cleanup process cache": after unloading no      *)
(* record stays allocated, but for first calls of two processes that       *)
(* touched the list at the same time (process.c:340, 342).                 *)
OnlyOverlappedStay == ~loaded => heap \subseteq overlapped

(* In a hooked call the record of the caller describes the caller: the     *)
(* process that has the pid now, in the program it executes now, whatever  *)
(* had the pid before it and however many programs it executed; and no two *)
(* processes share a record (process.c:393-424, 458).                      *)
CallerKnown ==
  /\ \A p \in Pids :
       LET r == process_cache[p]
       IN  pc[p] = "body" /\ r # Null =>
             record[r].start_time = started[p] /\ record[r].filename = image[p]
  /\ \A p, q \in Pids :
       p # q /\ process_cache[p] = process_cache[q] => process_cache[p] = Null

(* Neither execve nor unloading releases the descriptors of a process a    *)
(* second time; only the next user of its pid does (process.c:348, 416).   *)
FreedTwiceByReuse ==
  [][\A r \in twice' \ twice :
       \E p \in Pids : process_cache[p] = r /\ record[r].start_time # started[p]]_vars
=============================================================================
