----------------------------- MODULE ModuleLife -----------------------------
(***************************************************************************)
(* The life of the kernel module: sys_monitor_init and sys_monitor_exit of *)
(* driver/main.c, the reference count of driver/trace_dog.c and the        *)
(* bracket trace_dog_enter / trace_dog_leave of every hooked system call   *)
(* in driver/sys_calls.  The question is whether the module's memory can   *)
(* go away under a task that still runs in it.                             *)
(*                                                                         *)
(* A task is inside the module from its dispatch through sys_call_table    *)
(* until it has returned from the fake call; what it does between enter    *)
(* and leave is one step, "body": the log and the original call, but for   *)
(* exit and execve, which run the original after leave, uncounted.  The    *)
(* kernel refuses to unload the module while the device is open.           *)
(* Definitions named Bug... are mistakes the properties must catch.        *)
(***************************************************************************)
EXTENDS Integers, Sequences, FiniteSets

CONSTANTS
  Tasks,          (* tasks that make system calls                           *)
  Called,         (* the hooked calls they make                             *)
  Interruptible,  (* the waits for trace_dog_sem a signal may cut short     *)
  MayFail,        (* the steps of the initialisation that may fail          *)
  PromptEntry,    (* whether a task that was dispatched before the hooks    *)
                  (* were gone reaches its count before the count is read   *)
  PromptExecve,   (* whether the kernel's part of an execve is over within  *)
                  (* the 500 ms that follow the last count                  *)
  MaxDrift        (* bound on how far signals take the count off the truth  *)

(* The order of sys_monitor_init; interface_init makes the four last.      *)
Parts == <<"log", "chrdev", "process", "class", "device", "cdev", "buffer">>
PartSet == {Parts[i] : i \in 1 .. Len(Parts)}

HookOrder ==
  <<"open", "creat", "read", "write", "close", "ioctl",
    "fork", "vfork", "clone", "exit", "execve">>
UnhookOrder ==
  <<"execve", "exit", "fork", "vfork", "clone", "ioctl",
    "close", "write", "read", "creat", "open">>
Apis == {HookOrder[i] : i \in 1 .. Len(HookOrder)}

ASSUME LifeAssumption ==
  /\ IsFiniteSet(Tasks)
  /\ Called \subseteq Apis
  /\ Interruptible \subseteq {"enter", "leave", "wait"}
  /\ MayFail \subseteq PartSet \cup {"table"}
  /\ PromptEntry \in BOOLEAN /\ PromptExecve \in BOOLEAN
  /\ MaxDrift \in Nat

(* The calls that leave the trace dog before they run the original, which  *)
(* is not expected to return: exit's never does, execve's when it fails.   *)
LeavesFirst == {"exit", "execve"}

(* class_create and device_create report a failure by an error pointer,    *)
(* which the tests for NULL do not see.                                    *)
Unchecked == {"class", "device"}
Checked   == PartSet \ Unchecked

(* Without the labels of interface_init. *)
BugUndo(part) ==
  CASE part \in {"log", "chrdev"} -> <<>>
    [] part = "process" -> <<"chrdev", "log">>
    [] OTHER            -> <<"process", "chrdev", "log">>

(* What the goto labels of main.c and interface_init release, in order,    *)
(* when the initialisation of a part fails and the failure is seen.        *)
Undo(part) ==
  LET main == <<"process", "chrdev", "log">>
  IN  CASE part = "log"     -> <<>>
        [] part = "chrdev"  -> <<"log">>
        [] part = "process" -> <<"chrdev", "log">>
        [] part = "cdev"    -> <<"device", "class">> \o main
        [] part = "buffer"  -> <<"cdev", "device", "class">> \o main

(* interface_cleanup, then the rest of sys_monitor_exit. *)
ExitOrder == <<"buffer", "cdev", "device", "class", "process", "chrdev", "log">>

VARIABLES
  loader,         (* where insmod or rmmod is                               *)
  todo,           (* the parts or hooks it still has to deal with           *)
  up,             (* the parts that are there                               *)
  hooked,         (* the calls whose entry of sys_call_table is the fake's  *)
  trace_dog_sem,  (* count of the semaphore                                 *)
  g_ref_count,
  ref_table,
  cut,            (* history: the waits a signal cut short since insmod     *)
  seen,           (* ref_count of wait_for_unload                           *)
  pc,             (* where each task is                                     *)
  api             (* the call a task is in                                  *)

count == <<g_ref_count, ref_table>>
dog   == <<count, cut>>
tasks == <<pc, api>>
vars  == <<loader, todo, up, hooked, trace_dog_sem, dog, seen, tasks>>

Init ==
  /\ loader = "gone"
  /\ todo = <<>>
  /\ up = {}
  /\ hooked = {}
  /\ trace_dog_sem = 1
  /\ g_ref_count = 0
  /\ ref_table = [a \in Apis |-> 0]
  /\ cut = {}
  /\ seen = 0
  /\ pc = [t \in Tasks |-> "user"]
  /\ api = [t \in Tasks |-> "open"]

-----------------------------------------------------------------------------
(* insmod.                                                                 *)

(* A task that has still to run code of the module: not one in the kernel's *)
(* part of an exit, which does not come back. *)
InModule(t) == pc[t] # "user" /\ ~(pc[t] = "original" /\ api[t] = "exit")

(* Fresh memory, and the search for sys_call_table. *)
Load ==
  /\ loader = "gone"
  /\ \A t \in Tasks : ~InModule(t)
  /\ \/ loader' = "init" /\ todo' = Parts
     \/ "table" \in MayFail /\ UNCHANGED <<loader, todo>>
  /\ g_ref_count' = 0
  /\ ref_table' = [a \in Apis |-> 0]
  /\ cut' = {}
  /\ seen' = 0
  /\ UNCHANGED <<up, hooked, trace_dog_sem, tasks>>

InitPart ==
  /\ loader = "init"
  /\ todo # <<>> /\ (Head(todo) = "device" => "class" \in up)
  /\ up' = up \cup {Head(todo)}
  /\ todo' = Tail(todo)
  /\ UNCHANGED <<loader, hooked, trace_dog_sem, dog, seen, tasks>>

(* A failure of class_create or device_create, always of the latter when   *)
(* there is no class: the initialisation goes on.                          *)
FailsUnseen ==
  /\ loader = "init"
  /\ todo # <<>> /\ Head(todo) \in Unchecked
  /\ Head(todo) \in MayFail \/ (Head(todo) = "device" /\ "class" \notin up)
  /\ todo' = Tail(todo)
  /\ UNCHANGED <<loader, up, hooked, trace_dog_sem, dog, seen, tasks>>

(* A failure that goes on to hook the calls. *)
BugInitFails ==
  /\ loader = "init"
  /\ todo # <<>> /\ Head(todo) \in MayFail \cap Checked
  /\ todo' = Tail(todo)
  /\ UNCHANGED <<loader, up, hooked, trace_dog_sem, dog, seen, tasks>>

InitFails ==
  /\ loader = "init"
  /\ todo # <<>> /\ Head(todo) \in MayFail \cap Checked
  /\ loader' = "free"
  /\ todo' = Undo(Head(todo))
  /\ UNCHANGED <<up, hooked, trace_dog_sem, dog, seen, tasks>>

(* trace_dog_initize. *)
InitDog ==
  /\ loader = "init"
  /\ todo = <<>>
  /\ trace_dog_sem' = 1
  /\ loader' = "hook"
  /\ todo' = HookOrder
  /\ UNCHANGED <<up, hooked, dog, seen, tasks>>

Hook ==
  /\ loader = "hook"
  /\ hooked' = hooked \cup {Head(todo)}
  /\ todo' = Tail(todo)
  /\ loader' = IF Len(todo) = 1 THEN "loaded" ELSE "hook"
  /\ UNCHANGED <<up, trace_dog_sem, dog, seen, tasks>>

-----------------------------------------------------------------------------
(* rmmod: sys_monitor_exit.                                                *)

Unload ==
  /\ loader = "loaded"
  /\ loader' = "unhook"
  /\ todo' = UnhookOrder
  /\ UNCHANGED <<up, hooked, trace_dog_sem, dog, seen, tasks>>

Unhook ==
  /\ loader = "unhook"
  /\ hooked' = hooked \ {Head(todo)}
  /\ todo' = Tail(todo)
  /\ loader' = IF Len(todo) = 1 THEN "w_down" ELSE "unhook"
  /\ UNCHANGED <<up, trace_dog_sem, dog, seen, tasks>>

(* wait_for_unload.  Sleeping between two readings is not a step. *)
WaitDown ==
  /\ loader = "w_down"
  /\ PromptEntry => \A t \in Tasks : pc[t] \notin {"e_down", "e_count"}
  /\ trace_dog_sem > 0
  /\ trace_dog_sem' = trace_dog_sem - 1
  /\ loader' = "w_read"
  /\ UNCHANGED <<todo, up, hooked, dog, seen, tasks>>

WaitSignalled ==
  /\ loader = "w_down"
  /\ "wait" \in Interruptible
  /\ trace_dog_sem = 0
  /\ loader' = "grace"
  /\ cut' = cut \cup {"wait"}
  /\ UNCHANGED <<todo, up, hooked, trace_dog_sem, count, seen, tasks>>

WaitRead ==
  /\ loader = "w_read"
  /\ seen' = g_ref_count
  /\ trace_dog_sem' = trace_dog_sem + 1
  /\ loader' = "w_test"
  /\ UNCHANGED <<todo, up, hooked, dog, tasks>>

(* A test for "no more than one call" in place of "no call". *)
BugWaitTest ==
  /\ loader = "w_test"
  /\ loader' = IF seen > 1 THEN "w_down" ELSE "grace"
  /\ UNCHANGED <<todo, up, hooked, trace_dog_sem, dog, seen, tasks>>

WaitTest ==
  /\ loader = "w_test"
  /\ loader' = IF seen # 0 THEN "w_down" ELSE "grace"
  /\ UNCHANGED <<todo, up, hooked, trace_dog_sem, dog, seen, tasks>>

(* 500 ms are enough for everything a fake call does itself, but not for   *)
(* the original call, which may block; for that of an execve if            *)
(* PromptExecve says so.                                                   *)
Grace ==
  /\ loader = "grace"
  /\ \A t \in Tasks :
       /\ pc[t] \in {"user", "body", "original"}
       /\ PromptExecve => ~(pc[t] = "original" /\ api[t] = "execve")
  /\ loader' = "free"
  /\ todo' = ExitOrder
  /\ UNCHANGED <<up, hooked, trace_dog_sem, dog, seen, tasks>>

Free ==
  /\ loader = "free"
  /\ todo # <<>>
  /\ up' = up \ {Head(todo)}
  /\ todo' = Tail(todo)
  /\ UNCHANGED <<loader, hooked, trace_dog_sem, dog, seen, tasks>>

Gone ==
  /\ loader = "free"
  /\ todo = <<>>
  /\ loader' = "gone"
  /\ UNCHANGED <<todo, up, hooked, trace_dog_sem, dog, seen, tasks>>

-----------------------------------------------------------------------------
(* A hooked system call.                                                   *)

Goto(t, from, to) ==
  /\ pc[t] = from
  /\ pc' = [pc EXCEPT ![t] = to]

Call(t, a) ==
  /\ a \in hooked
  /\ Goto(t, "user", "e_down")
  /\ api' = [api EXCEPT ![t] = a]
  /\ UNCHANGED <<loader, todo, up, hooked, trace_dog_sem, dog, seen>>

DogDown(t, from, to) ==
  /\ Goto(t, from, to)
  /\ trace_dog_sem > 0
  /\ trace_dog_sem' = trace_dog_sem - 1
  /\ UNCHANGED <<loader, todo, up, hooked, dog, seen, api>>

(* A signal ends a wait; trace_dog_enter and leave then do nothing.        *)
DogSignalled(t, wait, from, to) ==
  /\ Goto(t, from, to)
  /\ wait \in Interruptible
  /\ trace_dog_sem = 0
  /\ \A a \in Apis : ref_table[a] \in -MaxDrift .. MaxDrift
  /\ cut' = cut \cup {wait}
  /\ UNCHANGED <<loader, todo, up, hooked, trace_dog_sem, count, seen, api>>

(* The return of trace_dog_leave that skips up(). *)
BugDogCount(t, from, to, n) ==
  /\ Goto(t, from, to)
  /\ ref_table' = [ref_table EXCEPT ![api[t]] = @ + n]
  /\ g_ref_count' = g_ref_count + n
  /\ trace_dog_sem' = IF n > 0 THEN trace_dog_sem + 1 ELSE trace_dog_sem
  /\ UNCHANGED <<loader, todo, up, hooked, cut, seen, api>>

(* Both counters change between down and up, which is part of the step.    *)
DogCount(t, from, to, n) ==
  /\ Goto(t, from, to)
  /\ ref_table' = [ref_table EXCEPT ![api[t]] = @ + n]
  /\ g_ref_count' = g_ref_count + n
  /\ trace_dog_sem' = trace_dog_sem + 1
  /\ UNCHANGED <<loader, todo, up, hooked, cut, seen, api>>

(* The result of down_interruptible not looked at. *)
BugEnterSignalled(t) == DogSignalled(t, "enter", "e_down", "e_count")

EnterDown(t)      == DogDown(t, "e_down", "e_count")
EnterSignalled(t) == DogSignalled(t, "enter", "e_down", "body")
EnterCount(t)     == DogCount(t, "e_count", "body", 1)

(* The log, and the original of every call that is not in LeavesFirst. *)
Body(t) ==
  /\ Goto(t, "body", "l_down")
  /\ UNCHANGED <<loader, todo, up, hooked, trace_dog_sem, dog, seen, api>>

AfterLeave(t) == IF api[t] \in LeavesFirst THEN "original" ELSE "out"

LeaveDown(t)      == DogDown(t, "l_down", "l_count")
LeaveSignalled(t) == DogSignalled(t, "leave", "l_down", AfterLeave(t))

(* trace_dog_leave that counts up too. *)
BugLeaveCount(t) == DogCount(t, "l_count", AfterLeave(t), 1)

LeaveCount(t) == DogCount(t, "l_count", AfterLeave(t), -1)

(* The original of an execve comes back if it fails; otherwise, and after  *)
(* an exit, the task runs another program or none.                         *)
Original(t) ==
  /\ \/ Goto(t, "original", "user")
     \/ api[t] = "execve" /\ Goto(t, "original", "out")
  /\ UNCHANGED <<loader, todo, up, hooked, trace_dog_sem, dog, seen, api>>

Return(t) ==
  /\ Goto(t, "out", "user")
  /\ UNCHANGED <<loader, todo, up, hooked, trace_dog_sem, dog, seen, api>>

-----------------------------------------------------------------------------
InCall(t) ==
  \/ EnterDown(t) \/ EnterSignalled(t) \/ EnterCount(t)
  \/ Body(t)
  \/ LeaveDown(t) \/ LeaveSignalled(t) \/ LeaveCount(t)
  \/ Original(t) \/ Return(t)

Loading   == Load \/ InitPart \/ FailsUnseen \/ InitFails \/ InitDog \/ Hook
Unloading ==
  \/ Unhook \/ WaitDown \/ WaitSignalled \/ WaitRead \/ WaitTest
  \/ Grace \/ Free \/ Gone

Next ==
  \/ Loading \/ Unload \/ Unloading
  \/ \E t \in Tasks : InCall(t) \/ \E a \in Called : Call(t, a)

Spec == Init /\ [][Next]_vars

(* rmmod runs on; the calls in progress return or end their task, so that  *)
(* their tasks run on too; a kernel semaphore serves its waiters in order. *)
Fairness ==
  /\ WF_vars(Unloading)
  /\ SF_vars(WaitDown)
  /\ \A t \in Tasks :
       /\ WF_vars(EnterCount(t) \/ Body(t) \/ LeaveCount(t) \/ Original(t) \/ Return(t))
       /\ SF_vars(EnterDown(t) \/ LeaveDown(t))

FairSpec == Spec /\ Fairness

-----------------------------------------------------------------------------
(* Properties                                                              *)

(* Every variable has its type; trace_dog_sem stays a mutex whatever       *)
(* signals do to the waits for it (trace_dog.c:38, 78, 94).                *)
TypeOK ==
  /\ loader \in {"gone", "init", "hook", "loaded", "unhook", "w_down", "w_read",
                 "w_test", "grace", "free"}
  /\ todo \in Seq(PartSet \cup Apis)
  /\ up \subseteq PartSet
  /\ hooked \subseteq Apis
  /\ trace_dog_sem \in {0, 1}
  /\ g_ref_count \in Int
  /\ ref_table \in [Apis -> Int]
  /\ cut \subseteq Interruptible
  /\ seen \in Int
  /\ pc \in [Tasks -> {"user", "e_down", "e_count", "body", "l_down", "l_count", "original", "out"}]
  /\ api \in [Tasks -> Apis]

(* trace_dog.c:69 "wait another 500ms, let api exit safely": when rmmod    *)
(* releases the memory of the module or one of the parts that a fake uses, *)
(* no task has still to run its code - unless a signal has cut short the   *)
(* wait of rmmod or of a trace_dog_enter.  One in trace_dog_leave does no  *)
(* harm here.  It rests on PromptEntry and PromptExecve, and fails without *)
(* either: an execve that has left the trace dog may fail after the 500 ms *)
(* and come back (exec.c:73, 78).                                          *)
UnloadSafe ==
  cut \subseteq {"leave"} =>
    \A t \in Tasks : InModule(t) => Checked \subseteq up /\ loader \notin {"free", "gone"}

(* trace_dog.c:75 and 91, "tell trace dog that we have enter (leave) an    *)
(* sys_call api": the counters count the tasks between the two, until a    *)
(* signal cuts one of their waits short.                                   *)
Counted(a) == {t \in Tasks : api[t] = a /\ pc[t] \in {"body", "l_down", "l_count"}}
RefCountsCalls ==
  cut \subseteq {"wait"} =>
    /\ \A a \in Apis : ref_table[a] = Cardinality(Counted(a))
    /\ g_ref_count = Cardinality(UNION {Counted(a) : a \in Apis})

(* A system call is hooked only while everything its fake uses is there,   *)
(* through loading, a failed load and unloading: all parts but the class   *)
(* and the device file, whose absence the initialisation does not notice.  *)
HooksHaveParts == hooked # {} => Checked \subseteq up

(* Whatever step of sys_monitor_init fails, and after sys_monitor_exit,    *)
(* nothing stays behind.                                                   *)
NothingLeft == loader = "gone" => up = {} /\ hooked = {}

(* rmmod comes to its end if the calls in progress return: neither the     *)
(* counting nor the semaphore keeps wait_for_unload in its loop, as long   *)
(* as no signal has made the count wrong.                                  *)
UnloadEnds == loader = "unhook" ~> (loader = "gone" \/ ~(cut \subseteq {"wait"}))
=============================================================================
