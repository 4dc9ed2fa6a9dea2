------------------------------- MODULE SysCalls -------------------------------
(***************************************************************************)
(* The fake system calls (driver/sys_calls) of a program with several      *)
(* threads: what they do to the descriptor caches and which path they log, *)
(* while the threads share one table of open files.  The driver keeps a    *)
(* process record, and with it a descriptor cache, for every thread:       *)
(* current->pid names a thread.                                            *)
(*                                                                         *)
(* The caches are what FdMap promises (FdCache implements it), the records *)
(* what ProcessTable shows: notify_enter renews the record, and empties    *)
(* the cache, after execve and when the pid has been given to another      *)
(* thread.  The kernel's side is external.  Descriptors are also opened,   *)
(* closed and replaced by calls that are not hooked (dup2, pipe, socket).  *)
(* Definitions named Bug... are mistakes the properties must catch.        *)
(***************************************************************************)
EXTENDS PathBag, FiniteSets

CONSTANTS
  Threads,
  Leader,         (* the thread whose pid is the one of the process         *)
  Fds,
  Errors,         (* results below -1 of a call that failed                 *)
  NoFd,           (* the result -1                                          *)
  NoPath,
  Unhooked,       (* whether calls that are not hooked change descriptors   *)
  MaxRecords      (* bound on the records in a cache                        *)

ASSUME SysCallsAssumption ==
  /\ Leader \in Threads
  /\ NoPath \notin Paths
  /\ NoFd \notin Fds \cup Errors /\ Fds \cap Errors = {}
  /\ Unhooked \in BOOLEAN
  /\ MaxRecords \in Nat

Keys == Fds \cup Errors

VARIABLES
  files,          (* the open file of each descriptor                       *)
  alive,          (* the threads there are                                  *)
  pc,             (* where each one is in a fake call                       *)
  arg,            (* its descriptor: argument, or result of open            *)
  path,           (* its path: the name given to open, or the path logged   *)
  cache,          (* the descriptor cache of each thread                    *)
  renew,          (* its record is of another program or thread             *)
  foreign         (* history: <<t, fd>> when fd was changed by another than *)
                  (* t while t had a record of it or a call on it           *)

thread == <<alive, pc, arg, path>>
vars   == <<files, thread, cache, renew, foreign>>

Empty == [k \in Keys |-> NoRecords]

Init ==
  /\ files \in [Fds -> Paths \cup {NoPath}]
  /\ alive = {Leader}
  /\ pc = [t \in Threads |-> "user"]
  /\ arg = [t \in Threads |-> NoFd]
  /\ path = [t \in Threads |-> NoPath]
  /\ cache = [t \in Threads |-> Empty]
  /\ renew = [t \in Threads |-> FALSE]
  /\ foreign = {}

(* The bound. *)
Small(bags) ==
  Cardinality({x \in Keys \X Paths \X (1 .. MaxRecords + 1) : x[3] <= bags[x[1]][x[2]]})
    <= MaxRecords

(* Thread t goes on, with a descriptor and a path in hand. *)
Goto(t, from, to, fd, p) ==
  /\ t \in alive
  /\ pc[t] = from
  /\ pc' = [pc EXCEPT ![t] = to]
  /\ arg' = [arg EXCEPT ![t] = fd]
  /\ path' = [path EXCEPT ![t] = p]
  /\ UNCHANGED alive

(* The history: the pairs that matter to a thread. *)
Touch(pairs) ==
  foreign' = {x \in foreign \cup pairs :
                \/ Recorded(cache'[x[1]][x[2]]) # {}
                \/ pc'[x[1]] # "user" /\ arg'[x[1]] = x[2]}

-----------------------------------------------------------------------------
(* notify_enter, in every fake call: the cache of t after it.              *)
Entered(t) == IF renew[t] THEN Empty ELSE cache[t]

(* get_cache_by_fd: a record if there is one; otherwise the kernel is      *)
(* asked, and its answer recorded. *)
Answers(bags, fd) == IF Recorded(bags[fd]) # {} THEN Recorded(bags[fd]) ELSE {files[fd]}
LookedUp(bags, fd) ==
  IF Recorded(bags[fd]) # {} \/ files[fd] = NoPath
  THEN bags
  ELSE [bags EXCEPT ![fd] = With(@, files[fd])]

SetCache(t, bags) ==
  /\ Small(bags)
  /\ cache' = [cache EXCEPT ![t] = bags]
  /\ renew' = [renew EXCEPT ![t] = FALSE]

-----------------------------------------------------------------------------
(* fake_sys_open and fake_sys_creat.                                       *)

OpenEnter(t, name) ==
  /\ Goto(t, "user", "open", NoFd, name)
  /\ SetCache(t, Entered(t))
  /\ UNCHANGED files
  /\ Touch({})

(* The original: a free descriptor, or an error. *)
OpenOriginal(t, file) ==
  \/ \E fd \in Fds :
       /\ files[fd] = NoPath
       /\ files' = [files EXCEPT ![fd] = file]
       /\ Goto(t, "open", "opened", fd, path[t])
       /\ UNCHANGED <<cache, renew>>
       /\ Touch({<<u, fd>> : u \in alive \ {t}})
  \/ \E e \in Errors \cup {NoFd} :
       /\ Goto(t, "open", "opened", e, path[t])
       /\ UNCHANGED <<files, cache, renew>>
       /\ Touch({})

(* The name the caller gave. *)
BugFullName(t) == path[t]

(* get_absolute_path_by_fd, or else the name the caller gave. *)
FullName(t) ==
  IF arg[t] \in Fds /\ files[arg[t]] # NoPath THEN files[arg[t]] ELSE path[t]

(* insert_into_cache unless the result is -1; then the event is logged. *)
OpenRecord(t) ==
  /\ pc[t] = "opened"
  /\ Goto(t, "opened", "user", NoFd, NoPath)
  /\ SetCache(t, IF arg[t] = NoFd THEN cache[t]
                 ELSE [cache[t] EXCEPT ![arg[t]] = With(@, FullName(t))])
  /\ UNCHANGED files
  /\ Touch({})

-----------------------------------------------------------------------------
(* fake_sys_read, fake_sys_write, fake_sys_ioctl, fake_sys_close: the path *)
(* is looked up before the original call, and logged after it.             *)
ByFd(t, to, fd) ==
  /\ \E p \in Answers(Entered(t), fd) : Goto(t, "user", to, fd, p)
  /\ SetCache(t, LookedUp(Entered(t), fd))
  /\ UNCHANGED files
  /\ Touch({})

(* read, write and ioctl: the original, and end_log_system_call. *)
IoOriginal(t) ==
  /\ Goto(t, "io", "user", NoFd, NoPath)
  /\ UNCHANGED <<files, cache, renew>>
  /\ Touch({})

(* close frees the descriptor, and may still report an error of the file;  *)
(* it also fails for one that is not open. *)
CloseOriginal(t) ==
  LET fd == arg[t]
  IN  /\ pc[t] = "close"
      /\ \E to \in IF files[fd] = NoPath THEN {"user"} ELSE {"closed", "user"} :
           Goto(t, "close", to, IF to = "user" THEN NoFd ELSE fd, NoPath)
      /\ files' = [files EXCEPT ![fd] = NoPath]
      /\ UNCHANGED <<cache, renew>>
      /\ Touch({<<u, fd>> : u \in IF files[fd] = NoPath THEN {}
                                  ELSE IF pc'[t] = "user" THEN alive ELSE alive \ {t}})

(* The record deleted without a look at whether there is one. *)
BugCloseDelete(t) ==
  LET fd == arg[t]
  IN  /\ Goto(t, "closed", "user", NoFd, NoPath)
      /\ \E p \in Paths : SetCache(t, [cache[t] EXCEPT ![fd] = Without(@, p)])
      /\ UNCHANGED files
      /\ Touch({})

(* After a close without error: delete_cache_by_fd, which takes one        *)
(* record.  If there is none the warning looks the descriptor up, which    *)
(* another thread may have opened by now. *)
CloseDelete(t) ==
  LET fd == arg[t]
      known == Recorded(cache[t][fd])
  IN  /\ pc[t] = "closed"
      /\ Goto(t, "closed", "user", NoFd, NoPath)
      /\ \/ \E p \in known : SetCache(t, [cache[t] EXCEPT ![fd] = Without(@, p)])
         \/ known = {} /\ SetCache(t, LookedUp(cache[t], fd))
      /\ UNCHANGED files
      /\ Touch({})

-----------------------------------------------------------------------------
(* fake_sys_exec.                                                          *)

(* The program is not announced. *)
BugExecEnter(t) ==
  /\ Goto(t, "user", "exec", NoFd, NoPath)
  /\ SetCache(t, Entered(t))
  /\ UNCHANGED files
  /\ Touch({})

(* notify_execve and the log; the original comes after trace_dog_leave. *)
ExecEnter(t) ==
  /\ Goto(t, "user", "exec", NoFd, NoPath)
  /\ cache' = [cache EXCEPT ![t] = Entered(t)]
  /\ renew' = [renew EXCEPT ![t] = TRUE]
  /\ UNCHANGED files
  /\ Touch({})

ExecFails(t) ==
  /\ Goto(t, "exec", "user", NoFd, NoPath)
  /\ UNCHANGED <<files, cache, renew>>
  /\ Touch({})

(* The other threads end, and t goes on under the pid of the leader: with  *)
(* the leader's record, which nobody announced the new program to if t is  *)
(* not the leader.  Some descriptors close. *)
ExecSucceeds(t) ==
  /\ t \in alive /\ pc[t] = "exec"
  /\ \A u \in alive \ {t} : pc[u] = "user"
  /\ alive' = {Leader}
  /\ pc' = [pc EXCEPT ![t] = "user"]
  /\ UNCHANGED <<arg, path, cache, renew>>
  /\ \E closed \in SUBSET Fds :
       /\ files' = [fd \in Fds |-> IF fd \in closed THEN NoPath ELSE files[fd]]
       /\ Touch(IF t = Leader THEN {} ELSE {Leader} \X closed)

-----------------------------------------------------------------------------
(* The other calls, which leave the caches alone but for notify_enter.     *)

(* fake_sys_fork, fake_sys_vfork, and fake_sys_clone for a process. *)
Fork(t) ==
  /\ Goto(t, "user", "user", NoFd, NoPath)
  /\ SetCache(t, Entered(t))
  /\ UNCHANGED files
  /\ Touch({})

(* fake_sys_clone for a thread, which may get a pid that was used before.  *)
(* Its record is then of a thread that started earlier. *)
Clone(t, u) ==
  /\ t \in alive /\ pc[t] = "user"
  /\ u \notin alive
  /\ alive' = alive \cup {u}
  /\ cache' = [cache EXCEPT ![t] = Entered(t)]
  /\ renew' = [renew EXCEPT ![t] = FALSE, ![u] = TRUE]
  /\ UNCHANGED <<files, pc, arg, path>>
  /\ Touch({})

(* fake_sys_exit of a thread that is not the last. *)
Exit(t) ==
  /\ t \in alive \ {Leader} /\ pc[t] = "user"
  /\ alive' = alive \ {t}
  /\ SetCache(t, Entered(t))
  /\ UNCHANGED <<files, pc, arg, path>>
  /\ Touch({})

(* A call that is not hooked. *)
Replace(fd, file) ==
  /\ Unhooked
  /\ files' = [files EXCEPT ![fd] = file]
  /\ UNCHANGED <<thread, cache, renew>>
  /\ Touch(IF file = files[fd] THEN {} ELSE alive \X {fd})

Next ==
  \/ \E t \in Threads :
       \/ \E p \in Paths : OpenEnter(t, p) \/ OpenOriginal(t, p)
       \/ OpenRecord(t)
       \/ \E fd \in Fds : ByFd(t, "io", fd) \/ ByFd(t, "close", fd)
       \/ IoOriginal(t) \/ CloseOriginal(t) \/ CloseDelete(t)
       \/ ExecEnter(t) \/ ExecFails(t) \/ ExecSucceeds(t)
       \/ Fork(t) \/ Exit(t)
       \/ \E u \in Threads : Clone(t, u)
  \/ \E fd \in Fds, file \in Paths \cup {NoPath} : Replace(fd, file)

Spec == Init /\ [][Next]_vars

-----------------------------------------------------------------------------
(* Properties.                                                             *)

(* Every variable has its type: no record is deleted that is not there     *)
(* (close.c:51), and a thread with a descriptor in hand is in a call.      *)
TypeOK ==
  /\ files \in [Fds -> Paths \cup {NoPath}]
  /\ Leader \in alive /\ alive \subseteq Threads
  /\ pc \in [Threads -> {"user", "open", "opened", "io", "close", "closed", "exec"}]
  /\ arg \in [Threads -> Keys \cup {NoFd}]
  /\ \A t \in Threads : arg[t] # NoFd => pc[t] \in {"opened", "io", "close", "closed"}
  /\ path \in [Threads -> Paths \cup {NoPath}]
  /\ cache \in [Threads -> [Keys -> [Paths -> Nat]]]
  /\ renew \in [Threads -> BOOLEAN]
  /\ foreign \subseteq Threads \X Keys

(* The cache of a thread tells the truth: a descriptor has at most one     *)
(* record, and it is the path of the file that is open there - unless the  *)
(* descriptor was changed by another thread, by a call that is not hooked  *)
(* or by a close that reported an error, while the thread had a record of  *)
(* it.  The records of a program that execve replaced do not count: they   *)
(* go before they are used (open.c:83-95, close.c:48-51, exec.c:59).       *)
CacheTrue ==
  \A t \in alive, fd \in Fds :
    LET bag == cache[t][fd]
    IN  ~renew[t] /\ <<t, fd>> \notin foreign /\ ~(pc[t] = "closed" /\ arg[t] = fd) =>
          \A p \in Recorded(bag) : p = files[fd] /\ bag[p] = 1

(* A read, write, ioctl or close is logged with the path of the file it    *)
(* really worked on, under the same condition (log.c:368, read.c:34-46,    *)
(* close.c:35-46).                                                         *)
LogTrue ==
  [][\A t \in Threads :
       LET fd == arg[t]
       IN  pc[t] \in {"io", "close"} /\ pc'[t] # pc[t] /\ <<t, fd>> \notin foreign =>
             path[t] = files[fd]]_vars
=============================================================================
