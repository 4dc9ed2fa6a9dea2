------------------------------ MODULE HookTable ------------------------------
(***************************************************************************)
(* sys_call_table while the module of ModuleLife is loaded and unloaded:   *)
(* the *_operation_init and *_operation_cleanup functions of               *)
(* driver/sys_calls.  An entry holds the address of the function that      *)
(* serves the call.  On ARM fork, vfork, clone and execve may be entered   *)
(* through a wrapper, a few instructions that end in a branch to the       *)
(* function; the driver then copies the wrapper and gives the copy a       *)
(* branch to its fake.                                                     *)
(*                                                                         *)
(* An instruction word is an opcode above an immediate; a branch at        *)
(* address x with immediate i goes to x + 8 + 4 * i, i taken as signed.    *)
(* Addresses and words wrap around at Word.  Definitions named Bug... are  *)
(* mistakes the properties must catch.                                     *)
(***************************************************************************)
EXTENDS ModuleLife

CONSTANTS
  Kernels,        (* sets of calls that have a wrapper in one kernel        *)
  ImmSize,        (* number of immediates of a branch, 2^24 on ARM          *)
  Opcodes,        (* number of opcodes, 2^8 on ARM                          *)
  Branch,         (* the opcode of a branch, 0xea on ARM                    *)
  KernelAt,       (* address of the kernel's function for each call         *)
  WrapperAt,      (* of the kernel's wrapper                                *)
  FakeAt,         (* of the driver's function                               *)
  CopyAt          (* of the space for a copy of the wrapper                 *)

Word == Opcodes * ImmSize
Wrappable == {"fork", "vfork", "clone", "execve"}
Nil == -1

ASSUME HookAssumption ==
  /\ \A k \in Kernels : k \subseteq Wrappable
  /\ ImmSize \in Nat \ {0} /\ Opcodes \in Nat \ {0} /\ Branch \in 0 .. Opcodes - 1
  /\ KernelAt \in [Apis -> 0 .. Word - 1] /\ FakeAt \in [Apis -> 0 .. Word - 1]
  /\ WrapperAt \in [Wrappable -> 0 .. Word - 1] /\ CopyAt \in [Wrappable -> 0 .. Word - 1]

VARIABLES
  wrapped,        (* the calls that have a wrapper in this kernel           *)
  sys_call_table,
  original,       (* original_sys_..., of each call                         *)
  wrapper,        (* original_sys_..._wrapper, Nil when its flag is unset   *)
  copy            (* the branch at the end of each copy                     *)

hook_vars == <<wrapped, sys_call_table, original, wrapper, copy>>
hvars     == <<vars, hook_vars>>

-----------------------------------------------------------------------------
(* Instructions.                                                           *)

(* How far past the start of a wrapper the branch at its end counts from:  *)
(* it is the third instruction of clone's wrapper and the second of the    *)
(* others.                                                                 *)
Ahead(a) == IF a = "clone" THEN 16 ELSE 12

(* The branch the kernel was built with. *)
KernelBranch(a) ==
  Branch * ImmSize + (((KernelAt[a] - WrapperAt[a] - Ahead(a)) \div 4) % ImmSize)

(* Where the wrapper at address x goes, when its branch is inst. *)
Target(a, x, inst) ==
  LET imm    == inst % ImmSize
      signed == IF 2 * imm < ImmSize THEN imm ELSE imm - ImmSize
  IN  IF inst \div ImmSize = Branch THEN (x + Ahead(a) + 4 * signed) % Word ELSE Nil

(* Counted from the branch and not from what the processor counts from. *)
BugBehind(a, x, inst) == (x + 4 * (inst % ImmSize) + Ahead(a) - 8) % Word

(* What the driver takes for the function behind a wrapper at x. *)
Behind(a, x, inst) == (x + 4 * (inst % ImmSize) + Ahead(a)) % Word

(* The distance of the two-word wrappers for clone too. *)
BugNewBranch(a) ==
  (Branch * ImmSize + (((FakeAt[a] - CopyAt[a] - 12) % Word) \div 4)) % Word

(* The branch it writes at the end of the copy. *)
NewBranch(a) ==
  (Branch * ImmSize + (((FakeAt[a] - CopyAt[a] - Ahead(a)) % Word) \div 4)) % Word

(* Where functions and wrappers may lie for the driver to find its way: a  *)
(* function after the wrapper or copy that branches to it and within half  *)
(* the reach of a branch, and no two things at one place (README, on       *)
(* fork.c:289). *)
Near(x, y, a) == \E i \in 0 .. ImmSize - 1 : 2 * i < ImmSize /\ y = x + Ahead(a) + 4 * i
Layout ==
  /\ \A a \in Wrappable : Near(WrapperAt[a], KernelAt[a], a) /\ Near(CopyAt[a], FakeAt[a], a)
  /\ \A a, b \in Apis : KernelAt[a] # FakeAt[b] /\ (FakeAt[a] = FakeAt[b] => a = b)
  /\ \A a \in Apis, b \in Wrappable :
       {KernelAt[a], FakeAt[a]} \cap {WrapperAt[b], CopyAt[b]} = {}
  /\ \A a, b \in Wrappable :
       /\ WrapperAt[a] # CopyAt[b]
       /\ WrapperAt[a] = WrapperAt[b] \/ CopyAt[a] = CopyAt[b] => a = b

-----------------------------------------------------------------------------
KernelEntry(a) == IF a \in wrapped THEN WrapperAt[a] ELSE KernelAt[a]

Fresh == [a \in Apis |-> Nil]

HInit ==
  /\ Init
  /\ wrapped \in Kernels
  /\ sys_call_table = [a \in Apis |-> KernelEntry(a)]
  /\ original = Fresh /\ wrapper = Fresh /\ copy = Fresh

(* Reads the entries of calls: the function, and the wrapper before it. *)
Recognise(calls) ==
  LET found == {a \in calls \cap wrapped : sys_call_table[a] = WrapperAt[a]}
  IN  /\ original' = [a \in Apis |->
           IF a \in found THEN Behind(a, WrapperAt[a], KernelBranch(a))
           ELSE IF a \in calls THEN sys_call_table[a] ELSE original[a]]
      /\ wrapper' = [a \in Apis |-> IF a \in found THEN WrapperAt[a] ELSE wrapper[a]]

(* Leads entry to the fake of a, by way of the copy if a has a wrapper. *)
Replace(a, entry, has_wrapper) ==
  IF has_wrapper
  THEN /\ copy' = [copy EXCEPT ![a] = NewBranch(a)]
       /\ sys_call_table' = [sys_call_table EXCEPT ![a] = CopyAt[a]]
  ELSE /\ sys_call_table' = [sys_call_table EXCEPT ![entry] = FakeAt[a]]
       /\ UNCHANGED copy

(* open_operation_init and those of read, write, close, ioctl and exit. *)
HookPlain(a) ==
  /\ original' = [original EXCEPT ![a] = sys_call_table[a]]
  /\ sys_call_table' = [sys_call_table EXCEPT ![a] = FakeAt[a]]
  /\ UNCHANGED <<wrapper, copy>>

(* fork_operation_init.  It reads all three entries before it writes one;  *)
(* a vfork without a wrapper goes into the entry of fork (fork.c:322).     *)
HookFork(a) ==
  IF a = "fork"
  THEN Recognise({"fork", "vfork", "clone"}) /\ Replace(a, a, wrapper'[a] # Nil)
  ELSE /\ Replace(a, IF a = "vfork" THEN "fork" ELSE a, wrapper[a] # Nil)
       /\ UNCHANGED <<original, wrapper>>

(* exec_operation_init. *)
HookExec(a) == Recognise({a}) /\ Replace(a, a, wrapper'[a] # Nil)

HookEntry ==
  /\ Hook
  /\ LET a == Head(todo)
     IN  CASE a \in {"fork", "vfork", "clone"} -> HookFork(a)
           [] a = "execve"                     -> HookExec(a)
           [] OTHER                            -> HookPlain(a)
  /\ UNCHANGED wrapped

(* The function behind a wrapper put back in place of the wrapper. *)
BugUnhookEntry ==
  /\ Unhook
  /\ LET a == Head(todo)
     IN  sys_call_table' = [sys_call_table EXCEPT ![a] = original[a]]
  /\ UNCHANGED <<wrapped, original, wrapper, copy>>

(* The cleanup functions of open, read, write, close, ioctl and exit. *)
UnhookPlain(a) ==
  sys_call_table' =
    [sys_call_table EXCEPT ![a] = IF original[a] # Nil THEN original[a] ELSE @]

(* fork_operation_cleanup and exec_operation_cleanup.  They look at the    *)
(* wrapper first; the entry of fork gets its own function back even when   *)
(* fork.c:322 wrote the one of vfork there.                                *)
UnhookWrapped(a) ==
  \/ /\ wrapper[a] # Nil
     /\ sys_call_table' = [sys_call_table EXCEPT ![a] = wrapper[a]]
  \/ wrapper[a] = Nil /\ UnhookPlain(a)

UnhookEntry ==
  /\ Unhook
  /\ LET a == Head(todo)
     IN  IF a \in Wrappable THEN UnhookWrapped(a) ELSE UnhookPlain(a)
  /\ UNCHANGED <<wrapped, original, wrapper, copy>>

(* The static variables of a module that was just loaded. *)
LoadFresh ==
  /\ Load
  /\ original' = Fresh /\ wrapper' = Fresh /\ copy' = Fresh
  /\ UNCHANGED <<wrapped, sys_call_table>>

Elsewhere ==
  /\ \/ InitPart \/ FailsUnseen \/ InitFails \/ InitDog \/ Unload
     \/ WaitDown \/ WaitSignalled \/ WaitRead \/ WaitTest \/ Grace \/ Free \/ Gone
     \/ \E t \in Tasks : InCall(t) \/ \E a \in Called : Call(t, a)
  /\ UNCHANGED hook_vars

HNext == LoadFresh \/ HookEntry \/ UnhookEntry \/ Elsewhere

HSpec == HInit /\ [][HNext]_hvars

(* Scheduling is as in module ModuleLife. *)
FairHSpec == HSpec /\ Fairness

-----------------------------------------------------------------------------
(* Properties.                                                             *)

(* Where a call that comes to address x gets to: through a wrapper of the  *)
(* kernel or a copy of one.                                                *)
Arrives(x) ==
  IF \E a \in wrapped : x = WrapperAt[a]
  THEN LET a == CHOOSE b \in wrapped : x = WrapperAt[b]
       IN  Target(a, x, KernelBranch(a))
  ELSE IF \E a \in Wrappable : x = CopyAt[a] /\ copy[a] # Nil
  THEN LET a == CHOOSE b \in Wrappable : x = CopyAt[b]
       IN  Target(a, x, copy[a])
  ELSE x

(* The function of the kernel that serves call a in the end. *)
ServedBy(a) ==
  LET x == Arrives(sys_call_table[a])
  IN  IF \E b \in Apis : x = FakeAt[b]
      THEN original[CHOOSE b \in Apis : x = FakeAt[b]]
      ELSE x

(* The calls that fork.c:322 mixes up in a kernel whose vfork has no       *)
(* wrapper: it writes the fake of vfork into the entry of fork.            *)
Mixed == IF "vfork" \in wrapped THEN {} ELSE {"fork", "vfork"}

(* Hooked, being hooked or unhooked: a call is served by the kernel's      *)
(* function for it, never by that of another call and never by a wrapper a *)
(* second time (fork.c:238, 284; exec.c:97, 109).  The exception is a fork *)
(* that is mixed up with vfork.                                            *)
ServedByOwn ==
  \A a \in Apis : a \notin Mixed \/ a = "vfork" => ServedBy(a) = KernelAt[a]

(* Once the module is loaded a call goes through the fake of that call,    *)
(* whether it has a wrapper or not; for fork and vfork only if vfork has   *)
(* one (fork.c:280, 304, 328; exec.c:105).                                 *)
AllMonitored ==
  loader = "loaded" => \A a \in Apis \ Mixed : Arrives(sys_call_table[a]) = FakeAt[a]

(* fork.c:280, 304, 328 "deal with fork", "deal with vfork", "deal with    *)
(* clone": once the module is loaded each of the three goes through its    *)
(* own fake, in every kernel.                                              *)
ForksDealtWith ==
  loader = "loaded" =>
    \A a \in {"fork", "vfork", "clone"} : Arrives(sys_call_table[a]) = FakeAt[a]

(* ModuleLife's set of hooked calls is what the table says, entry by       *)
(* entry, but for calls that are mixed up; and without hooks, so before    *)
(* the loading is complete and once the module has gone, the table is the  *)
(* kernel's in every entry, wrappers and mixed up calls included.          *)
HookedIsTable ==
  /\ hooked \ Mixed = {a \in Apis \ Mixed : sys_call_table[a] # KernelEntry(a)}
  /\ hooked = {} => \A a \in Apis : sys_call_table[a] = KernelEntry(a)
=============================================================================
