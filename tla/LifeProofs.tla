----------------------------- MODULE LifeProofs -----------------------------
(***************************************************************************)
(* Proofs about module ModuleLife, for any number of tasks, any set of     *)
(* hooked calls in use, failures and signals everywhere: the reference     *)
(* count is exact until a signal spoils it, nothing of the module is       *)
(* released under a call, and every end of loading and unloading leaves    *)
(* nothing behind.  And, in the second part, about module HookTable, for   *)
(* words of any size: whatever is hooked at the moment, every call gets to *)
(* its own function of the kernel once, the loaded module sees all calls,  *)
(* and the table is put back.                                              *)
(***************************************************************************)
EXTENDS HookTable, FiniteSetTheorems, SequenceTheorems, TLAPS

-----------------------------------------------------------------------------
(* The inductive invariant.                                                *)

(* trace_dog_sem is a mutex between the tasks that count and rmmod, which  *)
(* reads the count.                                                        *)
Holding(t) == pc[t] \in {"e_count", "l_count"}
SemIsMutex ==
  /\ trace_dog_sem = 1 <=> loader # "w_read" /\ \A t \in Tasks : ~Holding(t)
  /\ loader = "w_read" => \A t \in Tasks : ~Holding(t)
  /\ \A t, u \in Tasks : Holding(t) /\ Holding(u) => t = u

(* What is left of a sequence from its n-th element on. *)
Suffix(s, n) == SubSeq(s, n, Len(s))

(* Where insmod or rmmod is, and what is there and hooked at that point.   *)
Before(n) == {Parts[i] : i \in 1 .. n - 1}
InitPosition ==
  \E n \in 1 .. 8 : /\ todo = Suffix(Parts, n)
                    /\ Before(n) \cap Checked \subseteq up /\ up \subseteq Before(n)
HookPosition ==
  \E n \in 1 .. 11 : /\ todo = Suffix(HookOrder, n)
                     /\ hooked = {HookOrder[i] : i \in 1 .. n - 1}
UnhookPosition ==
  \E n \in 1 .. 11 : /\ todo = Suffix(UnhookOrder, n)
                     /\ hooked = {UnhookOrder[i] : i \in n .. 11}
FreePosition == up \subseteq {todo[i] : i \in 1 .. Len(todo)}

Complete == {"hook", "loaded", "unhook", "w_down", "w_read", "w_test", "grace"}
Positions ==
  /\ loader = "init" => InitPosition
  /\ loader = "hook" => HookPosition
  /\ loader = "loaded" => hooked = Apis
  /\ loader = "unhook" => UnhookPosition
  /\ loader = "free" => FreePosition
  /\ loader = "gone" => up = {}
  /\ loader \in Complete => Checked \subseteq up
  /\ loader \in {"hook", "loaded", "unhook"} \/ hooked = {}

(* The tasks whose call has been counted and not been counted down. *)
Inside == {t \in Tasks : pc[t] \in {"body", "l_down", "l_count"}}
NoneEnters == \A t \in Tasks : pc[t] \notin {"e_down", "e_count"}
AllOut == \A t \in Tasks : ~InModule(t)

(* A signal in trace_dog_leave makes the count too high, never too low. *)
CountsEnough == cut \subseteq {"leave"} => Cardinality(Inside) =< g_ref_count

(* What rmmod may rely on at each point of wait_for_unload and after it.   *)
Draining ==
  cut \subseteq {"leave"} =>
    /\ loader \in {"w_read", "w_test", "grace"} => NoneEnters
    /\ loader = "w_test" /\ seen = 0 => Inside = {}
    /\ loader = "grace" => Inside = {}
    /\ loader \in {"free", "gone"} => AllOut

(* insmod runs while no task is in the module. *)
LoadsAlone == loader = "init" => AllOut

(* Only an exit or an execve runs its original uncounted. *)
LeftFirst == \A t \in Tasks : pc[t] = "original" => api[t] \in LeavesFirst

(* What holds with and without PromptEntry and PromptExecve; Draining      *)
(* needs both. *)
LifeInv ==
  /\ TypeOK /\ SemIsMutex /\ Positions /\ LoadsAlone /\ LeftFirst
  /\ RefCountsCalls /\ CountsEnough

-----------------------------------------------------------------------------
(* The sequences of the module.                                            *)

LEMMA SuffixFacts ==
  ASSUME NEW S, NEW s \in Seq(S), NEW n \in 1 .. Len(s)
  PROVE  /\ Suffix(s, n) \in Seq(S)
         /\ Suffix(s, n) # <<>>
         /\ Head(Suffix(s, n)) = s[n]
         /\ Tail(Suffix(s, n)) = Suffix(s, n + 1)
         /\ Len(Suffix(s, n)) = Len(s) - n + 1
<1>1. /\ Suffix(s, n) \in Seq(S)
      /\ Len(Suffix(s, n)) = Len(s) - n + 1
      /\ \A i \in 1 .. Len(s) - n + 1 : Suffix(s, n)[i] = s[n + i - 1]
  BY DEF Suffix
<1>2. /\ Suffix(s, n + 1) \in Seq(S)
      /\ Len(Suffix(s, n + 1)) = Len(s) - n
      /\ \A i \in 1 .. Len(s) - n : Suffix(s, n + 1)[i] = s[n + i]
  BY DEF Suffix
<1>3. Suffix(s, n) # <<>> /\ Head(Suffix(s, n)) = s[n]
  BY <1>1
<1>4. /\ Tail(Suffix(s, n)) \in Seq(S)
      /\ Len(Tail(Suffix(s, n))) = Len(s) - n
      /\ \A i \in 1 .. Len(s) - n : Tail(Suffix(s, n))[i] = s[n + i]
  BY <1>1, <1>3
<1>5. Tail(Suffix(s, n)) = Suffix(s, n + 1)
  <2> DEFINE a == Tail(Suffix(s, n))
             b == Suffix(s, n + 1)
  <2>1. a \in Seq(S) /\ b \in Seq(S) /\ Len(a) = Len(b)
    BY <1>2, <1>4
  <2>2. \A i \in 1 .. Len(a) : a[i] = b[i]
    BY <1>2, <1>4
  <2> HIDE DEF a, b
  <2>3. a = b
    BY <2>1, <2>2, SeqEqual
  <2> QED BY <2>3 DEF a, b
<1> QED BY <1>1, <1>3, <1>5

LEMMA SuffixEnds ==
  ASSUME NEW S, NEW s \in Seq(S)
  PROVE  Suffix(s, Len(s) + 1) = <<>> /\ Suffix(s, 1) = s
BY SeqEqual DEF Suffix

(* The members of a sequence are its head and those of its tail. *)
LEMMA TailMembers ==
  ASSUME NEW S, NEW s \in Seq(S), s # <<>>
  PROVE  /\ Head(s) \in S
         /\ Tail(s) \in Seq(S)
         /\ {s[i] : i \in 1 .. Len(s)} \ {Head(s)} \subseteq {Tail(s)[i] : i \in 1 .. Len(Tail(s))}
<1>1. /\ Head(s) = s[1] /\ Head(s) \in S
      /\ Tail(s) \in Seq(S) /\ Len(Tail(s)) = Len(s) - 1
      /\ \A i \in 1 .. Len(s) - 1 : Tail(s)[i] = s[i + 1]
  OBVIOUS
<1>2. ASSUME NEW i \in 1 .. Len(s), s[i] # Head(s)
      PROVE  \E j \in 1 .. Len(Tail(s)) : s[i] = Tail(s)[j]
  <2>1. i - 1 \in 1 .. Len(Tail(s)) /\ Tail(s)[i - 1] = s[i]
    BY <1>1, <1>2
  <2> QED BY <2>1
<1>3. \A x \in {s[i] : i \in 1 .. Len(s)} : x # Head(s) => x \in {Tail(s)[i] : i \in 1 .. Len(Tail(s))}
  BY <1>2, Zenon
<1> QED BY <1>1, <1>3

LEMMA Lists ==
  /\ Parts \in Seq(PartSet) /\ Len(Parts) = 7
  /\ HookOrder \in Seq(Apis) /\ Len(HookOrder) = 11
  /\ UnhookOrder \in Seq(Apis) /\ Len(UnhookOrder) = 11
  /\ Apis = {HookOrder[i] : i \in 1 .. 11} /\ Apis = {UnhookOrder[i] : i \in 1 .. 11}
  /\ ExitOrder \in Seq(PartSet)
  /\ PartSet = {ExitOrder[i] : i \in 1 .. Len(ExitOrder)}
BY DEF Parts, PartSet, HookOrder, UnhookOrder, Apis, ExitOrder

(* Both kinds of lists are lists of what todo may hold. *)
LEMMA ListTypes ==
  ASSUME NEW s, s \in Seq(PartSet) \/ s \in Seq(Apis)
  PROVE  s \in Seq(PartSet \cup Apis)
OBVIOUS

(* The labels release what was there before the part that failed. *)
LEMMA UndoReleases ==
  ASSUME NEW n \in 1 .. 7, Parts[n] \in Checked
  PROVE  /\ Undo(Parts[n]) \in Seq(PartSet)
         /\ Before(n) \subseteq {Undo(Parts[n])[i] : i \in 1 .. Len(Undo(Parts[n]))}
<1>1. n = 1 \/ n = 2 \/ n = 3 \/ n = 6 \/ n = 7
  BY DEF Parts, Checked, Unchecked
<1>2. CASE n = 1
  BY <1>2 DEF Undo, PartSet, Parts, Before
<1>3. CASE n = 2
  BY <1>3 DEF Undo, PartSet, Parts, Before
<1>4. CASE n = 3
  BY <1>4 DEF Undo, PartSet, Parts, Before
<1>5. CASE n = 6
  BY <1>5 DEF Undo, PartSet, Parts, Before
<1>6. CASE n = 7
  BY <1>6 DEF Undo, PartSet, Parts, Before
<1> QED BY <1>1, <1>2, <1>3, <1>4, <1>5, <1>6

(* One part more, whether it is there or its failure was not seen. *)
LEMMA BeforeGrows ==
  ASSUME NEW n \in 1 .. 7
  PROVE  Before(n + 1) = Before(n) \cup {Parts[n]}
BY DEF Before

LEMMA PartsLeft ==
  /\ Suffix(Parts, 1) = Parts /\ Suffix(Parts, 8) = <<>>
  /\ \A n \in 1 .. 7 :
       /\ Suffix(Parts, n) # <<>>
       /\ Head(Suffix(Parts, n)) = Parts[n]
       /\ Tail(Suffix(Parts, n)) = Suffix(Parts, n + 1)
<1>1. Suffix(Parts, Len(Parts) + 1) = <<>> /\ Suffix(Parts, 1) = Parts
  BY Lists, SuffixEnds, Zenon
<1>2. ASSUME NEW n \in 1 .. 7
      PROVE  /\ Suffix(Parts, n) # <<>>
             /\ Head(Suffix(Parts, n)) = Parts[n]
             /\ Tail(Suffix(Parts, n)) = Suffix(Parts, n + 1)
  <2>1. n \in 1 .. Len(Parts)
    BY Lists
  <2> QED BY <2>1, Lists, SuffixFacts, ZenonT(40)
<1>3. Len(Parts) + 1 = 8
  BY Lists
<1> QED BY <1>1, <1>2, <1>3

LEMMA HooksLeft ==
  ASSUME NEW s \in Seq(Apis), Len(s) = 11
  PROVE  /\ Suffix(s, 1) = s /\ Suffix(s, 12) = <<>>
         /\ \A n \in 1 .. 11 :
              /\ Suffix(s, n) \in Seq(Apis) /\ Suffix(s, n) # <<>>
              /\ Head(Suffix(s, n)) = s[n] /\ s[n] \in Apis
              /\ Tail(Suffix(s, n)) = Suffix(s, n + 1)
              /\ Len(Suffix(s, n)) = 12 - n
<1>1. Suffix(s, Len(s) + 1) = <<>> /\ Suffix(s, 1) = s
  BY SuffixEnds, Zenon
<1>2. ASSUME NEW n \in 1 .. 11
      PROVE  /\ Suffix(s, n) \in Seq(Apis) /\ Suffix(s, n) # <<>>
             /\ Head(Suffix(s, n)) = s[n] /\ s[n] \in Apis
             /\ Tail(Suffix(s, n)) = Suffix(s, n + 1)
             /\ Len(Suffix(s, n)) = 12 - n
  <2>1. n \in 1 .. Len(s)
    OBVIOUS
  <2>2. s[n] \in Apis
    BY <2>1, ElementOfSeq, Zenon
  <2>3. /\ Suffix(s, n) \in Seq(Apis) /\ Suffix(s, n) # <<>>
        /\ Head(Suffix(s, n)) = s[n]
        /\ Tail(Suffix(s, n)) = Suffix(s, n + 1)
        /\ Len(Suffix(s, n)) = Len(s) - n + 1
    BY <2>1, SuffixFacts, Zenon
  <2>4. Len(s) - n + 1 = 12 - n
    OBVIOUS
  <2> QED BY <2>2, <2>3, <2>4, Zenon
<1>3. Len(s) + 1 = 12
  OBVIOUS
<1> QED BY <1>1, <1>2, <1>3, Zenon

-----------------------------------------------------------------------------
(* Each conjunct of the invariant, kept by every step.                     *)

(* A task in the middle of a count, or rmmod in the middle of reading it,  *)
(* has the semaphore. *)
LEMMA HolderHasSem ==
  ASSUME TypeOK, SemIsMutex
  PROVE  /\ \A t \in Tasks : Holding(t) => trace_dog_sem = 0
         /\ loader = "w_read" => trace_dog_sem = 0
BY DEF TypeOK, SemIsMutex

LEMMA CallKinds ==
  ASSUME NEW t \in Tasks, InCall(t)
  PROVE  /\ UNCHANGED <<loader, todo, up, hooked, seen, api>>
         /\ \/ DogDown(t, "e_down", "e_count") \/ DogDown(t, "l_down", "l_count")
            \/ DogSignalled(t, "enter", "e_down", "body")
            \/ DogSignalled(t, "leave", "l_down", AfterLeave(t))
            \/ DogCount(t, "e_count", "body", 1) \/ DogCount(t, "l_count", AfterLeave(t), -1)
            \/ Body(t) \/ Original(t) \/ Return(t)
BY DEF InCall, EnterDown, EnterSignalled, EnterCount, LeaveDown, LeaveSignalled, LeaveCount,
       DogDown, DogSignalled, DogCount, Body, Original, Return

LEMMA LeavesTo ==
  ASSUME NEW t \in Tasks
  PROVE  AfterLeave(t) \in {"out", "original"}
BY DEF AfterLeave

LEMMA TypeKeeps ==
  ASSUME TypeOK, SemIsMutex, Positions, [Next]_vars
  PROVE  TypeOK'
<1> USE LifeAssumption DEF TypeOK
<1>1. CASE Load
  BY <1>1, Lists, ListTypes DEF Load, tasks
<1>2. CASE InitPart
  <2>1. Head(todo) \in PartSet /\ Tail(todo) \in Seq(PartSet \cup Apis)
    <3>1. PICK n \in 1 .. 8 : todo = Suffix(Parts, n)
      BY <1>2 DEF InitPart, Positions, InitPosition
    <3>2. n \in 1 .. 7
      BY <3>1, <1>2, PartsLeft DEF InitPart
    <3>3. Head(todo) = Parts[n]
      BY <3>1, <3>2, PartsLeft
    <3>4. Parts[n] \in PartSet
      BY <3>2, Lists DEF PartSet
    <3> QED BY <3>3, <3>4, <1>2, TailMembers DEF InitPart
  <2> QED BY <2>1, <1>2 DEF InitPart, dog, count, tasks
<1>3. CASE InitFails
  <2>1. PICK n \in 1 .. 8 : todo = Suffix(Parts, n)
    BY <1>3 DEF InitFails, Positions, InitPosition
  <2>2. n \in 1 .. 7
    BY <2>1, <1>3, PartsLeft DEF InitFails
  <2>3. Head(todo) = Parts[n] /\ Parts[n] \in Checked
    BY <2>1, <2>2, <1>3, PartsLeft DEF InitFails
  <2>4. Undo(Parts[n]) \in Seq(PartSet)
    BY <2>2, <2>3, UndoReleases, Zenon
  <2> QED BY <2>4, <2>3, <1>3, ListTypes DEF InitFails, dog, count, tasks
<1>4. CASE InitDog
  BY <1>4, Lists, ListTypes DEF InitDog, dog, count, tasks
<1>5. CASE Hook
  <2>1. Head(todo) \in Apis /\ todo # <<>>
    <3>1. PICK n \in 1 .. 11 : todo = Suffix(HookOrder, n)
      BY <1>5 DEF Hook, Positions, HookPosition
    <3>2. HookOrder[n] \in Apis /\ Head(Suffix(HookOrder, n)) = HookOrder[n]
          /\ Suffix(HookOrder, n) # <<>>
      BY Lists, HooksLeft, Zenon
    <3> QED BY <3>1, <3>2
  <2> QED BY <2>1, <1>5, TailMembers DEF Hook, dog, count, tasks
<1>6. CASE Unload
  BY <1>6, Lists, ListTypes DEF Unload, dog, count, tasks
<1>7. CASE Unhook
  <2>1. todo # <<>>
    <3>1. PICK n \in 1 .. 11 : todo = Suffix(UnhookOrder, n)
      BY <1>7 DEF Unhook, Positions, UnhookPosition
    <3> QED BY <3>1, Lists, HooksLeft
  <2> QED BY <2>1, <1>7, TailMembers DEF Unhook, dog, count, tasks
<1>8. CASE WaitDown
  BY <1>8 DEF WaitDown, dog, count, tasks
<1>9. CASE WaitSignalled
  BY <1>9 DEF WaitSignalled, count, tasks
<1>10. CASE WaitRead
  BY <1>10, HolderHasSem DEF WaitRead, dog, count, tasks
<1>11. CASE WaitTest
  BY <1>11 DEF WaitTest, dog, count, tasks
<1>12. CASE Grace
  BY <1>12, Lists, ListTypes DEF Grace, dog, count, tasks
<1>13. CASE Free
  BY <1>13, TailMembers DEF Free, dog, count, tasks
<1>14. CASE Gone
  BY <1>14 DEF Gone, dog, count, tasks
<1>15. ASSUME NEW t \in Tasks, InCall(t)
       PROVE  TypeOK'
  <2>0. /\ UNCHANGED <<loader, todo, up, hooked, seen, api>>
        /\ \/ DogDown(t, "e_down", "e_count") \/ DogDown(t, "l_down", "l_count")
           \/ DogSignalled(t, "enter", "e_down", "body")
           \/ DogSignalled(t, "leave", "l_down", AfterLeave(t))
           \/ DogCount(t, "e_count", "body", 1) \/ DogCount(t, "l_count", AfterLeave(t), -1)
           \/ Body(t) \/ Original(t) \/ Return(t)
    BY <1>15, CallKinds
  <2> USE DEF Goto
  <2>1. CASE DogDown(t, "e_down", "e_count") \/ DogDown(t, "l_down", "l_count")
    <3>1. UNCHANGED <<loader, todo, up, hooked, g_ref_count, ref_table, cut, seen, api>>
      BY <2>1 DEF DogDown, dog, count
    <3>2. trace_dog_sem' \in {0, 1}
      BY <2>1 DEF DogDown
    <3>3. pc' \in [Tasks -> {"user", "e_down", "e_count", "body", "l_down", "l_count", "original", "out"}]
      BY <2>1 DEF DogDown
    <3> QED BY <3>1, <3>2, <3>3
  <2>2. CASE DogSignalled(t, "enter", "e_down", "body") \/ DogSignalled(t, "leave", "l_down", AfterLeave(t))
    BY LeavesTo, <2>2 DEF DogSignalled, count
  <2>3. CASE DogCount(t, "e_count", "body", 1) \/ DogCount(t, "l_count", AfterLeave(t), -1)
    <3>1. trace_dog_sem = 0
      BY <2>3, HolderHasSem DEF DogCount, Holding
    <3>2. UNCHANGED <<loader, todo, up, hooked, cut, seen, api>> /\ trace_dog_sem' \in {0, 1}
      BY <2>3, <3>1 DEF DogCount
    <3>3. g_ref_count' \in Int /\ ref_table' \in [Apis -> Int]
      BY <2>3 DEF DogCount
    <3>4. pc' \in [Tasks -> {"user", "e_down", "e_count", "body", "l_down", "l_count", "original", "out"}]
      BY LeavesTo, <2>3 DEF DogCount
    <3> QED BY <3>2, <3>3, <3>4
  <2>4. CASE Body(t) \/ Original(t) \/ Return(t)
    BY <2>4 DEF Body, Original, Return, dog, count
  <2> QED BY <2>0, <2>1, <2>2, <2>3, <2>4
<1>16. ASSUME NEW t \in Tasks, NEW a \in Called, Call(t, a)
       PROVE  TypeOK'
  BY <1>16 DEF Call, Goto, dog, count
<1>17. CASE UNCHANGED vars
  BY <1>17 DEF vars, dog, count, tasks
<1>18. CASE FailsUnseen
  BY <1>18, TailMembers DEF FailsUnseen, dog, count, tasks
<1> QED BY <1>18, <1>1, <1>2, <1>3, <1>4, <1>5, <1>6, <1>7, <1>8, <1>9, <1>10, <1>11, <1>12, <1>13, <1>14,
           <1>15, <1>16, <1>17 DEF Next, Loading, Unloading

LEMMA MutexKeeps ==
  ASSUME TypeOK, SemIsMutex, LoadsAlone, [Next]_vars
  PROVE  SemIsMutex'
<1> USE DEF TypeOK, SemIsMutex, Holding
<1>1. CASE \/ Load \/ InitPart \/ FailsUnseen \/ InitFails \/ Hook \/ Unload \/ Unhook
           \/ WaitSignalled \/ WaitTest \/ Grace \/ Free \/ Gone
  <2>1. UNCHANGED <<trace_dog_sem, pc>> /\ loader # "w_read" /\ loader' # "w_read"
    BY <1>1 DEF Load, InitPart, FailsUnseen, InitFails, Hook, Unload, Unhook, WaitSignalled, WaitTest, Grace,
                Free, Gone, tasks
  <2> QED BY <2>1
<1>2. CASE InitDog
  BY <1>2 DEF InitDog, tasks, LoadsAlone, AllOut, InModule
<1>3. CASE WaitDown
  BY <1>3 DEF WaitDown, tasks
<1>4. CASE WaitRead
  BY <1>4 DEF WaitRead, tasks
<1>5. ASSUME NEW t \in Tasks, InCall(t)
      PROVE  SemIsMutex'
  <2>1. /\ UNCHANGED loader
        /\ \/ DogDown(t, "e_down", "e_count") \/ DogDown(t, "l_down", "l_count")
           \/ DogSignalled(t, "enter", "e_down", "body")
           \/ DogSignalled(t, "leave", "l_down", AfterLeave(t))
           \/ DogCount(t, "e_count", "body", 1) \/ DogCount(t, "l_count", AfterLeave(t), -1)
           \/ Body(t) \/ Original(t) \/ Return(t)
    BY <1>5, CallKinds
  <2>2. CASE DogDown(t, "e_down", "e_count") \/ DogDown(t, "l_down", "l_count")
    BY <2>1, <2>2 DEF DogDown, Goto
  <2>3. CASE DogSignalled(t, "enter", "e_down", "body") \/ DogSignalled(t, "leave", "l_down", AfterLeave(t))
    BY LeavesTo, <2>1, <2>3 DEF DogSignalled, Goto
  <2>4. CASE DogCount(t, "e_count", "body", 1) \/ DogCount(t, "l_count", AfterLeave(t), -1)
    <3>1. Holding(t) /\ trace_dog_sem' = trace_dog_sem + 1 /\ trace_dog_sem = 0
      BY <2>4, HolderHasSem DEF DogCount, Goto
    <3>2. loader # "w_read" /\ \A u \in Tasks \ {t} : ~Holding(u)
      BY <3>1
    <3>3. \A u \in Tasks : ~Holding(u)'
      BY LeavesTo, <3>2, <2>4 DEF DogCount, Goto
    <3> QED BY <2>1, <3>1, <3>2, <3>3
  <2>5. CASE Body(t) \/ Original(t) \/ Return(t)
    BY <2>1, <2>5 DEF Body, Original, Return, Goto
  <2> QED BY <2>1, <2>2, <2>3, <2>4, <2>5
<1>6. ASSUME NEW t \in Tasks, NEW a \in Called, Call(t, a)
      PROVE  SemIsMutex'
  BY <1>6 DEF Call, Goto
<1>7. CASE UNCHANGED vars
  BY <1>7 DEF vars, tasks
<1> QED BY <1>1, <1>2, <1>3, <1>4, <1>5, <1>6, <1>7 DEF Next, Loading, Unloading

(* Where insmod and rmmod are, through every step of their lists. *)
LEMMA PositionsKeep ==
  ASSUME TypeOK, Positions, [Next]_vars
  PROVE  Positions'
<1> USE DEF Positions, Complete
<1>1. CASE Load
  <2>1. CASE loader' = "init" /\ todo' = Parts
    <3>1. Parts = Suffix(Parts, 1)
      BY PartsLeft
    <3>2. up' = {} /\ Before(1) = {} /\ hooked' = {}
      BY <1>1 DEF Load, Before
    <3>3. InitPosition'
      BY <3>1, <3>2, <2>1 DEF InitPosition
    <3> QED BY <3>2, <3>3, <2>1
  <2>2. CASE UNCHANGED <<loader, todo>>
    BY <1>1, <2>2 DEF Load
  <2> QED BY <1>1, <2>1, <2>2 DEF Load
<1>2. CASE InitPart \/ FailsUnseen
  <2>1. PICK n \in 1 .. 8 : /\ todo = Suffix(Parts, n)
                            /\ Before(n) \cap Checked \subseteq up /\ up \subseteq Before(n)
    BY <1>2 DEF InitPart, FailsUnseen, InitPosition
  <2>2. n \in 1 .. 7
    BY <2>1, <1>2, PartsLeft DEF InitPart, FailsUnseen
  <2>3. todo' = Suffix(Parts, n + 1) /\ Head(todo) = Parts[n] /\ n + 1 \in 1 .. 8
    <3>1. todo' = Tail(todo)
      BY <1>2 DEF InitPart, FailsUnseen
    <3>2. Tail(todo) = Suffix(Parts, n + 1) /\ Head(todo) = Parts[n]
      BY <2>1, <2>2, PartsLeft
    <3>3. n + 1 \in 1 .. 8
      BY <2>2
    <3> QED BY <3>1, <3>2, <3>3
  <2>4. \/ up' = up \cup {Parts[n]}
        \/ up' = up /\ Parts[n] \notin Checked
    BY <2>3, <1>2 DEF InitPart, FailsUnseen, Checked
  <2>5. Before(n + 1) \cap Checked \subseteq up' /\ up' \subseteq Before(n + 1)
    BY <2>1, <2>2, <2>4, BeforeGrows
  <2>6. InitPosition'
    BY <2>3, <2>5 DEF InitPosition
  <2> QED BY <2>6, <1>2 DEF InitPart, FailsUnseen
<1>3. CASE InitFails
  <2>1. PICK n \in 1 .. 8 : todo = Suffix(Parts, n) /\ up \subseteq Before(n)
    BY <1>3 DEF InitFails, InitPosition
  <2>2. n \in 1 .. 7
    BY <2>1, <1>3, PartsLeft DEF InitFails
  <2>3. todo' = Undo(Parts[n]) /\ Parts[n] \in Checked
    BY <2>1, <2>2, <1>3, PartsLeft DEF InitFails
  <2>4. up \subseteq {Undo(Parts[n])[i] : i \in 1 .. Len(Undo(Parts[n]))}
    BY <2>1, <2>2, <2>3, UndoReleases, Zenon
  <2>5. FreePosition'
    BY <2>3, <2>4, <1>3 DEF InitFails, FreePosition
  <2> QED BY <2>5, <1>3 DEF InitFails
<1>4. CASE InitDog
  <2>1. PICK n \in 1 .. 8 : todo = Suffix(Parts, n) /\ Before(n) \cap Checked \subseteq up
    BY <1>4 DEF InitDog, InitPosition
  <2>2. n = 8
    <3>1. n \notin 1 .. 7
      BY <2>1, <1>4, PartsLeft DEF InitDog
    <3> QED BY <3>1
  <2>3. Checked \subseteq up
    <3>1. Before(8) = PartSet
      BY Lists DEF PartSet, Before
    <3> QED BY <2>1, <2>2, <3>1 DEF Checked
  <2>4. HookOrder = Suffix(HookOrder, 1)
    BY Lists, HooksLeft, Zenon
  <2>5. hooked' = {HookOrder[i] : i \in 1 .. 1 - 1}
    BY <1>4 DEF InitDog
  <2>6. HookPosition'
    BY <2>4, <2>5, <1>4 DEF InitDog, HookPosition
  <2> QED BY <2>3, <2>6, <1>4 DEF InitDog
<1>5. CASE Hook
  <2>1. PICK n \in 1 .. 11 : todo = Suffix(HookOrder, n) /\ hooked = {HookOrder[i] : i \in 1 .. n - 1}
    BY <1>5 DEF Hook, HookPosition
  <2>2. /\ Head(todo) = HookOrder[n] /\ Tail(todo) = Suffix(HookOrder, n + 1)
        /\ Len(todo) = 12 - n
    BY <2>1, Lists, HooksLeft, Zenon
  <2>3. hooked' = {HookOrder[i] : i \in 1 .. (n + 1) - 1} /\ Checked \subseteq up'
    BY <2>1, <2>2, <1>5 DEF Hook
  <2>4. CASE n = 11
    <3>1. loader' = "loaded" /\ hooked' = Apis
      BY <2>2, <2>3, <2>4, <1>5, Lists DEF Hook
    <3> QED BY <2>3, <3>1
  <2>5. CASE n # 11
    <3>1. loader' = "hook"
      BY <2>2, <2>5, <1>5 DEF Hook
    <3>2. n + 1 \in 1 .. 11 /\ todo' = Suffix(HookOrder, n + 1)
      BY <2>2, <2>5, <1>5 DEF Hook
    <3>3. HookPosition'
      BY <2>3, <3>2 DEF HookPosition
    <3> QED BY <2>3, <3>1, <3>3
  <2> QED BY <2>4, <2>5
<1>6. CASE Unload
  <2>1. UnhookOrder = Suffix(UnhookOrder, 1)
    BY Lists, HooksLeft, Zenon
  <2>2. hooked = {UnhookOrder[i] : i \in 1 .. 11}
    BY <1>6, Lists DEF Unload
  <2>3. UnhookPosition'
    BY <2>1, <2>2, <1>6 DEF Unload, UnhookPosition
  <2> QED BY <2>3, <1>6 DEF Unload
<1>7. CASE Unhook
  <2>1. PICK n \in 1 .. 11 : /\ todo = Suffix(UnhookOrder, n)
                             /\ hooked = {UnhookOrder[i] : i \in n .. 11}
    BY <1>7 DEF Unhook, UnhookPosition
  <2>2. /\ Head(todo) = UnhookOrder[n] /\ Tail(todo) = Suffix(UnhookOrder, n + 1)
        /\ Len(todo) = 12 - n
    BY <2>1, Lists, HooksLeft, Zenon
  <2>3. hooked' = {UnhookOrder[i] : i \in n + 1 .. 11} /\ Checked \subseteq up'
    <3>1. \A i, j \in 1 .. 11 : i # j => UnhookOrder[i] # UnhookOrder[j]
      BY DEF UnhookOrder
    <3>2. hooked' = hooked \ {UnhookOrder[n]} /\ UNCHANGED up
      BY <2>2, <1>7 DEF Unhook
    <3> QED BY <2>1, <3>1, <3>2, <1>7 DEF Unhook
  <2>4. CASE n = 11
    <3>1. loader' = "w_down" /\ hooked' = {}
      BY <2>2, <2>3, <2>4, <1>7 DEF Unhook
    <3> QED BY <2>3, <3>1
  <2>5. CASE n # 11
    <3>1. loader' = "unhook"
      BY <2>2, <2>5, <1>7 DEF Unhook
    <3>2. n + 1 \in 1 .. 11 /\ todo' = Suffix(UnhookOrder, n + 1)
      BY <2>2, <2>5, <1>7 DEF Unhook
    <3>3. UnhookPosition'
      BY <2>3, <3>2 DEF UnhookPosition
    <3> QED BY <2>3, <3>1, <3>3
  <2> QED BY <2>4, <2>5
<1>8. CASE WaitDown \/ WaitSignalled \/ WaitRead \/ WaitTest
  BY <1>8 DEF WaitDown, WaitSignalled, WaitRead, WaitTest
<1>9. CASE Grace
  <2>1. FreePosition'
    BY <1>9, Lists DEF Grace, FreePosition, TypeOK
  <2> QED BY <2>1, <1>9 DEF Grace
<1>10. CASE Free
  <2>1. todo \in Seq(PartSet \cup Apis) /\ todo # <<>>
    BY <1>10 DEF Free, TypeOK
  <2>2. {todo[i] : i \in 1 .. Len(todo)} \ {Head(todo)}
          \subseteq {Tail(todo)[i] : i \in 1 .. Len(Tail(todo))}
    BY <2>1, TailMembers, ZenonT(60)
  <2>3. /\ up' = up \ {Head(todo)} /\ todo' = Tail(todo)
        /\ up \subseteq {todo[i] : i \in 1 .. Len(todo)}
    BY <1>10 DEF Free, FreePosition
  <2>4. up' \subseteq {Tail(todo)[i] : i \in 1 .. Len(Tail(todo))}
    BY <2>2, <2>3, Zenon
  <2>5. FreePosition'
    BY <2>3, <2>4 DEF FreePosition
  <2> QED BY <2>5, <1>10 DEF Free
<1>11. CASE Gone
  BY <1>11 DEF Gone, FreePosition
<1>12. CASE UNCHANGED <<loader, todo, up, hooked>>
  BY <1>12 DEF InitPosition, HookPosition, UnhookPosition, FreePosition
<1>13. ASSUME NEW t \in Tasks, InCall(t)
       PROVE  UNCHANGED <<loader, todo, up, hooked>>
  BY <1>13, CallKinds
<1>14. ASSUME NEW t \in Tasks, NEW a \in Called, Call(t, a)
       PROVE  UNCHANGED <<loader, todo, up, hooked>>
  BY <1>14 DEF Call
<1> QED BY <1>1, <1>2, <1>3, <1>4, <1>5, <1>6, <1>7, <1>8, <1>9, <1>10, <1>11, <1>12, <1>13, <1>14
        DEF Next, Loading, Unloading, vars

-----------------------------------------------------------------------------
(* The counters.                                                           *)

LEMMA CountedFinite ==
  ASSUME TypeOK
  PROVE  /\ IsFiniteSet(Inside) /\ \A a \in Apis : IsFiniteSet(Counted(a))
         /\ UNION {Counted(a) : a \in Apis} = Inside
         /\ Cardinality(Inside) \in Nat /\ \A a \in Apis : Cardinality(Counted(a)) \in Nat
<1>1. IsFiniteSet(Inside) /\ \A a \in Apis : IsFiniteSet(Counted(a))
  <2>1. Inside \subseteq Tasks /\ \A a \in Apis : Counted(a) \subseteq Tasks
    BY DEF Inside, Counted
  <2> QED BY <2>1, FS_Subset, LifeAssumption
<1>2. UNION {Counted(a) : a \in Apis} = Inside
  BY DEF TypeOK, Counted, Inside
<1> QED BY <1>1, <1>2, FS_CardinalityType

(* A count up or down by a task is its entry to or its exit from Inside.   *)
LEMMA CountUp ==
  ASSUME TypeOK, NEW t \in Tasks, DogCount(t, "e_count", "body", 1)
  PROVE  /\ Cardinality(Inside') = Cardinality(Inside) + 1
         /\ \A a \in Apis : Cardinality(Counted(a)') =
              Cardinality(Counted(a)) + (IF a = api[t] THEN 1 ELSE 0)
<1>1. t \notin Inside /\ Inside' = Inside \cup {t}
  BY DEF TypeOK, DogCount, Goto, Inside
<1>2. \A a \in Apis : IF a = api[t]
                      THEN t \notin Counted(a) /\ Counted(a)' = Counted(a) \cup {t}
                      ELSE Counted(a)' = Counted(a)
  BY DEF TypeOK, DogCount, Goto, Counted
<1>3. Cardinality(Inside \cup {t}) = Cardinality(Inside) + 1
  BY <1>1, CountedFinite, FS_AddElement
<1>4. Cardinality(Inside') = Cardinality(Inside) + 1
  BY <1>1, <1>3
<1>5. ASSUME NEW a \in Apis
      PROVE  Cardinality(Counted(a)') = Cardinality(Counted(a)) + (IF a = api[t] THEN 1 ELSE 0)
  <2>1. CASE a = api[t]
    BY <1>2, <2>1, CountedFinite, FS_AddElement
  <2>2. CASE a # api[t]
    <3>1. Counted(a)' = Counted(a) /\ Cardinality(Counted(a)) \in Nat
      BY <1>2, <2>2, CountedFinite
    <3> QED BY <3>1, <2>2
  <2> QED BY <2>1, <2>2
<1> QED BY <1>4, <1>5

LEMMA CountDown ==
  ASSUME TypeOK, NEW t \in Tasks, DogCount(t, "l_count", AfterLeave(t), -1)
  PROVE  /\ Cardinality(Inside') = Cardinality(Inside) - 1
         /\ \A a \in Apis : Cardinality(Counted(a)') =
              Cardinality(Counted(a)) - (IF a = api[t] THEN 1 ELSE 0)
<1>1. t \in Inside /\ Inside' = Inside \ {t}
  BY LeavesTo DEF TypeOK, DogCount, Goto, Inside
<1>2. \A a \in Apis : IF a = api[t]
                      THEN t \in Counted(a) /\ Counted(a)' = Counted(a) \ {t}
                      ELSE Counted(a)' = Counted(a)
  BY LeavesTo DEF TypeOK, DogCount, Goto, Counted
<1>3. Cardinality(Inside \ {t}) = Cardinality(Inside) - 1
  BY <1>1, CountedFinite, FS_RemoveElement
<1>4. Cardinality(Inside') = Cardinality(Inside) - 1
  BY <1>1, <1>3
<1>5. ASSUME NEW a \in Apis
      PROVE  Cardinality(Counted(a)') = Cardinality(Counted(a)) - (IF a = api[t] THEN 1 ELSE 0)
  <2>1. CASE a = api[t]
    BY <1>2, <2>1, CountedFinite, FS_RemoveElement
  <2>2. CASE a # api[t]
    <3>1. Counted(a)' = Counted(a) /\ Cardinality(Counted(a)) \in Nat
      BY <1>2, <2>2, CountedFinite
    <3> QED BY <3>1, <2>2
  <2> QED BY <2>1, <2>2
<1> QED BY <1>4, <1>5

(* The steps that leave the counters and what they count alone. *)
LEMMA CountSame ==
  ASSUME TypeOK, [Next]_vars, ~Load,
         \A t \in Tasks : /\ ~DogCount(t, "e_count", "body", 1)
                          /\ ~DogCount(t, "l_count", AfterLeave(t), -1)
                          /\ ~DogSignalled(t, "enter", "e_down", "body")
                          /\ ~DogSignalled(t, "leave", "l_down", AfterLeave(t))
  PROVE  /\ UNCHANGED <<g_ref_count, ref_table, Inside>> /\ cut \subseteq cut'
         /\ \A a \in Apis : UNCHANGED Counted(a)
         /\ cut' \subseteq cut \cup {"wait"}
<1> USE DEF TypeOK, Inside, Counted
<1>1. CASE \/ Unload \/ InitPart \/ FailsUnseen \/ InitFails \/ InitDog \/ Hook \/ Unhook
           \/ WaitDown \/ WaitRead \/ WaitTest \/ Grace \/ Free \/ Gone
  <2>1. UNCHANGED <<g_ref_count, ref_table, cut, pc, api>>
    BY <1>1 DEF Unload, InitPart, FailsUnseen, InitFails, InitDog, Hook, Unhook, WaitDown, WaitRead, WaitTest,
                Grace, Free, Gone, dog, count, tasks
  <2> QED BY <2>1
<1>2. CASE WaitSignalled
  BY <1>2 DEF WaitSignalled, count, tasks
<1>3. ASSUME NEW t \in Tasks, InCall(t)
      PROVE  /\ UNCHANGED <<g_ref_count, ref_table, Inside, cut>>
             /\ \A a \in Apis : UNCHANGED Counted(a)
  <2>1. /\ UNCHANGED api
        /\ \/ DogDown(t, "e_down", "e_count") \/ DogDown(t, "l_down", "l_count")
           \/ Body(t) \/ Original(t) \/ Return(t)
    BY <1>3, CallKinds
  <2>2. CASE DogDown(t, "e_down", "e_count")
    BY <2>1, <2>2 DEF DogDown, Goto, dog, count
  <2>3. CASE DogDown(t, "l_down", "l_count")
    BY <2>1, <2>3 DEF DogDown, Goto, dog, count
  <2>4. CASE Body(t)
    BY <2>1, <2>4 DEF Body, Goto, dog, count
  <2>5. CASE Return(t)
    BY <2>1, <2>5 DEF Return, Goto, dog, count
  <2>6. CASE Original(t)
    BY <2>1, <2>6 DEF Original, Goto, dog, count
  <2> QED BY <2>1, <2>2, <2>3, <2>4, <2>5, <2>6
<1>4. ASSUME NEW t \in Tasks, NEW a \in Called, Call(t, a)
      PROVE  /\ UNCHANGED <<g_ref_count, ref_table, Inside, cut>>
             /\ \A b \in Apis : UNCHANGED Counted(b)
  BY <1>4 DEF Call, Goto, dog, count
<1>5. CASE UNCHANGED vars
  BY <1>5 DEF vars, dog, count, tasks
<1> QED BY <1>1, <1>2, <1>3, <1>4, <1>5 DEF Next, Loading, Unloading

LEMMA AllOutCounts ==
  ASSUME TypeOK, AllOut
  PROVE  /\ Cardinality(Inside) = 0 /\ Inside = {}
         /\ \A a \in Apis : Cardinality(Counted(a)) = 0
<1>1. Inside = {} /\ \A a \in Apis : Counted(a) = {}
  BY DEF AllOut, InModule, Inside, Counted
<1> QED BY <1>1, FS_EmptySet

LEMMA CountsKeep ==
  ASSUME TypeOK, RefCountsCalls, [Next]_vars, TypeOK'
  PROVE  RefCountsCalls'
<1> DEFINE Exact == /\ \A a \in Apis : ref_table[a] = Cardinality(Counted(a))
                    /\ g_ref_count = Cardinality(Inside)
<1>1. RefCountsCalls <=> (cut \subseteq {"wait"} => Exact)
  BY CountedFinite DEF RefCountsCalls
<1>2. RefCountsCalls' <=> (cut' \subseteq {"wait"} => Exact')
  <2>1. (UNION {Counted(a) : a \in Apis})' = Inside'
    BY DEF TypeOK, Counted, Inside
  <2> QED BY <2>1 DEF RefCountsCalls
<1>3. CASE Load
  <2>1. AllOut' /\ g_ref_count' = 0 /\ ref_table' = [a \in Apis |-> 0]
    BY <1>3 DEF Load, InModule, AllOut, tasks
  <2>2. Exact'
    <3>1. Inside' = {} /\ \A a \in Apis : Counted(a)' = {}
      BY <2>1 DEF AllOut, InModule, Inside, Counted
    <3> QED BY <2>1, <3>1, FS_EmptySet
  <2> QED BY <1>2, <2>2
<1>4. ASSUME NEW t \in Tasks, DogCount(t, "e_count", "body", 1)
      PROVE  RefCountsCalls'
  <2> SUFFICES ASSUME Exact PROVE Exact'
    BY <1>1, <1>2, <1>4 DEF DogCount
  <2>1. g_ref_count' = Cardinality(Inside')
    BY <1>4, CountUp DEF DogCount
  <2>2. ASSUME NEW a \in Apis
        PROVE  ref_table'[a] = Cardinality(Counted(a)')
    <3>1. ref_table'[a] = ref_table[a] + (IF a = api[t] THEN 1 ELSE 0)
      BY <1>4 DEF DogCount, TypeOK
    <3>2. Cardinality(Counted(a)') = Cardinality(Counted(a)) + (IF a = api[t] THEN 1 ELSE 0)
      BY <1>4, CountUp
    <3>3. ref_table[a] = Cardinality(Counted(a))
      OBVIOUS
    <3> QED BY <3>1, <3>2, <3>3, Zenon
  <2> QED BY <2>1, <2>2
<1>5. ASSUME NEW t \in Tasks, DogCount(t, "l_count", AfterLeave(t), -1)
      PROVE  RefCountsCalls'
  <2> SUFFICES ASSUME Exact PROVE Exact'
    BY <1>1, <1>2, <1>5 DEF DogCount
  <2>1. g_ref_count' = Cardinality(Inside')
    BY <1>5, CountDown, CountedFinite DEF DogCount
  <2>2. ASSUME NEW a \in Apis
        PROVE  ref_table'[a] = Cardinality(Counted(a)')
    <3>1. ref_table'[a] = ref_table[a] - (IF a = api[t] THEN 1 ELSE 0)
      BY <1>5 DEF DogCount, TypeOK
    <3>2. Cardinality(Counted(a)') = Cardinality(Counted(a)) - (IF a = api[t] THEN 1 ELSE 0)
      BY <1>5, CountDown
    <3>3. ref_table[a] = Cardinality(Counted(a))
      OBVIOUS
    <3> QED BY <3>1, <3>2, <3>3, Zenon
  <2> QED BY <2>1, <2>2
<1>6. ASSUME NEW t \in Tasks, \/ DogSignalled(t, "enter", "e_down", "body")
                              \/ DogSignalled(t, "leave", "l_down", AfterLeave(t))
      PROVE  RefCountsCalls'
  BY <1>2, <1>6 DEF DogSignalled
<1>7. CASE /\ ~Load
           /\ \A t \in Tasks : /\ ~DogCount(t, "e_count", "body", 1)
                               /\ ~DogCount(t, "l_count", AfterLeave(t), -1)
                               /\ ~DogSignalled(t, "enter", "e_down", "body")
                               /\ ~DogSignalled(t, "leave", "l_down", AfterLeave(t))
  <2>1. /\ UNCHANGED <<g_ref_count, ref_table, Inside>> /\ cut \subseteq cut'
        /\ \A a \in Apis : UNCHANGED Counted(a)
    BY <1>7, CountSame
  <2> QED BY <1>1, <1>2, <2>1
<1> QED BY <1>3, <1>4, <1>5, <1>6, <1>7

(* The same for the bound that a signal in trace_dog_leave keeps.          *)
LEMMA EnoughKeeps ==
  ASSUME TypeOK, CountsEnough, [Next]_vars
  PROVE  CountsEnough'
<1>1. CASE Load
  <2>1. Inside' = {} /\ g_ref_count' = 0
    BY <1>1 DEF Load, InModule, Inside, tasks
  <2> QED BY <2>1, FS_EmptySet DEF CountsEnough
<1>2. ASSUME NEW t \in Tasks, DogCount(t, "e_count", "body", 1)
      PROVE  CountsEnough'
  <2>1. Cardinality(Inside') = Cardinality(Inside) + 1
    BY <1>2, CountUp
  <2>2. UNCHANGED cut /\ g_ref_count' = g_ref_count + 1
    BY <1>2 DEF DogCount
  <2>3. Cardinality(Inside) \in Nat /\ g_ref_count \in Int
    BY CountedFinite DEF TypeOK
  <2> QED BY <2>1, <2>2, <2>3 DEF CountsEnough
<1>3. ASSUME NEW t \in Tasks, DogCount(t, "l_count", AfterLeave(t), -1)
      PROVE  CountsEnough'
  <2>1. Cardinality(Inside') = Cardinality(Inside) - 1
    BY <1>3, CountDown
  <2>2. UNCHANGED cut /\ g_ref_count' = g_ref_count - 1
    BY <1>3 DEF DogCount
  <2>3. Cardinality(Inside) \in Nat /\ g_ref_count \in Int
    BY CountedFinite DEF TypeOK
  <2> QED BY <2>1, <2>2, <2>3 DEF CountsEnough
<1>4. ASSUME NEW t \in Tasks, DogSignalled(t, "enter", "e_down", "body")
      PROVE  CountsEnough'
  BY <1>4 DEF CountsEnough, DogSignalled
<1>5. ASSUME NEW t \in Tasks, DogSignalled(t, "leave", "l_down", AfterLeave(t))
      PROVE  CountsEnough'
  <2>1. Inside' = Inside \ {t} /\ t \in Inside /\ UNCHANGED g_ref_count /\ cut \subseteq cut'
    BY LeavesTo, <1>5 DEF DogSignalled, Goto, Inside, TypeOK, count
  <2>2. Cardinality(Inside') = Cardinality(Inside) - 1
    BY <2>1, CountedFinite, FS_RemoveElement
  <2> QED BY <2>1, <2>2, CountedFinite DEF CountsEnough, TypeOK
<1>6. CASE /\ ~Load
           /\ \A t \in Tasks : /\ ~DogCount(t, "e_count", "body", 1)
                               /\ ~DogCount(t, "l_count", AfterLeave(t), -1)
                               /\ ~DogSignalled(t, "enter", "e_down", "body")
                               /\ ~DogSignalled(t, "leave", "l_down", AfterLeave(t))
  <2>1. UNCHANGED <<g_ref_count, Inside>> /\ cut \subseteq cut'
    BY <1>6, CountSame
  <2> QED BY <2>1 DEF CountsEnough
<1> QED BY <1>1, <1>2, <1>3, <1>4, <1>5, <1>6

-----------------------------------------------------------------------------
(* Waiting for the calls in progress.                                      *)

(* Once the hooks are gone, no task gets past its count again. *)
LEMMA NoneComesIn ==
  ASSUME TypeOK, NoneEnters, hooked = {}, NEW t \in Tasks, InCall(t)
  PROVE  NoneEnters' /\ Inside' \subseteq Inside
<1> USE DEF TypeOK, NoneEnters, Inside, Goto
<1>1. \/ DogDown(t, "e_down", "e_count") \/ DogDown(t, "l_down", "l_count")
      \/ DogSignalled(t, "enter", "e_down", "body")
      \/ DogSignalled(t, "leave", "l_down", AfterLeave(t))
      \/ DogCount(t, "e_count", "body", 1) \/ DogCount(t, "l_count", AfterLeave(t), -1)
      \/ Body(t) \/ Original(t) \/ Return(t)
  BY CallKinds
<1>2. \/ pc[t] = "l_down" /\ pc' \in {[pc EXCEPT ![t] = "l_count"], [pc EXCEPT ![t] = AfterLeave(t)]}
      \/ pc[t] = "l_count" /\ pc' = [pc EXCEPT ![t] = AfterLeave(t)]
      \/ pc[t] = "original" /\ pc' \in {[pc EXCEPT ![t] = "user"], [pc EXCEPT ![t] = "out"]}
      \/ pc[t] = "body" /\ pc' = [pc EXCEPT ![t] = "l_down"]
      \/ pc[t] = "out" /\ pc' = [pc EXCEPT ![t] = "user"]
  BY <1>1 DEF DogDown, DogSignalled, DogCount, Body, Original, Return
<1>3. AfterLeave(t) \in {"out", "original"}
  BY DEF AfterLeave
<1> QED BY <1>2, <1>3

(* When no task has code of the module to run, at most an exit ends. *)
LEMMA OutStays ==
  ASSUME TypeOK, NEW t \in Tasks, InCall(t)
  PROVE  (AllOut => AllOut') /\ cut \subseteq cut'
<1>1. ASSUME AllOut PROVE AllOut'
  <2>1. pc[t] \in {"user", "original"} /\ (pc[t] = "original" => api[t] = "exit")
    BY <1>1 DEF AllOut, InModule
  <2>2. Original(t)
    BY <2>1, CallKinds DEF DogDown, DogSignalled, DogCount, Body, Return, Goto
  <2>3. pc' = [pc EXCEPT ![t] = "user"] /\ UNCHANGED api
    BY <2>1, <2>2 DEF Original, Goto
  <2> QED BY <1>1, <2>3 DEF AllOut, InModule, TypeOK
<1>2. cut \subseteq cut'
  BY CallKinds DEF DogDown, DogSignalled, DogCount, Body, Original, Return, dog
<1> QED BY <1>1, <1>2

LEMMA DrainingKeeps ==
  ASSUME PromptEntry, PromptExecve, LifeInv, Draining, [Next]_vars
  PROVE  Draining'
<1> USE DEF LifeInv, LoadsAlone, Draining, NoneEnters, AllOut, InModule, Inside
<1>1. CASE Load
  BY <1>1 DEF Load, tasks
<1>2. CASE InitPart \/ FailsUnseen \/ InitFails \/ InitDog \/ Hook \/ Unload \/ Unhook
  BY <1>2 DEF InitPart, FailsUnseen, InitFails, InitDog, Hook, Unload, Unhook, dog, tasks
<1>3. CASE WaitDown
  BY <1>3 DEF WaitDown, dog, tasks
<1>4. CASE WaitSignalled
  BY <1>4 DEF WaitSignalled, tasks
<1>5. CASE WaitRead
  <2>1. UNCHANGED <<cut, pc, Inside>> /\ loader = "w_read" /\ loader' = "w_test"
        /\ seen' = g_ref_count
    BY <1>5 DEF WaitRead, dog, tasks
  <2>2. cut \subseteq {"leave"} /\ seen' = 0 => Cardinality(Inside) = 0
    BY <2>1, CountedFinite DEF CountsEnough
  <2>3. cut \subseteq {"leave"} /\ seen' = 0 => Inside = {}
    BY <2>2, CountedFinite, FS_EmptySet
  <2> QED BY <2>1, <2>3
<1>6. CASE WaitTest
  BY <1>6 DEF WaitTest, dog, tasks
<1>7. CASE Grace
  <2>1. UNCHANGED <<cut, pc, api>> /\ loader = "grace" /\ loader' = "free"
    BY <1>7 DEF Grace, dog, tasks
  <2>2. ASSUME NEW t \in Tasks, Inside = {}
        PROVE  ~InModule(t)
    <3>1. pc[t] \in {"user", "original"} /\ ~(pc[t] = "original" /\ api[t] = "execve")
      BY <1>7, <2>2 DEF Grace
    <3> QED BY <3>1 DEF LeftFirst, LeavesFirst
  <2> QED BY <2>1, <2>2
<1>8. CASE Free \/ Gone
  BY <1>8 DEF Free, Gone, dog, tasks
<1>9. ASSUME NEW t \in Tasks, InCall(t)
      PROVE  Draining'
  <2>1. UNCHANGED <<loader, hooked, seen>> /\ cut \subseteq cut' /\ (AllOut => AllOut')
    BY <1>9, CallKinds, OutStays
  <2>2. loader \in {"w_read", "w_test", "grace"} => hooked = {}
    BY DEF Positions
  <2>3. cut' \subseteq {"leave"} /\ loader \in {"w_read", "w_test", "grace"} =>
          NoneEnters' /\ Inside' \subseteq Inside
    BY <1>9, <2>1, <2>2, NoneComesIn
  <2> QED BY <2>1, <2>3
<1>10. ASSUME NEW t \in Tasks, NEW a \in Called, Call(t, a)
       PROVE  Draining'
  BY <1>10 DEF Call, Positions
<1>11. CASE UNCHANGED vars
  BY <1>11 DEF vars, dog, tasks
<1> QED BY <1>1, <1>2, <1>3, <1>4, <1>5, <1>6, <1>7, <1>8, <1>9, <1>10, <1>11
        DEF Next, Loading, Unloading

LEMMA LeftKeeps ==
  ASSUME TypeOK, LeftFirst, [Next]_vars
  PROVE  LeftFirst'
<1> USE DEF LeftFirst, TypeOK, Goto
<1>1. CASE UNCHANGED <<pc, api>>
  BY <1>1
<1>2. CASE \/ Load \/ InitPart \/ FailsUnseen \/ InitFails \/ InitDog \/ Hook \/ Unload \/ Unhook
           \/ WaitDown \/ WaitSignalled \/ WaitRead \/ WaitTest \/ Grace \/ Free \/ Gone
  <2>1. UNCHANGED <<pc, api>>
    BY <1>2 DEF Load, InitPart, FailsUnseen, InitFails, InitDog, Hook, Unload, Unhook, WaitDown,
                WaitSignalled, WaitRead, WaitTest, Grace, Free, Gone, tasks
  <2> QED BY <1>1, <2>1
<1>3. ASSUME NEW t \in Tasks, InCall(t)
      PROVE  LeftFirst'
  <2>1. /\ UNCHANGED api
        /\ \/ \E p \in {"e_count", "l_count", "body", "l_down", "out", "user"} : pc' = [pc EXCEPT ![t] = p]
           \/ pc' = [pc EXCEPT ![t] = AfterLeave(t)]
    BY <1>3, CallKinds DEF DogDown, DogSignalled, DogCount, Body, Original, Return
  <2> QED BY <2>1 DEF AfterLeave
<1>4. ASSUME NEW t \in Tasks, NEW a \in Called, Call(t, a)
      PROVE  LeftFirst'
  BY <1>4 DEF Call
<1> QED BY <1>1, <1>2, <1>3, <1>4 DEF Next, Loading, Unloading, vars, tasks

LEMMA AloneKeeps ==
  ASSUME TypeOK, Positions, LoadsAlone, [Next]_vars
  PROVE  LoadsAlone'
<1> USE DEF LoadsAlone, AllOut, InModule
<1>1. CASE Load
  BY <1>1 DEF Load, tasks
<1>2. CASE \/ InitPart \/ FailsUnseen \/ InitFails \/ InitDog \/ Hook \/ Unload \/ Unhook
           \/ WaitDown \/ WaitSignalled \/ WaitRead \/ WaitTest \/ Grace \/ Free \/ Gone
  BY <1>2 DEF InitPart, FailsUnseen, InitFails, InitDog, Hook, Unload, Unhook, WaitDown, WaitSignalled, WaitRead,
              WaitTest, Grace, Free, Gone, tasks
<1>3. ASSUME NEW t \in Tasks, InCall(t)
      PROVE  LoadsAlone'
  BY <1>3, CallKinds, OutStays
<1>4. ASSUME NEW t \in Tasks, NEW a \in Called, Call(t, a)
      PROVE  LoadsAlone'
  BY <1>4 DEF Call, Positions, Complete
<1>5. CASE UNCHANGED vars
  BY <1>5 DEF vars, tasks
<1> QED BY <1>1, <1>2, <1>3, <1>4, <1>5 DEF Next, Loading, Unloading

-----------------------------------------------------------------------------
(* The theorems.                                                           *)

LEMMA InitHolds == Init => LifeInv /\ Draining
<1> SUFFICES ASSUME Init PROVE LifeInv /\ Draining
  OBVIOUS
<1>1. TypeOK
  <2>1. <<>> \in Seq(PartSet \cup Apis) /\ "open" \in Apis
    BY DEF Apis, HookOrder
  <2> QED BY <2>1 DEF Init, TypeOK
<1>2. AllOut
  BY DEF Init, AllOut, InModule
<1>3. SemIsMutex /\ Positions /\ LoadsAlone /\ LeftFirst /\ Draining
  BY <1>2 DEF Init, LeftFirst, SemIsMutex, Holding, Positions, Complete, LoadsAlone, AllOut, Draining
<1>4. RefCountsCalls
  <2>1. UNION {Counted(a) : a \in Apis} = {}
    BY <1>2 DEF AllOut, InModule, Counted
  <2> QED BY <1>1, <1>2, <2>1, AllOutCounts, FS_EmptySet DEF Init, RefCountsCalls
<1>5. CountsEnough
  BY <1>1, <1>2, AllOutCounts DEF Init, CountsEnough
<1> QED BY <1>1, <1>3, <1>4, <1>5 DEF LifeInv

(* The invariant, whatever fails and whatever a signal cuts short. *)
THEOREM LifeInvariant == Spec => []LifeInv
<1>1. LifeInv /\ [Next]_vars => LifeInv'
  <2> SUFFICES ASSUME LifeInv, [Next]_vars PROVE LifeInv'
    OBVIOUS
  <2> USE DEF LifeInv
  <2>1. TypeOK'
    BY TypeKeeps
  <2> QED BY <2>1, MutexKeeps, PositionsKeep, AloneKeeps, LeftKeeps, CountsKeep, EnoughKeeps
<1> QED BY <1>1, InitHolds, PTL DEF Spec

(* Every variable has its type, and trace_dog_sem stays a mutex, although  *)
(* waits for it may be cut short (trace_dog.c:38, 78, 94).                 *)
THEOREM LifeTypeCorrect == Spec => []TypeOK
BY LifeInvariant, PTL DEF LifeInv

(* The counters of trace_dog.c count the calls in progress until a signal  *)
(* cuts short the wait of a task (trace_dog.c:75, 91).                     *)
THEOREM CountsExact == Spec => []RefCountsCalls
BY LifeInvariant, PTL DEF LifeInv

(* A call is hooked only while all that its fake uses is there (main.c:86, *)
(* 143, 184).                                                              *)
THEOREM HooksBacked == Spec => []HooksHaveParts
<1>1. LifeInv => HooksHaveParts
  BY DEF LifeInv, Positions, Complete, HooksHaveParts
<1> QED BY <1>1, LifeInvariant, PTL

(* Every failed load and every unload takes everything away again          *)
(* (main.c:158, 180; interface.c:445).                                     *)
THEOREM AllTakenBack == Spec => []NothingLeft
<1>1. LifeInv => NothingLeft
  BY DEF LifeInv, Positions, NothingLeft
<1> QED BY <1>1, LifeInvariant, PTL

(* No task has still to run code of the module when its memory goes        *)
(* (trace_dog.c:69), if each is counted soon after its dispatch, an execve *)
(* that fails does so in time (exec.c:73, 78) and no signal has cut short  *)
(* a wait of rmmod or of trace_dog_enter.                                  *)
THEOREM UnloadIsSafe == PromptEntry /\ PromptExecve => (Spec => []UnloadSafe)
<1> SUFFICES ASSUME PromptEntry, PromptExecve PROVE Spec => []UnloadSafe
  OBVIOUS
<1>1. LifeInv /\ Draining /\ [Next]_vars => Draining'
  BY DrainingKeeps
<1>2. LifeInv /\ Draining => UnloadSafe
  <2> SUFFICES ASSUME LifeInv, Draining, cut \subseteq {"leave"}, NEW t \in Tasks, InModule(t)
               PROVE  Checked \subseteq up /\ loader \notin {"free", "gone"}
    BY DEF UnloadSafe
  <2>1. ~AllOut
    BY DEF AllOut
  <2> QED BY <2>1 DEF LifeInv, TypeOK, Positions, Complete, LoadsAlone, Draining
<1> QED BY <1>1, <1>2, InitHolds, LifeInvariant, PTL DEF Spec

-----------------------------------------------------------------------------
(* The hooks: the inductive invariant.                                     *)

(* What the driver has read of the entry of a. *)
Recognised(a) ==
  /\ original[a] = KernelAt[a]
  /\ wrapper[a] = IF a \in wrapped THEN WrapperAt[a] ELSE Nil

(* Where the entry of a hooked call leads: to its fake, or to the copy of  *)
(* its wrapper; but the hooking of a vfork without wrapper leaves its own  *)
(* entry alone and writes into that of fork.                               *)
Way(a) ==
  IF a = "vfork" /\ "vfork" \notin wrapped THEN KernelAt["vfork"]
  ELSE IF a = "fork" /\ "vfork" \in hooked \ wrapped THEN FakeAt["vfork"]
  ELSE IF a \in wrapped THEN CopyAt[a] ELSE FakeAt[a]

Diverted(a) ==
  /\ Recognised(a)
  /\ sys_call_table[a] = Way(a)
  /\ a \in wrapped => copy[a] = NewBranch(a)

Entries ==
  \A a \in Apis : IF a \in hooked THEN Diverted(a) ELSE sys_call_table[a] = KernelEntry(a)

(* fork_operation_init reads the entries of vfork and clone too. *)
Reading ==
  loader \in {"init", "hook"} =>
    \A a \in Apis \ hooked :
      IF "fork" \in hooked /\ a \in {"vfork", "clone"} THEN Recognised(a) ELSE wrapper[a] = Nil

Words == [Apis -> Int]
HookTypes ==
  /\ wrapped \in Kernels
  /\ sys_call_table \in Words /\ original \in Words /\ wrapper \in Words /\ copy \in Words

HookInv == HookTypes /\ Entries /\ Reading

-----------------------------------------------------------------------------
(* Branches.                                                               *)

LEMMA Kinds == Wrappable \subseteq Apis /\ \A a \in Apis : Ahead(a) \in {12, 16}
BY DEF Wrappable, Apis, HookOrder, Ahead

LEMMA WrappedKinds == HookTypes => wrapped \subseteq Wrappable /\ wrapped \subseteq Apis
BY Kinds, HookAssumption DEF HookTypes

LEMMA DivMod ==
  ASSUME NEW m \in Nat \ {0}, NEW b \in Nat, NEW i \in 0 .. m - 1
  PROVE  (b * m + i) % m = i /\ (b * m + i) \div m = b
OBVIOUS

LEMMA SmallMod ==
  ASSUME NEW m \in Nat \ {0}, NEW i \in 0 .. m - 1
  PROVE  i % m = i
OBVIOUS

LEMMA WordFacts ==
  /\ Word \in Nat /\ Word > 0
  /\ \A i \in 0 .. ImmSize - 1 :
       Branch * ImmSize + i \in 0 .. Word - 1
<1>1. /\ ImmSize \in Nat \ {0} /\ Opcodes \in Nat \ {0}
      /\ Branch \in Nat /\ Branch + 1 <= Opcodes
  BY HookAssumption
<1>2. ASSUME NEW m \in Nat, NEW n \in Nat, NEW k \in Nat, m <= n PROVE m * k <= n * k
  BY <1>2
<1>3. (Branch + 1) * ImmSize <= Opcodes * ImmSize
  BY <1>1, <1>2
<1>4. (Branch + 1) * ImmSize = Branch * ImmSize + ImmSize
  BY <1>1
<1>5. Word \in Nat /\ Branch * ImmSize \in Nat /\ Word = Opcodes * ImmSize
  BY <1>1 DEF Word
<1> HIDE DEF Word
<1> QED BY <1>1, <1>3, <1>4, <1>5

(* The branch with immediate i at the end of a wrapper or a copy at x. *)
LEMMA BranchFacts ==
  ASSUME NEW a \in Wrappable, NEW x \in 0 .. Word - 1, NEW y \in 0 .. Word - 1,
         NEW i \in 0 .. ImmSize - 1, 2 * i < ImmSize, y = x + Ahead(a) + 4 * i
  PROVE  LET inst == Branch * ImmSize + i
         IN  Target(a, x, inst) = y /\ Behind(a, x, inst) = y
<1> DEFINE inst == Branch * ImmSize + i
<1>1. inst % ImmSize = i /\ inst \div ImmSize = Branch
  <2>1. ImmSize \in Nat \ {0} /\ Branch \in Nat
    BY HookAssumption
  <2> QED BY <2>1, DivMod
<1>2. y % Word = y /\ y = x + 4 * i + Ahead(a)
  BY WordFacts, Kinds
<1> HIDE DEF inst
<1>3. Behind(a, x, inst) = y
  BY <1>1, <1>2 DEF Behind
<1>4. Target(a, x, inst) = y
  BY <1>1, <1>2 DEF Target
<1> QED BY <1>3, <1>4 DEF inst

LEMMA KernelBranchFacts ==
  ASSUME Layout, NEW a \in Wrappable
  PROVE  /\ Target(a, WrapperAt[a], KernelBranch(a)) = KernelAt[a]
         /\ Behind(a, WrapperAt[a], KernelBranch(a)) = KernelAt[a]
<1>1. PICK i \in 0 .. ImmSize - 1 : 2 * i < ImmSize /\ KernelAt[a] = WrapperAt[a] + Ahead(a) + 4 * i
  BY DEF Layout, Near
<1>2. /\ KernelAt[a] \in 0 .. Word - 1 /\ WrapperAt[a] \in 0 .. Word - 1
      /\ Ahead(a) \in Int /\ ImmSize \in Nat \ {0}
  BY Kinds, HookAssumption
<1>3. (KernelAt[a] - WrapperAt[a] - Ahead(a)) \div 4 = i /\ i % ImmSize = i
  BY <1>1, <1>2, WordFacts
<1>4. KernelBranch(a) = Branch * ImmSize + i
  BY <1>3 DEF KernelBranch
<1> QED BY <1>1, <1>2, <1>4, BranchFacts

LEMMA NewBranchFacts ==
  ASSUME Layout, NEW a \in Wrappable
  PROVE  NewBranch(a) \in Nat /\ Target(a, CopyAt[a], NewBranch(a)) = FakeAt[a]
<1>1. PICK i \in 0 .. ImmSize - 1 : 2 * i < ImmSize /\ FakeAt[a] = CopyAt[a] + Ahead(a) + 4 * i
  BY DEF Layout, Near
<1>2. /\ FakeAt[a] \in 0 .. Word - 1 /\ CopyAt[a] \in 0 .. Word - 1
      /\ Ahead(a) \in {12, 16} /\ Word \in Nat \ {0}
  BY Kinds, WordFacts, HookAssumption
<1>3. FakeAt[a] - CopyAt[a] - Ahead(a) = 4 * i /\ 4 * i \in 0 .. Word - 1
  BY <1>1, <1>2
<1>4. (4 * i) % Word = 4 * i /\ (4 * i) \div 4 = i
  <2>1. Word \in Nat \ {0}
    BY WordFacts
  <2>2. (4 * i) % Word = 4 * i
    BY <1>3, <2>1, SmallMod
  <2> QED BY <2>2
<1>5. Branch * ImmSize + i \in 0 .. Word - 1
  BY WordFacts
<1>6. (Branch * ImmSize + i) % Word = Branch * ImmSize + i
  BY <1>2, <1>5, SmallMod
<1>7. NewBranch(a) = Branch * ImmSize + i
  BY <1>3, <1>4, <1>6 DEF NewBranch
<1> QED BY <1>1, <1>2, <1>5, <1>7, BranchFacts

-----------------------------------------------------------------------------
(* The steps.                                                              *)

(* The loading of ModuleLife, seen from the table. *)
LEMMA LifeSteps == [HNext]_hvars => [Next]_vars
BY DEF HNext, LoadFresh, HookEntry, UnhookEntry, Elsewhere, Next, Loading, Unloading, hvars

LEMMA HookAt ==
  ASSUME LifeInv, Hook
  PROVE  \E a \in Apis \ hooked :
           /\ a = Head(todo) /\ hooked' = hooked \cup {a}
           /\ a \in {"vfork", "clone"} => "fork" \in hooked
           /\ a = "fork" => "vfork" \notin hooked /\ "clone" \notin hooked
<1>1. PICK n \in 1 .. 11 : todo = Suffix(HookOrder, n) /\ hooked = {HookOrder[i] : i \in 1 .. n - 1}
  BY DEF Hook, LifeInv, Positions, HookPosition
<1>2. Head(todo) = HookOrder[n] /\ HookOrder[n] \in Apis
  BY <1>1, Lists, HooksLeft
<1>3. \A i \in 1 .. 11 : HookOrder[i] = HookOrder[n] => i = n
  BY DEF HookOrder
<1>4. HookOrder[n] \notin hooked
  BY <1>1, <1>3
<1>5. /\ HookOrder[7] = "fork" /\ HookOrder[8] = "vfork" /\ HookOrder[9] = "clone"
      /\ HookOrder[n] \in {"vfork", "clone"} => n > 7
      /\ HookOrder[n] = "fork" => n = 7
      /\ \A i \in 1 .. 6 : HookOrder[i] \notin {"vfork", "clone"}
  BY DEF HookOrder
<1>6. HookOrder[n] \in {"vfork", "clone"} => "fork" \in hooked
  BY <1>1, <1>5
<1>7. HookOrder[n] = "fork" => "vfork" \notin hooked /\ "clone" \notin hooked
  BY <1>1, <1>5
<1> QED BY <1>2, <1>4, <1>6, <1>7 DEF Hook

LEMMA UnhookAt ==
  ASSUME LifeInv, Unhook
  PROVE  \E a \in hooked : /\ a = Head(todo) /\ hooked' = hooked \ {a}
                           /\ a = "vfork" => "fork" \notin hooked
<1>1. PICK n \in 1 .. 11 : todo = Suffix(UnhookOrder, n) /\ hooked = {UnhookOrder[i] : i \in n .. 11}
  BY DEF Unhook, LifeInv, Positions, UnhookPosition
<1>2. Head(todo) = UnhookOrder[n]
  BY <1>1, Lists, HooksLeft
<1>3. /\ UnhookOrder[n] = "vfork" => n = 4
      /\ \A i \in 4 .. 11 : UnhookOrder[i] # "fork"
  BY DEF UnhookOrder
<1> QED BY <1>1, <1>2, <1>3 DEF Unhook

(* What is read from the entries of calls that are not hooked yet. *)
LEMMA RecogniseFacts ==
  ASSUME Layout, HookInv, NEW calls \in SUBSET Apis, Recognise(calls),
         \A a \in calls : a \notin hooked /\ wrapper[a] = Nil
  PROVE  /\ original' \in Words /\ wrapper' \in Words
         /\ \A a \in calls : /\ original'[a] = KernelAt[a]
                             /\ wrapper'[a] = IF a \in wrapped THEN WrapperAt[a] ELSE Nil
         /\ \A a \in Apis \ calls : original'[a] = original[a] /\ wrapper'[a] = wrapper[a]
<1> DEFINE found == {a \in calls \cap wrapped : sys_call_table[a] = WrapperAt[a]}
<1>1. wrapped \subseteq Wrappable /\ wrapped \subseteq Apis
  BY WrappedKinds DEF HookInv
<1>2. \A a \in calls : sys_call_table[a] = KernelEntry(a)
  BY DEF HookInv, Entries
<1>3. found = calls \cap wrapped
  BY <1>2 DEF KernelEntry
<1>4. \A a \in wrapped : Behind(a, WrapperAt[a], KernelBranch(a)) = KernelAt[a]
  BY <1>1, KernelBranchFacts
<1>5. /\ original' = [a \in Apis |->
           IF a \in found THEN Behind(a, WrapperAt[a], KernelBranch(a))
           ELSE IF a \in calls THEN sys_call_table[a] ELSE original[a]]
      /\ wrapper' = [a \in Apis |-> IF a \in found THEN WrapperAt[a] ELSE wrapper[a]]
  BY DEF Recognise
<1>6. (\A a \in Apis : KernelAt[a] \in Int) /\ (\A a \in wrapped : WrapperAt[a] \in Int)
  BY <1>1, HookAssumption
<1> HIDE DEF found
<1>7. original' \in Words /\ wrapper' \in Words
  BY <1>1, <1>3, <1>4, <1>5, <1>6 DEF Words, HookInv, HookTypes
<1>8. \A a \in calls : original'[a] = KernelAt[a]
  BY <1>1, <1>2, <1>3, <1>4, <1>5 DEF KernelEntry
<1>9. \A a \in calls : wrapper'[a] = IF a \in wrapped THEN WrapperAt[a] ELSE Nil
  BY <1>3, <1>5
<1>10. \A a \in Apis \ calls : original'[a] = original[a] /\ wrapper'[a] = wrapper[a]
  BY <1>3, <1>5
<1> QED BY <1>7, <1>8, <1>9, <1>10

(* What the step that hooks a has to do for the invariant. *)
LEMMA HookedKeeps ==
  ASSUME HookInv, NEW a \in Apis \ hooked, hooked' = hooked \cup {a}, loader = "hook",
         wrapped' = wrapped, NEW read \in SUBSET (Apis \ hooked), a \in read,
         "fork" \in hooked' => {"vfork", "clone"} \ hooked' \subseteq read,
         read \subseteq {a, "vfork", "clone"}, read # {a} => "fork" \in hooked',
         original' \in Words, wrapper' \in Words, sys_call_table' \in Words, copy' \in Words,
         \A b \in read : Recognised(b)',
         \A b \in Apis \ read : original'[b] = original[b] /\ wrapper'[b] = wrapper[b],
         \A b \in Apis \ {a} : copy'[b] = copy[b],
         a \in wrapped => copy'[a] = NewBranch(a),
         \A b \in Apis \ hooked' : sys_call_table'[b] = sys_call_table[b],
         \A b \in hooked' : b \in Apis => sys_call_table'[b] = Way(b)'
  PROVE  HookInv'
<1>1. HookTypes'
  BY DEF HookInv, HookTypes
<1>2. Entries'
  <2>1. Diverted(a)'
    BY DEF Diverted
  <2>2. ASSUME NEW b \in hooked, b \in Apis PROVE Diverted(b)'
    <3>1. b \notin read /\ b # a /\ Diverted(b) /\ b \in hooked'
      BY <2>2 DEF HookInv, Entries
    <3> QED BY <3>1, <2>2 DEF Diverted, Recognised
  <2>3. ASSUME NEW b \in Apis \ hooked, b # a PROVE sys_call_table'[b] = KernelEntry(b)'
    BY <2>3 DEF HookInv, Entries, KernelEntry
  <2> QED BY <2>1, <2>2, <2>3 DEF Entries
<1>3. Reading'
  <2> SUFFICES ASSUME NEW b \in Apis \ hooked'
               PROVE  (IF "fork" \in hooked /\ b \in {"vfork", "clone"}
                       THEN Recognised(b) ELSE wrapper[b] = Nil)'
    BY DEF Reading
  <2>1. CASE "fork" \in hooked' /\ b \in {"vfork", "clone"}
    BY <2>1
  <2>2. CASE ~("fork" \in hooked' /\ b \in {"vfork", "clone"})
    <3>1. b \notin read /\ wrapper'[b] = wrapper[b]
      BY <2>2
    <3> QED BY <2>2, <3>1 DEF HookInv, Reading
  <2> QED BY <2>1, <2>2
<1> QED BY <1>1, <1>2, <1>3 DEF HookInv

(* All hooks but that of a vfork without wrapper are in the entry of their *)
(* own call.                                                               *)
LEMMA WayKeeps ==
  ASSUME HookInv, NEW a \in Apis \ hooked, hooked' = hooked \cup {a}, wrapped' = wrapped,
         a = "vfork" => "vfork" \in wrapped, a = "fork" => "vfork" \notin hooked,
         \A b \in Apis \ {a} : sys_call_table'[b] = sys_call_table[b],
         sys_call_table'[a] = IF a \in wrapped THEN CopyAt[a] ELSE FakeAt[a]
  PROVE  /\ \A b \in Apis \ hooked' : sys_call_table'[b] = sys_call_table[b]
         /\ \A b \in hooked' : b \in Apis => sys_call_table'[b] = Way(b)'
<1>1. ASSUME NEW b \in hooked, b \in Apis
      PROVE  sys_call_table'[b] = Way(b)'
  BY <1>1 DEF HookInv, Entries, Diverted, Way
<1>2. sys_call_table'[a] = Way(a)'
  BY DEF Way
<1> QED BY <1>1, <1>2

LEMMA ReplaceFacts ==
  ASSUME Layout, HookInv, NEW a \in Apis, NEW entry, NEW has_wrapper \in BOOLEAN,
         Replace(a, entry, has_wrapper),
         has_wrapper <=> a \in wrapped, a \in wrapped \/ entry = a
  PROVE  /\ sys_call_table' \in Words /\ copy' \in Words
         /\ \A b \in Apis \ {a} : sys_call_table'[b] = sys_call_table[b] /\ copy'[b] = copy[b]
         /\ sys_call_table'[a] = IF a \in wrapped THEN CopyAt[a] ELSE FakeAt[a]
         /\ a \in wrapped => copy'[a] = NewBranch(a)
<1>1. sys_call_table \in Words /\ copy \in Words /\ FakeAt[a] \in Int
  BY HookAssumption DEF HookInv, HookTypes
<1>2. CASE a \in wrapped
  <2>1. NewBranch(a) \in Int /\ CopyAt[a] \in Int
    BY <1>2, WrappedKinds, NewBranchFacts, HookAssumption DEF HookInv
  <2>2. /\ copy' = [copy EXCEPT ![a] = NewBranch(a)]
        /\ sys_call_table' = [sys_call_table EXCEPT ![a] = CopyAt[a]]
    BY <1>2 DEF Replace
  <2> QED BY <1>1, <1>2, <2>1, <2>2 DEF Words
<1>3. CASE a \notin wrapped
  <2>1. sys_call_table' = [sys_call_table EXCEPT ![a] = FakeAt[a]] /\ copy' = copy
    BY <1>3 DEF Replace
  <2> QED BY <1>1, <1>3, <2>1 DEF Words
<1> QED BY <1>2, <1>3

LEMMA HookEntryKeeps ==
  ASSUME Layout, LifeInv, HookInv, HookEntry
  PROVE  HookInv'
<1>1. PICK a \in Apis \ hooked :
        /\ a = Head(todo) /\ hooked' = hooked \cup {a}
        /\ a \in {"vfork", "clone"} => "fork" \in hooked
        /\ a = "fork" => "vfork" \notin hooked /\ "clone" \notin hooked
  BY HookAt DEF HookEntry
<1>2. /\ loader = "hook" /\ wrapped' = wrapped /\ wrapped \subseteq Wrappable
      /\ wrapped \subseteq Apis
  BY WrappedKinds DEF HookEntry, Hook, HookInv
<1>3. /\ a \notin {"vfork", "clone"} => wrapper[a] = Nil
      /\ a \in {"vfork", "clone"} => Recognised(a)
      /\ "fork" \in hooked => \A b \in {"vfork", "clone"} \ hooked : b \in Apis => Recognised(b)
  BY <1>1, <1>2 DEF HookInv, Reading
<1>4. {"fork", "vfork", "clone", "execve"} \subseteq Apis
  BY Kinds DEF Wrappable
<1>5. \A b \in Apis \cap Wrappable : WrapperAt[b] # Nil
  BY HookAssumption DEF Nil
<1>6. CASE a = "fork"
  <2> DEFINE calls == {"fork", "vfork", "clone"}
  <2>1. Recognise(calls) /\ Replace(a, a, wrapper'[a] # Nil)
    BY <1>1, <1>6 DEF HookEntry, HookFork
  <2>2. \A b \in calls : b \notin hooked /\ wrapper[b] = Nil
    BY <1>1, <1>2, <1>4, <1>6 DEF HookInv, Reading
  <2>3. calls \in SUBSET (Apis \ hooked) /\ a \in calls
    BY <1>4, <1>6, <2>2
  <2> HIDE DEF calls
  <2>4. /\ original' \in Words /\ wrapper' \in Words
        /\ \A b \in calls : Recognised(b)'
        /\ \A b \in Apis \ calls : original'[b] = original[b] /\ wrapper'[b] = wrapper[b]
    BY <1>2, <2>1, <2>2, <2>3, RecogniseFacts DEF Recognised
  <2>5. wrapper'[a] # Nil <=> a \in wrapped
    BY <1>2, <1>5, <2>3, <2>4 DEF Recognised
  <2>6. /\ sys_call_table' \in Words /\ copy' \in Words
        /\ \A b \in Apis \ {a} : sys_call_table'[b] = sys_call_table[b] /\ copy'[b] = copy[b]
        /\ sys_call_table'[a] = IF a \in wrapped THEN CopyAt[a] ELSE FakeAt[a]
        /\ a \in wrapped => copy'[a] = NewBranch(a)
    BY <2>1, <2>5, ReplaceFacts
  <2>7. /\ {"vfork", "clone"} \ hooked' \subseteq calls /\ calls \subseteq {a, "vfork", "clone"}
        /\ "fork" \in hooked'
    BY <1>1, <1>6 DEF calls
  <2>8. /\ \A b \in Apis \ hooked' : sys_call_table'[b] = sys_call_table[b]
        /\ \A b \in hooked' : b \in Apis => sys_call_table'[b] = Way(b)'
    BY <1>1, <1>2, <1>6, <2>6, WayKeeps
  <2> QED BY <1>1, <1>2, <2>3, <2>4, <2>6, <2>7, <2>8, HookedKeeps
<1> DEFINE read == {a} \cup (IF "fork" \in hooked THEN {"vfork", "clone"} \ hooked ELSE {})
<1>7. ASSUME a # "fork",
             original' \in Words, wrapper' \in Words, Recognised(a)',
             \A b \in Apis \ {a} : original'[b] = original[b] /\ wrapper'[b] = wrapper[b],
             sys_call_table' \in Words, copy' \in Words,
             \A b \in Apis \ {a} : copy'[b] = copy[b],
             a \in wrapped => copy'[a] = NewBranch(a),
             \A b \in Apis \ hooked' : sys_call_table'[b] = sys_call_table[b],
             \A b \in hooked' : b \in Apis => sys_call_table'[b] = Way(b)'
      PROVE  HookInv'
  <2>1. /\ read \in SUBSET (Apis \ hooked) /\ a \in read
        /\ "fork" \in hooked' => {"vfork", "clone"} \ hooked' \subseteq read
        /\ read \subseteq {a, "vfork", "clone"} /\ (read # {a} => "fork" \in hooked')
    BY <1>1, <1>4, <1>7
  <2>2. \A b \in read : Recognised(b)'
    <3>1. ASSUME NEW b \in {"vfork", "clone"} \ hooked, "fork" \in hooked, b # a
          PROVE  Recognised(b)'
      BY <1>2, <1>3, <1>4, <1>7, <3>1 DEF Recognised
    <3> QED BY <1>7, <3>1
  <2>3. \A b \in Apis \ read : original'[b] = original[b] /\ wrapper'[b] = wrapper[b]
    BY <1>7
  <2> HIDE DEF read
  <2> QED BY <1>1, <1>2, <1>7, <2>1, <2>2, <2>3, HookedKeeps
<1>8. CASE a \in {"vfork", "clone"} /\ (a = "vfork" => "vfork" \in wrapped)
  <2>1. /\ Replace(a, IF a = "vfork" THEN "fork" ELSE a, wrapper[a] # Nil)
        /\ UNCHANGED <<original, wrapper>>
    BY <1>1, <1>8 DEF HookEntry, HookFork
  <2>2. wrapper[a] # Nil <=> a \in wrapped
    BY <1>2, <1>3, <1>5, <1>8 DEF Recognised
  <2>3. Recognised(a)' /\ original' \in Words /\ wrapper' \in Words
    BY <1>2, <1>3, <1>8, <2>1 DEF Recognised, HookInv, HookTypes
  <2>4. a \in wrapped \/ (IF a = "vfork" THEN "fork" ELSE a) = a
    BY <1>2, <1>8
  <2>5. /\ sys_call_table' \in Words /\ copy' \in Words
        /\ \A b \in Apis \ {a} : sys_call_table'[b] = sys_call_table[b] /\ copy'[b] = copy[b]
        /\ sys_call_table'[a] = IF a \in wrapped THEN CopyAt[a] ELSE FakeAt[a]
        /\ a \in wrapped => copy'[a] = NewBranch(a)
    BY <2>1, <2>2, <2>4, ReplaceFacts
  <2>6. /\ \A b \in Apis \ hooked' : sys_call_table'[b] = sys_call_table[b]
        /\ \A b \in hooked' : b \in Apis => sys_call_table'[b] = Way(b)'
    BY <1>1, <1>2, <1>8, <2>5, WayKeeps
  <2> QED BY <1>7, <1>8, <2>1, <2>3, <2>5, <2>6
<1>9. CASE a = "execve"
  <2>1. Recognise({a}) /\ Replace(a, a, wrapper'[a] # Nil)
    BY <1>1, <1>9 DEF HookEntry, HookExec
  <2>2. wrapper[a] = Nil
    BY <1>3, <1>9
  <2>3. /\ original' \in Words /\ wrapper' \in Words /\ Recognised(a)'
        /\ \A b \in Apis \ {a} : original'[b] = original[b] /\ wrapper'[b] = wrapper[b]
    <3>1. \A b \in {a} : b \notin hooked /\ wrapper[b] = Nil
      BY <1>1, <2>2
    <3>2. {a} \in SUBSET Apis
      OBVIOUS
    <3> QED BY <1>2, <2>1, <3>1, <3>2, RecogniseFacts DEF Recognised
  <2>4. wrapper'[a] # Nil <=> a \in wrapped
    BY <1>2, <1>5, <2>3 DEF Recognised
  <2>5. /\ sys_call_table' \in Words /\ copy' \in Words
        /\ \A b \in Apis \ {a} : sys_call_table'[b] = sys_call_table[b] /\ copy'[b] = copy[b]
        /\ sys_call_table'[a] = IF a \in wrapped THEN CopyAt[a] ELSE FakeAt[a]
        /\ a \in wrapped => copy'[a] = NewBranch(a)
    BY <2>1, <2>4, ReplaceFacts
  <2>6. /\ \A b \in Apis \ hooked' : sys_call_table'[b] = sys_call_table[b]
        /\ \A b \in hooked' : b \in Apis => sys_call_table'[b] = Way(b)'
    BY <1>1, <1>2, <1>9, <2>5, WayKeeps
  <2> QED BY <1>7, <1>9, <2>3, <2>5, <2>6
<1>10. CASE a \notin Wrappable
  <2>1. /\ original' = [original EXCEPT ![a] = sys_call_table[a]]
        /\ sys_call_table' = [sys_call_table EXCEPT ![a] = FakeAt[a]]
        /\ UNCHANGED <<wrapper, copy>>
    BY <1>1, <1>10 DEF HookEntry, HookPlain, Wrappable
  <2>2. /\ a \notin wrapped /\ sys_call_table[a] = KernelAt[a] /\ wrapper[a] = Nil
        /\ KernelAt[a] \in Int /\ FakeAt[a] \in Int
    BY <1>1, <1>2, <1>3, <1>10, HookAssumption DEF HookInv, Entries, KernelEntry, Wrappable
  <2>3. /\ original' \in Words /\ wrapper' \in Words
        /\ sys_call_table' \in Words /\ copy' \in Words
    BY <2>1, <2>2 DEF HookInv, HookTypes, Words
  <2>4. /\ original'[a] = KernelAt[a] /\ sys_call_table'[a] = FakeAt[a] /\ wrapper'[a] = Nil
        /\ \A b \in Apis \ {a} : /\ original'[b] = original[b] /\ wrapper'[b] = wrapper[b]
                                 /\ sys_call_table'[b] = sys_call_table[b] /\ copy'[b] = copy[b]
    BY <2>1, <2>2 DEF HookInv, HookTypes, Words
  <2>5. Recognised(a)'
    BY <1>2, <2>2, <2>4 DEF Recognised
  <2>6. a # "fork" /\ a # "vfork"
    BY <1>10 DEF Wrappable
  <2>7. /\ \A b \in Apis \ hooked' : sys_call_table'[b] = sys_call_table[b]
        /\ \A b \in hooked' : b \in Apis => sys_call_table'[b] = Way(b)'
    BY <1>1, <1>2, <2>2, <2>4, <2>6, WayKeeps
  <2> QED BY <1>7, <2>2, <2>3, <2>4, <2>5, <2>6, <2>7
<1>11. CASE a = "vfork" /\ "vfork" \notin wrapped
  <2>1. Replace(a, "fork", wrapper[a] # Nil) /\ UNCHANGED <<original, wrapper>>
    BY <1>1, <1>11 DEF HookEntry, HookFork
  <2>2. wrapper[a] = Nil /\ Recognised(a)' /\ original' \in Words /\ wrapper' \in Words
    BY <1>2, <1>3, <1>11, <2>1 DEF Recognised, HookInv, HookTypes
  <2>3. sys_call_table' = [sys_call_table EXCEPT !["fork"] = FakeAt["vfork"]] /\ copy' = copy
    BY <1>11, <2>1, <2>2 DEF Replace
  <2>4. sys_call_table' \in Words /\ copy' \in Words
    <3>1. FakeAt["vfork"] \in Int
      BY <1>4, HookAssumption
    <3> QED BY <2>3, <3>1 DEF HookInv, HookTypes, Words
  <2>5. /\ sys_call_table'["fork"] = FakeAt["vfork"] /\ "fork" \in hooked
        /\ \A b \in Apis \ {"fork"} : sys_call_table'[b] = sys_call_table[b]
    BY <1>1, <1>4, <1>11, <2>3 DEF HookInv, HookTypes, Words
  <2>6. sys_call_table[a] = KernelAt["vfork"]
    BY <1>1, <1>11 DEF HookInv, Entries, KernelEntry
  <2>7. \A b \in hooked' : b \in Apis => sys_call_table'[b] = Way(b)'
    <3>1. ASSUME NEW b \in hooked, b \in Apis, b # "fork"
          PROVE  sys_call_table'[b] = Way(b)'
      BY <1>1, <1>2, <1>11, <2>5, <3>1 DEF HookInv, Entries, Diverted, Way
    <3>2. Way("fork")' = FakeAt["vfork"] /\ Way(a)' = KernelAt["vfork"]
      BY <1>1, <1>2, <1>11 DEF Way
    <3> QED BY <1>1, <1>11, <2>5, <2>6, <3>1, <3>2
  <2>8. \A b \in Apis \ hooked' : sys_call_table'[b] = sys_call_table[b]
    BY <1>1, <2>5
  <2> QED BY <1>7, <1>11, <2>1, <2>2, <2>3, <2>4, <2>7, <2>8
<1> QED BY <1>6, <1>8, <1>9, <1>10, <1>11 DEF Wrappable

LEMMA UnhookEntryKeeps ==
  ASSUME LifeInv, HookInv, UnhookEntry
  PROVE  HookInv'
<1>1. PICK a \in hooked : /\ a = Head(todo) /\ hooked' = hooked \ {a}
                          /\ a = "vfork" => "fork" \notin hooked
  BY UnhookAt DEF UnhookEntry
<1>2. /\ a \in Apis /\ Recognised(a) /\ UNCHANGED <<wrapped, original, wrapper, copy>>
      /\ wrapped \subseteq Wrappable /\ sys_call_table \in Words
  BY <1>1, WrappedKinds DEF UnhookEntry, LifeInv, TypeOK, HookInv, Entries, Diverted, HookTypes
<1>3. KernelEntry(a) \in Int /\ KernelAt[a] # Nil /\ (a \in wrapped => WrapperAt[a] # Nil)
  BY <1>2, HookAssumption DEF KernelEntry, Nil
<1>4. sys_call_table' = [sys_call_table EXCEPT ![a] = KernelEntry(a)]
  <2>1. CASE a \in wrapped
    <3>1. wrapper[a] = WrapperAt[a] /\ wrapper[a] # Nil /\ KernelEntry(a) = wrapper[a]
      BY <1>2, <1>3, <2>1 DEF Recognised, KernelEntry
    <3> QED BY <1>1, <1>2, <2>1, <3>1 DEF UnhookEntry, UnhookWrapped
  <2>2. CASE a \notin wrapped
    <3>1. wrapper[a] = Nil /\ original[a] = KernelEntry(a) /\ original[a] # Nil
      BY <1>2, <1>3, <2>2 DEF Recognised, KernelEntry
    <3> QED BY <1>1, <1>2, <2>2, <3>1 DEF UnhookEntry, UnhookWrapped, UnhookPlain
  <2> QED BY <2>1, <2>2
<1>5. HookTypes'
  BY <1>2, <1>3, <1>4 DEF HookInv, HookTypes, Words
<1>6. Entries'
  <2>1. ASSUME NEW b \in Apis, b # a
        PROVE  /\ sys_call_table'[b] = sys_call_table[b] /\ KernelEntry(b)' = KernelEntry(b)
               /\ b \in hooked => Way(b)' = Way(b)
    BY <1>1, <1>2, <1>4, <2>1 DEF Way, KernelEntry, Words
  <2>2. sys_call_table'[a] = KernelEntry(a)'
    BY <1>2, <1>4 DEF KernelEntry, Words
  <2> QED BY <1>1, <1>2, <2>1, <2>2 DEF HookInv, Entries, Diverted, Recognised
<1>7. Reading'
  BY DEF UnhookEntry, Unhook, Reading
<1> QED BY <1>5, <1>6, <1>7 DEF HookInv

LEMMA LoadKeeps ==
  ASSUME LifeInv, HookInv, LoadFresh
  PROVE  HookInv'
<1>1. /\ hooked = {} /\ hooked' = {} /\ UNCHANGED <<wrapped, sys_call_table>>
      /\ original' = Fresh /\ wrapper' = Fresh /\ copy' = Fresh
  BY DEF LifeInv, Positions, LoadFresh, Load
<1>2. Fresh \in Words /\ \A a \in Apis : Fresh[a] = Nil
  BY DEF Fresh, Words, Nil
<1> QED BY <1>1, <1>2 DEF HookInv, HookTypes, Entries, Reading, KernelEntry

LEMMA ElsewhereKeeps ==
  ASSUME LifeInv, HookInv, Elsewhere \/ UNCHANGED hvars
  PROVE  HookInv'
<1>1. /\ UNCHANGED <<hooked, wrapped, sys_call_table, original, wrapper, copy>>
      /\ loader' \in {"init", "hook"} => loader \in {"init", "hook"}
  BY CallKinds DEF Elsewhere, InitPart, FailsUnseen, InitFails, InitDog, Unload, WaitDown, WaitSignalled, WaitRead,
     WaitTest, Grace, Free, Gone, Call, hvars, vars, hook_vars
<1>2. HookTypes' /\ Entries'
  BY <1>1 DEF HookInv, HookTypes, Entries, Diverted, Way, Recognised, KernelEntry
<1>3. Reading'
  BY <1>1 DEF HookInv, Reading, Recognised
<1> QED BY <1>2, <1>3 DEF HookInv

LEMMA HookInit == HInit => HookInv
<1> SUFFICES ASSUME HInit PROVE HookInv
  OBVIOUS
<1>1. /\ hooked = {} /\ wrapped \in Kernels
      /\ sys_call_table = [a \in Apis |-> KernelEntry(a)]
      /\ original = Fresh /\ wrapper = Fresh /\ copy = Fresh
  BY DEF HInit, Init
<1>2. Fresh \in Words /\ \A a \in Apis : Fresh[a] = Nil
  BY DEF Fresh, Words, Nil
<1>3. \A a \in Apis : KernelEntry(a) \in Int
  BY <1>1, HookAssumption DEF KernelEntry
<1> QED BY <1>1, <1>2, <1>3 DEF HookInv, HookTypes, Entries, Reading, Words

-----------------------------------------------------------------------------
(* Where calls get to.                                                     *)

LEMMA Arrivals ==
  ASSUME Layout, HookInv, NEW a \in Apis
  PROVE  /\ a \in hooked \ Mixed => Arrives(sys_call_table[a]) = FakeAt[a]
         /\ a \notin hooked \/ (a \in Mixed /\ a = "vfork") => Arrives(sys_call_table[a]) = KernelAt[a]
<1>1. wrapped \subseteq Wrappable /\ Wrappable \subseteq Apis
  BY WrappedKinds, Kinds DEF HookInv
<1>2. ASSUME NEW b \in wrapped, sys_call_table[a] = WrapperAt[b]
      PROVE  Arrives(sys_call_table[a]) = KernelAt[b]
  <2>1. (CHOOSE c \in wrapped : sys_call_table[a] = WrapperAt[c]) = b
    BY <1>1, <1>2 DEF Layout
  <2>2. Target(b, WrapperAt[b], KernelBranch(b)) = KernelAt[b]
    BY <1>1, KernelBranchFacts
  <2> QED BY <1>2, <2>1, <2>2 DEF Arrives
<1>3. ASSUME NEW b \in wrapped, sys_call_table[a] = CopyAt[b], copy[b] = NewBranch(b)
      PROVE  Arrives(sys_call_table[a]) = FakeAt[b]
  <2>1. b \in Wrappable /\ ~\E c \in wrapped : CopyAt[b] = WrapperAt[c]
    BY <1>1 DEF Layout
  <2>2. (CHOOSE c \in Wrappable : CopyAt[b] = CopyAt[c]) = b
    BY <2>1 DEF Layout
  <2>3. NewBranch(b) # Nil /\ Target(b, CopyAt[b], NewBranch(b)) = FakeAt[b]
    BY <2>1, NewBranchFacts DEF Nil
  <2>4. \E c \in Wrappable : CopyAt[b] = CopyAt[c] /\ copy[c] # Nil
    BY <1>3, <2>1, <2>3
  <2>5. (CHOOSE c \in Wrappable : CopyAt[b] = CopyAt[c] /\ copy[c] # Nil) = b
    BY <2>1, <2>4 DEF Layout
  <2> QED BY <1>3, <2>1, <2>2, <2>3, <2>4, <2>5 DEF Arrives
<1>4. ASSUME sys_call_table[a] \in {KernelAt[a], FakeAt[a]}
      PROVE  Arrives(sys_call_table[a]) = sys_call_table[a]
  BY <1>1, <1>4 DEF Layout, Arrives
<1>5. CASE a \in hooked \ Mixed
  <2>1. Way(a) = IF a \in wrapped THEN CopyAt[a] ELSE FakeAt[a]
    BY <1>5 DEF Way, Mixed
  <2> QED BY <1>3, <1>4, <1>5, <2>1 DEF HookInv, Entries, Diverted
<1>6. CASE a \notin hooked
  BY <1>2, <1>4, <1>6 DEF HookInv, Entries, KernelEntry
<1>7. CASE a \in hooked /\ a \in Mixed /\ a = "vfork"
  BY <1>4, <1>7 DEF HookInv, Entries, Diverted, Way, Mixed
<1> QED BY <1>5, <1>6, <1>7

LEMMA HookStep == Layout /\ LifeInv /\ HookInv /\ [HNext]_hvars => HookInv'
BY LoadKeeps, HookEntryKeeps, UnhookEntryKeeps, ElsewhereKeeps DEF HNext

(* The table follows the loading and unloading of ModuleLife. *)
LEMMA HookedLife == HSpec => []LifeInv
<1>1. HInit => Init
  BY DEF HInit
<1>2. HSpec => Spec
  BY <1>1, LifeSteps, PTL DEF HSpec, Spec
<1> QED BY <1>2, LifeInvariant, PTL

(* The inductive invariant of the table. *)
THEOREM HookInvariant == Layout => (HSpec => []HookInv)
<1> SUFFICES ASSUME Layout PROVE HSpec => []HookInv
  OBVIOUS
<1>1. LifeInv /\ HookInv /\ [HNext]_hvars => HookInv'
  BY HookStep
<1> QED BY <1>1, HookInit, HookedLife, PTL DEF HSpec

(* At every moment of loading and unloading every call is served by the    *)
(* kernel's own function for it (fork.c:238, 284; exec.c:97, 109), but for *)
(* a fork in a kernel whose vfork has no wrapper (fork.c:322). *)
THEOREM AlwaysServed == Layout => (HSpec => []ServedByOwn)
<1> SUFFICES ASSUME Layout PROVE HSpec => []ServedByOwn
  OBVIOUS
<1>1. HookInv => ServedByOwn
  <2> SUFFICES ASSUME HookInv, NEW a \in Apis, a \notin Mixed \/ a = "vfork"
               PROVE  ServedBy(a) = KernelAt[a]
    BY DEF ServedByOwn
  <2>1. CASE a \in hooked \ Mixed
    <3>1. (CHOOSE b \in Apis : FakeAt[a] = FakeAt[b]) = a
      BY DEF Layout
    <3>2. original[a] = KernelAt[a]
      BY <2>1 DEF HookInv, Entries, Diverted, Recognised
    <3> QED BY <2>1, <3>1, <3>2, Arrivals DEF ServedBy
  <2>2. CASE a \notin hooked \ Mixed
    BY <2>2, Arrivals DEF ServedBy, Layout
  <2> QED BY <2>1, <2>2
<1> QED BY <1>1, HookInvariant, PTL

(* The loaded module sees every call it names, through a wrapper or not,   *)
(* in a kernel whose vfork has a wrapper; in the others every call but     *)
(* fork and vfork (fork.c:280, 304, 322, 328). *)
THEOREM AllCallsSeen == Layout => (HSpec => []AllMonitored)
<1> SUFFICES ASSUME Layout PROVE HSpec => []AllMonitored
  OBVIOUS
<1>1. LifeInv /\ HookInv => AllMonitored
  BY Arrivals DEF LifeInv, Positions, AllMonitored
<1> QED BY <1>1, HookInvariant, HookedLife, PTL

(* The set of hooked calls of ModuleLife is what the table says, so that   *)
(* what AllTakenBack says of it holds of the entries; and without hooks    *)
(* the table is the kernel's, whatever was mixed up in it. *)
THEOREM TableFollows == Layout => (HSpec => []HookedIsTable)
<1> SUFFICES ASSUME Layout PROVE HSpec => []HookedIsTable
  OBVIOUS
<1>1. LifeInv /\ HookInv => HookedIsTable
  <2> SUFFICES ASSUME LifeInv, HookInv PROVE HookedIsTable
    OBVIOUS
  <2>1. \A a \in Apis : hooked = {} => sys_call_table[a] = KernelEntry(a)
    BY DEF HookInv, Entries
  <2>2. ASSUME NEW a \in Apis \ Mixed
        PROVE  a \in hooked <=> sys_call_table[a] # KernelEntry(a)
    <3>1. a \in wrapped => a \in Wrappable
      BY WrappedKinds DEF HookInv
    <3>2. a \in wrapped => CopyAt[a] # WrapperAt[a]
      BY <3>1 DEF Layout
    <3>3. FakeAt[a] # KernelAt[a]
      BY DEF Layout
    <3>4. Way(a) = IF a \in wrapped THEN CopyAt[a] ELSE FakeAt[a]
      BY DEF Way, Mixed
    <3> QED BY <3>2, <3>3, <3>4 DEF HookInv, Entries, Diverted, KernelEntry
  <2>3. hooked \subseteq Apis
    BY DEF LifeInv, TypeOK
  <2>4. hooked \ Mixed = {a \in Apis \ Mixed : sys_call_table[a] # KernelEntry(a)}
    BY <2>2, <2>3
  <2> QED BY <2>1, <2>4 DEF HookedIsTable
<1> QED BY <1>1, HookInvariant, HookedLife, PTL
===============================================================================
