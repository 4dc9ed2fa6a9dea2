---------------------------- MODULE SysCallsProofs ----------------------------
(***************************************************************************)
(* Proofs about module SysCalls, for any threads, descriptors and paths: a *)
(* cached path is the path of the open file, and a call is logged with the *)
(* file it worked on, unless the descriptor was changed behind the thread. *)
(***************************************************************************)
EXTENDS SysCalls, TLAPS

-----------------------------------------------------------------------------
(* The inductive invariant.                                                *)

Single(bag) == \A p, q \in Recorded(bag) : p = q /\ bag[p] = 1

(* What a thread knows of descriptor fd, at point at of a call on d that   *)
(* has path p in hand: bag is what it has recorded of fd, file what is     *)
(* open there; a stale record is renewed before it is used.                *)
Agreement(at, d, p, fd, bag, stale, file) ==
  /\ at \in {"io", "close"} /\ d = fd => p = file
  /\ at = "opened" /\ d = fd => file # NoPath /\ Recorded(bag) = {}
  /\ at = "closed" /\ d = fd => Single(bag)
  /\ ~stale /\ ~(at = "closed" /\ d = fd) => \A q \in Recorded(bag) : q = file /\ bag[q] = 1

Agrees(t, fd) == Agreement(pc[t], arg[t], path[t], fd, cache[t][fd], renew[t], files[fd])

(* A thread in a call has renewed its record; one in execve has announced  *)
(* the new program.                                                        *)
Ready(at, d, stale) ==
  /\ at = "exec" => stale
  /\ at \notin {"user", "exec"} => ~stale
  /\ at \in {"io", "close", "closed"} => d \in Fds
Sound(t) == Ready(pc[t], arg[t], renew[t]) /\ (t \notin alive => pc[t] = "user")

Known(t) == t \in alive => \A fd \in Fds : <<t, fd>> \notin foreign => Agrees(t, fd)

CallsInv == TypeOK /\ \A t \in Threads : Sound(t) /\ Known(t)

-----------------------------------------------------------------------------
(* The bags and the caches.                                                *)

Bags == [Paths -> Nat]
Caches == [Keys -> Bags]

LEMMA BagFacts ==
  ASSUME NEW bag \in Bags
  PROVE  /\ NoRecords \in Bags /\ Recorded(NoRecords) = {}
         /\ Recorded(bag) \subseteq Paths
         /\ \A p \in Paths : With(bag, p) \in Bags
         /\ \A p \in Recorded(bag) : Without(bag, p) \in Bags
BY DEF Bags, NoRecords, Recorded, With, Without

(* The first record of a descriptor, and the only one deleted. *)
LEMMA FirstRecord ==
  ASSUME NEW bag \in Bags, Recorded(bag) = {}, NEW p \in Paths
  PROVE  Recorded(With(bag, p)) = {p} /\ With(bag, p)[p] = 1
BY DEF Bags, Recorded, With

LEMMA LastRecord ==
  ASSUME NEW bag \in Bags, Single(bag), NEW p \in Recorded(bag)
  PROVE  Recorded(Without(bag, p)) = {}
BY DEF Bags, Recorded, Without, Single

LEMMA EnteredFacts ==
  ASSUME TypeOK, NEW t \in Threads
  PROVE  /\ Entered(t) \in Caches
         /\ Empty \in Caches /\ \A k \in Keys : Recorded(Empty[k]) = {}
  BY BagFacts DEF TypeOK, Entered, Empty, Caches, Bags, NoRecords, Recorded

LEMMA LookedUpFacts ==
  ASSUME TypeOK, NEW bags \in Caches, NEW fd \in Fds
  PROVE  /\ LookedUp(bags, fd) \in Caches
         /\ Answers(bags, fd) \subseteq Paths \cup {NoPath}
         /\ \A k \in Keys \ {fd} : LookedUp(bags, fd)[k] = bags[k]
         /\ Recorded(bags[fd]) # {} => LookedUp(bags, fd)[fd] = bags[fd]
         /\ Recorded(bags[fd]) = {} =>
              \A p \in Recorded(LookedUp(bags, fd)[fd]) :
                p = files[fd] /\ LookedUp(bags, fd)[fd][p] = 1
<1>1. fd \in Keys /\ bags[fd] \in Bags /\ files[fd] \in Paths \cup {NoPath}
  BY DEF Keys, TypeOK, Caches
<1>2. CASE Recorded(bags[fd]) # {} \/ files[fd] = NoPath
  BY <1>1, <1>2, BagFacts DEF LookedUp, Answers
<1>3. CASE ~(Recorded(bags[fd]) # {} \/ files[fd] = NoPath)
  <2>1. files[fd] \in Paths /\ Recorded(bags[fd]) = {}
    BY <1>1, <1>3
  <2>2. LookedUp(bags, fd) = [bags EXCEPT ![fd] = With(bags[fd], files[fd])]
    BY <1>3 DEF LookedUp
  <2>3. /\ With(bags[fd], files[fd]) \in Bags
        /\ Recorded(With(bags[fd], files[fd])) = {files[fd]}
        /\ With(bags[fd], files[fd])[files[fd]] = 1
    BY <1>1, <2>1, BagFacts, FirstRecord
  <2>4. LookedUp(bags, fd)[fd] = With(bags[fd], files[fd])
    BY <1>1, <2>2 DEF Caches
  <2>5. LookedUp(bags, fd) \in Caches /\ \A k \in Keys \ {fd} : LookedUp(bags, fd)[k] = bags[k]
    BY <1>1, <2>2, <2>3 DEF Caches
  <2>6. Answers(bags, fd) \subseteq Paths \cup {NoPath}
    BY <1>1, <2>1 DEF Answers
  <2> QED BY <2>1, <2>3, <2>4, <2>5, <2>6
<1> QED BY <1>2, <1>3

-----------------------------------------------------------------------------
(* What a step keeps for the thread that takes it and for the others.      *)

LEMMA TouchFacts ==
  ASSUME NEW pairs, Touch(pairs), NEW t \in Threads, NEW fd \in Fds, <<t, fd>> \notin foreign'
  PROVE  \/ <<t, fd>> \notin foreign /\ <<t, fd>> \notin pairs
         \/ Agrees(t, fd)'
<1> SUFFICES ASSUME <<t, fd>> \in foreign \cup pairs PROVE Agrees(t, fd)'
  OBVIOUS
<1>1. Recorded(cache'[t][fd]) = {} /\ ~(pc'[t] # "user" /\ arg'[t] = fd)
  BY DEF Touch
<1> QED BY <1>1 DEF Agrees, Agreement

LEMMA OwnKeeps ==
  ASSUME NEW t \in Threads, NEW pairs, Touch(pairs),
         \A fd \in Fds : t \in alive' /\ <<t, fd>> \notin foreign /\ <<t, fd>> \notin pairs =>
           Agrees(t, fd)'
  PROVE  Known(t)'
BY TouchFacts DEF Known

Untouched(u) ==
  /\ pc'[u] = pc[u] /\ arg'[u] = arg[u] /\ path'[u] = path[u]
  /\ cache'[u] = cache[u] /\ renew'[u] = renew[u]

LEMMA OthersKeep ==
  ASSUME NEW u \in Threads, Sound(u), Known(u), NEW pairs, Touch(pairs), Untouched(u),
         u \in alive' => u \in alive, u \notin alive' => pc[u] = "user",
         \A fd \in Fds : u \in alive' => files'[fd] = files[fd] \/ <<u, fd>> \in pairs
  PROVE  Sound(u)' /\ Known(u)'
<1>1. Sound(u)'
  BY DEF Sound, Untouched
<1>2. ASSUME NEW fd \in Fds, u \in alive', <<u, fd>> \notin foreign, <<u, fd>> \notin pairs
      PROVE  Agrees(u, fd)'
  <2>1. Agrees(u, fd) /\ files'[fd] = files[fd]
    BY <1>2 DEF Known
  <2> QED BY <2>1 DEF Agrees, Untouched
<1> QED BY <1>1, <1>2, OwnKeeps

Points == {"user", "open", "opened", "io", "close", "closed", "exec"}
Results == Keys \cup {NoFd}
MaybePath == Paths \cup {NoPath}

(* The frame of the steps of a thread within its calls: what is left to    *)
(* show is what it knows itself afterwards.                                *)
LEMMA OwnStep ==
  ASSUME CallsInv, NEW t \in Threads, NEW from, NEW to \in Points, NEW fd \in Results,
         NEW p \in MaybePath, Goto(t, from, to, fd, p),
         fd # NoFd => to \in {"opened", "io", "close", "closed"},
         NEW bags \in Caches, cache' = [cache EXCEPT ![t] = bags],
         NEW stale \in BOOLEAN, renew' = [renew EXCEPT ![t] = stale],
         NEW pairs \in SUBSET (Threads \X Keys), Touch(pairs),
         files' \in [Fds -> MaybePath],
         \A u \in alive \ {t}, k \in Fds : files'[k] = files[k] \/ <<u, k>> \in pairs,
         Ready(to, fd, stale),
         \A k \in Fds : <<t, k>> \notin foreign /\ <<t, k>> \notin pairs =>
           Agreement(to, fd, p, k, bags[k], stale, files'[k])
  PROVE  CallsInv'
<1> USE DEF CallsInv
<1>1. /\ pc' = [pc EXCEPT ![t] = to] /\ arg' = [arg EXCEPT ![t] = fd]
      /\ path' = [path EXCEPT ![t] = p] /\ alive' = alive /\ t \in alive
  BY DEF Goto
<1>2. TypeOK'
  <2>1. foreign' \subseteq Threads \X Keys
    BY DEF Touch, TypeOK
  <2>2. pc' \in [Threads -> Points] /\ arg' \in [Threads -> Results] /\ path' \in [Threads -> MaybePath]
    BY <1>1 DEF TypeOK, Points, Results, MaybePath
  <2>3. cache' \in [Threads -> Caches] /\ renew' \in [Threads -> BOOLEAN]
    BY DEF TypeOK, Caches, Bags
  <2>4. \A u \in Threads : arg'[u] # NoFd => pc'[u] \in {"opened", "io", "close", "closed"}
    BY <1>1 DEF TypeOK
  <2> QED BY <1>1, <2>1, <2>2, <2>3, <2>4 DEF TypeOK, Points, Results, MaybePath, Caches, Bags
<1>3. /\ pc'[t] = to /\ arg'[t] = fd /\ path'[t] = p /\ cache'[t] = bags /\ renew'[t] = stale
      /\ \A u \in Threads \ {t} : Untouched(u)
  BY <1>1 DEF TypeOK, Untouched
<1>4. Sound(t)' /\ Known(t)'
  <2>1. \A k \in Fds : <<t, k>> \notin foreign /\ <<t, k>> \notin pairs => Agrees(t, k)'
    BY <1>3 DEF Agrees
  <2>2. Known(t)'
    BY <2>1, OwnKeeps
  <2> QED BY <1>1, <1>3, <2>2 DEF Sound
<1>5. ASSUME NEW u \in Threads \ {t}
      PROVE  Sound(u)' /\ Known(u)'
  <2>1. Untouched(u) /\ Sound(u) /\ Known(u)
    BY <1>3
  <2>2. u \notin alive => pc[u] = "user"
    BY <2>1 DEF Sound
  <2> QED BY <1>1, <2>1, <2>2, OthersKeep
<1> QED BY <1>2, <1>4, <1>5

-----------------------------------------------------------------------------
(* The steps.                                                              *)

(* Whatever thread t does first, its cache is true after notify_enter.     *)
LEMMA EnteredAgrees ==
  ASSUME CallsInv, NEW t \in alive, pc[t] = "user", NEW fd \in Fds, <<t, fd>> \notin foreign,
         NEW q \in Recorded(Entered(t)[fd])
  PROVE  q = files[fd] /\ Entered(t)[fd][q] = 1
<1>1. t \in Threads /\ fd \in Keys
  BY DEF CallsInv, TypeOK, Keys
<1>2. ~renew[t] /\ Entered(t) = cache[t]
  BY <1>1, EnteredFacts DEF CallsInv, Entered
<1>3. Agrees(t, fd)
  BY <1>1 DEF CallsInv, Known
<1> QED BY <1>2, <1>3 DEF Agrees, Agreement

(* A call that does not use a descriptor yet. *)
LEMMA EnterKeeps ==
  ASSUME CallsInv, NEW t \in Threads, NEW to \in {"user", "open"}, NEW p \in MaybePath,
         Goto(t, "user", to, NoFd, p), SetCache(t, Entered(t)), UNCHANGED files, Touch({})
  PROVE  CallsInv'
<1>1. Entered(t) \in Caches
  BY EnteredFacts DEF CallsInv
<1>2. t \in alive /\ pc[t] = "user"
  BY DEF Goto
<1>3. NoFd \notin Fds
  BY SysCallsAssumption
<1>4. \A k \in Fds : <<t, k>> \notin foreign =>
        Agreement(to, NoFd, p, k, Entered(t)[k], FALSE, files'[k])
  BY <1>2, <1>3, EnteredAgrees DEF Agreement
<1>5. Ready(to, NoFd, FALSE) /\ to \in Points /\ NoFd \in Results
  BY DEF Ready, Points, Results
<1>6. /\ cache' = [cache EXCEPT ![t] = Entered(t)] /\ renew' = [renew EXCEPT ![t] = FALSE]
      /\ files' \in [Fds -> MaybePath] /\ files' = files
  BY DEF SetCache, CallsInv, TypeOK, MaybePath
<1> QED BY <1>1, <1>4, <1>5, <1>6, OwnStep

LEMMA OpenEnterKeeps ==
  ASSUME CallsInv, NEW t \in Threads, NEW p \in Paths, OpenEnter(t, p)
  PROVE  CallsInv'
BY EnterKeeps DEF OpenEnter, MaybePath

LEMMA ForkKeeps ==
  ASSUME CallsInv, NEW t \in Threads, Fork(t)
  PROVE  CallsInv'
BY EnterKeeps DEF Fork, MaybePath

(* The original open: the descriptor was free, so a true cache has no      *)
(* record of it. *)
LEMMA OpenOriginalKeeps ==
  ASSUME CallsInv, NEW t \in Threads, NEW file \in Paths, OpenOriginal(t, file)
  PROVE  CallsInv'
<1>1. pc[t] = "open" /\ t \in alive
  BY DEF OpenOriginal, Goto
<1>2. ~renew[t] /\ path[t] \in MaybePath /\ cache[t] \in Caches
  BY <1>1 DEF CallsInv, Sound, Ready, TypeOK, MaybePath, Caches, Bags
<1>3. cache = [cache EXCEPT ![t] = cache[t]] /\ renew = [renew EXCEPT ![t] = FALSE]
  BY <1>2 DEF CallsInv, TypeOK
<1>4. ASSUME NEW k \in Fds, <<t, k>> \notin foreign
      PROVE  \A q \in Recorded(cache[t][k]) : q = files[k] /\ cache[t][k][q] = 1
  BY <1>1, <1>2, <1>4 DEF CallsInv, Known, Agrees, Agreement
<1>5. ASSUME NEW fd \in Fds, files[fd] = NoPath, files' = [files EXCEPT ![fd] = file],
             Goto(t, "open", "opened", fd, path[t]), UNCHANGED <<cache, renew>>,
             Touch({<<u, fd>> : u \in alive \ {t}})
      PROVE  CallsInv'
  <2> DEFINE others == {<<u, fd>> : u \in alive \ {t}}
  <2>1. files' \in [Fds -> MaybePath] /\ files'[fd] = file /\ file # NoPath
        /\ \A k \in Fds \ {fd} : files'[k] = files[k]
    BY <1>5, SysCallsAssumption DEF CallsInv, TypeOK, MaybePath
  <2>2. <<t, fd>> \notin foreign => Recorded(cache[t][fd]) = {}
    BY <1>4, <1>5, SysCallsAssumption DEF Recorded
  <2>3. \A k \in Fds : <<t, k>> \notin foreign =>
          Agreement("opened", fd, path[t], k, cache[t][k], FALSE, files'[k])
    BY <1>4, <2>1, <2>2 DEF Agreement
  <2>4. \A u \in alive \ {t}, k \in Fds :
          files'[k] = files[k] \/ <<u, k>> \in others
    BY <2>1
  <2>5. others \in SUBSET (Threads \X Keys) /\ Touch(others)
    BY <1>5 DEF CallsInv, TypeOK, Keys
  <2>6. Ready("opened", fd, FALSE) /\ "opened" \in Points /\ fd \in Results
    BY DEF Ready, Points, Results, Keys
  <2>7. /\ Goto(t, "open", "opened", fd, path[t])
        /\ cache' = [cache EXCEPT ![t] = cache[t]] /\ renew' = [renew EXCEPT ![t] = FALSE]
    BY <1>3, <1>5
  <2>8. \A k \in Fds : <<t, k>> \notin foreign /\ <<t, k>> \notin others =>
          Agreement("opened", fd, path[t], k, cache[t][k], FALSE, files'[k])
    BY <2>3
  <2> HIDE DEF others
  <2> QED BY <1>2, <2>7, <2>8, <2>1, <2>3, <2>4, <2>5, <2>6, OwnStep
<1>6. ASSUME NEW e \in Errors \cup {NoFd}, Goto(t, "open", "opened", e, path[t]),
             UNCHANGED <<files, cache, renew>>, Touch({})
      PROVE  CallsInv'
  <2>1. e \notin Fds
    BY SysCallsAssumption
  <2>2. \A k \in Fds : <<t, k>> \notin foreign =>
          Agreement("opened", e, path[t], k, cache[t][k], FALSE, files'[k])
    BY <1>4, <1>6, <2>1 DEF Agreement
  <2>3. Ready("opened", e, FALSE) /\ "opened" \in Points /\ e \in Results
    BY DEF Ready, Points, Results, Keys
  <2>4. files' \in [Fds -> MaybePath] /\ files' = files
    BY <1>6 DEF CallsInv, TypeOK, MaybePath
  <2> QED BY <1>2, <1>3, <1>6, <2>2, <2>3, <2>4, OwnStep, ZenonT(40)
<1> QED BY <1>5, <1>6 DEF OpenOriginal

(* The state of a thread, as its calls find it. *)
LEMMA OwnFacts ==
  ASSUME CallsInv, NEW t \in Threads
  PROVE  /\ cache[t] \in Caches /\ path[t] \in MaybePath /\ arg[t] \in Results
         /\ renew[t] \in BOOLEAN /\ files \in [Fds -> MaybePath]
         /\ cache = [cache EXCEPT ![t] = cache[t]]
         /\ renew = [renew EXCEPT ![t] = renew[t]]
         /\ Ready(pc[t], arg[t], renew[t])
         /\ \A k \in Fds : t \in alive /\ <<t, k>> \notin foreign => Agrees(t, k)
BY DEF CallsInv, TypeOK, MaybePath, Results, Caches, Bags, Sound, Known

LEMMA Idle == /\ "user" \in Points /\ NoFd \in Results /\ NoPath \in MaybePath
              /\ Ready("user", NoFd, FALSE)
BY DEF Points, Results, MaybePath, Ready

(* The record of an open: the first, and of the file that is open there. *)
LEMMA OpenRecordKeeps ==
  ASSUME CallsInv, NEW t \in Threads, OpenRecord(t)
  PROVE  CallsInv'
<1> DEFINE bags == IF arg[t] = NoFd THEN cache[t]
                   ELSE [cache[t] EXCEPT ![arg[t]] = With(@, FullName(t))]
<1>1. /\ t \in alive /\ pc[t] = "opened" /\ ~renew[t]
      /\ cache[t] \in Caches /\ files \in [Fds -> MaybePath]
      /\ arg[t] \in Results /\ FullName(t) \in MaybePath
  BY OwnFacts DEF OpenRecord, Goto, FullName, Ready
<1>2. bags \in Caches
  <2>1. \A bag \in Bags : With(bag, FullName(t)) \in Bags
    BY <1>1, BagFacts, SysCallsAssumption DEF With, Bags, MaybePath
  <2> QED BY <1>1, <2>1 DEF Caches, Results
<1>3. ASSUME NEW k \in Fds, <<t, k>> \notin foreign
      PROVE  \A q \in Recorded(bags[k]) : q = files[k] /\ bags[k][q] = 1
  <2>1. k \in Keys /\ k # NoFd /\ cache[t][k] \in Bags /\ Agrees(t, k)
    BY <1>1, <1>3, OwnFacts, SysCallsAssumption DEF Keys, Caches
  <2>2. CASE arg[t] = k
    <3>1. Recorded(cache[t][k]) = {} /\ files[k] \in Paths /\ FullName(t) = files[k]
      BY <1>1, <2>1, <2>2 DEF Agrees, Agreement, FullName, MaybePath
    <3>2. bags[k] = With(cache[t][k], files[k])
      BY <1>1, <2>1, <2>2, <3>1 DEF Caches
    <3> QED BY <2>1, <3>1, <3>2, FirstRecord
  <2>3. CASE arg[t] # k
    <3>1. bags[k] = cache[t][k]
      BY <1>1, <2>1, <2>3 DEF Caches
    <3> QED BY <1>1, <2>1, <3>1 DEF Agrees, Agreement
  <2> QED BY <2>2, <2>3
<1>4. /\ Goto(t, "opened", "user", NoFd, NoPath) /\ cache' = [cache EXCEPT ![t] = bags]
      /\ renew' = [renew EXCEPT ![t] = FALSE] /\ files' = files /\ Touch({})
  BY DEF OpenRecord, SetCache
<1> HIDE DEF bags
<1>5. \A k \in Fds : <<t, k>> \notin foreign =>
        Agreement("user", NoFd, NoPath, k, bags[k], FALSE, files'[k])
  BY <1>3, <1>4 DEF Agreement
<1> QED BY <1>1, <1>2, <1>4, <1>5, Idle, OwnStep

(* The path is that of the open file: from a true record, or asked. *)
LEMMA ByFdKeeps ==
  ASSUME CallsInv, NEW t \in Threads, NEW to \in {"io", "close"}, NEW fd \in Fds,
         ByFd(t, to, fd)
  PROVE  CallsInv'
<1>1. PICK p \in Answers(Entered(t), fd) : Goto(t, "user", to, fd, p)
  BY DEF ByFd
<1> DEFINE bags == LookedUp(Entered(t), fd)
<1>2. /\ t \in alive /\ pc[t] = "user" /\ TypeOK /\ Entered(t) \in Caches
      /\ files \in [Fds -> MaybePath] /\ fd \in Keys
  BY <1>1, EnteredFacts, OwnFacts DEF Goto, CallsInv, Keys
<1>3. /\ bags \in Caches /\ p \in MaybePath
      /\ \A k \in Keys \ {fd} : bags[k] = Entered(t)[k]
      /\ Recorded(Entered(t)[fd]) # {} => bags[fd] = Entered(t)[fd]
      /\ Recorded(Entered(t)[fd]) = {} =>
           \A q \in Recorded(bags[fd]) : q = files[fd] /\ bags[fd][q] = 1
  BY <1>1, <1>2, LookedUpFacts DEF MaybePath
<1>4. /\ cache' = [cache EXCEPT ![t] = bags] /\ renew' = [renew EXCEPT ![t] = FALSE]
      /\ files' = files /\ Touch({})
  BY DEF ByFd, SetCache
<1> HIDE DEF bags
<1>5. ASSUME NEW k \in Fds, <<t, k>> \notin foreign
      PROVE  Agreement(to, fd, p, k, bags[k], FALSE, files'[k])
  <2>1. \A q \in Recorded(Entered(t)[k]) : q = files[k] /\ Entered(t)[k][q] = 1
    BY <1>2, <1>5, EnteredAgrees
  <2>2. \A q \in Recorded(bags[k]) : q = files[k] /\ bags[k][q] = 1
    BY <1>3, <2>1 DEF Keys
  <2>3. fd = k => p = files[k]
    BY <1>1, <2>1 DEF Answers
  <2> QED BY <1>4, <2>2, <2>3 DEF Agreement
<1>6. to \in Points /\ fd \in Results /\ Ready(to, fd, FALSE)
  BY DEF Points, Results, Keys, Ready
<1> QED BY <1>1, <1>2, <1>3, <1>4, <1>5, <1>6, OwnStep, ZenonT(40)

LEMMA IoOriginalKeeps ==
  ASSUME CallsInv, NEW t \in Threads, IoOriginal(t)
  PROVE  CallsInv'
<1>1. /\ t \in alive /\ pc[t] = "io" /\ Goto(t, "io", "user", NoFd, NoPath)
      /\ UNCHANGED <<files, cache, renew>> /\ Touch({})
  BY DEF IoOriginal, Goto
<1>2. renew[t] = FALSE
  BY <1>1, OwnFacts DEF Ready
<1>3. cache[t] \in Caches /\ files' \in [Fds -> MaybePath]
      /\ cache' = [cache EXCEPT ![t] = cache[t]] /\ renew' = [renew EXCEPT ![t] = FALSE]
  BY <1>1, <1>2, OwnFacts
<1>4. \A k \in Fds : <<t, k>> \notin foreign =>
        Agreement("user", NoFd, NoPath, k, cache[t][k], FALSE, files'[k])
  BY <1>1, <1>2, OwnFacts DEF Agrees, Agreement
<1> QED BY <1>1, <1>3, <1>4, Idle, OwnStep, ZenonT(40)

(* After a close, or a close that failed, the descriptor is free. *)
LEMMA CloseOriginalKeeps ==
  ASSUME CallsInv, NEW t \in Threads, CloseOriginal(t)
  PROVE  CallsInv'
<1> DEFINE fd == arg[t]
           pairs == {<<u, fd>> : u \in IF files[fd] = NoPath THEN {}
                                       ELSE IF pc'[t] = "user" THEN alive ELSE alive \ {t}}
<1>1. PICK to \in IF files[fd] = NoPath THEN {"user"} ELSE {"closed", "user"} :
        Goto(t, "close", to, IF to = "user" THEN NoFd ELSE fd, NoPath)
  BY DEF CloseOriginal
<1> DEFINE next == IF to = "user" THEN NoFd ELSE fd
<1>2. /\ t \in alive /\ pc[t] = "close" /\ pc'[t] = to /\ to \in {"closed", "user"}
      /\ files' = [files EXCEPT ![fd] = NoPath] /\ UNCHANGED <<cache, renew>> /\ Touch(pairs)
  BY <1>1 DEF CloseOriginal, Goto, CallsInv, TypeOK
<1>3. renew[t] = FALSE /\ fd \in Fds
  BY <1>2, OwnFacts DEF Ready
<1>4. cache[t] \in Caches /\ files' \in [Fds -> MaybePath]
      /\ cache' = [cache EXCEPT ![t] = cache[t]] /\ renew' = [renew EXCEPT ![t] = FALSE]
  BY <1>2, <1>3, OwnFacts DEF MaybePath
<1>5. /\ files'[fd] = NoPath /\ \A k \in Fds \ {fd} : files'[k] = files[k]
      /\ pairs \in SUBSET (Threads \X Keys)
      /\ \A u \in alive \ {t}, k \in Fds : files'[k] = files[k] \/ <<u, k>> \in pairs
      /\ files[fd] # NoPath /\ to = "user" => <<t, fd>> \in pairs
  BY <1>2, <1>3, OwnFacts DEF CallsInv, TypeOK, Keys
<1>6. to \in Points /\ next \in Results /\ Ready(to, next, FALSE)
      /\ (next # NoFd => to = "closed") /\ Goto(t, "close", to, next, NoPath)
  BY <1>1, <1>2, <1>3 DEF Points, Results, Keys, Ready
<1>7. ASSUME NEW k \in Fds, <<t, k>> \notin foreign, <<t, k>> \notin pairs
      PROVE  Agreement(to, next, NoPath, k, cache[t][k], FALSE, files'[k])
  <2>1. \A q \in Recorded(cache[t][k]) : q = files[k] /\ cache[t][k][q] = 1
    BY <1>2, <1>3, <1>7, OwnFacts DEF Agrees, Agreement
  <2>2. to = "user" => files'[k] = files[k]
    BY <1>2, <1>3, <1>4, <1>5, <1>7
  <2>3. to = "closed" /\ next # k => files'[k] = files[k]
    BY <1>5
  <2>4. NoFd # k
    BY SysCallsAssumption
  <2> HIDE DEF pairs
  <2> QED BY <1>2, <2>1, <2>2, <2>3, <2>4 DEF Agreement, Single
<1> HIDE DEF pairs, next
<1>8. /\ \A u \in alive \ {t}, k \in Fds : files'[k] = files[k] \/ <<u, k>> \in pairs
      /\ next # NoFd => to \in {"opened", "io", "close", "closed"}
      /\ NoPath \in MaybePath /\ pairs \in SUBSET (Threads \X Keys) /\ Touch(pairs)
  BY <1>2, <1>5, <1>6, Idle
<1> HIDE DEF fd
<1> QED BY <1>4, <1>6, <1>7, <1>8, OwnStep

(* The record is deleted, or looked up again when there is none. *)
LEMMA CloseDeleteKeeps ==
  ASSUME CallsInv, NEW t \in Threads, CloseDelete(t)
  PROVE  CallsInv'
<1> DEFINE fd == arg[t]
<1>1. /\ t \in alive /\ pc[t] = "closed" /\ Goto(t, "closed", "user", NoFd, NoPath)
      /\ files' = files /\ Touch({})
  BY DEF CloseDelete, Goto
<1>2. renew[t] = FALSE /\ fd \in Fds /\ fd \in Keys /\ cache[t] \in Caches
      /\ files' \in [Fds -> MaybePath] /\ cache[t][fd] \in Bags /\ TypeOK
  BY <1>1, OwnFacts DEF Ready, Keys, Caches, CallsInv
<1>3. ASSUME NEW bags \in Caches, SetCache(t, bags),
             \A k \in Keys \ {fd} : bags[k] = cache[t][k],
             <<t, fd>> \notin foreign =>
               \A q \in Recorded(bags[fd]) : q = files[fd] /\ bags[fd][q] = 1
      PROVE  CallsInv'
  <2>1. ASSUME NEW k \in Fds, <<t, k>> \notin foreign
        PROVE  Agreement("user", NoFd, NoPath, k, bags[k], FALSE, files'[k])
    <3>1. k # fd => \A q \in Recorded(cache[t][k]) : q = files[k] /\ cache[t][k][q] = 1
      BY <1>1, <1>2, <2>1, OwnFacts DEF Agrees, Agreement
    <3> QED BY <1>1, <1>3, <2>1, <3>1 DEF Agreement, Keys
  <2>2. cache' = [cache EXCEPT ![t] = bags] /\ renew' = [renew EXCEPT ![t] = FALSE]
    BY <1>3 DEF SetCache
  <2> QED BY <1>1, <1>2, <2>1, <2>2, Idle, OwnStep
<1>4. ASSUME NEW p \in Recorded(cache[t][fd]),
             SetCache(t, [cache[t] EXCEPT ![fd] = Without(@, p)])
      PROVE  CallsInv'
  <2> DEFINE bags == [cache[t] EXCEPT ![fd] = Without(@, p)]
  <2>1. Without(cache[t][fd], p) \in Bags
    BY <1>2, BagFacts
  <2>2. bags \in Caches /\ bags[fd] = Without(cache[t][fd], p)
        /\ \A k \in Keys \ {fd} : bags[k] = cache[t][k]
    BY <1>2, <2>1 DEF Caches
  <2>3. <<t, fd>> \notin foreign => Recorded(bags[fd]) = {}
    BY <1>1, <1>2, <2>2, OwnFacts, LastRecord DEF Agrees, Agreement
  <2> HIDE DEF bags
  <2>4. SetCache(t, bags)
    BY <1>4 DEF bags
  <2> QED BY <1>3, <2>2, <2>3, <2>4
<1>5. ASSUME Recorded(cache[t][fd]) = {}, SetCache(t, LookedUp(cache[t], fd))
      PROVE  CallsInv'
  BY <1>2, <1>3, <1>5, LookedUpFacts
<1> QED BY <1>4, <1>5 DEF CloseDelete

-----------------------------------------------------------------------------
(* execve, and the steps in which threads come and go.                     *)

(* Nothing is known of a cache whose program is about to be replaced. *)
LEMMA StaleAgrees ==
  ASSUME NEW at \in {"user", "exec"}, NEW d, NEW p, NEW k, NEW bag, NEW file
  PROVE  Agreement(at, d, p, k, bag, TRUE, file)
BY DEF Agreement

LEMMA ExecEnterKeeps ==
  ASSUME CallsInv, NEW t \in Threads, ExecEnter(t)
  PROVE  CallsInv'
<1>1. /\ Entered(t) \in Caches /\ files' \in [Fds -> MaybePath] /\ files' = files
      /\ "exec" \in Points /\ Ready("exec", NoFd, TRUE)
  BY EnteredFacts, OwnFacts DEF CallsInv, ExecEnter, Points, Ready
<1>2. \A k \in Fds : Agreement("exec", NoFd, NoPath, k, Entered(t)[k], TRUE, files'[k])
  BY StaleAgrees
<1> QED BY <1>1, <1>2, Idle, OwnStep DEF ExecEnter

LEMMA ExecFailsKeeps ==
  ASSUME CallsInv, NEW t \in Threads, ExecFails(t)
  PROVE  CallsInv'
<1>1. renew[t] = TRUE
  BY OwnFacts DEF ExecFails, Goto, Ready
<1>2. /\ Goto(t, "exec", "user", NoFd, NoPath) /\ Touch({})
      /\ cache' = [cache EXCEPT ![t] = cache[t]] /\ renew' = [renew EXCEPT ![t] = TRUE]
      /\ cache[t] \in Caches /\ files' \in [Fds -> MaybePath] /\ files' = files
      /\ Ready("user", NoFd, TRUE)
  BY <1>1, OwnFacts DEF ExecFails, Ready
<1>3. \A k \in Fds : Agreement("user", NoFd, NoPath, k, cache[t][k], TRUE, files'[k])
  BY StaleAgrees
<1> QED BY <1>2, <1>3, Idle, OwnStep

(* A pid that was used before is announced as one with a record that is    *)
(* not its own. *)
LEMMA CloneKeeps ==
  ASSUME CallsInv, NEW t \in Threads, NEW u \in Threads, Clone(t, u)
  PROVE  CallsInv'
<1>1. /\ t \in alive /\ pc[t] = "user" /\ u # t /\ u \notin alive /\ pc[u] = "user"
      /\ Entered(t) \in Caches /\ TypeOK
  BY EnteredFacts DEF Clone, CallsInv, Sound
<1>2. TypeOK'
  BY <1>1 DEF Clone, Touch, TypeOK, Caches, Bags
<1>3. /\ cache'[t] = Entered(t) /\ renew'[t] = FALSE /\ renew'[u] = TRUE
      /\ pc' = pc /\ arg' = arg /\ path' = path /\ files' = files /\ Touch({})
      /\ alive' = alive \cup {u}
      /\ \A v \in Threads \ {t, u} : Untouched(v)
  BY <1>1 DEF Clone, TypeOK, Untouched
<1>4. Sound(t)' /\ Known(t)'
  <2>1. ASSUME NEW k \in Fds, <<t, k>> \notin foreign PROVE Agrees(t, k)'
    BY <1>1, <1>3, <2>1, EnteredAgrees DEF Agrees, Agreement
  <2> QED BY <1>1, <1>3, <2>1, OwnKeeps DEF Sound, Ready
<1>5. Sound(u)' /\ Known(u)'
  <2>1. \A k \in Fds : Agrees(u, k)'
    BY <1>1, <1>3, StaleAgrees DEF Agrees
  <2> QED BY <1>1, <1>3, <2>1 DEF Sound, Known, Ready
<1>6. ASSUME NEW v \in Threads \ {t, u} PROVE Sound(v)' /\ Known(v)'
  BY <1>3, OthersKeep DEF CallsInv, Sound
<1> QED BY <1>2, <1>4, <1>5, <1>6 DEF CallsInv

LEMMA ExitKeeps ==
  ASSUME CallsInv, NEW t \in Threads, Exit(t)
  PROVE  CallsInv'
<1>1. t # Leader /\ pc[t] = "user" /\ Entered(t) \in Caches /\ TypeOK
  BY EnteredFacts DEF Exit, CallsInv
<1>2. TypeOK'
  BY <1>1 DEF Exit, SetCache, Touch, TypeOK, Caches, Bags
<1>3. /\ pc' = pc /\ arg' = arg /\ files' = files /\ Touch({}) /\ alive' = alive \ {t}
      /\ renew'[t] = FALSE
      /\ \A v \in Threads \ {t} : Untouched(v)
  BY <1>1 DEF Exit, SetCache, TypeOK, Untouched
<1>4. Sound(t)' /\ Known(t)'
  BY <1>1, <1>3 DEF Sound, Known, Ready
<1>5. ASSUME NEW v \in Threads \ {t} PROVE Sound(v)' /\ Known(v)'
  BY <1>3, OthersKeep DEF CallsInv, Sound
<1> QED BY <1>2, <1>4, <1>5 DEF CallsInv

(* The thread left is the leader.  If it was not the one that called       *)
(* execve, its record goes on, and what closed was closed by another.      *)
LEMMA ExecSucceedsKeeps ==
  ASSUME CallsInv, NEW t \in Threads, ExecSucceeds(t)
  PROVE  CallsInv'
<1>1. PICK closed \in SUBSET Fds :
        /\ files' = [fd \in Fds |-> IF fd \in closed THEN NoPath ELSE files[fd]]
        /\ Touch(IF t = Leader THEN {} ELSE {Leader} \X closed)
  BY DEF ExecSucceeds
<1> DEFINE pairs == IF t = Leader THEN {} ELSE {Leader} \X closed
<1>2. /\ t \in alive /\ pc[t] = "exec" /\ alive' = {Leader} /\ Leader \in Threads
      /\ pc' = [pc EXCEPT ![t] = "user"] /\ UNCHANGED <<arg, path, cache, renew>>
      /\ renew[t] /\ TypeOK /\ \A u \in Threads \ {t} : pc[u] = "user"
  BY OwnFacts, SysCallsAssumption DEF ExecSucceeds, Ready, CallsInv, Sound
<1>3. /\ Touch(pairs) /\ pairs \subseteq Threads \X Keys
      /\ t # Leader => \A k \in Fds : files'[k] = files[k] \/ <<Leader, k>> \in pairs
  BY <1>1, <1>2 DEF Keys
<1> HIDE DEF pairs
<1>4. TypeOK'
  <2>1. files' \in [Fds -> Paths \cup {NoPath}]
    BY <1>1, <1>2 DEF TypeOK
  <2>2. foreign' \subseteq Threads \X Keys
    BY <1>2, <1>3 DEF Touch, TypeOK
  <2> QED BY <1>2, <2>1, <2>2 DEF TypeOK
<1>5. Sound(t)' /\ Known(t)'
  <2>1. pc'[t] = "user" /\ renew'[t] = TRUE
    BY <1>2 DEF TypeOK
  <2>2. \A k \in Fds : Agrees(t, k)'
    BY <2>1, StaleAgrees DEF Agrees
  <2> QED BY <2>1, <2>2 DEF Sound, Known, Ready
<1>6. ASSUME NEW u \in Threads \ {t} PROVE Sound(u)' /\ Known(u)'
  <2>1. Untouched(u) /\ Sound(u) /\ Known(u) /\ pc[u] = "user"
    BY <1>2 DEF CallsInv, TypeOK, Untouched
  <2>2. u \in alive' => u = Leader /\ t # Leader /\ u \in alive
    BY <1>2 DEF TypeOK
  <2>3. \A k \in Fds : u \in alive' => files'[k] = files[k] \/ <<u, k>> \in pairs
    BY <1>3, <2>2
  <2> QED BY <1>3, <2>1, <2>2, <2>3, OthersKeep
<1> QED BY <1>4, <1>5, <1>6 DEF CallsInv

(* A descriptor changed by a call that is not hooked is foreign to all. *)
LEMMA ReplaceKeeps ==
  ASSUME CallsInv, NEW fd \in Fds, NEW file \in MaybePath, Replace(fd, file)
  PROVE  CallsInv'
<1> DEFINE pairs == IF file = files[fd] THEN {} ELSE alive \X {fd}
<1>1. /\ files' = [files EXCEPT ![fd] = file] /\ UNCHANGED <<thread, cache, renew>>
      /\ Touch(pairs) /\ TypeOK /\ pairs \subseteq Threads \X Keys
  BY DEF Replace, CallsInv, TypeOK, Keys
<1>2. \A u \in alive, k \in Fds : files'[k] = files[k] \/ <<u, k>> \in pairs
  BY <1>1 DEF TypeOK
<1> HIDE DEF pairs
<1>3. TypeOK'
  BY <1>1 DEF Touch, TypeOK, thread, MaybePath
<1>4. ASSUME NEW u \in Threads PROVE Sound(u)' /\ Known(u)'
  <2>1. Untouched(u) /\ Sound(u) /\ Known(u) /\ alive' = alive
    BY <1>1 DEF CallsInv, Untouched, thread
  <2> QED BY <1>1, <1>2, <2>1, OthersKeep DEF Sound
<1> QED BY <1>3, <1>4 DEF CallsInv

-----------------------------------------------------------------------------
(* The theorems.                                                           *)

LEMMA CallsInitial == Init => CallsInv
<1> SUFFICES ASSUME Init PROVE CallsInv
  OBVIOUS
<1>1. TypeOK
  BY SysCallsAssumption DEF Init, TypeOK, Empty, NoRecords
<1>2. ASSUME NEW t \in Threads PROVE Sound(t) /\ Known(t)
  <2>1. pc[t] = "user" /\ renew[t] = FALSE /\ cache[t] = Empty
    BY <1>2 DEF Init
  <2>2. \A fd \in Fds : Recorded(cache[t][fd]) = {}
    BY <2>1 DEF Empty, NoRecords, Recorded, Keys
  <2>3. \A fd \in Fds : Agrees(t, fd)
    BY <2>1, <2>2 DEF Agrees, Agreement
  <2> QED BY <2>1, <2>3 DEF Sound, Ready, Known
<1> QED BY <1>1, <1>2 DEF CallsInv

LEMMA CallsStep == CallsInv /\ [Next]_vars => CallsInv'
<1> SUFFICES ASSUME CallsInv, [Next]_vars PROVE CallsInv'
  OBVIOUS
<1>1. ASSUME NEW t \in Threads, NEW p \in Paths, OpenEnter(t, p) \/ OpenOriginal(t, p)
      PROVE  CallsInv'
  BY <1>1, OpenEnterKeeps, OpenOriginalKeeps
<1>2. ASSUME NEW t \in Threads, NEW fd \in Fds, ByFd(t, "io", fd) \/ ByFd(t, "close", fd)
      PROVE  CallsInv'
  BY <1>2, ByFdKeeps
<1>3. ASSUME NEW t \in Threads,
             OpenRecord(t) \/ IoOriginal(t) \/ CloseOriginal(t) \/ CloseDelete(t)
      PROVE  CallsInv'
  BY <1>3, OpenRecordKeeps, IoOriginalKeeps, CloseOriginalKeeps, CloseDeleteKeeps
<1>4. ASSUME NEW t \in Threads,
             \/ ExecEnter(t) \/ ExecFails(t) \/ ExecSucceeds(t)
             \/ Fork(t) \/ Exit(t)
             \/ \E u \in Threads : Clone(t, u)
      PROVE  CallsInv'
  BY <1>4, ExecEnterKeeps, ExecFailsKeeps, ExecSucceedsKeeps, ForkKeeps, ExitKeeps, CloneKeeps
<1>5. ASSUME NEW fd \in Fds, NEW file \in MaybePath, Replace(fd, file)
      PROVE  CallsInv'
  BY <1>5, ReplaceKeeps
<1>6. CASE UNCHANGED vars
  BY <1>6 DEF CallsInv, TypeOK, Sound, Known, Agrees, vars, thread
<1> QED BY <1>1, <1>2, <1>3, <1>4, <1>5, <1>6 DEF Next, MaybePath

(* The inductive invariant of the fake calls. *)
THEOREM CallsInvariant == Spec => []CallsInv
<1> QED BY CallsInitial, CallsStep, PTL DEF Spec

(* No record is deleted that is not there, and every variable has its type *)
(* (close.c:51). *)
THEOREM CallsTypeCorrect == Spec => []TypeOK
<1>1. CallsInv => TypeOK
  BY DEF CallsInv
<1> QED BY <1>1, CallsInvariant, PTL

(* The cache of a thread tells the truth about every descriptor nobody     *)
(* changed behind it (open.c:83-95, close.c:48-51, exec.c:59). *)
THEOREM CachesTrue == Spec => []CacheTrue
<1>1. CallsInv => CacheTrue
  <2> SUFFICES ASSUME CallsInv, NEW t \in alive, NEW fd \in Fds,
                      ~renew[t], <<t, fd>> \notin foreign, ~(pc[t] = "closed" /\ arg[t] = fd)
               PROVE  \A p \in Recorded(cache[t][fd]) : p = files[fd] /\ cache[t][fd][p] = 1
    BY DEF CacheTrue
  <2>1. Agrees(t, fd)
    BY DEF CallsInv, TypeOK, Known
  <2> QED BY <2>1 DEF Agrees, Agreement
<1> QED BY <1>1, CallsInvariant, PTL

(* A call is logged with the path of the file it really worked on          *)
(* (log.c:368, read.c:34-46, close.c:35-46). *)
THEOREM LogsTrue == Spec => LogTrue
<1> DEFINE Logged == \A t \in Threads :
             pc[t] \in {"io", "close"} /\ <<t, arg[t]>> \notin foreign => path[t] = files[arg[t]]
<1>1. CallsInv => Logged
  <2> SUFFICES ASSUME CallsInv, NEW t \in Threads, pc[t] \in {"io", "close"},
                      <<t, arg[t]>> \notin foreign
               PROVE  path[t] = files[arg[t]]
    OBVIOUS
  <2>1. t \in alive /\ arg[t] \in Fds
    BY DEF CallsInv, Sound, Ready
  <2>2. Agrees(t, arg[t])
    BY <2>1 DEF CallsInv, Known
  <2> QED BY <2>2 DEF Agrees, Agreement
<1>2. Logged =>
        [\A t \in Threads :
           LET fd == arg[t]
           IN  pc[t] \in {"io", "close"} /\ pc'[t] # pc[t] /\ <<t, fd>> \notin foreign =>
                 path[t] = files[fd]]_vars
  OBVIOUS
<1> QED BY <1>1, <1>2, CallsInvariant, PTL DEF LogTrue

=============================================================================
