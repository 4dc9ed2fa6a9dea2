---------------------------- MODULE FdCacheProofs ----------------------------
(***************************************************************************)
(* Proofs about FdCache, for any number of records and descriptors and any *)
(* size of the hot cache: the array, the ring and the list stay consistent *)
(* through every insertion, eviction, lookup and deletion, and together    *)
(* they implement the map and the queue of FdMap.                          *)
(***************************************************************************)
EXTENDS FdCache, FiniteSetTheorems, SequenceTheorems, WellFoundedInduction, TLAPS

USE CacheAssumption

OrNull == Records \cup {Null}
Links == [Records -> OrNull]

-----------------------------------------------------------------------------
(* Following links.                                                        *)

Closed(link, start, S) ==
  /\ S \in SUBSET Records
  /\ start # Null => start \in S
  /\ \A r \in S : link[r] # Null => link[r] \in S

LEMMA AlongLeast ==
  ASSUME NEW link, NEW start, NEW S, Closed(link, start, S)
  PROVE  Along(link, start) \subseteq S
BY DEF Along, Closed

LEMMA AlongClosed ==
  ASSUME NEW link \in Links, NEW start \in OrNull
  PROVE  Closed(link, start, Along(link, start))
<1> DEFINE A == Along(link, start)
<1>1. A \in SUBSET Records
  BY DEF Along
<1>2. ASSUME NEW r \in Records, \A S \in SUBSET Records : Closed(link, start, S) => r \in S
      PROVE  r \in A
  BY <1>2 DEF Along, Closed
<1>3. ASSUME NEW S, Closed(link, start, S) PROVE A \subseteq S
  BY <1>3, AlongLeast
<1> HIDE DEF A
<1>4. start # Null => start \in A
  BY <1>2 DEF Closed, OrNull
<1>5. ASSUME NEW r \in A, link[r] # Null PROVE link[r] \in A
  <2>1. link[r] \in Records
    BY <1>1, <1>5 DEF Links, OrNull
  <2>2. \A S \in SUBSET Records : Closed(link, start, S) => link[r] \in S
    BY <1>3, <1>5 DEF Closed
  <2> QED BY <1>2, <2>1, <2>2
<1> QED BY <1>1, <1>4, <1>5 DEF Closed, A

(* Two ways to say where the links lead. *)
LEMMA AlongIs ==
  ASSUME NEW link \in Links, NEW start \in OrNull, NEW A, Closed(link, start, A),
         \A S : Closed(link, start, S) => A \subseteq S
  PROVE  Along(link, start) = A
BY AlongClosed, AlongLeast

(* Links of nodes that are not met do not matter. *)
LEMMA AlongSame ==
  ASSUME NEW link \in Links, NEW link2 \in Links, NEW start \in OrNull,
         \A r \in Along(link, start) : link2[r] = link[r]
  PROVE  Along(link2, start) = Along(link, start)
<1> DEFINE A == Along(link, start)
<1>1. Closed(link, start, A)
  BY AlongClosed
<1>2. Closed(link2, start, A)
  BY <1>1 DEF Closed
<1>3. ASSUME NEW S, Closed(link2, start, S) PROVE A \subseteq S
  <2>1. Closed(link, start, S \cap A)
    BY <1>1, <1>3 DEF Closed
  <2> QED BY <2>1, AlongLeast
<1> QED BY <1>2, <1>3, AlongIs

-----------------------------------------------------------------------------
(* The list: next and prev from head on, where L are the nodes met.        *)

List(next, prev, head, L) ==
  /\ next \in Links /\ prev \in Links /\ head \in OrNull /\ L \in SUBSET Records
  /\ Along(next, head) = L
  /\ head # Null => prev[head] = Null
  /\ \A r \in L : next[r] # Null => prev[next[r]] = r
  /\ L # {} => \E r \in L : next[r] = Null

LEMMA ListClosed ==
  ASSUME NEW next, NEW prev, NEW head, NEW L, List(next, prev, head, L)
  PROVE  /\ Closed(next, head, L)
         /\ \A S : Closed(next, head, S) => L \subseteq S
BY AlongClosed, AlongLeast DEF List

(* Every node but the head has one before it. *)
LEMMA ListBack ==
  ASSUME NEW next, NEW prev, NEW head, NEW L, List(next, prev, head, L), NEW r \in L, r # head
  PROVE  prev[r] \in L /\ next[prev[r]] = r
<1> DEFINE S == {x \in L : x = head \/ (prev[x] \in L /\ next[prev[x]] = x)}
<1>1. Closed(next, head, L) /\ L \in SUBSET Records
  BY ListClosed DEF List
<1>2. Closed(next, head, S)
  <2>1. S \in SUBSET Records /\ (head # Null => head \in S)
    BY <1>1 DEF Closed
  <2>2. ASSUME NEW x \in S, next[x] # Null PROVE next[x] \in S
    BY <1>1, <2>2 DEF Closed, List
  <2> QED BY <2>1, <2>2 DEF Closed
<1>3. r \in S
  BY <1>2, ListClosed
<1> QED BY <1>3

(* The first node has none before it, and no node is its own. *)
LEMMA ListNoLoop ==
  ASSUME NEW next, NEW prev, NEW head, NEW L, List(next, prev, head, L), NEW r \in L
  PROVE  next[r] # r /\ next[r] # head
<1>1. head # Null
  <2>1. head = Null => Closed(next, head, {})
    BY DEF Closed
  <2> QED BY <2>1, ListClosed
<1>2. next[r] # head
  BY <1>1, ListClosed DEF List, Closed, OrNull
<1>3. ASSUME next[r] = r PROVE FALSE
  <2>1. r # head /\ r # Null
    BY <1>2, <1>3 DEF List
  <2>2. prev[r] = r
    BY <1>3, <2>1 DEF List
  <2>3. Closed(next, head, L \ {r})
    BY <2>1, <2>2, ListClosed DEF List, Closed
  <2> QED BY <2>3, ListClosed
<1> QED BY <1>2, <1>3

(* insert_into_link. *)
LEMMA ListPush ==
  ASSUME NEW next, NEW prev, NEW head, NEW L, List(next, prev, head, L),
         NEW r \in Records, r \notin L, NEW next2, NEW prev2,
         next2 = [next EXCEPT ![r] = head],
         prev2 = [x \in Records |-> IF x = head THEN r
                                   ELSE IF x = r THEN Null ELSE prev[x]]
  PROVE  List(next2, prev2, r, L \cup {r})
<1>1. /\ next \in Links /\ prev \in Links /\ head \in OrNull /\ L \in SUBSET Records
      /\ Closed(next, head, L) /\ \A S : Closed(next, head, S) => L \subseteq S
  BY ListClosed DEF List
<1>2. next2 \in Links /\ prev2 \in Links /\ r # head
  BY <1>1 DEF Links, OrNull, Closed
<1>3. next2[r] = head /\ \A x \in L : next2[x] = next[x]
  BY <1>1 DEF Links
<1>4. Closed(next2, r, L \cup {r})
  BY <1>1, <1>3 DEF Closed
<1>5. ASSUME NEW S, Closed(next2, r, S) PROVE L \cup {r} \subseteq S
  <2>1. Closed(next, head, S \cap L)
    BY <1>1, <1>3, <1>5 DEF Closed
  <2> QED BY <1>1, <1>5, <2>1 DEF Closed
<1>6. Along(next2, r) = L \cup {r}
  BY <1>2, <1>4, <1>5, AlongIs DEF OrNull
<1>7. prev2[r] = Null
  BY <1>2
<1>8. ASSUME NEW x \in L \cup {r}, next2[x] # Null PROVE prev2[next2[x]] = x
  <2>1. CASE x = r
    BY <1>1, <1>3, <1>8, <2>1 DEF OrNull
  <2>2. CASE x # r
    <3>1. x \in L /\ next2[x] = next[x] /\ next[x] \in L
      BY <1>1, <1>3, <1>8, <2>2 DEF Closed
    <3>2. next[x] # head /\ prev[next[x]] = x
      BY <1>8, <3>1, ListNoLoop DEF List
    <3> QED BY <1>1, <3>1, <3>2
  <2> QED BY <2>1, <2>2
<1>9. \E x \in L \cup {r} : next2[x] = Null
  <2>1. CASE L = {}
    <3>1. head = Null BY <1>1, <2>1 DEF Closed
    <3> QED BY <1>3, <3>1
  <2>2. CASE L # {}
    BY <1>3, <2>2 DEF List
  <2> QED BY <2>1, <2>2
<1> QED BY <1>1, <1>2, <1>6, <1>7, <1>8, <1>9 DEF List, OrNull

(* The first half of delete_from_record. *)
Bypassed(next, prev, head, L, r, next2, prev2, head2) ==
  /\ head2 = IF r = head THEN next[r] ELSE head
  /\ \A x \in L \ {r} :
       /\ next2[x] = IF r # head /\ x = prev[r] THEN next[r] ELSE next[x]
       /\ prev2[x] = IF x = next[r] THEN IF r = head THEN Null ELSE prev[r]
                     ELSE prev[x]

LEMMA ListUnlink ==
  ASSUME NEW next, NEW prev, NEW head, NEW L, List(next, prev, head, L), NEW r \in L,
         NEW next2 \in Links, NEW prev2 \in Links, NEW head2 \in OrNull,
         Bypassed(next, prev, head, L, r, next2, prev2, head2)
  PROVE  List(next2, prev2, head2, L \ {r})
<1>0. /\ head2 = IF r = head THEN next[r] ELSE head
      /\ \A x \in L \ {r} :
           /\ next2[x] = IF r # head /\ x = prev[r] THEN next[r] ELSE next[x]
           /\ prev2[x] = IF x = next[r] THEN IF r = head THEN Null ELSE prev[r]
                         ELSE prev[x]
  BY DEF Bypassed
<1>1. /\ next \in Links /\ prev \in Links /\ head \in OrNull /\ L \in SUBSET Records
      /\ Closed(next, head, L) /\ \A S : Closed(next, head, S) => L \subseteq S
  <2>1. Closed(next, head, L) /\ \A S : Closed(next, head, S) => L \subseteq S
    BY ListClosed
  <2> QED BY <2>1 DEF List
<1>2. /\ \A x \in L : next[x] # x /\ next[x] # head
      /\ \A x \in L : next[x] # Null => prev[next[x]] = x /\ next[x] \in L
      /\ head # Null => prev[head] = Null
  <2>1. \A x \in L : next[x] # x /\ next[x] # head
    BY ListNoLoop
  <2>2. \A x \in L : next[x] # Null => prev[next[x]] = x /\ next[x] \in L
    BY <1>1 DEF List, Closed
  <2>3. head # Null => prev[head] = Null
    BY DEF List
  <2> QED BY <2>1, <2>2, <2>3
<1>3. r # head => prev[r] \in L /\ next[prev[r]] = r /\ prev[r] # r
  BY <1>2, ListBack
<1>4. head # Null
  <2>1. head = Null => Closed(next, head, {})
    BY DEF Closed
  <2> QED BY <2>1, <1>1
<1>5. ASSUME NEW x \in L \ {r}, next2[x] # Null
      PROVE  next2[x] \in L \ {r} /\ prev2[next2[x]] = x
  <2>1. CASE r # head /\ x = prev[r]
    BY <1>0, <1>2, <1>3, <1>5, <2>1
  <2>2. CASE ~(r # head /\ x = prev[r])
    <3>1. next2[x] = next[x] /\ next[x] # Null /\ next[x] \in L /\ prev[next[x]] = x
      BY <1>0, <1>2, <1>5, <2>2
    <3>2. next[x] # r
      BY <1>2, <2>2, <3>1
    <3>3. next[x] # next[r]
      BY <1>2, <3>1
    <3> QED BY <1>0, <3>1, <3>2, <3>3
  <2> QED BY <2>1, <2>2
<1>6. head2 # Null => head2 \in L \ {r} /\ prev2[head2] = Null
  <2>1. CASE r = head
    BY <1>0, <1>2, <2>1
  <2>2. CASE r # head
    BY <1>0, <1>1, <1>2, <1>4, <2>2 DEF Closed
  <2> QED BY <2>1, <2>2
<1>7. Closed(next2, head2, L \ {r})
  BY <1>1, <1>5, <1>6 DEF Closed
<1>8. ASSUME NEW S, Closed(next2, head2, S) PROVE L \ {r} \subseteq S
  <2> DEFINE T == IF r = head \/ prev[r] \in S THEN (S \cap L) \cup {r} ELSE (S \cap L) \ {r}
  <2>1. T \in SUBSET Records /\ head \in T
    BY <1>0, <1>1, <1>4, <1>8 DEF Closed, OrNull
  <2>2. ASSUME NEW x \in T, next[x] # Null PROVE next[x] \in T
    <3>1. x \in L /\ next[x] \in L /\ prev[next[x]] = x
      BY <1>2, <2>2
    <3>2. CASE x = r
      <4>1. CASE r = head
        BY <1>0, <1>8, <2>2, <3>1, <3>2, <4>1 DEF Closed
      <4>2. CASE r # head
        <5>1. prev[r] \in S /\ prev[r] \in L \ {r}
          BY <1>3, <3>2, <4>2
        <5>2. next2[prev[r]] = next[r]
          BY <1>0, <4>2, <5>1
        <5> QED BY <1>8, <2>2, <3>1, <3>2, <4>2, <5>1, <5>2 DEF Closed
      <4> QED BY <4>1, <4>2
    <3>3. CASE x # r /\ next[x] = r
      <4>1. x = prev[r] /\ x \in S
        BY <3>1, <3>3
      <4> QED BY <3>3, <4>1
    <3>4. CASE x # r /\ next[x] # r
      <4>1. next2[x] = next[x] /\ x \in S
        BY <1>0, <1>3, <3>1, <3>4
      <4> QED BY <1>8, <2>2, <3>1, <3>4, <4>1 DEF Closed
    <3> QED BY <3>2, <3>3, <3>4
  <2>3. Closed(next, head, T)
    BY <2>1, <2>2 DEF Closed
  <2>4. L \subseteq T
    BY <1>1, <2>3
  <2> QED BY <2>4
<1>9. Along(next2, head2) = L \ {r}
  BY <1>7, <1>8, AlongIs
<1>10. L \ {r} # {} => \E x \in L \ {r} : next2[x] = Null
  <2> SUFFICES ASSUME L \ {r} # {} PROVE \E x \in L \ {r} : next2[x] = Null
    OBVIOUS
  <2>1. PICK last \in L : next[last] = Null
    BY DEF List
  <2>2. CASE last # r
    <3>1. ~(r # head /\ last = prev[r])
      BY <1>1, <1>3, <2>1
    <3>2. next2[last] = Null
      BY <1>0, <2>1, <2>2, <3>1
    <3> QED BY <2>2, <3>2
  <2>3. CASE last = r /\ r # head
    BY <1>0, <1>3, <2>1, <2>3
  <2>4. CASE last = r /\ r = head
    <3>1. Closed(next, head, {r})
      BY <1>1, <2>1, <2>4 DEF Closed
    <3> QED BY <1>1, <3>1
  <2> QED BY <2>2, <2>3, <2>4
<1> QED BY <1>1, <1>5, <1>6, <1>9, <1>10 DEF List

(* The other end of the list does not see what a forgotten node becomes. *)
LEMMA ListSame ==
  ASSUME NEW next, NEW prev, NEW head, NEW L, List(next, prev, head, L),
         NEW next2 \in Links, NEW prev2 \in Links,
         \A x \in L : next2[x] = next[x] /\ prev2[x] = prev[x]
  PROVE  List(next2, prev2, head, L)
<1>1. Closed(next, head, L)
  BY ListClosed
<1>2. next \in Links /\ head \in OrNull /\ Along(next, head) = L
  BY DEF List
<1>3. Along(next2, head) = L
  BY <1>2, AlongSame
<1> QED BY <1>1, <1>3 DEF List, Closed

(* A list of one node. *)
LEMMA ListOfOne ==
  ASSUME NEW next, NEW prev, NEW head, NEW r, List(next, prev, head, {r})
  PROVE  next[r] = Null
BY ListNoLoop, ListClosed DEF List, Closed

-----------------------------------------------------------------------------
(* The ring: time_next and time_prev, where H are the nodes met.           *)

Ring(next, prev, head, H) ==
  /\ next \in Links /\ prev \in Links /\ head \in OrNull /\ H \in SUBSET Records
  /\ Along(next, head) = H
  /\ \A r \in H : /\ next[r] \in H /\ prev[r] \in H
                  /\ prev[next[r]] = r /\ next[prev[r]] = r

LEMMA RingClosed ==
  ASSUME NEW next, NEW prev, NEW head, NEW H, Ring(next, prev, head, H)
  PROVE  /\ Closed(next, head, H)
         /\ \A S : Closed(next, head, S) => H \subseteq S
         /\ head = Null <=> H = {}
         /\ H # {} => head \in H
<1>1. /\ Closed(next, head, H)
      /\ \A S : Closed(next, head, S) => H \subseteq S
  BY AlongClosed, AlongLeast DEF Ring
<1>2. head = Null => H = {}
  <2>1. head = Null => Closed(next, head, {})
    BY DEF Closed
  <2> QED BY <1>1, <2>1
<1>3. head # Null => head \in H
  BY <1>1 DEF Closed
<1> QED BY <1>1, <1>2, <1>3

LEMMA RingAdd ==
  ASSUME NEW next, NEW prev, NEW head, NEW H, Ring(next, prev, head, H),
         NEW r \in Records, r \notin H,
         NEW next2 \in Links, NEW prev2 \in Links,
         next2[r] = IF head = Null THEN r ELSE head,
         prev2[r] = IF head = Null THEN r ELSE prev[head],
         \A x \in H : next2[x] = IF x = prev[head] THEN r ELSE next[x],
         \A x \in H : prev2[x] = IF x = head THEN r ELSE prev[x]
  PROVE  Ring(next2, prev2, r, H \cup {r})
<1>1. /\ H \in SUBSET Records /\ Closed(next, head, H) /\ (head = Null <=> H = {})
      /\ \A S : Closed(next, head, S) => H \subseteq S
      /\ \A x \in H : /\ next[x] \in H /\ prev[x] \in H
                      /\ prev[next[x]] = x /\ next[prev[x]] = x
      /\ H # {} => head \in H
  BY RingClosed DEF Ring
<1>2. CASE H = {}
  <2>1. next2[r] = r /\ prev2[r] = r
    BY <1>1, <1>2
  <2>2. Closed(next2, r, {r}) /\ \A S : Closed(next2, r, S) => {r} \subseteq S
    BY <2>1 DEF Closed
  <2>3. Along(next2, r) = {r}
    BY <2>2, AlongIs DEF OrNull
  <2> QED BY <1>2, <2>1, <2>3 DEF Ring, OrNull
<1>3. CASE H # {}
  <2>1. /\ head \in H /\ prev[head] \in H /\ next[prev[head]] = head
        /\ next2[r] = head /\ prev2[r] = prev[head]
    BY <1>1, <1>3
  <2>2. ASSUME NEW x \in H \cup {r}
        PROVE  /\ next2[x] \in H \cup {r} /\ prev2[x] \in H \cup {r}
               /\ prev2[next2[x]] = x /\ next2[prev2[x]] = x
    <3>1. CASE x = r
      BY <2>1, <3>1
    <3>2. CASE x \in H
      <4>1. next2[x] \in H \cup {r} /\ prev2[next2[x]] = x
        <5>1. CASE x = prev[head]
          BY <2>1, <3>2, <5>1
        <5>2. CASE x # prev[head]
          <6>1. next2[x] = next[x] /\ next[x] \in H /\ next[x] # head
            BY <1>1, <3>2, <5>2
          <6> QED BY <1>1, <3>2, <6>1
        <5> QED BY <5>1, <5>2
      <4>2. prev2[x] \in H \cup {r} /\ next2[prev2[x]] = x
        <5>1. CASE x = head
          BY <2>1, <3>2, <5>1
        <5>2. CASE x # head
          <6>1. prev2[x] = prev[x] /\ prev[x] \in H /\ prev[x] # prev[head]
            BY <1>1, <2>1, <3>2, <5>2
          <6> QED BY <1>1, <3>2, <6>1
        <5> QED BY <5>1, <5>2
      <4> QED BY <4>1, <4>2
    <3> QED BY <3>1, <3>2
  <2>3. Closed(next2, r, H \cup {r})
    BY <1>1, <2>2 DEF Closed
  <2>4. ASSUME NEW S, Closed(next2, r, S) PROVE H \cup {r} \subseteq S
    <3>1. r \in S /\ head \in S
      BY <2>1, <2>4, <1>1 DEF Closed
    <3>2. Closed(next, head, S \cap H)
      BY <1>1, <2>1, <2>4, <3>1 DEF Closed
    <3> QED BY <1>1, <3>1, <3>2
  <2>5. Along(next2, r) = H \cup {r}
    BY <2>3, <2>4, AlongIs DEF OrNull
  <2> QED BY <1>1, <2>2, <2>5 DEF Ring, OrNull
<1> QED BY <1>2, <1>3

(* A node leaves; the head moves on if it was the head. *)
LEMMA RingRemove ==
  ASSUME NEW next, NEW prev, NEW head, NEW H, Ring(next, prev, head, H), NEW r \in H,
         NEW next2 \in Links, NEW prev2 \in Links, NEW head2,
         \A x \in H \ {r} : next2[x] = IF x = prev[r] THEN next[r] ELSE next[x],
         \A x \in H \ {r} : prev2[x] = IF x = next[r] THEN prev[r] ELSE prev[x],
         head2 = IF H = {r} THEN Null ELSE IF r = head THEN next[r] ELSE head
  PROVE  Ring(next2, prev2, head2, H \ {r})
<1>1. /\ H \in SUBSET Records /\ Closed(next, head, H) /\ head \in H
      /\ \A S : Closed(next, head, S) => H \subseteq S
      /\ \A x \in H : /\ next[x] \in H /\ prev[x] \in H
                      /\ prev[next[x]] = x /\ next[prev[x]] = x
  BY RingClosed DEF Ring
<1>2. CASE H = {r}
  <2>1. head2 = Null /\ H \ {r} = {}
    BY <1>2
  <2>2. Along(next2, Null) = {}
    <3>1. Closed(next2, Null, {}) BY DEF Closed
    <3> QED BY <3>1, AlongLeast
  <2> QED BY <2>1, <2>2 DEF Ring, OrNull
<1>3. CASE H # {r}
(* Not the only one: its neighbours are others. *)
  <2>1. next[r] # r
    <3>1. ASSUME next[r] = r PROVE FALSE
      <4>1. prev[r] = r
        BY <1>1, <3>1
      <4>2. CASE head = r
        <5>1. Closed(next, head, {r})
          BY <1>1, <3>1, <4>2 DEF Closed
        <5> QED BY <1>1, <1>3, <5>1
      <4>3. CASE head # r
        <5>1. Closed(next, head, H \ {r})
          BY <1>1, <4>1, <4>3 DEF Closed
        <5> QED BY <1>1, <5>1
      <4> QED BY <4>2, <4>3
    <3> QED BY <3>1
  <2>2. prev[r] # r
    BY <1>1, <2>1
  <2>3. ASSUME NEW x \in H \ {r}
        PROVE  /\ next2[x] \in H \ {r} /\ prev2[next2[x]] = x
               /\ prev2[x] \in H \ {r} /\ next2[prev2[x]] = x
    <3>1. next2[x] \in H \ {r} /\ prev2[next2[x]] = x
      <4>1. CASE x = prev[r]
        BY <1>1, <2>1, <4>1
      <4>2. CASE x # prev[r]
        <5>1. next2[x] = next[x] /\ next[x] \in H \ {r} /\ next[x] # next[r]
          BY <1>1, <4>2
        <5> QED BY <1>1, <5>1
      <4> QED BY <4>1, <4>2
    <3>2. prev2[x] \in H \ {r} /\ next2[prev2[x]] = x
      <4>1. CASE x = next[r]
        BY <1>1, <2>2, <4>1
      <4>2. CASE x # next[r]
        <5>1. prev2[x] = prev[x] /\ prev[x] \in H \ {r} /\ prev[x] # prev[r]
          BY <1>1, <4>2
        <5> QED BY <1>1, <5>1
      <4> QED BY <4>1, <4>2
    <3> QED BY <3>1, <3>2
  <2>4. head2 \in H \ {r}
    BY <1>1, <1>3, <2>1
  <2>5. Closed(next2, head2, H \ {r})
    BY <1>1, <2>3, <2>4 DEF Closed
  <2>6. ASSUME NEW S, Closed(next2, head2, S) PROVE H \ {r} \subseteq S
    <3> DEFINE T == IF prev[r] \in S THEN (S \cap H) \cup {r} ELSE (S \cap H) \ {r}
    <3>1. head2 \in S /\ \A x \in S \cap (H \ {r}) : next2[x] \in S
      BY <1>1, <2>3, <2>4, <2>6 DEF Closed
    <3>2. ASSUME NEW x \in T, x # r PROVE next[x] \in T
      <4>1. x \in S \cap H
        BY <3>2
      <4>2. CASE x = prev[r]
        BY <1>1, <4>1, <4>2
      <4>3. CASE x # prev[r]
        <5>1. next2[x] = next[x] /\ next[x] \in S \cap H /\ next[x] # r
          BY <1>1, <3>1, <3>2, <4>1, <4>3
        <5> QED BY <5>1
      <4> QED BY <4>2, <4>3
    <3>3. prev[r] \in S => next[r] \in T
      <4>1. next2[prev[r]] = next[r]
        BY <1>1, <2>2
      <4> QED BY <1>1, <2>1, <2>2, <3>1, <4>1
    <3>4. CASE prev[r] \in S \/ r # head
      <4>1. Closed(next, head, T)
        <5>1. T \in SUBSET Records
          BY <1>1
        <5>2. head \in T
          BY <1>1, <1>3, <3>1, <3>4
        <5> QED BY <5>1, <5>2, <3>2, <3>3 DEF Closed
      <4>2. H \subseteq T
        BY <1>1, <4>1
      <4> QED BY <4>2
    <3>5. CASE prev[r] \notin S /\ r = head
      <4>1. next[r] \in T
        BY <1>1, <1>3, <2>1, <3>1, <3>5
      <4>2. Closed(next, head, T \cup {r})
        BY <1>1, <3>2, <3>5, <4>1 DEF Closed
      <4>3. H \subseteq T \cup {r}
        BY <1>1, <4>2
      <4> QED BY <4>3
    <3> QED BY <3>4, <3>5
  <2>7. Along(next2, head2) = H \ {r}
    BY <1>1, <2>4, <2>5, <2>6, AlongIs DEF OrNull
  <2> QED BY <1>1, <2>3, <2>4, <2>7 DEF Ring, OrNull
<1> QED BY <1>2, <1>3

LEMMA RingSame ==
  ASSUME NEW next, NEW prev, NEW head, NEW H, Ring(next, prev, head, H),
         NEW next2 \in Links, NEW prev2 \in Links,
         \A x \in H : next2[x] = next[x] /\ prev2[x] = prev[x]
  PROVE  Ring(next2, prev2, head, H)
<1>1. Along(next2, head) = H
  BY AlongSame DEF Ring
<1> QED BY <1>1 DEF Ring

-----------------------------------------------------------------------------
(* The ring as a queue, the last to enter first.                           *)

(* q is the order of the n nodes of the ring from the head on. *)
Queue(next, head, H, n, q) ==
  /\ n \in Nat /\ q \in [0 .. n - 1 -> H]
  /\ \A i, j \in 0 .. n - 1 : q[i] = q[j] => i = j
  /\ \A x \in H : \E i \in 0 .. n - 1 : q[i] = x
  /\ \A i \in 0 .. n - 1 : next[q[i]] = IF i = n - 1 THEN head ELSE q[i + 1]
  /\ n > 0 => q[0] = head

(* The queue of n once r is in front of q, and once q[j] is out of it. *)
Pushed(q, r, n) == [i \in 0 .. n - 1 |-> IF i = 0 THEN r ELSE q[i - 1]]
Dropped(q, j, n) == [i \in 0 .. n - 1 |-> IF i < j THEN q[i] ELSE q[i + 1]]

(* A node that enters goes to the front of the queue. *)
LEMMA QueueAdd ==
  ASSUME NEW next, NEW prev, NEW head, NEW H, Ring(next, prev, head, H),
         NEW r \in Records, r \notin H, NEW next2,
         next2[r] = IF head = Null THEN r ELSE head,
         \A x \in H : next2[x] = IF x = prev[head] THEN r ELSE next[x],
         NEW n, NEW q, Queue(next, head, H, n, q)
  PROVE  Queue(next2, r, H \cup {r}, n + 1, Pushed(q, r, n + 1))
<1>1. /\ n \in Nat /\ q \in [0 .. n - 1 -> H]
      /\ \A i, j \in 0 .. n - 1 : q[i] = q[j] => i = j
      /\ \A x \in H : \E i \in 0 .. n - 1 : q[i] = x
      /\ \A i \in 0 .. n - 1 : next[q[i]] = IF i = n - 1 THEN head ELSE q[i + 1]
      /\ n > 0 => q[0] = head
  BY DEF Queue
<1>2. PICK p : p = Pushed(q, r, n + 1)
  OBVIOUS
<1>3. /\ p \in [0 .. n -> H \cup {r}] /\ p[0] = r
      /\ \A i \in 1 .. n : p[i] = q[i - 1] /\ i - 1 \in 0 .. n - 1 /\ p[i] \in H
  <2>1. \A i \in 0 .. n : p[i] = IF i = 0 THEN r ELSE q[i - 1]
    BY <1>1, <1>2 DEF Pushed
  <2>2. \A i \in 1 .. n : p[i] = q[i - 1] /\ i - 1 \in 0 .. n - 1 /\ p[i] \in H
    BY <1>1, <2>1
  <2>3. p[0] = r
    BY <1>1, <2>1
  <2>4. \A i \in 0 .. n : p[i] \in H \cup {r}
    BY <1>1, <2>2, <2>3
  <2>5. p = [i \in 0 .. n |-> p[i]]
    BY <1>1, <1>2 DEF Pushed
  <2> QED BY <2>2, <2>3, <2>4, <2>5
<1>4. ASSUME NEW i \in 0 .. n, NEW j \in 0 .. n, p[i] = p[j] PROVE i = j
  BY <1>1, <1>3, <1>4
<1>5. ASSUME NEW x \in H \cup {r} PROVE \E i \in 0 .. n : p[i] = x
  <2>1. CASE x = r
    BY <1>1, <1>3, <2>1
  <2>2. CASE x # r
    <3>1. PICK i \in 0 .. n - 1 : q[i] = x
      BY <1>1, <2>2
    <3>2. i + 1 \in 1 .. n /\ (i + 1) - 1 = i
      BY <1>1
    <3> QED BY <1>1, <1>3, <3>1, <3>2
  <2> QED BY <2>1, <2>2
<1>6. ASSUME NEW i \in 0 .. n PROVE next2[p[i]] = IF i = n THEN r ELSE p[i + 1]
  <2>1. CASE n = 0
    <3>1. head = Null
      <4>1. H = {}
        BY <1>1, <2>1
      <4> QED BY <4>1, RingClosed
    <3> QED BY <1>3, <2>1, <3>1
  <2>2. CASE n > 0
    <3>1. head = q[0] /\ head \in H /\ head # Null
      BY <1>1, <2>2 DEF Ring
    <3>2. prev[head] = q[n - 1]
      <4>1. n - 1 \in 0 .. n - 1 /\ q[n - 1] \in H
        BY <1>1, <2>2
      <4>2. next[q[n - 1]] = head
        BY <1>1, <4>1
      <4> QED BY <4>1, <4>2 DEF Ring
    <3>3. CASE i = 0
      BY <1>1, <1>3, <2>2, <3>1, <3>3
    <3>4. CASE i = n
      BY <1>1, <1>3, <2>2, <3>2, <3>4
    <3>5. CASE i # 0 /\ i # n
      <4>1. i \in 1 .. n /\ i + 1 \in 1 .. n /\ i - 1 \in 0 .. n - 1 /\ i - 1 # n - 1
            /\ n - 1 \in 0 .. n - 1 /\ (i - 1) + 1 = i /\ (i + 1) - 1 = i
        BY <1>1, <3>5
      <4>2. p[i] = q[i - 1] /\ p[i + 1] = q[i] /\ p[i] \in H
        BY <1>3, <4>1
      <4>3. p[i] # prev[head]
        BY <1>1, <3>2, <4>1, <4>2
      <4>4. next[q[i - 1]] = q[i]
        BY <1>1, <4>1
      <4> QED BY <3>5, <4>2, <4>3, <4>4
    <3> QED BY <3>3, <3>4, <3>5
  <2> QED BY <1>1, <2>1, <2>2
<1>7. (n + 1) - 1 = n /\ n + 1 \in Nat
  BY <1>1
<1>8. Queue(next2, r, H \cup {r}, n + 1, p)
  BY <1>3, <1>4, <1>5, <1>6, <1>7 DEF Queue
<1> QED BY <1>2, <1>8

(* One that leaves makes those behind it move up. *)
LEMMA QueueRemove ==
  ASSUME NEW next, NEW prev, NEW head, NEW H, Ring(next, prev, head, H), NEW r \in H,
         NEW next2, NEW head2,
         \A x \in H \ {r} : next2[x] = IF x = prev[r] THEN next[r] ELSE next[x],
         head2 = IF H = {r} THEN Null ELSE IF r = head THEN next[r] ELSE head,
         NEW n, NEW q, NEW j \in 0 .. n - 1, Queue(next, head, H, n, q), q[j] = r
  PROVE  Queue(next2, head2, H \ {r}, n - 1, Dropped(q, j, n - 1))
<1>1. /\ n \in Nat /\ q \in [0 .. n - 1 -> H]
      /\ \A i, k \in 0 .. n - 1 : q[i] = q[k] => i = k
      /\ \A x \in H : \E i \in 0 .. n - 1 : q[i] = x
      /\ \A i \in 0 .. n - 1 : next[q[i]] = IF i = n - 1 THEN head ELSE q[i + 1]
      /\ n > 0 => q[0] = head
  BY DEF Queue
<1>2. n > 0 /\ n - 1 \in Nat /\ q[0] = head /\ 0 \in 0 .. n - 1 /\ n - 1 \in 0 .. n - 1
  BY <1>1
<1>3. PICK p : p = Dropped(q, j, n - 1)
  OBVIOUS
<1>4. PICK m \in Nat : m = n - 1
  BY <1>2
<1>5. ASSUME NEW i \in 0 .. m - 1
      PROVE  IF i < j THEN p[i] = q[i] /\ i \in 0 .. m ELSE p[i] = q[i + 1] /\ i + 1 \in 0 .. m
  BY <1>3, <1>4 DEF Dropped
<1>6. p \in [0 .. m - 1 -> H \ {r}]
  <2>1. ASSUME NEW i \in 0 .. m - 1 PROVE p[i] \in H \ {r}
    BY <1>1, <1>4, <1>5
  <2>2. p = [i \in 0 .. m - 1 |-> p[i]]
    BY <1>3, <1>4 DEF Dropped
  <2> QED BY <2>1, <2>2
<1>7. ASSUME NEW i \in 0 .. m - 1, NEW k \in 0 .. m - 1, p[i] = p[k] PROVE i = k
  BY <1>1, <1>4, <1>5, <1>7
<1>8. ASSUME NEW x \in H \ {r} PROVE \E i \in 0 .. m - 1 : p[i] = x
  <2>1. PICK k \in 0 .. m : q[k] = x
    BY <1>1, <1>4
  <2>2. k # j /\ k \in Int /\ j \in 0 .. m
    BY <1>4, <2>1
  <2>3. CASE k < j
    BY <1>4, <1>5, <2>1, <2>2, <2>3
  <2>4. CASE k > j
    <3>1. k - 1 \in 0 .. m - 1 /\ ~(k - 1 < j) /\ (k - 1) + 1 = k
      BY <2>2, <2>4
    <3> QED BY <1>5, <2>1, <3>1
  <2> QED BY <2>2, <2>3, <2>4
<1>9. next[r] = (IF j = m THEN head ELSE q[j + 1])
  BY <1>1, <1>4
<1>10. prev[r] = q[IF j = 0 THEN m ELSE j - 1]
  <2>1. PICK k : k = IF j = 0 THEN m ELSE j - 1
    OBVIOUS
  <2>2. k \in 0 .. n - 1 /\ (j # 0 => k # n - 1 /\ k + 1 = j) /\ (j = 0 => k = n - 1)
    BY <1>1, <1>2, <1>4, <2>1
  <2>3. next[q[k]] = r
    BY <1>1, <1>2, <2>2
  <2>4. q[k] \in H
    BY <1>1, <2>2
  <2> QED BY <2>1, <2>3, <2>4 DEF Ring
<1>11. ASSUME m > 0 PROVE head2 = IF j = 0 THEN q[1] ELSE head
  <2>1. \E x \in H : x # r
    BY <1>1, <1>2, <1>4, <1>11
  <2>2. r = head <=> j = 0
    BY <1>1, <1>2
  <2> QED BY <1>4, <1>9, <1>11, <2>1, <2>2
<1>12. ASSUME NEW i \in 0 .. m - 1 PROVE next2[p[i]] = IF i = m - 1 THEN head2 ELSE p[i + 1]
  <2>1. next2[p[i]] = IF p[i] = prev[r] THEN next[r] ELSE next[p[i]]
    BY <1>6
  <2>2. m > 0 /\ head2 = IF j = 0 THEN q[1] ELSE head
    BY <1>4, <1>11
  <2>3. CASE i < j
    <3>1. p[i] = q[i] /\ i \in 0 .. m /\ i # m
      BY <1>5, <2>3
    <3>2. p[i] = prev[r] <=> i = j - 1
      <4>1. j # 0 /\ j - 1 \in 0 .. n - 1 /\ i \in 0 .. n - 1
        BY <1>4, <2>3
      <4>2. prev[r] = q[j - 1]
        BY <1>10, <4>1
      <4> QED BY <1>1, <3>1, <4>1, <4>2
    <3>3. CASE i = j - 1
      <4>1. next2[p[i]] = IF j = m THEN head ELSE q[j + 1]
        BY <1>9, <2>1, <3>2, <3>3
      <4>2. j # m => p[i + 1] = q[j + 1] /\ i # m - 1
        BY <1>4, <1>5, <3>3
      <4>3. j = m => i = m - 1 /\ j # 0
        BY <1>4, <3>3
      <4>4. j # m => i # m - 1
        BY <1>4, <3>3
      <4> QED BY <2>2, <4>1, <4>2, <4>3, <4>4
    <3>4. CASE i # j - 1
      <4>1. next2[p[i]] = q[i + 1]
        BY <1>1, <1>4, <2>1, <3>1, <3>2, <3>4
      <4>2. i # m - 1 /\ p[i + 1] = q[i + 1]
        BY <1>4, <1>5, <2>3, <3>4
      <4> QED BY <4>1, <4>2
    <3> QED BY <3>3, <3>4
  <2>4. CASE ~(i < j)
    <3>1. p[i] = q[i + 1] /\ i + 1 \in 0 .. m
      BY <1>5, <2>4
    <3>2. p[i] = prev[r] <=> j = 0 /\ i + 1 = m
      BY <1>1, <1>4, <1>10, <2>4, <3>1
    <3>3. CASE j = 0 /\ i + 1 = m
      <4>1. next[r] = q[1]
        BY <1>4, <1>9, <2>2, <3>3
      <4> QED BY <2>1, <2>2, <3>2, <3>3, <4>1
    <3>4. CASE ~(j = 0 /\ i + 1 = m)
      <4>1. next2[p[i]] = IF i + 1 = m THEN head ELSE q[(i + 1) + 1]
        BY <1>1, <1>4, <2>1, <3>1, <3>2, <3>4
      <4>2. i + 1 # m => p[i + 1] = q[(i + 1) + 1]
        BY <1>4, <1>5, <2>4
      <4> QED BY <2>2, <2>4, <3>4, <4>1, <4>2
    <3> QED BY <3>3, <3>4
  <2> QED BY <2>3, <2>4
<1>13. Queue(next2, head2, H \ {r}, m, p)
  <2>1. m > 0 => p[0] = head2
    BY <1>2, <1>4, <1>5, <1>11
  <2> QED BY <1>4, <1>6, <1>7, <1>8, <1>12, <2>1 DEF Queue
<1> QED BY <1>3, <1>4, <1>13
LEMMA QueueSame ==
  ASSUME NEW next, NEW head, NEW H, NEW n, NEW q, Queue(next, head, H, n, q),
         NEW next2, \A x \in H : next2[x] = next[x]
  PROVE  Queue(next2, head, H, n, q)
<1>1. \A i \in 0 .. n - 1 : q[i] \in H
  BY DEF Queue
<1> QED BY <1>1 DEF Queue

(* What a step on the ring does to the queue. *)
Pushes(next, head, H, r, next2) ==
  \A n, q : Queue(next, head, H, n, q)
             => Queue(next2, r, H \cup {r}, n + 1, Pushed(q, r, n + 1))

Drops(next, head, H, r, next2, head2) ==
  \A n, q : \A j \in 0 .. n - 1 :
     Queue(next, head, H, n, q) /\ q[j] = r
       => Queue(next2, head2, H \ {r}, n - 1, Dropped(q, j, n - 1))

-----------------------------------------------------------------------------
(* The binary searches.                                                    *)

LEMMA Middle ==
  ASSUME NEW l \in Nat, NEW r \in Int, l =< r
  PROVE  (l + r) \div 2 \in l .. r
OBVIOUS

Size(w) == IF w[1] > w[2] THEN 0 ELSE w[2] - w[1] + 1

LEMMA WindowType ==
  ASSUME NEW w \in Windows
  PROVE  /\ w[1] \in Nat /\ w[2] \in Int /\ Size(w) \in Nat /\ Size(w) =< HotSize
         /\ Size(w) =< 0 => w[1] > w[2]
<1>1. w[1] \in 0 .. HotSize /\ w[2] \in -1 .. HotSize - 1
  BY DEF Windows
<1> QED BY <1>1 DEF Size

(* Both halves of a window are smaller. *)
LEMMA HalfSmaller ==
  ASSUME NEW w \in Windows, w[1] =< w[2], NEW m, m = (w[1] + w[2]) \div 2
  PROVE  /\ m \in w[1] .. w[2]
         /\ <<m + 1, w[2]>> \in Windows /\ Size(<<m + 1, w[2]>>) < Size(w)
         /\ <<w[1], m - 1>> \in Windows /\ Size(<<w[1], m - 1>>) < Size(w)
<1>1. PICK l \in 0 .. HotSize, r \in -1 .. HotSize - 1 : w = <<l, r>>
  BY DEF Windows
<1>2. w[1] = l /\ w[2] = r /\ l =< r
  BY <1>1
<1>3. m \in l .. r
  BY <1>2, Middle
<1>4. <<m + 1, r>> \in Windows /\ <<l, m - 1>> \in Windows
  BY <1>3 DEF Windows
<1>5. Size(<<m + 1, r>>) < Size(w) /\ Size(<<l, m - 1>>) < Size(w)
  BY <1>2, <1>3 DEF Size
<1> QED BY <1>2, <1>3, <1>4, <1>5

LEMMA Least ==
  ASSUME NEW S \in SUBSET Nat, S # {}
  PROVE  \E m \in S : \A n \in S : m =< n
<1> DEFINE R == OpToRel(<, Nat)
<1>1. R = {pair \in Nat \X Nat : pair[1] < pair[2]}
  BY DEF OpToRel
<1>2. IsWellFoundedOn(R, Nat)
  BY NatLessThanWellFounded
<1> HIDE DEF R
<1>3. PICK m \in S : \A n \in S : ~(<<n, m>> \in R)
  BY <1>2, WFMin
<1>4. ASSUME NEW n \in S PROVE m =< n
  <2>1. m \in Nat /\ n \in Nat /\ (n < m => <<n, m>> \in R)
    BY <1>1
  <2> QED BY <1>3, <2>1
<1> QED BY <1>4

LEMMA SetInduction ==
  ASSUME NEW S, 0 \in S, \A n \in Nat : n \in S => n + 1 \in S
  PROVE  Nat \subseteq S
<1> SUFFICES ASSUME Nat \ S # {} PROVE FALSE
  OBVIOUS
<1>1. PICK m \in Nat \ S : \A n \in Nat \ S : m =< n
  BY Least
<1>2. m # 0 /\ m - 1 \in Nat /\ (m - 1) + 1 = m
  BY <1>1
<1> QED BY <1>1, <1>2

(* One look of a search that answers in the windows of the set stop and    *)
(* goes up from those of the set up.                                       *)
Look(stop, up, answer, search, w) ==
  LET m == (w[1] + w[2]) \div 2
  IN  IF w \in stop THEN answer[w]
      ELSE IF w \in up THEN search[<<m + 1, w[2]>>]
      ELSE search[<<w[1], m - 1>>]

LEMMA LookLocal ==
  ASSUME NEW stop, NEW up, NEW answer, NEW f, NEW g, NEW w \in Windows,
         w[1] > w[2] => w \in stop,
         \A v \in Windows : Size(v) < Size(w) => f[v] = g[v]
  PROVE  Look(stop, up, answer, f, w) = Look(stop, up, answer, g, w)
<1>1. CASE w \in stop
  BY <1>1 DEF Look
<1>2. CASE w \notin stop
  <2>1. PICK m : m = (w[1] + w[2]) \div 2
    OBVIOUS
  <2>2. f[<<m + 1, w[2]>>] = g[<<m + 1, w[2]>>] /\ f[<<w[1], m - 1>>] = g[<<w[1], m - 1>>]
    <3>1. w[1] =< w[2]
      BY <1>2, WindowType
    <3> QED BY <2>1, <3>1, HalfSmaller
  <2> QED BY <2>1, <2>2 DEF Look
<1> QED BY <1>1, <1>2

Searches(stop, up, answer, f) == f = [w \in Windows |-> Look(stop, up, answer, f, w)]

LEMMA SearchExists ==
  ASSUME NEW stop, NEW up, NEW answer, \A w \in Windows : w[1] > w[2] => w \in stop
  PROVE  \E f : Searches(stop, up, answer, f)
<1> DEFINE L(f, w) == Look(stop, up, answer, f, w)
           Good(f, n) == \A w \in Windows : Size(w) =< n => f[w] = L(f, w)
           Can == {n \in Nat : \E f : f = [w \in Windows |-> f[w]] /\ Good(f, n)}
<1>1. 0 \in Can
  <2>1. PICK f : f = [w \in Windows |-> answer[w]]
    OBVIOUS
  <2>2. ASSUME NEW w \in Windows, Size(w) =< 0 PROVE L(f, w) = answer[w]
    <3>1. w[1] > w[2]
      BY <2>2, WindowType
    <3> QED BY <3>1 DEF Look
  <2> QED BY <2>1, <2>2
<1>2. ASSUME NEW n \in Nat, n \in Can PROVE n + 1 \in Can
  <2>1. PICK f : f = [w \in Windows |-> f[w]] /\ Good(f, n)
    BY <1>2
  <2>2. PICK g : g = [w \in Windows |-> IF Size(w) =< n THEN f[w] ELSE L(f, w)]
    OBVIOUS
  <2>3. \A w \in Windows : g[w] = IF Size(w) =< n THEN f[w] ELSE L(f, w)
    BY <2>2
  <2>4. ASSUME NEW w \in Windows, Size(w) =< n + 1 PROVE g[w] = L(g, w)
    <3>1. ASSUME NEW v \in Windows, Size(v) < Size(w) PROVE g[v] = f[v]
      <4>1. Size(v) =< n
        BY <2>4, <3>1, WindowType
      <4> QED BY <2>3, <4>1
    <3>2. L(g, w) = L(f, w)
      BY <3>1, LookLocal
    <3>3. g[w] = L(f, w)
      BY <2>1, <2>3
    <3> QED BY <3>2, <3>3
  <2>5. g = [w \in Windows |-> g[w]]
    BY <2>2
  <2> QED BY <2>4, <2>5
<1>3. HotSize \in Can
  BY <1>1, <1>2, SetInduction
<1>4. PICK f : f = [w \in Windows |-> f[w]] /\ Good(f, HotSize)
  BY <1>3
<1>5. \A w \in Windows : f[w] = L(f, w)
  BY <1>4, WindowType
<1>6. f = [w \in Windows |-> L(f, w)]
  BY <1>4, <1>5
<1> QED BY <1>6 DEF Searches

(* The array is sorted; its unused end does not matter. *)
SortedArray(s) ==
  /\ s.hot_count \in 0 .. HotSize
  /\ \A i \in 0 .. s.hot_count - 1 : HotFd(s, i) \in Nat
  /\ \A i, j \in 0 .. s.hot_count - 1 : i < j => HotFd(s, i) =< HotFd(s, j)

(* find_record_in_hot_cache. *)
HotStep(s, fd, search, w) ==
  LET l == w[1]
      r == w[2]
      m == (l + r) \div 2
  IN  IF l > r THEN -1
      ELSE IF HotFd(s, m) < fd THEN search[<<m + 1, r>>]
      ELSE IF HotFd(s, m) > fd THEN search[<<l, m - 1>>]
      ELSE m

LEMMA HotSearchExists ==
  ASSUME NEW s, NEW fd
  PROVE  \E f : f = [w \in Windows |-> HotStep(s, fd, f, w)]
<1> DEFINE mid(w) == (w[1] + w[2]) \div 2
           up == {w \in Windows : HotFd(s, mid(w)) < fd}
           stop == {w \in Windows : \/ w[1] > w[2]
                                    \/ w \notin up /\ ~(HotFd(s, mid(w)) > fd)}
           answer == [w \in Windows |-> IF w[1] > w[2] THEN -1 ELSE mid(w)]
<1>1. ASSUME NEW f, NEW w \in Windows PROVE HotStep(s, fd, f, w) = Look(stop, up, answer, f, w)
  BY DEF HotStep, Look
<1>e. \A w \in Windows : w[1] > w[2] => w \in stop
  OBVIOUS
<1> HIDE DEF stop, up, answer
<1>2. PICK f : Searches(stop, up, answer, f)
  BY <1>e, SearchExists
<1>3. f = [w \in Windows |-> HotStep(s, fd, f, w)]
  BY <1>1, <1>2 DEF Searches
<1> QED BY <1>3

LEMMA HotIndexIs ==
  ASSUME NEW s, SortedArray(s), NEW fd \in Nat
  PROVE  LET index == HotIndex(s, fd)
         IN  \/ index = -1 /\ \A i \in 0 .. s.hot_count - 1 : HotFd(s, i) # fd
             \/ index \in 0 .. s.hot_count - 1 /\ HotFd(s, index) = fd
<1> DEFINE Correct(index) ==
      \/ index = -1 /\ \A i \in 0 .. s.hot_count - 1 : HotFd(s, i) # fd
      \/ index \in 0 .. s.hot_count - 1 /\ HotFd(s, index) = fd
<1>1. PICK f : f = CHOOSE g : g = [w \in Windows |-> HotStep(s, fd, g, w)]
  OBVIOUS
<1>2. f = [w \in Windows |-> HotStep(s, fd, f, w)]
  BY <1>1, HotSearchExists
<1>3. \A w \in Windows : f[w] = HotStep(s, fd, f, w)
  BY <1>2
<1>4. HotIndex(s, fd) = f[<<0, s.hot_count - 1>>]
  BY <1>1 DEF HotIndex, HotStep
<1> DEFINE Fit(w) == /\ w[2] < s.hot_count
                     /\ \A i \in 0 .. s.hot_count - 1 :
                          (i < w[1] => HotFd(s, i) < fd) /\ (i > w[2] => HotFd(s, i) > fd)
           Done == {n \in Nat : \A w \in Windows : Size(w) =< n /\ Fit(w) => Correct(f[w])}
<1>k. PICK k \in 0 .. HotSize : k = s.hot_count
  BY DEF SortedArray
<1>5. ASSUME NEW w \in Windows, Fit(w), w[1] > w[2] PROVE Correct(f[w])
  <2>1. f[w] = -1
    BY <1>3, <1>5 DEF HotStep
  <2>2. \A i \in 0 .. s.hot_count - 1 : HotFd(s, i) # fd
    <3>1. w[1] \in Nat /\ w[2] \in Int
      BY WindowType
    <3> QED BY <1>k, <1>5, <3>1 DEF SortedArray
  <2> QED BY <2>1, <2>2
<1>6. 0 \in Done
  BY <1>5, WindowType
<1>7. ASSUME NEW n \in Nat, n \in Done PROVE n + 1 \in Done
  <2> SUFFICES ASSUME NEW w \in Windows, Size(w) =< n + 1, Fit(w), w[1] =< w[2]
               PROVE  Correct(f[w])
    BY <1>5, WindowType
  <2>1. PICK m : m = (w[1] + w[2]) \div 2
    OBVIOUS
  <2>2. /\ m \in w[1] .. w[2] /\ w[1] \in Nat /\ w[2] \in Int /\ w[2] < k
        /\ <<m + 1, w[2]>> \in Windows /\ Size(<<m + 1, w[2]>>) =< n
        /\ <<w[1], m - 1>> \in Windows /\ Size(<<w[1], m - 1>>) =< n
    <3>1. Size(w) \in Nat /\ w[1] \in Nat /\ w[2] \in Int
      BY WindowType
    <3>2. /\ m \in w[1] .. w[2]
          /\ <<m + 1, w[2]>> \in Windows /\ Size(<<m + 1, w[2]>>) < Size(w)
          /\ <<w[1], m - 1>> \in Windows /\ Size(<<w[1], m - 1>>) < Size(w)
      BY <2>1, HalfSmaller
    <3>3. /\ Size(<<m + 1, w[2]>>) \in Nat /\ Size(<<w[1], m - 1>>) \in Nat
      BY <3>2, WindowType
    <3> QED BY <1>k, <3>1, <3>2, <3>3
  <2>3. HotFd(s, m) \in Nat /\ m \in 0 .. k - 1
    BY <1>k, <2>2 DEF SortedArray
  <2>4. f[w] = IF HotFd(s, m) < fd THEN f[<<m + 1, w[2]>>]
               ELSE IF HotFd(s, m) > fd THEN f[<<w[1], m - 1>>]
               ELSE m
    BY <1>3, <2>1, <2>2 DEF HotStep
  <2>5. CASE HotFd(s, m) < fd
    <3>1. Fit(<<m + 1, w[2]>>)
      BY <1>k, <2>2, <2>3, <2>5 DEF SortedArray
    <3> QED BY <1>7, <2>2, <2>4, <2>5, <3>1
  <2>6. CASE HotFd(s, m) > fd
    <3>1. Fit(<<w[1], m - 1>>)
      BY <1>k, <2>2, <2>3, <2>6 DEF SortedArray
    <3> QED BY <1>7, <2>2, <2>3, <2>4, <2>6, <3>1
  <2>7. CASE HotFd(s, m) = fd
    BY <1>k, <2>3, <2>4, <2>7
  <2> QED BY <2>3, <2>5, <2>6, <2>7
<1>8. HotSize \in Done
  BY <1>6, <1>7, SetInduction
<1>9. <<0, k - 1>> \in Windows /\ Fit(<<0, k - 1>>)
  BY <1>k DEF Windows
<1>10. Correct(f[<<0, k - 1>>])
  <2>1. Size(<<0, k - 1>>) =< HotSize
    BY <1>9, WindowType
  <2> QED BY <1>8, <1>9, <2>1
<1> QED BY <1>4, <1>10, <1>k

(* get_insert_index. *)
InsertStep(s, fd, search, w) ==
  LET last == s.hot_count - 1
      l == w[1]
      r == w[2]
      m == (l + r) \div 2
  IN  IF l > r THEN IF s.hot_count = 0 THEN 0 ELSE last
      ELSE IF (m = 0 \/ HotFd(s, m - 1) =< fd) /\ HotFd(s, m) >= fd THEN m
      ELSE IF HotFd(s, m) =< fd /\ (m = last \/ HotFd(s, m + 1) >= fd) THEN m + 1
      ELSE IF HotFd(s, m) < fd THEN search[<<m + 1, r>>]
      ELSE search[<<l, m - 1>>]

LEMMA InsertSearchExists ==
  ASSUME NEW s, NEW fd
  PROVE  \E f : f = [w \in Windows |-> InsertStep(s, fd, f, w)]
<1> DEFINE last == s.hot_count - 1
           mid(w) == (w[1] + w[2]) \div 2
           at(m) == (m = 0 \/ HotFd(s, m - 1) =< fd) /\ HotFd(s, m) >= fd
           after(m) == HotFd(s, m) =< fd /\ (m = last \/ HotFd(s, m + 1) >= fd)
           up == {w \in Windows : HotFd(s, mid(w)) < fd}
           stop == {w \in Windows : w[1] > w[2] \/ at(mid(w)) \/ after(mid(w))}
           answer == [w \in Windows |->
             IF w[1] > w[2] THEN IF s.hot_count = 0 THEN 0 ELSE last
             ELSE IF at(mid(w)) THEN mid(w) ELSE mid(w) + 1]
<1>1. ASSUME NEW f, NEW w \in Windows
      PROVE  InsertStep(s, fd, f, w) = Look(stop, up, answer, f, w)
  BY DEF InsertStep, Look
<1>e. \A w \in Windows : w[1] > w[2] => w \in stop
  OBVIOUS
<1> HIDE DEF stop, up, answer
<1>2. PICK f : Searches(stop, up, answer, f)
  BY <1>e, SearchExists
<1>3. f = [w \in Windows |-> InsertStep(s, fd, f, w)]
  BY <1>1, <1>2 DEF Searches
<1> QED BY <1>3

(* Where a new record of fd may go: what is before is not larger, what is  *)
(* from there on is not smaller.                                           *)
FitsAt(s, fd, fit) ==
  /\ fit \in 0 .. s.hot_count
  /\ \A i \in 0 .. s.hot_count - 1 :
       (i < fit => HotFd(s, i) =< fd) /\ (i >= fit => HotFd(s, i) >= fd)

LEMMA InsertIndexFits ==
  ASSUME NEW s, SortedArray(s), NEW fd \in Nat
  PROVE  FitsAt(s, fd, InsertIndex(s, fd))
<1>1. PICK f : f = CHOOSE g : g = [w \in Windows |-> InsertStep(s, fd, g, w)]
  OBVIOUS
<1>2. f = [w \in Windows |-> InsertStep(s, fd, f, w)]
  BY <1>1, InsertSearchExists
<1>3. \A w \in Windows : f[w] = InsertStep(s, fd, f, w)
  BY <1>2
<1>4. InsertIndex(s, fd) = f[<<0, s.hot_count - 1>>]
  BY <1>1 DEF InsertIndex, InsertStep
<1>k. PICK k \in 0 .. HotSize : k = s.hot_count
  BY DEF SortedArray
<1>5. CASE k = 0
  <2>1. <<0, -1>> \in Windows
    BY DEF Windows
  <2>2. f[<<0, -1>>] = 0
    <3>1. PICK w \in Windows : w = <<0, -1>>
      BY <2>1
    <3>2. w[1] = 0 /\ w[2] = -1
      BY <3>1
    <3>3. InsertStep(s, fd, f, w) = 0
      BY <1>5, <1>k, <3>2 DEF InsertStep
    <3> QED BY <1>3, <3>1, <3>3
  <2> QED BY <1>4, <1>5, <1>k, <2>2 DEF FitsAt
<1>6. CASE k > 0
  <2> DEFINE Fit(w) == /\ w[1] =< w[2] /\ w[2] < k
                       /\ w[1] > 0 => HotFd(s, w[1]) < fd
                       /\ w[2] < k - 1 => HotFd(s, w[2]) > fd
             Done == {n \in Nat : \A w \in Windows :
                        Size(w) =< n /\ Fit(w) => FitsAt(s, fd, f[w])}
  <2>1. 0 \in Done
    <3>1. ASSUME NEW w \in Windows, Size(w) =< 0, Fit(w) PROVE FALSE
      BY <3>1, WindowType
    <3> QED BY <3>1
  <2>2. ASSUME NEW n \in Nat, n \in Done PROVE n + 1 \in Done
    <3> SUFFICES ASSUME NEW w \in Windows, Size(w) =< n + 1, Fit(w)
                 PROVE  FitsAt(s, fd, f[w])
      OBVIOUS
    <3>1. PICK m : m = (w[1] + w[2]) \div 2
      OBVIOUS
    <3>2. /\ m \in w[1] .. w[2] /\ w[1] \in Nat /\ w[2] \in Int /\ w[2] < k /\ w[1] =< w[2]
          /\ <<m + 1, w[2]>> \in Windows /\ Size(<<m + 1, w[2]>>) =< n
          /\ <<w[1], m - 1>> \in Windows /\ Size(<<w[1], m - 1>>) =< n
      <4>1. Size(w) \in Nat /\ w[1] \in Nat /\ w[2] \in Int
        BY WindowType
      <4>2. /\ m \in w[1] .. w[2]
            /\ <<m + 1, w[2]>> \in Windows /\ Size(<<m + 1, w[2]>>) < Size(w)
            /\ <<w[1], m - 1>> \in Windows /\ Size(<<w[1], m - 1>>) < Size(w)
        BY <3>1, HalfSmaller
      <4>3. /\ Size(<<m + 1, w[2]>>) \in Nat /\ Size(<<w[1], m - 1>>) \in Nat
        BY <4>2, WindowType
      <4> QED BY <4>1, <4>2, <4>3
    <3>3. m \in 0 .. k - 1
      BY <3>2
    <3>4. \A i \in 0 .. k - 1 : HotFd(s, i) \in Nat
      BY <1>k DEF SortedArray
    <3>5. f[w] = IF (m = 0 \/ HotFd(s, m - 1) =< fd) /\ HotFd(s, m) >= fd THEN m
                 ELSE IF HotFd(s, m) =< fd /\ (m = k - 1 \/ HotFd(s, m + 1) >= fd) THEN m + 1
                 ELSE IF HotFd(s, m) < fd THEN f[<<m + 1, w[2]>>]
                 ELSE f[<<w[1], m - 1>>]
      BY <1>3, <1>k, <3>1, <3>2 DEF InsertStep
    <3>6. CASE (m = 0 \/ HotFd(s, m - 1) =< fd) /\ HotFd(s, m) >= fd
      <4>1. f[w] = m
        BY <3>5, <3>6
      <4>2. ASSUME NEW i \in 0 .. k - 1
            PROVE  (i < m => HotFd(s, i) =< fd) /\ (i >= m => HotFd(s, i) >= fd)
        <5>1. i < m => m - 1 \in 0 .. k - 1 /\ (i = m - 1 \/ i < m - 1)
          BY <3>3
        <5> QED BY <1>k, <3>3, <3>4, <3>6, <5>1 DEF SortedArray
      <4> QED BY <1>k, <3>3, <4>1, <4>2 DEF FitsAt
    <3>7. CASE /\ ~((m = 0 \/ HotFd(s, m - 1) =< fd) /\ HotFd(s, m) >= fd)
               /\ HotFd(s, m) =< fd /\ (m = k - 1 \/ HotFd(s, m + 1) >= fd)
      <4>1. f[w] = m + 1
        BY <3>5, <3>7
      <4>2. ASSUME NEW i \in 0 .. k - 1
            PROVE  (i < m + 1 => HotFd(s, i) =< fd) /\ (i >= m + 1 => HotFd(s, i) >= fd)
        <5>1. i >= m + 1 => m + 1 \in 0 .. k - 1 /\ (i = m + 1 \/ m + 1 < i)
          BY <3>3
        <5>2. i < m + 1 => i = m \/ i < m
          BY <3>3
        <5> QED BY <1>k, <3>3, <3>4, <3>7, <5>1, <5>2 DEF SortedArray
      <4> QED BY <1>k, <3>3, <4>1, <4>2 DEF FitsAt
    <3>8. CASE HotFd(s, m) < fd /\ m # k - 1 /\ ~(HotFd(s, m + 1) >= fd)
      <4>1. f[w] = f[<<m + 1, w[2]>>]
        BY <3>3, <3>4, <3>5, <3>8
      <4>2. m + 1 \in 0 .. k - 1 /\ HotFd(s, m + 1) < fd
        BY <3>3, <3>4, <3>8
      <4>3. m # w[2]
        BY <3>2, <3>3, <3>4, <3>8
      <4>4. Fit(<<m + 1, w[2]>>)
        BY <3>2, <4>2, <4>3
      <4> QED BY <2>2, <3>2, <4>1, <4>4
    <3>9. CASE HotFd(s, m) >= fd /\ m # 0 /\ ~(HotFd(s, m - 1) =< fd)
      <4>1. m - 1 \in 0 .. k - 1 /\ HotFd(s, m - 1) > fd
        BY <3>3, <3>4, <3>9
      <4>2. HotFd(s, m) > fd
        BY <1>k, <3>3, <3>4, <4>1 DEF SortedArray
      <4>3. f[w] = f[<<w[1], m - 1>>]
        BY <3>3, <3>4, <3>5, <3>9, <4>2
      <4>4. m # w[1]
        <5>1. CASE w[1] = 0
          BY <3>9, <5>1
        <5>2. CASE w[1] # 0
          <6>1. HotFd(s, w[1]) < fd
            BY <3>2, <5>2
          <6>2. HotFd(s, m) \in Nat
            BY <3>3, <3>4
          <6> QED BY <4>2, <6>1, <6>2
        <5> QED BY <5>1, <5>2
      <4>5. Fit(<<w[1], m - 1>>)
        BY <3>2, <4>1, <4>4
      <4> QED BY <2>2, <3>2, <4>3, <4>5
    <3> QED BY <3>3, <3>4, <3>6, <3>7, <3>8, <3>9
  <2>3. HotSize \in Done
    BY <2>1, <2>2, SetInduction
  <2>4. <<0, k - 1>> \in Windows /\ Fit(<<0, k - 1>>)
    BY <1>6 DEF Windows
  <2>5. Size(<<0, k - 1>>) =< HotSize
    BY <2>4, WindowType
  <2>6. FitsAt(s, fd, f[<<0, k - 1>>])
    BY <2>3, <2>4, <2>5
  <2> QED BY <1>4, <1>k, <2>6
<1> QED BY <1>5, <1>6

-----------------------------------------------------------------------------
(* The array: every slot in use knows its record and is known by it.       *)

Filled(cells, n) == {cells[i] : i \in 0 .. n - 1}

Cells(cells, n, fd, index) ==
  /\ n \in 0 .. HotSize
  /\ \A i \in 0 .. n - 1 : cells[i] \in Records /\ index[cells[i]] = i
  /\ \A i, j \in 0 .. n - 1 : i < j => fd[cells[i]] =< fd[cells[j]]

(* Where the record of slot i comes from when slot gap is given up and the *)
(* ones between it and slot new move by one.                               *)
From(i, new, gap) ==
  IF gap =< i /\ i < new THEN i + 1
  ELSE IF new < i /\ i =< gap THEN i - 1
  ELSE i

LEMMA FromOrder ==
  ASSUME NEW i \in Int, NEW j \in Int, NEW new \in Int, NEW gap \in Int,
         i < j, i # new, j # new
  PROVE  From(i, new, gap) < From(j, new, gap)
BY DEF From

(* What SetCells makes of the indices. *)
Known(cells, moved, index) ==
  [x \in Records |-> IF \E i \in moved : cells[i] = x
                     THEN CHOOSE i \in moved : cells[i] = x
                     ELSE index[x]]

Shifted(old, n, r, new, gap, cells, n2) ==
  \A i \in 0 .. n2 - 1 :
    /\ i = new => cells[i] = r
    /\ i # new => From(i, new, gap) \in 0 .. n - 1 /\ cells[i] = old[From(i, new, gap)]

(* The slots that are not in moved are as before. *)
Touched(new, gap, moved, n2) ==
  /\ moved \subseteq 0 .. n2 - 1
  /\ \A i \in 0 .. n2 - 1 : i \notin moved => i # new /\ From(i, new, gap) = i

(* The new record is in its place. *)
Between(fd, r, new, cells, n2) ==
  new \in 0 .. n2 - 1 =>
    \A i \in 0 .. n2 - 1 : /\ i < new => fd[cells[i]] =< fd[r]
                           /\ i > new => fd[r] =< fd[cells[i]]

(* The new record, if there is one, was not in the array. *)
Fresh(r, new, old, n, n2) == new \in 0 .. n2 - 1 => r \in Records /\ r \notin Filled(old, n)

LEMMA CellsMoved ==
  ASSUME NEW fd, fd \in [Records -> Nat],
         NEW cells, NEW n, NEW index, Cells(cells, n, fd, index),
         NEW cells2, NEW n2 \in 0 .. HotSize, NEW moved,
         NEW r, NEW new \in Int, NEW gap \in Int, Fresh(r, new, cells, n, n2),
         Shifted(cells, n, r, new, gap, cells2, n2), Touched(new, gap, moved, n2),
         Between(fd, r, new, cells2, n2)
  PROVE  Cells(cells2, n2, fd, Known(cells2, moved, index))
<1>n. n \in 0 .. HotSize
  BY DEF Cells
<1>1. ASSUME NEW i \in 0 .. n2 - 1, i # new
      PROVE  /\ From(i, new, gap) \in 0 .. n - 1 /\ cells2[i] = cells[From(i, new, gap)]
             /\ cells2[i] \in Records /\ (new \in 0 .. n2 - 1 => cells2[i] # r)
             /\ index[cells2[i]] = From(i, new, gap)
  BY <1>1 DEF Cells, Filled, Shifted, Fresh
<1>2. ASSUME NEW i \in 0 .. n2 - 1 PROVE cells2[i] \in Records /\ (i = new => cells2[i] = r)
  BY <1>1 DEF Shifted, Fresh
<1>3. ASSUME NEW i \in 0 .. n2 - 1, NEW j \in 0 .. n2 - 1, i < j
      PROVE  cells2[i] # cells2[j] /\ fd[cells2[i]] =< fd[cells2[j]]
  <2>1. CASE i = new
    <3>1. new \in 0 .. n2 - 1 /\ j > new /\ j # new
      BY <1>3, <2>1
    <3>2. cells2[i] = r /\ cells2[j] # r
      BY <1>1, <1>2, <2>1, <3>1
    <3> QED BY <3>1, <3>2 DEF Between
  <2>2. CASE j = new
    <3>1. new \in 0 .. n2 - 1 /\ i < new /\ i # new
      BY <1>3, <2>2
    <3>2. cells2[j] = r /\ cells2[i] # r
      BY <1>1, <1>2, <2>2, <3>1
    <3>3. fd[cells2[i]] =< fd[r]
      BY <3>1 DEF Between
    <3> QED BY <3>2, <3>3
  <2>3. CASE i # new /\ j # new
    <3>1. From(i, new, gap) < From(j, new, gap)
      BY <1>3, <2>3, FromOrder
    <3>2. PICK p \in 0 .. n - 1, q \in 0 .. n - 1 :
            /\ p = From(i, new, gap) /\ cells2[i] = cells[p] /\ index[cells2[i]] = p
            /\ q = From(j, new, gap) /\ cells2[j] = cells[q] /\ index[cells2[j]] = q
      BY <1>1, <2>3
    <3>3. p < q
      BY <3>1, <3>2
    <3> QED BY <3>2, <3>3 DEF Cells
  <2> QED BY <2>1, <2>2, <2>3
<1>4. ASSUME NEW i \in 0 .. n2 - 1, NEW j \in 0 .. n2 - 1, cells2[i] = cells2[j] PROVE i = j
  BY <1>3, <1>4
<1>m. moved \subseteq 0 .. n2 - 1
  BY DEF Touched
<1>5. ASSUME NEW i \in 0 .. n2 - 1 PROVE Known(cells2, moved, index)[cells2[i]] = i
  <2>1. CASE i \in moved
    <3>1. PICK k : k = CHOOSE j \in moved : cells2[j] = cells2[i]
      OBVIOUS
    <3>2. k \in moved /\ cells2[k] = cells2[i]
      BY <2>1, <3>1
    <3>3. k = i
      BY <1>m, <1>4, <3>2
    <3> QED BY <1>2, <2>1, <3>1, <3>3 DEF Known
  <2>2. CASE i \notin moved
    <3>1. \A j \in moved : cells2[j] # cells2[i]
      BY <1>m, <1>4, <2>2
    <3>2. index[cells2[i]] = i
      BY <1>1, <2>2 DEF Touched
    <3> QED BY <1>2, <3>1, <3>2 DEF Known
  <2> QED BY <2>1, <2>2
<1> QED BY <1>2, <1>3, <1>5 DEF Cells

(* Another slot is in use if none was given up, one less if none is new. *)
Counted(gap, n, new, n2) ==
  \/ gap = n /\ new < n2 /\ n2 = n + 1
  \/ gap < n /\ new < n2 /\ n2 = n
  \/ gap < n /\ new = n2 /\ n2 = n - 1

(* The records in the array after such a move. *)
LEMMA FilledMoved ==
  ASSUME NEW fd, NEW cells, NEW n, NEW index, Cells(cells, n, fd, index),
         NEW cells2, NEW n2 \in 0 .. HotSize, NEW r,
         NEW new \in 0 .. n2, NEW gap \in 0 .. n, Shifted(cells, n, r, new, gap, cells2, n2),
         Counted(gap, n, new, n2)
  PROVE  Filled(cells2, n2) =
           (IF gap < n THEN Filled(cells, n) \ {cells[gap]} ELSE Filled(cells, n))
             \cup (IF new < n2 THEN {r} ELSE {})
<1>n. /\ n \in 0 .. HotSize
      /\ \/ gap = n /\ new < n2 /\ n2 = n + 1
         \/ gap < n /\ new < n2 /\ n2 = n
         \/ gap < n /\ new = n2 /\ n2 = n - 1
  BY DEF Cells, Counted
<1>1. ASSUME NEW i \in 0 .. n2 - 1, i # new
      PROVE  From(i, new, gap) \in 0 .. n - 1 /\ From(i, new, gap) # gap
  BY <1>n, <1>1 DEF From
<1>2. ASSUME NEW k \in 0 .. n - 1, k # gap
      PROVE  \E i \in 0 .. n2 - 1 : i # new /\ From(i, new, gap) = k
  <2>1. CASE gap < k /\ k =< new
    <3>1. k - 1 \in 0 .. n2 - 1 /\ k - 1 # new /\ From(k - 1, new, gap) = k
      BY <1>n, <2>1 DEF From
    <3> QED BY <3>1
  <2>2. CASE new =< k /\ k < gap
    <3>1. k + 1 \in 0 .. n2 - 1 /\ k + 1 # new /\ From(k + 1, new, gap) = k
      BY <1>n, <2>2 DEF From
    <3> QED BY <3>1
  <2>3. CASE ~(gap < k /\ k =< new) /\ ~(new =< k /\ k < gap)
    <3>1. k \in 0 .. n2 - 1 /\ k # new /\ From(k, new, gap) = k
      BY <1>n, <1>2, <2>3 DEF From
    <3> QED BY <3>1
  <2> QED BY <2>1, <2>2, <2>3
<1>3. ASSUME NEW k \in 0 .. n - 1, NEW j \in 0 .. n - 1, k # j PROVE cells[k] # cells[j]
  BY <1>3 DEF Cells
<1>4. ASSUME NEW x \in Filled(cells2, n2)
      PROVE  \/ x = r /\ new < n2
             \/ x \in Filled(cells, n) /\ (gap < n => x # cells[gap])
  <2>1. PICK i \in 0 .. n2 - 1 : x = cells2[i]
    BY DEF Filled
  <2>2. CASE i = new
    BY <2>1, <2>2 DEF Shifted
  <2>3. CASE i # new
    <3>1. PICK k \in 0 .. n - 1 : k # gap /\ x = cells[k]
      BY <1>1, <2>1, <2>3 DEF Shifted
    <3>2. gap < n => cells[k] # cells[gap]
      BY <1>n, <1>3, <3>1
    <3> QED BY <3>1, <3>2 DEF Filled
  <2> QED BY <2>2, <2>3
<1>5. new < n2 => r \in Filled(cells2, n2)
  BY DEF Filled, Shifted
<1>6. ASSUME NEW x \in Filled(cells, n), gap < n => x # cells[gap]
      PROVE  x \in Filled(cells2, n2)
  <2>1. PICK k \in 0 .. n - 1 : x = cells[k]
    BY DEF Filled
  <2>2. k # gap
    BY <1>n, <1>6, <2>1
  <2>3. PICK i \in 0 .. n2 - 1 : i # new /\ From(i, new, gap) = k
    BY <1>2, <2>2
  <2> QED BY <2>1, <2>3 DEF Filled, Shifted
<1> QED BY <1>4, <1>5, <1>6

-----------------------------------------------------------------------------
(* The whole area.                                                         *)

Shape(s) ==
  s \in [fd_count : Nat, hot_count : 0 .. HotSize,
         file_fd_head : OrNull, hot_fd_head : OrNull,
         hot_fd_cache : [Slots -> OrNull],
         prev : Links, next : Links, time_prev : Links, time_next : Links,
         fd : [Records -> Fds \cup {0}], hot_index : [Records -> Slots],
         filename : [Records -> Paths \cup {NoPath}]]

Has(s) == {r \in Records : s.filename[r] # NoPath}

HotOf(s) == Filled(s.hot_fd_cache, s.hot_count)

CacheInv(s) ==
  /\ Shape(s)
  /\ List(s.next, s.prev, s.file_fd_head, Has(s)) /\ Cardinality(Has(s)) = s.fd_count
  /\ Cells(s.hot_fd_cache, s.hot_count, s.fd, s.hot_index) /\ HotOf(s) \subseteq Has(s)
  /\ Ring(s.time_next, s.time_prev, s.hot_fd_head, HotOf(s))

LEMMA Empty == CacheInv(EmptyArea)
<1> DEFINE e == EmptyArea
<1>1. Shape(e)
  BY DEF Shape, EmptyArea, OrNull, Links, Slots
<1>2. /\ e.next \in Links /\ e.prev \in Links /\ e.file_fd_head = Null
      /\ e.time_next \in Links /\ e.time_prev \in Links /\ e.hot_fd_head = Null
      /\ e.hot_count = 0 /\ e.fd_count = 0
      /\ e.filename = [r \in Records |-> NoPath]
  BY DEF EmptyArea, OrNull, Links
<1> HIDE DEF e
<1>3. Has(e) = {} /\ HotOf(e) = {}
  BY <1>2 DEF Has, HotOf, Filled
<1>4. ASSUME NEW link \in Links PROVE Along(link, Null) = {}
  <2>1. Null \in OrNull /\ Closed(link, Null, {})
    BY DEF Closed, OrNull
  <2>2. \A S : {} \subseteq S
    OBVIOUS
  <2> QED BY <2>1, <2>2, AlongIs
<1>5. List(e.next, e.prev, e.file_fd_head, Has(e))
  BY <1>2, <1>3, <1>4 DEF List, OrNull
<1>6. Ring(e.time_next, e.time_prev, e.hot_fd_head, HotOf(e))
  BY <1>2, <1>3, <1>4 DEF Ring, OrNull
<1>7. Cardinality(Has(e)) = e.fd_count
  BY <1>2, <1>3, FS_EmptySet
<1>8. Cells(e.hot_fd_cache, e.hot_count, e.fd, e.hot_index)
  BY <1>2 DEF Cells
<1> QED BY <1>1, <1>3, <1>5, <1>6, <1>7, <1>8 DEF CacheInv, e

LEMMA Sorted ==
  ASSUME NEW s, Shape(s), Cells(s.hot_fd_cache, s.hot_count, s.fd, s.hot_index)
  PROVE  SortedArray(s) /\ s.fd \in [Records -> Nat]
<1>0. s.fd \in [Records -> Fds \cup {0}] /\ s.hot_count \in 0 .. HotSize
  BY DEF Shape
<1>1. s.fd \in [Records -> Nat]
  <2>1. PICK f : f = s.fd
    OBVIOUS
  <2>2. Fds \cup {0} \subseteq Nat
    OBVIOUS
  <2>3. f \in [Records -> Nat]
    BY <1>0, <2>1, <2>2
  <2> QED BY <2>1, <2>3
<1> QED BY <1>1 DEF SortedArray, Cells, HotFd

(* What the functions change in the area. *)
WithRing(s, time_next, time_prev, head) ==
  [s EXCEPT !.time_next = time_next, !.time_prev = time_prev, !.hot_fd_head = head]

WithCells(s, cells, index) == [s EXCEPT !.hot_fd_cache = cells, !.hot_index = index]

WithHot(s, cells, index, n, time_next, time_prev, head) ==
  [WithRing(WithCells(s, cells, index), time_next, time_prev, head) EXCEPT !.hot_count = n]

(* The head of the ring H once r is out of it. *)
HeadWithout(s, H, r) ==
  IF H = {r} THEN Null ELSE IF r = s.hot_fd_head THEN s.time_next[r] ELSE s.hot_fd_head

(* The two steps on the ring. *)
LEMMA RingUnlinkIs ==
  ASSUME NEW s, Shape(s), NEW H, Ring(s.time_next, s.time_prev, s.hot_fd_head, H), NEW r \in H
  PROVE  \E time_next \in Links, time_prev \in Links :
           /\ RingUnlink(s, r) = WithRing(s, time_next, time_prev, s.hot_fd_head)
           /\ Ring(time_next, time_prev, HeadWithout(s, H, r), H \ {r})
           /\ Drops(s.time_next, s.hot_fd_head, H, r, time_next, HeadWithout(s, H, r))
<1>1. PICK before \in H, after \in H : before = s.time_prev[r] /\ after = s.time_next[r]
  BY DEF Ring
<1>2. H \in SUBSET Records /\ s.time_next \in Links /\ s.time_prev \in Links
  BY DEF Ring
<1>3. PICK n \in Links : n = [s.time_next EXCEPT ![before] = after]
  BY <1>1, <1>2 DEF Links, OrNull
<1>4. PICK p \in Links : p = [s.time_prev EXCEPT ![after] = before]
  BY <1>1, <1>2 DEF Links, OrNull
<1>5. PICK a : a = [s EXCEPT !.time_next = n]
  OBVIOUS
<1>6. [s EXCEPT !.time_next[s.time_prev[r]] = s.time_next[r]] = a
  BY <1>1, <1>3, <1>5 DEF Shape
<1>7. a.time_next = n /\ a.time_prev = s.time_prev
  BY <1>5 DEF Shape
<1>8. a.time_next[r] = after /\ a.time_prev[r] = before
  BY <1>1, <1>2, <1>3, <1>7 DEF Links
<1>9. RingUnlink(s, r) = [a EXCEPT !.time_prev[after] = before]
  BY <1>6, <1>8 DEF RingUnlink
<1>10. [a EXCEPT !.time_prev[after] = before] = WithRing(s, n, p, s.hot_fd_head)
  BY <1>4, <1>5, <1>7 DEF Shape, WithRing
<1>11. \A x \in H \ {r} : /\ n[x] = IF x = s.time_prev[r] THEN s.time_next[r] ELSE s.time_next[x]
                          /\ p[x] = IF x = s.time_next[r] THEN s.time_prev[r] ELSE s.time_prev[x]
  BY <1>1, <1>2, <1>3, <1>4 DEF Links
<1>12. Ring(n, p, HeadWithout(s, H, r), H \ {r})
  BY <1>11, RingRemove DEF HeadWithout
<1>13. Drops(s.time_next, s.hot_fd_head, H, r, n, HeadWithout(s, H, r))
  BY <1>11, QueueRemove DEF HeadWithout, Drops
<1> QED BY <1>9, <1>10, <1>12, <1>13

LEMMA RingPushIs ==
  ASSUME NEW s, Shape(s), NEW H, Ring(s.time_next, s.time_prev, s.hot_fd_head, H),
         NEW r \in Records, r \notin H
  PROVE  \E time_next \in Links, time_prev \in Links :
           /\ RingPush(s, r) = WithRing(s, time_next, time_prev, r)
           /\ Ring(time_next, time_prev, r, H \cup {r})
           /\ Pushes(s.time_next, s.hot_fd_head, H, r, time_next)
<1>1. PICK head \in OrNull : head = s.hot_fd_head
  BY DEF Shape
<1>2. H \in SUBSET Records /\ s.time_next \in Links /\ s.time_prev \in Links
  BY DEF Ring
<1>3. CASE head = Null
  <2>1. PICK n \in Links : n = [s.time_next EXCEPT ![r] = r]
    BY <1>2 DEF Links, OrNull
  <2>2. PICK p \in Links : p = [s.time_prev EXCEPT ![r] = r]
    BY <1>2 DEF Links, OrNull
  <2>3. RingPush(s, r) = WithRing(s, n, p, r)
    BY <1>1, <1>3, <2>1, <2>2 DEF RingPush, WithRing, Shape
  <2>4. H = {}
    BY <1>1, <1>3, RingClosed
  <2>5. n[r] = r /\ p[r] = r
    BY <1>2, <2>1, <2>2 DEF Links
  <2>6. Ring(n, p, r, H \cup {r})
    BY <1>1, <1>3, <2>4, <2>5, RingAdd
  <2>7. Pushes(s.time_next, s.hot_fd_head, H, r, n)
    BY <1>1, <1>3, <2>4, <2>5, QueueAdd DEF Pushes
  <2> QED BY <2>3, <2>6, <2>7
<1>4. CASE head # Null
  <2>1. head \in H
    BY <1>1, <1>4, RingClosed
  <2>2. PICK last \in H : last = s.time_prev[head]
    BY <2>1 DEF Ring
  <2>3. head \in Records /\ last \in Records /\ last # r /\ head # r
    BY <1>2, <2>1
  <2>4. PICK n \in Links : n = [[s.time_next EXCEPT ![r] = head] EXCEPT ![last] = r]
    BY <1>2, <2>3 DEF Links, OrNull
  <2>5. PICK p \in Links : p = [[s.time_prev EXCEPT ![r] = last] EXCEPT ![head] = r]
    BY <1>2, <2>3 DEF Links, OrNull
  <2>6. RingPush(s, r) = WithRing(s, n, p, r)
    BY <1>1, <1>4, <2>2, <2>4, <2>5 DEF RingPush, WithRing, Shape
  <2>7. /\ n[r] = head /\ p[r] = last
        /\ \A x \in H : n[x] = (IF x = last THEN r ELSE s.time_next[x])
                     /\ p[x] = (IF x = head THEN r ELSE s.time_prev[x])
    BY <1>2, <2>3, <2>4, <2>5 DEF Links
  <2>8. Ring(n, p, r, H \cup {r})
    BY <1>1, <1>4, <2>2, <2>7, RingAdd
  <2>9. Pushes(s.time_next, s.hot_fd_head, H, r, n)
    BY <1>1, <1>4, <2>2, <2>7, QueueAdd DEF Pushes
  <2> QED BY <2>6, <2>8, <2>9
<1> QED BY <1>3, <1>4

LEMMA WithHotIs ==
  ASSUME NEW s, Shape(s), NEW cells, NEW index, NEW n2, NEW time_next, NEW time_prev, NEW head,
         NEW t, t = WithHot(s, cells, index, n2, time_next, time_prev, head)
  PROVE  /\ t.next = s.next /\ t.prev = s.prev /\ t.file_fd_head = s.file_fd_head
         /\ t.filename = s.filename /\ t.fd_count = s.fd_count /\ t.fd = s.fd
         /\ t.hot_fd_cache = cells /\ t.hot_count = n2 /\ t.hot_index = index
         /\ t.time_next = time_next /\ t.time_prev = time_prev /\ t.hot_fd_head = head
BY DEF Shape, WithHot, WithRing, WithCells

(* What is left to show of a change of the hot cache. *)
LEMMA HotIs ==
  ASSUME NEW s, CacheInv(s),
         NEW n2 \in 0 .. HotSize, NEW cells \in [Slots -> OrNull],
         NEW index \in [Records -> Slots], NEW time_next \in Links, NEW time_prev \in Links,
         NEW head \in OrNull,
         Cells(cells, n2, s.fd, index), Filled(cells, n2) \subseteq Has(s),
         Ring(time_next, time_prev, head, Filled(cells, n2))
  PROVE  CacheInv(WithHot(s, cells, index, n2, time_next, time_prev, head))
<1>1. PICK t : t = WithHot(s, cells, index, n2, time_next, time_prev, head)
  OBVIOUS
<1>2. Shape(s)
  BY DEF CacheInv
<1>3. Shape(t)
  BY <1>1, <1>2 DEF Shape, WithHot, WithRing, WithCells
<1>4. /\ t.next = s.next /\ t.prev = s.prev /\ t.file_fd_head = s.file_fd_head
      /\ t.filename = s.filename /\ t.fd_count = s.fd_count /\ t.fd = s.fd
      /\ t.hot_fd_cache = cells /\ t.hot_count = n2 /\ t.hot_index = index
      /\ t.time_next = time_next /\ t.time_prev = time_prev /\ t.hot_fd_head = head
  BY <1>1, <1>2, WithHotIs
<1>5. Has(t) = Has(s) /\ HotOf(t) = Filled(cells, n2)
  BY <1>4 DEF Has, HotOf
<1> QED BY <1>1, <1>3, <1>4, <1>5 DEF CacheInv

-----------------------------------------------------------------------------
(* insert_into_hot_cache.                                                  *)

LEMMA SetCellsIs ==
  ASSUME NEW s, Shape(s), NEW cells, NEW moved, moved \subseteq Slots
  PROVE  /\ SetCells(s, cells, moved)
              = WithCells(s, cells, Known(cells, moved, s.hot_index))
         /\ Known(cells, moved, s.hot_index) \in [Records -> Slots]
<1>1. SetCells(s, cells, moved)
        = WithCells(s, cells, Known(cells, moved, s.hot_index))
  BY DEF SetCells, Known, WithCells
<1>2. s.hot_index \in [Records -> Slots]
  BY DEF Shape
<1>3. ASSUME NEW x \in Records PROVE Known(cells, moved, s.hot_index)[x] \in Slots
  <2>1. CASE \E i \in moved : cells[i] = x
    <3>1. PICK k : k = CHOOSE i \in moved : cells[i] = x
      OBVIOUS
    <3>2. k \in moved
      BY <2>1, <3>1
    <3>3. Known(cells, moved, s.hot_index)[x] = k
      BY <2>1, <3>1 DEF Known
    <3> QED BY <3>2, <3>3
  <2>2. CASE ~\E i \in moved : cells[i] = x
    <3>1. Known(cells, moved, s.hot_index)[x] = s.hot_index[x]
      BY <2>2 DEF Known
    <3> QED BY <1>2, <3>1
  <2> QED BY <2>1, <2>2
<1>4. Known(cells, moved, s.hot_index) \in [Records -> Slots]
  BY <1>3 DEF Known
<1> QED BY <1>1, <1>4

(* There is a free slot, or the oldest one's. *)
Room(s, oldest, n2) ==
  \/ oldest = -1 /\ s.hot_count < HotSize /\ n2 = s.hot_count + 1
  \/ oldest \in 0 .. s.hot_count - 1 /\ n2 = s.hot_count

HotWithout(s, i) == IF i = -1 THEN HotOf(s) ELSE HotOf(s) \ {s.hot_fd_cache[i]}

(* r takes its place in the array, a free slot's or the oldest one's.      *)
LEMMA PlaceIs ==
  ASSUME NEW s, Shape(s), Cells(s.hot_fd_cache, s.hot_count, s.fd, s.hot_index),
         NEW r \in Records, r \notin HotOf(s),
         NEW fit, FitsAt(s, s.fd[r], fit),
         NEW oldest, NEW n2, Room(s, oldest, n2)
  PROVE  \E cells \in [Slots -> OrNull], index \in [Records -> Slots] :
           /\ Place(s, r, fit, oldest) = WithCells(s, cells, index)
           /\ Cells(cells, n2, s.fd, index)
           /\ Filled(cells, n2) = HotWithout(s, oldest) \cup {r}
<1>r. \/ oldest = -1 /\ s.hot_count < HotSize /\ n2 = s.hot_count + 1
      \/ oldest \in 0 .. s.hot_count - 1 /\ n2 = s.hot_count
  BY DEF Room
<1>1. PICK n \in 0 .. HotSize : n = s.hot_count
  BY DEF Shape
<1>2. PICK old \in [Slots -> OrNull] : old = s.hot_fd_cache
  BY DEF Shape
<1>3. PICK fd \in [Records -> Nat] : fd = s.fd
  BY Sorted
<1>4. /\ fit \in 0 .. n
      /\ \A i \in 0 .. n - 1 : (i < fit => fd[old[i]] =< fd[r]) /\ (i >= fit => fd[r] =< fd[old[i]])
  <2>1. fit \in 0 .. n
    BY <1>1 DEF FitsAt
  <2>2. ASSUME NEW i \in 0 .. n - 1
        PROVE  (i < fit => fd[old[i]] =< fd[r]) /\ (i >= fit => fd[r] =< fd[old[i]])
    <3>1. old[i] \in Records
      BY <1>1, <1>2 DEF Cells
    <3> QED BY <1>1, <1>2, <1>3, <3>1 DEF FitsAt, HotFd
  <2> QED BY <2>1, <2>2
<1>5. n2 \in 0 .. HotSize /\ (n2 = n \/ n2 = n + 1)
  BY <1>r, <1>1
<1>6. r \notin Filled(old, n) /\ Cells(old, n, fd, s.hot_index)
  BY <1>1, <1>2, <1>3 DEF HotOf
<1> DEFINE Fitting(new, gap, moved) ==
             /\ new \in 0 .. n2 - 1 /\ gap \in 0 .. n
             /\ (gap = n /\ n2 = n + 1) \/ (gap < n /\ n2 = n)
             /\ Touched(new, gap, moved, n2)
             /\ \A i \in 0 .. n2 - 1 : i # new =>
                  /\ From(i, new, gap) \in 0 .. n - 1
                  /\ i < new => From(i, new, gap) < fit
                  /\ i > new => From(i, new, gap) >= fit
           Filling(cells, new, gap) ==
             \A i \in 0 .. n2 - 1 : cells[i] = IF i = new THEN r ELSE old[From(i, new, gap)]
<1>7. ASSUME NEW new, NEW gap, NEW moved, NEW cells,
             Fitting(new, gap, moved), Filling(cells, new, gap)
      PROVE  /\ moved \subseteq Slots
             /\ Cells(cells, n2, fd, Known(cells, moved, s.hot_index))
             /\ Filled(cells, n2) =
                  {r} \cup (IF gap = n THEN Filled(old, n) ELSE Filled(old, n) \ {old[gap]})
  <2>1. moved \subseteq Slots
    BY <1>5, <1>7 DEF Slots, Touched
  <2>2. Shifted(old, n, r, new, gap, cells, n2)
    BY <1>7 DEF Shifted
  <2>3. Between(fd, r, new, cells, n2)
    <3> SUFFICES ASSUME NEW i \in 0 .. n2 - 1, i # new
                 PROVE  (i < new => fd[cells[i]] =< fd[r]) /\ (i > new => fd[r] =< fd[cells[i]])
      BY <1>7 DEF Between
    <3>1. PICK k \in 0 .. n - 1 : /\ k = From(i, new, gap) /\ cells[i] = old[k]
                                  /\ (i < new => k < fit) /\ (i > new => k >= fit)
      BY <1>7
    <3> QED BY <1>4, <3>1
  <2>4. new \in Int /\ gap \in Int /\ Touched(new, gap, moved, n2)
    BY <1>7
  <2>5. Cells(cells, n2, fd, Known(cells, moved, s.hot_index))
    <3>1. Fresh(r, new, old, n, n2)
      BY <1>6 DEF Fresh
    <3> QED BY <1>5, <1>6, <2>2, <2>3, <2>4, <3>1, CellsMoved
  <2>6. new \in 0 .. n2 /\ new < n2 /\ gap \in 0 .. n
    BY <1>5, <1>7
  <2>7. Filled(cells, n2) =
          (IF gap < n THEN Filled(old, n) \ {old[gap]} ELSE Filled(old, n))
            \cup (IF new < n2 THEN {r} ELSE {})
    <3>1. Counted(gap, n, new, n2)
      BY <1>7, <2>6 DEF Counted
    <3> QED BY <1>5, <1>6, <2>2, <2>6, <3>1, FilledMoved
  <2>8. gap < n <=> gap # n
    BY <1>7
  <2> QED BY <2>1, <2>5, <2>6, <2>7, <2>8
<1>8. ASSUME NEW moved, NEW cells, cells \in [Slots -> OrNull], moved \subseteq Slots,
             Place(s, r, fit, oldest) = SetCells(s, cells, moved),
             Cells(cells, n2, fd, Known(cells, moved, s.hot_index)),
             Filled(cells, n2) = HotWithout(s, oldest) \cup {r}
      PROVE  \E c \in [Slots -> OrNull], index \in [Records -> Slots] :
               /\ Place(s, r, fit, oldest) = WithCells(s, c, index)
               /\ Cells(c, n2, s.fd, index)
               /\ Filled(c, n2) = HotWithout(s, oldest) \cup {r}
  <2>1. PICK index : index = Known(cells, moved, s.hot_index)
    OBVIOUS
  <2>2. index \in [Records -> Slots]
    BY <1>8, <2>1, SetCellsIs
  <2>3. Place(s, r, fit, oldest) = WithCells(s, cells, index)
    BY <1>8, <2>1, SetCellsIs
  <2> QED BY <1>3, <1>8, <2>1, <2>2, <2>3
<1>9. CASE oldest # -1 /\ oldest < fit
  <2>1. PICK cells : cells = [i \in Slots |-> IF i = fit - 1 THEN r
                                             ELSE IF i \in oldest .. fit - 2 THEN old[i + 1]
                                             ELSE old[i]]
    OBVIOUS
  <2>2. n2 = n /\ oldest \in 0 .. n - 1 /\ fit \in 0 .. n /\ oldest < fit /\ n \in 0 .. HotSize
    BY <1>r, <1>1, <1>4, <1>9
  <2>3. Fitting(fit - 1, oldest, oldest .. fit - 1)
    BY <2>2 DEF From, Touched
  <2>4. cells \in [Slots -> OrNull]
    <3>1. ASSUME NEW i \in Slots PROVE cells[i] \in OrNull
      <4>1. i \in oldest .. fit - 2 => i + 1 \in Slots
        BY <2>2 DEF Slots
      <4> QED BY <1>2, <2>1, <4>1 DEF OrNull
    <3> QED BY <2>1, <3>1
  <2>5. ASSUME NEW i \in 0 .. n2 - 1
        PROVE  cells[i] = IF i = fit - 1 THEN r ELSE old[From(i, fit - 1, oldest)]
    <3>1. i \in Slots /\ i \in Int
      BY <2>2 DEF Slots
    <3>2. cells[i] = IF i = fit - 1 THEN r
                     ELSE IF i \in oldest .. fit - 2 THEN old[i + 1] ELSE old[i]
      BY <2>1, <3>1
    <3>3. i # fit - 1 => From(i, fit - 1, oldest) = IF i \in oldest .. fit - 2 THEN i + 1 ELSE i
      BY <2>2, <3>1 DEF From
    <3> QED BY <3>2, <3>3
  <2>6. Place(s, r, fit, oldest) = SetCells(s, cells, oldest .. fit - 1)
    BY <1>2, <1>9, <2>1 DEF Place
  <2>f. Filling(cells, fit - 1, oldest)
    BY <2>5
  <2> HIDE DEF Fitting, Filling
  <2>7. /\ oldest .. fit - 1 \subseteq Slots
        /\ Cells(cells, n2, fd, Known(cells, oldest .. fit - 1, s.hot_index))
        /\ Filled(cells, n2) = {r} \cup (IF oldest = n THEN Filled(old, n)
                                         ELSE Filled(old, n) \ {old[oldest]})
    BY <1>7, <2>3, <2>f
  <2>8. Filled(cells, n2) = HotWithout(s, oldest) \cup {r}
    BY <1>1, <1>2, <1>9, <2>2, <2>7 DEF HotOf, HotWithout
  <2> QED BY <1>8, <2>4, <2>6, <2>7, <2>8
<1>10. CASE ~(oldest # -1 /\ oldest < fit)
  <2>1. PICK end \in 0 .. n : end = IF oldest = -1 THEN n ELSE oldest
    BY <1>r, <1>1
  <2>2. PICK cells : cells = [i \in Slots |-> IF i = fit THEN r
                                             ELSE IF i \in fit + 1 .. end THEN old[i - 1]
                                             ELSE old[i]]
    OBVIOUS
  <2>3. /\ fit \in 0 .. n /\ fit =< end /\ end < n2 /\ (end = n <=> oldest = -1)
        /\ (end = n /\ n2 = n + 1) \/ (end < n /\ n2 = n)
        /\ n \in 0 .. HotSize /\ n2 \in 0 .. HotSize
    BY <1>r, <1>1, <1>4, <1>5, <1>10, <2>1
  <2>4. Fitting(fit, end, fit .. end)
    BY <2>3 DEF From, Touched
  <2>5. cells \in [Slots -> OrNull]
    <3>1. ASSUME NEW i \in Slots PROVE cells[i] \in OrNull
      <4>1. i \in fit + 1 .. end => i - 1 \in Slots
        BY <2>3 DEF Slots
      <4> QED BY <1>2, <2>2, <4>1 DEF OrNull
    <3> QED BY <2>2, <3>1
  <2>6. ASSUME NEW i \in 0 .. n2 - 1
        PROVE  cells[i] = IF i = fit THEN r ELSE old[From(i, fit, end)]
    <3>1. i \in Slots /\ i \in Int
      BY <2>3 DEF Slots
    <3>2. cells[i] = IF i = fit THEN r
                     ELSE IF i \in fit + 1 .. end THEN old[i - 1] ELSE old[i]
      BY <2>2, <3>1
    <3>3. i # fit => From(i, fit, end) = IF i \in fit + 1 .. end THEN i - 1 ELSE i
      BY <2>3, <3>1 DEF From
    <3> QED BY <3>2, <3>3
  <2>7. Place(s, r, fit, oldest) = SetCells(s, cells, fit .. end)
    BY <1>1, <1>2, <1>10, <2>1, <2>2 DEF Place
  <2>f. Filling(cells, fit, end)
    BY <2>6
  <2> HIDE DEF Fitting, Filling
  <2>8. /\ fit .. end \subseteq Slots
        /\ Cells(cells, n2, fd, Known(cells, fit .. end, s.hot_index))
        /\ Filled(cells, n2) = {r} \cup (IF end = n THEN Filled(old, n)
                                         ELSE Filled(old, n) \ {old[end]})
    BY <1>7, <2>4, <2>f
  <2>9. Filled(cells, n2) = HotWithout(s, oldest) \cup {r}
    BY <1>1, <1>2, <2>1, <2>3, <2>8 DEF HotOf, HotWithout
  <2> QED BY <1>8, <2>5, <2>7, <2>8, <2>9
<1> QED BY <1>9, <1>10

(* The queue of the hot records, and what becomes of it when r enters. *)
Ordered(s, q) == Queue(s.time_next, s.hot_fd_head, HotOf(s), s.hot_count, q)

Entered(s, t, r) ==
  /\ t.fd = s.fd /\ t.filename = s.filename
  /\ t.hot_count = IF s.hot_count < HotSize THEN s.hot_count + 1 ELSE HotSize
  /\ \A q : Ordered(s, q) => Ordered(t, Pushed(q, r, t.hot_count))

(* A record that is on the list and not hot becomes hot; if the array was  *)
(* full, the oldest hot record makes room for it.                          *)
LEMMA HotInserted ==
  ASSUME NEW s, CacheInv(s), NEW r \in Has(s), r \notin HotOf(s)
  PROVE  CacheInv(InsertIntoHotCache(s, r)) /\ Entered(s, InsertIntoHotCache(s, r), r)
<1>1. /\ Shape(s) /\ r \in Records
      /\ List(s.next, s.prev, s.file_fd_head, Has(s)) /\ Cardinality(Has(s)) = s.fd_count
      /\ Cells(s.hot_fd_cache, s.hot_count, s.fd, s.hot_index) /\ HotOf(s) \subseteq Has(s)
      /\ Ring(s.time_next, s.time_prev, s.hot_fd_head, HotOf(s))
  BY DEF CacheInv, Has
<1>2. PICK n \in 0 .. HotSize : n = s.hot_count
  BY <1>1 DEF Shape
<1>3. PICK H : H = HotOf(s)
  OBVIOUS
<1>4. PICK d \in Nat : d = s.fd[r]
  BY <1>1, Sorted
<1>6. CASE n < HotSize
  <2>1. PICK fit : fit = InsertIndex(s, d)
    OBVIOUS
  <2>2. FitsAt(s, s.fd[r], fit)
    BY <1>1, <1>4, <2>1, Sorted, InsertIndexFits
  <2>p. PICK n2 \in 0 .. HotSize : n2 = n + 1
    BY <1>6
  <2>r. Room(s, -1, n2) /\ HotWithout(s, -1) = H
    BY <1>2, <1>3, <1>6, <2>p DEF Room, HotWithout
  <2>3. PICK cells \in [Slots -> OrNull], index \in [Records -> Slots] :
          /\ Place(s, r, fit, -1) = WithCells(s, cells, index)
          /\ Cells(cells, n2, s.fd, index)
          /\ Filled(cells, n2) = H \cup {r}
    BY <1>1, <2>2, <2>r, PlaceIs
  <2>4. PICK a : a = WithCells(s, cells, index)
    OBVIOUS
  <2>5. Shape(a) /\ Ring(a.time_next, a.time_prev, a.hot_fd_head, H)
    BY <1>1, <1>3, <2>4 DEF Shape, WithCells
  <2>6. PICK time_next \in Links, time_prev \in Links :
          /\ RingPush(a, r) = WithRing(a, time_next, time_prev, r)
          /\ Ring(time_next, time_prev, r, H \cup {r})
          /\ Pushes(a.time_next, a.hot_fd_head, H, r, time_next)
    BY <1>1, <1>3, <2>5, RingPushIs
  <2>7. InsertIntoHotCache(s, r) = [RingPush(a, r) EXCEPT !.hot_count = n2]
    <3>1. a = Place(s, r, InsertIndex(s, s.fd[r]), -1)
      BY <1>4, <2>1, <2>3, <2>4
    <3>2. RingPush(a, r).hot_count = n
      BY <1>1, <1>2, <2>4, <2>6 DEF Shape, WithRing, WithCells
    <3>3. s.hot_count # HotSize
      BY <1>2, <1>6
    <3>4. InsertIntoHotCache(s, r)
            = [RingPush(Place(s, r, InsertIndex(s, s.fd[r]), -1), r) EXCEPT !.hot_count = @ + 1]
      BY <3>3 DEF InsertIntoHotCache
    <3> QED BY <2>p, <3>1, <3>2, <3>4
  <2>8. InsertIntoHotCache(s, r)
          = WithHot(s, cells, index, n2, time_next, time_prev, r)
    BY <2>4, <2>6, <2>7 DEF WithHot
  <2>9. Filled(cells, n2) \subseteq Has(s) /\ Ring(time_next, time_prev, r, Filled(cells, n2))
    BY <1>1, <1>3, <2>3, <2>6
  <2>10. r \in OrNull
    BY <1>1 DEF OrNull
  <2>11. CacheInv(WithHot(s, cells, index, n2, time_next, time_prev, r))
    BY <2>3, <2>6, <2>9, <2>10, HotIs
  <2>12. PICK t : t = InsertIntoHotCache(s, r)
    OBVIOUS
  <2>13. /\ t.fd = s.fd /\ t.filename = s.filename /\ t.hot_count = n2
         /\ t.time_next = time_next /\ t.hot_fd_head = r /\ t.hot_fd_cache = cells
    BY <1>1, <2>8, <2>12, WithHotIs
  <2>14. HotOf(t) = H \cup {r}
    BY <2>3, <2>13 DEF HotOf
  <2>15. a.time_next = s.time_next /\ a.hot_fd_head = s.hot_fd_head
    BY <1>1, <2>4 DEF Shape, WithCells
  <2>16. ASSUME NEW q, Ordered(s, q) PROVE Ordered(t, Pushed(q, r, t.hot_count))
    <3>1. Queue(a.time_next, a.hot_fd_head, H, n, q)
      BY <1>2, <1>3, <2>15, <2>16 DEF Ordered
    <3>2. Queue(time_next, r, H \cup {r}, n + 1, Pushed(q, r, n + 1))
      BY <2>6, <3>1 DEF Pushes
    <3> QED BY <2>p, <2>13, <2>14, <3>2 DEF Ordered
  <2>17. Entered(s, t, r)
    BY <1>2, <1>6, <2>p, <2>13, <2>16 DEF Entered
  <2> QED BY <2>8, <2>11, <2>12, <2>17
<1>7. CASE n = HotSize
  <2>1. PICK head : head = s.hot_fd_head
    OBVIOUS
  <2>2. PICK victim : victim = s.time_prev[head]
    OBVIOUS
(* At least two are hot, so that the oldest is not the newest. *)
  <2>3. PICK x \in H, y \in H : x # y
    <3>1. s.hot_fd_cache[0] \in H /\ s.hot_fd_cache[1] \in H
      BY <1>2, <1>3, <1>7 DEF HotOf, Filled
    <3>2. s.hot_index[s.hot_fd_cache[0]] = 0 /\ s.hot_index[s.hot_fd_cache[1]] = 1
      BY <1>1, <1>2, <1>7 DEF Cells
    <3> QED BY <3>1, <3>2
  <2>4. head \in H /\ victim \in H /\ s.time_next[victim] = head
    BY <1>1, <1>3, <2>1, <2>2, <2>3, RingClosed DEF Ring
  <2>5. victim # head
    <3>1. SUFFICES ASSUME victim = head PROVE FALSE
      OBVIOUS
    <3>2. Closed(s.time_next, s.hot_fd_head, {head})
      BY <1>1, <1>3, <2>1, <2>4, <3>1 DEF Closed, Ring
    <3>3. H \subseteq {head}
      BY <1>1, <1>3, <3>2, RingClosed
    <3> QED BY <2>3, <3>3
  <2>6. PICK oldest \in 0 .. n - 1 : oldest = s.hot_index[victim] /\ s.hot_fd_cache[oldest] = victim
    <3>1. PICK i \in 0 .. n - 1 : victim = s.hot_fd_cache[i]
      BY <1>2, <1>3, <2>4 DEF HotOf, Filled
    <3> QED BY <1>1, <1>2, <3>1 DEF Cells
  <2>7. PICK next1 \in Links, prev1 \in Links :
          /\ RingUnlink(s, victim) = WithRing(s, next1, prev1, head)
          /\ Ring(next1, prev1, head, H \ {victim})
          /\ Drops(s.time_next, head, H, victim, next1, head)
    <3>1. H # {victim} /\ victim # s.hot_fd_head
      BY <2>1, <2>3, <2>5
    <3>2. PICK next1 \in Links, prev1 \in Links :
            /\ RingUnlink(s, victim) = WithRing(s, next1, prev1, s.hot_fd_head)
            /\ Ring(next1, prev1, HeadWithout(s, H, victim), H \ {victim})
            /\ Drops(s.time_next, s.hot_fd_head, H, victim, next1, HeadWithout(s, H, victim))
      BY <1>1, <1>3, <2>4, RingUnlinkIs
    <3>3. /\ Ring(next1, prev1, head, H \ {victim})
          /\ Drops(s.time_next, head, H, victim, next1, head)
      BY <2>1, <3>1, <3>2 DEF HeadWithout
    <3> QED BY <2>1, <3>2, <3>3
  <2>8. PICK a : a = WithRing(s, next1, prev1, head)
    OBVIOUS
  <2>9. /\ Shape(a) /\ a.time_next = next1 /\ a.time_prev = prev1 /\ a.hot_fd_head = head
        /\ a.fd = s.fd /\ a.hot_fd_cache = s.hot_fd_cache /\ a.hot_count = n
        /\ a.hot_index = s.hot_index
    BY <1>1, <1>2, <2>1, <2>4, <2>7, <2>8 DEF Shape, WithRing, OrNull
  <2>10. HotOf(a) = H
    BY <1>2, <1>3, <2>9 DEF HotOf
  <2>11. Cells(a.hot_fd_cache, a.hot_count, a.fd, a.hot_index)
    BY <1>1, <1>2, <2>9
  <2>12. PICK fit : fit = InsertIndex(a, d)
    OBVIOUS
  <2>13. FitsAt(a, a.fd[r], fit)
    BY <1>4, <2>9, <2>11, <2>12, Sorted, InsertIndexFits
  <2>14. PICK cells \in [Slots -> OrNull], index \in [Records -> Slots] :
          /\ Place(a, r, fit, oldest) = WithCells(a, cells, index)
          /\ Cells(cells, n, s.fd, index)
          /\ Filled(cells, n) = (H \ {victim}) \cup {r}
    <3>1. Room(a, oldest, n) /\ r \notin HotOf(a)
      BY <1>3, <2>6, <2>9, <2>10 DEF Room
    <3>2. HotWithout(a, oldest) = H \ {victim}
      BY <2>6, <2>9, <2>10 DEF HotWithout
    <3>3. PICK cells \in [Slots -> OrNull], index \in [Records -> Slots] :
            /\ Place(a, r, fit, oldest) = WithCells(a, cells, index)
            /\ Cells(cells, n, a.fd, index)
            /\ Filled(cells, n) = HotWithout(a, oldest) \cup {r}
      BY <1>1, <2>9, <2>11, <2>13, <3>1, PlaceIs
    <3> QED BY <2>9, <3>2, <3>3
  <2>15. PICK b : b = WithCells(a, cells, index)
    OBVIOUS
  <2>16. Shape(b) /\ Ring(b.time_next, b.time_prev, b.hot_fd_head, H \ {victim})
    BY <2>7, <2>9, <2>14, <2>15 DEF Shape, WithCells
  <2>17. PICK time_next \in Links, time_prev \in Links :
          /\ RingPush(b, r) = WithRing(b, time_next, time_prev, r)
          /\ Ring(time_next, time_prev, r, (H \ {victim}) \cup {r})
          /\ Pushes(b.time_next, b.hot_fd_head, H \ {victim}, r, time_next)
    BY <1>1, <1>3, <2>16, RingPushIs
  <2>18. InsertIntoHotCache(s, r) = [RingPush(b, r) EXCEPT !.hot_count = n]
    <3>1. b = Place(a, r, InsertIndex(a, a.fd[r]), oldest)
      BY <1>4, <2>9, <2>12, <2>14, <2>15
    <3>2. RingPush(b, r).hot_count = n
      BY <2>9, <2>15, <2>16, <2>17 DEF Shape, WithRing, WithCells
    <3>3. a = RingUnlink(s, s.time_prev[s.hot_fd_head]) /\ oldest = s.hot_index[s.time_prev[s.hot_fd_head]]
      BY <2>1, <2>2, <2>6, <2>7, <2>8
    <3>4. s.hot_count = HotSize
      BY <1>2, <1>7
    <3>5. InsertIntoHotCache(s, r)
            = [RingPush(Place(a, r, InsertIndex(a, a.fd[r]), oldest), r) EXCEPT !.hot_count = @]
      BY <3>3, <3>4 DEF InsertIntoHotCache
    <3> QED BY <3>1, <3>2, <3>5
  <2>19. InsertIntoHotCache(s, r)
          = WithHot(s, cells, index, n, time_next, time_prev, r)
    <3>1. PICK n1 \in Links, p1 \in Links, n2 \in Links, p2 \in Links :
            n1 = next1 /\ p1 = prev1 /\ n2 = time_next /\ p2 = time_prev
      OBVIOUS
    <3>2. RingPush(b, r)
            = WithRing(WithCells(WithRing(s, n1, p1, head), cells, index), n2, p2, r)
      BY <2>8, <2>15, <2>17, <3>1
    <3>3. WithRing(WithCells(WithRing(s, n1, p1, head), cells, index), n2, p2, r)
            = WithRing(WithCells(s, cells, index), n2, p2, r)
      BY <1>1, ZenonT(60) DEF Shape, WithRing, WithCells
    <3> QED BY <2>18, <3>1, <3>2, <3>3 DEF WithHot
  <2>20. Filled(cells, n) \subseteq Has(s) /\ Ring(time_next, time_prev, r, Filled(cells, n))
    BY <1>1, <1>3, <2>14, <2>17
  <2>21. r \in OrNull /\ n \in 0 .. HotSize
    BY <1>1 DEF OrNull
  <2>22. CacheInv(WithHot(s, cells, index, n, time_next, time_prev, r))
    BY <2>14, <2>17, <2>20, <2>21, HotIs
  <2>23. PICK t : t = InsertIntoHotCache(s, r)
    OBVIOUS
  <2>24. /\ t.fd = s.fd /\ t.filename = s.filename /\ t.hot_count = n
         /\ t.time_next = time_next /\ t.hot_fd_head = r /\ t.hot_fd_cache = cells
    BY <1>1, <2>19, <2>23, WithHotIs
  <2>25. HotOf(t) = (H \ {victim}) \cup {r}
    BY <2>14, <2>24 DEF HotOf
  <2>26. b.time_next = next1 /\ b.hot_fd_head = head
    BY <2>9, <2>15 DEF Shape, WithCells
(* The oldest is the last of the queue, and only it leaves. *)
  <2>27. ASSUME NEW q, Ordered(s, q) PROVE Ordered(t, Pushed(q, r, t.hot_count))
    <3>1. Queue(s.time_next, head, H, n, q)
      BY <1>2, <1>3, <2>1, <2>27 DEF Ordered
    <3>2. n - 1 \in 0 .. n - 1 /\ q[n - 1] = victim
      <4>1. n - 1 \in 0 .. n - 1
        BY <1>7
      <4>2. q[n - 1] \in H /\ s.time_next[q[n - 1]] = head
        BY <3>1, <4>1 DEF Queue
      <4>3. s.time_prev[s.time_next[q[n - 1]]] = q[n - 1]
        BY <1>1, <1>3, <4>2 DEF Ring
      <4> QED BY <2>2, <4>1, <4>2, <4>3
    <3>3. Queue(next1, head, H \ {victim}, n - 1, Dropped(q, n - 1, n - 1))
      BY <2>7, <3>1, <3>2 DEF Drops
    <3>4. PICK p : p = Dropped(q, n - 1, n - 1)
      OBVIOUS
    <3>5. Queue(time_next, r, (H \ {victim}) \cup {r}, (n - 1) + 1, Pushed(p, r, (n - 1) + 1))
      BY <2>17, <2>26, <3>3, <3>4 DEF Pushes
    <3>6. Pushed(p, r, n) = Pushed(q, r, n)
      <4>1. \A i \in 0 .. n - 2 : p[i] = q[i]
        BY <3>4 DEF Dropped
      <4>2. \A i \in 0 .. n - 1 : i # 0 => p[i - 1] = q[i - 1]
        BY <4>1
      <4> QED BY <4>2 DEF Pushed
    <3>7. (n - 1) + 1 = n
      OBVIOUS
    <3> QED BY <2>24, <2>25, <3>5, <3>6, <3>7 DEF Ordered
  <2>28. Entered(s, t, r)
    BY <1>2, <1>7, <2>24, <2>27 DEF Entered
  <2> QED BY <2>19, <2>22, <2>23, <2>28
<1> QED BY <1>6, <1>7

-----------------------------------------------------------------------------
(* insert_into_link.                                                       *)

Agree(S, fd, index, fd2, index2) ==
  \A x \in S : fd2[x] = fd[x] /\ index2[x] = index[x]

LEMMA CellsSame ==
  ASSUME NEW cells, NEW n, NEW fd, NEW index, Cells(cells, n, fd, index),
         NEW fd2, NEW index2,
         Agree(Filled(cells, n), fd, index, fd2, index2)
  PROVE  Cells(cells, n, fd2, index2)
<1>1. \A i \in 0 .. n - 1 : /\ fd2[cells[i]] = fd[cells[i]]
                            /\ index2[cells[i]] = index[cells[i]]
  BY DEF Filled, Agree
<1> QED BY <1>1 DEF Cells

LEMMA HasFinite ==
  ASSUME NEW s
  PROVE  IsFiniteSet(Has(s))
<1>1. Has(s) \in SUBSET Records
  BY DEF Has
<1> QED BY <1>1, FS_Subset

(* The fields of r change, and nothing about the hot records. *)
Renamed(s, t, r, fd, path) ==
  /\ t.fd = [s.fd EXCEPT ![r] = fd] /\ t.filename = [s.filename EXCEPT ![r] = path]
  /\ t.hot_count = s.hot_count
  /\ \A q : Ordered(s, q) => Ordered(t, q)

(* A node for path is allocated, put on the list and not yet made hot. *)
LEMMA LinkInserted ==
  ASSUME NEW s, CacheInv(s), NEW r \in Records, r \notin Has(s),
         NEW fd \in Fds, NEW path \in Paths,
         NEW t, t = InsertIntoLink(s, r, fd, path)
  PROVE  CacheInv(t) /\ r \in Has(t) /\ r \notin HotOf(t) /\ Renamed(s, t, r, fd, path)
<1>1. /\ Shape(s)
      /\ List(s.next, s.prev, s.file_fd_head, Has(s)) /\ Cardinality(Has(s)) = s.fd_count
      /\ Cells(s.hot_fd_cache, s.hot_count, s.fd, s.hot_index) /\ HotOf(s) \subseteq Has(s)
      /\ Ring(s.time_next, s.time_prev, s.hot_fd_head, HotOf(s))
  BY DEF CacheInv
<1>2. PICK head \in OrNull : head = s.file_fd_head
  BY <1>1 DEF Shape
<1>3. head # r
  <2>1. head # Null => head \in Has(s)
    BY <1>1, <1>2, ListClosed DEF Closed
  <2> QED BY <2>1
<1>4. /\ t.next = [s.next EXCEPT ![r] = head]
      /\ t.prev = IF head = Null THEN [s.prev EXCEPT ![r] = Null]
                  ELSE [[s.prev EXCEPT ![r] = Null] EXCEPT ![head] = r]
      /\ t.file_fd_head = r /\ t.fd_count = s.fd_count + 1
      /\ t.filename = [s.filename EXCEPT ![r] = path] /\ t.fd = [s.fd EXCEPT ![r] = fd]
      /\ t.hot_index = [s.hot_index EXCEPT ![r] = 0]
      /\ t.time_next = [s.time_next EXCEPT ![r] = Null]
      /\ t.time_prev = [s.time_prev EXCEPT ![r] = Null]
      /\ t.hot_fd_head = s.hot_fd_head /\ t.hot_fd_cache = s.hot_fd_cache
      /\ t.hot_count = s.hot_count
  BY <1>1, <1>2 DEF InsertIntoLink, Shape
<1>5. Shape(t)
  <2>1. PICK next \in Links, prev \in Links, time_next \in Links, time_prev \in Links,
             fds \in [Records -> Fds \cup {0}], index \in [Records -> Slots],
             name \in [Records -> Paths \cup {NoPath}] :
          /\ next = t.next /\ prev = t.prev /\ time_next = t.time_next /\ time_prev = t.time_prev
          /\ fds = t.fd /\ index = t.hot_index /\ name = t.filename
    <3>1. t.next \in Links /\ t.time_next \in Links /\ t.time_prev \in Links
      BY <1>1, <1>4 DEF Shape, Links, OrNull
    <3>2. t.prev \in Links
      BY <1>1, <1>4 DEF Shape, Links, OrNull
    <3>3. t.fd \in [Records -> Fds \cup {0}] /\ t.filename \in [Records -> Paths \cup {NoPath}]
      BY <1>1, <1>4 DEF Shape
    <3>4. t.hot_index \in [Records -> Slots]
      BY <1>1, <1>4 DEF Shape, Slots
    <3> QED BY <3>1, <3>2, <3>3, <3>4
  <2>2. t = [s EXCEPT !.next = next, !.prev = prev, !.time_next = time_next,
                      !.time_prev = time_prev, !.fd = fds, !.hot_index = index,
                      !.filename = name, !.file_fd_head = r, !.fd_count = s.fd_count + 1]
    <3>1. PICK a : a = [s EXCEPT !.fd[r] = fd, !.filename[r] = path, !.hot_index[r] = 0,
                                 !.prev[r] = Null, !.next[r] = head,
                                 !.time_prev[r] = Null, !.time_next[r] = Null]
      OBVIOUS
    <3>2. a = [s EXCEPT !.fd = fds, !.filename = name, !.hot_index = index,
                        !.prev = [s.prev EXCEPT ![r] = Null], !.next = next,
                        !.time_prev = time_prev, !.time_next = time_next]
      BY <1>4, <2>1, <3>1
    <3>3. PICK b : b = IF head = Null THEN a ELSE [a EXCEPT !.prev[head] = r]
      OBVIOUS
    <3>4. a.prev = [s.prev EXCEPT ![r] = Null]
      BY <1>1, <3>1 DEF Shape
    <3>5. b = [a EXCEPT !.prev = prev]
      <4>1. CASE head = Null
        <5>1. b = a /\ prev = a.prev
          BY <1>4, <2>1, <3>3, <3>4, <4>1
        <5> QED BY <1>1, <3>1, <5>1, ZenonT(60) DEF Shape
      <4>2. CASE head # Null
        <5>1. prev = [a.prev EXCEPT ![head] = r]
          BY <1>4, <2>1, <3>4, <4>2
        <5> QED BY <3>3, <4>2, <5>1
      <4> QED BY <4>1, <4>2
    <3>6. t = [b EXCEPT !.file_fd_head = r, !.fd_count = @ + 1]
      BY <1>2, <3>1, <3>3 DEF InsertIntoLink
    <3>7. b.fd_count = s.fd_count
      BY <1>1, <3>1, <3>5 DEF Shape
    <3>8. t = [b EXCEPT !.file_fd_head = r, !.fd_count = s.fd_count + 1]
      BY <3>6, <3>7
    <3> QED BY <1>1, <3>2, <3>5, <3>8 DEF Shape
  <2>3. r \in OrNull /\ s.fd_count + 1 \in Nat
    BY <1>1 DEF Shape, OrNull
  <2> QED BY <1>1, <2>1, <2>2, <2>3 DEF Shape
<1>6. /\ Has(t) = Has(s) \cup {r}
      /\ HotOf(t) = HotOf(s)
  BY <1>1, <1>4 DEF Has, HotOf, Shape
<1>7. List(t.next, t.prev, t.file_fd_head, Has(t))
  <2>1. s.prev \in Links
    BY <1>1 DEF Shape
  <2>2. t.prev = [x \in Records |-> IF x = head THEN r ELSE IF x = r THEN Null ELSE s.prev[x]]
    BY <1>2, <1>3, <1>4, <2>1 DEF Links, OrNull
  <2>3. List(t.next, t.prev, r, Has(s) \cup {r})
    BY <1>1, <1>2, <1>4, <2>2, ListPush
  <2> QED BY <1>4, <1>6, <2>3
<1>8. Cardinality(Has(t)) = t.fd_count
  <2>1. Cardinality(Has(s) \cup {r}) = Cardinality(Has(s)) + 1
    BY HasFinite, FS_AddElement
  <2> QED BY <1>1, <1>4, <1>6, <2>1
<1>9. r \notin HotOf(s)
  BY <1>1
<1>10. Cells(t.hot_fd_cache, t.hot_count, t.fd, t.hot_index)
  <2>1. \A x \in HotOf(s) : t.fd[x] = s.fd[x] /\ t.hot_index[x] = s.hot_index[x]
    BY <1>1, <1>4, <1>9 DEF Has, Shape
  <2>2. Agree(Filled(s.hot_fd_cache, s.hot_count), s.fd, s.hot_index, t.fd, t.hot_index)
    BY <2>1 DEF HotOf, Agree
  <2>3. Cells(s.hot_fd_cache, s.hot_count, t.fd, t.hot_index)
    BY <1>1, <2>2, CellsSame
  <2> QED BY <1>4, <2>3
<1>11. Ring(t.time_next, t.time_prev, t.hot_fd_head, HotOf(t))
  <2>1. t.time_next \in Links /\ t.time_prev \in Links
    BY <1>5 DEF Shape
  <2>2. \A x \in HotOf(s) : t.time_next[x] = s.time_next[x] /\ t.time_prev[x] = s.time_prev[x]
    BY <1>1, <1>4, <1>9 DEF Has, Shape, Links
  <2>3. Ring(t.time_next, t.time_prev, s.hot_fd_head, HotOf(s))
    BY <1>1, <2>1, <2>2, RingSame
  <2> QED BY <1>4, <1>6, <2>3
<1>12. CacheInv(t)
  BY <1>1, <1>5, <1>6, <1>7, <1>8, <1>9, <1>10, <1>11 DEF CacheInv
<1>13. Renamed(s, t, r, fd, path)
  <2>1. \A x \in HotOf(s) : t.time_next[x] = s.time_next[x]
    BY <1>1, <1>4, <1>9 DEF Has, Shape, Links
  <2>2. ASSUME NEW q, Ordered(s, q) PROVE Ordered(t, q)
    <3>1. t.hot_fd_head = s.hot_fd_head /\ t.hot_count = s.hot_count /\ HotOf(t) = HotOf(s)
      BY <1>4, <1>6
    <3>2. Queue(s.time_next, s.hot_fd_head, HotOf(s), s.hot_count, q)
      BY <2>2 DEF Ordered
    <3>3. Queue(t.time_next, s.hot_fd_head, HotOf(s), s.hot_count, q)
      BY <2>1, <3>2, QueueSame
    <3> QED BY <3>1, <3>3 DEF Ordered
  <2> QED BY <1>4, <2>2 DEF Renamed
<1> QED BY <1>6, <1>9, <1>12, <1>13

(* What an insertion does to the map and the queue. *)
Inserted(s, t, r, fd, path) ==
  /\ t.fd = [s.fd EXCEPT ![r] = fd] /\ t.filename = [s.filename EXCEPT ![r] = path]
  /\ t.hot_count = IF s.hot_count < HotSize THEN s.hot_count + 1 ELSE HotSize
  /\ \A q : Ordered(s, q) => Ordered(t, Pushed(q, r, t.hot_count))

LEMMA CacheInserted ==
  ASSUME NEW s, CacheInv(s), NEW r \in Records, r \notin Has(s),
         NEW fd \in Fds, NEW path \in Paths
  PROVE  /\ CacheInv(InsertIntoCache(s, r, fd, path))
         /\ Inserted(s, InsertIntoCache(s, r, fd, path), r, fd, path)
<1>1. PICK t : t = InsertIntoLink(s, r, fd, path)
  OBVIOUS
<1>2. CacheInv(t) /\ r \in Has(t) /\ r \notin HotOf(t) /\ Renamed(s, t, r, fd, path)
  BY <1>1, LinkInserted
<1>3. PICK u : u = InsertIntoHotCache(t, r)
  OBVIOUS
<1>4. CacheInv(u) /\ Entered(t, u, r)
  BY <1>2, <1>3, HotInserted
<1>5. Inserted(s, u, r, fd, path)
  BY <1>2, <1>4 DEF Renamed, Entered, Inserted
<1> QED BY <1>1, <1>3, <1>4, <1>5 DEF InsertIntoCache

-----------------------------------------------------------------------------
(* find_record_in_link: it finds the first record of fd if there is one.   *)

LEMMA AlongStep ==
  ASSUME NEW link \in Links, NEW x \in Records
  PROVE  Along(link, x) \subseteq {x} \cup (IF link[x] = Null THEN {} ELSE Along(link, link[x]))
<1>1. CASE link[x] = Null
  <2>1. Closed(link, x, {x})
    BY <1>1 DEF Closed
  <2> QED BY <1>1, <2>1, AlongLeast
<1>2. CASE link[x] # Null
  <2>1. link[x] \in OrNull
    BY DEF Links
  <2>2. Closed(link, link[x], Along(link, link[x]))
    BY <2>1, AlongClosed
  <2>3. Closed(link, x, {x} \cup Along(link, link[x]))
    BY <1>2, <2>2 DEF Closed
  <2> QED BY <1>2, <2>3, AlongLeast
<1> QED BY <1>1, <1>2

LEMMA InLinkIs ==
  ASSUME NEW s, CacheInv(s), NEW fd
  PROVE  IF \E r \in Has(s) : s.fd[r] = fd
         THEN InLink(s, fd) \in Has(s) /\ s.fd[InLink(s, fd)] = fd
         ELSE InLink(s, fd) = Null
<1>1. List(s.next, s.prev, s.file_fd_head, Has(s))
  BY DEF CacheInv
<1>2. PICK L : L = Has(s)
  OBVIOUS
<1>3. OnList(s) = L
  BY <1>1, <1>2 DEF List, OnList
<1>4. PICK found : found = {r \in L : s.fd[r] = fd}
  OBVIOUS
<1>5. CASE found = {}
  BY <1>2, <1>3, <1>4, <1>5 DEF InLink
<1>6. CASE found # {}
  <2>1. \E r \in found : found \subseteq Along(s.next, r)
    <3> DEFINE S == {x \in L : found \subseteq Along(s.next, x)}
    <3> SUFFICES ASSUME \A x \in S : x \notin found PROVE FALSE
      BY <1>4
    <3>1. /\ s.next \in Links /\ L \in SUBSET Records
          /\ Closed(s.next, s.file_fd_head, L)
          /\ \A C : Closed(s.next, s.file_fd_head, C) => L \subseteq C
          /\ Along(s.next, s.file_fd_head) = L
          /\ L # {} => \E r \in L : s.next[r] = Null
      <4>1. /\ Closed(s.next, s.file_fd_head, L)
            /\ \A C : Closed(s.next, s.file_fd_head, C) => L \subseteq C
        BY <1>1, <1>2, ListClosed
      <4> QED BY <1>1, <1>2, <4>1 DEF List
    <3>2. ASSUME NEW x \in S PROVE s.next[x] # Null /\ s.next[x] \in S
      <4>1. found \subseteq {x} \cup (IF s.next[x] = Null THEN {} ELSE Along(s.next, s.next[x]))
        BY <3>1, AlongStep
      <4>2. x \notin found
        OBVIOUS
      <4>3. s.next[x] # Null
        BY <1>6, <4>1, <4>2
      <4>4. s.next[x] \in L
        BY <3>1, <4>3 DEF Closed
      <4> QED BY <4>1, <4>2, <4>3, <4>4
    <3>3. s.file_fd_head # Null => s.file_fd_head \in S
      BY <1>4, <3>1 DEF Closed
    <3>4. Closed(s.next, s.file_fd_head, S)
      BY <3>1, <3>2, <3>3 DEF Closed
    <3>5. L \subseteq S
      BY <3>1, <3>4
    <3> QED BY <1>4, <1>6, <3>1, <3>2, <3>5
  <2>2. InLink(s, fd) = CHOOSE r \in found : found \subseteq Along(s.next, r)
    BY <1>3, <1>4, <1>6 DEF InLink
  <2>3. InLink(s, fd) \in found
    BY <2>1, <2>2
  <2> QED BY <1>2, <1>4, <2>3
<1> QED BY <1>5, <1>6

-----------------------------------------------------------------------------
(* delete_from_record.                                                     *)

WithList(s, next, prev, head) ==
  [s EXCEPT !.next = next, !.prev = prev, !.file_fd_head = head]

LEMMA UnlinkIs ==
  ASSUME NEW s, Shape(s), NEW L, List(s.next, s.prev, s.file_fd_head, L), NEW r \in L
  PROVE  \E next \in Links, prev \in Links, head \in OrNull :
           /\ Unlink(s, r) = WithList(s, next, prev, head)
           /\ List(next, prev, head, L \ {r})
<1>1. s.next \in Links /\ s.prev \in Links /\ s.file_fd_head \in OrNull /\ L \in SUBSET Records
  BY DEF List
<1>2. PICK after \in OrNull : after = s.next[r]
  BY <1>1 DEF Links
<1>3. PICK before \in OrNull : before = s.prev[r]
  BY <1>1 DEF Links
<1>4. r # s.file_fd_head => before \in L /\ before # r
  <2>1. r # s.file_fd_head => before \in L /\ s.next[before] = r
    BY <1>3, ListBack
  <2>2. s.next[r] # r
    BY ListNoLoop
  <2> QED BY <2>1, <2>2
<1>5. PICK head \in OrNull : head = IF r = s.file_fd_head THEN after ELSE s.file_fd_head
  BY <1>1
<1>6. PICK next \in Links :
        next = IF r = s.file_fd_head THEN s.next ELSE [s.next EXCEPT ![before] = after]
  BY <1>1, <1>2 DEF Links
<1>7. PICK prev \in Links :
        prev = IF after = Null THEN s.prev
               ELSE [s.prev EXCEPT ![after] = IF r = s.file_fd_head THEN Null ELSE before]
  BY <1>1, <1>3 DEF Links, OrNull
<1>8. Unlink(s, r) = WithList(s, next, prev, head)
  <2>1. CASE r = s.file_fd_head /\ after = Null
    BY <1>2, <1>5, <1>6, <1>7, <2>1 DEF Unlink, WithList, Shape
  <2>2. CASE r = s.file_fd_head /\ after # Null
    BY <1>2, <1>5, <1>6, <1>7, <2>2 DEF Unlink, WithList, Shape
  <2>3. CASE r # s.file_fd_head /\ after = Null
    BY <1>2, <1>3, <1>5, <1>6, <1>7, <2>3 DEF Unlink, WithList, Shape
  <2>4. CASE r # s.file_fd_head /\ after # Null
    BY <1>2, <1>3, <1>5, <1>6, <1>7, <2>4 DEF Unlink, WithList, Shape
  <2> QED BY <2>1, <2>2, <2>3, <2>4
<1>9. head = IF r = s.file_fd_head THEN s.next[r] ELSE s.file_fd_head
  BY <1>2, <1>5
<1>10. ASSUME NEW x \in L \ {r}
       PROVE  /\ next[x] = IF r # s.file_fd_head /\ x = s.prev[r] THEN s.next[r] ELSE s.next[x]
              /\ prev[x] = IF x = s.next[r] THEN IF r = s.file_fd_head THEN Null ELSE s.prev[r]
                           ELSE s.prev[x]
  <2>1. x \in Records /\ x # Null
    BY <1>1
  <2>2. next[x] = IF r # s.file_fd_head /\ x = s.prev[r] THEN s.next[r] ELSE s.next[x]
    BY <1>1, <1>2, <1>3, <1>6, <2>1 DEF Links
  <2>3. prev[x] = IF x = s.next[r] THEN IF r = s.file_fd_head THEN Null ELSE s.prev[r]
                  ELSE s.prev[x]
    BY <1>1, <1>2, <1>3, <1>7, <2>1 DEF Links
  <2> QED BY <2>2, <2>3
<1>11. Bypassed(s.next, s.prev, s.file_fd_head, L, r, next, prev, head)
  BY <1>9, <1>10 DEF Bypassed
<1>12. List(next, prev, head, L \ {r})
  BY <1>11, ListUnlink
<1> QED BY <1>8, <1>12

(* What the deletion of the record in slot i does to the hot cache. *)
HotGone(s, r, i) ==
  \E n2 \in 0 .. HotSize, cells \in [Slots -> OrNull], index \in [Records -> Slots],
     time_next \in Links, time_prev \in Links, head \in OrNull :
    /\ DeleteFromHotCache(s, r, i)
         = WithHot(s, cells, index, n2, time_next, time_prev, head)
    /\ Cells(cells, n2, s.fd, index) /\ Filled(cells, n2) = HotOf(s) \ {r}
    /\ Ring(time_next, time_prev, head, HotOf(s) \ {r})
    /\ Drops(s.time_next, s.hot_fd_head, HotOf(s), r, time_next, head)
    /\ n2 = s.hot_count - 1

LEMMA HotDeleted ==
  ASSUME NEW s, Shape(s), Cells(s.hot_fd_cache, s.hot_count, s.fd, s.hot_index),
         Ring(s.time_next, s.time_prev, s.hot_fd_head, HotOf(s)),
         NEW i \in 0 .. s.hot_count - 1, NEW r, r = s.hot_fd_cache[i]
  PROVE  HotGone(s, r, i)
<1>1. PICK n \in 1 .. HotSize : n = s.hot_count /\ i \in 0 .. n - 1
  BY DEF Shape
<1>2. PICK n2 \in 0 .. HotSize : n2 = n - 1
  BY <1>1
<1>3. PICK old \in [Slots -> OrNull] : old = s.hot_fd_cache
  BY DEF Shape
<1>4. PICK H : H = HotOf(s)
  OBVIOUS
<1>5. Filled(old, n) = H /\ r \in H /\ r = old[i]
  BY <1>1, <1>3, <1>4 DEF HotOf, Filled
<1>6. PICK cells : cells = [j \in Slots |-> IF j \in i .. n2 - 1 THEN old[j + 1] ELSE old[j]]
  OBVIOUS
<1>7. cells \in [Slots -> OrNull]
  <2>1. ASSUME NEW j \in Slots PROVE cells[j] \in OrNull
    <3>1. j \in i .. n2 - 1 => j + 1 \in Slots
      BY <1>1, <1>2 DEF Slots
    <3> QED BY <1>3, <1>6, <3>1
  <2> QED BY <1>6, <2>1
<1>8. Cells(old, n, s.fd, s.hot_index) /\ s.fd \in [Records -> Nat]
  BY <1>1, <1>3, Sorted
(* The last one's slot becomes free, and nobody takes it. *)
<1>9. ASSUME NEW j \in 0 .. n2 - 1
      PROVE  From(j, n2, i) \in 0 .. n - 1 /\ cells[j] = old[From(j, n2, i)]
  <2>1. j \in Slots
    BY <1>2 DEF Slots
  <2>2. From(j, n2, i) = IF j \in i .. n2 - 1 THEN j + 1 ELSE j
    BY <1>1, <1>2 DEF From
  <2> QED BY <1>1, <1>2, <1>6, <2>1, <2>2
<1>10. /\ Shifted(old, n, r, n2, i, cells, n2) /\ Touched(n2, i, i .. n2 - 1, n2)
       /\ Fresh(r, n2, old, n, n2) /\ Between(s.fd, r, n2, cells, n2)
  <2>1. n2 \notin 0 .. n2 - 1
    BY <1>2
  <2>2. Shifted(old, n, r, n2, i, cells, n2)
    BY <1>9, <2>1 DEF Shifted
  <2>3. Touched(n2, i, i .. n2 - 1, n2)
    BY <1>1, <1>2 DEF Touched, From
  <2> QED BY <2>1, <2>2, <2>3 DEF Fresh, Between
<1>11. PICK index : index = Known(cells, i .. n2 - 1, s.hot_index)
  OBVIOUS
<1>12. Cells(cells, n2, s.fd, index)
  <2>1. n2 \in Int /\ i \in Int
    BY <1>1, <1>2
  <2> QED BY <1>2, <1>8, <1>10, <1>11, <2>1, CellsMoved
<1>13. Filled(cells, n2) = H \ {r}
  <2>1. n2 \in 0 .. n2 /\ i \in 0 .. n /\ i < n /\ n2 = n - 1
    BY <1>1, <1>2
  <2>2. Filled(cells, n2) = (IF i < n THEN Filled(old, n) \ {old[i]} ELSE Filled(old, n))
                              \cup (IF n2 < n2 THEN {r} ELSE {})
    <3>1. Counted(i, n, n2, n2)
      BY <2>1 DEF Counted
    <3>2. Cells(old, n, s.fd, s.hot_index) /\ Shifted(old, n, r, n2, i, cells, n2)
      BY <1>8, <1>10
    <3> QED BY <1>2, <2>1, <3>1, <3>2, FilledMoved
  <2> QED BY <1>2, <1>5, <2>1, <2>2
<1>14. PICK a : a = SetCells(s, cells, i .. n2 - 1)
  OBVIOUS
<1>15. a = WithCells(s, cells, index) /\ index \in [Records -> Slots]
  <2>1. i .. n2 - 1 \subseteq Slots
    BY <1>1, <1>2 DEF Slots
  <2> QED BY <1>11, <1>14, <2>1, SetCellsIs
<1>16. /\ Shape(a) /\ a.time_next = s.time_next /\ a.time_prev = s.time_prev
       /\ a.hot_fd_head = s.hot_fd_head /\ a.hot_count = n
  BY <1>1, <1>7, <1>15 DEF Shape, WithCells
<1>17. PICK head \in OrNull : head = HeadWithout(s, H, r)
  <2>1. s.time_next[r] \in OrNull /\ s.hot_fd_head \in OrNull
    BY <1>4, <1>5 DEF Ring, Links
  <2> QED BY <2>1 DEF HeadWithout, OrNull
<1>18. PICK time_next \in Links, time_prev \in Links :
         /\ RingUnlink(a, r) = WithRing(a, time_next, time_prev, a.hot_fd_head)
         /\ Ring(time_next, time_prev, head, H \ {r})
         /\ Drops(s.time_next, s.hot_fd_head, H, r, time_next, head)
  <2>1. Ring(a.time_next, a.time_prev, a.hot_fd_head, H)
    BY <1>4, <1>16
  <2>2. HeadWithout(a, H, r) = head
    BY <1>16, <1>17 DEF HeadWithout
  <2> QED BY <1>5, <1>16, <2>1, <2>2, RingUnlinkIs
(* The ring is empty when no slot is in use. *)
<1>19. head = IF n2 = 0 THEN Null
              ELSE IF r = s.hot_fd_head THEN s.time_next[r] ELSE s.hot_fd_head
  <2>1. n2 = 0 <=> H = {r}
    <3>1. n2 = 0 => H \ {r} = {}
      BY <1>13 DEF Filled
    <3>2. n2 # 0 => cells[0] \in H \ {r}
      BY <1>2, <1>13 DEF Filled
    <3> QED BY <1>5, <3>1, <3>2
  <2> QED BY <1>17, <2>1 DEF HeadWithout
<1>20. DeleteFromHotCache(s, r, i) = [RingUnlink(a, r) EXCEPT !.hot_count = n2, !.hot_fd_head = head]
  BY <1>1, <1>2, <1>3, <1>6, <1>14, <1>19 DEF DeleteFromHotCache
<1>21. DeleteFromHotCache(s, r, i) = WithHot(s, cells, index, n2, time_next, time_prev, head)
  BY <1>15, <1>16, <1>18, <1>20 DEF WithHot, WithRing, Shape
<1> QED BY <1>1, <1>2, <1>4, <1>7, <1>12, <1>13, <1>15, <1>18, <1>21 DEF HotGone

(* What is left to show once the node is out of the list and the array.    *)
LEMMA Forgotten ==
  ASSUME NEW s, Shape(s), NEW r \in Has(s), Cardinality(Has(s)) = s.fd_count,
         List(s.next, s.prev, s.file_fd_head, Has(s) \ {r}),
         Cells(s.hot_fd_cache, s.hot_count, s.fd, s.hot_index), HotOf(s) \subseteq Has(s) \ {r},
         Ring(s.time_next, s.time_prev, s.hot_fd_head, HotOf(s)),
         NEW c, c = [s EXCEPT !.fd_count = @ - 1,
                              !.file_fd_head = IF s.fd_count = 1 THEN Null ELSE @],
         NEW t, t = Forget(c, r)
  PROVE  CacheInv(t) /\ Renamed(s, t, r, 0, NoPath)
<1>1. PICK L : L = Has(s) \ {r} /\ r \in Records
  BY DEF Has
<1>2. Cardinality(L) \in Nat /\ Cardinality(L) = s.fd_count - 1
  <2>1. Cardinality(L) = Cardinality(Has(s)) - 1
    BY <1>1, HasFinite, FS_RemoveElement
  <2>2. IsFiniteSet(L)
    BY <1>1, HasFinite, FS_RemoveElement
  <2>3. Cardinality(L) \in Nat
    BY <2>2, FS_CardinalityType
  <2> QED BY <2>1, <2>3
<1>3. s.fd_count = 1 => s.file_fd_head = Null
  <2>1. s.fd_count = 1 => L = {}
    <3>1. IsFiniteSet(L)
      BY <1>1, HasFinite, FS_RemoveElement
    <3> QED BY <1>2, <3>1, FS_EmptySet
  <2>2. s.file_fd_head # Null => s.file_fd_head \in L
    BY <1>1, ListClosed DEF Closed
  <2> QED BY <2>1, <2>2
<1>4. c = [s EXCEPT !.fd_count = s.fd_count - 1]
  BY <1>3 DEF Shape
<1>5. Shape(c)
  BY <1>2, <1>4 DEF Shape
<1>6. Shape(t)
  <2>1. PICK next \in Links, prev \in Links, time_next \in Links, time_prev \in Links :
          /\ next = [c.next EXCEPT ![r] = Null] /\ prev = [c.prev EXCEPT ![r] = Null]
          /\ time_next = [c.time_next EXCEPT ![r] = Null]
          /\ time_prev = [c.time_prev EXCEPT ![r] = Null]
    BY <1>5 DEF Shape, Links, OrNull
  <2>2. PICK fds \in [Records -> Fds \cup {0}], index \in [Records -> Slots],
             name \in [Records -> Paths \cup {NoPath}] :
          /\ fds = [c.fd EXCEPT ![r] = 0] /\ index = [c.hot_index EXCEPT ![r] = 0]
          /\ name = [c.filename EXCEPT ![r] = NoPath]
    <3>1. [c.fd EXCEPT ![r] = 0] \in [Records -> Fds \cup {0}]
      BY <1>5 DEF Shape
    <3>2. [c.hot_index EXCEPT ![r] = 0] \in [Records -> Slots]
      <4>1. 0 \in Slots
        BY DEF Slots
      <4> QED BY <1>5, <4>1 DEF Shape
    <3>3. [c.filename EXCEPT ![r] = NoPath] \in [Records -> Paths \cup {NoPath}]
      BY <1>5 DEF Shape
    <3> QED BY <3>1, <3>2, <3>3
  <2>3. t = [c EXCEPT !.prev = prev, !.next = next, !.time_prev = time_prev,
                      !.time_next = time_next, !.fd = fds, !.hot_index = index,
                      !.filename = name]
    <3>1. /\ EmptyArea.prev[r] = Null /\ EmptyArea.next[r] = Null
          /\ EmptyArea.time_prev[r] = Null /\ EmptyArea.time_next[r] = Null
          /\ EmptyArea.fd[r] = 0 /\ EmptyArea.hot_index[r] = 0
          /\ EmptyArea.filename[r] = NoPath
      BY <1>1 DEF EmptyArea
    <3>2. t = [c EXCEPT !.prev[r] = Null, !.next[r] = Null,
                        !.time_prev[r] = Null, !.time_next[r] = Null,
                        !.fd[r] = 0, !.hot_index[r] = 0, !.filename[r] = NoPath]
      BY <3>1 DEF Forget
    <3> QED BY <2>1, <2>2, <3>2
  <2>4. PICK u : u = [c EXCEPT !.prev = prev, !.next = next, !.time_prev = time_prev,
                               !.time_next = time_next]
    OBVIOUS
  <2>5. Shape(u)
    BY <1>5, <2>4 DEF Shape
  <2>6. t = [u EXCEPT !.fd = fds, !.hot_index = index, !.filename = name]
    BY <2>3, <2>4
  <2> QED BY <2>5, <2>6 DEF Shape
<1>7. /\ t.next = [s.next EXCEPT ![r] = Null] /\ t.prev = [s.prev EXCEPT ![r] = Null]
      /\ t.time_next = [s.time_next EXCEPT ![r] = Null]
      /\ t.time_prev = [s.time_prev EXCEPT ![r] = Null]
      /\ t.fd = [s.fd EXCEPT ![r] = 0] /\ t.hot_index = [s.hot_index EXCEPT ![r] = 0]
      /\ t.filename = [s.filename EXCEPT ![r] = NoPath]
      /\ t.file_fd_head = s.file_fd_head /\ t.hot_fd_head = s.hot_fd_head
      /\ t.hot_fd_cache = s.hot_fd_cache /\ t.hot_count = s.hot_count
      /\ t.fd_count = s.fd_count - 1
  BY <1>1, <1>4, ZenonT(60) DEF Forget, EmptyArea, Shape
<1>8. /\ t.next \in Links /\ t.prev \in Links /\ t.time_next \in Links /\ t.time_prev \in Links
      /\ s.next \in Links /\ s.prev \in Links /\ s.time_next \in Links /\ s.time_prev \in Links
  BY <1>6 DEF Shape
<1>9. Has(t) = L /\ HotOf(t) = HotOf(s) /\ HotOf(s) \subseteq L /\ L \subseteq Records
  BY <1>1, <1>7 DEF Has, HotOf, Shape
<1>10. ASSUME NEW x \in L
       PROVE  /\ t.next[x] = s.next[x] /\ t.prev[x] = s.prev[x]
              /\ t.time_next[x] = s.time_next[x] /\ t.time_prev[x] = s.time_prev[x]
              /\ t.fd[x] = s.fd[x] /\ t.hot_index[x] = s.hot_index[x]
  <2>1. x \in Records /\ x # r
    BY <1>1 DEF Has
  <2>2. s.fd \in [Records -> Fds \cup {0}] /\ s.hot_index \in [Records -> Slots]
    BY DEF Shape
  <2> QED BY <1>7, <1>8, <2>1, <2>2 DEF Links
<1>11. List(t.next, t.prev, t.file_fd_head, Has(t))
  <2>1. List(t.next, t.prev, s.file_fd_head, L)
    <3>1. List(s.next, s.prev, s.file_fd_head, L)
      BY <1>1
    <3>2. PICK next \in Links, prev \in Links : next = t.next /\ prev = t.prev
      BY <1>8
    <3>3. \A x \in L : next[x] = s.next[x] /\ prev[x] = s.prev[x]
      BY <1>10, <3>2
    <3>4. List(next, prev, s.file_fd_head, L)
      BY <3>1, <3>3, ListSame
    <3> QED BY <3>2, <3>4
  <2> QED BY <1>7, <1>9, <2>1
<1>12. Cells(t.hot_fd_cache, t.hot_count, t.fd, t.hot_index)
  <2>1. Agree(Filled(s.hot_fd_cache, s.hot_count), s.fd, s.hot_index, t.fd, t.hot_index)
    BY <1>9, <1>10 DEF HotOf, Agree
  <2>2. Cells(s.hot_fd_cache, s.hot_count, t.fd, t.hot_index)
    BY <2>1, CellsSame
  <2> QED BY <1>7, <2>2
<1>13. Ring(t.time_next, t.time_prev, t.hot_fd_head, HotOf(t))
  <2>1. Ring(t.time_next, t.time_prev, s.hot_fd_head, HotOf(s))
    <3>1. PICK next \in Links, prev \in Links : next = t.time_next /\ prev = t.time_prev
      BY <1>8
    <3>2. \A x \in HotOf(s) : next[x] = s.time_next[x] /\ prev[x] = s.time_prev[x]
      BY <1>9, <1>10, <3>1
    <3>3. Ring(next, prev, s.hot_fd_head, HotOf(s))
      BY <3>2, RingSame
    <3> QED BY <3>1, <3>3
  <2> QED BY <1>7, <1>9, <2>1
<1>14. CacheInv(t)
  BY <1>2, <1>6, <1>7, <1>9, <1>11, <1>12, <1>13 DEF CacheInv
<1>15. Renamed(s, t, r, 0, NoPath)
  <2>1. \A x \in HotOf(s) : t.time_next[x] = s.time_next[x]
    BY <1>9, <1>10
  <2>2. ASSUME NEW q, Ordered(s, q) PROVE Ordered(t, q)
    BY <1>7, <1>9, <2>1, <2>2, QueueSame DEF Ordered
  <2> QED BY <1>7, <2>2 DEF Renamed
<1> QED BY <1>14, <1>15

LEMMA NotHot ==
  ASSUME NEW s, CacheInv(s), NEW fd \in Nat, HotIndex(s, fd) = -1, NEW r, s.fd[r] = fd
  PROVE  r \notin HotOf(s)
<1>1. SortedArray(s)
  BY Sorted DEF CacheInv
<1>2. PICK index : index = HotIndex(s, fd)
  OBVIOUS
<1>3. \A i \in 0 .. s.hot_count - 1 : HotFd(s, i) # fd
  BY <1>1, HotIndexIs
<1> QED BY <1>3 DEF HotOf, Filled, HotFd

(* What a deletion does to the map and the queue: r is a record of fd, a   *)
(* hot one if there is one.                                                *)
Dropping(s, t, r) ==
  IF r \in HotOf(s)
  THEN /\ t.hot_count = s.hot_count - 1
       /\ \A q : \A j \in 0 .. s.hot_count - 1 :
            Ordered(s, q) /\ q[j] = r => Ordered(t, Dropped(q, j, t.hot_count))
  ELSE t.hot_count = s.hot_count /\ \A q : Ordered(s, q) => Ordered(t, q)

Removed(s, t, fd, r) ==
  /\ r \in Has(s) /\ s.fd[r] = fd /\ (r \in HotOf(s) <=> HotIndex(s, fd) # -1)
  /\ t.fd = [s.fd EXCEPT ![r] = 0] /\ t.filename = [s.filename EXCEPT ![r] = NoPath]
  /\ Dropping(s, t, r)

Missing(s, t, fd) ==
  /\ HotIndex(s, fd) = -1 /\ InLink(s, fd) = Null
  /\ t = s /\ \A r \in Has(s) : s.fd[r] # fd

LEMMA Deleted ==
  ASSUME NEW s, CacheInv(s), NEW fd \in Nat
  PROVE  /\ CacheInv(DeleteFromRecord(s, fd))
         /\ \/ Missing(s, DeleteFromRecord(s, fd), fd)
            \/ \E r : Removed(s, DeleteFromRecord(s, fd), fd, r)
<1>1. /\ Shape(s)
      /\ List(s.next, s.prev, s.file_fd_head, Has(s)) /\ Cardinality(Has(s)) = s.fd_count
      /\ Cells(s.hot_fd_cache, s.hot_count, s.fd, s.hot_index) /\ HotOf(s) \subseteq Has(s)
      /\ Ring(s.time_next, s.time_prev, s.hot_fd_head, HotOf(s))
  BY DEF CacheInv
<1>2. PICK i : i = HotIndex(s, fd)
  OBVIOUS
<1>3. PICK r : r = IF i # -1 THEN s.hot_fd_cache[i] ELSE InLink(s, fd)
  OBVIOUS
<1>t. PICK t : t = DeleteFromRecord(s, fd)
  OBVIOUS
<1>i. i # -1 => i \in 0 .. s.hot_count - 1 /\ s.hot_fd_cache[i] \in Records /\ HotFd(s, i) = fd
  <2>1. i # -1 => i \in 0 .. s.hot_count - 1 /\ HotFd(s, i) = fd
    BY <1>1, <1>2, Sorted, HotIndexIs
  <2> QED BY <1>1, <2>1 DEF Cells
<1>4. CASE r = Null
  <2>1. t = s
    BY <1>2, <1>3, <1>4, <1>t DEF DeleteFromRecord
  <2>2. i = -1 /\ InLink(s, fd) = Null
    BY <1>3, <1>4, <1>i
  <2>3. \A x \in Has(s) : s.fd[x] # fd
    <3>1. Null \notin Has(s)
      BY DEF Has
    <3> QED BY <2>2, <3>1, InLinkIs
  <2>4. Missing(s, t, fd)
    BY <1>2, <2>1, <2>2, <2>3 DEF Missing
  <2> QED BY <1>t, <2>1, <2>4
<1>5. CASE r # Null
  <2>0. s.fd[r] = fd
    <3>1. CASE i = -1
      BY <1>3, <1>5, <3>1, InLinkIs
    <3>2. CASE i # -1
      BY <1>3, <1>i, <3>2 DEF HotFd
    <3> QED BY <3>1, <3>2
  <2>1. /\ r \in Has(s)
        /\ i # -1 => i \in 0 .. s.hot_count - 1 /\ r = s.hot_fd_cache[i]
        /\ i = -1 <=> r \notin HotOf(s)
    <3>1. CASE i = -1
      <4>1. r \in Has(s) /\ s.fd[r] = fd
        BY <1>3, <1>5, <3>1, InLinkIs
      <4> QED BY <1>2, <3>1, <4>1, NotHot
    <3>2. CASE i # -1
      <4>1. i \in 0 .. s.hot_count - 1
        BY <1>1, <1>2, <3>2, Sorted, HotIndexIs
      <4>2. r = s.hot_fd_cache[i]
        BY <1>3, <3>2
      <4>3. r \in HotOf(s)
        BY <4>1, <4>2 DEF HotOf, Filled
      <4> QED BY <1>1, <3>2, <4>1, <4>2, <4>3
    <3> QED BY <3>1, <3>2
  <2>2. PICK a : a = Unlink(s, r)
    OBVIOUS
  <2>3. PICK next \in Links, prev \in Links, head \in OrNull :
          a = WithList(s, next, prev, head) /\ List(next, prev, head, Has(s) \ {r})
    BY <1>1, <2>1, <2>2, UnlinkIs
  <2>4. /\ Shape(a) /\ a.next = next /\ a.prev = prev /\ a.file_fd_head = head
        /\ a.filename = s.filename /\ a.fd_count = s.fd_count /\ a.fd = s.fd
        /\ a.hot_fd_cache = s.hot_fd_cache /\ a.hot_count = s.hot_count
        /\ a.hot_index = s.hot_index /\ a.hot_fd_head = s.hot_fd_head
        /\ a.time_next = s.time_next /\ a.time_prev = s.time_prev
    BY <1>1, <2>3 DEF Shape, WithList
  <2>5. Has(a) = Has(s) /\ HotOf(a) = HotOf(s)
    BY <2>4 DEF Has, HotOf
  <2>6. PICK b : b = IF i # -1 THEN DeleteFromHotCache(a, r, i) ELSE a
    OBVIOUS
  <2>7. /\ Shape(b) /\ Has(b) = Has(s) /\ b.fd_count = s.fd_count
        /\ List(b.next, b.prev, b.file_fd_head, Has(s) \ {r})
        /\ Cells(b.hot_fd_cache, b.hot_count, b.fd, b.hot_index)
        /\ HotOf(b) \subseteq Has(s) \ {r}
        /\ Ring(b.time_next, b.time_prev, b.hot_fd_head, HotOf(b))
        /\ b.fd = s.fd /\ b.filename = s.filename /\ Dropping(s, b, r)
    <3>1. CASE i = -1
      <4>1. b = a
        BY <2>6, <3>1
      <4>2. \A q : Ordered(s, q) => Ordered(a, q)
        BY <2>4, <2>5 DEF Ordered
      <4>3. Dropping(s, b, r)
        BY <2>1, <2>4, <3>1, <4>1, <4>2 DEF Dropping
      <4> QED BY <1>1, <2>1, <2>3, <2>4, <2>5, <3>1, <4>1, <4>3
    <3>2. CASE i # -1
      <4>1. i \in 0 .. a.hot_count - 1 /\ r = a.hot_fd_cache[i]
        BY <2>1, <2>4, <3>2
      <4>2. /\ Cells(a.hot_fd_cache, a.hot_count, a.fd, a.hot_index)
            /\ Ring(a.time_next, a.time_prev, a.hot_fd_head, HotOf(a))
        BY <1>1, <2>4, <2>5
      <4>3. PICK n2 \in 0 .. HotSize, cells \in [Slots -> OrNull], index \in [Records -> Slots],
                 time_next \in Links, time_prev \in Links, hot \in OrNull :
              /\ DeleteFromHotCache(a, r, i)
                   = WithHot(a, cells, index, n2, time_next, time_prev, hot)
              /\ Cells(cells, n2, a.fd, index) /\ Filled(cells, n2) = HotOf(a) \ {r}
              /\ Ring(time_next, time_prev, hot, HotOf(a) \ {r})
              /\ Drops(a.time_next, a.hot_fd_head, HotOf(a), r, time_next, hot)
              /\ n2 = a.hot_count - 1
        <5>1. HotGone(a, r, i)
          BY <2>4, <4>1, <4>2, HotDeleted
        <5> QED BY <5>1 DEF HotGone
      <4>4. b = WithHot(a, cells, index, n2, time_next, time_prev, hot)
        BY <2>6, <3>2, <4>3
      <4>5. /\ Shape(b) /\ b.next = next /\ b.prev = prev /\ b.file_fd_head = head
            /\ b.filename = s.filename /\ b.fd_count = s.fd_count /\ b.fd = s.fd
            /\ b.hot_fd_cache = cells /\ b.hot_count = n2
            /\ b.hot_index = index /\ b.hot_fd_head = hot
            /\ b.time_next = time_next /\ b.time_prev = time_prev
        BY <2>4, <4>3, <4>4 DEF Shape, WithHot, WithRing, WithCells
      <4>6. Has(b) = Has(s) /\ HotOf(b) = HotOf(s) \ {r}
        BY <2>5, <4>3, <4>5 DEF Has, HotOf
      <4>7. ASSUME NEW q, NEW j \in 0 .. s.hot_count - 1, Ordered(s, q), q[j] = r
            PROVE  Ordered(b, Dropped(q, j, b.hot_count))
        <5>1. Queue(a.time_next, a.hot_fd_head, HotOf(a), a.hot_count, q)
          BY <2>4, <2>5, <4>7 DEF Ordered
        <5>2. Queue(time_next, hot, HotOf(a) \ {r}, n2, Dropped(q, j, n2))
          BY <2>4, <4>3, <4>7, <5>1 DEF Drops
        <5> QED BY <2>5, <4>5, <4>6, <5>2 DEF Ordered
      <4>8. Dropping(s, b, r)
        BY <2>1, <2>4, <3>2, <4>3, <4>5, <4>7 DEF Dropping
      <4> QED BY <1>1, <2>3, <2>4, <2>5, <4>3, <4>5, <4>6, <4>8
    <3> QED BY <3>1, <3>2
  <2>8. PICK c : c = [b EXCEPT !.fd_count = @ - 1,
                               !.file_fd_head = IF b.fd_count = 1 THEN Null ELSE @]
    OBVIOUS
  <2>9. DeleteFromRecord(s, fd) = Forget(c, r)
    BY <1>2, <1>3, <1>5, <2>2, <2>6, <2>8 DEF DeleteFromRecord
  <2>10. CacheInv(Forget(c, r)) /\ Renamed(b, Forget(c, r), r, 0, NoPath)
    <3>1. Cardinality(Has(b)) = b.fd_count /\ r \in Has(b)
      BY <1>1, <2>1, <2>7
    <3>2. HotOf(b) \subseteq Has(b) \ {r} /\ List(b.next, b.prev, b.file_fd_head, Has(b) \ {r})
      BY <2>7
    <3> QED BY <2>7, <2>8, <3>1, <3>2, Forgotten
  <2>11. CacheInv(t) /\ Renamed(b, t, r, 0, NoPath)
    BY <1>t, <2>9, <2>10
  <2>12. Dropping(s, t, r)
    BY <2>7, <2>11 DEF Dropping, Renamed
  <2>13. t.fd = [s.fd EXCEPT ![r] = 0] /\ t.filename = [s.filename EXCEPT ![r] = NoPath]
    BY <2>7, <2>11 DEF Renamed
  <2>14. Removed(s, t, fd, r)
    BY <1>2, <2>0, <2>1, <2>12, <2>13 DEF Removed
  <2> QED BY <1>t, <2>11, <2>14
<1> QED BY <1>4, <1>5

-----------------------------------------------------------------------------
(* The descriptors of the queue as a sequence.                              *)

(* The walk along the ring is a function. *)
Walk(next, head, f) == f = [n \in 0 .. HotSize |-> IF n = 0 THEN head ELSE next[f[n - 1]]]

LEMMA WalkExists ==
  ASSUME NEW next, NEW head
  PROVE  \E f : Walk(next, head, f)
<1> DEFINE Walks(f, m) == \A n \in 0 .. m : f[n] = IF n = 0 THEN head ELSE next[f[n - 1]]
           Can == {m \in Nat : \E f : Walks(f, m)}
<1>1. 0 \in Can
  <2>1. PICK f : f = [n \in {0} |-> head]
    OBVIOUS
  <2>2. \A n \in 0 .. 0 : n = 0 /\ f[n] = head
    BY <2>1
  <2>3. Walks(f, 0)
    BY <2>2
  <2> QED BY <2>3
<1>2. ASSUME NEW m \in Nat, m \in Can PROVE m + 1 \in Can
  <2>1. PICK f : Walks(f, m)
    BY <1>2
  <2>2. PICK g : g = [n \in 0 .. m + 1 |-> IF n = m + 1 THEN next[f[m]] ELSE f[n]]
    OBVIOUS
  <2>3. g[m + 1] = next[f[m]] /\ \A n \in 0 .. m : g[n] = f[n]
    BY <2>2
  <2>4. ASSUME NEW n \in 0 .. m + 1 PROVE g[n] = IF n = 0 THEN head ELSE next[g[n - 1]]
    <3>1. CASE n = m + 1
      BY <2>3, <3>1
    <3>2. CASE n # m + 1
      BY <2>1, <2>3, <3>2
    <3> QED BY <3>1, <3>2
  <2>5. Walks(g, m + 1)
    BY <2>4
  <2> QED BY <2>5
<1>3. HotSize \in Can
  BY <1>1, <1>2, SetInduction
<1>4. PICK f : Walks(f, HotSize)
  BY <1>3
<1>5. PICK g : g = [n \in 0 .. HotSize |-> f[n]]
  OBVIOUS
<1>6. ASSUME NEW n \in 0 .. HotSize PROVE g[n] = IF n = 0 THEN head ELSE next[g[n - 1]]
  BY <1>4, <1>5
<1>7. g = [n \in 0 .. HotSize |-> IF n = 0 THEN head ELSE next[g[n - 1]]]
  BY <1>5, <1>6
<1> QED BY <1>7 DEF Walk

(* The descriptors in the order of the queue. *)
LEMMA RecentIs ==
  ASSUME NEW s, s.hot_count \in 0 .. HotSize, NEW q, Ordered(s, q)
  PROVE  RecentFds(s) = [k \in 1 .. s.hot_count |-> s.fd[q[k - 1]]]
<1>1. PICK n \in 0 .. HotSize : n = s.hot_count
  OBVIOUS
<1>2. PICK f : f = CHOOSE g : Walk(s.time_next, s.hot_fd_head, g)
  OBVIOUS
<1>3. Walk(s.time_next, s.hot_fd_head, f)
  BY <1>2, WalkExists
<1>4. \A k \in 0 .. HotSize : f[k] = IF k = 0 THEN s.hot_fd_head ELSE s.time_next[f[k - 1]]
  BY <1>3 DEF Walk
<1>5. /\ \A i \in 0 .. n - 1 : s.time_next[q[i]] = IF i = n - 1 THEN s.hot_fd_head ELSE q[i + 1]
      /\ n > 0 => q[0] = s.hot_fd_head
  BY <1>1 DEF Ordered, Queue
<1> DEFINE Same == {k \in Nat : k < n => f[k] = q[k]}
<1>6. 0 \in Same
  BY <1>4, <1>5
<1>7. ASSUME NEW k \in Nat, k \in Same PROVE k + 1 \in Same
  <2> SUFFICES ASSUME k + 1 < n PROVE f[k + 1] = q[k + 1]
    OBVIOUS
  <2>1. f[k + 1] = s.time_next[f[k]] /\ f[k] = q[k]
    BY <1>4, <1>7
  <2>2. s.time_next[q[k]] = q[k + 1]
    BY <1>5
  <2> QED BY <2>1, <2>2
<1>8. Nat \subseteq Same
  BY <1>6, <1>7, SetInduction
<1>9. \A k \in 1 .. n : f[k - 1] = q[k - 1]
  BY <1>8
<1>10. RecentFds(s) = [k \in 1 .. n |-> s.fd[f[k - 1]]]
  BY <1>1, <1>2 DEF RecentFds, Walk
<1> QED BY <1>1, <1>9, <1>10

(* Sequences: what Enter and Delete of FdMap do to one. *)
Front(recent, fd) ==
  SubSeq(<<fd>> \o recent, 1, IF Len(recent) < HotSize THEN Len(recent) + 1 ELSE HotSize)

Longer(recent, fd, n) == [k \in 1 .. n |-> IF k = 1 THEN fd ELSE recent[k - 1]]

LEMMA EnterIs ==
  ASSUME NEW n \in 0 .. HotSize, NEW recent, recent \in [1 .. n -> Nat], NEW fd \in Nat,
         NEW n2, n2 = IF n < HotSize THEN n + 1 ELSE HotSize
  PROVE  Front(recent, fd) = Longer(recent, fd, n2)
<1>1. recent \in Seq(Nat) /\ Len(recent) = n
  OBVIOUS
<1>2. <<fd>> \in Seq(Nat) /\ Len(<<fd>>) = 1 /\ <<fd>>[1] = fd
  OBVIOUS
<1>3. PICK longer : longer = <<fd>> \o recent
  OBVIOUS
<1>4. /\ longer \in Seq(Nat) /\ Len(longer) = n + 1
      /\ \A k \in 1 .. n + 1 : longer[k] = IF k = 1 THEN fd ELSE recent[k - 1]
  <2>1. /\ longer \in Seq(Nat) /\ Len(longer) = 1 + n
        /\ \A k \in 1 .. 1 + n : longer[k] = IF k =< 1 THEN <<fd>>[k] ELSE recent[k - 1]
    BY <1>1, <1>2, <1>3, ConcatProperties
  <2> QED BY <1>2, <2>1
<1>5. n2 \in 0 .. n + 1 /\ n2 > 0
  OBVIOUS
<1>6. PICK enter : enter = SubSeq(longer, 1, n2)
  OBVIOUS
<1>7. /\ enter \in Seq(Nat) /\ Len(enter) = n2
      /\ \A k \in 1 .. n2 : enter[k] = longer[k]
  <2>1. \A k \in 1 .. n2 : longer[k] \in Nat
    BY <1>4, <1>5, ElementOfSeq
  <2>2. /\ enter \in Seq(Nat) /\ Len(enter) = IF 1 =< n2 THEN n2 - 1 + 1 ELSE 0
        /\ \A k \in 1 .. n2 - 1 + 1 : enter[k] = longer[1 + k - 1]
    BY <1>5, <1>6, <2>1, SubSeqProperties
  <2> QED BY <1>5, <2>2
<1>8. ASSUME NEW k \in 1 .. n2 PROVE enter[k] = IF k = 1 THEN fd ELSE recent[k - 1]
  <2>1. k \in 1 .. n + 1
    BY <1>5
  <2>2. enter[k] = longer[k]
    BY <1>7
  <2>3. longer[k] = IF k = 1 THEN fd ELSE recent[k - 1]
    BY <1>4, <2>1
  <2> QED BY <2>2, <2>3
<1>9. enter = [k \in 1 .. n2 |-> enter[k]]
  BY <1>7, LenProperties
<1> QED BY <1>1, <1>3, <1>6, <1>8, <1>9 DEF Front, Longer

Cut(recent, i) == SubSeq(recent, 1, i - 1) \o SubSeq(recent, i + 1, Len(recent))

Shorter(recent, i, n) == [k \in 1 .. n - 1 |-> IF k < i THEN recent[k] ELSE recent[k + 1]]

LEMMA LeaveIs ==
  ASSUME NEW n \in Nat, NEW recent, recent \in [1 .. n -> Nat], NEW i \in 1 .. n
  PROVE  Cut(recent, i) = Shorter(recent, i, n)
<1>1. recent \in Seq(Nat) /\ Len(recent) = n
  OBVIOUS
<1>2. PICK a : a = SubSeq(recent, 1, i - 1)
  OBVIOUS
<1>3. a \in Seq(Nat) /\ Len(a) = i - 1 /\ \A k \in 1 .. i - 1 : a[k] = recent[k]
  <2>1. \A k \in 1 .. i - 1 : recent[k] \in Nat
    OBVIOUS
  <2>2. /\ a \in Seq(Nat) /\ Len(a) = IF 1 =< i - 1 THEN (i - 1) - 1 + 1 ELSE 0
        /\ \A k \in 1 .. (i - 1) - 1 + 1 : a[k] = recent[1 + k - 1]
    BY <1>2, <2>1, SubSeqProperties
  <2> QED BY <2>2
<1>4. PICK b : b = SubSeq(recent, i + 1, n)
  OBVIOUS
<1>5. b \in Seq(Nat) /\ Len(b) = n - i /\ \A k \in 1 .. n - i : b[k] = recent[k + i]
  <2>1. \A k \in i + 1 .. n : recent[k] \in Nat
    OBVIOUS
  <2>2. /\ b \in Seq(Nat) /\ Len(b) = IF i + 1 =< n THEN n - (i + 1) + 1 ELSE 0
        /\ \A k \in 1 .. n - (i + 1) + 1 : b[k] = recent[(i + 1) + k - 1]
    BY <1>4, <2>1, SubSeqProperties
  <2> QED BY <2>2
<1>6. PICK c : c = a \o b
  OBVIOUS
<1>7. /\ c \in Seq(Nat) /\ Len(c) = n - 1
      /\ \A k \in 1 .. n - 1 : c[k] = IF k =< i - 1 THEN a[k] ELSE b[k - (i - 1)]
  <2>1. /\ c \in Seq(Nat) /\ Len(c) = Len(a) + Len(b)
        /\ \A k \in 1 .. Len(a) + Len(b) : c[k] = IF k =< Len(a) THEN a[k] ELSE b[k - Len(a)]
    <3>1. a \in Seq(Nat) /\ b \in Seq(Nat)
      BY <1>3, <1>5
    <3> QED BY <1>6, <3>1, ConcatProperties
  <2>2. Len(a) + Len(b) = n - 1 /\ Len(a) = i - 1
    BY <1>3, <1>5
  <2> QED BY <2>1, <2>2
<1>8. \A k \in 1 .. n - 1 : c[k] = IF k < i THEN recent[k] ELSE recent[k + 1]
  BY <1>3, <1>5, <1>7
<1>9. c = [k \in 1 .. n - 1 |-> c[k]]
  BY <1>7, LenProperties
<1> QED BY <1>1, <1>2, <1>4, <1>6, <1>8, <1>9 DEF Cut, Shorter

LEMMA RecentType ==
  ASSUME NEW s, CacheInv(s), NEW q, Ordered(s, q)
  PROVE  /\ RecentFds(s) \in [1 .. s.hot_count -> Nat] /\ Len(RecentFds(s)) = s.hot_count
         /\ RecentFds(s) = [k \in 1 .. s.hot_count |-> s.fd[q[k - 1]]]
         /\ \A k \in 1 .. s.hot_count : RecentFds(s)[k] = s.fd[q[k - 1]]
         /\ q \in [0 .. s.hot_count - 1 -> HotOf(s)] /\ HotOf(s) \subseteq Records
<1>1. PICK n \in 0 .. HotSize : n = s.hot_count
  BY DEF CacheInv, Shape
<1>2. s.fd \in [Records -> Nat] /\ HotOf(s) \subseteq Records
  BY Sorted DEF CacheInv, Ring
<1>3. PICK recent : recent = RecentFds(s)
  OBVIOUS
<1>4. recent = [k \in 1 .. n |-> s.fd[q[k - 1]]]
  BY <1>1, <1>3, RecentIs
<1>5. q \in [0 .. n - 1 -> HotOf(s)]
  BY <1>1 DEF Ordered, Queue
<1>6. \A k \in 1 .. n : recent[k] = s.fd[q[k - 1]] /\ recent[k] \in Nat
  BY <1>2, <1>4, <1>5
<1>7. recent \in [1 .. n -> Nat]
  BY <1>4, <1>6
<1>8. Len(recent) = n
  BY <1>7
<1> QED BY <1>1, <1>2, <1>3, <1>4, <1>5, <1>6, <1>7, <1>8

(* The queue as FdMap sees it: r enters with its descriptor, *)
LEMMA RecentEnters ==
  ASSUME NEW s, CacheInv(s), NEW t, CacheInv(t), NEW r \in Records, NEW q,
         Ordered(s, q), Ordered(t, Pushed(q, r, t.hot_count)),
         t.hot_count = IF s.hot_count < HotSize THEN s.hot_count + 1 ELSE HotSize,
         \A x \in HotOf(s) : t.fd[x] = s.fd[x],
         NEW fd \in Nat, fd = t.fd[r],
         NEW recent, recent = RecentFds(s)
  PROVE  RecentFds(t) = Front(recent, fd)
<1>1. PICK n \in 0 .. HotSize : n = s.hot_count
  BY DEF CacheInv, Shape
<1>2. PICK n2 \in 0 .. HotSize : n2 = t.hot_count
  BY DEF CacheInv, Shape
<1>3. n2 = (IF n < HotSize THEN n + 1 ELSE HotSize) /\ n2 - 1 =< n
  BY <1>1, <1>2
<1>4. /\ recent \in [1 .. n -> Nat] /\ q \in [0 .. n - 1 -> HotOf(s)]
      /\ \A k \in 1 .. n : recent[k] = s.fd[q[k - 1]]
  BY <1>1, RecentType
<1>5. RecentFds(t) = [k \in 1 .. n2 |-> t.fd[Pushed(q, r, n2)[k - 1]]]
  BY <1>2, RecentType
<1>6. ASSUME NEW k \in 1 .. n2
      PROVE  t.fd[Pushed(q, r, n2)[k - 1]] = IF k = 1 THEN fd ELSE recent[k - 1]
  <2>1. Pushed(q, r, n2)[k - 1] = IF k - 1 = 0 THEN r ELSE q[(k - 1) - 1]
    <3>1. k - 1 \in 0 .. n2 - 1
      OBVIOUS
    <3> QED BY <3>1 DEF Pushed
  <2>2. CASE k = 1
    BY <2>1, <2>2
  <2>3. CASE k # 1
    <3>1. k - 1 \in 1 .. n /\ (k - 1) - 1 \in 0 .. n - 1
      BY <1>3, <2>3
    <3>2. q[(k - 1) - 1] \in HotOf(s) /\ recent[k - 1] = s.fd[q[(k - 1) - 1]]
      BY <1>4, <3>1
    <3> QED BY <2>1, <2>3, <3>2
  <2> QED BY <2>2, <2>3
<1>7. RecentFds(t) = [k \in 1 .. n2 |-> IF k = 1 THEN fd ELSE recent[k - 1]]
  BY <1>5, <1>6
<1>8. Front(recent, fd) = Longer(recent, fd, n2)
  <2>1. PICK n3 : n3 = IF n < HotSize THEN n + 1 ELSE HotSize
    OBVIOUS
  <2>2. recent \in [1 .. n -> Nat]
    BY <1>4
  <2>3. Front(recent, fd) = Longer(recent, fd, n3)
    BY <2>1, <2>2, EnterIs
  <2> QED BY <1>3, <2>1, <2>3
<1> QED BY <1>7, <1>8 DEF Longer

(* and leaves from place j. *)
LEMMA RecentLeaves ==
  ASSUME NEW s, CacheInv(s), NEW t, CacheInv(t), NEW q, NEW j \in 0 .. s.hot_count - 1,
         Ordered(s, q), Ordered(t, Dropped(q, j, t.hot_count)), t.hot_count = s.hot_count - 1,
         \A x \in HotOf(s) \ {q[j]} : t.fd[x] = s.fd[x],
         NEW recent, recent = RecentFds(s), NEW i, i = j + 1
  PROVE  /\ RecentFds(t) = Cut(recent, i)
         /\ i \in 1 .. Len(recent) /\ recent[i] = s.fd[q[j]]
<1>1. PICK n \in 1 .. HotSize : n = s.hot_count /\ j \in 0 .. n - 1
  BY DEF CacheInv, Shape
<1>2. t.hot_count = n - 1
  BY <1>1
<1>4. /\ recent \in [1 .. n -> Nat] /\ q \in [0 .. n - 1 -> HotOf(s)] /\ Len(recent) = n
      /\ \A k \in 1 .. n : recent[k] = s.fd[q[k - 1]]
  BY <1>1, RecentType
<1>5. RecentFds(t) = [k \in 1 .. n - 1 |-> t.fd[Dropped(q, j, n - 1)[k - 1]]]
  BY <1>2, RecentType
<1>i. \A k, l \in 0 .. n - 1 : q[k] = q[l] => k = l
  BY <1>1 DEF Ordered, Queue
<1>6. ASSUME NEW k \in 1 .. n - 1
      PROVE  t.fd[Dropped(q, j, n - 1)[k - 1]] = IF k < i THEN recent[k] ELSE recent[k + 1]
  <2>1. Dropped(q, j, n - 1)[k - 1] = IF k - 1 < j THEN q[k - 1] ELSE q[(k - 1) + 1]
    <3>1. k - 1 \in 0 .. (n - 1) - 1
      OBVIOUS
    <3> QED BY <3>1 DEF Dropped
  <2>2. CASE k < i
    <3>1. k - 1 < j /\ k - 1 \in 0 .. n - 1 /\ k - 1 # j
      BY <1>1, <2>2
    <3>2. q[k - 1] \in HotOf(s) \ {q[j]}
      BY <1>1, <1>4, <1>i, <3>1
    <3>3. Dropped(q, j, n - 1)[k - 1] = q[k - 1]
      BY <2>1, <3>1
    <3>4. recent[k] = s.fd[q[k - 1]] /\ t.fd[q[k - 1]] = s.fd[q[k - 1]]
      BY <1>4, <3>2
    <3>5. t.fd[Dropped(q, j, n - 1)[k - 1]] = recent[k]
      BY <3>3, <3>4, ZenonT(30)
    <3> QED BY <2>2, <3>5, ZenonT(30)
  <2>3. CASE ~(k < i)
    <3>1. ~(k - 1 < j) /\ (k - 1) + 1 = k /\ k \in 0 .. n - 1 /\ k # j /\ k + 1 \in 1 .. n
          /\ (k + 1) - 1 = k
      BY <1>1, <2>3
    <3>2. q[k] \in HotOf(s) \ {q[j]}
      BY <1>1, <1>4, <1>i, <3>1
    <3>3. Dropped(q, j, n - 1)[k - 1] = q[k]
      BY <2>1, <3>1
    <3>4. recent[k + 1] = s.fd[q[k]] /\ t.fd[q[k]] = s.fd[q[k]]
      BY <1>4, <3>1, <3>2
    <3>5. t.fd[Dropped(q, j, n - 1)[k - 1]] = recent[k + 1]
      BY <3>3, <3>4, ZenonT(30)
    <3> QED BY <2>3, <3>5, ZenonT(30)
  <2> QED BY <2>2, <2>3
<1>7. RecentFds(t) = [k \in 1 .. n - 1 |-> IF k < i THEN recent[k] ELSE recent[k + 1]]
  BY <1>5, <1>6
<1>8. i \in 1 .. n /\ i - 1 = j
  BY <1>1
<1>9. RecentFds(t) = Cut(recent, i)
  <2>1. n \in Nat
    OBVIOUS
  <2>2. Cut(recent, i) = Shorter(recent, i, n)
    <3>1. recent \in [1 .. n -> Nat] /\ i \in 1 .. n
      BY <1>4, <1>8
    <3> QED BY <2>1, <3>1, LeaveIs
  <2> QED BY <1>7, <2>2 DEF Shorter
<1> QED BY <1>4, <1>8, <1>9

(* It is in the queue what is in the array. *)
LEMMA PositionsAre ==
  ASSUME NEW s, CacheInv(s), NEW q, Ordered(s, q), NEW fd \in Nat,
         NEW recent, recent = RecentFds(s)
  PROVE  {i \in 1 .. Len(recent) : recent[i] = fd} = {} <=> HotIndex(s, fd) = -1
<1>1. PICK n \in 0 .. HotSize : n = s.hot_count
  BY DEF CacheInv, Shape
<1>4. /\ q \in [0 .. n - 1 -> HotOf(s)] /\ Len(recent) = n
      /\ \A k \in 1 .. n : recent[k] = s.fd[q[k - 1]]
  BY <1>1, RecentType
<1>5. \A x \in HotOf(s) : \E k \in 0 .. n - 1 : q[k] = x
  BY <1>1 DEF Ordered, Queue
<1>6. PICK index : index = HotIndex(s, fd)
  OBVIOUS
<1>7. \/ index = -1 /\ \A i \in 0 .. n - 1 : HotFd(s, i) # fd
      \/ index \in 0 .. n - 1 /\ HotFd(s, index) = fd
  BY <1>1, <1>6, Sorted, HotIndexIs DEF CacheInv
<1>8. CASE index = -1
  <2>1. \A x \in HotOf(s) : s.fd[x] # fd
    BY <1>1, <1>7, <1>8 DEF HotOf, Filled, HotFd
  <2>2. \A k \in 1 .. n : recent[k] # fd
    BY <1>4, <2>1
  <2> QED BY <1>4, <1>6, <1>8, <2>2
<1>9. CASE index # -1
  <2>1. PICK x \in HotOf(s) : s.fd[x] = fd
    BY <1>1, <1>7, <1>9 DEF HotOf, Filled, HotFd
  <2>2. PICK k \in 0 .. n - 1 : q[k] = x
    BY <1>5
  <2>3. k + 1 \in 1 .. n /\ (k + 1) - 1 = k
    BY <2>2
  <2>4. recent[k + 1] = fd
    BY <1>4, <2>1, <2>2, <2>3
  <2> QED BY <1>4, <1>6, <1>9, <2>3, <2>4
<1> QED BY <1>8, <1>9

-----------------------------------------------------------------------------
(* The map.                                                                *)

RecordsFor(s, fd, path) == {r \in Records : s.fd[r] = fd /\ s.filename[r] = path}

LEMMA BagIs ==
  ASSUME NEW s, NEW fd \in Fds, NEW path \in Paths
  PROVE  /\ RecordsOf(s)[fd][path] = Cardinality(RecordsFor(s, fd, path))
         /\ RecordsOf(s)[fd][path] \in Nat /\ IsFiniteSet(RecordsFor(s, fd, path))
         /\ RecordsOf(s)[fd][path] > 0 <=> RecordsFor(s, fd, path) # {}
<1>1. PICK S : S = RecordsFor(s, fd, path)
  OBVIOUS
<1>2. RecordsOf(s)[fd][path] = Cardinality(S)
  BY <1>1 DEF RecordsOf, RecordsFor
<1>3. IsFiniteSet(S)
  <2>1. S \in SUBSET Records
    BY <1>1 DEF RecordsFor
  <2> QED BY <2>1, FS_Subset
<1>4. Cardinality(S) \in Nat /\ (Cardinality(S) = 0 <=> S = {})
  BY <1>3, FS_CardinalityType, FS_EmptySet
<1> QED BY <1>1, <1>2, <1>3, <1>4

OthersSame(s, t, fd, path) ==
  \A d \in Fds, p \in Paths :
     <<d, p>> # <<fd, path>> => RecordsOf(t)[d][p] = RecordsOf(s)[d][p]

Counts(s, t, fd, path, m) == RecordsOf(t) = [RecordsOf(s) EXCEPT ![fd] = [@ EXCEPT ![path] = m]]

LEMMA BagsEqual ==
  ASSUME NEW s, NEW t, NEW fd \in Fds, NEW path \in Paths, OthersSame(s, t, fd, path)
  PROVE  Counts(s, t, fd, path, RecordsOf(t)[fd][path])
<1>m. PICK m : m = RecordsOf(t)[fd][path]
  OBVIOUS
<1>1. PICK a : a = RecordsOf(s)
  OBVIOUS
<1>2. PICK b : b = RecordsOf(t)
  OBVIOUS
<1>3. a = [d \in Fds |-> a[d]] /\ b = [d \in Fds |-> b[d]]
  BY <1>1, <1>2 DEF RecordsOf
<1>4. \A d \in Fds : a[d] = [p \in Paths |-> a[d][p]] /\ b[d] = [p \in Paths |-> b[d][p]]
  BY <1>1, <1>2 DEF RecordsOf
<1>5. ASSUME NEW d \in Fds PROVE b[d] = IF d = fd THEN [a[fd] EXCEPT ![path] = m] ELSE a[d]
  <2>1. CASE d # fd
    <3>1. \A p \in Paths : b[d][p] = a[d][p]
      BY <1>1, <1>2, <2>1 DEF OthersSame
    <3>2. b[d] = a[d]
      BY <1>4, <3>1
    <3> QED BY <2>1, <3>2
  <2>2. CASE d = fd
    <3>1. \A p \in Paths : b[fd][p] = IF p = path THEN m ELSE a[fd][p]
      BY <1>1, <1>2, <1>m DEF OthersSame
    <3>2. b[fd] = [p \in Paths |-> b[fd][p]] /\ a[fd] = [p \in Paths |-> a[fd][p]]
      BY <1>4
    <3>3. b[fd] = [a[fd] EXCEPT ![path] = m]
      BY <3>1, <3>2
    <3> QED BY <2>2, <3>3
  <2> QED BY <2>1, <2>2
<1>6. b = [a EXCEPT ![fd] = [a[fd] EXCEPT ![path] = m]]
  BY <1>3, <1>5
<1> QED BY <1>m, <1>1, <1>2, <1>6 DEF Counts

(* A record more, *)
LEMMA BagGrows ==
  ASSUME NEW s, Shape(s), NEW r \in Records, r \notin Has(s), NEW fd \in Fds, NEW path \in Paths,
         NEW t, t.fd = [s.fd EXCEPT ![r] = fd], t.filename = [s.filename EXCEPT ![r] = path]
  PROVE  Counts(s, t, fd, path, RecordsOf(s)[fd][path] + 1)
<1>1. s.filename[r] = NoPath
  BY DEF Has
<1>2. \A x \in Records : /\ t.fd[x] = IF x = r THEN fd ELSE s.fd[x]
                         /\ t.filename[x] = IF x = r THEN path ELSE s.filename[x]
  BY DEF Shape
<1>3. RecordsFor(t, fd, path) = RecordsFor(s, fd, path) \cup {r} /\ r \notin RecordsFor(s, fd, path)
  BY <1>1, <1>2 DEF RecordsFor
<1>4. PICK S : S = RecordsFor(s, fd, path)
  OBVIOUS
<1>5. Cardinality(S \cup {r}) = Cardinality(S) + 1
  <2>1. IsFiniteSet(S)
    BY <1>4, BagIs
  <2> QED BY <1>3, <1>4, <2>1, FS_AddElement
<1>6. RecordsOf(t)[fd][path] = RecordsOf(s)[fd][path] + 1
  <2>1. RecordsOf(s)[fd][path] = Cardinality(S)
    BY <1>4, BagIs
  <2>2. RecordsOf(t)[fd][path] = Cardinality(RecordsFor(t, fd, path))
    BY BagIs
  <2>3. RecordsOf(t)[fd][path] = Cardinality(S \cup {r})
    BY <1>3, <1>4, <2>2
  <2> QED BY <1>5, <2>1, <2>3
<1>7. ASSUME NEW d \in Fds, NEW p \in Paths, <<d, p>> # <<fd, path>>
      PROVE  RecordsOf(t)[d][p] = RecordsOf(s)[d][p]
  <2>1. RecordsFor(t, d, p) = RecordsFor(s, d, p)
    BY <1>1, <1>2, <1>7 DEF RecordsFor
  <2> QED BY <2>1, BagIs
<1>8. Counts(s, t, fd, path, RecordsOf(t)[fd][path])
  BY <1>7, BagsEqual DEF OthersSame
<1> QED BY <1>6, <1>8

(* or less. *)
LEMMA BagShrinks ==
  ASSUME NEW s, Shape(s), NEW r \in Has(s), NEW fd \in Fds, s.fd[r] = fd,
         NEW path, path = s.filename[r],
         NEW t, t.fd = [s.fd EXCEPT ![r] = 0], t.filename = [s.filename EXCEPT ![r] = NoPath]
  PROVE  /\ path \in Paths /\ RecordsOf(s)[fd][path] > 0
         /\ Counts(s, t, fd, path, RecordsOf(s)[fd][path] - 1)
<1>1. path \in Paths /\ r \in Records
  BY DEF Has, Shape
<1>2. \A x \in Records : /\ t.fd[x] = IF x = r THEN 0 ELSE s.fd[x]
                         /\ t.filename[x] = IF x = r THEN NoPath ELSE s.filename[x]
  BY DEF Shape
<1>3. RecordsFor(t, fd, path) = RecordsFor(s, fd, path) \ {r} /\ r \in RecordsFor(s, fd, path)
  BY <1>1, <1>2 DEF RecordsFor
<1>4. PICK S : S = RecordsFor(s, fd, path)
  OBVIOUS
<1>5. Cardinality(S \ {r}) = Cardinality(S) - 1
  <2>1. IsFiniteSet(S)
    BY <1>1, <1>4, BagIs
  <2> QED BY <1>3, <1>4, <2>1, FS_RemoveElement
<1>6. RecordsOf(t)[fd][path] = RecordsOf(s)[fd][path] - 1 /\ RecordsOf(s)[fd][path] > 0
  <2>1. RecordsOf(s)[fd][path] = Cardinality(S) /\ (RecordsOf(s)[fd][path] > 0 <=> S # {})
    BY <1>1, <1>4, BagIs
  <2>2. RecordsOf(t)[fd][path] = Cardinality(RecordsFor(t, fd, path))
    BY <1>1, BagIs
  <2>3. RecordsOf(t)[fd][path] = Cardinality(S \ {r})
    BY <1>3, <1>4, <2>2
  <2> QED BY <1>3, <1>4, <1>5, <2>1, <2>3
<1>7. ASSUME NEW d \in Fds, NEW p \in Paths, <<d, p>> # <<fd, path>>
      PROVE  RecordsOf(t)[d][p] = RecordsOf(s)[d][p]
  <2>1. RecordsFor(t, d, p) = RecordsFor(s, d, p)
    BY <1>1, <1>2, <1>7 DEF RecordsFor
  <2> QED BY <2>1, BagIs
<1>8. Counts(s, t, fd, path, RecordsOf(t)[fd][path])
  <2>1. OthersSame(s, t, fd, path)
    BY <1>7 DEF OthersSame
  <2> QED BY <1>1, <2>1, BagsEqual
<1> QED BY <1>1, <1>6, <1>8

-----------------------------------------------------------------------------
(* Each function as a step of FdMap.                                       *)

Queued(s) == \E q : Ordered(s, q)

LEMMA QueueEmpty == Queued(EmptyArea) /\ RecentFds(EmptyArea) = <<>>
<1>1. PICK s : s = EmptyArea
  OBVIOUS
<1>2. s.hot_count = 0 /\ HotOf(s) = {}
  BY <1>1 DEF EmptyArea, HotOf, Filled
<1>3. PICK q : q = [i \in {} |-> 0]
  OBVIOUS
<1>4. Queue(s.time_next, s.hot_fd_head, {}, 0, q)
  BY <1>3 DEF Queue
<1>5. Ordered(s, q)
  BY <1>2, <1>4 DEF Ordered
<1>6. RecentFds(s) = [k \in 1 .. 0 |-> s.fd[q[k - 1]]]
  BY <1>2, <1>5, RecentIs
<1>7. RecentFds(s) = <<>>
  BY <1>6
<1> QED BY <1>1, <1>5, <1>7 DEF Queued

LEMMA InsertedIs ==
  ASSUME NEW s, CacheInv(s), Queued(s), NEW r \in Records, r \notin Has(s),
         NEW fd \in Fds, NEW path \in Paths,
         NEW t, t = InsertIntoCache(s, r, fd, path)
  PROVE  /\ Queued(t) /\ Counts(s, t, fd, path, RecordsOf(s)[fd][path] + 1)
         /\ RecentFds(t) = Front(RecentFds(s), fd)
<1>1. Shape(s) /\ HotOf(s) \subseteq Has(s)
  BY DEF CacheInv
<1>2. CacheInv(t) /\ Inserted(s, t, r, fd, path)
  BY CacheInserted
<1>3. PICK q : Ordered(s, q)
  BY DEF Queued
<1>4. /\ t.fd = [s.fd EXCEPT ![r] = fd] /\ t.filename = [s.filename EXCEPT ![r] = path]
      /\ t.hot_count = IF s.hot_count < HotSize THEN s.hot_count + 1 ELSE HotSize
      /\ Ordered(t, Pushed(q, r, t.hot_count))
  BY <1>2, <1>3 DEF Inserted
<1>5. t.fd[r] = fd /\ \A x \in HotOf(s) : t.fd[x] = s.fd[x]
  BY <1>1, <1>4 DEF Shape, Has
<1>6. PICK recent : recent = RecentFds(s)
  OBVIOUS
<1>7. RecentFds(t) = Front(recent, fd)
  <2>1. fd \in Nat /\ fd = t.fd[r]
    BY <1>5
  <2>2. /\ t.hot_count = IF s.hot_count < HotSize THEN s.hot_count + 1 ELSE HotSize
        /\ Ordered(t, Pushed(q, r, t.hot_count))
    BY <1>4
  <2> QED BY <1>2, <1>3, <1>5, <1>6, <2>1, <2>2, RecentEnters
<1>8. Counts(s, t, fd, path, RecordsOf(s)[fd][path] + 1)
  BY <1>1, <1>4, BagGrows
<1> QED BY <1>4, <1>6, <1>7, <1>8 DEF Queued

LEMMA HotAgainIs ==
  ASSUME NEW s, CacheInv(s), Queued(s), NEW r \in Has(s), r \notin HotOf(s),
         NEW t, t = InsertIntoHotCache(s, r)
  PROVE  /\ Queued(t) /\ RecordsOf(t) = RecordsOf(s)
         /\ RecentFds(t) = Front(RecentFds(s), s.fd[r])
<1>1. r \in Records /\ s.fd[r] \in Nat
  BY Sorted DEF CacheInv, Has
<1>2. CacheInv(t) /\ Entered(s, t, r)
  BY HotInserted
<1>3. PICK q : Ordered(s, q)
  BY DEF Queued
<1>4. /\ t.fd = s.fd /\ t.filename = s.filename
      /\ t.hot_count = IF s.hot_count < HotSize THEN s.hot_count + 1 ELSE HotSize
      /\ Ordered(t, Pushed(q, r, t.hot_count))
  BY <1>2, <1>3 DEF Entered
<1>5. PICK fd \in Nat : fd = s.fd[r]
  BY <1>1
<1>6. PICK recent : recent = RecentFds(s)
  OBVIOUS
<1>7. RecentFds(t) = Front(recent, fd)
  <2>1. fd = t.fd[r] /\ \A x \in HotOf(s) : t.fd[x] = s.fd[x]
    BY <1>4, <1>5
  <2> QED BY <1>1, <1>2, <1>3, <1>4, <1>6, <2>1, RecentEnters
<1>8. RecordsOf(t) = RecordsOf(s)
  BY <1>4 DEF RecordsOf
<1> QED BY <1>4, <1>5, <1>6, <1>7, <1>8 DEF Queued

NoneFor(s, fd) == \A path \in Paths : RecordsOf(s)[fd][path] = 0

(* One record of path goes, from the queue if a hot one was found. *)
OneLess(s, t, fd, path) ==
  /\ RecordsOf(s)[fd][path] > 0
  /\ Counts(s, t, fd, path, RecordsOf(s)[fd][path] - 1)
  /\ IF HotIndex(s, fd) = -1
     THEN RecentFds(t) = RecentFds(s)
     ELSE \E i \in 1 .. Len(RecentFds(s)) :
            RecentFds(s)[i] = fd /\ RecentFds(t) = Cut(RecentFds(s), i)

LEMMA NoneIs ==
  ASSUME NEW s, Shape(s), NEW fd \in Fds
  PROVE  NoneFor(s, fd) <=> \A r \in Has(s) : s.fd[r] # fd
<1>1. \A path \in Paths : RecordsOf(s)[fd][path] = 0 <=> RecordsFor(s, fd, path) = {}
  <2>1. ASSUME NEW path \in Paths
        PROVE  RecordsOf(s)[fd][path] = 0 <=> RecordsFor(s, fd, path) = {}
    <3>1. RecordsOf(s)[fd][path] \in Nat
          /\ (RecordsOf(s)[fd][path] > 0 <=> RecordsFor(s, fd, path) # {})
      BY BagIs
    <3> QED BY <3>1
  <2> QED BY <2>1
<1>2. \A r \in Records : s.filename[r] \in Paths \cup {NoPath}
  BY DEF Shape
<1> QED BY <1>1, <1>2 DEF NoneFor, RecordsFor, Has

LEMMA DeletedIs ==
  ASSUME NEW s, CacheInv(s), Queued(s), NEW fd \in Fds, NEW t, t = DeleteFromRecord(s, fd)
  PROVE  /\ Queued(t)
         /\ \/ t = s /\ NoneFor(s, fd) /\ HotIndex(s, fd) = -1 /\ InLink(s, fd) = Null
            \/ \E path \in Paths : OneLess(s, t, fd, path)
<1>1. Shape(s) /\ HotOf(s) \subseteq Has(s) /\ fd \in Nat
  BY DEF CacheInv
<1>2. CacheInv(t) /\ (Missing(s, t, fd) \/ \E r : Removed(s, t, fd, r))
  BY <1>1, Deleted
<1>3. CASE Missing(s, t, fd)
  BY <1>1, <1>3, NoneIs DEF Missing
<1>4. ASSUME NEW r, Removed(s, t, fd, r)
      PROVE  Queued(t) /\ \E path \in Paths : OneLess(s, t, fd, path)
  <2>1. /\ r \in Has(s) /\ r \in Records /\ s.fd[r] = fd /\ (r \in HotOf(s) <=> HotIndex(s, fd) # -1)
        /\ t.fd = [s.fd EXCEPT ![r] = 0] /\ t.filename = [s.filename EXCEPT ![r] = NoPath]
        /\ Dropping(s, t, r)
    BY <1>4 DEF Removed, Has
  <2>2. PICK path : path = s.filename[r]
    OBVIOUS
  <2>3. path \in Paths /\ RecordsOf(s)[fd][path] > 0
        /\ Counts(s, t, fd, path, RecordsOf(s)[fd][path] - 1)
    BY <1>1, <2>1, <2>2, BagShrinks
  <2>4. \A x \in HotOf(s) \ {r} : t.fd[x] = s.fd[x]
    BY <1>1, <2>1 DEF Shape, Has
  <2>5. PICK q : Ordered(s, q)
    BY DEF Queued
  <2>6. PICK recent : recent = RecentFds(s)
    OBVIOUS
  <2>7. CASE r \notin HotOf(s)
    <3>1. t.hot_count = s.hot_count /\ Ordered(t, q)
      BY <2>1, <2>5, <2>7 DEF Dropping
    <3>2. RecentFds(t) = RecentFds(s)
      <4>1. /\ RecentFds(t) = [k \in 1 .. s.hot_count |-> t.fd[q[k - 1]]]
            /\ RecentFds(s) = [k \in 1 .. s.hot_count |-> s.fd[q[k - 1]]]
            /\ q \in [0 .. s.hot_count - 1 -> HotOf(s)] /\ s.hot_count \in Nat
        <5>1. RecentFds(t) = [k \in 1 .. t.hot_count |-> t.fd[q[k - 1]]]
          BY <1>2, <3>1, RecentType
        <5>2. /\ RecentFds(s) = [k \in 1 .. s.hot_count |-> s.fd[q[k - 1]]]
              /\ q \in [0 .. s.hot_count - 1 -> HotOf(s)]
          BY <2>5, RecentType
        <5> QED BY <1>1, <3>1, <5>1, <5>2 DEF Shape
      <4>2. \A k \in 1 .. s.hot_count : t.fd[q[k - 1]] = s.fd[q[k - 1]]
        <5>1. ASSUME NEW k \in 1 .. s.hot_count PROVE q[k - 1] \in HotOf(s)
          <6>1. k - 1 \in 0 .. s.hot_count - 1
            BY <4>1
          <6> QED BY <4>1, <6>1
        <5> QED BY <2>4, <2>7, <5>1
      <4> QED BY <4>1, <4>2
    <3> QED BY <2>1, <2>3, <2>7, <3>1, <3>2 DEF OneLess, Queued
  <2>8. CASE r \in HotOf(s)
    <3>1. PICK j \in 0 .. s.hot_count - 1 : q[j] = r
      BY <2>5, <2>8 DEF Ordered, Queue
    <3>2. t.hot_count = s.hot_count - 1 /\ Ordered(t, Dropped(q, j, t.hot_count))
      BY <2>1, <2>5, <2>8, <3>1 DEF Dropping
    <3>3. PICK i : i = j + 1
      OBVIOUS
    <3>4. RecentFds(t) = Cut(recent, i) /\ i \in 1 .. Len(recent) /\ recent[i] = s.fd[q[j]]
      BY <1>2, <2>4, <2>5, <2>6, <3>1, <3>2, <3>3, RecentLeaves
    <3> QED BY <2>1, <2>3, <2>6, <2>8, <3>1, <3>2, <3>4 DEF OneLess, Queued
  <2> QED BY <2>7, <2>8
<1> QED BY <1>2, <1>3, <1>4

-----------------------------------------------------------------------------
(* The theorems.                                                           *)

Inv ==
  /\ CacheInv(area)
  /\ result \in Paths \cup {NoPath} \cup BOOLEAN

LEMMA ListedIs ==
  ASSUME Inv
  PROVE  OnList(area) = Has(area)
BY DEF Inv, CacheInv, List, OnList

LEMMA InitInv ==
  Init => Inv
BY Empty DEF Init, Inv

LEMMA NextInv ==
  Inv /\ [Next]_vars => Inv'
<1> SUFFICES ASSUME Inv, [Next]_vars PROVE Inv'
  OBVIOUS
<1>1. CacheInv(area) /\ OnList(area) = Has(area)
  BY ListedIs DEF Inv
<1>2. /\ area.filename \in [Records -> Paths \cup {NoPath}]
      /\ Cells(area.hot_fd_cache, area.hot_count, area.fd, area.hot_index) /\ SortedArray(area)
  BY <1>1, Sorted DEF CacheInv, Shape
<1>3. ASSUME NEW r \in Records \ OnList(area), NEW fd \in Fds, NEW path \in Paths,
             area' = InsertIntoCache(area, r, fd, path)
      PROVE  CacheInv(area')
  BY <1>1, <1>3, CacheInserted
<1>4. ASSUME NEW open \in Opened, Insert(open[1], open[2]) PROVE Inv'
  <2>1. open[1] \in Fds /\ open[2] \in Paths
    OBVIOUS
  <2>2. CacheInv(area')
    BY <1>3, <1>4, <2>1 DEF Insert
  <2> QED BY <1>4, <2>2 DEF Insert, Inv
<1>5. ASSUME NEW fd \in Fds, GetHot(fd) PROVE Inv'
  <2>1. PICK i : i = HotIndex(area, fd)
    OBVIOUS
  <2>2. i # -1 /\ result' = area.filename[area.hot_fd_cache[i]] /\ area' = area
    BY <1>5, <2>1 DEF GetHot
  <2>3. i \in 0 .. area.hot_count - 1
    BY <1>2, <2>1, <2>2, HotIndexIs
  <2>4. area.hot_fd_cache[i] \in Records
    BY <1>2, <2>3 DEF Cells
  <2> QED BY <1>1, <1>2, <2>2, <2>4 DEF Inv
<1>6. ASSUME NEW fd \in Fds, GetListed(fd) PROVE Inv'
  <2>1. PICK r : r = InLink(area, fd)
    OBVIOUS
  <2>2. /\ HotIndex(area, fd) = -1 /\ r # Null
        /\ area' = InsertIntoHotCache(area, r) /\ result' = area.filename[r]
    BY <1>6, <2>1 DEF GetListed
  <2>3. r \in Has(area) /\ area.fd[r] = fd
    BY <1>1, <2>1, <2>2, InLinkIs
  <2>4. r \notin HotOf(area)
    BY <1>1, <2>2, <2>3, NotHot
  <2>5. CacheInv(area')
    BY <1>1, <2>2, <2>3, <2>4, HotInserted
  <2>6. r \in Records
    BY <2>3 DEF Has
  <2> QED BY <1>2, <2>2, <2>5, <2>6 DEF Inv
<1>7. ASSUME NEW open \in Opened \cup (Fds \X {NoPath}), GetFromSystem(open[1], open[2])
      PROVE  Inv'
  <2>1. open[1] \in Fds /\ open[2] \in Paths \cup {NoPath}
    OBVIOUS
  <2>2. CASE open[2] = NoPath
    BY <1>1, <1>7, <2>2 DEF GetFromSystem, Inv
  <2>3. CASE open[2] # NoPath
    <3>1. CacheInv(area')
      BY <1>3, <1>7, <2>1, <2>3 DEF GetFromSystem
    <3> QED BY <1>7, <2>1, <3>1 DEF GetFromSystem, Inv
  <2> QED BY <2>2, <2>3
<1>8. ASSUME NEW fd \in Fds, Delete(fd) PROVE Inv'
  <2>1. CacheInv(area')
    BY <1>1, <1>8, Deleted DEF Delete
  <2>2. result' \in BOOLEAN
    BY <1>8 DEF Delete
  <2> QED BY <2>1, <2>2 DEF Inv
<1>9. CASE Renew
  BY <1>9, Empty DEF Renew, Inv
<1>10. CASE UNCHANGED vars
  BY <1>10 DEF vars, Inv
<1> QED BY <1>4, <1>5, <1>6, <1>7, <1>8, <1>9, <1>10 DEF Next

(* The invariant holds in every reachable state. *)
LEMMA Invariance == Spec => []Inv
BY InitInv, NextInv, PTL DEF Spec

(* The types and the ranges of the two counters: fd_count never goes below *)
(* zero nor above the number of nodes, hot_count never above the array     *)
(* (fd_cache.c:298-415, 452-573).                                          *)
THEOREM FdTypeCorrect == Spec => []TypeOK
<1>1. Inv => TypeOK
  <2> SUFFICES ASSUME Inv PROVE TypeOK
    OBVIOUS
  <2>1. Shape(area) /\ Cardinality(Has(area)) = area.fd_count
    BY DEF Inv, CacheInv
  <2>2. Has(area) \subseteq Records
    BY DEF Has
  <2>3. area.fd_count \in 0 .. Cardinality(Records)
    <3>1. Cardinality(Has(area)) =< Cardinality(Records) /\ Cardinality(Records) \in Nat
      BY <2>2, FS_Subset, FS_CardinalityType
    <3> QED BY <2>1, <3>1 DEF Shape
  <2> QED BY <2>1, <2>3 DEF Inv, Shape, TypeOK, OrNull, Links
<1> QED BY <1>1, Invariance, PTL

(* The array stays sorted through every shift, its records are on the list *)
(* and each knows its slot (fd_cache.c:298-415, 502-573).                  *)
THEOREM ArraySorted == Spec => []HotSorted
<1>1. Inv => HotSorted
  <2> SUFFICES ASSUME Inv PROVE HotSorted
    OBVIOUS
  <2>1. PICK n \in 0 .. HotSize : n = area.hot_count
    BY DEF Inv, CacheInv, Cells
  <2>2. Hot \subseteq OnList(area)
    BY ListedIs DEF Inv, CacheInv, Hot, HotOf, Filled
  <2>3. \A i \in 0 .. area.hot_count - 1 : area.hot_index[area.hot_fd_cache[i]] = i
    BY DEF Inv, CacheInv, Cells
  <2>4. ASSUME NEW i \in 1 .. n - 1 PROVE HotFd(area, i - 1) =< HotFd(area, i)
    <3>1. i - 1 \in 0 .. n - 1 /\ i \in 0 .. n - 1 /\ i - 1 < i
      BY <2>1
    <3> QED BY <2>1, <3>1 DEF Inv, CacheInv, Cells, HotFd
  <2> QED BY <2>1, <2>2, <2>3, <2>4 DEF HotSorted
<1> QED BY <1>1, Invariance, PTL

(* The ring leads through exactly the records of the array, both ways, so  *)
(* that an eviction takes one of them (fd_cache.c:309-323, 386-399).       *)
THEOREM RingOfHot == Spec => []RingIsHot
<1>1. Inv => RingIsHot
  BY DEF Inv, CacheInv, Ring, RingIsHot, Hot, HotOf, Filled
<1> QED BY <1>1, Invariance, PTL

(* No node is lost from the list or counted wrongly, and prev is the way   *)
(* back (fd_cache.c:452-466, 502-573).                                     *)
THEOREM ListKept == Spec => []ListWellFormed
<1>1. Inv => ListWellFormed
  <2> SUFFICES ASSUME Inv PROVE ListWellFormed
    OBVIOUS
  <2>1. Allocated = Has(area)
    BY DEF Allocated, Has
  <2> QED BY <2>1, ListedIs DEF Inv, CacheInv, List, ListWellFormed
<1> QED BY <1>1, Invariance, PTL

-----------------------------------------------------------------------------
(* The map that FdCache implements.                                        *)

MapInv == Inv /\ Queued(area)

(* What FdMap reads of the map and the queue. *)
LEMMA MapReads ==
  ASSUME MapInv, NEW fd \in Fds
  PROVE  /\ Map!Recorded(RecordsOf(area)[fd]) = {p \in Paths : RecordsOf(area)[fd][p] > 0}
         /\ Map!Positions(fd) = {i \in 1 .. Len(RecentFds(area)) : RecentFds(area)[i] = fd}
         /\ Map!Positions(fd) = {} <=> HotIndex(area, fd) = -1
         /\ Map!Recorded(RecordsOf(area)[fd]) = {} <=> NoneFor(area, fd)
         /\ Map!Enter(fd) = Front(RecentFds(area), fd)
<1>1. fd \in Nat
  OBVIOUS
<1>2. Map!Recorded(RecordsOf(area)[fd]) = {p \in Paths : RecordsOf(area)[fd][p] > 0}
  BY DEF Map!Recorded
<1>3. Map!Positions(fd) = {i \in 1 .. Len(RecentFds(area)) : RecentFds(area)[i] = fd}
  BY DEF Map!Positions
<1>4. PICK q : Ordered(area, q)
  BY DEF MapInv, Queued
<1>5. CacheInv(area)
  BY DEF MapInv, Inv
<1>6. {i \in 1 .. Len(RecentFds(area)) : RecentFds(area)[i] = fd} = {}
        <=> HotIndex(area, fd) = -1
  BY <1>1, <1>4, <1>5, PositionsAre
<1>7. \A p \in Paths : RecordsOf(area)[fd][p] \in Nat
  BY BagIs
<1>8. {p \in Paths : RecordsOf(area)[fd][p] > 0} = {} <=> NoneFor(area, fd)
  <2>1. \A p \in Paths : RecordsOf(area)[fd][p] > 0 <=> RecordsOf(area)[fd][p] # 0
    BY <1>7
  <2> QED BY <2>1 DEF NoneFor
<1>9. Map!Enter(fd) = Front(RecentFds(area), fd)
  BY DEF Map!Enter, Front
<1> QED BY <1>2, <1>3, <1>6, <1>8, <1>9

(* The two ways the map changes. *)
Gains(s, t, fd, path) == RecordsOf(t) = [RecordsOf(s) EXCEPT ![fd] = Map!With(@, path)]
Loses(s, t, fd, path) == RecordsOf(t) = [RecordsOf(s) EXCEPT ![fd] = Map!Without(@, path)]

LEMMA WithIs ==
  ASSUME NEW s, NEW t, NEW fd \in Fds, NEW path \in Paths,
         Counts(s, t, fd, path, RecordsOf(s)[fd][path] + 1)
  PROVE  Gains(s, t, fd, path)
<1>1. PICK a : a = RecordsOf(s)
  OBVIOUS
<1>2. RecordsOf(t) = [a EXCEPT ![fd] = [@ EXCEPT ![path] = a[fd][path] + 1]]
  BY <1>1 DEF Counts
<1>3. RecordsOf(t) = [a EXCEPT ![fd] = Map!With(@, path)]
  BY <1>2 DEF Map!With
<1> QED BY <1>1, <1>3 DEF Gains

LEMMA WithoutIs ==
  ASSUME NEW s, NEW t, NEW fd \in Fds, NEW path \in Paths,
         Counts(s, t, fd, path, RecordsOf(s)[fd][path] - 1)
  PROVE  Loses(s, t, fd, path)
<1>1. PICK a : a = RecordsOf(s)
  OBVIOUS
<1>2. RecordsOf(t) = [a EXCEPT ![fd] = [@ EXCEPT ![path] = a[fd][path] - 1]]
  BY <1>1 DEF Counts
<1>3. RecordsOf(t) = [a EXCEPT ![fd] = Map!Without(@, path)]
  BY <1>2 DEF Map!Without
<1> QED BY <1>1, <1>3 DEF Loses

(* An insertion, as FdMap sees it. *)
LEMMA NewRecord ==
  ASSUME MapInv, NEW r \in Records \ OnList(area), NEW fd \in Fds, NEW path \in Paths,
         area' = InsertIntoCache(area, r, fd, path)
  PROVE  /\ Queued(area')
         /\ Gains(area, area', fd, path)
         /\ RecentFds(area') = Map!Enter(fd)
<1>1. CacheInv(area) /\ Queued(area) /\ r \notin Has(area)
  BY ListedIs DEF MapInv, Inv
<1>2. PICK t : t = InsertIntoCache(area, r, fd, path)
  OBVIOUS
<1>3. /\ Queued(t) /\ Counts(area, t, fd, path, RecordsOf(area)[fd][path] + 1)
      /\ RecentFds(t) = Front(RecentFds(area), fd)
  BY <1>1, <1>2, InsertedIs
<1>4. Gains(area, t, fd, path)
  BY <1>3, WithIs
<1>5. RecentFds(t) = Map!Enter(fd)
  BY <1>3, MapReads
<1> QED BY <1>2, <1>3, <1>4, <1>5

(* A record is one of those its descriptor has in the map. *)
LEMMA NameRecorded ==
  ASSUME MapInv, NEW r \in Has(area), NEW fd \in Fds, area.fd[r] = fd
  PROVE  area.filename[r] \in Map!Recorded(RecordsOf(area)[fd])
<1>1. r \in Records /\ area.filename[r] \in Paths
  BY DEF MapInv, Inv, CacheInv, Shape, Has
<1>2. PICK path \in Paths : path = area.filename[r]
  BY <1>1
<1>3. r \in RecordsFor(area, fd, path)
  BY <1>1, <1>2 DEF RecordsFor
<1>4. RecordsOf(area)[fd][path] > 0
  BY <1>3, BagIs
<1> QED BY <1>2, <1>4, MapReads

(* Each action as a step of FdMap. *)
LEMMA InsertMaps ==
  ASSUME MapInv, NEW open \in Opened, Insert(open[1], open[2])
  PROVE  Queued(area') /\ Map!Next
<1>1. open[1] \in Fds /\ open[2] \in Paths
  OBVIOUS
<1>2. PICK r \in Records \ OnList(area) : area' = InsertIntoCache(area, r, open[1], open[2])
  BY DEF Insert
<1>3. /\ Queued(area')
      /\ Gains(area, area', open[1], open[2])
      /\ RecentFds(area') = Map!Enter(open[1])
  BY <1>1, <1>2, NewRecord
<1>4. result' = result
  BY DEF Insert
<1>5. Map!Insert(open[1], open[2])
  BY <1>3, <1>4 DEF Map!Insert, Gains
<1> QED BY <1>1, <1>3, <1>5 DEF Map!Next

LEMMA GetHotMaps ==
  ASSUME MapInv, NEW fd \in Fds, GetHot(fd)
  PROVE  Queued(area') /\ Map!Next
<1>1. CacheInv(area) /\ SortedArray(area) /\ fd \in Nat
  BY Sorted DEF MapInv, Inv, CacheInv
<1>2. PICK i : i = HotIndex(area, fd)
  OBVIOUS
<1>3. i # -1 /\ result' = area.filename[area.hot_fd_cache[i]] /\ area' = area
  BY <1>2 DEF GetHot
<1>4. i \in 0 .. area.hot_count - 1 /\ HotFd(area, i) = fd
  BY <1>1, <1>2, <1>3, HotIndexIs
<1>5. PICK r : r = area.hot_fd_cache[i]
  OBVIOUS
<1>6. r \in Has(area) /\ area.fd[r] = fd
  BY <1>1, <1>4, <1>5 DEF CacheInv, HotOf, Filled, HotFd
<1>7. result' \in Map!Recorded(RecordsOf(area)[fd])
  BY <1>3, <1>5, <1>6, NameRecorded
<1>8. Map!Positions(fd) # {}
  BY <1>2, <1>3, MapReads
<1>9. RecordsOf(area') = RecordsOf(area) /\ RecentFds(area') = RecentFds(area)
  BY <1>3
<1>10. Map!GetKnown(fd)
  BY <1>7, <1>8, <1>9 DEF Map!GetKnown
<1> QED BY <1>3, <1>10 DEF Map!Next, MapInv

LEMMA GetListedMaps ==
  ASSUME MapInv, NEW fd \in Fds, GetListed(fd)
  PROVE  Queued(area') /\ Map!Next
<1>1. CacheInv(area) /\ Queued(area) /\ fd \in Nat
  BY DEF MapInv, Inv
<1>2. PICK r : r = InLink(area, fd)
  OBVIOUS
<1>3. /\ HotIndex(area, fd) = -1 /\ r # Null
      /\ area' = InsertIntoHotCache(area, r) /\ result' = area.filename[r]
  BY <1>2 DEF GetListed
<1>4. r \in Has(area) /\ area.fd[r] = fd
  BY <1>1, <1>2, <1>3, InLinkIs
<1>5. r \notin HotOf(area)
  BY <1>1, <1>3, <1>4, NotHot
<1>6. PICK t : t = InsertIntoHotCache(area, r)
  OBVIOUS
<1>7. /\ Queued(t) /\ RecordsOf(t) = RecordsOf(area)
      /\ RecentFds(t) = Front(RecentFds(area), area.fd[r])
  BY <1>1, <1>4, <1>5, <1>6, HotAgainIs
<1>8. result' \in Map!Recorded(RecordsOf(area)[fd])
  BY <1>3, <1>4, NameRecorded
<1>9. Map!Positions(fd) = {} /\ RecentFds(t) = Map!Enter(fd)
  BY <1>3, <1>4, <1>7, MapReads
<1>10. Map!GetKnown(fd)
  BY <1>3, <1>6, <1>7, <1>8, <1>9 DEF Map!GetKnown
<1> QED BY <1>3, <1>6, <1>7, <1>10 DEF Map!Next

LEMMA GetFromSystemMaps ==
  ASSUME MapInv, NEW open \in Opened \cup (Fds \X {NoPath}), GetFromSystem(open[1], open[2])
  PROVE  Queued(area') /\ Map!Next
<1>1. open[1] \in Fds /\ open[2] \in Paths \cup {NoPath}
  OBVIOUS
<1>2. PICK fd \in Fds, path \in Paths \cup {NoPath} : fd = open[1] /\ path = open[2]
  BY <1>1
<1>3. HotIndex(area, fd) = -1 /\ InLink(area, fd) = Null /\ result' = path
  BY <1>2 DEF GetFromSystem
<1>4. Map!Recorded(RecordsOf(area)[fd]) = {}
  <2>1. CacheInv(area) /\ Shape(area)
    BY DEF MapInv, Inv, CacheInv
  <2>2. \A r \in Has(area) : area.fd[r] # fd
    <3>1. Null \notin Has(area)
      BY DEF Has
    <3> QED BY <1>3, <2>1, <3>1, InLinkIs
  <2>3. NoneFor(area, fd)
    BY <2>1, <2>2, NoneIs
  <2> QED BY <2>3, MapReads
<1>5. CASE path = NoPath
  <2>1. area' = area
    BY <1>2, <1>5 DEF GetFromSystem
  <2>2. Map!GetUnknown(fd, path)
    BY <1>3, <1>4, <1>5, <2>1 DEF Map!GetUnknown
  <2> QED BY <2>1, <2>2 DEF MapInv, Map!Next
<1>6. CASE path # NoPath
  <2>1. PICK r \in Records \ OnList(area) : area' = InsertIntoCache(area, r, fd, path)
    BY <1>2, <1>6 DEF GetFromSystem
  <2>2. /\ Queued(area')
        /\ Gains(area, area', fd, path)
        /\ RecentFds(area') = Map!Enter(fd)
    BY <1>6, <2>1, NewRecord
  <2>3. Map!GetUnknown(fd, path)
    BY <1>3, <1>4, <1>6, <2>2 DEF Map!GetUnknown, Gains
  <2> QED BY <2>2, <2>3 DEF Map!Next
<1> QED BY <1>5, <1>6

LEMMA DeleteMaps ==
  ASSUME MapInv, NEW fd \in Fds, Delete(fd)
  PROVE  Queued(area') /\ Map!Next
<1>1. CacheInv(area) /\ Queued(area)
  BY DEF MapInv, Inv
<1>2. /\ area' = DeleteFromRecord(area, fd)
      /\ result' = (HotIndex(area, fd) # -1 \/ InLink(area, fd) # Null)
  BY DEF Delete
<1>3. PICK t : t = DeleteFromRecord(area, fd)
  OBVIOUS
<1>4. /\ Queued(t)
      /\ \/ t = area /\ NoneFor(area, fd) /\ HotIndex(area, fd) = -1 /\ InLink(area, fd) = Null
         \/ \E path \in Paths : OneLess(area, t, fd, path)
  BY <1>1, <1>3, DeletedIs
<1>5. CASE t = area /\ NoneFor(area, fd) /\ HotIndex(area, fd) = -1 /\ InLink(area, fd) = Null
  <2>1. Map!Recorded(RecordsOf(area)[fd]) = {} /\ Map!Positions(fd) = {}
    BY <1>5, MapReads
  <2>2. result' = FALSE /\ area' = area
    BY <1>2, <1>3, <1>5
  <2>3. Map!Delete(fd)
    BY <2>1, <2>2 DEF Map!Delete
  <2> QED BY <1>3, <1>2, <1>4, <2>3 DEF Map!Next
<1>6. ASSUME NEW path \in Paths, OneLess(area, t, fd, path) PROVE Map!Delete(fd)
  <2>1. path \in Map!Recorded(RecordsOf(area)[fd])
    BY <1>6, MapReads DEF OneLess
  <2>4. Loses(area, t, fd, path)
    BY <1>6, WithoutIs DEF OneLess
  <2>2. result' = TRUE
    <3>1. ~NoneFor(area, fd)
      BY <2>1, MapReads
    <3>2. ~(\A r \in Has(area) : area.fd[r] # fd)
      BY <1>1, <3>1, NoneIs DEF CacheInv
    <3>3. InLink(area, fd) \in Has(area)
      BY <1>1, <3>2, InLinkIs
    <3>4. Null \notin Has(area)
      BY DEF Has
    <3> QED BY <1>2, <3>3, <3>4
  <2>3. IF Map!Positions(fd) = {} THEN RecentFds(t) = RecentFds(area)
        ELSE \E i \in Map!Positions(fd) : RecentFds(t) = Cut(RecentFds(area), i)
    BY <1>6, MapReads DEF OneLess
  <2> QED BY <1>2, <1>3, <2>1, <2>2, <2>3, <2>4 DEF Map!Delete, Cut, Loses
<1> QED BY <1>2, <1>3, <1>4, <1>5, <1>6 DEF Map!Next

LEMMA EmptyMap == RecordsOf(EmptyArea) = [fd \in Fds |-> Map!NoRecords]
<1>1. PICK s : s = EmptyArea
  OBVIOUS
<1>2. \A r \in Records : s.filename[r] = NoPath
  BY <1>1 DEF EmptyArea
<1>3. \A fd \in Fds, p \in Paths : {r \in Records : s.fd[r] = fd /\ s.filename[r] = p} = {}
  BY <1>2
<1>4. \A fd \in Fds, p \in Paths :
        Cardinality({r \in Records : s.fd[r] = fd /\ s.filename[r] = p}) = 0
  BY <1>3, FS_EmptySet
<1>5. RecordsOf(s) = [fd \in Fds |-> [p \in Paths |-> 0]]
  BY <1>4 DEF RecordsOf
<1> QED BY <1>1, <1>5 DEF Map!NoRecords

LEMMA StepMaps ==
  ASSUME MapInv, Inv', [Next]_vars
  PROVE  MapInv' /\ [Map!Next]_(Map!vars)
<1>1. CASE Renew
  <2>1. area' = EmptyArea /\ result' = result
    BY <1>1 DEF Renew
  <2>2. Queued(area') /\ RecentFds(area') = <<>>
    BY <2>1, QueueEmpty
  <2>3. RecordsOf(area') = [fd \in Fds |-> Map!NoRecords]
    BY <2>1, EmptyMap
  <2>4. Map!Clear
    BY <2>1, <2>2, <2>3 DEF Map!Clear
  <2> QED BY <2>2, <2>4 DEF Map!Next, MapInv
<1>2. CASE UNCHANGED vars
  BY <1>2 DEF vars, MapInv, Map!vars
<1> QED BY <1>1, <1>2, InsertMaps, GetHotMaps, GetListedMaps, GetFromSystemMaps, DeleteMaps
        DEF Next, MapInv

LEMMA MapInit == Init => MapInv /\ Map!Init
<1> SUFFICES ASSUME Init PROVE MapInv /\ Map!Init
  OBVIOUS
<1>1. area = EmptyArea /\ result = NoPath
  BY DEF Init
<1>2. Queued(area) /\ RecentFds(area) = <<>>
  BY <1>1, QueueEmpty
<1>3. RecordsOf(area) = [fd \in Fds |-> Map!NoRecords]
  BY <1>1, EmptyMap
<1> QED BY <1>1, <1>2, <1>3, InitInv DEF MapInv, Map!Init

(* The list, the array and the ring together behave as a map from          *)
(* descriptors to the paths recorded for them, with a first-in first-out   *)
(* queue of the hot ones: what is inserted is found until it is deleted,   *)
(* evicted or not, and nothing else is (fd_cache.c:141-198, 302-747).      *)
THEOREM MapImplemented == Spec => ImplementsMap
<1>1. MapInv /\ [Next]_vars => MapInv' /\ [Map!Next]_(Map!vars)
  BY NextInv, StepMaps DEF MapInv
<1> QED BY <1>1, MapInit, PTL DEF Spec, ImplementsMap, Map!Spec
=============================================================================
