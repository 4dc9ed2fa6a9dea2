------------------------------- MODULE FdCache -------------------------------
(***************************************************************************)
(* driver/fd_cache.c: the file descriptors of one process.  Every record   *)
(* is on a doubly linked list (file_fd_head); the most recently inserted   *)
(* ones are also in hot_fd_cache, an array sorted by descriptor for binary *)
(* search, and on a ring in order of insertion (hot_fd_head) that tells    *)
(* which to evict.  A process record belongs to one task, which runs these *)
(* functions one after another: each is one action.                        *)
(*                                                                         *)
(* s stands for the file fd record area of process.h with the nodes it     *)
(* points to; each function of the source is an operator from s to s.  A   *)
(* deleted node is never freed; as nothing points to it, its name is used  *)
(* again here.  Definitions named Bug... are mistakes the properties must  *)
(* catch.                                                                  *)
(***************************************************************************)
EXTENDS Integers, FiniteSets

CONSTANTS
  Records,        (* names of file_fd_record structures                     *)
  Null,
  Fds,            (* file descriptors                                       *)
  Paths,
  Opened,         (* which paths a descriptor may be opened for             *)
  NoPath,         (* NULL as a path                                         *)
  HotSize         (* HOT_FD_CACHE_SIZE                                      *)

ASSUME CacheAssumption ==
  /\ IsFiniteSet(Records) /\ Null \notin Records
  /\ Fds \subseteq Nat
  /\ Opened \subseteq Fds \X Paths
  /\ NoPath \notin Paths
  /\ HotSize \in Nat /\ HotSize >= 2

VARIABLES
  area,           (* the record area                                        *)
  result          (* of the last get_cache_by_fd or delete_cache_by_fd      *)

vars == <<area, result>>

Slots == 0 .. HotSize - 1

(* fd_cache_initize. *)
EmptyArea ==
  [fd_count     |-> 0,
   hot_count    |-> 0,
   file_fd_head |-> Null,
   hot_fd_head  |-> Null,
   hot_fd_cache |-> [i \in Slots |-> Null],
   prev         |-> [r \in Records |-> Null],
   next         |-> [r \in Records |-> Null],
   time_prev    |-> [r \in Records |-> Null],
   time_next    |-> [r \in Records |-> Null],
   fd           |-> [r \in Records |-> 0],
   hot_index    |-> [r \in Records |-> 0],
   filename     |-> [r \in Records |-> NoPath]]

HotFd(s, i) == s.fd[s.hot_fd_cache[i]]

-----------------------------------------------------------------------------
(* Searching.                                                              *)

(* The part of the array a binary search still has to look at. *)
Windows == (0 .. HotSize) \X (-1 .. HotSize - 1)

(* find_record_in_hot_cache: the index of a record of fd, or -1. *)
HotIndex(s, fd) ==
  LET search[w \in Windows] ==
        LET l == w[1]
            r == w[2]
            m == (l + r) \div 2
        IN  IF l > r THEN -1
            ELSE IF HotFd(s, m) < fd THEN search[<<m + 1, r>>]
            ELSE IF HotFd(s, m) > fd THEN search[<<l, m - 1>>]
            ELSE m
  IN  search[<<0, s.hot_count - 1>>]

(* The nodes met when one follows link from start on: those in every set   *)
(* that start is in and link does not lead out of.                         *)
Along(link, start) ==
  LET closed == {S \in SUBSET Records :
                   /\ start # Null => start \in S
                   /\ \A r \in S : link[r] # Null => link[r] \in S}
  IN  {r \in Records : \A S \in closed : r \in S}

OnList(s) == Along(s.next, s.file_fd_head)

(* find_record_in_link: the first record of fd on the list, from which all *)
(* others of fd can be met, or Null.                                       *)
InLink(s, fd) ==
  LET found == {r \in OnList(s) : s.fd[r] = fd}
  IN  IF found = {} THEN Null
      ELSE CHOOSE r \in found : found \subseteq Along(s.next, r)

(* get_insert_index: the slot whose left fits fd. *)
InsertIndex(s, fd) ==
  LET last == s.hot_count - 1
      search[w \in Windows] ==
        LET l == w[1]
            r == w[2]
            m == (l + r) \div 2
        IN  IF l > r THEN IF s.hot_count = 0 THEN 0 ELSE last
            ELSE IF (m = 0 \/ HotFd(s, m - 1) =< fd) /\ HotFd(s, m) >= fd THEN m
            ELSE IF HotFd(s, m) =< fd /\ (m = last \/ HotFd(s, m + 1) >= fd) THEN m + 1
            ELSE IF HotFd(s, m) < fd THEN search[<<m + 1, r>>]
            ELSE search[<<l, m - 1>>]
  IN  search[<<0, last>>]

-----------------------------------------------------------------------------
(* The hot cache.                                                          *)

(* Takes r out of the ring of the others. *)
RingUnlink(s, r) ==
  LET a == [s EXCEPT !.time_next[s.time_prev[r]] = s.time_next[r]]
  IN  [a EXCEPT !.time_prev[a.time_next[r]] = a.time_prev[r]]

(* Puts r before the head of the ring and makes it the head. *)
RingPush(s, r) ==
  IF s.hot_fd_head = Null
  THEN [s EXCEPT !.time_prev[r] = r, !.time_next[r] = r, !.hot_fd_head = r]
  ELSE LET head == s.hot_fd_head
           last == s.time_prev[head]
           a == [s EXCEPT !.time_prev[r] = last, !.time_next[r] = head]
           b == [a EXCEPT !.time_next[last] = r]
       IN  [b EXCEPT !.time_prev[head] = r, !.hot_fd_head = r]

(* The array becomes cells, and the records in moved learn their index. *)
SetCells(s, cells, moved) ==
  [s EXCEPT !.hot_fd_cache = cells,
            !.hot_index = [r \in Records |->
               IF \E i \in moved : cells[i] = r
               THEN CHOOSE i \in moved : cells[i] = r
               ELSE s.hot_index[r]]]

(* Slot fit where the oldest was left of it: without "fit_index--". *)
BugPlace(s, r, fit, oldest) ==
  LET cells == s.hot_fd_cache
  IN  IF oldest # -1 /\ oldest < fit
      THEN SetCells(s, [i \in Slots |-> IF i = fit THEN r
                                       ELSE IF i \in oldest .. fit - 2 THEN cells[i + 1]
                                       ELSE cells[i]],
                    (oldest .. fit) \cap Slots)
      ELSE LET end == IF oldest = -1 THEN s.hot_count ELSE oldest
           IN  SetCells(s, [i \in Slots |-> IF i = fit THEN r
                                           ELSE IF i \in fit + 1 .. end THEN cells[i - 1]
                                           ELSE cells[i]],
                        fit .. end)

(* Makes room at fit, where the slot of the evicted record (or the one     *)
(* after the last) is filled from, and puts r there.                       *)
Place(s, r, fit, oldest) ==
  LET cells == s.hot_fd_cache
  IN  IF oldest # -1 /\ oldest < fit
      THEN SetCells(s, [i \in Slots |-> IF i = fit - 1 THEN r
                                       ELSE IF i \in oldest .. fit - 2 THEN cells[i + 1]
                                       ELSE cells[i]],
                    oldest .. fit - 1)
      ELSE LET end == IF oldest = -1 THEN s.hot_count ELSE oldest
           IN  SetCells(s, [i \in Slots |-> IF i = fit THEN r
                                           ELSE IF i \in fit + 1 .. end THEN cells[i - 1]
                                           ELSE cells[i]],
                        fit .. end)

(* Every insertion counts, one that evicts too. *)
BugHotCount(s, r) ==
  LET full   == s.hot_count = HotSize
      victim == s.time_prev[s.hot_fd_head]
      oldest == IF full THEN s.hot_index[victim] ELSE -1
      a      == IF full THEN RingUnlink(s, victim) ELSE s
      b      == RingPush(Place(a, r, InsertIndex(a, a.fd[r]), oldest), r)
  IN  [b EXCEPT !.hot_count = @ + 1]

InsertIntoHotCache(s, r) ==
  LET full   == s.hot_count = HotSize
      victim == s.time_prev[s.hot_fd_head]
      oldest == IF full THEN s.hot_index[victim] ELSE -1
      a      == IF full THEN RingUnlink(s, victim) ELSE s
      b      == RingPush(Place(a, r, InsertIndex(a, a.fd[r]), oldest), r)
  IN  [b EXCEPT !.hot_count = IF full THEN @ ELSE @ + 1]

(* The head of the ring stays what it was. *)
BugDeleteFromHotCache(s, r, index) ==
  LET last  == s.hot_count - 1
      cells == [i \in Slots |-> IF i \in index .. last - 1
                               THEN s.hot_fd_cache[i + 1] ELSE s.hot_fd_cache[i]]
      a     == RingUnlink(SetCells(s, cells, index .. last - 1), r)
  IN  [a EXCEPT !.hot_count = last, !.hot_fd_head = IF last = 0 THEN Null ELSE @]

(* The part of delete_from_record for a record found in the hot cache.     *)
DeleteFromHotCache(s, r, index) ==
  LET last  == s.hot_count - 1
      cells == [i \in Slots |-> IF i \in index .. last - 1
                               THEN s.hot_fd_cache[i + 1] ELSE s.hot_fd_cache[i]]
      a     == SetCells(s, cells, index .. last - 1)
      head  == IF r = s.hot_fd_head THEN s.time_next[r] ELSE s.hot_fd_head
  IN  [RingUnlink(a, r) EXCEPT !.hot_count = last,
                               !.hot_fd_head = IF last = 0 THEN Null ELSE head]

-----------------------------------------------------------------------------
(* The list of all records.                                                *)

(* insert_into_link with r as the node allocate_file_fd_record returns.    *)
InsertIntoLink(s, r, fd, path) ==
  LET head == s.file_fd_head
      a == [s EXCEPT !.fd[r] = fd, !.filename[r] = path, !.hot_index[r] = 0,
                     !.prev[r] = Null, !.next[r] = head,
                     !.time_prev[r] = Null, !.time_next[r] = Null]
      b == IF head = Null THEN a ELSE [a EXCEPT !.prev[head] = r]
  IN  [b EXCEPT !.file_fd_head = r, !.fd_count = @ + 1]

(* Without the update of the next record's prev. *)
BugUnlink(s, r) ==
  IF r = s.file_fd_head
  THEN [s EXCEPT !.file_fd_head = s.next[r]]
  ELSE [s EXCEPT !.next[s.prev[r]] = s.next[r]]

Unlink(s, r) ==
  LET after == s.next[r]
  IN  IF r = s.file_fd_head
      THEN LET a == [s EXCEPT !.file_fd_head = after]
           IN  IF after = Null THEN a ELSE [a EXCEPT !.prev[after] = Null]
      ELSE LET a == [s EXCEPT !.next[s.prev[r]] = after]
           IN  IF after = Null THEN a ELSE [a EXCEPT !.prev[after] = s.prev[r]]

(* Nothing reads a deleted node again: its fields are blanked. *)
Forget(s, r) ==
  LET e == EmptyArea
  IN  [s EXCEPT !.prev[r] = e.prev[r], !.next[r] = e.next[r],
                !.time_prev[r] = e.time_prev[r], !.time_next[r] = e.time_next[r],
                !.fd[r] = e.fd[r], !.hot_index[r] = e.hot_index[r],
                !.filename[r] = e.filename[r]]

(* Only the hot cache is asked. *)
BugDeleteFromRecord(s, fd) ==
  LET index == HotIndex(s, fd)
      r     == s.hot_fd_cache[index]
      a     == DeleteFromHotCache(Unlink(s, r), r, index)
  IN  IF index = -1 THEN s ELSE Forget([a EXCEPT !.fd_count = @ - 1], r)

DeleteFromRecord(s, fd) ==
  LET index == HotIndex(s, fd)
      r     == IF index # -1 THEN s.hot_fd_cache[index] ELSE InLink(s, fd)
      a     == Unlink(s, r)
      b     == IF index # -1 THEN DeleteFromHotCache(a, r, index) ELSE a
      c     == [b EXCEPT !.fd_count = @ - 1,
                         !.file_fd_head = IF b.fd_count = 1 THEN Null ELSE @]
  IN  IF r = Null THEN s ELSE Forget(c, r)

-----------------------------------------------------------------------------
(* The actions.                                                            *)

Init ==
  /\ area = EmptyArea
  /\ result = NoPath

InsertIntoCache(s, r, fd, path) ==
  InsertIntoHotCache(InsertIntoLink(s, r, fd, path), r)

(* insert_into_cache, which does not look for a record of fd that is       *)
(* already there.  Without memory it does nothing. *)
Insert(fd, path) ==
  /\ \E r \in Records \ OnList(area) : area' = InsertIntoCache(area, r, fd, path)
  /\ UNCHANGED result

(* get_cache_by_fd for a descriptor in the hot cache, *)
GetHot(fd) ==
  LET index == HotIndex(area, fd)
  IN  /\ index # -1
      /\ result' = area.filename[area.hot_fd_cache[index]]
      /\ UNCHANGED area

(* on the list only, where it becomes hot again, *)
GetListed(fd) ==
  LET r == InLink(area, fd)
  IN  /\ HotIndex(area, fd) = -1 /\ r # Null
      /\ area' = InsertIntoHotCache(area, r)
      /\ result' = area.filename[r]

(* or on neither: get_absolute_path_by_fd asks the kernel, path is its     *)
(* answer.                                                                 *)
GetFromSystem(fd, path) ==
  /\ HotIndex(area, fd) = -1 /\ InLink(area, fd) = Null
  /\ IF path = NoPath
     THEN area' = area
     ELSE \E r \in Records \ OnList(area) : area' = InsertIntoCache(area, r, fd, path)
  /\ result' = path

(* delete_cache_by_fd. *)
Delete(fd) ==
  /\ area' = DeleteFromRecord(area, fd)
  /\ result' = (HotIndex(area, fd) # -1 \/ InLink(area, fd) # Null)

(* fd_cache_cleanup, and fd_cache_initize for the next process. *)
Renew ==
  /\ area' = EmptyArea
  /\ UNCHANGED result

Next ==
  \/ \E open \in Opened : Insert(open[1], open[2])
  \/ \E fd \in Fds : GetHot(fd)
  \/ \E fd \in Fds : GetListed(fd)
  \/ \E open \in Opened \cup (Fds \X {NoPath}) : GetFromSystem(open[1], open[2])
  \/ \E fd \in Fds : Delete(fd)
  \/ Renew

Spec == Init /\ [][Next]_vars

-----------------------------------------------------------------------------
(* Properties.                                                             *)

(* Types, and the ranges of the two counters. *)
TypeOK ==
  /\ area \in
       [fd_count : 0 .. Cardinality(Records), hot_count : 0 .. HotSize,
        file_fd_head : Records \cup {Null}, hot_fd_head : Records \cup {Null},
        hot_fd_cache : [Slots -> Records \cup {Null}],
        prev : [Records -> Records \cup {Null}],
        next : [Records -> Records \cup {Null}],
        time_prev : [Records -> Records \cup {Null}],
        time_next : [Records -> Records \cup {Null}],
        fd : [Records -> Fds \cup {0}], hot_index : [Records -> Slots],
        filename : [Records -> Paths \cup {NoPath}]]
  /\ result \in Paths \cup {NoPath} \cup BOOLEAN

Hot == {area.hot_fd_cache[i] : i \in 0 .. area.hot_count - 1}

(* The array: its first hot_count slots hold distinct records of the list, *)
(* sorted by descriptor, and each record knows its slot.  Binary search    *)
(* and every shift of the array rely on it (the check at fd_cache.c:407    *)
(* and the assertions at 339, 350, 363 and 537).                           *)
HotSorted ==
  /\ Hot \subseteq OnList(area)
  /\ \A i \in 0 .. area.hot_count - 1 : area.hot_index[area.hot_fd_cache[i]] = i
  /\ \A i \in 1 .. area.hot_count - 1 : HotFd(area, i - 1) =< HotFd(area, i)

(* The ring: from hot_fd_head, following time_next, one meets exactly the  *)
(* records of the array and comes back, and time_prev leads the other way; *)
(* so an eviction takes a record that is in the array (fd_cache.c:309-323, *)
(* 386-399, 553-566).                                                      *)
RingIsHot ==
  /\ Along(area.time_next, area.hot_fd_head) = Hot
  /\ \A r \in Hot :
       /\ {area.time_next[r], area.time_prev[r]} \subseteq Hot
       /\ area.time_prev[area.time_next[r]] = r
       /\ area.time_next[area.time_prev[r]] = r

(* The list: from the head one meets the fd_count records that were        *)
(* allocated and not deleted, none lost, the last has no next, and prev    *)
(* leads back to the head (fd_cache.c:452-466, 502-573).                   *)
Allocated == {r \in Records : area.filename[r] # NoPath}

ListWellFormed ==
  /\ OnList(area) = Allocated
  /\ Cardinality(Allocated) = area.fd_count
  /\ area.file_fd_head # Null => area.prev[area.file_fd_head] = Null
  /\ \A r \in Allocated : area.next[r] # Null => area.prev[area.next[r]] = r
  /\ Allocated # {} => \E r \in Allocated : area.next[r] = Null

(* The list, the array and the ring together behave as a map from          *)
(* descriptors to paths with a first-in first-out hot set: what was        *)
(* inserted is found until it is deleted, whether or not it was evicted    *)
(* meanwhile, and nothing else is.  A descriptor recorded twice has two    *)
(* paths, a lookup finds either and a deletion removes one.                *)
RecentFds(s) ==
  LET ring[n \in 0 .. HotSize] ==
        IF n = 0 THEN s.hot_fd_head ELSE s.time_next[ring[n - 1]]
  IN  [n \in 1 .. s.hot_count |-> s.fd[ring[n - 1]]]

RecordsOf(s) ==
  [fd \in Fds |-> [p \in Paths |->
     Cardinality({r \in Records : s.fd[r] = fd /\ s.filename[r] = p})]]

Map == INSTANCE FdMap WITH map <- RecordsOf(area), recent <- RecentFds(area)

ImplementsMap == Map!Spec
=============================================================================
