-------------------------------- MODULE FdMap --------------------------------
(***************************************************************************)
(* What driver/fd_cache.c promises for one process: a map from open file   *)
(* descriptors to the paths recorded for them, and a bounded queue of the  *)
(* descriptors that are found quickly, the one that entered last first.    *)
(* While no descriptor is recorded twice, the map has at most one path for *)
(* each and every answer is determined.                                    *)
(***************************************************************************)
EXTENDS PathBag, Sequences

CONSTANTS Fds, NoPath, HotSize

VARIABLES
  map,            (* the records of each descriptor                         *)
  recent,         (* the descriptors in the hot cache                       *)
  result          (* what the last lookup or deletion returned              *)

vars == <<map, recent, result>>

Positions(fd) == {i \in 1 .. Len(recent) : recent[i] = fd}

(* The one that entered first makes room. *)
Enter(fd) ==
  SubSeq(<<fd>> \o recent, 1, IF Len(recent) < HotSize THEN Len(recent) + 1 ELSE HotSize)

Init ==
  /\ map = [fd \in Fds |-> NoRecords]
  /\ recent = <<>>
  /\ result = NoPath

Insert(fd, path) ==
  /\ UNCHANGED result
  /\ recent' = Enter(fd)
  /\ map' = [map EXCEPT ![fd] = With(@, path)]

(* A lookup does not move a hot descriptor forward; one that was pushed    *)
(* out enters again.                                                       *)
GetKnown(fd) ==
  /\ result' \in Recorded(map[fd])
  /\ recent' = IF Positions(fd) # {} THEN recent ELSE Enter(fd)
  /\ UNCHANGED map

(* What is not in the map is asked for from the kernel, which may not know *)
(* it either.                                                              *)
GetUnknown(fd, path) ==
  /\ Recorded(map[fd]) = {}
  /\ map' = IF path = NoPath THEN map ELSE [map EXCEPT ![fd] = With(@, path)]
  /\ recent' = IF path = NoPath THEN recent ELSE Enter(fd)
  /\ result' = path

(* One record goes, from the hot cache if it is there. *)
Delete(fd) ==
  /\ result' = (Recorded(map[fd]) # {})
  /\ IF Recorded(map[fd]) = {}
     THEN UNCHANGED map
     ELSE \E path \in Recorded(map[fd]) : map' = [map EXCEPT ![fd] = Without(@, path)]
  /\ IF Positions(fd) = {}
     THEN UNCHANGED recent
     ELSE \E i \in Positions(fd) :
            recent' = SubSeq(recent, 1, i - 1) \o SubSeq(recent, i + 1, Len(recent))

Clear ==
  /\ map' = [fd \in Fds |-> NoRecords]
  /\ recent' = <<>>
  /\ UNCHANGED result

Next ==
  \/ \E fd \in Fds, path \in Paths : Insert(fd, path)
  \/ \E fd \in Fds : GetKnown(fd)
  \/ \E fd \in Fds, path \in Paths \cup {NoPath} : GetUnknown(fd, path)
  \/ \E fd \in Fds : Delete(fd)
  \/ Clear

Spec == Init /\ [][Next]_vars
=============================================================================
