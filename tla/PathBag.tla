------------------------------- MODULE PathBag -------------------------------
(***************************************************************************)
(* What one process has recorded about one descriptor: how many records    *)
(* there are for each path.  Mostly there is one record or none; there are *)
(* more when a descriptor was opened again and its close was not seen.     *)
(***************************************************************************)
EXTENDS Naturals

CONSTANTS Paths

NoRecords == [p \in Paths |-> 0]
Recorded(bag) == {p \in Paths : bag[p] > 0}
With(bag, path) == [bag EXCEPT ![path] = @ + 1]
Without(bag, path) == [bag EXCEPT ![path] = @ - 1]
=============================================================================
