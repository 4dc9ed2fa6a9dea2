------------------------------ MODULE MCFdCache ------------------------------
(* FdCache for TLC: the names of records can be exchanged.  One descriptor *)
(* may be opened for either of two paths, which shows what happens when it *)
(* is recorded twice.                                                      *)
EXTENDS FdCache, TLC

CONSTANTS A, B

Symmetry == Permutations(Records)
OnePathEach == {<<fd, A>> : fd \in Fds} \cup {<<1, B>>}
=============================================================================
