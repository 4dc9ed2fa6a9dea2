---------------------------- MODULE MCProcessTable ----------------------------
(* ProcessTable for TLC: the names of records can be exchanged, and so can *)
(* the pids whose process stays.                                           *)
EXTENDS ProcessTable, TLC

Symmetry == Permutations(Records) \cup Permutations(Pids \ Changing)
=============================================================================
