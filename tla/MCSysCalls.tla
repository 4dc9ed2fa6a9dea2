----------------------------- MODULE MCSysCalls -----------------------------
(* SysCalls for TLC: the paths and the descriptors can be exchanged. *)
EXTENDS SysCalls, TLC

Symmetry == Permutations(Paths) \cup Permutations(Fds)
=============================================================================
