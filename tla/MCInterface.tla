----------------------------- MODULE MCInterface -----------------------------
(* Instances of Interface for TLC.  The tasks of a kind are                *)
(* interchangeable in the safety properties.                               *)
EXTENDS Interface, TLC

Symmetry == Permutations(Writers) \cup Permutations(Readers)
=============================================================================
