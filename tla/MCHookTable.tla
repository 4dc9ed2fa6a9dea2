----------------------------- MODULE MCHookTable -----------------------------
(* HookTable for TLC: words of 4096 values, the functions and wrappers of  *)
(* each call close together, wrappers first, as the source has them.       *)
EXTENDS HookTable

Position == [a \in Apis |-> CHOOSE i \in 1 .. Len(HookOrder) : HookOrder[i] = a]

KernelPlaces  == [a \in Apis |-> 64 * Position[a] + 32]
WrapperPlaces == [a \in Wrappable |-> 64 * Position[a] + (IF a = "fork" THEN 4 ELSE 12)]
FakePlaces    == [a \in Apis |-> 2048 + 64 * Position[a] + 36]
CopyPlaces    == [a \in Wrappable |-> 2048 + 64 * Position[a] + (IF a = "fork" THEN 4 ELSE 16)]

(* The hypothesis of the theorems about HookTable in LifeProofs. *)
ASSUME LayoutHolds == Layout

(* Each call once with a wrapper and once without. *)
SomeKernels == {Wrappable \ {"fork"}, {"fork"}}
BareVfork   == {{"fork"}}
=============================================================================
