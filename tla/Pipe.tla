-------------------------------- MODULE Pipe --------------------------------
(***************************************************************************)
(* What the log device of driver/interface.c promises: a bounded FIFO of   *)
(* bytes.  Bytes are numbered in the order in which the device accepted    *)
(* them; those not taken out yet are head .. tail - 1.                     *)
(***************************************************************************)
EXTENDS Integers

CONSTANTS
  Capacity,       (* the device never holds this many bytes                 *)
  MayRepeat       (* whether a reader may be handed bytes that stay inside  *)

VARIABLES
  head,           (* number of the oldest byte inside                       *)
  tail,           (* number the next accepted byte will have                *)
  next            (* number after the last byte handed out                  *)

vars == <<head, tail, next>>

Init == head = 0 /\ tail = 0 /\ next = 0

(* A record of n bytes is accepted as a whole. *)
Push(n) ==
  /\ tail + n - head < Capacity
  /\ tail' = tail + n
  /\ UNCHANGED <<head, next>>

(* A reader is handed the n oldest bytes, which leave ... *)
Pop(n) ==
  /\ head + n =< tail
  /\ head' = head + n
  /\ next' = head + n
  /\ UNCHANGED tail

(* ... or, when its buffer faults in the middle, stay. *)
Peek(n) ==
  /\ MayRepeat
  /\ head + n =< tail
  /\ next' = head + n
  /\ UNCHANGED <<head, tail>>

Next == \E n \in 1 .. Capacity - 1 : Push(n) \/ Pop(n) \/ Peek(n)

Spec == Init /\ [][Next]_vars
=============================================================================
