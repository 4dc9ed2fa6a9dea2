------------------------------ MODULE MCCallLog ------------------------------
(* CallLog for TLC, with the sizes of the 32-bit build and paths around the *)
(* lengths that leave one parameter, or nothing, of room for the details;   *)
(* the longest is too long for RECORD_MAX_SIZE by itself.                   *)
EXTENDS CallLog

PathSizes == {20, 900, 929, 952, 967, 990}
ParamSizes == {15, 40}
=============================================================================
