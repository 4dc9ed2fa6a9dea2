CONSTANTS
  Writers = {w1, w2}
  Readers = {r1}
  NoPid = NoPid
  BufSize = 4
  RecordSizes = {2}
  ReadCounts = {1}
  Interruptible = {"read"}
  CopyFaults = FALSE
  MaxAccepted = 8
SPECIFICATION Spec
INVARIANTS NeverFull
