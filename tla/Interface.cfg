CONSTANTS
  Writers = {w1, w2}
  Readers = {r1, r2}
  NoPid = NoPid
  BufSize = 4
  RecordSizes = {2, 3}
  ReadCounts = {1, 3}
  Interruptible = {"write", "open"}
  CopyFaults = TRUE
  MaxAccepted = 6
SPECIFICATION Spec
INVARIANTS TypeOK MutualExclusion RingHoldsStream NeverFull OwnerHasDevice
PROPERTIES HandsOutInOrder ImplementsPipe OwnerKeepsDevice
SYMMETRY Symmetry
