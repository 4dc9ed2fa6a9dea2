CONSTANTS
  Writers = {w1, w2}
  Readers = {r1}
  NoPid = NoPid
  BufSize = 4
  RecordSizes = {3}
  ReadCounts = {3}
  Interruptible = {"write", "open", "read", "release"}
  CopyFaults = FALSE
  MaxAccepted = 4
SPECIFICATION FairSpec
PROPERTIES CallsReturn
