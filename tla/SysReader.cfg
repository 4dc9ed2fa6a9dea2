CONSTANTS
  Writers = {w1, w2}
  Readers = {r1}
  NoPid = NoPid
  BufSize = 6
  RecordSizes = {3, 4, 5}
  ReadCounts = {}
  Interruptible = {"write", "open", "release"}
  CopyFaults = FALSE
  MaxAccepted = 10
  HeaderSize = 2
  KillPoints = {"header"}
SPECIFICATION RFairSpec
INVARIANTS LogsRecords
PROPERTIES EveryRecordLogged
