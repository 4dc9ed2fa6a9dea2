CONSTANTS
  Null = Null
  Apis = {"open", "creat", "read", "write", "ioctl", "close", "execve", "exit", "fork", "vfork", "clone"}
  PathLengths <- PathSizes
  ParamLengths <- ParamSizes
  HeaderSize = 40
  ItemSize = 56
  RECORD_MAX_SIZE = 1024
  MaxLost = 2
SPECIFICATION Spec
INVARIANTS TypeOK StringsAccounted DetailsFit LongestPrefix
