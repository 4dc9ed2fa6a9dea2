CONSTANTS
  Tasks = {t1, t2}
  Called = {"read", "execve"}
  Interruptible = {"enter", "leave", "wait"}
  MayFail = {"table", "log", "chrdev", "process", "device", "cdev", "buffer"}
  PromptEntry = TRUE
  PromptExecve = TRUE
  MaxDrift = 1
  Kernels <- SomeKernels
  ImmSize = 16
  Opcodes = 256
  Branch = 234
  KernelAt <- KernelPlaces
  WrapperAt <- WrapperPlaces
  FakeAt <- FakePlaces
  CopyAt <- CopyPlaces
SPECIFICATION FairHSpec
INVARIANTS TypeOK HooksHaveParts NothingLeft UnloadSafe RefCountsCalls ServedByOwn AllMonitored HookedIsTable
PROPERTIES UnloadEnds
