CONSTANTS
  Tasks = {t1, t2}
  Called = {"read"}
  Interruptible = {}
  MayFail = {}
  PromptEntry = FALSE
  PromptExecve = FALSE
  MaxDrift = 1
  Kernels <- BareVfork
  ImmSize = 16
  Opcodes = 256
  Branch = 234
  KernelAt <- KernelPlaces
  WrapperAt <- WrapperPlaces
  FakeAt <- FakePlaces
  CopyAt <- CopyPlaces
SPECIFICATION HSpec
INVARIANTS ForksDealtWith
