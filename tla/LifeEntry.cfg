CONSTANTS
  Tasks = {t1, t2}
  Called = {"read"}
  Interruptible = {}
  MayFail = {}
  PromptEntry = FALSE
  PromptExecve = TRUE
  MaxDrift = 1
SPECIFICATION Spec
INVARIANTS UnloadSafe
