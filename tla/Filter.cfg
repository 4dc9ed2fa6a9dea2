CONSTANTS
  Columns = {"process", "path"}
  Values <- Strings
  RuleValues <- RuleStrings
  Fallback <- Unnamed
  Gone = Gone
  MaxRules = 2
  MaxNames = 2
SPECIFICATION Spec
INVARIANTS TypeOK ShownAsWanted OperatorsAgree
