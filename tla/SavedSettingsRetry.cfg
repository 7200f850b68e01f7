SPECIFICATION Spec
CONSTANTS
  Windows = {main, pop}
  Main = main
  Values = {default, other}
  Default = default
  Invalid = invalid
  None = None
  MaxTrouble = 0
  MaxOps = 2
PROPERTIES RetriesEndRecovery
CHECK_DEADLOCK FALSE
