SPECIFICATION Spec
CONSTANTS
  Ops = {o1, o2}
  NoOp = NoOp
  o1 = o1
  o2 = o2
  Images = {"a", "b"}
  Nothing = Nothing
  Platform = "windows"
  MaxObjects = 7
  MaxForeign = 1
  MaxPowerLoss = 0
INVARIANTS FilesAreKept
PROPERTIES EveryCallReturns

\* Every call is made once: when all have returned the system stops.
CHECK_DEADLOCK FALSE
