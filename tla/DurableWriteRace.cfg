SPECIFICATION Spec
CONSTANTS
  Ops = {o1}
  NoOp = NoOp
  o1 = o1
  Images = {"a", "b"}
  Nothing = Nothing
  Platform = "unix"
  MaxObjects = 8
  MaxForeign = 3
  MaxPowerLoss = 1
INVARIANTS TypeOK NoDocumentLost DeniedIsUntouched ConfirmedIsDurable CallsAreExact
PROPERTIES ImplementsContract

\* Every call is made once: when all have returned the system stops.
CHECK_DEADLOCK FALSE
