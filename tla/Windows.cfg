SPECIFICATION WindowsSpec
CONSTANTS
  Paths = {f1, f2}
  Texts = {t1, t2, blank}
  Blank = blank
  None = None
  MaxTokens = 1
  MaxEdits = 1
  MaxClicks = 2
  MaxFaults = 1
  MaxForeign = 1
  MaxGrants = 1
SYMMETRY Sym
INVARIANTS WindowsTypeOK SavesRestOnSeen ReservationsAreHeld WindowsAgree
PROPERTIES UpdatesRestOnSeen
CHECK_DEADLOCK FALSE
