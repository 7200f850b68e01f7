SPECIFICATION Spec
CONSTANTS
  p1 = p1
  p2 = p2
  t1 = t1
  t2 = t2
  Paths = {p1, p2}
  Texts = {t1, t2}
  Missing = Missing
  Refusal = Refusal
  Nobody = Nobody
  Budgets <- BudgetsAll
SYMMETRY Symmetry
INVARIANTS TypeOK WatchKeepsUp
PROPERTIES EventsAreSound
CHECK_DEADLOCK FALSE
