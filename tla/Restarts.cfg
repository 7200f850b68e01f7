SPECIFICATION RestartsSpec
CONSTANTS
  d1 = d1
  d2 = d2
  d3 = d3
  Roots = {r1, r2}
  Names = {n}
  None = None
  MaxShows = 4
  MaxRuns = 2
  MaxTrouble = 1
INVARIANTS RestartsTypeOK DraftsAreKept RequestsAreKept CloseKeepsSession
PROPERTIES RemovalsAreJustified RestoreEnds UnsettledKeepsSession
CHECK_DEADLOCK FALSE
