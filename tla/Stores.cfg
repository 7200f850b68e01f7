SPECIFICATION StoresSpec
CONSTANTS
\* The components act one at a time and share no state: operations and versions may be the
\* values that windows and files are, which leaves fewer permutations to try.
  f1 = f1
  f2 = f2
  t1 = t1
  o1 = w1
  o2 = w2
  v1 = f1
  v2 = f2
  Documents = {d1}
  Notes = {n1}
  Windows = {w1, w2}
  Roots = {f1, f2}
  None = None
  MaxSites = 1
  MaxOps = 3
  MaxFaults = 2
SYMMETRY Sym
INVARIANTS StoresTypeOK AnswersAreTrue AuthorityIsHeld
PROPERTIES StaleIsRefused NothingIsLost
CHECK_DEADLOCK FALSE
