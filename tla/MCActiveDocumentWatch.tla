----------------------- MODULE MCActiveDocumentWatch -----------------------
(* Instances of ActiveDocumentWatch for TLC.                                 *)
EXTENDS ActiveDocumentWatch, TLC

CONSTANTS p1, p2, t1, t2

Allow(foreign, saves, other) ==
  [foreign |-> foreign, saves |-> saves, other |-> other, polls |-> 1]

BudgetsAll == {Allow(2, 1, 1), Allow(2, 2, 0), Allow(3, 0, 0)}

Symmetry == Permutations({t1, t2}) \cup Permutations({p1, p2})
=============================================================================
