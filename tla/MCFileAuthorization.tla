------------------------- MODULE MCFileAuthorization -------------------------
(* A workspace w with the directories s and t, and a file f in any.        *)
EXTENDS FileAuthorization

W  == <<"w">>
S  == <<"w", "s">>
T  == <<"w", "t">>
Wf == <<"w", "f">>
Wg == <<"w", "g">>
Sf == <<"w", "s", "f">>
Tf == <<"w", "t", "f">>

Existing(paths, ordered) ==
  [p \in paths |-> IF \E i \in DOMAIN ordered : ordered[i] = p
                   THEN CHOOSE i \in DOMAIN ordered : ordered[i] = p ELSE 0]

\* One directory: a file that may be renamed in place.
FlatDirectories == {W}
FlatFiles       == {Wf, Wg}
FlatMoves       == {<<Wf, Wg>>}
FlatRoots       == {W}
FlatDisk        == Existing({W, Wf, Wg}, <<W, Wf>>)

\* A directory s that may be renamed to t.
MoveDirectories == {W, S, T}
MoveMoves       == {<<S, T>>}

\* A workspace inside the workspace.
NestedRoots == {W, S}

\* The files below either path of it.
PlainFiles == {Sf, Tf}
PlainDisk  == Existing({W, S, T, Sf, Tf}, <<W, S, Sf>>)
==============================================================================
