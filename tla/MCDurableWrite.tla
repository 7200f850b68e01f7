---------------------------- MODULE MCDurableWrite ----------------------------
(* Small instances of DurableWrite for TLC: the runs dw_race and           *)
(* dw_windows differ in their cfg only.                                    *)
EXTENDS DurableWrite

(* A confirmed call did exactly what was asked, no call destroys a version   *)
(* that nobody expected, and until a commit is confirmed the caller's bytes  *)
(* are in the recovery image (durable_write, durable_remove_exact).          *)
CallsAreExact == OnlyExpectedDestroyed /\ ConfirmedIsExact /\ IntendedRetained

(* The same of the Windows primitives, whose replacement fails by halves.    *)
FilesAreKept == NoDocumentLost /\ ConfirmedIsExact
===============================================================================
