--------------------------- MODULE MCPaneReplication ---------------------------
(* An editor and a preview pop-out beside the main window. *)
EXTENDS PaneReplication

CONSTANTS editor, preview

OneEditor  == {editor}
OnePreview == {preview}
=============================================================================
