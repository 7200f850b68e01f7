SPECIFICATION FairSpec
CONSTANTS
  editor = editor
  preview = preview
  Editors <- OneEditor
  Previews = {}
  Kinds = {"text"}
  OpenOutcomes = {"committed"}
  MaxDocs = 2
  MaxEdits = 2
  MaxSaveAs = 0
  MaxMessages = 2
  MaxLaunches = 2
  MaxAuthorities = 1
  MaxLosses = 0
CHECK_DEADLOCK FALSE
INVARIANTS QuietReplicasShowMain EditorIsHeard
PROPERTIES PopoutsAreServed
