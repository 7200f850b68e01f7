SPECIFICATION Spec
CONSTANTS
  editor = editor
  preview = preview
  Editors <- OneEditor
  Previews = {}
  Kinds = {"text", "binary"}
  OpenOutcomes = {"committed", "not_committed", "unknown"}
  MaxDocs = 2
  MaxEdits = 1
  MaxSaveAs = 1
  MaxMessages = 2
  MaxLaunches = 2
  MaxAuthorities = 2
  MaxLosses = 1
CHECK_DEADLOCK FALSE
INVARIANTS TypeOK RevisionNamesOneState
PROPERTIES EditsRestOnLiveState
