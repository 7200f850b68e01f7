SPECIFICATION Spec
CONSTANTS
  editor = editor
  preview = preview
  Editors <- OneEditor
  Previews <- OnePreview
  Kinds = {"text"}
  OpenOutcomes = {"committed", "unknown"}
  MaxDocs = 2
  MaxEdits = 2
  MaxSaveAs = 0
  MaxMessages = 2
  MaxLaunches = 2
  MaxAuthorities = 1
  MaxLosses = 0
CHECK_DEADLOCK FALSE
INVARIANTS TextStaysInItsDocument
