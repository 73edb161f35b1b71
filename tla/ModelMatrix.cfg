SPECIFICATION Spec
CONSTANTS
  NoFile = NoFile
  Setups <- AllSetups
INVARIANTS
  TypeOK
  PanelComplete
  PublishedFromSource
  OutcomeMatchesFiles
  ScratchReleased
  WorkersReaped
PROPERTY AttemptsEnd
CHECK_DEADLOCK FALSE
