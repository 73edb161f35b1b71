SPECIFICATION Spec
CONSTANTS
  NoFile = NoFile
  Dates <- Range2
  Setups <- AllSetups
INVARIANTS
  TypeOK
  PublishedWhole
  ManifestMatches
 
PROPERTIES
  ResumeKeeps
  LoadsEnd
CHECK_DEADLOCK FALSE
