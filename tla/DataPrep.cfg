SPECIFICATION Spec
CONSTANTS
  Names = {"p", "q"}
  Values = {1, 2, 3}
  Top = 5
  Score <- MCScore
  MCInvalid = MCInvalid
  MCCrash = MCCrash
  Invalid = MCInvalid
  Crash = MCCrash
  Setups <- MCSetups
  NoRun = NoRun
  NoManifest = NoManifest
INVARIANTS TypeOK SameAnswer NeverForgets ManifestHonest ArtifactMatches
CHECK_DEADLOCK FALSE
