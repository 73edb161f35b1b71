SPECIFICATION Spec
CONSTANTS
  h1 = h1
  h2 = h2
  RunIds = {r1, r2, r3}
  Roles = {role}
  Hashes = {h1, h2}
  Procs = {i1, i2}
  Metas <- Metadata
  NoRun = NoRun
  NoHash = NoHash
  NoProc = NoProc
  KeepLatest = 1
  Scenarios <- AllScenarios
  KillMayHappen = TRUE
SYMMETRY Symmetry
INVARIANTS TypeOK NoDanglingReference SessionsResolve CompleteMaterialized NoGarbage
PROPERTY RetentionRespected
