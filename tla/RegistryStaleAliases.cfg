SPECIFICATION Spec
CONSTANTS
  h1 = h1
  h2 = h2
  RunIds = {r1, r2}
  Roles = {role}
  Hashes = {h1, h2}
  Procs = {i1, i2}
  Metas <- Metadata
  NoRun = NoRun
  NoHash = NoHash
  NoProc = NoProc
  KeepLatest = 1
  Scenarios <- OnlyCalls
  KillMayHappen = TRUE
SYMMETRY Symmetry
INVARIANT CompleteResolves
