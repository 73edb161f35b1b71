SPECIFICATION Spec
CONSTANTS
  RunIds = {r1, r2}
  Roles = {role}
  Hashes = {h1, h2}
  Metas = {meta}
  NoRun = NoRun
  NoHash = NoHash
  Procs = {p1, p2}
  NoProc = NoProc
  ExternalLock = TRUE
  FlushMayFail = FALSE
  ReadMayFail = FALSE
  Families = {"global"}
  MaxTrials = 2
SYMMETRY ProcSymmetry
INVARIANTS TypeOK AckedDurable DeletedStaysDeleted
PROPERTY ImplementsLifecycle
