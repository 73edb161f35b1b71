SPECIFICATION Spec
CONSTANTS
  N = 4
  Configs <- SmallQueues
  SourceMayFail = FALSE
  StepMayFail = TRUE
  CallerMayClose = FALSE
INVARIANT StepErrorPropagates
CHECK_DEADLOCK FALSE
