SPECIFICATION Spec
CONSTANTS
  N = 7
  Configs <- SmallQueues
  SourceMayFail = TRUE
  StepMayFail = TRUE
  CallerMayClose = TRUE
INVARIANTS TypeOK Conservation Backpressure
PROPERTIES ImplementsOrderedStream DrawnIsDelivered RunEnds
CHECK_DEADLOCK FALSE
