SPECIFICATION Spec
CONSTANTS
  outer = outer
  inner = inner
  Callers = {c1, c2, c3}
  NoCaller = NoCaller
  Keys = {outer, inner}
  NoKey = NoKey
  Modes = {"do", "do_async"}
  Needs <- NestedThreads
  MaxStarts = 3
INVARIANTS TypeOK OneExecution FreshOutcome
PROPERTY CallsReturnUnlessForsaken
CHECK_DEADLOCK FALSE
