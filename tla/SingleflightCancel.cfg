SPECIFICATION Spec
CONSTANTS
  outer = outer
  inner = inner
  Callers = {c1, c2}
  NoCaller = NoCaller
  Keys = {outer, inner}
  NoKey = NoKey
  Modes = {"do_async"}
  Needs <- NoneNested
  MaxStarts = 3
PROPERTY EveryCallReturns
CHECK_DEADLOCK FALSE
