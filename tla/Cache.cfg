SPECIFICATION Spec
CONSTANTS
  Clients = {c1, c2}
  Keys = {k1, k2}
  c1 = c1
  c2 = c2
  k1 = k1
  k2 = k2
  Setups <- AllSetups
  NoKey = NoKey
  Values <- Versions
  NoEntry = NoEntry
  L1Size = 1
  MaxVersion = 1
SYMMETRY Symmetry
INVARIANTS TypeOK InvalidationCleans 
CHECK_DEADLOCK FALSE
