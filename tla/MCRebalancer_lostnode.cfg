SPECIFICATION Spec
CONSTANTS
  m1 = m1
  m2 = m2
  Managers = {m1}
  Writers = {m1}
  Nodes = {n1, n2}
  Watches = {1}
  Owner <- SingleWatch
  ChanCap = 2
  MaxWrites = 3
  NoState = NoState
INVARIANT RegisteredNodeStays
CHECK_DEADLOCK FALSE
