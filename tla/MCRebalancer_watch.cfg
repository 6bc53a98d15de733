SPECIFICATION Spec
CONSTANTS
  m1 = m1
  m2 = m2
  Managers = {m1, m2}
  Writers = {m1, m2}
  Nodes = {n1, n2}
  Watches = {1}
  Owner <- SingleWatch
  ChanCap = 2
  MaxWrites = 4
  NoState = NoState
SYMMETRY Symmetry
INVARIANT LookupAfterEvent
PROPERTY PlansInOrder
CHECK_DEADLOCK FALSE
