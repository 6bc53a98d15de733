SPECIFICATION FairSpec
CONSTANTS
  m1 = m1
  m2 = m2
  Managers = {m1, m2}
  Writers = {m1, m2}
  Nodes = {n1, n2}
  Watches = {1}
  Owner <- SingleWatch
  ChanCap = 1
  MaxWrites = 4
  NoState = NoState
INVARIANTS SettledIsCurrent NoSendOnClosedChannel
PROPERTIES LostOnlyWhenBehind Converges
CHECK_DEADLOCK FALSE
