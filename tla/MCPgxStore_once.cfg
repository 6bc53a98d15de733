SPECIFICATION Spec
CONSTANTS
  Sessions = {s1, s2}
  Keys = {k1, k2}
  Prefixes <- WholeStore
  Rereads = FALSE
  MaxBegins = 2
  MaxVersion = 2
  NoRecord = NoRecord
SYMMETRY Symmetry
INVARIANTS TypeOK FailsOnlyIfStale
PROPERTY CommittedReadsCurrent
CHECK_DEADLOCK FALSE
