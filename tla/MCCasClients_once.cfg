SPECIFICATION CasSpec
CONSTANTS
  Clients = {c1, c2}
  Keys = {k1, k2, s1, w1}
  Values = {v1, v2}
  SegmentKeys = {s1}
  VideoKeys = {w1}
  ExpectedVersions <- Nobody
  ExpectedRevisions <- Nobody
  MaxRetries = 2
  MaxCalls = 3
  NoRecord = NoRecord
  NoRequest = NoRequest
  Recreate = FALSE
SYMMETRY Symmetry
INVARIANTS LostAttemptsOvertaken MirrorExact CommittedNeverConflicts
PROPERTY NoLostUpdate
CHECK_DEADLOCK FALSE
