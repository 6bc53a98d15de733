SPECIFICATION FairSpec
CONSTANTS
  Clients = {c1, c2}
  Keys = {k1}
  Values = {v1, v2}
  SegmentKeys = {k1}
  VideoKeys = {}
  ExpectedVersions <- RpcVersions
  ExpectedRevisions <- RpcRevisions
  MaxRetries = 2
  MaxCalls = 2
  NoRecord = NoRecord
  NoRequest = NoRequest
INVARIANTS TypeOK LostAttemptsOvertaken
PROPERTIES ImplementsVersionedStore EveryCallReturns
CHECK_DEADLOCK FALSE
