SPECIFICATION Spec
CONSTANTS
  Clients = {c1, c2}
  Keys = {k1}
  Values = {v1, v2}
  SegmentKeys = {}
  VideoKeys = {}
  ExpectedVersions <- RpcVersions
  ExpectedRevisions <- RpcRevisions
  MaxRetries = 2
  MaxCalls = 2
  NoRecord = NoRecord
  NoRequest = NoRequest
PROPERTY ConflictStoresNothing
CHECK_DEADLOCK FALSE
