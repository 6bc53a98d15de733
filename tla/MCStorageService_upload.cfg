SPECIFICATION FairSpec
CONSTANTS
  n1 = n1
  n2 = n2
  n3 = n3
  u1 = u1
  u2 = u2
  o1 = o1
  Nodes = {n1, n2, n3}
  Servers = {n1, n2}
  Objects = {o1}
  Uploads = {u1, u2}
  Object <- OneObject
  Length <- OneChunk
  RingNodes <- ThreeNodes
  VNodes = 2
  Top = 8
  Position <- Positions
  KeyHash <- Hashes
  Founders = {n1, n2}
  ReplicationFactor = 2
  Backup = {u2}
  S3 = S3
  MaxFaults = 1
  MaxRings = 1
  NoFile = NoFile
  NoRecord = NoRecord
INVARIANTS RecordBacked FullyReplicated LookupNearest PlacementStable
PROPERTY WaitsOnlyForOthers
CHECK_DEADLOCK FALSE
