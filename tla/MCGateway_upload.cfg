SPECIFICATION Spec
CONSTANTS
  n1 = n1
  n2 = n2
  u1 = u1
  u2 = u2
  o1 = o1
  s1 = s1
  v1 = v1
  Nodes = {n1, n2}
  Objects = {o1}
  Uploads = {u1, u2}
  Object <- OneObject
  Length <- Lengths
  Viewers = {v1}
  Wanted <- OneWanted
  Segments = {s1}
  Segment <- OneSegment
  Replicas <- TwoReplicas
  WriteW = 2
  MaxFaults = 2
  NoFile = NoFile
INVARIANTS ViewsWhole StoredIsLocated SuccessesStored
CHECK_DEADLOCK FALSE
