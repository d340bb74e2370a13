\* Each procedure on its own; the limits of the code are scaled down together.
SPECIFICATION PortModelSpec
CONSTANTS
  Blueprint = {b1, b2}
  RetryLimit = 2
  MaxEdits = 2
  MaxStarts = 3
  MaxFaults = 2
  Crd = {c1, c2}
  Singular = {s1}
  Operation = {create, delete}
  MaxVersion = 2
  MaxDiscoveries = 2
  MaxRefusals = 1
  PropertyName = {p1, p2}
  MaxDepth = 3
  d1 = d1
  d2 = d2
  Worker = {w1, w2}
  ImageRef = {r1, r2}
  Digest = {d1, d2}
  Layers = 3
  OsRelease <- TwoOrNone
  MaxDetections = 1
  MaxReadErrors = 1
  Property = {k1, k2, k3}
  Star = star
  Size = {1, 3}
  EntityID = {i1, i2}
  MaxCollected = 4
  SampleSize = 2
  BulkLimit = 2
  MaxPayload = 6
  Identifier = {e1, e2}
  SearchBatch = 2
  DeleteBatch = 1
  MaxConcurrent = 2
  MaxEntities = 3
  MaxTakeOvers = 1
  MaxErrors = 1
INVARIANTS
  PortModelTypeOK
  UserConfigKept
  DefaultsAllOrNothing
  DefinitionsReflected
  Shallowed
  CacheRight
  OrderMattersOnlyForBoth
  RequestsFit
  OthersSpared
  OursDeleted
PROPERTIES
  UsersBlueprintsKept
  BatchesReturn
CHECK_DEADLOCK FALSE
