\* Two objects, one entity each, three attempts per object.
SPECIFICATION FairSpec
CONSTANTS
  i1 = i1
  i2 = i2
  i3 = i3
  e1 = e1
  e2 = e2
  Item = {i1, i2}
  Entity = {e1, e2}
  EntitiesOf <- SingleEntity
  MaxNumRequeues = 2
  MaxBatchSize = 2
  CounterBound = 1
  None = None
  Closed = Closed
PROPERTY SyncReturns
CHECK_DEADLOCK FALSE
