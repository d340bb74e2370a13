\* Two objects, one of them mapped to two entities.
SPECIFICATION Spec
CONSTANTS
  i1 = i1
  i2 = i2
  i3 = i3
  e1 = e1
  e2 = e2
  Item = {i1, i2}
  Entity = {e1, e2}
  EntitiesOf <- SharedEntities
  MaxNumRequeues = 1
  MaxBatchSize = 2
  CounterBound = 1
  None = None
  Closed = Closed
INVARIANT ReturnsAfterWholeListing
CHECK_DEADLOCK FALSE
