\* One object, two contents, two changes.
SPECIFICATION Spec
CONSTANTS
  o1 = o1
  o2 = o2
  m1 = m1
  m2 = m2
  x = x
  f = f
  n = n
  Object = {o1}
  Content = {m1, x}
  Mapping <- KindOf
  Absent = Absent
  None = None
  UpdateEntityOnlyOnDiff = TRUE
  MaxNumRequeues = 1
  MaxBatchSize = 2
  MaxChanges = 2
INVARIANT DeletedObjectsLeave
CHECK_DEADLOCK FALSE
