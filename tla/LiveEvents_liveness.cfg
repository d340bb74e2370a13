\* One object, every kind of content, three changes.
SPECIFICATION FairSpec
CONSTANTS
  o1 = o1
  o2 = o2
  m1 = m1
  m2 = m2
  x = x
  f = f
  n = n
  Object = {o1}
  Content = {m1, m2, x, f, n}
  Mapping <- KindOf
  Absent = Absent
  None = None
  UpdateEntityOnlyOnDiff = FALSE
  MaxNumRequeues = 1
  MaxBatchSize = 2
  MaxChanges = 3
PROPERTY BecomesQuiet
CHECK_DEADLOCK FALSE
