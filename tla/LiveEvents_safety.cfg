\* Two objects, every kind of content, three changes in all.
SPECIFICATION Spec
CONSTANTS
  o1 = o1
  o2 = o2
  m1 = m1
  m2 = m2
  x = x
  f = f
  n = n
  Object = {o1, o2}
  Content = {m1, m2, x, f, n}
  Mapping <- KindOf
  Absent = Absent
  None = None
  UpdateEntityOnlyOnDiff = TRUE
  MaxNumRequeues = 1
  MaxBatchSize = 2
  MaxChanges = 3
INVARIANTS
  TypeOK
  NoUpdateLost
  LeavesUnlessOvertaken
SYMMETRY Interchangeable
CHECK_DEADLOCK FALSE
