\* The listener alone: two resyncs, three changes of the cluster or SIGTERMs.
SPECIFICATION Spec
CONSTANTS
  k1 = k1
  k2 = k2
  o1 = o1
  listener = listener
  ticker = ticker
  Caller = {listener}
  Listener = listener
  Kind = {k1, k2}
  Object = {o1}
  KindOf <- AllInFirstKind
  MaxCalls = 2
  MaxInputs = 3
INVARIANTS
  TypeOK
  OneHandler
  StaleUnlessLater
  MirrorsWhenQuiet
CHECK_DEADLOCK FALSE
