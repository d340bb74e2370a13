\* A SIGTERM after a second resync.
SPECIFICATION Spec
CONSTANTS
  k1 = k1
  k2 = k2
  o1 = o1
  listener = listener
  ticker = ticker
  Caller = {listener}
  Listener = listener
  Kind = {k1, k2}
  Object = {o1}
  KindOf <- AllInFirstKind
  MaxCalls = 2
  MaxInputs = 1
INVARIANT ExitsGracefully
CHECK_DEADLOCK FALSE
