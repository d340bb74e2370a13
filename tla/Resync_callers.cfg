\* The ticker calls RunResync as well.
SPECIFICATION Spec
CONSTANTS
  k1 = k1
  k2 = k2
  o1 = o1
  listener = listener
  ticker = ticker
  Caller = {listener, ticker}
  Listener = listener
  Kind = {k1, k2}
  Object = {o1}
  KindOf <- AllInFirstKind
  MaxCalls = 2
  MaxInputs = 0
INVARIANT ReplacedAreStopped
CHECK_DEADLOCK FALSE
