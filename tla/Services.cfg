\* Each service on its own: two versions of the integration and one request, two
\* resyncs, two goroutines that log and two that call Shutdown, two requests.
SPECIFICATION ServicesSpec
CONSTANTS
  MaxVersion = 2
  MaxRequests = 1
  MaxFailures = 1
  MaxRestarts = 1
  MaxMessages = 2
  Own = {o1, o2}
  Live = {l1}
  MaxResyncs = 2
  MaxCounts = 3
  Writer = {w1, w2}
  Closer = {c1, c2}
  Capacity = 2
  MaxLines = 3
  Requester = {r1, r2}
  Lifetime = 1
  RetryCount = 1
  MaxClock = 3
  MaxUnanswered = 2
INVARIANTS
  ServicesTypeOK
  NoChangeForgotten
  NoRequestForgotten
  CountsReachGauges
  OwnInstanceThere
  LinesOnce
  ShutdownWaits
  OnlyOverlapPanics
  RejectedOnTheWay
PROPERTIES
  KeepsUp
  TickerRepairs
  ShutdownReturns
  RequestsEnd
CHECK_DEADLOCK FALSE
