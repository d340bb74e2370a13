-------------------------------- MODULE Metrics --------------------------------
(* metrics.go: a resync counts into an instance of its own, which a package      *)
(* variable names, and its end copies the counts to the gauges and clears the    *)
(* variable. Everything that counts finds the instance through that variable,    *)
(* which no lock guards: the adders read it once to test it, and again for the   *)
(* lock, for the deferred unlock and for the map. One key stands for all of them.*)
EXTENDS Integers, FiniteSets

CONSTANTS Own,         \* goroutines of a resync: the initial syncs, the deletion
          Live,        \* workers of live events, which run beside every resync
          MaxResyncs,
          MaxCounts    \* counts that are added, in all

Unheld == "nobody"

ASSUME MetricsAssumption ==
  /\ Own \cap Live = {} /\ Unheld \notin Own \cup Live
  /\ MaxResyncs \in Nat /\ MaxCounts \in Nat

VARIABLES
  aggregatedMetricsInstance,  \* number of the resync it belongs to, 0 for nil
  objectCount,   \* per instance: the count in its map
  mutex,         \* per instance: who holds its lock
  gauge,         \* the count the gauge shows
  resync,        \* where MeasureResync is
  adder,         \* per goroutine: where AddObjectCount is and what it has read
  added,         \* per instance: the counts that were added
  own,           \* counts added by the present resync's goroutines
  budget,        \* counts still to come
  straddled,     \* a resync began while a goroutine was between two of its reads
  panicked       \* who dereferenced nil, released a lock not held, or wrote a map being read

metricsVars == <<aggregatedMetricsInstance, objectCount, mutex, gauge, resync, adder,
                 added, own, budget, straddled, panicked>>

Adder == Own \cup Live
ResyncNumber == 1..MaxResyncs
NotAdding == [at |-> "outside", locked |-> 0, unlock |-> 0, map |-> 0, count |-> 0]

MetricsTypeOK ==
  /\ aggregatedMetricsInstance \in 0..MaxResyncs
  /\ objectCount \in [ResyncNumber -> 0..MaxCounts]
  /\ mutex \in [ResyncNumber -> Adder \cup {Unheld}]
  /\ gauge \in 0..MaxCounts
  /\ resync \in [at : {"idle", "running", "flushing"}, number : 0..MaxResyncs]
  /\ adder \in [Adder ->
       [at : {"outside", "checked", "locking", "locked", "deferred", "adding", "added"},
        locked : 0..MaxResyncs, unlock : 0..MaxResyncs, map : 0..MaxResyncs,
        count : 0..MaxCounts]]
  /\ added \in [ResyncNumber -> 0..MaxCounts]
  /\ own \in 0..MaxCounts
  /\ budget \in 0..MaxCounts
  /\ straddled \in BOOLEAN
  /\ panicked \subseteq Adder

MetricsInit ==
  /\ aggregatedMetricsInstance = 0
  /\ objectCount = [r \in ResyncNumber |-> 0]
  /\ mutex = [r \in ResyncNumber |-> Unheld]
  /\ gauge = 0
  /\ resync = [at |-> "idle", number |-> 0]
  /\ adder = [a \in Adder |-> NotAdding]
  /\ added = [r \in ResyncNumber |-> 0]
  /\ own = 0
  /\ budget = MaxCounts
  /\ straddled = FALSE
  /\ panicked = {}

NoPanic == panicked = {}
Measured == resync.at = "running"

-----------------------------------------------------------------------------
(* MeasureResync. *)

NewAggregatedMetrics ==
  /\ NoPanic /\ resync.at = "idle" /\ resync.number < MaxResyncs
  /\ resync' = [at |-> "running", number |-> resync.number + 1]
  /\ aggregatedMetricsInstance' = resync.number + 1
  /\ own' = 0
  /\ straddled' = (straddled \/ \E a \in Adder : adder[a] # NotAdding)
  /\ UNCHANGED <<objectCount, mutex, gauge, adder, added, budget, panicked>>

\* Fault: the resync does not wait for its goroutines.
FlushAtOnce ==
  /\ NoPanic /\ Measured
  /\ gauge' = objectCount[resync.number]
  /\ resync' = [resync EXCEPT !.at = "flushing"]
  /\ UNCHANGED <<aggregatedMetricsInstance, objectCount, mutex, adder, added, own,
                 budget, straddled, panicked>>

\* The resync has waited for its goroutines: the gauges are reset and filled from
\* its map, read without its lock.
FlushGauges ==
  /\ NoPanic /\ Measured
  /\ \A a \in Own : adder[a] = NotAdding
  /\ gauge' = objectCount[resync.number]
  /\ resync' = [resync EXCEPT !.at = "flushing"]
  /\ UNCHANGED <<aggregatedMetricsInstance, objectCount, mutex, adder, added, own,
                 budget, straddled, panicked>>

\* Go ends the process when it finds a map written while another reads it: a worker
\* of live events may be writing to the map that is being copied.
FlushRaces(a) ==
  /\ NoPanic /\ Measured
  /\ \A o \in Own : adder[o] = NotAdding
  /\ adder[a].at = "adding" /\ adder[a].map = resync.number
  /\ panicked' = {a}
  /\ UNCHANGED <<aggregatedMetricsInstance, objectCount, mutex, gauge, resync, adder,
                 added, own, budget, straddled>>

\* flushMetrics clears the variable, whatever it names by now.
ClearInstance ==
  /\ NoPanic /\ resync.at = "flushing"
  /\ aggregatedMetricsInstance' = 0
  /\ resync' = [resync EXCEPT !.at = "idle"]
  /\ UNCHANGED <<objectCount, mutex, gauge, adder, added, own, budget, straddled,
                 panicked>>

-----------------------------------------------------------------------------
(* AddObjectCount, and addDuration and SetSuccessStatus, which are made alike. *)

AdderMoves(a, next) == adder' = [adder EXCEPT ![a] = next]
Quietly == UNCHANGED <<aggregatedMetricsInstance, gauge, resync, straddled>>

\* The test for nil; the goroutines of a resync run only within it.
TestInstance(a) ==
  /\ NoPanic /\ adder[a] = NotAdding /\ budget > 0
  /\ a \in Own => Measured
  /\ budget' = budget - 1
  /\ IF aggregatedMetricsInstance = 0
     THEN UNCHANGED adder
     ELSE AdderMoves(a, [NotAdding EXCEPT !.at = "checked"])
  /\ Quietly /\ UNCHANGED <<objectCount, mutex, added, own, panicked>>

\* A step that reads the variable again, and panics when it is nil by then.
Rereads(a, from, next) ==
  /\ NoPanic /\ adder[a].at = from
  /\ IF aggregatedMetricsInstance = 0
     THEN panicked' = {a} /\ UNCHANGED adder
     ELSE AdderMoves(a, next) /\ UNCHANGED panicked
  /\ Quietly /\ UNCHANGED <<objectCount, mutex, added, own, budget>>

FindLock(a) ==
  Rereads(a, "checked",
          [adder[a] EXCEPT !.at = "locking", !.locked = aggregatedMetricsInstance])

LockInstance(a) ==
  /\ NoPanic /\ adder[a].at = "locking"
  /\ mutex[adder[a].locked] = Unheld
  /\ mutex' = [mutex EXCEPT ![adder[a].locked] = a]
  /\ AdderMoves(a, [adder[a] EXCEPT !.at = "locked"])
  /\ Quietly /\ UNCHANGED <<objectCount, added, own, budget, panicked>>

\* The receiver of the deferred UnlockInstance is evaluated here.
DeferUnlock(a) ==
  Rereads(a, "locked",
          [adder[a] EXCEPT !.at = "deferred", !.unlock = aggregatedMetricsInstance])

\* += reads the map the variable names now and writes to it.
ReadCount(a) ==
  Rereads(a, "deferred",
          [adder[a] EXCEPT !.at = "adding", !.map = aggregatedMetricsInstance,
                           !.count = IF aggregatedMetricsInstance = 0 THEN 0
                                     ELSE objectCount[aggregatedMetricsInstance]])

\* Fault: the count is assigned, as the success status is, instead of added to.
AssignCount(a) ==
  /\ NoPanic /\ adder[a].at = "adding"
  /\ objectCount' = [objectCount EXCEPT ![adder[a].map] = 1]
  /\ added' = [added EXCEPT ![adder[a].map] = added[adder[a].map] + 1]
  /\ own' = IF a \in Own THEN own + 1 ELSE own
  /\ AdderMoves(a, [adder[a] EXCEPT !.at = "added"])
  /\ Quietly /\ UNCHANGED <<mutex, budget, panicked>>

WriteCount(a) ==
  /\ NoPanic /\ adder[a].at = "adding"
  /\ objectCount' = [objectCount EXCEPT ![adder[a].map] = adder[a].count + 1]
  /\ added' = [added EXCEPT ![adder[a].map] = added[adder[a].map] + 1]
  /\ own' = IF a \in Own THEN own + 1 ELSE own
  /\ AdderMoves(a, [adder[a] EXCEPT !.at = "added"])
  /\ Quietly /\ UNCHANGED <<mutex, budget, panicked>>

UnlockInstance(a) ==
  /\ NoPanic /\ adder[a].at = "added"
  /\ IF mutex[adder[a].unlock] = Unheld
     THEN panicked' = {a} /\ UNCHANGED mutex
     ELSE mutex' = [mutex EXCEPT ![adder[a].unlock] = Unheld] /\ UNCHANGED panicked
  /\ AdderMoves(a, NotAdding)
  /\ Quietly /\ UNCHANGED <<objectCount, added, own, budget>>

MetricsNext ==
  \/ NewAggregatedMetrics \/ FlushGauges \/ ClearInstance
  \/ \E a \in Adder : \/ TestInstance(a) \/ FindLock(a) \/ LockInstance(a)
                      \/ FlushRaces(a)
                      \/ DeferUnlock(a) \/ ReadCount(a) \/ WriteCount(a) \/ UnlockInstance(a)

MetricsSpec == MetricsInit /\ [][MetricsNext]_metricsVars

-----------------------------------------------------------------------------
\* A resync's own goroutines count only while their instance is there: they never
\* find the variable nil. Only a worker of live events can, when the resync ends
\* between two of its reads; then it may also unlock the next instance for them.
OwnInstanceThere ==
  \A a \in panicked \cap Own : straddled /\ adder[a] = NotAdding

\* An instance that nobody is adding to holds all that was added to it, and what
\* the goroutines of a resync counted is in the gauges from its end on: the lock
\* that is found through the variable guards the map that is found through it,
\* unless a resync begins between the two reads of a live event's worker.
CountsReachGauges ==
  ~straddled =>
    /\ \A r \in ResyncNumber :
         (\A a \in Adder : adder[a].map # r) => objectCount[r] = added[r]
    /\ resync.at = "flushing" => own <= gauge /\ gauge <= added[resync.number]
=============================================================================
