# A TLA+ verification of port-k8s-exporter

The exporter mirrors objects of a Kubernetes cluster as entities in Port. This
directory holds TLA+ models of its code, TLC runs that check them on small
instances, and TLAPS proofs of the properties that matter most. `PROJECT.json`
maps every definition to the source lines it models, and lists the runs, the
hazards of the code and the theorems.

    tlc -workers 2 -config InitialSync_safety.cfg MCInitialSync   # a run
    tlc -workers 2 -config Services.cfg Services
    tlc -workers 2 -config PortModel.cfg MCPortModel
    tlapm InitialSyncProofs.tla        # proofs; also ListenersProofs, LiveEventsProofs,
                                       # EntityRequestsProofs, PortModelProofs,
                                       # ResyncProofs, ServicesProofs, WorkQueueProofs

## 1. Inventory of the system

| Component | State | Operations | Hard behaviour |
|---|---|---|---|
| Controller, initial sync (`pkg/k8s/controller.go`, `batch_collector.go`) | resync work queue, poller's channel, batch, retry counter, result set, delete flag | AddFunc, RunInitialSync loop, ProcessBatch, requeue, ProcessRemaining, Shutdown | four goroutines without a lock, retries outside the queue, partial failure, waiting |
| Controller, live events (`controller.go`) | events queue, shared batch | Add/Update/DeleteFunc, RunEventsSync, deleteEntities | deletion overtakes waiting updates, versions read late |
| Controllers handler (`pkg/handlers/controllers.go`, `main.go`) | global handler, stop channel, `isStopped`, entity sets | RunResync, Handle, syncAllControllers, Stop, scheduled ticker | two callers of RunResync, unsynchronised merge, deletion while events run |
| Polling listener (`pkg/event_handler/polling`) | ticker, two watermarks | Run, pollIteration | failed resync, changes before the first watermark |
| Kafka listener (`pkg/event_handler/consumer`) | client, enabled flag | Consume, Close | redelivery, shutdown during a resync |
| Signals (`pkg/signal`) | stop channel | SetupSignalHandler | two closers of one channel |
| Port client (`pkg/port/cli`, `pkg/port/entity`) | token and its age | upsert, bulk upsert, bulk delete, ownership search | partial success, token expiry |
| HTTP log writer (`pkg/logger`) | buffer, timer | Write, flush, Close | lost or unbounded lines |
| Metrics (`pkg/metrics`) | aggregated counters of a resync | MeasureResync, SetSuccessStatus | last resync overwritten by another |
| Defaults (`pkg/defaults`, `pkg/port/integration`) | created resources | InitIntegration, rollback | partial creation |
| CRD discovery (`pkg/crd`) | kinds, blueprints and actions in Port | AutodiscoverCRDsToActions, ShallowJsonSchema | shared singulars, a map changed while ranged over |
| Image OS detection (`pkg/image`) | a cache by digest, a semaphore per batch | Enrich, DetectBatch, Detect | several workers, moving references, unread layers |
| JQ evaluation (`pkg/jq`) | none | ParseMapInterface | the order of Go's maps |
| Configuration (`pkg/config`) | constant | | none |

How they interact: `main` starts the listener and the scheduled ticker; both
call `RunResync`, which stops the previous controllers handler, builds a new one
(one controller per kind) and lets it sync. A controller's informer delivers
objects to its handlers, which fill the resync queue until the handler is synced
and the events queue after that. `RunInitialSync` drains the first, then
`RunEventsSync` serves the second for good. When all controllers are synced, the
handler merges their entity sets and, if each allows it, deletes every other
entity of this exporter from Port.

What makes each correct:

* initial sync: no item lost or doubled, it ends, and it allows the deletion of
  other entities only if it wrote everything the cluster has;
* live events: when nothing happens any more, Port shows the cluster;
* resync: one set of controllers runs at a time, and only stale entities are
  deleted;
* listeners: every change of the integration leads to a resync that starts after
  it;
* metrics: what a resync counts is in the gauges when it ends;
* log writer: every line is in one place, and all are sent or dropped when
  `Shutdown` returns;
* authentication: no request goes out with a token known to be old, and all end;
* provisioning: what users own is kept, the defaults are there in full or not at all;
* the rest: a definition, image, mapping, bulk request or deletion yields what its
  input says, whatever the order and the concurrency.

## 2. The core: the initial sync

`InitialSync.tla` models `RunInitialSync` with everything that runs beside it.
`WorkQueue.tla` is the client-go queue it uses (external, a record and its
methods). `SyncContract.tla` states what a sync promises its caller.

| Model | Code |
|---|---|
| `toDeliver`, `handlerSynced`; `OnAdd`, `HandlerSynced` | the informer's listener goroutine, `AddFunc` (111-136), `eventHandler.HasSynced()` |
| `wq`; `RetryDue`, `Shutdown` | `initialSyncWorkqueue`, the delaying queue's goroutine, `Controller.Shutdown` |
| `poller`, `hand`, `results`; `PollerGet`, `PollerGetShutdown`, `PollerSend` | the goroutine of `workqueuePoller.start`; `hand` is the item between `Get` and the send |
| `pc`, `requeueCounter`; `CheckLen`, `CheckSynced`, `CheckPending` | the loop's condition (227-231), one action per read because nothing locks them |
| `FlushWhenIdle`, `ProcessNext`, `FlushWhenDue`, `AwaitItem` | 233-247 and `processNextWorkItemWithBatching` with a timeout of 0 |
| `ReceiveShutdown`, `NoEntities`, `MappingFailed`, `DeferToBatch` | `processWorkqueueObjectWithBatching`, one action per outcome |
| `batch`, `timedOut`, `hasErrors`; `ProcessBatch` | `BatchCollector`; each entity of a batch is written, fails for now, or fails for good |
| `Drain` | `ProcessRemaining` and the result after the loop |
| `mapped`, `unmappable`, `dropped` | history the properties need |

What is abstracted, and why it may be:

* The queue is a set. The informer lists objects in an arbitrary order and no
  property depends on the order of items.
* Every object of the list is delivered once. Update and delete events go to the
  other queue.
* Receiving an item and processing it is one step: the processing reads only what
  the loop owns, and the cache and the mapping may give any result.
* The writes of a flush take effect at its end. Nothing reads Port in between. The
  order in which failures are tracked matters (`late` in `ProcessBatch`) and is kept.
* A bulk response names every entity it was sent, by its identifier.
* `GetByKey` of the informer's indexer returns no error (it never does in client-go).
* The batch timeout is positive (its default is 5 s) and so is the batch size.
* Raw data examples are left out; the metrics are in section 5.

### Properties

* `WorkItemsHeld`: an item taken from the queue is in exactly one of the poller's
  hand, the channel and the batch until it is completed or requeued.
* `NeverBlockedOnBatch`: the loop never waits while only the batch has work (the
  hang the comment at 222-225 speaks of).
* `RetriesAwaited`: without a shutdown, the sync returns only when no failed item
  is still to be tried again.
* `StaleDeleteSafe`: the deletion is allowed only if every mapped entity was
  written and no mapping failed.
* `SyncReturns`: once the handler is synced, a loop that evaluates its condition
  returns.
* `ImplementsContract`: the refinement of `SyncContract`, with the batch's entities
  as the open ones.

### Findings

* `permanent_precedence`: an item with one permanently failed and one retryable
  entity in the same flush is requeued and then forgotten, against what the test
  `TestBatchCollectorPermanentFailureTakesPrecedenceOverRetryableFailure` says.
  Its retries are not limited and `requeueCounter` never comes down, so that the
  sync may not return: `SyncReturns` is checked where no item has two entities or
  shares one in a way that lets this happen (`SingleEntity`).
* `whole_listing`: the loop's condition is not one atomic read and cannot see the
  item in the poller's hand. The sync can return as complete although a listed
  object was never mapped, and its entities are then deleted as stale.

### Runs and bounds

| Run | Instance | Shows |
|---|---|---|
| `initial_sync` | 3 objects, 2 entities, the first object mapped to both; one retry; batch of 2 | the safety properties and the contract |
| `initial_sync_returns` | 2 objects, an entity each, two retries, fairness | `SyncReturns` |
| `permanent_precedence`, `whole_listing` | 2 objects | the findings |

Three objects fill a batch, leave one in the channel and one in the hand at the
same time. One retry has both cases of `NumRequeues >= MaxNumRequeues`; two have a
second retry, the only case in which the counter neither grows nor falls. A batch
of two flushes full, on timeout, on idleness and at the end. All objects but the
first are mapped alike, which makes the symmetry sound. `CounterBound` stops the
counter that the first finding makes grow without limit; it cuts only flushes that
do this. Deadlock is not checked: a sync that returned, or that waits for the
handler, stops.

Fairness is weak fairness of each goroutine (the Go scheduler) and of the end of
each rate limit (client-go's delaying queue). No timeout or shutdown is assumed.

### Proofs (`InitialSyncProofs.tla`)

Proved for all sets of items and entities, mappings and limits, from the named
assumptions of `InitialSync`: `TypeCorrect`, `NoItemLeaks`, `NoWaitOnBatch`,
`NoRetryAbandoned`, `DeletionIsSafe` and `SyncImplementsContract`.

The argument: `PlacesInv` (where each item is, and that the dirty set of the queue
is its queued set) is inductive with `TypeOK`. `WaitInv` adds why the loop may
wait: a batch and an idle queue would have been flushed. `CounterInv` says that
`requeueCounter` is at least the number of items outside the batch that failed
before or are held back; it needs `PlacesInv`, since an item in two places would
be counted down twice. `ReportInv` says where every mapped entity is while the
deletion is allowed. The refinement maps a flush to `Settle`, a deferral to `Map`,
a failed mapping to `Fail` and every other step to a stutter.

`SyncReturns` is liveness and stays with TLC, but that nothing blocks the loop is proved:
`WaitIsAnswered` says that a loop which evaluated its condition with the handler synced
waits in `Get(0)` only while an item or the shutdown is on its way to it, in the channel,
the poller's hand, the queue or the rate limiter, and the poller runs. Its hypothesis
`OneEntityEach` is the one under which `SyncReturns` is checked: with two entities an
item can be counted twice (`permanent_precedence`) and the loop waits for ever. Under it
`ExactInv` makes `CounterInv`'s inequality an equality: what the counter counts failed,
and is on its way. `ComingInv` follows the reads of the condition one by one. A loop that
read `HasSynced` just before the handler was marked is not covered, and may really wait
for ever.

## 3. The live events

`LiveEvents.tla` models one controller after its initial sync: what happens between
a change the informer observes and its effect in Port.

| Model | Code |
|---|---|
| `cache`, `notes`; `Change` | the informer's indexer and the notifications its listener goroutine has not handled |
| `AddFunc`, `UpdateFunc` with `ShouldSendUpdateEvent` | the handlers (111-156), the comparison of mapped entities (726-760) |
| `DeleteFunc`, `DeleteFound`, `deleting` | `DeleteFunc` (157-176): the ownership search, then the bulk deletion (570-603) |
| `wq`, `taken`; `PollerGet`, `RetryDue`, `Shutdown` | `eventsWorkqueue`, the poller's hand and channel |
| `pc`, `batch`, `timedOut`; `Flush`, `AwaitItem`, `GetTimeout`, `ReceiveShutdown` | the worker of `RunEventsSync`, its `BatchCollector`, the deferred `ProcessRemaining` |
| `NoEntities`, `DeleteExcluded`, `FailItem`, `DeferToBatch` | `processWorkqueueObjectWithBatching`, one action per outcome |
| `port` | the entities in Port |
| `givenUp`, `undeleted`, `overtaken` | history: writes given up, deletions or cleanups given up, deletions that a waiting batch entry outlives |

What an object contains matters only for what the kind configuration makes of it, so
contents are model values and `Mapping` gives each a kind: an entity (`match`), an
entity the selector drops (`exclude`), dropped and not mapped (`none`), an error
(`fail`).

What is abstracted:

* One kind configuration, one entity per object, named after it. Every entity of the
  model was written by this exporter, so the ownership filter passes it.
* The writes of a flush take effect at once. When the batch holds two contents of an
  entity, Port keeps the later one that was written.
* The search and the bulk deletion are two steps in `DeleteFunc`, where notifications
  and the worker go on meanwhile, and one step in the worker's cleanup.
* An object that changes from an entity to a content that is dropped and cannot be
  mapped sends an update that deletes nothing: nobody knows its entity's name. The
  model counts it in `undeleted`.
* The poller's hand and channel are a set of at most two items; a poller that
  `wait.Until` starts again after the shutdown finds nothing and is left out.

### Properties

* `NoUpdateLost`: while the exporter runs, an object the selector passes is in Port
  as the cache holds it, or it still has a notification, an item, or a batch entry with
  the cached content as its last, or its write was given up. It relates the cache, the
  notifications, the queue, the batch and Port.
* `LeavesUnlessOvertaken`: when nothing is left to do, an object that was deleted or
  is dropped by the selector has no entity, unless Port or the mapping failed or a
  batch overtook the deletion.
* `BecomesQuiet`: all of it ends; no retry goes on for ever and no batch waits for
  more events.

### Finding

`deleted_leave`: `DeleteFunc` deletes at once, while the worker may hold the object's
entity in its batch. The flush writes the entity again and nothing deletes it until
the next resync. "Delete must still remove the entity", says `controller_test.go:775`,
and `TestDeleteDeletedFinalStateUnknownStillDeletesEntity` asserts that Port no longer
finds it; both call the handlers one after the other, with neither a worker nor a batch.
`LeavesUnlessOvertaken` says that this, and the same race of the cleanup, are the only
ways an entity outlives its object.

### Runs and bounds

| Run | Instance | Shows |
|---|---|---|
| `live_events` | 2 objects, 2 matched contents and one of each other kind, one retry, batch of 2, 3 changes | `TypeOK`, `NoUpdateLost`, `LeavesUnlessOvertaken` |
| `live_events_settle` | 1 object, the same contents, fairness, every update sent (`UpdateEntityOnlyOnDiff` false) | `BecomesQuiet` |
| `deleted_leave` | 1 object, 2 contents, 2 changes | the finding |

Three changes are a creation, an update and a deletion, or a deletion between two
creations, of one object, or of both in turn: an item is then added again while it
waits, while it is processed, while it is in the batch and while it is delayed. The
batch of two holds the create and the update item of one object together. Objects
are interchangeable, and so are the two matched contents. `MaxChanges` bounds the
cluster only; after the last change everything else goes on.

Fairness: weak fairness of the goroutines and of each rate limit; strong fairness of
receiving an item (Go's `select` between an item and the timer prefers neither for
ever) and of the batch timeout, which can only pass while the worker waits.
Deadlock is not checked: a controller that is quiet and has no changes left stops.

### Proofs (`WorkQueueProofs.tla`, `LiveEventsProofs.tla`)

`WorkQueueProofs` states what each method of the queue does to its fields, for any
items and retry limit; both components' proofs use it.

`TypeCorrect` and `UpdatesReachPort` hold for all objects, contents, mappings, retry
limits and batch sizes. `NoUpdateLost` alone is not inductive: handling the latest
notification of an object without an item is right only because that notification
tells of what the cache holds (`NotesTellCache`), and deleting is right only because
the deletion is still the first notification (`DeletesHead`). `MatchedUpToDate` allows
a write to be given up only while the batch has no entry of the object, so that a
later flush cannot bring back an older content. `IInv` is the conjunction. That the
last of an object's entries exists rests on `LeastNatural`, from the well-foundedness
of the naturals.

`EntitiesLeave` proves `LeavesUnlessOvertaken`. Besides `IInv` it needs `LeaversLeave`:
of an object that the cluster no longer has, or that the mapping drops now, nothing is
left in Port (nor in the batch or on its way there), or a notification or a queued item
is still to come that clears it. An object may be dropped and then deleted while it is
queued, so the two halves hold only together.

`BecomesQuiet` is liveness and stays with TLC.

## 4. The resyncs

`Resync.tla` models the calls of `RunResync`, the handlers they build, stop and
publish, the deletion of stale entities, and the signal handler of each.

| Model | Code |
|---|---|
| `controllerHandler`, `pc`, `old`, `mine`; `Call`, `Stop`, `FetchFails`, `Build`, `Publish` | `RunResync`, `ControllersHandler.Stop`, `NewControllersHandler` |
| `handlers` (`phase`, `set`, `flag`, `sets`, `should`); `SyncKind`, `Merge` | `syncAllControllers`, `syncController`, one after the other or in parallel |
| `stale`, `cancelled`; `Skip`, `Search`, `DeleteStale`, `Deleted`, `Cancel` | the end of `Handle` (112-132), `DeleteStaleEntities`, `BulkDeleteEntities` |
| `events`, `frozen`, `cluster`, `port`; `Change`, `HandleEvent`, `LoseEvent` | the informers and the live events of each handler; the indexer stays as it was when the informers stop |
| `signals`; `Signal`, `FirstSignal`, `SecondSignal`, `SeeStop`, `Exit` | `SetupSignalHandler` and its two goroutines, the end of `main` |
| `swept`, `failed`, `late`, `later`, `interrupted` | history |

What is abstracted:

* The sync of one controller is one step, at the moment of its listing: it writes a
  part of what it found and allows the deletion only if that is all (`SyncContract`,
  which `InitialSync` implements). After a stop it may return anything it has. The
  races inside a sync, such as `whole_listing` and `deleted_leave`, are those of the
  other two components and are not repeated here: `MirrorsWhenQuiet` is about what
  the resync adds to them.
* Merging one result is one step. In parallel mode the two assignments are a data
  race; each may start from a value that another sync has replaced meanwhile.
* An entity is its object, and the events of one object are one until it is handled.
* A kind has no controller when the mapping does not name it or when discovery fails;
  the code treats both alike, and so does the model.
* The list of entities to delete is handled one by one in any order, which covers
  the concurrent batches and their partial success.
* A process that ends forgets everything but Port and the cluster; `Init` allows
  anything in Port, so a restart is a new behaviour.
* The allowed environment variables are left out; the metrics are in section 5.

### Properties

* `OneHandler`: no two handlers run at once. `RunResync` stops the published one before
  it builds another; a new one that synced beside the old one would violate it.
* `StaleUnlessLater`: when the controllers sync one after the other and are not
  stopped, what the deletion takes for stale has no object, unless the object changed
  after its kind was listed. It fails if one failing sync does not forbid the deletion
  of all. The exception is real: an object that is created while other kinds sync is
  written by a live event, is in no set, and its entity is deleted as stale.
* `MirrorsWhenQuiet`: when no call and no event is under way, Port shows the cluster,
  but for entities swept in that way (or after a parallel merge lost a set), entities
  a call failed for, and entities that a stopped handler's worker touched late.

### Findings

* `two_callers`: the test `TestControllersHandler_RunResyncNotOverlaps` calls
  `RunResync` twice in a row. The ticker of `main` (only with a resync interval) calls
  it in its own goroutine: then two handlers run at once, and one of them is published
  by nobody and never stopped (`ReplacedAreStopped`).
* `sigterm_after_resync`: each resync registers one more signal channel; the stopped
  handler's is closed and stays registered, and SIGTERM panics.

### Runs and bounds

| Run | Instance | Shows |
|---|---|---|
| `resync` | the listener, two kinds, one object, two calls, three changes or SIGTERMs | `TypeOK`, `OneHandler`, `StaleUnlessLater`, `MirrorsWhenQuiet` |
| `two_callers` | the listener and the ticker, two calls | the finding |
| `sigterm_after_resync` | the listener, two calls, one SIGTERM | the finding |

Two kinds are the least with a sync before and after another, in either order and in
parallel, and with one failing while the other succeeds. Objects do not influence
each other except through the sets and the flag, and the second kind, without an
object, still has a flag: one object is enough. Two calls have a handler that is
replaced, also after a failed fetch. Three inputs are a creation, deletion and
re-creation, a change on either side of a stop, or two signals and a change. Deadlock
is not checked: the calls are bounded and the process may end.

### Proofs (`ResyncProofs.tla`)

`TypeCorrect` holds for any callers; besides `TypeOK` it needs that a caller in the
sync or the deletion has built a handler (`HasHandler`). `OneHandlerRuns` has the
hypothesis `Caller = {Listener}`, which is the default configuration (no resync
interval); the run `two_callers` shows that it cannot be dropped. The invariant
follows the right to run: it belongs to the published handler until `Stop`, to nobody
while the integration is fetched, and to the call's own handler until it is published
(`RunsByPlace`). `StopMarks`, that only stopped handlers are marked, is needed where a
call finds a marked handler and does not stop it.

`StaleOnlyIfLater` holds for any callers of `RunResync`, objects, kinds and failures. The
property says nothing of an object between its kind's sync and the deletion; `StaleInv`
does: while a handler syncs, every object of the cluster that a sync or a merge had to
see is in its set, or changed later (`SeenBy`), unless the syncs were parallel or
interrupted. It needs `OwnHandler`, that a handler belongs to one call only: two calls
that merged into one handler could each call the other's result complete.

`PortMirrorsTheCluster` has the hypothesis `Caller = {Listener}` again, since two running
handlers write over each other. `MirrorInv` says for the handler that is not stopped, and
for every object, why its entity is as it should be, or who has still to see to that: an
event, a sync of its kind, or the deletion (`Faithful`). It is inductive only with
`OneHandlerInv`, because a step of a stopped handler may break what a running one has
mended; such steps are the exceptions `late` and `failed`.

## 5. What runs beside the controllers (`Services.tla`)

`Services` composes the event listener, the metrics, the log writer and the
authenticator. They share no state with each other, so a product of them would only
multiply states: the variable `part` chooses the one that a behaviour is about, and
the run checks the sum. What each of them does share is inside its module: the
listener with the ticker and Port, the metrics of a resync with the workers of live
events, the writer with its loggers and everyone who calls `Shutdown`, the token with
all requests.

### The event listeners

`EventListener.tla` has what both listeners share, `Polling.tla` and `Consumer.tla`
one listener each, and `Listeners.tla` puts the process together with Port, the
ticker and crashes. `RunResync` is here what its callers see of it: it stops the
running controllers and reads the integration (`BeginResync`), and later new
controllers run, or none (`EndResync`). What happens in between is `Resync.tla`.

| Model | Code |
|---|---|
| `StartInitial`, `EndInitial` | `event_handler.Start`: the first resync, before the listener runs |
| `FirstState`, `InitializeResyncRequestWatermark`, `Poll`, `PollRequest`, `Compare` | `polling.Handler.Run` and `pollIteration`; each answer of Port is a step, since Port changes in between |
| `PollingResync`, `KafkaResync` | the callback, in the listener's own goroutine |
| `Assign`, `Receive`, `Concerns`, `Commit`, `Close` | `Consumer.Consume` with `auto.offset.reset: latest`, `handleMessage`, `CommitMessage`, the signal's goroutine |
| `AutoCommit` | the Kafka client's own commit, which is on by default and commits what was polled |
| `Tick`, `EndTick` | the goroutine of `main`, with a resync interval only |
| `integration`, `request`; `ChangeIntegration`, `RequestResync`, `Publish` | Port, external |
| `serving`, `served`, `unseen`, `failures` | history, and what the properties allow for |

A version of the integration is its `updatedAt`, and names its configuration. The
topic has one partition; of other messages there is one that is not ours and one
that cannot be parsed. A crash may come at any step.

* `NoChangeForgotten`: without a ticker, once the listener waits and has seen all, the
  controllers run with the present configuration. It has two exceptions, and both are
  what the code does: a resync that fails is not repeated, because the marks have
  advanced (`polling.go:160-164`) or the offset is committed, and leaves the exporter
  without controllers; a change between the first resync's reading and the listener's
  first look is noticed by nobody.
* `NoRequestForgotten`: a request that was seen was followed by a resync that began
  after it.
* `KeepsUp`: the listener never stays with something new, nor resyncs for ever.
* `TickerRepairs`: with a resync interval the exceptions are temporary.

### The metrics

`Metrics.tla` models one counter; `addDuration` and `SetSuccessStatus` are made alike.
`AddObjectCount` finds the instance through the package variable four times: for the
nil test, for `LockInstance`, for the deferred `UnlockInstance`, whose receiver is
evaluated at the `defer` statement, and for the map. The resync replaces and clears
the variable without a lock. One caller of `RunResync` is assumed, as in
`OneHandlerRuns`; with two, the second instance replaces the first.

* `OwnInstanceThere`: the goroutines of a resync, which it waits for, never find the
  variable nil. A worker of live events can, when a resync ends between two of its
  reads, and panics then, as it does when the flush copies the map that it writes to
  (`FlushRaces`: Go ends the process for it). It may also release the lock of the next
  instance, for which `straddled` stands.
* `CountsReachGauges`: unless that happened, no count is lost in an instance, and what
  the resync counted is in the gauges when it ends.

### The log writer

`HTTPWriter.tla` models `Write` with its two critical sections, `flush`, the goroutines
of `sendLogs`, the timer and `Close`, which several goroutines call on SIGTERM: both
signal handlers (`signal.go:25`, `34`), the listener (`polling.go:191`,
`consumer.go:79`) and `main`. A line is its number.

* `LinesOnce`: every line is in exactly one place, whoever flushes.
* `ShutdownWaits`: when `Shutdown` returns, all lines written before its flush were
  sent or dropped.
* `OnlyOverlapPanics`: the second close of the channel panics only when two callers
  were between the test and the close at once.
* `ShutdownReturns`.

What no property says, since nothing promises it: a batch that Port does not take is
dropped; before the URL is known the buffer has no limit; `logger.Fatalf` exits without
a flush.

### The authenticator

`Authenticator.tla` models the hook of the HTTP client, which runs before every attempt
with the mutex held, the token request that it makes with the same client, and the
retries of both. Time passes in ticks, and a token is known by the time Port issued it;
the Authenticator counts its age from when the answer came.

* `RejectedOnTheWay`: a request is refused for its token only if time passed on its way
  or on the way of the token: no attempt goes out with a token known to be old.
* `RequestsEnd`: the token request skips the hook, so that it does not wait for the
  mutex of its own goroutine, and all retries are bounded.

### Bounds and fairness

Two versions and one request: a change, or a request, before and after each step of a
listener; one failure and one crash, each at any step; two messages, one of them ours.
Two resyncs of the metrics have a straddling worker, two goroutines of a resync the
contended lock, three counts the third party of each. Two writers with a buffer of two
and three lines have a full buffer, an append between another's append and flush, and
a line that is left for `Close`; two closers have every overlap. Two requests with a
lifetime of one tick, one retry and a clock of three have a token that expires under
way, in the queue for the mutex, and between an attempt and its retry.

Weak fairness of the listener's and of the ticker's goroutine, of each call of
`Shutdown`, of the senders and the timer, and of each request: the Go scheduler, Port
that answers or a request that times out. No fairness for Port's changes, SIGTERM, a
crash, a log line or time. A crash, a failure and a change are bounded, so that liveness
says what happens after the last of them. Deadlock is not checked: each part may stop.

### Proofs (`ServicesProofs.tla`)

For any numbers of goroutines, lines, requests and resyncs, any capacity, lifetime and
limits, `ServicesSpec` has:

* `LinesAreKept`, `ShutdownIsLast`, `PanicsOnlyByOverlap`. The invariant `LogsInv` adds
  `FlushedIsOut` (what a closer has flushed is never in the buffer again, so that it only
  has to wait for the senders) and `PastTheTest` (two callers past the test of the
  channel, or one when it is closed, have overlapped).
* `NoStaleToken`. `TokenInv` adds `Dated` (no token is from the future, and the
  authenticator's age of a token is at most its true age) and `SentInTime`.
* `MutexIsGivenBack`, `RequestsGoOn`: what of `RequestsEnd` is safety. The mutex is held
  exactly by a request inside `AuthenticateClient`, which does not wait for it again, and
  each step of a request takes it to a later stage or a later attempt (`Further`, a
  lexicographic order; the attempts are bounded by their type). `Moves` lists what the
  steps of one request do to its place and the mutex.
* `CountsAreKept`, `InstanceIsThere`. `CountsInv` adds `InstanceNamed`, and as long as
  nothing was straddled `OneInstance` (all four reads of a call found one instance, whose
  lock the caller has) and `NothingLost`; once something was, it says no more than the
  types and `InstanceNamed`, which is why `OwnInstanceThere` needs no exception.

* `NoRequestIsForgotten`, `NoChangeIsForgotten` (in `ListenersProofs`), for both types
  of listener, with and without a ticker. `PollingMarks`: the marks of the polling
  listener are never ahead of what a resync that began has served, except between the
  decision to resync and its begin. `Offsets`: as long as a request or a change of the
  Kafka listener is not served, a message that concerns it has not been handled, also
  after a restart from the committed offset. The exceptions of the two properties (what
  was there before the first look, a failed resync) are parts of these invariants.
* `ServicesTyped`: `ServicesTypeOK`. That the counts stay within their bound is not local:
  `CountsBounded` adds up the counts in the map, those on their way (`OnTheWay`), and
  what is left of the budget.

`ServicesInv` is the conjunction; a step of one part leaves the others alone. The four
liveness properties stay with TLC.

## 6. What the exporter makes of Port (`PortModel.tla`)

Seven procedures that do not call each other; `procedure` chooses the one that a
behaviour is about, for the reason above. Each has its own environment: users, other
exporters, the registry, failures.

| Module | Code | Steps |
|---|---|---|
| `Provisioning` | `defaults/init.go`, `defaults.go`, `port/integration` | the reading, creation, recreation or patch of the integration; the check, three stages and rollback of the default blueprints, one goroutine each; over several starts |
| `CrdDiscovery` | `crd/crd.go` | the listing, then kind, conversion, blueprint and actions of each definition; definitions come, change and go |
| `CrdSchema` | `crd/utils.go` | `ShallowJsonSchema`, one property of the top level after the other |
| `Images` | `image/enricher.go`, `detector.go` | the batch of an object, its semaphore, digest, cache, layers |
| `EntityMapping` | `jq/parser.go`, `goutils/map.go` | `ParseMapInterface`, one query after the other |
| `BulkUpsert` | `batch_collector.go`, `cli/entity.go` | `calculateBulkSize`, the loop of `ProcessBatch` over its chunks, partial successes and the fallback one by one |
| `OwnedDeletion` | `controller.go` (570-603), `port/entity`, `cli/entity.go` | the ownership searches by chunk, then concurrent delete batches |

What is abstracted: a configuration is none, the process's, the default one or a
user's; a blueprint is absent, a user's, or one of three stages. `CreateDefaultResources`
is true. A schema property is a path; only leaf and object are told apart. An image is
its digest, an operating system the layer it was found in. A query is the property it
is for. An entity of a bulk request is its size and its identifier; Port answers for
each entity of one: it is written, rejected for good (401, 403, 404, 422), or failed. An
error of the whole request is the same answer for all. The recursion of
`shallowProperties` is one step for each property of the top level, whose order is the
one that is visible.

### Properties

* `UserConfigKept`: the configuration a user wrote survives every start, unless the
  process is told to overwrite it, a start ends between the deletion and the
  creation (`init.go:95-98`), or the user writes between a start's reading and writing.
* `UsersBlueprintsKept`, `DefaultsAllOrNothing`: users' blueprints are never touched,
  also by a rollback; the defaults are there in full or not at all, unless an answer was
  lost or a start ended in the middle.
* `DefinitionsReflected`: after a discovery in which no request failed, each definition
  that was added and converted has the blueprint of its own listed schema, or of another
  such definition's with the same singular, and all its actions. With
  `overwriteCRDsActions`, which each resync reads anew, all the actions are of the
  blueprint's definition and version; without it an action that is taken stays what it
  was, so that it may be of an earlier version, or of a definition that is gone
  (`crd.go:351-358`). A definition whose schema cannot be converted keeps its kind and has
  neither (`crd.go:328-331`): `unconverted`.
* `Shallowed`: no object is left in a flat schema and no leaf is lost, except at or below
  a name that an object further down has too (`utils.go:34`).
* `CacheRight`: what the cache keeps for ever is what the image says, whatever moves
  meanwhile, unless a layer could not be read. `BatchesReturn`: the mapping goes on.
* `OrderMattersOnlyForBoth`: Go's map order decides only properties that have a query and
  are yielded by `"*"` too.
* `RequestsFit`: bulk requests share no entity and have no more of them than Port takes,
  nor more bytes unless one of several is larger than the estimate from the sample. An
  entity that Port did not confirm was written again one by one or is rejected for good:
  also after a 207, whose errors are found by identifier, which two entities may share.
  If the stale deletion is allowed at the end, every entity of the batch is confirmed.
* `OthersSpared`, `OursDeleted`: nobody else's entity is deleted unless it changed hands
  after the search. After a deletion without errors no identifier of the object has an
  entity of this exporter's, whatever the searches found, and what was deleted is counted
  once. Only others write meanwhile: a batch of this exporter that writes the entity
  again is the finding of section 3.

### Bounds and fairness

Two blueprints, definitions, images and identifiers are the least with one that fails
while the other does not. Three starts: one that creates, one that recreates or is
interrupted, one that finds what is left; two faults and two edits fall between any of
their steps. Two definitions have one singular, and each is alone in it when the other
is not there; with two versions, and two actions of which one may fail, the second
discovery finds any other set than the first. (Two singulars hardly interact, and would
make three million states; the theorem is for any.) Paths of three names have an
object in an object, and two names every clash. Three layers, of which two, or none,
have the file. One detection at a time makes the semaphore bind. The limits are
scaled down (bulk requests 20 to 2, the sample 10 to 2, searches 50 to 2, deletions 100
to 1 with 10 to 2 at once) so that inputs of four and three entities cross them: a
request of three is refused, and two entities of the largest size just fit.
The fairness is that of the goroutines of a batch of detections. Deadlock is not
checked: each procedure ends.

### Proofs (`PortModelProofs.tla`, `EntityRequestsProofs.tla`)

For any sets of blueprints, definitions, references, digests, properties and entities,
and any limits, `PortModelSpec` has:

* `ConfigSurvives`, `AllDefaultsOrNone`, `UsersBlueprintsStay`. `ProvisioningInv` adds
  `Recreating` (between the deletion and the creation there is no integration),
  `CreatedIsOurs` (what is in `createdBlueprints` is of the exporter's making, and the
  patches begin when all is) and `KnowsItsOwn` (outside of the stages nothing of the
  exporter's is there, or all of it). Without `CreatedIsOurs` a rollback could reach a
  blueprint that a user created after the check.
* `CacheIsRight`. `CacheInv` adds `PassedLayers`: a goroutine that reads a layer found
  the file in none above it, unless one of them could not be read.
* `PlacesAreKept`, `DetectionsGoOn`: what of `BatchesReturn` is safety. The semaphore has
  at most `MaxDetections` holders, all of them goroutines of the present batch, and a
  goroutine goes through its places and down the layers, never back.
* `MappingDeterminate`. `MappingInv` is `Evaluated`, what each property may have after
  the queries so far.

* `DefinitionsAreReflected`. In the middle of a discovery the property is false;
  `Reflected` says of the kinds converted so far which actions are `Awaited`. `OfTheirName`
  holds across discoveries, failures and definitions that go: a blueprint is of a
  definition with its name, and so is each action. `CrdProgress` (what is still to handle
  has no kind yet) keeps a definition from being handled under the version of another
  round.
* `SchemaIsShallowed`. `SchemaInv` says of every leaf that it is there, or the range has
  still to come to its top level, or a name below explains its loss (`NamedBelow`), and
  the same of the keys still to come: one that is deleted under way is never visited.
* `RequestsAlwaysFit`. `UpsertInv`: what was sent and what was written alone are the
  entities that the loop has come to (`Done`), and the requests are disjoint intervals
  that `Fits`; each of those entities is confirmed, written alone or rejected, and all are
  confirmed as long as the stale deletion is allowed. `RoundEnds` says so of one round,
  whatever Port answers. The byte limit has the premise of the property, that none of
  several is larger than the estimate: the estimate is no less than 1.5 times the mean of
  the sample (`Estimate`), n entities of at most that size have at most n times as many bytes
  (`SumsBound`), and as many as `BulkSize` allows fit. `TotalsSum` shows first that the
  recursive function of the sums exists, by the least number without one.
* `OthersAreSpared`, `OursAreDeleted`. `DeletionInv` adds `OwnersKnown` (what was found is
  ours, or gone, or was taken over since) and `RemovedWereOwned`; `BatchesInv` (the
  batches partition what is owned, and what is in none any more is deleted unless there
  was an error) and `CountInv` (without errors and other writers the count is that of the
  entities deleted). An entity that stands in two batches is counted by the first only,
  since the second does not find it. `FoundInv` is about what the searches may miss: what
  is ours at a position that was searched is in `owned`, and in `ownedIDs` between the two
  searches of a chunk, since nobody else's write makes an entity ours.
* `PortModelTyped`: `PortModelTypeOK`. The bound of `deleted` needs `CountInv`.

`PortModelInv` is the conjunction. `BatchesReturn` is liveness and stays with TLC.

### Code observations

No run is spent on these; the properties above name each where it limits them.

* `batch_collector.go:365` says that 1.5 times the average of the sample is there "to
  ensure we stay under the limit". It is not ensured: the sample is the first ten
  entities, and a request of larger ones that follow has as many of them as would fit if
  they were as small, hence more than `maxPayloadBytes`. `RequestsFit` and
  `RequestsAlwaysFit` have their premise for that reason.
* Without `overwriteCRDsActions` the blueprint of a definition that replaced another of
  the same singular keeps the actions of the first, and a kind whose schema was not
  converted maps to a blueprint that may not exist (`crd.go:328-331`).
* `integration.go:120` rounds `3 * 1.15` down to 3: the interval between the attempts
  does not grow. An integration without a configuration is dereferenced at 112.
* An integration that cannot be read is taken for missing (`init.go:80`).
* `client.go:102` sets the retry wait to 1000 nanoseconds.
* `config.go:73` speaks of the maximum number of concurrent detections; the semaphore is
  one per object.
* An unread layer is skipped, and the result below it is cached (`detector.go:65`).
* Two definitions with one singular overwrite each other's blueprint at every resync.

## 7. What is not modelled

* Configuration, flags, struct definitions: nothing changes.
* Pages, score cards, organization details, Kafka credentials: one request each.
* JQ queries, the YAML of the defaults, single schema fields, os-release parsing, the
  parsing of bulk responses: data without control that a property here could be about. That
  Port answers for each entity of a bulk request is assumed.
* Several kind configurations for one entity: no doc or test says which one should win.
* Two callers of `RunResync` in `Metrics`; several partitions and rebalancing of Kafka.
* Queues, informers, Kafka, HTTP retries and the registry are external, modelled by how
  the code uses them.

## 8. What is proved, and what is not

Every safety invariant and action property that a run checks, the type invariants
included, and the refinement of `SyncContract` by `InitialSync` are proved for all
constants that satisfy the named assumptions. Two theorems have a hypothesis beyond
those, `Caller = {Listener}`, and the run `two_callers` shows why. `WaitIsAnswered` has
`OneEntityEach`, and `permanent_precedence` shows the state that it excludes.

Model-checked only, since the prover has neither fairness nor ENABLED: `SyncReturns`,
`BecomesQuiet`, `KeepsUp`, `TickerRepairs`, `ShutdownReturns`, `RequestsEnd` and
`BatchesReturn`; and the five findings, which are counterexamples. For `SyncReturns`,
`RequestsEnd` and `BatchesReturn` the part that is safety is proved: nobody waits for
what does not come, and every step leads on (`WaitIsAnswered`, `MutexIsGivenBack`,
`RequestsGoOn`, `PlacesAreKept`, `DetectionsGoOn`). What is left to TLC there is that
steps which can happen do.

Two models are written so that they can be reasoned about: `OwnedDeletion` has positions
in `identifiers` instead of filtered sequences, and `BulkUpsert` sums of prefixes instead
of a fold.
