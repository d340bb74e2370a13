----------------------------- MODULE InitialSync -----------------------------
(***************************************************************************)
(* The initial sync of one controller (pkg/k8s/controller.go, RunInitialSync*)
(* and pkg/k8s/batch_collector.go): every object the informer listed is     *)
(* turned into Port entities, the entities are written in batches, and the  *)
(* sync returns the set of entities it wrote and whether entities outside   *)
(* that set may be deleted from Port.                                       *)
(*                                                                          *)
(* Four goroutines take part.  The informer's listener delivers the objects *)
(* of the initial list and then marks the handler synced.  The poller moves *)
(* items from the work queue to a channel of capacity one.  The delaying    *)
(* queue adds an item back when its rate limit is over.  The loop reads the *)
(* queue's length, the handler and the channel one after the other, without *)
(* a lock, to decide between returning, flushing and waiting.  Any moment   *)
(* may bring a shutdown of the queue (Controller.Shutdown).                 *)
(*                                                                          *)
(* An item is an EventItem: an object's key and the index of one of the     *)
(* resource's kind configurations.                                          *)
(***************************************************************************)
EXTENDS WorkQueue, Integers, FiniteSets

CONSTANTS
  Item,            \* the work items of the informer's initial list
  Entity,          \* Port entities: blueprint and identifier
  EntitiesOf,      \* the entities an item's mapping can produce
  MaxNumRequeues,  \* retries of one item; 4 in the code
  MaxBatchSize,    \* entities that fill the batch collector
  CounterBound,    \* bound of a counter that can grow for ever, see ProcessBatch
  None, Closed     \* an empty channel or hand; the queue's shutdown result

ASSUME FiniteItems   == IsFiniteSet(Item)
ASSUME MappingDomain == EntitiesOf \in [Item -> SUBSET Entity]
ASSUME RequeueLimit  == MaxNumRequeues \in Nat
ASSUME BatchLimit    == MaxBatchSize \in Nat
ASSUME CounterLimit  == CounterBound \in Nat
ASSUME NotItems      == None \notin Item /\ Closed \notin Item /\ None # Closed

VARIABLES
  toDeliver,      \* listed items whose AddFunc has not run
  handlerSynced,  \* eventHandler.HasSynced()
  wq,             \* c.initialSyncWorkqueue
  poller,         \* the poller goroutine: not started, polling, ended
  hand,           \* what the poller took from the queue and has not sent
  results,        \* poller.results
  pc,             \* where the loop of RunInitialSync stands
  requeueCounter,
  batch,          \* batchCollector.entitiesByBlueprint, with each source item
  timedOut,       \* time.Since(bc.lastFlush) > bc.timeout
  hasErrors,      \* batchCollector.hasErrors
  shouldDelete,   \* shouldDeleteStaleEntities
  entitiesSet,
  mapped,         \* history: every entity an item was mapped to
  unmappable,     \* history: items whose mapping failed at least once
  dropped         \* history: items with a permanent write failure

listenerVars == <<toDeliver, handlerSynced>>
pollerVars   == <<poller, hand, results>>
batchVars    == <<batch, timedOut, hasErrors>>
outcomeVars  == <<shouldDelete, entitiesSet>>
historyVars  == <<mapped, unmappable, dropped>>
vars == <<listenerVars, wq, pollerVars, pc, requeueCounter, batchVars,
          outcomeVars, historyVars>>

Outcome == {"ok", "retry", "permanent"}

LoopPc == {"check_len", "check_synced", "check_pending", "idle", "next",
           "get", "drain", "returned"}

BatchItems    == {b[1] : b \in batch}
BatchEntities == {b[2] : b \in batch}

TypeOK ==
  /\ toDeliver \in SUBSET Item
  /\ handlerSynced \in BOOLEAN
  /\ wq \in QueueType(Item, MaxNumRequeues)
  /\ poller \in {"off", "polling", "ended"}
  /\ hand \in Item \cup {None, Closed}
  /\ results \in Item \cup {None, Closed}
  /\ pc \in LoopPc
  /\ requeueCounter \in Int
  /\ batch \in SUBSET (Item \X Entity)
  /\ timedOut \in BOOLEAN
  /\ hasErrors \in BOOLEAN
  /\ shouldDelete \in BOOLEAN
  /\ entitiesSet \in SUBSET Entity
  /\ mapped \in SUBSET Entity
  /\ unmappable \in SUBSET Item
  /\ dropped \in SUBSET Item

-----------------------------------------------------------------------------
(* The sync starts after the informer's cache synced: part of the list has  *)
(* been delivered to the handler, the rest is in the listener's buffer.     *)

Init ==
  /\ toDeliver \in SUBSET Item
  /\ handlerSynced \in {b \in BOOLEAN : b => toDeliver = {}}
  /\ wq = NewQueue(Item, Item \ toDeliver)
  /\ poller = "off" /\ hand = None /\ results = None
  /\ pc = "check_len"
  /\ requeueCounter = 0
  /\ batch = {} /\ timedOut = FALSE /\ hasErrors = FALSE
  /\ shouldDelete = TRUE /\ entitiesSet = {}
  /\ mapped = {} /\ unmappable = {} /\ dropped = {}

-----------------------------------------------------------------------------
(* The listener goroutine.                                                  *)

\* AddFunc of an initial object: HasSynced is still false, so the item goes
\* to the resync queue.
OnAdd(i) ==
  /\ i \in toDeliver
  /\ toDeliver' = toDeliver \ {i}
  /\ wq' = Add(wq, {i})
  /\ UNCHANGED <<handlerSynced, pollerVars, pc, requeueCounter, batchVars,
                 outcomeVars, historyVars>>

\* After the handler of the last initial object returned.
HandlerSynced ==
  /\ toDeliver = {} /\ ~handlerSynced
  /\ handlerSynced' = TRUE
  /\ UNCHANGED <<toDeliver, wq, pollerVars, pc, requeueCounter, batchVars,
                 outcomeVars, historyVars>>

-----------------------------------------------------------------------------
(* The work queue's own goroutine, the clock and Controller.Shutdown.       *)

RetryDue(i) ==
  /\ i \in wq.delayed
  /\ wq' = DelayOver(wq, i)
  /\ UNCHANGED <<listenerVars, pollerVars, pc, requeueCounter, batchVars,
                 outcomeVars, historyVars>>

\* The batch's age passes the timeout.  The age is read by ShouldFlush only, and
\* a flush resets it, so it is enough that it passes while the loop waits for an
\* item: a timeout as short as the few statements from one flush to the next
\* ShouldFlush would flush an empty batch, which changes nothing.
BatchTimeout ==
  /\ ~timedOut /\ pc = "get"
  /\ timedOut' = TRUE
  /\ UNCHANGED <<listenerVars, wq, pollerVars, pc, requeueCounter, batch,
                 hasErrors, outcomeVars, historyVars>>

Shutdown ==
  /\ ~wq.down
  /\ wq' = ShutDown(wq)
  /\ UNCHANGED <<listenerVars, pollerVars, pc, requeueCounter, batchVars,
                 outcomeVars, historyVars>>

-----------------------------------------------------------------------------
(* The poller goroutine.  Between Get and the send the item is in neither   *)
(* the queue nor the channel.                                               *)

StartPoller == poller' = IF poller = "off" THEN "polling" ELSE poller

PollerGet(i) ==
  /\ poller = "polling" /\ hand = None
  /\ i \in wq.queued
  /\ hand' = i
  /\ wq' = Get(wq, i)
  /\ UNCHANGED <<listenerVars, poller, results, pc, requeueCounter, batchVars,
                 outcomeVars, historyVars>>

\* Get reports the shutdown only when the queue has been emptied.
PollerGetShutdown ==
  /\ poller = "polling" /\ hand = None
  /\ wq.down /\ wq.queued = {}
  /\ hand' = Closed
  /\ UNCHANGED <<listenerVars, wq, poller, results, pc, requeueCounter,
                 batchVars, outcomeVars, historyVars>>

PollerSend ==
  /\ hand # None /\ results = None
  /\ results' = hand
  /\ hand' = None
  /\ poller' = IF hand = Closed THEN "ended" ELSE poller
  /\ UNCHANGED <<listenerVars, wq, pc, requeueCounter, batchVars, outcomeVars,
                 historyVars>>

-----------------------------------------------------------------------------
(* ProcessBatch: one bulk request per chunk of each blueprint, in the order *)
(* of a map.  Each entity is written, fails for now, or fails for good: a   *)
(* failed chunk or a failed entity that is worth another try goes through   *)
(* an individual upsert, whose failure is retryable.  Chunks are cut by     *)
(* size, so any entity may share a request with any other.                  *)

ItemsWith(outcome, o)    == {b[1] : b \in {x \in batch : outcome[x] = o}}
EntitiesWith(outcome, o) == {b[2] : b \in {x \in batch : outcome[x] = o}}

\* requeueFailedWorkItems: what is not requeued is completed.
\* Fault: one retry too many.
RequeuedOffByOne(failed, allowRequeue) ==
  {i \in failed : allowRequeue /\ wq.failures[i] <= MaxNumRequeues}
Requeued(failed, allowRequeue) ==
  {i \in failed : allowRequeue /\ wq.failures[i] < MaxNumRequeues}

\* Fault: a failed individual upsert leaves shouldDeleteStaleEntities as it was.
CleanButForFallback(outcome) == \A b \in batch : outcome[b] # "permanent"
Clean(outcome) == \A b \in batch : outcome[b] = "ok"

\* trackPermanentFailure takes an item out of the failed items, and a
\* retryable failure tracked after that puts it back: late is the set of items
\* this happens to.  Within a request the permanent failures come first.  Such an
\* item is requeued and forgotten: its retry is counted again and again and never
\* counted down, so CounterBound limits the counter after a flush that does this.
ProcessBatch(allowRequeue) ==
  \E outcome \in [batch -> Outcome] :
    LET permanent == ItemsWith(outcome, "permanent")
        retryable == ItemsWith(outcome, "retry")
    IN \E late \in SUBSET (permanent \cap retryable) :
         LET requeued  == Requeued((retryable \ permanent) \cup late, allowRequeue)
             completed == BatchItems \ (requeued \cup permanent)
         IN /\ wq' = Complete(Requeue(Complete(wq, completed), requeued), permanent)
            /\ requeueCounter' = requeueCounter + Cardinality(requeued)
            /\ late = {} \/ requeueCounter' <= CounterBound
            /\ entitiesSet' = entitiesSet \cup EntitiesWith(outcome, "ok")
            /\ shouldDelete' = (shouldDelete /\ ~hasErrors /\ Clean(outcome))
            /\ batch' = {} /\ timedOut' = FALSE
            /\ dropped' = dropped \cup permanent
            /\ UNCHANGED <<listenerVars, hasErrors, mapped, unmappable>>

-----------------------------------------------------------------------------
(* The loop's condition, one unlocked read per action: requeueCounter and   *)
(* Len(), then HasSynced(), then HasPending().                              *)

\* Fault: the loop looks at the queue's length only.
LenIgnoringRetries == wq.queued # {}
HasCountedWork     == requeueCounter > 0 \/ wq.queued # {}

CheckLen ==
  /\ pc = "check_len"
  /\ pc' = IF HasCountedWork THEN "idle" ELSE "check_synced"
  /\ UNCHANGED <<listenerVars, wq, pollerVars, requeueCounter, batchVars,
                 outcomeVars, historyVars>>

CheckSynced ==
  /\ pc = "check_synced"
  /\ pc' = IF handlerSynced THEN "check_pending" ELSE "idle"
  /\ UNCHANGED <<listenerVars, wq, pollerVars, requeueCounter, batchVars,
                 outcomeVars, historyVars>>

CheckPending ==
  /\ pc = "check_pending"
  /\ pc' = IF results # None \/ batch # {} THEN "idle" ELSE "drain"
  /\ StartPoller
  /\ UNCHANGED <<listenerVars, wq, hand, results, requeueCounter, batchVars,
                 outcomeVars, historyVars>>

\* queueIdle reads Len() and then HasPending().  Only the loop empties the
\* channel, so the two reads give what they would give at once.
\* Fault: the loop flushes full and old batches only.
NeverFlushes == FALSE
FlushNow     == batch # {} /\ wq.queued = {} /\ results = None

FlushWhenIdle ==
  /\ pc = "idle" /\ FlushNow
  /\ ProcessBatch(TRUE)
  /\ pc' = "check_len"
  /\ StartPoller
  /\ UNCHANGED <<hand, results>>

ProcessNext ==
  /\ pc = "idle" /\ ~FlushNow
  /\ pc' = "next"
  /\ IF wq.queued = {} THEN StartPoller ELSE UNCHANGED poller
  /\ UNCHANGED <<listenerVars, wq, hand, results, requeueCounter, batchVars,
                 outcomeVars, historyVars>>

-----------------------------------------------------------------------------
(* processNextWorkItemWithBatching with a get timeout of zero: flush if the *)
(* batch is full or old, else wait in poller.Get until something arrives.   *)

ShouldFlush == Cardinality(batch) >= MaxBatchSize \/ timedOut

FlushWhenDue ==
  /\ pc = "next" /\ ShouldFlush
  /\ ProcessBatch(TRUE)
  /\ pc' = "check_len"
  /\ UNCHANGED pollerVars

AwaitItem ==
  /\ pc = "next" /\ ~ShouldFlush
  /\ pc' = "get"
  /\ StartPoller
  /\ UNCHANGED <<listenerVars, wq, hand, results, requeueCounter, batchVars,
                 outcomeVars, historyVars>>

ReceiveShutdown ==
  /\ pc = "get" /\ results = Closed
  /\ results' = None
  /\ pc' = "drain"
  /\ UNCHANGED <<listenerVars, wq, poller, hand, requeueCounter, batchVars,
                 outcomeVars, historyVars>>

\* Receiving an item and processWorkqueueObjectWithBatching.  The receive and
\* the work are one step: all the work reads is the loop's own, or (the cache,
\* the mapping) may have any value.
Receive(i) ==
  /\ pc = "get" /\ results = i
  /\ results' = None
  /\ pc' = "check_len"
  /\ UNCHANGED <<listenerVars, poller, hand, timedOut, outcomeVars, dropped>>

\* Fault: a retry that arrived is still counted.
NoDecrement(i) == 0

\* NumRequeues() tells a retry from a first attempt.
RequeueDiff(i) == IF wq.failures[i] > 0 THEN -1 ELSE 0

\* Fault: an early return that leaves the completion to the batch.
NotCompleted(i) ==
  /\ Receive(i)
  /\ requeueCounter' = requeueCounter + RequeueDiff(i)
  /\ UNCHANGED <<wq, batch, hasErrors, mapped, unmappable>>

\* The object left the cache, or a selector dropped all it maps to.  (GetByKey of
\* the informer's indexer returns no error.)
NoEntities(i) ==
  /\ Receive(i)
  /\ wq' = Complete(wq, {i})
  /\ requeueCounter' = requeueCounter + RequeueDiff(i)
  /\ UNCHANGED <<batch, hasErrors, mapped, unmappable>>

\* getObjectEntities failed: MarkError and failItem.
MappingFailed(i) ==
  /\ Receive(i)
  /\ hasErrors' = TRUE
  /\ unmappable' = unmappable \cup {i}
  /\ IF wq.failures[i] >= MaxNumRequeues
       THEN /\ wq' = Complete(wq, {i})
            /\ requeueCounter' = requeueCounter + RequeueDiff(i)
       ELSE /\ wq' = Requeue(wq, {i})
            /\ requeueCounter' = requeueCounter + IF wq.failures[i] = 0 THEN 1 ELSE 0
  /\ UNCHANGED <<batch, mapped>>

\* The item stays in processing until its entities are written.
DeferToBatch(i) ==
  /\ Receive(i)
  /\ \E E \in (SUBSET EntitiesOf[i]) \ {{}} :
       /\ batch' = batch \cup ({i} \X E)
       /\ mapped' = mapped \cup E
  /\ requeueCounter' = requeueCounter + RequeueDiff(i)
  /\ UNCHANGED <<wq, hasErrors, unmappable>>

\* Fault: what the batch holds when the queue shuts down is not written.
ReturnWithoutFlush ==
  /\ pc = "drain"
  /\ pc' = "returned"
  /\ shouldDelete' = (shouldDelete /\ ~hasErrors)
  /\ UNCHANGED <<listenerVars, wq, pollerVars, requeueCounter, batchVars,
                 entitiesSet, historyVars>>

\* After the loop: ProcessRemaining, which requeues nothing, and HasErrors.
\* With an empty batch ProcessBatch only reads hasErrors.
Drain ==
  /\ pc = "drain"
  /\ ProcessBatch(FALSE)
  /\ pc' = "returned"
  /\ UNCHANGED pollerVars

-----------------------------------------------------------------------------

Listener == HandlerSynced \/ \E i \in Item : OnAdd(i)

Poller == PollerGetShutdown \/ PollerSend \/ \E i \in Item : PollerGet(i)

ProcessObject(i) == NoEntities(i) \/ MappingFailed(i) \/ DeferToBatch(i)

Loop ==
  \/ CheckLen \/ CheckSynced \/ CheckPending
  \/ FlushWhenIdle \/ ProcessNext \/ FlushWhenDue \/ AwaitItem
  \/ ReceiveShutdown \/ Drain
  \/ \E i \in Item : ProcessObject(i)

Retry == \E i \in Item : RetryDue(i)

Next == Listener \/ Poller \/ Loop \/ Retry \/ BatchTimeout \/ Shutdown

Spec == Init /\ [][Next]_vars

\* Every goroutine that can run does, and a rate limit ends.  Nothing makes the
\* timeout or a shutdown happen.
Fairness ==
  /\ WF_vars(Listener) /\ WF_vars(Poller) /\ WF_vars(Loop)
  /\ \A i \in Item : WF_vars(RetryDue(i))

FairSpec == Spec /\ Fairness
-----------------------------------------------------------------------------
(* Properties.                                                              *)

Held == ({hand, results} \cap Item) \cup BatchItems

\* Every work item taken from the queue is held by exactly one of the poller,
\* the channel and the batch until it is completed or requeued, and an item is in
\* one place only: no early return of processWorkqueueObjectWithBatching and no
\* outcome of a flush loses an item between Get and Done, or handles it twice.
WorkItemsHeld ==
  /\ wq.processing = Held
  /\ hand \in Item => hand # results /\ hand \notin BatchItems
  /\ results \in Item => results \notin BatchItems
  /\ toDeliver \cap (wq.queued \cup wq.delayed \cup Held) = {}
  /\ wq.queued \cap (wq.delayed \cup Held) = {}
  /\ wq.delayed \cap Held = {}

\* The comment above the loop: Get(0) is never called while only the batch
\* collector has work, which would wait for ever for a queue nobody fills.
NeverBlockedOnBatch ==
  pc = "get" /\ batch # {} => wq.queued # {} \/ hand # None \/ results # None

\* The deletion of stale entities is allowed only if every entity the sync ever
\* mapped was written at some point and no mapping ever failed, whatever was
\* retried, given up, flushed early or flushed at shutdown in between.
StaleDeleteSafe ==
  pc = "returned" /\ shouldDelete => mapped \subseteq entitiesSet /\ unmappable = {}

\* requeueCounter covers every retry that waits for its rate limit or travels
\* back to the loop: unless the queue was shut down, RunInitialSync returns only
\* when no failed item is still to be tried again.
RetriesAwaited ==
  pc = "returned" /\ ~wq.down =>
    wq.delayed = {} /\ \A i \in Item : wq.failures[i] = 0

\* TestBatchCollectorPermanentFailureTakesPrecedenceOverRetryableFailure: an item
\* with a permanent write failure is completed, never tried again.
PermanentTakesPrecedence == dropped \cap wq.delayed = {}

\* RunInitialSync returns after all the listed objects went through it; only then
\* may an entity it does not report be stale.
ReturnsAfterWholeListing ==
  pc = "returned" /\ ~wq.down /\ shouldDelete =>
    toDeliver \cup wq.queued \cup wq.processing = {}

\* Once the handler has synced, a loop that evaluates its condition returns in
\* the end: it never waits in Get(0) for an item that will not come.
SyncReturns == (handlerSynced /\ pc = "check_len") ~> (pc = "returned")

\* The strengthenings that make the properties inductive: where each item is,
\* why the loop may wait, what the counter counts, and what was reported.
PlacesInv ==
  /\ WorkItemsHeld
  /\ wq.dirty = wq.queued
  /\ wq.down => wq.delayed = {}
  /\ hand = Closed \/ results = Closed => wq.down

WaitInv ==
  pc \in {"next", "get"} /\ batch # {} =>
    wq.queued # {} \/ hand # None \/ results # None

\* Items outside the batch that failed before, or that the queue holds back.
RetriedItems ==
  {i \in Item \ BatchItems : wq.failures[i] > 0 \/ i \in wq.delayed}

CounterInv ==
  /\ requeueCounter >= Cardinality(RetriedItems)
  /\ pc \in {"check_synced", "check_pending"} => requeueCounter <= 0
  /\ pc = "drain" => wq.down \/ (requeueCounter <= 0 /\ batch = {})
  /\ pc = "returned" => batch = {} /\ (wq.down \/ requeueCounter <= 0)

ReportInv ==
  /\ shouldDelete => mapped \subseteq entitiesSet \cup BatchEntities
  /\ unmappable # {} => hasErrors
  /\ pc = "returned" => batch = {} /\ (shouldDelete => ~hasErrors)

\* The sync implements the contract: a flush settles the open entities.
Contract == INSTANCE SyncContract WITH
  open      <- BatchEntities,
  reported  <- entitiesSet,
  mayDelete <- shouldDelete /\ ~hasErrors,
  finished  <- pc = "returned"
ImplementsContract == Contract!Spec
==============================================================================
