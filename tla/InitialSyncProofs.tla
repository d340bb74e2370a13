-------------------------- MODULE InitialSyncProofs --------------------------
(***************************************************************************)
(* Proofs about InitialSync, for any items, mappings, retry limit and batch *)
(* size.                                                                    *)
(***************************************************************************)
EXTENDS InitialSync, WorkQueueProofs, FiniteSetTheorems

Queue == QueueType(Item, MaxNumRequeues)

-----------------------------------------------------------------------------
(* The facts about work queues, for this one.                               *)

\* Completing items of the sync's queue.
LEMMA ItemsCompleted ==
  ASSUME NEW q \in Queue, NEW C \in SUBSET Item
  PROVE  /\ Complete(q, C) \in Queue
         /\ GivenBack(Item, q, Complete(q, C), C, {})
  BY CompleteGivesBack, RequeueLimit DEF Queue

\* Requeueing items of the sync's queue that may still be retried.
LEMMA ItemsRequeued ==
  ASSUME NEW q \in Queue, NEW R \in SUBSET Item,
         \A i \in R : q.failures[i] < MaxNumRequeues
  PROVE  /\ Requeue(q, R) \in Queue
         /\ GivenBack(Item, q, Requeue(q, R), {}, R)
  BY RequeueGivesBack, RequeueLimit DEF Queue

\* What a flush does to the sync's queue, all its items together.
LEMMA BatchGivenBack ==
  ASSUME NEW q \in Queue,
         NEW C \in SUBSET Item, NEW R \in SUBSET Item, NEW P \in SUBSET Item,
         C \cap R = {}, \A i \in R : q.failures[i] < MaxNumRequeues
  PROVE  LET r == Complete(Requeue(Complete(q, C), R), P)
         IN r \in Queue /\ GivenBack(Item, q, r, C \cup P, R)
  BY FlushGivesBack, RequeueLimit DEF Queue

-----------------------------------------------------------------------------
(* Type correctness.                                                        *)

\* No item is in the batch with two entities.
OneEntryEach == \A b, c \in batch : b[1] = c[1] => b = c

\* A flush gives every item of the batch back: those of R for another try, the
\* others for good; an item can be in both sets only if it has several entities.
LEMMA FlushEffect ==
  ASSUME TypeOK, NEW allowRequeue \in BOOLEAN, ProcessBatch(allowRequeue)
  PROVE  /\ wq' \in Queue
         /\ \E C, R \in SUBSET Item :
              /\ C \cup R = BatchItems
              /\ GivenBack(Item, wq, wq', C, R)
              /\ requeueCounter' = requeueCounter + Cardinality(R)
              /\ ~allowRequeue => R = {}
              /\ OneEntryEach => C \cap R = {}
  <1>1. PICK outcome \in [batch -> Outcome] :
          LET permanent == ItemsWith(outcome, "permanent")
              retryable == ItemsWith(outcome, "retry")
          IN \E late \in SUBSET (permanent \cap retryable) :
               LET requeued  == Requeued((retryable \ permanent) \cup late,
                                         allowRequeue)
                   completed == BatchItems \ (requeued \cup permanent)
               IN /\ wq' = Complete(Requeue(Complete(wq, completed), requeued),
                                    permanent)
                  /\ requeueCounter' = requeueCounter + Cardinality(requeued)
    BY DEF ProcessBatch
  <1>. DEFINE P == ItemsWith(outcome, "permanent")
              T == ItemsWith(outcome, "retry")
  <1>2. PICK late \in SUBSET (P \cap T) :
          LET requeued  == Requeued((T \ P) \cup late, allowRequeue)
              completed == BatchItems \ (requeued \cup P)
          IN /\ wq' = Complete(Requeue(Complete(wq, completed), requeued), P)
             /\ requeueCounter' = requeueCounter + Cardinality(requeued)
    BY <1>1
  <1>. DEFINE R == Requeued((T \ P) \cup late, allowRequeue)
              C == BatchItems \ (R \cup P)
  <1>3. BatchItems \in SUBSET Item
    BY DEF TypeOK, BatchItems
  <1>4. P \in SUBSET BatchItems /\ T \in SUBSET BatchItems
    BY DEF ItemsWith, BatchItems
  <1>10. OneEntryEach => P \cap T = {}
    <2>. SUFFICES ASSUME OneEntryEach, NEW i \in P \cap T PROVE FALSE
      OBVIOUS
    <2>1. PICK b, c \in batch : /\ b[1] = i /\ outcome[b] = "permanent"
                               /\ c[1] = i /\ outcome[c] = "retry"
      BY DEF ItemsWith
    <2>. QED  BY <2>1 DEF OneEntryEach
  <1>. HIDE DEF P, T
  <1>11. OneEntryEach => P \cap R = {}
    BY <1>10 DEF Requeued
  <1>5. /\ R \in SUBSET BatchItems
        /\ \A i \in R : wq.failures[i] < MaxNumRequeues
        /\ ~allowRequeue => R = {}
    BY <1>4 DEF Requeued
  <1>6. /\ wq' = Complete(Requeue(Complete(wq, C), R), P)
        /\ requeueCounter' = requeueCounter + Cardinality(R)
    BY <1>2
  <1>. HIDE DEF R
  <1>7. wq \in Queue
    BY DEF TypeOK, Queue
  <1>8. wq' \in Queue /\ GivenBack(Item, wq, wq', C \cup P, R)
    <2>1. C \in SUBSET Item /\ R \in SUBSET Item /\ P \in SUBSET Item /\ C \cap R = {}
      BY <1>3, <1>4, <1>5
    <2>. HIDE DEF C
    <2>. QED  BY <1>5, <1>6, <1>7, <2>1, BatchGivenBack
  <1>9. (C \cup P) \cup R = BatchItems
    BY <1>4, <1>5
  <1>12. OneEntryEach => (C \cup P) \cap R = {}
    BY <1>11
  <1>. QED  BY <1>3, <1>4, <1>5, <1>6, <1>8, <1>9, <1>12

\* The rest of a flush: what it writes outside the queue and the counter.
LEMMA FlushType ==
  ASSUME TypeOK, NEW allowRequeue \in BOOLEAN, ProcessBatch(allowRequeue)
  PROVE  /\ requeueCounter' \in Int
         /\ batch' = {} /\ timedOut' = FALSE /\ hasErrors' = hasErrors
         /\ shouldDelete' \in BOOLEAN
         /\ entitiesSet' \in SUBSET Entity
         /\ dropped' \in SUBSET Item
         /\ UNCHANGED <<toDeliver, handlerSynced, mapped, unmappable>>
  <1>1. PICK outcome \in [batch -> Outcome] :
          /\ entitiesSet' = entitiesSet \cup EntitiesWith(outcome, "ok")
          /\ shouldDelete' = (shouldDelete /\ ~hasErrors /\ Clean(outcome))
          /\ batch' = {} /\ timedOut' = FALSE
          /\ dropped' = dropped \cup ItemsWith(outcome, "permanent")
          /\ UNCHANGED <<listenerVars, hasErrors, mapped, unmappable>>
    BY DEF ProcessBatch
  <1>2. /\ EntitiesWith(outcome, "ok") \in SUBSET Entity
        /\ ItemsWith(outcome, "permanent") \in SUBSET Item
    BY DEF TypeOK, EntitiesWith, ItemsWith
  <1>3. requeueCounter' \in Int
    <2>1. PICK C, R \in SUBSET Item :
            requeueCounter' = requeueCounter + Cardinality(R)
      BY FlushEffect
    <2>2. Cardinality(R) \in Nat
      BY FiniteItems, FS_Subset, FS_CardinalityType
    <2>. QED  BY <2>1, <2>2 DEF TypeOK
  <1>4. shouldDelete' \in BOOLEAN
    BY <1>1
  <1>. QED  BY <1>1, <1>2, <1>3, <1>4 DEF TypeOK, listenerVars

\* Every variable keeps its type; in particular an item is never requeued more
\* than MaxNumRequeues times in a row.
THEOREM TypeCorrect == Spec => []TypeOK
<1>. USE DEF Queue
<1>1. Init => TypeOK
  <2>. SUFFICES ASSUME Init  PROVE TypeOK
    OBVIOUS
  <2>1. wq \in Queue
    BY RequeueLimit DEF Init, NewQueue, QueueType
  <2>2. handlerSynced \in BOOLEAN
    BY DEF Init
  <2>3. /\ timedOut \in BOOLEAN /\ hasErrors \in BOOLEAN
        /\ shouldDelete \in BOOLEAN
    BY DEF Init
  <2>4. batch \in SUBSET (Item \X Entity)
    BY DEF Init
  <2>5. /\ toDeliver \in SUBSET Item
        /\ poller \in {"off", "polling", "ended"}
        /\ hand \in Item \cup {None, Closed} /\ results \in Item \cup {None, Closed}
        /\ pc \in LoopPc /\ requeueCounter \in Int
        /\ entitiesSet \in SUBSET Entity /\ mapped \in SUBSET Entity
        /\ unmappable \in SUBSET Item /\ dropped \in SUBSET Item
    BY DEF Init, LoopPc
  <2>. QED  BY <2>1, <2>2, <2>3, <2>4, <2>5 DEF TypeOK
<1>2. TypeOK /\ [Next]_vars => TypeOK'
  <2>. SUFFICES ASSUME TypeOK, [Next]_vars  PROVE TypeOK'
    OBVIOUS
  <2>. USE DEF TypeOK, listenerVars, pollerVars, batchVars, outcomeVars,
               historyVars, LoopPc
  <2>1. CASE Listener
    <3>1. CASE HandlerSynced
      BY <3>1 DEF HandlerSynced
    <3>2. ASSUME NEW i \in Item, OnAdd(i)  PROVE TypeOK'
      <4>1. wq' \in Queue
        BY <3>2 DEF OnAdd, Add, QueueType
      <4>. QED  BY <3>2, <4>1 DEF OnAdd
    <3>. QED  BY <2>1, <3>1, <3>2 DEF Listener
  <2>2. CASE Poller
    <3>1. CASE PollerGetShutdown
      BY <3>1 DEF PollerGetShutdown
    <3>2. CASE PollerSend
      BY <3>2 DEF PollerSend
    <3>3. ASSUME NEW i \in Item, PollerGet(i)  PROVE TypeOK'
      <4>1. wq' \in Queue
        BY <3>3 DEF PollerGet, Get, QueueType
      <4>. QED  BY <3>3, <4>1 DEF PollerGet
    <3>. QED  BY <2>2, <3>1, <3>2, <3>3 DEF Poller
  <2>3. CASE Retry
    <3>. PICK i \in Item : RetryDue(i)
      BY <2>3 DEF Retry
    <3>1. wq' \in Queue
      BY DEF RetryDue, DelayOver, Add, QueueType
    <3>. QED  BY <3>1 DEF RetryDue
  <2>4. CASE BatchTimeout
    BY <2>4 DEF BatchTimeout
  <2>5. CASE Shutdown
    <3>1. wq' \in Queue
      BY <2>5 DEF Shutdown, ShutDown, QueueType
    <3>. QED  BY <2>5, <3>1 DEF Shutdown
  <2>6. CASE Loop
    <3>1. CASE CheckLen
      BY <3>1 DEF CheckLen
    <3>2. CASE CheckSynced
      BY <3>2 DEF CheckSynced
    <3>3. CASE CheckPending
      BY <3>3 DEF CheckPending, StartPoller
    <3>4. CASE ProcessNext
      BY <3>4 DEF ProcessNext, StartPoller
    <3>5. CASE AwaitItem
      BY <3>5 DEF AwaitItem, StartPoller
    <3>6. CASE ReceiveShutdown
      BY <3>6 DEF ReceiveShutdown
    <3>7. CASE FlushWhenIdle
      <4>. ProcessBatch(TRUE)
        BY <3>7 DEF FlushWhenIdle
      <4>. QED  BY <3>7, FlushEffect, FlushType DEF FlushWhenIdle, StartPoller
    <3>8. CASE FlushWhenDue
      <4>. ProcessBatch(TRUE)
        BY <3>8 DEF FlushWhenDue
      <4>. QED  BY <3>8, FlushEffect, FlushType DEF FlushWhenDue
    <3>9. CASE Drain
      <4>. ProcessBatch(FALSE)
        BY <3>9 DEF Drain
      <4>. QED  BY <3>9, FlushEffect, FlushType DEF Drain
    <3>10. ASSUME NEW i \in Item, ProcessObject(i)  PROVE TypeOK'
      <4>1. CASE NoEntities(i)
        <5>1. wq' \in Queue
          BY <4>1, ItemsCompleted DEF NoEntities
        <5>. QED  BY <4>1, <5>1 DEF NoEntities, Receive, RequeueDiff
      <4>2. CASE MappingFailed(i)
        <5>1. wq' \in Queue
          <6>1. wq.failures[i] >= MaxNumRequeues \/ wq.failures[i] < MaxNumRequeues
            BY RequeueLimit DEF QueueType
          <6>. QED  BY <4>2, <6>1, ItemsCompleted, ItemsRequeued
                    DEF MappingFailed
        <5>2. requeueCounter' \in Int
          BY <4>2 DEF MappingFailed, RequeueDiff
        <5>. QED  BY <4>2, <5>1, <5>2 DEF MappingFailed, Receive
      <4>3. CASE DeferToBatch(i)
        <5>1. batch' \in SUBSET (Item \X Entity) /\ mapped' \in SUBSET Entity
          BY <4>3, MappingDomain DEF DeferToBatch
        <5>. QED  BY <4>3, <5>1 DEF DeferToBatch, Receive, RequeueDiff
      <4>. QED  BY <3>10, <4>1, <4>2, <4>3 DEF ProcessObject
    <3>. QED  BY <2>6, <3>1, <3>2, <3>3, <3>4, <3>5, <3>6, <3>7, <3>8, <3>9, <3>10
              DEF Loop
  <2>7. CASE UNCHANGED vars
    BY <2>7 DEF vars
  <2>. QED  BY <2>1, <2>2, <2>3, <2>4, <2>5, <2>6, <2>7 DEF Next
<1>. QED  BY <1>1, <1>2, PTL DEF Spec
-----------------------------------------------------------------------------
(* Where the items are.                                                     *)

\* The invariant speaks of these variables only; CheckLen and its like leave them
\* alone.
placeVars == <<toDeliver, wq, hand, results, batch>>

\* A step that moves no item keeps the places.
LEMMA PlacesFrame ==
  ASSUME PlacesInv, UNCHANGED placeVars
  PROVE  PlacesInv'
  BY DEF PlacesInv, WorkItemsHeld, Held, BatchItems, placeVars

\* Receiving item i and giving it back, completed or requeued.
LEMMA PlacesGiveBack ==
  ASSUME TypeOK, PlacesInv, NEW i \in Item, results = i, results' = None,
         UNCHANGED <<toDeliver, hand, batch>>,
         NEW C \in SUBSET Item, NEW R \in SUBSET Item, C \cup R = {i},
         GivenBack(Item, wq, wq', C, R)
  PROVE  PlacesInv'
  <1>1. i \notin wq.dirty /\ hand # i /\ i \notin BatchItems
    BY DEF PlacesInv, WorkItemsHeld, Held
  <1>2. BatchItems' = BatchItems /\ Held' = Held \ {i}
    BY <1>1, NotItems DEF Held, BatchItems
  <1>3. /\ wq'.processing = wq.processing \ {i}
        /\ wq'.queued = wq.queued /\ wq'.dirty = wq.dirty /\ wq'.down = wq.down
        /\ wq'.delayed \subseteq wq.delayed \cup {i}
        /\ wq.down => wq'.delayed = wq.delayed
    BY <1>1 DEF GivenBack
  <1>4. i \in Held
    BY DEF Held
  <1>. QED  BY <1>1, <1>2, <1>3, <1>4, NotItems DEF PlacesInv, WorkItemsHeld

\* A flush gives back the items of the batch and empties it.
LEMMA PlacesFlush ==
  ASSUME TypeOK, PlacesInv, NEW allowRequeue \in BOOLEAN,
         ProcessBatch(allowRequeue), UNCHANGED <<hand, results>>
  PROVE  PlacesInv'
  <1>1. PICK C, R \in SUBSET Item :
          C \cup R = BatchItems /\ GivenBack(Item, wq, wq', C, R)
    BY FlushEffect
  <1>2. batch' = {} /\ toDeliver' = toDeliver
    BY FlushType
  <1>3. BatchItems' = {} /\ Held' = Held \ BatchItems
    BY <1>2 DEF BatchItems, Held, PlacesInv, WorkItemsHeld
  <1>4. BatchItems \subseteq Held /\ BatchItems \cap wq.dirty = {}
    BY DEF Held, PlacesInv, WorkItemsHeld
  <1>5. /\ wq'.processing = wq.processing \ BatchItems
        /\ wq'.queued = wq.queued /\ wq'.dirty = wq.dirty /\ wq'.down = wq.down
        /\ wq'.delayed \subseteq wq.delayed \cup BatchItems
        /\ wq.down => wq'.delayed = wq.delayed
    BY <1>1, <1>4 DEF GivenBack
  <1>. QED  BY <1>2, <1>3, <1>4, <1>5 DEF PlacesInv, WorkItemsHeld

\* An item deferred with at least one entity joins the batch.
LEMMA DeferJoins ==
  ASSUME NEW i \in Item, DeferToBatch(i)
  PROVE  /\ BatchItems' = BatchItems \cup {i}
         /\ BatchEntities \subseteq BatchEntities'
         /\ mapped' \subseteq mapped \cup BatchEntities'
  <1>1. PICK E \in (SUBSET EntitiesOf[i]) \ {{}} :
          batch' = batch \cup ({i} \X E) /\ mapped' = mapped \cup E
    BY DEF DeferToBatch
  <1>2. PICK e \in E : TRUE
    BY <1>1
  <1>3. \A b \in {i} \X E : b[1] = i /\ b[2] \in E
    OBVIOUS
  <1>4. <<i, e>> \in batch' /\ <<i, e>>[1] = i
    BY <1>1, <1>2
  <1>5. BatchItems' \subseteq BatchItems \cup {i}
    BY <1>1, <1>3 DEF BatchItems
  <1>6. BatchItems \subseteq BatchItems' /\ BatchEntities \subseteq BatchEntities'
    BY <1>1 DEF BatchItems, BatchEntities
  <1>7. i \in BatchItems'
    BY <1>4 DEF BatchItems
  <1>8. E \subseteq BatchEntities'
    <2>1. ASSUME NEW x \in E  PROVE x \in BatchEntities'
      <3>1. <<i, x>> \in batch' /\ <<i, x>>[2] = x
        BY <1>1
      <3>. QED  BY <3>1 DEF BatchEntities
    <2>. QED  BY <2>1
  <1>. QED  BY <1>1, <1>5, <1>6, <1>7, <1>8

\* No goroutine's step puts an item in two places or loses it.
LEMMA PlacesInductive ==
  ASSUME TypeOK, PlacesInv, [Next]_vars
  PROVE  PlacesInv'
<1>. USE DEF listenerVars, pollerVars, batchVars, outcomeVars, historyVars
<1>1. CASE Listener
  <2>1. CASE HandlerSynced
    BY <2>1, PlacesFrame DEF HandlerSynced, placeVars
  <2>2. ASSUME NEW i \in Item, OnAdd(i)  PROVE PlacesInv'
    <3>1. Held' = Held /\ BatchItems' = BatchItems
      BY <2>2 DEF OnAdd, Held, BatchItems
    <3>2. i \notin wq.processing /\ i \notin wq.delayed
      BY <2>2 DEF OnAdd, PlacesInv, WorkItemsHeld
    <3>3. /\ wq'.queued = IF wq.down THEN wq.queued ELSE wq.queued \cup {i}
          /\ wq'.dirty = wq'.queued /\ wq'.down = wq.down
          /\ wq'.processing = wq.processing /\ wq'.delayed = wq.delayed
      <4>1. wq' = Add(wq, {i}) /\ wq.dirty = wq.queued
        BY <2>2 DEF OnAdd, PlacesInv
      <4>2. wq \in QueueType(Item, MaxNumRequeues)
        BY DEF TypeOK
      <4>3. CASE wq.down
        BY <4>1, <4>3 DEF Add
      <4>4. CASE ~wq.down
        BY <3>2, <4>1, <4>2, <4>4 DEF Add, QueueType
      <4>. QED  BY <4>3, <4>4
    <3>. QED  BY <2>2, <3>1, <3>2, <3>3 DEF OnAdd, PlacesInv, WorkItemsHeld
  <2>. QED  BY <1>1, <2>1, <2>2 DEF Listener
<1>2. CASE Poller
  <2>1. CASE PollerGetShutdown
    <3>1. Held' = Held /\ BatchItems' = BatchItems
      BY <2>1, NotItems DEF PollerGetShutdown, Held, BatchItems
    <3>. QED  BY <2>1, <3>1, NotItems DEF PollerGetShutdown, PlacesInv, WorkItemsHeld
  <2>2. CASE PollerSend
    <3>1. Held' = Held /\ BatchItems' = BatchItems
      BY <2>2, NotItems DEF PollerSend, Held, BatchItems
    <3>. QED  BY <2>2, <3>1, NotItems DEF PollerSend, PlacesInv, WorkItemsHeld
  <2>3. ASSUME NEW i \in Item, PollerGet(i)  PROVE PlacesInv'
    <3>1. Held' = Held \cup {i} /\ BatchItems' = BatchItems
      BY <2>3, NotItems DEF PollerGet, Held, BatchItems
    <3>2. i \notin Held /\ i \notin toDeliver /\ i \notin wq.delayed
      BY <2>3 DEF PollerGet, PlacesInv, WorkItemsHeld
    <3>3. /\ wq'.queued = wq.queued \ {i} /\ wq'.dirty = wq.dirty \ {i}
          /\ wq'.processing = wq.processing \cup {i}
          /\ wq'.delayed = wq.delayed /\ wq'.down = wq.down
      BY <2>3 DEF PollerGet, Get, TypeOK, QueueType
    <3>4. hand' = i /\ results' = results /\ toDeliver' = toDeliver
      BY <2>3 DEF PollerGet
    <3>5. i # results /\ i \notin BatchItems /\ i # Closed
      BY <3>2, NotItems DEF Held
    <3>. QED  BY <3>1, <3>2, <3>3, <3>4, <3>5 DEF PlacesInv, WorkItemsHeld
  <2>. QED  BY <1>2, <2>1, <2>2, <2>3 DEF Poller
<1>3. CASE Retry
  <2>. PICK i \in Item : RetryDue(i)
    BY <1>3 DEF Retry
  <2>1. Held' = Held /\ BatchItems' = BatchItems
    BY DEF RetryDue, Held, BatchItems
  <2>2. i \in wq.delayed /\ ~wq.down /\ i \notin wq.processing
    BY DEF RetryDue, PlacesInv, WorkItemsHeld
  <2>3. /\ wq'.queued = wq.queued \cup {i} /\ wq'.dirty = wq'.queued
        /\ wq'.processing = wq.processing
        /\ wq'.delayed = wq.delayed \ {i} /\ wq'.down = wq.down
    BY <2>2 DEF RetryDue, DelayOver, Add, TypeOK, QueueType, PlacesInv
  <2>. QED  BY <2>1, <2>2, <2>3 DEF RetryDue, PlacesInv, WorkItemsHeld
<1>4. CASE BatchTimeout
  BY <1>4, PlacesFrame DEF BatchTimeout, placeVars
<1>5. CASE Shutdown
  <2>1. Held' = Held /\ BatchItems' = BatchItems
    BY <1>5 DEF Shutdown, Held, BatchItems
  <2>2. /\ wq'.queued = wq.queued /\ wq'.dirty = wq.dirty
        /\ wq'.processing = wq.processing /\ wq'.delayed = {} /\ wq'.down = TRUE
    BY <1>5 DEF Shutdown, ShutDown, TypeOK, QueueType
  <2>. QED  BY <1>5, <2>1, <2>2 DEF Shutdown, PlacesInv, WorkItemsHeld
<1>6. CASE Loop
  <2>1. CASE CheckLen \/ CheckSynced \/ CheckPending \/ ProcessNext \/ AwaitItem
    BY <2>1, PlacesFrame
       DEF CheckLen, CheckSynced, CheckPending, ProcessNext, AwaitItem, placeVars
  <2>2. CASE ReceiveShutdown
    <3>1. Held' = Held /\ BatchItems' = BatchItems
      BY <2>2, NotItems DEF ReceiveShutdown, Held, BatchItems
    <3>. QED  BY <2>2, <3>1, NotItems DEF ReceiveShutdown, PlacesInv, WorkItemsHeld
  <2>3. CASE FlushWhenIdle \/ FlushWhenDue \/ Drain
    BY <2>3, PlacesFlush DEF FlushWhenIdle, FlushWhenDue, Drain
  <2>4. ASSUME NEW i \in Item, ProcessObject(i)  PROVE PlacesInv'
    <3>. wq \in Queue
      BY DEF TypeOK, Queue
    <3>1. CASE NoEntities(i)
      <4>1. GivenBack(Item, wq, wq', {i}, {})
        BY <3>1, ItemsCompleted DEF NoEntities
      <4>. QED  BY <3>1, <4>1, PlacesGiveBack DEF NoEntities, Receive
    <3>2. CASE MappingFailed(i)
      <4>1. CASE wq.failures[i] >= MaxNumRequeues
        <5>1. GivenBack(Item, wq, wq', {i}, {})
          BY <3>2, <4>1, ItemsCompleted DEF MappingFailed
        <5>. QED  BY <3>2, <5>1, PlacesGiveBack DEF MappingFailed, Receive
      <4>2. CASE ~(wq.failures[i] >= MaxNumRequeues)
        <5>1. wq.failures[i] < MaxNumRequeues
          BY <4>2, RequeueLimit DEF Queue, QueueType
        <5>2. GivenBack(Item, wq, wq', {}, {i})
          BY <3>2, <4>2, <5>1, ItemsRequeued DEF MappingFailed
        <5>. QED  BY <3>2, <5>2, PlacesGiveBack DEF MappingFailed, Receive
      <4>. QED  BY <4>1, <4>2
    <3>3. CASE DeferToBatch(i)
      <4>1. BatchItems' = BatchItems \cup {i}
        BY <3>3, DeferJoins
      <4>2. /\ results = i /\ results' = None
            /\ UNCHANGED <<toDeliver, hand, wq>>
        BY <3>3 DEF DeferToBatch, Receive
      <4>3. Held' = Held
        BY <4>1, <4>2, NotItems DEF Held
      <4>. QED  BY <4>1, <4>2, <4>3, NotItems DEF PlacesInv, WorkItemsHeld
    <3>. QED  BY <2>4, <3>1, <3>2, <3>3 DEF ProcessObject
  <2>. QED  BY <1>6, <2>1, <2>2, <2>3, <2>4 DEF Loop
<1>7. CASE UNCHANGED vars
  BY <1>7, PlacesFrame DEF vars, placeVars
<1>. QED  BY <1>1, <1>2, <1>3, <1>4, <1>5, <1>6, <1>7 DEF Next

\* Every item is where the invariant says, in every reachable state.
THEOREM Places == Spec => []PlacesInv
<1>1. Init => PlacesInv
  <2>. SUFFICES ASSUME Init  PROVE PlacesInv
    OBVIOUS
  <2>1. /\ wq.queued = Item \ toDeliver /\ wq.dirty = wq.queued
        /\ wq.processing = {} /\ wq.delayed = {} /\ wq.down = FALSE
    BY DEF Init, NewQueue
  <2>2. Held = {} /\ BatchItems = {} /\ hand = None /\ results = None
    BY NotItems DEF Init, Held, BatchItems
  <2>. QED  BY <2>1, <2>2, NotItems DEF PlacesInv, WorkItemsHeld
<1>. QED  BY <1>1, PlacesInductive, TypeCorrect, PTL DEF Spec

\* Every item taken from the work queue is held by exactly one of the poller, the
\* channel and the batch until the exporter gives it back.
THEOREM NoItemLeaks == Spec => []WorkItemsHeld
<1>1. PlacesInv => WorkItemsHeld
  BY DEF PlacesInv
<1>. QED  BY <1>1, Places, PTL
-----------------------------------------------------------------------------
(* The loop waits only for what can come.                                   *)

\* A loop that waits still has something to wait for after any step.
LEMMA WaitInductive ==
  ASSUME TypeOK, WaitInv, [Next]_vars
  PROVE  WaitInv'
<1>. USE DEF WaitInv, listenerVars, pollerVars, batchVars, outcomeVars, historyVars
<1>1. ASSUME NEW i \in Item, OnAdd(i)  PROVE WaitInv'
  <2>1. wq.queued \subseteq wq'.queued
    BY <1>1 DEF OnAdd, Add, TypeOK, QueueType
  <2>. QED  BY <1>1, <2>1 DEF OnAdd
<1>2. ASSUME NEW i \in Item, RetryDue(i)  PROVE WaitInv'
  <2>1. wq.queued \subseteq wq'.queued
    BY <1>2 DEF RetryDue, DelayOver, Add, TypeOK, QueueType
  <2>. QED  BY <1>2, <2>1 DEF RetryDue
<1>3. ASSUME NEW i \in Item, PollerGet(i)  PROVE WaitInv'
  BY <1>3, NotItems DEF PollerGet
<1>4. CASE PollerGetShutdown \/ PollerSend
  BY <1>4, NotItems DEF PollerGetShutdown, PollerSend
<1>5. CASE HandlerSynced \/ BatchTimeout
  BY <1>5 DEF HandlerSynced, BatchTimeout
<1>6. CASE Shutdown
  <2>1. wq'.queued = wq.queued
    BY <1>6 DEF Shutdown, ShutDown, TypeOK, QueueType
  <2>. QED  BY <1>6, <2>1 DEF Shutdown
<1>7. CASE Loop
  <2>1. CASE ProcessNext
    BY <2>1 DEF ProcessNext, FlushNow
  <2>2. CASE AwaitItem
    BY <2>2 DEF AwaitItem
  <2>3. CASE CheckLen \/ CheckSynced \/ CheckPending \/ FlushWhenIdle
               \/ FlushWhenDue \/ ReceiveShutdown \/ Drain
    <3>. pc' \notin {"next", "get"}
      BY <2>3 DEF CheckLen, CheckSynced, CheckPending, FlushWhenIdle, FlushWhenDue,
                  ReceiveShutdown, Drain
    <3>. QED  OBVIOUS
  <2>4. ASSUME NEW i \in Item, ProcessObject(i)  PROVE WaitInv'
    BY <2>4 DEF ProcessObject, NoEntities, MappingFailed, DeferToBatch, Receive
  <2>. QED  BY <1>7, <2>1, <2>2, <2>3, <2>4 DEF Loop
<1>8. CASE UNCHANGED vars
  BY <1>8 DEF vars
<1>. QED  BY <1>1, <1>2, <1>3, <1>4, <1>5, <1>6, <1>7, <1>8
          DEF Next, Listener, Poller, Retry

\* RunInitialSync never waits in Get(0) while only the batch collector has work:
\* whenever the batch is not empty, the queue, the poller or the channel holds
\* something the loop will receive.
THEOREM NoWaitOnBatch == Spec => []NeverBlockedOnBatch
<1>1. Init => WaitInv
  BY DEF Init, WaitInv
<1>2. WaitInv => NeverBlockedOnBatch
  BY DEF WaitInv, NeverBlockedOnBatch
<1>. QED  BY <1>1, <1>2, WaitInductive, TypeCorrect, PTL DEF Spec

-----------------------------------------------------------------------------
(* The retry counter.                                                       *)

\* Any set of items can be counted.
LEMMA RetriedFinite ==
  ASSUME NEW S, S \subseteq Item
  PROVE  IsFiniteSet(S) /\ Cardinality(S) \in Nat
  BY FiniteItems, FS_Subset, FS_CardinalityType

\* No goroutine but the loop makes a retry the counter does not cover.
LEMMA CounterFrame ==
  ASSUME TypeOK, CounterInv, RetriedItems' \subseteq RetriedItems,
         UNCHANGED <<pc, requeueCounter, batch>>, wq.down => wq'.down
  PROVE  CounterInv'
  <1>1. /\ IsFiniteSet(RetriedItems) /\ Cardinality(RetriedItems) \in Nat
        /\ Cardinality(RetriedItems') \in Nat
    <2>1. RetriedItems \subseteq Item /\ RetriedItems' \subseteq Item
      BY DEF RetriedItems
    <2>. QED  BY <2>1, RetriedFinite
  <1>2. Cardinality(RetriedItems') <= Cardinality(RetriedItems)
    BY <1>1, FS_Subset
  <1>. QED  BY <1>1, <1>2 DEF CounterInv, TypeOK

\* An item received by the loop is no retry any more once it is completed or in
\* the batch; it was one if it had failed before.
LEMMA CounterReceived ==
  ASSUME TypeOK, PlacesInv, CounterInv, NEW i \in Item, results = i, pc = "get",
         pc' = "check_len", requeueCounter' = requeueCounter + RequeueDiff(i),
         RetriedItems' \subseteq RetriedItems \ {i}
  PROVE  CounterInv'
  <1>. DEFINE S == RetriedItems
  <1>1. S \subseteq Item /\ S' \subseteq S \ {i}
    BY DEF RetriedItems
  <1>2. i \in S <=> wq.failures[i] > 0
    BY DEF RetriedItems, PlacesInv, WorkItemsHeld, Held
  <1>. HIDE DEF S
  <1>3. /\ IsFiniteSet(S) /\ Cardinality(S) \in Nat
        /\ IsFiniteSet(S \ {i}) /\ Cardinality(S \ {i}) \in Nat
        /\ Cardinality(S') \in Nat
    <2>1. S \ {i} \subseteq Item /\ S' \subseteq Item
      BY <1>1
    <2>. QED  BY <1>1, <2>1, RetriedFinite
  <1>4. Cardinality(S') <= Cardinality(S \ {i})
    BY <1>1, <1>3, FS_Subset
  <1>5. Cardinality(S \ {i}) = IF i \in S THEN Cardinality(S) - 1 ELSE Cardinality(S)
    BY <1>3, FS_RemoveElement
  <1>6. requeueCounter >= Cardinality(S)
    BY DEF CounterInv, S
  <1>7. requeueCounter' >= Cardinality(S')
    BY <1>2, <1>3, <1>4, <1>5, <1>6 DEF RequeueDiff, TypeOK
  <1>. QED  BY <1>7 DEF CounterInv, S
\* A flush counts every item it requeues.
LEMMA CounterFlush ==
  ASSUME TypeOK, PlacesInv, NEW allowRequeue \in BOOLEAN,
         requeueCounter >= Cardinality(RetriedItems), ProcessBatch(allowRequeue)
  PROVE  /\ requeueCounter' >= Cardinality(RetriedItems')
         /\ ~allowRequeue => requeueCounter' = requeueCounter
         /\ wq'.down = wq.down
  <1>1. PICK C, R \in SUBSET Item :
          /\ C \cup R = BatchItems
          /\ GivenBack(Item, wq, wq', C, R)
          /\ requeueCounter' = requeueCounter + Cardinality(R)
          /\ ~allowRequeue => R = {}
    BY FlushEffect
  <1>2. BatchItems' = {}
    BY FlushType DEF BatchItems
  <1>3. RetriedItems' \subseteq RetriedItems \cup R
    <2>. SUFFICES ASSUME NEW i \in RetriedItems', i \notin R  PROVE i \in RetriedItems
      OBVIOUS
    <2>1. i \in Item /\ (wq'.failures[i] > 0 \/ i \in wq'.delayed)
      BY DEF RetriedItems
    <2>2. /\ wq'.failures[i] = IF i \in C THEN 0 ELSE wq.failures[i]
          /\ i \in wq'.delayed => i \in wq.delayed
      BY <1>1, <2>1 DEF GivenBack
    <2>3. i \in wq.delayed => i \notin BatchItems
      BY DEF PlacesInv, WorkItemsHeld, Held
    <2>4. i \notin BatchItems
      BY <1>1, <2>1, <2>2, <2>3
    <2>. QED  BY <1>1, <2>1, <2>2, <2>4 DEF RetriedItems
  <1>4. /\ IsFiniteSet(RetriedItems) /\ Cardinality(RetriedItems) \in Nat
        /\ IsFiniteSet(R) /\ Cardinality(R) \in Nat
        /\ IsFiniteSet(RetriedItems \cup R) /\ Cardinality(RetriedItems \cup R) \in Nat
        /\ Cardinality(RetriedItems') \in Nat
        /\ Cardinality(RetriedItems \cap R) \in Nat
    <2>1. /\ RetriedItems \subseteq Item /\ RetriedItems' \subseteq Item
          /\ RetriedItems \cup R \subseteq Item /\ R \subseteq Item
          /\ RetriedItems \cap R \subseteq Item
      BY DEF RetriedItems
    <2>. QED  BY <2>1, RetriedFinite
  <1>5. Cardinality(RetriedItems') <= Cardinality(RetriedItems \cup R)
    BY <1>3, <1>4, FS_Subset
  <1>6. Cardinality(RetriedItems \cup R)
          = Cardinality(RetriedItems) + Cardinality(R) - Cardinality(RetriedItems \cap R)
    BY <1>4, FS_Union
  <1>7. requeueCounter' >= Cardinality(RetriedItems')
    BY <1>1, <1>4, <1>5, <1>6 DEF TypeOK
  <1>8. ~allowRequeue => requeueCounter' = requeueCounter
    BY <1>1, FS_EmptySet DEF TypeOK
  <1>. QED  BY <1>1, <1>7, <1>8 DEF GivenBack

\* requeueCounter stays at least the number of items still to be retried.
LEMMA CounterInductive ==
  ASSUME TypeOK, PlacesInv, CounterInv, [Next]_vars
  PROVE  CounterInv'
<1>. USE DEF listenerVars, pollerVars, batchVars, outcomeVars, historyVars
<1>1. ASSUME NEW i \in Item, OnAdd(i)  PROVE CounterInv'
  <2>1. /\ wq'.failures = wq.failures /\ wq'.delayed = wq.delayed
        /\ wq'.down = wq.down
    BY <1>1 DEF OnAdd, Add, TypeOK, QueueType
  <2>. QED  BY <1>1, <2>1, CounterFrame DEF OnAdd, RetriedItems, BatchItems
<1>2. ASSUME NEW i \in Item, RetryDue(i)  PROVE CounterInv'
  <2>1. /\ wq'.failures = wq.failures /\ wq'.delayed = wq.delayed \ {i}
        /\ wq'.down = wq.down
    BY <1>2 DEF RetryDue, DelayOver, Add, TypeOK, QueueType
  <2>. QED  BY <1>2, <2>1, CounterFrame DEF RetryDue, RetriedItems, BatchItems
<1>3. ASSUME NEW i \in Item, PollerGet(i)  PROVE CounterInv'
  <2>1. /\ wq'.failures = wq.failures /\ wq'.delayed = wq.delayed
        /\ wq'.down = wq.down
    BY <1>3 DEF PollerGet, Get, TypeOK, QueueType
  <2>. QED  BY <1>3, <2>1, CounterFrame DEF PollerGet, RetriedItems, BatchItems
<1>4. CASE HandlerSynced \/ PollerGetShutdown \/ PollerSend \/ BatchTimeout
  <2>1. UNCHANGED <<wq, pc, requeueCounter, batch>>
    BY <1>4 DEF HandlerSynced, PollerGetShutdown, PollerSend, BatchTimeout
  <2>. QED  BY <2>1, CounterFrame DEF RetriedItems, BatchItems
<1>5. CASE Shutdown
  <2>1. /\ wq'.failures = wq.failures /\ wq'.delayed = {} /\ wq'.down = TRUE
    BY <1>5 DEF Shutdown, ShutDown, TypeOK, QueueType
  <2>. QED  BY <1>5, <2>1, CounterFrame DEF Shutdown, RetriedItems, BatchItems
<1>6. CASE Loop
  <2>1. CASE CheckLen \/ CheckSynced \/ CheckPending \/ ProcessNext \/ AwaitItem
             \/ ReceiveShutdown
    <3>1. UNCHANGED <<wq, requeueCounter, batch>>
      BY <2>1 DEF CheckLen, CheckSynced, CheckPending, ProcessNext, AwaitItem,
                  ReceiveShutdown
    <3>2. RetriedItems' = RetriedItems
      BY <3>1 DEF RetriedItems, BatchItems
    <3>3. CASE CheckLen
      BY <3>1, <3>2, <3>3 DEF CounterInv, CheckLen, HasCountedWork, TypeOK
    <3>4. CASE CheckSynced
      BY <3>1, <3>2, <3>4 DEF CounterInv, CheckSynced
    <3>5. CASE CheckPending
      BY <3>1, <3>2, <3>5 DEF CounterInv, CheckPending
    <3>6. CASE ProcessNext
      BY <3>1, <3>2, <3>6 DEF CounterInv, ProcessNext
    <3>7. CASE AwaitItem
      BY <3>1, <3>2, <3>7 DEF CounterInv, AwaitItem
    <3>8. CASE ReceiveShutdown
      BY <3>1, <3>2, <3>8 DEF CounterInv, ReceiveShutdown, PlacesInv
    <3>. QED  BY <2>1, <3>3, <3>4, <3>5, <3>6, <3>7, <3>8
  <2>2. CASE FlushWhenIdle \/ FlushWhenDue
    <3>1. ProcessBatch(TRUE) /\ pc' = "check_len"
      BY <2>2 DEF FlushWhenIdle, FlushWhenDue
    <3>. QED  BY <3>1, CounterFlush DEF CounterInv
  <2>3. CASE Drain
    <3>1. ProcessBatch(FALSE) /\ pc = "drain" /\ pc' = "returned"
      BY <2>3 DEF Drain
    <3>2. batch' = {}
      BY <3>1, FlushType
    <3>. QED  BY <3>1, <3>2, CounterFlush DEF CounterInv
  <2>4. ASSUME NEW i \in Item, ProcessObject(i)  PROVE CounterInv'
    <3>0. results = i /\ pc = "get" /\ pc' = "check_len" /\ wq \in Queue
      BY <2>4 DEF ProcessObject, NoEntities, MappingFailed, DeferToBatch, Receive,
                  TypeOK, Queue
    <3>1. i \notin wq.delayed /\ i \notin BatchItems
      BY <3>0 DEF PlacesInv, WorkItemsHeld, Held
    <3>2. CASE requeueCounter' = requeueCounter + RequeueDiff(i) /\ batch' = batch
               /\ wq' = Complete(wq, {i})
      <4>1. GivenBack(Item, wq, wq', {i}, {})
        BY <3>0, <3>2, ItemsCompleted
      <4>2. RetriedItems' \subseteq RetriedItems \ {i}
        <5>1. wq'.delayed = wq.delayed /\ BatchItems' = BatchItems
          BY <3>2, <4>1 DEF BatchItems, GivenBack
        <5>2. wq'.failures[i] = 0 /\ \A j \in Item \ {i} : wq'.failures[j] = wq.failures[j]
          BY <4>1 DEF GivenBack
        <5>. QED  BY <3>1, <5>1, <5>2 DEF RetriedItems
      <4>. QED  BY <3>0, <3>2, <4>2, CounterReceived
    <3>3. CASE DeferToBatch(i)
      <4>1. BatchItems' = BatchItems \cup {i}
        BY <3>3, DeferJoins
      <4>2. wq' = wq /\ requeueCounter' = requeueCounter + RequeueDiff(i)
        BY <3>3 DEF DeferToBatch
      <4>3. RetriedItems' \subseteq RetriedItems \ {i}
        BY <4>1, <4>2 DEF RetriedItems
      <4>. QED  BY <3>0, <4>2, <4>3, CounterReceived
    <3>4. CASE wq' = Requeue(wq, {i}) /\ wq.failures[i] < MaxNumRequeues
               /\ batch' = batch
               /\ requeueCounter' = requeueCounter + IF wq.failures[i] = 0 THEN 1 ELSE 0
      <4>1. GivenBack(Item, wq, wq', {}, {i})
        BY <3>0, <3>4, ItemsRequeued
      <4>2. RetriedItems' \subseteq RetriedItems \cup {i}
        BY <3>1, <3>4, <4>1 DEF RetriedItems, BatchItems, GivenBack
      <4>3. i \in RetriedItems <=> wq.failures[i] > 0
        BY <3>1 DEF RetriedItems
      <4>4. RetriedItems \subseteq Item /\ RetriedItems' \subseteq Item
            /\ RetriedItems \cup {i} \subseteq Item
        BY DEF RetriedItems
      <4>5. /\ IsFiniteSet(RetriedItems) /\ Cardinality(RetriedItems) \in Nat
            /\ IsFiniteSet(RetriedItems \cup {i})
            /\ Cardinality(RetriedItems \cup {i}) \in Nat
            /\ Cardinality(RetriedItems') \in Nat
        BY <4>4, RetriedFinite
      <4>6. Cardinality(RetriedItems') <= Cardinality(RetriedItems \cup {i})
        BY <4>2, <4>5, FS_Subset
      <4>7. Cardinality(RetriedItems \cup {i})
              = IF i \in RetriedItems THEN Cardinality(RetriedItems)
                                      ELSE Cardinality(RetriedItems) + 1
        BY <4>5, FS_AddElement
      <4>8. wq.failures[i] \in Nat
        BY <3>0, RequeueLimit DEF Queue, QueueType
      <4>9. requeueCounter >= Cardinality(RetriedItems) /\ requeueCounter \in Int
        BY DEF CounterInv, TypeOK
      <4>10. requeueCounter' >= Cardinality(RetriedItems')
        BY <3>4, <4>3, <4>5, <4>6, <4>7, <4>8, <4>9
      <4>. QED  BY <3>0, <4>10 DEF CounterInv
    <3>5. CASE NoEntities(i)
      BY <3>2, <3>5 DEF NoEntities
    <3>6. CASE MappingFailed(i)
      <4>1. wq.failures[i] >= MaxNumRequeues \/ wq.failures[i] < MaxNumRequeues
        BY <3>0, RequeueLimit DEF Queue, QueueType
      <4>2. wq.failures[i] < MaxNumRequeues => ~(wq.failures[i] >= MaxNumRequeues)
        BY <3>0, RequeueLimit DEF Queue, QueueType
      <4>. QED  BY <3>2, <3>4, <3>6, <4>1, <4>2 DEF MappingFailed
    <3>. QED  BY <2>4, <3>3, <3>5, <3>6 DEF ProcessObject
  <2>. QED  BY <1>6, <2>1, <2>2, <2>3, <2>4 DEF Loop
<1>7. CASE UNCHANGED vars
  BY <1>7, CounterFrame DEF vars, RetriedItems, BatchItems
<1>. QED  BY <1>1, <1>2, <1>3, <1>4, <1>5, <1>6, <1>7
          DEF Next, Listener, Poller, Retry

\* Unless the queue was shut down, RunInitialSync returns only when no item that
\* failed is still to be tried again: requeueCounter never falls below the number
\* of retries under way, whatever the order of failures within a flush.
THEOREM NoRetryAbandoned == Spec => []RetriesAwaited
<1>1. Init => CounterInv
  <2>. SUFFICES ASSUME Init  PROVE CounterInv
    OBVIOUS
  <2>1. RetriedItems = {}
    BY DEF Init, NewQueue, RetriedItems
  <2>. QED  BY <2>1, FS_EmptySet DEF Init, CounterInv
<1>2. TypeOK /\ CounterInv => RetriesAwaited
  <2>. SUFFICES ASSUME TypeOK, CounterInv, pc = "returned", ~wq.down
                PROVE  wq.delayed = {} /\ \A i \in Item : wq.failures[i] = 0
    BY DEF RetriesAwaited
  <2>1. IsFiniteSet(RetriedItems) /\ Cardinality(RetriedItems) \in Nat
    <3>1. RetriedItems \subseteq Item
      BY DEF RetriedItems
    <3>. QED  BY <3>1, RetriedFinite
  <2>2. Cardinality(RetriedItems) = 0
    BY <2>1 DEF CounterInv, TypeOK
  <2>3. RetriedItems = {}
    BY <2>1, <2>2, FS_EmptySet
  <2>4. BatchItems = {}
    BY DEF CounterInv, BatchItems
  <2>5. \A i \in Item : wq.failures[i] \in Nat
    BY RequeueLimit DEF TypeOK, QueueType
  <2>. QED  BY <2>3, <2>4, <2>5 DEF RetriedItems, TypeOK, QueueType
<1>. QED  BY <1>1, <1>2, CounterInductive, TypeCorrect, Places, PTL DEF Spec

-----------------------------------------------------------------------------
(* The loop, once it has seen the handler synced, waits for what does come.  *)

\* Each object is mapped to one entity, or to none: no itemsToParse.  An object with
\* several may have a retry counted twice, and the loop waits for ever for it.
OneEntityEach == \A i \in Item : \A e, f \in EntitiesOf[i] : e = f

FailedItems == {i \in Item \ BatchItems : wq.failures[i] > 0}

\* The counter is exact, and what it counts is on its way to the loop.
ExactInv ==
  /\ \A b \in batch : b[2] \in EntitiesOf[b[1]]
  /\ requeueCounter = Cardinality(FailedItems)
  /\ \A i \in Item : wq.failures[i] > 0 =>
       wq.down \/ i \in wq.queued \/ i \in wq.delayed \/ i \in Held

\* The poller polls until its report of the shutdown is in the channel.
PollerInv ==
  /\ hand # None => poller = "polling"
  /\ poller = "ended" => results = Closed \/ pc \in {"drain", "returned"}
  /\ pc = "get" => poller # "off"

\* What the loop may wait for.
Coming == results # None \/ hand # None \/ wq.queued # {} \/ requeueCounter > 0

ComingInv ==
  /\ handlerSynced
  /\ pc = "idle" => batch # {} \/ Coming
  /\ pc \in {"next", "get"} => Coming

\* The channel has something for the loop, or the poller runs and will put it there:
\* an item in hand, queued or held back by the rate limiter, or the shutdown.
Answerable ==
  \/ results # None
  \/ /\ poller = "polling"
     /\ hand # None \/ wq.queued # {} \/ wq.delayed # {} \/ wq.down

\* No goroutine but the loop loses a failed item.
LEMMA ExactFrame ==
  ASSUME ExactInv, UNCHANGED <<requeueCounter, batch>>, wq'.failures = wq.failures,
         wq.down => wq'.down,
         \A i \in Item : i \in wq.queued \/ i \in wq.delayed \/ i \in Held =>
           wq'.down \/ i \in wq'.queued \/ i \in wq'.delayed \/ i \in Held'
  PROVE  ExactInv'
  <1>1. FailedItems' = FailedItems
    BY DEF FailedItems, BatchItems
  <1>. QED  BY <1>1 DEF ExactInv

\* A flush requeues items that were not counted, and counts them.
LEMMA ExactFlush ==
  ASSUME OneEntityEach, TypeOK, PlacesInv, ExactInv, NEW allowRequeue \in BOOLEAN,
         ProcessBatch(allowRequeue), UNCHANGED <<hand, results>>
  PROVE  ExactInv'
  <1>0. OneEntryEach
    BY DEF OneEntryEach, OneEntityEach, ExactInv, TypeOK
  <1>1. PICK C, R \in SUBSET Item :
          /\ C \cup R = BatchItems
          /\ GivenBack(Item, wq, wq', C, R)
          /\ requeueCounter' = requeueCounter + Cardinality(R)
          /\ C \cap R = {}
    BY <1>0, FlushEffect
  <1>2. batch' = {} /\ BatchItems' = {}
    BY FlushType DEF BatchItems
  <1>3. \A i \in Item : /\ wq.failures[i] \in Nat
                        /\ i \in R => wq'.failures[i] > 0
                        /\ i \in C => wq'.failures[i] = 0
                        /\ i \notin BatchItems => wq'.failures[i] = wq.failures[i]
    BY <1>1, RequeueLimit DEF GivenBack, TypeOK, QueueType
  <1>4. FailedItems' = FailedItems \cup R /\ FailedItems \cap R = {}
    BY <1>1, <1>2, <1>3 DEF FailedItems
  <1>5. /\ IsFiniteSet(FailedItems) /\ Cardinality(FailedItems) \in Nat
        /\ IsFiniteSet(R) /\ Cardinality(R) \in Nat
    <2>1. FailedItems \subseteq Item /\ R \subseteq Item
      BY DEF FailedItems
    <2>. QED  BY <2>1, RetriedFinite
  <1>6. Cardinality(FailedItems \cap R) = 0
    BY <1>4, FS_EmptySet
  <1>7. Cardinality(FailedItems \cup R) = Cardinality(FailedItems) + Cardinality(R)
    <2>1. Cardinality(FailedItems \cup R)
            = Cardinality(FailedItems) + Cardinality(R) - Cardinality(FailedItems \cap R)
      BY <1>5, FS_Union
    <2>. QED  BY <1>5, <1>6, <2>1
  <1>8. requeueCounter' = Cardinality(FailedItems')
    BY <1>1, <1>4, <1>7 DEF ExactInv
  <1>9. ASSUME NEW i \in Item, wq'.failures[i] > 0
        PROVE  wq'.down \/ i \in wq'.queued \/ i \in wq'.delayed \/ i \in Held'
    <2>1. CASE i \in BatchItems
      BY <1>1, <1>3, <1>9, <2>1 DEF GivenBack
    <2>2. CASE i \notin BatchItems
      BY <1>1, <1>3, <1>9, <2>2 DEF GivenBack, ExactInv, Held
    <2>. QED  BY <2>1, <2>2
  <1>. QED  BY <1>2, <1>8, <1>9 DEF ExactInv

\* An item received by the loop leaves the failed ones, unless it is requeued.
LEMMA ExactReceived ==
  ASSUME TypeOK, PlacesInv, ExactInv, NEW i \in Item, ProcessObject(i)
  PROVE  ExactInv'
  <1>0. /\ results = i /\ results' = None /\ hand' = hand /\ wq \in Queue
        /\ i \notin BatchItems /\ hand # i
    BY DEF ProcessObject, NoEntities, MappingFailed, DeferToBatch, Receive, TypeOK, Queue,
           PlacesInv, WorkItemsHeld, Held
  <1>1. /\ i \in FailedItems <=> wq.failures[i] > 0
        /\ \A j \in Item : wq.failures[j] \in Nat
    BY <1>0, RequeueLimit DEF FailedItems, Queue, QueueType
  <1>2. /\ IsFiniteSet(FailedItems) /\ Cardinality(FailedItems) \in Nat
        /\ Cardinality(FailedItems \ {i})
             = IF i \in FailedItems THEN Cardinality(FailedItems) - 1
                                    ELSE Cardinality(FailedItems)
        /\ Cardinality(FailedItems \cup {i})
             = IF i \in FailedItems THEN Cardinality(FailedItems)
                                    ELSE Cardinality(FailedItems) + 1
    <2>1. FailedItems \subseteq Item
      BY DEF FailedItems
    <2>2. IsFiniteSet(FailedItems) /\ Cardinality(FailedItems) \in Nat
      BY <2>1, RetriedFinite
    <2>. QED  BY <2>2, FS_RemoveElement, FS_AddElement
  <1>3. CASE requeueCounter' = requeueCounter + RequeueDiff(i) /\ batch' = batch
             /\ wq' = Complete(wq, {i})
    <2>1. GivenBack(Item, wq, wq', {i}, {})
      BY <1>0, <1>3, ItemsCompleted
    <2>2. /\ BatchItems' = BatchItems /\ Held \ {i} \subseteq Held'
          /\ wq'.failures[i] = 0 /\ wq'.down = wq.down /\ wq'.delayed = wq.delayed
          /\ wq.queued \subseteq wq'.queued
          /\ \A j \in Item \ {i} : wq'.failures[j] = wq.failures[j]
      BY <1>0, <1>3, <2>1 DEF GivenBack, BatchItems, Held
    <2>3. FailedItems' = FailedItems \ {i}
      BY <2>2 DEF FailedItems
    <2>4. requeueCounter' = Cardinality(FailedItems')
      BY <1>1, <1>2, <1>3, <2>3 DEF ExactInv, RequeueDiff
    <2>. QED  BY <1>3, <2>2, <2>4 DEF ExactInv
  <1>4. CASE DeferToBatch(i)
    <2>1. BatchItems' = BatchItems \cup {i} /\ wq' = wq
          /\ requeueCounter' = requeueCounter + RequeueDiff(i)
      BY <1>4, DeferJoins DEF DeferToBatch
    <2>2. FailedItems' = FailedItems \ {i} /\ Held \subseteq Held'
      BY <1>0, <2>1 DEF FailedItems, Held
    <2>3. requeueCounter' = Cardinality(FailedItems')
      BY <1>1, <1>2, <2>1, <2>2 DEF ExactInv, RequeueDiff
    <2>4. \A b \in batch' : b[2] \in EntitiesOf[b[1]]
      BY <1>4 DEF DeferToBatch, ExactInv
    <2>. QED  BY <2>1, <2>2, <2>3, <2>4 DEF ExactInv
  <1>5. CASE wq' = Requeue(wq, {i}) /\ wq.failures[i] < MaxNumRequeues /\ batch' = batch
             /\ requeueCounter' = requeueCounter + IF wq.failures[i] = 0 THEN 1 ELSE 0
    <2>1. GivenBack(Item, wq, wq', {}, {i})
      BY <1>0, <1>5, ItemsRequeued
    <2>2. /\ BatchItems' = BatchItems /\ Held \ {i} \subseteq Held'
          /\ wq'.failures[i] = wq.failures[i] + 1 /\ wq'.down = wq.down
          /\ wq.delayed \subseteq wq'.delayed /\ wq.queued \subseteq wq'.queued
          /\ wq.down \/ i \in wq'.delayed
          /\ \A j \in Item \ {i} : wq'.failures[j] = wq.failures[j]
      BY <1>0, <1>5, <2>1 DEF GivenBack, BatchItems, Held
    <2>3. FailedItems' = FailedItems \cup {i}
      BY <1>0, <1>1, <2>2 DEF FailedItems
    <2>4. requeueCounter' = Cardinality(FailedItems')
      BY <1>1, <1>2, <1>5, <2>3 DEF ExactInv
    <2>. QED  BY <1>5, <2>2, <2>4 DEF ExactInv
  <1>6. CASE NoEntities(i)
    BY <1>3, <1>6 DEF NoEntities
  <1>7. CASE MappingFailed(i)
    <2>1. wq.failures[i] \in Nat /\ MaxNumRequeues \in Nat
      BY <1>1, RequeueLimit
    <2>2. CASE wq.failures[i] >= MaxNumRequeues
      BY <1>3, <1>7, <2>2 DEF MappingFailed
    <2>3. CASE ~(wq.failures[i] >= MaxNumRequeues)
      <3>1. wq.failures[i] < MaxNumRequeues
        BY <2>1, <2>3
      <3>. QED  BY <1>5, <1>7, <2>3, <3>1 DEF MappingFailed
    <2>. QED  BY <2>2, <2>3
  <1>. QED  BY <1>4, <1>6, <1>7 DEF ProcessObject

LEMMA ExactInductive ==
  ASSUME OneEntityEach, TypeOK, PlacesInv, ExactInv, [Next]_vars
  PROVE  ExactInv'
<1>. USE DEF listenerVars, pollerVars, batchVars, outcomeVars, historyVars
<1>1. ASSUME NEW i \in Item, OnAdd(i)  PROVE ExactInv'
  <2>1. /\ wq'.failures = wq.failures /\ wq'.delayed = wq.delayed
        /\ wq'.down = wq.down /\ wq.queued \subseteq wq'.queued
    BY <1>1 DEF OnAdd, Add, TypeOK, QueueType
  <2>. QED  BY <1>1, <2>1, ExactFrame DEF OnAdd, Held, BatchItems
<1>2. ASSUME NEW i \in Item, RetryDue(i)  PROVE ExactInv'
  <2>1. /\ wq'.failures = wq.failures /\ wq'.delayed = wq.delayed \ {i}
        /\ wq'.down = wq.down /\ wq.queued \subseteq wq'.queued
        /\ wq.down \/ i \in wq'.queued
    <3>1. i \notin wq.processing
      BY <1>2 DEF RetryDue, PlacesInv, WorkItemsHeld
    <3>. QED  BY <1>2, <3>1 DEF RetryDue, DelayOver, Add, TypeOK, QueueType
  <2>. QED  BY <1>2, <2>1, ExactFrame DEF RetryDue, Held, BatchItems
<1>3. ASSUME NEW i \in Item, PollerGet(i)  PROVE ExactInv'
  <2>1. /\ wq'.failures = wq.failures /\ wq'.delayed = wq.delayed
        /\ wq'.down = wq.down /\ wq'.queued = wq.queued \ {i}
    BY <1>3 DEF PollerGet, Get, TypeOK, QueueType
  <2>2. Held \cup {i} \subseteq Held'
    BY <1>3, NotItems DEF PollerGet, Held, BatchItems
  <2>. QED  BY <1>3, <2>1, <2>2, ExactFrame DEF PollerGet
<1>4. CASE HandlerSynced \/ PollerGetShutdown \/ PollerSend \/ BatchTimeout
  <2>1. UNCHANGED <<wq, requeueCounter, batch>>
    BY <1>4 DEF HandlerSynced, PollerGetShutdown, PollerSend, BatchTimeout
  <2>2. Held \subseteq Held'
    BY <1>4, NotItems
       DEF HandlerSynced, PollerGetShutdown, PollerSend, BatchTimeout, Held, BatchItems
  <2>. QED  BY <2>1, <2>2, ExactFrame
<1>5. CASE Shutdown
  <2>1. wq'.failures = wq.failures /\ wq'.down
    BY <1>5 DEF Shutdown, ShutDown, TypeOK, QueueType
  <2>. QED  BY <1>5, <2>1, ExactFrame DEF Shutdown
<1>6. CASE \/ CheckLen \/ CheckSynced \/ CheckPending \/ ProcessNext \/ AwaitItem
           \/ ReceiveShutdown \/ UNCHANGED vars
  <2>1. UNCHANGED <<wq, requeueCounter, batch>>
    BY <1>6 DEF CheckLen, CheckSynced, CheckPending, ProcessNext, AwaitItem,
                ReceiveShutdown, vars
  <2>2. Held \subseteq Held'
    BY <1>6, NotItems DEF CheckLen, CheckSynced, CheckPending, ProcessNext, AwaitItem,
                ReceiveShutdown, vars, Held, BatchItems
  <2>. QED  BY <2>1, <2>2, ExactFrame
<1>7. CASE FlushWhenIdle \/ FlushWhenDue \/ Drain
  BY <1>7, ExactFlush DEF FlushWhenIdle, FlushWhenDue, Drain
<1>8. ASSUME NEW i \in Item, ProcessObject(i)  PROVE ExactInv'
  BY <1>8, ExactReceived
<1>. QED  BY <1>1, <1>2, <1>3, <1>4, <1>5, <1>6, <1>7, <1>8
          DEF Next, Listener, Poller, Retry, Loop

LEMMA PollerInductive ==
  ASSUME PollerInv, [Next]_vars
  PROVE  PollerInv'
<1>. USE NotItems
     DEF PollerInv, listenerVars, pollerVars, batchVars, outcomeVars, historyVars
<1>1. CASE Listener \/ Retry \/ BatchTimeout \/ Shutdown \/ UNCHANGED vars
  BY <1>1 DEF Listener, HandlerSynced, OnAdd, Retry, RetryDue, BatchTimeout, Shutdown, vars
<1>2. CASE Poller
  BY <1>2 DEF Poller, PollerGet, PollerGetShutdown, PollerSend
<1>3. CASE CheckLen \/ CheckSynced \/ CheckPending \/ ProcessNext \/ AwaitItem
           \/ ReceiveShutdown
  BY <1>3 DEF CheckLen, CheckSynced, CheckPending, ProcessNext, AwaitItem,
              ReceiveShutdown, StartPoller
<1>4. CASE FlushWhenIdle \/ FlushWhenDue \/ Drain
  BY <1>4 DEF FlushWhenIdle, FlushWhenDue, Drain, StartPoller
<1>5. ASSUME NEW i \in Item, ProcessObject(i)  PROVE PollerInv'
  BY <1>5 DEF ProcessObject, NoEntities, MappingFailed, DeferToBatch, Receive
<1>. QED  BY <1>1, <1>2, <1>3, <1>4, <1>5 DEF Next, Loop

\* What a loop that saw the handler synced waits for stays on its way.
LEMMA ComingInductive ==
  ASSUME TypeOK, ComingInv, [Next]_vars
  PROVE  ComingInv'
<1>. USE NotItems
     DEF ComingInv, Coming, listenerVars, pollerVars, batchVars, outcomeVars, historyVars
<1>1. ASSUME NEW i \in Item, OnAdd(i) \/ RetryDue(i)  PROVE ComingInv'
  <2>1. wq.queued \subseteq wq'.queued
    <3>1. CASE OnAdd(i)
      BY <3>1 DEF OnAdd, Add, TypeOK, QueueType
    <3>2. CASE RetryDue(i)
      BY <3>2 DEF RetryDue, DelayOver, Add, TypeOK, QueueType
    <3>. QED  BY <1>1, <3>1, <3>2
  <2>. QED  BY <1>1, <2>1 DEF OnAdd, RetryDue
<1>2. CASE HandlerSynced \/ BatchTimeout \/ UNCHANGED vars
  BY <1>2 DEF HandlerSynced, BatchTimeout, vars
<1>3. CASE Poller
  BY <1>3 DEF Poller, PollerGet, PollerGetShutdown, PollerSend
<1>4. CASE Shutdown
  <2>1. wq'.queued = wq.queued
    BY <1>4 DEF Shutdown, ShutDown, TypeOK, QueueType
  <2>. QED  BY <1>4, <2>1 DEF Shutdown
<1>5. CASE CheckLen \/ CheckSynced \/ CheckPending \/ ProcessNext \/ AwaitItem
           \/ ReceiveShutdown
  BY <1>5 DEF CheckLen, CheckSynced, CheckPending, ProcessNext, AwaitItem,
              ReceiveShutdown, HasCountedWork, FlushNow
<1>6. CASE FlushWhenIdle \/ FlushWhenDue \/ Drain
  <2>1. pc' \notin {"idle", "next", "get"}
    BY <1>6 DEF FlushWhenIdle, FlushWhenDue, Drain
  <2>2. handlerSynced' = handlerSynced
    BY <1>6, FlushType DEF FlushWhenIdle, FlushWhenDue, Drain
  <2>. QED  BY <2>1, <2>2
<1>7. ASSUME NEW i \in Item, ProcessObject(i)  PROVE ComingInv'
  BY <1>7 DEF ProcessObject, NoEntities, MappingFailed, DeferToBatch, Receive
<1>. QED  BY <1>1, <1>2, <1>3, <1>4, <1>5, <1>6, <1>7
          DEF Next, Listener, Retry, Loop

LEMMA ComingAnswers ==
  ASSUME TypeOK, ExactInv, PollerInv, ComingInv, pc = "get"
  PROVE  Answerable
  <1>. SUFFICES ASSUME results = None, hand = None, wq.queued = {}, ~wq.down
                PROVE  poller = "polling" /\ wq.delayed # {}
    BY NotItems DEF Answerable, PollerInv, TypeOK
  <1>1. poller = "polling"
    BY NotItems DEF PollerInv, TypeOK
  <1>2. requeueCounter > 0
    BY DEF ComingInv, Coming
  <1>3. FailedItems # {}
    BY <1>2, FS_EmptySet DEF ExactInv
  <1>4. PICK i \in Item \ BatchItems : wq.failures[i] > 0
    BY <1>3 DEF FailedItems
  <1>5. i \in wq.delayed
    BY <1>4, NotItems DEF ExactInv, Held
  <1>. QED  BY <1>1, <1>5

\* From the moment at which the loop evaluates its condition with the handler synced it
\* never waits in Get(0) for what nobody sends: there is an item for it, or a shutdown,
\* for any retries, failed writes and flushes, if each object has one entity.  This is
\* SyncReturns without its fairness (controller.go: RunInitialSync).
THEOREM WaitIsAnswered ==
  ASSUME OneEntityEach
  PROVE  Spec => []((handlerSynced /\ pc = "check_len") => [](pc = "get" => Answerable))
<1>1. Init => ExactInv
  <2>. SUFFICES ASSUME Init  PROVE ExactInv
    OBVIOUS
  <2>1. FailedItems = {} /\ batch = {} /\ \A i \in Item : wq.failures[i] = 0
    BY DEF Init, NewQueue, FailedItems
  <2>. QED  BY <2>1, FS_EmptySet DEF Init, ExactInv
<1>2. Init => PollerInv
  BY DEF Init, PollerInv
<1>3. Spec => [](TypeOK /\ PlacesInv /\ ExactInv /\ PollerInv)
  BY <1>1, <1>2, ExactInductive, PollerInductive, TypeCorrect, Places, PTL DEF Spec
<1>4. handlerSynced /\ pc = "check_len" => ComingInv
  BY DEF ComingInv
<1>5. TypeOK /\ ExactInv /\ PollerInv /\ ComingInv => (pc = "get" => Answerable)
  BY ComingAnswers
<1>. QED  BY <1>3, <1>4, <1>5, ComingInductive, PTL DEF Spec

-----------------------------------------------------------------------------
(* What the sync reports.                                                   *)

\* A flush that finds no failure reports every entity of the batch.
LEMMA ReportFlush ==
  ASSUME TypeOK, ReportInv, NEW allowRequeue \in BOOLEAN, ProcessBatch(allowRequeue)
  PROVE  /\ shouldDelete' => mapped' \subseteq entitiesSet' /\ ~hasErrors'
         /\ unmappable' # {} => hasErrors'
         /\ batch' = {}
  <1>1. PICK outcome \in [batch -> Outcome] :
          /\ entitiesSet' = entitiesSet \cup EntitiesWith(outcome, "ok")
          /\ shouldDelete' = (shouldDelete /\ ~hasErrors /\ Clean(outcome))
          /\ batch' = {}
          /\ UNCHANGED <<hasErrors, mapped, unmappable>>
    BY DEF ProcessBatch
  <1>2. Clean(outcome) => EntitiesWith(outcome, "ok") = BatchEntities
    BY DEF Clean, EntitiesWith, BatchEntities
  <1>. QED  BY <1>1, <1>2 DEF ReportInv

\* Every mapped entity stays written, in the batch or reported as a failure.
LEMMA ReportInductive ==
  ASSUME TypeOK, ReportInv, [Next]_vars
  PROVE  ReportInv'
<1>. USE DEF listenerVars, pollerVars, batchVars, outcomeVars, historyVars
<1>1. CASE Listener \/ Poller \/ Retry \/ BatchTimeout \/ Shutdown
  <2>1. UNCHANGED <<pc, batch, hasErrors, shouldDelete, entitiesSet, mapped, unmappable>>
    BY <1>1 DEF Listener, HandlerSynced, OnAdd, Poller, PollerGetShutdown, PollerSend,
                PollerGet, Retry, RetryDue, BatchTimeout, Shutdown
  <2>. QED  BY <2>1 DEF ReportInv, BatchEntities
<1>2. CASE Loop
  <2>1. CASE CheckLen \/ CheckSynced \/ CheckPending \/ ProcessNext \/ AwaitItem
             \/ ReceiveShutdown
    <3>1. /\ UNCHANGED <<batch, hasErrors, shouldDelete, entitiesSet, mapped, unmappable>>
          /\ pc' # "returned"
      BY <2>1 DEF CheckLen, CheckSynced, CheckPending, ProcessNext, AwaitItem,
                  ReceiveShutdown
    <3>. QED  BY <3>1 DEF ReportInv, BatchEntities
  <2>2. CASE FlushWhenIdle \/ FlushWhenDue \/ Drain
    <3>1. \E a \in BOOLEAN : ProcessBatch(a)
      BY <2>2 DEF FlushWhenIdle, FlushWhenDue, Drain
    <3>. QED  BY <3>1, ReportFlush DEF ReportInv
  <2>3. ASSUME NEW i \in Item, ProcessObject(i)  PROVE ReportInv'
    <3>1. CASE NoEntities(i) \/ MappingFailed(i)
      BY <3>1 DEF NoEntities, MappingFailed, Receive, ReportInv, BatchEntities
    <3>2. CASE DeferToBatch(i)
      <4>1. /\ BatchEntities \subseteq BatchEntities'
            /\ mapped' \subseteq mapped \cup BatchEntities'
        BY <3>2, DeferJoins
      <4>2. /\ pc' = "check_len"
            /\ UNCHANGED <<shouldDelete, entitiesSet, hasErrors, unmappable>>
        BY <3>2 DEF DeferToBatch, Receive
      <4>. QED  BY <4>1, <4>2 DEF ReportInv
    <3>. QED  BY <2>3, <3>1, <3>2 DEF ProcessObject
  <2>. QED  BY <1>2, <2>1, <2>2, <2>3 DEF Loop
<1>3. CASE UNCHANGED vars
  BY <1>3 DEF vars, ReportInv, BatchEntities
<1>. QED  BY <1>1, <1>2, <1>3 DEF Next

\* The deletion of stale entities is allowed only if every entity the sync mapped
\* was written and every object could be mapped: retries, forced flushes, the
\* drain at shutdown and permanent failures included.
THEOREM DeletionIsSafe == Spec => []StaleDeleteSafe
<1>1. Init => ReportInv
  BY DEF Init, ReportInv
<1>2. ReportInv => StaleDeleteSafe
  BY DEF ReportInv, StaleDeleteSafe, BatchEntities
<1>. QED  BY <1>1, <1>2, ReportInductive, TypeCorrect, PTL DEF Spec
-----------------------------------------------------------------------------
(* The contract.                                                            *)

\* A flush settles the open entities: those written and those that failed.
LEMMA FlushSettles ==
  ASSUME TypeOK, NEW allowRequeue \in BOOLEAN, ProcessBatch(allowRequeue),
         pc # "returned"
  PROVE  Contract!Settle(pc' = "returned")
  <1>1. PICK outcome \in [batch -> Outcome] :
          /\ entitiesSet' = entitiesSet \cup EntitiesWith(outcome, "ok")
          /\ shouldDelete' = (shouldDelete /\ ~hasErrors /\ Clean(outcome))
          /\ batch' = {} /\ hasErrors' = hasErrors
    BY DEF ProcessBatch
  <1>. DEFINE written == EntitiesWith(outcome, "ok")
              failed  == {b[2] : b \in {x \in batch : outcome[x] # "ok"}}
  <1>2. written \in SUBSET Entity /\ failed \in SUBSET Entity
    BY DEF TypeOK, EntitiesWith
  <1>3. written \cup failed = BatchEntities
    BY DEF EntitiesWith, BatchEntities
  <1>4. failed = {} <=> Clean(outcome)
    BY DEF Clean
  <1>. HIDE DEF written, failed
  <1>5. entitiesSet' = entitiesSet \cup written
    BY <1>1 DEF written
  <1>6. BatchEntities' = {}
    BY <1>1 DEF BatchEntities
  <1>. QED  BY <1>1, <1>2, <1>3, <1>4, <1>5, <1>6 DEF Contract!Settle

\* Every step of the sync is a step of its contract or changes nothing of it.
LEMMA ContractStep ==
  ASSUME TypeOK, [Next]_vars
  PROVE  [Contract!Next]_Contract!vars
<1>. USE DEF listenerVars, pollerVars, batchVars, outcomeVars, historyVars
<1>1. CASE UNCHANGED <<batch, entitiesSet, shouldDelete, hasErrors>>
           /\ (pc' = "returned" <=> pc = "returned")
  BY <1>1 DEF Contract!vars, BatchEntities
<1>2. CASE Listener \/ Poller \/ Retry \/ BatchTimeout \/ Shutdown \/ UNCHANGED vars
  BY <1>1, <1>2 DEF Listener, HandlerSynced, OnAdd, Poller, PollerGetShutdown,
     PollerSend, PollerGet, Retry, RetryDue, BatchTimeout, Shutdown, vars
<1>3. CASE Loop
  <2>1. CASE CheckLen \/ CheckSynced \/ CheckPending \/ ProcessNext \/ AwaitItem
             \/ ReceiveShutdown
    BY <1>1, <2>1 DEF CheckLen, CheckSynced, CheckPending, ProcessNext, AwaitItem,
       ReceiveShutdown
  <2>2. CASE FlushWhenIdle \/ FlushWhenDue \/ Drain
    <3>1. pc # "returned" /\ \E a \in BOOLEAN : ProcessBatch(a)
      BY <2>2 DEF FlushWhenIdle, FlushWhenDue, Drain
    <3>2. Contract!Settle(pc' = "returned")
      BY <3>1, FlushSettles
    <3>3. \E returns \in BOOLEAN : Contract!Settle(returns)
      <4>1. (pc' = "returned") \in BOOLEAN
        OBVIOUS
      <4>. QED  BY <3>2, <4>1
    <3>. QED  BY <3>3 DEF Contract!Next
  <2>3. ASSUME NEW i \in Item, ProcessObject(i)  PROVE [Contract!Next]_Contract!vars
    <3>1. CASE NoEntities(i)
      BY <1>1, <3>1 DEF NoEntities, Receive
    <3>2. CASE MappingFailed(i)
      <4>1. Contract!Fail
        BY <3>2 DEF MappingFailed, Receive, Contract!Fail, BatchEntities
      <4>. QED  BY <4>1 DEF Contract!Next
    <3>3. CASE DeferToBatch(i)
      <4>1. BatchEntities' \in {BatchEntities \cup E : E \in SUBSET Entity}
        <5>1. BatchEntities \subseteq BatchEntities'
          BY <3>3, DeferJoins
        <5>2. BatchEntities' \subseteq Entity
          <6>1. batch' \in SUBSET (Item \X Entity)
            BY <3>3, MappingDomain DEF DeferToBatch, TypeOK
          <6>. QED  BY <6>1 DEF BatchEntities
        <5>3. BatchEntities' = BatchEntities \cup BatchEntities'
          BY <5>1
        <5>. QED  BY <5>2, <5>3
      <4>2. Contract!Map
        BY <3>3, <4>1 DEF DeferToBatch, Receive, Contract!Map
      <4>. QED  BY <4>2 DEF Contract!Next
    <3>. QED  BY <2>3, <3>1, <3>2, <3>3 DEF ProcessObject
  <2>. QED  BY <1>3, <2>1, <2>2, <2>3 DEF Loop
<1>. QED  BY <1>2, <1>3 DEF Next

\* The initial sync, with its queue, retries and batches, implements the contract
\* that the resync relies on.
THEOREM SyncImplementsContract == Spec => ImplementsContract
<1>1. Init => Contract!Init
  BY DEF Init, Contract!Init, BatchEntities
<1>. QED  BY <1>1, ContractStep, TypeCorrect, PTL
          DEF Spec, ImplementsContract, Contract!Spec
==============================================================================
