--------------------------- MODULE WorkQueueProofs ---------------------------
(***************************************************************************)
(* What the methods of a work queue do to it, field by field, for any items *)
(* and any retry limit.                                                     *)
(***************************************************************************)
EXTENDS WorkQueue, TLAPS

\* r is q after the items of C were completed and those of R were requeued.
GivenBack(Item, q, r, C, R) ==
  /\ r.queued = q.queued \cup ((C \cup R) \cap q.dirty)
  /\ r.dirty = q.dirty
  /\ r.processing = q.processing \ (C \cup R)
  /\ r.delayed = IF q.down THEN q.delayed ELSE q.delayed \cup R
  /\ r.down = q.down
  /\ \A i \in Item : r.failures[i] = IF i \in C THEN 0
                                     ELSE IF i \in R THEN q.failures[i] + 1
                                     ELSE q.failures[i]

\* Complete gives items back for good and resets their failures.
LEMMA CompleteGivesBack ==
  ASSUME NEW Item, NEW Max \in Nat, NEW q \in QueueType(Item, Max),
         NEW C \in SUBSET Item
  PROVE  /\ Complete(q, C) \in QueueType(Item, Max)
         /\ GivenBack(Item, q, Complete(q, C), C, {})
  <1>. DEFINE d == Done(q, C)
              f == [i \in Item |-> IF i \in C THEN 0 ELSE q.failures[i]]
              r == Complete(q, C)
  <1>1. /\ d \in QueueType(Item, Max)
        /\ d.queued = q.queued \cup (C \cap q.dirty)
        /\ d.dirty = q.dirty
        /\ d.processing = q.processing \ C
        /\ d.delayed = q.delayed
        /\ d.down = q.down
        /\ d.failures = q.failures
    BY DEF Done, QueueType
  <1>2. DOMAIN d.failures = Item
    BY <1>1 DEF QueueType
  <1>3. r = [d EXCEPT !.failures = f]
    BY <1>1, <1>2 DEF Complete, Forget
  <1>4. f \in [Item -> 0..Max]
    BY DEF QueueType
  <1>. HIDE DEF d, r
  <1>5. r \in QueueType(Item, Max) /\ GivenBack(Item, q, r, C, {})
    BY <1>1, <1>3, <1>4 DEF QueueType, GivenBack
  <1>. QED  BY <1>5 DEF r

\* Requeue counts a failure of each item and delays it, unless the queue is down.
LEMMA RequeueGivesBack ==
  ASSUME NEW Item, NEW Max \in Nat, NEW q \in QueueType(Item, Max),
         NEW R \in SUBSET Item,
         \A i \in R : q.failures[i] < Max
  PROVE  /\ Requeue(q, R) \in QueueType(Item, Max)
         /\ GivenBack(Item, q, Requeue(q, R), {}, R)
  <1>. DEFINE d == Done(q, R)
              f == [i \in Item |-> IF i \in R THEN q.failures[i] + 1
                                              ELSE q.failures[i]]
              e == IF q.down THEN q.delayed ELSE q.delayed \cup R
              r == Requeue(q, R)
  <1>1. /\ d \in QueueType(Item, Max)
        /\ d.queued = q.queued \cup (R \cap q.dirty)
        /\ d.dirty = q.dirty
        /\ d.processing = q.processing \ R
        /\ d.delayed = q.delayed
        /\ d.down = q.down
        /\ d.failures = q.failures
    BY DEF Done, QueueType
  <1>2. DOMAIN d.failures = Item
    BY <1>1 DEF QueueType
  <1>3. r = [d EXCEPT !.failures = f, !.delayed = e]
    BY <1>1, <1>2 DEF Requeue, AddRateLimited
  <1>4. f \in [Item -> 0..Max]
    BY DEF QueueType
  <1>5. e \in SUBSET Item
    BY DEF QueueType
  <1>. HIDE DEF d, e, f, r
  <1>6. /\ r \in QueueType(Item, Max)
        /\ r.failures = f /\ r.delayed = e /\ r.queued = d.queued
        /\ r.dirty = d.dirty /\ r.processing = d.processing /\ r.down = d.down
    BY <1>1, <1>3, <1>4, <1>5 DEF QueueType
  <1>7. GivenBack(Item, q, r, {}, R)
    BY <1>1, <1>6 DEF GivenBack, e, f
  <1>. QED  BY <1>6, <1>7 DEF r

\* A flush completes C, requeues R and completes P, in this order: an item that is
\* both requeued and completed keeps its delay and loses its failures.
LEMMA FlushGivesBack ==
  ASSUME NEW Item, NEW Max \in Nat, NEW q \in QueueType(Item, Max),
         NEW C \in SUBSET Item, NEW R \in SUBSET Item, NEW P \in SUBSET Item,
         C \cap R = {}, \A i \in R : q.failures[i] < Max
  PROVE  LET r == Complete(Requeue(Complete(q, C), R), P)
         IN r \in QueueType(Item, Max) /\ GivenBack(Item, q, r, C \cup P, R)
  <1>. DEFINE c == Complete(q, C)
              m == Requeue(c, R)
              r == Complete(m, P)
  <1>1. c \in QueueType(Item, Max) /\ GivenBack(Item, q, c, C, {})
    BY CompleteGivesBack
  <1>. HIDE DEF c
  <1>2. \A i \in R : c.failures[i] < Max
    BY <1>1 DEF GivenBack
  <1>3. m \in QueueType(Item, Max) /\ GivenBack(Item, c, m, {}, R)
    BY <1>1, <1>2, RequeueGivesBack
  <1>. HIDE DEF m
  <1>4. r \in QueueType(Item, Max) /\ GivenBack(Item, m, r, P, {})
    BY <1>3, CompleteGivesBack
  <1>. HIDE DEF r
  <1>5. GivenBack(Item, q, r, C \cup P, R)
    BY <1>1, <1>3, <1>4 DEF GivenBack
  <1>. QED  BY <1>4, <1>5 DEF r, m, c

-----------------------------------------------------------------------------
(* The methods that bring items in and out.                                 *)

\* Add makes items dirty, and queues those that are not being processed.
LEMMA AddBringsIn ==
  ASSUME NEW Item, NEW Max \in Nat, NEW q \in QueueType(Item, Max),
         NEW S \in SUBSET Item, ~q.down
  PROVE  /\ Add(q, S) \in QueueType(Item, Max)
         /\ Add(q, S).dirty = q.dirty \cup S
         /\ Add(q, S).queued = q.queued \cup (S \ q.processing)
         /\ Add(q, S).delayed = q.delayed
         /\ Add(q, S).down = q.down
  BY DEF Add, QueueType

\* The end of a delay makes its item dirty; nothing is delayed in a queue that is
\* down.
LEMMA DelayBringsIn ==
  ASSUME NEW Item, NEW Max \in Nat, NEW q \in QueueType(Item, Max), NEW i \in Item
  PROVE  /\ DelayOver(q, i) \in QueueType(Item, Max)
         /\ DelayOver(q, i).down = q.down
         /\ ~q.down => /\ DelayOver(q, i).dirty = q.dirty \cup {i}
                       /\ DelayOver(q, i).delayed = q.delayed \ {i}
                       /\ q.queued \subseteq DelayOver(q, i).queued
  BY DEF DelayOver, Add, QueueType

\* Get takes one item out of the queue.
LEMMA GetTakesOut ==
  ASSUME NEW Item, NEW Max \in Nat, NEW q \in QueueType(Item, Max), NEW i \in Item
  PROVE  /\ Get(q, i) \in QueueType(Item, Max)
         /\ Get(q, i).queued = q.queued \ {i}
         /\ Get(q, i).dirty = q.dirty \ {i}
         /\ Get(q, i).delayed = q.delayed
         /\ Get(q, i).down = q.down
  BY DEF Get, QueueType

\* ShutDown keeps what is queued.
LEMMA ShutDownKeeps ==
  ASSUME NEW Item, NEW Max \in Nat, NEW q \in QueueType(Item, Max)
  PROVE  ShutDown(q) \in QueueType(Item, Max) /\ ShutDown(q).down
  BY DEF ShutDown, QueueType
==============================================================================
