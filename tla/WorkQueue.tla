------------------------------ MODULE WorkQueue ------------------------------
(***************************************************************************)
(* The rate limiting work queue of k8s.io/client-go/util/workqueue, which  *)
(* the exporter uses for the initial sync and for the live events.  It is  *)
(* external code, modelled from how pkg/k8s/controller.go and              *)
(* pkg/k8s/batch_collector.go call it.  A queue is a value; the operators  *)
(* are its methods, lifted to sets of items because the callers loop over  *)
(* maps whose order is arbitrary.                                          *)
(*                                                                         *)
(*   queued      items Get can return; Len() is its cardinality            *)
(*   dirty       items added and not yet taken by Get                      *)
(*   processing  items taken by Get and not yet Done                       *)
(*   delayed     items AddRateLimited holds back                           *)
(*   failures    NumRequeues of each item                                  *)
(*   down        ShutDown was called                                       *)
(*                                                                         *)
(* Get returns items in the order they were added.  The callers' promises  *)
(* do not depend on that order (the informer lists objects in an arbitrary *)
(* one), so a queue is a set here and Get may return any queued item.      *)
(***************************************************************************)
EXTENDS Naturals

QueueType(Item, MaxFailures) ==
  [queued: SUBSET Item, dirty: SUBSET Item, processing: SUBSET Item,
   delayed: SUBSET Item, failures: [Item -> 0..MaxFailures], down: BOOLEAN]

NewQueue(Item, S) ==
  [queued |-> S, dirty |-> S, processing |-> {}, delayed |-> {},
   failures |-> [i \in Item |-> 0], down |-> FALSE]

\* Add: an item that is being processed becomes dirty and is queued by Done.
Add(q, S) ==
  IF q.down THEN q
            ELSE [q EXCEPT !.dirty  = @ \cup S,
                           !.queued = @ \cup (S \ q.processing)]

Get(q, i) ==
  [q EXCEPT !.queued = @ \ {i}, !.dirty = @ \ {i}, !.processing = @ \cup {i}]

Done(q, S) ==
  [q EXCEPT !.processing = @ \ S, !.queued = @ \cup (S \cap q.dirty)]

Forget(q, S) ==
  [q EXCEPT !.failures = [i \in DOMAIN @ |-> IF i \in S THEN 0 ELSE @[i]]]

\* AddRateLimited: the rate limiter counts the failure at once; the item is
\* added when its delay is over, and never once the queue is shut down.
AddRateLimited(q, S) ==
  [q EXCEPT !.failures = [i \in DOMAIN @ |-> IF i \in S THEN @[i] + 1 ELSE @[i]],
            !.delayed  = IF q.down THEN @ ELSE @ \cup S]

\* The delay of item i is over.
DelayOver(q, i) == Add([q EXCEPT !.delayed = @ \ {i}], {i})

\* ShutDown: what is queued is still handed out, what is delayed is dropped.
ShutDown(q) == [q EXCEPT !.down = TRUE, !.delayed = {}]

\* The two ways the exporter gives an item back.
Complete(q, S) == Forget(Done(q, S), S)
Requeue(q, S)  == AddRateLimited(Done(q, S), S)
==============================================================================
