------------------------------ MODULE BulkUpsert ------------------------------
(* ProcessBatch of batch_collector.go for the entities of one blueprint: the bulk   *)
(* requests that calculateBulkSize sizes, within the limit of the client, and what *)
(* becomes of the entities that Port does not write with their request.            *)
EXTENDS Integers, Sequences, FiniteSetsExt

CONSTANTS Size,          \* possible sizes of an entity
          EntityID,
          MaxCollected,
          SampleSize,    \* 10 in the code
          BulkLimit,     \* of Port, 20 in the code
          MaxPayload     \* maxPayloadBytes

ASSUME BulkUpsertAssumption ==
  /\ Size \subseteq Nat \ {0} /\ MaxCollected \in Nat
  /\ {SampleSize, BulkLimit, MaxPayload} \subseteq Nat \ {0}

VARIABLES
  entities,      \* their sizes, in the order in which they were collected
  entityIds,     \* and their identifiers, of which two may be the same
  maxEntitiesPerBatch,  \* as configured, which may be more than Port takes
  i,             \* the loop's index
  requests,      \* bulk requests that were sent, as index sets
  single,        \* the entities that were written again one by one
  permanent,     \* those that Port rejects for good
  entitiesSet,   \* the identifiers that Port has confirmed
  shouldDeleteStaleEntities

upsertVars ==
  <<entities, entityIds, maxEntitiesPerBatch, i, requests, single, permanent, entitiesSet,
    shouldDeleteStaleEntities>>

UpsertTypeOK ==
  /\ entities \in Seq(Size) /\ Len(entities) <= MaxCollected
  /\ entityIds \in [1..Len(entities) -> EntityID]
  /\ maxEntitiesPerBatch \in 0..(BulkLimit + 1)
  /\ i \in 0..(MaxCollected + BulkLimit)
  /\ requests \subseteq SUBSET (1..MaxCollected)
  /\ single \subseteq 1..MaxCollected /\ permanent \subseteq 1..MaxCollected
  /\ entitiesSet \subseteq EntityID
  /\ shouldDeleteStaleEntities \in BOOLEAN

UpsertInit ==
  /\ entities \in UNION {[1..n -> Size] : n \in 1..MaxCollected}
  /\ entityIds \in [1..Len(entities) -> EntityID]
  /\ maxEntitiesPerBatch \in 0..(BulkLimit + 1)
  /\ i = 0 /\ requests = {} /\ single = {} /\ permanent = {}
  /\ entitiesSet = {} /\ shouldDeleteStaleEntities = TRUE

\* Of the sizes: what the first n of them come to.
Totals(sizes) ==
  LET total[n \in 0..Len(sizes)] == IF n = 0 THEN 0 ELSE total[n - 1] + sizes[n]
  IN total

\* 1.5 times the mean of the sample, rounded up, then how many of them fit.
Sample == Min({SampleSize, Len(entities)})
EstimatedObjectSize ==
  (3 * Totals(entities)[Sample] + 2 * Sample - 1) \div (2 * Sample)
CalculateBulkSize ==
  Max({1, Min({maxEntitiesPerBatch, MaxPayload \div EstimatedObjectSize})})

\* Fault: the end is taken for the last index.
LastIndex == Min({i + CalculateBulkSize + 1, Len(entities)})

End == Min({i + CalculateBulkSize, Len(entities)})
Chunk == (i + 1)..End

\* The client refuses more than the limit without asking Port.
TooMany == End - i > BulkLimit

\* What Port answers for an entity, or for all of them: it is written, or rejected for
\* good, or has failed with any other status or error.
Answer == {"written", "rejected", "failed"}
IdsOf(positions) == {entityIds[p] : p \in positions}

\* The answer is looked up by the identifier: all the entities that share it.
Answered(answer, a) ==
  {p \in Chunk : entityIds[p] \in IdsOf({q \in Chunk : answer[q] = a})}

\* One round of the loop: a bulk request, of which Port may write a part. What has
\* failed is written again one by one, and what fails then is left to a retry.
SendChunk ==
  /\ i < Len(entities)
  /\ i' = i + CalculateBulkSize
  /\ requests' = IF TooMany THEN requests ELSE requests \cup {Chunk}
  /\ \E answer \in [Chunk -> Answer] :
       LET failed == Answered(answer, "failed")
           rejected == Answered(answer, "rejected")
       IN /\ TooMany => \A p \in Chunk : answer[p] = "failed"
          /\ single' = single \cup failed
          /\ permanent' = permanent \cup rejected
          /\ \E handled \in SUBSET failed :
               /\ entitiesSet' = entitiesSet \cup
                    IdsOf({p \in Chunk : answer[p] = "written"} \cup handled)
               /\ shouldDeleteStaleEntities' =
                    (shouldDeleteStaleEntities /\ rejected = {} /\ handled = failed)
  /\ UNCHANGED <<entities, entityIds, maxEntitiesPerBatch>>

UpsertSpec == UpsertInit /\ [][SendChunk]_upsertVars

\* The bytes of a request, which has entities that follow one another.
Payload(request) == Totals(entities)[Max(request)] - Totals(entities)[Min(request) - 1]

\* Whatever the limits are configured to, each entity is in one bulk request or, where
\* the client refuses that, written alone, and the requests share none. No bulk request
\* has more entities than Port takes, nor, when none of several is larger than the
\* estimate from the sample, more bytes. Each entity that Port has not confirmed was
\* written again or is rejected for good, also when its identifier is another's, and the
\* stale deletion is allowed only if it spares all.
RequestsFit ==
  LET estimated(request) ==
        \A e \in request : 2 * Sample * entities[e] <= 3 * Totals(entities)[Sample]
  IN /\ \A r \in requests :
          /\ Max(r) - Min(r) < BulkLimit
          /\ Max(r) > Min(r) /\ estimated(r) => Payload(r) <= MaxPayload
     /\ \A r, q \in requests : r # q => r \cap q = {}
     /\ \A p \in UNION requests :
          entityIds[p] \in entitiesSet \/ p \in single \cup permanent
     /\ i >= Len(entities) =>
          /\ (UNION requests) \cup single = 1..Len(entities)
          /\ shouldDeleteStaleEntities => IdsOf(1..Len(entities)) \subseteq entitiesSet
=============================================================================
