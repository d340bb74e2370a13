----------------------------- MODULE OwnedDeletion -----------------------------
(* deleteEntities of controller.go, with FilterOwnedIdentifiers of port/entity and *)
(* BulkDeleteEntities of the client: the entities of an object are deleted that    *)
(* Port says are this exporter's, in searches and in concurrent batches. One       *)
(* blueprint. Other exporters, and users, write to Port meanwhile.                *)
EXTENDS Integers, FiniteSets, Sequences

CONSTANTS Identifier,
          SearchBatch,   \* ownershipSearchBatchSize
          DeleteBatch,   \* maxBulkDeleteBatchSize
          MaxConcurrent, \* maxConcurrentBulkDeletes
          MaxEntities, MaxTakeOvers, MaxErrors

ASSUME OwnedDeletionAssumption ==
  /\ {SearchBatch, DeleteBatch, MaxConcurrent} \subseteq Nat \ {0}
  /\ {MaxEntities, MaxTakeOvers, MaxErrors} \subseteq Nat

VARIABLES
  live,          \* whether the source is a live event
  owner,         \* per entity of Port: its datasource, Gone when it is not there
  identifiers,   \* those of the object; it may map to one identifier twice
  searched,      \* number of them whose chunks have been searched
  ownedIDs,      \* what the first search of a chunk found, until the second
  owned,         \* ownedByBlueprint, as the positions in identifiers
  batches,       \* the batches that have not begun, each the positions in it
  running,       \* those that have
  phase,
  deleted,       \* what BulkDeleteEntities counts
  removed,       \* the entities that it has deleted, and from whom
  takeOvers,     \* the entities that another has taken, and whether after the search
  errors

deletionVars ==
  <<live, owner, identifiers, searched, ownedIDs, owned, batches, running, phase, deleted,
    removed, takeOvers, errors>>

Gone == "gone"
Exporter == "port-k8s-exporter"
AutoExporter == "port-auto-k8s-exporter"
Other == "another"

DeletionTypeOK ==
  /\ live \in BOOLEAN
  /\ owner \in [Identifier -> {Gone, Exporter, AutoExporter, Other}]
  /\ identifiers \in Seq(Identifier) /\ Len(identifiers) <= MaxEntities
  /\ searched \in 0..(MaxEntities + SearchBatch)
  /\ ownedIDs \subseteq Identifier
  /\ owned \subseteq DOMAIN identifiers
  /\ batches \subseteq SUBSET owned /\ running \subseteq SUBSET owned
  /\ phase \in {"search", "auto", "delete", "done", "failed"}
  /\ deleted \in 0..MaxEntities
  /\ removed \in [Identifier -> {Gone, Exporter, AutoExporter, Other}]
  /\ takeOvers \in [Identifier -> {"none", "before", "after"}]
  /\ errors \in 0..MaxErrors

DeletionInit ==
  /\ live \in BOOLEAN
  /\ owner \in [Identifier -> {Gone, Exporter, AutoExporter, Other}]
  /\ identifiers \in UNION {[1..n -> Identifier] : n \in 1..MaxEntities}
  /\ searched = 0 /\ ownedIDs = {} /\ owned = {}
  /\ batches = {} /\ running = {}
  /\ phase = "search"
  /\ deleted = 0
  /\ removed = [e \in Identifier |-> Gone]
  /\ takeOvers = [e \in Identifier |-> "none"]
  /\ errors = 0

Errors == errors < MaxErrors /\ errors' = errors + 1
Searched == searched >= Len(identifiers)
IDs(positions) == {identifiers[p] : p \in positions}

\* The datasources that count as this exporter's.
Ours == {Exporter} \cup (IF live THEN {AutoExporter} ELSE {})

\* Fault: the chunk ends before its last.
ShortSearch == {p \in DOMAIN identifiers : p > searched /\ p < searched + SearchBatch}

\* The searches of one chunk; that of a live event is searched twice. An error ends
\* the deletion before it has begun.
InSearch == {p \in DOMAIN identifiers : p > searched /\ p <= searched + SearchBatch}

ChunkOwned(ids) ==
  /\ owned' = owned \cup {p \in InSearch : identifiers[p] \in ids}
  /\ searched' = searched + SearchBatch
  /\ ownedIDs' = {}

Search(from, found) ==
  /\ phase = from /\ ~Searched
  /\ \/ found /\ UNCHANGED errors
     \/ Errors /\ phase' = "failed" /\ UNCHANGED <<searched, ownedIDs, owned>>
  /\ UNCHANGED <<live, owner, identifiers, batches, running, deleted, removed, takeOvers>>

\* Fault: the search has no rule for the datasource.
AnyInChunk(datasource) == {e \in IDs(InSearch) : owner[e] # Gone}

InChunk(datasource) == {e \in IDs(InSearch) : owner[e] = datasource}

SearchOwned ==
  Search("search",
         IF live
         THEN /\ ownedIDs' = InChunk(Exporter) /\ phase' = "auto"
              /\ UNCHANGED <<searched, owned>>
         ELSE ChunkOwned(InChunk(Exporter)) /\ UNCHANGED phase)

SearchAutoOwned ==
  Search("auto", ChunkOwned(ownedIDs \cup InChunk(AutoExporter)) /\ phase' = "search")

\* slices.Chunk of what is owned, in the order of its positions.
Rank(p) == Cardinality({q \in owned : q < p})
BatchOf(p) == {q \in owned : Rank(q) \div DeleteBatch = Rank(p) \div DeleteBatch}

Chunks == {BatchOf(p) : p \in owned}

BeginDelete ==
  /\ phase = "search" /\ Searched
  /\ phase' = "delete"
  /\ batches' = Chunks
  /\ UNCHANGED <<live, owner, identifiers, searched, ownedIDs, owned, running, deleted,
                 removed, takeOvers, errors>>

\* SetLimit: the next goroutine waits for one that returns.
StartBatch(b) ==
  /\ phase = "delete" /\ b \in batches
  /\ Cardinality(running) < MaxConcurrent
  /\ batches' = batches \ {b}
  /\ running' = running \cup {b}
  /\ UNCHANGED <<live, owner, identifiers, searched, ownedIDs, owned, phase, deleted,
                 removed, takeOvers, errors>>

\* Port deletes what is there of the batch, or skips some of it, or refuses it, or
\* its answer is lost; only an answer is counted, and no error stops the others.
DeleteBatchOf(b) ==
  LET there == {e \in IDs(b) : owner[e] # Gone}
  IN /\ phase = "delete" /\ b \in running
     /\ running' = running \ {b}
     /\ \E gone \in SUBSET there :
          /\ owner' = [e \in Identifier |-> IF e \in gone THEN Gone ELSE owner[e]]
          /\ removed' = [e \in Identifier |-> IF e \in gone THEN owner[e] ELSE removed[e]]
          /\ \/ gone = there /\ deleted' = deleted + Cardinality(gone) /\ UNCHANGED errors
             \/ gone # there /\ deleted' = deleted + Cardinality(gone) /\ Errors
             \/ gone \in {there, {}} /\ Errors /\ UNCHANGED deleted
     /\ UNCHANGED <<live, identifiers, searched, ownedIDs, owned, batches, phase,
                    takeOvers>>

\* g.Wait.
EndDelete ==
  /\ phase = "delete" /\ batches = {} /\ running = {}
  /\ phase' = "done"
  /\ UNCHANGED <<live, owner, identifiers, searched, ownedIDs, owned, batches, running,
                 deleted, removed, takeOvers, errors>>

\* Another exporter, or a user, writes an entity and owns it from then on.
TakeOver(e) ==
  /\ Cardinality({d \in Identifier : takeOvers[d] # "none"}) < MaxTakeOvers
  /\ takeOvers' = [takeOvers EXCEPT ![e] = IF e \in IDs(owned) \cup ownedIDs
                                         THEN "after" ELSE "before"]
  /\ owner' = [owner EXCEPT ![e] = Other]
  /\ UNCHANGED <<live, identifiers, searched, ownedIDs, owned, batches, running, phase,
                 deleted, removed, errors>>

DeletionNext ==
  \/ SearchOwned \/ SearchAutoOwned \/ BeginDelete \/ EndDelete
  \/ \E b \in batches : StartBatch(b)
  \/ \E b \in running : DeleteBatchOf(b)
  \/ \E e \in Identifier : TakeOver(e)

DeletionSpec == DeletionInit /\ [][DeletionNext]_deletionVars

-----------------------------------------------------------------------------
\* No entity of another exporter's, or of a user's, is deleted unless it became
\* theirs after the search: no chunk, duplicate or half-finished search mixes owners.
OthersSpared ==
  \A e \in Identifier : removed[e] \in Ours \cup {Gone} \/ takeOvers[e] = "after"

\* When no request failed, Port has no entity of this exporter's any more under any
\* identifier of the object: none is left out by a chunk of the searches or of the
\* batches. Each was counted once, also one that stands in two batches, unless another
\* wrote it in between.
OursDeleted ==
  phase = "done" /\ errors = 0 =>
    /\ \A p \in DOMAIN identifiers : owner[identifiers[p]] \notin Ours
    /\ \/ deleted = Cardinality(IDs(owned))
       \/ \E e \in IDs(owned) : takeOvers[e] = "after"
=============================================================================
