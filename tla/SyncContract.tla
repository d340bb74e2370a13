----------------------------- MODULE SyncContract -----------------------------
(***************************************************************************)
(* What a sync of one resource promises to the resync that calls it: it     *)
(* reports the entities that are in Port because of it, and it allows the   *)
(* deletion of all others only if everything it mapped was written.  How    *)
(* the entities travel (queue, retries, batches) is not part of it.         *)
(***************************************************************************)
CONSTANT Entity

VARIABLES
  open,       \* entities mapped from the cluster and not yet written
  reported,   \* SyncResult.EntitiesSet
  mayDelete,  \* SyncResult.ShouldDeleteStaleEntities
  finished    \* the result was returned

vars == <<open, reported, mayDelete, finished>>

Init == open = {} /\ reported = {} /\ mayDelete = TRUE /\ finished = FALSE

\* An object of the cluster is mapped to entities.
Map ==
  /\ ~finished
  /\ open' \in {open \cup E : E \in SUBSET Entity}
  /\ UNCHANGED <<reported, mayDelete, finished>>

\* All open entities are tried: each is written, or fails, or (mapped from two
\* objects) both.  A failure forbids the deletion for good.
Settle(returns) ==
  /\ ~finished
  /\ \E written, failed \in SUBSET Entity :
       /\ written \cup failed = open
       /\ reported' = reported \cup written
       /\ mayDelete' = (mayDelete /\ failed = {})
  /\ open' = {}
  /\ finished' = returns

\* An object cannot be mapped: what it stands for in Port is unknown.
Fail == ~finished /\ mayDelete' = FALSE /\ UNCHANGED <<open, reported, finished>>

Next == Map \/ Fail \/ \E returns \in BOOLEAN : Settle(returns)

Spec == Init /\ [][Next]_vars
==============================================================================
