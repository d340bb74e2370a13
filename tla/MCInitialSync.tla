---------------------------- MODULE MCInitialSync ----------------------------
(* Small instances of InitialSync for TLC. *)
EXTENDS InitialSync, TLC

CONSTANTS i1, i2, i3, e1, e2

\* The first object is mapped to two entities, as with itemsToParse, and shares
\* one of them with the others.
SharedEntities == [i \in Item |-> IF i = i1 THEN {e1, e2} ELSE {e2}]

\* Every object is mapped to one entity: none can have a permanent and a
\* retryable failure in one flush.
SingleEntity == [i \in Item |-> IF i = i1 THEN {e1} ELSE {e2}]

\* All objects but the first are mapped alike.
Interchangeable == Permutations(Item \ {i1})
==============================================================================
