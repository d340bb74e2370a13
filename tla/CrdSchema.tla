------------------------------- MODULE CrdSchema -------------------------------
(* crd/utils.go: ShallowJsonSchema makes the nested schema of a definition a flat *)
(* one for the inputs of its actions. It changes the very map it ranges over, in  *)
(* the order of Go's maps, which is any. A property is known by its path.         *)
EXTENDS Integers, Sequences, SequencesExt

CONSTANTS PropertyName, MaxDepth
ASSUME CrdSchemaAssumption == MaxDepth \in Nat \ {0}

VARIABLES
  leaves,        \* the paths of the properties that are not objects
  toVisit,       \* keys of the top level the range has still to come to
  properties     \* keys of the map, each the path whose names it joins

schemaVars == <<leaves, toVisit, properties>>

Path == UNION {[1..d -> PropertyName] : d \in 1..MaxDepth}
TopLevel(paths) == {<<Head(p)>> : p \in paths}

\* The objects are the proper prefixes; an object without properties has no path.
Objects == {p \in Path : \E q \in leaves : IsStrictPrefix(p, q)}

SchemaTypeOK ==
  leaves \subseteq Path /\ toVisit \subseteq Path /\ properties \subseteq Path

\* No property is both a leaf and an object.
CrdSchemas ==
  {l \in SUBSET Path : \A p, q \in l : ~IsStrictPrefix(p, q)}

SchemaInit ==
  /\ leaves \in CrdSchemas
  /\ toVisit = TopLevel(leaves)
  /\ properties = TopLevel(leaves)

\* Fault: the objects within are not gone into.
AddedBelow(key) == {p \in leaves : IsStrictPrefix(key, p) /\ Len(p) = Len(key) + 1}

\* What shallowProperties adds for an object, and deletes, when its recursion is
\* over: its leaves under their joined names, but every object within under the name
\* it has in its parent.
AddedFor(key) == {p \in leaves : IsStrictPrefix(key, p)}
DeletedFor(key) == {<<Last(o)>> : o \in {p \in Objects : IsPrefix(key, p)}}

VisitProperty(key) ==
  /\ key \in toVisit /\ key \in properties
  /\ toVisit' = toVisit \ {key}
  /\ properties' = IF key \in leaves THEN properties
                   ELSE (properties \cup AddedFor(key)) \ DeletedFor(key)
  /\ UNCHANGED leaves

\* An entry that was deleted before the range came to it is never produced.
SkipDeleted(key) ==
  /\ key \in toVisit /\ key \notin properties
  /\ toVisit' = toVisit \ {key}
  /\ UNCHANGED <<leaves, properties>>

SchemaNext == \E key \in toVisit : VisitProperty(key) \/ SkipDeleted(key)
SchemaSpec == SchemaInit /\ [][SchemaNext]_schemaVars

\* Whatever the order, the flat schema has no objects left, and all the properties
\* that are not, except those at or below a name of the top level that an object
\* further down has too: the deletion takes the wrong one then.
Shallowed ==
  toVisit = {} =>
    /\ properties \subseteq leaves
    /\ \A p \in leaves \ properties :
         \E o \in Objects : Len(o) > 1 /\ Last(o) = Head(p)
=============================================================================
