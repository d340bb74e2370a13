----------------------------- MODULE EntityMapping -----------------------------
(* ParseMapInterface of jq/parser.go, by which the properties of an entity come   *)
(* from queries on the object: one per property, in the order of Go's maps, and   *)
(* "*" for a query whose map is merged in, as in the kinds of custom resources.   *)
EXTENDS Integers, FiniteSets

CONSTANTS Property, Star

ASSUME EntityMappingAssumption == Star \notin Property

VARIABLES
  jqQueries,     \* the keys of the mapping
  starResult,    \* the keys of the map that "*" yields; {Star} for another value
  toEvaluate,
  mapInterface,  \* per property: the query its value is from, or Unset
  parseFailed    \* whether a query has failed: no map is returned then

mappingVars == <<jqQueries, starResult, toEvaluate, mapInterface, parseFailed>>

Key == Property \cup {Star}
Unset == "unset"

MappingTypeOK ==
  /\ jqQueries \subseteq Key /\ starResult \subseteq Key
  /\ toEvaluate \subseteq jqQueries
  /\ mapInterface \in [Key -> Key \cup {Unset}] /\ parseFailed \in BOOLEAN

MappingInit ==
  /\ jqQueries \in SUBSET Key
  /\ starResult \in (SUBSET Property) \cup {{Star}}
  /\ toEvaluate = jqQueries
  /\ mapInterface = [k \in Key |-> Unset] /\ parseFailed = FALSE

\* Fault: what was evaluated before is dropped.
Replace(keys) == [k \in Key |-> IF k \in keys THEN Star ELSE Unset]

\* MergeMaps: the keys of the second map replace those of the first.
Merge(keys) == [k \in Key |-> IF k \in keys THEN Star ELSE mapInterface[k]]

Evaluate(key) ==
  /\ key \in toEvaluate
  /\ toEvaluate' = toEvaluate \ {key}
  /\ mapInterface' = IF key = Star THEN Merge(starResult)
                     ELSE [mapInterface EXCEPT ![key] = key]
  /\ UNCHANGED <<jqQueries, starResult, parseFailed>>

\* A query that fails ends the evaluation, and the entity is not mapped at all.
EvaluationFails ==
  /\ toEvaluate # {}
  /\ toEvaluate' = {} /\ parseFailed' = TRUE
  /\ mapInterface' = [k \in Key |-> Unset]
  /\ UNCHANGED <<jqQueries, starResult>>

MappingNext == EvaluationFails \/ \E key \in Key : Evaluate(key)
MappingSpec == MappingInit /\ [][MappingNext]_mappingVars

\* The order decides nothing but the properties that "*" yields and a query of their
\* own names too: a mapped entity has each property that has a query, and each that
\* "*" yields, from the one query there is for it, and no other; one whose evaluation
\* has failed has none.
OrderMattersOnlyForBoth ==
  LET yielded == IF Star \in jqQueries THEN starResult ELSE {}
      named == jqQueries \ {Star}
  IN toEvaluate = {} =>
       \/ parseFailed /\ \A k \in Key : mapInterface[k] = Unset
       \/ ~parseFailed /\ \A k \in Key :
            mapInterface[k] \in
              (IF k \in named THEN {k} ELSE {})
                \cup (IF k \in yielded THEN {Star} ELSE {})
                \cup (IF k \in named \cup yielded THEN {} ELSE {Unset})
=============================================================================
