----------------------------- MODULE CrdDiscovery -----------------------------
(* crd.go: at the start of every resync the custom resource definitions that      *)
(* match a pattern get a kind of their own, a blueprint named after their         *)
(* singular, and three actions. What is there already is patched or left alone.   *)
EXTENDS Integers, FiniteSets

CONSTANTS Crd,
          Singular,      \* the names that definitions, of other groups too, share
          Operation,     \* of the actions: create, update and delete
          MaxVersion,    \* versions of a definition's schema
          MaxDiscoveries,
          MaxRefusals    \* requests that fail

VARIABLES
  named,         \* the singular of each definition
  overwriteCRDsActions,
  version,       \* of each definition, 0 when it is not there or does not match
  crds,          \* what the listing returned and was not handled yet: versions
  current,       \* the definition under way, or None
  actionsLeft,   \* its actions still to create
  kinds,         \* the versions whose kinds were appended to the resources
  unconverted,   \* those of them whose schema could not be converted
  schema,        \* per singular: definition and version of Port's blueprint
  action,        \* per singular and operation: those of Port's action
  discoveries, refusals

crdVars ==
  <<named, overwriteCRDsActions, version, crds, current, actionsLeft, kinds, unconverted,
    schema, action, discoveries, refusals>>

NoSchema == [crd |-> "none", version |-> 0]
Absent == [crd |-> "absent", version |-> 0]
Edited == [crd |-> "edited", version |-> 0]

ASSUME CrdDiscoveryAssumption ==
  /\ {MaxVersion, MaxDiscoveries} \subseteq Nat \ {0} /\ MaxRefusals \in Nat
  /\ Crd \cap {"none", "absent", "edited"} = {}

CrdTypeOK ==
  /\ named \in [Crd -> Singular]
  /\ overwriteCRDsActions \in BOOLEAN
  /\ version \in [Crd -> 0..MaxVersion] /\ crds \in [Crd -> 0..MaxVersion]
  /\ current \in [crd : Crd \cup {"none"}, version : 0..MaxVersion]
  /\ actionsLeft \subseteq Operation
  /\ kinds \in [Crd -> 0..MaxVersion] /\ unconverted \subseteq Crd
  /\ schema \in [Singular -> [crd : Crd \cup {"none"}, version : 0..MaxVersion]]
  /\ action \in [Singular -> [Operation ->
                 [crd : Crd, version : 0..MaxVersion] \cup {Absent, Edited}]]
  /\ discoveries \in 0..MaxDiscoveries /\ refusals \in 0..MaxRefusals

CrdInit ==
  /\ named \in [Crd -> Singular]
  /\ overwriteCRDsActions = FALSE
  /\ version = [c \in Crd |-> 1]
  /\ crds = [c \in Crd |-> 0]
  /\ current = NoSchema
  /\ actionsLeft = {}
  /\ kinds = [c \in Crd |-> 0] /\ unconverted = {}
  /\ schema = [s \in Singular |-> NoSchema]
  /\ action = [s \in Singular |-> [o \in Operation |-> Absent]]
  /\ discoveries = 0 /\ refusals = 0

Working == current # NoSchema
Listed == \E c \in Crd : crds[c] # 0
Refused == refusals < MaxRefusals /\ refusals' = refusals + 1
Cluster == UNCHANGED <<named, version>>

\* AutodiscoverCRDsToActions, with the configuration of its resync: the listing, of
\* which those that match are handled.
ListCRDs ==
  /\ ~Working /\ ~Listed /\ discoveries < MaxDiscoveries
  /\ discoveries' = discoveries + 1
  /\ overwriteCRDsActions' \in BOOLEAN
  /\ kinds' = [c \in Crd |-> 0] /\ unconverted' = {}
  /\ \/ crds' = version /\ refusals' = 0
     \/ Refused /\ UNCHANGED crds
  /\ Cluster /\ UNCHANGED <<current, actionsLeft, schema, action>>

\* The kind of a definition is appended, and goes without a blueprint and actions when
\* the conversion fails. A blueprint is created or, when it is taken, patched; the
\* actions follow whatever becomes of that.
HandleBlueprint(c) ==
  /\ ~Working /\ crds[c] # 0
  /\ crds' = [crds EXCEPT ![c] = 0]
  /\ kinds' = [kinds EXCEPT ![c] = crds[c]]
  /\ \/ /\ unconverted' = unconverted \cup {c}
        /\ UNCHANGED <<current, actionsLeft, schema, refusals>>
     \/ /\ current' = [crd |-> c, version |-> crds[c]]
        /\ actionsLeft' = Operation
        /\ \/ schema' = [schema EXCEPT ![named[c]] = current'] /\ UNCHANGED refusals
           \/ Refused /\ UNCHANGED schema
        /\ UNCHANGED unconverted
  /\ Cluster /\ UNCHANGED <<overwriteCRDsActions, action, discoveries>>

\* Fault: the configuration is not looked at.
OverwritesNothing(written) == written = Absent

\* An action that is taken is updated only if the configuration says so.
Overwrites(written) == written = Absent \/ overwriteCRDsActions

HandleAction(o) ==
  LET s == named[current.crd] IN
  /\ Working /\ o \in actionsLeft
  /\ actionsLeft' = actionsLeft \ {o}
  /\ \/ /\ action' = IF Overwrites(action[s][o])
                     THEN [action EXCEPT ![s] = [action[s] EXCEPT ![o] = current]]
                     ELSE action
        /\ UNCHANGED refusals
     \/ Refused /\ UNCHANGED action
  /\ current' = IF actionsLeft' = {} THEN NoSchema ELSE current
  /\ Cluster
  /\ UNCHANGED <<overwriteCRDsActions, crds, kinds, unconverted, schema, discoveries>>

\* The cluster: a definition comes, changes, goes or ceases to match the pattern.
ChangeDefinition(c) ==
  /\ \E v \in (0..MaxVersion) \ {version[c]} : version' = [version EXCEPT ![c] = v]
  /\ UNCHANGED <<named, overwriteCRDsActions, crds, current, actionsLeft, kinds,
                 unconverted, schema, action, discoveries, refusals>>

\* A user of Port.
EditAction(s, o) ==
  /\ action[s][o] \notin {Absent, Edited}
  /\ action' = [action EXCEPT ![s] = [action[s] EXCEPT ![o] = Edited]]
  /\ Cluster
  /\ UNCHANGED <<overwriteCRDsActions, crds, current, actionsLeft, kinds, unconverted,
                 schema, discoveries, refusals>>

CrdNext ==
  \/ ListCRDs
  \/ \E c \in Crd : HandleBlueprint(c) \/ ChangeDefinition(c)
  \/ \E o \in Operation : HandleAction(o) \/ \E s \in Singular : EditAction(s, o)

CrdSpec == CrdInit /\ [][CrdNext]_crdVars

-----------------------------------------------------------------------------
Over == ~Working /\ ~Listed
Kinds == {c \in Crd : kinds[c] # 0}
Converted == Kinds \ unconverted

\* When a discovery without failed requests is over, each kind that it added and could
\* convert has a blueprint with the schema that was listed of it, or of another such kind
\* of the same singular, and all its actions. With the option to overwrite they are all
\* of that same definition and version, but for what users edit; without it each is of
\* some definition of the singular, which may be gone or have changed since. Definitions
\* come, change and go between the discoveries, and under them.
DefinitionsReflected ==
  Over /\ refusals = 0 =>
    \A c \in Converted :
      LET s == named[c] IN
      /\ \E d \in Converted :
           named[d] = s /\ schema[s] = [crd |-> d, version |-> kinds[d]]
      /\ \A o \in Operation :
           /\ action[s][o] # Absent
           /\ overwriteCRDsActions => action[s][o] \in {schema[s], Edited}
           /\ action[s][o] # Edited => named[action[s][o].crd] = s
=============================================================================
