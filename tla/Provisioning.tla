----------------------------- MODULE Provisioning -----------------------------
(* defaults/init.go, defaults.go and port/integration: what every start does in  *)
(* Port before the first resync. InitIntegration creates, recreates or patches   *)
(* the integration, and creates the default blueprints when none exists yet.     *)
(* Users change the integration's configuration and create blueprints meanwhile. *)
EXTENDS Integers, FiniteSets

CONSTANTS Blueprint,     \* identifiers of the default blueprints
          RetryLimit,    \* 30 in the code
          MaxEdits,      \* changes of the configuration by users
          MaxStarts,
          MaxFaults      \* requests that fail, answers that are lost, crashes

ASSUME ProvisioningAssumption ==
  /\ IsFiniteSet(Blueprint) /\ Blueprint # {}
  /\ RetryLimit \in Nat \ {0}
  /\ MaxEdits \in Nat /\ MaxStarts \in Nat \ {0} /\ MaxFaults \in Nat

VARIABLES
  options,       \* the configuration of the process
  config,        \* of the integration in Port; NotThere when there is none
  listensTo,     \* type of its event listener
  edit,          \* the last configuration that a user wrote, 0 before
  blueprint,     \* per default blueprint: what Port has of it, and whose it is
  step,          \* where InitIntegration is
  known,         \* the configuration it has read
  attempts,      \* of PollIntegrationUntilDefaultProvisioningComplete
  task,          \* per blueprint: its goroutine in createResources
  created,       \* createdBlueprints
  starts, faults,
  interrupted,   \* a start ended between the deletion and the creation
  overtaken,     \* a user wrote while the integration was recreated
  lostAnswers    \* faults while the default blueprints were made or rolled back

provisioningVars ==
  <<options, config, listensTo, edit, blueprint, step, known, attempts, task, created,
    starts, faults, interrupted, overtaken, lostAnswers>>

\* A configuration: none, this process's own, the default one, or a user's.
NotThere == -3
NoConfig == -2
OwnConfig == -1
Defaults == 0
Config == NoConfig..MaxEdits
Content == {"absent", "theirs", "bare", "relations", "full"}

ProvisioningTypeOK ==
  /\ options \in [byPort : BOOLEAN, overwrite : BOOLEAN, kafka : BOOLEAN]
  /\ config \in Config \cup {NotThere}
  /\ listensTo \in {"POLLING", "KAFKA"}
  /\ edit \in 0..MaxEdits
  /\ blueprint \in [Blueprint -> Content]
  /\ step \in {"get", "create", "delete", "recreate", "poll", "patch", "check", "bare",
               "relations", "full", "rollback", "up", "exited"}
  /\ known \in Config
  /\ attempts \in 0..RetryLimit
  /\ task \in [Blueprint -> {"none", "pending", "done", "failed"}]
  /\ created \subseteq Blueprint
  /\ starts \in 1..MaxStarts /\ faults \in 0..MaxFaults
  /\ interrupted \in BOOLEAN /\ overtaken \in BOOLEAN /\ lostAnswers \in BOOLEAN

\* The integration may be there from an earlier version, with another listener.
ProvisioningInit ==
  /\ options \in [byPort : BOOLEAN, overwrite : BOOLEAN, kafka : BOOLEAN]
  /\ config \in {NotThere, NoConfig}
  /\ listensTo = "POLLING"
  /\ edit = 0
  /\ blueprint = [b \in Blueprint |-> "absent"]
  /\ step = "get"
  /\ known = NoConfig
  /\ attempts = 0
  /\ task = [b \in Blueprint |-> "none"]
  /\ created = {}
  /\ starts = 1 /\ faults = 0
  /\ interrupted = FALSE /\ overtaken = FALSE /\ lostAnswers = FALSE

Listener == IF options.kafka THEN "KAFKA" ELSE "POLLING"
Fault == faults < MaxFaults /\ faults' = faults + 1
PortKeeps == UNCHANGED <<config, listensTo, edit, blueprint>>
Local == UNCHANGED <<options, starts>>
NoTasks == UNCHANGED <<task, created, lostAnswers>>
Blueprints == UNCHANGED <<blueprint, task, created, lostAnswers, edit, attempts>>

-----------------------------------------------------------------------------
(* The integration. *)

\* An integration that cannot be read is taken for one that does not exist.
GetIntegration ==
  /\ step = "get"
  /\ \/ /\ config # NotThere
        /\ known' = config
        /\ step' = IF options.kafka /\ listensTo # "KAFKA" THEN "delete" ELSE "patch"
        /\ UNCHANGED faults
     \/ config = NotThere /\ step' = "create" /\ UNCHANGED <<known, faults>>
     \/ config # NotThere /\ Fault /\ step' = "create" /\ UNCHANGED known
  /\ PortKeeps /\ Local /\ NoTasks /\ UNCHANGED <<attempts, interrupted, overtaken>>

NewConfig == IF options.byPort THEN OwnConfig ELSE Defaults

ShouldOverwriteConfig == (known = NoConfig /\ ~options.byPort) \/ options.overwrite
\* Fault: the integration is recreated with the configuration of the process.
ConfigOfProcess == OwnConfig

ConfigToUse == IF ShouldOverwriteConfig THEN OwnConfig ELSE known

AfterIntegration == IF options.byPort THEN "up" ELSE "check"

\* A start that fails ends the process.
Exit == step' = "exited"

\* Port answers that an integration that is there cannot be created, also to the
\* second attempt of a request whose first answer was lost.
Create(new) ==
  \/ /\ config = NotThere
     /\ config' = new /\ listensTo' = Listener
     /\ step' = IF options.byPort THEN "poll" ELSE AfterIntegration
     /\ UNCHANGED faults
  \/ /\ config = NotThere /\ Fault
     /\ config' = new /\ listensTo' = Listener
     /\ Exit
  \/ /\ \/ config = NotThere /\ Fault
        \/ config # NotThere /\ UNCHANGED faults
     /\ Exit /\ UNCHANGED <<config, listensTo>>

CreateIntegration ==
  /\ step = "create"
  /\ Create(NewConfig)
  /\ Local /\ Blueprints /\ UNCHANGED <<known, interrupted, overtaken>>

DeleteIntegration ==
  /\ step = "delete"
  /\ \/ config' = NotThere /\ step' = "recreate" /\ UNCHANGED faults
     \/ Fault /\ Exit /\ UNCHANGED config
  /\ overtaken' = (overtaken \/ known # config)
  /\ Local /\ Blueprints /\ UNCHANGED <<listensTo, known, interrupted>>

RecreateIntegration ==
  /\ step = "recreate"
  /\ Create(ConfigToUse)
  /\ interrupted' = (interrupted \/ config' = NotThere)
  /\ Local /\ Blueprints /\ UNCHANGED <<known, overtaken>>

\* Port writes the configuration of an integration that it provisions.
PortProvisions ==
  /\ options.byPort /\ config \in {NoConfig, OwnConfig}
  /\ config' = Defaults
  /\ Local /\ NoTasks
  /\ UNCHANGED <<listensTo, edit, blueprint, step, known, attempts, faults, interrupted,
                 overtaken>>

\* Fault: one attempt too many.
OnceMore(attempt) == attempt <= RetryLimit

MoreAttempts(attempt) == attempt < RetryLimit

\* One attempt; without a configuration to look into the process panics.
PollIntegration ==
  /\ step = "poll"
  /\ \/ config >= OwnConfig /\ step' = "up" /\ UNCHANGED <<attempts, faults>>
     \/ /\ config = OwnConfig /\ UNCHANGED faults    \* which may have no resources
        /\ attempts' = attempts + 1
        /\ step' = IF MoreAttempts(attempts') THEN "poll" ELSE "exited"
     \/ config = NoConfig /\ Exit /\ UNCHANGED <<attempts, faults>>
     \/ Fault /\ Exit /\ UNCHANGED attempts
  /\ PortKeeps /\ Local /\ NoTasks /\ UNCHANGED <<known, interrupted, overtaken>>

\* The patch holds a configuration only when it is to be overwritten.
PatchIntegration ==
  /\ step = "patch"
  /\ \/ /\ config' = IF ShouldOverwriteConfig THEN OwnConfig ELSE config
        /\ listensTo' = IF options.kafka THEN "KAFKA" ELSE listensTo
        /\ overtaken' = (overtaken \/ (ShouldOverwriteConfig /\ known # config))
        /\ step' = AfterIntegration
        /\ UNCHANGED faults
     \/ Fault /\ Exit /\ UNCHANGED <<config, listensTo, overtaken>>
  /\ Local /\ Blueprints /\ UNCHANGED <<known, interrupted>>

-----------------------------------------------------------------------------
(* createResources and its rollback. *)

Integration == UNCHANGED <<config, listensTo, edit, known, attempts, interrupted, overtaken>>
AllPending == task' = [b \in Blueprint |-> "pending"]

\* A blueprint that cannot be read counts as missing.
FindExisting ==
  /\ step = "check"
  /\ \/ /\ \A b \in Blueprint : blueprint[b] = "absent"
        /\ step' = "bare" /\ AllPending /\ created' = {} /\ UNCHANGED faults
     \/ /\ \E b \in Blueprint : blueprint[b] # "absent"
        /\ step' = "up" /\ UNCHANGED <<task, created, faults>>
     \/ /\ Cardinality({b \in Blueprint : blueprint[b] # "absent"}) = 1
        /\ Fault /\ step' = "bare" /\ AllPending /\ created' = {}
  /\ Local /\ Integration /\ UNCHANGED <<blueprint, lostAnswers>>

Ends(b, outcome) == task' = [task EXCEPT ![b] = outcome]
Holds(b, content) == blueprint' = [blueprint EXCEPT ![b] = content]

NewBlueprint(b) ==
  /\ step = "bare" /\ task[b] = "pending"
  /\ \/ /\ blueprint[b] = "absent"
        /\ Holds(b, "bare") /\ Ends(b, "done")
        /\ created' = created \cup {b}
        /\ UNCHANGED <<faults, lostAnswers>>
     \/ /\ blueprint[b] = "absent" /\ Fault    \* and the retry finds it taken
        /\ Holds(b, "bare") /\ Ends(b, "failed")
        /\ lostAnswers' = TRUE /\ UNCHANGED created
     \/ /\ \/ blueprint[b] # "absent" /\ UNCHANGED faults
           \/ Fault
        /\ Ends(b, "failed") /\ UNCHANGED <<blueprint, created, lostAnswers>>
  /\ Local /\ Integration /\ UNCHANGED step

\* The two stages of patches, first the relations and then all the rest.
PatchBlueprint(b) ==
  /\ step \in {"relations", "full"} /\ task[b] = "pending"
  /\ \/ /\ blueprint[b] # "absent" /\ Holds(b, step) /\ Ends(b, "done") /\ UNCHANGED faults
     \/ Fault /\ Ends(b, "failed") /\ UNCHANGED blueprint
  /\ Local /\ Integration /\ UNCHANGED <<step, created, lostAnswers>>

\* Fault: the patches are not looked at.
CreationFailed == step = "bare" /\ \E b \in Blueprint : task[b] = "failed"

StageFailed == \E b \in Blueprint : task[b] = "failed"

\* The wait group of a stage, then the next one or the rollback. The score cards
\* and pages that follow do not fail the creation.
StageEnds ==
  /\ step \in {"bare", "relations", "full"}
  /\ \A b \in Blueprint : task[b] # "pending"
  /\ IF StageFailed
     THEN step' = "rollback" /\ task' = [b \in Blueprint |-> "none"]
     ELSE /\ step' = CASE step = "bare" -> "relations"
                       [] step = "relations" -> "full"
                       [] OTHER -> "up"
          /\ IF step = "full" THEN task' = [b \in Blueprint |-> "none"] ELSE AllPending
  /\ Local /\ Integration /\ UNCHANGED <<blueprint, created, faults, lostAnswers>>

\* Fault: every default blueprint is rolled back.
EveryBlueprint == Blueprint

BlueprintsToRollback == created

\* A deletion that fails is not repeated; the exporter goes on without defaults.
DeleteBlueprint(b) ==
  /\ step = "rollback" /\ b \in BlueprintsToRollback
  /\ \/ Holds(b, "absent") /\ UNCHANGED <<faults, lostAnswers>>
     \/ Fault /\ lostAnswers' = TRUE /\ UNCHANGED blueprint
  /\ created' = created \ {b}
  /\ Local /\ Integration /\ UNCHANGED <<step, task>>

RollbackEnds ==
  /\ step = "rollback" /\ BlueprintsToRollback = {}
  /\ step' = "up"
  /\ Local /\ Integration /\ UNCHANGED <<blueprint, task, created, faults, lostAnswers>>

-----------------------------------------------------------------------------
(* Users, and the process. *)

EditConfig ==
  /\ config # NotThere /\ edit < MaxEdits
  /\ edit' = edit + 1
  /\ config' = edit + 1
  /\ Local /\ NoTasks
  /\ UNCHANGED <<listensTo, blueprint, step, known, attempts, faults, interrupted,
                 overtaken>>

UserCreatesBlueprint(b) ==
  /\ blueprint[b] = "absent"
  /\ Holds(b, "theirs")
  /\ Local /\ Integration /\ UNCHANGED <<step, task, created, faults, lostAnswers>>

\* A crash at any step, or the next start of a process that ended.
StartAgain ==
  /\ starts < MaxStarts
  /\ starts' = starts + 1
  /\ IF step \in {"up", "exited"} THEN UNCHANGED faults ELSE Fault
  /\ interrupted' = (interrupted \/ step = "recreate")
  /\ lostAnswers' = (lostAnswers \/ step \in {"bare", "relations", "full", "rollback"})
  /\ step' = "get" /\ known' = NoConfig /\ attempts' = 0
  /\ task' = [b \in Blueprint |-> "none"] /\ created' = {}
  /\ UNCHANGED <<options, config, listensTo, edit, blueprint, overtaken>>

InitStep ==
  \/ GetIntegration \/ CreateIntegration \/ DeleteIntegration \/ RecreateIntegration
  \/ PollIntegration \/ PatchIntegration \/ FindExisting \/ StageEnds
  \/ RollbackEnds
  \/ \E b \in Blueprint : NewBlueprint(b) \/ PatchBlueprint(b) \/ DeleteBlueprint(b)

ProvisioningNext ==
  \/ InitStep \/ PortProvisions \/ EditConfig \/ StartAgain
  \/ \E b \in Blueprint : UserCreatesBlueprint(b)

ProvisioningSpec == ProvisioningInit /\ [][ProvisioningNext]_provisioningVars

-----------------------------------------------------------------------------
\* The configuration that a user wrote last is in Port, or in the hands of a start
\* that is recreating the integration. It is lost only when the process is told to
\* overwrite it, when a start ends between the deletion and the creation, or when
\* the user writes between a start's reading and its writing.
UserConfigKept ==
  edit # 0 /\ ~options.overwrite /\ ~interrupted /\ ~overtaken =>
    config = edit \/ (step = "recreate" /\ known = edit)

\* No start, and no rollback of a failed creation, deletes or changes a blueprint
\* that a user created, whenever the user did.
UsersBlueprintsKept ==
  [][\A b \in Blueprint : blueprint[b] = "theirs" => blueprint'[b] = "theirs"]_blueprint

\* When the exporter is up it has created each of its default blueprints in full, or
\* has left none of its own behind; a lost answer, a failed deletion and a crash in
\* the middle are the exceptions, and no later start repairs them.
DefaultsAllOrNothing ==
  step \in {"up", "exited"} /\ ~lostAnswers =>
    \/ \A b \in Blueprint : blueprint[b] = "full"
    \/ \A b \in Blueprint : blueprint[b] \in {"absent", "theirs"}
=============================================================================
