------------------------------ MODULE LiveEvents ------------------------------
(***************************************************************************)
(* The live events of one controller (pkg/k8s/controller.go): what happens  *)
(* between a change the informer observes and its effect in Port, after the *)
(* initial sync.                                                            *)
(*                                                                          *)
(* The informer stores an object's new content in its cache and appends a   *)
(* notification.  One goroutine handles the notifications in order: AddFunc *)
(* and UpdateFunc put an item in the events queue, DeleteFunc deletes from  *)
(* Port at once.  The worker of RunEventsSync takes items from the queue,   *)
(* maps what it then finds in the cache, and keeps the entities in a batch  *)
(* until the batch is full or old.                                          *)
(*                                                                          *)
(* Every object is mapped to one entity, which has the object's name here;  *)
(* the resource has one kind configuration.                                 *)
(***************************************************************************)
EXTENDS WorkQueue, Sequences, FiniteSets

CONSTANTS
  Object,          \* keys of the objects of this kind, and their entities
  Content,         \* what an object may contain
  Mapping,         \* what the kind configuration makes of a content
  Absent,          \* no object in the cache, no entity in Port
  None,            \* DeleteFunc is not running
  UpdateEntityOnlyOnDiff, \* the integration's setting, true when it is unset
  MaxNumRequeues,  \* retries of one item; 4 in the code
  MaxBatchSize,    \* entities that fill the batch collector
  MaxChanges       \* bound: changes of the cluster

\* match: an entity; exclude: an entity the selector drops; none: the selector
\* drops the object and the mapping fails, which is ignored; fail: an error.
ASSUME MappingKinds  == Mapping \in [Content -> {"match", "exclude", "none", "fail"}]
ASSUME NoContent     == Absent \notin Content /\ None \notin Object
ASSUME DiffSetting   == UpdateEntityOnlyOnDiff \in BOOLEAN
ASSUME RequeueLimit  == MaxNumRequeues \in Nat
ASSUME BatchLimit    == MaxBatchSize \in Nat
ASSUME ChangeLimit   == MaxChanges \in Nat

Item == Object \X {"create", "update"}   \* EventItem: Key and ActionType
Version == Content \cup {Absent}

VARIABLES
  cache,      \* the informer's indexer
  notes,      \* notifications the listener has not handled yet
  deleting,   \* the object DeleteFunc found in Port and is about to delete
  wq,         \* c.eventsWorkqueue
  taken,      \* items in the poller's hand and channel
  pc,         \* where the worker of RunEventsSync stands
  batch,      \* batchCollector.entitiesByBlueprint, in the order of addition
  timedOut,   \* time.Since(bc.lastFlush) > bc.timeout
  port,       \* the entities in Port
  givenUp,    \* history: objects whose last write was given up
  undeleted,  \* history: objects whose deletion or cleanup was given up
  overtaken,  \* history: objects deleted while the batch held their entity
  changes     \* number of changes so far

informerVars == <<cache, changes>>
listenerVars == <<notes, deleting>>
workerVars   == <<taken, pc, batch, timedOut>>
historyVars  == <<givenUp, undeleted, overtaken>>
vars == <<informerVars, listenerVars, wq, workerVars, port, historyVars>>

Note  == [obj: Object, old: Version, new: Version]
Entry == [item: Item, content: Content]

BatchItems == {batch[k].item : k \in DOMAIN batch}
EntriesOf(o) == {k \in DOMAIN batch : batch[k].item[1] = o}

TypeOK ==
  /\ cache \in [Object -> Version]
  /\ notes \in Seq(Note)
  /\ deleting \in Object \cup {None}
  /\ wq \in QueueType(Item, MaxNumRequeues)
  /\ taken \in SUBSET Item
  /\ pc \in {"check", "get", "ended"}
  /\ batch \in Seq(Entry)
  /\ timedOut \in BOOLEAN
  /\ port \in [Object -> Version]
  /\ givenUp \in SUBSET Object
  /\ undeleted \in SUBSET Object
  /\ overtaken \in SUBSET Object
  /\ changes \in 0..MaxChanges

Is(version, kind) == version # Absent /\ Mapping[version] = kind

\* What the entity of an object with this content is in Port.
EntityOf(version) == IF Is(version, "match") THEN version ELSE Absent

\* The initial sync has just written the entities of the objects it found.
Init ==
  /\ cache \in [Object -> Version]
  /\ notes = <<>> /\ deleting = None
  /\ wq = NewQueue(Item, {})
  /\ taken = {} /\ pc = "check" /\ batch = <<>> /\ timedOut = FALSE
  /\ port = [o \in Object |-> EntityOf(cache[o])]
  /\ givenUp = {} /\ undeleted = {} /\ overtaken = {}
  /\ changes = 0

-----------------------------------------------------------------------------
(* The informer: the cache changes first, the handlers are told later.      *)

Change(o, version) ==
  /\ ~wq.down
  /\ changes < MaxChanges /\ changes' = changes + 1
  /\ version # cache[o]
  /\ cache' = [cache EXCEPT ![o] = version]
  /\ notes' = Append(notes, [obj |-> o, old |-> cache[o], new |-> version])
  /\ givenUp' = givenUp \ {o}
  /\ UNCHANGED <<deleting, wq, workerVars, port, undeleted, overtaken>>

-----------------------------------------------------------------------------
(* The listener goroutine.                                                  *)

Handling(note) ==
  /\ notes # <<>> /\ deleting = None
  /\ note = Head(notes)

\* AddFunc, after the initial sync.
AddFunc(note) ==
  /\ Handling(note)
  /\ note.old = Absent
  /\ wq' = Add(wq, {<<note.obj, "create">>})
  /\ notes' = Tail(notes)
  /\ UNCHANGED <<informerVars, deleting, workerVars, port, historyVars>>

\* The matched entities of the two contents differ, or one cannot be mapped, or
\* every update is wanted.
\* Faults: an update is sent only if there is an entity to write, or only if there
\* was one.
SendIfMatched(old, new) == EntityOf(new) # Absent /\ EntityOf(new) # EntityOf(old)
SendIfKnown(old, new)   == EntityOf(old) # Absent /\ EntityOf(new) # EntityOf(old)
ShouldSendUpdateEvent(old, new) ==
  \/ ~UpdateEntityOnlyOnDiff
  \/ Is(old, "fail") \/ Is(new, "fail")
  \/ EntityOf(old) # EntityOf(new)

UpdateFunc(note) ==
  /\ Handling(note)
  /\ note.old # Absent /\ note.new # Absent
  /\ wq' = IF ShouldSendUpdateEvent(note.old, note.new)
             THEN Add(wq, {<<note.obj, "update">>})
             ELSE wq
  /\ notes' = Tail(notes)
  /\ UNCHANGED <<informerVars, deleting, workerVars, port, historyVars>>

\* The contents whose entity, selected or not, DeleteFunc and the cleanup know.
Identified(version) == Is(version, "match") \/ Is(version, "exclude")

Overtakes(o) == IF EntriesOf(o) # {} THEN overtaken \cup {o} ELSE overtaken

\* DeleteFunc maps the last content and asks Port which of its entities are this
\* exporter's.  An error is logged and that is all.
DeleteFunc(note) ==
  /\ Handling(note)
  /\ note.new = Absent
  /\ \/ /\ Identified(note.old) /\ port[note.obj] # Absent
        /\ deleting' = note.obj
        /\ UNCHANGED <<notes, undeleted, overtaken>>
     \/ /\ Identified(note.old) /\ port[note.obj] = Absent
        /\ overtaken' = Overtakes(note.obj)
        /\ notes' = Tail(notes)
        /\ UNCHANGED <<deleting, undeleted>>
     \/ /\ undeleted' = undeleted \cup {note.obj}
        /\ notes' = Tail(notes)
        /\ UNCHANGED <<deleting, overtaken>>
  /\ UNCHANGED <<informerVars, wq, workerVars, port, givenUp>>

\* The bulk deletion of what the search found.
DeleteFound ==
  /\ deleting # None
  /\ deleting' = None
  /\ notes' = Tail(notes)
  /\ \/ /\ port' = [port EXCEPT ![deleting] = Absent]
        /\ overtaken' = Overtakes(deleting)
        /\ UNCHANGED undeleted
     \/ /\ undeleted' = undeleted \cup {deleting}
        /\ UNCHANGED <<port, overtaken>>
  /\ UNCHANGED <<informerVars, wq, workerVars, givenUp>>

-----------------------------------------------------------------------------
(* The delaying queue, the clock, the stop of the controllers handler.      *)

RetryDue(i) ==
  /\ i \in wq.delayed
  /\ wq' = DelayOver(wq, i)
  /\ UNCHANGED <<informerVars, listenerVars, workerVars, port, historyVars>>

\* The age is read right before the worker waits and is reset by a flush, so it is
\* enough that it passes the timeout while the worker waits.
BatchTimeout ==
  /\ ~timedOut /\ pc = "get"
  /\ timedOut' = TRUE
  /\ UNCHANGED <<informerVars, listenerVars, wq, taken, pc, batch, port, historyVars>>

Shutdown ==
  /\ ~wq.down
  /\ wq' = ShutDown(wq)
  /\ UNCHANGED <<informerVars, listenerVars, workerVars, port, historyVars>>

\* The poller: one item in its hand, one in the channel.
PollerGet(i) ==
  /\ i \in wq.queued
  /\ Cardinality(taken) < 2
  /\ wq' = Get(wq, i)
  /\ taken' = taken \cup {i}
  /\ UNCHANGED <<informerVars, listenerVars, pc, batch, timedOut, port, historyVars>>

-----------------------------------------------------------------------------
(* ProcessBatch.  Each entity is written, fails for now or fails for good;   *)
(* when the batch holds two contents of an entity the later one is written   *)
(* last.  An item has one entity, so it has one outcome.                     *)

ItemsWith(outcome, o) == {batch[k].item : k \in {x \in DOMAIN batch : outcome[x] = o}}

\* Fault: one retry too many.
RequeuedOffByOne(outcome, allowRequeue) ==
  {i \in ItemsWith(outcome, "retry") : allowRequeue /\ wq.failures[i] <= MaxNumRequeues}
Requeued(outcome, allowRequeue) ==
  {i \in ItemsWith(outcome, "retry") : allowRequeue /\ wq.failures[i] < MaxNumRequeues}

Last(S) == CHOOSE k \in S : \A j \in S : j <= k

Written(o, outcome) == {k \in EntriesOf(o) : outcome[k] = "ok"}

LastGivenUp(o, outcome, requeued) ==
  /\ EntriesOf(o) # {}
  /\ LET k == Last(EntriesOf(o))
     IN outcome[k] # "ok" /\ batch[k].item \notin requeued

ProcessBatch(allowRequeue) ==
  \E outcome \in [DOMAIN batch -> {"ok", "retry", "permanent"}] :
    LET requeued == Requeued(outcome, allowRequeue)
    IN /\ wq' = Requeue(Complete(wq, BatchItems \ requeued), requeued)
       /\ port' = [o \in Object |->
                     IF Written(o, outcome) = {}
                       THEN port[o]
                       ELSE batch[Last(Written(o, outcome))].content]
       /\ givenUp' = {o \in Object :
                        IF EntriesOf(o) = {} THEN o \in givenUp
                                             ELSE LastGivenUp(o, outcome, requeued)}
       /\ batch' = <<>> /\ timedOut' = FALSE
       /\ UNCHANGED <<informerVars, listenerVars, taken, undeleted, overtaken>>

-----------------------------------------------------------------------------
(* The worker: processNextWorkItemWithBatching with a get timeout.           *)

\* Fault: only a full batch is written.
FlushIfFull == Len(batch) >= MaxBatchSize
ShouldFlush == Len(batch) >= MaxBatchSize \/ timedOut

Flush ==
  /\ pc = "check" /\ ShouldFlush
  /\ ProcessBatch(TRUE)
  /\ UNCHANGED pc

AwaitItem ==
  /\ pc = "check" /\ ~ShouldFlush
  /\ pc' = "get"
  /\ UNCHANGED <<informerVars, listenerVars, wq, taken, batch, timedOut, port, historyVars>>

GetTimeout ==
  /\ pc = "get"
  /\ pc' = "check"
  /\ UNCHANGED <<informerVars, listenerVars, wq, taken, batch, timedOut, port, historyVars>>

\* RunEventsSync's deferred ProcessRemaining; it requeues nothing.
ReceiveShutdown ==
  /\ pc = "get"
  /\ wq.down /\ wq.queued = {} /\ taken = {}
  /\ pc' = "ended"
  /\ ProcessBatch(FALSE)

Receive(i) ==
  /\ pc = "get" /\ i \in taken
  /\ taken' = taken \ {i}
  /\ pc' = "check"
  /\ UNCHANGED <<informerVars, listenerVars, timedOut, givenUp>>

\* The object left the cache, or no entity of it is selected and, in an update,
\* there was none to clean up.
NoEntities(i) ==
  LET o == i[1] version == cache[o] IN
  /\ Receive(i)
  /\ \/ version = Absent
     \/ i[2] = "create" /\ (Is(version, "exclude") \/ Is(version, "none"))
     \/ i[2] = "update" /\ Is(version, "none")
  /\ wq' = Complete(wq, {i})
  /\ undeleted' = IF Is(version, "none") THEN undeleted \cup {o} ELSE undeleted
  /\ UNCHANGED <<batch, port, overtaken>>

\* An update of an object the selector drops: its entity is deleted.
DeleteExcluded(i) ==
  LET o == i[1] IN
  /\ Receive(i)
  /\ i[2] = "update" /\ Is(cache[o], "exclude")
  /\ wq' = Complete(wq, {i})
  /\ port' = [port EXCEPT ![o] = Absent]
  /\ overtaken' = Overtakes(o)
  /\ UNCHANGED <<batch, undeleted>>

\* failItem: the mapping or the deletion of an excluded entity failed.
FailItem(i) ==
  LET o == i[1] IN
  /\ Receive(i)
  /\ Is(cache[o], "fail") \/ (i[2] = "update" /\ Is(cache[o], "exclude"))
  /\ IF wq.failures[i] >= MaxNumRequeues
       THEN wq' = Complete(wq, {i}) /\ undeleted' = undeleted \cup {o}
       ELSE wq' = Requeue(wq, {i}) /\ UNCHANGED undeleted
  /\ UNCHANGED <<batch, port, overtaken>>

DeferToBatch(i) ==
  /\ Receive(i)
  /\ Is(cache[i[1]], "match")
  /\ batch' = Append(batch, [item |-> i, content |-> cache[i[1]]])
  /\ UNCHANGED <<wq, port, undeleted, overtaken>>

-----------------------------------------------------------------------------

Informer == \E o \in Object, version \in Version : Change(o, version)

Listener ==
  \/ DeleteFound
  \/ \E note \in {notes[k] : k \in DOMAIN notes} :
       AddFunc(note) \/ UpdateFunc(note) \/ DeleteFunc(note)

Poller == \E i \in Item : PollerGet(i)

ProcessObject == \E i \in Item :
  NoEntities(i) \/ DeleteExcluded(i) \/ FailItem(i) \/ DeferToBatch(i)

Worker == Flush \/ AwaitItem \/ GetTimeout \/ ReceiveShutdown \/ ProcessObject

Retry == \E i \in Item : RetryDue(i)

Next == Informer \/ Listener \/ Poller \/ Worker \/ Retry \/ BatchTimeout \/ Shutdown

Spec == Init /\ [][Next]_vars

\* The goroutines run, time passes while the worker waits again and again, and the
\* select of poller.Get does not for ever prefer its timeout to an item.
Fairness ==
  /\ WF_vars(Listener) /\ WF_vars(Poller) /\ WF_vars(Worker)
  /\ SF_vars(ProcessObject)
  /\ SF_vars(BatchTimeout)
  /\ \A i \in Item : WF_vars(RetryDue(i))

FairSpec == Spec /\ Fairness
-----------------------------------------------------------------------------
(* Properties.                                                              *)

PendingItems == wq.queued \cup wq.dirty \cup wq.delayed \cup taken

\* Something that will look at the object again: a notification or an item.
Pending(o) ==
  \/ \E k \in DOMAIN notes : notes[k].obj = o
  \/ \E i \in PendingItems : i[1] = o

\* No update is lost: while the exporter runs, an object whose entity in Port is
\* not what the cache says has a notification, an item or a batch entry with the
\* cached content as its last, unless its write was given up.  An item that is
\* added while it is processed, a retry that finds newer content, a deletion that
\* comes after the object was created again: none makes Port stay behind.
NoUpdateLost ==
  ~wq.down => \A o \in Object :
    Is(cache[o], "match") =>
      \/ Pending(o)
      \/ o \in givenUp
      \/ IF EntriesOf(o) = {} THEN port[o] = cache[o]
                              ELSE batch[Last(EntriesOf(o))].content = cache[o]

Quiet == notes = <<>> /\ PendingItems = {} /\ batch = <<>>

\* When all is done, an object that was deleted or is excluded by the selector has
\* no entity left, unless Port refused, the content could not be mapped, or the
\* deletion was overtaken by a batch that held the entity.
LeavesUnlessOvertaken ==
  ~wq.down /\ Quiet => \A o \in Object :
    cache[o] = Absent \/ Is(cache[o], "exclude") =>
      port[o] = Absent \/ o \in undeleted \cup overtaken

\* "Delete must still remove the entity", the tests of the deletion's handler say: the
\* entity of a deleted object leaves Port.
DeletedObjectsLeave ==
  ~wq.down /\ Quiet => \A o \in Object :
    cache[o] = Absent => port[o] = Absent \/ o \in undeleted

\* The live events of a running controller are all dealt with in the end: every
\* retry is limited, and a batch does not wait for more events.
BecomesQuiet == <>[](Quiet \/ wq.down)
==============================================================================
