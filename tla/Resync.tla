-------------------------------- MODULE Resync --------------------------------
(***************************************************************************)
(* Resyncs (pkg/handlers/controllers.go, main.go) and the signal handler of *)
(* each of them (pkg/signal/signal.go).                                     *)
(*                                                                          *)
(* Every call of RunResync stops the handler in the global controllerHandler, *)
(* builds a new one, lets its controllers sync and deletes what they did not *)
(* find.  The event listener calls it, and so does the ticker of main if a  *)
(* resync interval is set; no lock keeps the calls apart.                   *)
(*                                                                          *)
(* The sync of one controller is one step here: InitialSync has its details. *)
(* Every object has one entity, which has the object's name.                *)
(***************************************************************************)
EXTENDS Naturals

CONSTANTS
  Caller,      \* the goroutines that call RunResync
  Listener,    \* the one of the event listener, whose end ends main
  Kind,        \* the kinds of the integration's mapping, a controller each
  Object,      \* the objects the cluster may have, and their entities
  KindOf,      \* the kind of each object
  MaxCalls,    \* bound: calls of RunResync
  MaxInputs    \* bound: changes of the cluster and SIGTERMs

ASSUME ListenerCalls == Listener \in Caller
ASSUME KindOfObjects == KindOf \in [Object -> Kind]
ASSUME CallLimit     == MaxCalls \in Nat /\ MaxInputs \in Nat

Nil == 0
Handler == 1..MaxCalls

VARIABLES
  process,            \* "running", "panicked" or "exited"
  controllerHandler,  \* the global: the handler of the last finished call, or Nil
  pc,                 \* where each caller stands in RunResync
  old,                \* the handler each caller has read from the global
  mine,               \* the handler each caller has built
  handlers,           \* the ControllersHandlers
  signals,            \* their signal handlers
  built,              \* number of handlers built so far
  cluster,            \* the objects that exist
  port,               \* the entities in Port
  swept,              \* history: entities deleted as stale while their objects existed
  failed,             \* history: entities a call failed for, or the deletion skipped
  late,               \* history: entities written or deleted by a stopped handler
  calls, changes, sent  \* number of calls, changes and SIGTERMs so far

callVars    == <<pc, old, mine, calls>>
clusterVars == <<cluster, changes>>
historyVars == <<swept, failed, late>>
vars == <<process, controllerHandler, callVars, handlers, signals, built, clusterVars,
          port, historyVars, sent>>

HandlerType ==
  [stopped: BOOLEAN,      \* stopCh is closed
   isStopped: BOOLEAN,    \* Stop was called
   parallel: BOOLEAN,     \* CreateMissingRelatedEntities: controllers sync in parallel
   phase: [Kind -> {"absent", "waiting", "synced", "merged"}],
   set: [Kind -> SUBSET Object],  \* the entities a sync has returned
   flag: [Kind -> BOOLEAN],       \* whether it allows the deletion
   sets: SUBSET Object,   \* currentEntitiesSets
   should: BOOLEAN,       \* shouldDeleteStaleEntities
   stale: SUBSET Object,  \* found by the search and not deleted yet
   cancelled: BOOLEAN,    \* the context of the deletion
   events: SUBSET Object, \* objects with a live event that is not handled
   frozen: SUBSET Object, \* the informers' caches when they were stopped
   later: SUBSET Object,  \* history: changed after the sync of their kind
   interrupted: BOOLEAN]  \* history: stopped before all controllers had synced

SignalType ==
  [pending: 0..2,                        \* signals in shutdownCh
   waits: {"first", "second", "done"},   \* what the first goroutine waits for
   graceful: BOOLEAN]                    \* gracefulStop; shutdownCh is closed

TypeOK ==
  /\ process \in {"running", "panicked", "exited"}
  /\ controllerHandler \in Handler \cup {Nil}
  /\ pc \in [Caller -> {"idle", "stop", "fetch", "sync", "delete", "publish"}]
  /\ old \in [Caller -> Handler \cup {Nil}]
  /\ mine \in [Caller -> Handler \cup {Nil}]
  /\ handlers \in [Handler -> HandlerType]
  /\ signals \in [Handler -> SignalType]
  /\ built \in 0..MaxCalls
  /\ cluster \in SUBSET Object
  /\ port \in SUBSET Object
  /\ swept \in SUBSET Object
  /\ failed \in SUBSET Object /\ late \in SUBSET Object
  /\ calls \in 0..MaxCalls /\ changes \in 0..MaxInputs /\ sent \in 0..MaxInputs

NewHandler(kinds, parallel) ==
  [stopped |-> FALSE, isStopped |-> FALSE, parallel |-> parallel,
   phase |-> [k \in Kind |-> IF k \in kinds THEN "waiting" ELSE "absent"],
   set |-> [k \in Kind |-> {}], flag |-> [k \in Kind |-> TRUE],
   sets |-> {}, should |-> TRUE, stale |-> {}, cancelled |-> FALSE,
   events |-> {}, frozen |-> {}, later |-> {}, interrupted |-> FALSE]

NewSignals == [pending |-> 0, waits |-> "first", graceful |-> FALSE]

NoCalls    == [c \in Caller |-> Nil]
AllIdle    == [c \in Caller |-> "idle"]
NoHandlers == [h \in Handler |-> NewHandler({}, FALSE)]
NoSignals  == [h \in Handler |-> NewSignals]

\* Port may have anything from earlier processes.
Init ==
  /\ process = "running"
  /\ controllerHandler = Nil /\ built = 0
  /\ pc = AllIdle /\ old = NoCalls /\ mine = NoCalls
  /\ handlers = NoHandlers /\ signals = NoSignals
  /\ cluster \in SUBSET Object /\ port \in SUBSET Object
  /\ swept = {} /\ failed = {} /\ late = {}
  /\ calls = 0 /\ changes = 0 /\ sent = 0

\* The process ends, and its memory is gone.
Ends(how) ==
  /\ process' = how
  /\ controllerHandler' = Nil /\ built' = 0
  /\ pc' = AllIdle /\ old' = NoCalls /\ mine' = NoCalls
  /\ handlers' = NoHandlers /\ signals' = NoSignals
  /\ UNCHANGED <<calls, clusterVars, port, historyVars>>

Running == process = "running"
Built == 1..built
Merged(h) == \A k \in Kind : handlers[h].phase[k] \in {"absent", "merged"}

\* The objects that a controller of the handler watches.
Watched(h) == {o \in cluster : handlers[h].phase[KindOf[o]] # "absent"}

\* stopCh is closed: the informers stop.
Stopped(h) ==
  [handlers[h] EXCEPT !.stopped = TRUE, !.frozen = Watched(h),
                      !.interrupted = ~Merged(h)]

-----------------------------------------------------------------------------
(* RunResync.                                                               *)

\* The controllerHandler of the moment is stopped, unless it was already.
Call(c) ==
  LET h == controllerHandler IN
  /\ Running /\ pc[c] = "idle"
  /\ calls < MaxCalls /\ calls' = calls + 1
  /\ old' = [old EXCEPT ![c] = h]
  /\ mine' = [mine EXCEPT ![c] = Nil]
  /\ pc' = [pc EXCEPT ![c] = IF h = Nil \/ handlers[h].isStopped THEN "fetch" ELSE "stop"]
  /\ UNCHANGED <<process, controllerHandler, handlers, signals, built, clusterVars,
                 port, historyVars, sent>>

\* Fault: Stop only marks the handler.
MarkStopped(c) ==
  /\ Running /\ pc[c] = "stop"
  /\ handlers' = [handlers EXCEPT ![old[c]].isStopped = TRUE]
  /\ pc' = [pc EXCEPT ![c] = "fetch"]
  /\ UNCHANGED <<process, controllerHandler, old, mine, calls, signals, built,
                 clusterVars, port, historyVars, sent>>

\* Closing a closed channel panics.
Stop(c) ==
  LET h == old[c] IN
  /\ Running /\ pc[c] = "stop"
  /\ IF handlers[h].stopped
       THEN Ends("panicked")
       ELSE /\ handlers' = [handlers EXCEPT ![h] = [Stopped(h) EXCEPT !.isStopped = TRUE]]
            /\ pc' = [pc EXCEPT ![c] = "fetch"]
            /\ UNCHANGED <<process, controllerHandler, old, mine, calls, signals, built,
                           clusterVars, port, historyVars>>
  /\ UNCHANGED sent

\* The integration could not be read, or has no configuration.
FetchFails(c) ==
  /\ Running /\ pc[c] = "fetch"
  /\ pc' = [pc EXCEPT ![c] = "publish"]
  /\ UNCHANGED <<process, controllerHandler, old, mine, calls, handlers, signals, built,
                 clusterVars, port, historyVars, sent>>

\* A new handler with its stop channel; its informers start.  A kind has no
\* controller if the mapping has no resource of it or the API server does not know it.
Build(c) ==
  LET h == built + 1 IN
  /\ Running /\ pc[c] = "fetch" /\ h \in Handler
  /\ pc' = [pc EXCEPT ![c] = "sync"]
  /\ built' = h
  /\ mine' = [mine EXCEPT ![c] = h]
  /\ \E kinds \in SUBSET Kind, parallel \in BOOLEAN :
       handlers' = [handlers EXCEPT ![h] = NewHandler(kinds, parallel)]
  /\ UNCHANGED <<process, controllerHandler, old, calls, signals, clusterVars, port,
                 historyVars, sent>>

\* The locals of Handle and of the call are gone.
Publish(c) ==
  LET h == mine[c] IN
  /\ Running /\ pc[c] = "publish"
  /\ pc' = [pc EXCEPT ![c] = "idle"]
  /\ controllerHandler' = h
  /\ old' = [old EXCEPT ![c] = Nil] /\ mine' = [mine EXCEPT ![c] = Nil]
  /\ handlers' = [x \in Handler |->
       IF x # h THEN handlers[x]
       ELSE [NewHandler({}, FALSE) EXCEPT
               !.stopped = handlers[h].stopped, !.isStopped = handlers[h].isStopped,
               !.phase = handlers[h].phase, !.events = handlers[h].events,
               !.frozen = handlers[h].frozen]]
  /\ UNCHANGED <<process, calls, signals, built, clusterVars, port, historyVars, sent>>

-----------------------------------------------------------------------------
(* syncAllControllers.  Syncs in parallel merge their results without a lock.*)

\* The objects in the informers' caches.
CacheOf(h) == IF handlers[h].stopped THEN handlers[h].frozen ELSE cluster

InSync(c) == Running /\ pc[c] = "sync"

\* What a handler has made of the entities E: it agrees with the cluster now,
\* unless the handler knows only how the cluster was when it was stopped.
Account(h, E) ==
  /\ swept' = swept \ E
  /\ late' = IF handlers[h].stopped THEN late \cup E ELSE late \ E

\* syncController, at the moment of its listing: what comes later is a live event.  A
\* sync that is not stopped allows the deletion only if it wrote all it found; a
\* stopped one returns what it has, with either answer.
SyncKind(c, k) ==
  LET h == mine[c]
      found == {o \in CacheOf(h) : KindOf[o] = k}
  IN
  /\ InSync(c)
  /\ handlers[h].phase[k] = "waiting"
  /\ handlers[h].parallel \/ \A x \in Kind :
       handlers[h].phase[x] \in {"absent", "waiting", "merged"}
  /\ \E written \in SUBSET found, allows \in BOOLEAN :
       /\ allows => written = found \/ handlers[h].stopped
       /\ port' = port \cup written
       /\ Account(h, written)
       /\ failed' = (failed \cup found) \ written
       /\ handlers' = [handlers EXCEPT ![h] = [handlers[h] EXCEPT
            !.phase[k] = "synced", !.set[k] = written, !.flag[k] = allows]]
  /\ UNCHANGED <<process, controllerHandler, callVars, signals, built, clusterVars, sent>>

\* Fault: the answer of the last sync counts.
MergeLastAnswer(c, k) ==
  LET h == mine[c] IN
  /\ InSync(c) /\ handlers[h].phase[k] = "synced"
  /\ handlers' = [handlers EXCEPT ![h] = [handlers[h] EXCEPT
       !.phase[k] = "merged", !.set[k] = {}, !.flag[k] = TRUE,
       !.sets = handlers[h].set[k] \cup @, !.should = handlers[h].flag[k]]]
  /\ UNCHANGED <<process, controllerHandler, callVars, signals, built, clusterVars, port,
                 historyVars, sent>>

\* currentEntitiesSets = append(...) and shouldDeleteStaleEntities && ...: syncs in
\* parallel race for both, and either assignment may start from a value that another
\* sync has replaced meanwhile.
Merge(c, k) ==
  LET h == mine[c]
      merged == {x \in Kind : handlers[h].phase[x] = "merged"}
  IN
  /\ InSync(c) /\ handlers[h].phase[k] = "synced"
  /\ \E unseen \in SUBSET merged, oldFlag \in BOOLEAN :
       /\ handlers[h].parallel \/ (unseen = {} /\ ~oldFlag)
       /\ oldFlag => merged # {}
       /\ handlers' = [handlers EXCEPT ![h] = [handlers[h] EXCEPT
            !.phase[k] = "merged", !.set[k] = {}, !.flag[k] = TRUE,
            !.sets   = handlers[h].set[k] \cup {o \in @ : KindOf[o] \notin unseen},
            !.should = handlers[h].flag[k] /\ (@ \/ oldFlag)]]
  /\ UNCHANGED <<process, controllerHandler, callVars, signals, built, clusterVars, port,
                 historyVars, sent>>

-----------------------------------------------------------------------------
(* Handle, after the controllers have synced.                               *)

\* No deletion: a sync failed, or the search did.
Skip(c) ==
  /\ InSync(c) /\ Merged(mine[c])
  /\ pc' = [pc EXCEPT ![c] = "publish"]
  /\ failed' = failed \cup (port \ Watched(mine[c]))
  /\ UNCHANGED <<process, controllerHandler, old, mine, calls, handlers, signals, built,
                 clusterVars, port, swept, late, sent>>

\* The entities of this exporter that no sync has found.
Search(c) ==
  LET h == mine[c] IN
  /\ InSync(c) /\ Merged(h)
  /\ handlers[h].should /\ ~handlers[h].cancelled
  /\ pc' = [pc EXCEPT ![c] = "delete"]
  /\ handlers' = [handlers EXCEPT ![h].stale = port \ handlers[h].sets]
  /\ UNCHANGED <<process, controllerHandler, old, mine, calls, signals, built,
                 clusterVars, port, historyVars, sent>>

\* The goroutine that waits for the stop cancels the context.
Cancel(c) ==
  LET h == mine[c] IN
  /\ Running
  /\ \/ pc[c] = "delete"
     \/ pc[c] = "sync" /\ Merged(h)
  /\ handlers[h].stopped /\ ~handlers[h].cancelled
  /\ handlers' = [handlers EXCEPT ![h].cancelled = TRUE]
  /\ UNCHANGED <<process, controllerHandler, callVars, signals, built, clusterVars, port,
                 historyVars, sent>>

\* Port deletes an entity, or refuses it, or its request fails.
DeleteStale(c, o) ==
  LET h == mine[c] IN
  /\ Running /\ pc[c] = "delete"
  /\ o \in handlers[h].stale /\ ~handlers[h].cancelled
  /\ handlers' = [handlers EXCEPT ![h].stale = @ \ {o}]
  /\ \/ /\ port' = port \ {o}
        /\ IF o \in Watched(h)
             THEN swept' = swept \cup (port \cap {o}) /\ UNCHANGED <<failed, late>>
             ELSE failed' = failed \ {o} /\ late' = late \ {o} /\ UNCHANGED swept
     \/ failed' = failed \cup ({o} \ Watched(h)) /\ UNCHANGED <<port, swept, late>>
  /\ UNCHANGED <<process, controllerHandler, callVars, signals, built, clusterVars, sent>>

Deleted(c) ==
  LET h == mine[c] IN
  /\ Running /\ pc[c] = "delete"
  /\ handlers[h].stale = {} \/ handlers[h].cancelled
  /\ pc' = [pc EXCEPT ![c] = "publish"]
  /\ handlers' = [handlers EXCEPT ![h].stale = {}]
  /\ failed' = failed \cup (handlers[h].stale \ Watched(h))
  /\ UNCHANGED <<process, controllerHandler, old, mine, calls, signals, built,
                 clusterVars, port, swept, late, sent>>

-----------------------------------------------------------------------------
(* The cluster, and the live events of the handlers that watch it.          *)

Change(o) ==
  /\ Running
  /\ changes + sent < MaxInputs /\ changes' = changes + 1
  /\ cluster' = IF o \in cluster THEN cluster \ {o} ELSE cluster \cup {o}
  /\ handlers' = [h \in Handler |->
       LET phase == handlers[h].phase[KindOf[o]] IN
       IF h \notin Built \/ phase = "absent"
         THEN handlers[h]
         ELSE [handlers[h] EXCEPT
                 !.events = IF handlers[h].stopped THEN @ ELSE @ \cup {o},
                 !.later = IF phase = "waiting" THEN @ ELSE @ \cup {o}]]
  /\ UNCHANGED <<process, controllerHandler, callVars, signals, built, port,
                 historyVars, sent>>

\* Fault: the deletion of an object is not handled.
IgnoreDeletion(h, o) ==
  /\ Running /\ h \in Built
  /\ o \in handlers[h].events
  /\ handlers' = [handlers EXCEPT ![h].events = @ \ {o}]
  /\ port' = port \cup (CacheOf(h) \cap {o})
  /\ Account(h, {o}) /\ failed' = failed \ {o}
  /\ UNCHANGED <<process, controllerHandler, callVars, signals, built, clusterVars, sent>>

\* RunEventsSync starts after the sync of the kind; DeleteFunc does not wait.  A
\* stopped handler still handles what is in its queue.
HandleEvent(h, o) ==
  /\ Running /\ h \in Built
  /\ o \in handlers[h].events
  /\ handlers' = [handlers EXCEPT ![h].events = @ \ {o}]
  /\ IF o \in CacheOf(h)
       THEN /\ handlers[h].phase[KindOf[o]] # "waiting"
            /\ port' = port \cup {o}
       ELSE port' = port \ {o}
  /\ Account(h, {o}) /\ failed' = failed \ {o}
  /\ UNCHANGED <<process, controllerHandler, callVars, signals, built, clusterVars, sent>>

\* An event is given up, or lost by the stop.
LoseEvent(h, o) ==
  /\ Running /\ h \in Built
  /\ o \in handlers[h].events
  /\ handlers' = [handlers EXCEPT ![h].events = @ \ {o}]
  /\ failed' = IF handlers[h].stopped THEN failed ELSE failed \cup {o}
  /\ UNCHANGED <<process, controllerHandler, callVars, signals, built, clusterVars,
                 port, swept, late, sent>>

-----------------------------------------------------------------------------
(* SetupSignalHandler.                                                      *)

\* Fault: shutdownCh has room for any number of signals.
SignalUnbounded ==
  /\ Running
  /\ changes + sent < MaxInputs /\ sent' = sent + 1
  /\ IF \E h \in Built : signals[h].graceful
       THEN Ends("panicked")
       ELSE /\ signals' = [h \in Handler |->
                 IF h \in Built THEN [signals[h] EXCEPT !.pending = @ + 1] ELSE signals[h]]
            /\ UNCHANGED <<process, controllerHandler, callVars, handlers, built,
                           clusterVars, port, historyVars>>

\* The runtime sends the signal to every registered channel; sending to a closed
\* one panics.
Signal ==
  /\ Running
  /\ changes + sent < MaxInputs /\ sent' = sent + 1
  /\ IF \E h \in Built : signals[h].graceful
       THEN Ends("panicked")
       ELSE /\ signals' = [h \in Handler |->
                 IF h \in Built /\ signals[h].pending < 2
                   THEN [signals[h] EXCEPT !.pending = @ + 1]
                   ELSE signals[h]]
            /\ UNCHANGED <<process, controllerHandler, callVars, handlers, built,
                           clusterVars, port, historyVars>>

\* The first signal closes stopCh.
FirstSignal(h) ==
  /\ Running /\ h \in Built
  /\ signals[h].waits = "first" /\ signals[h].pending > 0 /\ ~signals[h].graceful
  /\ IF handlers[h].stopped
       THEN Ends("panicked")
       ELSE /\ handlers' = [handlers EXCEPT ![h] = Stopped(h)]
            /\ signals' = [signals EXCEPT ![h].waits = "second", ![h].pending = @ - 1]
            /\ UNCHANGED <<process, controllerHandler, callVars, built, clusterVars, port,
                           historyVars>>
  /\ UNCHANGED sent

\* The second one exits, unless the stop was seen.
SecondSignal(h) ==
  /\ Running /\ h \in Built
  /\ signals[h].waits = "second" /\ signals[h].pending > 0 /\ ~signals[h].graceful
  /\ Ends("exited") /\ UNCHANGED sent

\* The other goroutine: stopCh is closed, so it closes shutdownCh and the first one
\* runs to its end.
SeeStop(h) ==
  /\ Running /\ h \in Built
  /\ handlers[h].stopped /\ ~signals[h].graceful
  /\ signals' = [signals EXCEPT ![h] = [pending |-> 0, waits |-> "done", graceful |-> TRUE]]
  /\ UNCHANGED <<process, controllerHandler, callVars, handlers, built, clusterVars, port,
                 historyVars, sent>>

\* The event listener has its own channel for the signal, or the signal still has its
\* default action; when the listener returns, main does too.
Exit ==
  /\ Running /\ sent > 0 /\ pc[Listener] = "idle"
  /\ Ends("exited") /\ UNCHANGED sent

-----------------------------------------------------------------------------

Resyncing == \E c \in Caller :
  \/ Call(c) \/ Stop(c) \/ FetchFails(c) \/ Build(c) \/ Publish(c)
  \/ Skip(c) \/ Search(c) \/ Cancel(c) \/ Deleted(c)
  \/ \E o \in Object : DeleteStale(c, o)
  \/ \E k \in Kind :
       \/ SyncKind(c, k) \/ Merge(c, k)

Watching == \E o \in Object :
  Change(o) \/ \E h \in Built : HandleEvent(h, o) \/ LoseEvent(h, o)

Signalling ==
  \/ Signal \/ Exit
  \/ \E h \in Built : FirstSignal(h) \/ SecondSignal(h) \/ SeeStop(h)

Next == Resyncing \/ Watching \/ Signalling

Spec == Init /\ [][Next]_vars

-----------------------------------------------------------------------------
(* Properties.                                                              *)

\* RunResync stops the handler it replaces before it builds another, so that the
\* informers and workers of at most one handler run, the published one or a caller's.
OneHandler == \A g, h \in Built :
  g = h \/ handlers[g].stopped \/ handlers[h].stopped

\* A handler is stopped once it is replaced: those that run are published, or a call
\* that has not ended works with them.
ReplacedAreStopped == \A h \in Built :
  \/ handlers[h].stopped
  \/ h = controllerHandler
  \/ \E c \in Caller : mine[c] = h /\ pc[c] \in {"sync", "delete", "publish"}

\* An entity the deletion of Handle takes for stale has no object, or an object that
\* changed after its kind's sync, if the controllers synced one after the other and
\* none was stopped.
StaleUnlessLater == \A h \in Built :
  \/ handlers[h].parallel
  \/ handlers[h].interrupted
  \/ handlers[h].stale \cap Watched(h) \subseteq handlers[h].later

\* When no resync and no event is under way, Port shows what the published handler
\* watches, except for entities that were deleted although their object existed, that
\* a call failed for, or that a handler touched after its stop.
MirrorsWhenQuiet ==
  LET h == controllerHandler IN
  /\ Running /\ h # Nil /\ \A c \in Caller : pc[c] = "idle"
  /\ ~handlers[h].stopped
  /\ \A x \in Built : handlers[x].events = {}
  => \A o \in Object \ (swept \cup failed \cup late) : o \in port <=> o \in Watched(h)

\* "Received SIGTERM, exiting gracefully...", SetupSignalHandler says.
ExitsGracefully == process # "panicked"
==============================================================================
