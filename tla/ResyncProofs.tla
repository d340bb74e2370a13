----------------------------- MODULE ResyncProofs -----------------------------
(***************************************************************************)
(* What holds of the resyncs for any kinds, objects and bounds.             *)
(***************************************************************************)
EXTENDS Resync, TLAPS

CallerPlaces == {"idle", "stop", "fetch", "sync", "delete", "publish"}

-----------------------------------------------------------------------------
(* Records of handlers and of their signals.                                *)

\* A handler without controllers' results is a handler.
LEMMA NewHandlerType ==
  ASSUME NEW kinds, NEW parallel \in BOOLEAN
  PROVE  NewHandler(kinds, parallel) \in HandlerType
  BY DEF NewHandler, HandlerType

\* So is a signal handler that has received nothing.
LEMMA NewSignalsType == NewSignals \in SignalType
  BY DEF NewSignals, SignalType

\* The fields of a handler.
LEMMA HandlerFields ==
  ASSUME NEW r \in HandlerType
  PROVE  /\ r.stopped \in BOOLEAN /\ r.isStopped \in BOOLEAN
         /\ r.phase \in [Kind -> {"absent", "waiting", "synced", "merged"}]
         /\ r.set \in [Kind -> SUBSET Object] /\ r.flag \in [Kind -> BOOLEAN]
         /\ r.sets \in SUBSET Object /\ r.should \in BOOLEAN
         /\ r.stale \in SUBSET Object /\ r.events \in SUBSET Object
         /\ r.frozen \in SUBSET Object /\ r.later \in SUBSET Object
  BY DEF HandlerType

\* A handler whose channel is closed is a handler.
LEMMA StoppedType ==
  ASSUME TypeOK, NEW h \in Handler
  PROVE  /\ Stopped(h) \in HandlerType
         /\ [Stopped(h) EXCEPT !.isStopped = TRUE] \in HandlerType
         /\ Stopped(h).stopped /\ Stopped(h).isStopped = handlers[h].isStopped
         /\ [Stopped(h) EXCEPT !.isStopped = TRUE].stopped
         /\ [Stopped(h) EXCEPT !.isStopped = TRUE].isStopped
  <1>. DEFINE r == handlers[h] F == Watched(h) I == ~Merged(h)
  <1>1. r \in HandlerType
    BY DEF TypeOK
  <1>2. F \in SUBSET Object
    BY DEF Watched, TypeOK
  <1>3. I \in BOOLEAN
    OBVIOUS
  <1>4. Stopped(h) = [r EXCEPT !.stopped = TRUE, !.frozen = F, !.interrupted = I]
    BY DEF Stopped
  <1>. HIDE DEF r, F, I
  <1>5. /\ Stopped(h) \in HandlerType
        /\ [Stopped(h) EXCEPT !.isStopped = TRUE] \in HandlerType
    BY <1>1, <1>2, <1>3, <1>4 DEF HandlerType
  <1>6. /\ Stopped(h).stopped /\ Stopped(h).isStopped = r.isStopped
        /\ [Stopped(h) EXCEPT !.isStopped = TRUE].stopped
        /\ [Stopped(h) EXCEPT !.isStopped = TRUE].isStopped
    BY <1>1, <1>4 DEF HandlerType
  <1>. QED  BY <1>5, <1>6 DEF r

\* Replacing one handler by another.
LEMMA Replaced ==
  ASSUME NEW f \in [Handler -> HandlerType], NEW h, NEW r,
         h \in Handler => r \in HandlerType
  PROVE  [f EXCEPT ![h] = r] \in [Handler -> HandlerType]
  OBVIOUS

-----------------------------------------------------------------------------
(* Every step keeps the handlers well typed, and no step takes back a stop.  *)

\* What Stop and the signals have done stays done.
Monotone == \A x \in Handler :
  /\ handlers[x].stopped => handlers'[x].stopped
  /\ handlers'[x].isStopped => handlers[x].isStopped \/ handlers'[x].stopped

HandlersKept == handlers' \in [Handler -> HandlerType] /\ Monotone

\* One field of one handler changes.
LEMMA FieldsKept ==
  ASSUME TypeOK, NEW h, NEW r,
         handlers' = [handlers EXCEPT ![h] = r],
         h \in Handler => /\ r \in HandlerType
                          /\ r.stopped = handlers[h].stopped
                          /\ r.isStopped = handlers[h].isStopped
  PROVE  HandlersKept
  <1>1. handlers' \in [Handler -> HandlerType]
    BY Replaced DEF TypeOK
  <1>2. ASSUME NEW x \in Handler
        PROVE  /\ handlers'[x].stopped = handlers[x].stopped
               /\ handlers'[x].isStopped = handlers[x].isStopped
    BY <1>2 DEF TypeOK
  <1>. QED  BY <1>1, <1>2 DEF HandlersKept, Monotone

\* The sync of a kind changes only its own phase, set and flag.
LEMMA SyncKindKeeps ==
  ASSUME TypeOK, NEW c \in Caller, NEW k \in Kind, SyncKind(c, k)
  PROVE  HandlersKept
  <1>. DEFINE h == mine[c]
  <1>1. PICK written \in SUBSET {o \in CacheOf(h) : KindOf[o] = k}, allows \in BOOLEAN :
          handlers' = [handlers EXCEPT ![h] = [handlers[h] EXCEPT
            !.phase[k] = "synced", !.set[k] = written, !.flag[k] = allows]]
    BY DEF SyncKind
  <1>. DEFINE r == [handlers[h] EXCEPT !.phase[k] = "synced", !.set[k] = written,
                                      !.flag[k] = allows]
  <1>2. handlers' = [handlers EXCEPT ![h] = r]
    BY <1>1
  <1>3. ASSUME h \in Handler
        PROVE  /\ r \in HandlerType
               /\ r.stopped = handlers[h].stopped /\ r.isStopped = handlers[h].isStopped
    <2>1. handlers[h] \in HandlerType
      BY <1>3 DEF TypeOK
    <2>2. written \in SUBSET Object
      BY <2>1, HandlerFields DEF CacheOf, TypeOK
    <2>. QED  BY <2>1, <2>2 DEF HandlerType
  <1>. HIDE DEF r
  <1>. QED  BY <1>2, <1>3, FieldsKept

\* A merge stops nobody.
LEMMA MergeKeeps ==
  ASSUME TypeOK, NEW c \in Caller, NEW k \in Kind, Merge(c, k)
  PROVE  HandlersKept
  <1>. DEFINE h == mine[c]
  <1>1. PICK unseen \in SUBSET {x \in Kind : handlers[h].phase[x] = "merged"},
             oldFlag \in BOOLEAN :
          handlers' = [handlers EXCEPT ![h] = [handlers[h] EXCEPT
            !.phase[k] = "merged", !.set[k] = {}, !.flag[k] = TRUE,
            !.sets   = handlers[h].set[k] \cup {o \in @ : KindOf[o] \notin unseen},
            !.should = handlers[h].flag[k] /\ (@ \/ oldFlag)]]
    BY DEF Merge
  <1>. DEFINE found == handlers[h].set[k] \cup
                         {o \in handlers[h].sets : KindOf[o] \notin unseen}
              allow == handlers[h].flag[k] /\ (handlers[h].should \/ oldFlag)
              r == [handlers[h] EXCEPT !.phase[k] = "merged", !.set[k] = {},
                      !.flag[k] = TRUE, !.sets = found, !.should = allow]
  <1>2. handlers' = [handlers EXCEPT ![h] = r]
    BY <1>1
  <1>3. ASSUME h \in Handler
        PROVE  /\ r \in HandlerType
               /\ r.stopped = handlers[h].stopped /\ r.isStopped = handlers[h].isStopped
    <2>1. handlers[h] \in HandlerType
      BY <1>3 DEF TypeOK
    <2>2. found \in SUBSET Object
      BY <2>1, HandlerFields
    <2>3. allow \in BOOLEAN
      OBVIOUS
    <2>. HIDE DEF found, allow
    <2>. QED  BY <2>1, <2>2, <2>3 DEF HandlerType
  <1>. HIDE DEF r
  <1>. QED  BY <1>2, <1>3, FieldsKept

\* Neither do the search, the deletion and its cancellation.
LEMMA DeletionKeeps ==
  ASSUME TypeOK, NEW c \in Caller,
         \/ Search(c) \/ Cancel(c) \/ Deleted(c)
         \/ \E o \in Object : DeleteStale(c, o)
  PROVE  HandlersKept
  <1>. DEFINE h == mine[c]
  <1>1. ASSUME NEW E, h \in Handler => E \in SUBSET Object,
               handlers' = [handlers EXCEPT ![h].stale = E]
        PROVE  HandlersKept
    <2>. DEFINE r == [handlers[h] EXCEPT !.stale = E]
    <2>1. handlers' = [handlers EXCEPT ![h] = r]
      BY <1>1
    <2>2. ASSUME h \in Handler
          PROVE  /\ r \in HandlerType
                 /\ r.stopped = handlers[h].stopped /\ r.isStopped = handlers[h].isStopped
      <3>1. handlers[h] \in HandlerType
        BY <2>2 DEF TypeOK
      <3>. QED  BY <3>1, <1>1, <2>2 DEF HandlerType
    <2>. HIDE DEF r
    <2>. QED  BY <2>1, <2>2, FieldsKept
  <1>2. CASE Search(c)
    BY <1>1, <1>2 DEF Search, TypeOK
  <1>3. CASE Cancel(c)
    <2>. DEFINE r == [handlers[h] EXCEPT !.cancelled = TRUE]
    <2>1. handlers' = [handlers EXCEPT ![h] = r]
      BY <1>3 DEF Cancel
    <2>2. ASSUME h \in Handler
          PROVE  /\ r \in HandlerType
                 /\ r.stopped = handlers[h].stopped /\ r.isStopped = handlers[h].isStopped
      <3>1. handlers[h] \in HandlerType
        BY <2>2 DEF TypeOK
      <3>. QED  BY <3>1 DEF HandlerType
    <2>. HIDE DEF r
    <2>. QED  BY <2>1, <2>2, FieldsKept
  <1>4. CASE Deleted(c)
    <2>1. handlers' = [handlers EXCEPT ![h].stale = {}]
      BY <1>4 DEF Deleted
    <2>2. {} \in SUBSET Object
      OBVIOUS
    <2>. QED  BY <1>1, <2>1, <2>2
  <1>5. ASSUME NEW o \in Object, DeleteStale(c, o)
        PROVE  HandlersKept
    <2>. DEFINE E == handlers[h].stale \ {o}
    <2>1. ASSUME h \in Handler PROVE E \in SUBSET Object
      <3>1. handlers[h] \in HandlerType
        BY <2>1 DEF TypeOK
      <3>. QED  BY <3>1, HandlerFields
    <2>2. handlers' = [handlers EXCEPT ![h].stale = E]
      BY <1>5 DEF DeleteStale
    <2>. HIDE DEF E
    <2>. QED  BY <1>1, <2>1, <2>2
  <1>. QED  BY <1>2, <1>3, <1>4, <1>5

\* A live event leaves its handler as it was, but for the event.
LEMMA EventKeeps ==
  ASSUME TypeOK, NEW h \in Built, NEW o \in Object,
         HandleEvent(h, o) \/ LoseEvent(h, o)
  PROVE  HandlersKept
  <1>. DEFINE r == [handlers[h] EXCEPT !.events = @ \ {o}]
  <1>1. handlers' = [handlers EXCEPT ![h] = r]
    BY DEF HandleEvent, LoseEvent
  <1>2. ASSUME h \in Handler
        PROVE  /\ r \in HandlerType
               /\ r.stopped = handlers[h].stopped /\ r.isStopped = handlers[h].isStopped
    <2>1. handlers[h] \in HandlerType
      BY <1>2 DEF TypeOK
    <2>2. handlers[h].events \ {o} \in SUBSET Object
      BY <2>1, HandlerFields
    <2>. QED  BY <2>1, <2>2 DEF HandlerType
  <1>. HIDE DEF r
  <1>. QED  BY <1>1, <1>2, FieldsKept

\* A change of the cluster only adds events.
LEMMA ChangeKeeps ==
  ASSUME TypeOK, NEW o \in Object, Change(o)
  PROVE  HandlersKept
  <1>. DEFINE events(h) == IF handlers[h].stopped THEN handlers[h].events
                             ELSE handlers[h].events \cup {o}
              later(h)  == IF handlers[h].phase[KindOf[o]] = "waiting"
                             THEN handlers[h].later ELSE handlers[h].later \cup {o}
              r(h)      == [handlers[h] EXCEPT !.events = events(h), !.later = later(h)]
              keeps(h)  == h \notin Built \/ handlers[h].phase[KindOf[o]] = "absent"
  <1>1. handlers' = [h \in Handler |-> IF keeps(h) THEN handlers[h] ELSE r(h)]
    BY DEF Change
  <1>2. ASSUME NEW h \in Handler
        PROVE  /\ r(h) \in HandlerType
               /\ r(h).stopped = handlers[h].stopped
               /\ r(h).isStopped = handlers[h].isStopped
    <2>1. handlers[h] \in HandlerType
      BY DEF TypeOK
    <2>2. events(h) \in SUBSET Object /\ later(h) \in SUBSET Object
      BY <2>1, HandlerFields
    <2>. HIDE DEF events, later
    <2>. QED  BY <2>1, <2>2 DEF HandlerType
  <1>3. \A h \in Handler : handlers[h] \in HandlerType
    BY DEF TypeOK
  <1>. HIDE DEF r, keeps
  <1>4. handlers' \in [Handler -> HandlerType]
    BY <1>1, <1>2, <1>3
  <1>5. ASSUME NEW h \in Handler
        PROVE  /\ handlers'[h].stopped = handlers[h].stopped
               /\ handlers'[h].isStopped = handlers[h].isStopped
    BY <1>1, <1>2
  <1>. QED  BY <1>4, <1>5 DEF HandlersKept, Monotone

\* A published handler keeps its channel and its mark.
LEMMA PublishKeeps ==
  ASSUME TypeOK, NEW c \in Caller, Publish(c)
  PROVE  HandlersKept
  <1>. DEFINE h == mine[c]
              r == [NewHandler({}, FALSE) EXCEPT
                      !.stopped = handlers[h].stopped, !.isStopped = handlers[h].isStopped,
                      !.phase = handlers[h].phase, !.events = handlers[h].events,
                      !.frozen = handlers[h].frozen]
  <1>1. handlers' = [x \in Handler |-> IF x # h THEN handlers[x] ELSE r]
    BY DEF Publish
  <1>2. ASSUME h \in Handler
        PROVE  /\ r \in HandlerType
               /\ r.stopped = handlers[h].stopped /\ r.isStopped = handlers[h].isStopped
    <2>1. handlers[h] \in HandlerType
      BY <1>2 DEF TypeOK
    <2>2. NewHandler({}, FALSE) \in HandlerType
      BY NewHandlerType
    <2>. QED  BY <2>1, <2>2, HandlerFields DEF HandlerType
  <1>3. \A x \in Handler : handlers[x] \in HandlerType
    BY DEF TypeOK
  <1>. HIDE DEF r
  <1>4. handlers' \in [Handler -> HandlerType]
    BY <1>1, <1>2, <1>3
  <1>5. ASSUME NEW x \in Handler
        PROVE  /\ handlers'[x].stopped = handlers[x].stopped
               /\ handlers'[x].isStopped = handlers[x].isStopped
    BY <1>1, <1>2
  <1>. QED  BY <1>4, <1>5 DEF HandlersKept, Monotone

\* Stop and the first signal close a handler's channel.
LEMMA CloseKeeps ==
  ASSUME TypeOK, NEW h \in Handler,
         \/ handlers' = [handlers EXCEPT ![h] = Stopped(h)]
         \/ handlers' = [handlers EXCEPT ![h] = [Stopped(h) EXCEPT !.isStopped = TRUE]]
  PROVE  HandlersKept /\ handlers'[h].stopped
  <1>. DEFINE r1 == Stopped(h) r2 == [Stopped(h) EXCEPT !.isStopped = TRUE]
  <1>1. PICK r \in {r1, r2} : handlers' = [handlers EXCEPT ![h] = r]
    OBVIOUS
  <1>2. r \in HandlerType /\ r.stopped
    BY StoppedType
  <1>3. handlers' \in [Handler -> HandlerType]
    BY <1>1, <1>2, Replaced DEF TypeOK
  <1>4. ASSUME NEW x \in Handler
        PROVE  IF x = h THEN handlers'[x].stopped ELSE handlers'[x] = handlers[x]
    BY <1>1, <1>2 DEF TypeOK
  <1>. QED  BY <1>3, <1>4 DEF HandlersKept, Monotone

\* A new handler takes the place of one that was never built.
LEMMA BuildKeeps ==
  ASSUME TypeOK, NEW c \in Caller, Build(c)
  PROVE  /\ handlers' \in [Handler -> HandlerType]
         /\ \A x \in Handler :
              IF x = built + 1 THEN ~handlers'[x].isStopped ELSE handlers'[x] = handlers[x]
  <1>1. PICK kinds \in SUBSET Kind, parallel \in BOOLEAN :
          handlers' = [handlers EXCEPT ![built + 1] = NewHandler(kinds, parallel)]
    BY DEF Build
  <1>2. NewHandler(kinds, parallel) \in HandlerType
    BY NewHandlerType
  <1>3. ~NewHandler(kinds, parallel).isStopped
    BY DEF NewHandler
  <1>. QED  BY <1>1, <1>2, <1>3, Replaced DEF TypeOK

\* A process that ends leaves nothing.
LEMMA FreshMemory ==
  /\ NoHandlers \in [Handler -> HandlerType] /\ NoSignals \in [Handler -> SignalType]
  /\ AllIdle \in [Caller -> CallerPlaces]
  /\ NoCalls \in [Caller -> Handler \cup {Nil}]
  /\ \A h \in Handler : ~NoHandlers[h].isStopped
  <1>1. NewHandler({}, FALSE) \in HandlerType
    BY NewHandlerType
  <1>2. ~NewHandler({}, FALSE).isStopped
    BY DEF NewHandler
  <1>3. NoHandlers \in [Handler -> HandlerType] /\ \A h \in Handler : ~NoHandlers[h].isStopped
    BY <1>1, <1>2 DEF NoHandlers
  <1>4. NoSignals \in [Handler -> SignalType]
    BY NewSignalsType DEF NoSignals
  <1>. QED  BY <1>3, <1>4 DEF AllIdle, NoCalls, CallerPlaces

\* A process that ends is well typed.
LEMMA EndsType ==
  ASSUME TypeOK, NEW how \in {"panicked", "exited"}, Ends(how),
         sent' \in 0..MaxInputs
  PROVE  TypeOK'
  <1>1. 0 \in 0..MaxCalls
    BY CallLimit
  <1>. QED  BY <1>1, FreshMemory DEF Ends, TypeOK, CallerPlaces, clusterVars, historyVars

-----------------------------------------------------------------------------
(* Type correctness.                                                         *)

\* The first signal's effect on the signal handlers, and a signal's.
LEMMA SignalsTyped ==
  ASSUME TypeOK
  PROVE  /\ \A h \in Handler : signals[h].pending > 0 =>
              [signals EXCEPT ![h].waits = "second", ![h].pending = @ - 1]
                \in [Handler -> SignalType]
         /\ \A h \in Handler :
              [signals EXCEPT ![h] = [pending |-> 0, waits |-> "done", graceful |-> TRUE]]
                \in [Handler -> SignalType]
         /\ [h \in Handler |->
              IF h \in Built /\ signals[h].pending < 2
                THEN [signals[h] EXCEPT !.pending = @ + 1] ELSE signals[h]]
              \in [Handler -> SignalType]
  <1>1. \A h \in Handler : signals[h] \in SignalType
    BY DEF TypeOK
  <1>2. ASSUME NEW h \in Handler, signals[h].pending > 0
        PROVE  [signals EXCEPT ![h].waits = "second", ![h].pending = @ - 1]
                 \in [Handler -> SignalType]
    <2>. DEFINE n == signals[h].pending - 1
                r == [signals[h] EXCEPT !.waits = "second", !.pending = n]
    <2>1. n \in 0..2
      BY <1>1, <1>2 DEF SignalType
    <2>2. r \in SignalType
      <3>. HIDE DEF n
      <3>. QED  BY <1>1, <2>1 DEF SignalType
    <2>3. [signals EXCEPT ![h].waits = "second", ![h].pending = @ - 1]
            = [signals EXCEPT ![h] = r]
      BY DEF TypeOK
    <2>. HIDE DEF r
    <2>. QED  BY <2>2, <2>3 DEF TypeOK
  <1>3. [pending |-> 0, waits |-> "done", graceful |-> TRUE] \in SignalType
    BY DEF SignalType
  <1>4. ASSUME NEW h \in Handler, signals[h].pending < 2
        PROVE  [signals[h] EXCEPT !.pending = @ + 1] \in SignalType
    <2>. DEFINE n == signals[h].pending + 1
    <2>1. n \in 0..2
      BY <1>1, <1>4 DEF SignalType
    <2>. HIDE DEF n
    <2>2. [signals[h] EXCEPT !.pending = n] \in SignalType
      BY <1>1, <2>1 DEF SignalType
    <2>. QED  BY <2>2 DEF n
  <1>. QED  BY <1>1, <1>2, <1>3, <1>4 DEF TypeOK

\* A caller whose controllers sync or whose deletion runs has built a handler.
HasHandler == \A c \in Caller : pc[c] \in {"sync", "delete"} => mine[c] \in Handler

\* The first state is well typed.
LEMMA TypeInit == Init => TypeOK /\ HasHandler
  <1>1. 0 \in 0..MaxCalls /\ 0 \in 0..MaxInputs
    BY CallLimit
  <1>2. Init => HasHandler
    BY DEF Init, AllIdle, HasHandler
  <1>. QED  BY <1>1, <1>2, FreshMemory DEF Init, TypeOK, CallerPlaces

\* A call enters its sync only by building a handler.
LEMMA HasHandlerStep == TypeOK /\ HasHandler /\ [Next]_vars => HasHandler'
  <1>. SUFFICES ASSUME TypeOK, HasHandler, [Next]_vars PROVE HasHandler'
    OBVIOUS
  <1>. USE DEF HasHandler
  <1>0. /\ pc \in [Caller -> CallerPlaces]
        /\ mine \in [Caller -> Handler \cup {Nil}]
    BY DEF TypeOK, CallerPlaces
  <1>1. ASSUME UNCHANGED <<pc, mine>> PROVE HasHandler'
    BY <1>1
  <1>2. ASSUME NEW how, Ends(how) PROVE HasHandler'
    BY <1>2 DEF Ends, AllIdle
  <1>3. ASSUME NEW c \in Caller, NEW place \in CallerPlaces,
               pc' = [pc EXCEPT ![c] = place], UNCHANGED mine,
               place \in {"sync", "delete"} => mine[c] \in Handler
        PROVE  HasHandler'
    BY <1>0, <1>3
  <1>4. ASSUME NEW c \in Caller, Call(c) PROVE HasHandler'
    BY <1>0, <1>4 DEF Call
  <1>5. ASSUME NEW c \in Caller, Stop(c) PROVE HasHandler'
    BY <1>2, <1>3, <1>5 DEF Stop, CallerPlaces
  <1>6. ASSUME NEW c \in Caller, FetchFails(c) \/ Skip(c) \/ Deleted(c) PROVE HasHandler'
    BY <1>3, <1>6 DEF FetchFails, Skip, Deleted, CallerPlaces
  <1>7. ASSUME NEW c \in Caller, Build(c) PROVE HasHandler'
    BY <1>0, <1>7 DEF Build
  <1>8. ASSUME NEW c \in Caller, Publish(c) PROVE HasHandler'
    BY <1>0, <1>8 DEF Publish
  <1>9. ASSUME NEW c \in Caller, Search(c) PROVE HasHandler'
    BY <1>3, <1>9 DEF Search, InSync, CallerPlaces
  <1>10. ASSUME Resyncing PROVE HasHandler'
    BY <1>1, <1>4, <1>5, <1>6, <1>7, <1>8, <1>9, <1>10
       DEF Resyncing, Cancel, DeleteStale, SyncKind, Merge, callVars
  <1>11. ASSUME Watching PROVE HasHandler'
    BY <1>1, <1>11 DEF Watching, Change, HandleEvent, LoseEvent, callVars
  <1>12. ASSUME Signalling PROVE HasHandler'
    BY <1>1, <1>2, <1>12
       DEF Signalling, Signal, Exit, FirstSignal, SecondSignal, SeeStop, callVars
  <1>. QED  BY <1>1, <1>10, <1>11, <1>12 DEF Next, vars, callVars

\* Every step keeps the types.
LEMMA TypeStep == TypeOK /\ HasHandler /\ [Next]_vars => TypeOK'
  <1>. SUFFICES ASSUME TypeOK, HasHandler, [Next]_vars PROVE TypeOK'
    OBVIOUS
  <1>. USE DEF callVars, clusterVars, historyVars
  <1>0. Built \subseteq Handler
    BY CallLimit DEF TypeOK, Built, Handler
  <1>1. ASSUME NEW c \in Caller, Call(c) PROVE TypeOK'
    BY <1>1, CallLimit DEF Call, TypeOK
  <1>2. ASSUME NEW c \in Caller, Stop(c) PROVE TypeOK'
    <2>1. CASE handlers[old[c]].stopped
      BY <1>2, <2>1, EndsType DEF Stop, TypeOK
    <2>2. CASE ~handlers[old[c]].stopped
      <3>1. handlers' = [handlers EXCEPT
                           ![old[c]] = [Stopped(old[c]) EXCEPT !.isStopped = TRUE]]
        BY <1>2, <2>2 DEF Stop
      <3>2. handlers' \in [Handler -> HandlerType]
        BY <3>1, StoppedType, Replaced DEF TypeOK
      <3>. QED  BY <1>2, <2>2, <3>2 DEF Stop, TypeOK
    <2>. QED  BY <2>1, <2>2
  <1>3. ASSUME NEW c \in Caller, FetchFails(c) PROVE TypeOK'
    BY <1>3 DEF FetchFails, TypeOK
  <1>4. ASSUME NEW c \in Caller, Build(c) PROVE TypeOK'
    <2>1. handlers' \in [Handler -> HandlerType]
      BY <1>4, BuildKeeps
    <2>2. built + 1 \in 0..MaxCalls
      BY <1>4, CallLimit DEF Build, Handler
    <2>. QED  BY <1>4, <2>1, <2>2 DEF Build, TypeOK
  <1>5. ASSUME NEW c \in Caller, Publish(c) PROVE TypeOK'
    <2>1. handlers' \in [Handler -> HandlerType]
      BY <1>5, PublishKeeps DEF HandlersKept
    <2>. QED  BY <1>5, <2>1 DEF Publish, TypeOK
  <1>6. ASSUME NEW c \in Caller, NEW k \in Kind, SyncKind(c, k) PROVE TypeOK'
    <2>. DEFINE found == {o \in CacheOf(mine[c]) : KindOf[o] = k}
    <2>1. handlers' \in [Handler -> HandlerType]
      BY <1>6, SyncKindKeeps DEF HandlersKept
    <2>2. handlers[mine[c]] \in HandlerType
      BY <1>6 DEF SyncKind, InSync, HasHandler, TypeOK
    <2>3. found \in SUBSET Object
      BY <2>2, HandlerFields DEF CacheOf, TypeOK
    <2>4. /\ port' \in SUBSET Object /\ swept' \in SUBSET Object
          /\ failed' \in SUBSET Object /\ late' \in SUBSET Object
      BY <1>6, <2>3 DEF SyncKind, Account, TypeOK
    <2>. QED  BY <1>6, <2>1, <2>4 DEF SyncKind, TypeOK
  <1>7. ASSUME NEW c \in Caller, NEW k \in Kind, Merge(c, k) PROVE TypeOK'
    <2>1. handlers' \in [Handler -> HandlerType]
      BY <1>7, MergeKeeps DEF HandlersKept
    <2>. QED  BY <1>7, <2>1 DEF Merge, TypeOK
  <1>8. ASSUME NEW c \in Caller, Skip(c) PROVE TypeOK'
    BY <1>8 DEF Skip, TypeOK
  <1>9. ASSUME NEW c \in Caller, Search(c) \/ Cancel(c) \/ Deleted(c) PROVE TypeOK'
    <2>1. handlers' \in [Handler -> HandlerType]
      BY <1>9, DeletionKeeps DEF HandlersKept
    <2>2. CASE Search(c)
      BY <2>1, <2>2 DEF Search, TypeOK
    <2>3. CASE Cancel(c)
      BY <2>1, <2>3 DEF Cancel, TypeOK
    <2>4. CASE Deleted(c)
      <3>1. handlers[mine[c]].stale \in SUBSET Object
        BY <2>4, HandlerFields DEF Deleted, HasHandler, TypeOK
      <3>. QED  BY <2>1, <2>4, <3>1 DEF Deleted, TypeOK
    <2>. QED  BY <1>9, <2>2, <2>3, <2>4
  <1>10. ASSUME NEW c \in Caller, NEW o \in Object, DeleteStale(c, o) PROVE TypeOK'
    <2>1. handlers' \in [Handler -> HandlerType]
      BY <1>10, DeletionKeeps DEF HandlersKept
    <2>2. /\ port' \in SUBSET Object /\ swept' \in SUBSET Object
          /\ failed' \in SUBSET Object /\ late' \in SUBSET Object
      BY <1>10 DEF DeleteStale, TypeOK
    <2>. QED  BY <1>10, <2>1, <2>2 DEF DeleteStale, TypeOK
  <1>11. ASSUME NEW o \in Object, Change(o) PROVE TypeOK'
    <2>1. handlers' \in [Handler -> HandlerType]
      BY <1>11, ChangeKeeps DEF HandlersKept
    <2>2. cluster' \in SUBSET Object
      BY <1>11 DEF Change, TypeOK
    <2>3. changes' \in 0..MaxInputs
      <3>1. changes \in 0..MaxInputs /\ sent \in 0..MaxInputs
        BY DEF TypeOK
      <3>2. changes + sent < MaxInputs /\ changes' = changes + 1
        BY <1>11 DEF Change
      <3>. QED  BY <3>1, <3>2, CallLimit
    <2>. QED  BY <1>11, <2>1, <2>2, <2>3 DEF Change, TypeOK
  <1>12. ASSUME NEW h \in Built, NEW o \in Object, HandleEvent(h, o) \/ LoseEvent(h, o)
         PROVE  TypeOK'
    <2>1. handlers' \in [Handler -> HandlerType]
      BY <1>12, EventKeeps DEF HandlersKept
    <2>2. CASE HandleEvent(h, o)
      <3>1. /\ port' \in SUBSET Object /\ swept' \in SUBSET Object
            /\ failed' \in SUBSET Object /\ late' \in SUBSET Object
        BY <2>2 DEF HandleEvent, Account, TypeOK
      <3>. QED  BY <2>1, <2>2, <3>1 DEF HandleEvent, TypeOK
    <2>3. CASE LoseEvent(h, o)
      BY <2>1, <2>3 DEF LoseEvent, TypeOK
    <2>. QED  BY <1>12, <2>2, <2>3
  <1>13. ASSUME Signal PROVE TypeOK'
    <2>1. sent' \in 0..MaxInputs
      BY <1>13, CallLimit DEF Signal, TypeOK
    <2>2. CASE \E h \in Built : signals[h].graceful
      BY <1>13, <2>1, <2>2, EndsType DEF Signal
    <2>3. CASE ~\E h \in Built : signals[h].graceful
      <3>1. signals' \in [Handler -> SignalType]
        BY <1>13, <2>3, SignalsTyped DEF Signal
      <3>. QED  BY <1>13, <2>1, <2>3, <3>1 DEF Signal, TypeOK
    <2>. QED  BY <2>2, <2>3
  <1>14. ASSUME NEW h \in Built, FirstSignal(h) PROVE TypeOK'
    <2>1. CASE handlers[h].stopped
      BY <1>14, <2>1, EndsType DEF FirstSignal, TypeOK
    <2>2. CASE ~handlers[h].stopped
      <3>1. handlers' = [handlers EXCEPT ![h] = Stopped(h)]
        BY <1>14, <2>2 DEF FirstSignal
      <3>2. handlers' \in [Handler -> HandlerType]
        BY <1>0, <3>1, CloseKeeps DEF HandlersKept
      <3>3. signals' \in [Handler -> SignalType]
        BY <1>0, <1>14, <2>2, SignalsTyped DEF FirstSignal
      <3>. QED  BY <1>14, <2>2, <3>2, <3>3 DEF FirstSignal, TypeOK
    <2>. QED  BY <2>1, <2>2
  <1>15. ASSUME NEW h \in Built, SecondSignal(h) PROVE TypeOK'
    BY <1>15, EndsType DEF SecondSignal, TypeOK
  <1>16. ASSUME NEW h \in Built, SeeStop(h) PROVE TypeOK'
    <2>1. signals' \in [Handler -> SignalType]
      BY <1>0, <1>16, SignalsTyped DEF SeeStop
    <2>. QED  BY <1>16, <2>1 DEF SeeStop, TypeOK
  <1>17. ASSUME Exit PROVE TypeOK'
    BY <1>17, EndsType DEF Exit, TypeOK
  <1>18. ASSUME UNCHANGED vars PROVE TypeOK'
    BY <1>18 DEF vars, TypeOK
  <1>. QED
    BY <1>1, <1>2, <1>3, <1>4, <1>5, <1>6, <1>7, <1>8, <1>9, <1>10, <1>11, <1>12, <1>13,
       <1>14, <1>15, <1>16, <1>17, <1>18
       DEF Next, Resyncing, Watching, Signalling

\* Every reachable state is well typed: no caller leaves the steps of RunResync, and
\* no signal channel holds more than its two signals.
THEOREM TypeCorrect == Spec => []TypeOK
  <1>1. TypeOK /\ HasHandler /\ [Next]_vars => (TypeOK /\ HasHandler)'
    BY TypeStep, HasHandlerStep
  <1>. QED  BY <1>1, TypeInit, PTL DEF Spec

-----------------------------------------------------------------------------
(* One handler at a time, for one caller of RunResync.                       *)

\* Only stopped handlers are marked, so that a call may leave a marked one alone.
StopMarks == \A h \in Handler : handlers[h].isStopped => handlers[h].stopped

\* All handlers but h are stopped.
AloneRuns(h) == \A x \in Built : handlers[x].stopped \/ x = h

\* The handler that may run is the published one, until the call has stopped it, and
\* the call's own one from then on.
RunsByPlace(c) ==
  /\ mine[c] \in Built \cup {Nil}
  /\ pc[c] \in {"idle", "stop"} => AloneRuns(controllerHandler)
  /\ pc[c] = "stop" => old[c] = controllerHandler /\ old[c] \in Built
  /\ pc[c] \in {"stop", "fetch"} => mine[c] = Nil
  /\ pc[c] \in {"fetch", "sync", "delete", "publish"} => AloneRuns(mine[c])

OneHandlerInv ==
  /\ TypeOK /\ HasHandler
  /\ StopMarks
  /\ controllerHandler \in Built \cup {Nil}
  /\ RunsByPlace(Listener)

\* Wherever the caller is, one handler at most is not stopped.
LEMMA OneHandlerInvImplies == OneHandlerInv => OneHandler
  <1>. SUFFICES ASSUME OneHandlerInv PROVE OneHandler
    OBVIOUS
  <1>1. pc[Listener] \in CallerPlaces
    BY ListenerCalls DEF OneHandlerInv, TypeOK, CallerPlaces
  <1>2. AloneRuns(controllerHandler) \/ AloneRuns(mine[Listener])
    BY <1>1 DEF OneHandlerInv, RunsByPlace, CallerPlaces
  <1>. QED  BY <1>2 DEF AloneRuns, OneHandler

\* Nobody runs before the first call.
LEMMA OneHandlerInit == Init => OneHandlerInv
  <1>. SUFFICES ASSUME Init PROVE OneHandlerInv
    OBVIOUS
  <1>1. TypeOK /\ HasHandler
    BY TypeInit
  <1>2. StopMarks
    BY FreshMemory DEF Init, StopMarks
  <1>3. Built = {}
    BY DEF Init, Built
  <1>4. pc[Listener] = "idle" /\ mine[Listener] = Nil
    BY ListenerCalls DEF Init, AllIdle, NoCalls
  <1>. QED
    BY <1>1, <1>2, <1>3, <1>4 DEF OneHandlerInv, RunsByPlace, AloneRuns, Init

\* A process that ends runs no handler.
LEMMA EndsRuns ==
  ASSUME OneHandlerInv, NEW how, Ends(how)
  PROVE  StopMarks' /\ (controllerHandler \in Built \cup {Nil})' /\ RunsByPlace(Listener)'
  <1>1. StopMarks'
    BY FreshMemory DEF Ends, StopMarks
  <1>2. Built' = {}
    BY DEF Ends, Built
  <1>3. pc'[Listener] = "idle" /\ mine'[Listener] = Nil
    BY ListenerCalls DEF Ends, AllIdle, NoCalls
  <1>. QED
    BY <1>1, <1>2, <1>3 DEF RunsByPlace, AloneRuns, Ends

\* A step that leaves the callers and the built handlers alone starts nobody again.
LEMMA MonotoneRuns ==
  ASSUME OneHandlerInv, HandlersKept, UNCHANGED <<built>>
  PROVE  /\ StopMarks' /\ Built' = Built
         /\ \A h : AloneRuns(h) => \A x \in Built : handlers'[x].stopped \/ x = h
  <1>1. StopMarks'
    BY DEF OneHandlerInv, HandlersKept, Monotone, StopMarks
  <1>2. Built' = Built
    BY DEF Built
  <1>3. Built \subseteq Handler
    BY CallLimit DEF Built, Handler, OneHandlerInv, TypeOK
  <1>. QED  BY <1>1, <1>2, <1>3 DEF HandlersKept, Monotone, AloneRuns

\* Such a step keeps the invariant if it changes no caller at all.
LEMMA QuietRuns ==
  ASSUME OneHandlerInv, HandlersKept,
         UNCHANGED <<pc, old, mine, controllerHandler, built>>
  PROVE  StopMarks' /\ (controllerHandler \in Built \cup {Nil})' /\ RunsByPlace(Listener)'
  <1>1. /\ StopMarks' /\ Built' = Built
        /\ \A h : AloneRuns(h) => \A x \in Built : handlers'[x].stopped \/ x = h
    BY MonotoneRuns
  <1>. QED  BY <1>1 DEF OneHandlerInv, RunsByPlace, AloneRuns

\* A caller goes on with the handler it has built, or with none.
LEMMA GoesOnRuns ==
  ASSUME OneHandlerInv, HandlersKept,
         UNCHANGED <<old, mine, controllerHandler, built>>,
         pc[Listener] \in {"fetch", "sync", "delete"},
         pc'[Listener] \in {"delete", "publish"}
  PROVE  StopMarks' /\ (controllerHandler \in Built \cup {Nil})' /\ RunsByPlace(Listener)'
  <1>1. /\ StopMarks' /\ Built' = Built
        /\ \A h : AloneRuns(h) => \A x \in Built : handlers'[x].stopped \/ x = h
    BY MonotoneRuns
  <1>. QED  BY <1>1 DEF OneHandlerInv, RunsByPlace, AloneRuns

\* A step that does not touch the handlers keeps them.
LEMMA SameHandlers == ASSUME TypeOK, UNCHANGED handlers PROVE HandlersKept
  BY DEF TypeOK, HandlersKept, Monotone

RunsNext == StopMarks' /\ (controllerHandler \in Built \cup {Nil})' /\ RunsByPlace(Listener)'

\* Each step of RunResync hands the right to run on.
LEMMA ResyncingRuns ==
  ASSUME Caller = {Listener}, OneHandlerInv, Resyncing
  PROVE  RunsNext
  <1>. DEFINE c == Listener
  <1>. USE DEF RunsNext
  <1>0. /\ TypeOK /\ HasHandler /\ c \in Caller
        /\ pc \in [Caller -> CallerPlaces]
        /\ mine \in [Caller -> Handler \cup {Nil}] /\ old \in [Caller -> Handler \cup {Nil}]
        /\ Built \subseteq Handler /\ Nil \notin Built /\ built \in Nat
    BY ListenerCalls, CallLimit
       DEF OneHandlerInv, TypeOK, CallerPlaces, Built, Handler, Nil
  <1>1. CASE Call(c)
    <2>1. /\ HandlersKept /\ UNCHANGED <<controllerHandler, built, handlers>>
          /\ pc[c] = "idle" /\ mine'[c] = Nil /\ old'[c] = controllerHandler
          /\ pc'[c] = IF controllerHandler = Nil \/ handlers[controllerHandler].isStopped
                        THEN "fetch" ELSE "stop"
      BY <1>0, <1>1, SameHandlers DEF Call
    <2>2. AloneRuns(controllerHandler) /\ controllerHandler \in Built \cup {Nil} /\ StopMarks
      BY <2>1 DEF OneHandlerInv, RunsByPlace
    <2>3. /\ StopMarks' /\ Built' = Built
          /\ \A h : AloneRuns(h) => \A x \in Built : handlers'[x].stopped \/ x = h
      BY <2>1, MonotoneRuns
    <2>4. CASE pc'[c] = "stop"
      BY <1>0, <2>1, <2>2, <2>3, <2>4 DEF RunsByPlace, AloneRuns
    <2>5. CASE pc'[c] = "fetch"
      <3>1. \A x \in Built : handlers[x].stopped
        BY <1>0, <2>1, <2>2, <2>5 DEF AloneRuns, StopMarks
      <3>. QED  BY <1>0, <2>1, <2>2, <2>3, <2>5, <3>1 DEF RunsByPlace, AloneRuns
    <2>. QED  BY <2>1, <2>4, <2>5
  <1>2. CASE Stop(c)
    <2>1. CASE handlers[old[c]].stopped
      BY <1>2, <2>1, EndsRuns DEF Stop
    <2>2. CASE ~handlers[old[c]].stopped
      <3>1. /\ pc[c] = "stop" /\ pc'[c] = "fetch"
            /\ handlers' = [handlers EXCEPT
                             ![old[c]] = [Stopped(old[c]) EXCEPT !.isStopped = TRUE]]
            /\ UNCHANGED <<controllerHandler, old, mine, built>>
        BY <1>0, <1>2, <2>2 DEF Stop
      <3>2. /\ mine[c] = Nil /\ old[c] = controllerHandler /\ old[c] \in Built
            /\ AloneRuns(controllerHandler) /\ controllerHandler \in Built \cup {Nil}
        BY <3>1 DEF OneHandlerInv, RunsByPlace
      <3>3. HandlersKept /\ handlers'[old[c]].stopped
        BY <1>0, <3>1, <3>2, CloseKeeps
      <3>4. /\ StopMarks' /\ Built' = Built
            /\ \A h : AloneRuns(h) => \A x \in Built : handlers'[x].stopped \/ x = h
        BY <3>1, <3>3, MonotoneRuns
      <3>. QED  BY <3>1, <3>2, <3>3, <3>4 DEF RunsByPlace, AloneRuns
    <2>. QED  BY <2>1, <2>2
  <1>3. CASE FetchFails(c) \/ Skip(c)
    <2>1. HandlersKept
      BY <1>0, <1>3, SameHandlers DEF FetchFails, Skip
    <2>2. /\ pc[c] \in {"fetch", "sync", "delete"} /\ pc'[c] = "publish"
          /\ UNCHANGED <<old, mine, controllerHandler, built>>
      BY <1>0, <1>3 DEF FetchFails, Skip, InSync
    <2>. QED  BY <2>1, <2>2, GoesOnRuns
  <1>4. CASE Search(c) \/ Deleted(c)
    <2>1. HandlersKept
      BY <1>0, <1>4, DeletionKeeps
    <2>2. /\ pc[c] \in {"fetch", "sync", "delete"} /\ pc'[c] \in {"delete", "publish"}
          /\ UNCHANGED <<old, mine, controllerHandler, built>>
      BY <1>0, <1>4 DEF Search, Deleted, InSync
    <2>. QED  BY <2>1, <2>2, GoesOnRuns
  <1>5. CASE Build(c)
    <2>1. /\ pc[c] = "fetch" /\ pc'[c] = "sync" /\ mine'[c] = built + 1
          /\ built' = built + 1 /\ UNCHANGED controllerHandler
      BY <1>0, <1>5 DEF Build
    <2>2. \A x \in Handler :
            IF x = built + 1 THEN ~handlers'[x].isStopped ELSE handlers'[x] = handlers[x]
      BY <1>0, <1>5, BuildKeeps
    <2>3. Built' = Built \cup {built + 1} /\ built + 1 \in Handler
      BY <1>0, <1>5, <2>1 DEF Build, Built
    <2>4. mine[c] = Nil /\ AloneRuns(mine[c])
      BY <2>1 DEF OneHandlerInv, RunsByPlace
    <2>5. \A x \in Built' : handlers'[x].stopped \/ x = built + 1
      BY <1>0, <2>2, <2>3, <2>4 DEF AloneRuns
    <2>6. StopMarks'
      BY <2>2 DEF OneHandlerInv, StopMarks
    <2>. QED  BY <2>1, <2>3, <2>5, <2>6 DEF OneHandlerInv, RunsByPlace, AloneRuns
  <1>6. CASE Publish(c)
    <2>1. HandlersKept
      BY <1>0, <1>6, PublishKeeps
    <2>2. /\ pc[c] = "publish" /\ pc'[c] = "idle" /\ mine'[c] = Nil
          /\ controllerHandler' = mine[c] /\ UNCHANGED built
      BY <1>0, <1>6 DEF Publish
    <2>3. mine[c] \in Built \cup {Nil} /\ AloneRuns(mine[c])
      BY <2>2 DEF OneHandlerInv, RunsByPlace
    <2>4. /\ StopMarks' /\ Built' = Built
          /\ \A h : AloneRuns(h) => \A x \in Built : handlers'[x].stopped \/ x = h
      BY <2>1, <2>2, MonotoneRuns
    <2>. QED  BY <2>2, <2>3, <2>4 DEF RunsByPlace, AloneRuns
  <1>7. CASE Cancel(c) \/ \E o \in Object : DeleteStale(c, o)
    <2>1. HandlersKept
      BY <1>0, <1>7, DeletionKeeps
    <2>. QED  BY <1>7, <2>1, QuietRuns DEF Cancel, DeleteStale, callVars
  <1>8. CASE \E k \in Kind : SyncKind(c, k) \/ Merge(c, k)
    <2>1. HandlersKept
      BY <1>0, <1>8, SyncKindKeeps, MergeKeeps
    <2>. QED  BY <1>8, <2>1, QuietRuns DEF SyncKind, Merge, callVars
  <1>. QED
    BY <1>1, <1>2, <1>3, <1>4, <1>5, <1>6, <1>7, <1>8 DEF Resyncing

\* The cluster and its events start nobody, and the signals only stop.
LEMMA OtherRuns ==
  ASSUME OneHandlerInv, Watching \/ Signalling
  PROVE  RunsNext
  <1>. USE DEF RunsNext
  <1>0. TypeOK /\ Built \subseteq Handler
    BY CallLimit DEF OneHandlerInv, TypeOK, Built, Handler
  <1>1. ASSUME NEW o \in Object, Change(o) PROVE RunsNext
    BY <1>0, <1>1, ChangeKeeps, QuietRuns DEF Change, callVars
  <1>2. ASSUME NEW h \in Built, NEW o \in Object, HandleEvent(h, o) \/ LoseEvent(h, o)
        PROVE  RunsNext
    BY <1>0, <1>2, EventKeeps, QuietRuns DEF HandleEvent, LoseEvent, callVars
  <1>3. ASSUME NEW how, Ends(how) PROVE RunsNext
    BY <1>3, EndsRuns
  <1>4. ASSUME NEW h \in Built, FirstSignal(h) PROVE RunsNext
    <2>1. CASE handlers[h].stopped
      BY <1>3, <1>4, <2>1 DEF FirstSignal
    <2>2. CASE ~handlers[h].stopped
      <3>1. HandlersKept
        BY <1>0, <1>4, <2>2, CloseKeeps DEF FirstSignal
      <3>. QED  BY <1>4, <2>2, <3>1, QuietRuns DEF FirstSignal, callVars
    <2>. QED  BY <2>1, <2>2
  <1>5. ASSUME UNCHANGED <<callVars, controllerHandler, built, handlers>> PROVE RunsNext
    BY <1>0, <1>5, SameHandlers, QuietRuns DEF callVars
  <1>6. CASE Watching
    BY <1>1, <1>2, <1>6 DEF Watching
  <1>7. CASE Signalling
    BY <1>3, <1>4, <1>5, <1>7 DEF Signalling, Signal, Exit, SecondSignal, SeeStop
  <1>. QED  BY <1>6, <1>7

\* With one caller every step keeps the invariant.
LEMMA OneHandlerStep ==
  ASSUME Caller = {Listener}, OneHandlerInv, [Next]_vars PROVE OneHandlerInv'
  <1>1. TypeOK' /\ HasHandler'
    BY TypeStep, HasHandlerStep DEF OneHandlerInv
  <1>2. CASE Next
    BY <1>1, <1>2, ResyncingRuns, OtherRuns DEF Next, RunsNext, OneHandlerInv
  <1>3. CASE UNCHANGED vars
    <2>1. HandlersKept
      BY <1>3, SameHandlers DEF vars, OneHandlerInv
    <2>2. RunsNext
      BY <1>3, <2>1, QuietRuns DEF vars, callVars, RunsNext
    <2>. QED  BY <1>1, <2>2 DEF RunsNext, OneHandlerInv
  <1>. QED  BY <1>2, <1>3

\* If the listener alone calls RunResync, at most one handler runs at a time, however
\* the syncs, deletions, changes and signals interleave.
THEOREM OneHandlerRuns ==
  ASSUME Caller = {Listener}
  PROVE  Spec => []OneHandler
  <1>1. OneHandlerInv /\ [Next]_vars => OneHandlerInv'
    BY OneHandlerStep
  <1>. QED  BY <1>1, OneHandlerInit, OneHandlerInvImplies, PTL DEF Spec

-----------------------------------------------------------------------------
(* What a step makes of the handlers, field by field.                        *)

OnlyChanged(h) == \A x \in Handler \ {h} : handlers'[x] = handlers[x]

SameStop(h) ==
  /\ handlers'[h].stopped = handlers[h].stopped
  /\ handlers'[h].interrupted = handlers[h].interrupted
SameResults(h) ==
  /\ handlers'[h].parallel = handlers[h].parallel /\ handlers'[h].phase = handlers[h].phase
  /\ handlers'[h].set = handlers[h].set /\ handlers'[h].flag = handlers[h].flag
  /\ handlers'[h].sets = handlers[h].sets /\ handlers'[h].should = handlers[h].should
SameSweep(h) ==
  handlers'[h].stale = handlers[h].stale /\ handlers'[h].later = handlers[h].later
SameEvents(h) == handlers'[h].events = handlers[h].events

\* Nothing that the invariants below look at changes in the handler, but perhaps what
\* it is about to delete or has to handle.
SameHandler(h) ==
  SameStop(h) /\ SameResults(h) /\ handlers'[h].later = handlers[h].later

\* One handler is replaced.
LEMMA OneChanges ==
  ASSUME TypeOK, NEW h \in Handler, NEW r, handlers' = [handlers EXCEPT ![h] = r]
  PROVE  handlers'[h] = r /\ OnlyChanged(h) /\ handlers[h] \in HandlerType
  BY DEF TypeOK, OnlyChanged

\* The sync of a kind.
LEMMA SyncFrame ==
  ASSUME TypeOK, HasHandler, NEW c \in Caller, NEW k \in Kind, SyncKind(c, k)
  PROVE  LET h == mine[c]
             found == {o \in CacheOf(h) : KindOf[o] = k}
         IN
         /\ h \in Handler /\ OnlyChanged(h)
         /\ SameStop(h) /\ SameSweep(h) /\ SameEvents(h)
         /\ handlers'[h].parallel = handlers[h].parallel
         /\ handlers'[h].sets = handlers[h].sets /\ handlers'[h].should = handlers[h].should
         /\ handlers[h].phase[k] = "waiting"
         /\ \A j \in Kind : handlers'[h].phase[j] = IF j = k THEN "synced"
                                                     ELSE handlers[h].phase[j]
         /\ \E written \in SUBSET found, allows \in BOOLEAN :
              /\ allows => written = found \/ handlers[h].stopped
              /\ \A j \in Kind :
                   /\ handlers'[h].set[j] = IF j = k THEN written ELSE handlers[h].set[j]
                   /\ handlers'[h].flag[j] = IF j = k THEN allows ELSE handlers[h].flag[j]
              /\ port' = port \cup written /\ Account(h, written)
              /\ failed' = (failed \cup found) \ written
  <1>. DEFINE h == mine[c]
              found == {o \in CacheOf(h) : KindOf[o] = k}
  <1>0. h \in Handler
    BY DEF SyncKind, InSync, HasHandler
  <1>1. PICK written \in SUBSET found, allows \in BOOLEAN :
          /\ allows => written = found \/ handlers[h].stopped
          /\ port' = port \cup written /\ Account(h, written)
          /\ failed' = (failed \cup found) \ written
          /\ handlers' = [handlers EXCEPT ![h] = [handlers[h] EXCEPT
               !.phase[k] = "synced", !.set[k] = written, !.flag[k] = allows]]
    BY DEF SyncKind
  <1>. DEFINE r == [handlers[h] EXCEPT !.phase[k] = "synced", !.set[k] = written,
                                      !.flag[k] = allows]
  <1>2. handlers' = [handlers EXCEPT ![h] = r]
    BY <1>1
  <1>3. handlers[h] \in HandlerType
    BY <1>0 DEF TypeOK
  <1>4. /\ r.phase = [handlers[h].phase EXCEPT ![k] = "synced"]
        /\ r.set = [handlers[h].set EXCEPT ![k] = written]
        /\ r.flag = [handlers[h].flag EXCEPT ![k] = allows]
        /\ r.stopped = handlers[h].stopped /\ r.interrupted = handlers[h].interrupted
        /\ r.stale = handlers[h].stale /\ r.later = handlers[h].later
        /\ r.events = handlers[h].events /\ r.parallel = handlers[h].parallel
        /\ r.sets = handlers[h].sets /\ r.should = handlers[h].should
    BY <1>3 DEF HandlerType
  <1>. HIDE DEF r
  <1>5. handlers'[h] = r /\ OnlyChanged(h)
    BY <1>0, <1>2, OneChanges
  <1>6. \A j \in Kind :
          /\ r.phase[j] = IF j = k THEN "synced" ELSE handlers[h].phase[j]
          /\ r.set[j] = IF j = k THEN written ELSE handlers[h].set[j]
          /\ r.flag[j] = IF j = k THEN allows ELSE handlers[h].flag[j]
    BY <1>3, <1>4, HandlerFields
  <1>7. handlers[h].phase[k] = "waiting"
    BY DEF SyncKind
  <1>. QED  BY <1>0, <1>1, <1>4, <1>5, <1>6, <1>7 DEF SameStop, SameSweep, SameEvents

\* A merge, of the results of kind k into those of handler h.
MergedInto(h, k) ==
  /\ h \in Handler /\ OnlyChanged(h)
  /\ SameStop(h) /\ SameSweep(h) /\ SameEvents(h)
  /\ handlers'[h].parallel = handlers[h].parallel
  /\ handlers[h].phase[k] = "synced"
  /\ \A j \in Kind :
       /\ handlers'[h].phase[j] = IF j = k THEN "merged" ELSE handlers[h].phase[j]
       /\ handlers'[h].set[j] = IF j = k THEN {} ELSE handlers[h].set[j]
       /\ handlers'[h].flag[j] = IF j = k THEN TRUE ELSE handlers[h].flag[j]
  /\ handlers'[h].sets \subseteq handlers[h].set[k] \cup handlers[h].sets
  /\ ~handlers[h].parallel =>
       /\ handlers'[h].sets = handlers[h].set[k] \cup handlers[h].sets
       /\ handlers'[h].should = (handlers[h].flag[k] /\ handlers[h].should)

LEMMA MergeFrame ==
  ASSUME TypeOK, HasHandler, NEW c \in Caller, NEW k \in Kind, Merge(c, k)
  PROVE  MergedInto(mine[c], k)
  <1>. DEFINE h == mine[c]
  <1>0. h \in Handler
    BY DEF Merge, InSync, HasHandler
  <1>1. PICK unseen \in SUBSET {x \in Kind : handlers[h].phase[x] = "merged"},
             oldFlag \in BOOLEAN :
          /\ handlers[h].parallel \/ (unseen = {} /\ ~oldFlag)
          /\ handlers' = [handlers EXCEPT ![h] = [handlers[h] EXCEPT
               !.phase[k] = "merged", !.set[k] = {}, !.flag[k] = TRUE,
               !.sets   = handlers[h].set[k] \cup {o \in @ : KindOf[o] \notin unseen},
               !.should = handlers[h].flag[k] /\ (@ \/ oldFlag)]]
    BY DEF Merge
  <1>. DEFINE found == handlers[h].set[k] \cup
                         {o \in handlers[h].sets : KindOf[o] \notin unseen}
              allow == handlers[h].flag[k] /\ (handlers[h].should \/ oldFlag)
              r == [handlers[h] EXCEPT !.phase[k] = "merged", !.set[k] = {},
                      !.flag[k] = TRUE, !.sets = found, !.should = allow]
  <1>2. handlers' = [handlers EXCEPT ![h] = r]
    BY <1>1
  <1>3. handlers[h] \in HandlerType
    BY <1>0 DEF TypeOK
  <1>4. /\ found \subseteq handlers[h].set[k] \cup handlers[h].sets
        /\ ~handlers[h].parallel =>
             /\ found = handlers[h].set[k] \cup handlers[h].sets
             /\ allow = (handlers[h].flag[k] /\ handlers[h].should)
    <2>1. handlers[h].should \in BOOLEAN
      BY <1>3, HandlerFields
    <2>. QED  BY <1>1, <2>1
  <1>. HIDE DEF found, allow
  <1>5. /\ r.phase = [handlers[h].phase EXCEPT ![k] = "merged"]
        /\ r.set = [handlers[h].set EXCEPT ![k] = {}]
        /\ r.flag = [handlers[h].flag EXCEPT ![k] = TRUE]
        /\ r.sets = found /\ r.should = allow
        /\ r.stopped = handlers[h].stopped /\ r.interrupted = handlers[h].interrupted
        /\ r.stale = handlers[h].stale /\ r.later = handlers[h].later
        /\ r.events = handlers[h].events /\ r.parallel = handlers[h].parallel
    BY <1>3 DEF HandlerType
  <1>. HIDE DEF r
  <1>6. handlers'[h] = r /\ OnlyChanged(h)
    BY <1>0, <1>2, OneChanges
  <1>7. \A j \in Kind :
          /\ r.phase[j] = IF j = k THEN "merged" ELSE handlers[h].phase[j]
          /\ r.set[j] = IF j = k THEN {} ELSE handlers[h].set[j]
          /\ r.flag[j] = IF j = k THEN TRUE ELSE handlers[h].flag[j]
    <2>1. /\ handlers[h].phase \in [Kind -> {"absent", "waiting", "synced", "merged"}]
          /\ handlers[h].set \in [Kind -> SUBSET Object]
          /\ handlers[h].flag \in [Kind -> BOOLEAN]
      BY <1>3, HandlerFields
    <2>2. TAKE j \in Kind
    <2>3. r.phase[j] = IF j = k THEN "merged" ELSE handlers[h].phase[j]
      BY <1>5, <2>1
    <2>4. r.set[j] = IF j = k THEN {} ELSE handlers[h].set[j]
      BY <1>5, <2>1
    <2>5. r.flag[j] = IF j = k THEN TRUE ELSE handlers[h].flag[j]
      BY <1>5, <2>1
    <2>. QED  BY <2>3, <2>4, <2>5
  <1>8. handlers[h].phase[k] = "synced"
    BY DEF Merge
  <1>. QED
    BY <1>0, <1>4, <1>5, <1>6, <1>7, <1>8
       DEF MergedInto, SameStop, SameSweep, SameEvents

\* The entities to delete change.
LEMMA StaleChanges ==
  ASSUME TypeOK, NEW h \in Handler, NEW E, handlers' = [handlers EXCEPT ![h].stale = E]
  PROVE  /\ OnlyChanged(h) /\ SameHandler(h) /\ SameEvents(h)
         /\ handlers'[h].stale = E
  <1>. DEFINE r == [handlers[h] EXCEPT !.stale = E]
  <1>1. handlers' = [handlers EXCEPT ![h] = r]
    OBVIOUS
  <1>2. handlers[h] \in HandlerType
    BY DEF TypeOK
  <1>3. /\ r.stopped = handlers[h].stopped /\ r.interrupted = handlers[h].interrupted
        /\ r.parallel = handlers[h].parallel /\ r.phase = handlers[h].phase
        /\ r.set = handlers[h].set /\ r.flag = handlers[h].flag
        /\ r.sets = handlers[h].sets /\ r.should = handlers[h].should
        /\ r.later = handlers[h].later /\ r.events = handlers[h].events /\ r.stale = E
    BY <1>2 DEF HandlerType
  <1>. HIDE DEF r
  <1>4. handlers'[h] = r /\ OnlyChanged(h)
    BY <1>1, OneChanges
  <1>. QED  BY <1>3, <1>4 DEF SameHandler, SameStop, SameResults, SameEvents

\* The search, the deletion and its end.
LEMMA SearchFrame ==
  ASSUME TypeOK, HasHandler, NEW c \in Caller, Search(c)
  PROVE  LET h == mine[c] IN
         /\ h \in Handler /\ OnlyChanged(h) /\ SameHandler(h) /\ SameEvents(h)
         /\ handlers'[h].stale = port \ handlers[h].sets
  <1>1. mine[c] \in Handler
    BY DEF Search, InSync, HasHandler
  <1>2. handlers' = [handlers EXCEPT ![mine[c]].stale = port \ handlers[mine[c]].sets]
    BY DEF Search
  <1>. QED  BY <1>1, <1>2, StaleChanges

LEMMA DeleteStaleFrame ==
  ASSUME TypeOK, HasHandler, NEW c \in Caller, NEW o \in Object, DeleteStale(c, o)
  PROVE  LET h == mine[c] IN
         /\ h \in Handler /\ OnlyChanged(h) /\ SameHandler(h) /\ SameEvents(h)
         /\ handlers'[h].stale = handlers[h].stale \ {o}
  <1>1. mine[c] \in Handler
    BY DEF DeleteStale, HasHandler
  <1>2. handlers' = [handlers EXCEPT ![mine[c]].stale = handlers[mine[c]].stale \ {o}]
    BY DEF DeleteStale
  <1>. QED  BY <1>1, <1>2, StaleChanges

LEMMA DeletedFrame ==
  ASSUME TypeOK, HasHandler, NEW c \in Caller, Deleted(c)
  PROVE  LET h == mine[c] IN
         /\ h \in Handler /\ OnlyChanged(h) /\ SameHandler(h) /\ SameEvents(h)
         /\ handlers'[h].stale = {}
  <1>1. mine[c] \in Handler
    BY DEF Deleted, HasHandler
  <1>2. handlers' = [handlers EXCEPT ![mine[c]].stale = {}]
    BY DEF Deleted
  <1>. QED  BY <1>1, <1>2, StaleChanges

\* The cancellation of the deletion.
LEMMA CancelFrame ==
  ASSUME TypeOK, HasHandler, NEW c \in Caller, Cancel(c)
  PROVE  LET h == mine[c] IN
         /\ h \in Handler /\ OnlyChanged(h) /\ SameHandler(h) /\ SameEvents(h)
         /\ handlers'[h].stale = handlers[h].stale
  <1>. DEFINE h == mine[c]
              r == [handlers[h] EXCEPT !.cancelled = TRUE]
  <1>0. h \in Handler
    BY DEF Cancel, HasHandler
  <1>1. handlers' = [handlers EXCEPT ![h] = r]
    BY DEF Cancel
  <1>2. handlers[h] \in HandlerType
    BY <1>0 DEF TypeOK
  <1>3. /\ r.stopped = handlers[h].stopped /\ r.interrupted = handlers[h].interrupted
        /\ r.parallel = handlers[h].parallel /\ r.phase = handlers[h].phase
        /\ r.set = handlers[h].set /\ r.flag = handlers[h].flag
        /\ r.sets = handlers[h].sets /\ r.should = handlers[h].should
        /\ r.later = handlers[h].later /\ r.events = handlers[h].events
        /\ r.stale = handlers[h].stale
    BY <1>2 DEF HandlerType
  <1>. HIDE DEF r
  <1>4. handlers'[h] = r /\ OnlyChanged(h)
    BY <1>0, <1>1, OneChanges
  <1>. QED  BY <1>0, <1>3, <1>4 DEF SameHandler, SameStop, SameResults, SameEvents

\* A live event, a change of the cluster.
LEMMA EventFrame ==
  ASSUME TypeOK, NEW h \in Built, NEW o \in Object, HandleEvent(h, o) \/ LoseEvent(h, o)
  PROVE  /\ h \in Handler /\ OnlyChanged(h) /\ SameHandler(h) /\ SameSweep(h)
         /\ handlers'[h].events = handlers[h].events \ {o}
  <1>. DEFINE r == [handlers[h] EXCEPT !.events = @ \ {o}]
  <1>0. h \in Handler
    BY CallLimit DEF TypeOK, Built, Handler
  <1>1. handlers' = [handlers EXCEPT ![h] = r]
    BY DEF HandleEvent, LoseEvent
  <1>2. handlers[h] \in HandlerType
    BY <1>0 DEF TypeOK
  <1>3. /\ r.stopped = handlers[h].stopped /\ r.interrupted = handlers[h].interrupted
        /\ r.parallel = handlers[h].parallel /\ r.phase = handlers[h].phase
        /\ r.set = handlers[h].set /\ r.flag = handlers[h].flag
        /\ r.sets = handlers[h].sets /\ r.should = handlers[h].should
        /\ r.later = handlers[h].later /\ r.stale = handlers[h].stale
        /\ r.events = handlers[h].events \ {o}
    BY <1>2 DEF HandlerType
  <1>. HIDE DEF r
  <1>4. handlers'[h] = r /\ OnlyChanged(h)
    BY <1>0, <1>1, OneChanges
  <1>. QED  BY <1>0, <1>3, <1>4 DEF SameHandler, SameStop, SameResults, SameSweep

LEMMA ChangeFrame ==
  ASSUME TypeOK, NEW o \in Object, Change(o), NEW h \in Built
  PROVE  /\ h \in Handler /\ SameStop(h) /\ SameResults(h)
         /\ handlers'[h].stale = handlers[h].stale
         /\ handlers[h].phase[KindOf[o]] = "absent" =>
              SameEvents(h) /\ handlers'[h].later = handlers[h].later
         /\ handlers[h].phase[KindOf[o]] # "absent" =>
              /\ handlers'[h].events = IF handlers[h].stopped THEN handlers[h].events
                                       ELSE handlers[h].events \cup {o}
              /\ handlers'[h].later = IF handlers[h].phase[KindOf[o]] = "waiting"
                                      THEN handlers[h].later
                                      ELSE handlers[h].later \cup {o}
  <1>. DEFINE events == IF handlers[h].stopped THEN handlers[h].events
                          ELSE handlers[h].events \cup {o}
              later  == IF handlers[h].phase[KindOf[o]] = "waiting"
                          THEN handlers[h].later ELSE handlers[h].later \cup {o}
              r      == [handlers[h] EXCEPT !.events = events, !.later = later]
  <1>0. h \in Handler
    BY CallLimit DEF TypeOK, Built, Handler
  <1>1. handlers'[h] = IF handlers[h].phase[KindOf[o]] = "absent" THEN handlers[h] ELSE r
    BY <1>0 DEF Change
  <1>2. handlers[h] \in HandlerType
    BY <1>0 DEF TypeOK
  <1>. HIDE DEF events, later
  <1>3. /\ r.stopped = handlers[h].stopped /\ r.interrupted = handlers[h].interrupted
        /\ r.parallel = handlers[h].parallel /\ r.phase = handlers[h].phase
        /\ r.set = handlers[h].set /\ r.flag = handlers[h].flag
        /\ r.sets = handlers[h].sets /\ r.should = handlers[h].should
        /\ r.stale = handlers[h].stale /\ r.events = events /\ r.later = later
    BY <1>2 DEF HandlerType
  <1>. HIDE DEF r
  <1>. QED  BY <1>0, <1>1, <1>3 DEF SameStop, SameResults, SameEvents, events, later

\* The close of the channel.
LEMMA CloseFrame ==
  ASSUME TypeOK, NEW h \in Handler,
         \/ handlers' = [handlers EXCEPT ![h] = Stopped(h)]
         \/ handlers' = [handlers EXCEPT ![h] = [Stopped(h) EXCEPT !.isStopped = TRUE]]
  PROVE  /\ OnlyChanged(h) /\ SameResults(h) /\ SameSweep(h) /\ SameEvents(h)
         /\ handlers'[h].stopped /\ handlers'[h].interrupted = ~Merged(h)
  <1>. DEFINE F == Watched(h) I == ~Merged(h)
  <1>1. Stopped(h) = [handlers[h] EXCEPT !.stopped = TRUE, !.frozen = F, !.interrupted = I]
    BY DEF Stopped
  <1>2. handlers[h] \in HandlerType
    BY DEF TypeOK
  <1>. HIDE DEF F, I
  <1>. DEFINE r == [handlers[h] EXCEPT !.stopped = TRUE, !.frozen = F, !.interrupted = I]
              s == [handlers[h] EXCEPT !.stopped = TRUE, !.frozen = F, !.interrupted = I,
                                       !.isStopped = TRUE]
              Closes(x) ==
                /\ x.stopped /\ x.interrupted = I
                /\ x.parallel = handlers[h].parallel /\ x.phase = handlers[h].phase
                /\ x.set = handlers[h].set /\ x.flag = handlers[h].flag
                /\ x.sets = handlers[h].sets /\ x.should = handlers[h].should
                /\ x.stale = handlers[h].stale /\ x.later = handlers[h].later
                /\ x.events = handlers[h].events
  <1>3. Closes(r) /\ Closes(s)
    BY <1>2 DEF HandlerType
  <1>4. [Stopped(h) EXCEPT !.isStopped = TRUE] = s
    BY <1>1, <1>2 DEF HandlerType
  <1>. HIDE DEF r, s
  <1>5. PICK x \in {r, s} : handlers' = [handlers EXCEPT ![h] = x]
    BY <1>1, <1>4 DEF r
  <1>6. handlers'[h] = x /\ OnlyChanged(h)
    BY <1>5, OneChanges
  <1>. QED  BY <1>3, <1>5, <1>6 DEF SameResults, SameSweep, SameEvents, I

\* A handler that is published keeps its phases, its events and its channel.
LEMMA PublishFrame ==
  ASSUME TypeOK, NEW c \in Caller, Publish(c)
  PROVE  LET h == mine[c] IN
         /\ OnlyChanged(h)
         /\ h \in Handler =>
              /\ handlers'[h].phase = handlers[h].phase /\ SameEvents(h)
              /\ handlers'[h].stopped = handlers[h].stopped
              /\ ~handlers'[h].interrupted /\ handlers'[h].stale = {}
              /\ handlers'[h].sets = {} /\ \A k \in Kind : handlers'[h].set[k] = {}
  <1>. DEFINE h == mine[c]
              r == [NewHandler({}, FALSE) EXCEPT
                      !.stopped = handlers[h].stopped, !.isStopped = handlers[h].isStopped,
                      !.phase = handlers[h].phase, !.events = handlers[h].events,
                      !.frozen = handlers[h].frozen]
  <1>1. handlers' = [x \in Handler |-> IF x # h THEN handlers[x] ELSE r]
    BY DEF Publish
  <1>2. /\ r.phase = handlers[h].phase /\ r.events = handlers[h].events
        /\ r.stopped = handlers[h].stopped
        /\ ~r.interrupted /\ r.stale = {} /\ r.sets = {} /\ \A k \in Kind : r.set[k] = {}
    BY DEF NewHandler
  <1>. HIDE DEF r
  <1>. QED  BY <1>1, <1>2 DEF OnlyChanged, SameEvents

\* A handler that is built has done nothing.
LEMMA BuildFrame ==
  ASSUME TypeOK, NEW c \in Caller, Build(c)
  PROVE  LET h == built + 1 IN
         /\ h \in Handler /\ h \notin Built /\ OnlyChanged(h)
         /\ Built' = Built \cup {h} /\ Built \subseteq Handler
         /\ ~handlers'[h].interrupted /\ ~handlers'[h].stopped
         /\ handlers'[h].stale = {} /\ handlers'[h].sets = {} /\ handlers'[h].events = {}
         /\ \A k \in Kind : /\ handlers'[h].phase[k] \in {"absent", "waiting"}
                            /\ handlers'[h].set[k] = {}
  <1>. DEFINE h == built + 1
  <1>1. PICK kinds \in SUBSET Kind, parallel \in BOOLEAN :
          handlers' = [handlers EXCEPT ![h] = NewHandler(kinds, parallel)]
    BY DEF Build
  <1>. DEFINE r == NewHandler(kinds, parallel)
  <1>2. /\ ~r.interrupted /\ ~r.stopped
        /\ r.stale = {} /\ r.sets = {} /\ r.events = {}
        /\ \A k \in Kind : r.phase[k] \in {"absent", "waiting"} /\ r.set[k] = {}
    BY DEF NewHandler
  <1>. HIDE DEF r
  <1>3. h \in Handler /\ built' = h /\ built \in Nat
    BY DEF Build, TypeOK
  <1>4. handlers'[h] = r /\ OnlyChanged(h)
    BY <1>1, <1>3, OneChanges DEF r
  <1>5. h \notin Built /\ Built' = Built \cup {h} /\ Built \subseteq Handler
    BY <1>3, CallLimit DEF Built, Handler
  <1>. QED  BY <1>2, <1>3, <1>4, <1>5

-----------------------------------------------------------------------------
(* What the deletion takes for stale.                                        *)

Syncing(h)   == \E c \in Caller : mine[c] = h /\ pc[c] = "sync"
Unordered(h) == handlers[h].parallel \/ handlers[h].interrupted

\* The object o was found by a sync that allows the deletion, or changed after it.
SeenBy(h, o) ==
  /\ handlers[h].phase[KindOf[o]] = "synced" /\ handlers[h].flag[KindOf[o]] =>
       o \in handlers[h].set[KindOf[o]] \cup handlers[h].later
  /\ handlers[h].phase[KindOf[o]] = "merged" /\ handlers[h].should =>
       o \in handlers[h].sets \cup handlers[h].later

\* A handler belongs to one call until it is published.
OwnHandler == \A c \in Caller :
  /\ mine[c] \in Built \cup {Nil}
  /\ mine[c] # Nil => \A d \in Caller : mine[d] = mine[c] => d = c

\* Nothing is stale before the last merge, and until then a stop interrupts the syncs;
\* what they have merged is complete, if they were neither parallel nor interrupted.
SweepOk(h) ==
  /\ handlers[h].interrupted => handlers[h].stopped
  /\ handlers[h].stale # {} => Merged(h)
  /\ Unordered(h) \/ handlers[h].stale \cap Watched(h) \subseteq handlers[h].later
  /\ Syncing(h) => /\ handlers[h].stopped /\ ~Merged(h) => handlers[h].interrupted
                   /\ Unordered(h) \/ \A o \in cluster : SeenBy(h, o)

StaleInv ==
  /\ TypeOK /\ HasHandler
  /\ OwnHandler
  /\ \A h \in Built : SweepOk(h)

\* The invariant says more than that only objects with later changes are taken for stale.
LEMMA StaleInvImplies == StaleInv => StaleUnlessLater
  BY DEF StaleInv, SweepOk, Unordered, StaleUnlessLater

\* Nothing is built before the first call.
LEMMA StaleInit == Init => StaleInv
  <1>. SUFFICES ASSUME Init PROVE StaleInv
    OBVIOUS
  <1>1. TypeOK /\ HasHandler
    BY TypeInit
  <1>2. Built = {} /\ \A c \in Caller : mine[c] = Nil
    BY DEF Init, Built, NoCalls
  <1>. QED  BY <1>1, <1>2 DEF StaleInv, OwnHandler

\* The calls keep their handlers, or give them up.
LEMMA OwnKept ==
  ASSUME OwnHandler, UNCHANGED built, \A c \in Caller : mine'[c] \in {mine[c], Nil}
  PROVE  OwnHandler'
  BY DEF OwnHandler, Built

\* A step that does not touch the cluster or what a handler has collected.
LEMMA SweepKept ==
  ASSUME TypeOK, NEW h \in Handler, SweepOk(h), UNCHANGED cluster, SameHandler(h),
         handlers'[h].stale \subseteq handlers[h].stale, Syncing(h)' => Syncing(h)
  PROVE  SweepOk(h)'
  <1>1. (Merged(h) <=> Merged(h)') /\ Watched(h)' = Watched(h)
    BY DEF Merged, Watched, SameHandler, SameResults
  <1>2. \A o \in cluster : SeenBy(h, o) => SeenBy(h, o)'
    BY DEF SeenBy, SameHandler, SameResults
  <1>3. Unordered(h) <=> Unordered(h)'
    BY DEF Unordered, SameHandler, SameStop, SameResults
  <1>4. /\ handlers'[h].stopped = handlers[h].stopped
        /\ handlers'[h].interrupted = handlers[h].interrupted
        /\ handlers'[h].later = handlers[h].later
    BY DEF SameHandler, SameStop
  <1>. HIDE DEF Merged, Watched, SeenBy, Unordered, Syncing
  <1>5. Syncing(h)' => /\ handlers'[h].stopped /\ ~Merged(h)' => handlers'[h].interrupted
                       /\ Unordered(h)' \/ \A o \in cluster' : SeenBy(h, o)'
    BY <1>1, <1>2, <1>3, <1>4 DEF SweepOk
  <1>6. Unordered(h)' \/ handlers'[h].stale \cap Watched(h)' \subseteq handlers'[h].later
    BY <1>1, <1>3, <1>4 DEF SweepOk
  <1>. QED  BY <1>1, <1>4, <1>5, <1>6 DEF SweepOk

LEMMA UntouchedSweeps ==
  ASSUME TypeOK, NEW h \in Handler, SweepOk(h), UNCHANGED cluster,
         handlers'[h] = handlers[h], Syncing(h)' => Syncing(h)
  PROVE  SweepOk(h)'
  <1>1. SameHandler(h) /\ handlers'[h].stale \subseteq handlers[h].stale
    BY DEF SameHandler, SameStop, SameResults
  <1>. QED  BY <1>1, SweepKept

\* A sync finds all that its kind has in the cluster, if it is not stopped.
LEMMA SyncSweeps ==
  ASSUME TypeOK, HasHandler, NEW c \in Caller, NEW k \in Kind, SyncKind(c, k),
         NEW h, h = mine[c], SweepOk(h)
  PROVE  SweepOk(h)'
  <1>. DEFINE found == {o \in CacheOf(h) : KindOf[o] = k}
  <1>1. /\ h \in Handler /\ SameStop(h) /\ SameSweep(h)
        /\ handlers'[h].parallel = handlers[h].parallel
        /\ handlers'[h].sets = handlers[h].sets /\ handlers'[h].should = handlers[h].should
        /\ handlers[h].phase[k] = "waiting"
        /\ \A j \in Kind : handlers'[h].phase[j] = IF j = k THEN "synced"
                                                    ELSE handlers[h].phase[j]
    BY SyncFrame
  <1>2. PICK written \in SUBSET found, allows \in BOOLEAN :
          /\ allows => written = found \/ handlers[h].stopped
          /\ \A j \in Kind :
               /\ handlers'[h].set[j] = IF j = k THEN written ELSE handlers[h].set[j]
               /\ handlers'[h].flag[j] = IF j = k THEN allows ELSE handlers[h].flag[j]
    BY SyncFrame
  <1>3. Syncing(h) /\ mine' = mine /\ UNCHANGED cluster
    BY DEF SyncKind, InSync, Syncing, callVars, clusterVars
  <1>4. ~Merged(h)
    BY <1>1 DEF Merged
  <1>5. handlers[h].stale = {} /\ (handlers[h].stopped => handlers[h].interrupted)
    BY <1>3, <1>4 DEF SweepOk
  <1>6. handlers[h].interrupted => handlers[h].stopped
    BY DEF SweepOk
  <1>7. ASSUME ~Unordered(h), NEW o \in cluster PROVE SeenBy(h, o)'
    <2>1. ~handlers[h].stopped /\ SeenBy(h, o)
      BY <1>3, <1>5, <1>7 DEF SweepOk, Unordered
    <2>2. KindOf[o] \in Kind /\ o \in Object
      BY KindOfObjects DEF TypeOK
    <2>3. KindOf[o] = k /\ allows => o \in written
      BY <1>2, <2>1 DEF CacheOf
    <2>4. KindOf[o] = k => SeenBy(h, o)'
      BY <1>1, <1>2, <1>3, <2>2, <2>3 DEF SeenBy
    <2>5. KindOf[o] # k => SeenBy(h, o)'
      BY <1>1, <1>2, <1>3, <2>1, <2>2 DEF SeenBy, SameSweep
    <2>. QED  BY <2>4, <2>5
  <1>8. Unordered(h)' <=> Unordered(h)
    BY <1>1, <1>3 DEF Unordered, SameStop
  <1>. QED
    BY <1>1, <1>3, <1>5, <1>6, <1>7, <1>8 DEF SweepOk, SameStop, SameSweep

\* Merges one after the other add all to the set and forbid the deletion for all.
LEMMA MergeSweeps ==
  ASSUME TypeOK, HasHandler, NEW c \in Caller, NEW k \in Kind, Merge(c, k),
         NEW h, h = mine[c], SweepOk(h)
  PROVE  SweepOk(h)'
  <1>0. MergedInto(h, k)
    BY MergeFrame
  <1>. USE DEF MergedInto
  <1>1. h \in Handler
    BY <1>0
  <1>2. Syncing(h) /\ mine' = mine /\ UNCHANGED cluster
    BY DEF Merge, InSync, Syncing, callVars, clusterVars
  <1>3. ~Merged(h)
    BY <1>0, <1>1 DEF Merged
  <1>4. handlers[h].stale = {} /\ (handlers[h].stopped => handlers[h].interrupted)
    BY <1>2, <1>3 DEF SweepOk
  <1>5. handlers[h].interrupted => handlers[h].stopped
    BY DEF SweepOk
  <1>6. ASSUME ~Unordered(h), NEW o \in cluster PROVE SeenBy(h, o)'
    <2>1. ~handlers[h].parallel /\ SeenBy(h, o)
      BY <1>2, <1>6 DEF SweepOk, Unordered
    <2>2. KindOf[o] \in Kind /\ o \in Object
      BY KindOfObjects DEF TypeOK
    <2>3. KindOf[o] = k => SeenBy(h, o)'
      BY <1>0, <1>1, <1>2, <2>1, <2>2 DEF SeenBy, SameSweep
    <2>4. KindOf[o] # k => SeenBy(h, o)'
      BY <1>0, <1>1, <1>2, <2>1, <2>2 DEF SeenBy, SameSweep
    <2>. QED  BY <2>3, <2>4
  <1>7. Unordered(h)' <=> Unordered(h)
    BY <1>0, <1>1, <1>2 DEF Unordered, SameStop
  <1>. QED
    BY <1>0, <1>1, <1>2, <1>4, <1>5, <1>6, <1>7 DEF SweepOk, SameStop, SameSweep

\* The search follows the last merge.
LEMMA SearchSweeps ==
  ASSUME TypeOK, HasHandler, NEW c \in Caller, Search(c),
         NEW h, h = mine[c], SweepOk(h), Syncing(h)' => Syncing(h)
  PROVE  SweepOk(h)'
  <1>1. /\ h \in Handler /\ SameHandler(h)
        /\ handlers'[h].stale = port \ handlers[h].sets
    BY SearchFrame
  <1>2. Syncing(h) /\ mine' = mine /\ UNCHANGED cluster /\ Merged(h) /\ handlers[h].should
    BY DEF Search, InSync, Syncing, clusterVars
  <1>3. Merged(h)' /\ Watched(h)' = Watched(h)
    BY <1>1, <1>2 DEF Merged, Watched, SameHandler, SameResults
  <1>4. ASSUME ~Unordered(h), NEW o \in handlers'[h].stale \cap Watched(h)
        PROVE  o \in handlers[h].later
    <2>1. o \in cluster /\ handlers[h].phase[KindOf[o]] = "merged"
      BY <1>2, <1>4, KindOfObjects DEF Merged, Watched, TypeOK
    <2>2. SeenBy(h, o)
      BY <1>2, <1>4, <2>1 DEF SweepOk
    <2>. QED  BY <1>1, <1>2, <1>4, <2>1, <2>2 DEF SeenBy
  <1>5. Unordered(h)' <=> Unordered(h)
    BY <1>1, <1>2 DEF Unordered, SameHandler, SameStop, SameResults
  <1>6. \A o \in cluster : SeenBy(h, o) => SeenBy(h, o)'
    BY <1>1, <1>2 DEF SeenBy, SameHandler, SameResults
  <1>7. Syncing(h) /\ handlers[h].stopped /\ ~Merged(h) => handlers[h].interrupted
    BY DEF SweepOk
  <1>. QED
    BY <1>1, <1>2, <1>3, <1>4, <1>5, <1>6, <1>7 DEF SweepOk, SameHandler, SameStop

\* A stop interrupts the syncs that are left.
LEMMA CloseSweeps ==
  ASSUME TypeOK, NEW h \in Handler, SweepOk(h), ~handlers[h].stopped, UNCHANGED cluster,
         \/ handlers' = [handlers EXCEPT ![h] = Stopped(h)]
         \/ handlers' = [handlers EXCEPT ![h] = [Stopped(h) EXCEPT !.isStopped = TRUE]],
         Syncing(h)' => Syncing(h)
  PROVE  OnlyChanged(h) /\ SweepOk(h)'
  <1>1. /\ OnlyChanged(h) /\ SameResults(h) /\ SameSweep(h)
        /\ handlers'[h].stopped /\ handlers'[h].interrupted = ~Merged(h)
    BY CloseFrame
  <1>2. (Merged(h) <=> Merged(h)') /\ Watched(h)' = Watched(h)
    BY <1>1 DEF Merged, Watched, SameResults
  <1>3. \A o \in cluster : SeenBy(h, o) => SeenBy(h, o)'
    BY <1>1 DEF SeenBy, SameResults, SameSweep
  <1>4. Unordered(h) => handlers[h].parallel
    BY DEF SweepOk, Unordered
  <1>5. handlers[h].parallel => Unordered(h)'
    BY <1>1 DEF Unordered, SameResults
  <1>. HIDE DEF Merged, Watched, SeenBy, Unordered, Syncing
  <1>6. Syncing(h)' => /\ handlers'[h].stopped /\ ~Merged(h)' => handlers'[h].interrupted
                       /\ Unordered(h)' \/ \A o \in cluster' : SeenBy(h, o)'
    BY <1>1, <1>2, <1>3, <1>4, <1>5 DEF SweepOk
  <1>7. Unordered(h)' \/ handlers'[h].stale \cap Watched(h)' \subseteq handlers'[h].later
    BY <1>1, <1>2, <1>4, <1>5 DEF SweepOk, SameSweep
  <1>8. handlers'[h].stale # {} => Merged(h)'
    BY <1>1, <1>2 DEF SweepOk, SameSweep
  <1>. QED  BY <1>1, <1>6, <1>7, <1>8 DEF SweepOk

\* A change after the sync of its kind is a later one.
LEMMA ChangeSweeps ==
  ASSUME TypeOK, NEW o \in Object, Change(o), NEW h \in Built, SweepOk(h)
  PROVE  SweepOk(h)'
  <1>1. /\ h \in Handler /\ SameStop(h) /\ SameResults(h)
        /\ handlers'[h].stale = handlers[h].stale
        /\ handlers[h].phase[KindOf[o]] = "absent" => handlers'[h].later = handlers[h].later
        /\ handlers[h].phase[KindOf[o]] # "absent" =>
             handlers'[h].later = IF handlers[h].phase[KindOf[o]] = "waiting"
                                  THEN handlers[h].later ELSE handlers[h].later \cup {o}
    BY ChangeFrame
  <1>2. /\ cluster' \subseteq cluster \cup {o} /\ cluster' \subseteq Object
        /\ KindOf[o] \in Kind /\ (Syncing(h)' => Syncing(h))
    BY KindOfObjects DEF Change, TypeOK, Syncing, callVars
  <1>3. Merged(h) <=> Merged(h)'
    BY <1>1 DEF Merged, SameResults
  <1>4. Unordered(h) <=> Unordered(h)'
    BY <1>1 DEF Unordered, SameStop, SameResults
  <1>5. handlers[h].later \subseteq handlers'[h].later
    BY <1>1
  <1>6. ASSUME NEW x \in cluster', x \in cluster => SeenBy(h, x) PROVE SeenBy(h, x)'
    <2>1. CASE x = o
      BY <1>1, <2>1 DEF SeenBy, SameResults
    <2>2. CASE x # o
      BY <1>1, <1>2, <1>5, <1>6, <2>2 DEF SeenBy, SameResults
    <2>. QED  BY <2>1, <2>2
  <1>7. ASSUME NEW x \in handlers'[h].stale \cap Watched(h)', ~Unordered(h)
        PROVE  x \in handlers'[h].later
    <2>1. x \in cluster' /\ handlers[h].phase[KindOf[x]] # "absent" /\ Merged(h)
          /\ x \in handlers[h].stale
      BY <1>1, <1>7 DEF Watched, SameResults, SweepOk
    <2>2. CASE x = o
      BY <1>1, <1>2, <2>1, <2>2 DEF Merged
    <2>3. CASE x # o
      BY <1>2, <1>5, <1>7, <2>1, <2>3 DEF SweepOk, Watched
    <2>. QED  BY <2>2, <2>3
  <1>. HIDE DEF Merged, Watched, SeenBy, Unordered, Syncing
  <1>8. Syncing(h)' => /\ handlers'[h].stopped /\ ~Merged(h)' => handlers'[h].interrupted
                       /\ Unordered(h)' \/ \A x \in cluster' : SeenBy(h, x)'
    BY <1>1, <1>2, <1>3, <1>4, <1>6 DEF SweepOk, SameStop
  <1>. QED  BY <1>1, <1>3, <1>4, <1>7, <1>8 DEF SweepOk, SameStop

\* A published handler has nothing left to delete, and belongs to no call.
LEMMA PublishSweeps ==
  ASSUME TypeOK, OwnHandler, NEW c \in Caller, Publish(c),
         NEW h \in Handler, h = mine[c], SweepOk(h)
  PROVE  SweepOk(h)'
  <1>1. ~handlers'[h].interrupted /\ handlers'[h].stale = {}
    BY PublishFrame
  <1>2. mine' = [mine EXCEPT ![c] = Nil] /\ pc' = [pc EXCEPT ![c] = "idle"]
    BY DEF Publish
  <1>3. h # Nil /\ \A d \in Caller : mine[d] = h => d = c
    BY DEF OwnHandler, Handler, Nil
  <1>4. ~Syncing(h)'
    BY <1>2, <1>3 DEF Syncing, TypeOK
  <1>. QED  BY <1>1, <1>4 DEF SweepOk

\* A handler that is built has merged nothing.
LEMMA BuildSweeps ==
  ASSUME TypeOK, NEW c \in Caller, Build(c), NEW h, h = built + 1
  PROVE  SweepOk(h)'
  <1>1. /\ ~handlers'[h].interrupted /\ ~handlers'[h].stopped /\ handlers'[h].stale = {}
        /\ \A k \in Kind : handlers'[h].phase[k] \in {"absent", "waiting"}
    BY BuildFrame
  <1>2. \A o \in cluster' : SeenBy(h, o)'
    BY <1>1, KindOfObjects DEF SeenBy, Build, clusterVars, TypeOK
  <1>. QED  BY <1>1, <1>2 DEF SweepOk

SweepNext == OwnHandler' /\ \A h \in Built' : SweepOk(h)'

\* What is left of a process that ends.
LEMMA EndsSweeps == ASSUME NEW how, Ends(how) PROVE SweepNext
  <1>1. Built' = {} /\ \A c \in Caller : mine'[c] = Nil
    BY DEF Ends, Built, NoCalls
  <1>. QED  BY <1>1 DEF SweepNext, OwnHandler

\* A caller starts to sync only with the handler it builds.
LEMMA NoNewSync ==
  ASSUME \A d \in Caller : pc'[d] = "sync" => pc[d] = "sync" /\ mine'[d] = mine[d]
  PROVE  \A h : Syncing(h)' => Syncing(h)
  BY DEF Syncing

\* One handler changes.
LEMMA OneSweeps ==
  ASSUME StaleInv, UNCHANGED <<cluster, built>>, NEW h, OnlyChanged(h),
         h \in Built => SweepOk(h)',
         \A c \in Caller : mine'[c] \in {mine[c], Nil},
         \A x : Syncing(x)' => Syncing(x)
  PROVE  SweepNext
  <1>1. OwnHandler' /\ Built' = Built /\ Built \subseteq Handler
    BY OwnKept, CallLimit DEF StaleInv, Built, TypeOK, Handler
  <1>2. ASSUME NEW x \in Built PROVE SweepOk(x)'
    <2>1. CASE x = h
      BY <1>2, <2>1
    <2>2. CASE x # h
      <3>1. handlers'[x] = handlers[x] /\ x \in Handler
        BY <1>1, <1>2, <2>2 DEF OnlyChanged
      <3>. QED  BY <1>2, <3>1, UntouchedSweeps DEF StaleInv
    <2>. QED  BY <2>1, <2>2
  <1>. QED  BY <1>1, <1>2 DEF SweepNext

\* None does.
LEMMA NoneSweeps ==
  ASSUME StaleInv, UNCHANGED <<cluster, built, handlers>>,
         \A c \in Caller : mine'[c] \in {mine[c], Nil},
         \A x : Syncing(x)' => Syncing(x)
  PROVE  SweepNext
  <1>1. PICK h : h \notin Built
    BY NoSetContainsEverything
  <1>. QED  BY <1>1, OneSweeps DEF OnlyChanged

\* Every step of RunResync keeps the invariant.
LEMMA ResyncingSweeps ==
  ASSUME StaleInv, Resyncing PROVE SweepNext
  <1>0. /\ TypeOK /\ HasHandler /\ OwnHandler
        /\ Built \subseteq Handler /\ Nil \notin Handler /\ built \in Nat
    BY CallLimit DEF StaleInv, TypeOK, Built, Handler, Nil
  <1>1. ASSUME NEW c \in Caller, Call(c) \/ FetchFails(c) \/ Skip(c)
        PROVE  SweepNext
    <2>1. /\ \A d \in Caller : pc'[d] = "sync" => pc[d] = "sync" /\ mine'[d] = mine[d]
          /\ \A d \in Caller : mine'[d] \in {mine[d], Nil}
      BY <1>0, <1>1 DEF Call, FetchFails, Skip, TypeOK
    <2>2. UNCHANGED <<cluster, built, handlers>>
      BY <1>1 DEF Call, FetchFails, Skip, clusterVars
    <2>. QED  BY <2>1, <2>2, NoNewSync, NoneSweeps
  <1>2. ASSUME NEW c \in Caller, Stop(c) PROVE SweepNext
    <2>. DEFINE h == old[c]
    <2>1. CASE handlers[h].stopped
      BY <1>2, <2>1, EndsSweeps DEF Stop
    <2>2. CASE ~handlers[h].stopped
      <3>1. /\ handlers' = [handlers EXCEPT ![h] = [Stopped(h) EXCEPT !.isStopped = TRUE]]
            /\ pc' = [pc EXCEPT ![c] = "fetch"]
            /\ UNCHANGED <<mine, cluster, built>>
        BY <1>2, <2>2 DEF Stop, clusterVars
      <3>2. \A x : Syncing(x)' => Syncing(x)
        BY <1>0, <3>1, NoNewSync DEF TypeOK
      <3>3. CASE h \in Built
        <4>1. PICK x \in Built : x = h
          BY <3>3
        <4>2. SweepOk(x) /\ x \in Handler
          BY <1>0 DEF StaleInv
        <4>3. OnlyChanged(x) /\ SweepOk(x)'
          BY <1>0, <2>2, <3>1, <3>2, <4>1, <4>2, CloseSweeps
        <4>. QED  BY <3>1, <3>2, <4>1, <4>3, OneSweeps
      <3>4. CASE h \notin Built
        <4>1. OnlyChanged(h)
          BY <1>0, <3>1 DEF OnlyChanged, TypeOK
        <4>. QED  BY <3>1, <3>2, <3>4, <4>1, OneSweeps
      <3>. QED  BY <3>3, <3>4
    <2>. QED  BY <2>1, <2>2
  <1>3. ASSUME NEW c \in Caller, Build(c) PROVE SweepNext
    <2>1. PICK h : h = built + 1
      OBVIOUS
    <2>2. /\ h \in Handler /\ h \notin Built /\ OnlyChanged(h) /\ Built' = Built \cup {h}
      BY <1>0, <1>3, <2>1, BuildFrame
    <2>3. /\ pc' = [pc EXCEPT ![c] = "sync"] /\ mine' = [mine EXCEPT ![c] = h]
          /\ UNCHANGED cluster
      BY <1>3, <2>1 DEF Build, clusterVars
    <2>4. SweepOk(h)'
      BY <1>0, <1>3, <2>1, BuildSweeps
    <2>5. ASSUME NEW x \in Built PROVE SweepOk(x)'
      <3>1. handlers'[x] = handlers[x] /\ x # h
        BY <1>0, <2>2 DEF OnlyChanged
      <3>2. Syncing(x)' => Syncing(x)
        BY <1>0, <2>3, <3>1 DEF Syncing, TypeOK
      <3>. QED  BY <1>0, <2>3, <3>1, <3>2, UntouchedSweeps DEF StaleInv
    <2>6. OwnHandler'
      BY <1>0, <2>2, <2>3 DEF OwnHandler, TypeOK
    <2>. QED  BY <2>2, <2>4, <2>5, <2>6 DEF SweepNext
  <1>4. ASSUME NEW c \in Caller, Publish(c) PROVE SweepNext
    <2>1. PICK h : h = mine[c]
      OBVIOUS
    <2>2. OnlyChanged(h)
      BY <1>0, <1>4, <2>1, PublishFrame
    <2>3. /\ \A d \in Caller : pc'[d] = "sync" => pc[d] = "sync" /\ mine'[d] = mine[d]
          /\ \A d \in Caller : mine'[d] \in {mine[d], Nil}
          /\ UNCHANGED <<cluster, built>>
      BY <1>0, <1>4 DEF Publish, TypeOK, clusterVars
    <2>4. h \in Built => SweepOk(h)'
      BY <1>0, <1>4, <2>1, PublishSweeps DEF StaleInv
    <2>. QED  BY <2>2, <2>3, <2>4, NoNewSync, OneSweeps
  <1>5. ASSUME NEW c \in Caller,
               \/ Search(c) \/ Cancel(c) \/ Deleted(c)
               \/ (\E o \in Object : DeleteStale(c, o))
               \/ (\E k \in Kind : SyncKind(c, k) \/ Merge(c, k))
        PROVE  SweepNext
    <2>1. PICK h : h = mine[c]
      OBVIOUS
    <2>2. /\ \A d \in Caller : pc'[d] = "sync" => pc[d] = "sync" /\ mine'[d] = mine[d]
          /\ \A d \in Caller : mine'[d] \in {mine[d], Nil}
          /\ UNCHANGED <<cluster, built>>
      BY <1>0, <1>5
         DEF Search, Cancel, Deleted, DeleteStale, SyncKind, Merge, TypeOK, callVars, clusterVars
    <2>3. \A x : Syncing(x)' => Syncing(x)
      BY <2>2, NoNewSync
    <2>4. h \in Handler
      BY <1>0, <1>5, <2>1
         DEF HasHandler, InSync, Search, Cancel, Deleted, DeleteStale, SyncKind, Merge
    <2>5. h \in Built /\ SweepOk(h)
      BY <1>0, <2>1, <2>4 DEF OwnHandler, StaleInv
    <2>6. OnlyChanged(h) /\ SweepOk(h)'
      <3>1. CASE Search(c)
        BY <1>0, <2>1, <2>3, <2>5, <3>1, SearchFrame, SearchSweeps
      <3>2. CASE Cancel(c)
        <4>1. OnlyChanged(h) /\ SameHandler(h) /\ handlers'[h].stale \subseteq handlers[h].stale
          BY <1>0, <2>1, <3>2, CancelFrame
        <4>. QED  BY <1>0, <2>2, <2>3, <2>4, <2>5, <4>1, SweepKept
      <3>3. CASE Deleted(c)
        <4>1. OnlyChanged(h) /\ SameHandler(h) /\ handlers'[h].stale \subseteq handlers[h].stale
          BY <1>0, <2>1, <3>3, DeletedFrame
        <4>. QED  BY <1>0, <2>2, <2>3, <2>4, <2>5, <4>1, SweepKept
      <3>4. ASSUME NEW o \in Object, DeleteStale(c, o) PROVE OnlyChanged(h) /\ SweepOk(h)'
        <4>1. OnlyChanged(h) /\ SameHandler(h) /\ handlers'[h].stale \subseteq handlers[h].stale
          BY <1>0, <2>1, <3>4, DeleteStaleFrame
        <4>. QED  BY <1>0, <2>2, <2>3, <2>4, <2>5, <4>1, SweepKept
      <3>5. ASSUME NEW k \in Kind, SyncKind(c, k) PROVE OnlyChanged(h) /\ SweepOk(h)'
        BY <1>0, <2>1, <2>5, <3>5, SyncFrame, SyncSweeps
      <3>6. ASSUME NEW k \in Kind, Merge(c, k) PROVE OnlyChanged(h) /\ SweepOk(h)'
        <4>1. MergedInto(mine[c], k)
          BY <1>0, <3>6, MergeFrame
        <4>2. OnlyChanged(h)
          BY <2>1, <4>1 DEF MergedInto
        <4>. QED  BY <1>0, <2>1, <2>5, <3>6, <4>2, MergeSweeps
      <3>. QED  BY <1>5, <3>1, <3>2, <3>3, <3>4, <3>5, <3>6
    <2>. QED  BY <2>2, <2>3, <2>6, OneSweeps
  <1>. QED  BY <1>1, <1>2, <1>3, <1>4, <1>5 DEF Resyncing

\* So does every event, change and signal.
LEMMA OtherSweeps ==
  ASSUME StaleInv, Watching \/ Signalling PROVE SweepNext
  <1>0. TypeOK /\ Built \subseteq Handler
    BY CallLimit DEF StaleInv, TypeOK, Built, Handler
  <1>1. ASSUME NEW h \in Built, NEW o \in Object, HandleEvent(h, o) \/ LoseEvent(h, o)
        PROVE  SweepNext
    <2>1. OnlyChanged(h) /\ SameHandler(h) /\ SameSweep(h) /\ h \in Handler
      BY <1>0, <1>1, EventFrame
    <2>2. UNCHANGED <<cluster, built, mine, pc>>
      BY <1>1 DEF HandleEvent, LoseEvent, clusterVars, callVars
    <2>3. \A x : Syncing(x)' => Syncing(x)
      BY <2>2 DEF Syncing
    <2>4. SweepOk(h)'
      BY <1>0, <2>1, <2>2, <2>3, SweepKept DEF StaleInv, SameSweep
    <2>. QED  BY <2>1, <2>2, <2>3, <2>4, OneSweeps
  <1>2. ASSUME NEW o \in Object, Change(o) PROVE SweepNext
    <2>1. UNCHANGED <<built, mine>>
      BY <1>2 DEF Change, callVars
    <2>2. OwnHandler' /\ Built' = Built
      BY <2>1, OwnKept DEF StaleInv, Built
    <2>. QED  BY <1>0, <1>2, <2>2, ChangeSweeps DEF SweepNext, StaleInv
  <1>3. ASSUME NEW h \in Built, FirstSignal(h) PROVE SweepNext
    <2>1. CASE handlers[h].stopped
      BY <1>3, <2>1, EndsSweeps DEF FirstSignal
    <2>2. CASE ~handlers[h].stopped
      <3>1. /\ handlers' = [handlers EXCEPT ![h] = Stopped(h)]
            /\ UNCHANGED <<pc, mine, cluster, built>>
        BY <1>3, <2>2 DEF FirstSignal, callVars, clusterVars
      <3>2. \A x : Syncing(x)' => Syncing(x)
        BY <3>1 DEF Syncing
      <3>3. OnlyChanged(h) /\ SweepOk(h)'
        BY <1>0, <2>2, <3>1, <3>2, CloseSweeps DEF StaleInv
      <3>. QED  BY <3>1, <3>2, <3>3, OneSweeps
    <2>. QED  BY <2>1, <2>2
  <1>4. ASSUME \/ Signal \/ Exit
               \/ \E h \in Built : SecondSignal(h) \/ SeeStop(h)
        PROVE  SweepNext
    <2>1. CASE \E how : Ends(how)
      BY <2>1, EndsSweeps
    <2>2. CASE UNCHANGED <<cluster, built, handlers, pc, mine>>
      <3>1. \A x : Syncing(x)' => Syncing(x)
        BY <2>2 DEF Syncing
      <3>. QED  BY <2>2, <3>1, NoneSweeps
    <2>. QED
      BY <1>4, <2>1, <2>2 DEF Signal, Exit, SecondSignal, SeeStop, callVars, clusterVars
  <1>. QED  BY <1>1, <1>2, <1>3, <1>4 DEF Watching, Signalling

LEMMA StaleStep == StaleInv /\ [Next]_vars => StaleInv'
  <1>. SUFFICES ASSUME StaleInv, [Next]_vars PROVE StaleInv'
    OBVIOUS
  <1>1. TypeOK' /\ HasHandler'
    BY TypeStep, HasHandlerStep DEF StaleInv
  <1>2. SweepNext
    <2>1. CASE Next
      BY <2>1, ResyncingSweeps, OtherSweeps DEF Next
    <2>2. CASE UNCHANGED vars
      <3>1. UNCHANGED <<cluster, built, handlers, pc, mine>>
        BY <2>2 DEF vars, callVars, clusterVars
      <3>2. \A x : Syncing(x)' => Syncing(x)
        BY <3>1 DEF Syncing
      <3>. QED  BY <3>1, <3>2, NoneSweeps
    <2>. QED  BY <2>1, <2>2
  <1>. QED  BY <1>1, <1>2 DEF SweepNext, StaleInv

\* However many callers resync: an entity that Handle's deletion takes for stale has no
\* object, or one that changed after its kind was listed, if the controllers of the
\* handler synced one after the other and none was stopped.
THEOREM StaleOnlyIfLater == Spec => []StaleUnlessLater
  BY StaleInit, StaleStep, StaleInvImplies, PTL DEF Spec

-----------------------------------------------------------------------------
(* What Port shows, for one caller of RunResync.                             *)

Excepted == swept \cup failed \cup late

Watches(h, o) == o \in cluster /\ handlers[h].phase[KindOf[o]] # "absent"

\* The call has yet to delete the entity: no sync has found it.
ToDelete(h, o) ==
  \/ pc[Listener] = "sync" /\ o \notin handlers[h].sets \cup handlers[h].set[KindOf[o]]
  \/ pc[Listener] = "delete" /\ o \in handlers[h].stale

\* The entity is as the handler h would have it, or h has still to see to that.
Faithful(h, o) ==
  \/ o \in Excepted \cup handlers[h].events
  \/ o \in port <=> Watches(h, o)
  \/ pc[Listener] = "sync" /\ handlers[h].phase[KindOf[o]] = "waiting"
  \/ o \in port /\ ~Watches(h, o) /\ ToDelete(h, o)

\* Events are of watched kinds, and results of the kinds that have synced.
ResultsOk(h) ==
  /\ \A o \in handlers[h].events : handlers[h].phase[KindOf[o]] # "absent"
  /\ \A o \in handlers[h].sets : handlers[h].phase[KindOf[o]] = "merged"
  /\ \A k \in Kind : \A o \in handlers[h].set[k] :
       KindOf[o] = k /\ handlers[h].phase[k] = "synced"

Deleting(h) == mine[Listener] = h /\ pc[Listener] \in {"delete", "publish"}

MirrorOk(h) ==
  /\ ResultsOk(h)
  /\ Deleting(h) => Merged(h)
  /\ ~handlers[h].stopped => \A o \in Object : Faithful(h, o)

\* One built handler runs at most, and that one answers for all objects.
MirrorInv == OneHandlerInv /\ \A h \in Built : MirrorOk(h)

\* When nothing is under way, nothing is left to see to.
LEMMA MirrorInvImplies == ASSUME MirrorInv PROVE MirrorsWhenQuiet
  <1>. SUFFICES ASSUME controllerHandler # Nil, \A c \in Caller : pc[c] = "idle",
                       ~handlers[controllerHandler].stopped,
                       \A x \in Built : handlers[x].events = {},
                       NEW o \in Object \ (swept \cup failed \cup late)
                PROVE  o \in port <=> o \in Watched(controllerHandler)
    BY DEF MirrorsWhenQuiet
  <1>1. controllerHandler \in Built /\ pc[Listener] = "idle"
    BY ListenerCalls DEF MirrorInv, OneHandlerInv
  <1>2. Faithful(controllerHandler, o)
    BY <1>1 DEF MirrorInv, MirrorOk
  <1>3. o \in port <=> Watches(controllerHandler, o)
    BY <1>1, <1>2 DEF Faithful, ToDelete, Excepted
  <1>. QED  BY <1>3 DEF Watches, Watched

\* No handler is built at first.
LEMMA MirrorInit == Init => MirrorInv
  BY OneHandlerInit DEF Init, MirrorInv, Built

\* An object whose entity and whose handler's view of it stay the same.
LEMMA FaithfulKept ==
  ASSUME NEW h, NEW o, Faithful(h, o),
         o \in Excepted \cup handlers[h].events =>
           o \in Excepted' \cup handlers'[h].events,
         handlers'[h].phase[KindOf[o]] = handlers[h].phase[KindOf[o]],
         o \in cluster' <=> o \in cluster, o \in port' <=> o \in port,
         pc'[Listener] = pc[Listener], ToDelete(h, o) => ToDelete(h, o)'
  PROVE  Faithful(h, o)'
  BY DEF Faithful, Watches

\* A stopped handler answers for nothing.
LEMMA StoppedMirrors ==
  ASSUME NEW h, MirrorOk(h), handlers'[h] = handlers[h], handlers[h].stopped,
         Deleting(h)' => Deleting(h)
  PROVE  MirrorOk(h)'
  BY DEF MirrorOk, ResultsOk, Merged

\* A handler that nothing touches answers for what it did.
LEMMA UntouchedMirrors ==
  ASSUME NEW h, MirrorOk(h), handlers'[h] = handlers[h],
         UNCHANGED <<pc, mine, cluster, port, swept, failed, late>>
  PROVE  MirrorOk(h)'
  <1>1. ResultsOk(h)' /\ (Deleting(h)' => Merged(h)')
    BY DEF MirrorOk, ResultsOk, Deleting, Merged
  <1>2. ASSUME ~handlers'[h].stopped, NEW o \in Object PROVE Faithful(h, o)'
    <2>1. Faithful(h, o)
      BY <1>2 DEF MirrorOk
    <2>. QED  BY <2>1, FaithfulKept DEF Excepted, ToDelete
  <1>. QED  BY <1>1, <1>2 DEF MirrorOk

\* At most one handler runs.
LEMMA OneRuns ==
  ASSUME OneHandlerInv, NEW h \in Built, NEW x \in Built, x # h, ~handlers[h].stopped
  PROVE  handlers[x].stopped
  <1>1. pc[Listener] \in CallerPlaces
    BY ListenerCalls DEF OneHandlerInv, TypeOK, CallerPlaces
  <1>. QED  BY <1>1 DEF OneHandlerInv, RunsByPlace, AloneRuns, CallerPlaces

\* The sync of a kind writes what it finds; what it does not find is left to delete.
LEMMA SyncMirrors ==
  ASSUME TypeOK, HasHandler, NEW k \in Kind, SyncKind(Listener, k),
         NEW h, h = mine[Listener], MirrorOk(h)
  PROVE  MirrorOk(h)'
  <1>. DEFINE found == {o \in CacheOf(h) : KindOf[o] = k}
  <1>0. Listener \in Caller
    BY ListenerCalls
  <1>1. /\ h \in Handler /\ SameStop(h) /\ SameSweep(h) /\ SameEvents(h)
        /\ handlers'[h].sets = handlers[h].sets
        /\ handlers[h].phase[k] = "waiting"
        /\ \A j \in Kind : handlers'[h].phase[j] = IF j = k THEN "synced"
                                                    ELSE handlers[h].phase[j]
    BY <1>0, SyncFrame
  <1>2. PICK written \in SUBSET found, allows \in BOOLEAN :
          /\ \A j \in Kind :
               handlers'[h].set[j] = IF j = k THEN written ELSE handlers[h].set[j]
          /\ port' = port \cup written /\ Account(h, written)
          /\ failed' = (failed \cup found) \ written
    BY <1>0, SyncFrame
  <1>3. /\ pc[Listener] = "sync" /\ pc' = pc /\ mine' = mine /\ UNCHANGED cluster
    BY DEF SyncKind, InSync, callVars, clusterVars
  <1>4. ResultsOk(h)
    BY DEF MirrorOk
  <1>5. \A o \in handlers[h].sets \cup handlers[h].events : KindOf[o] \in Kind
    BY <1>1, KindOfObjects, HandlerFields DEF TypeOK
  <1>6. ResultsOk(h)'
    <2>1. ASSUME NEW o \in handlers'[h].events
          PROVE  handlers'[h].phase[KindOf[o]] # "absent"
      BY <1>1, <1>4, <1>5, <2>1 DEF ResultsOk, SameEvents
    <2>2. ASSUME NEW o \in handlers'[h].sets
          PROVE  handlers'[h].phase[KindOf[o]] = "merged"
      BY <1>1, <1>4, <1>5, <2>2 DEF ResultsOk
    <2>3. ASSUME NEW j \in Kind, NEW o \in handlers'[h].set[j]
          PROVE  KindOf[o] = j /\ handlers'[h].phase[j] = "synced"
      BY <1>1, <1>2, <1>4, <2>3 DEF ResultsOk
    <2>. QED  BY <2>1, <2>2, <2>3 DEF ResultsOk
  <1>7. ~Deleting(h)'
    BY <1>3 DEF Deleting
  <1>8. ASSUME ~handlers'[h].stopped, NEW o \in Object PROVE Faithful(h, o)'
    <2>1. ~handlers[h].stopped /\ Faithful(h, o) /\ KindOf[o] \in Kind
      BY <1>1, <1>8, KindOfObjects DEF MirrorOk, SameStop
    <2>2. found = {x \in cluster : KindOf[x] = k}
      BY <2>1 DEF CacheOf
    <2>3. late' = late \ written /\ swept' = swept \ written
      BY <1>2, <2>1 DEF Account
    <2>4. CASE KindOf[o] = k
      <3>1. handlers'[h].phase[KindOf[o]] = "synced" /\ handlers'[h].set[KindOf[o]] = written
        BY <1>1, <1>2, <2>4
      <3>2. CASE o \in written
        BY <1>2, <1>3, <2>2, <3>1, <3>2 DEF Faithful, Watches
      <3>3. CASE o \in found \ written
        BY <1>2, <3>3 DEF Faithful, Excepted
      <3>4. CASE o \notin found
        <4>1. o \notin cluster' /\ o \notin written
          BY <1>2, <1>3, <2>2, <2>4, <3>4
        <4>2. o \notin handlers'[h].sets
          BY <1>1, <1>4, <2>4 DEF ResultsOk
        <4>. QED  BY <1>3, <3>1, <4>1, <4>2 DEF Faithful, Watches, ToDelete
      <3>. QED  BY <3>2, <3>3, <3>4
    <2>5. CASE KindOf[o] # k
      <3>1. /\ handlers'[h].phase[KindOf[o]] = handlers[h].phase[KindOf[o]]
            /\ handlers'[h].set[KindOf[o]] = handlers[h].set[KindOf[o]]
            /\ o \notin written
        BY <1>1, <1>2, <2>1, <2>2, <2>5
      <3>2. o \in Excepted => o \in Excepted'
        BY <1>2, <2>3, <3>1 DEF Excepted
      <3>3. o \in port' <=> o \in port
        BY <1>2, <3>1
      <3>4. ToDelete(h, o) => ToDelete(h, o)'
        BY <1>1, <1>3, <3>1 DEF ToDelete, SameSweep
      <3>. QED  BY <1>1, <1>3, <2>1, <3>1, <3>2, <3>3, <3>4, FaithfulKept DEF SameEvents
    <2>. QED  BY <2>4, <2>5
  <1>. QED  BY <1>6, <1>7, <1>8 DEF MirrorOk

\* A merge adds to what was found only the results of its kind.
LEMMA MergeMirrors ==
  ASSUME TypeOK, HasHandler, NEW c \in Caller, c = Listener, NEW k \in Kind, Merge(c, k),
         NEW h, h = mine[c], MirrorOk(h)
  PROVE  MirrorOk(h)'
  <1>0. MergedInto(h, k)
    BY MergeFrame
  <1>1. /\ h \in Handler /\ SameStop(h) /\ SameSweep(h) /\ SameEvents(h)
        /\ handlers[h].phase[k] = "synced"
        /\ \A j \in Kind :
             /\ handlers'[h].phase[j] = IF j = k THEN "merged" ELSE handlers[h].phase[j]
             /\ handlers'[h].set[j] = IF j = k THEN {} ELSE handlers[h].set[j]
        /\ handlers'[h].sets \subseteq handlers[h].set[k] \cup handlers[h].sets
    BY <1>0 DEF MergedInto
  <1>2. /\ pc[Listener] = "sync" /\ pc' = pc /\ mine' = mine
        /\ UNCHANGED <<cluster, port, swept, failed, late>>
    BY DEF Merge, InSync, callVars, clusterVars, historyVars
  <1>3. ResultsOk(h)
    BY DEF MirrorOk
  <1>4. \A o \in handlers[h].sets \cup handlers[h].events : KindOf[o] \in Kind
    BY <1>1, KindOfObjects, HandlerFields DEF TypeOK
  <1>5. ResultsOk(h)'
    <2>1. ASSUME NEW o \in handlers'[h].events
          PROVE  handlers'[h].phase[KindOf[o]] # "absent"
      BY <1>1, <1>3, <1>4, <2>1 DEF ResultsOk, SameEvents
    <2>2. ASSUME NEW o \in handlers'[h].sets
          PROVE  handlers'[h].phase[KindOf[o]] = "merged"
      BY <1>1, <1>3, <1>4, <2>2 DEF ResultsOk
    <2>3. ASSUME NEW j \in Kind, NEW o \in handlers'[h].set[j]
          PROVE  KindOf[o] = j /\ handlers'[h].phase[j] = "synced"
      BY <1>1, <1>3, <2>3 DEF ResultsOk
    <2>. QED  BY <2>1, <2>2, <2>3 DEF ResultsOk
  <1>6. ~Deleting(h)'
    BY <1>2 DEF Deleting
  <1>7. ASSUME ~handlers'[h].stopped, NEW o \in Object PROVE Faithful(h, o)'
    <2>1. Faithful(h, o) /\ KindOf[o] \in Kind
      BY <1>1, <1>7, KindOfObjects DEF MirrorOk, SameStop
    <2>2. ToDelete(h, o) => ToDelete(h, o)'
      BY <1>1, <1>2, <1>3, <2>1 DEF ToDelete, ResultsOk
    <2>3. Watches(h, o)' <=> Watches(h, o)
      BY <1>1, <1>2, <2>1 DEF Watches
    <2>4. handlers'[h].phase[KindOf[o]] = "waiting" <=> handlers[h].phase[KindOf[o]] = "waiting"
      BY <1>1, <2>1
    <2>5. Excepted' = Excepted /\ handlers'[h].events = handlers[h].events
      BY <1>1, <1>2 DEF Excepted, SameEvents
    <2>. HIDE DEF Watches, ToDelete, Excepted
    <2>. QED  BY <1>2, <2>1, <2>2, <2>3, <2>4, <2>5 DEF Faithful
  <1>. QED  BY <1>5, <1>6, <1>7 DEF MirrorOk

\* A skipped deletion leaves what it had to delete, and so does the end of one.
LEMMA SkipMirrors ==
  ASSUME TypeOK, Skip(Listener), NEW h, h = mine[Listener], MirrorOk(h)
  PROVE  MirrorOk(h)'
  <1>1. /\ Merged(h) /\ handlers' = handlers /\ mine' = mine /\ pc[Listener] = "sync"
        /\ failed' = failed \cup (port \ Watched(h))
        /\ UNCHANGED <<cluster, port, swept, late>>
    BY DEF Skip, InSync, clusterVars
  <1>2. ResultsOk(h)' /\ Merged(h)'
    BY <1>1 DEF MirrorOk, ResultsOk, Merged
  <1>3. ASSUME ~handlers'[h].stopped, NEW o \in Object PROVE Faithful(h, o)'
    <2>1. Faithful(h, o) /\ handlers[h].phase[KindOf[o]] # "waiting"
      BY <1>1, <1>3, KindOfObjects DEF MirrorOk, Merged
    <2>2. o \in port /\ ~Watches(h, o) => o \in Excepted'
      BY <1>1 DEF Watches, Watched, Excepted
    <2>. QED  BY <1>1, <2>1, <2>2 DEF Faithful, Excepted, Watches
  <1>. QED  BY <1>2, <1>3 DEF MirrorOk

LEMMA DeletedMirrors ==
  ASSUME TypeOK, HasHandler, Deleted(Listener), NEW h, h = mine[Listener],
         Deleting(h), MirrorOk(h)
  PROVE  MirrorOk(h)'
  <1>0. Listener \in Caller
    BY ListenerCalls
  <1>1. h \in Handler /\ SameHandler(h) /\ SameEvents(h)
    BY <1>0, DeletedFrame
  <1>2. /\ mine' = mine /\ pc[Listener] = "delete"
        /\ failed' = failed \cup (handlers[h].stale \ Watched(h))
        /\ UNCHANGED <<cluster, port, swept, late>>
    BY DEF Deleted, clusterVars
  <1>3. ResultsOk(h)' /\ Merged(h)'
    BY <1>1 DEF MirrorOk, ResultsOk, Merged, SameHandler, SameResults, SameEvents
  <1>4. ASSUME ~handlers'[h].stopped, NEW o \in Object PROVE Faithful(h, o)'
    <2>1. Faithful(h, o)
      BY <1>1, <1>4 DEF MirrorOk, SameHandler, SameStop
    <2>2. ~Watches(h, o) /\ o \in handlers[h].stale => o \in Excepted'
      BY <1>2 DEF Watches, Watched, Excepted
    <2>3. Excepted \subseteq Excepted' /\ (Watches(h, o)' <=> Watches(h, o))
      BY <1>1, <1>2 DEF Excepted, Watches, SameHandler, SameResults
    <2>. QED  BY <1>1, <1>2, <2>1, <2>2, <2>3 DEF Faithful, ToDelete, SameEvents
  <1>. QED  BY <1>3, <1>4 DEF MirrorOk

\* The search finds what no sync has found.
LEMMA SearchMirrors ==
  ASSUME TypeOK, HasHandler, Search(Listener), NEW h, h = mine[Listener], MirrorOk(h)
  PROVE  MirrorOk(h)'
  <1>0. Listener \in Caller
    BY ListenerCalls
  <1>1. /\ h \in Handler /\ SameHandler(h) /\ SameEvents(h)
        /\ handlers'[h].stale = port \ handlers[h].sets
    BY <1>0, SearchFrame
  <1>2. /\ mine' = mine /\ pc[Listener] = "sync" /\ pc'[Listener] = "delete" /\ Merged(h)
        /\ UNCHANGED <<cluster, port, swept, failed, late>>
    BY <1>0 DEF Search, InSync, clusterVars, historyVars, TypeOK
  <1>3. ResultsOk(h)' /\ Merged(h)'
    BY <1>1, <1>2 DEF MirrorOk, ResultsOk, Merged, SameHandler, SameResults, SameEvents
  <1>4. ASSUME ~handlers'[h].stopped, NEW o \in Object PROVE Faithful(h, o)'
    <2>1. Faithful(h, o) /\ handlers[h].phase[KindOf[o]] # "waiting"
      BY <1>1, <1>2, <1>4, KindOfObjects DEF MirrorOk, Merged, SameHandler, SameStop
    <2>2. o \in port /\ ToDelete(h, o) => ToDelete(h, o)'
      BY <1>1, <1>2 DEF ToDelete
    <2>3. Excepted' = Excepted /\ (Watches(h, o)' <=> Watches(h, o))
      BY <1>1, <1>2 DEF Excepted, Watches, SameHandler, SameResults
    <2>. QED  BY <1>1, <1>2, <2>1, <2>2, <2>3 DEF Faithful, SameEvents
  <1>. QED  BY <1>3, <1>4 DEF MirrorOk

\* Port deletes an entity: of no object, or the deletion is remembered.
LEMMA DeleteStaleMirrors ==
  ASSUME TypeOK, HasHandler, NEW e \in Object, DeleteStale(Listener, e),
         NEW h, h = mine[Listener], MirrorOk(h)
  PROVE  MirrorOk(h)'
  <1>0. Listener \in Caller
    BY ListenerCalls
  <1>1. /\ h \in Handler /\ SameHandler(h) /\ SameEvents(h)
        /\ handlers'[h].stale = handlers[h].stale \ {e}
    BY <1>0, DeleteStaleFrame
  <1>2. mine' = mine /\ pc[Listener] = "delete" /\ pc' = pc /\ cluster' = cluster
    BY DEF DeleteStale, callVars, clusterVars
  <1>3. \/ /\ port' = port \ {e}
           /\ IF e \in Watched(h)
                THEN swept' = swept \cup (port \cap {e}) /\ UNCHANGED <<failed, late>>
                ELSE failed' = failed \ {e} /\ late' = late \ {e} /\ UNCHANGED swept
        \/ failed' = failed \cup ({e} \ Watched(h)) /\ UNCHANGED <<port, swept, late>>
    BY DEF DeleteStale
  <1>4. ResultsOk(h)' /\ (Deleting(h)' => Merged(h)')
    BY <1>1, <1>2
       DEF MirrorOk, ResultsOk, Merged, Deleting, SameHandler, SameResults, SameEvents
  <1>5. ASSUME ~handlers'[h].stopped, NEW o \in Object PROVE Faithful(h, o)'
    <2>1. Faithful(h, o)
      BY <1>1, <1>5 DEF MirrorOk, SameHandler, SameStop
    <2>2. Watches(h, o)' <=> Watches(h, o)
      BY <1>1, <1>2 DEF Watches, SameHandler, SameResults
    <2>3. CASE o = e
      <3>1. Watches(h, o) <=> e \in Watched(h)
        BY <2>3 DEF Watches, Watched
      <3>2. CASE port' = port \ {e} /\ e \in Watched(h)
        BY <1>1, <1>2, <1>3, <2>1, <2>2, <2>3, <3>1, <3>2 DEF Faithful, Excepted, SameEvents
      <3>3. CASE port' = port \ {e} /\ e \notin Watched(h)
        BY <2>2, <2>3, <3>1, <3>3 DEF Faithful
      <3>4. CASE failed' = failed \cup ({e} \ Watched(h)) /\ UNCHANGED <<port, swept, late>>
        BY <1>1, <1>2, <2>1, <2>2, <2>3, <3>1, <3>4 DEF Faithful, Excepted, SameEvents
      <3>. QED  BY <1>3, <3>2, <3>3, <3>4
    <2>4. CASE o # e
      <3>1. o \in Excepted => o \in Excepted'
        BY <1>3, <2>4 DEF Excepted
      <3>2. o \in port' <=> o \in port
        BY <1>3, <2>4
      <3>3. ToDelete(h, o) => ToDelete(h, o)'
        BY <1>1, <1>2, <2>4 DEF ToDelete
      <3>. QED
        BY <1>1, <1>2, <2>1, <3>1, <3>2, <3>3, FaithfulKept
           DEF SameHandler, SameResults, SameEvents
    <2>. QED  BY <2>3, <2>4
  <1>. QED  BY <1>4, <1>5 DEF MirrorOk

\* A cancellation changes nothing that was deleted.
LEMMA CancelMirrors ==
  ASSUME TypeOK, HasHandler, Cancel(Listener), NEW h, h = mine[Listener], MirrorOk(h)
  PROVE  MirrorOk(h)'
  <1>0. Listener \in Caller
    BY ListenerCalls
  <1>1. /\ h \in Handler /\ SameHandler(h) /\ SameEvents(h)
        /\ handlers'[h].stale = handlers[h].stale
    BY <1>0, CancelFrame
  <1>2. UNCHANGED <<pc, mine, cluster, port, swept, failed, late>>
    BY DEF Cancel, callVars, clusterVars, historyVars
  <1>3. ResultsOk(h)' /\ (Deleting(h)' => Merged(h)')
    BY <1>1, <1>2
       DEF MirrorOk, ResultsOk, Merged, Deleting, SameHandler, SameResults, SameEvents
  <1>4. ASSUME ~handlers'[h].stopped, NEW o \in Object PROVE Faithful(h, o)'
    <2>1. Faithful(h, o)
      BY <1>1, <1>4 DEF MirrorOk, SameHandler, SameStop
    <2>2. ToDelete(h, o) => ToDelete(h, o)'
      BY <1>1, <1>2 DEF ToDelete, SameHandler, SameResults
    <2>. QED
      BY <1>1, <1>2, <2>1, <2>2, FaithfulKept
         DEF Excepted, SameHandler, SameResults, SameEvents
  <1>. QED  BY <1>3, <1>4 DEF MirrorOk

\* A handler that is built has all its kinds to sync.
LEMMA BuildMirrors ==
  ASSUME TypeOK, Build(Listener), NEW h, h = built + 1
  PROVE  MirrorOk(h)'
  <1>0. Listener \in Caller
    BY ListenerCalls
  <1>1. /\ handlers'[h].sets = {} /\ handlers'[h].events = {}
        /\ \A k \in Kind : /\ handlers'[h].phase[k] \in {"absent", "waiting"}
                           /\ handlers'[h].set[k] = {}
    BY <1>0, BuildFrame
  <1>2. pc'[Listener] = "sync"
    BY <1>0 DEF Build, TypeOK
  <1>3. ResultsOk(h)' /\ ~Deleting(h)'
    BY <1>1, <1>2 DEF ResultsOk, Deleting
  <1>4. ASSUME NEW o \in Object PROVE Faithful(h, o)'
    <2>1. /\ handlers'[h].phase[KindOf[o]] \in {"absent", "waiting"}
          /\ handlers'[h].set[KindOf[o]] = {}
      BY <1>1, KindOfObjects
    <2>. QED  BY <1>1, <1>2, <2>1 DEF Faithful, Watches, ToDelete
  <1>. QED  BY <1>3, <1>4 DEF MirrorOk

\* A handler is published when nothing is left to delete.
LEMMA PublishMirrors ==
  ASSUME TypeOK, Publish(Listener), NEW h \in Handler, h = mine[Listener], MirrorOk(h)
  PROVE  MirrorOk(h)'
  <1>0. Listener \in Caller
    BY ListenerCalls
  <1>1. /\ handlers'[h].phase = handlers[h].phase /\ SameEvents(h)
        /\ handlers'[h].stopped = handlers[h].stopped
        /\ handlers'[h].sets = {} /\ \A k \in Kind : handlers'[h].set[k] = {}
    BY <1>0, PublishFrame
  <1>2. /\ pc[Listener] = "publish" /\ pc'[Listener] = "idle"
        /\ UNCHANGED <<cluster, port, swept, failed, late>>
    BY <1>0 DEF Publish, TypeOK, clusterVars, historyVars
  <1>3. ResultsOk(h)' /\ ~Deleting(h)'
    BY <1>1, <1>2 DEF MirrorOk, ResultsOk, Deleting, SameEvents
  <1>4. ASSUME ~handlers'[h].stopped, NEW o \in Object PROVE Faithful(h, o)'
    <2>1. Faithful(h, o)
      BY <1>1, <1>4 DEF MirrorOk
    <2>. QED  BY <1>1, <1>2, <2>1 DEF Faithful, Watches, ToDelete, Excepted, SameEvents
  <1>. QED  BY <1>3, <1>4 DEF MirrorOk

\* A change of a watched object is an event.
LEMMA ChangeMirrors ==
  ASSUME TypeOK, NEW e \in Object, Change(e), NEW h \in Built, MirrorOk(h)
  PROVE  MirrorOk(h)'
  <1>1. /\ h \in Handler /\ SameStop(h) /\ SameResults(h)
        /\ handlers'[h].stale = handlers[h].stale
        /\ handlers[h].phase[KindOf[e]] = "absent" => SameEvents(h)
        /\ handlers[h].phase[KindOf[e]] # "absent" =>
             handlers'[h].events = IF handlers[h].stopped THEN handlers[h].events
                                   ELSE handlers[h].events \cup {e}
    BY ChangeFrame
  <1>2. /\ UNCHANGED <<pc, mine, port, swept, failed, late>>
        /\ \A o : o # e => (o \in cluster' <=> o \in cluster)
    BY DEF Change, callVars, historyVars
  <1>3. handlers[h].events \subseteq handlers'[h].events
    BY <1>1 DEF SameEvents
  <1>4. ResultsOk(h)' /\ (Deleting(h)' => Merged(h)')
    <2>1. ASSUME NEW o \in handlers'[h].events
          PROVE  handlers'[h].phase[KindOf[o]] # "absent"
      BY <1>1, <2>1 DEF MirrorOk, ResultsOk, SameResults, SameEvents
    <2>2. Deleting(h)' => Merged(h)'
      BY <1>1, <1>2 DEF MirrorOk, Deleting, Merged, SameResults
    <2>. QED  BY <1>1, <2>1, <2>2 DEF MirrorOk, ResultsOk, SameResults
  <1>5. ASSUME ~handlers'[h].stopped, NEW o \in Object PROVE Faithful(h, o)'
    <2>1. ~handlers[h].stopped /\ Faithful(h, o)
      BY <1>1, <1>5 DEF MirrorOk, SameStop
    <2>2. ToDelete(h, o) <=> ToDelete(h, o)'
      BY <1>1, <1>2 DEF ToDelete, SameResults
    <2>3. CASE o = e /\ handlers[h].phase[KindOf[e]] # "absent"
      BY <1>1, <2>1, <2>3 DEF Faithful
    <2>4. CASE o = e /\ handlers[h].phase[KindOf[e]] = "absent"
      BY <1>1, <1>2, <1>3, <2>1, <2>2, <2>4 DEF Faithful, Watches, Excepted, SameResults
    <2>5. CASE o # e
      BY <1>1, <1>2, <1>3, <2>1, <2>2, <2>5, FaithfulKept DEF Excepted, SameResults
    <2>. QED  BY <2>3, <2>4, <2>5
  <1>. QED  BY <1>4, <1>5 DEF MirrorOk

\* An event that is handled, given up or lost is of one object.
LEMMA EventMirrors ==
  ASSUME MirrorInv, NEW h \in Built, NEW e \in Object, HandleEvent(h, e) \/ LoseEvent(h, e),
         NEW x \in Built
  PROVE  MirrorOk(x)'
  <1>0. TypeOK /\ MirrorOk(x) /\ Built \subseteq Handler
    BY CallLimit DEF MirrorInv, OneHandlerInv, TypeOK, Built, Handler
  <1>1. /\ OnlyChanged(h) /\ SameHandler(h) /\ SameSweep(h)
        /\ handlers'[h].events = handlers[h].events \ {e}
    BY <1>0, EventFrame
  <1>2. /\ SameStop(x) /\ SameResults(x) /\ handlers'[x].stale = handlers[x].stale
        /\ handlers'[x].events \subseteq handlers[x].events
        /\ handlers[x].events \subseteq handlers'[x].events \cup {e}
        /\ x # h => handlers'[x].events = handlers[x].events
    <2>1. CASE x = h
      BY <1>1, <2>1 DEF SameHandler, SameSweep
    <2>2. CASE x # h
      <3>1. handlers'[x] = handlers[x]
        BY <1>0, <1>1, <2>2 DEF OnlyChanged
      <3>. QED  BY <2>2, <3>1 DEF SameStop, SameResults
    <2>. QED  BY <2>1, <2>2
  <1>3. UNCHANGED <<pc, mine, cluster>>
    BY DEF HandleEvent, LoseEvent, callVars, clusterVars
  <1>4. ResultsOk(x)' /\ (Deleting(x)' => Merged(x)')
    BY <1>0, <1>2, <1>3 DEF MirrorOk, ResultsOk, Deleting, Merged, SameResults
  <1>5. ASSUME ~handlers'[x].stopped, NEW o \in Object PROVE Faithful(x, o)'
    <2>1. ~handlers[x].stopped /\ Faithful(x, o)
      BY <1>0, <1>2, <1>5 DEF MirrorOk, SameStop
    <2>2. ToDelete(x, o) => ToDelete(x, o)'
      BY <1>2, <1>3 DEF ToDelete, SameResults
    <2>3. Watches(x, o)' <=> Watches(x, o)
      BY <1>2, <1>3 DEF Watches, SameResults
    <2>4. x # h => handlers[h].stopped
      BY <2>1, OneRuns DEF MirrorInv
    <2>5. CASE o # e
      <3>1. o \in Excepted => o \in Excepted'
        BY <2>5 DEF HandleEvent, LoseEvent, Account, Excepted
      <3>2. o \in port' <=> o \in port
        BY <2>5 DEF HandleEvent, LoseEvent
      <3>. QED  BY <1>2, <1>3, <2>1, <2>2, <2>5, <3>1, <3>2, FaithfulKept DEF SameResults
    <2>6. CASE o = e /\ x = h /\ HandleEvent(h, e)
      <3>1. handlers[h].phase[KindOf[e]] # "absent"
        BY <1>0, <2>6 DEF HandleEvent, MirrorOk, ResultsOk
      <3>2. o \in port' <=> Watches(x, o)
        BY <2>1, <2>6, <3>1 DEF HandleEvent, Watches, CacheOf
      <3>. QED  BY <2>3, <3>2 DEF Faithful
    <2>7. CASE o = e /\ x = h /\ LoseEvent(h, e)
      BY <2>1, <2>7 DEF LoseEvent, Faithful, Excepted
    <2>8. CASE o = e /\ x # h /\ HandleEvent(h, e)
      BY <2>4, <2>8 DEF HandleEvent, Account, Faithful, Excepted
    <2>9. CASE o = e /\ x # h /\ LoseEvent(h, e)
      <3>1. UNCHANGED <<port, swept, failed, late>>
        BY <2>4, <2>9 DEF LoseEvent
      <3>. QED  BY <1>2, <1>3, <2>1, <2>2, <2>9, <3>1, FaithfulKept DEF Excepted, SameResults
    <2>. QED  BY <2>5, <2>6, <2>7, <2>8, <2>9
  <1>. QED  BY <1>4, <1>5 DEF MirrorOk

\* A handler that is stopped answers for nothing any more.
LEMMA CloseMirrors ==
  ASSUME TypeOK, NEW h \in Handler, MirrorOk(h),
         \/ handlers' = [handlers EXCEPT ![h] = Stopped(h)]
         \/ handlers' = [handlers EXCEPT ![h] = [Stopped(h) EXCEPT !.isStopped = TRUE]],
         Deleting(h)' => Deleting(h)
  PROVE  OnlyChanged(h) /\ MirrorOk(h)'
  <1>1. /\ OnlyChanged(h) /\ SameResults(h) /\ SameEvents(h) /\ handlers'[h].stopped
    BY CloseFrame
  <1>. QED  BY <1>1 DEF MirrorOk, ResultsOk, Merged, SameResults, SameEvents

\* The steps of RunResync.
LEMMA ResyncingMirrors ==
  ASSUME Caller = {Listener}, MirrorInv, Resyncing
  PROVE  \A x \in Built' : MirrorOk(x)'
  <1>. DEFINE c == Listener
  <1>0. /\ TypeOK /\ HasHandler /\ c \in Caller /\ OneHandlerInv
        /\ Built \subseteq Handler /\ Nil \notin Handler /\ built \in Nat
        /\ pc[c] \in CallerPlaces /\ \A x \in Built : MirrorOk(x)
    BY ListenerCalls, CallLimit
       DEF MirrorInv, OneHandlerInv, TypeOK, Built, Handler, Nil, CallerPlaces
  <1>1. ASSUME \E how : Ends(how) PROVE \A x \in Built' : MirrorOk(x)'
    BY <1>1 DEF Ends, Built
  <1>2. CASE Call(c)
    <2>1. /\ pc[c] = "idle" /\ mine'[c] = Nil /\ pc'[c] \notin {"sync", "delete", "publish"}
          /\ UNCHANGED <<handlers, built, cluster, port, swept, failed, late>>
      BY <1>0, <1>2 DEF Call, TypeOK, clusterVars, historyVars
    <2>2. ASSUME NEW x \in Built PROVE MirrorOk(x)'
      <3>1. ResultsOk(x)' /\ ~Deleting(x)'
        BY <1>0, <2>1 DEF MirrorOk, ResultsOk, Deleting
      <3>2. ASSUME ~handlers'[x].stopped, NEW o \in Object PROVE Faithful(x, o)'
        <4>1. Faithful(x, o)
          BY <1>0, <2>1, <3>2 DEF MirrorOk
        <4>. QED  BY <2>1, <4>1 DEF Faithful, Excepted, Watches, ToDelete
      <3>. QED  BY <3>1, <3>2 DEF MirrorOk
    <2>. QED  BY <2>1, <2>2 DEF Built
  <1>3. CASE Stop(c)
    <2>1. CASE handlers[old[c]].stopped
      BY <1>1, <1>3, <2>1 DEF Stop
    <2>2. CASE ~handlers[old[c]].stopped
      <3>1. PICK h : h = old[c]
        OBVIOUS
      <3>2. /\ pc[c] = "stop" /\ pc'[c] = "fetch" /\ UNCHANGED <<mine, built>>
            /\ handlers' = [handlers EXCEPT ![h] = [Stopped(h) EXCEPT !.isStopped = TRUE]]
        BY <1>0, <1>3, <2>2, <3>1 DEF Stop, TypeOK
      <3>3. h \in Built /\ \A x \in Built : x # h => handlers[x].stopped
        BY <1>0, <3>1, <3>2 DEF OneHandlerInv, RunsByPlace, AloneRuns
      <3>4. \A x : ~Deleting(x)'
        BY <3>2 DEF Deleting
      <3>5. OnlyChanged(h) /\ MirrorOk(h)'
        BY <1>0, <3>2, <3>3, <3>4, CloseMirrors
      <3>6. ASSUME NEW x \in Built, x # h PROVE MirrorOk(x)'
        <4>1. handlers'[x] = handlers[x]
          BY <1>0, <3>5, <3>6 DEF OnlyChanged
        <4>. QED  BY <1>0, <3>3, <3>4, <3>6, <4>1, StoppedMirrors
      <3>. QED  BY <3>2, <3>5, <3>6 DEF Built
    <2>. QED  BY <2>1, <2>2
  <1>4. CASE FetchFails(c) \/ Build(c)
    <2>1. pc[c] = "fetch" /\ mine[c] = Nil /\ \A x \in Built : handlers[x].stopped
      <3>1. pc[c] = "fetch"
        BY <1>4 DEF FetchFails, Build
      <3>2. mine[c] = Nil /\ AloneRuns(Nil) /\ Nil \notin Built
        BY <1>0, <3>1 DEF OneHandlerInv, RunsByPlace
      <3>. QED  BY <3>1, <3>2 DEF AloneRuns
    <2>2. ASSUME FetchFails(c) PROVE \A x \in Built' : MirrorOk(x)'
      <3>1. UNCHANGED <<handlers, built, mine>>
        BY <2>2 DEF FetchFails
      <3>2. \A x \in Built : ~Deleting(x)'
        BY <1>0, <2>1, <3>1 DEF Deleting
      <3>. QED  BY <1>0, <2>1, <3>1, <3>2, StoppedMirrors DEF Built
    <2>3. ASSUME Build(c) PROVE \A x \in Built' : MirrorOk(x)'
      <3>1. PICK h : h = built + 1
        OBVIOUS
      <3>2. OnlyChanged(h) /\ Built' = Built \cup {h} /\ h \notin Built
        BY <1>0, <2>3, <3>1, BuildFrame
      <3>3. MirrorOk(h)'
        BY <1>0, <2>3, <3>1, BuildMirrors
      <3>4. pc'[c] = "sync"
        BY <1>0, <2>3 DEF Build, TypeOK
      <3>5. ASSUME NEW x \in Built PROVE MirrorOk(x)'
        <4>1. handlers'[x] = handlers[x] /\ ~Deleting(x)'
          BY <1>0, <3>2, <3>4 DEF OnlyChanged, Deleting
        <4>. QED  BY <1>0, <2>1, <4>1, StoppedMirrors
      <3>. QED  BY <3>2, <3>3, <3>5
    <2>. QED  BY <1>4, <2>2, <2>3
  <1>5. ASSUME NEW h, h = mine[c], pc[c] \in {"sync", "delete", "publish"},
               UNCHANGED built, mine'[c] \in {h, Nil}, OnlyChanged(h),
               h \in Built => MirrorOk(h)'
        PROVE  \A x \in Built' : MirrorOk(x)'
    <2>1. ASSUME NEW x \in Built, x # h PROVE MirrorOk(x)'
      <3>1. handlers[x].stopped
        BY <1>0, <1>5, <2>1 DEF OneHandlerInv, RunsByPlace, AloneRuns
      <3>2. handlers'[x] = handlers[x] /\ ~Deleting(x)'
        BY <1>0, <1>5, <2>1 DEF OnlyChanged, Deleting
      <3>. QED  BY <1>0, <3>1, <3>2, StoppedMirrors
    <2>. QED  BY <1>5, <2>1 DEF Built
  <1>6. PICK h : h = mine[c]
    OBVIOUS
  <1>7. h \in Built \cup {Nil}
    BY <1>0, <1>6 DEF OneHandlerInv, RunsByPlace
  <1>8. CASE Publish(c)
    <2>1. /\ pc[c] = "publish" /\ UNCHANGED built /\ mine'[c] = Nil
      BY <1>0, <1>8 DEF Publish, TypeOK
    <2>2. OnlyChanged(h)
      BY <1>0, <1>6, <1>8, PublishFrame
    <2>3. h \in Built => MirrorOk(h)'
      BY <1>0, <1>6, <1>8, PublishMirrors
    <2>. QED  BY <1>5, <1>6, <2>1, <2>2, <2>3
  <1>9. CASE Skip(c)
    <2>1. /\ pc[c] = "sync" /\ UNCHANGED <<built, mine, handlers>>
      BY <1>9 DEF Skip, InSync
    <2>2. h \in Built => MirrorOk(h)'
      BY <1>0, <1>6, <1>9, SkipMirrors
    <2>. QED  BY <1>5, <1>6, <2>1, <2>2 DEF OnlyChanged
  <1>10. CASE \/ Search(c) \/ Cancel(c) \/ Deleted(c)
              \/ (\E o \in Object : DeleteStale(c, o))
              \/ (\E k \in Kind : SyncKind(c, k) \/ Merge(c, k))
    <2>1. pc[c] \in {"sync", "delete"} /\ UNCHANGED <<built, mine>>
      BY <1>10
         DEF Search, Cancel, Deleted, DeleteStale, SyncKind, Merge, InSync, callVars
    <2>2. h \in Built
      BY <1>0, <1>6, <1>7, <2>1 DEF HasHandler
    <2>3. MirrorOk(h)
      BY <1>0, <2>2
    <2>4. OnlyChanged(h) /\ MirrorOk(h)'
      <3>1. CASE Search(c)
        BY <1>0, <1>6, <2>3, <3>1, SearchFrame, SearchMirrors
      <3>2. CASE Cancel(c)
        BY <1>0, <1>6, <2>3, <3>2, CancelFrame, CancelMirrors
      <3>3. CASE Deleted(c)
        <4>1. Deleting(h)
          BY <1>6, <3>3 DEF Deleted, Deleting
        <4>. QED  BY <1>0, <1>6, <2>3, <3>3, <4>1, DeletedFrame, DeletedMirrors
      <3>4. ASSUME NEW o \in Object, DeleteStale(c, o) PROVE OnlyChanged(h) /\ MirrorOk(h)'
        BY <1>0, <1>6, <2>3, <3>4, DeleteStaleFrame, DeleteStaleMirrors
      <3>5. ASSUME NEW k \in Kind, SyncKind(c, k) PROVE OnlyChanged(h) /\ MirrorOk(h)'
        BY <1>0, <1>6, <2>3, <3>5, SyncFrame, SyncMirrors
      <3>6. ASSUME NEW k \in Kind, Merge(c, k) PROVE OnlyChanged(h) /\ MirrorOk(h)'
        <4>1. MergedInto(mine[c], k)
          BY <1>0, <3>6, MergeFrame
        <4>2. OnlyChanged(h)
          BY <1>6, <4>1 DEF MergedInto
        <4>. QED  BY <1>0, <1>6, <2>3, <3>6, <4>2, MergeMirrors
      <3>. QED  BY <1>10, <3>1, <3>2, <3>3, <3>4, <3>5, <3>6
    <2>. QED  BY <1>5, <1>6, <2>1, <2>4
  <1>. QED
    BY <1>2, <1>3, <1>4, <1>8, <1>9, <1>10 DEF Resyncing

\* Events, changes and signals.
LEMMA OtherMirrors ==
  ASSUME MirrorInv, Watching \/ Signalling
  PROVE  \A x \in Built' : MirrorOk(x)'
  <1>0. TypeOK /\ Built \subseteq Handler /\ \A x \in Built : MirrorOk(x)
    BY CallLimit DEF MirrorInv, OneHandlerInv, TypeOK, Built, Handler
  <1>1. ASSUME \E how : Ends(how) PROVE \A x \in Built' : MirrorOk(x)'
    BY <1>1 DEF Ends, Built
  <1>2. ASSUME NEW h \in Built, NEW o \in Object, HandleEvent(h, o) \/ LoseEvent(h, o)
        PROVE  \A x \in Built' : MirrorOk(x)'
    BY <1>2, EventMirrors DEF HandleEvent, LoseEvent, Built
  <1>3. ASSUME NEW o \in Object, Change(o) PROVE \A x \in Built' : MirrorOk(x)'
    BY <1>0, <1>3, ChangeMirrors DEF Change, Built
  <1>4. ASSUME NEW h \in Built, FirstSignal(h) PROVE \A x \in Built' : MirrorOk(x)'
    <2>1. CASE handlers[h].stopped
      BY <1>1, <1>4, <2>1 DEF FirstSignal
    <2>2. CASE ~handlers[h].stopped
      <3>1. /\ handlers' = [handlers EXCEPT ![h] = Stopped(h)]
            /\ UNCHANGED <<pc, mine, cluster, built, port, swept, failed, late>>
        BY <1>4, <2>2 DEF FirstSignal, callVars, clusterVars, historyVars
      <3>2. \A x : Deleting(x)' => Deleting(x)
        BY <3>1 DEF Deleting
      <3>3. OnlyChanged(h) /\ MirrorOk(h)'
        BY <1>0, <3>1, <3>2, CloseMirrors
      <3>4. ASSUME NEW x \in Built, x # h PROVE MirrorOk(x)'
        <4>1. handlers'[x] = handlers[x]
          BY <1>0, <3>3, <3>4 DEF OnlyChanged
        <4>. QED  BY <1>0, <3>1, <3>4, <4>1, UntouchedMirrors
      <3>. QED  BY <3>1, <3>3, <3>4 DEF Built
    <2>. QED  BY <2>1, <2>2
  <1>5. ASSUME \/ Signal \/ Exit
               \/ \E h \in Built : SecondSignal(h) \/ SeeStop(h)
        PROVE  \A x \in Built' : MirrorOk(x)'
    <2>1. CASE UNCHANGED <<handlers, built, pc, mine, cluster, port, swept, failed, late>>
      BY <1>0, <2>1, UntouchedMirrors DEF Built
    <2>. QED
      BY <1>1, <1>5, <2>1
         DEF Signal, Exit, SecondSignal, SeeStop, callVars, clusterVars, historyVars
  <1>. QED  BY <1>2, <1>3, <1>4, <1>5 DEF Watching, Signalling

LEMMA MirrorStep ==
  ASSUME Caller = {Listener}, MirrorInv, [Next]_vars PROVE MirrorInv'
  <1>1. OneHandlerInv'
    BY OneHandlerStep DEF MirrorInv
  <1>2. \A x \in Built' : MirrorOk(x)'
    <2>1. CASE Next
      BY <2>1, ResyncingMirrors, OtherMirrors DEF Next
    <2>2. CASE UNCHANGED vars
      BY <2>2, UntouchedMirrors
         DEF MirrorInv, vars, callVars, clusterVars, historyVars, Built
    <2>. QED  BY <2>1, <2>2
  <1>. QED  BY <1>1, <1>2 DEF MirrorInv

\* With the event listener as the only caller: when no resync and no event is under way,
\* Port shows what the published handler watches, but for entities that were deleted
\* although their object existed, that a call failed for, or that a stopped handler
\* touched.
THEOREM PortMirrorsTheCluster ==
  ASSUME Caller = {Listener}
  PROVE  Spec => []MirrorsWhenQuiet
  <1>1. MirrorInv /\ [Next]_vars => MirrorInv'
    BY MirrorStep
  <1>2. MirrorInv => MirrorsWhenQuiet
    BY MirrorInvImplies
  <1>. QED  BY <1>1, <1>2, MirrorInit, PTL DEF Spec

==============================================================================
