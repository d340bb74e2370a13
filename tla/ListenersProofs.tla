---------------------------- MODULE ListenersProofs ----------------------------
(***************************************************************************)
(* Neither listener forgets a request or a change: what the marks of the   *)
(* polling listener and the offsets of the consumer say about the resyncs  *)
(* that have begun. For any number of versions, requests, messages,        *)
(* failures and restarts.                                                  *)
(***************************************************************************)
EXTENDS Listeners, TLAPS

-----------------------------------------------------------------------------
(* The invariant. *)

\* The version that runs, or will when the listener's resync has ended.
Latest == IF running["listener"] # Idle THEN running["listener"] ELSE serving

\* Callers resync where their goroutines are, and nothing read is from the future.
Resyncs ==
  /\ running["listener"] # Idle => pc \in {"initial", "resync"}
  /\ ~setup.ticker => running["ticker"] = Idle
  /\ pc = "initial" => running["listener"] # Idle
  /\ served <= request /\ serving <= integration
  /\ \A c \in Caller : running[c] <= integration

\* The decision to resync was made, and the resync has not begun.
Decided == pc = "resync" /\ running["listener"] = Idle

\* A resync began after the request that is marked, and one that did not fail after the
\* change that is marked, or they were there before the first look.
Marked ==
  /\ lastResyncRequestUpdatedAt <= served \/ lastResyncRequestUpdatedAt <= unseen.request
  /\ ~setup.ticker =>
       \/ lastIntegrationStateUpdatedAt <= Latest
       \/ Latest = 0 /\ failures > 0
       \/ lastIntegrationStateUpdatedAt <= unseen.integration

PollingMarks ==
  /\ lastResyncRequestUpdatedAt <= request
  /\ lastIntegrationStateUpdatedAt <= integration /\ polled <= integration
  /\ pc \in {"start", "initial", "listen"} => lastIntegrationStateUpdatedAt = 0
  /\ pc \in {"start", "initial", "listen", "watermark"} => lastResyncRequestUpdatedAt = 0
  /\ Decided \/ Marked

\* The first message that is not handled yet. Before the assignment it is the one that
\* the group's offset will name.
NextHandled ==
  IF pc \in {"initial", "listen"} THEN committed
  ELSE IF Decided THEN position - 1 ELSE position

Pending == \E i \in DOMAIN topic : i >= NextHandled /\ Concerns(topic[i])

Looked == pc \in {"wait", "resync", "commit"}

RequestServed == served = request \/ (Looked /\ request <= unseen.request)

ChangeServed ==
  \/ Latest = integration
  \/ Latest = 0 /\ failures > 0
  \/ Looked /\ integration <= unseen.integration

AllServed == RequestServed /\ (~setup.ticker => ChangeServed)

\* A message that may be lost, committed before it is handled, was published before the
\* first resync of the next start.
Offsets ==
  /\ position <= Len(topic) + 1 /\ committed <= Len(topic) + 1
  /\ pc \in {"start", "initial", "listen"} => position = 0
  /\ pc \in {"wait", "commit", "resync"} => position >= 1
  /\ Decided => position - 1 \in DOMAIN topic /\ Concerns(topic[position - 1])
  /\ pc \notin {"start", "stopped"} => Pending \/ AllServed

ListenersInv ==
  /\ ListenersTypeOK /\ Resyncs
  /\ Polls => PollingMarks
  /\ ~Polls => Offsets

LEMMA ListenersStart == ListenersInit => ListenersInv
  <1>. SUFFICES ASSUME ListenersInit PROVE ListenersInv
    OBVIOUS
  <1>. USE EventListenerAssumption, ConsumerAssumption
       DEF ListenersInit, EventListenerInit, HandlerInit, ConsumerInit
  <1>1. EventListenerTypeOK
    <2>1. 1 \in 1..MaxVersion /\ 0 \in 0..MaxVersion /\ 0 \in 0..MaxRequests
          /\ 0 \in 0..MaxFailures /\ 0 \in 0..MaxRestarts /\ Idle \in Idle..MaxVersion
      BY DEF Idle
    <2>. QED  BY <2>1 DEF EventListenerTypeOK
  <1>2. HandlerTypeOK /\ ConsumerTypeOK
    BY DEF HandlerTypeOK, ConsumerTypeOK
  <1>3. Resyncs
    BY DEF Resyncs, Caller, Idle
  <1>4. Latest = 0
    BY DEF Latest, Caller
  <1>5. PollingMarks /\ Offsets
    BY <1>4 DEF PollingMarks, Marked, Decided, Offsets
  <1>. QED  BY <1>1, <1>2, <1>3, <1>5 DEF ListenersInv, ListenersTypeOK

-----------------------------------------------------------------------------
(* Types. *)

LEMMA ResyncTypes ==
  ASSUME EventListenerTypeOK, NEW c \in Caller, BeginResync(c) \/ EndResync(c)
  PROVE  /\ running' \in [Caller -> Idle..MaxVersion]
         /\ serving' \in 0..MaxVersion
         /\ BeginResync(c) => served' \in 0..MaxRequests /\ failures' \in 0..MaxFailures
  <1>. USE EventListenerAssumption DEF EventListenerTypeOK
  <1>1. {Idle, Failed, integration} \subseteq Idle..MaxVersion /\ 0 \in 0..MaxVersion
    BY DEF Idle, Failed
  <1>2. CASE BeginResync(c)
    <2>1. running' \in [Caller -> Idle..MaxVersion] /\ served' = request /\ serving' = 0
      BY <1>1, <1>2 DEF BeginResync
    <2>2. failures' \in 0..MaxFailures
      BY <1>2 DEF BeginResync, MayFail
    <2>. QED  BY <1>1, <2>1, <2>2
  <1>3. CASE EndResync(c) /\ ~BeginResync(c)
    <2>1. running[c] \in Idle..MaxVersion /\ running[c] # Idle
      BY <1>3 DEF EndResync
    <2>2. serving' \in 0..MaxVersion
      BY <1>3, <2>1 DEF EndResync, Idle
    <2>3. running' \in [Caller -> Idle..MaxVersion]
      BY <1>1, <1>3 DEF EndResync
    <2>. QED  BY <1>3, <2>2, <2>3
  <1>. QED  BY <1>2, <1>3

LEMMA FailureType ==
  ASSUME EventListenerTypeOK
  PROVE  (UNCHANGED failures \/ MayFail) => failures' \in 0..MaxFailures
  BY EventListenerAssumption DEF EventListenerTypeOK, MayFail

LEMMA SharedTypes ==
  ASSUME EventListenerTypeOK, (Starts \/ Ticks)
  PROVE  EventListenerTypeOK'
  <1>. USE DEF EventListenerTypeOK, Caller
  <1>1. CASE StartInitial
    BY <1>1, ResyncTypes DEF StartInitial
  <1>2. CASE EndInitial
    BY <1>2, ResyncTypes DEF EndInitial
  <1>3. CASE Tick
    BY <1>3, ResyncTypes DEF Tick
  <1>4. CASE EndTick
    BY <1>4, ResyncTypes DEF EndTick
  <1>. QED  BY <1>1, <1>2, <1>3, <1>4 DEF Starts, Ticks

LEMMA PollingTypes ==
  ASSUME EventListenerTypeOK, HandlerTypeOK, PollingStep \/ PollingTerminates
  PROVE  EventListenerTypeOK' /\ HandlerTypeOK'
  <1>. USE EventListenerAssumption, FailureType
       DEF EventListenerTypeOK, HandlerTypeOK, handlerVars
  <1>0. integration \in 0..MaxVersion /\ 0 \in 0..MaxVersion /\ 0 \in 0..MaxRequests
    OBVIOUS
  <1>1. CASE FirstState
    BY <1>0, <1>1 DEF FirstState
  <1>2. CASE InitializeResyncRequestWatermark
    BY <1>2 DEF InitializeResyncRequestWatermark
  <1>3. CASE Poll
    BY <1>0, <1>3 DEF Poll
  <1>4. CASE PollRequest
    <2>1. ASSUME NEW u \in 0..MaxRequests, Compare(u)
          PROVE  /\ pc' \in {"wait", "resync"}
                 /\ lastIntegrationStateUpdatedAt' \in 0..MaxVersion
                 /\ lastResyncRequestUpdatedAt' \in 0..MaxRequests
      BY <2>1 DEF Compare
    <2>. QED  BY <1>0, <1>4, <2>1 DEF PollRequest
  <1>5. CASE PollingResync
    BY <1>5, ResyncTypes DEF PollingResync, Caller
  <1>6. CASE PollingTerminates
    BY <1>6 DEF PollingTerminates
  <1>. QED  BY <1>1, <1>2, <1>3, <1>4, <1>5, <1>6 DEF PollingStep

LEMMA ConsumerTypes ==
  ASSUME EventListenerTypeOK, ConsumerTypeOK, ConsumerStep \/ AutoCommit \/ Close
  PROVE  EventListenerTypeOK' /\ ConsumerTypeOK'
  <1>. USE EventListenerAssumption, ConsumerAssumption, FailureType
       DEF EventListenerTypeOK, ConsumerTypeOK, consumerVars
  <1>1. CASE Assign
    <2>1. StartOffset \in 0..(MaxMessages + 1)
      BY DEF StartOffset
    <2>2. integration \in 0..MaxVersion /\ 0 \in 0..MaxVersion /\ 0 \in 0..MaxRequests
      OBVIOUS
    <2>3. unseen' \in [integration : 0..MaxVersion, request : 0..MaxRequests]
      BY <1>1, <2>2 DEF Assign
    <2>. QED  BY <1>1, <2>1, <2>3 DEF Assign
  <1>2. CASE Receive
    <2>1. position + 1 \in 0..(MaxMessages + 1)
      BY <1>2 DEF Receive
    <2>. QED  BY <1>2, <2>1 DEF Receive
  <1>3. CASE KafkaResync
    BY <1>3, ResyncTypes DEF KafkaResync, Caller
  <1>4. CASE Commit
    BY <1>4 DEF Commit
  <1>5. CASE ConsumerReturns
    BY <1>5 DEF ConsumerReturns
  <1>6. CASE AutoCommit
    BY <1>6 DEF AutoCommit
  <1>7. CASE Close
    BY <1>7 DEF Close
  <1>. QED  BY <1>1, <1>2, <1>3, <1>4, <1>5, <1>6, <1>7 DEF ConsumerStep

LEMMA Published ==
  ASSUME ConsumerTypeOK, NEW m \in Message, Publish(m)
  PROVE  /\ ConsumerTypeOK'
         /\ Len(topic') = Len(topic) + 1
         /\ topic'[Len(topic) + 1] = m
         /\ \A i \in DOMAIN topic : i \in DOMAIN topic' /\ topic'[i] = topic[i]
         /\ Len(topic) + 1 \in DOMAIN topic'
  BY ConsumerAssumption DEF Publish, ConsumerTypeOK

LEMMA OurMessages ==
  /\ {Request, Change} \subseteq Message /\ Foreign \subseteq Message
  /\ Concerns(Request)
  /\ ~setup.requestsTopic => Concerns(Change)
  BY DEF Request, Change, Foreign, Message, Concerns, Unreadable, Nobody, Us, Others,
         ShouldResyncFromIntegrationResyncRequest, ShouldResyncFromChangeLog

LEMMA PortTypes ==
  ASSUME ListenersTypeOK, PortChanges \/ PortRequests \/ OthersPublish \/ Restarts
  PROVE  ListenersTypeOK'
  <1>. USE EventListenerAssumption, ConsumerAssumption
       DEF ListenersTypeOK, HandlerTypeOK, handlerVars, listenerVars
  <1>1. CASE PortChanges
    <2>1. EventListenerTypeOK'
      <3>1. integration + 1 \in 1..MaxVersion
        BY <1>1 DEF PortChanges, ChangeIntegration, EventListenerTypeOK
      <3>. QED  BY <1>1, <3>1 DEF PortChanges, ChangeIntegration, EventListenerTypeOK
    <2>2. ConsumerTypeOK'
      BY <1>1, OurMessages, Published
         DEF PortChanges, Announce, ConsumerTypeOK, consumerVars
    <2>. QED  BY <1>1, <2>1, <2>2 DEF PortChanges
  <1>2. CASE PortRequests
    <2>1. EventListenerTypeOK'
      <3>1. request + 1 \in 0..MaxRequests
        BY <1>2 DEF PortRequests, RequestResync, EventListenerTypeOK
      <3>. QED  BY <1>2, <3>1 DEF PortRequests, RequestResync, EventListenerTypeOK
    <2>2. ConsumerTypeOK'
      BY <1>2, OurMessages, Published
         DEF PortRequests, Announce, ConsumerTypeOK, consumerVars
    <2>. QED  BY <1>2, <2>1, <2>2 DEF PortRequests
  <1>3. CASE OthersPublish
    BY <1>3, OurMessages, Published DEF OthersPublish, EventListenerTypeOK
  <1>4. CASE Restarts
    <2>1. Restart
      BY <1>4 DEF Restarts, PollingRestart, ConsumerRestart
    <2>2. EventListenerTypeOK'
      <3>1. restarts + 1 \in 0..MaxRestarts /\ Idle \in Idle..MaxVersion
            /\ 0 \in 0..MaxVersion
        BY <2>1 DEF Restart, EventListenerTypeOK, Idle
      <3>2. running' \in [Caller -> Idle..MaxVersion]
        BY <2>1, <3>1 DEF Restart
      <3>. QED  BY <2>1, <3>1, <3>2 DEF Restart, EventListenerTypeOK
    <2>3. CASE Polls
      BY <1>4, <2>2, <2>3 DEF Restarts, PollingRestart, ConsumerTypeOK, consumerVars
    <2>4. CASE ~Polls
      BY <1>4, <2>2, <2>4 DEF Restarts, ConsumerRestart, ConsumerTypeOK
    <2>. QED  BY <2>3, <2>4
  <1>. QED  BY <1>1, <1>2, <1>3, <1>4

LEMMA ListenersTyped ==
  ASSUME ListenersTypeOK, ListenersNext
  PROVE  ListenersTypeOK'
  <1>. USE DEF ListenersTypeOK
  <1>1. CASE (Starts \/ Ticks) /\ UNCHANGED <<handlerVars, consumerVars>>
    BY <1>1, SharedTypes DEF HandlerTypeOK, ConsumerTypeOK, handlerVars, consumerVars
  <1>2. CASE (PollingStep \/ PollingTerminates) /\ UNCHANGED consumerVars
    BY <1>2, PollingTypes DEF ConsumerTypeOK, consumerVars
  <1>3. CASE (ConsumerStep \/ AutoCommit \/ Close) /\ UNCHANGED handlerVars
    BY <1>3, ConsumerTypes DEF HandlerTypeOK, handlerVars
  <1>4. CASE PortChanges \/ PortRequests \/ OthersPublish \/ Restarts
    BY <1>4, PortTypes
  <1>. QED  BY <1>1, <1>2, <1>3, <1>4 DEF ListenersNext

-----------------------------------------------------------------------------
(* The resyncs. *)

LEMMA ResyncEffect ==
  ASSUME ListenersTypeOK, Resyncs, NEW c \in Caller
  PROVE  /\ \A d \in Caller \ {c} :
              BeginResync(c) \/ EndResync(c) => running'[d] = running[d]
         /\ BeginResync(c) =>
              /\ running[c] = Idle /\ serving' = 0 /\ served' = request
              /\ \/ running'[c] = integration
                 \/ running'[c] = 0 /\ failures' > 0
         /\ EndResync(c) =>
              running[c] # Idle /\ serving' = running[c] /\ running'[c] = Idle
  BY DEF ListenersTypeOK, EventListenerTypeOK, BeginResync, EndResync, MayFail, Failed

LEMMA LatestEffect ==
  ASSUME ListenersTypeOK, Resyncs
  PROVE  /\ BeginResync("listener") =>
              Latest' = integration \/ (Latest' = 0 /\ failures' > 0)
         /\ EndResync("listener") => Latest' = Latest
         /\ UNCHANGED <<running, serving>> => Latest' = Latest
         /\ 0 <= Latest /\ Latest <= integration
  <1>1. "listener" \in Caller
    BY DEF Caller
  <1>2. BeginResync("listener") => Latest' = running'["listener"]
    BY <1>1, ResyncEffect DEF Latest, Idle, ListenersTypeOK, EventListenerTypeOK
  <1>3. EndResync("listener") => Latest' = Latest
    BY <1>1, ResyncEffect DEF Latest
  <1>4. 0 <= Latest /\ Latest <= integration
    BY <1>1 DEF Latest, ListenersTypeOK, EventListenerTypeOK, Resyncs, Idle
  <1>. QED  BY <1>1, <1>2, <1>3, <1>4, ResyncEffect DEF Latest

\* What a listener does between two resyncs.
Between ==
  /\ UNCHANGED <<setup, integration, request, running, serving, served>>
  /\ pc \notin {"initial", "resync"} /\ pc' # "initial"

LEMMA ListenerSteps ==
  /\ PollingStep \/ PollingTerminates =>
       Polls /\ (Between \/ PollingResync)
  /\ ConsumerStep \/ AutoCommit \/ Close =>
       /\ ~Polls
       /\ \/ Between \/ KafkaResync
          \/ UNCHANGED <<setup, integration, request, running, serving, served, pc>>
  <1>1. ASSUME PollingStep \/ PollingTerminates
        PROVE  Polls /\ (Between \/ PollingResync)
    <2>1. Compare(request) \/ Compare(0) => pc' \in {"wait", "resync"}
      BY DEF Compare
    <2>. QED  BY <1>1, <2>1
              DEF PollingStep, FirstState, InitializeResyncRequestWatermark, Poll,
                  PollRequest, PollingResync, PollingTerminates, Polls, Between
  <1>2. ASSUME ConsumerStep \/ AutoCommit \/ Close
        PROVE  /\ ~Polls
               /\ \/ Between \/ KafkaResync
                  \/ UNCHANGED <<setup, integration, request, running, serving, served, pc>>
    BY <1>2
       DEF ConsumerStep, Assign, Receive, KafkaResync, Commit, AutoCommit, Close,
           ConsumerReturns, Polls, Between
  <1>. QED  BY <1>1, <1>2

LEMMA ResyncsStep ==
  ASSUME ListenersTypeOK, Resyncs, ListenersNext
  PROVE  Resyncs'
  <1>. USE DEF ListenersTypeOK, EventListenerTypeOK
  <1>0. {"listener", "ticker"} = Caller
    BY DEF Caller
  <1>1. ASSUME NEW c \in Caller, BeginResync(c) \/ EndResync(c),
               UNCHANGED <<setup, integration, request>>,
               EndResync(c) => UNCHANGED served,
               c = "ticker" => UNCHANGED pc /\ (setup.ticker \/ EndResync(c)),
               c = "listener" =>
                 \/ pc' \in {"initial", "resync"} /\ BeginResync(c)
                 \/ EndResync(c) /\ pc' # "initial"
        PROVE  Resyncs'
    <2>1. served' <= request' /\ serving' <= integration'
      BY <1>1, ResyncEffect DEF Resyncs
    <2>2. \A d \in Caller : running'[d] <= integration'
      BY <1>1, ResyncEffect DEF Resyncs, Idle
    <2>3. CASE c = "listener"
      <3>1. running'["ticker"] = running["ticker"]
        BY <1>0, <1>1, <2>3, ResyncEffect
      <3>2. EndResync(c) => running'["listener"] = Idle
        BY <1>1, <2>3, ResyncEffect
      <3>3. BeginResync(c) => running'["listener"] # Idle
        BY <1>1, <2>3, ResyncEffect DEF Idle
      <3>. QED  BY <1>1, <2>1, <2>2, <2>3, <3>1, <3>2, <3>3 DEF Resyncs
    <2>4. CASE c = "ticker"
      <3>1. running'["listener"] = running["listener"]
        BY <1>0, <1>1, <2>4, ResyncEffect
      <3>2. EndResync(c) => running'["ticker"] = Idle
        BY <1>1, <2>4, ResyncEffect
      <3>. QED  BY <1>1, <2>1, <2>2, <2>4, <3>1, <3>2 DEF Resyncs
    <2>. QED  BY <1>0, <2>3, <2>4
  <1>2. CASE Between
    BY <1>2 DEF Between, Resyncs
  <1>12. \A c \in Caller : ~(BeginResync(c) /\ EndResync(c))
    BY DEF BeginResync, EndResync
  <1>3. CASE StartInitial
    BY <1>0, <1>1, <1>12, <1>3 DEF StartInitial
  <1>4. CASE EndInitial
    BY <1>0, <1>1, <1>12, <1>4 DEF EndInitial
  <1>5. CASE Tick
    BY <1>0, <1>1, <1>12, <1>5 DEF Tick
  <1>6. CASE EndTick
    BY <1>0, <1>1, <1>12, <1>6 DEF EndTick
  <1>7. CASE PollingResync
    BY <1>0, <1>1, <1>12, <1>7 DEF PollingResync
  <1>8. CASE KafkaResync
    BY <1>0, <1>1, <1>12, <1>8 DEF KafkaResync
  <1>9. CASE PortChanges \/ PortRequests \/ OthersPublish
    BY <1>9 DEF PortChanges, ChangeIntegration, PortRequests, RequestResync,
                OthersPublish, listenerVars, Resyncs, Caller, Idle
  <1>10. CASE Restarts
    BY <1>0, <1>10
       DEF Restarts, PollingRestart, ConsumerRestart, Restart, Resyncs, Idle
  <1>11. CASE UNCHANGED <<setup, integration, request, running, serving, served, pc>>
    BY <1>11 DEF Resyncs
  <1>. QED  BY <1>2, <1>3, <1>4, <1>5, <1>6, <1>7, <1>8, <1>9, <1>10, <1>11, ListenerSteps
            DEF ListenersNext, Starts, Ticks

-----------------------------------------------------------------------------
(* The polling listener. *)

LEMMA MarksAtResync ==
  ASSUME ListenersInv, Polls, BeginResync("listener"),
         UNCHANGED <<setup, integration, request, unseen, handlerVars>>
  PROVE  Marked'
  BY LatestEffect, ResyncEffect
     DEF ListenersInv, ListenersTypeOK, EventListenerTypeOK, HandlerTypeOK, PollingMarks,
         Marked, handlerVars, Caller

LEMMA MarksStep ==
  ASSUME ListenersInv, Polls, ListenersNext
  PROVE  Polls' /\ PollingMarks'
  <1>. USE DEF ListenersInv, ListenersTypeOK, EventListenerTypeOK, HandlerTypeOK, Polls,
               PollingMarks, handlerVars
  <1>0. /\ "listener" \in Caller /\ "ticker" \in Caller
        /\ 0 <= Latest /\ Latest <= integration
    BY LatestEffect DEF Caller
  <1>1. CASE StartInitial /\ UNCHANGED handlerVars
    BY <1>1, MarksAtResync DEF StartInitial, Decided
  <1>2. CASE EndInitial /\ UNCHANGED handlerVars
    <2>1. Latest' = Latest /\ Marked
      BY <1>2, LatestEffect DEF EndInitial, Decided
    <2>. QED  BY <1>2, <2>1 DEF EndInitial, Marked
  <1>3. CASE Ticks /\ UNCHANGED handlerVars
    <2>1. /\ UNCHANGED <<setup, integration, request, pc, unseen>>
          /\ served <= served' /\ running'["listener"] = running["listener"]
          /\ ~setup.ticker => UNCHANGED running
      <3>1. CASE Tick
        BY <1>0, <1>3, <3>1, ResyncEffect DEF Tick, Resyncs
      <3>2. CASE EndTick
        BY <1>0, <1>3, <3>2, ResyncEffect DEF EndTick, Resyncs
      <3>. QED  BY <1>3, <3>1, <3>2 DEF Ticks
    <2>2. ~setup.ticker => FALSE
      BY <1>0, <1>3, ResyncEffect DEF Ticks, Tick, EndTick, Resyncs
    <2>3. Marked => Marked'
      BY <1>3, <2>1, <2>2, ListenersTyped DEF Marked
    <2>. QED  BY <1>3, <2>1, <2>3 DEF Decided
  <1>4. CASE FirstState
    <2>1. ~Decided' /\ Latest' = Latest
      BY <1>4, LatestEffect DEF FirstState, Decided
    <2>. QED  BY <1>0, <1>4, <2>1 DEF FirstState, Marked
  <1>5. CASE InitializeResyncRequestWatermark
    <2>1. ~Decided /\ ~Decided' /\ Latest' = Latest
      BY <1>5, LatestEffect DEF InitializeResyncRequestWatermark, Decided
    <2>. QED  BY <1>5, <2>1 DEF InitializeResyncRequestWatermark, Marked, MayFail
  <1>6. CASE Poll
    <2>1. ~Decided /\ ~Decided' /\ Latest' = Latest
      BY <1>6, LatestEffect DEF Poll, Decided
    <2>. QED  BY <1>6, <2>1 DEF Poll, Marked, MayFail
  <1>7. CASE PollRequest
    <2>1. /\ ~Decided /\ Latest' = Latest /\ pc = "polled" /\ polled' = 0
          /\ UNCHANGED <<setup, integration, request, running, serving, served, unseen>>
          /\ failures' = failures \/ failures' = failures + 1
      BY <1>7, LatestEffect DEF PollRequest, Decided, MayFail
    <2>2. PICK u \in {0, request} : Compare(u)
      BY <1>7 DEF PollRequest
    <2>3. CASE pc' = "resync"
      <3>1. Decided'
        BY <1>0, <2>1, <2>3 DEF Decided, Resyncs
      <3>2. /\ lastIntegrationStateUpdatedAt' = polled
            /\ lastResyncRequestUpdatedAt' \in {u, lastResyncRequestUpdatedAt}
        BY <2>2, <2>3 DEF Compare
      <3>. QED  BY <2>1, <2>2, <2>3, <3>1, <3>2
    <2>4. CASE pc' = "wait" /\ UNCHANGED <<lastIntegrationStateUpdatedAt,
                                          lastResyncRequestUpdatedAt>>
      BY <2>1, <2>4 DEF Marked, Decided
    <2>. QED  BY <2>2, <2>3, <2>4 DEF Compare
  <1>8. CASE PollingResync
    <2>1. CASE BeginResync("listener") /\ UNCHANGED pc
      BY <1>8, <2>1, MarksAtResync DEF PollingResync
    <2>2. CASE EndResync("listener") /\ pc' = "wait" /\ UNCHANGED <<served, failures>>
      <3>1. Latest' = Latest /\ Marked
        BY <2>2, LatestEffect, ResyncEffect DEF Decided, Caller
      <3>. QED  BY <1>8, <2>2, <3>1 DEF PollingResync, Marked
    <2>. QED  BY <1>8, <2>1, <2>2 DEF PollingResync
  <1>9. CASE PollingTerminates
    <2>1. ~Decided /\ Latest' = Latest
      BY <1>9, LatestEffect DEF PollingTerminates, Decided
    <2>. QED  BY <1>9, <2>1 DEF PollingTerminates, Marked
  <1>10. CASE PortChanges \/ PortRequests
    <2>1. /\ UNCHANGED <<setup, running, serving, served, pc, unseen, failures,
                         handlerVars>>
          /\ integration <= integration' /\ request <= request'
      BY <1>10 DEF PortChanges, ChangeIntegration, PortRequests, RequestResync
    <2>2. Latest' = Latest
      BY <2>1, LatestEffect
    <2>. QED  BY <2>1, <2>2, ListenersTyped DEF Marked, Decided
  <1>11. CASE Restarts
    <2>1. PollingRestart
      BY <1>11 DEF Restarts
    <2>2. Latest' = 0
      BY <1>0, <2>1 DEF PollingRestart, Restart, Latest
    <2>. QED  BY <2>1, <2>2 DEF PollingRestart, Restart, Marked
  <1>. QED  BY <1>1, <1>2, <1>3, <1>4, <1>5, <1>6, <1>7, <1>8, <1>9, <1>10, <1>11,
               ListenerSteps
            DEF ListenersNext, Starts, PollingStep, OthersPublish

-----------------------------------------------------------------------------
(* The consumer. *)

LEMMA ServedAtResync ==
  ASSUME ListenersTypeOK, Resyncs, BeginResync("listener"),
         UNCHANGED <<setup, integration, request, unseen>>
  PROVE  AllServed'
  BY LatestEffect, ResyncEffect DEF AllServed, RequestServed, ChangeServed, Caller

\* As long as the listener handles nothing and its resync does not begin.
LEMMA ServedStays ==
  ASSUME ListenersTypeOK, Resyncs, AllServed,
         UNCHANGED <<setup, integration, request, unseen>>, Looked => Looked',
         UNCHANGED <<running, serving>> \/ EndResync("listener"),
         UNCHANGED served, UNCHANGED failures \/ MayFail
  PROVE  AllServed'
  <1>1. Latest' = Latest
    BY LatestEffect
  <1>2. failures > 0 => failures' > 0
    BY DEF MayFail, ListenersTypeOK, EventListenerTypeOK
  <1>. QED  BY <1>1, <1>2 DEF AllServed, RequestServed, ChangeServed

LEMMA OffsetsStep ==
  ASSUME ListenersInv, ~Polls, ListenersNext
  PROVE  ~Polls' /\ Offsets'
  <1>. USE DEF ListenersInv, ListenersTypeOK, EventListenerTypeOK, ConsumerTypeOK, Polls,
               Offsets, consumerVars
  <1>0. /\ "listener" \in Caller /\ "ticker" \in Caller
        /\ Len(topic) \in Nat /\ DOMAIN topic = 1..Len(topic)
    BY DEF Caller
  <1>1. CASE StartInitial /\ UNCHANGED consumerVars
    <2>1. AllServed'
      BY <1>1, ServedAtResync DEF StartInitial
    <2>. QED  BY <1>1, <2>1 DEF StartInitial, Decided
  <1>2. CASE EndInitial /\ UNCHANGED consumerVars
    <2>1. Pending => Pending'
      BY <1>2 DEF EndInitial, Pending, NextHandled, Concerns,
                  ShouldResyncFromIntegrationResyncRequest, ShouldResyncFromChangeLog
    <2>2. AllServed => AllServed'
      BY <1>2, ServedStays DEF EndInitial, Looked
    <2>. QED  BY <1>2, <2>1, <2>2 DEF EndInitial, Decided
  <1>3. CASE Ticks /\ UNCHANGED consumerVars
    <2>1. /\ UNCHANGED <<setup, integration, request, pc, unseen, consumerVars>>
          /\ running'["listener"] = running["listener"]
          /\ setup.ticker
          /\ served' = request \/ UNCHANGED served
      <3>1. CASE Tick
        BY <1>0, <1>3, <3>1, ResyncEffect DEF Tick
      <3>2. CASE EndTick
        BY <1>0, <1>3, <3>2, ResyncEffect DEF EndTick, Resyncs
      <3>. QED  BY <1>3, <3>1, <3>2 DEF Ticks
    <2>2. Decided' = Decided /\ NextHandled' = NextHandled
      BY <2>1 DEF Decided, NextHandled
    <2>3. Pending => Pending'
      BY <2>1, <2>2 DEF Pending, Concerns,
                  ShouldResyncFromIntegrationResyncRequest, ShouldResyncFromChangeLog
    <2>4. AllServed => AllServed'
      BY <2>1 DEF AllServed, RequestServed, Looked
    <2>. QED  BY <2>1, <2>2, <2>3, <2>4
              DEF Concerns, ShouldResyncFromIntegrationResyncRequest,
                  ShouldResyncFromChangeLog
  <1>4. CASE Assign
    <2>1. pc' = "wait" /\ ~Decided' /\ NextHandled' = StartOffset
      BY <1>4 DEF Assign, Decided, NextHandled
    <2>2. CASE committed = 0
      <3>1. AllServed'
        BY <1>4, <2>1, <2>2 DEF Assign, AllServed, RequestServed, ChangeServed, Looked
      <3>. QED  BY <1>0, <1>4, <2>1, <2>2, <3>1 DEF Assign, StartOffset
    <2>3. CASE committed # 0
      <3>1. NextHandled' = NextHandled
        BY <1>4, <2>1, <2>3 DEF Assign, StartOffset, NextHandled
      <3>2. Pending => Pending'
        BY <1>4, <3>1 DEF Assign, Pending, Concerns,
                  ShouldResyncFromIntegrationResyncRequest, ShouldResyncFromChangeLog
      <3>3. AllServed => AllServed'
        <4>1. Latest' = Latest /\ ~Looked
          BY <1>4, LatestEffect DEF Assign, Looked
        <4>. QED  BY <1>4, <4>1 DEF Assign, AllServed, RequestServed, ChangeServed
      <3>. QED  BY <1>0, <1>4, <2>1, <2>3, <3>2, <3>3 DEF Assign, StartOffset
    <2>. QED  BY <2>2, <2>3
  <1>5. CASE Receive
    <2>1. /\ pc = "wait" /\ position \in 1..Len(topic) /\ position' = position + 1
          /\ UNCHANGED <<setup, integration, request, unseen, running, serving, served,
                         failures, topic, committed>>
          /\ running["listener"] = Idle /\ ~Decided
      BY <1>0, <1>5 DEF Receive, Resyncs, Decided
    <2>2. AllServed => AllServed'
      BY <1>5, <2>1, ServedStays DEF Receive, Looked
    <2>3. CASE Concerns(topic[position])
      <3>1. pc' = "resync" /\ Decided' /\ NextHandled' = position
        BY <1>5, <2>1, <2>3 DEF Receive, Decided, NextHandled
      <3>2. Pending'
        BY <1>0, <2>1, <2>3, <3>1 DEF Pending, Concerns,
           ShouldResyncFromIntegrationResyncRequest, ShouldResyncFromChangeLog
      <3>3. Concerns(topic[position - 1])'
        BY <2>1, <2>3 DEF Concerns,
           ShouldResyncFromIntegrationResyncRequest, ShouldResyncFromChangeLog
      <3>. QED  BY <1>0, <2>1, <3>1, <3>2, <3>3
    <2>4. CASE ~Concerns(topic[position])
      <3>1. pc' = "commit" /\ ~Decided' /\ NextHandled' = position + 1
            /\ NextHandled = position
        BY <1>5, <2>1, <2>4 DEF Receive, Decided, NextHandled
      <3>2. Pending => Pending'
        BY <1>0, <2>1, <2>4, <3>1 DEF Pending, Concerns,
           ShouldResyncFromIntegrationResyncRequest, ShouldResyncFromChangeLog
      <3>. QED  BY <1>0, <2>1, <2>2, <3>1, <3>2
    <2>. QED  BY <2>3, <2>4
  <1>6. CASE KafkaResync
    <2>1. CASE BeginResync("listener") /\ UNCHANGED pc
      <3>1. AllServed'
        BY <1>6, <2>1, ServedAtResync DEF KafkaResync
      <3>2. ~Decided'
        BY <1>0, <2>1 DEF Decided, Idle, BeginResync, Failed
      <3>. QED  BY <1>6, <2>1, <3>1, <3>2 DEF KafkaResync
    <2>2. CASE EndResync("listener") /\ pc' = "commit" /\ UNCHANGED <<served, failures>>
      <3>1. ~Decided /\ ~Decided'
        BY <1>0, <2>2, ResyncEffect DEF Decided
      <3>2. Pending => Pending'
        BY <1>6, <2>2, <3>1 DEF KafkaResync, Pending, NextHandled, Concerns,
           ShouldResyncFromIntegrationResyncRequest, ShouldResyncFromChangeLog
      <3>3. AllServed => AllServed'
        BY <1>6, <2>2, ServedStays DEF KafkaResync, Looked
      <3>. QED  BY <1>6, <2>2, <3>1, <3>2, <3>3 DEF KafkaResync
    <2>. QED  BY <1>6, <2>1, <2>2 DEF KafkaResync
  <1>7. CASE Commit \/ AutoCommit \/ Close
    <2>1. /\ UNCHANGED <<setup, integration, request, unseen, running, serving, served,
                         topic, position>>
          /\ UNCHANGED failures \/ MayFail
          /\ committed' \in {committed, position}
          /\ pc' = pc \/ (pc = "commit" /\ pc' = "wait")
      BY <1>7 DEF Commit, AutoCommit, Close
    <2>2. position > committed \/ pc = "commit" \/ UNCHANGED committed
      BY <1>7 DEF Commit, AutoCommit, Close
    <2>3. pc \in {"initial", "listen"} => UNCHANGED committed
      BY <2>2
    <2>4. Decided' = Decided /\ NextHandled' = NextHandled
      BY <2>1, <2>3 DEF Decided, NextHandled
    <2>5. Pending => Pending'
      BY <2>1, <2>4 DEF Pending, Concerns,
           ShouldResyncFromIntegrationResyncRequest, ShouldResyncFromChangeLog
    <2>6. AllServed => AllServed'
      BY <2>1, ServedStays DEF Looked
    <2>7. Decided' => Concerns(topic[position - 1])'
      BY <2>1, <2>4 DEF Concerns,
           ShouldResyncFromIntegrationResyncRequest, ShouldResyncFromChangeLog
    <2>. QED  BY <2>1, <2>3, <2>4, <2>5, <2>6, <2>7
  <1>8. CASE ConsumerReturns
    BY <1>8 DEF ConsumerReturns, Decided
  <1>9. ASSUME NEW m \in Message, Publish(m),
               UNCHANGED <<setup, pc, running, serving, served, unseen, failures>>,
               Concerns(m) \/ UNCHANGED <<integration, request>>
        PROVE  Offsets'
    <2>1. /\ Len(topic') = Len(topic) + 1
          /\ topic'[Len(topic) + 1] = m
          /\ \A i \in DOMAIN topic : i \in DOMAIN topic' /\ topic'[i] = topic[i]
          /\ Len(topic) + 1 \in DOMAIN topic'
      BY <1>9, Published
    <2>2. UNCHANGED <<position, committed>>
      BY <1>9 DEF Publish
    <2>3. Decided' = Decided /\ NextHandled' = NextHandled
      BY <1>9, <2>2 DEF Decided, NextHandled
    <2>4. Pending => Pending'
      BY <1>9, <2>1, <2>3 DEF Pending, Concerns,
         ShouldResyncFromIntegrationResyncRequest, ShouldResyncFromChangeLog
    <2>5. Concerns(m) => Pending'
      <3>1. NextHandled <= Len(topic) + 1
        BY <1>0 DEF NextHandled
      <3>. QED  BY <1>9, <2>1, <2>3, <3>1 DEF Pending, Concerns,
         ShouldResyncFromIntegrationResyncRequest, ShouldResyncFromChangeLog
    <2>6. UNCHANGED <<integration, request>> => (AllServed => AllServed')
      BY <1>9, ServedStays DEF Looked
    <2>7. Decided' => Concerns(topic[position - 1])'
      BY <1>9, <2>1, <2>2, <2>3 DEF Concerns,
         ShouldResyncFromIntegrationResyncRequest, ShouldResyncFromChangeLog
    <2>. QED  BY <1>0, <1>9, <2>1, <2>2, <2>3, <2>4, <2>5, <2>6, <2>7
  <1>10. CASE PortChanges \/ PortRequests \/ OthersPublish
    <2>1. CASE PortChanges
      BY <1>9, <2>1, OurMessages DEF PortChanges, ChangeIntegration, Announce
    <2>2. CASE PortRequests
      BY <1>9, <2>2, OurMessages DEF PortRequests, RequestResync, Announce
    <2>3. CASE OthersPublish
      BY <1>9, <2>3, OurMessages DEF OthersPublish, listenerVars
    <2>. QED  BY <1>10, <2>1, <2>2, <2>3
  <1>11. CASE Restarts
    BY <1>0, <1>11 DEF Restarts, ConsumerRestart, Restart, Decided
  <1>. QED  BY <1>1, <1>2, <1>3, <1>4, <1>5, <1>6, <1>7, <1>8, <1>10, <1>11, ListenerSteps
            DEF ListenersNext, Starts, ConsumerStep

-----------------------------------------------------------------------------
(* Together. *)

LEMMA ListenersStep ==
  ASSUME ListenersInv, ListenersNext
  PROVE  ListenersInv'
  BY ListenersTyped, ResyncsStep, MarksStep, OffsetsStep DEF ListenersInv

LEMMA ListenersLeftAlone == ListenersInv /\ UNCHANGED listenersVars => ListenersInv'
  <1>. SUFFICES ASSUME ListenersInv, UNCHANGED listenersVars PROVE ListenersInv'
    OBVIOUS
  <1>. USE DEF ListenersInv, listenersVars, listenerVars, handlerVars, consumerVars
  <1>1. ListenersTypeOK' /\ Resyncs' /\ Polls' = Polls
    BY DEF ListenersTypeOK, EventListenerTypeOK, HandlerTypeOK, ConsumerTypeOK, Resyncs,
           Polls
  <1>2. PollingMarks => PollingMarks'
    BY DEF PollingMarks, Marked, Decided, Latest
  <1>3. Offsets => Offsets'
    BY DEF Offsets, Pending, NextHandled, Decided, AllServed, RequestServed, ChangeServed,
           Looked, Latest, Concerns, ShouldResyncFromIntegrationResyncRequest,
           ShouldResyncFromChangeLog
  <1>. QED  BY <1>1, <1>2, <1>3

\* What remains of the invariant when the listener has seen what there is.
LEMMA ListenersInvImplies ==
  ListenersInv => ListenersTypeOK /\ NoChangeForgotten /\ NoRequestForgotten
  <1>. SUFFICES ASSUME ListenersInv, Settled
                PROVE  NoChangeForgotten /\ NoRequestForgotten
    BY DEF ListenersInv, NoChangeForgotten, NoRequestForgotten
  <1>. USE DEF ListenersInv, ListenersTypeOK, EventListenerTypeOK, HandlerTypeOK,
               ConsumerTypeOK
  <1>1. pc = "wait" /\ ~Decided /\ Latest = serving /\ serving <= integration
        /\ served <= request
    BY DEF Settled, PollingSettled, ConsumerSettled, Decided, Latest, Resyncs
  <1>2. CASE Polls
    BY <1>1, <1>2 DEF Settled, PollingSettled, PollingMarks, Marked, NoChangeForgotten,
                      NoRequestForgotten
  <1>3. CASE ~Polls
    <2>1. ~Pending
      BY <1>1, <1>3 DEF Settled, ConsumerSettled, Pending, NextHandled
    <2>2. AllServed
      BY <1>1, <1>3, <2>1 DEF Offsets
    <2>. QED  BY <1>1, <2>2 DEF AllServed, RequestServed, ChangeServed, NoChangeForgotten,
                                NoRequestForgotten
  <1>. QED  BY <1>2, <1>3
=============================================================================
