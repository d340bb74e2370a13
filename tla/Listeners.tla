------------------------------- MODULE Listeners -------------------------------
(* The process with its listener, of either type (event_listener_factory.go), the *)
(* ticker of main.go and Port, which tells the consumer of its changes.           *)
EXTENDS Polling, Consumer

listenersVars == <<listenerVars, handlerVars, consumerVars>>

ListenersTypeOK == EventListenerTypeOK /\ HandlerTypeOK /\ ConsumerTypeOK

ListenersInit == EventListenerInit /\ HandlerInit /\ ConsumerInit

Polls == setup.type = "POLLING"

\* Port writes a change, and a request, to the topic this consumer reads.
Announce(m) == IF Polls THEN UNCHANGED consumerVars ELSE Publish(m)
PortChanges ==
  /\ ChangeIntegration
  /\ Announce(IF setup.requestsTopic THEN Request ELSE Change)
  /\ UNCHANGED handlerVars
PortRequests == RequestResync /\ Announce(Request) /\ UNCHANGED handlerVars
OthersPublish ==
  /\ ~Polls
  /\ \E m \in Foreign : Publish(m)
  /\ UNCHANGED <<listenerVars, handlerVars>>

Starts == StartInitial \/ EndInitial
Ticks == Tick \/ EndTick
Restarts == IF Polls THEN PollingRestart /\ UNCHANGED consumerVars
                     ELSE ConsumerRestart /\ UNCHANGED handlerVars

ListenersNext ==
  \/ (Starts \/ Ticks) /\ UNCHANGED <<handlerVars, consumerVars>>
  \/ (PollingStep \/ PollingTerminates) /\ UNCHANGED consumerVars
  \/ (ConsumerStep \/ AutoCommit \/ Close) /\ UNCHANGED handlerVars
  \/ PortChanges \/ PortRequests \/ OthersPublish \/ Restarts

ListenersSpec == ListenersInit /\ [][ListenersNext]_listenersVars

-----------------------------------------------------------------------------
Settled == IF Polls THEN PollingSettled ELSE ConsumerSettled

\* Without a ticker, once the listener waits and has seen what there is, the
\* controllers run with the integration's present configuration. The exceptions
\* are the two of the code: a resync that failed, which leaves no controllers
\* and is not repeated, and a change that came before the listener's first look.
NoChangeForgotten ==
  Settled /\ ~setup.ticker =>
    \/ serving = integration
    \/ serving = 0 /\ failures > 0
    \/ integration <= unseen.integration

\* A request to resync that the listener has seen was followed by a resync that
\* began after it, unless it came before the listener's first look: whatever was
\* lost, read twice, committed early or delivered again after a restart.
NoRequestForgotten ==
  Settled => served = request \/ request <= unseen.request

\* The listener's goroutine, and the ticker's, are scheduled; Port answers but for
\* the failures counted. Nothing makes Port change, or the process end.
ListenersSteps ==
  \/ Starts /\ UNCHANGED <<handlerVars, consumerVars>>
  \/ PollingStep /\ UNCHANGED consumerVars
  \/ ConsumerStep /\ UNCHANGED handlerVars
TickerSteps == Ticks /\ UNCHANGED <<handlerVars, consumerVars>>

\* The listener keeps up: it never stays with something new that it leaves alone,
\* nor does it resync for ever for one change.
KeepsUp == pc # "start" ~> Settled \/ pc = "stopped"

\* With a resync interval, controllers with the present configuration run again
\* and again: the ticker repairs what the listener missed or what failed.
TickerRepairs ==
  setup.ticker /\ pc # "start" ~> serving = integration \/ pc = "stopped"
=============================================================================
