----------------------------- MODULE EventListener -----------------------------
(* What the two event listeners share (event_handler.go, main.go): Start runs a *)
(* first resync and then the listener, which calls resync for every change of   *)
(* the integration in Port and for every request to resync; with a resync       *)
(* interval a ticker calls it too. RunResync itself is Resync.tla: here it stops *)
(* the running controllers, reads the configuration and later starts new ones.  *)
EXTENDS Integers, Sequences

CONSTANTS MaxVersion,    \* changes of the integration, plus one
          MaxRequests,   \* requests to resync
          MaxFailures,   \* failing reads and resyncs
          MaxRestarts    \* crashes of the process

ASSUME EventListenerAssumption ==
  /\ MaxVersion \in Nat \ {0}
  /\ {MaxRequests, MaxFailures, MaxRestarts} \subseteq Nat

VARIABLES
  setup,         \* the configuration of the process: listener type and ticker
  integration,   \* updatedAt of the integration, which names its configuration
  request,       \* updatedAt of the last request to resync, 0 when there is none
  pc,            \* where the listener's goroutine is
  running,       \* per caller of RunResync: the version it read, or Idle
  serving,       \* version of the running controllers, 0 when there are none
  served,        \* the last request when the latest resync began
  unseen,        \* versions that were there before the listener listened
  failures, restarts

listenerVars ==
  <<setup, integration, request, pc, running, serving, served, unseen, failures,
    restarts>>

Idle == -1
Failed == 0
Caller == {"listener", "ticker"}
EventListenerTypes == {"POLLING", "KAFKA"}

EventListenerTypeOK ==
  /\ setup \in [type : EventListenerTypes, ticker : BOOLEAN, requestsTopic : BOOLEAN]
  /\ integration \in 1..MaxVersion
  /\ request \in 0..MaxRequests
  /\ pc \in {"start", "initial", "listen", "watermark", "wait", "polled", "resync",
             "commit", "stopped"}
  /\ running \in [Caller -> Idle..MaxVersion]
  /\ serving \in 0..MaxVersion
  /\ served \in 0..MaxRequests
  /\ unseen \in [integration : 0..MaxVersion, request : 0..MaxRequests]
  /\ failures \in 0..MaxFailures
  /\ restarts \in 0..MaxRestarts

\* CreateEventListener: any other type ends the process at startup.
EventListenerInit ==
  /\ setup \in [type : EventListenerTypes, ticker : BOOLEAN, requestsTopic : BOOLEAN]
  /\ setup.requestsTopic => setup.type = "KAFKA"
  /\ integration = 1
  /\ request = 0
  /\ pc = "start"
  /\ running = [c \in Caller |-> Idle]
  /\ serving = 0
  /\ served = 0
  /\ unseen = [integration |-> 0, request |-> 0]
  /\ failures = 0
  /\ restarts = 0

-----------------------------------------------------------------------------
(* RunResync, as its callers see it. *)

\* A request to Port, or a whole resync, may fail.
MayFail == failures < MaxFailures /\ failures' = failures + 1

\* Stop of the old controllers and the reading of the integration.
BeginResync(c) ==
  /\ running[c] = Idle
  /\ serving' = 0
  /\ served' = request
  /\ \/ running' = [running EXCEPT ![c] = integration] /\ UNCHANGED failures
     \/ running' = [running EXCEPT ![c] = Failed] /\ MayFail

\* The new controllers, or none when the resync failed, whose error is logged.
EndResync(c) ==
  /\ running[c] # Idle
  /\ serving' = running[c]
  /\ running' = [running EXCEPT ![c] = Idle]

\* event_handler.Start: the first resync, whose failure is not repeated either.
StartInitial ==
  /\ pc = "start"
  /\ BeginResync("listener")
  /\ pc' = "initial"
  /\ UNCHANGED <<setup, integration, request, unseen, restarts>>

EndInitial ==
  /\ pc = "initial"
  /\ EndResync("listener")
  /\ pc' = "listen"
  /\ UNCHANGED <<setup, integration, request, served, unseen, failures, restarts>>

\* Fault: the ticker does not tick once the listener has been started.
TickAtStart ==
  /\ setup.ticker /\ pc = "start"
  /\ BeginResync("ticker")
  /\ UNCHANGED <<setup, integration, request, pc, unseen, restarts>>

\* The ticker's goroutine; it was started before the listener.
Tick ==
  /\ setup.ticker /\ pc # "stopped"
  /\ BeginResync("ticker")
  /\ UNCHANGED <<setup, integration, request, pc, unseen, restarts>>

EndTick ==
  /\ pc # "stopped"
  /\ EndResync("ticker")
  /\ UNCHANGED <<setup, integration, request, pc, served, unseen, failures, restarts>>

-----------------------------------------------------------------------------
(* Port, and the end of the process. *)

ChangeIntegration ==
  /\ integration < MaxVersion
  /\ integration' = integration + 1
  /\ UNCHANGED <<setup, request, pc, running, serving, served, unseen, failures,
                 restarts>>

RequestResync ==
  /\ request < MaxRequests
  /\ request' = request + 1
  /\ UNCHANGED <<setup, integration, pc, running, serving, served, unseen, failures,
                 restarts>>

\* The process dies, or was terminated, and is started again.
Restart ==
  /\ restarts < MaxRestarts
  /\ restarts' = restarts + 1
  /\ pc' = "start"
  /\ running' = [c \in Caller |-> Idle]
  /\ serving' = 0
  /\ UNCHANGED <<setup, integration, request, served, unseen, failures>>
=============================================================================
