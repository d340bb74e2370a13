-------------------------------- MODULE Polling --------------------------------
(* polling.go: the handler remembers the updatedAt of the integration and of the *)
(* last request to resync, asks Port for both on every tick and resyncs when one *)
(* of them is new. 0 stands for an empty timestamp.                              *)
EXTENDS EventListener

VARIABLES
  lastIntegrationStateUpdatedAt, lastResyncRequestUpdatedAt,
  polled         \* the integration's updatedAt of the iteration under way

handlerVars == <<lastIntegrationStateUpdatedAt, lastResyncRequestUpdatedAt, polled>>

HandlerTypeOK ==
  /\ {lastIntegrationStateUpdatedAt, polled} \subseteq 0..MaxVersion
  /\ lastResyncRequestUpdatedAt \in 0..MaxRequests

HandlerInit ==
  /\ lastIntegrationStateUpdatedAt = 0
  /\ lastResyncRequestUpdatedAt = 0
  /\ polled = 0

\* Fault: only the first state is new.
ShouldResyncOnce(lastUpdatedAt, seen) == lastUpdatedAt # 0 /\ seen = 0

ShouldResync(lastUpdatedAt, seen) ==
  lastUpdatedAt # 0 /\ (seen = 0 \/ seen # lastUpdatedAt)

ShouldResyncFromResyncRequest(updatedAt, seen) ==
  updatedAt # 0 /\ (seen = 0 \/ seen < updatedAt)

\* Run reads the integration first; when that fails it leaves both marks empty.
FirstState ==
  /\ setup.type = "POLLING" /\ pc = "listen"
  /\ \/ /\ lastIntegrationStateUpdatedAt' = integration
        /\ pc' = "watermark"
        /\ unseen' = [integration |-> integration, request |-> 0]
        /\ UNCHANGED failures
     \/ /\ MayFail
        /\ pc' = "wait"
        /\ unseen' = [integration |-> 0, request |-> 0]
        /\ UNCHANGED lastIntegrationStateUpdatedAt
  /\ UNCHANGED <<setup, integration, request, running, serving, served, restarts,
                 lastResyncRequestUpdatedAt, polled>>

InitializeResyncRequestWatermark ==
  /\ setup.type = "POLLING" /\ pc = "watermark"
  /\ \/ /\ lastResyncRequestUpdatedAt' = request
        /\ unseen' = [unseen EXCEPT !.request = request]
        /\ UNCHANGED failures
     \/ MayFail /\ UNCHANGED <<lastResyncRequestUpdatedAt, unseen>>
  /\ pc' = "wait"
  /\ UNCHANGED <<setup, integration, request, running, serving, served, restarts,
                 lastIntegrationStateUpdatedAt, polled>>

\* pollIteration up to its first answer; a failure skips the iteration.
Poll ==
  /\ setup.type = "POLLING" /\ pc = "wait"
  /\ \/ pc' = "polled" /\ polled' = integration /\ UNCHANGED failures
     \/ MayFail /\ UNCHANGED <<pc, polled>>
  /\ UNCHANGED <<setup, integration, request, running, serving, served, unseen,
                 restarts, lastIntegrationStateUpdatedAt, lastResyncRequestUpdatedAt>>

\* The rest of pollIteration after the second answer: the marks advance, then the
\* resync begins. A failure to read the request leaves only the first signal.
Compare(updatedAt) ==
  LET integrationChanged == ShouldResync(polled, lastIntegrationStateUpdatedAt)
      requestChanged ==
        ShouldResyncFromResyncRequest(updatedAt, lastResyncRequestUpdatedAt)
  IN IF integrationChanged \/ requestChanged
     THEN /\ lastIntegrationStateUpdatedAt' = polled
          /\ lastResyncRequestUpdatedAt' =
               IF updatedAt # 0 THEN updatedAt ELSE lastResyncRequestUpdatedAt
          /\ pc' = "resync"
     ELSE /\ pc' = "wait"
          /\ UNCHANGED <<lastIntegrationStateUpdatedAt, lastResyncRequestUpdatedAt>>

PollRequest ==
  /\ setup.type = "POLLING" /\ pc = "polled"
  /\ \/ Compare(request) /\ UNCHANGED failures
     \/ Compare(0) /\ MayFail
  /\ polled' = 0
  /\ UNCHANGED <<setup, integration, request, running, serving, served, unseen,
                 restarts>>

PollingResync ==
  /\ setup.type = "POLLING" /\ pc = "resync"
  /\ \/ BeginResync("listener") /\ UNCHANGED pc
     \/ EndResync("listener") /\ pc' = "wait" /\ UNCHANGED <<served, failures>>
  /\ UNCHANGED <<setup, integration, request, unseen, restarts, handlerVars>>

\* The signal is read between two iterations only.
PollingTerminates ==
  /\ setup.type = "POLLING" /\ pc = "wait"
  /\ pc' = "stopped"
  /\ UNCHANGED <<setup, integration, request, running, serving, served, unseen,
                 failures, restarts, handlerVars>>

PollingRestart ==
  /\ Restart
  /\ lastIntegrationStateUpdatedAt' = 0
  /\ lastResyncRequestUpdatedAt' = 0
  /\ polled' = 0

PollingStep ==
  FirstState \/ InitializeResyncRequestWatermark \/ Poll \/ PollRequest \/ PollingResync

\* The handler waits and has seen all there is.
PollingSettled ==
  /\ pc = "wait"
  /\ lastIntegrationStateUpdatedAt = integration
  /\ lastResyncRequestUpdatedAt = request
=============================================================================
