------------------------------- MODULE Services -------------------------------
(* What runs beside the controllers for the whole life of the process: its event *)
(* listener, its metrics, its log writer and the authenticator of its client.     *)
(* None of them waits for another, and they share no state but the process: one  *)
(* behaviour is about one of them, with those that use it as its environment.    *)
EXTENDS Listeners, Metrics, HTTPWriter, Authenticator

VARIABLE part            \* the one that this behaviour is about

servicesVars == <<part, listenersVars, metricsVars, writerVars, authVars>>

Part == {"listener", "metrics", "logs", "token"}

ServicesTypeOK ==
  /\ part \in Part
  /\ ListenersTypeOK /\ MetricsTypeOK /\ HTTPWriterTypeOK /\ AuthenticatorTypeOK

ServicesInit ==
  /\ part \in Part
  /\ part # "listener" =>
       setup = [type |-> "POLLING", ticker |-> FALSE, requestsTopic |-> FALSE]
  /\ ListenersInit /\ MetricsInit /\ HTTPWriterInit /\ AuthenticatorInit

InListener(step) ==
  part = "listener" /\ step /\ UNCHANGED <<part, metricsVars, writerVars, authVars>>
InMetrics(step) ==
  part = "metrics" /\ step /\ UNCHANGED <<part, listenersVars, writerVars, authVars>>
InLogs(step) ==
  part = "logs" /\ step /\ UNCHANGED <<part, listenersVars, metricsVars, authVars>>
InToken(step) ==
  part = "token" /\ step /\ UNCHANGED <<part, listenersVars, metricsVars, writerVars>>

ServicesNext ==
  \/ InListener(ListenersNext)
  \/ InMetrics(MetricsNext)
  \/ InLogs(HTTPWriterNext)
  \/ InToken(AuthenticatorNext)

\* The goroutines of the listener and of the ticker are scheduled, Port answers but
\* for the failures counted, the timer ticks and every call of Shutdown goes on; a
\* request, its retries and the token request are steps of one goroutine, which gets
\* the mutex once it is free. No fairness makes Port change or the process end.
ServicesSpec ==
  /\ ServicesInit /\ [][ServicesNext]_servicesVars
  /\ WF_servicesVars(InListener(ListenersSteps))
  /\ WF_servicesVars(InListener(TickerSteps))
  /\ WF_servicesVars(InLogs(HTTPWriterSteps))
  /\ WF_servicesVars(InLogs(TimerReturns))
  /\ \A c \in Closer : WF_servicesVars(InLogs(CloserStep(c)))
  /\ \A r \in Requester : WF_servicesVars(InToken(RequestStep(r)))
=============================================================================
