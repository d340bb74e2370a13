------------------------------- MODULE Consumer -------------------------------
(* consumer.go and consumer/event_listener.go: the Kafka consumer polls a topic, *)
(* handles every message before it commits its offset, and resyncs for the       *)
(* messages that are about this integration.                                     *)
EXTENDS EventListener

CONSTANT MaxMessages     \* messages of the topic
ASSUME ConsumerAssumption == MaxMessages \in Nat

VARIABLES
  topic,         \* the messages of the topic that resolveKafkaTopic chose
  position,      \* the next message Poll returns, 0 before the assignment
  committed,     \* the group's offset, 0 when it has none
  enabled        \* FALSE once the consumer is closed

consumerVars == <<topic, position, committed, enabled>>

Nobody == "nobody"
Us == "us"
Others == "others"
Unreadable == [action |-> "unreadable", context |-> Nobody, after |-> Nobody]

\* The change of this integration, a request to resync it, and what is neither.
Change == [action |-> "UPDATE", context |-> Nobody, after |-> Us]
Request == [action |-> "RESYNC", context |-> Us, after |-> Nobody]
Foreign == {[action |-> "RESYNC", context |-> Others, after |-> Others], Unreadable}
Message == {Change, Request} \cup Foreign

ConsumerTypeOK ==
  /\ topic \in Seq(Message) /\ Len(topic) <= MaxMessages
  /\ position \in 0..(MaxMessages + 1)
  /\ committed \in 0..(MaxMessages + 1)
  /\ enabled \in BOOLEAN

ConsumerInit == topic = <<>> /\ position = 0 /\ committed = 0 /\ enabled = TRUE

ShouldResyncFromIntegrationResyncRequest(m) == m.context = Us

\* Fault: the change log is looked through for requests only.
ShouldResyncOnRequest(m) == m.action = "RESYNC" /\ m.context = Us

ShouldResyncFromChangeLog(m) ==
  \/ m.action = "RESYNC" /\ m.context = Us
  \/ m.after = Us

\* handleMessage: a message that cannot be parsed is reported and dropped.
Concerns(m) ==
  /\ m # Unreadable
  /\ IF setup.requestsTopic
     THEN ShouldResyncFromIntegrationResyncRequest(m)
     ELSE ShouldResyncFromChangeLog(m)

\* Fault: the group's offset is not used.
LatestOffset == Len(topic) + 1

\* auto.offset.reset: from the group's offset, else the latest.
StartOffset == IF committed = 0 THEN Len(topic) + 1 ELSE committed

\* SubscribeTopics and the assignment.
Assign ==
  /\ setup.type = "KAFKA" /\ pc = "listen"
  /\ pc' = "wait"
  /\ position' = StartOffset
  /\ unseen' = IF committed = 0
               THEN [integration |-> integration, request |-> request]
               ELSE [integration |-> 0, request |-> 0]
  /\ UNCHANGED <<setup, integration, request, running, serving, served, failures,
                 restarts, topic, committed, enabled>>

\* Poll returns a message; only one that concerns us takes the handler any time.
Receive ==
  /\ setup.type = "KAFKA" /\ pc = "wait" /\ enabled
  /\ position \in DOMAIN topic
  /\ position' = position + 1
  /\ pc' = IF Concerns(topic[position]) THEN "resync" ELSE "commit"
  /\ UNCHANGED <<setup, integration, request, running, serving, served, unseen,
                 failures, restarts, topic, committed, enabled>>

KafkaResync ==
  /\ setup.type = "KAFKA" /\ pc = "resync"
  /\ \/ BeginResync("listener") /\ UNCHANGED pc
     \/ EndResync("listener") /\ pc' = "commit" /\ UNCHANGED <<served, failures>>
  /\ UNCHANGED <<setup, integration, request, unseen, restarts, consumerVars>>

\* Commit of what was handled; its error, as after Close, is logged only.
Commit ==
  /\ setup.type = "KAFKA" /\ pc = "commit"
  /\ \/ enabled /\ committed' = position /\ UNCHANGED failures
     \/ ~enabled /\ UNCHANGED <<committed, failures>>
     \/ enabled /\ MayFail /\ UNCHANGED committed
  /\ pc' = "wait"
  /\ UNCHANGED <<setup, integration, request, running, serving, served, unseen,
                 restarts, topic, position, enabled>>

\* The client library commits by itself what Poll has returned, handled or not.
AutoCommit ==
  /\ setup.type = "KAFKA" /\ pc # "stopped" /\ enabled
  /\ position > committed
  /\ committed' = position
  /\ UNCHANGED <<setup, integration, request, pc, running, serving, served, unseen,
                 failures, restarts, topic, position, enabled>>

\* The signal's goroutine closes the client, which commits too, at any moment.
Close ==
  /\ setup.type = "KAFKA" /\ pc \in {"wait", "resync", "commit"} /\ enabled
  /\ enabled' = FALSE
  /\ committed' = IF position > committed THEN position ELSE committed
  /\ UNCHANGED <<setup, integration, request, pc, running, serving, served, unseen,
                 failures, restarts, topic, position>>

\* The loop's condition; Consume returns and so does main.
ConsumerReturns ==
  /\ setup.type = "KAFKA" /\ pc = "wait" /\ ~enabled
  /\ pc' = "stopped"
  /\ UNCHANGED <<setup, integration, request, running, serving, served, unseen,
                 failures, restarts, consumerVars>>

ConsumerRestart ==
  /\ Restart
  /\ position' = 0 /\ enabled' = TRUE
  /\ UNCHANGED <<topic, committed>>

\* What Port writes to the topic with a change, with a request, and otherwise.
Publish(m) ==
  /\ Len(topic) < MaxMessages
  /\ topic' = Append(topic, m)
  /\ UNCHANGED <<position, committed, enabled>>

ConsumerStep == Assign \/ Receive \/ KafkaResync \/ Commit \/ ConsumerReturns

ConsumerSettled == pc = "wait" /\ position = Len(topic) + 1
=============================================================================
