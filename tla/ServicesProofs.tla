---------------------------- MODULE ServicesProofs ----------------------------
(***************************************************************************)
(* What the services of the process guarantee, for any goroutines, limits  *)
(* and interleaving: the log writer, the authenticator and the metrics      *)
(* here, the listeners in ListenersProofs.                                  *)
(***************************************************************************)
EXTENDS Services, ListenersProofs, FiniteSetTheorems

-----------------------------------------------------------------------------
(* The log writer. *)

\* What a closer has flushed is out of the buffer for good.
FlushedIsOut ==
  \A c \in Closer : closer[c] \in {"wait", "returned"} =>
    heard[c] \subseteq 1..lines /\ heard[c] \cap buffer = {}

\* Two closers past the test, or one of them when the channel is closed, overlapped.
PastTheTest ==
  /\ \A c, d \in Closer : closer[c] = "close" /\ closer[d] = "close" /\ c # d => overlapped
  /\ \A c \in Closer : closer[c] = "close" /\ done => overlapped

LogsInv ==
  /\ HTTPWriterTypeOK
  /\ LinesOnce /\ FlushedIsOut /\ ShutdownWaits
  /\ PastTheTest /\ OnlyOverlapPanics

LEMMA LogsInit == HTTPWriterInit => LogsInv
  <1>. SUFFICES ASSUME HTTPWriterInit PROVE LogsInv
    OBVIOUS
  <1>1. HTTPWriterTypeOK
    <2>1. /\ lines \in 0..MaxLines
          /\ {buffer, shipped, lost} \subseteq SUBSET Line
          /\ batches \subseteq SUBSET Line
      BY HTTPWriterAssumption DEF HTTPWriterInit
    <2>. QED  BY <2>1 DEF HTTPWriterInit, HTTPWriterTypeOK
  <1>2. LinesOnce
    BY DEF HTTPWriterInit, LinesOnce
  <1>3. FlushedIsOut /\ ShutdownWaits
    BY DEF HTTPWriterInit, FlushedIsOut, ShutdownWaits
  <1>4. PastTheTest /\ OnlyOverlapPanics
    BY DEF HTTPWriterInit, PastTheTest, OnlyOverlapPanics, LogsPanic
  <1>. QED  BY <1>1, <1>2, <1>3, <1>4 DEF LogsInv

\* A flush moves the buffer's lines into a batch, where they are once again.
LEMMA FlushKeepsLines ==
  ASSUME HTTPWriterTypeOK, LinesOnce, FlushLogs, UNCHANGED <<lines, shipped, lost>>
  PROVE  /\ LinesOnce'
         /\ buffer' = {} /\ batches' \subseteq SUBSET Line
  <1>1. UNION batches' = (UNION batches) \cup buffer
    BY DEF FlushLogs
  <1>2. \A b, c \in batches' : b = c \/ b \cap c = {}
    BY DEF FlushLogs, LinesOnce
  <1>3. batches' \subseteq SUBSET Line
    BY DEF FlushLogs, HTTPWriterTypeOK
  <1>. QED  BY <1>1, <1>2, <1>3 DEF FlushLogs, LinesOnce

LEMMA LogsStep ==
  ASSUME LogsInv, HTTPWriterNext
  PROVE  LogsInv'
  <1>. USE HTTPWriterAssumption DEF LogsInv
  <1>1. ASSUME NEW w \in Writer, WriteLine(w) PROVE LogsInv'
    <2>. USE <1>1 DEF WriteLine
    <2>1. HTTPWriterTypeOK'
      BY DEF HTTPWriterTypeOK, Line
    <2>2. LinesOnce'
      BY DEF LinesOnce, HTTPWriterTypeOK
    <2>3. FlushedIsOut'
      BY DEF FlushedIsOut, HTTPWriterTypeOK
    <2>. QED  BY <2>1, <2>2, <2>3
              DEF ShutdownWaits, PastTheTest, OnlyOverlapPanics, LogsPanic
  <1>2. ASSUME FlushLogs, UNCHANGED <<url, lines, shipped, lost, done, closer, heard,
                                      overlapped>>,
               HTTPWriterTypeOK'
        PROVE  LogsInv'
    <2>1. LinesOnce' /\ buffer' = {}
      BY <1>2, FlushKeepsLines
    <2>2. FlushedIsOut'
      BY <1>2, <2>1 DEF FlushedIsOut
    <2>. QED  BY <1>2, <2>1, <2>2
              DEF ShutdownWaits, PastTheTest, OnlyOverlapPanics, LogsPanic
  <1>3. ASSUME NEW w \in Writer, WriterFlushes(w) PROVE LogsInv'
    <2>1. HTTPWriterTypeOK'
      BY <1>3, FlushKeepsLines DEF WriterFlushes, HTTPWriterTypeOK
    <2>. QED  BY <1>2, <1>3, <2>1 DEF WriterFlushes
  <1>4. ASSUME TimerFlushes PROVE LogsInv'
    <2>1. HTTPWriterTypeOK'
      BY <1>4, FlushKeepsLines DEF TimerFlushes, HTTPWriterTypeOK
    <2>. QED  BY <1>2, <1>4, <2>1 DEF TimerFlushes
  <1>5. ASSUME NEW b \in batches, SendLogs(b) PROVE LogsInv'
    <2>. USE <1>5 DEF SendLogs
    <2>1. HTTPWriterTypeOK'
      BY DEF HTTPWriterTypeOK
    <2>2. UNION batches' \subseteq (UNION batches) \ b
      BY DEF LinesOnce
    <2>3. UNION batches \subseteq (UNION batches') \cup b
      OBVIOUS
    <2>4. LinesOnce'
      BY <2>2, <2>3 DEF LinesOnce
    <2>. QED  BY <2>1, <2>4
              DEF FlushedIsOut, ShutdownWaits, PastTheTest, OnlyOverlapPanics, LogsPanic
  <1>6. ASSUME StartTimer \/ TimerReturns PROVE LogsInv'
    <2>1. HTTPWriterTypeOK'
      BY <1>6 DEF StartTimer, TimerReturns, HTTPWriterTypeOK
    <2>2. UNCHANGED <<lines, buffer, batches, shipped, lost, done, closer, heard,
                      overlapped>>
      BY <1>6 DEF StartTimer, TimerReturns
    <2>. QED  BY <2>1, <2>2
              DEF LinesOnce, FlushedIsOut, ShutdownWaits, PastTheTest, OnlyOverlapPanics,
                  LogsPanic
  <1>7. ASSUME NEW c \in Closer, CloserStep(c) PROVE LogsInv'
    <2>. USE DEF CloserMoves
    <2>1. CASE CancelContext(c)
      <3>. USE <2>1 DEF CancelContext
      <3>1. HTTPWriterTypeOK'
        BY DEF HTTPWriterTypeOK
      <3>. QED  BY <3>1 DEF LinesOnce, FlushedIsOut, ShutdownWaits, PastTheTest,
                             OnlyOverlapPanics, LogsPanic, HTTPWriterTypeOK
    <2>2. CASE TestDone(c)
      <3>. USE <2>2 DEF TestDone, AlreadyClosed
      <3>1. HTTPWriterTypeOK'
        BY DEF HTTPWriterTypeOK
      <3>2. PastTheTest'
        BY DEF PastTheTest, HTTPWriterTypeOK
      <3>. QED  BY <3>1, <3>2 DEF LinesOnce, FlushedIsOut, ShutdownWaits,
                             OnlyOverlapPanics, LogsPanic, HTTPWriterTypeOK
    <2>3. CASE CloseDone(c)
      <3>. USE <2>3 DEF CloseDone
      <3>1. HTTPWriterTypeOK'
        BY DEF HTTPWriterTypeOK
      <3>2. PastTheTest' /\ OnlyOverlapPanics'
        BY DEF PastTheTest, OnlyOverlapPanics, LogsPanic, HTTPWriterTypeOK
      <3>. QED  BY <3>1, <3>2 DEF LinesOnce, FlushedIsOut, ShutdownWaits, HTTPWriterTypeOK
    <2>4. CASE LastFlush(c)
      <3>. USE <2>4 DEF LastFlush
      <3>1. LinesOnce' /\ buffer' = {} /\ batches' \subseteq SUBSET Line
        BY FlushKeepsLines
      <3>2. HTTPWriterTypeOK'
        BY <3>1 DEF HTTPWriterTypeOK, Line
      <3>3. FlushedIsOut'
        BY <3>1 DEF FlushedIsOut, HTTPWriterTypeOK
      <3>. QED  BY <3>1, <3>2, <3>3
                DEF ShutdownWaits, PastTheTest, OnlyOverlapPanics, LogsPanic,
                    HTTPWriterTypeOK
    <2>5. CASE CloseReturns(c)
      <3>. USE <2>5 DEF CloseReturns
      <3>1. HTTPWriterTypeOK'
        BY DEF HTTPWriterTypeOK
      <3>2. heard[c] \subseteq shipped \cup lost
        BY DEF AllDone, LinesOnce, FlushedIsOut
      <3>3. ShutdownWaits'
        BY <3>2 DEF ShutdownWaits, HTTPWriterTypeOK
      <3>. QED  BY <3>1, <3>3 DEF LinesOnce, FlushedIsOut, PastTheTest,
                             OnlyOverlapPanics, LogsPanic, HTTPWriterTypeOK
    <2>. QED  BY <1>7, <2>1, <2>2, <2>3, <2>4, <2>5 DEF CloserStep
  <1>. QED  BY <1>1, <1>3, <1>4, <1>5, <1>6, <1>7 DEF HTTPWriterNext

-----------------------------------------------------------------------------
(* The authenticator. *)

Call == [at : {"idle", "hook", "locked", "tokenHook", "asked", "issued", "sent",
               "answered", "failed", "rejected"},
         attempt : 0..RetryCount, tokenAttempt : 0..RetryCount, token : Time,
         handed : Time, travelled : Time, ended : Time]

\* Nothing is dated later than now, and the Authenticator has its token from before.
Dated ==
  /\ AccessToken <= LastRefresh /\ LastRefresh <= clock
  /\ \A r \in Requester : /\ call[r].at = "issued" => call[r].token <= clock
                          /\ call[r].handed <= clock

\* A token that was sent was handed out within its lifetime, but for its travel.
SentInTime ==
  \A r \in Requester :
    call[r].at = "sent" => call[r].handed - call[r].token <= Lifetime + call[r].travelled

TokenInv == AuthenticatorTypeOK /\ Dated /\ SentInTime /\ RejectedOnTheWay

LEMMA TokenInit == AuthenticatorInit => TokenInv
  <1>. SUFFICES ASSUME AuthenticatorInit PROVE TokenInv
    OBVIOUS
  <1>1. NoCall \in Call /\ 0 \in Time /\ 0 \in 0..MaxUnanswered
    BY AuthenticatorAssumption DEF NoCall, Call, Time
  <1>2. AuthenticatorTypeOK
    BY <1>1 DEF AuthenticatorInit, AuthenticatorTypeOK, Call
  <1>. QED  BY <1>2 DEF TokenInv, AuthenticatorInit, Dated, SentInTime, RejectedOnTheWay,
                        NoCall

\* A step of one request: what it leaves of the others' records.
LEMMA SetsOne ==
  ASSUME AuthenticatorTypeOK, NEW r \in Requester, NEW new \in Call, Sets(r, new)
  PROVE  /\ call' \in [Requester -> Call]
         /\ call'[r] = new
         /\ \A q \in Requester \ {r} : call'[q] = call[q]
  BY DEF AuthenticatorTypeOK, Call, Sets

\* Where the step keeps the clock, its own record is all that has to be looked at.
LEMMA TokenKept ==
  ASSUME TokenInv, NEW r \in Requester, NEW new \in Call, Sets(r, new),
         UNCHANGED clock,
         AccessToken' \in Time, LastRefresh' \in Time, ExpiresIn' \in {0, Lifetime},
         AuthMutex' \in Requester \cup {NoOne}, unanswered' \in 0..MaxUnanswered,
         AccessToken' <= LastRefresh', LastRefresh' <= clock,
         new.at = "issued" => new.token <= clock,
         new.handed <= clock,
         new.at = "sent" => new.handed - new.token <= Lifetime + new.travelled,
         new.at = "rejected" => new.ended > new.handed \/ new.travelled > 0
  PROVE  TokenInv'
  <1>1. /\ call' \in [Requester -> Call]
        /\ call'[r] = new
        /\ \A q \in Requester \ {r} : call'[q] = call[q]
    BY SetsOne DEF TokenInv
  <1>2. AuthenticatorTypeOK'
    BY <1>1 DEF TokenInv, AuthenticatorTypeOK, Call
  <1>3. Dated'
    BY <1>1 DEF TokenInv, Dated
  <1>4. SentInTime' /\ RejectedOnTheWay'
    BY <1>1 DEF TokenInv, SentInTime, RejectedOnTheWay
  <1>. QED  BY <1>2, <1>3, <1>4 DEF TokenInv

LEMMA TokenStep ==
  ASSUME TokenInv, AuthenticatorNext
  PROVE  TokenInv'
  <1>. USE AuthenticatorAssumption DEF TokenInv
  <1>0. call \in [Requester -> Call]
    BY DEF AuthenticatorTypeOK, Call
  <1>1. CASE Pass
    <2>. USE <1>1 DEF Pass
    <2>1. AuthenticatorTypeOK'
      BY DEF AuthenticatorTypeOK, Time
    <2>2. Dated'
      BY <1>0 DEF Dated, AuthenticatorTypeOK, Time, Call
    <2>. QED  BY <2>1, <2>2 DEF SentInTime, RejectedOnTheWay
  <1>2. ASSUME NEW r \in Requester, Begin(r) \/ RequestStep(r) PROVE TokenInv'
    <2>. USE DEF KeepsToken
    <2>0. call[r] \in Call
      BY <1>0
    <2>1. CASE Begin(r)
      <3>1. [NoCall EXCEPT !.at = "hook"] \in Call
        BY DEF NoCall, Call, Time
      <3>. QED  BY <2>1, <3>1, TokenKept DEF Begin, Dated, AuthenticatorTypeOK, NoCall, Time
    <2>2. CASE Authenticate(r)
      <3>1. [call[r] EXCEPT !.at = "locked"] \in Call
        BY <2>0 DEF Call
      <3>. QED  BY <2>0, <2>2, <3>1, TokenKept DEF Authenticate, Dated, AuthenticatorTypeOK, Call
    <2>3. CASE HandOut(r)
      <3>. DEFINE new == [call[r] EXCEPT !.at = "sent", !.token = AccessToken,
                            !.handed = clock, !.travelled = LastRefresh - AccessToken]
      <3>0. LastRefresh - AccessToken \in Time /\ clock \in Time /\ AccessToken \in Time
        BY DEF AuthenticatorTypeOK, Dated, Time
      <3>1. new \in Call
        BY <2>0, <3>0 DEF Call
      <3>2. clock - AccessToken <= Lifetime + (LastRefresh - AccessToken)
        BY <2>3 DEF HandOut, Expired, AuthenticatorTypeOK, Time
      <3>3. /\ new.at = "sent" /\ new.token = AccessToken /\ new.handed = clock
            /\ new.travelled = LastRefresh - AccessToken
        BY <2>0 DEF Call
      <3>4. Sets(r, new)
        BY <2>3 DEF HandOut
      <3>. HIDE DEF new
      <3>. QED  BY <2>3, <3>1, <3>2, <3>3, <3>4, TokenKept
                DEF HandOut, Dated, AuthenticatorTypeOK, Time
    <2>4. CASE Refresh(r)
      <3>0. 0 \in 0..RetryCount
        OBVIOUS
      <3>1. [call[r] EXCEPT !.at = "tokenHook", !.tokenAttempt = 0] \in Call
        BY <2>0, <3>0 DEF Call
      <3>. QED  BY <2>0, <2>4, <3>1, TokenKept DEF Refresh, Dated, AuthenticatorTypeOK, Call
    <2>5. CASE AskForToken(r)
      <3>1. [call[r] EXCEPT !.at = "asked"] \in Call
        BY <2>0 DEF Call
      <3>. QED  BY <2>0, <2>5, <3>1, TokenKept DEF AskForToken, Dated, AuthenticatorTypeOK, Call
    <2>6. /\ Retried(r) \in Call
          /\ Retried(r).at \in {"hook", "failed"}
          /\ Retried(r).handed = call[r].handed
      <3>1. call[r].attempt < RetryCount => call[r].attempt + 1 \in 0..RetryCount
        BY <2>0 DEF Call
      <3>2. CASE call[r].attempt < RetryCount
        <4>1. Retried(r) = [call[r] EXCEPT !.at = "hook", !.attempt = call[r].attempt + 1]
          BY <3>2 DEF Retried
        <4>. QED  BY <2>0, <3>1, <3>2, <4>1 DEF Call
      <3>3. CASE ~(call[r].attempt < RetryCount)
        <4>1. Retried(r) = [call[r] EXCEPT !.at = "failed"]
          BY <3>3 DEF Retried
        <4>. QED  BY <2>0, <4>1 DEF Call
      <3>. QED  BY <3>2, <3>3
    <2>7. CASE IssueToken(r)
      <3>1. CASE Sets(r, [call[r] EXCEPT !.at = "issued", !.token = clock])
                 /\ UNCHANGED <<AuthMutex, unanswered>>
        <4>. DEFINE new == [call[r] EXCEPT !.at = "issued", !.token = clock]
        <4>1. new \in Call
          BY <2>0 DEF Call, AuthenticatorTypeOK
        <4>2. new.at = "issued" /\ new.token = clock /\ new.handed = call[r].handed
          BY <2>0 DEF Call
        <4>. HIDE DEF new
        <4>3. Sets(r, new)
          BY <3>1 DEF new
        <4>. QED  BY <2>7, <3>1, <4>1, <4>2, <4>3, TokenKept
                  DEF IssueToken, Dated, AuthenticatorTypeOK, Time
      <3>2. ASSUME call[r].tokenAttempt < RetryCount,
                   Sets(r, [call[r] EXCEPT !.at = "tokenHook",
                              !.tokenAttempt = call[r].tokenAttempt + 1]),
                   unanswered' \in 0..MaxUnanswered, UNCHANGED AuthMutex
            PROVE  TokenInv'
        <4>. DEFINE new == [call[r] EXCEPT !.at = "tokenHook",
                              !.tokenAttempt = call[r].tokenAttempt + 1]
        <4>0. call[r].tokenAttempt + 1 \in 0..RetryCount
          BY <2>0, <3>2 DEF Call
        <4>1. new \in Call
          BY <2>0, <4>0 DEF Call
        <4>2. new.at = "tokenHook" /\ new.handed = call[r].handed
          BY <2>0 DEF Call
        <4>3. Sets(r, new)
          BY <3>2
        <4>. HIDE DEF new
        <4>. QED  BY <2>7, <3>2, <4>1, <4>2, <4>3, TokenKept
                  DEF IssueToken, Dated, AuthenticatorTypeOK
      <3>3. ASSUME Sets(r, Retried(r)), AuthMutex' = NoOne,
                   unanswered' \in 0..MaxUnanswered
            PROVE  TokenInv'
        BY <2>6, <2>7, <3>3, TokenKept DEF IssueToken, Dated, AuthenticatorTypeOK
      <3>4. unanswered < MaxUnanswered /\ unanswered' = unanswered + 1
              => unanswered' \in 0..MaxUnanswered
        BY DEF AuthenticatorTypeOK
      <3>. QED  BY <2>7, <3>1, <3>2, <3>3, <3>4 DEF IssueToken
    <2>8. CASE ReceiveToken(r)
      <3>. DEFINE new == [call[r] EXCEPT !.at = "sent", !.handed = clock,
                                         !.travelled = clock - call[r].token]
      <3>1. call[r].token \in Time /\ call[r].token <= clock
        BY <2>0, <2>8 DEF ReceiveToken, Dated, Call
      <3>0. clock - call[r].token \in Time /\ clock \in Time
        BY <3>1 DEF AuthenticatorTypeOK, Time
      <3>2. new \in Call
        BY <2>0, <3>0 DEF Call
      <3>3. /\ new.at = "sent" /\ new.token = call[r].token /\ new.handed = clock
            /\ new.travelled = clock - call[r].token
        BY <2>0 DEF Call
      <3>4. Sets(r, new)
        BY <2>8 DEF ReceiveToken
      <3>. HIDE DEF new
      <3>. QED  BY <2>8, <3>1, <3>2, <3>3, <3>4, TokenKept
                DEF ReceiveToken, Dated, AuthenticatorTypeOK, Time
    <2>9. CASE Answer(r)
      <3>1. CASE clock - call[r].token > Lifetime
        <4>. DEFINE new == [call[r] EXCEPT !.at = "rejected", !.ended = clock]
        <4>1. new \in Call
          BY <2>0 DEF Call, AuthenticatorTypeOK
        <4>2. /\ new.at = "rejected" /\ new.ended = clock /\ new.handed = call[r].handed
              /\ new.travelled = call[r].travelled
          BY <2>0 DEF Call
        <4>3. Sets(r, new) /\ UNCHANGED unanswered
          BY <2>9, <3>1 DEF Answer
        <4>4. /\ call[r].handed - call[r].token <= Lifetime + call[r].travelled
              /\ call[r].handed <= clock
          BY <2>9 DEF Answer, SentInTime, Dated
        <4>5. clock > call[r].handed \/ call[r].travelled > 0
          BY <2>0, <3>1, <4>4 DEF Call, AuthenticatorTypeOK, Time
        <4>. HIDE DEF new
        <4>. QED  BY <2>9, <4>1, <4>2, <4>3, <4>4, <4>5, TokenKept
                  DEF Answer, Dated, AuthenticatorTypeOK
      <3>2. CASE ~(clock - call[r].token > Lifetime)
        <4>1. [call[r] EXCEPT !.at = "answered"] \in Call
          BY <2>0 DEF Call
        <4>2. CASE Sets(r, [call[r] EXCEPT !.at = "answered"]) /\ UNCHANGED unanswered
          BY <2>0, <2>9, <4>1, <4>2, TokenKept DEF Answer, Dated, AuthenticatorTypeOK, Call
        <4>3. CASE /\ unanswered < MaxUnanswered /\ unanswered' = unanswered + 1
                   /\ Sets(r, Retried(r))
          <5>1. unanswered' \in 0..MaxUnanswered
            BY <4>3 DEF AuthenticatorTypeOK
          <5>. QED  BY <2>6, <2>9, <4>3, <5>1, TokenKept DEF Answer, Dated, AuthenticatorTypeOK
        <4>. QED  BY <2>9, <3>2, <4>2, <4>3 DEF Answer
      <3>. QED  BY <3>1, <3>2
    <2>. QED  BY <1>2, <2>1, <2>2, <2>3, <2>4, <2>5, <2>7, <2>8, <2>9 DEF RequestStep
  <1>. QED  BY <1>1, <1>2 DEF AuthenticatorNext

\* Between the lock and the unlock of AuthenticateClient.
InAuthenticate == {"locked", "tokenHook", "asked", "issued"}

\* The mutex belongs to the one request that is in AuthenticateClient, if there is one:
\* whichever way a request leaves it, with a token, after its last retry of the token
\* request or for another attempt of its own, it gives the mutex back, and a request
\* that waits for the mutex waits for another.
MutexGivenBack ==
  \A r \in Requester : AuthMutex = r <=> call[r].at \in InAuthenticate

Stage == [idle |-> 0, hook |-> 1, locked |-> 2, tokenHook |-> 3, asked |-> 3,
          issued |-> 4, sent |-> 5, answered |-> 6, failed |-> 6, rejected |-> 6]

\* Further on: in a later attempt, or later in the same one, or with a later attempt of
\* its token request. The attempts of both are bounded, so there is a last.
Further(new, old) ==
  \/ new.attempt > old.attempt
  \/ /\ new.attempt = old.attempt
     /\ Stage[new.at] > Stage[old.at]
  \/ /\ new.attempt = old.attempt
     /\ Stage[old.at] = 3 /\ Stage[new.at] = 3
     /\ \/ new.tokenAttempt > old.tokenAttempt
        \/ /\ new.tokenAttempt = old.tokenAttempt
           /\ old.at = "tokenHook" /\ new.at = "asked"

OnlyFurther == \A r \in Requester : call'[r] = call[r] \/ Further(call'[r], call[r])

\* What a step of one request does to its place, its attempts and the mutex.
Moves(r) ==
  LET old == call[r]
      new == call'[r]
      same == new.attempt = old.attempt
      gives == AuthMutex' = NoOne
      keeps == AuthMutex' = AuthMutex
      retried == \/ new.at = "hook" /\ new.attempt > old.attempt
                 \/ new.at = "failed" /\ same
  IN \/ old.at = "idle" /\ new.at = "hook" /\ new.attempt = 0 /\ keeps
     \/ /\ old.at = "hook" /\ new.at = "locked" /\ same
        /\ AuthMutex = NoOne /\ AuthMutex' = r
     \/ old.at = "locked" /\ new.at = "sent" /\ same /\ gives
     \/ old.at = "locked" /\ new.at = "tokenHook" /\ same /\ keeps
     \/ /\ old.at = "tokenHook" /\ new.at = "asked" /\ same /\ keeps
        /\ new.tokenAttempt = old.tokenAttempt
     \/ old.at = "asked" /\ new.at = "issued" /\ same /\ keeps
     \/ /\ old.at = "asked" /\ new.at = "tokenHook" /\ same /\ keeps
        /\ new.tokenAttempt > old.tokenAttempt
     \/ old.at = "asked" /\ retried /\ gives
     \/ old.at = "issued" /\ new.at = "sent" /\ same /\ gives
     \/ old.at = "sent" /\ new.at \in {"answered", "rejected"} /\ same /\ keeps
     \/ old.at = "sent" /\ retried /\ keeps

LEMMA StepMoves ==
  ASSUME TokenInv, NEW r \in Requester, Begin(r) \/ RequestStep(r)
  PROVE  /\ Moves(r)
         /\ \A q \in Requester \ {r} : call'[q] = call[q]
  <1>0. call \in [Requester -> Call] /\ call[r] \in Call
    BY DEF TokenInv, AuthenticatorTypeOK, Call
  <1>1. \A q \in Requester \ {r} : call'[q] = call[q]
    BY <1>0 DEF Begin, RequestStep, Authenticate, HandOut, Refresh, AskForToken,
                IssueToken, ReceiveToken, Answer, Sets
  <1>2. ASSUME NEW new, Sets(r, new) PROVE call'[r] = new
    BY <1>0, <1>2 DEF Sets
  <1>3. LET n == Retried(r) IN \/ n.at = "hook" /\ n.attempt > call[r].attempt
                               \/ n.at = "failed" /\ n.attempt = call[r].attempt
    <2>1. CASE call[r].attempt < RetryCount
      BY <1>0, <2>1 DEF Retried, Call
    <2>2. CASE ~(call[r].attempt < RetryCount)
      BY <1>0, <2>2 DEF Retried, Call
    <2>. QED  BY <2>1, <2>2
  <1>4. CASE Begin(r)
    <2>1. call'[r] = [NoCall EXCEPT !.at = "hook"]
      BY <1>2, <1>4 DEF Begin
    <2>. QED  BY <1>1, <1>4, <2>1 DEF Begin, NoCall, Moves
  <1>5. CASE Authenticate(r)
    <2>1. call'[r] = [call[r] EXCEPT !.at = "locked"]
      BY <1>2, <1>5 DEF Authenticate
    <2>. QED  BY <1>0, <1>1, <1>5, <2>1 DEF Authenticate, Call, Moves
  <1>6. CASE HandOut(r)
    <2>1. call'[r] = [call[r] EXCEPT !.at = "sent", !.token = AccessToken, !.handed = clock,
                                     !.travelled = LastRefresh - AccessToken]
      BY <1>2, <1>6 DEF HandOut
    <2>. QED  BY <1>0, <1>1, <1>6, <2>1 DEF HandOut, Call, Moves
  <1>7. CASE Refresh(r)
    <2>1. call'[r] = [call[r] EXCEPT !.at = "tokenHook", !.tokenAttempt = 0]
      BY <1>2, <1>7 DEF Refresh
    <2>. QED  BY <1>0, <1>1, <1>7, <2>1 DEF Refresh, Call, Moves
  <1>8. CASE AskForToken(r)
    <2>1. call'[r] = [call[r] EXCEPT !.at = "asked"]
      BY <1>2, <1>8 DEF AskForToken
    <2>. QED  BY <1>0, <1>1, <1>8, <2>1 DEF AskForToken, Call, Moves
  <1>9. CASE IssueToken(r)
    <2>1. CASE Sets(r, [call[r] EXCEPT !.at = "issued", !.token = clock])
               /\ UNCHANGED <<AuthMutex, unanswered>>
      <3>1. call'[r] = [call[r] EXCEPT !.at = "issued", !.token = clock]
        BY <1>2, <2>1
      <3>. QED  BY <1>0, <1>1, <1>9, <2>1, <3>1 DEF IssueToken, Call, Moves
    <2>2. CASE Sets(r, [call[r] EXCEPT !.at = "tokenHook",
                          !.tokenAttempt = call[r].tokenAttempt + 1])
               /\ UNCHANGED AuthMutex
      <3>1. call'[r] = [call[r] EXCEPT !.at = "tokenHook",
                                       !.tokenAttempt = call[r].tokenAttempt + 1]
        BY <1>2, <2>2
      <3>. QED  BY <1>0, <1>1, <1>9, <2>2, <3>1 DEF IssueToken, Call, Moves
    <2>3. CASE Sets(r, Retried(r)) /\ AuthMutex' = NoOne
      <3>1. call'[r] = Retried(r)
        BY <1>2, <2>3
      <3>. QED  BY <1>1, <1>3, <1>9, <2>3, <3>1 DEF IssueToken, Moves
    <2>. QED  BY <1>9, <2>1, <2>2, <2>3 DEF IssueToken
  <1>10. CASE ReceiveToken(r)
    <2>1. call'[r] = [call[r] EXCEPT !.at = "sent", !.handed = clock,
                                     !.travelled = clock - call[r].token]
      BY <1>2, <1>10 DEF ReceiveToken
    <2>. QED  BY <1>0, <1>1, <1>10, <2>1 DEF ReceiveToken, Call, Moves
  <1>11. CASE Answer(r)
    <2>1. call[r].at = "sent" /\ UNCHANGED AuthMutex
      BY <1>11 DEF Answer
    <2>2. \/ call'[r] = [call[r] EXCEPT !.at = "rejected", !.ended = clock]
          \/ call'[r] = [call[r] EXCEPT !.at = "answered"]
          \/ call'[r] = Retried(r)
      BY <1>2, <1>11 DEF Answer
    <2>. QED  BY <1>0, <1>1, <1>3, <2>1, <2>2 DEF Call, Moves
  <1>. QED  BY <1>4, <1>5, <1>6, <1>7, <1>8, <1>9, <1>10, <1>11 DEF RequestStep

MutexInv ==
  /\ MutexGivenBack
  /\ \A r \in Requester : call[r].at = "idle" => call[r].attempt = 0

LEMMA MutexStep ==
  ASSUME TokenInv, MutexInv, AuthenticatorNext
  PROVE  MutexInv' /\ OnlyFurther
  <1>. USE AuthenticatorAssumption
  <1>0. call \in [Requester -> Call] /\ AuthMutex \in Requester \cup {NoOne}
    BY DEF TokenInv, AuthenticatorTypeOK, Call
  <1>1. CASE Pass
    BY <1>1 DEF Pass, MutexInv, MutexGivenBack, OnlyFurther
  <1>2. ASSUME NEW r \in Requester, Begin(r) \/ RequestStep(r)
        PROVE  MutexInv' /\ OnlyFurther
    <2>1. Moves(r) /\ \A q \in Requester \ {r} : call'[q] = call[q]
      BY <1>2, StepMoves
    <2>2. \/ /\ call[r].at \in InAuthenticate <=> call'[r].at \in InAuthenticate
             /\ UNCHANGED AuthMutex
          \/ AuthMutex = NoOne /\ AuthMutex' = r /\ call'[r].at \in InAuthenticate
          \/ /\ call[r].at \in InAuthenticate /\ AuthMutex' = NoOne
             /\ call'[r].at \notin InAuthenticate
      BY <2>1 DEF Moves, InAuthenticate
    <2>3. MutexGivenBack'
      BY <1>0, <2>1, <2>2 DEF MutexInv, MutexGivenBack
    <2>4. call'[r].at # "idle"
      BY <2>1 DEF Moves
    <2>5. Further(call'[r], call[r])
      BY <1>0, <2>1 DEF Moves, Further, Stage, MutexInv, Call
    <2>. QED  BY <2>1, <2>3, <2>4, <2>5 DEF MutexInv, OnlyFurther
  <1>. QED  BY <1>1, <1>2 DEF AuthenticatorNext

-----------------------------------------------------------------------------
(* The metrics. *)

Position == {"outside", "checked", "locking", "locked", "deferred", "adding", "added"}

\* What the counts need of MetricsTypeOK.
CountsTyped ==
  /\ aggregatedMetricsInstance \in 0..MaxResyncs
  /\ objectCount \in [ResyncNumber -> Nat] /\ added \in [ResyncNumber -> Nat]
  /\ mutex \in [ResyncNumber -> Adder \cup {Unheld}]
  /\ gauge \in Nat /\ own \in Nat
  /\ resync \in [at : {"idle", "running", "flushing"}, number : 0..MaxResyncs]
  /\ adder \in [Adder -> [at : Position, locked : 0..MaxResyncs, unlock : 0..MaxResyncs,
                          map : 0..MaxResyncs, count : Nat]]
  /\ straddled \in BOOLEAN /\ panicked \subseteq Adder
  /\ \A a \in Adder : /\ adder[a].at = "outside" => adder[a] = NotAdding
                      /\ adder[a].at = "adding" => adder[a].map \in ResyncNumber

\* The variable names the instance of the resync under way, and its goroutines count
\* only meanwhile.
InstanceNamed ==
  /\ aggregatedMetricsInstance = IF resync.at = "idle" THEN 0 ELSE resync.number
  /\ resync.at # "idle" => resync.number \in ResyncNumber
  /\ \A a \in Own : adder[a].at # "outside" => Measured

\* Without a straddling worker all four reads of a call found one instance, whose lock
\* its caller has from the second on.
OneInstance(a) ==
  /\ adder[a].at \notin {"outside", "checked"} =>
       adder[a].locked = resync.number /\ resync.number \in ResyncNumber
  /\ adder[a].at \in {"locked", "deferred", "adding", "added"} => mutex[resync.number] = a
  /\ adder[a].at \in {"deferred", "adding", "added"} => adder[a].unlock = resync.number
  /\ adder[a].at = "adding" =>
       adder[a].map = resync.number /\ adder[a].count = objectCount[resync.number]

NothingLost ==
  /\ \A r \in ResyncNumber : objectCount[r] = added[r]
  /\ resync.at # "idle" => own <= added[resync.number]
  /\ resync.at = "flushing" => own <= gauge /\ gauge <= added[resync.number]

CountsInv ==
  /\ CountsTyped /\ InstanceNamed
  /\ ~straddled => NothingLost /\ \A a \in Adder : OneInstance(a)
  /\ OwnInstanceThere

LEMMA CountsInit == MetricsInit => CountsInv
  <1>. SUFFICES ASSUME MetricsInit PROVE CountsInv
    OBVIOUS
  <1>1. CountsTyped
    <2>1. 0 \in 0..MaxResyncs
      BY MetricsAssumption
    <2>. QED  BY <2>1 DEF MetricsInit, CountsTyped, NotAdding, Position
  <1>2. InstanceNamed /\ OwnInstanceThere
    BY DEF MetricsInit, InstanceNamed, OwnInstanceThere, NotAdding, Adder
  <1>3. NothingLost /\ \A a \in Adder : OneInstance(a)
    BY DEF MetricsInit, NothingLost, OneInstance, NotAdding
  <1>. QED  BY <1>1, <1>2, <1>3 DEF CountsInv

\* The steps of the resync.
LEMMA ResyncCounts ==
  ASSUME CountsInv, NewAggregatedMetrics \/ FlushGauges \/ ClearInstance
  PROVE  CountsInv'
  <1>. USE MetricsAssumption DEF CountsInv
  <1>1. CASE NewAggregatedMetrics
    <2>. USE <1>1 DEF NewAggregatedMetrics
    <2>0. resync.number + 1 \in ResyncNumber /\ resync.number + 1 \in 0..MaxResyncs
      BY DEF CountsTyped, ResyncNumber
    <2>1. CountsTyped'
      BY <2>0 DEF CountsTyped
    <2>2. InstanceNamed' /\ OwnInstanceThere'
      BY <2>0 DEF InstanceNamed, Measured, NoPanic, OwnInstanceThere
    <2>3. ASSUME ~straddled' PROVE NothingLost' /\ \A a \in Adder : OneInstance(a)'
      <3>0. ~(\E a \in Adder : adder[a] # NotAdding)
        BY <2>3, Zenon
      <3>1. \A a \in Adder : adder[a].at = "outside"
        BY <3>0 DEF NotAdding
      <3>2. NothingLost'
        BY <2>0, <2>3 DEF NothingLost, CountsTyped
      <3>. QED  BY <3>1, <3>2 DEF OneInstance
    <2>. QED  BY <2>1, <2>2, <2>3
  <1>2. CASE FlushGauges
    <2>. USE <1>2 DEF FlushGauges
    <2>1. CountsTyped'
      BY DEF CountsTyped, InstanceNamed, Measured
    <2>2. InstanceNamed' /\ OwnInstanceThere'
      BY DEF InstanceNamed, Measured, NoPanic, OwnInstanceThere, CountsTyped, NotAdding
    <2>3. ASSUME ~straddled' PROVE NothingLost' /\ \A a \in Adder : OneInstance(a)'
      BY <2>3 DEF NothingLost, OneInstance, InstanceNamed, CountsTyped, Measured
    <2>. QED  BY <2>1, <2>2, <2>3
  <1>3. CASE ClearInstance
    <2>. USE <1>3 DEF ClearInstance
    <2>1. CountsTyped'
      BY DEF CountsTyped
    <2>2. InstanceNamed' /\ OwnInstanceThere'
      BY DEF InstanceNamed, Measured, NoPanic, OwnInstanceThere, CountsTyped
    <2>3. ASSUME ~straddled' PROVE NothingLost' /\ \A a \in Adder : OneInstance(a)'
      BY <2>3 DEF NothingLost, OneInstance, CountsTyped
    <2>. QED  BY <2>1, <2>2, <2>3
  <1>. QED  BY <1>1, <1>2, <1>3

\* A step of one call that moves its own record, and may take, keep or panic.
LEMMA OneAdderMoves ==
  ASSUME CountsTyped, NEW a \in Adder, NEW next, AdderMoves(a, next)
  PROVE  /\ adder'[a] = next
         /\ \A b \in Adder \ {a} : adder'[b] = adder[b]
  BY DEF CountsTyped, AdderMoves

\* A read that finds the instance, or nil, leaves all but its own record alone.
LEMMA RereadCounts ==
  ASSUME CountsInv, NEW a \in Adder, FindLock(a) \/ DeferUnlock(a) \/ ReadCount(a)
  PROVE  CountsInv'
  <1>. USE MetricsAssumption DEF CountsInv
  <1>1. adder[a].at \in {"checked", "locked", "deferred"}
    BY DEF FindLock, DeferUnlock, ReadCount, Rereads
  <1>2. CASE aggregatedMetricsInstance = 0
    <2>1. /\ panicked' = {a}
          /\ UNCHANGED <<aggregatedMetricsInstance, objectCount, mutex, gauge, resync,
                         adder, added, own, straddled>>
      BY <1>2 DEF FindLock, DeferUnlock, ReadCount, Rereads, Quietly
    <2>2. a \notin Own
      BY <1>1, <1>2 DEF InstanceNamed, Measured, ResyncNumber
    <2>3. CountsTyped'
      BY <2>1 DEF CountsTyped
    <2>. QED  BY <2>1, <2>2, <2>3
              DEF InstanceNamed, Measured, OwnInstanceThere, NothingLost, OneInstance
  <1>3. CASE aggregatedMetricsInstance # 0
    <2>. DEFINE n == aggregatedMetricsInstance
    <2>0. n \in ResyncNumber /\ n = resync.number /\ resync.at # "idle"
      BY <1>3 DEF CountsTyped, ResyncNumber, InstanceNamed
    <2>1. UNCHANGED <<aggregatedMetricsInstance, objectCount, mutex, gauge, resync,
                      added, own, straddled, panicked>> /\ NoPanic
      BY <1>3 DEF FindLock, DeferUnlock, ReadCount, Rereads, Quietly
    <2>. DEFINE old == adder[a]
                new == adder'[a]
    <2>2. PICK next : AdderMoves(a, next)
      BY <1>3, Zenon DEF FindLock, DeferUnlock, ReadCount, Rereads
    <2>3. \A b \in Adder \ {a} : adder'[b] = adder[b]
      BY <2>2, OneAdderMoves
    <2>4. /\ old \in [at : Position, locked : 0..MaxResyncs, unlock : 0..MaxResyncs,
                       map : 0..MaxResyncs, count : Nat]
          /\ objectCount[n] \in Nat
      BY <2>0 DEF CountsTyped
    <2>5. \/ /\ old.at = "checked"
             /\ new = [old EXCEPT !.at = "locking", !.locked = n]
          \/ /\ old.at = "locked"
             /\ new = [old EXCEPT !.at = "deferred", !.unlock = n]
          \/ /\ old.at = "deferred"
             /\ new = [old EXCEPT !.at = "adding", !.map = n, !.count = objectCount[n]]
      <3>1. CASE FindLock(a)
        BY <1>3, <3>1, OneAdderMoves DEF FindLock, Rereads
      <3>2. CASE DeferUnlock(a)
        BY <1>3, <3>2, OneAdderMoves DEF DeferUnlock, Rereads
      <3>3. CASE ReadCount(a)
        BY <1>3, <3>3, OneAdderMoves DEF ReadCount, Rereads
      <3>. QED  BY <3>1, <3>2, <3>3
    <2>6. /\ new \in [at : Position, locked : 0..MaxResyncs, unlock : 0..MaxResyncs,
                       map : 0..MaxResyncs, count : Nat]
          /\ new.at # "outside"
          /\ new.at = "adding" => new.map = n
      <3>1. n \in 0..MaxResyncs
        BY DEF CountsTyped
      <3>. QED  BY <2>4, <2>5, <3>1 DEF Position
    <2>7. CountsTyped'
      <3>1. adder' \in [Adder -> [at : Position, locked : 0..MaxResyncs,
                           unlock : 0..MaxResyncs, map : 0..MaxResyncs, count : Nat]]
        <4>1. adder' = [adder EXCEPT ![a] = next]
          BY <2>2 DEF AdderMoves
        <4>2. new = next
          BY <2>2, OneAdderMoves
        <4>. QED  BY <2>6, <4>1, <4>2 DEF CountsTyped
      <3>. QED  BY <2>0, <2>1, <2>3, <2>6, <3>1 DEF CountsTyped
    <2>8. InstanceNamed'
      BY <1>1, <2>1, <2>3 DEF InstanceNamed, Measured, Adder
    <2>9. ~straddled => OneInstance(a)'
      BY <2>0, <2>1, <2>4, <2>5 DEF OneInstance
    <2>. QED  BY <2>1, <2>3, <2>7, <2>8, <2>9
              DEF NothingLost, OneInstance, OwnInstanceThere, NoPanic
  <1>. QED  BY <1>2, <1>3

\* The other steps of a call.
LEMMA CallCounts ==
  ASSUME CountsInv, NEW a \in Adder,
         TestInstance(a) \/ LockInstance(a) \/ WriteCount(a) \/ UnlockInstance(a)
  PROVE  CountsInv'
  <1>. USE MetricsAssumption DEF CountsInv
  <1>. DEFINE Record == [at : Position, locked : 0..MaxResyncs, unlock : 0..MaxResyncs,
                         map : 0..MaxResyncs, count : Nat]
              old == adder[a]
  <1>0. /\ old \in Record /\ adder \in [Adder -> Record]
        /\ NotAdding \in Record /\ NotAdding.at = "outside"
    BY DEF CountsTyped, NotAdding, Position
  <1>1. CASE TestInstance(a)
    <2>1. UNCHANGED <<aggregatedMetricsInstance, objectCount, mutex, gauge, resync,
                      added, own, straddled, panicked>> /\ NoPanic /\ old = NotAdding
      BY <1>1 DEF TestInstance, Quietly
    <2>2. CASE aggregatedMetricsInstance = 0
      BY <1>1, <2>1, <2>2 DEF TestInstance, CountsTyped, InstanceNamed, Measured, NothingLost,
                              OneInstance, OwnInstanceThere, NoPanic
    <2>3. CASE aggregatedMetricsInstance # 0
      <3>. DEFINE new == [NotAdding EXCEPT !.at = "checked"]
      <3>1. new \in Record /\ new.at = "checked"
        BY <1>0 DEF Position
      <3>2. AdderMoves(a, new) /\ (a \in Own => Measured)
        BY <1>1, <2>3 DEF TestInstance
      <3>. HIDE DEF new
      <3>3. adder'[a] = new /\ \A b \in Adder \ {a} : adder'[b] = adder[b]
        BY <3>2, OneAdderMoves
      <3>4. adder' \in [Adder -> Record]
        BY <1>0, <3>1, <3>2 DEF AdderMoves
      <3>5. CountsTyped'
        BY <2>1, <3>1, <3>3, <3>4 DEF CountsTyped
      <3>6. InstanceNamed'
        BY <2>1, <3>2, <3>3 DEF InstanceNamed, Measured, Adder
      <3>7. OneInstance(a)'
        BY <3>1, <3>3 DEF OneInstance
      <3>. QED  BY <2>1, <3>3, <3>5, <3>6, <3>7
                DEF NothingLost, OneInstance, OwnInstanceThere, NoPanic
    <2>. QED  BY <2>2, <2>3
  <1>2. CASE LockInstance(a)
    <2>. DEFINE new == [old EXCEPT !.at = "locked"]
                n == old.locked
    <2>1. /\ UNCHANGED <<aggregatedMetricsInstance, objectCount, gauge, resync,
                         added, own, straddled, panicked>>
          /\ NoPanic /\ old.at = "locking" /\ mutex[n] = Unheld
          /\ mutex' = [mutex EXCEPT ![n] = a] /\ AdderMoves(a, new)
      BY <1>2 DEF LockInstance, Quietly
    <2>2. new \in Record /\ new.at = "locked" /\ new.locked = n
      BY <1>0 DEF Position
    <2>. HIDE DEF new
    <2>3. adder'[a] = new /\ \A b \in Adder \ {a} : adder'[b] = adder[b]
      BY <2>1, OneAdderMoves
    <2>4. adder' \in [Adder -> Record]
      BY <1>0, <2>1, <2>2 DEF AdderMoves
    <2>5. CountsTyped'
      BY <2>1, <2>2, <2>3, <2>4 DEF CountsTyped
    <2>6. InstanceNamed'
      BY <2>1, <2>3 DEF InstanceNamed, Measured, Adder
    <2>7. ASSUME ~straddled PROVE \A b \in Adder : OneInstance(b)'
      <3>1. n = resync.number /\ n \in ResyncNumber
        BY <2>1, <2>7 DEF OneInstance
      <3>2. OneInstance(a)'
        BY <2>1, <2>2, <2>3, <3>1 DEF OneInstance, CountsTyped
      <3>3. ASSUME NEW b \in Adder \ {a} PROVE OneInstance(b)'
        <4>1. adder[b].at \notin {"locked", "deferred", "adding", "added"}
          BY <2>1, <2>7, <3>1 DEF OneInstance, Adder
        <4>. QED  BY <2>1, <2>3, <2>7, <4>1 DEF OneInstance
      <3>. QED  BY <3>2, <3>3
    <2>. QED  BY <2>1, <2>5, <2>6, <2>7 DEF NothingLost, OwnInstanceThere, NoPanic
  <1>3. CASE WriteCount(a)
    <2>. DEFINE new == [old EXCEPT !.at = "added"]
                n == old.map
    <2>1. /\ UNCHANGED <<aggregatedMetricsInstance, mutex, gauge, resync, straddled,
                         panicked>>
          /\ NoPanic /\ old.at = "adding" /\ AdderMoves(a, new)
          /\ objectCount' = [objectCount EXCEPT ![n] = old.count + 1]
          /\ added' = [added EXCEPT ![n] = added[n] + 1]
          /\ own' = IF a \in Own THEN own + 1 ELSE own
      BY <1>3 DEF WriteCount, Quietly
    <2>2. /\ new \in Record /\ new.at = "added" /\ new.locked = old.locked
          /\ new.unlock = old.unlock
      BY <1>0 DEF Position
    <2>. HIDE DEF new
    <2>3. adder'[a] = new /\ \A b \in Adder \ {a} : adder'[b] = adder[b]
      BY <2>1, OneAdderMoves
    <2>4. adder' \in [Adder -> Record]
      BY <1>0, <2>1, <2>2 DEF AdderMoves
    <2>5. n \in ResyncNumber /\ old.count \in Nat
      <3>1. n \in ResyncNumber
        BY <2>1 DEF CountsTyped
      <3>. QED  BY <1>0, <3>1
    <2>6. CountsTyped'
      <3>1. objectCount' \in [ResyncNumber -> Nat] /\ added' \in [ResyncNumber -> Nat]
        BY <2>1, <2>5 DEF CountsTyped
      <3>2. own' \in Nat
        BY <2>1 DEF CountsTyped
      <3>. QED  BY <2>1, <2>2, <2>3, <2>4, <3>1, <3>2 DEF CountsTyped
    <2>7. InstanceNamed'
      BY <2>1, <2>3 DEF InstanceNamed, Measured, Adder
    <2>8. ASSUME ~straddled PROVE NothingLost' /\ \A b \in Adder : OneInstance(b)'
      <3>1. n = resync.number /\ old.count = objectCount[n]
        BY <2>1, <2>8 DEF OneInstance
      <3>2. \A r \in ResyncNumber : objectCount'[r] = added'[r]
        BY <2>1, <2>5, <2>8, <3>1 DEF NothingLost, CountsTyped
      <3>3. \A r \in ResyncNumber :
              added'[r] = IF r = resync.number THEN added[r] + 1 ELSE added[r]
        BY <2>1, <3>1 DEF CountsTyped
      <3>4. a \in Own => resync.at = "running"
        BY <2>1 DEF InstanceNamed, Measured
      <3>5. resync.number \in ResyncNumber
        BY <2>5, <3>1
      <3>6. added[resync.number] \in Nat /\ own \in Nat /\ gauge \in Nat
        BY <3>5 DEF CountsTyped
      <3>7. NothingLost'
        BY <2>1, <2>8, <3>2, <3>3, <3>4, <3>5, <3>6 DEF NothingLost
      <3>8. OneInstance(a)'
        BY <2>1, <2>2, <2>3, <2>8 DEF OneInstance
      <3>9. ASSUME NEW b \in Adder \ {a} PROVE OneInstance(b)'
        <4>1. adder[b].at \notin {"locked", "deferred", "adding", "added"}
          BY <2>1, <2>8 DEF OneInstance
        <4>. QED  BY <2>1, <2>3, <2>8, <4>1 DEF OneInstance
      <3>. QED  BY <3>7, <3>8, <3>9
    <2>. QED  BY <2>1, <2>6, <2>7, <2>8 DEF OwnInstanceThere, NoPanic
  <1>4. CASE UnlockInstance(a)
    <2>. DEFINE n == old.unlock
    <2>1. /\ UNCHANGED <<aggregatedMetricsInstance, objectCount, gauge, resync, added, own,
                         straddled>>
          /\ NoPanic /\ old.at = "added" /\ AdderMoves(a, NotAdding)
          /\ IF mutex[n] = Unheld THEN panicked' = {a} /\ UNCHANGED mutex
             ELSE mutex' = [mutex EXCEPT ![n] = Unheld] /\ UNCHANGED panicked
      BY <1>4 DEF UnlockInstance, Quietly
    <2>2. adder'[a] = NotAdding /\ \A b \in Adder \ {a} : adder'[b] = adder[b]
      BY <2>1, OneAdderMoves
    <2>3. adder' \in [Adder -> Record]
      BY <1>0, <2>1 DEF AdderMoves
    <2>4. mutex' \in [ResyncNumber -> Adder \cup {Unheld}] /\ panicked' \subseteq Adder
      BY <2>1 DEF CountsTyped
    <2>5. CountsTyped'
      BY <1>0, <2>1, <2>2, <2>3, <2>4 DEF CountsTyped
    <2>6. InstanceNamed'
      BY <1>0, <2>1, <2>2 DEF InstanceNamed, Measured, Adder
    <2>7. ASSUME ~straddled
          PROVE  NothingLost' /\ (\A b \in Adder : OneInstance(b)') /\ UNCHANGED panicked
      <3>1. n = resync.number /\ mutex[n] = a
        BY <2>1, <2>7 DEF OneInstance
      <3>2. mutex[n] # Unheld
        BY <3>1 DEF Adder
      <3>3. OneInstance(a)'
        BY <1>0, <2>2 DEF OneInstance
      <3>4. ASSUME NEW b \in Adder \ {a} PROVE OneInstance(b)'
        <4>1. adder[b].at \notin {"locked", "deferred", "adding", "added"}
          BY <2>7, <3>1 DEF OneInstance
        <4>. QED  BY <2>1, <2>2, <2>7, <4>1 DEF OneInstance
      <3>. QED  BY <2>1, <2>7, <3>2, <3>3, <3>4 DEF NothingLost
    <2>8. OwnInstanceThere'
      BY <2>1, <2>2, <2>7 DEF OwnInstanceThere, NoPanic, CountsTyped
    <2>. QED  BY <2>1, <2>5, <2>6, <2>7, <2>8
  <1>. QED  BY <1>1, <1>2, <1>3, <1>4

LEMMA CountsStep ==
  ASSUME CountsInv, MetricsNext
  PROVE  CountsInv'
  <1>1. ASSUME NEW a \in Adder, FlushRaces(a) PROVE CountsInv'
    <2>1. a \notin Own
      BY <1>1 DEF FlushRaces, NotAdding
    <2>. QED  BY <1>1, <2>1
              DEF CountsInv, FlushRaces, CountsTyped, InstanceNamed, Measured, NothingLost,
                  OneInstance, OwnInstanceThere
  <1>. QED  BY <1>1, ResyncCounts, RereadCounts, CallCounts DEF MetricsNext

LEMMA CountsInvImplies == CountsInv => CountsReachGauges /\ OwnInstanceThere
  BY DEF CountsInv, NothingLost, CountsReachGauges

\* Every count that is on its way was taken from the budget and is in no map yet.
OnTheWay == {a \in Adder : adder[a].at \notin {"outside", "added"}}

CountsBounded ==
  /\ IsFiniteSet(OnTheWay) /\ budget \in Nat
  /\ \A r \in ResyncNumber : /\ budget + Cardinality(OnTheWay) + added[r] <= MaxCounts
                             /\ objectCount[r] <= added[r]
  /\ budget + Cardinality(OnTheWay) + own <= MaxCounts
  /\ \A a \in Adder : /\ adder[a].count <= MaxCounts
                      /\ adder[a].at = "adding" => adder[a].count <= added[adder[a].map]
  /\ gauge <= MaxCounts

LEMMA BoundsInit == MetricsInit => CountsBounded
  <1>. SUFFICES ASSUME MetricsInit PROVE CountsBounded
    OBVIOUS
  <1>1. OnTheWay = {}
    BY DEF MetricsInit, OnTheWay, NotAdding
  <1>2. IsFiniteSet(OnTheWay) /\ Cardinality(OnTheWay) = 0
    BY <1>1, FS_EmptySet
  <1>. QED  BY <1>2, MetricsAssumption DEF MetricsInit, CountsBounded, NotAdding

LEMMA BoundsStep ==
  ASSUME CountsInv, CountsInv', CountsBounded, MetricsNext
  PROVE  CountsBounded'
  <1>. DEFINE n == Cardinality(OnTheWay)
              Record == [at : Position, locked : 0..MaxResyncs, unlock : 0..MaxResyncs,
                         map : 0..MaxResyncs, count : Nat]
  <1>0. CountsTyped /\ CountsTyped' /\ n \in Nat /\ MaxCounts \in Nat
    BY FS_CardinalityType, MetricsAssumption DEF CountsInv, CountsBounded
  <1>1. ASSUME NewAggregatedMetrics \/ ClearInstance PROVE CountsBounded'
    <2>1. UNCHANGED <<objectCount, added, own, budget, adder, gauge>>
          \/ (own' = 0 /\ UNCHANGED <<objectCount, added, budget, adder, gauge>>)
      BY <1>1 DEF NewAggregatedMetrics, ClearInstance
    <2>2. OnTheWay' = OnTheWay
      BY <2>1 DEF OnTheWay
    <2>3. n + budget <= MaxCounts
      BY <1>0 DEF CountsBounded, CountsTyped
    <2>. QED  BY <1>0, <2>1, <2>2, <2>3 DEF CountsBounded
  <1>2. ASSUME FlushGauges PROVE CountsBounded'
    <2>1. /\ UNCHANGED <<objectCount, added, own, budget, adder>>
          /\ gauge' = objectCount[resync.number] /\ resync.number \in ResyncNumber
      BY <1>2 DEF FlushGauges, CountsInv, InstanceNamed, Measured
    <2>2. gauge' <= MaxCounts
      BY <1>0, <2>1 DEF CountsBounded, CountsTyped
    <2>. QED  BY <2>1, <2>2 DEF CountsBounded, OnTheWay
  <1>3. ASSUME NEW a \in Adder, FlushRaces(a) PROVE CountsBounded'
    BY <1>3 DEF FlushRaces, CountsBounded, OnTheWay
  <1>4. ASSUME NEW a \in Adder, TestInstance(a) PROVE CountsBounded'
    <2>1. /\ UNCHANGED <<objectCount, added, own, gauge>>
          /\ budget > 0 /\ budget' = budget - 1 /\ adder[a] = NotAdding
      BY <1>4 DEF TestInstance, Quietly
    <2>2. CASE UNCHANGED adder
      <3>1. OnTheWay' = OnTheWay /\ budget' \in Nat
        BY <2>1, <2>2 DEF OnTheWay, CountsBounded
      <3>2. own \in Nat /\ \A r \in ResyncNumber : added[r] \in Nat
        BY <1>0 DEF CountsTyped
      <3>. QED  BY <1>0, <2>1, <2>2, <3>1, <3>2 DEF CountsBounded
    <2>3. CASE AdderMoves(a, [NotAdding EXCEPT !.at = "checked"])
      <3>. DEFINE new == [NotAdding EXCEPT !.at = "checked"]
      <3>1. new.at = "checked" /\ new.count = 0
        BY DEF NotAdding
      <3>2. AdderMoves(a, new)
        BY <2>3
      <3>. HIDE DEF new
      <3>3. adder'[a] = new /\ \A b \in Adder \ {a} : adder'[b] = adder[b]
        BY <1>0, <3>2, OneAdderMoves
      <3>4. OnTheWay' = OnTheWay \cup {a} /\ a \notin OnTheWay
        BY <2>1, <3>1, <3>3 DEF OnTheWay, NotAdding
      <3>5. IsFiniteSet(OnTheWay') /\ Cardinality(OnTheWay') = n + 1
        BY <3>4, FS_AddElement DEF CountsBounded
      <3>. QED  BY <1>0, <2>1, <3>1, <3>3, <3>5 DEF CountsBounded, CountsTyped
    <2>. QED  BY <1>4, <2>2, <2>3 DEF TestInstance
  <1>5. ASSUME NEW a \in Adder, FindLock(a) \/ LockInstance(a) \/ DeferUnlock(a)
        PROVE  CountsBounded'
    <2>0. adder[a] \in Record
      BY <1>0 DEF CountsTyped
    <2>1. /\ UNCHANGED <<objectCount, added, own, budget, gauge>>
          /\ adder[a].at \in {"checked", "locking", "locked"}
          /\ \/ UNCHANGED adder
             \/ \E next : /\ AdderMoves(a, next) /\ next.count = adder[a].count
                          /\ next.at \in {"locking", "locked", "deferred"}
      <3>1. CASE FindLock(a)
        <4>. DEFINE new == [adder[a] EXCEPT !.at = "locking",
                                            !.locked = aggregatedMetricsInstance]
        <4>1. new.count = adder[a].count /\ new.at = "locking"
          BY <2>0
        <4>2. UNCHANGED adder \/ AdderMoves(a, new)
          BY <3>1, Zenon DEF FindLock, Rereads
        <4>3. UNCHANGED <<objectCount, added, own, budget, gauge>> /\ adder[a].at = "checked"
          BY <3>1 DEF FindLock, Rereads, Quietly
        <4>. HIDE DEF new
        <4>. QED  BY <4>1, <4>2, <4>3
      <3>2. CASE LockInstance(a)
        BY <2>0, <3>2 DEF LockInstance, Quietly
      <3>3. CASE DeferUnlock(a)
        <4>. DEFINE new == [adder[a] EXCEPT !.at = "deferred",
                                            !.unlock = aggregatedMetricsInstance]
        <4>1. new.count = adder[a].count /\ new.at = "deferred"
          BY <2>0
        <4>2. UNCHANGED adder \/ AdderMoves(a, new)
          BY <3>3, Zenon DEF DeferUnlock, Rereads
        <4>3. UNCHANGED <<objectCount, added, own, budget, gauge>> /\ adder[a].at = "locked"
          BY <3>3 DEF DeferUnlock, Rereads, Quietly
        <4>. HIDE DEF new
        <4>. QED  BY <4>1, <4>2, <4>3
      <3>. QED  BY <1>5, <3>1, <3>2, <3>3
    <2>2. CASE UNCHANGED adder
      BY <2>1, <2>2 DEF CountsBounded, OnTheWay
    <2>3. ASSUME NEW next, AdderMoves(a, next), next.count = adder[a].count,
                 next.at \in {"locking", "locked", "deferred"}
          PROVE  CountsBounded'
      <3>1. adder'[a] = next /\ \A b \in Adder \ {a} : adder'[b] = adder[b]
        BY <1>0, <2>3, OneAdderMoves
      <3>2. OnTheWay' = OnTheWay
        BY <2>1, <2>3, <3>1 DEF OnTheWay
      <3>. QED  BY <2>1, <2>3, <3>1, <3>2 DEF CountsBounded
    <2>. QED  BY <2>1, <2>2, <2>3
  <1>6. ASSUME NEW a \in Adder, ReadCount(a) PROVE CountsBounded'
    <2>. DEFINE i == aggregatedMetricsInstance
                new == [adder[a] EXCEPT !.at = "adding", !.map = i,
                                        !.count = IF i = 0 THEN 0 ELSE objectCount[i]]
    <2>1. /\ UNCHANGED <<objectCount, added, own, budget, gauge>>
          /\ adder[a].at = "deferred" /\ adder[a] \in Record
          /\ UNCHANGED adder \/ (i # 0 /\ AdderMoves(a, new))
      BY <1>0, <1>6 DEF ReadCount, Rereads, Quietly, CountsTyped
    <2>2. CASE UNCHANGED adder
      BY <2>1, <2>2 DEF CountsBounded, OnTheWay
    <2>3. CASE i # 0 /\ AdderMoves(a, new)
      <3>1. i \in ResyncNumber
        BY <1>0, <2>3 DEF CountsTyped, ResyncNumber
      <3>2. new.at = "adding" /\ new.map = i /\ new.count = objectCount[i]
        BY <2>1, <2>3
      <3>3. AdderMoves(a, new)
        BY <2>3
      <3>. HIDE DEF new
      <3>4. adder'[a] = new /\ \A b \in Adder \ {a} : adder'[b] = adder[b]
        BY <1>0, <3>3, OneAdderMoves
      <3>5. OnTheWay' = OnTheWay
        BY <2>1, <3>2, <3>4 DEF OnTheWay
      <3>6. new.count <= MaxCounts /\ new.count <= added[i]
        BY <1>0, <3>1, <3>2 DEF CountsBounded, CountsTyped
      <3>. QED  BY <2>1, <3>2, <3>4, <3>5, <3>6 DEF CountsBounded
    <2>. QED  BY <2>1, <2>2, <2>3
  <1>7. ASSUME NEW a \in Adder, WriteCount(a) PROVE CountsBounded'
    <2>. DEFINE new == [adder[a] EXCEPT !.at = "added"]
                r == adder[a].map
    <2>1. /\ UNCHANGED <<budget, gauge>> /\ adder[a].at = "adding" /\ AdderMoves(a, new)
          /\ objectCount' = [objectCount EXCEPT ![r] = adder[a].count + 1]
          /\ added' = [added EXCEPT ![r] = added[r] + 1]
          /\ own' = IF a \in Own THEN own + 1 ELSE own
      BY <1>7 DEF WriteCount, Quietly
    <2>2. /\ adder[a] \in Record /\ r \in ResyncNumber
          /\ adder[a].count <= added[r] /\ adder[a].count <= MaxCounts
      BY <1>0, <2>1 DEF CountsTyped, CountsBounded
    <2>3. new.at = "added" /\ new.count = adder[a].count
      BY <2>2
    <2>. HIDE DEF new
    <2>4. adder'[a] = new /\ \A b \in Adder \ {a} : adder'[b] = adder[b]
      BY <1>0, <2>1, OneAdderMoves
    <2>5. OnTheWay' = OnTheWay \ {a} /\ a \in OnTheWay
      BY <2>1, <2>3, <2>4 DEF OnTheWay
    <2>6. IsFiniteSet(OnTheWay') /\ Cardinality(OnTheWay') = n - 1
      BY <2>5, FS_RemoveElement DEF CountsBounded
    <2>7. /\ adder[a].count \in Nat /\ own \in Nat /\ budget \in Nat
          /\ \A q \in ResyncNumber : added[q] \in Nat /\ objectCount[q] \in Nat
      BY <1>0, <2>2 DEF CountsTyped, CountsBounded
    <2>8. \A q \in ResyncNumber :
            /\ added'[q] = IF q = r THEN added[q] + 1 ELSE added[q]
            /\ objectCount'[q] = IF q = r THEN adder[a].count + 1 ELSE objectCount[q]
      BY <1>0, <2>1, <2>2 DEF CountsTyped
    <2>9. \A q \in ResyncNumber :
            budget' + Cardinality(OnTheWay') + added'[q] <= MaxCounts
            /\ objectCount'[q] <= added'[q]
      BY <1>0, <2>1, <2>2, <2>6, <2>7, <2>8 DEF CountsBounded
    <2>10. budget' + Cardinality(OnTheWay') + own' <= MaxCounts
      BY <1>0, <2>1, <2>6, <2>7 DEF CountsBounded
    <2>11. \A b \in Adder : /\ adder'[b].count <= MaxCounts
                            /\ adder'[b].at = "adding" =>
                                 adder'[b].count <= added'[adder'[b].map]
      <3>1. ASSUME NEW b \in Adder, b # a, adder[b].at = "adding"
            PROVE  adder[b].count <= added'[adder[b].map]
        <4>1. adder[b].map \in ResyncNumber /\ adder[b].count \in Nat
          BY <1>0, <3>1 DEF CountsTyped
        <4>2. adder[b].count <= added[adder[b].map]
          BY <3>1 DEF CountsBounded
        <4>. QED  BY <2>7, <2>8, <4>1, <4>2
      <3>. QED  BY <2>2, <2>3, <2>4, <3>1 DEF CountsBounded
    <2>. QED  BY <2>1, <2>6, <2>9, <2>10, <2>11 DEF CountsBounded
  <1>8. ASSUME NEW a \in Adder, UnlockInstance(a) PROVE CountsBounded'
    <2>1. /\ UNCHANGED <<objectCount, added, own, budget, gauge>>
          /\ adder[a].at = "added" /\ AdderMoves(a, NotAdding)
      BY <1>8 DEF UnlockInstance, Quietly
    <2>2. adder'[a] = NotAdding /\ \A b \in Adder \ {a} : adder'[b] = adder[b]
      BY <1>0, <2>1, OneAdderMoves
    <2>3. OnTheWay' = OnTheWay
      BY <2>1, <2>2 DEF OnTheWay, NotAdding
    <2>. QED  BY <1>0, <2>1, <2>2, <2>3 DEF CountsBounded, NotAdding
  <1>. QED  BY <1>1, <1>2, <1>3, <1>4, <1>5, <1>6, <1>7, <1>8 DEF MetricsNext

LEMMA BoundsLeftAlone == CountsBounded /\ UNCHANGED metricsVars => CountsBounded'
  BY DEF metricsVars, CountsBounded, OnTheWay

LEMMA CountsAreTyped ==
  ASSUME CountsInv, CountsBounded
  PROVE  MetricsTypeOK
  <1>1. CountsTyped
    BY DEF CountsInv
  <1>2. /\ OnTheWay \subseteq Adder /\ Cardinality(OnTheWay) \in Nat
        /\ MaxCounts \in Nat /\ own \in Nat /\ gauge \in Nat /\ budget \in Nat
    BY <1>1, FS_CardinalityType, MetricsAssumption DEF CountsBounded, CountsTyped, OnTheWay
  <1>3. \A r \in ResyncNumber : objectCount[r] \in 0..MaxCounts /\ added[r] \in 0..MaxCounts
    BY <1>1, <1>2 DEF CountsBounded, CountsTyped
  <1>4. own \in 0..MaxCounts /\ budget \in 0..MaxCounts /\ gauge \in 0..MaxCounts
    BY <1>2 DEF CountsBounded
  <1>5. \A a \in Adder : adder[a] \in
          [at : Position, locked : 0..MaxResyncs, unlock : 0..MaxResyncs,
           map : 0..MaxResyncs, count : 0..MaxCounts]
    <2>. TAKE a \in Adder
    <2>1. adder[a] \in [at : Position, locked : 0..MaxResyncs, unlock : 0..MaxResyncs,
                        map : 0..MaxResyncs, count : Nat]
      BY <1>1 DEF CountsTyped
    <2>2. adder[a].count \in 0..MaxCounts
      BY <1>2, <2>1 DEF CountsBounded
    <2>. QED  BY <2>1, <2>2
  <1>6. objectCount \in [ResyncNumber -> 0..MaxCounts]
        /\ added \in [ResyncNumber -> 0..MaxCounts]
    BY <1>1, <1>3 DEF CountsTyped
  <1>7. adder \in [Adder -> [at : Position, locked : 0..MaxResyncs, unlock : 0..MaxResyncs,
                             map : 0..MaxResyncs, count : 0..MaxCounts]]
    BY <1>1, <1>5 DEF CountsTyped
  <1>. QED  BY <1>1, <1>4, <1>6, <1>7 DEF MetricsTypeOK, CountsTyped, Position

-----------------------------------------------------------------------------
(* The process: a behaviour is about one service, and leaves the others alone. *)

ServicesInv ==
  part \in Part /\ ListenersInv /\ LogsInv /\ TokenInv /\ CountsInv /\ CountsBounded

LEMMA ServicesStart == ServicesInit => ServicesInv
  BY ListenersStart, LogsInit, TokenInit, CountsInit, BoundsInit DEF ServicesInit, ServicesInv

LEMMA LogsLeftAlone == LogsInv /\ UNCHANGED writerVars => LogsInv'
  BY DEF writerVars, LogsInv, HTTPWriterTypeOK, LinesOnce, FlushedIsOut, ShutdownWaits,
         PastTheTest, OnlyOverlapPanics, LogsPanic

LEMMA TokenLeftAlone == TokenInv /\ UNCHANGED authVars => TokenInv'
  BY DEF authVars, TokenInv, AuthenticatorTypeOK, Dated, SentInTime, RejectedOnTheWay

LEMMA CountsLeftAlone == CountsInv /\ UNCHANGED metricsVars => CountsInv'
  BY DEF metricsVars, CountsInv, CountsTyped, InstanceNamed, Measured, NothingLost,
         OneInstance, OwnInstanceThere

LEMMA ServicesStep == ServicesInv /\ [ServicesNext]_servicesVars => ServicesInv'
  <1>. SUFFICES ASSUME ServicesInv, [ServicesNext]_servicesVars PROVE ServicesInv'
    OBVIOUS
  <1>. USE ListenersLeftAlone, LogsLeftAlone, TokenLeftAlone, CountsLeftAlone,
           BoundsLeftAlone
       DEF ServicesInv
  <1>1. CASE InListener(ListenersNext)
    BY <1>1, ListenersStep DEF InListener
  <1>2. CASE InMetrics(MetricsNext)
    BY <1>2, CountsStep, BoundsStep DEF InMetrics
  <1>3. CASE InLogs(HTTPWriterNext)
    BY <1>3, LogsStep DEF InLogs
  <1>4. CASE InToken(AuthenticatorNext)
    BY <1>4, TokenStep DEF InToken
  <1>5. CASE UNCHANGED servicesVars
    BY <1>5 DEF servicesVars
  <1>. QED  BY <1>1, <1>2, <1>3, <1>4, <1>5 DEF ServicesNext

LEMMA ServicesInvariant == ServicesSpec => []ServicesInv
  BY ServicesStart, ServicesStep, PTL DEF ServicesSpec

LEMMA ServicesMutex == ServicesSpec => []MutexInv /\ [][OnlyFurther]_call
  <1>1. ServicesInit => MutexInv
    BY AuthenticatorAssumption
       DEF ServicesInit, AuthenticatorInit, MutexInv, MutexGivenBack, NoCall, InAuthenticate
  <1>2. ServicesInv /\ MutexInv /\ [ServicesNext]_servicesVars
          => MutexInv' /\ [OnlyFurther]_call
    <2>. SUFFICES ASSUME ServicesInv, MutexInv, [ServicesNext]_servicesVars
                  PROVE  MutexInv' /\ (OnlyFurther \/ UNCHANGED call)
      OBVIOUS
    <2>1. CASE InToken(AuthenticatorNext)
      BY <2>1, MutexStep DEF InToken, ServicesInv
    <2>2. CASE \/ InListener(ListenersNext) \/ InMetrics(MetricsNext)
               \/ InLogs(HTTPWriterNext) \/ UNCHANGED servicesVars
      BY <2>2 DEF InListener, InMetrics, InLogs, servicesVars, authVars, MutexInv,
                  MutexGivenBack
    <2>. QED  BY <2>1, <2>2 DEF ServicesNext
  <1>. QED  BY <1>1, <1>2, ServicesInvariant, PTL DEF ServicesSpec

\* Once the listener, of either type, waits and has seen what there is, the last request
\* to resync was followed by a resync that began after it, unless it came before the
\* listener's first look: for any number of requests, messages, failures, commits of what
\* is not handled yet and restarts (polling.go, consumer.go).
THEOREM NoRequestIsForgotten == ServicesSpec => []NoRequestForgotten
  <1>1. ServicesInv => NoRequestForgotten
    BY ListenersInvImplies DEF ServicesInv
  <1>. QED  BY <1>1, ServicesInvariant, PTL

\* The same for the changes of the integration: without a ticker the controllers run with
\* its present configuration, or the resync for it failed, or it came before the first look.
THEOREM NoChangeIsForgotten == ServicesSpec => []NoChangeForgotten
  <1>1. ServicesInv => NoChangeForgotten
    BY ListenersInvImplies DEF ServicesInv
  <1>. QED  BY <1>1, ServicesInvariant, PTL

\* The state of every service keeps its type, the limits of the counts included: what the
\* adders of metrics.go have on their way was taken from the budget.
THEOREM ServicesTyped == ServicesSpec => []ServicesTypeOK
  <1>1. ServicesInv => ServicesTypeOK
    BY ListenersInvImplies, CountsAreTyped DEF ServicesInv, LogsInv, TokenInv, ServicesTypeOK
  <1>. QED  BY <1>1, ServicesInvariant, PTL

\* No line is dropped by the buffer or sent twice: each is in one place, for any number
\* of goroutines, any capacity and interleaving of Write, the timer, the senders and Close
\* in logger.go.
THEOREM LinesAreKept == ServicesSpec => []LinesOnce
  <1>1. ServicesInv => LinesOnce
    BY DEF ServicesInv, LogsInv
  <1>. QED  BY <1>1, ServicesInvariant, PTL

\* When a Shutdown of logger.go has returned, every line that was written before its flush
\* was sent or given up by its sender, and none is still in a batch that is on its way.
THEOREM ShutdownIsLast == ServicesSpec => []ShutdownWaits
  <1>1. ServicesInv => ShutdownWaits
    BY DEF ServicesInv, LogsInv
  <1>. QED  BY <1>1, ServicesInvariant, PTL

\* Shutdown panics only when two of its callers overlap between the test of the channel
\* and its close.
THEOREM PanicsOnlyByOverlap == ServicesSpec => []OnlyOverlapPanics
  <1>1. ServicesInv => OnlyOverlapPanics
    BY DEF ServicesInv, LogsInv
  <1>. QED  BY <1>1, ServicesInvariant, PTL

\* No request of client.go goes out with a token that is known to have expired, for any
\* number of requests, lifetime, retries and delays.
THEOREM NoStaleToken == ServicesSpec => []RejectedOnTheWay
  <1>1. ServicesInv => RejectedOnTheWay
    BY DEF ServicesInv, TokenInv
  <1>. QED  BY <1>1, ServicesInvariant, PTL

\* No request waits for the mutex of the authenticator but for another one's sake: it is
\* held exactly by a request inside AuthenticateClient, and given back on every way out
\* (client.go: the error returns of the hook and the retries that follow them included).
THEOREM MutexIsGivenBack == ServicesSpec => []MutexGivenBack
  <1>1. MutexInv => MutexGivenBack
    BY DEF MutexInv
  <1>. QED  BY <1>1, ServicesMutex, PTL

\* Every step of a request brings it nearer to its end: to a later stage, or to a later
\* attempt of it or of its token request, which are both bounded, so that no number of
\* retries inside retries makes it start over (client.go: SetRetryCount of both).
THEOREM RequestsGoOn == ServicesSpec => [][OnlyFurther]_call
  BY ServicesMutex, PTL

\* Unless a call of a live worker straddles two resyncs, metrics.go loses no count, and
\* what a resync counted is in the gauges when it ends.
THEOREM CountsAreKept == ServicesSpec => []CountsReachGauges
  <1>1. ServicesInv => CountsReachGauges
    BY CountsInvImplies DEF ServicesInv
  <1>. QED  BY <1>1, ServicesInvariant, PTL

\* The goroutines of a resync never find its instance gone: MeasureResync of metrics.go
\* clears the variable only after the resync has waited for them.
THEOREM InstanceIsThere == ServicesSpec => []OwnInstanceThere
  <1>1. ServicesInv => OwnInstanceThere
    BY CountsInvImplies DEF ServicesInv
  <1>. QED  BY <1>1, ServicesInvariant, PTL
=============================================================================
