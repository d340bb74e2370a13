------------------------------ MODULE HTTPWriter ------------------------------
(* logger.go: log lines are collected in a buffer, which is sent to Port when it *)
(* is full, by a timer, and when the writer is closed. A batch that Port does not *)
(* take is dropped. SIGTERM makes several goroutines close the one writer.       *)
EXTENDS Integers, FiniteSets

CONSTANTS Writer,      \* goroutines that log
          Closer,      \* goroutines that call Shutdown
          Capacity,
          MaxLines     \* lines that are written, in all

ASSUME HTTPWriterAssumption == Capacity \in Nat \ {0} /\ MaxLines \in Nat

VARIABLES
  url,           \* whether the ingest URL is known
  lines,         \* lines written so far; a line is its number
  buffer,        \* the lines in the buffer
  batches,       \* what the goroutines of sendLogs hold
  shipped, lost, \* lines that Port has, and that nobody has any more
  writer,        \* per goroutine: whether Write still has to flush
  timer,         \* flushTimer
  done,          \* whether the channel is closed
  closer,        \* per goroutine: where Close is
  heard,         \* per closer: the lines written before its flush
  overlapped     \* two closers were between the test and the close at once

writerVars == <<url, lines, buffer, batches, shipped, lost, writer, timer, done, closer,
    heard, overlapped>>

Line == 1..MaxLines

HTTPWriterTypeOK ==
  /\ url \in BOOLEAN /\ done \in BOOLEAN /\ overlapped \in BOOLEAN
  /\ lines \in 0..MaxLines
  /\ {buffer, shipped, lost} \subseteq SUBSET Line
  /\ batches \subseteq SUBSET Line
  /\ writer \in [Writer -> {"idle", "flush"}]
  /\ timer \in {"none", "running", "returned"}
  /\ closer \in [Closer ->
       {"out", "test", "close", "flush", "wait", "returned", "panicked"}]
  /\ heard \in [Closer -> SUBSET Line]

HTTPWriterInit ==
  /\ url = FALSE /\ done = FALSE /\ overlapped = FALSE
  /\ lines = 0
  /\ buffer = {} /\ batches = {} /\ shipped = {} /\ lost = {}
  /\ writer = [w \in Writer |-> "idle"]
  /\ timer = "none"
  /\ closer = [c \in Closer |-> "out"]
  /\ heard = [c \in Closer |-> {}]

LogsPanic == \E c \in Closer : closer[c] = "panicked"

\* shouldFlush, of a buffer that holds the given lines.
FlushIsDue(held) == url /\ Cardinality(held) >= Capacity

\* Fault: the buffer is not emptied.
FlushCopy ==
  /\ batches' = batches \cup ({buffer} \ {{}})
  /\ UNCHANGED buffer

\* flush, under the mutex: the whole buffer becomes the batch of a new goroutine.
FlushLogs ==
  /\ batches' = batches \cup ({buffer} \ {{}})
  /\ buffer' = {}

\* The append of Write, under the mutex.
WriteLine(w) ==
  /\ ~LogsPanic /\ writer[w] = "idle" /\ lines < MaxLines
  /\ lines' = lines + 1
  /\ buffer' = buffer \cup {lines + 1}
  /\ writer' = [writer EXCEPT ![w] = IF FlushIsDue(buffer') THEN "flush" ELSE "idle"]
  /\ UNCHANGED <<url, batches, shipped, lost, timer, done, closer,
                 heard, overlapped>>

\* The flush of Write: others may have written, or flushed, since the append.
WriterFlushes(w) ==
  /\ ~LogsPanic /\ writer[w] = "flush"
  /\ FlushLogs
  /\ writer' = [writer EXCEPT ![w] = "idle"]
  /\ UNCHANGED <<url, lines, shipped, lost, timer, done, closer, heard,
                 overlapped>>

\* sendLogs: without a URL, or when Port does not answer, the batch is dropped.
SendLogs(b) ==
  /\ ~LogsPanic /\ b \in batches
  /\ batches' = batches \ {b}
  /\ \/ url /\ shipped' = shipped \cup b /\ UNCHANGED lost
     \/ lost' = lost \cup b /\ UNCHANGED shipped
  /\ UNCHANGED <<url, lines, buffer, writer, timer, done, closer, heard,
                 overlapped>>

\* SetHttpWriterParametersAndStart; without a token it returns and is not repeated.
StartTimer ==
  /\ ~LogsPanic /\ timer = "none"
  /\ \A c \in Closer : closer[c] = "out"
  /\ url' = TRUE
  /\ timer' = "running"
  /\ UNCHANGED <<lines, buffer, batches, shipped, lost, writer, done, closer,
                 heard, overlapped>>

\* A tick that comes when the last flush is old enough.
TimerFlushes ==
  /\ ~LogsPanic /\ timer = "running"
  /\ FlushLogs
  /\ UNCHANGED <<url, lines, shipped, lost, writer, timer, done, closer, heard,
                 overlapped>>

\* The context is cancelled at the first step of every Close.
TimerReturns ==
  /\ ~LogsPanic /\ timer = "running"
  /\ \E c \in Closer : closer[c] # "out"
  /\ timer' = "returned"
  /\ UNCHANGED <<url, lines, buffer, batches, shipped, lost, writer, done, closer,
                 heard, overlapped>>

-----------------------------------------------------------------------------
(* Close. *)

CloserMoves(c, from, to) ==
  /\ ~LogsPanic /\ closer[c] = from
  /\ closer' = [closer EXCEPT ![c] = to]
  /\ UNCHANGED <<url, lines, shipped, lost, writer, timer>>

CancelContext(c) ==
  /\ CloserMoves(c, "out", "test")
  /\ UNCHANGED <<buffer, batches, done, heard, overlapped>>

\* Fault: the channel is not tested.
NotTested == FALSE

AlreadyClosed == done

TestDone(c) ==
  /\ CloserMoves(c, "test", IF AlreadyClosed THEN "flush" ELSE "close")
  /\ overlapped' = (overlapped \/ (~done /\ \E d \in Closer : closer[d] = "close"))
  /\ UNCHANGED <<buffer, batches, done, heard>>

\* The close of a closed channel panics.
CloseDone(c) ==
  /\ CloserMoves(c, "close", IF done THEN "panicked" ELSE "flush")
  /\ done' = TRUE
  /\ UNCHANGED <<buffer, batches, heard, overlapped>>

LastFlush(c) ==
  /\ CloserMoves(c, "flush", "wait")
  /\ FlushLogs
  /\ heard' = [heard EXCEPT ![c] = 1..lines]
  /\ UNCHANGED <<done, overlapped>>

\* Fault: the wait group counts the timer only.
TimerDone == timer # "running"

\* Fault: a timer that was never started is waited for.
AllReturned == batches = {} /\ timer = "returned"

\* The wait group counts the timer and the goroutines of sendLogs.
AllDone == batches = {} /\ timer # "running"

CloseReturns(c) ==
  /\ AllDone
  /\ CloserMoves(c, "wait", "returned")
  /\ UNCHANGED <<buffer, batches, done, heard, overlapped>>

CloserStep(c) ==
  CancelContext(c) \/ TestDone(c) \/ CloseDone(c) \/ LastFlush(c) \/ CloseReturns(c)

HTTPWriterNext ==
  \/ \E w \in Writer : WriteLine(w) \/ WriterFlushes(w)
  \/ \E b \in batches : SendLogs(b)
  \/ StartTimer \/ TimerFlushes \/ TimerReturns
  \/ \E c \in Closer : CloserStep(c)

HTTPWriterSpec == HTTPWriterInit /\ [][HTTPWriterNext]_writerVars

-----------------------------------------------------------------------------
\* Every line is in one place: flushes by writers, the timer and closers, which
\* come together in any order, neither drop a line nor send one twice.
LinesOnce ==
  /\ (UNION batches) \cup buffer \cup shipped \cup lost = 1..lines
  /\ \A b, c \in batches : b = c \/ b \cap c = {}
  /\ (UNION batches) \cap (buffer \cup shipped \cup lost) = {}
  /\ buffer \cap (shipped \cup lost) = {}
  /\ shipped \cap lost = {}

\* When Shutdown returns, each line logged before its flush was sent or dropped:
\* also those that another goroutine's flush had taken just before. The process
\* may exit without losing them.
ShutdownWaits ==
  \A c \in Closer : closer[c] = "returned" => heard[c] \subseteq shipped \cup lost

\* Shutdown may be called again after another has closed the channel. It panics
\* only when two callers test the channel before either closes it, as the signal
\* handlers and the listener may: the test and the close are not one step.
OnlyOverlapPanics == LogsPanic => overlapped

\* The goroutines run and Port answers or the request times out.
HTTPWriterSteps ==
  \/ \E w \in Writer : WriterFlushes(w)
  \/ \E b \in batches : SendLogs(b)

\* Shutdown returns, or panics with another: it never waits for a timer that has
\* stopped to listen or for a batch that nobody sends.
ShutdownReturns ==
  \A c \in Closer : closer[c] # "out" ~> closer[c] = "returned" \/ LogsPanic
=============================================================================
