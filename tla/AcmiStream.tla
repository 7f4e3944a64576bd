------------------------------ MODULE AcmiStream ------------------------------
(***************************************************************************)
(* One live source: the client that connects, reads, commits batches and   *)
(* reconnects (acmi/stream.py), its idle monitor, and the task of the      *)
(* manager that supervises it and stops it (acmi/multi_source.py).  One    *)
(* step of the model leads from one await of a task to the next.           *)
(*                                                                         *)
(* A cancelled task gets its CancelledError at the await it stands at.     *)
(* Time is abstract: a delay is a number of units, a deadline passes at    *)
(* any moment.  The ingestor is its open batch (IngestBatch).              *)
(***************************************************************************)
EXTENDS Integers

CONSTANTS
  InitialDelay, MaxDelay,   \* bounds of the back-off
  HasFlush,                 \* is there an on_flush?  (always, under the manager)
  HasIdleTimeout            \* is idle_timeout > 0?

ASSUME StreamAssumption ==
  /\ InitialDelay \in Nat \ {0} /\ MaxDelay \in Nat /\ InitialDelay <= MaxDelay
  /\ HasFlush \in BOOLEAN /\ HasIdleTimeout \in BOOLEAN

VARIABLES
  at,          \* where _run_source stands
  why,         \* what ends the read loop: "end", "lost", "raise" or "cancel"
  backoff,     \* local of run()
  conn,        \* the connection: "none", "up" or "eof"
  monitor,     \* the idle monitor: "none", "watching" or "asked" to end
  quiet,       \* has idle_timeout passed since the last data?
  due,         \* has next_flush passed?
  batch,       \* does the ingestor hold an uncommitted batch?
  running,     \* _running of the manager
  stopping,    \* _stopping of the client
  stop,        \* where the manager's stop() stands, "no" before it is called
  cancelled,   \* CancelledError not yet delivered
  waited       \* history: the last delay since a connection, 0 if none

link   == <<conn, monitor, quiet>>
timers == <<quiet, due>>
ending == <<running, stopping, stop, cancelled>>
streamVars == <<at, why, backoff, conn, monitor, quiet, due, batch, ending, waited>>

\* The awaits inside _read_loop, and where nobody has a connection.
Reading == {"read", "line", "flush", "tail", "cleanup", "final"}
Away    == {"pause", "connect", "wait", "handshake", "ended"}

StreamInit ==
  /\ at = "pause"
  /\ why = "end"
  /\ backoff = InitialDelay
  /\ conn = "none" /\ monitor = "none"
  /\ quiet = FALSE /\ due = FALSE
  /\ batch = FALSE
  /\ running = TRUE /\ stopping = FALSE /\ stop = "no" /\ cancelled = FALSE
  /\ waited = 0

\* The task goes on from an await, and has not been cancelled there.
Proceeds(from) == at \in from /\ ~cancelled

--------------------------------------------------------------------------------
(***************************************************************************)
(* run(), between connections                                              *)
(***************************************************************************)
Doubled(delay) == IF 2 * delay <= MaxDelay THEN 2 * delay ELSE MaxDelay

\* run() has returned or raised: the supervisor pauses, unless it is to stop.
Returns == at' = IF running THEN "pause" ELSE "ended"

\* The loop of run() comes round.
LoopAgain == IF stopping THEN Returns ELSE at' = "connect"

\* _sleep(backoff): only the waits that are followed by a doubling grow it.
Sleep(doubles) ==
  /\ at' = "wait"
  /\ waited' = backoff
  /\ backoff' = IF doubles THEN Doubled(backoff) ELSE backoff

\* _run_source starts, or has paused, and calls run().
Start ==
  /\ Proceeds({"pause"})
  /\ IF running
     THEN at' = "connect" /\ backoff' = InitialDelay /\ waited' = 0
     ELSE at' = "ended" /\ UNCHANGED <<backoff, waited>>
  /\ UNCHANGED <<why, link, due, batch, ending>>

\* _connect: a connection, or a refusal or a timeout and the delay.
Connect ==
  /\ Proceeds({"connect"})
  /\ \/ at' = "handshake" /\ conn' = "up" /\ UNCHANGED <<backoff, waited>>
     \/ Sleep(FALSE) /\ UNCHANGED conn
  /\ UNCHANGED <<why, monitor, timers, batch, ending>>

\* The handshake succeeds, and _read_loop starts the monitor and the timer ...
HandshakeDone ==
  /\ Proceeds({"handshake"})
  /\ at' = IF stopping THEN "tail" ELSE "read"
  /\ why' = "end"
  /\ backoff' = InitialDelay /\ waited' = 0
  /\ monitor' = IF HasIdleTimeout THEN "watching" ELSE "none"
  /\ quiet' = FALSE /\ due' = FALSE
  /\ UNCHANGED <<conn, batch, ending>>

\* ... or is refused or times out (its wait_closed and the delay are one await
\* here) ...
HandshakeFails ==
  /\ Proceeds({"handshake"})
  /\ conn' = "none"
  /\ Sleep(TRUE)
  /\ UNCHANGED <<why, monitor, timers, batch, ending>>

\* ... or the connection breaks in it, which leaves run().
HandshakeBreaks ==
  /\ Proceeds({"handshake"})
  /\ conn' = "none"
  /\ Returns
  /\ UNCHANGED <<why, backoff, waited, monitor, timers, batch, ending>>

Wake ==
  /\ Proceeds({"wait"})
  /\ LoopAgain
  /\ UNCHANGED <<why, backoff, waited, link, due, batch, ending>>

--------------------------------------------------------------------------------
(***************************************************************************)
(* _read_loop                                                              *)
(***************************************************************************)

\* Its loop comes round, or ends and handles what is left of the text.
ReadAgain == at' = IF stopping THEN "tail" ELSE "read"

\* The finally block is entered: the monitor is cancelled.
Unwind(reason) ==
  /\ at' = "cleanup"
  /\ why' = reason
  /\ monitor' = IF monitor = "none" THEN "none" ELSE "asked"

\* Data arrives.
Chunk ==
  /\ Proceeds({"read"})
  /\ conn = "up"
  /\ at' = "line"
  /\ quiet' = FALSE
  /\ UNCHANGED <<why, backoff, waited, conn, monitor, due, batch, ending>>

\* Its lines have been handled: the batch has grown, or was full and committed,
\* or they held frames and headers only.  As a bug: whether the batch is due is
\* then asked only when nothing arrives.
MutLines ==
  /\ Proceeds({"line"})
  /\ batch' \in BOOLEAN
  /\ ReadAgain
  /\ UNCHANGED <<why, backoff, waited, link, due, ending>>

Lines ==
  /\ Proceeds({"line"})
  /\ batch' \in BOOLEAN
  /\ IF HasFlush /\ due THEN at' = "flush" ELSE ReadAgain
  /\ UNCHANGED <<why, backoff, waited, link, due, ending>>

\* The read timer expires while the read waits.
ReadTimeout ==
  /\ Proceeds({"read"})
  /\ HasFlush /\ due /\ conn # "eof"
  /\ at' = "flush"
  /\ UNCHANGED <<why, backoff, waited, link, due, batch, ending>>

Flush ==
  /\ Proceeds({"flush"})
  /\ batch' = FALSE /\ due' = FALSE
  /\ ReadAgain
  /\ UNCHANGED <<why, backoff, waited, link, ending>>

\* The connection has been closed, by the source or by the monitor.
ReadEnds ==
  /\ Proceeds({"read"})
  /\ conn = "eof"
  /\ at' = "tail"
  /\ UNCHANGED <<why, backoff, waited, link, due, batch, ending>>

Tail ==
  /\ Proceeds({"tail"})
  /\ batch' \in BOOLEAN
  /\ Unwind("end")
  /\ UNCHANGED <<backoff, waited, conn, timers, ending>>

\* The connection is lost, or its text cannot be decoded.
ReadFails ==
  /\ Proceeds({"read", "tail"})
  /\ Unwind("lost")
  /\ UNCHANGED <<backoff, waited, conn, timers, batch, ending>>

\* on_line or on_flush raises, having dropped the batch: an OSError passes for
\* a lost connection, anything else leaves run().
HandlerFails ==
  /\ Proceeds({"line", "flush", "tail"})
  /\ batch' = FALSE
  /\ Unwind("lost") \/ Unwind("raise")
  /\ UNCHANGED <<backoff, waited, conn, timers, ending>>

\* The monitor has ended.
Cleanup ==
  /\ Proceeds({"cleanup"})
  /\ monitor = "none"
  /\ at' = "final"
  /\ UNCHANGED <<why, backoff, waited, link, due, batch, ending>>

\* The batch is committed, or dropped by a failing commit; that failure counts
\* only when nothing else has failed.  As a bug: after a failure there is no
\* last commit.
MutFinal ==
  /\ Proceeds({"final"})
  /\ at' = "shut"
  /\ batch' = (batch /\ (why # "end" \/ ~HasFlush))
  /\ UNCHANGED <<why, backoff, waited, link, due, ending>>

Final ==
  /\ Proceeds({"final"})
  /\ at' = "shut"
  /\ batch' = (batch /\ ~HasFlush)
  /\ why' \in IF why = "end" /\ HasFlush THEN {"end", "lost", "raise"} ELSE {why}
  /\ UNCHANGED <<backoff, waited, link, due, ending>>

\* run() closes its side, and reconnects unless it is to stop or it raises.
Shut ==
  /\ Proceeds({"shut"})
  /\ conn' = "none"
  /\ CASE why = "cancel" -> at' = "ended" /\ UNCHANGED <<backoff, waited>>
       [] why = "raise" \/ (why # "cancel" /\ stopping) -> Returns /\ UNCHANGED <<backoff, waited>>
       [] OTHER -> Sleep(TRUE)
  /\ UNCHANGED <<why, monitor, timers, batch, ending>>

--------------------------------------------------------------------------------
(***************************************************************************)
(* The CancelledError is delivered                                         *)
(***************************************************************************)

\* Outside the read loop it ends the task: _run_source breaks out or passes it
\* on.  (In the handshake the connection is not closed.)
CancelAway ==
  /\ at \in {"pause", "connect", "wait", "handshake", "shut"}
  /\ at' = "ended"
  /\ conn' = IF at = "handshake" THEN conn ELSE "none"
  /\ UNCHANGED <<why, monitor, batch>>

\* In a line or a commit the ingestor drops its batch; the loop unwinds.
CancelLoop ==
  /\ at \in {"read", "line", "flush", "tail"}
  /\ batch' = (batch /\ at = "read")
  /\ Unwind("cancel")
  /\ UNCHANGED conn

\* While it waits for the monitor it is swallowed.
CancelCleanup ==
  /\ at = "cleanup"
  /\ UNCHANGED <<at, why, conn, monitor, batch>>

CancelFinal ==
  /\ at = "final"
  /\ at' = "shut" /\ why' = "cancel"
  /\ batch' = (batch /\ ~HasFlush)
  /\ UNCHANGED <<conn, monitor>>

Cancelled ==
  /\ cancelled
  /\ cancelled' = FALSE
  /\ CancelAway \/ CancelLoop \/ CancelCleanup \/ CancelFinal
  /\ UNCHANGED <<backoff, waited, timers, running, stopping, stop>>

--------------------------------------------------------------------------------
(***************************************************************************)
(* The idle monitor, the clock and the source                              *)
(***************************************************************************)

\* The monitor closes a connection that has been quiet for too long, or ends.
\* As a bug: it ends without closing it, or does not end when it is asked to.
MutMonitor ==
  /\ monitor = "asked" \/ (monitor = "watching" /\ (quiet \/ stopping))
  /\ monitor' = "none"
  /\ UNCHANGED <<at, why, backoff, waited, conn, timers, batch, ending>>

MutDeafMonitor ==
  /\ monitor = "watching" /\ (quiet \/ stopping)
  /\ monitor' = "none"
  /\ conn' = IF quiet /\ ~stopping THEN "eof" ELSE conn
  /\ UNCHANGED <<at, why, backoff, waited, timers, batch, ending>>

Monitor ==
  /\ monitor = "asked" \/ (monitor = "watching" /\ (quiet \/ stopping))
  /\ monitor' = "none"
  /\ conn' = IF monitor = "watching" /\ quiet /\ ~stopping THEN "eof" ELSE conn
  /\ UNCHANGED <<at, why, backoff, waited, timers, batch, ending>>

\* next_flush passes ...
FlushDue ==
  /\ HasFlush /\ at \in {"read", "line"} /\ ~due
  /\ due' = TRUE
  /\ UNCHANGED <<at, why, backoff, waited, link, batch, ending>>

\* ... or idle_timeout since the last data.
FallsQuiet ==
  /\ monitor = "watching" /\ ~quiet
  /\ quiet' = TRUE
  /\ UNCHANGED <<at, why, backoff, waited, conn, monitor, due, batch, ending>>

SourceCloses ==
  /\ conn = "up" /\ at \in Reading
  /\ conn' = "eof"
  /\ UNCHANGED <<at, why, backoff, waited, monitor, timers, batch, ending>>

--------------------------------------------------------------------------------
(***************************************************************************)
(* stop() of the manager                                                   *)
(***************************************************************************)
Cancel == cancelled' = (at # "ended")

StopManager ==
  /\ stop = "no"
  /\ stop' = "client"
  /\ running' = FALSE
  /\ UNCHANGED <<at, why, backoff, waited, link, due, batch, stopping, cancelled>>

\* client.stop(): it waits for a monitor that lives; then the task is cancelled.
StopClient ==
  /\ stop = "client"
  /\ stopping' = TRUE
  /\ IF monitor = "none"
     THEN stop' = "task" /\ Cancel /\ UNCHANGED monitor
     ELSE stop' = "monitor" /\ monitor' = "asked" /\ UNCHANGED cancelled
  /\ UNCHANGED <<at, why, backoff, waited, conn, timers, batch, running>>

StopCancels ==
  /\ stop = "monitor" /\ monitor = "none"
  /\ stop' = "task"
  /\ Cancel
  /\ UNCHANGED <<at, why, backoff, waited, link, due, batch, running, stopping>>

StopWaits == stop = "task" /\ at = "ended"

StopCloses ==
  /\ StopWaits
  /\ stop' = "close"
  /\ UNCHANGED <<at, why, backoff, waited, link, due, batch, running, stopping, cancelled>>

\* ingestor.close()
CloseIngestor ==
  /\ stop = "close"
  /\ stop' = "done"
  /\ batch' = FALSE
  /\ UNCHANGED <<at, why, backoff, waited, link, due, running, stopping, cancelled>>

\* What the event loop and the timeouts bring about, one after the other ...
RunStep ==
  \/ Start \/ Connect \/ HandshakeDone \/ HandshakeFails \/ HandshakeBreaks \/ Wake
  \/ Lines \/ ReadTimeout \/ Flush \/ ReadEnds \/ Tail \/ HandlerFails
  \/ Cleanup \/ Final \/ Shut \/ Cancelled

StopStep == StopClient \/ StopCancels \/ StopCloses \/ CloseIngestor

\* ... and what the network and the operator may do.
StreamNext ==
  \/ RunStep \/ Monitor \/ FlushDue \/ FallsQuiet \/ StopStep
  \/ Chunk \/ ReadFails \/ SourceCloses \/ StopManager

Fairness ==
  /\ WF_streamVars(RunStep) /\ WF_streamVars(Monitor) /\ WF_streamVars(StopStep)
  /\ WF_streamVars(FlushDue) /\ WF_streamVars(FallsQuiet)

StreamSpec == StreamInit /\ [][StreamNext]_streamVars /\ Fairness

--------------------------------------------------------------------------------
(***************************************************************************)
(* Properties                                                              *)
(***************************************************************************)

\* Every variable has its type.
StreamTypeOK ==
  /\ at \in Away \union Reading \union {"shut"}
  /\ why \in {"end", "lost", "raise", "cancel"}
  /\ backoff \in InitialDelay..MaxDelay
  /\ conn \in {"none", "up", "eof"}
  /\ monitor \in {"none", "watching", "asked"}
  /\ quiet \in BOOLEAN /\ due \in BOOLEAN /\ batch \in BOOLEAN
  /\ running \in BOOLEAN /\ stopping \in BOOLEAN /\ cancelled \in BOOLEAN
  /\ stop \in {"no", "client", "monitor", "task", "close", "done"}
  /\ waited \in 0..MaxDelay

\* Away from a connection no batch is open, however the last one ended: the
\* write lock is not held through a back-off (_read_loop: "EOF, idle
\* disconnect, read/decode errors and cancellation must all release the
\* completed batch before reconnect/backoff").
NoBatchWhileAway == HasFlush /\ at \in Away => ~batch

\* No monitor outlives its read loop: only the connection it was started for
\* can be closed by it.
MonitorEndsWithLoop == at \in Away \union {"final", "shut"} => monitor = "none"

\* The ingestor is closed when its task has ended, by cancellation or by itself:
\* nothing is written behind the last commit.
ClosedAfterRun == stop \in {"close", "done"} => at = "ended"

\* Until a connection is established the delays do not shrink, whatever fails on
\* the way to it (class docstring: the back-off is reset "after each successful
\* connection"), unless the supervisor starts run() anew.
DelaysDoNotShrink ==
  [][at' = "wait" /\ at # "wait" /\ waited # 0 => waited' >= waited]_streamVars

\* Until a connection is established each delay is the double of the last, up
\* to the maximum (class docstring: "On connection loss, handshake failure or
\* connect error, reconnects automatically using exponential backoff").
DelaysDouble ==
  [][at' = "wait" /\ at # "wait" /\ waited # 0 => waited' = Doubled(waited)]_streamVars

\* A batch is committed, or dropped by a failure, although the source keeps
\* sending frames (_read_loop: "Header/frame-only traffic must not keep
\* resetting the deadline of a batch opened by an earlier object update").
BatchReleased == HasFlush => (batch ~> ~batch)

\* Data arrives, or a new connection is tried, for ever: no connection is waited
\* on that has fallen silent (idle_timeout), and no failure ends the source.
KeepsTrying == HasIdleTimeout => []<>(at \in {"connect", "line"} \/ ~running)

\* stop() returns, wherever the task stands, even where its cancellation is
\* swallowed and the loops have to see by themselves that they are to stop.
StopReturns == stop # "no" ~> stop = "done"

================================================================================
