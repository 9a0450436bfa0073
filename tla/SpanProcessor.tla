--------------------------- MODULE SpanProcessor ---------------------------
(***************************************************************************)
(* CountingSpanProcessor (telemetry/processor.rs): request threads end     *)
(* spans into a bounded channel, a background task batches and exports     *)
(* them, shutdown drains what is left and waits for the task.              *)
(*                                                                         *)
(* Spans are interchangeable, so every buffer is the number of spans in    *)
(* it.  try_send is two steps, as in tokio: it takes a permit, then writes *)
(* its slot; close() refuses new permits and knows nothing of the slots    *)
(* not yet written.                                                        *)
(*                                                                         *)
(* Time is counted in seconds and passes only while an export or a         *)
(* shutdown waits: the steps of the task itself take no time.  A thread    *)
(* may be descheduled for any time inside try_send.                        *)
(*                                                                         *)
(* The local exporter does its work inside the call of export: it blocks   *)
(* its worker thread, and the timeout, which is around the future that     *)
(* export returns, never comes to bear.                                    *)
(***************************************************************************)
EXTENDS Integers, FiniteSets

CONSTANTS
    QUEUE_CAPACITY, MAX_BATCH, EXPORT_TIMEOUT, SHUTDOWN_TIMEOUT,
    Callers,        \* threads that call shutdown
    MaxSending,     \* threads that may be inside try_send at once
    MaxLatency,     \* the longest an export takes if it is not timed out
    MaxEnded        \* bound: spans ended in a behaviour

ASSUME SizesAssumption ==
    /\ QUEUE_CAPACITY \in Nat \ {0} /\ MAX_BATCH \in Nat \ {0}
    /\ MaxSending \in Nat /\ MaxEnded \in Nat
ASSUME TimesAssumption ==
    EXPORT_TIMEOUT \in Nat /\ SHUTDOWN_TIMEOUT \in Nat /\ MaxLatency \in Nat

VARIABLES
    blocking,   \* the exporter is the local one (never changes)
    sending,    \* spans with a permit whose slot is not written yet
    queue,      \* spans in the channel
    closed,     \* the channel takes no more spans
    batch,      \* spans in the task's batch
    exporting,  \* spans handed to the export in progress
    task,       \* where the background task is
    resume,     \* where it goes on when the export in progress ends
    elapsed,    \* how long the export in progress has taken
    signalled,  \* the shutdown oneshot was sent
    handle,     \* task_handle still holds the JoinHandle
    caller,     \* caller[s]: where a call of shutdown is
    waited,     \* how long shutdown has waited for the task
    exited,     \* the process has ended
    panicked,   \* an export panicked (history)
    ended, exported, dropped,   \* spans ended, exported; the counter
    lost        \* spans neither exported nor counted (history)

buffers     == <<sending, queue, batch, exporting>>
taskVars    == <<blocking, task, resume, elapsed, closed, panicked>>
callerVars  == <<signalled, handle, caller, waited>>
counters    == <<ended, exported, dropped, lost>>
vars        == <<buffers, taskVars, callerVars, counters, exited>>

Waiting == {s \in Callers : caller[s] = "waiting"}

Init ==
    /\ blocking \in BOOLEAN
    /\ sending = 0 /\ queue = 0 /\ batch = 0 /\ exporting = 0
    /\ task = "loop" /\ resume = "loop" /\ elapsed = 0 /\ closed = FALSE
    /\ signalled = FALSE /\ handle = TRUE /\ waited = 0
    /\ caller = [s \in Callers |-> "idle"]
    /\ ended = 0 /\ exported = 0 /\ dropped = 0 /\ lost = 0
    /\ exited = FALSE /\ panicked = FALSE

-----------------------------------------------------------------------------
(* on_end, on a request thread. *)

\* try_send takes a permit: one for each slot free or not yet written.
OnEndAccepted ==
    /\ ~exited /\ ended < MaxEnded
    /\ ~closed /\ queue + sending < QUEUE_CAPACITY
    /\ sending < MaxSending
    /\ sending' = sending + 1
    /\ ended' = ended + 1
    /\ UNCHANGED <<queue, batch, exporting, taskVars, callerVars, exported, dropped, lost, exited>>

\* try_send fails: the channel is full or closed.
OnEndDropped ==
    /\ ~exited /\ ended < MaxEnded
    /\ closed \/ queue + sending >= QUEUE_CAPACITY
    /\ ended' = ended + 1
    /\ dropped' = dropped + 1
    /\ UNCHANGED <<buffers, taskVars, callerVars, exported, lost, exited>>

\* try_send writes its slot.  Nobody reads it once the receiver is gone.
Push ==
    /\ ~exited /\ sending > 0
    /\ sending' = sending - 1
    /\ IF task = "done" THEN lost' = lost + 1 /\ UNCHANGED queue
                        ELSE queue' = queue + 1 /\ UNCHANGED lost
    /\ UNCHANGED <<batch, exporting, taskVars, callerVars, ended, exported, dropped, exited>>

-----------------------------------------------------------------------------
(* The background task. *)

\* mem::take(&mut batch), then exporter.export(to_send) under a timeout; the
\* task goes on at `next'.
StartExport(n, next) ==
    /\ exporting' = n
    /\ batch' = 0
    /\ task' = "exporting"
    /\ resume' = next
    /\ elapsed' = 0

\* The interval ticks.  With an empty batch it does nothing.
FlushOnTick ==
    /\ ~exited /\ task = "loop"
    /\ batch > 0
    /\ StartExport(batch, "loop")
    /\ UNCHANGED <<blocking, panicked, sending, queue, closed, callerVars, counters, exited>>

\* A bug: the batch is exported only when it has overflowed.
TakeSpanLate(next) ==
    /\ queue > 0
    /\ queue' = queue - 1
    /\ IF batch + 1 > MAX_BATCH
       THEN StartExport(batch + 1, next)
       ELSE batch' = batch + 1 /\ UNCHANGED <<exporting, task, resume, elapsed>>
    /\ UNCHANGED <<blocking, panicked, sending, closed, callerVars, counters, exited>>

\* A span moves from the channel to the batch, and a full batch is exported.
TakeSpan(next) ==
    /\ queue > 0
    /\ queue' = queue - 1
    /\ IF batch + 1 >= MAX_BATCH
       THEN StartExport(batch + 1, next)
       ELSE batch' = batch + 1 /\ UNCHANGED <<exporting, task, resume, elapsed>>
    /\ UNCHANGED <<blocking, panicked, sending, closed, callerVars, counters, exited>>

Recv == ~exited /\ task = "loop" /\ TakeSpan("loop")

\* A bug: the drain leaves the channel open.
BeginDrainOpen ==
    /\ ~exited /\ task = "loop"
    /\ signalled
    /\ task' = "draining"
    /\ UNCHANGED <<blocking, panicked, buffers, resume, elapsed, closed, callerVars, counters, exited>>

\* The shutdown branch: rx.close().
BeginDrain ==
    /\ ~exited /\ task = "loop"
    /\ signalled
    /\ closed' = TRUE
    /\ task' = "draining"
    /\ UNCHANGED <<blocking, panicked, buffers, resume, elapsed, callerVars, counters, exited>>

Drain == ~exited /\ task = "draining" /\ TakeSpan("draining")

\* exporter.shutdown() and return: the receiver goes, with what it holds.
Finish ==
    /\ task' = "done"
    /\ queue' = 0
    /\ lost' = lost + queue

\* try_recv finds nothing: the last batch is exported, if there is one.
DrainEmpty ==
    /\ ~exited /\ task = "draining"
    /\ queue = 0
    /\ \/ /\ batch > 0
          /\ StartExport(batch, "finishing")
          /\ UNCHANGED <<queue, lost>>
       \/ /\ batch = 0
          /\ Finish
          /\ UNCHANGED <<batch, exporting, resume, elapsed>>
    /\ UNCHANGED <<blocking, panicked, sending, closed, callerVars, ended, exported, dropped, exited>>

\* The export in progress is over and the task goes on.
Resume ==
    /\ ~exited /\ task = "exporting"
    /\ exporting' = 0
    /\ \/ resume # "finishing" /\ task' = resume /\ UNCHANGED <<queue, lost>>
       \/ resume = "finishing" /\ Finish
    /\ UNCHANGED <<blocking, panicked, sending, batch, resume, elapsed, closed, callerVars, ended,
                   exited>>

\* An export that is not timed out takes at most MaxLatency; a write to a
\* file may take any time.
InTime == blocking \/ elapsed <= MaxLatency

ExportOk ==
    /\ InTime
    /\ Resume
    /\ exported' = exported + exporting
    /\ UNCHANGED dropped

\* A bug: a failed export counts as one dropped span.
ExportFailsCountsOne ==
    /\ InTime
    /\ Resume
    /\ dropped' = dropped + 1
    /\ UNCHANGED exported

\* The export returns an error, or the local exporter's file is at its size cap, which
\* the exporter counts itself and reports as success.
ExportFails ==
    /\ InTime
    /\ Resume
    /\ dropped' = dropped + exporting
    /\ UNCHANGED exported

\* A bug: the export is not given up.
ExportNeverTimesOut ==
    /\ FALSE
    /\ UNCHANGED vars

ExportTimesOut ==
    /\ ~blocking /\ elapsed >= EXPORT_TIMEOUT
    /\ Resume
    /\ dropped' = dropped + exporting
    /\ UNCHANGED exported

\* export panics: the task ends, and the receiver and the batch go with it.
ExportPanics ==
    /\ ~exited /\ task = "exporting"
    /\ panicked' = TRUE
    /\ task' = "done" /\ closed' = TRUE
    /\ queue' = 0 /\ batch' = 0 /\ exporting' = 0
    /\ lost' = lost + queue + batch + exporting
    /\ UNCHANGED <<blocking, sending, resume, elapsed, callerVars, ended, exported, dropped, exited>>

-----------------------------------------------------------------------------
(* shutdown, on the threads that call it. *)

\* The oneshot is taken and sent by the first caller.
Signal(s) ==
    /\ ~exited /\ caller[s] = "idle"
    /\ signalled' = TRUE
    /\ caller' = [caller EXCEPT ![s] = "locking"]
    /\ UNCHANGED <<buffers, taskVars, handle, waited, counters, exited>>

\* A bug: a caller that finds no handle waits for one.
LockNeedsHandle(s) ==
    /\ ~exited /\ caller[s] = "locking"
    /\ Waiting = {} /\ handle
    /\ handle' = FALSE
    /\ caller' = [caller EXCEPT ![s] = "waiting"]
    /\ waited' = 0
    /\ UNCHANGED <<buffers, taskVars, signalled, counters, exited>>

\* A bug: the second caller does not wait for the first.
LockUnguarded(s) ==
    /\ ~exited /\ caller[s] = "locking"
    /\ handle' = FALSE
    /\ caller' = [caller EXCEPT ![s] = IF handle THEN "waiting" ELSE "returned"]
    /\ waited' = IF handle THEN 0 ELSE waited
    /\ UNCHANGED <<buffers, taskVars, signalled, counters, exited>>

\* task_handle is locked for as long as its holder waits for the task.  The
\* next caller to get the lock finds no handle and returns.
Lock(s) ==
    /\ ~exited /\ caller[s] = "locking"
    /\ Waiting = {}
    /\ handle' = FALSE
    /\ caller' = [caller EXCEPT ![s] = IF handle THEN "waiting" ELSE "returned"]
    /\ waited' = IF handle THEN 0 ELSE waited
    /\ UNCHANGED <<buffers, taskVars, signalled, counters, exited>>

\* timeout(SHUTDOWN_TIMEOUT, handle): the task is done, or the time is up.
WaitOver(s) ==
    /\ ~exited /\ caller[s] = "waiting"
    /\ task = "done" \/ waited >= SHUTDOWN_TIMEOUT
    /\ caller' = [caller EXCEPT ![s] = "returned"]
    /\ UNCHANGED <<buffers, taskVars, signalled, handle, waited, counters, exited>>

-----------------------------------------------------------------------------
(* Time, and the end of the process. *)

\* The task or the waiting thread has a step to take now.
Urgent ==
    \/ task = "draining"
    \/ task = "loop" /\ (signalled \/ queue > 0)
    \/ task = "exporting" /\ ~blocking /\ (elapsed >= MaxLatency \/ elapsed >= EXPORT_TIMEOUT)
    \/ Waiting # {} /\ (task = "done" \/ waited >= SHUTDOWN_TIMEOUT)

Second ==
    /\ ~exited /\ ~Urgent
    /\ task = "exporting" \/ Waiting # {}
    /\ elapsed' = IF task = "exporting" /\ ~blocking THEN elapsed + 1 ELSE elapsed
    /\ waited' = IF Waiting # {} THEN waited + 1 ELSE waited
    /\ UNCHANGED <<blocking, panicked, buffers, task, resume, closed, signalled, handle, caller, counters, exited>>

\* main returns: the runtime goes, and the task with it at its next await.  A
\* drain into the local exporter has none.  main need not have shut this
\* processor down: the layer's tracer keeps the provider that
\* shutdown_telemetry lets go of.
Exit ==
    /\ ~exited
    /\ \A s \in Callers : caller[s] \in {"idle", "returned"}
    /\ blocking => task \in {"loop", "done"}
    /\ exited' = TRUE
    /\ lost' = lost + sending + queue + batch + exporting
    /\ sending' = 0 /\ queue' = 0 /\ batch' = 0 /\ exporting' = 0
    /\ UNCHANGED <<taskVars, callerVars, ended, exported, dropped>>

TaskStep ==
    \/ FlushOnTick \/ Recv \/ BeginDrain \/ Drain \/ DrainEmpty
    \/ ExportOk \/ ExportFails \/ ExportTimesOut \/ ExportPanics

CallerStep(s) == Signal(s) \/ Lock(s) \/ WaitOver(s)

Next ==
    \/ OnEndAccepted \/ OnEndDropped \/ Push
    \/ TaskStep
    \/ \E s \in Callers : CallerStep(s)
    \/ Second \/ Exit

\* Threads and the task run, time passes, and select! is fair among branches
\* that stay ready.  An export ends by itself only if its latency is bounded
\* below the timeout, and a blocking one need not.  Nobody has to call shutdown.
Fairness ==
    /\ WF_vars(Push) /\ WF_vars(Second)
    /\ WF_vars(FlushOnTick) /\ WF_vars(Recv) /\ WF_vars(BeginDrain)
    /\ WF_vars(Drain) /\ WF_vars(DrainEmpty) /\ WF_vars(ExportTimesOut)
    /\ MaxLatency < EXPORT_TIMEOUT => WF_vars(~blocking /\ (ExportOk \/ ExportFails))
    /\ \A s \in Callers : WF_vars(Lock(s)) /\ WF_vars(WaitOver(s))

Spec == Init /\ [][Next]_vars /\ Fairness

-----------------------------------------------------------------------------
(* Properties. *)

\* Types, with the limits the code sets: permits keep the channel within its
\* capacity, and a batch of MAX_BATCH is exported at once.
TypeOK ==
    /\ sending \in Nat /\ queue \in Nat /\ queue + sending <= QUEUE_CAPACITY
    /\ batch \in 0..(MAX_BATCH - 1) /\ exporting \in 0..MAX_BATCH
    /\ task \in {"loop", "exporting", "draining", "done"}
    /\ resume \in {"loop", "draining", "finishing"}
    /\ elapsed \in Nat /\ waited \in Nat
    /\ closed \in BOOLEAN /\ signalled \in BOOLEAN /\ handle \in BOOLEAN
    /\ exited \in BOOLEAN /\ blocking \in BOOLEAN /\ panicked \in BOOLEAN
    /\ caller \in [Callers -> {"idle", "locking", "waiting", "returned"}]
    /\ ended \in Nat /\ exported \in Nat /\ dropped \in Nat /\ lost \in Nat

\* Every span that was ended is in exactly one place: buffered, exported,
\* counted as dropped, or lost with the channel or the process.
Conservation ==
    ended = sending + queue + batch + exporting + exported + dropped + lost

\* While the process lives, the only spans that disappear uncounted are ones
\* that were inside try_send when the drain found the channel empty: close()
\* comes before the drain, so at most one per thread.  An export that panics
\* takes at most a full channel and a full batch with it, and what ends after
\* it is counted.
LossStaysBounded ==
    ~exited => lost <= IF panicked THEN QUEUE_CAPACITY + MAX_BATCH ELSE MaxSending

\* A call of shutdown returns before the task is done only when the timeout is
\* up, also if another call holds the handle.
ShutdownWaits ==
    (\E s \in Callers : caller[s] = "returned")
        => task = "done" \/ waited >= SHUTDOWN_TIMEOUT

\* processor.rs:91: shutdown is "a guaranteed flush".  With an exporter that
\* does not block, no call of shutdown returns before the task has exported or
\* counted what was buffered.
GuaranteedFlush ==
    ~blocking /\ (\E s \in Callers : caller[s] = "returned") => task = "done"

\* Every call of shutdown returns, however slow the exporter is, also if it
\* panics or hangs in a write, and however many threads call it.
ShutdownReturns == \A s \in Callers : caller[s] = "locking" ~> caller[s] = "returned"

\* The k-th span to settle does: no span stays buffered for ever, unless the
\* exporter is the local one, which no timeout ends.
SpansSettle ==
    \A k \in 1..MaxEnded : ended >= k /\ ~blocking ~> exported + dropped + lost >= k
=============================================================================
