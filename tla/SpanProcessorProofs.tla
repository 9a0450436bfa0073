------------------------ MODULE SpanProcessorProofs ------------------------
(***************************************************************************)
(* Proofs about SpanProcessor: for any capacity, batch size, timeouts and  *)
(* number of threads.                                                      *)
(***************************************************************************)
EXTENDS SpanProcessor, TLAPS

-----------------------------------------------------------------------------
(* The inductive invariant. *)

\* An export holds spans only while it is in progress and has then taken the
\* whole batch, and whatever may lead to the end of the task comes after close().
TaskInv ==
    /\ task # "exporting" => exporting = 0
    /\ task = "exporting" => batch = 0
    /\ task \in {"draining", "done"} => closed
    /\ task = "exporting" /\ resume # "loop" => closed

\* Nothing is lost before the task ends.  From the moment the drain has found
\* the channel empty, what can still be lost are the spans then in try_send;
\* after a panic, also what was in the channel and the batch.
LossInv ==
    /\ sending <= MaxSending
    /\ ~exited /\ task # "done" => lost = 0 /\ ~panicked
    /\ ~exited /\ task = "exporting" /\ resume = "finishing" => queue + sending <= MaxSending
    /\ ~exited /\ task = "done" /\ ~panicked => lost + sending <= MaxSending
    /\ ~exited /\ task = "done" /\ panicked => lost + sending <= QUEUE_CAPACITY + MAX_BATCH

\* Once the handle is taken, somebody waits for the task or the wait is over.
WaitInv ==
    /\ \A s \in Callers : caller[s] \in {"waiting", "returned"} => ~handle
    /\ ~handle => Waiting # {} \/ task = "done" \/ waited >= SHUTDOWN_TIMEOUT

IInv == TypeOK /\ Conservation /\ TaskInv /\ LossInv /\ WaitInv /\ ShutdownWaits
-----------------------------------------------------------------------------
(* The invariant holds initially and every action preserves it. *)

LEMMA InitInv == Init => IInv
<1> SUFFICES ASSUME Init PROVE IInv
  BY Zenon
<1> USE SizesAssumption, TimesAssumption DEF Init
<1>1. TypeOK
  <2>1. /\ closed \in BOOLEAN /\ signalled \in BOOLEAN /\ handle \in BOOLEAN
        /\ exited \in BOOLEAN /\ blocking \in BOOLEAN /\ panicked \in BOOLEAN
    BY Zenon
  <2>2. batch \in 0..(MAX_BATCH - 1) /\ exporting \in 0..MAX_BATCH
    OBVIOUS
  <2>3. queue + sending <= QUEUE_CAPACITY
    OBVIOUS
  <2>4. QED
    BY Zenon, <2>1, <2>2, <2>3 DEF TypeOK
<1>2. Conservation /\ TaskInv /\ LossInv
  BY DEF Conservation, TaskInv, LossInv
<1>3. WaitInv /\ ShutdownWaits
  BY Zenon DEF WaitInv, ShutdownWaits
<1>4. QED
  BY Zenon, <1>1, <1>2, <1>3 DEF IInv

\* on_end: a span is accepted, refused, or written into its slot.
LEMMA OnEndInv ==
  ASSUME IInv, OnEndAccepted \/ OnEndDropped
  PROVE  IInv'
<1> USE SizesAssumption, TimesAssumption DEF OnEndAccepted, OnEndDropped, buffers, taskVars, callerVars, counters
<1>i. TypeOK /\ Conservation /\ TaskInv /\ LossInv /\ WaitInv /\ ShutdownWaits
  BY Zenon DEF IInv
<1>1. TypeOK'
  BY <1>i DEF TypeOK, TaskInv
<1>2. Conservation'
  <2>1. CASE OnEndAccepted
    BY <1>i, <2>1 DEF Conservation, TypeOK
  <2>2. CASE OnEndDropped
    BY <1>i, <2>2 DEF Conservation, TypeOK
  <2>3. QED
    BY Zenon, <2>1, <2>2
<1>3. TaskInv'
  BY Zenon, <1>i DEF TaskInv, TypeOK
<1>4. LossInv'
  BY <1>i DEF LossInv, TypeOK, TaskInv
<1>5. WaitInv' /\ ShutdownWaits'
  BY <1>i DEF WaitInv, ShutdownWaits, Waiting, TypeOK
<1>6. QED
  BY Zenon, <1>1, <1>2, <1>3, <1>4, <1>5 DEF IInv

LEMMA PushInv ==
  ASSUME IInv, Push
  PROVE  IInv'
<1> USE SizesAssumption, TimesAssumption DEF Push, buffers, taskVars, callerVars, counters
<1>i. TypeOK /\ Conservation /\ TaskInv /\ LossInv /\ WaitInv /\ ShutdownWaits
  BY Zenon DEF IInv
<1>1. TypeOK'
  BY <1>i DEF TypeOK, TaskInv
<1>2. Conservation'
  <2>1. CASE task = "done"
    BY <1>i, <2>1 DEF Conservation, TypeOK
  <2>2. CASE task # "done"
    BY <1>i, <2>2 DEF Conservation, TypeOK
  <2>3. QED
    BY Zenon, <2>1, <2>2
<1>3. TaskInv'
  BY Zenon, <1>i DEF TaskInv, TypeOK
<1>4. LossInv'
  BY <1>i DEF LossInv, TypeOK, TaskInv
<1>5. WaitInv' /\ ShutdownWaits'
  BY Zenon, <1>i DEF WaitInv, ShutdownWaits, Waiting, TypeOK
<1>6. QED
  BY Zenon, <1>1, <1>2, <1>3, <1>4, <1>5 DEF IInv

LEMMA FlushOnTickInv ==
  ASSUME IInv, FlushOnTick
  PROVE  IInv'
<1> USE SizesAssumption, TimesAssumption DEF FlushOnTick, StartExport, buffers, taskVars, callerVars, counters
<1>i. TypeOK /\ Conservation /\ TaskInv /\ LossInv /\ WaitInv /\ ShutdownWaits
  BY Zenon DEF IInv
<1>1. TypeOK'
  BY <1>i DEF TypeOK, TaskInv
<1>2. Conservation'
  BY <1>i DEF Conservation, TypeOK, TaskInv
<1>3. TaskInv'
  BY Zenon, <1>i DEF TaskInv, TypeOK
<1>4. LossInv'
  BY Zenon, <1>i DEF LossInv, TypeOK, TaskInv
<1>5. WaitInv' /\ ShutdownWaits'
  BY Zenon, <1>i DEF WaitInv, ShutdownWaits, Waiting, TypeOK
<1>6. QED
  BY Zenon, <1>1, <1>2, <1>3, <1>4, <1>5 DEF IInv

\* A span is taken from the channel, in the loop or in the drain.
LEMMA TakeSpanInv ==
  ASSUME IInv, Recv \/ Drain
  PROVE  IInv'
<1> USE SizesAssumption, TimesAssumption DEF Recv, Drain, TakeSpan, StartExport, buffers, taskVars, callerVars, counters
<1>i. TypeOK /\ Conservation /\ TaskInv /\ LossInv /\ WaitInv /\ ShutdownWaits
  BY Zenon DEF IInv
<1>1. TypeOK'
  BY <1>i DEF TypeOK, TaskInv
<1>2. Conservation'
  BY <1>i DEF Conservation, TypeOK, TaskInv
<1>3. TaskInv'
  BY Zenon, <1>i DEF TaskInv, TypeOK
<1>4. LossInv'
  BY <1>i DEF LossInv, TypeOK, TaskInv
<1>5. WaitInv' /\ ShutdownWaits'
  BY <1>i DEF WaitInv, ShutdownWaits, Waiting, TypeOK
<1>6. QED
  BY Zenon, <1>1, <1>2, <1>3, <1>4, <1>5 DEF IInv

LEMMA BeginDrainInv ==
  ASSUME IInv, BeginDrain
  PROVE  IInv'
<1> USE SizesAssumption, TimesAssumption DEF BeginDrain, buffers, taskVars, callerVars, counters
<1>i. TypeOK /\ Conservation /\ TaskInv /\ LossInv /\ WaitInv /\ ShutdownWaits
  BY Zenon DEF IInv
<1>1. TypeOK'
  BY Zenon, <1>i DEF TypeOK, TaskInv
<1>2. Conservation'
  BY Zenon, <1>i DEF Conservation, TypeOK, TaskInv
<1>3. TaskInv'
  BY Zenon, <1>i DEF TaskInv, TypeOK
<1>4. LossInv'
  BY Zenon, <1>i DEF LossInv, TypeOK, TaskInv
<1>5. WaitInv' /\ ShutdownWaits'
  BY Zenon, <1>i DEF WaitInv, ShutdownWaits, Waiting, TypeOK
<1>6. QED
  BY Zenon, <1>1, <1>2, <1>3, <1>4, <1>5 DEF IInv

LEMMA DrainEmptyInv ==
  ASSUME IInv, DrainEmpty
  PROVE  IInv'
<1> USE SizesAssumption, TimesAssumption DEF DrainEmpty, StartExport, Finish, buffers, taskVars, callerVars, counters
<1>i. TypeOK /\ Conservation /\ TaskInv /\ LossInv /\ WaitInv /\ ShutdownWaits
  BY Zenon DEF IInv
<1>1. TypeOK'
  BY <1>i DEF TypeOK, TaskInv
<1>2. Conservation'
  BY <1>i DEF Conservation, TypeOK, TaskInv
<1>3. TaskInv'
  BY Zenon, <1>i DEF TaskInv, TypeOK
<1>4. LossInv'
  BY <1>i DEF LossInv, TypeOK, TaskInv
<1>5. WaitInv' /\ ShutdownWaits'
  BY Zenon, <1>i DEF WaitInv, ShutdownWaits, Waiting, TypeOK
<1>6. QED
  BY Zenon, <1>1, <1>2, <1>3, <1>4, <1>5 DEF IInv

\* An export ends, in one of three ways.
LEMMA ExportEndsInv ==
  ASSUME IInv, ExportOk \/ ExportFails \/ ExportTimesOut
  PROVE  IInv'
<1> USE SizesAssumption, TimesAssumption DEF ExportOk, ExportFails, InTime, ExportTimesOut, Resume, Finish, buffers, taskVars, callerVars, counters
<1>i. TypeOK /\ Conservation /\ TaskInv /\ LossInv /\ WaitInv /\ ShutdownWaits
  BY Zenon DEF IInv
<1>1. TypeOK'
  BY <1>i DEF TypeOK, TaskInv
<1>2. Conservation'
  BY <1>i DEF Conservation, TypeOK, TaskInv
<1>3. TaskInv'
  BY Zenon, <1>i DEF TaskInv, TypeOK
<1>4. LossInv'
  BY <1>i DEF LossInv, TypeOK, TaskInv
<1>5. WaitInv' /\ ShutdownWaits'
  BY <1>i DEF WaitInv, ShutdownWaits, Waiting, TypeOK
<1>6. QED
  BY Zenon, <1>1, <1>2, <1>3, <1>4, <1>5 DEF IInv

\* An export panics, and the task ends.
LEMMA ExportPanicsInv ==
  ASSUME IInv, ExportPanics
  PROVE  IInv'
<1> USE SizesAssumption, TimesAssumption DEF ExportPanics, buffers, taskVars, callerVars, counters
<1>i. TypeOK /\ Conservation /\ TaskInv /\ LossInv /\ WaitInv /\ ShutdownWaits
  BY Zenon DEF IInv
<1>1. TypeOK'
  BY <1>i DEF TypeOK, TaskInv
<1>2. Conservation'
  BY <1>i DEF Conservation, TypeOK, TaskInv
<1>3. TaskInv'
  BY Zenon, <1>i DEF TaskInv, TypeOK
<1>4. LossInv'
  BY <1>i DEF LossInv, TypeOK, TaskInv
<1>5. WaitInv' /\ ShutdownWaits'
  BY Zenon, <1>i DEF WaitInv, ShutdownWaits, Waiting, TypeOK
<1>6. QED
  BY Zenon, <1>1, <1>2, <1>3, <1>4, <1>5 DEF IInv

LEMMA SecondInv ==
  ASSUME IInv, Second
  PROVE  IInv'
<1> USE SizesAssumption, TimesAssumption DEF Second, buffers, taskVars, callerVars, counters
<1>i. TypeOK /\ Conservation /\ TaskInv /\ LossInv /\ WaitInv /\ ShutdownWaits
  BY Zenon DEF IInv
<1>1. TypeOK'
  BY <1>i DEF TypeOK, TaskInv
<1>2. Conservation'
  BY Zenon, <1>i DEF Conservation, TypeOK, TaskInv
<1>3. TaskInv'
  BY Zenon, <1>i DEF TaskInv, TypeOK
<1>4. LossInv'
  BY Zenon, <1>i DEF LossInv, TypeOK, TaskInv
<1>5. WaitInv' /\ ShutdownWaits'
  BY <1>i DEF WaitInv, ShutdownWaits, Waiting, TypeOK
<1>6. QED
  BY Zenon, <1>1, <1>2, <1>3, <1>4, <1>5 DEF IInv

LEMMA ExitInv ==
  ASSUME IInv, Exit
  PROVE  IInv'
<1> USE SizesAssumption, TimesAssumption DEF Exit, buffers, taskVars, callerVars, counters
<1>i. TypeOK /\ Conservation /\ TaskInv /\ LossInv /\ WaitInv /\ ShutdownWaits
  BY Zenon DEF IInv
<1>1. TypeOK'
  BY <1>i DEF TypeOK, TaskInv
<1>2. Conservation'
  BY <1>i DEF Conservation, TypeOK, TaskInv
<1>3. TaskInv'
  BY Zenon, <1>i DEF TaskInv, TypeOK
<1>4. LossInv'
  BY <1>i DEF LossInv, TypeOK, TaskInv
<1>5. WaitInv' /\ ShutdownWaits'
  BY Zenon, <1>i DEF WaitInv, ShutdownWaits, Waiting, TypeOK
<1>6. QED
  BY Zenon, <1>1, <1>2, <1>3, <1>4, <1>5 DEF IInv

LEMMA StutterInv ==
  ASSUME IInv, UNCHANGED vars
  PROVE  IInv'
<1> USE SizesAssumption, TimesAssumption DEF vars, buffers, taskVars, callerVars, counters
<1>i. TypeOK /\ Conservation /\ TaskInv /\ LossInv /\ WaitInv /\ ShutdownWaits
  BY Zenon DEF IInv
<1>1. TypeOK'
  BY Zenon, <1>i DEF TypeOK, TaskInv
<1>2. Conservation'
  BY Zenon, <1>i DEF Conservation, TypeOK, TaskInv
<1>3. TaskInv'
  BY Zenon, <1>i DEF TaskInv, TypeOK
<1>4. LossInv'
  BY Zenon, <1>i DEF LossInv, TypeOK, TaskInv
<1>5. WaitInv' /\ ShutdownWaits'
  BY Zenon, <1>i DEF WaitInv, ShutdownWaits, Waiting, TypeOK
<1>6. QED
  BY Zenon, <1>1, <1>2, <1>3, <1>4, <1>5 DEF IInv

\* shutdown touches only the callers' variables.
LEMMA CallerInv ==
  ASSUME IInv, NEW s \in Callers, CallerStep(s)
  PROVE  IInv'
<1> USE TimesAssumption DEF CallerStep, Signal, Lock, WaitOver
<1>i. TypeOK /\ Conservation /\ TaskInv /\ LossInv /\ WaitInv /\ ShutdownWaits
  BY Zenon DEF IInv
<1>u. UNCHANGED <<blocking, panicked, sending, queue, batch, exporting, task, resume, elapsed, closed,
                  ended, exported, dropped, lost, exited>>
  BY Zenon DEF buffers, taskVars, counters
<1>1. TypeOK'
  <2>1. caller' \in [Callers -> {"idle", "locking", "waiting", "returned"}]
    BY Zenon, <1>i DEF TypeOK
  <2>2. handle' \in BOOLEAN /\ signalled' \in BOOLEAN
    BY <1>i, Zenon DEF TypeOK
  <2>3. waited' \in Nat
    BY <1>i DEF TypeOK
  <2>4. QED
    BY Zenon, <1>i, <1>u, <2>1, <2>2, <2>3 DEF TypeOK
<1>2. Conservation' /\ TaskInv' /\ LossInv'
  BY Zenon, <1>i, <1>u DEF Conservation, TaskInv, LossInv
<1>3. WaitInv' /\ ShutdownWaits'
  <2>1. CASE Signal(s)
    BY Zenon, <1>i, <1>u, <2>1 DEF WaitInv, ShutdownWaits, Waiting, TypeOK
  <2>2. CASE Lock(s) /\ handle
    <3>1. ~handle' /\ caller' = [caller EXCEPT ![s] = "waiting"]
      BY <2>2, Zenon
    <3>2. \A t \in Callers : caller'[t] # "returned"
      BY Zenon, <1>i, <2>2, <3>1 DEF WaitInv, TypeOK
    <3>3. s \in Waiting'
      BY Zenon, <1>i, <3>1 DEF Waiting, TypeOK
    <3>4. QED
      BY <3>1, <3>2, <3>3, Zenon DEF WaitInv, ShutdownWaits
  <2>3. CASE Lock(s) /\ ~handle
    <3>1. ~handle' /\ waited' = waited
      BY <2>3, Zenon
    <3>2. task = "done" \/ waited >= SHUTDOWN_TIMEOUT
      BY Zenon, <1>i, <2>3 DEF WaitInv
    <3>3. QED
      BY Zenon, <1>u, <3>1, <3>2 DEF WaitInv, ShutdownWaits
  <2>4. CASE WaitOver(s)
    BY Zenon, <1>i, <1>u, <2>4 DEF WaitInv, ShutdownWaits, Waiting, TypeOK
  <2>5. QED
    BY Zenon, <2>1, <2>2, <2>3, <2>4
<1>4. QED
  BY Zenon, <1>1, <1>2, <1>3 DEF IInv

LEMMA NextInv == IInv /\ [Next]_vars => IInv'
BY Zenon, OnEndInv, PushInv, FlushOnTickInv, TakeSpanInv, BeginDrainInv, DrainEmptyInv,
   ExportEndsInv, ExportPanicsInv, SecondInv, ExitInv, StutterInv, CallerInv DEF Next, TaskStep

-----------------------------------------------------------------------------
(* The theorems. *)

\* IInv is an invariant of every instance of SpanProcessor.
THEOREM Invariance == Spec => []IInv
<1>1. Init => IInv
  BY Zenon, InitInv
<1>2. IInv /\ [Next]_vars => IInv'
  BY Zenon, NextInv
<1>3. QED
  BY <1>1, <1>2, PTL DEF Spec

\* The channel stays within its capacity and a batch within MAX_BATCH.
THEOREM TypeCorrect == Spec => []TypeOK
<1>1. IInv => TypeOK
  BY Zenon DEF IInv
<1>2. QED
  BY <1>1, Invariance, PTL

\* No span is duplicated, and none leaves the buffers but by being exported,
\* counted, or lost with the channel or the process.
THEOREM SpansConserved == Spec => []Conservation
<1>1. IInv => Conservation
  BY Zenon DEF IInv
<1>2. QED
  BY <1>1, Invariance, PTL

\* While the process lives, at most one span per thread inside try_send
\* disappears uncounted, and at most a channel and a batch if an export panicked.
THEOREM LossBounded == Spec => []LossStaysBounded
<1>1. IInv => LossStaysBounded
  BY SizesAssumption DEF IInv, LossInv, TypeOK, LossStaysBounded
<1>2. QED
  BY <1>1, Invariance, PTL

\* shutdown returns before the task is done only when its timeout is up.
THEOREM WaitsForTask == Spec => []ShutdownWaits
<1>1. IInv => ShutdownWaits
  BY Zenon DEF IInv
<1>2. QED
  BY <1>1, Invariance, PTL
=============================================================================
