-------------------------- MODULE TraceFilesProofs --------------------------
(***************************************************************************)
(* Proofs about TraceFiles: for any cap, retention, line length, batch     *)
(* size and number of days, restarts and failures.                         *)
(***************************************************************************)
EXTENDS TraceFiles, FiniteSetTheorems, TLAPS

-----------------------------------------------------------------------------
(* The inductive invariant. *)

\* The open file is that of current_date, and an export in progress has it
\* open since it began.
OpenInv ==
    /\ current_file # None => current_file = current_date
    /\ batch > 0 => up /\ current_file = begun

\* The clock has not been later than latest.
ClockInv == today <= latest

IInv == TypeOK /\ OpenInv /\ ClockInv /\ SpansAccounted /\ SizeBounded

-----------------------------------------------------------------------------
(* Updates of the files. *)

TraceFile == [exists : BOOLEAN, size : Nat, torn : BOOLEAN]

LEMMA AppendTyped ==
  ASSUME NEW f \in [Dates -> TraceFile], NEW d \in Dates, NEW v \in Nat, NEW t \in BOOLEAN
  PROVE  [f EXCEPT ![d].size = v, ![d].torn = t] \in [Dates -> TraceFile]
BY Zenon DEF TraceFile

LEMMA CreateTyped ==
  ASSUME NEW f \in [Dates -> TraceFile], NEW d \in Dates
  PROVE  [f EXCEPT ![d].exists = TRUE] \in [Dates -> TraceFile]
BY Zenon DEF TraceFile

-----------------------------------------------------------------------------
(* The invariant holds initially and every action preserves it. *)

\* One more line, or one more size not seen, is one more MaxLine.
LEMMA OneMore ==
  ASSUME NEW k \in Nat
  PROVE  /\ MaxLine * (1 + k) \in Nat
         /\ MaxLine * (1 + k) >= MaxLine
         /\ MaxLine * (1 + (k + 1)) = MaxLine * (1 + k) + MaxLine
BY LimitsAssumption

LEMMA InitInv == Init => IInv
<1> SUFFICES ASSUME Init PROVE IInv
  BY Zenon
<1> USE LimitsAssumption, TraceBoundsAssumption DEF Init
<1>1. TypeOK
  BY DEF TypeOK, Dates, NoFile
<1>2. OpenInv /\ ClockInv /\ SpansAccounted
  BY DEF OpenInv, ClockInv, SpansAccounted
<1>3. SizeBounded
  <2>1. MaxLine * (1 + 0) \in Nat /\ MaxLine * (1 + 0) >= MaxLine
    BY Zenon, OneMore
  <2>2. QED
    BY <2>1 DEF SizeBounded, NoFile
<1>4. QED
  BY Zenon, <1>1, <1>2, <1>3 DEF IInv

\* A start purges files and resets the exporter and the counters.
LEMMA StartInv ==
  ASSUME IInv, NEW failed, Start(failed)
  PROVE  IInv'
<1> USE LimitsAssumption, TraceBoundsAssumption DEF Start, purge_old_files, NewExporter, clock, lines
<1>i. TypeOK /\ OpenInv /\ ClockInv /\ SpansAccounted /\ SizeBounded
  BY Zenon DEF IInv
<1>1. TypeOK'
  BY Zenon, <1>i DEF TypeOK, NoFile
<1>2. OpenInv'
  BY Zenon, <1>i DEF OpenInv, TypeOK
<1>3. ClockInv' /\ SpansAccounted'
  BY <1>i DEF ClockInv, SpansAccounted, OpenInv, TypeOK
<1>4. SizeBounded'
  <2> SUFFICES ASSUME NEW d \in Dates
               PROVE  file'[d].size < MAX_FILE_BYTES + MaxLine * (1 + statFails[d])
    BY Zenon DEF SizeBounded
  <2>1. MaxLine * (1 + statFails[d]) \in Nat
    BY Zenon, <1>i, OneMore DEF TypeOK
  <2>2. file'[d].size = 0 \/ file'[d] = file[d]
    BY Zenon DEF NoFile
  <2>3. QED
    BY <1>i, <2>1, <2>2 DEF SizeBounded
<1>5. QED
  BY Zenon, <1>1, <1>2, <1>3, <1>4 DEF IInv

\* Bytes are appended to a file below its cap, or whose size was not seen.
LEMMA AppendBounded ==
  ASSUME TypeOK, SizeBounded, NEW n \in 0..MaxLine, current_file \in Dates,
         NEW torn \in BOOLEAN,
         file' = [file EXCEPT ![current_file].size = @ + n, ![current_file].torn = torn],
         BelowCap
  PROVE  SizeBounded'
<1> USE LimitsAssumption
<1> SUFFICES ASSUME NEW d \in Dates
             PROVE  file'[d].size < MAX_FILE_BYTES + MaxLine * (1 + statFails'[d])
  BY Zenon DEF SizeBounded
<1>0. /\ file[d].size < MAX_FILE_BYTES + MaxLine * (1 + statFails[d])
      /\ file[d].size \in Nat /\ statFails[d] \in Nat
  BY Zenon DEF SizeBounded, TypeOK
<1>n. n \in Nat /\ n <= MaxLine
  OBVIOUS
<1>m. /\ MaxLine * (1 + statFails[d]) \in Nat
      /\ MaxLine * (1 + statFails[d]) >= MaxLine
      /\ MaxLine * (1 + (statFails[d] + 1)) = MaxLine * (1 + statFails[d]) + MaxLine
  BY Zenon, <1>0, OneMore
<1>1. CASE d # current_file
  <2>1. file'[d] = file[d] /\ statFails'[d] = statFails[d]
    BY Zenon, <1>1 DEF BelowCap, TypeOK
  <2>2. QED
    BY Zenon, <1>0, <2>1
<1>2. CASE d = current_file
  <2>1. file'[d].size = file[d].size + n
    BY Zenon, <1>2 DEF TypeOK
  <2>2. CASE file[current_file].size < MAX_FILE_BYTES /\ UNCHANGED statFails
    BY <1>0, <1>n, <1>m, <1>2, <2>1, <2>2
  <2>3. CASE statFails' = [statFails EXCEPT ![current_file] = @ + 1]
    <3>1. statFails'[d] = statFails[d] + 1
      BY Zenon, <1>2, <2>3 DEF TypeOK
    <3>2. QED
      BY <1>0, <1>n, <1>m, <2>1, <3>1
  <2>4. QED
    BY Zenon, <2>2, <2>3 DEF BelowCap
<1>3. QED
  BY Zenon, <1>1, <1>2

\* The process ends, with part of a line in the file if it was writing.
LEMMA CrashInv ==
  ASSUME IInv, NEW n \in 0..MaxLine - 1, Crash(n)
  PROVE  IInv'
<1> USE LimitsAssumption, TraceBoundsAssumption, NoneAssumption DEF Crash, clock, exporter, accounts
<1>i. TypeOK /\ OpenInv /\ ClockInv /\ SpansAccounted /\ SizeBounded
  BY Zenon DEF IInv
<1>1. TypeOK'
  BY <1>i DEF TypeOK, OpenInv
<1>2. OpenInv' /\ ClockInv' /\ SpansAccounted'
  BY <1>i DEF OpenInv, ClockInv, SpansAccounted, TypeOK
<1>3. SizeBounded'
  <2>1. CASE batch = 0 \/ n = 0
    BY Zenon, <1>i, <2>1 DEF SizeBounded
  <2>2. CASE ~(batch = 0 \/ n = 0)
    <3>1. current_file \in Dates /\ n \in 0..MaxLine
      BY <1>i, <2>2 DEF OpenInv, TypeOK
    <3>2. BelowCap
      BY Zenon, <2>2 DEF BelowCap
    <3>3. file' = [file EXCEPT ![current_file].size = @ + n, ![current_file].torn = TRUE]
      BY Zenon, <2>2
    <3>4. QED
      BY Zenon, <1>i, <3>1, <3>2, <3>3, AppendBounded
  <2>3. QED
    BY Zenon, <2>1, <2>2
<1>4. QED
  BY Zenon, <1>1, <1>2, <1>3 DEF IInv

\* An export begins, with a file or with an error.
LEMMA EnsureFileInv ==
  ASSUME IInv, NEW n \in 1..MaxBatch, EnsureFile(n) \/ EnsureFileFails(n)
  PROVE  IInv'
<1> USE LimitsAssumption, TraceBoundsAssumption, NoneAssumption
    DEF EnsureFile, EnsureFileFails, BeginExport, NeedsOpen, clock, exporter, lines
<1>i. TypeOK /\ OpenInv /\ ClockInv /\ SpansAccounted /\ SizeBounded
  BY Zenon DEF IInv
<1>n. n \in Nat /\ n > 0
  OBVIOUS
<1>1. TypeOK'
  <2>1. CASE EnsureFile(n)
    <3>1. file' \in [Dates -> [exists : BOOLEAN, size : Nat, torn : BOOLEAN]]
      <4>1. file' = [file EXCEPT ![today].exists = TRUE] \/ file' = file
        BY Zenon, <2>1
      <4>2. QED
        BY <1>i, <4>1, CreateTyped DEF TypeOK, TraceFile
    <3>2. current_date' \in Dates /\ current_file' \in Dates \cup {None}
      BY Zenon, <1>i, <2>1 DEF TypeOK
    <3>3. QED
      BY <1>i, <1>n, <2>1, <3>1, <3>2 DEF TypeOK
  <2>2. CASE EnsureFileFails(n)
    BY <1>i, <1>n, <2>2 DEF TypeOK
  <2>3. QED
    BY Zenon, <2>1, <2>2
<1>2. OpenInv'
  BY <1>i, <1>n DEF OpenInv, TypeOK
<1>3. ClockInv' /\ SpansAccounted'
  BY <1>i, <1>n DEF ClockInv, SpansAccounted, TypeOK
<1>4. SizeBounded'
  <2>1. \A d \in Dates : file'[d].size = file[d].size /\ statFails'[d] = statFails[d]
    BY <1>i DEF TypeOK
  <2>2. QED
    BY Zenon, <1>i, <2>1 DEF SizeBounded
<1>5. QED
  BY Zenon, <1>1, <1>2, <1>3, <1>4 DEF IInv

\* An export ends at the cap.
LEMMA AtCapInv ==
  ASSUME IInv, AtCap
  PROVE  IInv'
BY DEF IInv, AtCap, EndExport, clock, exporter, lines, TypeOK, OpenInv, ClockInv, SpansAccounted,
       SizeBounded

\* An export ends with a line in the file.
LEMMA WriteInv ==
  ASSUME IInv, NEW n \in 1..MaxLine, Write(n)
  PROVE  IInv'
<1> USE LimitsAssumption
<1>i. TypeOK /\ OpenInv /\ ClockInv /\ SpansAccounted /\ SizeBounded
  BY Zenon DEF IInv
<1>w. /\ EndExport /\ BelowCap
      /\ file' = [file EXCEPT ![current_file].size = @ + n, ![current_file].torn = FALSE]
      /\ written' = written + batch /\ dropped' = dropped
  BY Zenon DEF Write
<1>u. /\ batch > 0 /\ batch' = 0
      /\ UNCHANGED <<today, latest, up, current_date, current_file, begun, given>>
  BY Zenon, <1>w DEF EndExport, clock, exporter
<1>1. current_file \in Dates /\ n \in 0..MaxLine /\ n \in Nat
  BY <1>i, <1>u DEF OpenInv, TypeOK
<1>2. SizeBounded'
  BY Zenon, <1>i, <1>w, <1>1, AppendBounded
<1>3. statFails' \in [Dates -> Nat]
  BY <1>i, <1>w, <1>1 DEF BelowCap, TypeOK
<1>4. file' \in [Dates -> [exists : BOOLEAN, size : Nat, torn : BOOLEAN]]
  <2>1. file[current_file].size + n \in Nat
    BY <1>i, <1>1 DEF TypeOK
  <2>2. QED
    BY Zenon, <1>i, <1>w, <1>1, <2>1, AppendTyped DEF TypeOK, TraceFile
<1>5. TypeOK'
  BY <1>i, <1>w, <1>u, <1>3, <1>4 DEF TypeOK
<1>6. OpenInv' /\ ClockInv' /\ SpansAccounted'
  BY <1>i, <1>w, <1>u DEF TypeOK, OpenInv, ClockInv, SpansAccounted
<1>7. QED
  BY Zenon, <1>2, <1>5, <1>6 DEF IInv

\* An export ends with an error, and perhaps with part of a line in the file.
LEMMA WriteFailsInv ==
  ASSUME IInv, NEW n \in 0..MaxLine - 1, WriteFails(n)
  PROVE  IInv'
<1> USE LimitsAssumption
<1> DEFINE torn == file[current_file].torn \/ n > 0
<1>i. TypeOK /\ OpenInv /\ ClockInv /\ SpansAccounted /\ SizeBounded
  BY Zenon DEF IInv
<1>w. /\ EndExport /\ BelowCap
      /\ file' = [file EXCEPT ![current_file].size = @ + n, ![current_file].torn = @ \/ n > 0]
      /\ written' = written /\ dropped' = dropped + batch
  BY Zenon DEF WriteFails
<1>u. /\ batch > 0 /\ batch' = 0
      /\ UNCHANGED <<today, latest, up, current_date, current_file, begun, given>>
  BY Zenon, <1>w DEF EndExport, clock, exporter
<1>1. current_file \in Dates /\ n \in 0..MaxLine /\ n \in Nat
  BY <1>i, <1>u DEF OpenInv, TypeOK
<1>t. torn \in BOOLEAN
  BY Zenon
<1>f. file' = [file EXCEPT ![current_file].size = @ + n, ![current_file].torn = torn]
  BY Zenon, <1>i, <1>w, <1>1 DEF TypeOK
<1> HIDE DEF torn
<1>2. SizeBounded'
  BY Zenon, <1>i, <1>w, <1>1, <1>t, <1>f, AppendBounded
<1>3. statFails' \in [Dates -> Nat]
  BY <1>i, <1>w, <1>1 DEF BelowCap, TypeOK
<1>4. file' \in [Dates -> [exists : BOOLEAN, size : Nat, torn : BOOLEAN]]
  <2>1. file[current_file].size + n \in Nat
    BY <1>i, <1>1 DEF TypeOK
  <2>2. QED
    BY Zenon, <1>i, <1>t, <1>f, <1>1, <2>1, AppendTyped DEF TypeOK, TraceFile
<1>5. TypeOK'
  BY <1>i, <1>w, <1>u, <1>3, <1>4 DEF TypeOK
<1>6. OpenInv' /\ ClockInv' /\ SpansAccounted'
  BY <1>i, <1>w, <1>u DEF TypeOK, OpenInv, ClockInv, SpansAccounted
<1>7. QED
  BY Zenon, <1>2, <1>5, <1>6 DEF IInv

\* The clock alone moves.
LEMMA ClockStepInv ==
  ASSUME IInv, NextDay \/ ClockBack
  PROVE  IInv'
<1>i. TypeOK /\ OpenInv /\ ClockInv /\ SpansAccounted /\ SizeBounded
  BY Zenon DEF IInv
<1>u. UNCHANGED <<file, up, current_date, current_file, batch, statFails, begun, dropped, given,
                  written>>
  BY Zenon DEF NextDay, ClockBack, exporter, accounts
<1>1. today' \in Dates /\ latest' \in Dates /\ ClockInv'
  <2>1. CASE NextDay
    BY <1>i, <2>1, TraceBoundsAssumption DEF NextDay, TypeOK, ClockInv, Dates
  <2>2. CASE ClockBack
    BY <1>i, <2>2, TraceBoundsAssumption DEF ClockBack, TypeOK, ClockInv, Dates
  <2>3. QED
    BY Zenon, <2>1, <2>2
<1>2. TypeOK'
  BY Zenon, <1>i, <1>u, <1>1 DEF TypeOK
<1>3. OpenInv' /\ SpansAccounted' /\ SizeBounded'
  BY Zenon, <1>i, <1>u DEF OpenInv, SpansAccounted, SizeBounded
<1>4. QED
  BY Zenon, <1>1, <1>2, <1>3 DEF IInv

LEMMA NextInv == IInv /\ [Next]_vars => IInv'
<1> SUFFICES ASSUME IInv, [Next]_vars PROVE IInv'
  BY Zenon
<1>1. CASE UNCHANGED vars
  BY Zenon, <1>1 DEF vars, clock, exporter, accounts, lines, IInv, TypeOK, OpenInv, ClockInv,
              SpansAccounted, SizeBounded
<1>2. CASE Next
  BY Zenon, <1>2, StartInv, CrashInv, EnsureFileInv, AtCapInv, WriteInv, WriteFailsInv,
     ClockStepInv
     DEF Next
<1>3. QED
  BY Zenon, <1>1, <1>2

-----------------------------------------------------------------------------
(* The theorems. *)

\* IInv is an invariant of every instance of TraceFiles.
THEOREM Invariance == Spec => []IInv
<1>1. Init => IInv
  BY Zenon, InitInv
<1>2. IInv /\ [Next]_vars => IInv'
  BY Zenon, NextInv
<1>3. QED
  BY <1>1, <1>2, PTL DEF Spec

\* Type correctness of every instance.
THEOREM TypeCorrect == Spec => []TypeOK
<1>1. IInv => TypeOK
  BY DEF IInv
<1> QED  BY <1>1, Invariance, PTL

\* Every span handed to the exporter is written, counted as dropped or still
\* being written, once.
THEOREM Accounted == Spec => []SpansAccounted
<1>1. IInv => SpansAccounted
  BY Zenon DEF IInv
<1>2. QED
  BY <1>1, Invariance, PTL

\* A file exceeds its cap by less than a line, plus one for each size not seen.
THEOREM CapKept == Spec => []SizeBounded
<1>1. IInv => SizeBounded
  BY Zenon DEF IInv
<1>2. QED
  BY <1>1, Invariance, PTL

\* A step that writes does so to the file of the day on which its batch was
\* handed over.
LEMMA StepRotates ==
  ASSUME IInv, Next, NEW d \in Dates, file'[d].size > file[d].size
  PROVE  d = begun
<1> USE LimitsAssumption, TraceBoundsAssumption, NoneAssumption
<1>i. TypeOK /\ OpenInv
  BY Zenon DEF IInv
<1>s. file[d].size \in Nat
  BY Zenon, <1>i DEF TypeOK
<1>1. CASE \E failed \in SUBSET {x \in Dates : Expired(x)} : Start(failed)
  BY <1>1, <1>s DEF Start, purge_old_files, NoFile
<1>2. CASE \E n \in 0..MaxLine - 1 : Crash(n) \/ WriteFails(n)
  BY <1>i, <1>s, <1>2 DEF Crash, WriteFails, EndExport, OpenInv, TypeOK
<1>3. CASE \E n \in 1..MaxBatch : EnsureFile(n) \/ EnsureFileFails(n)
  BY <1>i, <1>s, <1>3 DEF EnsureFile, EnsureFileFails, TypeOK
<1>4. CASE AtCap
  BY <1>s, <1>4 DEF AtCap
<1>5. CASE \E n \in 1..MaxLine : Write(n)
  BY <1>i, <1>s, <1>5 DEF Write, EndExport, OpenInv, TypeOK
<1>6. CASE NextDay \/ ClockBack
  BY <1>s, <1>6 DEF NextDay, ClockBack
<1>7. QED
  BY Zenon, <1>1, <1>2, <1>3, <1>4, <1>5, <1>6 DEF Next

\* Files rotate by the day, whatever the clock, failed opens and restarts do.
THEOREM Rotation == Spec => RotatesDaily
<1>1. IInv /\ [Next]_vars => [\A d \in Dates : file'[d].size > file[d].size => d = begun]_vars
  BY Zenon, StepRotates
<1>2. QED
  BY <1>1, Invariance, PTL DEF Spec, RotatesDaily

-----------------------------------------------------------------------------
(* The purge. *)

\* The process started on a date the clock has shown, and the clock is behind
\* the latest such date by no more than the days it was set back.
PurgeInv ==
    /\ started \in Dates /\ backs \in Nat
    /\ started <= latest /\ latest <= today + backs
    /\ PurgedAtStart

\* A start leaves what it could not remove; later only the file of today is made.
LEMMA PurgeStep ==
  ASSUME IInv, PurgeInv, Next
  PROVE  PurgeInv'
<1> USE LimitsAssumption, TraceBoundsAssumption
<1>i. TypeOK /\ OpenInv /\ ClockInv
  BY Zenon DEF IInv
<1>d. /\ \A d \in Dates : d \in Int
      /\ today \in Dates /\ latest \in Dates /\ today \in Int /\ latest \in Int
  BY <1>i DEF TypeOK, Dates
<1>1. CASE \E failed \in SUBSET {x \in Dates : Expired(x)} : Start(failed)
  <2>1. PICK failed \in SUBSET {x \in Dates : Expired(x)} : Start(failed)
    BY Zenon, <1>1
  <2>2. started' = today /\ UNCHANGED <<today, latest, backs>>
    BY Zenon, <2>1 DEF Start, clock
  <2>3. \A d \in Dates : file'[d].exists => ~Expired(d) \/ d \in failed
    BY Zenon, <2>1 DEF Start, purge_old_files, NoFile
  <2>4. \A d \in Dates : file'[d].exists => file[d].exists
    BY Zenon, <2>1 DEF Start, purge_old_files, NoFile
  <2>5. undeleted' = failed
    BY Zenon, <2>1 DEF Start, purge_old_files
  <2>6. PurgedAtStart'
    BY Zenon, <2>2, <2>3, <2>4, <2>5 DEF PurgedAtStart, Expired
  <2>7. QED
    BY Zenon, <1>i, <1>d, <2>2, <2>6 DEF PurgeInv, ClockInv
<1>2. CASE \E n \in 0..MaxLine - 1 : Crash(n)
  BY Zenon, <1>2 DEF Crash, clock, PurgeInv, PurgedAtStart
<1>3. CASE \E n \in 1..MaxBatch : EnsureFile(n) \/ EnsureFileFails(n)
  <2>1. UNCHANGED <<today, latest, backs, started, undeleted, up>>
    BY Zenon, <1>3 DEF EnsureFile, EnsureFileFails, clock
  <2>2. \A d \in Dates : file'[d].exists => file[d].exists \/ d = today
    BY Zenon, <1>i, <1>3 DEF EnsureFile, EnsureFileFails, TypeOK
  <2>3. started - today <= backs
    BY <1>d DEF PurgeInv
  <2>4. PurgedAtStart'
    BY Zenon, <2>1, <2>2, <2>3 DEF PurgedAtStart, PurgeInv
  <2>5. QED
    BY Zenon, <2>1, <2>4 DEF PurgeInv
<1>4. CASE AtCap \/ (\E n \in 1..MaxLine : Write(n)) \/ (\E n \in 0..MaxLine - 1 : WriteFails(n))
  <2>1. EndExport
    BY Zenon, <1>4 DEF AtCap, Write, WriteFails
  <2>2. UNCHANGED <<today, latest, backs, started, undeleted, up>>
    BY Zenon, <2>1 DEF EndExport, clock
  <2>3. \A d \in Dates : file'[d].exists = file[d].exists
    <3>1. CASE AtCap
      BY Zenon, <3>1 DEF AtCap
    <3>2. CASE \E n \in 1..MaxLine : Write(n)
      BY <1>i, <3>2 DEF Write, TypeOK
    <3>3. CASE \E n \in 0..MaxLine - 1 : WriteFails(n)
      BY <1>i, <3>3 DEF WriteFails, TypeOK
    <3>4. QED
      BY Zenon, <1>4, <3>1, <3>2, <3>3
  <2>4. PurgedAtStart'
    BY Zenon, <2>2, <2>3 DEF PurgedAtStart, PurgeInv
  <2>5. QED
    BY Zenon, <2>2, <2>4 DEF PurgeInv
<1>5. CASE NextDay \/ ClockBack
  <2>1. UNCHANGED <<file, started, undeleted, up>>
    BY Zenon, <1>5 DEF NextDay, ClockBack
  <2>2. /\ backs' \in Nat /\ backs' >= backs
        /\ latest' >= latest /\ latest' \in Int /\ latest' <= today' + backs'
    <3>1. CASE NextDay
      BY <1>d, <3>1 DEF NextDay, PurgeInv
    <3>2. CASE ClockBack
      BY <1>d, <3>2 DEF ClockBack, PurgeInv
    <3>3. QED
      BY Zenon, <1>5, <3>1, <3>2
  <2>3. started \in Int /\ started <= latest
    BY Zenon, <1>d DEF PurgeInv
  <2>4. PurgedAtStart'
    <3> SUFFICES ASSUME up, NEW d \in Dates, file[d].exists, started - d > RETENTION_DAYS
                 PROVE  d \in undeleted \/ started - d <= backs'
      BY Zenon, <2>1 DEF PurgedAtStart
    <3>1. d \in undeleted \/ started - d <= backs
      BY Zenon DEF PurgeInv, PurgedAtStart
    <3>2. backs \in Nat
      BY Zenon DEF PurgeInv
    <3>3. QED
      BY <1>d, <2>2, <2>3, <3>1, <3>2
  <2>5. QED
    BY <1>d, <2>1, <2>2, <2>3, <2>4 DEF PurgeInv
<1>6. QED
  BY Zenon, <1>1, <1>2, <1>3, <1>4, <1>5 DEF Next

\* No process runs beside files that were past the retention when it started,
\* but for the ones it failed to remove or made again.
THEOREM Purged == Spec => []PurgedAtStart
<1>1. Init => PurgeInv
  BY TraceBoundsAssumption DEF Init, PurgeInv, PurgedAtStart, Dates
<1>2. IInv /\ PurgeInv /\ [Next]_vars => PurgeInv'
  <2>1. CASE UNCHANGED vars
    BY Zenon, <2>1 DEF vars, clock, PurgeInv, PurgedAtStart
  <2>2. QED
    BY Zenon, <2>1, PurgeStep
<1>3. PurgeInv => PurgedAtStart
  BY Zenon DEF PurgeInv
<1>4. QED
  BY <1>1, <1>2, <1>3, Invariance, PTL DEF Spec

-----------------------------------------------------------------------------
(* Lines run together. *)

Torn == {d \in Dates : file[d].torn}

LineInv == tears \in Nat /\ spoiled \in Nat /\ spoiled + Cardinality(Torn) <= tears

LEMMA TornFinite ==
  ASSUME NEW S \in SUBSET Dates
  PROVE  IsFiniteSet(S) /\ Cardinality(S) \in Nat
<1>1. IsFiniteSet(Dates)
  <2>1. 0 \in Int /\ MaxDay \in Int
    BY TraceBoundsAssumption
  <2>2. QED
    BY Zenon, <2>1, FS_Interval DEF Dates
<1>2. IsFiniteSet(S)
  BY Zenon, <1>1, FS_Subset
<1>3. QED
  BY Zenon, <1>2, FS_CardinalityType

\* A step leaves no file more with a torn line, or one and counts it, or it
\* completes one such line and spoils it.
LEMMA TornStep ==
  ASSUME LineInv, NEW c \in Dates,
         tears' \in Nat, spoiled' \in Nat,
         \/ Torn' \subseteq Torn /\ spoiled' = spoiled /\ tears' >= tears
         \/ Torn' \subseteq Torn \cup {c} /\ spoiled' = spoiled /\ tears' = tears + 1
         \/ c \in Torn /\ Torn' = Torn \ {c} /\ spoiled' = spoiled + 1 /\ tears' = tears
  PROVE  LineInv'
<1>1. /\ Torn \subseteq Dates /\ Torn' \subseteq Dates
      /\ Torn \cup {c} \subseteq Dates
  BY Zenon DEF Torn
<1>2. /\ IsFiniteSet(Torn) /\ Cardinality(Torn) \in Nat
      /\ IsFiniteSet(Torn') /\ Cardinality(Torn') \in Nat
      /\ IsFiniteSet(Torn \cup {c}) /\ Cardinality(Torn \cup {c}) \in Nat
  BY Zenon, <1>1, TornFinite
<1>3. CASE Torn' \subseteq Torn /\ spoiled' = spoiled /\ tears' >= tears
  <2>1. Cardinality(Torn') <= Cardinality(Torn)
    BY Zenon, <1>2, <1>3, FS_Subset
  <2>2. QED
    BY <1>2, <1>3, <2>1 DEF LineInv
<1>4. CASE Torn' \subseteq Torn \cup {c} /\ spoiled' = spoiled /\ tears' = tears + 1
  <2>1. Cardinality(Torn') <= Cardinality(Torn \cup {c})
    BY Zenon, <1>2, <1>4, FS_Subset
  <2>2. Cardinality(Torn \cup {c}) <= Cardinality(Torn) + 1
    BY <1>2, FS_AddElement
  <2>3. QED
    BY <1>2, <1>4, <2>1, <2>2 DEF LineInv
<1>5. CASE c \in Torn /\ Torn' = Torn \ {c} /\ spoiled' = spoiled + 1 /\ tears' = tears
  <2>1. Cardinality(Torn') = Cardinality(Torn) - 1
    BY Zenon, <1>2, <1>5, FS_RemoveElement
  <2>2. QED
    BY <1>2, <1>5, <2>1 DEF LineInv
<1>6. QED
  BY Zenon, <1>3, <1>4, <1>5

LEMMA LineStep ==
  ASSUME IInv, LineInv, Next
  PROVE  LineInv'
<1>i. TypeOK /\ OpenInv
  BY Zenon DEF IInv
<1>l. tears \in Nat /\ spoiled \in Nat /\ today \in Dates
  BY Zenon, <1>i DEF LineInv, TypeOK
<1>f. batch > 0 => current_file \in Dates
  BY Zenon, <1>i DEF OpenInv, TypeOK
<1>1. CASE \E failed \in SUBSET {x \in Dates : Expired(x)} : Start(failed)
  <2>1. Torn' \subseteq Torn
    BY <1>1 DEF Start, purge_old_files, NoFile, Torn
  <2>2. UNCHANGED <<tears, spoiled>>
    BY Zenon, <1>1 DEF Start, lines
  <2>3. QED
    BY <1>l, <2>1, <2>2, TornStep
<1>2. CASE \E n \in 0..MaxLine - 1 : Crash(n)
  <2>1. PICK n \in 0..MaxLine - 1 : Crash(n)
    BY Zenon, <1>2
  <2>2. CASE batch = 0 \/ n = 0
    BY <1>l, <2>1, <2>2, TornStep DEF Crash, Torn
  <2>3. CASE ~(batch = 0 \/ n = 0)
    <3>1. current_file \in Dates
      BY <1>i, <1>f, <2>3 DEF TypeOK
    <3>2. Torn' \subseteq Torn \cup {current_file}
      BY Zenon, <1>i, <2>1, <2>3, <3>1 DEF Crash, Torn, TypeOK
    <3>3. spoiled' = spoiled /\ tears' = tears + 1
      BY Zenon, <2>1, <2>3 DEF Crash
    <3>4. QED
      BY <1>l, <3>1, <3>2, <3>3, TornStep
  <2>4. QED
    BY Zenon, <2>2, <2>3
<1>3. CASE \E n \in 1..MaxBatch : EnsureFile(n) \/ EnsureFileFails(n)
  <2>1. \A d \in Dates : file'[d].torn = file[d].torn
    BY <1>i, <1>3 DEF EnsureFile, EnsureFileFails, TypeOK
  <2>2. UNCHANGED <<tears, spoiled>>
    BY Zenon, <1>3 DEF EnsureFile, EnsureFileFails, lines
  <2>3. Torn' \subseteq Torn
    BY Zenon, <2>1 DEF Torn
  <2>4. QED
    BY <1>l, <2>2, <2>3, TornStep
<1>4. CASE AtCap
  BY <1>l, <1>4, TornStep DEF AtCap, lines, Torn
<1>5. CASE \E n \in 1..MaxLine : Write(n)
  <2>1. PICK n \in 1..MaxLine : Write(n)
    BY Zenon, <1>5
  <2>2. current_file \in Dates
    BY Zenon, <1>f, <2>1 DEF Write, EndExport
  <2>3. Torn' = Torn \ {current_file} /\ tears' = tears
    BY Zenon, <1>i, <2>1, <2>2 DEF Write, Torn, TypeOK
  <2>4. spoiled' = IF current_file \in Torn THEN spoiled + 1 ELSE spoiled
    BY Zenon, <2>1, <2>2 DEF Write, Torn
  <2>5. QED
    BY <1>l, <2>2, <2>3, <2>4, TornStep
<1>6. CASE \E n \in 0..MaxLine - 1 : WriteFails(n)
  <2>1. PICK n \in 0..MaxLine - 1 : WriteFails(n)
    BY Zenon, <1>6
  <2>2. current_file \in Dates
    BY Zenon, <1>f, <2>1 DEF WriteFails, EndExport
  <2>3. spoiled' = spoiled /\ tears' = IF n > 0 THEN tears + 1 ELSE tears
    BY Zenon, <2>1 DEF WriteFails
  <2>4. Torn' \subseteq IF n > 0 THEN Torn \cup {current_file} ELSE Torn
    BY Zenon, <1>i, <2>1, <2>2 DEF WriteFails, Torn, TypeOK
  <2>5. QED
    BY <1>l, <2>2, <2>3, <2>4, TornStep
<1>7. CASE NextDay \/ ClockBack
  BY <1>l, <1>7, TornStep DEF NextDay, ClockBack, lines, Torn
<1>8. QED
  BY Zenon, <1>1, <1>2, <1>3, <1>4, <1>5, <1>6, <1>7 DEF Next

\* Only a write that broke off runs two lines together, and at most once.
THEOREM OnePerLine == Spec => []EnvelopePerLine
<1>1. Init => LineInv
  <2> SUFFICES ASSUME Init PROVE LineInv
    BY Zenon
  <2>1. Torn = {}
    BY Zenon DEF Init, NoFile, Torn
  <2>2. QED
    BY <2>1, FS_EmptySet DEF Init, LineInv
<1>2. IInv /\ LineInv /\ [Next]_vars => LineInv'
  <2>1. CASE UNCHANGED vars
    BY Zenon, <2>1 DEF vars, lines, LineInv, Torn
  <2>2. QED
    BY Zenon, <2>1, LineStep
<1>3. LineInv => EnvelopePerLine
  BY Zenon DEF LineInv, EnvelopePerLine, Torn
<1>4. QED
  BY <1>1, <1>2, <1>3, Invariance, PTL DEF Spec
=============================================================================
