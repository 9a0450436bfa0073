----------------------------- MODULE TraceFiles -----------------------------
(***************************************************************************)
(* JsonlFileExporter (telemetry/local_exporter.rs): batches of spans as    *)
(* lines of one file a day, a size cap, a purge of old files when the      *)
(* process starts, and the count of dropped spans, which the exporter      *)
(* shares with the CountingSpanProcessor that calls it.                    *)
(*                                                                         *)
(* export is synchronous, but the clock may pass midnight and the process  *)
(* may die between opening the file and writing to it.  A file is its size *)
(* and whether its last line is torn, that is, has no newline: the next    *)
(* line is appended to it, and neither can be read.                        *)
(***************************************************************************)
EXTENDS Integers, FiniteSets

CONSTANTS
    MAX_FILE_BYTES, RETENTION_DAYS,
    MaxLine,        \* the longest line
    MaxBatch,       \* the largest batch
    MaxDay,         \* bound: the last date
    MaxBack,        \* bound: times the clock is set back by a day
    MaxExports,     \* bound: calls of export
    MaxStarts,      \* bound: starts of the process
    MaxStatFails,   \* bound: calls of metadata() that fail
    None            \* Option::None

ASSUME LimitsAssumption ==
    /\ MAX_FILE_BYTES \in Nat \ {0} /\ RETENTION_DAYS \in Nat
    /\ MaxLine \in Nat \ {0} /\ MaxBatch \in Nat \ {0}
ASSUME TraceBoundsAssumption ==
    /\ MaxDay \in Nat /\ MaxBack \in Nat /\ MaxExports \in Nat /\ MaxStarts \in Nat
    /\ MaxStatFails \in Nat

Dates == 0..MaxDay

ASSUME NoneAssumption == None \notin Dates

VARIABLES
    today,          \* chrono::Local::now().date_naive()
    file,           \* file[d]: the trace file of date d
    up,             \* the process runs
    current_date, current_file,     \* of the exporter; a file is its date
    batch,          \* spans of the export in progress, 0 if there is none
    dropped,        \* otel_exporter_dropped_spans{exporter="local"}
    backs, exports, starts,         \* the bounded events so far
    statFails,      \* statFails[d]: sizes of that file that were not seen
    latest,         \* the latest date the clock has shown (history)
    started,        \* the date when the process started (history)
    begun,          \* the date when the export in progress began (history)
    given, written, \* spans handed to this process's exporter; of these,
                    \* spans whose line was written (history)
    tears, spoiled, \* writes that left a torn line; lines written after one (history)
    undeleted       \* files whose removal failed at the last start (history)

clock    == <<today, latest, backs>>
exporter == <<current_date, current_file>>
accounts == <<dropped, given, written>>
lines    == <<tears, spoiled>>
vars     == <<clock, file, up, exporter, batch, exports, starts, statFails, started, begun,
              accounts, lines, undeleted>>

NoFile == [exists |-> FALSE, size |-> 0, torn |-> FALSE]

Init ==
    /\ today = 0 /\ latest = 0 /\ backs = 0
    /\ file = [d \in Dates |-> NoFile]
    /\ up = FALSE /\ current_date = 0 /\ current_file = None
    /\ batch = 0 /\ dropped = 0
    /\ exports = 0 /\ starts = 0 /\ statFails = [d \in Dates |-> 0]
    /\ started = 0 /\ begun = 0 /\ given = 0 /\ written = 0
    /\ tears = 0 /\ spoiled = 0 /\ undeleted = {}

-----------------------------------------------------------------------------
(* Start and end of the process. *)

\* What purge_old_files deletes.
Expired(d) == file[d].exists /\ today - d > RETENTION_DAYS

\* A bug: a file that cannot be removed ends the purge.
PurgeGivesUp(failed) ==
    /\ file' = [d \in Dates |-> IF Expired(d) /\ failed = {} THEN NoFile ELSE file[d]]
    /\ undeleted' = failed

\* A removal that fails is logged, and the purge goes on.
purge_old_files(failed) ==
    /\ file' = [d \in Dates |-> IF Expired(d) /\ d \notin failed THEN NoFile ELSE file[d]]
    /\ undeleted' = failed

\* new_with_counter: today's date, and no file open.
NewExporter == current_date' = today /\ current_file' = None

\* init_telemetry with the local exporter on; the counters of a new process
\* are at zero.
Start(failed) ==
    /\ ~up /\ starts < MaxStarts
    /\ purge_old_files(failed)
    /\ up' = TRUE /\ starts' = starts + 1 /\ started' = today
    /\ NewExporter
    /\ dropped' = 0 /\ given' = 0 /\ written' = 0
    /\ UNCHANGED <<clock, batch, exports, statFails, begun, lines>>

\* The process ends.  If it was writing, the first n bytes are in the file.
Crash(n) ==
    /\ up /\ up' = FALSE /\ batch' = 0
    /\ IF batch = 0 \/ n = 0
       THEN UNCHANGED <<file, tears>>
       ELSE /\ file[current_file].size < MAX_FILE_BYTES
            /\ file' = [file EXCEPT ![current_file].size = @ + n, ![current_file].torn = TRUE]
            /\ tears' = tears + 1
    /\ UNCHANGED <<clock, exporter, exports, starts, statFails, started, begun, accounts, spoiled,
                   undeleted>>

-----------------------------------------------------------------------------
(* export: ensure_file, the size check and the write. *)

\* A bug: a file that is open is used, whatever the date.
NeedsOpenIgnoresDate == current_file = None

\* The date has changed, or there is no file open yet.
NeedsOpen == today # current_date \/ current_file = None

\* The batch is handed over.
BeginExport(n) ==
    /\ up /\ batch = 0 /\ exports < MaxExports
    /\ exports' = exports + 1 /\ given' = given + n /\ begun' = today

\* ensure_file leaves a file open for appending.
EnsureFile(n) ==
    /\ BeginExport(n)
    /\ batch' = n
    /\ IF NeedsOpen
       THEN /\ current_date' = today /\ current_file' = today
            /\ file' = [file EXCEPT ![today].exists = TRUE]
       ELSE UNCHANGED <<exporter, file>>
    /\ UNCHANGED <<clock, up, starts, statFails, started, dropped, written, lines, undeleted>>

\* create_dir_all or open fails, with the date updated and no file open; the
\* error goes to the processor, which counts the batch.
EnsureFileFails(n) ==
    /\ BeginExport(n)
    /\ NeedsOpen
    /\ current_date' = today /\ current_file' = None
    /\ dropped' = dropped + n
    /\ UNCHANGED <<clock, file, up, batch, starts, statFails, started, written, lines, undeleted>>

\* The export in progress ends.
EndExport ==
    /\ batch > 0 /\ batch' = 0
    /\ UNCHANGED <<clock, up, exporter, exports, starts, started, begun, given, undeleted>>

\* A bug: the cap is reported as an error, which the processor counts again.
AtCapTwice ==
    /\ EndExport
    /\ file[current_file].size >= MAX_FILE_BYTES
    /\ dropped' = dropped + 2 * batch
    /\ UNCHANGED <<file, statFails, written, lines>>

\* The file is at its cap: the exporter counts the batch and reports success.
AtCap ==
    /\ EndExport
    /\ file[current_file].size >= MAX_FILE_BYTES
    /\ dropped' = dropped + batch
    /\ UNCHANGED <<file, statFails, written, lines>>

\* A bug: the cap is compared with >.
BelowCapInclusive ==
    \/ file[current_file].size <= MAX_FILE_BYTES /\ UNCHANGED statFails
    \/ /\ file[current_file].size > MAX_FILE_BYTES /\ statFails[current_file] < MaxStatFails
       /\ statFails' = [statFails EXCEPT ![current_file] = @ + 1]

\* The size is below the cap, or metadata() fails and the size counts as 0.
BelowCap ==
    \/ file[current_file].size < MAX_FILE_BYTES /\ UNCHANGED statFails
    \/ /\ file[current_file].size >= MAX_FILE_BYTES /\ statFails[current_file] < MaxStatFails
       /\ statFails' = [statFails EXCEPT ![current_file] = @ + 1]

\* A bug: the line has no newline.
WriteUnterminated(n) ==
    LET f == file[current_file]
    IN  /\ EndExport /\ BelowCap
        /\ file' = [file EXCEPT ![current_file].size = @ + n, ![current_file].torn = TRUE]
        /\ spoiled' = IF f.torn THEN spoiled + 1 ELSE spoiled
        /\ written' = written + batch
        /\ UNCHANGED <<dropped, tears>>

\* A line of n bytes is appended.
Write(n) ==
    LET f == file[current_file]
    IN  /\ EndExport /\ BelowCap
        /\ file' = [file EXCEPT ![current_file].size = @ + n, ![current_file].torn = FALSE]
        /\ spoiled' = IF f.torn THEN spoiled + 1 ELSE spoiled
        /\ written' = written + batch
        /\ UNCHANGED <<dropped, tears>>

\* to_string fails, or write_all does after n bytes; the processor counts the batch.
WriteFails(n) ==
    /\ EndExport /\ BelowCap
    /\ file' = [file EXCEPT ![current_file].size = @ + n, ![current_file].torn = @ \/ n > 0]
    /\ tears' = IF n > 0 THEN tears + 1 ELSE tears
    /\ dropped' = dropped + batch
    /\ UNCHANGED <<written, spoiled>>

-----------------------------------------------------------------------------
(* The clock. *)

NextDay ==
    /\ today < MaxDay /\ today' = today + 1
    /\ latest' = IF today' > latest THEN today' ELSE latest
    /\ UNCHANGED <<backs, file, up, exporter, batch, exports, starts, statFails, started, begun,
                   accounts, lines, undeleted>>

ClockBack ==
    /\ today > 0 /\ backs < MaxBack
    /\ today' = today - 1 /\ backs' = backs + 1
    /\ UNCHANGED <<latest, file, up, exporter, batch, exports, starts, statFails, started, begun,
                   accounts, lines, undeleted>>

Next ==
    \/ \E failed \in SUBSET {d \in Dates : Expired(d)} : Start(failed)
    \/ \E n \in 0..MaxLine - 1 : Crash(n) \/ WriteFails(n)
    \/ \E n \in 1..MaxBatch : EnsureFile(n) \/ EnsureFileFails(n)
    \/ AtCap
    \/ \E n \in 1..MaxLine : Write(n)
    \/ NextDay \/ ClockBack

Spec == Init /\ [][Next]_vars

-----------------------------------------------------------------------------
(* Properties. *)

\* Type invariant.
TypeOK ==
    /\ today \in Dates /\ latest \in Dates /\ begun \in Dates
    /\ file \in [Dates -> [exists : BOOLEAN, size : Nat, torn : BOOLEAN]]
    /\ current_date \in Dates /\ current_file \in Dates \cup {None}
    /\ batch \in Nat /\ dropped \in Nat /\ given \in Nat /\ written \in Nat
    /\ statFails \in [Dates -> Nat]

\* Every span handed to the exporter is written, still being written, or
\* counted as dropped, exactly once, although the exporter (at the cap) and
\* the processor (after an error) count into the same counter.
SpansAccounted == up => given = batch + written + dropped

\* The cap is overshot by at most one line, plus one for each size not seen.
SizeBounded ==
    \A d \in Dates : file[d].size < MAX_FILE_BYTES + MaxLine * (1 + statFails[d])

\* "one OTLP JSON envelope per line": lines are run together only by writes
\* that broke off, at most one line for each.
EnvelopePerLine ==
    spoiled + Cardinality({d \in Dates : file[d].torn}) <= tears

\* Daily rotation: what is written goes to the file of the day on which the
\* batch was handed over, also after failed opens and a clock set back.
RotatesDaily == [][\A d \in Dates : file'[d].size > file[d].size => d = begun]_vars

\* A process runs with no file older than the retention at its start, but for
\* files that could not be removed (and files that a clock set back by as many
\* days made again).
PurgedAtStart ==
    up => \A d \in Dates :
              file[d].exists /\ started - d > RETENTION_DAYS =>
                  d \in undeleted \/ started - d <= backs
=============================================================================
