-------------------------- MODULE StartEngagement --------------------------
(***************************************************************************)
(* IdempotencyChecker (idempotency.rs) and AuditWriter (audit.rs) in the   *)
(* flow that both modules document for the RPC that starts an engagement:  *)
(*                                                                         *)
(*   check; if New, in one transaction INSERT ... ON CONFLICT DO NOTHING   *)
(*   (no row: check again) and phase1_insert; commit; orchestrate;         *)
(*   phase2_finalize; answer.                                              *)
(*                                                                         *)
(* The check, the two phases and the hash are code of the repository.  The *)
(* handler around them is not written yet: its steps are external, taken   *)
(* from "Flow (AIP-155)" and from the head of audit.rs.  PostgreSQL runs   *)
(* READ COMMITTED: an INSERT whose key is held by an open transaction      *)
(* waits for that transaction to end.                                      *)
(*                                                                         *)
(* A handler allocates its engagement_id and its audit_id itself, so both  *)
(* are named after the handler.                                            *)
(***************************************************************************)
EXTENDS Integers, FiniteSets

CONSTANTS
    Handlers,       \* executions of the RPC, retries of a client included
    Requests,       \* records with a request_id and the fields of StartEngagement
    None,
    MAX_ATTEMPTS,   \* of phase2_finalize
    Statuses,       \* what engagements.status moves on to
    MaxCrashes      \* bound: crashes of the process

ASSUME AttemptsAssumption == MAX_ATTEMPTS \in Nat \ {0} /\ MaxCrashes \in Nat
ASSUME StatusesAssumption == Statuses \subseteq 1..6
ASSUME NoneAssumption == None \notin Handlers \cup Requests

-----------------------------------------------------------------------------
(* Hash.  SHA-256 is taken to have no collisions. *)

\* The allow-list.
IdempotencyFields ==
    {"org_id", "channel", "mode", "journey_version", "contact_kind", "contact_id",
     "contact_phone", "batch_id", "voice_profile_id", "test_mode", "language"}

\* A bug: both kinds of contact are written under one key.
JsonOneContact(q) ==
    LET name(f) == IF f \in {"contact_id", "contact_phone"} THEN "contact" ELSE f
        present == {f \in IdempotencyFields : q[f] # None}
    IN  [k \in {name(f) : f \in present} |-> q[CHOOSE f \in present : name(f) = k]]

\* Absent fields are left out of the object.
canonical_json(q) ==
    [f \in {f \in IdempotencyFields : q[f] # None} |-> q[f]]

canonical_hash(q) == canonical_json(q)

\* UNIQUE (organization_id, request_id)
KeyOf(q) == <<q.org_id, q.request_id>>
Keys     == {KeyOf(q) : q \in Requests}

SamePayload(p, q) == \A f \in IdempotencyFields : p[f] = q[f]

\* engagements.status: 1 to 3 active, 4 SUCCESS, 5 CANCELLED, 6 FAILED.
Terminal == {4, 5, 6}

-----------------------------------------------------------------------------
VARIABLES
    pc,             \* pc[h]: the next step of h
    request,        \* request[h]: what h was asked
    answer,         \* answer[h]: what h answered
    attempt,        \* attempt[h]: failed attempts of phase2_finalize
    outcome,        \* outcome[h]: what its orchestration resolved to
    open,           \* open[k]: the handler whose open transaction holds key k
    logged,         \* logged[h]: the audit row of h is in its open transaction
    engagements,    \* engagements[k]: the committed row
    engagement_audit,           \* engagement_audit[h]: the outcome in the committed audit row
    audit_insert_failures_total,
    crashes,
    acted           \* engagements whose orchestration has begun (history)

handlerVars == <<pc, request, answer, attempt, outcome>>
txVars      == <<open, logged>>
dbVars      == <<engagements, engagement_audit>>
vars        == <<handlerVars, txVars, dbVars, audit_insert_failures_total, crashes, acted>>

Init ==
    /\ pc = [h \in Handlers |-> "idle"]
    /\ request = [h \in Handlers |-> None]
    /\ answer = [h \in Handlers |-> None]
    /\ attempt = [h \in Handlers |-> 0]
    /\ outcome = [h \in Handlers |-> None]
    /\ open = [k \in Keys |-> None]
    /\ logged = [h \in Handlers |-> FALSE]
    /\ engagements = [k \in Keys |-> None]
    /\ engagement_audit = [h \in Handlers |-> None]
    /\ audit_insert_failures_total = 0
    /\ crashes = 0
    /\ acted = {}

Goto(h, next) == pc' = [pc EXCEPT ![h] = next]

\* h answers and is done.  is_terminal is that of a Replay.
Reply(h, kind, engagement_id, is_terminal) ==
    /\ Goto(h, "done")
    /\ answer' = [answer EXCEPT ![h] =
                     [kind |-> kind, engagement_id |-> engagement_id, is_terminal |-> is_terminal]]

Receive(h, q) ==
    /\ pc[h] = "idle"
    /\ request' = [request EXCEPT ![h] = q]
    /\ Goto(h, "check")
    /\ UNCHANGED <<answer, attempt, outcome, txVars, dbVars, audit_insert_failures_total, crashes,
                   acted>>

-----------------------------------------------------------------------------
(* IdempotencyChecker::check. *)

\* A bug: a row that is not terminal yet counts as absent.
FindTerminal(h) ==
    LET row == engagements[KeyOf(request[h])]
    IN  IF row # None /\ row.status \in Terminal THEN row ELSE None

FindRow(h) == engagements[KeyOf(request[h])]

IsTerminal(status) == status \in Terminal

CheckNew(h) ==
    /\ pc[h] = "check" /\ FindRow(h) = None
    /\ Goto(h, "insert")
    /\ UNCHANGED <<request, answer, attempt, outcome, txVars, dbVars, audit_insert_failures_total,
                   crashes, acted>>

CheckReplay(h) ==
    /\ pc[h] = "check" /\ FindRow(h) # None
    /\ FindRow(h).payload_hash = canonical_hash(request[h])
    /\ Reply(h, "engagement", FindRow(h).engagement_id, IsTerminal(FindRow(h).status))
    /\ UNCHANGED <<request, attempt, outcome, txVars, dbVars, audit_insert_failures_total, crashes,
                   acted>>

CheckConflict(h) ==
    /\ pc[h] = "check" /\ FindRow(h) # None
    /\ FindRow(h).payload_hash # canonical_hash(request[h])
    /\ Reply(h, "conflict", None, FALSE)
    /\ UNCHANGED <<request, attempt, outcome, txVars, dbVars, audit_insert_failures_total, crashes,
                   acted>>

\* The query fails, or no connection is free: the caller answers INTERNAL.
CheckFails(h) ==
    /\ pc[h] = "check"
    /\ Reply(h, "internal", None, FALSE)
    /\ UNCHANGED <<request, attempt, outcome, txVars, dbVars, audit_insert_failures_total, crashes,
                   acted>>

-----------------------------------------------------------------------------
(* The transaction tx-1. *)

\* INSERT ... ON CONFLICT DO NOTHING RETURNING returns the row.
InsertRow(h) ==
    LET k == KeyOf(request[h])
    IN  /\ pc[h] = "insert" /\ open[k] = None /\ engagements[k] = None
        /\ open' = [open EXCEPT ![k] = h]
        /\ Goto(h, "phase1")
        /\ UNCHANGED <<request, answer, attempt, outcome, logged, dbVars,
                       audit_insert_failures_total, crashes, acted>>

\* It returns no row: a concurrent duplicate.
InsertNothing(h) ==
    LET k == KeyOf(request[h])
    IN  /\ pc[h] = "insert" /\ open[k] = None /\ engagements[k] # None
        /\ Goto(h, "check")
        /\ UNCHANGED <<request, answer, attempt, outcome, txVars, dbVars,
                       audit_insert_failures_total, crashes, acted>>

InsertFails(h) ==
    /\ pc[h] = "insert"
    /\ Reply(h, "internal", None, FALSE)
    /\ UNCHANGED <<request, attempt, outcome, txVars, dbVars, audit_insert_failures_total, crashes,
                   acted>>

\* A bug: the row is inserted through the pool, outside the transaction.
Phase1OwnConnection(h) ==
    /\ pc[h] = "phase1"
    /\ engagement_audit' = [engagement_audit EXCEPT ![h] = "Pending"]
    /\ Goto(h, "commit")
    /\ UNCHANGED <<request, answer, attempt, outcome, txVars, engagements,
                   audit_insert_failures_total, crashes, acted>>

\* The PENDING row is written in the transaction of the caller.
Phase1Ok(h) ==
    /\ pc[h] = "phase1"
    /\ logged' = [logged EXCEPT ![h] = TRUE]
    /\ Goto(h, "commit")
    /\ UNCHANGED <<request, answer, attempt, outcome, open, dbVars, audit_insert_failures_total,
                   crashes, acted>>

\* The transaction of h ends without effect and h answers INTERNAL.
Rollback(h) ==
    /\ open' = [open EXCEPT ![KeyOf(request[h])] = None]
    /\ logged' = [logged EXCEPT ![h] = FALSE]
    /\ Reply(h, "internal", None, FALSE)

\* A bug: the error of phase1_insert is logged and not returned.
Phase1Swallowed(h) ==
    /\ pc[h] = "phase1"
    /\ Goto(h, "commit")
    /\ audit_insert_failures_total' = audit_insert_failures_total + 1
    /\ UNCHANGED <<request, answer, attempt, outcome, txVars, dbVars, crashes, acted>>

\* The insert fails: it is counted and the error goes to the caller.
Phase1Fails(h) ==
    /\ pc[h] = "phase1"
    /\ audit_insert_failures_total' = audit_insert_failures_total + 1
    /\ Rollback(h)
    /\ UNCHANGED <<request, attempt, outcome, dbVars, crashes, acted>>

\* The rows of h become visible together.
Committed(h) ==
    /\ open' = [open EXCEPT ![KeyOf(request[h])] = None]
    /\ logged' = [logged EXCEPT ![h] = FALSE]
    /\ engagements' = [engagements EXCEPT ![KeyOf(request[h])] =
                          [engagement_id |-> h, payload_hash |-> canonical_hash(request[h]),
                           request |-> request[h], status |-> 1]]
    /\ engagement_audit' = [engagement_audit EXCEPT ![h] = IF logged[h] THEN "Pending" ELSE @]

CommitOk(h) ==
    /\ pc[h] = "commit"
    /\ Committed(h)
    /\ Goto(h, "orchestrate")
    /\ UNCHANGED <<request, answer, attempt, outcome, audit_insert_failures_total, crashes, acted>>

CommitFails(h) ==
    /\ pc[h] = "commit"
    /\ Rollback(h)
    /\ UNCHANGED <<request, attempt, outcome, dbVars, audit_insert_failures_total, crashes, acted>>

\* The commit happens and its confirmation is lost: h sees an error.
CommitUnconfirmed(h) ==
    /\ pc[h] = "commit"
    /\ Committed(h)
    /\ Goto(h, "unconfirmed")
    /\ UNCHANGED <<request, answer, attempt, outcome, audit_insert_failures_total, crashes, acted>>

CommitError(h) ==
    /\ pc[h] = "unconfirmed"
    /\ Reply(h, "internal", None, FALSE)
    /\ UNCHANGED <<request, attempt, outcome, txVars, dbVars, audit_insert_failures_total, crashes,
                   acted>>

-----------------------------------------------------------------------------
(* After the commit. *)

Orchestrate(h) ==
    /\ pc[h] = "orchestrate" /\ h \notin acted
    /\ acted' = acted \cup {h}
    /\ UNCHANGED <<handlerVars, txVars, dbVars, audit_insert_failures_total, crashes>>

Resolve(h, result) ==
    /\ pc[h] = "orchestrate" /\ h \in acted
    /\ outcome' = [outcome EXCEPT ![h] = result]
    /\ Goto(h, "phase2")
    /\ UNCHANGED <<request, answer, attempt, txVars, dbVars, audit_insert_failures_total, crashes,
                   acted>>

\* The UPDATE of phase2_attempt: by audit_id alone; no such row is no error.
Finalized(h) ==
    engagement_audit' =
        [engagement_audit EXCEPT ![h] = IF @ = None THEN None ELSE outcome[h]]

Phase2Ok(h) ==
    /\ pc[h] = "phase2"
    /\ Finalized(h)
    /\ Reply(h, "engagement", h, FALSE)
    /\ UNCHANGED <<request, attempt, outcome, txVars, engagements, audit_insert_failures_total,
                   crashes, acted>>

\* A bug: giving up after the last attempt is not counted.
Phase2GivesUpQuietly(h) ==
    /\ attempt' = [attempt EXCEPT ![h] = @ + 1]
    /\ IF attempt[h] + 1 < MAX_ATTEMPTS
       THEN Goto(h, "phase2") /\ UNCHANGED answer
       ELSE Reply(h, "engagement", h, FALSE)
    /\ UNCHANGED audit_insert_failures_total

\* An attempt failed: try again, or count it and give up.
Phase2Retry(h) ==
    /\ attempt' = [attempt EXCEPT ![h] = @ + 1]
    /\ IF attempt[h] + 1 < MAX_ATTEMPTS
       THEN Goto(h, "phase2") /\ UNCHANGED <<answer, audit_insert_failures_total>>
       ELSE /\ audit_insert_failures_total' = audit_insert_failures_total + 1
            /\ Reply(h, "engagement", h, FALSE)

Phase2Fails(h) ==
    /\ pc[h] = "phase2"
    /\ Phase2Retry(h)
    /\ UNCHANGED <<request, outcome, txVars, dbVars, crashes, acted>>

\* The UPDATE happens and its confirmation is lost.
Phase2Unconfirmed(h) ==
    /\ pc[h] = "phase2"
    /\ Finalized(h)
    /\ Phase2Retry(h)
    /\ UNCHANGED <<request, outcome, txVars, engagements, crashes, acted>>

-----------------------------------------------------------------------------
(* The rest of the system. *)

\* An engagement that is not terminal moves on; that a terminal one stays is
\* assumed of the code that will move it.
Advance(k, status) ==
    /\ engagements[k] # None
    /\ engagements[k].status \notin Terminal /\ status > engagements[k].status
    /\ engagements' = [engagements EXCEPT ![k].status = status]
    /\ UNCHANGED <<handlerVars, txVars, engagement_audit, audit_insert_failures_total, crashes,
                   acted>>

InProgress(h) == pc[h] \notin {"idle", "done", "dead"}

\* The process dies: its handlers with it, open transactions roll back, and
\* the counters start again from 0.
Crash ==
    /\ crashes < MaxCrashes
    /\ crashes' = crashes + 1
    /\ pc' = [h \in Handlers |-> IF pc[h] = "idle" THEN "idle" ELSE "dead"]
    /\ open' = [k \in Keys |-> None]
    /\ logged' = [h \in Handlers |-> FALSE]
    /\ audit_insert_failures_total' = 0
    /\ UNCHANGED <<request, answer, attempt, outcome, dbVars, acted>>

\* What h does when the database lets it; an INSERT that waits for the
\* transaction of another handler does nothing.
Proceed(h) ==
    \/ CheckNew(h) \/ CheckReplay(h) \/ CheckConflict(h) \/ CheckFails(h)
    \/ InsertRow(h) \/ InsertNothing(h)
    \/ Phase1Ok(h) \/ Phase1Fails(h)
    \/ CommitOk(h) \/ CommitFails(h) \/ CommitUnconfirmed(h) \/ CommitError(h)
    \/ Orchestrate(h) \/ \E result \in {"Success", "ClientError", "ServerError"} : Resolve(h, result)
    \/ Phase2Ok(h) \/ Phase2Fails(h) \/ Phase2Unconfirmed(h)

HandlerStep(h) == Proceed(h) \/ InsertFails(h)

Next ==
    \/ \E h \in Handlers, q \in Requests : Receive(h, q)
    \/ \E h \in Handlers : HandlerStep(h)
    \/ \E k \in Keys, status \in Statuses : Advance(k, status)
    \/ Crash

\* Fairness: tokio polls a handler until it is done or the process dies.  No
\* INSERT has to fail, so that one that waits is not saved by an error.
Spec == Init /\ [][Next]_vars /\ \A h \in Handlers : WF_vars(Proceed(h))

-----------------------------------------------------------------------------
(* Properties. *)

Outcomes == {"Pending", "Success", "ClientError", "ServerError"}

Rows == [engagement_id : Handlers, payload_hash : {canonical_hash(q) : q \in Requests},
         request : Requests, status : 1..6]

Answers == [kind : {"engagement", "conflict", "internal"}, engagement_id : Handlers \cup {None},
            is_terminal : BOOLEAN]

\* What StartPromise knows of a row.
StartedRows == [engagement_id : Handlers, request : Requests]

ASSUME NoValueAssumption == None \notin Outcomes \cup Rows \cup Answers \cup StartedRows

\* Type invariant.
TypeOK ==
    /\ pc \in [Handlers -> {"idle", "check", "insert", "phase1", "commit", "unconfirmed",
                            "orchestrate", "phase2", "done", "dead"}]
    /\ request \in [Handlers -> Requests \cup {None}]
    /\ answer \in [Handlers -> Answers \cup {None}]
    /\ outcome \in [Handlers -> (Outcomes \ {"Pending"}) \cup {None}]
    /\ open \in [Keys -> Handlers \cup {None}]
    /\ logged \in [Handlers -> BOOLEAN]
    /\ engagements \in [Keys -> Rows \cup {None}]
    /\ engagement_audit \in [Handlers -> Outcomes \cup {None}]
    /\ acted \subseteq Handlers

\* "if we can't audit, we don't act": every engagement that is committed, and
\* every one whose orchestration began, has an audit row.
ActOnlyIfAudited ==
    /\ \A h \in acted : engagement_audit[h] # None
    /\ \A k \in Keys : engagements[k] # None
           => engagement_audit[engagements[k].engagement_id] # None

\* An audit row says "Pending" or what the orchestration resolved to; it
\* exists only for an engagement that was committed.
AuditIsTruthful ==
    \A h \in Handlers : engagement_audit[h] # None =>
        /\ engagement_audit[h] \in {"Pending", outcome[h]}
        /\ engagements[KeyOf(request[h])] # None
        /\ engagements[KeyOf(request[h])].engagement_id = h

\* The PENDING rows that phase2_finalize gave up on since the process started.
\* The row of a commit that was not confirmed is not among them: its handler
\* answers INTERNAL, and nobody counts it.
GivenUp ==
    {h \in Handlers : pc[h] = "done" /\ answer[h].kind = "engagement"
                          /\ answer[h].engagement_id = h /\ engagement_audit[h] = "Pending"}

\* "alert threshold: >0": each PENDING row that phase2_finalize gave up on while
\* the process lives has been counted.
PendingIsCounted == Cardinality(GivenUp) <= audit_insert_failures_total

\* The clients' view: StartPromise.
PromiseStarted ==
    [k \in Keys |-> IF engagements[k] = None THEN None
                    ELSE [engagement_id |-> engagements[k].engagement_id,
                          request |-> engagements[k].request]]

PromiseOver == {k \in Keys : engagements[k] # None /\ engagements[k].status \in Terminal}

Promise == INSTANCE StartPromise WITH started <- PromiseStarted, over <- PromiseOver

\* Whatever is concurrent, fails or crashes, the requests with one request_id
\* get one engagement or a conflict, as idempotency.rs promises, and a replay
\* that is answered as terminal is of an engagement that has ended for good.
ImplementsStartPromise == Promise!Spec

\* Every handler answers, unless the process dies: no chain of waits for
\* another's transaction and of repeated checks goes on for ever.
HandlersAnswer == \A h \in Handlers : InProgress(h) ~> ~InProgress(h)
=============================================================================
