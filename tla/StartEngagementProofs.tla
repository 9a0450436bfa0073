----------------------- MODULE StartEngagementProofs -----------------------
(***************************************************************************)
(* Proofs about StartEngagement: for any number of concurrent handlers,    *)
(* any requests and any number of crashes, one request_id starts one       *)
(* engagement, nothing is started that is not audited, and the audit trail *)
(* says what happened.                                                     *)
(***************************************************************************)
EXTENDS StartEngagement, FiniteSetTheorems, TLAPS

-----------------------------------------------------------------------------
(* The inductive invariant. *)

\* What a handler knows at each of its steps.
HandlerInv ==
    \A h \in Handlers :
        /\ pc[h] = "idle" <=> request[h] = None
        /\ pc[h] \notin {"done", "dead"} => answer[h] = None
        /\ pc[h] \in {"phase1", "commit"} => open[KeyOf(request[h])] = h
        /\ logged[h] <=> pc[h] = "commit"
        /\ pc[h] \in {"idle", "check", "insert", "phase1", "commit"}
               => engagement_audit[h] = None /\ h \notin acted
        /\ pc[h] \in {"orchestrate", "phase2"} => engagement_audit[h] # None
        /\ pc[h] \in {"idle", "check", "insert", "phase1", "commit", "orchestrate"}
               => outcome[h] = None
        /\ pc[h] = "phase2" => outcome[h] # None
        /\ h \in acted => engagement_audit[h] # None

\* A key that an open transaction holds has no row, and the holder is between
\* its INSERT and its COMMIT.
OpenInv ==
    \A k \in Keys : open[k] # None =>
        /\ engagements[k] = None
        /\ pc[open[k]] \in {"phase1", "commit"}
        /\ KeyOf(request[open[k]]) = k

\* A row and the audit row of its handler come together.
RowInv ==
    \A k \in Keys : engagements[k] # None =>
        /\ engagement_audit[engagements[k].engagement_id] # None
        /\ engagements[k].payload_hash = canonical_hash(engagements[k].request)

AuditInv ==
    \A h \in Handlers : engagement_audit[h] # None =>
        /\ engagement_audit[h] \in {"Pending", outcome[h]}
        /\ request[h] # None
        /\ engagements[KeyOf(request[h])] # None
        /\ engagements[KeyOf(request[h])].engagement_id = h
        /\ engagements[KeyOf(request[h])].request = request[h]

\* A replay that was answered as terminal is one.
ReplayInv ==
    \A h \in Handlers : answer[h] # None /\ answer[h].is_terminal =>
        /\ request[h] # None
        /\ engagements[KeyOf(request[h])] # None
        /\ engagements[KeyOf(request[h])].status \in Terminal

IInv == TypeOK /\ HandlerInv /\ OpenInv /\ RowInv /\ AuditInv /\ ReplayInv

-----------------------------------------------------------------------------
(* Lemmas about the operators. *)

\* The canonical JSON forgets nothing that the allow-list names: two requests
\* hash alike iff they have the same payload, absent fields included.
LEMMA HashFaithful ==
  ASSUME NEW p, NEW q
  PROVE  canonical_hash(p) = canonical_hash(q) <=> SamePayload(p, q)
<1>1. ASSUME canonical_hash(p) = canonical_hash(q) PROVE SamePayload(p, q)
  <2> DEFINE P == {f \in IdempotencyFields : p[f] # None}
             Q == {f \in IdempotencyFields : q[f] # None}
  <2>1. [f \in P |-> p[f]] = [f \in Q |-> q[f]]  BY Zenon, <1>1 DEF canonical_hash, canonical_json
  <2>2. P = Q
    <3>1. P = DOMAIN [f \in P |-> p[f]]  BY Zenon
    <3>2. Q = DOMAIN [f \in Q |-> q[f]]  BY Zenon
    <3> QED  BY Zenon, <3>1, <3>2, <2>1
  <2>3. ASSUME NEW f \in IdempotencyFields PROVE p[f] = q[f]
    <3>1. CASE f \in P
      <4>1. [g \in P |-> p[g]][f] = p[f]  BY Zenon, <3>1
      <4>2. [g \in Q |-> q[g]][f] = q[f]  BY Zenon, <3>1, <2>2
      <4> QED  BY Zenon, <4>1, <4>2, <2>1
    <3>2. CASE f \notin P
      <4>1. f \notin Q  BY Zenon, <3>2, <2>2
      <4> QED  BY Zenon, <3>2, <4>1
    <3> QED  BY Zenon, <3>1, <3>2
  <2> QED  BY Zenon, <2>3 DEF SamePayload
<1>2. ASSUME SamePayload(p, q) PROVE canonical_hash(p) = canonical_hash(q)
  <2>1. {f \in IdempotencyFields : p[f] # None} = {f \in IdempotencyFields : q[f] # None}
    BY Zenon, <1>2 DEF SamePayload
  <2>2. \A f \in IdempotencyFields : p[f] = q[f]  BY Zenon, <1>2 DEF SamePayload
  <2> QED  BY Zenon, <2>1, <2>2 DEF canonical_hash, canonical_json
<1> QED  BY Zenon, <1>1, <1>2

LEMMA InitInv == Init => IInv
<1> SUFFICES ASSUME Init PROVE IInv
  BY Zenon
<1>1. TypeOK
  BY Zenon DEF Init, TypeOK
<1>2. HandlerInv
  BY Zenon DEF Init, HandlerInv
<1>3. OpenInv /\ RowInv /\ AuditInv /\ ReplayInv
  BY Zenon DEF Init, OpenInv, RowInv, AuditInv, ReplayInv
<1> QED  BY Zenon, <1>1, <1>2, <1>3 DEF IInv

-----------------------------------------------------------------------------
(* The steps of a handler keep the invariant. *)

\* The row that h finds and the key it has.
LEMMA KeyOfHandler ==
  ASSUME IInv, NEW h \in Handlers, pc[h] # "idle"
  PROVE  request[h] \in Requests /\ KeyOf(request[h]) \in Keys
<1>1. request[h] \in Requests
  BY Zenon, NoneAssumption DEF IInv, TypeOK, HandlerInv
<1> QED  BY Zenon, <1>1 DEF Keys

LEMMA ReceiveInv ==
  ASSUME IInv, NEW h \in Handlers, NEW q \in Requests, Receive(h, q)
  PROVE  IInv'
<1> USE NoneAssumption DEF IInv, Receive, Goto, txVars, dbVars
<1>1. TypeOK'
  BY Zenon DEF TypeOK
<1>2. HandlerInv'
  BY DEF TypeOK, HandlerInv
<1>3. OpenInv' /\ RowInv'
  BY DEF TypeOK, OpenInv, RowInv
<1>4. engagement_audit[h] = None /\ answer[h] = None
  BY Zenon DEF HandlerInv
<1>5. AuditInv' /\ ReplayInv'
  BY Zenon, <1>4 DEF TypeOK, AuditInv, ReplayInv
<1> QED  BY Zenon, <1>1, <1>2, <1>3, <1>5

\* CheckNew and InsertNothing.
LEMMA MoveInv ==
  ASSUME IInv, NEW h \in Handlers, CheckNew(h) \/ InsertNothing(h)
  PROVE  IInv'
<1>1. /\ pc[h] \in {"check", "insert"}
      /\ \E n \in {"check", "insert"} : pc' = [pc EXCEPT ![h] = n]
      /\ UNCHANGED <<request, answer, outcome, open, logged, engagements, engagement_audit, acted>>
  BY Zenon DEF CheckNew, InsertNothing, Goto, txVars, dbVars
<1> USE <1>1 DEF IInv
<1>2. TypeOK'
  BY Zenon DEF TypeOK
<1>3. HandlerInv' /\ OpenInv'
  BY DEF TypeOK, HandlerInv, OpenInv
<1>4. RowInv' /\ AuditInv' /\ ReplayInv'
  BY Zenon DEF RowInv, AuditInv, ReplayInv
<1> QED  BY Zenon, <1>2, <1>3, <1>4

\* h answers from a step in which it has no open transaction.
LEMMA ReplyInv ==
  ASSUME IInv, NEW h \in Handlers, pc[h] \in {"check", "insert", "unconfirmed", "phase2"},
         NEW kind \in {"engagement", "conflict", "internal"},
         NEW id \in Handlers \cup {None}, NEW term \in BOOLEAN,
         Reply(h, kind, id, term),
         term => engagements[KeyOf(request[h])] # None
                     /\ engagements[KeyOf(request[h])].status \in Terminal,
         UNCHANGED <<request, outcome, open, logged, engagements, engagement_audit, acted>>
  PROVE  IInv'
<1> DEFINE a == [kind |-> kind, engagement_id |-> id, is_terminal |-> term]
<1>1. /\ pc' = [pc EXCEPT ![h] = "done"] /\ answer' = [answer EXCEPT ![h] = a]
      /\ a \in Answers /\ a.is_terminal = term
  BY Zenon DEF Reply, Goto, Answers
<1> HIDE DEF a
<1> USE <1>1 DEF IInv
<1>2. TypeOK'
  BY Zenon DEF TypeOK
<1>3. HandlerInv' /\ OpenInv'
  BY DEF TypeOK, HandlerInv, OpenInv
<1>4. RowInv' /\ AuditInv'
  BY Zenon DEF RowInv, AuditInv
<1>5. ReplayInv'
  BY Zenon DEF TypeOK, HandlerInv, ReplayInv
<1> QED  BY Zenon, <1>2, <1>3, <1>4, <1>5

LEMMA InsertRowInv ==
  ASSUME IInv, NEW h \in Handlers, InsertRow(h)
  PROVE  IInv'
<1>1. pc[h] = "insert" /\ request[h] \in Requests /\ KeyOf(request[h]) \in Keys
  BY Zenon, KeyOfHandler DEF InsertRow
<1> USE <1>1, NoneAssumption DEF IInv, InsertRow, Goto, dbVars
<1>2. TypeOK'
  BY Zenon DEF TypeOK
<1>3. HandlerInv'
  BY DEF TypeOK, HandlerInv, OpenInv
<1>4. OpenInv'
  BY DEF TypeOK, OpenInv, HandlerInv
<1>5. RowInv' /\ AuditInv' /\ ReplayInv'
  BY Zenon DEF RowInv, AuditInv, ReplayInv
<1> QED  BY Zenon, <1>2, <1>3, <1>4, <1>5

LEMMA Phase1OkInv ==
  ASSUME IInv, NEW h \in Handlers, Phase1Ok(h)
  PROVE  IInv'
<1> USE DEF IInv, Phase1Ok, Goto, dbVars
<1>1. TypeOK'
  BY Zenon DEF TypeOK
<1>2. HandlerInv'
  BY Zenon DEF TypeOK, HandlerInv
<1>3. OpenInv'
  BY Zenon DEF TypeOK, OpenInv
<1>4. RowInv' /\ AuditInv' /\ ReplayInv'
  BY Zenon DEF RowInv, AuditInv, ReplayInv
<1> QED  BY Zenon, <1>1, <1>2, <1>3, <1>4

LEMMA RollbackInv ==
  ASSUME IInv, NEW h \in Handlers, pc[h] \in {"phase1", "commit"}, Rollback(h),
         UNCHANGED <<request, outcome, engagements, engagement_audit, acted>>
  PROVE  IInv'
<1> DEFINE a == [kind |-> "internal", engagement_id |-> None, is_terminal |-> FALSE]
<1>1. /\ pc' = [pc EXCEPT ![h] = "done"] /\ answer' = [answer EXCEPT ![h] = a]
      /\ a \in Answers /\ ~ a.is_terminal
      /\ open' = [open EXCEPT ![KeyOf(request[h])] = None]
      /\ logged' = [logged EXCEPT ![h] = FALSE]
  BY Zenon DEF Rollback, Reply, Goto, Answers
<1>2. request[h] \in Requests /\ KeyOf(request[h]) \in Keys
  BY Zenon, KeyOfHandler
<1> HIDE DEF a
<1> USE <1>1, <1>2, NoneAssumption DEF IInv
<1>3. TypeOK'
  BY Zenon DEF TypeOK
<1>4. open[KeyOf(request[h])] = h
  BY Zenon DEF HandlerInv
<1>5. HandlerInv'
  BY <1>4 DEF TypeOK, HandlerInv
<1>6. OpenInv'
  BY Zenon, <1>4 DEF TypeOK, OpenInv
<1>7. RowInv' /\ AuditInv'
  BY Zenon DEF RowInv, AuditInv
<1>8. ReplayInv'
  BY Zenon DEF TypeOK, ReplayInv
<1> QED  BY Zenon, <1>3, <1>5, <1>6, <1>7, <1>8

\* What a commit does, whether its confirmation arrives or not.
LEMMA CommitStep ==
  ASSUME IInv, NEW h \in Handlers, CommitOk(h) \/ CommitUnconfirmed(h)
  PROVE  /\ pc[h] = "commit" /\ request[h] \in Requests /\ KeyOf(request[h]) \in Keys
         /\ open[KeyOf(request[h])] = h /\ engagements[KeyOf(request[h])] = None
         /\ \E n \in {"orchestrate", "unconfirmed"} : pc' = [pc EXCEPT ![h] = n]
         /\ open' = [open EXCEPT ![KeyOf(request[h])] = None]
         /\ logged' = [logged EXCEPT ![h] = FALSE]
         /\ engagement_audit' = [engagement_audit EXCEPT ![h] = "Pending"]
         /\ \E row \in Rows :
                /\ engagements' = [engagements EXCEPT ![KeyOf(request[h])] = row]
                /\ row = [engagement_id |-> h, payload_hash |-> canonical_hash(request[h]),
                          request |-> request[h], status |-> 1]
         /\ UNCHANGED <<request, answer, outcome, acted>>
<1>1. pc[h] = "commit" /\ Committed(h) /\ UNCHANGED <<request, answer, outcome, acted>>
      /\ \E n \in {"orchestrate", "unconfirmed"} : pc' = [pc EXCEPT ![h] = n]
  BY Zenon DEF CommitOk, CommitUnconfirmed, Goto
<1>2. request[h] \in Requests /\ KeyOf(request[h]) \in Keys
  BY Zenon, <1>1, KeyOfHandler
<1>3. open[KeyOf(request[h])] = h /\ logged[h]
  BY Zenon, <1>1 DEF IInv, HandlerInv
<1>4. engagements[KeyOf(request[h])] = None
  BY Zenon, <1>2, <1>3, NoneAssumption DEF IInv, OpenInv
<1>5. engagement_audit' = [engagement_audit EXCEPT ![h] = "Pending"]
  BY Zenon, <1>1, <1>3 DEF Committed
<1> DEFINE r == [engagement_id |-> h, payload_hash |-> canonical_hash(request[h]),
                 request |-> request[h], status |-> 1]
<1>6. r \in Rows
  BY <1>2 DEF Rows
<1>7. engagements' = [engagements EXCEPT ![KeyOf(request[h])] = r]
  BY Zenon, <1>1 DEF Committed
<1>8. \E row \in Rows :
          /\ engagements' = [engagements EXCEPT ![KeyOf(request[h])] = row]
          /\ row = [engagement_id |-> h, payload_hash |-> canonical_hash(request[h]),
                    request |-> request[h], status |-> 1]
  BY Zenon, <1>6, <1>7
<1> QED  BY Zenon, <1>1, <1>2, <1>3, <1>4, <1>5, <1>8 DEF Committed

LEMMA CommitInv ==
  ASSUME IInv, NEW h \in Handlers, CommitOk(h) \/ CommitUnconfirmed(h)
  PROVE  IInv'
<1>1. /\ pc[h] = "commit" /\ request[h] \in Requests /\ KeyOf(request[h]) \in Keys
      /\ open[KeyOf(request[h])] = h /\ engagements[KeyOf(request[h])] = None
      /\ \E n \in {"orchestrate", "unconfirmed"} : pc' = [pc EXCEPT ![h] = n]
      /\ open' = [open EXCEPT ![KeyOf(request[h])] = None]
      /\ logged' = [logged EXCEPT ![h] = FALSE]
      /\ engagement_audit' = [engagement_audit EXCEPT ![h] = "Pending"]
      /\ UNCHANGED <<request, answer, outcome, acted>>
  BY Zenon, CommitStep
<1>2. PICK row \in Rows :
          /\ engagements' = [engagements EXCEPT ![KeyOf(request[h])] = row]
          /\ row = [engagement_id |-> h, payload_hash |-> canonical_hash(request[h]),
                    request |-> request[h], status |-> 1]
  BY Zenon, CommitStep
<1>3. /\ row.engagement_id = h /\ row.payload_hash = canonical_hash(row.request)
      /\ row.request = request[h] /\ row # None
  BY Zenon, <1>2, NoValueAssumption
<1>4. "Pending" # None /\ "Pending" \in Outcomes
  BY Zenon, NoValueAssumption DEF Outcomes
<1>5. engagements' = [engagements EXCEPT ![KeyOf(request[h])] = row]
  BY Zenon, <1>2
<1> USE NoneAssumption DEF IInv
<1>6. TypeOK'
  BY <1>1, <1>4, <1>5 DEF TypeOK
<1>7. HandlerInv'
  BY <1>1, <1>4 DEF TypeOK, HandlerInv
<1>8. OpenInv'
  BY Zenon, <1>1, <1>5 DEF TypeOK, OpenInv
<1>9. RowInv'
  <2> SUFFICES ASSUME NEW k \in Keys, engagements'[k] # None
               PROVE  /\ engagement_audit'[engagements'[k].engagement_id] # None
                      /\ engagements'[k].payload_hash = canonical_hash(engagements'[k].request)
    BY Zenon DEF RowInv
  <2>1. CASE k = KeyOf(request[h])
    <3>1. engagements'[k] = row  BY Zenon, <2>1, <1>5 DEF TypeOK
    <3>2. engagement_audit'[h] = "Pending"  BY Zenon, <1>1 DEF TypeOK
    <3> QED  BY Zenon, <3>1, <3>2, <1>3, <1>4
  <2>2. CASE k # KeyOf(request[h])
    <3>1. engagements'[k] = engagements[k]  BY Zenon, <2>2, <1>5 DEF TypeOK
    <3>2. engagement_audit[engagements[k].engagement_id] # None
          /\ engagements[k].payload_hash = canonical_hash(engagements[k].request)
      BY Zenon, <3>1 DEF RowInv
    <3>3. engagements[k] \in Rows  BY Zenon, <3>1 DEF TypeOK
    <3>4. engagements[k].engagement_id \in Handlers  BY Zenon, <3>3 DEF Rows
    <3>5. engagement_audit'[engagements[k].engagement_id] # None
      BY Zenon, <3>2, <3>4, <1>1, <1>4 DEF TypeOK
    <3> QED  BY Zenon, <3>1, <3>2, <3>5
  <2> QED  BY Zenon, <2>1, <2>2
<1>10. AuditInv'
  BY <1>1, <1>3, <1>4, <1>5 DEF TypeOK, AuditInv
<1>11. ReplayInv'
  BY <1>1, <1>5 DEF TypeOK, ReplayInv
<1> QED  BY Zenon, <1>6, <1>7, <1>8, <1>9, <1>10, <1>11

LEMMA OrchestrateInv ==
  ASSUME IInv, NEW h \in Handlers, Orchestrate(h)
  PROVE  IInv'
<1> USE DEF IInv, Orchestrate, handlerVars, txVars, dbVars
<1>1. TypeOK' /\ OpenInv' /\ RowInv' /\ AuditInv' /\ ReplayInv'
  BY Zenon DEF TypeOK, OpenInv, RowInv, AuditInv, ReplayInv
<1>2. HandlerInv'
  BY Zenon DEF TypeOK, HandlerInv
<1> QED  BY Zenon, <1>1, <1>2

LEMMA ResolveInv ==
  ASSUME IInv, NEW h \in Handlers, NEW result \in {"Success", "ClientError", "ServerError"},
         Resolve(h, result)
  PROVE  IInv'
<1>1. result \in Outcomes \ {"Pending"} /\ result # None
  BY Zenon, NoValueAssumption DEF Outcomes
<1> USE <1>1 DEF IInv, Resolve, Goto, txVars, dbVars
<1>2. TypeOK'
  BY Zenon DEF TypeOK
<1>3. HandlerInv'
  BY DEF TypeOK, HandlerInv
<1>4. OpenInv' /\ RowInv' /\ ReplayInv'
  BY Zenon DEF TypeOK, OpenInv, RowInv, ReplayInv
<1>5. AuditInv'
  BY DEF TypeOK, HandlerInv, AuditInv
<1> QED  BY Zenon, <1>2, <1>3, <1>4, <1>5

\* The audit row of h is updated, with or without an answer to its client.
LEMMA FinalizedInv ==
  ASSUME IInv, NEW h \in Handlers, pc[h] = "phase2", Finalized(h),
         \/ Goto(h, "phase2") /\ UNCHANGED answer
         \/ Reply(h, "engagement", h, FALSE),
         UNCHANGED <<request, outcome, open, logged, engagements, acted>>
  PROVE  IInv'
<1>1. engagement_audit[h] # None /\ outcome[h] \in Outcomes /\ outcome[h] # None
  BY Zenon DEF IInv, TypeOK, HandlerInv
<1>2. engagement_audit' = [engagement_audit EXCEPT ![h] = outcome[h]]
  BY Zenon, <1>1 DEF Finalized, IInv, TypeOK
<1> DEFINE a == [kind |-> "engagement", engagement_id |-> h, is_terminal |-> FALSE]
<1>3. a \in Answers /\ ~ a.is_terminal
  BY Zenon DEF Answers
<1>4. /\ \E n \in {"phase2", "done"} : pc' = [pc EXCEPT ![h] = n]
      /\ answer' = answer \/ (answer' = [answer EXCEPT ![h] = a] /\ pc' = [pc EXCEPT ![h] = "done"])
  BY Zenon DEF Reply, Goto
<1> HIDE DEF a
<1> USE <1>1, <1>2, <1>3, <1>4 DEF IInv
<1>5. TypeOK'
  BY DEF TypeOK
<1>6. HandlerInv' /\ OpenInv'
  BY DEF TypeOK, HandlerInv, OpenInv
<1>7. RowInv' /\ AuditInv'
  BY DEF TypeOK, RowInv, AuditInv
<1>8. ReplayInv'
  BY DEF TypeOK, ReplayInv
<1> QED  BY Zenon, <1>5, <1>6, <1>7, <1>8

LEMMA Phase2FailsInv ==
  ASSUME IInv, NEW h \in Handlers, Phase2Fails(h)
  PROVE  IInv'
<1>1. /\ pc[h] = "phase2"
      /\ UNCHANGED <<request, outcome, open, logged, engagements, engagement_audit, acted>>
  BY Zenon DEF Phase2Fails, txVars, dbVars
<1>2. CASE Goto(h, "phase2") /\ UNCHANGED answer
  <2>1. pc' = pc
    BY Zenon, <1>1, <1>2 DEF Goto, IInv, TypeOK
  <2> QED  BY Zenon, <2>1, <1>1, <1>2
           DEF IInv, TypeOK, HandlerInv, OpenInv, RowInv, AuditInv, ReplayInv
<1>3. CASE Reply(h, "engagement", h, FALSE)
  BY Zenon, <1>1, <1>3, ReplyInv
<1> QED  BY Zenon, <1>2, <1>3 DEF Phase2Fails, Phase2Retry

LEMMA AdvanceInv ==
  ASSUME IInv, NEW k \in Keys, NEW status \in Statuses, Advance(k, status)
  PROVE  IInv'
<1>1. engagements[k] # None /\ engagements[k] \in Rows
  BY Zenon DEF Advance, IInv, TypeOK
<1>s. status \in 1..6
  BY Zenon, StatusesAssumption
<1> DEFINE row == [engagements[k] EXCEPT !.status = status]
<1>2. /\ row \in Rows /\ row.engagement_id = engagements[k].engagement_id
      /\ row.payload_hash = engagements[k].payload_hash
      /\ row.request = engagements[k].request
  BY Zenon, <1>1, <1>s DEF Rows
<1>3. row # None
  BY Zenon, <1>2, NoValueAssumption
<1>4. engagements' = [engagements EXCEPT ![k] = row]
  BY Zenon DEF Advance
<1>5. engagements[k].status \notin Terminal
      /\ UNCHANGED <<pc, request, answer, outcome, open, logged, engagement_audit, acted>>
  BY Zenon DEF Advance, handlerVars, txVars
<1> HIDE DEF row
<1> USE DEF IInv
<1>6. TypeOK'
  BY Zenon, <1>2, <1>4, <1>5 DEF TypeOK
<1>7. HandlerInv'
  BY Zenon, <1>5 DEF HandlerInv
<1>8. OpenInv'
  BY Zenon, <1>1, <1>4, <1>5 DEF TypeOK, OpenInv
<1>9. RowInv'
  <2> SUFFICES ASSUME NEW l \in Keys, engagements'[l] # None
               PROVE  /\ engagement_audit'[engagements'[l].engagement_id] # None
                      /\ engagements'[l].payload_hash = canonical_hash(engagements'[l].request)
    BY Zenon DEF RowInv
  <2>1. /\ engagement_audit[engagements[l].engagement_id] # None
        /\ engagements[l].payload_hash = canonical_hash(engagements[l].request)
    BY Zenon, <1>1, <1>4 DEF TypeOK, RowInv
  <2>2. /\ engagements'[l].engagement_id = engagements[l].engagement_id
        /\ engagements'[l].payload_hash = engagements[l].payload_hash
        /\ engagements'[l].request = engagements[l].request
    BY Zenon, <1>2, <1>4 DEF TypeOK
  <2> QED  BY Zenon, <2>1, <2>2, <1>5
<1>10. AuditInv'
  BY <1>2, <1>3, <1>4, <1>5 DEF TypeOK, AuditInv
<1>11. ReplayInv'
  BY <1>3, <1>4, <1>5 DEF TypeOK, ReplayInv
<1> QED  BY Zenon, <1>6, <1>7, <1>8, <1>9, <1>10, <1>11

LEMMA CrashInv ==
  ASSUME IInv, Crash
  PROVE  IInv'
<1> USE NoneAssumption DEF IInv, Crash, dbVars
<1>1. TypeOK'
  BY Zenon DEF TypeOK
<1>2. HandlerInv'
  BY Zenon DEF TypeOK, HandlerInv
<1>3. OpenInv' /\ RowInv' /\ AuditInv' /\ ReplayInv'
  BY Zenon DEF OpenInv, RowInv, AuditInv, ReplayInv
<1> QED  BY Zenon, <1>1, <1>2, <1>3

-----------------------------------------------------------------------------
(* The answers of IdempotencyChecker::check. *)

LEMMA ReplayStep ==
  ASSUME IInv, NEW h \in Handlers, CheckReplay(h)
  PROVE  IInv' /\ SamePayload(engagements[KeyOf(request[h])].request, request[h])
<1>1. request[h] \in Requests /\ KeyOf(request[h]) \in Keys
  BY Zenon, KeyOfHandler DEF CheckReplay
<1>2. engagements[KeyOf(request[h])] # None /\ engagements[KeyOf(request[h])] \in Rows
  BY Zenon, <1>1 DEF CheckReplay, FindRow, IInv, TypeOK
<1>3. engagements[KeyOf(request[h])].engagement_id \in Handlers
  BY Zenon, <1>2 DEF Rows
<1>4. IInv'
  <2> DEFINE row == engagements[KeyOf(request[h])]
  <2>1. PICK id \in Handlers : id = row.engagement_id
    BY Zenon, <1>3
  <2>2. PICK term \in BOOLEAN : term = IsTerminal(row.status)
    <3>1. IsTerminal(row.status) \in BOOLEAN
      BY SMT DEF IsTerminal
    <3> QED  BY Zenon, <3>1
  <2>3. Reply(h, "engagement", id, term)
    BY Zenon, <2>1, <2>2 DEF CheckReplay, FindRow, Reply
  <2>4. term => row # None /\ row.status \in Terminal
    BY Zenon, <2>2, <1>2 DEF IsTerminal
  <2>5. pc[h] = "check"
        /\ UNCHANGED <<request, outcome, open, logged, engagements, engagement_audit, acted>>
    BY Zenon DEF CheckReplay, txVars, dbVars
  <2> QED  BY Zenon, <2>3, <2>4, <2>5, ReplyInv
<1>5. PICK p, q : p = engagements[KeyOf(request[h])].request /\ q = request[h]
  BY Zenon
<1>6. canonical_hash(p) = canonical_hash(q)
  BY Zenon, <1>1, <1>2, <1>5 DEF CheckReplay, FindRow, IInv, RowInv
<1>7. SamePayload(p, q)
  BY Zenon, <1>6, HashFaithful
<1> QED  BY Zenon, <1>4, <1>5, <1>7

LEMMA ConflictStep ==
  ASSUME IInv, NEW h \in Handlers, CheckConflict(h)
  PROVE  IInv' /\ ~ SamePayload(engagements[KeyOf(request[h])].request, request[h])
<1>1. request[h] \in Requests /\ KeyOf(request[h]) \in Keys
  BY Zenon, KeyOfHandler DEF CheckConflict
<1>2. engagements[KeyOf(request[h])] # None
  BY Zenon DEF CheckConflict, FindRow
<1>3. IInv'
  BY Zenon, ReplyInv DEF CheckConflict, txVars, dbVars
<1>4. PICK p, q : p = engagements[KeyOf(request[h])].request /\ q = request[h]
  BY Zenon
<1>5. canonical_hash(p) # canonical_hash(q)
  BY Zenon, <1>1, <1>2, <1>4 DEF CheckConflict, FindRow, IInv, RowInv
<1>6. ~ SamePayload(p, q)
  BY Zenon, <1>5, HashFaithful
<1> QED  BY Zenon, <1>3, <1>4, <1>6

-----------------------------------------------------------------------------
(* Every step. *)

LEMMA HandlerStepInv ==
  ASSUME IInv, NEW h \in Handlers, HandlerStep(h)
  PROVE  IInv'
<1>1. CASE CheckNew(h) \/ InsertNothing(h)
  BY Zenon, <1>1, MoveInv
<1>2. CASE CheckReplay(h)
  BY Zenon, <1>2, ReplayStep
<1>3. CASE CheckConflict(h)
  BY Zenon, <1>3, ConflictStep
<1>4. CASE CheckFails(h)
  BY Zenon, <1>4, ReplyInv DEF CheckFails, txVars, dbVars
<1>5. CASE InsertFails(h)
  BY Zenon, <1>5, ReplyInv DEF InsertFails, txVars, dbVars
<1>6. CASE InsertRow(h)
  BY Zenon, <1>6, InsertRowInv
<1>7. CASE Phase1Ok(h)
  BY Zenon, <1>7, Phase1OkInv
<1>8. CASE Phase1Fails(h)
  BY Zenon, <1>8, RollbackInv DEF Phase1Fails, dbVars
<1>9. CASE CommitFails(h)
  BY Zenon, <1>9, RollbackInv DEF CommitFails, dbVars
<1>10. CASE CommitOk(h) \/ CommitUnconfirmed(h)
  BY Zenon, <1>10, CommitInv
<1>11. CASE CommitError(h)
  BY Zenon, <1>11, ReplyInv DEF CommitError, txVars, dbVars
<1>12. CASE Orchestrate(h)
  BY Zenon, <1>12, OrchestrateInv
<1>13. CASE \E result \in {"Success", "ClientError", "ServerError"} : Resolve(h, result)
  BY Zenon, <1>13, ResolveInv
<1>14. CASE Phase2Ok(h)
  BY Zenon, <1>14, FinalizedInv DEF Phase2Ok, txVars
<1>15. CASE Phase2Fails(h)
  BY Zenon, <1>15, Phase2FailsInv
<1>16. CASE Phase2Unconfirmed(h)
  <2>1. \/ Goto(h, "phase2") /\ UNCHANGED answer
        \/ Reply(h, "engagement", h, FALSE)
    BY Zenon, <1>16 DEF Phase2Unconfirmed, Phase2Retry
  <2> QED  BY Zenon, <1>16, <2>1, FinalizedInv DEF Phase2Unconfirmed, txVars
<1> QED
  BY Zenon, <1>1, <1>2, <1>3, <1>4, <1>5, <1>6, <1>7, <1>8, <1>9, <1>10, <1>11, <1>12, <1>13, <1>14,
     <1>15, <1>16 DEF HandlerStep, Proceed

LEMMA NextInv == IInv /\ [Next]_vars => IInv'
<1> SUFFICES ASSUME IInv, [Next]_vars PROVE IInv'
  BY Zenon
<1>1. CASE \E h \in Handlers, q \in Requests : Receive(h, q)
  BY Zenon, <1>1, ReceiveInv
<1>2. CASE \E h \in Handlers : HandlerStep(h)
  BY Zenon, <1>2, HandlerStepInv
<1>3. CASE \E k \in Keys, status \in Statuses : Advance(k, status)
  BY Zenon, <1>3, AdvanceInv
<1>4. CASE Crash
  BY Zenon, <1>4, CrashInv
<1>5. CASE UNCHANGED vars
  BY Zenon, <1>5 DEF vars, handlerVars, txVars, dbVars, IInv, TypeOK, HandlerInv, OpenInv, RowInv,
              AuditInv, ReplayInv
<1> QED  BY Zenon, <1>1, <1>2, <1>3, <1>4, <1>5 DEF Next

\* The inductive invariant holds of every execution.
THEOREM Invariance == Spec => []IInv
BY InitInv, NextInv, PTL DEF Spec

\* Type correctness of every instance.
THEOREM TypeCorrect == Spec => []TypeOK
<1>1. IInv => TypeOK
  BY DEF IInv
<1> QED  BY <1>1, Invariance, PTL

\* "if we can't audit, we don't act": no engagement is committed and no
\* orchestration begins without an audit row, however phase1_insert, the
\* commit and the process fail.
THEOREM Audited == Spec => []ActOnlyIfAudited
<1>1. IInv => ActOnlyIfAudited
  BY DEF IInv, TypeOK, HandlerInv, RowInv, ActOnlyIfAudited
<1> QED  BY <1>1, Invariance, PTL

\* The audit row says "Pending" or how the orchestration ended, and belongs to
\* the engagement that its handler committed.
THEOREM Truthful == Spec => []AuditIsTruthful
<1>1. IInv => AuditIsTruthful
  BY DEF IInv, AuditInv, AuditIsTruthful
<1> QED  BY <1>1, Invariance, PTL

-----------------------------------------------------------------------------
(* The PENDING rows left behind. *)

\* Finitely many handlers have given up, whatever the set of handlers.
CountInv ==
    /\ audit_insert_failures_total \in Nat
    /\ IsFiniteSet(GivenUp) /\ Cardinality(GivenUp) <= audit_insert_failures_total

\* A handler's step leaves the others as they are.
LEMMA OwnStep ==
  ASSUME IInv, NEW h \in Handlers, HandlerStep(h), NEW g \in Handlers, g # h
  PROVE  pc'[g] = pc[g] /\ answer'[g] = answer[g] /\ engagement_audit'[g] = engagement_audit[g]
<1>t. pc \in [Handlers -> {"idle", "check", "insert", "phase1", "commit", "unconfirmed",
                           "orchestrate", "phase2", "done", "dead"}]
      /\ answer \in [Handlers -> Answers \cup {None}]
      /\ engagement_audit \in [Handlers -> Outcomes \cup {None}]
  BY Zenon DEF IInv, TypeOK
<1>1. \/ pc' = pc
      \/ \E next : pc' = [pc EXCEPT ![h] = next]
  BY Zenon DEF HandlerStep, Proceed, CheckNew, CheckReplay, CheckConflict, CheckFails, InsertRow, InsertNothing,
         InsertFails, Phase1Ok, Phase1Fails, CommitOk, CommitFails, CommitUnconfirmed, CommitError,
         Orchestrate, Resolve, Phase2Ok, Phase2Fails, Phase2Unconfirmed, Phase2Retry, Rollback,
         Reply, Goto, handlerVars
<1>2. \/ answer' = answer
      \/ \E a : answer' = [answer EXCEPT ![h] = a]
  BY Zenon DEF HandlerStep, Proceed, CheckNew, CheckReplay, CheckConflict, CheckFails, InsertRow, InsertNothing,
         InsertFails, Phase1Ok, Phase1Fails, CommitOk, CommitFails, CommitUnconfirmed, CommitError,
         Orchestrate, Resolve, Phase2Ok, Phase2Fails, Phase2Unconfirmed, Phase2Retry, Rollback,
         Reply, handlerVars
<1>3. \/ engagement_audit' = engagement_audit
      \/ \E a : engagement_audit' = [engagement_audit EXCEPT ![h] = a]
  BY Zenon DEF HandlerStep, Proceed, CheckNew, CheckReplay, CheckConflict, CheckFails, InsertRow, InsertNothing,
         InsertFails, Phase1Ok, Phase1Fails, CommitOk, CommitFails, CommitUnconfirmed, CommitError,
         Orchestrate, Resolve, Phase2Ok, Phase2Fails, Phase2Unconfirmed, Finalized, Committed, dbVars
<1>4. QED
  BY Zenon, <1>t, <1>1, <1>2, <1>3

\* A handler that leaves a PENDING row behind counts it.
LEMMA OwnCount ==
  ASSUME IInv, audit_insert_failures_total \in Nat, NEW h \in Handlers, HandlerStep(h)
  PROVE  \/ audit_insert_failures_total' = audit_insert_failures_total + 1
         \/ audit_insert_failures_total' = audit_insert_failures_total /\ h \notin GivenUp'
<1>i. TypeOK /\ HandlerInv
  BY Zenon DEF IInv
<1>1. CASE CheckNew(h) \/ InsertNothing(h) \/ InsertRow(h) \/ Phase1Ok(h)
           \/ CommitOk(h) \/ CommitUnconfirmed(h) \/ Orchestrate(h)
           \/ \E result \in {"Success", "ClientError", "ServerError"} : Resolve(h, result)
  <2>1. UNCHANGED audit_insert_failures_total
    BY Zenon, <1>1 DEF CheckNew, InsertNothing, InsertRow, Phase1Ok, CommitOk, CommitUnconfirmed,
                Orchestrate, Resolve
  <2>2. pc'[h] # "done"
    BY Zenon, <1>i, <1>1 DEF CheckNew, InsertNothing, InsertRow, Phase1Ok, CommitOk, CommitUnconfirmed,
                      Orchestrate, Resolve, Goto, handlerVars, TypeOK
  <2>3. QED
    BY Zenon, <2>1, <2>2 DEF GivenUp
<1>2. CASE CheckConflict(h) \/ CheckFails(h) \/ InsertFails(h) \/ CommitFails(h) \/ CommitError(h)
  <2>1. UNCHANGED audit_insert_failures_total
    BY Zenon, <1>2 DEF CheckConflict, CheckFails, InsertFails, CommitFails, CommitError
  <2>2. \E kind \in {"conflict", "internal"} :
            answer' = [answer EXCEPT ![h] =
                          [kind |-> kind, engagement_id |-> None, is_terminal |-> FALSE]]
    BY Zenon, <1>2 DEF CheckConflict, CheckFails, InsertFails, CommitFails, CommitError, Rollback, Reply
  <2>3. answer'[h].kind # "engagement"
    BY <1>i, <2>2 DEF TypeOK
  <2>4. QED
    BY Zenon, <2>1, <2>3 DEF GivenUp
<1>3. CASE CheckReplay(h)
  <2>1. UNCHANGED <<audit_insert_failures_total, engagement_audit>> /\ pc[h] = "check"
    BY Zenon, <1>3 DEF CheckReplay, dbVars
  <2>2. engagement_audit[h] = None /\ None # "Pending"
    BY Zenon, <1>i, <2>1, NoValueAssumption DEF HandlerInv, Outcomes
  <2>3. QED
    BY Zenon, <2>1, <2>2 DEF GivenUp
<1>4. CASE Phase2Ok(h)
  <2>1. UNCHANGED audit_insert_failures_total
    BY Zenon, <1>4 DEF Phase2Ok
  <2>2. None # "Pending" /\ outcome[h] # "Pending"
    BY Zenon, <1>i, NoValueAssumption DEF TypeOK, Outcomes
  <2>3. engagement_audit'[h] # "Pending"
    BY Zenon, <1>i, <1>4, <2>2 DEF Phase2Ok, Finalized, TypeOK
  <2>4. QED
    BY Zenon, <2>1, <2>3 DEF GivenUp
<1>5. CASE Phase2Fails(h) \/ Phase2Unconfirmed(h)
  <2>1. Phase2Retry(h)
    BY Zenon, <1>5 DEF Phase2Fails, Phase2Unconfirmed
  <2>2. CASE Goto(h, "phase2") /\ UNCHANGED audit_insert_failures_total
    <3>1. pc'[h] # "done"
      BY Zenon, <1>i, <2>2 DEF Goto, TypeOK
    <3>2. QED
      BY Zenon, <2>2, <3>1 DEF GivenUp
  <2>3. QED
    BY Zenon, <2>1, <2>2 DEF Phase2Retry
<1>6. CASE Phase1Fails(h)
  BY Zenon, <1>6 DEF Phase1Fails
<1>7. QED
  BY Zenon, <1>1, <1>2, <1>3, <1>4, <1>5, <1>6 DEF HandlerStep, Proceed

LEMMA CountStep ==
  ASSUME IInv, CountInv, Next
  PROVE  CountInv'
<1>c. audit_insert_failures_total \in Nat /\ IsFiniteSet(GivenUp)
      /\ Cardinality(GivenUp) <= audit_insert_failures_total /\ Cardinality(GivenUp) \in Nat
  BY Zenon, FS_CardinalityType DEF CountInv
<1>l. ASSUME GivenUp' \subseteq GivenUp, UNCHANGED audit_insert_failures_total PROVE CountInv'
  <2>1. IsFiniteSet(GivenUp') /\ Cardinality(GivenUp') <= Cardinality(GivenUp)
    BY Zenon, <1>c, <1>l, FS_Subset
  <2>2. Cardinality(GivenUp') \in Nat
    BY Zenon, <2>1, FS_CardinalityType
  <2>3. QED
    BY <1>c, <1>l, <2>1, <2>2 DEF CountInv
<1>1. CASE \E h \in Handlers, q \in Requests : Receive(h, q)
  <2>1. GivenUp' \subseteq GivenUp
    BY Zenon, <1>1 DEF Receive, Goto, GivenUp, dbVars, IInv, TypeOK
  <2>2. UNCHANGED audit_insert_failures_total
    BY Zenon, <1>1 DEF Receive
  <2>3. QED
    BY Zenon, <1>l, <2>1, <2>2
<1>2. CASE \E h \in Handlers : HandlerStep(h)
  <2>1. PICK h \in Handlers : HandlerStep(h)
    BY Zenon, <1>2
  <2>2. GivenUp' \subseteq GivenUp \cup {h}
    <3>1. \A g \in Handlers : g # h =>
              pc'[g] = pc[g] /\ answer'[g] = answer[g] /\ engagement_audit'[g] = engagement_audit[g]
      BY Zenon, <2>1, OwnStep
    <3>2. QED
      BY Zenon, <3>1 DEF GivenUp
  <2>3. CASE audit_insert_failures_total' = audit_insert_failures_total + 1
    <3>1. /\ IsFiniteSet(GivenUp \cup {h})
          /\ Cardinality(GivenUp \cup {h}) <= Cardinality(GivenUp) + 1
      BY <1>c, FS_AddElement
    <3>2. IsFiniteSet(GivenUp') /\ Cardinality(GivenUp') <= Cardinality(GivenUp \cup {h})
      BY Zenon, <2>2, <3>1, FS_Subset
    <3>3. Cardinality(GivenUp') \in Nat /\ Cardinality(GivenUp \cup {h}) \in Nat
      BY Zenon, <3>1, <3>2, FS_CardinalityType
    <3>4. QED
      BY <1>c, <2>3, <3>1, <3>2, <3>3 DEF CountInv
  <2>4. CASE audit_insert_failures_total' = audit_insert_failures_total /\ h \notin GivenUp'
    BY Zenon, <1>l, <2>2, <2>4
  <2>5. QED
    BY Zenon, <1>c, <2>1, <2>3, <2>4, OwnCount
<1>3. CASE \E k \in Keys, status \in Statuses : Advance(k, status)
  <2>1. GivenUp' = GivenUp /\ UNCHANGED audit_insert_failures_total
    BY Zenon, <1>3 DEF Advance, handlerVars, GivenUp
  <2>2. QED
    BY Zenon, <1>l, <2>1
<1>4. CASE Crash
  <2>1. GivenUp' = {} /\ audit_insert_failures_total' = 0
    BY Zenon, <1>4 DEF Crash, GivenUp
  <2>2. QED
    BY <2>1, FS_EmptySet DEF CountInv
<1>5. QED
  BY Zenon, <1>1, <1>2, <1>3, <1>4 DEF Next

\* Whatever fails, however often and wherever confirmations are lost,
\* audit_insert_failures_total accounts for every PENDING row that
\* phase2_finalize has given up on in the running process.
THEOREM PendingCounted == Spec => []PendingIsCounted
<1>1. Init => CountInv
  <2> SUFFICES ASSUME Init PROVE CountInv
    BY Zenon
  <2>1. GivenUp = {} /\ audit_insert_failures_total = 0
    BY Zenon DEF Init, GivenUp
  <2>2. QED
    BY <2>1, FS_EmptySet DEF CountInv
<1>2. IInv /\ CountInv /\ [Next]_vars => CountInv'
  <2>1. CASE UNCHANGED vars
    BY Zenon, <2>1 DEF vars, handlerVars, dbVars, CountInv, GivenUp
  <2>2. QED
    BY Zenon, <2>1, CountStep
<1>3. CountInv => PendingIsCounted
  BY Zenon DEF CountInv, PendingIsCounted
<1>4. QED
  BY <1>1, <1>2, <1>3, Invariance, PTL DEF Spec

-----------------------------------------------------------------------------
(* The refinement of StartPromise. *)

LEMMA PromiseInit == Init => Promise!Init
<1> SUFFICES ASSUME Init PROVE Promise!Init
  BY Zenon
<1>1. PromiseOver = {}
  BY Zenon DEF Init, PromiseOver
<1> QED  BY Zenon, <1>1 DEF Init, Promise!Init, PromiseStarted

LEMMA Stutter ==
  ASSUME UNCHANGED <<request, answer, engagements>>
  PROVE  UNCHANGED Promise!vars
BY Zenon DEF Promise!vars, PromiseStarted, PromiseOver

LEMMA ReceiveStep ==
  ASSUME IInv, NEW h \in Handlers, NEW q \in Requests, Receive(h, q)
  PROVE  Promise!Receive(h, q)
BY Zenon DEF IInv, HandlerInv, Receive, dbVars, Promise!Receive, PromiseStarted, PromiseOver

LEMMA StartStep ==
  ASSUME IInv, NEW h \in Handlers, CommitOk(h) \/ CommitUnconfirmed(h)
  PROVE  Promise!Start(h)
<1>1. /\ pc[h] = "commit" /\ request[h] \in Requests /\ KeyOf(request[h]) \in Keys
      /\ engagements[KeyOf(request[h])] = None
      /\ UNCHANGED <<request, answer>>
  BY Zenon, CommitStep
<1>2. PICK row \in Rows :
          /\ engagements' = [engagements EXCEPT ![KeyOf(request[h])] = row]
          /\ row = [engagement_id |-> h, payload_hash |-> canonical_hash(request[h]),
                    request |-> request[h], status |-> 1]
  BY Zenon, CommitStep
<1>3. row.engagement_id = h /\ row.request = request[h] /\ row # None /\ row.status \notin Terminal
  BY <1>2, NoValueAssumption DEF Terminal
<1>4. engagements' = [engagements EXCEPT ![KeyOf(request[h])] = row]
  BY Zenon, <1>2
<1>5. request[h] # None
  BY Zenon, <1>1, NoneAssumption
<1>6. answer[h] = None /\ UNCHANGED answer
  BY Zenon, <1>1 DEF IInv, HandlerInv
<1>7. PromiseStarted[KeyOf(request[h])] = None
  BY Zenon, <1>1 DEF PromiseStarted
<1>8. PromiseStarted' = [PromiseStarted EXCEPT ![KeyOf(request[h])] =
                            [engagement_id |-> h, request |-> request[h]]]
  <2>1. ASSUME NEW k \in Keys
        PROVE  PromiseStarted'[k] =
                   IF k = KeyOf(request[h]) THEN [engagement_id |-> h, request |-> request[h]]
                   ELSE PromiseStarted[k]
    BY Zenon, <1>1, <1>3, <1>4 DEF PromiseStarted, IInv, TypeOK
  <2> QED  BY Zenon, <2>1 DEF PromiseStarted
<1>9. PromiseOver' = PromiseOver
  BY Zenon, <1>1, <1>3, <1>4 DEF PromiseOver, IInv, TypeOK
<1> QED  BY Zenon, <1>1, <1>5, <1>6, <1>7, <1>8, <1>9 DEF Promise!Start

\* An answer that StartPromise allows.
LEMMA AnswerStep ==
  ASSUME IInv, NEW h \in Handlers, pc[h] \notin {"idle", "done", "dead"},
         NEW a \in Promise!Answers(h) \cup {Promise!Internal},
         answer' = [answer EXCEPT ![h] = a], UNCHANGED <<request, engagements>>
  PROVE  Promise!Answer(h)
<1>1. request[h] # None /\ answer[h] = None
  BY Zenon DEF IInv, HandlerInv
<1>2. PromiseStarted' = PromiseStarted /\ PromiseOver' = PromiseOver
  BY Zenon DEF PromiseStarted, PromiseOver
<1> QED  BY Zenon, <1>1, <1>2 DEF Promise!Answer

\* The engagement of the key of h, seen through the mapping.
LEMMA StartedRow ==
  ASSUME IInv, NEW h \in Handlers, pc[h] # "idle",
         NEW k, k = KeyOf(request[h]), NEW row \in Rows, row = engagements[k],
         NEW term, term = (row.engagement_id # h /\ row.status \in Terminal)
  PROVE  Promise!Answers(h) =
             IF SamePayload(row.request, request[h])
             THEN {[kind |-> "engagement", engagement_id |-> row.engagement_id,
                    is_terminal |-> term]}
             ELSE {[kind |-> "conflict", engagement_id |-> None, is_terminal |-> FALSE]}
<1>1. k \in Keys
  BY Zenon, KeyOfHandler
<1>2. /\ [engagement_id |-> row.engagement_id, request |-> row.request] # None
      /\ row # None
  BY NoValueAssumption DEF Rows, StartedRows
<1>3. PICK p : /\ p = PromiseStarted[k] /\ p # None /\ p.engagement_id = row.engagement_id
               /\ p.request = row.request
  <2>1. PromiseStarted[k] = [engagement_id |-> row.engagement_id, request |-> row.request]
    BY Zenon, <1>1, <1>2 DEF PromiseStarted
  <2> QED  BY <2>1, <1>2
<1>4. k \in PromiseOver <=> row.status \in Terminal
  BY Zenon, <1>1, <1>2 DEF PromiseOver
<1>5. (p.engagement_id # h /\ k \in PromiseOver) = term
  BY Zenon, <1>3, <1>4
<1> QED  BY Zenon, <1>3, <1>5 DEF Promise!Answers, SamePayload

LEMMA HandlerRefines ==
  ASSUME IInv, NEW h \in Handlers, HandlerStep(h)
  PROVE  [Promise!Next]_(Promise!vars)
<1>1. CASE CheckNew(h) \/ InsertNothing(h) \/ InsertRow(h) \/ Phase1Ok(h) \/ Orchestrate(h)
           \/ \E result \in {"Success", "ClientError", "ServerError"} : Resolve(h, result)
  <2>1. UNCHANGED <<request, answer, engagements>>
    BY Zenon, <1>1 DEF CheckNew, InsertNothing, InsertRow, Phase1Ok, Orchestrate, Resolve, dbVars,
                handlerVars
  <2> QED  BY Zenon, <2>1, Stutter
<1>2. CASE CommitOk(h) \/ CommitUnconfirmed(h)
  BY Zenon, <1>2, StartStep DEF Promise!Next
<1>3. CASE CheckFails(h) \/ InsertFails(h) \/ Phase1Fails(h) \/ CommitFails(h) \/ CommitError(h)
  <2>1. /\ pc[h] \in {"check", "insert", "phase1", "commit", "unconfirmed"}
        /\ answer' = [answer EXCEPT ![h] =
                         [kind |-> "internal", engagement_id |-> None, is_terminal |-> FALSE]]
        /\ UNCHANGED <<request, engagements>>
    BY Zenon, <1>3 DEF CheckFails, InsertFails, Phase1Fails, CommitFails, CommitError, Rollback, Reply,
                dbVars
  <2>2. [kind |-> "internal", engagement_id |-> None, is_terminal |-> FALSE]
            \in Promise!Answers(h) \cup {Promise!Internal}
    BY Zenon DEF Promise!Internal
  <2>3. Promise!Answer(h)
    BY Zenon, <2>1, <2>2, AnswerStep
  <2> QED  BY Zenon, <2>3 DEF Promise!Next
<1>4. CASE CheckReplay(h)
  <2>1. PICK k : k = KeyOf(request[h])
    BY Zenon
  <2>2. pc[h] = "check" /\ engagements[k] # None /\ UNCHANGED <<request, engagements>>
    BY Zenon, <1>4, <2>1 DEF CheckReplay, FindRow, dbVars
  <2>3. PICK row \in Rows : row = engagements[k]
    BY Zenon, <2>1, <2>2, KeyOfHandler DEF IInv, TypeOK
  <2>4. row.engagement_id # h
    BY Zenon, <2>1, <2>2, <2>3, KeyOfHandler DEF IInv, HandlerInv, RowInv
  <2>5. PICK term : term = (row.engagement_id # h /\ row.status \in Terminal)
    BY Zenon
  <2>6. term = (row.status \in Terminal)
    <3>1. CASE row.status \in Terminal
      <4>1. TRUE = (row.engagement_id # h /\ row.status \in Terminal)
        BY Zenon, <3>1, <2>4
      <4>2. TRUE = (row.status \in Terminal)
        BY Zenon, <3>1
      <4> QED  BY Zenon, <4>1, <4>2, <2>5
    <3>2. CASE row.status \notin Terminal
      <4>1. FALSE = (row.engagement_id # h /\ row.status \in Terminal)
        BY Zenon, <3>2
      <4>2. FALSE = (row.status \in Terminal)
        BY <3>2
      <4> QED  BY Zenon, <4>1, <4>2, <2>5
    <3> QED  BY Zenon, <3>1, <3>2
  <2>7. answer' = [answer EXCEPT ![h] =
                      [kind |-> "engagement", engagement_id |-> row.engagement_id,
                       is_terminal |-> term]]
    BY Zenon, <1>4, <2>1, <2>3, <2>6 DEF CheckReplay, FindRow, Reply, IsTerminal
  <2>8. [kind |-> "engagement", engagement_id |-> row.engagement_id, is_terminal |-> term]
            \in Promise!Answers(h)
    <3>1. SamePayload(row.request, request[h])
      BY Zenon, <1>4, <2>1, <2>3, ReplayStep
    <3>2. pc[h] # "idle" /\ row = engagements[k]
      BY Zenon, <2>2, <2>3
    <3>3. Promise!Answers(h) =
              IF SamePayload(row.request, request[h])
              THEN {[kind |-> "engagement", engagement_id |-> row.engagement_id,
                     is_terminal |-> term]}
              ELSE {[kind |-> "conflict", engagement_id |-> None, is_terminal |-> FALSE]}
      BY Zenon, <3>2, <2>1, <2>5, StartedRow
    <3> QED  BY Zenon, <3>1, <3>3
  <2>9. Promise!Answer(h)
    BY Zenon, <2>2, <2>7, <2>8, AnswerStep
  <2> QED  BY Zenon, <2>9 DEF Promise!Next
<1>5. CASE CheckConflict(h)
  <2>1. /\ pc[h] = "check" /\ engagements[KeyOf(request[h])] # None
        /\ answer' = [answer EXCEPT ![h] =
                         [kind |-> "conflict", engagement_id |-> None, is_terminal |-> FALSE]]
        /\ UNCHANGED <<request, engagements>>
    BY Zenon, <1>5 DEF CheckConflict, FindRow, Reply, dbVars
  <2>2. PICK k, row : k = KeyOf(request[h]) /\ row = engagements[k] /\ row \in Rows
    BY Zenon, <2>1, KeyOfHandler DEF IInv, TypeOK
  <2>4. PICK term : term = (row.engagement_id # h /\ row.status \in Terminal)
    BY Zenon
  <2>5. [kind |-> "conflict", engagement_id |-> None, is_terminal |-> FALSE] \in Promise!Answers(h)
    <3>1. ~ SamePayload(row.request, request[h])
      BY Zenon, <1>5, <2>2, ConflictStep
    <3>2. pc[h] # "idle" /\ row \in Rows /\ row = engagements[k] /\ k = KeyOf(request[h])
      BY Zenon, <2>1, <2>2
    <3>3. Promise!Answers(h) =
              IF SamePayload(row.request, request[h])
              THEN {[kind |-> "engagement", engagement_id |-> row.engagement_id,
                     is_terminal |-> term]}
              ELSE {[kind |-> "conflict", engagement_id |-> None, is_terminal |-> FALSE]}
      BY Zenon, <3>2, <2>4, StartedRow
    <3> QED  BY Zenon, <3>1, <3>3
  <2>3. Promise!Answer(h)
    BY Zenon, <2>1, <2>5, AnswerStep
  <2> QED  BY Zenon, <2>3 DEF Promise!Next
<1>6. CASE Phase2Ok(h) \/ Phase2Fails(h) \/ Phase2Unconfirmed(h)
  <2>1. /\ pc[h] = "phase2" /\ UNCHANGED <<request, engagements>>
        /\ \/ UNCHANGED answer
           \/ answer' = [answer EXCEPT ![h] =
                            [kind |-> "engagement", engagement_id |-> h, is_terminal |-> FALSE]]
    BY Zenon, <1>6 DEF Phase2Ok, Phase2Fails, Phase2Unconfirmed, Phase2Retry, Reply, dbVars
  <2>2. CASE UNCHANGED answer
    BY Zenon, <2>1, <2>2, Stutter
  <2>3. CASE answer' = [answer EXCEPT ![h] =
                           [kind |-> "engagement", engagement_id |-> h, is_terminal |-> FALSE]]
    <3>1. engagement_audit[h] # None
      BY Zenon, <2>1 DEF IInv, HandlerInv
    <3>2. /\ engagements[KeyOf(request[h])] # None
          /\ engagements[KeyOf(request[h])].engagement_id = h
          /\ engagements[KeyOf(request[h])].request = request[h]
      BY Zenon, <3>1 DEF IInv, AuditInv
    <3>k. PICK k : k = KeyOf(request[h])
      BY Zenon
    <3>3. PICK row \in Rows : /\ row = engagements[k]
                              /\ row.engagement_id = h /\ row.request = request[h]
      BY Zenon, <2>1, <3>2, <3>k, KeyOfHandler DEF IInv, TypeOK
    <3>4. [kind |-> "engagement", engagement_id |-> h, is_terminal |-> FALSE] \in Promise!Answers(h)
      <4>1. PICK term : term = (row.engagement_id # h /\ row.status \in Terminal)
        BY Zenon
      <4>2. FALSE = (row.engagement_id # h /\ row.status \in Terminal)
        BY Zenon, <3>3
      <4>3. SamePayload(row.request, request[h])
        BY Zenon, <3>3 DEF SamePayload
      <4>4. [kind |-> "engagement", engagement_id |-> row.engagement_id, is_terminal |-> term]
                \in Promise!Answers(h)
        <5>1. pc[h] # "idle" /\ row = engagements[k]
          BY Zenon, <2>1, <3>3
        <5>2. Promise!Answers(h) =
                  IF SamePayload(row.request, request[h])
                  THEN {[kind |-> "engagement", engagement_id |-> row.engagement_id,
                         is_terminal |-> term]}
                  ELSE {[kind |-> "conflict", engagement_id |-> None, is_terminal |-> FALSE]}
          BY Zenon, <5>1, <3>k, <4>1, StartedRow
        <5> QED  BY Zenon, <5>2, <4>3
      <4>5. term = FALSE
        BY Zenon, <4>1, <4>2
      <4> QED  BY Zenon, <3>3, <4>4, <4>5
    <3>5. Promise!Answer(h)
      BY Zenon, <2>1, <2>3, <3>4, AnswerStep
    <3> QED  BY Zenon, <3>5 DEF Promise!Next
  <2> QED  BY Zenon, <2>1, <2>2, <2>3
<1> QED
  BY Zenon, <1>1, <1>2, <1>3, <1>4, <1>5, <1>6 DEF HandlerStep, Proceed

LEMMA NextRefines == IInv /\ [Next]_vars => [Promise!Next]_(Promise!vars)
<1> SUFFICES ASSUME IInv, [Next]_vars PROVE [Promise!Next]_(Promise!vars)
  BY Zenon
<1>1. CASE \E h \in Handlers, q \in Requests : Receive(h, q)
  BY Zenon, <1>1, ReceiveStep DEF Promise!Next
<1>2. CASE \E h \in Handlers : HandlerStep(h)
  BY Zenon, <1>2, HandlerRefines
<1>3. CASE \E k \in Keys, status \in Statuses : Advance(k, status)
  <2>1. PICK k \in Keys, status \in Statuses : Advance(k, status)
    BY Zenon, <1>3
  <2>2. engagements[k] # None /\ engagements[k] \in Rows
    BY Zenon, <2>1 DEF Advance, IInv, TypeOK
  <2>s. status \in 1..6
    BY Zenon, StatusesAssumption
  <2> DEFINE row == [engagements[k] EXCEPT !.status = status]
  <2>3. /\ row \in Rows /\ row.engagement_id = engagements[k].engagement_id
        /\ row.request = engagements[k].request
    BY Zenon, <2>2, <2>s DEF Rows
  <2>4. row # None
    BY Zenon, <2>3, NoValueAssumption
  <2>5. engagements' = [engagements EXCEPT ![k] = row] /\ UNCHANGED <<request, answer>>
    BY Zenon, <2>1 DEF Advance, handlerVars
  <2> HIDE DEF row
  <2>6. ASSUME NEW l \in Keys PROVE PromiseStarted'[l] = PromiseStarted[l]
    BY Zenon, <2>2, <2>3, <2>4, <2>5 DEF PromiseStarted, IInv, TypeOK
  <2>7. PromiseStarted' = PromiseStarted
    BY Zenon, <2>6 DEF PromiseStarted
  <2>8. k \notin PromiseOver /\ PromiseStarted[k] # None
    <3>1. [engagement_id |-> engagements[k].engagement_id, request |-> engagements[k].request] # None
      BY <2>2, NoValueAssumption DEF Rows, StartedRows
    <3>2. k \notin PromiseOver
      BY Zenon, <2>1 DEF PromiseOver, Advance
    <3> QED  BY Zenon, <2>2, <3>1, <3>2 DEF PromiseStarted
  <2>9. ASSUME NEW l \in Keys, l # k PROVE l \in PromiseOver' <=> l \in PromiseOver
    BY Zenon, <2>5, <2>9 DEF PromiseOver, IInv, TypeOK
  <2>10. CASE status \in Terminal
    <3>1. k \in PromiseOver'
      <4>1. engagements'[k] = row /\ row.status = status
        BY Zenon, <2>2, <2>5 DEF IInv, TypeOK, Rows, row
      <4> QED  BY Zenon, <4>1, <2>4, <2>10 DEF PromiseOver
    <3>2. PromiseOver \subseteq Keys /\ PromiseOver' \subseteq Keys
      BY Zenon DEF PromiseOver
    <3>3. PromiseOver' = PromiseOver \cup {k}
      BY Zenon, <3>1, <3>2, <2>9
    <3>4. Promise!End(k)
      BY Zenon, <3>3, <2>5, <2>7, <2>8 DEF Promise!End
    <3> QED  BY Zenon, <3>4 DEF Promise!Next
  <2>11. CASE status \notin Terminal
    <3>1. k \notin PromiseOver'
      <4>1. engagements'[k] = row /\ row.status = status
        BY Zenon, <2>2, <2>5 DEF IInv, TypeOK, Rows, row
      <4> QED  BY Zenon, <4>1, <2>11 DEF PromiseOver
    <3>2. PromiseOver \subseteq Keys /\ PromiseOver' \subseteq Keys
      BY Zenon DEF PromiseOver
    <3>3. PromiseOver' = PromiseOver
      <4>1. ASSUME NEW l PROVE l \in PromiseOver' <=> l \in PromiseOver
        <5>1. CASE l = k
          BY Zenon, <5>1, <3>1, <2>8
        <5>2. CASE l \in Keys /\ l # k
          BY Zenon, <5>2, <2>9
        <5>3. CASE l \notin Keys
          BY Zenon, <5>3, <3>2
        <5> QED  BY Zenon, <5>1, <5>2, <5>3
      <4> QED  BY Zenon, <4>1
    <3> QED  BY Zenon, <3>3, <2>5, <2>7 DEF Promise!vars
  <2> QED  BY Zenon, <2>10, <2>11
<1>4. CASE Crash
  BY Zenon, <1>4, Stutter DEF Crash, dbVars
<1>5. CASE UNCHANGED vars
  BY Zenon, <1>5, Stutter DEF vars, handlerVars, dbVars
<1> QED  BY Zenon, <1>1, <1>2, <1>3, <1>4, <1>5 DEF Next

\* Idempotency (AIP-155): the handlers that carry one request_id of one
\* organization start one engagement at most, all that have its payload are
\* answered with it and all others with a conflict, through every race of
\* their transactions, lost confirmation and crash; a replay is terminal iff
\* the engagement has ended, and then it stays so.
THEOREM Idempotent == Spec => ImplementsStartPromise
<1>1. Init => Promise!Init
  BY Zenon, PromiseInit
<1>2. IInv /\ [Next]_vars => [Promise!Next]_(Promise!vars)
  BY NextRefines
<1> QED  BY <1>1, <1>2, Invariance, PTL DEF Spec, ImplementsStartPromise, Promise!Spec

-----------------------------------------------------------------------------
(* The work a handler has left. *)

Found(h) == engagements[KeyOf(request[h])] # None

\* The steps that a handler may still take.  From check it may go on to insert
\* and come back once, for then its key has a row.
StepsLeft(h) ==
    CASE pc[h] = "idle"        -> MAX_ATTEMPTS + 8
      [] pc[h] = "check"       -> IF Found(h) THEN MAX_ATTEMPTS + 5 ELSE MAX_ATTEMPTS + 7
      [] pc[h] = "insert"      -> MAX_ATTEMPTS + 6
      [] pc[h] = "phase1"      -> MAX_ATTEMPTS + 4
      [] pc[h] = "commit"      -> MAX_ATTEMPTS + 3
      [] pc[h] = "orchestrate" -> IF h \in acted THEN MAX_ATTEMPTS + 1 ELSE MAX_ATTEMPTS + 2
      [] pc[h] = "phase2"      -> MAX_ATTEMPTS - attempt[h]
      [] pc[h] = "unconfirmed" -> 1
      [] OTHER                 -> 0

StepsLeftInNat == \A h \in Handlers : StepsLeft(h) \in Nat

\* What a step does to the work left of every handler.
WorkShrinks ==
    \A h \in Handlers :
        /\ StepsLeft(h)' <= StepsLeft(h)
        /\ HandlerStep(h) => StepsLeft(h)' < StepsLeft(h)

\* The loop of phase2_finalize starts from 0 and stays below its bound.
AttemptInv ==
    /\ attempt \in [Handlers -> Nat]
    /\ \A h \in Handlers :
          /\ pc[h] \notin {"phase2", "done", "dead"} => attempt[h] = 0
          /\ pc[h] = "phase2" => attempt[h] < MAX_ATTEMPTS

LEMMA LeftType ==
  ASSUME AttemptInv, NEW h \in Handlers
  PROVE  StepsLeft(h) \in Nat
<1>1. MAX_ATTEMPTS \in Nat /\ attempt[h] \in Nat
      /\ (pc[h] = "phase2" => attempt[h] < MAX_ATTEMPTS)
  BY AttemptsAssumption DEF AttemptInv
<1>2. QED
  BY <1>1 DEF StepsLeft

\* h ends its work, or gives up a step for a smaller one.
LEMMA OwnWork ==
  ASSUME IInv, AttemptInv, NEW h \in Handlers, HandlerStep(h)
  PROVE  StepsLeft(h)' < StepsLeft(h)
<1>t. /\ pc \in [Handlers -> {"idle", "check", "insert", "phase1", "commit", "unconfirmed",
                              "orchestrate", "phase2", "done", "dead"}]
      /\ engagements \in [Keys -> Rows \cup {None}]
      /\ attempt \in [Handlers -> Nat]
  BY Zenon DEF IInv, TypeOK, AttemptInv
<1>a. /\ MAX_ATTEMPTS \in Nat /\ MAX_ATTEMPTS > 0 /\ attempt[h] \in Nat
      /\ (pc[h] = "phase2" => attempt[h] < MAX_ATTEMPTS)
      /\ (pc[h] \notin {"phase2", "done", "dead"} => attempt[h] = 0)
  BY AttemptsAssumption DEF AttemptInv
<1>d. ASSUME pc[h] \notin {"idle", "done", "dead"}, pc' = [pc EXCEPT ![h] = "done"]
      PROVE  StepsLeft(h)' < StepsLeft(h)
  <2>1. pc'[h] = "done"
    BY Zenon, <1>t, <1>d
  <2>2. StepsLeft(h)' = 0
    BY <2>1 DEF StepsLeft
  <2>3. StepsLeft(h) \in Nat /\ StepsLeft(h) > 0
    BY <1>t, <1>a, <1>d DEF StepsLeft
  <2>4. QED
    BY <2>2, <2>3
<1>1. CASE CheckNew(h)
  <2>1. pc[h] = "check" /\ ~ Found(h) /\ pc'[h] = "insert"
    BY Zenon, <1>t, <1>1 DEF CheckNew, Goto, FindRow, Found
  <2>2. QED
    BY <1>a, <2>1 DEF StepsLeft
<1>2. CASE InsertNothing(h)
  <2>1. pc[h] = "insert" /\ Found(h)' /\ pc'[h] = "check"
    BY Zenon, <1>t, <1>2 DEF InsertNothing, Goto, Found, dbVars
  <2>2. QED
    BY <1>a, <2>1 DEF StepsLeft
<1>3. CASE InsertRow(h)
  <2>1. pc[h] = "insert" /\ pc'[h] = "phase1"
    BY Zenon, <1>t, <1>3 DEF InsertRow, Goto
  <2>2. QED
    BY <1>a, <2>1 DEF StepsLeft
<1>4. CASE Phase1Ok(h)
  <2>1. pc[h] = "phase1" /\ pc'[h] = "commit"
    BY Zenon, <1>t, <1>4 DEF Phase1Ok, Goto
  <2>2. QED
    BY <1>a, <2>1 DEF StepsLeft
<1>5. CASE CommitOk(h) \/ CommitUnconfirmed(h)
  <2>1. pc[h] = "commit" /\ pc'[h] \in {"orchestrate", "unconfirmed"}
    BY Zenon, <1>t, <1>5 DEF CommitOk, CommitUnconfirmed, Goto
  <2>2. QED
    BY <1>a, <2>1 DEF StepsLeft
<1>6. CASE Orchestrate(h)
  <2>1. /\ pc[h] = "orchestrate" /\ pc'[h] = "orchestrate"
        /\ h \notin acted /\ h \in acted'
    BY Zenon, <1>t, <1>6 DEF Orchestrate, handlerVars
  <2>2. QED
    BY <1>a, <2>1 DEF StepsLeft
<1>7. CASE \E result \in {"Success", "ClientError", "ServerError"} : Resolve(h, result)
  <2>1. pc[h] = "orchestrate" /\ pc'[h] = "phase2" /\ h \in acted /\ attempt'[h] = attempt[h]
    BY Zenon, <1>t, <1>7 DEF Resolve, Goto
  <2>2. QED
    BY <1>a, <2>1 DEF StepsLeft
<1>8. CASE Phase2Fails(h) \/ Phase2Unconfirmed(h)
  <2>1. pc[h] = "phase2" /\ attempt' = [attempt EXCEPT ![h] = attempt[h] + 1]
        /\ (Goto(h, "phase2") \/ Goto(h, "done"))
    BY Zenon, <1>8 DEF Phase2Fails, Phase2Unconfirmed, Phase2Retry, Reply
  <2>2. CASE Goto(h, "phase2")
    <3>1. pc'[h] = "phase2" /\ attempt'[h] = attempt[h] + 1
      BY Zenon, <1>t, <2>1, <2>2 DEF Goto
    <3>2. QED
      BY <1>a, <2>1, <3>1 DEF StepsLeft
  <2>3. QED
    BY Zenon, <1>d, <2>1, <2>2 DEF Goto
<1>9. CASE \/ CheckReplay(h) \/ CheckConflict(h) \/ CheckFails(h) \/ InsertFails(h)
           \/ Phase1Fails(h) \/ CommitFails(h) \/ CommitError(h) \/ Phase2Ok(h)
  <2>1. pc[h] \notin {"idle", "done", "dead"} /\ pc' = [pc EXCEPT ![h] = "done"]
    BY Zenon, <1>9 DEF CheckReplay, CheckConflict, CheckFails, InsertFails, Phase1Fails,
                       CommitFails, CommitError, Phase2Ok, Rollback, Reply, Goto
  <2>2. QED
    BY Zenon, <1>d, <2>1
<1>10. QED
  BY Zenon, <1>1, <1>2, <1>3, <1>4, <1>5, <1>6, <1>7, <1>8, <1>9 DEF HandlerStep, Proceed

\* A row, once there, stays.
LEMMA RowsStay ==
  ASSUME IInv, Next, NEW k \in Keys, engagements[k] # None
  PROVE  engagements'[k] # None
<1>t. engagements \in [Keys -> Rows \cup {None}]
  BY Zenon DEF IInv, TypeOK
<1>1. CASE \E h \in Handlers : CommitOk(h) \/ CommitUnconfirmed(h)
  <2>1. PICK h \in Handlers : CommitOk(h) \/ CommitUnconfirmed(h)
    BY Zenon, <1>1
  <2>2. /\ engagements[KeyOf(request[h])] = None
        /\ \E row \in Rows :
              /\ engagements' = [engagements EXCEPT ![KeyOf(request[h])] = row]
              /\ row = [engagement_id |-> h, payload_hash |-> canonical_hash(request[h]),
                        request |-> request[h], status |-> 1]
    BY Zenon, <2>1, CommitStep
  <2>3. QED
    BY Zenon, <1>t, <2>2
<1>2. CASE \E j \in Keys, status \in Statuses : Advance(j, status)
  <2>1. PICK j \in Keys, status \in 1..6 :
            engagements' = [engagements EXCEPT ![j].status = status] /\ engagements[j] # None
    BY Zenon, <1>2, StatusesAssumption DEF Advance
  <2>2. engagements[j] \in Rows
    BY Zenon, <1>t, <2>1
  <2>3. [engagements[j] EXCEPT !.status = status] # None
    <3>1. [engagements[j] EXCEPT !.status = status] \in Rows
      BY <2>2 DEF Rows
    <3>2. QED
      BY Zenon, <3>1, NoValueAssumption
  <2>4. QED
    BY Zenon, <1>t, <2>1, <2>3
<1>3. CASE UNCHANGED engagements
  BY Zenon, <1>3
<1>4. QED
  BY Zenon, <1>1, <1>2, <1>3
     DEF Next, HandlerStep, Proceed, Receive, Crash, CheckNew, CheckReplay, CheckConflict, CheckFails,
         InsertRow, InsertNothing, InsertFails, Phase1Ok, Phase1Fails, CommitFails, CommitError,
         Orchestrate, Resolve, Phase2Ok, Phase2Fails, Phase2Unconfirmed, dbVars

\* A handler that a step leaves where it is has no more work than before.
LEMMA WorkKept ==
  ASSUME IInv, AttemptInv, Next, NEW h \in Handlers,
         pc'[h] = pc[h], attempt'[h] = attempt[h], request'[h] = request[h],
         h \in acted => h \in acted'
  PROVE  StepsLeft(h)' <= StepsLeft(h)
<1>1. MAX_ATTEMPTS \in Nat /\ attempt[h] \in Nat
  BY AttemptsAssumption DEF AttemptInv
<1>2. pc[h] # "idle" /\ Found(h) => Found(h)'
  BY Zenon, KeyOfHandler, RowsStay DEF Found
<1>3. QED
  BY <1>1, <1>2 DEF StepsLeft

\* A handler's step does not touch what the others have left to do.
LEMMA OthersWork ==
  ASSUME IInv, AttemptInv, NEW h \in Handlers, HandlerStep(h), NEW g \in Handlers, g # h
  PROVE  /\ pc'[g] = pc[g] /\ attempt'[g] = attempt[g] /\ request'[g] = request[g]
         /\ g \in acted => g \in acted'
<1>1. pc'[g] = pc[g]
  BY Zenon, OwnStep
<1>2. \/ attempt' = attempt
      \/ attempt' = [attempt EXCEPT ![h] = attempt[h] + 1]
  BY Zenon DEF HandlerStep, Proceed, CheckNew, CheckReplay, CheckConflict, CheckFails, InsertRow, InsertNothing,
         InsertFails, Phase1Ok, Phase1Fails, CommitOk, CommitFails, CommitUnconfirmed, CommitError,
         Orchestrate, Resolve, Phase2Ok, Phase2Fails, Phase2Unconfirmed, Phase2Retry, handlerVars
<1>3. attempt'[g] = attempt[g]
  BY Zenon, <1>2 DEF AttemptInv
<1>4. request' = request /\ acted \subseteq acted'
  BY Zenon DEF HandlerStep, Proceed, CheckNew, CheckReplay, CheckConflict, CheckFails, InsertRow, InsertNothing,
         InsertFails, Phase1Ok, Phase1Fails, CommitOk, CommitFails, CommitUnconfirmed, CommitError,
         Orchestrate, Resolve, Phase2Ok, Phase2Fails, Phase2Unconfirmed, handlerVars
<1>5. QED
  BY Zenon, <1>1, <1>3, <1>4

\* The attempts of phase2_finalize: one step of h.
LEMMA OwnAttempts ==
  ASSUME IInv, AttemptInv, NEW h \in Handlers, HandlerStep(h)
  PROVE  AttemptInv'
<1>t. /\ pc \in [Handlers -> {"idle", "check", "insert", "phase1", "commit", "unconfirmed",
                              "orchestrate", "phase2", "done", "dead"}]
      /\ attempt \in [Handlers -> Nat]
  BY Zenon DEF IInv, TypeOK, AttemptInv
<1>a. MAX_ATTEMPTS \in Nat /\ 0 < MAX_ATTEMPTS
  BY AttemptsAssumption
<1>1. CASE Phase2Fails(h) \/ Phase2Unconfirmed(h)
  <2>1. /\ pc[h] = "phase2" /\ attempt' = [attempt EXCEPT ![h] = attempt[h] + 1]
        /\ \/ pc' = [pc EXCEPT ![h] = "phase2"] /\ attempt[h] + 1 < MAX_ATTEMPTS
           \/ pc' = [pc EXCEPT ![h] = "done"]
    BY Zenon, <1>1 DEF Phase2Fails, Phase2Unconfirmed, Phase2Retry, Reply, Goto
  <2>2. QED
    BY <1>t, <1>a, <2>1 DEF AttemptInv
<1>2. CASE ~ (Phase2Fails(h) \/ Phase2Unconfirmed(h))
  <2>1. /\ attempt' = attempt /\ pc[h] \notin {"idle", "done", "dead"}
        /\ \/ pc' = pc
           \/ /\ pc[h] # "phase2"
              /\ \E n \in {"check", "insert", "phase1", "commit", "orchestrate", "unconfirmed",
                           "phase2"} : pc' = [pc EXCEPT ![h] = n]
           \/ pc' = [pc EXCEPT ![h] = "done"]
    BY Zenon, <1>2 DEF HandlerStep, Proceed, CheckNew, CheckReplay, CheckConflict, CheckFails, InsertRow,
         InsertNothing, InsertFails, Phase1Ok, Phase1Fails, CommitOk, CommitFails,
         CommitUnconfirmed, CommitError, Orchestrate, Resolve, Phase2Ok, Rollback, Reply, Goto,
         handlerVars
  <2>2. QED
    BY <1>t, <1>a, <2>1 DEF AttemptInv
<1>3. QED
  BY Zenon, <1>1, <1>2

LEMMA AttemptNext == IInv /\ AttemptInv /\ [Next]_vars => AttemptInv'
<1> SUFFICES ASSUME IInv, AttemptInv, [Next]_vars PROVE AttemptInv'
  BY Zenon
<1>1. CASE \E h \in Handlers, q \in Requests : Receive(h, q)
  BY Zenon, <1>1 DEF Receive, Goto, AttemptInv, IInv, TypeOK
<1>2. CASE \E k \in Keys, status \in Statuses : Advance(k, status)
  BY Zenon, <1>2 DEF Advance, handlerVars, AttemptInv
<1>3. CASE Crash
  BY Zenon, <1>3 DEF Crash, AttemptInv
<1>4. CASE UNCHANGED vars
  BY Zenon, <1>4 DEF vars, handlerVars, AttemptInv
<1>5. QED
  BY Zenon, <1>1, <1>2, <1>3, <1>4, OwnAttempts DEF Next

LEMMA NextWork ==
  ASSUME IInv, AttemptInv, AttemptInv', Next
  PROVE  WorkShrinks
<1> SUFFICES ASSUME NEW h \in Handlers PROVE StepsLeft(h)' <= StepsLeft(h)
  BY Zenon, OwnWork DEF WorkShrinks
<1>t. StepsLeft(h) \in Nat
  BY Zenon, LeftType
<1>u. StepsLeft(h)' \in Nat
  <2>1. MAX_ATTEMPTS \in Nat /\ attempt'[h] \in Nat
        /\ (pc'[h] = "phase2" => attempt'[h] < MAX_ATTEMPTS)
    BY AttemptsAssumption DEF AttemptInv
  <2>2. QED
    BY <2>1 DEF StepsLeft
<1>1. ASSUME NEW g \in Handlers, NEW q \in Requests, Receive(g, q)
      PROVE  StepsLeft(h)' <= StepsLeft(h)
  <2>1. CASE g = h
    <3>1. pc[h] = "idle" /\ pc'[h] = "check" /\ MAX_ATTEMPTS \in Nat
      BY Zenon, <1>1, <2>1, AttemptsAssumption DEF Receive, Goto, IInv, TypeOK
    <3>2. QED
      BY <3>1 DEF StepsLeft
  <2>2. CASE g # h
    <3>1. pc'[h] = pc[h] /\ attempt'[h] = attempt[h] /\ request'[h] = request[h] /\ acted' = acted
      BY Zenon, <1>1, <2>2 DEF Receive, Goto, IInv, TypeOK
    <3>2. QED
      BY Zenon, <3>1, WorkKept
  <2>3. QED
    BY Zenon, <2>1, <2>2
<1>2. ASSUME NEW g \in Handlers, HandlerStep(g)
      PROVE  StepsLeft(h)' <= StepsLeft(h)
  <2>1. CASE g = h
    <3>1. StepsLeft(h)' < StepsLeft(h)
      BY Zenon, <1>2, <2>1, OwnWork
    <3>2. QED
      BY <1>t, <1>u, <3>1
  <2>2. CASE g # h
    BY Zenon, <1>2, <2>2, OthersWork, WorkKept
  <2>3. QED
    BY Zenon, <2>1, <2>2
<1>3. CASE \E k \in Keys, status \in Statuses : Advance(k, status)
  <2>1. UNCHANGED <<pc, attempt, request, acted>>
    BY Zenon, <1>3 DEF Advance, handlerVars
  <2>2. QED
    BY Zenon, <2>1, WorkKept
<1>4. CASE Crash
  <2>1. pc'[h] = "dead" \/ (pc'[h] = "idle" /\ pc[h] = "idle")
    BY Zenon, <1>4 DEF Crash
  <2>2. MAX_ATTEMPTS \in Nat
    BY AttemptsAssumption
  <2>3. CASE pc'[h] = "dead"
    <3>1. StepsLeft(h)' = 0
      BY <2>3 DEF StepsLeft
    <3>2. QED
      BY <1>t, <3>1
  <2>4. CASE pc'[h] = "idle" /\ pc[h] = "idle"
    BY <2>2, <2>4 DEF StepsLeft
  <2>5. QED
    BY Zenon, <2>1, <2>3, <2>4
<1>5. QED
  BY Zenon, <1>1, <1>2, <1>3, <1>4 DEF Next

\* The part of HandlersAnswer that does not rest on fairness.  However many
\* duplicates race for a key and whatever fails, each step of a handler uses
\* up work of which it has at most MAX_ATTEMPTS + 8 steps, and nothing that
\* anybody else does adds to it: in particular a handler that lost the race
\* for its key goes back to check once, and not again.
THEOREM BoundedWork == Spec => []StepsLeftInNat /\ [][WorkShrinks]_vars
<1>1. Init => AttemptInv
  BY AttemptsAssumption DEF Init, AttemptInv
<1>2. AttemptInv => StepsLeftInNat
  BY Zenon, LeftType DEF StepsLeftInNat
<1>3. IInv /\ AttemptInv /\ AttemptInv' /\ [Next]_vars => [WorkShrinks]_vars
  BY Zenon, NextWork
<1>4. QED
  BY <1>1, <1>2, <1>3, AttemptNext, Invariance, PTL DEF Spec
=============================================================================
