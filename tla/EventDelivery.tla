---------------------------- MODULE EventDelivery ----------------------------
(***************************************************************************)
(* From the transaction that writes an event to the subscriber: writers    *)
(* that allocate sequence numbers (allocate_and_insert_event) composed     *)
(* with the ListenNotifyManager.                                           *)
(*                                                                         *)
(* A writer takes the advisory lock of its engagement, inserts a row with  *)
(* MAX(sequence) + 1 of the rows committed when the INSERT begins, and     *)
(* commits.  External: PostgreSQL frees the lock, shows the row and sends  *)
(* the notification when the transaction commits, and a number drawn from  *)
(* the BIGSERIAL of event_pk is not given back by a rollback.  The lock's  *)
(* key is hashtext(engagement_id), so engagements may share one.           *)
(***************************************************************************)
EXTENDS ListenNotify, FiniteSets

CONSTANTS
    Writers,        \* connections of the pool
    MaxTx           \* bound: transactions begun

ASSUME TxAssumption == IsFiniteSet(Writers) /\ MaxTx \in Nat /\ MaxTx <= MaxEvents

VARIABLES
    alike,      \* the engagements whose ids have the same hashtext as another's
    tx,         \* tx[w]: how far the transaction of w is, and its row
    nextPk,     \* the sequence behind event_pk
    rows,       \* the rows of engagement_events
    begun       \* transactions begun so far

writerVars   == <<alike, tx, nextPk, rows, begun>>
deliveryVars == <<vars, writerVars>>

NoTx == [at |-> "none", engagement_id |-> None, sequence |-> 0, event_pk |-> 0]

DeliveryInit ==
    /\ Init
    /\ alike \in {C \in SUBSET Engagements : Cardinality(C) # 1}
    /\ tx = [w \in Writers |-> NoTx] /\ nextPk = 1 /\ rows = {} /\ begun = 0

-----------------------------------------------------------------------------
(* allocate_and_insert_event. *)

BeginTx(w, e) ==
    /\ tx[w] = NoTx /\ begun < MaxTx
    /\ tx' = [tx EXCEPT ![w].at = "begun", ![w].engagement_id = e]
    /\ begun' = begun + 1
    /\ UNCHANGED <<vars, alike, nextPk, rows>>

\* hashtext of the ids of d and e is the same; one collision is enough.
SameKey(d, e) == d = e \/ {d, e} \subseteq alike

\* The transaction of v holds the advisory lock that e needs.
HoldsLock(v, e) == tx[v].at \in {"locked", "inserted"} /\ SameKey(tx[v].engagement_id, e)

\* A bug: the lock is a shared one.
AdvisoryLockShared(w) ==
    /\ tx[w].at = "begun"
    /\ tx' = [tx EXCEPT ![w].at = "locked"]
    /\ UNCHANGED <<vars, alike, nextPk, rows, begun>>

\* A bug: transactions begin with a shared lock and upgrade it.
AdvisoryLockUpgraded(w) ==
    /\ tx[w].at = "begun"
    /\ \A v \in Writers \ {w} :
           tx[v] = NoTx \/ ~SameKey(tx[v].engagement_id, tx[w].engagement_id)
    /\ tx' = [tx EXCEPT ![w].at = "locked"]
    /\ UNCHANGED <<vars, alike, nextPk, rows, begun>>

\* pg_advisory_xact_lock returns.
AdvisoryLock(w) ==
    /\ tx[w].at = "begun"
    /\ \A v \in Writers : ~HoldsLock(v, tx[w].engagement_id)
    /\ tx' = [tx EXCEPT ![w].at = "locked"]
    /\ UNCHANGED <<vars, alike, nextPk, rows, begun>>

\* A bug: the rows of the whole table are counted.
NextOfTable(e) == Cardinality(rows) + 1

\* COALESCE(MAX(sequence), 0) + 1 over the committed rows of e.
NextSequence(e) ==
    Max({0} \cup {r.sequence : r \in {x \in rows : x.engagement_id = e}}) + 1

\* INSERT ... RETURNING sequence.
Insert(w) ==
    /\ tx[w].at = "locked"
    /\ tx' = [tx EXCEPT ![w].at = "inserted",
                        ![w].sequence = NextSequence(tx[w].engagement_id),
                        ![w].event_pk = nextPk]
    /\ nextPk' = nextPk + 1
    /\ UNCHANGED <<vars, alike, rows, begun>>

Row(w) ==
    [engagement_id |-> tx[w].engagement_id, sequence |-> tx[w].sequence,
     event_pk |-> tx[w].event_pk]

\* COMMIT: the row, the notification and the end of the lock.
CommitTx(w) ==
    /\ tx[w].at = "inserted"
    /\ CommitRow(tx[w].engagement_id, tx[w].sequence)
    /\ rows' = rows \cup {Row(w)}
    /\ tx' = [tx EXCEPT ![w] = NoTx]
    /\ UNCHANGED <<alike, nextPk, begun>>

\* A statement fails, or the client goes away: the transaction is rolled back.
Rollback(w) ==
    /\ tx[w] # NoTx
    /\ tx' = [tx EXCEPT ![w] = NoTx]
    /\ UNCHANGED <<vars, alike, nextPk, rows, begun>>

DeliveryNext ==
    \/ ManagerNext /\ UNCHANGED writerVars
    \/ \E w \in Writers :
           \/ \E e \in Engagements : BeginTx(w, e)
           \/ AdvisoryLock(w) \/ Insert(w) \/ CommitTx(w) \/ Rollback(w)

\* Fairness: a writer goes on with its transaction, and PostgreSQL serves
\* those who wait for a lock in turn.
DeliverySpec ==
    /\ DeliveryInit /\ [][DeliveryNext]_deliveryVars
    /\ Fairness
    /\ \A w \in Writers :
           SF_tx(AdvisoryLock(w)) /\ WF_tx(Insert(w)) /\ WF_tx(CommitTx(w))

-----------------------------------------------------------------------------
(* Properties. *)

\* Rows as the unique index sees them: committed, or inserted and not yet so.
Inserted == rows \cup {Row(w) : w \in {v \in Writers : tx[v].at = "inserted"}}

\* The unique constraint on (engagement_id, sequence) never has to refuse or
\* delay an INSERT: not with several writers, colliding lock keys, rollbacks
\* and clients that go away.
SequencesNeverCollide ==
    /\ \A q, r \in Inserted :
           q.engagement_id = r.engagement_id /\ q.sequence = r.sequence => q = r
    /\ \A v, w \in Writers :
           v # w /\ tx[v].at = "inserted" /\ tx[w].at = "inserted" => Row(v) # Row(w)

\* Within an engagement event_pk and sequence order the events alike,
\* although event_pk comes from a counter of all engagements.
PkFollowsSequence ==
    \A q, r \in rows :
        q.engagement_id = r.engagement_id /\ q.sequence < r.sequence => q.event_pk < r.event_pk

\* The numbers of an engagement's committed rows have no hole.
NoGaps ==
    \A e \in Engagements : \A n \in 1..db[e] :
        \E r \in rows : r.engagement_id = e /\ r.sequence = n

\* What a subscriber has received is of what it subscribed to and of a row
\* that is committed.
NothingMadeUp ==
    \A s \in Subscribers : \A i \in DOMAIN got[s] :
        LET p == got[s][i]
        IN  p # Lagged =>
                /\ Wants(s, EventOf(p))
                /\ \E r \in rows : r.engagement_id = p.engagement_id /\ r.sequence = p.sequence

\* What ListenNotify takes for granted of the events: the writers commit those
\* of an engagement with the sequence numbers 1, 2, ... in this order, so
\* that the cursor of gap_fill and the order of the notifications agree.
ImplementsListenNotify == Init /\ [][Next]_vars

\* Every transaction ends.
WritersFinish == \A w \in Writers : tx[w] # NoTx ~> tx[w] = NoTx
=============================================================================
