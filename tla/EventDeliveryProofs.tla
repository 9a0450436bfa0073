------------------------ MODULE EventDeliveryProofs ------------------------
(***************************************************************************)
(* Proofs about EventDelivery: for any number of engagements, batches,     *)
(* writers and subscribers, however the keys of the locks collide, the     *)
(* sequence numbers never do, and the writers implement what ListenNotify  *)
(* takes for granted of the events, so that what is proved of ListenNotify *)
(* holds from the transaction to the subscriber.  The proof about the      *)
(* gauge of ListenNotify, which counts a finite set, is here too.          *)
(***************************************************************************)
EXTENDS EventDelivery, ListenNotifyProofs, FiniteSetTheorems, TLAPS

-----------------------------------------------------------------------------
(* The inductive invariant. *)

Transaction ==
    [at : {"none", "begun", "locked", "inserted"}, engagement_id : Engagements \cup {None},
     sequence : Nat, event_pk : Nat]

EventRow == [engagement_id : Engagements, sequence : Nat, event_pk : Nat]

Types ==
    /\ tx \in [Writers -> Transaction]
    /\ nextPk \in Nat /\ begun \in Nat /\ begun <= MaxTx
    /\ rows \in SUBSET EventRow
    /\ db \in [Engagements -> Nat]

\* A transaction that is not over is of an engagement.
OpenInv ==
    \A w \in Writers :
        IF tx[w].at = "none" THEN tx[w] = NoTx ELSE tx[w].engagement_id \in Engagements

Holder(w) == tx[w].at \in {"locked", "inserted"}

\* An engagement has one holder of its lock.
LockInv ==
    \A v, w \in Writers :
        v # w /\ Holder(v) /\ Holder(w) => tx[v].engagement_id # tx[w].engagement_id

\* The committed rows of an engagement end with db[e], each number is used
\* once, and event_pk follows it.
RowsInv ==
    /\ \A r \in rows :
           0 < r.sequence /\ r.sequence <= db[r.engagement_id] /\ r.event_pk < nextPk
    /\ \A e \in Engagements :
           db[e] = 0 \/ \E r \in rows : r.engagement_id = e /\ r.sequence = db[e]
    /\ \A q, r \in rows :
           q.engagement_id = r.engagement_id /\ q.sequence = r.sequence => q = r
    /\ PkFollowsSequence

\* A row that is not committed yet follows those of its engagement.
InsertedInv ==
    \A w \in Writers :
        tx[w].at = "inserted" =>
            /\ tx[w].sequence = db[tx[w].engagement_id] + 1
            /\ tx[w].event_pk < nextPk
            /\ \A r \in rows :
                   r.engagement_id = tx[w].engagement_id => r.event_pk < tx[w].event_pk

Open == {w \in Writers : tx[w] # NoTx}

\* No engagement has more events than transactions that are over.
CountInv == \A e \in Engagements : db[e] + Cardinality(Open) <= begun

DInv == Types /\ OpenInv /\ LockInv /\ RowsInv /\ InsertedInv /\ CountInv

-----------------------------------------------------------------------------
(* Lemmas. *)

\* MAX(sequence) + 1 is the number after the last one committed.
LEMMA NextIsSuccessor ==
  ASSUME Types, RowsInv, NEW e \in Engagements
  PROVE  NextSequence(e) = db[e] + 1
<1> DEFINE S == {0} \cup {r.sequence : r \in {x \in rows : x.engagement_id = e}}
<1>1. db[e] \in Nat
  BY Zenon DEF Types
<1>2. db[e] \in S
  BY Zenon DEF RowsInv
<1>3. \A y \in S : y \in Nat /\ y <= db[e]
  <2>1. \A r \in rows : r.sequence \in Nat
    BY Zenon DEF Types, EventRow
  <2>2. \A r \in rows : r.engagement_id = e => r.sequence <= db[e]
    BY Zenon DEF RowsInv
  <2>3. QED
    BY <1>1, <2>1, <2>2
<1> HIDE DEF S
<1>4. \A x \in S : (\A y \in S : x >= y) => x = db[e]
  BY <1>1, <1>2, <1>3
<1>5. Max(S) = db[e]
  <2>1. \E x \in S : \A y \in S : x >= y
    BY Zenon, <1>1, <1>2, <1>3
  <2>2. QED
    BY Zenon, <1>4, <2>1 DEF Max
<1>6. QED
  BY Zenon, <1>5 DEF NextSequence, S

\* The transactions that are not over are finitely many; one that begins adds
\* one, and one that ends takes one away.
LEMMA OpenCounts ==
  ASSUME NEW S \in SUBSET Writers, NEW w \in Writers
  PROVE  /\ Cardinality(S) \in Nat
         /\ w \notin S => Cardinality(S \cup {w}) = Cardinality(S) + 1
         /\ w \in S => Cardinality(S \ {w}) = Cardinality(S) - 1 /\ Cardinality(S) > 0
<1>1. IsFiniteSet(S)
  BY Zenon, TxAssumption, FS_Subset
<1>2. Cardinality(S) \in Nat
  BY Zenon, <1>1, FS_CardinalityType
<1>3. w \notin S => Cardinality(S \cup {w}) = Cardinality(S) + 1
  BY Zenon, <1>1, FS_AddElement
<1>4. w \in S => Cardinality(S \ {w}) = Cardinality(S) - 1
  BY Zenon, <1>1, FS_RemoveElement
<1>5. w \in S => Cardinality(S) # 0
  BY Zenon, <1>1, FS_EmptySet
<1>6. QED
  BY <1>2, <1>3, <1>4, <1>5

LEMMA InsertTyped ==
  ASSUME NEW f \in [Writers -> Transaction], NEW w \in Writers, NEW n \in Nat, NEW pk \in Nat
  PROVE  [f EXCEPT ![w].at = "inserted", ![w].sequence = n, ![w].event_pk = pk]
             \in [Writers -> Transaction]
BY Zenon DEF Transaction

\* The manager writes no events.
LEMMA ManagerKeepsDb ==
  ASSUME ManagerNext
  PROVE  db' = db
<1>1. CASE \E s \in Subscribers, k \in Engagements \cup Batches : Subscribe(s, k)
  BY Zenon, <1>1 DEF Subscribe, dbVars
<1>2. CASE \E e \in Engagements : \E last_seen \in 0..db[e] : GapSelect(e, last_seen)
  BY Zenon, <1>2 DEF GapSelect, SelectRows
<1>3. CASE \E e \in Engagements : GapFan(e)
  BY Zenon, <1>3 DEF GapFan
<1>4. CASE Run \/ StartConnect \/ ConnectOk \/ ConnectFails \/ BackoffOver \/ ConnectionError
  BY Zenon, <1>4 DEF Run, StartConnect, ConnectOk, ConnectFails, BackoffOver, ConnectionError, dbVars
<1>5. CASE CheckShutdown \/ ShutdownChanged
  BY Zenon, <1>5 DEF CheckShutdown, ShutdownChanged, Return, dbVars
<1>6. CASE RecvOk \/ HealthCheckOk
  BY Zenon, <1>6 DEF RecvOk, HealthCheckOk, dbVars
<1>7. CASE NotifyJunk \/ Shutdown \/ \E n \in 0..Len(wire) : LoseConnection(n)
  BY Zenon, <1>7 DEF NotifyJunk, Shutdown, LoseConnection, dbVars
<1>8. CASE \E s \in Subscribers : Read(s) \/ DropReceiver(s)
  BY Zenon, <1>8 DEF Read, DropReceiver, dbVars
<1>9. CASE Quiet
  BY Zenon, <1>9, QuietStep
<1>10. QED
  BY Zenon, <1>1, <1>2, <1>3, <1>4, <1>5, <1>6, <1>7, <1>8, <1>9 DEF ManagerNext, Quiet

-----------------------------------------------------------------------------
(* The invariant holds initially and every action preserves it. *)

LEMMA DeliveryInitInv == DeliveryInit => DInv
<1> SUFFICES ASSUME DeliveryInit PROVE DInv
  BY Zenon
<1> USE TxAssumption DEF DeliveryInit, Init
<1>1. Types
  BY DEF Types, Transaction, NoTx
<1>2. OpenInv /\ LockInv /\ RowsInv /\ InsertedInv
  BY Zenon DEF OpenInv, LockInv, Holder, RowsInv, PkFollowsSequence, InsertedInv, NoTx
<1>3. CountInv
  <2>1. Open = {}
    BY Zenon DEF Open
  <2>2. QED
    BY <2>1, FS_EmptySet DEF CountInv
<1>4. QED
  BY Zenon, <1>1, <1>2, <1>3 DEF DInv

\* The manager leaves the writers and the events alone.
LEMMA ManagerInv ==
  ASSUME DInv, UNCHANGED <<db, writerVars>>
  PROVE  DInv'
BY Zenon DEF DInv, Types, OpenInv, LockInv, Holder, RowsInv, PkFollowsSequence, InsertedInv, CountInv,
       Open, writerVars

\* A transaction begins.
LEMMA BeginTxInv ==
  ASSUME DInv, NEW w \in Writers, NEW e \in Engagements, BeginTx(w, e)
  PROVE  DInv'
<1>i. Types /\ OpenInv /\ LockInv /\ RowsInv /\ InsertedInv /\ CountInv
  BY Zenon DEF DInv
<1>u. /\ tx[w] = NoTx /\ begun < MaxTx /\ begun' = begun + 1
      /\ tx' = [tx EXCEPT ![w].at = "begun", ![w].engagement_id = e]
      /\ UNCHANGED <<db, nextPk, rows>>
  BY Zenon DEF BeginTx, vars, dbVars
<1>w. tx'[w].at = "begun" /\ tx'[w].engagement_id = e
  BY Zenon, <1>i, <1>u DEF Types, Transaction
<1>v. \A v \in Writers \ {w} : tx'[v] = tx[v]
  BY Zenon, <1>i, <1>u DEF Types
<1>1. Types'
  <2>1. tx' \in [Writers -> Transaction]
    BY <1>i, <1>u DEF Types, Transaction
  <2>2. QED
    BY <1>i, <1>u, <2>1, TxAssumption DEF Types
<1>2. OpenInv' /\ LockInv'
  BY Zenon, <1>i, <1>w, <1>v DEF OpenInv, LockInv, Holder
<1>3. RowsInv' /\ InsertedInv'
  <2>1. RowsInv'
    BY Zenon, <1>i, <1>u DEF RowsInv, PkFollowsSequence
  <2>2. \A v \in Writers : tx'[v].at = "inserted" => tx'[v] = tx[v]
    BY Zenon, <1>w, <1>v
  <2>3. QED
    BY Zenon, <1>i, <1>u, <2>1, <2>2 DEF InsertedInv
<1>4. CountInv'
  <2>1. w \notin Open /\ Open' = Open \cup {w} /\ Open \in SUBSET Writers
    <3>1. tx'[w] # NoTx
      BY <1>w DEF NoTx
    <3>2. QED
      BY Zenon, <1>u, <1>v, <3>1 DEF Open
  <2>2. Cardinality(Open) \in Nat /\ Cardinality(Open') = Cardinality(Open) + 1
    BY Zenon, <2>1, OpenCounts
  <2>3. QED
    BY <1>i, <1>u, <2>2 DEF CountInv, Types
<1>5. QED
  BY Zenon, <1>1, <1>2, <1>3, <1>4 DEF DInv

\* A lock is taken.
LEMMA AdvisoryLockInv ==
  ASSUME DInv, NEW w \in Writers, AdvisoryLock(w)
  PROVE  DInv'
<1>i. Types /\ OpenInv /\ LockInv /\ RowsInv /\ InsertedInv /\ CountInv
  BY Zenon DEF DInv
<1>u. /\ tx[w].at = "begun"
      /\ tx' = [tx EXCEPT ![w].at = "locked"]
      /\ UNCHANGED <<db, nextPk, rows, begun>>
  BY Zenon DEF AdvisoryLock, vars, dbVars
<1>f. \A v \in Writers : Holder(v) => tx[v].engagement_id # tx[w].engagement_id
  BY Zenon DEF AdvisoryLock, HoldsLock, SameKey, Holder
<1>w. tx'[w].at = "locked" /\ tx'[w].engagement_id = tx[w].engagement_id
  BY Zenon, <1>i, <1>u DEF Types, Transaction
<1>v. \A v \in Writers \ {w} : tx'[v] = tx[v]
  BY Zenon, <1>i, <1>u DEF Types
<1>1. Types'
  <2>1. tx' \in [Writers -> Transaction]
    BY Zenon, <1>i, <1>u DEF Types, Transaction
  <2>2. QED
    BY Zenon, <1>i, <1>u, <2>1 DEF Types
<1>2. OpenInv'
  BY Zenon, <1>i, <1>u, <1>w, <1>v DEF OpenInv
<1>3. LockInv'
  BY <1>i, <1>f, <1>w, <1>v DEF LockInv, Holder
<1>4. RowsInv' /\ InsertedInv'
  BY <1>i, <1>u, <1>w, <1>v DEF RowsInv, PkFollowsSequence, InsertedInv
<1>5. CountInv'
  <2>1. Open' = Open
    BY <1>u, <1>w, <1>v DEF Open, NoTx
  <2>2. QED
    BY Zenon, <1>i, <1>u, <2>1 DEF CountInv
<1>6. QED
  BY Zenon, <1>1, <1>2, <1>3, <1>4, <1>5 DEF DInv

\* A row is inserted, with the number after the last one committed.
LEMMA InsertInv ==
  ASSUME DInv, NEW w \in Writers, Insert(w)
  PROVE  DInv'
<1> DEFINE e == tx[w].engagement_id
<1>i. Types /\ OpenInv /\ LockInv /\ RowsInv /\ InsertedInv /\ CountInv
  BY Zenon DEF DInv
<1>l. tx[w].at = "locked" /\ nextPk' = nextPk + 1 /\ UNCHANGED <<db, rows, begun>>
  BY Zenon DEF Insert, vars, dbVars
<1>e. e \in Engagements /\ NextSequence(e) = db[e] + 1 /\ db[e] + 1 \in Nat
  <2>1. e \in Engagements
    BY Zenon, <1>i, <1>l DEF OpenInv
  <2>2. QED
    BY <1>i, <2>1, NextIsSuccessor DEF Types
<1>u. tx' = [tx EXCEPT ![w].at = "inserted", ![w].sequence = db[e] + 1, ![w].event_pk = nextPk]
  BY Zenon, <1>e DEF Insert
<1>w. /\ tx'[w].at = "inserted" /\ tx'[w].engagement_id = e
      /\ tx'[w].sequence = db[e] + 1 /\ tx'[w].event_pk = nextPk
  BY Zenon, <1>i, <1>u DEF Types, Transaction
<1>v. \A v \in Writers \ {w} : tx'[v] = tx[v]
  BY Zenon, <1>i, <1>u DEF Types
<1>1. Types'
  <2>1. nextPk \in Nat
    BY Zenon, <1>i DEF Types
  <2>2. tx' \in [Writers -> Transaction]
    BY Zenon, <1>i, <1>e, <1>u, <2>1, InsertTyped DEF Types
  <2>3. QED
    BY <1>i, <1>l, <2>2 DEF Types
<1>2. OpenInv'
  BY Zenon, <1>i, <1>e, <1>w, <1>v DEF OpenInv
<1>3. LockInv'
  BY <1>i, <1>l, <1>w, <1>v DEF LockInv, Holder
<1>4. RowsInv'
  BY <1>i, <1>l DEF RowsInv, PkFollowsSequence, Types, EventRow
<1>5. InsertedInv'
  <2> SUFFICES ASSUME NEW v \in Writers, tx'[v].at = "inserted"
               PROVE  /\ tx'[v].sequence = db[tx'[v].engagement_id] + 1
                      /\ tx'[v].event_pk < nextPk'
                      /\ \A r \in rows :
                             r.engagement_id = tx'[v].engagement_id => r.event_pk < tx'[v].event_pk
    BY Zenon, <1>l DEF InsertedInv
  <2>1. CASE v = w
    BY <1>i, <1>l, <1>w, <2>1 DEF RowsInv, Types
  <2>2. CASE v # w
    <3>1. tx'[v] = tx[v]
      BY Zenon, <1>v, <2>2
    <3>2. tx[v].event_pk \in Nat /\ nextPk \in Nat
      BY Zenon, <1>i DEF Types, Transaction
    <3>3. QED
      BY <1>i, <1>l, <3>1, <3>2 DEF InsertedInv
  <2>3. QED
    BY Zenon, <2>1, <2>2
<1>6. CountInv'
  <2>1. Open' = Open
    BY <1>l, <1>w, <1>v DEF Open, NoTx
  <2>2. QED
    BY Zenon, <1>i, <1>l, <2>1 DEF CountInv
<1>7. QED
  BY Zenon, <1>1, <1>2, <1>3, <1>4, <1>5, <1>6 DEF DInv

\* The end of a transaction, with or without its row.
LEMMA EndTx ==
  ASSUME DInv, NEW w \in Writers, tx[w] # NoTx, tx' = [tx EXCEPT ![w] = NoTx]
  PROVE  /\ tx' \in [Writers -> Transaction]
         /\ tx'[w] = NoTx /\ \A v \in Writers \ {w} : tx'[v] = tx[v]
         /\ OpenInv' /\ LockInv'
         /\ Cardinality(Open) \in Nat /\ Cardinality(Open') = Cardinality(Open) - 1
         /\ Cardinality(Open) > 0
<1>i. Types /\ OpenInv /\ LockInv
  BY Zenon DEF DInv
<1>1. NoTx \in Transaction
  BY Zenon DEF NoTx, Transaction
<1>2. tx' \in [Writers -> Transaction]
  BY Zenon, <1>i, <1>1 DEF Types
<1>3. tx'[w] = NoTx /\ \A v \in Writers \ {w} : tx'[v] = tx[v]
  BY Zenon, <1>i DEF Types
<1>4. OpenInv' /\ LockInv'
  BY <1>i, <1>3 DEF OpenInv, LockInv, Holder, NoTx
<1>5. w \in Open /\ Open' = Open \ {w} /\ Open \in SUBSET Writers
  BY Zenon, <1>3 DEF Open
<1>6. QED
  BY Zenon, <1>2, <1>3, <1>4, <1>5, OpenCounts

\* A rollback leaves a gap in event_pk, not in sequence.
LEMMA RollbackInv ==
  ASSUME DInv, NEW w \in Writers, Rollback(w)
  PROVE  DInv'
<1>i. Types /\ RowsInv /\ InsertedInv /\ CountInv
  BY Zenon DEF DInv
<1>u. /\ tx[w] # NoTx /\ tx' = [tx EXCEPT ![w] = NoTx]
      /\ UNCHANGED <<db, nextPk, rows, begun>>
  BY Zenon DEF Rollback, vars, dbVars
<1>t. /\ tx' \in [Writers -> Transaction]
      /\ tx'[w] = NoTx /\ \A v \in Writers \ {w} : tx'[v] = tx[v]
      /\ OpenInv' /\ LockInv'
      /\ Cardinality(Open) \in Nat /\ Cardinality(Open') = Cardinality(Open) - 1
  BY Zenon, <1>u, EndTx
<1>1. Types'
  BY Zenon, <1>i, <1>u, <1>t DEF Types
<1>2. RowsInv' /\ InsertedInv'
  BY Zenon, <1>i, <1>u, <1>t DEF RowsInv, PkFollowsSequence, InsertedInv, NoTx
<1>3. CountInv'
  BY <1>i, <1>u, <1>t DEF CountInv, Types
<1>4. QED
  BY Zenon, <1>t, <1>1, <1>2, <1>3 DEF DInv

\* What a commit does to the events.
LEMMA CommitEffect ==
  ASSUME DInv, NEW w \in Writers, CommitTx(w)
  PROVE  /\ tx[w].engagement_id \in Engagements
         /\ tx[w].sequence = db[tx[w].engagement_id] + 1
         /\ db[tx[w].engagement_id] < MaxEvents
<1> DEFINE e == tx[w].engagement_id
<1>1. e \in Engagements
  BY Zenon DEF DInv, OpenInv, CommitTx
<1>2. tx[w].sequence = db[e] + 1
  BY Zenon DEF DInv, InsertedInv, CommitTx
<1>3. Cardinality(Open) \in Nat /\ Cardinality(Open) > 0
  <2>1. tx[w] # NoTx /\ tx' = [tx EXCEPT ![w] = NoTx]
    BY DEF CommitTx, NoTx
  <2>2. QED
    BY Zenon, <2>1, EndTx
<1>4. db[e] < MaxEvents
  BY <1>1, <1>3, TxAssumption, BoundsAssumption DEF DInv, CountInv, Types
<1>5. QED
  BY Zenon, <1>1, <1>2, <1>4

\* A row is committed.
LEMMA CommitTxInv ==
  ASSUME DInv, NEW w \in Writers, CommitTx(w)
  PROVE  DInv'
<1> DEFINE e == tx[w].engagement_id
<1>i. Types /\ OpenInv /\ LockInv /\ RowsInv /\ InsertedInv /\ CountInv
  BY Zenon DEF DInv
<1>u. /\ tx[w].at = "inserted" /\ tx' = [tx EXCEPT ![w] = NoTx]
      /\ rows' = rows \cup {Row(w)} /\ nextPk' = nextPk /\ begun' = begun
      /\ db' = [db EXCEPT ![e] = tx[w].sequence]
  BY Zenon DEF CommitTx, CommitRow
<1>t. /\ tx' \in [Writers -> Transaction]
      /\ tx'[w] = NoTx /\ \A v \in Writers \ {w} : tx'[v] = tx[v]
      /\ OpenInv' /\ LockInv'
      /\ Cardinality(Open) \in Nat /\ Cardinality(Open') = Cardinality(Open) - 1
  <2>1. tx[w] # NoTx
    BY <1>u DEF NoTx
  <2>2. QED
    BY Zenon, <1>u, <2>1, EndTx
<1>e. e \in Engagements /\ tx[w].sequence = db[e] + 1 /\ db[e] \in Nat
  BY Zenon, <1>i, CommitEffect DEF Types
<1>d. db' \in [Engagements -> Nat] /\ db'[e] = db[e] + 1
      /\ \A d \in Engagements \ {e} : db'[d] = db[d]
  BY <1>i, <1>u, <1>e DEF Types
<1>r. /\ Row(w) \in EventRow /\ Row(w).engagement_id = e /\ Row(w).sequence = db[e] + 1
      /\ Row(w).event_pk = tx[w].event_pk /\ tx[w].event_pk \in Nat
  BY Zenon, <1>i, <1>e DEF Row, EventRow, Types, Transaction
<1>p. /\ tx[w].event_pk < nextPk
      /\ \A r \in rows : r.engagement_id = e => r.event_pk < tx[w].event_pk
  BY Zenon, <1>i, <1>u DEF InsertedInv
<1>o. \A r \in rows :
         /\ r \in EventRow /\ r.engagement_id \in Engagements /\ r.sequence \in Nat
         /\ r.event_pk \in Nat
         /\ 0 < r.sequence /\ r.sequence <= db[r.engagement_id] /\ r.event_pk < nextPk
         /\ r.engagement_id = e => r.sequence < db[e] + 1
  BY <1>i, <1>e DEF Types, RowsInv, EventRow
<1>1. Types'
  BY Zenon, <1>i, <1>u, <1>t, <1>d, <1>r DEF Types
<1>2. RowsInv'
  <2>1. \A r \in rows' :
           0 < r.sequence /\ r.sequence <= db'[r.engagement_id] /\ r.event_pk < nextPk'
    BY <1>u, <1>d, <1>e, <1>r, <1>p, <1>o
  <2>2. \A d \in Engagements :
           db'[d] = 0 \/ \E r \in rows' : r.engagement_id = d /\ r.sequence = db'[d]
    BY Zenon, <1>i, <1>u, <1>d, <1>r DEF RowsInv
  <2>3. \A q, r \in rows' :
           q.engagement_id = r.engagement_id /\ q.sequence = r.sequence => q = r
    BY <1>i, <1>u, <1>e, <1>r, <1>o DEF RowsInv
  <2>4. PkFollowsSequence'
    <3> SUFFICES ASSUME NEW q \in rows', NEW r \in rows',
                        q.engagement_id = r.engagement_id, q.sequence < r.sequence
                 PROVE  q.event_pk < r.event_pk
      BY Zenon DEF PkFollowsSequence
    <3>1. CASE q \in rows /\ r \in rows
      BY Zenon, <1>i, <3>1 DEF RowsInv, PkFollowsSequence
    <3>2. CASE q \in rows /\ r = Row(w)
      BY Zenon, <1>r, <1>p, <3>2
    <3>3. CASE q = Row(w)
      BY <1>u, <1>e, <1>r, <1>o, <3>3
    <3>4. QED
      BY Zenon, <1>u, <3>1, <3>2, <3>3
  <2>5. QED
    BY Zenon, <2>1, <2>2, <2>3, <2>4 DEF RowsInv
<1>3. InsertedInv'
  <2> SUFFICES ASSUME NEW v \in Writers, tx'[v].at = "inserted"
               PROVE  /\ tx'[v].sequence = db'[tx'[v].engagement_id] + 1
                      /\ tx'[v].event_pk < nextPk'
                      /\ \A r \in rows' :
                             r.engagement_id = tx'[v].engagement_id => r.event_pk < tx'[v].event_pk
    BY Zenon DEF InsertedInv
  <2>1. v # w /\ tx'[v] = tx[v]
    BY <1>t DEF NoTx
  <2>2. tx[v].engagement_id # e /\ tx[v].engagement_id \in Engagements
    BY Zenon, <1>i, <1>u, <2>1 DEF LockInv, Holder, OpenInv
  <2>3. QED
    BY Zenon, <1>i, <1>u, <1>d, <1>r, <2>1, <2>2 DEF InsertedInv
<1>4. CountInv'
  BY <1>i, <1>u, <1>t, <1>d, <1>e DEF CountInv, Types
<1>5. QED
  BY Zenon, <1>t, <1>1, <1>2, <1>3, <1>4 DEF DInv

LEMMA DeliveryNextInv == DInv /\ [DeliveryNext]_deliveryVars => DInv'
<1> SUFFICES ASSUME DInv, [DeliveryNext]_deliveryVars PROVE DInv'
  BY Zenon
<1>1. CASE UNCHANGED deliveryVars
  BY Zenon, <1>1, ManagerInv DEF deliveryVars, vars, dbVars
<1>2. CASE ManagerNext /\ UNCHANGED writerVars
  BY Zenon, <1>2, ManagerKeepsDb, ManagerInv
<1>3. ASSUME NEW w \in Writers, NEW e \in Engagements, BeginTx(w, e)
      PROVE  DInv'
  BY Zenon, <1>3, BeginTxInv
<1>4. ASSUME NEW w \in Writers, AdvisoryLock(w) \/ Insert(w) \/ CommitTx(w) \/ Rollback(w)
      PROVE  DInv'
  BY Zenon, <1>4, AdvisoryLockInv, InsertInv, CommitTxInv, RollbackInv
<1>5. QED
  BY Zenon, <1>1, <1>2, <1>3, <1>4 DEF DeliveryNext

-----------------------------------------------------------------------------
(* The theorems. *)

\* DInv is an invariant of every instance of EventDelivery.
THEOREM DeliveryInvariance == DeliverySpec => []DInv
<1>1. DeliveryInit => DInv
  BY Zenon, DeliveryInitInv
<1>2. DInv /\ [DeliveryNext]_deliveryVars => DInv'
  BY Zenon, DeliveryNextInv
<1>3. QED
  BY <1>1, <1>2, PTL DEF DeliverySpec

\* Two rows of an engagement never have the same sequence number, committed
\* or not: the advisory lock is enough, and collisions of its key do no harm.
THEOREM NoCollision == DeliverySpec => []SequencesNeverCollide
<1>1. DInv => SequencesNeverCollide
  <2> SUFFICES ASSUME DInv PROVE SequencesNeverCollide
    BY Zenon
  <2>i. Types /\ OpenInv /\ LockInv /\ RowsInv /\ InsertedInv
    BY Zenon DEF DInv
  <2>1. \A v \in Writers :
           tx[v].at = "inserted" =>
               /\ Row(v).engagement_id = tx[v].engagement_id /\ tx[v].engagement_id \in Engagements
               /\ Row(v).sequence = db[tx[v].engagement_id] + 1
    BY Zenon, <2>i DEF Row, InsertedInv, OpenInv
  <2>2. \A v, w \in Writers :
           v # w /\ tx[v].at = "inserted" /\ tx[w].at = "inserted"
               => Row(v).engagement_id # Row(w).engagement_id
    BY Zenon, <2>i, <2>1 DEF LockInv, Holder
  <2>3. \A r \in rows :
           /\ r.engagement_id \in Engagements /\ r.sequence \in Nat
           /\ r.sequence <= db[r.engagement_id] /\ db[r.engagement_id] \in Nat
    BY Zenon, <2>i DEF Types, EventRow, RowsInv
  <2>4. ASSUME NEW q \in Inserted, NEW r \in Inserted,
               q.engagement_id = r.engagement_id, q.sequence = r.sequence
        PROVE  q = r
    <3>1. CASE q \in rows /\ r \in rows
      BY Zenon, <2>i, <2>4, <3>1 DEF RowsInv
    <3>2. ASSUME NEW v \in Writers, tx[v].at = "inserted", q = Row(v), r \in rows
          PROVE  FALSE
      BY <2>1, <2>3, <2>4, <3>2
    <3>3. ASSUME NEW v \in Writers, tx[v].at = "inserted", r = Row(v), q \in rows
          PROVE  FALSE
      BY <2>1, <2>3, <2>4, <3>3
    <3>4. ASSUME NEW v \in Writers, tx[v].at = "inserted", q = Row(v),
                 NEW w \in Writers, tx[w].at = "inserted", r = Row(w)
          PROVE  q = r
      BY Zenon, <2>2, <2>4, <3>4
    <3>5. QED
      BY Zenon, <3>1, <3>2, <3>3, <3>4 DEF Inserted
  <2>5. QED
    BY Zenon, <2>2, <2>4 DEF SequencesNeverCollide
<1>2. QED
  BY <1>1, DeliveryInvariance, PTL

\* Within an engagement event_pk follows sequence.
THEOREM PkOrdered == DeliverySpec => []PkFollowsSequence
<1>1. DInv => PkFollowsSequence
  BY Zenon DEF DInv, RowsInv
<1>2. QED
  BY <1>1, DeliveryInvariance, PTL

\* Every step of the composition is one of ListenNotify or leaves it alone: a
\* commit is that of the next sequence number of its engagement.
LEMMA StepSimulates ==
  ASSUME DInv, [DeliveryNext]_deliveryVars
  PROVE  [Next]_vars
<1>1. CASE UNCHANGED deliveryVars
  BY Zenon, <1>1 DEF deliveryVars
<1>2. CASE ManagerNext
  BY Zenon, <1>2 DEF Next
<1>3. ASSUME NEW w \in Writers, CommitTx(w)
      PROVE  Next
  <2>1. Commit(tx[w].engagement_id) /\ tx[w].engagement_id \in Engagements
    BY Zenon, <1>3, CommitEffect DEF CommitTx, Commit
  <2>2. QED
    BY Zenon, <2>1 DEF Next
<1>4. CASE \E w \in Writers :
             (\E e \in Engagements : BeginTx(w, e)) \/ AdvisoryLock(w) \/ Insert(w) \/ Rollback(w)
  BY Zenon, <1>4 DEF BeginTx, AdvisoryLock, Insert, Rollback
<1>5. QED
  BY Zenon, <1>1, <1>2, <1>3, <1>4 DEF DeliveryNext

\* The writers, with their locks, rollbacks and lost clients, implement the
\* database that ListenNotify assumes.
THEOREM Refinement == DeliverySpec => ImplementsListenNotify
<1>1. DeliveryInit => Init
  BY Zenon DEF DeliveryInit
<1>2. DInv /\ [DeliveryNext]_deliveryVars => [Next]_vars
  BY Zenon, StepSimulates
<1>3. QED
  BY <1>1, <1>2, DeliveryInvariance, PTL DEF DeliverySpec, ImplementsListenNotify

-----------------------------------------------------------------------------
(* The gauge. *)

\* The registry is finite, a channel holds no more than its capacity, and what
\* was counted, and the gauge, are numbers that are high enough.
GaugeInv ==
    /\ IsFiniteSet(senders) /\ lag \in Nat /\ consumer_lag_events \in Nat
    /\ \A s \in Subscribers : Len(chan[s]) <= CHANNEL_CAP
    /\ phase = "set" => lag >= QueuedEventCount(senders, chan)
    /\ GaugeNeverUnderstates

QueuesLive(sndrs, ch) == \E s \in sndrs : \E i \in DOMAIN ch[s] : ch[s][i].live

\* A finite registry of bounded channels has finitely many places.
LEMMA SlotsFinite ==
  ASSUME NEW sndrs, IsFiniteSet(sndrs), NEW ch,
         \A s \in sndrs : ch[s] \in Seq(Payloads) /\ Len(ch[s]) <= CHANNEL_CAP
  PROVE  IsFiniteSet(QueuedSlots(sndrs, ch))
<1>1. CHANNEL_CAP \in Int /\ 1 \in Int
  BY BoundsAssumption
<1>2. IsFiniteSet(sndrs \X (1..CHANNEL_CAP))
  BY Zenon, <1>1, FS_Interval, FS_Product
<1>3. ASSUME NEW q \in Seq(Payloads), Len(q) <= CHANNEL_CAP
      PROVE  DOMAIN q \subseteq 1..CHANNEL_CAP
  BY <1>1, <1>3
<1>4. QueuedSlots(sndrs, ch) \subseteq sndrs \X (1..CHANNEL_CAP)
  <2> SUFFICES ASSUME NEW s \in sndrs, NEW z \in {s} \X DOMAIN ch[s]
               PROVE  z \in sndrs \X (1..CHANNEL_CAP)
    BY Zenon DEF QueuedSlots
  <2>1. DOMAIN ch[s] \subseteq 1..CHANNEL_CAP
    BY Zenon, <1>3
  <2>2. PICK i \in DOMAIN ch[s] : z = <<s, i>>
    BY SMT
  <2> QED  BY Zenon, <2>1, <2>2
<1> QED  BY Zenon, <1>2, <1>4, FS_Subset

\* Where senders go and channels get shorter, no place is taken anew.
LEMMA SlotsShrink ==
  ASSUME NEW sndrs, NEW ch, NEW fewer \in SUBSET sndrs, NEW shorter,
         \A s \in fewer : DOMAIN shorter[s] \subseteq DOMAIN ch[s]
  PROVE  QueuedSlots(fewer, shorter) \subseteq QueuedSlots(sndrs, ch)
<1> SUFFICES ASSUME NEW z \in QueuedSlots(fewer, shorter) PROVE z \in QueuedSlots(sndrs, ch)
  BY Zenon
<1>1. PICK s \in fewer : z \in {s} \X DOMAIN shorter[s]
  BY Zenon DEF QueuedSlots
<1>2. s \in sndrs /\ DOMAIN shorter[s] \subseteq DOMAIN ch[s]
  BY Zenon
<1>3. z \in {s} \X DOMAIN ch[s]
  BY Zenon, <1>1, <1>2
<1> QED  BY Zenon, <1>2, <1>3 DEF QueuedSlots

\* A fanout leaves a channel within its capacity.
LEMMA FanoutBounded ==
  ASSUME TypeOK, NEW p \in Payloads, Fanout(p), NEW s \in Subscribers, Len(chan[s]) <= CHANNEL_CAP
  PROVE  Len(chan'[s]) <= CHANNEL_CAP
<1> DEFINE sent == {t \in Matching(p) : alive[t]}
           full == {t \in sent : Len(chan[t]) = CHANNEL_CAP}
<1>0. PICK c \in Seq(Payloads) : c = chan[s]
  BY Zenon DEF TypeOK
<1>1. chan'[s] = IF s \notin sent THEN c ELSE Append(IF s \in full THEN Tail(c) ELSE c, p)
  BY Zenon, <1>0 DEF Fanout
<1>2. s \in sent => (s \in full <=> Len(c) = CHANNEL_CAP)
  BY Zenon, <1>0
<1> HIDE DEF sent, full
<1>3. CHANNEL_CAP \in Nat \ {0} /\ Len(c) \in Nat /\ Len(c) <= CHANNEL_CAP
  BY <1>0, BoundsAssumption
<1>4. CASE s \notin sent
  BY Zenon, <1>1, <1>3, <1>4
<1>5. CASE s \in sent /\ s \notin full
  <2>1. chan'[s] = Append(c, p) /\ Len(c) # CHANNEL_CAP
    BY Zenon, <1>1, <1>2, <1>5
  <2>2. Len(Append(c, p)) = Len(c) + 1
    BY SMT
  <2> QED  BY <2>1, <2>2, <1>3
<1>6. CASE s \in sent /\ s \in full
  <2>1. chan'[s] = Append(Tail(c), p) /\ Len(c) = CHANNEL_CAP
    BY Zenon, <1>1, <1>2, <1>6
  <2>2. c # <<>>
    BY <2>1, <1>3
  <2>3. Len(Append(Tail(c), p)) = Len(c)
    BY <2>2
  <2> QED  BY Zenon, <2>1, <2>3, <1>3
<1> QED  BY Zenon, <1>4, <1>5, <1>6

LEMMA GaugeInit == Init => GaugeInv
<1> SUFFICES ASSUME Init PROVE GaugeInv
  OBVIOUS
<1>1. IsFiniteSet(senders) /\ GaugeNeverUnderstates
  BY Zenon, FS_EmptySet DEF Init, GaugeNeverUnderstates
<1>2. lag \in Nat /\ consumer_lag_events \in Nat /\ Len(<<>>) <= CHANNEL_CAP /\ phase # "set"
  BY BoundsAssumption DEF Init
<1>3. \A s \in Subscribers : chan[s] = <<>>
  BY Zenon DEF Init
<1> QED  BY Zenon, <1>1, <1>2, <1>3 DEF GaugeInv

\* Every step keeps GaugeInv.
LEMMA GaugeNext == IInv /\ KindInv /\ GaugeInv /\ [Next]_vars /\ IInv' /\ KindInv' => GaugeInv'
<1> SUFFICES ASSUME IInv, KindInv, GaugeInv, [Next]_vars, IInv', KindInv'
             PROVE  GaugeInv'
  OBVIOUS
<1>t. /\ senders \subseteq Subscribers /\ senders' \subseteq Subscribers
      /\ chan \in [Subscribers -> Seq(Payloads)] /\ chan' \in [Subscribers -> Seq(Payloads)]
  BY Zenon DEF IInv, TypeOK

\* Nothing live is queued before run.
<1>Owned. ASSUME phase' = "owned" PROVE GaugeNeverUnderstates'
  <2>1. ASSUME NEW s \in senders', NEW i \in DOMAIN chan'[s] PROVE ~ chan'[s][i].live
    <3>1. s \in Subscribers /\ chan'[s] \in Seq(Payloads)
      BY Zenon, <1>t
    <3>2. KindOf(s)'
      BY Zenon, <3>1 DEF KindInv
    <3>3. NoLive(chan'[s])
      BY Zenon, <3>2, <1>Owned DEF KindOf, Kind
    <3>4. ~ Live(chan'[s][i])
      BY Zenon, <3>3 DEF NoLive
    <3>5. chan'[s][i] \in Payloads
      BY <3>1
    <3>6. chan'[s][i].engagement_id # None
      BY Zenon, <3>5, NamesAssumption DEF Payloads
    <3> QED  BY Zenon, <3>4, <3>6 DEF Live
  <2> QED  BY Zenon, <2>1 DEF GaugeNeverUnderstates

\* What is queued is a number.
<1>Number. ASSUME IsFiniteSet(senders'), \A s \in Subscribers : Len(chan'[s]) <= CHANNEL_CAP
           PROVE  QueuedEventCount(senders', chan') \in Nat
  <2>1. IsFiniteSet(QueuedSlots(senders', chan'))
    BY Zenon, <1>Number, <1>t, SlotsFinite
  <2> QED  BY Zenon, <2>1, FS_CardinalityType DEF QueuedEventCount

\* What is queued is no more than it was, and not live where it was not.
<1>Shrink. ASSUME senders' \subseteq senders, UNCHANGED <<lag, consumer_lag_events>>,
                  phase' = "set" => phase = "set", Handling => Handling',
                  \A s \in Subscribers : Len(chan'[s]) <= Len(chan[s])
                      /\ DOMAIN chan'[s] \subseteq DOMAIN chan[s]
                      /\ \A i \in DOMAIN chan'[s] : \E j \in DOMAIN chan[s] : chan'[s][i] = chan[s][j]
           PROVE  GaugeInv'
  <2> USE <1>Shrink
  <2>1. IsFiniteSet(senders') /\ lag' \in Nat /\ consumer_lag_events' \in Nat
    BY Zenon, FS_Subset DEF GaugeInv
  <2>2. ASSUME NEW s \in Subscribers PROVE Len(chan'[s]) <= CHANNEL_CAP
    <3>1. PICK c \in Seq(Payloads), d \in Seq(Payloads) : c = chan[s] /\ d = chan'[s]
      BY Zenon, <1>t
    <3>2. Len(d) <= Len(c) /\ Len(c) <= CHANNEL_CAP
      BY Zenon, <3>1 DEF GaugeInv
    <3> QED  BY <3>1, <3>2, BoundsAssumption
  <2>3. PICK S, T : S = QueuedSlots(senders, chan) /\ T = QueuedSlots(senders', chan')
    BY Zenon
  <2>4. IsFiniteSet(S) /\ T \in SUBSET S
    <3>1. IsFiniteSet(S)
      BY Zenon, <2>3, <1>t, SlotsFinite DEF GaugeInv
    <3>2. \A s \in senders' : DOMAIN chan'[s] \subseteq DOMAIN chan[s]
      BY Zenon, <1>t
    <3> QED  BY Zenon, <3>1, <3>2, <2>3, SlotsShrink
  <2>5. Cardinality(T) <= Cardinality(S) /\ Cardinality(S) \in Nat /\ Cardinality(T) \in Nat
    BY Zenon, <2>4, FS_Subset, FS_CardinalityType
  <2>6. ASSUME NEW n \in Nat, n >= QueuedEventCount(senders, chan)
        PROVE  n >= QueuedEventCount(senders', chan')
    <3>1. n >= Cardinality(S)
      BY Zenon, <2>3, <2>6 DEF QueuedEventCount
    <3>2. n >= Cardinality(T)
      BY <2>5, <3>1
    <3> QED  BY Zenon, <2>3, <3>2 DEF QueuedEventCount
  <2>7. phase' = "set" => lag' >= QueuedEventCount(senders', chan')
    BY Zenon, <2>6 DEF GaugeInv
  <2>8. ASSUME ~ Handling', QueuesLive(senders', chan')
        PROVE  consumer_lag_events' >= QueuedEventCount(senders', chan')
    <3>1. QueuesLive(senders, chan)
      <4>1. PICK s \in senders' : \E i \in DOMAIN chan'[s] : chan'[s][i].live
        BY Zenon, <2>8 DEF QueuesLive
      <4>2. PICK i \in DOMAIN chan'[s] : chan'[s][i].live
        BY Zenon, <4>1
      <4>3. s \in senders /\ s \in Subscribers
        BY Zenon, <1>t
      <4>4. PICK j \in DOMAIN chan[s] : chan'[s][i] = chan[s][j]
        BY Zenon, <4>2, <4>3
      <4> QED  BY Zenon, <4>2, <4>3, <4>4 DEF QueuesLive
    <3>2. consumer_lag_events >= QueuedEventCount(senders, chan)
      BY Zenon, <2>8, <3>1 DEF GaugeInv, GaugeNeverUnderstates, QueuesLive
    <3> QED  BY Zenon, <3>2, <2>6 DEF GaugeInv
  <2> QED  BY Zenon, <2>1, <2>2, <2>7, <2>8 DEF GaugeInv, GaugeNeverUnderstates, QueuesLive

<1>Same. ASSUME senders' \subseteq senders, UNCHANGED <<chan, lag, consumer_lag_events>>,
                phase' = "set" => phase = "set", Handling => Handling'
         PROVE  GaugeInv'
  <2>1. ASSUME NEW s \in Subscribers PROVE Len(chan[s]) <= Len(chan[s])
    BY <1>t
  <2> QED  BY Zenon, <1>Same, <2>1, <1>Shrink

\* While a notification is handled the gauge may be too low.
<1>Handle. ASSUME NEW p \in Payloads \cup {Junk}, HandleNotification(p), Listening,
                  UNCHANGED consumer_lag_events
           PROVE  GaugeInv'
  <2> USE <1>Handle
  <2>1. CASE p = Junk
    BY Zenon, <2>1, <1>Same DEF HandleNotification, chanVars, Handling, Listening
  <2>2. CASE p # Junk
    <3>1. p \in Payloads /\ Fanout(p) /\ phase' = "count" /\ UNCHANGED lag
      BY Zenon, <2>2 DEF HandleNotification
    <3>2. IsFiniteSet(senders')
      BY Zenon, <3>1, FanoutTypes, FS_Subset DEF GaugeInv, IInv
    <3>3. \A s \in Subscribers : Len(chan'[s]) <= CHANNEL_CAP
      BY Zenon, <3>1, FanoutBounded DEF GaugeInv, IInv
    <3> QED  BY Zenon, <3>1, <3>2, <3>3 DEF GaugeInv, GaugeNeverUnderstates, Handling
  <2> QED  BY Zenon, <2>1, <2>2

\* The queued events are counted after the fanout, ...
<1>Count. ASSUME CountQueued PROVE GaugeInv'
  <2>1. /\ phase' = "set" /\ lag' = QueuedEventCount(senders', chan')
        /\ UNCHANGED <<senders, chan, consumer_lag_events>>
    BY Zenon, <1>Count DEF CountQueued, chanVars
  <2>2. lag' \in Nat
    BY Zenon, <2>1, <1>Number DEF GaugeInv
  <2>3. lag' >= QueuedEventCount(senders', chan')
    <3>1. PICK n \in Nat : n = lag'
      BY Zenon, <2>2
    <3>2. n >= n
      BY SMT
    <3> QED  BY Zenon, <2>1, <3>1, <3>2
  <2> QED  BY Zenon, <2>1, <2>2, <2>3 DEF GaugeInv, GaugeNeverUnderstates, Handling

\* ... and are fewer when the gauge is set.
<1>Set. ASSUME SetGauge PROVE GaugeInv'
  <2>1. /\ phase = "set" /\ phase' = "listen" /\ consumer_lag_events' = lag
        /\ UNCHANGED <<senders, chan, lag>>
    BY Zenon, <1>Set DEF SetGauge, chanVars
  <2> QED  BY Zenon, <2>1 DEF GaugeInv, GaugeNeverUnderstates

<1>1. ASSUME NEW s \in Subscribers, NEW k, Subscribe(s, k) PROVE GaugeInv'
  <2> USE <1>1
  <2>1. /\ phase' = "owned" /\ UNCHANGED <<chan, lag, consumer_lag_events>>
        /\ senders' = senders \cup {s}
    BY Zenon DEF Subscribe, connVars, chanVars, metrics
  <2>2. IsFiniteSet(senders')
    BY Zenon, <2>1, FS_AddElement DEF GaugeInv
  <2> QED  BY Zenon, <2>1, <2>2, <1>Owned DEF GaugeInv
<1>2. ASSUME NEW e \in Engagements, GapFan(e) PROVE GaugeInv'
  <2> USE <1>2
  <2>1. gap[e] \in Seq(Payloads) /\ gap[e] # <<>>
    BY Zenon DEF GapFan, IInv, TypeOK
  <2>2. Head(gap[e]) \in Payloads /\ Fanout(Head(gap[e]))
    BY Zenon, <2>1, TailFacts DEF GapFan
  <2>3. phase' = "owned" /\ UNCHANGED <<lag, consumer_lag_events>>
    BY Zenon, <2>1 DEF GapFan, IInv, PhaseInv, connVars, metrics
  <2>4. IsFiniteSet(senders')
    BY Zenon, <2>2, FanoutTypes, FS_Subset DEF GaugeInv, IInv
  <2>5. \A s \in Subscribers : Len(chan'[s]) <= CHANNEL_CAP
    BY Zenon, <2>2, FanoutBounded DEF GaugeInv, IInv
  <2> QED  BY Zenon, <2>3, <2>4, <2>5, <1>Owned DEF GaugeInv
<1>3. CASE RecvOk \/ HealthCheckOk
  <2>1. /\ wire \in Seq(Payloads \cup {Junk}) /\ wire # <<>> /\ HandleNotification(Head(wire))
        /\ Listening /\ UNCHANGED consumer_lag_events
    BY Zenon, <1>3 DEF RecvOk, HealthCheckOk, Listening, IInv, TypeOK
  <2>2. Head(wire) \in Payloads \cup {Junk}
    BY Zenon, <2>1, TailFacts
  <2> QED  BY Zenon, <2>1, <2>2, <1>Handle
<1>4. CASE CheckShutdown \/ ShutdownChanged
  BY Zenon, <1>4, <1>Same
     DEF CheckShutdown, ShutdownChanged, Return, chanVars, metrics, Handling
<1>5. CASE \/ \E e \in Engagements : \E last_seen \in 0..db[e] : GapSelect(e, last_seen)
           \/ NotifyJunk \/ Shutdown
           \/ \E n \in 0..Len(wire) : LoseConnection(n)
           \/ \E e \in Engagements : Commit(e)
  BY Zenon, <1>5, <1>Same
     DEF GapSelect, SelectRows, NotifyJunk, Shutdown, LoseConnection, Commit, CommitRow, connVars,
         chanVars, metrics, Handling
<1>6. CASE Run \/ StartConnect \/ ConnectOk \/ BackoffOver \/ HealthTick
  BY Zenon, <1>6, <1>Same
     DEF Run, StartConnect, ConnectOk, BackoffOver, HealthTick, chanVars, metrics, Handling
<1>9. CASE HealthCheckNone \/ Relisten \/ ConnectFails \/ ConnectionError
  BY Zenon, <1>9, <1>Same
     DEF HealthCheckNone, Relisten, Disconnected, Listening, ConnectFails, ConnectionError, Reconnect,
         chanVars, metrics, Handling
<1>7. ASSUME NEW s \in Subscribers, Read(s) \/ DropReceiver(s) PROVE GaugeInv'
  <2> USE <1>7
  <2>1. UNCHANGED <<phase, senders, lag, consumer_lag_events>>
    BY Zenon DEF Read, DropReceiver, connVars, metrics
  <2>2. PICK c \in Seq(Payloads), d \in Seq(Payloads) : c = chan[s] /\ d = chan'[s]
    BY Zenon, <1>t
  <2>3. d = c \/ d = <<>> \/ (c # <<>> /\ d = Tail(c))
    BY Zenon, <2>2, <1>t DEF Read, DropReceiver
  <2>4. /\ Len(d) <= Len(c) /\ DOMAIN d \subseteq DOMAIN c
        /\ \A i \in DOMAIN d : \E j \in DOMAIN c : d[i] = c[j]
    <3>1. CASE d = c
      BY <3>1
    <3>2. CASE d = <<>>
      BY <3>2
    <3>3. CASE c # <<>> /\ d = Tail(c)
      <4>1. Len(d) = Len(c) - 1 /\ Len(c) \in Nat
        BY <3>3
      <4>2. \A i \in DOMAIN d : i + 1 \in DOMAIN c /\ d[i] = c[i + 1]
        BY <3>3
      <4>3. DOMAIN c = 1..Len(c) /\ DOMAIN d = 1..Len(d)
        BY Zenon, SMT
      <4>4. Len(d) <= Len(c) /\ 1..Len(d) \subseteq 1..Len(c)
        BY <4>1
      <4> QED  BY Zenon, <4>2, <4>3, <4>4
    <3> QED  BY Zenon, <2>3, <3>1, <3>2, <3>3
  <2>5. \A r \in Subscribers : r # s => chan'[r] = chan[r]
    BY Zenon, <1>t DEF Read, DropReceiver
  <2>6. ASSUME NEW r \in Subscribers
        PROVE  /\ Len(chan'[r]) <= Len(chan[r]) /\ DOMAIN chan'[r] \subseteq DOMAIN chan[r]
               /\ \A i \in DOMAIN chan'[r] : \E j \in DOMAIN chan[r] : chan'[r][i] = chan[r][j]
    <3>1. CASE r = s
      BY Zenon, <3>1, <2>2, <2>4
    <3>2. CASE r # s
      <4>1. Len(chan[r]) <= Len(chan[r])
        BY <1>t
      <4> QED  BY Zenon, <4>1, <3>2, <2>5
    <3> QED  BY Zenon, <3>1, <3>2
  <2> QED  BY Zenon, <2>1, <2>6, <1>Shrink DEF Handling
<1>8. CASE UNCHANGED vars
  BY Zenon, <1>8, <1>Same DEF vars, connVars, chanVars, metrics, Handling
<1> QED
  BY Zenon, <1>1, <1>2, <1>3, <1>4, <1>5, <1>6, <1>7, <1>8, <1>9, <1>Count, <1>Set
     DEF Next, ManagerNext

\* While a live event is queued for anyone and no notification is being
\* handled, consumer_lag_events is at least what is queued, for any number of
\* subscribers and any capacity.
THEOREM GaugeHighEnough == Spec => []GaugeNeverUnderstates
<1>1. GaugeInv => GaugeNeverUnderstates
  BY Zenon DEF GaugeInv
<1> QED  BY <1>1, GaugeInit, GaugeNext, Invariance, HoleInit, HoleStep, PTL DEF Spec

-----------------------------------------------------------------------------
(* From the transaction to the subscriber. *)

LEMMA NoGapsStep ==
  ASSUME DInv, NoGaps, [DeliveryNext]_deliveryVars
  PROVE  NoGaps'
<1>1. CASE UNCHANGED <<rows, db>>
  BY Zenon, <1>1 DEF NoGaps
<1>2. ASSUME NEW w \in Writers, CommitTx(w) PROVE NoGaps'
  <2>1. PICK e \in Engagements : e = tx[w].engagement_id
    BY Zenon, <1>2, CommitEffect
  <2>2. PICK m \in Nat : m = db[e]
    BY Zenon DEF DInv, Types
  <2>3. db' = [db EXCEPT ![e] = m + 1] /\ rows' = rows \cup {Row(w)}
    BY Zenon, <1>2, <2>1, <2>2, CommitEffect DEF CommitTx, CommitRow
  <2>4. Row(w).engagement_id = e /\ Row(w).sequence = m + 1
    BY Zenon, <1>2, <2>1, <2>2, CommitEffect DEF Row
  <2>5. db'[e] = m + 1 /\ \A d \in Engagements \ {e} : db'[d] = db[d]
    BY Zenon, <2>3 DEF DInv, Types
  <2> SUFFICES ASSUME NEW d \in Engagements, NEW n \in 1..db'[d]
               PROVE  \E r \in rows' : r.engagement_id = d /\ r.sequence = n
    BY Zenon DEF NoGaps
  <2>6. CASE d # e
    <3>1. n \in 1..db[d]
      BY Zenon, <2>5, <2>6
    <3>2. PICK r \in rows : r.engagement_id = d /\ r.sequence = n
      BY Zenon, <3>1 DEF NoGaps
    <3> QED  BY Zenon, <2>3, <3>2
  <2>7. CASE d = e /\ n # m + 1
    <3>1. n \in 1..(m + 1)
      BY Zenon, <2>5, <2>7
    <3>2. n \in 1..m
      BY <3>1, <2>7
    <3>3. d \in Engagements /\ n \in 1..db[d]
      BY Zenon, <2>2, <2>7, <3>2
    <3>4. PICK r \in rows : r.engagement_id = d /\ r.sequence = n
      BY Zenon, <3>3 DEF NoGaps
    <3> QED  BY Zenon, <2>3, <3>4
  <2>8. CASE d = e /\ n = m + 1
    BY Zenon, <2>3, <2>4, <2>8
  <2> QED  BY Zenon, <2>6, <2>7, <2>8
<1>3. CASE UNCHANGED deliveryVars
  BY Zenon, <1>3, <1>1 DEF deliveryVars, vars, dbVars, writerVars
<1>4. CASE ManagerNext /\ UNCHANGED writerVars
  BY Zenon, <1>4, <1>1, ManagerKeepsDb DEF writerVars
<1>5. CASE \E w \in Writers :
             (\E e \in Engagements : BeginTx(w, e)) \/ AdvisoryLock(w) \/ Insert(w) \/ Rollback(w)
  BY Zenon, <1>5, <1>1 DEF BeginTx, AdvisoryLock, Insert, Rollback, vars, dbVars
<1> QED  BY Zenon, <1>2, <1>3, <1>4, <1>5 DEF DeliveryNext

\* The sequence numbers of an engagement have no hole, whatever is rolled back
\* and whichever lock keys collide: a cursor of gap_fill never waits for a
\* number that will not come.
THEOREM Gapless == DeliverySpec => []NoGaps
<1>1. DeliveryInit => NoGaps
  <2> SUFFICES ASSUME DeliveryInit, NEW e \in Engagements, NEW n \in 1..db[e] PROVE FALSE
    BY Zenon DEF NoGaps
  <2>1. n \in 1..0
    BY Zenon DEF DeliveryInit, Init
  <2> QED  BY <2>1
<1> QED  BY <1>1, NoGapsStep, DeliveryInvariance, PTL DEF DeliverySpec

LEMMA GotIsGenuine == IInv /\ OrderInv /\ KindInv /\ NoGaps => NothingMadeUp
<1> SUFFICES ASSUME IInv, OrderInv, KindInv, NoGaps,
                    NEW s \in Subscribers, NEW i \in DOMAIN got[s], got[s][i] # Lagged
             PROVE  /\ Wants(s, EventOf(got[s][i]))
                    /\ \E r \in rows : /\ r.engagement_id = got[s][i].engagement_id
                                       /\ r.sequence = got[s][i].sequence
  BY Zenon DEF NothingMadeUp
<1>1. PICK g \in Seq(Payloads \cup {Lagged}) : g = got[s]
  BY Zenon DEF IInv, TypeOK
<1>2. PICK p \in Payloads : p = got[s][i] /\ p = g[i]
  <2>1. g[i] \in Payloads \cup {Lagged}
    BY <1>1
  <2> QED  BY Zenon, <2>1, <1>1
<1>3. p.engagement_id \in Engagements /\ p.sequence \in 1..MaxEvents
  BY Zenon DEF Payloads
<1>4. Wants(s, EventOf(p))
  <2>1. WantedBy(key[s], g)
    BY Zenon, <1>1 DEF KindInv, KindOf, Kind
  <2>2. key[s] \in {p.engagement_id, BatchOf[p.engagement_id]} \ {None}
    BY Zenon, <2>1, <1>1, <1>2, <1>3 DEF WantedBy
  <2> QED  BY <2>2 DEF Wants, EventOf, Event
<1>5. p.sequence <= db[p.engagement_id]
  <2>1. Bounded(got[s], db)
    BY Zenon DEF OrderInv, StreamInv, Stream
  <2> QED  BY Zenon, <2>1, <1>2, <1>3 DEF Bounded
<1>6. db[p.engagement_id] \in Nat
  BY <1>3, BoundsAssumption DEF IInv, TypeOK
<1>7. p.sequence \in 1..db[p.engagement_id]
  BY <1>3, <1>5, <1>6
<1>8. PICK r \in rows : r.engagement_id = p.engagement_id /\ r.sequence = p.sequence
  BY Zenon, <1>3, <1>7 DEF NoGaps
<1> QED  BY Zenon, <1>2, <1>4, <1>8

\* Nobody hears of an event that is not committed, or that it has not
\* subscribed to.
THEOREM Genuine == DeliverySpec => []NothingMadeUp
<1>1. IInv /\ OrderInv /\ [Next]_vars => (IInv /\ OrderInv)'
  BY Zenon, NextInv, OrderNext
<1> QED
  BY <1>1, InitInv, OrderInit, HoleInit, HoleStep, Gapless, GotIsGenuine, Refinement, PTL
     DEF ImplementsListenNotify

\* From allocate_and_insert_event to the subscriber: whatever the writers do,
\* no event that the manager was told of is lost silently, live events come in
\* order, no hole in them goes unannounced, and the gauge is not too low once
\* a notification has been handled.
THEOREM EndToEnd ==
  DeliverySpec =>
      [](NoSilentLoss /\ LiveEventsAdvance /\ NoUnannouncedHole /\ GaugeNeverUnderstates)
<1>1. (IInv => NoSilentLoss) /\ (GaugeInv => GaugeNeverUnderstates)
  BY Zenon DEF IInv, GaugeInv
<1>2. IInv /\ OrderInv /\ [Next]_vars => (IInv /\ OrderInv)'
  BY Zenon, NextInv, OrderNext
<1>3. QED
  BY <1>1, <1>2, InitInv, OrderInit, HoleInit, HoleStep, GaugeInit, GaugeNext, OrderAdvances,
     HolesAreAnnounced, Refinement, PTL DEF ImplementsListenNotify
=============================================================================
