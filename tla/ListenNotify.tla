---------------------------- MODULE ListenNotify ----------------------------
(***************************************************************************)
(* ListenNotifyManager (notify.rs): one LISTEN connection whose            *)
(* notifications are fanned out to subscribers over bounded broadcast      *)
(* channels, reconnection, gap_fill, and shutdown.                         *)
(*                                                                         *)
(* The owner of the manager subscribes and gap-fills, then spawns run,     *)
(* which takes the manager by value: from then on nobody can subscribe or  *)
(* gap-fill.  fanout holds the registry lock, so it is one step; so is     *)
(* queued_event_count, during which the channels can only shrink.          *)
(*                                                                         *)
(* External: PostgreSQL gives the events of an engagement the sequence     *)
(* numbers 1, 2, ... in the order they commit and notifies a session of    *)
(* what commits while its LISTEN is in effect; a tokio broadcast channel   *)
(* overwrites its oldest value when full and then tells the receiver that  *)
(* it lagged.  sqlx: recv and try_recv both wait for a notification and    *)
(* hand out what arrived before they look at a lost connection.  For most  *)
(* losses recv then reconnects and listens again by itself, and try_recv   *)
(* returns None and does so when it is called next; other losses, and a    *)
(* reconnect that fails, are returned as an error.                         *)
(***************************************************************************)
EXTENDS Integers, Sequences, FiniteSetsExt

CONSTANTS
    Engagements, Batches, Subscribers,
    BatchOf,        \* engagements.batch_id
    None,           \* Option::None
    CHANNEL_CAP,
    MaxEvents,      \* bound: events committed for an engagement
    MaxFaults,      \* bound: lost connections and notifications that are no payload,
                    \* calls of gap_fill included
    MaxFailures,    \* bound: counted failures, besides two for each fault
    MaxGapFills     \* bound: calls of gap_fill

ASSUME BatchOfAssumption == BatchOf \in [Engagements -> Batches \cup {None}]
ASSUME NamesAssumption ==
    Engagements \cap Batches = {} /\ None \notin Engagements \cup Batches
ASSUME BoundsAssumption ==
    /\ CHANNEL_CAP \in Nat \ {0}
    /\ MaxEvents \in Nat /\ MaxFaults \in Nat /\ MaxFailures \in Nat /\ MaxGapFills \in Nat

VARIABLES
    phase,          \* where the owner, then run, is
    conn,           \* the session of the listener is up
    wire,           \* notifications sent to the session and not yet handled
    shutdown,       \* the watch channel holds true
    connected_tx,   \* the connected signal has not been sent
    db,             \* db[e]: the last sequence committed for e
    gap,            \* gap[e]: rows a gap_fill of e has still to fan out
    key,            \* key[s]: what s subscribed to
    senders,        \* subscribers whose Sender is in the registry
    alive,          \* alive[s]: the Receiver of s exists
    chan,           \* chan[s]: values in the channel of s
    lagging,        \* lagging[s]: s is to be told that it lagged
    got,            \* got[s]: what s has received
    lag,            \* what handle_notification has counted
    consumer_lag_events, listen_notify_reconnects_total,
    fills, faults,  \* calls of gap_fill, faults so far
    missed,         \* missed[s]: events overwritten in the channel of s (history)
    early, lost     \* early[s]: events committed before the first LISTEN that
                    \* no gap_fill has read for s; events of which the manager
                    \* was never told since (history)

connVars == <<phase, conn, wire, shutdown, connected_tx>>
dbVars   == <<db, gap, fills, faults>>
chanVars == <<chan, lagging, missed>>
subVars  == <<key, alive, got>>
metrics  == <<lag, consumer_lag_events, listen_notify_reconnects_total>>
history  == <<early, lost>>
vars     == <<connVars, dbVars, chanVars, senders, subVars, metrics, history>>

Event(e, n) == [engagement_id |-> e, sequence |-> n]

\* A payload says which event it is of; "live" tells one from the LISTEN
\* connection from one that gap_fill read.
Payload(e, n, live) == [engagement_id |-> e, sequence |-> n, live |-> live]

EventOf(p) == Event(p.engagement_id, p.sequence)

Junk   == Payload(None, 0, TRUE)    \* empty, or not a NotifyPayload
Lagged == Payload(None, 0, FALSE)   \* RecvError::Lagged, in got

Live(p)    == p.engagement_id # None /\ p.live
Events     == [engagement_id : Engagements, sequence : 1..MaxEvents]
Payloads   == [engagement_id : Engagements, sequence : 1..MaxEvents, live : BOOLEAN]
Notified   == {EventOf(wire[i]) : i \in {j \in DOMAIN wire : wire[j] # Junk}}
Committed  == {x \in Events : x.sequence <= db[x.engagement_id]}

\* "listen" is the inner select!, "health" the try_recv of its health check,
\* "count" and "set" what handle_notification does after the fanout.
Listening == phase \in {"listen", "health"}
Handling  == phase \in {"count", "set"}
Running   == phase \in {"check", "connect", "backoff"} \/ Listening \/ Handling

Init ==
    /\ phase = "owned" /\ conn = FALSE /\ wire = <<>> /\ shutdown = FALSE /\ connected_tx = TRUE
    /\ db = [e \in Engagements |-> 0] /\ gap = [e \in Engagements |-> <<>>]
    /\ fills = 0 /\ faults = 0
    /\ key = [s \in Subscribers |-> None] /\ alive = [s \in Subscribers |-> FALSE]
    /\ senders = {}
    /\ chan = [s \in Subscribers |-> <<>>] /\ lagging = [s \in Subscribers |-> FALSE]
    /\ got = [s \in Subscribers |-> <<>>] /\ missed = [s \in Subscribers |-> {}]
    /\ lag = 0 /\ consumer_lag_events = 0 /\ listen_notify_reconnects_total = 0
    /\ early = [s \in Subscribers |-> {}] /\ lost = {}

-----------------------------------------------------------------------------
(* Registry. *)

\* subscribe_engagement and subscribe_batch: a new channel, registered under k.
Subscribe(s, k) ==
    /\ phase = "owned" /\ key[s] = None
    /\ key' = [key EXCEPT ![s] = k]
    /\ alive' = [alive EXCEPT ![s] = TRUE]
    /\ senders' = senders \cup {s}
    /\ early' = [early EXCEPT ![s] = Committed]
    /\ UNCHANGED <<connVars, dbVars, chanVars, got, metrics, lost>>

\* A bug: an engagement without subscribers of its own ends the fanout.
MatchesFirst(p) ==
    LET own == {s \in senders : key[s] = p.engagement_id}
    IN  IF own = {} THEN {}
        ELSE own \cup {s \in senders : key[s] = BatchOf[p.engagement_id]}

\* The senders that fanout tries: those under the engagement of the payload,
\* and those under its batch when it has one.
Matching(p) ==
    {s \in senders : key[s] \in {p.engagement_id, BatchOf[p.engagement_id]} \ {None}}

\* retain: send fails only when the receiver is gone.
Retained(p) == senders \ {s \in Matching(p) : ~alive[s]}

\* A bug: a payload that does not fit is dropped and the receiver not told.
FanoutQuietly(p) ==
    LET sent == {s \in Matching(p) : alive[s]}
        full == {s \in sent : Len(chan[s]) = CHANNEL_CAP}
    IN  /\ senders' = Retained(p)
        /\ chan' = [s \in Subscribers |->
                        IF s \in sent \ full THEN Append(chan[s], p) ELSE chan[s]]
        /\ missed' = [s \in Subscribers |->
                        IF s \in full THEN missed[s] \cup {EventOf(p)} ELSE missed[s]]
        /\ UNCHANGED lagging

Fanout(p) ==
    LET sent == {s \in Matching(p) : alive[s]}
        full == {s \in sent : Len(chan[s]) = CHANNEL_CAP}
    IN  /\ senders' = Retained(p)
        /\ chan' = [s \in Subscribers |->
                        IF s \notin sent THEN chan[s]
                        ELSE Append(IF s \in full THEN Tail(chan[s]) ELSE chan[s], p)]
        /\ lagging' = [s \in Subscribers |-> lagging[s] \/ s \in full]
        /\ missed' = [s \in Subscribers |->
                        IF s \in full THEN missed[s] \cup {EventOf(Head(chan[s]))} ELSE missed[s]]

\* The places taken in the channels ch of the registry sndrs.
QueuedSlots(sndrs, ch) == UNION {{s} \X DOMAIN ch[s] : s \in sndrs}

\* queued_event_count: the lengths of the channels of the registry, summed.
QueuedEventCount(sndrs, ch) == Cardinality(QueuedSlots(sndrs, ch))

-----------------------------------------------------------------------------
(* gap_fill: the rows are read at once and fanned out one by one. *)

\* The rows of e from sequence number first on, in the order of sequence; the
\* subscribers of this moment will be sent them.
SelectRows(e, first) ==
    /\ gap' = [gap EXCEPT ![e] =
                  [i \in 1..(db[e] - first + 1) |-> Payload(e, first + i - 1, FALSE)]]
    /\ fills' = fills + 1
    /\ early' = [s \in Subscribers |->
                    IF s \in senders
                    THEN early[s] \ {x \in Events : x.engagement_id = e /\ x.sequence >= first}
                    ELSE early[s]]
    /\ UNCHANGED <<connVars, db, faults, chanVars, senders, subVars, metrics, lost>>

\* A bug: the manager is shared, so that gap_fill is possible while run listens.
GapSelectShared(e, last_seen) ==
    /\ gap[e] = <<>> /\ fills < MaxGapFills
    /\ gap' = [gap EXCEPT ![e] =
                  [i \in 1..(db[e] - last_seen) |-> Payload(e, last_seen + i, FALSE)]]
    /\ fills' = fills + 1
    /\ UNCHANGED <<connVars, db, faults, chanVars, senders, subVars, metrics, history>>

\* sequence > last_seen.
GapSelect(e, last_seen) ==
    /\ phase = "owned" /\ gap[e] = <<>> /\ fills < MaxGapFills
    /\ SelectRows(e, last_seen + 1)

GapFan(e) ==
    /\ gap[e] # <<>>
    /\ Fanout(Head(gap[e]))
    /\ gap' = [gap EXCEPT ![e] = Tail(@)]
    /\ UNCHANGED <<connVars, db, fills, faults, subVars, metrics, history>>

-----------------------------------------------------------------------------
(* run. *)

\* run(mut self): no borrow of the manager is left.
Run ==
    /\ phase = "owned" /\ \A e \in Engagements : gap[e] = <<>>
    /\ phase' = "check"
    /\ UNCHANGED <<conn, wire, shutdown, connected_tx, dbVars, chanVars, senders, subVars, metrics,
                   history>>

\* run returns: the listener and the registry go with it.
Return ==
    /\ phase' = "stopped" /\ conn' = FALSE /\ wire' = <<>>
    /\ lost' = lost \cup Notified
    /\ senders' = {}
    /\ UNCHANGED <<shutdown, connected_tx, dbVars, chanVars, subVars, metrics, early>>

CheckShutdown ==
    /\ phase = "check" /\ shutdown
    /\ Return

StartConnect ==
    /\ phase = "check" /\ ~shutdown
    /\ phase' = "connect"
    /\ UNCHANGED <<conn, wire, shutdown, connected_tx, dbVars, chanVars, senders, subVars, metrics,
                   history>>

\* connect_and_listen succeeds; the connected signal is sent the first time.
ConnectOk ==
    /\ phase = "connect"
    /\ phase' = "listen" /\ conn' = TRUE /\ wire' = <<>> /\ connected_tx' = FALSE
    /\ UNCHANGED <<shutdown, dbVars, chanVars, senders, subVars, metrics, history>>

\* A connect that failed and a connection that was lost are counted alike.
Reconnect ==
    /\ phase' = "backoff" /\ conn' = FALSE
    /\ listen_notify_reconnects_total' = listen_notify_reconnects_total + 1

ConnectFails ==
    /\ phase = "connect" /\ listen_notify_reconnects_total < 2 * faults + MaxFailures
    /\ Reconnect
    /\ UNCHANGED <<wire, shutdown, connected_tx, dbVars, chanVars, senders, subVars, lag,
                   consumer_lag_events, history>>

\* A bug: the wait after a failure ends only with the process.
BackoffUntilShutdown ==
    /\ phase = "backoff" /\ shutdown
    /\ phase' = "check"
    /\ UNCHANGED <<conn, wire, shutdown, connected_tx, dbVars, chanVars, senders, subVars, metrics,
                   history>>

BackoffOver ==
    /\ phase = "backoff"
    /\ phase' = "check"
    /\ UNCHANGED <<conn, wire, shutdown, connected_tx, dbVars, chanVars, senders, subVars, metrics,
                   history>>

\* A bug: the sleep before a reconnect is the only wait that shutdown ends.
ShutdownOnlyInBackoff ==
    /\ phase = "backoff" /\ shutdown
    /\ Return

\* shutdown.changed() in either select!.  Nothing else awaits it.
ShutdownChanged ==
    /\ phase \in {"backoff", "listen"} /\ shutdown
    /\ Return

\* A bug: the queued events are counted before the fanout.
CountFirst(p) ==
    IF p = Junk
    THEN phase' = "listen" /\ UNCHANGED <<chanVars, senders, lag>>
    ELSE /\ Fanout(p)
         /\ lag' = QueuedEventCount(senders, chan)
         /\ phase' = "set"

\* handle_notification: the fanout, ...
HandleNotification(p) ==
    IF p = Junk
    THEN phase' = "listen" /\ UNCHANGED <<chanVars, senders, lag>>
    ELSE Fanout(p) /\ phase' = "count" /\ UNCHANGED lag

\* ... queued_event_count ...
CountQueued ==
    /\ phase = "count"
    /\ lag' = QueuedEventCount(senders, chan)
    /\ phase' = "set"
    /\ UNCHANGED <<conn, wire, shutdown, connected_tx, dbVars, chanVars, senders, subVars,
                   consumer_lag_events, listen_notify_reconnects_total, history>>

\* ... and the gauge.
SetGauge ==
    /\ phase = "set"
    /\ consumer_lag_events' = lag
    /\ phase' = "listen"
    /\ UNCHANGED <<conn, wire, shutdown, connected_tx, dbVars, chanVars, senders, subVars, lag,
                   listen_notify_reconnects_total, history>>

\* A bug: a notification that is no payload is tried again and again.
RecvRetriesJunk ==
    /\ phase = "listen" /\ wire # <<>> /\ Head(wire) # Junk
    /\ HandleNotification(Head(wire))
    /\ wire' = Tail(wire)
    /\ UNCHANGED <<conn, shutdown, connected_tx, dbVars, subVars,
                   consumer_lag_events, listen_notify_reconnects_total, history>>

\* recv returns a notification.
RecvOk ==
    /\ phase = "listen" /\ wire # <<>>
    /\ HandleNotification(Head(wire))
    /\ wire' = Tail(wire)
    /\ UNCHANGED <<conn, shutdown, connected_tx, dbVars, subVars,
                   consumer_lag_events, listen_notify_reconnects_total, history>>

\* health_tick: the select! is left for try_recv.
HealthTick ==
    /\ phase = "listen"
    /\ phase' = "health"
    /\ UNCHANGED <<conn, wire, shutdown, connected_tx, dbVars, chanVars, senders, subVars, metrics,
                   history>>

\* A bug: the health check drops the notification it receives.
HealthCheckDiscards ==
    /\ phase = "health" /\ wire # <<>>
    /\ wire' = Tail(wire)
    /\ phase' = "listen"
    /\ UNCHANGED <<conn, shutdown, connected_tx, dbVars, chanVars, senders, subVars, metrics,
                   history>>

\* try_recv returns a notification.
HealthCheckOk ==
    /\ phase = "health" /\ wire # <<>>
    /\ HandleNotification(Head(wire))
    /\ wire' = Tail(wire)
    /\ UNCHANGED <<conn, shutdown, connected_tx, dbVars, subVars,
                   consumer_lag_events, listen_notify_reconnects_total, history>>

\* The connection is gone and all that came over it has been handed out.
Disconnected == Listening /\ ~conn /\ wire = <<>>

\* try_recv returns None, which the health check takes for a healthy connection.
HealthCheckNone ==
    /\ Disconnected /\ phase = "health"
    /\ phase' = "listen"
    /\ UNCHANGED <<conn, wire, shutdown, connected_tx, dbVars, chanVars, senders, subVars, metrics,
                   history>>

\* recv or try_recv reconnects and listens again, and waits on.
Relisten ==
    /\ Disconnected
    /\ conn' = TRUE
    /\ UNCHANGED <<phase, wire, shutdown, connected_tx, dbVars, chanVars, senders, subVars, metrics,
                   history>>

\* recv or try_recv returns an error.
ConnectionError ==
    /\ Disconnected
    /\ Reconnect
    /\ UNCHANGED <<wire, shutdown, connected_tx, dbVars, chanVars, senders, subVars, lag,
                   consumer_lag_events, history>>

-----------------------------------------------------------------------------
(* The rest of the process and the database. *)

\* The event of e with sequence number n commits; the trigger notifies the
\* session if it listens.
CommitRow(e, n) ==
    /\ db' = [db EXCEPT ![e] = n]
    /\ wire' = IF conn THEN Append(wire, Payload(e, n, TRUE)) ELSE wire
    /\ early' = IF connected_tx THEN [s \in Subscribers |-> early[s] \cup {Event(e, n)}] ELSE early
    /\ lost' = IF conn \/ connected_tx THEN lost ELSE lost \cup {Event(e, n)}
    /\ UNCHANGED <<phase, conn, shutdown, connected_tx, gap, fills, faults, chanVars, senders,
                   subVars, metrics>>

\* Events of an engagement commit with the sequence numbers 1, 2, ...
Commit(e) == db[e] < MaxEvents /\ CommitRow(e, db[e] + 1)

\* Somebody else notifies on the channel.
NotifyJunk ==
    /\ conn /\ fills + faults < MaxFaults
    /\ wire' = Append(wire, Junk) /\ faults' = faults + 1
    /\ UNCHANGED <<phase, conn, shutdown, connected_tx, db, gap, fills, chanVars, senders, subVars,
                   metrics, history>>

\* The session ends; the first n notifications had already arrived.
LoseConnection(n) ==
    /\ conn /\ fills + faults < MaxFaults
    /\ faults' = faults + 1
    /\ conn' = FALSE
    /\ wire' = SubSeq(wire, 1, n)
    /\ lost' = lost \cup {EventOf(wire[i]) : i \in {j \in n + 1..Len(wire) : wire[j] # Junk}}
    /\ UNCHANGED <<phase, shutdown, connected_tx, db, gap, fills, chanVars, senders, subVars,
                   metrics, early>>

Shutdown ==
    /\ ~shutdown
    /\ shutdown' = TRUE
    /\ UNCHANGED <<phase, conn, wire, connected_tx, dbVars, chanVars, senders, subVars, metrics,
                   history>>

\* Receiver::recv of a subscriber: it is told that it lagged, then reads on.
Read(s) ==
    /\ alive[s] /\ (lagging[s] \/ chan[s] # <<>>)
    /\ IF lagging[s]
       THEN /\ got' = [got EXCEPT ![s] = Append(@, Lagged)]
            /\ UNCHANGED chan
       ELSE /\ got' = [got EXCEPT ![s] = Append(@, Head(chan[s]))]
            /\ chan' = [chan EXCEPT ![s] = Tail(@)]
    /\ lagging' = [lagging EXCEPT ![s] = FALSE]
    /\ UNCHANGED <<connVars, dbVars, missed, senders, key, alive, metrics, history>>

\* A subscriber drops its receiver, which empties its channel.
DropReceiver(s) ==
    /\ alive[s]
    /\ alive' = [alive EXCEPT ![s] = FALSE]
    /\ chan' = [chan EXCEPT ![s] = <<>>]
    /\ lagging' = [lagging EXCEPT ![s] = FALSE]
    /\ UNCHANGED <<connVars, dbVars, missed, senders, key, got, metrics, history>>

\* The manager, its owner, its subscribers and its connection.
ManagerNext ==
    \/ \E s \in Subscribers, k \in Engagements \cup Batches : Subscribe(s, k)
    \/ \E e \in Engagements : \E last_seen \in 0..db[e] : GapSelect(e, last_seen)
    \/ \E e \in Engagements : GapFan(e)
    \/ Run \/ CheckShutdown \/ StartConnect \/ ConnectOk \/ ConnectFails \/ BackoffOver
    \/ ShutdownChanged \/ RecvOk \/ HealthTick \/ HealthCheckOk \/ HealthCheckNone
    \/ CountQueued \/ SetGauge \/ Relisten \/ ConnectionError
    \/ NotifyJunk \/ Shutdown
    \/ \E n \in 0..Len(wire) : LoseConnection(n)
    \/ \E s \in Subscribers : Read(s) \/ DropReceiver(s)

Next == ManagerNext \/ \E e \in Engagements : Commit(e)

\* Fairness: tokio polls the task of run, select! picks among the branches
\* that are ready at random, connecting ends, the loss of a connection is
\* reported in the end, and a subscriber that keeps its receiver reads it.  No
\* notification has to come.
Fairness ==
    /\ WF_vars(CheckShutdown) /\ WF_vars(StartConnect) /\ WF_vars(ConnectOk \/ ConnectFails)
    /\ WF_vars(BackoffOver) /\ WF_vars(ShutdownChanged)
    /\ WF_vars(RecvOk) /\ WF_vars(HealthCheckOk) /\ WF_vars(CountQueued) /\ WF_vars(SetGauge)
    /\ WF_vars(Relisten \/ ConnectionError)
    /\ \A s \in Subscribers : WF_vars(Read(s))

Spec == Init /\ [][Next]_vars /\ Fairness

-----------------------------------------------------------------------------
(* Properties. *)

\* Type invariant.
TypeOK ==
    /\ phase \in {"owned", "check", "connect", "listen", "health", "count", "set", "backoff",
                  "stopped"}
    /\ conn \in BOOLEAN /\ connected_tx \in BOOLEAN
    /\ wire \in Seq(Payloads \cup {Junk})
    /\ db \in [Engagements -> 0..MaxEvents]
    /\ gap \in [Engagements -> Seq(Payloads)]
    /\ key \in [Subscribers -> Engagements \cup Batches \cup {None}]
    /\ senders \subseteq Subscribers
    /\ alive \in [Subscribers -> BOOLEAN] /\ lagging \in [Subscribers -> BOOLEAN]
    /\ chan \in [Subscribers -> Seq(Payloads)]
    /\ got \in [Subscribers -> Seq(Payloads \cup {Lagged})]
    /\ listen_notify_reconnects_total \in Nat
    /\ missed \in [Subscribers -> SUBSET Events]
    /\ early \in [Subscribers -> SUBSET Events]

Wants(s, x) == key[s] \in {x.engagement_id, BatchOf[x.engagement_id]} \ {None}

Holds(q, x) == \E i \in DOMAIN q : EventOf(q[i]) = x

\* No silent loss: an event that committed after the first LISTEN, or was read
\* by a gap_fill since s subscribed, is, for a subscriber s that wants it and
\* keeps its receiver, still to be fanned out, on the wire, in its channel,
\* received, overwritten because it lagged, or lost with a connection.
NoSilentLoss ==
    \A s \in Subscribers, x \in Committed :
        alive[s] /\ Wants(s, x) /\ x \notin early[s] \cup lost
            => \/ Holds(wire, x) \/ Holds(gap[x.engagement_id], x)
               \/ Holds(chan[s], x) \/ Holds(got[s], x)
               \/ x \in missed[s]

\* "the metric reflects the current buffered count, not the pre-fanout
\* count": whenever no notification is being handled and a live event is
\* queued for anyone, consumer_lag_events is at least what is queued, while
\* subscribers read on, drop their receivers and overflow.
GaugeNeverUnderstates ==
    ~Handling /\ (\E s \in senders : \E i \in DOMAIN chan[s] : chan[s][i].live)
        => consumer_lag_events >= QueuedEventCount(senders, chan)

\* An event from the LISTEN connection is newer than everything the
\* subscriber was sent of that engagement before, whether live or by
\* gap_fill: it can be told from a repetition by its sequence.
LiveEventsAdvance ==
    \A s \in Subscribers :
        LET stream == got[s] \o chan[s]
        IN  \A i, j \in DOMAIN stream :
                i < j /\ Live(stream[j]) /\ stream[i].engagement_id = stream[j].engagement_id
                    => stream[i].sequence < stream[j].sequence

\* A hole in the sequences that a subscriber reads of an engagement is
\* announced by Lagged in the place of the hole, or is of events the manager
\* was never told of.
NoUnannouncedHole ==
    \A s \in Subscribers : \A i, j \in DOMAIN got[s] :
        i < j /\ Live(got[s][j]) /\ got[s][i].engagement_id = got[s][j].engagement_id
            => \A n \in got[s][i].sequence + 1 .. got[s][j].sequence - 1 :
                   LET x == Event(got[s][j].engagement_id, n)
                   IN  \/ Holds(got[s], x) \/ x \in early[s] \cup lost
                       \/ \E k \in i..j : got[s][k] = Lagged

\* Every event that commits reaches each subscriber that wants it and keeps
\* its receiver, as a payload or as a lag, unless the manager never hears of it.
EventsReachSubscribers ==
    \A s \in Subscribers, x \in Events :
        (Wants(s, x) /\ Holds(wire, x))
            ~> (Holds(got[s], x) \/ x \in missed[s] \cup lost \/ ~alive[s])

\* A connection that was lost is replaced, by sqlx or by the loop of run and
\* however often that fails, or run has returned.
Reconnects == (Listening /\ ~conn) ~> ((Listening /\ conn) \/ phase = "stopped")

\* "try_recv() is non-blocking": after the shutdown signal run returns, ...
RunReturns == (shutdown /\ Running) ~> (phase = "stopped")

\* ... and it does unless a health check, whose try_recv in fact waits for a
\* notification, waits for ever.
ReturnsUnlessWaiting == []<>(phase # "health") => RunReturns

-----------------------------------------------------------------------------
(* What the comments of notify.rs say. *)

\* "On reconnect the manager replays events from the DB": an event that
\* committed while the connection was down reaches its subscribers after the
\* manager listens again.
ReplayOnReconnect ==
    \A s \in Subscribers, x \in Events :
        (phase = "listen" /\ conn /\ s \in senders /\ Wants(s, x) /\ x \in lost)
            ~> (Holds(got[s], x) \/ x \in missed[s] \/ ~alive[s] \/ phase = "stopped")

\* "If the channel is full the subscriber is dropped": fanout keeps no
\* subscriber for which it overwrites an event.
SlowSubscriberDropped ==
    [][\A s \in senders : missed'[s] # missed[s] => s \notin senders']_vars
=============================================================================
