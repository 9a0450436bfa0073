------------------------- MODULE ListenNotifyProofs -------------------------
(***************************************************************************)
(* Proofs about ListenNotify: for any engagements, batches, subscribers,   *)
(* channel capacity and faults of the connection, no event is lost         *)
(* silently, live events arrive in order and no hole in them goes          *)
(* unannounced.                                                            *)
(***************************************************************************)
EXTENDS ListenNotify, TLAPS

-----------------------------------------------------------------------------
(* The inductive invariant. *)

\* run is in its inner loop: it has a listener.
Attending == phase \in {"listen", "health", "count", "set"}

\* What the phase of the manager says of its connection: there is a session
\* only in the inner loop, and notifications only there; a gap_fill is over
\* when run begins.
PhaseInv ==
    /\ conn => Attending
    /\ Attending => ~ connected_tx
    /\ phase = "owned" => connected_tx
    /\ ~ Attending => wire = <<>>
    /\ phase # "owned" => \A e \in Engagements : gap[e] = <<>>

\* A subscriber that keeps its receiver is in the registry while there is one.
RegistryInv ==
    \A s \in Subscribers : alive[s] => key[s] # None /\ (phase # "stopped" => s \in senders)

IInv == TypeOK /\ PhaseInv /\ RegistryInv /\ NoSilentLoss

\* Where an event is.
OnWire(x)     == Holds(wire, x)
InGap(x)      == Holds(gap[x.engagement_id], x)
InChan(s, x)  == Holds(chan[s], x)
InGot(s, x)   == Holds(got[s], x)

\* s is owed x.
Owed(s, x) == alive[s] /\ Wants(s, x) /\ x \in Committed /\ x \notin early[s] \cup lost

Safe(s, x) == Owed(s, x) => OnWire(x) \/ InGap(x) \/ InChan(s, x) \/ InGot(s, x) \/ x \in missed[s]

-----------------------------------------------------------------------------
(* Lemmas about sequences and payloads. *)

LEMMA TailFacts ==
  ASSUME NEW S, NEW q \in Seq(S), q # <<>>
  PROVE  /\ Head(q) \in S /\ Tail(q) \in Seq(S) /\ Len(Tail(q)) = Len(q) - 1
         /\ Len(q) > 0 /\ q[1] = Head(q)
         /\ \A i \in DOMAIN Tail(q) : i + 1 \in DOMAIN q /\ Tail(q)[i] = q[i + 1]
         /\ \A i \in DOMAIN q : i # 1 => i - 1 \in DOMAIN Tail(q) /\ Tail(q)[i - 1] = q[i]
OBVIOUS

LEMMA AppendFacts ==
  ASSUME NEW S, NEW q \in Seq(S), NEW p \in S
  PROVE  /\ Append(q, p) \in Seq(S) /\ Len(Append(q, p)) = Len(q) + 1
         /\ \A i \in DOMAIN q : i \in DOMAIN Append(q, p) /\ Append(q, p)[i] = q[i]
         /\ Len(q) + 1 \in DOMAIN Append(q, p) /\ Append(q, p)[Len(q) + 1] = p
         /\ \A i \in DOMAIN Append(q, p) : i \in DOMAIN q \/ i = Len(q) + 1
OBVIOUS

LEMMA Arithmetic ==
  /\ \A k, l, m \in Nat : k <= l /\ l <= m => k <= m
  /\ \A k, l \in Nat : k <= l => k < l + 1
OBVIOUS

LEMMA NoIndex == \A i \in DOMAIN << >> : FALSE
OBVIOUS

\* a is q, of length n, followed by p.
Extends(a, q, n, p) ==
    /\ n \in Nat
    /\ \A i \in DOMAIN q : i \in 1..n /\ a[i] = q[i]
    /\ a[n + 1] = p
    /\ \A i \in DOMAIN a : i \in DOMAIN q \/ i = n + 1

LEMMA AppendExtends ==
  ASSUME NEW S, NEW q \in Seq(S), NEW p \in S
  PROVE  Extends(Append(q, p), q, Len(q), p)
BY DEF Extends

\* q is g, of length n, followed by c.
Joins(q, g, n, c) ==
    /\ n \in Nat
    /\ \A k \in DOMAIN g : k \in 1..n
    /\ \A k \in DOMAIN q : /\ k \in Nat
                           /\ \/ k \in DOMAIN g /\ q[k] = g[k]
                              \/ k > n /\ k - n \in DOMAIN c /\ q[k] = c[k - n]

LEMMA ConcatJoins ==
  ASSUME NEW S, NEW R, NEW g \in Seq(S), NEW c \in Seq(R)
  PROVE  Joins(g \o c, g, Len(g), c)
BY DEF Joins

LEMMA HoldsAppend ==
  ASSUME NEW S, NEW q \in Seq(S), NEW p \in S, NEW x
  PROVE  /\ Holds(q, x) => Holds(Append(q, p), x)
         /\ EventOf(p) = x => Holds(Append(q, p), x)
BY AppendFacts DEF Holds

LEMMA HoldsTail ==
  ASSUME NEW S, NEW q \in Seq(S), q # <<>>, NEW x
  PROVE  Holds(q, x) => EventOf(Head(q)) = x \/ Holds(Tail(q), x)
<1> SUFFICES ASSUME NEW i \in DOMAIN q, EventOf(q[i]) = x
             PROVE  EventOf(Head(q)) = x \/ Holds(Tail(q), x)
  BY Zenon DEF Holds
<1>1. CASE i = 1
  BY Zenon, <1>1, TailFacts
<1>2. CASE i # 1
  <2>1. i - 1 \in DOMAIN Tail(q) /\ Tail(q)[i - 1] = q[i]
    BY Zenon, <1>2, TailFacts
  <2> QED  BY Zenon, <2>1 DEF Holds
<1> QED  BY Zenon, <1>1, <1>2

LEMMA PayloadFacts ==
  /\ \A p \in Payloads : EventOf(p) \in Events /\ p # Junk /\ p # Lagged
  /\ \A e \in Engagements, n \in 1..MaxEvents, b \in BOOLEAN :
         Payload(e, n, b) \in Payloads /\ EventOf(Payload(e, n, b)) = Event(e, n)
  /\ \A p \in Payloads \cup {Junk} : p # Junk => p \in Payloads
BY NamesAssumption, BoundsAssumption
   DEF Payloads, EventOf, Events, Event, Payload, Junk, Lagged

\* IInv holds of the initial states.
LEMMA InitInv == Init => IInv
<1> SUFFICES ASSUME Init PROVE IInv
  BY Zenon
<1>1. TypeOK
  <2>1. <<>> \in Seq(Payloads) /\ <<>> \in Seq(Payloads \cup {Junk})
        /\ <<>> \in Seq(Payloads \cup {Lagged})
    OBVIOUS
  <2>2. 0 \in 0..MaxEvents
    BY BoundsAssumption
  <2> QED  BY Zenon, <2>1, <2>2 DEF Init, TypeOK
<1>2. PhaseInv
  BY Zenon DEF Init, PhaseInv, Attending
<1>3. RegistryInv /\ NoSilentLoss
  BY Zenon DEF Init, RegistryInv, NoSilentLoss
<1> QED  BY Zenon, <1>1, <1>2, <1>3 DEF IInv

-----------------------------------------------------------------------------
(* The fanout of a payload. *)

LEMMA FanoutOne ==
  ASSUME TypeOK, NEW p \in Payloads, Fanout(p), NEW s \in Subscribers
  PROVE  /\ chan'[s] \in Seq(Payloads)
         /\ \/ chan'[s] = chan[s] /\ missed'[s] = missed[s]
            \/ chan'[s] = Append(chan[s], p) /\ missed'[s] = missed[s]
            \/ /\ chan[s] # <<>> /\ chan'[s] = Append(Tail(chan[s]), p)
               /\ missed'[s] = missed[s] \cup {EventOf(Head(chan[s]))}
         /\ s \in senders /\ alive[s] => s \in senders'
         /\ s \in Matching(p) /\ alive[s] =>
                \/ chan'[s] = Append(chan[s], p)
                \/ chan[s] # <<>> /\ chan'[s] = Append(Tail(chan[s]), p)
<1> DEFINE sent == {t \in Matching(p) : alive[t]}
           full == {t \in sent : Len(chan[t]) = CHANNEL_CAP}
<1>1. chan'[s] = IF s \notin sent THEN chan[s]
                 ELSE Append(IF s \in full THEN Tail(chan[s]) ELSE chan[s], p)
  BY Zenon DEF Fanout
<1>2. missed'[s] = IF s \in full THEN missed[s] \cup {EventOf(Head(chan[s]))} ELSE missed[s]
  BY Zenon DEF Fanout
<1>3. chan[s] \in Seq(Payloads)
  BY Zenon DEF TypeOK
<1>4. s \in full => chan[s] # <<>>
  BY Zenon, BoundsAssumption
<1>5. s \in senders /\ alive[s] => s \in senders'
  BY Zenon DEF Fanout, Retained
<1>6. s \in full => s \in sent
  BY Zenon
<1>7. s \in Matching(p) /\ alive[s] => s \in sent
  BY Zenon
<1> HIDE DEF sent, full
<1>8. CASE s \notin sent
  BY Zenon, <1>1, <1>2, <1>3, <1>5, <1>6, <1>7, <1>8
<1>9. CASE s \in full
  <2>1. Tail(chan[s]) \in Seq(Payloads)
    BY Zenon, <1>3, <1>4, <1>9, TailFacts
  <2>2. chan'[s] = Append(Tail(chan[s]), p)
    BY Zenon, <1>1, <1>6, <1>9
  <2>3. chan'[s] \in Seq(Payloads)
    BY <2>1, <2>2, AppendFacts
  <2> QED  BY Zenon, <1>2, <1>4, <1>5, <1>9, <2>2, <2>3
<1>10. CASE s \in sent /\ s \notin full
  <2>1. chan'[s] = Append(chan[s], p)
    BY Zenon, <1>1, <1>10
  <2>2. chan'[s] \in Seq(Payloads)
    BY <1>3, <2>1, AppendFacts
  <2> QED  BY Zenon, <1>2, <1>5, <1>10, <2>1, <2>2
<1> QED  BY Zenon, <1>8, <1>9, <1>10

LEMMA FanoutTypes ==
  ASSUME TypeOK, NEW p \in Payloads, Fanout(p)
  PROVE  /\ chan' \in [Subscribers -> Seq(Payloads)] /\ senders' \subseteq senders
         /\ lagging' \in [Subscribers -> BOOLEAN] /\ missed' \in [Subscribers -> SUBSET Events]
<1>1. \A s \in Subscribers : chan'[s] \in Seq(Payloads)
  BY Zenon, FanoutOne
<1>2. chan' \in [Subscribers -> Seq(Payloads)]
  BY Zenon, <1>1 DEF Fanout
<1>3. \A s \in Subscribers : missed'[s] \subseteq Events
  <2> TAKE s \in Subscribers
  <2>1. missed[s] \subseteq Events /\ chan[s] \in Seq(Payloads)
    BY Zenon DEF TypeOK
  <2>2. chan[s] # <<>> => EventOf(Head(chan[s])) \in Events
    <3>1. chan[s] # <<>> => Head(chan[s]) \in Payloads
      BY Zenon, <2>1, TailFacts
    <3> QED  BY Zenon, <3>1, PayloadFacts
  <2>3. missed'[s] = missed[s]
        \/ (chan[s] # <<>> /\ missed'[s] = missed[s] \cup {EventOf(Head(chan[s]))})
    BY Zenon, FanoutOne
  <2> QED  BY Zenon, <2>1, <2>2, <2>3
<1>4. missed' \in [Subscribers -> SUBSET Events]
  BY Zenon, <1>3 DEF Fanout
<1>5. lagging' \in [Subscribers -> BOOLEAN]
  BY Zenon DEF Fanout, TypeOK
<1>6. senders' \subseteq senders
  BY Zenon DEF Fanout, Retained
<1> QED  BY Zenon, <1>2, <1>4, <1>5, <1>6

\* Nothing that s has in its channel goes but by being overwritten, and a
\* subscriber that wants p has it.
LEMMA FanoutKeeps ==
  ASSUME TypeOK, NEW p \in Payloads, Fanout(p), NEW s \in Subscribers, NEW x \in Events
  PROVE  /\ InChan(s, x) => InChan(s, x)' \/ x \in missed'[s]
         /\ x \in missed[s] => x \in missed'[s]
         /\ s \in senders /\ alive[s] /\ Wants(s, x) /\ EventOf(p) = x => InChan(s, x)'
<1>1. PICK c, d : c = chan[s] /\ d = chan'[s]
  BY Zenon
<1>2. c \in Seq(Payloads)
  BY Zenon, <1>1 DEF TypeOK
<1>3. \/ d = c /\ missed'[s] = missed[s]
      \/ d = Append(c, p) /\ missed'[s] = missed[s]
      \/ /\ c # <<>> /\ d = Append(Tail(c), p)
         /\ missed'[s] = missed[s] \cup {EventOf(Head(c))}
  BY Zenon, <1>1, FanoutOne
<1>4. s \in Matching(p) /\ alive[s] => d = Append(c, p) \/ (c # <<>> /\ d = Append(Tail(c), p))
  BY Zenon, <1>1, FanoutOne
<1>5. InChan(s, x) <=> Holds(c, x)
  BY Zenon, <1>1 DEF InChan, Holds
<1>6. InChan(s, x)' <=> Holds(d, x)
  BY Zenon, <1>1 DEF InChan, Holds
<1>7. c # <<>> => Tail(c) \in Seq(Payloads)
  BY Zenon, <1>2, TailFacts
<1>8. Holds(c, x) => Holds(d, x) \/ x \in missed'[s]
  <2>1. CASE d = c
    BY Zenon, <2>1
  <2>2. CASE d = Append(c, p)
    BY Zenon, <2>2, <1>2, HoldsAppend
  <2>3. CASE c # <<>> /\ d = Append(Tail(c), p) /\ missed'[s] = missed[s] \cup {EventOf(Head(c))}
    <3>1. Holds(c, x) => EventOf(Head(c)) = x \/ Holds(Tail(c), x)
      BY Zenon, <2>3, <1>2, HoldsTail
    <3>2. Holds(Tail(c), x) => Holds(d, x)
      BY Zenon, <2>3, <1>7, HoldsAppend
    <3> QED  BY Zenon, <2>3, <3>1, <3>2
  <2> QED  BY Zenon, <1>3, <2>1, <2>2, <2>3
<1>9. x \in missed[s] => x \in missed'[s]
  BY Zenon, <1>3
<1>10. ASSUME s \in senders, alive[s], Wants(s, x), EventOf(p) = x PROVE Holds(d, x)
  <2>1. p.engagement_id = x.engagement_id
    BY Zenon, <1>10 DEF EventOf, Event
  <2>2. s \in Matching(p)
    BY Zenon, <2>1, <1>10 DEF Matching, Wants
  <2>3. CASE d = Append(c, p)
    BY Zenon, <2>3, <1>2, <1>10, HoldsAppend
  <2>4. CASE c # <<>> /\ d = Append(Tail(c), p)
    BY Zenon, <2>4, <1>7, <1>10, HoldsAppend
  <2> QED  BY Zenon, <1>4, <1>10, <2>2, <2>3, <2>4
<1> QED  BY Zenon, <1>5, <1>6, <1>8, <1>9, <1>10

-----------------------------------------------------------------------------
(* Each action keeps the invariant. *)

\* The rows that gap_fill reads.
GapRows(e, first, last) == [i \in 1..(last - first + 1) |-> Payload(e, first + i - 1, FALSE)]

\* gap_fill reads payloads, and all of the events that it is after.
LEMMA GapRowsFacts ==
  ASSUME NEW e \in Engagements, NEW first \in 1..(MaxEvents + 1), NEW last \in 0..MaxEvents,
         first <= last + 1
  PROVE  /\ GapRows(e, first, last) \in Seq(Payloads)
         /\ \A n \in first..last : Holds(GapRows(e, first, last), Event(e, n))
<1> DEFINE rows == GapRows(e, first, last)
<1>1. MaxEvents \in Nat /\ first \in Nat /\ last \in Nat
  BY BoundsAssumption
<1>2. last - first + 1 \in Nat
  BY <1>1
<1>3. \A i \in 1..(last - first + 1) : first + i - 1 \in 1..MaxEvents
  BY <1>1
<1>4. \A i \in 1..(last - first + 1) : Payload(e, first + i - 1, FALSE) \in Payloads
  BY Zenon, <1>3, PayloadFacts
<1>5. rows \in Seq(Payloads)
  <2>1. PICK n \in Nat : n = last - first + 1
    BY Zenon, <1>2
  <2>2. rows \in [1..n -> Payloads]
    BY Zenon, <2>1, <1>4 DEF GapRows
  <2> HIDE DEF rows
  <2> QED  BY <2>2
<1>6. ASSUME NEW n \in first..last PROVE Holds(rows, Event(e, n))
  <2>1. n - first + 1 \in 1..(last - first + 1) /\ first + (n - first + 1) - 1 = n
    BY <1>1
  <2>2. n - first + 1 \in DOMAIN rows
    BY Zenon, <2>1 DEF GapRows
  <2>3. rows[n - first + 1] = Payload(e, n, FALSE)
    BY Zenon, <2>1 DEF GapRows
  <2>4. EventOf(rows[n - first + 1]) = Event(e, n)
    BY <2>3 DEF EventOf, Event, Payload
  <2> QED  BY Zenon, <2>2, <2>4 DEF Holds
<1> QED  BY Zenon, <1>5, <1>6

\* The steps of the inner loop that move no notification.
Quiet == HealthTick \/ HealthCheckNone \/ CountQueued \/ SetGauge \/ Relisten

LEMMA QuietStep ==
  ASSUME Quiet
  PROVE  /\ Attending /\ Attending' /\ conn' \in {conn, TRUE}
         /\ UNCHANGED <<wire, connected_tx, db, gap, key, senders, alive, lagging, chan, got,
                        listen_notify_reconnects_total, missed, early, lost>>
<1> USE DEF Attending, dbVars, chanVars, subVars, metrics, history
<1>1. CASE HealthTick  BY Zenon, <1>1 DEF HealthTick
<1>2. CASE HealthCheckNone  BY Zenon, <1>2 DEF HealthCheckNone
<1>3. CASE CountQueued  BY Zenon, <1>3 DEF CountQueued
<1>4. CASE SetGauge  BY Zenon, <1>4 DEF SetGauge
<1>5. CASE Relisten  BY Zenon, <1>5 DEF Relisten, Disconnected, Listening
<1> QED  BY Zenon, <1>1, <1>2, <1>3, <1>4, <1>5 DEF Quiet

\* Every step keeps IInv.
LEMMA NextInv == IInv /\ [Next]_vars => IInv'
<1>SafeIsNoSilentLoss. NoSilentLoss <=> \A s \in Subscribers, x \in Events : Safe(s, x)
  BY Zenon DEF NoSilentLoss, Safe, Owed, Committed, OnWire, InGap, InChan, InGot

<1>SafeIsNoSilentLossPrime. NoSilentLoss' <=> \A s \in Subscribers, x \in Events : Safe(s, x)'
  BY Zenon DEF NoSilentLoss, Safe, Owed, Committed, OnWire, InGap, InChan, InGot

\* What is owed to a subscriber is safe after a step in which nothing new is
\* owed and nothing leaves where it is.
<1>Kept.
    ASSUME IInv,
           \A s \in Subscribers, x \in Events : Owed(s, x)' =>
               /\ Owed(s, x)
               /\ OnWire(x) => OnWire(x)' \/ InChan(s, x)'
               /\ InGap(x) => InGap(x)' \/ InChan(s, x)'
               /\ InChan(s, x) => InChan(s, x)' \/ InGot(s, x)' \/ x \in missed'[s]
               /\ InGot(s, x) => InGot(s, x)'
               /\ x \in missed[s] => x \in missed'[s]
    PROVE  NoSilentLoss'
  <2> USE <1>Kept
  <2>1. \A s \in Subscribers, x \in Events : Safe(s, x)
    BY Zenon, <1>SafeIsNoSilentLoss DEF IInv
  <2>2. \A s \in Subscribers, x \in Events : Safe(s, x)'
    BY Zenon, <2>1 DEF Safe
  <2> QED  BY Zenon, <2>2, <1>SafeIsNoSilentLossPrime

<1>SubscribeInv.
    ASSUME IInv, NEW s \in Subscribers, NEW k \in Engagements \cup Batches, Subscribe(s, k)
    PROVE  IInv'
  <2> USE <1>SubscribeInv
  <2> USE DEF Subscribe, connVars, dbVars, chanVars, metrics
  <2>1. TypeOK'
    <3>1. Committed \subseteq Events
      BY Zenon DEF Committed
    <3> QED  BY Zenon, <3>1 DEF IInv, TypeOK
  <2>2. PhaseInv'
    BY Zenon DEF IInv, PhaseInv, Attending
  <2>3. RegistryInv'
    BY Zenon, NamesAssumption DEF IInv, TypeOK, RegistryInv
  <2>4. ASSUME NEW r \in Subscribers, NEW x \in Events, Owed(r, x)'
        PROVE  r # s /\ Owed(r, x)
    <3>1. Committed' = Committed
      BY Zenon DEF Committed
    <3>2. r # s
      BY Zenon, <2>4, <3>1 DEF Owed, IInv, TypeOK
    <3> QED  BY Zenon, <2>4, <3>1, <3>2 DEF Owed, Wants, IInv, TypeOK
  <2>5. NoSilentLoss'
    <3>1. \A x \in Events : (OnWire(x)' <=> OnWire(x)) /\ (InGap(x)' <=> InGap(x))
      BY Zenon DEF OnWire, InGap, Holds
    <3>2. \A r \in Subscribers, x \in Events :
              (InChan(r, x)' <=> InChan(r, x)) /\ (InGot(r, x)' <=> InGot(r, x))
      BY Zenon DEF InChan, InGot, Holds
    <3> QED  BY Zenon, <2>4, <3>1, <3>2, <1>Kept
  <2> QED  BY Zenon, <2>1, <2>2, <2>3, <2>5 DEF IInv

\* Steps of the loop of run that touch neither a channel nor the registry.
<1>PhaseStep.
    ASSUME IInv, TypeOK', PhaseInv', phase = "stopped" => phase' = "stopped",
           wire' = wire \/ wire = <<>>,
           UNCHANGED <<db, gap, key, senders, alive, chan, got, missed, early, lost>>
    PROVE  IInv'
  <2> USE <1>PhaseStep
  <2>1. RegistryInv'
    BY Zenon DEF IInv, RegistryInv
  <2>2. \A x \in Events : OnWire(x) => OnWire(x)'
    BY DEF OnWire, Holds
  <2>3. \A s \in Subscribers, x \in Events :
            /\ Owed(s, x)' <=> Owed(s, x)
            /\ InGap(x)' <=> InGap(x)
            /\ InChan(s, x)' <=> InChan(s, x)
            /\ InGot(s, x)' <=> InGot(s, x)
    BY Zenon DEF Owed, Wants, Committed, InGap, InChan, InGot, Holds
  <2>4. NoSilentLoss'
    BY Zenon, <2>2, <2>3, <1>Kept
  <2> QED  BY Zenon, <2>1, <2>4 DEF IInv

<1>LoopInv.
    ASSUME IInv,
           \/ Run \/ StartConnect \/ ConnectOk \/ ConnectFails \/ BackoffOver \/ ConnectionError
           \/ Shutdown \/ Quiet
    PROVE  IInv'
  <2> USE <1>LoopInv
  <2> USE DEF dbVars, chanVars, subVars, metrics, history, IInv
  <2>1. CASE Run
    <3>1. TypeOK' /\ PhaseInv'  BY Zenon, <2>1 DEF Run, TypeOK, PhaseInv, Attending
    <3> QED  BY Zenon, <2>1, <3>1, <1>PhaseStep DEF Run
  <2>2. CASE StartConnect
    <3>1. TypeOK' /\ PhaseInv'  BY Zenon, <2>2 DEF StartConnect, TypeOK, PhaseInv, Attending
    <3> QED  BY Zenon, <2>2, <3>1, <1>PhaseStep DEF StartConnect
  <2>3. CASE ConnectOk
    <3>1. wire = <<>>  BY Zenon, <2>3 DEF ConnectOk, PhaseInv, Attending
    <3>2. TypeOK' /\ PhaseInv'  BY Zenon, <2>3, <3>1 DEF ConnectOk, TypeOK, PhaseInv, Attending
    <3> QED  BY Zenon, <2>3, <3>1, <3>2, <1>PhaseStep DEF ConnectOk
  <2>4. CASE ConnectFails
    <3>a. listen_notify_reconnects_total' \in Nat
      BY <2>4 DEF ConnectFails, Reconnect, TypeOK
    <3>b. /\ phase \in {"connect", "listen", "health"} /\ phase' = "backoff" /\ conn' = FALSE /\ wire' = <<>>
          /\ UNCHANGED <<wire, connected_tx, db, gap, key, senders, alive, lagging, chan, got, missed,
                         early, lost>>
      BY Zenon, <2>4 DEF ConnectFails, Reconnect, PhaseInv, Attending
    <3>c. TypeOK'  BY Zenon, <3>a, <3>b DEF TypeOK
    <3>d. PhaseInv'  BY Zenon, <3>b DEF PhaseInv, Attending
    <3>1. TypeOK' /\ PhaseInv'  BY Zenon, <3>c, <3>d
    <3> QED  BY Zenon, <3>1, <3>b, <1>PhaseStep
  <2>5. CASE BackoffOver
    <3>1. TypeOK' /\ PhaseInv'  BY Zenon, <2>5 DEF BackoffOver, TypeOK, PhaseInv, Attending
    <3> QED  BY Zenon, <2>5, <3>1, <1>PhaseStep DEF BackoffOver
  <2>6. CASE ConnectionError
    <3>a. listen_notify_reconnects_total' \in Nat
      BY <2>6 DEF ConnectionError, Reconnect, TypeOK
    <3>b. /\ phase \in {"connect", "listen", "health"} /\ phase' = "backoff" /\ conn' = FALSE /\ wire' = <<>>
          /\ UNCHANGED <<wire, connected_tx, db, gap, key, senders, alive, lagging, chan, got, missed,
                         early, lost>>
      BY Zenon, <2>6 DEF ConnectionError, Disconnected, Listening, Reconnect, PhaseInv, Attending
    <3>c. TypeOK'  BY Zenon, <3>a, <3>b DEF TypeOK
    <3>d. PhaseInv'  BY Zenon, <3>b DEF PhaseInv, Attending
    <3>1. TypeOK' /\ PhaseInv'  BY Zenon, <3>c, <3>d
    <3> QED  BY Zenon, <3>1, <3>b, <1>PhaseStep
  <2>7. CASE Shutdown
    <3>1. TypeOK' /\ PhaseInv'  BY Zenon, <2>7 DEF Shutdown, TypeOK, PhaseInv, Attending
    <3> QED  BY Zenon, <2>7, <3>1, <1>PhaseStep DEF Shutdown
  <2>8. CASE Quiet
    <3>1. /\ Attending /\ Attending' /\ conn' \in {conn, TRUE}
          /\ UNCHANGED <<wire, connected_tx, db, gap, key, senders, alive, lagging, chan, got,
                         listen_notify_reconnects_total, missed, early, lost>>
      BY Zenon, <2>8, QuietStep
    <3>2. TypeOK' /\ PhaseInv'  BY Zenon, <3>1 DEF TypeOK, PhaseInv, Attending
    <3> QED  BY Zenon, <3>1, <3>2, <1>PhaseStep DEF Attending
  <2> QED  BY Zenon, <2>1, <2>2, <2>3, <2>4, <2>5, <2>6, <2>7, <2>8

<1>ReturnInv.
    ASSUME IInv, phase # "owned", Return
    PROVE  IInv'
  <2> USE <1>ReturnInv
  <2> USE DEF Return, dbVars, chanVars, subVars, metrics
  <2>1. TypeOK'
    <3>1. <<>> \in Seq(Payloads \cup {Junk})  OBVIOUS
    <3> QED  BY Zenon, <3>1 DEF IInv, TypeOK
  <2>2. PhaseInv'
    BY Zenon DEF IInv, PhaseInv, Attending
  <2>3. RegistryInv'
    BY Zenon DEF IInv, RegistryInv
  <2>4. ASSUME NEW x \in Events, x \notin lost' PROVE ~ OnWire(x)
    <3> SUFFICES ASSUME NEW i \in DOMAIN wire, EventOf(wire[i]) = x PROVE FALSE
      BY Zenon DEF OnWire, Holds
    <3>1. wire[i] # Junk
      BY NamesAssumption DEF Junk, EventOf, Event, Payload, Events
    <3>2. x \in Notified
      BY Zenon, <3>1 DEF Notified
    <3> QED  BY Zenon, <3>2, <2>4
  <2>5. \A s \in Subscribers, x \in Events :
            /\ Owed(s, x)' => Owed(s, x) /\ x \notin lost'
            /\ InGap(x)' <=> InGap(x)
            /\ InChan(s, x)' <=> InChan(s, x)
            /\ InGot(s, x)' <=> InGot(s, x)
    BY Zenon DEF Owed, Wants, Committed, InGap, InChan, InGot, Holds
  <2>6. NoSilentLoss'
    BY Zenon, <2>4, <2>5, <1>Kept
  <2> QED  BY Zenon, <2>1, <2>2, <2>3, <2>6 DEF IInv

<1>GapSelectInv.
    ASSUME IInv, NEW e \in Engagements, NEW last_seen \in 0..db[e], GapSelect(e, last_seen)
    PROVE  IInv'
  <2> USE <1>GapSelectInv
  <2>0. db[e] \in 0..MaxEvents /\ MaxEvents \in Nat
    BY Zenon, BoundsAssumption DEF IInv, TypeOK
  <2>1. PICK last \in 0..MaxEvents : last = db[e]
    BY Zenon, <2>0
  <2>2. last_seen \in 0..last /\ last_seen \in Nat /\ last \in Nat
    BY <2>0, <2>1
  <2>3. PICK first \in 1..(MaxEvents + 1) : first = last_seen + 1 /\ first <= last + 1
    BY <2>0, <2>2
  <2>4. PICK rows \in Seq(Payloads) : rows = GapRows(e, first, last)
    BY Zenon, <2>3, GapRowsFacts
  <2>5. /\ phase = "owned" /\ gap[e] = <<>>
        /\ gap' = [gap EXCEPT ![e] = rows]
        /\ early' = [s \in Subscribers |->
                        IF s \in senders
                        THEN early[s] \ {x \in Events : x.engagement_id = e /\ x.sequence >= first}
                        ELSE early[s]]
        /\ UNCHANGED <<phase, conn, wire, connected_tx, db, key, senders, alive, lagging, chan, got,
                       listen_notify_reconnects_total, missed, lost>>
    BY Zenon, <2>1, <2>3, <2>4 DEF GapRows, GapSelect, SelectRows, connVars, chanVars, subVars, metrics
  <2>6. ASSUME NEW x \in Events, x.engagement_id = e, x.sequence >= first, x.sequence <= db[e]
        PROVE  InGap(x)'
    <3>1. x.sequence \in first..last /\ x = Event(e, x.sequence)
      BY <2>0, <2>1, <2>3, <2>6 DEF Events, Event
    <3>2. Holds(rows, x)
      BY Zenon, <3>1, <2>3, <2>4, GapRowsFacts
    <3>3. gap'[x.engagement_id] = rows
      BY Zenon, <2>5, <2>6 DEF IInv, TypeOK
    <3> QED  BY Zenon, <3>2, <3>3 DEF InGap, Holds
  <2>7. TypeOK'
    BY Zenon, <2>4, <2>5 DEF IInv, TypeOK
  <2>8. PhaseInv' /\ RegistryInv'
    BY Zenon, <2>5 DEF IInv, PhaseInv, Attending, RegistryInv
  <2>9. \A s \in Subscribers, x \in Events : Safe(s, x)'
    <3> TAKE s \in Subscribers, x \in Events
    <3> SUFFICES ASSUME Owed(s, x)'
                 PROVE  InGap(x)' \/ OnWire(x)' \/ InChan(s, x)' \/ InGot(s, x)' \/ x \in missed'[s]
      BY Zenon DEF Safe
    <3>1. x.sequence <= db[x.engagement_id]
      BY Zenon, <2>5 DEF Owed, Committed
    <3>2. CASE x.engagement_id = e /\ x.sequence >= first
      BY Zenon, <2>6, <3>1, <3>2
    <3>3. CASE ~ (x.engagement_id = e /\ x.sequence >= first)
      <4>1. Owed(s, x)
        BY Zenon, <2>5, <3>3 DEF Owed, Wants, Committed
      <4>2. Safe(s, x)
        BY Zenon, <1>SafeIsNoSilentLoss DEF IInv
      <4>3. OnWire(x)' = OnWire(x) /\ InChan(s, x)' = InChan(s, x) /\ InGot(s, x)' = InGot(s, x)
        BY Zenon, <2>5 DEF OnWire, InChan, InGot, Holds
      <4>4. InGap(x) => InGap(x)'
        <5>1. CASE x.engagement_id = e
          <6>1. gap[e] = << >>
            BY Zenon, <2>5
          <6>2. \A i \in DOMAIN << >> : FALSE
            BY Zenon, NoIndex
          <6>3. ~ InGap(x)
            BY Zenon, <5>1, <6>1, <6>2 DEF InGap, Holds
          <6> QED  BY Zenon, <6>3
        <5>2. CASE x.engagement_id # e
          <6>1. gap'[x.engagement_id] = gap[x.engagement_id]
            BY Zenon, <5>2, <2>5 DEF Events, IInv, TypeOK
          <6> QED  BY Zenon, <6>1 DEF InGap, Holds
        <5> QED  BY Zenon, <5>1, <5>2
      <4> QED  BY Zenon, <4>1, <4>2, <4>3, <4>4, <2>5 DEF Safe
    <3> QED  BY Zenon, <3>2, <3>3
  <2>10. NoSilentLoss'
    BY Zenon, <2>9, <1>SafeIsNoSilentLossPrime
  <2> QED  BY Zenon, <2>7, <2>8, <2>10 DEF IInv

<1>GapFanInv.
    ASSUME IInv, NEW e \in Engagements, GapFan(e)
    PROVE  IInv'
  <2> USE <1>GapFanInv
  <2>1. PICK g, p : g = gap[e] /\ p = Head(g)
    BY Zenon
  <2>2. /\ g \in Seq(Payloads) /\ g # <<>>
        /\ gap' = [gap EXCEPT ![e] = Tail(g)]
        /\ UNCHANGED <<phase, conn, wire, connected_tx, db, key, alive, got,
                       listen_notify_reconnects_total, early, lost>>
    BY Zenon, <2>1 DEF GapFan, connVars, subVars, metrics, history, IInv, TypeOK
  <2>3. p \in Payloads /\ Tail(g) \in Seq(Payloads)
    BY Zenon, <2>1, <2>2, TailFacts
  <2>4. Fanout(p)
    BY Zenon, <2>1 DEF GapFan, Fanout, Retained, Matching, EventOf, Event
  <2>5. TypeOK
    BY Zenon DEF IInv
  <2>6. TypeOK'
    BY Zenon, <2>2, <2>3, <2>4, <2>5, FanoutTypes DEF TypeOK
  <2>7. phase = "owned"
    BY Zenon, <2>1, <2>2 DEF IInv, PhaseInv, Attending
  <2>8. PhaseInv'
    BY Zenon, <2>2, <2>7 DEF IInv, PhaseInv, Attending
  <2>9. RegistryInv'
    BY Zenon, <2>2, <2>3, <2>4, <2>5, FanoutOne DEF IInv, RegistryInv
  <2>10. ASSUME NEW s \in Subscribers, NEW x \in Events, Owed(s, x)'
         PROVE  /\ Owed(s, x)
                /\ OnWire(x) => OnWire(x)'
                /\ InGap(x) => InGap(x)' \/ InChan(s, x)'
                /\ InChan(s, x) => InChan(s, x)' \/ x \in missed'[s]
                /\ InGot(s, x) => InGot(s, x)'
                /\ x \in missed[s] => x \in missed'[s]
    <3>1. Owed(s, x)
      BY Zenon, <2>2, <2>10 DEF Owed, Wants, Committed
    <3>2. OnWire(x)' = OnWire(x) /\ InGot(s, x)' = InGot(s, x)
      BY Zenon, <2>2 DEF OnWire, InGot, Holds
    <3>3. alive[s] /\ Wants(s, x) /\ s \in senders
      BY Zenon, <3>1, <2>7 DEF Owed, IInv, RegistryInv
    <3>4. /\ InChan(s, x) => InChan(s, x)' \/ x \in missed'[s]
          /\ x \in missed[s] => x \in missed'[s]
          /\ EventOf(p) = x => InChan(s, x)'
      BY Zenon, <2>3, <2>4, <2>5, <3>3, FanoutKeeps
    <3>5. InGap(x) => InGap(x)' \/ EventOf(p) = x
      <4>1. CASE x.engagement_id = e
        <5>1. InGap(x) <=> Holds(g, x)
          BY Zenon, <4>1, <2>1 DEF InGap, Holds
        <5>2. gap'[x.engagement_id] = Tail(g)
          BY Zenon, <4>1, <2>2, <2>5 DEF TypeOK
        <5>3. InGap(x)' <=> Holds(Tail(g), x)
          BY Zenon, <5>2 DEF InGap, Holds
        <5> QED  BY Zenon, <5>1, <5>3, <2>1, <2>2, HoldsTail
      <4>2. CASE x.engagement_id # e
        <5>1. gap'[x.engagement_id] = gap[x.engagement_id]
          BY Zenon, <4>2, <2>2, <2>5 DEF TypeOK, Events
        <5> QED  BY Zenon, <5>1 DEF InGap, Holds
      <4> QED  BY Zenon, <4>1, <4>2
    <3> QED  BY Zenon, <3>1, <3>2, <3>4, <3>5
  <2>11. NoSilentLoss'
    BY Zenon, <2>10, <1>Kept
  <2> QED  BY Zenon, <2>6, <2>8, <2>9, <2>11 DEF IInv

\* RecvOk and HealthCheckOk.
<1>HandleInv.
    ASSUME IInv, RecvOk \/ HealthCheckOk
    PROVE  IInv'
  <2> USE <1>HandleInv
  <2>1. PICK w, p : w = wire /\ p = Head(w)
    BY Zenon
  <2>2. /\ Attending /\ w \in Seq(Payloads \cup {Junk}) /\ w # <<>> /\ wire' = Tail(w)
        /\ UNCHANGED <<conn, connected_tx, db, gap, key, alive, got,
                       listen_notify_reconnects_total, early, lost>>
    BY Zenon, <2>1 DEF RecvOk, HealthCheckOk, Attending, dbVars, subVars, history, IInv, TypeOK
  <2>a. Attending' /\ phase \notin {"owned", "stopped"} /\ phase' # "stopped"
    BY Zenon, <2>2 DEF RecvOk, HealthCheckOk, HandleNotification, Attending
  <2>3. p \in Payloads \cup {Junk} /\ Tail(w) \in Seq(Payloads \cup {Junk})
    BY Zenon, <2>1, <2>2, TailFacts
  <2>4. TypeOK
    BY Zenon DEF IInv
  <2>5. ASSUME NEW x \in Events PROVE OnWire(x) => OnWire(x)' \/ EventOf(p) = x
    <3>1. (OnWire(x) <=> Holds(w, x)) /\ (OnWire(x)' <=> Holds(Tail(w), x))
      BY Zenon, <2>1, <2>2 DEF OnWire, Holds
    <3> QED  BY Zenon, <3>1, <2>1, <2>2, HoldsTail
  <2>6. \A s \in Subscribers, x \in Events :
            /\ Owed(s, x)' => Owed(s, x)
            /\ InGap(x)' <=> InGap(x)
            /\ InGot(s, x)' <=> InGot(s, x)
    BY Zenon, <2>2 DEF Owed, Wants, Committed, InGap, InGot, Holds
  <2>7. PhaseInv'
    BY Zenon, <2>2, <2>a DEF IInv, PhaseInv, Attending
  <2>8. CASE p = Junk
    <3>1. UNCHANGED <<chan, lagging, missed, senders>>
      BY Zenon, <2>1, <2>8 DEF RecvOk, HealthCheckOk, HandleNotification, chanVars
    <3>2. TypeOK'
      BY Zenon, <2>2, <2>3, <2>a, <3>1, <2>4 DEF TypeOK, Attending
    <3>3. RegistryInv'
      BY Zenon, <2>2, <2>a, <3>1 DEF IInv, RegistryInv
    <3>4. \A x \in Events : EventOf(p) # x
      BY <2>8, NamesAssumption DEF Junk, EventOf, Event, Payload, Events
    <3>5. \A s \in Subscribers, x \in Events : InChan(s, x)' <=> InChan(s, x)
      BY Zenon, <3>1 DEF InChan, Holds
    <3>6. NoSilentLoss'
      BY Zenon, <2>5, <2>6, <3>1, <3>4, <3>5, <1>Kept
    <3> QED  BY Zenon, <2>7, <3>2, <3>3, <3>6 DEF IInv
  <2>9. CASE p # Junk
    <3>1. p \in Payloads
      BY Zenon, <2>3, <2>9
    <3>2. Fanout(p)
      BY Zenon, <2>1, <2>9 DEF RecvOk, HealthCheckOk, HandleNotification, Fanout, Retained, Matching,
                        EventOf, Event
    <3>3. TypeOK'
      BY Zenon, <2>2, <2>3, <2>4, <2>a, <3>1, <3>2, FanoutTypes DEF TypeOK, Attending
    <3>4. RegistryInv'
      BY Zenon, <2>2, <2>a, <2>4, <3>1, <3>2, FanoutOne DEF IInv, RegistryInv
    <3>5. ASSUME NEW s \in Subscribers, NEW x \in Events, Owed(s, x)
          PROVE  /\ InChan(s, x) => InChan(s, x)' \/ x \in missed'[s]
                 /\ x \in missed[s] => x \in missed'[s]
                 /\ EventOf(p) = x => InChan(s, x)'
      <4>1. alive[s] /\ Wants(s, x) /\ s \in senders
        BY Zenon, <3>5, <2>a DEF Owed, IInv, RegistryInv
      <4> QED  BY Zenon, <2>4, <3>1, <3>2, <4>1, FanoutKeeps
    <3>6. NoSilentLoss'
      BY Zenon, <2>5, <2>6, <3>5, <1>Kept
    <3> QED  BY Zenon, <2>7, <3>3, <3>4, <3>6 DEF IInv
  <2> QED  BY Zenon, <2>8, <2>9

<1>CommitInv.
    ASSUME IInv, NEW e \in Engagements, Commit(e)
    PROVE  IInv'
  <2> USE <1>CommitInv
  <2>1. PICK n \in 1..MaxEvents : n = db[e] + 1
    BY BoundsAssumption DEF Commit, IInv, TypeOK
  <2>2. PICK w, p, y : w = wire /\ p = Payload(e, n, TRUE) /\ y = Event(e, n)
    BY Zenon
  <2>3. /\ db' = [db EXCEPT ![e] = n]
        /\ wire' = IF conn THEN Append(w, p) ELSE w
        /\ early' = IF connected_tx THEN [s \in Subscribers |-> early[s] \cup {y}] ELSE early
        /\ lost' = IF conn \/ connected_tx THEN lost ELSE lost \cup {y}
        /\ UNCHANGED <<phase, conn, connected_tx, gap, key, senders, alive, lagging, chan, got,
                       listen_notify_reconnects_total, missed>>
    BY Zenon, <2>1, <2>2 DEF Commit, CommitRow, chanVars, subVars, metrics
  <2>4. p \in Payloads /\ EventOf(p) = y /\ y \in Events
    BY Zenon, <2>2, PayloadFacts
  <2>5. w \in Seq(Payloads \cup {Junk})
    BY Zenon, <2>2 DEF IInv, TypeOK
  <2>6. Append(w, p) \in Seq(Payloads \cup {Junk})
    BY Zenon, <2>4, <2>5, AppendFacts
  <2>7. TypeOK'
    <3>1. early' \in [Subscribers -> SUBSET Events]
      BY Zenon, <2>3, <2>4 DEF IInv, TypeOK
    <3>2. wire' \in Seq(Payloads \cup {Junk})
      BY Zenon, <2>3, <2>5, <2>6
    <3>3. db' \in [Engagements -> 0..MaxEvents]
      <4>1. n \in 0..MaxEvents /\ db \in [Engagements -> 0..MaxEvents]
        BY <2>1, BoundsAssumption DEF IInv, TypeOK
      <4> QED  BY Zenon, <2>3, <4>1
    <3> QED  BY Zenon, <2>3, <3>1, <3>2, <3>3 DEF IInv, TypeOK
  <2>8. PhaseInv'
    <3>1. conn => Attending
      BY Zenon DEF IInv, PhaseInv, Attending
    <3>2. wire' = wire \/ Attending
      BY Zenon, <2>2, <2>3, <3>1
    <3> QED  BY Zenon, <2>3, <3>2 DEF IInv, PhaseInv, Attending, TypeOK
  <2>9. RegistryInv'
    BY Zenon, <2>3 DEF IInv, RegistryInv
  <2>10. ASSUME NEW x \in Events PROVE OnWire(x) => OnWire(x)'
    <3>1. OnWire(x) <=> Holds(w, x)
      BY Zenon, <2>2 DEF OnWire, Holds
    <3>2. CASE conn
      <4>1. OnWire(x)' <=> Holds(Append(w, p), x)
        BY Zenon, <2>3, <3>2 DEF OnWire, Holds
      <4> QED  BY <3>1, <4>1, <2>4, <2>5, HoldsAppend
    <3>3. CASE ~ conn
      BY Zenon, <2>2, <2>3, <3>3 DEF OnWire, Holds
    <3> QED  BY Zenon, <3>2, <3>3
  <2>11. \A s \in Subscribers, x \in Events : Safe(s, x)'
    <3> TAKE s \in Subscribers, x \in Events
    <3> SUFFICES ASSUME Owed(s, x)'
                 PROVE  OnWire(x)' \/ InGap(x)' \/ InChan(s, x)' \/ InGot(s, x)' \/ x \in missed'[s]
      BY Zenon DEF Safe
    <3>1. CASE x = y
      <4>1. conn
        <5> SUFFICES ASSUME ~ conn PROVE FALSE
          BY Zenon
        <5>1. y \in early'[s] \cup lost'
          BY Zenon, <2>3
        <5> QED  BY Zenon, <3>1, <5>1 DEF Owed
      <4>2. OnWire(x)' <=> Holds(Append(w, p), x)
        BY Zenon, <2>3, <4>1 DEF OnWire, Holds
      <4> QED  BY <3>1, <4>2, <2>4, <2>5, HoldsAppend
    <3>2. CASE x # y
      <4>1. x \in Committed
        <5>1. x.sequence \in Nat /\ x.engagement_id \in Engagements
              /\ x.sequence <= db'[x.engagement_id]
          BY SMTT(30), BoundsAssumption DEF Owed, Committed, Events
        <5>2. CASE x.engagement_id = e
          <6>1. x.sequence # n
            BY Zenon, <3>2, <5>2, <2>2 DEF Event, Events
          <6>2. db'[e] = n /\ db[e] \in Nat
            BY <2>3, BoundsAssumption DEF IInv, TypeOK
          <6>3. x.sequence <= db[e]
            <7>1. PICK k \in Nat, l \in Nat : k = x.sequence /\ l = db[e]
              BY Zenon, <5>1, <6>2
            <7>2. k <= n /\ k # n /\ n = l + 1
              BY Zenon, <5>1, <5>2, <6>1, <6>2, <7>1, <2>1
            <7>3. k <= l
              BY <7>2
            <7> QED  BY Zenon, <7>1, <7>3
          <6> QED  BY Zenon, <6>3, <5>2 DEF Committed
        <5>3. CASE x.engagement_id # e
          BY Zenon, <5>1, <5>3, <2>3 DEF Committed, IInv, TypeOK
        <5> QED  BY Zenon, <5>2, <5>3
      <4>2. x \notin early[s] \cup lost
        BY Zenon, <2>3 DEF Owed
      <4>3. Owed(s, x)
        BY Zenon, <4>1, <4>2, <2>3 DEF Owed, Wants
      <4>4. Safe(s, x)
        BY Zenon, <1>SafeIsNoSilentLoss DEF IInv
      <4>5. InGap(x)' = InGap(x) /\ InChan(s, x)' = InChan(s, x) /\ InGot(s, x)' = InGot(s, x)
        BY Zenon, <2>3 DEF InGap, InChan, InGot, Holds
      <4> QED  BY Zenon, <4>3, <4>4, <4>5, <2>3, <2>10 DEF Safe
    <3> QED  BY Zenon, <3>1, <3>2
  <2>12. NoSilentLoss'
    BY Zenon, <2>11, <1>SafeIsNoSilentLossPrime
  <2> QED  BY Zenon, <2>7, <2>8, <2>9, <2>12 DEF IInv

<1>JunkInv.
    ASSUME IInv, NotifyJunk
    PROVE  IInv'
  <2> USE <1>JunkInv
  <2>1. PICK w : w = wire
    BY Zenon
  <2>2. /\ conn /\ wire' = Append(w, Junk)
        /\ UNCHANGED <<phase, conn, connected_tx, db, gap, key, senders, alive, lagging, chan, got,
                       listen_notify_reconnects_total, missed, early, lost>>
    BY Zenon, <2>1 DEF NotifyJunk, chanVars, subVars, metrics, history
  <2>3. w \in Seq(Payloads \cup {Junk})
    BY Zenon, <2>1 DEF IInv, TypeOK
  <2>4. Append(w, Junk) \in Seq(Payloads \cup {Junk})
    BY Zenon, <2>3, AppendFacts
  <2>5. TypeOK'
    BY Zenon, <2>2, <2>4 DEF IInv, TypeOK
  <2>6. PhaseInv' /\ RegistryInv'
    BY Zenon, <2>2 DEF IInv, PhaseInv, Attending, RegistryInv
  <2>7. ASSUME NEW x \in Events PROVE OnWire(x) => OnWire(x)'
    <3>1. (OnWire(x) <=> Holds(w, x)) /\ (OnWire(x)' <=> Holds(Append(w, Junk), x))
      BY Zenon, <2>1, <2>2 DEF OnWire, Holds
    <3>2. Junk \in Payloads \cup {Junk}
      BY Zenon
    <3> QED  BY Zenon, <3>1, <3>2, <2>3, HoldsAppend
  <2>8. \A s \in Subscribers, x \in Events :
            /\ Owed(s, x)' => Owed(s, x)
            /\ InGap(x)' <=> InGap(x)
            /\ InChan(s, x)' <=> InChan(s, x)
            /\ InGot(s, x)' <=> InGot(s, x)
    BY Zenon, <2>2 DEF Owed, Wants, Committed, InGap, InChan, InGot, Holds
  <2>9. NoSilentLoss'
    BY Zenon, <2>2, <2>7, <2>8, <1>Kept
  <2> QED  BY Zenon, <2>5, <2>6, <2>9 DEF IInv

<1>LoseInv.
    ASSUME IInv, NEW n \in 0..Len(wire), LoseConnection(n)
    PROVE  IInv'
  <2> USE <1>LoseInv
  <2>1. PICK w \in Seq(Payloads \cup {Junk}) : w = wire
    BY Zenon DEF IInv, TypeOK
  <2>2. PICK v : v = SubSeq(w, 1, n)
    BY Zenon
  <2>3. /\ conn /\ conn' = FALSE /\ wire' = v
        /\ lost' = lost \cup {EventOf(w[i]) : i \in {j \in n + 1..Len(w) : w[j] # Junk}}
        /\ UNCHANGED <<phase, connected_tx, db, gap, key, senders, alive, lagging, chan, got,
                       listen_notify_reconnects_total, missed, early>>
    BY Zenon, <2>1, <2>2 DEF LoseConnection, dbVars, chanVars, subVars, metrics
  <2>4. n \in 0..Len(w) /\ Len(w) \in Nat /\ DOMAIN w = 1..Len(w)
    BY <2>1
  <2>5. /\ v \in Seq(Payloads \cup {Junk}) /\ DOMAIN v = 1..n
        /\ \A i \in 1..n : v[i] = w[i]
    BY <2>2, <2>4
  <2>6. TypeOK'
    BY Zenon, <2>3, <2>5 DEF IInv, TypeOK
  <2>7. PhaseInv' /\ RegistryInv'
    BY Zenon, <2>3 DEF IInv, PhaseInv, Attending, RegistryInv
  <2>8. ASSUME NEW x \in Events, x \notin lost', OnWire(x) PROVE OnWire(x)'
    <3>1. PICK i \in DOMAIN w : EventOf(w[i]) = x
      BY Zenon, <2>1, <2>8 DEF OnWire, Holds
    <3>2. w[i] # Junk
      BY SMTT(30), <3>1, NamesAssumption DEF Junk, EventOf, Event, Payload, Events
    <3>3. i \notin n + 1..Len(w)
      BY Zenon, <2>3, <2>8, <3>1, <3>2
    <3>4. i \in 1..n
      BY SMTT(30), <2>4, <3>3
    <3>5. i \in DOMAIN v /\ EventOf(v[i]) = x
      BY Zenon, <2>5, <3>1, <3>4
    <3> QED  BY Zenon, <2>3, <3>5 DEF OnWire, Holds
  <2>9. \A s \in Subscribers, x \in Events :
            /\ Owed(s, x)' => Owed(s, x) /\ x \notin lost'
            /\ InGap(x)' <=> InGap(x)
            /\ InChan(s, x)' <=> InChan(s, x)
            /\ InGot(s, x)' <=> InGot(s, x)
    BY Zenon, <2>3 DEF Owed, Wants, Committed, InGap, InChan, InGot, Holds
  <2>10. NoSilentLoss'
    BY Zenon, <2>3, <2>8, <2>9, <1>Kept
  <2> QED  BY Zenon, <2>6, <2>7, <2>10 DEF IInv

<1>ReadInv.
    ASSUME IInv, NEW r \in Subscribers, Read(r)
    PROVE  IInv'
  <2> USE <1>ReadInv
  <2>1. PICK c \in Seq(Payloads), g \in Seq(Payloads \cup {Lagged}) : c = chan[r] /\ g = got[r]
    BY Zenon DEF IInv, TypeOK
  <2>2. /\ lagging' = [lagging EXCEPT ![r] = FALSE]
        /\ UNCHANGED <<phase, conn, wire, connected_tx, db, gap, key, senders, alive,
                       listen_notify_reconnects_total, missed, early, lost>>
    BY Zenon DEF Read, connVars, dbVars, metrics, history
  <2>3. \/ chan' = chan /\ got' = [got EXCEPT ![r] = Append(g, Lagged)]
        \/ /\ c # <<>> /\ chan' = [chan EXCEPT ![r] = Tail(c)]
           /\ got' = [got EXCEPT ![r] = Append(g, Head(c))]
    BY Zenon, <2>1 DEF Read
  <2>4. Append(g, Lagged) \in Seq(Payloads \cup {Lagged})
    BY Zenon, AppendFacts
  <2>5. c # <<>> => Head(c) \in Payloads /\ Tail(c) \in Seq(Payloads)
    BY Zenon, TailFacts
  <2>6. c # <<>> => Append(g, Head(c)) \in Seq(Payloads \cup {Lagged})
    BY Zenon, <2>5, AppendFacts
  <2>7. TypeOK'
    <3>1. chan' \in [Subscribers -> Seq(Payloads)]
      BY Zenon, <2>3, <2>5 DEF IInv, TypeOK
    <3>2. got' \in [Subscribers -> Seq(Payloads \cup {Lagged})]
      BY Zenon, <2>3, <2>4, <2>6 DEF IInv, TypeOK
    <3> QED  BY Zenon, <2>2, <3>1, <3>2 DEF IInv, TypeOK
  <2>8. PhaseInv' /\ RegistryInv'
    BY Zenon, <2>2 DEF IInv, PhaseInv, Attending, RegistryInv
  <2>9. \A s \in Subscribers, x \in Events :
            /\ Owed(s, x)' => Owed(s, x)
            /\ InGap(x)' <=> InGap(x)
            /\ OnWire(x)' <=> OnWire(x)
    BY Zenon, <2>2 DEF Owed, Wants, Committed, InGap, OnWire, Holds
  <2>10. ASSUME NEW s \in Subscribers, NEW x \in Events
         PROVE  /\ InChan(s, x) => InChan(s, x)' \/ InGot(s, x)'
                /\ InGot(s, x) => InGot(s, x)'
    <3>1. CASE s # r
      <4>1. chan'[s] = chan[s] /\ got'[s] = got[s]
        BY Zenon, <3>1, <2>3 DEF IInv, TypeOK
      <4> QED  BY Zenon, <4>1 DEF InChan, InGot, Holds
    <3>2. CASE s = r
      <4>1. (InChan(s, x) <=> Holds(c, x)) /\ (InGot(s, x) <=> Holds(g, x))
        BY Zenon, <3>2, <2>1 DEF InChan, InGot, Holds
      <4>2. CASE chan' = chan /\ got' = [got EXCEPT ![r] = Append(g, Lagged)]
        <5>1. got'[s] = Append(g, Lagged) /\ chan'[s] = chan[s]
          BY Zenon, <4>2, <3>2 DEF IInv, TypeOK
        <5>2. InGot(s, x)' <=> Holds(Append(g, Lagged), x)
          BY Zenon, <5>1 DEF InGot, Holds
        <5>3. InChan(s, x)' <=> InChan(s, x)
          BY Zenon, <5>1 DEF InChan, Holds
        <5>4. Lagged \in Payloads \cup {Lagged}
          BY Zenon
        <5> QED  BY Zenon, <4>1, <5>2, <5>3, <5>4, HoldsAppend
      <4>3. CASE /\ c # <<>> /\ chan' = [chan EXCEPT ![r] = Tail(c)]
                 /\ got' = [got EXCEPT ![r] = Append(g, Head(c))]
        <5>1. got'[s] = Append(g, Head(c)) /\ chan'[s] = Tail(c)
          BY Zenon, <4>3, <3>2 DEF IInv, TypeOK
        <5>2. (InGot(s, x)' <=> Holds(Append(g, Head(c)), x)) /\ (InChan(s, x)' <=> Holds(Tail(c), x))
          BY Zenon, <5>1 DEF InGot, InChan, Holds
        <5>3. Holds(c, x) => EventOf(Head(c)) = x \/ Holds(Tail(c), x)
          BY Zenon, <4>3, HoldsTail
        <5>4. Head(c) \in Payloads \cup {Lagged}
          BY Zenon, <4>3, <2>5
        <5>5. /\ Holds(g, x) => Holds(Append(g, Head(c)), x)
              /\ EventOf(Head(c)) = x => Holds(Append(g, Head(c)), x)
          BY Zenon, <5>4, HoldsAppend
        <5> QED  BY Zenon, <4>1, <5>2, <5>3, <5>5
      <4> QED  BY Zenon, <2>3, <4>2, <4>3
    <3> QED  BY Zenon, <3>1, <3>2
  <2>11. NoSilentLoss'
    BY Zenon, <2>2, <2>9, <2>10, <1>Kept
  <2> QED  BY Zenon, <2>7, <2>8, <2>11 DEF IInv

<1>DropInv.
    ASSUME IInv, NEW r \in Subscribers, DropReceiver(r)
    PROVE  IInv'
  <2> USE <1>DropInv
  <2>1. /\ alive' = [alive EXCEPT ![r] = FALSE] /\ chan' = [chan EXCEPT ![r] = <<>>]
        /\ lagging' = [lagging EXCEPT ![r] = FALSE]
        /\ UNCHANGED <<phase, conn, wire, connected_tx, db, gap, key, senders, got,
                       listen_notify_reconnects_total, missed, early, lost>>
    BY Zenon DEF DropReceiver, connVars, dbVars, metrics, history
  <2>2. TypeOK'
    <3>1. <<>> \in Seq(Payloads)
      OBVIOUS
    <3> QED  BY Zenon, <2>1, <3>1 DEF IInv, TypeOK
  <2>3. PhaseInv'
    BY Zenon, <2>1 DEF IInv, PhaseInv, Attending
  <2>4. RegistryInv'
    BY Zenon, <2>1 DEF IInv, RegistryInv, TypeOK
  <2>5. ASSUME NEW s \in Subscribers, NEW x \in Events, Owed(s, x)'
        PROVE  Owed(s, x) /\ InChan(s, x)' = InChan(s, x)
    <3>1. s # r
      BY Zenon, <2>1, <2>5 DEF Owed, IInv, TypeOK
    <3>2. chan'[s] = chan[s] /\ alive'[s] = alive[s]
      BY Zenon, <2>1, <3>1 DEF IInv, TypeOK
    <3> QED  BY Zenon, <2>1, <2>5, <3>2 DEF Owed, Wants, Committed, InChan, Holds
  <2>6. \A s \in Subscribers, x \in Events :
            /\ InGap(x)' <=> InGap(x)
            /\ OnWire(x)' <=> OnWire(x)
            /\ InGot(s, x)' <=> InGot(s, x)
    BY Zenon, <2>1 DEF InGap, OnWire, InGot, Holds
  <2>7. NoSilentLoss'
    BY Zenon, <2>1, <2>5, <2>6, <1>Kept
  <2> QED  BY Zenon, <2>2, <2>3, <2>4, <2>7 DEF IInv
<1> SUFFICES ASSUME IInv, [Next]_vars PROVE IInv'
  BY Zenon
<1>1. CASE \E s \in Subscribers, k \in Engagements \cup Batches : Subscribe(s, k)
  BY Zenon, <1>1, <1>SubscribeInv
<1>2. CASE \E e \in Engagements : \E last_seen \in 0..db[e] : GapSelect(e, last_seen)
  BY Zenon, <1>2, <1>GapSelectInv
<1>3. CASE \E e \in Engagements : GapFan(e)
  BY Zenon, <1>3, <1>GapFanInv
<1>4. CASE \/ Run \/ StartConnect \/ ConnectOk \/ ConnectFails \/ BackoffOver \/ ConnectionError
           \/ Shutdown \/ Quiet
  BY Zenon, <1>4, <1>LoopInv
<1>5. CASE CheckShutdown \/ ShutdownChanged
  <2>1. phase # "owned" /\ Return
    BY Zenon, <1>5 DEF CheckShutdown, ShutdownChanged
  <2> QED  BY Zenon, <2>1, <1>ReturnInv
<1>6. CASE RecvOk \/ HealthCheckOk
  BY Zenon, <1>6, <1>HandleInv
<1>7. CASE NotifyJunk
  BY Zenon, <1>7, <1>JunkInv
<1>8. CASE \E n \in 0..Len(wire) : LoseConnection(n)
  BY Zenon, <1>8, <1>LoseInv
<1>9. CASE \E s \in Subscribers : Read(s)
  BY Zenon, <1>9, <1>ReadInv
<1>10. CASE \E s \in Subscribers : DropReceiver(s)
  BY Zenon, <1>10, <1>DropInv
<1>11. CASE \E e \in Engagements : Commit(e)
  BY Zenon, <1>11, <1>CommitInv
<1>12. CASE UNCHANGED vars
  <2>1. /\ UNCHANGED <<phase, conn, wire, connected_tx, db, gap, key, senders, alive, lagging, chan,
                       got, listen_notify_reconnects_total, missed, early, lost>>
    BY Zenon, <1>12 DEF vars, connVars, dbVars, chanVars, subVars, metrics, history
  <2>2. TypeOK' /\ PhaseInv'
    BY Zenon, <2>1 DEF IInv, TypeOK, PhaseInv, Attending
  <2> QED  BY Zenon, <2>1, <2>2, <1>PhaseStep
<1> QED
  BY Zenon, <1>1, <1>2, <1>3, <1>4, <1>5, <1>6, <1>7, <1>8, <1>9, <1>10, <1>11, <1>12
     DEF Next, ManagerNext, Quiet

-----------------------------------------------------------------------------
(* The order of what a subscriber is sent. *)

\* p, if it is live, is newer than what q holds of its engagement.
Below(q, p) ==
    \A i \in DOMAIN q :
        Live(p) /\ q[i].engagement_id = p.engagement_id => q[i].sequence < p.sequence

\* p is older than the live payloads of its engagement in r.
Above(p, r) ==
    \A j \in DOMAIN r :
        Live(r[j]) /\ p.engagement_id = r[j].engagement_id => p.sequence < r[j].sequence

Ordered(q) ==
    \A i, j \in DOMAIN q :
        i < j /\ Live(q[j]) /\ q[i].engagement_id = q[j].engagement_id
            => q[i].sequence < q[j].sequence

Before(q, r) ==
    \A i \in DOMAIN q, j \in DOMAIN r :
        Live(r[j]) /\ q[i].engagement_id = r[j].engagement_id => q[i].sequence < r[j].sequence

\* The payloads in q are of events that have committed.
Bounded(q, d) ==
    \A i \in DOMAIN q : q[i].engagement_id \in Engagements
                            => q[i].sequence <= d[q[i].engagement_id]

\* What a subscriber has received (g), has in its channel (c) and may still be
\* sent from the wire (w): older before newer.
Stream(g, c, w, d) ==
    /\ Ordered(g) /\ Ordered(c)
    /\ Before(g, c) /\ Before(g, w) /\ Before(c, w)
    /\ Bounded(g, d) /\ Bounded(c, d)

StreamInv(s) == Stream(got[s], chan[s], wire, db)

OrderInv ==
    /\ Ordered(wire) /\ Bounded(wire, db)
    /\ \A e \in Engagements : Bounded(gap[e], db) /\ \A i \in DOMAIN gap[e] : ~ gap[e][i].live
    /\ \A s \in Subscribers : StreamInv(s)

LEMMA OrderAppend ==
  ASSUME NEW S, NEW R, NEW q \in Seq(S), NEW r \in Seq(R), NEW p \in S \cap R, NEW d
  PROVE  /\ Ordered(q) /\ Below(q, p) => Ordered(Append(q, p))
         /\ Before(q, r) /\ Below(q, p) => Before(q, Append(r, p))
         /\ Before(q, r) /\ Above(p, r) => Before(Append(q, p), r)
         /\ Bounded(q, d) /\ (p.engagement_id \in Engagements => p.sequence <= d[p.engagement_id])
                => Bounded(Append(q, p), d)
<1>0. p \in S /\ p \in R
  BY Zenon
<1>3. PICK a, b, n, m : a = Append(q, p) /\ b = Append(r, p) /\ n = Len(q) /\ m = Len(r)
  BY Zenon
<1>1. /\ n \in Nat
      /\ \A i \in DOMAIN q : i \in 1..n /\ a[i] = q[i]
      /\ a[n + 1] = p
      /\ \A i \in DOMAIN a : i \in DOMAIN q \/ i = n + 1
  <2>1. Extends(a, q, n, p)
    BY Zenon, <1>0, <1>3, AppendExtends
  <2> QED  BY Zenon, <2>1 DEF Extends
<1>2. /\ \A i \in DOMAIN r : b[i] = r[i]
      /\ b[m + 1] = p
      /\ \A i \in DOMAIN b : i \in DOMAIN r \/ i = m + 1
  <2>1. Extends(b, r, m, p)
    BY Zenon, <1>0, <1>3, AppendExtends
  <2> QED  BY Zenon, <2>1 DEF Extends
<1>4. Ordered(q) /\ Below(q, p) => Ordered(a)
  <2> SUFFICES ASSUME Ordered(q), Below(q, p), NEW i \in DOMAIN a, NEW j \in DOMAIN a, i < j,
                      Live(a[j]), a[i].engagement_id = a[j].engagement_id
               PROVE  a[i].sequence < a[j].sequence
    BY Zenon DEF Ordered
  <2>1. i \in DOMAIN q /\ a[i] = q[i]
    <3>1. i # n + 1
      <4>1. j \in 1..n \/ j = n + 1
        BY Zenon, <1>1
      <4> QED  BY <4>1, <1>1
    <3> QED  BY Zenon, <3>1, <1>1
  <2>2. CASE j \in DOMAIN q
    <3>1. a[j] = q[j]
      BY Zenon, <2>2, <1>1
    <3> QED  BY Zenon, <2>1, <2>2, <3>1 DEF Ordered
  <2>3. CASE j = n + 1
    <3>1. a[j] = p
      BY Zenon, <2>3, <1>1
    <3> QED  BY Zenon, <2>1, <3>1 DEF Below
  <2> QED  BY Zenon, <2>2, <2>3, <1>1
<1>5. Before(q, r) /\ Below(q, p) => Before(q, b)
  <2> SUFFICES ASSUME Before(q, r), Below(q, p), NEW i \in DOMAIN q, NEW j \in DOMAIN b,
                      Live(b[j]), q[i].engagement_id = b[j].engagement_id
               PROVE  q[i].sequence < b[j].sequence
    BY Zenon DEF Before
  <2>1. CASE j \in DOMAIN r
    <3>1. b[j] = r[j]
      BY Zenon, <2>1, <1>2
    <3> QED  BY Zenon, <2>1, <3>1 DEF Before
  <2>2. CASE j = m + 1
    <3>1. b[j] = p
      BY Zenon, <2>2, <1>2
    <3> QED  BY Zenon, <3>1 DEF Below
  <2> QED  BY Zenon, <2>1, <2>2, <1>2
<1>6. Before(q, r) /\ Above(p, r) => Before(a, r)
  <2> SUFFICES ASSUME Before(q, r), Above(p, r), NEW i \in DOMAIN a, NEW j \in DOMAIN r,
                      Live(r[j]), a[i].engagement_id = r[j].engagement_id
               PROVE  a[i].sequence < r[j].sequence
    BY Zenon DEF Before
  <2>1. CASE i \in DOMAIN q
    <3>1. a[i] = q[i]
      BY Zenon, <2>1, <1>1
    <3> QED  BY Zenon, <2>1, <3>1 DEF Before
  <2>2. CASE i = n + 1
    <3>1. a[i] = p
      BY Zenon, <2>2, <1>1
    <3> QED  BY Zenon, <3>1 DEF Above
  <2> QED  BY Zenon, <2>1, <2>2, <1>1
<1>7. Bounded(q, d) /\ (p.engagement_id \in Engagements => p.sequence <= d[p.engagement_id])
          => Bounded(a, d)
  <2> SUFFICES ASSUME Bounded(q, d), p.engagement_id \in Engagements
                                         => p.sequence <= d[p.engagement_id],
                      NEW i \in DOMAIN a, a[i].engagement_id \in Engagements
               PROVE  a[i].sequence <= d[a[i].engagement_id]
    BY Zenon DEF Bounded
  <2>1. CASE i \in DOMAIN q
    <3>1. a[i] = q[i]
      BY Zenon, <2>1, <1>1
    <3> QED  BY Zenon, <2>1, <3>1 DEF Bounded
  <2>2. CASE i = n + 1
    <3>1. a[i] = p
      BY Zenon, <2>2, <1>1
    <3> QED  BY Zenon, <3>1
  <2> QED  BY Zenon, <2>1, <2>2, <1>1
<1> QED  BY Zenon, <1>3, <1>4, <1>5, <1>6, <1>7

LEMMA OrderTail ==
  ASSUME NEW S, NEW R, NEW q \in Seq(S), q # <<>>, NEW r \in Seq(R), NEW d
  PROVE  /\ Ordered(q) => Ordered(Tail(q)) /\ Above(Head(q), Tail(q))
         /\ Before(q, r) => Before(Tail(q), r) /\ Above(Head(q), r)
         /\ Before(r, q) => Before(r, Tail(q)) /\ Below(r, Head(q))
         /\ Bounded(q, d) => Bounded(Tail(q), d)
                /\ (Head(q).engagement_id \in Engagements
                       => Head(q).sequence <= d[Head(q).engagement_id])
<1>1. PICK a, p : a = Tail(q) /\ p = Head(q)
  BY Zenon
<1>2. /\ 1 \in DOMAIN q /\ q[1] = p
      /\ \A i \in DOMAIN a : i \in Nat \ {0} /\ i + 1 \in DOMAIN q /\ a[i] = q[i + 1]
  <2>1. a \in Seq(S)
    BY Zenon, <1>1, TailFacts
  <2>2. \A i \in DOMAIN a : i \in Nat \ {0}
    BY <2>1
  <2>3. 1 \in DOMAIN q
    BY TailFacts
  <2> QED  BY <2>2, <2>3, <1>1, TailFacts
<1>3. Ordered(q) => Ordered(a) /\ Above(p, a)
  <2> SUFFICES ASSUME Ordered(q) PROVE Ordered(a) /\ Above(p, a)
    BY Zenon
  <2>1. Ordered(a)
    <3> SUFFICES ASSUME NEW i \in DOMAIN a, NEW j \in DOMAIN a, i < j, Live(a[j]),
                        a[i].engagement_id = a[j].engagement_id
                 PROVE  a[i].sequence < a[j].sequence
      BY Zenon DEF Ordered
    <3>1. /\ i + 1 \in DOMAIN q /\ a[i] = q[i + 1]
          /\ j + 1 \in DOMAIN q /\ a[j] = q[j + 1]
      BY Zenon, <1>2
    <3>2. i + 1 < j + 1
      BY <1>2
    <3>3. PICK k, l : k = i + 1 /\ l = j + 1
      BY Zenon
    <3>4. k \in DOMAIN q /\ l \in DOMAIN q /\ k < l /\ a[i] = q[k] /\ a[j] = q[l]
      BY Zenon, <3>1, <3>2, <3>3
    <3> QED  BY Zenon, <3>4 DEF Ordered
  <2>2. Above(p, a)
    <3> SUFFICES ASSUME NEW j \in DOMAIN a, Live(a[j]), p.engagement_id = a[j].engagement_id
                 PROVE  p.sequence < a[j].sequence
      BY Zenon DEF Above
    <3>1. PICK l : l = j + 1
      BY Zenon
    <3>2. l \in DOMAIN q /\ 1 < l /\ a[j] = q[l]
      BY SMTT(30), <1>2, <3>1
    <3> QED  BY Zenon, <1>2, <3>2 DEF Ordered
  <2> QED  BY Zenon, <2>1, <2>2
<1>4. Before(q, r) => Before(a, r) /\ Above(p, r)
  BY Zenon, <1>2 DEF Before, Above
<1>5. Before(r, q) => Before(r, a) /\ Below(r, p)
  BY Zenon, <1>2 DEF Before, Below
<1>6. Bounded(q, d) => Bounded(a, d)
          /\ (p.engagement_id \in Engagements => p.sequence <= d[p.engagement_id])
  BY Zenon, <1>2 DEF Bounded
<1> QED  BY Zenon, <1>1, <1>3, <1>4, <1>5, <1>6

\* The stream of s in terms of rigid values, now and after a step.
LEMMA StreamNow ==
  ASSUME NEW s, NEW g, NEW c, NEW w, NEW d, g = got[s], c = chan[s], w = wire, d = db
  PROVE  StreamInv(s) <=> Stream(g, c, w, d)
BY Zenon DEF StreamInv, Stream, Ordered, Before, Bounded, Live

\* OrderInv holds of the initial states.
LEMMA OrderInit == Init => OrderInv
<1> SUFFICES ASSUME Init PROVE OrderInv
  BY Zenon
<1>1. \A s \in Subscribers : got[s] = <<>> /\ chan[s] = <<>>
  BY Zenon DEF Init
<1>2. wire = <<>> /\ \A e \in Engagements : gap[e] = <<>>
  BY Zenon DEF Init
<1>3. Ordered(wire) /\ Bounded(wire, db) /\ \A e \in Engagements : Bounded(gap[e], db)
                           /\ \A i \in DOMAIN gap[e] : ~ gap[e][i].live
  <2>1. \A i \in DOMAIN << >> : FALSE
    BY Zenon, NoIndex
  <2> QED  BY Zenon, <1>2, <2>1 DEF Ordered, Bounded
<1>4. Stream(<<>>, <<>>, <<>>, db)
  <2>1. \A i \in DOMAIN << >> : FALSE
    BY Zenon, NoIndex
  <2> QED  BY Zenon, <2>1 DEF Stream, Ordered, Before, Bounded
<1>5. \A s \in Subscribers : StreamInv(s)
  BY Zenon, <1>1, <1>2, <1>4 DEF StreamInv
<1> QED  BY Zenon, <1>3, <1>5 DEF OrderInv

\* Every step keeps OrderInv.
LEMMA OrderNext == IInv /\ OrderInv /\ [Next]_vars => OrderInv'
<1>StreamNext.
    ASSUME NEW s, NEW g, NEW c, NEW w, NEW d, g = got'[s], c = chan'[s], w = wire', d = db'
    PROVE  StreamInv(s)' <=> Stream(g, c, w, d)
  BY Zenon, <1>StreamNext DEF StreamInv, Stream, Ordered, Before, Bounded, Live

\* p is fanned out to a channel, whether it overflows or not.
<1>StreamFan.
    ASSUME NEW g \in Seq(Payloads \cup {Lagged}), NEW c \in Seq(Payloads),
           NEW w \in Seq(Payloads \cup {Junk}), NEW d, NEW p \in Payloads, Stream(g, c, w, d),
           Below(g, p), Below(c, p), Above(p, w),
           p.engagement_id \in Engagements => p.sequence <= d[p.engagement_id]
    PROVE  Stream(g, Append(c, p), w, d) /\ (c # <<>> => Stream(g, Append(Tail(c), p), w, d))
  <2> USE <1>StreamFan
  <2>1. Stream(g, Append(c, p), w, d)
    <3>1. p \in (Payloads \cup {Lagged}) \cap Payloads /\ p \in Payloads \cap (Payloads \cup {Junk})
          /\ p \in Payloads \cap Payloads
      BY Zenon
    <3>2. Ordered(Append(c, p)) /\ Bounded(Append(c, p), d)
      BY Zenon, <3>1, OrderAppend DEF Stream
    <3>3. Before(g, Append(c, p))
      BY Zenon, <3>1, OrderAppend DEF Stream
    <3>4. Before(Append(c, p), w)
      BY Zenon, <3>1, OrderAppend DEF Stream
    <3> QED  BY Zenon, <3>2, <3>3, <3>4 DEF Stream
  <2>2. ASSUME c # <<>> PROVE Stream(g, Append(Tail(c), p), w, d)
    <3>1. PICK b \in Seq(Payloads) : b = Tail(c)
      BY Zenon, <2>2, TailFacts
    <3>2. Ordered(b) /\ Before(b, w) /\ Bounded(b, d)
      BY Zenon, <2>2, <3>1, OrderTail DEF Stream
    <3>3. Before(g, b)
      BY Zenon, <2>2, <3>1, OrderTail DEF Stream
    <3>4. Below(b, p)
      <4>1. \A i \in DOMAIN b : i + 1 \in DOMAIN c /\ b[i] = c[i + 1]
        BY Zenon, <2>2, <3>1, TailFacts
      <4> QED  BY Zenon, <4>1 DEF Below
    <3>5. p \in (Payloads \cup {Lagged}) \cap Payloads /\ p \in Payloads \cap (Payloads \cup {Junk})
          /\ p \in Payloads \cap Payloads
      BY Zenon
    <3>6. Ordered(Append(b, p)) /\ Bounded(Append(b, p), d)
      BY Zenon, <3>2, <3>4, <3>5, OrderAppend
    <3>7. Before(g, Append(b, p))
      BY Zenon, <3>3, <3>5, OrderAppend
    <3>8. Before(Append(b, p), w)
      BY Zenon, <3>2, <3>5, OrderAppend
    <3> QED  BY Zenon, <3>1, <3>6, <3>7, <3>8 DEF Stream
  <2> QED  BY Zenon, <2>1, <2>2

<1>OrderSame.
    ASSUME OrderInv, UNCHANGED <<wire, gap, got, chan, db>>
    PROVE  OrderInv'
  <2> USE <1>OrderSame
  <2>1. Ordered(wire)' /\ Bounded(wire, db)'
    BY Zenon DEF OrderInv, Ordered, Bounded, Live
  <2>2. \A e \in Engagements : Bounded(gap[e], db)' /\ \A i \in DOMAIN gap'[e] : ~ gap'[e][i].live
    BY Zenon DEF OrderInv, Bounded
  <2>3. ASSUME NEW s \in Subscribers PROVE StreamInv(s)'
    <3>1. PICK g, c, w, d : g = got[s] /\ c = chan[s] /\ w = wire /\ d = db
      BY Zenon
    <3>2. Stream(g, c, w, d)
      BY Zenon, <3>1, StreamNow DEF OrderInv
    <3> QED  BY Zenon, <3>1, <3>2, <1>StreamNext
  <2> QED  BY Zenon, <2>1, <2>2, <2>3 DEF OrderInv

\* The wire is replaced by a sequence that keeps the order of s, the rest stays.
<1>OrderWire.
    ASSUME IInv, OrderInv, NEW w \in Seq(Payloads \cup {Junk}), wire' = w, Ordered(w), Bounded(w, db),
           \A s \in Subscribers : Before(got[s], w) /\ Before(chan[s], w),
           UNCHANGED <<gap, got, chan, db>>
    PROVE  OrderInv'
  <2> USE <1>OrderWire
  <2>1. Ordered(wire)' /\ Bounded(wire, db)'
    BY Zenon DEF Ordered, Bounded, Live
  <2>2. \A e \in Engagements : Bounded(gap[e], db)' /\ \A i \in DOMAIN gap'[e] : ~ gap'[e][i].live
    BY Zenon DEF OrderInv, Bounded
  <2>3. ASSUME NEW s \in Subscribers PROVE StreamInv(s)'
    <3>1. PICK g, c, v, d : g = got[s] /\ c = chan[s] /\ v = wire /\ d = db
      BY Zenon
    <3>2. Stream(g, c, v, d)
      BY Zenon, <3>1, StreamNow DEF OrderInv
    <3>3. Before(g, w) /\ Before(c, w)
      BY Zenon, <3>1 DEF Before, Live
    <3>4. Stream(g, c, w, d)
      BY Zenon, <3>2, <3>3 DEF Stream
    <3> QED  BY Zenon, <3>1, <3>4, <1>StreamNext
  <2> QED  BY Zenon, <2>1, <2>2, <2>3 DEF OrderInv

<1>OrderPrefix.
    ASSUME IInv, OrderInv, NEW w \in Seq(Payloads \cup {Junk}), wire' = w,
           \A i \in DOMAIN w : i \in DOMAIN wire /\ w[i] = wire[i],
           UNCHANGED <<gap, got, chan, db>>
    PROVE  OrderInv'
  <2> USE <1>OrderPrefix
  <2>1. Ordered(w) /\ Bounded(w, db)
    BY Zenon DEF OrderInv, Ordered, Bounded
  <2>2. \A s \in Subscribers : Before(got[s], w) /\ Before(chan[s], w)
    BY Zenon DEF OrderInv, StreamInv, Stream, Before
  <2> QED  BY Zenon, <2>1, <2>2, <1>OrderWire

<1>OrderGapSelect.
    ASSUME IInv, OrderInv, NEW e \in Engagements, NEW last_seen \in 0..db[e], GapSelect(e, last_seen)
    PROVE  OrderInv'
  <2> USE <1>OrderGapSelect
  <2>1. PICK last \in Nat : last = db[e]
    BY DEF IInv, TypeOK
  <2>2. PICK rows : rows = GapRows(e, last_seen + 1, last)
    BY Zenon
  <2>3. gap' = [gap EXCEPT ![e] = rows] /\ UNCHANGED <<wire, got, chan, db>>
    BY Zenon, <2>1, <2>2 DEF GapRows, GapSelect, SelectRows, connVars, chanVars, subVars
  <2>4. last_seen \in Nat
    BY <2>1
  <2>5. DOMAIN rows = 1..(last - (last_seen + 1) + 1)
    BY Zenon, <2>2 DEF GapRows
  <2>6. \A i \in DOMAIN rows :
            rows[i].engagement_id = e /\ ~ rows[i].live /\ rows[i].sequence <= db[e]
    <3> TAKE i \in DOMAIN rows
    <3>1. rows[i] = Payload(e, last_seen + 1 + i - 1, FALSE)
      BY Zenon, <2>2, <2>5 DEF GapRows
    <3>2. last_seen + 1 + i - 1 <= last
      BY <2>4, <2>5
    <3> QED  BY <3>1, <3>2, <2>1 DEF Payload
  <2>7. Ordered(wire)' /\ Bounded(wire, db)'
    BY Zenon, <2>3 DEF OrderInv, Ordered, Bounded, Live
  <2>8. ASSUME NEW f \in Engagements
        PROVE  Bounded(gap[f], db)' /\ \A i \in DOMAIN gap'[f] : ~ gap'[f][i].live
    <3>1. CASE f = e
      <4>1. gap'[f] = rows
        BY Zenon, <3>1, <2>3 DEF IInv, TypeOK
      <4> QED  BY Zenon, <4>1, <2>3, <2>6 DEF Bounded
    <3>2. CASE f # e
      <4>1. gap'[f] = gap[f]
        BY Zenon, <3>2, <2>3 DEF IInv, TypeOK
      <4> QED  BY Zenon, <4>1, <2>3 DEF OrderInv, Bounded
    <3> QED  BY Zenon, <3>1, <3>2
  <2>9. ASSUME NEW s \in Subscribers PROVE StreamInv(s)'
    <3>1. PICK g, c, w, d : g = got[s] /\ c = chan[s] /\ w = wire /\ d = db
      BY Zenon
    <3>2. Stream(g, c, w, d)
      BY Zenon, <3>1, StreamNow DEF OrderInv
    <3> QED  BY Zenon, <3>1, <3>2, <2>3, <1>StreamNext
  <2> QED  BY Zenon, <2>7, <2>8, <2>9 DEF OrderInv

<1>OrderGapFan.
    ASSUME IInv, OrderInv, NEW e \in Engagements, GapFan(e)
    PROVE  OrderInv'
  <2> USE <1>OrderGapFan
  <2>1. PICK q, p : q = gap[e] /\ p = Head(q)
    BY Zenon
  <2>2. /\ q \in Seq(Payloads) /\ q # <<>> /\ gap' = [gap EXCEPT ![e] = Tail(q)]
        /\ UNCHANGED <<wire, db, got>>
    BY Zenon, <2>1 DEF GapFan, connVars, subVars, IInv, TypeOK
  <2>3. Fanout(p)
    BY Zenon, <2>1 DEF GapFan, Fanout, Retained, Matching, EventOf, Event
  <2>4. p \in Payloads
    BY Zenon, <2>1, <2>2, TailFacts
  <2>5. wire = <<>>
    BY Zenon, <2>1, <2>2 DEF IInv, PhaseInv
  <2>6. PICK d : d = db
    BY Zenon
  <2>7. Bounded(q, d) /\ \A i \in DOMAIN q : ~ q[i].live
    BY Zenon, <2>1, <2>6 DEF OrderInv, Bounded
  <2>8. /\ Bounded(Tail(q), d)
        /\ p.engagement_id \in Engagements => p.sequence <= d[p.engagement_id]
    BY Zenon, <2>1, <2>2, <2>7, OrderTail
  <2>9. ~ p.live /\ \A i \in DOMAIN Tail(q) : ~ Tail(q)[i].live
    <3>1. /\ q[1] = p /\ 1 \in DOMAIN q
          /\ \A i \in DOMAIN Tail(q) : i + 1 \in DOMAIN q /\ Tail(q)[i] = q[i + 1]
      BY <2>1, <2>2, TailFacts
    <3> QED  BY Zenon, <3>1, <2>7
  <2>10. Ordered(wire)' /\ Bounded(wire, db)'
    BY Zenon, <2>2 DEF OrderInv, Ordered, Bounded, Live
  <2>11. ASSUME NEW f \in Engagements
         PROVE  Bounded(gap[f], db)' /\ \A i \in DOMAIN gap'[f] : ~ gap'[f][i].live
    <3>1. CASE f = e
      <4>1. gap'[f] = Tail(q)
        BY Zenon, <3>1, <2>2 DEF IInv, TypeOK
      <4>2. PICK a : a = Tail(q)
        BY Zenon
      <4>3. Bounded(a, d) /\ \A i \in DOMAIN a : ~ a[i].live
        BY Zenon, <4>2, <2>8, <2>9
      <4> QED  BY Zenon, <4>1, <4>2, <4>3, <2>2, <2>6 DEF Bounded
    <3>2. CASE f # e
      <4>1. gap'[f] = gap[f]
        BY Zenon, <3>2, <2>2 DEF IInv, TypeOK
      <4> QED  BY Zenon, <4>1, <2>2 DEF OrderInv, Bounded
    <3> QED  BY Zenon, <3>1, <3>2
  <2>12. ASSUME NEW s \in Subscribers PROVE StreamInv(s)'
    <3>1. PICK g \in Seq(Payloads \cup {Lagged}), c \in Seq(Payloads), w \in Seq(Payloads \cup {Junk}) :
              g = got[s] /\ c = chan[s] /\ w = wire
      BY Zenon DEF IInv, TypeOK
    <3>2. Stream(g, c, w, d)
      BY Zenon, <3>1, <2>6, StreamNow DEF OrderInv
    <3>3. Below(g, p) /\ Below(c, p)
      BY Zenon, <2>9 DEF Below, Live
    <3>4. Above(p, w)
      BY SMTT(30), <3>1, <2>5 DEF Above
    <3>5. Stream(g, Append(c, p), w, d) /\ (c # <<>> => Stream(g, Append(Tail(c), p), w, d))
      BY Zenon, <3>2, <3>3, <3>4, <2>4, <2>8, <1>StreamFan
    <3>6. PICK b : b = chan'[s]
      BY Zenon
    <3>7. b = c \/ b = Append(c, p) \/ (c # <<>> /\ b = Append(Tail(c), p))
      BY Zenon, <3>1, <3>6, <2>3, <2>4, FanoutOne DEF IInv
    <3>8. Stream(g, b, w, d)
      BY Zenon, <3>2, <3>5, <3>7
    <3> QED  BY Zenon, <3>1, <3>6, <3>8, <2>2, <2>6, <1>StreamNext
  <2> QED  BY Zenon, <2>10, <2>11, <2>12 DEF OrderInv

<1>OrderHandle.
    ASSUME IInv, OrderInv, RecvOk \/ HealthCheckOk
    PROVE  OrderInv'
  <2> USE <1>OrderHandle
  <2>1. PICK w, p : w = wire /\ p = Head(w)
    BY Zenon
  <2>2. /\ w \in Seq(Payloads \cup {Junk}) /\ w # <<>> /\ wire' = Tail(w)
        /\ UNCHANGED <<db, gap, got>>
    BY Zenon, <2>1 DEF RecvOk, HealthCheckOk, dbVars, subVars, IInv, TypeOK
  <2>3. PICK v \in Seq(Payloads \cup {Junk}) : v = Tail(w)
    BY Zenon, <2>2, TailFacts
  <2>4. p \in Payloads \cup {Junk}
    BY Zenon, <2>1, <2>2, TailFacts
  <2>5. Ordered(w)
    BY Zenon, <2>1 DEF OrderInv, Ordered
  <2>6. Ordered(v) /\ Above(p, v)
    BY Zenon, <2>1, <2>2, <2>3, <2>5, OrderTail
  <2>7. PICK d : d = db
    BY Zenon
  <2>b. Bounded(w, d)
    BY Zenon, <2>1, <2>7 DEF OrderInv, Bounded
  <2>c. Bounded(v, d) /\ (p.engagement_id \in Engagements => p.sequence <= d[p.engagement_id])
    BY Zenon, <2>1, <2>2, <2>3, <2>b, OrderTail
  <2>8. Ordered(wire)' /\ Bounded(wire, db)'
    BY Zenon, <2>2, <2>3, <2>6, <2>7, <2>c DEF Ordered, Bounded, Live
  <2>9. \A e \in Engagements : Bounded(gap[e], db)' /\ \A i \in DOMAIN gap'[e] : ~ gap'[e][i].live
    BY Zenon, <2>2 DEF OrderInv, Bounded
  <2>10. ASSUME NEW s \in Subscribers PROVE StreamInv(s)'
    <3>1. PICK g \in Seq(Payloads \cup {Lagged}), c \in Seq(Payloads) : g = got[s] /\ c = chan[s]
      BY Zenon DEF IInv, TypeOK
    <3>2. Stream(g, c, w, d)
      BY Zenon, <3>1, <2>1, <2>7, StreamNow DEF OrderInv
    <3>3. Before(g, v) /\ Below(g, p)
      BY Zenon, <2>1, <2>2, <2>3, <3>2, OrderTail DEF Stream
    <3>4. Before(c, v) /\ Below(c, p)
      BY Zenon, <2>1, <2>2, <2>3, <3>2, OrderTail DEF Stream
    <3>5. Stream(g, c, v, d)
      BY Zenon, <3>2, <3>3, <3>4 DEF Stream
    <3>6. PICK b : b = chan'[s]
      BY Zenon
    <3>7. Stream(g, b, v, d)
      <4>1. CASE p = Junk
        <5>1. b = c
          BY Zenon, <3>1, <3>6, <4>1, <2>1 DEF RecvOk, HealthCheckOk, HandleNotification, chanVars
        <5> QED  BY Zenon, <5>1, <3>5
      <4>2. CASE p # Junk
        <5>1. p \in Payloads
          BY Zenon, <4>2, <2>4
        <5>2. Fanout(p)
          BY Zenon, <2>1, <4>2 DEF RecvOk, HealthCheckOk, HandleNotification, Fanout, Retained, Matching,
                            EventOf, Event
        <5>3. b = c \/ b = Append(c, p) \/ (c # <<>> /\ b = Append(Tail(c), p))
          BY Zenon, <3>1, <3>6, <5>1, <5>2, FanoutOne DEF IInv
        <5>5. Stream(g, Append(c, p), v, d) /\ (c # <<>> => Stream(g, Append(Tail(c), p), v, d))
          BY Zenon, <3>3, <3>4, <3>5, <5>1, <2>6, <2>c, <1>StreamFan
        <5> QED  BY Zenon, <3>5, <5>3, <5>5
      <4> QED  BY Zenon, <4>1, <4>2
    <3> QED  BY Zenon, <3>1, <3>6, <3>7, <2>2, <2>3, <2>7, <1>StreamNext
  <2> QED  BY Zenon, <2>8, <2>9, <2>10 DEF OrderInv

<1>OrderJunk.
    ASSUME IInv, OrderInv, NotifyJunk
    PROVE  OrderInv'
  <2> USE <1>OrderJunk
  <2>1. PICK w \in Seq(Payloads \cup {Junk}) : w = wire
    BY Zenon DEF IInv, TypeOK
  <2>2. wire' = Append(w, Junk) /\ UNCHANGED <<gap, got, chan, db>>
    BY Zenon, <2>1 DEF NotifyJunk, chanVars, subVars
  <2>3. ~ Live(Junk)
    BY Zenon DEF Live, Junk, Payload
  <2>4. PICK v \in Seq(Payloads \cup {Junk}) : v = Append(w, Junk)
    BY Zenon, AppendFacts
  <2>5. Ordered(w)
    BY Zenon, <2>1 DEF OrderInv, Ordered
  <2>6. Ordered(v)
    <3>1. Below(w, Junk)
      BY Zenon, <2>3 DEF Below
    <3>2. Junk \in (Payloads \cup {Junk}) \cap (Payloads \cup {Junk})
      BY Zenon
    <3> QED  BY Zenon, <2>4, <2>5, <3>1, <3>2, OrderAppend
  <2>a. /\ \A i \in DOMAIN w : v[i] = w[i]
        /\ \A i \in DOMAIN v : i \in DOMAIN w \/ v[i] = Junk
    <3>1. Extends(v, w, Len(w), Junk)
      BY Zenon, <2>4, AppendExtends
    <3> QED  BY Zenon, <3>1 DEF Extends
  <2>7. \A i \in DOMAIN v : Live(v[i]) => i \in DOMAIN w /\ v[i] = w[i]
    BY Zenon, <2>3, <2>a
  <2>b. Bounded(v, db)
    <3>1. \A i \in DOMAIN v : v[i].engagement_id \in Engagements => i \in DOMAIN w /\ v[i] = w[i]
      <4>1. Junk.engagement_id \notin Engagements
        BY Zenon, NamesAssumption DEF Junk, Payload
      <4> QED  BY Zenon, <4>1, <2>a
    <3> QED  BY Zenon, <3>1, <2>1 DEF OrderInv, Bounded
  <2>8. \A s \in Subscribers : Before(got[s], v) /\ Before(chan[s], v)
    BY Zenon, <2>1, <2>7 DEF OrderInv, StreamInv, Stream, Before
  <2> QED  BY Zenon, <2>2, <2>4, <2>6, <2>b, <2>8, <1>OrderWire

<1>OrderLose.
    ASSUME IInv, OrderInv, NEW n \in 0..Len(wire), LoseConnection(n)
    PROVE  OrderInv'
  <2> USE <1>OrderLose
  <2>1. PICK w \in Seq(Payloads \cup {Junk}) : w = wire
    BY Zenon DEF IInv, TypeOK
  <2>2. PICK v : v = SubSeq(w, 1, n)
    BY Zenon
  <2>3. wire' = v /\ UNCHANGED <<gap, got, chan, db>>
    BY Zenon, <2>1, <2>2 DEF LoseConnection, dbVars, chanVars, subVars
  <2>4. n \in 0..Len(w) /\ Len(w) \in Nat /\ DOMAIN w = 1..Len(w)
    BY <2>1
  <2>5. v \in Seq(Payloads \cup {Junk}) /\ \A i \in DOMAIN v : i \in DOMAIN w /\ v[i] = w[i]
    <3>1. w \in Seq(Payloads \cup {Junk})
      BY Zenon, <2>1
    <3>2. v \in Seq(Payloads \cup {Junk}) /\ Len(v) = n /\ \A i \in 1..n : v[i] = w[i]
      BY <2>2, <2>4, <3>1
    <3>3. DOMAIN v = 1..n /\ \A i \in 1..n : i \in 1..Len(w)
      BY SMTT(30), <2>4, <3>2
    <3> QED  BY Zenon, <2>4, <3>2, <3>3
  <2> QED  BY Zenon, <2>1, <2>3, <2>5, <1>OrderPrefix

<1>OrderReturn.
    ASSUME IInv, OrderInv, Return
    PROVE  OrderInv'
  <2> USE <1>OrderReturn
  <2>0. <<>> \in Seq(Payloads \cup {Junk})
    OBVIOUS
  <2>1. PICK v \in Seq(Payloads \cup {Junk}) : v = <<>>
    BY Zenon, <2>0
  <2>2. wire' = v /\ UNCHANGED <<gap, got, chan, db>>
    BY Zenon, <2>1 DEF Return, dbVars, chanVars, subVars
  <2>3. \A i \in DOMAIN v : i \in DOMAIN wire /\ v[i] = wire[i]
    BY <2>1
  <2> QED  BY Zenon, <2>2, <2>3, <1>OrderPrefix

<1>OrderCommit.
    ASSUME IInv, OrderInv, NEW e \in Engagements, Commit(e)
    PROVE  OrderInv'
  <2> USE <1>OrderCommit
  <2>1. PICK n \in 1..MaxEvents : n = db[e] + 1
    BY BoundsAssumption DEF Commit, IInv, TypeOK
  <2>2. PICK d \in [Engagements -> 0..MaxEvents] : d = db
    BY Zenon DEF IInv, TypeOK
  <2>3. PICK b : b = [d EXCEPT ![e] = n]
    BY Zenon
  <2>4. PICK w \in Seq(Payloads \cup {Junk}), p \in Payloads : w = wire /\ p = Payload(e, n, TRUE)
    BY Zenon, PayloadFacts DEF IInv, TypeOK
  <2>5. PICK v : v = IF conn THEN Append(w, p) ELSE w
    BY Zenon
  <2>6. db' = b /\ wire' = v /\ UNCHANGED <<gap, got, chan>>
    BY Zenon, <2>1, <2>2, <2>3, <2>4, <2>5 DEF Commit, CommitRow, chanVars, subVars
  <2>7. p.engagement_id = e /\ p.sequence = n
    BY Zenon, <2>4 DEF Payload
  <2>8. /\ d[e] \in Nat /\ n = d[e] + 1 /\ b[e] = n
        /\ \A f \in Engagements : d[f] \in Nat /\ b[f] \in Nat /\ d[f] <= b[f]
    BY <2>1, <2>2, <2>3, BoundsAssumption
  <2>9. ASSUME NEW S, NEW q \in Seq(S), Bounded(q, d),
               \A i \in DOMAIN q : q[i].engagement_id \in Engagements => q[i].sequence \in Nat
        PROVE  Bounded(q, b) /\ Below(q, p)
    <3>0. \A i \in DOMAIN q, f \in Engagements : q[i].engagement_id = f
              => q[i].sequence \in Nat /\ q[i].sequence <= d[f]
      BY Zenon, <2>9 DEF Bounded
    <3>1. Bounded(q, b)
      <4> SUFFICES ASSUME NEW i \in DOMAIN q, NEW f \in Engagements, q[i].engagement_id = f
                   PROVE  q[i].sequence <= b[f]
        BY Zenon DEF Bounded
      <4>1. PICK k \in Nat : k = q[i].sequence /\ k <= d[f]
        BY Zenon, <3>0
      <4>2. d[f] \in Nat /\ b[f] \in Nat /\ d[f] <= b[f]
        BY Zenon, <2>8
      <4>3. k <= b[f]
        BY Zenon, <4>1, <4>2, Arithmetic
      <4> QED  BY Zenon, <4>1, <4>3
    <3>2. Below(q, p)
      <4> SUFFICES ASSUME NEW i \in DOMAIN q, q[i].engagement_id = e PROVE q[i].sequence < n
        BY Zenon, <2>7 DEF Below
      <4>1. PICK k \in Nat : k = q[i].sequence /\ k <= d[e]
        BY Zenon, <3>0
      <4>2. d[e] \in Nat /\ n = d[e] + 1
        BY Zenon, <2>8
      <4>3. k < n
        BY Zenon, <4>1, <4>2, Arithmetic
      <4> QED  BY Zenon, <4>1, <4>3
    <3> QED  BY Zenon, <3>1, <3>2
  <2>10. \A m \in Payloads \cup {Junk, Lagged} : m.engagement_id \in Engagements => m.sequence \in Nat
    BY BoundsAssumption DEF Payloads, Junk, Lagged, Payload
  <2>11. Ordered(w) /\ Bounded(w, d)
    BY Zenon, <2>2, <2>4 DEF OrderInv, Ordered, Bounded
  <2>12. Bounded(w, b) /\ Below(w, p)
    <3>1. \A i \in DOMAIN w : w[i] \in Payloads \cup {Junk, Lagged}
      OBVIOUS
    <3> QED  BY Zenon, <3>1, <2>9, <2>10, <2>11
  <2>13. p \in (Payloads \cup {Junk}) \cap (Payloads \cup {Junk})
         /\ p \in (Payloads \cup {Lagged}) \cap (Payloads \cup {Junk})
         /\ p \in Payloads \cap (Payloads \cup {Junk})
    BY Zenon
  <2>14. Ordered(v) /\ Bounded(v, b)
    <3>1. p.sequence <= b[p.engagement_id]
      <4>1. n <= n
        BY <2>8
      <4> QED  BY Zenon, <4>1, <2>7, <2>8
    <3>2. Ordered(Append(w, p)) /\ Bounded(Append(w, p), b)
      BY Zenon, <3>1, <2>11, <2>12, <2>13, OrderAppend
    <3> QED  BY Zenon, <3>2, <2>5, <2>11, <2>12
  <2>15. Ordered(wire)' /\ Bounded(wire, db)'
    BY Zenon, <2>6, <2>14 DEF Ordered, Bounded, Live
  <2>16. ASSUME NEW f \in Engagements
         PROVE  Bounded(gap[f], db)' /\ \A i \in DOMAIN gap'[f] : ~ gap'[f][i].live
    <3>1. PICK q \in Seq(Payloads) : q = gap[f]
      BY Zenon DEF IInv, TypeOK
    <3>2. Bounded(q, d)
      BY Zenon, <3>1, <2>2 DEF OrderInv, Bounded
    <3>3. \A i \in DOMAIN q : q[i] \in Payloads \cup {Junk, Lagged}
      BY SMTT(30)
    <3>4. Bounded(q, b)
      BY Zenon, <3>2, <3>3, <2>9, <2>10
    <3> QED  BY Zenon, <3>1, <3>4, <2>6 DEF OrderInv, Bounded
  <2>17. ASSUME NEW s \in Subscribers PROVE StreamInv(s)'
    <3>1. PICK g \in Seq(Payloads \cup {Lagged}), c \in Seq(Payloads) : g = got[s] /\ c = chan[s]
      BY Zenon DEF IInv, TypeOK
    <3>2. Stream(g, c, w, d)
      BY Zenon, <3>1, <2>2, <2>4, StreamNow DEF OrderInv
    <3>3. (\A i \in DOMAIN g : g[i] \in Payloads \cup {Junk, Lagged})
          /\ (\A i \in DOMAIN c : c[i] \in Payloads \cup {Junk, Lagged})
      OBVIOUS
    <3>4. Bounded(g, b) /\ Below(g, p)
      BY Zenon, <3>2, <3>3, <2>9, <2>10 DEF Stream
    <3>5. Bounded(c, b) /\ Below(c, p)
      BY Zenon, <3>2, <3>3, <2>9, <2>10 DEF Stream
    <3>6. Before(g, Append(w, p))
      BY Zenon, <3>2, <3>4, <2>13, OrderAppend DEF Stream
    <3>7. Before(c, Append(w, p))
      BY Zenon, <3>2, <3>5, <2>13, OrderAppend DEF Stream
    <3>8. Before(g, v) /\ Before(c, v)
      BY Zenon, <3>2, <3>6, <3>7, <2>5 DEF Stream
    <3>9. Stream(g, c, v, b)
      BY Zenon, <3>2, <3>4, <3>5, <3>8 DEF Stream
    <3> QED  BY Zenon, <3>1, <3>9, <2>6, <1>StreamNext
  <2> QED  BY Zenon, <2>15, <2>16, <2>17 DEF OrderInv

<1>OrderRead.
    ASSUME IInv, OrderInv, NEW r \in Subscribers, Read(r) \/ DropReceiver(r)
    PROVE  OrderInv'
  <2> USE <1>OrderRead
  <2>0. PICK d : d = db
    BY Zenon
  <2>1. PICK w \in Seq(Payloads \cup {Junk}) : w = wire /\ d = db
    BY Zenon, <2>0 DEF IInv, TypeOK
  <2>2. PICK c \in Seq(Payloads), g \in Seq(Payloads \cup {Lagged}) : c = chan[r] /\ g = got[r]
    BY Zenon DEF IInv, TypeOK
  <2>3. UNCHANGED <<wire, db, gap>>
    BY Zenon DEF Read, DropReceiver, connVars, dbVars
  <2>4. \/ chan' = chan /\ got' = [got EXCEPT ![r] = Append(g, Lagged)]
        \/ /\ c # <<>> /\ chan' = [chan EXCEPT ![r] = Tail(c)]
           /\ got' = [got EXCEPT ![r] = Append(g, Head(c))]
        \/ chan' = [chan EXCEPT ![r] = <<>>] /\ got' = got
    BY Zenon, <2>2 DEF Read, DropReceiver
  <2>5. Ordered(wire)' /\ Bounded(wire, db)'
    BY Zenon, <2>3 DEF OrderInv, Ordered, Bounded, Live
  <2>6. \A e \in Engagements : Bounded(gap[e], db)' /\ \A i \in DOMAIN gap'[e] : ~ gap'[e][i].live
    BY Zenon, <2>3 DEF OrderInv, Bounded
  <2>7. Stream(g, c, w, d)
    BY Zenon, <2>1, <2>2, StreamNow DEF OrderInv
  <2>8. Stream(Append(g, Lagged), c, w, d)
    <3>1. Lagged.engagement_id = None /\ ~ Live(Lagged)
      BY Zenon DEF Lagged, Payload, Live
    <3>2. Below(g, Lagged) /\ Above(Lagged, c) /\ Above(Lagged, w)
      BY Zenon, <3>1 DEF Below, Above, Live
    <3>3. Lagged.engagement_id \notin Engagements
      BY Zenon, <3>1, NamesAssumption
    <3>4. Lagged \in (Payloads \cup {Lagged}) \cap (Payloads \cup {Lagged})
          /\ c \in Seq(Payloads \cup {Lagged}) /\ w \in Seq(Payloads \cup {Junk, Lagged})
          /\ Lagged \in (Payloads \cup {Lagged}) \cap (Payloads \cup {Junk, Lagged})
      OBVIOUS
    <3>5. Ordered(Append(g, Lagged)) /\ Bounded(Append(g, Lagged), d)
          /\ Before(Append(g, Lagged), c)
      BY Zenon, <2>7, <3>2, <3>3, <3>4, OrderAppend DEF Stream
    <3>6. Before(Append(g, Lagged), w)
      BY Zenon, <2>7, <3>2, <3>4, OrderAppend DEF Stream
    <3> QED  BY Zenon, <2>7, <3>5, <3>6 DEF Stream
  <2>9. ASSUME c # <<>> PROVE Stream(Append(g, Head(c)), Tail(c), w, d)
    <3>1. PICK p \in Payloads, b \in Seq(Payloads) : p = Head(c) /\ b = Tail(c)
      BY Zenon, <2>9, TailFacts
    <3>2. /\ Ordered(b) /\ Above(p, b) /\ Before(b, w) /\ Above(p, w) /\ Bounded(b, d)
          /\ p.engagement_id \in Engagements => p.sequence <= d[p.engagement_id]
      BY Zenon, <2>7, <2>9, <3>1, OrderTail DEF Stream
    <3>3. Before(g, b) /\ Below(g, p)
      BY Zenon, <2>7, <2>9, <3>1, OrderTail DEF Stream
    <3>4. p \in (Payloads \cup {Lagged}) \cap Payloads
          /\ p \in (Payloads \cup {Lagged}) \cap (Payloads \cup {Junk})
      BY Zenon, <3>1
    <3>5. Ordered(Append(g, p)) /\ Bounded(Append(g, p), d) /\ Before(Append(g, p), b)
      BY Zenon, <2>7, <3>2, <3>3, <3>4, OrderAppend DEF Stream
    <3>6. Before(Append(g, p), w)
      BY Zenon, <2>7, <3>2, <3>4, OrderAppend DEF Stream
    <3> QED  BY Zenon, <3>1, <3>2, <3>5, <3>6 DEF Stream
  <2>10. Stream(g, <<>>, w, d)
    <3>1. \A i \in DOMAIN << >> : FALSE
      BY Zenon, NoIndex
    <3>2. Ordered(<<>>) /\ Before(g, <<>>) /\ Before(<<>>, w) /\ Bounded(<<>>, d)
      BY Zenon, <3>1 DEF Ordered, Before, Bounded
    <3> QED  BY Zenon, <2>7, <3>2 DEF Stream
  <2>11. ASSUME NEW s \in Subscribers PROVE StreamInv(s)'
    <3>1. PICK a, b : a = got'[s] /\ b = chan'[s]
      BY Zenon
    <3>2. CASE s = r
      <4>1. \/ b = c /\ a = Append(g, Lagged)
            \/ c # <<>> /\ b = Tail(c) /\ a = Append(g, Head(c))
            \/ b = <<>> /\ a = g
        BY Zenon, <3>1, <3>2, <2>2, <2>4 DEF IInv, TypeOK
      <4>2. Stream(a, b, w, d)
        BY Zenon, <4>1, <2>8, <2>9, <2>10
      <4> QED  BY Zenon, <4>2, <3>1, <2>1, <2>3, <1>StreamNext
    <3>3. CASE s # r
      <4>1. a = got[s] /\ b = chan[s]
        BY Zenon, <3>1, <3>3, <2>4 DEF IInv, TypeOK
      <4>2. Stream(a, b, w, d)
        BY Zenon, <4>1, <2>1, StreamNow DEF OrderInv
      <4> QED  BY Zenon, <4>2, <3>1, <2>1, <2>3, <1>StreamNext
    <3> QED  BY Zenon, <3>2, <3>3
  <2> QED  BY Zenon, <2>5, <2>6, <2>11 DEF OrderInv
<1> SUFFICES ASSUME IInv, OrderInv, [Next]_vars PROVE OrderInv'
  BY Zenon
<1>1. CASE \E s \in Subscribers, k \in Engagements \cup Batches : Subscribe(s, k)
  BY Zenon, <1>1, <1>OrderSame DEF Subscribe, connVars, dbVars, chanVars
<1>2. CASE \E e \in Engagements : \E last_seen \in 0..db[e] : GapSelect(e, last_seen)
  BY Zenon, <1>2, <1>OrderGapSelect
<1>3. CASE \E e \in Engagements : GapFan(e)
  BY Zenon, <1>3, <1>OrderGapFan
<1>4. CASE Run \/ StartConnect \/ ConnectFails \/ BackoffOver \/ ConnectionError \/ Shutdown
  BY Zenon, <1>4, <1>OrderSame DEF Run, StartConnect, ConnectFails, BackoffOver, ConnectionError, Shutdown,
                         dbVars, chanVars, subVars
<1>5. CASE ConnectOk
  <2>1. wire' = wire
    BY Zenon, <1>5 DEF ConnectOk, IInv, PhaseInv, Attending
  <2> QED  BY Zenon, <1>5, <2>1, <1>OrderSame DEF ConnectOk, dbVars, chanVars, subVars
<1>6. CASE CheckShutdown \/ ShutdownChanged
  BY Zenon, <1>6, <1>OrderReturn DEF CheckShutdown, ShutdownChanged
<1>7. CASE RecvOk \/ HealthCheckOk
  BY Zenon, <1>7, <1>OrderHandle
<1>8. CASE NotifyJunk
  BY Zenon, <1>8, <1>OrderJunk
<1>9. CASE \E n \in 0..Len(wire) : LoseConnection(n)
  BY Zenon, <1>9, <1>OrderLose
<1>10. CASE \E s \in Subscribers : Read(s) \/ DropReceiver(s)
  BY Zenon, <1>10, <1>OrderRead
<1>11. CASE \E e \in Engagements : Commit(e)
  BY Zenon, <1>11, <1>OrderCommit
<1>12. CASE UNCHANGED vars
  BY Zenon, <1>12, <1>OrderSame DEF vars, connVars, dbVars, chanVars, subVars
<1>13. CASE Quiet
  BY Zenon, <1>13, <1>OrderSame, QuietStep
<1> QED
  BY Zenon, <1>1, <1>2, <1>3, <1>4, <1>5, <1>6, <1>7, <1>8, <1>9, <1>10, <1>11, <1>12, <1>13
     DEF Next, ManagerNext, Quiet

-----------------------------------------------------------------------------
(* What kind of payload is where. *)

\* Every payload in q is of an engagement that a subscriber under k wants.
WantedBy(k, q) ==
    \A i \in DOMAIN q : q[i].engagement_id \in Engagements
        => k \in {q[i].engagement_id, BatchOf[q[i].engagement_id]} \ {None}

NoLive(q) == \A i \in DOMAIN q : ~ Live(q[i])

\* Nothing that gap_fill read follows a live payload.
LiveLast(q) == \A i, j \in DOMAIN q : i < j /\ Live(q[i]) => Live(q[j])

Kind(k, g, c, ph) ==
    /\ WantedBy(k, g) /\ WantedBy(k, c) /\ LiveLast(c)
    /\ ph = "owned" => NoLive(g) /\ NoLive(c)

KindOf(s) == Kind(key[s], got[s], chan[s], phase)

\* The wire carries live payloads, a gap_fill the rows of its engagement; a
\* subscriber is sent what it wants, and nothing live before run.
KindInv ==
    /\ \A i \in DOMAIN wire : wire[i] # Junk => Live(wire[i])
    /\ \A e \in Engagements : \A i \in DOMAIN gap[e] : gap[e][i].engagement_id = e
    /\ \A s \in Subscribers : KindOf(s)

LEMMA KindNow ==
  ASSUME NEW s, NEW k, NEW g, NEW c, NEW ph,
         k = key[s], g = got[s], c = chan[s], ph = phase
  PROVE  KindOf(s) <=> Kind(k, g, c, ph)
BY Zenon DEF KindOf

LEMMA KindTail ==
  ASSUME NEW S, NEW q \in Seq(S), q # <<>>, NEW k
  PROVE  /\ WantedBy(k, q) => WantedBy(k, Tail(q))
         /\ NoLive(q) => NoLive(Tail(q)) /\ ~ Live(Head(q))
         /\ LiveLast(q) => LiveLast(Tail(q))
<1>1. PICK t : t = Tail(q)
  BY Zenon
<1>2. \A i \in DOMAIN t : i \in Nat /\ i + 1 \in DOMAIN q /\ t[i] = q[i + 1]
  BY <1>1, TailFacts
<1>3. 1 \in DOMAIN q /\ Head(q) = q[1]
  OBVIOUS
<1>4. \A i, j \in DOMAIN t : i < j => i + 1 < j + 1
  BY <1>2
<1>5. WantedBy(k, q) => WantedBy(k, t)
  BY Zenon, <1>2 DEF WantedBy
<1>6. NoLive(q) => NoLive(t) /\ ~ Live(Head(q))
  BY Zenon, <1>2, <1>3 DEF NoLive
<1>7. LiveLast(q) => LiveLast(t)
  BY Zenon, <1>2, <1>4 DEF LiveLast
<1> QED  BY Zenon, <1>1, <1>5, <1>6, <1>7

LEMMA KindAppend ==
  ASSUME NEW S, NEW q \in Seq(S), NEW p \in S, NEW k
  PROVE  /\ /\ WantedBy(k, q)
            /\ p.engagement_id \in Engagements
                   => k \in {p.engagement_id, BatchOf[p.engagement_id]} \ {None}
            => WantedBy(k, Append(q, p))
         /\ NoLive(q) /\ ~ Live(p) => NoLive(Append(q, p))
         /\ LiveLast(q) /\ (NoLive(q) \/ Live(p)) => LiveLast(Append(q, p))
<1>1. PICK a : a = Append(q, p)
  BY Zenon
<1>2. PICK n : n = Len(q) /\ Extends(a, q, n, p)
  BY Zenon, <1>1, AppendExtends
<1>3. \A i \in DOMAIN a : (i \in DOMAIN q /\ a[i] = q[i]) \/ (i = n + 1 /\ a[i] = p)
  BY Zenon, <1>2 DEF Extends
<1>4. \A i \in DOMAIN q : ~ (n + 1 < i) /\ ~ (n + 1 < n + 1)
  BY <1>2
<1>5. /\ WantedBy(k, q)
      /\ p.engagement_id \in Engagements
             => k \in {p.engagement_id, BatchOf[p.engagement_id]} \ {None}
      => WantedBy(k, a)
  BY Zenon, <1>3 DEF WantedBy
<1>6. NoLive(q) /\ ~ Live(p) => NoLive(a)
  BY Zenon, <1>3 DEF NoLive
<1>7. ASSUME LiveLast(q), NoLive(q) \/ Live(p), NEW i \in DOMAIN a, NEW j \in DOMAIN a, i < j, Live(a[i])
      PROVE  Live(a[j])
  <2>1. CASE i \in DOMAIN q /\ a[i] = q[i]
    BY Zenon, <1>3, <1>7, <2>1 DEF LiveLast, NoLive
  <2>2. CASE i = n + 1
    <3>1. i \in DOMAIN a /\ ~ (n + 1 < n + 1)
      BY <1>2 DEF Extends
    <3>2. ~ (j \in DOMAIN q) /\ ~ (j = n + 1)
      BY Zenon, <1>4, <1>7, <2>2, <3>1
    <3> QED  BY Zenon, <1>3, <3>2
  <2> QED  BY Zenon, <1>3, <2>1, <2>2
<1>8. LiveLast(q) /\ (NoLive(q) \/ Live(p)) => LiveLast(a)
  BY Zenon, <1>7 DEF LiveLast
<1> QED  BY Zenon, <1>1, <1>5, <1>6, <1>8

LEMMA FanoutLags ==
  ASSUME TypeOK, NEW p \in Payloads, Fanout(p), NEW s \in Subscribers
  PROVE  \/ /\ ~ (s \in Matching(p) /\ alive[s])
            /\ chan'[s] = chan[s] /\ lagging'[s] = lagging[s]
         \/ /\ s \in Matching(p) /\ alive[s]
            /\ \/ chan'[s] = Append(chan[s], p) /\ lagging'[s] = lagging[s]
               \/ /\ chan[s] # <<>> /\ chan'[s] = Append(Tail(chan[s]), p)
                  /\ lagging'[s] = TRUE
<1> DEFINE sent == {t \in Matching(p) : alive[t]}
           full == {t \in sent : Len(chan[t]) = CHANNEL_CAP}
<1>1. chan'[s] = IF s \notin sent THEN chan[s]
                 ELSE Append(IF s \in full THEN Tail(chan[s]) ELSE chan[s], p)
  BY Zenon DEF Fanout
<1>2. lagging'[s] = (lagging[s] \/ s \in full)
  BY Zenon DEF Fanout
<1>3. s \in full => chan[s] # <<>>
  BY Zenon, BoundsAssumption
<1>4. (s \in full => s \in sent) /\ (s \in sent <=> s \in Matching(p) /\ alive[s])
  BY Zenon
<1>5. lagging[s] \in BOOLEAN
  BY Zenon DEF TypeOK
<1> HIDE DEF sent, full
<1>6. CASE s \in full
  BY Zenon, <1>1, <1>2, <1>3, <1>4, <1>6
<1>7. CASE s \notin full
  <2>1. lagging'[s] = lagging[s]
    BY <1>2, <1>5, <1>7
  <2> QED  BY Zenon, <1>1, <1>4, <1>7, <2>1
<1> QED  BY Zenon, <1>6, <1>7

LEMMA KindWire ==
  ASSUME KindInv, NEW w, wire = w
  PROVE  \A i \in DOMAIN w : w[i] # Junk => Live(w[i])
BY Zenon DEF KindInv, Live, Junk, Payload

\* KindInv holds of the initial states.
LEMMA KindInit == Init => KindInv
<1> SUFFICES ASSUME Init PROVE KindInv
  BY Zenon
<1>1. \A i \in DOMAIN << >> : FALSE
  BY Zenon, NoIndex
<1>2. /\ wire = <<>> /\ \A e \in Engagements : gap[e] = <<>>
      /\ \A s \in Subscribers : got[s] = <<>> /\ chan[s] = <<>>
  BY Zenon DEF Init
<1>3. \A k, ph : Kind(k, <<>>, <<>>, ph)
  BY Zenon, <1>1 DEF Kind, WantedBy, LiveLast, NoLive
<1>4. \A s \in Subscribers : KindOf(s)
  BY Zenon, <1>2, <1>3 DEF KindOf
<1> QED  BY Zenon, <1>1, <1>2, <1>4 DEF KindInv

\* Every step keeps KindInv.
LEMMA KindNext == IInv /\ OrderInv /\ KindInv /\ [Next]_vars => KindInv'
<1>KindThen.
    ASSUME NEW s, NEW k, NEW g, NEW c, NEW ph,
           k = key'[s], g = got'[s], c = chan'[s], ph = phase'
    PROVE  KindOf(s)' <=> Kind(k, g, c, ph)
  <2> USE <1>KindThen
  <2>1. WantedBy(key[s], got[s])' <=> WantedBy(k, g)
    BY Zenon DEF WantedBy
  <2>2. WantedBy(key[s], chan[s])' <=> WantedBy(k, c)
    BY Zenon DEF WantedBy
  <2>3. LiveLast(chan[s])' <=> LiveLast(c)
    BY Zenon DEF LiveLast, Live
  <2>4. (NoLive(got[s])' <=> NoLive(g)) /\ (NoLive(chan[s])' <=> NoLive(c))
    BY Zenon DEF NoLive, Live
  <2> QED  BY Zenon, <2>1, <2>2, <2>3, <2>4 DEF KindOf, Kind

\* p is fanned out to a channel, whether it overflows or not.
<1>KindFan.
    ASSUME NEW k, NEW g, NEW c \in Seq(Payloads), NEW ph, NEW p \in Payloads,
           Kind(k, g, c, ph), k \in {p.engagement_id, BatchOf[p.engagement_id]} \ {None},
           NoLive(c) \/ Live(p), ph = "owned" => ~ Live(p)
    PROVE  Kind(k, g, Append(c, p), ph) /\ (c # <<>> => Kind(k, g, Append(Tail(c), p), ph))
  <2> USE <1>KindFan
  <2>1. Kind(k, g, Append(c, p), ph)
    BY Zenon, KindAppend DEF Kind
  <2>2. ASSUME c # <<>> PROVE Kind(k, g, Append(Tail(c), p), ph)
    <3>1. PICK t \in Seq(Payloads) : t = Tail(c)
      BY Zenon, <2>2, TailFacts
    <3>2. WantedBy(k, t) /\ LiveLast(t) /\ (NoLive(c) => NoLive(t))
      BY Zenon, <2>2, <3>1, KindTail DEF Kind
    <3>3. /\ WantedBy(k, Append(t, p)) /\ LiveLast(Append(t, p))
          /\ NoLive(t) /\ ~ Live(p) => NoLive(Append(t, p))
      BY Zenon, <3>2, KindAppend
    <3> QED  BY Zenon, <3>1, <3>2, <3>3 DEF Kind
  <2> QED  BY Zenon, <2>1, <2>2

\* The fanout of p to a subscriber, before run or while it listens.
<1>KindFanout.
    ASSUME IInv, NEW p \in Payloads, Fanout(p), NEW s \in Subscribers, KindOf(s),
           UNCHANGED <<key, got>>, phase' = "owned" <=> phase = "owned", phase = "owned" <=> ~ Live(p)
    PROVE  KindOf(s)'
  <2> USE <1>KindFanout
  <2>0. chan[s] \in Seq(Payloads)
    BY Zenon DEF IInv, TypeOK
  <2>1. PICK k, g, c, ph : /\ k = key[s] /\ g = got[s] /\ c = chan[s] /\ ph = phase
                           /\ c \in Seq(Payloads)
    BY Zenon, <2>0
  <2>2. Kind(k, g, c, ph)
    BY Zenon, <2>1, KindNow
  <2>3. PICK b : b = chan'[s]
    BY Zenon
  <2>4. \/ b = c
        \/ s \in Matching(p) /\ (b = Append(c, p) \/ (c # <<>> /\ b = Append(Tail(c), p)))
    BY Zenon, <2>1, <2>3, FanoutLags DEF IInv
  <2>5. s \in Matching(p) => k \in {p.engagement_id, BatchOf[p.engagement_id]} \ {None}
    BY Zenon, <2>1 DEF Matching
  <2>6. (NoLive(c) \/ Live(p)) /\ (ph = "owned" => ~ Live(p))
    BY Zenon, <2>1, <2>2 DEF Kind
  <2>7. ASSUME s \in Matching(p)
        PROVE  Kind(k, g, Append(c, p), ph) /\ (c # <<>> => Kind(k, g, Append(Tail(c), p), ph))
    <3>1. k \in {p.engagement_id, BatchOf[p.engagement_id]} \ {None}
      BY Zenon, <2>5, <2>7
    <3> QED  BY Zenon, <2>1, <2>2, <2>6, <3>1, <1>KindFan
  <2>8. Kind(k, g, b, ph)
    BY Zenon, <2>2, <2>4, <2>7
  <2>9. PICK po : po = phase'
    BY Zenon
  <2>10. Kind(k, g, b, po)
    BY Zenon, <2>1, <2>8, <2>9 DEF Kind
  <2> QED  BY Zenon, <2>1, <2>3, <2>9, <2>10, <1>KindThen

\* Steps that touch no stream.
<1>KindSame.
    ASSUME KindInv, UNCHANGED <<gap, key, got, chan>>, phase' = "owned" => phase = "owned",
           \A i \in DOMAIN wire' : wire'[i] # Junk => Live(wire[i])'
    PROVE  KindInv'
  <2> USE <1>KindSame
  <2>1. ASSUME NEW s \in Subscribers PROVE KindOf(s)'
    <3>1. PICK k, g, c, ph, po :
              /\ k = key[s] /\ g = got[s] /\ c = chan[s]
              /\ ph = phase /\ po = phase'
      BY Zenon
    <3>2. Kind(k, g, c, ph)
      BY Zenon, <3>1, KindNow DEF KindInv
    <3>3. Kind(k, g, c, po)
      BY Zenon, <3>1, <3>2 DEF Kind
    <3> QED  BY Zenon, <3>1, <3>3, <1>KindThen
  <2>2. \A e \in Engagements : \A i \in DOMAIN gap'[e] : gap'[e][i].engagement_id = e
    BY Zenon DEF KindInv
  <2> QED  BY Zenon, <2>1, <2>2 DEF KindInv, Junk, Payload

<1>KindSubscribe.
    ASSUME IInv, KindInv, NEW r \in Subscribers, NEW k \in Engagements \cup Batches, Subscribe(r, k)
    PROVE  KindInv'
  <2> USE <1>KindSubscribe
  <2>1. /\ phase = "owned" /\ key[r] = None /\ key' = [key EXCEPT ![r] = k]
        /\ UNCHANGED <<phase, wire, gap, got, chan>>
    BY Zenon DEF Subscribe, connVars, dbVars, chanVars
  <2>2. (\A i \in DOMAIN wire : wire[i] # Junk => Live(wire[i]))'
    BY Zenon, <2>1 DEF KindInv, Live, Junk, Payload
  <2>3. \A e \in Engagements : \A i \in DOMAIN gap'[e] : gap'[e][i].engagement_id = e
    BY Zenon, <2>1 DEF KindInv
  <2>4. ASSUME NEW s \in Subscribers PROVE KindOf(s)'
    <3>1. PICK m, n, g, c, ph : /\ m = key[s] /\ n = key'[s] /\ g = got[s] /\ c = chan[s]
                                /\ ph = phase
      BY Zenon
    <3>2. Kind(m, g, c, ph)
      BY Zenon, <3>1, KindNow DEF KindInv
    <3>3. m = None \/ m = n
      BY Zenon, <2>1, <3>1 DEF IInv, TypeOK
    <3>4. m = None => WantedBy(n, g) /\ WantedBy(n, c)
      BY Zenon, <3>2 DEF Kind, WantedBy
    <3>5. Kind(n, g, c, ph)
      BY Zenon, <3>2, <3>3, <3>4 DEF Kind
    <3> QED  BY Zenon, <2>1, <3>1, <3>5, <1>KindThen
  <2> QED  BY Zenon, <2>2, <2>3, <2>4 DEF KindInv

<1>KindGapSelect.
    ASSUME IInv, KindInv, NEW e \in Engagements, NEW last_seen \in 0..db[e], GapSelect(e, last_seen)
    PROVE  KindInv'
  <2> USE <1>KindGapSelect
  <2>1. PICK rows : rows = GapRows(e, last_seen + 1, db[e])
    BY Zenon
  <2>2. gap' = [gap EXCEPT ![e] = rows] /\ UNCHANGED <<phase, wire, key, got, chan>>
    BY Zenon, <2>1 DEF GapRows, GapSelect, SelectRows, connVars, chanVars, subVars
  <2>3. (\A i \in DOMAIN wire : wire[i] # Junk => Live(wire[i]))'
    BY Zenon, <2>2 DEF KindInv, Live, Junk, Payload
  <2>4. \A i \in DOMAIN rows : rows[i].engagement_id = e
    BY Zenon, <2>1 DEF GapRows, Payload
  <2>5. \A f \in Engagements : gap'[f] = IF f = e THEN rows ELSE gap[f]
    BY Zenon, <2>2 DEF IInv, TypeOK
  <2>6. \A f \in Engagements : \A i \in DOMAIN gap'[f] : gap'[f][i].engagement_id = f
    BY Zenon, <2>4, <2>5 DEF KindInv
  <2>7. ASSUME NEW s \in Subscribers PROVE KindOf(s)'
    <3>1. PICK k, g, c, ph : k = key[s] /\ g = got[s] /\ c = chan[s] /\ ph = phase
      BY Zenon
    <3>2. Kind(k, g, c, ph)
      BY Zenon, <3>1, KindNow DEF KindInv
    <3> QED  BY Zenon, <2>2, <3>1, <3>2, <1>KindThen
  <2> QED  BY Zenon, <2>3, <2>6, <2>7 DEF KindInv

<1>KindGapFan.
    ASSUME IInv, OrderInv, KindInv, NEW e \in Engagements, GapFan(e)
    PROVE  KindInv'
  <2> USE <1>KindGapFan
  <2>1. PICK q, p : q = gap[e] /\ p = Head(q)
    BY Zenon
  <2>2. /\ q \in Seq(Payloads) /\ q # <<>> /\ gap' = [gap EXCEPT ![e] = Tail(q)]
        /\ UNCHANGED <<phase, wire, key, got>>
    BY Zenon, <2>1 DEF GapFan, connVars, subVars, IInv, TypeOK
  <2>3. Fanout(p)
    BY Zenon, <2>1 DEF GapFan, Fanout, Retained, Matching, EventOf, Event
  <2>4. p \in Payloads /\ 1 \in DOMAIN q /\ q[1] = p
    BY <2>1, <2>2, TailFacts
  <2>5. phase = "owned"
    BY Zenon, <2>1, <2>2 DEF IInv, PhaseInv
  <2>6. ~ Live(p)
    BY Zenon, <2>1, <2>4 DEF OrderInv, Live
  <2>7. (\A i \in DOMAIN wire : wire[i] # Junk => Live(wire[i]))'
    BY Zenon, <2>2 DEF KindInv, Live, Junk, Payload
  <2>8. PICK t : t = Tail(q)
    BY Zenon
  <2>9. \A i \in DOMAIN t : i + 1 \in DOMAIN q /\ t[i] = q[i + 1]
    BY Zenon, <2>2, <2>8, TailFacts
  <2>10. \A f \in Engagements : gap'[f] = IF f = e THEN t ELSE gap[f]
    BY Zenon, <2>2, <2>8 DEF IInv, TypeOK
  <2>11. \A f \in Engagements : \A i \in DOMAIN gap'[f] : gap'[f][i].engagement_id = f
    <3>1. \A i \in DOMAIN t : t[i].engagement_id = e
      BY Zenon, <2>1, <2>9 DEF KindInv
    <3> QED  BY Zenon, <2>10, <3>1 DEF KindInv
  <2>12. \A s \in Subscribers : KindOf(s)'
    BY Zenon, <2>2, <2>3, <2>4, <2>5, <2>6, <1>KindFanout DEF KindInv
  <2> QED  BY Zenon, <2>7, <2>11, <2>12 DEF KindInv

<1>KindHandle.
    ASSUME IInv, KindInv, RecvOk \/ HealthCheckOk
    PROVE  KindInv'
  <2> USE <1>KindHandle
  <2>1. PICK w, p : w = wire /\ p = Head(w)
    BY Zenon
  <2>2. /\ phase # "owned" /\ w \in Seq(Payloads \cup {Junk}) /\ w # <<>> /\ wire' = Tail(w)
        /\ phase' # "owned" /\ UNCHANGED <<gap, key, got>>
    BY Zenon, <2>1 DEF RecvOk, HealthCheckOk, HandleNotification, dbVars, subVars, IInv, TypeOK
  <2>3. PICK v : v = Tail(w)
    BY Zenon
  <2>4. \A i \in DOMAIN v : i + 1 \in DOMAIN w /\ v[i] = w[i + 1]
    BY Zenon, <2>2, <2>3, TailFacts
  <2>5. \A i \in DOMAIN w : w[i] # Junk => Live(w[i])
    BY Zenon, <2>1, KindWire
  <2>6. \A i \in DOMAIN v : v[i] # Junk => Live(v[i])
    BY Zenon, <2>4, <2>5
  <2>7. (\A i \in DOMAIN wire : wire[i] # Junk => Live(wire[i]))'
    BY Zenon, <2>2, <2>3, <2>6 DEF Live, Junk, Payload
  <2>8. p \in Payloads \cup {Junk} /\ 1 \in DOMAIN w /\ w[1] = p
    BY <2>1, <2>2, TailFacts
  <2>9. CASE p = Junk
    <3>1. UNCHANGED chan
      BY Zenon, <2>1, <2>9 DEF RecvOk, HealthCheckOk, HandleNotification, chanVars
    <3> QED  BY Zenon, <2>2, <2>7, <3>1, <1>KindSame
  <2>10. CASE p # Junk
    <3>1. p \in Payloads /\ Live(p)
      BY Zenon, <2>5, <2>8, <2>10
    <3>2. Fanout(p)
      BY Zenon, <2>1, <2>10 DEF RecvOk, HealthCheckOk, HandleNotification, Fanout, Retained, Matching,
                                EventOf, Event
    <3>3. \A s \in Subscribers : KindOf(s)'
      BY Zenon, <2>2, <3>1, <3>2, <1>KindFanout DEF KindInv
    <3>4. \A e \in Engagements : \A i \in DOMAIN gap'[e] : gap'[e][i].engagement_id = e
      BY Zenon, <2>2 DEF KindInv
    <3> QED  BY Zenon, <2>7, <3>3, <3>4 DEF KindInv
  <2> QED  BY Zenon, <2>9, <2>10

\* The wire is replaced by payloads of its own and live ones.
<1>KindNewWire.
    ASSUME KindInv, NEW w, NEW v, w = wire, v = wire', UNCHANGED <<gap, key, got, chan>>,
           phase' = "owned" => phase = "owned",
           \A i \in DOMAIN v : (i \in DOMAIN w /\ v[i] = w[i]) \/ v[i] = Junk \/ Live(v[i])
    PROVE  KindInv'
  <2> USE <1>KindNewWire
  <2>1. \A i \in DOMAIN w : w[i] # Junk => Live(w[i])
    BY Zenon, KindWire
  <2>2. \A i \in DOMAIN v : v[i] # Junk => Live(v[i])
    BY Zenon, <2>1
  <2>3. \A i \in DOMAIN wire' : wire'[i] # Junk => Live(wire[i])'
    BY Zenon, <2>2 DEF Live, Junk, Payload
  <2> QED  BY Zenon, <2>3, <1>KindSame

<1>KindCommit.
    ASSUME IInv, KindInv, NEW e \in Engagements, Commit(e)
    PROVE  KindInv'
  <2> USE <1>KindCommit
  <2>1. PICK w, v, p : w = wire /\ v = wire' /\ p = Payload(e, db[e] + 1, TRUE)
    BY Zenon
  <2>2. v = (IF conn THEN Append(w, p) ELSE w) /\ UNCHANGED <<phase, gap, key, got, chan>>
    BY Zenon, <2>1 DEF Commit, CommitRow, chanVars, subVars
  <2>3. Live(p)
    BY Zenon, <2>1, NamesAssumption DEF Live, Payload
  <2>4. w \in Seq(Payloads \cup {Junk}) /\ p \in Payloads \cup {Junk}
    <3>1. db[e] + 1 \in 1..MaxEvents
      BY BoundsAssumption DEF Commit, IInv, TypeOK
    <3>2. p \in Payloads
      BY Zenon, <2>1, <3>1, PayloadFacts
    <3> QED  BY Zenon, <2>1, <3>2 DEF IInv, TypeOK
  <2>5. Extends(Append(w, p), w, Len(w), p)
    BY Zenon, <2>4, AppendExtends
  <2>6. \A i \in DOMAIN v : (i \in DOMAIN w /\ v[i] = w[i]) \/ v[i] = p
    BY Zenon, <2>2, <2>5 DEF Extends
  <2> QED  BY Zenon, <2>1, <2>2, <2>3, <2>6, <1>KindNewWire

<1>KindJunk.
    ASSUME IInv, KindInv, NotifyJunk
    PROVE  KindInv'
  <2> USE <1>KindJunk
  <2>1. PICK w, v : w = wire /\ v = wire'
    BY Zenon
  <2>2. v = Append(w, Junk) /\ UNCHANGED <<phase, gap, key, got, chan>>
    BY Zenon, <2>1 DEF NotifyJunk, chanVars, subVars
  <2>3. w \in Seq(Payloads \cup {Junk}) /\ Junk \in Payloads \cup {Junk}
    BY Zenon, <2>1 DEF IInv, TypeOK
  <2>4. Extends(v, w, Len(w), Junk)
    BY Zenon, <2>2, <2>3, AppendExtends
  <2>5. \A i \in DOMAIN v : (i \in DOMAIN w /\ v[i] = w[i]) \/ v[i] = Junk
    BY Zenon, <2>4 DEF Extends
  <2> QED  BY Zenon, <2>1, <2>2, <2>5, <1>KindNewWire

<1>KindLose.
    ASSUME IInv, KindInv, NEW n \in 0..Len(wire), LoseConnection(n)
    PROVE  KindInv'
  <2> USE <1>KindLose
  <2>1. PICK w, v : w = wire /\ v = wire'
    BY Zenon
  <2>2. v = SubSeq(w, 1, n) /\ UNCHANGED <<phase, gap, key, got, chan>>
    BY Zenon, <2>1 DEF LoseConnection, dbVars, chanVars, subVars
  <2>3. \A i \in DOMAIN v : i \in DOMAIN w /\ v[i] = w[i]
    <3>1. w \in Seq(Payloads \cup {Junk}) /\ n \in 0..Len(w)
      BY Zenon, <2>1 DEF IInv, TypeOK
    <3> QED  BY <3>1, <2>2
  <2> QED  BY Zenon, <2>1, <2>2, <2>3, <1>KindNewWire

<1>KindReturn.
    ASSUME IInv, KindInv, Return
    PROVE  KindInv'
  <2> USE <1>KindReturn
  <2>1. wire' = << >> /\ phase' # "owned" /\ UNCHANGED <<gap, key, got, chan>>
    BY Zenon DEF Return, dbVars, chanVars, subVars
  <2>2. \A i \in DOMAIN wire' : FALSE
    BY Zenon, <2>1, NoIndex
  <2> QED  BY Zenon, <2>1, <2>2, <1>KindSame

<1>KindRead.
    ASSUME IInv, KindInv, NEW r \in Subscribers, Read(r) \/ DropReceiver(r)
    PROVE  KindInv'
  <2> USE <1>KindRead
  <2>1. PICK c \in Seq(Payloads), g \in Seq(Payloads \cup {Lagged}) : c = chan[r] /\ g = got[r]
    BY Zenon DEF IInv, TypeOK
  <2>2. UNCHANGED <<wire, phase, gap, key>>
    BY Zenon DEF Read, DropReceiver, connVars, dbVars
  <2>3. \/ chan' = chan /\ got' = [got EXCEPT ![r] = Append(g, Lagged)]
        \/ /\ c # <<>> /\ chan' = [chan EXCEPT ![r] = Tail(c)]
           /\ got' = [got EXCEPT ![r] = Append(g, Head(c))]
        \/ chan' = [chan EXCEPT ![r] = <<>>] /\ got' = got
    BY Zenon, <2>1 DEF Read, DropReceiver
  <2>4. PICK k, ph : k = key[r] /\ ph = phase
    BY Zenon
  <2>5. Kind(k, g, c, ph)
    BY Zenon, <2>1, <2>4, KindNow DEF KindInv
  <2>6. Kind(k, Append(g, Lagged), c, ph)
    <3>1. Lagged.engagement_id \notin Engagements /\ ~ Live(Lagged) /\ Lagged \in Payloads \cup {Lagged}
      BY Zenon, NamesAssumption DEF Lagged, Payload, Live
    <3> QED  BY Zenon, <2>5, <3>1, KindAppend DEF Kind
  <2>7. ASSUME c # <<>> PROVE Kind(k, Append(g, Head(c)), Tail(c), ph)
    <3>1. PICK p \in Payloads, t \in Seq(Payloads) : p = Head(c) /\ t = Tail(c)
      BY Zenon, <2>7, TailFacts
    <3>2. /\ WantedBy(k, t) /\ LiveLast(t)
          /\ ph = "owned" => NoLive(t) /\ ~ Live(p)
      BY Zenon, <2>5, <2>7, <3>1, KindTail DEF Kind
    <3>3. p.engagement_id \in Engagements
              => k \in {p.engagement_id, BatchOf[p.engagement_id]} \ {None}
      <4>1. 1 \in DOMAIN c /\ c[1] = p
        BY <2>7, <3>1
      <4> QED  BY Zenon, <2>5, <4>1 DEF Kind, WantedBy
    <3>4. p \in Payloads \cup {Lagged}
      BY Zenon
    <3>5. WantedBy(k, Append(g, p)) /\ (ph = "owned" => NoLive(Append(g, p)))
      BY Zenon, <2>5, <3>2, <3>3, <3>4, KindAppend DEF Kind
    <3> QED  BY Zenon, <3>1, <3>2, <3>5 DEF Kind
  <2>8. Kind(k, g, <<>>, ph)
    <3>1. \A i \in DOMAIN << >> : FALSE
      BY Zenon, NoIndex
    <3>2. WantedBy(k, <<>>) /\ LiveLast(<<>>) /\ NoLive(<<>>)
      BY Zenon, <3>1 DEF WantedBy, LiveLast, NoLive
    <3> QED  BY Zenon, <2>5, <3>2 DEF Kind
  <2>9. ASSUME NEW s \in Subscribers PROVE KindOf(s)'
    <3>1. PICK a, b : a = got'[s] /\ b = chan'[s]
      BY Zenon
    <3>2. CASE s = r
      <4>1. \/ b = c /\ a = Append(g, Lagged)
            \/ c # <<>> /\ b = Tail(c) /\ a = Append(g, Head(c))
            \/ b = <<>> /\ a = g
        BY Zenon, <3>1, <3>2, <2>1, <2>3 DEF IInv, TypeOK
      <4>2. Kind(k, a, b, ph)
        BY Zenon, <4>1, <2>6, <2>7, <2>8
      <4> QED  BY Zenon, <4>2, <3>1, <3>2, <2>2, <2>4, <1>KindThen
    <3>3. CASE s # r
      <4>1. a = got[s] /\ b = chan[s]
        BY Zenon, <3>1, <3>3, <2>3 DEF IInv, TypeOK
      <4>2. PICK m : m = key[s]
        BY Zenon
      <4>3. Kind(m, a, b, ph)
        BY Zenon, <2>4, <4>1, <4>2, KindNow DEF KindInv
      <4> QED  BY Zenon, <4>2, <4>3, <3>1, <2>2, <2>4, <1>KindThen
    <3> QED  BY Zenon, <3>2, <3>3
  <2>10. (\A i \in DOMAIN wire : wire[i] # Junk => Live(wire[i]))'
    BY Zenon, <2>2 DEF KindInv, Live, Junk, Payload
  <2>11. \A e \in Engagements : \A i \in DOMAIN gap'[e] : gap'[e][i].engagement_id = e
    BY Zenon, <2>2 DEF KindInv
  <2> QED  BY Zenon, <2>9, <2>10, <2>11 DEF KindInv
<1> SUFFICES ASSUME IInv, OrderInv, KindInv, [Next]_vars PROVE KindInv'
  BY Zenon
<1>0. UNCHANGED <<wire, phase, gap, key, got, chan>> => KindInv'
  BY Zenon, <1>KindNewWire
<1>1. CASE \E s \in Subscribers, k \in Engagements \cup Batches : Subscribe(s, k)
  BY Zenon, <1>1, <1>KindSubscribe
<1>2. CASE \E e \in Engagements : \E last_seen \in 0..db[e] : GapSelect(e, last_seen)
  BY Zenon, <1>2, <1>KindGapSelect
<1>3. CASE \E e \in Engagements : GapFan(e)
  BY Zenon, <1>3, <1>KindGapFan
<1>4. CASE Run \/ StartConnect \/ ConnectFails \/ BackoffOver \/ ConnectionError \/ Shutdown
  <2>1. /\ UNCHANGED <<wire, gap, key, got, chan>>
        /\ phase' = "owned" => phase = "owned"
    BY Zenon, <1>4 DEF Run, StartConnect, ConnectFails, BackoffOver, ConnectionError, Shutdown,
                Reconnect, dbVars, chanVars, subVars
  <2> QED  BY Zenon, <2>1, <1>KindNewWire
<1>5. CASE ConnectOk
  <2>1. wire' = wire
    BY Zenon, <1>5 DEF ConnectOk, IInv, PhaseInv, Attending
  <2>2. UNCHANGED <<gap, key, got, chan>> /\ phase' # "owned"
    BY Zenon, <1>5 DEF ConnectOk, dbVars, chanVars, subVars
  <2> QED  BY Zenon, <2>1, <2>2, <1>KindNewWire
<1>6. CASE CheckShutdown \/ ShutdownChanged
  BY Zenon, <1>6, <1>KindReturn DEF CheckShutdown, ShutdownChanged
<1>7. CASE RecvOk \/ HealthCheckOk
  BY Zenon, <1>7, <1>KindHandle
<1>8. CASE NotifyJunk
  BY Zenon, <1>8, <1>KindJunk
<1>9. CASE \E n \in 0..Len(wire) : LoseConnection(n)
  BY Zenon, <1>9, <1>KindLose
<1>10. CASE \E s \in Subscribers : Read(s) \/ DropReceiver(s)
  BY Zenon, <1>10, <1>KindRead
<1>11. CASE \E e \in Engagements : Commit(e)
  BY Zenon, <1>11, <1>KindCommit
<1>12. CASE UNCHANGED vars
  BY Zenon, <1>0, <1>12 DEF vars, connVars, dbVars, chanVars, subVars
<1>13. CASE Quiet
  <2>1. UNCHANGED <<wire, gap, key, got, chan>> /\ phase' # "owned"
    BY Zenon, <1>13, QuietStep DEF Attending
  <2> QED  BY Zenon, <2>1, <1>KindNewWire
<1> QED
  BY Zenon, <1>1, <1>2, <1>3, <1>4, <1>5, <1>6, <1>7, <1>8, <1>9, <1>10, <1>11, <1>12, <1>13
     DEF Next, ManagerNext, Quiet

-----------------------------------------------------------------------------
(* What a subscriber has still to be sent. *)

AllEvents(q) == {EventOf(q[k]) : k \in DOMAIN q}

After(q, i) == {EventOf(q[k]) : k \in {l \in DOMAIN q : l > i}}

\* The committed events of p's engagement that are newer than p are all in F.
Rest(p, d, F) ==
    p.engagement_id \in Engagements =>
        \A n \in 1..d[p.engagement_id] : n > p.sequence => Event(p.engagement_id, n) \in F

\* Of the committed events, those in F are in G.
Within(F, G, d) ==
    \A e \in Engagements : \A n \in 1..d[e] : Event(e, n) \in F => Event(e, n) \in G

\* What is newer than a payload of q comes after it in q, or is in F.
Covers(q, d, F) == \A i \in DOMAIN q : Rest(q[i], d, F \cup After(q, i))

\* What is newer than a payload that was received was received too or is in F,
\* unless the subscriber was told since that it lagged.
GotCovers(g, d, F) ==
    \A i \in DOMAIN g : \/ Rest(g[i], d, F \cup AllEvents(g))
                        \/ \E k \in DOMAIN g : k > i /\ g[k] = Lagged

Cover(g, c, lags, d, F) == Covers(c, d, F) /\ (lags \/ GotCovers(g, d, F \cup AllEvents(c)))

LEMMA EventsTail ==
  ASSUME NEW S, NEW q \in Seq(S), q # <<>>
  PROVE  /\ AllEvents(q) \subseteq {EventOf(Head(q))} \cup AllEvents(Tail(q))
         /\ AllEvents(Tail(q)) \subseteq AllEvents(q)
         /\ After(q, 1) \subseteq AllEvents(Tail(q))
         /\ \A i \in DOMAIN Tail(q) : After(q, i + 1) \subseteq After(Tail(q), i)
<1>1. PICK t : t = Tail(q)
  BY Zenon
<1>2. /\ q[1] = Head(q) /\ DOMAIN q \subseteq Nat /\ DOMAIN t \subseteq Nat
      /\ \A i \in DOMAIN t : i + 1 \in DOMAIN q /\ t[i] = q[i + 1]
      /\ \A i \in DOMAIN q : i # 1 => i - 1 \in DOMAIN t /\ t[i - 1] = q[i]
  BY <1>1, TailFacts
<1>3. \A k \in DOMAIN q : k = 1 \/ EventOf(q[k]) \in AllEvents(t)
  BY Zenon, <1>2 DEF AllEvents
<1>4. AllEvents(q) \subseteq {EventOf(Head(q))} \cup AllEvents(t)
  BY Zenon, <1>2, <1>3 DEF AllEvents
<1>5. AllEvents(t) \subseteq AllEvents(q)
  BY Zenon, <1>2 DEF AllEvents
<1>6. After(q, 1) \subseteq AllEvents(t)
  <2>1. \A k \in DOMAIN q : k > 1 => k # 1
    BY <1>2
  <2> QED  BY Zenon, <1>3, <2>1 DEF After
<1>7. ASSUME NEW i \in DOMAIN t, NEW k \in DOMAIN q, k > i + 1 PROVE EventOf(q[k]) \in After(t, i)
  <2>1. k # 1 /\ k - 1 > i
    BY <1>2, <1>7
  <2> QED  BY Zenon, <1>2, <2>1 DEF After
<1>8. \A i \in DOMAIN t : After(q, i + 1) \subseteq After(t, i)
  BY Zenon, <1>7 DEF After
<1> QED  BY Zenon, <1>1, <1>4, <1>5, <1>6, <1>8

LEMMA EventsAppend ==
  ASSUME NEW S, NEW q \in Seq(S), NEW p \in S
  PROVE  /\ AllEvents(q) \cup {EventOf(p)} \subseteq AllEvents(Append(q, p))
         /\ \A i \in DOMAIN q : After(q, i) \cup {EventOf(p)} \subseteq After(Append(q, p), i)
<1>1. PICK a : a = Append(q, p)
  BY Zenon
<1>2. /\ \A i \in DOMAIN q : i \in DOMAIN a /\ a[i] = q[i]
      /\ Len(q) + 1 \in DOMAIN a /\ a[Len(q) + 1] = p
  BY <1>1, AppendFacts
<1>3. \A i \in DOMAIN q : Len(q) + 1 > i
  OBVIOUS
<1> QED  BY Zenon, <1>1, <1>2, <1>3 DEF AllEvents, After

LEMMA RestMono ==
  ASSUME NEW p, NEW d, NEW F, NEW G, Within(F, G, d), Rest(p, d, F)
  PROVE  Rest(p, d, G)
BY Zenon DEF Rest, Within

\* Events of other engagements than p's do not matter to what p has to follow.
LEMMA RestOther ==
  ASSUME NEW p, NEW d, NEW F, NEW G, NEW x, Within(F, G \cup {x}, d),
         x.engagement_id # p.engagement_id, Rest(p, d, F)
  PROVE  Rest(p, d, G)
<1>1. \A n : Event(p.engagement_id, n) # x
  BY DEF Event
<1> QED  BY Zenon, <1>1 DEF Rest, Within

LEMMA CoverMono ==
  ASSUME NEW g, NEW c, NEW lags, NEW d, NEW F, NEW G, Within(F, G, d)
  PROVE  /\ Covers(c, d, F) => Covers(c, d, G)
         /\ Cover(g, c, lags, d, F) => Cover(g, c, lags, d, G)
<1>1. \A A : Within(F \cup A, G \cup A, d)
  BY Zenon DEF Within
<1>2. Covers(c, d, F) => Covers(c, d, G)
  BY Zenon, <1>1, RestMono DEF Covers
<1>3. \A A, B : Within((F \cup B) \cup A, (G \cup B) \cup A, d)
  BY Zenon DEF Within
<1>4. \A B : GotCovers(g, d, F \cup B) => GotCovers(g, d, G \cup B)
  BY Zenon, <1>3, RestMono DEF GotCovers
<1> QED  BY Zenon, <1>2, <1>4 DEF Cover

LEMMA CoversTail ==
  ASSUME NEW S, NEW q \in Seq(S), q # <<>>, NEW d, NEW F, Covers(q, d, F)
  PROVE  Covers(Tail(q), d, F) /\ Rest(Head(q), d, F \cup AllEvents(Tail(q)))
<1>1. PICK t : t = Tail(q)
  BY Zenon
<1>2. /\ 1 \in DOMAIN q /\ q[1] = Head(q)
      /\ \A i \in DOMAIN t : i + 1 \in DOMAIN q /\ t[i] = q[i + 1]
  <2>1. 1 \in DOMAIN q
    OBVIOUS
  <2> QED  BY Zenon, <1>1, <2>1, TailFacts
<1>3. /\ After(q, 1) \subseteq AllEvents(t)
      /\ \A i \in DOMAIN t : After(q, i + 1) \subseteq After(t, i)
  BY Zenon, <1>1, EventsTail
<1>4. Within(F \cup After(q, 1), F \cup AllEvents(t), d)
  BY Zenon, <1>3 DEF Within
<1>5. Rest(Head(q), d, F \cup AllEvents(t))
  <2>1. Rest(Head(q), d, F \cup After(q, 1))
    BY Zenon, <1>2 DEF Covers
  <2> QED  BY Zenon, <1>4, <2>1, RestMono
<1>6. ASSUME NEW i \in DOMAIN t PROVE Rest(t[i], d, F \cup After(t, i))
  <2>1. Within(F \cup After(q, i + 1), F \cup After(t, i), d)
    BY Zenon, <1>3 DEF Within
  <2>2. Rest(q[i + 1], d, F \cup After(q, i + 1))
    BY Zenon, <1>2 DEF Covers
  <2>3. Rest(q[i + 1], d, F \cup After(t, i))
    BY Zenon, <2>1, <2>2, RestMono
  <2> QED  BY Zenon, <1>2, <2>3
<1>7. Covers(t, d, F)
  BY Zenon, <1>6 DEF Covers
<1> QED  BY Zenon, <1>1, <1>5, <1>7

LEMMA CoversAppend ==
  ASSUME NEW S, NEW q \in Seq(S), NEW p \in S, NEW d, NEW F, NEW G, Covers(q, d, F),
         Within(F, G \cup {EventOf(p)}, d), Rest(p, d, G)
  PROVE  Covers(Append(q, p), d, G)
<1>1. PICK a : a = Append(q, p)
  BY Zenon
<1>2. Extends(a, q, Len(q), p)
  BY Zenon, <1>1, AppendExtends
<1>3. ASSUME NEW i \in DOMAIN q PROVE Rest(a[i], d, G \cup After(a, i))
  <2>1. After(q, i) \cup {EventOf(p)} \subseteq After(a, i)
    BY Zenon, <1>1, EventsAppend
  <2>2. Within(F \cup After(q, i), G \cup After(a, i), d)
    BY Zenon, <2>1 DEF Within
  <2>3. Rest(q[i], d, G \cup After(a, i))
    BY Zenon, <2>2, RestMono DEF Covers
  <2> QED  BY Zenon, <1>2, <2>3 DEF Extends
<1>4. ASSUME NEW i PROVE Rest(p, d, G \cup After(a, i))
  <2>1. Within(G, G \cup After(a, i), d)
    BY Zenon DEF Within
  <2> QED  BY Zenon, <2>1, RestMono
<1>5. \A i \in DOMAIN a : i \in DOMAIN q \/ a[i] = p
  BY Zenon, <1>2 DEF Extends
<1>6. Covers(a, d, G)
  BY Zenon, <1>3, <1>4, <1>5 DEF Covers
<1> QED  BY Zenon, <1>1, <1>6

\* p, which was in F, goes to the channel, whether it overflows or not.
LEMMA CoverFan ==
  ASSUME NEW g, NEW c \in Seq(Payloads), NEW p \in Payloads, NEW lags \in BOOLEAN, NEW d, NEW F, NEW G,
         Cover(g, c, lags, d, F), Within(F, G \cup {EventOf(p)}, d), Rest(p, d, G)
  PROVE  /\ Cover(g, Append(c, p), lags, d, G)
         /\ c # <<>> => Cover(g, Append(Tail(c), p), TRUE, d, G)
<1>1. Covers(c, d, F)
  BY Zenon DEF Cover
<1>2. Covers(Append(c, p), d, G)
  BY Zenon, <1>1, CoversAppend
<1>3. c # <<>> => Covers(Append(Tail(c), p), d, G)
  BY Zenon, <1>1, CoversTail, CoversAppend, TailFacts
<1>4. PICK a : a = Append(c, p)
  BY Zenon
<1>5. AllEvents(c) \cup {EventOf(p)} \subseteq AllEvents(a)
  BY Zenon, <1>4, EventsAppend
<1>6. \A A : Within((F \cup AllEvents(c)) \cup A, (G \cup AllEvents(a)) \cup A, d)
  BY Zenon, <1>5 DEF Within
<1>7. GotCovers(g, d, F \cup AllEvents(c)) => GotCovers(g, d, G \cup AllEvents(a))
  BY Zenon, <1>6, RestMono DEF GotCovers
<1> QED  BY Zenon, <1>2, <1>3, <1>4, <1>7 DEF Cover

\* The subscriber reads a payload.
LEMMA CoverRead ==
  ASSUME NEW g \in Seq(Payloads \cup {Lagged}), NEW c \in Seq(Payloads), c # <<>>, NEW d, NEW F,
         Cover(g, c, FALSE, d, F)
  PROVE  Cover(Append(g, Head(c)), Tail(c), FALSE, d, F)
<1>1. PICK p \in Payloads, t \in Seq(Payloads) : p = Head(c) /\ t = Tail(c)
  BY Zenon, TailFacts
<1>2. Covers(t, d, F) /\ Rest(p, d, F \cup AllEvents(t))
  BY Zenon, <1>1, CoversTail DEF Cover
<1>3. PICK a : a = Append(g, p)
  BY Zenon
<1>4. p \in Payloads \cup {Lagged}
  BY Zenon
<1>5. Extends(a, g, Len(g), p) /\ AllEvents(g) \cup {EventOf(p)} \subseteq AllEvents(a)
  BY Zenon, <1>3, <1>4, AppendExtends, EventsAppend
<1>6. AllEvents(c) \subseteq {EventOf(p)} \cup AllEvents(t)
  BY Zenon, <1>1, EventsTail
<1>7. /\ Within((F \cup AllEvents(c)) \cup AllEvents(g), (F \cup AllEvents(t)) \cup AllEvents(a), d)
      /\ Within(F \cup AllEvents(t), (F \cup AllEvents(t)) \cup AllEvents(a), d)
  BY Zenon, <1>5, <1>6 DEF Within
<1>8. GotCovers(g, d, F \cup AllEvents(c))
  BY Zenon DEF Cover
<1>9. ASSUME NEW i \in DOMAIN g
      PROVE  \/ Rest(a[i], d, (F \cup AllEvents(t)) \cup AllEvents(a))
             \/ \E k \in DOMAIN a : k > i /\ a[k] = Lagged
  <2>1. CASE Rest(g[i], d, (F \cup AllEvents(c)) \cup AllEvents(g))
    <3>1. Rest(g[i], d, (F \cup AllEvents(t)) \cup AllEvents(a))
      BY Zenon, <2>1, <1>7, RestMono
    <3> QED  BY Zenon, <3>1, <1>5 DEF Extends
  <2>2. CASE \E k \in DOMAIN g : k > i /\ g[k] = Lagged
    <3>1. \A k \in DOMAIN g : k \in DOMAIN Append(g, p) /\ Append(g, p)[k] = g[k]
      BY <1>4, AppendFacts
    <3> QED  BY Zenon, <2>2, <3>1, <1>3
  <2> QED  BY Zenon, <1>8, <2>1, <2>2 DEF GotCovers
<1>10. Rest(p, d, (F \cup AllEvents(t)) \cup AllEvents(a))
  BY Zenon, <1>2, <1>7, RestMono
<1>11. \A i \in DOMAIN a : i \in DOMAIN g \/ a[i] = p
  BY Zenon, <1>5 DEF Extends
<1>12. GotCovers(a, d, F \cup AllEvents(t))
  BY Zenon, <1>9, <1>10, <1>11 DEF GotCovers
<1> QED  BY Zenon, <1>1, <1>2, <1>3, <1>12 DEF Cover

\* The subscriber is told that it lagged.
LEMMA CoverLagged ==
  ASSUME NEW g \in Seq(Payloads \cup {Lagged}), NEW c, NEW d, NEW F, Cover(g, c, TRUE, d, F)
  PROVE  Cover(Append(g, Lagged), c, FALSE, d, F)
<1>1. PICK a : a = Append(g, Lagged)
  BY Zenon
<1>2. Lagged \in Payloads \cup {Lagged}
  BY Zenon
<1>3. /\ \A i \in DOMAIN a : i \in DOMAIN g \/ a[i] = Lagged
      /\ \A i \in DOMAIN g : Len(g) + 1 > i
      /\ Len(g) + 1 \in DOMAIN a /\ a[Len(g) + 1] = Lagged
  <2>1. \A i \in DOMAIN g : Len(g) + 1 > i
    OBVIOUS
  <2> QED  BY Zenon, <1>1, <1>2, <2>1, AppendFacts
<1>4. \A G : Rest(Lagged, d, G)
  <2>1. Lagged.engagement_id \notin Engagements
    BY Zenon, NamesAssumption DEF Lagged, Payload
  <2> QED  BY Zenon, <2>1 DEF Rest
<1>5. GotCovers(a, d, F \cup AllEvents(c))
  BY Zenon, <1>3, <1>4 DEF GotCovers
<1> QED  BY Zenon, <1>1, <1>5 DEF Cover

\* An event commits and is in G.
LEMMA RestCommit ==
  ASSUME NEW d \in [Engagements -> Nat], NEW e \in Engagements, NEW p, NEW F, NEW G,
         Event(e, d[e] + 1) \in G, Within(F, G, d), Rest(p, d, F)
  PROVE  Rest(p, [d EXCEPT ![e] = d[e] + 1], G)
<1>1. PICK b : b = [d EXCEPT ![e] = d[e] + 1]
  BY Zenon
<1>2. \A f \in Engagements : \A n \in 1..b[f] : n \in 1..d[f] \/ (f = e /\ n = d[e] + 1)
  BY <1>1
<1>3. Rest(p, b, G)
  BY Zenon, <1>2 DEF Rest, Within
<1> QED  BY Zenon, <1>1, <1>3

LEMMA CoverCommit ==
  ASSUME NEW d \in [Engagements -> Nat], NEW e \in Engagements, NEW F, NEW G,
         Event(e, d[e] + 1) \in G, Within(F, G, d), NEW g, NEW c, NEW lags
  PROVE  /\ Covers(c, d, F) => Covers(c, [d EXCEPT ![e] = d[e] + 1], G)
         /\ Cover(g, c, lags, d, F) => Cover(g, c, lags, [d EXCEPT ![e] = d[e] + 1], G)
<1>1. PICK b : b = [d EXCEPT ![e] = d[e] + 1]
  BY Zenon
<1>2. \A A : Within(F \cup A, G \cup A, d) /\ Event(e, d[e] + 1) \in G \cup A
  BY Zenon DEF Within
<1>3. \A p, A : Rest(p, d, F \cup A) => Rest(p, b, G \cup A)
  BY Zenon, <1>1, <1>2, RestCommit
<1>4. Covers(c, d, F) => Covers(c, b, G)
  BY Zenon, <1>3 DEF Covers
<1>5. \A A, B : Within((F \cup B) \cup A, (G \cup B) \cup A, d) /\ Event(e, d[e] + 1) \in (G \cup B) \cup A
  BY Zenon DEF Within
<1>6. \A p, A, B : Rest(p, d, (F \cup B) \cup A) => Rest(p, b, (G \cup B) \cup A)
  BY Zenon, <1>1, <1>5, RestCommit
<1>7. \A B : GotCovers(g, d, F \cup B) => GotCovers(g, b, G \cup B)
  BY Zenon, <1>6 DEF GotCovers
<1> QED  BY Zenon, <1>1, <1>4, <1>7 DEF Cover

\* q holds no payload of the engagement e.
NoneOf(q, e) == \A i \in DOMAIN q : q[i].engagement_id # e

\* x goes elsewhere than to a subscriber that has nothing of its engagement.
LEMMA CoverOther ==
  ASSUME NEW g, NEW c, NEW lags, NEW d, NEW F, NEW G, NEW x, Within(F, G \cup {x}, d),
         NoneOf(g, x.engagement_id), NoneOf(c, x.engagement_id), Cover(g, c, lags, d, F)
  PROVE  Cover(g, c, lags, d, G)
<1>1. \A A : Within(F \cup A, (G \cup A) \cup {x}, d)
  BY Zenon DEF Within
<1>2. Covers(c, d, G)
  BY Zenon, <1>1, RestOther DEF Covers, Cover, NoneOf
<1>3. \A A, B : Within((F \cup B) \cup A, ((G \cup B) \cup A) \cup {x}, d)
  BY Zenon DEF Within
<1>4. GotCovers(g, d, F \cup AllEvents(c)) => GotCovers(g, d, G \cup AllEvents(c))
  BY Zenon, <1>3, RestOther DEF GotCovers, NoneOf
<1> QED  BY Zenon, <1>2, <1>4 DEF Cover

-----------------------------------------------------------------------------
(* What each subscriber will still be sent, told, or is not owed. *)

\* The events committed too early (E) or lost (L), and those on the wire and in a gap_fill.
Soon(E, L, w, h) == (E \cup L) \cup (AllEvents(w) \cup UNION {AllEvents(h[e]) : e \in Engagements})

CoverOf(s) == Cover(got[s], chan[s], lagging[s], db, Soon(early[s], lost, wire, gap))

WireCover      == Covers(wire, db, lost)
GapCover(s, e) == Covers(gap[e], db, early[s] \cup lost)

\* After a payload of an engagement, on the wire, in a gap_fill, in a channel
\* or received, come all the newer events of the engagement.
CoverInv ==
    /\ WireCover
    /\ \A s \in Subscribers, e \in Engagements : GapCover(s, e)
    /\ \A s \in Subscribers : alive[s] => CoverOf(s)

LEMMA CoversEmpty == ASSUME NEW d, NEW F PROVE Covers(<<>>, d, F)
BY Zenon, NoIndex DEF Covers

\* The events of Junk do not matter.
LEMMA JunkEvent == \A e \in Engagements : \A n : Event(e, n) # EventOf(Junk)
BY Zenon, NamesAssumption DEF Event, EventOf, Junk, Payload

\* CoverInv holds of the initial states.
LEMMA CoverInit == Init => CoverInv
<1> SUFFICES ASSUME Init PROVE CoverInv
  BY Zenon
<1>1. /\ wire = <<>> /\ \A e \in Engagements : gap[e] = <<>>
      /\ \A s \in Subscribers : alive[s] = FALSE
  BY Zenon DEF Init
<1>2. WireCover /\ \A s \in Subscribers, e \in Engagements : GapCover(s, e)
  BY Zenon, <1>1, CoversEmpty DEF WireCover, GapCover
<1> QED  BY Zenon, <1>1, <1>2 DEF CoverInv

\* The rows of a gap_fill: after each of them the newer ones.
LEMMA RowsCover ==
  ASSUME NEW e \in Engagements, NEW d, NEW first \in Nat, d[e] \in Nat, NEW F
  PROVE  Covers(GapRows(e, first, d[e]), d, F)
<1>1. PICK rows : rows = GapRows(e, first, d[e])
  BY Zenon
<1>2. DOMAIN rows = 1..(d[e] - first + 1)
  BY Zenon, <1>1 DEF GapRows
<1>3. \A i \in DOMAIN rows : rows[i] = Payload(e, first + i - 1, FALSE)
  BY Zenon, <1>1, <1>2 DEF GapRows
<1>4. ASSUME NEW i \in DOMAIN rows, NEW n \in 1..d[e], n > first + i - 1
      PROVE  Event(e, n) \in After(rows, i)
  <2>1. PICK j : j = n - first + 1
    BY Zenon
  <2>2. j \in DOMAIN rows /\ j > i /\ first + j - 1 = n
    BY <1>2, <1>4, <2>1
  <2>3. EventOf(rows[j]) = Event(e, n)
    <3>1. rows[j] = Payload(e, n, FALSE)
      BY Zenon, <1>3, <2>2
    <3> QED  BY <3>1 DEF EventOf, Event, Payload
  <2> QED  BY Zenon, <2>2, <2>3 DEF After
<1>5. ASSUME NEW i \in DOMAIN rows PROVE Rest(rows[i], d, F \cup After(rows, i))
  <2>1. rows[i].engagement_id = e /\ rows[i].sequence = first + i - 1
    BY <1>3 DEF Payload
  <2> QED  BY Zenon, <1>4, <2>1 DEF Rest
<1>6. Covers(rows, d, F)
  BY Zenon, <1>5 DEF Covers
<1> QED  BY Zenon, <1>1, <1>6

\* Every step keeps CoverInv.
LEMMA CoverNext == IInv /\ KindInv /\ CoverInv /\ [Next]_vars => CoverInv'
<1>SoonFacts.
    ASSUME NEW E, NEW L, NEW w, NEW h, NEW x
    PROVE  x \in Soon(E, L, w, h)
               <=> \/ x \in E \/ x \in L \/ x \in AllEvents(w)
                   \/ \E e \in Engagements : x \in AllEvents(h[e])
  BY Zenon DEF Soon

<1>WireThen.
    ASSUME NEW w, NEW d, NEW L, w = wire', d = db', L = lost'
    PROVE  WireCover' <=> Covers(w, d, L)
  BY Zenon, <1>WireThen DEF WireCover

<1>GapThen.
    ASSUME NEW s, NEW e, NEW q, NEW d, NEW E, NEW L, q = gap'[e], d = db', E = early'[s], L = lost'
    PROVE  GapCover(s, e)' <=> Covers(q, d, E \cup L)
  BY Zenon, <1>GapThen DEF GapCover

<1>CoverThen.
    ASSUME NEW s, NEW g, NEW c, NEW lags, NEW d, NEW E, NEW L, NEW w, NEW h,
           g = got'[s], c = chan'[s], lags = lagging'[s], d = db',
           E = early'[s], L = lost', w = wire', h = gap'
    PROVE  CoverOf(s)' <=> Cover(g, c, lags, d, Soon(E, L, w, h))
  BY Zenon, <1>CoverThen DEF CoverOf

\* All committed events are in G.
<1>CoverAll.
    ASSUME NEW g, NEW c, NEW lags, NEW d, NEW G,
           \A e \in Engagements : \A n \in 1..d[e] : Event(e, n) \in G
    PROVE  Cover(g, c, lags, d, G) /\ Covers(c, d, G)
  BY Zenon, <1>CoverAll DEF Cover, Covers, GotCovers, Rest

\* The stream of s stays and what it can still expect does not shrink.
<1>CoverKept.
    ASSUME NEW s, CoverOf(s), UNCHANGED <<got, chan, lagging, db>>,
           NEW d, NEW E, NEW L, NEW w, NEW h, NEW D, NEW K, NEW v, NEW k,
           d = db, E = early[s], L = lost, w = wire, h = gap,
           D = early'[s], K = lost', v = wire', k = gap',
           Within(Soon(E, L, w, h), Soon(D, K, v, k), d)
    PROVE  CoverOf(s)'
  <2> USE <1>CoverKept
  <2>1. PICK g, c, lags : g = got[s] /\ c = chan[s] /\ lags = lagging[s]
    BY Zenon
  <2>2. Cover(g, c, lags, d, Soon(E, L, w, h))
    BY Zenon, <2>1 DEF CoverOf
  <2>3. Cover(g, c, lags, d, Soon(D, K, v, k))
    BY Zenon, <2>2, CoverMono
  <2>4. g = got'[s] /\ c = chan'[s] /\ lags = lagging'[s] /\ d = db'
    BY Zenon, <2>1
  <2> QED  BY Zenon, <2>3, <2>4, <1>CoverThen

\* p is fanned out and s gets it, or is not interested in its engagement.
<1>CoverFanout.
    ASSUME IInv, phase # "stopped", NEW p \in Payloads, Fanout(p), NEW s \in Subscribers, alive[s],
           KindOf(s), CoverOf(s), UNCHANGED <<got, db>>,
           NEW d, NEW E, NEW L, NEW w, NEW h, NEW D, NEW K, NEW v, NEW k,
           d = db, E = early[s], L = lost, w = wire, h = gap,
           D = early'[s], K = lost', v = wire', k = gap',
           Within(Soon(E, L, w, h), Soon(D, K, v, k) \cup {EventOf(p)}, d),
           Rest(p, d, Soon(D, K, v, k))
    PROVE  CoverOf(s)'
  <2> USE <1>CoverFanout
  <2>0. chan[s] \in Seq(Payloads) /\ lagging[s] \in BOOLEAN
    BY Zenon DEF IInv, TypeOK
  <2>1. PICK g, c, lags, m : g = got[s] /\ c = chan[s] /\ lags = lagging[s] /\ m = key[s]
    BY Zenon
  <2>2. PICK F, G : F = Soon(E, L, w, h) /\ G = Soon(D, K, v, k)
    BY Zenon
  <2>3. Cover(g, c, lags, d, F)
    BY Zenon, <2>1, <2>2 DEF CoverOf
  <2>4. PICK b, lg : b = chan'[s] /\ lg = lagging'[s]
    BY Zenon
  <2>5. \/ s \notin Matching(p) /\ b = c /\ lg = lags
        \/ b = Append(c, p) /\ lg = lags
        \/ c # <<>> /\ b = Append(Tail(c), p) /\ lg = TRUE
    BY Zenon, <2>1, <2>4, FanoutLags DEF IInv
  <2>6. Cover(g, Append(c, p), lags, d, G) /\ (c # <<>> => Cover(g, Append(Tail(c), p), TRUE, d, G))
    BY Zenon, <2>0, <2>1, <2>2, <2>3, CoverFan
  <2>7. ASSUME s \notin Matching(p) PROVE Cover(g, c, lags, d, G)
    <3>1. PICK x : x = EventOf(p)
      BY Zenon
    <3>2. x.engagement_id = p.engagement_id /\ p.engagement_id \in Engagements
      BY Zenon, <3>1 DEF EventOf, Event, Payloads
    <3>3. m \notin {p.engagement_id, BatchOf[p.engagement_id]} \ {None}
      BY Zenon, <2>1, <2>7 DEF IInv, RegistryInv, Matching
    <3>4. WantedBy(m, g) /\ WantedBy(m, c)
      BY Zenon, <2>1 DEF KindOf, Kind
    <3>5. NoneOf(g, x.engagement_id) /\ NoneOf(c, x.engagement_id)
      BY Zenon, <3>2, <3>3, <3>4 DEF NoneOf, WantedBy
    <3> QED  BY Zenon, <2>2, <2>3, <3>1, <3>5, CoverOther
  <2>8. Cover(g, b, lg, d, G)
    BY Zenon, <2>5, <2>6, <2>7
  <2>9. g = got'[s] /\ d = db'
    BY Zenon, <2>1
  <2> QED  BY Zenon, <2>2, <2>4, <2>8, <2>9, <1>CoverThen

\* Nothing happens to a stream.
<1>CoverSame.
    ASSUME CoverInv, UNCHANGED <<wire, db, gap, alive, chan, lagging, got, early, lost>>
    PROVE  CoverInv'
  <2> USE <1>CoverSame
  <2>1. WireCover'
    BY Zenon DEF CoverInv, WireCover
  <2>2. \A s \in Subscribers, e \in Engagements : GapCover(s, e)'
    BY Zenon DEF CoverInv, GapCover
  <2>3. \A s \in Subscribers : alive'[s] => CoverOf(s)'
    BY Zenon DEF CoverInv, CoverOf
  <2> QED  BY Zenon, <2>1, <2>2, <2>3 DEF CoverInv

\* The wire changes, or events are lost, but none that s can still expect.
<1>CoverWire.
    ASSUME CoverInv, UNCHANGED <<db, gap, alive, chan, lagging, got, early>>,
           NEW d, NEW L, NEW w, NEW K, NEW v, d = db, L = lost, w = wire, K = lost', v = wire',
           L \subseteq K, Covers(v, d, K), Within(L \cup AllEvents(w), K \cup AllEvents(v), d)
    PROVE  CoverInv'
  <2> USE <1>CoverWire
  <2>1. WireCover'
    <3>1. d = db'
      BY Zenon
    <3> QED  BY Zenon, <3>1, <1>WireThen
  <2>2. ASSUME NEW s \in Subscribers, NEW e \in Engagements PROVE GapCover(s, e)'
    <3>1. PICK q, E : q = gap[e] /\ E = early[s]
      BY Zenon
    <3>2. Covers(q, d, E \cup L)
      BY Zenon, <3>1 DEF CoverInv, GapCover
    <3>3. Within(E \cup L, E \cup K, d)
      BY Zenon DEF Within
    <3>4. Covers(q, d, E \cup K)
      BY Zenon, <3>2, <3>3, CoverMono
    <3>5. q = gap'[e] /\ E = early'[s] /\ d = db'
      BY Zenon, <3>1
    <3> QED  BY Zenon, <3>4, <3>5, <1>GapThen
  <2>3. ASSUME NEW s \in Subscribers, alive'[s] PROVE CoverOf(s)'
    <3>1. PICK E, h : E = early[s] /\ h = gap
      BY Zenon
    <3>2. ASSUME NEW e \in Engagements, NEW n \in 1..d[e], Event(e, n) \in Soon(E, L, w, h)
          PROVE  Event(e, n) \in Soon(E, K, v, h)
      <4>1. Event(e, n) \in L \cup AllEvents(w) => Event(e, n) \in K \cup AllEvents(v)
        BY Zenon DEF Within
      <4>2. PICK x : x = Event(e, n)
        BY Zenon
      <4>3. x \in E \/ x \in L \/ x \in AllEvents(w) \/ \E f \in Engagements : x \in AllEvents(h[f])
        <5>1. x \in Soon(E, L, w, h)
          BY Zenon, <3>2, <4>2
        <5> QED  BY Zenon, <5>1 DEF Soon
      <4>4. x \in E \/ x \in K \/ x \in AllEvents(v) \/ \E f \in Engagements : x \in AllEvents(h[f])
        BY Zenon, <4>1, <4>2, <4>3
      <4>5. x \in Soon(E, K, v, h)
        BY Zenon, <4>4, <1>SoonFacts
      <4> QED  BY Zenon, <4>2, <4>5
    <3>3. Within(Soon(E, L, w, h), Soon(E, K, v, h), d)
      BY Zenon, <3>2 DEF Within
    <3>4. E = early'[s] /\ h = gap' /\ CoverOf(s)
      BY Zenon, <2>3, <3>1 DEF CoverInv
    <3> QED  BY Zenon, <3>1, <3>3, <3>4, <1>CoverKept
  <2> QED  BY Zenon, <2>1, <2>2, <2>3 DEF CoverInv

<1>CoverReturn.
    ASSUME IInv, CoverInv, Return
    PROVE  CoverInv'
  <2> USE <1>CoverReturn
  <2>1. PICK d, L, w, K : d = db /\ L = lost /\ w = wire /\ K = lost'
    BY Zenon
  <2>2. /\ wire' = <<>> /\ K = L \cup Notified
        /\ UNCHANGED <<db, gap, alive, chan, lagging, got, early>>
    BY Zenon, <2>1 DEF Return, dbVars, chanVars, subVars
  <2>3. \A x \in AllEvents(w) : x \in Notified \/ x = EventOf(Junk)
    BY Zenon, <2>1 DEF AllEvents, Notified
  <2>4. Within(L \cup AllEvents(w), K \cup AllEvents(<<>>), d)
    BY Zenon, <2>2, <2>3, JunkEvent DEF Within
  <2> QED  BY Zenon, <2>1, <2>2, <2>4, CoversEmpty, <1>CoverWire

<1>CoverJunk.
    ASSUME IInv, CoverInv, NotifyJunk
    PROVE  CoverInv'
  <2> USE <1>CoverJunk
  <2>1. PICK d, L, w, v : d = db /\ L = lost /\ w = wire /\ v = wire'
    BY Zenon
  <2>2. v = Append(w, Junk) /\ UNCHANGED <<db, gap, alive, chan, lagging, got, early, lost>>
    BY Zenon, <2>1 DEF NotifyJunk, chanVars, subVars, history
  <2>3. w \in Seq(Payloads \cup {Junk}) /\ Junk \in Payloads \cup {Junk}
    BY Zenon, <2>1 DEF IInv, TypeOK
  <2>4. Covers(w, d, L)
    BY Zenon, <2>1 DEF CoverInv, WireCover
  <2>5. Rest(Junk, d, L)
    <3>1. Junk.engagement_id \notin Engagements
      BY Zenon, NamesAssumption DEF Junk, Payload
    <3> QED  BY Zenon, <3>1 DEF Rest
  <2>6. Within(L, L \cup {EventOf(Junk)}, d)
    BY Zenon DEF Within
  <2>7. Covers(v, d, L)
    BY Zenon, <2>2, <2>3, <2>4, <2>5, <2>6, CoversAppend
  <2>8. AllEvents(w) \subseteq AllEvents(v)
    BY Zenon, <2>2, <2>3, EventsAppend
  <2>9. Within(L \cup AllEvents(w), L \cup AllEvents(v), d)
    BY Zenon, <2>8 DEF Within
  <2>10. L = lost' /\ L \subseteq L
    BY Zenon, <2>1, <2>2
  <2> QED  BY Zenon, <2>1, <2>2, <2>7, <2>9, <2>10, <1>CoverWire

<1>CoverLose.
    ASSUME IInv, CoverInv, NEW n \in 0..Len(wire), LoseConnection(n)
    PROVE  CoverInv'
  <2> USE <1>CoverLose
  <2>1. PICK d, L, w, K, v : d = db /\ L = lost /\ w = wire /\ K = lost' /\ v = wire'
    BY Zenon
  <2>2. /\ v = SubSeq(w, 1, n)
        /\ K = L \cup {EventOf(w[i]) : i \in {j \in n + 1..Len(w) : w[j] # Junk}}
        /\ UNCHANGED <<db, gap, alive, chan, lagging, got, early>>
    BY Zenon, <2>1 DEF LoseConnection, dbVars, chanVars, subVars
  <2>3. w \in Seq(Payloads \cup {Junk}) /\ n \in 0..Len(w)
    BY Zenon, <2>1 DEF IInv, TypeOK
  <2>4. /\ \A i \in DOMAIN v : i \in DOMAIN w /\ v[i] = w[i]
        /\ \A i \in DOMAIN w : (i \in DOMAIN v /\ v[i] = w[i]) \/ i \in n + 1..Len(w)
    BY <2>2, <2>3
  <2>5. \A i \in DOMAIN w : (i \in DOMAIN v /\ v[i] = w[i]) \/ EventOf(w[i]) \in K \/ w[i] = Junk
    BY Zenon, <2>2, <2>4
  <2>6. \A i : Within(L \cup After(w, i), K \cup After(v, i), d)
    BY Zenon, <2>2, <2>5, JunkEvent DEF Within, After
  <2>7. Within(L \cup AllEvents(w), K \cup AllEvents(v), d)
    BY Zenon, <2>2, <2>5, JunkEvent DEF Within, AllEvents
  <2>8. Covers(w, d, L)
    BY Zenon, <2>1 DEF CoverInv, WireCover
  <2>9. ASSUME NEW i \in DOMAIN v PROVE Rest(v[i], d, K \cup After(v, i))
    <3>1. Rest(w[i], d, L \cup After(w, i))
      BY Zenon, <2>4, <2>8 DEF Covers
    <3>2. Rest(w[i], d, K \cup After(v, i))
      BY Zenon, <2>6, <3>1, RestMono
    <3> QED  BY Zenon, <2>4, <3>2
  <2>10. Covers(v, d, K)
    BY Zenon, <2>9 DEF Covers
  <2>11. L \subseteq K
    BY Zenon, <2>2
  <2> QED  BY Zenon, <2>1, <2>2, <2>7, <2>10, <2>11, <1>CoverWire

<1>CoverSubscribe.
    ASSUME IInv, CoverInv, NEW r \in Subscribers, NEW m \in Engagements \cup Batches, Subscribe(r, m)
    PROVE  CoverInv'
  <2> USE <1>CoverSubscribe
  <2>1. /\ early' = [early EXCEPT ![r] = Committed] /\ alive' = [alive EXCEPT ![r] = TRUE]
        /\ UNCHANGED <<wire, db, gap, chan, lagging, got, lost>>
    BY Zenon DEF Subscribe, connVars, dbVars, chanVars
  <2>2. PICK d, L, w, h, D : d = db /\ L = lost /\ w = wire /\ h = gap /\ D = Committed
    BY Zenon
  <2>3. \A e \in Engagements : \A n \in 1..d[e] : Event(e, n) \in D
    <3> TAKE e \in Engagements
    <3> TAKE n \in 1..d[e]
    <3>1. d[e] \in 0..MaxEvents /\ MaxEvents \in Nat
      BY Zenon, <2>2, BoundsAssumption DEF IInv, TypeOK
    <3>2. n \in 1..MaxEvents /\ n <= d[e]
      BY <3>1
    <3> QED  BY Zenon, <2>2, <3>2 DEF Committed, Events, Event
  <2>4. \A s \in Subscribers : early'[s] = (IF s = r THEN D ELSE early[s])
                               /\ alive'[s] = (IF s = r THEN TRUE ELSE alive[s])
    BY Zenon, <2>1, <2>2 DEF IInv, TypeOK
  <2>5. WireCover'
    BY Zenon, <2>1 DEF CoverInv, WireCover
  <2>6. ASSUME NEW s \in Subscribers, NEW e \in Engagements PROVE GapCover(s, e)'
    <3>1. PICK q : q = gap[e]
      BY Zenon
    <3>2. CASE s = r
      <4>1. Covers(q, d, D \cup L)
        BY Zenon, <2>3, <1>CoverAll
      <4> QED  BY Zenon, <2>1, <2>2, <2>4, <3>1, <3>2, <4>1, <1>GapThen
    <3>3. CASE s # r
      <4>1. early'[s] = early[s]
        BY Zenon, <2>4, <3>3
      <4> QED  BY Zenon, <2>1, <4>1 DEF CoverInv, GapCover
    <3> QED  BY Zenon, <3>2, <3>3
  <2>7. ASSUME NEW s \in Subscribers, alive'[s] PROVE CoverOf(s)'
    <3>1. CASE s = r
      <4>1. PICK g, c, lags : g = got[s] /\ c = chan[s] /\ lags = lagging[s]
        BY Zenon
      <4>2. \A e \in Engagements : \A n \in 1..d[e] : Event(e, n) \in Soon(D, L, w, h)
        BY Zenon, <2>3, <1>SoonFacts
      <4>3. Cover(g, c, lags, d, Soon(D, L, w, h))
        BY Zenon, <4>2, <1>CoverAll
      <4> QED  BY Zenon, <2>1, <2>2, <2>4, <3>1, <4>1, <4>3, <1>CoverThen
    <3>2. CASE s # r
      <4>1. early'[s] = early[s] /\ alive[s]
        BY Zenon, <2>4, <2>7, <3>2
      <4> QED  BY Zenon, <2>1, <4>1 DEF CoverInv, CoverOf
    <3> QED  BY Zenon, <3>1, <3>2
  <2> QED  BY Zenon, <2>5, <2>6, <2>7 DEF CoverInv

<1>CoverGapSelect.
    ASSUME IInv, KindInv, CoverInv, NEW e \in Engagements, NEW last_seen \in 0..db[e],
           GapSelect(e, last_seen)
    PROVE  CoverInv'
  <2> USE <1>CoverGapSelect
  <2>0. db[e] \in 0..MaxEvents /\ MaxEvents \in Nat
    BY Zenon, BoundsAssumption DEF IInv, TypeOK
  <2>1. PICK d, L, w, h, k : d = db /\ L = lost /\ w = wire /\ h = gap /\ k = gap'
    BY Zenon
  <2>2. d[e] \in Nat /\ last_seen \in Nat
    BY <2>0, <2>1
  <2>3. PICK first \in Nat : first = last_seen + 1
    BY <2>2
  <2>4. PICK rows : rows = GapRows(e, first, d[e])
    BY Zenon
  <2>5. /\ gap[e] = <<>> /\ gap' = [gap EXCEPT ![e] = rows]
        /\ early' = [s \in Subscribers |->
                        IF s \in senders
                        THEN early[s] \ {x \in Events : x.engagement_id = e /\ x.sequence >= first}
                        ELSE early[s]]
        /\ UNCHANGED <<wire, db, alive, chan, lagging, got, lost>>
    BY Zenon, <2>1, <2>3, <2>4 DEF GapRows, GapSelect, SelectRows, connVars, chanVars, subVars
  <2>6. ASSUME NEW s \in Subscribers, NEW x, x \in early[s]
        PROVE  x \in early'[s] \/ (x.engagement_id = e /\ x.sequence >= first)
    BY Zenon, <2>5, <2>6
  <2>7. \A f \in Engagements : k[f] = IF f = e THEN rows ELSE h[f]
    BY Zenon, <2>1, <2>5 DEF IInv, TypeOK
  <2>8. \A n \in 1..d[e] : n >= first => Event(e, n) \in AllEvents(rows)
    <3> SUFFICES ASSUME NEW n \in 1..d[e], n >= first PROVE Event(e, n) \in AllEvents(rows)
      BY Zenon
    <3>1. PICK j : j = n - first + 1
      BY Zenon
    <3>2. j \in 1..(d[e] - first + 1) /\ first + j - 1 = n
      BY <2>2, <3>1
    <3>3. j \in DOMAIN rows /\ rows[j] = Payload(e, n, FALSE)
      BY Zenon, <2>4, <3>2 DEF GapRows
    <3>4. EventOf(rows[j]) = Event(e, n)
      BY <3>3 DEF EventOf, Event, Payload
    <3> QED  BY Zenon, <3>3, <3>4 DEF AllEvents
  <2>9. \A f, n : Event(f, n).engagement_id = f /\ Event(f, n).sequence = n
    BY Zenon DEF Event
  <2>10. WireCover'
    BY Zenon, <2>5 DEF CoverInv, WireCover
  <2>11. ASSUME NEW s \in Subscribers, NEW f \in Engagements PROVE GapCover(s, f)'
    <3>1. PICK q, E, D : q = gap[f] /\ E = early[s] /\ D = early'[s]
      BY Zenon
    <3>2. CASE f = e
      <4>1. Covers(rows, d, D \cup L)
        BY Zenon, <2>2, <2>4, RowsCover
      <4>2. rows = gap'[f] /\ d = db' /\ L = lost'
        BY Zenon, <2>1, <2>5, <2>7, <3>2
      <4> QED  BY Zenon, <3>1, <4>1, <4>2, <1>GapThen
    <3>3. CASE f # e
      <4>1. Covers(q, d, E \cup L) /\ \A i \in DOMAIN q : q[i].engagement_id = f
        BY Zenon, <2>1, <3>1 DEF CoverInv, GapCover, KindInv
      <4>2. \A n : Event(f, n) \in E => Event(f, n) \in D
        <5> SUFFICES ASSUME NEW n, Event(f, n) \in E PROVE Event(f, n) \in D
          BY Zenon
        <5>1. PICK x : x = Event(f, n)
          BY Zenon
        <5>2. x.engagement_id = f /\ x \in early[s]
          BY Zenon, <2>9, <3>1, <5>1
        <5> QED  BY Zenon, <2>6, <3>1, <3>3, <5>1, <5>2
      <4>3. Covers(q, d, D \cup L)
        BY Zenon, <4>1, <4>2 DEF Covers, Rest
      <4>4. q = gap'[f] /\ d = db' /\ L = lost'
        BY Zenon, <2>1, <2>5, <2>7, <3>1, <3>3
      <4> QED  BY Zenon, <3>1, <4>3, <4>4, <1>GapThen
    <3> QED  BY Zenon, <3>2, <3>3
  <2>12. ASSUME NEW s \in Subscribers, alive'[s] PROVE CoverOf(s)'
    <3>1. PICK E, D : E = early[s] /\ D = early'[s]
      BY Zenon
    <3>2. ASSUME NEW f \in Engagements, NEW n \in 1..d[f], Event(f, n) \in Soon(E, L, w, h)
          PROVE  Event(f, n) \in Soon(D, L, w, k)
      <4>1. PICK x : x = Event(f, n)
        BY Zenon
      <4>2. CASE x \in E
        <5>1. x \in D \/ (f = e /\ n >= first)
          <6>1. x.engagement_id = f /\ x.sequence = n /\ x \in early[s]
            BY Zenon, <2>9, <3>1, <4>1, <4>2
          <6> QED  BY Zenon, <2>6, <3>1, <6>1
        <5>2. f = e /\ n >= first => x \in AllEvents(k[e])
          BY Zenon, <2>7, <2>8, <4>1
        <5> QED  BY Zenon, <4>1, <5>1, <5>2, <1>SoonFacts
      <4>3. CASE \E m \in Engagements : x \in AllEvents(h[m])
        <5>1. PICK m \in Engagements : x \in AllEvents(h[m])
          BY Zenon, <4>3
        <5>2. m # e
          <6>1. h[e] = << >> /\ \A i \in DOMAIN << >> : FALSE
            BY Zenon, <2>1, <2>5, NoIndex
          <6> QED  BY Zenon, <5>1, <6>1 DEF AllEvents
        <5>3. x \in AllEvents(k[m])
          BY Zenon, <2>7, <5>1, <5>2
        <5> QED  BY Zenon, <4>1, <5>3, <1>SoonFacts
      <4>4. CASE x \in L \/ x \in AllEvents(w)
        BY Zenon, <4>1, <4>4, <1>SoonFacts
      <4>5. x \in E \/ x \in L \/ x \in AllEvents(w) \/ \E m \in Engagements : x \in AllEvents(h[m])
        <5>1. x \in Soon(E, L, w, h)
          BY Zenon, <3>2, <4>1
        <5> QED  BY Zenon, <5>1 DEF Soon
      <4> QED  BY Zenon, <4>2, <4>3, <4>4, <4>5
    <3>3. Within(Soon(E, L, w, h), Soon(D, L, w, k), d)
      BY Zenon, <3>2 DEF Within
    <3>4. CoverOf(s) /\ L = lost' /\ w = wire'
      BY Zenon, <2>1, <2>5, <2>12 DEF CoverInv
    <3> QED  BY Zenon, <2>1, <2>5, <3>1, <3>3, <3>4, <1>CoverKept
  <2> QED  BY Zenon, <2>10, <2>11, <2>12 DEF CoverInv

<1>CoverGapFan.
    ASSUME IInv, KindInv, CoverInv, NEW e \in Engagements, GapFan(e)
    PROVE  CoverInv'
  <2> USE <1>CoverGapFan
  <2>1. PICK q, p, t : q = gap[e] /\ p = Head(q) /\ t = Tail(q)
    BY Zenon
  <2>2. /\ q \in Seq(Payloads) /\ q # <<>> /\ gap' = [gap EXCEPT ![e] = t]
        /\ UNCHANGED <<wire, db, alive, got, early, lost>>
    BY Zenon, <2>1 DEF GapFan, connVars, subVars, history, IInv, TypeOK
  <2>3. Fanout(p)
    BY Zenon, <2>1 DEF GapFan, Fanout, Retained, Matching, EventOf, Event
  <2>4. p \in Payloads
    BY Zenon, <2>1, <2>2, TailFacts
  <2>5. phase # "stopped"
    BY Zenon, <2>1, <2>2 DEF IInv, PhaseInv
  <2>6. PICK d, L, w, h, k : d = db /\ L = lost /\ w = wire /\ h = gap /\ k = gap'
    BY Zenon
  <2>7. \A f \in Engagements : k[f] = IF f = e THEN t ELSE h[f]
    BY Zenon, <2>2, <2>6 DEF IInv, TypeOK
  <2>8. AllEvents(q) \subseteq {EventOf(p)} \cup AllEvents(t)
    BY Zenon, <2>1, <2>2, EventsTail
  <2>9. ASSUME NEW s \in Subscribers, NEW E, E = early[s]
        PROVE  Covers(t, d, E \cup L) /\ Rest(p, d, (E \cup L) \cup AllEvents(t))
    <3>1. Covers(q, d, E \cup L)
      BY Zenon, <2>1, <2>6, <2>9 DEF CoverInv, GapCover
    <3> QED  BY Zenon, <2>1, <2>2, <3>1, CoversTail
  <2>10. WireCover'
    BY Zenon, <2>2 DEF CoverInv, WireCover
  <2>11. ASSUME NEW s \in Subscribers, NEW f \in Engagements PROVE GapCover(s, f)'
    <3>1. CASE f = e
      <4>1. PICK E : E = early[s]
        BY Zenon
      <4>2. Covers(t, d, E \cup L)
        BY Zenon, <2>9, <4>1
      <4>3. t = gap'[f] /\ d = db' /\ L = lost' /\ E = early'[s]
        BY Zenon, <2>2, <2>6, <2>7, <3>1, <4>1
      <4> QED  BY Zenon, <4>2, <4>3, <1>GapThen
    <3>2. CASE f # e
      <4>1. gap'[f] = gap[f]
        BY Zenon, <2>6, <2>7, <3>2
      <4> QED  BY Zenon, <2>2, <4>1 DEF CoverInv, GapCover
    <3> QED  BY Zenon, <3>1, <3>2
  <2>12. ASSUME NEW s \in Subscribers, alive'[s] PROVE CoverOf(s)'
    <3>1. PICK E : E = early[s]
      BY Zenon
    <3>2. \A x \in AllEvents(t) : x \in Soon(E, L, w, k)
      BY Zenon, <2>7 DEF Soon
    <3>3. \A x \in E \cup L : x \in Soon(E, L, w, k)
      BY Zenon DEF Soon
    <3>4. ASSUME NEW x \in Soon(E, L, w, h) PROVE x \in Soon(E, L, w, k) \cup {EventOf(p)}
      <4>1. CASE \E f \in Engagements : x \in AllEvents(h[f])
        <5>1. PICK f \in Engagements : x \in AllEvents(h[f])
          BY Zenon, <4>1
        <5>2. CASE f = e
          <6>1. x \in AllEvents(q)
            BY Zenon, <2>1, <2>6, <5>1, <5>2
          <6> QED  BY Zenon, <2>8, <3>2, <6>1
        <5>3. CASE f # e
          <6>1. x \in AllEvents(k[f])
            BY Zenon, <2>7, <5>1, <5>3
          <6> QED  BY Zenon, <6>1 DEF Soon
        <5> QED  BY Zenon, <5>2, <5>3
      <4>2. CASE x \in E \/ x \in L \/ x \in AllEvents(w)
        BY Zenon, <4>2 DEF Soon
      <4> QED  BY Zenon, <3>4, <4>1, <4>2 DEF Soon
    <3>5. Within(Soon(E, L, w, h), Soon(E, L, w, k) \cup {EventOf(p)}, d)
      BY Zenon, <3>4 DEF Within
    <3>6. Within((E \cup L) \cup AllEvents(t), Soon(E, L, w, k), d)
      BY Zenon, <3>2, <3>3 DEF Within
    <3>7. Rest(p, d, Soon(E, L, w, k))
      BY Zenon, <2>9, <3>1, <3>6, RestMono
    <3>8. alive[s] /\ CoverOf(s) /\ KindOf(s) /\ L = lost' /\ w = wire' /\ E = early'[s]
      BY Zenon, <2>2, <2>6, <2>12, <3>1 DEF CoverInv, KindInv
    <3> QED  BY Zenon, <2>2, <2>3, <2>4, <2>5, <2>6, <3>1, <3>5, <3>7, <3>8, <1>CoverFanout
  <2> QED  BY Zenon, <2>10, <2>11, <2>12 DEF CoverInv

<1>CoverHandle.
    ASSUME IInv, KindInv, CoverInv, RecvOk \/ HealthCheckOk
    PROVE  CoverInv'
  <2> USE <1>CoverHandle
  <2>1. PICK w, p, v : w = wire /\ p = Head(w) /\ v = Tail(w)
    BY Zenon
  <2>2. /\ phase # "stopped" /\ w \in Seq(Payloads \cup {Junk}) /\ w # <<>> /\ wire' = v
        /\ UNCHANGED <<db, gap, alive, got, early, lost>>
    BY Zenon, <2>1 DEF RecvOk, HealthCheckOk, dbVars, subVars, history, IInv, TypeOK
  <2>3. p \in Payloads \cup {Junk}
    BY Zenon, <2>1, <2>2, TailFacts
  <2>4. PICK d, L : d = db /\ L = lost
    BY Zenon
  <2>5. Covers(w, d, L)
    BY Zenon, <2>1, <2>4 DEF CoverInv, WireCover
  <2>6. Covers(v, d, L) /\ Rest(p, d, L \cup AllEvents(v))
    BY Zenon, <2>1, <2>2, <2>5, CoversTail
  <2>7. AllEvents(w) \subseteq {EventOf(p)} \cup AllEvents(v)
    BY Zenon, <2>1, <2>2, EventsTail
  <2>8. CASE p = Junk
    <3>1. UNCHANGED <<chan, lagging>>
      BY Zenon, <2>1, <2>8 DEF RecvOk, HealthCheckOk, HandleNotification, chanVars
    <3>2. Within(L \cup AllEvents(w), L \cup AllEvents(v), d)
      BY Zenon, <2>7, <2>8, JunkEvent DEF Within
    <3>3. L \subseteq L /\ L = lost'
      BY Zenon, <2>2, <2>4
    <3> QED  BY Zenon, <2>1, <2>2, <2>4, <2>6, <3>1, <3>2, <3>3, <1>CoverWire
  <2>9. CASE p # Junk
    <3>1. p \in Payloads
      BY Zenon, <2>3, <2>9
    <3>2. Fanout(p)
      BY Zenon, <2>1, <2>9 DEF RecvOk, HealthCheckOk, HandleNotification, Fanout, Retained, Matching,
                               EventOf, Event
    <3>3. WireCover'
      BY Zenon, <2>2, <2>4, <2>6, <1>WireThen
    <3>4. \A s \in Subscribers, e \in Engagements : GapCover(s, e)'
      BY Zenon, <2>2 DEF CoverInv, GapCover
    <3>5. ASSUME NEW s \in Subscribers, alive'[s] PROVE CoverOf(s)'
      <4>1. PICK E, h : E = early[s] /\ h = gap
        BY Zenon
      <4>2. \A x \in L \cup AllEvents(v) : x \in Soon(E, L, v, h)
        BY Zenon DEF Soon
      <4>3. ASSUME NEW x \in Soon(E, L, w, h) PROVE x \in Soon(E, L, v, h) \cup {EventOf(p)}
        <5>1. CASE x \in AllEvents(w)
          BY Zenon, <2>7, <4>2, <5>1
        <5>2. CASE x \notin AllEvents(w)
          BY Zenon, <4>3, <5>2 DEF Soon
        <5> QED  BY Zenon, <5>1, <5>2
      <4>4. Within(Soon(E, L, w, h), Soon(E, L, v, h) \cup {EventOf(p)}, d)
        BY Zenon, <4>3 DEF Within
      <4>5. Within(L \cup AllEvents(v), Soon(E, L, v, h), d)
        BY Zenon, <4>2 DEF Within
      <4>6. Rest(p, d, Soon(E, L, v, h))
        BY Zenon, <2>6, <4>5, RestMono
      <4>7. /\ alive[s] /\ CoverOf(s) /\ KindOf(s) /\ L = lost' /\ v = wire' /\ E = early'[s] /\ h = gap'
        BY Zenon, <2>2, <2>4, <3>5, <4>1 DEF CoverInv, KindInv
      <4>8. phase # "stopped"
        BY Zenon, <2>2
      <4> QED  BY Zenon, <2>1, <2>2, <2>4, <3>1, <3>2, <4>1, <4>4, <4>6, <4>7, <4>8, <1>CoverFanout
    <3> QED  BY Zenon, <3>3, <3>4, <3>5 DEF CoverInv
  <2> QED  BY Zenon, <2>8, <2>9

<1>CoverAtCommit.
    ASSUME IInv, CoverInv, NEW e \in Engagements, Commit(e)
    PROVE  CoverInv'
  <2> USE <1>CoverAtCommit
  <2>1. PICK d, L, w, h, K, v, b : /\ d = db /\ L = lost /\ w = wire /\ h = gap
                                   /\ K = lost' /\ v = wire' /\ b = db'
    BY Zenon
  <2>2. d \in [Engagements -> Nat] /\ d[e] + 1 \in 1..MaxEvents
    <3>1. MaxEvents \in Nat /\ d \in [Engagements -> 0..MaxEvents] /\ d[e] < MaxEvents
      BY Zenon, <2>1, BoundsAssumption DEF IInv, TypeOK, Commit
    <3> QED  BY <3>1
  <2>3. PICK p, y : p = Payload(e, d[e] + 1, TRUE) /\ y = Event(e, d[e] + 1)
    BY Zenon
  <2>4. p \in Payloads /\ EventOf(p) = y
    BY Zenon, <2>2, <2>3, PayloadFacts
  <2>5. /\ b = [d EXCEPT ![e] = d[e] + 1]
        /\ v = IF conn THEN Append(w, p) ELSE w
        /\ early' = IF connected_tx THEN [s \in Subscribers |-> early[s] \cup {y}] ELSE early
        /\ K = IF conn \/ connected_tx THEN L ELSE L \cup {y}
        /\ UNCHANGED <<gap, alive, chan, lagging, got>>
    BY Zenon, <2>1, <2>3 DEF Commit, CommitRow, chanVars, subVars
  <2>6. w \in Seq(Payloads \cup {Junk}) /\ p \in Payloads \cup {Junk}
    BY Zenon, <2>1, <2>4 DEF IInv, TypeOK
  <2>7. L \subseteq K /\ \A s \in Subscribers : early[s] \subseteq early'[s]
    BY Zenon, <2>5
  <2>8. WireCover'
    <3>1. Covers(w, d, L)
      BY Zenon, <2>1 DEF CoverInv, WireCover
    <3>2. Covers(w, b, L \cup {y})
      <4>1. Within(L, L \cup {y}, d)
        BY Zenon DEF Within
      <4>2. Event(e, d[e] + 1) \in L \cup {y}
        BY Zenon, <2>3
      <4> QED  BY Zenon, <2>2, <2>5, <3>1, <4>1, <4>2, CoverCommit
    <3>3. CASE conn
      <4>1. Rest(p, b, K)
        <5>1. p.engagement_id = e /\ p.sequence = d[e] + 1
          BY Zenon, <2>3 DEF Payload
        <5>2. b[e] = d[e] + 1 /\ d[e] \in Nat
          BY Zenon, <2>2, <2>5
        <5>3. \A n \in 1..b[e] : ~ (n > d[e] + 1)
          BY <5>2
        <5> QED  BY Zenon, <5>1, <5>3 DEF Rest
      <4>2. Within(L \cup {y}, K \cup {EventOf(p)}, b)
        BY Zenon, <2>4, <2>7 DEF Within
      <4>3. Covers(Append(w, p), b, K)
        BY Zenon, <2>6, <3>2, <4>1, <4>2, CoversAppend
      <4>4. Covers(v, b, K)
        BY Zenon, <2>5, <3>3, <4>3
      <4> QED  BY Zenon, <2>1, <4>4, <1>WireThen
    <3>4. CASE ~ conn
      <4>1. v = w
        BY Zenon, <2>5, <3>4
      <4>2. w = <<>> \/ ~ connected_tx
        BY Zenon, <2>1 DEF IInv, PhaseInv
      <4>3. CASE w = <<>>
        BY Zenon, <2>1, <4>1, <4>3, CoversEmpty, <1>WireThen
      <4>4. CASE ~ connected_tx
        <5>1. K = L \cup {y}
          BY Zenon, <2>5, <3>4, <4>4
        <5> QED  BY Zenon, <2>1, <3>2, <4>1, <5>1, <1>WireThen
      <4> QED  BY Zenon, <4>2, <4>3, <4>4
    <3> QED  BY Zenon, <3>3, <3>4
  <2>9. ASSUME NEW s \in Subscribers, NEW f \in Engagements PROVE GapCover(s, f)'
    <3>1. PICK q, E, D : q = gap[f] /\ E = early[s] /\ D = early'[s]
      BY Zenon
    <3>2. q = gap'[f]
      BY Zenon, <2>5, <3>1
    <3>3. CASE q = <<>>
      <4>1. Covers(q, b, D \cup K)
        BY Zenon, <3>3, CoversEmpty
      <4> QED  BY Zenon, <2>1, <3>1, <3>2, <4>1, <1>GapThen
    <3>4. CASE q # <<>>
      <4>1. connected_tx
        BY Zenon, <3>1, <3>4 DEF IInv, PhaseInv
      <4>2. Event(e, d[e] + 1) \in D \cup K
        BY Zenon, <2>3, <2>5, <3>1, <4>1
      <4>3. Within(E \cup L, D \cup K, d)
        BY Zenon, <2>7, <3>1 DEF Within
      <4>4. Covers(q, d, E \cup L)
        BY Zenon, <2>1, <3>1 DEF CoverInv, GapCover
      <4>5. Covers(q, b, D \cup K)
        BY Zenon, <2>2, <2>5, <4>2, <4>3, <4>4, CoverCommit
      <4> QED  BY Zenon, <2>1, <3>1, <3>2, <4>5, <1>GapThen
    <3> QED  BY Zenon, <3>3, <3>4
  <2>10. ASSUME NEW s \in Subscribers, alive'[s] PROVE CoverOf(s)'
    <3>1. PICK E, D, g, c, lags : /\ E = early[s] /\ D = early'[s]
                                 /\ g = got[s] /\ c = chan[s] /\ lags = lagging[s]
      BY Zenon
    <3>2. AllEvents(w) \subseteq AllEvents(v) /\ (conn => y \in AllEvents(v))
      <4>1. AllEvents(w) \cup {EventOf(p)} \subseteq AllEvents(Append(w, p))
        BY Zenon, <2>6, EventsAppend
      <4> QED  BY Zenon, <2>4, <2>5, <4>1
    <3>3. y \in D \/ y \in K \/ y \in AllEvents(v)
      BY Zenon, <2>5, <3>1, <3>2
    <3>4. Event(e, d[e] + 1) \in Soon(D, K, v, h)
      BY Zenon, <2>3, <3>3 DEF Soon
    <3>5. \A x \in Soon(E, L, w, h) : x \in Soon(D, K, v, h)
      BY Zenon, <2>7, <3>1, <3>2 DEF Soon
    <3>6. Within(Soon(E, L, w, h), Soon(D, K, v, h), d)
      BY Zenon, <3>5 DEF Within
    <3>7. Cover(g, c, lags, d, Soon(E, L, w, h))
      BY Zenon, <2>1, <2>5, <2>10, <3>1 DEF CoverInv, CoverOf
    <3>8. Cover(g, c, lags, b, Soon(D, K, v, h))
      BY Zenon, <2>2, <2>5, <3>4, <3>6, <3>7, CoverCommit
    <3>9. g = got'[s] /\ c = chan'[s] /\ lags = lagging'[s] /\ h = gap'
      BY Zenon, <2>1, <2>5, <3>1
    <3> QED  BY Zenon, <2>1, <3>1, <3>8, <3>9, <1>CoverThen
  <2> QED  BY Zenon, <2>8, <2>9, <2>10 DEF CoverInv

<1>CoverAtRead.
    ASSUME IInv, CoverInv, NEW r \in Subscribers, Read(r) \/ DropReceiver(r)
    PROVE  CoverInv'
  <2> USE <1>CoverAtRead
  <2>1. PICK c \in Seq(Payloads), g \in Seq(Payloads \cup {Lagged}) : c = chan[r] /\ g = got[r]
    BY Zenon DEF IInv, TypeOK
  <2>2. UNCHANGED <<wire, gap, db, early, lost>>
    BY Zenon DEF Read, DropReceiver, connVars, dbVars, history
  <2>3. WireCover' /\ \A s \in Subscribers, e \in Engagements : GapCover(s, e)'
    BY Zenon, <2>2 DEF CoverInv, WireCover, GapCover
  <2>4. /\ lagging[r] \in BOOLEAN
        /\ r \in DOMAIN lagging /\ r \in DOMAIN chan /\ r \in DOMAIN got /\ r \in DOMAIN alive
    BY Zenon DEF IInv, TypeOK
  <2>5. ASSUME NEW s \in Subscribers, alive'[s], s # r PROVE CoverOf(s)'
    <3>1. /\ got'[s] = got[s] /\ chan'[s] = chan[s] /\ lagging'[s] = lagging[s] /\ alive[s]
      BY Zenon, <2>5 DEF Read, DropReceiver, IInv, TypeOK
    <3> QED  BY Zenon, <2>2, <3>1 DEF CoverInv, CoverOf
  <2>6. ASSUME alive'[r] PROVE CoverOf(r)'
    <3>1. PICK d, E, L, w, h : d = db /\ E = early[r] /\ L = lost /\ w = wire /\ h = gap
      BY Zenon
    <3>2. PICK F : F = Soon(E, L, w, h)
      BY Zenon
    <3>3. Read(r)
      BY Zenon, <2>4, <2>6 DEF DropReceiver
    <3>4. PICK a, b, lags : a = got'[r] /\ b = chan'[r] /\ lags = lagging'[r]
      BY Zenon
    <3>5. lags = FALSE
      BY Zenon, <2>4, <3>3, <3>4 DEF Read
    <3>6. alive[r] /\ Cover(g, c, lagging[r], d, F)
      BY Zenon, <2>1, <3>1, <3>2, <3>3 DEF CoverInv, CoverOf, Read
    <3>7. CASE lagging[r]
      <4>1. a = Append(g, Lagged) /\ b = c
        BY Zenon, <2>1, <2>4, <3>3, <3>4, <3>7 DEF Read
      <4>2. Cover(g, c, TRUE, d, F)
        BY Zenon, <3>6, <3>7 DEF Cover
      <4>3. Cover(a, b, FALSE, d, F)
        BY Zenon, <4>1, <4>2, CoverLagged
      <4> QED  BY Zenon, <2>2, <3>1, <3>2, <3>4, <3>5, <4>3, <1>CoverThen
    <3>8. CASE ~ lagging[r]
      <4>1. c # <<>> /\ a = Append(g, Head(c)) /\ b = Tail(c)
        BY Zenon, <2>1, <2>4, <3>3, <3>4, <3>8 DEF Read
      <4>2. Cover(g, c, FALSE, d, F)
        BY Zenon, <3>6, <3>8 DEF Cover
      <4>3. Cover(a, b, FALSE, d, F)
        BY Zenon, <4>1, <4>2, CoverRead
      <4> QED  BY Zenon, <2>2, <3>1, <3>2, <3>4, <3>5, <4>3, <1>CoverThen
    <3> QED  BY Zenon, <3>7, <3>8
  <2> QED  BY Zenon, <2>3, <2>5, <2>6 DEF CoverInv
<1> SUFFICES ASSUME IInv, KindInv, CoverInv, [Next]_vars PROVE CoverInv'
  BY Zenon
<1>1. CASE \E s \in Subscribers, k \in Engagements \cup Batches : Subscribe(s, k)
  BY Zenon, <1>1, <1>CoverSubscribe
<1>2. CASE \E e \in Engagements : \E last_seen \in 0..db[e] : GapSelect(e, last_seen)
  BY Zenon, <1>2, <1>CoverGapSelect
<1>3. CASE \E e \in Engagements : GapFan(e)
  BY Zenon, <1>3, <1>CoverGapFan
<1>4. CASE Run \/ StartConnect \/ ConnectFails \/ BackoffOver \/ ConnectionError \/ Shutdown
  BY Zenon, <1>4, <1>CoverSame
     DEF Run, StartConnect, ConnectFails, BackoffOver, ConnectionError, Shutdown, dbVars, chanVars,
         subVars, history
<1>5. CASE ConnectOk
  <2>1. wire' = wire
    BY Zenon, <1>5 DEF ConnectOk, IInv, PhaseInv, Attending
  <2> QED  BY Zenon, <1>5, <2>1, <1>CoverSame DEF ConnectOk, dbVars, chanVars, subVars, history
<1>6. CASE CheckShutdown \/ ShutdownChanged
  BY Zenon, <1>6, <1>CoverReturn DEF CheckShutdown, ShutdownChanged
<1>7. CASE RecvOk \/ HealthCheckOk
  BY Zenon, <1>7, <1>CoverHandle
<1>8. CASE NotifyJunk
  BY Zenon, <1>8, <1>CoverJunk
<1>9. CASE \E n \in 0..Len(wire) : LoseConnection(n)
  BY Zenon, <1>9, <1>CoverLose
<1>10. CASE \E s \in Subscribers : Read(s) \/ DropReceiver(s)
  BY Zenon, <1>10, <1>CoverAtRead
<1>11. CASE \E e \in Engagements : Commit(e)
  BY Zenon, <1>11, <1>CoverAtCommit
<1>12. CASE UNCHANGED vars
  BY Zenon, <1>12, <1>CoverSame DEF vars, connVars, dbVars, chanVars, subVars, history
<1>13. CASE Quiet
  BY Zenon, <1>13, <1>CoverSame, QuietStep
<1> QED
  BY Zenon, <1>1, <1>2, <1>3, <1>4, <1>5, <1>6, <1>7, <1>8, <1>9, <1>10, <1>11, <1>12, <1>13
     DEF Next, ManagerNext, Quiet

-----------------------------------------------------------------------------
(* Holes in what a subscriber has received. *)

\* NoUnannouncedHole of one subscriber; F is what it is not owed.
Holeless(g, F) ==
    \A i, j \in DOMAIN g :
        i < j /\ Live(g[j]) /\ g[i].engagement_id = g[j].engagement_id
            => \A n \in g[i].sequence + 1 .. g[j].sequence - 1 :
                   \/ Event(g[j].engagement_id, n) \in AllEvents(g) \cup F
                   \/ \E k \in i..j : g[k] = Lagged

HoleInv == \A s \in Subscribers : Holeless(got[s], early[s] \cup lost)

LEMMA HolesAreAnnounced == HoleInv => NoUnannouncedHole
<1> SUFFICES ASSUME HoleInv, NEW s \in Subscribers, NEW i \in DOMAIN got[s], NEW j \in DOMAIN got[s],
                    i < j, Live(got[s][j]), got[s][i].engagement_id = got[s][j].engagement_id,
                    NEW n \in got[s][i].sequence + 1 .. got[s][j].sequence - 1
             PROVE  \/ Holds(got[s], Event(got[s][j].engagement_id, n))
                    \/ Event(got[s][j].engagement_id, n) \in early[s] \cup lost
                    \/ \E k \in i..j : got[s][k] = Lagged
  BY Zenon DEF NoUnannouncedHole
<1>1. \/ Event(got[s][j].engagement_id, n) \in AllEvents(got[s]) \cup (early[s] \cup lost)
      \/ \E k \in i..j : got[s][k] = Lagged
  BY Zenon DEF HoleInv, Holeless
<1> QED  BY Zenon, <1>1 DEF AllEvents, Holds

LEMMA HolelessMono ==
  ASSUME NEW g, NEW F, NEW G, F \subseteq G, Holeless(g, F)
  PROVE  Holeless(g, G)
BY Zenon DEF Holeless

\* A received payload p: for each older i a lag was announced after i, or all
\* that is newer and older than p has been received or is in F.
LEMMA HolelessAppend ==
  ASSUME NEW S, NEW g \in Seq(S), NEW p \in S, NEW F, Holeless(g, F),
         ASSUME Live(p), NEW i \in DOMAIN g, g[i].engagement_id = p.engagement_id,
                NEW n \in g[i].sequence + 1 .. p.sequence - 1
         PROVE  \/ Event(p.engagement_id, n) \in AllEvents(g) \cup F
                \/ \E k \in DOMAIN g : k > i /\ g[k] = Lagged
  PROVE  Holeless(Append(g, p), F)
<1>1. PICK a, len : a = Append(g, p) /\ len = Len(g)
  BY Zenon
<1>2. Extends(a, g, len, p)
  BY Zenon, <1>1, AppendExtends
<1>3. \A i \in DOMAIN a : (i \in DOMAIN g /\ a[i] = g[i]) \/ (i = len + 1 /\ a[i] = p)
  BY Zenon, <1>2 DEF Extends
<1>4. AllEvents(g) \subseteq AllEvents(a)
  BY Zenon, <1>1, EventsAppend
<1>5. len \in Nat /\ DOMAIN g = 1..len
  BY <1>1
<1>6. \A k \in DOMAIN g : a[k] = g[k]
  BY Zenon, <1>2 DEF Extends
<1> SUFFICES ASSUME NEW i \in DOMAIN a, NEW j \in DOMAIN a, i < j, Live(a[j]),
                    a[i].engagement_id = a[j].engagement_id,
                    NEW n \in a[i].sequence + 1 .. a[j].sequence - 1
             PROVE  \/ Event(a[j].engagement_id, n) \in AllEvents(a) \cup F
                    \/ \E k \in i..j : a[k] = Lagged
  BY Zenon, <1>1 DEF Holeless
<1>7. i \in DOMAIN g /\ a[i] = g[i]
  BY <1>3, <1>5
<1>8. CASE j \in DOMAIN g /\ a[j] = g[j]
  <2>1. \A k \in i..j : k \in DOMAIN g
    BY <1>5, <1>7, <1>8
  <2>2. \/ Event(g[j].engagement_id, n) \in AllEvents(g) \cup F
        \/ \E k \in i..j : g[k] = Lagged
    BY Zenon, <1>7, <1>8 DEF Holeless
  <2> QED  BY Zenon, <1>4, <1>6, <1>8, <2>1, <2>2
<1>9. CASE j = len + 1 /\ a[j] = p
  <2>1. \/ Event(p.engagement_id, n) \in AllEvents(g) \cup F
        \/ \E k \in DOMAIN g : k > i /\ g[k] = Lagged
    BY Zenon, <1>7, <1>9
  <2>2. \A k \in DOMAIN g : k > i => k \in i..j
    BY <1>5, <1>7, <1>9
  <2> QED  BY Zenon, <1>4, <1>6, <1>9, <2>1, <2>2
<1> QED  BY Zenon, <1>3, <1>8, <1>9

\* The subscriber reads a live payload p: nothing older than p is still on its way.
LEMMA HolelessRead ==
  ASSUME NEW g \in Seq(Payloads \cup {Lagged}), NEW c \in Seq(Payloads), c # <<>>,
         NEW w, NEW d \in [Engagements -> Nat], NEW h, NEW E, NEW L, NEW m, NEW ph,
         Stream(g, c, w, d), Kind(m, g, c, ph), Cover(g, c, FALSE, d, Soon(E, L, w, h)),
         \A i \in DOMAIN w : w[i] # Junk => Live(w[i]),
         ph # "owned" => \A e \in Engagements : h[e] = <<>>,
         Holeless(g, E \cup L)
  PROVE  Holeless(Append(g, Head(c)), E \cup L)
<1>1. PICK p \in Payloads : p = Head(c) /\ 1 \in DOMAIN c /\ c[1] = p
  <2>1. Head(c) \in Payloads /\ 1 \in DOMAIN c /\ c[1] = Head(c)
    OBVIOUS
  <2> QED  BY Zenon, <2>1
<1>2. p \in Payloads \cup {Lagged}
  BY Zenon
<1>3. ASSUME Live(p), NEW i \in DOMAIN g, g[i].engagement_id = p.engagement_id,
             NEW n \in g[i].sequence + 1 .. p.sequence - 1
      PROVE  \/ Event(p.engagement_id, n) \in AllEvents(g) \cup (E \cup L)
             \/ \E k \in DOMAIN g : k > i /\ g[k] = Lagged
  <2>1. PICK e, x : e = p.engagement_id /\ x = Event(e, n)
    BY Zenon
  <2>2. e \in Engagements /\ p.sequence \in Nat /\ p.sequence >= 1
    BY <2>1, BoundsAssumption DEF Payloads
  <2>3. g[i] # Lagged
    BY <1>3, <2>1, <2>2, NamesAssumption DEF Lagged, Payload
  <2>4. g[i].sequence \in Nat
    <3>1. g[i] \in Payloads \cup {Lagged}
      OBVIOUS
    <3>2. g[i] \in Payloads
      BY Zenon, <2>3, <3>1
    <3> QED  BY <3>2, BoundsAssumption DEF Payloads
  <2>5. p.sequence <= d[e] /\ d[e] \in Nat
    BY Zenon, <1>1, <2>1, <2>2 DEF Stream, Bounded
  <2>6. n \in 1..d[e] /\ n > g[i].sequence /\ n \in Nat /\ ~ (p.sequence < n) /\ n # p.sequence
    BY <2>2, <2>4, <2>5
  <2>7. CASE Rest(g[i], d, (Soon(E, L, w, h) \cup AllEvents(c)) \cup AllEvents(g))
    <3>1. x \in (Soon(E, L, w, h) \cup AllEvents(c)) \cup AllEvents(g)
      BY Zenon, <1>3, <2>1, <2>2, <2>6, <2>7 DEF Rest
    <3>2. \A q : EventOf(q) = x => q.engagement_id = e /\ q.sequence = n
      BY Zenon, <2>1 DEF EventOf, Event
    <3>3. x \notin AllEvents(w)
      <4> SUFFICES ASSUME NEW l \in DOMAIN w, EventOf(w[l]) = x PROVE FALSE
        BY Zenon DEF AllEvents
      <4>1. w[l].engagement_id = e /\ w[l].sequence = n
        BY Zenon, <3>2
      <4>2. w[l] # Junk
        BY <2>2, <4>1, NamesAssumption DEF Junk, Payload
      <4>3. c[1].sequence < w[l].sequence
        BY Zenon, <1>1, <2>1, <4>1, <4>2 DEF Stream, Before
      <4> QED  BY Zenon, <1>1, <2>6, <4>1, <4>3
    <3>4. x \notin AllEvents(c)
      <4> SUFFICES ASSUME NEW l \in DOMAIN c, EventOf(c[l]) = x PROVE FALSE
        BY Zenon DEF AllEvents
      <4>1. c[l].engagement_id = e /\ c[l].sequence = n
        BY Zenon, <3>2
      <4>2. l # 1
        BY Zenon, <1>1, <2>6, <4>1
      <4>3. 1 < l
        BY <4>2
      <4>4. Live(c[l])
        BY Zenon, <1>1, <1>3, <4>3 DEF Kind, LiveLast
      <4>5. c[1].sequence < c[l].sequence
        BY Zenon, <1>1, <2>1, <4>1, <4>3, <4>4 DEF Stream, Ordered
      <4> QED  BY Zenon, <1>1, <2>6, <4>1, <4>5
    <3>5. \A f \in Engagements : x \notin AllEvents(h[f])
      <4>1. ph # "owned"
        BY Zenon, <1>1, <1>3 DEF Kind, NoLive
      <4>2. \A l \in DOMAIN << >> : FALSE
        BY Zenon, NoIndex
      <4> QED  BY Zenon, <4>1, <4>2 DEF AllEvents
    <3>6. x \in AllEvents(g) \cup (E \cup L)
      BY Zenon, <3>1, <3>3, <3>4, <3>5 DEF Soon
    <3> QED  BY Zenon, <2>1, <3>6
  <2>8. CASE \E k \in DOMAIN g : k > i /\ g[k] = Lagged
    BY Zenon, <2>8
  <2> QED  BY Zenon, <2>7, <2>8 DEF Cover, GotCovers
<1>4. Holeless(Append(g, p), E \cup L)
  BY Zenon, <1>2, <1>3, HolelessAppend
<1> QED  BY Zenon, <1>1, <1>4

\* Every step keeps HoleInv.
LEMMA HoleNext == IInv /\ OrderInv /\ KindInv /\ CoverInv /\ HoleInv /\ [Next]_vars => HoleInv'
<1>HoleRead.
    ASSUME IInv, OrderInv, KindInv, CoverInv, HoleInv, NEW r \in Subscribers, Read(r)
    PROVE  HoleInv'
  <2> USE <1>HoleRead
  <2>1. PICK c \in Seq(Payloads), g \in Seq(Payloads \cup {Lagged}) : c = chan[r] /\ g = got[r]
    BY Zenon DEF IInv, TypeOK
  <2>2. PICK d, w, h, L, E, m, ph :
            d = db /\ w = wire /\ h = gap /\ L = lost /\ E = early[r] /\ m = key[r] /\ ph = phase
    BY Zenon
  <2>3. Holeless(g, E \cup L)
    BY Zenon, <2>1, <2>2 DEF HoleInv
  <2>4. Holeless(Append(g, Lagged), E \cup L)
    <3>1. ~ Live(Lagged) /\ Lagged \in Payloads \cup {Lagged}
      BY Zenon DEF Live, Lagged, Payload
    <3> QED  BY Zenon, <2>3, <3>1, HolelessAppend
  <2>5. ASSUME ~ lagging[r] PROVE c # <<>> /\ Holeless(Append(g, Head(c)), E \cup L)
    <3>1. c # <<>> /\ alive[r]
      BY Zenon, <2>1, <2>5 DEF Read
    <3>2. Stream(g, c, w, d)
      BY Zenon, <2>1, <2>2, StreamNow DEF OrderInv
    <3>3. Kind(m, g, c, ph)
      BY Zenon, <2>1, <2>2, KindNow DEF KindInv
    <3>4. Cover(g, c, lagging[r], d, Soon(E, L, w, h))
      BY Zenon, <2>1, <2>2, <3>1 DEF CoverInv, CoverOf
    <3>5. Cover(g, c, FALSE, d, Soon(E, L, w, h))
      BY Zenon, <2>5, <3>4 DEF Cover
    <3>6. \A i \in DOMAIN w : w[i] # Junk => Live(w[i])
      BY Zenon, <2>2, KindWire
    <3>7. ph # "owned" => \A e \in Engagements : h[e] = <<>>
      BY Zenon, <2>2 DEF IInv, PhaseInv
    <3>8. d \in [Engagements -> Nat]
      BY <2>2, BoundsAssumption DEF IInv, TypeOK
    <3> QED  BY Zenon, <2>3, <3>1, <3>2, <3>3, <3>5, <3>6, <3>7, <3>8, HolelessRead
  <2>6. /\ got' = [got EXCEPT ![r] = IF lagging[r] THEN Append(g, Lagged) ELSE Append(g, Head(c))]
        /\ UNCHANGED <<early, lost>>
    BY Zenon, <2>1 DEF Read, history
  <2>7. ASSUME NEW s \in Subscribers PROVE Holeless(got[s], early[s] \cup lost)'
    <3>1. PICK a, D, K : a = got'[s] /\ D = early'[s] /\ K = lost'
      BY Zenon
    <3>2. CASE s = r
      <4>1. a = IF lagging[r] THEN Append(g, Lagged) ELSE Append(g, Head(c))
        BY Zenon, <2>6, <3>1, <3>2 DEF IInv, TypeOK
      <4>2. Holeless(a, E \cup L)
        BY Zenon, <2>4, <2>5, <4>1
      <4> QED  BY Zenon, <2>2, <2>6, <3>1, <3>2, <4>2
    <3>3. CASE s # r
      <4>1. a = got[s]
        BY Zenon, <2>6, <3>1, <3>3 DEF IInv, TypeOK
      <4> QED  BY Zenon, <2>6, <3>1, <4>1 DEF HoleInv
    <3> QED  BY Zenon, <3>2, <3>3
  <2> QED  BY Zenon, <2>7 DEF HoleInv

\* Nobody reads, and what a subscriber is not owed grows, or nothing live was read.
<1>HoleKept.
    ASSUME KindInv, HoleInv, UNCHANGED got,
           phase = "owned" \/ \A s \in Subscribers : early[s] \cup lost \subseteq early'[s] \cup lost'
    PROVE  HoleInv'
  <2> USE <1>HoleKept
  <2>1. ASSUME NEW s \in Subscribers PROVE Holeless(got[s], early[s] \cup lost)'
    <3>1. PICK g, F, G : g = got[s] /\ F = early[s] \cup lost /\ G = early'[s] \cup lost'
      BY Zenon
    <3>2. CASE phase = "owned"
      <4>1. NoLive(g)
        BY Zenon, <3>1, <3>2 DEF KindInv, KindOf, Kind
      <4>2. Holeless(g, G)
        BY Zenon, <4>1 DEF Holeless, NoLive
      <4> QED  BY Zenon, <3>1, <4>2
    <3>3. CASE phase # "owned"
      <4>1. F \subseteq G
        BY Zenon, <3>1, <3>3
      <4>2. Holeless(g, F)
        BY Zenon, <3>1 DEF HoleInv
      <4>3. Holeless(g, G)
        BY Zenon, <4>1, <4>2, HolelessMono
      <4> QED  BY Zenon, <3>1, <4>3
    <3> QED  BY Zenon, <3>2, <3>3
  <2> QED  BY Zenon, <2>1 DEF HoleInv
<1> SUFFICES ASSUME IInv, OrderInv, KindInv, CoverInv, HoleInv, [Next]_vars PROVE HoleInv'
  BY Zenon
<1>1. CASE \/ \E s \in Subscribers, k \in Engagements \cup Batches : Subscribe(s, k)
           \/ \E e \in Engagements : \E last_seen \in 0..db[e] : GapSelect(e, last_seen)
  <2>1. phase = "owned" /\ UNCHANGED got
    BY Zenon, <1>1 DEF Subscribe, GapSelect, SelectRows, subVars
  <2> QED  BY Zenon, <2>1, <1>HoleKept
<1>2. CASE \E e \in Engagements : GapFan(e)
  <2>1. UNCHANGED <<got, early, lost>>
    BY Zenon, <1>2 DEF GapFan, subVars, history
  <2> QED  BY Zenon, <2>1, <1>HoleKept
<1>3. CASE \/ Run \/ StartConnect \/ ConnectFails \/ BackoffOver \/ ConnectionError \/ Shutdown
           \/ ConnectOk \/ NotifyJunk
  <2>1. UNCHANGED <<got, early, lost>>
    BY Zenon, <1>3 DEF Run, StartConnect, ConnectFails, BackoffOver, ConnectionError, Shutdown, ConnectOk,
                       NotifyJunk, subVars, history
  <2> QED  BY Zenon, <2>1, <1>HoleKept
<1>4. CASE CheckShutdown \/ ShutdownChanged \/ \E n \in 0..Len(wire) : LoseConnection(n)
  <2>1. UNCHANGED <<got, early>> /\ lost \subseteq lost'
    BY Zenon, <1>4 DEF CheckShutdown, ShutdownChanged, Return, LoseConnection, subVars
  <2> QED  BY Zenon, <2>1, <1>HoleKept
<1>5. CASE RecvOk \/ HealthCheckOk
  <2>1. UNCHANGED <<got, early, lost>>
    BY Zenon, <1>5 DEF RecvOk, HealthCheckOk, subVars, history
  <2> QED  BY Zenon, <2>1, <1>HoleKept
<1>6. CASE \E s \in Subscribers : Read(s)
  BY Zenon, <1>6, <1>HoleRead
<1>7. CASE \E s \in Subscribers : DropReceiver(s)
  <2>1. UNCHANGED <<got, early, lost>>
    BY Zenon, <1>7 DEF DropReceiver, history
  <2> QED  BY Zenon, <2>1, <1>HoleKept
<1>8. CASE \E e \in Engagements : Commit(e)
  <2>1. /\ UNCHANGED got /\ lost \subseteq lost'
        /\ \A s \in Subscribers : early[s] \subseteq early'[s]
    BY Zenon, <1>8 DEF Commit, CommitRow, subVars
  <2> QED  BY Zenon, <2>1, <1>HoleKept
<1>9. CASE UNCHANGED vars
  BY Zenon, <1>9, <1>HoleKept DEF vars, subVars, history
<1>10. CASE Quiet
  BY Zenon, <1>10, <1>HoleKept, QuietStep
<1> QED
  BY Zenon, <1>1, <1>2, <1>3, <1>4, <1>5, <1>6, <1>7, <1>8, <1>9, <1>10 DEF Next, ManagerNext, Quiet

-----------------------------------------------------------------------------
(* The theorems. *)

\* IInv and OrderInv are invariants of every instance of ListenNotify.
THEOREM Invariance == Spec => [](IInv /\ OrderInv)
<1>1. Init => IInv /\ OrderInv
  BY Zenon, InitInv, OrderInit
<1>2. IInv /\ OrderInv /\ [Next]_vars => (IInv /\ OrderInv)'
  BY NextInv, OrderNext
<1> QED  BY <1>1, <1>2, PTL DEF Spec

\* Type correctness of every instance.
THEOREM TypeCorrect == Spec => []TypeOK
<1>1. IInv => TypeOK
  BY DEF IInv
<1> QED  BY <1>1, Invariance, PTL

\* Every event that the manager was told of, or that a gap_fill read, is on
\* its way to each subscriber that wants it, was received, or was overwritten.
THEOREM NothingLostSilently == Spec => []NoSilentLoss
<1>1. IInv => NoSilentLoss
  BY DEF IInv
<1> QED  BY <1>1, Invariance, PTL

\* OrderInv is what it takes for live events to come in order.
LEMMA OrderAdvances == IInv /\ OrderInv => LiveEventsAdvance
<1> SUFFICES ASSUME IInv, OrderInv, NEW s \in Subscribers,
                    NEW i \in DOMAIN (got[s] \o chan[s]), NEW j \in DOMAIN (got[s] \o chan[s]),
                    i < j, Live((got[s] \o chan[s])[j]),
                    (got[s] \o chan[s])[i].engagement_id = (got[s] \o chan[s])[j].engagement_id
             PROVE  (got[s] \o chan[s])[i].sequence < (got[s] \o chan[s])[j].sequence
  BY Zenon DEF LiveEventsAdvance
<1>0. PICK w, d : w = wire /\ d = db
  BY Zenon
<1>1. PICK g \in Seq(Payloads \cup {Lagged}), c \in Seq(Payloads) : g = got[s] /\ c = chan[s]
  BY Zenon DEF IInv, TypeOK
<1>2. Ordered(g) /\ Ordered(c) /\ Before(g, c)
  BY Zenon, <1>0, <1>1, StreamNow DEF OrderInv, Stream
<1>3. PICK q : q = g \o c
  BY Zenon
<1>4. /\ i \in DOMAIN q /\ j \in DOMAIN q /\ Live(q[j])
      /\ q[i].engagement_id = q[j].engagement_id
  BY Zenon, <1>1, <1>3
<1>n. PICK n : n = Len(g) /\ Joins(q, g, n, c)
  BY Zenon, <1>3, ConcatJoins
<1>5. \A k \in DOMAIN q : \/ k \in DOMAIN g /\ q[k] = g[k]
                          \/ k > n /\ k - n \in DOMAIN c /\ q[k] = c[k - n]
  BY Zenon, <1>n DEF Joins
<1>6. i \in Nat /\ j \in Nat /\ n \in Nat /\ \A k \in DOMAIN g : k \in 1..n
  BY Zenon, <1>4, <1>n DEF Joins
<1>7. q[i].sequence < q[j].sequence
  <2>1. CASE j \in DOMAIN g /\ q[j] = g[j]
    <3>1. i \in DOMAIN g /\ q[i] = g[i]
      <4>1. j \in 1..n
        BY Zenon, <2>1, <1>6
      <4>2. ~ (i > n)
        BY <4>1, <1>6
      <4> QED  BY Zenon, <4>2, <1>4, <1>5
    <3> QED  BY Zenon, <2>1, <3>1, <1>2, <1>4 DEF Ordered
  <2>2. CASE j - n \in DOMAIN c /\ q[j] = c[j - n]
    <3>1. CASE i \in DOMAIN g /\ q[i] = g[i]
      BY Zenon, <2>2, <3>1, <1>2, <1>4 DEF Before
    <3>2. CASE i - n \in DOMAIN c /\ q[i] = c[i - n]
      <4>1. i - n < j - n
        BY <1>6
      <4> QED  BY Zenon, <2>2, <3>2, <4>1, <1>2, <1>4 DEF Ordered
    <3> QED  BY Zenon, <3>1, <3>2, <1>4, <1>5
  <2> QED  BY Zenon, <2>1, <2>2, <1>4, <1>5
<1> QED  BY Zenon, <1>1, <1>3, <1>7

\* A live event is newer than all that its subscriber was sent before.
THEOREM Advance == Spec => []LiveEventsAdvance
  BY OrderAdvances, Invariance, PTL

\* The three layers on top of IInv and OrderInv hold of the initial states.
LEMMA HoleInit == Init => KindInv /\ CoverInv /\ HoleInv
<1>1. Init => HoleInv
  <2>1. \A F : Holeless(<< >>, F)
    BY Zenon, NoIndex DEF Holeless
  <2> QED  BY Zenon, <2>1 DEF Init, HoleInv
<1> QED  BY Zenon, <1>1, KindInit, CoverInit

\* Every step keeps the three.
LEMMA HoleStep ==
  IInv /\ OrderInv /\ KindInv /\ CoverInv /\ HoleInv /\ [Next]_vars
      => (KindInv /\ CoverInv /\ HoleInv)'
  BY Zenon, KindNext, CoverNext, HoleNext

\* Events are missing from the middle of what a subscriber has read only where
\* it was told that it lagged, or where the manager was never told of them.
THEOREM HolesAnnounced == Spec => []NoUnannouncedHole
  BY HoleInit, HoleStep, Invariance, HolesAreAnnounced, PTL DEF Spec

=============================================================================
