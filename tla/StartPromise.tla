---------------------------- MODULE StartPromise ----------------------------
(***************************************************************************)
(* What idempotency promises the clients of StartEngagement (AIP-155), as  *)
(* stated at the head of idempotency.rs: the requests that carry one       *)
(* request_id of one organization start one engagement at most; all that   *)
(* have its payload are answered with it, all others with a conflict.  Any *)
(* request may fail with INTERNAL.  An engagement that has ended stays so, *)
(* and a replay says whether it has.                                       *)
(***************************************************************************)
CONSTANTS
    Handlers,       \* executions of the RPC
    Keys,           \* (organization_id, request_id)
    Requests,
    KeyOf(_),       \* the key a request carries
    SamePayload(_, _),
    None

VARIABLES
    request,        \* request[h]: what h was asked, or None
    started,        \* started[k]: the engagement of k and the request that started it, or None
    over,           \* the keys whose engagement has ended
    answer          \* answer[h]: what h answered, or None

vars == <<request, started, over, answer>>

Init ==
    /\ request = [h \in Handlers |-> None]
    /\ started = [k \in Keys |-> None]
    /\ over = {}
    /\ answer = [h \in Handlers |-> None]

Receive(h, q) ==
    /\ request[h] = None
    /\ request' = [request EXCEPT ![h] = q]
    /\ UNCHANGED <<started, over, answer>>

Start(h) ==
    /\ request[h] # None /\ answer[h] = None
    /\ started[KeyOf(request[h])] = None
    /\ started' = [started EXCEPT ![KeyOf(request[h])] =
                       [engagement_id |-> h, request |-> request[h]]]
    /\ UNCHANGED <<request, over, answer>>

End(k) ==
    /\ started[k] # None /\ k \notin over
    /\ over' = over \cup {k}
    /\ UNCHANGED <<request, started, answer>>

\* What h may answer: its key's engagement if the payload is the same, a
\* conflict if it differs.  Who has started it does not call it terminal.
Answers(h) ==
    LET row == started[KeyOf(request[h])]
    IN  IF row = None THEN {}
        ELSE IF SamePayload(row.request, request[h])
        THEN {[kind |-> "engagement", engagement_id |-> row.engagement_id,
               is_terminal |-> row.engagement_id # h /\ KeyOf(request[h]) \in over]}
        ELSE {[kind |-> "conflict", engagement_id |-> None, is_terminal |-> FALSE]}

Internal == [kind |-> "internal", engagement_id |-> None, is_terminal |-> FALSE]

Answer(h) ==
    /\ request[h] # None /\ answer[h] = None
    /\ \E a \in Answers(h) \cup {Internal} : answer' = [answer EXCEPT ![h] = a]
    /\ UNCHANGED <<request, started, over>>

Next ==
    \/ \E h \in Handlers :
           \/ \E q \in Requests : Receive(h, q)
           \/ Start(h)
           \/ Answer(h)
    \/ \E k \in Keys : End(k)

Spec == Init /\ [][Next]_vars
=============================================================================
