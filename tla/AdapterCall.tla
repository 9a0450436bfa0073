---------------------------- MODULE AdapterCall ----------------------------
(***************************************************************************)
(* Adapter calls in progress: with_retry (policies.rs) driving one attempt *)
(* after another of an adapter method against a downstream service over a  *)
(* network that loses and delays.                                          *)
(*                                                                         *)
(* Calls run concurrently.  They share the downstream, the request ids and *)
(* the Prometheus counters.  Time is kept per call, as what remains of its *)
(* deadline: an attempt takes up to MaxLatency ticks, a sleep takes its    *)
(* jitter and up to SleepSlop ticks of timer delay.                        *)
(*                                                                         *)
(* The downstream and the network are not in the repository.  They do what *)
(* the adapters rely on: a request that arrives is acted on according to   *)
(* its method's effect, a request may be lost, or arrive after its attempt *)
(* was given up, and an error may be answered whatever happened to the     *)
(* request.                                                                *)
(***************************************************************************)
EXTENDS RetryPolicy, FiniteSets

CONSTANTS
    Calls,           \* calls of adapter methods
    Methods,         \* the adapter methods called
    Faults,          \* the error answers that occur
    RequestIds,      \* what Uuid::new_v4 can return
    Budgets,         \* deadlines calls are given, in ticks, or NoDeadline
    AdapterDefault,  \* from_remaining's second argument
    MaxLatency,      \* the longest an attempt takes
    SleepSlop        \* how late the timer of a sleep may be

ASSUME MethodsAssumption == Methods \subseteq AdapterMethods
ASSUME BudgetsAssumption == Budgets \subseteq Nat \cup {NoDeadline}
ASSUME RequestIdsAssumption == "none" \notin RequestIds
ASSUME TimeAssumption ==
    AdapterDefault \in Nat /\ MaxLatency \in Nat /\ SleepSlop \in Nat

VARIABLES
    pc,             \* pc[c]: where the call is in with_retry
    method,         \* method[c]: the adapter method called
    request_id,     \* request_id[c]: generated once per call
    attempt,        \* attempt[c]: the loop variable, from 0
    backoff,        \* backoff[c]
    remaining,      \* remaining[c]: time left until the deadline
    result,         \* result[c]: what the call returned
    answers,        \* answers[c]: error answers seen so far (history)
    net,            \* requests in transit
    answered,       \* answered[c]: the attempt's request has been handled
    seen,           \* request ids the downstream has acted on
    effects,        \* effects[c]: times the downstream acted on the call
    retries_total,  \* counter by target and attempt label
    deadline_exceeded_total  \* counter by target

callVars    == <<pc, method, request_id, attempt, backoff, remaining, result, answers>>
serviceVars == <<net, answered, seen, effects>>
metricVars  == <<retries_total, deadline_exceeded_total>>
vars        == <<callVars, serviceVars, metricVars>>

NoRequestId == "none"
NoResult    == "none"
AttemptLabels == 1..5   \* no policy has more attempts

Policy(c) == method[c].policy

Deadline(budget) ==
    IF budget = NoDeadline THEN NoDeadline ELSE from_remaining(budget, AdapterDefault)

Request(c) == [call |-> c, attempt |-> attempt[c], request_id |-> request_id[c]]

Requests == [call : Calls, attempt : Nat, request_id : RequestIds]

Init ==
    /\ pc = [c \in Calls |-> "idle"]
    /\ method \in [Calls -> Methods]
    /\ request_id = [c \in Calls |-> NoRequestId]
    /\ attempt = [c \in Calls |-> 0]
    /\ backoff = [c \in Calls |-> 0]
    /\ remaining \in [Calls -> {Deadline(b) : b \in Budgets}]
    /\ result = [c \in Calls |-> NoResult]
    /\ answers = [c \in Calls |-> {}]
    /\ net = {} /\ seen = {}
    /\ answered = [c \in Calls |-> FALSE]
    /\ effects = [c \in Calls |-> 0]
    /\ retries_total = [l \in Targets \X AttemptLabels |-> 0]
    /\ deadline_exceeded_total = [t \in Targets |-> 0]

-----------------------------------------------------------------------------
(* The call. *)

\* The adapter method up to with_retry's loop: a fresh request id, attempt 0.
Begin(c) ==
    /\ pc[c] = "idle"
    /\ \E r \in RequestIds \ {request_id[d] : d \in Calls} :
          request_id' = [request_id EXCEPT ![c] = r]
    /\ backoff' = [backoff EXCEPT ![c] = Policy(c).initial_backoff]
    /\ pc' = [pc EXCEPT ![c] = "attempt"]
    /\ UNCHANGED <<method, attempt, remaining, result, answers, serviceVars, metricVars>>

\* A bug: the closure draws a new request id for each attempt.
SendFreshId(c) ==
    /\ pc[c] = "attempt"
    /\ \E r \in RequestIds \ {req.request_id : req \in net} :
          /\ net' = net \cup {[Request(c) EXCEPT !.request_id = r]}
          /\ request_id' = [request_id EXCEPT ![c] = r]
    /\ answered' = [answered EXCEPT ![c] = FALSE]
    /\ pc' = [pc EXCEPT ![c] = "await"]
    /\ UNCHANGED <<method, attempt, backoff, remaining, result, answers,
                   seen, effects, metricVars>>

\* f() builds the request of this attempt and the transport takes it.
Send(c) ==
    /\ pc[c] = "attempt"
    /\ net' = net \cup {Request(c)}
    /\ answered' = [answered EXCEPT ![c] = FALSE]
    /\ pc' = [pc EXCEPT ![c] = "await"]
    /\ UNCHANGED <<method, request_id, attempt, backoff, remaining, result, answers,
                   seen, effects, metricVars>>

\* The part of with_retry's loop body that follows an attempt: given the
\* attempt's result and the time it took, return or sleep.

\* A bug: the last attempt of the policy is never made.
WillRetryOneLess(c, class) ==
    is_retryable(class) /\ attempt[c] + 2 < Policy(c).max_attempts

WillRetry(c, class) ==
    is_retryable(class) /\ attempt[c] + 1 < Policy(c).max_attempts

\* A bug: the attempt label is constant.
CountRetryUnlabelled(c) ==
    retries_total' = [retries_total EXCEPT ![<<method[c].target, 1>>] = @ + 1]

CountRetry(c) ==
    retries_total' = [retries_total EXCEPT ![<<method[c].target, attempt[c] + 1>>] = @ + 1]

CountDeadlineExceeded(c) ==
    deadline_exceeded_total' = [deadline_exceeded_total EXCEPT ![method[c].target] = @ + 1]

Return(c, class) ==
    /\ pc' = [pc EXCEPT ![c] = "done"]
    /\ result' = [result EXCEPT ![c] = class]

Settle(c, class, latency) ==
    /\ remaining' = [remaining EXCEPT ![c] = RemainingAfter(@, latency)]
    /\ \/ /\ ~ WillRetry(c, class)
          /\ Return(c, class)
          /\ UNCHANGED metricVars
       \/ /\ WillRetry(c, class)
          /\ GateRefuses(RemainingAfter(remaining[c], latency), backoff[c])
          /\ CountRetry(c) /\ CountDeadlineExceeded(c)
          /\ Return(c, "DeadlineExceeded")
       \/ /\ WillRetry(c, class)
          /\ ~ GateRefuses(RemainingAfter(remaining[c], latency), backoff[c])
          /\ CountRetry(c)
          /\ pc' = [pc EXCEPT ![c] = "sleep"]
          /\ UNCHANGED <<result, deadline_exceeded_total>>
    /\ UNCHANGED <<method, request_id, attempt, backoff, serviceVars>>

\* A bug: success without an answer.
AttemptOkUnanswered(c) ==
    /\ pc[c] = "await"
    /\ \E latency \in 0..MaxLatency : Settle(c, "Ok", latency)
    /\ UNCHANGED answers

\* The answer to this attempt's request arrives and decodes.
AttemptOk(c) ==
    /\ pc[c] = "await"
    /\ answered[c]
    /\ \E latency \in 0..MaxLatency : Settle(c, "Ok", latency)
    /\ UNCHANGED answers

\* The answer arrives and does not decode.
AttemptUndecodable(c) ==
    /\ pc[c] = "await"
    /\ method[c].decodes
    /\ answered[c]
    /\ \E latency \in 0..MaxLatency : Settle(c, "Permanent", latency)
    /\ UNCHANGED answers

\* The attempt ends in an error answer or a transport error.  The request
\* may have been served, lost, or still be on its way.
AttemptError(c) ==
    /\ pc[c] = "await"
    /\ \E a \in Answers(method[c].target) \cap Faults, latency \in 0..MaxLatency :
          /\ Settle(c, Classify(method[c].target, a), latency)
          /\ answers' = [answers EXCEPT ![c] = @ \cup {a}]

\* A bug: the panic is not caught, and nobody hears of the call again.
PanicUncaught(c) ==
    /\ pc[c] \in {"attempt", "await"}
    /\ pc' = [pc EXCEPT ![c] = "unwound"]
    /\ UNCHANGED <<method, request_id, attempt, backoff, remaining, result, answers,
                   serviceVars, metricVars>>

\* A panic in the closure, before anything is sent, or while its future is
\* polled.
AttemptPanic(c) ==
    /\ pc[c] \in {"attempt", "await"}
    /\ \E latency \in 0..MaxLatency : Settle(c, "InternalPanic", latency)
    /\ UNCHANGED answers

\* tokio::time::sleep(jitter) ends, backoff doubles, the loop goes round.
Wake(c) ==
    /\ pc[c] = "sleep"
    /\ \E jitter \in 0..backoff[c], slop \in 0..SleepSlop :
          remaining' = [remaining EXCEPT ![c] = RemainingAfter(@, jitter + slop)]
    /\ backoff' = [backoff EXCEPT ![c] = NextBackoff(Policy(c), @)]
    /\ attempt' = [attempt EXCEPT ![c] = @ + 1]
    /\ pc' = [pc EXCEPT ![c] = "attempt"]
    /\ UNCHANGED <<method, request_id, result, answers, serviceVars, metricVars>>

-----------------------------------------------------------------------------
(* The network and the downstream. *)

ActsOn(req) ==
    LET effect == method[req.call].effect IN
    \/ effect = "by_request" /\ req.request_id \notin seen
    \/ effect = "to_state"   /\ effects[req.call] = 0
    \/ effect = "always"

\* The answer finds its attempt only if the call still waits for it.
Serve(req) ==
    /\ req \in net
    /\ net' = net \ {req}
    /\ answered' = [answered EXCEPT ![req.call] =
                        @ \/ (pc[req.call] = "await" /\ req.attempt = attempt[req.call])]
    /\ \/ /\ ActsOn(req)
          /\ effects' = [effects EXCEPT ![req.call] = @ + 1]
          /\ seen' = seen \cup {req.request_id}
       \/ /\ ~ ActsOn(req)
          /\ UNCHANGED <<effects, seen>>
    /\ UNCHANGED <<callVars, metricVars>>

Lose(req) ==
    /\ req \in net
    /\ net' = net \ {req}
    /\ UNCHANGED <<callVars, answered, seen, effects, metricVars>>

-----------------------------------------------------------------------------

AttemptEnds(c) ==
    AttemptOk(c) \/ AttemptUndecodable(c) \/ AttemptError(c) \/ AttemptPanic(c)

Next ==
    \/ \E c \in Calls : Begin(c) \/ Send(c) \/ AttemptEnds(c) \/ Wake(c)
    \/ \E req \in net : Serve(req) \/ Lose(req)

\* The runtime polls every task: a call at a step of with_retry takes it, a
\* sleep ends.  That an attempt ends is the transport's promise.  Nothing is
\* promised of the network, nor that a call is made.
Fairness ==
    \A c \in Calls : WF_vars(Send(c)) /\ WF_vars(AttemptEnds(c)) /\ WF_vars(Wake(c))

Spec == Init /\ [][Next]_vars /\ Fairness

-----------------------------------------------------------------------------
(* Properties. *)

\* Every variable has the type its declaration gives.
TypeOK ==
    /\ pc \in [Calls -> {"idle", "attempt", "await", "sleep", "done"}]
    /\ method \in [Calls -> Methods]
    /\ request_id \in [Calls -> RequestIds \cup {NoRequestId}]
    /\ attempt \in [Calls -> Nat]
    /\ backoff \in [Calls -> Nat]
    /\ remaining \in [Calls -> Nat \cup {NoDeadline}]
    /\ result \in [Calls -> ErrorClass \cup {"Ok", NoResult}]
    /\ answers \in [Calls -> SUBSET Faults]
    /\ net \subseteq Requests
    /\ answered \in [Calls -> BOOLEAN]
    /\ seen \subseteq RequestIds
    /\ effects \in [Calls -> Nat]
    /\ retries_total \in [Targets \X AttemptLabels -> Nat]
    /\ deadline_exceeded_total \in [Targets -> Nat]

\* The downstream acts at most once on a call, however its attempts were
\* retried, lost or delivered late: the request id is stable across retries
\* and the one method that is not idempotent gets a single attempt.
EffectAtMostOnce == \A c \in Calls : effects[c] <= 1

\* A call of a mutating method that returned Ok has been acted on: with_retry
\* never turns a lost or failed attempt into success.
OkMeansActed ==
    \A c \in Calls :
        result[c] = "Ok" /\ method[c].effect # "none" => effects[c] = 1

\* A caller is handed a retryable error only when the policy's attempts are
\* used up; in particular a cleanup call (stop, cancel) does not give up early.
RetryableErrorMeansExhausted ==
    \A c \in Calls :
        is_retryable(result[c]) => attempt[c] + 1 = Policy(c).max_attempts

\* An answer that the adapter classifies as Permanent ends the call with that
\* class, whatever retryable answers came before it.
RejectionIsFinal ==
    \A c \in Calls :
        (\E a \in answers[c] : Classify(method[c].target, a) = "Permanent")
            => pc[c] = "done" /\ result[c] = "Permanent"

\* A retry starts with at least ADAPTER_FLOOR left before the deadline, up to
\* the timer's delay: the gate looked at the backoff before the sleep.
RetryKeepsFloor ==
    \A c \in Calls :
        /\ pc[c] = "attempt" /\ attempt[c] > 0
        /\ remaining[c] # NoDeadline
        => remaining[c] + SleepSlop >= ADAPTER_FLOOR

\* engagementhub_adapter_retries_total{target, k} counts the calls of the
\* target that asked for a k-th retry, and deadline_exceeded_total the ones
\* whose deadline refused it: no increment is lost or doubled.
MetricsAccountForCalls ==
    \A t \in Targets :
        LET ofTarget == {c \in Calls : method[c].target = t}
            refused  == {c \in ofTarget : result[c] = "DeadlineExceeded"}
        IN  /\ deadline_exceeded_total[t] = Cardinality(refused)
            /\ \A k \in AttemptLabels :
                  retries_total[<<t, k>>] = Cardinality(
                      {c \in ofTarget : \/ attempt[c] >= k
                                        \/ /\ attempt[c] = k - 1
                                           /\ pc[c] = "sleep" \/ c \in refused})

\* Every call that was made returns.
CallReturns == \A c \in Calls : pc[c] # "idle" ~> pc[c] = "done"

-----------------------------------------------------------------------------
(* Adapter calls implement RemoteCall. *)

Phase(c) ==
    CASE pc[c] = "idle"                       -> "idle"
      [] pc[c] = "done" /\ result[c] = "Ok"   -> "ok"
      [] pc[c] = "done" /\ result[c] # "Ok"   -> "failed"
      [] OTHER                                -> "open"

Promise == INSTANCE RemoteCall WITH
    phase    <- [c \in Calls |-> Phase(c)],
    mutating <- [c \in Calls |-> method[c].effect # "none"]

\* Retries, request ids and the network are invisible to the caller: the
\* adapter and the downstream together behave as RemoteCall allows.
ImplementsRemoteCall == Promise!Spec
=============================================================================
