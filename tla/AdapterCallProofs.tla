-------------------------- MODULE AdapterCallProofs --------------------------
(***************************************************************************)
(* Proofs about AdapterCall: for any number of concurrent calls of any     *)
(* adapter methods, with any deadlines, latencies and network.             *)
(***************************************************************************)
EXTENDS AdapterCall, FiniteSetTheorems, TLAPS

-----------------------------------------------------------------------------
(* Facts about the tables of RetryPolicy. *)

\* What the proofs need to know of an adapter method.
WellFormed(m) ==
    /\ m.policy.max_attempts \in Nat /\ m.policy.max_attempts >= 1
    /\ m.policy.initial_backoff \in Nat
    /\ m.policy.max_backoff \in Nat
    /\ m.effect \in Effects
    /\ m.effect = "always" => m.policy.max_attempts = 1

\* Every adapter method has at least one attempt and finite backoffs, and the
\* one that is not idempotent has a single attempt.
LEMMA MethodsWellFormed == \A m \in AdapterMethods : WellFormed(m)
<1> USE DEF WellFormed, Method, RetryConfig, Effects, REGISTRY_RESOLVE_RETRY,
            DEFAULT_RETRY, WRITE_RETRY, CLEANUP_RETRY, GRACEFUL_STOP_RETRY
<1>1. \A m \in VoiceManagerGrpcMethods : WellFormed(m)
  BY DEF VoiceManagerGrpcMethods, vm_grpc_start_voice_session,
         vm_grpc_stop_voice_session, vm_grpc_issue_test_token,
         vm_grpc_create_telephony, vm_grpc_list_telephonies,
         vm_grpc_get_telephony, vm_grpc_update_telephony, vm_grpc_delete_telephony
<1>2. \A m \in VoiceManagerHttpMethods : WellFormed(m)
  BY DEF VoiceManagerHttpMethods, vm_http_start_voice_session,
         vm_http_stop_voice_session, vm_http_issue_test_token,
         vm_http_create_telephony, vm_http_list_telephonies,
         vm_http_get_telephony, vm_http_update_telephony, vm_http_delete_telephony
<1>3. \A m \in JourneyManagerMethods : WellFormed(m)
  BY DEF JourneyManagerMethods, jm_create_execution, jm_cancel_execution,
         jm_get_execution_timeline
<1>4. \A m \in RegistryMethods : WellFormed(m)
  BY DEF RegistryMethods, registry_resolve_snapshot, registry_get_voice_profile
<1>5. \A m \in PostCallMethods : WellFormed(m)
  BY DEF PostCallMethods, post_call_get_transcript, post_call_get_summary,
         post_call_get_sentiment, post_call_get_output_extraction,
         post_call_list_agent_call_logs, post_call_list_org_call_logs
<1>6. \A m \in AnalyticsMethods : WellFormed(m)
  BY DEF AnalyticsMethods, analytics_get_agent_analytics,
         analytics_get_agent_metrics, analytics_get_org_analytics,
         analytics_get_org_metrics
<1>7. QED
  BY Zenon, <1>1, <1>2, <1>3, <1>4, <1>5, <1>6 DEF AdapterMethods

\* Every error answer is mapped to one of the classes, never to success.
LEMMA ClassifyIsError ==
  ASSUME NEW t, NEW a
  PROVE  Classify(t, a) \in {"Permanent", "Transient", "Unavailable"}
BY Zenon DEF Classify, map_status, vm_map_http_status, post_call_map_http_status,
       analytics_map_http_status

-----------------------------------------------------------------------------
(* The inductive invariant. *)

\* with_retry's local state.  A sleeping call has an attempt left and passed
\* the gate; a result is there only once the call is done.
CallInv ==
    \A c \in Calls :
        /\ attempt[c] < Policy(c).max_attempts
        /\ pc[c] = "idle" <=> request_id[c] = NoRequestId
        /\ pc[c] = "idle" => attempt[c] = 0
        /\ pc[c] # "done" => result[c] = NoResult
        /\ pc[c] = "sleep" => /\ attempt[c] + 1 < Policy(c).max_attempts
                              /\ ~ GateRefuses(remaining[c], backoff[c])

\* A request id belongs to one call, and was acted on only if its call was.
RequestIdInv ==
    /\ \A c, d \in Calls :
          request_id[c] = request_id[d] /\ pc[c] # "idle" => c = d
    /\ \A c \in Calls :
          method[c].effect = "by_request" /\ effects[c] > 0 => request_id[c] \in seen
    /\ \A r \in seen : \E c \in Calls : request_id[c] = r /\ effects[c] > 0

\* A request in transit was sent by its call under the call's request id.  A
\* call whose method acts each time has either its one attempt ahead of it, or
\* its one request in transit, or nothing more to come.
RequestInv ==
    /\ \A req \in net :
          /\ pc[req.call] # "idle"
          /\ req.request_id = request_id[req.call]
          /\ req.attempt <= attempt[req.call]
          /\ method[req.call].effect = "always" =>
                effects[req.call] = 0 /\ pc[req.call] # "attempt"
    /\ \A c \in Calls :
          method[c].effect = "always" /\ pc[c] \in {"idle", "attempt"} => effects[c] = 0

\* An answer means that the downstream acted, in this attempt or before.
EffectInv ==
    /\ EffectAtMostOnce
    /\ \A c \in Calls :
          /\ effects[c] > 0 => method[c].effect # "none" /\ pc[c] # "idle"
          /\ answered[c] /\ method[c].effect # "none" => effects[c] = 1

IInv ==
    /\ TypeOK /\ CallInv /\ RequestIdInv /\ RequestInv /\ EffectInv
    /\ OkMeansActed /\ RetryableErrorMeansExhausted
    /\ RejectionIsFinal /\ RetryKeepsFloor

-----------------------------------------------------------------------------
(* The invariant holds initially and every action preserves it. *)

LEMMA CallsWellFormed ==
  ASSUME TypeOK, NEW c \in Calls
  PROVE  WellFormed(method[c])
BY Zenon, MethodsWellFormed, MethodsAssumption DEF TypeOK

LEMMA RemainingType ==
  ASSUME NEW left \in Nat \cup {NoDeadline}, NEW d \in Nat
  PROVE  RemainingAfter(left, d) \in Nat \cup {NoDeadline}
BY NoDeadlineAssumption DEF RemainingAfter, SaturatingSub

\* An increment keeps the type of a family of counters, whatever its label.
LEMMA IncrementType ==
  ASSUME NEW S, NEW f \in [S -> Nat], NEW x
  PROVE  [f EXCEPT ![x] = f[x] + 1] \in [S -> Nat]
<1>1. CASE x \in S
  BY <1>1
<1>2. CASE x \notin S
  <2>1. [f EXCEPT ![x] = f[x] + 1] = f
    BY <1>2, Zenon
  <2>2. QED
    BY Zenon, <2>1
<1>3. QED
  BY Zenon, <1>1, <1>2

LEMMA DeadlineType ==
  ASSUME NEW b \in Budgets
  PROVE  Deadline(b) \in Nat \cup {NoDeadline}
BY BudgetsAssumption, TimeAssumption
   DEF Deadline, from_remaining, SaturatingSub, Least, PROPAGATION_MARGIN

LEMMA InitInv == Init => IInv
<1> SUFFICES ASSUME Init PROVE IInv
  BY Zenon
<1> USE DEF Init, NoRequestId, NoResult
<1>1. TypeOK
  BY DeadlineType DEF TypeOK
<1>2. CallInv
  BY <1>1, CallsWellFormed DEF CallInv, Policy, WellFormed
<1>3. RequestIdInv /\ RequestInv
  BY DEF RequestIdInv, RequestInv
<1>4. EffectInv
  BY DEF EffectInv, EffectAtMostOnce
<1>5. OkMeansActed /\ RetryableErrorMeansExhausted /\ RejectionIsFinal /\ RetryKeepsFloor
  BY Zenon DEF OkMeansActed, RetryableErrorMeansExhausted, RejectionIsFinal, RetryKeepsFloor,
         is_retryable
<1>6. QED
  BY Zenon, <1>1, <1>2, <1>3, <1>4, <1>5 DEF IInv

LEMMA BeginInv ==
  ASSUME IInv, NEW c \in Calls, Begin(c)
  PROVE  IInv'
<1> USE DEF IInv, Begin, serviceVars, metricVars, NoRequestId
<1>0. WellFormed(method[c])
  BY Zenon, CallsWellFormed
<1>a. PICK r \in RequestIds :
        r \notin {request_id[d] : d \in Calls} /\ request_id' = [request_id EXCEPT ![c] = r]
  BY Zenon
<1>1. TypeOK'
  BY Zenon, <1>0, <1>a DEF TypeOK, WellFormed, Policy
<1>2. CallInv'
  BY Zenon, <1>a, RequestIdsAssumption DEF CallInv, TypeOK, Policy, GateRefuses
<1>3. RequestIdInv'
  BY <1>a, RequestIdsAssumption DEF RequestIdInv, CallInv, TypeOK
<1>4. RequestInv'
  BY <1>a DEF RequestInv, TypeOK, Requests
<1>5. EffectInv'
  BY Zenon DEF EffectInv, EffectAtMostOnce, TypeOK
<1>6. OkMeansActed' /\ RetryableErrorMeansExhausted' /\ RejectionIsFinal'
  BY Zenon DEF OkMeansActed, RetryableErrorMeansExhausted, RejectionIsFinal, Policy, TypeOK
<1>7. RetryKeepsFloor'
  BY DEF RetryKeepsFloor, CallInv, TypeOK
<1>8. QED
  BY Zenon, <1>1, <1>2, <1>3, <1>4, <1>5, <1>6, <1>7

LEMMA SendInv ==
  ASSUME IInv, NEW c \in Calls, Send(c)
  PROVE  IInv'
<1> USE DEF IInv, Send, metricVars
<1>0. request_id[c] \in RequestIds
  BY Zenon DEF TypeOK, CallInv
<1>1. TypeOK'
  BY <1>0 DEF TypeOK, Request, Requests
<1>2. CallInv'
  BY Zenon DEF CallInv, TypeOK, Policy, GateRefuses
<1>3. RequestIdInv'
  BY Zenon DEF RequestIdInv, TypeOK
<1>4. RequestInv'
  <2>1. ASSUME NEW req \in net'
        PROVE  /\ pc'[req.call] # "idle"
               /\ req.request_id = request_id'[req.call]
               /\ req.attempt <= attempt'[req.call]
               /\ method'[req.call].effect = "always" =>
                     effects'[req.call] = 0 /\ pc'[req.call] # "attempt"
    <3>1. CASE req \in net
      BY Zenon, <3>1 DEF RequestInv, TypeOK, Requests
    <3>2. CASE req = Request(c)
      BY <3>2 DEF RequestInv, TypeOK, Request
    <3>3. QED
      BY Zenon, <2>1, <3>1, <3>2
  <2>2. QED
    BY Zenon, <2>1 DEF RequestInv, TypeOK
<1>5. EffectInv'
  BY Zenon DEF EffectInv, EffectAtMostOnce, TypeOK
<1>6. OkMeansActed' /\ RetryableErrorMeansExhausted' /\ RejectionIsFinal'
  BY Zenon DEF OkMeansActed, RetryableErrorMeansExhausted, RejectionIsFinal, Policy, TypeOK
<1>7. RetryKeepsFloor'
  BY Zenon DEF RetryKeepsFloor, TypeOK
<1>8. QED
  BY Zenon, <1>1, <1>2, <1>3, <1>4, <1>5, <1>6, <1>7

LEMMA WakeInv ==
  ASSUME IInv, NEW c \in Calls, Wake(c)
  PROVE  IInv'
<1> USE DEF IInv, Wake, serviceVars, metricVars
<1>0. WellFormed(method[c])
  BY Zenon, CallsWellFormed
<1>a. PICK jitter \in 0..backoff[c], slop \in 0..SleepSlop :
        remaining' = [remaining EXCEPT ![c] = RemainingAfter(@, jitter + slop)]
  BY Zenon
<1>b. /\ jitter \in Nat /\ jitter <= backoff[c] /\ backoff[c] \in Nat
      /\ slop \in Nat /\ slop <= SleepSlop /\ SleepSlop \in Nat
  BY <1>a, TimeAssumption DEF TypeOK
<1>c. remaining'[c] = RemainingAfter(remaining[c], jitter + slop)
  BY Zenon, <1>a DEF TypeOK
<1>1. TypeOK'
  <2>1. NextBackoff(Policy(c), backoff[c]) \in Nat
    BY <1>0, <1>b DEF NextBackoff, Least, Policy, WellFormed
  <2>2. RemainingAfter(remaining[c], jitter + slop) \in Nat \cup {NoDeadline}
    <3>1. remaining[c] \in Nat \cup {NoDeadline} /\ jitter + slop \in Nat
      BY <1>b DEF TypeOK
    <3>2. QED
      BY Zenon, <3>1, RemainingType
  <2>3. QED
    BY <1>a, <2>1, <2>2 DEF TypeOK
<1>2. CallInv'
  BY Zenon, <1>0, <1>a DEF CallInv, TypeOK, Policy, GateRefuses, WellFormed
<1>3. RequestIdInv'
  BY Zenon DEF RequestIdInv, TypeOK
<1>4. RequestInv'
  BY <1>0 DEF RequestInv, CallInv, TypeOK, Requests, WellFormed, Policy
<1>5. EffectInv'
  BY Zenon DEF EffectInv, EffectAtMostOnce, TypeOK
<1>6. OkMeansActed' /\ RejectionIsFinal'
  BY Zenon DEF OkMeansActed, RejectionIsFinal, TypeOK
<1>7. RetryableErrorMeansExhausted'
  BY Zenon DEF RetryableErrorMeansExhausted, CallInv, Policy, TypeOK, is_retryable, NoResult
<1>8. RetryKeepsFloor'
  <2>1. ASSUME remaining'[c] # NoDeadline
        PROVE  remaining'[c] + SleepSlop >= ADAPTER_FLOOR
    BY <1>b, <1>c, <2>1, NoDeadlineAssumption
       DEF TypeOK, CallInv, GateRefuses, RemainingAfter, SaturatingSub, ADAPTER_FLOOR
  <2>2. QED
    BY Zenon, <1>a, <2>1 DEF RetryKeepsFloor, TypeOK
<1>9. QED
  BY Zenon, <1>1, <1>2, <1>3, <1>4, <1>5, <1>6, <1>7, <1>8

\* The end of an attempt: what Settle needs of the attempt's class is that Ok
\* was answered, and that a Permanent answer is classified as such.
LEMMA SettleInv ==
  ASSUME IInv, NEW c \in Calls, pc[c] \in {"attempt", "await"},
         NEW class \in ErrorClass \cup {"Ok"},
         NEW latency \in 0..MaxLatency,
         Settle(c, class, latency),
         class = "Ok" => pc[c] = "await" /\ answered[c],
         \/ answers' = answers
         \/ \E a \in Faults : /\ answers' = [answers EXCEPT ![c] = @ \cup {a}]
                             /\ class = Classify(method[c].target, a)
  PROVE  IInv'
<1> USE DEF IInv, Settle, Return, serviceVars, metricVars
<1> DEFINE left == RemainingAfter(remaining[c], latency)
<1>0. WellFormed(method[c])
  BY Zenon, CallsWellFormed
<1>a. left \in Nat \cup {NoDeadline} /\ remaining'[c] = left
  <2>1. remaining[c] \in Nat \cup {NoDeadline} /\ latency \in Nat
    BY TimeAssumption DEF TypeOK
  <2>2. QED
    BY Zenon, <2>1, RemainingType DEF TypeOK
<1>b. /\ attempt[c] \in Nat /\ attempt[c] + 1 <= Policy(c).max_attempts
      /\ Policy(c).max_attempts \in Nat
      /\ UNCHANGED <<method, attempt, backoff, request_id>>
      /\ result[c] = NoResult
  BY <1>0 DEF TypeOK, CallInv, WellFormed, Policy
<1>c. \/ /\ pc' = [pc EXCEPT ![c] = "done"]
         /\ \/ result' = [result EXCEPT ![c] = class] /\ ~ WillRetry(c, class)
            \/ result' = [result EXCEPT ![c] = "DeadlineExceeded"] /\ WillRetry(c, class)
      \/ /\ pc' = [pc EXCEPT ![c] = "sleep"]
         /\ result' = result
         /\ WillRetry(c, class)
         /\ ~ GateRefuses(left, backoff[c])
  BY Zenon
<1>d. answers' \in [Calls -> SUBSET Faults]
  BY DEF TypeOK
<1>1. TypeOK'
  <2>1. pc' \in [Calls -> {"idle", "attempt", "await", "sleep", "done"}]
    BY <1>c DEF TypeOK
  <2>2. result' \in [Calls -> ErrorClass \cup {"Ok", NoResult}]
    BY Zenon, <1>c DEF TypeOK, ErrorClass
  <2>3. remaining' \in [Calls -> Nat \cup {NoDeadline}]
    BY Zenon, <1>a DEF TypeOK
  <2>4. retries_total' \in [Targets \X AttemptLabels -> Nat]
    <3>1. retries_total \in [Targets \X AttemptLabels -> Nat]
      BY Zenon DEF TypeOK
    <3>2. CASE CountRetry(c)
      BY <3>1, <3>2, IncrementType, Zenon DEF CountRetry
    <3>3. CASE UNCHANGED retries_total
      BY Zenon, <3>1, <3>3
    <3>4. QED
      BY Zenon, <3>2, <3>3
  <2>5. deadline_exceeded_total' \in [Targets -> Nat]
    BY DEF TypeOK, CountDeadlineExceeded
  <2>6. QED
    BY Zenon, <1>b, <1>d, <2>1, <2>2, <2>3, <2>4, <2>5 DEF TypeOK
<1>2. CallInv'
  BY <1>a, <1>b, <1>c DEF CallInv, TypeOK, Policy, GateRefuses, WillRetry
<1>3. RequestIdInv'
  BY <1>c DEF RequestIdInv, TypeOK
<1>4. RequestInv'
  BY <1>c DEF RequestInv, TypeOK, Requests
<1>5. EffectInv'
  BY Zenon, <1>c DEF EffectInv, EffectAtMostOnce, TypeOK
<1>6. OkMeansActed'
  BY Zenon, <1>b, <1>c DEF OkMeansActed, EffectInv, TypeOK
<1>7. RetryableErrorMeansExhausted'
  BY <1>b, <1>c DEF RetryableErrorMeansExhausted, TypeOK, Policy, is_retryable, WillRetry
<1>i. TypeOK /\ RejectionIsFinal /\ RetryKeepsFloor
  BY Zenon
<1> HIDE DEF IInv, Settle, Return
<1>8. RejectionIsFinal'
  <2>1. ASSUME NEW d \in Calls, d # c,
               \E a \in answers'[d] : Classify(method'[d].target, a) = "Permanent"
        PROVE  pc'[d] = "done" /\ result'[d] = "Permanent"
    <3>1. answers'[d] = answers[d]
      BY Zenon, <1>i, <2>1 DEF TypeOK
    <3>2. pc'[d] = pc[d] /\ result'[d] = result[d]
      BY Zenon, <1>i, <1>c, <2>1 DEF TypeOK
    <3>3. QED
      BY Zenon, <1>i, <1>b, <2>1, <3>1, <3>2 DEF RejectionIsFinal
  <2>2. ASSUME \E a \in answers'[c] : Classify(method'[c].target, a) = "Permanent"
        PROVE  pc'[c] = "done" /\ result'[c] = "Permanent"
    <3>1. \A a \in answers[c] : Classify(method[c].target, a) # "Permanent"
      BY Zenon, <1>i DEF RejectionIsFinal
    <3>2. class = "Permanent"
      <4>1. PICK a \in answers'[c] : Classify(method[c].target, a) = "Permanent"
        BY Zenon, <1>b, <2>2
      <4>2. a \notin answers[c]
        BY Zenon, <3>1, <4>1
      <4>3. QED
        BY <1>i, <4>1, <4>2 DEF TypeOK
    <3>3. ~ WillRetry(c, class)
      BY Zenon, <3>2 DEF WillRetry, is_retryable
    <3>4. QED
      BY Zenon, <1>i, <1>c, <3>2, <3>3 DEF TypeOK
  <2>3. QED
    BY Zenon, <2>1, <2>2 DEF RejectionIsFinal
<1>9. RetryKeepsFloor'
  <2>1. ASSUME NEW d \in Calls, pc'[d] = "attempt"
        PROVE  pc[d] = "attempt" /\ remaining'[d] = remaining[d]
    BY Zenon, <1>i, <1>c, <2>1 DEF TypeOK, Settle
  <2>2. QED
    BY Zenon, <1>i, <1>b, <2>1 DEF RetryKeepsFloor
<1>10. QED
  BY Zenon, <1>1, <1>2, <1>3, <1>4, <1>5, <1>6, <1>7, <1>8, <1>9 DEF IInv

LEMMA AttemptEndsInv ==
  ASSUME IInv, NEW c \in Calls, AttemptEnds(c)
  PROVE  IInv'
<1>1. CASE AttemptOk(c)
  BY Zenon, <1>1, SettleInv DEF AttemptOk
<1>2. CASE AttemptUndecodable(c)
  BY Zenon, <1>2, SettleInv DEF AttemptUndecodable, ErrorClass
<1>3. CASE AttemptError(c)
  <2>1. PICK a \in Faults, latency \in 0..MaxLatency :
          /\ Settle(c, Classify(method[c].target, a), latency)
          /\ answers' = [answers EXCEPT ![c] = @ \cup {a}]
    BY Zenon, <1>3 DEF AttemptError
  <2>2. /\ Classify(method[c].target, a) \in ErrorClass \cup {"Ok"}
        /\ Classify(method[c].target, a) # "Ok"
    BY Zenon, ClassifyIsError DEF ErrorClass
  <2>3. QED
    BY Zenon, <1>3, <2>1, <2>2, SettleInv DEF AttemptError
<1>4. CASE AttemptPanic(c)
  BY Zenon, <1>4, SettleInv DEF AttemptPanic, ErrorClass
<1>5. QED
  BY Zenon, <1>1, <1>2, <1>3, <1>4 DEF AttemptEnds

LEMMA ServeInv ==
  ASSUME IInv, NEW req \in net, Serve(req)
  PROVE  IInv'
<1> DEFINE c == req.call
<1>i. /\ TypeOK /\ CallInv /\ RequestIdInv /\ RequestInv /\ EffectInv
      /\ EffectAtMostOnce /\ OkMeansActed /\ RetryableErrorMeansExhausted
      /\ RejectionIsFinal /\ RetryKeepsFloor
  BY Zenon DEF IInv, EffectInv
<1>s. /\ net' = net \ {req}
      /\ UNCHANGED <<pc, method, request_id, attempt, backoff, remaining, result, answers>>
      /\ UNCHANGED <<retries_total, deadline_exceeded_total>>
  BY Zenon DEF Serve, callVars, metricVars
<1>t. /\ answered \in [Calls -> BOOLEAN] /\ effects \in [Calls -> Nat]
      /\ net \subseteq Requests /\ seen \subseteq RequestIds
  BY Zenon, <1>i DEF TypeOK
<1>c. c \in Calls /\ req.request_id \in RequestIds
  BY Zenon, <1>t DEF Requests
<1>w. WellFormed(method[c])
  BY Zenon, <1>i, <1>c, CallsWellFormed
<1>r. req.request_id = request_id[c] /\ pc[c] # "idle"
  BY Zenon, <1>i DEF RequestInv
<1>a. ActsOn(req) => effects[c] = 0 /\ method[c].effect # "none"
  <2>1. CASE method[c].effect = "by_request" /\ req.request_id \notin seen
    BY <1>i, <1>c, <1>r, <1>t, <2>1 DEF RequestIdInv
  <2>2. CASE method[c].effect = "always"
    BY Zenon, <1>i, <2>2 DEF RequestInv
  <2>3. QED
    BY Zenon, <2>1, <2>2 DEF ActsOn
<1>n. ~ ActsOn(req) /\ method[c].effect # "none" => effects[c] = 1
  <2>1. request_id[c] \in seen => effects[c] > 0
    BY Zenon, <1>i, <1>c, <1>r DEF RequestIdInv
  <2>2. effects[c] \in Nat /\ effects[c] <= 1
    BY Zenon, <1>i, <1>t, <1>c DEF EffectAtMostOnce
  <2>3. method[c].effect \in {"none", "by_request", "to_state", "always"}
    BY Zenon, <1>w DEF WellFormed, Effects
  <2>4. QED
    BY <1>r, <2>1, <2>2, <2>3 DEF ActsOn
<1>e. /\ effects' \in [Calls -> Nat]
      /\ \A d \in Calls : d # c => effects'[d] = effects[d]
      /\ effects'[c] = IF ActsOn(req) THEN 1 ELSE effects[c]
      /\ seen' = IF ActsOn(req) THEN seen \cup {req.request_id} ELSE seen
  <2>1. CASE ActsOn(req)
    <3>1. effects' = [effects EXCEPT ![c] = effects[c] + 1] /\ effects[c] + 1 = 1
      BY <1>a, <2>1 DEF Serve
    <3>2. seen' = seen \cup {req.request_id}
      BY Zenon, <2>1 DEF Serve
    <3>3. QED
      BY <1>t, <1>c, <2>1, <3>1, <3>2
  <2>2. CASE ~ ActsOn(req)
    <3>1. UNCHANGED <<effects, seen>>
      BY Zenon, <2>2 DEF Serve
    <3>2. QED
      BY Zenon, <1>t, <2>2, <3>1
  <2>3. QED
    BY Zenon, <2>1, <2>2
<1>f. /\ answered' \in [Calls -> BOOLEAN]
      /\ \A d \in Calls : d # c => answered'[d] = answered[d]
  <2>1. \E b \in BOOLEAN : answered' = [answered EXCEPT ![c] = b]
    BY Zenon, <1>t, <1>c DEF Serve
  <2>2. QED
    BY Zenon, <1>t, <1>c, <2>1
<1>1. TypeOK'
  <2>1. net' \subseteq Requests /\ seen' \subseteq RequestIds
    BY Zenon, <1>s, <1>t, <1>c, <1>e
  <2>2. QED
    BY Zenon, <1>i, <1>s, <1>e, <1>f, <2>1 DEF TypeOK
<1>2. CallInv'
  BY Zenon, <1>i, <1>s DEF CallInv, Policy, GateRefuses
<1>3. RequestIdInv'
  <2>1. ASSUME NEW d \in Calls, method[d].effect = "by_request", effects'[d] > 0
        PROVE  request_id[d] \in seen'
    BY Zenon, <1>i, <1>r, <1>e, <2>1 DEF RequestIdInv
  <2>2. ASSUME NEW x \in seen'
        PROVE  \E d \in Calls : request_id[d] = x /\ effects'[d] > 0
    <3>1. CASE x = req.request_id /\ ActsOn(req)
      BY <1>c, <1>r, <1>e, <3>1
    <3>2. CASE x \in seen
      <4>1. PICK d \in Calls : request_id[d] = x /\ effects[d] > 0
        BY Zenon, <1>i, <3>2 DEF RequestIdInv
      <4>2. effects'[d] > 0
        BY <1>e, <4>1
      <4>3. QED
        BY Zenon, <4>1, <4>2
    <3>3. QED
      BY Zenon, <1>e, <2>2, <3>1, <3>2
  <2>3. QED
    BY Zenon, <1>i, <1>s, <2>1, <2>2 DEF RequestIdInv
<1>4. RequestInv'
  <2>1. ASSUME NEW other \in net', other.call = c, method[c].effect = "always"
        PROVE  FALSE
    <3>1. other \in net /\ other # req /\ other \in Requests /\ req \in Requests
      BY Zenon, <1>s, <1>t
    <3>2. attempt[c] = 0
      BY <1>i, <1>c, <1>w, <2>1 DEF CallInv, TypeOK, WellFormed, Policy
    <3>3. req.attempt = 0 /\ other.attempt = 0
      BY <1>i, <2>1, <3>1, <3>2 DEF RequestInv, Requests
    <3>4. other.request_id = req.request_id
      BY Zenon, <1>i, <1>r, <2>1, <3>1 DEF RequestInv
    <3>5. QED
      BY <2>1, <3>1, <3>3, <3>4 DEF Requests
  <2>2. method[c].effect = "always" => pc[c] \notin {"idle", "attempt"}
    BY Zenon, <1>i, <1>r DEF RequestInv
  <2>3. ASSUME NEW other \in net'
        PROVE  /\ pc[other.call] # "idle"
               /\ other.request_id = request_id[other.call]
               /\ other.attempt <= attempt[other.call]
               /\ method[other.call].effect = "always" =>
                     effects'[other.call] = 0 /\ pc[other.call] # "attempt"
    <3>1. other \in net /\ other.call \in Calls
      BY Zenon, <1>s, <1>t DEF Requests
    <3>2. method[other.call].effect = "always" => effects'[other.call] = effects[other.call]
      BY Zenon, <1>e, <2>1, <3>1
    <3>3. QED
      BY Zenon, <1>i, <3>1, <3>2 DEF RequestInv
  <2>4. ASSUME NEW d \in Calls, method[d].effect = "always", pc[d] \in {"idle", "attempt"}
        PROVE  effects'[d] = 0
    <3>1. d # c
      BY Zenon, <2>2, <2>4
    <3>2. QED
      BY Zenon, <1>i, <1>e, <2>4, <3>1 DEF RequestInv
  <2>5. QED
    BY Zenon, <1>s, <2>3, <2>4 DEF RequestInv
<1>5. EffectInv'
  <2>1. ASSUME NEW d \in Calls
        PROVE  /\ effects'[d] <= 1
               /\ effects'[d] > 0 => method[d].effect # "none" /\ pc[d] # "idle"
               /\ answered'[d] /\ method[d].effect # "none" => effects'[d] = 1
    <3>1. CASE d = c
      BY <1>i, <1>c, <1>r, <1>a, <1>n, <1>e, <3>1 DEF EffectInv, EffectAtMostOnce
    <3>2. CASE d # c
      BY Zenon, <1>i, <1>e, <1>f, <3>2 DEF EffectInv, EffectAtMostOnce
    <3>3. QED
      BY Zenon, <3>1, <3>2
  <2>2. QED
    BY Zenon, <1>s, <2>1 DEF EffectInv, EffectAtMostOnce
<1>6. OkMeansActed'
  <2>1. ASSUME NEW d \in Calls, result[d] = "Ok", method[d].effect # "none"
        PROVE  effects'[d] = 1
    <3>1. effects[d] = 1
      BY Zenon, <1>i, <2>1 DEF OkMeansActed
    <3>2. QED
      BY Zenon, <1>e, <3>1
  <2>2. QED
    BY Zenon, <1>s, <2>1 DEF OkMeansActed
<1>7. RetryableErrorMeansExhausted' /\ RejectionIsFinal' /\ RetryKeepsFloor'
  BY Zenon, <1>i, <1>s DEF RetryableErrorMeansExhausted, RejectionIsFinal, RetryKeepsFloor, Policy
<1>8. QED
  BY Zenon, <1>1, <1>2, <1>3, <1>4, <1>5, <1>6, <1>7 DEF IInv

\* A step that at most takes requests out of the network.
LEMMA ShrinkInv ==
  ASSUME IInv, net' \subseteq net, UNCHANGED callVars,
         UNCHANGED <<answered, seen, effects>>, UNCHANGED metricVars
  PROVE  IInv'
<1> USE DEF callVars, metricVars
<1>1. TypeOK'
  BY Zenon DEF IInv, TypeOK
<1>2. CallInv' /\ RetryKeepsFloor'
  BY Zenon DEF IInv, CallInv, RetryKeepsFloor, Policy, GateRefuses
<1>3. RequestIdInv'
  BY Zenon DEF IInv, RequestIdInv
<1>4. RequestInv'
  BY Zenon DEF IInv, RequestInv
<1>5. EffectInv' /\ OkMeansActed'
  BY Zenon DEF IInv, EffectInv, EffectAtMostOnce, OkMeansActed
<1>6. RetryableErrorMeansExhausted' /\ RejectionIsFinal'
  BY Zenon DEF IInv, RetryableErrorMeansExhausted, RejectionIsFinal, Policy
<1>7. QED
  BY Zenon, <1>1, <1>2, <1>3, <1>4, <1>5, <1>6 DEF IInv

LEMMA NextInv == IInv /\ [Next]_vars => IInv'
<1> SUFFICES ASSUME IInv, [Next]_vars
             PROVE  IInv'
  BY Zenon
<1>1. ASSUME NEW c \in Calls, Begin(c) \/ Send(c) \/ AttemptEnds(c) \/ Wake(c)
      PROVE  IInv'
  BY Zenon, <1>1, BeginInv, SendInv, AttemptEndsInv, WakeInv
<1>2. ASSUME NEW req \in net, Serve(req)
      PROVE  IInv'
  BY Zenon, <1>2, ServeInv
<1>3. ASSUME NEW req \in net, Lose(req)
      PROVE  IInv'
  BY Zenon, <1>3, ShrinkInv DEF Lose
<1>4. CASE UNCHANGED vars
  BY Zenon, <1>4, ShrinkInv DEF vars, serviceVars
<1>5. QED
  BY Zenon, <1>1, <1>2, <1>3, <1>4 DEF Next

-----------------------------------------------------------------------------
(* The theorems. *)

\* IInv is an invariant of every instance of AdapterCall.
THEOREM Invariance == Spec => []IInv
<1>1. Init => IInv
  BY Zenon, InitInv
<1>2. IInv /\ [Next]_vars => IInv'
  BY Zenon, NextInv
<1>3. QED
  BY <1>1, <1>2, PTL DEF Spec

\* Type correctness: in particular the time left never goes below zero.
THEOREM TypeCorrect == Spec => []TypeOK
<1>1. IInv => TypeOK
  BY Zenon DEF IInv
<1>2. QED
  BY <1>1, Invariance, PTL

\* The downstream acts at most once on a call, for every adapter method, any
\* number of concurrent calls, and requests lost or delivered late.
THEOREM AtMostOnce == Spec => []EffectAtMostOnce
<1>1. IInv => EffectAtMostOnce
  BY Zenon DEF IInv, EffectInv
<1>2. QED
  BY <1>1, Invariance, PTL

\* A mutating call that returned Ok was acted on.
THEOREM OkActed == Spec => []OkMeansActed
<1>1. IInv => OkMeansActed
  BY Zenon DEF IInv
<1>2. QED
  BY <1>1, Invariance, PTL

\* with_retry hands out a retryable error only after the last attempt.
THEOREM Exhausted == Spec => []RetryableErrorMeansExhausted
<1>1. IInv => RetryableErrorMeansExhausted
  BY Zenon DEF IInv
<1>2. QED
  BY <1>1, Invariance, PTL

\* A Permanent answer ends the call.
THEOREM Rejected == Spec => []RejectionIsFinal
<1>1. IInv => RejectionIsFinal
  BY Zenon DEF IInv
<1>2. QED
  BY <1>1, Invariance, PTL

\* The deadline gate leaves ADAPTER_FLOOR for every retry, for every deadline,
\* backoff, jitter and latency, up to the delay of the timer.
THEOREM FloorKept == Spec => []RetryKeepsFloor
<1>1. IInv => RetryKeepsFloor
  BY Zenon DEF IInv
<1>2. QED
  BY <1>1, Invariance, PTL

-----------------------------------------------------------------------------
(* The metrics. *)

\* A method's counters exist.
Labelled(m) == m.target \in Targets /\ m.policy.max_attempts <= 5

LEMMA MethodsLabelled == \A m \in AdapterMethods : Labelled(m)
<1> USE DEF Labelled, Targets, Method, RetryConfig, REGISTRY_RESOLVE_RETRY,
            DEFAULT_RETRY, WRITE_RETRY, CLEANUP_RETRY, GRACEFUL_STOP_RETRY
<1>1. \A m \in VoiceManagerGrpcMethods : Labelled(m)
  BY DEF VoiceManagerGrpcMethods, vm_grpc_start_voice_session,
         vm_grpc_stop_voice_session, vm_grpc_issue_test_token,
         vm_grpc_create_telephony, vm_grpc_list_telephonies,
         vm_grpc_get_telephony, vm_grpc_update_telephony, vm_grpc_delete_telephony
<1>2. \A m \in VoiceManagerHttpMethods : Labelled(m)
  BY DEF VoiceManagerHttpMethods, vm_http_start_voice_session,
         vm_http_stop_voice_session, vm_http_issue_test_token,
         vm_http_create_telephony, vm_http_list_telephonies,
         vm_http_get_telephony, vm_http_update_telephony, vm_http_delete_telephony
<1>3. \A m \in JourneyManagerMethods : Labelled(m)
  BY DEF JourneyManagerMethods, jm_create_execution, jm_cancel_execution,
         jm_get_execution_timeline
<1>4. \A m \in RegistryMethods : Labelled(m)
  BY DEF RegistryMethods, registry_resolve_snapshot, registry_get_voice_profile
<1>5. \A m \in PostCallMethods : Labelled(m)
  BY DEF PostCallMethods, post_call_get_transcript, post_call_get_summary,
         post_call_get_sentiment, post_call_get_output_extraction,
         post_call_list_agent_call_logs, post_call_list_org_call_logs
<1>6. \A m \in AnalyticsMethods : Labelled(m)
  BY DEF AnalyticsMethods, analytics_get_agent_analytics,
         analytics_get_agent_metrics, analytics_get_org_analytics,
         analytics_get_org_metrics
<1>7. QED
  BY Zenon, <1>1, <1>2, <1>3, <1>4, <1>5, <1>6 DEF AdapterMethods

\* The deadline refused the call a retry; the call asked for a k-th retry.
WasRefused(c) == result[c] = "DeadlineExceeded"
AskedFor(c, k) ==
    \/ attempt[c] >= k
    \/ attempt[c] = k - 1 /\ (pc[c] = "sleep" \/ WasRefused(c))

Refused(t)  == {c \in Calls : method[c].target = t /\ WasRefused(c)}
Asked(t, k) == {c \in Calls : method[c].target = t /\ AskedFor(c, k)}

Counts(n, S) == IsFiniteSet(S) /\ n = Cardinality(S)

\* Each counter is the number of the calls it stands for, finitely many
\* whatever the set of calls.
MetricsInv ==
    \A t \in Targets :
        /\ Counts(deadline_exceeded_total[t], Refused(t))
        /\ \A k \in AttemptLabels : Counts(retries_total[<<t, k>>], Asked(t, k))

LEMMA CountsOneMore ==
  ASSUME NEW n, NEW S, Counts(n, S), NEW c, c \notin S
  PROVE  Counts(n + 1, S \cup {c})
BY Zenon, FS_AddElement DEF Counts

\* A step after which the same calls have asked and were refused.
LEMMA MetricsSame ==
  ASSUME MetricsInv, UNCHANGED <<method, retries_total, deadline_exceeded_total>>,
         \A c \in Calls : WasRefused(c)' <=> WasRefused(c),
         \A c \in Calls : \A k \in AttemptLabels : AskedFor(c, k)' <=> AskedFor(c, k)
  PROVE  MetricsInv'
<1>1. ASSUME NEW t \in Targets PROVE Refused(t)' = Refused(t)
  BY Zenon DEF Refused
<1>2. ASSUME NEW t \in Targets, NEW k \in AttemptLabels PROVE Asked(t, k)' = Asked(t, k)
  BY Zenon DEF Asked
<1>3. QED
  BY Zenon, <1>1, <1>2 DEF MetricsInv, Counts

\* The label under which a retry is counted is there.
LEMMA RetryLabel ==
  ASSUME IInv, NEW c \in Calls, NEW class, WillRetry(c, class)
  PROVE  method[c].target \in Targets /\ attempt[c] + 1 \in AttemptLabels
<1>1. method[c] \in AdapterMethods /\ attempt[c] \in Nat
  BY Zenon, MethodsAssumption DEF IInv, TypeOK
<1>2. Labelled(method[c]) /\ WellFormed(method[c])
  BY Zenon, <1>1, MethodsLabelled, MethodsWellFormed
<1>3. QED
  BY <1>1, <1>2 DEF WillRetry, Policy, Labelled, WellFormed, AttemptLabels

\* A call asks for its next retry, which its deadline may refuse.
LEMMA MetricsRetry ==
  ASSUME IInv, MetricsInv, NEW c \in Calls, pc[c] \in {"attempt", "await"},
         UNCHANGED <<method, attempt>>, CountRetry(c),
         method[c].target \in Targets, attempt[c] + 1 \in AttemptLabels,
         \/ /\ CountDeadlineExceeded(c) /\ Return(c, "DeadlineExceeded")
         \/ /\ pc' = [pc EXCEPT ![c] = "sleep"]
            /\ UNCHANGED <<result, deadline_exceeded_total>>
  PROVE  MetricsInv'
<1> DEFINE tc == method[c].target
           kc == attempt[c] + 1
<1>t. /\ pc \in [Calls -> {"idle", "attempt", "await", "sleep", "done"}]
      /\ result \in [Calls -> ErrorClass \cup {"Ok", NoResult}]
      /\ attempt \in [Calls -> Nat]
      /\ retries_total \in [Targets \X AttemptLabels -> Nat]
      /\ deadline_exceeded_total \in [Targets -> Nat]
      /\ result[c] = NoResult
  BY Zenon DEF IInv, TypeOK, CallInv
<1>o. \A d \in Calls : d # c => pc'[d] = pc[d] /\ result'[d] = result[d]
  BY Zenon, <1>t DEF Return
<1>c. ~WasRefused(c)
  BY Zenon, <1>t DEF WasRefused, NoResult
<1>1. ASSUME NEW t \in Targets, NEW k \in AttemptLabels
      PROVE  Counts(retries_total[<<t, k>>], Asked(t, k))'
  <2>1. retries_total'[<<t, k>>] =
            IF t = tc /\ k = kc THEN retries_total[<<t, k>>] + 1 ELSE retries_total[<<t, k>>]
    <3>1. <<t, k>> \in Targets \X AttemptLabels /\ <<tc, kc>> \in Targets \X AttemptLabels
      BY Zenon
    <3>2. QED
      BY Zenon, <1>t, <3>1 DEF CountRetry
  <2>2. \A d \in Calls : d # c => (AskedFor(d, k)' <=> AskedFor(d, k))
    BY Zenon, <1>o DEF AskedFor, WasRefused
  <2>3. AskedFor(c, k)' <=> AskedFor(c, k) \/ k = kc
    <3>1. pc'[c] = "sleep" \/ WasRefused(c)'
      BY Zenon, <1>t DEF Return, WasRefused
    <3>2. attempt[c] \in Nat /\ k \in Nat
      BY <1>t DEF AttemptLabels
    <3>3. QED
      BY <1>c, <3>1, <3>2 DEF AskedFor
  <2>4. ~AskedFor(c, kc)
    BY <1>t, <1>c DEF AskedFor
  <2>5. Counts(retries_total[<<t, k>>], Asked(t, k))
    BY Zenon DEF MetricsInv
  <2> HIDE DEF tc, kc
  <2>6. CASE t = tc /\ k = kc
    <3>1. Asked(t, k)' = Asked(t, k) \cup {c} /\ c \notin Asked(t, k)
      BY Zenon, <2>2, <2>3, <2>4, <2>6 DEF Asked, tc
    <3>2. QED
      BY <2>1, <2>5, <2>6, <3>1, CountsOneMore DEF Counts
  <2>7. CASE ~(t = tc /\ k = kc)
    <3>1. Asked(t, k)' = Asked(t, k)
      BY Zenon, <2>2, <2>3, <2>7 DEF Asked, tc
    <3>2. QED
      BY Zenon, <2>1, <2>5, <2>7, <3>1 DEF Counts
  <2>8. QED
    BY Zenon, <2>6, <2>7
<1>2. ASSUME NEW t \in Targets
      PROVE  Counts(deadline_exceeded_total[t], Refused(t))'
  <2>1. Counts(deadline_exceeded_total[t], Refused(t))
    BY Zenon DEF MetricsInv
  <2>2. \A d \in Calls : d # c => (WasRefused(d)' <=> WasRefused(d))
    BY Zenon, <1>o DEF WasRefused
  <2>3. CASE t = tc /\ CountDeadlineExceeded(c) /\ Return(c, "DeadlineExceeded")
    <3>1. WasRefused(c)'
      BY Zenon, <1>t, <2>3 DEF Return, WasRefused
    <3>2. Refused(t)' = Refused(t) \cup {c} /\ c \notin Refused(t)
      BY Zenon, <1>c, <2>2, <2>3, <3>1 DEF Refused
    <3>3. deadline_exceeded_total'[t] = deadline_exceeded_total[t] + 1
      BY Zenon, <1>t, <2>3 DEF CountDeadlineExceeded
    <3>4. QED
      BY <2>1, <3>2, <3>3, CountsOneMore DEF Counts
  <2>4. CASE t # tc \/ UNCHANGED <<result, deadline_exceeded_total>>
    <3>1. deadline_exceeded_total'[t] = deadline_exceeded_total[t]
      BY Zenon, <1>t, <2>4 DEF CountDeadlineExceeded
    <3>2. Refused(t)' = Refused(t)
      BY Zenon, <2>2, <2>4 DEF Refused, WasRefused
    <3>3. QED
      BY Zenon, <2>1, <3>1, <3>2 DEF Counts
  <2>5. QED
    BY Zenon, <2>3, <2>4
<1>3. QED
  BY Zenon, <1>1, <1>2 DEF MetricsInv, Counts

\* with_retry's loop body after an attempt.
LEMMA MetricsSettle ==
  ASSUME IInv, MetricsInv, NEW c \in Calls, pc[c] \in {"attempt", "await"},
         NEW class, class # "DeadlineExceeded", NEW latency, Settle(c, class, latency)
  PROVE  MetricsInv'
<1>t. /\ pc \in [Calls -> {"idle", "attempt", "await", "sleep", "done"}]
      /\ result \in [Calls -> ErrorClass \cup {"Ok", NoResult}]
      /\ result[c] = NoResult /\ NoResult # "DeadlineExceeded"
  BY Zenon DEF IInv, TypeOK, CallInv, NoResult
<1>u. UNCHANGED <<method, attempt>>
  BY Zenon DEF Settle
<1>1. CASE WillRetry(c, class)
  <2>1. method[c].target \in Targets /\ attempt[c] + 1 \in AttemptLabels
    BY Zenon, <1>1, RetryLabel
  <2>2. /\ CountRetry(c)
        /\ \/ CountDeadlineExceeded(c) /\ Return(c, "DeadlineExceeded")
           \/ pc' = [pc EXCEPT ![c] = "sleep"] /\ UNCHANGED <<result, deadline_exceeded_total>>
    BY Zenon, <1>1 DEF Settle
  <2>3. QED
    BY Zenon, <1>u, <2>1, <2>2, MetricsRetry
<1>2. CASE ~WillRetry(c, class)
  <2>1. Return(c, class) /\ UNCHANGED <<retries_total, deadline_exceeded_total>>
    BY Zenon, <1>2 DEF Settle, metricVars
  <2>2. \A d \in Calls : WasRefused(d)' <=> WasRefused(d)
    BY Zenon, <1>t, <2>1 DEF Return, WasRefused
  <2>3. \A d \in Calls : pc'[d] = "sleep" <=> pc[d] = "sleep"
    BY Zenon, <1>t, <2>1 DEF Return
  <2>4. \A d \in Calls : \A k \in AttemptLabels : AskedFor(d, k)' <=> AskedFor(d, k)
    BY Zenon, <1>u, <2>2, <2>3 DEF AskedFor
  <2>5. QED
    BY Zenon, <1>u, <2>1, <2>2, <2>4, MetricsSame
<1>3. QED
  BY Zenon, <1>1, <1>2

\* A call that wakes has asked for the retry it begins.
LEMMA MetricsWake ==
  ASSUME IInv, MetricsInv, NEW c \in Calls, Wake(c)
  PROVE  MetricsInv'
<1>1. /\ pc[c] = "sleep" /\ pc' = [pc EXCEPT ![c] = "attempt"]
      /\ attempt' = [attempt EXCEPT ![c] = @ + 1]
      /\ UNCHANGED <<method, result, retries_total, deadline_exceeded_total>>
  BY Zenon DEF Wake, metricVars
<1>t. /\ pc \in [Calls -> {"idle", "attempt", "await", "sleep", "done"}]
      /\ attempt \in [Calls -> Nat]
      /\ result[c] # "DeadlineExceeded"
  BY Zenon, <1>1 DEF IInv, TypeOK, CallInv, NoResult
<1>2. \A d \in Calls : WasRefused(d)' <=> WasRefused(d)
  BY Zenon, <1>1 DEF WasRefused
<1>3. ASSUME NEW d \in Calls, NEW k \in AttemptLabels
      PROVE  AskedFor(d, k)' <=> AskedFor(d, k)
  <2>1. CASE d = c
    <3>1. /\ attempt[c] \in Nat /\ attempt'[c] = attempt[c] + 1 /\ k \in Nat
          /\ pc'[c] # "sleep" /\ ~WasRefused(c) /\ ~WasRefused(c)'
      BY <1>1, <1>t DEF WasRefused, AttemptLabels
    <3>2. QED
      BY <1>1, <2>1, <3>1 DEF AskedFor
  <2>2. CASE d # c
    <3>1. attempt'[d] = attempt[d] /\ pc'[d] = pc[d] /\ result'[d] = result[d]
      BY Zenon, <1>1, <1>t, <2>2
    <3>2. QED
      BY Zenon, <3>1 DEF AskedFor, WasRefused
  <2>3. QED
    BY Zenon, <2>1, <2>2
<1>4. QED
  BY Zenon, <1>1, <1>2, <1>3, MetricsSame

LEMMA MetricsStep ==
  ASSUME IInv, MetricsInv, Next
  PROVE  MetricsInv'
<1>t. pc \in [Calls -> {"idle", "attempt", "await", "sleep", "done"}]
  BY Zenon DEF IInv, TypeOK
<1>1. CASE \E c \in Calls : Begin(c) \/ Send(c)
  <2>1. UNCHANGED <<method, attempt, result, retries_total, deadline_exceeded_total>>
    BY Zenon, <1>1 DEF Begin, Send, metricVars
  <2>2. \A d \in Calls : pc'[d] = "sleep" <=> pc[d] = "sleep"
    BY Zenon, <1>t, <1>1 DEF Begin, Send
  <2>3. \A d \in Calls : WasRefused(d)' <=> WasRefused(d)
    BY Zenon, <2>1 DEF WasRefused
  <2>4. \A d \in Calls : \A k \in AttemptLabels : AskedFor(d, k)' <=> AskedFor(d, k)
    BY Zenon, <2>1, <2>2, <2>3 DEF AskedFor
  <2>5. QED
    BY Zenon, <2>1, <2>3, <2>4, MetricsSame
<1>2. CASE \E c \in Calls : AttemptEnds(c)
  <2>1. PICK c \in Calls : AttemptEnds(c)
    BY Zenon, <1>2
  <2>2. pc[c] \in {"attempt", "await"}
    BY Zenon, <2>1 DEF AttemptEnds, AttemptOk, AttemptUndecodable, AttemptError, AttemptPanic
  <2>3. CASE AttemptError(c)
    <3>1. PICK a, latency : Settle(c, Classify(method[c].target, a), latency)
      BY Zenon, <2>3 DEF AttemptError
    <3>2. Classify(method[c].target, a) # "DeadlineExceeded"
      BY Zenon, ClassifyIsError
    <3>3. QED
      BY Zenon, <2>2, <3>1, <3>2, MetricsSettle
  <2>4. CASE AttemptOk(c) \/ AttemptUndecodable(c) \/ AttemptPanic(c)
    <3>1. \E class \in {"Ok", "Permanent", "InternalPanic"}, latency \in 0..MaxLatency :
              Settle(c, class, latency)
      BY Zenon, <2>4 DEF AttemptOk, AttemptUndecodable, AttemptPanic
    <3>2. QED
      BY Zenon, <2>2, <3>1, MetricsSettle
  <2>5. QED
    BY Zenon, <2>1, <2>3, <2>4 DEF AttemptEnds
<1>3. CASE \E c \in Calls : Wake(c)
  BY Zenon, <1>3, MetricsWake
<1>4. CASE \E req \in net : Serve(req) \/ Lose(req)
  <2>1. UNCHANGED <<method, attempt, pc, result, retries_total, deadline_exceeded_total>>
    BY Zenon, <1>4 DEF Serve, Lose, callVars, metricVars
  <2>2. QED
    BY Zenon, <2>1, MetricsSame DEF AskedFor, WasRefused
<1>5. QED
  BY Zenon, <1>1, <1>2, <1>3, <1>4 DEF Next

\* The counters agree with the calls, for any number of concurrent calls and
\* at every moment: no retry and no refusal is lost, doubled or counted under
\* a wrong label.
THEOREM MetricsAgree == Spec => []MetricsAccountForCalls
<1>1. Init => MetricsInv
  <2> SUFFICES ASSUME Init PROVE MetricsInv
    BY Zenon
  <2>1. \A t \in Targets : Refused(t) = {}
    BY Zenon DEF Init, Refused, WasRefused, NoResult
  <2>2. \A t \in Targets : \A k \in AttemptLabels : Asked(t, k) = {}
    BY DEF Init, Asked, AskedFor, WasRefused, NoResult, AttemptLabels
  <2>3. Counts(0, {})
    BY Zenon, FS_EmptySet DEF Counts
  <2>4. \A t \in Targets : deadline_exceeded_total[t] = 0
    BY Zenon DEF Init
  <2>5. \A t \in Targets : \A k \in AttemptLabels : retries_total[<<t, k>>] = 0
    BY Zenon DEF Init
  <2>6. QED
    BY Zenon, <2>1, <2>2, <2>3, <2>4, <2>5 DEF MetricsInv
<1>2. IInv /\ MetricsInv /\ [Next]_vars => MetricsInv'
  <2> SUFFICES ASSUME IInv, MetricsInv, [Next]_vars PROVE MetricsInv'
    BY Zenon
  <2>1. CASE UNCHANGED vars
    <3>1. UNCHANGED <<method, attempt, pc, result, retries_total, deadline_exceeded_total>>
      BY Zenon, <2>1 DEF vars, callVars, metricVars
    <3>2. QED
      BY Zenon, <3>1, MetricsSame DEF AskedFor, WasRefused
  <2>2. QED
    BY Zenon, <2>1, MetricsStep
<1>3. MetricsInv => MetricsAccountForCalls
  <2> SUFFICES ASSUME MetricsInv, NEW t \in Targets
               PROVE  LET ofTarget == {c \in Calls : method[c].target = t}
                          refused  == {c \in ofTarget : result[c] = "DeadlineExceeded"}
                      IN  /\ deadline_exceeded_total[t] = Cardinality(refused)
                          /\ \A k \in AttemptLabels :
                                retries_total[<<t, k>>] = Cardinality(
                                    {c \in ofTarget : \/ attempt[c] >= k
                                                      \/ /\ attempt[c] = k - 1
                                                         /\ pc[c] = "sleep" \/ c \in refused})
    BY Zenon DEF MetricsAccountForCalls
  <2> DEFINE ofTarget == {c \in Calls : method[c].target = t}
             refused  == {c \in ofTarget : result[c] = "DeadlineExceeded"}
             asked(k) == {c \in ofTarget : \/ attempt[c] >= k
                                           \/ /\ attempt[c] = k - 1
                                              /\ pc[c] = "sleep" \/ c \in refused}
  <2>1. refused = Refused(t)
    BY Zenon DEF Refused, WasRefused
  <2>2. ASSUME NEW k \in AttemptLabels PROVE asked(k) = Asked(t, k)
    BY Zenon DEF Asked, AskedFor, WasRefused
  <2>3. deadline_exceeded_total[t] = Cardinality(refused)
    BY Zenon, <2>1 DEF MetricsInv, Counts
  <2>4. \A k \in AttemptLabels : retries_total[<<t, k>>] = Cardinality(asked(k))
    <3> HIDE DEF asked
    <3> QED
      BY Zenon, <2>2 DEF MetricsInv, Counts
  <2>5. QED
    BY Zenon, <2>3, <2>4
<1>4. QED
  BY <1>1, <1>2, <1>3, Invariance, PTL DEF Spec

-----------------------------------------------------------------------------
(* AdapterCall implements RemoteCall. *)

LEMMA PromiseInit == Init => Promise!Init
BY Zenon DEF Init, Promise!Init, Phase

\* A step that leaves every call's phase, the methods and the effects alone is
\* a stuttering step of RemoteCall.
LEMMA PromiseStutter ==
  ASSUME \A c \in Calls : Phase(c)' = Phase(c), UNCHANGED <<method, effects>>
  PROVE  UNCHANGED Promise!vars
BY Zenon DEF Promise!vars

\* A step that gives one call a new phase.
LEMMA PhaseStep ==
  ASSUME TypeOK, NEW c \in Calls, NEW s, pc' = [pc EXCEPT ![c] = s],
         \A d \in Calls \ {c} : result'[d] = result[d]
  PROVE  \A d \in Calls \ {c} : Phase(d)' = Phase(d)
BY Zenon DEF Phase, TypeOK

LEMMA SettlePromise ==
  ASSUME IInv, IInv', NEW c \in Calls, pc[c] \in {"attempt", "await"},
         NEW class, NEW latency, Settle(c, class, latency)
  PROVE  Promise!Next \/ UNCHANGED Promise!vars
<1>p. TypeOK /\ TypeOK' /\ OkMeansActed'
  BY Zenon DEF IInv
<1>0. /\ UNCHANGED <<method, effects>> /\ Phase(c) = "open"
      /\ \A d \in Calls \ {c} : Phase(d)' = Phase(d)
      /\ pc'[c] \in {"sleep", "done"}
  <2>1. \E s \in {"sleep", "done"} : pc' = [pc EXCEPT ![c] = s]
    BY Zenon DEF Settle, Return
  <2>2. \A d \in Calls \ {c} : result'[d] = result[d]
    BY Zenon, <1>p DEF TypeOK, Settle, Return
  <2>3. UNCHANGED <<method, effects>> /\ Phase(c) = "open"
    BY Zenon DEF Settle, serviceVars, Phase
  <2>4. pc'[c] \in {"sleep", "done"}
    BY Zenon, <1>p, <2>1 DEF TypeOK
  <2>5. QED
    BY Zenon, <1>p, <2>1, <2>2, <2>3, <2>4, PhaseStep
<1>1. CASE pc'[c] = "sleep"
  BY Zenon, <1>0, <1>1, PromiseStutter DEF Phase
<1>2. CASE pc'[c] = "done" /\ result'[c] = "Ok"
  <2>1. Phase(c)' = "ok"
    BY Zenon, <1>2 DEF Phase
  <2>2. method[c].effect # "none" => effects[c] = 1
    BY Zenon, <1>p, <1>0, <1>2 DEF OkMeansActed
  <2>3. Promise!Succeed(c)
    BY Zenon, <1>0, <2>1, <2>2 DEF Promise!Succeed
  <2>4. QED
    BY Zenon, <2>3 DEF Promise!Next
<1>3. CASE pc'[c] = "done" /\ result'[c] # "Ok"
  <2>1. Phase(c)' = "failed"
    BY Zenon, <1>3 DEF Phase
  <2>2. Promise!Fail(c)
    BY Zenon, <1>0, <2>1 DEF Promise!Fail
  <2>3. QED
    BY Zenon, <2>2 DEF Promise!Next
<1>4. QED
  BY Zenon, <1>0, <1>1, <1>2, <1>3

LEMMA ServePromise ==
  ASSUME IInv, IInv', NEW req \in net, Serve(req)
  PROVE  Promise!Next \/ UNCHANGED Promise!vars
<1> DEFINE c == req.call
<1>0. c \in Calls /\ pc[c] # "idle" /\ \A d \in Calls : Phase(d)' = Phase(d)
  BY Zenon DEF Serve, callVars, IInv, TypeOK, Requests, RequestInv, Phase
<1>1. CASE ActsOn(req)
  <2>1. effects' = [effects EXCEPT ![c] = effects[c] + 1]
    BY Zenon, <1>1 DEF Serve
  <2>2. effects[c] \in Nat /\ effects'[c] = effects[c] + 1 /\ effects'[c] <= 1
    <3>1. effects \in [Calls -> Nat] /\ \A d \in Calls : effects'[d] <= 1
      BY Zenon DEF IInv, TypeOK, EffectInv, EffectAtMostOnce
    <3>2. QED
      BY Zenon, <1>0, <2>1, <3>1
  <2>3. effects[c] = 0 /\ method[c].effect # "none" /\ Phase(c) # "idle"
    <3>1. method'[c].effect # "none"
      BY <1>0, <2>2 DEF IInv, EffectInv
    <3>2. method' = method
      BY Zenon DEF Serve, callVars
    <3>3. QED
      BY <1>0, <2>2, <3>1, <3>2 DEF Phase
  <2>4. effects' = [effects EXCEPT ![c] = 1]
    <3>1. effects[c] + 1 = 1
      BY <2>3
    <3>2. QED
      BY <2>1, <3>1, Zenon
  <2>5. UNCHANGED method
    BY Zenon DEF Serve, callVars
  <2>6. Promise!Act(c)
    BY Zenon, <1>0, <2>3, <2>4, <2>5 DEF Promise!Act
  <2>7. QED
    BY Zenon, <1>0, <2>6 DEF Promise!Next
<1>2. CASE ~ ActsOn(req)
  <2>1. UNCHANGED <<method, effects>>
    BY Zenon, <1>2 DEF Serve, callVars
  <2>2. QED
    BY Zenon, <1>0, <2>1, PromiseStutter
<1>3. QED
  BY Zenon, <1>1, <1>2

LEMMA PromiseNext ==
  ASSUME IInv, IInv', [Next]_vars
  PROVE  [Promise!Next]_Promise!vars
<1>1. ASSUME NEW c \in Calls, Begin(c)
      PROVE  Promise!Next
  <2>1. \A d \in Calls \ {c} : Phase(d)' = Phase(d)
    BY Zenon, <1>1, PhaseStep DEF Begin, IInv
  <2>2. Phase(c) = "idle" /\ Phase(c)' = "open"
    BY Zenon, <1>1 DEF Begin, Phase, IInv, TypeOK
  <2>3. Promise!Issue(c)
    BY Zenon, <1>1, <2>1, <2>2 DEF Promise!Issue, Begin, serviceVars
  <2>4. QED
    BY Zenon, <2>3 DEF Promise!Next
<1>2. ASSUME NEW c \in Calls, Send(c) \/ Wake(c)
      PROVE  UNCHANGED Promise!vars
  BY Zenon, <1>2, PromiseStutter DEF Send, Wake, Phase, IInv, TypeOK, serviceVars
<1>3. ASSUME NEW c \in Calls, AttemptEnds(c)
      PROVE  Promise!Next \/ UNCHANGED Promise!vars
  BY Zenon, <1>3, SettlePromise
     DEF AttemptEnds, AttemptOk, AttemptUndecodable, AttemptError, AttemptPanic
<1>4. ASSUME NEW req \in net, Lose(req)
      PROVE  UNCHANGED Promise!vars
  BY Zenon, <1>4, PromiseStutter DEF Lose, callVars, Phase
<1>5. CASE UNCHANGED vars
  BY Zenon, <1>5, PromiseStutter DEF vars, callVars, serviceVars, Phase
<1>6. QED
  BY Zenon, <1>1, <1>2, <1>3, <1>4, <1>5, ServePromise DEF Next

\* Every behaviour of AdapterCall is one that RemoteCall allows: retries do not
\* show, and a late request may act after the call has failed.
THEOREM Refinement == Spec => ImplementsRemoteCall
<1>1. Init => Promise!Init
  BY Zenon, PromiseInit
<1>2. IInv /\ IInv' /\ [Next]_vars => [Promise!Next]_Promise!vars
  BY Zenon, PromiseNext
<1>3. QED
  BY <1>1, <1>2, Invariance, PTL DEF Spec, ImplementsRemoteCall, Promise!Spec
-----------------------------------------------------------------------------
(* The work a call has left. *)

\* The steps that a call at step p, in attempt a of m, may still take.
Left(p, m, a) ==
    CASE p = "idle"    -> 3 * m + 1
      [] p = "attempt" -> 3 * (m - a)
      [] p = "await"   -> 3 * (m - a) - 1
      [] p = "sleep"   -> 3 * (m - a) - 2
      [] OTHER         -> 0

StepsLeft(c) == Left(pc[c], Policy(c).max_attempts, attempt[c])

StepsLeftInNat == \A c \in Calls : StepsLeft(c) \in Nat

\* What a step does to the work left of every call.
WorkShrinks ==
    \A c \in Calls : IF pc'[c] = pc[c] THEN StepsLeft(c)' = StepsLeft(c)
                                       ELSE StepsLeft(c)' < StepsLeft(c)

\* The five steps of with_retry, by what they do to pc and attempt.
LEMMA CallSteps ==
  ASSUME IInv, NEW c \in Calls, Begin(c) \/ Send(c) \/ AttemptEnds(c) \/ Wake(c)
  PROVE  /\ method' = method
         /\ \/ pc[c] = "idle" /\ pc' = [pc EXCEPT ![c] = "attempt"] /\ attempt' = attempt
            \/ pc[c] = "attempt" /\ pc' = [pc EXCEPT ![c] = "await"] /\ attempt' = attempt
            \/ /\ pc[c] \in {"attempt", "await"} /\ attempt' = attempt
               /\ \/ pc' = [pc EXCEPT ![c] = "done"]
                  \/ /\ pc' = [pc EXCEPT ![c] = "sleep"]
                     /\ attempt[c] + 1 < Policy(c).max_attempts
            \/ /\ pc[c] = "sleep" /\ pc' = [pc EXCEPT ![c] = "attempt"]
               /\ attempt' = [attempt EXCEPT ![c] = attempt[c] + 1]
<1>1. CASE Begin(c)
  BY Zenon, <1>1 DEF Begin
<1>2. CASE Send(c)
  BY Zenon, <1>2 DEF Send
<1>3. CASE Wake(c)
  BY Zenon, <1>3 DEF Wake
<1>4. CASE AttemptEnds(c)
  <2>1. PICK class, latency : Settle(c, class, latency)
    BY Zenon, <1>4 DEF AttemptEnds, AttemptOk, AttemptUndecodable, AttemptError, AttemptPanic
  <2>2. pc[c] \in {"attempt", "await"}
    BY Zenon, <1>4 DEF AttemptEnds, AttemptOk, AttemptUndecodable, AttemptError, AttemptPanic
  <2>3. QED
    BY Zenon, <2>1, <2>2 DEF Settle, Return, WillRetry
<1>5. QED
  BY Zenon, <1>1, <1>2, <1>3, <1>4

LEMMA CallShrinks ==
  ASSUME IInv, NEW c \in Calls, Begin(c) \/ Send(c) \/ AttemptEnds(c) \/ Wake(c)
  PROVE  WorkShrinks
<1> DEFINE m == Policy(c).max_attempts
           a == attempt[c]
<1>t. /\ pc \in [Calls -> {"idle", "attempt", "await", "sleep", "done"}]
      /\ attempt \in [Calls -> Nat]
  BY Zenon DEF IInv, TypeOK
<1>m. m \in Nat /\ a \in Nat /\ a < m /\ (pc[c] = "idle" => a = 0)
      /\ (pc[c] = "sleep" => a + 1 < m)
  BY Zenon, <1>t, CallsWellFormed DEF IInv, CallInv, WellFormed, Policy
<1>s. /\ method' = method
      /\ \/ pc[c] = "idle" /\ pc' = [pc EXCEPT ![c] = "attempt"] /\ attempt' = attempt
         \/ pc[c] = "attempt" /\ pc' = [pc EXCEPT ![c] = "await"] /\ attempt' = attempt
         \/ /\ pc[c] \in {"attempt", "await"} /\ attempt' = attempt
            /\ \/ pc' = [pc EXCEPT ![c] = "done"]
               \/ pc' = [pc EXCEPT ![c] = "sleep"] /\ a + 1 < m
         \/ /\ pc[c] = "sleep" /\ pc' = [pc EXCEPT ![c] = "attempt"]
            /\ attempt' = [attempt EXCEPT ![c] = a + 1]
  BY Zenon, CallSteps
<1>1. ASSUME NEW d \in Calls, d # c
      PROVE  pc'[d] = pc[d] /\ StepsLeft(d)' = StepsLeft(d)
  <2>1. pc'[d] = pc[d] /\ attempt'[d] = attempt[d]
    BY Zenon, <1>t, <1>s, <1>1
  <2>2. QED
    BY Zenon, <1>s, <2>1 DEF StepsLeft, Policy
<1>2. StepsLeft(c)' = Left(pc'[c], m, attempt'[c]) /\ StepsLeft(c) = Left(pc[c], m, a)
  BY Zenon, <1>s DEF StepsLeft, Policy
<1>3. pc'[c] # pc[c] /\ Left(pc'[c], m, attempt'[c]) < Left(pc[c], m, a)
  <2> HIDE DEF m, a
  <2>1. CASE pc[c] = "idle" /\ pc' = [pc EXCEPT ![c] = "attempt"] /\ attempt' = attempt
    <3>1. pc'[c] = "attempt" /\ attempt'[c] = a
      BY Zenon, <1>t, <2>1 DEF a
    <3>2. QED
      BY <1>m, <2>1, <3>1 DEF Left
  <2>2. CASE pc[c] = "attempt" /\ pc' = [pc EXCEPT ![c] = "await"] /\ attempt' = attempt
    <3>1. pc'[c] = "await" /\ attempt'[c] = a
      BY Zenon, <1>t, <2>2 DEF a
    <3>2. QED
      BY <1>m, <2>2, <3>1 DEF Left
  <2>3. CASE /\ pc[c] \in {"attempt", "await"} /\ attempt' = attempt
             /\ pc' = [pc EXCEPT ![c] = "done"]
    <3>1. pc'[c] = "done" /\ attempt'[c] = a
      BY Zenon, <1>t, <2>3 DEF a
    <3>2. QED
      BY <1>m, <2>3, <3>1 DEF Left
  <2>4. CASE /\ pc[c] \in {"attempt", "await"} /\ attempt' = attempt
             /\ pc' = [pc EXCEPT ![c] = "sleep"]
    <3>1. pc'[c] = "sleep" /\ attempt'[c] = a
      BY Zenon, <1>t, <2>4 DEF a
    <3>2. QED
      BY <1>m, <2>4, <3>1 DEF Left
  <2>5. CASE /\ pc[c] = "sleep" /\ pc' = [pc EXCEPT ![c] = "attempt"]
             /\ attempt' = [attempt EXCEPT ![c] = a + 1]
    <3>1. pc'[c] = "attempt" /\ attempt'[c] = a + 1
      BY Zenon, <1>t, <2>5 DEF a
    <3>2. QED
      BY <1>m, <2>5, <3>1 DEF Left
  <2>6. QED
    BY Zenon, <1>s, <2>1, <2>2, <2>3, <2>4, <2>5
<1>4. QED
  BY Zenon, <1>1, <1>2, <1>3 DEF WorkShrinks

\* The part of CallReturns that does not rest on fairness.  Every step of a
\* call, its retries included, uses up work of which it has a bounded amount,
\* at most 3 * max_attempts + 1 steps, and no other call, and nothing the
\* network does, adds to it: with_retry has no way of looping for ever.
THEOREM BoundedWork == Spec => []StepsLeftInNat /\ [][WorkShrinks]_vars
<1>1. IInv => StepsLeftInNat
  <2> SUFFICES ASSUME IInv, NEW c \in Calls PROVE StepsLeft(c) \in Nat
    BY Zenon DEF StepsLeftInNat
  <2> DEFINE m == Policy(c).max_attempts
             a == attempt[c]
  <2>1. m \in Nat /\ a \in Nat /\ a < m
    BY Zenon, CallsWellFormed DEF IInv, TypeOK, CallInv, WellFormed, Policy
  <2> HIDE DEF m, a
  <2>2. Left(pc[c], m, a) \in Nat
    BY <2>1 DEF Left
  <2>3. QED
    BY Zenon, <2>2 DEF StepsLeft, m, a
<1>2. IInv /\ [Next]_vars => [WorkShrinks]_vars
  <2> SUFFICES ASSUME IInv, Next PROVE WorkShrinks
    BY Zenon
  <2>1. CASE \E req \in net : Serve(req) \/ Lose(req)
    BY Zenon, <2>1 DEF Serve, Lose, callVars, WorkShrinks, StepsLeft, Policy
  <2>2. QED
    BY Zenon, <2>1, CallShrinks DEF Next
<1>3. QED
  BY <1>1, <1>2, Invariance, PTL DEF Spec
=============================================================================
