---------------------------- MODULE RetryPolicy ----------------------------
(***************************************************************************)
(* The constants and pure functions of engagement-hub-adapters: the retry  *)
(* configurations and the deadline arithmetic of policies.rs, the error    *)
(* classification of every adapter, and what each adapter method passes to *)
(* with_retry.                                                             *)
(*                                                                         *)
(* Durations are counted in ticks of 50 ms, the finest duration the code   *)
(* uses: 50 ms = 1, 200 ms = 4, 2 s = 40.                                  *)
(***************************************************************************)
EXTENDS Integers

CONSTANT NoDeadline     \* DeadlineContext::none(), and with_retry's None

ASSUME NoDeadlineAssumption == NoDeadline \notin Nat

-----------------------------------------------------------------------------
(* Retry configurations. *)

RetryConfig(max_attempts) ==
    [max_attempts |-> max_attempts, initial_backoff |-> 1, max_backoff |-> 40]

REGISTRY_RESOLVE_RETRY == RetryConfig(5)
DEFAULT_RETRY          == RetryConfig(3)
WRITE_RETRY            == RetryConfig(2)
CLEANUP_RETRY          == RetryConfig(5)
GRACEFUL_STOP_RETRY    == RetryConfig(1)

-----------------------------------------------------------------------------
(* Deadlines.  A deadline is the time that remains until it. *)

PROPAGATION_MARGIN == 1
ADAPTER_FLOOR      == 4

Least(a, b) == IF a <= b THEN a ELSE b

SaturatingSub(a, b) == IF a >= b THEN a - b ELSE 0

from_remaining(budget, adapter_default) ==
    Least(SaturatingSub(budget, PROPAGATION_MARGIN), adapter_default)

\* What DeadlineContext::remaining returns once d more ticks have passed.
RemainingAfter(left, d) ==
    IF left = NoDeadline THEN NoDeadline ELSE SaturatingSub(left, d)

\* A bug: the gate leaves room for the floor and forgets the sleep.
GateForgetsBackoff(left, backoff) ==
    /\ left # NoDeadline
    /\ left < ADAPTER_FLOOR

\* The gate before the next attempt.
GateRefuses(left, backoff) ==
    /\ left # NoDeadline
    /\ left < backoff + ADAPTER_FLOOR

NextBackoff(config, backoff) == Least(backoff * 2, config.max_backoff)

-----------------------------------------------------------------------------
(* Error classes.  The five error enums of the ports have the same five    *)
(* variants and the same is_retryable.                                     *)

ErrorClass == {"Transient", "Permanent", "Unavailable", "InternalPanic", "DeadlineExceeded"}

is_retryable(class) == class \in {"Transient", "Unavailable"}

\* tonic status codes other than Ok.
GrpcCodes ==
    {"Cancelled", "Unknown", "InvalidArgument", "DeadlineExceeded", "NotFound",
     "AlreadyExists", "PermissionDenied", "ResourceExhausted", "FailedPrecondition",
     "Aborted", "OutOfRange", "Unimplemented", "Internal", "Unavailable",
     "DataLoss", "Unauthenticated"}

GrpcPermanent ==
    {"NotFound", "InvalidArgument", "FailedPrecondition", "AlreadyExists",
     "PermissionDenied", "Unauthenticated", "Unimplemented", "OutOfRange", "Cancelled"}

map_status(code) ==
    CASE code \in GrpcPermanent  -> "Permanent"
      [] code = "Unavailable"    -> "Unavailable"
      [] OTHER                   -> "Transient"

\* The HTTP statuses a downstream answers with, and a request that got no
\* answer at all (reqwest's send() failed).
HttpClientErrors == {"400", "401", "403", "404", "408", "409", "422", "429"}

HttpStatuses == HttpClientErrors \cup {"500", "502", "503", "504"}

SendFailed == "send failed"

vm_map_http_status(status) ==
    CASE status \in HttpClientErrors -> "Permanent"
      [] status = "503"              -> "Unavailable"
      [] OTHER                       -> "Transient"

post_call_map_http_status(status) ==
    CASE status \in {"404", "400", "422"} -> "Permanent"
      [] status = "503"                 -> "Unavailable"
      [] OTHER                          -> "Transient"

analytics_map_http_status(status) ==
    CASE status \in {"404", "400", "422"} -> "Permanent"
      [] status = "503"                 -> "Unavailable"
      [] OTHER                          -> "Transient"

-----------------------------------------------------------------------------
(* Adapter methods.  A method is the target label it reports, the policy   *)
(* it retries under, what its request does downstream and whether its      *)
(* answer has to be decoded (an answer that does not decode is Permanent,  *)
(* although the downstream has acted).  What a request does downstream:    *)
(*   "none"        it only reads;                                          *)
(*   "by_request"  it acts unless it already acted on the same request_id; *)
(*   "to_state"    it moves a resource to a state (stop, cancel) and does  *)
(*                 nothing when the resource is already there;             *)
(*   "always"      it acts each time it arrives (Graceful stop).           *)

Effects == {"none", "by_request", "to_state", "always"}

Method(target, policy, effect, decodes) ==
    [target |-> target, policy |-> policy, effect |-> effect, decodes |-> decodes]

vm_grpc_start_voice_session == Method("voice_manager", WRITE_RETRY, "by_request", TRUE)

\* The policy of stop_voice_session depends on the mode.
vm_grpc_stop_voice_session(mode) ==
    IF mode = "Abort" THEN Method("voice_manager", CLEANUP_RETRY, "to_state", FALSE)
                      ELSE Method("voice_manager", GRACEFUL_STOP_RETRY, "always", FALSE)

vm_grpc_issue_test_token == Method("voice_manager", DEFAULT_RETRY, "by_request", FALSE)
vm_grpc_create_telephony == Method("voice_manager", WRITE_RETRY, "by_request", TRUE)
vm_grpc_list_telephonies == Method("voice_manager", DEFAULT_RETRY, "none", TRUE)
vm_grpc_get_telephony    == Method("voice_manager", DEFAULT_RETRY, "none", TRUE)
vm_grpc_update_telephony == Method("voice_manager", WRITE_RETRY, "by_request", TRUE)
vm_grpc_delete_telephony == Method("voice_manager", WRITE_RETRY, "by_request", FALSE)

vm_http_start_voice_session == Method("voice_manager_http", WRITE_RETRY, "by_request", TRUE)

vm_http_stop_voice_session(mode) ==
    IF mode = "Abort" THEN Method("voice_manager_http", CLEANUP_RETRY, "to_state", FALSE)
                      ELSE Method("voice_manager_http", GRACEFUL_STOP_RETRY, "always", FALSE)

vm_http_issue_test_token == Method("voice_manager_http", DEFAULT_RETRY, "by_request", TRUE)
vm_http_create_telephony == Method("voice_manager_http", WRITE_RETRY, "by_request", TRUE)
vm_http_list_telephonies == Method("voice_manager_http", DEFAULT_RETRY, "none", TRUE)
vm_http_get_telephony    == Method("voice_manager_http", DEFAULT_RETRY, "none", TRUE)
vm_http_update_telephony == Method("voice_manager_http", WRITE_RETRY, "by_request", TRUE)
vm_http_delete_telephony == Method("voice_manager_http", WRITE_RETRY, "by_request", FALSE)

jm_create_execution       == Method("journey_manager", WRITE_RETRY, "by_request", TRUE)
jm_cancel_execution       == Method("journey_manager", CLEANUP_RETRY, "to_state", FALSE)
jm_get_execution_timeline == Method("journey_manager", DEFAULT_RETRY, "none", FALSE)

registry_resolve_snapshot  == Method("registry", REGISTRY_RESOLVE_RETRY, "none", TRUE)
registry_get_voice_profile == Method("registry", DEFAULT_RETRY, "none", TRUE)

post_call_get_transcript        == Method("post_call", DEFAULT_RETRY, "none", TRUE)
post_call_get_summary           == Method("post_call", DEFAULT_RETRY, "none", TRUE)
post_call_get_sentiment         == Method("post_call", DEFAULT_RETRY, "none", TRUE)
post_call_get_output_extraction == Method("post_call", DEFAULT_RETRY, "none", TRUE)
post_call_list_agent_call_logs  == Method("post_call", DEFAULT_RETRY, "none", TRUE)
post_call_list_org_call_logs    == Method("post_call", DEFAULT_RETRY, "none", TRUE)

analytics_get_agent_analytics == Method("analytics", DEFAULT_RETRY, "none", TRUE)
analytics_get_agent_metrics   == Method("analytics", DEFAULT_RETRY, "none", TRUE)
analytics_get_org_analytics   == Method("analytics", DEFAULT_RETRY, "none", TRUE)
analytics_get_org_metrics     == Method("analytics", DEFAULT_RETRY, "none", TRUE)

VoiceManagerGrpcMethods ==
    {vm_grpc_start_voice_session, vm_grpc_stop_voice_session("Abort"),
     vm_grpc_stop_voice_session("Graceful"), vm_grpc_issue_test_token,
     vm_grpc_create_telephony, vm_grpc_list_telephonies, vm_grpc_get_telephony,
     vm_grpc_update_telephony, vm_grpc_delete_telephony}

VoiceManagerHttpMethods ==
    {vm_http_start_voice_session, vm_http_stop_voice_session("Abort"),
     vm_http_stop_voice_session("Graceful"), vm_http_issue_test_token,
     vm_http_create_telephony, vm_http_list_telephonies, vm_http_get_telephony,
     vm_http_update_telephony, vm_http_delete_telephony}

JourneyManagerMethods ==
    {jm_create_execution, jm_cancel_execution, jm_get_execution_timeline}

RegistryMethods == {registry_resolve_snapshot, registry_get_voice_profile}

PostCallMethods ==
    {post_call_get_transcript, post_call_get_summary, post_call_get_sentiment,
     post_call_get_output_extraction, post_call_list_agent_call_logs,
     post_call_list_org_call_logs}

AnalyticsMethods ==
    {analytics_get_agent_analytics, analytics_get_agent_metrics,
     analytics_get_org_analytics, analytics_get_org_metrics}

AdapterMethods ==
    VoiceManagerGrpcMethods \cup VoiceManagerHttpMethods \cup JourneyManagerMethods
        \cup RegistryMethods \cup PostCallMethods \cup AnalyticsMethods

Targets == {"voice_manager", "voice_manager_http", "journey_manager", "registry",
            "post_call", "analytics"}

\* The answers other than success that a target's adapter may see, and the
\* class it turns each of them into.
Answers(target) ==
    IF target \in {"voice_manager", "journey_manager", "registry"}
    THEN GrpcCodes
    ELSE HttpStatuses \cup {SendFailed}

Classify(target, answer) ==
    CASE target = "voice_manager_http" -> vm_map_http_status(answer)
      [] target = "post_call"          -> post_call_map_http_status(answer)
      [] target = "analytics"          -> analytics_map_http_status(answer)
      [] OTHER                         -> map_status(answer)
=============================================================================
