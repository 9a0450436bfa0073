---------------------------- MODULE MCLifecycle ----------------------------
(* Instances of Lifecycle for TLC. *)
EXTENDS Lifecycle

MCConfig(env, adapter, idle, timeout, langfuse, keys, var, type) ==
    [env |-> env, registry_adapter |-> adapter, track_0_idle_mode |-> idle,
     db_statement_timeout_ms |-> timeout, otel_export_grafana |-> FALSE,
     otel_export_langfuse |-> langfuse, langfuse_keys |-> keys,
     otel_export_local |-> FALSE, local_var_set |-> var, otel_type |-> type]

\* What validate, bind_external_port and the translation of OTEL_TYPE tell apart.
MCConfigs ==
    {MCConfig(env, adapter, idle, timeout, langfuse, keys, var, type) :
        env \in {"Dev", "Production"}, adapter \in {"Stub", "Grpc"}, idle \in BOOLEAN,
        timeout \in {0, 5000}, langfuse \in BOOLEAN, keys \in BOOLEAN,
        var \in BOOLEAN, type \in {None, "collector", "langfuse", "both", "other"}}
=============================================================================
