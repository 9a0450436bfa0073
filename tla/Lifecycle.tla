----------------------------- MODULE Lifecycle -----------------------------
(***************************************************************************)
(* The process from start to exit: main.rs, with config.rs, db.rs,         *)
(* shutdown.rs, telemetry/mod.rs and the servers of server/grpc.rs and     *)
(* server/http.rs.                                                         *)
(*                                                                         *)
(* main is one sequence of steps.  The servers are tasks of their own that *)
(* bind, serve and, once shutdown_tx holds true, stop accepting and wait   *)
(* for the requests in flight.  A watch of the health service of a gRPC    *)
(* server is a request that goes on until its client ends it.              *)
(***************************************************************************)
EXTENDS Integers

CONSTANTS
    Configs,        \* the configurations the process may be started with
    None,           \* OTEL_TYPE is not set
    MaxInFlight     \* bound: requests in flight on a server

ASSUME InFlightAssumption == MaxInFlight \in Nat \ {0}

Servers     == {"http", "internal", "external"}
GrpcServers == {"internal", "external"}
Exporters   == {"grafana", "langfuse", "local"}

-----------------------------------------------------------------------------
(* config.rs *)

\* Config, as far as the start looks at it, with OTEL_TYPE set to t.
Config(t) ==
    [env : {"Dev", "Staging", "Production"}, registry_adapter : {"Stub", "Grpc"},
     track_0_idle_mode : BOOLEAN, db_statement_timeout_ms : Nat,
     otel_export_grafana : BOOLEAN, otel_export_langfuse : BOOLEAN, langfuse_keys : BOOLEAN,
     otel_export_local : BOOLEAN, local_var_set : BOOLEAN, otel_type : {t}]

ASSUME ConfigsAssumption ==
    /\ \A c \in Configs : c \in Config(c.otel_type)
    /\ None \notin {"collector", "langfuse", "both"}

validate(c) ==
    /\ ~(c.env = "Production" /\ c.registry_adapter = "Stub" /\ ~c.track_0_idle_mode)
    /\ c.db_statement_timeout_ms # 0
    /\ c.otel_export_langfuse => c.langfuse_keys

bind_external_port(c) == ~c.track_0_idle_mode

apply_otel_local_default(c) ==
    IF ~c.local_var_set /\ c.env = "Dev" THEN [c EXCEPT !.otel_export_local = TRUE] ELSE c

apply_otel_type_legacy(c) ==
    [c EXCEPT !.otel_export_grafana  = @ \/ c.otel_type \in {"collector", "both"},
              !.otel_export_langfuse = @ \/ c.otel_type \in {"langfuse", "both"}]

-----------------------------------------------------------------------------
VARIABLES
    cfg,            \* the configuration
    main,           \* the next step of main
    exit_code,      \* of the process, once main = "exited"
    drain, shutdown,            \* what the two watch channels hold
    server,         \* server[s]: the task of s
    health,         \* health[s]: what the reporter of s says
    inflight,       \* inflight[s]: requests that s has accepted and not answered
    watches,        \* watches[s]: health watches open on s
    pool,           \* "none", "open" or "closed"
    exporter,       \* exporter[x]: the span processor of x and its task
    tracer_provider \* the global one: the SDK's or the one that does nothing

otelVars   == <<exporter, tracer_provider>>
mainVars   == <<cfg, main, exit_code, drain, shutdown, pool, otelVars>>
serverVars == <<server, health, inflight, watches>>
vars       == <<mainVars, serverVars>>

Init ==
    /\ cfg \in Configs
    /\ main = "validate" /\ exit_code = 0
    /\ drain = FALSE /\ shutdown = FALSE
    /\ server = [s \in Servers |-> "none"] /\ health = [s \in GrpcServers |-> "unset"]
    /\ inflight = [s \in Servers |-> 0] /\ watches = [s \in GrpcServers |-> 0]
    /\ pool = "none" /\ exporter = [x \in Exporters |-> "off"] /\ tracer_provider = "noop"

\* The process ends, and its tasks with it.
ExitWith(code) ==
    /\ main' = "exited" /\ exit_code' = code
    /\ server' = [s \in Servers |-> IF server[s] = "none" THEN "none" ELSE "stopped"]
    /\ inflight' = [s \in Servers |-> 0] /\ watches' = [s \in GrpcServers |-> 0]
    /\ exporter' = [x \in Exporters |-> IF exporter[x] = "running" THEN "aborted" ELSE exporter[x]]

-----------------------------------------------------------------------------
(* Start. *)

Validate ==
    /\ main = "validate" /\ validate(cfg)
    /\ cfg' = apply_otel_local_default(cfg)
    /\ main' = "legacy"
    /\ UNCHANGED <<exit_code, drain, shutdown, pool, otelVars, serverVars>>

\* EX_CONFIG.
Invalid ==
    /\ main = "validate" /\ ~validate(cfg)
    /\ ExitWith(78)
    /\ UNCHANGED <<cfg, drain, shutdown, pool, tracer_provider, health>>

\* The exporters that are switched on.
Enabled(c) ==
    {x \in Exporters :
        \/ x = "grafana" /\ c.otel_export_grafana
        \/ x = "langfuse" /\ c.otel_export_langfuse
        \/ x = "local" /\ c.otel_export_local}

\* A processor for each exporter that is switched on; an OTLP exporter that
\* cannot be built is reported and left out.
init_telemetry(c, failed) ==
    /\ exporter' = [x \in Exporters |-> IF x \notin Enabled(c) THEN "off"
                                       ELSE IF x \in failed THEN "failed" ELSE "running"]
    /\ tracer_provider' = "sdk"

\* A bug: OTEL_TYPE is translated when telemetry is already up.
LegacyAfterInit ==
    /\ main = "legacy"
    /\ cfg' = apply_otel_type_legacy(cfg)
    /\ cfg.otel_type # None => validate(cfg')
    /\ \E failed \in SUBSET {"grafana", "langfuse"} : init_telemetry(cfg, failed)
    /\ main' = "pool"
    /\ UNCHANGED <<exit_code, drain, shutdown, pool, serverVars>>

\* OTEL_TYPE is translated and the result validated; then init_telemetry.
Legacy ==
    /\ main = "legacy"
    /\ cfg' = apply_otel_type_legacy(cfg)
    /\ cfg.otel_type # None => validate(cfg')
    /\ \E failed \in SUBSET {"grafana", "langfuse"} : init_telemetry(cfg', failed)
    /\ main' = "pool"
    /\ UNCHANGED <<exit_code, drain, shutdown, pool, serverVars>>

\* A metric cannot be registered: main returns the error.
MetricsFail ==
    /\ main = "legacy"
    /\ cfg' = apply_otel_type_legacy(cfg)
    /\ cfg.otel_type # None => validate(cfg')
    /\ ExitWith(1)
    /\ UNCHANGED <<drain, shutdown, pool, tracer_provider, health>>

InvalidLegacy ==
    /\ main = "legacy" /\ cfg.otel_type # None
    /\ cfg' = apply_otel_type_legacy(cfg)
    /\ ~validate(cfg')
    /\ ExitWith(78)
    /\ UNCHANGED <<drain, shutdown, pool, tracer_provider, health>>

\* build_pool and run_migrations.
OpenPool ==
    /\ main = "pool"
    /\ pool' = "open" /\ main' = "grpc"
    /\ UNCHANGED <<cfg, exit_code, drain, shutdown, otelVars, serverVars>>

\* No pool: main returns the error.  A migration that fails: exit 70.
OpenPoolFails ==
    /\ main = "pool"
    /\ \E code \in {1, 70} : ExitWith(code)
    /\ UNCHANGED <<cfg, drain, shutdown, pool, tracer_provider, health>>

\* grpc::spawn: the reporters say Serving before the servers have bound.
SpawnGrpc ==
    LET bound == {"internal"} \cup (IF bind_external_port(cfg) THEN {"external"} ELSE {})
    IN  /\ main = "grpc"
        /\ health' = [s \in GrpcServers |-> IF s \in bound THEN "Serving" ELSE health[s]]
        /\ server' = [s \in Servers |-> IF s \in bound THEN "binding" ELSE server[s]]
        /\ main' = "http"
        /\ UNCHANGED <<cfg, exit_code, drain, shutdown, pool, otelVars, inflight, watches>>

SpawnHttp ==
    /\ main = "http"
    /\ server' = [server EXCEPT !["http"] = "binding"]
    /\ main' = "wait"
    /\ UNCHANGED <<cfg, exit_code, drain, shutdown, pool, otelVars, health, inflight, watches>>

\* A signal before wait_for_signal has installed its handlers ends the process.
Killed ==
    /\ main \in {"validate", "legacy", "pool", "grpc", "http"}
    /\ ExitWith(143)
    /\ UNCHANGED <<cfg, drain, shutdown, pool, tracer_provider, health>>

-----------------------------------------------------------------------------
(* Stop. *)

\* A bug: the servers are told to stop first.
SignalStopsFirst ==
    /\ main = "wait"
    /\ shutdown' = TRUE /\ main' = "drain"
    /\ UNCHANGED <<cfg, exit_code, drain, pool, otelVars, serverVars>>

WaitForSignal ==
    /\ main = "wait"
    /\ main' = "drain"
    /\ UNCHANGED <<cfg, exit_code, drain, shutdown, pool, otelVars, serverVars>>

Drain ==
    /\ main = "drain"
    /\ drain' = TRUE /\ main' = "internal not serving"
    /\ UNCHANGED <<cfg, exit_code, shutdown, pool, otelVars, serverVars>>

\* signal_draining: the internal reporter, then the external one if there is one.
InternalNotServing ==
    /\ main = "internal not serving"
    /\ health' = [health EXCEPT !["internal"] = "NotServing"]
    /\ main' = IF bind_external_port(cfg) THEN "external not serving" ELSE "shutdown"
    /\ UNCHANGED <<cfg, exit_code, drain, shutdown, pool, otelVars, server, inflight, watches>>

ExternalNotServing ==
    /\ main = "external not serving"
    /\ health' = [health EXCEPT !["external"] = "NotServing"]
    /\ main' = "shutdown"
    /\ UNCHANGED <<cfg, exit_code, drain, shutdown, pool, otelVars, server, inflight, watches>>

SendShutdown ==
    /\ main = "shutdown"
    /\ shutdown' = TRUE /\ main' = "await"
    /\ UNCHANGED <<cfg, exit_code, drain, pool, otelVars, serverVars>>

\* A bug: the external server is not awaited.
AwaitTwoServers ==
    /\ main = "await" /\ \A s \in {"http", "internal"} : server[s] = "stopped"
    /\ main' = "close"
    /\ UNCHANGED <<cfg, exit_code, drain, shutdown, pool, otelVars, serverVars>>

\* A bug: the external server is awaited in idle mode too.
AwaitUnbound ==
    /\ main = "await" /\ \A s \in Servers : server[s] = "stopped"
    /\ main' = "close"
    /\ UNCHANGED <<cfg, exit_code, drain, shutdown, pool, otelVars, serverVars>>

\* The three handles, one after the other: all have ended, errors are ignored.
AwaitServers ==
    /\ main = "await"
    /\ \A s \in Servers : server[s] = "stopped" \/ (s = "external" /\ ~bind_external_port(cfg))
    /\ main' = "close"
    /\ UNCHANGED <<cfg, exit_code, drain, shutdown, pool, otelVars, serverVars>>

ClosePool ==
    /\ main = "close"
    /\ pool' = "closed" /\ main' = "telemetry"
    /\ UNCHANGED <<cfg, exit_code, drain, shutdown, otelVars, serverVars>>

\* The global provider is replaced, and that is all: the tracer of the tracing
\* layer keeps the old one, whose processors go on until the process ends.
shutdown_telemetry ==
    tracer_provider' = "noop"

\* main returns Ok.
Return ==
    /\ main = "telemetry"
    /\ shutdown_telemetry
    /\ ExitWith(0)
    /\ UNCHANGED <<cfg, drain, shutdown, pool, health>>

-----------------------------------------------------------------------------
(* The tasks of the servers. *)

Bind(s) ==
    /\ server[s] = "binding"
    /\ server' = [server EXCEPT ![s] = "serving"]
    /\ UNCHANGED <<mainVars, health, inflight, watches>>

\* The address is taken: the task ends with an error that main sees only when
\* it awaits the handle.
BindFails(s) ==
    /\ server[s] = "binding"
    /\ server' = [server EXCEPT ![s] = "stopped"]
    /\ UNCHANGED <<mainVars, health, inflight, watches>>

Accept(s) ==
    /\ server[s] = "serving" /\ inflight[s] < MaxInFlight
    /\ inflight' = [inflight EXCEPT ![s] = @ + 1]
    /\ UNCHANGED <<mainVars, server, health, watches>>

Finish(s) ==
    /\ inflight[s] > 0
    /\ inflight' = [inflight EXCEPT ![s] = @ - 1]
    /\ UNCHANGED <<mainVars, server, health, watches>>

OpenWatch(s) ==
    /\ server[s] = "serving" /\ watches[s] < MaxInFlight
    /\ watches' = [watches EXCEPT ![s] = @ + 1]
    /\ UNCHANGED <<mainVars, server, health, inflight>>

CloseWatch(s) ==
    /\ watches[s] > 0
    /\ watches' = [watches EXCEPT ![s] = @ - 1]
    /\ UNCHANGED <<mainVars, server, health, inflight>>

\* The shutdown future resolves: no more requests are accepted.
StopAccepting(s) ==
    /\ server[s] = "serving" /\ shutdown
    /\ server' = [server EXCEPT ![s] = "stopping"]
    /\ UNCHANGED <<mainVars, health, inflight, watches>>

Stopped(s) ==
    /\ server[s] = "stopping" /\ inflight[s] = 0
    /\ s \in GrpcServers => watches[s] = 0
    /\ server' = [server EXCEPT ![s] = "stopped"]
    /\ UNCHANGED <<mainVars, health, inflight, watches>>

MainStep ==
    \/ Validate \/ Invalid \/ Legacy \/ MetricsFail \/ InvalidLegacy
    \/ OpenPool \/ OpenPoolFails \/ SpawnGrpc \/ SpawnHttp
    \/ Drain \/ InternalNotServing \/ ExternalNotServing \/ SendShutdown
    \/ AwaitServers \/ ClosePool \/ Return

TaskStep(s) == Bind(s) \/ BindFails(s) \/ StopAccepting(s) \/ Stopped(s)

Next ==
    \/ MainStep \/ Killed \/ WaitForSignal
    \/ \E s \in Servers : TaskStep(s) \/ Accept(s) \/ Finish(s)
    \/ \E s \in GrpcServers : OpenWatch(s) \/ CloseWatch(s)

\* Fairness: tokio polls main and the servers' tasks, and a request that was
\* accepted ends, unless it is a watch.  No signal has to come.
Spec ==
    /\ Init /\ [][Next]_vars
    /\ WF_vars(MainStep)
    /\ \A s \in Servers : WF_vars(TaskStep(s)) /\ WF_vars(Finish(s))

-----------------------------------------------------------------------------
(* Properties. *)

\* Type invariant; the process exits with one of the codes it documents.
TypeOK ==
    /\ main \in {"validate", "legacy", "pool", "grpc", "http", "wait", "drain",
                 "internal not serving", "external not serving", "shutdown", "await", "close",
                 "telemetry", "exited"}
    /\ exit_code \in {0, 1, 70, 78, 143}
    /\ drain \in BOOLEAN /\ shutdown \in BOOLEAN
    /\ server \in [Servers -> {"none", "binding", "serving", "stopping", "stopped"}]
    /\ health \in [GrpcServers -> {"unset", "Serving", "NotServing"}]
    /\ inflight \in [Servers -> 0..MaxInFlight]
    /\ watches \in [GrpcServers -> 0..MaxInFlight]
    /\ pool \in {"none", "open", "closed"}
    /\ exporter \in [Exporters -> {"off", "failed", "running", "aborted"}]
    /\ tracer_provider \in {"noop", "sdk"}

\* The configuration that the process runs with is valid, whatever OTEL_TYPE
\* added to it after the first validation.
RunsValidated == main \notin {"validate", "legacy", "exited"} => validate(cfg)

\* "translation actually takes effect": the exporters that were set up are
\* those of the configuration that runs, after the default of the local one and
\* OTEL_TYPE, except for those that could not be built.
ExportersMatchConfig ==
    main \notin {"validate", "legacy", "exited"} =>
        \A x \in Exporters :
            /\ exporter[x] = "off" <=> x \notin Enabled(cfg)
            /\ exporter[x] = "failed" => x # "local"

\* What runs is what was validated, exporters included.
RunsAsConfigured == RunsValidated /\ ExportersMatchConfig

\* In production the stub registry never serves external requests.
NoStubInProduction ==
    server["external"] \in {"serving", "stopping"} =>
        ~(cfg.env = "Production" /\ cfg.registry_adapter = "Stub")

\* A server stops accepting only when readyz and the health services of both
\* gRPC servers have said so.
DrainPrecedesStop ==
    (\E s \in Servers : server[s] = "stopping") =>
        /\ drain
        /\ \A s \in GrpcServers : health[s] # "Serving"

\* The pool stays open while a request is in flight on any server.
PoolOutlivesRequests ==
    pool = "closed" => /\ \A s \in Servers : inflight[s] = 0
                       /\ \A s \in GrpcServers : watches[s] = 0

\* Exit code 0 means an orderly stop: drained, the servers told to stop, the
\* pool closed and the tracer provider let go of.
CleanExit ==
    main = "exited" /\ exit_code = 0 =>
        drain /\ shutdown /\ pool = "closed" /\ tracer_provider = "noop"

StopSteps == {"drain", "internal not serving", "external not serving", "shutdown", "await",
              "close", "telemetry"}

NothingInFlight ==
    /\ \A s \in Servers : inflight[s] = 0
    /\ \A s \in GrpcServers : watches[s] = 0

\* Once the stop has begun there is one way out, exit code 0, and it is taken
\* only when no request and no watch is left to be cut off.
StopIsGraceful ==
    [][(main \in StopSteps /\ main' \notin StopSteps) =>
          main' = "exited" /\ exit_code' = 0 /\ NothingInFlight]_vars

\* After the signal the process exits, with the pool closed, provided that no
\* client watches the health service for ever: the graceful stop has no time
\* limit.
ExitsCleanly ==
    <>[](\A s \in GrpcServers : watches[s] = 0) =>
        ((main = "drain") ~> (main = "exited" /\ exit_code = 0 /\ pool = "closed"))
=============================================================================
