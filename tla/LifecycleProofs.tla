--------------------------- MODULE LifecycleProofs ---------------------------
(***************************************************************************)
(* Proofs about Lifecycle: the safety of start and stop, for any set of    *)
(* configurations and any number of requests.                              *)
(***************************************************************************)
EXTENDS Lifecycle, TLAPS

-----------------------------------------------------------------------------
(* The inductive invariant. *)

\* The first validation holds on until the exit.
CfgInv ==
    /\ cfg \in Config(cfg.otel_type)
    /\ main \notin {"validate", "exited"} => validate(cfg)

\* Servers are spawned once, in order, the external one only where it is
\* bound; one that does not serve has no requests.
ServerInv ==
    /\ main \in {"validate", "legacy", "pool", "grpc"} => \A s \in Servers : server[s] = "none"
    /\ main = "http" => server["http"] = "none"
    /\ ~bind_external_port(cfg) => server["external"] = "none"
    /\ server["external"] \in {"binding", "serving", "stopping"} => validate(cfg)
    /\ \A s \in Servers : server[s] \in {"none", "binding", "stopped"} => inflight[s] = 0
    /\ \A s \in GrpcServers : server[s] \in {"none", "binding", "stopped"} => watches[s] = 0

\* The order of the stop.
DrainInv ==
    /\ (\E s \in Servers : server[s] = "stopping") => shutdown
    /\ shutdown => main \in {"await", "close", "telemetry", "exited"}
    /\ shutdown \/ main \in {"internal not serving", "external not serving", "shutdown"} => drain
    /\ shutdown \/ main \in {"external not serving", "shutdown"} => health["internal"] # "Serving"
    /\ shutdown \/ main = "shutdown" => health["external"] # "Serving"
    /\ ~bind_external_port(cfg) => health["external"] # "Serving"

\* The pool is closed when every server has ended.
PoolInv ==
    /\ pool = "closed" => main \in {"telemetry", "exited"}
    /\ pool = "closed" \/ main \in {"close", "telemetry"} =>
           \A s \in Servers : server[s] \in {"none", "stopped"}

IInv == TypeOK /\ CfgInv /\ ServerInv /\ DrainInv /\ PoolInv /\ ExportersMatchConfig

-----------------------------------------------------------------------------
(* Lemmas. *)

\* Neither the default of the local exporter nor OTEL_TYPE changes what is
\* bound, and without OTEL_TYPE the translation changes nothing that counts.
LEMMA Defaults ==
  ASSUME NEW t, NEW c \in Config(t)
  PROVE  /\ apply_otel_local_default(c) \in Config(t)
         /\ validate(c) => validate(apply_otel_local_default(c))
         /\ bind_external_port(apply_otel_local_default(c)) = bind_external_port(c)
BY Zenon DEF Config, apply_otel_local_default, validate, bind_external_port

LEMMA Translation ==
  ASSUME NEW t, NEW c \in Config(t)
  PROVE  /\ apply_otel_type_legacy(c) \in Config(t)
         /\ validate(c) /\ c.otel_type = None => validate(apply_otel_type_legacy(c))
         /\ bind_external_port(apply_otel_type_legacy(c)) = bind_external_port(c)
BY Zenon, ConfigsAssumption DEF Config, apply_otel_type_legacy, validate, bind_external_port

LEMMA HasType ==
  ASSUME NEW t, NEW c \in Config(t)
  PROVE  c.otel_type = t
BY Zenon DEF Config

\* An exit keeps the invariant.
LEMMA ExitInv ==
  ASSUME IInv, NEW code \in {0, 1, 70, 78, 143}, ExitWith(code),
         cfg' \in Config(cfg'.otel_type), bind_external_port(cfg') = bind_external_port(cfg),
         tracer_provider' \in {"noop", "sdk"},
         UNCHANGED <<drain, shutdown, pool, health>>
  PROVE  IInv'
<1>i. TypeOK /\ CfgInv /\ ServerInv /\ DrainInv /\ PoolInv
  BY Zenon DEF IInv
<1>s. \A s \in Servers : server'[s] \in {"none", "stopped"} /\ (server[s] = "none" => server'[s] = "none")
  BY Zenon DEF ExitWith
<1>1. TypeOK'
  <2>1. 0 \in 0..MaxInFlight
    BY InFlightAssumption
  <2>2. /\ server' \in [Servers -> {"none", "binding", "serving", "stopping", "stopped"}]
        /\ inflight' \in [Servers -> 0..MaxInFlight]
        /\ watches' \in [GrpcServers -> 0..MaxInFlight]
        /\ main' = "exited" /\ exit_code' = code
    BY Zenon, <2>1 DEF ExitWith
  <2>3. exporter' \in [Exporters -> {"off", "failed", "running", "aborted"}]
    BY <1>i DEF ExitWith, TypeOK
  <2>4. QED
    BY Zenon, <1>i, <2>2, <2>3 DEF TypeOK
<1>2. CfgInv' /\ ExportersMatchConfig'
  BY Zenon DEF CfgInv, ExportersMatchConfig, ExitWith
<1>3. ServerInv'
  BY Zenon, <1>i, <1>s DEF ServerInv, ExitWith, Servers, GrpcServers, bind_external_port
<1>4. DrainInv'
  BY Zenon, <1>i, <1>s DEF DrainInv, ExitWith, bind_external_port
<1>5. PoolInv'
  BY Zenon, <1>i, <1>s DEF PoolInv, ExitWith
<1>6. QED
  BY Zenon, <1>1, <1>2, <1>3, <1>4, <1>5 DEF IInv

-----------------------------------------------------------------------------
(* The invariant holds initially and every action preserves it. *)

LEMMA InitInv == Init => IInv
<1> SUFFICES ASSUME Init PROVE IInv
  BY Zenon
<1>1. TypeOK
  <2>1. 0 \in 0..MaxInFlight
    BY InFlightAssumption
  <2>2. QED
    BY Zenon, <2>1 DEF Init, TypeOK
<1>2. CfgInv /\ ServerInv /\ DrainInv /\ PoolInv /\ ExportersMatchConfig
  BY Zenon, ConfigsAssumption
     DEF Init, CfgInv, ServerInv, DrainInv, PoolInv, ExportersMatchConfig, Servers, GrpcServers
<1>3. QED
  BY Zenon, <1>1, <1>2 DEF IInv

\* Validation, the translation of OTEL_TYPE and the telemetry.
LEMMA ConfigureInv ==
  ASSUME IInv, Validate \/ Legacy
  PROVE  IInv'
<1>i. TypeOK /\ CfgInv /\ ServerInv /\ DrainInv /\ PoolInv
  BY Zenon DEF IInv
<1>u. UNCHANGED <<exit_code, drain, shutdown, pool, server, health, inflight, watches>>
  BY Zenon DEF Validate, Legacy, serverVars
<1>m. main \in {"validate", "legacy"} /\ main' \in {"legacy", "pool"}
  BY Zenon DEF Validate, Legacy
<1>c. /\ cfg' \in Config(cfg'.otel_type) /\ validate(cfg')
      /\ bind_external_port(cfg') = bind_external_port(cfg)
  <2>1. CASE Validate
    <3>1. cfg' = apply_otel_local_default(cfg) /\ validate(cfg)
      BY Zenon, <2>1 DEF Validate
    <3>2. cfg' \in Config(cfg.otel_type)
      BY Zenon, <1>i, <3>1, Defaults DEF CfgInv
    <3>3. cfg'.otel_type = cfg.otel_type
      BY Zenon, <3>2, HasType
    <3>4. QED
      BY Zenon, <1>i, <3>1, <3>2, <3>3, Defaults DEF CfgInv
  <2>2. CASE Legacy
    <3>1. /\ cfg' = apply_otel_type_legacy(cfg) /\ validate(cfg)
          /\ cfg.otel_type # None => validate(cfg')
      BY Zenon, <1>i, <2>2 DEF Legacy, CfgInv
    <3>2. cfg' \in Config(cfg.otel_type)
      BY Zenon, <1>i, <3>1, Translation DEF CfgInv
    <3>3. cfg'.otel_type = cfg.otel_type
      BY Zenon, <3>2, HasType
    <3>4. QED
      BY Zenon, <1>i, <3>1, <3>2, <3>3, Translation DEF CfgInv
  <2>3. QED
    BY Zenon, <2>1, <2>2
<1>e. /\ exporter' \in [Exporters -> {"off", "failed", "running", "aborted"}]
      /\ tracer_provider' \in {"noop", "sdk"}
      /\ ExportersMatchConfig'
  <2>1. CASE Validate
    BY Zenon, <1>i, <2>1 DEF Validate, TypeOK, ExportersMatchConfig, otelVars
  <2>2. CASE Legacy
    <3>1. PICK failed \in SUBSET {"grafana", "langfuse"} : init_telemetry(cfg', failed)
      BY Zenon, <2>2 DEF Legacy
    <3>2. QED
      BY Zenon, <3>1 DEF init_telemetry, ExportersMatchConfig, Exporters
  <2>3. QED
    BY Zenon, <2>1, <2>2
<1>1. TypeOK'
  BY Zenon, <1>i, <1>u, <1>m, <1>e DEF TypeOK
<1>2. CfgInv'
  BY Zenon, <1>c DEF CfgInv
<1>3. ServerInv'
  BY Zenon, <1>i, <1>u, <1>m, <1>c DEF ServerInv, Servers
<1>4. DrainInv'
  BY Zenon, <1>i, <1>u, <1>m, <1>c DEF DrainInv
<1>5. PoolInv'
  BY Zenon, <1>i, <1>u, <1>m DEF PoolInv
<1>6. QED
  BY Zenon, <1>e, <1>1, <1>2, <1>3, <1>4, <1>5 DEF IInv

\* The ways to exit.
LEMMA ExitsInv ==
  ASSUME IInv, Invalid \/ MetricsFail \/ InvalidLegacy \/ OpenPoolFails \/ Killed \/ Return
  PROVE  IInv'
<1>i. TypeOK /\ CfgInv
  BY Zenon DEF IInv
<1>1. CASE InvalidLegacy \/ MetricsFail
  <2>1. cfg' \in Config(cfg.otel_type) /\ bind_external_port(cfg') = bind_external_port(cfg)
    BY Zenon, <1>i, <1>1, Translation DEF InvalidLegacy, MetricsFail, CfgInv
  <2>2. cfg'.otel_type = cfg.otel_type
    BY Zenon, <2>1, HasType
  <2>3. QED
    BY Zenon, <1>i, <1>1, <2>1, <2>2, ExitInv DEF InvalidLegacy, MetricsFail, TypeOK
<1>2. CASE Invalid \/ OpenPoolFails \/ Killed
  <2>1. PICK code \in {1, 70, 78, 143} : ExitWith(code)
    BY <1>2 DEF Invalid, OpenPoolFails, Killed
  <2>2. UNCHANGED <<cfg, drain, shutdown, pool, tracer_provider, health>>
    BY Zenon, <1>2 DEF Invalid, OpenPoolFails, Killed
  <2>3. /\ cfg' \in Config(cfg'.otel_type)
        /\ tracer_provider' \in {"noop", "sdk"}
    BY Zenon, <1>i, <2>2 DEF CfgInv, TypeOK
  <2>4. QED
    BY <2>1, <2>2, <2>3, ExitInv
<1>3. CASE Return
  BY Zenon, <1>i, <1>3, ExitInv DEF Return, shutdown_telemetry, CfgInv
<1>4. QED
  BY Zenon, <1>1, <1>2, <1>3

\* The steps of main that spawn servers.
LEMMA SpawnInv ==
  ASSUME IInv, SpawnGrpc \/ SpawnHttp
  PROVE  IInv'
<1>i. TypeOK /\ CfgInv /\ ServerInv /\ DrainInv /\ PoolInv /\ ExportersMatchConfig
  BY Zenon DEF IInv
<1>u. UNCHANGED <<cfg, exit_code, drain, shutdown, pool, exporter, tracer_provider, inflight, watches>>
  BY Zenon DEF SpawnGrpc, SpawnHttp, otelVars
<1>m. main \in {"grpc", "http"} /\ main' \in {"http", "wait"} /\ ~shutdown /\ pool # "closed"
      /\ validate(cfg)
  BY Zenon, <1>i DEF SpawnGrpc, SpawnHttp, DrainInv, PoolInv, CfgInv
<1>1. CASE SpawnGrpc
  <2>1. /\ main = "grpc" /\ main' = "http"
        /\ \A s \in Servers :
               server'[s] = IF s = "internal" \/ (s = "external" /\ bind_external_port(cfg))
                            THEN "binding" ELSE "none"
        /\ server' \in [Servers -> {"none", "binding"}]
        /\ health' \in [GrpcServers -> {"unset", "Serving", "NotServing"}]
        /\ ~bind_external_port(cfg) => health'["external"] = health["external"]
    BY Zenon, <1>i, <1>1 DEF SpawnGrpc, ServerInv, TypeOK, Servers, GrpcServers
  <2>2. TypeOK'
    BY <1>i, <1>u, <2>1 DEF TypeOK
  <2>3. ServerInv'
    BY Zenon, <1>i, <1>u, <1>m, <2>1 DEF ServerInv, Servers, GrpcServers
  <2>4. DrainInv' /\ PoolInv'
    BY Zenon, <1>i, <1>u, <1>m, <2>1 DEF DrainInv, PoolInv, Servers
  <2>5. CfgInv' /\ ExportersMatchConfig'
    BY Zenon, <1>i, <1>u, <1>m, <2>1 DEF CfgInv, ExportersMatchConfig
  <2>6. QED
    BY Zenon, <2>2, <2>3, <2>4, <2>5 DEF IInv
<1>2. CASE SpawnHttp
  <2>1. /\ main = "http" /\ main' = "wait" /\ health' = health
        /\ server' = [server EXCEPT !["http"] = "binding"]
    BY Zenon, <1>2 DEF SpawnHttp
  <2>2. TypeOK'
    BY Zenon, <1>i, <1>u, <2>1 DEF TypeOK, Servers
  <2>3. ServerInv'
    BY Zenon, <1>i, <1>u, <1>m, <2>1 DEF ServerInv, TypeOK, Servers, GrpcServers
  <2>4. DrainInv' /\ PoolInv'
    BY Zenon, <1>i, <1>u, <1>m, <2>1 DEF DrainInv, PoolInv, TypeOK, Servers
  <2>5. CfgInv' /\ ExportersMatchConfig'
    BY Zenon, <1>i, <1>u, <1>m, <2>1 DEF CfgInv, ExportersMatchConfig
  <2>6. QED
    BY Zenon, <2>2, <2>3, <2>4, <2>5 DEF IInv
<1>3. QED
  BY Zenon, <1>1, <1>2

\* The steps of main that leave the servers alone.
LEMMA MainInv ==
  ASSUME IInv,
         \/ OpenPool \/ WaitForSignal \/ Drain \/ InternalNotServing \/ ExternalNotServing
         \/ SendShutdown \/ AwaitServers \/ ClosePool
  PROVE  IInv'
<1> USE DEF OpenPool, WaitForSignal, Drain, InternalNotServing, ExternalNotServing, SendShutdown,
            AwaitServers, ClosePool, serverVars, otelVars
<1>i. TypeOK /\ CfgInv /\ ServerInv /\ DrainInv /\ PoolInv /\ ExportersMatchConfig
  BY Zenon DEF IInv
<1>u. UNCHANGED <<cfg, exit_code, exporter, tracer_provider, server, inflight, watches>>
  BY Zenon
<1>m. /\ main \notin {"validate", "legacy", "grpc", "http", "exited"}
      /\ main' \notin {"validate", "legacy", "pool", "http", "exited"}
      /\ main' = "grpc" => main = "pool"
  BY Zenon
<1>1. TypeOK'
  <2>1. health' \in [GrpcServers -> {"unset", "Serving", "NotServing"}]
    <3>1. \/ health' = health
          \/ \E s \in GrpcServers : health' = [health EXCEPT ![s] = "NotServing"]
      BY Zenon DEF GrpcServers
    <3>2. health \in [GrpcServers -> {"unset", "Serving", "NotServing"}]
      BY Zenon, <1>i DEF TypeOK
    <3> HIDE DEF OpenPool, WaitForSignal, Drain, InternalNotServing, ExternalNotServing,
                 SendShutdown, AwaitServers, ClosePool, serverVars, otelVars
    <3>3. QED
      BY Zenon, <3>1, <3>2
  <2>2. drain' \in BOOLEAN /\ shutdown' \in BOOLEAN /\ pool' \in {"none", "open", "closed"}
    BY Zenon, <1>i DEF TypeOK
  <2>3. main' \in {"grpc", "drain", "internal not serving", "external not serving", "shutdown",
                   "await", "close", "telemetry"}
    BY Zenon
  <2>4. QED
    BY Zenon, <1>i, <1>u, <2>1, <2>2, <2>3 DEF TypeOK
<1>2. CfgInv' /\ ServerInv' /\ ExportersMatchConfig'
  BY Zenon, <1>i, <1>u, <1>m DEF CfgInv, ServerInv, ExportersMatchConfig
<1>3. DrainInv'
  <2>1. CASE OpenPool \/ WaitForSignal \/ Drain \/ SendShutdown \/ AwaitServers \/ ClosePool
    <3>1. CASE OpenPool
      BY Zenon, <1>i, <1>u, <3>1 DEF DrainInv
    <3>2. CASE WaitForSignal
      BY Zenon, <1>i, <1>u, <3>2 DEF DrainInv
    <3>3. CASE Drain
      BY Zenon, <1>i, <1>u, <3>3 DEF DrainInv
    <3>4. CASE SendShutdown
      BY Zenon, <1>i, <1>u, <3>4 DEF DrainInv
    <3>5. CASE AwaitServers
      BY Zenon, <1>i, <1>u, <3>5 DEF DrainInv
    <3>6. CASE ClosePool
      BY Zenon, <1>i, <1>u, <3>6 DEF DrainInv
    <3>7. QED
      BY Zenon, <2>1, <3>1, <3>2, <3>3, <3>4, <3>5, <3>6
  <2>2. CASE InternalNotServing
    <3>1. health'["internal"] = "NotServing" /\ health'["external"] = health["external"]
      BY Zenon, <1>i, <2>2 DEF TypeOK, GrpcServers
    <3>2. QED
      BY Zenon, <1>i, <1>u, <2>2, <3>1 DEF DrainInv
  <2>3. CASE ExternalNotServing
    <3>1. health'["external"] = "NotServing" /\ health'["internal"] = health["internal"]
      BY Zenon, <1>i, <2>3 DEF TypeOK, GrpcServers
    <3>2. QED
      BY Zenon, <1>i, <1>u, <2>3, <3>1 DEF DrainInv
  <2>4. QED
    BY Zenon, <2>1, <2>2, <2>3
<1>4. PoolInv'
  BY Zenon, <1>i, <1>u DEF PoolInv, ServerInv
<1>5. QED
  BY Zenon, <1>1, <1>2, <1>3, <1>4 DEF IInv

\* The tasks of the servers.
LEMMA TaskInv ==
  ASSUME IInv, NEW s \in Servers, TaskStep(s)
  PROVE  IInv'
<1>i. TypeOK /\ CfgInv /\ ServerInv /\ DrainInv /\ PoolInv /\ ExportersMatchConfig
  BY Zenon DEF IInv
<1>u. UNCHANGED <<cfg, main, exit_code, drain, shutdown, pool, exporter, tracer_provider,
                  health, inflight, watches>>
  BY Zenon DEF TaskStep, Bind, BindFails, StopAccepting, Stopped, mainVars, otelVars
<1>n. PICK n \in {"serving", "stopping", "stopped"} :
        /\ server' = [server EXCEPT ![s] = n]
        /\ server[s] \in {"binding", "serving", "stopping"}
        /\ n = "stopping" => shutdown
        /\ n = "stopped" => inflight[s] = 0 /\ (s \in GrpcServers => watches[s] = 0)
  BY Zenon, <1>i DEF TaskStep, Bind, BindFails, StopAccepting, Stopped, ServerInv
<1>t. server \in [Servers -> {"none", "binding", "serving", "stopping", "stopped"}]
  BY Zenon, <1>i DEF TypeOK
<1>s. \A r \in Servers : server'[r] = IF r = s THEN n ELSE server[r]
  BY Zenon, <1>n, <1>t
<1>1. TypeOK'
  <2>1. server' \in [Servers -> {"none", "binding", "serving", "stopping", "stopped"}]
    BY Zenon, <1>n, <1>t
  <2> QED  BY Zenon, <1>i, <1>u, <2>1 DEF TypeOK
<1>2. CfgInv' /\ ExportersMatchConfig'
  BY Zenon, <1>i, <1>u DEF CfgInv, ExportersMatchConfig
<1>3. ServerInv'
  BY Zenon, <1>i, <1>u, <1>n, <1>s DEF ServerInv, Servers, GrpcServers
<1>4. DrainInv'
  BY Zenon, <1>i, <1>u, <1>n, <1>s DEF DrainInv
<1>5. PoolInv'
  BY Zenon, <1>i, <1>u, <1>n, <1>s DEF PoolInv
<1>6. QED
  BY Zenon, <1>1, <1>2, <1>3, <1>4, <1>5 DEF IInv

\* Requests.
LEMMA RequestInv ==
  ASSUME IInv, NEW s \in Servers, Accept(s) \/ Finish(s)
  PROVE  IInv'
<1>i. TypeOK /\ CfgInv /\ ServerInv /\ DrainInv /\ PoolInv /\ ExportersMatchConfig
  BY Zenon DEF IInv
<1>u. UNCHANGED <<cfg, main, exit_code, drain, shutdown, pool, exporter, tracer_provider,
                  health, server, watches>>
  BY Zenon DEF Accept, Finish, mainVars, otelVars
<1>n. PICK n \in 0..MaxInFlight :
        /\ inflight' = [inflight EXCEPT ![s] = n]
        /\ server[s] \notin {"none", "binding", "stopped"}
  <2>1. inflight[s] \in 0..MaxInFlight /\ MaxInFlight \in Nat
    BY Zenon, <1>i, InFlightAssumption DEF TypeOK
  <2>2. CASE Accept(s)
    <3>1. inflight[s] + 1 \in 0..MaxInFlight /\ inflight' = [inflight EXCEPT ![s] = inflight[s] + 1]
      BY <2>1, <2>2 DEF Accept
    <3>2. server[s] \notin {"none", "binding", "stopped"}
      BY Zenon, <2>2 DEF Accept
    <3>3. QED
      BY Zenon, <3>1, <3>2
  <2>3. CASE Finish(s)
    <3>1. inflight[s] - 1 \in 0..MaxInFlight /\ inflight' = [inflight EXCEPT ![s] = inflight[s] - 1]
      BY <2>1, <2>3 DEF Finish
    <3>2. server[s] \notin {"none", "binding", "stopped"}
      BY <1>i, <2>3 DEF Finish, ServerInv
    <3>3. QED
      BY Zenon, <3>1, <3>2
  <2>4. QED
    BY Zenon, <2>2, <2>3
<1>1. inflight' \in [Servers -> 0..MaxInFlight]
  BY Zenon, <1>i, <1>n DEF TypeOK
<1>2. \A r \in Servers : server[r] \in {"none", "binding", "stopped"} => inflight'[r] = 0
  <2> SUFFICES ASSUME NEW r \in Servers, server[r] \in {"none", "binding", "stopped"}
               PROVE  inflight'[r] = 0
    BY Zenon
  <2>1. r # s
    BY Zenon, <1>n
  <2>2. inflight \in [Servers -> 0..MaxInFlight]
    BY Zenon, <1>i DEF TypeOK
  <2>3. inflight'[r] = inflight[r]
    BY Zenon, <1>n, <2>1, <2>2
  <2>4. inflight[r] = 0
    BY Zenon, <1>i DEF ServerInv
  <2> QED  BY Zenon, <2>3, <2>4
<1>3. TypeOK'
  BY Zenon, <1>i, <1>u, <1>1 DEF TypeOK
<1>4. ServerInv'
  BY Zenon, <1>i, <1>u, <1>2 DEF ServerInv
<1>5. CfgInv' /\ DrainInv' /\ PoolInv' /\ ExportersMatchConfig'
  BY Zenon, <1>i, <1>u DEF CfgInv, DrainInv, PoolInv, ExportersMatchConfig
<1>6. QED
  BY Zenon, <1>3, <1>4, <1>5 DEF IInv

\* Watches of the health service.
LEMMA WatchInv ==
  ASSUME IInv, NEW s \in GrpcServers, OpenWatch(s) \/ CloseWatch(s)
  PROVE  IInv'
<1>i. TypeOK /\ CfgInv /\ ServerInv /\ DrainInv /\ PoolInv /\ ExportersMatchConfig
  BY Zenon DEF IInv
<1>u. UNCHANGED <<cfg, main, exit_code, drain, shutdown, pool, exporter, tracer_provider,
                  health, server, inflight>>
  BY Zenon DEF OpenWatch, CloseWatch, mainVars, otelVars
<1>n. PICK n \in 0..MaxInFlight :
        /\ watches' = [watches EXCEPT ![s] = n]
        /\ server[s] \notin {"none", "binding", "stopped"}
  <2>1. watches[s] \in 0..MaxInFlight /\ MaxInFlight \in Nat
    BY Zenon, <1>i, InFlightAssumption DEF TypeOK
  <2>2. CASE OpenWatch(s)
    <3>1. watches[s] + 1 \in 0..MaxInFlight /\ watches' = [watches EXCEPT ![s] = watches[s] + 1]
      BY <2>1, <2>2 DEF OpenWatch
    <3>2. server[s] \notin {"none", "binding", "stopped"}
      BY Zenon, <2>2 DEF OpenWatch
    <3>3. QED
      BY Zenon, <3>1, <3>2
  <2>3. CASE CloseWatch(s)
    <3>1. watches[s] - 1 \in 0..MaxInFlight /\ watches' = [watches EXCEPT ![s] = watches[s] - 1]
      BY <2>1, <2>3 DEF CloseWatch
    <3>2. server[s] \notin {"none", "binding", "stopped"}
      BY <1>i, <2>3 DEF CloseWatch, ServerInv
    <3>3. QED
      BY Zenon, <3>1, <3>2
  <2>4. QED
    BY Zenon, <2>2, <2>3
<1>1. watches' \in [GrpcServers -> 0..MaxInFlight]
  BY Zenon, <1>i, <1>n DEF TypeOK
<1>2. \A r \in GrpcServers : server[r] \in {"none", "binding", "stopped"} => watches'[r] = 0
  <2> SUFFICES ASSUME NEW r \in GrpcServers, server[r] \in {"none", "binding", "stopped"}
               PROVE  watches'[r] = 0
    BY Zenon
  <2>1. r # s
    BY Zenon, <1>n
  <2>2. watches \in [GrpcServers -> 0..MaxInFlight]
    BY Zenon, <1>i DEF TypeOK
  <2>3. watches'[r] = watches[r]
    BY Zenon, <1>n, <2>1, <2>2
  <2>4. watches[r] = 0
    BY Zenon, <1>i DEF ServerInv
  <2> QED  BY Zenon, <2>3, <2>4
<1>3. TypeOK'
  BY Zenon, <1>i, <1>u, <1>1 DEF TypeOK
<1>4. ServerInv'
  BY Zenon, <1>i, <1>u, <1>2 DEF ServerInv
<1>5. CfgInv' /\ DrainInv' /\ PoolInv' /\ ExportersMatchConfig'
  BY Zenon, <1>i, <1>u DEF CfgInv, DrainInv, PoolInv, ExportersMatchConfig
<1>6. QED
  BY Zenon, <1>3, <1>4, <1>5 DEF IInv

LEMMA NextInv == IInv /\ [Next]_vars => IInv'
<1> SUFFICES ASSUME IInv, [Next]_vars PROVE IInv'
  BY Zenon
<1>1. CASE UNCHANGED vars
  <2>1. UNCHANGED <<cfg, main, exit_code, drain, shutdown, pool, exporter, tracer_provider,
                    server, health, inflight, watches>>
    BY Zenon, <1>1 DEF vars, mainVars, otelVars, serverVars
  <2>2. TypeOK'
    BY Zenon, <2>1 DEF IInv, TypeOK
  <2>3. CfgInv' /\ ServerInv' /\ DrainInv' /\ PoolInv' /\ ExportersMatchConfig'
    BY Zenon, <2>1 DEF IInv, CfgInv, ServerInv, DrainInv, PoolInv, ExportersMatchConfig
  <2>4. QED
    BY Zenon, <2>2, <2>3 DEF IInv
<1>2. CASE MainStep \/ Killed \/ WaitForSignal
  BY Zenon, <1>2, ConfigureInv, ExitsInv, SpawnInv, MainInv DEF MainStep
<1>3. CASE \E s \in Servers : TaskStep(s)
  BY Zenon, <1>3, TaskInv
<1>4. CASE \/ \E s \in Servers : Accept(s) \/ Finish(s)
           \/ \E s \in GrpcServers : OpenWatch(s) \/ CloseWatch(s)
  BY Zenon, <1>4, RequestInv, WatchInv
<1>5. QED
  BY Zenon, <1>1, <1>2, <1>3, <1>4 DEF Next

-----------------------------------------------------------------------------
(* The theorems. *)

\* IInv is an invariant of every instance of Lifecycle.
THEOREM Invariance == Spec => []IInv
<1>1. Init => IInv
  BY Zenon, InitInv
<1>2. IInv /\ [Next]_vars => IInv'
  BY Zenon, NextInv
<1>3. QED
  BY <1>1, <1>2, PTL DEF Spec

\* Type correctness; the process exits with a code it documents.
THEOREM TypeCorrect == Spec => []TypeOK
<1>1. IInv => TypeOK
  BY DEF IInv
<1> QED  BY <1>1, Invariance, PTL

\* The configuration that runs is valid, and its exporters are those set up.
THEOREM Validated == Spec => []RunsAsConfigured
<1>1. IInv => RunsAsConfigured
  BY Zenon DEF IInv, CfgInv, RunsValidated, RunsAsConfigured
<1>2. QED
  BY <1>1, Invariance, PTL

\* In production the stub registry never serves external requests.
THEOREM NoStub == Spec => []NoStubInProduction
<1>1. IInv => NoStubInProduction
  BY Zenon DEF IInv, ServerInv, NoStubInProduction, validate, bind_external_port
<1>2. QED
  BY <1>1, Invariance, PTL

\* A server stops accepting only when draining has been announced everywhere.
THEOREM DrainsFirst == Spec => []DrainPrecedesStop
<1>1. IInv => DrainPrecedesStop
  BY Zenon DEF IInv, DrainInv, DrainPrecedesStop, GrpcServers
<1>2. QED
  BY <1>1, Invariance, PTL

\* The pool outlives every request.
THEOREM PoolLast == Spec => []PoolOutlivesRequests
<1>1. IInv => PoolOutlivesRequests
  BY Zenon DEF IInv, PoolInv, ServerInv, PoolOutlivesRequests, Servers, GrpcServers
<1>2. QED
  BY <1>1, Invariance, PTL
-----------------------------------------------------------------------------
(* The stop. *)

\* What main has done before each step of the stop.
StopInv ==
    /\ main # "exited" => exit_code = 0
    /\ main \in {"internal not serving", "external not serving", "shutdown", "await", "close",
                 "telemetry"} => drain
    /\ main \in {"await", "close", "telemetry"} => shutdown
    /\ main = "telemetry" => pool = "closed"
    /\ CleanExit

LEMMA StopNext == IInv /\ StopInv /\ [Next]_vars => StopInv'
<1> SUFFICES ASSUME IInv, StopInv, [Next]_vars PROVE StopInv'
  BY Zenon
<1>1. CASE Validate \/ Legacy \/ OpenPool \/ SpawnGrpc \/ SpawnHttp \/ WaitForSignal
  <2>1. /\ main # "exited" /\ UNCHANGED exit_code
        /\ main' \in {"legacy", "pool", "grpc", "http", "wait", "drain"}
    BY Zenon, <1>1 DEF Validate, Legacy, OpenPool, SpawnGrpc, SpawnHttp, WaitForSignal
  <2>2. QED
    BY Zenon, <2>1 DEF StopInv, CleanExit
<1>2. CASE \/ Drain \/ InternalNotServing \/ ExternalNotServing \/ SendShutdown
           \/ AwaitServers \/ ClosePool
  BY Zenon, <1>2 DEF StopInv, CleanExit, Drain, InternalNotServing, ExternalNotServing,
                     SendShutdown, AwaitServers, ClosePool
<1>3. CASE Invalid \/ MetricsFail \/ InvalidLegacy \/ OpenPoolFails \/ Killed
  <2>1. main' = "exited" /\ exit_code' # 0
    BY <1>3 DEF Invalid, MetricsFail, InvalidLegacy, OpenPoolFails, Killed, ExitWith
  <2>2. QED
    BY Zenon, <2>1 DEF StopInv, CleanExit
<1>4. CASE Return
  <2>1. /\ main = "telemetry" /\ main' = "exited" /\ UNCHANGED <<drain, shutdown, pool>>
        /\ tracer_provider' = "noop"
    BY Zenon, <1>4 DEF Return, ExitWith, shutdown_telemetry
  <2>2. QED
    BY Zenon, <2>1 DEF StopInv, CleanExit
<1>5. CASE UNCHANGED <<main, exit_code, drain, shutdown, pool, tracer_provider>>
  BY Zenon, <1>5 DEF StopInv, CleanExit
<1>6. QED
  BY Zenon, <1>1, <1>2, <1>3, <1>4, <1>5
     DEF Next, MainStep, TaskStep, Bind, BindFails, StopAccepting, Stopped, Accept, Finish,
         OpenWatch, CloseWatch, vars, mainVars, otelVars

\* Exit code 0 means an orderly stop, whatever came before it.
THEOREM ExitIsClean == Spec => []CleanExit
<1>1. Init => StopInv
  BY Zenon DEF Init, StopInv, CleanExit
<1>2. StopInv => CleanExit
  BY Zenon DEF StopInv
<1>3. QED
  BY <1>1, <1>2, StopNext, Invariance, PTL DEF Spec

\* A stop that has begun ends in no other way than with exit code 0, and cuts
\* off nothing that a server has accepted.
THEOREM Graceful == Spec => StopIsGraceful
<1> DEFINE Out == main \in StopSteps /\ main' \notin StopSteps
<1>1. ASSUME IInv, Next, Out
      PROVE  main' = "exited" /\ exit_code' = 0 /\ NothingInFlight
  <2>1. Return
    BY Zenon, <1>1 DEF StopSteps, Next, MainStep, Validate, Invalid, Legacy, MetricsFail,
       InvalidLegacy, OpenPool, OpenPoolFails, SpawnGrpc, SpawnHttp, Killed, WaitForSignal, Drain,
       InternalNotServing, ExternalNotServing, SendShutdown, AwaitServers, ClosePool,
       TaskStep, Bind, BindFails, StopAccepting, Stopped, Accept, Finish, OpenWatch, CloseWatch,
       mainVars
  <2>2. main = "telemetry" /\ main' = "exited" /\ exit_code' = 0
    BY Zenon, <2>1 DEF Return, ExitWith
  <2>3. \A s \in Servers : server[s] \in {"none", "stopped"}
    BY Zenon, <1>1, <2>2 DEF IInv, PoolInv
  <2>4. NothingInFlight
    BY Zenon, <1>1, <2>3 DEF NothingInFlight, IInv, ServerInv, Servers, GrpcServers
  <2>5. QED
    BY Zenon, <2>2, <2>4
<1>2. IInv /\ [Next]_vars =>
          [(main \in StopSteps /\ main' \notin StopSteps) =>
              main' = "exited" /\ exit_code' = 0 /\ NothingInFlight]_vars
  BY Zenon, <1>1
<1>3. QED
  BY <1>2, Invariance, PTL DEF Spec, StopIsGraceful
=============================================================================
