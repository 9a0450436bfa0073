# A TLA+ verification of the ReVoCall Engagement Hub

This directory holds TLA+ models of the Engagement Hub (Rust; `tokio`, `tonic`,
`sqlx`, PostgreSQL), the TLC configurations that check them on small instances,
and TLAPS proofs of the main results for every instance. `PROJECT.json` is the
index: components, runs, mutants, the map from definitions to source lines,
findings, hazards and theorems. Paths below are relative to `src/`; `hub/` is
`crates/engagement-hub/src/`, `adapters/` is `crates/engagement-hub-adapters/src/`
and `ports/` is `crates/engagement-hub-ports/src/`.

    tlc -workers 2 -config MCAdapterCall_calls.cfg MCAdapterCall
    tlapm AdapterCallProofs.tla

## 1. The system and its parts

At this commit the hub is a set of finished primitives in a process that starts
and stops; no business RPC is wired yet. What follows is the inventory: state,
operations, what a part interacts with, what makes it hard, what it owes.

| Part | State | Operations | Hard | Owes |
|---|---|---|---|---|
| Retry policy and adapters (`adapters/policies.rs`, `*_grpc.rs`, `*_http.rs`) | per call: attempt, backoff, deadline, request id; shared counters | `with_retry` around 31 methods of six adapters | lost and late requests, retries of what already happened, deadlines, panics | at most one effect, no false success, no early surrender |
| Span processor (`hub/telemetry/processor.rs`) | bounded channel, batch, export in progress, oneshot, join handle | `on_end`, background task, `shutdown` | threads inside `try_send`, hanging exporter, two shutdown callers, timeouts | spans exported or counted; shutdown waits, and returns |
| Fanout (`hub/notify.rs`, notify trigger) | registry of senders, LISTEN connection, metrics | subscribe, `gap_fill`, `run`, `handle_notification` | connection loss, slow and vanished subscribers, shutdown in any wait | no silent loss, order, reconnection |
| Idempotency and audit (`hub/idempotency.rs`, `hub/audit.rs`) | rows of `engagements` and `engagement_audit` | `check`, `phase1_insert`, `phase2_finalize` | concurrent duplicates, lost confirmations, rollbacks, crashes | one engagement per request id, truthful audit |
| Process (`hub/main.rs`, `config.rs`, `db.rs`, `shutdown.rs`, `server/*`) | configuration, two watch channels, servers, pool, telemetry | start, serve, drain, stop | signal at any time, servers that fail to bind, requests in flight | runs validated, drains first, exits |
| Local trace exporter (`hub/telemetry/local_exporter.rs`) | open file, date, sizes, drop counter | rotate, write, purge at start | cap and retention over days, clock changes, failed and broken-off writes, restarts | bounded files, one per day, old ones purged, spans written or counted |
| Event sequence (`tests/advisory_lock.rs`, schema) | `engagement_events`, advisory lock, `event_pk` | allocate, insert, commit | concurrent writers, colliding lock keys, rollbacks | sequences 1, 2, ... in commit order |
| Fakes (`ports/fake/*`) | one queue of outcomes per method behind one Mutex | push, the methods of five ports | clones in several tasks, panics under the lock | outcomes in order, each once |
| Registry stub, saga labels, OTLP encoding, metric registry, Go client, protobuf | little or none | pure functions | | |

Interactions: main spawns the fanout manager and the servers and tells both to
stop through one watch channel; adapters, span processor, fanout and audit
writer share the Prometheus registry; the fanout reads what the trigger on
`engagement_events` sends; handlers (not written yet) are to use idempotency,
audit and adapters in that order.

## 2. Modules

| Module | What it models |
|---|---|
| `RetryPolicy` | constants and pure functions: retry configurations, deadline arithmetic, error classification, the table of adapter methods |
| `AdapterCall` | `with_retry` with concurrent calls, network and downstream; extends `RetryPolicy` |
| `RemoteCall` | abstract: what a call promises its caller |
| `SpanProcessor` | `CountingSpanProcessor` with asynchronous and blocking exporters |
| `TraceFiles` | `JsonlFileExporter` and its files over days and restarts |
| `ListenNotify` | `ListenNotifyManager` with PostgreSQL and subscribers |
| `EventDelivery` | composition: transactions that write events, and `ListenNotify`, which it extends |
| `StartEngagement` | idempotency check and audit writer in the documented flow |
| `StartPromise` | abstract: AIP-155 as a client sees it |
| `Lifecycle` | the process from start to exit, with its servers and exporters |
| `FakePorts` | the five fake adapters |
| `AdapterCallProofs`, `SpanProcessorProofs`, `TraceFilesProofs`, `ListenNotifyProofs`, `EventDeliveryProofs`, `StartEngagementProofs`, `LifecycleProofs`, `FakePortsProofs` | theorems |
| `MC*` | instances for TLC |

Definitions introduced by `\* A bug:` are not part of a specification. Each is a
plausible mistake in the definition that follows it and is there to show that a
property would notice: `PROJECT.json` pairs every property of every passing run
with one of them.

### AdapterCall

A call is `idle`, about to make an `attempt`, in `await`, in `sleep` or `done`.
`Begin`, `Send`, `Wake` and the four `Attempt...` actions are `with_retry`;
`Settle` is the part of its loop body that follows an attempt: return, refuse at
the deadline gate, or sleep. `Serve` and `Lose` are the network and the
downstream: a request may be lost, arrive after its attempt was given up, or be
acted on although an error is answered. What a request does downstream is part
of the method: nothing, once per request id, move to a state, or something each
time (a Graceful stop). That downstream services honour request ids is assumed;
the documentation of the adapters demands it of them (T1-04).

Durations are in ticks of 50 ms. No adapter passes a deadline at this commit;
`with_retry` and `DeadlineContext` are modelled with deadlines all the same.

### SpanProcessor

Spans are interchangeable, so buffers are numbers. `try_send` is two steps, as
in tokio: a permit, then the slot. Time is in seconds and passes only while an
export or a shutdown waits. `lost` counts spans that were neither exported nor
added to `engagementhub_otel_exporter_dropped_spans`.

`blocking` tells the local exporter from the others. It writes inside the call
of `export` and returns a ready future, so `EXPORT_TIMEOUT`, which is put around
that future, never ends it; another worker thread is taken to drive the timer of
`shutdown` meanwhile. An export may also panic, which ends the background task
and drops the channel and the batch.

`shutdown` is modelled as it is written, for whoever calls it. `main` is not such
a caller: `shutdown_telemetry` replaces the global tracer provider of
opentelemetry 0.27.1, while the tracer in the global subscriber keeps the
provider, and with it the processors, alive. So `Exit`, the end of the process,
is possible with no call of `shutdown` at all, and what is then buffered is
`lost`.

### TraceFiles

A file is its size and whether its last line is torn; a line is its length. An
export is two steps, since midnight or the end of the process may come between
opening the file and writing to it: `EnsureFile` (or `EnsureFileFails`), then
`AtCap`, `Write` or `WriteFails`. The exporter counts what it refuses at the cap
and reports success; after an error the processor counts, into the same counter.
The size is read with `metadata().ok()` and is 0 when that fails, which
`statFails` bounds. `Start` is the purge and the new exporter of
`init_telemetry`; nothing is purged later.

### ListenNotify

`fanout` holds the registry lock and is one step; `gap_fill` is a SELECT and one
step for each row. What `queued_event_count` adds up is the number of
`QueuedSlots`, pairs of a registered sender and a place in its channel.
`handle_notification` is three steps, with subscribers reading between them:
`fanout` (`HandleNotification`), the count (`CountQueued`) and the gauge
(`SetGauge`). `run` takes the manager by value, so `Subscribe` and `GapSelect` are
possible only before `Run`, although the comment above the struct speaks of
receivers obtained "before or after the task is running".

External is sqlx, in the version of `Cargo.lock` (0.8.6). `recv` and `try_recv`
both wait for a notification, and hand out what has arrived before they notice a
lost connection. Then, for most kinds of loss, `recv` connects and listens again
by itself (`Relisten`), and `try_recv` returns `Ok(None)` (`HealthCheckNone`, which
`run` takes for health), so that the next call connects; `eager_reconnect(false)`
only puts the connecting off. Other losses, and a connect that fails inside sqlx,
are errors (`ConnectionError`), which `run` counts and backs off from. A health
check is therefore a phase of its own, entered by `HealthTick`: `run` waits in
`try_recv`, inside an arm of the `select!`, where it does not look at the shutdown
signal.

Assumed of the writers of `engagement_events`: sequences 1, 2, ... in commit
order, which `EventDelivery` discharges.

### EventDelivery

Writers run `allocate_and_insert_event`: begin, advisory lock, INSERT with
`MAX(sequence) + 1`, COMMIT; a transaction may be rolled back at any point. The
lock key is `hashtext(engagement_id)`, so any set of engagements may share one
(`alike`). A number drawn for `event_pk` is not given back. The commit is the
`CommitRow` of `ListenNotify`, and the refinement is that writers commit only
what that module assumes. `event_pk` follows the order of commits only within an
engagement; nothing in the code orders events of different engagements by it.
The function exists only in a test at this commit; nothing else writes events yet.

### StartEngagement

The check, the canonical JSON and both audit phases are translated from the
code. The handler around them does not exist yet; its steps follow "Flow
(AIP-155)" in `idempotency.rs` and the head of `audit.rs`, and are marked
external in the map. PostgreSQL runs READ COMMITTED, so an INSERT waits for an
open transaction that holds its key. SHA-256 is taken to have no collisions: a
hash is the canonical object. A confirmation may be lost after the COMMIT or
after the UPDATE took place; a crash loses handlers, open transactions and
counters, and keeps the rows. `StartPromise` knows of an engagement that it was
started, by which request, and whether it is over for good; a replay says so. That
an engagement which is over stays so is assumed of the code that moves it on
(`Advance`, external); nothing in the repository does so yet.

### Lifecycle

`main` is one sequence of steps. Servers bind, or fail to, in tasks of their
own; a request is an anonymous unit of `inflight`, a watch of the health service
one of `watches`. `exporter` holds what `init_telemetry` built; `tracer_provider`
is the global provider, which `shutdown_telemetry` replaces without shutting down
any processor (see SpanProcessor). The task of the fanout manager, which `main` spawns and does
not await, is `ListenNotify`; it is not repeated here, since `run` has a
connection of its own and does not touch the pool that `main` closes.

### FakePorts

A behaviour is one of the five fakes. The guard of `lock()` is a temporary of the
`match` on the outcome and lives until its arm has run: `Lock` takes it, `Match`
pops and answers under it, and a panic in between poisons the Mutex.

## 3. Runs

States are distinct states found by TLC. All runs set `CHECK_DEADLOCK FALSE`:
the systems modelled come to rest, when all calls have returned, all bounded
inputs are used up or the process has exited.

| Run | States | Shows |
|---|---|---|
| `adapter_calls` | 174k | all 31 adapter methods with answers of every class in every order, no deadline and deadlines around the first gates: `EffectAtMostOnce`, `RetryableErrorMeansExhausted`, `RetryKeepsFloor`, `MetricsAccountForCalls`, `CallReturns`, and that a call implements `RemoteCall` |
| `spans_drain` | 149k | two shutdown callers and an exporter, asynchronous or blocking, that fails, hangs and panics: `Conservation`, `LossStaysBounded`, `ShutdownWaits`, `ShutdownReturns`, `SpansSettle`, `TypeOK` |
| `trace_files` | 4.9M | four days, a midnight inside an export, a clock set back, a restart in mid-write, failed opens, writes and removals: `SpansAccounted`, `SizeBounded`, `EnvelopePerLine`, `RotatesDaily`, `PurgedAtStart` |
| `notify_fanout` | 2.6M | two subscribers (up to symmetry) of an engagement or its batch, overflowing channels, dropped receivers, connects that fail, and a gap fill, a lost connection or a notification that is no payload: `NoSilentLoss`, `LiveEventsAdvance`, `NoUnannouncedHole`, `GaugeNeverUnderstates` |
| `event_delivery` | 152k | two writers and the manager, two engagements whose lock keys may collide, a lost connection that sqlx or `run` restores, after up to two failures, or a notification that is no payload: `SequencesNeverCollide`, `NoSilentLoss`, `WritersFinish`, that the writers implement what `ListenNotify` assumes, and `EventsReachSubscribers`, `Reconnects`, `ReturnsUnlessWaiting` |
| `starts` | 373k | two handlers, four requests, a crash: `ActOnlyIfAudited`, `AuditIsTruthful`, `PendingIsCounted`, `HandlersAnswer`, and that they implement `StartPromise` |
| `process` | 213k | every setting that `validate` looks at, every `OTEL_TYPE`, exporters that cannot be built, failing binds, health watches, a signal at any time: `RunsAsConfigured` (what runs was validated, and the exporters built are those it enables), `DrainPrecedesStop`, `PoolOutlivesRequests`, `ExitsCleanly` |
| `fakes` | 427k | each fake, two tasks that call it while outcomes are pushed: `ServedInOrder`, `PanicEndsTheFake` |

Four runs check what a comment says and find that the code does otherwise:

| Run | Comment | Code |
|---|---|---|
| `guaranteed_flush` | shutdown is "a guaranteed flush" | an exporter whose exports take 2 s and 3 s, neither timed out, outlasts the 5 s that `shutdown` waits |
| `notify_replay` | "On reconnect the manager replays events from the DB" | nothing is replayed, and a reconnection by sqlx is not even noticed |
| `notify_overflow` | "If the channel is full the subscriber is dropped" | it stays, loses its oldest event and is told that it lagged |
| `notify_stop` | "try_recv() is non-blocking" | it waits, and `run` may not return after the shutdown signal |

More comments were found to say more, or something else, than the code does;
these can be seen in the code at once and have no run:

- `adapters/metrics.rs:19`: `retries_total` is "Retry attempts per adapter target
  and attempt number"; it also counts retries that the deadline gate refuses
  (`MetricsAccountForCalls` states what it counts);
- `adapters/registry_grpc.rs:36`: "ResourceExhausted and Unknown also get one
  retry"; they are retried as the policy of the call says, up to five attempts;
- `hub/notify.rs:71`: "send a keepalive query on the LISTEN connection"; the
  health check sends nothing, so it does not find a connection that is silently
  gone; and there is no "5s try_recv timeout" (`hub/notify.rs:77`, T1-09);
- `hub/notify.rs:236`: `eager_reconnect(false)` "disables transparent
  auto-reconnect so the manager loop can detect failures, increment the reconnect
  metric"; sqlx still reconnects by itself on the next call, uncounted;
- `hub/telemetry/processor.rs:91` and T3-01 ("Shutdown (5s flush) added"):
  `shutdown_telemetry` is said to be `SpanProcessor::shutdown`; it does not reach
  the processors;
- T3-01: "Queue full → oldest spans drop"; `try_send` refuses the newest;
- T3-01: "100MB max per file"; the cap is compared before a write, so the last
  batch may exceed it (`SizeBounded` states by how much);
- `hub/config.rs:181`: "Call after tracing is initialized"; `main` calls
  `apply_otel_type_legacy` before, so that its result takes effect;
- `hub/notify.rs:146`: a non-zero lag "means at least one subscriber is behind";
  the gauge keeps its last value until the next notification is handled. Between
  notifications it errs on this side only: `GaugeNeverUnderstates`;
- `hub/server/grpc.rs:16`: NOT_SERVING "so load-balancers stop routing new
  requests during graceful drain"; `main` tells the servers to stop right after,
  before a load balancer can have probed again.

### Bounds, and why they are enough

- Adapter calls share nothing but the supply of fresh request ids and atomic
  counters, so one call is checked, with two ids to draw from, all 31 methods and
  the attempts of the real policies; answers are one of each class for gRPC and
  for HTTP and those on which the adapters differ. Budgets lie on both sides of
  the gates at 5 and 6 ticks, and include 0. The proofs cover any number of
  concurrent calls and every answer.
- Spans: a capacity of 3, batches of 2 and six spans make the channel overflow,
  the batch fill in the loop and in the drain, and a remainder be left for the
  last export. `EXPORT_TIMEOUT` equals `SHUTDOWN_TIMEOUT`, as in the code.
- Trace files: a cap of 3, lines of up to 2 and four exports reach, meet and
  overshoot the cap; four dates and a retention of one day hold a file that is
  kept, one on the edge and one that is purged; two processes and one step back
  of the clock show what is carried over a restart and a repeated day.
- Fanout: capacity 1 overflows with two events; three events leave a hole
  between two that are read. One fault (a lost connection or a notification that
  is no payload) separates before, between and after; a second adds nothing new to
  the loop, which keeps no state over it. The first connect may fail, and after a
  fault two more failures may be counted, so that a reconnection fails again after
  a loss that was reported. `MaxFaults` includes the gap fills, so a behaviour of
  this run has a gap fill or a fault. Allowing both more than doubles the run; the
  proofs cover it.
- Event delivery: two writers meet at one lock, in one engagement or with
  colliding keys; two transactions make a second number depend on a first, also
  one that was rolled back. The proof covers any number of both. Batches, which
  only the fanout looks at, are left to `notify_fanout`. Here too there is
  one fault, and two failures after it.
- StartEngagement: two handlers are a request and its duplicate, or the retry of
  a request after a crash; the four requests differ in what the hash must ignore
  (metadata), what it must tell apart (contact by id or by phone) and the
  organization. `MAX_ATTEMPTS` is 5 in the code; 3 has a first, a middle and a last
  attempt.
- Lifecycle: settings that `validate` and `init_telemetry` do not look at are
  fixed; one request and one watch on each server are enough to hold a stop up.
- Fakes: two tasks, two pushes and two calls put a panic before, between and
  after a call of the other task. All methods of all five fakes are enumerated.

### Fairness, and why the code justifies it

Weak fairness on the steps of tasks and threads: tokio polls every task that is
ready, and `select!` picks at random among ready branches. Besides:
`CallReturns` assumes that an attempt ends (the transport's business; the
adapters set no timeout); `SpansSettle` assumes nothing of an asynchronous
exporter, since the timeout ends an export, and excludes the blocking one, of
which nothing can be promised; `ShutdownReturns` holds of both; `Reconnects` and
`ReturnsUnlessWaiting` assume that a connect ends and does not fail for ever, the
latter also that no health check waits for ever (`notify_stop` shows that one
may), and `EventsReachSubscribers` that a
subscriber that keeps its receiver reads it; `WritersFinish` assumes strong
fairness of the advisory lock, whose waiters PostgreSQL serves in turn;
`ExitsCleanly` that accepted requests end, and it is stated for runs in which no health watch stays
open for ever, since the graceful stop has no time limit. Nobody has to call
anything: no input, signal, loss, rollback, panic or crash is fair.

## 4. Proofs

Each proof module shows an inductive invariant (initially true, kept by every
action) and derives the theorems from it, for all values of the constants. The
assumptions are the named `ASSUME`s of the modules: bounds and times are
naturals, sizes are positive, `None` is none of the values it stands beside. The
bounds on behaviours (`MaxEvents`, `MaxEnded`, ...) are arbitrary naturals in the
proofs.

Every proof module but `EventDeliveryProofs` also has `TypeCorrect`, the type
invariant of its component. The plainer invariants are proved and not repeated
in a run: all type invariants but that of `SpanProcessor`, whose bounds on the
buffers are a result of their own, and `OkMeansActed`, `RejectionIsFinal`,
`PkFollowsSequence`, `NoGaps`, `NothingMadeUp`, `NoStubInProduction`, `CleanExit` and `StopIsGraceful`.

**AdapterCallProofs**: any set of concurrent calls of any adapter methods, any
deadlines and latencies. `EffectAtMostOnce` alone is not inductive: a request in
transit could act a second time. `IInv` adds

- `CallInv`: the local state of `with_retry`; a sleeping call has an attempt left
  and passed the gate;
- `RequestIdInv`: a request id belongs to one call, and the downstream has seen
  it only if it has acted on that call;
- `RequestInv`: a request in transit carries the id of its call; a call whose
  method acts each time has its one attempt ahead of it, its one request in
  transit, or nothing more to come;
- `EffectInv`: an answer means that the downstream acted, in this attempt or in
  an earlier one.

That a method with effect "always" has one attempt is read off the table of
methods (`MethodsWellFormed`). Theorems: `AtMostOnce`, `OkActed`,
`Exhausted`, `Rejected`, `FloorKept`, `MetricsAgree`, and `Refinement`:
`AdapterCall` implements `RemoteCall`. Methods are assumed to come from the
table. `MetricsAgree` rests on `MetricsInv`, which adds to
`MetricsAccountForCalls` that the sets counted are finite: `Calls` need not be,
but only finitely many have been made. Each step of a call puts that call, and
no other, into at most one set of its target, and increments the counter of that
set. `BoundedWork` is the part of `CallReturns` that does not rest on fairness:
`StepsLeft` is a natural number, at most `3 * max_attempts + 1`; each step of a
call makes it smaller, and no step of another call or of the network changes it.

**SpanProcessorProofs**: any capacity, batch size, timeouts and number of
threads. `IInv` adds `TaskInv` (the drain comes after `close`), `LossInv` (from
the moment that the drain has found the channel empty, what can be lost is what
was inside `try_send`; after a panic, also a channel and a batch) and `WaitInv`
(once the handle is taken somebody waits, or the wait is over). Theorems:
`SpansConserved`, `LossBounded`, `WaitsForTask`.

**TraceFilesProofs**: any cap, retention, line length and history of the clock.
`IInv` adds `OpenInv` (the open file is that of `current_date`, and an export in
progress has had its file open since it began) and `ClockInv` (the clock was
never later than `latest`). Theorems: `Accounted`, `CapKept`, and the action
property `Rotation`. On top of `IInv`, `PurgeInv` bounds the
date of the start and the clock by each other (`started <= latest <= today +
backs`), so that a file opened later is within the retention of the start or
owed to a clock set back; theorem `Purged`. `LineInv` counts the torn files
(finitely many, as dates are); theorem `OnePerLine`.

**ListenNotifyProofs**: any engagements, batches, subscribers and channel
capacity. `NoSilentLoss` needs `PhaseInv` (there is a session, and
there are notifications, only in the inner loop of `run`; gap fills are over when
`run` begins) and `RegistryInv` (a subscriber that keeps its receiver is
in the registry). `LiveEventsAdvance` needs a second invariant, `OrderInv`, about
the whole path of an event: the wire is in the order of commits, what a gap fill
sends is not newer than what has committed, and everything in a subscriber's
hands or channel precedes the wire. Theorems: `NothingLostSilently`,
`Advance`, `HolesAnnounced`.

`HolesAnnounced` (of `NoUnannouncedHole`) takes three more invariants, because
what a subscriber has read says nothing of what is still to come:

- `KindInv`: the wire carries live payloads and a gap fill the rows of its
  engagement; a subscriber is sent only what its key asks for; in a channel live
  payloads come after those of gap fills, and none is sent before `run` begins;
- `CoverInv`: a payload of an engagement, wherever it is, is followed by every
  newer event of the engagement that has committed. The event is further back in
  the same channel, on the wire, in a gap fill, or one that the manager was never
  told of; for what was read, it may have been read too, and a Lagged read later
  or still due is enough. A commit
  keeps this because it puts the new event on the wire or among the lost ones;
- `HoleInv`: `NoUnannouncedHole`, kept by a read: an event older than the one
  read is not behind it, by `OrderInv`, so by `CoverInv` it was delivered,
  announced or never sent.

The steps of an invariant's proof are the actions, one named step for each
(`<1>CommitInv`, `<1>OrderRead`, ...) in `NextInv`, `OrderNext`, `KindNext`,
`CoverNext` and `HoleNext`.

**EventDeliveryProofs**: any number of writers, engagements and collisions.
`DInv` holds `LockInv` (an engagement has one holder of its lock), `RowsInv` and
`InsertedInv` (committed rows end with `db[e]`, a row not yet committed is the
next one) and `CountInv`. Theorems: `NoCollision`, `PkOrdered`, and `Refinement`:
the writers implement the commits that `ListenNotify` assumes. Assumed:
finitely many writers, and no more transactions than `MaxEvents`, so that the
bound of `ListenNotify` is never the reason why a commit cannot happen. The
invariants of `ListenNotifyProofs` rest on `Init /\ [][Next]_vars` only, which is
what `Refinement` establishes. `EndToEnd` draws the conclusion: `NoSilentLoss`,
`LiveEventsAdvance`, `NoUnannouncedHole` and `GaugeNeverUnderstates` hold of the
composition, from `allocate_and_insert_event` to the subscriber. `Gapless`
(committed sequences have no gap, whatever was rolled back) and `Genuine` (what a
subscriber receives has committed and is what it asked for) hold only of the
composition.

This module also proves `GaugeHighEnough`, of `ListenNotify` alone. `GaugeInv`
says that the registry is finite and that no channel holds more than its
capacity, so that the slots can be counted, and that nothing live is queued
before `run` begins (`KindInv`); and that what was counted and not yet written is
no less than what is queued. A subscriber that reads or goes away leaves fewer
slots (`SlotsShrink`), and only the fanout of `handle_notification` adds any, which
its count follows. While a notification is being handled the gauge may be too
low, and the property says nothing.

**StartEngagementProofs**: any number of handlers, requests and crashes. `IInv`
says what a handler knows at each step (`HandlerInv`), that an open transaction
holds a key without a row (`OpenInv`), that engagement and audit row come
together and belong together (`RowInv`, `AuditInv`) and that a terminal replay is
one (`ReplayInv`). The lemma `HashFaithful` shows that two requests hash alike
iff they agree on every field of the allow-list, absent ones included. Theorems:
`Audited`, `Truthful`, `PendingCounted`, and `Idempotent`: the handlers
implement `StartPromise`, where an `Advance` to a terminal status is its `End` and
any other a stutter. `PendingCounted` is about rows that `phase2_finalize` gave up
on; a commit whose confirmation was lost also leaves a PENDING row, which nobody
counts. It needs `CountInv`: the handlers that
gave up are finitely many, although `Handlers` may be infinite. `BoundedWork` is
the part of `HandlersAnswer` that does not rest on fairness. `StepsLeft` is at
most `MAX_ATTEMPTS + 8`, each step of a handler makes it smaller and nothing that
anybody else does makes it larger. A handler that finds its key taken goes from
`insert` back to `check`; it does so once, because rows stay (`RowsStay`) and the
check then finds one. `AttemptInv` bounds the loop of `phase2_finalize`.

**LifecycleProofs**: any set of configurations, any number of requests. `IInv`
adds `CfgInv` (the first validation holds on), `ServerInv` (servers are spawned
once, the external one only where it is bound), `DrainInv` (the order of the
stop) and `PoolInv`. Theorems: `Validated` (of
`RunsAsConfigured`), `NoStub`, `DrainsFirst`, `PoolLast`. `StopInv` adds what main
has done before each step of the stop; with it `ExitIsClean` (exit code 0 means
drained, told to stop, pool closed, global tracer provider replaced) and `Graceful` (a stop that
has begun has no other way out, and cuts off no request and no watch) are the
safety part of `ExitsCleanly`.

**FakePortsProofs**: any tasks and scripts. `IInv` adds `GuardInv` (a poisoned
Mutex gives out no guard) and `PoisonInv` (it is poisoned from the first panic
on). Theorems: `InOrder`, `PanicIsFinal`.

Only model-checked: all liveness, since TLAPS does not do fairness
(`CallReturns`, `ShutdownReturns`, `SpansSettle`, `EventsReachSubscribers`,
`Reconnects`, `ReturnsUnlessWaiting`, `WritersFinish`, `HandlersAnswer`, `ExitsCleanly`), and
the four properties that are violated. `BoundedWork` and `Graceful` take three of
the former as far as safety goes; that a step is taken at all is left to TLC.

## 5. Not modelled

- Conversions between port types, protobuf, JSON and OTLP: pure data; adapters
  keep only whether an answer decodes, trace files only the length of a line.
- Orchestrator, saga, reconciler: not in the code. Nothing sweeps PENDING rows.
- Streams other than health watches: no RPC has one at this commit.
- Load balancers and what they do between two probes.
- Registry stub, saga labels, registration of metrics, protobuf and generated
  code, Go client, `trace-query`: stateless or generated.
- What the SDK, sqlx, tokio and PostgreSQL do inside; what is assumed of them is
  stated in section 2 and at the head of each module.

`PROJECT.json` lists each hazard of the code with the properties that cover it
and, where they cover it only in part, the reason.

## 6. What would come next

1. Composition of `Lifecycle` with the span processors and with the fanout
   manager, which `main` tells to stop but does not await: the order of shutdown
   across them.
2. The handlers, when they are written: their steps replace the external ones of
   `StartEngagement`, and their calls of the adapters are `RemoteCall`.
3. A reconciler for PENDING audit rows, and a replay on reconnection, each of
   which turns a hazard listed here into a liveness property.
