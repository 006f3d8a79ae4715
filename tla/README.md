# A TLA+ model of hook

hook takes webhooks and other inbound events, puts them into Kafka and delivers
them from there to agents and other services. This directory holds TLA+ modules
that model its core, the TLC configurations that check them on small instances,
and proofs, checked by TLAPS, of the properties that matter most. Paths are
relative to the repository; `PROJECT.json` maps every definition that models code
to the lines it stands for.

## The system

```
 senders --HTTP--> [ admission ] --try_send--> [ channel ] --> [ publish worker ] --> Kafka (source topics)
 MCP, websocket, Kafka ingress ----try_send------^                                         |
                                                                                     [ relay ]
                                                                                           |
                                                                              Kafka (core topic)
                                                                                           |
 openclaw / mcp / kafka / websocket <--- [ egress adapters ] <--- [ smash consumer ] <-----+
                                                                       |-----> DLQ topic
```

### Inventory

| Component | State it keeps | Operations | What makes it correct |
|---|---|---|---|
| webhook admission, `src/main.rs` `webhook_handler` | `SourceRateLimiter.windows`, the two maps of `IdempotencyStore`, each under its own mutex; the clock reading of each handler | `allow`, `check`, answer | at most `limit_per_minute` requests of a source per minute; at most one event per dedup key and window, one per entity and cooldown; nobody is suppressed without a cause; a refused sender can retry |
| publish pipeline, `src/main.rs`, `src/producer.rs` | the bounded channel, the job and attempt count of the worker, who holds a sender, the phase of `main` | `try_send`, `recv`, send, back off, shut down | accepted events leave in order and once; a drained shutdown leaves nothing; a kill loses no more than a channel; the worker never stalls; shutdown ends |
| smash consumer, `crates/hook-runtime/src/smash/consumer.rs`, `dlq.rs` | position, committed offset and commits under way, destinations left for the current message | receive, route, deliver, DLQ, commit | a commit is earned; nothing is passed over in silence; required destinations come first; commits never go back; no message blocks the rest, unless its `deliver()` never returns |
| relay, `tools/hook/src/commands/relay.rs` | consumer position, commits under way, attempts of the current record | check preconditions, receive, defer, publish with retries, commit | a commit covers only what was copied or reported; the order of a partition; no record stops it |
| replay, `tools/hook/src/commands/replay.rs` | none | send a stored payload to a topic or an endpoint | - |
| egress adapters, `crates/hook-runtime/src/adapters/egress/` | the attempt of a retry loop | `deliver` with retries, backoff, timeouts | an envelope is repeated or disordered only through a request of unknown outcome; an `Err` means that every attempt was used; a refusal is final; the pauses are bounded, and no wait is endless but three that have no timeout (`connect_async`, `socket.close`, the write to a child's stdin) |
| websocket server output, `.../egress/websocket_server.rs` | `active_clients`, the broadcast channel, a receiver per session | handshake, session, broadcast | the client limit; the count is given back; what a client gets is in order and without avoidable gaps |
| contract, `crates/relay-core/src/contract*.rs` | the file | parse, validate | references resolve; security-critical errors stop a start |
| hook serve, hook smash, `tools/hook/src/commands/`, `tools/hook/src/config.rs` | layers of environment variables | check, merge, convert, spawn | what is checked is what the backend gets; `--force` skips only what it may |
| serve and smash configuration, `src/config.rs`, `smash/config.rs` | none | parse, validate, build adapters | what is accepted can be run |
| ingress selection, `src/main.rs` `resolve_ingress_runtime` | none | choose endpoints, resolve tokens | no endpoint is open that should not be |
| client address and IP limiter, `src/client_ip.rs` | none (a library keeps the buckets) | parse headers | - |
| watchdog and alerts, `firecracker/watchdog/` | state files | restart, alert, throttle | services come back; an alert is not repeated within its cooldown |
| other commands, provisioning scripts | none | spawn processes | - |

Components interact by function calls within a process (handlers, limiter, store,
channel; consumer, adapters), by the environment a command gives to the process it
spawns, and otherwise only through Kafka topics. `AppState` is shared by all handlers
and ingress tasks of serve; the channel closes when its last clone goes.

What is hard to test here: handlers on several threads that use a clock reading
taken before they reach a mutex; the key that is entered before the event is
queued; senders that keep the channel open at shutdown; asynchronous commits that
are lost, fenced off or cover an earlier failure; crashes between a delivery and
its commit; deliveries that fail after they arrived, or arrive after they failed;
handshakes that overlap; clients that fall behind; a contract that is edited between
two starts and checked by other code than reads it. `hazards` in `PROJECT.json` lists
each one at its line with the properties aimed at it.

## Modules

| Module | What it is |
|---|---|
| `SmashConsumer` | the smash runtime with Kafka's log, group and asynchronous commits around it; implements `SettledOffsets` |
| `EgressDelivery` | one `deliver()` of an adapter that reaches out to its destination: what `SmashConsumer` takes as an `Ok` or an `Err` |
| `WebsocketServer` | the adapter that clients connect to |
| `WebhookAdmission` | concurrent `webhook_handler`s, the rate limiter, the idempotency store |
| `OrderedHandoff` | abstract: a stage that finishes what it takes over, once and in order |
| `PublishPipeline` | channel, worker, ingress tasks and shutdown of serve; implements `OrderedHandoff` |
| `SettledOffsets` | abstract: a consumer group whose commits cover only records it is through with and never go back |
| `Relay` | `hook relay`, and `hook replay kafka` as one of its producers; implements `SettledOffsets` |
| `Contract` | the contract file, an operator's edits, `validate_contract` |
| `HookServe` | extends `Contract`: `hook serve` up to the bound listener of hook-serve |
| `HookSmash` | extends `HookServe`: `hook smash` up to the running consumer |
| `HookLaunch` | both commands on one contract and environment, with edits in between |
| `MC...` | the instances for TLC |
| `...Proofs` | the theorems about `SmashConsumer`, `WebhookAdmission`, `PublishPipeline`, `Relay`, `EgressDelivery`, `WebsocketServer` and `HookLaunch` |

Definitions whose comment starts with "Fault:" are variants of the definition that
follows them, with a plausible mistake in it. No specification uses them. Put in
the place of the definition they show that a property notices the mistake;
`mutants` in `PROJECT.json` says which.

### SmashConsumer

`log`, `committed` and `pending` are Kafka's; `position`, `cur`, `todo` and `pc` the
consumer's. `pc` names the await the task is at: `recv`, `deliver`, `dlq_required`,
`dlq_no_output`, `commit`, or `down` when there is no process. One action stands
for what happens up to the next await: `RejectMalformed`, `BeginDelivery` and
`HandleNoOutput` are the ways `process_message` goes on after `recv()`;
`DeliverOk`, `DeliverOptionalErr` and `DeliverRequiredErr` one round of the loops of
`deliver_to_routes`, in the loops' order (`NextSlot`); `DlqPublishOk/Err`
`publish_failed`; `CommitMessage`/`CommitRefused` `commit_message`. `Crash` can
happen at every await. `Rebalance` and `Start` give the position back to the
committed offset or, before the first commit, to the end of the log.

`SettledOffsets` is implemented with a mapping of its own (`Through`): the consumer is
through with a record when it is settled, in the DLQ or in the error log, or older
than the place where the group began to read. As for the relay, a failed
message that the error log reports counts as dealt with, for a later commit may cover
it.

Abstracted: a pattern is the set of values it matches; an envelope is its event
type; a missing payload and undecodable bytes are one kind of message, for both end
in the same `Err`; what an adapter and its plugins do is the result of `deliver()`,
and an `Err` may or may not have reached the destination. `run` awaits `deliver()` without
a timeout; `Untimed` are the adapters whose `deliver()` can itself wait for ever (websocket
client, MCP over a child process), and no fairness is given to their steps (`MayHang`).

`EveryRecordReceived` has two escapes, both of them behaviours of the code. A `deliver()`
without a timeout may never return (`Hanging`); and nothing is said of the records before
`base`, the place where the group began to read, because `auto.offset.reset = latest` makes
a group that stopped before its first commit pass over what came in meanwhile. The
same holds of `EveryRecordSettled` in the relay.

### WebhookAdmission

Every request has its own `pc`. `Arrive` reads the clock, `LimitSource` is `allow()`
with the checks up to the idempotency store, `CheckDedup` and `CheckCooldown` are the
two critical sections of `check()`, `Enqueue` is the rest of the handler. Between
any two of them other handlers run and the clock moves. The pure checks are the
`flaw` of a delivery: the first check it does not survive. Whether `try_send`
succeeds is a choice here; `PublishPipeline` has the channel.

The clock does not go back. Source handlers never derive an empty key, so the
branches of `check()` for empty keys are dead, as are those for poisoned mutexes.

### PublishPipeline and OrderedHandoff

`queue` is the channel, `worker`, `job` and `attempt` the publish worker. The sender
side is `phase` (of `main`), `consuming` (Kafka ingress workers) and `sessions`
(websocket sessions): all hold a clone of `AppState`, and `ChannelClosed` says that
none is left. `Offer` is any handler's attempt to queue an event or its refusal
before that. `SendErr` covers a send that failed after Kafka stored the record.
`ExitDrained`, `ExitTimedOut` and `Kill` are the ways the process ends.
`OrderedHandoff` has only `accepted` and `finished`; both are history variables of
`PublishPipeline`, and the refinement mapping is the identity on them.

### Relay and SettledOffsets

`LoadRuntimeConfig` and `EnsurePreconditions` decide over a launch what `run` needs to
get to its loop; `--force` skips the second. `Defer` is the `DeferredNoCommit` of
`process_message`: a record without a payload, or no envelope in envelope mode.
`BeginPublish`, `SendOk`, `SendErr` and `BackoffOver` are `publish_with_retry`, `Commit`
the asynchronous `commit_message`. A send that failed may have stored its record, or
may store it later (`late`, `LandLate`). `output` is the output topic as the order in
which first copies came in; `base`, `acked`, `deferred` and `failed` are history. A
record is settled when it is one of the last three or was there before the group
began to read, and `SettledOffsets` is implemented with that mapping.

### EgressDelivery

One adapter and its destination; the consumer calls `deliver` for one envelope after
the other. `pc` names the await: `post` and `answer` for openclaw, kafka and MCP over
HTTP, `connect`, `write` and `close` for the websocket client, `spawn`, `stdin` and `wait`
for MCP over a child process, `backoff` between attempts. A request is on its way until
the destination takes it or it is lost, and an adapter that stops waiting for it
does not call it back. An `Ok` does not mean that the destination has the envelope: the
HTTP clients follow redirects and take any success status, a child may exit with 0
without having read its stdin, and a websocket client gets no answer at all. Only the
broker of the Kafka output acknowledges what it has. So no property says so; what is
checked is when an envelope may be sent again (`RepeatsOnlyUnheard`). `usable` is false for a configuration that passes the checks of
the start-up (which trim their values) and fails in the send (which does not).

### WebsocketServer

`Admit` is the handshake with its look at `active_clients`; `Count` the `fetch_add` at
the start of the session, and other handshakes come between the two. `Recv`,
`RecvLagged`, `SendOk`, `SendFails`, `ClientCloses` are the `select!` loop, `Uncount` and
`Unsubscribe` its end. tokio's channel keeps the last `Buffer` messages: its capacity
rounded up to a power of two, which is an assumption about the library.

### Contract, HookServe, HookSmash and HookLaunch

A TOML value is reduced to what the code tells apart (blank, text, zero, a list, a
table...). `EditContract` lets an operator set, drop or toggle one thing at a time.
`validate_contract` is the set of error codes the validator reports. `HookServe` and
`HookSmash` follow the commands: preconditions on the layered environment
(`Resolved`), the contract's profile, conversion of its adapters, what is handed on
(`Merged`), then `from_env`, `validate` and the building of adapters in the spawned
process. `servePc` and `smashPc` name where that stands or why it ended; `serveErrors`,
`serveProfile`, `smashErrors` and `smashProfile` are history: what each command saw of the
file before it was edited again. A chain of checks
is taken in the code's order, so that the first one that fails names the error, and a
selection from a list of adapters keeps their places, so that the first and the last
of a driver are those of the file. `ContractAssumption` says that the adapters of a
contract are lists, `LaunchAssumption` that a variable is text or blank and a number a
number; nothing else is assumed of contracts and command lines. Numbers and
lists are not parsed from text; inherited `*_JSON` variables, bind addresses and
their warnings, and instance ids are left out; a route's destinations are a set.

## Runs

| Run | Shows | Bounds, and why they are enough |
|---|---|---|
| `smash_consumer` | `CommitIsEarned`, `PassedMessagesAccounted`, `RequiredGatesLater`, `CommitsOnlyThrough`, `EveryRecordReceived`, `TypeOK` | three messages of every kind (malformed, two routes, no output), because a commit can only go back when two later ones were under way; three destinations over two routes, an optional one without a timeout ahead of a required one; all three policies `validate()` admits; one crash or rebalance, so that a failure, its redelivery and a later message occur together. More disruptions only matter to safety, which is proved for any number of them |
| `admission` | `DedupWindow`, `CooldownWindow`, `SuppressionHasCause`, `RateLimitInOrder`, `TypeOK` | three requests, two dedup keys, one entity, windows of 2 and 1 seconds and minutes of 2 on a clock of 0..3, a limit of two: one handler can be overtaken beyond the end of a window or a minute while a third prunes, and three requests can meet in a minute |
| `publish_pipeline` | `Conserved`, `DrainedLeavesNothing`, `SendsBounded`, `KillLosesAtMost`, `HandoffSpec`, `AcceptedIsFinished`, `InterruptEnds`, `TypeOK` | three events through a channel of one, so that it is full while the worker holds one and a third finds it so; two attempts; one adapter of each kind, of which a Kafka worker and a session can keep the channel open; safety is proved for any capacity and any number of events |
| `relay_forward` | `CommitsOnlySettled`, `ForwardedInOrder`, `EveryRecordSettled` | three records of every kind, both modes, no and two retries, one crash or rebalance: a late copy, its repetition and a later record occur together |
| `egress_delivery` | `RepeatsOnlyUnheard`, `EffortSpent`, `RefusedIsFinal`, `DisorderOnlyUnheard`, `WaitsGrowToCeiling`, `StallsOnlyUnbounded`, `TypeOK` | every driver, up to three attempts, so that a pause grows and meets its ceiling; two envelopes, so that a request of the first can arrive behind the second |
| `websocket_server` | `LimitUnlessRaced`, `GapsOnlyByLag`, `InboxInOrder`, `CountReturns`, `NewestArrives` | three clients, one without the token, at a limit of one; three messages through a channel of two; a client may come back once |
| `hook_launch` | `ForcedStartIsBare`, `ServingMeetsAssumptions`, `EndpointsOfProfile`, `PrecheckAgrees`, `ReferencesHold`, `RunningMeetsAssumptions` | five contracts that use every driver, one of them with doubled ids, one without outputs; one edit of any key, list or policy before, between or after the starts; launches with each required value missing, blank in one layer, or at an edge |

Five runs state what the documentation says and end in a counterexample:

| Run | What it shows |
|---|---|
| `smash_commit_blocked` | after a failed required delivery the next message's commit covers the failed one (`docs/spec.md:388`) |
| `admission_backpressure` | the retry of a request that got 503 is a "duplicate", and its event is never queued (`docs/configuration.md:105`) |
| `hook_no_output` | a profile without outputs, whose events the contract discards, is started as the legacy consumer, which delivers them to `OPENCLAW_WEBHOOK_URL` (`docs/spec.md:185`) |
| `publish_retries` | an event is given up after `publish_max_retries` sends, the first one counted, where the setting is the "Number of Kafka publish retries before giving up" (`docs/configuration.md:106`) |
| `egress_retries` | openclaw gives up after `max_retries` posts, and with 0, which nothing refuses, without any, where the key is the "Number of retry attempts on failure before DLQ" (`docs/adapters.md:154`) |

Deadlock is not checked: the process may end, the requests of an instance are all
answered, its log is used up, its edits are made.

`CommitIsEarned`, `PassedMessagesAccounted` and `CommitsOnlyThrough` say together what the
consumer does promise: a committed offset is that of a settled message, and each message below it
is settled, in the DLQ or in the error log. That a failed message is delivered again
is not promised, as `smash_commit_blocked` shows.

### Other differences met while modelling

They follow from the modelled steps and need no run of their own.

- `README.md:49`, "Kafka retains every event": the publish worker drops an event with a
  log line when its sends are used up; a Kafka ingress record that finds the channel
  full is committed all the same; a group that stops before its first commit resumes
  at the end of the topic (`auto.offset.reset = latest`, in smash and in relay).
- `docs/configuration.md:77`: a handler overtaken across a minute boundary resets the
  source's count, and more than the limit pass. `RateLimitInOrder` states the limit
  for requests that reach the limiter in time order.
- 0 retries mean three things: the publish worker and the websocket client send once,
  openclaw never (`docs/configuration.md:106`, `docs/adapters.md:154`; see the runs above).
- `docs/observability.md:67`: `/ready` looks at whether the worker task runs, so it
  answers 200 while the brokers are unreachable.
- `docs/adapters.md:251`: the websocket server's client limit can be exceeded by
  overlapping handshakes; `LimitUnlessRaced` says that nothing else exceeds it.
- `docs/envelope.md:39`: `meta.ingress_adapter` of an HTTP event can be the id of
  another adapter, for `active_ingress_adapter_id` is that of the first one
  (`src/main.rs:872`, `serve.rs:253`); `/webhook/{source}` is routed without an HTTP
  adapter, too.
- `docs/references/hook-definition.md:152`, 245, 253 and 317 give `token_env` to websocket
  adapters and http_sse transports, where the validator reports an unknown key: a
  bearer token cannot be configured there through a contract.
- A contract with zero outputs and the sink `dlq` never validates.
- The error for a wildcard topic says to pass `--topics`, which does not avoid it
  (`tools/hook/src/commands/smash.rs:292`).
- `ensure_required_topics` creates the source topics, not the target topics of routes.

### Fairness

- `SmashConsumer.Fairness`: `run()` loops for ever, and systemd restarts a dead process
  (`Restart=always`). Receiving, starting, and those steps of processing that end by
  themselves (`TimedStep`) get weak fairness: the deliveries of adapters that bound each
  attempt by a timeout, the DLQ's send and the commit. A `deliver()` of an adapter in
  `Untimed` is owed nothing, and the consumer may wait in it for ever. Nothing is assumed
  of which outcome a delivery has, or of commits being applied.
- `PublishPipeline.Fairness`: the worker is a spawned task whose sends have a timeout
  of 5 seconds and whose backoff is bounded; graceful shutdown waits for the requests
  under way, whose handlers wait for nothing but the request's body (a sender that
  holds its body back for ever is left out); the wait for the worker has a timeout of
  30 seconds. No fairness is assumed of the brokers.
- `Relay.Fairness`: sends are bounded by `message.timeout.ms`, pauses by
  `backoff_max_ms`, and the client serves every partition it is assigned. Nothing is
  assumed of restarts: a relay that is down owes nothing.
- `EgressDelivery.FairSpec`: the consumer calls `deliver` again, and what the adapter does
  by itself or when a timeout is over happens (`TimedStep`). The destination owes nothing,
  not even an answer; so the `connect` and the `close` of a websocket client and the write to
  a child's stdin may last for ever, and `StallsOnlyUnbounded` says that nothing else does.
- `WebsocketServer.FairSpec`: the task of each session is scheduled, and its sends have
  a timeout. No fairness is assumed of clients.

## Proofs

All theorems hold for every value of the constants that satisfies the `ASSUME` of the
module: any routes, partitions, requests, keys, windows, capacity, limits, adapter
configurations and launches.

`SmashConsumerProofs`, from `ConstantsAssumption`. `IInv` strengthens the three safety
properties by what they rest on. `OffsetsOrdered`: commits under way are in order,
and lie between the committed offset and the position, so applying or losing any of
them cannot move the committed offset back. `PassConsistent`: at each `pc` what the
message in hand has achieved; before `commit` it is settled. `CommitsCovered`: below
every commit under way all is accounted for; without it `PassedMessagesAccounted`
would not survive `ApplyCommit`. `ImplementsSettledOffsets` adds what a step may not undo:
the log stays within its bound (`LogBounded`), what the consumer is through with it
stays through with (`ThroughStable`, from `BaseGrows` and the growth of the history),
and a commit that is applied only covers such records (`AppliedCommit`). Theorems:
`TypeCorrect`, `Invariance`, `CommitsAreEarned`, `PassedAreAccounted`, `RequiredGates`,
`CommittedMonotone`, `ImplementsSettledOffsets`.

`WebhookAdmissionProofs`, from `AdmissionAssumption`. The difficulty is that a map can
lose an entry early: a handler with a later clock reading prunes, and one with an
earlier reading comes afterwards. `DedupCovered` says that an entry only goes when the
clock has passed it, and `ReadingsPast` that no handler is ahead of the clock; so when
a key is entered a second time the first window is over by the clock. `DedupOwned`
ties each entry to the request that made it, which gives suppressions their cause.
Theorems: `TypeCorrect`, `AdmissionInvariance`, `DedupWindowHolds`,
`CooldownWindowHolds`, `SuppressionCaused`, and `RateLimitHolds` with an invariant of its
own: by `LimiterInv` a window that has counted belongs to the minute of a request it
let pass (`WindowOwned`), and in time order that is the latest minute, with all its
requests counted (`WindowLatest`), so no window is started a second time.

`PublishPipelineProofs`, from `PipelineAssumption`. `StepEffect` reduces the actions to
six effects on the events; `Places` turns `Conserved` into positions in the order of
acceptance. `AcceptedOnce` and `UnsentWaits` make the send counter of the job in hand
that of no other event; `EndIsClean` and `FinishedOutcome` give the drained shutdown.
Only what is finished is published or given up (`FinishedOutcome`), which keeps a given-up
event from ever having been acknowledged.
Theorems: `TypeCorrect`, `PipelineInvariance`, `NothingLost`, `AttemptsRespected`,
`DrainIsComplete`, `KillIsBounded`, and `ImplementsHandoff` for the refinement.

`RelayProofs`, from `RelayAssumption`. `RelayInv` needs three parts beyond the order of
offsets (`Bounds`). `Covered` and `Reached`: what is committed or about to be is
settled, and a running relay is through with all it has read but the record in its
hands; the first alone would not survive `Commit`. `SentAfterSettled`: when a record
was sent the relay was through with those before it, which is what makes a copy that
lands late harmless to the order. `DeferredRefused`: a record once deferred is
deferred again after a rewind, so it can never be copied behind a later one.
Theorems: `TypeCorrect`, `RelayInvariance`, `OrderKept`, and `ImplementsSettledOffsets`
for the refinement.

`EgressDeliveryProofs`, from `EgressAssumption`. `Counting` keeps attempts, requests and
results in step, and `PostCounting` says that where an attempt is one post every attempt has
made it. `Traffic` says that a request on its way is either the one the adapter waits
for or one it gave up on, and that none is taken twice; `Repeats` that of two requests
for one envelope the first is one of unknown outcome, whether taken or still on its
way, without which `RepeatsOnlyUnheard` would not survive a late arrival; `RefusalEnds`
that a refused envelope is behind the adapter. For the pauses, `PausesComputed` says
that the one at each place is what `retry_backoff_seconds` gives for that place, and
`BackoffGrows` that the next is no shorter and none is above the ceiling. The provers
know powers of numbers but no law of exponents; the shift is capped at 31, so
`PowersGrow` goes through the exponents there are. Theorems: `TypeCorrect`,
`DeliveryInvariance`, `RepeatsExplained`, `EffortMade`, `DisorderExplained`, `RefusalHolds`,
`PausesBounded`.

`WebsocketServerProofs`, from `ServerAssumption`. `CountExact`: `active_clients` is the
number of sessions between `fetch_add` and `fetch_sub`. `RoomForHandshake`: as long as
none raced, at most one handshake is under way and there is room for it. `Served`: up
to the cursor of its receiver a client has each message, or the channel had dropped
it. Theorems: `TypeCorrect`, `ServerInvariance`, `LimitHolds`, `CountBalances`,
`InboxOrdered`, `GapsCaused`.

`HookLaunchProofs`, from `ContractAssumption` and `LaunchAssumption`, for every contract
file, sequence of edits and command line. `IInv` carries what each check found along
the two chains, because the process that is started looks at the handed-over
environment and not at the contract, which may have been edited since.
`ServePrechecked`, `ServeConfigured` and `ServeMained` say what is known of that
environment at `from_env`, `main` and `serving`; `SmashPrechecked`, `SmashHanded` and
`SmashConfigured` the same for smash. `ServeHanded` and `SmashBare` remember what a contract
with errors let through, which is nothing, and `ServeHanded` that the adapters are the
profile's; `Selected` carries that to the endpoints chosen from them. Within `SmashHanded`, `DestinationsKnown` and
`KeysKnown` are what `validate_contract` left behind, `TopicsFollow` ties the topics to the
routes, and `ProfileFollowed` the adapters to the profile. `ListsKept` and `ServeListed` keep
the adapters lists: the endpoint chosen is the last of its driver (`LastOf`), and a last
one must exist. `LastPlace` shows that without induction over data, by the least
counterexample in the well-founded order of the numbers. Theorems: `LaunchInv`,
`ForcedStartsBare`, `ServingAssumptionsMet`, `ProfileEndpoints`, `PrecheckAgreed`,
`ReferencesKept`, `RunningAssumptionsMet`, and `OutputsOfProfile`: without `--force` a profile
that names an output is delivered to its outputs only. So what `hook_no_output` shows
happens to profiles without outputs, or under `--force`.

Only model-checked: the liveness properties (`EveryRecordReceived`,
`AcceptedIsFinished`, `InterruptEnds`, `EveryRecordSettled`, `StallsOnlyUnbounded`,
`NewestArrives`), for which the prover has no rules here. Every invariant and every
other action property of the runs is a theorem.

## Not modelled

- Cryptography (signatures), JSON shapes, text scrubbing and log output: data that
  no property here tells apart. The source handlers count by the outcome of their
  checks.
- The client address and the IP limiter: header parsing in front of a library.
- The matching of wildcard patterns: a pattern is the set of values it matches.
- `hook config`, `infra`, `logs`, `test`, `replay webhook`, Firecracker set-up and release
  scripts: process spawning, shell, and reading of files.
- The watchdog: the restarts it causes are the crashes and starts of the models.
- Topic creation at start-up (`ensure_required_topics`): it precedes everything and
  ends the process on failure.
- Persistence of the idempotency store: there is none, and the windows hold for one
  lifetime of the process.
- Panics. None is reachable in the modelled code except `mpsc::channel(0)`, which
  `PipelineAssumption` excludes: with a capacity of 0 hook-serve panics before it serves
  (`ServingMeetsAssumptions`).

## Plan

1. The components' composition: `SmashConsumer` over `EgressDelivery` instead of a free
   choice of results.
2. `wildcard_matches` (twice in the code, `src/main.rs` and `consumer.rs`) against the
   definition of a glob, over bounded inputs.
3. Watchdog and alert throttling (`docs/observability.md:214`).
