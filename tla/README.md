# Aegis gateway: TLA+ models, checks and proofs

The gateway (`src/apps/gateway`, Rust) stands between an organisation's applications and the
LLM providers. It authenticates an API key, limits its rate, reserves the estimated cost of a
request against every budget that applies, answers from its caches or from a provider chosen by
policy and price, translates between wire formats, meters what was used, and corrects the
reservation to the bill. Several replicas run the same binary and share Redis (counters, caches,
claims, the usage stream) and PostgreSQL (everything an organisation sets up, and what it is
billed by).

Source paths below are relative to `src/apps/gateway/src/`.

1. [The system](#1-the-system)
2. [The modules](#2-the-modules)
3. [The runs](#3-the-runs)
4. [The proofs](#4-the-proofs)
5. [Where code and text disagree](#5-where-code-and-text-disagree)
6. [What is not modelled](#6-what-is-not-modelled)
7. [Plan](#7-plan)

---

## 1. The system

### Components, their state and their operations

| Component | State | Operations | Correct when |
|---|---|---|---|
| **Budget enforcement** `middleware/budget.rs` | spend and token counters in Redis, one key per scope and month; `Reservation` in the handler; limits cached for a minute | `check_and_reserve`, `release`, `commit`, the drop of an unsettled reservation, `load_limits`, `check_free_tier_allowance` | nobody is admitted past a hard ceiling, refusals leave nothing behind, counters end at the bill |
| **Metering** `metering/usage.rs` | the usage stream, the counters | `emit`: append, then one correction per counter | each event is on the stream before it is on a counter |
| **Usage writer** `workers/usage_writer.rs` | one cursor in Redis, `usage_records`, `daily_aggregates` | `process_batch`: read the cursor, read the stream, insert, fold, save the cursor | every event is billed once although it is delivered at least once |
| **Reconciliation** `workers/reconciliation.rs` | one observation per organisation in Redis | `run_once`, `reconcile_org`, `repair_if_confirmed`, the completeness check | a stale counter is repaired, a live one is left alone |
| **Fallback and breakers** `engine/fallback.rs`, `routes/openai_compat.rs` | per replica and provider: failures, `opened_at`, `probing` | `is_available`, `try_probe`, `record_success`, `record_failure`, the administrator's reset; the loops over attempts and retries | a failing provider is left alone, a recovered one gets its traffic back |
| **Streaming** `routes/*_compat.rs`, `providers/sse.rs` | the decoder's buffer, the block tracker, the locals of the generator | read, parse, render for the client's format, meter after the last yield | the client puts together what the provider said, and it is billed |
| **Provider adapters** `providers/*` | a shared token (Vertex) | build a body, parse a reply and its usage | every text of the conversation reaches the other side, told to the right party |
| **Authentication** `middleware/auth.rs` | LRU per replica, entry in Redis, row in PostgreSQL | `authenticate_api_key`, `invalidate_key` | a changed key or organisation takes effect after a bounded time |
| **Exact caches** `cache/exact.rs`, `cache/durable.rs` | Redis entry and `cache_entries` row per fingerprint | `get`, `put`, `promote`, invalidation, expiry, purge | nothing of a zero-retention organisation is kept |
| **Semantic cache** `cache/semantic.rs`, `cache/embed.rs` | vectors per organisation | `get`, `put` with the embedding of the look-up | an answer goes to questions like the one it was made for |
| **Routing, policies** `engine/router.rs`, `engine/policy.rs`, `engine/governance.rs` | a conversation's pinned model and the organisation's policy, both cached in Redis | `route`, policy evaluation, `FallbackChain::build`, pinning | a substitute can do the job, is allowed and costs no more; a policy change takes effect |
| **Compression** `engine/compressor.rs` | none | five rewrites of a conversation | instructions and fresh results arrive |
| **Pricing and savings** `metering/pricing.rs`, `metering/savings.rs`, `money.rs`, `billing/invoice.rs` | the price table in memory | `resolve`, `cost_of`, savings and fee arithmetic | parts add up to the whole |
| **Pricing refresh** `workers/pricing_refresh.rs`, `metering/openrouter_reference.rs` | the rows behind the table; the reseller's published list | refresh, reload, drift check; replacement of the list | a table is never lost, a list is read whole |
| **Rate limiting, the door** `middleware/rate_limit.rs`, `store.rs`, `handle_chat`, `handle_messages` | sliding windows in Redis or in memory | admit or refuse with a time to wait; the order of the refusals | no window holds more than its limit, a told wait suffices |
| **Management API** `routes/management.rs`, `db/repo.rs` | rows of PostgreSQL | members, invitations, keys, sign-up, second factor, projects, credentials, policies, budgets, settings, reports | roles hold, changes take effect and are logged, reports agree |
| **Enterprise** `routes/enterprise.rs`, `enterprise/*` | seats, state tokens and the replay record | SCIM create, patch, delete; OpenID Connect sign-in | the members follow the directory, a sign-in is used once |
| **Billing** `billing/*` | subscription, credits | Stripe's webhook, checkout, referral claims, invoice arithmetic | the plan is the one that is paid for |
| **Scheduler, budget alerts** `workers/scheduler.rs`, `workers/budget_alerts.rs` | claim keys in Redis with a life, stamps of rules | claim, weekly digest, price check, purges; the sweep | a job is done, and not over and over |
| **Startup and shutdown** `main.rs`, `db/pool.rs`, `config.rs` | a process from its configuration to its drain | migrations, partitions, `/ready`, the signal | every replica comes into rotation; a row finds its partition |
| **Metrics and health** `metrics.rs`, `routes/health.rs`, `workers/health_probe.rs` | counters by label, histograms | record, read a quantile, probe | counts are true although nothing locks the whole |
| **Cryptography, address filters, headers, telemetry, console, SDKs, infrastructure** | | | section 6 |

`PROJECT.json` lists all of them under `components`, with what is modelled of each.

### How they interact

* Requests of all replicas increment the **same counters** between any two awaits of each other
  (`BudgetLedger`). Reconciliation moves those counters too (`Reconciliation`).
* `emit` hands events to the writers through the **stream**; the writers of all replicas share
  one **cursor** (`UsagePipeline`), and reconciliation compares counters with their records.
* Every request of a replica reads and reports to the **breakers** of that replica
  (`ProviderCalls`), and prices itself by a **table** that a worker replaces (`Pricing`, `Prices`).
* Management calls change rows and **invalidate** what other requests are filling at that moment:
  limits (`FrontDoor`), policies (`Routing`), key contexts and answers (`ResponseCaches`).
* Workers of all replicas **claim** periodic jobs with an increment in Redis (`Scheduler`,
  `BudgetAlerts`).
* **External** parties repeat what was not acknowledged: Stripe (`Billing`), an identity provider
  (`Directory`), clients told to wait (`FrontDoor`), an orchestrator (`Lifecycle`).

### What is hard here

* *Interleaving*: every `await` is a point where other requests and replicas move shared state,
  and hardly an operation spans two keys or two statements.
* *Partial failure*: a Redis or PostgreSQL call fails in the middle of a pass; an error may hide a
  write that was applied. The code mostly fails open or logs and goes on.
* *Dropped futures*: a client that hangs up ends the handler at whatever await it is in; a replica
  restarts between two steps.
* *Stale state*: three tiers of key contexts, two of answers, cached limits and policies, stamps
  of alerts and observations of drift, each read before the step that acts on it.
* *Time*: leases shorter than the window they protect, clocks that differ, a month that ends
  between two steps, results that arrive after the circuit they belong to has moved on.
* *Reordering*: events of Stripe, callbacks of a browser, chunks cut anywhere.

`PROJECT.json` lists each hazard at its line, with the properties that would catch it.

---

## 2. The modules

Modules named `MC...` compose components and give the constants the values TLC uses; `...Proofs`
hold theorems. Components that share state are composed in one state space. Components that share
only their surroundings are composed with a variable (`task`, `desk`, `part`) that says which of
them a behaviour follows: their product would say no more.

| Composition | Components | Shared |
|---|---|---|
| `MCBudgetLedger` | `BudgetLedger` (implements `AtomicBudget`; uses `Totals`) | |
| `ResponseCaches` | key contexts and answers | who is let in decides what is stored |
| `UsagePipeline` | implements `BillingLog` | |
| `MCServing` | `ProviderCalls`; `Streams` (implements `MessageProtocol`) | the breaker a stream reports to |
| `MCAnswers` | `Translation`, `VertexTokens`, `SemanticCache`, `Catalogue` | |
| `MCPipeline` | `Prompt`, `Routing`, `Pricing` | |
| `MCFrontend` | `FrontDoor`: limiter of keys, limiter of addresses, door | the clocks |
| `MCTenancy` | `Tenant`, `Organisation`, `Accounts`, `Billing`, `Projects`, `Reports` | calls in progress, the plan, the faults |
| `MCWorkers` | `Deployment`, `Scheduler`, `BudgetAlerts`, `Reconciliation` | replicas, restarts, failed calls |
| `MCOperations` | `Lifecycle`, `Metrics`, `Prices`, `Directory` | |

In every module a Redis command, an SQL statement, an HTTP call or an access to a `DashMap` is one
step, and anything may happen between two of them. Failures, restarts and hang-ups are actions with
a bound (`MaxFaults`, `MaxCrashes`, `MaxCancels`, ...). An action named `XFails` is the error path of
`X`. Where the error may hide a write that took effect, both outcomes are there: an increment, a cursor, a
row, a rollup, a delivery or a repair may have been applied. Where a handler has another statement to come, such an
error is the statement and then the failure of the next; where the code ignores the error, it is `X` itself;
where the write is not state of the module (the entry of `AppendFails`), there is one outcome. Operators whose
comment begins with "Mutant of" are wrong versions of the definition below them: every property is
broken by at least one of them.

### The ledger: `BudgetLedger`, `AtomicBudget`, `Totals`

`counter` are the Redis keys, named by unit, scope and identifier. `pc[r]` is where the handler
of request `r` is, `todo[r]` what is left of the pass it is in, `keys[r]` is `Reservation.keys`
with `token_keys`, `breached[r]` the scopes whose ceiling said no. `held` and `corrected` record
what really reached the store, and differ from `keys` when an error hid an increment.

| Code | Actions |
|---|---|
| `check_and_reserve`, first loop | `Arrive`, `ReserveScope`, `SkipScope` |
| its verdict | `Admit`, `Refuse` |
| rollback, `release` | `GiveBack`, `GiveBackFails`, `GivenBack`, entered by `Refuse` or `ProviderFails` |
| the call, then `commit` and `emit`'s append | `Serve`, `AppendFails` |
| `emit`'s corrections | `Correct`, `CorrectFails`, `EmitDone` |
| `impl Drop for Reservation` | `Die`; `StreamRouteFails` is the `?` in `stream_chat` |

The order in which scopes are visited differs between passes (`ScopeOrder`, `EmitOrder`). The two
sets `Reserved(r)` and `Emitted(r)` are not the same (section 5); properties that speak of the bill
are about `Corrected`, the counters in both.

### The usage pipeline: `UsagePipeline`, `BillingLog`

Entries are numbered in stream order. `trimmed` is how far MAXLEN has cut the stream, which may be
past what was read. The writer of a replica is at `phase[w]`; `batch[w]` is what it read and has yet to process,
`last[w]` where its cursor write will point. The cursor write is unconditional (`SaveCursor`), so a
slow replica moves it back: that is allowed, and `NothingSkipped` is why it does no harm. The
unique key of `usage_records` is the set `records`; a rollup that failed is not repeated, because
the redelivered row is taken for a duplicate.

### Serving: `ProviderCalls`, `Streams`, `MessageProtocol`

`failures`, `opened`, `probing` are the fields of a breaker; `opened` abstracts the timestamp into
unset, not yet over, over. A request slot walks its chain with `CheckAvailable`, `ReadProbeState`,
`ClaimProbe` (three accesses of the map, three steps), `Resolve`, and then calls: `Answer`, `Retry`,
`GiveUp`, `Reject`, `StreamEnds`. A stream with an attempt left first stands at the `gate`: `Open` waits for its
first chunk, and `Refuse` is the `continue` on a refusal or an empty stream, which opens the same attempt again
without a bound, counts no retry, tells the breaker nothing and keeps the slot. `prober` are the requests whose
probe is out, `overtaken` those of them whose slot was freed under them by the result of another or by `Reset`,
the administrator's. `Streams` follows one answer: the provider's events are halves of lines on the
`wire`, `Read` takes any number of them, `ParseStreamChunk` is the adapter of the format, the
generator yields one event per poll (`Take`, `Pass`, `EndOfStream`) and meters after the last
(`Meter`). Its events implement `MessageProtocol`, the order a client of the Messages API relies on.

### Answers: `Translation`, `VertexTokens`, `SemanticCache`, `Catalogue`

`Translation` carries a conversation in either wire format through `Normalize`, the adapter's `BuildBody`,
`ParseResponse` and back; a part is a number, a wording is not. What is followed is the texts of either side,
the counts, and the shape of the reply: whether it is in the endpoint's format, the provider's, or a mixture.
`VertexTokens` is the token shared by one service account, in units of half the safety margin. `SemanticCache`
is the exact tier before the semantic one, with what is written after the provider answered: under the
compressed wording and with the embedding of the original. `Catalogue` holds the seed rows of `pricing.rs` as
data, and the table as a set of rows with the order they were registered in (that of the seed, or by identifier
after a load from the database), in which the first row claims a bare name (`ClaimsLast` is the mutant) and
aliases come last. A client asks for the list (virtual names included), keeps a name of it, and asks for that
name later, from a table that may have been loaded anew; the request is served without a hint, a policy, a pin
or a fallback, which `Routing` has.

### The decisions: `Prompt`, `Routing`, `Pricing`

`Compress` is the five rewrites in order over a conversation that grows (`Converse`). `Routing` has the
ceilings, allow-lists, policies, pins, alternates and the chain as operators that yield the *set* of
decisions the code may reach (the classifier's band and the scores that order acceptable candidates
are inputs), and two overlapping turns that read the pin and the policy, route, answer and pin.
`Pricing` has rates with cached, written and long-context tokens, resolution of names, rounding, the
three levers of a saving, and a request that reads the table once per figure while it is replaced.

### The door: `FrontDoor`

The script `RATE_LIMIT_LUA` is one step of the store, reasoning with the caller's clock (`Skew`).
`Check`, `CheckIp`, `Admit`, `Refuse` and the wait that is told; then the order of refusals of the
three endpoints, the limits read, queried and cached (`ReadLimits`, `QueryLimits`, `CacheLimits`) against
`ChangeBudget` and `InvalidateLimits`, and the free allowance that is read and not reserved.

### Tenancy: `Tenant`, `Organisation`, `Accounts`, `Billing`, `Projects`, `Reports`

`Tenant` has what handlers share: each call is somewhere between two of its statements, and a
fault ends it there. `Organisation`: roles, keys, removals (the transaction counts owners, reads the
role and deletes), SCIM. `Accounts`: sign-up, invitations and their single-use token, sign-in, the
second factor: enrolling, confirming, signing in and disabling overlap, and `overtaken` remembers that a secret was
replaced or dropped where nothing looked. `Billing`: referral, checkout, Stripe's events, repeated and in any order;
`newest` is the newest event that set the plan, `late` says that the last one which set it was older.
`Projects`: projects, credentials and their default, policies, budgets, settings: check, change,
drop what is cached, write the log. `Reports`: five ways to add up the same records.

### Workers: `Deployment`, `Scheduler`, `BudgetAlerts`, `Reconciliation`

`lease` is the claim key: created by the INCRBY (`Claim`), given its life by a second command
(`SetExpiry`), gone `ClaimTTL` ticks later although the window stays open to `Window`. `SendFails` and
`SummaryFails` are the ways one organisation's digest fails; `short` are the replicas whose run owes a digest to
somebody, and `claimedAt[n]` is when replica `n` claimed, not when somebody last did. A claim is `wasted` that came to
nothing and whose key outlives the window, so that nobody could claim again. In `BudgetAlerts`, `taken` is the claim of
the current window, `loaded[n]` the stamps as replica `n` loaded them; `Stamp` writes the time of the
write, so a sweep that outlasts the month stamps the wrong one. In `Reconciliation` a request is
reduced to its effects on the counter and on the records; a pass is a step per await: read the
counter, read the records, compare with the shared observation, repair or remember, clear. Passes
of one replica are a day apart and calls time out in minutes, so no request is in flight at two of
them (`Begin`).

### Operations: `Lifecycle`, `Metrics`, `Prices`, `Directory`

`Lifecycle` follows processes from their configuration through the store, the database, migrations (under an
advisory lock), partitions, prices, workers and the listener, to `/ready`, the signal and the drain, while
services fail and come back and months pass. `Metrics` has `CounterVec::inc` as the look-up under a read lock
and the insertion under a write lock, the histogram's bucket and count as two additions, a reader in between,
and the probe of the services. Every operation on the histogram is `Ordering::Relaxed`, so no order of the two
additions is visible: `buckets` and `count` are what the reader can see by now, and either addition of a
recorder may get there first. A recorder's next request begins when both are there. `Prices` has the rows, the
table and the drift check, and the replacement of the reseller's list as a transaction at READ COMMITTED: which
rows a DELETE sees, which locks an INSERT waits for, what a commit publishes. `Directory` has an identity
provider that repeats SCIM calls until they succeed, and the sign-in by OpenID Connect.

### Keys and answers: `ResponseCaches`

A key context is the version of the settings it was read from. `lag[v]` is how long ago version `v` was
replaced, so staleness is a number. Entries have an age and are gone after `TTL`; fills are steps of
their own, so a row read before a change can be written to a tier after its invalidation. The same
module has the two exact caches under one repeated request: `HotGet`, `Promote`, `DurableGet`,
`Repopulate`, `CallProvider`, `Store`, under the zero-retention flag of the context that was let in, which
may be old.

---

## 3. The runs

| Run | Properties | Shows |
|---|---|---|
| `budget` | `CounterIsSum`, `AdmittedWithinCap`, `SettlesToTheBill`, `AtomicSpec` | three requests race for a team's, an organisation's and a token ceiling; one streams, one may die: counters are sums of what was applied, ceilings hold, all ends at the bill, and the passes implement atomic admission |
| `budget_faults` | `CountersComeToRest` | with two failing calls, applied or not, and a death: all requests end, and each corrected counter comes to rest; the counters that are off are no more than the mishaps, and a counter is off by one estimate or bill for each |
| `usage` | `NothingSkipped`, `LogSpec`, `EveryEventPersisted` | two writers, one cursor, a stream of three that is trimmed, a malformed entry, a fault, a restart: nothing retained is passed over, rows change as `BillingLog` allows, everything retained gets its row |
| `caches` | `StaleOnlySoLong`, `ZeroRetentionEmpties` | two replicas, a change, a fault: no context older than two lives and two fills lets anybody in; zero retention empties both tiers for good |
| `serving` | `BreakersSafety` (`OneProbe`, `OpenIffFailing`), `StreamSafety` (`AnswerWhole`, `BilledAsReported`), `MessageOrder`, `TrafficReturns`, `StreamsClose` | a chat and a stream over two providers with outages: of two probes at a time one has lost its slot, traffic returns unless the slot was lost or its holder is refused for ever; streams cut and broken anywhere: the answer of a client that stays is whole, closed and metered (one that left is not metered, section 5) |
| `answers` | `NothingLost` (`PromptKept`, `AnswerKept`), `TokenOutlivesCall`, `AnswersSafety` (`AnswersTheQuestion`, `NothingKept`), `CatalogueSafety` (`NameKept`, `StaysOnTheList`) | translation both ways, the shared token, similar questions; a name taken from the list of models stands for the same model through reloads of the table, unless the model left or a new one took the name, and what is served for a name is on the list or is the model named |
| `pipeline` | `RoutingSafety` (`ComplexFloor`, `NeverDearer`, `SubstituteFits`), `PromptSafety` (`InstructionsArrive`, `FreshOutputWhole`), `MoneyAddsUp` (`PartsMakeWhole`, `InvoiceGoesOut`, `PricesServed`), `PolicyTakesEffect` | overlapping turns under changing policies, a growing conversation, requests priced while the table moves |
| `frontend` | `LimiterSafety` (`WindowHolds`, `WaitSuffices`), `DoorSafety` (`LimitsCatchUp`, `AllowanceBounded`) | callers at two replicas with clocks a tick apart, limits that change while they are cached |
| `tenancy` | `SetUpSafety` (`TightestCap`, `AuditTells`, `ReportsAgree`), `PeopleSafety` (`Deprovisioned`, `TokenOnce`, `SecondFactorProven`, `SignupWhole`), `BillingSafety` (`ClaimsBounded`, `CustomersBounded`, `PlanCurrent`), `LastOwnerKept` | two overlapping calls of people, of the identity provider and of Stripe, one failing statement |
| `workers` | `AlertsBounded`, `ForgivenessBounded`, `SchedulerSends`, `OverspendReported`, `OverblockingEnds` | two replicas' workers with claims that expire, a fault, a restart, a month end |
| `operations` | `PartitionThere`, `MetricsSafety` (`GapIsLoss`, `QuantileFinite`), `ReferenceWhole`, `DirectorySafety` (`PatchedIsGone`, `RetryRefused`), `StartsAgain`, `Converges` | processes from start to drain around services that fail; counting without a lock; two administrators replace one list; an identity provider that repeats itself |
| `picture_told` | `PictureTold` (violated) | section 5: a comment says more than the fingerprint does |

Type invariants (`TypeOK`, `CallsTypeOK`, ...) are not runs of their own: the proofs of section 4 have
them as the first part of their inductive invariants. Two more invariants, `NeverUnderstated` of the
ledger and `RollupFollows` of the pipeline, are theorems only.

### Bounds, and why they are enough

* *Actors*: races here are between two actors over one shared cell; two replicas, writers, callers,
  administrators or calls reach every order of two passes. The ledger has three requests, because one
  ceiling can be contested while a third request gives back.
* *Values*: amounts are chosen so that two requests fit under a ceiling and three do not, a bill can
  be above and below its estimate, and the drift of one request alone is above the threshold.
* *Scaled constants*: the compressor's limits `TurnLimit`, `KeepRecent`, `TokenBudget`, `StaleAge` are 5, 3,
  600 and 2 for the code's 40, 20, 32000 and 6; a report's page is `PageLimit = 1` row for 1000; the
  breaker opens at `Threshold = 2` and a call is retried once. The order between the constants is that
  of the code, and each run reaches both sides of each of them.
* *Time*: `TTL = 1` tick stands for the 60 s of a key context: ages 0 and 1, then gone. `FillTime = 0`
  lets a fill happen anywhere within a tick and not across one; `StaleOnlySoLong` has `FillTime` as a
  parameter. `ClaimTTL = 2` in a `Window` of 5 gives two full lives and a remainder. A rate window of 6
  ticks with a `Second` of 2 gives fractions of seconds, which the told wait rounds away. A month of 30 days
  is divided as the code divides it. Two months of partitions ahead against an outage of two is the edge
  of what `PartitionThere` tolerates.
* *Failures*: one or two per behaviour. Almost all error paths end a pass, so a second failure meets a
  state that one could have left, or a fresh pass.
* *Counters that saturate*: `failures` of a breaker at the threshold (only "at the threshold" is ever
  asked), `lag` one past the bound it is compared with.
* *Batches*: `BatchSize = 2` with four events and a stream of three: batches that end early, a cursor in
  the middle of one, a trim past an unread entry. Streams have up to three pieces, two on the wire.
* *Starts*: a behaviour of `tenancy` begins with any roles but viewers, who make no call and are to others' calls
  what members are, and on the free plan where the plan is not asked for or is what is subscribed to.

`SYMMETRY` is used in `frontend` (callers, keys) and `tenancy` (people, calls), which check no liveness.
`CHECK_DEADLOCK FALSE` is set where a finite workload ends: all requests done, the last month over, the
bounded calls made. `usage` and `caches` check deadlock.

### Fairness

Weak fairness of whole workers, never of a single outcome: `Progress(r)`, `Handle(r)`, `Gateway`, `Pipeline(r)`,
`Served(c)` (a handler that is not dropped is polled to its end; calls of providers have timeouts, which is
`Break` for streams), `Work(w)`, `Pass(n)`, `Sweep(n)`, `Digest(n)` (loops with a pause), `Tick`,
`TimerExpires`, `HotExpires`, `Purge` (time passes), `ExpirePolicy` and `DropCachedPolicy` (the life of a cached
policy), `Boot` and the health check (an orchestrator restarts what does not answer), `Synchronise` (an identity
provider repeats). In `ProviderCalls`, `Arrive` is fair: traffic keeps coming, without which no probe would be
made. `Handle(r)` includes `Refuse`: a handler that is polled may go round the loop of refusals for ever, which
no fairness excludes, and which `TrafficReturns` names as the exception it is (`RefusedForEver`). A provider
need not recover, a call need not succeed and a client need not stay; failing calls are finitely many.

---

## 4. The proofs

Every theorem is about the `Spec` that TLC runs (fairness, where a run adds it, is not used), for every value of
the constants that the `ASSUME` of the module allows; those assumptions only say what kind of values the
constants are, with the relations the code itself establishes. TLC evaluates each on a run.

| Module | Theorem | Says |
|---|---|---|
| `RequestProofs` | `TypeCorrect`, `Invariance` | the inductive invariant of the ledger |
| | `CounterIsSumAlways` | `Spec => []CounterIsSum`, failures and deaths included |
| | `CapsHold` | `Spec => []AdmittedWithinCap` |
| | `NeverUnderstatedAlways`, `SettlesAlways` | `Spec => []NeverUnderstated`, `Spec => []SettlesToTheBill` |
| | `ImplementsAtomic` | with `MaxFaults = 0`, `Spec => AtomicSpec` |
| | `RouteSafe`, `MoneySafe` | `PipelineSpec => []RoutingSafety`, `PipelineSpec => []MoneyAddsUp` |
| | `PromptSafe` | `PipelineSpec => []PromptSafety` |
| `WorkersProofs` | `UsageTypeCorrect`, `UsageInvariance` | the inductive invariant of the pipeline, about `UsageSpec` |
| | `NothingSkippedAlways`, `RollupFollowsAlways` | `UsageSpec => []NothingSkipped`, `UsageSpec => []RollupFollows` |
| | `ImplementsLog` | `UsageSpec => LogSpec` |
| | `AlertsBoundedAlways` | `Spec => []AlertsBounded` |
| | `ForgivenessBoundedAlways` | `Spec => []ForgivenessBounded` |
| `ServingProofs` | `BreakersHold` | `Spec => []BreakersSafety` |
| | `MessagesInOrder` | `Spec => MessageOrder`: a stream implements `MessageProtocol` |
| `OperationsProofs` | `PartitionsThere` | `Spec => []PartitionThere` |
| | `MetricsHold` | `Spec => []MetricsSafety` |
| | `ReferenceHolds` | `Spec => []ReferenceWhole` |
| | `DirectoryHolds` | `Spec => []DirectorySafety` |
| `TenancyProofs` | `TenancyInvariance` | the inductive invariant of people, accounts and billing |
| | `PeopleSafe`, `BillingSafe` | `Spec => []PeopleSafety`, `Spec => []BillingSafety` |
| | `LastOwnerKeptAlways` | `Spec => LastOwnerKept`, an action property |
| | `SetUpSafe` | `Spec => []SetUpSafety` |
| `AnswersProofs` | `ContextsInvariance`, `StaleOnlySoLongAlways` | `CachesSpec => StaleOnlySoLong`, an action property |
| | `TokensLast` | with `MarginSuffices`, `Spec => []TokenOutlivesCall` |
| | `AnswersHold` | `Spec => []AnswersSafety` |
| | `CatalogueHolds` | `Spec => CatalogueSafety`, an action property |
| | `ConversationHolds` | `Spec => []NothingLost` |
| `FrontendProofs` | `LimiterHolds` | `Spec => []LimiterSafety` |
| | `DoorHolds` | `Spec => []DoorSafety` |

`Totals` has the lemmas they share. About sums: changing one summand changes the total by the difference; a sum
over a finite set (`SumOver`) is the total of any enumeration of it (`SumOverCounts`). About functions defined
by recursion on numbers: they exist (`StepsExist`). About sequences: `Where(S, seq)`, the elements of a sequence
at a set of places, in order (`WhereAppend`, `WherePlaces`), what holds of `Flatten` (`FlattenAppend`), and
`ByAppending`: a set of sequences that has the empty one and stays closed under appending has all. They are
proved without an induction theorem, whose operator parameter the provers cannot instantiate: a minimal
counterexample is taken from a set of numbers, or a shortest one from a set of sequences. Models the proofs are
about select elements by `Where` rather than `SelectSeq`, a recursive operator nothing can be proved about.

### The ledger

None of the properties is inductive. `AdmittedWithinCap` needs to know that a request which runs found
room at *each* of its ceilings at *some earlier* moment, when the counter was the sum of contributions
that have changed since. The invariant has three parts:

* `Shape`: for each phase, how `todo`, `keys`, `held`, `breached` and `corrected` relate; in
  particular, without faults `keys = held`, and what a reserving request holds is exactly what it
  has visited.
* `CounterIsSum`: a step moves one request's contribution and one counter by the same amount.
* the occupation of a ceiling: the charges of those that passed it are at most the limit. The
  step that matters is `ReserveScope` at a capped counter: the total includes everyone's contribution,
  contributions are at least charges, so a total within the limit leaves the charges within it. Later,
  charges only fall: a bill counts up to the estimate.

`NeverUnderstated` and `SettlesToTheBill` follow summand by summand. `ImplementsAtomic` maps each
request to new, admitted, billed or closed: `Admit` is the atomic admission, and its guard is the
occupation part. The store's INCRBY is atomic; that is what a step is.

### The decisions

`RouteSafe` is about every turn of a conversation, however turns, pins, policies and changes of a key
interleave. What one decision does is a fact about `Decisions` (`DecisionsSound`: the model is the one asked
for, the pin, one a policy chose, or one that can do what the request needs) and about the chain built on it
(`ChainMade`). The rest is the conversation:

* `Turns`, `ChainsFit`: what a turn in progress has read; every member of its chain but the model asked for and the
  pin can take the request, and its context fits.
* `Floor` and `Lid` bound the pin by what turns have asked for: as long as every turn was complex and none was
  moved, the pin is of no lower a tier than *some* model asked for; as long as no turn was moved and no call
  failed, it is no dearer. Their premises speak of all turns, but a turn once moved stays moved, so a step can
  only make them false (`PremisesStay`), and any step but `Route` only hands on models that were there (`Kept`,
  `KeptSound`).
* `Best` is the maximum of an order in two keys; that it is one of the candidates needs finitely many models,
  and is found among candidates by the inclusion of what lies above them (`BestIsOne`).

`MoneySafe` adds to the types of a bill (`BillTyped`) how far fees may be from gross savings: of one share, half
a unit for each request (`FeesFollow`), since a rounded share is off by a half at most (`ShareRounded`). With
one share the invoice, which rounds once, agrees within the same; its lines add up to its total by
`TotalConcat`, and a price a replica serves is one it read (`PricesServed`).

### The prompt

`PromptSafe` is about every history a caller builds up: what was sent last is that history or `Compress` of it
(`PromptInv`). `Compress` is five steps; each has to leave `Instructed` alone, the instructions in the order
they first came:

* three write messages anew where they stand; of a system message they change neither what it says nor who says
  it, and they neither cut it nor put a pointer in its place (`Rewrites`, `RewritesInstruct`);
* two drop messages, and whoever keeps the first of every instruction keeps the instructions (`FirstsSuffice`):
  a duplicate is dropped only behind what it repeats (`Deduped`), the cut keeps all system messages and what
  follows them, a marker and turns, instructs nothing (`Truncated`, `TailInstructsNothing`).

A result as young as `StaleAge` is not trimmed, and as `StaleAge <= KeepRecent`, which is the relation of the
code's constants, neither is it cut off; that what is dropped before it only brings it nearer to the end is
`WherePlaces`.

### A conversation between formats

`ConversationHolds` says that whatever the caller's endpoint and the provider's wire are, the provider is told
every text the caller sent, and the caller is handed every block the provider answered. What `F` makes of the
elements of a list that are in `S`, joined, is a telling (`Tell`): what a conversation instructs is one, what is
said in it another (`InstructedIs`, `SaidIs`). A telling of two lists one after the other is the one and then
the other (`TellConcat`), those not in `S` tell nothing (`TellOthers`), and whoever is left when nobody of `S`
is left out tells the same (`TellPicked`). With these

* `NormalizeKeeps`: the caller's messages in the gateway's form instruct and say the same; system texts come
  first, which changes neither of the two, each being about its own messages (`EachItsOwn`). A caller of
  Anthropic's format has no developer role (`OwnRoles`, kept by `TransInv`), which this needs;
* `BodyKeeps`: so does the provider's body, its system field in front of its turns;
* `Reordered`: a reply of texts and then calls has every block of the answer once, because a block is one or the other
  (`BlocksApart`); `UsageKept`: the counts are those of the provider, whichever way it counts cached tokens.

### The usage pipeline

The cursor is written from a batch that was read long before, and by writers that do not know of each
other. So the invariant follows the batch: everything up to `last` is settled (`LastSettled`: a row,
malformed, or trimmed), and what a batch has left begins after `last` and has no gap but what the stream
dropped (`Gapless`; `BatchGapless` shows it of XRANGE). Then a cursor set from it, even backwards, covers
settled entries only. For the rollup: a writer about to fold holds a row it inserted itself and that is
not folded (`FoldsNewRow`), and no two hold the same one (`FoldsAlone`), because the insert was
`ON CONFLICT DO NOTHING`. The refinement maps the pipeline to its tables; all else is a stutter.

### Key contexts

Nothing compares versions: a fill writes what was read, over whatever is there. So the bound can only come
from time, and each place a version passes adds its own: in the hand of a request that read the row, its
wait; in Redis, a fill and the entry's age; in the hand of a request that read Redis, a fill, a life and
its wait; in an LRU, two fills, a life and the entry's age. Invalidation does not occur in the argument:
the entry of another replica is never invalidated, so nothing better holds.

### The breakers

`BreakersInv` adds to the types and to `OpenIffFailing` where the probe slots are (`Slots`): a request that
probes is on its way; one that was not overtaken holds the slot of its target, whose mark is set, and no other
that was not overtaken has the same target. Uniqueness is not inductive without the mark, because `ClaimProbe`
only looks at the mark. A result that arrives late, or the administrator's reset, clears a mark whose request is
still out: from then on that request is overtaken, and another may probe beside it. So what holds is `OneProbe`:
of any two requests that probe one provider, one is overtaken. That two may probe at all is in section 5.

### The order of a message

`MessagesInOrder` maps the client of a stream to the protocol: its phase, the block it has open, how much
each of its blocks received. The protocol never looks at the generator, so the invariant says
where the generator is relative to its client.

* `FlowInv` types everything on the way. The decoder is a recursive function (`Kept`), so that what it
  yields are chunks takes an induction on the length of what was read, by a least counterexample.
* `TrackerInv`: a block knows its upstream call only while it is open, and the open block is the newest.
  Hence a call that comes back after other text gets a *new* index, and no index is used twice, although the
  map from calls to blocks looks as if one could be (`OpensNext`).
* `Following` and `Leaving`: what is left to yield is the tail of a legal script, from where the client is.
  The client lags behind the tracker by what is queued, so it may have a block open that the tracker has replaced
  (`content_block_stop`, then `content_block_start`, then at most one delta). A step of the client moves
  the tail up by one (`MovesUp`); a chunk or the end of the stream is only looked at when nothing is left.

`None \notin Nat` is assumed, as a closed block must differ from block 0.

### Partitions, metrics, prices, directory

* `PartitionsThere`: `Covered` follows the months. What was migrated has the partitions from the month
  of its last maintenance on, that maintenance is no older than an outage once a process is prepared, a process between
  its check and its creation knows all that the month lacks, and what is on a backlog is of a month that has
  its partition. The theorem needs `MaxOutage <= MonthsAhead`, which is its point.
* `MetricsHold`: two additions are two steps, in either order, so the counts agree up to those in between:
  `Counted` adds the observations that are in a bucket only (`HalfSeen`) and those that are in the count only
  (`Ahead`). A quantile leaves some of the count out; `spare` is how many, less those that were ahead when it
  began. If none is lacking, the buckets the reader has still to read hold what it looks for (`Reachable`);
  buckets only grow, so it can run past the last edge only if something is there. `GapIsLoss` is about values
  that every thread agrees on, those of one location.
* `ReferenceHolds`: `Isolated` says what the row locks and the unique key achieve. A transaction sees and
  has deleted all committed rows or none, no row is deleted by two, and no key is inserted by two or stands
  beside the same key committed and not deleted. Every list has the lasting model, so a transaction
  that saw nothing cannot insert its own list next to a committed one, and a commit leaves one list.
* `DirectoryHolds`: `Synchronised` follows each SCIM call from its statement to its answer, with at most one
  call per person, as the identity provider sends them; `SignOnInv` says that a spent token is not live and that
  a callback that comes late found it spent, so it gets no further than its first statement.

### Tokens and kept answers

* `TokensLast`: a token is usable until a margin before its end, less what its exchange took, and a call on its
  way has waited `Delay` at most (`Lasts`). So what is cached is usable only while it lasts another `Delay`,
  whoever minted it. The theorem needs `MarginSuffices`: the margin covers an exchange and a call, one after the
  other, and a life is longer than both. An exchange times out after 10 seconds (`providers/vertex.rs:168`);
  with a margin of 60 it holds if a call reaches Google within 30, which is the timeout of a provider but not
  that of a reasoning model, 120 (`config.rs:201-205`): what must be in time is the arrival of the request, when
  Google looks at the token, and not the answer.
* `AnswersHold`: `SimilarInv` says of each place an answer passes (exact entries, vectors, what a request has
  found or is about to store) which question it was made for, and that this question may be kept. An insert
  that comes late is covered because a request under zero retention never has one.
* `CatalogueHolds`: the row that has a bare name is the one with the least place in the order of registration,
  which there is as places are numbers (`SomeName`). A table from the database is ordered by identifier, the
  seed by hand (`InOrder`); the two disagree only about rows that share a bare name, and in the seed only Google
  and Vertex do (`SeedClash`, `SeedNamed`), of which Google is first in both (`GoogleFirst`). So a load may move
  a name only to a row the earlier table did not have (`Keeps`). What is served for a name that stands for a
  model is that model or a substitute, both of which the key is shown (`OnTheList`).

### The door

* `LimiterHolds`: a sorted set forgets an entry when the clock of *some* replica says so. `Remembered` says
  that the entries of admissions so recent that no clock can have dropped them are all there and differ;
  then an admission that finds room leaves no more of them than the limit. That they differ is the uuid in a
  member (`EntryIsNew`, by the pigeonhole principle). For the refused, `Awaited` names the entry they wait for:
  it is gone, by every clock, once they waited as told, a second and the difference of the clocks.
* `DoorHolds`: a request notes which change of the budgets had returned when it began to load (`since`). If
  none began after it, what it read is what the table holds; what it finds cached and stale has an *excuse*, a
  set cached over a change or an invalidation that failed, no older than a life of the cache (`Cached`, `Sees`).
  For the allowance, every answer is counted, about to be or lost (`Recording`), and a request that is let in
  counts itself (`Calling`): no more of them can be in progress than there are callers.

### Alerts and forgiveness

* `AlertsBoundedAlways`: the count of alerts of a rule is not bounded by anything the code compares; it is
  paid for. `AlertsPaidFor` adds to the alerts sent those replicas that may yet send one (`MayDeliver`:
  they loaded the stamps before the rule had one) and bounds the sum by one more than the failures, the
  restarts and the sweeps that overlapped. What makes it inductive is `RoomForOne`: a rule without a stamp
  that nobody is about to alert or to stamp has a place left, because whoever alerted it and did not stamp it
  failed, was restarted or met the end of the month. And no more replicas are awake than overlaps allow, so a sweep
  that begins alone pays for itself.
* `ForgivenessBoundedAlways`: a pass takes off what it saw twice, and passes of different replicas do not see each
  other. `Forgiven` is how far the counter is below the contributions; `Repairs` adds up what every pass
  under way may still take off. Neither is bounded alone: a repair moves an amount from the second to the first.
  Their sum is at most the exposure of all requests, once for each replica, and it never falls below the
  counter, because a pass that reads a counter begins with no more than the weight of the requests it saw.
  A sum over replicas is one over numbers (`Order` enumerates them), which `Totals` is about.

### Tenancy

The calls of one behaviour are about one part, so `TenancyInv` has a part for each, and says of the others
that they are as they began; only billing sets the plan, and failures are counted by all.

* *People* (`OrgInv`): a call is let in by a role that may be gone at its statement. `LeftFor(p)` says of somebody
  deprovisioned that they are out, that every key of theirs which works is one whose request was under way, and that
  requests under way are among those; a role is asked for when a call is let in, so nobody who is out starts one.
* *Accounts* (`AccountsInv`): a link is spent by a statement that says whether it was there, so at most one
  call owns it (`Owning`, `LinkInv`), and once it set a password, none. `FactorInv`: whoever is about to require the
  second factor has proven the secret in its hand; the one stored is that, or was overtaken, or another confirmation
  has proven it. `RowInv`: a link, or a call past its first statement, has the row of its user.
* *Billing* (`BillingInv`): a claim past its check is counted as made (`ClaimsInv`); a customer that no row
  names is in the hands of a checkout or was lost to a failure (`CustomersInv`). For `PlanCurrent`, `newest` is
  no older than what is acknowledged or about to be, and unless an older event came later (`late`) the plan is
  what the newest says (`FollowInv`); the last event that changes the plan leads to what is subscribed to
  (`EventsInv`). With no event awaiting, the newest is the last.
* *Owners* (`LastOwnerKeptAlways`): of all statements only the deletion can leave no owner, and it is reached with
  a count of at least two owners or a role that is not theirs.
* *What is set up* (`SetUpInv`), in three parts that need each other little.
  * The log: a call has a number of its own, which its row gets (`OwnSerials`). A number is spent (`Used`) once
    the call's change is committed, so a row that is gone stays gone (`Gone`, `DeletedStays`), and of two calls
    that delete one row only one finds it; the entries and the calls about to write theirs name different rows
    (`DeletedOnce`). A row has its entry, or the call that makes it is between its commit and the log, or failed
    there (`RowsTold`).
  * The reports: grouping by the names of now splits the requests of a period into disjoint sets, since ids and
    names of projects are unique (`TeamsApart`); costs of disjoint sets add up (`CostOfBoth`, `CostByKey`), so
    the chargeback, the projects and the people come to one sum. `LastOnes` is the savings report that reaches
    its limit.
  * The ceilings: after each row, what `from_rows` has kept is the lowest limit so far and refuses if a row with it
    does (`CeilingOf`, `TighterSound`), an induction over the rows (`FromRowsSound`).

### Only model-checked

* All liveness (`CountersComeToRest`, `EveryEventPersisted`, `OverblockingEnds`, `TrafficReturns`,
  `StreamsClose`, `ZeroRetentionEmpties`, `SchedulerSends`, `OverspendReported`, `PolicyTakesEffect`,
  `StartsAgain`, `Converges`): liveness under fairness is out of reach of the prover.
* `StreamSafety`: what a client has put together is a fold over the chunks of the provider's payloads.

---

## 5. Where code and text disagree

One disagreement is a run: `picture_told`. `cache/fingerprint.rs:58` says that everything that can change
the response is hashed; `compute` hashes the text of each message and nothing of its images, so two questions
with the same words and different pictures share an entry.

The others are documented here, each with the line that says one thing and the line that does another;
the models do what the code does.

*Counters and bills*
* `emit` corrects other counters than were reserved: the assignee's spend counter and a stream's region keep
  the estimate (`metering/usage.rs:396`).
* A stream that cannot be routed returns its error with the reservation held (`routes/openai_compat.rs:1669`).
* An overlap of two requests at two passes looks like one stale drift, and the repair forgives it
  (`workers/reconciliation.rs:237` against `:193-194`); `ForgivenessBounded` says how much.
* Cached tokens of a stream are not billed (`routes/openai_compat.rs:1745-1753`), and a usage event that
  cannot be appended is logged only, which `metering/usage.rs:3` excludes.
* A request reads prices several times and may meet two tables (`lib.rs:137-140` against
  `routes/openai_compat.rs:720,736,825,830,841`).
* A soft lower limit hides a hard higher one on its scope (`middleware/budget.rs:329`).
* A client that leaves drops the generator at a `yield`, and the metering behind the last `yield` never runs
  (`routes/openai_compat.rs:1793-1904`, `routes/anthropic_compat.rs:738-760`): the stream is not billed, its
  reservation is not corrected and no breaker is told, against `routes/openai_compat.rs:1608-1610` ("a client
  that disconnects mid-stream is still billed"), `:1793` and `routes/anthropic_compat.rs:738-739` ("This runs
  even if the client disconnected"). `StreamsClose` and `BilledAsReported` are about streams whose client stays.
* At midnight of the month a reservation and its correction go to different keys (`metering/usage.rs:388`).
* `Invoice::build`, `consume_credits`, `ApprovalPolicy::evaluate`, `license::verify` and
  `cheapest_at_or_below` have no caller.

*Prices and models*
* "First registration wins, which keeps `gpt-4o` pointing at OpenAI" (`metering/pricing.rs:303-305`) is of the
  seed: a table loaded from the database is registered in the order of identifiers (`db/repo.rs:1997`), so a
  bare name goes to the provider that is first in the alphabet. A reload that adds `groq/kimi-k2` takes
  `kimi-k2` from Moonshot. `NameKept` excepts such newcomers.
* Retired models, "Retained but INACTIVE, so a historical usage record can still be priced"
  (`metering/pricing.rs:1049-1050`), are gone once the table comes from the database (`db/repo.rs:1996`); a model
  removed while a request is out costs nothing; `upsert_pricing` leaves out the columns of cached and
  long-context rates.
* The list lets "a customer see what a model costs before sending it anything"
  (`routes/openai_compat.rs:2181-2182`); virtual models are on it for every key at a price of 0 and with a
  window of a million tokens (`:2197-2221`), whatever the key may use, and stand for nothing when the model of
  their alias is not in the table.
* "Strictly cheaper" (`metering/pricing.rs:404-408`) is by a blended price of three parts input and one output: a
  substitute can cost more for the mix of a request.
* "A complex request is never moved down" (`engine/router.rs:37-40`) has the exception of `:274`.

*Prompts and answers*
* `to_openai_response` returns what the provider sent whenever there is a body, which the adapters of Anthropic
  and Google keep as well (`routes/openai_compat.rs:2065-2068`, `providers/anthropic.rs:240`): a caller of chat
  completions gets a body in Anthropic's or Google's format. `:2061` says "Render the outcome as an OpenAI chat
  completion", `types.rs:3-6` and `:309-319` that replies are normalised and that forwarding is only correct
  where the formats match. `AnswerKept` asks for the endpoint's format where the gateway renders the reply, and
  for the texts everywhere.
* A body rebuilt for the Messages endpoint has Google's calls as Google wrote them
  (`routes/anthropic_compat.rs:161-162`), where `:128-131` says that the caller's SDK parses it.
* The pointer to a duplicate block may name a message that was cut (`engine/compressor.rs:394` against
  `:419-420`); truncation may keep a tool's result without its call.
* The bodies built for Anthropic and Google keep the text parts of a message only; tool blocks of the Messages
  endpoint do not reach other providers (`routes/anthropic_compat.rs:3-12`); a rebuilt OpenAI reply without the
  raw one has no tool calls; a rebuilt Anthropic usage has no cached tokens.
* An expired durable row is renewed by a hit on the hot tier (`db/repo.rs:2484`); zero retention drops the
  exact entries and leaves the semantic ones; a semantic hit ignores the parameters of the request, and its
  general threshold is 0.88 where the documentation has 0.95.

*Keys, breakers and streams*
* A key context may be used for two lives and two fills after a change: a request that fills the key LRU from an
  old entry in Redis begins another life. `middleware/auth.rs:16-21` bounds the window "at `KEY_CACHE_TTL` (60
  seconds)", and says that it "only applies if the invalidation itself fails"; a fill that overtakes the
  invalidation, or another replica's LRU, which nothing invalidates, does as well. `StaleOnlySoLong` has the
  bound that holds.
* "Allowing a single probe" (`engine/fallback.rs:41-42`), "no other request should also probe" (`:61`), "exactly
  one caller" (`:255-259`): every result of the provider clears the mark (`record_success`, `record_failure`), a
  late one of a request from before the circuit opened too, and so does the reset. A second request may then
  probe beside the first. `OneProbe` says that this is the only way.
* A stream whose first chunk is a refusal is said to be "cascading to next tier", and an empty one "advancing
  fallback chain" (`routes/openai_compat.rs:1110-1137`); the `continue` is of the inner loop and calls the same
  provider again, without counting a retry, for as long as that happens, and with the probe slot if it has it.
* A probe whose credential does not resolve keeps the slot, and that replica makes no other
  (`engine/fallback.rs:268` against `:61`); `TrafficReturns` excepts it.

*Management and enterprise*
* The removal of a member counts the owners, reads the role and deletes in one transaction that locks nothing
  (`db/repo.rs:875` against `:869`): two removals, or a removal and a demotion, can leave no owner.
  `LastOwnerKept` says that this needs a change between the count and the deletion.
* `set_totp_secret` "does not enable enforcement" (`db/repo.rs:431-434`, `routes/management.rs:469-473`), so
  that nobody is locked out by an enrolment; but it replaces the secret of an account where the factor is
  required, or is about to be by a confirmation of the old one, and asks for no proof and, unlike `totp_disable`
  (`routes/management.rs:575-578`), no password. Then a secret is enforced that nobody has proven. A disabling
  that overlaps a confirmation leaves the factor required and no secret, which `routes/management.rs:378-381`
  calls impossible. `SecondFactorProven` says that nothing else can.
* "One claim per organisation, ever" (`routes/management.rs:3169`, `db/repo.rs:2130`): the check and the credit
  are two statements, and claims that overlap are all credited. An organisation "never accumulates more than one
  Stripe customer" (`routes/management.rs:3244-3247`, `billing/stripe.rs:295`): checkouts that overlap create
  one each, and so does one whose statement fails after the creation. `ClaimsBounded` and `CustomersBounded` say
  how many.
* Stripe's events are applied in the order they come (`routes/management.rs:3396-3404`), and nothing compares
  their times: an older one that comes after a newer leaves the organisation on a plan it does not pay for.
  `PlanCurrent` excepts that (`late`) and nothing else.
* An administrator's keys for a member exclude shared keys (`db/repo.rs:1008-1017` against `:1023`); a CSV report stops
  at 1000 rows; `delete_api_key` does not look at its result.
* The state of a sign-in is read and deleted in two statements (`routes/enterprise.rs:519,522` against `:515`); the
  replay check likewise (`enterprise/sso.rs:149,155`); with two active configurations the newest counts,
  whatever protocol the sign-in began with; the leeway is 60 s, the constant 120 s.
* An offboarded member's seat goes before its keys do (`routes/enterprise.rs:337`); a retry of the call
  finishes it, which is what `Converges` says.

*Workers and operations*
* The additions and loads of the metrics are relaxed (`metrics.rs:5,97-101,122,129`): a quantile may be
  infinite, which `/status` shows as null, because a request was counted before its bucket could be seen.
  `QuantileFinite` says how many that takes.
* A claim is not "exactly one caller": its key expires within the window, and digests repeat
  (`workers/scheduler.rs:32`). An alert's threshold is not part of its stamp, so 80 % silences 100 %.
* A missing partition is said to reject inserts (`db/pool.rs:98`); the DEFAULT partition takes them, and nothing
  moves them, although the second migration says so.
* `health_probe` speaks of failing open where `/ready` takes every instance out at once; the doc of
  `shutdown_signal` (`main.rs:362-366`) is about a handler that is installed later; the 99th percentile of
  `/status` is null beyond 100 ms; the last bucket of a scrape may differ from its count; the
  completeness check may report a gap in the middle of a request.

---

## 6. What is not modelled

* *Data*: text, encodings, ciphertext, the bytes of HTTP and of server-sent events. A fingerprint, an answer,
  a wording is a name.
* *The features* behind the classifier's band, *the arithmetic* of the learned scores, the health score and
  latency estimates: inputs of `Routing`, every outcome of which is allowed.
* *Embedding models and the vector store* (similarity is a given table), *SAML* (its sign-in ends in the same
  steps as OpenID Connect), *the capacity of the key LRU* (an eviction is a miss), *the calendar month of the
  ledger* (one month; `BudgetAlerts` and `Lifecycle` have month ends).
* *Purges and other periodic jobs that may repeat without effect*, *exports and endpoints that only read*, *rosters
  of teams* beyond the team of a key.
* *Stripe* is taken to have one subscription of an organisation. *Names of models*: those with two slashes, in another
  case or with a date are not in `Catalogue`.
* *Licence and residency*: a signature check without a caller, a comparison of names.
* *Cryptography, address filters, headers, configuration text, telemetry*: stateless. *Web console, SDKs, editor
  extension, infrastructure*: clients of the API and deployment.

---

## 7. Plan

Done: every component of section 1 that is modelled has its module and its run. Every safety invariant the runs check
is a theorem but `StreamSafety`, and so are the refinements `AtomicSpec`, `LogSpec` and `MessageOrder`. What is left:

1. `StreamSafety`: needs an invariant that relates what the client has put together to the provider's payloads
   read so far, through the decoder's state and the queue, in the manner of `FlowInv`.
2. Handlers of `management.rs` that are not modelled: rosters beyond a key's team, exports.
