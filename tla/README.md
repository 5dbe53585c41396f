# TLA+ models of the Principal AI Engineer Handbook's labs and podcast pipeline

The repository is a handbook whose chapters come with small runnable systems
("labs", Python, mostly asyncio) and with a TypeScript pipeline that turns
chapters into podcast episodes. What can go wrong in them and a unit test hardly
reaches is the interleaving: a worker that wakes up after its lease, a breaker
probed by two requests at once, an approval that arrives as its timeout fires, a
stage that fails with files written and money spent. Around them stand calculations
whose boundaries are as easy to get wrong: a threshold that is fitted, a share that is
rounded, a chunk that is cut. The modules here model both, TLC checks them on small
instances, and TLAPS proves the core for all of them. Paths below are relative to the repository's root.

## 1. Inventory

| Component | State it keeps | Operations | What makes it hard |
|---|---|---|---|
| `labs/durable-agent-task-engine`, `store.py` | tasks, idempotency index, leases handed out | submit, lease (with reclaim and burial), heartbeat, checkpoint, ack, fail, requeue | leases expire while their holders work; stale calls arrive at any time |
| same, `worker.py`, `app.py` | semaphore, in-flight set, `_stopping` | poll loop, handler, result, shutdown, cancellation | permits travel between coroutines; drain against lease expiry |
| `labs/async-ai-gateway`, `resilience.py`, `fallback.py` | one breaker per provider | allow, record, generate, stream | results of one era recorded in another; ends nobody records |
| same, `gateway.py`, `health_aware.py`, `lifecycle.py`, `secure_app.py` | permits, provider health, active count | admit, attempt, retry, deadline, stream, drain | a waiter times out as it is woken; streams that are abandoned |
| same, `rate_limit.py`, `tenant_limits.py`, `distributed_rate_limit.py` | token buckets, in memory and in Redis | acquire | replicas refill one bucket with their own clocks |
| same, `health_routing.py`, `draining.py` | scores, counters | select, record, enter, leave | earlier forms of `health_aware.py` and `lifecycle.py`; only tests use them |
| same, `auth.py`, `policy.py`, HTTP adapters, telemetry | none that outlives a request | checks, I/O | - |
| `labs/policy-gated-tool-runtime` | buckets, approval requests, audit log | call, decide | timeout, decision and cancellation of one approval race |
| `labs/dynamic-batching-inference`, `batcher.py` | pending list, event, batches out | submit, run, flush, shutdown | two flushers; cancelled callers; a handler that breaks its contract |
| same, `router.py` | versions, weights, metrics | register, promote, roll back, route | a version replaced under load |
| `labs/agent-identity-broker` | the clock, the tokens in circulation | sign in, exchange, call, measure | chains of exchanges: scope, audience, lifetime and the list of actors must all narrow |
| `labs/multi-tenant-mcp-server` | tenants by token and by id, resources by token | register, list, call | awaits between check, handler and filter, while a token or a tenant is registered anew |
| `labs/slo-driven-ai-operations` | outcomes, replicas, cooldown, incidents | record, decide, set by hand, trigger, run a runbook's steps | a page overrides a cooldown; windows that overlap; history that is pruned |
| `labs/model-router` | catalogue, policy | route, escalate | a budget on one path and not on the other; ties |
| `labs/region-failover-budget` | probes seen, trigger, region | observe, fail over | blips, silence and an outage in any order; fast detection against false alarms |
| `labs/semantic-cache` | entries, an exact and a nearest tier | put, get | scopes, expiry and thresholds meet in one lookup |
| `labs/langgraph-checkpoint-cost` | checkpoints, writes, what both cost | run a graph, read back, approve | state rebuilt from a snapshot and the writes after it |
| `labs/hybrid-retrieval` | chunks of documents | add, search, evaluate | overlaps at the size limit; documents that shrink; two rankings fused |
| `labs/evaluation-platform` | runs of two arms | grade, repeat, compare | small counts, equal and certain rates |
| `labs/decision-tier-calibration` | records of decisions | fit, sweep, bin | accuracy is not monotonic in the threshold; ties stand or fall together |
| `packages/podcast-engine`, the `plan` and `create` commands | a run directory's files, the manifest, usage | plan, write, review, speak, join, record | a stage fails with work already on disk and money already spent |
| same, `apportion.ts`, `budget.ts`, `ids.ts`, and `source-pack.ts` of `packages/handbook-content` | none | select sources, name excerpts, divide an episode's seconds, bound its calls | rounding; headings that collide; budgets reached exactly |
| same, `estimate.ts`, `transcript.ts`, schemas | none | prices and text | - |
| `packages/podcast-providers` | child processes | complete, synthesise | processes that hang; answers that are billed and useless |
| `scripts`, publishing the series | run directories, published files, the audio store, players on pages | generate, publish, wire, archive, re-render | interrupted anywhere, resumed from the files alone, mixed with commands given by hand |
| `packages/handbook-content`, `packages/shared` | none | load, parse | - |
| `apps/handbook`, `packages/ui`, `packages/components`, the other `scripts` | none | a static site, one-shot checks | - |

The labs do not call each other. Inside a lab the components share one event loop
and its objects: workers call the store, the gateway calls selector, semaphore and
drain manager, the tool gateway calls limiter, approval queue and audit log. So
an action of a model is the code between two points where a coroutine really
suspends. An `async with lock` whose holder never awaits inside it is no such
point; a semaphore without a free permit, a sleep, a future, a provider's or a
handler's work are. The pipeline is one process per episode, which the series' shell
script starts again and again; they communicate through files, so there an action
is what happens between two calls or writes that can fail or be cut off.

For each component its correctness, in a sentence: the store delivers every
accepted task until it is settled and lets only the newest holder change it; the
worker keeps its permits and never reports what the store does not know; the
breaker sheds load while open and always gets out of half-open; the gateway
conserves capacity and drains completely; the tool gateway runs nothing
high-risk unapproved and says truthfully what it did; the batcher gives each
request its own answer and forgets none; an episode's manifest tells what is on disk
and what it cost, and its words are safe before a voice speaks them; the series
publishes audio with its own words. An autoscaler is answerable to its history, a token
bucket to time, a version's metrics to the requests it served; an exchanged token opens
less than the one it came from, and a tenant gets what it was granted. A
region is given up when it is down, and in time; a cache answers a question like
the one asked; escalation costs what it says; a checkpoint gives back what was
measured; what is fitted, compared, found or planned is what the definitions promise. The full list of hazards, each at its line and with the
properties that would catch it, is `hazards` in `PROJECT.json`.

## 2. Modules

| Module | Models | State and actions |
|---|---|---|
| `TaskLifecycle` | what the engine promises of one task | phase, tries, holder, tokens, saved fields; accept, deliver, save, finish, give back, set aside, revive |
| `TaskStore` | `store.py`, `models.py` | one action per method of `InMemoryTaskStore`; `issued` remembers every `Lease`, a token is its position there; `CallerActs` presents any of them again |
| `TaskWorker` (extends `TaskStore`) | `worker.py`, the lifespan in `app.py` | the loop from one suspension to the next (`PollEnds`, `LoopLeases`, ...), each `_process` task (`HandlerReturns`, `HandlerRaises`, `EmitEnds`), `Shutdown` and its two ends |
| `TaskEngineProofs` (extends `TaskWorker`) | - | the proofs of the store and of the workers over it |
| `FallbackProvider` | `resilience.py`, `fallback.py` | breakers, and each request's walk along the providers: `Starts`, `Answers`, `Fails`, `Aborts`, `SendsChunk` |
| `FallbackProviderProofs` | - | the proof of the breakers |
| `Gateway` | `gateway.py`, `health_aware.py`, `lifecycle.py`, `secure_app.py` | the semaphore with its queue (`Release` wakes the first sleeper, `Leaves` takes a waiter out), each request from admission to its end - a stream gives its permit back with its last chunk and leaves the drain when it `Closes` -, health records, the drain |
| `GatewayProofs` | - | the proofs of permits, drain and ejection |
| `ToolGateway` | `gateway.py`, `approval.py`, `rate_limit.py`, `audit.py` of the tool runtime | buckets, approval requests, audit entries, each call's stages |
| `ToolGatewayProofs` | - | the proofs of gate, audit trail and rate limit |
| `DynamicBatcher` | `batcher.py`, the lifespan in `app.py` | futures, `_pending`, `_batch_full`, the two flushers and their batches |
| `DynamicBatcherProofs` | - | the proof that nobody is forgotten |
| `EpisodePipeline` | `cli.ts`, `create.ts`, `plan.ts`, `dialogue.ts`, `review.ts`, `episode.ts`, `run.ts`, `manifest.ts`, the local TTS runner | processes that share `files`, the run directories; each goes from reservation through plan, beats with their reviews and revisions, script, transcript, turns and audio to its manifest; every call and write has its failures, and a kill may come anywhere |
| `EpisodeProofs` | - | the proofs of manifest, words and bill, and of players and uploads |
| `EpisodePlanning` | `source-pack.ts`, `ids.ts`, `apportion.ts`, `budget.ts` | what is one step of `EpisodePipeline`: the source pack of any page, depth and token budget (`BuildSourcePack`), the ids of its excerpts, the seconds of every draft a model may answer (`ModelDrafts`), the segment budget; `PlanGrounded` speaks of the pack (`PackClosed`) and of the plan (`DraftGrounded`) |
| `EpisodeSeries` | `generate-series.sh`, `publish-episode.sh`, `page-transcript.sh`, `wire-episode.ts`, `archive-episode.ts`, `rerender-transcripts.ts`, `episode-plan.ts` | what each page has published, named by the run it comes from, or torn; the pages still to do, the smallest first; the shell's place in the scripts; commands given by hand. A run of `EpisodePipeline` is one step here: it leaves nothing, its words, or its words and its audio |
| `RateLimits` | `rate_limit.py`, `tenant_limits.py`, `distributed_rate_limit.py`, `runtime.py` | buckets; `Acquire` in the process; for Redis a replica `Sends` its clock reading and the script `Runs` later, in any order, or is `Lost`; `lag` and `forgiven` account for what was credited too early |
| `Operations` | `slo.py`, `autoscaler.py`, `runbook.py`, `app.py` of the operations lab | outcomes (a set of numbered ones), replicas, incidents; `Record`, `Autoscale`, `SetByHand`, `TriggerIncident`, one step of a runbook (`StepEnds`); `history` remembers what was pruned |
| `CanaryRouter` | `router.py` of the batching lab | versions, weights, metrics by generation; `Register`, `Promote`, `Rollback`, a request from `Infers` to `Ends` |
| `Identity` | `broker.py`, `resource_server.py`, `blast_radius.py` | the tokens minted and their parents; `IssueUserToken`, `Exchange`; what a token opens is a state function |
| `Tenancy` | `tenancy.py`, `auth.py`, `middleware.py`, `server.py` | the three indexes; a request for any of the eight scoped methods or `server/discover` `Arrives`, is scoped, handled and filtered while somebody registers |
| `Failover` | `triggers.py`, `simulate.py`, `scenario.py`, `budget.py` | probes seen and what fired (both by time), one trigger state per trigger; `Probe` |
| `SemanticCache` | `cache.py` of the cache | entries and the exact index; `Put`, time; a lookup is a state function |
| `Labs` (extends `RateLimits`) | - | instances of the modules of eleven more labs or parts (`CanaryRouter`, `Identity`, `Tenancy`, `SemanticCache`, `ModelRouting`, `Operations`, `Failover`, `CheckpointCost`, `Evaluation`, `DecisionTier`, `EpisodePlanning`), each in variables of its own, with a specification and a property of each |
| `LabsProofs` (extends `Labs`) | - | the proofs of quota, traffic, delegation, isolation, cache, escalation, operations, detection, checkpoints and evaluation |
| `PlanningProofs` (extends `LabsProofs`) | - | the proofs of packs, plans and fits |
| `Lists` | `sum()` and `reduce()` where the labs use them | the sum of a list; with it the few operators of the community modules that `CheckpointCost`, `DecisionTier` and `EpisodePlanning` use, since an instance in `Labs` of all of `SequencesExt` doubles the time its proofs take |
| `ModelRouting` | `registry.py`, `policy.py`, `router.py`, `workload.py` | a registry and a policy; `Handle` runs one task with and without escalation |
| `CheckpointCost` | `graphs.py`, `measuring_saver.py`, `resume.py` | a channel, its snapshot and the writes after it, what was measured; the `Input` is the channel's first update, each `Step` another; and the approval graph's request and answer |
| `DecisionTier` | `records.py`, `threshold.py`, `metrics.py` | records, and sets of their places; fitting, sweeping and binning are operators over them; where an error equals its target the rounding of floats decides (`RoundedUp`) |
| `Evaluation` | `runner.py`, `significance.py` | counts of two arms, repeated passes; comparison is an operator over them |
| `RetrievalIndex` | `chunking.py`, `index.py`, `fusion.py`, `lexical.py`, `reranker.py`, `evaluation.py` | chunks by id; `AddDocument`, `Search` |
| `MCLabs` (extends `Labs`) | - | the thirteen modules from `RateLimits` to `RetrievalIndex` and `EpisodePlanning` side by side: `lab` says which one a behaviour is of, the variables of the others do not move |

An operator preceded by the comment "Slip", or followed by the comment "mutant", is
not part of a specification: it is
a definition as a plausible mistake would have written it, kept so that each
property is known to notice at least one such mistake (`mutants` in
`PROJECT.json`).

Data is abstracted to what the properties tell apart. A checkpoint field holds the
token of the lease that saved it last; a batch output is the payload it was computed
from; a rate limiter's tokens are counted in units that keep them whole; text,
latencies and metrics are left out. Time is a natural number that the
environment advances.

## 3. Runs

Every `cfg` gives small sets; what they bound and why that is enough:

* **MCTaskStore** (996,145 states): two tasks in one queue, two deliveries each, one
  revival, one checkpoint field. Two tasks are what index and burial of one task
  during another's lease need, two deliveries what a stale holder against a current
  one needs; a third would only add more stale tokens of the same kind, and the
  theorems of section 5 cover all numbers. `MaxTime` bounds the clock only while nothing is
  due, so every deadline is passed in some behaviour.
* **MCTaskWorker** (533,846 states): two workers on one queue. One has two permits and
  is shut down at any moment; the other stays, with one permit. The first handler
  may hang. One task: permits, zombies and the drain show with several
  deliveries of it. `Saving` and `Hanging` name the lease whose handler saves,
  and the one that need not end.
* **MCFallbackProvider** (221,690 states): three requests and a stream, two providers, a
  threshold of two, time for two eras, one unrecorded end.
* **MCGateway** (237,698 states): two requests and a stream for one permit, two
  providers, two attempts; so one holds the permit while two queue, and a
  woken waiter can time out in front of another.
* **MCToolGateway** (481,490 states): three calls of two tenants and two tools, a
  bucket of two calls, so that the third is denied or refilled for.
* **MCDynamicBatcher** (39,568 states): four requests and batches of two, so that a
  second batch fills while the first is out and `shutdown()` finds a third.
* **MCEpisodePipeline** (201,344 states): two `create` runs, one of them with
  `--skip-review`, and a `plan` run that all draw the same directory name; two beats, so that one fails
  after another was paid for. A beat stands for one turn: turns are spoken one
  after the other and each fails alike.
* **MCEpisodeSeries** (1,271,253 states): two pages, two runs of each, so that one run's files
  meet another's, whole or torn; two starts, two commands by hand: besides the series, which makes runs that
  it does not publish, that is enough to make a second run and publish it over the first, to publish
  without an upload and wire, or to archive a newer run and re-render. There is one shell: in
  two, a page is paid for twice, as the queue is computed once per start. With two pages the
  stop after two failures in a row comes at the end of the queue; nothing depends on it but cost.
* **MCLabs** (288,713 states), the sum of thirteen small systems which share nothing.
  `RateLimits`: one bucket of two tokens, local or shared (buckets do not know of each other), two scripts on
  their way, clocks one unit apart, and an expiry that is too short to fill a bucket, so that a
  script of an older reading runs after a newer one and after an expiry. `Operations`: two alert
  rules whose windows overlap and one of which looks further back than the SLO, two outcomes,
  one incident of two steps, replicas set by hand beyond the maximum. `CanaryRouter`: two
  versions, three registrations, two requests out at once. `Identity`: three tokens, so that one is
  exchanged twice; two agents, two users and two servers, the scope of one tool. `Tenancy`: two tokens that may
  become anybody's in three registrations during one request. `Failover`: every sequence of seven
  probes with any outage in it, for windows and runs of one and three. `SemanticCache`: three questions, two
  of them near each other, three entries, time for an entry to expire and be asked for again, two
  thresholds, one of them a similarity that occurs. `ModelRouting`: every
  registry of three models with two prices and three qualities, two tasks, a budget cap on a quality floor only. `CheckpointCost`: the input and seven
  steps, snapshot frequencies 1, 2, 3 and 5, so that a run ends on and off
  a snapshot. `DecisionTier`: every list of up to four records out of eight, bins of two and four, errors
  of none, a third and a half aimed at, the one that floats get wrong among them. `Evaluation`: every pair
  of counts up to 14 per arm - the smallest that cross five expected hits and misses on either
  side - and three passes over three examples. `RetrievalIndex`: four
  texts around a size limit of seven characters, two additions, searches over up to three
  chunks. `EpisodePlanning`: a site of four pages with a cycle, a self-link and a dead one,
  another with headings that collide; drafts of up to three beats and three excerpts.

`CHECK_DEADLOCK FALSE` stands in each: requests are made once and a store with
nothing left to deliver rests. `MCLabs` claims no liveness and assumes no fairness.

Fairness is assumed where the code gives a reason, and nowhere else. The event loop
runs what is ready and timers fire (`Loop`, `DrainEnds` or `DrainTimesOut`,
`LoopFlushes`, time). Handlers and providers that the code bounds by nothing are
assumed to end, except those of `Hanging`: a handler of the task engine has no
timeout, and `EveryTaskSettles` says precisely what is left of liveness then.
Nobody has to submit, requeue, decide, save, heartbeat or shut down. The pipeline's
process takes its own steps and its timer fires (`OwnStep`), but a TTS
runner need not end: `RunEnds` rests on its timeout. The engine sets none on
model calls; that they end rests on Node's `fetch`, which gives up on a silent
server after minutes. The series' commands end, by
`RunEnds` and of themselves.

## 4. Where the code and its documents differ

Three runs end in a violation, each of one property that quotes a document:

* **MCFallbackProbeAllowed**: a probe that ends with an exception other than
  `ConnectionError` and `TimeoutError`, with a cancellation, or as an abandoned stream
  keeps the probe lock. The breaker then reports half-open and refuses everything,
  for good.
* **MCDynamicBatcherHears**: a handler that returns the wrong number of outputs
  makes `zip(strict=True)` raise outside the `try`: the loop is gone and the
  waiters without an output hang.
* **MCEpisodeSeriesResumes**: `generate-series.sh:9-11` says that an interrupted run
  picks up where it stopped. A page counts as done when its transcript exists, and
  `publish-episode.sh:62` writes that before the upload and the wiring; interrupted
  there, the page is passed over by every later start. A transcript that was cut off while it was
  written exists as well.

Others that the models show and no run repeats: an ack that comes after
`leased_until` is accepted until the next `lease()` on the queue reclaims the task,
although `store.py:23` says it is rejected (`SuccessReportedOnce` and
`NewestLeaseRules` hold all the same); a straggler's result frees the lock
of a probe it has nothing to do with, so two probes can be out; a stream falls back
after chunks were sent, although the comment at `fallback.py:40` rules that out;
`stream()` selects its provider before it queues; a call cancelled in the tool
gateway leaves no audit entry; batches grow beyond `max_batch_size` while the
handler works; leasing does not move `available_at`, although `models.py:41-44`
says so; a failed plan command's manifest lists no `plan.json`;
`archive-episode.ts --all` takes the newest run with words even if it was never spoken, and
`rerender-transcripts.ts` then puts those words on the page; what the dialogue stage spent
before one of its beats failed is in no manifest, because `writeDialogue()` returns its usage
with its result, although `docs/PODCAST.md:163` says that a failed run's manifest has everything
spent up to the failure (`BillHonest` leaves that stage out). Most are in `hazards`, with notes.

And in the labs that `MCLabs` checks:

* at the maximum of replicas a page falls through to the normal branch and may
  scale *down* (`autoscaler.py:33-35`); `register()` forgets a cooldown;
* a shared bucket's fixed expiry of 3600 s gives a full bucket back to who has spent it; nothing asks that
  a bucket refill within it. `QuotaHeld` counts what that gives away (`forgiven`) and says that it is
  nothing where `Ttl * Refill >= Capacity`;
* a tenant reads any resource and gets any prompt, granted or not: of the eight scoped methods the
  middleware holds two listings and the call to the grants. The server registers no resources, and
  `labs/multi-tenant-mcp-server/README.md:116` leaves read isolation as an exercise;
* an alert rule that looks further back than the SLO's window sees what that window keeps; a scaling
  policy whose `min` is above its `max` scales to `min`;
* the lab's `README.md:38-41`, `measuring_saver.py:16-20` and `tests/test_measuring_saver.py:89-91` say that the
  state of a delta channel never appears in what `put()` is given, `resume.py:3-5` that a full
  snapshot is written every `snapshot_frequency` updates, which `put()` then measures. The model follows
  the latter, which `tests/test_read_path.py:24` needs: the input is the first update, so 60 steps at
  a frequency of 5 leave one write to replay. Whatever else makes LangGraph
  take a snapshot is left out: nothing in the repository counts on it;
* a version that is registered anew gets a batcher whose loop `app.py` does not start;
* a chain of exchanges is not capped by the expiry of the token it began with;
* a similar question may be answered with the older answer of a question that was put again;
* escalation is not held to the ceiling of `BudgetCapped`; `best_for` breaks ties by the last
  name and `QualityFloor` by the first, so of equal models a second one may be asked;
* `add_document` leaves the chunks beyond the end of a shorter new version in
  the index; adjacent sections of one title share a chunk;
* `approximation_is_usable` computes `n * (1 - p)` in floats: exactly five expected misses
  are refused where five expected hits are accepted (18 of 28 against 10 of 28). That halving a delta
  at least quadruples the dataset, as `labs/evaluation-platform/README.md` says, fails at low baselines; a
  confidence interval may exclude zero where `is_significant` is false;
  `smallest_detectable_delta` is an approximate inverse only;
* `fit_threshold()` promises the lowest threshold whose kept answers are wrong no more than
  `target_error` of the time. `threshold.py:78` compares `1 - right / kept` with it in floats: one
  wrong of three at 1/3, five of a hundred at 0.05 or three of ten at 0.3 come out above, and the
  threshold is refused. `RoundedUp` lists such ties, and `FittedAsPromised` holds of those the code
  accepts, whichever they are. The target the lab itself uses, 0.10, is never refused so;
* `assertWithinBudget` (`budget.ts:102`) has no caller, although its comment says that without
  it the budget is advice.

## 5. Proofs

`TaskEngineProofs` proves of `TaskStore`, for all queues, keys, numbers of tasks,
attempt limits, lease times and delays, from `StoreAssumption` alone:

| Theorem | States |
|---|---|
| `TypeCorrect` | `StoreSpec => []StoreTypeOK` |
| `FencingCorrect` | `StoreSpec => []NewestLeaseRules` |
| `IdempotentSubmission` | `StoreSpec => []IndexFaithful` |
| `CheckpointsCorrect` | `StoreSpec => []CheckpointsFollowLeases` |
| `DeadLettersExplained` | `StoreSpec => []DeadLetterExplained` |
| `DeliveryInTime` | `StoreSpec => NoEarlyDelivery` |
| `StoreImplementsLifecycle` | `StoreSpec => EveryTaskLives`, the refinement of `TaskLifecycle` by each task |

The argument has two layers. `lease()` is the difficult step: it reclaims many tasks,
buries some and hands out one. `NextShape` reduces every step of the store to one of
three shapes - a task is created, tasks are moved, or tasks are moved and one is
granted - and what may happen to one task in each (`MovedFacts`, `GrantedFacts`) is
proved once. The invariants then only look at shapes. `NewestLeaseRules` is not
inductive without the types, so the two are proved together as `Fenced`;
`CheckpointIntegrity` needs to know that no saved token is newer than the newest
lease and that an absent task is untouched, which makes `Recorded`. The
refinement and the action property follow from `Fenced`.

Its second part proves of `TaskWorker`, for any workers,
concurrencies, leases saved under and handlers that hang, from `StoreAssumption` and
`WorkerAssumption`:

| Theorem | States |
|---|---|
| `WorkInvAlways` | `Spec => []WorkInv` |
| `PermitsCorrect` | `Spec => []PermitsConserved` |
| `ReportsCorrect` | `Spec => []SuccessReportedOnce` |
| `ShutdownCorrect` | `Spec => []ShutdownSettles` |

Every step of a worker is a step of the store or leaves it alone, so `Fenced` is taken from
there. `WorkInv` adds that each lease has one `_process` task (`RunsTyped`), that permits and handlers in
flight add up (`Conserved`), one report for each completed task (`Reported`), what `shutdown()` has
reached (`Stopped`), and that the store has let go of every lease whose handler ended
(`Settled`) - without that last one, a lease could be acked twice and reported twice. For the permits,
steps have four shapes: nothing changes, a lease takes a permit, a handler goes on or gives
one back, a cut gives back all.

`FallbackProviderProofs`, for any number of providers and requests, every threshold and timeout, from
`FallbackAssumption`:

| Theorem | States |
|---|---|
| `CircuitCorrect` | `Spec => []CircuitSound` |

`CircuitSound` is inductive but for one thing: that a request which is calling is at a
provider (`Placed`). The proof looks at one breaker (`Coherent`) and at the request that holds its lock;
the case that needs care is the straggler, whose result arrives while another
one's probe is out.

`GatewayProofs`, for any finite set of requests, any concurrency, attempts and
providers, from `GatewayAssumption`:

| Theorem | States |
|---|---|
| `GatewayInvAlways` | `Spec => []GatewayInv` |
| `CapacityCorrect` | `Spec => []CapacityConserved` |
| `DrainCorrect` | `Spec => []DrainedIsQuiet` |
| `EjectionCorrect` | `Spec => EjectedSpared`, an action property |

The requests are finite because permits are counted against sets of them. `PermitsKept` needs that the queue
is in order: a sequence of exactly those who sleep or were woken, each once. Whatever
frees or passes on a permit is an instance of `Wake`, and `WakeConserves` says what that does to the
account; the case that makes it non-trivial is a woken waiter that times out and must
wake another. The drain's account is another one (`Counted`): a stream stays in it when its
permit is free again, until it `Closes` or is abandoned there.

`ToolGatewayProofs`, for any finite set of calls, any tenants, tools, rates and times, from
`ToolGatewayAssumption`:

| Theorem | States |
|---|---|
| `GateCorrect` | `Spec => []ApprovalGate` |
| `AuditCorrect` | `Spec => []AuditTellsWhatHappened` |
| `RateCorrect` | `Spec => []RateLimited` |

`GateInv` says where a call can stand (`Stands`): its phase, the status of its approval and whether
its handler was started only occur together in some combinations. `AuditInv` adds what the log
holds of each call (`Told`). `RateLimited` is about every window of time, which no bucket
remembers; it becomes inductive with an account of each bucket (`Paid`): what any window up to the last
refill let through and what is left in the bucket are paid for by a full bucket and its
refill, and one window used that up, which is why a denial is just.

`DynamicBatcherProofs`, for any requests and every batch size, from `BatcherAssumption`:

| Theorem | States |
|---|---|
| `BatcherCorrect` | `Spec => []NobodyForgotten` |

`HoldsInv` adds to it that `_pending` and the two flushers' batches hold nobody twice, alone or together
(`OnceHeld`), and only what `submit()` accepted (`HeldAccepted`): without these an answer could go to a request that
was answered, or did not ask.

`EpisodeProofs`, of `EpisodePipeline` for any number of runs, directories and beats, from
`PipelineAssumption`:

| Theorem | States |
|---|---|
| `PipelineInvAlways` | `Spec => []PipelineInv` |
| `ManifestCorrect` | `Spec => []ManifestTells` |
| `WordsCorrect` | `Spec => []WordsBeforeVoice` |
| `BillCorrect` | `Spec => []BillHonest` |

Runs share nothing but the names of the directories, and no two hold the same one (`OwnDirs`), so the invariant is about
one run and `RunSteps` carries it over to all. `RunInv` has three parts: `Accounts`, stage by stage
what was billed, what the process knows of it and how many beats and reviews it stands for (`PaysFor`);
`Filed`, which files are whole; `ManifestSays`, what was written last and from which variables. Every failure of a call or
a write ends in one of a few ways (`EndsBadly`), and the torn rewrite of the transcript beside the
finished audio is why `WordsBeforeVoice` allows either to be the whole one.

`EpisodeProofs`, of `EpisodeSeries` for any number of pages, runs, starts and commands by hand, from
`SeriesAssumption`:

| Theorem | States |
|---|---|
| `PlayersCorrect` | `SeriesSpec => []PlayersPlay` |
| `UploadCorrect` | `SeriesSpec => UploadSealsTheWords`, an action property |

A publication places one file after the other, and an interruption leaves what was placed, the last
perhaps torn. `Sealed` says, by
the place the shell has reached, which files are already those of the run being published; it is what
the upload relies on. `PlayersPlay` needs that a run which was complete stays so and stays where it is in its
directory's order (`Grows`), since files name the run they come from; archiving by hand may replace an
archive by a newer run's or tear it, but never removes it. Of a player that was wired by hand nothing follows - `wire-episode.ts`
asks for no audio - so the promise is about the pages the series has been through with (`wired`). A retry of a publication begins again with the encoding, so
nothing is assumed of what the attempt before it left.

`LabsProofs` and, from `FittingCorrect` on, `PlanningProofs` prove of twelve labs or parts, all but the first from
`LabsAssumption`:

| Theorem | States |
|---|---|
| `QuotaCorrect` | `LimitsSpec => []QuotaHeld` |
| `TrafficCorrect` | `RouterSpec => []TrafficTold` of `CanaryRouter` |
| `DelegationCorrect` | `BrokerSpec => []DelegationNarrows` of `Identity` |
| `IsolationCorrect` | `ServerSpec => []AnsweredForItsTenant` of `Tenancy` |
| `CacheCorrect` | `CacheSpec => []CacheAnswers` of `SemanticCache` |
| `EscalationCorrect` | `RoutingSpec => []EscalationAddsUp` of `ModelRouting` |
| `OperationsCorrect` | `OpsSpec => OperatesOnHistory` of `Operations`, an action property |
| `DetectionCorrect` | `RegionSpec => []DetectionSound` of `Failover` |
| `CheckpointsCorrect` | `CheckpointSpec => []ReadsBackWhatWasMeasured` of `CheckpointCost` |
| `EvaluationCorrect` | `EvaluationSpec => []AnswersWhatItCan` of `Evaluation` |
| `FittingCorrect` | `TierSpec => []FittedAsPromised` of `DecisionTier` |
| `PackCorrect` | `PlanningSpec => []Planning!PackClosed` of `EpisodePlanning` |
| `PlanCorrect` | `PlanningSpec => []PlanGrounded` of `EpisodePlanning`, which includes the former |

`QuotaCorrect` holds for every capacity, rate, expiry, skew and any
number of buckets, replicas and calls on their way, from `LimitsAssumption` alone.
`QuotaHeld` is nearly inductive: `LimitsInv` adds that a bucket without a first reading is
untouched, that a local bucket was read last in the past, and that the clock is
ahead of the skew, so that readings are natural numbers. `Acquire` and `Runs` are both
an instance of one reading of a bucket (`Reads`, `OneReading`); what such a reading does
to the account is pure arithmetic: `AccountAdds` for a bucket that is there,
`AccountExpires` for one that Redis dropped, where what it gave away is put on the account (`forgiven`).

`TrafficCorrect` holds for any versions and weights, and a finite set of requests, because metrics are
counted against sets of them. Its strengthening is that a generation belongs to one version and every request that
has it was sent to that version (`Generations`, `Sendings`): a straggler of a version that was
replaced has an older generation and counts for nobody. `Ruling` adds that
a promoted version alone has weight.

`DelegationCorrect` holds for any subjects, agents, scopes and servers, and chains of exchanges of any length.
What `exchange()` narrows it narrows against the token it is given, so the invariant compares each token with its parent
(`Narrows`). What the user at the head of the chain had, which the property is about, follows along the
parents: `AllOfTheirUsers` is an induction over the tokens in the order they were minted, and `Origin` and `FirstAgent`
are recursive functions whose existence has to be shown first (`Unfolds`). Induction over the
numbers is derived from the library's theorem that a set of them has a least one (`EveryNumber`).

`IsolationCorrect` holds for any tokens, tenants, grants, requests of every scoped method and registrations. `LabsAssumption` says of them that
the absence of a tenant is not one, and that no tenant's id is the text of the error, since the property tells a
refusal from an answer by it. What a token stood for only grows while a request is on its
way; `Stands` says by stage what the middleware kept of the request and what the handler answered, so the
three readings of the registry - by the middleware, the handler and the filter - need not agree.

`CacheCorrect` holds for any questions, scopes, similarities, thresholds and lifetimes, and any number of entries. Its
invariant is that the exact tier holds the newest entry of each question (`Newest`), and that entries stand in
the order of their time, so that when it has expired all have. A lookup answers with the first of the
most similar entries; `OneIsNearest` shows that there is one, by the least number of a set, twice.

`EscalationCorrect` holds for any registry, prices, qualities, policies and tasks. A policy's choice is the least of those it
allows by cost, then name (`LeastOf`, `ChosenIsRight`, `BestIsBest`); `RoutingInv` says what the run with escalation and the one
without differ by (`Spendings`): every escalated task has paid for the best model once more, and with an informative signal
the escalated ones are exactly those the first model failed.

`OperationsCorrect` holds for any rules, windows, scaling policies, incidents and runbooks. What `slo.py` prunes is gone from the
state, so a report could miss a failure that its window still covers; `OpsPruned` says that only what is older than the longest
window has left, from which `NothingMissing` and `BurnsAsBurned` follow for every rule - one that looks further back than that sees what is left - and `ReportIsDue` for the report.
`OpsScaled` says that the autoscaler knows its last change, or a later one.

`DetectionCorrect` holds for every outage, any triggers and any number of probes. `Alert` says what a trigger's state holds: what it
`Remembers` of the probes since the region was found healthy after the last fire, or that the region has not been healthy since. `Explained` gives
the probes each fire rests on, all later than the fire before it, and `Caught` the fire that answers an outage which went on for long enough.

`CheckpointsCorrect` holds for each kind of channel, all snapshot frequencies and overheads. What is stored is the last snapshot, after a multiple of the
frequency of updates, and every batch of writes since (`Stored`, `Snapshot`); the first batch is the empty one of the input (`Batch`), which is why updates and steps differ by one. What was measured is
the sum that a closed formula gives (`AddsUp`), and the approval graph's log has the request once and one answer (`HeardOut`).

`EvaluationCorrect` holds for counts of any size. Its invariant is the types; the rest is arithmetic about products of three and four numbers,
which the solver does not do by itself, so each product is opened by a lemma of one step (`TimesMore`, `Squares`). On them rest
`SameAnswers` (arms exchanged, hits counted as misses), `EqualRates`, `BetterStays` (from `OneHitMore`), `LargeEnough` and `NotNoise`; `FlakyMoves` counts sets.

`FittingCorrect` holds for any decisions, targets, ties that rounding refuses, number of records and bins of which the fine are parts of the coarse. The walk of `fit_threshold()` down
the distinct values is a recursive function over sets of them, which has to be shown to exist (`FittingExists`); after each set, what is kept is the records that have
its values, and the best is the least good one (`WalkedDown`). Of one number of options both signals order the records alike (`OneOrder`, `SameOrder`). Bins are
sums over records: each is in one bin (`CountsAdd`), its fine bin is a part of its coarse one (`BinsNest`, `PartOfOne`), and a coarse bucket's gap is
no more than its parts' gaps together (`GapsPart`, `EceNests`).

`PackCorrect` and `PlanCorrect` hold for any site, page, depth, token budget and draft. Their invariant is only that the pack is what `buildSourcePack()`
makes of some page, and the draft one about its excerpts: the rest is what the algorithms compute, in four parts.
The walk over links is a recursive function, which has to be shown to exist (`WalkExists`); its hops reach exactly the pages
`Within` the depth (`HopReaches`, `RelatedIs`). Packing in order keeps a pack whose pages are all accounted for (`Packing`, `PackedIs`). An id gets
the first free suffix; that there is one among as many suffixes as ids, and that the result is new, is the pigeonhole
principle (`NextIdIs`). The largest-remainder method shares an excerpt out completely and within one of the proportion
(`SharedOut`), and the sum over beats of the sums over excerpts is that of the sums over beats (`SumsSwap`).
Each of these computations runs over sequences as long as one likes, so each lemma is an induction of its own along a recursive function,
by `EveryNumber`.

`LabsAssumption` has one conjunct for each of these parts. Three are not types. The
budget's rates are positive, as `assertPlanBudget()` checks. A decision has two options at least, as `typesafe_confidence()` needs, and
`Scale` makes that confidence a whole number for each number of options. And the fine bins are as many as the coarse times a number, since of others
`FittedAsPromised` would not be true.

Each assumption states what the constants are: numbers that are natural or positive, sets of which one contains the
other, a null value that is none of the names. Bounds that only end a model-checking run,
like `MaxTime`, are arbitrary in the theorems. What TLC has checked is the invariant that
each run names; the strengthenings above are proved and not run.

Only model-checked are `FoundAsWritten` of `RetrievalIndex` and all liveness (`EveryTaskSettles`,
`ProbingEnds`, `EveryRequestEnds`, `RunEnds`, `SeriesEnds`), which the prover does not reach. Every other property of a passing run is stated by one of the
theorems above. The calculations of `RetrievalIndex` are folds and sorts of the community modules over sequences: what `FoldLeft` and
`SetToSortSeq` compute for every input rests on facts about operators with an operator parameter, which the provers cannot instantiate.

## 6. Not modelled, and what is left

Left out:

* `health_routing.py` and `draining.py`: earlier forms of what `Gateway` models; no
  app wires them in;
* backoff, percentiles, temperature fitting, graders, embeddings, prices: float
  arithmetic or text on data, without states;
* text and MDX processing, HTTP adapters, telemetry, authentication of API keys: checks and I/O
  whose failures are outcomes of the models' calls;
* `measure.py` of the calibration lab and the demos: they need a network or only print;
* the static site, its components and the one-shot scripts.

What is worth proving next is `FoundAsWritten` of `RetrievalIndex`, with the cuts of a text as a recursive function of its length.
