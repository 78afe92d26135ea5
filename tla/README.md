# CTRL Gateway in TLA+

CTRL Gateway (`src/gateway`) is a Python service on one asyncio event loop that
accepts chat requests of the OpenAI and the Anthropic shape, picks an upstream
model for each, forwards it, accounts for its cost, has a stronger model review
the routing decision, and retrains its own router from the reviews. Its state is
in memory, in a database (SQLite in one process, or PostgreSQL shared by
several) and in a few files. This directory models the parts where the order of
events, or the composition of many small decisions, decides whether the system
is right.

## 1. Inventory

| component | state | operations | talks to | what is hard | module |
|---|---|---|---|---|---|
| circuit breaker (`circuit.py`) | `_state`, a row of `breakers`, the registry | `get`, `allow`, `record_success`, `record_failure` | dispatch, clients, database | two copies, lazy load, restarts in mid-episode, late answers | `CircuitBreaker` |
| dispatch (`app.py`) | breaker snapshot, candidates of a request | choose, try, fall back, stream | breakers, clients, ledger | snapshot used after awaits, two questions to the breaker for one call | `Dispatch` |
| clients and pool (`endpoints.py`) | semaphore, session and breaker per endpoint | `send`, `_stream_send`, `rebuild` | upstreams, breakers | permits on every exit, clients replaced under calls | `Dispatch` |
| routing policy (`policy.py`, `app.py`) | a request, its decision | pre-route, cost-first, budget-aware, redirects, checks | breakers, tenants, plans | many redirects, each after the checks of another | `Policy`, `Routing` |
| responses: transcoder (`transcoder.py`), swarm (`swarm.py`), handler (`app.py`) | a conversation, subtasks, buffers of a stream | translate, plan, run in layers, encode, settle | clients, memory, ledger | chunk boundaries, invented dependencies, pool rebuilt meanwhile | `Conversation`, `Swarm`, `Stream`, `Responses` |
| usage ledger (`memory.py`) | rows of `usage_counters` | reserve, settle | dispatch, swarm | check then insert, another day or endpoint, no settlement | `UsageLedger` |
| tenants (`tenant.py`) | cached limits and semaphore per tenant; `users`, plans | build, refresh, reconfigure, acquire | dispatch, database | states replaced while slots are held | `Tenants` |
| configuration (`config.py`, `admin.py`) | base file, overlay, snapshot | reload, edit, poll, propagate | everything | edits and reloads overlap, refused and unparsable files | `Configuration` |
| review and curation (`reviewer.py`, `memory.py`) | `review_queue`, `review_results`, `feedback`, `curated_samples` | enqueue, review, complain, correct | dispatch, reviewer model, trainer | crash between transactions, complaint racing the review | `ReviewQueue` |
| trainer (`trainer_worker.py`) and neural router (`router.py`) | watermark, versions, checkpoints, boot files | train, gate, promote, roll back, revert, load | review pool | a half-hour run across awaits, boot files read while written | `Trainer` |
| events (`events.py`) | ring, subscriber queues | publish, replay, subscribe | webhooks, dashboard | gap between replay and subscription | `EventBus` |
| webhooks (`webhook_dispatcher.py`) | hooks, deliveries, log, permits | upsert, dispatch, retry | receivers | hooks edited under deliveries, late answers | `Webhooks` |
| observational memory and worker (`memory_observational.py`, `observer_worker.py`) | messages, observations, reflections | record, observe, reflect, assemble, compact | dispatch, observer model | messages that arrive while the model is asked | `Observer`, `Conversation` |
| catalogue (`model_sync.py`, `memory.py`, `app.py`) | rows of `model_catalog` | sync, edit, register | configuration | overlapping synchronisations, edits planned from old rows | `Catalogue` |
| tool federation (`contextforge_client.py`, `memory.py`, `app.py`): agents, virtual servers, tools, prompt templates | rows per name and tenant, synchronisations under way | synchronise, register, edit, delete | ContextForge, database | overlapping synchronisations, rows of several scopes, half-said items | `Federation` |
| tool calls (`mcp_facade.py`, `a2a_registry.py`) and tool cache (`tool_cache.py`) | entries with a time to live, calls awaited | call, store, invalidate, reload | registries, agents | rows and cache change under an awaited call | `ToolCache`, `ToolCalls` |
| plugins | hooks | invoke | dispatch | error modes | none yet |
| authentication, firewall, URL policy, discovery, translation, metrics, other HTTP handlers, dashboard, offline scripts | caches only | lookups, calls to services | | no protocol of their own | none |

What makes them correct:

* breaker: callers see one breaker in spite of its two copies; probes are not
  given twice or lost; an open breaker is due for a probe in the end;
* dispatch and clients: permits are conserved; every request is answered;
* routing: the endpoint decided on is one that tenant and plan allow and where
  the request fits, through all redirects but a translation's, the ladder stays
  in its tier or ends at the fallback, and price decides within the margin it is
  given;
* responses: what is said on one side arrives on the other, once and in order,
  however bytes are cut; a subtask runs after what it depends on; every request
  ends; a swarm is settled at the price of its calls, a stream at the usage that
  its decoder passes on, or else at the estimate;
* ledger: each request's rows add up; no daily sum passes its limit unaccounted;
* tenants and configuration: an edit that was answered stays; the state in
  force is in the end what files and rows say; slots survive every replacement;
* review: a decision is curated at most once; corrections are learned; an item
  is settled in the end and never left to nobody;
* trainer: no sample is written off untrained; only what passed the evaluation
  gate is served after a restart; a failed promotion gives back what it replaced;
* events and webhooks: no tenant learns of another's events; the log tells of
  every attempt whose end was readable and whose row could be written, once;
  deliveries end;
* memory: observations tell the messages once each and in order;
* tools: no answer outlives the row it was read from by more than a call and a
  time to live; the registries come to tell what ContextForge offers;
* catalogue: it comes to tell what the providers offer, and what it registers
  leaves a configuration that says one thing.

`PROJECT.json` lists every hazard at its line, with the properties that cover it.

## 2. Modules

    BreakerRules             rules of one breaker, as operators on records
      CircuitBreaker         one endpoint's breaker with its row and its calls
        -> AbstractBreaker   what callers are promised (refinement)
      Dispatch               several endpoints, ladder, clients, semaphores
        DispatchProofs
    Policy                   which tier and endpoint a request is given
      Routing                one request through choices, redirects and checks
    Reply                    what the ways of answering share
      Conversation           requests and whole answers through the wire shapes
        Stream               streamed answers, chunk by chunk
      Swarm                  subtasks
        Responses            the handler over all three
    UsageLedger              reservations and settlements of one tenant
    Configuration, Tenants   files and snapshots; one tenant's state
      LiveConfiguration      both, propagation by propagation
        LiveConfigurationProofs
    ReviewQueue              worker, queue, feedback, curated pool
    Trainer                  retraining, promotion, rollback, what a restart serves
    Tenancy                  tenants and the scope of an event
      EventBus, Webhooks     streams; hooks and deliveries
        EventDelivery        both behind publish()
          EventDeliveryProofs
    Observer                 messages, observations, reflections
      ObserverProofs
    Catalogue                rows, synchronisations, registrations
    Federation, ToolCache    rows of tools and agents; the cache's rules
      ToolCalls              calls over both
    EndpointProofs           of CircuitBreaker and Catalogue
    TenantProofs             of UsageLedger and ToolCalls
    DecisionProofs           of ReviewQueue and Routing
    ModelProofs              of Trainer and Responses

`MC*` modules give the constants their values; a `.cfg` belongs to one run.
Dispatch uses the breaker rules through `EXTENDS`, so that the breaker that is
proved about and the one the ladder drives are the same operators. A step is
the code between two awaits wherever the code runs on the event loop, and one
transaction or file operation where it runs in a thread. Properties stand at the
end of each module; operators whose comment begins with "Mutant:" stand before
the definition they alter and are used by nothing else. Four proof modules hold
the theorems of two components each, one after the other: the components share
a subject, not a behaviour, and no proof of one uses the other.

### CircuitBreaker (`circuit.py`, the `breakers` table)

`mem` is `_state`, `db` the row, `loaded` whether the registry holds the
breaker, `config` the configuration it was last given. A timestamp is kept as
an age that saturates at `OpenDuration`, since the code only asks whether the
duration has passed. `Load` and `Configure` are the two branches of
`BreakerRegistry.get`, `Admit` and `Refuse` the two answers of `allow()`,
`Succeed` and `Fail` the two verdicts; `EndSilently` is a call that gives none.
Every method holds the breaker's lock and writes the row before it returns, so
each is one step; `Restart` may come between any two. `stragglers`, `probing`,
`granted` and `spent` are history: they follow the calls and let
`ProbesConserved` be stated.

`AbstractBreaker` has no row, no load and no crash. `IsOneBreaker` says that
the copy in memory (or the row when nothing is loaded) moves as it does.

### Dispatch (`app.py`, `endpoints.py`)

A step is the code between two awaits. `Arrive` reads the snapshot and builds
the candidate list; `Forward` starts the ladder; `Walk` is one run of the
ladder up to its next await: candidates are asked in order, each with the
ladder's `allow()` and then the client's, until one takes a permit or queues for
it. The candidates left (`todo`) are a set of positions, the least is next, and
the position behind the tier is the fallback's (`Candidate`). `Resume` wakes the first waiter, `Finish` ends a call in one of four ways and
goes on with the ladder when the code does. `Rebuild` replaces a client: the
new one has a semaphore of its own, the old one's session is closed under its
calls, and its waiters stay. Tiers are one sequence of endpoints; how the tier
was chosen is `Routing`. A slot of `Requests` that has answered takes the
next request.

### Policy and Routing (`policy.py`, `app.py`)

`Policy` is the pure part: `Direct`, `PreRoute`, `CostFirst`, `BudgetAware`,
`Escalated`, `Compacted`, `Downgraded`, `Inherited` and the capacity check, as
operators of a request, the snapshot of the breakers and the loads. Each keeps
the order and the early returns of its function. A loop that stops at its first
match is the least position of a match (`FirstIn`); the candidates of a price
are a set, one per tier, and `Foremost` is the one a stable sort by price puts
first. Prices, fits and success rates
are given per tier and endpoint; token counts stay numbers because windows,
reserves and bumps are compared with them. `Routing` is one request:
`Arrive` and `Price` decide, `Redirect` goes through compaction, access,
inheritance and capacity, `Valid` and `Check` are the last tests before
dispatch (the plan is asked of the endpoint decided on only), `Reserve` and `Try`
send it through the ladder, whose candidates are
numbered (`Rung`) so that those left to try are a set. An administrator may
change the tenant's tiers or its plan at each await. `granted` and `entitled`
are history: what the tenant had at some time since the request arrived.

### Conversation, Swarm, Stream, Responses (`transcoder.py`, `swarm.py`, `app.py`)

`Conversation` follows a request from the client's shape to the upstream's and
the answer back. A message is a role and its parts (texts, images, calls,
results). `DecodeInbound` is the Anthropic request read into the OpenAI shape,
`Assemble` what `memory_observational` adds and compacts, `Encode` the request
written for each of the four kinds of upstream, `Answer` the whole answer read
and written back.

`Swarm` is a run of `execute_swarm`: `Decompose` takes the planner's plan or cuts
the text by paragraphs, with ids renumbered, dependencies filtered and cycles
refused as the code does; `BeginLayer`, `Finish` and `EndLayer` run one layer of
subtasks with `gather`; `Rebuild` is a reload that takes a client out of the
pool at any await; `Synthesize` puts the answers together. `Layers` is the
layering in which every subtask comes right after the last of what it depends
on (`InLayer`), which is what the loop of `_topological_layers` arrives at.
What a layer costs is the size of a set, a unit for each unit of a price
(`Units`), and not a sum that would have to be folded.

`Stream` is the handler's loop over an upstream stream. Every frame is two
halves, and `Receive(n)` delivers the next `n` halves as one chunk, so a chunk
may end between or inside frames; `Close` and `Break` end the stream well or
badly, and `Unprepared` is a client that has gone before its response could be
prepared. `Sent` is the usage that the upstream has sent, `Told` what a decoder
passes on of it: nothing, but for Anthropic's. What the client was written, what the memory keeps and what is settled
follow from it.

`Responses` is the chat handler over the three paths: `Rejected`, `Choose`,
`Reserve` (or `Refuse`), the work, `Settle`.

### UsageLedger (`memory.py`, `tenant.py`, `app.py`)

The rows are kept as the sums the code reads: one per day and scope (the tenant,
or one endpoint). `Reserve` is the whole transaction when reservations are
serialized; `Check` and `Book` are its two halves when they are not.
`Complete`, `Move` then `Rebook`, and `Fail` are the settlements of the chat
handler; `Lose` is a handler that ends without one. `today` is read before the
lock, so `Todays` allows it to be the day before. `net`, `admitted` and
`overrun` are history; `overrun` adds up, per day and scope, usage that no check
of that day has seen: tokens above the estimate, and reservations checked
against another day. It is what makes `QuotaHolds` exact instead of false.
Swarm runs reserve and settle by the same statements under the endpoint name
"swarm".

### Configuration, Tenants, LiveConfiguration (`config.py`, `admin.py`, `tenant.py`)

`Configuration` keeps the base file, the overlay, the snapshot in force and the
version each subsystem was last given. An administrator's handler writes the
overlay and reloads in one step (it does not await in between) and then
propagates in two (`StepPool`, `StepRest`), so propagations overlap; `Abort` is
one that raises. The poller (`Poll`) reloads when the time stamps say so,
`POST /reload` (`ReloadNow`) at any time. `ByHand` edits files from outside and may fall where the
poller's time stamp misses it. `Crash`, `Start` and `Repair` end and begin
processes. Endpoints, one tier and the keys stand for the sections.

`Tenants` is one tenant: `BuildRead` and `BuildStore` are the two halves of
building its state under the manager's lock, while row and plan change; a state
has a generation, because requests keep the semaphore of the state they found.
`LiveConfiguration` lets each propagation's end reconfigure the tenants.

### ReviewQueue (`reviewer.py`, `memory.py`, `app.py`)

Decisions are numbered in queue order, so a batch is a set and `Current` its
oldest decision. `Tick` is a worker's tick up to its only
await, the request to the reviewer; `Answer` is what comes back; after it the
worker runs to the end of the batch without another await, so the actions of one
process (`Store`, `Commit`, `Finish`, ...) exclude its feedback handler, but not
those of other processes and not a crash. `store_review_result` is two steps,
the look at the feedback table and the commit, because transactions of other
processes see neither half. `Complain`, `Look` and `Correct` are
`record_feedback` and `curate_reviewed_correction`. `human` keeps what the
transaction saw; `orphaned` and `interrupted` are history about crashes.

### Trainer (`trainer_worker.py`, `router.py`, `memory.py`, `app.py`)

A version is the number of the run that trained it, an embedding the number of
the run that fine-tuned it, 0 the one deployed; a file is the version it holds,
or `NoFile`, or `Torn`. `disk` is what survives a crash besides the database:
the checkpoints, the two boot files, `embedding.checksum_sha256`, and, as
history, what each run exported and which versions passed the gate. `db` is the
registry (`active`, the promoted and the rolled-back checkpoints) and
`trainer_state`. `router` is the model served and the path it was loaded from.
`queue` is the asyncio lock: the first request holds it, and `run` has its
locals.

`Tick` and `ManualRetrain` ask for a run; `Start`, `Tune`, `Train` and
`Evaluate` are its steps up to the swap, with an await in each of the last
three. From `Swap` on the code never awaits: the later actions are single
steps only so that a load thread, a curation or a crash can come between them,
and everything that needs the event loop waits for `LoopFree`. `Copy` and
`WriteChecksum` are `_persist_as_boot_default`, whose failures are swallowed;
`Raise` is an exception after it, and `Rollback` the `except` branch with
`revert_to_version`. `AdminRevert` takes the versions the dashboard offers.
`revert_to_version` gives the checkpoint to the router and only then writes the
registry (`Revert`), and in `Rollback` the look at the registered hash before it
and the mark after it may raise as well. `Poll` is the configuration poller;
its loader thread reads the boot files three times, `model.onnx` for the checksum
(`LoadVerify`) and for the session (`LoadOpen`), then the heads (`LoadHeads`),
with the copies of a run in between, and `LoadSwap` serves what it has read.
`Restart` is a stop, perhaps in the middle of a copy, and `init_app`.
Keeping the files of the version a run replaces (`Snapshot`) fills only those
its checkpoint lacks; a write that fails, or a stop, leaves some of them cut short
or missing (`SnapshotLeft`, `DiskLeft`), and `Swap` itself may fail.

Abstracted: the drift alarm, the cool-down and the accuracy decide only
whether a tick starts a run, and the thresholds of the gate only whether a
version passes, so both are free choices. `record_checkpoint` and
`mark_checkpoint_promoted` are one step. The configuration is in single mode with a deployed model and its
checksum, and `auto_rollback_on_regression` at its default.

One assumption is about time, not order: `Train` ends only when the poller has
applied the configuration of its start. The poller looks every five seconds and
a load takes seconds; a training run takes minutes. Without it a second run
could promote between the poll and the load of the first one's files.

### EventBus, Webhooks, EventDelivery (`events.py`, `webhook_dispatcher.py`)

`publish` appends to the ring and starts two tasks, one that notifies the
streams and one that dispatches to hooks. A stream yields its replay event by
event, subscribes only then, and has a bounded queue; what is left of the replay is
a set, yielded least first. A delivery works on the
row its dispatch read, and keeps its permit over its retries and the sleeps
between them; hooks are upserted and deleted meanwhile. The insertion of a row
into the log may fail, which the delivery does not notice (`Recorded`), and an
answer whose body does not decode ends the delivery without one (`Break`); `log`
keeps these attempts as history, marked. A hook's URL stands for the tenant that
receives it.

### Observer (`memory_observational.py`, `observer_worker.py`)

Messages and observations count one unit each towards the thresholds.
`TickObserve` is the loop's scan, the jobs of responses and administrators queue
for the worker's lock; between the read of a job (`Acquire`) and its write
(`Observe`, `NotObserved`) the model is asked and messages arrive. `Restart` may
come anywhere.

### Catalogue (`model_sync.py`, `memory.py`, `app.py`)

`offers` is what providers say, `catalogue` the rows. Synchronisations, the
loop's and an administrator's, ask every provider at once and store late
(`Respond`, `Store`, `StoreRow`). A registration reads the rows in a thread,
perhaps between two of them, and adds endpoints and tiers in one step once it is
back (`Added` are the rows whose name nothing has taken, and no row before
them), unless the process stops in the middle: then some first rows are there,
the last perhaps without its tier.

### Federation, ToolCache, ToolCalls (`contextforge_client.py`, `tool_cache.py`, `mcp_facade.py`)

`registry` holds, per item and scope, the row: its content and whether it is
enabled. `Upsert` is the tables' insert or update, which a row of another scope
bars for all kinds but agents, and an agent of an unknown type is refused;
`Merge` writes the row for all tenants, completed from a known row for agents and
servers, skipped when the scan flags it, with the text the scan leaves of what is
stored (`Scanned`).
`Sync`, `Respond` or `FetchFails`, and `MergeAnswer` are `sync_all` from one
await to the next, kind after kind; the loop and an administrator may both be
under way. `ToolCache` is the cache as a value, a set of entries; each says how
many were used after it (`idle`), and has ticks left instead of a time of expiry. In `ToolCalls`, `Hit`,
`Define`, `Ask` and `Reject` are the four ways of `tools/call` up to its only
await, `Succeed` and `CallFails` its end. `generation` tells caches apart, because a
call stores into the cache it began with. `since` is history: for how long a
value that is cached or awaited has not been what a call would read.

## 3. Runs

| run | result | properties | instance |
|---|---|---|---|
| `breaker_steady` | pass | `RowMirrorsMemory`, `ProbesConserved`, `IsOneBreaker`, `CoolsDown` | 0 to 2 probes, edited at any time, up to 4 calls in flight, any number of restarts |
| `dispatch_ladder` | pass | `PermitsConserved`, `ProbesReport`, `Answered` | a tier of one endpoint and a fallback, two requests, one permit each, one rebuild each |
| `routing_decision` | pass | `SentWithinRights`, `WithinWindow`, `NearCheapest` | 78 requests (6 sizes of 13 kinds), five tiers, four endpoints, five sets of outages, two loads, three accesses, two plans, two budgets, one edit |
| `response_paths` | pass | `InDependencyOrder`, `Charged`, `Delivered`, `Conveyed`, `Ended` | three requests for a swarm over six plans, streams of four kinds for two clients, conversations with calls, results, images and a memory; chunks of up to 3 halves, one rebuild |
| `ledger_day` | pass | `RowsAddUp`, `QuotaHolds` | three requests, two endpoints, one midnight, reservations serialized or not |
| `live_config` | pass | `EditsKept`, `SlotsConserved`, `RowsServed`, `PickedUp` | two endpoints, a key, two changes of files, two of rows, one stop, two requests |
| `review_one` | pass | `CuratedOnce`, `CorrectionsLearned`, `NoneAbandoned`, `Settled` | two decisions in a batch of two, one truncated, two complaints each, two crashes |
| `trainer_runs` | pass | `WatermarkTrained`, `BootGated`, `ServedAsTrained`, `RollbackRestores` | two runs, two samples, both kinds of retraining, two failed writes or crashes anywhere |
| `event_delivery` | pass | `SeamOneSided`, `NoCrossTenant`, `AttemptsLogged`, `Concluded` | two tenants, two events, one stream, one name of a hook with two upserts, one permit |
| `observer_loop` | pass | `InOrder`, `Compressed` | two threads of up to 4 messages, two jobs besides the loop's, one restart |
| `catalogue_sync` | pass | `Unambiguous`, `Mirrors` | one model of two providers, one change of offers, two edits or stops |
| `tool_calls` | pass | `Fresh`, `Told` | one name that a tool and an agent share, besides a server and a template of the name; four contents, one flagged, one alerting, one of an unknown type; one tenant, one key, one entry that lives two ticks, calls of one tick, one change of offers, one edit, one invalidation, reload or restart |

`breaker_steady` also checks `TypeOK`. The type invariants of the other modules
with theorems are proved, and checked by a run at most as a part of another
property (section 5); that of `Stream` is checked as a part of `Delivered`.

Bounds. An open duration of 3 ticks gives a breaker that has just opened, is
cooling down, and may be probed; four calls let probes and stragglers of two
episodes be in flight together; four failures pass the threshold twice. In
Dispatch one permit per client is what makes requests queue, and one rebuild per
client what makes a waiter outlive its client. In the ledger three requests of 2
tokens against limits of 4 and 3 fill the tenant's limit, fill the endpoint's,
and ask once more; usage of 1 and 3 lies on both sides of the estimate. In the
review queue one of two decisions in a batch may be settled when a crash or an
error hits the other, and a second crash hits the recovery. In the trainer two
runs let one wait for the lock, replace the other and be rolled back to it, and
the second of two incidents hits what the first has left. In routing the sizes
lie below and above the windows of models, tiers and the reserve, so that each
redirect finds a tier that holds the request, one that does not, and none; two
endpoints cost within five percent of each other and the others do not.
Routing needs one edit only, since a request reads each of the two
settings at most twice. In the responses a frame of two halves is the smallest
that can be cut, and chunks of three halves contain the end of one frame, a
whole one, or the begin of the next; the plans are a diamond, a cycle, ids that
collide, ids and prompts that are missing and a plan too small. In the live
configuration two changes let two propagations overlap, or an accepted edit meet
a refused one, and one stop comes between. One webhook name and two upserts
let a name be taken over, edited or deleted and re-created while a delivery with
two attempts is under way. In the observer four messages are two batches, and a
restart falls between a read and its write. In the catalogue two providers of
one model collide in the name of their endpoint. In the tool calls a life of two
ticks and calls of one let an entry be used, expire, and be stored late by a
call that began before an edit; eviction and bypassed arguments only remove
entries sooner, so one key is enough for `Fresh`. The change of offers replaces a content
by another, by one that is refused or by nothing, so a synchronisation that
began before it merges an older answer over a newer one.

Fairness. Time passes; every upstream call and stream ends, because aiohttp gives
it a total timeout; the event loop runs every ready task. Nothing is assumed
about which way a call ends, with one exception each for the observer and the
catalogue: a model that is asked for ever sometimes answers (`SF` of `Observe`),
and a provider that is asked for ever sometimes answers and is stored (`SF` of
`Respond`, `Store`, `StoreRow`), without which nothing could be promised. ContextForge, asked for ever, sometimes answers for each kind (`SF` of `Respond`),
and the synchronisation's loop runs, which is so with `auto_sync`. The
loops of the workers run for ever. The configuration's poller looks every few
seconds, and an operator repairs files on which the process does not start. No
fairness is assumed of requests, edits, complaints, rebuilds or crashes, and so
`CoolsDown` promises of an open breaker only that its cool-down ends: that it is
asked then is up to the filters before it. Routing,
ledger and trainer are checked for safety only. `CHECK_DEADLOCK FALSE` stands
where every request, event or change of a bounded number has been dealt with and
the system really stops.

## 4. What disagrees with the repository's own words

The following statements are definitions in the modules that TLC refutes. No
run asks for them; to see a counterexample, check the definition instead of the
run's own properties (`HalfOpenEnds`, `OpenEnds` and `ManualKept` as a `PROPERTY`).

| statement | module, run | what the code does |
|---|---|---|
| `HalfOpenEnds` | `Dispatch`, `dispatch_ladder` with `Config <- MCDefault` | "No probes left; treat as OPEN until duration elapses" (`circuit.py:99`): with the shipped single probe the ladder's `allow()` (`app.py:2146`) takes it and the client's (`endpoints.py:127`) is refused; nothing is sent, no verdict comes, and HALF_OPEN has no way out without one |
| `OpenEnds` | `Dispatch`, `dispatch_ladder` with `Tier <- MCTwo` | only `allow()` ends OPEN, and the filters (`app.py:2094`, `app.py:2126`) keep an OPEN endpoint from being asked while a peer is not OPEN |
| `QuotaAtomic` | `UsageLedger`, `ledger_day` | `FOR UPDATE` (`memory.py:1750`) locks no row for a tenant without one in `users` |
| `DailyCap` | `UsageLedger`, `ledger_day` | settlements are stamped with the day they are written (`memory.py:1307`), so a release after midnight is credit |
| `NoneAbandoned` | `ReviewQueue`, `review_one` with `Fenced = TRUE` | labels from a fenced array are not padded (`reviewer.py:363`); items beyond a short one are never completed |
| `CorrectionsLearned` | `ReviewQueue`, `review_one` with `Processes = {p1, p2}` | review and complaint look for each other before either has committed (`memory.py:1108`, `memory.py:1176`) |
| `RolledBackNotServed` | `Trainer`, `trainer_runs` | boot files are overwritten (`trainer_worker.py:498`) before the registry and not restored: the next start serves the rolled-back version |
| `AlwaysPaired` | `Trainer`, `trainer_runs` | "The ONNX file is verified before load" (`router.py:383`): the session is made of another read of the file than the checksum (`router.py:405`-`423`), and a run's copies between them give new heads to an old embedding, or the reverse, until the run's own checksum calls for the next load |
| `PlanHonoured` | `Routing`, `routing_decision` | `app.py:1411` calls its check the choke point of every path; the ladder behind it (`app.py:2125`) tries peers and the fallback unchecked |
| `TakesEffect` | `Configuration`, `live_config` | a slower propagation of an older snapshot overwrites a newer one; one that raises is not repeated |
| `StartsAgain` | `Configuration`, `live_config` | an edit that `_validate` refuses stays in the overlay; the next start fails on it |
| `ReflectedOnce` | `Observer`, `observer_loop` | reflections mark nothing, so each consolidates the oldest rows again |
| `ManualKept` | `Catalogue`, `catalogue_sync` | every synchronisation overwrites an administrator's tier and enabling (`app.py:3999`, `app.py:4014`) |
| `EveryAttemptLogged` | `Webhooks`, `event_delivery` | "Every attempt is logged into webhook_deliveries" (`webhook_dispatcher.py:16`): the body is read before the status (`webhook_dispatcher.py:298`), and one that does not decode raises past the log; a failed insertion is swallowed (`memory.py:3526`) |
| `SentIsSettled` | `Stream`, `response_paths` | "Real token usage, if the upstream reports it in-band" (`app.py:1564`); the docstring of the Anthropic decoder (`transcoder.py:370`) calls settling at the estimate the defect it removes: the stream decoders of Ollama (`transcoder.py:203`) and Gemini (`transcoder.py:894`) drop the counts that their whole answers are settled at (`transcoder.py:177`, `868`) |
| `RecordedWhole` | `Stream`, `response_paths` | the memory keeps the texts found in single chunks; those a chunk cuts are lost (`app.py:1611`) |
| `SentOnce` | `Conversation`, `response_paths` | the tail's duplicates are looked for in users' texts only (`memory_observational.py:581`), so answers are sent twice |
| `CallsKept` | `Conversation`, `response_paths` | compaction (`memory_observational.py:659`) may drop a call and keep its result |

Seen while modelling, and claimed by no line or outside the properties:

* Trainer: a run that fails after its swap over the stub has nothing to go back
  to, so its heads stay served though no registry row names them (`ServesActive`
  allows for it); a checkpoint copy that a failed write or a stop cut short is
  never completed, since only missing files are filled (the hypothesis `Whole` of
  `RollbackRestores`), and a rollback to it restores nothing; after a promoted
  fine-tune a heads-only swap is refused
  (`trainer_worker.py:488`) until the next fine-tune; a reload of the boot files
  undoes an admin revert, and the registry goes on naming the reverted version;
  a revert whose registration fails leaves the router with the old version and
  the registry with the new one (`trainer_worker.py:234`, `missed`), one whose
  mark fails a rolled-back checkpoint that stays promoted; a heads-only promotion
  overlapped by a reload that reads in the middle of its copy leaves the stub
  until the next reload, since no new checksum calls for one;
  a first promotion over the stub has nothing to roll back to.
* Routing: the dedicated tier of a translation (`app.py:1267`) is named after
  access and room were looked at, and neither is looked at again; the endpoints
  of the ladder are not measured.
* Tenants: `rps_limit` 0 is documented as unlimited (`tenant.py:103`) and its
  bucket refuses everything; taking a plan from a tenant leaves it in force
  (`app.py:2544`); a changed plan does not reach the states already built; a
  tenant of the configuration file ignores edits of its row; a limit of 0
  queues its requests for ever, even after it is raised.
* Configuration: an overlay that does not parse reads as empty and loses its
  other sections with the next edit; `loaded_at` is set after the reads
  (`config.py:244`), and a write in between is not noticed.
* Catalogue: models of two providers with one sanitised name are registered
  once; a failed row is counted as stored; a stop between endpoint and tier
  leaves an endpoint no later registration puts in a tier.
* Tools: a call that was awaited while its tool was invalidated or its row
  edited stores its old answer afterwards; a reload that disables the cache
  leaves the facade's in use (`app.py:650`, unlike `app.py:222`); a disabled
  federated tool is left out of `tools/list` but still answered
  (`mcp_facade.py:215`); `invoke_agent`'s own cache is for an interaction no
  caller asks for; an agent offered without a URL is completed from whichever row
  of the name comes first; an insert that fails on the unique name counts as
  synchronised, and so does an agent of an unknown type, which is never stored;
  what ContextForge withdraws stays.
* Swarm: repeated ids can collide once more after renumbering, and the earlier
  subtask is not run; an endpoint taken out of the pool raises out of `gather`,
  and its siblings go on unbilled; the planner's call is never billed; an
  exception between reservation and run leaves the reservation booked.
* Stream: usage that a chunk cuts inside a number is read as a smaller number;
  an upstream that ends early, between frames, counts as a success; an Anthropic
  client of Ollama's calls gets an exception; `response.prepare` (`app.py:1563`)
  lies outside the `try` and loses the reservation if it raises (`Unprepared`);
  an Anthropic usage of 0 is settled at the estimate.
* Conversation: calls lose their ids on the way to Gemini and their results the
  name; a user's text before a tool's result comes after it; a conversation that
  is only a tool's result is refused; an answer without usage is settled at 0.
* Events: deliveries go on after their hook is disabled or deleted; a database
  error while hooks are listed loses the event.

## 5. Proofs

All for arbitrary constants, checked by TLAPS. Every invariant behind a theorem
was first checked on the instance of its run. The assumptions on constants are
the named `ASSUME`s of the modules: `Tier` is a non-empty sequence of distinct
endpoints, request slots are finitely many (`SlotsAssumption`), thresholds, limits
and amounts are natural numbers, base files are well-formed configurations, plans
and the events of a stream are finite sequences of well-formed records, and the
values that stand for "none" or "all" are nothing else's. TLC evaluates them in
every run.

| module | theorems about properties of a run | further theorems |
|---|---|---|
| `EndpointProofs`: breaker | `RowMirrorsMemory`, `ProbesConserved`, `IsOneBreaker`, `TypeOK` | `Invariant` |
| `EndpointProofs`: catalogue | `Unambiguous` | `CatalogueInvariant` |
| `TenantProofs`: ledger | `RowsAddUp`, `QuotaHolds` | `LedgerInvariant`, `LedgerTypes` |
| `TenantProofs`: tools | `Fresh` | `ToolsInvariant` |
| `DispatchProofs` | `PermitsConserved`, `ProbesReport` | `PermitsInvariant`, `TypeCorrect` |
| `DecisionProofs`: review | `CuratedOnce`, `CorrectionsLearned`, `NoneAbandoned` | `QueueInvariant`, `PoolIsMarked`, `SingleInvariant`, `TypeCorrect` |
| `DecisionProofs`: routing | `SentWithinRights`, `WithinWindow`, `NearCheapest` | `RoutingInvariant`, `RoutingTypes` |
| `ModelProofs`: trainer | `WatermarkTrained`, `BootGated`, `ServedAsTrained`, `RollbackRestores` | `Inductive`, `RouterInvariant`, `TypeCorrect` |
| `ModelProofs`: responses | `InDependencyOrder`, `Charged` | `ResponsesInvariant` |
| `LiveConfigurationProofs` | `EditsKept`, `SlotsConserved`, `RowsServed` | `LiveInvariant`, `TypeCorrect` |
| `EventDeliveryProofs` | `NoCrossTenant`, `SeamOneSided`, `AttemptsLogged` | `DeliveryInvariant`, `TypeCorrect` |
| `ObserverProofs` | `InOrder` | `ObserverInvariant`, `TypeCorrect` |

Breaker: `TypeCorrect` needs nothing beyond the assumptions on
constants. The other theorems assume `SteadyThreshold` (the failure threshold
is not edited while the breaker lives): when it is raised on an open breaker, the
next failure writes a row without `opened_at`, and the row no longer equals the
memory. The invariant behind them adds to `TypeOK` the agreement of row and
memory, the shape of each state (a closed breaker has fewer failures than the
threshold, an open one has no probes left, only a closed one has no age), and
the accounting of probes in HALF_OPEN together with "no probe in flight
outside HALF_OPEN". `ProbesConserved` alone is not inductive: an `Admit` from OPEN
starts an episode, and that `spent` and `probing` are then zero is part of the
strengthening. `OneBreaker` maps every step to a step of `AbstractBreaker` or to
a stutter, and uses the invariant where a crash or a load must not be seen.

Catalogue: `Unambiguous` is inductive with the types of what is under way
(`UnderWay`), once a registration is taken as what it leaves behind: `RegisterKeeps`
shows it for any first rows and for a last one without its tier, which is all
that a stop can leave. That no two rows of one registration get one name
(`AddedApart`) is what `add_endpoint`'s refusal is for.

Ledger: `LedgerInv` is `TypeOK`, `NoneChecked` (with serialized
reservations no request is between check and insert), `RowsAddUp` and
`QuotaHolds`. `RowsAddUp` is needed for the types (a request count is 0 or 1
only because a settlement finds what its reservation wrote), and `QuotaHolds`
is inductive because each action adds to `booked` no more than it adds to
`overrun` or has just been checked.

Tools: `Fresh` speaks of the values that a call could be given next. `ToolsInv`
bounds what may become one: an entry that lives is as old as a call and the part
of its life that has passed (`CacheAges`), so using it moves it and changes
nothing; an awaited answer is as old as its wait (`CallAges`), so storing it
late costs one call; and what would be read now is of age 0 (`ReadNow`),
whichever row, registry or configuration has just changed. Eviction only takes
entries away, so its order does not matter to the proof.

`DispatchProofs`: nearly every step of a request goes through `Walk`, so the
lemmas are about `Walk` from a state in which the request holds nothing, and
each action is shown to reach it in such a state. `PermitsInv` adds to
`PermitsConserved` that a request which waits or sends has a client and stands
in one queue once; without it a waiter might be counted twice when it is
woken. `ProbesInv` adds that a breaker which is not closed has reached its
threshold: that is why a failure of a probe opens the breaker again instead of
leaving HALF_OPEN with no probe. `ProbesAreReported` assumes `Config.probes > 0`;
with none, `allow()` half-opens the breaker and refuses the call (`circuit.py:83`),
so nothing is on its way.

Review: `QueueInv` (any number of processes) says that a decision
is in the pool exactly when its result is marked. `Unabandoned` holds for any
number of processes when no answer is wrapped in a code fence (`Fenced = FALSE`).
`CuratedOnce` and `CorrectionsLearned` are proved for one process (`Alone`),
because only there worker and feedback handler exclude each other; the
strengthening `SingleInv` says so, and that what `store_review_result` saw of the
feedback is still true when it commits. Both hypotheses are needed: with two
processes, or with fences, TLC finds the counterexamples of section 4.

Routing: `RightsCounted` says that what the tenant has now, and the plan that
was read, are among what it had since the arrival. `DecisionHad` says of a
decision, from the redirects on, that its tier was among that and that it holds
the request, and, once checked, that its endpoint was in the plan; the lemmas about `Direct`, `Downgraded`,
`Inherited` and `Roomy` show what each redirect returns, and `RedirectRoutes`
puts them together; only a translation's tier is outside it. `LadderLeft` says
what a rung may be (`Stands`): the endpoint decided on, another of its tier that
was not OPEN, the fallback in its home, which is as much as `SentWithinRights`
promises of the calls that follow the first. `NearCheapest` does not depend on the order of the steps but
on the choice: `CostFirstNear` has the three ways out of `cost_first_route` (the
cheapest, a rival less loaded, the second after the abstention), each within the margin
of the least price, and `CandidatesStand` that the cheapest of each tier stands for
all that the tier offers. Windows are compared by multiplication, since
`WithinWindow` is stated without rounding and the code rounds down
(`UsableBounds`).

Trainer: `TrainerInv` adds to `TypeOK` who holds the lock (`LockInv`),
that a written candidate's files carry its own heads (`FilesInv`), that an
accepted candidate has passed (`GateInv`), and `WatermarkInv`: the holder, when
a tick asked for it, has exported at least what the tick counted, and the
watermark is covered by a promoted run other than the one under way, which may
still be rolled back. `WatermarkTrained` alone is not inductive: it says nothing
of the run whose success will move the watermark, nor that numbers of runs are
never used again. No bound on runs, samples or incidents is used.

`RouterInv` is what `ServedAsTrained` and `RollbackRestores` need besides. A
checkpoint has the heads of its own run (`OwnFiles`). Whatever is or may be served,
and what a run has replaced, has its checkpoint (`Checkpointed`), which is what
makes a rollback possible even from boot files that were overwritten since. A
router that serves a checkpoint serves the registry's version or that of a run
that was never promoted (`ActiveInv`). Until an incident, the boot files, the
router and the files a loader has read are each one model, but for the
copies under way (`PairInv`), or a tuned run has copied its embedding and the
load its checksum calls for is still to come (`Outdated`): three reads that a copy
falls between can make no other mixture, and that load undoes it. `missed`
remembers a revert that the registry failed to write; without it, the registry
names what the router serves. That a half-copied fine-tune is refused by its
checksum rests on `NewEmbedding`: its embedding differs from the configured one
until the new checksum is written.

Responses: `LayersOrdered` says of any acyclic graph of subtasks that its layers
contain each subtask once and after what it depends on, and `PlannedSound` and
`ChunkedSound` that what is run has such a graph; that a layering exists is shown by a greatest layered part that a further subtask would enlarge
(`LayerMore`, `LayeringExists`), without induction over the loop. `OrderOK` follows
the run: what is in no layer any more has ended, what is in a later layer waits,
and outputs are those of what has ended. `BillOK` says that what was spent is what
was added up and what the layer under way will add (`Unbilled`). In a stream that
is passed on, `UsageOK` says that the only usage to have begun to arrive has been
found unless a chunk ended inside it; in one that is decoded, the handler's usage
is what the decoder has passed on when it closes, which is what was sent of
Anthropic only.

`LiveConfigurationProofs`: `ConfigInv` adds to `EditsKept` that what an answered
edit established is in the overlay of now, so each later reload, whoever
triggers it, reads it again; that snapshots hold the tenants of some base file
makes the composition with `Tenants` well typed. `TenantsInv` adds to
`SlotsConserved` that a request waits in one generation's queue at most and holds
nothing while it waits, and to `RowsServed` that a build under way has read the
row of now unless an edit is still to be refreshed (`BuildCurrent`); a process
that is down has no state and no build.

`EventDeliveryProofs`: for a live stream, `Joined(v, s, m)` names the notification
`s` after which it subscribed and the number `m` of events it had been shown by then:
below that everything comes from the replay, above it from the queue, in
order and without gaps except what a full queue dropped. `SeamOneSided`
says nothing of the queue, and is not inductive without it. For deliveries,
ids of hooks are never used again and an event is dispatched once, so a row of
the log belongs to one delivery; `LogInv` says that every attempt that ended has
one entry, a row or the history of a row that was lost.
`TenantsApart` follows from the row a delivery was begun with, whatever
became of its hook.

`ObserverProofs`: what matters is `BatchCurrent`: the batch a job has read stays the
oldest unobserved messages of its thread until the job writes, because the lock
keeps other jobs out and messages only arrive at the end. `InOrder` then follows,
with `OldestObserved` (observed messages are a prefix).

Only model-checked, because they say what folds compute for every input and the
induction over data this takes is beyond the provers used: `Delivered`
(the encoder fed with every frame in turn) and `Conveyed` (conversations
translated message by message). For the same reason the proofs about `Swarm`
take the plan's ids and the cuts of a text as whatever their folds return: the
layers are right for every such list. Only model-checked because the provers do not reason
about fairness: `CoolsDown`, `Answered`, `Settled`, `Concluded`, `Compressed`,
`Mirrors`, `PickedUp`, `Ended` and `Told`.

## 6. Not modelled, and the plan

Not modelled because there is no behaviour to check, or none that TLC can reach:
tokenisation and inference, pattern matching over strings (the verdicts
`Blocked` and the signals of `PreRoute` are kept), the probing of external services,
the dashboard, the numeric training scripts, handlers that create, read, update
or delete one table each.

Simplified: one tenant in the ledger, and dollar limits follow the token limits;
sliding windows and the token bucket are refusals; spend caps are a
nondeterministic answer; a failing database is an outcome of the reviewer's
commit, the trainer's steps, the catalogue's rows, the webhooks' list and the
rows of their log only;
providers' answers, prompts and texts are what their readers tell apart; tool
definitions and sampling parameters are left out of the translations, and a
tool's result is one part, whatever it holds; tools and agents have a content of
several instead of their fields, hosts are not probed, and
built-in templates are left out; events
are filtered by tenant only, not by source or type; one process per database
except in the review queue and the ledger; in `Trainer` the drift alarm and the
thresholds of the gate are free choices.

Next, in this order:

1. The loading of the context a request is given (recall, working memory) in
   `Conversation`; tool definitions.
2. The hooks of plugins; the rendering of templates and their injection.
3. Two registries on one breaker row; a database error as an outcome of each
   breaker write; the drift alarm and the spend counters.
