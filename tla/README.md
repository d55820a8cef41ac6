# A TLA+ model of claw-router

claw-router (`src/`, crate `lm-gateway`) is an HTTP gateway between agents and
language-model backends. A request arrives at the client port in OpenAI's or
Ollama's schema, is authenticated and rate limited, is routed by a *profile* to
one *tier* of a ladder of models (cheapest first), waits at that tier's priority
gate if the tier is local, and is answered by a backend, whole or as a stream.
The config is replaced while it runs; a traffic log records what was answered.

This directory holds TLA+ modules of that program, configurations that TLC
checks on small instances, and proofs that TLAPS checks for every value of the
constants. Source paths are given relative to `src/src/` (the crate's own
`src`); documentation is under `src/docs/`.

Run one model with `tlc -config MCPriorityGate.cfg MCPriorityGate.tla`, one
proof with `tlapm DispatchProofs.tla`. `PROJECT.json` maps every
definition to the lines it models and lists runs, seeded faults, hazards,
findings and theorems. Operators commented "Seeded fault" are bugs that a change of the code could
plausibly introduce, each kept in front of the definition it would replace to show
that the property it is listed with would notice. The models never use them.

## 1. Inventory

| Component | Code | State | Operations | What is hard | Correct when |
|---|---|---|---|---|---|
| Priority gate | `router/priority.rs` | per tier, behind a mutex: `in_flight` (priorities being served), `pending` (queue of oneshot senders), `next_ticket` | acquire on the fast or the queued path, hand-over, drop of the permit, release in a spawned task | suspension points between grant and permit; clients that disconnect at any of them; stale queue entries | slots are accounted for, no wake-up is lost, order is priority then arrival, every waiter is served |
| Dispatch (Mode A) | `router/modes.rs` 459-607 | the permit, attempt counter, delay | gate, client, retry loop with back-off, gateway timeout | timeout, failure and disconnect at any point of the loop | permit and loop begin and end together; the schedule of sleeps; every dispatch ends |
| Escalate (Mode B) | `router/modes.rs` 609-722 | position on the ladder, the permit of this rung | climb tier by tier: skip, gate, call, judge | waits at one gate while the release of the previous one has not run | one permit at most; each usable tier once and in order; every walk ends |
| Routing | `router/mod.rs`, `router/modes.rs`, `router/classify.rs` | snapshots of the config, list of visited profiles | choose mode, ask the classifier, follow rules and cascades, gates by context and expert flag | each hop takes a new snapshot; two gates that may undo each other | no profile twice; nobody gets a tier too small or above its ceiling without cause; a validated config fails no lookup |
| Streaming | `router/mod.rs` 482-653, `backends/*.rs`, `api/client/ollama.rs` | line buffer, last event type, bounded channel, text collected so far | relay task, byte proxies, one-shot streams, SSE to NDJSON | chunk boundaries anywhere, broken or stalled upstream, client that leaves | the client gets what was said, in order, at once, and is told "done" only when it is |
| Client admission | `api/client/*.rs`, `api/client_auth.rs`, `api/rate_limit.rs`, `main.rs` 80-90 | key map, public profile and limiters of startup; live config | IP limit, authentication, quota, choice of a profile, headers | state frozen at startup against state replaced by reload; three snapshots per request | quota spent by exactly those routed; nobody under a foreign profile; one config seen |
| Rate limiter | `api/rate_limit.rs` | a map of token buckets | check: refill, take or refuse with Retry-After | clock sampled before the lock; fractions; caps | a bucket never gives more than its burst and its refill; the wait is exact |
| Config hot reload | `main.rs` 150-184, `api/admin.rs` 224-241, `config/mod.rs` 267-372 | `last_mtime`, live config | poll every 5 s, load on demand, install | files change while they are read, loads overlap | only validated configs live; newest file wins in the end; failed loads are retried |
| Traffic log, backend health | `traffic.rs`, `router/mod.rs` 389-422, and its readers in `api/` | a ring buffer behind a mutex | push (gives up on contention), health verdict, listings, totals | lost entries, equality test at the bound, failures that are never pushed, pages of two critical sections | exactly the newest entries; a page shows the log of its own time |
| Config load, merge, validation | `config/*.rs` | none | read, merge overlays, read profile files, validate, search cycles | mixtures of files; merge rules by kind of value; order of files | equals the declared reading of all files; rejects exactly what dangles or cascades into itself |
| Conversations, classifier answers | `router/mod.rs` 726-751, `router/modes.rs` 30-99, 207-262, `router/classify.rs`, `api/client/ollama.rs` | none; the client keeps the history | put prompts in front, fill in parameters, pick the classifier's window, read its answer, turn tool calls and results between formats | every request translates the history again, for another backend; ids that start again | backends are shown what was said; results belong to their calls; the client's settings hold |
| Backend adapters (whole answers) | `backends/*.rs` | none | one HTTP call between two JSON schemas | defaults, encodings of arguments, calls written as text | see conversations |
| Admin API, auth, UI | `api/admin.rs`, `api/admin_auth.rs` | none of its own | render config and log, reload | the reload | see hot reload |
| Status, metrics, health | `api/status.rs`, `api/metrics.rs`, `api/health.rs` | none | counters of the log | the moment they show | see traffic log |
| Request ids, errors | `api/request_id.rs`, `error.rs`, `api/client/mod.rs` 79-137 | none | copy a header, turn an error into an answer | errors come back as history | see conversations |
| Start and shutdown | `main.rs` | none | load, build state, spawn watcher, serve | the gap between load and first mtime | see hot reload, admission |

How they interact. `main` loads the config, builds `RouterState` (config lock,
traffic log, gates, limiters, key map), spawns the watcher, serves two ports.
Client handlers are tokio tasks that share `RouterState`: the config is read by
snapshot (`RwLock<Arc<Config>>`), gates and limiters by mutex, the log by
`try_lock`. A request runs admission, then `route` or `route_stream`; these call
one of the modes; a mode passes a tier's gate and calls a backend; on success the
caller pushes a traffic entry. The watcher and admin handlers replace the config
under all of them. A handler's future is dropped at any `await` when its client
disconnects; what is left behind is what destructors spawn (the permit's release
task) or what was spawned before (the Anthropic relay).

## 2. Plan

Order: what many requests share and tests hardly reach comes first.

| # | Module | Contents | State |
|---|---|---|---|
| 1 | `PriorityService`, `PriorityGate` | abstract service of one tier; the gate that implements it | checked, proved |
| 2 | `Dispatch` | Mode A around a gate (extends `PriorityGate`) | checked, safety proved |
| 3 | `RateLimiter` | a token bucket | checked, proved |
| 4 | `ConfigReload` | watcher, admin reloads, operator | checked, safety proved |
| 5 | `TrafficLog` | ring buffer, pages, health verdict | checked, proved |
| 6 | `Routing` | profiles, cascades, gates under reload | checked, safety proved |
| 7 | `Escalate` | Mode B over one `PriorityService` per tier | checked, safety proved |
| 8 | `Streaming` | one streamed answer, of every kind | checked, safety proved |
| 9 | `Admission` | client port around routing | checked, proved |
| 10 | `RouteCycles`, `ConfigLoad`, `ConfigFiles` | cycle search, merge and validation against their declared meaning; composed with `ConfigReload` | checked, proved |
| 11 | `Conversation` | what is said, through prompts, adapters and tool calls, over several requests | checked, proved |

What is left:

- `Escalate` composed with real gates: today each rung is the abstract service,
  and that the gate implements it is a theorem of its own module.

## 3. The modules

Each module's header comment says what it abstracts. `MC*.tla` only give
constants values.

### PriorityService and PriorityGate

`PriorityService` is what a tier promises its callers: a request is admitted at
once only if it outranks everyone being served, otherwise it waits; when a served
request finishes, the first of the waiting ones by priority and arrival is
admitted if it outranks those that stay. There are no tickets, no stale entries,
no release tasks.

`PriorityGate` is `TierPriorityGate`. `inFlight` is the multiset
`GateState.in_flight`, `pending` and `nextTicket` are the fields of those names,
`ticket` is `PendingEntry.ticket`. `pc` is the place of each handler:

| `pc` | in the code |
|---|---|
| `waiting` | suspended in `rx.await`, entry in `pending` |
| `cancelled` | its future was dropped; the entry is still in the queue with a closed receiver |
| `granted` | the releaser has pushed its priority and sent on its channel; `rx.await` has not resumed |
| `holding` | `PriorityPermit` exists |
| `releasing` | the permit was dropped; the task it spawned has not run |
| `ghost` | dropped while `granted`: a slot without a permit |

Every critical section of the mutex is one action: `FireNow`, `Enqueue`,
`ReleaseAndWake` and `ReleaseOnly` (both with the removal of closed entries at
the front, as `try_unblock_next` does it in the same section). `Resume`,
`DropPermit`, `DisconnectQueued` and `DisconnectGranted` are what happens
outside it. `ImplementsService` is refinement through
`INSTANCE PriorityService WITH stage <- ServiceStage, ...`: a request counts as
served from the hand-over to the release, ghosts included.

### Dispatch

Extends `PriorityGate`: each step that touches the gate conjoins
the gate's own action with the request's `phase`. `hasGate` is whether the tier was there
at startup, when the gates are made; `provider` is what the live config says of the tier's
backend, which `Reload` changes at any time, and `local[r]` what the snapshot of a dispatch
said of it. `attempts`, `slept`, `delay` and `errors` (the kinds of error so far) are the
retry loop: all errors are retried, the delay doubles and saturates at `u64::MAX`, the sleep is
capped at 2 000 ms. The wait at the gate is outside the gateway timeout, the loop inside it, as
in the code. A disconnect may come in the queue, in the hand-over, in a call or in a sleep.

### Escalate

Requests climb `floor .. Top`. Each of the `Gated` tiers has a copy of `PriorityService`
(`Service(t)`), with `place[t][r]` and `arrival[t][r]`; the release of a permit is a step of its
own, so that a request may wait one rung up while the slot below is still taken. `unusable` is
the set of tiers skipped for health, for an unknown backend or a client that cannot be built; it
is chosen per request from `Outages`. Errors and insufficient answers both climb (`Escalates`);
`Exhaust` is the end of the ladder.

### Routing

One request against a `live` config that `Reload` may replace at any step. The snapshots of the
code are distinct: `route` reads `live` once, `disp` is the snapshot of `classify_and_dispatch`
in which the final tier is looked up, and `hop` the one each `classify_and_resolve` of the
cascade takes anew. A config is a record of tiers, aliases and profiles (header of the module).
`Decision` is `classify_and_resolve` on an answer: first eligible rule by priority (never one
that leads to a visited profile), else the label's tier below the ceiling, lifted by `MinTier`.
The classifier's answer is an input. The constants satisfy `ConfigOK`, which is what
`Config::load` validates: aliases and classifiers name tiers, and the search of `RouteCycles`
finds nothing.

### Streaming

One answer, from the backend's body to the client's. The body is a sequence of
symbols that the network cuts anywhere. `source` says where the stream comes from:
the relay task that translates Anthropic's events through a channel of
`Capacity` items, the bytes of an OpenAI-compatible backend or of Ollama's
own NDJSON, or the one-shot streams the gateway makes of a tool call
(`tool_call_stream`) and of a reply profile. `sink` says whether the client reads
it verbatim or as NDJSON; `prefix` whether a thinking message precedes it.
`Init` allows the combinations that `route_stream` and the two chat
handlers make. `relay` is the task's local state
(line buffer, last `event:` type, the item it is sending), `chan` the channel,
`buf`, `text` and `tools` are the translator's. The symbols `e1 e2` are one
character of two bytes, so that `from_utf8_lossy` on a single chunk garbles it.
`ScriptAssumption` says what a backend's schema allows: an event has one line of data in
whole characters, an event of Anthropic's names its type, and elsewhere nothing
follows `[DONE]`. How many events there are and what they say is free, and so is
where the body breaks off.

### Admission

The layers in the order they run: IP limit, authentication, handler. `boot` is
the version frozen by `RouterState::new`, `live` the current one; `req[r]` records
what the handler's variables hold. OpenAI requests are charged to the quota of
their profile; Ollama requests are not, but may name a profile as their model.
`Route` takes its snapshot and falls back to `default`. `Refill` is the passage of
time for a bucket, in whole tokens (the arithmetic is in `RateLimiter`).

### RateLimiter

One bucket. `Sample` is `Instant::now()`, `Check` is the section under the lock,
in this order and possibly with other callers in between. Tokens are counted in
units of 1/`Window` token, so all arithmetic is exact. `log`, `created` and
`backwards` are history: the instants of admissions, the birth of the bucket, and
the total time by which late callers moved `last_refill` back.

### ConfigReload

Files are version numbers. A load is three steps (read main, read overlays,
install), taken by the watcher or by any admin handler. The watcher samples the
mtime before it loads and keeps it only after a success (`sampled`, `last`).
`EditMain`, `EditOverlay`, `MoveMain` are the operator, from the moment `main` has
loaded the config: also before the watcher's first sample, whose value is kept
in the history variable `first`. `overtaken` and `newest` are history too.

### RouteCycles, ConfigLoad and ConfigFiles

`ConfigLoad` is `Config::load` as operators on TOML documents. A document is a function from its
places (the sequence of keys that leads there) to what stands there: a table, an array of
documents, or a scalar. `Merged` is `deep_merge`, whose recursion visits exactly the places that
both files have and reaches through tables, so it is stated for all places at once;
`MergedFiles` puts the files of conf.d over the main file one after the other; `Reads` is where
deserialisation refuses a file; `PutProfiles` puts the profile files over the config; `Load` is
all of it, with `RouteCycles` for the cascades: `Closes` is `dfs_profile_routes` as a function
of the path, `RoutesEnd` starts it from every profile. Against it stands `DeclaredLoad`, which
takes all files at once. `Declared` gives each place what the last file to speak of it says,
unless a later file ends a table above it; of an array it collects the items of all the arrays
that stand there one file after the other, and of each name keeps the first place and the last
content (`DeclaredItems`); an array whose items have no name replaces what stood there, and is
replaced, wholesale. `CascadeCycle` is a set of profiles of which each leads into the set.
Names and values are strings, and a section is kept only if the merge or the validation treats
it in its own way (`gateway`, `backends`, `tiers`, `aliases`, `profiles`, `clients`).

`Legible` says what a parsed file is, and that no array of one file names an item twice: of
such a file the documentation says nothing, and the code keeps both items where it takes the array
as it is, but replaces the first by the second where it merges it into another. It also leaves
out the stacks that put items without a name together (`StackByName`), because there the code
does not do what is said of it: `config/mod.rs:154` has such arrays replaced wholesale and
`config/mod.rs:246` and `docs/configuration.md:404` have `[[clients]]` replaced by name, while
`deep_merge` appends. Nameless arrays that stand in one file only are in. `Load` itself models
the append.

`ConfigFiles` composes it with `ConfigReload`: the `Catalogue` gives every pair of
versions its files, and `Invalid` is what `Load` refuses of them, so a loader
that reads the main file before an edit and the overlays after it gets whatever
that mixture loads as.

### TrafficLog

Handlers call a backend, or reply without one, then `try_lock`: `Store` or `Drop`. A
failed call records nothing, as in `route`. A reader is asked for a page
(`Ask`), and takes the lock once for each of its `Sections`: `judge` for
`/admin/backends/health` and escalate, `recent` then `stats` for
`/admin/traffic`, `recent` of everything for `/metrics`, `stats` for `/status`.
`page[r]` holds what is due and what was returned. `accepted`, `contended` and `since` are
history.

### Conversation

One client and its history of messages, which it sends in full with each request.
`Post`, `PostClassified` and `PostReply` are what `route` and `route_stream` do with
the body on the way to a backend: `Inject` (the prompts of profile and class),
`ClassifierInput` (the window the classifier is shown), `Parsed` and `ClassLabels`
(its answer, as tokens), `Thinking`. Which tier is chosen is any of them: that is `Routing`'s
subject. `Shown` is what the adapter of that tier puts on the wire, in one of four formats;
`Returned` and `Kept` are how the answer comes back and what the client
keeps. `NextRung` is escalate's climb after an answer that does not suffice.
`RunTool` is the client: it finishes the calls of an answer in any order. An error
is delivered as an assistant message (`Fails`), so it is history for the next
backend. `said`, and the fields `prompts`, `think`, `asked` and `options` of a call,
are history. The filters of the code are `Extract`, the elements of a sequence at given
places in their order. `Strings` is the set of all strings, `STRING` in the configuration: a
constant because the prover knows of no string literal that it is one.

## 4. What the runs check

| Run | Module, configuration | Checks |
|---|---|---|
| `gate` | `MCPriorityGate` | 4 requests, priorities -1..1 |
| `gate_ghost` | `MCPriorityGateGhost.cfg` | finding: a leaked slot |
| `dispatch` | `MCDispatch` | 2 requests, 3 retries, a backend that reloads change |
| `dispatch_4xx` | `MCDispatch4xx.cfg` | finding: 4xx errors are retried |
| `port` | `MCPort` | admission: 2 requests, 3 configs; bucket: 2 callers, 3 per window of 4 ticks; log: 2 handlers, 1 reader, capacity 2, 3 calls |
| `reload` | `MCConfigReload` | watcher, 2 admin handlers, 3 changes, 4 versions of each file; 4439 stacks of files |
| `traffic_health` | `MCTrafficLogHealth.cfg` | finding: failures not recorded |
| `routing` | `MCRouting` | 3 configs, every request over them |
| `escalate` | `MCEscalate` | 2 requests, 3 tiers, 2 gated |
| `streams` | `MCStreaming` | 8 scripts from 5 sources, channel of 2 |
| `tools` | `MCConversation` | 3 clients, 3 requests each, 3 backends, 4 modes |
| `tools_system` | `MCConversationSystem.cfg` | finding: an array-form system message is lost |

**gate.** `OnePerPriority` (two of one priority never occupy the gate together),
`WaitersBlocked` (no
queued entry could fire), `AdmissionOrder` (an action property: nobody is
admitted past a suspended request of higher rank, on the fast path either),
`ImplementsService` and the liveness `WaiterServedBarGhosts`. Four requests are the
fewest for one being served, one releasing, and two queued of which the first is
stale; three priorities allow above, equal and below.

**dispatch.** `PermitSpansLoop`; `OneCallPerPriority`: through a tier that was there at startup
no two requests of one priority call a local backend together, whatever reloads made of the
tier in between (a gate made anew by a reload would break it); `BackoffSchedule` (with
`RetryDelay` 800, `DelayCap` 2000 and `MaxDelay` 2500 standing for `u64::MAX`, three retries
pass both the cap and the saturation; that a dispatch gives up only after its last call is said
of transient errors only); and `DispatchEndsBarGhosts`. `dispatch_4xx` shows with the same
module that a 4xx error does not end a dispatch.

**port.** The limiter, the log and the admission share no variable, so they are checked one at
a time in one run: `part` says which of the three moves. Every state of one is a state of that
run, and a behaviour of all three is an interleaving of a behaviour of each.

Admission: a config with a limited client and a public profile, one without clients, one with
neither public nor default profile; both APIs. Two requests are enough for one to spend what
the other needs. `QuotaAccounted`, `KeyProfile`, `OneConfig`.

Bucket: `RPM` 3 and `Window` 4 do not divide one another, the burst rounds up, and
five ticks let a bucket run empty and refill past its cap. `CreditBound` bounds
what was spent by burst, refill and rewound time; `SteadyRate` says that without
rewound time no interval gives more than its due; `RetryExact` that `Retry-After`
is the least wait that suffices.

**reload.** `AppliedMark`: the watcher never believes a version live that was not, but
for the one it started with. `RealTimeOrder` (action property): a load loses only to one
that was already under way. `MainConvergesBarRace`: a good main file is live in
the end. `LiveIsSound`: what is live was read from files that fit together. Of four
main files one is not TOML and one cascades; of four overlays one closes that
cascade and one is not TOML. Three changes suffice for break, repair and an
edit in between. `LoadAsDeclared` compares `Load` with `DeclaredLoad` for every
mixture a loader reads and for `Inputs`: every legible stack of a main file and two
overlays over a menu of aliases, tiers, clients with and without a name, and profiles (new
names, old names, none, another kind of value), every graph of routes between three profiles
and a tier, and layouts of the profile directory.

Log: three calls and a log of two: it evicts once, while a page of two sections is
put together. `NewestKept`; `PagesInOrder`: each section of a page shows the log as it was at
one moment between the request for the page and its answer, and the totals of
`/admin/traffic` never an earlier moment than its list.

**routing.** Three configs between which a reload may switch at any step: a ladder
of four with an equally small second rung and an uncapped top, whose profiles cascade into one
that answers without a model; the same cascade the other way round; a config without default
profile. Requests combine six profiles, four hints, three sizes and every flag.
`NoProfileTwice`, `ContextGate`, `ExpertGate`, `ValidationSuffices`, `RouteEnds`.

**escalate.** Two requests and three rungs are the fewest for a request that waits
on one rung while its slot below is still taken and another request passes it.
`OnePermit`, `RungByRung`, `TiersAreServices`, `WalkEndsBarGhosts`.

**streams.** Scripts with a ping, a delta without text, a character of two bytes,
two deltas in one event, an error event, and a tool call in pieces; Ollama's lines;
the answer of a tool call that called something and of one that did not; a reply. Each is
cut in every way. A channel of two fills up. `Faithful`, `Prompt`,
`DoneMeansComplete`, `SendsEnd`.

**tools.** Three clients: one of the OpenAI API with tools, one with two system texts of its
own, of which the first is an array of parts, and no tools, one of the Ollama API; four
profiles, one for each mode, and a ladder of an Ollama, an OpenRouter and an Anthropic tier, of
which each request may get any. Three requests allow a call, its results and what the next
question makes of them. `Echo`: every backend is shown the text of each earlier answer, and, but
for Anthropic, the calls it made, with arguments in the form the backend's API reads; what is
excepted is named in the comments of `Echo` and `SameArgs` (text beside calls; arguments that
are no JSON; objects of an Ollama client before an OpenAI backend). The one answer of Anthropic
in two blocks shows that only the first comes back. `Paired`: a tool result is taken for that of
the call it answers. `PromptsFirst`: this request's prompts stand first, once, and no other's,
and behind them everything the client's own system messages say, but for the array-form texts
that `Lost` names. `tools_system` shows that loss against the comment that rules it out.
`CallerWins`: what the client set is what the backend sees. `AsksTheQuestion`: a classifier is
shown the question that is being answered.

Deadlock checking is off where the system really may stop: every request has
been answered and every file edited.

### Fairness

All fairness is weak. Tokio polls every woken future and every spawned task, so
steps of the program that need nobody outside are fair: `Resume`, release tasks,
the steps of a load, the relay's send. On top:

- `PriorityGate`: a permit is dropped in the end. Its holder is a call with the
  client's `timeout_ms`, within the gateway timeout where that is set.
- `Dispatch`: the timer fires (`TimeOut`); backends are *not* assumed to answer.
  A request waiting at a gate has no timer of its own.
- `Escalate`: every call ends, through `timeout_ms` of the client (this mode has
  no gateway timeout).
- `ConfigReload`: the watcher's steps and the steps of a load that has begun. The operator
  need not do anything.
- `Routing`: the request's own progress, not the reloads.
- `Streaming`: the relay, the translator and a client that reads; the backend owes nothing.

Arrivals, disconnects, edits and refills are never fair.

The liveness properties named `...BarGhosts` except the behaviours in which a slot was handed to a
client that had just left: there the property is false, and `gate_ghost` shows it.

## 5. What is proved

Proofs are in `*Proofs.tla`, each extending its module. `DispatchProofs` holds those about the
gate as well, `PortProofs` those about `Admission`, `RateLimiter` and `TrafficLog`,
`ConfigLoadProofs` those about the load and its search for cycles, `ConfigReloadProofs` those
about `ConfigFiles` too. All hold for every value of the constants under the assumptions named
in the modules, with no bound on requests, priorities, retries, tiers or configs.

**PriorityGate** (in `DispatchProofs`). The inductive invariant is `GateInv == TypeOK /\
QueueConsistent /\ OnePerPriority /\ SlotsAccounted /\ WaitersBlocked`. No
part is inductive alone: that a release frees exactly one slot needs
`OnePerPriority`, which needs `SlotsAccounted` (whoever can fire finds no equal in
flight); that waking one entry suffices needs `WaitersBlocked`
before the step and the order of the queue, for which `QueueConsistent` says that every
waiter still has its entry. From it: `TypeCorrect`, `MutualExclusionPerPriority`,
`SlotAccounting`, `NoLostWakeup`, `PriorityOrder`, and the refinement
`GateImplementsService`. The last finds the front of the queue as the first of the
waiting (`FirstIsFront`), which needs that a nonempty set of tickets has a least
one (`LeastNatural`).

**Dispatch.** As `Dispatch` is built from the gate's actions, the gate's theorems hold of it
(`GateHolds`), and with `Coupled`, which ties each request's `phase` to its `pc`,
`PermitSpansLoop` and, for any reloads in between, `OneCallPerPriority` follow. `BackoffDoubles`
has the invariant `LoopInv`: the sleep that `delay` stands for is the one due after those slept,
although `delay` itself runs ahead of the cap and saturates (`CappedDouble`); it assumes that
the cap is not above `MaxDelay`. Of the liveness that TLC checks, the safety half is proved:
`DispatchIsBounded` (each step of a dispatch brings down `StepsLeft`, which starts at twice the
retries and a constant, and nobody else's step changes it) and `NobodyWaitsForAWaiter` (behind
everyone queued is one at least as urgent who has the slot and is past the queue or about to be,
is about to free it, or left with it), which follows from `GateInv` and `Coupled`.

**RateLimiter.** `BucketTypeCorrect`; `CreditConservation` with the strengthening
`FreshBucket` (a bucket not yet made has spent nothing); `SteadyRefill` with
`SpentSince`, which bounds for each admission in the log what has been spent
from it up to `last_refill`, plus what is held. `ExactRetryAfter` needs no invariant
beyond those types, but the arithmetic of a division that rounds up (`DivisionBounds`, `RoundUp`)
and of a bucket that fills while it waits (`RefillSince`, `Waiting`). These
use only that `Window` and `RPM` are positive.

**ConfigReload.** `TypeCorrect`; `ReloadsInOrder` from `OrderInv` (a load that nobody
overtook has read nothing older than what is live); `WatcherNeverSkips` from
`WatcherInv`: what the watcher has sampled in this round is not newer than what it
then reads.

**TrafficLog.** `BoundedMemory` and `RingBuffer` from `RingInv`, for positive
capacity only: at 0 the code never evicts. `PagesShowTheLog` from `PageInv`, which says
of each page what it owes and what it has shown so far (`Shows`): what is
stored changes no buffer of the past (`PastStays`), so the moment a section showed
stays a moment of the log while the other section is waited for. That `/metrics` counts
a reversed list is the lemma `TotalsMirror`, by a bijection of positions.

**Routing.** `TypedInv` (types, and that an asker is a declared profile), `CascadeVisitsOnce`
from the eligibility of rules; `ContextGated` through `Undisturbed` (without a reload all
snapshots are the live config) and `Chosen` (the tier resolved was given by `MinTier`), assuming
tier names are unique, which the code does not check; `ExpertGated` through `Reached`;
`ValidationIsEnough` through `PathNeverCloses`, which derives from what the search of `validate`
found that no rule is ever found cyclic. `RouteIsBounded`: a request brings down `StepsLeft`
with each of its steps and no reload raises it, as a cascade visits only profiles that some
config names and none twice (`FS_PigeonHole`); it assumes that the configs name finitely many
profiles between them.

**RouteCycles** (in `ConfigLoadProofs`). `SearchIsExact`: `RoutesEnd` if and only if no set of
profiles cascades into itself (`CascadeCycle`). That the recursion of `dfs_profile_routes` has a
solution is shown by one (`Revisits`: some walk below the path comes back; `SearchSteps`).
Either direction is then the same argument: while cycle and search disagree, a path that visits
nothing twice can always be made longer, which finitely many profiles do not allow
(`NoEndlessPath`). `Routing` assumes of its configs the search and not its meaning, so its
theorems rest on this one.

**ConfigLoad.** `LoadIsDeclared`: whatever legible files there are, of any number and depth,
`Load` is `DeclaredLoad`. The merge is first compared with `Collected`, which says what the code
does of all arrays, the nameless items included (`FilesCollected`), by induction on the files:
to merge one more over what all before it collect is what all with it collect. Place by place
this asks which files have a say (`Say`, `Run`), and for arrays it is once more an induction, on
the items: to put one more item is to collect one more (`OneMoreItem`, by whether its name is
new, `NewName`, or known, `KnownName`). `CollectedAsDeclared` is where what the code does and
what is said of it meet: on stacks with `StackByName` the two are the same, since every run of
arrays is then either all named (`NamedItems`) or a single array (`LoneArray`); it gives
`FilesTogether`. That the items of a run of files are those of the run before it and the
new file's rests on what `FlattenSeq` returns (`FlattenSteps`). `NamesOnce` is needed where a
file's array is taken as it is. The search is `SearchIsExact`, for which the profiles of a
finite document and finitely many profile files have to be finitely many (`KeysAreFinite`).

**ConfigFiles** (in `ConfigReloadProofs`). `LoadsAsDeclared` is `LoadIsDeclared` for the
catalogue. `LiveStaysSound` adds `EditsCounted`, by which every mixture of versions a loader may
have read is in the catalogue: what is live has validated (`TypeCorrect`), so its files load, so
they are sound.

**Escalate.** `LadderInv` says of each tier and request where it stands there, given its rung
and phase (`Stands`); `HoldsOnePermit` and `TiersImplementService` follow. `ClimbInv` gives
`ClimbsRungByRung`. `WalkIsBounded` and `NobodyWaitsForAWaiter` are here what they are for
`Dispatch`. The second is not obvious, as a request waits at one gate after another: its
invariant is `Busy`, of the service at each rung, that everyone waiting is `Behind` someone at
least as urgent being served (`BusyStep`: whoever is first of the waiting by priority and
arrival is admitted when the last such one finishes, and the others are then behind it,
`FirstExists`); `LadderInv` then says that who is served at a rung calls there, or has left it,
but does not wait.

**Admission.** `RequestInv == \A r : Known(r) /\ Fresh(r)`: what the request's
record says about its key, profile and snapshot. `RoutedAsEntitled`
and `SeesOneConfig` follow; `QuotaSpentByRouted` adds that each step changes `Routed(p)`
by at most the one request that pays for it.

**Conversation.** `Invariance`: the inductive invariant `Inv` is `TypeOK` and eight parts.
`SystemFirst`: system messages are the client's own, at the front of the history. `Pending`: the
calls still to be done are those of the last answer without a result. `Underway`: the call of a
backend holds this history behind this request's prompts. `Remembered`: the answers in the
history are, in order, those in `said`, each as its backend and API would have it. `Results`: a
result stands behind the answer it belongs to, and has the id that answer gave. `Complete`:
before anything but a result follows, all calls of an answer have one. `IdsDiffer`: ids differ
within one answer (between answers they do not). `AsksTheQuestion` is kept as it is. Every step
of `Next` is of one of six kinds (`Kinds`: still, climbs, begins, asks, finishes a tool, says
something), so that each part has one lemma on what these do to it. The properties follow:
`ShownCarries` says what each of the five translations makes of history and prompts; it gives
`PromptsAlwaysFirst`, with the two readings of a system text that endpoints have (`Read`: only a
string, or the words of an array as well), and `EveryoneSeesWhatWasSaid`; `ResultsArePaired`
needs besides that the results of a complete turn in ascending order are each at the place of
their call (`OrderIsPlace`); `ClassifierAsksTheQuestion`, that the newest messages of a window
with a user in it include the newest user (`ClassifierSees`); `CallerAlwaysWins`, only how
`Over` composes. Filters and folds are recursive functions on places, so what they return is
proved by induction on places (`UpTo`, from `LeastNatural`), with `Recursion` for the existence
of the function: the set that the induction is about is built first, no operator is passed.

**Streaming.** `Soundness`: the inductive invariant `Sound` is `TypeOK`, what the script
says (`Fed`), that a character is split only after a cut, and `Flow`, which relates the
three parties' positions. With the relay, for some `k` and `D`: it has parsed `k` events, and
its line buffer and event type are what lies between them and the last byte read (`Parsed`);
`D` payloads are delivered, and the channel and the item in the relay's hand
are those from `D + 1` on, with an error last if and only if the upstream broke
(`Piped`, `Carrying`). Without it, what is delivered is what has been read (`Pulling`).
In both cases the sink's state and output are those of having taken
the first `m` symbols of one stream that does not depend on cuts (`Sinking`). A garbled
character is a difference between symbols of which neither can end a line, so
the same positions serve for what is garbled (`Carrying` and `Sinking` compare up to it).
None of this is inductive alone: that the sink renders
a whole line needs that the channel's next item is the next payload, this needs where the
relay stands in the script, and this that the buffer is the rest of the line.
From `Sound`: `AlwaysFaithful`; `AlwaysPrompt`, as a relay that waits has no line end in its
buffer, so `k` is all that has arrived; `DoneIsComplete`, as `[DONE]` is the
last payload, and the relay's own is owed only of an upstream that closed. The lemmas about
`FlattenSeq` (`LaidOut`, `Located`: where each piece of a flattened sequence lies) and about
lines in a body are by induction on places, as for `Conversation`.

Type correctness is a theorem of each of these modules (`TypeCorrect`, here
`BucketTypeCorrect`, `ConversationTypeCorrect`, `DispatchTypeCorrect`, `LogTypeCorrect` and
`StreamingTypeCorrect`) and not repeated as an invariant of a run.

**Model-checked only.** All liveness (`WaiterServedBarGhosts`, `DispatchEndsBarGhosts`,
`WalkEndsBarGhosts`, `RouteEnds`, `MainConvergesBarRace`, `SendsEnd`): progress under fairness
needs `ENABLED`, which this prover does not reach. For dispatches, walks and routes what is left
to TLC is just that: that the fair steps are enabled until the end. Every other property of a
passing run is a theorem.

## 6. What was found

Four disagreements between the code and what it says of itself have a run:

- `gate_ghost`: a client that leaves between grant and resume leaks a slot, and
  every request of its priority or below waits for ever
  (`router/priority.rs:80-84, 161-166`; promise at `router/modes.rs:527`).
- `traffic_health`: failed calls are never pushed, so health-based skipping never
  happens (`router/mod.rs:391`; promise at `config/gateway.rs:74`).
- `dispatch_4xx`: every error is retried (`router/modes.rs:563`), with the permit held;
  `config/gateway.rs:60-61` says 4xx errors are not.
- `tools_system`: a profile's prompt wipes out a leading system message whose content is an
  array of parts (`router/mod.rs:733-736`); the comment above (722-725) and
  `config/profile.rs:127-129` say the client's context is preserved.

Observed while modelling, and built into the models as the code does them:

- A limiter's caller that comes late to the lock moves `last_refill` back and the
  time is credited again (`api/rate_limit.rs:69, 86`); `CreditBound` says by how much.
- Two reloads may install in the wrong order (`api/admin.rs:228-230`), though the
  comment at `router/mod.rs:298` names the hot-reload task as the only caller.
- An edit between `Config::load` and the watcher's first mtime is lost until the
  next edit (the case `last = first` of `AppliedMark`); conf.d and profile files are
  not watched at all.
- OpenAI and Ollama adapters do not check the status of a streaming response
  (`backends/openai.rs:84-97`): an error body becomes the stream.
- Anthropic's `event: error` is dropped and `[DONE]` follows; a traffic entry says
  success before the first byte; the closing NDJSON line repeats the whole text; a
  relay outlives its client while the backend stalls.
- The Ollama API never charges the profile quota, which `router/mod.rs:199` and
  `config/profile.rs:89-90` have shared by all clients. `QuotaAccounted` leaves open whether an
  Ollama request pays and speaks of OpenAI requests and of those turned away. After a reload, a
  key may be served as `default` against the quota of its old profile.
- `traffic_log_capacity = 0` never evicts. A threshold of 1.0 does not disable the
  health check (`config/gateway.rs:101`): it is compared with `>=`.
- The context gate may lift a request without the expert flag past the ceiling in
  dispatch mode; the same mode prefers the model hint to the profile's
  tier (docs/configuration.md:206 says "all requests go here").
- A streamed request passes no gate, no retry and no gateway timeout.
- `route` falls back to the default profile, `classify_and_resolve` does not; the
  target of a rule and `public_profile` are not validated; two tiers of one name
  share a gate.
- The classifier's fallback label `instant` selects a middle tier when
  no tier has that label.
- An exhausted ladder fails the request, although the comment there announces "last
  resort: use the final candidate anyway" (`router/modes.rs:706-707`).
- An unknown or missing key without a public profile is answered 401, as
  `config/gateway.rs:50-51` says; the comment at `config/mod.rs:143-144` says the default
  profile is used then. `KeyProfile` leaves this case open.
- Array items without a name are appended in merges (`config/mod.rs:189`), where
  `config/mod.rs:154` has such arrays replaced wholesale. Clients have no
  name, so an overlay can only add to `[[clients]]`, which `config/mod.rs:246` and
  `docs/configuration.md:404` say it replaces by name. `LoadAsDeclared` leaves such stacks out.
- The error counts of `/status` and `/metrics` are always zero: failures are never pushed.
- Anthropic's adapter does not forward `tools` (`backends/anthropic.rs:213-261`), though
  `backends/mod.rs:141-143` says all other backends handle tool calls. Tool calls and results of
  the history it passes on in OpenAI's form (232-240), which Anthropic's API does not have
  (its header, 3-6, promises the translation): `Echo` claims no calls there. It drops system
  texts that are arrays (`Lost`), and of a whole answer it keeps the first block of text.
- A history of `/api/chat`, with objects for arguments and no ids, is sent as it is to an
  OpenAI backend; only Ollama's tool path translates histories, and only towards Ollama.
- On that path an answer with tool calls loses the text beside them (`Echo` allows it).
- A conversation whose newest messages hold no user is not classified at all
  (`router/modes.rs:73`): it gets the profile's tier.
- Escalate judges an answer by its text (`router/modes.rs:764`), so an answer that only calls
  tools is never sufficient.

## 7. What is not modelled, and why

- Text: the characters of prompts and answers, rendering of admin pages, metrics and
  headers, the wording of errors. No state or order depends on it. Where a text decides (an
  answer that suffices, a classifier's label, arguments that do not parse) it is a value
  from a small set.
- Embeddings, listings of models, health probes and `/healthz`: one HTTP call or a
  constant, with no state.
- Latencies, tiers and models in a traffic entry: neither the verdicts nor the totals of
  `TrafficLog` read them.
- Network and TLS, the runtime's scheduler, process shutdown: outside the code.
- `RwLock` poisoning: a panic while the config lock is held, which no line can
  cause.

Abstractions that every model shares: a request passes once (`Requests` is finite
in runs, arbitrary in proofs), strings are model values, and critical
sections are atomic because each is under one mutex and contains no `await`.
Integers that may wrap are checked where they do: the back-off delay
saturates. Tickets are `u64` and are taken as unbounded. Bounds used only for
TLC are the constants `MaxClock`, `MaxCalls`, `MaxChanges`, `MaxRefills`, named in guards of
the modules; the proofs hold for every value of them.
