# llmgw-core: TLA+ models, model checking and proofs

llmgw-core is a Go library that an LLM gateway embeds. It keeps no server of
its own: products call it from any number of goroutines and processes, supply
its stores, and choose its policies. What is hard in it is therefore what
happens *between* its callers: discoveries that end after the credential they
used was revoked, two browsers that finish one login, failures that arrive in
another order than the requests they belong to.

This directory holds modules that model those parts, TLC configurations that
check them on small instances, and proof modules that TLAPS checks for every
value of the constants. `PROJECT.json` maps each definition to the lines it
models and lists runs, mutants, hazards, findings and theorems.

## 1. The system

| Part | State it keeps | Operations | Interacts with |
|---|---|---|---|
| `catalog.Service` | per key: two mutexes, counts of hard and soft invalidations | `Read`, `Cached`, `Refresh`, `Invalidate` | a `core.CatalogStore`, the caller's `Discover` and `Rebase` hooks |
| `core.CatalogStore`, `MemoryCatalogStore` | a record and a revision per key | `Load`, `Save`, `SaveIf`, `Delete` | shared by processes |
| `oauthflow.Service` | none of its own | `Start`, `Get`, `Poll`, `Complete`, `Callback` | a `FlowStore`, provider drivers, the product's `Save` |
| `oauthflow.MemoryFlowStore` | flows, the index from OAuth states, revisions | `Create`, `Get`, `Consume`, `Update`, `ResolveState` | `oauthflow.Service` |
| `execution.HealthTracker` | per key: failure streak, counts by class, open and cooldown deadlines | `Record`, `Available`, `Reset` | policies read from the product's settings |
| `execution.Execute`, `ExecuteStream` | the locals of one execution | the walk over candidates, repeats, waits, commit of a stream | `HealthTracker`, the caller's context |
| `execution.Resilient` | none; guards a connector | admit, call, record, repeat | `HealthTracker` |
| `runtime.Runtime` | the provider, coordinator and policy of one settings generation, the last change's time, the last observed outcome | `Invoke`, `Stream`, `Transparent`, `ListModels`, `ReadCatalog`, `CachedCatalog` | the product's settings, `CredentialStore`, `catalog.Service`, `Resilient` |
| `core.CredentialStore` | bindings of callers and records by key | `Bind`, `Resolve` | `oauthflow`, `runtime` |
| `router.Router`, `CircuitBreaker` | failures and the time of the last, per provider | resolve, allow, success, failure | the product's handlers |
| `core.Engine` | registered providers | `/v1/models`, `/v1/chat/completions`, `/v1/messages` | providers, the usage hook |
| provider contracts | registered contracts | validate, connect, probe, publish | `anonymous` |
| transport planning, loss policy, capabilities | none | plans, labels, listings, decisions | `Engine`, `runtime`, `translation` |
| `translation` | a goroutine and a pipe per stream | convert requests, replies and streams; `Adapter` routes between surfaces | connectors |
| `providers`, `extension` | one exchange each; the extension client speaks to a daemon | requests, catalogs, streams | the network |
| `anonymous` | one scheduler goroutine | enroll, claim, check, record, stop | the product's hooks |

### Where it is hard

* **Concurrency.** A `catalog.Service` key has two mutexes, one held across an
  upstream call; invalidations do not wait for it. OAuth requests meet only in
  the store. Executions meet only in the tracker, whose policy is read outside
  its lock. A `Runtime` takes its settings snapshot outside its lock, so an
  older one may be installed after a newer one.
* **Several processes.** Stores and claims may be shared; a process knows of
  another only through a revision that moved.
* **Failure in the middle.** A store that fails after a generation was counted;
  a credential that cannot be saved after the provider granted it; a stream
  that fails while its first frames are held back, or after the client has
  some; a body that breaks off without an error.
* **Time.** Flows expire under the requests that work on them; a poll outlasts
  its interval; a success arrives after the failure that followed it; a caller
  gives up while its operation succeeds; evidence ages between a plan and the
  label of its response.
* **Bounds.** A record exactly at the size limit, a page token that repeats, a
  Retry-After that overflows a `time.Duration`, the cap on pending flows.

`PROJECT.json` lists these as hazards, each at the line where it bites, with
the properties that would catch it.

### What makes each part correct

* Catalogs: a revoked credential's rows never come back; an overtaken discovery
  overwrites nothing; every operation returns.
* OAuth flows: a code or grant is spent once; the outcome the owner reads is
  what happened; flows are visible to their owner only; the index from states
  and the cap per caller are exact.
* Execution: nothing is repeated or failed over once output reached the caller;
  every stream is closed; health hears of every try and of nothing else; a
  failure never shortens a deadline.
* Runtime: operations run under settings and credentials no older than their
  beginning; rows of older settings or of a replaced credential survive only in the
  windows the code leaves, which the properties name.
* Serving path: a client gets one target's output and learns truthfully whether
  it is complete; blame for a failure falls on the upstream only while the
  caller waits; limits hold at their exact value.
* Automation: one check per claim, evidence of what was seen, and a stop that
  returns with nothing running.

## 2. The modules

| Module | Models | Extends |
|---|---|---|
| `Catalog` | `catalog.Service` over a `CatalogStore` | |
| `FlowStore` | `oauthflow.MemoryFlowStore` | |
| `OAuthFlow` | `oauthflow.Service` over `FlowStore`, and its refinement mapping to `Grant` | `FlowStore`, instance of `Grant` |
| `Grant` | abstract: what an OAuth flow promises | |
| `Health` | `execution.HealthTracker` | |
| `Execution` | `Execute` and `ExecuteStream` over `Health` | `Health` |
| `Resilient` | `execution.Resilient` over `Health` | `Health` |
| `StreamBridge` | `translation.chatStream` and `messagesStream` | |
| `Runtime` | `runtime.Runtime` with `MemoryCredentialStore` | |
| `Engine` | the three handlers of `core.Engine` | |
| `Router` | `router.Router` and `CircuitBreaker` | |
| `ProviderHealth` | `ClassifyProviderFailure` | |
| `Wire` | one exchange of a provider or of the extension client | `ProviderHealth` |
| `Subsequences` | the loop that keeps some elements of a list, shared by the three below | |
| `Records` | the four readers of stream records | `Subsequences` |
| `LossPolicy`, `Adapter` | loss policies; `translation.Adapter` under them | `Adapter` extends `LossPolicy`, which extends `Subsequences` |
| `Transport` | capabilities, plans, labels and listings of a row | |
| `Contracts` | connections and publication of targets | `ProviderHealth`, `Subsequences` |
| `Anonymous` | `anonymous.Orchestrator`: `RunOnce`, `ConnectAll`, `Start` | `Contracts` |
| `SharedProofs` | lemmas about induction, recursion, `Subsequences` and the tracker's operators | `Health`, `Subsequences`, `TLAPS` |
| `CatalogProofs`, `OAuthFlowProofs`, `ExecutionProofs`, `ResilientProofs`, `RuntimeProofs` | theorems of the module they are named for | that module, `TLAPS`; `ExecutionProofs` and `ResilientProofs` also `SharedProofs` |
| `StreamProofs` | theorems of `StreamBridge`, `Records` and `Adapter` | these three, `SharedProofs` |
| `FrontProofs` | theorems of `Engine`, `Router`, `Wire`, `Transport` and `Anonymous` | these five, `SharedProofs` |
| `MC*` | instances for TLC; `MCFront` puts `Engine`, `Router`, `Wire`, `Records`, `Adapter` and `Transport` side by side | the modules named |

In the concurrent modules a process is a goroutine with a program counter and a
record of its locals, and one step is one critical section, one access to a
store, or one call of a hook, driver or upstream: the points between which
other goroutines can run. Definitions named `Mutant` in their comments are
plausible bugs; each replaces the definition that follows it in one mutant of
`PROJECT.json`, and TLC must then find the property violated.

### Catalog

`record` and `revision` are the store's state of one key; a key has its own
mutexes, generations and record, so one key stands for all. `hard`, `soft`,
`discovery` and `write` are `keyState` of each process. A `Read` or `Refresh`
walks `lock → load → generations → discover → save → (latest) → saveif →
(conflict) → reload`, and each label is where the code can be interrupted.
`Conditional` says whether the store is a `ConditionalCatalogStore`; without it
`Invalidate` saves a record that was never probed. The store may fail at every
access. A catalog's rows are model values; evidence keeps status, observation
time and schema version, which the Service compares.

`epoch`, `origin`, `born`, `seen` and `via` are history: how many hard
invalidations reached the store, which of them a stored or answered catalog had
seen, and whether a Rebase hook excused one.

### FlowStore, OAuthFlow and Grant

`flows` holds `memoryEntry` and `Flow` together; `states` is the index.
`Verdict` and `Look` are `ownedLocked`: what the caller learns and what the
look deletes or wipes. Each operation is one step under the store's mutex. The
Service keeps no state, so requests of several processes are simply more
threads. Drivers answer anything; `Unreliable` lets every store call fail.
`exchanged` and `saved` are history.

`Grant` is the abstract specification: per flow a status, the right to save one
credential, and whether one was saved. A flow may be spent once, which gives
the right to at most one request; the outcome is written once, after the right
is used or given up, and says which. `ImplementsGrant` maps the store's
flows, the requests that consumed one and have not saved, and `saved` to these
three, and TLC checks that every step of `OAuthFlow` is a step of `Grant` or a
stutter.

### Health, Execution and Resilient

`health` is the tracker's state of each key, `policy` what the product's
settings say at the moment. `Record` reads the policy (`ReadPolicy`) before its
critical section (`Record`), and `Available` after it (`NextCandidate`, then
`Admit`), as the code does. An error is what classification makes of it:
whether it is retryable, permits failover, counts for the circuit, came from an
upstream that answered, and its Retry-After. An execution invokes, pushes
output itself, or opens a stream; for a stream, `held` is `commit` while frames
are held back and `serving` the committed stream in the caller's hands.
`Cancel` ends the caller's context at any point. `tried`, `recorded`,
`streams`, `output` and `late` are history.

`Resilient` is the other user of the tracker: `guard` of operations on wrapped
providers, each `enter → admit → try → returned → (wait → try) → observe →
record`. `Judge` is the order in which `guard` asks: has the caller given up,
did the try serve, may it be repeated. A failure carries its own classification
and what its status says, which `TransientClassification` reads. Whether a
request may repeat (`RepeatableRequest`) is an input.

### StreamBridge

One stream, of either kind. `conv` is where the converter goroutine is, and
`outbox` what it is about to send on the unbuffered channel, so that a frame is
handed over in one step of both sides. The consumer's goroutines call `Next`
and `Close` in any mixture; `Close` is `stop → shut → drain → await`. The
upstream may send, end, fail or stall at every record. The converter proper is
llm-translate's and external: it makes a frame of a text record, and emits its
closing frame once its input has ended, also after a failure, as the comments
on `emit` say.

### Runtime

The settings are their generation. `rt` is the Runtime's own fields: the
generation of its provider and coordinator, and `changedAt`. An
operation walks `snapshot → bind → resolve → token → send → (refresh → resend)
→ observe`, a catalog read `… → since → lock → save`; `Noticed` is what `bind`
does when a snapshot differs from the generation it holds, and the snapshot is
taken before its lock. `Stream` takes the steps of `Invoke`, so the run has one
of them.

Each generation comes with a policy: whether it has a circuit, and how many
tries it allows. `send` and `resend` make a try each: Resilient repeats a failed
one inside the same call of the provider, with the same credential, as often as
`Policy.Retry` of the operation's own provider allows, so an operation makes at
most two calls of that many tries. What `Classify` and `Repeatable` decide is
open: a failed try may be repeated or not, and may count for the circuit or not.
`ListModels` passes through Resilient: it meets no circuit and is not repeated.

`table` and `record` are `MemoryCredentialStore`. The catalog Service is taken at the grain `Catalog`
justifies: a discovery lock and a count of hard invalidations per key. The
Resilient circuit is open or closed, under the policy that built it. The token
coordinator is outside this repository and external: it returns a token at
least as new as the revision it is asked for. `floor`, `began`, `sent`, `evidence`,
`overrides` (the policies put in effect since an operation was bound), and what
dates a catalog's credential (`revoked`, and the counts `hard` and `read` in its
rows) are history.

### Engine, Router

`Engine` serves one request: authentication and decoding, the targets of a
route, the call of each, the relay of its frames or its completion, and the
usage record. A provider's frame may carry an error, and a stream may end
without `[DONE]`. The converter of `/v1/messages` is external, as above.
The targets of a request are the places of its route, in order, that the policy
allows. `RegisterProvider` may replace what is registered while a request is served.
Requests share nothing else, so one at a time is enough.

`Router` keeps `failures` and `lastFailure`; requests resolve, call and record,
in any order. `BreakerExact` reads the decision from the log of results alone.

### Wire, Records

`Wire` is one exchange of one of three families (the providers, the older ones
among them, the extension client): request, status, body, pages, and what is
reported with which classification. Three
things can end it, and the model keeps them apart: the caller's context, the
provider's or client's own timer, and the transport. A provider that signs with a
service account may fail before it sends, at the exchange of a token.
`RetryAfterDelay` keeps `time.Duration`'s overflow (`Second`, `MaxDuration`).

`Records` reads lines through a buffer of `Buffer` bytes. A script is what the
upstream sends, with or without a final newline. The reference definition of a
stream's records is by lines and lengths only, and `RecordsExact` compares what
the four readers relay with it.

### LossPolicy, Adapter, Transport

`MatchLossPath` follows the code's recursion over segments, as a function from
each suffix of the pattern to the places of the path where it fits, and
`PolicyDecides` compares it with what the wildcards mean: a way to stretch the
pattern over the path. `Adapter` routes a request and keeps three kinds of losses
apart: those of the request's conversion and of the answer's, which the policy is
asked about, and the provider's own, which are reported and not checked, as are
those a stream's frames have later. The conversions are llm-translate's, so which
losses occur is open.

`Transport` stores a row as a catalog reported it, lets it age, be refreshed
and its credential change, and derives capabilities, plans, labels and
listings. An extension daemon's rows that say nothing are completed first. A
row's interfaces are a set: no plan depends on their order. A provider that could
not be built is the empty stack and has no interface.

### Contracts, Anonymous

`Anonymous` models the automation: `RunOnce` of schedulers, `ConnectAll`, and
`Start` with its stop. A check is `generation → discover → probe … → record`,
and the product may turn the automation off, reconfigure a provider or end the
context between any two. `ResultOf` is `resultOf` with its codes; `Contracts`
decides which targets it publishes. A row's id is told apart from what is left of
it without space and from its lower case, and may be empty. `reached`, `on`, `seen`
and `foul` are history.

## 3. The runs

Most properties of a run are conjunctions of named parts, given in brackets and
stated one by one in their modules; a module's type invariant, where it has one,
is a part too. Nearly every part has a mutant of its own.

| Run | Properties | Bounds |
|---|---|---|
| `catalog_service` | `Fenced` (`NoResurrection`, `ReadAfterInvalidation`), `DiscoveriesOrdered` (`SerializedDiscovery`, `ObservedAdvances`), `OperationsReturn` | one Service, a store that cannot fence, hard and soft invalidations, Rebase; 3 goroutines, 3 operations, clock 2 |
| `catalog_processes` | `Fenced`, `SchemaIsolation`, `ObservedNeverRegresses` | 3 processes, one upgraded, hard invalidations only; 3 operations, clock 2 |
| `catalog_remote` (violation) | `NoResurrection` | hard and soft mixed across processes: finding 1 |
| `oauth_device` | `FlowsHonest` (`SpentOnce`, `OutcomeHonest`, `OutcomeNotLost`, `OwnFlowsOnly`), `PollsSpaced`, `FlowsAdvance`, `ConsumedIsSettled` | 2 requests at a time, 4 in all, clock 4 |
| `oauth_code` | `FlowsHonest`, `StoreExact` (`IndexExact`, `PendingCap`), `ImplementsGrant` | 2 requests at a time, 4 in all, 2 flows, cap 1, a store that may fail |
| `execution_routes` | `OutputIsFinal`, `NoStreamLeaks`, `TriesAccounted` (`EveryTryAccounted`, `GivenUpNotBlamed`), `ExecutionsEnd` | 1 thread, 2 executions, 2 candidates, 2 attempts |
| `resilient` | `HealthExplained` (`StreakExplained`), `CountedOnce`, `StreamsDiscarded`, `DeadlinesKept` (`CircuitOnlyExtended`, `CooldownRunsItsCourse`) | 2 threads, 3 operations, clock 3, policy changes and resets |
| `streams` | `EndsTrue` (`FailedNeverComplete`, `EndsHonestly`, `LossesComplete`), `NoneOutlives`, `CloseReturns` | 3 records, 5 calls of 2 goroutines |
| `runtime` | `SettingsInEffect` (`BindingCurrent`, `PolicyInEffect`, `PolicyOfOperation`), `RowsCurrent` (`NoRowsFromBeforeChange`, `NoRowsOfReplacedCredential`), `CredentialsCurrent` (`ReplayedOnce`, `NoStaleCredential`), `EvidenceHonest` | 2 goroutines, 2 operations; 2 generations of settings, with a circuit in both or in the first only, and one or two tries; 2 revisions of a credential, 1 rebind or invalidation, clock 2; a caller with the shared OAuth login, then an API key of its own |
| `front` | `AnswersHonest` (`OneSource`, `FailoverJustified`, `FinishedIsDone`, `UsageHonest`), `RequestsAnswered`, `BreakerExact`, `ExchangeHonest` (`GivenUpBlamesNobody`, `SlowIsNotGivenUp`, `DiagnosticsWhole`, `PagesWalkedOnce`, `WaitsAsAsked`), `RecordsRelayed` (`RecordsExact`, `BoundExact`, `CutIsNotComplete`), `LossesDecided` (`PolicyDecides`, `LossesReported`, `ServedAsPromised`), `TransportHonest` (`TransparencyEarned`, `LabelsAgree`, `SilentRowsServed`), `TrustOnlyLapses` | 2 providers, ≤ 4 frames; 2 requests on breakers of threshold 2, clock 4, 4 results; 3 pages of ≤ 2 rows; ≤ 3 lines of ≤ 6 bytes, bound 5, buffer 2; all patterns of ≤ 3 segments; clock 5 |
| `anonymous` | `ChecksClaimed` (`CodexNeverReached`, `OneCheckPerInterval`, `OffStopsTheRun`), `RecordHonest` (`StopIsNotEvidence`, `EvidenceOfItsGeneration`, `ResultHonest`, `StoppedIsOver`), `StopsReturn` | 2 schedulers, or a scheduler and a manual run; a plain and a Codex provider; clock 2, 2 stops, 1 change |
| `extension_timeout` (violation) | `SlowDaemonIsNotGivenUp` | one exchange: finding 2 |

**Why the bounds are enough.** A race in the catalog needs a discovery, an
invalidation and a read, hence three operations and three goroutines; a clock
of two values distinguishes fresh from expired at `TTL = 1`. An OAuth race
needs a `Start` and two requests that contend; the fourth is a `Start` that
evicts, or a reader. Flows live, expire and lapse within the clock's bound. A
circuit needs failures of two classes and a success that was admitted before
them. Three records hold a text, the end of a message and something after it,
or a text, usage and a cut; five calls let one goroutine read to the end while
the other closes. In `runtime` the two operations straddle one settings change,
one new token and one rebind or invalidation, which is what every stated race
takes; the evidence goes stale within the clock. A failure that says nothing of the
upstream (`unserved`) differs from `failed` only in what it does to the circuit; the
run leaves it out, as it would make it too long, and the proofs include it. In `front` two targets
are a failover and what follows it; four frames hold text, a finish, `[DONE]`
and one too many; a breaker opens at two failures and results may arrive after
it; three pages over three tokens let one repeat; lines of two, four and six
bytes against a bound of five and a buffer of two meet the bound inside, at and
over it, whole and split. `anonymous` needs two claims that compete and one
change of the product's mind between them; its catalogs repeat a model, name
nothing, and have an id that is empty, blank, or reviewed in another case. Symmetry is used in `oauth_code`,
`resilient` and `runtime`, which check no liveness.

**Deadlock.** The runs of `runtime`, `front` and `anonymous` say
`CHECK_DEADLOCK FALSE`: an operation, a request or an exchange ends, and when
the bounded number of them is used up nothing is left to do.

**Fairness.** Liveness assumes weak fairness of each thread's steps once its
operation has begun: the Go scheduler runs it, a mutex is granted, and a driver,
store, discovery or upstream returns or has its context ended. No fairness is
assumed of new operations, of cancellation, of time or of the settings.
For a stream the converter and each goroutine of the consumer are fair, and the
upstream is not: `CloseReturns` holds when it never answers again, because its
`Close` unblocks its `Next`, as the comment on `Close` requires.
`OperationsReturn` needs no strong fairness of the mutexes because operations
are finitely many in an instance; with an endless supply of rivals it would
rest on the fairness of `sync.Mutex`, which Go provides by its starvation mode.
`RequestsAnswered` assumes that the engine's handler goes on while it can.
`StopsReturn` assumes that a call made under an ended context returns (weak
fairness of a run's steps once its context ended), that a waiting `stop` is
woken, and strong fairness of `Exit`: the scheduler's `select` picks among
ready cases at random, so a `Done` that stays ready is not passed over for ever
however often a tick or a wake is ready beside it.

## 4. Findings and observations

1. `catalog_remote`: a soft invalidation in this process, as a token refresh
   causes, makes `save` read a fresh revision, so a hard invalidation another
   process made during the same discovery goes unnoticed and the removed rows
   come back. `catalog_store.go` promises the fence "in this process or
   another".
2. `extension_timeout`: `transportError` of the extension client asks the
   context that `withDeadline` derived. When the client's own timeout ends it
   while the caller still waits, the failure permits no failover, although the
   comment above says "Another target may get past it, unless the caller gave
   up."

Smaller disagreements met while modelling, recorded without a run of their own;
the properties named say what does hold:

* `oauthflow/poll.go:71`: the `Update` that keeps a longer interval is tried
  once and its error dropped, so a "slow_down" need not last "for the rest of
  the flow". `FlowsAdvance`: the interval never shrinks.
* `oauthflow/poll.go:60`: a claim lasts one interval and a driver's `Poll` may
  last longer, so two polls can be with the provider, which `store.go:38` rules
  out. `PollsSpaced`: claims are an interval apart.
* `execution/execute.go:188`: a run that *succeeds* after its context ended is
  recorded and answered, though the comment says nothing more is recorded.
  `GivenUpNotBlamed`: no failure of such a run is.
* `runtime/runtime.go:182`: an operation that took its snapshot before a change
  installs the older provider again, with its circuit policy, while operations of
  the newer one are under way; `runtime/policy.go:11-14` speaks of one policy per
  instance and settings generation. `PolicyOfOperation`: an operation is judged by
  its provider's policy or one put in effect after it was bound.
* `runtime/runtime.go:187`: rows that an older provider lists in a discovery which
  ends after the change are dated at its end and served to the newer settings as
  fresh until their TTL. `NoRowsFromBeforeChange`: rows of a discovery that began
  after the change are never of an older provider.
* `runtime/catalog.go:22`: the credential is read before the catalog Service counts
  its generations. One that is replaced, and its catalog invalidated, between the
  two is still listed with and the rows stored, although `catalog/fence.go:17-19`
  says "a slow discovery never resurrects rows the old credential listed".
  `NoRowsOfReplacedCredential` excepts exactly this window.
* `runtime/runtime.go`: `observe` reads a `CircuitOpenError` as an outcome of
  the upstream, and `health.ObservedAt` may go back when observations arrive
  out of order.
* `router/router.go:49` speaks of a probe after the timeout; every waiting
  request is admitted. `BreakerExact` states the rule the code has.
* `anonymous`: a claim may be spent on nothing when the automation is turned
  off between the gate and the claim, and a check slower than `Every` may run
  beside the next one; what holds is that claims are `Every` apart. Probes go
  on after the context ended, and are not recorded.
* `provider_contracts.go:233`: `parseRetryAfter` multiplies without the
  overflow guard `providers/wire_http.go` has. `WaitsAsAsked` is about the
  latter.
* `extension`: a body that breaks off in `Info` or `ListModels` is an invalid
  answer, which permits no failover, while the providers' `unusableResponse`
  does; a 4xx counts for the circuit.
* `extension/provider.go:58-64` says of a model that reports nothing that core
  infers its provider's surfaces "wherever it reads a row". For one with *empty*
  capabilities of its own `TransportEvidence.Capabilities`
  (`transport_evidence.go:36-39`) keeps those, and the surfaces unknown.
  `SilentRowsServed`: no plan with requirement "any" rejects it.
* `translation/adapter.go:167`: the provider's own losses are merged into the
  report and never given to `Policy.Check`, so an answer may carry one the policy
  refuses. `PolicyDecides` speaks of the two conversions, `LossesReported` of all.
* `providers/google_auth.go:119`: the token exchange of a call is made without the
  caller's context, so a failure after the caller gave up counts against the token
  endpoint, while a transport failure of the request itself does not
  (`GivenUpBlamesNobody`).
* `providers/anonymous.go:81-87`: in a catalog with an empty id, and none of the
  reviewed ones, that id is the lexically first, and nothing is probed.
* `transport`: as a row's evidence ages, a plan may go from rejected or adapted
  to native at low confidence; `TrustOnlyLapses` says that time never makes one
  transparent. `ws:/responses` gives a capability but no interface.

## 5. The proofs

Eight modules hold proofs. Their theorems have no bound on processes,
goroutines, requests, keys, time or histories: the bounds of the runs are
constants of the models, and the theorems hold for every value of them.

| Module | Theorem | States | Run |
|---|---|---|---|
| `CatalogProofs` | `TypeCorrect` | `[]TypeOK` | `catalog_service` |
| | `SingleServiceNoResurrection` | one Service, any store, hard and soft invalidations, Rebase: `[]Fenced` | `catalog_service` |
| | `CrossProcessNoResurrection` | any processes, a fencing store, hard invalidations only: `[]Fenced` | `catalog_processes` |
| | `AnswersOfOwnSchema` | any processes, any store: `[]SchemaIsolation` | `catalog_processes` |
| | `SingleServiceOrdered` | one Service: `DiscoveriesOrdered` | `catalog_service` |
| | `CrossProcessOrdered` | a fencing store: `ObservedNeverRegresses` | `catalog_processes` |
| `OAuthFlowProofs` | `FlowsAreHonest`, `PollsAreSpaced`, `FlowsOnlyAdvance` | `[]FlowsHonest`, `[]PollsSpaced`, `FlowsAdvance` | `oauth_device` |
| | `StoreIsExact`, `GrantIsImplemented` | `[]StoreExact`, the refinement `ImplementsGrant` | `oauth_code` |
| `ExecutionProofs` | `NothingFollowsOutput`, `StreamsClosed`, `EveryTryHeard` | `[]OutputIsFinal`, `[]NoStreamLeaks`, `[]TriesAccounted` | `execution_routes` |
| `ResilientProofs` | `TrackerExplained`, `OutcomesCountedOnce`, `NoStreamKept`, `DeadlinesAreKept` | `[]HealthExplained`, `[]CountedOnce`, `[]StreamsDiscarded`, `DeadlinesKept` | `resilient` |
| `StreamProofs` | `StreamEndsTrue`, `ConverterFinished` | `[]EndsTrue`, `[]NoneOutlives` | `streams` |
| | `RecordsAreRelayed` | `RecordsSpec => []RecordsRelayed` | `front` |
| | `LossesAreDecided` | `AdapterSpec => []LossesDecided` | `front` |
| `RuntimeProofs` | `SettingsAreInEffect`, `RowsAreCurrent`, `CredentialsAreCurrent`, `EvidenceIsHonest` | `[]SettingsInEffect`, `[]RowsCurrent`, `[]CredentialsCurrent`, `[]EvidenceHonest` | `runtime` |
| `FrontProofs` | `AnswersAreHonest` | `EngineSpec => []AnswersHonest` | `front` |
| | `BreakerIsExact` | `RouterSpec => []BreakerExact` | `front` |
| | `ExchangesAreHonest` | `WireSpec => []ExchangeHonest` | `front` |
| | `PlansAreHonest`, `TrustLapses` | `TransportSpec => []TransportHonest`, `TransportSpec => TrustOnlyLapses` | `front` |
| | `ChecksAreClaimed`, `RecordsAreHonest` | `[]ChecksClaimed`, `[]RecordHonest` | `anonymous` |

`SharedProofs` holds the lemmas several of them share. The components of
`FrontProofs`, and those of `StreamProofs`, share no state, and each theorem is
about its component's own specification (`Spec` is the automation's in the one
and the bridge's in the other); in the run `front` a behaviour is of one of its
components.

**Assumptions.** The named `ASSUME`s of the modules, which TLC evaluates in
every run: bounds are natural numbers, input lists are of the declared types,
and the values that stand for absence (`None`, `Nobody`, `NoPage`,
`Unreported`, the Engine's own name) are no members of the sets they are told
apart from. Beyond types, the proofs need `IsFiniteSet(Id)` (the flows
of a caller are counted), `Class # {}` (an error has some class), at least one
caller and kind of operation, and clock and counters that can take one step
(`Runtime`). Policies are ones `LossPolicy.Validate` accepts
(`AdapterConstants`): the `Adapter` does not call it, `Decide` gives a rule's
action as it stands, and a misspelt "reject" would let a loss pass. Trimming an
id twice is trimming it once, and the empty id is trimmed (`ContractsConstants`). The fencing theorems of `Catalog` have hypotheses: `SingleService`
(all goroutines in one process) or `RevisionFenced` (conditional store, hard
invalidations only, no Rebase). With `catalog_remote` they say exactly where
the fence ends: it takes several processes *and* a save that reloads its
revision.

**The arguments.** Each safety theorem is three facts about an inductive
invariant: `Init` implies it, every step keeps it, it implies the property. Each action has a lemma or a step, and
under it one step for each part it can disturb. Why each property is not
inductive as it stands, and what is added:

*Catalog.* `NoResurrection` speaks of the store only: a save can break it
unless what the saving goroutine holds is known.

* `Drafted`: from `save` to `saveif` a goroutine holds evidence it discovered.
* `LockInv`: who is between taking and releasing `write` holds it, so between
  a save's check of the generations and its write no invalidation of the same
  process can reach the store.
* `SeenInv`: no history counter is ahead of the epoch.
* `GenerationInv`, with `Pending` (a hard invalidation counted, not yet in the
  store): in one process, the epoch is at most the hard count, less what is
  pending, so a save whose count is unchanged began its discovery at the
  current epoch. It is the invariant that turns a comparison of counters into
  a fact about the store; with a Rebase it is off by the one excused.
* `PassedInv`: a goroutine past the fence keeps that fact until it saves,
  which is where `LockInv` is needed.
* `NoSoft` and `RevisionInv`: across processes, the revision a discovery loaded
  dates the epoch at which it began: if the revision is unchanged, so is the
  epoch. `SaveIf` compares revisions atomically, so no lock is needed here.
* `SaveSafe`: what both cases owe the store: a goroutine whose save would be
  accepted has a discovery as young as the epoch. `NoResurrection` follows
  from it alone, and `ReadAfterInvalidation` from `NoResurrection` at the step
  that answers.
* `OwnDraft`: what a goroutine is about to save carries its own process's
  schema, hence `SchemaIsolation`.
* `HoldInv`: who discovers holds its process's `discovery` mutex. With one
  Service two cannot, and a draft is at least as late as the record
  (`Dated`, `SaveOrdered`, `SerialInv`), so a save never sets the observed time
  back. Across processes the revision does it: `OvertakenInv` says that a
  goroutine whose revision is still the store's was overtaken by nobody.

*OAuthFlow.* The invariant has a part per flow (`FlowFacts`: an entry agrees
with the history of what was exchanged and saved), a part per request
(`RequestFacts`: what it read, claimed or consumed still stands, as far as
revisions say so), and one per pair of requests (`Apart`: two never create or
spend one flow, and two at the provider claimed their polls an interval apart).
`SpendFacts` is the heart: between `Consume` and the recorded outcome nobody
else writes the entry, because a consumed flow is refused to `Claim`, `Consume`
and `Update` at another revision, and an eviction only deletes. `Numbered`
makes the oldest flow of a caller unique, so that an eviction lowers the count
by one, which is what `PendingCap` needs. The refinement maps a flow's status,
the requests that spend it and `saved` to `Grant`; every action is shown to be
one action of `Grant`, or a stutter, from this invariant, and the initial
states map to `Grant`'s.

*Execution and Resilient.* `Locals` says of each label what the execution's
record must hold there: which candidates the tracker has heard of (`Trying`,
`Walking`), and that a try that failed left no stream, no late caller and, after
output, a terminal error (`Judged`). `TrackerSound` is about each key: the
classes sum to the streak, and an open circuit or a cooldown has failures behind
it. `DeadlinesKept` is a property of one step and follows from the operators'
lemmas in `SharedProofs`.

*StreamBridge.* `EndsTrue` speaks of what `Next` returned; the invariant speaks
of what was returned *and* what is about to be sent (`Output`), so that handing
a frame over changes nothing: `OutputWhole` (while nobody has closed, it is what
the records convert to) and `NoFalseEnd` (no closing frame while the input
lasts, nor after a failure). `ConverterOrder` and `CloseOrder` say how far the
converter and each `Close` have come.

*Runtime.* `Binding`, `Holding`, `Sending`, `Carried`, `Observed` and `Served`
follow one operation through its labels; `Dates` and `Stored` are about what
they share. `Tried` and `Follows` say of two requests in a row that the second is
another try of one call, or the first of the replay. `Holding` and `Listed` carry
the count of invalidations at which a credential was read from the operation into
the catalog it lists: equal counts mean that no replacement came between. `Settled(g, since)` is the key notion: nothing stored at `since` or
later was listed by a provider of other settings before generation `g` came
into effect. `bind` establishes it with `changedAt`, and it survives later
stores and later changes because time does not go back.

*Loops and recursion.* Four components compute their answer by walking a
sequence of any length: the records of a stream, the matching of a loss's path,
the choice of a route and of the rejected losses, and the models a catalog names.
The library's induction theorems take an operator as a parameter; `UpTo` is the
same fact about a *set* of numbers (one that holds 0, and `i` whenever it holds
`i - 1`, holds `0..n`), proved from the minimal element of a well-founded
relation, and `Recursion` builds from it the function a recursive definition
denotes, without which a `CHOOSE` says nothing. `KeptUnfolds` and `OnlyKeeps`
then say once what every loop of `Subsequences` returns: the elements at the
places asked for, each of them, in the order of the list.

*Records.* The four readers go line by line and fragment by fragment, the
reference `Expected` speaks of whole lines. `Reads(s, l, ...)` is the bridge: since
line `s` the reader has been inside one record, holds exactly the lines from `s`
to `l - 1` and their bytes, and has returned what the loop keeps of the lines
before `s`. The bound is `frame.held + at.read <= MaxRecord`, kept fragment by
fragment; a refusal proves that the record as a whole is over the bound
(`TooLarge`), and an end that nothing refused that `relayed` is all of
`Expected`.

*Adapter.* `TripSound` says what is known of the losses at each label: once the
provider is called those of the request's conversion are ones the policy accepts,
an answer's are when it is served, and a refusal has a loss of the conversion it
came from to show for it (`Accepted`, `Deciding`); what is reported is the three in
their order (`AllLosses`).
`MatchIsFit` is the lemma behind `PolicyDecides`: the code's recursion, from the
last segment of the pattern backwards, finds a path exactly when there is a way
to cut it up among the segments (`FitsFrom`).

*Anonymous.* `RunSound` and `Dated` follow one run through its check: it probes
only models its own catalog named, of a provider that is not Codex, and the
generation it took is no newer than what it saw. `KnowsOn` carries what `Confirm`
read past the moment the automation is turned off. The invariant has no clause
about `ResultHonest`: it is proved of any run the rest of the invariant describes,
from what `resultOf` and `PublishExactTargets` keep of its probes and catalog. That
each named model is met first somewhere (`DistinctKeeps`) makes the published
targets exactly those asked for.

*Engine.* `AnswersHonest` speaks of replies; the invariant adds what the handler
at work knows: it has written nothing unless it relays (`ChatWorking`), what it
relays came from the target it is at (`Sourced`), every earlier try was a failure
that permits another, and a message has written only data until its stream ended
(`MessagesWorking`).

*Router.* `Counted`: `failures` is the length of the streak of failures at the
end of the provider's log, and `lastFailure` the time of its last. A success by
a request that began before the failures ends the streak all the same.

*Wire.* `Blamed`: the classification of a broken transport rests on what had
ended when it was made, and is not revised when something ends later.
`WaitsAsAsked` rests on the guard of `retryAfterDelay` and holds for every width
of `Duration`.

*Transport.* The properties are about operators of one state, so the invariant
is small (`row` is the completion of what was sent); the work is in the lemmas on
capabilities, evidence and plans.

**Only model-checked.**

* Liveness (`OperationsReturn`, `ConsumedIsSettled`, `ExecutionsEnd`,
  `CloseReturns`, `RequestsAnswered`, `StopsReturn`) needs fairness and
  `ENABLED`, which are out of the prover's reach.

Every safety invariant and every action property of the passing runs is proved.

## 6. What is not modelled

* Field-by-field conversions of requests and replies (`translation`, request
  building in `providers`, header encodings in `extension`) keep no state the
  properties speak of.
* `providers/registry.go` and the provider tables are data. The token caches of
  `google_auth.go` and `mimo.go` are state, and are left for later; of the exchange
  that fills the former, `Wire` has the failures.
* `catalog.Lookup`, `token_count.go`, `RepeatableRequest`,
  `ExponentialBackoff` and `oauthflow/browser.go` are pure.
* The conformance suites are tests; they were read as documentation of what the
  stores promise.
* Of the provider contracts, registration and error texts; of transport
  planning, operations other than chat, limits and modalities.

A `Next` that runs together with `Close` may receive the closing frames of a
message that is not complete; the code promises nothing of that, so
`EndsHonestly` speaks of streams nobody has closed.

## 7. What could come next

1. An abstract register with revocation that `Catalog` implements, whose
   simulation rests on `Fenced`.
2. The token caches of `providers`, and `RepeatableRequest` as an operator
   checked over bounded requests.
3. The operations of transport planning other than chat.
