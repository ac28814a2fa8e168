# majordomo-gateway: TLA+ verification

This directory models the LLM gateway of this repository in TLA+, checks the models with TLC on
small instances, and proves the most important facts about them with TLAPS for every value of
their constants. `PROJECT.json` lists components, runs, theorems, hazards, the mutated
definitions that show each property can fail, and for every definition the source lines it
stands for.

Contents: [Inventory](#inventory) · [Modules](#modules-and-the-code) · [Runs](#runs-and-bounds) ·
[Fairness](#fairness) · [Proofs](#proofs) · [Disagreements](#where-code-and-documentation-disagree) ·
[Not modelled](#what-is-not-modelled) · [Plan](#plan)

## Inventory

One request passes through: middleware → `proxy.Handler.ServeHTTP` → `auth.Resolver` (API key) →
`provider.Detect` → deprecated-model substitution → `ProviderRouter.Route` (when opted in) →
translation → `UpstreamClient` → the answer is relayed → a goroutine runs `logRequest`, which
parses the usage, prices it (`pricing.Service.Calculate`), attaches run tracing, archives bodies
and offers the row to `requestlog.Writer` → its single write loop inserts the row, feeds the
HyperLogLog manager and registers metadata keys. Next to that run the price refresh loop, the
sketch flush loop, metadata backfills and cleanups, and the admin API. Kubernetes runs two
replicas over one Postgres (`k8s/gateway.yaml`).

| Component | State | Operations | Talks to | Hard behaviour | What makes it correct |
|---|---|---|---|---|---|
| Request log writer (`requestlog/writer.go`) | bounded channel, `done`, write loop | `WriteRequestLog`, `writeLoop`, `writeLog`, `Close` | handler goroutines, HLL manager, database | full channel, drain against `done`, failing inserts, process end | every log has exactly one fate; the loop never blocks on an empty channel |
| HyperLogLog manager (`repositories/hll_manager.go`) | sketch, count and dirty mark per key | `LoadFromDB`, `AddValue`, `Flush`, `Stop` | write loop, database | flush in non-atomic steps outside the mutex, restart | counts never exceed rows; a persisted sketch never forgets |
| Process life cycle (`cmd/gateway`, `app`, `server`) | main goroutine | build, signal, shutdown, exit | all | order of shutdown, crash | a signal ends the process |
| Metadata index (`active_keys_cache.go`, `metadata_keys.go`, `metadata_service.go`) | cache per replica, jobs, `indexed_metadata` | `GetActiveKeys`, `Activate`, `Deactivate`, backfill, cleanup | write loop, admin API | stale cache on other replicas, fetch against invalidation, opposite jobs | only activated keys are indexed, the past is covered, caches converge |
| API key resolver (`auth/resolver.go`, `api_keys.go`) | LRU cache of valid and invalid keys, TTL | `ResolveAPIKey`, create, update, revoke | handler, database | concurrent lookups, expiry, eviction, failed reads | an answer is what the row said recently |
| Provider router (`providerrouter.go`, `endpoint_health.go`, provider keys) | health snapshot, mutex | `Route`, `getHealth`, key upsert and delete | handler, pricing, database | mutex held over a query, fail-open gate, keys deleted between check and use | policy and credentials always hold, condemned endpoints recover |
| Pricing (`pricing/service.go`) | three maps under a lock, refresh loop | load, reload, `resolve`, `Candidates`, `Calculate`, `Close` | file, remote feed, router, handler | either source fails at any time, edits during a fetch | readers see the catalog on top, routes are priced, prices are not lost |
| Request handler (`proxy/handler.go`, `upstream.go`, `override.go`) | locals of one request | `ServeHTTP`, `logRequest` | everything above | many early returns; provider, URL, body and key replaced separately | one row per relayed answer, stored keys stay with their provider, the row tells what was sent |
| Provider surfaces (`provider/*.go`) | none | detect, normalise paths, parse usage, translate | handler | six dialects, streams cut anywhere | each token priced once, one version segment in the URL |
| Answer relay (`handler.go`, `server/middleware.go`, `server.go`) | capture buffer, the server's write buffers, write deadline | copy loop, buffered write, `logAndFinish` | client, upstream, middleware, parsers, pricing | upstream, client or deadline cut a stream between capture, write and log; a wrapped response writer | whatever was delivered is billed, a cut is never overcharged |
| Agent runs (`spanid`, `usage.go`, `applyRunTracing`) | none | ids, list of runs, tree assembly, roll-up | database | paths of any shape, capture and assembly derive ids apart, an order that moves while it is paged | the waterfall adds up, a page skips only runs that grew |
| Usage queries (`repositories/usage.go`, `usage_service.go`) | none; they read `llm_requests` | filter, summary, series, breakdowns, errors, latencies, lists | database, admin API | two statements per report without a transaction, offsets over a growing list, windows that move at midnight, WHERE clauses copied by hand | reports of one moment agree, series follow totals, pages miss nothing |
| Deprecated models (`deprecated/service.go`) | map read once | `Lookup` | handler | later steps replace the model or start from the caller's body | a row marked redirected did not run on the deprecated model |
| Body archive (`storage`), admin controllers, other middleware, config, migrations, CLI, MCP server | — | I/O, SQL, flags | — | — | see [Not modelled](#what-is-not-modelled) |

## Modules and the code

| Module | Models | State ↔ code |
|---|---|---|
| `HLLManager` | `HLLManager` with its flush loop | entry = `hllEntry` (a sketch is the set of values inserted); `FlushSnapshot`, `FlushMarshal`, `FlushExec` are the steps of `Flush` that do not hold the mutex together |
| `RequestLog` | extends `HLLManager`: handler, log goroutines, channel, write loop, main goroutine, crash and restart | `writerPC` is the position in `writeLoop`/`writeLog`; `dropped`, `failed`, `vanished` record the fate of a log |
| `RequestAccounting` | abstract: an answered request has one log, whose fate is settled once and at last; a refused one has none | |
| `RequestLog_proofs` | the safety theorems of `RequestLog`, and that it implements `RequestAccounting` | |
| `MetadataIndex` | per replica: active-keys cache, write step, one admin call at a time; jobs; two tables | a row's metadata is its set of keys; values are left out; a log with other metadata or none matters by the cache entry it makes (`TakeOther`); `undone` are the keys a job of which failed, was killed or works against another |
| `MetadataIndex_proofs` | typing, the bound and the coverage of the index | |
| `KeyAuthority` | abstract: an answer is what the row said at most `Staleness` ago, or a failure | |
| `Resolver` | `ResolveAPIKey` step by step over the LRU cache and the table | `call[c].pc` separates look-up, removal, database read and store, which other callers may interleave |
| `Resolver_proofs` | `Resolver` implements `KeyAuthority`, refuses nobody falsely and keeps its cache bounded | |
| `ProviderRouter` | `Route`, the snapshot mutex, `resolveRoutedCredential`, provider keys, the rows the health query reads | `snapshot` is the set of condemned endpoints; prices only weight a choice whose weights are all positive |
| `ProviderRouter_proofs` | typing, the mutex and the policy of `ProviderRouter` | |
| `Pricing` | the loader, the two sources, `resolve` and the catalog | prices are opaque values, a feed is a list, and what several entries decide goes by their place in it; `loaded` remembers the sources of the last publication |
| `Pricing_proofs` | what readers of `Pricing` see | |
| `Providers` | the operators of `provider.go` | a path is the sequence of its segments |
| `Handler` | `ServeHTTP` and `logRequest` of one request | `pc` is the stage; `up` the upstream request in preparation; `wire` what was sent; a body is its model field and the set of other fields |
| `Handler_proofs` | typing, one log per answer, its content, where credentials go, and URLs, for `Handler` | |
| `CostAttribution` | `ParseResponse` of the four parsers and `Calculate` | a body is the sequence of events that report a usage; `torn` says that part of another follows, which fails the parser of Bedrock |
| `AnswerRelay` | extends `CostAttribution`: how an answer reaches the client and its row, through the middleware's writer and the server's buffers | `captured` is the buffer of the `TeeReader`, `buffered` what the server holds back, `row` the cost `logRequest` computes; `Writers` is the chain of response writers with their methods |
| `AnswerRelay_proofs` | billing of what is relayed, and the readings of the parsers | |
| `RunTree` | `spanid.go`, `assembleRunTree`, `rollUpRunNode` | a node is its canonical path; the loops over segments and rows are recursive functions |
| `UsageReports` | extends `RunTree`: `llm_requests` while it grows, every usage query, a client that reads reports and pages | a row has the columns the queries filter and group by; `caller` is what a client asked and has got so far; a page takes rows by their rank in the order; each WHERE clause of `usage.go` is an operator of its own |
| `UsageReports_proofs` | typing, series after totals, reports and trees that add up, what pages miss, where rows hang | |
| `MC*` | instances for TLC | |

What the modules leave to each other: `RequestLog` takes the outcome of a request as given
(`Handler` says when there is one), `Handler` takes the outcome of routing, authentication and
pricing as a choice (`ProviderRouter`, `Resolver`, `Pricing` say which choices there are), and
`MetadataIndex` takes the write step of `RequestLog` as one loop per replica. `Handler` ends where an
answer begins to be relayed; `AnswerRelay` starts there, event by event. `UsageReports` takes rows as
they come and lets metadata appear and disappear as `MetadataIndex` says.

## Runs and bounds

"expect" is *pass* unless marked. State counts are distinct states.

| Run | Question | Instance and why it is enough |
|---|---|---|
| `requestlog` | Does every log have one fate, as `RequestAccounting` promises, are counts and sketches right, does everything end? | 2 requests, 1 key, 2 values, `Cap` = 1: the channel is full with one log waiting, both are in different hands, and crash, restart and shutdown come between any two steps. 40 k |
| `requestlog_close` (violation) | Does `Close` drain the channel? | as above |
| `metadata` | Is only activated metadata indexed, is the past covered, do caches converge, do jobs end? | 2 replicas, 2 rows, 1 key, `BatchSize` = 1 (so a full batch means another round), `MaxCalls` = 2 (activate and deactivate, or twice the same), `MaxErrors` = 1, any number of logs without the key. 413 k |
| `resolver` | Is every answer recent, is no active key refused, is the cache bounded? | 2 callers, one real and one junk hash, `CacheSize` = 1 (each store evicts the other), `TTL` = `MaxLatency` = 1, `MaxTime` = 3: an entry can be created, expire and be replaced. 544 k |
| `router` | Do policy and credentials hold, who has the mutex? | 2 workers, 2 endpoints of which one guarantees ZDR, 2 key values (a key can be replaced), one row in the window. 262 k |
| `router_live` | Is every request sent on or refused, does a condemned endpoint recover? | 2 workers that contend for the mutex, 1 endpoint, `MinSamples` = `MaxRows` = 2. 8 k |
| `router_health` (violation) | Is a failing endpoint condemned? | 1 worker, `MinSamples` = 2 |
| `pricing` | What do readers see while sources change and fail? | 2 catalogs and 2 feeds that differ in one model each, an alias, a dated id, a route to an unpriced model; `MaxEdits` = 3: break, change, repair. 5 k |
| `handler` | Are rows, keys, URLs and headers right on every path? | every provider pin, path form, body and deprecation behaviour, two endpoints of one slug, a gateway with and without a router (`RouterSet`). The request is the only input, so this is exhaustive over the kinds the code distinguishes. 46 k |
| `relay` | Is what was delivered in the row, is each token priced once, is a cut never overcharged? | five dialects, 4 usages, streamed and buffered bodies with repeated, missing and over-long events; upstream, client and deadline give up between any two steps, the upstream also inside an event; `BufferSize` = 1, so that a stream both fits the buffers and overflows them. 11 k |
| `relay_flush` (violation) | Does a client get the chunks at once? | as above |
| `usage` | Do reports agree, do series follow totals, what may a page miss, does the waterfall add up? | 3 rows of 4 kinds (two runs and a request outside of them, failed and successful, with and without metadata), inserted late and out of order at 3 instants with a midnight after each; 5 queries with fixed, open and preset windows and every filter; pages of 1 and 2; one recent error by default, of two; `FetchCap` = `MaxSpanDepth` = 2 with a path of depth 3 and runs of 3 calls. 1.07 M |

Bounds that are not in the code: `MaxCalls`, `MaxErrors` (`MetadataIndex`), `MaxTime`,
`MaxLatency` (`Resolver`; the time between a database read and the store of its result, which
the code does not bound), `MaxRows` (`ProviderRouter`, rows of the health window;
`UsageReports`, rows of the table, whose clock ends at `MaxTime`), `MaxEdits` (`Pricing`).
`CHECK_DEADLOCK FALSE` is set where a system really stops: a process that exited, a request that
is done, a bound on time, edits or rows that is used up.

Properties worth reading first: `EveryLogHasOneOwner`, `CountsNeverExceedRows`,
`LoadedSketchNeverForgets` (`RequestLog`), `BackfillCoversPast`, `CacheConverges`
(`MetadataIndex`), `AnswersAreRecent` (`Resolver`), `PolicyHolds` and `CondemnationEnds`
(`ProviderRouter`), `CatalogAppliedOnTop`, `RoutedEndpointsPriced`, `SourcesReachReaders`
(`Pricing`), `KeysStayHome` and `RowTellsWire` (`Handler`), `EveryTokenPricedOnce` and
`DeliveredIsBilled` (`AnswerRelay`), `PagesMissNoRow`, `MissedRunsGrew` and `ReportsAddUp`
(`UsageReports`).

`JobsEnd` deserves a remark. A backfill and a cleanup of one key that run at the same time can
undo each other's batches for ever: each always finds a full batch. The property says that
every job ends unless that goes on; TLC finds the endless chase when the exception is removed.

## Fairness

* `RequestLog`: the write loop, the flush loop, a started log goroutine and the shutdown sequence
  run whenever they can (weak fairness): the Go scheduler runs every runnable goroutine, database
  calls return, and `Shutdown` gives up after 30 seconds. The flush loop's `select` between its
  ticker and `done` gets strong fairness for `done`, because Go chooses at random among ready
  cases. Clients, upstreams, signals and restarts are not assumed to do anything.
* `MetadataIndex`: write loops, admin calls in progress and jobs run; cache entries expire. Logs
  are not assumed to come, but they never run out (`TakeOther`), so that entries are fetched and
  stored again and again and `CacheConverges` is about what is in them.
* `Pricing`: the loader runs, file reads and fetches (30 s timeout) return, the ticker fires.
* `ProviderRouter`: a worker's steps are weakly fair; taking the mutex is strongly fair, which
  is what `sync.Mutex` gives through its starvation mode. An upstream need not answer: routed
  requests go through `ForwardStream`, which bounds the wait for the headers only
  (`upstream.go:52-57`). `RecoverySpec` adds, for `CondemnationEnds`, that snapshots expire, rows
  age out of the window, a health query does not fail for ever and requests keep coming. The
  gateway takes any number of requests and the model only as many at a time as it has workers, so
  one worker always gets its answer in the end; the other may hang for ever.
* `Resolver`, `Handler`, `AnswerRelay`, `UsageReports`: safety only, no fairness.

## Proofs

`RequestLog_proofs` (all constants arbitrary, assumptions `RequestLogAssumption` and those of
`HLLManager`: a positive capacity, metadata maps of the right type):

* `TypeCorrect`: `Spec => [](TypeOK /\ WriterHoldsLog)`. `WriterHoldsLog` says that the write
  loop has a log in its hands exactly while it is inside `writeLog`; without it the hand-over
  steps cannot be typed.
* `LogsHaveOneOwner`: `[](EveryLogHasOneOwner /\ ChannelWithinCapacity)`. The inductive invariant
  also says that the channel holds no log twice; two lemmas on `Append` and `Tail` of injective
  sequences carry the steps of the channel.
* `CountsBounded`: `[]CountsNeverExceedRows`. The bound is not inductive: between the insertion of
  a row and the end of the loop over its keys, the row is counted for some keys only.
  `WriterCountsItsRow` strengthens it by the keys still to do, for which the row is not counted.
* `LoadedSketchKept`: the action property `LoadedSketchNeverForgets`, from the invariant
  `SketchCovers` (a loaded entry, and every marshalled copy of it, contains what is persisted).
* `DrainReceiveEnabled`: `[]DrainNeverBlocks`, from the typing of the loop.
* `LogsImplementAccounting`: `Spec => Accounting!AccountingSafety`. `Outcome` and `Client` are the
  refinement mapping. By `EveryLogHasOneOwner` a log that changes hands had no fate before, so each
  step of the detailed system refuses or answers one request, settles one log, loses all open
  ones (exit, crash), or leaves the outside view as it is; there is one lemma for each of these
  cases. That every log is settled at last is the liveness half, which the run `requestlog` checks.

`MetadataIndex_proofs` (assumption `MetadataIndexAssumption`: sets and bounds of the right type, and
`None` is neither a request nor a key):

* `IndexTyped`: `[](TypeOK /\ LogsOwned)`. `LogsOwned`: no two write loops have the same log, and
  before its `INSERT` there is no row of it.
* `IndexAlwaysBounded`: `[]IndexBounded`. A stale cache, a set fetched before a deactivation and a job
  of a key that is no longer active may all still write to the index; `OnceActive` says of each of
  them that what it holds was activated at some time.
* `BackfillAlwaysCoversPast`: `[]BackfillCoversPast`. It is inductive with two facts: a key that is
  being undone counts as undone (`UndoingKnown`), and what existed at an activation is in the table
  (`PastHasRows`), so that a finished backfill, whose last batch found nothing more, has met it.

`Resolver_proofs` (assumption `ResolverAssumption`: a positive cache size, verdicts that differ from
settings):

* `ResolverImplementsAuthority`: `Spec => Authority!AuthoritySpec` for any keys, callers, cache
  size, TTL and latency: the initial state maps to the abstract one and every step to a step or a
  stutter. The inductive invariant is `IInv`: the current row is in the history (`RowSeen`), what
  a caller is about to store was read at most `MaxLatency` ago (`ReadIsRecent`), and an entry was
  true at most `TTL + MaxLatency` before it expires (`EntryReflectsRecentState`). The order of
  the LRU list plays no part in it.
* `EntriesReflectRecentState`: the two recency invariants themselves.
* `NeverRefusedFalsely`: `[]NoFalseRefusal`. `HInv` follows a refusal back through the cache and the
  callers in progress: a verdict other than settings is only ever about a junk or revoked key
  (`Honest`), and a row that is honest stays so.
* `CacheStaysBounded`: `[]TypeOK`. `LruOK` says that the list has exactly the stored entries, each
  once, so that evicting its last element makes room for one.

`ProviderRouter_proofs` (assumptions of `ProviderRouter`: the deployment demands only what is known,
at least one row of the health window is kept):

* `RouterTyped`: `Spec => [](TypeOK /\ MutexOwned)`: of all requests, exactly the one between the
  check of the snapshot's age and the end of the query holds the mutex.
* `PolicyAlwaysHolds`: `[]PolicyHolds`. The inductive invariant `Governed` says what a request has
  established at each stage: its needs include the floor of the deployment, the candidates come
  from the catalog entry of its slug, the chosen endpoint guarantees the needs, and what is
  forwarded has a key. It mentions neither the stored keys nor the snapshot, which is why it holds
  while both change under the request.

`Pricing_proofs` (assumptions `SourcesAreSeparate` and `ContentsAreDecoded`: what `parseCatalog` and
`fetchRemote` return has prices for known providers and models only):

* `ReadersSeeOnePublication`: `[]Holds(svc, loaded.catalog, loaded.feed)`: the three maps under the
  lock are a function of one catalog and one feed, those of the last publication. The invariant
  says the same of what the loader has prepared while it waits for the lock (`LoaderOK`).
* `PricesTyped`, `CatalogAlwaysOnTop` (`[]CatalogAppliedOnTop`) and `RoutedEndpointsAlwaysPriced`
  (`[]RoutedEndpointsPriced`) follow from it with lemmas about `FeedBase`, `OverlayDefaults` and
  `CatalogRoutes`: an overlay wins where it has an entry, and a route only has listed endpoints.
* `FedModelsAlwaysPriced`: the action property `FedModelsStayPriced`, from `FeedKept` (once a feed
  was published, each later publication has one).

`Handler_proofs` (assumptions `HandlerAssumption`: URLs are sequences of segments, no slug is called
"unknown", and no endpoint of the catalog is at `bedrock` or `anthropic-openai`;
`DeprecatedAssumption`: no replacement and no endpoint's model is deprecated itself;
`BaseURLsCompose`: base URLs stop before the version, as `model_catalog.json` line 2 asks):

* `AnswersAlwaysLoggedOnce`: `[]AnswersLoggedOnce`. `LogInv` ties the stage to the reply and the
  log: before the end nothing is replied or logged, after it the upstream's answer is logged or
  about to be, and a refusal is not.
* `KeysAlwaysStayHome`: `[]KeysStayHome`. `KeyInv` says that from detection to routing the upstream
  request is the caller's own (`Own`), and from there on either that or one lent a stored key
  (`Lent`). `Lent` includes that the body is JSON, since only then does the model of the endpoint
  go out with the key; this needs that no slug is "unknown", the model of a body that is no JSON.
* `HandlerTyped` (`[]TypeOK`) and `RowsAlwaysTellWire` (`[]RowTellsWire`). `Decisions` says what has
  been decided at each stage (a replaced model is not deprecated, a routed request is an
  endpoint's and its headers say so), `Traffic` that wire, answer, reply and row follow it.
* `AlwaysOneVersionSegment`: `[]OneVersionSegment`. `Fitting` says of the request in preparation
  that its base URL composes with its provider and its path is the normalised one, or, once
  translated, `SentPath`; a lemma gives the version segments of `base \o path`.

`AnswerRelay_proofs` (assumption `AnswerRelayAssumption`: counts and prices are numbers, a price per
input token is positive and a multiple of 4, a usage has input and more than one output token, the
server buffers something):

* `RelayTyped`: `[]TypeOK`. `RelayInv` says that `delivered`, what the server buffers and, while a
  chunk is written, that chunk make up `captured`, which is a prefix of the answer.
* `TokensPricedOnce`: `[]EveryTokenPricedOnce`; `NeverOvercharged`: `[]CutNeverOvercharged`;
  `DeliveryIsBilled`: `[]DeliveredIsBilled`. What the parser of a dialect reads in a prefix of a body
  has one of two forms, with the input or without (`Form`), and a longer prefix never lowers it
  (`ReadingsGrow`); the last is the long part, one lemma per dialect. A cost is then compared
  form by form.

`UsageReports_proofs` (assumptions `UsageReportsAssumption`, of the types of calls and queries, and
`RunTreeAssumption`: a positive depth and cap). The first also says that every call has a key, which
the handler sets on each row (`handler.go:477`) and which no query removes, and that the absent
value is no number and not the status `"error"`: without a key on a row the breakdown by key would
have a group that no filter selects. `IInv` is the conjunction of five parts:

* `UsageTyped`: `[]TypeOK`, from `Rows` (rows are well logged) and `Client`.
* `SeriesAlwaysFollow`: `[]SeriesFollowTotals`. `Followed` recounts the totals of a report under way
  over the rows that were there, whatever has come since.
* `PagesNeverMissARow`: `PagesMissNoRow`, an action property. `RequestsWalk` says of whoever was
  listed at the start, has not been read and ties with nobody that at least `offset` others are in
  front of it: inserts and midnights only add to those, and a page takes exactly the next ones.
  The ranks of a finite order are 0, 1, 2 ... without a gap, so an empty page means that nobody is
  left.
* `OnlyRunsThatGrewAreMissed`: `MissedRunsGrew`. `RunsWalk` is the same for runs and their
  `ended_at`, for runs that got no call meanwhile.
* `RowsAlwaysHangWhereLogged`: `[]RowsHangWhereLogged`. By induction over the rows of a run, after `n`
  of them the tree has `n` leaves, each under the deepest node of its path (`TreeGrows`); by
  induction over its segments a canonical path has no empty name, and one without them is
  canonical already (`CanonicalIsClean`, `CanonicalStays`), which is why capture and assembly agree.

* `ReportsAlwaysAddUp`: `[]ReportsAddUp`. The WHERE clauses, written out one by one, select the
  same rows (`ClausesAgree`). The groups of a breakdown partition the rows it selects
  (`ReportsAreGroups`), and a sum over a set is that of the sums over the classes of a partition
  (`SumOfClasses`), so each combined report is the summary (`GroupsAddUp`). What the filters of two
  statements select is compared row by row (`FiltersSelect`). For a run whose calls are all in the
  window, the positions of `RunCalls` and the rows of the run correspond one to one
  (`RunCallsAreRows`), so the root of the tree and the run in the list add the same costs
  (`RunCostsAgree`).
* `TreesAlwaysConserve`: `[]TreeConserves`. The leaves below a node are those at the node and, child by
  child, those below its children, and these are disjoint (`IsSplit`, `NodeAdds`); the depth bounds the
  tree, so by induction on the depth that is left `RollUp` is the sum over the leaves below
  (`RollUpAdds`), whose costs and paths are those of the fetched rows (`RunTreeAdds`).

A sum over a finite set, `MapThenSumSet`, unfolds to a recursive function on subsets that takes away a
chosen element at a time. The proofs first show that such a function exists (`SumsExist`) and is unique
(`SumsAgree`), by induction on subsets, then that any element may be the one taken away
(`SumWithout`), and from it that sums split along disjoint sets and partitions and do not change under
a bijection (`SumOfBoth`, `SumOfClasses`, `SumRenamed`).

Inductions over `Nat` are in set form: `NatLessThanWellFounded` and `WFMin` of the library give a set of
numbers its least member, and a set with 0 and all successors is then all of `Nat`. Recursive functions
are shown to satisfy their equations in the same way.

Only model-checked:

* All liveness properties: that logs are settled at last in `ImplementsAccounting`,
  `ShutdownCompletes`, `CacheConverges`, `JobsEnd`, `RoutingEnds`, `CondemnationEnds`,
  `SourcesReachReaders`. Fairness and `ENABLED` are out of the prover's reach.

## Where code and documentation disagree

Shown by a run:

1. `requestlog_close`: `writer.go:55` says Close drains the channel. It closes `done`, waits for
   the HLL flush, and closes the database; the write loop may still be draining, and its
   inserts fail.
2. `router_health`: `providerrouter.go:168` says endpoints with a high error rate are dropped. An
   error body names no model, so the failed row is written under the slug the caller asked for,
   while the gate looks for the endpoint's own model id.
3. `relay_flush`: `handler.go:770-772` says chunks are delivered to the client immediately. The
   handler is given the writer of the Logger middleware, which has neither `Flush` nor `Unwrap`
   (`middleware.go:65-73`), so nothing is flushed, and the write deadline is not cleared either
   (`handler.go:295-300`): a stream longer than `WriteTimeout` is cut. `streaming_test.go` tests the
   handler without the middleware. `DeliveredIsBilled` shows that the row survives the cut.

Seen while modelling, without a run of their own:

* `models.go:46-48` says a redirect substitutes the replacement before forwarding. The translation
  for `anthropic-openai` starts from the caller's body (`handler.go:249`), and Bedrock takes its
  model from the path, so both run on the deprecated model and are logged as redirected.
  `RowTellsWire` shows that no other provider does.
* `openai.go:58` says the usage comes from the last chunk that has one, `README.md:4` that every
  request is priced. `bufio.Scanner` stops at a line over 64 KB, streams from Gemini with `alt=sse`
  are not parsed, and streams pinned to `anthropic-openai` are priced without their input.
  `EveryTokenPricedOnce` is an equivalence: these bodies, and no others, are priced short.
  A stream that begins with a comment line is not taken for SSE.
* `README.md:243` says a listed model is always priced from the catalog. When the catalog lists
  the model under one provider only and the feed lists it under the vendor that served the
  request, the feed's price wins (`service.go:433`).
* `README.md:168` says activating makes past usage queryable. The cleanup of an earlier
  deactivation is not stopped by a reactivation and can remove the key behind the backfill. The
  next activation repairs it, which `BackfillCoversPast` includes.
* `usage.go:737` says usage is "rolled up across every LLM call in the run"; calls outside of the
  window of the query are not in the roll-up, while the run's tree has them all. `ReportsAddUp`
  compares the two where the window has the whole run.
* The list of runs does not apply the filters for provider, model, metadata and status, and the
  breakdown by key does not apply the one for the key, although all are accepted.
* A list with a preset window can lose a run at midnight between two pages, and a run that gets
  another call while the list is read jumps ahead of the page: `MissedRunsGrew` says when.
* `DATE_TRUNC('day', requested_at)` uses the time zone of the database session, the window UTC;
  the model has one day for both.
* Two replicas overwrite each other's `hll_state`.

## What is not modelled

* Controllers, CLI and MCP server: parameter parsing, one call of a service per request, printing.
  They keep no state; what a client does with offsets is the walk of `UsageReports`.
* Of usage queries: validation errors, percentiles, labels, the detail and archived body of one
  request, and errors of the database (a report that fails returns nothing). A latency is the set
  of rows it is computed of.
* Configuration, migrations, connection pools: constants before the first request.
* Object storage: whether bodies were archived is a choice; the clients keep no state.
* Ciphers, hashes, random keys: a key is a model value and decryption returns it or fails.
* `UpdateAPIKeyLastUsed`: writes columns nothing here reads.
* A caller's credential is one field, the `Authorization` header that routing replaces
  (`handler.go:230`); a key that a caller sends elsewhere travels as it came.
* `Resolver` tells a look-up that failed from one that refused; the handler answers both with 401
  (`handler.go:107-111`).
* Usage fields that no parser reads, such as tokens an upstream counts apart.
* Compression and copied headers of a response; wording of errors and log lines.
* Prices as numbers: in `Pricing` they are opaque, in `AnswerRelay` and `UsageReports` small
  integers; rounding of floating point is not considered.
* A model without a price (`Calculate` returns zeros) is left to `Pricing`, which says when
  `resolve` finds one.

## Plan

Done in this order: `HLLManager`, `RequestLog` and its proofs, `MetadataIndex`, `Resolver` with its
abstract specification and proofs, `ProviderRouter`, `Pricing`, `Handler`, then `AnswerRelay`,
`UsageReports` over `RunTree`, `RequestAccounting` with the proof that `RequestLog` implements it,
and the proofs about every component.

Every safety property the runs check is now a theorem. What is left are two models: `SharedSketches`, two `HLLManager` instances over one table (that a persisted sketch
covers every row of its key fails with two replicas), and the body archive with its failure paths.
