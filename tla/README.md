# Verification of tw-quant-mcp

tw-quant-mcp is a Go server that answers MCP tool calls with Taiwanese market
data. It fetches documents from the official sources (TWSE, TPEx, TAIFEX, MOPS,
MIS and others), normalises them, keeps the results in a two-level cache and
combines them in some two hundred tools. This directory holds TLA+ models of
its core logic, the TLC runs that check them on small instances, and TLAPS
proofs that hold for every value of the constants. Paths below are relative to
the repository; line numbers are those of the commit the models were read from.

`PROJECT.json` lists components, runs, mutants (for every property, a small bug
that makes it fail), the source lines of every definition, findings, hazards
and theorems.

## 1. The system

| Component | State | Operations | Talks to |
|---|---|---|---|
| Read-through cache (`pkg/cache`) | L1 (Ristretto, memory), L2 (SQLite), singleflight group | `Get`, `GetOrFetch`, the stores and refills they make | called by every tool and by loaders; calls the fetch function it is given |
| Cache refresh script (`scripts/auto_cache_refresh.py`) | none of its own | deletes L2 rows from outside the process | L2 |
| HTTP client (`pkg/provider/client.go`, `breaker.go`, `ratelimit.go`) | failure count and pause of the breaker, bucket of the limiter, the retry loop of each call | `Do` = `Allow`, `Wait`, request, `Record` | called by every source adapter, concurrently |
| TAIFEX query layer (`pkg/provider/taifex_query.go`) | the remembered latest trading day under a mutex; results in the cache | `Fetch`, `FetchRange`, `LatestTradingDay` | cache, two TAIFEX adapters |
| Intraday engine (`pkg/provider/mis_worker.go`, `pkg/engine`) | watchlist and phase of the day, a ring and a VWAP per symbol, failure count | the worker's loop, `Advance`, `Set`, `MarkDegraded`, `Append`, `Update`, aggregation | MIS adapter, calendar, clock |
| Prewarm scheduler (`pkg/mcp/prewarm.go`) | once-a-day flags of four stages | `TickOnce`, `Run` | cache through the tools' fetches, calendar |
| Screener index (`pkg/domain/screener/index.go`, `pkg/mcp/index_build.go`) | a SQLite table and its build time | `Replace`, `Query`, `Count`, `BuiltAt` | prewarm builds it, tools read it |
| Tool core and registry (`pkg/mcp/core.go`, `registry.go`) | tool table, HTTP request counter | `Call`, `Register`, wrapping of results with their lineage | all handlers |
| Tool handlers (`pkg/mcp/tools_*.go`, `fetch.go`) | none between calls | fetch, join, filter, sort, page | cache, adapters, registry, index |
| ESG source selection (`pkg/mcp/tools_esg.go`) | the primary source, under a mutex | probe, choose, swap, fetch with fallback | two sources |
| Day-trade scanner (`pkg/mcp/risk.go`) | lists per market and their date | `AddLists`, `Scan` | handlers |
| Composite screens (`pkg/engine/composite`, `pkg/domain/screener`) | none | scoring and filtering | handlers |
| Calendar (`pkg/calendar`) | set of holidays | `Merge`, `IsTradingDay`, previous and next day | cache, prewarm, worker, handlers |
| Symbol registry (`pkg/model/registry.go`, `pkg/registry/loader.go`) | current symbol table | load from two sources, swap | cache, handlers |
| Source adapters (`pkg/provider/*.go`) | a client each | build URL, validate, normalise | HTTP client |
| Charts and indicators (`pkg/chart`, `pkg/engine/indicators.go`) | none | pure functions | handlers |
| Configuration, server entry | wiring | start-up | everything |

How they interact: a tool call enters `core.Call`, its handler resolves a date
and asks the cache (`fetchNormalize`, `fetchRaw`) or the TAIFEX query layer. On
a miss one goroutine per key leads a singleflight whose function calls an
adapter; the adapter's request goes through the guarded client of its host. The
answer is stored in L1 and L2 and given to all who wait. Prewarm makes the same
calls on a schedule, and the intraday worker polls beside it.

What is hard to get right in it, and what makes each part correct:

- Concurrency within a key: misses merged by a flight; reads, refills and
  stores of L1 and L2 that interleave between goroutines; the flight's leader
  being cancelled while others wait. Correct: one upstream request per key,
  only when the key is cold; never older data than an earlier call got; nothing
  past its lifetime as fresh; everyone gets an answer.
- Shared pacing of one host: queue, cancellation in the queue, jitter after the
  token, retries that pass neither bucket nor breaker, late answers of requests
  sent before the breaker opened. Correct: queued slots keep apart, a pause runs
  its course, it ends, and every call returns.
- Days: a day's data appears late and not everywhere at once, midnight passes
  while calls wait, a neighbouring day may substitute. Correct: rows of one day
  are never shown under another, published data is found, the default day is not
  stale.
- Failure: upstream errors with and without an expired row to fall back on,
  SQLite errors, a restart that keeps only SQLite.
- Two hundred handlers over one cache: keys, dates, row types, policies and
  schemas are kept in step by hand. Correct: who shares a key asks the same
  question and decodes the same rows; a page that names its day is of the day
  asked for; what an enum admits is served.
- Standing jobs: stages that run once a day beside tool calls, fail, or are cut
  short by a restart; an index rebuilt while it is read; lists of two markets
  and several dates merged into one map. Correct: every stage runs, no screen
  shows half a build, every flag of the scanner was read for the date it shows.
- The trading day: failures of the worker, changes of the watchlist and the
  turn of the day, volumes that are missing or fall back, in any order. Correct:
  rings and averages are of one day and complete, and the engine is degraded for a reason and not for good.
- A choice made once for all calls (the ESG source), under a mutex held across
  requests. Correct: it changes for a reason that still holds, a call is refused
  only when both sources failed it, and every call ends.

## 2. The cache: `ReadThroughCache`, `CacheContract`

State: `l1` and `l2` map a key to an entry with a version of the upstream
document, the expiry the level enforces (`exp`) and the expiry its store
promised (`due`, history). `flight` is the singleflight group: the leader per
key. A caller has its place in the code (`pc`), its `call`, the row or document
in its `hand` and its `answer`. `served` is history: the newest version told as
fresh.

One action is one access to shared state: `Begin` is the L1 look-up of `Get`
and `GetOrFetch`, `ReadL2` and `Refill` are `l2Get` outside the flight, `Join`
is `singleflight.Do`, `CheckL1`, `CheckL2`, `CheckRefill`, `FetchOk`,
`FetchFail`, `Fallback`, `StoreL1`, `StoreL2` and `Finish` are the leader's
function and the end of its flight, `Return` frees the caller. The environment
is time, the source that publishes, Ristretto that drops entries, cancellation
of a request's context, a restart, and the refresh script.

Two switches name assumptions. `InstantRefill`: no time passes between reading
a row and putting it back in L1; without it the code is wrong (below).
`L2Faults`: SQLite may fail. A row that cannot be read cannot answer for an
upstream error, so `UpstreamErrorMeansNoRow` is checked without faults;
`NeverOlder` and the contract hold with them too (section 9), because a leader
whose look in L2 failed sends no request.

`CacheContract` says what a caller may rely on with no levels or flights in
sight: one request per key at a time, and every call closed by one reply that is
fresh and no older than what was told before it, or stale and marked, or empty.
`HonoursContract` states that the cache implements it under the mapping at the
end of `ReadThroughCache`; all callers of one flight are closed by one `Close`.

Runs, with two callers and one key (keys do not interact but through the
callers), times 0..2 and TTLs 1 and 2 around the limit `MinL2Ttl` = 2, so that
one TTL goes to L1 only, and two versions:

- `cache_promises`: all safety properties and the refinement.
- `cache_ends`: every call ends, with faults, cancellation and row deletion;
  one version and one TTL suffice, the answer's content plays no part.

Two configurations show where the code falls short of its comments; TLC finds
the property of each violated:

- `MCReadThroughCache_bug_refill.cfg` (`FreshMeansUnexpired`): with time allowed
  to pass before the refill, the remaining lifetime may reach zero, which
  `l1.set` takes as "no expiry" (`cache.go:259`, `l1.go:50-55`). The row is then
  fresh for ever.
- `MCReadThroughCache_bug_cancel.cfg` (`LiveCallerGetsFallback`): the fetch and
  the fallback read run under the leader's context (`cache.go:171-175`). Its
  cancellation fails the waiters although a row is there.

Fairness: weak fairness of each caller's next step. Go runs every goroutine
that is ready, SQLite calls return, and a fetch ends by the client's timeout.
Nobody has to begin a call, and the environment owes nothing.

## 3. The HTTP client: `ResilientClient`

Every instant kept by the code is modelled as its distance from now, so time may
pass for ever in finitely many states. `failures` and `pause` are the breaker
(`pause` is `openUntil` - now, with values for "never" and "past", because
`Allow` recovers only strictly after `openUntil`), `nextSlot` is the bucket of
burst 1 as golang.org/x/time/rate keeps it, and a caller has its timer, attempt
and backoff. `Admit`, `Reserve`, `Jitter`, `Send`, the four answers, `Resend`
and `GiveUp` are `BaseClient.Do` in order. A cancelled reservation is restored
only if it is the last, as in x/time/rate. A client in `MisClients` is MIS at its
default pace, which sleeps the jitter only.

- `client_guard`: three callers in one queue (a head, a middle and a tail are
  needed to cancel in the middle) and one caller of a second client of the host
  without a bucket. Intervals, pauses and backoff of 2, 3 and 1 to 2 units let
  any of them end first. `PromptWake`: a goroutine runs within the unit in which
  its timer fired; without it two sends can be as close as the scheduler likes.
- `client_ends`: without that assumption, `Do` returns and the breaker opens
  again infinitely often. `MaxSlot` bounds the queue a cancelled caller may leave
  behind.

Configurations whose property TLC finds violated:

- `MCResilientClient_bug_retry.cfg` (`RequestsKeepInterval`): a retry is sent
  past the bucket (`client.go:178`); `prewarm.go:15` counts on the interval.
- `MCResilientClient_bug_open.cfg` (`HostPausedWhileOpen`): calls already queued
  or in backoff send while the breaker is open, which `breaker.go:9` excludes.

Fairness: time passes, and each caller's next step is weakly fair, for timers
fire and `http.Client.Timeout` ends a request that nobody answers. `Admit` is
not fair: nobody has to call.

## 4. The TAIFEX query layer: `TaifexQuery`

State: the calendar day, what each publication of the exchange offers
(`ratioDay` for PutCallRatio, from which the latest trading day is taken,
`apiDay` for the other endpoints, `dlDays` for the download), the memo
(`latestAt`, `latestDay`) and its mutex, one flight and one kept result per
(dataset, day). The three publications move independently: that is the point,
the code decides by one of them and reads another.

A caller's path: `AskDay`, `AskLatest` or `AskRange` (the tools' calls),
`Consult` / `DiscoverOk` / `DiscoverFail` (`latestTradingDay`, with the calendar
day read before the mutex is taken), `Look` (the cache and the flight), `ApiOk`
/ `ApiMiss` (hot tier), `DlOk` / `DlFail` (cold tier, with a neighbour as
substitute or a gap), `Scan`, `RangeDlOk` / `RangeDlFail` and `Put`
(`FetchRange`). `Settle` is the end of a load: the result is kept unless it is a
gap, and every joiner gets it. Cache accesses are one step here, as section 2
takes them apart; expired results are dropped at midnight; a restart keeps the
results and nothing else.

- `taifex_days`: days 3 and 4 of a calendar that begins with data of day 2, all
  publications and failures, two callers. A window of one day already has a day
  inside, one at the edge and one outside it; a lifetime of one day makes results
  expire in the run.
- `taifex_ends`: every query ends, with two callers contending for the mutex and
  for each other's flights, and ranges that join single-day loads.

Configurations whose property TLC finds violated:

- `MCTaifexQuery_bug_late.cfg` (`LateDataIsFound`): a range keeps gaps for seven
  days (`taifex_query.go:334`), which lines 15-16 say must not happen.
- `MCTaifexQuery_bug_rows.cfg` (`RowsOfTheirDay`): of datasets that are passed
  through unfiltered, rows of another day are shown and kept under the day asked
  for (`taifex_api.go:284`).

Fairness: weak for a caller's own steps, strong for taking the mutex: Go's
mutex hands over to a waiter that has starved for a millisecond, so a goroutine
that finds it free again and again gets it. Every HTTP request ends.

## 5. The tools: `Feeds` to `ToolCalls`

A handler validates its arguments, reads tables in an order its code fixes, and
shapes rows. Shaping keeps no state and is left out; the rest is modelled for
every registered handler that reads a source.

- `Feeds`: what can be asked of each source and what comes back. Per data set
  its cache policy (`cacheDataset`, the policy table, which classes fall to
  disk and when), the part of a request the source heeds (the adapters' URL
  builders), the check of the answer's date, and the row type the normaliser
  makes.
- `ToolKit`: an ask (source, data set, day, code, parameters, row type), its
  cache key, and a plan: steps of asks under a regime that says what a failure
  does (needed, tried, searched for a code, ...), whether a stale read is told
  in the lineage, and which steps depend on which.
- `MarketTools`, `ListTools`, `CompanyTools`, `DerivativeTools`: the handlers of
  `tools_bc.go` and `tools.go`, of `tools_weblist.go`, `tools_etf.go` and
  `tools_esg.go`, of `tools_de.go` and `tools_trend.go`, of `tools_fg.go`, one
  operator each, from a call's arguments to its plan. Handlers of one shape
  share an operator as they share a function in the code.
- `ToolRegistry`: the tools with the arguments their schemas admit, optional
  ones also left out, enums with all their values.
- `ToolCalls`: concurrent calls. Calls meet only where they read one cache key,
  so a behaviour follows one key, chosen among all keys any registered tool can
  read, with the calls whose plans touch it; reads of other keys succeed or fail
  freely. `ReadHit`, `ReadMiss`, `ReadDirect`, `Upstream`, `UpstreamFails` and
  `Woken` are `fetchNormalize` over `GetOrFetch` with one entry and one flight;
  section 2 takes these apart. Sources publish a new edition at their own time.

`tools_calls` checks all keys, two callers and two days. Two callers are enough
for one to meet what another left or is fetching; two days let an edition, a
date and a lifetime lag behind the clock. Codes are one listed share, one
over-the-counter share and one fund, the kinds the handlers tell apart; of a
list searched page by page two pages stand for all. Deadlock is not checked, for
a behaviour ends with its calls and its days. `OneQuestionPerKey` is the
property that some two hundred hand-written keys could break;
`DecodedAsNormalized` and `EveryTableHasAPolicy` relate tables in different
files. `DatedRowsAreOfTheirDay` is about the report pages of TWSE-WEB that are
sent a date: `Validate` compares it with the day the answer names, and passes an
answer that names none (an array, no rows, no date), which the model lets every
page give. The property says that the comparison, made once by whoever fetched,
is enough for all who read the key later, also a stale row. It says nothing of an
answer without a day, of pages that return a month, or of the TAIFEX reports,
which have their own check (`DatedRowsOfTheirDay` in section 4, and
`RowsOfTheirDay` for those passed through unfiltered). `EnumsAreServed` counts single
values of an enum; a refused pair of values and a missing argument are other ends
of a call (section 10). The courses of a plan are a recursive function over the places in its steps
(`Ways`), so that section 9 can prove these properties for any number of
callers and days.

- `tools_bug_types` (finding): `get_market_index_info` and `get_twse_index` read
  one key as different types. `l1Get` guards against that, the flight does not,
  and the call that joins the other's request panics.
- `MCToolCalls_bug_stale.cfg` (`StaleIsTold`, not among the runs): the stale flag of a
  read that a handler combines with others is lost in many of them.

## 6. The standing jobs: `Nightly`

`sched` is `PrewarmScheduler`: its day, the flags set, the stages due in the
round that is under way (`TickOnce` reads the clock once). `Enter` sets a
stage's flag before it runs. The index stage starts a `build`, which deletes,
inserts and commits, or rolls back, step by step on the store's one connection
(`file`, `undo`); the evening stage runs the handler that feeds the `scanner`.
Calls of the screen visit the store three times (`Visits`), and two tools add
lists (`AddLists`). Lists are filed under the date of the call. Whether a row is
really of that date is another matter (`own`): the notice page of the listed
stocks is asked by day, the other three sources take no date and give their
newest edition (`NewestEditions`). Time passes, and the process is restarted,
between any two steps. The index and the scanner share nothing but time, so a
behaviour follows one of them (`topic`).

`nightly_jobs` has a day the calendar must still learn is closed and a trading
day, one stock per market, one tool call beside the scheduler, and one restart.
A second day lets flags of the first survive wrongly and a closed day be taken
for a trading day; a second call adds nothing, for calls meet only in the
store's connection and the scanner's map, both of which the scheduler shares.

- `WholeBuilds` rests on the single connection: a reader with one of its own
  sees half a build.
- `StagesRun` says that nothing stays overdue. Fairness: goroutines run on and
  a stage ends, as its requests have time limits. Time is not fair; a run
  in which the day ends first owes nothing.
- `ScanKeepsToItsDate` is an action property: lists of several dates and both
  markets come in any order, every flag was read for the date the scan shows,
  and none is lost while that date stays.
- `nightly_bug_scope` (finding): the evening's lists are added under no market,
  so no scan finds them.

Configurations, not among the runs, whose property TLC finds violated:

- `MCNightly_bug_day.cfg` (`ScanIsOfItsDay`): a list is filed under the date of the
  call (`tools_bc.go:819`, `848`), though its source gave the newest edition
  (`tpex.go:19-20`). `model/intraday.go:72` calls the date a scan shows
  "名單日期", the date of the list.
- `MCNightly_bug_lists.cfg` (`NoListsIsTold`): any list of any market counts as
  loaded (`risk.go:60`), also after lists of another date have cleared it. A scan
  whose market has none then says nothing of it, against `risk.go:26-27`
  ("以「無名單資料」狀態回傳，並於 summary 說明").

## 7. The intraday engine: `IntradayEngine`

The worker looks at clock and watchlist, sends one request, and stores the
snapshots, first all in rings, then all in trackers (`Look`, `LookIdle`, `Send`,
`PollAnswered`, `PollFails`, `Store`, `Update`, `Healthy`). Rings and trackers
are per stock, so a behaviour follows those of one stock; a second stock makes
the watchlist non-empty without it. `hist` logs the ticks of the last day that
had any, `streak` the failures in a row.

`intraday_session`: two trading days around a closed one, a ring of two slots
filled with up to three ticks a day, so that it goes round, and two failures to
degrade. A poll does not last into the next day, as its request has a time
limit of seconds. A snapshot carries any volume up to `MaxVol`: the field may be
missing, which `parseVolOrZero` makes 0, and it may fall back. Fairness: the worker runs on and time passes, both of which
the code takes for granted. `RingIsTail` and `VwapIsOfAllTicks` relate the
incremental state to the log; the second holds at the end of a poll, for the
trackers are filled after the rings. It says what `vwap.go:17` promises, that the
sums kept by increments are those computed again from all snapshots
(`recomputeVWAP`), and that the average lies between low and high. Of the
volume it says that none is lost, and that it is the exchange's figure while the
figures only grow.

A configuration, not among the runs, whose property TLC finds violated:

- `MCIntradayEngine_bug_volume.cfg` (`VolumeCountedOnce`): when they do not grow,
  volume is counted twice. A snapshot without a volume leaves a 0
  (`mis_worker.go:356`, `vwap.go:59`), which the next one takes for the start of
  the day (`vwap.go:50`), so that the whole day is counted again, although
  `vwap.go:55` means to defend against a volume that falls back
  ("官方量能回檔之防禦").

## 8. ESG source selection: `EsgSource`

`preference` is `esgPrimary`, `lock` its mutex, `kept` the topics the cache
answers. `ResolveESGPrimary` takes the mutex and keeps it through the probes of
both sources; `FetchAll` asks topic by topic; `Fetched` turns to the other
source only when all failed; `SwapESGPrimary` compares before it swaps. Which
source is faster is a free choice; the time limit that both probes share may run
out in the first.

`esg_calls`: two calls and two topics, all that the code tells apart (none,
some or all failed; probed or not), with expiry and restarts. Fairness: weak for
a call's own steps, since requests end; strong for taking the mutex, as Go's
mutex hands over to a waiter that has starved for a millisecond.

## 9. What is proved

Every safety invariant and every action property the runs check, and the
refinement: for any number of callers, keys, stocks and days, and any values of
the constants that meet the named assumptions, which TLC evaluates in every run.
The modules `*Proofs` hold the
proofs; each is an inductive invariant, checked by TLC first, with one lemma per
action or group of actions. Where a theorem assumes more, it says so, and the
reason is given here.

`LeastNumbers` derives from the library's well-founded minimum that a set of
numbers has a least and a greatest element. It stands in for induction over
indices (the tail of a log, the sum of its ticks, the latest trading day, the
last of the places a handler may reach).

`ReadThroughCacheProofs`:

- `TypeCorrect`. `Singleflight`: `LeaderHoldsFlight` (whoever runs the leader's
  function is the caller recorded for its key) is inductive, and two fetches of
  one key would both be recorded.
- `FreshUnderInstantRefill`: `LifetimeInv` says that an enforced expiry is never
  later than the promised one, and that a row in a hand about to be refilled is
  still live.
- `StaleIfError` (assumes `~L2Faults`): `ColdInv` says that L2 holds nothing
  alive while a leader is past its look there, as only that leader could store.
- `RequestOnlyWhenCold`: `WarmInv` says the same of L1. This is not plain, for a
  refill from outside the flight may fill L1 after the leader looked: the row
  it carries is the row in L2, so the leader finds it there, and none can be on
  its way when the leader found none.
- `NeverBackInTime`: `NeverOlder` alone is far from inductive. `OneVersion` adds
  that at any moment one version of a key can still be given out as fresh:
  whatever is alive in L1 or L2, in a hand on its way up, being stored, or the
  result of a flight. Only an answer of the source replaces it, and then
  `ColdInv` and `WarmInv` say that nothing else is alive.
- `ContractHonoured`, the refinement. `ContractInv` joins the invariants above
  with `Published` (what is held or told was published). Under it each action
  is taken in turn: `Begin` opens a call, `CheckL2` is the contract's request
  when it sends the leader to fetch, what ends a flight closes all its callers
  at once, and the rest is a stutter. It assumes that the source publishes
  something (`MaxVer # 0`), for otherwise the model has nothing to answer with.

`RequestOnlyWhenCold`, `NeverBackInTime` and `ContractHonoured` assume
`InstantRefill` and that no script empties L2 (`"all"` not in `CronPatterns`);
`FreshUnderInstantRefill` assumes the first. Both are needed, and neither is a convenience of the
proof: without the first, `MCReadThroughCache_bug_refill.cfg` has TLC's
counterexample; with `--all` in the configuration of `cache_promises`, TLC finds
`NeverOlder` and `FetchOnlyWhenCold` violated. A row read before the
deletion is put back over what a flight stored meanwhile. So these
theorems say of the code: it keeps its promise as long as nobody runs
`auto_cache_refresh.py --all` on a live server, and a refill is faster than the
rest of the row's life.

`ResilientClientProofs`:

- `TypeCorrect` needs that a caller in backoff has a retry left.
- `QueueSpacing`: `SlotInv` adds to `SlotsApart` that every queued slot lies an
  interval before the bucket's next one, which is what a new reservation, and a
  restored one, rely on.
- `ClosedBreakerHasRoom`, `PauseIsKept`: `BreakerInv` relates the remaining pause
  to the time since the breaker opened.
- `FirstRequestsPaced`: `PaceInv` says that of two callers that hold a slot one
  is an interval behind the other but for the jitter it drew, that nobody's
  request will follow the last one too soon, nor will that of a caller yet to
  come. It assumes `PromptWake`: goroutines that oversleep may send together,
  and the code does not prevent it. `ClientAssumption` has jitters bounded, as
  `ratelimit.go:251-262` draws them from a range.

`TaifexQueryProofs`:

- `TypeCorrect` needs `Stands`, which ties a caller's place to its query (a
  range is a range, a put has a day missing).
- `DatedRowsHold`: `RowsInv` adds that an idle caller's answer is empty, so that
  no question is given the rows of the one before.
- `DefaultDateHolds`: `DawnInv` says that a memo made for today is at least as
  new as what was known at dawn, also for a caller that read the calendar before
  midnight, that nobody carries a calendar day ahead of today, and that dawn's
  knowledge never exceeds the present one.
- `PublishedDayHolds`: `FoundInv` says that what the download offered when a call
  began is offered still, that the days a range has downloaded include it, and
  that whatever a call loaded for itself, and did not take from another's load
  or from the cache, is made from such a download or is the day itself.

`NightlyProofs`: `WholeIndex`: `StoreInv` says that every day of the committed
table is one whole rebuild or absent, and that the writer's view differs from
it by just the rows deleted and inserted so far; `ScreenInv`, that a screen
between its visits relies only on a day that is there to stay. `FlagsKeepToTheirDate`:
`ListInv` says that the scanner's entries were read for its date, and that it has
none before it counts as loaded; and `AddLists` of the same date keeps or replaces each of them; it claims
nothing about the day a list is really of. `TypeCorrect` comes with them.

`IntradayEngineProofs`: `NewestSnapshots`: the slot written j ticks ago is the
j-th last of the log, wherever the head is (`RingInv`). `AllTicks`: the tracker
holds sums of the log, without its last tick between the filling of rings and
of trackers (`TrackerInv`), for volumes in any order; partial sums are functions,
and two that add the same ticks agree by `LeastNumber`. `Degraded`: the counter is the number of
failures in a row. `PollInv` and `LogInv` tie the worker to the log.

`EsgSourceProofs`: `Refused` and `Swaps`: `Accounted` says that what a call has
learnt accounts for where it stands, for topics asked in vain are
recorded; a call that probes holds the mutex.

`ToolCallsProofs` has two parts. The first is about the registry alone.
`RegistrySound`: at any time and for any arguments the schemas allow, each
tool's plan is sound, that is, every table it reads has a cache policy, every
row type it names is the one its normaliser makes, every step reads something,
and no value of an enum is refused. One lemma per handler (or group of handlers
of one shape) says so of its plan, from a few about asks, steps and sequences;
one per group of tools gathers them. The policy and row-type tables are looked
up name by name: this is where a table added without a policy, or a kind added
to a schema and not to its handler, would make a proof fail.

The second part is about the calls.

- `CourseAhead`: whatever an ask gives, a handler goes on to a later ask of its
  plan or ends. Hence any set of its places has a last one (`LastSeat`), which
  takes the place of induction: with it `WaysUnfold` shows that the recursive
  function `Ways` exists and satisfies its equation, and `ForestGrows` that every
  node of a course is a sound ask of the key followed, or an end.
- `CallsInv` is the inductive invariant: the entry, the request in flight and an
  outcome on its way answer every ask of the key (`Fits`), since two asks with
  one key are one question to the source (`OneKeyOneQuestion`); each call
  stands in a course of the registry and has been given good readings only; who
  waits is among those awaited. `TypeCorrect`, `OneQuestion`, `DatedRows`,
  `Decoded`, `Policies` and `Enums` follow. The theorems hold for any number of
  clients, any span of days that `DaysAssumption` allows, and any key,
  `OnlyKeys` included.

Only model-checked:

- Every liveness property (`EveryCallEnds`, `EveryDoReturns`, `BreakerReopens`,
  `EveryQueryEnds`, `StagesRun`, `ScreensEnd`, `DegradedEnds`, `CallsEnd`): they
  rest on fairness and ENABLED, which are out of the prover's reach.

## 10. Deviations noticed and not run

Met while reading, each plain in the code or already in the steps of a model:

- A value found by the leader's second look at the cache is reported as not
  from the cache (`pkg/cache/cache.go:163`).
- `scripts/auto_cache_refresh.py:62` deletes rows whose key contains a dataset's
  name; keys are hashes, so no row matches. Its `--all` deletes L2 under a live L1.
- The jitter is slept after the token is taken (`ratelimit.go:254`), its random
  generator is shared without a lock (`ratelimit.go:251`), MIS callers are not
  spaced (`ratelimit.go:239`), and several clients share a host (`etf.go:44`).
- A `FetchRange` that waits for a single-day load which ends in a gap fails as a
  whole (`taifex_query.go:337`), though line 280 says a day without data is
  marked. The step is in `Settle`.
- `loadDL` takes the farthest day of the window as the substitute
  (`taifex_query.go:208`); its comment says the nearest, which is what
  `FetchRange` does. Both are in the model.
- The market filter of the screener index never matches what the index stores
  (`pkg/domain/screener/index.go:185`), while the count's does, so a page and its
  total disagree. Both are in `Nightly`.
- A prewarm stage that fails is not tried again that day (`pkg/mcp/prewarm.go:98`).
- `rebuildScreenerIndex` takes the clock anew: a round begun before midnight may
  write the next day's index with today's data.
- The HTTP counter of a call is one field of the App (`core.go:100`), which
  concurrent calls reset for each other.
- `GetOtcDaytradeTargets` adds lists of a kind `Scan` never reads, and so clears
  the lists of both markets when its date differs (`risk.go:46`). Lists of an
  older date replace today's, and codes that left a list stay until the date changes.
- The stale flag of some reads is dropped by the screens' metrics, the financial
  statements, the health check, the valuation, the large traders' positions and
  the trend.
- The lineage's date of TPEx and API tables is the date asked for or today's,
  whatever edition the source has out.
- Rows fetched before a late publication but after 16:30 are written to disk for
  the long lifetime under today's key.
- `handlerGetFinancialHealthCheck` returns an earlier, empty error when the
  dividend read fails (`tools_de.go`), so the call succeeds with nothing in it
  (regime `hollow`).
- `get_tpex200_index` admits by schema a pair of arguments its handler refuses;
  `get_otc_governance` refuses a missing `kind` its schema
  does not require.
- `GetProfitabilitySummary` and `GetOtcIndex` sort the slice the cache holds.
- `Registry.Tools` takes a read lock and calls `Names`, which takes it again.
- `MISWorker` is constructed in tests only, so the rings of the server stay
  empty.
- `validateDateConsistency` passes an answer that names no day (`twse.go:647`), and
  arrays and answers without rows are not compared at all, so rows of another day
  in such an answer would be kept under the day asked for.
- ESG: an answer without rows counts as success, so the other source is not
  asked; the limit of 45 s is shared by both probes though `tools_esg.go:117`
  speaks of a single source; a probe may be answered by the cache and look fast.

## 11. Not modelled, and what is left

Not modelled, and why:

- Parsing of documents field by field, filters, pages and computed columns:
  sequential, and a matter of data, which the repository's table-driven tests
  cover better.
- Scores of screens and the health check, indicators and charts: arithmetic on
  floating-point numbers, which TLA+ does not have.
- Resampling, quotes and surge detection of the engine: they read one snapshot
  of a ring and keep nothing.
- The envelope and wire format, configuration, start-up, fixture and load tools.
- The symbol registry's load: one table is built aside and swapped under a lock.

Left:

- Pure algorithms on integers against reference definitions: resampling of
  ticks to bars, paging.
