# Verification of middleout-proxy

`middleout_proxy` sits between a client of the Anthropic Messages API and the
upstream. It shrinks request bodies, answers repeated requests from two caches,
limits clients, meters cost and lets an operator switch all of that at run
time. It is one asyncio process: every route is `async def` on one event loop.

This directory holds TLA+ modules of its parts, TLC configurations that check
them on small instances, and TLAPS proofs of the properties that matter most for
every instance. `PROJECT.json` maps each definition to the lines it models; line
numbers below are those of `src/src/middleout_proxy/`.

## Inventory

| Component | State | Operations | What is hard, and what makes it correct |
|---|---|---|---|
| Request path, `server.py:695-1286` | locals of each coroutine; the shared objects below | `proxy`, `_streaming_forward` | Suspends at `request.body()`, the upstream call and each chunk; toggles flip, caches are purged and clients leave in between. A hit must answer an equivalent body the upstream once answered; audit and cost records must be neither lost nor doubled; no request waits for its upstream for ever. |
| Runtime settings, `server.py:187-251, 418-493` | `_runtime`, `runtime_settings.json`, its `.tmp`, `l2_cache.enabled` | POST /settings, boot | A POST may be refused half-way, a save may fail, the process may die. The file is always whole and accepted; the L2 flag follows its toggle. |
| L1 cache, `cache/l1.py` | one SQLite table | `get`, `put`, `clear`, `purge` | `put` is two autocommitted transactions; errors are swallowed; recency is a wall-clock column. Bounded; evicts the least recently accessed. |
| L2 cache, `cache/l2.py`, `vector_stores.py` | points, `enabled`, counters | `get_similar`, `put_similar`, `clear` | A near neighbour answers another payload; lookups that miss move points about; the embedder fails. Hits are the nearest and newest. |
| Rate limiter, `rate_limit.py` | token buckets in an LRU `OrderedDict` | `check` | Lazy, fractional refill; the LRU cap forgets what a client has spent. |
| Cache wall, `cache_wall.py`, `volatile.py`, oracle of `compression.py:127-186` | marker positions of one payload | `compute_wall`, `is_protected`, the two rewriting passes | Two oracles written twice, the second computed on what the first pass left. Nothing a client's marker covers may change. |
| Compressor, `compression.py`, `lsh_dedupe.py`, `jl_dedupe.py`, `lingua.py` | result cache, sketches of one request, the lazily loaded model | `compress_volatile_tail`, `compress_request_payload` | The cache must not show in any result; markers must lead to text that is still there; a model that fails to load stays failed. |
| Middle-out, `compression.py:73-114` | none | `middle_out_text` | The marker states a number whose own digits change the number. |
| caveman and rtk | none | text to text | URLs and identifiers wait in numbered placeholders, in two passes; what the patterns do not find is a word like any other. |
| Cost, budget, `cost.py`, `budget.py` | totals and rows | `record`, `reset` | Recorded in `finally` blocks and error paths, reset while requests finish. |
| SSE accumulator, `cost.py:287-403` | line buffer, maxima | `feed` | Chunk boundaries fall anywhere; a number may raise out of it. |
| Audit and statistics, `audit.py` | counters, histograms, a bounded time series | `observe`, `timeseries` | The clock may step back; percentiles come out of a histogram. |
| Policy router, adaptive policy | none | decision tables | Three layers override each other field by field. |
| Configuration, `config.py` | none | `load_settings` | Environment, the first TOML file, defaults; types and ranges. |
| Similarity indexes, replay, dashboard, metrics, preview, token estimate, provider adapters | none that requests depend on | read-only, or numeric | - |

The parts meet in the request path: it takes a snapshot of the settings, asks
the limiter, decides what to compress, runs wall, lingua and engines over the
payload, looks it up in L1 and L2, calls the upstream, and on the way back
credits cost and budget, writes one audit record and fills both caches.
Operators reach the same objects through POST /settings, /cache/purge,
/cost/reset and /budget/reset.

**Concurrency.** There is no `await` between taking `_runtime_lock` or a
limiter's lock and giving it back that really suspends, so each of those
sections is one step of the event loop. A coroutine gives way only at
`request.body()`, `http.request`/`http.send`, each chunk of a stream and
`aclose()`; between those points a handler is one action, whatever it calls.
Process death, on the other hand, may come between any two effects outside the
process, so the settings and L1 modules have finer steps.

## Modules

| Module | Models |
|---|---|
| `LruStore` | abstract: what every bounded store promises |
| `L1Cache`, `L1Lru` | the L1 cache; with the true order of accesses as history |
| `SemanticCache` | the L2 cache over its in-memory store |
| `RateLimiter` | `RequestLimiter` and `TokenBucket` |
| `DurableSettings` | abstract: settings across restarts |
| `RuntimeSettings` | POST /settings, save, load, L2 flag |
| `Service` | abstract: what a client is promised |
| `Gateway` | the request path, any number of requests |
| `CacheWall` | the wall, the legacy oracle and the two passes |
| `Compressor` | lingua's loader and pass, LSH, JL, result cache, engine chain |
| `SSEUsage` | the accumulator, as an operator on records |
| `CostBooks` | price lookup, `CostTracker`, `UsageBudget` |
| `AuditStats` | `ProxyStats`: counters, time series, histograms |
| `Books` | streams and plain answers composed with the three above |
| `MiddleOut` | `middle_out_text` over lengths |
| `ProseEngines` | caveman and rtk over words |
| `Configuration` | `load_settings` |
| `RequestOptions` | settings, policy and adaptive policy |
| `Calls` | calls one of the four above with every input of a bounded set |
| `MC*` | constants of the instances |
| `*Proofs` | theorems: `StoreProofs` of `L1Lru` and `RateLimiter`, `SettingsProofs` of `RuntimeSettings`, `MiddleOut`, `ProseEngines` and `Calls`, the others of the module they are named after |
| `SequenceLemmas` | facts about sequences, folds and flattened sequences that the proofs share |

**L1Cache.** `rows` is the table, `hit` its `last_hit_at`. `PutInsert` and
`Evict` are the two transactions of `put`; `EvictFails`, `PutNothing`,
`GetMiss` and `Restart` are what swallowed errors and crashes leave. `L1Lru`
adds `recency` and shows `LruStore` implemented by the keys in the order of
`last_hit_at` (`ByHit`): the row over the bound counts as gone from the moment
it is inserted, since no reader runs between the two transactions of a process
that lives. The bound is proved for any clock; the order of eviction, in the
runs and the theorems, is that of a clock that moves forward.

**SemanticCache.** `points` is the store's `OrderedDict`, coldest first. An
embedding is known by its cosine with every other, in percent. `Lookup` moves
its top point to the warm end even when it is too far away to be served, as
`search()` does before `get_similar()` compares the score.

**RateLimiter.** Floats become integers: `Cost` units per request, `Refill`
units per tick, so `Cost > Refill` is a client earning a fraction of a request.
`check` is one step. `granted`, `evicted` and `since` are history: they measure
a window that `OpenWindow` may start at any moment.

**RuntimeSettings.** A POST is `Post` (checks and assignments, in order, up to
the first refusal), `WriteTmp`, `Rename`, `SyncL2`; `SaveFails` is an
`OSError`, `Crash` may come anywhere and tear the tmp file. No request is
served between those steps; `Crash` is the only other actor.

**Gateway.** A body is a `Forms` value; what lingua and the engines make of it,
its cache key, model and embedding neighbours are functions and relations of
it, given as constants. `Prepared` lists what the compression block can leave
behind, `_AdaptiveSkip` and the generic handler included; the lookups, `Answer`,
`UpstreamFails`, `Unstreamable` and the stream's steps follow. `Answer` is everything from the
upstream's answer to the return, in one step, because nothing in it suspends.
The L1 store appears as its callers see it: a `put` may be lost or push rows
out. A cached response has headers that can or cannot be sent, since building
the `Response` is the one thing that can raise after the books are written.
`Failures` tells the ways apart in which a request comes to nothing, since each
leaves a number of audit records of its own.

`on` is `_runtime`; `l2live` is `l2_cache.enabled`, which a lookup asks together
with the toggle and a store asks alone. `Post` is a POST /settings that is
accepted and makes the second follow the first; `PostRefused` one that is
answered with 400 at a section behind the flags, which have flipped by then while
`l2_cache.enabled` has not. `refused` remembers which of the two came last. A
client that `Leave`s is `gone`: from then on its stream may be taken down before
it began (`Abandon`) or in the middle (`StreamEnds`), and not before.

**CacheWall.** Positions are (list, index) in the order system, tools, messages.
Every payload shape up to the bounds is an initial state; the two passes may
change any subset of the blocks they are allowed to.

**Compressor.** One request at a time, as nothing in the driver suspends, but
the result cache and the model outlive it. A text is a term: itself, an LSH or a
JL marker with the place it names, or what the engines made of one under the
levels of the request. Scores of the two indexes and what the engines change are
constants. Which blocks are protected is a prefix here; `CacheWall` is about
where it ends.

**Books.** A stream is its bytes, of which a `Chunk` passes any number on; the
accumulator, the tracker, the budget and the statistics are those of `SSEUsage`,
`CostBooks` and `AuditStats`, and `Finish` is the `finally` block of
`_streaming_forward`. Amounts are integers in the unit in which prices are whole.

**Calls.** `CallMiddleOut`, `CallProse`, `CallLoad` and `CallOptions` record one
call with its arguments and its result; the properties compare the result with
what it should be, or with the results of other arguments. In `MiddleOut` a text
is its length and one run of blanks, and `short` marks the budgets at which the
floating-point product with `head_fraction` falls below a whole number.
`ProseEngines` has words of pieces; `Spellings` tells the identifiers, the path
components and the URLs apart, so that one that takes another's place is seen.
`_IDENT_RE` wants a word boundary before the slash a path begins with, so a slash
(or `./`) that begins a word is a mark, and the component behind it a plain term;
the same goes for the first component of a path without a slash before it. Tables
are compared with a word without the marks at its ends (`Core`), as
`_process_prose` splits it into lead, core and trail, and phrases and
pleasantries are found wherever word boundaries are. `Named` are the terms some
table names and `Loose` what an engine may change; all other pieces are protected.
Its lines are made with comprehensions and folds, about which there are lemmas.
`Configuration` has typed values, since TOML gives any type to any field.

## Runs

Deadlock is checked everywhere but in `wall`, where a payload's pipeline comes
to its end, and in `books`, whose streams and records are bounded.

| Run | Instance | Shows |
|---|---|---|
| `l1` | 4 keys, 2 rows, file-backed, faults, 2 lost evictions, increasing clock | `Overshoot`, `EvictsOldest`, refinement of `LruStore` |
| `l2` | 4 texts, 2 points, threshold 90, 3 lookups between purges | `NewestOnly`, `ServesNearest`, refinement of `LruStore` |
| `limiter` | 3 clients, 2 buckets, burst 2, half a request per tick | `RateBound`, `LazyRefillExact`, refinement of `LruStore` |
| `settings` | 2 flags, 2 sections, 3 POSTs, disk faults | `RestartFindsAccepted`, `SyncedUnlessRefused`, refinement of `DurableSettings` |
| `settings_toggle` | the same | counterexample to `L2FollowsToggle` |
| `gateway_cache` | 2 interchangeable requests, 3 forms, lingua, l1 and l2 toggled by accepted and refused POSTs, purges | `TypeOK`, `CacheSound`, `L2OffMeansClosed`, refinement of `Service` |
| `gateway_stream` | 2 requests: plain, stream, array body; clients that leave, resets | `Audits`, `Accounting`, `Completes` |
| `gateway_skip` | lingua together with the adaptive policy | counterexample to `CacheSound` |
| `wall` | 2 blocks per list, 2 messages, markers anywhere | `SacredPrefix`, `WallSettled`, `Parity` |
| `compressor` | 4 payloads of up to 5 texts, 6 toggles, 3 cached results | `ProtectedUntouched`, `CacheTransparent`, `MarkersResolve`, refinement of `LruStore` |
| `books` | 1 stream of 3 bodies in any chunks, 2 plain answers, 2 records, resets | `ChunksDoNotMatter`, `BilledForWhatArrived`, `BooksAgree`, `TotalsAddUp`, `SeriesExact`, `PercentilesRight` |
| `calls` | 8 limits with 3 omissions and 4 fractions, 180 lengths; lines of 2 to 4 words, paths with and without a slash before them among them; 2 layers of 6 fields; 3 rules, 10 sizes | `CountExact`, `NearLimit`, `Verbatim`, `LayersInOrder`, `PolicyGoverns`, `LargerNeverGentler` |

**Bounds.** Two rows and three keys are the least with an eviction that has a
choice; a fourth key lets lost evictions pile up. Two buckets and three clients
give evictions and returns; two units per request and one per tick give
fractions. Three POSTs give an accepted one, a refused one and another with
crashes between. Two requests give every pairwise interleaving of the request
path, whose requests meet only in the caches, the toggles and the books; a
stored entry has one writer and one reader. In `wall`, two blocks in two
messages give before, at and after a marker, within and across lists. In `l2`,
three texts in a row, each near its neighbour only, make a near miss, a tie and
an eviction meet; the fourth has no embedding. In `compressor` the payloads put
a marker before, between and behind texts that resemble each other, and three
results are fewer than one payload and two toggles leave. In `books` the bodies
have events in and out of order, CRs, an unfinished last line and a number that
raises; minutes are two seconds and the window one minute, so the times 1, 2 and
4 fall in its first, second and third minute, in any order. In `calls` the
lengths lie around each change of the number of digits, and the sizes on and
next to each tier. `gateway_cache` is reduced by exchanging its requests, which
is sound as all its properties treat them alike and none is about liveness.
`MaxClock`, `MaxSkipped`, `MaxTime`, `MaxEvictions`,
`MaxPosts`, `MaxLookups` and `MaxRecords` bound counters in guards only.

**Fairness.** Only `Completes` needs it, and it is assumed of two things. An
upstream that has been asked answers or fails (`UpstreamReturns`): httpx's
timeouts turn a silence into an exception, and headers and plain answers are
finite. And a streamed response whose client has gone is cancelled by the server,
so its generator is closed (`TakenDown`). Nothing is assumed of arrivals,
operators or clients: no timeout of the program bounds a client that sends its
body or reads its stream slowly, nor an upstream that goes on streaming to one
that reads, so `Completes` does not say that a request with a live client ends. It
says that none waits for the upstream's headers or its plain answer for ever, and
that each whose client left its stream is done at some time.

## What the runs found

Two runs expect a violation; each checks one sentence of the repository.

* `settings_toggle`: a POST refused with 400 has flipped `l2_cache` in `/settings`
  but not in the cache (`server.py:488`).
* `gateway_skip`: the adaptive skip forwards the body as it came, but looks up
  and stores under lingua's version of it (`server.py:878-884`).

The passing runs say where the properties do hold: `CacheSound` as long as
lingua and the adaptive policy are not both on, `RateBound` with one burst per
eviction, `SyncedUnlessRefused` and `L2OffMeansClosed` with refused POSTs left out,
`SacredPrefix` without `compress_system`,
`Verbatim` without the first components of paths. After a refused POST that
switched the toggle off, requests under way go on storing in L2, and after one
that switched it on the cache stays closed. Other things met on the way:

* The first component of a path is not hidden from the engines, with or without a
  slash before it, since the pattern for identifiers begins with a word boundary
  (`caveman.py:73`, `rtk.py:217`): rtk makes `/db/config.json` of
  `/database/config.json`, caveman makes `/fn` of `/function` and drops `/the`,
  although `caveman.py:72` counts paths among what is kept. `Verbatim` promises
  only that what follows the component comes through, and the component too if no
  table names it.
* An evicted client gets its burst again (`rate_limit.py:75-78`).
* The adaptive skip announces the lingua savings of the pass it undoes
  (`server.py:930`).
* L2 serves the nearest payload of any model, although L1's key has the model
  in it (`cache/normalize.py:39-42`).
* With `compress_system`, the engines' oracle does not see markers on tools and
  rewrites system blocks such a marker covers (`cache_wall.py:16-17`). A marker
  on a block nested in a `tool_result` is seen by neither oracle.
* The LSH pre-pass replaces `tool_result` strings whatever
  `compress_tool_results` says (`compression.py:424`).
* An `Infinity` among the usage of a stream raises out of `feed()` and ends the
  stream for the client (`cost.py:399`); `BilledForWhatArrived` says what is then
  charged.
* A URL behind a path in one word is lost by caveman and rtk: its placeholder is
  caught in the path's, and restoring makes one pass (`caveman.py:80-91`). The
  right-hand side of `Verbatim` is exactly this case: a path that begins before
  every URL of its word, since the first of them runs to the end of the word and
  a path inside it is hidden with it.
* `MIDDLEOUT_CONFIG` naming a file that is not there falls through to the next
  candidate (`config.py:95`), and TOML values of the wrong type are kept for
  fields that are not compared, although `config.py:17` says they raise.
* `max_text_chars` of a policy is parsed and never applied (`policies.py:42`).
* At boot a saved `l2_cache: true` enables an L2 cache that could not be built
  (`server.py:251`, in `Boot`); under a wall clock that steps back the L1 cache
  does not evict the oldest access (`Monotonic = FALSE`).

## Proofs

TLC checks the instances above; TLAPS proves what follows for every value of
the constants that satisfies the modules' `ASSUME`s. Those assumptions are types
and what the code's own constants have: prices and token counts are numbers,
event lines carry the usage fields of the API, histogram bins rise, a payload's
lists have blocks, thresholds lie between 1 and 100.

**`StoreProofs`.**

* `L1WithinBound`, `L1Spec => [](TypeOK /\ Overshoot)`. The conjunction is
  inductive: an insertion adds a row at most, and the step that loses an eviction
  counts it in `skipped`; an eviction that completes removes exactly the excess,
  which needs the cardinality of a difference of finite sets.
* `OldestGoFirst`, `HistSpec => EvictsOldest`, under `Monotonic`. The invariant
  `Sorted` says that the rows lie in the order of their last hits as their keys
  do in `recency`, which every loss of an eviction and every restart preserves,
  since both drop rows or keep them as they are.
* `TableIsLru`, `HistSpec => ImplementsLru`, under `Monotonic`. `RankInv` says
  that some sequence lists the rows by their last hits (`Ranks`). There is only
  one such sequence (`OneOrder`), so it is `ByHit`, and what the abstract store
  holds is its last `max_entries` keys. A recorded hit or a put moves a key to the
  end of the sequence, and that commutes with taking the last `max_entries`
  (`LastOfTouched`); an eviction deletes exactly the others (`FirstsGo`), which
  the abstract store dropped before, and stutters.
* `RateBounded`, `LimiterSpec => []RateBound`. `RateBound` alone is not
  inductive: a full bucket at the bound would let one more request through. The
  invariant adds what the bucket holds: what was granted plus what is in the
  bucket is at most a burst per bucket plus what was earned up to the bucket's
  last refill, and a client without a bucket has had its last one evicted or has
  been granted nothing.
* `LimiterTyped`, `LazyRefillIsExact` and `BucketsAreLru`. `TableInv` says that
  `buckets`, `created` and `order` name the same clients, each once. A tick earns
  the same whether it is counted at once or with the next call, as the cap is
  reached once and for all (`OneTick`); each check of a client is a `Store` of
  the abstract store.

**`SettingsProofs`.**

* `RestartSafe`, `SettingsSpec => [](TypeOK /\ RestartFindsAccepted)`. The
  invariant says what the tmp file is between its writing and its renaming, and
  that the snapshot in memory is an accepted one as long as a POST has a write or
  a rename ahead. `OnlyRefusalsDesync` adds that flag and toggle differ only
  between a POST's first assignment and its `SyncL2`, or after a refusal.
  `SettingsDurable` is the refinement of `DurableSettings`: under that
  invariant, `Rename` is the step that makes a snapshot durable, and every other
  step stutters or is a boot.
* `CutsCounted`, `Spec => []CountExact`, and `CutsNearLimit`,
  `Spec => []NearLimit`. The digits of the number decide how much is kept; what
  is kept falls as they grow, by no more than they grow by. Above a limit of 260
  the first number is too small, so the numbers rise, by at most eight, and after
  digits have been gained none are for a while; up to 260 the marker is not paid
  for and the second number is final. Either way three turns are enough.
* `LayersKept`, `PoliciesGovern` and `LongerCompressedMore`: facts of
  `load_settings()` and of the decision about a request, which need no invariant
  but that a recorded call has the result of its function.
* `ProseVerbatim`, `Spec => []Verbatim`. Between hiding and restoring, the
  engines keep every piece that is not `Loose` (`EnginesKeep`: a word a table names
  has nothing else, by `TermsAreNotKept`, and a phrase touches only the terms where
  two words meet, by `SeamKeeps`), and what is protected after restoring depends on
  nothing else (`RestoredAlike`). So it is enough that
  hiding, with restoring right after it, is the identity: for one word that is
  `UrlHides` and `IdentsHide`; over a line the list of hidden pieces only grows,
  and a longer list restores the words before as the shorter one did (`PassOver`,
  `RestoredStable`). Where a path begins before the URL, a NUL of the torn
  placeholder stays in the line, which no client's line has. Each fold is first
  shown to go one word at a time (`GluedIsFold` and its like, from `FoldOfTable`).

**`CacheWallProofs`.** `SacredPrefixHolds`, for `~CompressSystem` and
`PreserveCache`, `OraclesAgree`, `Spec => []Parity`, and `WallStays`,
`Spec => []WallSettled`. Lemmas show each oracle to be "at or before the marker"
on the blocks it knows; the invariant says that the client's markers stay in the
payload, that the wall is their last while the volatile pass goes by it, and that
nothing before them has changed.

**`SemanticCacheProofs`.** `NewestKept`, `Spec => []NewestOnly`, and
`NearestServed`, `Spec => ServesNearest`. `NewestOnly` is inductive only together
with the ids of the points being distinct: otherwise a replaced point could leave
an older twin. That a lookup has a top point at all, the nearest and the coldest
of those, is an argument on well-founded orders over the finite store.
`PointsAreLru` is the refinement of `LruStore` by the texts of the points, whose
order commutes with removing, appending and dropping the head.

**`CompressorProofs`.**

* `ProtectedStays`, `Spec => []ProtectedUntouched`. The invariant adds that the
  lists keep the shape of the payload's. One lemma says that rewriting one block
  leaves all others, another that every step of lingua and of the engines
  rewrites at most the block it is at, and only an unprotected one; the LSH
  pre-pass, which rewrites a whole list, has a lemma of its own.
* `CompressorTyped`, `CacheNeverSeen` (`CacheTransparent`) and `MarkersLead`
  (`MarkersResolve`) share `IInv`. It says what every block of the payload has
  become: those behind the job are settled, those of the list under way hold what
  the engines will be given, and those ahead what lingua left; that each sketch
  is of an earlier block whose text stays; and that each result in the cache is
  what the engines make of the text and levels in its key, for one key once.
  A hit is therefore what a miss would have computed, whichever request left it.
* `ResultsAreLru`, the refinement of `LruStore` by the keys of the entries: a hit
  is an `Access`, a miss a `Store`, also when the cache may hold nothing.

**`GatewayProofs`**, for any number of requests and of forms.

* `GatewayTyped`, `AuditedOnce` (`Audits`, the exact number of records for each
  way a request ends), `BooksAreRight` (`Accounting`) and `L2StaysClosed`, whose
  invariant is that `l2_cache.enabled` equals its toggle unless the last POST was
  refused, so that a store under way finds it off. `IInv` has a part for what requests share (`Shared`: caches hold
  only what the upstream has answered, the budget is never ahead of the costs) and
  one for each coroutine (`Told`): what it has sent, replied, audited and charged
  at each point of its way. Because a step of one request leaves the `Told` of
  every other alone (`OneRequest`), two requests are as good as many.
* `ServiceImplemented`, `Spec => ImplementsService`: under `IInv` each step is an
  answer of the upstream, one reply to one request, or a stutter.
* `HitsAreSound`, `SkipsAgree => (Spec => []CacheSound)`. `SoundInv` says that a
  response is stored under the key of the body it answered, and that a request
  under way will store under the key of what it sent. The second holds only while
  no body is looked up under another key than its own; `SkipsAgree` says so of the
  configuration: lingua and the adaptive policy are not both available, or lingua
  leaves the keys of what the policy skips alone. Run `gateway_skip` is the
  counterexample without it.

**`BooksProofs`**, for any prices, events, bins and clocks.

* `IInv` is the conjunction of `BooksInv`, `StreamsTyped` and `StatsInv`. Sums
  over rows are folds over sets: what they come to does not depend on the order
  in which the rows are taken, and adding to one row adds as much to the sum.
  Both are shown on a smallest set for which they would fail (`SmallestSubset`).
* `BooksAreTyped`, `TotalsAlwaysAddUp` and `BooksAlwaysAgree`: each charge adds
  to the totals what it adds to a row, and to the budget its tokens; `apart` notes
  that the budget was reset alone.
* `SeriesAlwaysExact` and `PercentilesAlwaysRight`. Only buckets behind
  the window of the latest reading are dropped, so one inside that window counts
  exactly the records of its minute, filled in late or not (`Shows`). The rank of a
  percentile falls into the first bin up to which that many latencies are counted
  (`Cumulative`, `Ranks`).
* `ChunksNeverMatter` and `AlwaysBilled`. `StreamInv` says that the accumulator of
  an open stream has read what has passed (`HasRead`): its buffer is the text
  behind the last newline, and its maxima are those of the complete lines before
  it. The events of a longer text begin with those of a shorter one (`EventsExtend`),
  and `feed()` takes them up one by one where it left off (`FeedFollows`).

**Only model-checked.** `Completes`, which is liveness: TLAPS proves none under
fairness, and nothing about `ENABLED`. Every other property of the passing runs
has a theorem. The library's induction theorems take an operator, which the
provers at hand cannot instantiate; where a proof needs an induction over data,
it takes the smallest counterexample (`LeastNatural`, `SmallestSubset`,
`EverySequence`, `UpTo`) and contradicts it. What the library defines by a
recursive operator, as `SortSeq` and `SelectSeq`, stays opaque to `tlapm`: `ByHit`
is therefore a `CHOOSE`, and what is selected from a sequence is flattened from a
comprehension.

## Not modelled

Texts, header contents and log lines; SQLite's and the file system's own
recovery (a statement or a rename is atomic) and the missing `fsync` before the
rename; Qdrant, OpenAI and the lingua model, which are external; nested
`cache_control` markers inside `tool_result` blocks; floating-point rounding of
the token buckets and of prices; `compress_response_payload`, which is
`_compress_text` without the caches of a request; the JSONL audit file and the
sums per engine; parsing of `MIDDLEOUT_POLICIES`. The hashing and projections of
the similarity indexes and the regular expressions of `json_aware` are numeric
or textual and left to unit tests, as is the `engines/` package, which no
request uses. `RequestCapture` of the replay module is constructed by nothing in
the program; dashboard, metrics, preview and token estimate only read.

## Plan

1. `L1Cache`, `RateLimiter`, `RuntimeSettings`, `Gateway`, `CacheWall` and their
   first theorems (done).
2. `SemanticCache` with its theorems, `SSEUsage`, `CostBooks`, `AuditStats` and
   their composition `Books` (done).
3. `Compressor`, `MiddleOut`, `ProseEngines`, `Configuration`, `RequestOptions`,
   with their theorems (done).
4. Headers of cached replies and the content of audit records in `Gateway`;
   `L1Cache` and `SemanticCache` in place of its callers' view of them;
   normalisation of payloads; `compress_response_payload`.
5. Proofs: the invariants of `Gateway` and of `Books`, `Gateway` implements
   `Service`, the four stores implement `LruStore`, the compressor's cache and
   markers, the engines that rewrite prose (done). Theorems for what item 4 adds.
