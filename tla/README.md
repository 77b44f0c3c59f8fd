# stac-proxy in TLA+

stac-proxy is a federating reverse proxy for STAC APIs. Clients see one catalog;
behind it the proxy searches several upstream catalogs ("origins"), merges what
they return, and applies authentication, authorization, rate limiting and caching
on the way. This directory holds TLA+ models of the parts of it that keep state
over time or over overlapping requests, TLC runs over small instances, and proofs
checked by TLAPS that hold for every value of the constants.

Paths below are relative to `src/`. `PROJECT.json` has the machine-readable index:
which definition stands for which lines, which run checks what, and the hazards
each property answers to.

## The system

A request passes these parts in order.

| Part | Source | State | Operations | What makes it hard |
|---|---|---|---|---|
| Server, classifier, search parser | `internal/server` | listener, drain flag | start, serve, shut down | shutdown while requests run |
| Authentication chain | `internal/middleware/auth` | API key table | authenticate, first provider that applies wins | a provider that fails against one that does not apply |
| JWKS key cache | `internal/middleware/auth/jwks.go` | keys, two expiries, negative kids, floor, one shared fetch | look up, refuse, refresh, refresh in the background | overlapping refreshes, key rotation, issuer outages |
| Rate limiter | `internal/middleware/ratelimit` | one token bucket per key | allow | creation races, refill arithmetic, store failure |
| Authorization | `internal/middleware/authz` | none between requests | decide, rewrite the query, filter the response | filter pushed down against filter applied afterwards |
| Response cache | `internal/middleware/cache` | key to response, LRU | look up, store | keys per class of principal, slow writers |
| Federation handler, router | `internal/federation/handler.go`, `router.go`, `origin.go` | routing table | register, route, discover | discovery against routing |
| Federated search | `internal/federation/pagination.go`, `cursor.go`, `merger.go`, `search.go` | none on the server: the cursor carries it | search, merge, page forwards and backwards | items fetched but not shown, origins failing on some pages, retries, several clients |
| Page cache | `internal/federation/pagecache` | cursor to rendered page | get, put | entries outliving their cursor, pages rendered during failures |
| Pagination adapters | `internal/federation/pageadapter` | inside the cursor | probe, apply, capture | choosing an adapter from one answer |
| Upstream authentication | `internal/federation/auth_providers.go` | cached OAuth2 token | get, refresh | shared refresh, expiry skew |
| Circuit breaker | `internal/httpx/breaker.go` | state, counters, generation | admit, record | late outcomes, cancelled probes, shift overflow |
| Retrying transport | `internal/httpx/transport.go` | attempts of one request | retry, back off | replaying bodies, retrying what was done |
| Redis store, health, log throttle | `internal/store`, `internal/observability`, `internal/logx` | thin | get, set, check, warn | time windows |

The parts interact through few interfaces. The search goes through the origin
client, whose transport is the breaker around authentication around retries. The
search and the page cache share cursors: a page is stored under the cursor that
produced it. The caches and the rate limiter key their state by the principal the
authentication chain found. Nothing but the caches, the buckets, the breaker and
the token and key caches outlives a request, and none of it is persisted, so there
is no crash recovery to model; with Redis the caches and buckets are shared by
replicas.

## Modules

| Module | Models |
|---|---|
| `CircuitBreaker` | `BreakerTransport` of `internal/httpx/breaker.go` |
| `OriginClient` | the transport stack of one origin around it: upstream authentication with its OAuth2 token source, and retries |
| `FederatedCursor` | the cursor, its update per origin, and the merge (`cursor.go`, `merger.go`, `mergeResults`) as operators |
| `PaginatedSearch` | `PaginatedSearcher.Search`, the page cache and the page links as a state machine |
| `PageAdapter` | the pagination adapters and the cursor fields they write (`internal/federation/pageadapter`) as operators |
| `OriginFeeds` | abstract: what a paginated search takes its origins to be |
| `Federation` | the federation handler: routing, fan-out, merges, every kind of request, paginated sessions through the adapters |
| `JWKSClient` | `internal/middleware/auth/jwks.go` |
| `CQL2Eval` | the CQL2 evaluator (`internal/stac/cql2_eval.go`) next to three-valued CQL2, as operators |
| `Authorization` | what the authorization middleware does with a decision, as operators |
| `Gateway` | the middleware chain as one composition: authentication, limit, authorization, response cache, handler |
| `TokenBucket` | abstract: one bucket per key that admits what was earned |
| `RateLimiter` | the rate-limit middleware over the in-memory table and over Redis |
| `ServerLifecycle` | start, signal, shutdown and exit (`cmd/stac-proxy/main.go`, `internal/server/server.go`) |
| `MC...` | the constants of the runs: catalogs, deployments, requests |
| `CircuitBreakerProofs`, `PaginatedSearchProofs`, `JWKSClientProofs` | theorems |

The modules meet in these places. `OriginClient` contains `CircuitBreaker` (`INSTANCE`, over the
same variables) and moves it by its actions only. `PaginatedSearch` assumes of its origins what
`OriginFeeds` says, and `Federation` is shown to implement `OriginFeeds` through `PageAdapter`.
`RateLimiter` over Redis is shown to implement `TokenBucket`; `Gateway` leaves the limiter's verdict
open. `Gateway` extends `Authorization`, which extends `CQL2Eval`. What the federation answers is a
free choice in `Gateway` within what `Federation` promises (the search as narrowed, a marked part of it, an error).

Definitions commented "Faulty variant" are plausible mistakes, placed in front of
the definition they vary. No specification uses them; each shows that some
property notices the mistake.

### CircuitBreaker

`RoundTrip` is `admit`, the inner transport, `record`. `Admit(r)` and the four
`Record...` actions are the two critical sections under `b.mu`; between them the
request is in `flight` with the generation that admitted it. `record` is split by
what it finds: an outcome of an older generation, a cancelled parent, a failure, a
success. `Open` is `open()`; its period is the shift of `OpenBase` in integers of
width `Modulus`, capped, with the jitter as a choice. `openUntil` is kept as the time
left until it (`wait`), so that the state space is finite without stopping the clock.
`MaxOpens` is the only bound: after that many openings the origin no longer fails.

### FederatedCursor and PaginatedSearch

The item `<<o, i>>` is the i-th item of origin `o`. `Catalog` gives what the proxy can
tell about it: the dedup key, the rank in the merge order, and an origin link the
item may already carry. Pages and stashes are sorted sequences in the code; here they
are sets of items, as their order is a function of the rank. A cursor is a value: the
upstream position, the exhausted and error flags, the error count and the stash of
each origin, with the total, principal, expiry, sequence number and the cursors before
it. Encoding is the identity on cursors because an untampered token decodes to the
cursor it was made from (tokens that fail the HMAC change nothing). What `Clone` drops,
`Clone` drops in the model too.

`Search` is two steps. `ServeCached` or `Fetch` is everything up to the fan-out: decode,
the expiry and principal checks, the page cache lookup. `Render` is everything after it:
`mergeResults`, the next cursor, the result, the cache fill. Calls of several clients
interleave between the two. An origin's answer is any the constant `Upstream` allows:
`exact` (a next link iff items are left), `lazy` (iff the page was full) or `ragged`
(also fewer items than asked). `Faults` adds fetches that fail and answers whose
pagination state the adapter cannot read. `trail[c]` is the client's history, used only
to state properties. A client may ask for the first page, follow `next`, `prev` or
`self`, or use the `self` link of another client, as any of `Principals`.

### JWKSClient

`KeyWithAlg` takes the lock for each of its parts separately, so a call is a sequence of
steps with a program counter: first lookup, kick of the background refresh or the floor
check, entry into `singleflight` (`Join` or `Lead`), the wait, the second lookup, the
negative entry. The shared fetch is `flight`: asked, answered with the issuer's keys of
that moment, then installed or failed. Deadlines are kept as the time left until them.
`group.Do` and the recording of the attempt are one step: a caller that reads the old
attempt time in between joins the fetch, exactly as one that read it before.
A fetch does not outlast `RefreshTimeout`, which is `http.Client.Timeout`: `NewBearerProvider`
passes no client of its own, so the default one with its 10 s timeout is used.
`age` and `ownFloor` are history.

### OriginClient

`NewOriginClientWithContext` puts the breaker around authentication around retries. A call is
`Call`ed, admitted by the breaker, gets its token (`GetToken`, or `Join` and `Lead` of the shared token
request), is attempted, and backs off and is resent until an answer is passed on; whatever ends it is
recorded with the breaker once. Calls differ by who makes them: the origin's `http.Client` has
a deadline, the reverse proxy uses the bare transport and has none, a health probe goes past the breaker.
The shared token request runs under the context of the caller that started it, with a timeout of its
own; those who join it wait for it and not for their own deadline. The cached token is kept as the life it
has left, and so is the token in a request's header, which is set once per call and not per attempt.

The breaker's variables change only by actions of `CircuitBreaker`, so what is proved of the breaker holds inside
the stack; `CallIsOneSample` says how the calls use it.

### CQL2Eval, Authorization and Gateway

`CQL2Eval` has `Matches`, the evaluator as it is written, over numbers, numeric strings, other strings, booleans and null: two truth values,
numeric comparison of strings that look like numbers, lexicographic order for the rest. Beside it is
`Truth`, three-valued CQL2 with lexicographic order for all strings, which stands for what an upstream does with a filter.
`WellTyped` is where the two are meant to agree: no null, no values of unlike types, not two numeric strings. Geometries
are sets of cells: `Intersects` and `Covers` are what the code asks of a geometry. Filters and areas that do not parse
(`BadExpr`, `BadArea`) are among the inputs, with what each path does about them.

`Authorization` follows a decision from the policy's value (`ParseEmbeddedResult`) through the narrowed
search (`ApplyConstraints`), the merged filter (`InjectCQL2Filter`, with the geofence pushed down when
the upstreams support it) to the response (`FilterByGeofence`, `ValidateSingleRecord`). `Gateway` runs
requests through the chain in the order `run` wires it, one action per middleware: `Arrive` is
authentication, then the limit, authorization, the cache lookup (`Hit`, `Miss`), the handler, the store,
the filter on the way back. Requests interleave between all of these and share the LRU store. A
credential says which providers take it for theirs and whether it is good; signatures are a verdict. IDs are sequences, so
that `apikey:alice` is the ID of a key and can also be the subject of a token; `who` is the caller behind an ID and
is read by properties only. `HandlerAnswers` is what `Federation` may answer, the parts it misses included: marked with
`no-store` on merged lists, and unmarked on the 404 of an item whose origin was down and on merged documents.

### RateLimiter and TokenBucket

A token is worth `Cost` units, and a bucket gains one unit per unit of time. In memory a request looks
its bucket up, adds a full one if there is none (although another request may have done so since) and takes
from the bucket it holds, whether or not that is still in the table. Taking is what `Allow` does with `x/time/rate`:
it reserves a token, and cancels a reservation that would have to wait under a second lock; `CancelAt` does not give back
what was reserved later. Both use the reading of the clock that `Allow` took before (`ReadClock`), which is up to `Delay` old by then. Meanwhile
other requests reserve with later readings, and `x/time/rate`, which is external and modelled from its documented behaviour and the way `Allow` uses it, takes an
older time for the bucket's last update: what was earned since is credited again. `rewound` counts how often that
happened to a key. Over Redis a request sends the time its
replica's clock shows and waits; the script runs when it arrives, so scripts run in another order than
that of the times they carry, or run although the caller has given up, and the key may have expired. The refinement
maps the hash to the credit it would have for the clock that is furthest ahead; the capacity of
the abstract bucket is the burst plus what is earned within the call timeout and the clocks' lead,
which is the price of the code's out-of-order arrivals.

### PageAdapter, OriginFeeds and Federation

What is opaque to the proxy (a token, a URL, a body) is the place in the origin's list it leads
to. `Capture` of each adapter is a function of the next link and the Link header, `Probe` its confidence,
`AutoCapture` the surest with its name locked, `Advance` what `UpdateOriginState` keeps of it in the
cursor, and `PlaceAsked` the page the next request asks for.

`Federation` handles one request at a time: nothing but the configuration is shared between requests. Concurrent
is the fan-out: `Acquire` takes a slot of the semaphore, `ReadName` and `WriteName` are the loop of
`adaptRequestForOrigin` over the slice all goroutines share, `Answer` and `Fail` end a goroutine (a panic is a
failure too, as `fanOut` recovers it), `Panic` is one in the fetch of a page of a paginated search, which is raised
again and ends the process, and `Gather` merges and responds. `Try` is one candidate of
`handleSingleResource`, `PassThrough` the reverse proxy to a single origin. A name is a sequence of units so
that prefixes are cut as the code cuts them: by length. The deployments are configurations with lists, prefixes,
mappings, exclusions, priorities and disabled origins, and every adapter against every paging convention.

### ServerLifecycle

`run` serves until a signal makes a goroutine call `Shutdown`. `Serve` returns when `Shutdown` has begun, not when
it has ended; `run` returns what `Serve` returned and `main` exits.

## Runs

| Run | Instance | Shows |
|---|---|---|
| `breaker` | 3 requests, threshold 2, 2 probes, periods 2, 4, 6, shift in 5 bits, 6 openings | outcomes in any order never touch an open window, leak a probe slot or leave the documented backoff, and the circuit closes again |
| `upstream` | 2 callers through client, proxy and probe, 1 retry, timeouts of 2, tokens that live 2 or 3, 2 openings | the breaker gets one sample per call whatever the retries, a refresh is never spent on a good token, no attempt carries an expired one, every call with a deadline ends |
| `search_walk` | 1 client, 3 origins of 2, 3 and 4 items, one of them shared, page size 2, a page cache of one entry, any fetch of the first three pages may fail | nothing lost, nothing twice, pages sorted and the head of the full merge, stash bounded, links right, the cache holds what rendering would give |
| `search_ragged` | 1 client, 2 origins, short pages, failing fetches and unreadable answers on the first three pages | once the origins answer again the walk ends, and it is complete |
| `search_shared` | 2 clients, 2 principals, one cache entry, overlapping calls, 4 instants, cursors and entries that live 2 | the proof's invariant, pages belong to who sees them, no entry outlives its cursor |
| `federation` | 3 origins, 5 configurations with up to 13 requests, and 162 pairs of an adapter and the conventions of two paginated origins | the answer accounts for every origin, what is listed is served, an origin that cannot be reached does not hide a resource another one holds, adverts are common ground, origins are feeds, every request is answered unless an upstream hangs behind the reverse proxy or a panic ends the process |
| `jwks` | 2 callers, 1 kid, TTL 1, hard TTL 2, floor, negative TTL and timeout 1 | withdrawn keys go in time, published ones survive outages and arrive after rotation, fetches are throttled |
| `gateway` | 2 requests, 4 items in 2 collections, 13 credentials, 19 policy answers, 12 routes, 3 deployments with their own order of providers and upstream capabilities, a cache of one entry | a response respects the policy of its own request as far as the code enforces it, withholds nothing else, and was made for its principal |
| `limiter` | 2 requests at a time in memory and 3 in Redis, a burst of 2 tokens of 2 units, a table that is once too small, clock readings up to 1 old, clocks 1 apart, calls that take up to 1 | Redis is one bucket per key, the memory table overdraws by no more than its creation race and the intervals credited twice, and no key within its quota is refused but for tokens that overlapping refusals lost |
| `denied_area`, `shared_prefix`, `drain` | small instances | a counterexample to a documented statement, see below |

**Why the bounds are enough.** The breaker needs more requests than probe slots, so that
one is late while others probe, and enough openings for the period to reach its cap and
for the shift to overflow (the third re-open turns negative, the fourth zero).
In the search a page mixes a stash, a fresh fetch and a failed fetch; a key shared between origins
on different pages, ties in rank and a page size below the largest catalogs are present, and walks
go forwards and backwards until `MaxSeq`; fetches fail up to page `FaultHorizon`, so that failures
on consecutive pages, and the clean page after them, are reached. Two clients and one cache slot make every entry contested.
`MaxTime` 3 is past the expiry of the cursors and cache entries made at the start. In the key cache two
callers and the background goroutine already give a leader, a follower and a caller
between check and fetch; hard TTL 2 above TTL 1 leaves a window in which entries are stale.
Two callers of one origin are a leader and a follower of a token request, or one that reads the token and one
that renews it; a retry with `Retry-After` 2 exceeds both timeouts. `Ages` caps token lives at the
longest that anything tells apart. In `limiter` two requests in memory are enough for the creation race (two full buckets), for a reading that is used after a
later one, and for two refusals that overlap; in Redis three are one more than the burst. Time runs on: hashes age and expire
(`MaxOwed` caps the history variable only, `MaxDebt`, two tokens, how far refusals may drive a bucket below zero, and `MaxRewound` how often a
bucket may be set back before `OvershootBounded` says no more of it). In `gateway` the second request
exists to fill and read the cache under the keys of the first. In `federation` three origins are one more
than the semaphore admits, and the pages of the paginated origins end inside a page, at its end, and with a
next link to an empty page.
The safety results of the modules with proofs do not depend on these bounds, except
where the section on proofs says otherwise.

**Deadlock** is not checked in `breaker` (refusing a call is no step, so a breaker
that only refuses would look deadlocked; `Recovers` is the property that excludes it), in
`search_ragged` (a walk is finished when it has no next link) and in `drain` (the process ends).

**Fairness.** `breaker`: time passes, callers keep calling, an outcome is recorded when
a call is over (`RoundTrip` always calls `record`), and not every call to a healthy
origin is cancelled (strong fairness of success). `search_ragged`: the client
keeps following `next`, and the origins' failures end (strong fairness of a clean
render, and no failures after page `FaultHorizon`). The code does not see to that: see `RetryBudget.cfg` below. `jwks`: goroutines are scheduled, time passes, clients keep presenting each kid, and
the issuer is not down every time it is asked (strong fairness of an answer and of
its installation). `upstream`: time passes and what this process can do is done; nothing is assumed of
the origin, the issuer or the callers, whose silence the timeouts have to end. `federation`: a
goroutine of a fan-out that can go on does, because its call has the deadline of the origin's client, which `upstream` checks (`CallsEnd`).
Nothing is assumed of calls through the reverse proxy, which have no deadline: `EveryRequestAnswered` allows a request to wait for ever for
one origin behind it.
The code assumes no more than this of its environment, and each is
needed: without it the origin, client or issuer in question never shows up.

**Type invariants.** Every state machine but `ServerLifecycle` has its `TypeOK`. Those of the breaker and the key cache are
conjuncts of proved invariants and that of `Federation`, which bounds the running searches by the semaphore, is
checked by its run. The others hold in the runs' instances too (add `TypeOK` to the INVARIANTS) and are there for a reader
and for proofs.

### Properties worth reading

* `NoItemLost`: whatever an origin's cursor has moved past was on a page of this walk
  or is in the stash. It takes a fetch, a page that is full without the item, and a
  later page on which the origin fails to violate it.
* `EachItemOnce`, `WalkEndsComplete`: around failures and retries no item is shown twice,
  and a walk that ends has shown everything of every origin that had not failed
  `maxOriginErrorRetries` pages in a row.
* `PageIsHeadOfMerge`: asking each origin for one page only, and origins with a
  full stash for none, does not change the result.
* `CacheIsFresh`: the package comment's "purely an optimisation".
* `OpenWindowServed`, `ProbesAreInFlight`: the generation counter does what its comment
  says, and slots are exact under cancellation.
* `RevocationBounded`, `KeysSurviveOutage`: the two sides of stale-while-revalidate.
* `RotationArrives`: the floor and the negative cache delay a new key but cannot keep it out.
* `CallIsOneSample`: "one user-visible request = one breaker sample regardless of retry fan-out". The breaker moves
  when a call it admitted ends, and never in between.
* `BearerLive`: a retry carries the token of the first attempt. It is still good because the client's timeout is
  not longer than the skew, which is a relation between two files.
* `PolicyHonoured`, `NothingWithheld`: the two sides of authorization, over every path an item can take. The
  first is the policy as far as the code enforces it: filters on a search need upstreams that take them, a
  denied area alone is enforced when it can be pushed down or the policy asks to filter, the post-filter
  withholds what lies inside the denied area and not what overlaps it, comparisons are those that `WellTyped` allows, and
  areas or filters that do not parse count for nothing on the paths that ignore them. `PolicyAsDocumented` is what
  `docs/policies.md` says instead, and `denied_area` shows the difference.
* `AnswersAreOwn`, `PartialNotReplayed`: what the response cache may and may not hand out. The first tells
  principals apart by their IDs, and the anonymous from all others; the second is about merged lists.
* `RedisIsBucket` (refinement), `OvershootBounded`: how much more than its quota a key can get. Requests that are let
  through unchecked while Redis fails are outside the claim of the first; with `failClosed`, `WithinQuotaAdmitted` says nothing of
  Redis.
* `StashBounded` holds for upstreams that never send more than the limit asked for, `SerialBurstsThrottled` for the calls
  of one caller.
* `UnmarkedIsComplete`: what a merged answer shows and leaves out is determined by which origins failed,
  and the headers name these.
* `OriginsAreFeeds` (refinement): through every adapter and convention no item of an origin is
  skipped or read twice, which is what the search's own properties rest on.

## Where the code and its documentation disagree

Each of these is a run that ends in a counterexample.

* `denied_area`: "Item geometry must NOT intersect this (push-down `NOT S_INTERSECTS`, else post-filter)" (`docs/policies.md`).
  When the denied area is not pushed down, the post-filter runs only with `filter_mode`, and then withholds only the
  items that lie inside the area.
* `shared_prefix`: `adaptRequestForOrigin` cuts the prefix off the names in a slice that all goroutines
  of the fan-out share, by length and whether or not the name has the prefix, so origins are sent names
  that others have cut.
* `drain`: `run` returns as soon as `Shutdown` has begun, and `main` exits. "run() will wait for
  in-flight requests to complete" does not hold.

These are no runs of the project, to leave room for the other components. Their configurations are kept and end in a
counterexample too (`tlc -config RetryBudget.cfg MCPaginatedSearch`, and likewise with the module named):

* `UnroutedSearch.cfg` (`MCFederation`): with a cursor secret a search over several origins is started over all origins of the handler.
  What `Route` selected is only counted, so an origin that excludes the collection, or is not
  `Searchable`, is asked all the same. `design.md` calls these "Blacklist" and "Include in federated searches".
* `RetryBudget.cfg` (`MCPaginatedSearch`): `maxOriginErrorRetries` "bounds how many pages an origin may fail on
  before it is permanently dropped from the session". `Clone` does not copy `ErrorCount`,
  so the count starts again on every page and a failing origin is never dropped.
* `ChainedProxy.cfg` (`MCPaginatedSearch`): items that do not fit the page are grouped for the stash by
  `ItemOriginID`, the first `stac_proxy:origin` link. An item that an upstream proxy has tagged
  already carries another ID first, and is dropped. The proofs assume items without
  such a link (`AllUntagged`).
* `UnequalPages.cfg` (`MCPaginatedSearch`): `design.md` promises no duplicates "even when querying heterogeneous
  backends with different page sizes". Two copies of an item are merged only when both are in the
  merge of one page, which short pages prevent.
* `HeldDown.cfg` (`MCRateLimiter`): "On deny the reservation is cancelled so the bucket isn't permanently held down".
  When two requests of a key are refused at once and the earlier one cancels first, it gets nothing back, so refusals cost
  tokens and a burst of them leaves the bucket in debt.
* `EvaluatorDiffers.cfg` (`MCGateway`): `cql2_eval.go` says "strings are compared lexicographically"; two strings that look like
  numbers are compared as numbers, so an item is shown that the same filter would exclude upstream.
* `SharedBucket.cfg` (`MCGateway`): a principal without an ID gets a bucket so that it "can never share with either the anonymous
  bucket or another principal" (`cache/middleware.go`). All such principals share `principal:_unknown`, also with a
  user of that name, and a token whose subject is `apikey:alice` shares with the API key of `alice`.
* `ReplayedMiss.cfg` (`MCGateway`): the 404 for an item whose origin was down, and queryables, conformance and landing pages merged without
  an origin, carry no `no-store` and are replayed from the cache after the origin is back, unlike the merged lists.
* `FloorRefuses.cfg` (`MCJWKSClient`): the floor starts when a fetch starts, so callers that miss while
  the first fetch is in flight are refused instead of sharing it.

Seen on the way, built into the models as the code has it, and not made into runs:

* `rel: first` is never offered, because the page-0 cursor it should name is the empty string.
* Items of an answer whose pagination state cannot be read are discarded, although the searcher's comment calls the
  error "non-fatal for the items we already have". The next page fetches them again, so nothing is lost.
* `auto` says the cursor "errors out cleanly" when a later page is of another convention; the walk ends as if the
  origin were exhausted. Its registry lacks `post_body`, so `auto` probes again on every such page, and `next_url`
  (0.6) beats `link_header` (0.5) against the comment that the header signal wins.
* `handleSingleResource` speaks of priority order; the candidates come in the order of a Go map. It answers 404 also when
  every origin that holds the resource failed.
* `primaryOrigin` picks the greatest `Priority`; `design.md` has "lower = higher priority", and the merges follow that.
* `GET /collections` lists collections that an incomplete list or an exclusion makes unroutable.
* With no answer from any origin, conformance is the proxy's own classes, against `catalog.go:337`.
* Queryables of a prefixed collection are asked for under the client's name; the cursor path and the pass-through of a
  search to one origin do not map names either.
* A panic in a fetch of a paginated search is raised again and ends the process, where `fanOut` recovers it.
* A candidate for a single resource that answers a 5xx ends the search for it: that answer is returned although another origin
  may hold the resource. Only calls that fail, and 404s, go on to the next.
* A clock reading that is used after a later one sets a bucket of the in-memory limiter back, so some time is credited twice.
* A policy filter or an area that does not parse is no error on every path: the post-filter of a geofence whose allowed area does not parse
  passes everything, one whose denied area does not parse ignores that area.
* `getToken` returns "never an empty string with a nil error" (`auth_providers.go`): a grant without `access_token` is published and sent as an empty bearer.
* `docs/policies.md` says that `filter_mode: false` "rejects the whole request when the request bbox escapes the allowed area"; no code does.
* `DecodeCursor` compares next-page URLs byte by byte, the adapters without case: a cursor of the proxy's own making
  can be refused when an upstream spells its links otherwise.

Known limits that no property covers, as neither the code nor its documentation promises anything: a proxied call without a deadline lasts as
long as its origin and client let it; eviction from a full table forgets what a key has spent; when the client whose
request started a shared key fetch leaves, all who wait are refused; and callers that passed the floor check
together may fetch one after the other.

## Proofs

All of them are by induction over steps, one lemma per action, and hold for every
value of the constants that satisfies the named assumptions. Those are what the
constructors guarantee (`ConfigAssumption`, `ParametersAssumption`, `OriginsAssumption`,
`LimitAssumption`, `CatalogAssumption`, `JWKSConfigAssumption`).

**CircuitBreakerProofs.** `BreakerInvariant` proves `TypeOK`, `OpenIsQuiet`, `ProbesAreInFlight`
and `CountersInStep` together, because none is inductive alone: that the probe counter is exact
rests on nobody of the current generation being in flight when the circuit
half-opens, which is `OpenIsQuiet`. `OpenCircuitIsQuiet`, `ProbeSlotsAreExact` and the action
property `OpenWindowIsServed` follow.

**PaginatedSearchProofs.** `NoItemLost` speaks of a whole walk, while a step sees one cursor.
`SearchInv` makes the walk a chain: each page was rendered from the next cursor of the page before
it, and `Conserves` says that what a cursor holds, and what its page newly moves past, is on
the page or in the next cursor. `MergeConserves` proves that of `mergeResults` for any outcome
of any fetch; it depends on the cursor alone, so a cached page fits every walk that
reaches its cursor, whoever rendered it. `SearchInvariant` is the induction; `NothingIsLost` and
`LinksAreRight` are the consequences. The one extra hypothesis is `AllUntagged`.

**JWKSClientProofs.** `JWKSInv` adds to the types how far things may lag: a key in a document under
way has been gone no longer than the fetch has lasted, and a key in the cache no longer than
`HardTTL + RefreshTimeout` less what is left of `HardTTL`. `RevocationIsBounded`, `BurstsAreThrottled`
and the action property `OutagesKeepKeys` follow.

**Only model-checked.** Liveness (`Recovers`, `WalkEnds`, `RotationArrives`, `CallsEnd`,
`EveryRequestAnswered`) is beyond the prover. `EachItemOnce`, `StashBounded` and
the ordering properties need induction over cardinalities or over the merge order.
`BackoffAsDocumented` is checked for the instance only: for contrived values of
`OpenBase` a wrapped shift can be positive and below the cap again. The properties of `Gateway` rest on recursive
operators over expressions, which keeps the prover out. The refinements, the limiter and the federation are
model-checked so far; see the end.

## Not modelled

* Cryptography (HMAC, JWT and key parsing, password hashes), AWS signatures and static upstream credentials: functions of
  the request alone, taken as a verdict.
* Rewriting of URLs, links, assets and headers, JSON shapes, search and CQL2 parsing: text. Where a place in the
  text matters (a prefix, a next link) the model keeps the place. The size of an encoded cursor, which nests
  all cursors before it, is not measured.
* Floating-point geometry: out of TLC's reach; geometries are sets of cells.
* The route table and the classifier: a table without state. Health checks and the Redis client are a library's;
  the log throttle is logging.
* `UpdateFromDiscovery` has no caller, and what the discovery goroutine caches is read by no handler: a model of it
  would have nothing to say about any answer.
* Configuration loading, defaults and validation run once before the server starts; the constants and deployments are
  what they let pass.
* CORS, request logging and IDs, client addresses and host remapping keep no state between requests.

## What could be proved next

`CacheWithinCursor` and `PagesOfOwnPrincipal` of the search from `SearchInv`; `NoNeedlessFetch` of the token source and
`CallIsOneSample` of the stack; `RedisIsBucket` by an invariant that bounds the age of the times
under way; the semaphore bound, `FoundIfHeld` and `AdvertIsCommonGround` of the federation.
