# TLA+ models of the SentinelAI backend

This directory holds TLA+ specifications of the parts of the backend (`src/app`)
where several processes, requests or tasks meet, the configurations that check
them with TLC, and proofs of their main invariants, checked by TLAPS.

    tlc -workers 2 -config DispatchSingle.cfg AlertDispatchMC.tla    # one run
    tlapm AlertDispatchProofs.tla                                    # one proof

## 1. The system

The backend is a FastAPI application and a separate push worker, both on one
asyncio loop per process, over a Supabase (Postgres) database, an optional Redis,
the Expo push service and half a dozen public data providers. Every database call
is one HTTP statement in a worker thread (`run_db`): there are no transactions
over several statements, so between two statements of a handler anything else
may run, and a handler may end there.

| Component | State | Operations | Talks to | Hard parts |
|---|---|---|---|---|
| push dispatcher `services/alert_dispatch.py` | what one pass has read and holds | `run_pass`: walk the devices, sweep the retries, settle; `prune_ledger` | feed, database, Expo | overlapping passes, crashes between claim, send and settle, ambiguous sends, stale reads |
| delivery ledger `SentAlertsRepository`, `0002_alert_delivery.sql` | `sent_alerts`, one row per device and event | claim (insert, conflicts ignored), mark sent or failed (merge), retryable, recent count, purge | database | the claim is the only mutual exclusion there is |
| push tokens `PushTokenRepository` | `push_tokens` with preferences | upsert, delete, preferences, keyset page, delete by token value | database | tokens rotate while a pass holds old ones |
| Expo client `services/push.py` | none | chunk, send, classify tickets | HTTP client | a request may be queued and its answer lost |
| alert matching `services/alert_match.py` | none | severity floor, distance, order | | pure |
| disaster feed `services/disasters.py` | none of its own | `aggregate` over four providers | cache, HTTP client | some providers fail |
| push worker `app/worker.py` | pass number, stop event | timer, one pass, retention every so many passes | dispatcher | a pass longer than the interval |
| response cache `core/cache.py` | memory store, Redis, table of calls in flight | `get_or_set`, `get`, `set` | Redis | concurrent misses, cancelled tasks, Redis failing for good |
| community reports `api/routes/reports.py`, `ReportsRepository` | `community_reports`, `report_votes` | file, confirm, withdraw, list, prune | database, photos | checks and writes in separate statements |
| report photos `services/report_images.py` | private bucket | sign upload, sign read, delete | storage | a photo outlives or predeceases its report |
| administration `api/routes/admin.py`, `core/admin_auth.py` | status of a report | login, list, moderate | database | a removal may be reversed |
| favourites `api/routes/favorites.py`, `FavoritesRepository` | `favorites` | list, save (idempotent), delete, match | database | limit, duplicates, deletion in between |
| HTTP client `core/http.py` | permits and last request time per host | `request_json`: throttle, attempt, back off | providers | pacing, permits, cancellation, ambiguous retries |
| rate limiter `core/rate_limit.py` | sliding windows, in Redis or in memory | `check` | Redis | concurrent checks, fall-back, eviction |
| database bridge `db/supabase.py` | client singleton | `run_db` | database | every statement may fail |
| provider services (`aqi`, `weather`, `disasters`, `geo`, `ai`) | none but the cache | fetch several sources, rate, compose an answer | cache, HTTP client | sources fail one by one, readings are missing, caches nest |
| application shell (`main`, `config`, `errors`, `security`, `schemas`, ...) | settings | wiring, validation, headers | | sequential |

What makes each of the concurrent ones correct:

- *dispatcher and ledger*: a device is told of an event once, except where the
  answer of Expo was lost; requests per claim are bounded; a final outcome stays;
  the volume cap holds over all passes; a working token is never dropped; an alert
  held back comes back, unless others outrank it for good; no claim is stuck.
- *cache*: one fetch per key at a time; followers learn what the leader learnt;
  every caller gets an answer; a stored value is fetched again only by a lookup that
  was under way when it was stored.
- *reports*: a vote counts once; the count shown is never above the votes recorded; a
  device stays near its daily quota; a photo goes with the reports that are withdrawn
  or removed, and only with them.
- *HTTP client*: at most so many requests per host at once, so far apart; no permit
  is lost but to cancellation while pacing; bounded attempts; every call ends.
- *rate limiter*: no more than the limit is allowed in a window, the entry of a refused
  request is taken back, the table stays bounded.
- *favourites*: like the quota of reports; saving twice gives one row; a duplicate
  is answered with the row it duplicates; nobody deletes another's row.
- *provider services*: no failure of a source makes a rating the lowest, and no warning
  heard is rated lowest, with the exceptions of section 4; a source that failed shows in
  the answer; data is no older than the TTLs it passed through. Two things a reader might
  expect do not hold: a value a provider leaves out counts as none, and so can be rated
  harmless; and an answer composed without one of its sources is cached like another.

The hazards, each at its line with the properties that watch it, are listed in
`PROJECT.json`.

## 2. Modules

| Module | Models | Checked by | Proved in |
|---|---|---|---|
| `AlertDispatch` | dispatcher, ledger, tokens, Expo, feed, users, worker timer | `AlertDispatchMC` + `Dispatch*.cfg` | `AlertDispatchProofs` |
| `SingleFlight` | `Cache.get_or_set` and its two stores | `Cache*.cfg` | `SingleFlightProofs` |
| `SoftQuota` | abstract: a limit counted by one statement and used up by another | as a property of `CommunityReports` and `Favorites` | `SoftQuotaProofs` |
| `CommunityReports` | reports, votes, photos, moderation; implements `SoftQuota` | `CommunityReportsMC` + `Report*.cfg` | `CommunityReportsProofs` |
| `HostGate` | abstract: what one provider's host sees of the requests | as a property of `UpstreamRequest` | |
| `UpstreamRequest` | `_HostThrottle` and `request_json`; implements `HostGate` | `Upstream.cfg` | `UpstreamRequestProofs` |
| `Favorites` | saved places; implements `SoftQuota` | through `ApiLimits` | `FavoritesProofs` |
| `RateLimiter` | the sliding windows of a bucket, in Redis and in memory | through `ApiLimits` | `ApiLimitsProofs` |
| `ApiLimits` | composition: the favourites routes behind the write limit | `ApiLimitsMC` + `ApiLimits.cfg` | `ApiLimitsProofs` |
| `HazardRules` | the bands and scores by which readings are rated, as operators | through `ProviderServices` | `ProviderServicesProofs` |
| `ProviderServices` | the services over public data, their caches, their routes | `ProviderServicesMC` + `Providers.cfg` | `ProviderServicesProofs` |

### AlertDispatch

One `pass[p]` per running copy of `run_pass`: the worker, a replica, an operator
running `--once`. Its `pc` names the await the code is at, so each await is one
action and everything else interleaves between two of them:

| Code | Actions |
|---|---|
| `run_pass` to the feed request, `aggregate` | `Begin`, `Fetch` |
| `_walk_devices`, `_dispatch_page` | `ReadPage`, `ReadFavorites`, `PlanDevice` (one device each), `Claim` |
| `push.send` with `request_json`'s retries | `SendTickets`, `SendFails` |
| `_settle` | `MarkSent`, `MarkFailed`, `DropTokens` |
| `_sweep_retries` | `ReadRetryable`, `ReadSweepTokens`, `ReadSweepFavorites`, `Abandon` |
| a crash, or a statement that fails and ends the pass | `Stop` |
| `prune_ledger`, `prune_old_data` | `Prune` |
| worker timer, the clock | `Begin`, `Tick` |
| registration, preferences, favourites, the feed, Expo retiring a token | `Register`, `Unregister`, `SetPreferences`, `EditFavorites`, `FeedChange`, `Retire` |

The ledger is a function from (device, event) to status, attempts and age in
ticks. An event is a model value with a severity rank; the favourites of a device
are the set of events near one of them, because distance is the only thing the
matching makes of them; a quiet window is a set of slots of the day. Four ghost
variables count, per claim, requests made, notifications queued by Expo, outcomes
that died with their pass and notifications the ledger never learnt of: the
properties about duplicates are stated over them. They start anew when `Claim` wins
the row, so a row that retention removed while a sweep held it keeps its account.

### SingleFlight

One key and a set of tasks. A task gives way only where it really waits: for
Redis, for the factory, for another task's future. The two asyncio locks are never
held over a wait, hence never contended, and are no steps. Calls of the factory are
numbered; the number stands for the future and for the value. The history variable
`overtaken` has the callers during whose lookup a value was stored or Redis was lost:
what they are told may be older than what is stored by then. `Expire` is both the
time to live and the eviction by other keys. `Cancel` ends a task at any wait, as
`asyncio` does when a client goes away or the process shuts down; the code's
`except BaseException` and `asyncio.shield` are about exactly that.

### SoftQuota and CommunityReports

`CommunityReports` has one `request[q]` per request being served, an action per
statement (`File`, `CountRecent`, `Insert`; `Vote`, `Ballot`, `Recount`,
`SetUpvotes`; `Withdraw`, `DeleteOwn`, `Unlink`; `Moderate`, `Unlink`), `Fail` for a
statement that fails or a process that dies, `Age` for a report leaving the
24-hour count, `Prune` for retention. The client of the upload URL and the storage
service are external: `Upload`. Removing a row removes its votes (`on delete
cascade`), and `report_votes` has the primary key (report, device).

`SoftQuota` says what a limit that is counted first and used up afterwards
promises: requests past the check are not counted, so the limit may be overrun, by
fewer than the requests that overlap. `Quota(d)` instantiates it for every device,
with `held` the reports of the day and `cleared` the requests about to insert;
`QuotaIsSoft` says every step of `CommunityReports` is a step of it or leaves both
alone.

A client may file two reports with one photo, which `is_owned_path` accepts, and a
moderator may show a removed report again; both are in every run. `givenUp` is the
history of reports withdrawn or removed with their photo, `missed` of photos whose
deletion failed or came before their upload, and the bucket remembers what was deleted:
`PhotoKept` and `PhotoErased` relate them. A signed URL takes one upload, which is an
assumption about the storage service. What a photo shared or a removal reversed loses is
in section 4.

### HostGate and UpstreamRequest

One host and a set of tasks that call it. `HostGate` is what the host may rely on:
at most so many requests between `Start` and `End`, and an interval between two
starts. `UpstreamRequest` is how the code gets there: a semaphore with its queue
(`Admit`), a lock that is held over the pacing sleep (`Pace`, `Wake`), the request
and its outcome (`Respond`), backing off and pacing again (`Retry`). `Replies` are
the outcomes `request_json` tells apart: an answer, a status that is retried or not,
a timeout, a broken connection. `Cancel` ends a task at any wait. A permit is taken before the pacing and
the `finally` that returns it is entered after: a task cancelled in between takes the
permit with it, which `PermitsAccounted` counts and `EveryCallEnds` excepts.

### RateLimiter, Favorites and ApiLimits

`RateLimiter` is one bucket: a log in Redis shared by the workers, windows in the
memory of each worker, and a flag per worker that is cleared for good by the first
error of Redis. Each round trip to Redis is an action (`CheckRedis`, `RollBack`,
`ReadOldest`), so that other checks see the entry of a refused request until it is
rolled back. Logs and windows are one set of entries; an entry says whether its request
was let through, which request is to roll it back, or that nobody will, since Redis
failed first. `Favorites` has a handler per request with one action per statement
(`Count`, `InsertRow`, `FindByStation`, `FindByCoords`; `DeleteRow`), two unique
indexes and rows that may go between any two statements. `FavQuotaIsSoft` is the
refinement of `SoftQuota` again. `ApiLimits` puts the one behind the other, as the
dependency `write_limit` does: a request runs its handler only while the check let it
in, and `Dismiss` and `Resting` meet in one step. Time passes whatever is being
served (`Pass`). An entry of the log has the time its round trip began, which may be a
tick ago (`Lags`: the socket of Redis times out after three seconds). What neither module
can say alone is `RateCapsOverrun`: the limit on requests bounds by how much the limit of
saved places can be overrun, until a device has more requests in service than the limiter
still counts (`uncounted`): a handler outlived the window, or its window was evicted.

### HazardRules and ProviderServices

`HazardRules` holds the pure rules: bands of the air quality index, severities of
earthquakes and case counts, the flood score, confidence of rainfall, the fallback
for health advice, the choice of the UV index. Fractions are integers of a stated unit. `ProviderServices` has a
request per client, a cache entry per source and per composed answer, and reads one
source per step (`Hit`, `Fetch`); the answer is a function of what was read
(`AnswerOf`), with the rank given to the danger, whether it calls itself complete,
the sources it names as missing, and whether it is given as the model's. What a
provider replies is one of the few shapes its reader tells apart: unreachable,
odd, without the series wanted, without values, calm, hazardous. Health advice starts
from readings its caller sends, with an air quality or without. Diseases that are no list
make `disease_risk` fail (`ai.py:529`). The routes of the
same service with other parameters are one service; entries under other keys do not meet,
except for the one key that leaves a parameter out (`wider`).

## 3. Runs

| Run | Instance | Shows |
|---|---|---|
| `dispatch_single` | 1 dispatcher, 1 device, 2 events, 2 tokens, cap 1, 2 attempts, 2 faults, 1 edit, a quiet window, retention | `RequestsBounded`, `OnceUnlessInDoubt`, `SentMeansQueued`, `SentIsFinal`, `CapHonoured` |
| `dispatch_overlap` | 2 dispatchers, 1 device, 1 event, 2 faults, each pass done within the dispatch interval, retention | `ClaimExclusive`, its inductive invariant with the types, `SweepSparesFreshClaims` |
| `dispatch_tokens` | 1 dispatcher, 2 devices on 2 pages and in one chunk, 1 event, 2 tokens, 1 fault, 2 edits | `LiveTokenKept`, `EventuallyTold` of both devices |
| `dispatch_liveness` | 1 dispatcher, 1 device, 2 events, cap 1, a quiet night, 1 fault, 1 edit, early retention | `EventuallyTold` through quiet hours and a used-up budget, `ClaimsSettle` |
| `cache_memory` | 3 tasks, 5 calls, 1 failure, 2 cancellations, no Redis | single flight, agreement, nobody orphaned, `CallsReturn` |
| `cache_redis` | 3 tasks, 5 calls, 2 failures, Redis | `FlightInv`, the inductive invariant behind single flight, `OnlyOvertakenRefetch`, and `CallsReturn` through the fall-back |
| `report_votes` | 2 devices, 2 reports, 2 requests, 1 fault, quota 1 | `AcceptedOnce`, `NeverOvercounted`, their inductive invariant, `OverrunBounded`, refinement of `SoftQuota` |
| `report_photos` | 1 device, 2 reports, 1 photo, 2 requests, 1 fault, a moderator who removes and restores | `PhotoKept`, `PhotoErased` |
| `upstream` | 3 tasks, one paced host, 2 permits, retries, cancellations | `GateSpec`: implements `HostGate`; `GateInv`, `PermitsAccounted`, `EveryCallEnds` |
| `api_limits` | 2 workers either of which may lose Redis, 1 device, 3 places with and without a station, 2 requests of any length | `RateInv`, `RateBounded`, `LogAccounted`; `FavInv`, `FailedOnlyIfDeleted`, `FavQuotaIsSoft`; `RateCapsOverrun` |
| `providers` | all services but `saved` and `misnamed`, which read and keep what `all` does, 2 requests, every reply of every source, TTLs of two and three ticks | `LowestIsHeard`, `LossesShown`, `AgesBounded` |
| `partial_feed` | see section 4 | the code departs from what its comment says |

Why the bounds are enough. Every property speaks of one pair (device, event), one
key, one report or one device, and needs at most two actors to be violated: two
overlapping passes, a leader and two followers (one cancelled, one left), two
requests. A second event is there where the cap chooses between events or one uses the
budget of another up, a second device where a page or a chunk ends.
One fault breaks a chain of statements anywhere; the second lets the repair of the first fail as well. Ages stop growing one
tick past the last threshold any query compares them with. Two attempts are the
smallest number with a retry; a third repeats the second. With quota 1 two
requests can overrun the quota and a third would only add to the bound. Each
`MaxFaults`, `MaxEdits`, `MaxCalls`, `MaxCancels`, `MaxFailures` is a bound and is
named as one where it is declared. The runs of `CommunityReports` use symmetry over
requests and devices, those of `ApiLimits` over workers, devices, requests and
coordinates, those of `ProviderServices` over requests: no definition tells them
apart, and these runs check no liveness.

A limit of one request per window and one saved place are the tightest there are, and
two requests can pass either: with one worker fallen back two are let through at once and
store two places, and a handler that outlives its window stores the third, where the bound
would break without its exception. One device is enough, since every bound is per device
and no window is shared; eviction, which takes two, is not exercised by `api_limits` but by
`EvictsBusy.cfg`, and the bound on the table is proved for any number.
The pacing interval is two ticks so that a request can end within it. The services
are asked twice, so that the second request finds what the first has cached, or is
served beside it; each source replies in every way its reader tells apart, and the
properties speak of one answer. TTLs of two and three ticks let readings of every age
meet in a composed answer. The theorems are about all services.

Deadlock is checked for the dispatcher and for `ApiLimits`. The others may stop: all calls
made, all reports filed and pruned, all tasks cancelled, all requests asked.

*Fairness.* `AlertDispatch` (`dispatch_liveness`, `dispatch_tokens`): weak for the steps
of a pass (an await returns: HTTP and database calls have timeouts); strong for `Begin` in each slot of the day,
because the worker's loop starts a pass every interval for ever and a slot is longer
than an interval; strong for `Tick`, because the clock moves and waits only for the
passes it may not overtake. `SingleFlight`: weak for the steps of each task (the
event loop runs what is ready; Redis calls have a 3 s timeout, factories an HTTP
timeout). `UpstreamRequest`: the same for its tasks, every request of which has a
timeout, and weak for `Tick`, because the clock moves. Nothing is assumed of
failures, users, cancellations, expiry, retention.

## 4. Where the code departs from its documentation

One run violates a property that restates a comment of the code:

- `partial_feed` (`AbandonsOnlyGone`). The pass is skipped when *every* event is
  missing. When one provider is down and another is up, the retries of the missing
  provider's events are abandoned for good: what the comment sets out to prevent.

More configurations are kept beside the runs. Each ends in a counterexample to what a
comment, a description or a reader would expect. They are run with the
MC module of their component in section 2 (`SavedAgain` with `Favorites`,
`EvictsBusy` and `RefusedEarly` with `RateLimiter`, `SlowHandler` with
`ApiLimitsMC`):

| Configuration | Property | What happens |
|---|---|---|
| `CapStarves.cfg` | `HeldBackIsTold` | the list is cut to the budget of the window before the claim takes out what was delivered; the most severe event, already delivered, takes the only place in each later pass, though the comment (`alert_dispatch.py:292-294`) promises delivery once "the budget frees up" |
| `VotesRaced.cfg` | `UpvotesSettled` | the count and the write of its result are two statements (`repositories.py:404-408`): the older count is written last and stays; `NeverOvercounted` holds |
| `CacheOrphans.cfg` | `FollowersHaveLeader` | a leader cancelled while Redis stores its value leaves a registered future nobody resolves (`cache.py:238`); every later miss follows it |
| `OverlapSendsTwice.cfg` | `OnceUnlessInDoubt` | two passes sweep one stale claim; reading retryable rows claims nothing (`0002_alert_delivery.sql:21`) |
| `OverlapSentRewritten.cfg` | `SentIsFinal` | the slower sweep marks a sent row failed; the merge is unconditional |
| `OverlapLosesAttempt.cfg` | `AttemptsNeverDecrease` | the slower sweep writes back a lower attempt count |
| `PruneLive.cfg` | `PruneSparesLive` | an event outlives the retention window, its row goes, it is sent again |
| `CacheRefetch.cfg` | `FreshNotRefetched` | a miss Redis answered before a flight ended is acted on after it |
| `PhotoShared.cfg` | `OthersKeepPhoto` | two reports with one photo; withdrawing one deletes it |
| `PhotoRestored.cfg` | `RemovalReversible` | removal deletes the photo, and restoring the report does not bring it back, though the decision can be "reviewed or reversed" (`admin.py:162-163`) |
| `PermitLost.cfg` | `NeverExhausted` | a task cancelled as it paces takes its permit along (`http.py:151`); once all are gone the host is never asked again |
| `AmbiguousRepeated.cfg` | `AmbiguousNotRepeated` | a timeout of a push request is repeated though `push.py:91-98` keeps ambiguous failures out of its retry statuses |
| `SavedAgain.cfg` | `SavedAgainNotRefused` | saving a place again is refused at the limit (`0001_initial_schema.sql:66-67` says it is idempotent) |
| `RefusedEarly.cfg` | `RefusedAtLimitOnly` | a request is refused because of one that was refused and is not rolled back yet (`rate_limit.py:157-158`) |
| `EvictsBusy.cfg` | `EmptyEvictedFirst` | the least recently used window is evicted, empty or not (`rate_limit.py:188`) |
| `SlowHandler.cfg` | `AlwaysCapsOverrun` | handlers that outlive the rate window let one more request through each: the limit of saved places is overrun by more than the rate limit |
| `FloodRated.cfg` | `FloodUnknownIfIncomplete` | with rainfall and without flood events the risk is rated, incomplete as it is; the route's description says "Unknown" (`routes/weather.py:75-77`) |
| `CalmUnmeasured.cfg` | `CalmIsMeasured` | a series of nulls is a dry one: complete, and the lowest rating (`weather.py:308`) |
| `BenignUnmeasured.cfg` | `BenignIsMeasured` | without an air quality the "deliberately conservative" fallback (`ai.py:297-301`) finds that "conditions look benign" |
| `FallbackCached.cfg` | `FailuresRetried` | the text that stands in for a failed model is cached for the TTL of the model's (`ai.py:249-272`, `524-563`), as a nowcast without its radar is |
| `UnknownCategory.cfg` | `UnknownCategoryIgnored` | an unknown category is not ignored: it leaves nothing (`disasters.py:575`) |
| `NarrowRadius.cfg` | `RadiusAnswered` | hospitals within 5.9 km are answered from the entry for 5.1 km (`geo.py:189`) |
| `FramesLag.cfg` | `FramesRecent` | a frame in a cached nowcast is older than the TTL chosen for frames allows (`weather.py:410-411`) |

The three `Overlap*` need two dispatchers that sweep at the same time, no more: both read
the row that has gone stale, and in these configurations no pass outlasts the interval
(`PassTime = Interval`). `dispatch_overlap` is about the other side: a sweep takes no row
that the walk of a pass within the interval still holds, but for one so old that retention
removes it in the middle of the sweep and the walk claims the event again.

## 5. Theorems

All are for every value of the constants allowed by the module's `ASSUME`. A theorem
that assumes more says so: *one pass at a time* (`\A p, q \in Passes : p = q`) is the
deployment the worker is written for, and the `Overlap*` configurations of section 4
show what is lost without it; `PassTime <= Interval` says that no pass is longer than the
interval after which claims count as stale.

| Theorem | Statement |
|---|---|
| `AlertDispatchProofs!TypeCorrect` | `Spec => []TypeOK` |
| `AlertDispatchProofs!ClaimInvariant`, `ClaimIsExclusive` | `Spec => []ClaimInv`, `[]ClaimExclusive` |
| `AlertDispatchProofs!OnceInvariant`, `RequestsAreBounded`, `NotifiedOnceUnlessInDoubt`, `SentWasQueued` | one pass at a time: `Spec => []OnceInv`, `[]RequestsBounded`, `[]OnceUnlessInDoubt`, `[]SentMeansQueued` |
| `AlertDispatchProofs!SentStaysSent`, `AttemptsOnlyGrow` | one pass at a time: `Spec => SentIsFinal`, `AttemptsNeverDecrease` |
| `AlertDispatchProofs!CapInvariant`, `CapIsHonoured` | one pass at a time: `Spec => []CapInv`, `CapHonoured` |
| `AlertDispatchProofs!TokenInvariant`, `LiveTokenIsKept` | any number of passes: `Spec => []TokenInv`, `LiveTokenKept` |
| `AlertDispatchProofs!SweepInvariant`, `FreshClaimsAreSpared` | any number of passes, none longer than an interval: `Spec => []SweepInv`, `[]SweepSparesFreshClaims` |
| `SingleFlightProofs!Invariant`, `MemoryInvariant` | `Spec => []FlightInv`; without Redis `[]MemoryInv` |
| `SingleFlightProofs!TypeCorrect`, `FactoryRunsOnce`, `FollowersAgree` | `Spec => []TypeOK`, `[]OneFetch`, `[]AgreeWithLeader` |
| `SingleFlightProofs!NobodyOrphaned` | without Redis `Spec => []FollowersHaveLeader` |
| `SingleFlightProofs!RefetchedByOvertakenOnly` | `Spec => OnlyOvertakenRefetch`, with Redis or without |
| `SoftQuotaProofs!LimitNearlyHolds` | the abstract limit is overrun by fewer than the requests |
| `CommunityReportsProofs!TypeCorrect`, `VotesInvariant`, `VoteAcceptedOnce`, `CountNeverTooHigh` | `Spec => []TypeOK`, `[]VoteInv`, `[]AcceptedOnce`, `[]NeverOvercounted` |
| `CommunityReportsProofs!QuotaRefined` | `Spec => QuotaIsSoft`: initial states map to initial states, each step to a step or a stutter |
| `CommunityReportsProofs!QuotaOverrunBounded` | `Spec => []OverrunBounded` |
| `CommunityReportsProofs!PhotoInvariant`, `PhotosAreKept`, `PhotosAreErased` | `Spec => []PhotoInv`, `[]PhotoKept`, `[]PhotoErased` |
| `UpstreamRequestProofs!GateInvariant`, `NoPermitUnaccounted` | `Spec => []GateInv`, `[]PermitsAccounted` |
| `UpstreamRequestProofs!GateRefined` | `Spec => GateSpec`: the throttle implements `HostGate` |
| `FavoritesProofs!FavInvariant`, `FailsOnlyIfDeleted`, `DeletesOwnRowsOnly` | `FavSpec => []FavInv`, `FailedOnlyIfDeleted`, `OwnRowsOnly` |
| `FavoritesProofs!FavQuotaRefined` | `FavSpec => FavQuotaIsSoft`: favourites implement `SoftQuota` for every device |
| `ApiLimitsProofs!LimiterInvariant`, `EachStoreLimits` | `RateSpec => []LimiterInv`, `[]LimitedPerStore` |
| `ApiLimitsProofs!ApiKeepsBoth`, `ApiInvariant` | `ApiSpec => RateSpec /\ FavSpec`: behind each other the two behave as on their own; `[]ApiTypes` |
| `ApiLimitsProofs!LimiterTypes`, `LimitsAddUp`, `RefusedAreTakenBack` | `ApiSpec => []RateInv`, `[]RateBounded`, `[]LogAccounted` |
| `ApiLimitsProofs!RateCapsTheOverrun` | `ApiSpec => []RateCapsOverrun` |
| `ProviderServicesProofs!TypesHold`, `LossesAreShown`, `LowestRatingIsHeard`, `DataAgesBounded` | `Spec => []TypeOK`, `[]LossesShown`, `[]LowestIsHeard`, `[]AgesBounded` |
| `ProviderServicesProofs!AirLevelsOrdered`, `SeverityOrdered`, `CasesOrdered`, `FloodRiskRises`, `IntensityOrdered`, `SpreadOrdered` | a worse reading is never rated better; ratings stay in their scales |
| `ProviderServicesProofs!ConfidenceIsFair`, `WorstReadingCounts`, `UvIsMeasured`, `RankIsAPlace` | the rules that combine several readings |

The arguments:

- *ClaimIsExclusive.* Two walks with one pair in their batches would both have won
  the insert. That is not inductive: retention could remove the row between the two
  claims. `ClaimInv` adds that a row a walk holds exists and is no older than the
  pass; with `PassTime <= Retention` (a pass is shorter than the retention window,
  an assumption of the module) it cannot have expired. It also says in which phase a
  pass holds sends, so that sweeps, which own nothing, are told apart from walks.
- *RequestsAreBounded, NotifiedOnceUnlessInDoubt, SentWasQueued, SentStaysSent,
  AttemptsOnlyGrow.* None of the first three is inductive: what a pass knows and has not
  written is in no account of theirs. `OnceInv` keeps the books of every claim
  (`Accounted`), on one of two pages. While a pass holds the claim, its row shows the
  attempts that pass has read, and requests exceed them by the one under way and by
  those whose outcome was lost; when no pass holds it, a row still to be retried accounts
  for every request. `OrderlyInv` says in which phase a pass may hold what, so that a pass
  that stops, which clears all it holds, moves each claim from the first page to the
  second with the loss entered. A second pass with the same row in hand would read
  attempts that the first then overwrites: this is where one pass at a time is used.
  The two action properties follow from the books: a pass settles only what it holds, and
  what it holds is not sent.
- *CapIsHonoured.* `CapInv`: what is planned for a device and what the window counts for
  it stay within the cap together from the plan to the claim; meanwhile the clock and
  retention only take claims out of the window.
- *LiveTokenIsKept.* `TokenInv`: whatever a pass calls dead Expo has retired, and retired
  tokens stay retired, so that the deletion by value, however late, spares the token a
  device has registered since.
- *FreshClaimsAreSpared.* `SweepInv`: a row a walk claimed that is in the hands of a sweep
  was claimed after that sweep read its rows. When the sweep reads, the row of a walk is
  as old as the walk at most, so less than an interval, and is not stale yet.
- *FactoryRunsOnce, FollowersAgree.* `FlightInv`: a leader, from the registration of
  its future to its removal, is the only one; its future is the registered one and
  pending. A cancelled leader in `set` breaks none of this, since it leaves the table
  occupied, which is why the two hold with Redis as well.
- *NobodyOrphaned.* `MemoryInv`: without Redis a task never waits after the factory, so
  the registered future always has its leader.
- *RefetchedByOvertakenOnly.* `LookupInv`: a caller that has missed, or will because it
  asked a Redis that is gone, while the store in use holds a value was under way when that
  value was stored or the store changed. A caller that has yet to look finds the value.
- *VoteAcceptedOnce, CountNeverTooHigh.* `VoteInv`: a request past the insert has its
  vote in the table unless the report is gone, and then ids are not used again; the
  count it carries was true when read, and the votes of a report that exists only
  grow. So an overtaken recount is too low and never too high.
- *QuotaOverrunBounded.* Reports of the day plus requests past the check never exceed
  the quota by as many as there are requests: a request that clears the check finds
  room, and is not among the others; inserting moves one from the one to the other.
  Needed beside it: only a report that exists counts (`RecentInv`), so that an insert
  adds exactly one.
- *PhotosAreKept, PhotosAreErased.* `PhotoInv`: a request that is about to delete an
  object does it for a report that was given up with that photo, and so did every deletion
  already done. For this the photo a withdrawal read before the row was deleted has to be
  the row's, which ids that are not used again make sure of. Conversely each report given
  up either has the request that removed it still to come, or the object is gone, or the
  deletion is among the `missed`: an object once deleted does not come back.
- *GateRefined.* `GateInv` adds three parts to the type invariant. `Lined`: of two tasks at
  the pacing lock one is ahead of the other, and the one that sleeps has nobody ahead and
  its remaining wait with the time since the last start makes up the interval, so when the
  sleep ends the interval has passed. `AttemptLeft`: a task backs off only for an attempt
  it has left. `PermitsAccounted`: every permit is free, held or lost. So a start maps to
  `HostGate!Start`, whose guards are the permit and the interval; a cancelled pacing task
  is a stutter, which is why lost permits do not break the refinement.
- *FailsOnlyIfDeleted.* `FavInv` says of a request that was refused as a duplicate:
  the row that refused it still exists, or has been deleted since. The two look-ups
  cover the two indexes, so to find nothing all such rows must have gone.
- *FavQuotaRefined.* Rows of a device and its requests past the count map to `held`
  and `cleared`; a deletion is a release, a failed insert a request that gives up.
- *LossesAreShown, LowestRatingIsHeard.* The answer is a function of the readings, so
  these are case splits over the services (`LegsAre`, `LostIsShown`, `LowestWasHeard`); the
  invariant needed is the type of the readings. `LowestIsHeard` is about failures. A null in
  a series is not one, and floods nobody reported are none: it allows a very low flood risk
  on such data, which `CalmUnmeasured` and `FloodRated` show.
- *DataAgesBounded.* `AgesInv` bounds the age of every entry and every reading by one
  less than its TTL, and in a composed answer by the age of the answer more. A reading
  ages only in an entry, because no request takes a tick.

- *EachStoreLimits, LimitsAddUp, RefusedAreTakenBack.* `LimiterInv`. `Sound`: entries are
  finite, no key has a member twice, and no store has let a client through more often than
  the limit; a tick, a rollback or an eviction maps the entries that are left one to one
  into those before (`LeftOf`), so no count grows. `Placed`: a worker that is on Redis has
  counted nothing itself, so that at most Redis and the workers that fell back add up, and
  Redis only if there is one. `Logged`: an entry that is to be rolled back names the one
  request that will, and the lost ones are no more than the errors.
- *RateCapsTheOverrun.* `BurstInv` adds to the two modules' invariants what holds only of
  both: a handler runs for a request that was let through, and for its device; each such
  request still has its entry, unless `uncounted` says otherwise (`EntryEach`), so
  that there are at most as many as all stores together let through (`Cap`); and rows with
  inserts still to come stay below the limit and `Cap` (`WithinCap`), because a request is
  cleared only while there is room, and beside it there are at most `Cap - 1` others.

The inductive invariants hold on the instances of section 3 as well, where TLC has
checked them.

*Only model-checked.* `EventuallyTold`, `ClaimsSettle`, `CallsReturn`, `EveryCallEnds`
are liveness under fairness, which is out of the proof system's reach and stays with TLC.
Every other property of a passing run is a theorem. The counterexamples of section 4 are
TLC's as well: that a property fails is shown by a behaviour.

## 6. What is left out

Message texts, URLs, wording, logging and metrics everywhere. Distance arithmetic
and the parsing of provider answers (pure functions of external data), prompts and
the cleaning of user texts. Read-only lists of the database. Login, tokens, headers,
schemas and configuration: sequential and stateless. `Cache.clear` and `close` (tests
and shutdown). Retention of push tokens after 180 days. Malformed rows and tokens
count as permanent tickets. The daily `Age` of a report is not tied to the clock: it
may happen at any time after filing. The worker's stop event, heartbeat and pruning
cadence: one process that runs one pass at a time.

Where models meet, each takes the other for its promise: a cached read of
`ProviderServices` is one step because `SingleFlight` shows that there is one flight,
and a provider that is "down" is one `UpstreamRequest` has given up. Tiles are fetched
without `request_json`, hence outside `HostGate`.

## 7. Plan

1. `AlertLedger`: an abstract specification of the ledger (claimed, settled, spent)
   that `AlertDispatch` implements for one dispatcher, with `SentIsFinal` and
   `RequestsBounded` as what it says, proved from `OnceInv`.
2. What overlapping passes still guarantee: a bound on requests and notifications of a
   claim by the number of passes, in place of *one pass at a time*.
3. `AlertFilters`: quiet hours that wrap midnight, severity and candidate filters as
   pure rules beside `HazardRules`.
4. `CachedFetch`: `SingleFlight` with a factory that is an `UpstreamRequest`.
5. `WorkerLoop`: timer, stop event, retention cadence over an abstraction of the pass.
