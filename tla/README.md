# Verification of the AdEx Supermarket

TLA+ models of the AdEx Supermarket (`src/`, Rust, tokio 0.2), their model-checking
runs, and proofs about them. The Supermarket is a web server between ad slots and the
AdEx Market. It keeps a cache of advertising campaigns (payment *channels* with two
validators each), refreshes it from the validators, and answers
`GET /units-for-slot/{ipfs}` with the ad units a slot may show and their prices. All
other requests are proxied to the Market.

To run a check: `tlc -config MCCampaignCache.cfg MCCampaignCache`; to check the proofs:
`tlapm` on each of the modules `*Proofs.tla`.

## Inventory

| part | source | state | operations |
|---|---|---|---|
| campaign cache | `src/src/cache.rs` | `active`: map of live campaigns behind a `RwLock`; `finalized`: set of channel ids behind another | `initialize`, `fetch_new_campaigns`, `fetch_campaign_updates`, `update` |
| validator client of the cache | `cache/api_client.rs` | none | `collect_campaigns`, `fetch_campaign_updates`, `get_all_channels` |
| refresh loop | `lib.rs`, `spawn_fetch_campaigns` | two interval timers, which of them `select` polls first | one round per tick, each under a timeout |
| campaign status | `status.rs` | none across calls; within a call, the two `LastApprovedResponse`s | `is_finalized`, `get_status` |
| units-for-slot handler | `units_for_slot.rs` | the request in progress | `get_units_for_slot`, `get_campaigns`, `apply_targeting` |
| Sentry API client | `sentry_api.rs` | HTTP client with a request timeout | `get_validator_channels`, `get_last_approved`, `get_latest_new_state` |
| Market API client | `market.rs` | HTTP client without a timeout | `fetch_slot`, `fetch_unit`, `fetch_units`, `fetch_campaigns` |
| Market proxy | `market.rs`, `proxy` | HTTP client, default headers | `proxy` |
| server, routing | `lib.rs` | none | `serve`, `handle`, `shutdown_signal` |
| configuration, command line | `config.rs`, `main.rs` | constants | `main`, `Config::new`: checks in order, then `serve` |
| MockClient | `cache/mock_client.rs` | results to hand out | test double of the validator client |

How they interact. `serve` awaits the initial round of the cache, then binds; each
request is a task of the runtime, and one more task runs the refresh loop. The tasks
share only the two locks of the cache. The refresh task writes `active` inside
`Cache::update`, and reads it, *holding the read guard over its calls to the
validators*, in `fetch_campaign_updates`. Handlers read it in `get_campaigns`, after
they have waited for the Market. Calls to validators and the Market are HTTP requests.

What is hard:

* *Concurrency.* Handlers iterate over the map on other threads than the one that
  updates it. The lock is fair: a waiting writer stops later readers.
* *Dropped futures.* A round under `timeout` may be dropped at any `.await`: with the
  read guard, in the queue for the write guard, or between the two caches. A handler is
  dropped when its client goes away.
* *Partial results.* A validator may not answer, may list a channel that another one
  does not, or list it twice; one `get_status` may fail among many.
* *Torn reads.* A campaign's status is decided from up to three requests and several
  readings of the clock; a list of several pages changes while it is fetched.
* *Scheduling.* One task serves two timers that may both be overdue; ticks it missed
  during a round come in a burst afterwards.
* *Durations.* Requests have a timeout, rounds of many requests in sequence have another
  one; the initial round and the calls to the Market have none.
* *The end.* The shutdown waits for requests that may wait for a Market that hangs. A
  panic in the refresh task is noticed by nobody.

What makes each part correct:

* Cache: handlers see whole rounds; a finalized campaign leaves and never comes back;
  nothing else leaves; the caches are disjoint, and what leaves one is lost to the other
  only if a timeout falls between the two; results reach every cached campaign.
* Refresh loop: neither kind of round starves the other; every round ends; missed ticks
  do not pile up; a validator that hangs costs a round the campaigns of that validator,
  not those of the others (which the shipped settings do not achieve, see below).
* Status: a finalized campaign stays finalized; `Active` is true at the moment it is
  returned; validators that work are not called unsound.
* Handler: what is offered is in the cache after the last wait; prices are in bounds; the
  earning limit holds.
* Paging: nothing is missed or doubled unless the list shifted.
* Server: it serves with the configuration that was asked for; what it accepts it
  answers; it ends when it is told to.

## Modules

| module | models | composed of |
|---|---|---|
| `RwLock` | `tokio::sync::RwLock`: fair FIFO queue, bounded read permits, guards released when a future is dropped (external code, from its contract) | |
| `CampaignCache` | cache, validator client, refresh loop, the cache side of handlers | extends `RwLock`; refines `CampaignView` |
| `CampaignView` | abstract specification: what requests may be answered with | |
| `Rounds` | abstract specification: the rounds of the refresh loop | |
| `RefreshLoop` | the loop with the durations of intervals, rounds and requests | refines `Rounds`, as `CampaignCache` does |
| `ChannelData` | one cached campaign: data from listings, status from `get_status` | |
| `CampaignCacheProofs` | theorems about `CampaignCache` with its lock, and of `CampaignView` | |
| `RefreshLoopProofs`, `ChannelDataProofs`, `GetStatusProofs`, `UnitsForSlotProofs`, `PagingProofs`, `ServerProofs` | theorems about the module of that name | |
| `ExpiryProofs` | theorems about `Expiry`, with those of `GetStatus` | |
| `GetStatus` | one `get_status` call after the other, validators, clock | |
| `Expiry` | a campaign that ends while it is cached | extends `GetStatus` by what the cache makes of its results |
| `UnitsForSlot` | one handler from routing to response, with any change of the cache | |
| `Paging` | `fetch_units`, `fetch_campaigns`, `get_validator_channels` | |
| `Server` | the process from `main` to its shutdown | |
| `MockClient` | the test double of the validator client | |
| `MC*` | constants for TLC | |

Definitions named after what they were altered to do and marked "Mutant of ..." are
defects that the properties must detect; no specification uses them.

### CampaignCache

State and code: `active`, `finalized` are the fields of `Cache`; `lock` is the `RwLock`
around `active` (`finalized` has only one user, so its lock is never contended and is
left out). `pc` says at which `.await` the refresh task stands: `select` (the timers),
`list` (`get_all_channels`), `collect` (`get_status` in `collect_campaigns`), `read`
(waiting for the read guard), `fetch` (`get_status` in `fetch_campaign_updates`, guard
held), `write` (waiting for the write guard), `finalize` (`finalized.write().await`).
`apply` is the critical section of `update`, which does not await: `TimeOut` cannot happen
there, but handlers on other threads can run, so it is several steps. `due` and `first`
are the timers and the precedence in `futures::stream::select`, which alternates only
when the preferred stream yields.

A campaign is abstracted to its status, `Live` or `Finalized`, and a version. The version
stands for all that `get_status` may return; `reported[c]` is what it would return now
(`ValidatorsMove` changes it). A `HashMap` is a function with `Absent` for missing keys.
The hash maps' iteration orders and the order of the validators' answers are
nondeterministic choices. `todo[c]` counts the calls a round still has to make for c, one
per listing by a validator, or none if nobody lists it. A call that fails leaves no result.

`FinalIsForever` is an assumption about the validators: a finalized campaign is never
reported live again. `GetStatus` justifies it (`FinalizedForever`): dates pass once and the
leader's approved balances only grow. Where it is FALSE, `NoResurrection`,
`DisjointCaches` and `LiveCampaignsStay` say nothing, but the refinement still holds.
`retired` and `published` are history variables. `RecordedUnlessDropped` compares the two
caches: a campaign removed from `active` as finalized gets into `finalized`, but for the one
moment, at `finalized.write().await`, where a timeout loses it to both for good.

### CampaignView

Six variables, no locks: a view, the results of the current round, what a round still
owes the record of finalized campaigns, that record, and answers. `Commit` applies all
results at once; `GiveUp` drops a round; an answer is the view of one moment; a result is
never older than what it replaces. The refinement mapping takes `published` (the cache at
the last release of the write guard) for the view, and `fetched` for the results. A round
is committed at `ReleaseWrite`; all steps of the critical section are stutters.
`NeverOlder`, a consequence: what requests are told of a campaign does not go back while
the campaign is in the view.

### GetStatus

Time is discrete; messages are represented by their age. `Tick` may happen while a call
waits for a request, at most `Timeout` times (the request timeout of `SentryApi`).
`pc` is the outstanding request: `balances` (`fetch_balances`), `leader`, `follower`
(`get_last_approved`) or `latest` (`get_latest_new_state`). A request reads the validator
at the moment it is answered; the clock is read again in each comparison, so the copies
in the call age, too. Checks between two requests happen in one step. Balances are
the number of the NewState: they matter only for `total >= deposit`. Whether the leader
still has a latest NewState is left open (`AnswerLatest`): without one nothing is rejected.

Validators do anything unless `Prompt`: messages arrive late or never, approvals get lost. With
`Prompt`, a heartbeat is never older than `Beat`, and a NewState is approved and known to be
within `Approving` ticks; `SoundIsNotDoubted` needs that and says nothing otherwise.

### UnitsForSlot

One handler; `pc` is what it waits for. `CacheMoves` changes any cache entry between any
two steps: more than `CampaignCache` allows, which makes the properties stronger.
A campaign is what `get_campaigns` and `apply_targeting` look at: creator, asset,
bounds, whether it is Active, whether the publisher is in its balances. The evaluation of
targeting rules (crate `primitives`) is external: any result, `Outputs`. A campaign has one
ad unit, since units are treated independently. `apply_targeting` does not await, so
`Respond` is one step. `seen` is a history variable: which campaigns were eligible, which
the publisher earned from, and whether these were below the limit, at any time since the
Market's last answer. A response is compared with it, not with the cache it was made from.

### Paging

A list with insertions and removals between the requests for its pages. `MarketPage` is
the loop of `fetch_units` (and of `fetch_campaigns`, which has the same shape and which
the server does not call); `FirstPage` and `OtherPage` are `get_validator_channels`. The
query of each page has its own `valid_until_ge: Utc::now()`, so channels that expire
meanwhile shift the list by themselves.

### Rounds and RefreshLoop

`Rounds` is what the loop promises, without saying how long anything takes: one round at
a time, begun only when its interval is due, `select`'s precedence, every round ends, the
loop goes on. `CampaignCache` implements it with the awaits and the lock (its `due` is
that of `Rounds`), `RefreshLoop` with durations (an interval is due when `late[k] >= 0`).
`Served` follows from `Rounds` and holds in both: `CampaignCache` checks it
(`TimersServed`), and `ChannelData` relies on it.

In `RefreshLoop` a unit of time is ten seconds, so that all shipped settings are integers.
`Tick` lets a unit pass while the task waits: for an interval, or for the outstanding
requests of a round, whose age is `wait`. What the task does between two awaits takes no
time. `late[k]` is the time since the next deadline of an `interval`; serving it moves the
deadline one *period* on, so missed ticks come in a burst, as in tokio 0.2. A new round is
`list` (all validators asked at once, and a second time for further pages) and then
`calls`, one `get_status` after the other, up to three requests each, each request under
the request timeout. `settings` is chosen in `Init` and never changes: periods, round timeouts
and request timeout of production, of development and of a roomier configuration, and `answer`,
how long validators take to answer at most. A validator in `hung` never answers; one in
`Flaky` may answer with errors or incomplete lists. A list may name a channel up to
`Repeats` times, since a page shifts while it is fetched (`Paging`), and each time costs the
round a call. A channel in `Ending` may come to its end (`Finish`): lists need not name it any
more, and `is_finalized` finds it with the first answer of its leader, so that a round
removes it (`gone`). `timeout` polls the round before its own
deadline: at the deadline a request sent earlier may still end (`MayEnd`), one sent just
now may not. The lock is left out: only short critical sections of handlers and the task
itself contend for it (`CampaignCache`).

### ChannelData

One channel, two validators. `served[v]` is the version of the channel's own data
(targeting rules and so on) that v lists; `reported` the version of what `get_status`
returns. `order[v]` is the place of v in the iteration order of the `HashSet` of
validators: it decides whose data are used, since `collect_campaigns` inserts with the
first listing that has a status and then changes the status only. `begun` and `floor` are
history variables: the data that each validator served when this round began, and
when the one began whose data are cached.

### Expiry

`GetStatus` extended by the cached status of the campaign: a call is made in a round of
the cache, and when it returns, its result is committed (`Commit`), or the round times
out and it is not. `lateCall` says that the call in progress began after `valid_until`.
An expired campaign is removed only by a call in which the leader answers
`fetch_balances`, although the date alone decides; `SettledIsGone` therefore speaks of
campaigns whose late call was committed (`settled`).

### Server

`input` gives each setting of the process a class of values: absent, good, bad, or a
configuration file with an interval of zero. `stage` is where `main` stands. `step` goes
through the checks in the order of `main`; a bad URL or IP address panics, the others are
errors, and so it is with what `serve` sets up before the initial round. A request waits for the Market: with up to `MaxCalls` calls one after the other
for `/units-for-slot`, one otherwise. A call may hang for ever (`MarketHangs`): the Market's
client has no timeout, so nothing can be promised of such a request, and `ShutdownEnds` says
that a shutdown ends unless one of them hangs for good. hyper's
graceful shutdown is external: it stops accepting, waits for the requests in progress,
then its future resolves; `tokio::signal::ctrl_c` swallows further interrupts once it has
been polled. The refresh task is one of three states; what it does is in `RefreshLoop`.

### MockClient

Two lists of results, the index stored with each, and what has been handed out. `Advance`
leaves the index alone: the code increments a copy of it.

## Runs

| run | constants | shows | states |
|---|---|---|---|
| `cache` | 1 handler, 2 campaigns, 2 validators, 2 versions, `FinalIsForever` | `TypeOK`, `NeverStuck`, `SnapshotAtomic`, `NoResurrection`, `DisjointCaches`, `LiveCampaignsStay`, `RecordedUnlessDropped`, `ImplementsView` | 628 000 |
| `cache_live` | 2 handlers, 1 read permit, 1 campaign, 1 validator, fairness | `RequestsAnswered`, `FinalizedLeaves`, `ActiveRefreshed`, `ImplementsRounds`, `TimersServed` | 70 000 |
| `status_prompt` | 20 s per tick: recency 12, minute 3, timeout 1, heartbeats every 2, 2 NewStates | `SoundIsNotDoubted` | 1 090 000 |
| `status` | `Expiry`; recency 0, timeout 1, 2 NewStates, deposits 0 and 2 | `TypeOK`, `FinalizedForever`, `ActiveIsCurrent`, `WaitingOnlyBeforeStart`, `SettledIsGone` | 1 940 000 |
| `units` | 2 campaigns, limit 1, prices 0..3, bounds reversed in one | `TypeOK`, `PricesInBounds`, `OffersAreCurrent`, `NoNewEarningsAtLimit` | 295 000 |
| `units_limit` | same | counterexample to `ReturnedWithinLimit` | |
| `paging` | 5 items, 2 per page, 2 changes per call | `TypeOK`, `MissedOnlyByShift`, `TwiceOnlyByShift` | 196 000 |
| `loop` | in 10 s, periods 24, 5 with round timeouts 2, 4 and request timeout 2 (production); 6, 2 with 2, 1 and 1 (development, answers in no time or up to 1); 8, 4 with 4, 2 and 1; 3 validators, one hangs or fails; 2 campaigns, one may end; `Repeats` 2 | `TypeOK`, `NoPileUp`, `BindsInTime`, `ImplementsRounds`, `DiscoveredGivenTime`, `UpdatedGivenTime` | 194 000 |
| `loop_discover` | production settings | counterexample to `NewCampaignsDiscovered` | |
| `channel_data` | 2 validators, 3 versions | `TypeOK`, `DataFollowLists`, `NewestStatusWins`, `DataCatchUp` | 237 000 |
| `server` | 2 clients, 3 calls to the Market, 2 interrupts | `TypeOK`, `ServesAsAsked`, `AcceptedIsAnswered`, `ShutdownEnds` | 10 800 |
| `mock_order` | 2 results of different size, up to 2 mocked and 2 calls | counterexample to `ResultsInOrder` | |

Why the bounds are enough. *Cache:* two campaigns let a round be half applied and treat
one as live and one as finalized; two versions let the cache, a round in flight and the
validators all differ; two validators make a round ask twice for a channel. A handler can
interleave with every step of a round, and since handlers do not change anything but the
lock, the second one matters only for the queue, which `cache_live` checks with a single
permit, the tightest. Nothing counts rounds or requests: they repeat without bound. The
proofs remove all bounds but `MaxVersion`, and that is an arbitrary constant there; they
also cover validators for which `FinalIsForever` is FALSE, of which there is no run.
*Status:* with ages that saturate beyond the last threshold no message is older than
what the model distinguishes; a NewState may be missing, current and outdated. `status_prompt`
has the longest `Approving` for which the property holds (see `SoundDurations`). It lets the
withdraw period begin, `status` lets the campaign expire: the two dates are handled alike.
*Units:* one campaign on each side of the limit, both clamps and the global minimum.
*Paging:* three pages, the last one full or not, empty lists, a list that shifts by a page.
*Loop:* the settings are the shipped ones, exactly, and a roomier one; answers are slow
only under those of development, where the numbers are small (the theorems hold for
any); a list names a channel twice, once more than it should; time is not bounded, `late` and `elapsed`
are bounded by the code itself (`NoPileUp`, the timeouts). Two campaigns, one of a validator
that hangs and one of validators that do not, listed by three validators, fill a round past
its timeout. *Channel data:* with three versions the two validators, a round and the cache
differ. *Server:* two clients let one request hang while another one is answered during the
shutdown; three calls are first, middle and last; the second interrupt is the one that is
swallowed. *Mock:* two results and two calls show whether the index moves.

Deadlock is checked in every run but those of `MockClient`, a test that ends: elsewhere
the timers and clocks never stop, and `Server` says when the process is down (`Stopped`).

Fairness (`FairSpec`): weak fairness of the refresh task and of each handler that
waits for the lock or holds it (the runtime polls a woken task; the lock wakes the head
of its queue; each validator request ends by `SentryApi`'s timeout), and of the timers
(`tokio::time::interval` has no missed tick that is lost). None is assumed of validators, of
clients, or of timeouts, and none that calls succeed. The two properties about progress
of campaigns start from `calm`, from when on calls succeed and rounds are not timed out;
`CalmDown` may or may not happen.

`RefreshLoop`: weak fairness of the task and of time (`Tick`), nothing else: answers arrive
before `Longest` because time cannot pass it. `ChannelData`: weak fairness of the steps of
a round, strong fairness of `StartNew`, which is what `Served` of `Rounds` gives: between two
rounds `StartNew` is enabled again and again, and its interval is not passed over for ever.
`Server`: weak fairness of the start (each request of
the initial round has a timeout), of answers of the Market that do not hang, and of
`Drained`; none of clients, interrupts or the Market's calls that hang.

## Disagreements between code and text

Shown by a run:

* `src/config/prod.toml:19` says that `max_channels_earning_from` "will limit the returned
  Campaigns to the set number". `get_campaigns` returns *all* eligible campaigns while the
  publisher earns from fewer than that (`units_limit`).
* `src/src/lib.rs:153`: new rounds are there "in order to keep discovering new campaigns".
  With the production settings one validator that hangs uses up the 20 s of the round
  while it is listed: nothing is discovered as long as it hangs (`loop_discover`). Settings
  that leave time for the calls that hang are enough: `DiscoveredGivenTime` of `loop`.
* `src/src/cache/mock_client.rs:61`, `:84`: "increment the index for the next call". The
  pattern `(ref mut index, data) = (calls.0, &calls.1)` increments a copy, so that every call
  gets the first result. In `mock_order` one result is mocked and handed out a second time,
  where the assertion "campaign_updates was called more that the mocked results" should
  fail. The tests do not notice: they mock one result.

Seen while modelling:

* `src/src/lib.rs:160`: "Every X seconds, we will update our active campaigns". With the
  development settings a single call that hangs uses up the 10 s of the update, which then
  drops the results of all campaigns. `UpdatedGivenTime` of `loop` says which settings suffice;
  those of production allow one such call, for instance.
* `src/src/cache/mock_client.rs:82` asserts that an update yields a result for each
  active campaign; `ApiClient` leaves out those whose status cannot be fetched.
* `src/src/config.rs:50`: `recency` is documented to decide what is recent. `status.rs:230`
  has a constant of four minutes; the setting is not read.
* `src/src/status.rs:310` says that disconnected validators have recent heartbeats; the
  function also returns true for validators that are offline.

## Proofs

`CampaignCacheProofs` holds for any set of tasks, channels, any
number of read permits and validators and any `MaxVersion`. Assumptions: the refresh task is
one of the tasks, there is at least one read permit, the number of validators is a natural
number, `FinalIsForever` is a boolean.

1. `TypeCorrect`: `TypeOK`, inductive by itself, one step per action.
2. `Invariance`: `IInv`. The properties are not inductive alone. `NoResurrection` needs that no
   result in flight (`fetched`) calls a retired campaign live, and that what is
   collected as final is final for the validators (`FinalInv`); `DisjointCaches` needs that
   every finalized result was removed from `active` before `finalized` is extended, a fact
   about the critical section (`ApplyInv`); `SnapshotAtomic` needs that a handler that reads holds
   a guard, and that guards exclude (`LockInv`), so that what it reads is what was published
   (`PublishedInv`). Each conjunct has a lemma (`LockStep`, `PublishedStep`, ...); what several
   actions have in common (`GetStatus`, `EndRound`, `Yield`) is expanded once.
3. `SnapshotsAreAtomic`, `RetiredForGood`, `CachesAreDisjoint`, `LiveCampaignsAreKept` follow, and
   `RetiredAreRecorded`: step by step, what is `Unrecorded` grows at one action only.
4. `CacheImplementsView`: every step of the cache is a step of `CampaignView` or a stutter. The
   lemma `ViewInvariance` adds to 2 how far the critical section has come (`AppliedInv`), that
   neither results nor the cache are ahead of what validators report, and that an update
   collects results of cached campaigns only (`CollectedInv`; without it, `and_modify`, which
   inserts nothing, would not be a commit).
5. `RoundsTakeTurns`: each step of the cache with its awaits is a step of `Rounds` or a
   stutter; the fairness of `Rounds` is left to TLC.
6. `LockNeverSticks`: while somebody waits for the lock, its holder is at work (it does not
   wait for the lock itself), or the head of the queue can have it. `QueueInv` says that
   those ahead of a task wait, too, and that "ahead of" is a strict order. A finite queue
   with such an order has a head: the sets of those ahead are well-founded under strict
   inclusion (`QueueHasHead`). Who holds a guard is `LockInv`'s part; this is where a read
   guard that outlived its statement in `Cache::fetch_campaign_updates` would make the proof fail.
7. `AnswersNeverGoBack`: `NeverOlder` of `CampaignView`, from `ResultInv` (a result is not
   older than the cache), carried over to the cache by 4.

`IInv` and `ViewInv` are proved but no run lists them: the runs check the properties they are
there for.

`RefreshLoopProofs` holds for any validators, finitely many channels, positive durations:

8. `TypeCorrect`: `TypeOK` of `RefreshLoop` is inductive; its one clause about durations is
   that a round other than the initial one is never older than its timeout.
9. `LoopTakesTurns`: each step of the timed loop is a step of `Rounds` or a stutter
   (`DueSteps` relates deadlines to due intervals), whatever the durations are.
10. `NoPileUpUnderLoad`: `NoPileUp`, *if* `LightLoad` holds: the timeouts of the rounds as shares of
    their periods add up to at most one, and a round of one kind fits between two of the
    other. `MCRefreshLoop` asserts that of all three settings. With the production settings the
    shares are 1/12 and 4/5: doubling the 40 s of an update would break `LightLoad`. `NoPileUp` is not
    inductive, since a round may begin when both intervals are late. `LoadInv` therefore bounds
    the `Backlog`, the lateness of both kinds weighted by the load of each, plus what is left
    of the round. A unit of time adds at most as much to the first part as it takes from
    the second, a round begins with a debt that the moved deadline pays for, and without a
    backlog not both intervals are late. The lateness of a kind is then at most one
    round of the other.
11. `BindsInBoundedTime`: `BindsInTime`, for any settings, any number of channels and any `Repeats`. `BindInv`: the
    time spent on finished requests and the request timeout times the `Requests` still to
    be made stay within what the listings cost. `Requests` counts the calls that are `Owed` one by one,
    as pairs of a channel and a number: there are at most as many as channels and times that
    each may be listed (`OwedFew`), and a call that is begun is one of them (`OwedShrinks`).

12. `UpdatesAreNotLost`, `NewRoundsFindCampaigns`: what `UpdatedGivenTime` and `DiscoveredGivenTime` say
    of each round, without the fairness that brings one about. `HangInv`: where validators do
    not answer slowly, only requests that hang take time, one for the lists and one for each
    call, since a call ends with its first failure; those still to come are counted as in
    11. `NotDropped`: a round with more time than that ends with `Commit`. `AskedInv`: what it
    was to ask for is still to come, asked for, answered or found finalized. An update asks once
    for each campaign, whenever validators begin to hang. A new round may ask in vain for all
    that a validator has listed before it begins to hang; the theorem speaks of the time when
    none does any more, and of a campaign that has not come to its end.

`ChannelDataProofs` holds for any validators and versions:

13. `NewestStatusIsCommitted`, `DataAreFollowed`: by `RoundInv`, the lists a round holds and the data
    of its result are no older than what the validators served when it began, and its status is
    the newest. The data of *some* validator are followed; those of every one are not, as
    the iteration order may prefer the same list for ever.

`GetStatusProofs` holds for any durations, deposits and validators that do anything:

14. `FinalizedStays`: `FinalInv` adds to a returned finalized status the reason why it cannot
    be undone: a date that has passed, or approved balances that have reached the deposit. This
    needs that approvals never go back (`OrderInv`).
15. `ActiveHolds`: when `Active` is returned, heartbeats are recent up to one request, the
    balances that were read are below the deposit, and the follower has approved a NewState
    with healthy stats, or there is none and `active_from` has passed. `WaitingIsForStart`. `CopyInv` relates the two copies in the call to what the
    validators hold by then, which is never older, and the doubts already decided to the
    time the last request takes.
16. `PromptIsSound`: validators that work in time are not doubted, *if* `SoundDurations` holds:
    heartbeat interval + request timeout <= recency, approving + 2 request timeouts <= a minute.
    With the request timeout of production, a NewState must be approved, and known to
    be, within 20 s. `PromptInv` bounds the ages of the copies at each request.

`ExpiryProofs`:

17. A behaviour of `Expiry` is one of `GetStatus` (the lemma `CallsOfRounds`), so that 14 to 16
    hold there.
18. `SettledStaysGone`: a call that follows a late one is late, too (`SettledInv`), and its
    results are `Finalized` ones only (`FinalizedForever` says the same of calls alone).

`UnitsForSlotProofs` holds for any campaigns, prices, limits, and any changes of the cache:

19. `PricesWithinBounds`; `OffersStayCurrent` and `LimitIsKept` from `SeenInv`: while the
    handler waits for the lock, `seen` covers what the cache shows; once it has read the
    cache, what it has selected was seen.

`PagingProofs` holds for any finite set of items, page size and number of changes:

20. `NothingMissed`, `NothingTwice`, from what has come at each moment. `MarketInv`: `skip` divides the
    list. Before it everything has come unless something was removed, behind it nothing has
    unless something was inserted. `ValidatorInv`: the pages of the concurrent requests that
    are still out are exactly the items that have not come, unless the list has shifted.
    `Removal` and `Insertion` say where each item goes when the list shifts, `Received` what a
    page adds to a result, `Division` and `Multiples` to which page a position belongs.

`ServerProofs` holds for any clients and number of calls:

21. `ServedAsAsked`: each check that `step` has passed was good (`StartInv`), and the choice of the
    configuration and the fate of the refresh task are fixed before the server binds.
22. `NoneIsDropped`: requests are in progress only while the server serves or drains
    (`RunningInv`), where nothing but its failure ends it early.

Only model-checked are the liveness properties, since fairness and ENABLED are out of the
prover's reach: `RequestsAnswered`, `FinalizedLeaves`, `ActiveRefreshed`, `TimersServed`,
`DataCatchUp`, `ShutdownEnds`, and what the fairness adds to `ImplementsRounds`,
`DiscoveredGivenTime` and `UpdatedGivenTime`. Every invariant and action property that a passing run
checks is also proved.

## Not modelled

* HTTP, TLS, JSON, logging, metrics of the runtime; headers and URIs of the proxy.
* `limited_identity_earnings_limit` is read from the configuration and never applied.
* Fields of the configuration that are only copied, and the status filter of `fetch_campaigns`.
* A campaign has one ad unit in `UnitsForSlot`, and its targeting rules are not evaluated.
* Test helpers (`util.rs`) and the test suites.

## Plan

Done: the cache with its lock, abstract specifications and proofs; status; handler; paging;
the loop with its durations; channel data; expiry; server; test double; theorems about all
of them but the test double.

Next, in this order:

1. `RwLock` against a specification of its own, a queue without permits;
2. `Server` composed with `UnitsForSlot`, so that a request drains with its actual calls.
