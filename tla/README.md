# SearchMeld: specifications and proofs

SearchMeld is a gateway that answers search and extraction requests with the
upstream providers an administrator has configured. It holds the providers' API
keys, spreads the calls over them within their limits, caches and coalesces
searches, and accounts for every call per token and key. This directory holds
TLA+ specifications of that core, the instances TLC checks, and theorems about
it that TLAPS proves. The modules are written from the code under
`src/backend/`; `PROJECT.json` maps each definition to its lines.

## The system

| Component | State | Operations | Hard about it | Correct means |
|---|---|---|---|---|
| Key pool (`internal/keypool/manager.go`) | per key: calls in progress, RPM window, reservations, usage observed per day and month; per provider: calls in progress, position | `Acquire`, `release` | usage is read outside the lock; it is counted only when a request is over; midnight; lost logs; restarts; the position is an index into a list that changes | limits and quotas hold; no slot or reservation leaks; keys recover; every key has its turn |
| Request log (`internal/db/store.go`) | `search_requests`, `provider_calls`, `usage_daily`, `usage_meter_daily` | `recordRequestLog`, `DeleteAPIToken`, `DeleteProviderKey` | row locks, deadlocks, foreign keys, a second connection inside a transaction, two seconds to finish | each request counts once; deletions lose nothing; every log ends |
| Search (`internal/search/orchestrator.go`) | cache, flights of `singleflight`, quota refreshes | `Search`, `executeSearch`, `callProvider` | coalesced callers share an outcome and its deadline, and each writes a log; modes, retries and deadlines combine | the cache moves forward and is whole; whoever waits is answered in time; quotas hold |
| Key status (`store.go`, `orchestrator.go`, `quota.go`) | `status`, `cooldown_until`, failures, official quota | `RecordKeyResult`, `UpdateProviderKey`, `UpdateProviderKeyOfficialQuota`, `refreshOfficialQuota` | late results and refreshes meet an administrator's changes | a disabled key stays disabled; a cooled key returns |
| Extraction (`internal/search/extract.go`) | none of its own | `Extract` | batches and fallbacks over the key pool, one budget of time, bounded responses | every URL is answered once; bounds hold at no needless cost |
| Admin sessions (`internal/api/auth.go`) | sessions, login windows, the API key | `Login`, `Logout`, `requireAdmin`, rotation | limits tested and recorded under separate locks; logouts that come late | the limiter's bounds hold; only a session's own logout ends it |
| Token admission (`auth.go`, `middleware.go`, `handlers.go`) | rows of tokens, RPM windows, usage | `requireAPIToken`, `mcpAuthContext`, `allowToken`, scopes and providers | quotas read before and counted after a request; rows change meanwhile | the overshoot is bounded; one row permits all a request does |
| User request log (`user_request_logs.go`) | `user_request_logs` | `captureUserRequest` and what it observes | three places to write in, past denials and panics | the books tell the same story |
| MCP endpoint (`internal/api/mcp.go`) | none | `mcp`, batches | cancellation and bounds after some messages were run | replies all or nothing, errors counted |
| Retention cleaner (`cmd/server/main.go`) | detail logs, cache | `startLogRetentionCleaner`, `DeleteOldLogs`, `DeleteExpiredCache` | fails half-way, restarts, changed settings | no old row is forgotten |

Stateless parts (provider adapters, billing rates, compatibility formats,
configuration, encryption), the frontend and the deployment scripts are listed in
`PROJECT.json` as not modelled, with the reasons.

How they interact: a handler admits a token and calls `Search` or `Extract`;
these take keys from the pool with `Acquire`, call an adapter, `release` the key,
and at the end write one log through the store. The pool reads the usage rows
those logs have written, and the status that results have left on the keys. On
the way back the token is marked and an entry is made in the user request log.
Every one of these borders is in some module: the loop of pool, calls, log and
usage in `KeyPool` and `CachedSearch`, the statements of the log in `RequestLog`,
what a search does between its handler and its calls in `SearchRun`, the way to the
orchestrator and back in `Gateway`.

## Modules

### `KeyPool`: the key pool of one provider

The state mirrors `Manager`: `keyStates` is `states` (one record per key with the
fields of `keyState`; a period is a number, 0 for the empty string),
`providerActive` the counter of the provider. `pendingLast` is abstracted to
`pendingAge`, half hours passed since, so that 2 is `maxPendingReservationAge`.
The windows of requests per minute keep their counter and whether a minute has
passed. The database is the usage the statement of `ListAvailableProviderKeys`
sums up: `total`, `used` per cycle, and the current `period` of each cycle. A
request is at `pc[p]`, holds the `rows` it read, and in `attempts` the keys of its
calls.

| Action | Code |
|---|---|
| `ListKeys`, `AbandonAcquire` | `Acquire` before the lock: the rows, their filter on quotas, errors |
| `Reserve`, `Refuse` | `Acquire` under the lock: provider limit, `canUse` for each key looked at (with `syncQuotaState`, which changes the state of refused keys too), counters |
| `Release` | the closure `release` |
| `BeginLog`, `CommitLog`, `LoseLog` | the transaction of the log, dated at its beginning, as far as it counts calls of keys |
| `Rollover`, `MinutePasses`, `AgeReservations` | midnight or the first of a month, a minute, half an hour |
| `Restart` | a new process: the memory and the logs not yet written are gone |

Which keys the status column admits, and which usable key the rotation takes, are
left open: any subset, any order. The first is the matter of `KeyStatus`, the second
of `KeyRotation`.

### `KeyRotation`: which key is taken

The rows a request has listed are reduced to two orders of them: the one of the
statement (weight, last use, ID) and the one `least_used` would sort them into.
`recency` is the order of `last_used_at`, `lead` by how much the total of a key's
results exceeds the lowest, `position` the entry of `Manager.positions`. Any keys may
be listed and usable at any call, so that the properties say when they speak of
undisturbed ones.

| Action | Code |
|---|---|
| `ListForTurn`, `ReadStrategy`, `GiveUp` | `Acquire` before the lock: two statements, their errors |
| `TakeKey`, `RefuseKeys` | `orderKeys`, `startIndex`, the loop over the keys, the new position |
| `RecordUse`, `LoseUse` | `RecordKeyResult`, as far as it changes the order of the keys; a retry |
| `SetStrategy`, `ResetManager` | an administrator changes the strategy; a new process |

`TurnComes` is checked for two keys of equal weight and two requests, where TLC finds 9
to be the most calls that can pass over a key. The bound depends on both numbers: for
three keys of equal weight and two concurrent requests under `round_robin` TLC finds
schedules in which one of them is not used in more than 20 calls, although all can be
used. Nothing in the repository promises a bound for these, so no run expects one.

### `RequestLog`: the transactions of the log

Writers (requests that are over) run `recordRequestLog` statement by statement:
wait for a connection, insert the request, insert each call, read the provider's
settings over a second connection, lock and update rows of `usage_meter_daily` and
`usage_daily`, commit. The administrator runs `DeleteAPIToken` (five statements
and the commit) or `DeleteProviderKey` (two) beside them. Postgres and pgxpool are
external and modelled as the code uses them: READ COMMITTED, row locks until the
end of the transaction, foreign keys that hold what they refer to, `ON DELETE SET
NULL`, `UNIQUE NULLS NOT DISTINCT`, a cycle of waits aborted, a bounded number of
connections. Writes of a log are applied at its commit; until then its locks keep
others from the rows.

### `CachedSearch`: coalesced searches over the pool

Extends `KeyPool`: a request of `KeyPool` is a caller of `Search` for one cache
key. A caller reads the cache, joins or opens a flight, or bypasses both (`role`);
whoever runs the search takes the steps of `KeyPool`; the leader stores its result
(a version of what the upstream found) before the flight ends; the followers then
log the leader's calls (`copies`). `real` counts each call once, in the log of the
caller that made it.

### `KeyStatus`: which keys are listed

The `status` and `cooldown_until` of the keys of one provider. Time is relative:
`cooldown` counts the ticks to come, 0 for a moment that has passed; 15 minutes
are `CoolingTime` ticks. A call starts with a key that is listed (an
administrator's test with any), ends, records its result, reports a quota its
answer carried, and asks for a refresh. Between any two of these steps others
record theirs. `rest` is history: what is left of the longest cooldown recorded
for a key since an administrator last set its status.

| Action | Code |
|---|---|
| `StartCall`, `EndCall` | `callProvider`, `TestProviderKey`; the part of `RecordKeyResult` before its statement, which fixes the end of a cooldown |
| `RecordResult`, `LoseResult` | the statement of `RecordKeyResult` (`StatusAfter`, `CooldownAfter`), or its error, which `release` ignores |
| `ReportQuota`, `QueryQuota`, `SaveRefreshed` | `UpdateProviderKeyOfficialQuota` from an answer, an administrator's query, a refresh |
| `RefreshQuota`, `SkipRefresh`, `EndRefresh`, `IntervalPasses` | `refreshOfficialQuota`: the claim under `quotaMu`, the goroutine's deferred end, the interval |
| `SetStatus` | `UpdateProviderKey`, as far as it sets the status |
| `Tick`, `Restart` | time; a new process |

Rejected credentials ask for `disabled`, an exhausted quota for `exhausted`, a rate
limit for `cooling`, everything else, failures included, for `enabled`.

### `SearchPromise` and `SearchRun`: a search over several providers

`SearchPromise` is what `executeSearch` promises to its callers: an order of
providers, each settled once with results, without any, or failed; `Turn` says when
a provider's turn comes in each mode, `Complete` when the run may be over.
`SearchRun` is the code: `pc` is where a caller is in `Search`, `asked` its enabled
providers in order, `left` the ticks of its deadline, `run` one record per provider
asked with the step and attempt of `callProvider`. The two are tied by
`ImplementsPromise`: an open run of the promise is a caller that leads a flight, runs
alone, or stores; its outcomes are those of `run`. Keys and logs are the
business of `CachedSearch`, which in turn has one provider.

| Action | Code |
|---|---|
| `Ask` | `applyDefaults`, `routeProviders`, `filterEnabledProviders`, `effectiveRequestTimeoutMS` |
| `ReadCache`, `EnterFlight`, `StoreResult`, `Reply` | `Search`: `GetCache`, `singleflight`, `SetCache`, the log and the response |
| `BeginCall`, `FailAcquire`, `AnswerCall`, `FailCall` | `callProvider`: one attempt, its deadline, `shouldRetryWithNextKey` |
| `ReportQuota` | `callProvider`, as long as it writes the quota an answer brought |
| `EndRun` | the end of `executeSearch`, `shouldWriteSearchCache` |
| `Disconnect`, `CacheExpires`, `Tick` | the client goes away (`detachContext`), a row expires, time |

`MergedPages` and `Merged` are `mergeResults`: duplicates by URL, unless `dedupe` is off (in
the request or by `DefaultDedupe`), best score, stable order, the limit. No step of a search
depends on `dedupe`, which is part of the cache key: the operators take it as a parameter, and
`ResultsAreBest` speaks of both values. Results of equal score have equal titles here, so that
the order in which they were found decides. `Finds` is any sequence of results over `Pages` and
integer scores per provider.

The database is waited for in three places. `SetCache` (`storing`) and the quota that an answer
brought (`reporting`; Brave's does) are written under contexts without a deadline, inside the
flight; the log of each caller (`logging`) has `LogTimeout`. `LateOnlyForWrites` says that nobody
is kept beyond its time by anything but the first two.

`CacheIsWhole` says what a row is worth in each mode. In a parallel search every provider of the
key has answered; in a single one the one asked; in a fallback one of those asked, and those
before another brought nothing. More is not true of a fallback: its row may be empty because
the last provider failed, or was never asked for lack of time (`shouldWriteSearchCache`).

### `Extract`: extractions

One extraction at a time, since two meet nowhere but in the pool and the log.
`execs` holds one execution per provider with its batch, attempt, deadline,
results and failures; `budget` is the deadline of the whole. `BeginExtract` is
`applyExtractDefaults`, `HostResolved` and `HostRefused` the lookups of the hosts,
`ExecuteExtract` computes the budget; the actions of a call are those of
`callExtractProvider` and `callExtractAdapter`, with
`normalizeExtractProviderResults` in `AnswerCall`; `EndExtract` merges, reports what
failed, bounds (`boundExtractMergedResults`, a binary search: `Share`; and
`boundExtractResponse`: `Bound`), and writes the log, which may be lost. `Responses` are the
outcomes: results and failures, how much of the results is left, whether the log was written,
and whether the caller is told an error, of which the handler then writes nothing else
(`EndRequest`).

A response beyond the bound of its JSON first loses raw items, then images, then contents are
cut to half the bound of one content, a quarter and so on (`HalvedCap`), and in the end nothing
is left of a result but its URL (`Compact`), whatever size that has. `PartSize` is the size of
what may go besides contents, `Envelope` what is about no result.

### `Lists`: what loops over slices compute

`SearchRun` and `Extract` share the filters, sums, removal of duplicates and stable
sort of the orchestrator. They are recursive functions over positions, not `RECURSIVE`
operators, so that `ListProofs` can say what they keep for lists of any length.

### `AdminAuth`: logins, sessions, the API key

`windows` and `sessions` are the maps of the handler; a login passes the limiter
(`StartLogin`), then its password is checked, then it fails or succeeds: three
separate critical sections, between which others go on. A request to a protected
route is admitted (`EnterWithCookie`, `EnterWithKey`) and carried out later
(`Logout`, `RotateKey`, `Act`).

### `Gateway`: from the token to the entry

A request passes `captureUserRequest`, `requireAPIToken` or `mcpAuthContext`
(`ReadSettings`, `LookUpAdminKey`, `LookUpToken`, `AllowToken`), the handler
(`Reject`, `Deny`, `DenyExtract`, `BeginRun`, `EndRun`, `Panic`), and the deferred calls
on the way back (`MarkUsed`, `RecordEntry`). The mark of a token may fail, which nobody is told
(`MarkToken`): `marks` keeps the marks made apart from those lost. `UpdateToken` is an
administrator at any moment between. Quota and log are reduced to what one token sees: a number that
grows when a request is over.

### `Mcp`: a POST to the MCP endpoint

One body at a time, message after message: `ReadBody`, `Admit`, `Dispatch`,
`ToolReturns`, `Encode`, `Send`, and `Cancel` before any of them. A message is its
method, whether it has an ID, and the size of its reply; the buffer is bounded as
`handleMCPBatch` and `marshalMCPResponse` bound it, down to brackets, commas and the
newline.

### `Retention`: the cleaner

A round is the reading of the settings and four statements, any of which may fail
or be cut off by a stop of the process; hours pass between rounds.

### Model-checking modules

`MCKeyPool`, `MCRequestLog`, `MCCachedSearch`, `MCSearchRun`, `MCProviderCalls` and
`MCServer` define the values of the constants (quotas, limits, call lists, batches)
for the configurations. `MCServer` extends `AdminAuth`, `Gateway`, `Mcp` and
`Retention`, `MCProviderCalls` extends `KeyStatus`, `KeyRotation` and `Extract`: the
modules of each share no state, so their product would only multiply states without
a behaviour that is not in one of them. The variable `part` says which of them a
behaviour is about; the others stay in their initial state. The run explores the sum
of the state spaces.

## Runs

| Run | Bounds | Shows |
|---|---|---|
| `keypool_quota` | 1 key, 2 requests of 2 calls, quota 2 a day and 3 a month, 1 request per minute, 2 days and 2 months | `QuotaHeld`, `BooksBalance`, `ObservedNeverRewinds`, `KeyRecovers` |
| `keypool_sharing` | 2 keys (one limited to 1 call), provider limited to 2, 3 requests of 1 call | `TypeOK`, `ConcurrencyHeld`, `SlotsAccounted` |
| `request_log` | 2 logs (one call, or a failure and a retry), 1 token, 2 keys, 3 connections, slow database, any deletion | `TokenUsageExact`, `BillingPreserved`, `NeverOvercounted`, `EveryLogEnds` |
| `request_log_starved` | 2 logs on 2 connections, database that answers | violates `NoLogLost` |
| `request_log_token_deleted` | 2 logs, deletion of the token | violates `UsagePreserved` |
| `request_log_keys_deleted` | 1 log of two calls, deletion of keys | violates `KeysDeletable` |
| `cached_search` | 1 key with quota 2 a day, 2 callers, every policy, one day, 2 versions | `EveryCallCovered`, `ServedWithinQuota`, `CacheMovesForward`, `FollowersAnswered` |
| `cached_search_reservation` | as `cached_search`, 3 callers that refresh | violates `ReservationKept` |
| `provider_calls`, status | 1 key, 1 call, 1 test, 2 refreshes, cooldown of 2 ticks | `TypeOK`, `BackoffLasts`, `OneRefresh`, `NoComeback`, `KeyReturns` |
| `search_run` | 2 callers, 2 providers (one with a retry and half the time, that reports quotas), 3 modes, with and without duplicates, limit 2, 1 result in the cache, slow database | `TypeOK`, `AnswerFromAsked`, `CacheIsWhole`, `ResultsAreBest`, `LateOnlyForWrites`, `EverySearchEnds`, `ImplementsPromise` |
| `provider_calls`, rotation | 2 keys of equal weight, 2 requests, 3 strategies, leads told apart up to 1 | `TurnComes` |
| `key_rotation_retry` | 2 keys of equal weight, 1 request with 1 retry, `round_robin` | violates `RetryUsesOtherKey` |
| `provider_calls`, extract | 2 URLs, one named twice, one of them by address; 2 providers, one URL by URL with a retry; 3 modes; up to 2 items per answer; sizes for every bound and every form of the response; lost logs | `ExtractTypeOK`, `EveryUrlAnswered`, `OnlyUnresolvedAsked`, `ResponseBounded`, `WindowKept` |
| `server`, admin | 2 logins of 2 names, 2 attempts, 1 bucket, 2 visitors, 2 sessions, 1 rotation | `LimiterHolds`, `OnlyOwnSession` |
| `server`, gateway | 2 requests of 7 kinds, 1 token with 3 rows, quota and rate of 1 | `OvershootBounded`, `AdmittedByOneRow`, `EntriesMatch` |
| `server`, mcp | every batch of up to 3 of 8 kinds of message, and one too long | `BatchAnswered` |
| `server`, retention | a row in two logs and in the cache, 3 settings, 1 missed hour | `OldRowsGo` |

Why the bounds are enough to be interesting: a stale reading needs one request
that reads and one that overtakes it; a midnight needs two periods (`MaxPeriod`), before
and after it, for readings and logs that come late; the day's and the month's quota must be met at
different times, hence 2 and 3; a leaked slot shows with a limit of one. Two logs suffice for lock cycles
(two keys in two orders) and for starvation (two connections). A flight needs a
leader and a follower, and for the reservation given up a third caller that profits.
The columns of a key do not depend on other keys, so `KeyStatus` has one; a
cooldown needs two results with different ends, an exclusion two
refreshes. In `SearchRun` one provider may give up while time is left for the next
and the next may use it all up; a page that both found with different scores, and a
limit below what they find, make merging and cutting differ. In `Extract`
duplicates, batches of one and of all, and contents that fit neither, one or both
bounds occur together, and the response takes each of its five forms. In `AdminAuth` two logins suffice for each other's bucket to
vanish, in `Gateway` two requests to overshoot a quota of one and three rows to mix
two and to revoke. A batch of three has a first, a middle and a last message.
Every property has a mutant of the code in `PROJECT.json` that TLC finds it
violated by under the same bounds. Requests are symmetric where the
run checks no liveness.

### Fairness

`KeyPool.FairSpec` and `CachedSearch.FairSearch` assume that a request under way
goes on: its calls and its log have deadlines (`effectiveRequestTimeoutMS`,
`usageLogTimeout`), so each step ends one way or another. Nothing is assumed of
requests that may come in. `KeyPool` also assumes that minutes and half hours
pass. `CachedSearch` makes no assumption about time, but assumes that `SetCache`
returns, for which the code has no deadline (listed as a hazard).
`KeyStatus.FairSpec` assumes that time passes (`Tick`) and nothing else: a key comes
back although no process sets it back, calls may hang and results may be lost.
`RequestLog.FairSpec` assumes that a transaction that can go on does, which
includes its timeout; it does not assume that a database answers.
`SearchRun.FairSpec` assumes that each caller that can take a step takes one, as a
goroutine does (upstreams may hang until the deadline of the call, when a timeout
is the step; only a `SetCache` or a write of a quota that hangs for ever is excluded, as both
have no deadline), and that time passes while somebody waits.

## Findings

The five runs that TLC finds violated:

1. **Logs starve each other of connections** (`request_log_starved`).
   `insertCallUsage` reads the provider's settings through the pool while its own
   transaction holds a connection. If logs hold all of them, each waits for one
   more until `usageLogTimeout`; all are lost although "usage and billing must
   still be committed". Callers that were coalesced log at the same moment.
2. **A token's deletion loses a concurrent log** (`request_log_token_deleted`).
   The usage of the token is merged by one statement and deleted by a second.
3. **A second key cannot be deleted** (`request_log_keys_deleted`). The rows of
   `usage_meter_daily` of two keys of a provider become equal when their key is
   set to NULL, which `UNIQUE NULLS NOT DISTINCT` refuses.
4. **A follower's log takes another call's reservation**
   (`cached_search_reservation`). All callers of a flight record the leader's
   calls; the first log to arrive makes the manager give up the reservation of
   the call whose own log is still to come, and the usage of the key is counted
   several times. Within a day this wastes quota and does not exceed it
   (`ServedWithinQuota`). Across midnight nothing is promised: a reservation given
   up on one day may belong to a log that is dated on the next.
5. **A retry calls the key that has just failed** (`key_rotation_retry`). Under
   `round_robin` the position points behind the key last taken, in a list that is
   sorted by last use: the key moves to the end with its result, and of two equal
   keys the position finds it there again. Tests and documentation speak of a retry
   "with next key" (`orchestrator_test.go:489`), "换 Key 重试" (`docs/extract.md:3`). A
   key that was rejected, exhausted or rate limited leaves the list and is not taken
   again; one whose call timed out or failed upstream is.

## Proofs

TLC checks one instance of each module; TLAPS proves, for every value of the constants
that satisfies the module's assumptions:

| Module | Theorem | Property |
|---|---|---|
| `KeyPoolProofs` | `TypeCorrect` | `TypeOK` |
| | `SlotsCorrect` | `SlotsAccounted` |
| | `ConcurrencyCorrect` | `ConcurrencyHeld` |
| | `QuotaCorrect` | `QuotaHeld` |
| | `BooksCorrect` | `BooksBalance` |
| | `ForwardCorrect` | `ObservedNeverRewinds` |
| `CachedSearchProofs` | `SearchTypeCorrect` | `SearchTypeOK` |
| | `CacheForwardCorrect` | `CacheMovesForward` |
| | `CoverCorrect` | `EveryCallCovered` |
| | `ServedCorrect` | `ServedWithinQuota` |
| | `SearchConcurrencyCorrect` | `ConcurrencyHeld` |
| `KeyStatusProofs` | `TypeCorrect` | `TypeOK` |
| | `NoComebackCorrect` | `NoComeback` |
| | `BackoffCorrect` | `BackoffLasts` |
| | `OneRefreshCorrect` | `OneRefresh` |
| `RequestLogProofs` | `TypeCorrect` | `TypeOK` |
| | `UsageCorrect` | `TokenUsageExact` |
| | `BillingCorrect` | `BillingPreserved` |
| | `NotOvercounted` | `NeverOvercounted` |
| `SearchRunProofs` | `SearchTypeCorrect` | `TypeOK` |
| | `AnswerCorrect` | `AnswerFromAsked` |
| | `CacheCorrect` | `CacheIsWhole` |
| | `ResultsCorrect` | `ResultsAreBest` |
| | `LateCorrect` | `LateOnlyForWrites` |
| | `PromiseKept` | `ImplementsPromise` |
| `ExtractProofs` | `ExtractTypeCorrect` | `ExtractTypeOK` |
| | `EveryUrlAnsweredCorrect` | `EveryUrlAnswered` |
| | `OnlyUnresolvedAskedCorrect` | `OnlyUnresolvedAsked` |
| | `ResponseBoundedCorrect` | `ResponseBounded` |
| | `WindowKeptCorrect` | `WindowKept` |
| `ServerProofs` | `GatewayTypeCorrect` | `GatewayTypeOK` |
| | `OvershootCorrect` | `OvershootBounded` |
| | `OneRowCorrect` | `AdmittedByOneRow` |
| | `EntriesCorrect` | `EntriesMatch` |
| | `AdminTypeCorrect` | `AdminTypeOK` |
| | `LimiterCorrect` | `LimiterHolds` |
| | `OnlyOwnSessionCorrect` | `OnlyOwnSession` |
| | `McpTypeCorrect` | `McpTypeOK` |
| | `BatchCorrect` | `BatchAnswered` |
| | `RetentionTypeCorrect` | `RetentionTypeOK` |
| | `OldRowsCorrect` | `OldRowsGo` |

`ServerProofs` is about `Gateway`, `AdminAuth`, `Mcp` and `Retention`, which share no state.
`CachedSearchProofs` extends `KeyPoolProofs`, as its module extends `KeyPool`; `ExtractProofs`
and `SearchRunProofs` extend `ListProofs`, which has only lemmas.

What is assumed of the constants, besides their types:

- Keys, requests, logs, tokens, logins and names are finitely many: a process serves so
  many at a time, and counts them. Markers (`Null`, `Admin`, `Nobody`) are none of them.
- `KeyStatus`: a cooldown takes some time. `RequestLog`: the pool has a connection, and a
  request makes at most `MaxCalls` calls. `SearchRun`: a provider has at most 20 retries,
  which `callProvider` enforces; the results of a provider are a sequence, with integer
  scores.
- `Extract`: the same of retries; where no timeout is configured the call has
  `DefaultTimeout`, and what JSON makes of a content is a multiple of its size. The sizes of
  contents and of everything else, the three bounds and the number of URLs are any.
- `Mcp`: a response without a tool's result is bounded more tightly than one with it
  (`MaxDiscovery <= MaxResponse`; 256 KiB and 16 MiB in the code).
- Limits of zero or below, which switch a limit off, are included wherever the code has
  them.

Every inductive invariant was checked by TLC on an instance before it was proved: the
one of `SearchRun` in 341,426 states, of `Extract` in 172,514, of `CachedSearch` in 1,129,344, of `RequestLog` in
897,641 (three logs) and 68,592 (four connections), of `Retention` in 969,696, of `Mcp`
in 17,730, those of `AdminAuth` and `Gateway` on the instance of `server` (799,804 with the
other modules' states).

### `KeyPool`

`TypeInv` adds to `TypeOK` what each position of a request implies
(`Phases`). `SlotInv` adds the counters: a call that begins or ends changes one
counter and one set by one. `QuotaHeld` is far from inductive. `QuotaInv` adds for
every key:

- `Balanced`: seen plus reserved equals recorded plus outstanding plus lost. So
  newly read usage is exactly usage whose reservation can go.
- `StateCovers`, `RowsCover`: for every cycle, what the manager has observed
  together with its reservations is at least what is recorded and outstanding in
  that cycle, and the same of every row a request has read but not yet used, with
  the reservations it would leave.
- `StateInOrder`, `RowsInOrder`: observations and rows are not from the future,
  and of the same period never above the database.
- `Aged`: reservations old enough to be given up, with no call in progress, belong
  to no call whose log is still to come: whoever was in flight when the age began
  is over.

Then a key that `canUse` admits has room for one more call, whatever was read
when. Lemmas state what `canUse` leaves of a key (`VisitedSound`,
`VisitedStatesSound`), and one lemma per action that the action keeps the
invariant.

### `CachedSearch`

A step of `CachedSearch` is a step of `KeyPool` or leaves its variables alone, but for
the followers' logs, so its type and slot invariants hold here too. Its balance does not:
a follower's log takes the reservation of a call that is not its own. What remains is a bound
(`CoversCalls`): what the manager has seen and holds in reserve is at least the calls with
a log, those without one yet, and those whose log was lost. `Unread` and `AgedCalls` say
of keys not looked at since a start, and of reservations that have an age, which readings of
their usage may still be in use.

`ServedWithinQuota` is about the first period of a cycle: there what is used is the total, and
what is observed of the cycle is at least what is observed of the total (`FirstPeriod`), so
the bound is one on the cycle, which `canUse` compares with the quota.

`CacheMovesForward` rests on `FlightInv`: one flight is open at most, and what it has found is
no older than the row it will replace.

### `KeyStatus`

The invariant `Inv` has a part for each group of variables. To
`BackoffLasts`, which is not inductive, `Cooled` adds why the key is not listed:
it is disabled or exhausted, or it is cooling for at least as long as any rate
limit recorded for it. A key under refresh is marked in flight exactly as long as
one goroutine has it, hence the exclusion. `NoComeback` follows step by step from
`Inv`: a result changes the status of a key that is out, or rests, only for
something worse.

### `RequestLog`

`RequestLogInv` is what makes concurrent statements add up:

- `HeldSound`: locks and connections are held by open transactions alone.
- `LogsSound`: an open log has each row it will add to either still before it or
  locked. A log that commits therefore owns every row it adds to, and no deletion has dropped
  one of them.
- `DeletionSound`: the rows a deletion has dropped are locked by it; what it has moved away
  from a row is at most what is there; if it has dropped the requests of a token, it
  has dropped them for all keys.
- `CoveredBy`: a row of `usage_daily` that counts for a key is accompanied by one that counts
  for its token.
- `Counting`: the equalities of `TokenUsageExact` and `BillingPreserved`, token by token,
  and the bounds of `NeverOvercounted`.

The rest is counting: sums over rows change element by element, and the statements of a
log are the joined statements of its calls. What the folds behind both compute is shown
by a least counterexample, since the induction theorems of the library cannot be
instantiated.

### `SearchRun` and its promise

`SearchInv` says of each call what its step, attempt and time imply, and that it had its turn
(`CallSound`); of a leader that stores that its run is over and its result worth it
(`StoringSound`); of answers and rows of the cache, whose they are (`AnswersSound`, `RowsSound`).
`LateOnlyForWrites` needs a relation between callers, `FlightLed`: whoever waits is led by one
with the same cache key and no more time left. When it joins a flight it has all its time
(`TimeGiven`), and the leader at most as much. So if the leader's run has no time left and time
cannot pass for anything else, a call of its run, or the leader itself, is writing.

For `ImplementsPromise` the initial state maps to one of the promise's, and each action to
one of its steps or to a stutter: a call that ends settles an outcome of the promise, and
`HadTurn` is why it may; a run that ends is one the promise holds for `Complete`.

`ResultsAreBest` says of the answer what a user would say, without mentioning the loop:
with duplicates merged (`PagesAreBest`) in sets of pages, maxima of scores and sets of finders,
and with duplicates kept (`HitsAreBest`) by an injection of the results into the hits, the single
results the calls brought. The proof follows `mergeResults`. After
each of the found results the pages merged so far are exactly those found so far, each
once, with the best score and all finders (`MergedTo`, kept by `MergeNext`); without merging they
are the hits one after the other (`Unmerged`, `FoundAreHits`). The
stable sort is a permutation that ranks them (`SortedBySorts`, `OrderedFacts`, `RankedFacts`,
`HitsRanked`); and a prefix of a ranked list leaves out nothing better than what it keeps
(`FirstPagesAreBest`, `FirstHitsAreBest`). The two cuts of a cached answer are one to the smaller
limit (`ShownAreFirst`). It needs of a reachable state only the types: an answer is a
sequence of calls of providers.

### `Lists`

A recursive function exists and obeys its equation: the library proves that by induction,
which is out of reach here, so `ListProofs` proves it for loops over a list (`LoopExists`)
by a least counterexample. From that follows what the loops keep: a filter picks
positions in rising order, and all that qualify (`AmongPicks`, `AmongElements`,
`PicksUnique`); removing duplicates keeps each element where it came first
(`DistinctElements`); sums grow with the list (`SumsRise`, `TotalMonotone`); the sort is a
stable permutation (`SortedBySorts`); the concatenation of lists has the elements of all and
tells where each comes from (`FlattenOrigins`).

### `Extract`

`ExtractInv` relates what an execution was asked to what it has done. The URLs of its earlier
batches (`Passed`) are the only ones it can have brought, and only those it was assigned
(`BroughtOK`); the calls it has made are as many as its batches and retries allow
(`CallsOK`); in fallback mode it is asked only when all before it are settled, so its
assignment no longer changes (`InTurn`, `SameAssigned`), which is what
`OnlyUnresolvedAsked` rests on; `brought` records just what the results hold (`Recorded`).

`WindowKept` adds `Window`: the budget left covers the call that is made, the calls still
due of the same provider, and in fallback mode all of those to come (`Need`, `After`). A call that
ends early gives time back; a tick takes as much from the call as from the budget.
A retry breaks it, as it breaks the property, which therefore excludes retries.

`EveryUrlAnswered` and `ResponseBounded` are about the one step in which the answer is made.
`MergedTo` says of the merge, turn by turn, that each URL has one result, owned by the first
provider that brought it, credited to all that did; sorting by the URLs' places then gives the
order asked. For the bounds, the size of all contents rises with the cap
(`CutContent`), so the binary search keeps between its two ends the border between caps that fit and
caps that do not, and ends at the largest that fits (`ShareTurns`, `ShareFacts`); halving ends
at a cap for which the JSON fits, or at an empty content, which fits if any does (`HalvedFacts`);
cutting twice is cutting to the smaller size (`CutTwice`); and of the forms that fit the largest is
kept, as they are ordered by inclusion (`LargestForm`, `BoundFacts`). That a content is hidden by no
error but that of the log holds because an error of the calls is told only without results
(`ResponseFacts`).

### `Gateway`

`Sound` follows a request from step to step: whom it turned out to be, with a row granted
since it came in (`Identified`), that the row permits what runs (`Permitted`), and that
status, mark (made or lost, `Tries`) and log agree on the way back (`Accounted`). `OvershootBounded` needs
`LoadBounded`: usage together with the requests that are admitted and may still count
exceeds the quota by less than the number of requests, as the last one to be
admitted read a usage below it.

### `AdminAuth`

The guesses a bucket lets in are not bounded by its counter, because logins that
passed the test may fail after it was locked. `BucketSound` says: an open bucket
has counted each guess and is below `MaxAttempts`; once it is locked, guesses and logins
that are under way add up to no more than `MaxAttempts - 1` and the number of logins. That
there are no more than `MaxWindows` buckets follows from the room that pruning and
eviction make before one is added.

### `Mcp`

At each message of a batch the invariant says what has been done with those before it: which
were let in (`Accepted`, `LetIn`), which answered, in order and within the bound
(`AnsweredSoFar`), which called a tool (`CalledSoFar`), and how many errors were
counted (`ErrorsCounted`). `Dispatch`, `ToolReturns` and `Encode` keep it by one lemma
about going on to the next message.

### `Retention`

`OldRowsGo` needs what the present hour has already seen: in the hour in which its table was
cleaned no row is older than it may be (`CleanedIsClean`), and the statements of a round
work with a retention it has read (`RoundHasRead`). The longest retention is the greatest
element of a finite set, which is proved to exist.

### Only model-checked

- Liveness (`KeyRecovers`, `EveryLogEnds`, `FollowersAnswered`, `KeyReturns`,
  `EverySearchEnds`): it rests on fairness, hence on `ENABLED`, which is out of the proof
  system's reach.
- `KeyRotation.TurnComes`: its bound depends on the number of keys and requests
  and is not known in general; `Patience` is a number TLC found for one instance (see
  `KeyRotation` above). It is the only safety property of a passing run without a theorem.
- What the runs find violated (`Findings`).

## Assumptions and limits

- One process serves (reservations, RPM windows, flights, sessions and login windows
  are in its memory). A log in transit when a process dies is decided before the
  next one serves.
- "Normal relay requests are bounded to well under an hour" (`syncQuotaState`): a
  request ends within half an hour.
- The database's clock decides on days and months and does not go backwards.
- In `KeyPool` each call is logged once; `CachedSearch` lifts that.
- `MaxPeriod`, `MaxVersion`, `MaxRotations`, `MaxMissed` and `MaxLead` bound the runs
  (of two totals that lead by `MaxLead` either may be the larger);
  `MaxAttempts` and `MaxCalls` stand for the bound of the retry loop (at most 21
  calls, `callProvider`).
- In `KeyStatus` keys are neither added nor deleted, and the clocks of the process
  and of Postgres agree. What a result says of a secret the administrator has since
  replaced is recorded for the new one, as in the code.
- `RequestLog` has one day, one provider and one unit of measurement.
- Adapters, and what else runs between `Acquire` and `release`, do not panic: `release` is not
  deferred (`callProvider`, `callExtractAdapter`), so a panic that net/http recovers from would
  leak a slot, which no model shows. `Gateway` has panics, but no pool.
- In `SearchRun` and `Extract` the time between two waits is nothing: deadlines are
  kept to the tick. The time of a search begins when its settings and providers have been read,
  under the client's context alone. The deadline of a fallback search is that of its slowest provider
  with one retry, not the sum over all (`effectiveRequestTimeoutMS`), so a slow first
  provider may leave the next without time; an extraction adds them up, but its retries
  share the budget, which is why `WindowKept` speaks of extractions without one.
- `Retention.OldRowsGo` counts for each table the hours in a row in which it was not
  cleaned. The statements of a round run in order: one that always fails keeps those
  after it from ever being reached, and their rows stay.
- The shutdown of the server, which waits ten seconds for requests, is modelled
  only as a restart that loses what is in memory.

### Not modelled

- Provider adapters, billing rates, compatibility formats: stateless translations.
  What they do to a call is left open (it succeeds with any items, or fails in any
  way the orchestrator tells apart).
- The other administrative handlers: each reads or writes rows with one statement.
- Configuration, encryption, logging, migrations: run once at the start, or
  stateless. The frontend and the installation scripts: clients of the server.

## Plan

Done: all components with state of their own are modelled, and every safety property the
runs check is proved but `KeyRotation.TurnComes`. What is left, in order:

1. `KeyRotation`: its types, and that a key is taken only from the list that was read; a
   bound for the calls that pass over a key, if there is one for all numbers of keys.
2. A panic of an adapter in `KeyPool` (see above), titles that break ties of equal scores in
   `SearchRun`, and the snapshot of an extraction for the log.
3. A provider's quota refreshes and a search's log in one model, to see how late results meet
   a key that has got a new secret (a hazard without a property).
