------------------------------ MODULE SearchRun ------------------------------
(***************************************************************************)
(* Orchestrator.Search over several providers: which of them are asked in  *)
(* which order, the attempts of each, the deadlines of request and call,   *)
(* the merging of what they found, and what the search cache keeps.        *)
(*                                                                         *)
(* Time passes in ticks.  Between two ticks everything happens that the    *)
(* code does without waiting; what it waits for are the upstreams, each    *)
(* call under a deadline, and the database, which may be slow.  The        *)
(* searches of a behaviour share query, mode and whether duplicates are    *)
(* merged (dedupe); other searches have other cache keys and meet them     *)
(* nowhere.  No step depends on dedupe, only what an answer shows.         *)
(***************************************************************************)
EXTENDS Lists

CONSTANTS
  Callers,        \* the requests that search
  Providers,
  Enabled,        \* the providers the administrator has enabled
  Searches,       \* the searches that may come in: [caller, names, policy],
                  \*   names a sequence of providers, policy that of the cache
  Modes,          \* subset of {"parallel", "fallback", "single"}
  KeyRetryCount,  \* per provider: key_retry_count
  ProviderTimeout,\* per provider: timeout_ms in ticks (0: none)
  RuntimeTimeout, \* request_timeout_ms in ticks (or what stands for 0)
  LogTimeout,     \* usageLogTimeout in ticks
  Second,         \* the second effectiveRequestTimeoutMS adds, in ticks
  Errors,         \* the errors of the upstreams, timeouts aside
  Retryable,      \* per provider: retry_error_types
  Pages,          \* the pages that can be found
  Finds,          \* per provider: the results it has, <<[url, score], ...>>
  Sometimes,      \* the providers that may answer without results
  Reports,        \* the providers that may report a quota with their results
  Limit,          \* the limit of the searches
  CacheMaxResults,
  SlowDatabase    \* whether the writes of a search may take their time

ASSUME SearchAssumption ==
  /\ Enabled \subseteq Providers
  /\ Modes \subseteq {"parallel", "fallback", "single"}
  /\ \A s \in Searches :
       /\ s.caller \in Callers /\ s.names \in Seq(Providers)
       /\ s.policy \in {"default", "refresh", "bypass"}
  /\ KeyRetryCount \in [Providers -> 0..20]
  /\ ProviderTimeout \in [Providers -> Nat]
  /\ RuntimeTimeout \in Nat \ {0} /\ Second \in Nat /\ LogTimeout \in Nat
  /\ "timeout" \notin Errors
  /\ Finds \in [Providers -> Seq([url : Pages, score : Int])]
  /\ Sometimes \subseteq Providers /\ Reports \subseteq Providers
  /\ Limit \in Nat /\ CacheMaxResults \in Nat
  /\ SlowDatabase \in BOOLEAN

VARIABLES
  mode,    \* the mode of the searches
  pc,      \* what each caller is doing
  asked,   \* the providers of its search, in order
  left,    \* the ticks its request has left, in the end its log
  run,     \* per provider asked: step, attempt, ticks left to the call, outcome
  answer,  \* what it is told
  cache    \* per cache key: the answer kept, or NoAnswer

vars == <<mode, pc, asked, left, run, answer, cache>>

Steps == {"unasked", "retrying", "calling", "reporting", "settled"}
Running == {"leading", "alone"}
NoAnswer == [calls |-> <<>>, status |-> "none", cached |-> FALSE]

-----------------------------------------------------------------------------
(* The providers of a search. *)

\* routeProviders: the order of every strategy is an order of those named.
RouteProviders(names) ==
  {order \in [DOMAIN names -> ToSet(names)] : ToSet(order) = ToSet(names)}

FilterEnabled(names) == Among(names, Enabled)

MaxOf(S) == CHOOSE m \in S : \A n \in S : n <= m
Least(m, n) == IF m <= n THEN m ELSE n

\* What one provider needs: a call and a second, and one more call to retry.
Needed(p) ==
  IF ProviderTimeout[p] = 0 THEN 0
  ELSE ProviderTimeout[p] + Second
         + IF KeyRetryCount[p] > 0 THEN ProviderTimeout[p] ELSE 0

\* effectiveRequestTimeoutMS: the longest of them, not their sum.
RequestTimeout(names) ==
  MaxOf({RuntimeTimeout} \cup {Needed(p) : p \in ToSet(names)})

\* A faulty variant: the key of the cache leaves the providers out.
CacheKeyOfQuery(names) == {}

\* The key of the cache holds the providers sorted: their order is lost.
CacheKey(names) == ToSet(names)

-----------------------------------------------------------------------------
(* The answer of a run. *)

\* A faulty variant: a duplicate counts, but its score is dropped.
MergeFirstScore(merged, r, dedupe) ==
  IF dedupe /\ \E i \in DOMAIN merged : merged[i].url = r.url
    THEN [i \in DOMAIN merged |->
            IF merged[i].url = r.url
              THEN [merged[i] EXCEPT !.providers = @ \cup r.providers]
              ELSE merged[i]]
    ELSE Append(merged, r)

\* With dedupe a result found before adds its provider and, if better, its score.
MergeResult(merged, r, dedupe) ==
  IF dedupe /\ \E i \in DOMAIN merged : merged[i].url = r.url
    THEN [i \in DOMAIN merged |->
            IF merged[i].url = r.url
              THEN [merged[i] EXCEPT !.providers = @ \cup r.providers,
                                     !.score = MaxOf({@, r.score})]
              ELSE merged[i]]
    ELSE Append(merged, r)

ResultsOf(call) ==
  IF call.outcome # "results" THEN <<>>
  ELSE [i \in DOMAIN Finds[call.provider] |->
          [url |-> Finds[call.provider][i].url,
           score |-> Finds[call.provider][i].score,
           providers |-> {call.provider}]]

\* The results in the order found, with dedupe each page where it was found first.
MergedPages(found, dedupe) ==
  LET merged[n \in 0..Len(found)] ==
        IF n = 0 THEN <<>> ELSE MergeResult(merged[n - 1], found[n], dedupe)
  IN merged[Len(found)]

\* How many of n results a limit leaves; 0 is none.
Within(max, n) == IF max = 0 THEN n ELSE Least(max, n)

Truncated(results, max) == SubSeq(results, 1, Within(max, Len(results)))

\* mergeResults: the best first, as many as the limit leaves.
Merged(calls, dedupe) ==
  LET pages == MergedPages(FlattenSeq([i \in DOMAIN calls |-> ResultsOf(calls[i])]), dedupe)
  IN Truncated(SortedBy(pages, [n \in DOMAIN pages |-> -pages[n].score]), Limit)

\* The executions a run has made, in the order asked: whoever was asked comes
\* before those who were not, in every mode.
CallsOf(c) ==
  [i \in {j \in DOMAIN run[c] : run[c][j].outcome # "none"} |->
     [provider |-> asked[c][i], outcome |-> run[c][i].outcome]]

AnswerOf(calls) ==
  [calls |-> calls, cached |-> FALSE,
   status |-> IF \A i \in DOMAIN calls : calls[i].outcome = "failed"
                THEN "error" ELSE "success"]

\* The results of an answer; those of a row of the cache were cut when it was
\* written (truncateResultsForCache).
ResponseResults(a, dedupe) ==
  IF a.cached THEN Truncated(Merged(a.calls, dedupe), CacheMaxResults)
  ELSE Merged(a.calls, dedupe)

\* A faulty variant: any success is good enough for the cache.
CacheAnySuccess(a) ==
  a.status = "success" /\ \E i \in DOMAIN a.calls : a.calls[i].outcome # "failed"

\* shouldWriteSearchCache.
ShouldCache(a) ==
  /\ a.status = "success"
  /\ IF mode = "parallel"
       THEN \A i \in DOMAIN a.calls : a.calls[i].outcome # "failed"
       ELSE \E i \in DOMAIN a.calls : a.calls[i].outcome # "failed"

-----------------------------------------------------------------------------
Init ==
  /\ mode \in Modes
  /\ pc = [c \in Callers |-> "idle"]
  /\ asked = [c \in Callers |-> <<>>]
  /\ left = [c \in Callers |-> 0]
  /\ run = [c \in Callers |-> <<>>]
  /\ answer = [c \in Callers |-> NoAnswer]
  /\ cache = [key \in SUBSET Providers |-> NoAnswer]

Unasked == [step |-> "unasked", attempt |-> 0, left |-> 0, outcome |-> "none"]

\* A search comes in.  It names its providers, or is routed; those disabled are
\* left out.  Its time begins.
Ask(c, names, policy) ==
  /\ pc[c] = "idle"
  /\ \E order \in {names} \cup RouteProviders(names) :
       LET enabled == FilterEnabled(order) IN
       /\ asked' = [asked EXCEPT ![c] = enabled]
       /\ left' = [left EXCEPT ![c] = RequestTimeout(enabled)]
       /\ run' = [run EXCEPT ![c] =
                    IF policy = "bypass" THEN [i \in DOMAIN enabled |-> Unasked] ELSE <<>>]
  /\ pc' = [pc EXCEPT ![c] = CASE policy = "default" -> "reading"
                               [] policy = "refresh" -> "entering"
                               [] policy = "bypass" -> "alone"]
  /\ UNCHANGED <<mode, answer, cache>>

\* GetCache: a row answers, no row sends the caller on, an error ends the search.
ReadCache(c) ==
  LET row == cache[CacheKey(asked[c])] IN
  /\ pc[c] = "reading"
  /\ \/ row # NoAnswer /\ pc' = [pc EXCEPT ![c] = "logging"]
                       /\ answer' = [answer EXCEPT ![c] = row]
                       /\ left' = [left EXCEPT ![c] = LogTimeout]
     \/ row = NoAnswer /\ pc' = [pc EXCEPT ![c] = "entering"] /\ UNCHANGED <<left, answer>>
     \/ pc' = [pc EXCEPT ![c] = "refused"] /\ UNCHANGED <<left, answer>>
  /\ UNCHANGED <<mode, asked, run, cache>>

Leads(d, key) == pc[d] \in {"leading", "storing"} /\ CacheKey(asked[d]) = key

\* singleflight.Group.Do: join the flight of the cache key, or begin one.
EnterFlight(c) ==
  /\ pc[c] = "entering"
  /\ IF \E d \in Callers : Leads(d, CacheKey(asked[c]))
       THEN pc' = [pc EXCEPT ![c] = "waiting"] /\ UNCHANGED run
       ELSE /\ pc' = [pc EXCEPT ![c] = "leading"]
            /\ run' = [run EXCEPT ![c] = [i \in DOMAIN asked[c] |-> Unasked]]
  /\ UNCHANGED <<mode, asked, left, answer, cache>>

\* A faulty variant: fallback goes on after whatever an earlier provider brought.
TurnAfterAny(c, i) ==
  CASE mode = "parallel" -> TRUE
    [] mode = "single" -> i = 1
    [] mode = "fallback" ->
         left[c] > 0 /\ \A j \in 1..(i - 1) : run[c][j].step = "settled"

\* When a provider is asked for the first time: all at once, the first only, or
\* while there is time and those before it brought nothing (shouldContinueFallback).
Turn(c, i) ==
  CASE mode = "parallel" -> TRUE
    [] mode = "single" -> i = 1
    [] mode = "fallback" ->
         left[c] > 0 /\ \A j \in 1..(i - 1) : run[c][j].outcome \in {"empty", "failed"}

Due(c, i) ==
  \/ run[c][i].step = "unasked" /\ Turn(c, i)
  \/ run[c][i].step = "retrying"

\* A faulty variant: a call has the time of its provider, whatever is left.
CallTimeOfProvider(c, p) == IF ProviderTimeout[p] = 0 THEN left[c] ELSE ProviderTimeout[p]

\* The deadline of a call: the provider's, within that of the request.
CallTime(c, p) ==
  IF ProviderTimeout[p] = 0 THEN left[c] ELSE Least(ProviderTimeout[p], left[c])

\* Acquire hands out a key, and the call begins.
BeginCall(c, i) ==
  /\ pc[c] \in Running
  /\ Due(c, i)
  /\ left[c] > 0
  /\ run' = [run EXCEPT ![c][i] = [step |-> "calling", attempt |-> @.attempt + 1,
                                   left |-> CallTime(c, asked[c][i]), outcome |-> "none"]]
  /\ UNCHANGED <<mode, pc, asked, left, answer, cache>>

Settle(c, i, outcome) ==
  run' = [run EXCEPT ![c][i] = [step |-> "settled", attempt |-> 0, left |-> 0,
                                outcome |-> outcome]]

\* No adapter, no key, all keys busy, or no time left: no further attempt.
FailAcquire(c, i) ==
  /\ pc[c] \in Running
  /\ Due(c, i)
  /\ Settle(c, i, "failed")
  /\ UNCHANGED <<mode, pc, asked, left, answer, cache>>

MayRetry(p, attempt) == attempt < KeyRetryCount[p] + 1

\* shouldRetryWithNextKey.
ShouldRetry(p, error) ==
  IF Retryable[p] = {}
    THEN error \in {"auth", "quota_exhausted", "rate_limited", "timeout", "upstream"}
    ELSE error \in Retryable[p]

\* An answer brings a quota, which is written before anything else is done with the
\* answer, in the name of no request and without a deadline.
ReportQuota(c, i) ==
  /\ pc[c] \in Running
  /\ run[c][i].step = "calling"
  /\ asked[c][i] \in Reports
  /\ run' = [run EXCEPT ![c][i] = [@ EXCEPT !.step = "reporting", !.left = 0]]
  /\ UNCHANGED <<mode, pc, asked, left, answer, cache>>

\* An answer is there, and its quota, if any, has been written or could not be.
AnswerCall(c, i, outcome) ==
  /\ pc[c] \in Running
  /\ run[c][i].step \in {"calling", "reporting"}
  /\ outcome = "empty" => asked[c][i] \in Sometimes
  /\ Settle(c, i, outcome)
  /\ UNCHANGED <<mode, pc, asked, left, answer, cache>>

\* A call fails; at its deadline with a timeout.
FailCall(c, i, error) ==
  LET p == asked[c][i] IN
  /\ pc[c] \in Running
  /\ run[c][i].step = "calling"
  /\ error = "timeout" => run[c][i].left = 0
  /\ IF MayRetry(p, run[c][i].attempt) /\ ShouldRetry(p, error)
       THEN run' = [run EXCEPT ![c][i] = [@ EXCEPT !.step = "retrying", !.left = 0]]
       ELSE Settle(c, i, "failed")
  /\ UNCHANGED <<mode, pc, asked, left, answer, cache>>

\* A faulty variant: the run waits for all providers, in every mode.
EndsWhenAllSettled(c) == \A i \in DOMAIN run[c] : run[c][i].step = "settled"

\* executeSearch has all it will get: nobody is being called or due to be.
Ends(c) ==
  ~\E i \in DOMAIN run[c] : Due(c, i) \/ run[c][i].step \in {"calling", "reporting"}

\* The outcome goes to the caller that ran and to all who joined its flight; each
\* writes its log, for which it has a time of its own.
Hand(c) ==
  LET a == AnswerOf(CallsOf(c))
      told == {c} \cup {q \in Callers : /\ pc[c] # "alone" /\ pc[q] = "waiting"
                                        /\ CacheKey(asked[q]) = CacheKey(asked[c])}
  IN /\ answer' = [q \in Callers |-> IF q \in told THEN a ELSE answer[q]]
     /\ pc' = [q \in Callers |-> IF q \in told THEN "logging" ELSE pc[q]]
     /\ left' = [q \in Callers |-> IF q \in told THEN LogTimeout ELSE left[q]]
     /\ run' = [run EXCEPT ![c] = <<>>]

EndRun(c) ==
  /\ pc[c] \in Running
  /\ Ends(c)
  /\ IF pc[c] = "leading" /\ ShouldCache(AnswerOf(CallsOf(c)))
       THEN pc' = [pc EXCEPT ![c] = "storing"] /\ UNCHANGED <<left, run, answer>>
       ELSE Hand(c)
  /\ UNCHANGED <<mode, asked, cache>>

\* SetCache, inside the flight and without a deadline; its error is ignored.
StoreResult(c) ==
  LET a == AnswerOf(CallsOf(c)) IN
  /\ pc[c] = "storing"
  /\ \/ cache' = [cache EXCEPT ![CacheKey(asked[c])] = [a EXCEPT !.cached = TRUE]]
     \/ UNCHANGED cache
  /\ Hand(c)
  /\ UNCHANGED <<mode, asked>>

\* The log is written or lost, or there was nothing to log; the search is over.
Reply(c) ==
  /\ pc[c] \in {"logging", "refused"}
  /\ pc' = [pc EXCEPT ![c] = "idle"]
  /\ asked' = [asked EXCEPT ![c] = <<>>]
  /\ left' = [left EXCEPT ![c] = 0]
  /\ answer' = [answer EXCEPT ![c] = NoAnswer]
  /\ UNCHANGED <<mode, run, cache>>

\* The client of a search goes away.  A flight is detached from its leader's
\* client (detachContext), a search that bypasses the cache ends with it.
Disconnect(c) ==
  /\ pc[c] = "alone"
  /\ left[c] > 0
  /\ left' = [left EXCEPT ![c] = 0]
  /\ run' = [run EXCEPT ![c] = [i \in DOMAIN @ |-> [@[i] EXCEPT !.left = 0]]]
  /\ UNCHANGED <<mode, pc, asked, answer, cache>>

CacheExpires(key) ==
  /\ cache[key] # NoAnswer
  /\ cache' = [cache EXCEPT ![key] = NoAnswer]
  /\ UNCHANGED <<mode, pc, asked, left, run, answer>>

\* Whoever waits for an upstream or for its log has time to: deadlines are kept.
\* SetCache and the write of a quota have none.
Waits(c) ==
  \/ pc[c] \in {"idle", "waiting"}
  \/ pc[c] = "storing" /\ SlowDatabase
  \/ pc[c] = "logging" /\ SlowDatabase /\ left[c] > 0
  \/ /\ pc[c] \in Running
     /\ ~Ends(c)
     /\ \A i \in DOMAIN run[c] :
          /\ ~Due(c, i)
          /\ run[c][i].step = "calling" => run[c][i].left > 0
          /\ run[c][i].step = "reporting" => SlowDatabase

Down(n) == IF n = 0 THEN 0 ELSE n - 1

Tick ==
  /\ \A c \in Callers : Waits(c)
  /\ \E c \in Callers : pc[c] # "idle"
  /\ left' = [c \in Callers |-> Down(left[c])]
  /\ run' = [c \in Callers |-> [i \in DOMAIN run[c] |->
                [run[c][i] EXCEPT !.left = Down(@)]]]
  /\ UNCHANGED <<mode, pc, asked, answer, cache>>

CallerStep(c) ==
  \/ ReadCache(c) \/ EnterFlight(c)
  \/ \E i \in DOMAIN run[c] :
       \/ BeginCall(c, i) \/ FailAcquire(c, i) \/ ReportQuota(c, i)
       \/ \E o \in {"results", "empty"} : AnswerCall(c, i, o)
       \/ \E e \in Errors \cup {"timeout"} : FailCall(c, i, e)
  \/ EndRun(c) \/ StoreResult(c) \/ Reply(c)

Next ==
  \/ \E s \in Searches : Ask(s.caller, s.names, s.policy)
  \/ \E c \in Callers : CallerStep(c) \/ Disconnect(c)
  \/ \E key \in SUBSET Providers : CacheExpires(key)
  \/ Tick

Spec == Init /\ [][Next]_vars

\* Whoever can go on does, and time passes where somebody waits.
FairSpec ==
  /\ Spec
  /\ WF_vars(Tick)
  /\ \A c \in Callers : WF_vars(CallerStep(c))

-----------------------------------------------------------------------------
(* Properties. *)

Calls == [provider : Providers, outcome : {"results", "empty", "failed"}]
Answers == [calls : Seq(Calls), status : {"none", "success", "error"}, cached : BOOLEAN]

RunTypeOK(c) ==
  /\ run[c] # <<>> => DOMAIN run[c] = DOMAIN asked[c]
  /\ \A i \in DOMAIN run[c] :
       /\ run[c][i].step \in Steps
       /\ run[c][i].attempt \in 0..(KeyRetryCount[asked[c][i]] + 1)
       /\ run[c][i].left \in 0..left[c]
       /\ run[c][i].outcome \in {"none", "results", "empty", "failed"}

\* Every variable has its type; no provider is called more often than its retries
\* allow, and no call is given more time than its request has left.
TypeOK ==
  /\ mode \in Modes
  /\ pc \in [Callers -> {"idle", "reading", "refused", "entering", "waiting",
                         "leading", "storing", "alone", "logging"}]
  /\ asked \in [Callers -> Seq(Enabled)]
  /\ left \in [Callers -> Nat]
  /\ \A c \in Callers : RunTypeOK(c)
  /\ answer \in [Callers -> Answers]
  /\ cache \in [SUBSET Providers -> Answers]

\* What a caller is told comes from the providers it asked, however the answer
\* came about: by its own run, by the flight of another caller who named them in
\* another order, or from the cache.  In parallel mode all of them were asked.
AnswerFromAsked ==
  \A c \in Callers :
    LET told == {call.provider : call \in ToSet(answer[c].calls)} IN
    /\ told \subseteq ToSet(asked[c])
    /\ (mode = "parallel" /\ answer[c].status = "success") => told = ToSet(asked[c])

\* Calls with which a row may be kept for its key.
Kept(calls, key) ==
  LET answered == {i \in DOMAIN calls : calls[i].outcome # "failed"} IN
  /\ mode = "parallel" =>
       {calls[i].provider : i \in DOMAIN calls} = key /\ answered = DOMAIN calls
  /\ mode = "single" => Len(calls) = 1 /\ answered = {1}
  /\ mode = "fallback" =>
       answered # {} /\ \A i \in 1..(Len(calls) - 1) : calls[i].outcome # "results"

\* A row of the cache holds what its mode promises.  In parallel mode every provider
\* of its key has answered and none failed.  In single mode the one asked has.  In
\* fallback mode one of them has, and whoever was asked before another brought
\* nothing; this is all: the last one asked may have failed, or never been asked for
\* lack of time, and the row may be empty for it.
CacheIsWhole ==
  \A key \in SUBSET Providers : cache[key] # NoAnswer => Kept(cache[key].calls, key)

\* Who found a page, among the providers an answer reports, and its best score.
Finders(a, url) ==
  {p \in Providers : /\ [provider |-> p, outcome |-> "results"] \in ToSet(a.calls)
                     /\ \E i \in DOMAIN Finds[p] : Finds[p][i].url = url}
Best(a, url) ==
  MaxOf(UNION {{Finds[p][i].score : i \in {j \in DOMAIN Finds[p] : Finds[p][j].url = url}}
               : p \in Finders(a, url)})
Found(a) == {url \in Pages : Finders(a, url) # {}}

\* How many results the limits leave of those an answer has.
Shown(a, number) ==
  IF a.cached THEN Within(CacheMaxResults, Within(Limit, number)) ELSE Within(Limit, number)

\* Merged: no page twice, each with its best score and all its finders, none left
\* out for a worse one.
PagesAreBest(a, results) ==
  LET pages == {r.url : r \in ToSet(results)} IN
  /\ Len(results) = Shown(a, Cardinality(Found(a)))
  /\ Cardinality(pages) = Len(results)
  /\ pages \subseteq Found(a)
  /\ \A r \in ToSet(results) :
       /\ r.score = Best(a, r.url) /\ r.providers = Finders(a, r.url)
       /\ \A url \in Found(a) \ pages : Best(a, url) <= r.score

\* The single hits of an answer: <<i, k>> is the k-th its i-th call brought.
Hits(a) ==
  UNION {{<<i, k>> : k \in DOMAIN ResultsOf(a.calls[i])} : i \in DOMAIN a.calls}
Hit(a, hit) == ResultsOf(a.calls[hit[1]])[hit[2]]

\* Not merged: every result is a hit as it was found, none is shown twice and none
\* left out for a worse one.
HitsAreBest(a, results) ==
  /\ Len(results) = Shown(a, Cardinality(Hits(a)))
  /\ \E from \in [DOMAIN results -> Hits(a)] :
       /\ \A m, n \in DOMAIN results : from[m] = from[n] => m = n
       /\ \A n \in DOMAIN results :
            /\ results[n] = Hit(a, from[n])
            /\ \A hit \in Hits(a) \ ToSet(from) : Hit(a, hit).score <= results[n].score

\* The results of an answer, fresh or cached, are the best of what was found, the
\* better before the worse, as many as the limits leave, whether duplicates are
\* merged (dedupe) or not.
ResultsAreBest ==
  \A c \in {d \in Callers : pc[d] = "logging"}, dedupe \in BOOLEAN :
    LET results == ResponseResults(answer[c], dedupe) IN
    /\ IF dedupe THEN PagesAreBest(answer[c], results) ELSE HitsAreBest(answer[c], results)
    /\ \A m, n \in DOMAIN results : m < n => results[n].score <= results[m].score

\* Whom a caller waits for: itself, or who leads the flight it has joined.
Serves(d, c) == d = c \/ (pc[c] = "waiting" /\ Leads(d, CacheKey(asked[c])))

\* A write of the database that has no deadline: SetCache, or that of a quota.
Writing(d) ==
  pc[d] = "storing" \/ \E i \in DOMAIN run[d] : run[d][i].step = "reporting"

\* Time does not pass (everybody waits) while somebody is beyond the time of its
\* request, or of its log, unless it or the leader of the flight it joined is held up
\* by one of the two writes that have no deadline.
LateOnlyForWrites ==
  (\A c \in Callers : Waits(c)) =>
    \A c \in Callers : (pc[c] # "idle" /\ left[c] = 0) =>
      \E d \in Callers : Serves(d, c) /\ Writing(d)

\* Every search ends: attempts are bounded, calls have deadlines, flights end, so
\* whoever searches is idle again and again.
EverySearchEnds == \A c \in Callers : []<>(pc[c] = "idle")

\* The runs keep the promise of executeSearch (SearchPromise).
Open == {c \in Callers : pc[c] \in {"leading", "alone", "storing"}}

Promise ==
  INSTANCE SearchPromise WITH
    Runs <- Callers,
    Orders <- {FilterEnabled(order) :
                 order \in UNION {RouteProviders(s.names) : s \in Searches}},
    open <- Open,
    asked <- [c \in Callers |-> IF c \in Open THEN asked[c] ELSE <<>>],
    outcome <- [c \in Callers |-> [i \in DOMAIN run[c] |-> run[c][i].outcome]],
    late <- {c \in Open : left[c] = 0}

ImplementsPromise == Promise!Spec
===========================================================================
