------------------------------- MODULE Extract -------------------------------
(***************************************************************************)
(* Orchestrator.Extract: one extraction after the other, each of several   *)
(* URLs by several providers.  Some providers take one URL per call and    *)
(* are called for one after the other; every call has a deadline of its    *)
(* own within that of the request, and may be retried with another key.    *)
(*                                                                         *)
(* A URL stands for its key (extractURLKey): URLs with equal keys are one. *)
(* Extractions meet only in the key pool and the log, modelled elsewhere.  *)
(* Time passes in ticks, as in SearchRun, while calls are awaited.         *)
(***************************************************************************)
EXTENDS Lists

CONSTANTS
  Urls, Other,    \* the URLs, and one that nobody asks for
  Host,           \* the host of each URL; Literal for an IP address
  Literal,
  Extractors,     \* the providers whose adapters can extract
  Enabled,
  Extractions,    \* what may come in: [urls, names, window], window the
                  \*   timeout a Tavily request brings, in ticks (0: none)
  Modes,
  OneAtATime,     \* the providers that take one URL per call
  KeyRetryCount,  \* per provider
  ProviderTimeout,\* per provider: timeout_ms in ticks (0: none)
  DefaultTimeout, \* the 15 seconds that are reckoned where there is none
  RuntimeTimeout,
  Second,
  MaxItems,       \* how many items an answer brings, at most
  Size,           \* per provider: the size of its contents
  MaxResult, MaxContent, MaxJSON, \* the bounds of a content, of all, of the JSON
  Escaped,        \* per provider: what JSON makes of a unit of its contents
  PartSize,       \* per part of a result beside its content, and provider: its size
  Envelope        \* the size of what is about no result: failures, usage, metadata

\* "title" stands for title, author and finders, "images" for images and favicon.
Parts == {"title", "images", "raw"}

ASSUME ExtractAssumption ==
  /\ Other \notin Urls
  /\ Enabled \subseteq Extractors /\ OneAtATime \subseteq Extractors
  /\ Modes \subseteq {"parallel", "fallback", "single"}
  /\ \A r \in Extractions :
       r.urls \in Seq(Urls) \ {<<>>} /\ r.names \in Seq(Extractors) /\ r.window \in Nat
  /\ KeyRetryCount \in [Extractors -> 0..20]
  /\ ProviderTimeout \in [Extractors -> Nat]
  /\ {DefaultTimeout, RuntimeTimeout} \subseteq Nat \ {0}
  /\ {Second, MaxItems, MaxResult, MaxContent, MaxJSON, Envelope} \subseteq Nat
  /\ PartSize \in [Parts -> [Extractors -> Nat]]
  /\ Size \in [Extractors -> Nat] /\ Escaped \in [Extractors -> Nat \ {0}]

VARIABLES
  at,       \* what the extraction is doing
  ask,      \* its mode, its URLs, its providers, its window
  lookups,  \* the hosts whose addresses are still being looked up
  budget,   \* the ticks it has left
  execs,    \* one execution per provider: what it was asked, what it brought
  brought,  \* history: <<i, u>> if provider i brought the content of u
  response  \* what the caller gets

extractVars == <<at, ask, lookups, budget, execs, brought, response>>

-----------------------------------------------------------------------------
(* The request. *)

\* The order of every routing strategy is an order of the providers named.
Routes(names) ==
  {order \in [DOMAIN names -> ToSet(names)] : ToSet(order) = ToSet(names)}

NoRequest == [mode |-> "none", urls |-> <<>>, providers |-> <<>>, window |-> 0]
NoResponse ==
  [results |-> <<>>, failed |-> <<>>, parts |-> {}, told |-> "none", logged |-> FALSE]
Larger(m, n) == IF m >= n THEN m ELSE n
Smaller(m, n) == IF m <= n THEN m ELSE n

\* adjustedExtractProviderTimeouts.
TimeoutOf(r, p) ==
  IF r.window = 0 THEN ProviderTimeout[p] ELSE Larger(ProviderTimeout[p], r.window + Second)

\* What a call may take: without a timeout, the 15 seconds of the HTTP client.
TimeLimit(r, p) == IF TimeoutOf(r, p) = 0 THEN DefaultTimeout ELSE TimeoutOf(r, p)

Waves(r, p) == IF p \in OneAtATime THEN Len(r.urls) ELSE 1

\* A faulty variant: a provider needs the time of one call.
BudgetOfCall(r, p) == TimeLimit(r, p) + Second

\* What one provider may take: a call for every URL it takes alone.
BudgetOf(r, p) == TimeLimit(r, p) * Waves(r, p) + Second

\* effectiveExtractRequestTimeoutMS.
RequestBudget(r) ==
  LET budgets == [i \in DOMAIN r.providers |-> BudgetOf(r, r.providers[i])]
      required == CASE r.mode = "single" -> IF budgets = <<>> THEN 0 ELSE budgets[1]
                    [] r.mode = "parallel" -> Max({0} \cup ToSet(budgets))
                    [] r.mode = "fallback" -> Total(budgets)
  IN IF r.window > 0 THEN r.window + 2 * Second ELSE Larger(RuntimeTimeout, required)

-----------------------------------------------------------------------------
(* The executions. *)

Unasked == [step |-> "unasked", batch |-> 1, attempt |-> 0, left |-> 0, results |-> <<>>,
            failures |-> {}, error |-> FALSE, attempts |-> <<>>]

Resolved(i) == {execs[i].results[n].url : n \in DOMAIN execs[i].results}

\* A faulty variant: the next provider gets all URLs again.
UnresolvedAfterAll(i) == ask.urls

\* unresolvedExtractURLs, after every provider before i.
UnresolvedBefore(i) ==
  Among(ask.urls, {u \in Urls : \A j \in 1..(i - 1) : u \notin Resolved(j)})

Assigned(i) == IF ask.mode = "fallback" THEN UnresolvedBefore(i) ELSE ask.urls

BatchSize(i) ==
  IF ask.providers[i] \in OneAtATime THEN 1 ELSE Larger(1, Len(Assigned(i)))
Batches(i) ==
  IF ask.providers[i] \in OneAtATime THEN Len(Assigned(i)) ELSE Smaller(1, Len(Assigned(i)))

\* The URLs of the call that is due or made.
Batch(i) ==
  SubSeq(Assigned(i), (execs[i].batch - 1) * BatchSize(i) + 1,
         Smaller(execs[i].batch * BatchSize(i), Len(Assigned(i))))

Turn(i) ==
  CASE ask.mode = "parallel" -> TRUE
    [] ask.mode = "single" -> i = 1
    [] ask.mode = "fallback" ->
         (\A j \in 1..(i - 1) : execs[j].step = "settled") /\ Assigned(i) # <<>>

\* An extraction whose caller has gone away ends at its own pace.
Running == at \in {"running", "abandoned"}

Due(i) == execs[i].step = "due" \/ (execs[i].step = "unasked" /\ Turn(i))
Calling(i) == execs[i].step = "calling"

\* correlateExtractResultURL: a batch of one takes any URL for its own.
Correlate(url, urls) ==
  IF url \in ToSet(urls) THEN url ELSE IF Len(urls) = 1 THEN urls[1] ELSE Other

\* normalizeExtractProviderResults: what counts as a result, what as a failure.
ResultsIn(i, items) ==
  LET named == [n \in DOMAIN items |-> [url |-> Correlate(items[n].url, Batch(i)),
                                        content |-> items[n].content]]
      good == Among(named, [url : Urls, content : {TRUE}])
  IN [n \in DOMAIN good |->
        [url |-> good[n].url, owner |-> i, providers |-> {i},
         size |-> Smaller(Size[ask.providers[i]], MaxResult)]]

FailuresIn(i, items, failed) ==
  failed \cup {Correlate(items[n].url, Batch(i)) :
                 n \in {m \in DOMAIN items :
                          ~items[m].content \/ Correlate(items[m].url, Batch(i)) = Other}}

-----------------------------------------------------------------------------
(* The response. *)

Merge(merged, r) ==
  IF \E n \in DOMAIN merged : merged[n].url = r.url
    THEN [n \in DOMAIN merged |->
            IF merged[n].url = r.url
              THEN [merged[n] EXCEPT !.providers = @ \cup r.providers] ELSE merged[n]]
    ELSE Append(merged, r)

Place(u) == CHOOSE n \in DOMAIN ask.urls : ask.urls[n] = u

\* The results in the order found, each URL where it was found first.
Merged(found) ==
  LET merged[n \in 0..Len(found)] ==
        IF n = 0 THEN <<>> ELSE Merge(merged[n - 1], found[n])
  IN merged[Len(found)]

\* mergeExtractResults: the results of all executions, in the order requested.
MergedResults ==
  LET merged == Merged(FlattenSeq([i \in DOMAIN execs |-> execs[i].results]))
  IN SortedBy(merged, [n \in DOMAIN merged |-> Place(merged[n].url)])

\* aggregateExtractFailure: who reported the failure of a URL, or failed as such.
Culprits(u) == {i \in DOMAIN execs : u \in execs[i].failures \/ execs[i].error}

Failed(results) ==
  LET missing == Among(ask.urls, {u \in Urls : \A n \in DOMAIN results : results[n].url # u})
  IN [n \in DOMAIN missing |-> [url |-> missing[n], providers |-> Culprits(missing[n])]]

Cut(results, cap) == [n \in DOMAIN results |-> [results[n] EXCEPT !.size = Smaller(@, cap)]]
Content(results) == Total([n \in DOMAIN results |-> results[n].size])

\* A faulty variant: every result gets the same share, used or not.
EqualShare(results) == MaxContent \div Len(results)

Longest(results) == Max({results[n].size : n \in DOMAIN results})

\* One turn of the search, between a cap that fits and those that do not.
Narrowed(results, range) ==
  LET candidate == range.low + (range.high - range.low + 1) \div 2
  IN IF range.low >= range.high THEN range
     ELSE IF Content(Cut(results, candidate)) <= MaxContent
            THEN [low |-> candidate, high |-> range.high]
            ELSE [low |-> range.low, high |-> candidate - 1]

\* boundExtractMergedResults: a binary search, with turns to spare, for the largest
\* cap under which all contents fit.
Share(results) ==
  LET range[n \in 0..Longest(results)] ==
        IF n = 0 THEN [low |-> 0, high |-> Longest(results)]
        ELSE Narrowed(results, range[n - 1])
  IN range[Longest(results)].low

BoundMerged(results) ==
  IF results = <<>> \/ Content(results) <= MaxContent THEN results
  ELSE Cut(results, Share(results))

SizeIn(parts, part, p) == IF part \in parts THEN PartSize[part][p] ELSE 0

\* The JSON of a result of provider p, of which only some parts are left.
ResultSize(p, size, parts) ==
  Escaped[p] * size
    + SizeIn(parts, "title", p) + SizeIn(parts, "images", p) + SizeIn(parts, "raw", p)

\* extractResponseJSONSize.
JsonSize(results, parts) ==
  Envelope + Total([n \in DOMAIN results |->
                      ResultSize(ask.providers[results[n].owner], results[n].size, parts)])

\* The first of half the bound of one content, a quarter and so on under which the
\* JSON fits, or nothing.
HalvedCap(results) ==
  LET halves == {c \in 0..MaxResult : \E k \in 1..MaxResult : c = MaxResult \div 2^k}
      fitting == {c \in halves : JsonSize(Cut(results, c), {"title"}) <= MaxJSON}
  IN Max({0} \cup fitting)

\* The last resort: nothing is left of a result but its URL.
Compact(results) ==
  [results |-> [n \in DOMAIN results |->
                  [results[n] EXCEPT !.size = 0, !.providers = {}]],
   parts |-> {}]

Forms == {Parts, {"title", "images"}, {"title"}}

\* boundExtractResponse: raw items go first, then images, then contents are cut,
\* and where that does not help nothing is kept, whatever the size.
Bound(results) ==
  LET fitting == {parts \in Forms : JsonSize(results, parts) <= MaxJSON}
      halved == Cut(results, HalvedCap(results))
  IN CASE fitting # {} -> [results |-> results, parts |-> UNION fitting]
       [] fitting = {} /\ JsonSize(halved, {"title"}) <= MaxJSON ->
            [results |-> halved, parts |-> {"title"}]
       [] OTHER -> Compact(results)

-----------------------------------------------------------------------------
ExtractInit ==
  /\ at = "idle"
  /\ ask = NoRequest
  /\ lookups = {}
  /\ budget = 0
  /\ execs = <<>>
  /\ brought = {}
  /\ response = NoResponse

\* applyExtractDefaults: the URLs without duplicates, the enabled providers as
\* named or routed; then the hosts are looked up, unless they are addresses.
BeginExtract(r, mode) ==
  /\ at = "idle"
  /\ at' = "validating"
  /\ \E order \in Routes(Distinct(r.names)) :
       ask' = [mode |-> mode, urls |-> Distinct(r.urls), window |-> r.window,
               providers |-> Among(order, Enabled)]
  /\ lookups' = {Host[u] : u \in ToSet(r.urls)} \ {Literal}
  /\ UNCHANGED <<budget, execs, brought, response>>

\* A host has only public addresses.
HostResolved(h) ==
  /\ at = "validating"
  /\ h \in lookups
  /\ lookups' = lookups \ {h}
  /\ UNCHANGED <<at, ask, budget, execs, brought, response>>

\* A host has none, a private one, or is not found in three seconds.
HostRefused ==
  /\ at = "validating"
  /\ lookups # {}
  /\ at' = "refused"
  /\ lookups' = {}
  /\ UNCHANGED <<ask, budget, execs, brought, response>>

\* All hosts are fine; the time of the extraction begins.
ExecuteExtract ==
  /\ at = "validating"
  /\ lookups = {}
  /\ at' = "running"
  /\ budget' = RequestBudget(ask)
  /\ execs' = [i \in DOMAIN ask.providers |-> Unasked]
  /\ UNCHANGED <<ask, lookups, brought, response>>

CallTime(p) == Smaller(TimeLimit(ask, p), budget)

BeginCall(i) ==
  /\ Running
  /\ Due(i)
  /\ budget > 0
  /\ execs' = [execs EXCEPT ![i].step = "calling", ![i].attempt = @ + 1,
                            ![i].left = CallTime(ask.providers[i])]
  /\ UNCHANGED <<at, ask, lookups, budget, brought, response>>

\* A faulty variant: the results of earlier batches go with the error.
FailedWithout(e, attempt) ==
  [e EXCEPT !.step = "settled", !.attempt = 0, !.left = 0, !.error = TRUE,
            !.results = <<>>, !.attempts = Append(@, attempt)]

\* An execution ends with an error; what earlier batches brought is kept.
FailedWith(e, attempt) ==
  [e EXCEPT !.step = "settled", !.attempt = 0, !.left = 0, !.error = TRUE,
            !.attempts = Append(@, attempt)]

\* No adapter, no key or no time left.
FailAcquire(i) ==
  /\ Running
  /\ Due(i)
  /\ execs' = [execs EXCEPT ![i] = FailedWith(@, "failed")]
  /\ UNCHANGED <<at, ask, lookups, budget, brought, response>>

\* A call is answered with items and failures; the next batch is due, if any.
AnswerCall(i, items, failed) ==
  /\ Running
  /\ Calling(i)
  /\ execs' = [execs EXCEPT ![i] =
                 [step |-> IF @.batch < Batches(i) THEN "due" ELSE "settled",
                  batch |-> IF @.batch < Batches(i) THEN @.batch + 1 ELSE @.batch,
                  attempt |-> 0, left |-> 0, error |-> FALSE,
                  results |-> @.results \o ResultsIn(i, items),
                  failures |-> @.failures \cup FailuresIn(i, items, failed),
                  attempts |-> Append(@.attempts, "success")]]
  /\ brought' = brought \cup {<<i, Correlate(items[n].url, Batch(i))>> :
                                n \in {m \in DOMAIN items :
                                         /\ items[m].content
                                         /\ Correlate(items[m].url, Batch(i)) # Other}}
  /\ UNCHANGED <<at, ask, lookups, budget, response>>

\* A faulty variant: one retry more than configured.
MayRetryOnceMore(i) == execs[i].attempt <= KeyRetryCount[ask.providers[i]] + 1

MayRetry(i) == execs[i].attempt < KeyRetryCount[ask.providers[i]] + 1

\* The batch is due once more, with another key.
Repeated(e) == [e EXCEPT !.step = "due", !.left = 0, !.attempts = Append(@, "retried")]

\* A call fails, at its deadline with a timeout; it is retried if its error is of
\* those to retry and attempts are left.
FailCall(i, retryable) ==
  /\ Running
  /\ Calling(i)
  /\ execs' = [execs EXCEPT ![i] =
                 IF retryable /\ MayRetry(i) THEN Repeated(@) ELSE FailedWith(@, "failed")]
  /\ UNCHANGED <<at, ask, lookups, budget, brought, response>>

\* What may come of it when all executions are over: merged, bound, and with what the
\* caller is told; the log may be lost, and the time expire while it is written.
Responses ==
  LET results == BoundMerged(MergedResults)
      bounded == Bound(results)
      failed == Failed(results)
      systemic == \A i \in DOMAIN execs : execs[i].step = "settled" => execs[i].error
  IN {[results |-> bounded.results, parts |-> bounded.parts, failed |-> failed,
       logged |-> logged,
       told |-> IF ~logged \/ (results = <<>> /\ (expired \/ systemic))
                  THEN "error" ELSE "success"] :
        logged \in BOOLEAN, expired \in {budget = 0, TRUE}}

EndExtract ==
  /\ Running
  /\ \A i \in DOMAIN execs : ~Due(i) /\ ~Calling(i)
  /\ at' = "answered"
  /\ response' \in Responses
  /\ execs' = <<>>
  /\ UNCHANGED <<ask, lookups, budget, brought>>

\* The handler writes the response or, if it is told an error, only that; the next
\* request may come.
EndRequest ==
  /\ at \in {"answered", "refused"}
  /\ at' = "idle"
  /\ ask' = NoRequest
  /\ budget' = 0
  /\ execs' = <<>>
  /\ brought' = {}
  /\ response' = NoResponse
  /\ UNCHANGED lookups

\* The caller goes away: the context of its request, and of every call, is over.
Leave ==
  /\ at = "running"
  /\ at' = "abandoned"
  /\ budget' = 0
  /\ execs' = [i \in DOMAIN execs |-> [execs[i] EXCEPT !.left = 0]]
  /\ UNCHANGED <<ask, lookups, brought, response>>

\* Time passes while calls are awaited that have time to.
ExtractTick ==
  /\ Running
  /\ \E i \in DOMAIN execs : Calling(i)
  /\ \A i \in DOMAIN execs : ~Due(i) /\ (Calling(i) => execs[i].left > 0)
  /\ budget' = budget - 1
  /\ execs' = [i \in DOMAIN execs |-> [execs[i] EXCEPT !.left = Larger(0, @ - 1)]]
  /\ UNCHANGED <<at, ask, lookups, brought, response>>

\* What an upstream may bring: pages asked for or not, with content or without.
ItemsFor(i) ==
  UNION {[1..n -> [url : ToSet(Batch(i)) \cup {Other}, content : BOOLEAN]] : n \in 0..MaxItems}

ProviderStep(i) ==
  \/ BeginCall(i)
  \/ FailAcquire(i)
  \/ /\ Calling(i)
     /\ \E items \in ItemsFor(i), failed \in SUBSET ToSet(Batch(i)) : AnswerCall(i, items, failed)
  \/ \E retryable \in BOOLEAN : FailCall(i, retryable)

ExtractStep ==
  \/ \E h \in lookups : HostResolved(h)
  \/ HostRefused
  \/ ExecuteExtract
  \/ \E i \in DOMAIN execs : ProviderStep(i)
  \/ EndExtract
  \/ EndRequest

ExtractNext ==
  \/ \E r \in Extractions, mode \in Modes : BeginExtract(r, mode)
  \/ ExtractStep
  \/ Leave
  \/ ExtractTick

ExtractSpec == ExtractInit /\ [][ExtractNext]_extractVars

-----------------------------------------------------------------------------
(* Properties. *)

ExecutionOK(i) ==
  LET e == execs[i] IN
  /\ e.step \in {"unasked", "due", "calling", "settled"}
  /\ e.batch \in 1..Larger(1, Batches(i))
  /\ e.attempt \in 0..(KeyRetryCount[ask.providers[i]] + 1)
  /\ e.left \in 0..budget
  /\ Len(e.attempts) <= Len(ask.urls) * (KeyRetryCount[ask.providers[i]] + 1)

\* Every variable has its type; no URL is called for more often than the retries
\* allow, and no call is given more time than the extraction has left.
ExtractTypeOK ==
  /\ at \in {"idle", "validating", "refused", "running", "abandoned", "answered"}
  /\ ask.mode \in Modes \cup {"none"}
  /\ ask.urls \in Seq(Urls) /\ ask.providers \in Seq(Enabled) /\ ask.window \in Nat
  /\ lookups \subseteq {Host[u] : u \in Urls} \ {Literal}
  /\ budget \in Nat
  /\ execs # <<>> => DOMAIN execs = DOMAIN ask.providers
  /\ \A i \in DOMAIN execs : ExecutionOK(i)
  /\ brought \subseteq (DOMAIN ask.providers) \X ToSet(ask.urls)
  /\ response.told \in {"none", "success", "error"}
  /\ response.parts \subseteq Parts /\ response.logged \in BOOLEAN

BroughtBy(u) == {i \in DOMAIN ask.providers : <<i, u>> \in brought}

\* The response has every URL asked for exactly once, in the order asked: with the
\* content of the first provider that brought one and, unless they had to go with
\* everything else, the names of all that did, whatever failed later, or as a failure.
\* It is given out only if the log was written, and once a content was brought nothing
\* but a lost log puts an error in its place.
EveryUrlAnswered ==
  LET results == response.results IN
  at = "answered" =>
    /\ [n \in DOMAIN results |-> results[n].url]
         = Among(ask.urls, {u \in Urls : BroughtBy(u) # {}})
    /\ [n \in DOMAIN response.failed |-> response.failed[n].url]
         = Among(ask.urls, {u \in Urls : BroughtBy(u) = {}})
    /\ \A n \in DOMAIN results :
         /\ response.parts # {} => results[n].providers = BroughtBy(results[n].url)
         /\ results[n].owner = Min(BroughtBy(results[n].url))
    /\ response.told = "success" => response.logged
    /\ (brought # {} /\ response.logged) => response.told = "success"

\* In fallback mode no provider is called for a URL another has brought.
OnlyUnresolvedAsked ==
  \A i \in DOMAIN execs :
    (ask.mode = "fallback" /\ Calling(i)) => \A u \in ToSet(Batch(i)) : BroughtBy(u) = {}

Whole(r) == Smaller(Size[ask.providers[r.owner]], MaxResult)

\* The response keeps its bounds at no more cost than necessary.  Contents are cut
\* only if they are too large, all to the same size, and to the largest with which
\* they fit together, unless their JSON is too large even then.  Raw items and images
\* go only if they do not fit beside these contents.  And everything goes, the one case
\* whose size is not checked again, only if even results without contents do not fit.
ResponseBounded ==
  LET results == response.results
      uncut == [n \in DOMAIN results |-> [results[n] EXCEPT !.size = Whole(results[n])]]
      cap == Max({c \in 0..MaxResult : Content(Cut(uncut, c)) <= MaxContent})
      Fit(c, parts) == JsonSize(Cut(uncut, c), parts) <= MaxJSON
  IN at = "answered" =>
       /\ Content(results) <= MaxContent
       /\ response.parts # {} => JsonSize(results, response.parts) <= MaxJSON
       /\ IF Fit(cap, {"title"}) THEN results = Cut(uncut, cap)
            ELSE \E c \in 0..cap : results = Cut(uncut, c)
       /\ \A parts \in Forms : Fit(cap, parts) => parts \subseteq response.parts
       /\ response.parts = {} => ~Fit(0, {"title"})

Retried == \E i \in DOMAIN execs : "retried" \in ToSet(execs[i].attempts)

\* The time of an extraction suffices for every URL at every provider: as long as
\* no call was repeated and the caller set no limit, whoever is due has all the time
\* before it that a call of its provider may take.
WindowKept ==
  (at = "running" /\ ask.window = 0 /\ ~Retried) =>
    \A i \in DOMAIN execs : Due(i) => budget >= TimeLimit(ask, ask.providers[i])
===========================================================================
