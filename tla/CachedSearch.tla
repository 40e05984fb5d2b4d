---------------------------- MODULE CachedSearch ----------------------------
(***************************************************************************)
(* Orchestrator.Search for one cache key, over the key pool of its one     *)
(* provider: the search cache, the coalescing of concurrent searches       *)
(* (singleflight) and the log every caller writes for itself.              *)
(*                                                                         *)
(* A request of KeyPool is here a caller of Search.  Callers that run the  *)
(* search themselves (the leader of a flight, and those that bypass the    *)
(* cache) take the steps of KeyPool; the others wait for the flight they   *)
(* joined and then log the calls of its leader as their own.               *)
(***************************************************************************)
EXTENDS KeyPool

CONSTANTS
  Policies,    \* the cache policies of the searches that come in
  MaxVersion   \* bound of the runs: versions of what the upstream finds

ASSUME PoliciesAssumption == Policies \subseteq {"default", "refresh", "bypass"}
ASSUME VersionAssumption == MaxVersion \in Nat \ {0}

VARIABLES
  role,     \* what each caller is doing in Search
  result,   \* the version a caller's own calls brought (0: none)
  copies,   \* the calls a follower was handed and logs
  cache,    \* the row of search_cache: its version (0: no row), expired or not
  world,    \* the version the upstream would find now
  real      \* history: calls of a key in the logs of those who made them

search == <<role, result, copies, cache, world, real>>
allVars == <<vars, search>>

Roles == {"none", "reading", "entering", "leading", "stored", "waiting",
          "answering", "copying", "logging", "alone"}
Leaders == {p \in Requests : role[p] \in {"leading", "stored"}}

-----------------------------------------------------------------------------
InitSearch ==
  /\ Init
  /\ role = [p \in Requests |-> "none"]
  /\ result = [p \in Requests |-> 0]
  /\ copies = [p \in Requests |-> <<>>]
  /\ cache = [version |-> 0, expired |-> FALSE]
  /\ world = 1
  /\ real = [k \in Keys |-> 0]

Become(p, r) == role' = [role EXCEPT ![p] = r]

\* A search comes in: the default policy reads the cache, "refresh" does not,
\* "bypass" neither reads nor writes it and is not coalesced.
StartSearch(p, policy) ==
  /\ pc[p] = "idle"
  /\ role[p] = "none"
  /\ Become(p, CASE policy = "default" -> "reading"
                 [] policy = "refresh" -> "entering"
                 [] policy = "bypass" -> "alone")
  /\ UNCHANGED <<vars, result, copies, cache, world, real>>

\* GetCache: a hit that has not expired answers (its log charges no key), a
\* failed statement is an error for the caller, a miss goes on.
ReadCache(p) ==
  /\ role[p] = "reading"
  /\ \/ Become(p, "none")
     \/ (cache.version = 0 \/ cache.expired) /\ Become(p, "entering")
  /\ UNCHANGED <<vars, result, copies, cache, world, real>>

\* A faulty variant: concurrent searches are not coalesced.
NeverJoins == FALSE

\* singleflight.Group.Do: whoever comes while a flight is open joins it.
Joins == Leaders # {}

EnterFlight(p) ==
  /\ role[p] = "entering"
  /\ Become(p, IF Joins THEN "waiting" ELSE "leading")
  /\ UNCHANGED <<vars, result, copies, cache, world, real>>

\* callProvider: the steps of KeyPool up to the release of the key, for another
\* key only while no call succeeded.
CallStep(p) ==
  /\ role[p] \in {"leading", "alone"}
  /\ \/ result[p] = 0 /\ \E admitted \in SUBSET Keys : ListKeys(p, admitted)
     \/ result[p] = 0 /\ AbandonAcquire(p)
     \/ \E k \in Keys, skipped \in SUBSET Keys : Reserve(p, k, skipped)
     \/ Refuse(p)
  /\ UNCHANGED search

\* The upstream answers, or fails.
FinishCall(p) ==
  /\ Release(p)
  /\ result' = [result EXCEPT ![p] = world]
  /\ UNCHANGED <<role, copies, cache, world, real>>

FailCall(p) ==
  /\ Release(p)
  /\ UNCHANGED search

\* SetCache, inside the flight.  Its error is ignored.
StoreResult(p) ==
  /\ role[p] = "leading"
  /\ result[p] # 0
  /\ pc[p] = "between"
  /\ Become(p, "stored")
  /\ \/ cache' = [version |-> result[p], expired |-> FALSE]
     \/ UNCHANGED cache
  /\ UNCHANGED <<vars, result, copies, world, real>>

\* A faulty variant: the path of a failed search leaves the flight open.
FlightEndsOnSuccess(p) == role[p] = "stored"

\* The function of a flight returns: the result is stored, or no call succeeded.
FlightEnds(p) ==
  \/ role[p] = "stored"
  \/ role[p] = "leading" /\ result[p] = 0 /\ pc[p] \in {"between", "closing"}

\* The flight is over: the leader and all who joined have its outcome, the calls
\* of the leader included.
EndFlight(p) ==
  /\ FlightEnds(p)
  /\ role' = [q \in Requests |-> IF q = p THEN "answering"
                                 ELSE IF role[q] = "waiting" THEN "copying"
                                 ELSE role[q]]
  /\ copies' = [q \in Requests |-> IF role[q] = "waiting" THEN attempts[p]
                                   ELSE copies[q]]
  /\ UNCHANGED <<vars, result, cache, world, real>>

\* The caller who ran the search logs it.
BeginOwnLog(p) ==
  /\ role[p] \in {"answering", "alone"}
  /\ BeginLog(p)
  /\ UNCHANGED search

CommitOwnLog(p) ==
  /\ CommitLog(p)
  /\ Become(p, "none")
  /\ result' = [result EXCEPT ![p] = 0]
  /\ real' = [k \in Keys |-> real[k] + Cardinality(CallsOf(p, k))]
  /\ UNCHANGED <<copies, cache, world>>

LoseOwnLog(p) ==
  /\ LoseLog(p)
  /\ Become(p, "none")
  /\ result' = [result EXCEPT ![p] = 0]
  /\ UNCHANGED <<copies, cache, world, real>>

\* So does every caller who joined, with the same calls (callLogs).
BeginCopiedLog(q) ==
  /\ role[q] = "copying"
  /\ Become(q, "logging")
  /\ logPeriod' = [logPeriod EXCEPT ![q] = period]
  /\ UNCHANGED <<memory, database, pc, rows, attempts, lost>>
  /\ UNCHANGED <<result, copies, cache, world, real>>

CopiesOf(q, k) == Cardinality({i \in DOMAIN copies[q] : copies[q][i] = k})

CopyLogged(q) ==
  /\ Become(q, "none")
  /\ copies' = [copies EXCEPT ![q] = <<>>]
  /\ logPeriod' = [logPeriod EXCEPT ![q] = NoPeriod]
  /\ UNCHANGED <<memory, period, pc, rows, attempts, lost>>
  /\ UNCHANGED <<result, cache, world, real>>

CommitCopiedLog(q) ==
  /\ role[q] = "logging"
  /\ total' = [k \in Keys |-> total[k] + CopiesOf(q, k)]
  /\ used' = [k \in Keys |-> [c \in Cycles |->
                IF logPeriod[q][c] = period[c]
                  THEN used[k][c] + CopiesOf(q, k) ELSE used[k][c]]]
  /\ CopyLogged(q)

LoseCopiedLog(q) ==
  /\ role[q] = "logging"
  /\ CopyLogged(q)
  /\ UNCHANGED <<total, used>>

\* What goes on beside the searches: the row of the cache expires, the web
\* changes, time passes.
CacheExpires ==
  /\ cache.version # 0 /\ ~cache.expired
  /\ cache' = [cache EXCEPT !.expired = TRUE]
  /\ UNCHANGED <<vars, role, result, copies, world, real>>

WorldChanges ==
  /\ world < MaxVersion
  /\ world' = world + 1
  /\ UNCHANGED <<vars, role, result, copies, cache, real>>

TimeStep ==
  /\ \/ \E k \in Keys : AgeReservations(k) \/ MinutePasses(k)
     \/ \E cycles \in Rollovers : Rollover(cycles)
  /\ UNCHANGED search

RestartSearch ==
  /\ Restart
  /\ role' = [p \in Requests |-> "none"]
  /\ result' = [p \in Requests |-> 0]
  /\ copies' = [p \in Requests |-> <<>>]
  /\ UNCHANGED <<cache, world, real>>

NextSearch ==
  \/ \E p \in Requests :
       \/ \E policy \in Policies : StartSearch(p, policy)
       \/ ReadCache(p)
       \/ EnterFlight(p)
       \/ CallStep(p)
       \/ FinishCall(p)
       \/ FailCall(p)
       \/ StoreResult(p)
       \/ EndFlight(p)
       \/ BeginOwnLog(p)
       \/ CommitOwnLog(p)
       \/ LoseOwnLog(p)
       \/ BeginCopiedLog(p)
       \/ CommitCopiedLog(p)
       \/ LoseCopiedLog(p)
  \/ CacheExpires
  \/ WorldChanges
  \/ TimeStep
  \/ RestartSearch

SpecSearch == InitSearch /\ [][NextSearch]_allVars

\* What every caller does to get on; its deadlines see to it that each of these
\* steps ends.
SearchStep(p) ==
  \/ ReadCache(p) \/ EnterFlight(p) \/ CallStep(p)
  \/ FinishCall(p) \/ FailCall(p) \/ StoreResult(p) \/ EndFlight(p)
  \/ BeginOwnLog(p) \/ CommitOwnLog(p) \/ LoseOwnLog(p)
  \/ BeginCopiedLog(p) \/ CommitCopiedLog(p) \/ LoseCopiedLog(p)

FairSearch == SpecSearch /\ \A p \in Requests : WF_allVars(SearchStep(p))

-----------------------------------------------------------------------------
(* Properties. *)

\* Every variable has its type, at most one flight is open, whoever waits has a
\* flight to wait for, and only callers that run the search are in KeyPool.
SearchTypeOK ==
  /\ role \in [Requests -> Roles]
  /\ result \in [Requests -> 0..MaxVersion]
  /\ copies \in [Requests -> Seq(Keys)]
  /\ cache \in [version : 0..MaxVersion, expired : BOOLEAN]
  /\ world \in 1..MaxVersion
  /\ real \in [Keys -> Nat]
  /\ Cardinality(Leaders) <= 1
  /\ (\E q \in Requests : role[q] = "waiting") => Leaders # {}
  /\ \A p \in Busy : role[p] \in {"leading", "stored", "answering", "alone"}

\* However many callers log the calls of a flight, the manager forgets no call
\* that was made: what it has seen and holds in reserve covers every call that
\* its maker has logged, has still to log, or failed to log.
EveryCallCovered ==
  \A k \in Keys :
    keyStates[k].usageInitialized =>
      keyStates[k].usageObserved + keyStates[k].pendingReservations
        >= real[k] + Cardinality(Outstanding(k)) + lost[k]

\* Within the first day the upstream serves no more calls on a key than its quota
\* (those aside whose log was lost): the calls that followers log over again use
\* the quota up, but never stretch it.
ServedWithinQuota ==
  \A k \in Keys, c \in Cycles :
    (Quota[k][c] > 0 /\ period[c] = 1) =>
      real[k] + Cardinality(Outstanding(k)) <= Quota[k][c]

\* A row of the cache never gives way to an older result: flights of one cache
\* key follow one another, and each stores its result before it ends.
CacheMovesForward == [][cache'.version >= cache.version]_allVars

\* No caller waits for ever for the flight it joined: unless the process
\* restarts, it gets the outcome, and its log is written or given up.
FollowersAnswered ==
  \A q \in Requests : role[q] = "waiting" ~> role[q] = "none"

\* "its usage log can still be pending.  Keep the reservation until a later
\* database snapshot accounts for it" (reserveQuota): every call that is not
\* logged yet has its reservation.  The code does not keep this: the log of a
\* follower, for the same call, takes the reservation of the call itself.
ReservationKept ==
  \A k \in Keys :
    keyStates[k].pendingReservations >= Cardinality(Outstanding(k))
=============================================================================
