-------------------------- MODULE CachedSearchProofs --------------------------
(***************************************************************************)
(* Proofs about CachedSearch, for every number of callers, keys and        *)
(* versions: the types and the one flight, the cache that only moves       *)
(* forward, the limits of concurrency, and that the logs the followers     *)
(* write over again never make the manager forget a call that was made,    *)
(* nor let one more be made than the quota of a first period has room for. *)
(***************************************************************************)
EXTENDS CachedSearch, KeyPoolProofs

(***************************************************************************)
(* The steps of a search, and those of the key pool.                       *)
(***************************************************************************)

CopyStep(q) == BeginCopiedLog(q) \/ CommitCopiedLog(q) \/ LoseCopiedLog(q)

\* What a caller does without the key pool.
CacheStep(p) ==
  \/ \E policy \in Policies : StartSearch(p, policy)
  \/ ReadCache(p) \/ EnterFlight(p) \/ StoreResult(p) \/ EndFlight(p)

\* Every step of a search is a step of the key pool, leaves the pool alone, or is
\* part of the log of a follower.
LEMMA PoolStep ==
  ASSUME [NextSearch]_allVars
  PROVE  [Next]_vars \/ \E q \in Requests : CopyStep(q)
<1>1. ASSUME NEW p \in Requests, CallStep(p) PROVE Next
  BY <1>1 DEF CallStep, Next
<1>2. ASSUME NEW p \in Requests,
             \/ FinishCall(p) \/ FailCall(p)
             \/ BeginOwnLog(p) \/ CommitOwnLog(p) \/ LoseOwnLog(p)
      PROVE  Next
  BY <1>2 DEF FinishCall, FailCall, BeginOwnLog, CommitOwnLog, LoseOwnLog, Next
<1>3. ASSUME NEW p \in Requests, CacheStep(p) PROVE UNCHANGED vars
  BY <1>3 DEF CacheStep, StartSearch, ReadCache, EnterFlight, StoreResult, EndFlight
<1>4. ASSUME CacheExpires \/ WorldChanges PROVE UNCHANGED vars
  BY <1>4 DEF CacheExpires, WorldChanges
<1>5. ASSUME TimeStep \/ RestartSearch PROVE Next
  BY <1>5 DEF TimeStep, RestartSearch, Next
<1>6. ASSUME UNCHANGED allVars PROVE UNCHANGED vars
  BY <1>6 DEF allVars
<1>7. QED
  BY <1>1, <1>2, <1>3, <1>4, <1>5, <1>6 DEF NextSearch, CacheStep, CopyStep

\* The calls a follower logs can be counted.
LEMMA CopiesCounted ==
  ASSUME copies \in [Requests -> Seq(Keys)], NEW q \in Requests, NEW k
  PROVE  CopiesOf(q, k) \in Nat
<1>1. DOMAIN copies[q] = 1..Len(copies[q]) /\ Len(copies[q]) \in Nat
  <2>1. copies[q] \in Seq(Keys)
    OBVIOUS
  <2>2. QED
    BY <2>1
<1>2. IsFiniteSet(DOMAIN copies[q])
  BY <1>1, FS_Interval
<1>3. IsFiniteSet({i \in DOMAIN copies[q] : copies[q][i] = k})
  BY <1>2, FS_Subset
<1>4. QED
  BY <1>3, FS_CardinalityType DEF CopiesOf

\* The key pool keeps its types, with the logs of followers too.
LEMMA PoolTypeStep ==
  ASSUME TypeInv, copies \in [Requests -> Seq(Keys)], [NextSearch]_allVars
  PROVE  TypeInv'
<1>1. CASE [Next]_vars
  BY <1>1, TypeStep
<1>2. ASSUME NEW q \in Requests, BeginCopiedLog(q) PROVE TypeInv'
  BY <1>2 DEF BeginCopiedLog, TypeInv, TypeOK, Phases, memory, database, InCall
<1>3. ASSUME NEW q \in Requests, CommitCopiedLog(q) \/ LoseCopiedLog(q)
      PROVE  TypeInv'
  <2>1. /\ total' \in [Keys -> Nat]
        /\ used' \in [Keys -> [Cycles -> Nat]]
    <3>1. \A k \in Keys : CopiesOf(q, k) \in Nat
      BY CopiesCounted
    <3>2. CASE CommitCopiedLog(q)
      BY <3>1, <3>2 DEF CommitCopiedLog, TypeInv, TypeOK
    <3>3. CASE LoseCopiedLog(q)
      BY <3>3 DEF LoseCopiedLog, TypeInv, TypeOK
    <3>4. QED
      BY <1>3, <3>2, <3>3
  <2>2. /\ UNCHANGED <<keyStates, providerActive, pendingAge, present, period>>
        /\ UNCHANGED <<pc, rows, attempts, lost>>
        /\ logPeriod' = [logPeriod EXCEPT ![q] = NoPeriod]
    BY <1>3 DEF CommitCopiedLog, LoseCopiedLog, CopyLogged, memory
  <2>3. logPeriod' \in [Requests -> [Cycles -> Nat]]
    BY <2>2 DEF TypeInv, TypeOK, NoPeriod
  <2>4. QED
    BY <2>1, <2>2, <2>3 DEF TypeInv, TypeOK, Phases, InCall
<1>4. QED
  BY <1>1, <1>2, <1>3, PoolStep DEF CopyStep

(***************************************************************************)
(* Types, and the one flight.                                              *)
(***************************************************************************)

\* The roles of those who run a search themselves, or have just done so.
Running == {"leading", "stored", "answering", "alone"}

SearchTypes ==
  /\ role \in [Requests -> Roles]
  /\ result \in [Requests -> 0..MaxVersion]
  /\ copies \in [Requests -> Seq(Keys)]
  /\ cache \in [version : 0..MaxVersion, expired : BOOLEAN]
  /\ world \in 1..MaxVersion
  /\ real \in [Keys -> Nat]

\* One flight is open at most, those who wait have one to wait for, and a flight is
\* not logged before it is over.
OneFlight ==
  /\ \A p, q \in Leaders : p = q
  /\ (\E q \in Requests : role[q] = "waiting") => Leaders # {}
  /\ \A p \in Requests : pc[p] # "idle" => role[p] \in Running
  /\ \A p \in Requests : pc[p] = "logging" => role[p] \in {"answering", "alone"}

\* No result is newer than the web, and what a flight has found is not older than
\* the row it will replace.
ResultsInOrder ==
  /\ \A p \in Requests : role[p] \notin Running => result[p] = 0
  /\ \A p \in Requests : result[p] <= world
  /\ \A p \in Requests :
       role[p] = "leading" /\ result[p] # 0 => cache.version <= result[p]
  /\ cache.version <= world

FlightInv == TypeInv /\ SearchTypes /\ OneFlight /\ ResultsInOrder

\* No search has come in at first.
LEMMA FlightInit == InitSearch => FlightInv
<1> SUFFICES ASSUME InitSearch PROVE FlightInv
  OBVIOUS
<1>1. TypeInv
  BY TypeInit DEF InitSearch
<1>2. SearchTypes
  BY VersionAssumption DEF InitSearch, SearchTypes, Roles
<1>3. Leaders = {} /\ \A p \in Requests : pc[p] = "idle"
  BY DEF InitSearch, Init, Leaders
<1>4. OneFlight
  BY <1>3 DEF InitSearch, OneFlight
<1>5. ResultsInOrder
  BY DEF InitSearch, ResultsInOrder
<1>6. QED
  BY <1>1, <1>2, <1>4, <1>5 DEF FlightInv

\* The steps of a caller before it runs a search.
LEMMA EntryKeepsFlight ==
  ASSUME FlightInv, NEW p \in Requests,
         \/ \E policy \in Policies : StartSearch(p, policy)
         \/ ReadCache(p) \/ EnterFlight(p)
  PROVE  SearchTypes' /\ OneFlight' /\ ResultsInOrder'
<1>1. /\ role[p] \in {"none", "reading", "entering"}
      /\ UNCHANGED <<pc, result, copies, cache, world, real>>
  BY DEF StartSearch, ReadCache, EnterFlight, vars, requests
<1>2. PICK r \in {"none", "reading", "entering", "waiting", "leading", "alone"} :
        /\ role' = [role EXCEPT ![p] = r]
        /\ r = "leading" => Leaders = {}
        /\ r = "waiting" => Leaders # {}
  <2>1. ASSUME NEW policy \in Policies, StartSearch(p, policy)
        PROVE  \E r \in {"reading", "entering", "alone"} :
                 role' = [role EXCEPT ![p] = r]
    <3>1. policy = "default" \/ policy = "refresh" \/ policy = "bypass"
      BY PoliciesAssumption
    <3>2. QED
      BY <2>1, <3>1 DEF StartSearch, Become
  <2>2. CASE ReadCache(p)
    BY <2>2 DEF ReadCache, Become
  <2>3. CASE EnterFlight(p)
    BY <2>3 DEF EnterFlight, Become, Joins
  <2>4. QED
    BY <2>1, <2>2, <2>3
<1>3. /\ p \notin Leaders
      /\ pc[p] = "idle"
      /\ result[p] = 0
  BY <1>1 DEF FlightInv, OneFlight, ResultsInOrder, Leaders, Running
<1>4. Leaders' = IF r = "leading" THEN {p} ELSE Leaders
  BY <1>1, <1>2, <1>3 DEF FlightInv, SearchTypes, Leaders
<1>5. SearchTypes'
  BY <1>1, <1>2 DEF FlightInv, SearchTypes, Roles
<1>6. OneFlight'
  BY <1>1, <1>2, <1>3, <1>4 DEF FlightInv, SearchTypes, OneFlight
<1>7. ResultsInOrder'
  BY <1>1, <1>2, <1>3 DEF FlightInv, SearchTypes, ResultsInOrder
<1>8. QED
  BY <1>5, <1>6, <1>7

\* The steps of a caller in the key pool, up to the release of its key.
LEMMA CallKeepsFlight ==
  ASSUME FlightInv, NEW p \in Requests, CallStep(p) \/ FailCall(p) \/ FinishCall(p)
  PROVE  SearchTypes' /\ OneFlight' /\ ResultsInOrder'
<1>1. /\ UNCHANGED <<role, copies, cache, world, real>>
      /\ \A q \in Requests : q # p => pc'[q] = pc[q]
      /\ pc'[p] # "logging"
      /\ role[p] \in Running
  <2>1. CASE CallStep(p)
    BY <2>1 DEF CallStep, search, ListKeys, AbandonAcquire, Reserve, Refuse,
                FlightInv, TypeInv, TypeOK, Running
  <2>2. CASE FailCall(p) \/ FinishCall(p)
    BY <2>2 DEF FailCall, FinishCall, Release, search, FlightInv, TypeInv, TypeOK,
                OneFlight
  <2>3. QED
    BY <2>1, <2>2
<1>2. \/ result' = result
      \/ result' = [result EXCEPT ![p] = world]
  BY DEF CallStep, FailCall, FinishCall, search
<1>3. SearchTypes'
  BY <1>1, <1>2 DEF FlightInv, SearchTypes
<1>4. OneFlight'
  BY <1>1 DEF FlightInv, OneFlight, Leaders
<1>5. ResultsInOrder'
  <2>1. world \in Nat /\ cache.version \in Nat
    BY VersionAssumption DEF FlightInv, SearchTypes
  <2>2. \A q \in Requests : result'[q] = result[q] \/ (q = p /\ result'[q] = world)
    BY <1>2 DEF FlightInv, SearchTypes
  <2>3. QED
    BY <1>1, <2>1, <2>2 DEF FlightInv, ResultsInOrder
<1>6. QED
  BY <1>3, <1>4, <1>5

\* The result of a flight is stored.
LEMMA StoreKeepsFlight ==
  ASSUME FlightInv, NEW p \in Requests, StoreResult(p)
  PROVE  SearchTypes' /\ OneFlight' /\ ResultsInOrder' /\ cache'.version >= cache.version
<1>1. /\ role[p] = "leading" /\ result[p] # 0 /\ pc[p] = "between"
      /\ role' = [role EXCEPT ![p] = "stored"]
      /\ UNCHANGED <<pc, result, copies, world, real>>
  BY DEF StoreResult, Become, vars, requests
<1>2. /\ result[p] \in 0..MaxVersion
      /\ cache.version \in 0..MaxVersion
      /\ cache.version <= result[p]
      /\ result[p] <= world
      /\ cache.version <= world
  BY <1>1 DEF FlightInv, SearchTypes, ResultsInOrder
<1>3. /\ cache' \in [version : 0..MaxVersion, expired : BOOLEAN]
      /\ cache'.version = result[p] \/ cache'.version = cache.version
  <2>1. CASE cache' = [version |-> result[p], expired |-> FALSE]
    BY <1>2, <2>1
  <2>2. CASE cache' = cache
    BY <2>2 DEF FlightInv, SearchTypes
  <2>3. QED
    BY <2>1, <2>2 DEF StoreResult
<1>4. Leaders' = Leaders /\ Leaders = {p}
  BY <1>1 DEF FlightInv, SearchTypes, OneFlight, Leaders
<1>5. SearchTypes'
  BY <1>1, <1>3 DEF FlightInv, SearchTypes, Roles
<1>6. OneFlight'
  BY <1>1, <1>4 DEF FlightInv, SearchTypes, OneFlight, Running
<1>7. ResultsInOrder'
  <2>1. \A q \in Requests : role'[q] # "leading"
    BY <1>1, <1>4 DEF FlightInv, SearchTypes, Leaders
  <2>2. QED
    BY <1>1, <1>2, <1>3, <2>1 DEF FlightInv, SearchTypes, ResultsInOrder, Running
<1>8. cache'.version >= cache.version
  BY <1>2, <1>3, VersionAssumption
<1>9. QED
  BY <1>5, <1>6, <1>7, <1>8

\* A flight ends for its leader and all who joined.
LEMMA EndKeepsFlight ==
  ASSUME FlightInv, NEW p \in Requests, EndFlight(p)
  PROVE  SearchTypes' /\ OneFlight' /\ ResultsInOrder'
<1>1. /\ p \in Leaders
      /\ UNCHANGED <<pc, attempts, result, cache, world, real>>
      /\ \A q \in Requests : role'[q] = IF q = p THEN "answering"
                                        ELSE IF role[q] = "waiting" THEN "copying"
                                        ELSE role[q]
      /\ role' \in [Requests -> Roles]
      /\ copies' \in [Requests -> Seq(Keys)]
  BY DEF EndFlight, FlightEnds, Leaders, vars, requests, FlightInv, SearchTypes, TypeInv,
         TypeOK, Roles
<1>2. Leaders' = {}
  BY <1>1 DEF FlightInv, OneFlight, Leaders
<1>3. SearchTypes'
  BY <1>1 DEF FlightInv, SearchTypes
<1>4. OneFlight'
  BY <1>1, <1>2 DEF FlightInv, OneFlight, Running, Leaders
<1>5. ResultsInOrder'
  BY <1>1 DEF FlightInv, ResultsInOrder, Running, Leaders
<1>6. QED
  BY <1>3, <1>4, <1>5

\* The log of whoever ran the search.
LEMMA OwnLogKeepsFlight ==
  ASSUME FlightInv, NEW p \in Requests,
         BeginOwnLog(p) \/ CommitOwnLog(p) \/ LoseOwnLog(p)
  PROVE  SearchTypes' /\ OneFlight' /\ ResultsInOrder'
<1>1. CASE BeginOwnLog(p)
  <2>1. /\ role[p] \in {"answering", "alone"}
        /\ UNCHANGED search
        /\ pc' = [pc EXCEPT ![p] = "logging"]
    BY <1>1 DEF BeginOwnLog, BeginLog
  <2>2. SearchTypes' /\ ResultsInOrder'
    BY <2>1 DEF FlightInv, SearchTypes, ResultsInOrder, search
  <2>3. OneFlight'
    BY <2>1 DEF FlightInv, OneFlight, search, Leaders, Running, TypeInv, TypeOK
  <2>4. QED
    BY <2>2, <2>3
<1>2. CASE CommitOwnLog(p) \/ LoseOwnLog(p)
  <2>1. /\ pc[p] = "logging"
        /\ pc' = [pc EXCEPT ![p] = "idle"]
        /\ role' = [role EXCEPT ![p] = "none"]
        /\ result' = [result EXCEPT ![p] = 0]
        /\ UNCHANGED <<copies, cache, world>>
    BY <1>2 DEF CommitOwnLog, LoseOwnLog, CommitLog, LoseLog, Finished, Become
  <2>2. real' \in [Keys -> Nat]
    <3>1. \A k \in Keys : Cardinality(CallsOf(p, k)) \in Nat
      BY SlotsFinite
    <3>2. QED
      BY <1>2, <3>1 DEF CommitOwnLog, LoseOwnLog, FlightInv, SearchTypes
  <2>3. SearchTypes'
    BY <2>1, <2>2, VersionAssumption DEF FlightInv, SearchTypes, Roles
  <2>4. Leaders' = Leaders
    BY <2>1 DEF FlightInv, SearchTypes, OneFlight, Leaders
  <2>5. OneFlight'
    BY <2>1, <2>4 DEF FlightInv, SearchTypes, OneFlight, TypeInv, TypeOK
  <2>6. ResultsInOrder'
    BY <2>1 DEF FlightInv, SearchTypes, ResultsInOrder
  <2>7. QED
    BY <2>3, <2>5, <2>6
<1>3. QED
  BY <1>1, <1>2

\* The log of a follower.
LEMMA CopyKeepsFlight ==
  ASSUME FlightInv, NEW q \in Requests, CopyStep(q)
  PROVE  SearchTypes' /\ OneFlight' /\ ResultsInOrder'
<1>1. /\ role[q] \in {"copying", "logging"}
      /\ role' = [role EXCEPT ![q] = "logging"] \/ role' = [role EXCEPT ![q] = "none"]
      /\ copies' = copies \/ copies' = [copies EXCEPT ![q] = <<>>]
      /\ UNCHANGED <<pc, result, cache, world, real>>
  BY DEF CopyStep, BeginCopiedLog, CommitCopiedLog, LoseCopiedLog, CopyLogged, Become
<1>2. pc[q] = "idle" /\ result[q] = 0 /\ q \notin Leaders
  BY <1>1 DEF FlightInv, OneFlight, ResultsInOrder, Running, Leaders
<1>3. SearchTypes'
  <2>1. <<>> \in Seq(Keys)
    OBVIOUS
  <2>2. copies' \in [Requests -> Seq(Keys)]
    BY <1>1, <2>1 DEF FlightInv, SearchTypes
  <2>3. QED
    BY <1>1, <2>2 DEF FlightInv, SearchTypes, Roles
<1>4. Leaders' = Leaders
  BY <1>1, <1>2 DEF FlightInv, SearchTypes, Leaders
<1>5. OneFlight'
  BY <1>1, <1>2, <1>4, ZenonT(60) DEF FlightInv, SearchTypes, OneFlight
<1>6. ResultsInOrder'
  BY <1>1, <1>2 DEF FlightInv, SearchTypes, ResultsInOrder
<1>7. QED
  BY <1>3, <1>5, <1>6

\* What goes on beside the searches.
LEMMA WorldKeepsFlight ==
  ASSUME FlightInv, CacheExpires \/ WorldChanges \/ TimeStep \/ RestartSearch
  PROVE  SearchTypes' /\ OneFlight' /\ ResultsInOrder' /\ cache'.version = cache.version
<1>0. /\ world \in Nat /\ MaxVersion \in Nat
      /\ cache.version \in 0..MaxVersion
      /\ result \in [Requests -> 0..MaxVersion]
  BY VersionAssumption DEF FlightInv, SearchTypes
<1>1. CASE CacheExpires
  <2>1. /\ cache' \in [version : 0..MaxVersion, expired : BOOLEAN]
        /\ cache'.version = cache.version
        /\ UNCHANGED <<pc, role, result, copies, world, real>>
    BY <1>1 DEF CacheExpires, FlightInv, SearchTypes, vars, requests
  <2>2. QED
    BY <2>1 DEF FlightInv, SearchTypes, OneFlight, ResultsInOrder, Leaders
<1>2. CASE WorldChanges
  <2>1. /\ world' = world + 1 /\ world < MaxVersion
        /\ UNCHANGED <<pc, role, result, copies, cache, real>>
    BY <1>2 DEF WorldChanges, vars, requests
  <2>2. SearchTypes' /\ OneFlight'
    BY <1>0, <2>1 DEF FlightInv, SearchTypes, OneFlight, Leaders
  <2>3. ResultsInOrder'
    BY <1>0, <2>1 DEF FlightInv, ResultsInOrder
  <2>4. QED
    BY <2>1, <2>2, <2>3
<1>3. CASE TimeStep
  <2>1. UNCHANGED <<pc, role, result, copies, cache, world, real>>
    BY <1>3 DEF TimeStep, AgeReservations, MinutePasses, Rollover, search, requests
  <2>2. QED
    BY <2>1 DEF FlightInv, SearchTypes, OneFlight, ResultsInOrder, Leaders
<1>4. CASE RestartSearch
  <2>1. /\ pc' = [p \in Requests |-> "idle"]
        /\ role' = [p \in Requests |-> "none"]
        /\ result' = [p \in Requests |-> 0]
        /\ copies' = [p \in Requests |-> <<>>]
        /\ UNCHANGED <<cache, world, real>>
    BY <1>4 DEF RestartSearch, Restart
  <2>2. Leaders' = {}
    BY <2>1 DEF Leaders
  <2>3. SearchTypes'
    BY <2>1, VersionAssumption DEF FlightInv, SearchTypes, Roles
  <2>4. OneFlight'
    BY <2>1, <2>2 DEF OneFlight
  <2>5. ResultsInOrder'
    BY <1>0, <2>1 DEF FlightInv, ResultsInOrder
  <2>6. QED
    BY <2>1, <2>3, <2>4, <2>5
<1>5. QED
  BY <1>1, <1>2, <1>3, <1>4

\* Every step keeps the one flight.
LEMMA FlightStep == FlightInv /\ [NextSearch]_allVars => FlightInv'
<1> SUFFICES ASSUME FlightInv, [NextSearch]_allVars PROVE FlightInv'
  OBVIOUS
<1>1. TypeInv'
  BY PoolTypeStep DEF FlightInv, SearchTypes
<1>2. CASE UNCHANGED allVars
  BY <1>2, <1>1 DEF allVars, search, vars, requests, FlightInv, SearchTypes, OneFlight,
                    ResultsInOrder, Leaders
<1>3. CASE NextSearch
  BY <1>1, <1>3, EntryKeepsFlight, CallKeepsFlight, StoreKeepsFlight, EndKeepsFlight,
     OwnLogKeepsFlight, CopyKeepsFlight, WorldKeepsFlight
     DEF NextSearch, CopyStep, FlightInv
<1>4. QED
  BY <1>2, <1>3

\* FlightInv is an invariant of CachedSearch.
LEMMA FlightInvariant == SpecSearch => []FlightInv
BY FlightInit, FlightStep, PTL DEF SpecSearch

\* Every variable of a search keeps its type, and at most one flight is open for
\* the cache key (singleflight).
THEOREM SearchTypeCorrect == SpecSearch => []SearchTypeOK
<1>1. FlightInv => SearchTypeOK
  <2> SUFFICES ASSUME FlightInv PROVE SearchTypeOK
    OBVIOUS
  <2>1. Cardinality(Leaders) <= 1
    <3>1. CASE Leaders = {}
      BY <3>1, FS_EmptySet
    <3>2. CASE Leaders # {}
      <4>1. PICK p \in Leaders : Leaders = {p}
        BY <3>2 DEF FlightInv, OneFlight
      <4>2. Cardinality({p}) = 1
        BY FS_Singleton
      <4>3. QED
        BY <4>1, <4>2
    <3>3. QED
      BY <3>1, <3>2
  <2>2. QED
    BY <2>1 DEF FlightInv, SearchTypes, OneFlight, SearchTypeOK, Busy, Running
<1>2. QED
  BY <1>1, FlightInvariant, PTL

\* Only the end of a flight writes the row of the cache, and never with an older
\* result.
LEMMA ForwardSearchStep ==
  ASSUME FlightInv, [NextSearch]_allVars
  PROVE  cache'.version >= cache.version
<1>1. cache.version \in Nat
  BY VersionAssumption DEF FlightInv, SearchTypes
<1>2. ASSUME NEW p \in Requests, StoreResult(p) PROVE cache'.version >= cache.version
  BY <1>2, StoreKeepsFlight
<1>3. ASSUME CacheExpires \/ WorldChanges \/ TimeStep \/ RestartSearch
      PROVE  cache'.version = cache.version
  BY <1>3, WorldKeepsFlight
<1>4. ASSUME NEW p \in Requests,
             \/ \E policy \in Policies : StartSearch(p, policy)
             \/ ReadCache(p) \/ EnterFlight(p) \/ CallStep(p) \/ FinishCall(p)
             \/ FailCall(p) \/ EndFlight(p) \/ BeginOwnLog(p) \/ CommitOwnLog(p)
             \/ LoseOwnLog(p) \/ CopyStep(p)
      PROVE  cache' = cache
  BY <1>4 DEF StartSearch, ReadCache, EnterFlight, CallStep, FinishCall, FailCall,
              EndFlight, BeginOwnLog, CommitOwnLog, LoseOwnLog, CopyStep,
              BeginCopiedLog, CommitCopiedLog, LoseCopiedLog, CopyLogged, search
<1>5. ASSUME UNCHANGED allVars PROVE cache' = cache
  BY <1>5 DEF allVars, search
<1>6. QED
  BY <1>1, <1>2, <1>3, <1>4, <1>5 DEF NextSearch, CopyStep

\* A row of the cache never gives way to an older result, with any number of
\* callers and policies.
THEOREM CacheForwardCorrect == SpecSearch => CacheMovesForward
<1>1. FlightInv /\ [NextSearch]_allVars => [cache'.version >= cache.version]_allVars
  BY ForwardSearchStep
<1>2. QED
  BY <1>1, FlightInvariant, PTL DEF SpecSearch, CacheMovesForward


(***************************************************************************)
(* Every call is covered.                                                  *)
(*                                                                         *)
(* The balance of KeyPool is lost here: the log of a follower takes the    *)
(* reservation of a call that is not its own.  What is left is a bound: in *)
(* state s of key k, what has been seen and is held in reserve covers the  *)
(* calls with a log, without one yet, and the n whose log was lost.        *)
(***************************************************************************)
CoversCalls(k, s, n) ==
  s.usageInitialized =>
    s.usageObserved + s.pendingReservations
      >= real[k] + Cardinality(Outstanding(k)) + n

\* Nothing was called with a key the manager has not looked at since it started, so
\* all readings of its usage are new enough.
Unread(k) ==
  ~keyStates[k].usageInitialized =>
    /\ Outstanding(k) = {}
    /\ lost[k] = 0
    /\ \A p \in Requests : Reading(p, k) => rows[p][k].total >= real[k]

\* When the reservations of a key have an age, no call of it is without a log, and
\* the readings that could miss one are of requests that are still present.
AgedCalls(k) ==
  /\ keyStates[k].pendingReservations = 0 => pendingAge[k] = 0
  /\ (keyStates[k].pendingReservations > 0 /\ pendingAge[k] = 0) =>
       \A p \in Requests : CallsOf(p, k) # {} => p \in present[k]
  /\ pendingAge[k] > 0 => Outstanding(k) = {}
  /\ pendingAge[k] = 1 =>
       \A p \in Requests :
         Reading(p, k) /\ rows[p][k].total < real[k] => p \in present[k]
  /\ pendingAge[k] = 2 =>
       \A p \in Requests : Reading(p, k) => rows[p][k].total >= real[k]

KeyCovered(k) ==
  /\ real[k] <= total[k]
  /\ CoversCalls(k, keyStates[k], lost[k])
  /\ Unread(k)
  /\ AgedCalls(k)

CoverInv == FlightInv /\ \A k \in Keys : KeyCovered(k)

\* Each key has what its types say.
LEMMA SearchKeyTypes ==
  ASSUME FlightInv, NEW k \in Keys
  PROVE  /\ TypeOK /\ Phases
         /\ real[k] \in Nat
         /\ keyStates[k].usageObserved \in Nat
         /\ keyStates[k].pendingReservations \in Nat
         /\ \A p \in Requests : Reading(p, k) => rows[p][k].total \in Nat
<1>1. TypeOK /\ Phases
  BY DEF FlightInv, TypeInv
<1>2. QED
  BY <1>1, KeyTypes DEF FlightInv, SearchTypes, KeyState, Row

\* canUse, with the rows a request listed, never gives up the reservation of a call
\* it cannot see, however often the followers' logs have counted the others.
LEMMA VisitedCovers ==
  ASSUME FlightInv, NEW k \in Keys, NEW p \in Requests, Reading(p, k), KeyCovered(k)
  PROVE  LET v == Visited(k, pendingAge[k], rows[p][k])
         IN /\ CoversCalls(k, v, LostAfter(k, v))
            /\ v.pendingReservations <= keyStates[k].pendingReservations
<1> DEFINE s == keyStates[k]
           row == rows[p][k]
           r == ReconcileReservation(s, row.total)
           v == Visited(k, pendingAge[k], row)
           O == Cardinality(Outstanding(k))
<1>1. /\ s \in KeyState /\ row \in Row /\ row.total \in Nat
      /\ s.usageObserved \in Nat /\ s.pendingReservations \in Nat
      /\ real[k] \in Nat /\ O \in Nat /\ lost[k] \in Nat
  BY SearchKeyTypes, KeyTypes
<1>2. /\ ~s.usageInitialized => O = 0 /\ lost[k] = 0 /\ row.total >= real[k]
      /\ s.usageInitialized =>
           s.usageObserved + s.pendingReservations >= real[k] + O + lost[k]
      /\ pendingAge[k] = 2 => O = 0 /\ row.total >= real[k]
  <2>1. Cardinality({}) = 0
    BY FS_EmptySet
  <2>2. QED
    BY <2>1 DEF KeyCovered, CoversCalls, Unread, AgedCalls
<1>3. /\ r.usageObserved =
           IF ~s.usageInitialized \/ row.total > s.usageObserved
             THEN row.total ELSE s.usageObserved
      /\ r.pendingReservations =
           IF ~s.usageInitialized \/ row.total <= s.usageObserved
             THEN s.pendingReservations
           ELSE IF row.total - s.usageObserved >= s.pendingReservations THEN 0
           ELSE s.pendingReservations - (row.total - s.usageObserved)
  BY <1>1, ReconcileReservationFacts
<1>4. \/ /\ v.usageObserved = r.usageObserved
         /\ v.pendingReservations = r.pendingReservations
      \/ /\ pendingAge[k] = 2
         /\ v.usageObserved = row.total
         /\ v.pendingReservations = 0
  BY <1>1, VisitedFacts
<1>5. LostAfter(k, v) = IF v.pendingReservations = 0 THEN 0 ELSE lost[k]
  BY DEF LostAfter
<1> HIDE DEF s, row, r, v, O
<1>6. /\ v.usageObserved + v.pendingReservations >= real[k] + O + LostAfter(k, v)
      /\ v.pendingReservations <= s.pendingReservations
  <2>1. CASE /\ pendingAge[k] = 2
             /\ v.usageObserved = row.total
             /\ v.pendingReservations = 0
    BY <1>1, <1>2, <1>5, <2>1
  <2>2. CASE /\ v.usageObserved = r.usageObserved
             /\ v.pendingReservations = r.pendingReservations
    <3>1. CASE ~s.usageInitialized
      BY <1>1, <1>2, <1>3, <1>5, <2>2, <3>1
    <3>2. CASE s.usageInitialized
      <4>1. /\ r.usageObserved + r.pendingReservations
                 >= s.usageObserved + s.pendingReservations
            /\ r.pendingReservations <= s.pendingReservations
        BY <1>1, <1>3, <3>2
      <4>2. r.usageObserved \in Nat /\ r.pendingReservations \in Nat
        BY <1>1, <1>3, <3>2
      <4>3. LostAfter(k, v) \in Nat /\ LostAfter(k, v) <= lost[k]
        BY <1>1, <1>5
      <4>4. QED
        BY <1>1, <1>2, <2>2, <3>2, <4>1, <4>2, <4>3
    <3>3. QED
      BY <3>1, <3>2
  <2>3. QED
    BY <1>4, <2>1, <2>2
<1>7. QED
  BY <1>6 DEF CoversCalls, s, row, v, O

\* Whether Acquire looked at a key or not, the state it leaves it in covers its
\* calls.
LEMMA VisitedStatesCover ==
  ASSUME CoverInv, NEW p \in Requests, NEW looked \in SUBSET DOMAIN rows[p],
         NEW k \in Keys
  PROVE  LET v == VisitedStates(p, looked)[k]
         IN /\ v \in KeyState
            /\ CoversCalls(k, v, LostAfter(k, v))
            /\ v.pendingReservations <= keyStates[k].pendingReservations
            /\ k \in looked \/ keyStates[k].usageInitialized => v.usageInitialized
<1> DEFINE v == VisitedStates(p, looked)[k]
<1>1. /\ FlightInv /\ TypeOK /\ KeyCovered(k)
      /\ keyStates[k] \in KeyState
      /\ keyStates[k].usageObserved \in Nat
      /\ keyStates[k].pendingReservations \in Nat
      /\ real[k] \in Nat /\ Cardinality(Outstanding(k)) \in Nat /\ lost[k] \in Nat
  BY SearchKeyTypes, KeyTypes DEF CoverInv
<1>2. CASE k \in looked
  <2>1. v = Visited(k, pendingAge[k], rows[p][k]) /\ Reading(p, k)
    BY <1>2 DEF VisitedStates, Reading
  <2>2. rows[p][k] \in Row
    BY <1>1, <2>1, KeyTypes
  <2>3. v \in KeyState /\ v.usageInitialized
    BY <1>1, <2>1, <2>2, VisitedFacts
  <2>4. QED
    BY <1>1, <2>1, <2>3, VisitedCovers
<1>3. CASE k \notin looked
  <2>1. v = keyStates[k]
    BY <1>3 DEF VisitedStates
  <2>2. LostAfter(k, v) \in Nat /\ LostAfter(k, v) <= lost[k]
    BY <1>1 DEF LostAfter
  <2>3. CoversCalls(k, v, lost[k])
    BY <1>1, <2>1 DEF KeyCovered
  <2>4. CoversCalls(k, v, LostAfter(k, v))
    BY <1>1, <2>1, <2>2, <2>3 DEF CoversCalls
  <2>5. QED
    BY <1>1, <1>3, <2>1, <2>4
<1>4. QED
  BY <1>2, <1>3

-----------------------------------------------------------------------------
(* Steps that change nothing a key is covered by. *)

\* The rows a request has are those it had, or have just been read.
RowsKnown(k) ==
  \A q \in Requests : Reading(q, k)' =>
    \/ Reading(q, k) /\ rows'[q][k] = rows[q][k]
    \/ pc'[q] = "listed" /\ rows'[q][k].total = total[k]

SameBooks(k) ==
  /\ keyStates'[k].usageInitialized = keyStates[k].usageInitialized
  /\ keyStates'[k].usageObserved = keyStates[k].usageObserved
  /\ keyStates'[k].pendingReservations = keyStates[k].pendingReservations
  /\ total'[k] \in Nat /\ total'[k] >= total[k]
  /\ RowsKnown(k)

Quiet ==
  /\ UNCHANGED <<pendingAge, present, attempts, lost, real>>
  /\ \A k \in Keys : SameBooks(k)

\* A key that no call touches stays covered.
LEMMA QuietKeepsCover ==
  ASSUME CoverInv, Quiet, NEW k \in Keys
  PROVE  KeyCovered(k)'
<1>1. /\ KeyCovered(k) /\ SameBooks(k)
      /\ real[k] \in Nat /\ total[k] \in Nat
      /\ UNCHANGED <<pendingAge, present, attempts, lost, real>>
  BY SearchKeyTypes, KeyTypes DEF CoverInv, Quiet
<1>2. Outstanding(k)' = Outstanding(k) /\ \A q : CallsOf(q, k)' = CallsOf(q, k)
  BY <1>1 DEF CallsOf, Outstanding, Slots, IsCallOn
<1>3. real'[k] <= total'[k]
  BY <1>1 DEF KeyCovered, SameBooks
<1>4. CoversCalls(k, keyStates[k], lost[k])'
  BY <1>1, <1>2 DEF KeyCovered, CoversCalls, SameBooks
<1>5. \A q \in Requests : Reading(q, k)' =>
        \/ Reading(q, k) /\ rows'[q][k].total = rows[q][k].total
        \/ rows'[q][k].total >= real'[k] /\ ~(rows'[q][k].total < real'[k])
  BY <1>1 DEF KeyCovered, SameBooks, RowsKnown
<1>6. Unread(k)'
  BY <1>1, <1>2, <1>5 DEF KeyCovered, SameBooks, Unread
<1>7. AgedCalls(k)'
  BY <1>1, <1>2, <1>5 DEF KeyCovered, SameBooks, AgedCalls
<1>8. QED
  BY <1>3, <1>4, <1>6, <1>7 DEF KeyCovered

\* The steps of a caller between its calls, and the steps of time, are quiet.
LEMMA QuietSteps ==
  ASSUME CoverInv, NEW p \in Requests,
         \/ CacheStep(p) \/ FinishCall(p) \/ FailCall(p) \/ BeginOwnLog(p)
         \/ \E admitted \in SUBSET Keys : ListKeys(p, admitted) /\ UNCHANGED search
         \/ AbandonAcquire(p) /\ UNCHANGED search
  PROVE  Quiet
<1>1. TypeOK /\ Phases /\ \A k \in Keys : total[k] \in Nat
  BY DEF CoverInv, FlightInv, TypeInv, TypeOK
<1>2. CASE CacheStep(p)
  <2>1. UNCHANGED vars /\ UNCHANGED real
    BY <1>2 DEF CacheStep, StartSearch, ReadCache, EnterFlight, StoreResult, EndFlight
  <2>2. QED
    BY <1>1, <2>1 DEF vars, memory, database, requests, Quiet, SameBooks, RowsKnown,
                      Reading
<1>3. CASE FinishCall(p) \/ FailCall(p)
  <2>1. UNCHANGED <<pendingAge, present, total, rows, attempts, lost, real>>
    BY <1>3 DEF FinishCall, FailCall, Release, database, search
  <2>2. PICK h \in Keys : h = HeldKey(p)
    BY <1>1, <1>3 DEF FinishCall, FailCall, Release, HeldKey, TypeOK, InCall
  <2>3. keyStates' = [keyStates EXCEPT ![h].active = IF @ > 0 THEN @ - 1 ELSE 0]
    BY <1>3, <2>2 DEF FinishCall, FailCall, Release, ReleaseCounters
  <2>4. \A k \in Keys :
          /\ keyStates'[k].usageInitialized = keyStates[k].usageInitialized
          /\ keyStates'[k].usageObserved = keyStates[k].usageObserved
          /\ keyStates'[k].pendingReservations = keyStates[k].pendingReservations
    BY <1>1, <2>3 DEF TypeOK, KeyState
  <2>5. QED
    BY <1>1, <2>1, <2>4 DEF Quiet, SameBooks, RowsKnown, Reading
<1>4. CASE BeginOwnLog(p)
  <2>1. UNCHANGED <<keyStates, pendingAge, present, total, rows, attempts, lost, real>>
    BY <1>4 DEF BeginOwnLog, BeginLog, memory, database, search
  <2>2. QED
    BY <1>1, <2>1 DEF Quiet, SameBooks, RowsKnown, Reading
<1>5. ASSUME NEW admitted \in SUBSET Keys, ListKeys(p, admitted), UNCHANGED search
      PROVE  Quiet
  <2>1. UNCHANGED <<keyStates, pendingAge, present, total, attempts, lost, real>>
    BY <1>5 DEF ListKeys, memory, database, search
  <2>2. \/ rows' = rows
        \/ rows' = [rows EXCEPT ![p] = ReadRows(admitted)] /\ pc'[p] = "listed"
    BY <1>1, <1>5 DEF ListKeys, TypeOK
  <2>3. \A k \in DOMAIN ReadRows(admitted) : ReadRows(admitted)[k].total = total[k]
    BY DEF ReadRows
  <2>4. \A k \in Keys : RowsKnown(k)
    BY <1>1, <2>2, <2>3 DEF RowsKnown, Reading, TypeOK
  <2>5. QED
    BY <1>1, <2>1, <2>4 DEF Quiet, SameBooks
<1>6. CASE AbandonAcquire(p) /\ UNCHANGED search
  <2>1. UNCHANGED <<keyStates, pendingAge, present, total, attempts, lost, real>>
    BY <1>6 DEF AbandonAcquire, memory, database, search
  <2>2. \A k \in Keys : RowsKnown(k)
    BY <1>1, <1>6 DEF AbandonAcquire, RowsKnown, Reading, NoRows, TypeOK
  <2>3. QED
    BY <1>1, <2>1, <2>2 DEF Quiet, SameBooks
<1>7. QED
  BY <1>2, <1>3, <1>4, <1>5, <1>6

\* Which steps touch no key.
LEMMA QuietWorld ==
  ASSUME CoverInv,
         \/ CacheExpires \/ WorldChanges \/ UNCHANGED allVars
         \/ \E q \in Requests : CopyStep(q)
         \/ (\E k \in Keys : MinutePasses(k)) /\ UNCHANGED search
         \/ (\E cycles \in Rollovers : Rollover(cycles)) /\ UNCHANGED search
  PROVE  Quiet
<1>1. /\ TypeOK /\ \A k \in Keys : total[k] \in Nat
      /\ copies \in [Requests -> Seq(Keys)]
  BY DEF CoverInv, FlightInv, TypeInv, TypeOK, SearchTypes
<1>2. CASE CacheExpires \/ WorldChanges \/ UNCHANGED allVars
  <2>1. UNCHANGED vars /\ UNCHANGED real
    BY <1>2 DEF CacheExpires, WorldChanges, allVars, search
  <2>2. QED
    BY <1>1, <2>1 DEF vars, memory, database, requests, Quiet, SameBooks, RowsKnown,
                      Reading
<1>3. ASSUME NEW q \in Requests, CopyStep(q) PROVE Quiet
  <2>1. UNCHANGED <<keyStates, pendingAge, present, rows, attempts, lost, real>>
    BY <1>3 DEF CopyStep, BeginCopiedLog, CommitCopiedLog, LoseCopiedLog, CopyLogged,
                memory
  <2>2. \A k \in Keys : total'[k] \in Nat /\ total'[k] >= total[k]
    <3>1. \A k \in Keys : CopiesOf(q, k) \in Nat
      BY <1>1, CopiesCounted
    <3>2. \/ total' = total
          \/ total' = [k \in Keys |-> total[k] + CopiesOf(q, k)]
      BY <1>3 DEF CopyStep, BeginCopiedLog, CommitCopiedLog, LoseCopiedLog, database
    <3>3. QED
      BY <1>1, <3>1, <3>2
  <2>3. QED
    BY <2>1, <2>2 DEF Quiet, SameBooks, RowsKnown, Reading
<1>4. ASSUME NEW j \in Keys, MinutePasses(j), UNCHANGED search PROVE Quiet
  <2>1. UNCHANGED <<pendingAge, present, total, rows, attempts, lost, real>>
    BY <1>4 DEF MinutePasses, database, requests, search
  <2>2. keyStates' = [keyStates EXCEPT ![j].windowElapsed = TRUE]
    BY <1>4 DEF MinutePasses
  <2>3. \A k \in Keys :
          /\ keyStates'[k].usageInitialized = keyStates[k].usageInitialized
          /\ keyStates'[k].usageObserved = keyStates[k].usageObserved
          /\ keyStates'[k].pendingReservations = keyStates[k].pendingReservations
    BY <1>1, <2>2 DEF TypeOK, KeyState
  <2>4. QED
    BY <1>1, <2>1, <2>3 DEF Quiet, SameBooks, RowsKnown, Reading
<1>5. ASSUME NEW cycles \in Rollovers, Rollover(cycles), UNCHANGED search PROVE Quiet
  <2>1. UNCHANGED <<keyStates, pendingAge, present, total, rows, attempts, lost, real>>
    BY <1>5 DEF Rollover, memory, requests, search
  <2>2. QED
    BY <1>1, <2>1 DEF Quiet, SameBooks, RowsKnown, Reading
<1>6. QED
  BY <1>2, <1>3, <1>4, <1>5

-----------------------------------------------------------------------------
(* The locked part of Acquire. *)

\* The age of the reservations of a key, when Acquire left it in the state visited
\* or took it.
LEMMA AgedCallsAfterAcquire ==
  ASSUME CoverInv, NEW p \in Requests, pc[p] = "listed",
         NEW visited, NEW taken \in SUBSET Keys, ReservationsAged(visited, taken),
         NEW k \in Keys,
         visited[k].pendingReservations \in Nat,
         visited[k].pendingReservations <= keyStates[k].pendingReservations,
         k \notin taken => /\ keyStates'[k] = visited[k]
                           /\ Outstanding(k)' = Outstanding(k),
         k \in taken => keyStates'[k].pendingReservations > 0,
         \A q \in Requests \ {p} : attempts'[q] = attempts[q],
         UNCHANGED real,
         RowsShrink(k)
  PROVE  AgedCalls(k)'
<1>1. /\ AgedCalls(k) /\ Phases
      /\ keyStates[k].pendingReservations \in Nat
  BY SearchKeyTypes DEF CoverInv, KeyCovered
<1>2. CASE k \in taken
  <2>1. pendingAge'[k] = 0 /\ present'[k] = Busy
    BY <1>2 DEF ReservationsAged, AgeAfter, PresentAfter
  <2>2. ASSUME NEW q \in Requests, CallsOf(q, k)' # {} PROVE q \in Busy
    <3>1. CASE q = p
      BY <3>1 DEF Busy
    <3>2. CASE q # p
      <4>1. attempts'[q] = attempts[q] /\ attempts'[q] # <<>>
        BY <2>2, <3>2 DEF CallsOf, Outstanding, IsCallOn, Slots
      <4>2. QED
        BY <1>1, <4>1 DEF Phases, Busy
    <3>3. QED
      BY <3>1, <3>2
  <2>3. QED
    BY <2>1, <2>2 DEF AgedCalls
<1>3. CASE k \notin taken /\ visited[k].pendingReservations = 0
  <2>1. pendingAge'[k] = 0 /\ keyStates'[k].pendingReservations = 0
    BY <1>3 DEF ReservationsAged, AgeAfter
  <2>2. QED
    BY <2>1 DEF AgedCalls
<1>4. CASE k \notin taken /\ visited[k].pendingReservations # 0
  <2>1. /\ pendingAge'[k] = pendingAge[k] /\ present'[k] = present[k]
        /\ keyStates'[k].pendingReservations > 0
        /\ keyStates[k].pendingReservations > 0
    BY <1>1, <1>4 DEF ReservationsAged, AgeAfter, PresentAfter
  <2>2. Outstanding(k)' = Outstanding(k) /\ \A q : CallsOf(q, k)' = CallsOf(q, k)
    BY <1>4 DEF CallsOf
  <2>3. QED
    BY <1>1, <2>1, <2>2 DEF AgedCalls, RowsShrink
<1>5. QED
  BY <1>2, <1>3, <1>4

\* A key that Acquire looked at and did not take stays covered.
LEMMA LookedKeepsCover ==
  ASSUME CoverInv, NEW s \in KeyState, NEW k \in Keys,
         CoversCalls(k, s, LostAfter(k, s)),
         keyStates[k].usageInitialized => s.usageInitialized,
         keyStates'[k] = s,
         lost'[k] = LostAfter(k, s),
         Outstanding(k)' = Outstanding(k),
         UNCHANGED <<real, total>>,
         RowsShrink(k)
  PROVE  /\ real'[k] <= total'[k]
         /\ CoversCalls(k, keyStates[k], lost[k])'
         /\ Unread(k)'
<1>1. KeyCovered(k) /\ real[k] \in Nat
  BY SearchKeyTypes DEF CoverInv
<1>2. real'[k] <= total'[k]
  BY <1>1 DEF KeyCovered
<1>3. CoversCalls(k, keyStates[k], lost[k])'
  BY DEF CoversCalls
<1>4. Unread(k)'
  <2>1. lost[k] = 0 => LostAfter(k, s) = 0
    BY DEF LostAfter
  <2>2. QED
    BY <1>1, <2>1 DEF KeyCovered, Unread, RowsShrink
<1>5. QED
  BY <1>2, <1>3, <1>4

\* Acquire handing out a key keeps the calls covered.
LEMMA ReserveKeepsCover ==
  ASSUME CoverInv, NEW p \in Requests, NEW h \in Keys, NEW skipped \in SUBSET Keys,
         Reserve(p, h, skipped), UNCHANGED search, NEW k \in Keys
  PROVE  /\ KeyCovered(k)'
         /\ Cardinality(Outstanding(k)')
              = Cardinality(Outstanding(k)) + (IF k = h THEN 1 ELSE 0)
<1> DEFINE looked == skipped \cup {h}
           visited == VisitedStates(p, looked)
<1>1. TypeOK /\ Phases /\ FlightInv
  BY SearchKeyTypes DEF CoverInv
<1>2. /\ looked \in SUBSET DOMAIN rows[p]
      /\ pc[p] = "listed"
      /\ keyStates' = [visited EXCEPT ![h] = Taken(h, visited[h])]
      /\ ReservationsAged(visited, {h})
      /\ attempts' = [attempts EXCEPT ![p] = Append(attempts[p], h)]
      /\ UNCHANGED <<total, real>>
  BY DEF Reserve, database, search
<1>3. RowsShrink(k)
  BY <1>1 DEF Reserve, RowsShrink, Reading, TypeOK, NoRows
<1>4. /\ visited[k] \in KeyState
      /\ CoversCalls(k, visited[k], LostAfter(k, visited[k]))
      /\ visited[k].pendingReservations <= keyStates[k].pendingReservations
      /\ k = h \/ keyStates[k].usageInitialized => visited[k].usageInitialized
  BY <1>2, VisitedStatesCover
<1>5. visited \in [Keys -> KeyState]
  BY <1>1, <1>2, VisitedStatesType
<1> HIDE DEF visited, looked
<1>6. /\ keyStates'[h] = Taken(h, visited[h])
      /\ k # h => keyStates'[k] = visited[k]
      /\ lost'[k] = LostAfter(k, visited[k])
  BY <1>2, <1>5 DEF ReservationsAged
<1>7. /\ Cardinality(Outstanding(h)') = Cardinality(Outstanding(h)) + 1
      /\ k # h => Outstanding(k)' = Outstanding(k)
      /\ \A q \in Requests \ {p} : attempts'[q] = attempts[q]
  <2>1. Len(attempts[p]) < MaxAttempts
    BY <1>1, <1>2 DEF Phases
  <2>2. QED
    BY <1>1, <1>2, <2>1, CallAdded DEF TypeOK
<1>8. /\ visited[k].usageObserved \in Nat /\ visited[k].pendingReservations \in Nat
      /\ LostAfter(k, visited[k]) \in Nat
      /\ real[k] \in Nat /\ Cardinality(Outstanding(k)) \in Nat
  BY <1>1, <1>4, SearchKeyTypes, KeyTypes DEF KeyState, LostAfter
<1>9. k = h => /\ keyStates'[k].pendingReservations = visited[k].pendingReservations + 1
               /\ keyStates'[k].usageObserved = visited[k].usageObserved
               /\ keyStates'[k].usageInitialized
  BY <1>4, <1>6, TakenFacts
<1>10. AgedCalls(k)'
  <2>1. k \in {h} => keyStates'[k].pendingReservations > 0
    BY <1>8, <1>9
  <2>2. k \notin {h} => keyStates'[k] = visited[k] /\ Outstanding(k)' = Outstanding(k)
    BY <1>6, <1>7
  <2>3. QED
    BY <1>2, <1>3, <1>4, <1>7, <1>8, <2>1, <2>2, AgedCallsAfterAcquire
<1>11. /\ real'[k] <= total'[k]
       /\ CoversCalls(k, keyStates[k], lost[k])'
       /\ Unread(k)'
  <2>1. CASE k # h
    BY <1>2, <1>3, <1>4, <1>6, <1>7, <2>1, LookedKeepsCover
  <2>2. CASE k = h
    <3>1. visited[k].usageObserved + visited[k].pendingReservations
            >= real[k] + Cardinality(Outstanding(k)) + LostAfter(k, visited[k])
      BY <1>4, <2>2 DEF CoversCalls
    <3>2. Cardinality(Outstanding(k)') = Cardinality(Outstanding(k)) + 1
      BY <1>7, <2>2
    <3>3. CoversCalls(k, keyStates[k], lost[k])'
      BY <1>2, <1>6, <1>8, <1>9, <2>2, <3>1, <3>2 DEF CoversCalls
    <3>4. Unread(k)'
      BY <1>9, <2>2 DEF Unread
    <3>5. real'[k] <= total'[k]
      BY <1>2 DEF CoverInv, KeyCovered
    <3>6. QED
      BY <3>3, <3>4, <3>5
  <2>3. QED
    BY <2>1, <2>2
<1>12. QED
  BY <1>7, <1>8, <1>10, <1>11 DEF KeyCovered

\* Acquire refusing keeps the calls covered.
LEMMA RefuseKeepsCover ==
  ASSUME CoverInv, NEW p \in Requests, Refuse(p), UNCHANGED search, NEW k \in Keys
  PROVE  KeyCovered(k)' /\ Outstanding(k)' = Outstanding(k)
<1> DEFINE looked == IF ProviderBusy THEN {} ELSE DOMAIN rows[p]
           visited == VisitedStates(p, looked)
<1>1. TypeOK
  BY SearchKeyTypes DEF CoverInv
<1>2. /\ looked \in SUBSET DOMAIN rows[p]
      /\ pc[p] = "listed"
      /\ keyStates' = visited
      /\ ReservationsAged(visited, {})
      /\ UNCHANGED <<total, attempts, real>>
  BY DEF Refuse, database, search
<1>3. RowsShrink(k)
  BY <1>1 DEF Refuse, RowsShrink, Reading, TypeOK, NoRows
<1>4. /\ visited[k] \in KeyState
      /\ CoversCalls(k, visited[k], LostAfter(k, visited[k]))
      /\ visited[k].pendingReservations <= keyStates[k].pendingReservations
      /\ keyStates[k].usageInitialized => visited[k].usageInitialized
  BY <1>2, VisitedStatesCover
<1> HIDE DEF visited, looked
<1>5. Outstanding(k)' = Outstanding(k)
  BY <1>2 DEF Outstanding, Slots, IsCallOn
<1>6. lost'[k] = LostAfter(k, visited[k]) /\ visited[k].pendingReservations \in Nat
  BY <1>2, <1>4 DEF ReservationsAged, KeyState
<1>7. AgedCalls(k)'
  BY <1>2, <1>3, <1>4, <1>5, <1>6, AgedCallsAfterAcquire
<1>8. /\ real'[k] <= total'[k]
      /\ CoversCalls(k, keyStates[k], lost[k])'
      /\ Unread(k)'
  BY <1>2, <1>3, <1>4, <1>5, <1>6, LookedKeepsCover
<1>9. QED
  BY <1>5, <1>7, <1>8 DEF KeyCovered

-----------------------------------------------------------------------------
(* The end of a log, the age of reservations, and a restart. *)

\* The log of whoever made the calls: they are recorded, or lost.
LEMMA OwnLogKeepsCover ==
  ASSUME CoverInv, NEW p \in Requests, CommitOwnLog(p) \/ LoseOwnLog(p), NEW k \in Keys
  PROVE  /\ KeyCovered(k)'
         /\ real'[k] + Cardinality(Outstanding(k)')
              <= real[k] + Cardinality(Outstanding(k))
<1> DEFINE n == Cardinality(CallsOf(p, k))
<1>1. /\ TypeOK /\ Phases /\ KeyCovered(k)
      /\ real[k] \in Nat /\ total[k] \in Nat /\ lost[k] \in Nat
      /\ keyStates[k].usageObserved \in Nat
      /\ keyStates[k].pendingReservations \in Nat
      /\ Cardinality(Outstanding(k)) \in Nat
      /\ real \in [Keys -> Nat]
  BY SearchKeyTypes, KeyTypes DEF CoverInv, FlightInv, SearchTypes
<1>2. /\ pc[p] = "logging"
      /\ UNCHANGED <<keyStates, pendingAge, rows>>
      /\ attempts' = [attempts EXCEPT ![p] = <<>>]
      /\ present' = [j \in Keys |-> present[j] \ {p}]
      /\ \/ /\ real'[k] = real[k] + n
            /\ total'[k] = total[k] + n
            /\ lost'[k] = lost[k]
         \/ /\ real'[k] = real[k]
            /\ total'[k] = total[k]
            /\ lost'[k] = lost[k] + n
  BY DEF CommitOwnLog, LoseOwnLog, CommitLog, LoseLog, Finished, database
<1>3. /\ Outstanding(k)' = Outstanding(k) \ CallsOf(p, k)
      /\ Cardinality(Outstanding(k)') = Cardinality(Outstanding(k)) - n
      /\ n \in Nat
      /\ \A q \in Requests : CallsOf(q, k)' # {} => q # p /\ CallsOf(q, k) # {}
  BY <1>1, <1>2, CallsRemoved
<1>4. Outstanding(k) = {} => n = 0 /\ Outstanding(k)' = {}
  BY <1>3, FS_EmptySet DEF CallsOf
<1> HIDE DEF n
<1>5. \A q \in Requests : Reading(q, k)' => /\ q # p /\ Reading(q, k)
                                            /\ rows'[q][k] = rows[q][k]
  BY <1>1, <1>2 DEF Phases, Reading, NoRows
<1>6. real'[k] <= total'[k]
  BY <1>1, <1>2, <1>3 DEF KeyCovered
<1>7. CoversCalls(k, keyStates[k], lost[k])'
  BY <1>1, <1>2, <1>3 DEF KeyCovered, CoversCalls
<1>8. Outstanding(k) = {} => real'[k] = real[k] /\ lost'[k] = lost[k]
  BY <1>1, <1>2, <1>4
<1>9. Unread(k)'
  BY <1>1, <1>2, <1>4, <1>5, <1>8 DEF KeyCovered, Unread
<1>10. AgedCalls(k)'
  <2>1. AgedCalls(k) /\ pendingAge[k] \in 0..2
    BY <1>1 DEF KeyCovered, TypeOK
  <2>2. CASE pendingAge[k] = 0
    BY <1>2, <1>3, <2>1, <2>2 DEF AgedCalls
  <2>3. CASE pendingAge[k] > 0
    <3>1. Outstanding(k)' = {} /\ real'[k] = real[k]
      BY <1>4, <1>8, <2>1, <2>3 DEF AgedCalls
    <3>2. QED
      BY <1>2, <1>5, <2>1, <2>3, <3>1 DEF AgedCalls
  <2>4. QED
    BY <2>1, <2>2, <2>3
<1>11. real'[k] + Cardinality(Outstanding(k)') <= real[k] + Cardinality(Outstanding(k))
  BY <1>1, <1>2, <1>3
<1>12. QED
  BY <1>6, <1>7, <1>9, <1>10, <1>11 DEF KeyCovered

\* Half an hour without a reservation: all who could hold one are over.
LEMMA AgeKeepsCover ==
  ASSUME CoverInv, NEW h \in Keys, AgeReservations(h), UNCHANGED search, NEW k \in Keys
  PROVE  KeyCovered(k)'
<1>1. /\ TypeOK /\ Phases /\ KeyCovered(k)
      /\ pendingAge[k] \in 0..2
  BY SearchKeyTypes DEF CoverInv, TypeOK
<1>2. /\ UNCHANGED <<keyStates, total, rows, attempts, lost, real>>
      /\ keyStates[h].pendingReservations > 0
      /\ pendingAge[h] < 2
      /\ present[h] = {}
      /\ pendingAge' = [pendingAge EXCEPT ![h] = pendingAge[h] + 1]
      /\ present' = [present EXCEPT ![h] = IF pendingAge[h] = 0 THEN Busy ELSE {}]
  BY DEF AgeReservations, database, requests, search
<1>3. Outstanding(k)' = Outstanding(k) /\ \A q : CallsOf(q, k)' = CallsOf(q, k)
  BY <1>2 DEF CallsOf, Outstanding, Slots, IsCallOn
<1>4. \A q : Reading(q, k)' <=> Reading(q, k)
  BY <1>2 DEF Reading
<1>5. /\ real'[k] <= total'[k]
      /\ CoversCalls(k, keyStates[k], lost[k])'
      /\ Unread(k)'
  BY <1>1, <1>2, <1>3, <1>4 DEF KeyCovered, CoversCalls, Unread
<1>6. AgedCalls(k)'
  <2>1. CASE k # h
    <3>1. pendingAge'[k] = pendingAge[k] /\ present'[k] = present[k]
      BY <1>1, <1>2, <2>1 DEF TypeOK
    <3>2. QED
      BY <1>1, <1>2, <1>3, <1>4, <3>1 DEF KeyCovered, AgedCalls
  <2>2. CASE k = h /\ pendingAge[h] = 0
    <3>1. pendingAge'[k] = 1 /\ present'[k] = Busy
      BY <1>1, <1>2, <2>2 DEF TypeOK
    <3>2. Outstanding(k) = {}
      <4>1. \A q \in Requests : CallsOf(q, k) = {}
        BY <1>1, <1>2, <2>2 DEF KeyCovered, AgedCalls
      <4>2. QED
        BY <4>1 DEF CallsOf, Outstanding, Slots
    <3>3. \A q \in Requests : Reading(q, k) => q \in Busy
      BY <1>1 DEF Phases, Reading, NoRows, Busy
    <3>4. QED
      BY <1>2, <1>3, <1>4, <2>2, <3>1, <3>2, <3>3 DEF AgedCalls
  <2>3. CASE k = h /\ pendingAge[h] = 1
    <3>1. pendingAge'[k] = 2
      BY <1>1, <1>2, <2>3 DEF TypeOK
    <3>2. \A q \in Requests : Reading(q, k) => rows[q][k].total >= real[k]
      <4>1. \A q \in Requests : ~(Reading(q, k) /\ rows[q][k].total < real[k])
        BY <1>1, <1>2, <2>3 DEF KeyCovered, AgedCalls
      <4>2. \A q \in Requests : Reading(q, k) => rows[q][k].total \in Nat
        BY SearchKeyTypes DEF CoverInv
      <4>3. real[k] \in Nat
        BY SearchKeyTypes DEF CoverInv
      <4>4. QED
        BY <4>1, <4>2, <4>3
    <3>3. Outstanding(k) = {} /\ keyStates'[k].pendingReservations # 0
      BY <1>1, <1>2, <2>3 DEF KeyCovered, AgedCalls
    <3>4. QED
      BY <1>2, <1>3, <1>4, <3>1, <3>2, <3>3 DEF AgedCalls
  <2>4. QED
    BY <1>1, <1>2, <2>1, <2>2, <2>3
<1>7. QED
  BY <1>5, <1>6 DEF KeyCovered

\* A new process knows nothing, and nothing is on its way.
LEMMA RestartKeepsCover ==
  ASSUME CoverInv, RestartSearch, NEW k \in Keys
  PROVE  KeyCovered(k)' /\ Outstanding(k)' = {} /\ real' = real
<1>1. /\ keyStates'[k] = NewKeyState
      /\ pendingAge'[k] = 0 /\ lost'[k] = 0
      /\ \A q \in Requests : rows'[q] = NoRows /\ attempts'[q] = <<>>
      /\ UNCHANGED <<total, real>>
  BY DEF RestartSearch, Restart, database
<1>2. Outstanding(k)' = {}
  BY <1>1, LimitsAssumption DEF Outstanding, Slots, IsCallOn
<1>3. \A q \in Requests : ~Reading(q, k)'
  BY <1>1 DEF Reading, NoRows
<1>4. QED
  BY <1>1, <1>2, <1>3
     DEF CoverInv, KeyCovered, CoversCalls, Unread, AgedCalls, NewKeyState

-----------------------------------------------------------------------------

\* No call has been made at first.
LEMMA CoverInit == InitSearch => CoverInv
<1> SUFFICES ASSUME InitSearch PROVE CoverInv
  OBVIOUS
<1>1. FlightInv
  BY FlightInit
<1>2. ASSUME NEW k \in Keys PROVE KeyCovered(k)
  <2>1. /\ keyStates[k] = NewKeyState
        /\ pendingAge[k] = 0 /\ lost[k] = 0
        /\ \A q \in Requests : rows[q] = NoRows /\ attempts[q] = <<>>
        /\ total[k] = 0 /\ real[k] = 0
    BY DEF InitSearch, Init
  <2>2. Outstanding(k) = {}
    BY <2>1, LimitsAssumption DEF Outstanding, Slots, IsCallOn
  <2>3. \A q \in Requests : ~Reading(q, k)
    BY <2>1 DEF Reading, NoRows
  <2>4. QED
    BY <2>1, <2>2, <2>3 DEF KeyCovered, CoversCalls, Unread, AgedCalls, NewKeyState
<1>3. QED
  BY <1>1, <1>2 DEF CoverInv

\* Every step keeps the calls covered.
LEMMA CoverStep == CoverInv /\ [NextSearch]_allVars => CoverInv'
<1> SUFFICES ASSUME CoverInv, [NextSearch]_allVars PROVE CoverInv'
  OBVIOUS
<1>1. FlightInv'
  BY FlightStep DEF CoverInv
<1>2. ASSUME Quiet PROVE \A k \in Keys : KeyCovered(k)'
  BY <1>2, QuietKeepsCover
<1>3. ASSUME NEW p \in Requests,
             CacheStep(p) \/ FinishCall(p) \/ FailCall(p) \/ BeginOwnLog(p)
      PROVE  \A k \in Keys : KeyCovered(k)'
  BY <1>2, <1>3, QuietSteps
<1>4. ASSUME NEW p \in Requests, CallStep(p) PROVE \A k \in Keys : KeyCovered(k)'
  <2>1. UNCHANGED search
    BY <1>4 DEF CallStep
  <2>2. ASSUME NEW admitted \in SUBSET Keys, ListKeys(p, admitted)
        PROVE  \A k \in Keys : KeyCovered(k)'
    BY <1>2, <2>1, <2>2, QuietSteps
  <2>3. CASE AbandonAcquire(p)
    BY <1>2, <2>1, <2>3, QuietSteps
  <2>4. ASSUME NEW h \in Keys, NEW skipped \in SUBSET Keys, Reserve(p, h, skipped)
        PROVE  \A k \in Keys : KeyCovered(k)'
    BY <2>1, <2>4, ReserveKeepsCover
  <2>5. CASE Refuse(p)
    BY <2>1, <2>5, RefuseKeepsCover
  <2>6. QED
    BY <1>4, <2>2, <2>3, <2>4, <2>5 DEF CallStep
<1>5. ASSUME NEW p \in Requests, CommitOwnLog(p) \/ LoseOwnLog(p)
      PROVE  \A k \in Keys : KeyCovered(k)'
  BY <1>5, OwnLogKeepsCover
<1>6. ASSUME \/ CacheExpires \/ WorldChanges \/ UNCHANGED allVars
             \/ \E q \in Requests : CopyStep(q)
      PROVE  \A k \in Keys : KeyCovered(k)'
  BY <1>2, <1>6, QuietWorld
<1>7. CASE TimeStep
  <2>1. ASSUME NEW h \in Keys, AgeReservations(h)
        PROVE  \A k \in Keys : KeyCovered(k)'
    BY <1>7, <2>1, AgeKeepsCover DEF TimeStep
  <2>2. ASSUME \/ \E h \in Keys : MinutePasses(h)
               \/ \E cycles \in Rollovers : Rollover(cycles)
        PROVE  \A k \in Keys : KeyCovered(k)'
    BY <1>2, <1>7, <2>2, QuietWorld DEF TimeStep
  <2>3. \A k \in Keys : KeyCovered(k)'
    BY <1>7, <2>1, <2>2 DEF TimeStep
  <2>4. QED
    BY <1>1, <2>3 DEF CoverInv
<1>8. CASE RestartSearch
  BY <1>1, <1>8, RestartKeepsCover DEF CoverInv
<1>9. ASSUME NEW p \in Requests,
             \/ CacheStep(p) \/ CallStep(p) \/ FinishCall(p) \/ FailCall(p)
             \/ BeginOwnLog(p) \/ CommitOwnLog(p) \/ LoseOwnLog(p) \/ CopyStep(p)
      PROVE  CoverInv'
  BY <1>1, <1>3, <1>4, <1>5, <1>6, <1>9 DEF CoverInv
<1>10. CASE CacheExpires \/ WorldChanges \/ UNCHANGED allVars
  BY <1>1, <1>6, <1>10 DEF CoverInv
<1>11. QED
  BY <1>7, <1>8, <1>9, <1>10 DEF NextSearch, CacheStep, CopyStep

\* CoverInv is an invariant of CachedSearch.
LEMMA CoverInvariant == SpecSearch => []CoverInv
BY CoverInit, CoverStep, PTL DEF SpecSearch

\* However many callers log the calls of a flight over again, the manager forgets
\* no call that was made (Acquire, recordRequestLog).
THEOREM CoverCorrect == SpecSearch => []EveryCallCovered
<1>1. CoverInv => EveryCallCovered
  BY DEF CoverInv, KeyCovered, CoversCalls, EveryCallCovered
<1>2. QED
  BY <1>1, CoverInvariant, PTL


(***************************************************************************)
(* The quota of the first period.                                          *)
(*                                                                         *)
(* As long as a cycle has not turned over, all usage is usage of its first *)
(* period.  What the manager has observed in the period is then not less   *)
(* than what it has seen at all, so that the calls it covers are within    *)
(* the quota.                                                              *)
(***************************************************************************)

CountedInFirst(k) == \A c \in Cycles : period[c] = 1 => used[k][c] = total[k]

ObservedInFirst(s) ==
  \A c \in Cycles : period[c] = 1 =>
    /\ s.observedPeriod[c] <= 1
    /\ s.usageInitialized =>
         s.observedPeriod[c] = 1 /\ s.observed[c] >= s.usageObserved

RowsOfFirst(k) ==
  \A p \in Requests, c \in Cycles :
    Reading(p, k) /\ period[c] = 1 =>
      rows[p][k].period[c] = 1 /\ rows[p][k].used[c] = rows[p][k].total

FirstPeriod(k) ==
  CountedInFirst(k) /\ ObservedInFirst(keyStates[k]) /\ RowsOfFirst(k)

\* A log that was begun in the first period is charged to it.
LogsInFirst ==
  \A p \in Requests, c \in Cycles :
    /\ pc[p] = "logging" \/ role[p] = "logging"
    /\ period[c] = 1
    => logPeriod[p][c] = 1

FirstInv ==
  /\ CoverInv
  /\ \A k \in Keys : FirstPeriod(k)
  /\ LogsInFirst
  /\ ServedWithinQuota

\* No cycle comes back to its first period.
LEMMA PeriodsAdvance ==
  ASSUME FlightInv, [NextSearch]_allVars, NEW c \in Cycles, period'[c] = 1
  PROVE  period[c] = 1
<1>1. period[c] \in Nat /\ period[c] # 0
  BY DEF FlightInv, TypeInv, TypeOK
<1>2. ASSUME NEW cycles \in Rollovers, Rollover(cycles) PROVE period[c] = 1
  <2>1. period'[c] = IF c \in cycles THEN period[c] + 1 ELSE period[c]
    BY <1>2 DEF Rollover
  <2>2. QED
    BY <1>1, <2>1
<1>3. ASSUME UNCHANGED period PROVE period[c] = 1
  BY <1>3
<1>4. ASSUME Next PROVE \/ UNCHANGED period
                        \/ \E cycles \in Rollovers : Rollover(cycles)
  BY <1>4, ZenonT(60) DEF Next, ListKeys, AbandonAcquire, Reserve, Refuse, Release, BeginLog,
              CommitLog, LoseLog, AgeReservations, MinutePasses, Restart, database
<1>5. ASSUME NEW q \in Requests, CopyStep(q) PROVE UNCHANGED period
  BY <1>5 DEF CopyStep, BeginCopiedLog, CommitCopiedLog, LoseCopiedLog, CopyLogged,
              database
<1>6. ASSUME UNCHANGED vars PROVE UNCHANGED period
  BY <1>6 DEF vars, database
<1>7. QED
  BY <1>2, <1>3, <1>4, <1>5, <1>6, PoolStep

-----------------------------------------------------------------------------
(* Logs that are being written. *)

\* Only the beginning of a log dates it, and none ends while it is written.
LEMMA LogsKeepFirst ==
  ASSUME FirstInv, [NextSearch]_allVars
  PROVE  LogsInFirst'
<1>1. /\ FlightInv /\ TypeOK /\ OneFlight
      /\ role \in [Requests -> Roles]
      /\ \A c \in Cycles : period'[c] = 1 => period[c] = 1
  BY PeriodsAdvance DEF FirstInv, CoverInv, FlightInv, TypeInv, SearchTypes
<1>2. ASSUME \A q \in Requests :
               \/ /\ logPeriod'[q] = logPeriod[q]
                  /\ pc'[q] = "logging" => pc[q] = "logging"
                  /\ role'[q] = "logging" => role[q] = "logging"
               \/ logPeriod'[q] = period
               \/ pc'[q] # "logging" /\ role'[q] # "logging"
      PROVE  LogsInFirst'
  BY <1>1, <1>2 DEF FirstInv, LogsInFirst
<1>3. ASSUME NEW p \in Requests, CacheStep(p) PROVE LogsInFirst'
  <2>1. UNCHANGED <<pc, logPeriod>>
    BY <1>3 DEF CacheStep, StartSearch, ReadCache, EnterFlight, StoreResult, EndFlight,
                vars, requests
  <2>2. \A q \in Requests : role'[q] = "logging" => role[q] = "logging"
    <3>1. ASSUME NEW policy \in Policies, StartSearch(p, policy)
          PROVE  \A q \in Requests : role'[q] = "logging" => role[q] = "logging"
      <4>1. policy = "default" \/ policy = "refresh" \/ policy = "bypass"
        BY PoliciesAssumption
      <4>2. QED
        BY <1>1, <3>1, <4>1 DEF StartSearch, Become
    <3>2. CASE ReadCache(p)
      BY <1>1, <3>2 DEF ReadCache, Become
    <3>3. CASE EnterFlight(p)
      BY <1>1, <3>3 DEF EnterFlight, Become
    <3>4. CASE StoreResult(p)
      BY <1>1, <3>4 DEF StoreResult, Become
    <3>5. CASE EndFlight(p)
      BY <1>1, <3>5 DEF EndFlight
    <3>6. QED
      BY <1>3, <3>1, <3>2, <3>3, <3>4, <3>5 DEF CacheStep
  <2>3. QED
    BY <1>2, <2>1, <2>2
<1>4. ASSUME NEW p \in Requests, CallStep(p) \/ FinishCall(p) \/ FailCall(p)
      PROVE  LogsInFirst'
  <2>1. UNCHANGED <<role, logPeriod>>
    BY <1>4 DEF CallStep, FinishCall, FailCall, search, ListKeys, AbandonAcquire,
                Reserve, Refuse, Release
  <2>2. \A q \in Requests : pc'[q] = "logging" => pc[q] = "logging"
    BY <1>1, <1>4 DEF CallStep, FinishCall, FailCall, ListKeys, AbandonAcquire, Reserve,
                      Refuse, Release, TypeOK
  <2>3. QED
    BY <1>2, <2>1, <2>2
<1>5. ASSUME NEW p \in Requests, BeginOwnLog(p) PROVE LogsInFirst'
  BY <1>1, <1>2, <1>5 DEF BeginOwnLog, BeginLog, search, TypeOK
<1>6. ASSUME NEW p \in Requests, CommitOwnLog(p) \/ LoseOwnLog(p) PROVE LogsInFirst'
  BY <1>1, <1>2, <1>6 DEF CommitOwnLog, LoseOwnLog, CommitLog, LoseLog, Finished, Become,
                          TypeOK
<1>7. ASSUME NEW q \in Requests, CopyStep(q) PROVE LogsInFirst'
  <2>1. CASE BeginCopiedLog(q)
    BY <1>1, <1>2, <2>1 DEF BeginCopiedLog, Become, TypeOK
  <2>2. CASE CommitCopiedLog(q) \/ LoseCopiedLog(q)
    <3>1. /\ role[q] = "logging"
          /\ role' = [role EXCEPT ![q] = "none"]
          /\ logPeriod' = [logPeriod EXCEPT ![q] = NoPeriod]
          /\ UNCHANGED pc
      BY <2>2 DEF CommitCopiedLog, LoseCopiedLog, CopyLogged, Become
    <3>2. pc[q] # "logging"
      BY <1>1, <3>1 DEF OneFlight
    <3>3. QED
      BY <1>1, <1>2, <3>1, <3>2 DEF TypeOK
  <2>3. QED
    BY <1>7, <2>1, <2>2 DEF CopyStep
<1>8. CASE CacheExpires \/ WorldChanges \/ TimeStep \/ UNCHANGED allVars
  <2>1. UNCHANGED <<pc, role, logPeriod>>
    BY <1>8 DEF CacheExpires, WorldChanges, TimeStep, AgeReservations, MinutePasses,
                Rollover, allVars, search, vars, requests
  <2>2. QED
    BY <1>2, <2>1
<1>9. CASE RestartSearch
  BY <1>2, <1>9 DEF RestartSearch, Restart
<1>10. QED
  BY <1>3, <1>4, <1>5, <1>6, <1>7, <1>8, <1>9 DEF NextSearch, CacheStep, CopyStep

-----------------------------------------------------------------------------
(* What is known of the first period. *)

SameFirst(k) ==
  /\ \A c \in Cycles :
       period'[c] = 1 /\ used[k][c] = total[k] => used'[k][c] = total'[k]
  /\ keyStates'[k].usageInitialized = keyStates[k].usageInitialized
  /\ keyStates'[k].usageObserved = keyStates[k].usageObserved
  /\ keyStates'[k].observedPeriod = keyStates[k].observedPeriod
  /\ keyStates'[k].observed = keyStates[k].observed
  /\ \A q \in Requests : Reading(q, k)' =>
       \/ Reading(q, k) /\ rows'[q][k] = rows[q][k]
       \/ /\ UNCHANGED <<total, used, period>>
          /\ rows'[q][k].total = total[k]
          /\ rows'[q][k].period = period
          /\ rows'[q][k].used = used[k]

\* A step that counts usage in its period, or takes a new reading, leaves what is
\* known of the first period.
LEMMA FirstKept ==
  ASSUME NEW k \in Keys, FirstPeriod(k), SameFirst(k),
         \A c \in Cycles : period'[c] = 1 => period[c] = 1
  PROVE  FirstPeriod(k)'
<1>1. CountedInFirst(k)'
  BY DEF FirstPeriod, CountedInFirst, SameFirst
<1>2. ObservedInFirst(keyStates[k])'
  BY DEF FirstPeriod, ObservedInFirst, SameFirst
<1>3. RowsOfFirst(k)'
  <2> SUFFICES ASSUME NEW q \in Requests, NEW c \in Cycles, Reading(q, k)', period'[c] = 1
               PROVE  /\ rows'[q][k].period[c] = 1
                      /\ rows'[q][k].used[c] = rows'[q][k].total
    BY DEF RowsOfFirst
  <2>1. CASE Reading(q, k) /\ rows'[q][k] = rows[q][k]
    BY <2>1 DEF FirstPeriod, RowsOfFirst
  <2>2. CASE /\ rows'[q][k].total = total[k]
             /\ rows'[q][k].period = period
             /\ rows'[q][k].used = used[k]
    BY <2>2 DEF FirstPeriod, CountedInFirst
  <2>3. QED
    BY <2>1, <2>2 DEF SameFirst
<1>4. QED
  BY <1>1, <1>2, <1>3 DEF FirstPeriod

\* All steps but a look at the key and a restart are such steps.
LEMMA SameFirstSteps ==
  ASSUME FirstInv, NEW p \in Requests, NEW k \in Keys,
         \/ CacheStep(p) \/ FinishCall(p) \/ FailCall(p) \/ BeginOwnLog(p)
         \/ CommitOwnLog(p) \/ LoseOwnLog(p) \/ CopyStep(p)
         \/ \E admitted \in SUBSET Keys : ListKeys(p, admitted)
         \/ AbandonAcquire(p)
  PROVE  SameFirst(k)
<1>1. /\ TypeOK /\ Phases /\ LogsInFirst
  BY DEF FirstInv, CoverInv, FlightInv, TypeInv
<1>2. CASE CacheStep(p)
  <2>1. UNCHANGED vars
    BY <1>2 DEF CacheStep, StartSearch, ReadCache, EnterFlight, StoreResult, EndFlight
  <2>2. QED
    BY <2>1 DEF vars, memory, database, requests, SameFirst, Reading
<1>3. CASE FinishCall(p) \/ FailCall(p)
  <2>1. UNCHANGED <<total, used, period, rows>>
    BY <1>3 DEF FinishCall, FailCall, Release, database
  <2>2. PICK h \in Keys : h = HeldKey(p)
    BY <1>1, <1>3 DEF FinishCall, FailCall, Release, HeldKey, TypeOK, InCall
  <2>3. keyStates' = [keyStates EXCEPT ![h].active = IF @ > 0 THEN @ - 1 ELSE 0]
    BY <1>3, <2>2 DEF FinishCall, FailCall, Release, ReleaseCounters
  <2>4. /\ keyStates'[k].usageInitialized = keyStates[k].usageInitialized
        /\ keyStates'[k].usageObserved = keyStates[k].usageObserved
        /\ keyStates'[k].observedPeriod = keyStates[k].observedPeriod
        /\ keyStates'[k].observed = keyStates[k].observed
    BY <1>1, <2>3 DEF TypeOK, KeyState
  <2>5. QED
    BY <2>1, <2>4 DEF SameFirst, Reading
<1>4. CASE BeginOwnLog(p) \/ LoseOwnLog(p)
  <2>1. UNCHANGED <<keyStates, total, used, period, rows>>
    BY <1>4 DEF BeginOwnLog, BeginLog, LoseOwnLog, LoseLog, memory, database
  <2>2. QED
    BY <2>1 DEF SameFirst, Reading
<1>5. CASE CommitOwnLog(p)
  <2>1. /\ pc[p] = "logging"
        /\ UNCHANGED <<keyStates, period, rows>>
        /\ total'[k] = total[k] + Cardinality(CallsOf(p, k))
        /\ \A c \in Cycles : used'[k][c] =
             IF logPeriod[p][c] = period[c]
               THEN used[k][c] + Cardinality(CallsOf(p, k)) ELSE used[k][c]
    BY <1>5 DEF CommitOwnLog, CommitLog
  <2>2. \A c \in Cycles : period[c] = 1 => logPeriod[p][c] = 1
    BY <1>1, <2>1 DEF LogsInFirst
  <2>3. QED
    BY <2>1, <2>2 DEF SameFirst, Reading
<1>6. CASE CopyStep(p)
  <2>1. UNCHANGED <<keyStates, period, rows>>
    BY <1>6 DEF CopyStep, BeginCopiedLog, CommitCopiedLog, LoseCopiedLog, CopyLogged,
                memory, database
  <2>2. CASE BeginCopiedLog(p) \/ LoseCopiedLog(p)
    BY <2>1, <2>2 DEF BeginCopiedLog, LoseCopiedLog, database, SameFirst, Reading
  <2>3. CASE CommitCopiedLog(p)
    <3>1. /\ role[p] = "logging"
          /\ total'[k] = total[k] + CopiesOf(p, k)
          /\ \A c \in Cycles : used'[k][c] =
               IF logPeriod[p][c] = period[c]
                 THEN used[k][c] + CopiesOf(p, k) ELSE used[k][c]
      BY <2>3 DEF CommitCopiedLog
    <3>2. \A c \in Cycles : period[c] = 1 => logPeriod[p][c] = 1
      BY <1>1, <3>1 DEF LogsInFirst
    <3>3. QED
      BY <2>1, <3>1, <3>2 DEF SameFirst, Reading
  <2>4. QED
    BY <1>6, <2>2, <2>3 DEF CopyStep
<1>7. ASSUME NEW admitted \in SUBSET Keys, ListKeys(p, admitted) PROVE SameFirst(k)
  <2>1. UNCHANGED <<keyStates, total, used, period>>
    BY <1>7 DEF ListKeys, memory, database
  <2>2. rows' = rows \/ rows' = [rows EXCEPT ![p] = ReadRows(admitted)]
    BY <1>7 DEF ListKeys
  <2>3. k \in DOMAIN ReadRows(admitted) =>
          /\ ReadRows(admitted)[k].total = total[k]
          /\ ReadRows(admitted)[k].period = period
          /\ ReadRows(admitted)[k].used = used[k]
    BY DEF ReadRows
  <2>4. QED
    BY <1>1, <2>1, <2>2, <2>3 DEF SameFirst, Reading, TypeOK
<1>8. CASE AbandonAcquire(p)
  <2>1. UNCHANGED <<keyStates, total, used, period>>
    BY <1>8 DEF AbandonAcquire, memory, database
  <2>2. QED
    BY <1>1, <1>8, <2>1 DEF AbandonAcquire, SameFirst, Reading, NoRows, TypeOK
<1>9. QED
  BY <1>2, <1>3, <1>4, <1>5, <1>6, <1>7, <1>8

\* So are the steps beside the searches.
LEMMA SameFirstWorld ==
  ASSUME FirstInv, NEW k \in Keys,
         CacheExpires \/ WorldChanges \/ TimeStep \/ UNCHANGED allVars
  PROVE  SameFirst(k)
<1>1. TypeOK
  BY DEF FirstInv, CoverInv, FlightInv, TypeInv
<1>2. CASE CacheExpires \/ WorldChanges \/ UNCHANGED allVars
  <2>1. UNCHANGED vars
    BY <1>2 DEF CacheExpires, WorldChanges, allVars
  <2>2. QED
    BY <2>1 DEF vars, memory, database, requests, SameFirst, Reading
<1>3. ASSUME NEW h \in Keys, AgeReservations(h) PROVE SameFirst(k)
  BY <1>3 DEF AgeReservations, database, requests, SameFirst, Reading
<1>4. ASSUME NEW h \in Keys, MinutePasses(h) PROVE SameFirst(k)
  <2>1. keyStates' = [keyStates EXCEPT ![h].windowElapsed = TRUE]
    BY <1>4 DEF MinutePasses
  <2>2. /\ keyStates'[k].usageInitialized = keyStates[k].usageInitialized
        /\ keyStates'[k].usageObserved = keyStates[k].usageObserved
        /\ keyStates'[k].observedPeriod = keyStates[k].observedPeriod
        /\ keyStates'[k].observed = keyStates[k].observed
    BY <1>1, <2>1 DEF TypeOK, KeyState
  <2>3. QED
    BY <1>4, <2>2 DEF MinutePasses, database, requests, SameFirst, Reading
<1>5. ASSUME NEW cycles \in Rollovers, Rollover(cycles) PROVE SameFirst(k)
  <2>1. UNCHANGED <<keyStates, total, rows>>
    BY <1>5 DEF Rollover, memory, requests
  <2>2. ASSUME NEW c \in Cycles, period'[c] = 1 PROVE used'[k][c] = used[k][c]
    <3>1. period[c] \in Nat /\ period[c] # 0
      BY <1>1 DEF TypeOK
    <3>2. period'[c] = IF c \in cycles THEN period[c] + 1 ELSE period[c]
      BY <1>5 DEF Rollover
    <3>3. c \notin cycles
      BY <2>2, <3>1, <3>2
    <3>4. QED
      BY <1>5, <3>3 DEF Rollover
  <2>3. QED
    BY <2>1, <2>2 DEF SameFirst, Reading
<1>6. QED
  BY <1>2, <1>3, <1>4, <1>5 DEF TimeStep

\* A look at a key with rows of the first period keeps its observations in step.
LEMMA VisitedFirst ==
  ASSUME FirstInv, NEW p \in Requests, NEW looked \in SUBSET DOMAIN rows[p],
         NEW k \in Keys
  PROVE  ObservedInFirst(VisitedStates(p, looked)[k])
<1> DEFINE s == keyStates[k]
           row == rows[p][k]
           v == VisitedStates(p, looked)[k]
<1>1. /\ FlightInv /\ TypeOK
      /\ s \in KeyState
      /\ ObservedInFirst(s)
      /\ RowsOfFirst(k)
  BY KeyTypes DEF FirstInv, CoverInv, FlightInv, TypeInv, FirstPeriod
<1>2. CASE k \notin looked
  BY <1>1, <1>2 DEF VisitedStates
<1>3. CASE k \in looked
  <2>1. v = Visited(k, pendingAge[k], row) /\ Reading(p, k)
    BY <1>3 DEF VisitedStates, Reading
  <2>2. row \in Row
    BY <1>1, <2>1, KeyTypes
  <2>3. \A c \in Cycles :
          /\ v.observedPeriod[c] =
               IF row.period[c] > s.observedPeriod[c]
                 THEN row.period[c] ELSE s.observedPeriod[c]
          /\ v.observed[c] =
               IF \/ row.period[c] > s.observedPeriod[c]
                  \/ /\ row.period[c] = s.observedPeriod[c]
                     /\ row.used[c] > s.observed[c]
                 THEN row.used[c] ELSE s.observed[c]
    BY <1>1, <2>1, <2>2, VisitedFacts
  <2>4. \/ v.usageObserved = ReconcileReservation(s, row.total).usageObserved
        \/ v.usageObserved = row.total
    BY <1>1, <2>1, <2>2, VisitedFacts
  <2>5. ReconcileReservation(s, row.total).usageObserved =
          IF ~s.usageInitialized \/ row.total > s.usageObserved
            THEN row.total ELSE s.usageObserved
    BY <1>1, <2>2, ReconcileReservationFacts DEF Row
  <2> SUFFICES ASSUME NEW c \in Cycles, period[c] = 1
               PROVE  v.observedPeriod[c] = 1 /\ v.observed[c] >= v.usageObserved
    BY DEF ObservedInFirst
  <2>6. /\ row.period[c] = 1 /\ row.used[c] = row.total /\ row.total \in Nat
        /\ s.observedPeriod[c] \in Nat /\ s.observed[c] \in Nat
        /\ s.usageObserved \in Nat
        /\ s.observedPeriod[c] <= 1
        /\ s.usageInitialized =>
             s.observedPeriod[c] = 1 /\ s.observed[c] >= s.usageObserved
    BY <1>1, <2>1, <2>2 DEF RowsOfFirst, ObservedInFirst, Row, KeyState
  <2> HIDE DEF v, s, row
  <2>7. /\ v.observedPeriod[c] =
             IF row.period[c] > s.observedPeriod[c]
               THEN row.period[c] ELSE s.observedPeriod[c]
        /\ v.observed[c] =
             IF \/ row.period[c] > s.observedPeriod[c]
                \/ /\ row.period[c] = s.observedPeriod[c]
                   /\ row.used[c] > s.observed[c]
               THEN row.used[c] ELSE s.observed[c]
    BY <2>3
  <2>8. \/ v.usageObserved = row.total
        \/ s.usageInitialized /\ v.usageObserved = s.usageObserved
    BY <2>4, <2>5
  <2>9. QED
    BY <2>6, <2>7, <2>8
<1>4. QED
  BY <1>2, <1>3

\* Reserve and Refuse: the rows are gone, the database is as it was.
LEMMA LookKeepsFirst ==
  ASSUME FirstInv, NEW k \in Keys, ObservedInFirst(keyStates'[k]),
         UNCHANGED <<total, used, period>>, RowsShrink(k)
  PROVE  FirstPeriod(k)'
<1>1. FirstPeriod(k)
  BY DEF FirstInv
<1>2. CountedInFirst(k)' /\ ObservedInFirst(keyStates[k])'
  BY <1>1 DEF FirstPeriod, CountedInFirst, ObservedInFirst
<1>3. RowsOfFirst(k)'
  BY <1>1 DEF FirstPeriod, RowsOfFirst, RowsShrink
<1>4. QED
  BY <1>2, <1>3 DEF FirstPeriod

-----------------------------------------------------------------------------
(* The quota. *)

\* Where no more calls are recorded or under way than before, the quota is kept.
LEMMA NoMoreServed ==
  ASSUME FirstInv, NEW k \in Keys,
         real'[k] \in Nat, Cardinality(Outstanding(k)') \in Nat,
         real'[k] + Cardinality(Outstanding(k)')
           <= real[k] + Cardinality(Outstanding(k)),
         \A c \in Cycles : period'[c] = 1 => period[c] = 1,
         NEW c \in Cycles, Quota[k][c] > 0, period'[c] = 1
  PROVE  real'[k] + Cardinality(Outstanding(k)') <= Quota[k][c]
<1>1. real[k] + Cardinality(Outstanding(k)) <= Quota[k][c]
  BY DEF FirstInv, ServedWithinQuota
<1>2. real[k] \in Nat /\ Cardinality(Outstanding(k)) \in Nat /\ Quota[k][c] \in Nat
  BY SearchKeyTypes, KeyTypes, LimitsAssumption DEF FirstInv, CoverInv
<1>3. QED
  BY <1>1, <1>2

\* Acquire handing out a key: canUse found room for one more call.
LEMMA ReserveKeepsFirst ==
  ASSUME FirstInv, NEW p \in Requests, NEW h \in Keys, NEW skipped \in SUBSET Keys,
         Reserve(p, h, skipped), UNCHANGED search
  PROVE  (\A k \in Keys : FirstPeriod(k)') /\ ServedWithinQuota'
<1> DEFINE looked == skipped \cup {h}
           visited == VisitedStates(p, looked)
<1>1. /\ CoverInv /\ FlightInv /\ TypeOK /\ Phases
  BY DEF FirstInv, CoverInv, FlightInv, TypeInv
<1>2. /\ looked \in SUBSET DOMAIN rows[p]
      /\ CanUse(h, visited[h])
      /\ keyStates' = [visited EXCEPT ![h] = Taken(h, visited[h])]
      /\ UNCHANGED <<total, used, period, real>>
  BY DEF Reserve, database, search
<1>3. \A k \in Keys : RowsShrink(k)
  BY <1>1 DEF Reserve, RowsShrink, Reading, TypeOK, NoRows
<1>4. \A k \in Keys : ObservedInFirst(visited[k])
  BY <1>2, VisitedFirst
<1>5. visited \in [Keys -> KeyState]
  BY <1>1, <1>2, VisitedStatesType
<1>6. CoversCalls(h, visited[h], LostAfter(h, visited[h])) /\ visited[h].usageInitialized
  BY <1>1, <1>2, VisitedStatesCover
<1>7. \A k \in Keys : Cardinality(Outstanding(k)')
                        = Cardinality(Outstanding(k)) + (IF k = h THEN 1 ELSE 0)
  BY <1>1, ReserveKeepsCover
<1> HIDE DEF visited, looked
<1>8. ASSUME NEW k \in Keys PROVE FirstPeriod(k)'
  <2>1. ObservedInFirst(keyStates'[k])
    <3>1. CASE k = h
      <4>1. /\ keyStates'[h].usageInitialized = visited[h].usageInitialized
            /\ keyStates'[h].usageObserved = visited[h].usageObserved
            /\ keyStates'[h].observedPeriod = visited[h].observedPeriod
            /\ keyStates'[h].observed = visited[h].observed
        BY <1>2, <1>5, TakenFacts
      <4>2. QED
        BY <1>4, <3>1, <4>1 DEF ObservedInFirst
    <3>2. CASE k # h
      BY <1>2, <1>4, <1>5, <3>2
    <3>3. QED
      BY <3>1, <3>2
  <2>2. QED
    BY <1>2, <1>3, <2>1, LookKeepsFirst
<1>9. ASSUME NEW k \in Keys, NEW c \in Cycles, Quota[k][c] > 0, period'[c] = 1
      PROVE  real'[k] + Cardinality(Outstanding(k)') <= Quota[k][c]
  <2>1. period[c] = 1 /\ real'[k] = real[k]
    BY <1>2, <1>9
  <2>2. /\ real[k] \in Nat /\ Cardinality(Outstanding(k)) \in Nat /\ Quota[k][c] \in Nat
        /\ real[k] + Cardinality(Outstanding(k)) <= Quota[k][c]
    BY <1>1, <1>9, <2>1, SearchKeyTypes, KeyTypes, LimitsAssumption
       DEF FirstInv, ServedWithinQuota
  <2>3. CASE k # h
    <3>1. Cardinality(Outstanding(k)') = Cardinality(Outstanding(k))
      BY <1>7, <2>2, <2>3
    <3>2. QED
      BY <2>1, <2>2, <3>1
  <2>4. CASE k = h
    <3>1. visited[h].observed[c] + visited[h].pendingReservations < Quota[h][c]
      BY <1>2, <1>9, <2>4 DEF CanUse
    <3>2. visited[h].observed[c] >= visited[h].usageObserved
      BY <1>4, <1>6, <2>1 DEF ObservedInFirst
    <3>3. visited[h].usageObserved + visited[h].pendingReservations
            >= real[h] + Cardinality(Outstanding(h)) + LostAfter(h, visited[h])
      BY <1>6 DEF CoversCalls
    <3>4. /\ visited[h].observed[c] \in Nat
          /\ visited[h].usageObserved \in Nat
          /\ visited[h].pendingReservations \in Nat
      BY <1>5 DEF KeyState
    <3>5. LostAfter(h, visited[h]) \in Nat
      BY <1>1, KeyTypes DEF LostAfter
    <3>6. Cardinality(Outstanding(h)') = Cardinality(Outstanding(h)) + 1
      BY <1>7
    <3>7. real[h] + Cardinality(Outstanding(h)) + 1 <= Quota[h][c]
      BY <2>2, <2>4, <3>1, <3>2, <3>3, <3>4, <3>5
    <3>8. QED
      BY <2>1, <2>2, <2>4, <3>6, <3>7
  <2>5. QED
    BY <2>3, <2>4
<1>10. QED
  BY <1>8, <1>9 DEF ServedWithinQuota

\* Acquire refusing keeps what is known of the first period.
LEMMA RefuseKeepsFirst ==
  ASSUME FirstInv, NEW p \in Requests, Refuse(p), NEW k \in Keys
  PROVE  FirstPeriod(k)'
<1> DEFINE looked == IF ProviderBusy THEN {} ELSE DOMAIN rows[p]
<1>1. TypeOK
  BY DEF FirstInv, CoverInv, FlightInv, TypeInv
<1>2. /\ looked \in SUBSET DOMAIN rows[p]
      /\ keyStates' = VisitedStates(p, looked)
      /\ UNCHANGED <<total, used, period>>
  BY DEF Refuse, database
<1>3. RowsShrink(k)
  BY <1>1 DEF Refuse, RowsShrink, Reading, TypeOK, NoRows
<1> HIDE DEF looked
<1>4. ObservedInFirst(keyStates'[k])
  BY <1>2, VisitedFirst
<1>5. QED
  BY <1>2, <1>3, <1>4, LookKeepsFirst

\* A new process has observed nothing.
LEMMA RestartKeepsFirst ==
  ASSUME FirstInv, RestartSearch, NEW k \in Keys
  PROVE  FirstPeriod(k)'
<1>1. /\ keyStates'[k] = NewKeyState
      /\ \A q \in Requests : rows'[q] = NoRows
      /\ UNCHANGED <<total, used, period>>
  BY DEF RestartSearch, Restart, database
<1>2. CountedInFirst(k)'
  BY <1>1 DEF FirstInv, FirstPeriod, CountedInFirst
<1>3. ObservedInFirst(keyStates[k])'
  BY <1>1 DEF ObservedInFirst, NewKeyState, NoPeriod
<1>4. RowsOfFirst(k)'
  BY <1>1 DEF RowsOfFirst, Reading, NoRows
<1>5. QED
  BY <1>2, <1>3, <1>4 DEF FirstPeriod

-----------------------------------------------------------------------------

\* Nothing is recorded at first.
LEMMA FirstInit == InitSearch => FirstInv
<1> SUFFICES ASSUME InitSearch PROVE FirstInv
  OBVIOUS
<1>1. CoverInv
  BY CoverInit
<1>2. ASSUME NEW k \in Keys PROVE FirstPeriod(k)
  BY DEF InitSearch, Init, FirstPeriod, CountedInFirst, ObservedInFirst, RowsOfFirst,
         NewKeyState, NoPeriod, Reading, NoRows
<1>3. LogsInFirst
  BY DEF InitSearch, Init, LogsInFirst
<1>4. ServedWithinQuota
  <2>1. ASSUME NEW k \in Keys
        PROVE  real[k] + Cardinality(Outstanding(k)) = 0
    <3>1. real[k] = 0 /\ \A q \in Requests : attempts[q] = <<>>
      BY DEF InitSearch, Init
    <3>2. Outstanding(k) = {}
      BY <3>1, LimitsAssumption DEF Outstanding, Slots, IsCallOn
    <3>3. QED
      BY <3>1, <3>2, FS_EmptySet
  <2>2. QED
    BY <2>1, LimitsAssumption DEF ServedWithinQuota
<1>5. QED
  BY <1>1, <1>2, <1>3, <1>4 DEF FirstInv

\* Every step keeps what is known of the first period, and its quota.
LEMMA FirstStep == FirstInv /\ [NextSearch]_allVars => FirstInv'
<1> SUFFICES ASSUME FirstInv, [NextSearch]_allVars PROVE FirstInv'
  OBVIOUS
<1>1. CoverInv' /\ LogsInFirst'
  BY CoverStep, LogsKeepFirst DEF FirstInv
<1>2. /\ CoverInv /\ FlightInv
      /\ \A k \in Keys : FirstPeriod(k)
      /\ \A c \in Cycles : period'[c] = 1 => period[c] = 1
  BY PeriodsAdvance DEF FirstInv, CoverInv
<1>3. \A k \in Keys : /\ real'[k] \in Nat
                      /\ Cardinality(Outstanding(k)') \in Nat
                      /\ Cardinality(Outstanding(k)) \in Nat
                      /\ real[k] \in Nat
  <2>1. real' \in [Keys -> Nat] /\ real \in [Keys -> Nat]
    BY <1>1, <1>2 DEF CoverInv, FlightInv, SearchTypes
  <2>2. Slots' = Slots
    BY DEF Slots
  <2>3. \A k : IsFiniteSet(Outstanding(k)')
    BY <2>2, SlotsFinite, FS_Subset DEF Outstanding
  <2>4. QED
    BY <2>1, <2>3, SlotsFinite, FS_CardinalityType
<1>4. ASSUME \A k \in Keys : SameFirst(k) PROVE \A k \in Keys : FirstPeriod(k)'
  BY <1>2, <1>4, FirstKept
<1>5. ASSUME \A k \in Keys : real'[k] + Cardinality(Outstanding(k)')
                               <= real[k] + Cardinality(Outstanding(k))
      PROVE  ServedWithinQuota'
  BY <1>2, <1>3, <1>5, NoMoreServed DEF ServedWithinQuota
<1>6. ASSUME UNCHANGED <<attempts, real>> PROVE ServedWithinQuota'
  <2>1. \A k : Outstanding(k)' = Outstanding(k)
    BY <1>6 DEF Outstanding, Slots, IsCallOn
  <2>2. QED
    BY <1>3, <1>5, <1>6, <2>1
<1>7. ASSUME NEW p \in Requests,
             \/ CacheStep(p) \/ FinishCall(p) \/ FailCall(p) \/ BeginOwnLog(p)
             \/ CopyStep(p)
             \/ \E admitted \in SUBSET Keys : ListKeys(p, admitted) /\ UNCHANGED search
             \/ AbandonAcquire(p) /\ UNCHANGED search
      PROVE  FirstInv'
  <2>1. \A k \in Keys : FirstPeriod(k)'
    BY <1>4, <1>7, SameFirstSteps
  <2>2. Quiet
    BY <1>2, <1>7, QuietSteps, QuietWorld
  <2>3. QED
    BY <1>1, <1>6, <2>1, <2>2 DEF Quiet, FirstInv
<1>8. ASSUME NEW p \in Requests, NEW h \in Keys, NEW skipped \in SUBSET Keys,
             Reserve(p, h, skipped), UNCHANGED search
      PROVE  FirstInv'
  BY <1>1, <1>8, ReserveKeepsFirst DEF FirstInv
<1>9. ASSUME NEW p \in Requests, Refuse(p), UNCHANGED search PROVE FirstInv'
  <2>1. UNCHANGED <<attempts, real>>
    BY <1>9 DEF Refuse, search
  <2>2. QED
    BY <1>1, <1>6, <1>9, <2>1, RefuseKeepsFirst DEF FirstInv
<1>10. ASSUME NEW p \in Requests, CommitOwnLog(p) \/ LoseOwnLog(p) PROVE FirstInv'
  <2>1. \A k \in Keys : FirstPeriod(k)'
    BY <1>4, <1>10, SameFirstSteps
  <2>2. ServedWithinQuota'
    BY <1>2, <1>5, <1>10, OwnLogKeepsCover
  <2>3. QED
    BY <1>1, <2>1, <2>2 DEF FirstInv
<1>11. CASE CacheExpires \/ WorldChanges \/ TimeStep \/ UNCHANGED allVars
  <2>1. \A k \in Keys : FirstPeriod(k)'
    BY <1>4, <1>11, SameFirstWorld
  <2>2. UNCHANGED <<attempts, real>>
    BY <1>11 DEF CacheExpires, WorldChanges, TimeStep, AgeReservations, MinutePasses,
                 Rollover, allVars, search, vars, requests
  <2>3. QED
    BY <1>1, <1>6, <2>1, <2>2 DEF FirstInv
<1>12. CASE RestartSearch
  <2>1. \A k \in Keys : FirstPeriod(k)'
    BY <1>12, RestartKeepsFirst
  <2>2. \A k \in Keys : Outstanding(k)' = {} /\ real'[k] = real[k]
    BY <1>2, <1>12, RestartKeepsCover
  <2>3. ServedWithinQuota'
    <3>1. Cardinality({}) = 0
      BY FS_EmptySet
    <3>2. \A k \in Keys : real'[k] + Cardinality(Outstanding(k)')
                             <= real[k] + Cardinality(Outstanding(k))
      <4> TAKE k \in Keys
      <4>1. Cardinality(Outstanding(k)') = 0 /\ real'[k] = real[k]
        BY <2>2, <3>1
      <4>2. QED
        BY <1>3, <4>1
    <3>3. QED
      BY <1>5, <3>2
  <2>4. QED
    BY <1>1, <2>1, <2>3 DEF FirstInv
<1>13. QED
  BY <1>7, <1>8, <1>9, <1>10, <1>11, <1>12 DEF NextSearch, CacheStep, CopyStep, CallStep

\* FirstInv is an invariant of CachedSearch.
LEMMA FirstInvariant == SpecSearch => []FirstInv
BY FirstInit, FirstStep, PTL DEF SpecSearch

\* Until a cycle turns over, the upstream serves no more calls on a key than its
\* quota: what followers log over again uses the quota up and never stretches it.
THEOREM ServedCorrect == SpecSearch => []ServedWithinQuota
<1>1. FirstInv => ServedWithinQuota
  BY DEF FirstInv
<1>2. QED
  BY <1>1, FirstInvariant, PTL


(***************************************************************************)
(* The slots of concurrency.                                               *)
(***************************************************************************)

\* The log of a follower holds no slot, and every other step is one of KeyPool.
LEMMA SlotSearchStep ==
  ASSUME FlightInv, SlotsAccounted, ConcurrencyHeld, [NextSearch]_allVars
  PROVE  SlotsAccounted' /\ ConcurrencyHeld'
<1>1. SlotInv
  BY DEF SlotInv, FlightInv
<1>2. CASE [Next]_vars
  BY <1>1, <1>2, SlotStep
<1>3. ASSUME NEW q \in Requests, CopyStep(q) PROVE SlotsAccounted' /\ ConcurrencyHeld'
  <2>1. UNCHANGED <<keyStates, providerActive, pc, attempts>>
    BY <1>3 DEF CopyStep, BeginCopiedLog, CommitCopiedLog, LoseCopiedLog, CopyLogged,
                memory
  <2>2. QED
    BY <1>1, <2>1, SameCalls DEF InCall
<1>4. QED
  BY <1>2, <1>3, PoolStep

\* Coalesced searches keep the limits of concurrency of keys and provider, and leak
\* no slot, as the searches that nobody joins do.
THEOREM SearchConcurrencyCorrect == SpecSearch => [](SlotsAccounted /\ ConcurrencyHeld)
<1>1. InitSearch => SlotsAccounted /\ ConcurrencyHeld
  BY SlotInit DEF InitSearch
<1>2. FlightInv /\ SlotsAccounted /\ ConcurrencyHeld /\ [NextSearch]_allVars
        => SlotsAccounted' /\ ConcurrencyHeld'
  BY SlotSearchStep
<1>3. QED
  BY <1>1, <1>2, FlightInvariant, PTL DEF SpecSearch

=============================================================================
