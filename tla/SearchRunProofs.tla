--------------------------- MODULE SearchRunProofs ---------------------------
(***************************************************************************)
(* Proofs about SearchRun, for any callers, providers, searches, deadlines *)
(* and retries: types and bounds, where answers come from, that they are   *)
(* the best of what was found, what the cache keeps, who is kept waiting,  *)
(* and that the runs keep the promise of SearchPromise.                    *)
(*                                                                         *)
(* The properties are inductive together with what holds of every run at   *)
(* any moment (RunSound: the providers asked come in the order of the      *)
(* mode, and those not settled have no outcome), of a run whose result is  *)
(* being stored (StoringSound), and of the time of those who wait: whoever *)
(* joined a flight has no less of it than the one who leads it             *)
(* (FlightLed), because all who name the same providers are given the same *)
(* and none is passed while somebody is on its way to the flight           *)
(* (TimeGiven).                                                            *)
(***************************************************************************)
EXTENDS SearchRun, ListProofs

Outcomes == {"results", "empty", "failed"}

RunRecords ==
  [step : Steps, attempt : Nat, left : Nat, outcome : Outcomes \cup {"none"}]

\* The orders a search may end up with (Orders of SearchPromise).
AskedOrders ==
  {FilterEnabled(order) : order \in UNION {RouteProviders(s.names) : s \in Searches}}

\* The order of the mode: why a provider may have been asked.
HadTurn(c, i) ==
  /\ mode = "single" => i = 1
  /\ mode = "fallback" => \A j \in 1..(i - 1) : run[c][j].outcome \in {"empty", "failed"}

\* What holds of provider i of a run, at any moment.
CallSound(c, i) ==
  /\ run[c][i].step = "unasked" => run[c][i].attempt = 0
  /\ run[c][i].step = "retrying" => run[c][i].attempt <= KeyRetryCount[asked[c][i]]
  /\ run[c][i].attempt <= KeyRetryCount[asked[c][i]] + 1
  /\ run[c][i].left <= left[c]
  /\ run[c][i].outcome = "none" <=> run[c][i].step # "settled"
  /\ run[c][i].step # "unasked" => HadTurn(c, i)

\* Runs belong to those that run, and cover the providers asked for.
RunOK(c) ==
  /\ c \in Open => DOMAIN run[c] = DOMAIN asked[c]
  /\ c \notin Open => run[c] = <<>>
  /\ \A i \in DOMAIN run[c] : CallSound(c, i)

RunSound == run \in [Callers -> Seq(RunRecords)] /\ \A c \in Callers : RunOK(c)

\* A run has got all it will get.
Over(c) ==
  \/ \A i \in DOMAIN run[c] : run[c][i].outcome # "none"
  \/ mode = "single" /\ \E i \in DOMAIN run[c] : run[c][i].outcome # "none"
  \/ mode = "fallback" /\ \E i \in DOMAIN run[c] : run[c][i].outcome = "results"
  \/ mode = "fallback" /\ left[c] = 0

\* What is being stored is over, and worth it.
StoreOK(c) == pc[c] = "storing" => Over(c) /\ ShouldCache(AnswerOf(CallsOf(c)))

StoringSound == \A c \in Callers : StoreOK(c)

\* The time of a search is that of the providers it names.
TimeOK(c) ==
  /\ pc[c] \in {"reading", "entering"} => left[c] = RequestTimeout(asked[c])
  /\ pc[c] # "idle" => asked[c] \in AskedOrders
  /\ pc[c] \notin {"idle", "logging"} => left[c] <= RequestTimeout(asked[c])

TimeGiven == \A c \in Callers : TimeOK(c)

\* Whoever waits for a flight is led by one with no more time left.
FlightLed ==
  \A c \in Callers : pc[c] = "waiting" =>
    \E d \in Callers : Leads(d, CacheKey(asked[c])) /\ left[d] <= left[c]

ProvidersOf(calls) == {calls[i].provider : i \in DOMAIN calls}

\* Only who is about to be told has an answer, and only from those it named.
AnswerOK(c) ==
  /\ pc[c] # "logging" => answer[c] = NoAnswer
  /\ ProvidersOf(answer[c].calls) \subseteq ToSet(asked[c])
  /\ (mode = "parallel" /\ answer[c].status = "success") =>
       ProvidersOf(answer[c].calls) = ToSet(asked[c])

AnswersSound == \A c \in Callers : AnswerOK(c)

\* A row of the cache is the answer of providers of its key.
RowsSound ==
  \A key \in SUBSET Providers : ProvidersOf(cache[key].calls) \subseteq key

VarsOK ==
  /\ mode \in Modes
  /\ pc \in [Callers -> {"idle", "reading", "refused", "entering", "waiting",
                         "leading", "storing", "alone", "logging"}]
  /\ asked \in [Callers -> Seq(Enabled)]
  /\ left \in [Callers -> Nat]
  /\ answer \in [Callers -> Answers]
  /\ cache \in [SUBSET Providers -> Answers]

SearchInv ==
  /\ VarsOK /\ RunSound /\ StoringSound
  /\ TimeGiven /\ FlightLed
  /\ AnswersSound /\ RowsSound /\ CacheIsWhole

-----------------------------------------------------------------------------
(* Numbers and sequences. *)

\* Of a finite set of integers MaxOf is the greatest.
LEMMA MaxOfGreatest ==
  ASSUME NEW S \in SUBSET Int, IsFiniteSet(S), S # {}
  PROVE  MaxOf(S) \in S /\ \A n \in S : n <= MaxOf(S)
  BY GreatestExists DEF MaxOf

-----------------------------------------------------------------------------
(* The providers of a search and its time. *)

\* filterEnabledProviders, whatever is named: a sequence of enabled providers.
LEMMA FilterEnabledSeq ==
  ASSUME NEW names \in Seq(Providers)
  PROVE  FilterEnabled(names) \in Seq(Enabled)
<1>1. Among(names, Enabled) \in Seq(Providers)
      /\ \A n \in 1..Len(Among(names, Enabled)) : Among(names, Enabled)[n] \in Enabled
  BY AmongPicks, AmongElements
<1>2. QED
  BY <1>1 DEF FilterEnabled

\* A search ends up with a sequence of enabled providers, in one of the orders of
\* the promise.
LEMMA AskedOrder ==
  ASSUME NEW s \in Searches, NEW order \in {s.names} \cup RouteProviders(s.names)
  PROVE  FilterEnabled(order) \in Seq(Enabled) /\ FilterEnabled(order) \in AskedOrders
<1>1. s.names \in Seq(Providers)
  BY SearchAssumption
<1>2. s.names \in RouteProviders(s.names)
  BY <1>1 DEF RouteProviders, ToSet
<1>3. order \in RouteProviders(s.names)
  BY <1>2
<1>4. order \in Seq(Providers)
  <2>1. order \in [1..Len(s.names) -> Providers]
    BY <1>1, <1>3, SMTT(40) DEF RouteProviders, ToSet
  <2>2. QED
    BY <1>1, <2>1
<1>5. QED
  BY <1>3, <1>4, FilterEnabledSeq DEF AskedOrders

\* effectiveRequestTimeoutMS gives every search some time.
LEMMA RequestTimeoutPositive ==
  ASSUME NEW names \in Seq(Enabled)
  PROVE  RequestTimeout(names) \in Nat \ {0}
<1> DEFINE needs == {RuntimeTimeout} \cup {Needed(p) : p \in ToSet(names)}
           n == Len(names)
           f == [i \in 1..(n + 1) |-> IF i <= n THEN Needed(names[i]) ELSE RuntimeTimeout]
<1>1. n \in Nat /\ DOMAIN names = 1..n /\ RuntimeTimeout \in Nat \ {0}
  BY SearchAssumption
<1>2. ASSUME NEW p \in Providers PROVE Needed(p) \in Nat
  <2>1. ProviderTimeout[p] \in Nat /\ Second \in Nat
    BY SearchAssumption
  <2>2. QED
    BY <2>1 DEF Needed
<1>3. needs \subseteq Nat /\ RuntimeTimeout \in needs
  BY <1>1, <1>2, SearchAssumption DEF ToSet
<1>4. IsFiniteSet(needs)
  <2>1. f \in Surjection(1..(n + 1), needs)
    <3>1. f \in [1..(n + 1) -> needs]
      <4>1. ASSUME NEW i \in 1..(n + 1)
            PROVE  (IF i <= n THEN Needed(names[i]) ELSE RuntimeTimeout) \in needs
        BY <1>1 DEF ToSet
      <4>2. QED
        BY <4>1
    <3>2. ASSUME NEW v \in needs PROVE \E i \in 1..(n + 1) : f[i] = v
      <4>1. CASE v = RuntimeTimeout
        <5>1. n + 1 \in 1..(n + 1) /\ f[n + 1] = v
          BY <1>1, <4>1
        <5>2. QED
          BY <5>1
      <4>2. CASE v \in {Needed(p) : p \in ToSet(names)}
        <5>1. PICK i \in 1..n : v = Needed(names[i])
          BY <1>1, <4>2 DEF ToSet
        <5>2. i \in 1..(n + 1) /\ f[i] = v
          BY <1>1, <5>1
        <5>3. QED
          BY <5>2
      <4>3. QED
        BY <4>1, <4>2
    <3> HIDE DEF f, needs
    <3>3. QED
      BY <3>1, <3>2 DEF Surjection
  <2>2. IsFiniteSet(1..(n + 1))
    BY <1>1, FS_Interval
  <2> HIDE DEF f, needs
  <2>3. QED
    BY <2>1, <2>2, FS_Surjection
<1>5. RequestTimeout(names) = MaxOf(needs)
  BY DEF RequestTimeout
<1> HIDE DEF needs
<1>6. MaxOf(needs) \in needs /\ RuntimeTimeout <= MaxOf(needs)
  BY <1>3, <1>4, MaxOfGreatest
<1> HIDE DEF f
<1>7. MaxOf(needs) \in Nat
  BY <1>3, <1>6
<1>8. RequestTimeout(names) \in Nat /\ RuntimeTimeout <= RequestTimeout(names)
  BY <1>5, <1>6, <1>7
<1>9. QED
  BY <1>8, SearchAssumption

\* Who names the same providers, in whatever order, has the same time.
LEMMA RequestTimeoutOfKey ==
  ASSUME NEW names, NEW others, CacheKey(names) = CacheKey(others)
  PROVE  RequestTimeout(names) = RequestTimeout(others)
  BY DEF RequestTimeout, CacheKey

-----------------------------------------------------------------------------
(* Runs and their answers. *)

\* A sequence without elements is the empty one.
LEMMA NoElements ==
  ASSUME NEW S, NEW s \in Seq(S), DOMAIN s = {}
  PROVE  s = <<>>
<1>1. Len(s) = 0
  BY LenProperties
<1>2. QED
  BY <1>1, EmptySeq

\* A run begins with nobody asked.
LEMMA RunBegins ==
  ASSUME NEW names \in Seq(Enabled)
  PROVE  /\ [i \in DOMAIN names |-> Unasked] \in Seq(RunRecords)
         /\ names = <<>> => [i \in DOMAIN names |-> Unasked] = <<>>
<1>1. Unasked \in RunRecords
  BY DEF Unasked, RunRecords, Steps
<1>2. Len(names) \in Nat /\ DOMAIN names = 1..Len(names)
  BY LenProperties
<1> DEFINE s == [i \in 1..Len(names) |-> Unasked]
<1>3. s \in Seq(RunRecords)
  BY <1>1, <1>2
<1>4. names = <<>> => s = <<>>
  <2>1. names = <<>> => DOMAIN s = {}
    BY <1>2
  <2> HIDE DEF s
  <2>2. QED
    BY <1>3, <2>1, NoElements
<1>5. QED
  BY <1>2, <1>3, <1>4

\* What a run is made of.
LEMMA RunParts ==
  ASSUME VarsOK, RunSound, NEW c \in Callers
  PROVE  /\ run[c] \in Seq(RunRecords) /\ asked[c] \in Seq(Enabled)
         /\ Len(run[c]) \in Nat /\ DOMAIN run[c] = 1..Len(run[c])
         /\ \A i \in DOMAIN run[c] :
              /\ run[c][i] \in RunRecords
              /\ c \in Open /\ i \in DOMAIN asked[c]
              /\ asked[c][i] \in Enabled /\ asked[c][i] \in Providers
<1>1. run[c] \in Seq(RunRecords) /\ asked[c] \in Seq(Enabled)
  BY DEF VarsOK, RunSound, RunOK
<1>2. Len(run[c]) \in Nat /\ DOMAIN run[c] = 1..Len(run[c])
  BY <1>1, LenProperties
<1>3. ASSUME NEW i \in DOMAIN run[c]
      PROVE  /\ run[c][i] \in RunRecords
             /\ c \in Open /\ i \in DOMAIN asked[c]
             /\ asked[c][i] \in Enabled /\ asked[c][i] \in Providers
  <2>1. run[c][i] \in RunRecords
    BY <1>1, <1>2, ElementOfSeq
  <2>2. c \in Open
    <3>1. run[c] = <<>> => DOMAIN run[c] = {}
      OBVIOUS
    <3>2. QED
      BY <3>1 DEF RunSound, RunOK
  <2>3. i \in DOMAIN asked[c]
    BY <2>2 DEF RunSound, RunOK
  <2>4. asked[c][i] \in Enabled
    BY <1>1, <2>3, LenProperties, ElementOfSeq
  <2>5. QED
    BY <2>1, <2>2, <2>3, <2>4, SearchAssumption
<1>4. QED
  BY <1>1, <1>2, <1>3

\* The first provider of a run that has no outcome, if there is one.
LEMMA FirstUnsettled ==
  ASSUME VarsOK, RunSound, NEW c \in Callers,
         ~\A i \in DOMAIN run[c] : run[c][i].outcome # "none"
  PROVE  \E i \in DOMAIN run[c] :
           /\ run[c][i].outcome = "none"
           /\ \A j \in 1..(i - 1) : j \in DOMAIN run[c] /\ run[c][j].outcome # "none"
<1> DEFINE rest == {i \in DOMAIN run[c] : run[c][i].outcome = "none"}
<1>1. DOMAIN run[c] = 1..Len(run[c]) /\ Len(run[c]) \in Nat
  BY RunParts
<1>2. rest \in SUBSET Nat /\ rest # {}
  BY <1>1
<1>3. PICK i \in rest : \A j \in rest : i <= j
  <2> HIDE DEF rest
  <2>1. QED
    BY <1>2, LeastExists
<1>4. ASSUME NEW j \in 1..(i - 1)
      PROVE  j \in DOMAIN run[c] /\ run[c][j].outcome # "none"
  <2>1. i \in Nat /\ j \in Nat /\ j < i /\ i <= Len(run[c]) /\ j >= 1
    BY <1>1, <1>3
  <2>2. j \in DOMAIN run[c]
    BY <1>1, <2>1
  <2>3. j \notin rest
    BY <1>3, <2>1
  <2>4. QED
    BY <2>2, <2>3
<1>5. QED
  BY <1>3, <1>4

\* When nobody is being called or due to be, the run has got all it will get.
LEMMA EndsIsOver ==
  ASSUME VarsOK, RunSound, NEW c \in Callers, Ends(c)
  PROVE  Over(c)
<1>1. SUFFICES ASSUME ~\A i \in DOMAIN run[c] : run[c][i].outcome # "none"
               PROVE  Over(c)
  BY DEF Over
<1>2. PICK i \in DOMAIN run[c] :
        /\ run[c][i].outcome = "none"
        /\ \A j \in 1..(i - 1) : j \in DOMAIN run[c] /\ run[c][j].outcome # "none"
  BY <1>1, FirstUnsettled
<1>3. /\ run[c][i] \in RunRecords
      /\ \A j \in DOMAIN run[c] : run[c][j] \in RunRecords
      /\ DOMAIN run[c] = 1..Len(run[c]) /\ Len(run[c]) \in Nat
      /\ CallSound(c, i)
  BY <1>2, RunParts DEF RunSound, RunOK
<1>4. run[c][i].step = "unasked" /\ ~Turn(c, i)
  BY <1>2, <1>3 DEF Ends, Due, CallSound, RunRecords, Steps
<1>5. mode \in {"parallel", "fallback", "single"}
  BY SearchAssumption DEF VarsOK
<1>6. CASE mode = "parallel"
  BY <1>4, <1>6 DEF Turn
<1>7. CASE mode = "single"
  <2>1. i # 1
    BY <1>4, <1>7 DEF Turn
  <2>2. 1 \in 1..(i - 1)
    BY <1>3, <2>1
  <2>3. QED
    BY <1>2, <1>7, <2>2 DEF Over
<1>8. CASE mode = "fallback"
  <2>1. CASE left[c] > 0
    <3>1. PICK j \in 1..(i - 1) : run[c][j].outcome \notin {"empty", "failed"}
      BY <1>4, <1>8, <2>1 DEF Turn
    <3>2. j \in DOMAIN run[c] /\ run[c][j].outcome = "results"
      BY <1>2, <1>3, <3>1 DEF RunRecords, Outcomes
    <3>3. QED
      BY <1>8, <3>2 DEF Over
  <2>2. CASE ~(left[c] > 0)
    <3>1. left[c] = 0
      BY <2>2 DEF VarsOK
    <3>2. QED
      BY <1>8, <3>1 DEF Over
  <2>3. QED
    BY <2>1, <2>2
<1>9. QED
  BY <1>5, <1>6, <1>7, <1>8

\* Whoever was asked and answered comes before those who were not: the calls of a
\* run that is over are a sequence.
LEMMA CallsAreSequence ==
  ASSUME VarsOK, RunSound, NEW c \in Callers, Over(c)
  PROVE  CallsOf(c) \in Seq(Calls)
<1> DEFINE answered == {j \in DOMAIN run[c] : run[c][j].outcome # "none"}
           call(i) == [provider |-> asked[c][i], outcome |-> run[c][i].outcome]
<1>1. DOMAIN run[c] = 1..Len(run[c]) /\ Len(run[c]) \in Nat
  BY RunParts
<1>2. ASSUME NEW i \in answered PROVE call(i) \in Calls
  <2>1. asked[c][i] \in Providers /\ run[c][i] \in RunRecords
    BY RunParts
  <2>2. QED
    BY <2>1 DEF Calls, RunRecords, Outcomes
<1>3. \E n \in Nat : answered = 1..n
  <2>1. CASE \A i \in DOMAIN run[c] : run[c][i].outcome # "none"
    BY <1>1, <2>1
  <2>2. CASE ~\A i \in DOMAIN run[c] : run[c][i].outcome # "none"
    <3>1. PICK i \in DOMAIN run[c] :
            /\ run[c][i].outcome = "none"
            /\ \A j \in 1..(i - 1) : j \in DOMAIN run[c] /\ run[c][j].outcome # "none"
      BY <2>2, FirstUnsettled
    <3>2. i \in Nat /\ i >= 1
      BY <1>1, <3>1
    <3>3. ASSUME NEW j \in answered PROVE j < i
      <4>1. j \in Nat /\ j # i /\ j >= 1 /\ CallSound(c, j) /\ run[c][j].step # "unasked"
        <5>1. CallSound(c, j) /\ run[c][j].outcome # "none"
          BY DEF RunSound, RunOK
        <5>2. QED
          BY <1>1, <3>1, <5>1 DEF CallSound
      <4>2. HadTurn(c, j)
        BY <4>1 DEF CallSound
      <4>3. mode \in {"parallel", "fallback", "single"}
        BY SearchAssumption DEF VarsOK
      <4>4. CASE mode = "parallel"
        BY <2>2, <4>4 DEF Over
      <4>5. CASE mode = "single"
        BY <3>2, <4>1, <4>2, <4>5 DEF HadTurn
      <4>6. CASE mode = "fallback"
        <5>1. SUFFICES ASSUME i < j PROVE FALSE
          BY <3>2, <4>1
        <5>2. i \in 1..(j - 1)
          BY <3>2, <4>1, <5>1
        <5>3. QED
          BY <3>1, <4>2, <4>6, <5>2 DEF HadTurn
      <4>7. QED
        BY <4>3, <4>4, <4>5, <4>6
    <3>4. answered = 1..(i - 1)
      BY <1>1, <3>1, <3>2, <3>3
    <3>5. QED
      BY <3>2, <3>4
  <2>3. QED
    BY <2>1, <2>2
<1>4. PICK n \in Nat : answered = 1..n
  BY <1>3
<1>5. CallsOf(c) = [i \in answered |-> call(i)]
  BY DEF CallsOf
<1> HIDE DEF answered, call
<1>6. [i \in 1..n |-> call(i)] \in [1..n -> Calls]
  BY <1>2, <1>4
<1>7. QED
  BY <1>4, <1>5, <1>6, SeqDef

\* What the answer of a run reports.
LEMMA AnswerParts ==
  ASSUME VarsOK, RunSound, NEW c \in Callers, Over(c)
  PROVE  /\ AnswerOf(CallsOf(c)) \in Answers
         /\ AnswerOf(CallsOf(c)).calls = CallsOf(c)
         /\ ProvidersOf(CallsOf(c)) \subseteq ToSet(asked[c])
         /\ (mode = "parallel" /\ c \in Open) => ProvidersOf(CallsOf(c)) = ToSet(asked[c])
<1> DEFINE answered == {j \in DOMAIN run[c] : run[c][j].outcome # "none"}
<1>1. AnswerOf(CallsOf(c)) \in Answers
  BY CallsAreSequence DEF AnswerOf, Answers
<1>2. AnswerOf(CallsOf(c)).calls = CallsOf(c)
  BY DEF AnswerOf
<1>3. ProvidersOf(CallsOf(c)) = {asked[c][i] : i \in answered}
  BY DEF ProvidersOf, CallsOf
<1>4. \A i \in answered : i \in DOMAIN asked[c]
  BY RunParts
<1>5. ASSUME mode = "parallel", c \in Open
      PROVE  answered = DOMAIN asked[c]
  <2>1. answered = DOMAIN run[c]
    BY <1>5 DEF Over
  <2>2. QED
    BY <1>5, <2>1 DEF RunSound, RunOK
<1> HIDE DEF answered
<1>6. QED
  BY <1>1, <1>2, <1>3, <1>4, <1>5 DEF ToSet

\* A run that is worth it leaves calls that may be kept for the providers it asked.
LEMMA KeptOfRun ==
  ASSUME VarsOK, RunSound, NEW c \in Callers, c \in Open, Over(c),
         ShouldCache(AnswerOf(CallsOf(c)))
  PROVE  Kept(CallsOf(c), CacheKey(asked[c]))
<1> DEFINE calls == CallsOf(c)
           answered == {i \in DOMAIN calls : calls[i].outcome # "failed"}
<1>1. calls \in Seq(Calls) /\ Len(calls) \in Nat /\ DOMAIN calls = 1..Len(calls)
  BY CallsAreSequence
<1>2. /\ DOMAIN calls = {j \in DOMAIN run[c] : run[c][j].outcome # "none"}
      /\ \A i \in DOMAIN calls : calls[i].outcome = run[c][i].outcome
  BY DEF CallsOf
<1>3. ASSUME NEW i \in DOMAIN calls PROVE HadTurn(c, i)
  BY <1>2 DEF RunSound, RunOK, CallSound
<1>4. answered # {}
  <2>1. AnswerOf(calls).status = "success" /\ AnswerOf(calls).calls = calls
    BY DEF ShouldCache, AnswerOf
  <2>2. QED
    BY <2>1 DEF AnswerOf
<1>5. mode = "parallel" => answered = DOMAIN calls
  BY DEF ShouldCache, AnswerOf
<1>6. mode = "parallel" => {calls[i].provider : i \in DOMAIN calls} = CacheKey(asked[c])
  BY AnswerParts DEF ProvidersOf, CacheKey
<1>7. mode = "single" => Len(calls) = 1 /\ answered = {1}
  <2>1. ASSUME mode = "single", NEW i \in DOMAIN calls PROVE i = 1
    BY <1>3, <2>1 DEF HadTurn
  <2>2. ASSUME mode = "single" PROVE DOMAIN calls = {1} /\ answered = {1}
    BY <1>4, <2>1, <2>2
  <2> HIDE DEF answered, calls
  <2>3. ASSUME mode = "single" PROVE Len(calls) = 1
    BY <1>1, <2>2, <2>3
  <2>4. QED
    BY <2>2, <2>3
<1>8. ASSUME mode = "fallback", NEW i \in 1..(Len(calls) - 1)
      PROVE  calls[i].outcome # "results"
  <2>1. Len(calls) \in DOMAIN calls /\ i \in DOMAIN calls
    BY <1>1
  <2>2. run[c][i].outcome \in {"empty", "failed"}
    BY <1>3, <1>8, <2>1 DEF HadTurn
  <2>3. QED
    BY <1>2, <2>1, <2>2
<1>9. QED
  BY <1>4, <1>5, <1>6, <1>7, <1>8 DEF Kept

\* A row that is not written stays what it is, or goes.
LEMMA RowsStay ==
  ASSUME RowsSound, CacheIsWhole, mode' = mode,
         \A key \in SUBSET Providers : cache'[key] = NoAnswer \/ cache'[key] = cache[key]
  PROVE  RowsSound' /\ CacheIsWhole'
<1>1. ProvidersOf(NoAnswer.calls) = {}
  BY DEF ProvidersOf, NoAnswer
<1>2. RowsSound'
  <2>1. \A key \in SUBSET Providers : ProvidersOf(cache'[key].calls) \subseteq key
    BY <1>1 DEF RowsSound
  <2>2. QED
    BY <2>1 DEF RowsSound, ProvidersOf
<1>3. CacheIsWhole'
  <2> SUFFICES ASSUME NEW key \in SUBSET Providers, cache'[key] # NoAnswer
               PROVE  Kept(cache[key].calls, key)'
    BY DEF CacheIsWhole
  <2>1. cache'[key] = cache[key] /\ Kept(cache[key].calls, key)
    BY DEF CacheIsWhole
  <2>2. QED
    BY <2>1 DEF Kept
<1>4. QED
  BY <1>2, <1>3

\* What is configured for a provider.
LEMMA ConfiguredNumbers ==
  \A p \in Providers : KeyRetryCount[p] \in Nat /\ ProviderTimeout[p] \in Nat
<1>1. KeyRetryCount \in [Providers -> 0..20] /\ ProviderTimeout \in [Providers -> Nat]
  BY SearchAssumption
<1>2. QED
  BY <1>1

\* The retries and the time-out of a provider that is asked are numbers.
LEMMA ProviderNumbers ==
  ASSUME VarsOK, RunSound, NEW c \in Callers, NEW i \in DOMAIN run[c]
  PROVE  KeyRetryCount[asked[c][i]] \in Nat /\ ProviderTimeout[asked[c][i]] \in Nat
<1>1. asked[c][i] \in Providers
  BY RunParts
<1>2. QED
  BY <1>1, ConfiguredNumbers

\* What a run reports depends on its outcomes alone.
LEMMA SameOutcomes ==
  ASSUME NEW c \in Callers, mode' = mode, asked'[c] = asked[c],
         DOMAIN run'[c] = DOMAIN run[c],
         \A i \in DOMAIN run[c] : run'[c][i].outcome = run[c][i].outcome,
         left[c] = 0 => left'[c] = 0
  PROVE  /\ Over(c) => Over(c)'
         /\ ShouldCache(AnswerOf(CallsOf(c))) => ShouldCache(AnswerOf(CallsOf(c)))'
<1>1. CallsOf(c)' = CallsOf(c)
  BY DEF CallsOf
<1>2. AnswerOf(CallsOf(c))' = AnswerOf(CallsOf(c))
  BY <1>1 DEF AnswerOf
<1>3. ShouldCache(AnswerOf(CallsOf(c)))' = ShouldCache(AnswerOf(CallsOf(c)))
  BY <1>2 DEF ShouldCache
<1>4. Over(c) => Over(c)'
  BY DEF Over
<1>5. QED
  BY <1>3, <1>4

-----------------------------------------------------------------------------
(* The steps of a provider: one record of one run changes. *)

\* A provider not settled moves on, within its attempts and the time left.
LEMMA ProviderStep ==
  ASSUME SearchInv,
         NEW c \in Callers, pc[c] \in Running,
         NEW i \in DOMAIN run[c], run[c][i].step # "settled",
         NEW record \in RunRecords,
         run' = [run EXCEPT ![c][i] = record],
         UNCHANGED <<mode, pc, asked, left, answer, cache>>,
         record.step # "unasked", HadTurn(c, i),
         record.step = "retrying" => record.attempt <= KeyRetryCount[asked[c][i]],
         record.attempt <= KeyRetryCount[asked[c][i]] + 1,
         record.left <= left[c],
         record.outcome = "none" <=> record.step # "settled"
  PROVE  SearchInv'
<1>1. VarsOK /\ RunSound /\ StoringSound /\ TimeGiven /\ FlightLed
  BY DEF SearchInv
<1>2. VarsOK' /\ AnswersSound' /\ RowsSound' /\ CacheIsWhole' /\ TimeGiven' /\ FlightLed'
  <2>1. VarsOK'
    BY <1>1 DEF VarsOK
  <2>2. AnswersSound'
    BY DEF SearchInv, AnswersSound, AnswerOK
  <2>3. RowsSound' /\ CacheIsWhole'
    BY RowsStay DEF SearchInv
  <2>4. TimeGiven'
    BY <1>1 DEF TimeGiven, TimeOK
  <2>5. FlightLed'
    BY <1>1 DEF FlightLed, Leads
  <2>6. QED
    BY <2>1, <2>2, <2>3, <2>4, <2>5
<1>3. /\ run[c] \in Seq(RunRecords) /\ i \in 1..Len(run[c])
      /\ run[c][i].outcome = "none" /\ c \in Open /\ pc[c] # "storing"
  BY <1>1, RunParts DEF RunSound, RunOK, CallSound, Running
<1>4. /\ run' \in [Callers -> Seq(RunRecords)]
      /\ \A d \in Callers : d # c => run'[d] = run[d]
      /\ DOMAIN run'[c] = DOMAIN run[c]
      /\ \A j \in DOMAIN run[c] : run'[c][j] = IF j = i THEN record ELSE run[c][j]
  <2>1. run \in [Callers -> Seq(RunRecords)]
    BY <1>1 DEF RunSound, RunOK
  <2>2. run' = [run EXCEPT ![c] = [run[c] EXCEPT ![i] = record]]
    OBVIOUS
  <2>3. [run[c] EXCEPT ![i] = record] \in Seq(RunRecords)
    BY <1>3, ExceptSeq
  <2>4. run' \in [Callers -> Seq(RunRecords)]
    BY <2>1, <2>2, <2>3
  <2>5. run'[c] = [run[c] EXCEPT ![i] = record]
    BY <2>1, <2>2
  <2>6. \A d \in Callers : d # c => run'[d] = run[d]
    BY <2>1, <2>2
  <2>7. QED
    BY <2>4, <2>5, <2>6
<1>5. ASSUME NEW d \in Callers, NEW j \in DOMAIN run'[d]
      PROVE  CallSound(d, j)'
  <2>1. CASE d # c
    <3>1. run'[d] = run[d] /\ CallSound(d, j)
      BY <1>1, <1>4, <2>1 DEF RunSound, RunOK
    <3>2. QED
      BY <3>1 DEF CallSound, HadTurn
  <2>2. CASE d = c
    <3>1. ASSUME HadTurn(c, j), run[c][j] \in RunRecords, j \in DOMAIN run[c]
          PROVE  HadTurn(c, j)'
      <4>1. ASSUME NEW k \in 1..(j - 1), mode = "fallback"
            PROVE  run'[c][k].outcome \in {"empty", "failed"}
        <5>1. run[c][k].outcome \in {"empty", "failed"}
          BY <3>1, <4>1 DEF HadTurn
        <5>2. k # i
          BY <1>3, <5>1
        <5>3. k \in DOMAIN run[c]
          BY <1>1, <3>1, RunParts
        <5>4. QED
          BY <1>4, <5>1, <5>2, <5>3
      <4>2. QED
        BY <3>1, <4>1 DEF HadTurn
    <3>2. j \in DOMAIN run[c] /\ CallSound(c, j) /\ run[c][j] \in RunRecords
      BY <1>1, <1>4, <2>2, RunParts DEF RunSound, RunOK
    <3>3. CASE j = i
      <4>1. run'[c][i] = record /\ HadTurn(c, i)'
        BY <1>4, <3>1, <3>2, <3>3
      <4>2. QED
        BY <2>2, <3>3, <4>1 DEF CallSound
    <3>4. CASE j # i
      <4>1. run'[c][j] = run[c][j]
        BY <1>4, <3>2, <3>4
      <4>2. QED
        BY <2>2, <3>1, <3>2, <4>1 DEF CallSound
    <3>5. QED
      BY <3>3, <3>4
  <2>3. QED
    BY <2>1, <2>2
<1>6. RunSound'
  <2>1. Open' = Open
    BY DEF Open
  <2>2. QED
    BY <1>1, <1>3, <1>4, <1>5, <2>1 DEF RunSound, RunOK
<1>7. StoringSound'
  <2>1. ASSUME NEW d \in Callers, pc[d] = "storing"
        PROVE  Over(d)' /\ ShouldCache(AnswerOf(CallsOf(d)))'
    <3>1. run'[d] = run[d]
      BY <1>3, <1>4, <2>1
    <3>2. Over(d) /\ ShouldCache(AnswerOf(CallsOf(d)))
      BY <1>1, <2>1 DEF StoringSound, StoreOK
    <3>3. QED
      BY <3>1, <3>2, SameOutcomes
  <2>2. QED
    BY <2>1 DEF StoringSound, StoreOK
<1>8. QED
  BY <1>2, <1>6, <1>7 DEF SearchInv

\* Whoever is due has its turn.
LEMMA DueHasTurn ==
  ASSUME VarsOK, RunSound, NEW c \in Callers, NEW i \in DOMAIN run[c], Due(c, i)
  PROVE  /\ HadTurn(c, i) /\ run[c][i].step # "settled"
         /\ run[c][i].attempt <= KeyRetryCount[asked[c][i]]
<1>1. CallSound(c, i) /\ mode \in {"parallel", "fallback", "single"}
  BY SearchAssumption DEF RunSound, RunOK, VarsOK
<1>2. KeyRetryCount[asked[c][i]] \in Nat
  BY ProviderNumbers
<1>3. CASE run[c][i].step = "unasked" /\ Turn(c, i)
  <2>1. HadTurn(c, i)
    <3>1. CASE mode = "single"
      BY <1>3, <3>1 DEF Turn, HadTurn
    <3>2. CASE mode = "fallback"
      BY <1>3, <3>2 DEF Turn, HadTurn
    <3>3. CASE mode = "parallel"
      BY <3>3 DEF HadTurn
    <3>4. QED
      BY <1>1, <3>1, <3>2, <3>3
  <2>2. QED
    BY <1>1, <1>2, <1>3, <2>1 DEF CallSound
<1>4. CASE run[c][i].step = "retrying"
  BY <1>1, <1>4 DEF CallSound
<1>5. QED
  BY <1>3, <1>4 DEF Due

\* callProvider takes what time is left, and not more than its provider has.
LEMMA BeginCallStep ==
  ASSUME SearchInv, NEW c \in Callers, NEW i \in DOMAIN run[c], BeginCall(c, i)
  PROVE  SearchInv'
<1>1. VarsOK /\ RunSound
  BY DEF SearchInv
<1>2. /\ run[c][i] \in RunRecords /\ left[c] \in Nat
      /\ ProviderTimeout[asked[c][i]] \in Nat /\ KeyRetryCount[asked[c][i]] \in Nat
  BY <1>1, RunParts, ProviderNumbers DEF VarsOK
<1> DEFINE record == [step |-> "calling", attempt |-> run[c][i].attempt + 1,
                      left |-> CallTime(c, asked[c][i]), outcome |-> "none"]
<1>3. CallTime(c, asked[c][i]) \in Nat /\ CallTime(c, asked[c][i]) <= left[c]
  BY <1>2 DEF CallTime, Least
<1>4. record \in RunRecords
  BY <1>2, <1>3 DEF RunRecords, Steps
<1>5. /\ HadTurn(c, i) /\ run[c][i].step # "settled"
      /\ run[c][i].attempt <= KeyRetryCount[asked[c][i]]
  BY <1>1, DueHasTurn DEF BeginCall
<1>6. run' = [run EXCEPT ![c][i] = record]
  BY DEF BeginCall
<1>7. record.attempt <= KeyRetryCount[asked[c][i]] + 1 /\ run[c][i].attempt \in Nat
  BY <1>2, <1>5 DEF RunRecords
<1>8. /\ record.step = "calling" /\ record.left <= left[c] /\ record.outcome = "none"
      /\ pc[c] \in Running /\ UNCHANGED <<mode, pc, asked, left, answer, cache>>
  BY <1>3 DEF BeginCall
<1> HIDE DEF record
<1>9. QED
  BY <1>4, <1>5, <1>6, <1>7, <1>8, ProviderStep

\* A provider that has had its turn is settled.
LEMMA SettleStep ==
  ASSUME SearchInv, NEW c \in Callers, NEW i \in DOMAIN run[c],
         pc[c] \in Running, HadTurn(c, i), run[c][i].step # "settled",
         NEW outcome \in Outcomes, Settle(c, i, outcome),
         UNCHANGED <<mode, pc, asked, left, answer, cache>>
  PROVE  SearchInv'
<1>1. left[c] \in Nat /\ KeyRetryCount[asked[c][i]] \in Nat
  BY ProviderNumbers DEF SearchInv, VarsOK
<1> DEFINE record == [step |-> "settled", attempt |-> 0, left |-> 0, outcome |-> outcome]
<1>2. record \in RunRecords
  BY DEF RunRecords, Steps
<1>3. run' = [run EXCEPT ![c][i] = record]
  BY DEF Settle
<1>4. /\ record.step = "settled" /\ record.left <= left[c] /\ record.outcome # "none"
      /\ record.attempt <= KeyRetryCount[asked[c][i]] + 1
  BY <1>1 DEF Outcomes
<1> HIDE DEF record
<1>5. QED
  BY <1>2, <1>3, <1>4, ProviderStep

\* A provider for which no key is to be had is settled as failed.
LEMMA FailAcquireStep ==
  ASSUME SearchInv, NEW c \in Callers, NEW i \in DOMAIN run[c], FailAcquire(c, i)
  PROVE  SearchInv'
<1>1. HadTurn(c, i) /\ run[c][i].step # "settled"
  BY DueHasTurn DEF FailAcquire, SearchInv
<1>2. "failed" \in Outcomes
  BY DEF Outcomes
<1>3. QED
  BY <1>1, <1>2, SettleStep DEF FailAcquire

\* The quota an answer brings is written before the provider is settled.
LEMMA ReportQuotaStep ==
  ASSUME SearchInv, NEW c \in Callers, NEW i \in DOMAIN run[c], ReportQuota(c, i)
  PROVE  SearchInv'
<1>1. CallSound(c, i) /\ run[c][i].step = "calling" /\ VarsOK /\ RunSound
  BY DEF ReportQuota, SearchInv, RunSound, RunOK
<1>2. HadTurn(c, i) /\ run[c][i].step # "settled"
  BY <1>1 DEF CallSound
<1>3. run[c][i] \in RunRecords /\ left[c] \in Nat
  BY <1>1, RunParts DEF VarsOK
<1> DEFINE record == [run[c][i] EXCEPT !.step = "reporting", !.left = 0]
<1>4. record \in RunRecords
  BY <1>3 DEF RunRecords, Steps
<1>5. /\ record.step = "reporting" /\ record.left = 0
      /\ record.attempt = run[c][i].attempt /\ record.outcome = run[c][i].outcome
  BY <1>3 DEF RunRecords
<1>6. record.outcome = "none" /\ record.attempt <= KeyRetryCount[asked[c][i]] + 1
  BY <1>1, <1>5 DEF CallSound
<1>7. run' = [run EXCEPT ![c][i] = record]
  BY DEF ReportQuota
<1>8. pc[c] \in Running /\ UNCHANGED <<mode, pc, asked, left, answer, cache>>
  BY DEF ReportQuota
<1>9. record.left <= left[c]
  BY <1>3, <1>5
<1> HIDE DEF record
<1>10. QED
  BY <1>2, <1>4, <1>5, <1>6, <1>7, <1>8, <1>9, ProviderStep

\* A call answers; its provider is settled, with or without results.
LEMMA AnswerCallStep ==
  ASSUME SearchInv, NEW c \in Callers, NEW i \in DOMAIN run[c],
         NEW outcome \in {"results", "empty"}, AnswerCall(c, i, outcome)
  PROVE  SearchInv'
<1>1. CallSound(c, i) /\ run[c][i].step \in {"calling", "reporting"}
  BY DEF AnswerCall, SearchInv, RunSound, RunOK
<1>2. HadTurn(c, i) /\ run[c][i].step # "settled" /\ outcome \in Outcomes
  BY <1>1 DEF CallSound, Outcomes
<1>3. QED
  BY <1>2, SettleStep DEF AnswerCall

\* A call that fails is tried again while its retries allow.
LEMMA FailCallStep ==
  ASSUME SearchInv, NEW c \in Callers, NEW i \in DOMAIN run[c], NEW error,
         FailCall(c, i, error)
  PROVE  SearchInv'
<1>1. CallSound(c, i) /\ run[c][i].step = "calling" /\ VarsOK /\ RunSound
  BY DEF FailCall, SearchInv, RunSound, RunOK
<1>2. HadTurn(c, i) /\ run[c][i].step # "settled" /\ "failed" \in Outcomes
  BY <1>1 DEF CallSound, Outcomes
<1>3. /\ run[c][i] \in RunRecords /\ left[c] \in Nat
      /\ KeyRetryCount[asked[c][i]] \in Nat
  BY <1>1, RunParts, ProviderNumbers DEF VarsOK
<1>4. CASE MayRetry(asked[c][i], run[c][i].attempt) /\ ShouldRetry(asked[c][i], error)
  <2> DEFINE record == [run[c][i] EXCEPT !.step = "retrying", !.left = 0]
  <2>1. record \in RunRecords
    BY <1>3 DEF RunRecords, Steps
  <2>2. /\ record.step = "retrying" /\ record.left = 0
        /\ record.attempt = run[c][i].attempt /\ record.outcome = run[c][i].outcome
    BY <1>3 DEF RunRecords
  <2>3. record.attempt <= KeyRetryCount[asked[c][i]]
    BY <1>3, <1>4, <2>2 DEF MayRetry, RunRecords
  <2>4. record.outcome = "none"
    BY <1>1, <2>2 DEF CallSound
  <2>5. run' = [run EXCEPT ![c][i] = record]
    BY <1>4 DEF FailCall
  <2>6. pc[c] \in Running /\ UNCHANGED <<mode, pc, asked, left, answer, cache>>
    BY DEF FailCall
  <2>7. record.left <= left[c] /\ record.attempt <= KeyRetryCount[asked[c][i]] + 1
    BY <1>3, <2>1, <2>2, <2>3 DEF RunRecords
  <2> HIDE DEF record
  <2>8. QED
    BY <1>2, <2>1, <2>2, <2>3, <2>4, <2>5, <2>6, <2>7, ProviderStep
<1>5. CASE ~(MayRetry(asked[c][i], run[c][i].attempt) /\ ShouldRetry(asked[c][i], error))
  <2>1. Settle(c, i, "failed")
    BY <1>5 DEF FailCall
  <2>2. QED
    BY <1>2, <2>1, SettleStep DEF FailCall
<1>6. QED
  BY <1>4, <1>5

-----------------------------------------------------------------------------
(* The steps of a caller. *)

\* A caller with whom nothing happens.
Same(d) ==
  /\ pc'[d] = pc[d] /\ asked'[d] = asked[d] /\ left'[d] = left[d]
  /\ run'[d] = run[d] /\ answer'[d] = answer[d]

CallerOK(d) == RunOK(d) /\ StoreOK(d) /\ TimeOK(d) /\ AnswerOK(d)

\* What holds of a caller goes on holding when nothing of it changes.
LEMMA SameCaller ==
  ASSUME SearchInv, mode' = mode, NEW d \in Callers, Same(d)
  PROVE  CallerOK(d)'
<1>1. RunOK(d) /\ StoreOK(d) /\ TimeOK(d) /\ AnswerOK(d)
  BY DEF SearchInv, RunSound, StoringSound, TimeGiven, AnswersSound
<1>2. RunOK(d)'
  <2>1. d \in Open' <=> d \in Open
    BY DEF Same, Open
  <2>2. \A i \in DOMAIN run[d] : CallSound(d, i)'
    BY <1>1 DEF Same, RunOK, CallSound, HadTurn
  <2>3. QED
    BY <1>1, <2>1, <2>2 DEF Same, RunOK
<1>3. StoreOK(d)'
  BY <1>1, SameOutcomes DEF Same, StoreOK
<1>4. TimeOK(d)'
  BY <1>1 DEF Same, TimeOK
<1>5. AnswerOK(d)'
  BY <1>1 DEF Same, AnswerOK
<1>6. QED
  BY <1>2, <1>3, <1>4, <1>5 DEF CallerOK

\* A caller that leads no flight does something of its own.
LEMMA OneCaller ==
  ASSUME SearchInv, mode' = mode, cache' = cache,
         NEW c \in Callers, pc[c] \notin {"leading", "storing"},
         \A d \in Callers : d # c => Same(d),
         VarsOK', run' \in [Callers -> Seq(RunRecords)], CallerOK(c)',
         pc'[c] = "waiting" =>
           \E d \in Callers : d # c /\ Leads(d, CacheKey(asked'[c])) /\ left[d] <= left'[c]
  PROVE  SearchInv'
<1>1. ASSUME NEW d \in Callers PROVE CallerOK(d)'
  BY SameCaller
<1>2. FlightLed'
  <2>1. ASSUME NEW d \in Callers, pc'[d] = "waiting"
        PROVE  \E e \in Callers : /\ e # c /\ Leads(e, CacheKey(asked'[d]))
                                  /\ left[e] <= left'[d]
    <3>1. CASE d = c
      BY <2>1, <3>1
    <3>2. CASE d # c
      <4>1. pc[d] = "waiting" /\ asked'[d] = asked[d] /\ left'[d] = left[d]
        BY <2>1, <3>2 DEF Same
      <4>2. PICK e \in Callers : Leads(e, CacheKey(asked[d])) /\ left[e] <= left[d]
        BY <4>1 DEF SearchInv, FlightLed
      <4>3. e # c
        BY <4>2 DEF Leads
      <4>4. QED
        BY <4>1, <4>2, <4>3
    <3>3. QED
      BY <3>1, <3>2
  <2>2. ASSUME NEW e \in Callers, e # c, NEW key, Leads(e, key)
        PROVE  Leads(e, key)' /\ left'[e] = left[e]
    BY <2>2 DEF Same, Leads
  <2>3. QED
    BY <2>1, <2>2 DEF FlightLed
<1>3. RowsSound' /\ CacheIsWhole'
  BY RowsStay DEF SearchInv
<1>4. QED
  BY <1>1, <1>2, <1>3
     DEF SearchInv, CallerOK, RunSound, StoringSound, TimeGiven, AnswersSound

\* A caller that has not been told anything has nothing to answer for.
LEMMA NothingTold ==
  ASSUME NEW c \in Callers, answer'[c] = NoAnswer
  PROVE  AnswerOK(c)'
<1>1. answer'[c].calls = <<>> /\ answer'[c].status = "none"
  BY DEF NoAnswer
<1>2. ProvidersOf(answer'[c].calls) = {}
  BY <1>1 DEF ProvidersOf
<1>3. QED
  BY <1>1, <1>2 DEF AnswerOK

\* A run that begins is sound.
LEMMA FreshRun ==
  ASSUME NEW c \in Callers, pc'[c] \in {"leading", "alone"},
         asked'[c] \in Seq(Enabled), left'[c] \in Nat,
         run'[c] = [i \in DOMAIN asked'[c] |-> Unasked]
  PROVE  RunOK(c)'
<1>1. ASSUME NEW i \in DOMAIN run'[c] PROVE CallSound(c, i)'
  <2>1. asked'[c][i] \in Enabled
    BY LenProperties, ElementOfSeq
  <2>2. KeyRetryCount[asked'[c][i]] \in Nat
    <3>1. asked'[c][i] \in Providers
      BY <2>1, SearchAssumption
    <3>2. QED
      BY <3>1, ConfiguredNumbers
  <2>3. run'[c][i] = Unasked
    OBVIOUS
  <2>4. QED
    BY <2>2, <2>3 DEF CallSound, Unasked
<1>2. c \in Open'
  BY DEF Open
<1>3. QED
  BY <1>1, <1>2 DEF RunOK

\* A caller that runs nothing has no run to be sound.
LEMMA NoRun ==
  ASSUME NEW c \in Callers, c \notin Open', run'[c] = <<>>
  PROVE  RunOK(c)'
<1>1. DOMAIN run'[c] = {}
  OBVIOUS
<1>2. QED
  BY <1>1 DEF RunOK

\* A search is asked for: its providers are those enabled, in the order given
\* or in that of the router.
LEMMA AskStep ==
  ASSUME SearchInv, NEW s \in Searches, Ask(s.caller, s.names, s.policy)
  PROVE  SearchInv'
<1> DEFINE c == s.caller
<1>1. c \in Callers /\ s.policy \in {"default", "refresh", "bypass"}
  BY SearchAssumption
<1>2. PICK order \in {s.names} \cup RouteProviders(s.names) :
        /\ asked' = [asked EXCEPT ![c] = FilterEnabled(order)]
        /\ left' = [left EXCEPT ![c] = RequestTimeout(FilterEnabled(order))]
        /\ run' = [run EXCEPT ![c] =
                     IF s.policy = "bypass"
                       THEN [i \in DOMAIN FilterEnabled(order) |-> Unasked] ELSE <<>>]
  BY DEF Ask
<1> DEFINE names == FilterEnabled(order)
<1>3. names \in Seq(Enabled) /\ names \in AskedOrders
  BY AskedOrder
<1>4. RequestTimeout(names) \in Nat \ {0}
  BY <1>3, RequestTimeoutPositive
<1>5. /\ pc[c] = "idle" /\ mode' = mode /\ answer' = answer /\ cache' = cache
      /\ pc' = [pc EXCEPT ![c] = CASE s.policy = "default" -> "reading"
                                   [] s.policy = "refresh" -> "entering"
                                   [] s.policy = "bypass" -> "alone"]
  BY DEF Ask
<1> HIDE DEF names
<1>6. VarsOK /\ run \in [Callers -> Seq(RunRecords)] /\ RunOK(c) /\ AnswerOK(c)
  BY <1>1 DEF SearchInv, RunSound, AnswersSound
<1>7. /\ pc'[c] = CASE s.policy = "default" -> "reading"
                    [] s.policy = "refresh" -> "entering"
                    [] s.policy = "bypass" -> "alone"
      /\ asked'[c] = names /\ left'[c] = RequestTimeout(names)
      /\ run'[c] = IF s.policy = "bypass"
                     THEN [i \in DOMAIN names |-> Unasked] ELSE <<>>
  <2>1. pc'[c] = CASE s.policy = "default" -> "reading"
                   [] s.policy = "refresh" -> "entering"
                   [] s.policy = "bypass" -> "alone"
    BY <1>1, <1>5, <1>6 DEF VarsOK
  <2>2. asked'[c] = names /\ left'[c] = RequestTimeout(names)
    BY <1>1, <1>2, <1>6 DEF VarsOK, names
  <2>3. run'[c] = IF s.policy = "bypass"
                    THEN [i \in DOMAIN names |-> Unasked] ELSE <<>>
    BY <1>1, <1>2, <1>6 DEF names
  <2>4. QED
    BY <2>1, <2>2, <2>3
<1>8. pc'[c] \in {"reading", "entering", "alone"} /\ (pc'[c] = "alone" <=> s.policy = "bypass")
  BY <1>1, <1>7
<1>9. \A d \in Callers : d # c => Same(d)
  BY <1>1, <1>2, <1>5, <1>6 DEF VarsOK, Same
<1>10. VarsOK'
  <2>1. pc' \in [Callers -> {"idle", "reading", "refused", "entering", "waiting",
                             "leading", "storing", "alone", "logging"}]
    BY <1>1, <1>5, <1>6 DEF VarsOK
  <2>2. asked' \in [Callers -> Seq(Enabled)] /\ left' \in [Callers -> Nat]
    BY <1>1, <1>2, <1>3, <1>4, <1>6 DEF VarsOK, names
  <2>3. QED
    BY <1>5, <1>6, <2>1, <2>2 DEF VarsOK
<1>11. run' \in [Callers -> Seq(RunRecords)]
  <2>1. [i \in DOMAIN names |-> Unasked] \in Seq(RunRecords) /\ <<>> \in Seq(RunRecords)
    BY <1>3, RunBegins, EmptySeq
  <2>2. QED
    BY <1>1, <1>2, <1>6, <2>1 DEF names
<1>12. CallerOK(c)'
  <2>1. RunOK(c)'
    <3>1. CASE s.policy = "bypass"
      <4>1. /\ pc'[c] \in {"leading", "alone"} /\ asked'[c] \in Seq(Enabled)
            /\ left'[c] \in Nat /\ run'[c] = [i \in DOMAIN asked'[c] |-> Unasked]
        BY <1>3, <1>4, <1>7, <1>8, <3>1
      <4>2. QED
        BY <1>1, <4>1, FreshRun
    <3>2. CASE s.policy # "bypass"
      <4>1. c \notin Open' /\ run'[c] = <<>>
        BY <1>7, <1>8, <3>2 DEF Open
      <4>2. QED
        BY <1>1, <4>1, NoRun
    <3>3. QED
      BY <3>1, <3>2
  <2>2. StoreOK(c)'
    BY <1>8 DEF StoreOK
  <2>3. TimeOK(c)'
    BY <1>3, <1>4, <1>7 DEF TimeOK
  <2>4. AnswerOK(c)'
    <3>1. answer'[c] = NoAnswer
      BY <1>5, <1>6 DEF AnswerOK
    <3>2. QED
      BY <1>1, <3>1, NothingTold
  <2>5. QED
    BY <2>1, <2>2, <2>3, <2>4 DEF CallerOK
<1> HIDE DEF c
<1>13. QED
  BY <1>1, <1>5, <1>8, <1>9, <1>10, <1>11, <1>12, OneCaller

\* A row of the cache answers for the providers of its key.
LEMMA ReadCacheStep ==
  ASSUME SearchInv, NEW c \in Callers, ReadCache(c)
  PROVE  SearchInv'
<1> DEFINE row == cache[CacheKey(asked[c])]
<1>1. /\ pc[c] = "reading" /\ mode' = mode /\ asked' = asked
      /\ run' = run /\ cache' = cache
  BY DEF ReadCache
<1>2. \/ /\ pc' = [pc EXCEPT ![c] = "logging"] /\ answer' = [answer EXCEPT ![c] = row]
         /\ row # NoAnswer /\ left' = [left EXCEPT ![c] = LogTimeout]
      \/ pc' = [pc EXCEPT ![c] = "entering"] /\ answer' = answer /\ left' = left
      \/ pc' = [pc EXCEPT ![c] = "refused"] /\ answer' = answer /\ left' = left
  BY DEF ReadCache
<1>3. /\ VarsOK /\ run \in [Callers -> Seq(RunRecords)]
      /\ RunOK(c) /\ AnswerOK(c) /\ TimeOK(c)
  BY DEF SearchInv, RunSound, AnswersSound, TimeGiven
<1>4. CacheKey(asked[c]) \in SUBSET Providers
  <2>1. asked[c] \in Seq(Enabled)
    BY <1>3 DEF VarsOK
  <2>2. \A i \in DOMAIN asked[c] : asked[c][i] \in Providers
    BY <2>1, LenProperties, ElementOfSeq, SearchAssumption
  <2>3. QED
    BY <2>2 DEF CacheKey, ToSet
<1>5. /\ row \in Answers /\ ProvidersOf(row.calls) \subseteq CacheKey(asked[c])
      /\ (row # NoAnswer /\ mode = "parallel") => ProvidersOf(row.calls) = CacheKey(asked[c])
  BY <1>3, <1>4 DEF SearchInv, VarsOK, RowsSound, CacheIsWhole, Kept, ProvidersOf
<1> HIDE DEF row
<1>6. pc'[c] \in {"logging", "entering", "refused"}
  BY <1>2, <1>3 DEF VarsOK
<1>7. \A d \in Callers : d # c => Same(d)
  BY <1>1, <1>2, <1>3 DEF VarsOK, Same
<1>8. VarsOK'
  <2>1. pc' \in [Callers -> {"idle", "reading", "refused", "entering", "waiting",
                             "leading", "storing", "alone", "logging"}]
    BY <1>2, <1>3 DEF VarsOK
  <2>2. answer' \in [Callers -> Answers]
    BY <1>2, <1>3, <1>5 DEF VarsOK
  <2>3. left' \in [Callers -> Nat]
    BY <1>2, <1>3, SearchAssumption DEF VarsOK
  <2>4. QED
    BY <1>1, <1>3, <2>1, <2>2, <2>3 DEF VarsOK
<1>9. CallerOK(c)'
  <2>1. RunOK(c)'
    <3>1. c \notin Open' /\ c \notin Open
      BY <1>1, <1>6 DEF Open
    <3>2. run'[c] = <<>>
      BY <1>1, <1>3, <3>1 DEF RunOK
    <3>3. QED
      BY <3>1, <3>2, NoRun
  <2>2. StoreOK(c)'
    BY <1>6 DEF StoreOK
  <2>3. TimeOK(c)'
    <3>1. pc'[c] # "logging" => left' = left
      BY <1>2, <1>3 DEF VarsOK
    <3>2. QED
      BY <1>1, <1>3, <1>6, <3>1 DEF TimeOK
  <2>4. AnswerOK(c)'
    <3>1. CASE answer' = answer /\ pc'[c] # "logging"
      <4>1. answer'[c] = NoAnswer
        BY <1>1, <1>3, <3>1 DEF AnswerOK
      <4>2. QED
        BY <4>1, NothingTold
    <3>2. CASE answer' = [answer EXCEPT ![c] = row] /\ pc'[c] = "logging" /\ row # NoAnswer
      <4>1. answer'[c] = row
        BY <1>3, <3>2 DEF VarsOK
      <4>2. QED
        BY <1>1, <1>5, <3>2, <4>1 DEF AnswerOK, CacheKey
    <3>3. QED
      BY <1>2, <1>3, <3>1, <3>2 DEF VarsOK
  <2>5. QED
    BY <2>1, <2>2, <2>3, <2>4 DEF CallerOK
<1>10. QED
  BY <1>1, <1>3, <1>6, <1>7, <1>8, <1>9, OneCaller

\* Who joins a flight has as much time as its leader was given, or more.
LEMMA EnterFlightStep ==
  ASSUME SearchInv, NEW c \in Callers, EnterFlight(c)
  PROVE  SearchInv'
<1>1. /\ pc[c] = "entering" /\ mode' = mode /\ asked' = asked /\ left' = left
      /\ answer' = answer /\ cache' = cache
  BY DEF EnterFlight
<1>2. \/ /\ \E d \in Callers : Leads(d, CacheKey(asked[c]))
         /\ pc' = [pc EXCEPT ![c] = "waiting"] /\ run' = run
      \/ /\ pc' = [pc EXCEPT ![c] = "leading"]
         /\ run' = [run EXCEPT ![c] = [i \in DOMAIN asked[c] |-> Unasked]]
  BY DEF EnterFlight
<1>3. /\ VarsOK /\ run \in [Callers -> Seq(RunRecords)]
      /\ RunOK(c) /\ AnswerOK(c) /\ TimeOK(c)
  BY DEF SearchInv, RunSound, AnswersSound, TimeGiven
<1>4. asked[c] \in Seq(Enabled) /\ left[c] \in Nat
  BY <1>3 DEF VarsOK
<1>5. pc'[c] \in {"waiting", "leading"}
  BY <1>2, <1>3 DEF VarsOK
<1>6. \A d \in Callers : d # c => Same(d)
  BY <1>1, <1>2, <1>3 DEF VarsOK, Same
<1>7. VarsOK'
  <2>1. pc' \in [Callers -> {"idle", "reading", "refused", "entering", "waiting",
                             "leading", "storing", "alone", "logging"}]
    BY <1>2, <1>3 DEF VarsOK
  <2>2. QED
    BY <1>1, <1>3, <2>1 DEF VarsOK
<1>8. run' \in [Callers -> Seq(RunRecords)]
  BY <1>2, <1>3, <1>4, RunBegins
<1>9. CallerOK(c)'
  <2>1. RunOK(c)'
    <3>1. CASE pc'[c] = "leading"
      <4>1. run'[c] = [i \in DOMAIN asked'[c] |-> Unasked]
        BY <1>1, <1>2, <1>3, <3>1 DEF VarsOK
      <4>2. QED
        BY <1>1, <1>4, <3>1, <4>1, FreshRun
    <3>2. CASE pc'[c] = "waiting"
      <4>1. c \notin Open' /\ c \notin Open
        BY <1>1, <3>2 DEF Open
      <4>2. run'[c] = <<>>
        BY <1>2, <1>3, <3>2, <4>1 DEF RunOK, VarsOK
      <4>3. QED
        BY <4>1, <4>2, NoRun
    <3>3. QED
      BY <1>5, <3>1, <3>2
  <2>2. StoreOK(c)'
    BY <1>5 DEF StoreOK
  <2>3. TimeOK(c)'
    BY <1>1, <1>3, <1>5 DEF TimeOK
  <2>4. AnswerOK(c)'
    <3>1. answer'[c] = NoAnswer
      BY <1>1, <1>3 DEF AnswerOK
    <3>2. QED
      BY <3>1, NothingTold
  <2>5. QED
    BY <2>1, <2>2, <2>3, <2>4 DEF CallerOK
<1>10. ASSUME pc'[c] = "waiting"
       PROVE  \E d \in Callers : /\ d # c /\ Leads(d, CacheKey(asked'[c]))
                                 /\ left[d] <= left'[c]
  <2>1. \E d \in Callers : Leads(d, CacheKey(asked[c]))
    BY <1>2, <1>3, <1>10 DEF VarsOK
  <2>2. PICK d \in Callers : Leads(d, CacheKey(asked[c]))
    BY <2>1
  <2>3. d # c /\ pc[d] \notin {"idle", "logging"} /\ CacheKey(asked[d]) = CacheKey(asked[c])
    BY <1>1, <2>2 DEF Leads
  <2>4. left[d] <= RequestTimeout(asked[d])
    BY <2>3 DEF SearchInv, TimeGiven, TimeOK
  <2>5. RequestTimeout(asked[d]) = RequestTimeout(asked[c])
    BY <2>3, RequestTimeoutOfKey
  <2>6. left[c] = RequestTimeout(asked[c])
    BY <1>1, <1>3 DEF TimeOK
  <2>7. QED
    BY <1>1, <2>2, <2>3, <2>4, <2>5, <2>6
<1>11. QED
  BY <1>1, <1>6, <1>7, <1>8, <1>9, <1>10, OneCaller

\* The answer is given and logged; the caller is where it was before it asked.
LEMMA ReplyStep ==
  ASSUME SearchInv, NEW c \in Callers, Reply(c)
  PROVE  SearchInv'
<1>1. /\ pc[c] \in {"logging", "refused"} /\ mode' = mode /\ run' = run /\ cache' = cache
      /\ pc' = [pc EXCEPT ![c] = "idle"] /\ asked' = [asked EXCEPT ![c] = <<>>]
      /\ left' = [left EXCEPT ![c] = 0]
      /\ answer' = [answer EXCEPT ![c] = NoAnswer]
  BY DEF Reply
<1>2. VarsOK /\ run \in [Callers -> Seq(RunRecords)] /\ RunOK(c)
  BY DEF SearchInv, RunSound
<1>3. NoAnswer \in Answers
  BY EmptySeq DEF NoAnswer, Answers
<1>4. pc'[c] = "idle" /\ answer'[c] = NoAnswer
  BY <1>1, <1>2 DEF VarsOK
<1>5. \A d \in Callers : d # c => Same(d)
  BY <1>1, <1>2 DEF VarsOK, Same
<1>6. VarsOK'
  <2>1. <<>> \in Seq(Enabled)
    BY EmptySeq
  <2>2. asked' \in [Callers -> Seq(Enabled)] /\ answer' \in [Callers -> Answers]
    BY <1>1, <1>2, <1>3, <2>1 DEF VarsOK
  <2>3. pc' \in [Callers -> {"idle", "reading", "refused", "entering", "waiting",
                             "leading", "storing", "alone", "logging"}]
    BY <1>1, <1>2 DEF VarsOK
  <2>4. left' \in [Callers -> Nat]
    BY <1>1, <1>2 DEF VarsOK
  <2>5. QED
    BY <1>1, <1>2, <2>2, <2>3, <2>4 DEF VarsOK
<1>7. CallerOK(c)'
  <2>1. c \notin Open' /\ c \notin Open
    BY <1>1, <1>4 DEF Open
  <2>2. run'[c] = <<>>
    BY <1>1, <1>2, <2>1 DEF RunOK
  <2>3. RunOK(c)'
    BY <2>1, <2>2, NoRun
  <2>4. StoreOK(c)' /\ TimeOK(c)'
    BY <1>4 DEF StoreOK, TimeOK
  <2>5. AnswerOK(c)'
    BY <1>4, NothingTold
  <2>6. QED
    BY <2>3, <2>4, <2>5 DEF CallerOK
<1>8. QED
  BY <1>1, <1>2, <1>4, <1>5, <1>6, <1>7, OneCaller

\* The client of a run that bypasses the cache goes away: all its time is over.
LEMMA DisconnectStep ==
  ASSUME SearchInv, NEW c \in Callers, Disconnect(c)
  PROVE  SearchInv'
<1> DEFINE stopped == [i \in DOMAIN run[c] |-> [run[c][i] EXCEPT !.left = 0]]
<1>1. /\ pc[c] = "alone" /\ mode' = mode /\ pc' = pc /\ asked' = asked
      /\ answer' = answer /\ cache' = cache
      /\ left' = [left EXCEPT ![c] = 0]
      /\ run' = [run EXCEPT ![c] = stopped]
  BY DEF Disconnect
<1>2. /\ VarsOK /\ RunSound /\ run \in [Callers -> Seq(RunRecords)] /\ RunOK(c)
      /\ AnswerOK(c) /\ TimeOK(c)
  BY DEF SearchInv, RunSound, AnswersSound, TimeGiven
<1>3. left[c] \in Nat /\ left'[c] = 0 /\ run'[c] = stopped
  BY <1>1, <1>2 DEF VarsOK
<1>4. /\ DOMAIN run[c] = 1..Len(run[c]) /\ Len(run[c]) \in Nat
      /\ \A i \in DOMAIN run[c] : run[c][i] \in RunRecords
  BY <1>2, RunParts
<1>5. \A d \in Callers : d # c => Same(d)
  BY <1>1, <1>2 DEF VarsOK, Same
<1>6. VarsOK'
  BY <1>1, <1>2 DEF VarsOK
<1>7. stopped \in Seq(RunRecords)
  <2>1. \A i \in DOMAIN run[c] : [run[c][i] EXCEPT !.left = 0] \in RunRecords
    BY <1>4 DEF RunRecords
  <2>2. QED
    BY <1>4, <2>1
<1>8. /\ DOMAIN run'[c] = DOMAIN run[c]
      /\ \A i \in DOMAIN run[c] :
           /\ run'[c][i].step = run[c][i].step /\ run'[c][i].attempt = run[c][i].attempt
           /\ run'[c][i].outcome = run[c][i].outcome /\ run'[c][i].left = 0
  BY <1>3, <1>4 DEF RunRecords
<1>9. run' \in [Callers -> Seq(RunRecords)]
  BY <1>1, <1>2, <1>7
<1> HIDE DEF stopped
<1>10. CallerOK(c)'
  <2>1. ASSUME NEW i \in DOMAIN run'[c] PROVE CallSound(c, i)'
    <3>1. CallSound(c, i) /\ i \in DOMAIN run[c]
      BY <1>2, <1>8 DEF RunOK
    <3>2. HadTurn(c, i) => HadTurn(c, i)'
      <4>1. \A j \in 1..(i - 1) : j \in DOMAIN run[c]
        BY <1>4, <3>1
      <4>2. QED
        BY <1>1, <1>8, <4>1 DEF HadTurn
    <3>3. QED
      BY <1>1, <1>3, <1>8, <3>1, <3>2 DEF CallSound
  <2>2. RunOK(c)'
    <3>1. c \in Open /\ c \in Open'
      BY <1>1 DEF Open
    <3>2. QED
      BY <1>1, <1>2, <1>8, <2>1, <3>1 DEF RunOK
  <2>3. StoreOK(c)' /\ AnswerOK(c)'
    BY <1>1, <1>2 DEF StoreOK, AnswerOK
  <2>4. TimeOK(c)'
    <3>1. RequestTimeout(asked[c]) \in Nat
      BY <1>2, RequestTimeoutPositive DEF VarsOK
    <3>2. QED
      BY <1>1, <1>2, <1>3, <3>1 DEF TimeOK
  <2>5. QED
    BY <2>2, <2>3, <2>4 DEF CallerOK
<1>11. QED
  BY <1>1, <1>5, <1>6, <1>9, <1>10, OneCaller

\* The outcome of a run reaches everyone who waits for it: they named the same
\* providers.  What is kept of it in the cache was worth keeping.
LEMMA HandStep ==
  ASSUME SearchInv, NEW c \in Callers, c \in Open, Over(c), Hand(c),
         UNCHANGED <<mode, asked>>,
         \/ cache' = cache
         \/ /\ pc[c] = "storing"
            /\ cache' = [cache EXCEPT ![CacheKey(asked[c])] =
                           [AnswerOf(CallsOf(c)) EXCEPT !.cached = TRUE]]
  PROVE  SearchInv'
<1> DEFINE a == AnswerOf(CallsOf(c))
           told == {c} \cup {q \in Callers : /\ pc[c] # "alone" /\ pc[q] = "waiting"
                                             /\ CacheKey(asked[q]) = CacheKey(asked[c])}
<1>1. /\ VarsOK /\ RunSound /\ run \in [Callers -> Seq(RunRecords)]
      /\ RunOK(c) /\ StoreOK(c)
  BY DEF SearchInv, RunSound, StoringSound
<1>2. /\ a \in Answers /\ a.calls = CallsOf(c)
      /\ ProvidersOf(a.calls) \subseteq ToSet(asked[c])
      /\ mode = "parallel" => ProvidersOf(a.calls) = ToSet(asked[c])
  BY <1>1, AnswerParts
<1>3. /\ answer' = [q \in Callers |-> IF q \in told THEN a ELSE answer[q]]
      /\ pc' = [q \in Callers |-> IF q \in told THEN "logging" ELSE pc[q]]
      /\ left' = [q \in Callers |-> IF q \in told THEN LogTimeout ELSE left[q]]
      /\ run' = [run EXCEPT ![c] = <<>>]
  BY DEF Hand
<1>4. ASSUME NEW q \in told
      PROVE  /\ q \in Callers /\ ToSet(asked[q]) = ToSet(asked[c])
             /\ (q = c \/ pc[q] = "waiting")
  BY DEF CacheKey
<1>5. c \in told /\ told \subseteq Callers
  OBVIOUS
<1>6. \A q \in Callers : pc[q] = "waiting" /\ q \notin told =>
        pc[c] = "alone" \/ CacheKey(asked[q]) # CacheKey(asked[c])
  OBVIOUS
<1> HIDE DEF a, told
<1>7. \A q \in told : pc'[q] = "logging" /\ answer'[q] = a
  BY <1>3, <1>5
<1>8. ASSUME NEW q \in Callers, q \notin told PROVE Same(q)
  BY <1>1, <1>3, <1>5, <1>8 DEF Same
<1>9. VarsOK'
  <2>1. pc' \in [Callers -> {"idle", "reading", "refused", "entering", "waiting",
                             "leading", "storing", "alone", "logging"}]
    BY <1>1, <1>3 DEF VarsOK
  <2>2. answer' \in [Callers -> Answers]
    BY <1>1, <1>2, <1>3 DEF VarsOK
  <2>3. cache' \in [SUBSET Providers -> Answers]
    <3>1. [a EXCEPT !.cached = TRUE] \in Answers
      BY <1>2 DEF Answers
    <3>2. QED
      BY <1>1, <3>1 DEF VarsOK, a
  <2>4. left' \in [Callers -> Nat]
    BY <1>1, <1>3, SearchAssumption DEF VarsOK
  <2>5. QED
    BY <1>1, <2>1, <2>2, <2>3, <2>4 DEF VarsOK
<1>10. run' \in [Callers -> Seq(RunRecords)]
  <2>1. <<>> \in Seq(RunRecords)
    BY EmptySeq
  <2>2. QED
    BY <1>1, <1>3, <2>1
<1>11. ASSUME NEW q \in told PROVE CallerOK(q)'
  <2>1. q \in Callers /\ pc'[q] = "logging" /\ answer'[q] = a /\ ToSet(asked[q]) = ToSet(asked[c])
    BY <1>4, <1>7
  <2>2. RunOK(q)'
    <3>1. q \notin Open'
      BY <2>1 DEF Open
    <3>2. run'[q] = <<>>
      <4>1. CASE q = c
        BY <1>1, <1>3, <4>1
      <4>2. CASE q # c
        <5>1. run'[q] = run[q] /\ q \notin Open
          BY <1>1, <1>3, <1>4, <2>1, <4>2 DEF Open
        <5>2. QED
          BY <1>1, <2>1, <5>1 DEF RunSound, RunOK
      <4>3. QED
        BY <4>1, <4>2
    <3>3. QED
      BY <2>1, <3>1, <3>2, NoRun
  <2>3. StoreOK(q)'
    BY <2>1 DEF StoreOK
  <2>4. TimeOK(q)'
    <3>1. pc[q] # "idle"
      BY <1>4 DEF Open
    <3>2. TimeOK(q)
      BY <2>1 DEF SearchInv, TimeGiven
    <3>3. QED
      BY <2>1, <3>1, <3>2 DEF TimeOK
  <2>5. AnswerOK(q)'
    BY <1>2, <2>1 DEF AnswerOK
  <2>6. QED
    BY <2>2, <2>3, <2>4, <2>5 DEF CallerOK
<1>12. ASSUME NEW q \in Callers PROVE CallerOK(q)'
  BY <1>8, <1>11, SameCaller
<1>13. FlightLed'
  <2>1. ASSUME NEW q \in Callers, pc'[q] = "waiting"
        PROVE  \E d \in Callers : Leads(d, CacheKey(asked[q]))' /\ left'[d] <= left'[q]
    <3>1. q \notin told
      BY <1>7, <2>1
    <3>2. pc[q] = "waiting"
      BY <1>8, <2>1, <3>1 DEF Same
    <3>3. PICK d \in Callers : Leads(d, CacheKey(asked[q])) /\ left[d] <= left[q]
      BY <3>2 DEF SearchInv, FlightLed
    <3>4. d \notin told
      <4>1. d # c
        BY <1>6, <3>1, <3>2, <3>3 DEF Leads
      <4>2. pc[d] # "waiting"
        BY <3>3 DEF Leads
      <4>3. QED
        BY <1>4, <4>1, <4>2
    <3>5. Leads(d, CacheKey(asked[q]))'
      BY <1>8, <3>3, <3>4 DEF Leads, Same
    <3>6. left'[d] = left[d] /\ left'[q] = left[q]
      BY <1>8, <3>1, <3>4 DEF Same
    <3>7. QED
      BY <3>3, <3>5, <3>6
  <2>2. QED
    BY <2>1 DEF FlightLed
<1>14. RowsSound' /\ CacheIsWhole'
  <2>1. CASE cache' = cache
    BY <2>1, RowsStay DEF SearchInv
  <2>2. CASE /\ pc[c] = "storing"
             /\ cache' = [cache EXCEPT ![CacheKey(asked[c])] = [a EXCEPT !.cached = TRUE]]
    <3> DEFINE row == [a EXCEPT !.cached = TRUE]
    <3>1. row.calls = a.calls /\ row.calls = CallsOf(c)
      BY <1>2 DEF Answers
    <3>2. cache \in [SUBSET Providers -> Answers]
      BY <1>1 DEF VarsOK
    <3>3. ShouldCache(a)
      BY <1>1, <2>2 DEF StoreOK, a
    <3>4. Kept(row.calls, CacheKey(asked[c]))
      BY <1>1, <3>1, <3>3, KeptOfRun DEF a
    <3>5. cache' = [cache EXCEPT ![CacheKey(asked[c])] = row]
      BY <2>2
    <3> HIDE DEF row
    <3>6. ASSUME NEW key \in SUBSET Providers
          PROVE  /\ key = CacheKey(asked[c]) /\ cache'[key] = row
                 \/ cache'[key] = cache[key]
      BY <3>2, <3>5
    <3>7. RowsSound'
      <4>1. ASSUME NEW key \in SUBSET Providers
            PROVE  ProvidersOf(cache'[key].calls) \subseteq key
        <5>1. ProvidersOf(cache[key].calls) \subseteq key
          BY DEF SearchInv, RowsSound
        <5>2. QED
          BY <1>2, <3>1, <3>6, <5>1 DEF CacheKey
      <4>2. QED
        BY <4>1 DEF RowsSound, ProvidersOf
    <3>8. CacheIsWhole'
      <4>1. ASSUME NEW key \in SUBSET Providers, cache'[key] # NoAnswer
            PROVE  Kept(cache'[key].calls, key)
        <5>1. cache[key] # NoAnswer => Kept(cache[key].calls, key)
          BY DEF SearchInv, CacheIsWhole
        <5>2. QED
          BY <3>4, <3>6, <4>1, <5>1
      <4>2. QED
        BY <4>1 DEF CacheIsWhole, Kept
    <3>9. QED
      BY <3>7, <3>8
  <2>3. QED
    BY <2>1, <2>2 DEF a
<1>15. QED
  BY <1>9, <1>10, <1>12, <1>13, <1>14
     DEF SearchInv, CallerOK, RunSound, StoringSound, TimeGiven, AnswersSound

\* A search that is over and found something is cached.
LEMMA StoreResultStep ==
  ASSUME SearchInv, NEW c \in Callers, StoreResult(c)
  PROVE  SearchInv'
<1>1. c \in Open /\ pc[c] = "storing"
  BY DEF StoreResult, Open
<1>2. Over(c)
  BY <1>1 DEF SearchInv, StoringSound, StoreOK
<1>3. QED
  BY <1>1, <1>2, HandStep DEF StoreResult

\* A run that ends hands its outcome on, or stores it first.
LEMMA EndRunStep ==
  ASSUME SearchInv, NEW c \in Callers, EndRun(c)
  PROVE  SearchInv'
<1>1. /\ VarsOK /\ RunSound /\ StoringSound /\ TimeGiven /\ FlightLed /\ AnswersSound
  BY DEF SearchInv
<1>2. c \in Open /\ Over(c) /\ pc[c] \in Running
  BY <1>1, EndsIsOver DEF EndRun, Open, Running
<1>3. UNCHANGED <<mode, asked, cache>>
  BY DEF EndRun
<1>4. CASE Hand(c)
  BY <1>2, <1>3, <1>4, HandStep
<1>5. CASE /\ pc[c] = "leading" /\ ShouldCache(AnswerOf(CallsOf(c)))
           /\ pc' = [pc EXCEPT ![c] = "storing"]
           /\ left' = left /\ run' = run /\ answer' = answer
  <2>1. VarsOK'
    BY <1>1, <1>3, <1>5 DEF VarsOK
  <2>2. Open' = Open
    BY <1>1, <1>5 DEF VarsOK, Open
  <2>3. ASSUME NEW d \in Callers
        PROVE  /\ RunOK(d)' /\ TimeOK(d)' /\ AnswerOK(d)' /\ StoreOK(d)'
    <3>1. RunOK(d) /\ TimeOK(d) /\ AnswerOK(d) /\ StoreOK(d)
      BY <1>1 DEF RunSound, TimeGiven, AnswersSound, StoringSound
    <3>2. pc'[d] = IF d = c THEN "storing" ELSE pc[d]
      BY <1>1, <1>5 DEF VarsOK
    <3>3. \A i \in DOMAIN run[d] : CallSound(d, i)'
      BY <1>3, <1>5, <3>1 DEF RunOK, CallSound, HadTurn
    <3>4. RunOK(d)'
      BY <1>3, <1>5, <2>2, <3>1, <3>3 DEF RunOK
    <3>5. TimeOK(d)' /\ AnswerOK(d)'
      BY <1>3, <1>5, <3>1, <3>2 DEF TimeOK, AnswerOK
    <3>6. StoreOK(d)'
      BY <1>2, <1>3, <1>5, <3>1, <3>2, SameOutcomes DEF StoreOK
    <3>7. QED
      BY <3>4, <3>5, <3>6
  <2>4. FlightLed'
    <3>1. ASSUME NEW d \in Callers, NEW key, Leads(d, key) PROVE Leads(d, key)'
      BY <1>1, <1>3, <1>5, <3>1 DEF VarsOK, Leads
    <3>2. \A d \in Callers : pc'[d] = "waiting" => pc[d] = "waiting"
      BY <1>1, <1>5 DEF VarsOK
    <3>3. QED
      BY <1>1, <1>3, <1>5, <3>1, <3>2 DEF FlightLed
  <2>5. RowsSound' /\ CacheIsWhole'
    BY <1>3, RowsStay DEF SearchInv
  <2>6. run' \in [Callers -> Seq(RunRecords)]
    BY <1>1, <1>5 DEF RunSound
  <2>7. QED
    BY <2>1, <2>3, <2>4, <2>5, <2>6
       DEF SearchInv, RunSound, StoringSound, TimeGiven, AnswersSound
<1>6. QED
  BY <1>4, <1>5 DEF EndRun

-----------------------------------------------------------------------------
(* Time, the cache, and the whole. *)

\* A cached answer that expires takes nothing from a caller.
LEMMA CacheExpiresStep ==
  ASSUME SearchInv, NEW key \in SUBSET Providers, CacheExpires(key)
  PROVE  SearchInv'
<1>1. /\ cache' = [cache EXCEPT ![key] = NoAnswer] /\ mode' = mode /\ pc' = pc
      /\ asked' = asked /\ left' = left /\ run' = run /\ answer' = answer
  BY DEF CacheExpires
<1>2. NoAnswer \in Answers
  BY EmptySeq DEF NoAnswer, Answers
<1>3. VarsOK /\ VarsOK'
  BY <1>1, <1>2 DEF SearchInv, VarsOK
<1>4. \A k \in SUBSET Providers : cache'[k] = NoAnswer \/ cache'[k] = cache[k]
  BY <1>1, <1>3 DEF VarsOK
<1>5. RowsSound' /\ CacheIsWhole'
  BY <1>1, <1>4, RowsStay DEF SearchInv
<1>6. ASSUME NEW d \in Callers PROVE CallerOK(d)'
  BY <1>1, SameCaller DEF Same
<1>7. FlightLed'
  BY <1>1 DEF SearchInv, FlightLed, Leads
<1>8. run' \in [Callers -> Seq(RunRecords)]
  BY <1>1 DEF SearchInv, RunSound
<1>9. QED
  BY <1>3, <1>5, <1>6, <1>7, <1>8
     DEF SearchInv, CallerOK, RunSound, StoringSound, TimeGiven, AnswersSound

\* What is left of a time never grows.
LEMMA DownFalls == \A n \in Nat : Down(n) \in Nat /\ Down(n) <= n
  BY DEF Down

\* A tick keeps the order of two times.
LEMMA DownMonotone == \A m, n \in Nat : m <= n => Down(m) <= Down(n)
  BY DEF Down

\* A tick takes of the time of all alike; it comes only when nobody is about to
\* join a flight.
LEMMA TickStep ==
  ASSUME SearchInv, Tick
  PROVE  SearchInv'
<1>1. /\ mode' = mode /\ pc' = pc /\ asked' = asked /\ answer' = answer /\ cache' = cache
      /\ left' = [c \in Callers |-> Down(left[c])]
      /\ run' = [c \in Callers |-> [i \in DOMAIN run[c] |->
                    [run[c][i] EXCEPT !.left = Down(@)]]]
      /\ \A c \in Callers : Waits(c)
  BY DEF Tick
<1>2. /\ VarsOK /\ RunSound /\ run \in [Callers -> Seq(RunRecords)]
      /\ StoringSound /\ TimeGiven /\ FlightLed /\ AnswersSound
  BY DEF SearchInv, RunSound
<1>3. \A c \in Callers : left[c] \in Nat /\ left'[c] = Down(left[c])
  BY <1>1, <1>2 DEF VarsOK
<1>4. VarsOK'
  <2>1. left' \in [Callers -> Nat]
    BY <1>1, <1>3, DownFalls
  <2>2. QED
    BY <1>1, <1>2, <2>1 DEF VarsOK
<1>5. ASSUME NEW c \in Callers
      PROVE  /\ run'[c] \in Seq(RunRecords) /\ DOMAIN run'[c] = DOMAIN run[c]
             /\ DOMAIN run[c] = 1..Len(run[c]) /\ Len(run[c]) \in Nat
             /\ \A i \in DOMAIN run[c] :
                  /\ run'[c][i].step = run[c][i].step
                  /\ run'[c][i].attempt = run[c][i].attempt
                  /\ run'[c][i].outcome = run[c][i].outcome
                  /\ run[c][i].left \in Nat /\ run'[c][i].left = Down(run[c][i].left)
  <2>1. /\ DOMAIN run[c] = 1..Len(run[c]) /\ Len(run[c]) \in Nat
        /\ \A i \in DOMAIN run[c] : run[c][i] \in RunRecords
    BY <1>2, RunParts
  <2>2. run'[c] = [i \in DOMAIN run[c] |-> [run[c][i] EXCEPT !.left = Down(@)]]
    BY <1>1
  <2>3. ASSUME NEW i \in DOMAIN run[c]
        PROVE  /\ run'[c][i] \in RunRecords
               /\ run'[c][i].step = run[c][i].step
               /\ run'[c][i].attempt = run[c][i].attempt
               /\ run'[c][i].outcome = run[c][i].outcome
               /\ run[c][i].left \in Nat /\ run'[c][i].left = Down(run[c][i].left)
    <3>1. run'[c][i] = [run[c][i] EXCEPT !.left = Down(@)]
      BY <2>2
    <3>2. run[c][i] \in RunRecords /\ run[c][i].left \in Nat
      BY <2>1 DEF RunRecords
    <3>3. Down(run[c][i].left) \in Nat
      BY <3>2, DownFalls
    <3>4. QED
      BY <3>1, <3>2, <3>3 DEF RunRecords
  <2>4. run'[c] \in [1..Len(run[c]) -> RunRecords]
    BY <2>1, <2>2, <2>3
  <2>5. run'[c] \in Seq(RunRecords)
    BY <2>1, <2>4, SeqDef
  <2>6. QED
    BY <2>1, <2>2, <2>3, <2>5
<1>6. run' \in [Callers -> Seq(RunRecords)]
  BY <1>1, <1>5
<1>7. Open' = Open
  BY <1>1 DEF Open
<1>8. ASSUME NEW c \in Callers PROVE CallerOK(c)'
  <2>1. RunOK(c) /\ StoreOK(c) /\ TimeOK(c) /\ AnswerOK(c)
    BY <1>2 DEF RunSound, StoringSound, TimeGiven, AnswersSound
  <2>2. ASSUME NEW i \in DOMAIN run[c] PROVE CallSound(c, i)'
    <3>1. CallSound(c, i)
      BY <2>1 DEF RunOK
    <3>2. HadTurn(c, i) => HadTurn(c, i)'
      <4>1. \A j \in 1..(i - 1) : j \in DOMAIN run[c]
        BY <1>5
      <4>2. QED
        BY <1>1, <1>5, <4>1 DEF HadTurn
    <3>3. run'[c][i].left <= left'[c]
      BY <1>3, <1>5, <3>1, DownMonotone DEF CallSound
    <3>4. QED
      BY <1>1, <1>5, <3>1, <3>2, <3>3 DEF CallSound
  <2>3. RunOK(c)'
    <3>1. c \notin Open => run'[c] = <<>>
      <4>1. c \notin Open => DOMAIN run'[c] = {}
        BY <1>5, <2>1 DEF RunOK
      <4>2. QED
        BY <1>5, <4>1, NoElements
    <3>2. QED
      BY <1>1, <1>5, <1>7, <2>1, <2>2, <3>1 DEF RunOK
  <2>4. StoreOK(c)'
    <3>1. left[c] = 0 => left'[c] = 0
      BY <1>3 DEF Down
    <3>2. QED
      BY <1>1, <1>5, <2>1, <3>1, SameOutcomes DEF StoreOK
  <2>5. TimeOK(c)'
    <3>1. pc[c] \notin {"reading", "entering"}
      BY <1>1 DEF Waits, Running
    <3>2. RequestTimeout(asked[c]) \in Nat
      BY <1>2, RequestTimeoutPositive DEF VarsOK
    <3>3. left'[c] \in Nat /\ left'[c] <= left[c] /\ left[c] \in Nat
      BY <1>3, DownFalls
    <3>4. QED
      BY <1>1, <2>1, <3>1, <3>2, <3>3 DEF TimeOK
  <2>6. AnswerOK(c)'
    BY <1>1, <2>1 DEF AnswerOK
  <2>7. QED
    BY <2>3, <2>4, <2>5, <2>6 DEF CallerOK
<1>9. FlightLed'
  <2>1. ASSUME NEW c \in Callers, pc[c] = "waiting"
        PROVE  \E d \in Callers : Leads(d, CacheKey(asked[c]))' /\ left'[d] <= left'[c]
    <3>1. PICK d \in Callers : Leads(d, CacheKey(asked[c])) /\ left[d] <= left[c]
      BY <1>2, <2>1 DEF FlightLed
    <3>2. left'[d] <= left'[c]
      BY <1>3, <3>1, DownMonotone
    <3>3. QED
      BY <1>1, <3>1, <3>2 DEF Leads
  <2>2. QED
    BY <1>1, <2>1 DEF FlightLed
<1>10. RowsSound' /\ CacheIsWhole'
  BY <1>1, RowsStay DEF SearchInv
<1>11. QED
  BY <1>4, <1>6, <1>8, <1>9, <1>10
     DEF SearchInv, CallerOK, RunSound, StoringSound, TimeGiven, AnswersSound

\* At the start nobody searches and nothing is cached.
LEMMA SearchInitInv == Init => SearchInv
<1> SUFFICES ASSUME Init PROVE SearchInv
  OBVIOUS
<1> USE DEF Init
<1>1. /\ NoAnswer \in Answers /\ <<>> \in Seq(Enabled) /\ <<>> \in Seq(RunRecords)
      /\ NoAnswer.calls = <<>> /\ NoAnswer.status = "none"
  BY EmptySeq DEF NoAnswer, Answers
<1>2. ProvidersOf(<<>>) = {}
  BY DEF ProvidersOf
<1>3. VarsOK
  BY <1>1 DEF VarsOK
<1>4. RunSound
  <2>1. Open = {}
    BY DEF Open
  <2>2. run \in [Callers -> Seq(RunRecords)]
    BY <1>1
  <2>3. \A c \in Callers : run[c] = <<>> /\ DOMAIN run[c] = {}
    OBVIOUS
  <2>4. QED
    BY <2>1, <2>2, <2>3 DEF RunSound, RunOK
<1>5. StoringSound /\ TimeGiven /\ FlightLed
  BY DEF StoringSound, StoreOK, TimeGiven, TimeOK, FlightLed
<1>6. AnswersSound
  <2>1. ASSUME NEW c \in Callers PROVE AnswerOK(c)
    <3>1. answer[c] = NoAnswer
      OBVIOUS
    <3>2. QED
      BY <1>1, <1>2, <3>1 DEF AnswerOK
  <2>2. QED
    BY <2>1 DEF AnswersSound
<1>7. RowsSound /\ CacheIsWhole
  BY <1>1, <1>2 DEF RowsSound, CacheIsWhole
<1>8. QED
  BY <1>3, <1>4, <1>5, <1>6, <1>7 DEF SearchInv

\* What a caller does by itself.
LEMMA CallerStepInv ==
  ASSUME SearchInv, NEW c \in Callers, CallerStep(c)
  PROVE  SearchInv'
<1>1. CASE ReadCache(c) \/ EnterFlight(c) \/ EndRun(c) \/ StoreResult(c) \/ Reply(c)
  BY <1>1, ReadCacheStep, EnterFlightStep, EndRunStep, StoreResultStep, ReplyStep
<1>2. ASSUME NEW i \in DOMAIN run[c],
             \/ BeginCall(c, i) \/ FailAcquire(c, i) \/ ReportQuota(c, i)
             \/ \E o \in {"results", "empty"} : AnswerCall(c, i, o)
             \/ \E e \in Errors \cup {"timeout"} : FailCall(c, i, e)
      PROVE  SearchInv'
  BY <1>2, BeginCallStep, FailAcquireStep, ReportQuotaStep, AnswerCallStep, FailCallStep
<1>3. QED
  BY <1>1, <1>2 DEF CallerStep

\* Every step of a search keeps the invariant.
LEMMA SearchStepInv == SearchInv /\ [Next]_vars => SearchInv'
<1> SUFFICES ASSUME SearchInv, [Next]_vars PROVE SearchInv'
  OBVIOUS
<1>1. CASE \E s \in Searches : Ask(s.caller, s.names, s.policy)
  BY <1>1, AskStep
<1>2. CASE \E c \in Callers : CallerStep(c) \/ Disconnect(c)
  BY <1>2, CallerStepInv, DisconnectStep
<1>3. CASE \E key \in SUBSET Providers : CacheExpires(key)
  BY <1>3, CacheExpiresStep
<1>4. CASE Tick
  BY <1>4, TickStep
<1>5. CASE UNCHANGED vars
  <2>1. \A d \in Callers : CallerOK(d)'
    BY <1>5, SameCaller DEF vars, Same
  <2>2. VarsOK'
    BY <1>5 DEF vars, SearchInv, VarsOK
  <2>3. RowsSound' /\ CacheIsWhole' /\ run' \in [Callers -> Seq(RunRecords)]
    BY <1>5, RowsStay DEF vars, SearchInv, RunSound
  <2>4. FlightLed'
    BY <1>5 DEF vars, SearchInv, FlightLed, Leads
  <2>5. QED
    BY <2>1, <2>2, <2>3, <2>4
       DEF SearchInv, CallerOK, RunSound, StoringSound, TimeGiven, AnswersSound
<1>6. QED
  BY <1>1, <1>2, <1>3, <1>4, <1>5 DEF Next

\* The invariant of a search holds in every state, for every routing of providers.
THEOREM SearchCorrect == Spec => []SearchInv
  BY SearchInitInv, SearchStepInv, PTL DEF Spec

\* Search has its types; no provider is called more often than its retries allow,
\* and no call is given more time than its request has left (callProvider).
THEOREM SearchTypeCorrect == Spec => []TypeOK
<1>1. SearchInv => TypeOK
  <2> SUFFICES ASSUME SearchInv PROVE TypeOK
    OBVIOUS
  <2>1. VarsOK /\ RunSound
    BY DEF SearchInv
  <2>2. ASSUME NEW c \in Callers PROVE RunTypeOK(c)
    <3>1. run[c] # <<>> => DOMAIN run[c] = DOMAIN asked[c]
      BY <2>1 DEF RunSound, RunOK
    <3>2. ASSUME NEW i \in DOMAIN run[c]
          PROVE  /\ run[c][i].step \in Steps
                 /\ run[c][i].attempt \in 0..(KeyRetryCount[asked[c][i]] + 1)
                 /\ run[c][i].left \in 0..left[c]
                 /\ run[c][i].outcome \in {"none", "results", "empty", "failed"}
      <4>1. run[c][i] \in RunRecords /\ CallSound(c, i)
        BY <2>1, RunParts DEF RunSound, RunOK
      <4>2. KeyRetryCount[asked[c][i]] \in Nat /\ left[c] \in Nat
        BY <2>1, ProviderNumbers DEF VarsOK
      <4>3. QED
        BY <4>1, <4>2 DEF RunRecords, CallSound, Outcomes
    <3>3. QED
      BY <3>1, <3>2 DEF RunTypeOK
  <2>3. QED
    BY <2>1, <2>2 DEF VarsOK, TypeOK
<1>2. QED
  BY <1>1, SearchCorrect, PTL

\* A caller is told what the providers it asked have brought, whether by its own
\* run, by the flight of another (singleflight) or from the cache.
THEOREM AnswerCorrect == Spec => []AnswerFromAsked
<1>1. SearchInv => AnswerFromAsked
  <2> SUFFICES ASSUME SearchInv PROVE AnswerFromAsked
    OBVIOUS
  <2>1. ASSUME NEW c \in Callers
        PROVE  {call.provider : call \in ToSet(answer[c].calls)} = ProvidersOf(answer[c].calls)
    BY DEF ToSet, ProvidersOf
  <2>2. QED
    BY <2>1 DEF SearchInv, AnswersSound, AnswerOK, AnswerFromAsked
<1>2. QED
  BY <1>1, SearchCorrect, PTL

\* A row of the cache holds what its mode promises (shouldWriteSearchCache and the
\* order of executeSearch): in parallel mode all that its key asks for, in fallback mode
\* no more than a provider that answered, and nothing found by those before the last.
THEOREM CacheCorrect == Spec => []CacheIsWhole
<1>1. SearchInv => CacheIsWhole
  BY DEF SearchInv
<1>2. QED
  BY <1>1, SearchCorrect, PTL

-----------------------------------------------------------------------------
(* Nobody is kept waiting. *)

\* Nobody waits for an upstream beyond its time: a call has no more of it than its
\* request, and ends when it is over.
LEMMA NobodyRunsLate ==
  ASSUME VarsOK, RunSound, NEW c \in Callers, Waits(c), left[c] = 0, ~Writing(c)
  PROVE  pc[c] \notin Running
<1>1. SUFFICES ASSUME pc[c] \in Running PROVE FALSE
  OBVIOUS
<1>2. ~Ends(c) /\ \A i \in DOMAIN run[c] :
        ~Due(c, i) /\ (run[c][i].step = "calling" => run[c][i].left > 0)
  BY <1>1 DEF Waits, Running
<1>3. PICK i \in DOMAIN run[c] : run[c][i].step = "calling"
  BY <1>2 DEF Ends, Writing
<1>4. run[c][i].left > 0 /\ run[c][i].left <= left[c] /\ run[c][i].left \in Nat
  BY <1>2, <1>3, RunParts DEF RunSound, RunOK, CallSound, RunRecords
<1>5. QED
  BY <1>4

\* Time does not pass while somebody is beyond the time of its request or its log,
\* whether it runs itself or has joined a flight, unless a write without a deadline
\* holds it up: SetCache, or that of a quota in callProvider.
THEOREM LateCorrect == Spec => []LateOnlyForWrites
<1>1. SearchInv => LateOnlyForWrites
  <2> SUFFICES ASSUME SearchInv, \A d \in Callers : Waits(d),
                      NEW c \in Callers, pc[c] # "idle", left[c] = 0
               PROVE  \E d \in Callers : Serves(d, c) /\ Writing(d)
    BY DEF LateOnlyForWrites
  <2>1. VarsOK /\ RunSound /\ FlightLed
    BY DEF SearchInv
  <2>2. CASE Writing(c)
    BY <2>2 DEF Serves
  <2>3. CASE ~Writing(c)
    <3>1. pc[c] = "waiting"
      BY <2>1, <2>3, NobodyRunsLate DEF Waits, Writing
    <3>2. PICK d \in Callers : Leads(d, CacheKey(asked[c])) /\ left[d] <= left[c]
      BY <2>1, <3>1 DEF FlightLed
    <3>3. left[d] = 0
      BY <2>1, <3>2 DEF VarsOK
    <3>4. Writing(d)
      BY <2>1, <3>2, <3>3, NobodyRunsLate DEF Leads, Running, Writing
    <3>5. QED
      BY <3>1, <3>2, <3>4 DEF Serves
  <2>4. QED
    BY <2>2, <2>3
<1>2. QED
  BY <1>1, SearchCorrect, PTL

-----------------------------------------------------------------------------
(* The runs keep their promise: every step is one of SearchPromise, or none. *)

\* What the promise sees of the runs.
SeenAsked == [c \in Callers |-> IF c \in Open THEN asked[c] ELSE <<>>]
SeenOutcome == [c \in Callers |-> [i \in DOMAIN run[c] |-> run[c][i].outcome]]
SeenLate == {c \in Open : left[c] = 0}

\* No outcomes are seen of who does not run.
LEMMA NothingSeen ==
  ASSUME NEW r, r = <<>>
  PROVE  [i \in DOMAIN r |-> r[i].outcome] = <<>>
<1> DEFINE f == [i \in DOMAIN r |-> r[i].outcome]
<1>1. DOMAIN r = 1..0
  OBVIOUS
<1>2. f \in [1..0 -> {}]
  BY <1>1
<1>3. f \in Seq({}) /\ DOMAIN f = {}
  BY <1>2, SeqDef
<1> HIDE DEF f
<1>4. f = <<>>
  BY <1>3, NoElements
<1>5. QED
  BY <1>4 DEF f

\* Nothing is seen of a step that opens or closes no run, settles no provider and
\* lets no time run out.
LEMMA StepUnseen ==
  ASSUME mode' = mode, Open' = Open, SeenLate' = SeenLate,
         \A c \in Open : asked'[c] = asked[c],
         \A c \in Callers :
           /\ DOMAIN run'[c] = DOMAIN run[c]
           /\ \A i \in DOMAIN run[c] : run'[c][i].outcome = run[c][i].outcome
  PROVE  UNCHANGED Promise!promised
<1>1. SeenAsked' = SeenAsked
  BY DEF SeenAsked
<1>2. SeenOutcome' = SeenOutcome
  BY DEF SeenOutcome
<1>3. QED
  BY <1>1, <1>2 DEF Promise!promised, SeenAsked, SeenOutcome, SeenLate

\* A run is opened in one of the orders.
LEMMA OpenSeen ==
  ASSUME VarsOK, run \in [Callers -> Seq(RunRecords)],
         NEW c \in Callers, c \notin Open, Open' = Open \cup {c},
         NEW names \in AskedOrders, asked'[c] = names,
         left'[c] # 0, mode' = mode,
         run' = [run EXCEPT ![c] = [i \in DOMAIN names |-> Unasked]],
         \A d \in Callers : d # c => asked'[d] = asked[d] /\ left'[d] = left[d]
  PROVE  Promise!Open(c)
<1>1. SeenAsked' = [SeenAsked EXCEPT ![c] = names]
  BY DEF SeenAsked
<1>2. SeenOutcome' = [SeenOutcome EXCEPT ![c] = [i \in DOMAIN names |-> "none"]]
  <2>1. ASSUME NEW d \in Callers
        PROVE  SeenOutcome'[d] = IF d = c THEN [i \in DOMAIN names |-> "none"]
                                 ELSE SeenOutcome[d]
    <3>1. CASE d = c
      <4>1. run'[c] = [i \in DOMAIN names |-> Unasked]
        OBVIOUS
      <4>2. QED
        BY <3>1, <4>1 DEF SeenOutcome, Unasked
    <3>2. CASE d # c
      <4>1. run'[d] = run[d]
        BY <3>2
      <4>2. QED
        BY <3>2, <4>1 DEF SeenOutcome
    <3>3. QED
      BY <3>1, <3>2
  <2>2. QED
    BY <2>1 DEF SeenOutcome
<1>3. SeenLate' = SeenLate
  BY DEF SeenLate, Open
<1>4. QED
  BY <1>1, <1>2, <1>3
     DEF Promise!Open, AskedOrders, SeenAsked, SeenOutcome, SeenLate

\* A provider asked in turn is settled.
LEMMA SettleSeen ==
  ASSUME VarsOK, RunSound, NEW c \in Callers, NEW i \in DOMAIN run[c],
         c \in Open, HadTurn(c, i), run[c][i].step # "settled",
         NEW outcome \in Outcomes, Settle(c, i, outcome),
         UNCHANGED <<mode, pc, asked, left>>
  PROVE  i \in DOMAIN SeenAsked[c] /\ Promise!Settle(c, i)
<1>1. run[c][i].outcome = "none" /\ run \in [Callers -> Seq(RunRecords)]
  BY DEF RunSound, RunOK, CallSound
<1>2. /\ run[c] \in Seq(RunRecords) /\ DOMAIN run[c] = 1..Len(run[c]) /\ Len(run[c]) \in Nat
      /\ i \in DOMAIN asked[c]
  BY RunParts
<1>3. SeenOutcome' = [SeenOutcome EXCEPT ![c] = [SeenOutcome[c] EXCEPT ![i] = outcome]]
  <2> DEFINE record == [step |-> "settled", attempt |-> 0, left |-> 0, outcome |-> outcome]
  <2>1. run' = [run EXCEPT ![c] = [run[c] EXCEPT ![i] = record]]
    BY DEF Settle
  <2>2. record.outcome = outcome
    OBVIOUS
  <2> HIDE DEF record
  <2>3. ASSUME NEW d \in Callers
        PROVE  SeenOutcome'[d] = IF d = c THEN [SeenOutcome[c] EXCEPT ![i] = outcome]
                                 ELSE SeenOutcome[d]
    <3>1. CASE d = c
      <4>1. run'[c] = [run[c] EXCEPT ![i] = record]
        BY <1>1, <2>1
      <4>2. SeenOutcome[c] = [j \in DOMAIN run[c] |-> run[c][j].outcome]
        BY DEF SeenOutcome
      <4>3. SeenOutcome'[c] = [j \in DOMAIN run'[c] |-> run'[c][j].outcome]
        BY DEF SeenOutcome
      <4>4. QED
        BY <2>2, <3>1, <4>1, <4>2, <4>3
    <3>2. CASE d # c
      <4>1. run'[d] = run[d]
        BY <1>1, <2>1, <3>2
      <4>2. QED
        BY <3>2, <4>1 DEF SeenOutcome
    <3>3. QED
      BY <3>1, <3>2
  <2>4. QED
    BY <2>3 DEF SeenOutcome
<1>4. SeenAsked' = SeenAsked /\ SeenLate' = SeenLate /\ Open' = Open /\ mode' = mode
  BY DEF SeenAsked, SeenLate, Open
<1>5. /\ SeenOutcome[c][i] = "none" /\ SeenAsked[c] = asked[c]
      /\ \A j \in DOMAIN run[c] : SeenOutcome[c][j] = run[c][j].outcome
  BY <1>1 DEF SeenOutcome, SeenAsked
<1>6. /\ mode = "single" => i = 1
      /\ mode = "fallback" =>
           \A j \in 1..(i - 1) : SeenOutcome[c][j] \in {"empty", "failed"}
      /\ mode \in {"parallel", "single", "fallback"}
  <2>1. \A j \in 1..(i - 1) : j \in DOMAIN run[c]
    BY <1>2
  <2>2. mode \in {"parallel", "single", "fallback"}
    BY SearchAssumption DEF VarsOK
  <2>3. QED
    BY <1>5, <2>1, <2>2 DEF HadTurn
<1>7. Promise!Settle(c, i)
  <2>1. Promise!Turn(c, i)
    BY <1>6 DEF Promise!Turn, SeenOutcome
  <2>2. ~Promise!Settled(c, i)
    BY <1>5 DEF Promise!Settled, Promise!Outcomes, SeenOutcome
  <2>3. outcome \in Promise!Outcomes
    BY DEF Outcomes, Promise!Outcomes
  <2>4. QED
    BY <1>3, <1>4, <2>1, <2>2, <2>3
       DEF Promise!Settle, SeenOutcome, SeenAsked, SeenLate
<1>8. QED
  BY <1>2, <1>5, <1>7

\* A run that is handed on is complete.
LEMMA CloseSeen ==
  ASSUME VarsOK, RunSound, NEW c \in Callers, c \in Open, Over(c), Hand(c),
         UNCHANGED <<mode, asked>>
  PROVE  Promise!Close(c)
<1>1. DOMAIN run[c] = DOMAIN asked[c] /\ run \in [Callers -> Seq(RunRecords)]
  BY DEF RunSound, RunOK
<1>2. \A i \in DOMAIN run[c] : run[c][i] \in RunRecords
  BY RunParts
<1>3. /\ SeenAsked[c] = asked[c]
      /\ \A i \in DOMAIN run[c] : SeenOutcome[c][i] = run[c][i].outcome
      /\ left[c] = 0 => c \in SeenLate
  BY DEF SeenAsked, SeenOutcome, SeenLate
<1>4. Promise!Complete(c)
  <2>1. \A i \in DOMAIN run[c] : run[c][i].outcome # "none" => SeenOutcome[c][i] \in Outcomes
    BY <1>2, <1>3 DEF RunRecords
  <2>2. \/ \A i \in DOMAIN SeenAsked[c] : SeenOutcome[c][i] \in Outcomes
        \/ mode = "single" /\ \E i \in DOMAIN SeenAsked[c] : SeenOutcome[c][i] \in Outcomes
        \/ mode = "fallback" /\ \E i \in DOMAIN SeenAsked[c] : SeenOutcome[c][i] = "results"
        \/ mode = "fallback" /\ c \in SeenLate
    BY <1>1, <1>3, <2>1 DEF Over
  <2>3. QED
    BY <2>2 DEF Promise!Complete, Promise!Settled, Promise!Outcomes, Outcomes,
                SeenAsked, SeenOutcome, SeenLate
<1>5. /\ \A d \in Callers : pc'[d] = pc[d] \/ (pc'[d] = "logging" /\ (d = c \/ pc[d] = "waiting"))
      /\ pc'[c] = "logging" /\ run' = [run EXCEPT ![c] = <<>>]
      /\ \A d \in Callers : left'[d] = left[d] \/ d = c \/ pc[d] = "waiting"
  BY DEF Hand
<1>6. Open' = Open \ {c}
  BY <1>5 DEF Open
<1>7. SeenAsked' = [SeenAsked EXCEPT ![c] = <<>>]
  BY <1>6 DEF SeenAsked
<1>8. SeenLate' = SeenLate \ {c}
  <2>1. \A d \in Open \ {c} : left'[d] = left[d]
    BY <1>5 DEF Open
  <2>2. QED
    BY <1>6, <2>1 DEF SeenLate
<1>9. SeenOutcome' = [SeenOutcome EXCEPT ![c] = <<>>]
  <2>1. ASSUME NEW d \in Callers
        PROVE  SeenOutcome'[d] = IF d = c THEN <<>> ELSE SeenOutcome[d]
    <3>1. CASE d = c
      <4>1. run'[c] = <<>>
        BY <1>1, <1>5
      <4>2. [i \in DOMAIN run'[c] |-> run'[c][i].outcome] = <<>>
        BY <4>1, NothingSeen
      <4>3. QED
        BY <3>1, <4>2 DEF SeenOutcome
    <3>2. CASE d # c
      <4>1. run'[d] = run[d]
        BY <1>1, <1>5, <3>2
      <4>2. QED
        BY <3>2, <4>1 DEF SeenOutcome
    <3>3. QED
      BY <3>1, <3>2
  <2>2. QED
    BY <2>1 DEF SeenOutcome
<1>10. QED
  BY <1>4, <1>6, <1>7, <1>8, <1>9 DEF Promise!Close, SeenAsked, SeenOutcome, SeenLate

\* Time passes, and may run out for some.
LEMMA TimeSeen ==
  ASSUME mode' = mode, Open' = Open, asked' = asked,
         \A c \in Callers : left[c] = 0 => left'[c] = 0,
         \A c \in Callers :
           /\ DOMAIN run'[c] = DOMAIN run[c]
           /\ \A i \in DOMAIN run[c] : run'[c][i].outcome = run[c][i].outcome
  PROVE  Promise!TimePasses
<1>1. SeenAsked' = SeenAsked /\ SeenOutcome' = SeenOutcome
  BY DEF SeenAsked, SeenOutcome
<1>2. Open \subseteq Callers
  BY DEF Open
<1>3. SeenLate' \in SUBSET Open /\ SeenLate' = SeenLate \cup SeenLate'
  BY <1>2 DEF SeenLate
<1>4. \E over \in SUBSET Open : SeenLate' = SeenLate \cup over
  BY <1>3
<1>5. QED
  BY <1>1, <1>4 DEF Promise!TimePasses, SeenAsked, SeenOutcome, SeenLate

\* At the start nothing is promised.
LEMMA PromiseInit == Init => Promise!Init
<1> SUFFICES ASSUME Init PROVE Promise!Init
  OBVIOUS
<1>1. Open = {} /\ SeenLate = {}
  BY DEF Init, Open, SeenLate
<1>2. SeenAsked = [c \in Callers |-> <<>>]
  BY <1>1 DEF SeenAsked
<1>3. SeenOutcome = [c \in Callers |-> <<>>]
  <2>1. ASSUME NEW c \in Callers PROVE SeenOutcome[c] = <<>>
    <3>1. run[c] = <<>>
      BY DEF Init
    <3>2. QED
      BY <3>1, NothingSeen DEF SeenOutcome
  <2>2. QED
    BY <2>1 DEF SeenOutcome
<1>4. mode \in Modes
  BY DEF Init
<1>5. QED
  BY <1>1, <1>2, <1>3, <1>4 DEF Promise!Init, SeenAsked, SeenOutcome, SeenLate

\* What becomes of one caller that neither runs nor begins to is not seen.
LEMMA CallerUnseen ==
  ASSUME mode' = mode, run' = run, left' \in [Callers -> Nat],
         NEW c \in Callers, c \notin Open, c \notin Open',
         \A d \in Callers : d # c => pc'[d] = pc[d] /\ asked'[d] = asked[d] /\ left'[d] = left[d]
  PROVE  UNCHANGED Promise!promised
<1>1. Open' = Open
  BY DEF Open
<1>2. SeenLate' = SeenLate /\ \A d \in Open : asked'[d] = asked[d]
  BY <1>1 DEF SeenLate, Open
<1>3. QED
  BY <1>1, <1>2, StepUnseen

\* Asking opens the promise of the caller, or it stays unseen until it misses.
LEMMA AskPromise ==
  ASSUME SearchInv, NEW s \in Searches, Ask(s.caller, s.names, s.policy), VarsOK'
  PROVE  UNCHANGED Promise!promised \/ Promise!Open(s.caller)
<1> DEFINE c == s.caller
<1>1. /\ c \in Callers /\ s.policy \in {"default", "refresh", "bypass"}
      /\ VarsOK /\ run \in [Callers -> Seq(RunRecords)] /\ RunOK(c)
  BY SearchAssumption DEF SearchInv, RunSound
<1>2. PICK order \in {s.names} \cup RouteProviders(s.names) :
        /\ asked' = [asked EXCEPT ![c] = FilterEnabled(order)]
        /\ left' = [left EXCEPT ![c] = RequestTimeout(FilterEnabled(order))]
        /\ run' = [run EXCEPT ![c] =
                     IF s.policy = "bypass"
                       THEN [i \in DOMAIN FilterEnabled(order) |-> Unasked] ELSE <<>>]
  BY DEF Ask
<1> DEFINE names == FilterEnabled(order)
<1>3. names \in Seq(Enabled) /\ names \in AskedOrders
  BY AskedOrder
<1>4. RequestTimeout(names) \in Nat \ {0}
  BY <1>3, RequestTimeoutPositive
<1>5. /\ pc[c] = "idle" /\ mode' = mode
      /\ pc' = [pc EXCEPT ![c] = CASE s.policy = "default" -> "reading"
                                   [] s.policy = "refresh" -> "entering"
                                   [] s.policy = "bypass" -> "alone"]
  BY DEF Ask
<1>6. c \notin Open
  BY <1>5 DEF Open
<1>7. \A d \in Callers : d # c => pc'[d] = pc[d] /\ asked'[d] = asked[d] /\ left'[d] = left[d]
  BY <1>1, <1>2, <1>5 DEF VarsOK
<1> HIDE DEF names
<1>8. CASE s.policy = "bypass"
  <2>1. pc'[c] = "alone"
    BY <1>1, <1>5, <1>8 DEF VarsOK
  <2>2. Open' = Open \cup {c}
    BY <1>1, <1>7, <2>1 DEF Open
  <2>3. asked'[c] = names /\ left'[c] # 0
    BY <1>1, <1>2, <1>4 DEF VarsOK, names
  <2>4. run' = [run EXCEPT ![c] = [i \in DOMAIN names |-> Unasked]]
    BY <1>2, <1>8 DEF names
  <2>5. QED
    BY <1>1, <1>3, <1>5, <1>6, <1>7, <2>2, <2>3, <2>4, OpenSeen
<1>9. CASE s.policy # "bypass"
  <2>1. pc'[c] \in {"reading", "entering"}
    BY <1>1, <1>5, <1>9 DEF VarsOK
  <2>2. c \notin Open'
    BY <2>1 DEF Open
  <2>3. run' = run
    <3>1. run[c] = <<>>
      BY <1>6, <1>1 DEF RunOK
    <3>2. run' = [run EXCEPT ![c] = <<>>]
      BY <1>2, <1>9
    <3>3. QED
      BY <1>1, <3>1, <3>2
  <2>4. left' \in [Callers -> Nat]
    BY DEF VarsOK
  <2>5. QED
    BY <1>1, <1>5, <1>6, <1>7, <2>2, <2>3, <2>4, CallerUnseen
<1>10. QED
  BY <1>8, <1>9

\* A caller that leads opens its promise; one that follows stutters.
LEMMA EnterFlightPromise ==
  ASSUME SearchInv, NEW c \in Callers, EnterFlight(c)
  PROVE  UNCHANGED Promise!promised \/ Promise!Open(c)
<1>1. /\ VarsOK /\ run \in [Callers -> Seq(RunRecords)] /\ TimeOK(c)
  BY DEF SearchInv, RunSound, TimeGiven
<1>2. pc[c] = "entering" /\ mode' = mode /\ asked' = asked /\ left' = left
  BY DEF EnterFlight
<1>3. c \notin Open
  BY <1>2 DEF Open
<1>4. CASE pc' = [pc EXCEPT ![c] = "waiting"] /\ run' = run
  <2>1. c \notin Open' /\ \A d \in Callers : d # c => pc'[d] = pc[d]
    BY <1>1, <1>4 DEF VarsOK, Open
  <2>2. left' \in [Callers -> Nat]
    BY <1>1, <1>2 DEF VarsOK
  <2>3. QED
    BY <1>2, <1>3, <1>4, <2>1, <2>2, CallerUnseen
<1>5. CASE /\ pc' = [pc EXCEPT ![c] = "leading"]
           /\ run' = [run EXCEPT ![c] = [i \in DOMAIN asked[c] |-> Unasked]]
  <2>1. Open' = Open \cup {c}
    BY <1>1, <1>5 DEF VarsOK, Open
  <2>2. asked[c] \in AskedOrders /\ left[c] = RequestTimeout(asked[c])
    BY <1>1, <1>2 DEF TimeOK
  <2>3. left'[c] # 0
    BY <1>1, <1>2, <2>2, RequestTimeoutPositive DEF VarsOK
  <2>4. QED
    BY <1>1, <1>2, <1>3, <1>5, <2>1, <2>2, <2>3, OpenSeen
<1>6. QED
  BY <1>4, <1>5 DEF EnterFlight

\* The steps of a provider settle it or are not seen.
LEMMA ProviderPromise ==
  ASSUME SearchInv, NEW c \in Callers, NEW i \in DOMAIN run[c],
         \/ BeginCall(c, i) \/ FailAcquire(c, i) \/ ReportQuota(c, i)
         \/ \E o \in {"results", "empty"} : AnswerCall(c, i, o)
         \/ \E e \in Errors \cup {"timeout"} : FailCall(c, i, e)
  PROVE  UNCHANGED Promise!promised \/ (i \in DOMAIN SeenAsked[c] /\ Promise!Settle(c, i))
<1>1. /\ VarsOK /\ RunSound /\ CallSound(c, i) /\ c \in Open
      /\ run \in [Callers -> Seq(RunRecords)]
  BY RunParts DEF SearchInv, RunSound, RunOK
<1>2. UNCHANGED <<mode, pc, asked, left>>
  BY DEF BeginCall, FailAcquire, ReportQuota, AnswerCall, FailCall
<1>3. HadTurn(c, i) /\ run[c][i].step # "settled" /\ run[c][i].outcome = "none"
  <2>1. CASE BeginCall(c, i) \/ FailAcquire(c, i)
    BY <1>1, <2>1, DueHasTurn DEF BeginCall, FailAcquire, CallSound
  <2>2. CASE run[c][i].step \in {"calling", "reporting"}
    BY <1>1, <2>2 DEF CallSound
  <2>3. QED
    BY <2>1, <2>2 DEF ReportQuota, AnswerCall, FailCall
<1>4. ASSUME NEW record, run' = [run EXCEPT ![c][i] = record], record.outcome = "none"
      PROVE  UNCHANGED Promise!promised
  <2>1. /\ run' = [run EXCEPT ![c] = [run[c] EXCEPT ![i] = record]]
    BY <1>4
  <2>2. ASSUME NEW d \in Callers
        PROVE  /\ DOMAIN run'[d] = DOMAIN run[d]
               /\ \A j \in DOMAIN run[d] : run'[d][j].outcome = run[d][j].outcome
    <3>1. CASE d = c
      <4>1. run'[c] = [run[c] EXCEPT ![i] = record]
        BY <1>1, <2>1
      <4>2. run[c] \in Seq(RunRecords)
        BY <1>1
      <4>3. DOMAIN run[c] = 1..Len(run[c])
        BY <4>2, LenProperties
      <4>4. QED
        BY <1>3, <1>4, <3>1, <4>1, <4>3
    <3>2. CASE d # c
      BY <1>1, <2>1, <3>2
    <3>3. QED
      BY <3>1, <3>2
  <2>3. Open' = Open /\ SeenLate' = SeenLate
    BY <1>2 DEF Open, SeenLate
  <2>4. QED
    BY <1>2, <2>2, <2>3, StepUnseen
<1>5. ASSUME NEW outcome \in Outcomes, Settle(c, i, outcome)
      PROVE  i \in DOMAIN SeenAsked[c] /\ Promise!Settle(c, i)
  BY <1>1, <1>2, <1>3, <1>5, SettleSeen
<1>6. CASE BeginCall(c, i)
  <2> DEFINE record == [step |-> "calling", attempt |-> run[c][i].attempt + 1,
                        left |-> CallTime(c, asked[c][i]), outcome |-> "none"]
  <2>1. run' = [run EXCEPT ![c][i] = record] /\ record.outcome = "none"
    BY <1>6 DEF BeginCall
  <2> HIDE DEF record
  <2>2. QED
    BY <1>4, <2>1
<1>7. CASE FailAcquire(c, i)
  BY <1>5, <1>7 DEF FailAcquire, Outcomes
<1>8. ASSUME NEW o \in {"results", "empty"}, AnswerCall(c, i, o)
      PROVE  i \in DOMAIN SeenAsked[c] /\ Promise!Settle(c, i)
  BY <1>5, <1>8 DEF AnswerCall, Outcomes
<1>9. ASSUME NEW e, FailCall(c, i, e)
      PROVE  UNCHANGED Promise!promised \/ (i \in DOMAIN SeenAsked[c] /\ Promise!Settle(c, i))
  <2>1. CASE Settle(c, i, "failed")
    BY <1>5, <2>1 DEF Outcomes
  <2>2. CASE ~Settle(c, i, "failed")
    <3> DEFINE record == [run[c][i] EXCEPT !.step = "retrying", !.left = 0]
    <3>1. run' = [run EXCEPT ![c][i] = record]
      BY <1>9, <2>2 DEF FailCall
    <3>2. record.outcome = "none"
      <4>1. run[c][i] \in RunRecords
        BY <1>1, RunParts
      <4>2. QED
        BY <1>3, <4>1 DEF RunRecords
    <3> HIDE DEF record
    <3>3. QED
      BY <1>4, <3>1, <3>2
  <2>3. QED
    BY <2>1, <2>2
<1>10. CASE ReportQuota(c, i)
  <2> DEFINE record == [run[c][i] EXCEPT !.step = "reporting", !.left = 0]
  <2>1. run' = [run EXCEPT ![c][i] = record]
    BY <1>10 DEF ReportQuota
  <2>2. record.outcome = "none"
    <3>1. run[c][i] \in RunRecords
      BY <1>1, RunParts
    <3>2. QED
      BY <1>3, <3>1 DEF RunRecords
  <2> HIDE DEF record
  <2>3. QED
    BY <1>4, <2>1, <2>2
<1>11. QED
  BY <1>6, <1>7, <1>8, <1>9, <1>10

\* A step of a caller as the promise sees it.
LEMMA CallerStepPromise ==
  ASSUME SearchInv, VarsOK', NEW c \in Callers, CallerStep(c)
  PROVE  \/ UNCHANGED Promise!promised
         \/ Promise!Open(c) \/ Promise!Close(c)
         \/ \E i \in DOMAIN SeenAsked[c] : Promise!Settle(c, i)
<1>1. VarsOK /\ RunSound /\ StoringSound
  BY DEF SearchInv
<1>2. CASE ReadCache(c) \/ Reply(c)
  <2>1. /\ mode' = mode /\ run' = run
        /\ pc[c] \in {"reading", "logging", "refused"}
        /\ pc'[c] \in {"logging", "entering", "refused", "idle"}
        /\ \A d \in Callers : d # c =>
             pc'[d] = pc[d] /\ asked'[d] = asked[d] /\ left'[d] = left[d]
    BY <1>1, <1>2 DEF VarsOK, ReadCache, Reply
  <2>2. c \notin Open /\ c \notin Open' /\ left' \in [Callers -> Nat]
    BY <2>1 DEF Open, VarsOK
  <2>3. QED
    BY <2>1, <2>2, CallerUnseen
<1>3. CASE EnterFlight(c)
  BY <1>3, EnterFlightPromise
<1>4. ASSUME NEW i \in DOMAIN run[c],
             \/ BeginCall(c, i) \/ FailAcquire(c, i) \/ ReportQuota(c, i)
             \/ \E o \in {"results", "empty"} : AnswerCall(c, i, o)
             \/ \E e \in Errors \cup {"timeout"} : FailCall(c, i, e)
      PROVE  \/ UNCHANGED Promise!promised
             \/ \E j \in DOMAIN SeenAsked[c] : Promise!Settle(c, j)
  BY <1>4, ProviderPromise
<1>5. CASE EndRun(c)
  <2>1. c \in Open /\ Over(c) /\ UNCHANGED <<mode, asked>> /\ pc[c] \in Running
    BY <1>1, <1>5, EndsIsOver DEF EndRun, Open, Running
  <2>2. CASE Hand(c)
    BY <1>1, <2>1, <2>2, CloseSeen
  <2>3. CASE pc' = [pc EXCEPT ![c] = "storing"] /\ run' = run /\ left' = left
    <3>1. Open' = Open
      BY <1>1, <2>1, <2>3 DEF VarsOK, Open
    <3>2. SeenLate' = SeenLate
      BY <2>3, <3>1 DEF SeenLate
    <3>3. QED
      BY <2>1, <2>3, <3>1, <3>2, StepUnseen
  <2>4. QED
    BY <1>5, <2>2, <2>3 DEF EndRun
<1>6. CASE StoreResult(c)
  <2>1. c \in Open /\ pc[c] = "storing" /\ Hand(c) /\ UNCHANGED <<mode, asked>>
    BY <1>6 DEF StoreResult, Open
  <2>2. Over(c)
    BY <1>1, <2>1 DEF StoringSound, StoreOK
  <2>3. QED
    BY <1>1, <2>1, <2>2, CloseSeen
<1>7. QED
  BY <1>2, <1>3, <1>4, <1>5, <1>6 DEF CallerStep

\* Every step of a search is a step of its promise, or a stutter of it.
LEMMA PromiseStep ==
  ASSUME SearchInv, VarsOK', [Next]_vars
  PROVE  [Promise!Next]_(Promise!promised)
<1>1. CASE \E s \in Searches : Ask(s.caller, s.names, s.policy)
  <2>1. PICK s \in Searches : Ask(s.caller, s.names, s.policy)
    BY <1>1
  <2>2. s.caller \in Callers
    BY SearchAssumption
  <2>3. QED
    BY <2>1, <2>2, AskPromise DEF Promise!Next
<1>2. ASSUME NEW c \in Callers, CallerStep(c)
      PROVE  [Promise!Next]_(Promise!promised)
  <2>1. \/ UNCHANGED Promise!promised
        \/ Promise!Open(c) \/ Promise!Close(c)
        \/ \E i \in DOMAIN SeenAsked[c] : Promise!Settle(c, i)
    BY <1>2, CallerStepPromise
  <2>2. QED
    BY <2>1 DEF Promise!Next, SeenAsked
<1>3. ASSUME NEW c \in Callers, Disconnect(c)
      PROVE  [Promise!Next]_(Promise!promised)
  <2>1. /\ mode' = mode /\ pc' = pc /\ asked' = asked
        /\ left' = [left EXCEPT ![c] = 0]
        /\ run' = [run EXCEPT ![c] = [i \in DOMAIN run[c] |-> [run[c][i] EXCEPT !.left = 0]]]
        /\ VarsOK /\ RunSound /\ run \in [Callers -> Seq(RunRecords)]
    BY <1>3 DEF Disconnect, SearchInv, RunSound
  <2>2. ASSUME NEW d \in Callers
        PROVE  /\ DOMAIN run'[d] = DOMAIN run[d]
               /\ \A i \in DOMAIN run[d] : run'[d][i].outcome = run[d][i].outcome
    <3>1. CASE d = c
      <4>1. run'[c] = [i \in DOMAIN run[c] |-> [run[c][i] EXCEPT !.left = 0]]
        BY <2>1
      <4>2. \A i \in DOMAIN run[c] : run[c][i] \in RunRecords
        BY <2>1, RunParts
      <4>3. QED
        BY <3>1, <4>1, <4>2 DEF RunRecords
    <3>2. CASE d # c
      <4>1. run'[d] = run[d]
        BY <2>1, <3>2
      <4>2. QED
        BY <4>1
    <3>3. QED
      BY <3>1, <3>2
  <2>3. \A d \in Callers : left[d] = 0 => left'[d] = 0
    BY <2>1 DEF VarsOK
  <2>4. Open' = Open
    BY <2>1 DEF Open
  <2>5. QED
    BY <2>1, <2>2, <2>3, <2>4, TimeSeen DEF Promise!Next
<1>4. CASE \E key \in SUBSET Providers : CacheExpires(key)
  <2>1. UNCHANGED <<mode, pc, asked, left, run>>
    BY <1>4 DEF CacheExpires
  <2>2. Open' = Open /\ SeenLate' = SeenLate
    BY <2>1 DEF Open, SeenLate
  <2>3. QED
    BY <2>1, <2>2, StepUnseen
<1>5. CASE Tick
  <2>1. /\ mode' = mode /\ pc' = pc /\ asked' = asked
        /\ left' = [c \in Callers |-> Down(left[c])]
        /\ run' = [c \in Callers |-> [i \in DOMAIN run[c] |->
                      [run[c][i] EXCEPT !.left = Down(@)]]]
        /\ VarsOK /\ RunSound
    BY <1>5 DEF Tick, SearchInv
  <2>2. ASSUME NEW d \in Callers
        PROVE  /\ DOMAIN run'[d] = DOMAIN run[d]
               /\ \A i \in DOMAIN run[d] : run'[d][i].outcome = run[d][i].outcome
    <3>1. run'[d] = [i \in DOMAIN run[d] |-> [run[d][i] EXCEPT !.left = Down(@)]]
      BY <2>1
    <3>2. \A i \in DOMAIN run[d] : run[d][i] \in RunRecords
      BY <2>1, RunParts
    <3>3. QED
      BY <3>1, <3>2 DEF RunRecords
  <2>3. \A d \in Callers : left[d] = 0 => left'[d] = 0
    BY <2>1 DEF Down
  <2>4. Open' = Open
    BY <2>1 DEF Open
  <2>5. QED
    BY <2>1, <2>2, <2>3, <2>4, TimeSeen DEF Promise!Next
<1>6. CASE UNCHANGED vars
  <2>1. UNCHANGED <<mode, pc, asked, left, run>>
    BY <1>6 DEF vars
  <2>2. Open' = Open /\ SeenLate' = SeenLate
    BY <2>1 DEF Open, SeenLate
  <2>3. QED
    BY <2>1, <2>2, StepUnseen
<1>7. QED
  BY <1>1, <1>2, <1>3, <1>4, <1>5, <1>6 DEF Next

\* The runs of Search implement the promise of executeSearch: the providers asked
\* for are settled in the order the mode demands, each once, and a run is over when
\* nothing is left to settle or its time is.
THEOREM PromiseKept == Spec => ImplementsPromise
<1>1. SearchInv /\ SearchInv' /\ [Next]_vars => [Promise!Next]_(Promise!promised)
  <2>1. SearchInv' => VarsOK'
    BY DEF SearchInv
  <2>2. QED
    BY <2>1, PromiseStep
<1>2. QED
  BY <1>1, PromiseInit, SearchCorrect, PTL DEF Spec, ImplementsPromise, Promise!Spec
-----------------------------------------------------------------------------
(* The results of an answer are the best of what was found. *)

PageResults == [url : Pages, score : Int, providers : SUBSET Providers]

\* The greatest of a set of integers is the one that no other exceeds.
LEMMA MaxOfIs ==
  ASSUME NEW S \in SUBSET Int, NEW m \in S, \A n \in S : n <= m
  PROVE  MaxOf(S) = m
<1>1. MaxOf(S) \in S /\ \A n \in S : n <= MaxOf(S)
  BY DEF MaxOf
<1>2. MaxOf(S) \in Int /\ m \in Int /\ MaxOf(S) <= m /\ m <= MaxOf(S)
  BY <1>1
<1>3. QED
  BY <1>2

\* A page that another provider has found as well.
Raised(d, r) == [d EXCEPT !.providers = @ \cup r.providers, !.score = MaxOf({@, r.score})]

\* It gains the provider, and its score if that is better.
LEMMA RaisedFacts ==
  ASSUME NEW d \in PageResults, NEW r \in PageResults
  PROVE  LET e == Raised(d, r) IN
         /\ e \in PageResults /\ e.url = d.url /\ e.providers = d.providers \cup r.providers
         /\ d.score <= e.score /\ r.score <= e.score /\ (e.score = d.score \/ e.score = r.score)
<1> DEFINE e == Raised(d, r)
           best == MaxOf({d.score, r.score})
<1>1. /\ d = [url |-> d.url, score |-> d.score, providers |-> d.providers]
      /\ d.url \in Pages /\ d.score \in Int /\ d.providers \in SUBSET Providers
      /\ r.score \in Int /\ r.providers \in SUBSET Providers
  BY DEF PageResults
<1>2. /\ best \in Int /\ d.score <= best /\ r.score <= best
      /\ (best = d.score \/ best = r.score)
  <2>1. CASE d.score <= r.score
    <3>1. best = r.score
      BY <1>1, <2>1, MaxOfIs
    <3>2. QED
      BY <1>1, <2>1, <3>1
  <2>2. CASE r.score <= d.score
    <3>1. best = d.score
      BY <1>1, <2>2, MaxOfIs
    <3>2. QED
      BY <1>1, <2>2, <3>1
  <2>3. QED
    BY <1>1, <2>1, <2>2
<1>3. e = [d EXCEPT !.providers = @ \cup r.providers, !.score = best]
  BY DEF Raised
<1> HIDE DEF e, best
<1>4. e = [url |-> d.url, score |-> best, providers |-> d.providers \cup r.providers]
  BY <1>1, <1>3
<1>5. e \in PageResults
  BY <1>1, <1>2, <1>4 DEF PageResults
<1>6. QED
  BY <1>2, <1>4, <1>5 DEF e

\* With dedupe, merging adds a result, or raises the one of its page.
LEMMA MergeResultFacts ==
  ASSUME NEW merged \in Seq(PageResults), NEW r \in PageResults
  PROVE  LET R == MergeResult(merged, r, TRUE) IN
         /\ R \in Seq(PageResults)
         /\ IF \E n \in DOMAIN merged : merged[n].url = r.url
              THEN /\ Len(R) = Len(merged)
                   /\ \A n \in DOMAIN merged :
                        R[n] = IF merged[n].url = r.url THEN Raised(merged[n], r) ELSE merged[n]
              ELSE R = Append(merged, r)
<1>1. CASE ~\E n \in DOMAIN merged : merged[n].url = r.url
  BY <1>1, SMTT(40) DEF MergeResult
<1>2. CASE \E n \in DOMAIN merged : merged[n].url = r.url
  <2> DEFINE R == [n \in DOMAIN merged |->
                     IF merged[n].url = r.url THEN Raised(merged[n], r) ELSE merged[n]]
  <2>1. MergeResult(merged, r, TRUE) = R
    BY <1>2 DEF MergeResult, Raised
  <2>2. DOMAIN merged = 1..Len(merged) /\ Len(merged) \in Nat
    OBVIOUS
  <2>3. \A n \in 1..Len(merged) :
          (IF merged[n].url = r.url THEN Raised(merged[n], r) ELSE merged[n]) \in PageResults
    BY RaisedFacts
  <2>4. R \in [1..Len(merged) -> PageResults]
    BY <2>2, <2>3
  <2>5. R \in Seq(PageResults) /\ Len(R) = Len(merged)
    BY <2>2, <2>4
  <2>6. QED
    BY <1>2, <2>1, <2>5
<1>3. QED
  BY <1>1, <1>2

\* The loop of mergeResults, turn by turn.
PagesTurns(merged, found, dedupe) ==
  /\ merged \in [0..Len(found) -> Seq(PageResults)]
  /\ MergedPages(found, dedupe) = merged[Len(found)]
  /\ merged[0] = <<>>
  /\ \A n \in 1..Len(found) :
       merged[n] = MergeResult(merged[n - 1], found[n], dedupe)

\* There is a loop as the definition of MergedPages describes.
LEMMA PagesLoop ==
  ASSUME NEW found \in Seq(PageResults), NEW dedupe \in BOOLEAN
  PROVE  \E merged : PagesTurns(merged, found, dedupe)
<1> DEFINE L == Len(found)
           Body(g) == [n \in 0..L |-> IF n = 0 THEN <<>> ELSE
                                         MergeResult(g[n - 1], found[n], dedupe)]
           turn == [n \in 1..L |-> [before \in Seq(PageResults) |->
                                         MergeResult(before, found[n], dedupe)]]
           merged == CHOOSE g : g = Body(g)
<1>1. L \in Nat
  OBVIOUS
<1>2. <<>> \in Seq(PageResults)
  OBVIOUS
<1>3. ASSUME NEW n \in 1..L, NEW before \in Seq(PageResults)
      PROVE  (MergeResult(before, found[n], dedupe)) \in Seq(PageResults)
  <2>1. found[n] \in PageResults
    OBVIOUS
  <2> HIDE DEF L
  <2>2. CASE dedupe = TRUE
    BY <2>1, <2>2, MergeResultFacts
  <2>3. CASE dedupe = FALSE
    BY <2>1, <2>3 DEF MergeResult
  <2>4. QED
    BY <2>2, <2>3
<1>4. \E g : g = Body(g)
  <2>1. turn \in [1..L -> [Seq(PageResults) -> Seq(PageResults)]]
    <3> HIDE DEF L
    <3>1. QED
      BY <1>3
  <2>2. PICK g \in [0..L -> Seq(PageResults)] :
          g[0] = <<>> /\ \A n \in 1..L : g[n] = turn[n][g[n - 1]]
    <3> HIDE DEF turn, L
    <3>1. \E g : IsLoop(g, L, Seq(PageResults), <<>>, turn)
      BY <1>1, <1>2, <2>1, LoopExists
    <3>2. QED
      BY <3>1 DEF IsLoop
  <2>3. ASSUME NEW n \in 0..L PROVE g[n] = Body(g)[n]
    <3>1. CASE n = 0
      BY <2>2, <3>1
    <3>2. CASE n # 0
      <4>1. n \in 1..L /\ n - 1 \in 0..L
        BY <1>1, <3>2
      <4>2. g[n - 1] \in Seq(PageResults) /\ g[n] = turn[n][g[n - 1]]
        <5> HIDE DEF turn, L
        <5>1. QED
          BY <2>2, <3>2, <4>1
      <4>3. turn[n][g[n - 1]] = MergeResult(g[n - 1], found[n], dedupe)
        <5> HIDE DEF L
        <5>1. QED
          BY <4>1, <4>2
      <4>4. QED
        BY <3>2, <4>2, <4>3
    <3>3. QED
      BY <3>1, <3>2
  <2>4. g = Body(g)
    BY <2>2, <2>3
  <2>5. QED
    BY <2>4
<1>5. merged = Body(merged)
  BY <1>4
<1>6. MergedPages(found, dedupe) = merged[L]
  BY DEF MergedPages
<1> HIDE DEF merged
<1>7. merged[0] = <<>>
  BY <1>1, <1>5
<1>8. ASSUME NEW n \in 1..L
      PROVE  merged[n] = MergeResult(merged[n - 1], found[n], dedupe)
  <2>1. n \in 0..L /\ n # 0
    BY <1>1
  <2>2. QED
    BY <1>5, <2>1
<1>9. \A n \in 0..L : merged[n] \in Seq(PageResults)
  <2> DEFINE Good == {n \in 0..L : merged[n] \in Seq(PageResults)}
  <2>1. 0 \in Good
    <3>1. 0 \in 0..L
      BY <1>1
    <3>2. QED
      BY <1>2, <1>7, <3>1
  <2>2. ASSUME NEW n \in 1..L, n - 1 \in Good PROVE n \in Good
    <3>1. n \in 0..L /\ merged[n - 1] \in Seq(PageResults)
      BY <1>1, <2>2
    <3> HIDE DEF L
    <3>2. merged[n] \in Seq(PageResults)
      BY <1>3, <1>8, <3>1
    <3>3. QED
      BY <3>1, <3>2
  <2>3. \A n \in 0..L : n \in Good
    <3> HIDE DEF Good
    <3>1. QED
      BY <1>1, <2>1, <2>2, Climb
  <2>4. QED
    BY <2>3
<1>10. merged \in [0..L -> Seq(PageResults)]
  <2>1. merged = [n \in 0..L |-> merged[n]]
    BY <1>5
  <2>2. QED
    BY <1>9, <2>1
<1>11. QED
  BY <1>6, <1>7, <1>8, <1>10 DEF PagesTurns


\* Who, among those of the first n results, has found a page.
FoundBy(found, n, u) == UNION {found[k].providers : k \in {j \in 1..n : found[j].url = u}}

\* The first n results are merged: each page once, with its best score and all that
\* found it.
MergedTo(merged, found, n) ==
  /\ \A a, b \in DOMAIN merged : merged[a].url = merged[b].url => a = b
  /\ \A k \in 1..n : \E m \in DOMAIN merged : merged[m].url = found[k].url
  /\ \A m \in DOMAIN merged :
       /\ \E k \in 1..n : found[k].url = merged[m].url /\ found[k].score = merged[m].score
       /\ \A k \in 1..n : found[k].url = merged[m].url => found[k].score <= merged[m].score
       /\ merged[m].providers = FoundBy(found, n, merged[m].url)

\* One more result is found by its providers.
LEMMA FoundByNext ==
  ASSUME NEW found, NEW n \in Nat \ {0}, NEW u
  PROVE  FoundBy(found, n, u) =
           FoundBy(found, n - 1, u) \cup IF found[n].url = u THEN found[n].providers ELSE {}
<1>1. 1..n = (1..(n - 1)) \cup {n}
  OBVIOUS
<1>2. {j \in 1..n : found[j].url = u} =
        {j \in 1..(n - 1) : found[j].url = u} \cup IF found[n].url = u THEN {n} ELSE {}
  BY <1>1
<1>3. QED
  BY <1>2 DEF FoundBy

\* With dedupe, merging one more result merges one more.
LEMMA MergeNext ==
  ASSUME NEW found \in Seq(PageResults), NEW n \in 1..Len(found),
         NEW merged \in Seq(PageResults), MergedTo(merged, found, n - 1)
  PROVE  MergedTo(MergeResult(merged, found[n], TRUE), found, n)
<1> DEFINE r == found[n]
           R == MergeResult(merged, r, TRUE)
<1>1. /\ r \in PageResults /\ r.score \in Int /\ n \in Nat \ {0}
      /\ \A k \in 1..n : found[k] \in PageResults /\ found[k].score \in Int
  <2>1. n \in Nat \ {0} /\ \A k \in 1..n : k \in 1..Len(found)
    OBVIOUS
  <2>2. \A k \in 1..n : found[k] \in PageResults
    BY <2>1
  <2>3. \A d \in PageResults : d.score \in Int
    BY DEF PageResults
  <2>4. n \in 1..n
    BY <2>1
  <2>5. QED
    BY <2>1, <2>2, <2>3, <2>4
<1>2. 1..n = (1..(n - 1)) \cup {n}
  OBVIOUS
<1>3. \A u : FoundBy(found, n, u) =
               FoundBy(found, n - 1, u) \cup IF r.url = u THEN r.providers ELSE {}
  BY <1>1, FoundByNext
<1>4. CASE \E m \in DOMAIN merged : merged[m].url = r.url
  <2>1. /\ R \in Seq(PageResults) /\ Len(R) = Len(merged)
        /\ \A m \in DOMAIN merged :
             R[m] = IF merged[m].url = r.url THEN Raised(merged[m], r) ELSE merged[m]
    BY <1>1, <1>4, MergeResultFacts
  <2> HIDE DEF r, R
  <2>2. DOMAIN R = DOMAIN merged /\ \A m \in DOMAIN merged : merged[m] \in PageResults
    BY <2>1
  <2>3. ASSUME NEW m \in DOMAIN merged
        PROVE  /\ R[m].url = merged[m].url
               /\ R[m].providers = merged[m].providers \cup
                                     IF r.url = merged[m].url THEN r.providers ELSE {}
               /\ R[m].score \in Int /\ merged[m].score \in Int
               /\ merged[m].score <= R[m].score
               /\ r.url = merged[m].url => r.score <= R[m].score
               /\ R[m].score = merged[m].score \/ (R[m].score = r.score /\ r.url = merged[m].url)
    <3>1. R[m] \in PageResults /\ merged[m] \in PageResults
      BY <2>1, <2>2
    <3>2. R[m].score \in Int /\ merged[m].score \in Int
      BY <3>1 DEF PageResults
    <3>3. CASE merged[m].url = r.url
      <4>1. R[m] = Raised(merged[m], r)
        BY <2>1, <3>3
      <4>2. /\ R[m].url = merged[m].url /\ R[m].providers = merged[m].providers \cup r.providers
            /\ merged[m].score <= R[m].score /\ r.score <= R[m].score
            /\ (R[m].score = merged[m].score \/ R[m].score = r.score)
        BY <1>1, <3>1, <4>1, RaisedFacts
      <4>3. QED
        BY <3>2, <3>3, <4>2
    <3>4. CASE merged[m].url # r.url
      <4>1. R[m] = merged[m]
        BY <2>1, <3>4
      <4>2. QED
        BY <3>2, <3>4, <4>1
    <3>5. QED
      BY <3>3, <3>4
  <2>4. \A a, b \in DOMAIN R : R[a].url = R[b].url => a = b
    BY <2>2, <2>3 DEF MergedTo
  <2>5. \A k \in 1..n : \E m \in DOMAIN R : R[m].url = found[k].url
    <3> SUFFICES ASSUME NEW k \in 1..n PROVE \E m \in DOMAIN R : R[m].url = found[k].url
      OBVIOUS
    <3>1. \E m \in DOMAIN merged : merged[m].url = found[k].url
      BY <1>2, <1>4 DEF MergedTo, r
    <3>2. QED
      BY <2>2, <2>3, <3>1
  <2>6. ASSUME NEW m \in DOMAIN R
        PROVE  /\ \E k \in 1..n : found[k].url = R[m].url /\ found[k].score = R[m].score
               /\ \A k \in 1..n : found[k].url = R[m].url => found[k].score <= R[m].score
               /\ R[m].providers = FoundBy(found, n, R[m].url)
    <3>1. m \in DOMAIN merged
      BY <2>2
    <3>2. PICK k \in 1..(n - 1) :
            found[k].url = merged[m].url /\ found[k].score = merged[m].score
      BY <3>1 DEF MergedTo
    <3>3. /\ \A j \in 1..(n - 1) : found[j].url = merged[m].url =>
                                     found[j].score <= merged[m].score
          /\ merged[m].providers = FoundBy(found, n - 1, merged[m].url)
      BY <3>1 DEF MergedTo
    <3>4. \E j \in 1..n : found[j].url = R[m].url /\ found[j].score = R[m].score
      <4>1. CASE R[m].score = merged[m].score
        BY <1>2, <2>3, <3>1, <3>2, <4>1
      <4>2. CASE R[m].score = r.score /\ r.url = merged[m].url
        <5>1. n \in 1..n
          BY <1>2
        <5>2. QED
          BY <2>3, <3>1, <4>2, <5>1 DEF r
      <4>3. QED
        BY <2>3, <3>1, <4>1, <4>2
    <3>5. ASSUME NEW j \in 1..n, found[j].url = R[m].url PROVE found[j].score <= R[m].score
      <4>1. CASE j = n
        BY <2>3, <3>1, <3>5, <4>1 DEF r
      <4>2. CASE j # n
        <5>1. j \in 1..(n - 1) /\ found[j].score \in Int
          BY <1>1, <1>2, <4>2
        <5>2. found[j].score <= merged[m].score
          BY <2>3, <3>1, <3>3, <3>5, <5>1
        <5>3. R[m].score \in Int /\ merged[m].score \in Int /\ merged[m].score <= R[m].score
          BY <2>3, <3>1
        <5>4. QED
          BY <5>1, <5>2, <5>3
      <4>3. QED
        BY <4>1, <4>2
    <3>6. R[m].providers = FoundBy(found, n, R[m].url)
      <4>1. FoundBy(found, n, merged[m].url) =
              FoundBy(found, n - 1, merged[m].url) \cup
                IF r.url = merged[m].url THEN r.providers ELSE {}
        BY <1>3
      <4>2. R[m].url = merged[m].url /\ R[m].providers = merged[m].providers \cup
              IF r.url = merged[m].url THEN r.providers ELSE {}
        BY <2>3, <3>1
      <4>3. QED
        BY <3>3, <4>1, <4>2
    <3>7. QED
      BY <3>4, <3>5, <3>6
  <2>7. QED
    BY <2>4, <2>5, <2>6 DEF MergedTo, R, r
<1>5. CASE ~\E m \in DOMAIN merged : merged[m].url = r.url
  <2>1. R = Append(merged, r)
    BY <1>1, <1>5, MergeResultFacts
  <2> HIDE DEF r, R
  <2> DEFINE L == Len(merged)
  <2>2. /\ L \in Nat /\ DOMAIN merged = 1..L /\ DOMAIN R = (1..L) \cup {L + 1}
        /\ R[L + 1] = r /\ \A m \in 1..L : R[m] = merged[m]
    BY <1>1, <2>1
  <2> HIDE DEF L
  <2>3. \A a, b \in DOMAIN R : R[a].url = R[b].url => a = b
    BY <1>5, <2>2 DEF MergedTo
  <2>4. \A k \in 1..n : \E m \in DOMAIN R : R[m].url = found[k].url
    <3> SUFFICES ASSUME NEW k \in 1..n PROVE \E m \in DOMAIN R : R[m].url = found[k].url
      OBVIOUS
    <3>1. CASE k = n
      BY <2>2, <3>1 DEF r
    <3>2. CASE k # n
      <4>1. \E m \in DOMAIN merged : merged[m].url = found[k].url
        BY <1>2, <3>2 DEF MergedTo
      <4>2. QED
        BY <2>2, <4>1
    <3>3. QED
      BY <3>1, <3>2
  <2>5. ASSUME NEW m \in DOMAIN R
        PROVE  /\ \E k \in 1..n : found[k].url = R[m].url /\ found[k].score = R[m].score
               /\ \A k \in 1..n : found[k].url = R[m].url => found[k].score <= R[m].score
               /\ R[m].providers = FoundBy(found, n, R[m].url)
    <3>1. CASE m \in 1..L
      <4>1. m \in DOMAIN merged /\ R[m] = merged[m] /\ merged[m].url # r.url
        BY <1>5, <2>2, <3>1
      <4>2. /\ \E k \in 1..(n - 1) :
                 found[k].url = merged[m].url /\ found[k].score = merged[m].score
            /\ \A k \in 1..(n - 1) : found[k].url = merged[m].url =>
                                       found[k].score <= merged[m].score
            /\ merged[m].providers = FoundBy(found, n - 1, merged[m].url)
        BY <4>1 DEF MergedTo
      <4>3. R[m].providers = FoundBy(found, n, R[m].url)
        <5>1. FoundBy(found, n, merged[m].url) =
                FoundBy(found, n - 1, merged[m].url) \cup
                  IF r.url = merged[m].url THEN r.providers ELSE {}
          BY <1>3
        <5>2. FoundBy(found, n, merged[m].url) = FoundBy(found, n - 1, merged[m].url)
          BY <4>1, <5>1
        <5>3. QED
          BY <4>1, <4>2, <5>2
      <4>4. \A k \in 1..n : found[k].url = R[m].url => found[k].score <= R[m].score
        BY <1>2, <4>1, <4>2 DEF r
      <4>5. QED
        BY <1>2, <4>1, <4>2, <4>3, <4>4
    <3>2. CASE m = L + 1
      <4>1. R[m] = found[n] /\ n \in 1..n
        BY <1>1, <2>2, <3>2 DEF r
      <4>2. \A k \in 1..(n - 1) : found[k].url # r.url
        BY <1>5 DEF MergedTo
      <4>3. FoundBy(found, n - 1, r.url) = {}
        BY <4>2 DEF FoundBy
      <4>4. R[m].providers = FoundBy(found, n, R[m].url)
        BY <1>1, <1>3, <4>1, <4>3 DEF r
      <4>5. \A k \in 1..n : found[k].url = R[m].url => found[k].score <= R[m].score
        BY <1>1, <1>2, <4>1, <4>2 DEF r
      <4>6. QED
        BY <4>1, <4>4, <4>5
    <3>3. QED
      BY <2>2, <3>1, <3>2
  <2>6. QED
    BY <2>3, <2>4, <2>5 DEF MergedTo, R, r
<1>6. QED
  BY <1>4, <1>5

\* With dedupe all results are merged.
LEMMA MergedPagesFacts ==
  ASSUME NEW found \in Seq(PageResults)
  PROVE  /\ MergedPages(found, TRUE) \in Seq(PageResults)
         /\ MergedTo(MergedPages(found, TRUE), found, Len(found))
<1>1. PICK merged : PagesTurns(merged, found, TRUE)
  BY PagesLoop
<1> DEFINE L == Len(found)
           Good == {n \in 0..L : MergedTo(merged[n], found, n)}
<1>2. /\ L \in Nat /\ merged \in [0..L -> Seq(PageResults)] /\ merged[0] = <<>>
      /\ MergedPages(found, TRUE) = merged[L]
      /\ \A n \in 1..L : merged[n] = MergeResult(merged[n - 1], found[n], TRUE)
  BY <1>1 DEF PagesTurns
<1>3. 0 \in Good
  <2>1. DOMAIN merged[0] = {} /\ 1..0 = {} /\ 0 \in 0..L
    BY <1>2
  <2>2. MergedTo(merged[0], found, 0)
    BY <2>1 DEF MergedTo
  <2>3. QED
    BY <2>1, <2>2
<1>4. ASSUME NEW n \in 1..L, n - 1 \in Good PROVE n \in Good
  <2>1. n - 1 \in 0..L /\ n \in 0..L /\ n \in 1..Len(found) /\ MergedTo(merged[n - 1], found, n - 1)
    BY <1>2, <1>4
  <2>2. merged[n - 1] \in Seq(PageResults) /\ merged[n] = MergeResult(merged[n - 1], found[n], TRUE)
    BY <1>2, <2>1
  <2>3. MergedTo(merged[n], found, n)
    BY <2>1, <2>2, MergeNext
  <2>4. QED
    BY <2>1, <2>3
<1> HIDE DEF Good
<1>5. \A n \in 0..L : n \in Good
  BY <1>2, <1>3, <1>4, Climb
<1>6. L \in 0..L
  BY <1>2
<1> HIDE DEF L
<1>7. MergedTo(merged[L], found, L)
  BY <1>5, <1>6 DEF Good
<1>8. QED
  BY <1>2, <1>6, <1>7 DEF L
\* The results of an answer, call by call.
FoundIn(calls) == FlattenSeq([i \in DOMAIN calls |-> ResultsOf(calls[i])])

\* The providers that reported results, and what one of them reports.
Reporting(calls) ==
  {p \in Providers : [provider |-> p, outcome |-> "results"] \in ToSet(calls)}
Report(p, i) ==
  [url |-> Finds[p][i].url, score |-> Finds[p][i].score, providers |-> {p}]

\* What a provider finds has its type.
LEMMA ReportFacts ==
  ASSUME NEW p \in Providers
  PROVE  /\ DOMAIN Finds[p] = 1..Len(Finds[p]) /\ Len(Finds[p]) \in Nat
         /\ \A i \in DOMAIN Finds[p] :
              /\ Report(p, i) \in PageResults
              /\ Finds[p][i].url \in Pages /\ Finds[p][i].score \in Int
<1> DEFINE Scored == [url : Pages, score : Int]
<1>1. Finds[p] \in Seq(Scored)
  BY SearchAssumption
<1>2. \A d \in Scored : d.url \in Pages /\ d.score \in Int
  OBVIOUS
<1> HIDE DEF Scored
<1>3. /\ DOMAIN Finds[p] = 1..Len(Finds[p]) /\ Len(Finds[p]) \in Nat
      /\ \A i \in DOMAIN Finds[p] : Finds[p][i] \in Scored
  BY <1>1
<1>4. \A i \in DOMAIN Finds[p] : Finds[p][i].url \in Pages /\ Finds[p][i].score \in Int
  BY <1>2, <1>3
<1>5. \A i \in DOMAIN Finds[p] : Report(p, i) \in PageResults
  BY <1>4 DEF Report, PageResults
<1>6. QED
  BY <1>3, <1>4, <1>5

\* A call that found something reports all of it, any other nothing.
LEMMA ResultsOfFacts ==
  ASSUME NEW call \in Calls
  PROVE  /\ ResultsOf(call) \in Seq(PageResults)
         /\ call.provider \in Providers
         /\ IF call.outcome = "results"
              THEN /\ DOMAIN ResultsOf(call) = DOMAIN Finds[call.provider]
                   /\ \A i \in DOMAIN Finds[call.provider] :
                        ResultsOf(call)[i] = Report(call.provider, i)
              ELSE ResultsOf(call) = <<>>
<1>1. call.provider \in Providers
  BY DEF Calls
<1>2. CASE call.outcome = "results"
  <2> DEFINE p == call.provider
             R == [i \in DOMAIN Finds[p] |-> Report(p, i)]
  <2>1. ResultsOf(call) = R
    BY <1>2 DEF ResultsOf, Report
  <2>2. /\ DOMAIN Finds[p] = 1..Len(Finds[p]) /\ Len(Finds[p]) \in Nat
        /\ \A i \in DOMAIN Finds[p] : Report(p, i) \in PageResults
    BY <1>1, ReportFacts
  <2>3. R \in [1..Len(Finds[p]) -> PageResults]
    BY <2>2
  <2>4. R \in Seq(PageResults)
    BY <2>2, <2>3
  <2>5. QED
    BY <1>1, <1>2, <2>1, <2>4
<1>3. CASE call.outcome # "results"
  BY <1>1, <1>3 DEF ResultsOf
<1>4. QED
  BY <1>2, <1>3

\* What is found are the reports of those that reported results, each of them.
LEMMA FoundInFacts ==
  ASSUME NEW calls \in Seq(Calls)
  PROVE  /\ FoundIn(calls) \in Seq(PageResults)
         /\ \A k \in 1..Len(FoundIn(calls)) :
              \E p \in Reporting(calls) : \E i \in DOMAIN Finds[p] : FoundIn(calls)[k] = Report(p, i)
         /\ \A p \in Reporting(calls) : \A i \in DOMAIN Finds[p] :
              \E k \in 1..Len(FoundIn(calls)) : FoundIn(calls)[k] = Report(p, i)
<1> DEFINE seqs == [i \in DOMAIN calls |-> ResultsOf(calls[i])]
           found == FoundIn(calls)
<1>1. /\ DOMAIN calls = 1..Len(calls) /\ Len(calls) \in Nat
      /\ \A i \in DOMAIN calls : calls[i] \in Calls
  OBVIOUS
<1>2. \A i \in DOMAIN calls : ResultsOf(calls[i]) \in Seq(PageResults)
  BY <1>1, ResultsOfFacts
<1>3. /\ seqs \in Seq(Seq(PageResults)) /\ Len(seqs) = Len(calls)
      /\ \A i \in 1..Len(calls) : seqs[i] = ResultsOf(calls[i])
  <2>1. seqs \in [1..Len(calls) -> Seq(PageResults)]
    BY <1>1, <1>2
  <2>2. QED
    BY <1>1, <2>1
<1>4. found = FlattenSeq(seqs)
  BY DEF FoundIn
<1> HIDE DEF seqs, found
<1>5. found \in Seq(PageResults) /\ \E o, k : Origins(o, k, found, seqs)
  BY <1>3, <1>4, FlattenOrigins
<1>6. PICK o, k : Origins(o, k, found, seqs)
  BY <1>5
<1>7. ASSUME NEW n \in 1..Len(found)
      PROVE  \E p \in Reporting(calls) : \E i \in DOMAIN Finds[p] : found[n] = Report(p, i)
  <2>1. o[n] \in 1..Len(seqs) /\ k[n] \in 1..Len(seqs[o[n]]) /\ found[n] = seqs[o[n]][k[n]]
    BY <1>6 DEF Origins
  <2> DEFINE call == calls[o[n]]
  <2>2. /\ call \in Calls /\ seqs[o[n]] = ResultsOf(call) /\ call \in ToSet(calls)
        /\ o[n] \in DOMAIN calls
    BY <1>1, <1>3, <2>1 DEF ToSet
  <2> HIDE DEF call
  <2>3. call.outcome = "results"
    <3>1. ResultsOf(call) # <<>>
      BY <2>1, <2>2
    <3>2. QED
      BY <2>2, <3>1, ResultsOfFacts
  <2>4. call = [provider |-> call.provider, outcome |-> "results"] /\ call.provider \in Providers
    BY <2>2, <2>3 DEF Calls
  <2>5. call.provider \in Reporting(calls)
    BY <2>2, <2>4 DEF Reporting
  <2>6. k[n] \in DOMAIN Finds[call.provider] /\ found[n] = Report(call.provider, k[n])
    <3>1. ResultsOf(call) \in Seq(PageResults) /\ DOMAIN ResultsOf(call) = DOMAIN Finds[call.provider]
          /\ \A i \in DOMAIN Finds[call.provider] : ResultsOf(call)[i] = Report(call.provider, i)
      BY <2>2, <2>3, ResultsOfFacts
    <3>2. k[n] \in DOMAIN ResultsOf(call) /\ found[n] = ResultsOf(call)[k[n]]
      BY <2>1, <2>2, <3>1
    <3>3. QED
      BY <3>1, <3>2
  <2>7. QED
    BY <2>5, <2>6
<1>8. ASSUME NEW p \in Reporting(calls), NEW i \in DOMAIN Finds[p]
      PROVE  \E n \in 1..Len(found) : found[n] = Report(p, i)
  <2>1. PICK j \in 1..Len(calls) : calls[j] = [provider |-> p, outcome |-> "results"]
    BY <1>1 DEF Reporting, ToSet
  <2> DEFINE call == calls[j]
  <2>2. call \in Calls /\ call.provider = p /\ call.outcome = "results" /\ seqs[j] = ResultsOf(call)
    BY <1>1, <1>3, <2>1
  <2> HIDE DEF call
  <2>3. /\ ResultsOf(call) \in Seq(PageResults) /\ DOMAIN ResultsOf(call) = DOMAIN Finds[p]
        /\ ResultsOf(call)[i] = Report(p, i)
    BY <2>2, ResultsOfFacts
  <2>4. j \in 1..Len(seqs) /\ i \in 1..Len(seqs[j])
    BY <1>3, <2>1, <2>2, <2>3
  <2>5. PICK n \in 1..Len(found) : o[n] = j /\ k[n] = i
    BY <1>6, <2>4 DEF Origins
  <2>6. found[n] = seqs[o[n]][k[n]]
    BY <1>6, <2>5 DEF Origins
  <2>7. QED
    BY <2>2, <2>3, <2>5, <2>6
<1>9. QED
  BY <1>5, <1>7, <1>8 DEF found
\* The results of an answer by rank: each page that was found, with its best score and
\* all its finders.
Ranked(R, a) ==
  /\ R \in Seq(PageResults)
  /\ \A n \in DOMAIN R : /\ R[n].url \in Found(a)
                         /\ R[n].score = Best(a, R[n].url)
                         /\ R[n].providers = Finders(a, R[n].url)
  /\ \A u \in Found(a) : \E n \in DOMAIN R : R[n].url = u
  /\ \A m, n \in DOMAIN R : R[m].url = R[n].url => m = n
  /\ \A m, n \in DOMAIN R : m < n => R[n].score <= R[m].score

\* The scores that the providers of an answer gave to a page.
ScoresOf(a, u) ==
  UNION {{Finds[p][i].score : i \in {j \in DOMAIN Finds[p] : Finds[p][j].url = u}}
           : p \in Finders(a, u)}

\* Who found a page are those that reported it, with the scores they reported.
LEMMA FindersFacts ==
  ASSUME NEW a, a.calls \in Seq(Calls), NEW u \in Pages
  PROVE  LET found == FoundIn(a.calls) IN
         /\ Finders(a, u) = FoundBy(found, Len(found), u)
         /\ ScoresOf(a, u) = {found[k].score : k \in {j \in 1..Len(found) : found[j].url = u}}
         /\ ScoresOf(a, u) \in SUBSET Int
<1> DEFINE found == FoundIn(a.calls)
           L == Len(found)
<1>1. /\ \A k \in 1..L : \E p \in Reporting(a.calls) : \E i \in DOMAIN Finds[p] :
           found[k] = Report(p, i)
      /\ \A p \in Reporting(a.calls) : \A i \in DOMAIN Finds[p] :
           \E k \in 1..L : found[k] = Report(p, i)
  BY FoundInFacts
<1>2. \A p, i : /\ Report(p, i).url = Finds[p][i].url /\ Report(p, i).score = Finds[p][i].score
                /\ Report(p, i).providers = {p}
  BY DEF Report
<1>3. Finders(a, u) = {p \in Reporting(a.calls) : \E i \in DOMAIN Finds[p] : Finds[p][i].url = u}
  BY DEF Finders, Reporting
<1>4. \A p \in Reporting(a.calls) : p \in Providers
  BY DEF Reporting
<1> HIDE DEF found, L
<1>5. ASSUME NEW p \in Finders(a, u), NEW i \in DOMAIN Finds[p], Finds[p][i].url = u
      PROVE  \E k \in 1..L : /\ found[k].url = u /\ found[k].score = Finds[p][i].score
                             /\ found[k].providers = {p}
  <2>1. p \in Reporting(a.calls)
    BY <1>3
  <2>2. PICK k \in 1..L : found[k] = Report(p, i)
    BY <1>1, <1>5, <2>1
  <2>3. QED
    BY <1>2, <1>5, <2>2
<1>6. ASSUME NEW k \in 1..L, found[k].url = u
      PROVE  \E p \in Finders(a, u) : \E i \in DOMAIN Finds[p] :
               /\ Finds[p][i].url = u /\ Finds[p][i].score = found[k].score
               /\ found[k].providers = {p}
  <2>1. PICK p \in Reporting(a.calls) : \E i \in DOMAIN Finds[p] : found[k] = Report(p, i)
    BY <1>1
  <2>2. PICK i \in DOMAIN Finds[p] : found[k] = Report(p, i)
    BY <2>1
  <2>3. Finds[p][i].url = u /\ Finds[p][i].score = found[k].score /\ found[k].providers = {p}
    BY <1>2, <1>6, <2>2
  <2>4. p \in Finders(a, u)
    BY <1>3, <2>3
  <2>5. QED
    BY <2>3, <2>4
<1>7. Finders(a, u) = FoundBy(found, L, u)
  <2>1. ASSUME NEW p \in Finders(a, u) PROVE p \in FoundBy(found, L, u)
    <3>1. PICK i \in DOMAIN Finds[p] : Finds[p][i].url = u
      BY <1>3
    <3>2. \E k \in 1..L : found[k].url = u /\ found[k].providers = {p}
      BY <1>5, <3>1
    <3>3. QED
      BY <3>2 DEF FoundBy
  <2>2. ASSUME NEW p \in FoundBy(found, L, u) PROVE p \in Finders(a, u)
    <3>1. PICK k \in 1..L : found[k].url = u /\ p \in found[k].providers
      BY <2>2 DEF FoundBy
    <3>2. \E q \in Finders(a, u) : found[k].providers = {q}
      BY <1>6, <3>1
    <3>3. QED
      BY <3>1, <3>2
  <2>3. QED
    BY <2>1, <2>2
<1>8. ScoresOf(a, u) = {found[k].score : k \in {j \in 1..L : found[j].url = u}}
  <2>1. ASSUME NEW s \in ScoresOf(a, u)
        PROVE  s \in {found[k].score : k \in {j \in 1..L : found[j].url = u}}
    <3>1. PICK p \in Finders(a, u) :
            s \in {Finds[p][i].score : i \in {j \in DOMAIN Finds[p] : Finds[p][j].url = u}}
      BY <2>1 DEF ScoresOf
    <3>2. PICK i \in DOMAIN Finds[p] : Finds[p][i].url = u /\ Finds[p][i].score = s
      BY <3>1
    <3>3. \E k \in 1..L : found[k].url = u /\ found[k].score = s
      BY <1>5, <3>2
    <3>4. QED
      BY <3>3
  <2>2. ASSUME NEW k \in 1..L, found[k].url = u PROVE found[k].score \in ScoresOf(a, u)
    <3>1. PICK p \in Finders(a, u) : \E i \in DOMAIN Finds[p] :
            Finds[p][i].url = u /\ Finds[p][i].score = found[k].score
      BY <1>6, <2>2
    <3>2. found[k].score \in
            {Finds[p][i].score : i \in {j \in DOMAIN Finds[p] : Finds[p][j].url = u}}
      BY <3>1
    <3>3. QED
      BY <3>2 DEF ScoresOf
  <2>3. QED
    BY <2>1, <2>2
<1>9. ScoresOf(a, u) \in SUBSET Int
  <2>1. ASSUME NEW s \in ScoresOf(a, u) PROVE s \in Int
    <3>1. PICK p \in Finders(a, u) :
            s \in {Finds[p][i].score : i \in {j \in DOMAIN Finds[p] : Finds[p][j].url = u}}
      BY <2>1 DEF ScoresOf
    <3>2. PICK i \in DOMAIN Finds[p] : Finds[p][i].score = s
      BY <3>1
    <3>3. p \in Providers
      BY <1>3, <1>4
    <3>4. QED
      BY <3>2, <3>3, ReportFacts
  <2>2. QED
    BY <2>1
<1>10. QED
  BY <1>7, <1>8, <1>9 DEF found, L

\* The pages merged are those that were found.
LEMMA PagesMerged ==
  ASSUME NEW a, a.calls \in Seq(Calls)
  PROVE  LET pages == MergedPages(FoundIn(a.calls), TRUE) IN
         /\ pages \in Seq(PageResults)
         /\ \A n \in DOMAIN pages : /\ pages[n].url \in Found(a)
                                    /\ pages[n].score = Best(a, pages[n].url)
                                    /\ pages[n].providers = Finders(a, pages[n].url)
         /\ \A u \in Found(a) : \E n \in DOMAIN pages : pages[n].url = u
         /\ \A m, n \in DOMAIN pages : pages[m].url = pages[n].url => m = n
<1> DEFINE found == FoundIn(a.calls)
           pages == MergedPages(found, TRUE)
           L == Len(found)
<1>1. found \in Seq(PageResults)
  BY FoundInFacts
<1>2. pages \in Seq(PageResults) /\ MergedTo(pages, found, L)
  <2> HIDE DEF found
  <2>1. QED
    BY <1>1, MergedPagesFacts
<1>3. \A u \in Pages : /\ Finders(a, u) = FoundBy(found, L, u)
                       /\ ScoresOf(a, u) = {found[k].score : k \in {j \in 1..L : found[j].url = u}}
                       /\ ScoresOf(a, u) \in SUBSET Int
  BY FindersFacts
<1>4. \A d \in PageResults : d.url \in Pages /\ d.score \in Int
  BY DEF PageResults
<1> HIDE DEF found, pages, L
<1>5. ASSUME NEW n \in DOMAIN pages
      PROVE  /\ pages[n].url \in Found(a) /\ pages[n].score = Best(a, pages[n].url)
             /\ pages[n].providers = Finders(a, pages[n].url)
  <2> DEFINE u == pages[n].url
             s == pages[n].score
  <2>1. u \in Pages /\ s \in Int
    BY <1>2, <1>4
  <2>2. PICK k \in 1..L : found[k].url = u /\ found[k].score = s
    BY <1>2 DEF MergedTo
  <2>3. /\ \A j \in 1..L : found[j].url = u => found[j].score <= s
        /\ pages[n].providers = FoundBy(found, L, u)
    BY <1>2 DEF MergedTo
  <2> HIDE DEF u, s
  <2>4. s \in ScoresOf(a, u) /\ (\A m \in ScoresOf(a, u) : m <= s) /\ ScoresOf(a, u) \in SUBSET Int
    BY <1>3, <2>1, <2>2, <2>3
  <2>5. MaxOf(ScoresOf(a, u)) = s
    BY <2>4, MaxOfIs
  <2>6. Best(a, u) = s
    BY <2>5 DEF Best, ScoresOf
  <2>7. Finders(a, u) # {}
    <3>1. ScoresOf(a, u) # {}
      BY <2>4
    <3>2. QED
      BY <3>1 DEF ScoresOf
  <2>8. u \in Found(a)
    BY <2>1, <2>7 DEF Found
  <2>9. QED
    BY <1>3, <2>1, <2>3, <2>6, <2>8 DEF u, s
<1>6. ASSUME NEW u \in Found(a) PROVE \E n \in DOMAIN pages : pages[n].url = u
  <2>1. u \in Pages /\ Finders(a, u) # {}
    BY DEF Found
  <2>2. FoundBy(found, L, u) # {}
    BY <1>3, <2>1
  <2>3. PICK k \in 1..L : found[k].url = u
    BY <2>2 DEF FoundBy
  <2>4. QED
    BY <1>2, <2>3 DEF MergedTo
<1>7. \A m, n \in DOMAIN pages : pages[m].url = pages[n].url => m = n
  BY <1>2 DEF MergedTo
<1>8. QED
  BY <1>2, <1>5, <1>6, <1>7 DEF pages, found
-----------------------------------------------------------------------------
(* What is found, sorted by its scores. *)

\* Sorted by descending scores.
Ordered(results) ==
  SortedBy(results, [n \in DOMAIN results |-> -results[n].score])

\* No score is better than one before it.
Falling(R) == \A m, n \in DOMAIN R : m < n => R[n].score <= R[m].score

\* Sorting gives every result a place of its own, no better one behind it.
LEMMA OrderedFacts ==
  ASSUME NEW s \in Seq(PageResults)
  PROVE  /\ Ordered(s) \in Seq(PageResults) /\ DOMAIN Ordered(s) = DOMAIN s
         /\ Falling(Ordered(s))
         /\ \E p \in Bijection(DOMAIN s, DOMAIN s) :
              \A k \in DOMAIN s : Ordered(s)[k] = s[p[k]]
<1> DEFINE numbers == [n \in DOMAIN s |-> -s[n].score]
           R == Ordered(s)
<1>1. R = SortedBy(s, numbers)
  BY DEF Ordered
<1>2. \A n \in DOMAIN s : s[n].score \in Int
  <2>1. \A d \in PageResults : d.score \in Int
    BY DEF PageResults
  <2>2. QED
    BY <2>1
<1>3. numbers \in [DOMAIN s -> Int] /\ \A n \in DOMAIN s : numbers[n] = -s[n].score
  BY <1>2
<1> HIDE DEF numbers, R
<1>4. R \in Seq(PageResults) /\ \E p : Sorts(p, R, s, numbers)
  BY <1>1, <1>3, SortedBySorts
<1>5. PICK p : Sorts(p, R, s, numbers)
  BY <1>4
<1>6. /\ p \in Bijection(DOMAIN s, DOMAIN s) /\ DOMAIN R = DOMAIN s
      /\ \A k \in DOMAIN s : R[k] = s[p[k]]
      /\ \A j, k \in DOMAIN s : j < k => NoLater(numbers, p[j], p[k])
  BY <1>5 DEF Sorts
<1>7. \A k \in DOMAIN s : p[k] \in DOMAIN s
  BY <1>6 DEF Bijection, Injection
<1>8. ASSUME NEW m \in DOMAIN R, NEW n \in DOMAIN R, m < n PROVE R[n].score <= R[m].score
  <2>1. NoLater(numbers, p[m], p[n]) /\ p[m] \in DOMAIN s /\ p[n] \in DOMAIN s
    BY <1>6, <1>7, <1>8
  <2>2. R[m] = s[p[m]] /\ R[n] = s[p[n]]
    BY <1>6
  <2>3. /\ s[p[m]].score \in Int /\ s[p[n]].score \in Int
        /\ numbers[p[m]] = -s[p[m]].score /\ numbers[p[n]] = -s[p[n]].score
    BY <1>2, <1>3, <2>1
  <2>4. QED
    BY <2>1, <2>2, <2>3 DEF NoLater
<1>9. QED
  BY <1>4, <1>6, <1>8 DEF Falling, R

\* The results of an answer before any is left out.
RankedResults(a, dedupe) == Ordered(MergedPages(FoundIn(a.calls), dedupe))

\* With dedupe the pages are ranked.
LEMMA RankedFacts ==
  ASSUME NEW a, a.calls \in Seq(Calls)
  PROVE  Ranked(RankedResults(a, TRUE), a)
<1> DEFINE pages == MergedPages(FoundIn(a.calls), TRUE)
           R == RankedResults(a, TRUE)
<1>1. /\ pages \in Seq(PageResults)
      /\ \A n \in DOMAIN pages : /\ pages[n].url \in Found(a)
                                 /\ pages[n].score = Best(a, pages[n].url)
                                 /\ pages[n].providers = Finders(a, pages[n].url)
      /\ \A u \in Found(a) : \E n \in DOMAIN pages : pages[n].url = u
      /\ \A m, n \in DOMAIN pages : pages[m].url = pages[n].url => m = n
  BY PagesMerged
<1>2. R = Ordered(pages)
  BY DEF RankedResults
<1> HIDE DEF pages, R
<1>3. /\ R \in Seq(PageResults) /\ DOMAIN R = DOMAIN pages /\ Falling(R)
      /\ \E p \in Bijection(DOMAIN pages, DOMAIN pages) : \A k \in DOMAIN pages : R[k] = pages[p[k]]
  BY <1>1, <1>2, OrderedFacts
<1>4. PICK p \in Bijection(DOMAIN pages, DOMAIN pages) : \A k \in DOMAIN pages : R[k] = pages[p[k]]
  BY <1>3
<1>5. /\ \A k \in DOMAIN pages : p[k] \in DOMAIN pages
      /\ \A n \in DOMAIN pages : \E k \in DOMAIN pages : p[k] = n
      /\ \A j, k \in DOMAIN pages : p[j] = p[k] => j = k
  BY DEF Bijection, Injection, Surjection, IsInjective
<1>6. \A n \in DOMAIN R : /\ R[n].url \in Found(a) /\ R[n].score = Best(a, R[n].url)
                          /\ R[n].providers = Finders(a, R[n].url)
  <2> SUFFICES ASSUME NEW n \in DOMAIN R
               PROVE  /\ R[n].url \in Found(a) /\ R[n].score = Best(a, R[n].url)
                      /\ R[n].providers = Finders(a, R[n].url)
    OBVIOUS
  <2>1. R[n] = pages[p[n]] /\ p[n] \in DOMAIN pages
    BY <1>3, <1>4, <1>5
  <2>2. QED
    BY <1>1, <2>1
<1>7. \A u \in Found(a) : \E n \in DOMAIN R : R[n].url = u
  <2> SUFFICES ASSUME NEW u \in Found(a) PROVE \E n \in DOMAIN R : R[n].url = u
    OBVIOUS
  <2>1. PICK m \in DOMAIN pages : pages[m].url = u
    BY <1>1
  <2>2. PICK k \in DOMAIN pages : p[k] = m
    BY <1>5
  <2>3. QED
    BY <1>3, <1>4, <2>1, <2>2
<1>8. ASSUME NEW m \in DOMAIN R, NEW n \in DOMAIN R, R[m].url = R[n].url PROVE m = n
  <2>1. m \in DOMAIN pages /\ n \in DOMAIN pages
    BY <1>3
  <2>2. pages[p[m]].url = pages[p[n]].url /\ p[m] \in DOMAIN pages /\ p[n] \in DOMAIN pages
    BY <1>4, <1>5, <1>8, <2>1
  <2>3. p[m] = p[n]
    BY <1>1, <2>2
  <2>4. QED
    BY <1>5, <2>1, <2>3
<1>9. QED
  BY <1>3, <1>6, <1>7, <1>8 DEF Ranked, Falling, R

\* Ranked are as many results as pages were found.
LEMMA RankedNumber ==
  ASSUME NEW R, NEW a, Ranked(R, a)
  PROVE  /\ Len(R) \in Nat /\ DOMAIN R = 1..Len(R)
         /\ IsFiniteSet(Found(a)) /\ Cardinality(Found(a)) = Len(R)
<1> DEFINE L == Len(R)
           page == [n \in 1..L |-> R[n].url]
<1>1. L \in Nat /\ DOMAIN R = 1..L
  BY DEF Ranked
<1>2. /\ \A n \in 1..L : R[n].url \in Found(a)
      /\ \A u \in Found(a) : \E n \in 1..L : R[n].url = u
      /\ \A m, n \in 1..L : R[m].url = R[n].url => m = n
  BY <1>1 DEF Ranked
<1> HIDE DEF L
<1>3. page \in Bijection(1..L, Found(a))
  BY <1>2 DEF Bijection, Injection, Surjection, IsInjective
<1>4. IsFiniteSet(1..L) /\ Cardinality(1..L) = L
  <2>1. IsFiniteSet(1..L) /\ Cardinality(1..L) = IF 1 > L THEN 0 ELSE L - 1 + 1
    BY <1>1, FS_Interval
  <2>2. QED
    BY <1>1, <2>1
<1>5. QED
  BY <1>1, <1>3, <1>4, FS_Bijection DEF ExistsBijection, L

\* The pages of T are the best of those found, with all that is known of them.
BestPages(T, a) ==
  LET shown == {r.url : r \in ToSet(T)} IN
  /\ Cardinality(shown) = Len(T)
  /\ shown \subseteq Found(a)
  /\ \A r \in ToSet(T) :
       /\ r.score = Best(a, r.url) /\ r.providers = Finders(a, r.url)
       /\ \A u \in Found(a) \ shown : Best(a, u) <= r.score

\* The first of the ranked results are the best of what was found.
LEMMA FirstPagesAreBest ==
  ASSUME NEW R, NEW a, Ranked(R, a), NEW N \in 0..Len(R),
         NEW T \in Seq(PageResults), Len(T) = N, \A k \in 1..N : T[k] = R[k]
  PROVE  BestPages(T, a)
<1> DEFINE shown == {r.url : r \in ToSet(T)}
           page == [k \in 1..N |-> R[k].url]
<1>1. /\ Len(R) \in Nat /\ DOMAIN R = 1..Len(R) /\ N \in Nat /\ 1..N \subseteq 1..Len(R)
      /\ DOMAIN T = 1..N
  BY RankedNumber
<1>2. ToSet(T) = {R[k] : k \in 1..N}
  BY <1>1 DEF ToSet
<1>3. shown = {R[k].url : k \in 1..N}
  BY <1>2
<1>4. /\ \A k \in 1..N : /\ R[k].url \in Found(a) /\ R[k].score = Best(a, R[k].url)
                         /\ R[k].providers = Finders(a, R[k].url)
      /\ \A j, k \in 1..N : R[j].url = R[k].url => j = k
  BY <1>1 DEF Ranked
<1> HIDE DEF shown
<1>5. page \in Bijection(1..N, shown)
  BY <1>3, <1>4 DEF Bijection, Injection, Surjection, IsInjective
<1>6. Cardinality(shown) = N
  <2>1. IsFiniteSet(1..N) /\ Cardinality(1..N) = IF 1 > N THEN 0 ELSE N - 1 + 1
    BY <1>1, FS_Interval
  <2>2. IsFiniteSet(1..N) /\ Cardinality(1..N) = N
    BY <1>1, <2>1
  <2>3. QED
    BY <1>5, <2>2, FS_Bijection DEF ExistsBijection
<1>7. ASSUME NEW k \in 1..N, NEW u \in Found(a) \ shown PROVE Best(a, u) <= R[k].score
  <2>1. PICK n \in DOMAIN R : R[n].url = u
    BY DEF Ranked
  <2>2. n \notin 1..N
    BY <1>3, <1>7, <2>1
  <2>3. k \in DOMAIN R /\ k < n
    BY <1>1, <2>1, <2>2
  <2>4. R[n].score <= R[k].score /\ R[n].score = Best(a, u)
    BY <2>1, <2>3 DEF Ranked
  <2>5. QED
    BY <2>4
<1>8. QED
  BY <1>2, <1>3, <1>4, <1>6, <1>7 DEF shown, BestPages


-----------------------------------------------------------------------------
(* Without dedupe. *)

\* Without dedupe the results stay as they were found.
LEMMA Unmerged ==
  ASSUME NEW found \in Seq(PageResults)
  PROVE  MergedPages(found, FALSE) = found
<1>1. PICK merged : PagesTurns(merged, found, FALSE)
  BY PagesLoop
<1> DEFINE L == Len(found)
           Good == {n \in 0..L : /\ Len(merged[n]) = n
                                 /\ \A m \in 1..n : merged[n][m] = found[m]}
<1>2. /\ L \in Nat /\ merged \in [0..L -> Seq(PageResults)] /\ merged[0] = <<>>
      /\ MergedPages(found, FALSE) = merged[L]
      /\ \A n \in 1..L : merged[n] = Append(merged[n - 1], found[n])
  <2>1. \A before, r : MergeResult(before, r, FALSE) = Append(before, r)
    BY DEF MergeResult
  <2>2. /\ merged \in [0..L -> Seq(PageResults)] /\ merged[0] = <<>>
        /\ MergedPages(found, FALSE) = merged[L]
        /\ \A n \in 1..L : merged[n] = MergeResult(merged[n - 1], found[n], FALSE)
    BY <1>1, ZenonT(20) DEF PagesTurns
  <2>3. \A n \in 1..L : merged[n] = Append(merged[n - 1], found[n])
    <3> HIDE DEF L
    <3>1. QED
      BY <2>1, <2>2, Zenon
  <2>4. L \in Nat
    OBVIOUS
  <2>5. QED
    BY <2>2, <2>3, <2>4, ZenonT(20)
<1>3. 0 \in Good
  BY <1>2
<1>4. ASSUME NEW n \in 1..L, n - 1 \in Good PROVE n \in Good
  <2> DEFINE before == merged[n - 1]
  <2>1. /\ n - 1 \in 0..L /\ n \in 0..L /\ before \in Seq(PageResults)
        /\ found[n] \in PageResults
    <3>1. n - 1 \in 0..L /\ n \in 0..L /\ n \in 1..Len(found)
      BY <1>2
    <3>2. found[n] \in PageResults
      BY <3>1
    <3> HIDE DEF L
    <3>3. QED
      BY <1>2, <3>1, <3>2
  <2>2. /\ Len(before) = n - 1 /\ \A m \in 1..(n - 1) : before[m] = found[m]
        /\ merged[n] = Append(before, found[n])
    BY <1>2, <1>4
  <2> HIDE DEF before
  <2>3. /\ Len(merged[n]) = n /\ merged[n][n] = found[n]
        /\ \A m \in 1..(n - 1) : merged[n][m] = before[m]
    <3>1. n \in Nat \ {0}
      BY <1>2
    <3>2. Append(before, found[n])[n] = found[n] /\ Len(Append(before, found[n])) = n
      BY <2>1, <2>2, <3>1
    <3>3. \A m \in 1..(n - 1) : Append(before, found[n])[m] = before[m]
      BY <2>1, <2>2, <3>1
    <3>4. QED
      BY <2>2, <3>2, <3>3
  <2>4. \A m \in 1..n : merged[n][m] = found[m]
    <3>1. \A m \in 1..n : m = n \/ m \in 1..(n - 1)
      BY <1>2
    <3>2. QED
      BY <2>2, <2>3, <3>1
  <2>5. QED
    BY <2>1, <2>3, <2>4
<1> HIDE DEF Good
<1>5. \A n \in 0..L : n \in Good
  BY <1>2, <1>3, <1>4, Climb
<1>6. L \in 0..L
  BY <1>2
<1>7. Len(merged[L]) = L /\ \A m \in 1..L : merged[L][m] = found[m]
  BY <1>5, <1>6 DEF Good
<1>8. merged[L] = found
  <2>1. merged[L] \in Seq(PageResults) /\ Len(merged[L]) = Len(found)
    BY <1>2, <1>6, <1>7
  <2>2. QED
    BY <1>7, <2>1
<1>9. QED
  BY <1>2, <1>8

\* What was found is made of the hits, each once.
LEMMA FoundAreHits ==
  ASSUME NEW a, a.calls \in Seq(Calls)
  PROVE  \E hit \in Bijection(DOMAIN FoundIn(a.calls), Hits(a)) :
           \A n \in DOMAIN FoundIn(a.calls) : FoundIn(a.calls)[n] = Hit(a, hit[n])
<1> DEFINE calls == a.calls
           seqs == [i \in DOMAIN calls |-> ResultsOf(calls[i])]
           found == FoundIn(calls)
           L == Len(found)
<1>1. /\ DOMAIN calls = 1..Len(calls) /\ Len(calls) \in Nat
      /\ \A i \in DOMAIN calls : calls[i] \in Calls
  OBVIOUS
<1>2. \A i \in DOMAIN calls : ResultsOf(calls[i]) \in Seq(PageResults)
  BY <1>1, ResultsOfFacts
<1>3. /\ seqs \in Seq(Seq(PageResults)) /\ Len(seqs) = Len(calls)
      /\ \A i \in 1..Len(calls) : seqs[i] = ResultsOf(calls[i])
  <2>1. seqs \in [1..Len(calls) -> Seq(PageResults)]
    BY <1>1, <1>2
  <2>2. QED
    BY <1>1, <2>1
<1>4. found = FlattenSeq(seqs)
  BY DEF FoundIn
<1>5. found \in Seq(PageResults) /\ \E o, k : Origins(o, k, found, seqs)
  <2> HIDE DEF seqs, found
  <2>1. QED
    BY <1>3, <1>4, FlattenOrigins
<1> HIDE DEF seqs, found
<1>6. PICK o, k : Origins(o, k, found, seqs)
  BY <1>5
<1>7. DOMAIN found = 1..L /\ L \in Nat
  BY <1>5
<1> DEFINE hit == [n \in 1..L |-> <<o[n], k[n]>>]
<1>8. Hits(a) = UNION {{<<i, m>> : m \in 1..Len(seqs[i])} : i \in 1..Len(seqs)}
  <2>1. \A i \in DOMAIN calls : DOMAIN ResultsOf(calls[i]) = 1..Len(seqs[i])
    BY <1>1, <1>2, <1>3
  <2>2. QED
    BY <1>1, <1>3, <2>1 DEF Hits
<1>9. ASSUME NEW n \in 1..L
      PROVE  hit[n] \in Hits(a) /\ found[n] = Hit(a, hit[n])
  <2>1. o[n] \in 1..Len(seqs) /\ k[n] \in 1..Len(seqs[o[n]]) /\ found[n] = seqs[o[n]][k[n]]
    BY <1>6 DEF Origins
  <2>2. hit[n] = <<o[n], k[n]>>
    OBVIOUS
  <2>3. hit[n] \in Hits(a)
    BY <1>8, <2>1, <2>2
  <2>4. found[n] = Hit(a, hit[n])
    BY <1>3, <2>1, <2>2 DEF Hit
  <2>5. QED
    BY <2>3, <2>4
<1>10. ASSUME NEW m \in 1..L, NEW n \in 1..L, m < n PROVE hit[m] # hit[n]
  <2>1. o[m] <= o[n] /\ (o[m] = o[n] => k[m] < k[n])
    BY <1>6, <1>10 DEF Origins
  <2>2. k[m] \in Int /\ k[n] \in Int
    BY <1>6 DEF Origins
  <2>3. ~(o[m] = o[n] /\ k[m] = k[n])
    BY <2>1, <2>2
  <2>4. hit[m] = <<o[m], k[m]>> /\ hit[n] = <<o[n], k[n]>>
    OBVIOUS
  <2>5. QED
    BY <2>3, <2>4
<1>11. ASSUME NEW h \in Hits(a) PROVE \E n \in 1..L : hit[n] = h
  <2>1. PICK i \in 1..Len(seqs) : \E m \in 1..Len(seqs[i]) : h = <<i, m>>
    BY <1>8
  <2>2. PICK m \in 1..Len(seqs[i]) : h = <<i, m>>
    BY <2>1
  <2>3. PICK n \in 1..L : o[n] = i /\ k[n] = m
    BY <1>6 DEF Origins
  <2>4. QED
    BY <2>2, <2>3
<1>12. hit \in [1..L -> Hits(a)]
  BY <1>9
<1> HIDE DEF hit, L
<1>13. \A m, n \in 1..L : hit[m] = hit[n] => m = n
  <2>1. \A m, n \in 1..L : m < n \/ n < m \/ m = n
    BY <1>7
  <2>2. QED
    BY <1>10, <2>1
<1>14. hit \in Bijection(1..L, Hits(a))
  BY <1>11, <1>12, <1>13 DEF Bijection, Injection, Surjection, IsInjective
<1>15. QED
  BY <1>7, <1>9, <1>14 DEF found

\* R are the hits of an answer, each once, no better one behind another.
RankedHits(R, a) ==
  /\ R \in Seq(PageResults)
  /\ Falling(R)
  /\ \E from \in Bijection(DOMAIN R, Hits(a)) : \A n \in DOMAIN R : R[n] = Hit(a, from[n])

\* Without dedupe the hits are ranked.
LEMMA HitsRanked ==
  ASSUME NEW a, a.calls \in Seq(Calls)
  PROVE  RankedHits(RankedResults(a, FALSE), a)
<1> DEFINE found == FoundIn(a.calls)
           R == RankedResults(a, FALSE)
           D == DOMAIN found
<1>1. found \in Seq(PageResults)
  BY FoundInFacts
<1>2. PICK hit \in Bijection(D, Hits(a)) : \A n \in D : found[n] = Hit(a, hit[n])
  BY FoundAreHits
<1>3. R = Ordered(found)
  <2> HIDE DEF found
  <2>1. MergedPages(found, FALSE) = found
    BY <1>1, Unmerged
  <2>2. QED
    BY <2>1 DEF RankedResults, found
<1> HIDE DEF found, R
<1>4. /\ R \in Seq(PageResults) /\ DOMAIN R = D /\ Falling(R)
      /\ \E p \in Bijection(D, D) : \A k \in D : R[k] = found[p[k]]
  BY <1>1, <1>3, OrderedFacts
<1> HIDE DEF D
<1>5. PICK p \in Bijection(D, D) : \A k \in D : R[k] = found[p[k]]
  BY <1>4
<1> DEFINE from == [k \in D |-> hit[p[k]]]
<1>6. /\ \A k \in D : p[k] \in D
      /\ \A n \in D : \E k \in D : p[k] = n
      /\ \A j, k \in D : p[j] = p[k] => j = k
  BY DEF Bijection, Injection, Surjection, IsInjective
<1>7. /\ \A n \in D : hit[n] \in Hits(a)
      /\ \A h \in Hits(a) : \E n \in D : hit[n] = h
      /\ \A m, n \in D : hit[m] = hit[n] => m = n
  BY DEF Bijection, Injection, Surjection, IsInjective
<1>8. from \in [D -> Hits(a)]
  BY <1>6, <1>7
<1>9. \A j, k \in D : from[j] = from[k] => j = k
  BY <1>6, <1>7
<1>10. \A h \in Hits(a) : \E k \in D : from[k] = h
  BY <1>6, <1>7
<1>11. \A k \in D : R[k] = Hit(a, from[k])
  BY <1>2, <1>5, <1>6
<1> HIDE DEF from
<1>12. from \in Bijection(D, Hits(a))
  BY <1>8, <1>9, <1>10 DEF Bijection, Injection, Surjection, IsInjective
<1>13. QED
  BY <1>4, <1>11, <1>12 DEF RankedHits, R

\* The results of T are the best of the hits, each of them shown once.
BestHits(T, a) ==
  \E from \in [DOMAIN T -> Hits(a)] :
    /\ \A m, n \in DOMAIN T : from[m] = from[n] => m = n
    /\ \A n \in DOMAIN T :
         /\ T[n] = Hit(a, from[n])
         /\ \A hit \in Hits(a) \ ToSet(from) : Hit(a, hit).score <= T[n].score

\* The first of the ranked hits are the best of them.
LEMMA FirstHitsAreBest ==
  ASSUME NEW R, NEW a, RankedHits(R, a), NEW N \in 0..Len(R),
         NEW T \in Seq(PageResults), Len(T) = N, \A k \in 1..N : T[k] = R[k]
  PROVE  BestHits(T, a) /\ Cardinality(Hits(a)) = Len(R)
<1> DEFINE L == Len(R)
<1>1. /\ L \in Nat /\ DOMAIN R = 1..L /\ N \in 0..L /\ DOMAIN T = 1..N
  BY DEF RankedHits
<1>2. PICK from \in Bijection(1..L, Hits(a)) : \A n \in 1..L : R[n] = Hit(a, from[n])
  BY <1>1 DEF RankedHits
<1>3. /\ from \in [1..L -> Hits(a)]
      /\ \A h \in Hits(a) : \E n \in 1..L : from[n] = h
      /\ \A m, n \in 1..L : from[m] = from[n] => m = n
  BY DEF Bijection, Injection, Surjection, IsInjective
<1>4. \A m, n \in 1..L : m < n => R[n].score <= R[m].score
  BY <1>1 DEF RankedHits, Falling
<1> HIDE DEF L
<1>5. \A k \in 1..N : k \in 1..L
  BY <1>1
<1> DEFINE first == [k \in 1..N |-> from[k]]
<1>6. first \in [DOMAIN T -> Hits(a)]
  BY <1>1, <1>3, <1>5
<1>7. \A m, n \in DOMAIN T : first[m] = first[n] => m = n
  BY <1>1, <1>3, <1>5
<1>8. ASSUME NEW n \in DOMAIN T
      PROVE  /\ T[n] = Hit(a, first[n])
             /\ \A hit \in Hits(a) \ ToSet(first) : Hit(a, hit).score <= T[n].score
  <2>1. n \in 1..N /\ n \in 1..L /\ T[n] = R[n] /\ first[n] = from[n]
    BY <1>1, <1>5
  <2>2. ASSUME NEW hit \in Hits(a) \ ToSet(first) PROVE Hit(a, hit).score <= T[n].score
    <3>1. PICK m \in 1..L : from[m] = hit
      BY <1>3
    <3>2. m \notin 1..N
      <4>1. ASSUME m \in 1..N PROVE FALSE
        <5>1. first[m] = hit /\ m \in DOMAIN first
          BY <3>1, <4>1
        <5>2. hit \in ToSet(first)
          BY <5>1 DEF ToSet
        <5>3. QED
          BY <5>2
      <4>2. QED
        BY <4>1
    <3>3. n < m
      BY <1>1, <2>1, <3>1, <3>2
    <3>4. R[m].score <= R[n].score /\ R[m] = Hit(a, hit)
      BY <1>2, <1>4, <2>1, <3>1, <3>3
    <3>5. QED
      BY <2>1, <3>4
  <2>3. QED
    BY <1>2, <2>1, <2>2
<1>9. BestHits(T, a)
  <2> HIDE DEF first
  <2>1. QED
    BY <1>6, <1>7, <1>8 DEF BestHits
<1>10. Cardinality(Hits(a)) = L
  <2>1. IsFiniteSet(1..L) /\ Cardinality(1..L) = IF 1 > L THEN 0 ELSE L - 1 + 1
    BY <1>1, FS_Interval
  <2>2. IsFiniteSet(1..L) /\ Cardinality(1..L) = L
    BY <1>1, <2>1
  <2>3. QED
    BY <2>2, FS_Bijection DEF ExistsBijection
<1>11. QED
  BY <1>9, <1>10 DEF L

-----------------------------------------------------------------------------
(* What is shown. *)

\* A limit leaves the first, or all.
LEMMA TruncatedFacts ==
  ASSUME NEW R \in Seq(PageResults), NEW max \in Nat
  PROVE  /\ Within(max, Len(R)) \in 0..Len(R)
         /\ Truncated(R, max) \in Seq(PageResults)
         /\ Len(Truncated(R, max)) = Within(max, Len(R))
         /\ \A k \in 1..Within(max, Len(R)) : Truncated(R, max)[k] = R[k]
<1>1. Len(R) \in Nat
  OBVIOUS
<1>2. Within(max, Len(R)) \in 0..Len(R)
  BY <1>1 DEF Within, Least
<1> DEFINE N == Within(max, Len(R))
<1>3. Truncated(R, max) = SubSeq(R, 1, N)
  BY DEF Truncated
<1> HIDE DEF N
<1>4. N \in 0..Len(R)
  BY <1>2 DEF N
<1>5. /\ SubSeq(R, 1, N) \in Seq(PageResults) /\ Len(SubSeq(R, 1, N)) = N
      /\ \A k \in 1..N : SubSeq(R, 1, N)[k] = R[k]
  BY <1>1, <1>4
<1>6. QED
  BY <1>2, <1>3, <1>5 DEF N

\* What an answer shows, fresh or from the cache, are the first of its results.
LEMMA ShownAreFirst ==
  ASSUME NEW a, a.cached \in BOOLEAN, NEW dedupe \in BOOLEAN,
         NEW R \in Seq(PageResults), R = RankedResults(a, dedupe)
  PROVE  LET results == ResponseResults(a, dedupe) IN
         /\ results \in Seq(PageResults) /\ Len(results) \in 0..Len(R)
         /\ Len(results) = Shown(a, Len(R))
         /\ \A k \in 1..Len(results) : results[k] = R[k]
<1> DEFINE fresh == Truncated(R, Limit)
           results == ResponseResults(a, dedupe)
           M == Within(Limit, Len(R))
           N == Len(results)
<1>1. Len(R) \in Nat
  OBVIOUS
<1>2. Merged(a.calls, dedupe) = fresh
  BY DEF Merged, RankedResults, Ordered, FoundIn
<1>3. Limit \in Nat /\ CacheMaxResults \in Nat
  BY SearchAssumption
<1>4. /\ fresh \in Seq(PageResults) /\ M \in 0..Len(R) /\ Len(fresh) = M
      /\ \A k \in 1..M : fresh[k] = R[k]
  BY <1>3, TruncatedFacts
<1>5. results = IF a.cached THEN Truncated(fresh, CacheMaxResults) ELSE fresh
  BY <1>2 DEF ResponseResults
<1> HIDE DEF fresh, results
<1>6. CASE a.cached
  <2>1. results = Truncated(fresh, CacheMaxResults)
    BY <1>5, <1>6
  <2>2. Len(fresh) = M /\ fresh \in Seq(PageResults)
    BY <1>4
  <2> HIDE DEF M
  <2>3. /\ Within(CacheMaxResults, M) \in 0..M /\ results \in Seq(PageResults)
        /\ N = Within(CacheMaxResults, M) /\ \A k \in 1..N : results[k] = fresh[k]
    BY <1>3, <2>1, <2>2, TruncatedFacts
  <2>4. N \in 0..Len(R) /\ \A k \in 1..N : k \in 1..M
    BY <1>1, <1>4, <2>3
  <2>5. N = Shown(a, Len(R))
    BY <1>6, <2>3 DEF Shown, M
  <2>6. QED
    BY <1>4, <2>3, <2>4, <2>5 DEF results
<1>7. CASE ~a.cached
  <2>1. results = fresh /\ Shown(a, Len(R)) = M
    BY <1>5, <1>7 DEF Shown
  <2>2. QED
    BY <1>4, <2>1 DEF results
<1>8. QED
  BY <1>6, <1>7

\* They are the best of what was found, the better before the worse.
LEMMA ResponseIsBest ==
  ASSUME NEW a, a.calls \in Seq(Calls), a.cached \in BOOLEAN, NEW dedupe \in BOOLEAN
  PROVE  LET results == ResponseResults(a, dedupe) IN
         /\ IF dedupe THEN PagesAreBest(a, results) ELSE HitsAreBest(a, results)
         /\ Falling(results)
<1> DEFINE R == RankedResults(a, dedupe)
           results == ResponseResults(a, dedupe)
           N == Len(results)
<1>1. CASE dedupe
  <2>1. Ranked(R, a)
    BY <1>1, RankedFacts
  <2>2. /\ R \in Seq(PageResults) /\ Cardinality(Found(a)) = Len(R)
        /\ \A m, n \in DOMAIN R : m < n => R[n].score <= R[m].score
    BY <2>1, RankedNumber DEF Ranked
  <2>3. R = RankedResults(a, dedupe)
    OBVIOUS
  <2> HIDE DEF R
  <2>4. /\ results \in Seq(PageResults) /\ N \in 0..Len(R)
        /\ N = Shown(a, Len(R)) /\ \A k \in 1..N : results[k] = R[k]
    BY <2>2, <2>3, ShownAreFirst
  <2>5. Len(results) = N
    OBVIOUS
  <2> HIDE DEF results, N
  <2>6. BestPages(results, a)
    BY <2>1, <2>4, <2>5, FirstPagesAreBest
  <2>7. PagesAreBest(a, results)
    BY <2>2, <2>4, <2>5, <2>6 DEF PagesAreBest, BestPages
  <2>8. DOMAIN results = 1..N /\ \A k \in 1..N : k \in DOMAIN R
    BY <2>2, <2>4, <2>5
  <2>9. Falling(results)
    BY <2>2, <2>4, <2>8 DEF Falling
  <2>10. QED
    BY <1>1, <2>7, <2>9 DEF results
<1>2. CASE ~dedupe
  <2>1. RankedHits(R, a)
    BY <1>2, HitsRanked
  <2>2. /\ R \in Seq(PageResults)
        /\ \A m, n \in DOMAIN R : m < n => R[n].score <= R[m].score
    BY <2>1 DEF RankedHits, Falling
  <2>3. R = RankedResults(a, dedupe)
    OBVIOUS
  <2> HIDE DEF R
  <2>4. /\ results \in Seq(PageResults) /\ N \in 0..Len(R)
        /\ N = Shown(a, Len(R)) /\ \A k \in 1..N : results[k] = R[k]
    BY <2>2, <2>3, ShownAreFirst
  <2>5. Len(results) = N
    OBVIOUS
  <2> HIDE DEF results, N
  <2>6. BestHits(results, a) /\ Cardinality(Hits(a)) = Len(R)
    BY <2>1, <2>4, <2>5, FirstHitsAreBest
  <2>7. HitsAreBest(a, results)
    BY <2>4, <2>5, <2>6 DEF HitsAreBest, BestHits
  <2>8. DOMAIN results = 1..N /\ \A k \in 1..N : k \in DOMAIN R
    BY <2>2, <2>4, <2>5
  <2>9. Falling(results)
    BY <2>2, <2>4, <2>8 DEF Falling
  <2>10. QED
    BY <1>2, <2>7, <2>9 DEF results
<1>3. QED
  BY <1>1, <1>2

\* The results of an answer, fresh or cached, are the best of what its providers found,
\* the better before the worse, as many as the limits leave.  With dedupe (the default
\* of settings, or the request's own) no page comes twice, each with its best score and
\* all its finders; without it every result is one that was found, none of them twice.
THEOREM ResultsCorrect == Spec => []ResultsAreBest
<1>1. TypeOK => ResultsAreBest
  <2> SUFFICES ASSUME TypeOK, NEW c \in {d \in Callers : pc[d] = "logging"},
                      NEW dedupe \in BOOLEAN
      PROVE LET results == ResponseResults(answer[c], dedupe) IN
            /\ IF dedupe THEN PagesAreBest(answer[c], results) ELSE HitsAreBest(answer[c], results)
            /\ Falling(results)
    BY DEF ResultsAreBest, Falling
  <2>1. answer[c] \in Answers
    BY DEF TypeOK
  <2>2. answer[c].calls \in Seq(Calls) /\ answer[c].cached \in BOOLEAN
    BY <2>1 DEF Answers
  <2>3. QED
    BY <2>2, ResponseIsBest
<1>2. QED
  BY <1>1, SearchTypeCorrect, PTL

=============================================================================
