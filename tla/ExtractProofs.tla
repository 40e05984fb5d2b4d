--------------------------- MODULE ExtractProofs ---------------------------
(***************************************************************************)
(* Proofs about Extract, for any URLs, providers, modes, time limits,      *)
(* sizes and bounds: the types, that every URL is answered once and from   *)
(* the first that brought it, that nobody is asked for what is there, that *)
(* the time suffices, and that the response is bounded but not more than   *)
(* necessary.                                                              *)
(*                                                                         *)
(* ExtractInv relates what each execution was asked to what it brought;    *)
(* Window adds to it the time of the calls still to come.  What the caller *)
(* gets is reckoned in one step, from an extraction that satisfies         *)
(* ExtractInv: the rest is about Merged, SortedBy, Share and HalvedCap.    *)
(***************************************************************************)
EXTENDS Extract, ListProofs

-----------------------------------------------------------------------------
(* The invariant of an extraction. *)

Retries(i) == KeyRetryCount[ask.providers[i]]
WholeSize(i) == Smaller(Size[ask.providers[i]], MaxResult)

Results == [url : Urls, owner : Nat, providers : SUBSET Nat, size : Nat]
Executions ==
  [step : {"unasked", "due", "calling", "settled"}, batch : Nat \ {0}, attempt : Nat,
   left : Nat, results : Seq(Results), failures : SUBSET (Urls \cup {Other}),
   error : BOOLEAN, attempts : Seq({"success", "failed", "retried"})]

Requests ==
  [mode : Modes \cup {"none"}, urls : Seq(Urls), providers : Seq(Enabled), window : Nat]

\* The variables have their types; nothing of an extraction outlives it.
VarsOK ==
  /\ at \in {"idle", "validating", "refused", "running", "abandoned", "answered"}
  /\ ask \in Requests /\ IsInjective(ask.urls)
  /\ lookups \subseteq {Host[page] : page \in Urls} \ {Literal}
  /\ budget \in Nat
  /\ execs \in Seq(Executions)
  /\ response.told \in {"none", "success", "error"}
  /\ response.parts \subseteq Parts /\ response.logged \in BOOLEAN
  /\ at # "idle" => ask.mode # "none" /\ ask.urls # <<>>
  /\ IF at \in {"running", "abandoned"} THEN Len(execs) = Len(ask.providers) ELSE execs = <<>>
  /\ at = "answered" => brought \subseteq (DOMAIN ask.providers) \X ToSet(ask.urls)
  /\ at \notin {"running", "abandoned", "answered"} => brought = {}

\* In fallback mode one provider is asked after the other, in single mode one only.
InTurn ==
  \A i \in DOMAIN execs : execs[i].step # "unasked" =>
    /\ ask.mode = "fallback" => \A j \in 1..(i - 1) : execs[j].step = "settled"
    /\ ask.mode = "single" => i = 1

\* The URLs of the first calls of provider i, and of those before the one that is due.
PassedBy(i, calls) ==
  {Assigned(i)[k] : k \in 1..Smaller(calls * BatchSize(i), Len(Assigned(i)))}
Passed(i) == PassedBy(i, execs[i].batch - 1)

\* How often it may have called for the batches before.
CallsBefore(i) == (execs[i].batch - 1) * (Retries(i) + 1)

\* An execution has made no more calls than it may.
CallsOK(i) ==
  LET e == execs[i] IN
  /\ e.step = "unasked" => e = Unasked
  /\ e.step # "unasked" => e.batch <= Batches(i)
  /\ e.step = "due" => e.attempt <= Retries(i) /\ Len(e.attempts) <= CallsBefore(i) + e.attempt
  /\ e.step = "calling" =>
       e.attempt \in 1..(Retries(i) + 1) /\ Len(e.attempts) < CallsBefore(i) + e.attempt
  /\ e.step = "settled" => e.attempt = 0 /\ Len(e.attempts) <= CallsBefore(i) + Retries(i) + 1

\* What it brought is its own, asked for, and recorded.
BroughtOK(i) ==
  LET e == execs[i] IN
  /\ Resolved(i) \subseteq ToSet(Assigned(i))
  /\ e.step \in {"due", "calling"} => Resolved(i) \subseteq Passed(i)
  /\ \A n \in DOMAIN e.results :
       /\ e.results[n].owner = i /\ e.results[n].providers = {i}
       /\ e.results[n].size = WholeSize(i)

Recorded == Running => brought = UNION {{i} \X Resolved(i) : i \in DOMAIN execs}

ExecutionsOK ==
  /\ InTurn /\ Recorded
  /\ \A i \in DOMAIN execs : CallsOK(i) /\ BroughtOK(i)

TimeOK == \A i \in DOMAIN execs : execs[i].left <= budget

\* What provider i may still take: the call that is made and all that are due.
Need(i) ==
  LET limit == TimeLimit(ask, ask.providers[i])
      e == execs[i]
  IN CASE e.step = "settled" -> 0
       [] e.step = "calling" -> e.left + limit * (Batches(i) - e.batch)
       [] OTHER -> limit * (Batches(i) - e.batch + 1)

BudgetsOf == [i \in DOMAIN ask.providers |-> BudgetOf(ask, ask.providers[i])]

\* What the providers after i may take.
After(i) == IF ask.mode = "fallback" THEN Total(BudgetsOf) - SumsOf(BudgetsOf)[i] ELSE 0

Acting(i) ==
  /\ execs[i].step # "settled"
  /\ ask.mode = "fallback" => \A j \in 1..(i - 1) : execs[j].step = "settled"
  /\ ask.mode = "single" => i = 1

Window ==
  (at = "running" /\ ask.window = 0 /\ ~Retried) =>
    \A i \in DOMAIN execs : Acting(i) => budget >= Need(i) + After(i)

-----------------------------------------------------------------------------
(* What a call is about. *)

ExecutionsTypeOK ==
  /\ DOMAIN execs = 1..Len(execs) /\ Len(execs) \in Nat
  /\ \A i \in DOMAIN execs :
       /\ execs[i] \in Executions
       /\ execs[i].step \in {"unasked", "due", "calling", "settled"}
       /\ execs[i].batch \in Nat \ {0} /\ execs[i].attempt \in Nat /\ execs[i].left \in Nat
       /\ execs[i].results \in Seq(Results)
       /\ execs[i].attempts \in Seq({"success", "failed", "retried"})

AssignedOK ==
  \A i \in DOMAIN execs :
    /\ Assigned(i) \in Seq(Urls) /\ IsInjective(Assigned(i))
    /\ ToSet(Assigned(i)) \subseteq ToSet(ask.urls)
    /\ Len(Assigned(i)) \in Nat /\ Len(Assigned(i)) <= Len(ask.urls)

BatchesOK ==
  \A i \in DOMAIN execs :
    /\ BatchSize(i) \in Nat \ {0} /\ Batches(i) \in 0..Len(Assigned(i))
    /\ Assigned(i) # <<>> => Batches(i) >= 1
    /\ IF ask.providers[i] \in OneAtATime
         THEN BatchSize(i) = 1 /\ Batches(i) = Len(Assigned(i))
         ELSE Batches(i) <= 1 /\ (Batches(i) = 1 => BatchSize(i) = Len(Assigned(i)))

\* The product of a number with a greater one is no smaller.
LEMMA TimesMonotone ==
  ASSUME NEW k \in Nat, NEW m \in Nat, NEW n \in Nat, m <= n
  PROVE  k * m <= k * n /\ k * m \in Nat /\ k * n \in Nat
<1>1. k * n - k * m = k * (n - m) /\ k * (n - m) >= 0
  OBVIOUS
<1>2. QED
  BY <1>1

BatchOK ==
  \A i \in DOMAIN execs : execs[i].batch <= Batches(i) =>
    /\ Batch(i) \in Seq(Urls) /\ Len(Batch(i)) \in Nat \ {0}
    /\ ToSet(Batch(i)) \cap Passed(i) = {}
    /\ Passed(i) \cup ToSet(Batch(i)) = PassedBy(i, execs[i].batch)
    /\ PassedBy(i, execs[i].batch) \subseteq ToSet(Assigned(i))

ProvidersOK ==
  \A i \in DOMAIN execs :
    /\ i \in DOMAIN ask.providers /\ ask.providers[i] \in Extractors
    /\ Retries(i) \in Nat /\ WholeSize(i) \in Nat
    /\ TimeLimit(ask, ask.providers[i]) \in Nat /\ Waves(ask, ask.providers[i]) \in Nat

\* Every execution has its type.
LEMMA ExecutionFacts == VarsOK => ExecutionsTypeOK
<1> SUFFICES ASSUME VarsOK PROVE ExecutionsTypeOK
  OBVIOUS
<1>1. execs \in Seq(Executions)
  BY DEF VarsOK
<1>2. \A i \in DOMAIN execs : execs[i] \in Executions
  BY <1>1
<1>3. QED
  BY <1>1, <1>2, SMTT(30) DEF ExecutionsTypeOK, Executions

\* The URLs assigned to a provider are URLs of the request, each once.
LEMMA AssignedFacts == VarsOK => AssignedOK
<1> SUFFICES ASSUME VarsOK, NEW i \in DOMAIN execs
    PROVE  /\ Assigned(i) \in Seq(Urls) /\ IsInjective(Assigned(i))
           /\ ToSet(Assigned(i)) \subseteq ToSet(ask.urls)
           /\ Len(Assigned(i)) \in Nat /\ Len(Assigned(i)) <= Len(ask.urls)
  BY DEF AssignedOK
<1>1. ask.urls \in Seq(Urls) /\ IsInjective(ask.urls)
  BY DEF VarsOK, Requests
<1> DEFINE rest == {u \in Urls : \A j \in 1..(i - 1) : u \notin Resolved(j)}
<1>2. /\ Among(ask.urls, rest) \in Seq(Urls) /\ IsInjective(Among(ask.urls, rest))
      /\ ToSet(Among(ask.urls, rest)) \subseteq ToSet(ask.urls)
      /\ Len(Among(ask.urls, rest)) <= Len(ask.urls)
  <2> HIDE DEF rest
  <2>1. /\ Among(ask.urls, rest) \in Seq(Urls)
        /\ Len(Among(ask.urls, rest)) <= Len(ask.urls)
    BY <1>1, AmongPicks
  <2>2. /\ ToSet(Among(ask.urls, rest)) = ToSet(ask.urls) \cap rest
        /\ IsInjective(Among(ask.urls, rest))
    BY <1>1, AmongElements
  <2>3. QED
    BY <2>1, <2>2
<1>3. Assigned(i) = Among(ask.urls, rest) \/ Assigned(i) = ask.urls
  BY DEF Assigned, UnresolvedBefore
<1> HIDE DEF rest
<1>4. Assigned(i) \in Seq(Urls)
  BY <1>1, <1>2, <1>3
<1>5. Len(Assigned(i)) <= Len(ask.urls)
  <2>1. Len(ask.urls) \in Nat
    BY <1>1
  <2>2. QED
    BY <1>2, <1>3, <2>1
<1>6. QED
  BY <1>1, <1>2, <1>3, <1>4, <1>5

\* How many calls its URLs take: one for each, or one for all.
LEMMA BatchesFacts == VarsOK => BatchesOK
<1> SUFFICES ASSUME VarsOK, NEW i \in DOMAIN execs
    PROVE  /\ BatchSize(i) \in Nat \ {0} /\ Batches(i) \in 0..Len(Assigned(i))
           /\ Assigned(i) # <<>> => Batches(i) >= 1
           /\ IF ask.providers[i] \in OneAtATime
                THEN BatchSize(i) = 1 /\ Batches(i) = Len(Assigned(i))
                ELSE Batches(i) <= 1 /\ (Batches(i) = 1 => BatchSize(i) = Len(Assigned(i)))
  BY DEF BatchesOK
<1>1. /\ Assigned(i) \in Seq(Urls) /\ Len(Assigned(i)) \in Nat
      /\ Assigned(i) # <<>> => Len(Assigned(i)) # 0
  BY AssignedFacts DEF AssignedOK
<1>2. CASE ask.providers[i] \in OneAtATime
  <2>1. BatchSize(i) = 1
    BY <1>2 DEF BatchSize
  <2>2. Batches(i) = Len(Assigned(i))
    BY <1>1, <1>2, <2>1 DEF Batches
  <2>3. QED
    BY <1>1, <1>2, <2>1, <2>2
<1>3. CASE ask.providers[i] \notin OneAtATime
  <2>1. BatchSize(i) = IF Len(Assigned(i)) = 0 THEN 1 ELSE Len(Assigned(i))
    BY <1>1, <1>3 DEF BatchSize, Larger
  <2>2. Batches(i) = IF Len(Assigned(i)) = 0 THEN 0 ELSE 1
    BY <1>1, <1>3 DEF Batches, Smaller
  <2>3. QED
    BY <1>1, <1>3, <2>1, <2>2
<1>4. QED
  BY <1>2, <1>3

\* A call is about URLs assigned and not passed yet, which are passed after it.
LEMMA BatchFacts == VarsOK => BatchOK
<1> SUFFICES ASSUME VarsOK, NEW i \in DOMAIN execs, execs[i].batch <= Batches(i)
    PROVE  /\ Batch(i) \in Seq(Urls) /\ Len(Batch(i)) \in Nat \ {0}
           /\ ToSet(Batch(i)) \cap Passed(i) = {}
           /\ Passed(i) \cup ToSet(Batch(i)) = PassedBy(i, execs[i].batch)
           /\ PassedBy(i, execs[i].batch) \subseteq ToSet(Assigned(i))
  BY DEF BatchOK
<1> DEFINE A == Assigned(i)
           L == Len(A)
           b == execs[i].batch
<1>1. A \in Seq(Urls) /\ L \in Nat /\ IsInjective(A) /\ DOMAIN A = 1..L
  BY AssignedFacts DEF AssignedOK
<1>2. b \in Nat \ {0}
  BY ExecutionFacts DEF ExecutionsTypeOK
<1>3. /\ Batches(i) \in 0..L
      /\ IF ask.providers[i] \in OneAtATime THEN BatchSize(i) = 1 /\ Batches(i) = L
         ELSE Batches(i) <= 1 /\ (Batches(i) = 1 => BatchSize(i) = L)
  BY BatchesFacts DEF BatchesOK
<1>4. b \in 1..L
  BY <1>1, <1>2, <1>3
<1>5. \A j, k \in 1..L : A[j] = A[k] => j = k
  BY <1>1 DEF IsInjective
<1>6. ASSUME NEW n \in 0..L
      PROVE  {A[k] : k \in 1..n} \subseteq ToSet(A)
  BY <1>1 DEF ToSet
<1>7. CASE ask.providers[i] \in OneAtATime
  <2>1. Passed(i) = {A[k] : k \in 1..(b - 1)} /\ PassedBy(i, b) = {A[k] : k \in 1..b}
    <3>1. /\ Smaller((b - 1) * BatchSize(i), L) = b - 1
          /\ Smaller(b * BatchSize(i), L) = b
      BY <1>1, <1>3, <1>4, <1>7 DEF Smaller
    <3>2. QED
      BY <3>1 DEF Passed, PassedBy
  <2>2. Batch(i) = SubSeq(A, b, b)
    <3>1. /\ Smaller(b * BatchSize(i), L) = b
          /\ (b - 1) * BatchSize(i) + 1 = b
      BY <1>1, <1>3, <1>4, <1>7 DEF Smaller
    <3>2. QED
      BY <3>1 DEF Batch
  <2> HIDE DEF A, L, b
  <2>3. Batch(i) \in Seq(Urls) /\ Len(Batch(i)) = 1 /\ Batch(i)[1] = A[b]
    BY <1>1, <1>4, <2>2
  <2>4. ToSet(Batch(i)) = {A[b]}
    BY <2>3 DEF ToSet
  <2>5. A[b] \notin {A[k] : k \in 1..(b - 1)}
    BY <1>1, <1>4, <1>5
  <2>6. {A[k] : k \in 1..(b - 1)} \cup {A[b]} = {A[k] : k \in 1..b}
    <3>1. 1..b = 1..(b - 1) \cup {b}
      BY <1>4
    <3>2. QED
      BY <3>1
  <2>7. PassedBy(i, b) \subseteq ToSet(A)
    BY <1>4, <1>6, <2>1
  <2>8. QED
    BY <2>1, <2>3, <2>4, <2>5, <2>6, <2>7 DEF A, b
<1>8. CASE ask.providers[i] \notin OneAtATime
  <2>1. b = 1 /\ Batches(i) = 1 /\ BatchSize(i) = L
    BY <1>1, <1>2, <1>3, <1>8
  <2> HIDE DEF A, L, b
  <2>0. b * BatchSize(i) = L /\ (b - 1) * BatchSize(i) = 0
    BY <1>1, <2>1
  <2>2. Passed(i) = {} /\ PassedBy(i, b) = {A[k] : k \in 1..L}
    <3>1. /\ Smaller((b - 1) * BatchSize(i), L) = 0
          /\ Smaller(b * BatchSize(i), L) = L
      BY <1>1, <2>0 DEF Smaller
    <3>2. QED
      BY <3>1 DEF Passed, PassedBy, A, L, b
  <2>3. Batch(i) = SubSeq(A, 1, L)
    <3>1. /\ Smaller(b * BatchSize(i), L) = L
          /\ (b - 1) * BatchSize(i) + 1 = 1
      BY <1>1, <2>0 DEF Smaller
    <3>2. QED
      BY <3>1 DEF Batch, A, L, b
  <2>4. Batch(i) = A
    BY <1>1, <2>3 DEF L
  <2>5. ToSet(A) = {A[k] : k \in 1..L}
    BY <1>1 DEF ToSet
  <2>6. L # 0
    BY <1>1, <1>4
  <2>7. QED
    BY <1>1, <2>2, <2>4, <2>5, <2>6 DEF A, b, L
<1>9. QED
  BY <1>7, <1>8

\* A call is about its URLs, and about none beside them.
LEMMA CorrelateFacts ==
  ASSUME NEW urls \in Seq(Urls), NEW url \in ToSet(urls) \cup {Other}
  PROVE  Correlate(url, urls) \in ToSet(urls) \cup {Other}
<1>1. CASE url \in ToSet(urls)
  BY <1>1 DEF Correlate
<1>2. CASE url \notin ToSet(urls) /\ Len(urls) = 1
  <2>1. urls[1] \in ToSet(urls)
    BY <1>2 DEF ToSet
  <2>2. QED
    BY <1>2, <2>1 DEF Correlate
<1>3. CASE url \notin ToSet(urls) /\ Len(urls) # 1
  BY <1>3 DEF Correlate
<1>4. QED
  BY <1>1, <1>2, <1>3

\* All this is so in the next state as well.
LEMMA NextFacts ==
  VarsOK' => ExecutionsTypeOK' /\ AssignedOK' /\ BatchesOK'
BY ExecutionFacts, AssignedFacts, BatchesFacts, PTL

\* The providers of the executions, with what is configured for each.
LEMMA ProviderFacts == VarsOK => ProvidersOK
<1> SUFFICES ASSUME VarsOK, NEW i \in DOMAIN execs
    PROVE  /\ i \in DOMAIN ask.providers /\ ask.providers[i] \in Extractors
           /\ Retries(i) \in Nat /\ WholeSize(i) \in Nat
           /\ TimeLimit(ask, ask.providers[i]) \in Nat
           /\ Waves(ask, ask.providers[i]) \in Nat
  BY DEF ProvidersOK
<1>1. /\ ask.urls \in Seq(Urls) /\ ask.providers \in Seq(Enabled) /\ ask.window \in Nat
      /\ execs \in Seq(Executions)
  BY DEF VarsOK, Requests
<1>2. Len(execs) = Len(ask.providers)
  BY DEF VarsOK
<1>3. i \in DOMAIN ask.providers /\ ask.providers[i] \in Extractors
  BY <1>1, <1>2, ExtractAssumption
<1> DEFINE p == ask.providers[i]
<1>4. /\ KeyRetryCount[p] \in Nat /\ Size[p] \in Nat /\ ProviderTimeout[p] \in Nat
      /\ MaxResult \in Nat /\ Second \in Nat /\ DefaultTimeout \in Nat
  <2>1. /\ KeyRetryCount \in [Extractors -> 0..20] /\ Size \in [Extractors -> Nat]
        /\ ProviderTimeout \in [Extractors -> Nat]
    BY ExtractAssumption
  <2>2. MaxResult \in Nat /\ Second \in Nat /\ DefaultTimeout \in Nat
    BY ExtractAssumption
  <2> HIDE DEF p
  <2>3. p \in Extractors
    BY <1>3 DEF p
  <2>4. QED
    BY <2>1, <2>2, <2>3
<1>5. TimeoutOf(ask, p) \in Nat
  BY <1>1, <1>4 DEF TimeoutOf, Larger
<1>6. TimeLimit(ask, p) \in Nat
  BY <1>4, <1>5 DEF TimeLimit
<1>7. Waves(ask, p) \in Nat
  BY <1>1 DEF Waves
<1>8. Retries(i) \in Nat /\ WholeSize(i) \in Nat
  BY <1>4 DEF Retries, WholeSize, Smaller
<1>9. QED
  BY <1>3, <1>6, <1>7, <1>8

Found(i, items) ==
  {Correlate(items[n].url, Batch(i)) :
     n \in {m \in DOMAIN items :
              items[m].content /\ Correlate(items[m].url, Batch(i)) # Other}}

\* What an answer brings is about the URLs of the call, and the provider's own.
LEMMA AnswerFacts ==
  ASSUME VarsOK, NEW i \in DOMAIN execs, execs[i].batch <= Batches(i),
         NEW items \in ItemsFor(i), NEW failed \in SUBSET ToSet(Batch(i))
  PROVE  /\ ResultsIn(i, items) \in Seq(Results)
         /\ \A n \in DOMAIN ResultsIn(i, items) :
              /\ ResultsIn(i, items)[n].owner = i
              /\ ResultsIn(i, items)[n].providers = {i}
              /\ ResultsIn(i, items)[n].size = WholeSize(i)
         /\ {ResultsIn(i, items)[n].url : n \in DOMAIN ResultsIn(i, items)} = Found(i, items)
         /\ Found(i, items) \subseteq ToSet(Batch(i))
         /\ FailuresIn(i, items, failed) \subseteq Urls \cup {Other}
<1> DEFINE B == Batch(i)
           Items == [url : ToSet(B) \cup {Other}, content : BOOLEAN]
           Named == [url : Urls \cup {Other}, content : BOOLEAN]
           Good == [url : Urls, content : {TRUE}]
           Name(n) == Correlate(items[n].url, B)
           named == [n \in DOMAIN items |-> [url |-> Name(n), content |-> items[n].content]]
           good == Among(named, Good)
<1>1. B \in Seq(Urls) /\ ToSet(B) \subseteq Urls
  <2>1. B \in Seq(Urls)
    BY BatchFacts DEF BatchOK
  <2>2. QED
    BY <2>1 DEF ToSet
<1>2. items \in Seq(Items)
  <2>1. PICK n \in 0..MaxItems : items \in [1..n -> Items]
    BY DEF ItemsFor
  <2>2. n \in Nat
    BY ExtractAssumption
  <2> HIDE DEF Items
  <2>3. QED
    BY <2>1, <2>2
<1>3. DOMAIN items = 1..Len(items) /\ Len(items) \in Nat
  <2> HIDE DEF Items
  <2>1. QED
    BY <1>2
<1>4. ASSUME NEW n \in DOMAIN items
      PROVE  Name(n) \in ToSet(B) \cup {Other} /\ items[n].content \in BOOLEAN
  <2>1. items[n] \in Items
    <3> HIDE DEF Items
    <3>1. QED
      BY <1>2
  <2>2. items[n].url \in ToSet(B) \cup {Other} /\ items[n].content \in BOOLEAN
    BY <2>1
  <2>3. QED
    BY <1>1, <2>2, CorrelateFacts
<1> HIDE DEF B, Name, Items
<1>5. named \in Seq(Named)
  <2>1. \A n \in DOMAIN items : [url |-> Name(n), content |-> items[n].content] \in Named
    BY <1>1, <1>4
  <2> HIDE DEF Named
  <2>2. named \in [1..Len(items) -> Named]
    BY <1>3, <2>1
  <2> HIDE DEF named
  <2>3. QED
    BY <1>3, <2>2
<1>6. /\ good \in Seq(Named) /\ ToSet(good) = ToSet(named) \cap Good
  <2> HIDE DEF named, Named, Good
  <2>1. QED
    BY <1>5, AmongPicks, AmongElements
<1>7. {good[n].url : n \in DOMAIN good}
        = {Name(n) : n \in {m \in DOMAIN items : items[m].content /\ Name(m) # Other}}
  <2>1. {good[n].url : n \in DOMAIN good} = {x.url : x \in ToSet(good)}
    <3> HIDE DEF good, named
    <3>1. QED
      BY DEF ToSet
  <2>2. ToSet(named) = {named[n] : n \in DOMAIN items}
    BY DEF ToSet
  <2>3. ASSUME NEW n \in DOMAIN items
        PROVE  named[n] \in Good <=> items[n].content /\ Name(n) # Other
    <3>1. named[n] = [url |-> Name(n), content |-> items[n].content]
      OBVIOUS
    <3>2. Name(n) \in Urls <=> Name(n) # Other
      BY <1>1, <1>4, ExtractAssumption
    <3>3. items[n].content \in BOOLEAN
      BY <1>4
    <3>4. QED
      BY <3>1, <3>2, <3>3
  <2>4. ToSet(good) = {named[n] : n \in {m \in DOMAIN items : items[m].content /\ Name(m) # Other}}
    <3> HIDE DEF good, Good, named
    <3>1. QED
      BY <1>6, <2>2, <2>3
  <2>5. \A n \in DOMAIN items : named[n].url = Name(n)
    OBVIOUS
  <2> HIDE DEF good, named
  <2> DEFINE D == {m \in DOMAIN items : items[m].content /\ Name(m) # Other}
  <2>6. \A n \in D : named[n].url = Name(n)
    BY <2>5
  <2>7. ToSet(good) = {named[n] : n \in D}
    BY <2>4
  <2> HIDE DEF D
  <2>8. {x.url : x \in ToSet(good)} = {Name(n) : n \in D}
    BY <2>6, <2>7
  <2>9. QED
    BY <2>1, <2>8 DEF D
<1>8. \A n \in DOMAIN good : good[n].url \in Urls
  <2>1. \A n \in DOMAIN good : good[n] \in Good
    <3>1. \A n \in DOMAIN good : good[n] \in ToSet(good)
      BY DEF ToSet
    <3> HIDE DEF good, Good, named
    <3>2. QED
      BY <1>6, <3>1
  <2> HIDE DEF good
  <2>2. QED
    BY <2>1
<1>9. ResultsIn(i, items) = [n \in DOMAIN good |->
         [url |-> good[n].url, owner |-> i, providers |-> {i}, size |-> WholeSize(i)]]
  BY DEF ResultsIn, WholeSize, B, Name
<1>10. i \in Nat /\ WholeSize(i) \in Nat
  <2>1. i \in 1..Len(execs) /\ Len(execs) \in Nat
    BY ExecutionFacts DEF ExecutionsTypeOK
  <2>2. QED
    BY <2>1, ProviderFacts DEF ProvidersOK
<1>11. DOMAIN good = 1..Len(good) /\ Len(good) \in Nat
  <2> HIDE DEF good, Named, Good, named
  <2>1. QED
    BY <1>6
<1>12. Found(i, items) = {Name(n) : n \in {m \in DOMAIN items : items[m].content /\ Name(m) # Other}}
  BY DEF Found, B, Name
<1>13. FailuresIn(i, items, failed) \subseteq Urls \cup {Other}
  <2>1. FailuresIn(i, items, failed)
          = failed \cup {Name(n) : n \in {m \in DOMAIN items : ~items[m].content \/ Name(m) = Other}}
    BY DEF FailuresIn, B, Name
  <2>2. failed \subseteq Urls
    BY <1>1 DEF B
  <2>3. QED
    BY <1>1, <1>4, <2>1, <2>2
<1>14. Found(i, items) \subseteq ToSet(B)
  BY <1>4, <1>12
<1> HIDE DEF good, named
<1>15. ResultsIn(i, items) \in Seq(Results)
  <2>1. \A n \in DOMAIN good :
          [url |-> good[n].url, owner |-> i, providers |-> {i}, size |-> WholeSize(i)] \in Results
    BY <1>8, <1>10 DEF Results
  <2>2. ResultsIn(i, items) \in [1..Len(good) -> Results]
    BY <1>9, <1>11, <2>1
  <2>3. QED
    BY <1>11, <2>2
<1>16. \A n \in DOMAIN ResultsIn(i, items) :
         /\ ResultsIn(i, items)[n].owner = i /\ ResultsIn(i, items)[n].providers = {i}
         /\ ResultsIn(i, items)[n].size = WholeSize(i)
  BY <1>9
<1>17. {ResultsIn(i, items)[n].url : n \in DOMAIN ResultsIn(i, items)}
         = {good[n].url : n \in DOMAIN good}
  BY <1>9
<1>18. QED
  BY <1>7, <1>12, <1>13, <1>14, <1>15, <1>16, <1>17 DEF B

-----------------------------------------------------------------------------
(* The executions keep to their turns, their calls and their results. *)

Stays(j) ==
  Assigned(j)' = Assigned(j) /\ BatchSize(j)' = BatchSize(j) /\ Batches(j)' = Batches(j)

\* What a provider is asked for hangs on the results of those before it alone.
LEMMA SameAssigned ==
  ASSUME ask' = ask, NEW j,
         ask.mode = "fallback" => \A k \in 1..(j - 1) : Resolved(k)' = Resolved(k)
  PROVE  Stays(j)
<1>1. Assigned(j)' = Assigned(j)
  <2>1. CASE ask.mode # "fallback"
    BY <2>1 DEF Assigned
  <2>2. CASE ask.mode = "fallback"
    <3>1. {u \in Urls : \A k \in 1..(j - 1) : u \notin Resolved(k)'}
            = {u \in Urls : \A k \in 1..(j - 1) : u \notin Resolved(k)}
      BY <2>2
    <3>2. QED
      BY <2>2, <3>1 DEF Assigned, UnresolvedBefore
  <2>3. QED
    BY <2>1, <2>2
<1>2. BatchSize(j)' = BatchSize(j) /\ Batches(j)' = Batches(j)
  BY <1>1 DEF BatchSize, Batches
<1>3. QED
  BY <1>1, <1>2 DEF Stays

\* Nothing is brought where the results remain.
LEMMA SameRecorded ==
  ASSUME Recorded, Running' => Running, brought' = brought, DOMAIN execs' = DOMAIN execs,
         \A j \in DOMAIN execs : execs'[j].results = execs[j].results
  PROVE  Recorded'
<1>1. \A j \in DOMAIN execs : Resolved(j)' = Resolved(j)
  BY DEF Resolved
<1>2. QED
  BY <1>1 DEF Recorded

\* A step of one execution that has its turn disturbs no other.
LEMMA MoveKeeps ==
  ASSUME VarsOK, ExecutionsOK, TimeOK, Running,
         NEW i \in DOMAIN execs, NEW e \in Executions, e.step # "unasked", e.left <= budget,
         execs[i].step # "settled", execs[i].step = "unasked" => Turn(i),
         execs' = [execs EXCEPT ![i] = e],
         UNCHANGED <<at, ask, lookups, budget, response>>
  PROVE  /\ VarsOK' /\ TimeOK' /\ InTurn'
         /\ DOMAIN execs' = DOMAIN execs /\ execs'[i] = e
         /\ \A j \in DOMAIN execs : j # i => execs'[j] = execs[j]
         /\ \A j \in DOMAIN execs : (ask.mode = "fallback" => j <= i) => Stays(j)
         /\ \A j \in DOMAIN execs : j # i => CallsOK(j)' /\ BroughtOK(j)'
<1>1. /\ execs \in Seq(Executions) /\ DOMAIN execs = 1..Len(execs) /\ Len(execs) \in Nat
  BY ExecutionFacts DEF ExecutionsTypeOK, VarsOK
<1>2. /\ DOMAIN execs' = DOMAIN execs /\ execs'[i] = e
      /\ \A j \in DOMAIN execs : j # i => execs'[j] = execs[j]
  BY <1>1
<1>3. execs' \in Seq(Executions) /\ Len(execs') = Len(execs)
  BY <1>1
<1>4. VarsOK'
  BY <1>3 DEF VarsOK, Running
<1>5. TimeOK'
  BY <1>2 DEF TimeOK
<1>6. InTurn
  BY DEF ExecutionsOK
<1>7. /\ ask.mode = "fallback" => \A j \in 1..(i - 1) : execs[j].step = "settled"
      /\ ask.mode = "single" => i = 1
  <2>1. CASE execs[i].step = "unasked"
    BY <2>1 DEF Turn
  <2>2. CASE execs[i].step # "unasked"
    BY <1>6, <2>2 DEF InTurn
  <2>3. QED
    BY <2>1, <2>2
<1>8. ASSUME NEW j \in DOMAIN execs, ask.mode = "fallback", i < j
      PROVE  execs[j].step = "unasked"
  <2>1. i \in 1..(j - 1)
    BY <1>1, <1>8
  <2>2. QED
    BY <1>6, <1>8, <2>1 DEF InTurn
<1>9. InTurn'
  <2> SUFFICES ASSUME NEW j \in DOMAIN execs, execs'[j].step # "unasked"
               PROVE  /\ ask.mode = "fallback" => \A k \in 1..(j - 1) : execs'[k].step = "settled"
                      /\ ask.mode = "single" => j = 1
    BY <1>2 DEF InTurn
  <2>1. CASE j = i
    <3>1. \A k \in 1..(j - 1) : k \in DOMAIN execs /\ k # i
      BY <1>1, <2>1
    <3>2. QED
      BY <1>2, <1>7, <2>1, <3>1
  <2>2. CASE j # i
    <3>1. execs[j].step # "unasked"
      BY <1>2, <2>2
    <3>2. ask.mode = "single" => j = 1
      BY <1>6, <3>1 DEF InTurn
    <3>3. ASSUME ask.mode = "fallback", NEW k \in 1..(j - 1)
          PROVE  execs'[k].step = "settled"
      <4>1. j < i /\ k \in DOMAIN execs /\ k # i
        BY <1>1, <1>8, <2>2, <3>1, <3>3
      <4>2. execs[k].step = "settled"
        BY <1>6, <3>1, <3>3 DEF InTurn
      <4>3. QED
        BY <1>2, <4>1, <4>2
    <3>4. QED
      BY <3>2, <3>3
  <2>3. QED
    BY <2>1, <2>2
<1>10. ASSUME NEW j \in DOMAIN execs, ask.mode = "fallback" => j <= i
       PROVE  Stays(j)
  <2>1. ask.mode = "fallback" => \A k \in 1..(j - 1) : Resolved(k)' = Resolved(k)
    <3> SUFFICES ASSUME ask.mode = "fallback", NEW k \in 1..(j - 1)
                 PROVE  Resolved(k)' = Resolved(k)
      OBVIOUS
    <3>1. k \in DOMAIN execs /\ k # i
      BY <1>1, <1>10
    <3>2. QED
      BY <1>2, <3>1 DEF Resolved
  <2>2. QED
    BY <2>1, SameAssigned
<1>11. ASSUME NEW j \in DOMAIN execs, j # i PROVE CallsOK(j)' /\ BroughtOK(j)'
  <2>1. execs'[j] = execs[j] /\ CallsOK(j) /\ BroughtOK(j)
    BY <1>2, <1>11 DEF ExecutionsOK
  <2>2. Resolved(j)' = Resolved(j) /\ Retries(j)' = Retries(j) /\ WholeSize(j)' = WholeSize(j)
    BY <2>1 DEF Resolved, Retries, WholeSize
  <2>3. CASE ask.mode = "fallback" /\ i < j
    <3>1. execs[j].step = "unasked" /\ execs[j] = Unasked
      BY <1>8, <2>1, <2>3 DEF CallsOK
    <3>2. CallsOK(j)'
      BY <2>1, <3>1 DEF CallsOK
    <3>3. execs[j].results = <<>>
      BY <3>1 DEF Unasked
    <3>4. Resolved(j) = {}
      BY <3>3 DEF Resolved
    <3>5. BroughtOK(j)'
      BY <2>1, <2>2, <3>1, <3>3, <3>4 DEF BroughtOK
    <3>6. QED
      BY <3>2, <3>5
  <2>4. CASE ask.mode = "fallback" => j <= i
    <3>1. Stays(j)
      BY <1>10, <2>4
    <3>2. CallsOK(j)'
      BY <2>1, <2>2, <3>1 DEF CallsOK, CallsBefore, Stays
    <3>3. Passed(j)' = Passed(j)
      BY <2>1, <3>1 DEF Passed, PassedBy, Stays
    <3>4. BroughtOK(j)'
      BY <2>1, <2>2, <3>1, <3>3 DEF BroughtOK, Stays
    <3>5. QED
      BY <3>2, <3>4
  <2>5. QED
    BY <1>1, <2>3, <2>4
<1>12. QED
  BY <1>2, <1>4, <1>5, <1>9, <1>10, <1>11

\* Whoever is due or calling has a batch to call for, and the turn.
LEMMA CallFacts ==
  ASSUME VarsOK, ExecutionsOK, NEW i \in DOMAIN execs, Due(i) \/ Calling(i)
  PROVE  /\ execs[i].batch \in 1..Batches(i)
         /\ execs[i].step # "settled" /\ (execs[i].step = "unasked" => Turn(i))
         /\ execs[i].step = "unasked" => execs[i] = Unasked
<1>1. /\ CallsOK(i) /\ execs[i].batch \in Nat \ {0}
      /\ execs[i].step \in {"unasked", "due", "calling"}
      /\ execs[i].step = "unasked" => Turn(i)
  BY ExecutionFacts DEF ExecutionsTypeOK, ExecutionsOK, Due, Calling
<1>2. Batches(i) \in Nat /\ (Assigned(i) # <<>> => Batches(i) >= 1)
  BY BatchesFacts, AssignedFacts DEF BatchesOK, AssignedOK
<1>3. CASE execs[i].step = "unasked"
  <2>1. execs[i] = Unasked /\ execs[i].batch = 1
    BY <1>1, <1>3 DEF CallsOK, Unasked
  <2>2. Assigned(i) # <<>>
    <3>1. Turn(i) /\ ask.urls # <<>> /\ ask.mode \in {"parallel", "fallback", "single"}
      <4>1. at # "idle"
        BY DEF VarsOK
      <4>2. QED
        BY <1>1, <1>3, <4>1, ExtractAssumption DEF VarsOK, Requests
    <3>2. QED
      BY <3>1 DEF Turn, Assigned
  <2>3. QED
    BY <1>1, <1>2, <1>3, <2>1, <2>2
<1>4. CASE execs[i].step # "unasked"
  BY <1>1, <1>2, <1>4 DEF CallsOK
<1>5. QED
  BY <1>3, <1>4

\* What whoever is due or calling has behind it.
LEMMA AttemptFacts ==
  ASSUME VarsOK, ExecutionsOK, NEW i \in DOMAIN execs, Due(i) \/ Calling(i)
  PROVE  /\ CallsBefore(i) \in Nat /\ Retries(i) \in Nat
         /\ execs[i].attempt \in Nat /\ Len(execs[i].attempts) \in Nat
         /\ Resolved(i) \subseteq Passed(i)
         /\ Due(i) => /\ execs[i].attempt <= Retries(i)
                      /\ Len(execs[i].attempts) <= CallsBefore(i) + execs[i].attempt
         /\ Calling(i) => /\ execs[i].attempt \in 1..(Retries(i) + 1)
                          /\ Len(execs[i].attempts) < CallsBefore(i) + execs[i].attempt
<1>1. /\ execs[i].batch \in Nat \ {0} /\ execs[i].attempt \in Nat
      /\ execs[i].attempts \in Seq({"success", "failed", "retried"}) /\ Retries(i) \in Nat
  BY ExecutionFacts, ProviderFacts DEF ExecutionsTypeOK, ProvidersOK
<1>2. CallsBefore(i) \in Nat
  BY <1>1 DEF CallsBefore
<1>3. CallsOK(i) /\ BroughtOK(i)
  BY DEF ExecutionsOK
<1>4. CASE execs[i].step = "unasked"
  <2>1. /\ execs[i].attempt = 0 /\ execs[i].batch = 1 /\ Len(execs[i].attempts) = 0
        /\ execs[i].results = <<>> /\ ~Calling(i)
    BY <1>3, <1>4 DEF CallsOK, Unasked, Calling
  <2>2. Resolved(i) = {}
    BY <2>1 DEF Resolved
  <2>3. QED
    BY <1>1, <1>2, <2>1, <2>2
<1>5. CASE execs[i].step = "due"
  BY <1>1, <1>2, <1>3, <1>5 DEF CallsOK, BroughtOK, Calling
<1>6. CASE execs[i].step = "calling"
  BY <1>1, <1>2, <1>3, <1>6 DEF CallsOK, BroughtOK, Due
<1>7. QED
  BY <1>4, <1>5, <1>6 DEF Due, Calling

ExtractInv == VarsOK /\ ExecutionsOK /\ TimeOK

Called(d, time) == [d EXCEPT !.step = "calling", !.attempt = @ + 1, !.left = time]

\* An execution of which a call has begun is one still.
LEMMA CalledFacts ==
  ASSUME NEW d \in Executions, NEW time \in Nat
  PROVE  LET e == Called(d, time) IN
         /\ e \in Executions /\ e.step = "calling" /\ e.attempt = d.attempt + 1
         /\ e.left = time /\ e.batch = d.batch
         /\ e.results = d.results /\ e.attempts = d.attempts
<1> DEFINE e == Called(d, time)
<1>1. d = [step |-> d.step, batch |-> d.batch, attempt |-> d.attempt, left |-> d.left,
           results |-> d.results, failures |-> d.failures, error |-> d.error,
           attempts |-> d.attempts]
  BY DEF Executions
<1>2. e = [d EXCEPT !.step = "calling", !.attempt = @ + 1, !.left = time]
  BY DEF Called
<1> HIDE DEF e
<1>3. e = [step |-> "calling", batch |-> d.batch, attempt |-> d.attempt + 1, left |-> time,
           results |-> d.results, failures |-> d.failures, error |-> d.error,
           attempts |-> d.attempts]
  BY <1>1, <1>2
<1>4. /\ d.batch \in Nat \ {0} /\ d.attempt \in Nat /\ d.results \in Seq(Results)
      /\ d.failures \in SUBSET (Urls \cup {Other}) /\ d.error \in BOOLEAN
      /\ d.attempts \in Seq({"success", "failed", "retried"})
  BY DEF Executions
<1>5. e \in Executions
  BY <1>3, <1>4 DEF Executions
<1>6. QED
  BY <1>3, <1>5 DEF e

\* Beginning a call spends an attempt.
LEMMA BeginCallKeeps ==
  ASSUME ExtractInv, NEW i \in DOMAIN execs, BeginCall(i)
  PROVE  ExtractInv'
<1> DEFINE d == execs[i]
           e == Called(d, CallTime(ask.providers[i]))
<1>1. VarsOK /\ ExecutionsOK /\ TimeOK /\ Running /\ Due(i)
  BY DEF ExtractInv, BeginCall
<1>2. /\ d \in Executions /\ d.batch \in Nat \ {0} /\ d.attempt \in Nat
      /\ d.attempts \in Seq({"success", "failed", "retried"})
  BY <1>1, ExecutionFacts DEF ExecutionsTypeOK
<1>3. CallTime(ask.providers[i]) \in 0..budget
  <2>1. TimeLimit(ask, ask.providers[i]) \in Nat /\ budget \in Nat
    BY <1>1, ProviderFacts DEF ProvidersOK, VarsOK
  <2>2. QED
    BY <2>1 DEF CallTime, Smaller
<1>4. /\ e \in Executions /\ e.step = "calling" /\ e.attempt = d.attempt + 1
      /\ e.left = CallTime(ask.providers[i]) /\ e.batch = d.batch
      /\ e.results = d.results /\ e.attempts = d.attempts
  <2>1. CallTime(ask.providers[i]) \in Nat
    BY <1>1, <1>3 DEF VarsOK
  <2>2. QED
    BY <1>2, <2>1, CalledFacts
<1>5. execs' = [execs EXCEPT ![i] = e] /\ UNCHANGED <<at, ask, lookups, budget, brought, response>>
  BY DEF BeginCall, Called
<1>6. /\ d.batch \in 1..Batches(i)
      /\ d.step # "settled" /\ (d.step = "unasked" => Turn(i) /\ d = Unasked)
  BY <1>1, CallFacts
<1> HIDE DEF e
<1>7. /\ VarsOK' /\ TimeOK' /\ InTurn'
      /\ DOMAIN execs' = DOMAIN execs /\ execs'[i] = e
      /\ \A j \in DOMAIN execs : j # i => execs'[j] = execs[j]
      /\ \A j \in DOMAIN execs : (ask.mode = "fallback" => j <= i) => Stays(j)
      /\ \A j \in DOMAIN execs : j # i => CallsOK(j)' /\ BroughtOK(j)'
  <2>1. e.step # "unasked" /\ e.left <= budget
    BY <1>1, <1>3, <1>4 DEF VarsOK
  <2>2. UNCHANGED <<at, ask, lookups, budget, response>>
    BY <1>5
  <2> HIDE DEF d
  <2>3. execs[i].step # "settled" /\ (execs[i].step = "unasked" => Turn(i))
    BY <1>6 DEF d
  <2>4. QED
    BY <1>1, <1>4, <1>5, <2>1, <2>2, <2>3, MoveKeeps
<1>8. Stays(i)
  <2>1. i \in Nat
    BY <1>1, ExecutionFacts DEF ExecutionsTypeOK
  <2>2. QED
    BY <1>7, <2>1
<1>9. CallsOK(i) /\ BroughtOK(i) /\ Retries(i) \in Nat
  BY <1>1, ProviderFacts DEF ExecutionsOK, ProvidersOK
<1>10. Retries(i)' = Retries(i) /\ WholeSize(i)' = WholeSize(i)
  BY <1>5 DEF Retries, WholeSize
<1>11. /\ d.attempt <= Retries(i) /\ Len(d.attempts) <= CallsBefore(i) + d.attempt
       /\ CallsBefore(i) \in Nat /\ Resolved(i) \subseteq Passed(i)
  BY <1>1, AttemptFacts
<1>12. CallsOK(i)'
  <2>1. Len(d.attempts) < CallsBefore(i) + (d.attempt + 1) /\ d.attempt + 1 \in 1..(Retries(i) + 1)
    BY <1>2, <1>9, <1>11
  <2>2. Batches(i)' = Batches(i) /\ d.batch <= Batches(i)
    BY <1>6, <1>8 DEF Stays
  <2>3. CallsBefore(i)' = CallsBefore(i)
    BY <1>4, <1>7, <1>10 DEF CallsBefore
  <2> HIDE DEF d
  <2>4. QED
    BY <1>4, <1>7, <1>10, <2>1, <2>2, <2>3 DEF CallsOK
<1>13. Resolved(i)' = Resolved(i)
  BY <1>4, <1>7 DEF Resolved
<1>14. BroughtOK(i)'
  <2>1. Passed(i)' = Passed(i)
    BY <1>4, <1>7, <1>8 DEF Passed, PassedBy, Stays
  <2>2. QED
    BY <1>4, <1>7, <1>8, <1>9, <1>10, <1>11, <1>13, <2>1 DEF BroughtOK, Stays
<1>15. Recorded'
  <2>1. Running /\ \A j \in DOMAIN execs : execs'[j].results = execs[j].results
    BY <1>1, <1>4, <1>7
  <2>2. QED
    BY <1>1, <1>5, <1>7, <2>1, SameRecorded DEF ExecutionsOK
<1>16. QED
  BY <1>7, <1>12, <1>14, <1>15 DEF ExtractInv, ExecutionsOK

\* An execution that has failed is one still.
LEMMA FailedFacts ==
  ASSUME NEW d \in Executions
  PROVE  LET e == FailedWith(d, "failed") IN
         /\ e \in Executions /\ e.step = "settled" /\ e.attempt = 0 /\ e.left = 0
         /\ e.batch = d.batch /\ e.results = d.results
         /\ Len(e.attempts) = Len(d.attempts) + 1
<1> DEFINE e == FailedWith(d, "failed")
<1>1. d = [step |-> d.step, batch |-> d.batch, attempt |-> d.attempt, left |-> d.left,
           results |-> d.results, failures |-> d.failures, error |-> d.error,
           attempts |-> d.attempts]
  BY DEF Executions
<1>2. e = [d EXCEPT !.step = "settled", !.attempt = 0, !.left = 0, !.error = TRUE,
                    !.attempts = Append(@, "failed")]
  BY DEF FailedWith
<1> HIDE DEF e
<1>3. e = [step |-> "settled", batch |-> d.batch, attempt |-> 0, left |-> 0,
           results |-> d.results, failures |-> d.failures, error |-> TRUE,
           attempts |-> Append(d.attempts, "failed")]
  BY <1>1, <1>2
<1>4. /\ d.batch \in Nat \ {0} /\ d.results \in Seq(Results)
      /\ d.failures \in SUBSET (Urls \cup {Other})
      /\ d.attempts \in Seq({"success", "failed", "retried"})
  BY DEF Executions
<1>5. /\ Append(d.attempts, "failed") \in Seq({"success", "failed", "retried"})
      /\ Len(Append(d.attempts, "failed")) = Len(d.attempts) + 1
  BY <1>4
<1>6. e \in Executions
  BY <1>3, <1>4, <1>5 DEF Executions
<1>7. QED
  BY <1>3, <1>5, <1>6 DEF e

\* An execution that calls again is one still.
LEMMA RepeatedFacts ==
  ASSUME NEW d \in Executions
  PROVE  LET e == Repeated(d) IN
         /\ e \in Executions /\ e.step = "due" /\ e.attempt = d.attempt /\ e.left = 0
         /\ e.batch = d.batch /\ e.results = d.results
         /\ Len(e.attempts) = Len(d.attempts) + 1
         /\ "retried" \in ToSet(e.attempts)
<1> DEFINE e == Repeated(d)
<1>1. d = [step |-> d.step, batch |-> d.batch, attempt |-> d.attempt, left |-> d.left,
           results |-> d.results, failures |-> d.failures, error |-> d.error,
           attempts |-> d.attempts]
  BY DEF Executions
<1>2. e = [d EXCEPT !.step = "due", !.left = 0, !.attempts = Append(@, "retried")]
  BY DEF Repeated
<1> HIDE DEF e
<1>3. e = [step |-> "due", batch |-> d.batch, attempt |-> d.attempt, left |-> 0,
           results |-> d.results, failures |-> d.failures, error |-> d.error,
           attempts |-> Append(d.attempts, "retried")]
  BY <1>1, <1>2
<1>4. /\ d.batch \in Nat \ {0} /\ d.attempt \in Nat /\ d.results \in Seq(Results)
      /\ d.failures \in SUBSET (Urls \cup {Other}) /\ d.error \in BOOLEAN
      /\ d.attempts \in Seq({"success", "failed", "retried"})
  BY DEF Executions
<1>5. /\ Append(d.attempts, "retried") \in Seq({"success", "failed", "retried"})
      /\ Len(Append(d.attempts, "retried")) = Len(d.attempts) + 1
      /\ Append(d.attempts, "retried")[Len(d.attempts) + 1] = "retried"
  BY <1>4
<1>6. e \in Executions
  BY <1>3, <1>4, <1>5 DEF Executions
<1>7. "retried" \in ToSet(e.attempts)
  <2>1. Len(d.attempts) + 1 \in DOMAIN Append(d.attempts, "retried")
    BY <1>4
  <2>2. QED
    BY <1>3, <1>5, <2>1 DEF ToSet
<1>8. QED
  BY <1>3, <1>5, <1>6, <1>7 DEF e

\* A step after which the results of an execution are as before keeps everything, if
\* the execution has made no more calls than it may.
LEMMA BringsNothing ==
  ASSUME ExtractInv, Running, NEW i \in DOMAIN execs, Due(i) \/ Calling(i),
         NEW e \in Executions, e.step # "unasked", e.left = 0,
         e.results = execs[i].results, e.batch = execs[i].batch,
         Len(e.attempts) \in Nat, e.attempt \in Nat,
         e.step \in {"due", "settled"},
         e.step = "due" => e.attempt <= Retries(i) /\ Len(e.attempts) <= CallsBefore(i) + e.attempt,
         e.step = "settled" => e.attempt = 0 /\ Len(e.attempts) <= CallsBefore(i) + Retries(i) + 1,
         execs' = [execs EXCEPT ![i] = e],
         UNCHANGED <<at, ask, lookups, budget, brought, response>>
  PROVE  ExtractInv'
<1>1. VarsOK /\ ExecutionsOK /\ TimeOK
  BY DEF ExtractInv
<1>2. /\ execs[i].batch \in 1..Batches(i)
      /\ execs[i].step # "settled" /\ (execs[i].step = "unasked" => Turn(i))
  BY <1>1, CallFacts
<1>3. /\ VarsOK' /\ TimeOK' /\ InTurn'
      /\ DOMAIN execs' = DOMAIN execs /\ execs'[i] = e
      /\ \A j \in DOMAIN execs : j # i => execs'[j] = execs[j]
      /\ \A j \in DOMAIN execs : (ask.mode = "fallback" => j <= i) => Stays(j)
      /\ \A j \in DOMAIN execs : j # i => CallsOK(j)' /\ BroughtOK(j)'
  <2>1. e.left <= budget
    BY <1>1 DEF VarsOK
  <2>2. UNCHANGED <<at, ask, lookups, budget, response>>
    OBVIOUS
  <2>3. QED
    BY <1>1, <1>2, <2>1, <2>2, MoveKeeps
<1>4. Stays(i)
  <2>1. i \in Nat
    BY <1>1, ExecutionFacts DEF ExecutionsTypeOK
  <2>2. QED
    BY <1>3, <2>1
<1>5. /\ Retries(i)' = Retries(i) /\ WholeSize(i)' = WholeSize(i)
      /\ CallsBefore(i)' = CallsBefore(i) /\ Resolved(i)' = Resolved(i)
      /\ Passed(i)' = Passed(i)
  BY <1>3, <1>4 DEF Retries, WholeSize, CallsBefore, Resolved, Passed, PassedBy, Stays
<1>6. CallsOK(i)'
  <2>1. Batches(i)' = Batches(i) /\ e.batch <= Batches(i)
    BY <1>2, <1>4 DEF Stays
  <2>2. QED
    BY <1>3, <1>5, <2>1 DEF CallsOK
<1>7. BroughtOK(i)'
  <2>1. BroughtOK(i) /\ Resolved(i) \subseteq Passed(i)
    BY <1>1, AttemptFacts DEF ExecutionsOK
  <2>2. QED
    BY <1>3, <1>4, <1>5, <2>1 DEF BroughtOK, Stays
<1>8. Recorded'
  <2>1. \A j \in DOMAIN execs : execs'[j].results = execs[j].results
    BY <1>3
  <2>2. QED
    BY <1>1, <1>3, <2>1, SameRecorded DEF ExecutionsOK
<1>9. QED
  BY <1>3, <1>6, <1>7, <1>8 DEF ExtractInv, ExecutionsOK

\* A failure keeps what was brought.
LEMMA FailureKeeps ==
  ASSUME ExtractInv, Running, NEW i \in DOMAIN execs, Due(i) \/ Calling(i),
         execs' = [execs EXCEPT ![i] = FailedWith(@, "failed")],
         UNCHANGED <<at, ask, lookups, budget, brought, response>>
  PROVE  ExtractInv'
<1> DEFINE d == execs[i]
           e == FailedWith(d, "failed")
<1>1. VarsOK /\ ExecutionsOK
  BY DEF ExtractInv
<1>2. d \in Executions
  BY <1>1, ExecutionFacts DEF ExecutionsTypeOK
<1>3. /\ e \in Executions /\ e.step = "settled" /\ e.attempt = 0 /\ e.left = 0
      /\ e.batch = d.batch /\ e.results = d.results
      /\ Len(e.attempts) = Len(d.attempts) + 1
  BY <1>2, FailedFacts
<1>4. execs' = [execs EXCEPT ![i] = e]
  OBVIOUS
<1> HIDE DEF e
<1>5. /\ Len(e.attempts) \in Nat /\ Len(e.attempts) <= CallsBefore(i) + Retries(i) + 1
  BY <1>1, <1>3, AttemptFacts
<1> HIDE DEF d
<1>6. /\ e.results = execs[i].results /\ e.batch = execs[i].batch
      /\ e.step # "unasked" /\ e.step # "due" /\ e.attempt \in Nat
  BY <1>3 DEF d
<1>7. QED
  BY <1>3, <1>4, <1>5, <1>6, BringsNothing

\* A repetition keeps what was brought, and is one of those allowed.
LEMMA RepetitionKeeps ==
  ASSUME ExtractInv, Running, NEW i \in DOMAIN execs, Calling(i), MayRetry(i),
         execs' = [execs EXCEPT ![i] = Repeated(@)],
         UNCHANGED <<at, ask, lookups, budget, brought, response>>
  PROVE  ExtractInv'
<1> DEFINE d == execs[i]
           e == Repeated(d)
<1>1. VarsOK /\ ExecutionsOK
  BY DEF ExtractInv
<1>2. d \in Executions
  BY <1>1, ExecutionFacts DEF ExecutionsTypeOK
<1>3. /\ e \in Executions /\ e.step = "due" /\ e.attempt = d.attempt /\ e.left = 0
      /\ e.batch = d.batch /\ e.results = d.results
      /\ Len(e.attempts) = Len(d.attempts) + 1
  BY <1>2, RepeatedFacts
<1>4. execs' = [execs EXCEPT ![i] = e]
  OBVIOUS
<1> HIDE DEF e
<1>5. /\ Len(e.attempts) \in Nat /\ e.attempt \in Nat
      /\ e.attempt <= Retries(i) /\ Len(e.attempts) <= CallsBefore(i) + e.attempt
  BY <1>1, <1>3, AttemptFacts DEF MayRetry, Retries
<1> HIDE DEF d
<1>6. /\ e.results = execs[i].results /\ e.batch = execs[i].batch
      /\ e.step # "unasked" /\ e.step # "settled"
  BY <1>3 DEF d
<1>7. QED
  BY <1>3, <1>4, <1>5, <1>6, BringsNothing

\* What is found by an answer is added to what was found, and nothing else changes.
LEMMA AnswerKeeps ==
  ASSUME ExtractInv, NEW i \in DOMAIN execs, NEW items \in ItemsFor(i),
         NEW failed \in SUBSET ToSet(Batch(i)), AnswerCall(i, items, failed)
  PROVE  ExtractInv'
<1> DEFINE d == execs[i]
           found == ResultsIn(i, items)
           more == d.batch < Batches(i)
           e == [step |-> IF more THEN "due" ELSE "settled",
                 batch |-> IF more THEN d.batch + 1 ELSE d.batch,
                 attempt |-> 0, left |-> 0, error |-> FALSE,
                 results |-> d.results \o found,
                 failures |-> d.failures \cup FailuresIn(i, items, failed),
                 attempts |-> Append(d.attempts, "success")]
<1>1. VarsOK /\ ExecutionsOK /\ TimeOK /\ Running /\ Calling(i)
  BY DEF ExtractInv, AnswerCall
<1>2. /\ d.batch \in Nat \ {0} /\ d.results \in Seq(Results)
      /\ d.failures \in SUBSET (Urls \cup {Other})
      /\ d.attempts \in Seq({"success", "failed", "retried"})
  <2>1. d \in Executions
    BY <1>1, ExecutionFacts DEF ExecutionsTypeOK
  <2>2. QED
    BY <2>1 DEF Executions
<1>3. /\ d.batch \in 1..Batches(i) /\ Batches(i) \in Nat
      /\ d.step # "settled" /\ (d.step = "unasked" => Turn(i))
  BY <1>1, CallFacts, BatchesFacts, AssignedFacts DEF BatchesOK, AssignedOK
<1>4. /\ found \in Seq(Results)
      /\ \A n \in DOMAIN found : /\ found[n].owner = i /\ found[n].providers = {i}
                                 /\ found[n].size = WholeSize(i)
      /\ {found[n].url : n \in DOMAIN found} = Found(i, items)
      /\ Found(i, items) \subseteq ToSet(Batch(i))
      /\ FailuresIn(i, items, failed) \subseteq Urls \cup {Other}
  <2>1. d.batch <= Batches(i)
    BY <1>3
  <2>2. QED
    BY <1>1, <2>1, AnswerFacts
<1>5. /\ execs' = [execs EXCEPT ![i] = e]
      /\ brought' = brought \cup {<<i, u>> : u \in Found(i, items)}
      /\ UNCHANGED <<at, ask, lookups, budget, response>>
  <2>1. execs' = [execs EXCEPT ![i] = e]
    BY DEF AnswerCall
  <2>2. brought' = brought \cup {<<i, u>> : u \in Found(i, items)}
    BY DEF AnswerCall, Found
  <2>3. QED
    BY <2>1, <2>2 DEF AnswerCall
<1> HIDE DEF found
<1>6. /\ d.results \o found \in Seq(Results)
      /\ Append(d.attempts, "success") \in Seq({"success", "failed", "retried"})
      /\ Len(Append(d.attempts, "success")) = Len(d.attempts) + 1
  BY <1>2, <1>4
<1>7. /\ e \in Executions /\ e.step \in {"due", "settled"} /\ e.left = 0 /\ e.attempt = 0
      /\ e.results = d.results \o found
      /\ e.step = (IF more THEN "due" ELSE "settled")
      /\ e.batch = (IF more THEN d.batch + 1 ELSE d.batch)
      /\ e.attempts = Append(d.attempts, "success")
  <2>1. /\ (IF more THEN "due" ELSE "settled") \in {"due", "settled"}
        /\ (IF more THEN d.batch + 1 ELSE d.batch) \in Nat \ {0}
        /\ d.failures \cup FailuresIn(i, items, failed) \in SUBSET (Urls \cup {Other})
    BY <1>2, <1>4
  <2> HIDE DEF more
  <2>2. QED
    BY <1>6, <2>1 DEF Executions
<1> HIDE DEF e
<1>8. /\ VarsOK' /\ TimeOK' /\ InTurn'
      /\ DOMAIN execs' = DOMAIN execs /\ execs'[i] = e
      /\ \A j \in DOMAIN execs : j # i => execs'[j] = execs[j]
      /\ \A j \in DOMAIN execs : (ask.mode = "fallback" => j <= i) => Stays(j)
      /\ \A j \in DOMAIN execs : j # i => CallsOK(j)' /\ BroughtOK(j)'
  <2>1. e.step # "unasked" /\ e.left <= budget
    BY <1>1, <1>7 DEF VarsOK
  <2>2. execs[i].step # "settled" /\ (execs[i].step = "unasked" => Turn(i))
    BY <1>3
  <2> HIDE DEF d, more
  <2>3. QED
    BY <1>1, <1>5, <1>7, <2>1, <2>2, MoveKeeps
<1>9. Stays(i)
  <2>1. i \in Nat
    BY <1>1, ExecutionFacts DEF ExecutionsTypeOK
  <2>2. QED
    BY <1>8, <2>1
<1>10. Retries(i)' = Retries(i) /\ WholeSize(i)' = WholeSize(i)
  BY <1>5 DEF Retries, WholeSize
<1>11. /\ Retries(i) \in Nat /\ CallsBefore(i) \in Nat
       /\ d.attempt \in 1..(Retries(i) + 1) /\ Len(d.attempts) < CallsBefore(i) + d.attempt
       /\ Len(d.attempts) \in Nat /\ Resolved(i) \subseteq Passed(i)
  BY <1>1, AttemptFacts
<1>12. CallsOK(i)'
  <2>1. Len(e.attempts) <= CallsBefore(i) + Retries(i) + 1
    BY <1>6, <1>7, <1>11
  <2>2. Batches(i)' = Batches(i) /\ e.batch <= Batches(i) /\ e.batch \in Nat \ {0}
    BY <1>2, <1>3, <1>7, <1>9 DEF Stays
  <2>3. CASE more
    <3>1. CallsBefore(i)' = CallsBefore(i) + Retries(i) + 1
      <4>1. CallsBefore(i)' = d.batch * (Retries(i) + 1)
        BY <1>2, <1>7, <1>8, <1>10, <2>3 DEF CallsBefore
      <4>2. d.batch * (Retries(i) + 1) = (d.batch - 1) * (Retries(i) + 1) + Retries(i) + 1
        <5>1. ASSUME NEW m \in Nat \ {0}, NEW n \in Nat
              PROVE  m * (n + 1) = (m - 1) * (n + 1) + n + 1
          OBVIOUS
        <5>2. QED
          BY <1>2, <1>11, <5>1
      <4>3. QED
        BY <4>1, <4>2 DEF CallsBefore
    <3>2. e.step = "due" /\ Len(e.attempts) <= CallsBefore(i)' + e.attempt /\ e.attempt <= Retries(i)
      BY <1>7, <1>11, <2>1, <2>3, <3>1
    <3>3. QED
      BY <1>7, <1>8, <1>10, <2>2, <3>2 DEF CallsOK
  <2>4. CASE ~more
    <3>1. CallsBefore(i)' = CallsBefore(i)
      BY <1>7, <1>8, <1>10, <2>4 DEF CallsBefore
    <3>2. e.step = "settled"
      BY <1>7, <2>4
    <3>3. QED
      BY <1>7, <1>8, <1>10, <2>1, <2>2, <3>1, <3>2 DEF CallsOK
  <2>5. QED
    BY <2>3, <2>4
<1>13. Resolved(i)' = Resolved(i) \cup Found(i, items)
  <2> DEFINE all == d.results \o found
  <2>1. /\ \A n \in DOMAIN d.results : n \in DOMAIN all /\ all[n] = d.results[n]
        /\ \A n \in DOMAIN found :
             Len(d.results) + n \in DOMAIN all /\ all[Len(d.results) + n] = found[n]
        /\ \A n \in DOMAIN all : n \in DOMAIN d.results
             \/ (n - Len(d.results) \in DOMAIN found
                 /\ n = Len(d.results) + (n - Len(d.results)))
    BY <1>2, <1>4, JoinedElements
  <2>2. Resolved(i)' = {all[n].url : n \in DOMAIN all}
    BY <1>7, <1>8 DEF Resolved
  <2> HIDE DEF all
  <2>3. \A n \in DOMAIN all :
          \/ \E m \in DOMAIN d.results : all[n].url = d.results[m].url
          \/ \E m \in DOMAIN found : all[n].url = found[m].url
    BY <2>1
  <2>4. \A m \in DOMAIN d.results : \E n \in DOMAIN all : all[n].url = d.results[m].url
    BY <2>1
  <2>5. \A m \in DOMAIN found : \E n \in DOMAIN all : all[n].url = found[m].url
    BY <2>1
  <2>6. {all[n].url : n \in DOMAIN all}
          = {d.results[m].url : m \in DOMAIN d.results} \cup {found[m].url : m \in DOMAIN found}
    BY <2>3, <2>4, <2>5
  <2>7. QED
    BY <1>4, <2>2, <2>6 DEF Resolved
<1>14. BroughtOK(i)'
  <2>1. BroughtOK(i)
    BY <1>1 DEF ExecutionsOK
  <2>2. /\ Passed(i) \cup ToSet(Batch(i)) = PassedBy(i, d.batch)
        /\ PassedBy(i, d.batch) \subseteq ToSet(Assigned(i))
    BY <1>1, <1>3, BatchFacts DEF BatchOK
  <2>3. Resolved(i)' \subseteq PassedBy(i, d.batch) /\ Resolved(i)' \subseteq ToSet(Assigned(i)')
    BY <1>4, <1>9, <1>11, <1>13, <2>2 DEF Stays
  <2>4. e.step = "due" => Passed(i)' = PassedBy(i, d.batch)
    <3> SUFFICES ASSUME e.step = "due" PROVE Passed(i)' = PassedBy(i, d.batch)
      OBVIOUS
    <3>1. e.batch = d.batch + 1 /\ e.batch - 1 = d.batch
      BY <1>2, <1>7
    <3>2. QED
      BY <1>8, <1>9, <3>1 DEF Passed, PassedBy, Stays
  <2>5. \A n \in DOMAIN e.results :
          /\ e.results[n].owner = i /\ e.results[n].providers = {i}
          /\ e.results[n].size = WholeSize(i)
    <3>1. \A n \in DOMAIN d.results :
            /\ d.results[n].owner = i /\ d.results[n].providers = {i}
            /\ d.results[n].size = WholeSize(i)
      BY <2>1 DEF BroughtOK
    <3>2. /\ \A n \in DOMAIN d.results : e.results[n] = d.results[n]
          /\ \A n \in DOMAIN found : e.results[Len(d.results) + n] = found[n]
          /\ \A n \in DOMAIN e.results : n \in DOMAIN d.results
               \/ (n - Len(d.results) \in DOMAIN found
                   /\ n = Len(d.results) + (n - Len(d.results)))
      <4> DEFINE all == d.results \o found
      <4>1. /\ \A n \in DOMAIN d.results : all[n] = d.results[n]
            /\ \A n \in DOMAIN found : all[Len(d.results) + n] = found[n]
            /\ \A n \in DOMAIN all : n \in DOMAIN d.results
                 \/ (n - Len(d.results) \in DOMAIN found
                     /\ n = Len(d.results) + (n - Len(d.results)))
        BY <1>2, <1>4, JoinedElements, SMTT(40)
      <4>2. e.results = all
        BY <1>7
      <4> HIDE DEF all
      <4>3. QED
        BY <4>1, <4>2
    <3>3. QED
      BY <1>4, <3>1, <3>2
  <2>6. QED
    <3>1. execs'[i] = e /\ WholeSize(i)' = WholeSize(i) /\ e.step # "calling"
      BY <1>7, <1>8, <1>10
    <3>2. e.step = "due" => Resolved(i)' \subseteq Passed(i)'
      BY <2>3, <2>4
    <3>3. QED
      BY <2>3, <2>5, <3>1, <3>2 DEF BroughtOK
<1>15. Recorded'
  <2>1. \A j \in DOMAIN execs : j # i => Resolved(j)' = Resolved(j)
    BY <1>8 DEF Resolved
  <2>2. Recorded /\ Running
    BY <1>1 DEF ExecutionsOK, AnswerCall
  <2>3. {<<i, u>> : u \in Found(i, items)} = {i} \X Found(i, items)
    OBVIOUS
  <2>4. UNION {{j} \X Resolved(j)' : j \in DOMAIN execs}
          = (UNION {{j} \X Resolved(j) : j \in DOMAIN execs}) \cup ({i} \X Found(i, items))
    <3>1. \A j \in DOMAIN execs :
            {j} \X Resolved(j)' = ({j} \X Resolved(j))
                                     \cup (IF j = i THEN {i} \X Found(i, items) ELSE {})
      BY <1>13, <2>1
    <3>2. QED
      BY <3>1
  <2>5. QED
    BY <1>5, <1>8, <2>2, <2>3, <2>4 DEF Recorded
<1>16. QED
  BY <1>8, <1>12, <1>14, <1>15 DEF ExtractInv, ExecutionsOK

-----------------------------------------------------------------------------
(* The time of a request. *)

\* The greatest of finitely many numbers is one of them.
LEMMA MaxFacts ==
  ASSUME NEW S \in SUBSET Int, IsFiniteSet(S), S # {}
  PROVE  Max(S) \in S /\ \A n \in S : n <= Max(S)
<1>1. \E m \in S : \A n \in S : n <= m
  BY GreatestExists
<1>2. Max(S) = CHOOSE m \in S : \A n \in S : m >= n
  BY DEF Max
<1>3. \E m \in S : \A n \in S : m >= n
  BY <1>1
<1>4. QED
  BY <1>2, <1>3

\* A sequence of numbers has a greatest, if nothing else then 0.
LEMMA MaxOfSequence ==
  ASSUME NEW s \in Seq(Nat)
  PROVE  /\ Max({0} \cup ToSet(s)) \in Nat
         /\ \A n \in DOMAIN s : s[n] <= Max({0} \cup ToSet(s))
<1> DEFINE S == {0} \cup ToSet(s)
<1>1. ToSet(s) = {s[n] : n \in DOMAIN s} /\ DOMAIN s = 1..Len(s) /\ Len(s) \in Nat
  BY DEF ToSet
<1>2. S \in SUBSET Int /\ S # {} /\ S \subseteq Nat
  BY <1>1
<1>3. IsFiniteSet(S)
  <2>1. IsFiniteSet(1..Len(s))
    BY <1>1, FS_Interval
  <2>2. IsFiniteSet(ToSet(s))
    <3>1. s \in Surjection(1..Len(s), ToSet(s))
      BY <1>1 DEF Surjection
    <3>2. QED
      BY <2>1, <3>1, FS_Surjection
  <2>3. QED
    BY <2>2, FS_Singleton, FS_Union
<1> HIDE DEF S
<1>4. Max(S) \in S /\ \A n \in S : n <= Max(S)
  BY <1>2, <1>3, MaxFacts
<1>5. \A n \in DOMAIN s : s[n] \in S
  BY <1>1 DEF S
<1>6. QED
  BY <1>2, <1>4, <1>5 DEF S

RequestBudgetOK ==
  /\ RequestBudget(ask) \in Nat /\ BudgetsOf \in Seq(Nat)
  /\ Len(BudgetsOf) = Len(ask.providers)
  /\ \A i \in DOMAIN ask.providers :
       /\ BudgetsOf[i] >= TimeLimit(ask, ask.providers[i]) * Waves(ask, ask.providers[i])
       /\ TimeLimit(ask, ask.providers[i]) \in Nat /\ Waves(ask, ask.providers[i]) \in Nat
       /\ ask.window = 0 /\ ask.mode = "parallel" => RequestBudget(ask) >= BudgetsOf[i]
       /\ ask.window = 0 /\ ask.mode = "single" /\ i = 1 => RequestBudget(ask) >= BudgetsOf[i]
  /\ ask.window = 0 /\ ask.mode = "fallback" => RequestBudget(ask) >= Total(BudgetsOf)

\* A request without a limit of its own has all the time its providers may take.
LEMMA RequestBudgetFacts == VarsOK /\ ask.mode # "none" => RequestBudgetOK
<1> SUFFICES ASSUME VarsOK, ask.mode # "none" PROVE RequestBudgetOK
  OBVIOUS
<1> DEFINE D == DOMAIN ask.providers
           limit(i) == TimeLimit(ask, ask.providers[i])
           waves(i) == Waves(ask, ask.providers[i])
<1>1. /\ ask.urls \in Seq(Urls) /\ ask.providers \in Seq(Enabled) /\ ask.window \in Nat
      /\ ask.mode \in {"parallel", "fallback", "single"}
  BY ExtractAssumption DEF VarsOK, Requests
<1>2. D = 1..Len(ask.providers) /\ Len(ask.providers) \in Nat
  BY <1>1
<1>3. Second \in Nat /\ RuntimeTimeout \in Nat /\ DefaultTimeout \in Nat
  BY ExtractAssumption
<1>4. ASSUME NEW i \in D PROVE limit(i) \in Nat /\ waves(i) \in Nat
  <2> DEFINE p == ask.providers[i]
  <2>1. p \in Extractors
    BY <1>1, ExtractAssumption
  <2>2. ProviderTimeout \in [Extractors -> Nat]
    BY ExtractAssumption
  <2> HIDE DEF p
  <2>3. TimeoutOf(ask, p) \in Nat
    BY <1>1, <1>3, <2>1, <2>2 DEF TimeoutOf, Larger
  <2>4. QED
    BY <1>1, <1>3, <2>3 DEF TimeLimit, Waves, p
<1>5. ASSUME NEW i \in D
      PROVE  /\ BudgetOf(ask, ask.providers[i]) \in Nat
             /\ BudgetOf(ask, ask.providers[i]) >= limit(i) * waves(i)
  <2>1. limit(i) * waves(i) \in Nat
    BY <1>4
  <2>2. BudgetOf(ask, ask.providers[i]) = limit(i) * waves(i) + Second
    BY DEF BudgetOf
  <2> HIDE DEF limit, waves
  <2>3. QED
    BY <1>3, <2>1, <2>2
<1>6. /\ BudgetsOf \in Seq(Nat) /\ Len(BudgetsOf) = Len(ask.providers) /\ DOMAIN BudgetsOf = D
      /\ \A i \in D : BudgetsOf[i] = BudgetOf(ask, ask.providers[i])
  <2>1. BudgetsOf = [i \in D |-> BudgetOf(ask, ask.providers[i])]
    BY DEF BudgetsOf
  <2>2. BudgetsOf \in [1..Len(ask.providers) -> Nat]
    BY <1>2, <1>5, <2>1
  <2>3. QED
    BY <1>2, <2>1, <2>2
<1> DEFINE required == CASE ask.mode = "single" -> IF BudgetsOf = <<>> THEN 0 ELSE BudgetsOf[1]
                         [] ask.mode = "parallel" -> Max({0} \cup ToSet(BudgetsOf))
                         [] ask.mode = "fallback" -> Total(BudgetsOf)
<1>7. RequestBudget(ask) = IF ask.window > 0 THEN ask.window + 2 * Second
                           ELSE Larger(RuntimeTimeout, required)
  BY DEF RequestBudget, BudgetsOf
<1>8. /\ Max({0} \cup ToSet(BudgetsOf)) \in Nat
      /\ \A i \in D : BudgetsOf[i] <= Max({0} \cup ToSet(BudgetsOf))
  BY <1>6, MaxOfSequence
<1>9. Total(BudgetsOf) \in Nat
  BY <1>6, SumsFacts
<1>10. /\ ask.mode = "single" => required = IF BudgetsOf = <<>> THEN 0 ELSE BudgetsOf[1]
       /\ ask.mode = "parallel" => required = Max({0} \cup ToSet(BudgetsOf))
       /\ ask.mode = "fallback" => required = Total(BudgetsOf)
  OBVIOUS
<1> HIDE DEF required, limit, waves
<1>11. required \in Nat
  BY <1>1, <1>6, <1>8, <1>9, <1>10
<1>12. RequestBudget(ask) \in Nat /\ (ask.window = 0 => RequestBudget(ask) >= required)
  BY <1>1, <1>3, <1>7, <1>11 DEF Larger
<1>13. ASSUME NEW i \in D, ask.window = 0
       PROVE  /\ ask.mode = "parallel" => RequestBudget(ask) >= BudgetsOf[i]
              /\ ask.mode = "single" /\ i = 1 => RequestBudget(ask) >= BudgetsOf[i]
  <2>1. BudgetsOf[i] \in Nat /\ BudgetsOf # <<>>
    BY <1>2, <1>6
  <2>2. CASE ask.mode = "parallel"
    <3>1. /\ BudgetsOf[i] <= Max({0} \cup ToSet(BudgetsOf))
          /\ Max({0} \cup ToSet(BudgetsOf)) = required
      BY <1>8, <1>10, <2>2
    <3>2. RequestBudget(ask) >= required
      BY <1>12, <1>13
    <3>3. QED
      BY <1>11, <1>12, <2>1, <2>2, <3>1, <3>2
  <2>3. CASE ask.mode = "single"
    BY <1>10, <1>11, <1>12, <1>13, <2>1, <2>3
  <2>4. QED
    BY <2>2, <2>3
<1>14. ask.window = 0 /\ ask.mode = "fallback" => RequestBudget(ask) >= Total(BudgetsOf)
  BY <1>10, <1>12
<1>15. QED
  BY <1>4, <1>5, <1>6, <1>12, <1>13, <1>14 DEF RequestBudgetOK, limit, waves

\* Time that passes or is taken from the calls changes nothing else.
LEMMA TimeKeeps ==
  ASSUME VarsOK, ExecutionsOK, NEW lefts \in [DOMAIN execs -> Nat],
         \A j \in DOMAIN execs : execs[j].step = "unasked" => lefts[j] = 0,
         execs' = [j \in DOMAIN execs |-> [execs[j] EXCEPT !.left = lefts[j]]],
         Running, UNCHANGED <<ask, brought>>
  PROVE  /\ ExecutionsOK' /\ execs' \in Seq(Executions) /\ Len(execs') = Len(execs)
         /\ DOMAIN execs' = DOMAIN execs
         /\ \A j \in DOMAIN execs :
              /\ Stays(j) /\ execs'[j].left = lefts[j] /\ execs'[j].step = execs[j].step
              /\ execs'[j].batch = execs[j].batch /\ execs'[j].attempts = execs[j].attempts
<1>1. DOMAIN execs = 1..Len(execs) /\ Len(execs) \in Nat
      /\ \A j \in DOMAIN execs : execs[j] \in Executions
  BY ExecutionFacts DEF ExecutionsTypeOK
<1>2. DOMAIN execs' = DOMAIN execs
  OBVIOUS
<1>3. ASSUME NEW j \in DOMAIN execs
      PROVE  /\ execs'[j] \in Executions
             /\ execs'[j].step = execs[j].step /\ execs'[j].batch = execs[j].batch
             /\ execs'[j].attempt = execs[j].attempt /\ execs'[j].left = lefts[j]
             /\ execs'[j].results = execs[j].results
             /\ execs'[j].attempts = execs[j].attempts
             /\ execs[j] = Unasked /\ lefts[j] = 0 => execs'[j] = Unasked
  <2> DEFINE d == execs[j]
             e == execs'[j]
  <2>1. d = [step |-> d.step, batch |-> d.batch, attempt |-> d.attempt, left |-> d.left,
             results |-> d.results, failures |-> d.failures, error |-> d.error,
             attempts |-> d.attempts]
    BY <1>1 DEF Executions
  <2>2. e = [d EXCEPT !.left = lefts[j]]
    OBVIOUS
  <2>3. d \in Executions /\ lefts[j] \in Nat
    BY <1>1
  <2> HIDE DEF d, e
  <2>4. e = [step |-> d.step, batch |-> d.batch, attempt |-> d.attempt, left |-> lefts[j],
             results |-> d.results, failures |-> d.failures, error |-> d.error,
             attempts |-> d.attempts]
    BY <2>1, <2>2
  <2>5. e \in Executions
    BY <2>3, <2>4 DEF Executions
  <2>6. d = Unasked /\ lefts[j] = 0 => e = Unasked
    BY <2>4 DEF Unasked
  <2>7. QED
    BY <2>4, <2>5, <2>6 DEF d, e
<1>4. execs' \in Seq(Executions) /\ Len(execs') = Len(execs)
  <2>1. execs' \in [1..Len(execs) -> Executions]
    BY <1>1, <1>2, <1>3
  <2>2. QED
    BY <1>1, <2>1
<1>5. \A j \in DOMAIN execs : Resolved(j)' = Resolved(j)
  BY <1>3 DEF Resolved
<1>6. ASSUME NEW j \in DOMAIN execs PROVE Stays(j)
  <2>1. \A k \in 1..(j - 1) : Resolved(k)' = Resolved(k)
    BY <1>1, <1>5
  <2>2. QED
    BY <2>1, SameAssigned
<1>7. InTurn'
  <2>1. InTurn
    BY DEF ExecutionsOK
  <2>2. \A j \in DOMAIN execs : \A k \in 1..(j - 1) : k \in DOMAIN execs
    BY <1>1
  <2>3. \A j \in DOMAIN execs : execs'[j].step = execs[j].step
    BY <1>3
  <2>4. QED
    BY <1>2, <2>1, <2>2, <2>3 DEF InTurn
<1>8. Recorded'
  <2>1. \A j \in DOMAIN execs : execs'[j].results = execs[j].results
    BY <1>3
  <2>2. QED
    BY <1>2, <2>1, SameRecorded DEF ExecutionsOK
<1>9. ASSUME NEW j \in DOMAIN execs PROVE CallsOK(j)' /\ BroughtOK(j)'
  <2>1. CallsOK(j) /\ BroughtOK(j)
    BY DEF ExecutionsOK
  <2>2. /\ Retries(j)' = Retries(j) /\ CallsBefore(j)' = CallsBefore(j)
        /\ WholeSize(j)' = WholeSize(j)
    BY <1>3 DEF Retries, CallsBefore, WholeSize
  <2>3. Passed(j)' = Passed(j)
    BY <1>3, <1>6 DEF Passed, PassedBy, Stays
  <2>4. CallsOK(j)'
    <3>1. execs[j].step = "unasked" => execs'[j] = Unasked
      BY <1>3, <2>1 DEF CallsOK
    <3>2. QED
      BY <1>3, <1>6, <2>1, <2>2, <3>1 DEF CallsOK, Stays
  <2>5. BroughtOK(j)'
    BY <1>3, <1>5, <1>6, <2>1, <2>2, <2>3 DEF BroughtOK, Stays
  <2>6. QED
    BY <2>4, <2>5
<1>10. QED
  BY <1>2, <1>3, <1>4, <1>6, <1>7, <1>8, <1>9 DEF ExecutionsOK

\* What has not changed is as it was.
LEMMA NothingMoves ==
  ASSUME VarsOK, ExecutionsOK, UNCHANGED <<at, ask, execs, brought>>
  PROVE  ExecutionsOK'
<1>1. \A j \in DOMAIN execs : Resolved(j)' = Resolved(j)
  BY DEF Resolved
<1>2. ASSUME NEW j \in DOMAIN execs PROVE Stays(j)
  <2>1. \A k \in 1..(j - 1) : Resolved(k)' = Resolved(k)
    BY DEF Resolved
  <2>2. QED
    BY <2>1, SameAssigned
<1>3. InTurn' /\ Recorded'
  <2>1. InTurn'
    BY DEF ExecutionsOK, InTurn
  <2>2. Running' => Running
    BY DEF Running
  <2>3. QED
    BY <2>1, <2>2, SameRecorded DEF ExecutionsOK
<1>4. ASSUME NEW j \in DOMAIN execs PROVE CallsOK(j)' /\ BroughtOK(j)'
  <2>1. CallsOK(j) /\ BroughtOK(j)
    BY DEF ExecutionsOK
  <2>2. /\ Retries(j)' = Retries(j) /\ CallsBefore(j)' = CallsBefore(j)
        /\ WholeSize(j)' = WholeSize(j)
    BY DEF Retries, CallsBefore, WholeSize
  <2>3. Passed(j)' = Passed(j)
    BY <1>2 DEF Passed, PassedBy, Stays
  <2>4. CallsOK(j)'
    BY <1>2, <2>1, <2>2 DEF CallsOK, Stays
  <2>5. BroughtOK(j)'
    BY <1>1, <1>2, <2>1, <2>2, <2>3 DEF BroughtOK, Stays
  <2>6. QED
    BY <2>4, <2>5
<1>5. QED
  BY <1>3, <1>4 DEF ExecutionsOK

\* Without executions there is nothing to keep.
LEMMA NoExecutions ==
  ASSUME execs' = <<>>, ~Running' \/ brought' = {}
  PROVE  ExecutionsOK' /\ TimeOK'
<1>1. DOMAIN execs' = {}
  OBVIOUS
<1>2. Recorded'
  BY <1>1 DEF Recorded
<1>3. QED
  BY <1>1, <1>2 DEF ExecutionsOK, InTurn, TimeOK

\* A request begins with each of its URLs once and with enabled providers.
LEMMA BeginExtractKeeps ==
  ASSUME ExtractInv, NEW r \in Extractions, NEW mode \in Modes, BeginExtract(r, mode)
  PROVE  ExtractInv'
<1>1. /\ at = "idle" /\ at' = "validating"
      /\ UNCHANGED <<budget, execs, brought, response>>
      /\ lookups' = {Host[u] : u \in ToSet(r.urls)} \ {Literal}
  BY DEF BeginExtract
<1>2. VarsOK /\ execs = <<>> /\ brought = {}
  BY <1>1 DEF ExtractInv, VarsOK
<1>3. PICK order \in Routes(Distinct(r.names)) :
        ask' = [mode |-> mode, urls |-> Distinct(r.urls), window |-> r.window,
                providers |-> Among(order, Enabled)]
  BY DEF BeginExtract
<1>4. r.urls \in Seq(Urls) /\ r.urls # <<>> /\ r.names \in Seq(Extractors) /\ r.window \in Nat
  BY ExtractAssumption
<1>5. /\ Distinct(r.urls) \in Seq(Urls) /\ IsInjective(Distinct(r.urls))
      /\ Distinct(r.urls) # <<>>
  <2>1. /\ Distinct(r.urls) \in Seq(Urls) /\ IsInjective(Distinct(r.urls))
        /\ ToSet(Distinct(r.urls)) = ToSet(r.urls)
    BY <1>4, DistinctElements
  <2>2. r.urls[1] \in ToSet(r.urls)
    BY <1>4 DEF ToSet
  <2>3. ToSet(<<>>) = {}
    BY DEF ToSet
  <2>4. QED
    BY <2>1, <2>2, <2>3
<1>6. Among(order, Enabled) \in Seq(Enabled)
  <2> DEFINE names == Distinct(r.names)
             providers == Among(order, Enabled)
  <2>1. names \in Seq(Extractors)
    BY <1>4, DistinctElements
  <2>2. order \in [DOMAIN names -> ToSet(names)]
    BY DEF Routes
  <2>3. DOMAIN names = 1..Len(names) /\ Len(names) \in Nat /\ ToSet(names) \subseteq Extractors
    <3> HIDE DEF names
    <3>1. QED
      BY <2>1 DEF ToSet
  <2>4. order \in Seq(Extractors)
    <3> HIDE DEF names
    <3>1. order \in [1..Len(names) -> Extractors]
      BY <2>2, <2>3
    <3>2. QED
      BY <2>3, <3>1
  <2>5. providers \in Seq(Extractors)
    BY <2>4, AmongPicks
  <2>6. \A n \in 1..Len(providers) : providers[n] \in Enabled
    BY <2>4, AmongElements
  <2> HIDE DEF providers
  <2>7. QED
    BY <2>5, <2>6 DEF providers
<1> DEFINE urls == Distinct(r.urls)
           providers == Among(order, Enabled)
<1> HIDE DEF urls, providers
<1>7. ask' \in Requests /\ IsInjective(ask'.urls) /\ ask'.mode # "none" /\ ask'.urls # <<>>
  <2>1. ask' = [mode |-> mode, urls |-> urls, window |-> r.window, providers |-> providers]
    BY <1>3 DEF urls, providers
  <2>2. mode # "none"
    BY ExtractAssumption
  <2>3. urls \in Seq(Urls) /\ IsInjective(urls) /\ urls # <<>> /\ providers \in Seq(Enabled)
    BY <1>5, <1>6 DEF urls, providers
  <2>4. QED
    BY <1>4, <2>1, <2>2, <2>3 DEF Requests
<1>8. lookups' \subseteq {Host[u] : u \in Urls} \ {Literal}
  <2>1. ToSet(r.urls) \subseteq Urls
    BY <1>4 DEF ToSet
  <2>2. QED
    BY <1>1, <2>1
<1>9. VarsOK'
  BY <1>1, <1>2, <1>7, <1>8 DEF VarsOK
<1>10. QED
  BY <1>1, <1>2, <1>9, NoExecutions DEF ExtractInv

\* The lookups leave the executions alone.
LEMMA LookupsKeep ==
  ASSUME ExtractInv, (\E h \in lookups : HostResolved(h)) \/ HostRefused
  PROVE  ExtractInv'
<1>1. /\ at = "validating" /\ at' \in {"validating", "refused"}
      /\ lookups' \subseteq lookups
      /\ UNCHANGED <<ask, budget, execs, brought, response>>
  BY DEF HostResolved, HostRefused
<1>2. VarsOK /\ execs = <<>> /\ brought = {}
  BY <1>1 DEF ExtractInv, VarsOK
<1>3. VarsOK'
  BY <1>1, <1>2 DEF VarsOK
<1>4. QED
  BY <1>1, <1>2, <1>3, NoExecutions DEF ExtractInv

\* The executions begin with nobody asked.
LEMMA ExecuteKeeps ==
  ASSUME ExtractInv, ExecuteExtract
  PROVE  ExtractInv'
<1>1. /\ at = "validating" /\ at' = "running"
      /\ budget' = RequestBudget(ask)
      /\ execs' = [i \in DOMAIN ask.providers |-> Unasked]
      /\ UNCHANGED <<ask, lookups, brought, response>>
  BY DEF ExecuteExtract
<1>2. VarsOK /\ execs = <<>> /\ brought = {}
  BY <1>1 DEF ExtractInv, VarsOK
<1>3. /\ ask.providers \in Seq(Enabled) /\ DOMAIN ask.providers = 1..Len(ask.providers)
      /\ Len(ask.providers) \in Nat
  BY <1>2 DEF VarsOK, Requests
<1>4. Unasked \in Executions
  BY DEF Unasked, Executions
<1>5. execs' \in Seq(Executions) /\ Len(execs') = Len(ask.providers)
  <2>1. execs' \in [1..Len(ask.providers) -> Executions]
    BY <1>1, <1>3, <1>4
  <2>2. QED
    BY <1>3, <2>1
<1>6. budget' \in Nat
  BY <1>1, <1>2, RequestBudgetFacts DEF VarsOK, RequestBudgetOK
<1>7. VarsOK'
  BY <1>1, <1>2, <1>5, <1>6 DEF VarsOK
<1>8. \A i \in DOMAIN execs' : execs'[i] = Unasked
  BY <1>1
<1>9. TimeOK'
  BY <1>6, <1>8 DEF TimeOK, Unasked
<1>10. \A i \in DOMAIN execs' : Resolved(i)' = {}
  BY <1>8 DEF Resolved, Unasked
<1>11. ExecutionsOK'
  <2>1. InTurn'
    BY <1>8 DEF InTurn, Unasked
  <2>2. Recorded'
    BY <1>1, <1>2, <1>10 DEF Recorded
  <2>3. \A i \in DOMAIN execs' : CallsOK(i)' /\ BroughtOK(i)'
    <3> SUFFICES ASSUME NEW i \in DOMAIN execs' PROVE CallsOK(i)' /\ BroughtOK(i)'
      OBVIOUS
    <3>1. /\ execs'[i] = Unasked /\ execs'[i].step = "unasked" /\ execs'[i].results = <<>>
      BY <1>8 DEF Unasked
    <3>2. CallsOK(i)'
      BY <3>1 DEF CallsOK
    <3>3. BroughtOK(i)'
      BY <1>10, <3>1 DEF BroughtOK
    <3>4. QED
      BY <3>2, <3>3
  <2>4. QED
    BY <2>1, <2>2, <2>3 DEF ExecutionsOK
<1>12. QED
  BY <1>7, <1>9, <1>11 DEF ExtractInv

\* The executions bring nothing but what they are asked for.
LEMMA BroughtForThem ==
  ASSUME VarsOK, ExecutionsOK, Running
  PROVE  brought \subseteq (DOMAIN ask.providers) \X ToSet(ask.urls)
<1>1. \A i \in DOMAIN execs : Resolved(i) \subseteq ToSet(Assigned(i))
  BY DEF ExecutionsOK, BroughtOK
<1>2. \A i \in DOMAIN execs : ToSet(Assigned(i)) \subseteq ToSet(ask.urls)
  BY AssignedFacts DEF AssignedOK
<1>3. \A i \in DOMAIN execs : i \in DOMAIN ask.providers
  BY ProviderFacts DEF ProvidersOK
<1>4. \A i \in DOMAIN execs : {i} \X Resolved(i) \subseteq (DOMAIN ask.providers) \X ToSet(ask.urls)
  BY <1>1, <1>2, <1>3
<1>5. Recorded
  BY DEF ExecutionsOK
<1>6. QED
  BY <1>4, <1>5 DEF Recorded

AllFailed == \A i \in DOMAIN execs : execs[i].step = "settled" => execs[i].error

\* What the caller gets when all executions are over.
LEMMA ResponseFacts ==
  ASSUME EndExtract
  PROVE  LET results == BoundMerged(MergedResults) IN
         \E logged \in BOOLEAN, expired \in {budget = 0, TRUE} :
           response' =
             [results |-> Bound(results).results, parts |-> Bound(results).parts,
              failed |-> Failed(results), logged |-> logged,
              told |-> IF ~logged \/ (results = <<>> /\ (expired \/ AllFailed))
                         THEN "error" ELSE "success"]
<1> DEFINE results == BoundMerged(MergedResults)
           answer(logged, expired) ==
             [results |-> Bound(results).results, parts |-> Bound(results).parts,
              failed |-> Failed(results), logged |-> logged,
              told |-> IF ~logged \/ (results = <<>> /\ (expired \/ AllFailed))
                         THEN "error" ELSE "success"]
           states == {budget = 0, TRUE}
<1>1. response' \in {answer(logged, expired) : logged \in BOOLEAN, expired \in states}
  BY DEF EndExtract, Responses, AllFailed
<1> HIDE DEF answer, states
<1>2. \E logged \in BOOLEAN, expired \in states : response' = answer(logged, expired)
  BY <1>1
<1>3. QED
  BY <1>2 DEF answer, states

\* No part appears that was not there.
LEMMA PartsLeft == \A results : Bound(results).parts \subseteq Parts
<1> SUFFICES ASSUME NEW results PROVE Bound(results).parts \subseteq Parts
  OBVIOUS
<1> DEFINE fitting == {parts \in Forms : JsonSize(results, parts) <= MaxJSON}
           halved == Cut(results, HalvedCap(results))
<1>1. Bound(results) =
        CASE fitting # {} -> [results |-> results, parts |-> UNION fitting]
          [] fitting = {} /\ JsonSize(halved, {"title"}) <= MaxJSON ->
               [results |-> halved, parts |-> {"title"}]
          [] OTHER -> Compact(results)
  BY DEF Bound
<1>2. UNION fitting \subseteq Parts /\ {"title"} \subseteq Parts
  BY DEF Forms, Parts
<1> HIDE DEF fitting, halved
<1>3. Compact(results).parts = {}
  BY DEF Compact
<1>4. QED
  BY <1>1, <1>2, <1>3

\* Whoever answers or leaves keeps the executions.
LEMMA EndKeeps ==
  ASSUME ExtractInv, EndExtract \/ EndRequest \/ Leave \/ ExtractTick
  PROVE  ExtractInv'
<1>1. VarsOK /\ ExecutionsOK /\ TimeOK /\ budget \in Nat
      /\ \A j \in DOMAIN execs : execs[j].left \in Nat
  BY ExecutionFacts DEF ExtractInv, VarsOK, ExecutionsTypeOK
<1>2. \A j \in DOMAIN execs : execs[j].step = "unasked" => execs[j].left = 0
  BY <1>1 DEF ExecutionsOK, CallsOK, Unasked
<1>3. CASE EndExtract
  <2>1. /\ Running /\ at' = "answered" /\ execs' = <<>>
        /\ response'.told \in {"success", "error"}
        /\ response'.parts \subseteq Parts /\ response'.logged \in BOOLEAN
        /\ UNCHANGED <<ask, lookups, budget, brought>>
    BY <1>3, ResponseFacts, PartsLeft DEF EndExtract
  <2>2. brought \subseteq (DOMAIN ask.providers) \X ToSet(ask.urls)
    BY <1>1, <2>1, BroughtForThem
  <2>3. VarsOK'
    BY <1>1, <2>1, <2>2 DEF VarsOK, Running
  <2>4. QED
    BY <2>1, <2>3, NoExecutions DEF ExtractInv, Running
<1>4. CASE EndRequest
  <2>1. /\ at' = "idle" /\ ask' = NoRequest /\ budget' = 0 /\ execs' = <<>> /\ brought' = {}
        /\ response' = NoResponse /\ lookups' = lookups
    BY <1>4 DEF EndRequest
  <2>2. ask' \in Requests /\ IsInjective(ask'.urls)
    <3>1. ask' = [mode |-> "none", urls |-> <<>>, providers |-> <<>>, window |-> 0]
      BY <2>1 DEF NoRequest
    <3>2. IsInjective(<<>>)
      BY DEF IsInjective
    <3>3. QED
      BY <3>1, <3>2 DEF Requests
  <2>3. VarsOK'
    BY <1>1, <2>1, <2>2 DEF VarsOK, NoResponse
  <2>4. QED
    BY <2>1, <2>3, NoExecutions DEF ExtractInv
<1>5. CASE Leave
  <2> DEFINE lefts == [j \in DOMAIN execs |-> 0]
  <2>1. /\ at = "running" /\ Running /\ at' = "abandoned" /\ budget' = 0
        /\ execs' = [j \in DOMAIN execs |-> [execs[j] EXCEPT !.left = lefts[j]]]
        /\ UNCHANGED <<ask, lookups, brought, response>>
    BY <1>5 DEF Leave, Running
  <2>2. lefts \in [DOMAIN execs -> Nat] /\ \A j \in DOMAIN execs : lefts[j] = 0
    OBVIOUS
  <2> HIDE DEF lefts
  <2>3. /\ ExecutionsOK' /\ execs' \in Seq(Executions) /\ Len(execs') = Len(execs)
        /\ DOMAIN execs' = DOMAIN execs
        /\ \A j \in DOMAIN execs : execs'[j].left = lefts[j]
    BY <1>1, <2>1, <2>2, TimeKeeps
  <2>4. VarsOK'
    BY <1>1, <2>1, <2>3 DEF VarsOK
  <2>5. TimeOK'
    BY <2>1, <2>2, <2>3 DEF TimeOK
  <2>6. QED
    BY <2>3, <2>4, <2>5 DEF ExtractInv
<1>6. CASE ExtractTick
  <2> DEFINE lefts == [j \in DOMAIN execs |-> Larger(0, execs[j].left - 1)]
  <2>1. /\ Running /\ budget' = budget - 1
        /\ execs' = [j \in DOMAIN execs |-> [execs[j] EXCEPT !.left = lefts[j]]]
        /\ UNCHANGED <<at, ask, lookups, brought, response>>
    BY <1>6 DEF ExtractTick
  <2>2. budget > 0
    <3>1. PICK j \in DOMAIN execs : Calling(j) /\ execs[j].left > 0
      BY <1>6 DEF ExtractTick
    <3>2. QED
      BY <1>1, <3>1 DEF TimeOK
  <2>3. /\ lefts \in [DOMAIN execs -> Nat]
        /\ \A j \in DOMAIN execs : lefts[j] = Larger(0, execs[j].left - 1)
    BY <1>1 DEF Larger
  <2> HIDE DEF lefts
  <2>4. \A j \in DOMAIN execs : execs[j].step = "unasked" => lefts[j] = 0
    BY <1>2, <2>3 DEF Larger
  <2>5. /\ ExecutionsOK' /\ execs' \in Seq(Executions) /\ Len(execs') = Len(execs)
        /\ DOMAIN execs' = DOMAIN execs
        /\ \A j \in DOMAIN execs : execs'[j].left = lefts[j]
    <3>1. UNCHANGED <<ask, brought>>
      BY <2>1
    <3>2. QED
      BY <1>1, <2>1, <2>3, <2>4, <3>1, TimeKeeps
  <2>6. VarsOK'
    BY <1>1, <2>1, <2>2, <2>5 DEF VarsOK, Running
  <2>7. TimeOK'
    BY <1>1, <2>1, <2>2, <2>3, <2>5 DEF TimeOK, Larger
  <2>8. QED
    BY <2>5, <2>6, <2>7 DEF ExtractInv
<1>7. QED
  BY <1>3, <1>4, <1>5, <1>6

-----------------------------------------------------------------------------
(* The invariant, and what it says of the types and of the calls. *)

\* The invariant holds at the start.
LEMMA ExtractInitInv == ExtractInit => ExtractInv
<1> SUFFICES ASSUME ExtractInit PROVE ExtractInv
  OBVIOUS
<1>1. /\ at = "idle" /\ ask = NoRequest /\ lookups = {} /\ budget = 0 /\ execs = <<>>
      /\ brought = {} /\ response = NoResponse
  BY DEF ExtractInit
<1>2. ask \in Requests /\ IsInjective(ask.urls)
  <2>1. ask = [mode |-> "none", urls |-> <<>>, providers |-> <<>>, window |-> 0]
    BY <1>1 DEF NoRequest
  <2>2. IsInjective(<<>>)
    BY DEF IsInjective
  <2>3. QED
    BY <2>1, <2>2 DEF Requests
<1>3. VarsOK
  BY <1>1, <1>2 DEF VarsOK, NoResponse
<1>4. DOMAIN execs = {}
  BY <1>1
<1>5. ExecutionsOK
  BY <1>1, <1>4 DEF ExecutionsOK, InTurn, Recorded
<1>6. TimeOK
  BY <1>4 DEF TimeOK
<1>7. QED
  BY <1>3, <1>5, <1>6 DEF ExtractInv

\* Every step of an extraction keeps the invariant.
LEMMA ExtractNextInv == ExtractInv /\ [ExtractNext]_extractVars => ExtractInv'
<1> SUFFICES ASSUME ExtractInv, [ExtractNext]_extractVars PROVE ExtractInv'
  OBVIOUS
<1>1. ASSUME NEW r \in Extractions, NEW mode \in Modes, BeginExtract(r, mode) PROVE ExtractInv'
  BY <1>1, BeginExtractKeeps
<1>2. CASE (\E h \in lookups : HostResolved(h)) \/ HostRefused
  BY <1>2, LookupsKeep
<1>3. CASE ExecuteExtract
  BY <1>3, ExecuteKeeps
<1>4. ASSUME NEW i \in DOMAIN execs, ProviderStep(i) PROVE ExtractInv'
  <2>1. CASE BeginCall(i)
    BY <2>1, BeginCallKeeps
  <2>2. CASE FailAcquire(i)
    BY <2>2, FailureKeeps DEF FailAcquire
  <2>3. ASSUME NEW items \in ItemsFor(i), NEW failed \in SUBSET ToSet(Batch(i)),
               AnswerCall(i, items, failed)
        PROVE  ExtractInv'
    BY <2>3, AnswerKeeps
  <2>4. ASSUME NEW retryable \in BOOLEAN, FailCall(i, retryable) PROVE ExtractInv'
    <3>1. CASE retryable /\ MayRetry(i)
      BY <2>4, <3>1, RepetitionKeeps DEF FailCall
    <3>2. CASE ~(retryable /\ MayRetry(i))
      BY <2>4, <3>2, FailureKeeps DEF FailCall
    <3>3. QED
      BY <3>1, <3>2
  <2>5. QED
    BY <1>4, <2>1, <2>2, <2>3, <2>4 DEF ProviderStep
<1>5. CASE EndExtract \/ EndRequest \/ Leave \/ ExtractTick
  BY <1>5, EndKeeps
<1>6. CASE UNCHANGED extractVars
  <2>1. VarsOK' /\ TimeOK'
    BY <1>6 DEF ExtractInv, extractVars, VarsOK, TimeOK
  <2>2. ExecutionsOK'
    BY <1>6, NothingMoves DEF ExtractInv, extractVars
  <2>3. QED
    BY <2>1, <2>2 DEF ExtractInv
<1>7. QED
  BY <1>1, <1>2, <1>3, <1>4, <1>5, <1>6 DEF ExtractNext, ExtractStep

\* An extraction asks its providers in their turns, for URLs it was asked for, as often
\* as the retries allow, and records what each brought.
THEOREM ExtractInvCorrect == ExtractSpec => []ExtractInv
BY ExtractInitInv, ExtractNextInv, PTL DEF ExtractSpec

\* The invariant is about the types of the model, and the calls of a provider.
LEMMA ExtractTypes == ExtractInv => ExtractTypeOK
<1> SUFFICES ASSUME ExtractInv PROVE ExtractTypeOK
  OBVIOUS
<1>1. VarsOK /\ ExecutionsOK /\ TimeOK
  BY DEF ExtractInv
<1>2. ASSUME NEW i \in DOMAIN execs PROVE ExecutionOK(i)
  <2> DEFINE e == execs[i]
  <2>1. /\ e.step \in {"unasked", "due", "calling", "settled"}
        /\ e.batch \in Nat \ {0} /\ e.attempt \in Nat /\ e.left \in Nat
        /\ e.attempts \in Seq({"success", "failed", "retried"}) /\ Len(e.attempts) \in Nat
    BY <1>1, ExecutionFacts DEF ExecutionsTypeOK
  <2>2. /\ Batches(i) \in Nat /\ Batches(i) <= Len(ask.urls) /\ Len(ask.urls) \in Nat
    <3>1. Len(ask.urls) \in Nat
      BY <1>1 DEF VarsOK, Requests
    <3>2. QED
      BY <1>1, <3>1, BatchesFacts, AssignedFacts DEF BatchesOK, AssignedOK
  <2>3. Retries(i) \in Nat
    BY <1>1, ProviderFacts DEF ProvidersOK
  <2>4. CallsOK(i) /\ e.left <= budget /\ budget \in Nat
    BY <1>1 DEF ExecutionsOK, TimeOK, VarsOK
  <2>5. CASE e.step = "unasked"
    <3>1. e.batch = 1 /\ e.attempt = 0 /\ Len(e.attempts) = 0
      BY <2>4, <2>5 DEF CallsOK, Unasked
    <3>2. Len(ask.urls) * (Retries(i) + 1) \in Nat
      BY <2>2, <2>3
    <3>3. e.batch \in 1..Larger(1, Batches(i))
      BY <2>2, <3>1 DEF Larger
    <3>4. QED
      BY <2>1, <2>3, <2>4, <3>1, <3>2, <3>3 DEF ExecutionOK, Retries
  <2>6. CASE e.step # "unasked"
    <3>1. e.batch <= Batches(i) /\ e.attempt <= Retries(i) + 1
          /\ Len(e.attempts) <= CallsBefore(i) + Retries(i) + 1
      <4>1. CallsBefore(i) \in Nat
        BY <2>1, <2>3 DEF CallsBefore
      <4>2. QED
        BY <2>1, <2>3, <2>4, <2>6, <4>1 DEF CallsOK
    <3>2. CallsBefore(i) + Retries(i) + 1 = (Retries(i) + 1) * e.batch
      <4>1. ASSUME NEW m \in Nat \ {0}, NEW n \in Nat
            PROVE  (m - 1) * (n + 1) + n + 1 = (n + 1) * m
        OBVIOUS
      <4>2. QED
        BY <2>1, <2>3, <4>1 DEF CallsBefore
    <3>3. (Retries(i) + 1) * e.batch <= (Retries(i) + 1) * Len(ask.urls)
      <4>1. e.batch <= Len(ask.urls) /\ e.batch \in Nat /\ Retries(i) + 1 \in Nat
        BY <2>1, <2>2, <2>3, <3>1
      <4>2. QED
        BY <2>2, <4>1, TimesMonotone
    <3>4. (Retries(i) + 1) * Len(ask.urls) = Len(ask.urls) * (Retries(i) + 1)
          /\ Len(ask.urls) * (Retries(i) + 1) \in Nat /\ (Retries(i) + 1) * e.batch \in Nat
      BY <2>1, <2>2, <2>3
    <3>5. Len(e.attempts) <= Len(ask.urls) * (Retries(i) + 1)
      BY <2>1, <3>1, <3>2, <3>3, <3>4
    <3>6. e.batch \in 1..Larger(1, Batches(i))
      BY <2>1, <2>2, <3>1 DEF Larger
    <3>7. e.attempt \in 0..(Retries(i) + 1) /\ e.left \in 0..budget
      BY <2>1, <2>3, <2>4, <3>1
    <3>8. QED
      BY <2>1, <3>5, <3>6, <3>7 DEF ExecutionOK, Retries
  <2>7. QED
    BY <2>5, <2>6
<1>3. brought \subseteq (DOMAIN ask.providers) \X ToSet(ask.urls)
  BY <1>1, BroughtForThem DEF VarsOK, Running
<1>4. execs # <<>> => DOMAIN execs = DOMAIN ask.providers
  BY <1>1 DEF VarsOK, Requests
<1>5. QED
  BY <1>1, <1>2, <1>3, <1>4 DEF ExtractTypeOK, VarsOK, Requests

\* No URL is called for more often than the retries allow, and no call is given more time
\* than the extraction has left.
THEOREM ExtractTypeCorrect == ExtractSpec => []ExtractTypeOK
BY ExtractInvCorrect, ExtractTypes, PTL

\* There are executions only while they go on.
LEMMA RunningFacts ==
  ASSUME ExtractInv, NEW i \in DOMAIN execs
  PROVE  Running
BY DEF ExtractInv, VarsOK, Running

\* What was brought for a URL is in the results of those who brought it.
LEMMA BroughtFacts ==
  ASSUME ExtractInv, Running, NEW u
  PROVE  BroughtBy(u) = {i \in DOMAIN execs : u \in Resolved(i)}
<1>1. Recorded /\ VarsOK
  BY DEF ExtractInv, ExecutionsOK
<1>2. \A i \in DOMAIN execs : i \in DOMAIN ask.providers
  BY <1>1, ProviderFacts DEF ProvidersOK
<1>3. \A i : <<i, u>> \in brought <=> i \in DOMAIN execs /\ u \in Resolved(i)
  BY <1>1 DEF Recorded
<1>4. QED
  BY <1>2, <1>3 DEF BroughtBy

\* In fallback mode the URLs of a call have been brought by nobody yet.
LEMMA UnresolvedAsked == ExtractInv => OnlyUnresolvedAsked
<1> SUFFICES ASSUME ExtractInv, NEW i \in DOMAIN execs, ask.mode = "fallback", Calling(i),
                    NEW u \in ToSet(Batch(i)), NEW j \in DOMAIN execs, u \in Resolved(j)
             PROVE  FALSE
  BY BroughtFacts, RunningFacts DEF OnlyUnresolvedAsked
<1>1. VarsOK /\ ExecutionsOK
  BY DEF ExtractInv
<1>2. i \in Nat /\ j \in Nat
  BY <1>1, ExecutionFacts DEF ExecutionsTypeOK
<1>3. execs[i].batch <= Batches(i) /\ execs[i].batch \in Nat /\ Resolved(i) \subseteq Passed(i)
  <2>1. Batches(i) \in Nat
    BY <1>1, BatchesFacts, AssignedFacts DEF BatchesOK, AssignedOK
  <2>2. QED
    BY <1>1, <2>1, CallFacts, AttemptFacts
<1>4. u \notin Passed(i) /\ u \in ToSet(Assigned(i))
  BY <1>1, <1>3, BatchFacts DEF BatchOK
<1>5. CASE j = i
  BY <1>3, <1>4, <1>5
<1>6. CASE j < i
  <2>1. j \in 1..(i - 1)
    BY <1>1, <1>2, <1>6, ExecutionFacts DEF ExecutionsTypeOK
  <2>2. ask.urls \in Seq(Urls)
    BY <1>1 DEF VarsOK, Requests
  <2> DEFINE rest == {w \in Urls : \A k \in 1..(i - 1) : w \notin Resolved(k)}
  <2>3. u \notin rest
    BY <2>1
  <2>4. Assigned(i) = Among(ask.urls, rest)
    BY DEF Assigned, UnresolvedBefore
  <2> HIDE DEF rest
  <2>5. ToSet(Assigned(i)) = ToSet(ask.urls) \cap rest
    BY <2>2, <2>4, AmongElements
  <2>6. QED
    BY <1>4, <2>3, <2>5
<1>7. CASE i < j
  <2>1. i \in 1..(j - 1)
    BY <1>1, <1>2, <1>7, ExecutionFacts DEF ExecutionsTypeOK
  <2>2. execs[i].step # "settled" /\ InTurn
    BY <1>1 DEF Calling, ExecutionsOK
  <2>3. execs[j].step = "unasked"
    BY <2>1, <2>2 DEF InTurn
  <2>4. execs[j].results = <<>>
    BY <1>1, <2>3 DEF ExecutionsOK, CallsOK, Unasked
  <2>5. QED
    BY <2>4 DEF Resolved
<1>8. QED
  BY <1>2, <1>5, <1>6, <1>7

\* In fallback mode no provider is called for a URL another has brought.
THEOREM OnlyUnresolvedAskedCorrect == ExtractSpec => []OnlyUnresolvedAsked
BY ExtractInvCorrect, UnresolvedAsked, PTL

-----------------------------------------------------------------------------
(* The time left is enough. *)

\* What the providers after i may take is what the next and those after it may.
AfterOK ==
  \A i \in DOMAIN execs :
    /\ After(i) \in Nat
    /\ ask.mode = "fallback" /\ i + 1 \in DOMAIN execs =>
         After(i) = BudgetsOf[i + 1] + After(i + 1)
    /\ ask.mode = "fallback" /\ i = 1 => Total(BudgetsOf) = BudgetsOf[1] + After(1)
    /\ ask.mode # "fallback" => After(i) = 0

\* After is the rest of the sum of all budgets.
LEMMA AfterFacts == VarsOK => AfterOK
<1> SUFFICES ASSUME VarsOK, NEW i \in DOMAIN execs
    PROVE  /\ After(i) \in Nat
           /\ ask.mode = "fallback" /\ i + 1 \in DOMAIN execs =>
                After(i) = BudgetsOf[i + 1] + After(i + 1)
           /\ ask.mode = "fallback" /\ i = 1 => Total(BudgetsOf) = BudgetsOf[1] + After(1)
           /\ ask.mode # "fallback" => After(i) = 0
  BY DEF AfterOK
<1> DEFINE L == Len(BudgetsOf)
           f == SumsOf(BudgetsOf)
<1>1. BudgetsOf \in Seq(Nat) /\ L = Len(execs) /\ DOMAIN execs = 1..L /\ L \in Nat
  <2>1. execs # <<>> => at \in {"running", "abandoned"}
    BY DEF VarsOK
  <2>2. execs # <<>> /\ DOMAIN execs = 1..Len(execs) /\ Len(execs) \in Nat
    BY ExecutionFacts DEF ExecutionsTypeOK
  <2>3. Len(execs) = Len(ask.providers) /\ ask.mode # "none"
    BY <2>1, <2>2 DEF VarsOK
  <2>4. BudgetsOf \in Seq(Nat) /\ Len(BudgetsOf) = Len(ask.providers)
    BY <2>3, RequestBudgetFacts DEF RequestBudgetOK
  <2>5. QED
    BY <2>2, <2>3, <2>4
<1>2. /\ f \in [0..L -> Nat] /\ f[0] = 0 /\ Total(BudgetsOf) = f[L]
      /\ \A n \in 1..L : f[n] = f[n - 1] + BudgetsOf[n]
  BY <1>1, SumsFacts DEF Total
<1>3. \A n \in 0..L : f[n] \in Nat /\ f[n] <= Total(BudgetsOf)
  BY <1>1, SumsRise
<1>4. \A n \in 1..L : BudgetsOf[n] \in Nat
  BY <1>1
<1> HIDE DEF f
<1>5. \A n : After(n) = IF ask.mode = "fallback" THEN Total(BudgetsOf) - f[n] ELSE 0
  BY DEF After, f
<1> HIDE DEF L
<1>6. After(i) \in Nat
  <2>1. f[i] \in Nat /\ f[i] <= Total(BudgetsOf) /\ Total(BudgetsOf) \in Nat
    BY <1>1, <1>2, <1>3
  <2>2. QED
    BY <1>5, <2>1
<1>7. ASSUME ask.mode = "fallback", i + 1 \in DOMAIN execs
      PROVE  After(i) = BudgetsOf[i + 1] + After(i + 1)
  <2>1. i + 1 \in 1..L /\ (i + 1) - 1 = i /\ i \in 0..L
    BY <1>1, <1>7
  <2>2. f[i + 1] = f[i] + BudgetsOf[i + 1]
    BY <1>2, <2>1
  <2>3. f[i] \in Nat /\ f[i + 1] \in Nat /\ Total(BudgetsOf) \in Nat /\ BudgetsOf[i + 1] \in Nat
    <3>1. L \in 0..L
      BY <1>1
    <3>2. f[i] \in Nat /\ f[i + 1] \in Nat /\ f[L] \in Nat
      BY <1>1, <1>3, <2>1, <3>1
    <3>3. QED
      BY <1>2, <1>4, <2>1, <3>2
  <2>4. QED
    BY <1>5, <1>7, <2>2, <2>3
<1>8. ASSUME ask.mode = "fallback", i = 1
      PROVE  Total(BudgetsOf) = BudgetsOf[1] + After(1)
  <2>1. f[1] = f[0] + BudgetsOf[1] /\ f[0] = 0 /\ BudgetsOf[1] \in Nat
    BY <1>1, <1>2, <1>4, <1>8
  <2>2. Total(BudgetsOf) \in Nat
    BY <1>1, <1>2
  <2>3. QED
    BY <1>5, <1>8, <2>1, <2>2
<1>9. QED
  BY <1>5, <1>6, <1>7, <1>8

\* What a provider that is not asked yet may take has been reckoned with.
NeedOK ==
  \A i \in DOMAIN execs :
    /\ Need(i) \in Nat
    /\ execs[i].step = "unasked" => Need(i) <= BudgetsOf[i] /\ BudgetsOf[i] \in Nat
    /\ Due(i) => Need(i) >= TimeLimit(ask, ask.providers[i])

\* What is due fits into what its provider still needs.
LEMMA NeedFacts == ExtractInv => NeedOK
<1> SUFFICES ASSUME ExtractInv, NEW i \in DOMAIN execs
    PROVE  /\ Need(i) \in Nat
           /\ execs[i].step = "unasked" => Need(i) <= BudgetsOf[i] /\ BudgetsOf[i] \in Nat
           /\ Due(i) => Need(i) >= TimeLimit(ask, ask.providers[i])
  BY DEF NeedOK
<1> DEFINE limit == TimeLimit(ask, ask.providers[i])
           waves == Waves(ask, ask.providers[i])
           B == Batches(i)
           b == execs[i].batch
<1>1. VarsOK /\ ExecutionsOK /\ CallsOK(i)
  BY DEF ExtractInv, ExecutionsOK
<1>2. limit \in Nat /\ waves \in Nat /\ i \in DOMAIN ask.providers
  BY <1>1, ProviderFacts DEF ProvidersOK
<1>3. B \in Nat /\ B <= waves
  <2>1. /\ B \in Nat /\ B <= Len(ask.urls)
        /\ ask.providers[i] \notin OneAtATime => B <= 1
    <3>1. Len(ask.urls) \in Nat
      BY <1>1 DEF VarsOK, Requests
    <3>2. QED
      BY <1>1, <3>1, BatchesFacts, AssignedFacts DEF BatchesOK, AssignedOK
  <2>2. QED
    BY <2>1 DEF Waves
<1>4. b \in Nat \ {0} /\ execs[i].left \in Nat
      /\ execs[i].step \in {"unasked", "due", "calling", "settled"}
  BY <1>1, ExecutionFacts DEF ExecutionsTypeOK
<1>5. \A n \in Nat : limit * n \in Nat
  BY <1>2
<1>6. Need(i) = CASE execs[i].step = "settled" -> 0
                  [] execs[i].step = "calling" -> execs[i].left + limit * (B - b)
                  [] OTHER -> limit * (B - b + 1)
  BY DEF Need
<1>7. CASE execs[i].step = "settled"
  BY <1>6, <1>7 DEF Due
<1>8. CASE execs[i].step = "calling"
  <2>1. b <= B
    BY <1>1, <1>8 DEF CallsOK
  <2>2. Need(i) = execs[i].left + limit * (B - b)
    BY <1>6, <1>8
  <2>3. limit * (B - b) \in Nat
    BY <1>3, <1>4, <1>5, <2>1
  <2> HIDE DEF limit, B, b
  <2>4. QED
    BY <1>4, <1>8, <2>2, <2>3 DEF Due
<1>9. ASSUME execs[i].step = "unasked"
       PROVE  Need(i) \in Nat /\ Need(i) <= BudgetsOf[i] /\ BudgetsOf[i] \in Nat
  <2>1. b = 1
    BY <1>1, <1>9 DEF CallsOK, Unasked
  <2>2. Need(i) = limit * B
    <3>1. B - b + 1 = B
      BY <1>3, <2>1
    <3>2. QED
      BY <1>6, <1>9, <3>1
  <2>3. limit * B <= limit * waves /\ limit * B \in Nat /\ limit * waves \in Nat
    <3> HIDE DEF limit, B, waves
    <3>1. QED
      BY <1>2, <1>3, TimesMonotone
  <2>4. BudgetsOf[i] >= limit * waves /\ BudgetsOf[i] \in Nat
    <3>1. at # "idle"
      BY <1>1 DEF VarsOK
    <3>2. ask.mode # "none"
      BY <1>1, <3>1 DEF VarsOK
    <3>3. RequestBudgetOK
      BY <1>1, <3>2, RequestBudgetFacts
    <3>4. BudgetsOf \in Seq(Nat) /\ Len(BudgetsOf) = Len(ask.providers)
      BY <3>3 DEF RequestBudgetOK
    <3>5. i \in DOMAIN BudgetsOf
      BY <1>1, <1>2, <3>4 DEF VarsOK, Requests
    <3>6. QED
      BY <1>2, <3>3, <3>4, <3>5 DEF RequestBudgetOK
  <2>5. QED
    BY <2>2, <2>3, <2>4
<1>10. CASE execs[i].step = "due" \/ (execs[i].step = "unasked" /\ Due(i))
  <2>1. b <= B
    <3>1. b \in 1..B
      BY <1>1, <1>10, CallFacts DEF Due
    <3>2. QED
      BY <1>3, <3>1
  <2>2. Need(i) = limit * (B - b + 1)
    BY <1>6, <1>10
  <2>3. B - b + 1 \in Nat /\ 1 <= B - b + 1
    BY <1>3, <1>4, <2>1
  <2> HIDE DEF limit, B, b
  <2>4. limit * 1 <= limit * (B - b + 1) /\ limit * (B - b + 1) \in Nat
    BY <1>2, <2>3, TimesMonotone
  <2>5. Need(i) \in Nat /\ Need(i) >= limit
    BY <1>2, <2>2, <2>4
  <2>6. execs[i].step = "unasked" => Need(i) <= BudgetsOf[i] /\ BudgetsOf[i] \in Nat
    BY <1>9
  <2>7. QED
    BY <2>5, <2>6 DEF limit
<1>11. QED
  BY <1>4, <1>7, <1>8, <1>9, <1>10 DEF Due

\* All this is so in the next state as well.
LEMMA NextNeeds ==
  /\ VarsOK' => AfterOK' /\ ProvidersOK'
  /\ ExtractInv' => NeedOK'
BY AfterFacts, ProviderFacts, NeedFacts, PTL

\* What the provider that acts is asked for remains.
LEMMA MoveStays ==
  ASSUME ExtractInv, ExtractInv', Running, NEW i \in DOMAIN execs, NEW e,
         Due(i) \/ Calling(i), e.step # "unasked",
         execs' = [execs EXCEPT ![i] = e], UNCHANGED <<at, ask, lookups, budget, response>>
  PROVE  Stays(i) /\ execs'[i] = e
<1>1. VarsOK /\ VarsOK' /\ ExecutionsOK /\ TimeOK /\ TimeOK'
  BY DEF ExtractInv
<1>2. DOMAIN execs' = DOMAIN execs /\ execs'[i] = e /\ i \in Nat
  BY <1>1, ExecutionFacts DEF ExecutionsTypeOK
<1>3. e \in Executions /\ e.left <= budget
  <2>1. execs'[i] \in Executions
    BY <1>1, <1>2, NextFacts DEF ExecutionsTypeOK
  <2>2. execs'[i].left <= budget'
    BY <1>1, <1>2 DEF TimeOK
  <2>3. QED
    BY <1>2, <2>1, <2>2
<1>4. /\ execs[i].step # "settled" /\ (execs[i].step = "unasked" => Turn(i))
  BY <1>1, CallFacts
<1>5. \A j \in DOMAIN execs : (ask.mode = "fallback" => j <= i) => Stays(j)
  BY <1>1, <1>3, <1>4, MoveKeeps
<1>6. QED
  BY <1>2, <1>5

\* A step of the provider that has its turn takes none of the time of the others.
LEMMA MoveKeepsWindow ==
  ASSUME ExtractInv, ExtractInv', Running, NEW i \in DOMAIN execs, NEW e,
         Due(i) \/ Calling(i), e.step # "unasked",
         execs' = [execs EXCEPT ![i] = e], UNCHANGED <<at, ask, lookups, budget, response>>,
         \A j \in DOMAIN execs : Acting(j) => budget >= Need(j) + After(j),
         e.step # "settled" => Need(i)' <= Need(i)
  PROVE  \A j \in DOMAIN execs' : Acting(j)' => budget' >= Need(j)' + After(j)'
<1>1. VarsOK /\ VarsOK' /\ ExecutionsOK /\ TimeOK /\ TimeOK' /\ budget \in Nat
  BY DEF ExtractInv, VarsOK
<1>2. DOMAIN execs = 1..Len(execs) /\ Len(execs) \in Nat /\ DOMAIN execs' = DOMAIN execs
      /\ execs'[i] = e
  <2>1. DOMAIN execs = 1..Len(execs) /\ Len(execs) \in Nat
    BY <1>1, ExecutionFacts DEF ExecutionsTypeOK
  <2>2. QED
    BY <2>1
<1>3. e \in Executions /\ e.left <= budget
  <2>1. execs'[i] \in Executions
    BY <1>1, <1>2, NextFacts DEF ExecutionsTypeOK
  <2>2. execs'[i].left <= budget'
    BY <1>1, <1>2 DEF TimeOK
  <2>3. QED
    BY <1>2, <2>1, <2>2
<1>4. /\ execs[i].step # "settled" /\ (execs[i].step = "unasked" => Turn(i))
  BY <1>1, CallFacts
<1>5. /\ \A j \in DOMAIN execs : j # i => execs'[j] = execs[j]
      /\ \A j \in DOMAIN execs : (ask.mode = "fallback" => j <= i) => Stays(j)
      /\ InTurn'
  BY <1>1, <1>3, <1>4, MoveKeeps
<1>6. InTurn
  BY <1>1 DEF ExecutionsOK
<1>7. Acting(i)
  <2>1. CASE execs[i].step = "unasked"
    BY <1>4, <2>1 DEF Turn, Acting
  <2>2. CASE execs[i].step # "unasked"
    BY <1>4, <1>6, <2>2 DEF InTurn, Acting
  <2>3. QED
    BY <2>1, <2>2
<1>8. budget >= Need(i) + After(i)
  BY <1>7
<1>9. \A j \in DOMAIN execs : /\ Need(j) \in Nat /\ Need(j)' \in Nat
                              /\ After(j) \in Nat /\ After(j)' = After(j)
  <2>1. \A j \in DOMAIN execs : Need(j) \in Nat /\ After(j) \in Nat
    BY <1>1, NeedFacts, AfterFacts DEF NeedOK, AfterOK
  <2>2. \A j \in DOMAIN execs : Need(j)' \in Nat
    BY <1>2, NextNeeds DEF NeedOK
  <2>3. \A j \in DOMAIN execs : After(j)' = After(j)
    BY DEF After, BudgetsOf
  <2>4. QED
    BY <2>1, <2>2, <2>3
<1> SUFFICES ASSUME NEW j \in DOMAIN execs, Acting(j)'
             PROVE  budget >= Need(j)' + After(j)
  BY <1>2, <1>9
<1>10. CASE j = i
  <2>1. e.step # "settled"
    BY <1>2, <1>10 DEF Acting
  <2>2. QED
    BY <1>1, <1>8, <1>9, <1>10, <2>1
<1>11. CASE j # i /\ ask.mode # "fallback"
  <2>1. execs'[j] = execs[j] /\ Stays(j)
    BY <1>5, <1>11
  <2>2. Acting(j)
    BY <1>11, <2>1 DEF Acting
  <2>3. Need(j)' = Need(j)
    BY <2>1 DEF Need, Stays
  <2>4. QED
    BY <2>2, <2>3
<1>12. CASE j # i /\ ask.mode = "fallback"
  <2>1. execs'[j] = execs[j] /\ execs[j].step # "settled"
        /\ \A k \in 1..(j - 1) : execs'[k].step = "settled"
    BY <1>5, <1>12 DEF Acting
  <2>2. ~(j < i)
    <3>1. \A k \in 1..(i - 1) : execs[k].step = "settled"
      BY <1>7, <1>12 DEF Acting
    <3>2. QED
      BY <1>2, <2>1, <3>1
  <2>3. j = i + 1
    <3> SUFFICES ASSUME j # i + 1 PROVE FALSE
      OBVIOUS
    <3>1. i + 1 \in 1..(j - 1) /\ i + 1 \in DOMAIN execs /\ i + 1 # i
      BY <1>2, <1>12, <2>2
    <3>2. execs'[i + 1] = execs[i + 1] /\ execs[i + 1].step = "settled"
      BY <1>5, <2>1, <3>1
    <3>3. i \in 1..((i + 1) - 1)
      BY <1>2
    <3>4. execs[i + 1].step # "unasked"
      BY <3>2
    <3>5. execs[i].step = "settled"
      BY <1>6, <1>12, <3>1, <3>3, <3>4 DEF InTurn
    <3>6. QED
      BY <1>4, <3>5
  <2>4. execs'[j].step = "unasked"
    <3>1. i \in 1..(j - 1)
      BY <1>2, <2>3
    <3>2. execs[j].step = "unasked"
      BY <1>4, <1>6, <1>12, <3>1 DEF InTurn
    <3>3. QED
      BY <2>1, <3>2
  <2>5. Need(j)' <= BudgetsOf[j] /\ BudgetsOf[j] \in Nat
    <3>1. Need(j)' <= BudgetsOf[j]' /\ BudgetsOf[j]' \in Nat
      BY <1>2, <2>4, NextNeeds DEF NeedOK
    <3>2. BudgetsOf' = BudgetsOf
      BY DEF BudgetsOf
    <3>3. QED
      BY <3>1, <3>2
  <2>6. After(i) = BudgetsOf[j] + After(j)
    BY <1>1, <1>12, <2>3, AfterFacts DEF AfterOK
  <2>7. QED
    BY <1>1, <1>8, <1>9, <2>5, <2>6
<1>13. QED
  BY <1>10, <1>11, <1>12

\* What was repeated has been repeated ever since.
LEMMA RetriedStays ==
  ASSUME VarsOK, NEW i \in DOMAIN execs, NEW e, execs' = [execs EXCEPT ![i] = e],
         NEW s, e.attempts = execs[i].attempts \/ e.attempts = Append(execs[i].attempts, s),
         Retried
  PROVE  Retried'
<1>1. PICK j \in DOMAIN execs : "retried" \in ToSet(execs[j].attempts)
  BY DEF Retried
<1>2. DOMAIN execs' = DOMAIN execs /\ execs'[i] = e
      /\ \A k \in DOMAIN execs : k # i => execs'[k] = execs[k]
  BY ExecutionFacts DEF ExecutionsTypeOK
<1>3. ToSet(execs[j].attempts) \subseteq ToSet(execs'[j].attempts)
  <2>1. CASE j = i /\ e.attempts # execs[i].attempts
    <3> DEFINE a == execs[i].attempts
    <3>1. a \in Seq({"success", "failed", "retried"}) /\ e.attempts = Append(a, s)
      BY <2>1, ExecutionFacts DEF ExecutionsTypeOK
    <3> HIDE DEF a
    <3>2. \A n \in DOMAIN a : n \in DOMAIN Append(a, s) /\ Append(a, s)[n] = a[n]
      BY <3>1
    <3>3. ToSet(a) \subseteq ToSet(Append(a, s))
      BY <3>2 DEF ToSet
    <3>4. QED
      BY <1>2, <2>1, <3>1, <3>3 DEF a
  <2>2. CASE j # i \/ e.attempts = execs[i].attempts
    BY <1>2, <2>2
  <2>3. QED
    BY <2>1, <2>2
<1>4. QED
  BY <1>1, <1>2, <1>3 DEF Retried

\* The call that begins takes no more than was reckoned with.
LEMMA BeginCallKeepsWindow ==
  ASSUME ExtractInv, ExtractInv', Window, NEW i \in DOMAIN execs, BeginCall(i)
  PROVE  Window'
<1> DEFINE d == execs[i]
           time == CallTime(ask.providers[i])
           e == Called(d, time)
           limit == TimeLimit(ask, ask.providers[i])
<1>1. VarsOK /\ ExecutionsOK /\ Running /\ Due(i)
  BY DEF ExtractInv, BeginCall
<1>2. execs' = [execs EXCEPT ![i] = e] /\ UNCHANGED <<at, ask, lookups, budget, response>>
  BY DEF BeginCall, Called
<1>3. limit \in Nat /\ time \in Nat /\ time <= limit /\ d \in Executions
  <2>1. limit \in Nat /\ budget \in Nat
    BY <1>1, ProviderFacts DEF ProvidersOK, VarsOK
  <2>2. QED
    BY <1>1, <2>1, ExecutionFacts DEF CallTime, Smaller, ExecutionsTypeOK
<1> HIDE DEF time
<1>4. e.step = "calling" /\ e.left = time /\ e.batch = d.batch /\ e.attempts = d.attempts
  BY <1>3, CalledFacts
<1> HIDE DEF e
<1>5. Retried => Retried'
  BY <1>1, <1>2, <1>4, RetriedStays
<1>6. d.batch \in 1..Batches(i) /\ Batches(i) \in Nat
      /\ d.step # "settled" /\ (d.step = "unasked" => Turn(i))
  BY <1>1, CallFacts, BatchesFacts, AssignedFacts DEF BatchesOK, AssignedOK
<1>7. Stays(i) /\ execs'[i] = e
  <2>1. e.step # "unasked"
    BY <1>4
  <2>2. QED
    BY <1>1, <1>2, <2>1, MoveStays
<1>8. Need(i)' <= Need(i)
  <2>1. Need(i) = limit * (Batches(i) - d.batch + 1)
    BY <1>1, <1>6 DEF Need, Due
  <2>2. Need(i)' = time + limit * (Batches(i) - d.batch)
    BY <1>2, <1>4, <1>7 DEF Need, Stays
  <2>3. ASSUME NEW m \in Nat, NEW n \in Nat
        PROVE  m * (n + 1) = m + m * n /\ m * n \in Nat
    OBVIOUS
  <2>4. Batches(i) - d.batch \in Nat
    BY <1>6
  <2>5. /\ limit * (Batches(i) - d.batch + 1) = limit + limit * (Batches(i) - d.batch)
        /\ limit * (Batches(i) - d.batch) \in Nat
    <3> HIDE DEF limit
    <3>1. QED
      BY <1>3, <2>3, <2>4
  <2> HIDE DEF limit
  <2>6. QED
    BY <1>3, <2>1, <2>2, <2>5
<1>9. SUFFICES ASSUME at = "running", ask.window = 0, ~Retried
               PROVE  \A j \in DOMAIN execs' : Acting(j)' => budget' >= Need(j)' + After(j)'
  BY <1>2, <1>5 DEF Window
<1>10. \A j \in DOMAIN execs : Acting(j) => budget >= Need(j) + After(j)
  BY <1>9 DEF Window
<1>11. e.step # "unasked"
  BY <1>4
<1>12. QED
  BY <1>1, <1>2, <1>8, <1>10, <1>11, MoveKeepsWindow

\* A failure that ends the execution leaves its time to the next.
LEMMA FailureKeepsWindow ==
  ASSUME ExtractInv, ExtractInv', Window, Running, NEW i \in DOMAIN execs, Due(i) \/ Calling(i),
         execs' = [execs EXCEPT ![i] = FailedWith(@, "failed")],
         UNCHANGED <<at, ask, lookups, budget, brought, response>>
  PROVE  Window'
<1> DEFINE e == FailedWith(execs[i], "failed")
<1>1. VarsOK /\ execs' = [execs EXCEPT ![i] = e]
  BY DEF ExtractInv
<1>2. e.attempts = Append(execs[i].attempts, "failed")
  <2>1. execs[i] \in Executions
    BY <1>1, ExecutionFacts DEF ExecutionsTypeOK
  <2>2. QED
    BY <2>1 DEF FailedWith, Executions
<1>3. e.step = "settled"
  <2>1. execs[i] \in Executions
    BY <1>1, ExecutionFacts DEF ExecutionsTypeOK
  <2>2. QED
    BY <2>1, FailedFacts
<1> HIDE DEF e
<1>4. Retried => Retried'
  BY <1>1, <1>2, RetriedStays
<1>5. SUFFICES ASSUME at = "running", ask.window = 0, ~Retried
               PROVE  \A j \in DOMAIN execs' : Acting(j)' => budget' >= Need(j)' + After(j)'
  BY <1>4 DEF Window
<1>6. \A j \in DOMAIN execs : Acting(j) => budget >= Need(j) + After(j)
  BY <1>5 DEF Window
<1>7. e.step # "unasked" /\ (e.step # "settled" => Need(i)' <= Need(i))
  BY <1>3
<1>8. UNCHANGED <<at, ask, lookups, budget, response>>
  OBVIOUS
<1>9. QED
  BY <1>1, <1>6, <1>7, <1>8, MoveKeepsWindow

\* An answer leaves what the call did not need.
LEMMA AnswerKeepsWindow ==
  ASSUME ExtractInv, ExtractInv', Window, NEW i \in DOMAIN execs, NEW items \in ItemsFor(i),
         NEW failed \in SUBSET ToSet(Batch(i)), AnswerCall(i, items, failed)
  PROVE  Window'
<1> DEFINE d == execs[i]
           more == d.batch < Batches(i)
           e == [step |-> IF more THEN "due" ELSE "settled",
                 batch |-> IF more THEN d.batch + 1 ELSE d.batch,
                 attempt |-> 0, left |-> 0, error |-> FALSE,
                 results |-> d.results \o ResultsIn(i, items),
                 failures |-> d.failures \cup FailuresIn(i, items, failed),
                 attempts |-> Append(d.attempts, "success")]
<1>1. VarsOK /\ ExecutionsOK /\ TimeOK /\ Running /\ Calling(i)
  BY DEF ExtractInv, AnswerCall
<1>2. execs' = [execs EXCEPT ![i] = e] /\ UNCHANGED <<at, ask, lookups, budget, response>>
  BY DEF AnswerCall
<1>3. /\ e.step = (IF more THEN "due" ELSE "settled")
      /\ e.batch = (IF more THEN d.batch + 1 ELSE d.batch)
      /\ e.attempts = Append(d.attempts, "success")
  OBVIOUS
<1> HIDE DEF e
<1>4. Retried => Retried'
  BY <1>1, <1>2, <1>3, RetriedStays
<1>5. /\ d.batch \in 1..Batches(i) /\ Batches(i) \in Nat
      /\ d.step # "settled" /\ (d.step = "unasked" => Turn(i))
      /\ d.left \in Nat
  BY <1>1, CallFacts, BatchesFacts, AssignedFacts, ExecutionFacts
     DEF BatchesOK, AssignedOK, ExecutionsTypeOK
<1>6. Stays(i) /\ execs'[i] = e
  <2>1. e.step # "unasked"
    BY <1>3
  <2> HIDE DEF d, more
  <2>2. QED
    BY <1>1, <1>2, <2>1, MoveStays
<1>7. more => Need(i)' <= Need(i)
  <2> SUFFICES ASSUME more PROVE Need(i)' <= Need(i)
    OBVIOUS
  <2> DEFINE limit == TimeLimit(ask, ask.providers[i])
  <2>1. Need(i) = d.left + limit * (Batches(i) - d.batch)
    BY <1>1 DEF Need, Calling
  <2>2. Need(i)' = limit * (Batches(i) - (d.batch + 1) + 1)
    BY <1>2, <1>3, <1>6 DEF Need, Stays
  <2>3. Batches(i) - (d.batch + 1) + 1 = Batches(i) - d.batch /\ Batches(i) - d.batch \in Nat
    BY <1>5
  <2>4. limit \in Nat
    BY <1>1, ProviderFacts DEF ProvidersOK
  <2> HIDE DEF limit
  <2>5. limit * (Batches(i) - d.batch) \in Nat
    BY <2>3, <2>4
  <2>6. QED
    BY <1>5, <2>1, <2>2, <2>3, <2>5
<1>8. SUFFICES ASSUME at = "running", ask.window = 0, ~Retried
               PROVE  \A j \in DOMAIN execs' : Acting(j)' => budget' >= Need(j)' + After(j)'
  BY <1>2, <1>4 DEF Window
<1>9. \A j \in DOMAIN execs : Acting(j) => budget >= Need(j) + After(j)
  BY <1>8 DEF Window
<1>10. e.step # "unasked" /\ (e.step # "settled" => Need(i)' <= Need(i))
  BY <1>3, <1>7
<1> HIDE DEF d, more
<1>11. QED
  BY <1>1, <1>2, <1>9, <1>10, MoveKeepsWindow

\* Time passes only while the provider whose turn it is spends it.
LEMMA TickKeepsWindow ==
  ASSUME ExtractInv, Window, ExtractTick
  PROVE  Window'
<1> DEFINE lefts == [j \in DOMAIN execs |-> Larger(0, execs[j].left - 1)]
<1>1. VarsOK /\ ExecutionsOK /\ TimeOK /\ budget \in Nat
      /\ \A j \in DOMAIN execs : execs[j].left \in Nat
      /\ DOMAIN execs = 1..Len(execs) /\ Len(execs) \in Nat
  BY ExecutionFacts DEF ExtractInv, VarsOK, ExecutionsTypeOK
<1>2. /\ Running /\ budget' = budget - 1
      /\ execs' = [j \in DOMAIN execs |-> [execs[j] EXCEPT !.left = lefts[j]]]
      /\ UNCHANGED <<at, ask, lookups, brought, response>>
      /\ \A j \in DOMAIN execs : ~Due(j) /\ (Calling(j) => execs[j].left > 0)
  BY DEF ExtractTick
<1>3. PICK k \in DOMAIN execs : Calling(k)
  BY DEF ExtractTick
<1>4. /\ lefts \in [DOMAIN execs -> Nat]
      /\ \A j \in DOMAIN execs : lefts[j] = Larger(0, execs[j].left - 1)
  BY <1>1 DEF Larger
<1> HIDE DEF lefts
<1>5. \A j \in DOMAIN execs : execs[j].step = "unasked" => lefts[j] = 0
  BY <1>1, <1>4 DEF ExecutionsOK, CallsOK, Unasked, Larger
<1>6. /\ DOMAIN execs' = DOMAIN execs
      /\ \A j \in DOMAIN execs :
           /\ Stays(j) /\ execs'[j].left = lefts[j] /\ execs'[j].step = execs[j].step
           /\ execs'[j].batch = execs[j].batch /\ execs'[j].attempts = execs[j].attempts
  <2>1. UNCHANGED <<ask, brought>>
    BY <1>2
  <2>2. QED
    BY <1>1, <1>2, <1>4, <1>5, <2>1, TimeKeeps
<1>7. Retried => Retried'
  BY <1>6 DEF Retried
<1>8. SUFFICES ASSUME at = "running", ask.window = 0, ~Retried, NEW j \in DOMAIN execs, Acting(j)'
               PROVE  budget' >= Need(j)' + After(j)'
  BY <1>2, <1>6, <1>7 DEF Window
<1>9. Acting(j)
  <2>1. execs'[j].step # "settled" /\ ask' = ask
        /\ (ask'.mode = "fallback" => \A n \in 1..(j - 1) : execs'[n].step = "settled")
        /\ (ask'.mode = "single" => j = 1)
    BY <1>2, <1>8 DEF Acting
  <2>2. j \in DOMAIN execs /\ execs'[j].step = execs[j].step
    BY <1>6, <1>8
  <2>3. \A n \in 1..(j - 1) : n \in DOMAIN execs
    BY <1>1, <2>2
  <2>4. \A n \in 1..(j - 1) : execs'[n].step = execs[n].step
    BY <1>6, <2>3
  <2>5. QED
    BY <2>1, <2>2, <2>4 DEF Acting
<1>10. Calling(j)
  <2>1. InTurn /\ ask.mode \in {"parallel", "fallback", "single"}
    <3>1. at # "idle"
      BY <1>8
    <3>2. QED
      BY <1>1, <3>1, ExtractAssumption DEF ExecutionsOK, VarsOK, Requests
  <2>2. execs[j].step \in {"unasked", "due", "calling", "settled"}
    BY <1>1, ExecutionFacts DEF ExecutionsTypeOK
  <2>3. execs[j].step # "due" /\ execs[j].step # "settled" /\ ~Due(j)
    BY <1>2, <1>9 DEF Due, Acting
  <2>4. CASE execs[j].step = "unasked"
    <3>1. ~Turn(j)
      BY <2>3, <2>4 DEF Due
    <3>2. ask.mode = "fallback"
      BY <1>9, <2>1, <3>1 DEF Turn, Acting
    <3>3. Assigned(j) = <<>> /\ \A n \in 1..(j - 1) : execs[n].step = "settled"
      BY <1>9, <3>1, <3>2 DEF Turn, Acting
    <3>4. k # j
      BY <1>3, <2>4 DEF Calling
    <3>5. CASE k < j
      <4>1. k \in 1..(j - 1)
        BY <1>1, <3>5
      <4>2. QED
        BY <1>3, <3>3, <4>1 DEF Calling
    <3>6. CASE j < k
      <4>1. j \in 1..(k - 1)
        BY <1>1, <3>6
      <4>2. execs[j].step = "settled"
        BY <1>3, <2>1, <3>2, <4>1 DEF InTurn, Calling
      <4>3. QED
        BY <2>3, <4>2
    <3>7. QED
      BY <1>1, <3>4, <3>5, <3>6
  <2>5. QED
    BY <2>2, <2>3, <2>4 DEF Calling
<1>11. budget >= Need(j) + After(j)
  BY <1>8, <1>9 DEF Window
<1>12. Need(j) = Need(j)' + 1 /\ Need(j)' \in Int
  <2> DEFINE rest == TimeLimit(ask, ask.providers[j]) * (Batches(j) - execs[j].batch)
  <2>1. Need(j) = execs[j].left + rest
    BY <1>10 DEF Need, Calling
  <2>2. Need(j)' = lefts[j] + rest
    BY <1>2, <1>6, <1>10 DEF Need, Calling, Stays
  <2>3. rest \in Nat
    <3>1. TimeLimit(ask, ask.providers[j]) \in Nat
      BY <1>1, ProviderFacts DEF ProvidersOK
    <3>2. execs[j].batch \in 1..Batches(j) /\ Batches(j) \in Nat
      BY <1>1, <1>10, CallFacts, BatchesFacts, AssignedFacts DEF BatchesOK, AssignedOK
    <3>3. Batches(j) - execs[j].batch \in Nat
      BY <3>2
    <3>4. QED
      BY <3>1, <3>3
  <2>4. lefts[j] = execs[j].left - 1
    BY <1>1, <1>2, <1>4, <1>10 DEF Larger
  <2> HIDE DEF rest
  <2>5. QED
    BY <1>1, <2>1, <2>2, <2>3, <2>4
<1>13. After(j)' = After(j) /\ After(j) \in Nat /\ Need(j) \in Nat
  BY <1>1, <1>2, AfterFacts, NeedFacts DEF After, BudgetsOf, AfterOK, NeedOK
<1>14. Need(j)' \in Int /\ budget' = budget - 1
  BY <1>2, <1>12
<1>15. QED
  BY <1>1, <1>11, <1>12, <1>13, <1>14

\* The request begins with all the time its providers may take.
LEMMA ExecuteKeepsWindow ==
  ASSUME ExtractInv, ExtractInv', ExecuteExtract
  PROVE  Window'
<1>1. /\ at = "validating" /\ at' = "running" /\ ask' = ask
      /\ budget' = RequestBudget(ask)
      /\ execs' = [i \in DOMAIN ask.providers |-> Unasked]
  BY DEF ExecuteExtract
<1>2. VarsOK' /\ ask.mode \in {"parallel", "fallback", "single"} /\ VarsOK
      /\ ask.providers \in Seq(Enabled)
  BY <1>1, ExtractAssumption DEF ExtractInv, VarsOK, Requests
<1>3. RequestBudgetOK
  BY <1>2, RequestBudgetFacts
<1>4. SUFFICES ASSUME ask.window = 0, NEW i \in DOMAIN execs', Acting(i)'
               PROVE  budget' >= Need(i)' + After(i)'
  BY <1>1 DEF Window
<1>5. /\ DOMAIN execs' = DOMAIN ask.providers /\ DOMAIN execs' = 1..Len(ask.providers)
      /\ Len(ask.providers) \in Nat
      /\ \A j \in DOMAIN execs' : execs'[j].step = "unasked"
  BY <1>1, <1>2 DEF Unasked
<1>6. BudgetsOf' = BudgetsOf
  BY <1>1 DEF BudgetsOf
<1>7. Need(i)' \in Nat /\ Need(i)' <= BudgetsOf[i] /\ BudgetsOf[i] \in Nat
  <2>1. Need(i)' \in Nat /\ Need(i)' <= BudgetsOf[i]' /\ BudgetsOf[i]' \in Nat
    BY <1>5, NextNeeds DEF NeedOK
  <2>2. QED
    BY <1>6, <2>1
<1>8. budget' \in Nat
  BY <1>1, <1>3 DEF RequestBudgetOK
<1>9. CASE ask.mode = "fallback"
  <2>1. i = 1
    <3> SUFFICES ASSUME i # 1 PROVE FALSE
      OBVIOUS
    <3>1. 1 \in 1..(i - 1) /\ 1 \in DOMAIN execs'
      BY <1>5
    <3>2. execs'[1].step = "settled"
      BY <1>1, <1>4, <1>9, <3>1 DEF Acting
    <3>3. QED
      BY <1>5, <3>1, <3>2
  <2>2. After(1)' \in Nat /\ Total(BudgetsOf') = BudgetsOf'[1] + After(1)'
    BY <1>1, <1>2, <1>9, <2>1, NextNeeds DEF AfterOK
  <2>3. budget' >= Total(BudgetsOf)
    BY <1>1, <1>3, <1>4, <1>9 DEF RequestBudgetOK
  <2>4. QED
    BY <1>6, <1>7, <1>8, <2>1, <2>2, <2>3
<1>10. CASE ask.mode # "fallback"
  <2>1. After(i)' = 0
    BY <1>1, <1>2, <1>10, NextNeeds DEF AfterOK
  <2>2. ask.mode = "single" => i = 1
    BY <1>1, <1>4 DEF Acting
  <2>3. budget' >= BudgetsOf[i]
    BY <1>1, <1>2, <1>3, <1>4, <1>5, <1>10, <2>2 DEF RequestBudgetOK
  <2>4. QED
    BY <1>7, <1>8, <2>1, <2>3
<1>11. QED
  BY <1>9, <1>10

\* A repetition may cost more time than was reckoned with.
LEMMA RepetitionKeepsWindow ==
  ASSUME VarsOK, NEW i \in DOMAIN execs, execs' = [execs EXCEPT ![i] = Repeated(@)]
  PROVE  Window'
<1>1. execs[i] \in Executions /\ DOMAIN execs' = DOMAIN execs
      /\ execs'[i] = Repeated(execs[i])
  BY ExecutionFacts DEF ExecutionsTypeOK
<1>2. "retried" \in ToSet(execs'[i].attempts)
  BY <1>1, RepeatedFacts
<1>3. Retried'
  BY <1>1, <1>2 DEF Retried
<1>4. QED
  BY <1>3 DEF Window

\* Every step of an extraction leaves enough time to whoever is due.
LEMMA ExtractNextWindow ==
  ExtractInv /\ ExtractInv' /\ Window /\ [ExtractNext]_extractVars => Window'
<1> SUFFICES ASSUME ExtractInv, ExtractInv', Window, [ExtractNext]_extractVars PROVE Window'
  OBVIOUS
<1>1. VarsOK
  BY DEF ExtractInv
<1>2. ASSUME NEW r \in Extractions, NEW mode \in Modes, BeginExtract(r, mode) PROVE Window'
  BY <1>2 DEF BeginExtract, Window
<1>3. CASE (\E h \in lookups : HostResolved(h)) \/ HostRefused
  BY <1>3 DEF HostResolved, HostRefused, Window
<1>4. CASE ExecuteExtract
  BY <1>4, ExecuteKeepsWindow
<1>5. ASSUME NEW i \in DOMAIN execs, ProviderStep(i) PROVE Window'
  <2>1. CASE BeginCall(i)
    BY <2>1, BeginCallKeepsWindow
  <2>2. CASE FailAcquire(i)
    BY <2>2, FailureKeepsWindow DEF FailAcquire
  <2>3. ASSUME NEW items \in ItemsFor(i), NEW failed \in SUBSET ToSet(Batch(i)),
               AnswerCall(i, items, failed)
        PROVE  Window'
    BY <2>3, AnswerKeepsWindow
  <2>4. ASSUME NEW retryable \in BOOLEAN, FailCall(i, retryable) PROVE Window'
    <3>1. CASE retryable /\ MayRetry(i)
      BY <1>1, <2>4, <3>1, RepetitionKeepsWindow DEF FailCall
    <3>2. CASE ~(retryable /\ MayRetry(i))
      BY <2>4, <3>2, FailureKeepsWindow DEF FailCall
    <3>3. QED
      BY <3>1, <3>2
  <2>5. QED
    BY <1>5, <2>1, <2>2, <2>3, <2>4 DEF ProviderStep
<1>6. CASE EndExtract \/ EndRequest \/ Leave
  BY <1>6 DEF EndExtract, EndRequest, Leave, Window
<1>7. CASE ExtractTick
  BY <1>7, TickKeepsWindow
<1>8. CASE UNCHANGED extractVars
  <2>1. UNCHANGED <<at, ask, budget, execs, brought>>
    BY <1>8 DEF extractVars
  <2>2. DOMAIN execs' = DOMAIN execs /\ \A j \in DOMAIN execs : Stays(j)
    BY <2>1, SameAssigned DEF Resolved
  <2>3. \A j \in DOMAIN execs : Need(j)' = Need(j) /\ After(j)' = After(j)
    BY <2>1, <2>2 DEF Need, Stays, After, BudgetsOf
  <2>4. \A j \in DOMAIN execs : Acting(j)' <=> Acting(j)
    BY <2>1 DEF Acting
  <2>5. Retried' <=> Retried
    BY <2>1 DEF Retried
  <2>6. QED
    BY <2>1, <2>2, <2>3, <2>4, <2>5 DEF Window
<1>9. QED
  BY <1>2, <1>3, <1>4, <1>5, <1>6, <1>7, <1>8 DEF ExtractNext, ExtractStep

\* Whoever is due is reckoned with, for a call at least.
LEMMA WindowSuffices == ExtractInv /\ Window => WindowKept
<1> SUFFICES ASSUME ExtractInv, Window, at = "running", ask.window = 0, ~Retried,
                    NEW i \in DOMAIN execs, Due(i)
             PROVE  budget >= TimeLimit(ask, ask.providers[i])
  BY DEF WindowKept
<1>1. VarsOK /\ InTurn /\ budget \in Nat
  BY DEF ExtractInv, ExecutionsOK, VarsOK
<1>2. Acting(i)
  <2>1. CASE execs[i].step = "unasked"
    BY <2>1 DEF Due, Turn, Acting
  <2>2. CASE execs[i].step = "due"
    BY <1>1, <2>2 DEF InTurn, Acting
  <2>3. QED
    BY <2>1, <2>2 DEF Due
<1>3. budget >= Need(i) + After(i)
  BY <1>2 DEF Window
<1>4. /\ Need(i) \in Nat /\ After(i) \in Nat /\ TimeLimit(ask, ask.providers[i]) \in Nat
      /\ Need(i) >= TimeLimit(ask, ask.providers[i])
  BY <1>1, NeedFacts, AfterFacts, ProviderFacts DEF NeedOK, AfterOK, ProvidersOK
<1>5. QED
  BY <1>1, <1>3, <1>4

\* The time of an extraction suffices for every URL at every provider, as long as no
\* call was repeated and the caller set no limit.
THEOREM WindowKeptCorrect == ExtractSpec => []WindowKept
<1>1. ExtractInit => Window
  BY DEF ExtractInit, Window
<1>2. QED
  BY <1>1, ExtractInvCorrect, ExtractNextWindow, WindowSuffices, PTL DEF ExtractSpec

-----------------------------------------------------------------------------
(* The results are merged by their URLs. *)

\* A result that another provider has brought as well.
Credited(d, names) == [d EXCEPT !.providers = @ \cup names]

\* Only its providers change.
LEMMA CreditedFacts ==
  ASSUME NEW d \in Results, NEW names \in SUBSET Nat
  PROVE  LET e == Credited(d, names) IN
         /\ e \in Results /\ e.url = d.url /\ e.owner = d.owner /\ e.size = d.size
         /\ e.providers = d.providers \cup names
<1> DEFINE e == Credited(d, names)
<1>1. d = [url |-> d.url, owner |-> d.owner, providers |-> d.providers, size |-> d.size]
      /\ d.url \in Urls /\ d.owner \in Nat /\ d.providers \in SUBSET Nat /\ d.size \in Nat
  BY DEF Results
<1>2. e = [d EXCEPT !.providers = @ \cup names]
  BY DEF Credited
<1> HIDE DEF e
<1>3. e = [url |-> d.url, owner |-> d.owner, providers |-> d.providers \cup names,
           size |-> d.size]
  BY <1>1, <1>2
<1>4. e \in Results
  BY <1>1, <1>3 DEF Results
<1>5. QED
  BY <1>3, <1>4 DEF e

\* Merging adds a result, or names to a result.
LEMMA MergeFacts ==
  ASSUME NEW merged \in Seq(Results), NEW r \in Results
  PROVE  LET R == Merge(merged, r) IN
         /\ R \in Seq(Results)
         /\ IF \E n \in DOMAIN merged : merged[n].url = r.url
              THEN /\ Len(R) = Len(merged)
                   /\ \A n \in DOMAIN merged :
                        R[n] = IF merged[n].url = r.url
                                 THEN Credited(merged[n], r.providers) ELSE merged[n]
              ELSE R = Append(merged, r)
<1>1. CASE ~\E n \in DOMAIN merged : merged[n].url = r.url
  BY <1>1, SMTT(40) DEF Merge
<1>2. CASE \E n \in DOMAIN merged : merged[n].url = r.url
  <2> DEFINE R == [n \in DOMAIN merged |->
                     IF merged[n].url = r.url THEN Credited(merged[n], r.providers)
                                              ELSE merged[n]]
  <2>1. Merge(merged, r) = R
    BY <1>2 DEF Merge, Credited
  <2>2. \A n \in 1..Len(merged) :
          (IF merged[n].url = r.url THEN Credited(merged[n], r.providers) ELSE merged[n])
            \in Results
    <3>1. r.providers \in SUBSET Nat
      BY DEF Results
    <3>2. QED
      BY <3>1, CreditedFacts
  <2>3. DOMAIN merged = 1..Len(merged) /\ Len(merged) \in Nat
    OBVIOUS
  <2>4. R \in [1..Len(merged) -> Results]
    BY <2>2, <2>3
  <2>5. R \in Seq(Results) /\ Len(R) = Len(merged)
    BY <2>3, <2>4
  <2>6. QED
    BY <1>2, <2>1, <2>5
<1>3. QED
  BY <1>1, <1>2

\* The loop of mergeExtractResults, turn by turn.
MergedTurns(merged, found) ==
  /\ merged \in [0..Len(found) -> Seq(Results)]
  /\ Merged(found) = merged[Len(found)]
  /\ merged[0] = <<>>
  /\ \A n \in 1..Len(found) :
       merged[n] = Merge(merged[n - 1], found[n])

\* There is a loop as the definition of Merged describes.
LEMMA MergedLoop ==
  ASSUME NEW found \in Seq(Results)
  PROVE  \E merged : MergedTurns(merged, found)
<1> DEFINE L == Len(found)
           Body(g) == [n \in 0..L |-> IF n = 0 THEN <<>> ELSE
                                         Merge(g[n - 1], found[n])]
           turn == [n \in 1..L |-> [before \in Seq(Results) |->
                                         Merge(before, found[n])]]
           merged == CHOOSE g : g = Body(g)
<1>1. L \in Nat
  OBVIOUS
<1>2. <<>> \in Seq(Results)
  OBVIOUS
<1>3. ASSUME NEW n \in 1..L, NEW before \in Seq(Results)
      PROVE  (Merge(before, found[n])) \in Seq(Results)
  BY MergeFacts
<1>4. \E g : g = Body(g)
  <2>1. turn \in [1..L -> [Seq(Results) -> Seq(Results)]]
    <3> HIDE DEF L
    <3>1. QED
      BY <1>3
  <2>2. PICK g \in [0..L -> Seq(Results)] :
          g[0] = <<>> /\ \A n \in 1..L : g[n] = turn[n][g[n - 1]]
    <3> HIDE DEF turn, L
    <3>1. \E g : IsLoop(g, L, Seq(Results), <<>>, turn)
      BY <1>1, <1>2, <2>1, LoopExists
    <3>2. QED
      BY <3>1 DEF IsLoop
  <2>3. ASSUME NEW n \in 0..L PROVE g[n] = Body(g)[n]
    <3>1. CASE n = 0
      BY <2>2, <3>1
    <3>2. CASE n # 0
      <4>1. n \in 1..L /\ n - 1 \in 0..L
        BY <1>1, <3>2
      <4>2. g[n - 1] \in Seq(Results) /\ g[n] = turn[n][g[n - 1]]
        <5> HIDE DEF turn, L
        <5>1. QED
          BY <2>2, <3>2, <4>1
      <4>3. turn[n][g[n - 1]] = Merge(g[n - 1], found[n])
        <5> HIDE DEF L
        <5>1. QED
          BY <4>1, <4>2
      <4>4. QED
        BY <3>2, <4>2, <4>3
    <3>3. QED
      BY <3>1, <3>2
  <2>4. g = Body(g)
    BY <2>2, <2>3
  <2>5. QED
    BY <2>4
<1>5. merged = Body(merged)
  BY <1>4
<1>6. Merged(found) = merged[L]
  BY DEF Merged
<1> HIDE DEF merged
<1>7. merged[0] = <<>>
  BY <1>1, <1>5
<1>8. ASSUME NEW n \in 1..L
      PROVE  merged[n] = Merge(merged[n - 1], found[n])
  <2>1. n \in 0..L /\ n # 0
    BY <1>1
  <2>2. QED
    BY <1>5, <2>1
<1>9. \A n \in 0..L : merged[n] \in Seq(Results)
  <2> DEFINE Good == {n \in 0..L : merged[n] \in Seq(Results)}
  <2>1. 0 \in Good
    <3>1. 0 \in 0..L
      BY <1>1
    <3>2. QED
      BY <1>2, <1>7, <3>1
  <2>2. ASSUME NEW n \in 1..L, n - 1 \in Good PROVE n \in Good
    <3>1. n \in 0..L /\ merged[n - 1] \in Seq(Results)
      BY <1>1, <2>2
    <3> HIDE DEF L
    <3>2. merged[n] \in Seq(Results)
      BY <1>3, <1>8, <3>1
    <3>3. QED
      BY <3>1, <3>2
  <2>3. \A n \in 0..L : n \in Good
    <3> HIDE DEF Good
    <3>1. QED
      BY <1>1, <2>1, <2>2, Climb
  <2>4. QED
    BY <2>3
<1>10. merged \in [0..L -> Seq(Results)]
  <2>1. merged = [n \in 0..L |-> merged[n]]
    BY <1>5
  <2>2. QED
    BY <1>9, <2>1
<1>11. QED
  BY <1>6, <1>7, <1>8, <1>10 DEF MergedTurns

\* Who is among the first n to have found a URL.
FoundBy(found, n, u) == {found[k].owner : k \in {j \in 1..n : found[j].url = u}}

\* The first n results are merged: each URL once, as it was found first, with the
\* names of all that found it.
MergedTo(merged, found, n) ==
  /\ \A a, b \in DOMAIN merged : merged[a].url = merged[b].url => a = b
  /\ \A k \in 1..n : \E m \in DOMAIN merged : merged[m].url = found[k].url
  /\ \A m \in DOMAIN merged :
       /\ \E k \in 1..n : /\ found[k].url = merged[m].url /\ found[k].owner = merged[m].owner
                          /\ found[k].size = merged[m].size
       /\ \A k \in 1..n : found[k].url = merged[m].url => merged[m].owner <= found[k].owner
       /\ merged[m].providers = FoundBy(found, n, merged[m].url)

\* Results are listed provider by provider, each under the name of its own.
Listed(found) ==
  \A k \in 1..Len(found) :
    /\ found[k].providers = {found[k].owner}
    /\ \A j \in 1..k : found[j].owner <= found[k].owner

\* One more result is found by one more.
LEMMA FoundByNext ==
  ASSUME NEW found, NEW n \in Nat \ {0}, NEW u
  PROVE  FoundBy(found, n, u) =
           FoundBy(found, n - 1, u) \cup IF found[n].url = u THEN {found[n].owner} ELSE {}
<1>1. 1..n = (1..(n - 1)) \cup {n}
  OBVIOUS
<1>2. {j \in 1..n : found[j].url = u} =
        {j \in 1..(n - 1) : found[j].url = u} \cup IF found[n].url = u THEN {n} ELSE {}
  BY <1>1
<1>3. QED
  BY <1>2 DEF FoundBy

\* Merging one more result merges one more.
LEMMA MergeNext ==
  ASSUME NEW found \in Seq(Results), Listed(found), NEW n \in 1..Len(found),
         NEW merged \in Seq(Results), MergedTo(merged, found, n - 1)
  PROVE  MergedTo(Merge(merged, found[n]), found, n)
<1> DEFINE r == found[n]
           R == Merge(merged, r)
<1>1. r \in Results /\ r.providers = {r.owner} /\ r.owner \in Nat /\ n \in Nat \ {0}
      /\ r.providers \in SUBSET Nat
      /\ \A k \in 1..n : found[k].owner <= r.owner /\ found[k] \in Results
  <2>1. n \in Nat \ {0} /\ \A k \in 1..n : k \in 1..Len(found)
    OBVIOUS
  <2>2. \A k \in 1..n : found[k] \in Results
    BY <2>1
  <2>3. r \in Results
    OBVIOUS
  <2>4. r.owner \in Nat /\ r.providers \in SUBSET Nat
    <3> HIDE DEF r
    <3>1. QED
      BY <2>3 DEF Results
  <2>5. r.providers = {r.owner} /\ \A k \in 1..n : found[k].owner <= r.owner
    BY DEF Listed
  <2>6. QED
    BY <2>1, <2>2, <2>3, <2>4, <2>5
<1>2. 1..n = (1..(n - 1)) \cup {n}
  OBVIOUS
<1>3. \A u : FoundBy(found, n, u) =
               FoundBy(found, n - 1, u) \cup IF r.url = u THEN {r.owner} ELSE {}
  BY <1>1, FoundByNext
<1>4. CASE \E m \in DOMAIN merged : merged[m].url = r.url
  <2>1. /\ R \in Seq(Results) /\ Len(R) = Len(merged)
        /\ \A m \in DOMAIN merged :
             R[m] = IF merged[m].url = r.url THEN Credited(merged[m], r.providers) ELSE merged[m]
    BY <1>1, <1>4, MergeFacts
  <2>2. DOMAIN R = DOMAIN merged /\ \A m \in DOMAIN merged : merged[m] \in Results
    BY <2>1
  <2> HIDE DEF r, R
  <2>3. ASSUME NEW m \in DOMAIN merged
        PROVE  /\ R[m].url = merged[m].url /\ R[m].owner = merged[m].owner
               /\ R[m].size = merged[m].size
               /\ R[m].providers = merged[m].providers \cup
                                     IF r.url = merged[m].url THEN {r.owner} ELSE {}
    <3>1. CASE merged[m].url = r.url
      BY <1>1, <2>1, <2>2, <3>1, CreditedFacts
    <3>2. CASE merged[m].url # r.url
      BY <2>1, <3>2
    <3>3. QED
      BY <3>1, <3>2
  <2>4. \A a, b \in DOMAIN R : R[a].url = R[b].url => a = b
    BY <2>2, <2>3 DEF MergedTo
  <2>5. \A k \in 1..n : \E m \in DOMAIN R : R[m].url = found[k].url
    <3> SUFFICES ASSUME NEW k \in 1..n PROVE \E m \in DOMAIN R : R[m].url = found[k].url
      OBVIOUS
    <3>1. \E m \in DOMAIN merged : merged[m].url = found[k].url
      BY <1>2, <1>4 DEF MergedTo, r
    <3>2. QED
      BY <2>2, <2>3, <3>1
  <2>6. ASSUME NEW m \in DOMAIN R
        PROVE  /\ \E k \in 1..n : /\ found[k].url = R[m].url /\ found[k].owner = R[m].owner
                                  /\ found[k].size = R[m].size
               /\ \A k \in 1..n : found[k].url = R[m].url => R[m].owner <= found[k].owner
               /\ R[m].providers = FoundBy(found, n, R[m].url)
    <3>1. m \in DOMAIN merged
      BY <2>2
    <3>2. PICK k \in 1..(n - 1) :
            /\ found[k].url = merged[m].url /\ found[k].owner = merged[m].owner
            /\ found[k].size = merged[m].size
      BY <3>1 DEF MergedTo
    <3>3. /\ \A j \in 1..(n - 1) : found[j].url = merged[m].url =>
                                     merged[m].owner <= found[j].owner
          /\ merged[m].providers = FoundBy(found, n - 1, merged[m].url)
      BY <3>1 DEF MergedTo
    <3>4. k \in 1..n
      BY <1>2, <3>2
    <3>5. merged[m].owner <= r.owner
      BY <1>1, <3>2, <3>4
    <3>6. R[m].providers = FoundBy(found, n, R[m].url)
      <4>1. FoundBy(found, n, merged[m].url) =
              FoundBy(found, n - 1, merged[m].url) \cup
                IF r.url = merged[m].url THEN {r.owner} ELSE {}
        BY <1>3
      <4>2. R[m].url = merged[m].url /\ R[m].providers = merged[m].providers \cup
              IF r.url = merged[m].url THEN {r.owner} ELSE {}
        BY <2>3, <3>1
      <4>3. QED
        BY <3>3, <4>1, <4>2
    <3>7. \A j \in 1..n : found[j].url = R[m].url => R[m].owner <= found[j].owner
      BY <1>2, <2>3, <3>1, <3>3, <3>5 DEF r
    <3>8. QED
      BY <2>3, <3>1, <3>2, <3>4, <3>6, <3>7
  <2>7. QED
    BY <2>4, <2>5, <2>6 DEF MergedTo, R, r
<1>5. CASE ~\E m \in DOMAIN merged : merged[m].url = r.url
  <2>1. R = Append(merged, r)
    BY <1>1, <1>5, MergeFacts
  <2> DEFINE L == Len(merged)
  <2>2. /\ L \in Nat /\ DOMAIN merged = 1..L /\ DOMAIN R = (1..L) \cup {L + 1}
        /\ R[L + 1] = r /\ \A m \in 1..L : R[m] = merged[m]
    BY <1>1, <2>1
  <2> HIDE DEF r, R, L
  <2>3. \A a, b \in DOMAIN R : R[a].url = R[b].url => a = b
    BY <1>5, <2>2, SMTT(30) DEF MergedTo
  <2>4. \A k \in 1..n : \E m \in DOMAIN R : R[m].url = found[k].url
    <3> SUFFICES ASSUME NEW k \in 1..n PROVE \E m \in DOMAIN R : R[m].url = found[k].url
      OBVIOUS
    <3>1. CASE k = n
      BY <2>2, <3>1 DEF r
    <3>2. CASE k # n
      <4>1. \E m \in DOMAIN merged : merged[m].url = found[k].url
        BY <1>2, <3>2 DEF MergedTo
      <4>2. QED
        BY <2>2, <4>1
    <3>3. QED
      BY <3>1, <3>2
  <2>5. ASSUME NEW m \in DOMAIN R
        PROVE  /\ \E k \in 1..n : /\ found[k].url = R[m].url /\ found[k].owner = R[m].owner
                                  /\ found[k].size = R[m].size
               /\ \A k \in 1..n : found[k].url = R[m].url => R[m].owner <= found[k].owner
               /\ R[m].providers = FoundBy(found, n, R[m].url)
    <3>1. CASE m \in 1..L
      <4>1. m \in DOMAIN merged /\ R[m] = merged[m] /\ merged[m].url # r.url
        BY <1>5, <2>2, <3>1
      <4>2. /\ \E k \in 1..(n - 1) :
                 /\ found[k].url = merged[m].url /\ found[k].owner = merged[m].owner
                 /\ found[k].size = merged[m].size
            /\ \A k \in 1..(n - 1) : found[k].url = merged[m].url =>
                                       merged[m].owner <= found[k].owner
            /\ merged[m].providers = FoundBy(found, n - 1, merged[m].url)
        BY <4>1 DEF MergedTo
      <4>3. R[m].providers = FoundBy(found, n, R[m].url)
        <5>1. FoundBy(found, n, merged[m].url) =
                FoundBy(found, n - 1, merged[m].url) \cup
                  IF r.url = merged[m].url THEN {r.owner} ELSE {}
          BY <1>3
        <5>2. FoundBy(found, n, merged[m].url) = FoundBy(found, n - 1, merged[m].url)
          BY <4>1, <5>1
        <5>3. QED
          BY <4>1, <4>2, <5>2
      <4>4. \A k \in 1..n : found[k].url = R[m].url => R[m].owner <= found[k].owner
        BY <1>2, <4>1, <4>2 DEF r
      <4>5. QED
        BY <1>2, <4>1, <4>2, <4>3, <4>4
    <3>2. CASE m = L + 1
      <4>1. R[m] = found[n] /\ n \in 1..n
        BY <1>1, <2>2, <3>2 DEF r
      <4>2. \A k \in 1..(n - 1) : found[k].url # r.url
        BY <1>5 DEF MergedTo
      <4>3. FoundBy(found, n - 1, r.url) = {}
        BY <4>2 DEF FoundBy
      <4>4. R[m].providers = FoundBy(found, n, R[m].url)
        BY <1>1, <1>3, <4>1, <4>3 DEF r
      <4>5. \A k \in 1..n : found[k].url = R[m].url => R[m].owner <= found[k].owner
        BY <1>1, <1>2, <4>1, <4>2 DEF r
      <4>6. QED
        BY <4>1, <4>4, <4>5
    <3>3. QED
      BY <2>2, <3>1, <3>2
  <2>6. QED
    BY <2>3, <2>4, <2>5 DEF MergedTo, R, r
<1>6. QED
  BY <1>4, <1>5

\* Merging merges all results.
LEMMA MergedFacts ==
  ASSUME NEW found \in Seq(Results), Listed(found)
  PROVE  Merged(found) \in Seq(Results) /\ MergedTo(Merged(found), found, Len(found))
<1>1. PICK merged : MergedTurns(merged, found)
  BY MergedLoop
<1> DEFINE L == Len(found)
           Good == {n \in 0..L : MergedTo(merged[n], found, n)}
<1>2. /\ L \in Nat /\ merged \in [0..L -> Seq(Results)] /\ merged[0] = <<>>
      /\ Merged(found) = merged[L]
      /\ \A n \in 1..L : merged[n] = Merge(merged[n - 1], found[n])
  BY <1>1 DEF MergedTurns
<1>3. 0 \in Good
  <2>1. DOMAIN merged[0] = {} /\ 1..0 = {} /\ 0 \in 0..L
    BY <1>2
  <2>2. MergedTo(merged[0], found, 0)
    BY <2>1 DEF MergedTo
  <2>3. QED
    BY <2>1, <2>2
<1>4. ASSUME NEW n \in 1..L, n - 1 \in Good PROVE n \in Good
  <2>1. n - 1 \in 0..L /\ n \in 0..L /\ n \in 1..Len(found) /\ MergedTo(merged[n - 1], found, n - 1)
    BY <1>2, <1>4
  <2>2. merged[n - 1] \in Seq(Results) /\ merged[n] = Merge(merged[n - 1], found[n])
    BY <1>2, <2>1
  <2>3. MergedTo(merged[n], found, n)
    BY <2>1, <2>2, MergeNext
  <2>4. QED
    BY <2>1, <2>3
<1> HIDE DEF Good
<1>5. \A n \in 0..L : n \in Good
  BY <1>2, <1>3, <1>4, Climb
<1>6. L \in 0..L
  BY <1>2
<1> HIDE DEF L
<1>7. MergedTo(merged[L], found, L)
  BY <1>5, <1>6 DEF Good
<1>8. QED
  BY <1>2, <1>6, <1>7 DEF L

\* All results, provider by provider.
AllFound == FlattenSeq([i \in DOMAIN execs |-> execs[i].results])

\* What the executions brought is listed, with who brought it.
LEMMA AllFoundFacts ==
  ASSUME VarsOK, ExecutionsOK
  PROVE  /\ AllFound \in Seq(Results) /\ Listed(AllFound)
         /\ \A n \in 1..Len(AllFound) :
              /\ AllFound[n].owner \in DOMAIN execs /\ AllFound[n].url \in ToSet(ask.urls)
              /\ AllFound[n].size = WholeSize(AllFound[n].owner)
         /\ \A u : FoundBy(AllFound, Len(AllFound), u) = {i \in DOMAIN execs : u \in Resolved(i)}
<1> DEFINE seqs == [i \in DOMAIN execs |-> execs[i].results]
           found == AllFound
<1>1. DOMAIN execs = 1..Len(execs) /\ Len(execs) \in Nat
      /\ \A i \in DOMAIN execs : execs[i].results \in Seq(Results)
  BY ExecutionFacts DEF ExecutionsTypeOK
<1>2. seqs \in Seq(Seq(Results)) /\ Len(seqs) = Len(execs) /\ DOMAIN seqs = DOMAIN execs
  <2>1. seqs \in [1..Len(execs) -> Seq(Results)]
    BY <1>1
  <2>2. QED
    BY <1>1, <2>1
<1>3. \A i \in DOMAIN execs : seqs[i] = execs[i].results
  OBVIOUS
<1>4. found = FlattenSeq(seqs)
  BY DEF AllFound
<1> HIDE DEF seqs, found
<1>5. found \in Seq(Results) /\ \E o, k : Origins(o, k, found, seqs)
  BY <1>2, <1>4, FlattenOrigins
<1>6. PICK o, k : Origins(o, k, found, seqs)
  BY <1>5
<1> DEFINE L == Len(found)
<1>7. /\ L \in Nat /\ o \in [1..L -> DOMAIN execs]
      /\ \A m, n \in 1..L : m < n => o[m] <= o[n]
      /\ \A n \in 1..L : k[n] \in DOMAIN execs[o[n]].results /\ found[n] = execs[o[n]].results[k[n]]
      /\ \A i \in DOMAIN execs : \A m \in DOMAIN execs[i].results :
           \E n \in 1..L : o[n] = i /\ k[n] = m
  <2>1. /\ L \in Nat /\ o \in [1..L -> 1..Len(seqs)] /\ 1..Len(seqs) = DOMAIN execs
        /\ \A m, n \in 1..L : m < n => o[m] <= o[n]
        /\ \A n \in 1..L : k[n] \in 1..Len(seqs[o[n]]) /\ found[n] = seqs[o[n]][k[n]]
        /\ \A i \in DOMAIN execs : \A m \in 1..Len(seqs[i]) : \E n \in 1..L : o[n] = i /\ k[n] = m
    <3>1. 1..Len(seqs) = DOMAIN execs
      BY <1>1, <1>2
    <3>2. L \in Nat
      BY <1>5
    <3>3. /\ o \in [1..L -> 1..Len(seqs)]
          /\ \A m, n \in 1..L : m < n => o[m] <= o[n]
          /\ \A n \in 1..L : k[n] \in 1..Len(seqs[o[n]]) /\ found[n] = seqs[o[n]][k[n]]
          /\ \A i \in 1..Len(seqs) : \A m \in 1..Len(seqs[i]) :
               \E n \in 1..L : o[n] = i /\ k[n] = m
      BY <1>6 DEF Origins
    <3> HIDE DEF L
    <3>4. QED
      BY <3>1, <3>2, <3>3
  <2>2. \A i \in DOMAIN execs : seqs[i] = execs[i].results /\ 1..Len(seqs[i]) = DOMAIN execs[i].results
    BY <1>1, <1>3
  <2> HIDE DEF L, seqs
  <2>3. o \in [1..L -> DOMAIN execs]
    BY <2>1
  <2>4. ASSUME NEW n \in 1..L
        PROVE  k[n] \in DOMAIN execs[o[n]].results /\ found[n] = execs[o[n]].results[k[n]]
    <3>1. o[n] \in DOMAIN execs
      BY <2>3
    <3>2. k[n] \in 1..Len(seqs[o[n]]) /\ found[n] = seqs[o[n]][k[n]]
      BY <2>1
    <3>3. QED
      BY <2>2, <3>1, <3>2
  <2>5. ASSUME NEW i \in DOMAIN execs, NEW m \in DOMAIN execs[i].results
        PROVE  \E n \in 1..L : o[n] = i /\ k[n] = m
    <3>1. i \in 1..Len(seqs)
      BY <2>1
    <3>2. m \in 1..Len(seqs[i])
      BY <2>2
    <3>3. QED
      BY <2>1, <3>1, <3>2
  <2>6. QED
    BY <2>1, <2>3, <2>4, <2>5
<1>8. \A i \in DOMAIN execs : \A m \in DOMAIN execs[i].results :
        /\ execs[i].results[m].owner = i /\ execs[i].results[m].providers = {i}
        /\ execs[i].results[m].size = WholeSize(i)
        /\ execs[i].results[m].url \in ToSet(ask.urls)
  <2> SUFFICES ASSUME NEW i \in DOMAIN execs, NEW m \in DOMAIN execs[i].results
               PROVE  /\ execs[i].results[m].owner = i /\ execs[i].results[m].providers = {i}
                      /\ execs[i].results[m].size = WholeSize(i)
                      /\ execs[i].results[m].url \in ToSet(ask.urls)
    OBVIOUS
  <2>1. BroughtOK(i) /\ ToSet(Assigned(i)) \subseteq ToSet(ask.urls)
    BY AssignedFacts DEF ExecutionsOK, AssignedOK
  <2>2. execs[i].results[m].url \in Resolved(i)
    BY DEF Resolved
  <2>3. QED
    BY <2>1, <2>2 DEF BroughtOK
<1> HIDE DEF L
<1>9. \A n \in 1..L : /\ found[n].owner = o[n] /\ found[n].providers = {o[n]}
                      /\ found[n].size = WholeSize(o[n]) /\ o[n] \in DOMAIN execs
                      /\ found[n].url \in ToSet(ask.urls)
  BY <1>7, <1>8
<1>10. Listed(found)
  <2> SUFFICES ASSUME NEW n \in 1..L
               PROVE  /\ found[n].providers = {found[n].owner}
                      /\ \A m \in 1..n : found[m].owner <= found[n].owner
    BY DEF Listed, L
  <2>1. \A m \in 1..n : m \in 1..L /\ (m < n \/ m = n)
    BY <1>7
  <2>2. \A m \in 1..n : o[m] <= o[n]
    <3>1. o[n] <= o[n]
      BY <1>1, <1>7
    <3>2. QED
      BY <1>7, <2>1, <3>1
  <2>3. QED
    BY <1>9, <2>1, <2>2
<1>11. ASSUME NEW u PROVE FoundBy(found, L, u) = {i \in DOMAIN execs : u \in Resolved(i)}
  <2>1. ASSUME NEW i \in FoundBy(found, L, u) PROVE i \in DOMAIN execs /\ u \in Resolved(i)
    <3>1. PICK n \in 1..L : found[n].url = u /\ found[n].owner = i
      BY DEF FoundBy
    <3>2. i = o[n] /\ i \in DOMAIN execs
      BY <1>9, <3>1
    <3>3. k[n] \in DOMAIN execs[i].results /\ execs[i].results[k[n]].url = u
      BY <1>7, <3>1, <3>2
    <3>4. QED
      BY <3>2, <3>3 DEF Resolved
  <2>2. ASSUME NEW i \in DOMAIN execs, u \in Resolved(i) PROVE i \in FoundBy(found, L, u)
    <3>1. PICK m \in DOMAIN execs[i].results : execs[i].results[m].url = u
      BY <2>2 DEF Resolved
    <3>2. PICK n \in 1..L : o[n] = i /\ k[n] = m
      BY <1>7, <3>1
    <3>3. found[n].url = u /\ found[n].owner = i
      BY <1>7, <1>9, <3>1, <3>2
    <3>4. QED
      BY <3>3 DEF FoundBy
  <2>3. QED
    BY <2>1, <2>2
<1>12. \A n \in 1..L : /\ found[n].owner \in DOMAIN execs /\ found[n].url \in ToSet(ask.urls)
                       /\ found[n].size = WholeSize(found[n].owner)
  BY <1>9
<1>13. QED
  BY <1>5, <1>10, <1>11, <1>12 DEF found, L

\* The results of an extraction: what was brought, in the order requested, each with
\* the first that brought it and the names of all that did.
ResultsOK(results) ==
  /\ results \in Seq(Results)
  /\ \A j, k \in DOMAIN results : j < k => Place(results[j].url) < Place(results[k].url)
  /\ \A u : (\E n \in DOMAIN results : results[n].url = u) <=> BroughtBy(u) # {}
  /\ \A n \in DOMAIN results :
       /\ results[n].url \in ToSet(ask.urls)
       /\ results[n].providers = BroughtBy(results[n].url)
       /\ results[n].owner \in BroughtBy(results[n].url)
       /\ \A i \in BroughtBy(results[n].url) : results[n].owner <= i
       /\ results[n].owner \in DOMAIN execs
       /\ results[n].size = WholeSize(results[n].owner)

\* The place of a URL that was asked for is where it was asked for.
LEMMA PlaceFacts ==
  ASSUME VarsOK, NEW u \in ToSet(ask.urls)
  PROVE  Place(u) \in DOMAIN ask.urls /\ ask.urls[Place(u)] = u
<1>1. \E n \in DOMAIN ask.urls : ask.urls[n] = u
  BY DEF ToSet
<1>2. QED
  BY <1>1 DEF Place

\* mergeExtractResults gives them.
LEMMA MergedResultsFacts ==
  ASSUME ExtractInv, Running
  PROVE  ResultsOK(MergedResults)
<1> DEFINE found == AllFound
           merged == Merged(found)
           places == [n \in DOMAIN merged |-> Place(merged[n].url)]
           sorted == SortedBy(merged, places)
<1>1. VarsOK /\ ExecutionsOK
  BY DEF ExtractInv
<1>2. /\ found \in Seq(Results) /\ Listed(found)
      /\ \A n \in 1..Len(found) :
           /\ found[n].owner \in DOMAIN execs /\ found[n].url \in ToSet(ask.urls)
           /\ found[n].size = WholeSize(found[n].owner)
      /\ \A u : FoundBy(found, Len(found), u) = {i \in DOMAIN execs : u \in Resolved(i)}
  BY <1>1, AllFoundFacts
<1>3. MergedResults = sorted
  BY DEF MergedResults, AllFound
<1>4. \A u : FoundBy(found, Len(found), u) = BroughtBy(u)
  BY <1>2, BroughtFacts
<1> HIDE DEF found
<1>5. merged \in Seq(Results) /\ MergedTo(merged, found, Len(found))
  BY <1>2, MergedFacts
<1> HIDE DEF merged
<1>6. ASSUME NEW n \in DOMAIN merged
      PROVE  /\ merged[n].url \in ToSet(ask.urls)
             /\ merged[n].providers = BroughtBy(merged[n].url)
             /\ merged[n].owner \in BroughtBy(merged[n].url)
             /\ \A i \in BroughtBy(merged[n].url) : merged[n].owner <= i
             /\ merged[n].owner \in DOMAIN execs
             /\ merged[n].size = WholeSize(merged[n].owner)
  <2>1. PICK k \in 1..Len(found) :
          /\ found[k].url = merged[n].url /\ found[k].owner = merged[n].owner
          /\ found[k].size = merged[n].size
    BY <1>5 DEF MergedTo
  <2>2. /\ \A j \in 1..Len(found) : found[j].url = merged[n].url =>
                                      merged[n].owner <= found[j].owner
        /\ merged[n].providers = FoundBy(found, Len(found), merged[n].url)
    BY <1>5 DEF MergedTo
  <2>3. merged[n].owner \in FoundBy(found, Len(found), merged[n].url)
    BY <2>1 DEF FoundBy
  <2>4. \A i \in FoundBy(found, Len(found), merged[n].url) : merged[n].owner <= i
    BY <2>2 DEF FoundBy
  <2>5. QED
    BY <1>2, <1>4, <2>1, <2>2, <2>3, <2>4
<1>7. ASSUME NEW u PROVE (\E n \in DOMAIN merged : merged[n].url = u) <=> BroughtBy(u) # {}
  <2>1. ASSUME NEW n \in DOMAIN merged, merged[n].url = u PROVE BroughtBy(u) # {}
    BY <1>6, <2>1
  <2>2. ASSUME NEW i \in BroughtBy(u) PROVE \E n \in DOMAIN merged : merged[n].url = u
    <3>1. i \in FoundBy(found, Len(found), u)
      BY <1>4, <2>2
    <3>2. PICK k \in 1..Len(found) : found[k].url = u
      BY <3>1 DEF FoundBy
    <3>3. QED
      BY <1>5, <3>2 DEF MergedTo
  <2>3. QED
    BY <2>1, <2>2
<1>8. /\ \A n \in DOMAIN merged : /\ Place(merged[n].url) \in DOMAIN ask.urls
                                  /\ ask.urls[Place(merged[n].url)] = merged[n].url
      /\ DOMAIN ask.urls \subseteq Nat
  <2>1. DOMAIN ask.urls \subseteq Nat
    BY <1>1 DEF VarsOK, Requests
  <2>2. QED
    BY <1>1, <1>6, <2>1, PlaceFacts
<1>9. places \in [DOMAIN merged -> Int]
  BY <1>8
<1>10. \A n \in DOMAIN merged : places[n] = Place(merged[n].url)
  OBVIOUS
<1> HIDE DEF places
<1>11. sorted \in Seq(Results) /\ \E p : Sorts(p, sorted, merged, places)
  BY <1>5, <1>9, SortedBySorts
<1>12. PICK p : Sorts(p, sorted, merged, places)
  BY <1>11
<1> HIDE DEF sorted
<1>13. /\ p \in Bijection(DOMAIN merged, DOMAIN merged) /\ DOMAIN sorted = DOMAIN merged
       /\ \A k \in DOMAIN merged : sorted[k] = merged[p[k]]
       /\ \A j, k \in DOMAIN merged : j < k => p[j] # p[k] /\ NoLater(places, p[j], p[k])
  BY <1>12 DEF Sorts
<1>14. /\ \A k \in DOMAIN merged : p[k] \in DOMAIN merged
       /\ \A n \in DOMAIN merged : \E k \in DOMAIN merged : p[k] = n
  BY <1>13 DEF Bijection, Injection, Surjection
<1>15. ASSUME NEW j \in DOMAIN sorted, NEW k \in DOMAIN sorted, j < k
       PROVE  Place(sorted[j].url) < Place(sorted[k].url)
  <2>1. /\ j \in DOMAIN merged /\ k \in DOMAIN merged
        /\ p[j] \in DOMAIN merged /\ p[k] \in DOMAIN merged /\ p[j] # p[k]
        /\ NoLater(places, p[j], p[k])
    BY <1>13, <1>14, <1>15
  <2>2. merged[p[j]].url # merged[p[k]].url
    BY <1>5, <2>1 DEF MergedTo
  <2>3. Place(merged[p[j]].url) # Place(merged[p[k]].url)
    BY <1>8, <2>1, <2>2
  <2>4. places[p[j]] = Place(merged[p[j]].url) /\ places[p[k]] = Place(merged[p[k]].url)
        /\ places[p[j]] \in Int /\ places[p[k]] \in Int
    BY <1>9, <1>10, <2>1
  <2>5. QED
    BY <1>13, <2>1, <2>3, <2>4 DEF NoLater
<1>16. ASSUME NEW u PROVE (\E n \in DOMAIN sorted : sorted[n].url = u) <=> BroughtBy(u) # {}
  <2>1. ASSUME NEW n \in DOMAIN sorted, sorted[n].url = u PROVE BroughtBy(u) # {}
    <3>1. p[n] \in DOMAIN merged /\ merged[p[n]].url = u
      BY <1>13, <1>14, <2>1
    <3>2. QED
      BY <1>7, <3>1
  <2>2. ASSUME BroughtBy(u) # {} PROVE \E n \in DOMAIN sorted : sorted[n].url = u
    <3>1. PICK m \in DOMAIN merged : merged[m].url = u
      BY <1>7, <2>2
    <3>2. PICK k \in DOMAIN merged : p[k] = m
      BY <1>14
    <3>3. k \in DOMAIN sorted /\ sorted[k] = merged[m]
      BY <1>13, <3>2
    <3>4. QED
      BY <3>1, <3>3
  <2>3. QED
    BY <2>1, <2>2
<1>17. ASSUME NEW n \in DOMAIN sorted
       PROVE  /\ sorted[n].url \in ToSet(ask.urls)
              /\ sorted[n].providers = BroughtBy(sorted[n].url)
              /\ sorted[n].owner \in BroughtBy(sorted[n].url)
              /\ \A i \in BroughtBy(sorted[n].url) : sorted[n].owner <= i
              /\ sorted[n].owner \in DOMAIN execs
              /\ sorted[n].size = WholeSize(sorted[n].owner)
  <2>1. p[n] \in DOMAIN merged /\ sorted[n] = merged[p[n]]
    BY <1>13, <1>14
  <2>2. QED
    BY <1>6, <2>1
<1>18. ResultsOK(sorted)
  BY <1>11, <1>15, <1>16, <1>17 DEF ResultsOK
<1>19. QED
  BY <1>3, <1>18

-----------------------------------------------------------------------------
(* The results are cut to the bounds of the response. *)

\* Cutting changes sizes only.
LEMMA CutFacts ==
  ASSUME NEW results \in Seq(Results), NEW cap \in Nat
  PROVE  LET t == Cut(results, cap) IN
         /\ t \in Seq(Results) /\ DOMAIN t = DOMAIN results /\ Len(t) = Len(results)
         /\ \A n \in DOMAIN results :
              t[n] = [url |-> results[n].url, owner |-> results[n].owner,
                      providers |-> results[n].providers,
                      size |-> Smaller(results[n].size, cap)]
<1> DEFINE t == Cut(results, cap)
           e(n) == [url |-> results[n].url, owner |-> results[n].owner,
                    providers |-> results[n].providers, size |-> Smaller(results[n].size, cap)]
<1>1. DOMAIN results = 1..Len(results) /\ Len(results) \in Nat
      /\ \A n \in DOMAIN results : results[n] \in Results
  OBVIOUS
<1>2. ASSUME NEW n \in DOMAIN results PROVE t[n] = e(n) /\ e(n) \in Results
  <2> DEFINE d == results[n]
  <2>1. d \in Results
    BY <1>1
  <2>2. t[n] = [d EXCEPT !.size = Smaller(@, cap)]
    BY DEF Cut
  <2> HIDE DEF d
  <2>3. d = [url |-> d.url, owner |-> d.owner, providers |-> d.providers, size |-> d.size]
        /\ d.url \in Urls /\ d.owner \in Nat /\ d.providers \in SUBSET Nat /\ d.size \in Nat
    BY <2>1 DEF Results
  <2>4. t[n] = [url |-> d.url, owner |-> d.owner, providers |-> d.providers,
                size |-> Smaller(d.size, cap)]
    BY <2>2, <2>3
  <2>5. Smaller(d.size, cap) \in Nat
    BY <2>3 DEF Smaller
  <2>6. [url |-> d.url, owner |-> d.owner, providers |-> d.providers,
         size |-> Smaller(d.size, cap)] \in Results
    BY <2>3, <2>5 DEF Results
  <2>7. QED
    BY <2>4, <2>6 DEF d
<1>3. DOMAIN t = DOMAIN results /\ t = [n \in DOMAIN results |-> t[n]]
  BY DEF Cut
<1> HIDE DEF t, e
<1>4. t \in [1..Len(results) -> Results]
  BY <1>1, <1>2, <1>3
<1>5. t \in Seq(Results) /\ Len(t) = Len(results)
  BY <1>1, <1>4
<1>6. QED
  BY <1>2, <1>3, <1>5 DEF t, e

\* The content of results is a number, no smaller where every size is no smaller.
LEMMA ContentFacts ==
  ASSUME NEW s \in Seq(Results), NEW t \in Seq(Results), Len(s) = Len(t),
         \A n \in DOMAIN s : s[n].size <= t[n].size
  PROVE  Content(s) \in Nat /\ Content(t) \in Nat /\ Content(s) <= Content(t)
<1> DEFINE a == [n \in DOMAIN s |-> s[n].size]
           b == [n \in DOMAIN t |-> t[n].size]
<1>1. /\ DOMAIN s = 1..Len(s) /\ DOMAIN t = 1..Len(s) /\ Len(s) \in Nat
      /\ \A n \in 1..Len(s) : s[n] \in Results /\ t[n] \in Results
  OBVIOUS
<1>2. \A r \in Results : r.size \in Nat
  BY DEF Results
<1>3. a \in [1..Len(s) -> Nat] /\ b \in [1..Len(s) -> Nat]
  BY <1>1, <1>2
<1>4. a \in Seq(Nat) /\ b \in Seq(Nat) /\ Len(a) = Len(s) /\ Len(b) = Len(s)
  BY <1>1, <1>3
<1>5. \A n \in 1..Len(a) : a[n] <= b[n]
  BY <1>1, <1>4
<1>6. Content(s) = Total(a) /\ Content(t) = Total(b)
  BY DEF Content
<1> HIDE DEF a, b
<1>7. Total(a) \in Nat /\ Total(b) \in Nat /\ Total(a) <= Total(b)
  BY <1>4, <1>5, SumsFacts, TotalMonotone
<1>8. QED
  BY <1>6, <1>7

\* What is cut to less is no larger, and what is cut to nothing is nothing.
LEMMA CutContent ==
  ASSUME NEW s \in Seq(Results)
  PROVE  /\ Content(s) \in Nat
         /\ \A c \in Nat : Content(Cut(s, c)) \in Nat /\ Content(Cut(s, c)) <= Content(s)
         /\ \A b, c \in Nat : b <= c => Content(Cut(s, b)) <= Content(Cut(s, c))
         /\ Content(Cut(s, 0)) = 0
<1>1. \A n \in DOMAIN s : s[n].size \in Nat
  <2>1. \A n \in DOMAIN s : s[n] \in Results
    OBVIOUS
  <2>2. QED
    BY <2>1 DEF Results
<1>2. \A c \in Nat : /\ Cut(s, c) \in Seq(Results) /\ Len(Cut(s, c)) = Len(s)
                     /\ DOMAIN Cut(s, c) = DOMAIN s
                     /\ \A n \in DOMAIN s : Cut(s, c)[n].size = Smaller(s[n].size, c)
  <2> TAKE c \in Nat
  <2> DEFINE t == Cut(s, c)
  <2>1. /\ t \in Seq(Results) /\ DOMAIN t = DOMAIN s /\ Len(t) = Len(s)
        /\ \A n \in DOMAIN s :
             t[n] = [url |-> s[n].url, owner |-> s[n].owner, providers |-> s[n].providers,
                     size |-> Smaller(s[n].size, c)]
    BY CutFacts
  <2> HIDE DEF t
  <2>2. \A n \in DOMAIN s : t[n].size = Smaller(s[n].size, c)
    BY <2>1
  <2>3. QED
    BY <2>1, <2>2 DEF t
<1>3. ASSUME NEW c \in Nat
      PROVE  Content(Cut(s, c)) \in Nat /\ Content(s) \in Nat /\ Content(Cut(s, c)) <= Content(s)
  <2>1. \A n \in DOMAIN Cut(s, c) : Cut(s, c)[n].size <= s[n].size
    BY <1>1, <1>2 DEF Smaller
  <2>2. QED
    BY <1>2, <2>1, ContentFacts
<1>4. ASSUME NEW b \in Nat, NEW c \in Nat, b <= c
      PROVE  Content(Cut(s, b)) <= Content(Cut(s, c))
  <2>1. \A n \in DOMAIN Cut(s, b) : Cut(s, b)[n].size <= Cut(s, c)[n].size
    BY <1>1, <1>2, <1>4 DEF Smaller
  <2>2. QED
    BY <1>2, <2>1, ContentFacts
<1>5. Content(Cut(s, 0)) = 0
  <2> DEFINE t == Cut(s, 0)
             a == [n \in DOMAIN t |-> t[n].size]
  <2>1. \A n \in DOMAIN t : t[n].size = 0
    BY <1>1, <1>2 DEF Smaller
  <2>2. t \in Seq(Results)
    BY <1>2
  <2> HIDE DEF t
  <2>3. a \in [1..Len(t) -> Nat] /\ Len(t) \in Nat /\ DOMAIN t = 1..Len(t)
    BY <2>1, <2>2
  <2>4. a \in Seq(Nat) /\ \A n \in 1..Len(a) : a[n] = 0
    BY <2>1, <2>3
  <2>5. Content(t) = Total(a)
    BY DEF Content
  <2> HIDE DEF a
  <2>6. QED
    BY <2>4, <2>5, TotalZero DEF t
<1>6. Content(s) \in Nat
  BY <1>3
<1>7. QED
  BY <1>3, <1>4, <1>5, <1>6

\* Cutting twice is cutting once, to the lesser size; cutting to enough is not cutting.
LEMMA CutTwice ==
  ASSUME NEW s \in Seq(Results), NEW b \in Nat, NEW c \in Nat
  PROVE  /\ Cut(Cut(s, b), c) = Cut(s, Smaller(b, c))
         /\ (\A n \in DOMAIN s : s[n].size <= c) => Cut(s, c) = s
<1> DEFINE t == Cut(s, b)
           u == Cut(t, c)
           v == Cut(s, Smaller(b, c))
<1>1. Smaller(b, c) \in Nat
  BY DEF Smaller
<1>2. /\ t \in Seq(Results) /\ DOMAIN t = DOMAIN s
      /\ \A n \in DOMAIN s :
           t[n] = [url |-> s[n].url, owner |-> s[n].owner, providers |-> s[n].providers,
                   size |-> Smaller(s[n].size, b)]
  BY CutFacts
<1> HIDE DEF t
<1>3. /\ u \in Seq(Results) /\ DOMAIN u = DOMAIN s
      /\ \A n \in DOMAIN s :
           u[n] = [url |-> t[n].url, owner |-> t[n].owner, providers |-> t[n].providers,
                   size |-> Smaller(t[n].size, c)]
  BY <1>2, CutFacts
<1>4. /\ v \in Seq(Results) /\ DOMAIN v = DOMAIN s
      /\ \A n \in DOMAIN s :
           v[n] = [url |-> s[n].url, owner |-> s[n].owner, providers |-> s[n].providers,
                   size |-> Smaller(s[n].size, Smaller(b, c))]
  BY <1>1, CutFacts
<1>5. \A n \in DOMAIN s : s[n] \in Results /\ s[n].size \in Nat
  <2>1. \A r \in Results : r.size \in Nat
    BY DEF Results
  <2>2. QED
    BY <2>1
<1> HIDE DEF u, v
<1>6. ASSUME NEW n \in DOMAIN s PROVE u[n] = v[n]
  <2>1. Smaller(Smaller(s[n].size, b), c) = Smaller(s[n].size, Smaller(b, c))
    BY <1>5 DEF Smaller
  <2>2. u[n] = [url |-> s[n].url, owner |-> s[n].owner, providers |-> s[n].providers,
                size |-> Smaller(Smaller(s[n].size, b), c)]
    BY <1>2, <1>3
  <2>3. QED
    BY <1>4, <2>1, <2>2
<1>7. u = v
  BY <1>3, <1>4, <1>6
<1>8. ASSUME \A n \in DOMAIN s : s[n].size <= c PROVE Cut(s, c) = s
  <2> DEFINE w == Cut(s, c)
  <2>1. /\ w \in Seq(Results) /\ DOMAIN w = DOMAIN s
        /\ \A n \in DOMAIN s :
             w[n] = [url |-> s[n].url, owner |-> s[n].owner, providers |-> s[n].providers,
                     size |-> Smaller(s[n].size, c)]
    BY CutFacts
  <2> HIDE DEF w
  <2>2. ASSUME NEW n \in DOMAIN s PROVE w[n] = s[n]
    <3>1. Smaller(s[n].size, c) = s[n].size
      BY <1>5, <1>8 DEF Smaller
    <3>2. s[n] = [url |-> s[n].url, owner |-> s[n].owner, providers |-> s[n].providers,
                  size |-> s[n].size]
      BY <1>5 DEF Results
    <3>3. QED
      BY <2>1, <3>1, <3>2
  <2>3. QED
    BY <2>1, <2>2 DEF w
<1>9. QED
  BY <1>7, <1>8 DEF t, u, v

\* One turn of the search keeps both ends in their places, and brings them closer.
LEMMA NarrowedFacts ==
  ASSUME NEW results \in Seq(Results), NEW range \in [low : Nat, high : Nat]
  PROVE  LET next == Narrowed(results, range) IN
         /\ next \in [low : Nat, high : Nat]
         /\ range.low >= range.high => next = range
         /\ range.low < range.high =>
              /\ next.low <= next.high /\ next.high <= range.high
              /\ next.high - next.low < range.high - range.low
              /\ \/ next.low = range.low
                 \/ Content(Cut(results, next.low)) <= MaxContent
              /\ \/ next.high = range.high
                 \/ ~(Content(Cut(results, next.high + 1)) <= MaxContent)
<1> DEFINE low == range.low
           high == range.high
           candidate == low + (high - low + 1) \div 2
           next == Narrowed(results, range)
<1>1. low \in Nat /\ high \in Nat
  OBVIOUS
<1>2. next = IF low >= high THEN range
             ELSE IF Content(Cut(results, candidate)) <= MaxContent
                    THEN [low |-> candidate, high |-> high]
                    ELSE [low |-> low, high |-> candidate - 1]
  BY DEF Narrowed
<1>3. ASSUME low < high PROVE candidate \in Nat /\ low < candidate /\ candidate <= high
  BY <1>1, <1>3
<1> HIDE DEF next, candidate, low, high
<1>4. CASE low >= high
  BY <1>1, <1>2, <1>4 DEF next, low, high
<1>5. CASE low < high /\ Content(Cut(results, candidate)) <= MaxContent
  <2>1. next = [low |-> candidate, high |-> high]
    BY <1>1, <1>2, <1>5
  <2>2. next \in [low : Nat, high : Nat] /\ next.low = candidate /\ next.high = high
    BY <1>1, <1>3, <1>5, <2>1
  <2>3. next.high - next.low < high - low /\ next.low <= next.high /\ ~(low >= high)
    BY <1>1, <1>3, <1>5, <2>2
  <2>4. QED
    BY <1>1, <1>5, <2>2, <2>3 DEF next, low, high
<1>6. CASE low < high /\ ~(Content(Cut(results, candidate)) <= MaxContent)
  <2>1. next = [low |-> low, high |-> candidate - 1]
    BY <1>1, <1>2, <1>6
  <2>2. next \in [low : Nat, high : Nat] /\ next.low = low /\ next.high = candidate - 1
    BY <1>1, <1>3, <1>6, <2>1
  <2>3. /\ next.high - next.low < high - low /\ next.low <= next.high /\ ~(low >= high)
        /\ next.high <= high /\ next.high + 1 = candidate
    BY <1>1, <1>3, <1>6, <2>2
  <2>4. QED
    BY <1>6, <2>2, <2>3 DEF next, low, high
<1>7. QED
  BY <1>1, <1>4, <1>5, <1>6

\* The turns of the search.
ShareTurns(range, results) ==
  /\ range \in [0..Longest(results) -> [low : Nat, high : Nat]]
  /\ Share(results) = range[Longest(results)].low
  /\ range[0] = [low |-> 0, high |-> Longest(results)]
  /\ \A n \in 1..Longest(results) :
       range[n] = Narrowed(results, range[n - 1])

\* There is a loop as the definition of Share describes.
LEMMA ShareLoop ==
  ASSUME NEW results \in Seq(Results), Longest(results) \in Nat
  PROVE  \E range : ShareTurns(range, results)
<1> DEFINE L == Longest(results)
           Body(g) == [n \in 0..L |-> IF n = 0 THEN [low |-> 0, high |-> Longest(results)] ELSE
                                         Narrowed(results, g[n - 1])]
           turn == [n \in 1..L |-> [before \in [low : Nat, high : Nat] |->
                                         Narrowed(results, before)]]
           range == CHOOSE g : g = Body(g)
<1>1. L \in Nat
  OBVIOUS
<1>2. [low |-> 0, high |-> Longest(results)] \in [low : Nat, high : Nat]
  OBVIOUS
<1>3. ASSUME NEW n \in 1..L, NEW before \in [low : Nat, high : Nat]
      PROVE  (Narrowed(results, before)) \in [low : Nat, high : Nat]
  BY NarrowedFacts
<1>4. \E g : g = Body(g)
  <2>1. turn \in [1..L -> [[low : Nat, high : Nat] -> [low : Nat, high : Nat]]]
    <3> HIDE DEF L
    <3>1. QED
      BY <1>3
  <2>2. PICK g \in [0..L -> [low : Nat, high : Nat]] :
          g[0] = [low |-> 0, high |-> Longest(results)] /\ \A n \in 1..L : g[n] = turn[n][g[n - 1]]
    <3> HIDE DEF turn, L
    <3>1. \E g : IsLoop(g, L, [low : Nat, high : Nat], [low |-> 0, high |-> Longest(results)], turn)
      BY <1>1, <1>2, <2>1, LoopExists
    <3>2. QED
      BY <3>1 DEF IsLoop
  <2>3. ASSUME NEW n \in 0..L PROVE g[n] = Body(g)[n]
    <3>1. CASE n = 0
      BY <2>2, <3>1
    <3>2. CASE n # 0
      <4>1. n \in 1..L /\ n - 1 \in 0..L
        BY <1>1, <3>2
      <4>2. g[n - 1] \in [low : Nat, high : Nat] /\ g[n] = turn[n][g[n - 1]]
        <5> HIDE DEF turn, L
        <5>1. QED
          BY <2>2, <3>2, <4>1
      <4>3. turn[n][g[n - 1]] = Narrowed(results, g[n - 1])
        <5> HIDE DEF L
        <5>1. QED
          BY <4>1, <4>2
      <4>4. QED
        BY <3>2, <4>2, <4>3
    <3>3. QED
      BY <3>1, <3>2
  <2>4. g = Body(g)
    BY <2>2, <2>3
  <2>5. QED
    BY <2>4
<1>5. range = Body(range)
  BY <1>4
<1>6. Share(results) = range[L].low
  BY DEF Share
<1> HIDE DEF range
<1>7. range[0] = [low |-> 0, high |-> Longest(results)]
  BY <1>1, <1>5
<1>8. ASSUME NEW n \in 1..L
      PROVE  range[n] = Narrowed(results, range[n - 1])
  <2>1. n \in 0..L /\ n # 0
    BY <1>1
  <2>2. QED
    BY <1>5, <2>1
<1>9. \A n \in 0..L : range[n] \in [low : Nat, high : Nat]
  <2> DEFINE Good == {n \in 0..L : range[n] \in [low : Nat, high : Nat]}
  <2>1. 0 \in Good
    <3>1. 0 \in 0..L
      BY <1>1
    <3>2. QED
      BY <1>2, <1>7, <3>1
  <2>2. ASSUME NEW n \in 1..L, n - 1 \in Good PROVE n \in Good
    <3>1. n \in 0..L /\ range[n - 1] \in [low : Nat, high : Nat]
      BY <1>1, <2>2
    <3> HIDE DEF L
    <3>2. range[n] \in [low : Nat, high : Nat]
      BY <1>3, <1>8, <3>1
    <3>3. QED
      BY <3>1, <3>2
  <2>3. \A n \in 0..L : n \in Good
    <3> HIDE DEF Good
    <3>1. QED
      BY <1>1, <2>1, <2>2, Climb
  <2>4. QED
    BY <2>3
<1>10. range \in [0..L -> [low : Nat, high : Nat]]
  <2>1. range = [n \in 0..L |-> range[n]]
    BY <1>5
  <2>2. QED
    BY <1>9, <2>1
<1>11. QED
  BY <1>6, <1>7, <1>8, <1>10 DEF ShareTurns

\* The search ends with the largest cap under which the contents fit.
LEMMA ShareFacts ==
  ASSUME NEW results \in Seq(Results), results # <<>>, ~(Content(results) <= MaxContent)
  PROVE  /\ Share(results) \in Nat
         /\ Content(Cut(results, Share(results))) <= MaxContent
         /\ \A c \in Nat : Content(Cut(results, c)) <= MaxContent => c <= Share(results)
<1> DEFINE sizes == {results[n].size : n \in DOMAIN results}
           K == Longest(results)
           Fits(c) == Content(Cut(results, c)) <= MaxContent
<1>1. DOMAIN results = 1..Len(results) /\ Len(results) \in Nat \ {0}
      /\ \A n \in DOMAIN results : results[n].size \in Nat
  <2>1. \A r \in Results : r.size \in Nat
    BY DEF Results
  <2>2. QED
    BY <2>1
<1>2. K \in Nat /\ \A n \in DOMAIN results : results[n].size <= K
  <2>1. sizes \in SUBSET Nat /\ sizes # {}
    BY <1>1
  <2>2. IsFiniteSet(sizes)
    <3> DEFINE f == [n \in 1..Len(results) |-> results[n].size]
    <3>1. f \in Surjection(1..Len(results), sizes)
      BY <1>1 DEF Surjection
    <3>2. IsFiniteSet(1..Len(results))
      BY <1>1, FS_Interval
    <3> HIDE DEF sizes, f
    <3>3. QED
      BY <3>1, <3>2, FS_Surjection
  <2>3. K = Max(sizes)
    BY DEF Longest
  <2> HIDE DEF sizes
  <2>4. Max(sizes) \in sizes /\ \A n \in sizes : n <= Max(sizes)
    <3>1. sizes \in SUBSET Int
      BY <2>1
    <3>2. QED
      BY <2>1, <2>2, <3>1, MaxFacts
  <2>5. \A n \in DOMAIN results : results[n].size \in sizes
    BY DEF sizes
  <2> HIDE DEF K
  <2>6. QED
    BY <2>1, <2>3, <2>4, <2>5
<1>3. /\ Content(results) \in Nat /\ MaxContent \in Nat
      /\ \A c \in Nat : Content(Cut(results, c)) \in Nat
      /\ \A b, c \in Nat : b <= c => Content(Cut(results, b)) <= Content(Cut(results, c))
      /\ Content(Cut(results, 0)) = 0
  BY CutContent, ExtractAssumption
<1>4. \A b, c \in Nat : b <= c /\ Fits(c) => Fits(b)
  BY <1>3
<1>5. Fits(0) /\ ~Fits(K)
  <2>1. Cut(results, K) = results
    <3> HIDE DEF K
    <3>1. 0 \in Nat
      OBVIOUS
    <3>2. QED
      BY <1>2, <3>1, CutTwice
  <2> HIDE DEF K
  <2>2. QED
    BY <1>3, <2>1
<1>6. PICK range : ShareTurns(range, results)
  BY <1>2, ShareLoop
<1>7. /\ range \in [0..K -> [low : Nat, high : Nat]]
      /\ Share(results) = range[K].low
      /\ range[0] = [low |-> 0, high |-> K]
      /\ \A n \in 1..K : range[n] = Narrowed(results, range[n - 1])
  BY <1>6 DEF ShareTurns
<1> DEFINE Good == {n \in 0..K : /\ range[n].low <= range[n].high
                                 /\ range[n].high - range[n].low <= K - n
                                 /\ Fits(range[n].low)
                                 /\ ~Fits(range[n].high + 1)}
<1> HIDE DEF K
<1>8. 0 \in Good
  <2>1. 0 \in 0..K /\ range[0].low = 0 /\ range[0].high = K
    BY <1>2, <1>7
  <2>2. ~Fits(K + 1)
    <3>1. K <= K + 1 /\ K + 1 \in Nat
      BY <1>2
    <3> HIDE DEF Fits
    <3>2. QED
      BY <1>2, <1>4, <1>5, <3>1
  <2> HIDE DEF Fits
  <2>3. QED
    BY <1>2, <1>5, <2>1, <2>2
<1>9. ASSUME NEW n \in 1..K, n - 1 \in Good PROVE n \in Good
  <2> DEFINE before == range[n - 1]
             next == range[n]
  <2>1. /\ n \in 0..K /\ n - 1 \in 0..K
        /\ before \in [low : Nat, high : Nat] /\ next \in [low : Nat, high : Nat]
        /\ next = Narrowed(results, before)
    <3>1. n \in 0..K /\ n - 1 \in 0..K
      BY <1>2, <1>9
    <3>2. QED
      BY <1>7, <3>1
  <2>2. /\ before.low <= before.high /\ before.high - before.low <= K - (n - 1)
        /\ Fits(before.low) /\ ~Fits(before.high + 1)
    BY <1>9
  <2> HIDE DEF before, next, Good
  <2>3. before.low >= before.high => next = before
    BY <2>1, NarrowedFacts
  <2>4. before.low < before.high =>
          /\ next.low <= next.high /\ next.high <= before.high
          /\ next.high - next.low < before.high - before.low
          /\ next.low = before.low \/ Content(Cut(results, next.low)) <= MaxContent
          /\ next.high = before.high \/ ~(Content(Cut(results, next.high + 1)) <= MaxContent)
    BY <2>1, NarrowedFacts
  <2>5. before.low \in Nat /\ before.high \in Nat /\ next.low \in Nat /\ next.high \in Nat
    BY <2>1
  <2>6. next.low <= next.high /\ next.high - next.low <= K - n
    <3>1. CASE before.low < before.high
      BY <1>2, <2>1, <2>2, <2>4, <2>5, <3>1
    <3>2. CASE before.low >= before.high
      BY <1>2, <2>1, <2>2, <2>3, <2>5, <3>2
    <3>3. QED
      BY <2>5, <3>1, <3>2
  <2>7. Fits(next.low) /\ ~Fits(next.high + 1)
    <3>1. CASE before.low < before.high
      BY <2>2, <2>4, <3>1
    <3>2. CASE before.low >= before.high
      BY <2>2, <2>3, <3>2
    <3>3. QED
      BY <2>5, <3>1, <3>2
  <2> HIDE DEF Fits
  <2>8. QED
    BY <2>1, <2>6, <2>7 DEF Good, next
<1>10. \A n \in 0..K : n \in Good
  <2> HIDE DEF Good
  <2>1. QED
    BY <1>2, <1>8, <1>9, Climb
<1>11. /\ range[K].low <= range[K].high /\ range[K].high - range[K].low <= 0
       /\ Fits(range[K].low) /\ ~Fits(range[K].high + 1)
       /\ range[K].low \in Nat /\ range[K].high \in Nat
  <2>1. K \in 0..K /\ K - K = 0
    BY <1>2
  <2>2. range[K] \in [low : Nat, high : Nat]
    BY <1>7, <2>1
  <2>3. K \in Good
    BY <1>10, <2>1
  <2> HIDE DEF Fits
  <2>4. QED
    BY <2>1, <2>2, <2>3
<1>12. range[K].high = range[K].low
  BY <1>11
<1>13. ASSUME NEW c \in Nat, Fits(c) PROVE c <= Share(results)
  <2>1. ~(range[K].high + 1 <= c)
    <3>1. range[K].high + 1 \in Nat
      BY <1>11
    <3> HIDE DEF Fits
    <3>2. QED
      BY <1>4, <1>11, <1>13, <3>1
  <2>2. QED
    BY <1>7, <1>11, <1>12, <2>1
<1>14. QED
  BY <1>7, <1>11, <1>13

\* Under the bound of a halved content the JSON fits, unless nothing is left of it.
LEMMA HalvedFacts ==
  ASSUME NEW results
  PROVE  /\ HalvedCap(results) \in Nat
         /\ \/ JsonSize(Cut(results, HalvedCap(results)), {"title"}) <= MaxJSON
            \/ HalvedCap(results) = 0
<1> DEFINE halves == {c \in 0..MaxResult : \E k \in 1..MaxResult : c = MaxResult \div 2^k}
           fitting == {c \in halves : JsonSize(Cut(results, c), {"title"}) <= MaxJSON}
           caps == {0} \cup fitting
<1>1. HalvedCap(results) = Max(caps)
  BY DEF HalvedCap
<1>2. fitting \subseteq 0..MaxResult /\ MaxResult \in Nat
  BY ExtractAssumption
<1>3. \A c \in fitting : JsonSize(Cut(results, c), {"title"}) <= MaxJSON
  OBVIOUS
<1> HIDE DEF fitting
<1>4. caps \subseteq 0..MaxResult
  BY <1>2
<1>5. caps # {} /\ \A c \in caps : c = 0 \/ JsonSize(Cut(results, c), {"title"}) <= MaxJSON
  BY <1>3
<1> HIDE DEF caps
<1>6. IsFiniteSet(caps)
  <2>1. IsFiniteSet(0..MaxResult)
    BY <1>2, FS_Interval
  <2>2. QED
    BY <1>4, <2>1, FS_Subset
<1>7. Max(caps) \in caps
  <2>1. caps \in SUBSET Int
    BY <1>2, <1>4
  <2>2. QED
    BY <1>5, <1>6, <2>1, MaxFacts
<1>8. HalvedCap(results) \in caps
  BY <1>1, <1>7
<1>9. HalvedCap(results) \in Nat
  <2>1. \A c \in 0..MaxResult : c \in Nat
    BY <1>2
  <2>2. QED
    BY <1>4, <1>8, <2>1
<1>10. QED
  BY <1>5, <1>8, <1>9

-----------------------------------------------------------------------------
(* Every URL is answered. *)

\* The results of t are those of s, of another size perhaps.
Names(t, s) ==
  /\ DOMAIN t = DOMAIN s
  /\ \A n \in DOMAIN s : /\ t[n].url = s[n].url /\ t[n].owner = s[n].owner
                         /\ t[n].providers = s[n].providers

\* Cutting changes no names.
LEMMA CutNames ==
  ASSUME NEW s \in Seq(Results), NEW c \in Nat
  PROVE  Cut(s, c) \in Seq(Results) /\ Names(Cut(s, c), s)
<1> DEFINE t == Cut(s, c)
<1>1. /\ t \in Seq(Results) /\ DOMAIN t = DOMAIN s
      /\ \A n \in DOMAIN s :
           t[n] = [url |-> s[n].url, owner |-> s[n].owner, providers |-> s[n].providers,
                   size |-> Smaller(s[n].size, c)]
  BY CutFacts
<1> HIDE DEF t
<1>2. Names(t, s)
  BY <1>1 DEF Names
<1>3. QED
  BY <1>1, <1>2 DEF t

\* Nothing is cut from contents that fit; others are cut to their share.
LEMMA BoundMergedFacts ==
  ASSUME NEW s \in Seq(Results)
  PROVE  /\ BoundMerged(s) \in Seq(Results) /\ Names(BoundMerged(s), s)
         /\ Content(s) <= MaxContent => BoundMerged(s) = s
         /\ ~(Content(s) <= MaxContent) => s # <<>> /\ BoundMerged(s) = Cut(s, Share(s))
<1>1. s = <<>> => Content(s) <= MaxContent
  <2> SUFFICES ASSUME s = <<>> PROVE Content(s) <= MaxContent
    OBVIOUS
  <2> DEFINE sizes == [n \in DOMAIN s |-> s[n].size]
  <2>1. sizes = <<>>
    OBVIOUS
  <2>2. Content(s) = Total(sizes)
    BY DEF Content
  <2> HIDE DEF sizes
  <2>3. sizes \in Seq(Nat) /\ \A n \in 1..Len(sizes) : sizes[n] = 0
    BY <2>1
  <2>4. Total(sizes) = 0
    BY <2>3, TotalZero
  <2>5. QED
    BY <2>2, <2>4, ExtractAssumption
<1>2. CASE Content(s) <= MaxContent
  BY <1>2 DEF BoundMerged, Names
<1>3. CASE ~(Content(s) <= MaxContent)
  <2>1. s # <<>> /\ BoundMerged(s) = Cut(s, Share(s))
    BY <1>1, <1>3 DEF BoundMerged
  <2>2. Share(s) \in Nat
    BY <1>3, <2>1, ShareFacts
  <2>3. QED
    BY <1>3, <2>1, <2>2, CutNames
<1>4. QED
  BY <1>2, <1>3

\* Of parts one within the other, the largest are all of them together.
LEMMA LargestForm ==
  ASSUME NEW F \in SUBSET Forms, F # {}
  PROVE  UNION F \in F
<1>1. CASE Parts \in F
  <2>1. UNION F = Parts
    BY <1>1 DEF Forms, Parts
  <2>2. QED
    BY <1>1, <2>1
<1>2. CASE Parts \notin F /\ {"title", "images"} \in F
  <2>1. UNION F = {"title", "images"}
    BY <1>2 DEF Forms
  <2>2. QED
    BY <1>2, <2>1
<1>3. CASE Parts \notin F /\ {"title", "images"} \notin F
  <2>1. F = {{"title"}}
    BY <1>3 DEF Forms
  <2>2. QED
    BY <2>1
<1>4. QED
  BY <1>1, <1>2, <1>3

Fits(s, parts) == JsonSize(s, parts) <= MaxJSON

\* The results as they are, with as much beside them as fits.
Unhalved(b, s) ==
  /\ b.results = s /\ b.parts \in Forms /\ Fits(s, b.parts)
  /\ \A parts \in Forms : Fits(s, parts) => parts \subseteq b.parts

HalvedToFit(b, s) ==
  /\ b.results = Cut(s, HalvedCap(s)) /\ b.parts = {"title"} /\ Fits(b.results, {"title"})
  /\ \A parts \in Forms : ~Fits(s, parts)

\* Nothing but the URLs: not even results without contents fit.
Compacted(b, s) ==
  /\ b = Compact(s) /\ ~Fits(Cut(s, 0), {"title"})
  /\ \A parts \in Forms : ~Fits(s, parts)

\* Raw items and images go before contents are cut, and everything goes at last.
LEMMA BoundFacts ==
  ASSUME NEW s
  PROVE  Unhalved(Bound(s), s) \/ HalvedToFit(Bound(s), s) \/ Compacted(Bound(s), s)
<1> DEFINE fitting == {parts \in Forms : Fits(s, parts)}
           halved == Cut(s, HalvedCap(s))
           b == Bound(s)
<1>1. b = CASE fitting # {} -> [results |-> s, parts |-> UNION fitting]
            [] fitting = {} /\ Fits(halved, {"title"}) ->
                 [results |-> halved, parts |-> {"title"}]
            [] OTHER -> Compact(s)
  BY DEF Bound, Fits
<1>2. fitting \in SUBSET Forms /\ \A parts \in Forms : Fits(s, parts) <=> parts \in fitting
  OBVIOUS
<1> HIDE DEF fitting, b
<1>3. CASE fitting # {}
  <2>1. UNION fitting \in fitting
    BY <1>2, <1>3, LargestForm
  <2>2. b.results = s /\ b.parts = UNION fitting
    BY <1>1, <1>3
  <2>3. Unhalved(b, s)
    BY <1>2, <2>1, <2>2 DEF Unhalved
  <2>4. QED
    BY <2>3 DEF b
<1>4. CASE fitting = {} /\ Fits(halved, {"title"})
  <2>1. b.results = halved /\ b.parts = {"title"}
    BY <1>1, <1>4
  <2>2. HalvedToFit(b, s)
    BY <1>2, <1>4, <2>1 DEF HalvedToFit
  <2>3. QED
    BY <2>2 DEF b
<1>5. CASE fitting = {} /\ ~Fits(halved, {"title"})
  <2>1. b = Compact(s)
    BY <1>1, <1>5
  <2>2. HalvedCap(s) = 0
    BY <1>5, HalvedFacts DEF Fits
  <2>3. Compacted(b, s)
    BY <1>2, <1>5, <2>1, <2>2 DEF Compacted
  <2>4. QED
    BY <2>3 DEF b
<1>6. QED
  BY <1>3, <1>4, <1>5

\* The results of t are those of s, of another size and by other providers perhaps.
SameUrls(t, s) ==
  DOMAIN t = DOMAIN s /\ \A n \in DOMAIN s : t[n].url = s[n].url /\ t[n].owner = s[n].owner

\* What is left at last of a result.
LEMMA CompactFacts ==
  ASSUME NEW s \in Seq(Results)
  PROVE  LET t == Compact(s).results IN
         /\ t \in Seq(Results) /\ DOMAIN t = DOMAIN s
         /\ \A n \in DOMAIN s :
              t[n] = [url |-> s[n].url, owner |-> s[n].owner, providers |-> {}, size |-> 0]
<1> DEFINE t == Compact(s).results
           e(n) == [url |-> s[n].url, owner |-> s[n].owner, providers |-> {}, size |-> 0]
<1>1. DOMAIN s = 1..Len(s) /\ Len(s) \in Nat /\ \A n \in DOMAIN s : s[n] \in Results
  OBVIOUS
<1>2. t = [n \in DOMAIN s |-> [s[n] EXCEPT !.size = 0, !.providers = {}]]
  BY DEF Compact
<1> HIDE DEF t
<1>3. ASSUME NEW n \in DOMAIN s PROVE t[n] = e(n) /\ e(n) \in Results
  <2> DEFINE d == s[n]
  <2>1. d \in Results
    BY <1>1
  <2>2. t[n] = [d EXCEPT !.size = 0, !.providers = {}]
    BY <1>2
  <2> HIDE DEF d
  <2>3. d = [url |-> d.url, owner |-> d.owner, providers |-> d.providers, size |-> d.size]
        /\ d.url \in Urls /\ d.owner \in Nat
    BY <2>1 DEF Results
  <2>4. t[n] = [url |-> d.url, owner |-> d.owner, providers |-> {}, size |-> 0]
    BY <2>2, <2>3
  <2>5. [url |-> d.url, owner |-> d.owner, providers |-> {}, size |-> 0] \in Results
    BY <2>3 DEF Results
  <2>6. QED
    BY <2>4, <2>5 DEF d
<1> HIDE DEF e
<1>4. t \in [1..Len(s) -> Results]
  <2>1. DOMAIN t = DOMAIN s /\ t = [n \in DOMAIN s |-> t[n]]
    BY <1>2
  <2>2. QED
    BY <1>1, <1>3, <2>1
<1>5. t \in Seq(Results) /\ DOMAIN t = DOMAIN s
  BY <1>1, <1>4
<1>6. QED
  BY <1>3, <1>5 DEF t, e

\* Bounding the response changes no URL, and no names unless they all go.
LEMMA BoundNames ==
  ASSUME NEW s \in Seq(Results)
  PROVE  /\ Bound(s).results \in Seq(Results) /\ SameUrls(Bound(s).results, s)
         /\ Bound(s).parts # {} => Names(Bound(s).results, s)
<1> DEFINE b == Bound(s)
<1>1. Unhalved(b, s) \/ HalvedToFit(b, s) \/ Compacted(b, s)
  BY BoundFacts
<1> HIDE DEF b
<1>2. CASE Unhalved(b, s)
  <2>1. b.results \in Seq(Results) /\ Names(b.results, s)
    BY <1>2 DEF Unhalved, Names
  <2>2. QED
    BY <2>1 DEF Names, SameUrls, b
<1>3. CASE HalvedToFit(b, s)
  <2>1. HalvedCap(s) \in Nat
    BY HalvedFacts
  <2>2. b.results \in Seq(Results) /\ Names(b.results, s)
    BY <1>3, <2>1, CutNames DEF HalvedToFit
  <2>3. QED
    BY <2>2 DEF Names, SameUrls, b
<1>4. CASE Compacted(b, s)
  <2>1. b.results = Compact(s).results /\ b.parts = {}
    BY <1>4 DEF Compacted, Compact
  <2> DEFINE t == Compact(s).results
  <2>2. t \in Seq(Results) /\ SameUrls(t, s)
    <3>1. /\ t \in Seq(Results) /\ DOMAIN t = DOMAIN s
          /\ \A n \in DOMAIN s :
               t[n] = [url |-> s[n].url, owner |-> s[n].owner, providers |-> {}, size |-> 0]
      BY CompactFacts
    <3> HIDE DEF t
    <3>2. QED
      BY <3>1 DEF SameUrls
  <2>3. QED
    BY <2>1, <2>2 DEF b
<1>5. QED
  BY <1>1, <1>2, <1>3, <1>4

\* The results are of the URLs brought, in the order requested.
LEMMA ResultsInOrder ==
  ASSUME ExtractInv, NEW results, ResultsOK(results)
  PROVE  [n \in DOMAIN results |-> results[n].url]
           = Among(ask.urls, {u \in Urls : BroughtBy(u) # {}})
<1> DEFINE urls == [n \in DOMAIN results |-> results[n].url]
           places == [n \in DOMAIN results |-> Place(results[n].url)]
           S == {u \in Urls : BroughtBy(u) # {}}
           L == Len(results)
           M == Len(ask.urls)
<1>1. /\ VarsOK /\ ask.urls \in Seq(Urls) /\ IsInjective(ask.urls)
      /\ DOMAIN ask.urls = 1..M /\ M \in Nat
  BY DEF ExtractInv, VarsOK, Requests
<1>2. /\ L \in Nat /\ DOMAIN results = 1..L /\ \A n \in 1..L : results[n].url \in Urls
  <2>1. results \in Seq(Results)
    BY DEF ResultsOK
  <2>2. \A r \in Results : r.url \in Urls
    BY DEF Results
  <2>3. QED
    BY <2>1, <2>2
<1> HIDE DEF L, M
<1>3. urls \in [1..L -> Urls] /\ urls \in Seq(Urls) /\ Len(urls) = L
  <2>1. urls \in [1..L -> Urls]
    BY <1>2
  <2>2. QED
    BY <1>2, <2>1
<1>4. \A n \in 1..L : urls[n] = results[n].url /\ places[n] = Place(results[n].url)
  BY <1>2
<1>5. \A n \in 1..L : places[n] \in 1..M /\ ask.urls[places[n]] = urls[n]
  <2> SUFFICES ASSUME NEW n \in 1..L
               PROVE  places[n] \in 1..M /\ ask.urls[places[n]] = urls[n]
    OBVIOUS
  <2>1. results[n].url \in ToSet(ask.urls)
    BY <1>2 DEF ResultsOK
  <2>2. Place(results[n].url) \in DOMAIN ask.urls /\ ask.urls[Place(results[n].url)] = results[n].url
    BY <1>1, <2>1, PlaceFacts
  <2>3. QED
    BY <1>1, <1>4, <2>2
<1>6. \A j, k \in 1..L : j < k => places[j] < places[k]
  BY <1>2, <1>4 DEF ResultsOK
<1>7. \A u : (\E n \in 1..L : urls[n] = u) <=> BroughtBy(u) # {}
  <2> TAKE u
  <2>1. (\E n \in DOMAIN results : results[n].url = u) <=> BroughtBy(u) # {}
    BY DEF ResultsOK
  <2>2. QED
    BY <1>2, <1>4, <2>1
<1>8. places \in [1..L -> 1..M]
  <2>1. DOMAIN places = 1..L /\ places = [n \in 1..L |-> places[n]]
    BY <1>2
  <2> HIDE DEF places
  <2>2. QED
    BY <1>5, <2>1
<1> HIDE DEF urls, places
<1>9. Range(places) = {i \in 1..M : ask.urls[i] \in S}
  <2>1. ASSUME NEW n \in 1..L PROVE ask.urls[places[n]] \in S
    <3>1. urls[n] \in Urls /\ BroughtBy(urls[n]) # {}
      BY <1>3, <1>7
    <3>2. QED
      BY <1>5, <3>1
  <2>2. ASSUME NEW i \in 1..M, ask.urls[i] \in S PROVE \E n \in 1..L : places[n] = i
    <3>1. PICK n \in 1..L : urls[n] = ask.urls[i]
      BY <1>7, <2>2
    <3>2. ask.urls[places[n]] = ask.urls[i] /\ places[n] \in 1..M
      BY <1>5, <3>1
    <3>3. places[n] = i
      BY <1>1, <3>2 DEF IsInjective
    <3>4. QED
      BY <3>3
  <2>3. DOMAIN places = 1..L
    BY <1>8
  <2> HIDE DEF S
  <2>4. QED
    BY <1>5, <2>1, <2>2, <2>3 DEF Range
<1> HIDE DEF S
<1>10. Picks(places, urls, ask.urls, S)
  <2>1. Rising(places)
    BY <1>6, <1>8 DEF Rising
  <2>2. QED
    BY <1>3, <1>5, <1>8, <1>9, <2>1 DEF Picks, M
<1>11. Among(ask.urls, S) \in Seq(Urls) /\ \E h : Picks(h, Among(ask.urls, S), ask.urls, S)
  BY <1>1, AmongPicks
<1>12. urls = Among(ask.urls, S)
  BY <1>1, <1>3, <1>10, <1>11, PicksUnique
<1>13. QED
  BY <1>12 DEF urls, S

\* What EveryUrlAnswered says of a response, a request and what was brought.
ByAll(req, who, u) == {i \in DOMAIN req.providers : <<i, u>> \in who}

Answers(res, req, who) ==
  LET results == res.results IN
  /\ [n \in DOMAIN results |-> results[n].url]
       = Among(req.urls, {u \in Urls : ByAll(req, who, u) # {}})
  /\ [n \in DOMAIN res.failed |-> res.failed[n].url]
       = Among(req.urls, {u \in Urls : ByAll(req, who, u) = {}})
  /\ \A n \in DOMAIN results :
       /\ res.parts # {} => results[n].providers = ByAll(req, who, results[n].url)
       /\ results[n].owner = Min(ByAll(req, who, results[n].url))
  /\ res.told = "success" => res.logged
  /\ (who # {} /\ res.logged) => res.told = "success"

\* An extraction ends with an answer for every URL.
LEMMA EndAnswers ==
  ASSUME ExtractInv, EndExtract
  PROVE  EveryUrlAnswered'
<1> DEFINE merged == MergedResults
           fitted == BoundMerged(merged)
           results == Bound(fitted).results
           S == {u \in Urls : BroughtBy(u) # {}}
<1>1. VarsOK /\ ask.urls \in Seq(Urls)
  BY DEF ExtractInv, VarsOK, Requests
<1>2. /\ response'.results = results /\ response'.parts = Bound(fitted).parts
      /\ response'.failed = Failed(fitted)
      /\ response'.told = "success" => response'.logged
      /\ (fitted # <<>> /\ response'.logged) => response'.told = "success"
      /\ ask' = ask /\ brought' = brought /\ Running
  <2>1. PICK logged \in BOOLEAN, expired \in {budget = 0, TRUE} :
          response' =
            [results |-> results, parts |-> Bound(fitted).parts,
             failed |-> Failed(fitted), logged |-> logged,
             told |-> IF ~logged \/ (fitted = <<>> /\ (expired \/ AllFailed))
                        THEN "error" ELSE "success"]
    BY ResponseFacts
  <2>2. ask' = ask /\ brought' = brought /\ Running
    BY DEF EndExtract
  <2> HIDE DEF results, fitted
  <2>3. QED
    BY <2>1, <2>2
<1>3. \A u : BroughtBy(u) = ByAll(ask, brought, u)
  BY DEF BroughtBy, ByAll
<1>4. ResultsOK(merged)
  BY <1>2, MergedResultsFacts
<1>5. [n \in DOMAIN merged |-> merged[n].url] = Among(ask.urls, S)
  BY <1>4, ResultsInOrder
<1> HIDE DEF merged
<1>6. fitted \in Seq(Results) /\ Names(fitted, merged)
  <2>1. merged \in Seq(Results)
    BY <1>4 DEF ResultsOK
  <2>2. QED
    BY <2>1, BoundMergedFacts
<1> HIDE DEF fitted
<1>8. /\ results \in Seq(Results) /\ SameUrls(results, fitted)
      /\ response'.parts # {} => Names(results, fitted)
  BY <1>2, <1>6, BoundNames
<1> HIDE DEF results
<1>9. SameUrls(results, merged) /\ (response'.parts # {} => Names(results, merged))
  BY <1>6, <1>8 DEF Names, SameUrls
<1>10. [n \in DOMAIN results |-> results[n].url] = Among(ask.urls, S)
  <2>1. [n \in DOMAIN results |-> results[n].url] = [n \in DOMAIN merged |-> merged[n].url]
    BY <1>9 DEF SameUrls
  <2>2. QED
    BY <1>5, <2>1
<1>11. [n \in DOMAIN Failed(fitted) |-> Failed(fitted)[n].url]
         = Among(ask.urls, {u \in Urls : BroughtBy(u) = {}})
  <2> DEFINE T == {u \in Urls : \A n \in DOMAIN fitted : fitted[n].url # u}
             missing == Among(ask.urls, T)
             failed == [n \in DOMAIN missing |-> [url |-> missing[n], providers |-> Culprits(missing[n])]]
  <2>1. T = {u \in Urls : BroughtBy(u) = {}}
    <3>1. \A u : (\E n \in DOMAIN fitted : fitted[n].url = u) <=> BroughtBy(u) # {}
      <4> TAKE u
      <4>1. (\E n \in DOMAIN merged : merged[n].url = u) <=> BroughtBy(u) # {}
        BY <1>4 DEF ResultsOK
      <4>2. QED
        BY <1>6, <4>1 DEF Names
    <3>2. QED
      BY <3>1
  <2>2. Failed(fitted) = failed
    BY DEF Failed
  <2>3. missing \in Seq(Urls)
    BY <1>1, AmongPicks
  <2> HIDE DEF missing
  <2>4. [n \in DOMAIN failed |-> failed[n].url] = [n \in DOMAIN missing |-> missing[n]]
    OBVIOUS
  <2>5. [n \in DOMAIN missing |-> missing[n]] = missing
    BY <2>3
  <2> HIDE DEF failed
  <2>6. QED
    BY <2>1, <2>2, <2>4, <2>5 DEF missing
<1>12. ASSUME NEW n \in DOMAIN results
       PROVE  /\ response'.parts # {} => results[n].providers = BroughtBy(results[n].url)
              /\ results[n].owner = Min(BroughtBy(results[n].url))
  <2> DEFINE B == BroughtBy(results[n].url)
  <2>1. /\ response'.parts # {} => results[n].providers = B
        /\ results[n].owner \in B /\ \A i \in B : results[n].owner <= i
    BY <1>4, <1>9 DEF Names, SameUrls, ResultsOK
  <2>2. B \subseteq Nat
    <3>1. DOMAIN ask.providers \subseteq Nat
      BY <1>1 DEF VarsOK, Requests
    <3>2. QED
      BY <3>1 DEF BroughtBy
  <2>3. Min(B) = CHOOSE m \in B : \A i \in B : m =< i
    BY DEF Min
  <2> HIDE DEF B
  <2>4. Min(B) \in B /\ \A i \in B : Min(B) <= i
    BY <2>1, <2>3
  <2>5. ASSUME NEW k \in Nat, NEW m \in Nat, k <= m, m <= k PROVE k = m
    BY <2>5
  <2>6. results[n].owner = Min(B)
    BY <2>1, <2>2, <2>4, <2>5
  <2>7. QED
    BY <2>1, <2>6 DEF B
<1>13. (brought # {} /\ response'.logged) => response'.told = "success"
  <2> SUFFICES ASSUME fitted = <<>> PROVE brought = {}
    BY <1>2
  <2>1. DOMAIN merged = {}
    BY <1>6 DEF Names
  <2>2. \A u : BroughtBy(u) = {}
    <3> TAKE u
    <3>1. (\E n \in DOMAIN merged : merged[n].url = u) <=> BroughtBy(u) # {}
      BY <1>4 DEF ResultsOK
    <3>2. QED
      BY <2>1, <3>1
  <2>3. \A i \in DOMAIN execs : Resolved(i) = {}
    <3>1. \A u : {i \in DOMAIN execs : u \in Resolved(i)} = {}
      BY <1>2, <2>2, BroughtFacts
    <3>2. QED
      BY <3>1
  <2>4. QED
    BY <1>2, <2>3 DEF ExtractInv, ExecutionsOK, Recorded
<1>14. {u \in Urls : ByAll(ask, brought, u) # {}} = S
       /\ {u \in Urls : ByAll(ask, brought, u) = {}} = {u \in Urls : BroughtBy(u) = {}}
  BY <1>3
<1> HIDE DEF S
<1>15. \A n \in DOMAIN results :
         /\ response'.parts # {} => results[n].providers = ByAll(ask, brought, results[n].url)
         /\ results[n].owner = Min(ByAll(ask, brought, results[n].url))
  BY <1>3, <1>12
<1>16. Answers(response', ask, brought)
  BY <1>2, <1>10, <1>11, <1>13, <1>14, <1>15 DEF Answers
<1>17. EveryUrlAnswered' <=> (at' = "answered" => Answers(response', ask', brought'))
  BY DEF EveryUrlAnswered, Answers, ByAll, BroughtBy
<1>18. QED
  BY <1>2, <1>16, <1>17

\* The answer stays until it is given out.
LEMMA EveryUrlAnsweredNext ==
  ExtractInv /\ EveryUrlAnswered /\ [ExtractNext]_extractVars => EveryUrlAnswered'
<1> SUFFICES ASSUME ExtractInv, EveryUrlAnswered, [ExtractNext]_extractVars, at' = "answered"
             PROVE  EveryUrlAnswered'
  BY DEF EveryUrlAnswered
<1>1. CASE EndExtract
  BY <1>1, EndAnswers
<1>2. CASE UNCHANGED extractVars
  <2>1. at' = at /\ response' = response /\ ask' = ask /\ brought' = brought
    BY <1>2 DEF extractVars
  <2>2. EveryUrlAnswered <=> (at = "answered" => Answers(response, ask, brought))
    BY ZenonT(40) DEF EveryUrlAnswered, Answers, ByAll, BroughtBy
  <2>3. EveryUrlAnswered' <=> (at' = "answered" => Answers(response', ask', brought'))
    BY ZenonT(40) DEF EveryUrlAnswered, Answers, ByAll, BroughtBy
  <2>4. QED
    BY <2>1, <2>2, <2>3
<1>3. CASE ~EndExtract /\ ExtractNext
  BY <1>3 DEF ExtractNext, ExtractStep, BeginExtract, HostResolved, HostRefused,
       ExecuteExtract, ProviderStep, BeginCall, FailAcquire, AnswerCall, FailCall, EndRequest,
       Leave, ExtractTick, Running
<1>4. QED
  BY <1>1, <1>2, <1>3

\* The response has every URL asked for exactly once, in the order asked: with the
\* content of the first provider that brought one and the names of all that did, or as
\* a failure; once a content was brought, nothing but a lost log puts an error in the
\* place of the response.
THEOREM EveryUrlAnsweredCorrect == ExtractSpec => []EveryUrlAnswered
<1>1. ExtractInit => EveryUrlAnswered
  BY DEF ExtractInit, EveryUrlAnswered
<1>2. QED
  BY <1>1, ExtractInvCorrect, EveryUrlAnsweredNext, PTL DEF ExtractSpec
-----------------------------------------------------------------------------
(* The response keeps its bounds. *)

\* What ResponseBounded says of a response and a request.
JsonOf(req, results, parts) ==
  Envelope + Total([n \in DOMAIN results |->
                      ResultSize(req.providers[results[n].owner], results[n].size, parts)])

WholeOf(req, r) == Smaller(Size[req.providers[r.owner]], MaxResult)

Uncut(req, results) ==
  [n \in DOMAIN results |-> [results[n] EXCEPT !.size = WholeOf(req, results[n])]]

Fitting(s) == {c \in 0..MaxResult : Content(Cut(s, c)) <= MaxContent}

Bounds(res, req) ==
  LET uncut == Uncut(req, res.results)
      cap == Max(Fitting(uncut))
      Fit(c, parts) == JsonOf(req, Cut(uncut, c), parts) <= MaxJSON
  IN /\ Content(res.results) <= MaxContent
     /\ res.parts # {} => JsonOf(req, res.results, res.parts) <= MaxJSON
     /\ IF Fit(cap, {"title"}) THEN res.results = Cut(uncut, cap)
          ELSE \E c \in 0..cap : res.results = Cut(uncut, c)
     /\ \A parts \in Forms : Fit(cap, parts) => parts \subseteq res.parts
     /\ res.parts = {} => ~Fit(0, {"title"})

\* One cap is the largest that fits.
LEMMA FittingFacts ==
  ASSUME NEW s \in Seq(Results)
  PROVE  /\ Max(Fitting(s)) \in 0..MaxResult
         /\ Content(Cut(s, Max(Fitting(s)))) <= MaxContent
         /\ \A c \in Fitting(s) : c <= Max(Fitting(s))
<1>1. MaxResult \in Nat /\ MaxContent \in Nat
  BY ExtractAssumption
<1>2. 0 \in Fitting(s)
  <2>1. Content(Cut(s, 0)) = 0
    BY CutContent
  <2>2. QED
    BY <1>1, <2>1 DEF Fitting
<1>3. IsFiniteSet(Fitting(s))
  <2>1. IsFiniteSet(0..MaxResult)
    BY <1>1, FS_Interval
  <2>2. Fitting(s) \subseteq 0..MaxResult
    BY DEF Fitting
  <2>3. QED
    BY <2>1, <2>2, FS_Subset
<1>4. Fitting(s) \in SUBSET Int /\ Fitting(s) # {}
  BY <1>1, <1>2 DEF Fitting
<1>5. Max(Fitting(s)) \in Fitting(s) /\ \A c \in Fitting(s) : c <= Max(Fitting(s))
  BY <1>3, <1>4, MaxFacts
<1>6. QED
  BY <1>5 DEF Fitting

\* The merged results are cut to the largest cap that fits.
LEMMA CutToFit ==
  ASSUME NEW s \in Seq(Results), \A n \in DOMAIN s : s[n].size <= MaxResult
  PROVE  BoundMerged(s) = Cut(s, Max(Fitting(s)))
<1> DEFINE cap == Max(Fitting(s))
<1>1. MaxResult \in Nat
  BY ExtractAssumption
<1>2. /\ cap \in 0..MaxResult /\ Content(Cut(s, cap)) <= MaxContent
      /\ \A c \in Fitting(s) : c <= cap
  BY FittingFacts
<1> HIDE DEF cap
<1>3. Cut(s, MaxResult) = s
  BY <1>1, CutTwice
<1>4. CASE Content(s) <= MaxContent
  <2>1. MaxResult \in Fitting(s)
    BY <1>1, <1>3, <1>4 DEF Fitting
  <2>2. cap = MaxResult
    <3>1. MaxResult <= cap
      BY <1>2, <2>1
    <3>2. QED
      BY <1>1, <1>2, <3>1
  <2>3. BoundMerged(s) = s
    BY <1>4, BoundMergedFacts
  <2>4. QED
    BY <1>3, <2>2, <2>3 DEF cap
<1>5. CASE ~(Content(s) <= MaxContent)
  <2> DEFINE share == Share(s)
  <2>1. s # <<>> /\ BoundMerged(s) = Cut(s, share)
    BY <1>5, BoundMergedFacts
  <2>2. /\ share \in Nat /\ Content(Cut(s, share)) <= MaxContent
        /\ \A c \in Nat : Content(Cut(s, c)) <= MaxContent => c <= share
    BY <1>5, <2>1, ShareFacts
  <2> HIDE DEF share
  <2>3. share <= MaxResult
    <3> SUFFICES ASSUME ~(share <= MaxResult) PROVE FALSE
      OBVIOUS
    <3>1. \A n \in DOMAIN s : s[n].size \in Nat
      <4>1. \A r \in Results : r.size \in Nat
        BY DEF Results
      <4>2. QED
        BY <4>1
    <3>2. \A n \in DOMAIN s : s[n].size <= share
      BY <1>1, <2>2, <3>1
    <3>3. Cut(s, share) = s
      BY <2>2, <3>2, CutTwice
    <3>4. QED
      BY <1>5, <2>2, <3>3
  <2>4. share \in Fitting(s)
    BY <1>1, <2>2, <2>3 DEF Fitting
  <2>5. share <= cap /\ cap <= share
    <3>1. cap \in Nat
      BY <1>1, <1>2
    <3>2. QED
      BY <1>2, <2>2, <2>4, <3>1
  <2>6. share = cap
    BY <1>1, <1>2, <2>2, <2>5
  <2>7. QED
    BY <2>1, <2>6 DEF cap
<1>6. QED
  BY <1>4, <1>5

\* Who found a result first, and its size, are all that its place in the bounds hangs on.
LEMMA SameSizes ==
  ASSUME NEW s \in Seq(Results), NEW t \in Seq(Results), DOMAIN t = DOMAIN s,
         \A n \in DOMAIN s : t[n].owner = s[n].owner /\ t[n].size = s[n].size,
         NEW c \in Nat
  PROVE  /\ Content(Cut(t, c)) = Content(Cut(s, c))
         /\ \A parts : JsonSize(Cut(t, c), parts) = JsonSize(Cut(s, c), parts)
<1> DEFINE p == Cut(s, c)
           q == Cut(t, c)
<1>1. /\ DOMAIN p = DOMAIN s
      /\ \A n \in DOMAIN s :
           p[n] = [url |-> s[n].url, owner |-> s[n].owner, providers |-> s[n].providers,
                   size |-> Smaller(s[n].size, c)]
  BY CutFacts
<1>2. /\ DOMAIN q = DOMAIN t
      /\ \A n \in DOMAIN t :
           q[n] = [url |-> t[n].url, owner |-> t[n].owner, providers |-> t[n].providers,
                   size |-> Smaller(t[n].size, c)]
  BY CutFacts
<1> HIDE DEF p, q
<1>3. DOMAIN q = DOMAIN p /\ \A n \in DOMAIN p : q[n].owner = p[n].owner /\ q[n].size = p[n].size
  BY <1>1, <1>2
<1>4. [n \in DOMAIN q |-> q[n].size] = [n \in DOMAIN p |-> p[n].size]
  BY <1>3
<1>5. Content(q) = Content(p)
  BY <1>4 DEF Content
<1>6. ASSUME NEW parts PROVE JsonSize(q, parts) = JsonSize(p, parts)
  <2>1. \A n \in DOMAIN p : ResultSize(ask.providers[q[n].owner], q[n].size, parts)
                              = ResultSize(ask.providers[p[n].owner], p[n].size, parts)
    BY <1>3
  <2>2. [n \in DOMAIN q |-> ResultSize(ask.providers[q[n].owner], q[n].size, parts)]
          = [n \in DOMAIN p |-> ResultSize(ask.providers[p[n].owner], p[n].size, parts)]
    BY <1>3, <2>1
  <2>3. QED
    BY <2>2 DEF JsonSize
<1>7. QED
  BY <1>5, <1>6 DEF p, q

\* An extraction ends with a response that keeps its bounds.
LEMMA EndBounds ==
  ASSUME ExtractInv, EndExtract
  PROVE  ResponseBounded'
<1> DEFINE merged == MergedResults
           fitted == BoundMerged(merged)
           b == Bound(fitted)
           results == b.results
           uncut == Uncut(ask, results)
           cap == Max(Fitting(merged))
<1>1. VarsOK /\ Running
  BY DEF ExtractInv, EndExtract
<1>2. response'.results = results /\ response'.parts = b.parts /\ ask' = ask
  <2>1. ask' = ask
    BY DEF EndExtract
  <2>2. PICK logged \in BOOLEAN, expired \in {budget = 0, TRUE} :
          response' =
            [results |-> results, parts |-> b.parts,
             failed |-> Failed(fitted), logged |-> logged,
             told |-> IF ~logged \/ (fitted = <<>> /\ (expired \/ AllFailed))
                        THEN "error" ELSE "success"]
    BY ResponseFacts
  <2> HIDE DEF results, fitted, b
  <2>3. QED
    BY <2>1, <2>2
<1>3. ResultsOK(merged)
  BY <1>1, MergedResultsFacts
<1> HIDE DEF merged
<1>4. /\ merged \in Seq(Results)
      /\ \A n \in DOMAIN merged :
           /\ merged[n].owner \in DOMAIN execs /\ merged[n].size = WholeSize(merged[n].owner)
  BY <1>3 DEF ResultsOK
<1>5. fitted \in Seq(Results) /\ Names(fitted, merged)
  BY <1>4, BoundMergedFacts
<1>6. fitted = Cut(merged, cap)
  <2>1. \A n \in DOMAIN merged : merged[n].size <= MaxResult
    <3> SUFFICES ASSUME NEW n \in DOMAIN merged PROVE merged[n].size <= MaxResult
      OBVIOUS
    <3> DEFINE i == merged[n].owner
    <3>1. i \in DOMAIN execs /\ merged[n].size = WholeSize(i)
      BY <1>4
    <3> HIDE DEF i
    <3>2. ask.providers[i] \in Extractors
      BY <1>1, <3>1, ProviderFacts DEF ProvidersOK
    <3>3. Size \in [Extractors -> Nat] /\ MaxResult \in Nat
      BY ExtractAssumption
    <3>4. Size[ask.providers[i]] \in Nat
      BY <3>2, <3>3
    <3>5. QED
      BY <3>1, <3>3, <3>4 DEF WholeSize, Smaller
  <2>2. QED
    BY <1>4, <2>1, CutToFit
<1>7. cap \in 0..MaxResult /\ Content(Cut(merged, cap)) <= MaxContent /\ MaxResult \in Nat
  BY <1>4, FittingFacts, ExtractAssumption
<1> HIDE DEF fitted, cap
<1>8. /\ results \in Seq(Results) /\ SameUrls(results, merged)
      /\ b.parts # {} => Names(results, merged)
  <2>1. /\ results \in Seq(Results) /\ SameUrls(results, fitted)
        /\ b.parts # {} => Names(results, fitted)
    BY <1>5, BoundNames
  <2> HIDE DEF b, results
  <2>2. QED
    BY <1>5, <2>1 DEF Names, SameUrls
<1>9. Unhalved(b, fitted) \/ HalvedToFit(b, fitted) \/ Compacted(b, fitted)
  BY BoundFacts
<1> HIDE DEF b
<1>10. ASSUME NEW n \in DOMAIN merged
       PROVE  uncut[n] = [url |-> merged[n].url, owner |-> merged[n].owner,
                          providers |-> results[n].providers, size |-> merged[n].size]
  <2> DEFINE r == results[n]
             m == merged[n]
  <2>1. n \in DOMAIN results /\ r.url = m.url /\ r.owner = m.owner
    BY <1>8 DEF SameUrls
  <2>2. r \in Results
    BY <1>8, <2>1
  <2>3. WholeOf(ask, r) = m.size
    BY <1>4, <2>1 DEF WholeOf, WholeSize
  <2>4. uncut[n] = [r EXCEPT !.size = WholeOf(ask, r)]
    BY <2>1 DEF Uncut
  <2> HIDE DEF r, m, uncut
  <2>5. r = [url |-> r.url, owner |-> r.owner, providers |-> r.providers, size |-> r.size]
    BY <2>2 DEF Results
  <2>6. uncut[n] = [url |-> m.url, owner |-> m.owner, providers |-> r.providers,
                    size |-> m.size]
    BY <2>1, <2>3, <2>4, <2>5
  <2>7. QED
    BY <2>6 DEF r, m
<1>11. DOMAIN uncut = DOMAIN merged /\ uncut = [n \in DOMAIN merged |-> uncut[n]]
  BY <1>8 DEF Uncut, SameUrls
<1> HIDE DEF uncut
<1>12. uncut \in Seq(Results)
  <2>1. /\ DOMAIN merged = 1..Len(merged) /\ Len(merged) \in Nat
        /\ \A n \in DOMAIN merged : merged[n] \in Results /\ results[n] \in Results
    BY <1>4, <1>8 DEF SameUrls
  <2> HIDE DEF results
  <2>2. ASSUME NEW n \in DOMAIN merged PROVE uncut[n] \in Results
    <3> DEFINE m == merged[n]
               names == results[n].providers
    <3>1. m \in Results /\ results[n] \in Results
      BY <2>1
    <3>2. names \in SUBSET Nat
      BY <3>1 DEF Results
    <3>3. uncut[n] = [url |-> m.url, owner |-> m.owner, providers |-> names, size |-> m.size]
      BY <1>10
    <3> HIDE DEF m, names
    <3>4. QED
      BY <3>1, <3>2, <3>3 DEF Results
  <2>3. uncut \in [1..Len(merged) -> Results]
    BY <1>11, <2>1, <2>2
  <2>4. QED
    BY <2>1, <2>3
<1>13. ASSUME NEW c \in Nat
       PROVE  /\ Content(Cut(uncut, c)) = Content(Cut(merged, c))
              /\ \A parts : JsonSize(Cut(uncut, c), parts) = JsonSize(Cut(merged, c), parts)
  <2>1. \A n \in DOMAIN merged :
          uncut[n].owner = merged[n].owner /\ uncut[n].size = merged[n].size
    <3> TAKE n \in DOMAIN merged
    <3> DEFINE names == results[n].providers
    <3>1. uncut[n] = [url |-> merged[n].url, owner |-> merged[n].owner, providers |-> names,
                      size |-> merged[n].size]
      BY <1>10
    <3> HIDE DEF names
    <3>2. QED
      BY <3>1
  <2>2. QED
    BY <1>4, <1>11, <1>12, <2>1, SameSizes
<1>14. Fitting(uncut) = Fitting(merged)
  <2>1. \A c \in 0..MaxResult : Content(Cut(uncut, c)) = Content(Cut(merged, c))
    BY <1>7, <1>13
  <2>2. QED
    BY <2>1 DEF Fitting
<1>15. b.parts # {} => uncut = merged
  <2> SUFFICES ASSUME b.parts # {} PROVE uncut = merged
    OBVIOUS
  <2>1. ASSUME NEW n \in DOMAIN merged PROVE uncut[n] = merged[n]
    <3> DEFINE m == merged[n]
    <3>1. m \in Results
      BY <1>4
    <3>2. uncut[n] = [url |-> m.url, owner |-> m.owner, providers |-> m.providers,
                      size |-> m.size]
      BY <1>8, <1>10 DEF Names
    <3> HIDE DEF m
    <3>3. uncut[n] = m
      BY <3>1, <3>2 DEF Results
    <3>4. QED
      BY <3>3 DEF m
  <2>2. merged = [n \in DOMAIN merged |-> merged[n]]
    BY <1>4
  <2>3. QED
    BY <1>11, <2>1, <2>2
<1>16. ASSUME NEW c \in 0..cap PROVE Content(Cut(merged, c)) <= MaxContent
  <2>1. c \in Nat /\ cap \in Nat /\ c <= cap
    BY <1>7
  <2>2. /\ Content(Cut(merged, c)) <= Content(Cut(merged, cap))
        /\ Content(Cut(merged, c)) \in Nat /\ Content(Cut(merged, cap)) \in Nat
    BY <1>4, <2>1, CutContent
  <2>3. QED
    BY <1>7, <2>2, ExtractAssumption
<1>17. \A r, x : JsonOf(ask, r, x) = JsonSize(r, x)
  BY DEF JsonOf, JsonSize
<1> DEFINE Fit(c, parts) == JsonOf(ask, Cut(uncut, c), parts) <= MaxJSON
<1>18. /\ \A parts : Fit(cap, parts) <=> Fits(fitted, parts)
       /\ \A c \in Nat : \A parts : Fit(c, parts) <=> Fits(Cut(merged, c), parts)
  <2>1. ASSUME NEW c \in Nat, NEW parts PROVE Fit(c, parts) <=> Fits(Cut(merged, c), parts)
    BY <1>13, <1>17 DEF Fits
  <2>2. cap \in Nat
    BY <1>7
  <2> HIDE DEF Fit
  <2>3. QED
    BY <1>6, <2>1, <2>2
<1>19. ASSUME NEW c \in 0..cap, results = Cut(uncut, c),
              c = cap \/ ~Fit(cap, {"title"}),
              b.parts # {} => Fits(results, b.parts),
              \A parts \in Forms : Fit(cap, parts) => parts \subseteq b.parts,
              b.parts = {} => ~Fit(0, {"title"})
       PROVE  Bounds(response', ask)
  <2>1. Content(results) <= MaxContent
    <3>1. c \in Nat
      BY <1>7
    <3>2. QED
      BY <1>13, <1>16, <1>19, <3>1
  <2>2. b.parts # {} => JsonOf(ask, results, b.parts) <= MaxJSON
    BY <1>17, <1>19 DEF Fits
  <2> HIDE DEF results, Fit
  <2>3. IF Fit(cap, {"title"}) THEN results = Cut(uncut, cap)
          ELSE \E k \in 0..cap : results = Cut(uncut, k)
    BY <1>19
  <2>4. response'.results = results /\ response'.parts = b.parts
    BY <1>2
  <2>5. Uncut(ask, results) = uncut /\ Max(Fitting(uncut)) = cap
    BY <1>14 DEF uncut, cap
  <2>6. QED
    BY <1>19, <2>1, <2>2, <2>3, <2>4, <2>5 DEF Bounds, Fit
<1>20. cap \in 0..cap /\ 0 \in 0..cap /\ cap \in Nat
  BY <1>7
<1> HIDE DEF Fit
<1>21. ASSUME Unhalved(b, fitted) PROVE Bounds(response', ask)
  <2>1. b.parts # {}
    BY <1>21 DEF Unhalved, Forms, Parts
  <2>2. results = Cut(uncut, cap)
    BY <1>6, <1>15, <1>21, <2>1 DEF Unhalved
  <2>3. Fits(results, b.parts)
    BY <1>21 DEF Unhalved
  <2>4. \A parts \in Forms : Fit(cap, parts) => parts \subseteq b.parts
    BY <1>18, <1>21 DEF Unhalved
  <2>5. QED
    BY <1>19, <1>20, <2>1, <2>2, <2>3, <2>4
<1>22. ASSUME HalvedToFit(b, fitted) PROVE Bounds(response', ask)
  <2> DEFINE half == HalvedCap(fitted)
             c == Smaller(cap, half)
  <2>1. half \in Nat
    BY HalvedFacts
  <2>2. results = Cut(Cut(merged, cap), half) /\ b.parts = {"title"} /\ Fits(results, {"title"})
    BY <1>6, <1>22 DEF HalvedToFit
  <2>3. \A parts \in Forms : ~Fit(cap, parts)
    BY <1>18, <1>22 DEF HalvedToFit
  <2> HIDE DEF half
  <2>4. c \in 0..cap
    BY <1>7, <2>1 DEF Smaller
  <2>5. results = Cut(uncut, c)
    BY <1>4, <1>15, <1>20, <2>1, <2>2, CutTwice
  <2> HIDE DEF c
  <2>6. {"title"} \in Forms
    BY DEF Forms
  <2> HIDE DEF results
  <2>7. QED
    BY <1>19, <2>2, <2>3, <2>4, <2>5, <2>6
<1>23. ASSUME Compacted(b, fitted) PROVE Bounds(response', ask)
  <2>1. b.parts = {} /\ results = Compact(fitted).results
    BY <1>23 DEF Compacted, Compact
  <2>2. \A parts \in Forms : ~Fit(cap, parts)
    BY <1>18, <1>23 DEF Compacted
  <2>3. ~Fit(0, {"title"})
    <3>1. Cut(fitted, 0) = Cut(Cut(merged, cap), 0) /\ Smaller(cap, 0) = 0
      BY <1>6, <1>7 DEF Smaller
    <3>2. Cut(fitted, 0) = Cut(merged, 0)
      BY <1>4, <1>20, <3>1, CutTwice
    <3>3. QED
      BY <1>18, <1>23, <3>2 DEF Compacted
  <2> DEFINE none == Cut(uncut, 0)
  <2>4. /\ none \in Seq(Results) /\ DOMAIN none = DOMAIN merged
        /\ \A n \in DOMAIN merged :
             none[n] = [url |-> uncut[n].url, owner |-> uncut[n].owner,
                        providers |-> uncut[n].providers, size |-> Smaller(uncut[n].size, 0)]
    BY <1>11, <1>12, CutFacts
  <2>5. /\ results \in Seq(Results) /\ DOMAIN results = DOMAIN merged
        /\ \A n \in DOMAIN merged :
             results[n] = [url |-> fitted[n].url, owner |-> fitted[n].owner,
                           providers |-> {}, size |-> 0]
    BY <1>5, <2>1, CompactFacts DEF Names
  <2> HIDE DEF none, results
  <2>6. ASSUME NEW n \in DOMAIN merged PROVE none[n] = results[n]
    <3>1. merged[n].size \in Nat
      <4>1. merged[n] \in Results
        BY <1>4
      <4>2. QED
        BY <4>1 DEF Results
    <3>2. Smaller(merged[n].size, 0) = 0
      BY <3>1 DEF Smaller
    <3>3. fitted[n].url = merged[n].url /\ fitted[n].owner = merged[n].owner
      BY <1>5 DEF Names
    <3>4. results[n].providers = {}
      BY <2>5
    <3>5. uncut[n].url = merged[n].url /\ uncut[n].owner = merged[n].owner
          /\ uncut[n].providers = {} /\ uncut[n].size = merged[n].size
      <4>1. uncut[n] = [url |-> merged[n].url, owner |-> merged[n].owner,
                        providers |-> results[n].providers, size |-> merged[n].size]
        BY <1>10 DEF results
      <4>2. uncut[n] = [url |-> merged[n].url, owner |-> merged[n].owner,
                        providers |-> {}, size |-> merged[n].size]
        BY <3>4, <4>1
      <4>3. QED
        BY <4>2
    <3>6. QED
      BY <2>4, <2>5, <3>2, <3>3, <3>5
  <2>7. results = none
    BY <2>4, <2>5, <2>6
  <2>8. {"title"} \in Forms
    BY DEF Forms
  <2>9. results = Cut(uncut, 0)
    BY <2>7 DEF none
  <2>10. QED
    BY <1>19, <1>20, <2>1, <2>2, <2>3, <2>8, <2>9
<1>24. Bounds(response', ask)
  BY <1>9, <1>21, <1>22, <1>23
<1>25. ResponseBounded' <=> (at' = "answered" => Bounds(response', ask'))
  BY ZenonT(40) DEF ResponseBounded, Bounds, JsonOf, JsonSize, Uncut, WholeOf, Whole, Fitting
<1>26. QED
  BY <1>2, <1>24, <1>25

\* The response stays until it is given out.
LEMMA ResponseBoundedNext ==
  ExtractInv /\ ResponseBounded /\ [ExtractNext]_extractVars => ResponseBounded'
<1> SUFFICES ASSUME ExtractInv, ResponseBounded, [ExtractNext]_extractVars, at' = "answered"
             PROVE  ResponseBounded'
  BY ZenonT(40) DEF ResponseBounded
<1>1. CASE EndExtract
  BY <1>1, EndBounds
<1>2. CASE UNCHANGED extractVars
  <2>1. at' = at /\ response' = response /\ ask' = ask
    BY <1>2 DEF extractVars
  <2>2. ResponseBounded <=> (at = "answered" => Bounds(response, ask))
    BY ZenonT(40) DEF ResponseBounded, Bounds, JsonOf, JsonSize, Uncut, WholeOf, Whole, Fitting
  <2>3. ResponseBounded' <=> (at' = "answered" => Bounds(response', ask'))
    BY ZenonT(40) DEF ResponseBounded, Bounds, JsonOf, JsonSize, Uncut, WholeOf, Whole, Fitting
  <2>4. QED
    BY <2>1, <2>2, <2>3
<1>3. CASE ~EndExtract /\ ExtractNext
  BY <1>3 DEF ExtractNext, ExtractStep, BeginExtract, HostResolved, HostRefused,
       ExecuteExtract, ProviderStep, BeginCall, FailAcquire, AnswerCall, FailCall, EndRequest,
       Leave, ExtractTick, Running
<1>4. QED
  BY <1>1, <1>2, <1>3

\* The response keeps its bounds, and at no more cost than necessary: contents are cut
\* only if they are too large, all to the same size, and to the largest with which they
\* fit together, unless their JSON is too large even then; raw items and images go only
\* if they do not fit beside the contents, and everything only if nothing else fits.
THEOREM ResponseBoundedCorrect == ExtractSpec => []ResponseBounded
<1>1. ExtractInit => ResponseBounded
  BY DEF ExtractInit, ResponseBounded
<1>2. QED
  BY <1>1, ExtractInvCorrect, ResponseBoundedNext, PTL DEF ExtractSpec
=============================================================================
