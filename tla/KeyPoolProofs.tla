---------------------------- MODULE KeyPoolProofs ----------------------------
(***************************************************************************)
(* Proofs about KeyPool, for every number of keys, requests, cycles and    *)
(* attempts and every limit and quota: type correctness, the limits of     *)
(* concurrency, and that the reservations of the manager keep the quotas.  *)
(***************************************************************************)
EXTENDS KeyPool, FiniteSetTheorems, TLAPS

(***************************************************************************)
(* What each part of canUse makes of the state of a key.                   *)
(***************************************************************************)

\* The reservations after usage of snapshot is seen: those the new usage
\* replaces are gone.
LEMMA ReconcileReservationFacts ==
  ASSUME NEW s \in KeyState, NEW n \in Nat
  PROVE  LET r == ReconcileReservation(s, n)
         IN /\ r \in KeyState
            /\ r.active = s.active
            /\ r.observed = s.observed
            /\ r.observedPeriod = s.observedPeriod
            /\ r.usageInitialized
            /\ r.usageObserved =
                 IF ~s.usageInitialized \/ n > s.usageObserved
                   THEN n ELSE s.usageObserved
            /\ r.pendingReservations =
                 IF ~s.usageInitialized \/ n <= s.usageObserved
                   THEN s.pendingReservations
                 ELSE IF n - s.usageObserved >= s.pendingReservations THEN 0
                 ELSE s.pendingReservations - (n - s.usageObserved)
<1>1. CASE ~s.usageInitialized
  BY <1>1 DEF ReconcileReservation, KeyState
<1>2. CASE s.usageInitialized /\ n <= s.usageObserved
  BY <1>2 DEF ReconcileReservation, KeyState
<1>3. CASE s.usageInitialized /\ ~(n <= s.usageObserved)
  <2> DEFINE kept == IF n - s.usageObserved >= s.pendingReservations THEN 0
                     ELSE s.pendingReservations - (n - s.usageObserved)
             r == [s EXCEPT !.usageObserved = n, !.pendingReservations = kept]
  <2>1. /\ ReconcileReservation(s, n) = r
        /\ n > s.usageObserved
    BY <1>3 DEF ReconcileReservation, KeyState
  <2>2. kept \in Nat
    BY DEF KeyState
  <2>3. r \in KeyState
    BY <2>2 DEF KeyState
  <2>4. /\ r.active = s.active
        /\ r.observed = s.observed
        /\ r.observedPeriod = s.observedPeriod
        /\ r.usageInitialized = s.usageInitialized
        /\ r.usageObserved = n
        /\ r.pendingReservations = kept
    BY DEF KeyState
  <2>5. QED
    BY <1>3, <2>1, <2>3, <2>4
<1>4. QED
  BY <1>1, <1>2, <1>3

\* ExpireReservations keeps the type of a key and touches only what it counts.
LEMMA ExpireReservationsFacts ==
  ASSUME NEW s \in KeyState, NEW n \in Nat, NEW age
  PROVE  LET r == ExpireReservations(s, age, n)
         IN /\ r \in KeyState
            /\ r.active = s.active
            /\ r.observed = s.observed
            /\ r.observedPeriod = s.observedPeriod
            /\ \/ r = s
               \/ /\ age = 2
                  /\ r.usageInitialized
                  /\ r.usageObserved = n
                  /\ r.pendingReservations = 0
BY DEF ExpireReservations, KeyState

\* ReconcilePeriods keeps the type of a key and touches only its observed usage.
LEMMA ReconcilePeriodsFacts ==
  ASSUME NEW s \in KeyState, NEW row \in Row
  PROVE  LET r == ReconcilePeriods(s, row)
         IN /\ r \in KeyState
            /\ r.active = s.active
            /\ r.usageInitialized = s.usageInitialized
            /\ r.usageObserved = s.usageObserved
            /\ r.pendingReservations = s.pendingReservations
            /\ \A c \in Cycles :
                 /\ r.observedPeriod[c] =
                      IF row.period[c] > s.observedPeriod[c]
                        THEN row.period[c] ELSE s.observedPeriod[c]
                 /\ r.observed[c] =
                      IF \/ row.period[c] > s.observedPeriod[c]
                         \/ /\ row.period[c] = s.observedPeriod[c]
                            /\ row.used[c] > s.observed[c]
                        THEN row.used[c] ELSE s.observed[c]
BY DEF ReconcilePeriods, KeyState, Row

\* RefreshWindow keeps the type of a key and touches only its window.
LEMMA RefreshWindowFacts ==
  ASSUME NEW k \in Keys, NEW s \in KeyState
  PROVE  LET r == RefreshWindow(k, s)
         IN /\ r \in KeyState
            /\ r.active = s.active
            /\ r.usageInitialized = s.usageInitialized
            /\ r.usageObserved = s.usageObserved
            /\ r.pendingReservations = s.pendingReservations
            /\ r.observedPeriod = s.observedPeriod
            /\ r.observed = s.observed
BY DEF RefreshWindow, KeyState

\* Looking at a key brings its observed usage up to date and takes no slot of it.
\* Its reservations are reconciled with the reading, or have expired.
LEMMA VisitedFacts ==
  ASSUME NEW k \in Keys, keyStates[k] \in KeyState, NEW row \in Row, NEW age
  PROVE  LET s == keyStates[k]
             r == ReconcileReservation(s, row.total)
             v == Visited(k, age, row)
         IN /\ v \in KeyState
            /\ v.active = s.active
            /\ v.usageInitialized
            /\ \/ /\ v.usageObserved = r.usageObserved
                  /\ v.pendingReservations = r.pendingReservations
               \/ /\ age = 2
                  /\ v.usageObserved = row.total
                  /\ v.pendingReservations = 0
            /\ \A c \in Cycles :
                 /\ v.observedPeriod[c] =
                      IF row.period[c] > s.observedPeriod[c]
                        THEN row.period[c] ELSE s.observedPeriod[c]
                 /\ v.observed[c] =
                      IF \/ row.period[c] > s.observedPeriod[c]
                         \/ /\ row.period[c] = s.observedPeriod[c]
                            /\ row.used[c] > s.observed[c]
                        THEN row.used[c] ELSE s.observed[c]
<1> DEFINE s == keyStates[k]
           r == ReconcileReservation(s, row.total)
           e == ExpireReservations(r, age, row.total)
           t == ReconcilePeriods(e, row)
<1>1. row.total \in Nat
  BY DEF Row
<1>2. /\ r \in KeyState
      /\ r.active = s.active
      /\ r.observed = s.observed
      /\ r.observedPeriod = s.observedPeriod
      /\ r.usageInitialized
  BY <1>1, ReconcileReservationFacts
<1> HIDE DEF r
<1>3. /\ e \in KeyState
      /\ e.active = s.active
      /\ e.observed = s.observed
      /\ e.observedPeriod = s.observedPeriod
      /\ e.usageInitialized
      /\ \/ /\ e.usageObserved = r.usageObserved
            /\ e.pendingReservations = r.pendingReservations
         \/ /\ age = 2
            /\ e.usageObserved = row.total
            /\ e.pendingReservations = 0
  BY <1>1, <1>2, ExpireReservationsFacts
<1> HIDE DEF e
<1>4. /\ t \in KeyState
      /\ t.active = s.active
      /\ t.usageInitialized
      /\ t.usageObserved = e.usageObserved
      /\ t.pendingReservations = e.pendingReservations
      /\ \A c \in Cycles :
           /\ t.observedPeriod[c] =
                IF row.period[c] > s.observedPeriod[c]
                  THEN row.period[c] ELSE s.observedPeriod[c]
           /\ t.observed[c] =
                IF \/ row.period[c] > s.observedPeriod[c]
                   \/ /\ row.period[c] = s.observedPeriod[c]
                      /\ row.used[c] > s.observed[c]
                  THEN row.used[c] ELSE s.observed[c]
  BY <1>3, ReconcilePeriodsFacts
<1> HIDE DEF t
<1>5. Visited(k, age, row) = RefreshWindow(k, t)
  BY DEF Visited, SyncQuotaState, t, e, r
<1>6. QED
  BY <1>3, <1>4, <1>5, RefreshWindowFacts DEF r

\* Taking a key takes a slot and a reservation of it, and nothing else of what
\* the quota is counted with.
LEMMA TakenFacts ==
  ASSUME NEW k \in Keys, NEW s \in KeyState
  PROVE  /\ Taken(k, s) \in KeyState
         /\ Taken(k, s).active = s.active + 1
         /\ Taken(k, s).pendingReservations = s.pendingReservations + 1
         /\ Taken(k, s).usageInitialized = s.usageInitialized
         /\ Taken(k, s).usageObserved = s.usageObserved
         /\ Taken(k, s).observedPeriod = s.observedPeriod
         /\ Taken(k, s).observed = s.observed
<1> DEFINE count == IF RPMLimit[k] > 0 THEN s.windowCount + 1 ELSE 0
<1>1. Taken(k, s) = [s EXCEPT !.active = s.active + 1,
                              !.windowCount = count,
                              !.pendingReservations = s.pendingReservations + 1]
  BY DEF Taken
<1>2. count \in Nat
  BY DEF KeyState
<1> HIDE DEF count
<1>3. s.active + 1 \in Nat /\ s.pendingReservations + 1 \in Nat
  BY DEF KeyState
<1>4. Taken(k, s) \in KeyState
  BY <1>1, <1>2, <1>3, Zenon DEF KeyState
<1>5. QED
  BY <1>1, <1>4 DEF KeyState

(***************************************************************************)
(* Type correctness.                                                       *)
(***************************************************************************)

\* What goes with the place a request is in.
Phases ==
  \A p \in Requests :
    /\ pc[p] = "idle" => attempts[p] = <<>>
    /\ pc[p] = "listed" => Len(attempts[p]) < MaxAttempts
    /\ pc[p] # "listed" => rows[p] = NoRows

TypeInv == TypeOK /\ Phases

\* A request that has listed nothing has no rows.
LEMMA NoRowsType ==
  /\ DOMAIN NoRows = {}
  /\ NoRows \in [{} -> Row]
BY DEF NoRows

\* What the store lists has a row for keys of the provider only.
LEMMA ReadRowsType ==
  ASSUME TypeOK, NEW admitted \in SUBSET Keys
  PROVE  /\ DOMAIN ReadRows(admitted) \subseteq Keys
         /\ ReadRows(admitted) \in [DOMAIN ReadRows(admitted) -> Row]
BY DEF ReadRows, Available, TypeOK, Row

\* The keys a request looks at have a row each, and the states it leaves them
\* in are states.
LEMMA VisitedStatesType ==
  ASSUME TypeOK, NEW p \in Requests, NEW looked \in SUBSET DOMAIN rows[p]
  PROVE  /\ VisitedStates(p, looked) \in [Keys -> KeyState]
         /\ \A j \in Keys : VisitedStates(p, looked)[j].active = keyStates[j].active
         /\ \A j \in looked : j \in Keys /\ rows[p][j] \in Row
<1>1. \A j \in looked : j \in Keys /\ rows[p][j] \in Row
  BY DEF TypeOK
<1>2. \A j \in looked : /\ Visited(j, pendingAge[j], rows[p][j]) \in KeyState
                        /\ Visited(j, pendingAge[j], rows[p][j]).active
                             = keyStates[j].active
  <2> TAKE j \in looked
  <2>1. /\ j \in Keys
        /\ keyStates[j] \in KeyState
        /\ rows[p][j] \in Row
    BY <1>1 DEF TypeOK
  <2>2. QED
    BY <2>1, VisitedFacts
<1>3. QED
  BY <1>1, <1>2 DEF VisitedStates, TypeOK

\* The ages and the requests present keep their types (Reserve and Refuse).
LEMMA ReservationsAgedType ==
  ASSUME TypeOK, NEW visited, NEW taken, ReservationsAged(visited, taken)
  PROVE  /\ pendingAge' \in [Keys -> 0..2]
         /\ present' \in [Keys -> SUBSET Requests]
         /\ lost' \in [Keys -> Nat]
BY DEF TypeOK, ReservationsAged, AgeAfter, PresentAfter, LostAfter, Busy

\* The calls of a key without a log are finitely many.
LEMMA SlotsFinite ==
  ASSUME NEW k
  PROVE  /\ IsFiniteSet(Slots)
         /\ IsFiniteSet(Outstanding(k))
         /\ \A p : IsFiniteSet(CallsOf(p, k)) /\ Cardinality(CallsOf(p, k)) \in Nat
         /\ Cardinality(Outstanding(k)) \in Nat
<1>1. IsFiniteSet(1..MaxAttempts)
  BY LimitsAssumption, FS_Interval
<1>2. IsFiniteSet(Slots)
  BY <1>1, RequestsAssumption, FS_Product DEF Slots
<1>3. IsFiniteSet(Outstanding(k))
  BY <1>2, FS_Subset DEF Outstanding
<1>4. ASSUME NEW p PROVE IsFiniteSet(CallsOf(p, k))
  BY <1>3, FS_Subset DEF CallsOf
<1>5. QED
  BY <1>2, <1>3, <1>4, FS_CardinalityType

\* The initial states have their types.
LEMMA TypeInit == Init => TypeInv
<1> SUFFICES ASSUME Init PROVE TypeInv
  OBVIOUS
<1>1. NewKeyState \in KeyState
  BY DEF NewKeyState, KeyState, NoPeriod
<1>2. Phases
  BY DEF Init, Phases
<1>3. \A p \in Requests : /\ DOMAIN rows[p] \subseteq Keys
                          /\ rows[p] \in [DOMAIN rows[p] -> Row]
  BY NoRowsType DEF Init
<1>4. TypeOK
  BY <1>1, <1>3, LimitsAssumption DEF Init, TypeOK, Positions, NoPeriod, InCall
<1>5. QED
  BY <1>2, <1>4 DEF TypeInv

\* Every step keeps the types.
LEMMA TypeStep == TypeInv /\ [Next]_vars => TypeInv'
<1> SUFFICES ASSUME TypeInv, [Next]_vars PROVE TypeInv'
  OBVIOUS
<1> USE DEF TypeInv
<1>1. ASSUME NEW p \in Requests, NEW admitted \in SUBSET Keys, ListKeys(p, admitted)
      PROVE  TypeInv'
  <2>1. CASE Available(admitted) = {}
    BY <1>1, <2>1 DEF ListKeys, TypeOK, Phases, memory, database, MayAttempt,
                      InCall, Positions
  <2>2. CASE Available(admitted) # {}
    <3>1. \A q \in Requests : /\ DOMAIN rows'[q] \subseteq Keys
                              /\ rows'[q] \in [DOMAIN rows'[q] -> Row]
      BY <1>1, <2>2, ReadRowsType, ZenonT(60) DEF ListKeys, TypeOK
    <3>2. TypeOK'
      BY <1>1, <2>2, <3>1 DEF ListKeys, TypeOK, memory, database, InCall, Positions
    <3>3. Phases'
      BY <1>1, <2>2 DEF ListKeys, TypeOK, Phases, MayAttempt
    <3>4. QED
      BY <3>2, <3>3
  <2>3. QED
    BY <2>1, <2>2
<1>2. ASSUME NEW p \in Requests, AbandonAcquire(p)
      PROVE  TypeInv'
  BY <1>2, NoRowsType DEF AbandonAcquire, TypeOK, Phases, memory, database, InCall,
                          Positions
<1>3. ASSUME NEW p \in Requests, NEW k \in Keys, NEW skipped \in SUBSET Keys,
             Reserve(p, k, skipped)
      PROVE  TypeInv'
  <2> DEFINE visited == VisitedStates(p, skipped \cup {k})
  <2>1. visited \in [Keys -> KeyState]
    BY <1>3, VisitedStatesType DEF Reserve
  <2>0. keyStates' = [visited EXCEPT ![k] = Taken(k, visited[k])]
    BY <1>3 DEF Reserve
  <2> HIDE DEF visited
  <2>2. Taken(k, visited[k]) \in KeyState
    BY <2>1, TakenFacts
  <2>3. keyStates' \in [Keys -> KeyState]
    BY <2>0, <2>1, <2>2
  <2>4. /\ pendingAge' \in [Keys -> 0..2]
        /\ present' \in [Keys -> SUBSET Requests]
        /\ lost' \in [Keys -> Nat]
    BY <1>3, ReservationsAgedType DEF Reserve
  <2>5. /\ attempts' \in [Requests -> Seq(Keys)]
        /\ \A q \in Requests : Len(attempts'[q]) <= MaxAttempts
        /\ attempts'[p] # <<>>
        /\ \A q \in Requests \ {p} : attempts'[q] = attempts[q]
    <3>1. /\ attempts[p] \in Seq(Keys)
          /\ Len(attempts[p]) < MaxAttempts
      BY <1>3 DEF Reserve, TypeOK, Phases
    <3>2. /\ Append(attempts[p], k) \in Seq(Keys)
          /\ Len(Append(attempts[p], k)) = Len(attempts[p]) + 1
      BY <3>1
    <3>3. Len(Append(attempts[p], k)) <= MaxAttempts /\ Append(attempts[p], k) # <<>>
      <4>1. Len(<<>>) = 0 /\ Len(attempts[p]) \in Nat
        BY <3>1
      <4>2. Len(attempts[p]) + 1 <= MaxAttempts
        BY <3>1, <4>1, LimitsAssumption
      <4>3. Append(attempts[p], k) # <<>>
        BY <3>2, <4>1
      <4>4. QED
        BY <3>2, <4>2, <4>3
    <3>4. attempts' = [attempts EXCEPT ![p] = Append(attempts[p], k)]
      BY <1>3 DEF Reserve
    <3>5. QED
      BY <3>2, <3>3, <3>4 DEF TypeOK
  <2>6. \A q \in Requests : /\ DOMAIN rows'[q] \subseteq Keys
                            /\ rows'[q] \in [DOMAIN rows'[q] -> Row]
    BY <1>3, NoRowsType DEF Reserve, TypeOK
  <2>7. TypeOK'
    <3>1. providerActive' \in Nat /\ pc' \in [Requests -> Positions]
      BY <1>3 DEF Reserve, TypeOK, Positions
    <3>2. /\ DOMAIN rows' = Requests
          /\ \A q \in InCall' : q = p \/ q \in InCall
      BY <1>3 DEF Reserve, TypeOK, InCall
    <3>3. UNCHANGED <<total, used, period, logPeriod>>
      BY <1>3 DEF Reserve, database
    <3>4. QED
      BY <2>3, <2>4, <2>5, <2>6, <3>1, <3>2, <3>3 DEF TypeOK, InCall
  <2>8. Phases'
    BY <1>3, <2>5 DEF Reserve, TypeOK, Phases
  <2>9. QED
    BY <2>7, <2>8
<1>4. ASSUME NEW p \in Requests, Refuse(p)
      PROVE  TypeInv'
  <2> DEFINE looked == IF ProviderBusy THEN {} ELSE DOMAIN rows[p]
  <2>1. VisitedStates(p, looked) \in [Keys -> KeyState]
    BY VisitedStatesType
  <2>2. /\ pendingAge' \in [Keys -> 0..2]
        /\ present' \in [Keys -> SUBSET Requests]
        /\ lost' \in [Keys -> Nat]
    BY <1>4, ReservationsAgedType DEF Refuse
  <2>3. QED
    BY <1>4, <2>1, <2>2, NoRowsType DEF Refuse, TypeOK, Phases, database, InCall,
                                        Positions
<1>5. ASSUME NEW p \in Requests, Release(p)
      PROVE  TypeInv'
  <2>1. HeldKey(p) \in Keys
    BY <1>5 DEF Release, HeldKey, TypeOK, InCall
  <2>2. /\ keyStates' \in [Keys -> KeyState]
        /\ providerActive' \in Nat
    <3> DEFINE h == HeldKey(p)
    <3>1. h \in Keys /\ keyStates[h] \in KeyState
      BY <2>1 DEF TypeOK
    <3> HIDE DEF h
    <3> DEFINE left == IF keyStates[h].active > 0 THEN keyStates[h].active - 1 ELSE 0
    <3>2. [keyStates[h] EXCEPT !.active = left] \in KeyState
      BY <3>1 DEF KeyState
    <3>3. keyStates' = [keyStates EXCEPT ![h] = [keyStates[h] EXCEPT !.active = left]]
      BY <1>5 DEF Release, ReleaseCounters, h
    <3> HIDE DEF left
    <3>4. keyStates' \in [Keys -> KeyState]
      BY <3>1, <3>2, <3>3 DEF TypeOK
    <3>5. providerActive' \in Nat
      BY <1>5 DEF Release, ReleaseCounters, TypeOK
    <3>6. QED
      BY <3>4, <3>5
  <2>3. QED
    BY <1>5, <2>2 DEF Release, TypeOK, Phases, database, InCall, Positions
<1>6. ASSUME NEW p \in Requests, BeginLog(p)
      PROVE  TypeInv'
  BY <1>6 DEF BeginLog, TypeOK, Phases, memory, database, InCall, Positions
<1>7. ASSUME NEW p \in Requests, CommitLog(p)
      PROVE  TypeInv'
  <2>1. /\ total' \in [Keys -> Nat]
        /\ used' \in [Keys -> [Cycles -> Nat]]
    <3>1. \A k \in Keys : Cardinality(CallsOf(p, k)) \in Nat
      BY SlotsFinite
    <3>2. QED
      BY <1>7, <3>1 DEF CommitLog, TypeOK
  <2>2. QED
    BY <1>7, <2>1, LimitsAssumption
       DEF CommitLog, Finished, TypeOK, Phases, InCall, Positions, NoPeriod
<1>8. ASSUME NEW p \in Requests, LoseLog(p)
      PROVE  TypeInv'
  <2>1. lost' \in [Keys -> Nat]
    <3>1. \A k \in Keys : Cardinality(CallsOf(p, k)) \in Nat
      BY SlotsFinite
    <3>2. QED
      BY <1>8, <3>1 DEF LoseLog, TypeOK
  <2>2. QED
    BY <1>8, <2>1, LimitsAssumption
       DEF LoseLog, Finished, TypeOK, Phases, InCall, Positions, NoPeriod, database
<1>9. ASSUME NEW k \in Keys, AgeReservations(k)
      PROVE  TypeInv'
  <2>1. /\ pendingAge' \in [Keys -> 0..2]
        /\ present' \in [Keys -> SUBSET Requests]
    <3>1. pendingAge[k] + 1 \in 0..2
      <4>1. pendingAge[k] \in 0..2
        BY DEF TypeOK
      <4>2. pendingAge[k] < 2
        BY <1>9 DEF AgeReservations
      <4>3. QED
        BY <4>1, <4>2
    <3>2. pendingAge' = [pendingAge EXCEPT ![k] = pendingAge[k] + 1]
      BY <1>9 DEF AgeReservations
    <3>3. present' \in [Keys -> SUBSET Requests]
      BY <1>9 DEF AgeReservations, TypeOK, Busy
    <3>4. QED
      BY <3>1, <3>2, <3>3 DEF TypeOK
  <2>2. UNCHANGED <<keyStates, providerActive, total, used, period, pc, rows,
                    attempts, logPeriod, lost>>
    BY <1>9 DEF AgeReservations, database, requests
  <2>3. QED
    BY <2>1, <2>2 DEF TypeOK, Phases, InCall
<1>10. ASSUME NEW k \in Keys, MinutePasses(k)
       PROVE  TypeInv'
  <2>1. keyStates[k] \in KeyState
    BY DEF TypeOK
  <2>2. [keyStates[k] EXCEPT !.windowElapsed = TRUE] \in KeyState
    BY <2>1 DEF KeyState
  <2>3. keyStates' = [keyStates EXCEPT ![k] = [@ EXCEPT !.windowElapsed = TRUE]]
    BY <1>10 DEF MinutePasses
  <2>4. keyStates' \in [Keys -> KeyState]
    BY <2>2, <2>3 DEF TypeOK
  <2>5. UNCHANGED <<providerActive, pendingAge, present, total, used, period, pc,
                    rows, attempts, logPeriod, lost>>
    BY <1>10 DEF MinutePasses, database, requests
  <2>6. QED
    BY <2>4, <2>5 DEF TypeOK, Phases, InCall
<1>11. ASSUME NEW cycles \in Rollovers, Rollover(cycles)
       PROVE  TypeInv'
  BY <1>11 DEF Rollover, TypeOK, Phases, memory, requests, InCall
<1>12. CASE Restart
  <2>1. NewKeyState \in KeyState
    BY DEF NewKeyState, KeyState, NoPeriod
  <2>2. QED
    BY <1>12, <2>1, NoRowsType, LimitsAssumption
       DEF Restart, TypeOK, Phases, database, InCall, Positions, NoPeriod
<1>13. CASE UNCHANGED vars
  BY <1>13 DEF vars, memory, database, requests, TypeOK, Phases, InCall
<1>14. QED
  BY <1>1, <1>2, <1>3, <1>4, <1>5, <1>6, <1>7, <1>8, <1>9, <1>10, <1>11, <1>12,
     <1>13 DEF Next

\* TypeInv is an invariant of KeyPool.
LEMMA TypeInvariant == Spec => []TypeInv
BY TypeInit, TypeStep, PTL DEF Spec

\* Every variable keeps its type, whatever the limits are.
THEOREM TypeCorrect == Spec => []TypeOK
<1>1. TypeInv => TypeOK
  BY DEF TypeInv
<1>2. QED
  BY <1>1, TypeInvariant, PTL

(***************************************************************************)
(* The slots of concurrency.                                               *)
(***************************************************************************)

SlotInv == TypeInv /\ SlotsAccounted /\ ConcurrencyHeld

\* The calls in progress can be counted.
LEMMA InCallFinite ==
  ASSUME NEW k
  PROVE  /\ IsFiniteSet(InCall)
         /\ IsFiniteSet(Holders(k))
         /\ Cardinality(InCall) \in Nat
         /\ Cardinality(Holders(k)) \in Nat
<1>1. IsFiniteSet(InCall)
  BY RequestsAssumption, FS_Subset DEF InCall
<1>2. IsFiniteSet(Holders(k))
  BY <1>1, FS_Subset DEF Holders
<1>3. QED
  BY <1>1, <1>2, FS_CardinalityType

\* A step that begins no call and ends none, and takes and frees no slot.
LEMMA SameCalls ==
  ASSUME SlotInv,
         InCall' = InCall,
         \A q \in InCall : attempts'[q] = attempts[q],
         \A k \in Keys : keyStates'[k].active = keyStates[k].active,
         providerActive' = providerActive
  PROVE  SlotsAccounted' /\ ConcurrencyHeld'
<1>1. \A k : Holders(k)' = Holders(k)
  BY DEF Holders, HeldKey
<1>2. QED
  BY <1>1 DEF SlotInv, SlotsAccounted, ConcurrencyHeld

\* No call is in progress at first.
LEMMA SlotInit == Init => SlotsAccounted /\ ConcurrencyHeld
<1> SUFFICES ASSUME Init PROVE SlotsAccounted /\ ConcurrencyHeld
  OBVIOUS
<1>1. InCall = {} /\ \A k : Holders(k) = {}
  BY DEF Init, InCall, Holders
<1>2. Cardinality(InCall) = 0 /\ \A k : Cardinality(Holders(k)) = 0
  BY <1>1, FS_EmptySet
<1>3. providerActive = 0 /\ \A k \in Keys : keyStates[k].active = 0
  BY DEF Init, NewKeyState
<1>4. QED
  BY <1>2, <1>3, LimitsAssumption DEF SlotsAccounted, ConcurrencyHeld

\* Every step keeps the counters equal to the calls in progress, and both
\* within their limits.
LEMMA SlotStep == SlotInv /\ [Next]_vars => SlotsAccounted' /\ ConcurrencyHeld'
<1> SUFFICES ASSUME SlotInv, [Next]_vars PROVE SlotsAccounted' /\ ConcurrencyHeld'
  OBVIOUS
<1>0. TypeOK /\ SlotsAccounted /\ ConcurrencyHeld
  BY DEF SlotInv, TypeInv
<1>1. ASSUME NEW p \in Requests, NEW admitted \in SUBSET Keys, ListKeys(p, admitted)
      PROVE  SlotsAccounted' /\ ConcurrencyHeld'
  BY <1>0, <1>1, SameCalls DEF ListKeys, TypeOK, InCall, memory
<1>2. ASSUME NEW p \in Requests, AbandonAcquire(p)
      PROVE  SlotsAccounted' /\ ConcurrencyHeld'
  BY <1>0, <1>2, SameCalls DEF AbandonAcquire, TypeOK, InCall, memory
<1>3. ASSUME NEW p \in Requests, NEW k \in Keys, NEW skipped \in SUBSET Keys,
             Reserve(p, k, skipped)
      PROVE  SlotsAccounted' /\ ConcurrencyHeld'
  <2> DEFINE visited == VisitedStates(p, skipped \cup {k})
  <2>1. /\ visited \in [Keys -> KeyState]
        /\ \A j \in Keys : visited[j].active = keyStates[j].active
    BY <1>0, <1>3, VisitedStatesType DEF Reserve
  <2>2. /\ keyStates' = [visited EXCEPT ![k] = Taken(k, visited[k])]
        /\ ~KeyBusy(k, visited[k])
    BY <1>3 DEF Reserve, CanUse
  <2> HIDE DEF visited
  <2>3. /\ keyStates'[k].active = keyStates[k].active + 1
        /\ \A j \in Keys \ {k} : keyStates'[j].active = keyStates[j].active
        /\ KeyConcurrency[k] > 0 => keyStates[k].active < KeyConcurrency[k]
    <3>1. keyStates'[k] = Taken(k, visited[k]) /\ visited[k] \in KeyState
      BY <2>1, <2>2
    <3>2. keyStates'[k].active = keyStates[k].active + 1
      BY <2>1, <3>1, TakenFacts
    <3>3. \A j \in Keys \ {k} : keyStates'[j].active = keyStates[j].active
      BY <2>1, <2>2
    <3>4. KeyConcurrency[k] > 0 => keyStates[k].active < KeyConcurrency[k]
      <4>1. visited[k].active \in Nat /\ visited[k].active = keyStates[k].active
        BY <2>1, <3>1 DEF KeyState
      <4>2. KeyConcurrency[k] \in Nat
        BY LimitsAssumption
      <4>3. QED
        BY <2>2, <4>1, <4>2 DEF KeyBusy
    <3>5. QED
      BY <3>2, <3>3, <3>4
  <2>4. /\ providerActive' = providerActive + 1
        /\ ProviderConcurrency > 0 => providerActive < ProviderConcurrency
    BY <1>0, <1>3, LimitsAssumption DEF Reserve, ProviderBusy, TypeOK
  <2>5. /\ p \notin InCall
        /\ InCall' = InCall \cup {p}
    BY <1>0, <1>3 DEF Reserve, InCall, TypeOK
  <2>6. /\ HeldKey(p)' = k
        /\ \A q \in InCall : HeldKey(q)' = HeldKey(q)
    <3>1. attempts[p] \in Seq(Keys)
      BY <1>0 DEF TypeOK
    <3>2. attempts'[p] = Append(attempts[p], k)
      BY <1>0, <1>3 DEF Reserve, TypeOK
    <3>3. HeldKey(p)' = k
      BY <3>1, <3>2 DEF HeldKey
    <3>4. \A q \in InCall : attempts'[q] = attempts[q]
      BY <1>0, <1>3, <2>5 DEF Reserve, TypeOK
    <3>5. QED
      BY <3>3, <3>4 DEF HeldKey
  <2>7. /\ p \notin Holders(k)
        /\ Holders(k)' = Holders(k) \cup {p}
        /\ \A j \in Keys \ {k} : Holders(j)' = Holders(j)
    BY <2>5, <2>6 DEF Holders
  <2>8. /\ Cardinality(InCall') = Cardinality(InCall) + 1
        /\ Cardinality(Holders(k)') = Cardinality(Holders(k)) + 1
    BY <2>5, <2>7, InCallFinite, FS_AddElement
  <2>9. SlotsAccounted'
    BY <1>0, <2>3, <2>4, <2>7, <2>8 DEF SlotsAccounted
  <2>10. ConcurrencyHeld'
    <3>1. ProviderConcurrency > 0 => Cardinality(InCall') <= ProviderConcurrency
      BY <1>0, <2>4, <2>8, LimitsAssumption, InCallFinite DEF SlotsAccounted
    <3>2. KeyConcurrency[k] > 0 => Cardinality(Holders(k)') <= KeyConcurrency[k]
      BY <1>0, <2>3, <2>8, LimitsAssumption, InCallFinite DEF SlotsAccounted
    <3>3. QED
      BY <1>0, <2>7, <3>1, <3>2 DEF ConcurrencyHeld
  <2>11. QED
    BY <2>9, <2>10
<1>4. ASSUME NEW p \in Requests, Refuse(p)
      PROVE  SlotsAccounted' /\ ConcurrencyHeld'
  <2> DEFINE looked == IF ProviderBusy THEN {} ELSE DOMAIN rows[p]
  <2>1. \A j \in Keys : keyStates'[j].active = keyStates[j].active
    BY <1>0, <1>4, VisitedStatesType DEF Refuse
  <2>2. /\ InCall' = InCall
        /\ UNCHANGED <<attempts, providerActive>>
    BY <1>0, <1>4 DEF Refuse, TypeOK, InCall
  <2>3. QED
    BY <2>1, <2>2, SameCalls
<1>5. ASSUME NEW p \in Requests, Release(p)
      PROVE  SlotsAccounted' /\ ConcurrencyHeld'
  <2>1. /\ p \in InCall
        /\ InCall' = InCall \ {p}
        /\ UNCHANGED attempts
    BY <1>0, <1>5 DEF Release, InCall, TypeOK
  <2>2. PICK h \in Keys : h = HeldKey(p)
    BY <1>0, <2>1 DEF HeldKey, TypeOK
  <2>3. /\ p \in Holders(h)
        /\ Holders(h)' = Holders(h) \ {p}
        /\ \A j \in Keys \ {h} : Holders(j)' = Holders(j)
    BY <2>1, <2>2 DEF Holders, HeldKey
  <2>4. /\ Cardinality(InCall') = Cardinality(InCall) - 1
        /\ Cardinality(Holders(h)') = Cardinality(Holders(h)) - 1
    BY <2>1, <2>3, InCallFinite, FS_RemoveElement
  <2>5. Cardinality(InCall) > 0 /\ Cardinality(Holders(h)) > 0
    BY <2>1, <2>3, InCallFinite, FS_EmptySet
  <2>6. /\ keyStates' = [keyStates EXCEPT ![h].active = IF @ > 0 THEN @ - 1 ELSE 0]
        /\ providerActive' = IF providerActive > 0 THEN providerActive - 1 ELSE 0
    BY <1>5, <2>2 DEF Release, ReleaseCounters
  <2>7. /\ keyStates[h].active > 0
        /\ providerActive > 0
    BY <1>0, <2>2, <2>5 DEF SlotsAccounted
  <2>8. /\ keyStates'[h].active = keyStates[h].active - 1
        /\ \A j \in Keys \ {h} : keyStates'[j].active = keyStates[j].active
        /\ providerActive' = providerActive - 1
    BY <1>0, <2>2, <2>6, <2>7 DEF TypeOK, KeyState
  <2>9. SlotsAccounted'
    BY <1>0, <2>2, <2>3, <2>4, <2>8 DEF SlotsAccounted
  <2>10. ConcurrencyHeld'
    <3>1. ProviderConcurrency > 0 => Cardinality(InCall') <= ProviderConcurrency
      BY <1>0, <2>4, InCallFinite, LimitsAssumption DEF ConcurrencyHeld
    <3>2. KeyConcurrency[h] > 0 => Cardinality(Holders(h)') <= KeyConcurrency[h]
      BY <1>0, <2>2, <2>4, InCallFinite, LimitsAssumption DEF ConcurrencyHeld
    <3>3. QED
      BY <1>0, <2>2, <2>3, <3>1, <3>2 DEF ConcurrencyHeld
  <2>11. QED
    BY <2>9, <2>10
<1>6. ASSUME NEW p \in Requests, BeginLog(p)
      PROVE  SlotsAccounted' /\ ConcurrencyHeld'
  BY <1>0, <1>6, SameCalls DEF BeginLog, TypeOK, InCall, memory
<1>7. ASSUME NEW p \in Requests, CommitLog(p) \/ LoseLog(p)
      PROVE  SlotsAccounted' /\ ConcurrencyHeld'
  <2>1. /\ InCall' = InCall
        /\ p \notin InCall
        /\ \A q \in InCall : attempts'[q] = attempts[q]
        /\ UNCHANGED <<keyStates, providerActive>>
    BY <1>0, <1>7 DEF CommitLog, LoseLog, Finished, TypeOK, InCall
  <2>2. QED
    BY <2>1, SameCalls
<1>8. ASSUME NEW k \in Keys, AgeReservations(k)
      PROVE  SlotsAccounted' /\ ConcurrencyHeld'
  BY <1>8, SameCalls DEF AgeReservations, InCall, requests
<1>9. ASSUME NEW k \in Keys, MinutePasses(k)
      PROVE  SlotsAccounted' /\ ConcurrencyHeld'
  <2>1. \A j \in Keys : keyStates'[j].active = keyStates[j].active
    BY <1>0, <1>9 DEF MinutePasses, TypeOK, KeyState
  <2>2. InCall' = InCall /\ UNCHANGED <<attempts, providerActive>>
    BY <1>9 DEF MinutePasses, InCall, requests
  <2>3. QED
    BY <2>1, <2>2, SameCalls
<1>10. ASSUME NEW cycles \in Rollovers, Rollover(cycles)
       PROVE  SlotsAccounted' /\ ConcurrencyHeld'
  BY <1>10, SameCalls DEF Rollover, InCall, memory, requests
<1>11. CASE Restart
  <2>1. InCall' = {} /\ \A k : Holders(k)' = {}
    BY <1>11 DEF Restart, InCall, Holders
  <2>2. Cardinality(InCall') = 0 /\ \A k : Cardinality(Holders(k)') = 0
    BY <2>1, FS_EmptySet
  <2>3. providerActive' = 0 /\ \A k \in Keys : keyStates'[k].active = 0
    BY <1>11 DEF Restart, NewKeyState
  <2>4. QED
    BY <2>2, <2>3, LimitsAssumption DEF SlotsAccounted, ConcurrencyHeld
<1>12. CASE UNCHANGED vars
  BY <1>12, SameCalls DEF vars, memory, requests, InCall
<1>13. QED
  BY <1>1, <1>2, <1>3, <1>4, <1>5, <1>6, <1>7, <1>8, <1>9, <1>10, <1>11, <1>12
     DEF Next

\* SlotInv is an invariant of KeyPool.
LEMMA SlotInvariant == Spec => []SlotInv
<1>1. Init => SlotInv
  BY TypeInit, SlotInit DEF SlotInv
<1>2. SlotInv /\ [Next]_vars => SlotInv'
  BY TypeStep, SlotStep DEF SlotInv
<1>3. QED
  BY <1>1, <1>2, PTL DEF Spec

\* No path through Acquire and the release closure leaks a slot of a key or of
\* the provider, or frees one twice.
THEOREM SlotsCorrect == Spec => []SlotsAccounted
<1>1. SlotInv => SlotsAccounted
  BY DEF SlotInv
<1>2. QED
  BY <1>1, SlotInvariant, PTL

\* The limits of concurrency hold for every number of keys and requests.
THEOREM ConcurrencyCorrect == Spec => []ConcurrencyHeld
<1>1. SlotInv => ConcurrencyHeld
  BY DEF SlotInv
<1>2. QED
  BY <1>1, SlotInvariant, PTL

-----------------------------------------------------------------------------
(***************************************************************************)
(* The reservations of the manager keep the quotas.                        *)
(*                                                                         *)
(* Neither QuotaHeld nor BooksBalance is inductive: they rest on what the  *)
(* readings of the database that are under way can still say, and on when  *)
(* an expiry can happen.  QuotaInv adds that.                              *)
(***************************************************************************)

\* A reading of key k that has seen the total seen and, in the period per of
\* cycle c, u requests: what is recorded and not seen in the period is at most
\* what is recorded and not seen at all.
Covers(k, c, seen, per, u) ==
  /\ per <= period[c]
  /\ used[k][c] <= total[k] - seen + (IF per = period[c] THEN u ELSE 0)

\* Of two readings, the one of the later period has not seen less.
InOrder(seen1, period1, seen2, period2) ==
  \A c \in Cycles : /\ period1[c] > period2[c] => seen1 >= seen2
                    /\ period2[c] > period1[c] => seen2 >= seen1

Reading(p, k) == k \in DOMAIN rows[p]

\* The state s of key k, with n of its calls lost, is in balance with what is
\* recorded and what is still to be logged.
Balanced(k, s, n) ==
  IF s.usageInitialized
    THEN s.usageObserved + s.pendingReservations
           = total[k] + Cardinality(Outstanding(k)) + n
    ELSE /\ s.usageObserved = 0
         /\ s.pendingReservations = 0
         /\ \A c \in Cycles : s.observedPeriod[c] = 0
         /\ Cardinality(Outstanding(k)) = 0
         /\ n = 0
         /\ \A p \in Requests : Reading(p, k) => rows[p][k].total = total[k]

StateCovers(k, s) ==
  \A c \in Cycles : Covers(k, c, s.usageObserved, s.observedPeriod[c], s.observed[c])

RowsCover(k) ==
  \A p \in Requests : Reading(p, k) =>
    /\ rows[p][k].total <= total[k]
    /\ \A c \in Cycles :
         Covers(k, c, rows[p][k].total, rows[p][k].period[c], rows[p][k].used[c])

StateInOrder(k, s) ==
  \A p \in Requests : Reading(p, k) =>
    InOrder(s.usageObserved, s.observedPeriod, rows[p][k].total, rows[p][k].period)

RowsInOrder(k) ==
  \A p, q \in Requests : Reading(p, k) /\ Reading(q, k) =>
    InOrder(rows[p][k].total, rows[p][k].period, rows[q][k].total, rows[q][k].period)

\* What may be known of the state of a key when its reservations have an age.
Aged(k) ==
  /\ pendingAge[k] = 0 =>
       \A p \in Requests : CallsOf(p, k) # {} => p \in present[k]
  /\ pendingAge[k] > 0 => Outstanding(k) = {}
  /\ pendingAge[k] = 1 =>
       \A p \in Requests :
         Reading(p, k) /\ rows[p][k].total # total[k] => p \in present[k]
  /\ pendingAge[k] = 2 =>
       \A p \in Requests : Reading(p, k) => rows[p][k].total = total[k]

\* The state s may be that of key k, with n calls lost.
Sound(k, s, n) ==
  /\ s.usageObserved <= total[k]
  /\ Balanced(k, s, n)
  /\ StateCovers(k, s)
  /\ StateInOrder(k, s)

KeyInv(k) ==
  /\ \A c \in Cycles : used[k][c] <= total[k]
  /\ Sound(k, keyStates[k], lost[k])
  /\ RowsCover(k)
  /\ RowsInOrder(k)
  /\ Aged(k)

QuotaInv ==
  /\ TypeInv
  /\ \A k \in Keys : KeyInv(k)
  /\ QuotaHeld

-----------------------------------------------------------------------------
(* Looking at a key keeps its state sound. *)

\* Each key has what its types say.
LEMMA KeyTypes ==
  ASSUME TypeOK, NEW k \in Keys
  PROVE  /\ keyStates[k] \in KeyState
         /\ pendingAge[k] \in 0..2
         /\ total[k] \in Nat
         /\ lost[k] \in Nat
         /\ Cardinality(Outstanding(k)) \in Nat
         /\ \A c \in Cycles : used[k][c] \in Nat /\ period[c] \in Nat /\ period[c] > 0
         /\ \A p \in Requests : Reading(p, k) => rows[p][k] \in Row
BY SlotsFinite DEF TypeOK, Reading

\* The usage a state has observed after a visit is the larger of what it had
\* observed and what was read; its reservations still balance.
LEMMA VisitedBalance ==
  ASSUME TypeOK, NEW k \in Keys, NEW p \in Requests, Reading(p, k), KeyInv(k)
  PROVE  LET s == keyStates[k]
             row == rows[p][k]
             v == Visited(k, pendingAge[k], row)
         IN /\ v.usageObserved =
                 IF row.total > s.usageObserved THEN row.total ELSE s.usageObserved
            /\ v.usageObserved + v.pendingReservations
                 = total[k] + Cardinality(Outstanding(k)) + LostAfter(k, v)
<1> DEFINE s == keyStates[k]
           row == rows[p][k]
           r == ReconcileReservation(s, row.total)
           v == Visited(k, pendingAge[k], row)
           T == total[k]
           O == Cardinality(Outstanding(k))
<1>1. /\ s \in KeyState /\ row \in Row /\ row.total \in Nat
      /\ s.usageObserved \in Nat /\ s.pendingReservations \in Nat
      /\ T \in Nat /\ O \in Nat /\ lost[k] \in Nat
  BY KeyTypes DEF KeyState, Row
<1>2. /\ row.total <= T
      /\ s.usageObserved <= T
      /\ ~s.usageInitialized =>
           /\ s.usageObserved = 0 /\ s.pendingReservations = 0
           /\ O = 0 /\ lost[k] = 0 /\ row.total = T
      /\ s.usageInitialized =>
           s.usageObserved + s.pendingReservations = T + O + lost[k]
  BY DEF KeyInv, Sound, RowsCover, Balanced
<1>3. pendingAge[k] = 2 => row.total = T /\ O = 0
  <2>1. pendingAge[k] = 2 => row.total = T /\ Outstanding(k) = {}
    BY DEF KeyInv, Aged
  <2>2. Cardinality({}) = 0
    BY FS_EmptySet
  <2>3. QED
    BY <2>1, <2>2
<1>4. /\ r.usageObserved =
           IF ~s.usageInitialized \/ row.total > s.usageObserved
             THEN row.total ELSE s.usageObserved
      /\ r.pendingReservations =
           IF ~s.usageInitialized \/ row.total <= s.usageObserved
             THEN s.pendingReservations
           ELSE IF row.total - s.usageObserved >= s.pendingReservations THEN 0
           ELSE s.pendingReservations - (row.total - s.usageObserved)
  BY <1>1, ReconcileReservationFacts
<1>5. \/ /\ v.usageObserved = r.usageObserved
         /\ v.pendingReservations = r.pendingReservations
      \/ /\ pendingAge[k] = 2
         /\ v.usageObserved = row.total
         /\ v.pendingReservations = 0
  BY <1>1, VisitedFacts
<1>6. LostAfter(k, v) = IF v.pendingReservations = 0 THEN 0 ELSE lost[k]
  BY DEF LostAfter
<1> HIDE DEF s, row, r, v, T, O
<1>7. v.usageObserved =
        IF row.total > s.usageObserved THEN row.total ELSE s.usageObserved
  BY <1>1, <1>2, <1>3, <1>4, <1>5
<1>8. v.usageObserved + v.pendingReservations = T + O + LostAfter(k, v)
  <2>1. CASE pendingAge[k] = 2 /\ v.usageObserved = row.total
                               /\ v.pendingReservations = 0
    BY <1>1, <1>3, <1>6, <2>1
  <2>2. CASE /\ v.usageObserved = r.usageObserved
             /\ v.pendingReservations = r.pendingReservations
    <3>1. CASE ~s.usageInitialized
      BY <1>1, <1>2, <1>4, <1>6, <2>2, <3>1
    <3>2. CASE s.usageInitialized /\ row.total <= s.usageObserved
      <4>1. s.pendingReservations = 0 => lost[k] = 0
        BY <1>1, <1>2, <3>2
      <4>2. QED
        BY <1>1, <1>2, <1>4, <1>6, <2>2, <3>2, <4>1
    <3>3. CASE s.usageInitialized /\ row.total > s.usageObserved
      <4>1. v.pendingReservations = T + O + lost[k] - row.total
        BY <1>1, <1>2, <1>4, <2>2, <3>3
      <4>2. v.pendingReservations = 0 => lost[k] = 0
        <5>1. row.total <= T /\ lost[k] \in Nat
          BY <1>1, <1>2
        <5>2. QED
          BY <1>1, <4>1, <5>1
      <4>3. v.usageObserved = row.total
        BY <1>4, <2>2, <3>3
      <4>4. QED
        BY <1>1, <1>6, <4>1, <4>2, <4>3
    <3>4. QED
      BY <1>1, <3>1, <3>2, <3>3
  <2>3. QED
    BY <1>5, <2>1, <2>2
<1>9. QED
  BY <1>7, <1>8 DEF s, row, v, T, O

\* canUse, with the rows a request listed, leaves a key sound: every call that is
\* not logged is covered.
LEMMA VisitedSound ==
  ASSUME TypeOK, NEW k \in Keys, NEW p \in Requests, Reading(p, k), KeyInv(k)
  PROVE  LET v == Visited(k, pendingAge[k], rows[p][k])
         IN v \in KeyState /\ v.usageInitialized /\ Sound(k, v, LostAfter(k, v))
<1> DEFINE s == keyStates[k]
           row == rows[p][k]
           v == Visited(k, pendingAge[k], row)
<1>1. /\ s \in KeyState /\ row \in Row
      /\ s.usageObserved \in Nat /\ row.total \in Nat /\ total[k] \in Nat
  BY KeyTypes DEF KeyState, Row
<1>2. /\ v \in KeyState
      /\ v.usageInitialized
      /\ \A c \in Cycles :
           /\ v.observedPeriod[c] =
                IF row.period[c] > s.observedPeriod[c]
                  THEN row.period[c] ELSE s.observedPeriod[c]
           /\ v.observed[c] =
                IF \/ row.period[c] > s.observedPeriod[c]
                   \/ /\ row.period[c] = s.observedPeriod[c]
                      /\ row.used[c] > s.observed[c]
                  THEN row.used[c] ELSE s.observed[c]
  BY <1>1, VisitedFacts
<1>3. /\ v.usageObserved =
           IF row.total > s.usageObserved THEN row.total ELSE s.usageObserved
      /\ Balanced(k, v, LostAfter(k, v))
  BY <1>2, VisitedBalance DEF Balanced
<1>4. v.usageObserved <= total[k]
  BY <1>1, <1>3 DEF KeyInv, Sound, RowsCover
<1> HIDE DEF v
<1>5. StateCovers(k, v)
  <2> SUFFICES ASSUME NEW c \in Cycles
               PROVE  Covers(k, c, v.usageObserved, v.observedPeriod[c], v.observed[c])
    BY DEF StateCovers
  <2>1. /\ Covers(k, c, s.usageObserved, s.observedPeriod[c], s.observed[c])
        /\ Covers(k, c, row.total, row.period[c], row.used[c])
        /\ row.period[c] > s.observedPeriod[c] => row.total >= s.usageObserved
        /\ s.observedPeriod[c] > row.period[c] => s.usageObserved >= row.total
    BY DEF KeyInv, Sound, StateCovers, RowsCover, StateInOrder, InOrder
  <2>2. /\ s.observedPeriod[c] \in Nat /\ s.observed[c] \in Nat
        /\ row.period[c] \in Nat /\ row.used[c] \in Nat
        /\ used[k][c] \in Nat /\ period[c] \in Nat
    BY <1>1, KeyTypes DEF KeyState, Row
  <2>3. QED
    BY <1>1, <1>2, <1>3, <2>1, <2>2 DEF Covers
<1>6. StateInOrder(k, v)
  <2> SUFFICES ASSUME NEW q \in Requests, Reading(q, k), NEW c \in Cycles
               PROVE  LET other == rows[q][k]
                      IN /\ v.observedPeriod[c] > other.period[c] =>
                              v.usageObserved >= other.total
                         /\ other.period[c] > v.observedPeriod[c] =>
                              other.total >= v.usageObserved
    BY DEF StateInOrder, InOrder
  <2> DEFINE other == rows[q][k]
  <2>1. /\ s.observedPeriod[c] > other.period[c] => s.usageObserved >= other.total
        /\ other.period[c] > s.observedPeriod[c] => other.total >= s.usageObserved
        /\ row.period[c] > other.period[c] => row.total >= other.total
        /\ other.period[c] > row.period[c] => other.total >= row.total
    BY DEF KeyInv, Sound, StateInOrder, RowsInOrder, InOrder
  <2>2. /\ s.observedPeriod[c] \in Nat /\ row.period[c] \in Nat
        /\ other.period[c] \in Nat /\ other.total \in Nat
    BY <1>1, KeyTypes DEF KeyState, Row
  <2>3. QED
    BY <1>1, <1>2, <1>3, <2>1, <2>2
<1>7. QED
  BY <1>2, <1>3, <1>4, <1>5, <1>6 DEF Sound, v

-----------------------------------------------------------------------------
(* The calls that no log accounts for yet. *)

\* A new call takes one more slot of its key, and none of another.
LEMMA CallAdded ==
  ASSUME TypeOK, NEW p \in Requests, NEW h \in Keys,
         Len(attempts[p]) < MaxAttempts,
         attempts' = [attempts EXCEPT ![p] = Append(attempts[p], h)]
  PROVE  /\ Cardinality(Outstanding(h)') = Cardinality(Outstanding(h)) + 1
         /\ \A k \in Keys \ {h} : Outstanding(k)' = Outstanding(k)
<1> DEFINE n == Len(attempts[p]) + 1
<1>1. /\ attempts[p] \in Seq(Keys)
      /\ n \in 1..MaxAttempts
      /\ DOMAIN attempts = Requests
  BY LimitsAssumption DEF TypeOK
<1>2. /\ Len(attempts'[p]) = n
      /\ attempts'[p][n] = h
      /\ \A i \in 1..Len(attempts[p]) : attempts'[p][i] = attempts[p][i]
      /\ \A q \in Requests \ {p} : attempts'[q] = attempts[q]
  BY <1>1
<1>3. \A s \in Slots : s[1] \in Requests /\ s[2] \in 1..MaxAttempts
  BY DEF Slots
<1>4. \A s \in Slots, k \in Keys :
        IsCallOn(s, k)' <=> IsCallOn(s, k) \/ (s = <<p, n>> /\ k = h)
  <2> SUFFICES ASSUME NEW s \in Slots, NEW k \in Keys
               PROVE  IsCallOn(s, k)' <=> IsCallOn(s, k) \/ (s = <<p, n>> /\ k = h)
    OBVIOUS
  <2>0. /\ s[1] \in Requests /\ s[2] \in 1..MaxAttempts
        /\ s = <<s[1], s[2]>>
    BY DEF Slots
  <2>1. CASE s[1] # p
    BY <1>2, <2>0, <2>1 DEF IsCallOn
  <2>2. CASE s[1] = p /\ s[2] = n
    <3>1. ~IsCallOn(s, k)
      BY <1>1, <2>2 DEF IsCallOn
    <3>2. s = <<p, n>>
      BY <2>0, <2>2
    <3>3. IsCallOn(s, k)' <=> k = h
      BY <1>1, <1>2, <2>2 DEF IsCallOn
    <3>4. QED
      BY <3>1, <3>2, <3>3
  <2>3. CASE s[1] = p /\ s[2] # n
    <3>1. s # <<p, n>>
      BY <2>3
    <3>2. IsCallOn(s, k)' <=> IsCallOn(s, k)
      <4>1. Len(attempts[p]) \in Nat /\ s[2] \in Nat /\ s[2] >= 1
        BY <1>1, <2>0
      <4>2. s[2] <= n <=> s[2] <= Len(attempts[p])
        BY <2>3, <4>1
      <4>3. s[2] <= Len(attempts[p]) => attempts'[p][s[2]] = attempts[p][s[2]]
        BY <1>2, <4>1
      <4>4. QED
        BY <1>2, <2>3, <4>2, <4>3 DEF IsCallOn
    <3>3. QED
      BY <3>1, <3>2
  <2>4. QED
    BY <2>1, <2>2, <2>3
<1>5. <<p, n>> \in Slots /\ ~IsCallOn(<<p, n>>, h)
  BY <1>1 DEF Slots, IsCallOn
<1> HIDE DEF n
<1>6. Slots' = Slots
  BY DEF Slots
<1>7. /\ <<p, n>> \notin Outstanding(h)
      /\ Outstanding(h)' = Outstanding(h) \cup {<<p, n>>}
  BY <1>4, <1>5, <1>6 DEF Outstanding
<1>8. \A k \in Keys \ {h} : Outstanding(k)' = Outstanding(k)
  BY <1>4, <1>6 DEF Outstanding
<1>9. QED
  BY <1>7, <1>8, SlotsFinite, FS_AddElement

\* When the log of a request is over, its calls are no longer outstanding.
LEMMA CallsRemoved ==
  ASSUME TypeOK, NEW p \in Requests, NEW k \in Keys,
         attempts' = [attempts EXCEPT ![p] = <<>>]
  PROVE  /\ Outstanding(k)' = Outstanding(k) \ CallsOf(p, k)
         /\ Cardinality(Outstanding(k)')
              = Cardinality(Outstanding(k)) - Cardinality(CallsOf(p, k))
         /\ Cardinality(CallsOf(p, k)) \in Nat
         /\ \A q \in Requests : CallsOf(q, k)' # {} => q # p /\ CallsOf(q, k) # {}
<1>1. \A s \in Slots : IsCallOn(s, k)' <=> IsCallOn(s, k) /\ s[1] # p
  <2> SUFFICES ASSUME NEW s \in Slots
               PROVE  IsCallOn(s, k)' <=> IsCallOn(s, k) /\ s[1] # p
    OBVIOUS
  <2>1. s[1] \in Requests /\ s[2] \in Nat /\ s[2] >= 1
    BY LimitsAssumption DEF Slots
  <2>2. CASE s[1] = p
    BY <2>1, <2>2 DEF IsCallOn, TypeOK
  <2>3. CASE s[1] # p
    BY <2>1, <2>3 DEF IsCallOn, TypeOK
  <2>4. QED
    BY <2>2, <2>3
<1>2. Slots' = Slots
  BY DEF Slots
<1>3. Outstanding(k)' = Outstanding(k) \ CallsOf(p, k)
  BY <1>1, <1>2 DEF Outstanding, CallsOf
<1>4. Outstanding(k) \cap CallsOf(p, k) = CallsOf(p, k)
  BY DEF CallsOf
<1>5. Cardinality(Outstanding(k)')
        = Cardinality(Outstanding(k)) - Cardinality(CallsOf(p, k))
  BY <1>3, <1>4, SlotsFinite, FS_Difference
<1>6. \A q \in Requests : CallsOf(q, k)' # {} => q # p /\ CallsOf(q, k) # {}
  BY <1>3 DEF CallsOf
<1>7. QED
  BY <1>3, <1>5, <1>6, SlotsFinite

-----------------------------------------------------------------------------
(* Steps that leave the database as it is. *)

RowsShrink(k) ==
  \A q \in Requests : Reading(q, k)' => Reading(q, k) /\ rows'[q][k] = rows[q][k]

\* A step that leaves key k in the state s, but for as many new reservations as
\* there are new calls, keeps what is known of the key.
LEMMA SoundKept ==
  ASSUME TypeOK, TypeOK', NEW k \in Keys, KeyInv(k),
         NEW s \in KeyState, Sound(k, s, lost'[k]),
         NEW added \in Nat,
         keyStates'[k].usageInitialized = s.usageInitialized,
         keyStates'[k].usageObserved = s.usageObserved,
         keyStates'[k].observedPeriod = s.observedPeriod,
         keyStates'[k].observed = s.observed,
         keyStates'[k].pendingReservations = s.pendingReservations + added,
         Cardinality(Outstanding(k)') = Cardinality(Outstanding(k)) + added,
         s.usageInitialized \/ added = 0,
         UNCHANGED <<total, used, period>>,
         RowsShrink(k)
  PROVE  /\ \A c \in Cycles : used'[k][c] <= total'[k]
         /\ Sound(k, keyStates[k], lost[k])'
         /\ RowsCover(k)'
         /\ RowsInOrder(k)'
<1>1. /\ s.usageObserved \in Nat /\ s.pendingReservations \in Nat
      /\ total[k] \in Nat /\ lost'[k] \in Nat
      /\ Cardinality(Outstanding(k)) \in Nat
  BY KeyTypes DEF KeyState, TypeOK
<1>2. Balanced(k, keyStates[k], lost[k])'
  <2>1. CASE s.usageInitialized
    BY <1>1, <2>1 DEF Sound, Balanced
  <2>2. CASE ~s.usageInitialized
    BY <1>1, <2>2 DEF Sound, Balanced, RowsShrink
  <2>3. QED
    BY <2>1, <2>2
<1>3. StateCovers(k, keyStates[k])'
  BY DEF Sound, StateCovers, Covers
<1>4. StateInOrder(k, keyStates[k])'
  BY DEF Sound, StateInOrder, InOrder, RowsShrink
<1>5. RowsCover(k)'
  BY DEF KeyInv, RowsCover, RowsShrink, Covers
<1>6. RowsInOrder(k)'
  BY DEF KeyInv, RowsInOrder, RowsShrink, InOrder
<1>7. keyStates'[k].usageObserved <= total'[k]
  BY DEF Sound
<1>8. \A c \in Cycles : used'[k][c] <= total'[k]
  BY DEF KeyInv
<1>9. QED
  BY <1>2, <1>3, <1>4, <1>5, <1>6, <1>7, <1>8 DEF Sound

\* What the age of the reservations says of a key survives a step that touches
\* neither the age nor the calls.
LEMMA AgedKept ==
  ASSUME NEW k \in Keys, Aged(k), RowsShrink(k),
         pendingAge'[k] = pendingAge[k],
         present'[k] = present[k],
         Outstanding(k)' = Outstanding(k),
         total'[k] = total[k]
  PROVE  Aged(k)'
<1>1. \A q : CallsOf(q, k)' = CallsOf(q, k)
  BY DEF CallsOf
<1>2. QED
  BY <1>1 DEF Aged, RowsShrink

\* A step that changes nothing that is known of the keys.
LEMMA Unaffected ==
  ASSUME QuotaInv, TypeInv',
         \A k \in Keys :
           /\ keyStates'[k].usageInitialized = keyStates[k].usageInitialized
           /\ keyStates'[k].usageObserved = keyStates[k].usageObserved
           /\ keyStates'[k].pendingReservations = keyStates[k].pendingReservations
           /\ keyStates'[k].observedPeriod = keyStates[k].observedPeriod
           /\ keyStates'[k].observed = keyStates[k].observed,
         \A k \in Keys : RowsShrink(k),
         UNCHANGED <<pendingAge, present, total, used, period, attempts, lost>>
  PROVE  QuotaInv'
<1>1. TypeOK /\ TypeOK'
  BY DEF QuotaInv, TypeInv
<1>2. \A k : Outstanding(k)' = Outstanding(k)
  BY DEF Outstanding, Slots, IsCallOn
<1>3. ASSUME NEW k \in Keys PROVE KeyInv(k)'
  <2>1. KeyInv(k) /\ RowsShrink(k)
    BY DEF QuotaInv
  <2>2. /\ keyStates[k] \in KeyState
        /\ keyStates[k].pendingReservations \in Nat
        /\ Cardinality(Outstanding(k)) \in Nat
    BY <1>1, KeyTypes DEF KeyState
  <2> DEFINE s == keyStates[k]
  <2>3. /\ s \in KeyState
        /\ Sound(k, s, lost'[k])
        /\ keyStates'[k].pendingReservations = s.pendingReservations + 0
        /\ Cardinality(Outstanding(k)') = Cardinality(Outstanding(k)) + 0
    BY <1>2, <2>1, <2>2 DEF KeyInv
  <2>4. /\ \A c \in Cycles : used'[k][c] <= total'[k]
        /\ Sound(k, keyStates[k], lost[k])'
        /\ RowsCover(k)'
        /\ RowsInOrder(k)'
    BY <1>1, <2>1, <2>3, SoundKept
  <2>5. Aged(k)'
    BY <1>2, <2>1, AgedKept DEF KeyInv
  <2>6. QED
    BY <2>4, <2>5 DEF KeyInv
<1>4. QuotaHeld'
  BY <1>2 DEF QuotaInv, QuotaHeld
<1>5. QED
  BY <1>3, <1>4 DEF QuotaInv

-----------------------------------------------------------------------------
(* The locked part of Acquire. *)

\* Whether Acquire looked at a key or not, the state it leaves it in is sound.
LEMMA VisitedStatesSound ==
  ASSUME QuotaInv, NEW p \in Requests, NEW looked \in SUBSET DOMAIN rows[p],
         NEW k \in Keys
  PROVE  LET v == VisitedStates(p, looked)[k]
         IN /\ v \in KeyState
            /\ Sound(k, v, LostAfter(k, v))
            /\ v.pendingReservations = 0 => Outstanding(k) = {}
            /\ k \in looked => v.usageInitialized
<1> DEFINE v == VisitedStates(p, looked)[k]
<1>1. TypeOK /\ KeyInv(k)
  BY DEF QuotaInv, TypeInv
<1>2. /\ v \in KeyState
      /\ Sound(k, v, LostAfter(k, v))
      /\ k \in looked => v.usageInitialized
  <2>1. CASE k \in looked
    <3>1. v = Visited(k, pendingAge[k], rows[p][k])
      BY <2>1 DEF VisitedStates
    <3>2. Reading(p, k)
      BY <2>1 DEF Reading
    <3>3. QED
      BY <1>1, <3>1, <3>2, VisitedSound
  <2>2. CASE k \notin looked
    <3>1. v = keyStates[k]
      BY <2>2 DEF VisitedStates
    <3>2. /\ v \in KeyState
          /\ Sound(k, v, lost[k])
          /\ v.usageObserved \in Nat
      BY <1>1, <3>1, KeyTypes DEF KeyInv, KeyState
    <3>3. v.pendingReservations = 0 => lost[k] = 0
      BY <1>1, <3>2, KeyTypes DEF Sound, Balanced
    <3>4. LostAfter(k, v) = lost[k]
      BY <3>3 DEF LostAfter
    <3>5. QED
      BY <2>2, <3>2, <3>4
  <2>3. QED
    BY <2>1, <2>2
<1>3. v.pendingReservations = 0 => Outstanding(k) = {}
  <2> HIDE DEF v
  <2>1. /\ v.usageObserved \in Nat
        /\ total[k] \in Nat /\ Cardinality(Outstanding(k)) \in Nat
        /\ LostAfter(k, v) \in Nat
    BY <1>1, <1>2, KeyTypes DEF KeyState, LostAfter
  <2>2. v.pendingReservations = 0 => Cardinality(Outstanding(k)) = 0
    BY <1>2, <2>1 DEF Sound, Balanced
  <2>3. QED
    BY <2>2, SlotsFinite, FS_EmptySet
<1>4. QED
  BY <1>2, <1>3

\* What Acquire knows when canUse has found room for key k: one more request
\* fits into every quota of the key.
LEMMA RoomForOne ==
  ASSUME TypeOK, NEW k \in Keys, NEW v \in KeyState, NEW n \in Nat,
         Sound(k, v, n), v.usageInitialized, CanUse(k, v),
         NEW c \in Cycles, Quota[k][c] > 0
  PROVE  used[k][c] + Cardinality(Outstanding(k)) + 1 <= Quota[k][c]
<1>1. /\ v.usageObserved \in Nat /\ v.pendingReservations \in Nat
      /\ v.observed[c] \in Nat /\ v.observedPeriod[c] \in Nat
      /\ Quota[k][c] \in Nat
      /\ total[k] \in Nat /\ used[k][c] \in Nat /\ Cardinality(Outstanding(k)) \in Nat
  BY KeyTypes, LimitsAssumption DEF KeyState
<1>2. v.observed[c] + v.pendingReservations < Quota[k][c]
  BY DEF CanUse
<1>3. /\ v.usageObserved + v.pendingReservations
           = total[k] + Cardinality(Outstanding(k)) + n
      /\ used[k][c] <= total[k] - v.usageObserved + v.observed[c]
  BY <1>1 DEF Sound, Balanced, StateCovers, Covers
<1>4. QED
  BY <1>1, <1>2, <1>3

\* The age of the reservations after the locked part of Acquire.
LEMMA AgedAfterAcquire ==
  ASSUME QuotaInv, NEW p \in Requests, pc[p] = "listed",
         NEW visited, NEW taken \in SUBSET Keys, ReservationsAged(visited, taken),
         NEW k \in Keys,
         visited[k].pendingReservations = 0 => Outstanding(k) = {},
         \A q \in Requests \ {p} : attempts'[q] = attempts[q],
         k \notin taken => Outstanding(k)' = Outstanding(k),
         UNCHANGED total,
         RowsShrink(k)
  PROVE  Aged(k)'
<1>1. Aged(k) /\ Phases
  BY DEF QuotaInv, KeyInv, TypeInv
<1>2. CASE k \in taken
  <2>1. pendingAge'[k] = 0 /\ present'[k] = Busy
    BY <1>2 DEF ReservationsAged, AgeAfter, PresentAfter
  <2>2. ASSUME NEW q \in Requests, CallsOf(q, k)' # {} PROVE q \in Busy
    <3>1. CASE q = p
      BY <3>1 DEF Busy
    <3>2. CASE q # p
      <4>1. attempts'[q] = attempts[q] /\ attempts'[q] # <<>>
        BY <2>2, <3>2 DEF CallsOf, Outstanding, IsCallOn, Slots
      <4>2. QED
        BY <1>1, <4>1 DEF Phases, Busy
    <3>3. QED
      BY <3>1, <3>2
  <2>3. QED
    BY <2>1, <2>2 DEF Aged
<1>3. CASE k \notin taken /\ visited[k].pendingReservations = 0
  <2>1. pendingAge'[k] = 0
    BY <1>3 DEF ReservationsAged, AgeAfter
  <2>2. \A q : CallsOf(q, k)' = {}
    BY <1>3 DEF CallsOf
  <2>3. QED
    BY <2>1, <2>2 DEF Aged
<1>4. CASE k \notin taken /\ visited[k].pendingReservations # 0
  <2>1. pendingAge'[k] = pendingAge[k] /\ present'[k] = present[k]
    BY <1>4 DEF ReservationsAged, AgeAfter, PresentAfter
  <2>2. QED
    BY <1>1, <1>4, <2>1, AgedKept
<1>5. QED
  BY <1>2, <1>3, <1>4

\* Acquire handing out a key keeps the invariant.
LEMMA ReserveKeeps ==
  ASSUME QuotaInv, TypeInv', NEW p \in Requests, NEW h \in Keys,
         NEW skipped \in SUBSET Keys, Reserve(p, h, skipped)
  PROVE  QuotaInv'
<1> DEFINE looked == skipped \cup {h}
           visited == VisitedStates(p, looked)
<1>1. TypeOK /\ TypeOK' /\ Phases
  BY DEF QuotaInv, TypeInv
<1>2. /\ looked \in SUBSET DOMAIN rows[p]
      /\ pc[p] = "listed"
      /\ CanUse(h, visited[h])
      /\ keyStates' = [visited EXCEPT ![h] = Taken(h, visited[h])]
      /\ ReservationsAged(visited, {h})
      /\ attempts' = [attempts EXCEPT ![p] = Append(attempts[p], h)]
      /\ UNCHANGED <<total, used, period>>
  BY DEF Reserve, database
<1>3. \A k \in Keys : RowsShrink(k)
  BY <1>1 DEF Reserve, RowsShrink, Reading, TypeOK, NoRows
<1>4. \A k \in Keys : /\ visited[k] \in KeyState
                      /\ Sound(k, visited[k], LostAfter(k, visited[k]))
                      /\ visited[k].pendingReservations = 0 => Outstanding(k) = {}
  BY <1>2, VisitedStatesSound
<1>5. visited[h].usageInitialized
  BY <1>2, VisitedStatesSound
<1>6. visited \in [Keys -> KeyState]
  BY <1>1, <1>2, VisitedStatesType
<1> HIDE DEF visited, looked
<1>7. /\ keyStates'[h] = Taken(h, visited[h])
      /\ \A k \in Keys \ {h} : keyStates'[k] = visited[k]
      /\ \A k \in Keys : lost'[k] = LostAfter(k, visited[k])
  BY <1>2, <1>6 DEF ReservationsAged
<1>8. /\ Cardinality(Outstanding(h)') = Cardinality(Outstanding(h)) + 1
      /\ \A k \in Keys \ {h} : Outstanding(k)' = Outstanding(k)
      /\ \A q \in Requests \ {p} : attempts'[q] = attempts[q]
  <2>1. Len(attempts[p]) < MaxAttempts
    BY <1>1, <1>2 DEF Phases
  <2>2. QED
    BY <1>1, <1>2, <2>1, CallAdded DEF TypeOK
<1>9. ASSUME NEW k \in Keys PROVE KeyInv(k)'
  <2>1. KeyInv(k)
    BY DEF QuotaInv
  <2>2. Aged(k)'
    BY <1>2, <1>3, <1>4, <1>8, AgedAfterAcquire
  <2>3. Sound(k, visited[k], lost'[k]) /\ visited[k] \in KeyState
    BY <1>4, <1>7
  <2>4. /\ \A c \in Cycles : used'[k][c] <= total'[k]
        /\ Sound(k, keyStates[k], lost[k])'
        /\ RowsCover(k)'
        /\ RowsInOrder(k)'
    <3>1. CASE k = h
      BY <1>1, <1>2, <1>3, <1>5, <1>7, <1>8, <2>1, <2>3, <3>1, SoundKept, TakenFacts
    <3>2. CASE k # h
      <4>1. /\ keyStates'[k] = visited[k]
            /\ visited[k].pendingReservations = visited[k].pendingReservations + 0
            /\ Cardinality(Outstanding(k)') = Cardinality(Outstanding(k)) + 0
        BY <1>1, <1>7, <1>8, <2>3, <3>2, KeyTypes DEF KeyState
      <4>2. QED
        BY <1>1, <1>2, <1>3, <2>1, <2>3, <4>1, SoundKept
    <3>3. QED
      BY <3>1, <3>2
  <2>5. QED
    BY <2>2, <2>4 DEF KeyInv
<1>10. QuotaHeld'
  <2>1. ASSUME NEW c \in Cycles, Quota[h][c] > 0
        PROVE  used[h][c] + Cardinality(Outstanding(h)) + 1 <= Quota[h][c]
    <3>1. LostAfter(h, visited[h]) \in Nat
      BY <1>1, KeyTypes DEF LostAfter
    <3>2. QED
      BY <1>1, <1>2, <1>4, <1>5, <2>1, <3>1, RoomForOne
  <2>2. ASSUME NEW k \in Keys, NEW c \in Cycles, Quota[k][c] > 0
        PROVE  used'[k][c] + Cardinality(Outstanding(k)') <= Quota[k][c]
    <3>1. CASE k = h
      <4>1. /\ used[h][c] \in Nat /\ Quota[h][c] \in Nat
            /\ Cardinality(Outstanding(h)) \in Nat
        BY <1>1, KeyTypes, LimitsAssumption
      <4>2. used[h][c] + Cardinality(Outstanding(h)) + 1 <= Quota[h][c]
        BY <2>1, <2>2, <3>1
      <4>3. used'[h][c] = used[h][c]
        BY <1>2
      <4>4. used'[h][c] + Cardinality(Outstanding(h)') <= Quota[h][c]
        BY <1>8, <4>1, <4>2, <4>3
      <4>5. QED
        BY <3>1, <4>4
    <3>2. CASE k # h
      BY <1>2, <1>8, <2>2, <3>2 DEF QuotaInv, QuotaHeld
    <3>3. QED
      BY <3>1, <3>2
  <2>3. QED
    BY <2>2 DEF QuotaHeld
<1>11. QED
  BY <1>9, <1>10 DEF QuotaInv

\* Acquire refusing keeps the invariant.
LEMMA RefuseKeeps ==
  ASSUME QuotaInv, TypeInv', NEW p \in Requests, Refuse(p)
  PROVE  QuotaInv'
<1> DEFINE looked == IF ProviderBusy THEN {} ELSE DOMAIN rows[p]
           visited == VisitedStates(p, looked)
<1>1. TypeOK /\ TypeOK'
  BY DEF QuotaInv, TypeInv
<1>2. /\ looked \in SUBSET DOMAIN rows[p]
      /\ pc[p] = "listed"
      /\ keyStates' = visited
      /\ ReservationsAged(visited, {})
      /\ UNCHANGED <<total, used, period, attempts>>
  BY DEF Refuse, database
<1>3. \A k \in Keys : RowsShrink(k)
  BY <1>1 DEF Refuse, RowsShrink, Reading, TypeOK, NoRows
<1>4. \A k \in Keys : /\ visited[k] \in KeyState
                      /\ Sound(k, visited[k], LostAfter(k, visited[k]))
                      /\ visited[k].pendingReservations = 0 => Outstanding(k) = {}
  BY <1>2, VisitedStatesSound
<1> HIDE DEF visited, looked
<1>5. \A k : Outstanding(k)' = Outstanding(k)
  BY <1>2 DEF Outstanding, Slots, IsCallOn
<1>6. ASSUME NEW k \in Keys PROVE KeyInv(k)'
  <2>1. KeyInv(k)
    BY DEF QuotaInv
  <2>2. Aged(k)'
    BY <1>2, <1>3, <1>4, <1>5, AgedAfterAcquire
  <2>3. /\ Sound(k, visited[k], lost'[k])
        /\ visited[k] \in KeyState
        /\ keyStates'[k] = visited[k]
        /\ visited[k].pendingReservations = visited[k].pendingReservations + 0
        /\ Cardinality(Outstanding(k)') = Cardinality(Outstanding(k)) + 0
    BY <1>1, <1>2, <1>4, <1>5, KeyTypes DEF KeyState, ReservationsAged
  <2>4. /\ \A c \in Cycles : used'[k][c] <= total'[k]
        /\ Sound(k, keyStates[k], lost[k])'
        /\ RowsCover(k)'
        /\ RowsInOrder(k)'
    BY <1>1, <1>2, <1>3, <2>1, <2>3, SoundKept
  <2>5. QED
    BY <2>2, <2>4 DEF KeyInv
<1>7. QuotaHeld'
  BY <1>2, <1>5 DEF QuotaInv, QuotaHeld
<1>8. QED
  BY <1>6, <1>7 DEF QuotaInv

-----------------------------------------------------------------------------
(* The other steps. *)

\* A new reading of the database has seen all there is.
LEMMA ListKeysKeeps ==
  ASSUME QuotaInv, TypeInv', NEW p \in Requests, NEW admitted \in SUBSET Keys,
         ListKeys(p, admitted)
  PROVE  QuotaInv'
<1>1. TypeOK /\ TypeOK' /\ Phases
  BY DEF QuotaInv, TypeInv
<1>2. UNCHANGED <<keyStates, pendingAge, present, total, used, period, attempts, lost>>
  BY DEF ListKeys, memory, database
<1>3. \A k : Outstanding(k)' = Outstanding(k) /\ \A q : CallsOf(q, k)' = CallsOf(q, k)
  BY <1>2 DEF CallsOf, Outstanding, Slots, IsCallOn
<1>4. CASE Available(admitted) = {}
  <2>1. \A k \in Keys : RowsShrink(k)
    BY <1>4 DEF ListKeys, RowsShrink, Reading
  <2>2. QED
    BY <1>2, <2>1, Unaffected
<1>5. CASE Available(admitted) # {}
  <2>1. /\ pc[p] \in {"idle", "between"}
        /\ rows[p] = NoRows
        /\ \A q \in Requests \ {p} : rows'[q] = rows[q]
        /\ rows'[p] = ReadRows(admitted)
        /\ pc'[p] = "listed"
        /\ \A q \in Requests \ {p} : pc'[q] = pc[q]
    BY <1>1, <1>5 DEF ListKeys, TypeOK, Phases
  <2>2. ASSUME NEW k \in Keys, Reading(p, k)'
        PROVE  /\ rows'[p][k].total = total[k]
               /\ rows'[p][k].period = period
               /\ rows'[p][k].used = used[k]
    BY <2>1, <2>2 DEF Reading, ReadRows
  <2>3. ASSUME NEW k \in Keys, NEW q \in Requests, q # p, Reading(q, k)'
        PROVE  Reading(q, k) /\ rows'[q][k] = rows[q][k]
    BY <2>1, <2>3 DEF Reading
  <2>4. ASSUME NEW k \in Keys PROVE KeyInv(k)'
    <3>1. KeyInv(k)
      BY DEF QuotaInv
    <3> DEFINE s == keyStates[k]
    <3>2. /\ s \in KeyState /\ s.usageObserved \in Nat /\ total[k] \in Nat
          /\ \A c \in Cycles : /\ s.observedPeriod[c] \in Nat
                               /\ period[c] \in Nat /\ used[k][c] \in Nat
      BY <1>1, KeyTypes DEF KeyState
    <3>3. RowsCover(k)'
      <4> SUFFICES ASSUME NEW q \in Requests, Reading(q, k)'
                   PROVE  /\ rows'[q][k].total <= total[k]
                          /\ \A c \in Cycles :
                               Covers(k, c, rows[q][k].total, rows[q][k].period[c],
                                      rows[q][k].used[c])'
        BY <1>2 DEF RowsCover
      <4>1. CASE q = p
        BY <1>2, <2>2, <3>2, <4>1 DEF Covers
      <4>2. CASE q # p
        BY <1>2, <2>3, <3>1, <4>2 DEF KeyInv, RowsCover, Covers
      <4>3. QED
        BY <4>1, <4>2
    <3>4. StateInOrder(k, keyStates[k])'
      <4> SUFFICES ASSUME NEW q \in Requests, Reading(q, k)'
                   PROVE  InOrder(s.usageObserved, s.observedPeriod,
                                  rows'[q][k].total, rows'[q][k].period)
        BY <1>2 DEF StateInOrder, InOrder
      <4>1. CASE q = p
        <5>1. /\ s.usageObserved <= total[k]
              /\ \A c \in Cycles : s.observedPeriod[c] <= period[c]
          BY <3>1 DEF KeyInv, Sound, StateCovers, Covers
        <5>2. QED
          BY <2>2, <3>2, <4>1, <5>1 DEF InOrder
      <4>2. CASE q # p
        BY <2>3, <3>1, <4>2 DEF KeyInv, Sound, StateInOrder
      <4>3. QED
        BY <4>1, <4>2
    <3>5. RowsInOrder(k)'
      <4>1. ASSUME NEW q \in Requests, Reading(q, k)'
            PROVE  /\ InOrder(rows'[q][k].total, rows'[q][k].period, total[k], period)
                   /\ InOrder(total[k], period, rows'[q][k].total, rows'[q][k].period)
        <5>1. CASE q = p
          BY <2>2, <3>2, <4>1, <5>1 DEF InOrder
        <5>2. CASE q # p
          <6>1. /\ rows[q][k].total <= total[k]
                /\ \A c \in Cycles : rows[q][k].period[c] <= period[c]
            BY <2>3, <3>1, <4>1, <5>2 DEF KeyInv, RowsCover, Covers
          <6>2. /\ rows[q][k].total \in Nat
                /\ \A c \in Cycles : rows[q][k].period[c] \in Nat
            BY <1>1, <2>3, <4>1, <5>2, KeyTypes DEF Row
          <6>3. QED
            BY <2>3, <3>2, <4>1, <5>2, <6>1, <6>2 DEF InOrder
        <5>3. QED
          BY <5>1, <5>2
      <4>2. ASSUME NEW q \in Requests, NEW r \in Requests, Reading(q, k)', Reading(r, k)'
            PROVE  InOrder(rows'[q][k].total, rows'[q][k].period,
                           rows'[r][k].total, rows'[r][k].period)
        <5>1. CASE q = p
          BY <2>2, <4>1, <4>2, <5>1
        <5>2. CASE r = p
          BY <2>2, <4>1, <4>2, <5>2
        <5>3. CASE q # p /\ r # p
          BY <2>3, <3>1, <4>2, <5>3 DEF KeyInv, RowsInOrder
        <5>4. QED
          BY <5>1, <5>2, <5>3
      <4>3. QED
        BY <4>2 DEF RowsInOrder, InOrder
    <3>6. Balanced(k, keyStates[k], lost[k])'
      <4>1. CASE s.usageInitialized
        BY <1>2, <1>3, <3>1, <4>1 DEF KeyInv, Sound, Balanced
      <4>2. CASE ~s.usageInitialized
        <5>1. \A q \in Requests : Reading(q, k)' => rows'[q][k].total = total[k]
          BY <2>2, <2>3, <3>1, <4>2 DEF KeyInv, Sound, Balanced
        <5>2. QED
          BY <1>2, <1>3, <3>1, <4>2, <5>1 DEF KeyInv, Sound, Balanced
      <4>3. QED
        BY <4>1, <4>2
    <3>7. StateCovers(k, keyStates[k])'
      BY <1>2, <3>1 DEF KeyInv, Sound, StateCovers, Covers
    <3>8. Aged(k)'
      BY <1>2, <1>3, <2>2, <2>3, <3>1 DEF KeyInv, Aged
    <3>9. QED
      BY <1>2, <3>1, <3>3, <3>4, <3>5, <3>6, <3>7, <3>8 DEF KeyInv, Sound
  <2>5. QuotaHeld'
    BY <1>2, <1>3 DEF QuotaInv, QuotaHeld
  <2>6. QED
    BY <2>4, <2>5 DEF QuotaInv
<1>6. QED
  BY <1>4, <1>5

\* A log that is written makes of its calls recorded usage.
LEMMA CommitLogKeeps ==
  ASSUME QuotaInv, TypeInv', NEW p \in Requests, CommitLog(p)
  PROVE  QuotaInv'
<1>1. TypeOK /\ TypeOK' /\ Phases
  BY DEF QuotaInv, TypeInv
<1>2. /\ attempts' = [attempts EXCEPT ![p] = <<>>]
      /\ UNCHANGED <<keyStates, pendingAge, period, rows, lost>>
      /\ \A k \in Keys : present'[k] = present[k] \ {p}
      /\ rows[p] = NoRows
  BY <1>1 DEF CommitLog, Finished, Phases
<1>3. ASSUME NEW k \in Keys
      PROVE  LET n == Cardinality(CallsOf(p, k))
             IN /\ n \in Nat
                /\ Cardinality(Outstanding(k)') = Cardinality(Outstanding(k)) - n
                /\ total'[k] = total[k] + n
                /\ \A c \in Cycles : \/ used'[k][c] = used[k][c]
                                     \/ used'[k][c] = used[k][c] + n
                /\ \A q \in Requests :
                     CallsOf(q, k)' # {} => q # p /\ CallsOf(q, k) # {}
                /\ Outstanding(k) = {} => n = 0 /\ Outstanding(k)' = {}
  <2>1. /\ Cardinality(CallsOf(p, k)) \in Nat
        /\ Outstanding(k)' = Outstanding(k) \ CallsOf(p, k)
        /\ Cardinality(Outstanding(k)')
             = Cardinality(Outstanding(k)) - Cardinality(CallsOf(p, k))
        /\ \A q \in Requests : CallsOf(q, k)' # {} => q # p /\ CallsOf(q, k) # {}
    BY <1>1, <1>2, CallsRemoved
  <2>2. Outstanding(k) = {} => CallsOf(p, k) = {} /\ Outstanding(k)' = {}
    BY <2>1 DEF CallsOf
  <2>3. Cardinality({}) = 0
    BY FS_EmptySet
  <2>4. /\ total'[k] = total[k] + Cardinality(CallsOf(p, k))
        /\ \A c \in Cycles : \/ used'[k][c] = used[k][c]
                             \/ used'[k][c] = used[k][c] + Cardinality(CallsOf(p, k))
    BY DEF CommitLog
  <2>5. QED
    BY <2>1, <2>2, <2>3, <2>4
<1>4. ASSUME NEW k \in Keys PROVE KeyInv(k)'
  <2> DEFINE n == Cardinality(CallsOf(p, k))
             s == keyStates[k]
  <2>1. KeyInv(k)
    BY DEF QuotaInv
  <2>2. /\ s \in KeyState /\ s.usageObserved \in Nat /\ s.pendingReservations \in Nat
        /\ total[k] \in Nat /\ lost[k] \in Nat /\ n \in Nat
        /\ Cardinality(Outstanding(k)) \in Nat
        /\ \A c \in Cycles : /\ s.observedPeriod[c] \in Nat /\ s.observed[c] \in Nat
                             /\ period[c] \in Nat /\ used[k][c] \in Nat
        /\ \A q \in Requests : Reading(q, k) =>
             /\ rows[q][k].total \in Nat
             /\ \A c \in Cycles : rows[q][k].period[c] \in Nat /\ rows[q][k].used[c] \in Nat
    BY <1>1, <1>3, KeyTypes DEF KeyState, Row
  <2>3. /\ Cardinality(Outstanding(k)') = Cardinality(Outstanding(k)) - n
        /\ total'[k] = total[k] + n
        /\ \A c \in Cycles : used'[k][c] = used[k][c] \/ used'[k][c] = used[k][c] + n
        /\ Outstanding(k) = {} => n = 0 /\ Outstanding(k)' = {}
    BY <1>3
  <2>4. \A q \in Requests : CallsOf(q, k)' # {} => q # p /\ CallsOf(q, k) # {}
    BY <1>3
  <2> HIDE DEF n
  <2>5. ASSUME NEW c \in Cycles, NEW seen \in Nat, NEW per \in Nat, NEW u \in Nat,
               Covers(k, c, seen, per, u)
        PROVE  /\ per <= period'[c]
               /\ used'[k][c] <= total'[k] - seen + (IF per = period'[c] THEN u ELSE 0)
    <3> DEFINE x == IF per = period[c] THEN u ELSE 0
    <3>1. x \in Nat /\ used[k][c] <= total[k] - seen + x /\ per <= period[c]
      BY <2>5 DEF Covers
    <3>2. /\ used'[k][c] = used[k][c] \/ used'[k][c] = used[k][c] + n
          /\ used[k][c] \in Nat
      BY <2>2, <2>3
    <3> HIDE DEF x
    <3>3. used'[k][c] <= total'[k] - seen + x
      BY <2>2, <2>3, <2>5, <3>1, <3>2
    <3>4. QED
      BY <1>2, <3>1, <3>3 DEF x
  <2>6. \A c \in Cycles : used'[k][c] <= total'[k]
    BY <2>1, <2>2, <2>3 DEF KeyInv
  <2>7. s.usageObserved <= total'[k]
    BY <2>1, <2>2, <2>3 DEF KeyInv, Sound
  <2>8. Balanced(k, keyStates[k], lost[k])'
    <3>1. CASE s.usageInitialized
      BY <1>2, <2>1, <2>2, <2>3, <3>1 DEF KeyInv, Sound, Balanced
    <3>2. CASE ~s.usageInitialized
      <4>1. Outstanding(k) = {}
        BY <2>1, <3>2, SlotsFinite, FS_EmptySet DEF KeyInv, Sound, Balanced
      <4>2. total'[k] = total[k] /\ Cardinality(Outstanding(k)') = 0
        BY <2>2, <2>3, <4>1, FS_EmptySet
      <4>3. QED
        BY <1>2, <2>1, <3>2, <4>2 DEF KeyInv, Sound, Balanced, Reading
    <3>3. QED
      BY <3>1, <3>2
  <2>9. StateCovers(k, keyStates[k])'
    BY <1>2, <2>1, <2>2, <2>5 DEF KeyInv, Sound, StateCovers, Covers
  <2>10. StateInOrder(k, keyStates[k])' /\ RowsInOrder(k)'
    BY <1>2, <2>1 DEF KeyInv, Sound, StateInOrder, RowsInOrder, InOrder, Reading
  <2>11. RowsCover(k)'
    <3> SUFFICES ASSUME NEW q \in Requests, Reading(q, k)
                 PROVE  /\ rows[q][k].total <= total'[k]
                        /\ \A c \in Cycles :
                             Covers(k, c, rows[q][k].total, rows[q][k].period[c],
                                    rows[q][k].used[c])'
      BY <1>2 DEF RowsCover, Reading
    <3>1. rows[q][k].total <= total'[k]
      BY <2>1, <2>2, <2>3 DEF KeyInv, RowsCover
    <3>2. ASSUME NEW c \in Cycles
          PROVE  Covers(k, c, rows[q][k].total, rows[q][k].period[c], rows[q][k].used[c])'
      <4>1. Covers(k, c, rows[q][k].total, rows[q][k].period[c], rows[q][k].used[c])
        BY <2>1 DEF KeyInv, RowsCover
      <4>2. /\ rows[q][k].total \in Nat /\ rows[q][k].period[c] \in Nat
            /\ rows[q][k].used[c] \in Nat
        BY <2>2
      <4>3. QED
        BY <1>2, <2>5, <4>1, <4>2 DEF Covers
    <3>3. QED
      BY <3>1, <3>2
  <2>12. Aged(k)'
    <3>1. pendingAge'[k] = 0 =>
            \A q \in Requests : CallsOf(q, k)' # {} => q \in present'[k]
      BY <1>2, <2>1, <2>4 DEF KeyInv, Aged
    <3>2. pendingAge'[k] > 0 => Outstanding(k)' = {} /\ total'[k] = total[k]
      BY <1>2, <2>1, <2>2, <2>3 DEF KeyInv, Aged
    <3>3. ~Reading(p, k)
      BY <1>2 DEF Reading, NoRows
    <3>4. QED
      BY <1>2, <2>1, <3>1, <3>2, <3>3 DEF KeyInv, Aged, Reading
  <2>13. QED
    BY <1>2, <2>6, <2>7, <2>8, <2>9, <2>10, <2>11, <2>12 DEF KeyInv, Sound
<1>5. QuotaHeld'
  <2> SUFFICES ASSUME NEW k \in Keys, NEW c \in Cycles, Quota[k][c] > 0
               PROVE  used'[k][c] + Cardinality(Outstanding(k)') <= Quota[k][c]
    BY DEF QuotaHeld
  <2> DEFINE n == Cardinality(CallsOf(p, k))
  <2>1. /\ used[k][c] \in Nat /\ Cardinality(Outstanding(k)) \in Nat /\ n \in Nat
        /\ Quota[k][c] \in Nat
    BY <1>1, <1>3, KeyTypes, LimitsAssumption
  <2>2. /\ used'[k][c] = used[k][c] \/ used'[k][c] = used[k][c] + n
        /\ Cardinality(Outstanding(k)') = Cardinality(Outstanding(k)) - n
    BY <1>3
  <2>3. used[k][c] + Cardinality(Outstanding(k)) <= Quota[k][c]
    BY DEF QuotaInv, QuotaHeld
  <2> HIDE DEF n
  <2>4. QED
    BY <2>1, <2>2, <2>3
<1>6. QED
  BY <1>4, <1>5 DEF QuotaInv

\* A log that is lost leaves its reservations behind.
LEMMA LoseLogKeeps ==
  ASSUME QuotaInv, TypeInv', NEW p \in Requests, LoseLog(p)
  PROVE  QuotaInv'
<1>1. TypeOK /\ TypeOK' /\ Phases
  BY DEF QuotaInv, TypeInv
<1>2. /\ attempts' = [attempts EXCEPT ![p] = <<>>]
      /\ UNCHANGED <<keyStates, pendingAge, total, used, period, rows>>
      /\ \A k \in Keys : present'[k] = present[k] \ {p}
      /\ rows[p] = NoRows
  BY <1>1 DEF LoseLog, Finished, Phases, database
<1>3. ASSUME NEW k \in Keys
      PROVE  LET n == Cardinality(CallsOf(p, k))
             IN /\ n \in Nat
                /\ Outstanding(k)' = Outstanding(k) \ CallsOf(p, k)
                /\ Cardinality(Outstanding(k)') = Cardinality(Outstanding(k)) - n
                /\ lost'[k] = lost[k] + n
                /\ \A q \in Requests :
                     CallsOf(q, k)' # {} => q # p /\ CallsOf(q, k) # {}
  BY <1>1, <1>2, CallsRemoved DEF LoseLog
<1>4. ASSUME NEW k \in Keys PROVE KeyInv(k)'
  <2> DEFINE n == Cardinality(CallsOf(p, k))
             s == keyStates[k]
  <2>1. KeyInv(k)
    BY DEF QuotaInv
  <2>2. /\ s \in KeyState /\ s.usageObserved \in Nat /\ s.pendingReservations \in Nat
        /\ total[k] \in Nat /\ lost[k] \in Nat /\ n \in Nat
        /\ Cardinality(Outstanding(k)) \in Nat
    BY <1>1, <1>3, KeyTypes DEF KeyState
  <2>3. /\ Cardinality(Outstanding(k)') = Cardinality(Outstanding(k)) - n
        /\ lost'[k] = lost[k] + n
        /\ Cardinality(Outstanding(k)) = 0 => n = 0
    <3>1. Outstanding(k) = {} => CallsOf(p, k) = {}
      BY DEF CallsOf
    <3>2. QED
      BY <1>3, <3>1, SlotsFinite, FS_EmptySet
  <2> HIDE DEF n
  <2>4. Balanced(k, keyStates[k], lost[k])'
    <3>1. CASE s.usageInitialized
      BY <1>2, <2>1, <2>2, <2>3, <3>1 DEF KeyInv, Sound, Balanced
    <3>2. CASE ~s.usageInitialized
      <4>1. Cardinality(Outstanding(k)) = 0 /\ lost[k] = 0
        BY <2>1, <3>2 DEF KeyInv, Sound, Balanced
      <4>2. Cardinality(Outstanding(k)') = 0 /\ lost'[k] = 0
        <5>1. n = 0
          BY <2>3, <4>1
        <5>2. Cardinality(Outstanding(k)') = 0 - 0 /\ lost'[k] = 0 + 0
          BY <2>3, <4>1, <5>1
        <5>3. QED
          BY <5>2
      <4>3. QED
        BY <1>2, <2>1, <3>2, <4>2 DEF KeyInv, Sound, Balanced, Reading
    <3>3. QED
      BY <3>1, <3>2
  <2>5. /\ StateCovers(k, keyStates[k])' /\ StateInOrder(k, keyStates[k])'
        /\ RowsCover(k)' /\ RowsInOrder(k)'
    BY <1>2, <2>1 DEF KeyInv, Sound, StateCovers, StateInOrder, RowsCover, RowsInOrder,
                      Covers, InOrder, Reading
  <2>6. Aged(k)'
    <3>1. pendingAge'[k] = 0 =>
            \A q \in Requests : CallsOf(q, k)' # {} => q \in present'[k]
      BY <1>2, <1>3, <2>1 DEF KeyInv, Aged
    <3>2. pendingAge'[k] > 0 => Outstanding(k)' = {}
      BY <1>2, <1>3, <2>1 DEF KeyInv, Aged
    <3>3. ~Reading(p, k)
      BY <1>2 DEF Reading, NoRows
    <3>4. QED
      BY <1>2, <2>1, <3>1, <3>2, <3>3 DEF KeyInv, Aged, Reading
  <2>7. QED
    BY <1>2, <2>1, <2>4, <2>5, <2>6 DEF KeyInv, Sound
<1>5. QuotaHeld'
  <2> SUFFICES ASSUME NEW k \in Keys, NEW c \in Cycles, Quota[k][c] > 0
               PROVE  used'[k][c] + Cardinality(Outstanding(k)') <= Quota[k][c]
    BY DEF QuotaHeld
  <2> DEFINE n == Cardinality(CallsOf(p, k))
  <2>1. /\ used[k][c] \in Nat /\ Cardinality(Outstanding(k)) \in Nat /\ n \in Nat
        /\ Quota[k][c] \in Nat
    BY <1>1, <1>3, KeyTypes, LimitsAssumption
  <2>2. /\ used'[k][c] = used[k][c]
        /\ Cardinality(Outstanding(k)') = Cardinality(Outstanding(k)) - n
    BY <1>2, <1>3
  <2>3. used[k][c] + Cardinality(Outstanding(k)) <= Quota[k][c]
    BY DEF QuotaInv, QuotaHeld
  <2> HIDE DEF n
  <2>4. QED
    BY <2>1, <2>2, <2>3
<1>6. QED
  BY <1>4, <1>5 DEF QuotaInv

\* Half an hour without a new reservation: what was in flight when it began is
\* over, so no call is outstanding, and after a second one no reading is older
\* than the last log.
LEMMA AgeReservationsKeeps ==
  ASSUME QuotaInv, TypeInv', NEW h \in Keys, AgeReservations(h)
  PROVE  QuotaInv'
<1>1. TypeOK /\ TypeOK' /\ Phases
  BY DEF QuotaInv, TypeInv
<1>2. /\ UNCHANGED <<keyStates, total, used, period, rows, attempts, lost, pc>>
      /\ \A k \in Keys \ {h} : pendingAge'[k] = pendingAge[k] /\ present'[k] = present[k]
      /\ pendingAge'[h] = pendingAge[h] + 1
      /\ pendingAge[h] < 2
      /\ present[h] = {}
      /\ pendingAge[h] = 0 => present'[h] = Busy
  BY <1>1 DEF AgeReservations, database, requests, TypeOK
<1>3. /\ pendingAge[h] \in 0..2
      /\ \A k : Outstanding(k)' = Outstanding(k) /\ \A q : CallsOf(q, k)' = CallsOf(q, k)
  BY <1>1, <1>2, KeyTypes DEF CallsOf, Outstanding, Slots, IsCallOn
<1>4. ASSUME NEW k \in Keys PROVE KeyInv(k)'
  <2>1. KeyInv(k)
    BY DEF QuotaInv
  <2>2. /\ Balanced(k, keyStates[k], lost[k])'
        /\ StateCovers(k, keyStates[k])' /\ StateInOrder(k, keyStates[k])'
        /\ RowsCover(k)' /\ RowsInOrder(k)'
    BY <1>2, <1>3, <2>1
       DEF KeyInv, Sound, Balanced, StateCovers, StateInOrder, RowsCover, RowsInOrder,
           Covers, InOrder, Reading
  <2>3. Aged(k)'
    <3>1. CASE k # h
      BY <1>2, <1>3, <2>1, <3>1 DEF KeyInv, Aged, Reading
    <3>2. CASE k = h
      <4>1. CASE pendingAge[h] = 0
        <5>1. \A q \in Requests : CallsOf(q, h) = {}
          BY <1>2, <2>1, <3>2, <4>1 DEF KeyInv, Aged
        <5>2. Outstanding(h) = {}
          BY <5>1 DEF CallsOf, Outstanding, Slots
        <5>3. pendingAge'[h] = 1 /\ present'[h] = Busy
          BY <1>2, <4>1
        <5>4. \A q \in Requests : Reading(q, h) => q \in Busy
          BY <1>1 DEF Phases, Reading, NoRows, Busy
        <5>5. QED
          BY <1>2, <1>3, <3>2, <5>2, <5>3, <5>4 DEF Aged, Reading
      <4>2. CASE pendingAge[h] = 1
        <5>1. pendingAge'[h] = 2
          BY <1>2, <4>2
        <5>2. /\ Outstanding(h) = {}
              /\ \A q \in Requests : Reading(q, h) => rows[q][h].total = total[h]
          BY <1>2, <2>1, <3>2, <4>2 DEF KeyInv, Aged
        <5>3. QED
          BY <1>2, <1>3, <3>2, <5>1, <5>2 DEF Aged, Reading
      <4>3. QED
        BY <1>2, <1>3, <4>1, <4>2
    <3>3. QED
      BY <3>1, <3>2
  <2>4. QED
    BY <1>2, <2>1, <2>2, <2>3 DEF KeyInv, Sound
<1>5. QuotaHeld'
  BY <1>2, <1>3 DEF QuotaInv, QuotaHeld
<1>6. QED
  BY <1>4, <1>5 DEF QuotaInv

\* A new day or month: nothing is recorded in it yet.
LEMMA RolloverKeeps ==
  ASSUME QuotaInv, TypeInv', NEW cycles \in Rollovers, Rollover(cycles)
  PROVE  QuotaInv'
<1>1. TypeOK /\ TypeOK'
  BY DEF QuotaInv, TypeInv
<1>2. /\ UNCHANGED <<keyStates, pendingAge, present, total, rows, attempts, lost, pc>>
      /\ \A k \in Keys, c \in Cycles :
           \/ period'[c] = period[c] /\ used'[k][c] = used[k][c]
           \/ period'[c] = period[c] + 1 /\ used'[k][c] = 0
  BY <1>1 DEF Rollover, memory, requests, TypeOK
<1>3. \A k : Outstanding(k)' = Outstanding(k) /\ \A q : CallsOf(q, k)' = CallsOf(q, k)
  BY <1>2 DEF CallsOf, Outstanding, Slots, IsCallOn
<1>4. ASSUME NEW k \in Keys PROVE KeyInv(k)'
  <2> DEFINE s == keyStates[k]
  <2>1. KeyInv(k)
    BY DEF QuotaInv
  <2>2. /\ s \in KeyState /\ s.usageObserved \in Nat /\ total[k] \in Nat
        /\ \A c \in Cycles : /\ s.observedPeriod[c] \in Nat /\ s.observed[c] \in Nat
                             /\ period[c] \in Nat /\ used[k][c] \in Nat
        /\ \A q \in Requests : Reading(q, k) =>
             /\ rows[q][k].total \in Nat
             /\ \A c \in Cycles : rows[q][k].period[c] \in Nat /\ rows[q][k].used[c] \in Nat
    BY <1>1, KeyTypes DEF KeyState, Row
  <2>3. ASSUME NEW c \in Cycles, NEW seen \in Nat, NEW per \in Nat, NEW u \in Nat,
               seen <= total[k], Covers(k, c, seen, per, u)
        PROVE  /\ per <= period'[c]
               /\ used'[k][c] <= total[k] - seen + (IF per = period'[c] THEN u ELSE 0)
    BY <1>2, <2>2, <2>3 DEF Covers
  <2>4. StateCovers(k, keyStates[k])'
    <3>1. ASSUME NEW c \in Cycles
          PROVE  Covers(k, c, s.usageObserved, s.observedPeriod[c], s.observed[c])'
      <4>1. /\ Covers(k, c, s.usageObserved, s.observedPeriod[c], s.observed[c])
            /\ s.usageObserved <= total[k]
        BY <2>1 DEF KeyInv, Sound, StateCovers
      <4>2. QED
        BY <1>2, <2>2, <2>3, <4>1 DEF Covers
    <3>2. QED
      BY <1>2, <3>1 DEF StateCovers, Covers
  <2>5. RowsCover(k)'
    <3> SUFFICES ASSUME NEW q \in Requests, Reading(q, k)
                 PROVE  /\ rows[q][k].total <= total[k]
                        /\ \A c \in Cycles :
                             Covers(k, c, rows[q][k].total, rows[q][k].period[c],
                                    rows[q][k].used[c])'
      BY <1>2 DEF RowsCover, Reading
    <3>1. rows[q][k].total <= total[k]
      BY <2>1 DEF KeyInv, RowsCover
    <3>2. ASSUME NEW c \in Cycles
          PROVE  Covers(k, c, rows[q][k].total, rows[q][k].period[c], rows[q][k].used[c])'
      <4>1. Covers(k, c, rows[q][k].total, rows[q][k].period[c], rows[q][k].used[c])
        BY <2>1 DEF KeyInv, RowsCover
      <4>2. QED
        BY <1>2, <2>2, <2>3, <3>1, <4>1 DEF Covers
    <3>3. QED
      BY <3>1, <3>2
  <2>6. /\ Balanced(k, keyStates[k], lost[k])'
        /\ StateInOrder(k, keyStates[k])'
        /\ RowsInOrder(k)'
        /\ Aged(k)'
    BY <1>2, <1>3, <2>1
       DEF KeyInv, Sound, Balanced, StateInOrder, RowsInOrder, InOrder, Reading, Aged
  <2>7. \A c \in Cycles : used'[k][c] <= total'[k]
    BY <1>2, <2>1, <2>2 DEF KeyInv
  <2>8. QED
    BY <1>2, <2>1, <2>4, <2>5, <2>6, <2>7 DEF KeyInv, Sound
<1>5. QuotaHeld'
  <2> SUFFICES ASSUME NEW k \in Keys, NEW c \in Cycles, Quota[k][c] > 0
               PROVE  used'[k][c] + Cardinality(Outstanding(k)') <= Quota[k][c]
    BY DEF QuotaHeld
  <2>1. /\ used[k][c] \in Nat /\ Cardinality(Outstanding(k)) \in Nat /\ Quota[k][c] \in Nat
        /\ used[k][c] + Cardinality(Outstanding(k)) <= Quota[k][c]
    BY <1>1, KeyTypes, LimitsAssumption DEF QuotaInv, QuotaHeld
  <2>2. QED
    BY <1>2, <1>3, <2>1
<1>6. QED
  BY <1>4, <1>5 DEF QuotaInv

\* A manager that knows nothing of a key, with no request under way.
Fresh(k) ==
  /\ keyStates[k] = NewKeyState
  /\ pendingAge[k] = 0
  /\ lost[k] = 0
  /\ \A p \in Requests : rows[p] = NoRows /\ attempts[p] = <<>>
  /\ total[k] \in Nat
  /\ \A c \in Cycles : /\ used[k][c] \in Nat /\ period[c] \in Nat \ {0}
                        /\ used[k][c] <= total[k]

\* A key the manager knows nothing of, with no request under way, satisfies the
\* invariant (at first, and after a restart).
LEMMA FreshKey ==
  \A k \in Keys : Fresh(k) => KeyInv(k) /\ Cardinality(Outstanding(k)) = 0
<1> SUFFICES ASSUME NEW k \in Keys, Fresh(k)
             PROVE  KeyInv(k) /\ Cardinality(Outstanding(k)) = 0
  OBVIOUS
<1> USE DEF Fresh
<1>1. Outstanding(k) = {} /\ \A p : CallsOf(p, k) = {}
  <2>1. \A s \in Slots : s[1] \in Requests /\ s[2] \in Nat /\ s[2] > 0
    BY LimitsAssumption DEF Slots
  <2>2. QED
    BY <2>1 DEF Outstanding, CallsOf, IsCallOn
<1>2. Cardinality(Outstanding(k)) = 0
  BY <1>1, FS_EmptySet
<1>3. \A p \in Requests : ~Reading(p, k)
  BY DEF Reading, NoRows
<1>4. StateCovers(k, keyStates[k])
  BY DEF StateCovers, Covers, NewKeyState, NoPeriod
<1>5. Balanced(k, keyStates[k], lost[k])
  BY <1>2, <1>3 DEF Balanced, NewKeyState, NoPeriod
<1>6. keyStates[k].usageObserved <= total[k]
  BY DEF NewKeyState
<1>7. QED
  BY <1>1, <1>2, <1>3, <1>4, <1>5, <1>6
     DEF KeyInv, Sound, StateInOrder, RowsCover, RowsInOrder, Aged

\* The same of the next state.
LEMMA FreshKeyNext ==
  \A k \in Keys : Fresh(k)' => KeyInv(k)' /\ Cardinality(Outstanding(k)') = 0
<1>1. (\A k \in Keys : Fresh(k) => KeyInv(k) /\ Cardinality(Outstanding(k)) = 0)'
  BY FreshKey, PTL
<1>2. QED
  BY <1>1

-----------------------------------------------------------------------------
\* The initial states satisfy the invariant.
LEMMA QuotaInit == Init => QuotaInv
<1> SUFFICES ASSUME Init PROVE QuotaInv
  OBVIOUS
<1>1. TypeInv
  BY TypeInit
<1>2. \A k \in Keys : KeyInv(k) /\ Cardinality(Outstanding(k)) = 0
  <2>1. \A k \in Keys : Fresh(k)
    BY DEF Init, Fresh
  <2>2. QED
    BY <2>1, FreshKey
<1>3. QuotaHeld
  BY <1>2, LimitsAssumption DEF QuotaHeld, Init
<1>4. QED
  BY <1>1, <1>2, <1>3 DEF QuotaInv

\* Every step keeps the invariant.
LEMMA QuotaStep == QuotaInv /\ [Next]_vars => QuotaInv'
<1> SUFFICES ASSUME QuotaInv, [Next]_vars PROVE QuotaInv'
  OBVIOUS
<1>0. TypeOK /\ Phases /\ TypeInv'
  BY TypeStep DEF QuotaInv, TypeInv
<1>1. ASSUME NEW p \in Requests, AbandonAcquire(p) PROVE QuotaInv'
  <2>1. \A k \in Keys : RowsShrink(k)
    BY <1>0, <1>1 DEF AbandonAcquire, RowsShrink, Reading, NoRows, TypeOK
  <2>2. QED
    BY <1>0, <1>1, <2>1, Unaffected DEF AbandonAcquire, memory, database
<1>2. ASSUME NEW p \in Requests, Release(p) PROVE QuotaInv'
  <2>1. PICK h : keyStates' = [keyStates EXCEPT ![h].active = IF @ > 0 THEN @ - 1 ELSE 0]
    BY <1>2 DEF Release, ReleaseCounters
  <2>2. \A k \in Keys :
          /\ keyStates'[k].usageInitialized = keyStates[k].usageInitialized
          /\ keyStates'[k].usageObserved = keyStates[k].usageObserved
          /\ keyStates'[k].pendingReservations = keyStates[k].pendingReservations
          /\ keyStates'[k].observedPeriod = keyStates[k].observedPeriod
          /\ keyStates'[k].observed = keyStates[k].observed
    BY <1>0, <2>1 DEF TypeOK, KeyState
  <2>3. \A k \in Keys : RowsShrink(k)
    BY <1>2 DEF Release, RowsShrink, Reading
  <2>4. QED
    BY <1>0, <1>2, <2>2, <2>3, Unaffected DEF Release, database
<1>3. ASSUME NEW p \in Requests, BeginLog(p) PROVE QuotaInv'
  <2>1. \A k \in Keys : RowsShrink(k)
    BY <1>3 DEF BeginLog, RowsShrink, Reading
  <2>2. QED
    BY <1>0, <1>3, <2>1, Unaffected DEF BeginLog, memory, database
<1>4. ASSUME NEW h \in Keys, MinutePasses(h) PROVE QuotaInv'
  <2>1. \A k \in Keys :
          /\ keyStates'[k].usageInitialized = keyStates[k].usageInitialized
          /\ keyStates'[k].usageObserved = keyStates[k].usageObserved
          /\ keyStates'[k].pendingReservations = keyStates[k].pendingReservations
          /\ keyStates'[k].observedPeriod = keyStates[k].observedPeriod
          /\ keyStates'[k].observed = keyStates[k].observed
    BY <1>0, <1>4 DEF MinutePasses, TypeOK, KeyState
  <2>2. \A k \in Keys : RowsShrink(k)
    BY <1>4 DEF MinutePasses, requests, RowsShrink, Reading
  <2>3. QED
    BY <1>0, <1>4, <2>1, <2>2, Unaffected DEF MinutePasses, database, requests
<1>5. CASE Restart
  <2>1. \A k \in Keys : KeyInv(k)' /\ Cardinality(Outstanding(k)') = 0
    <3>1. UNCHANGED <<total, used, period>>
      BY <1>5 DEF Restart, database
    <3>2. /\ \A k \in Keys : /\ keyStates'[k] = NewKeyState
                             /\ pendingAge'[k] = 0
                             /\ lost'[k] = 0
          /\ \A p \in Requests : rows'[p] = NoRows /\ attempts'[p] = <<>>
      BY <1>5 DEF Restart
    <3>3. \A k \in Keys : /\ total'[k] \in Nat
                          /\ \A c \in Cycles : /\ used'[k][c] \in Nat
                                               /\ period'[c] \in Nat \ {0}
                                               /\ used'[k][c] <= total'[k]
      BY <1>0, <3>1 DEF TypeOK, QuotaInv, KeyInv
    <3>4. QED
      BY <3>2, <3>3, FreshKeyNext DEF Fresh
  <2>2. QuotaHeld'
    <3> SUFFICES ASSUME NEW k \in Keys, NEW c \in Cycles, Quota[k][c] > 0
                 PROVE  used'[k][c] + Cardinality(Outstanding(k)') <= Quota[k][c]
      BY DEF QuotaHeld
    <3>1. /\ used[k][c] \in Nat /\ Cardinality(Outstanding(k)) \in Nat
          /\ Quota[k][c] \in Nat
          /\ used[k][c] + Cardinality(Outstanding(k)) <= Quota[k][c]
      BY <1>0, KeyTypes, LimitsAssumption DEF QuotaInv, QuotaHeld
    <3>2. used'[k][c] = used[k][c]
      BY <1>5 DEF Restart, database
    <3>3. QED
      BY <2>1, <3>1, <3>2
  <2>3. QED
    BY <1>0, <2>1, <2>2 DEF QuotaInv
<1>6. CASE UNCHANGED vars
  <2>1. \A k \in Keys : RowsShrink(k)
    BY <1>6 DEF vars, requests, RowsShrink, Reading
  <2>2. QED
    BY <1>0, <1>6, <2>1, Unaffected DEF vars, memory, database, requests
<1>7. QED
  BY <1>0, <1>1, <1>2, <1>3, <1>4, <1>5, <1>6, ListKeysKeeps, ReserveKeeps, RefuseKeeps,
     CommitLogKeeps, LoseLogKeeps, AgeReservationsKeeps, RolloverKeeps DEF Next

\* QuotaInv is an invariant of KeyPool.
LEMMA QuotaInvariant == Spec => []QuotaInv
BY QuotaInit, QuotaStep, PTL DEF Spec

\* The quota of a key holds for every number of keys, of concurrent requests
\* and of attempts, and for every quota: with readings of the database that are
\* late, across midnight, with logs lost and with the process restarted.
THEOREM QuotaCorrect == Spec => []QuotaHeld
<1>1. QuotaInv => QuotaHeld
  BY DEF QuotaInv
<1>2. QED
  BY <1>1, QuotaInvariant, PTL

\* The books balance: the reservations of a key are the calls that are still to
\* be logged, those whose log was lost, and the usage not yet seen.
THEOREM BooksCorrect == Spec => []BooksBalance
<1>1. QuotaInv => BooksBalance
  BY DEF QuotaInv, KeyInv, Sound, Balanced, BooksBalance
<1>2. QED
  BY <1>1, QuotaInvariant, PTL

\* The step of a key that ObservedNeverRewinds allows.
Forward(k) ==
  keyStates'[k].usageInitialized =>
    keyStates'[k].usageObserved >= keyStates[k].usageObserved

\* What canUse makes of a reading never takes back usage it has seen.
LEMMA VisitedForward ==
  ASSUME QuotaInv, NEW p \in Requests, NEW looked \in SUBSET DOMAIN rows[p],
         NEW k \in Keys
  PROVE  /\ VisitedStates(p, looked)[k] \in KeyState
         /\ VisitedStates(p, looked)[k].usageObserved >= keyStates[k].usageObserved
<1>1. TypeOK /\ KeyInv(k)
  BY DEF QuotaInv, TypeInv
<1>2. keyStates[k].usageObserved \in Nat
  BY <1>1, KeyTypes DEF KeyState
<1>3. CASE k \in looked
  <2>1. Reading(p, k) /\ rows[p][k].total \in Nat
    BY <1>1, <1>3, KeyTypes DEF Reading, Row
  <2>2. VisitedStates(p, looked)[k] = Visited(k, pendingAge[k], rows[p][k])
    BY <1>3 DEF VisitedStates
  <2>3. QED
    BY <1>1, <1>2, <2>1, <2>2, VisitedBalance, VisitedStatesSound
<1>4. CASE k \notin looked
  BY <1>2, <1>4, VisitedStatesSound DEF VisitedStates
<1>5. QED
  BY <1>3, <1>4

\* Neither does any step that is not a restart; a restart starts over.
LEMMA ForwardStep ==
  ASSUME QuotaInv, Next, NEW k \in Keys
  PROVE  Forward(k)
<1>0. /\ TypeOK
      /\ keyStates[k] \in KeyState
      /\ keyStates[k].usageObserved \in Nat
  BY KeyTypes DEF QuotaInv, TypeInv, KeyState
<1>1. CASE keyStates'[k] = keyStates[k]
  BY <1>0, <1>1 DEF Forward
<1>2. ASSUME NEW p \in Requests, NEW h \in Keys, NEW skipped \in SUBSET Keys,
             Reserve(p, h, skipped)
      PROVE  Forward(k)
  <2> DEFINE looked == skipped \cup {h}
             visited == VisitedStates(p, looked)
  <2>1. /\ looked \in SUBSET DOMAIN rows[p]
        /\ keyStates' = [visited EXCEPT ![h] = Taken(h, visited[h])]
    BY <1>2 DEF Reserve
  <2>2. /\ visited \in [Keys -> KeyState]
        /\ visited[k].usageObserved >= keyStates[k].usageObserved
    BY <1>0, <2>1, VisitedStatesType, VisitedForward
  <2> HIDE DEF visited
  <2>3. keyStates'[k].usageObserved = visited[k].usageObserved
    BY <2>1, <2>2, TakenFacts
  <2>4. QED
    BY <2>2, <2>3 DEF Forward
<1>3. ASSUME NEW p \in Requests, Refuse(p)
      PROVE  Forward(k)
  <2> DEFINE looked == IF ProviderBusy THEN {} ELSE DOMAIN rows[p]
  <2>1. keyStates' = VisitedStates(p, looked)
    BY <1>3 DEF Refuse
  <2>2. QED
    BY <2>1, VisitedForward DEF Forward
<1>4. ASSUME NEW p \in Requests, Release(p)
      PROVE  Forward(k)
  <2>1. PICK h : keyStates' = [keyStates EXCEPT ![h].active = IF @ > 0 THEN @ - 1 ELSE 0]
    BY <1>4 DEF Release, ReleaseCounters
  <2>2. keyStates'[k].usageObserved = keyStates[k].usageObserved
    BY <1>0, <2>1 DEF TypeOK, KeyState
  <2>3. QED
    BY <1>0, <2>2 DEF Forward
<1>5. ASSUME NEW h \in Keys, MinutePasses(h)
      PROVE  Forward(k)
  <2>1. keyStates'[k].usageObserved = keyStates[k].usageObserved
    BY <1>0, <1>5 DEF MinutePasses, TypeOK, KeyState
  <2>2. QED
    BY <1>0, <2>1 DEF Forward
<1>6. CASE Restart
  BY <1>6 DEF Restart, Forward, NewKeyState
<1>7. QED
  BY <1>1, <1>2, <1>3, <1>4, <1>5, <1>6
     DEF Next, ListKeys, AbandonAcquire, BeginLog, CommitLog, LoseLog, AgeReservations,
         Rollover, memory

\* What the manager has seen of the usage of a key is never taken back, however
\* late a reading of the database comes.
THEOREM ForwardCorrect == Spec => ObservedNeverRewinds
<1>1. QuotaInv /\ [Next]_vars => [\A k \in Keys : Forward(k)]_vars
  BY ForwardStep
<1>2. ObservedNeverRewinds <=> [][\A k \in Keys : Forward(k)]_vars
  BY DEF ObservedNeverRewinds, Forward
<1>3. QED
  BY <1>1, <1>2, QuotaInvariant, PTL DEF Spec

=============================================================================
