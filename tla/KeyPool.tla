------------------------------- MODULE KeyPool -------------------------------
(***************************************************************************)
(* The pool of upstream keys of one provider: keypool.Manager (Acquire and *)
(* the release closure it returns), the statement of the store it reads    *)
(* its keys with, and the usage rows the request log writes at the end.    *)
(*                                                                         *)
(* The daily and monthly quota of a key are counted in the database, from  *)
(* the request logs, and a log is written only when a whole request is     *)
(* over.  The manager bridges the gap with reservations held in memory,    *)
(* which it gives up as the usage it reads from the database grows.  The   *)
(* read happens outside the manager's lock, so what Acquire reconciles may *)
(* be older than what another Acquire has reconciled before it.            *)
(*                                                                         *)
(* Here every call is logged once, by the request that made it: an         *)
(* extraction, or a search no other joins.  CachedSearch composes this     *)
(* module with coalesced searches, whose calls are logged again.           *)
(*                                                                         *)
(* Which keys the status column admits (enabled, or cooled down) is left   *)
(* open here: any subset of the keys may be listed.  Which usable key is   *)
(* taken (the routing strategy) is left open too.                          *)
(***************************************************************************)
EXTENDS Integers, Sequences, FiniteSets

CONSTANTS
  Keys,                \* provider_keys rows of the provider
  Requests,            \* relay requests that run concurrently
  Cycles,              \* the quota cycles: day and month
  Rollovers,           \* sets of cycles that turn over together
  Quota,               \* Quota[k][c]: daily_quota, monthly_quota (0: none)
  KeyConcurrency,      \* max_concurrency of a key (0: none)
  RPMLimit,            \* rpm_limit of a key (0: none)
  ProviderConcurrency, \* max_concurrency of the provider (0: none)
  MaxAttempts,         \* key acquisitions of one request, at most
  MaxPeriod            \* bound of the runs: periods of a cycle

ASSUME KeysAssumption == IsFiniteSet(Keys)
ASSUME RequestsAssumption == IsFiniteSet(Requests)
ASSUME CyclesAssumption == Rollovers \subseteq SUBSET Cycles
ASSUME LimitsAssumption ==
  /\ Quota \in [Keys -> [Cycles -> Nat]]
  /\ KeyConcurrency \in [Keys -> Nat]
  /\ RPMLimit \in [Keys -> Nat]
  /\ ProviderConcurrency \in Nat
  /\ MaxAttempts \in Nat
  /\ MaxPeriod \in Nat

VARIABLES
  keyStates,      \* Manager.states: what the manager remembers of each key
  providerActive, \* Manager.providerStates[provider].active
  pendingAge,     \* half hours since pendingLast of a key: 0, 1 or 2
  present,        \* requests in flight since pendingAge of a key last changed
  total,          \* requests_total of a key over all of usage_daily
  used,           \* requests_total of a key in the current period of a cycle
  period,         \* the database's current period of each cycle
  pc,             \* where each request is
  rows,           \* what ListAvailableProviderKeys returned to a request
  attempts,       \* the keys of a request's calls that no log accounts for yet
  logPeriod,      \* the periods a log being written is charged to
  lost            \* history: calls of a key whose log was lost, still reserved

memory == <<keyStates, providerActive, pendingAge, present>>
database == <<total, used, period>>
requests == <<pc, rows, attempts, logPeriod>>
vars == <<memory, database, requests, lost>>

-----------------------------------------------------------------------------
(* State of the manager. *)

\* A period of 0 is the empty string of a key whose usage was never read.
NoPeriod == [c \in Cycles |-> 0]

NewKeyState ==
  [active              |-> 0,
   windowCount         |-> 0,
   windowElapsed       |-> FALSE,
   usageInitialized    |-> FALSE,
   usageObserved       |-> 0,
   pendingReservations |-> 0,
   observedPeriod      |-> NoPeriod,
   observed            |-> [c \in Cycles |-> 0]]

Row == [total : Nat, period : [Cycles -> Nat], used : [Cycles -> Nat]]
NoRows == [k \in {} |-> 0]

Busy == {p \in Requests : pc[p] # "idle"}
InCall == {p \in Requests : pc[p] = "calling"}
HeldKey(p) == attempts[p][Len(attempts[p])]
Holders(k) == {p \in InCall : HeldKey(p) = k}

\* The calls that took a reservation of key k and are in no log yet.
Slots == Requests \X (1..MaxAttempts)
IsCallOn(s, k) == s[2] <= Len(attempts[s[1]]) /\ attempts[s[1]][s[2]] = k
Outstanding(k) == {s \in Slots : IsCallOn(s, k)}
CallsOf(p, k) == {s \in Outstanding(k) : s[1] = p}

-----------------------------------------------------------------------------
(* What the store reads and what the manager makes of it. *)

\* The rows of ListAvailableProviderKeys for the keys the status filter admits:
\* one statement, so one reading of the usage, without the keys whose recorded
\* usage has reached a quota.
Available(admitted) ==
  {k \in admitted : \A c \in Cycles : Quota[k][c] > 0 => used[k][c] < Quota[k][c]}

ReadRows(admitted) ==
  [k \in Available(admitted) |->
     [total |-> total[k], period |-> period, used |-> used[k]]]

\* A faulty variant: the reservations are reconciled with every reading that
\* differs, an older one too.
RewindingReconcile(s, snapshot) ==
  [s EXCEPT !.usageInitialized = TRUE,
            !.usageObserved = snapshot,
            !.pendingReservations =
               IF snapshot > s.usageObserved /\ s.usageInitialized
                 THEN IF snapshot - s.usageObserved >= @ THEN 0
                      ELSE @ - (snapshot - s.usageObserved)
                 ELSE @]

\* A faulty variant: a newer reading gives up every reservation.
ForgetfulReconcile(s, snapshot) ==
  IF s.usageInitialized /\ snapshot <= s.usageObserved
    THEN s
    ELSE [s EXCEPT !.usageInitialized = TRUE,
                   !.usageObserved = snapshot,
                   !.pendingReservations = 0]

\* reconcileReservationSnapshot: usage newly seen in the database takes the
\* place of as many reservations; a reading that shows no more is ignored.
ReconcileReservation(s, snapshot) ==
  IF ~s.usageInitialized
    THEN [s EXCEPT !.usageInitialized = TRUE, !.usageObserved = snapshot]
  ELSE IF snapshot <= s.usageObserved
    THEN s
  ELSE LET delta == snapshot - s.usageObserved
       IN [s EXCEPT !.usageObserved = snapshot,
                    !.pendingReservations = IF delta >= @ THEN 0 ELSE @ - delta]

\* A faulty variant: the expiry only happens when the key can be used anyway.
NeverExpire(s, age, snapshot) == s

\* A faulty variant: the expiry also frees the reservations of calls in flight.
HastyExpire(s, age, snapshot) ==
  IF s.pendingReservations > 0 /\ age > 0
    THEN [s EXCEPT !.pendingReservations = 0, !.usageObserved = snapshot]
    ELSE s

\* syncQuotaState, its second part: reservations older than
\* maxPendingReservationAge are given up when no call holds the key.
ExpireReservations(s, age, snapshot) ==
  IF s.pendingReservations > 0 /\ s.active = 0 /\ age = 2
    THEN [s EXCEPT !.pendingReservations = 0,
                   !.usageInitialized = TRUE,
                   !.usageObserved = snapshot]
    ELSE s

\* reconcileUsagePeriod, for every cycle: the observed usage follows the
\* reading of a newer period, is the larger of the two in the same period, and
\* ignores the reading of an older one.
ReconcilePeriods(s, row) ==
  [s EXCEPT
     !.observedPeriod =
        [c \in Cycles |-> IF row.period[c] > @[c] THEN row.period[c] ELSE @[c]],
     !.observed =
        [c \in Cycles |->
           IF row.period[c] > s.observedPeriod[c]
                \/ (row.period[c] = s.observedPeriod[c] /\ row.used[c] > @[c])
             THEN row.used[c] ELSE @[c]]]

SyncQuotaState(s, age, row) ==
  ReconcilePeriods(
    ExpireReservations(ReconcileReservation(s, row.total), age, row.total), row)

KeyBusy(k, s) == KeyConcurrency[k] > 0 /\ s.active >= KeyConcurrency[k]

\* A minute after its start a window is started anew, by the first visit that
\* does not find the key busy.
RefreshWindow(k, s) ==
  IF RPMLimit[k] > 0 /\ s.windowElapsed /\ ~KeyBusy(k, s)
    THEN [s EXCEPT !.windowCount = 0, !.windowElapsed = FALSE]
    ELSE s

\* What canUse leaves in the state of a key that Acquire looks at.
Visited(k, age, row) == RefreshWindow(k, SyncQuotaState(keyStates[k], age, row))

\* A faulty variant: the reservations are not counted against the quota.
CanUseIgnoringPending(k, s) ==
  /\ ~KeyBusy(k, s)
  /\ RPMLimit[k] > 0 => s.windowCount < RPMLimit[k]
  /\ \A c \in Cycles : Quota[k][c] > 0 => s.observed[c] < Quota[k][c]

\* A faulty variant: the concurrency of the key is not looked at.
CanUseWhenBusy(k, s) ==
  /\ RPMLimit[k] > 0 => s.windowCount < RPMLimit[k]
  /\ \A c \in Cycles :
       Quota[k][c] > 0 => s.observed[c] + s.pendingReservations < Quota[k][c]

\* canUse, on the state it has just brought up to date.
CanUse(k, s) ==
  /\ ~KeyBusy(k, s)
  /\ RPMLimit[k] > 0 => s.windowCount < RPMLimit[k]
  /\ \A c \in Cycles :
       Quota[k][c] > 0 => s.observed[c] + s.pendingReservations < Quota[k][c]

\* The counters Acquire advances for the key it hands out.  windowCount is read
\* only under an RPM limit and is kept only then.
Taken(k, s) ==
  [s EXCEPT !.active = @ + 1,
            !.windowCount = IF RPMLimit[k] > 0 THEN @ + 1 ELSE 0,
            !.pendingReservations = @ + 1]

\* The period of an age is over for the reservations that are gone, and starts
\* again with a new one.
AgeAfter(k, taken, s) ==
  IF k \in taken \/ s.pendingReservations = 0 THEN 0 ELSE pendingAge[k]
PresentAfter(k, taken, s) ==
  IF k \in taken THEN Busy
  ELSE IF s.pendingReservations = 0 THEN {} ELSE present[k]

\* Reservations given up all at once cover no lost call any more.
LostAfter(k, s) == IF s.pendingReservations = 0 THEN 0 ELSE lost[k]

\* A faulty variant: the retry loop runs once too often.
MayAttemptOnceMore(p) == Len(attempts[p]) <= MaxAttempts

\* The retry loop of a request (and the batches of an extraction) is bounded.
MayAttempt(p) == Len(attempts[p]) < MaxAttempts

-----------------------------------------------------------------------------
Init ==
  /\ keyStates = [k \in Keys |-> NewKeyState]
  /\ providerActive = 0
  /\ pendingAge = [k \in Keys |-> 0]
  /\ present = [k \in Keys |-> {}]
  /\ total = [k \in Keys |-> 0]
  /\ used = [k \in Keys |-> [c \in Cycles |-> 0]]
  /\ period = [c \in Cycles |-> 1]
  /\ pc = [p \in Requests |-> "idle"]
  /\ rows = [p \in Requests |-> NoRows]
  /\ attempts = [p \in Requests |-> <<>>]
  /\ logPeriod = [p \in Requests |-> NoPeriod]
  /\ lost = [k \in Keys |-> 0]

\* A request starts Acquire, for its first call or for another one (a retry, or
\* the next URL of an extraction).  No key to list is the error no_key, after
\* which the request makes no further call to this provider.
ListKeys(p, admitted) ==
  /\ pc[p] \in {"idle", "between"}
  /\ MayAttempt(p)
  /\ IF Available(admitted) = {}
       THEN /\ pc' = [pc EXCEPT ![p] = "closing"]
            /\ UNCHANGED rows
       ELSE /\ pc' = [pc EXCEPT ![p] = "listed"]
            /\ rows' = [rows EXCEPT ![p] = ReadRows(admitted)]
  /\ UNCHANGED <<memory, database, attempts, logPeriod, lost>>

\* Acquire gives up before it takes the lock: the request's context has ended,
\* or a statement failed.
AbandonAcquire(p) ==
  /\ pc[p] \in {"between", "listed"}
  /\ pc' = [pc EXCEPT ![p] = "closing"]
  /\ rows' = [rows EXCEPT ![p] = NoRows]
  /\ UNCHANGED <<memory, database, attempts, logPeriod, lost>>

ProviderBusy == ProviderConcurrency > 0 /\ providerActive >= ProviderConcurrency

\* The states after canUse has looked at the keys of looked.
VisitedStates(p, looked) ==
  [j \in Keys |-> IF j \in looked THEN Visited(j, pendingAge[j], rows[p][j])
                                  ELSE keyStates[j]]

\* What else changes with the reservations of the states visited, and of taken.
ReservationsAged(visited, taken) ==
  /\ pendingAge' = [j \in Keys |-> AgeAfter(j, taken, visited[j])]
  /\ present' = [j \in Keys |-> PresentAfter(j, taken, visited[j])]
  /\ lost' = [j \in Keys |-> LostAfter(j, visited[j])]

\* The locked part of Acquire when it hands out key k, after the keys of
\* skipped, none of which could be used.
Reserve(p, k, skipped) ==
  LET visited == VisitedStates(p, skipped \cup {k})
  IN /\ pc[p] = "listed"
     /\ ~ProviderBusy
     /\ k \in DOMAIN rows[p]
     /\ skipped \subseteq DOMAIN rows[p] \ {k}
     /\ CanUse(k, visited[k])
     /\ \A j \in skipped : ~CanUse(j, visited[j])
     /\ keyStates' = [visited EXCEPT ![k] = Taken(k, @)]
     /\ providerActive' = providerActive + 1
     /\ ReservationsAged(visited, {k})
     /\ pc' = [pc EXCEPT ![p] = "calling"]
     /\ rows' = [rows EXCEPT ![p] = NoRows]
     /\ attempts' = [attempts EXCEPT ![p] = Append(@, k)]
     /\ UNCHANGED <<database, logPeriod>>

\* The locked part of Acquire when it refuses: the provider is busy, or every
\* listed key was looked at and none can be used.
Refuse(p) ==
  LET looked == IF ProviderBusy THEN {} ELSE DOMAIN rows[p]
      visited == VisitedStates(p, looked)
  IN /\ pc[p] = "listed"
     /\ \A j \in looked : ~CanUse(j, visited[j])
     /\ keyStates' = visited
     /\ ReservationsAged(visited, {})
     /\ pc' = [pc EXCEPT ![p] = "closing"]
     /\ rows' = [rows EXCEPT ![p] = NoRows]
     /\ UNCHANGED <<providerActive, database, attempts, logPeriod>>

\* A faulty variant: a release gives back the slot of the key only.
ReleaseKeyOnly(k) ==
  /\ keyStates' = [keyStates EXCEPT ![k].active = IF @ > 0 THEN @ - 1 ELSE 0]
  /\ providerActive' = providerActive

\* The counters the release closure gives back under the lock.
ReleaseCounters(k) ==
  /\ keyStates' = [keyStates EXCEPT ![k].active = IF @ > 0 THEN @ - 1 ELSE 0]
  /\ providerActive' = IF providerActive > 0 THEN providerActive - 1 ELSE 0

\* The call to the upstream is over and the key is released.  What
\* RecordKeyResult then does to the status column shows in the keys the later
\* ListKeys are given.
Release(p) ==
  /\ pc[p] = "calling"
  /\ ReleaseCounters(HeldKey(p))
  /\ pc' = [pc EXCEPT ![p] = "between"]
  /\ UNCHANGED <<pendingAge, present, database, rows, attempts, logPeriod, lost>>

\* The request is over and the transaction of its log begins: usage_date is the
\* database's date at this moment.
BeginLog(p) ==
  /\ pc[p] \in {"between", "closing"}
  /\ pc' = [pc EXCEPT ![p] = "logging"]
  /\ logPeriod' = [logPeriod EXCEPT ![p] = period]
  /\ UNCHANGED <<memory, database, rows, attempts, lost>>

Finished(p) ==
  /\ pc' = [pc EXCEPT ![p] = "idle"]
  /\ logPeriod' = [logPeriod EXCEPT ![p] = NoPeriod]
  /\ attempts' = [attempts EXCEPT ![p] = <<>>]
  /\ present' = [k \in Keys |-> present[k] \ {p}]

\* The log is committed: every call with a key counts, failed or not, for the
\* day and month its transaction began in.
CommitLog(p) ==
  /\ pc[p] = "logging"
  /\ total' = [k \in Keys |-> total[k] + Cardinality(CallsOf(p, k))]
  /\ used' = [k \in Keys |-> [c \in Cycles |->
                IF logPeriod[p][c] = period[c]
                  THEN used[k][c] + Cardinality(CallsOf(p, k)) ELSE used[k][c]]]
  /\ Finished(p)
  /\ UNCHANGED <<keyStates, providerActive, pendingAge, period, rows, lost>>

\* The log is not written: the database refuses it or does not answer within
\* usageLogTimeout.
LoseLog(p) ==
  /\ pc[p] = "logging"
  /\ lost' = [k \in Keys |-> lost[k] + Cardinality(CallsOf(p, k))]
  /\ Finished(p)
  /\ UNCHANGED <<keyStates, providerActive, pendingAge, database, rows>>

\* Half an hour goes by without a new reservation of key k: every request that
\* was in flight when it began is over, as "normal relay requests are bounded to
\* well under an hour" (syncQuotaState) has it.
AgeReservations(k) ==
  /\ keyStates[k].pendingReservations > 0
  /\ pendingAge[k] < 2
  /\ present[k] = {}
  /\ pendingAge' = [pendingAge EXCEPT ![k] = @ + 1]
  /\ present' = [present EXCEPT ![k] = IF pendingAge[k] = 0 THEN Busy ELSE {}]
  /\ UNCHANGED <<keyStates, providerActive, database, requests, lost>>

\* A minute has gone by since windowStart.
MinutePasses(k) ==
  /\ keyStates[k].usageInitialized
  /\ RPMLimit[k] > 0
  /\ ~keyStates[k].windowElapsed
  /\ keyStates' = [keyStates EXCEPT ![k].windowElapsed = TRUE]
  /\ UNCHANGED <<providerActive, pendingAge, present, database, requests, lost>>

\* Midnight at the database, or the first of a month.
Rollover(cycles) ==
  /\ \A c \in cycles : period[c] < MaxPeriod
  /\ period' = [c \in Cycles |-> IF c \in cycles THEN period[c] + 1 ELSE period[c]]
  /\ used' = [k \in Keys |-> [c \in Cycles |->
                IF c \in cycles THEN 0 ELSE used[k][c]]]
  /\ UNCHANGED <<memory, total, requests, lost>>

\* The process restarts: the memory and the requests are gone, with the logs
\* they had not written.
Restart ==
  /\ keyStates' = [k \in Keys |-> NewKeyState]
  /\ providerActive' = 0
  /\ pendingAge' = [k \in Keys |-> 0]
  /\ present' = [k \in Keys |-> {}]
  /\ pc' = [p \in Requests |-> "idle"]
  /\ rows' = [p \in Requests |-> NoRows]
  /\ attempts' = [p \in Requests |-> <<>>]
  /\ logPeriod' = [p \in Requests |-> NoPeriod]
  /\ lost' = [k \in Keys |-> 0]
  /\ UNCHANGED database

Next ==
  \/ \E p \in Requests :
       \/ \E admitted \in SUBSET Keys : ListKeys(p, admitted)
       \/ AbandonAcquire(p)
       \/ \E k \in Keys, skipped \in SUBSET Keys : Reserve(p, k, skipped)
       \/ Refuse(p)
       \/ Release(p)
       \/ BeginLog(p)
       \/ CommitLog(p)
       \/ LoseLog(p)
  \/ \E k \in Keys : AgeReservations(k) \/ MinutePasses(k)
  \/ \E cycles \in Rollovers : Rollover(cycles)
  \/ Restart

Spec == Init /\ [][Next]_vars

\* A step of a request that is under way: its deadlines see to it that it ends.
RequestStep(p) ==
  /\ pc[p] # "idle"
  /\ \/ \E admitted \in SUBSET Keys : ListKeys(p, admitted)
     \/ \E k \in Keys, skipped \in SUBSET Keys : Reserve(p, k, skipped)
     \/ AbandonAcquire(p) \/ Refuse(p) \/ Release(p)
     \/ BeginLog(p) \/ CommitLog(p) \/ LoseLog(p)

Fairness ==
  /\ \A p \in Requests : WF_vars(RequestStep(p))
  /\ \A k \in Keys : WF_vars(AgeReservations(k)) /\ WF_vars(MinutePasses(k))

FairSpec == Spec /\ Fairness

-----------------------------------------------------------------------------
(* Properties. *)

Positions == {"idle", "listed", "calling", "between", "closing", "logging"}
KeyState ==
  [active : Nat, windowCount : Nat, windowElapsed : BOOLEAN,
   usageInitialized : BOOLEAN, usageObserved : Nat, pendingReservations : Nat,
   observedPeriod : [Cycles -> Nat], observed : [Cycles -> Nat]]

\* Every variable has its type, the counters of calls in progress are those of
\* at most all requests, and a request that is in a call has a call.
TypeOK ==
  /\ keyStates \in [Keys -> KeyState]
  /\ providerActive \in Nat
  /\ pendingAge \in [Keys -> 0..2]
  /\ present \in [Keys -> SUBSET Requests]
  /\ total \in [Keys -> Nat]
  /\ used \in [Keys -> [Cycles -> Nat]]
  /\ period \in [Cycles -> Nat \ {0}]
  /\ pc \in [Requests -> Positions]
  /\ DOMAIN rows = Requests
  /\ \A p \in Requests : /\ DOMAIN rows[p] \subseteq Keys
                         /\ rows[p] \in [DOMAIN rows[p] -> Row]
  /\ attempts \in [Requests -> Seq(Keys)]
  /\ \A p \in Requests : Len(attempts[p]) <= MaxAttempts
  /\ \A p \in InCall : attempts[p] # <<>>
  /\ logPeriod \in [Requests -> [Cycles -> Nat]]
  /\ lost \in [Keys -> Nat]

\* The calls in progress never exceed the limit of their key or of the provider
\* (Acquire tests and advances both counters under one lock, the release
\* closure gives them back).
ConcurrencyHeld ==
  /\ \A k \in Keys :
       KeyConcurrency[k] > 0 => Cardinality(Holders(k)) <= KeyConcurrency[k]
  /\ ProviderConcurrency > 0 => Cardinality(InCall) <= ProviderConcurrency

\* The counters are those of the calls in progress: no path leaks a slot, which
\* would leave the provider "limited or busy" until a restart, or frees one twice.
SlotsAccounted ==
  /\ \A k \in Keys : keyStates[k].active = Cardinality(Holders(k))
  /\ providerActive = Cardinality(InCall)

\* The requests recorded for a key in a day or month, together with those whose
\* log is still to come, never exceed its quota: not with stale readings, not
\* across midnight, not after lost logs or a restart.
QuotaHeld ==
  \A k \in Keys, c \in Cycles :
    Quota[k][c] > 0 => used[k][c] + Cardinality(Outstanding(k)) <= Quota[k][c]

\* The books balance: what the manager has seen and what it holds in reserve is
\* what is recorded, what is still to be logged and what was lost.  No
\* reservation is given up twice or kept for nothing.
BooksBalance ==
  \A k \in Keys :
    keyStates[k].usageInitialized =>
      /\ keyStates[k].usageObserved <= total[k]
      /\ keyStates[k].usageObserved + keyStates[k].pendingReservations
           = total[k] + Cardinality(Outstanding(k)) + lost[k]

\* What the manager has seen of a key's usage is never taken back, so no usage
\* is set against two reservations; only a restart starts over.
ObservedNeverRewinds ==
  [][\A k \in Keys :
       keyStates'[k].usageInitialized =>
         keyStates'[k].usageObserved >= keyStates[k].usageObserved]_vars

\* Nothing is on its way for the key, the database has room for it, and still a
\* fresh reading would be refused.
Starved(k) ==
  /\ Outstanding(k) = {}
  /\ k \in Available(Keys)
  /\ ~CanUse(k, Visited(k, pendingAge[k], ReadRows(Keys)[k]))

\* Lost logs make the manager refuse a key "temporarily without poisoning the
\* key forever" (syncQuotaState).
KeyRecovers == \A k \in Keys : Starved(k) ~> ~Starved(k)

=============================================================================
