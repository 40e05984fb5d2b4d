------------------------------ MODULE KeyRotation ------------------------------
(***************************************************************************)
(* Which key of a provider Acquire hands out: the order in which Postgres  *)
(* lists the keys, the order and the start each routing strategy makes of  *)
(* it, and what the results of earlier calls do to both.                   *)
(*                                                                         *)
(* KeyPool leaves the choice open and decides which keys can be used; here *)
(* that is left open: any keys may be listed, and any of them usable.  The *)
(* times of last use are reduced to their order.                           *)
(***************************************************************************)
EXTENDS Integers, SequencesExt, FiniteSetsExt

CONSTANTS
  PoolKeys,    \* the IDs of the keys
  Heavy,       \* those with the larger one of two weights
  Acquirers,   \* requests that call the provider, one call at a time each
  Strategies,  \* the values key_routing_strategy may have
  MaxCalls,    \* calls of a request: the first and its retries
  MaxLead,     \* bound: a larger lead of a total is not told from this one
  NoKey,
  Patience     \* how many calls may pass over a key that could have its turn

ASSUME RotationAssumption ==
  /\ PoolKeys \subseteq Nat /\ IsFiniteSet(PoolKeys)
  /\ Heavy \subseteq PoolKeys /\ NoKey \notin PoolKeys
  /\ Strategies \subseteq {"round_robin", "least_used", "random", "weighted_random"}
  /\ {MaxCalls, MaxLead} \subseteq Nat \ {0} /\ Patience \in Nat

VARIABLES
  strategy,  \* key_routing_strategy
  recency,   \* the keys by last_used_at, those never used first and by ID
  lead,      \* total_successes + total_failures of a key, above the lowest
  position,  \* Manager.positions of the provider
  acquirer,  \* what each request has read and holds
  watched,   \* history: one key,
  passed     \*   and the calls that passed over it since it last had its turn

rotationVars == <<strategy, recency, lead, position, acquirer, watched, passed>>

-----------------------------------------------------------------------------
(* Orders of keys. *)

Rank(k) == CHOOSE n \in DOMAIN recency : recency[n] = k

\* ORDER BY weight DESC, last_used_at NULLS FIRST, id.
ListedBefore(j, k) ==
  IF (j \in Heavy) = (k \in Heavy) THEN Rank(j) < Rank(k) ELSE j \in Heavy

\* The order of least_used; of two leads at the bound either may be the larger.
UsedBefore(j, k) ==
  \/ lead[j] < lead[k]
  \/ lead[j] = lead[k] /\ (Rank(j) < Rank(k) \/ lead[j] = MaxLead)

\* The keys of a reading, as they are listed and as least_used sorts them.
Readings(keys) ==
  LET orders == SetToSeqs(keys)
  IN [listed : {o \in orders : \A m, n \in DOMAIN o : m < n => ListedBefore(o[m], o[n])},
      sorted : {o \in orders : \A m, n \in DOMAIN o : m < n => UsedBefore(o[m], o[n])}]

\* orderKeys.  A weight of zero draws like one, so every order can be drawn.
OrdersOf(reading, s) ==
  CASE s = "least_used" -> {reading.sorted}
    [] s \in {"random", "weighted_random"} -> SetToSeqs(ToSet(reading.listed))
    [] OTHER -> {reading.listed}

UsesPosition(s) == s \notin {"least_used", "random", "weighted_random"}

\* What orderKeys leaves in positions: two of the strategies reset it.
PositionAfterOrder(s) == IF s \in {"least_used", "random"} THEN 0 ELSE position

\* startIndex.
StartIndex(s) == IF UsesPosition(s) THEN position ELSE 0

\* The indexes, from 0, in the order the loop of Acquire tries them.
Tried(order, start) == [n \in 1..Len(order) |-> (start + n - 1) % Len(order)]

\* The index of the first key tried that can be used.
Chosen(order, start, usable) ==
  SelectSeq(Tried(order, start), LAMBDA index : order[index + 1] \in usable)[1]

\* A faulty variant: the next call starts with the key of this one.
PositionKept(s, index, len) ==
  IF UsesPosition(s) THEN index ELSE PositionAfterOrder(s)

PositionAfterTake(s, index, len) ==
  IF UsesPosition(s) THEN (index + 1) % len ELSE PositionAfterOrder(s)

-----------------------------------------------------------------------------
NoReading == [listed |-> <<>>, sorted |-> <<>>]
NoTurn ==
  [step |-> "idle", reading |-> NoReading, strategy |-> "", key |-> NoKey,
   failed |-> NoKey, calls |-> 0]

RotationInit ==
  /\ strategy \in Strategies
  /\ recency = SetToSortSeq(PoolKeys, <)
  /\ lead = [k \in PoolKeys |-> 0]
  /\ position = 0
  /\ acquirer = [a \in Acquirers |-> NoTurn]
  /\ watched \in PoolKeys
  /\ passed = 0

Moves(a, change) == acquirer' = [acquirer EXCEPT ![a] = change]

\* A request begins, or retries: it lists the keys, and is over if there are none.
ListForTurn(a, keys) ==
  /\ acquirer[a].step \in {"idle", "retry"}
  /\ IF keys = {} THEN Moves(a, NoTurn)
     ELSE \E reading \in Readings(keys) :
            Moves(a, [acquirer[a] EXCEPT !.step = "listed", !.reading = reading])
  /\ UNCHANGED <<strategy, recency, lead, position, watched, passed>>

\* ProviderKeySettings, a statement of its own.
ReadStrategy(a) ==
  /\ acquirer[a].step = "listed"
  /\ Moves(a, [acquirer[a] EXCEPT !.step = "ready", !.strategy = strategy])
  /\ UNCHANGED <<strategy, recency, lead, position, watched, passed>>

\* A statement fails or the time of the request is over.
GiveUp(a) ==
  /\ acquirer[a].step \in {"listed", "ready", "retry"}
  /\ Moves(a, NoTurn)
  /\ UNCHANGED <<strategy, recency, lead, position, watched, passed>>

\* Nothing stands between the watched key and its turn: every key is listed and
\* can be used, keys take turns, and by least_used it is the key's turn.
InTurn(r, usable) ==
  /\ ToSet(r.reading.listed) = PoolKeys /\ usable = PoolKeys
  /\ r.strategy \in {"round_robin", "least_used"}
  /\ r.strategy = "least_used" => lead[watched] = 0

\* The locked part of Acquire hands out a key.
TakeKey(a, usable) ==
  LET r == acquirer[a]
      start == StartIndex(r.strategy)
  IN /\ r.step = "ready"
     /\ usable # {} /\ usable \subseteq ToSet(r.reading.listed)
     /\ \E order \in OrdersOf(r.reading, r.strategy) :
          LET index == Chosen(order, start, usable)
              k == order[index + 1]
          IN /\ Moves(a, [r EXCEPT !.step = "calling", !.reading = NoReading,
                                   !.strategy = "", !.key = k, !.calls = @ + 1])
             /\ position' = PositionAfterTake(r.strategy, index, Len(order))
             /\ passed' = IF k # watched /\ InTurn(r, usable) THEN passed + 1 ELSE 0
     /\ UNCHANGED <<strategy, recency, lead, watched>>

\* It refuses: the provider is busy, or no listed key can be used.
RefuseKeys(a) ==
  /\ acquirer[a].step = "ready"
  /\ position' \in {position, PositionAfterOrder(acquirer[a].strategy)}
  /\ Moves(a, NoTurn)
  /\ UNCHANGED <<strategy, recency, lead, watched, passed>>

\* The totals, when one of k has gone up; of a lead at the bound it is not known
\* whether it is still there when the lowest has gone up.
LeadsAfter(k) ==
  IF \E j \in PoolKeys \ {k} : lead[j] = 0
    THEN {[lead EXCEPT ![k] = IF @ < MaxLead THEN @ + 1 ELSE MaxLead]}
    ELSE {[j \in PoolKeys |-> IF j \in kept \cup {k} THEN lead[j] ELSE lead[j] - 1] :
            kept \in SUBSET {j \in PoolKeys : lead[j] = MaxLead}}

\* The call is over, its result recorded and the key now the last one used.
\* After a failure of some kinds the request goes on with a retry.
RecordUse(a, again) ==
  LET r == acquirer[a]
  IN /\ r.step = "calling"
     /\ recency' = Append(Remove(recency, r.key), r.key)
     /\ lead' \in LeadsAfter(r.key)
     /\ again => r.calls < MaxCalls
     /\ Moves(a, IF again THEN [r EXCEPT !.step = "retry", !.key = NoKey, !.failed = r.key]
                          ELSE NoTurn)
     /\ UNCHANGED <<strategy, position, watched, passed>>

\* The request's time is over with the call: RecordKeyResult, which runs under
\* the same context, fails.  By least_used the key now has the turn of another.
LoseUse(a) ==
  /\ acquirer[a].step = "calling"
  /\ Moves(a, NoTurn)
  /\ passed' = IF strategy = "least_used" THEN 0 ELSE passed
  /\ UNCHANGED <<strategy, recency, lead, position, watched>>

\* The administrator saves the provider's settings.
SetStrategy(s) ==
  /\ s # strategy
  /\ strategy' = s
  /\ passed' = 0
  /\ UNCHANGED <<recency, lead, position, acquirer, watched>>

\* The process starts anew.
ResetManager ==
  /\ position' = 0
  /\ acquirer' = [a \in Acquirers |-> NoTurn]
  /\ passed' = 0
  /\ UNCHANGED <<strategy, recency, lead, watched>>

RotationNext ==
  \/ \E a \in Acquirers :
       \/ \E keys \in SUBSET PoolKeys : ListForTurn(a, keys) \/ TakeKey(a, keys)
       \/ ReadStrategy(a) \/ GiveUp(a) \/ RefuseKeys(a) \/ LoseUse(a)
       \/ \E again \in BOOLEAN : RecordUse(a, again)
  \/ \E s \in Strategies : SetStrategy(s)
  \/ ResetManager

RotationSpec == RotationInit /\ [][RotationNext]_rotationVars

-----------------------------------------------------------------------------
(* Properties. *)

\* A key that is listed and can be used is passed over by no more than Patience
\* calls before it has its turn again, although every call begins where the last
\* one to come took its key, in a list that is sorted anew after every result and
\* may be older than that (Acquire, orderKeys, startIndex).
TurnComes == passed <= Patience

\* A retry is a retry with another key, if there is another that could be used
\* (orchestrator_test.go: "timeout should retry with next key").
RetryUsesOtherKey ==
  [][\A a \in Acquirers, usable \in SUBSET PoolKeys :
       TakeKey(a, usable) /\ usable \ {acquirer[a].failed} # {}
         => acquirer'[a].key # acquirer[a].failed]_rotationVars
=============================================================================
