--------------------------- MODULE KeyStatusProofs ---------------------------
(***************************************************************************)
(* Proofs about KeyStatus, for every number of keys, calls, tests and      *)
(* refreshes and every cooldown: results recorded late and in any order    *)
(* neither bring a key back nor cut its cooldown short, and a quota is     *)
(* refreshed by one goroutine at a time.                                   *)
(*                                                                         *)
(* The invariant has a part for each group of variables.  The database is  *)
(* disturbed only by results, quotas, the administrator and time; the      *)
(* callers and the refreshes never read each other's state.                *)
(***************************************************************************)
EXTENDS KeyStatus, TLAPS

\* While a cooldown that was recorded lasts, the key is cooling for at least as
\* long, or something worse happened to it.
Cooled ==
  \A k \in Keys : rest[k] > 0 =>
    \/ status[k] \in Out
    \/ status[k] = "cooling" /\ cooldown[k] # Null /\ cooldown[k] >= rest[k]

DatabaseInv == DatabaseTypeOK /\ Cooled
RefreshersInv == RefreshersTypeOK /\ OneRefresh
Inv == DatabaseInv /\ CallersTypeOK /\ RefreshersInv

-----------------------------------------------------------------------------
(* Times. *)

\* Null is no time.
LEMMA NullIsNoTime == Null \notin 0..CoolingTime /\ Null \notin Keys
BY NullAssumption, CoolingAssumption

\* The later of two times is neither less than the one nor than the other.
LEMMA LaterFacts ==
  ASSUME NEW a \in 0..CoolingTime \cup {Null}, NEW b \in 0..CoolingTime
  PROVE  /\ Later(a, b) \in 0..CoolingTime
         /\ Later(a, b) >= b
         /\ a # Null => Later(a, b) >= a
         /\ Later(a, b) \in {a, b}
BY NullIsNoTime, CoolingAssumption DEF Later

\* A tick shortens a time that is left by one.
LEMMA SoonerFacts ==
  ASSUME NEW t \in 0..CoolingTime \cup {Null}
  PROVE  /\ Sooner(t) \in 0..CoolingTime \cup {Null}
         /\ Sooner(t) = Null <=> t = Null
         /\ t # Null => Sooner(t) = IF t = 0 THEN 0 ELSE t - 1
BY NullIsNoTime, CoolingAssumption DEF Sooner

-----------------------------------------------------------------------------
(* The database. *)

\* A quota that is saved exhausts the key or leaves it alone.
LEMMA QuotaKeepsDatabase ==
  ASSUME DatabaseInv, NEW k \in Keys, SaveOfficialQuota(k)
  PROVE  DatabaseInv'
<1>1. DatabaseTypeOK'
  BY DEF DatabaseInv, DatabaseTypeOK, SaveOfficialQuota, Statuses
<1>2. Cooled'
  BY DEF DatabaseInv, DatabaseTypeOK, Cooled, SaveOfficialQuota, Out, Statuses
<1>3. QED
  BY <1>1, <1>2 DEF DatabaseInv

\* A result that is recorded keeps the columns typed, and a rate limit it
\* records, like any recorded before, is heeded.
LEMMA ResultKeepsDatabase ==
  ASSUME DatabaseInv, CallersTypeOK, NEW c \in Calls \cup Tests, RecordResult(c)
  PROVE  DatabaseInv'
<1> DEFINE k == call[c].key
           asked == call[c].status
           until == call[c].until
<1>1. /\ k \in Keys
      /\ asked \in Asked
      /\ until \in 0..CoolingTime \cup {Null}
      /\ asked = "cooling" <=> until # Null
  BY DEF CallersTypeOK, RecordResult
<1>2. /\ status' = [status EXCEPT ![k] = StatusAfter(k, asked)]
      /\ cooldown' = [cooldown EXCEPT ![k] = CooldownAfter(k, asked, until)]
      /\ rest' = [rest EXCEPT ![k] = IF asked = "cooling" THEN Later(@, until) ELSE @]
  BY DEF RecordResult
<1>3. /\ status[k] \in Statuses
      /\ cooldown[k] \in 0..CoolingTime \cup {Null}
      /\ rest[k] \in 0..CoolingTime
  BY <1>1 DEF DatabaseInv, DatabaseTypeOK
<1>4. asked = "cooling" =>
        /\ until \in 0..CoolingTime
        /\ Later(cooldown[k], until) \in 0..CoolingTime
        /\ Later(cooldown[k], until) >= until
        /\ cooldown[k] # Null => Later(cooldown[k], until) >= cooldown[k]
        /\ Later(rest[k], until) \in 0..CoolingTime
        /\ Later(rest[k], until) \in {rest[k], until}
  BY <1>1, <1>3, LaterFacts
<1>5. DatabaseTypeOK'
  <2>1. StatusAfter(k, asked) \in Statuses
    BY <1>1, <1>3 DEF StatusAfter, Statuses, Asked
  <2>2. CooldownAfter(k, asked, until) \in 0..CoolingTime \cup {Null}
    BY <1>1, <1>3, <1>4 DEF CooldownAfter
  <2>3. (IF asked = "cooling" THEN Later(rest[k], until) ELSE rest[k]) \in 0..CoolingTime
    BY <1>3, <1>4
  <2>4. QED
    BY <1>2, <2>1, <2>2, <2>3 DEF DatabaseInv, DatabaseTypeOK
<1>6. Cooled'
  <2> SUFFICES ASSUME NEW l \in Keys, rest'[l] > 0
               PROVE  \/ status'[l] \in Out
                      \/ /\ status'[l] = "cooling"
                         /\ cooldown'[l] # Null
                         /\ cooldown'[l] >= rest'[l]
    BY DEF Cooled
  <2>1. CASE l # k
    BY <1>1, <1>2, <2>1 DEF DatabaseInv, DatabaseTypeOK, Cooled
  <2>2. CASE l = k
    <3>1. /\ status'[l] = StatusAfter(k, asked)
          /\ cooldown'[l] = CooldownAfter(k, asked, until)
          /\ rest'[l] = IF asked = "cooling" THEN Later(rest[k], until) ELSE rest[k]
      BY <1>1, <1>2, <2>2 DEF DatabaseInv, DatabaseTypeOK
    <3>2. rest[k] > 0 =>
            \/ status[k] \in Out
            \/ status[k] = "cooling" /\ cooldown[k] # Null /\ cooldown[k] >= rest[k]
      BY <1>1 DEF DatabaseInv, Cooled
    <3>3. CASE status[k] \in Out
      BY <3>1, <3>3 DEF StatusAfter, Out
    <3>4. CASE asked \in Out
      BY <3>1, <3>4 DEF StatusAfter, Out
    <3>5. CASE status[k] \notin Out /\ asked = "cooling"
      <4>1. /\ status'[l] = "cooling"
            /\ cooldown'[l] = Later(cooldown[k], until)
            /\ rest'[l] = Later(rest[k], until)
        BY <3>1, <3>5 DEF StatusAfter, CooldownAfter, Out
      <4>2. QED
        BY <1>3, <1>4, <3>2, <3>5, <4>1, NullIsNoTime, CoolingAssumption
    <3>6. CASE status[k] \notin Out /\ asked = "enabled"
      <4>1. /\ rest'[l] = rest[k]
            /\ status[k] = "cooling" /\ cooldown[k] # Null /\ cooldown[k] >= rest[k]
        BY <3>1, <3>2, <3>6
      <4>2. cooldown[k] # 0
        BY <1>3, <4>1, NullIsNoTime, CoolingAssumption
      <4>3. Resting(k)
        BY <4>1, <4>2 DEF Resting
      <4>4. status'[l] = "cooling" /\ cooldown'[l] = cooldown[k]
        BY <3>1, <3>6, <4>3 DEF StatusAfter, CooldownAfter, Out
      <4>5. QED
        BY <4>1, <4>4
    <3>7. QED
      BY <1>1, <3>3, <3>4, <3>5, <3>6 DEF Asked, Out
  <2>3. QED
    BY <2>1, <2>2
<1>7. QED
  BY <1>5, <1>6 DEF DatabaseInv

\* Time shortens every cooldown and what is left of it alike.
LEMMA TickKeepsDatabase ==
  ASSUME DatabaseInv, Tick
  PROVE  DatabaseInv'
<1>1. ASSUME NEW k \in Keys
      PROVE  /\ status'[k] = status[k]
             /\ cooldown'[k] = Sooner(cooldown[k])
             /\ rest'[k] = Sooner(rest[k])
             /\ cooldown[k] \in 0..CoolingTime \cup {Null}
             /\ rest[k] \in 0..CoolingTime
             /\ Sooner(cooldown[k]) \in 0..CoolingTime \cup {Null}
             /\ Sooner(cooldown[k]) = Null <=> cooldown[k] = Null
             /\ cooldown[k] # Null =>
                  Sooner(cooldown[k]) = IF cooldown[k] = 0 THEN 0 ELSE cooldown[k] - 1
             /\ Sooner(rest[k]) = IF rest[k] = 0 THEN 0 ELSE rest[k] - 1
  BY SoonerFacts, NullIsNoTime DEF DatabaseInv, DatabaseTypeOK, Tick
<1>2. DatabaseTypeOK'
  <2>1. \A k \in Keys : Sooner(rest[k]) \in 0..CoolingTime
    BY <1>1, CoolingAssumption
  <2>2. QED
    BY <1>1, <2>1 DEF DatabaseInv, DatabaseTypeOK, Tick
<1>3. Cooled'
  <2> SUFFICES ASSUME NEW k \in Keys, rest'[k] > 0
               PROVE  \/ status'[k] \in Out
                      \/ /\ status'[k] = "cooling"
                         /\ cooldown'[k] # Null
                         /\ cooldown'[k] >= rest'[k]
    BY DEF Cooled
  <2>1. rest[k] > 0 /\ rest'[k] = rest[k] - 1
    BY <1>1, CoolingAssumption
  <2>2. CASE status[k] \in Out
    BY <1>1, <2>2
  <2>3. CASE status[k] = "cooling" /\ cooldown[k] # Null /\ cooldown[k] >= rest[k]
    BY <1>1, <2>1, <2>3, CoolingAssumption, NullIsNoTime
  <2>4. QED
    BY <2>1, <2>2, <2>3 DEF DatabaseInv, Cooled
<1>4. QED
  BY <1>2, <1>3 DEF DatabaseInv

\* Every step keeps the columns typed and every cooldown heeded.
LEMMA NextKeepsDatabase ==
  ASSUME Inv, [Next]_vars
  PROVE  DatabaseInv'
<1> USE DEF Inv
<1>1. CASE UNCHANGED database
  BY <1>1 DEF database, DatabaseInv, DatabaseTypeOK, Cooled
<1>2. ASSUME NEW k \in Keys, SaveOfficialQuota(k)
      PROVE  DatabaseInv'
  BY <1>2, QuotaKeepsDatabase
<1>3. CASE UNCHANGED vars
  BY <1>1, <1>3 DEF vars
<1>4. ASSUME NEW c \in Calls \cup Tests, NEW k \in Keys, StartCall(c, k)
      PROVE  DatabaseInv'
  BY <1>1, <1>4 DEF StartCall
<1>5. ASSUME NEW c \in Calls \cup Tests, NEW asked \in Asked, EndCall(c, asked)
      PROVE  DatabaseInv'
  BY <1>1, <1>5 DEF EndCall
<1>6. ASSUME NEW c \in Calls \cup Tests, RecordResult(c)
      PROVE  DatabaseInv'
  BY <1>6, ResultKeepsDatabase
<1>7. ASSUME NEW c \in Calls \cup Tests, LoseResult(c)
      PROVE  DatabaseInv'
  BY <1>1, <1>7 DEF LoseResult
<1>8. ASSUME NEW c \in Calls \cup Tests, ReportQuota(c)
      PROVE  DatabaseInv'
  <2>1. call[c].key \in Keys
    BY <1>8 DEF ReportQuota, CallersTypeOK
  <2>2. SaveOfficialQuota(call[c].key) \/ UNCHANGED database
    BY <1>8 DEF ReportQuota
  <2>3. QED
    BY <1>1, <1>2, <2>1, <2>2
<1>9. ASSUME NEW c \in Calls \cup Tests, NEW j \in Refreshes, RefreshQuota(c, j)
      PROVE  DatabaseInv'
  BY <1>1, <1>9 DEF RefreshQuota
<1>10. ASSUME NEW c \in Calls \cup Tests, SkipRefresh(c)
       PROVE  DatabaseInv'
  BY <1>1, <1>10 DEF SkipRefresh
<1>11. ASSUME NEW j \in Refreshes, SaveRefreshed(j)
       PROVE  DatabaseInv'
  <2>1. jobs[j] \in Keys
    BY <1>11 DEF SaveRefreshed, RefreshersInv, RefreshersTypeOK
  <2>2. QED
    BY <1>2, <1>11, <2>1 DEF SaveRefreshed
<1>12. ASSUME NEW j \in Refreshes, EndRefresh(j)
       PROVE  DatabaseInv'
  BY <1>1, <1>12 DEF EndRefresh
<1>13. ASSUME NEW k \in Keys, NEW s \in Statuses, SetStatus(k, s)
       PROVE  DatabaseInv'
  BY <1>13, CoolingAssumption
  DEF DatabaseInv, DatabaseTypeOK, Cooled, SetStatus
<1>14. ASSUME NEW k \in Keys, QueryQuota(k)
       PROVE  DatabaseInv'
  BY <1>2, <1>14 DEF QueryQuota
<1>15. ASSUME NEW k \in Keys, IntervalPasses(k)
       PROVE  DatabaseInv'
  BY <1>1, <1>15 DEF IntervalPasses
<1>16. CASE Tick
  BY <1>16, TickKeepsDatabase
<1>17. CASE Restart
  BY <1>1, <1>17 DEF Restart
<1>18. QED
  BY <1>3, <1>4, <1>5, <1>6, <1>7, <1>8, <1>9, <1>10, <1>11, <1>12, <1>13,
     <1>14, <1>15, <1>16, <1>17 DEF Next

-----------------------------------------------------------------------------
(* The callers. *)

\* Every step leaves each call that is under way a key, and each result that
\* waits to be recorded a time if it is a rate limit.
LEMMA NextKeepsCallers ==
  ASSUME Inv, [Next]_vars
  PROVE  CallersTypeOK'
<1> USE DEF Inv
<1>1. CASE UNCHANGED callers
  BY <1>1 DEF callers, CallersTypeOK
<1>2. /\ Idle \in [key : Keys \cup {Null}, status : Asked, until : 0..CoolingTime \cup {Null}]
      /\ \A k \in Keys : [Idle EXCEPT !.key = k] \in
           [key : Keys \cup {Null}, status : Asked, until : 0..CoolingTime \cup {Null}]
      /\ \A k \in Keys : [Idle EXCEPT !.key = k].key = k
  BY DEF Idle, Asked
<1>3. CASE UNCHANGED vars
  BY <1>1, <1>3 DEF vars
<1>4. ASSUME NEW c \in Calls \cup Tests, NEW k \in Keys, StartCall(c, k)
      PROVE  CallersTypeOK'
  BY <1>2, <1>4 DEF StartCall, CallersTypeOK
<1>5. ASSUME NEW c \in Calls \cup Tests, NEW asked \in Asked, EndCall(c, asked)
      PROVE  CallersTypeOK'
  <2> DEFINE u == IF asked = "cooling" THEN CoolingTime ELSE Null
             r == [call[c] EXCEPT !.status = asked, !.until = u]
  <2>1. u \in 0..CoolingTime \cup {Null} /\ (asked = "cooling" <=> u # Null)
    BY CoolingAssumption, NullIsNoTime
  <2>2. /\ pc[c] = "calling"
        /\ pc' = [pc EXCEPT ![c] = "recording"]
        /\ call' = [call EXCEPT ![c] = r]
    BY <1>5 DEF EndCall, CallersTypeOK
  <2>3. /\ r \in [key : Keys \cup {Null}, status : Asked, until : 0..CoolingTime \cup {Null}]
        /\ r.key = call[c].key
        /\ r.status = asked
        /\ r.until = u
    BY <2>1 DEF CallersTypeOK
  <2>4. QED
    BY <2>1, <2>2, <2>3 DEF CallersTypeOK
<1>6. ASSUME NEW c \in Calls \cup Tests, RecordResult(c)
      PROVE  CallersTypeOK'
  BY <1>6 DEF RecordResult, CallersTypeOK
<1>7. ASSUME NEW c \in Calls \cup Tests, LoseResult(c)
      PROVE  CallersTypeOK'
  BY <1>7 DEF LoseResult, CallersTypeOK
<1>8. ASSUME NEW c \in Calls \cup Tests, ReportQuota(c)
      PROVE  CallersTypeOK'
  <2>1. CASE c \in Calls
    <3>1. /\ pc[c] = "reporting"
          /\ pc' = [pc EXCEPT ![c] = "refreshing"]
          /\ call' = [call EXCEPT ![c] = call[c]]
      BY <1>8, <2>1 DEF ReportQuota
    <3>2. QED
      BY <3>1 DEF CallersTypeOK
  <2>2. CASE c \notin Calls
    <3>1. pc' = [pc EXCEPT ![c] = "idle"] /\ call' = [call EXCEPT ![c] = Idle]
      BY <1>8, <2>2 DEF ReportQuota
    <3>2. QED
      BY <1>2, <3>1 DEF CallersTypeOK
  <2>3. QED
    BY <2>1, <2>2
<1>9. ASSUME NEW c \in Calls \cup Tests, NEW j \in Refreshes, RefreshQuota(c, j)
      PROVE  CallersTypeOK'
  BY <1>2, <1>9 DEF RefreshQuota, CallersTypeOK
<1>10. ASSUME NEW c \in Calls \cup Tests, SkipRefresh(c)
       PROVE  CallersTypeOK'
  BY <1>2, <1>10 DEF SkipRefresh, CallersTypeOK
<1>11. ASSUME NEW j \in Refreshes, SaveRefreshed(j) \/ EndRefresh(j)
       PROVE  CallersTypeOK'
  BY <1>1, <1>11 DEF SaveRefreshed, EndRefresh
<1>12. ASSUME NEW k \in Keys,
              \/ \E s \in Statuses : SetStatus(k, s)
              \/ QueryQuota(k)
              \/ IntervalPasses(k)
       PROVE  CallersTypeOK'
  BY <1>1, <1>12 DEF SetStatus, QueryQuota, IntervalPasses
<1>13. CASE Tick
  <2>1. ASSUME NEW c \in Calls \cup Tests
        PROVE  /\ call'[c] \in [key : Keys \cup {Null}, status : Asked,
                                until : 0..CoolingTime \cup {Null}]
               /\ call'[c].key = call[c].key
               /\ call'[c].status = call[c].status
               /\ call'[c].until = Null <=> call[c].until = Null
    <3>1. call'[c] = [call[c] EXCEPT !.until = Sooner(call[c].until)]
      BY <1>13 DEF Tick
    <3>2. call[c] \in [key : Keys \cup {Null}, status : Asked,
                       until : 0..CoolingTime \cup {Null}]
      BY DEF CallersTypeOK
    <3>3. /\ Sooner(call[c].until) \in 0..CoolingTime \cup {Null}
          /\ Sooner(call[c].until) = Null <=> call[c].until = Null
      BY <3>2, SoonerFacts
    <3>4. QED
      BY <3>1, <3>2, <3>3
  <2>2. call' \in [Calls \cup Tests ->
                     [key : Keys \cup {Null}, status : Asked,
                      until : 0..CoolingTime \cup {Null}]]
    BY <1>13, <2>1 DEF Tick
  <2>3. pc' = pc
    BY <1>13 DEF Tick
  <2>4. QED
    BY <2>1, <2>2, <2>3 DEF CallersTypeOK
<1>14. CASE Restart
  BY <1>2, <1>14 DEF Restart, CallersTypeOK
<1>15. QED
  BY <1>3, <1>4, <1>5, <1>6, <1>7, <1>8, <1>9, <1>10, <1>11, <1>12, <1>13,
     <1>14 DEF Next

-----------------------------------------------------------------------------
(* The refreshes. *)

\* A refresh is claimed only for a key of which none is in flight.
LEMMA ClaimKeepsRefreshers ==
  ASSUME Inv, NEW c \in Calls \cup Tests, NEW j \in Refreshes, RefreshQuota(c, j)
  PROVE  RefreshersInv'
<1> DEFINE k == call[c].key
           r == [refresh[k] EXCEPT !.inFlight = TRUE, !.started = TRUE]
<1> USE DEF Inv, RefreshersInv, RefreshersTypeOK
<1>1. k \in Keys
  BY DEF RefreshQuota, CallersTypeOK
<1>2. /\ ~refresh[k].inFlight
      /\ jobs[j] = Null
      /\ refresh' = [refresh EXCEPT ![k] = r]
      /\ jobs' = [jobs EXCEPT ![j] = k]
      /\ saved' = saved
  BY <1>1 DEF RefreshQuota, RefreshDue
<1>3. /\ r \in [inFlight : BOOLEAN, started : BOOLEAN, finished : BOOLEAN]
      /\ r.inFlight = TRUE
  <2>1. refresh[k] \in [inFlight : BOOLEAN, started : BOOLEAN, finished : BOOLEAN]
    BY <1>1
  <2>2. QED
    BY <2>1
<1>4. \A i \in Refreshes : jobs[i] # k
  BY <1>1, <1>2
<1>5. refresh' \in [Keys -> [inFlight : BOOLEAN, started : BOOLEAN, finished : BOOLEAN]]
  BY <1>1, <1>2, <1>3
<1>6. jobs' \in [Refreshes -> Keys \cup {Null}]
  BY <1>1, <1>2
<1>7. saved' \subseteq {i \in Refreshes : jobs'[i] # Null}
  BY <1>1, <1>2, NullIsNoTime
<1>8. ASSUME NEW l \in Keys
      PROVE  refresh'[l].inFlight <=> \E i \in Refreshes : jobs'[i] = l
  <2>1. CASE l = k
    BY <1>1, <1>2, <1>3, <2>1
  <2>2. CASE l # k
    BY <1>1, <1>2, <2>2, NullIsNoTime
  <2>3. QED
    BY <2>1, <2>2
<1>9. OneRefresh'
  BY <1>1, <1>2, <1>4 DEF OneRefresh
<1>10. QED
  BY <1>5, <1>6, <1>7, <1>8, <1>9

\* The end of a refresh leaves none in flight of its key.
LEMMA EndKeepsRefreshers ==
  ASSUME Inv, NEW j \in Refreshes, EndRefresh(j)
  PROVE  RefreshersInv'
<1> DEFINE k == jobs[j]
           r == [refresh[k] EXCEPT !.inFlight = FALSE, !.finished = TRUE]
<1> USE DEF Inv, RefreshersInv, RefreshersTypeOK
<1>1. k \in Keys
  BY DEF EndRefresh
<1>2. /\ refresh' = [refresh EXCEPT ![k] = r]
      /\ jobs' = [jobs EXCEPT ![j] = Null]
      /\ saved' = saved \ {j}
  BY <1>1 DEF EndRefresh
<1>3. /\ r \in [inFlight : BOOLEAN, started : BOOLEAN, finished : BOOLEAN]
      /\ r.inFlight = FALSE
  <2>1. refresh[k] \in [inFlight : BOOLEAN, started : BOOLEAN, finished : BOOLEAN]
    BY <1>1
  <2>2. QED
    BY <2>1
<1>4. \A i \in Refreshes : i # j => jobs[i] # k
  BY <1>1, NullIsNoTime DEF OneRefresh
<1>5. refresh' \in [Keys -> [inFlight : BOOLEAN, started : BOOLEAN, finished : BOOLEAN]]
  BY <1>1, <1>2, <1>3
<1>6. jobs' \in [Refreshes -> Keys \cup {Null}]
  BY <1>2
<1>7. saved' \subseteq {i \in Refreshes : jobs'[i] # Null}
  BY <1>2
<1>8. ASSUME NEW l \in Keys
      PROVE  refresh'[l].inFlight <=> \E i \in Refreshes : jobs'[i] = l
  <2>1. CASE l = k
    BY <1>1, <1>2, <1>3, <1>4, <2>1, NullIsNoTime
  <2>2. CASE l # k
    BY <1>1, <1>2, <2>2, NullIsNoTime
  <2>3. QED
    BY <2>1, <2>2
<1>9. OneRefresh'
  BY <1>2 DEF OneRefresh
<1>10. QED
  BY <1>5, <1>6, <1>7, <1>8, <1>9

\* Every step keeps the refreshes of a key apart.
LEMMA NextKeepsRefreshers ==
  ASSUME Inv, [Next]_vars
  PROVE  RefreshersInv'
<1> USE DEF Inv
<1>1. CASE UNCHANGED refreshers
  BY <1>1 DEF refreshers, RefreshersInv, RefreshersTypeOK, OneRefresh
<1>2. CASE UNCHANGED vars
  BY <1>1, <1>2 DEF vars
<1>3. ASSUME NEW c \in Calls \cup Tests, NEW j \in Refreshes, RefreshQuota(c, j)
      PROVE  RefreshersInv'
  BY <1>3, ClaimKeepsRefreshers
<1>4. ASSUME NEW j \in Refreshes, SaveRefreshed(j)
      PROVE  RefreshersInv'
  BY <1>4 DEF SaveRefreshed, RefreshersInv, RefreshersTypeOK, OneRefresh
<1>5. ASSUME NEW j \in Refreshes, EndRefresh(j)
      PROVE  RefreshersInv'
  BY <1>5, EndKeepsRefreshers
<1>6. ASSUME NEW k \in Keys, IntervalPasses(k)
      PROVE  RefreshersInv'
  <2>1. /\ refresh' \in [Keys -> [inFlight : BOOLEAN, started : BOOLEAN, finished : BOOLEAN]]
        /\ \A l \in Keys : refresh'[l].inFlight = refresh[l].inFlight
    <3>1. refresh \in [Keys -> [inFlight : BOOLEAN, started : BOOLEAN, finished : BOOLEAN]]
      BY DEF RefreshersInv, RefreshersTypeOK
    <3>2. refresh[k] \in [inFlight : BOOLEAN, started : BOOLEAN, finished : BOOLEAN]
      BY <3>1
    <3> DEFINE a == [refresh[k] EXCEPT !.started = FALSE]
               b == [refresh[k] EXCEPT !.started = FALSE, !.finished = FALSE]
    <3>3. /\ a \in [inFlight : BOOLEAN, started : BOOLEAN, finished : BOOLEAN]
          /\ a.inFlight = refresh[k].inFlight
          /\ b \in [inFlight : BOOLEAN, started : BOOLEAN, finished : BOOLEAN]
          /\ b.inFlight = refresh[k].inFlight
      BY <3>2
    <3>4. refresh' = [refresh EXCEPT ![k] = a] \/ refresh' = [refresh EXCEPT ![k] = b]
      BY <1>6, <3>1 DEF IntervalPasses
    <3> HIDE DEF a, b
    <3>5. QED
      BY <3>1, <3>3, <3>4
  <2>2. jobs' = jobs /\ saved' = saved
    BY <1>6 DEF IntervalPasses
  <2>3. QED
    BY <2>1, <2>2 DEF RefreshersInv, RefreshersTypeOK, OneRefresh
<1>7. CASE Restart
  BY <1>7, NullIsNoTime DEF Restart, Fresh, RefreshersInv, RefreshersTypeOK, OneRefresh
<1>8. ASSUME NEW c \in Calls \cup Tests,
             \/ \E k \in Keys : StartCall(c, k)
             \/ \E asked \in Asked : EndCall(c, asked)
             \/ RecordResult(c)
             \/ LoseResult(c)
             \/ ReportQuota(c)
             \/ SkipRefresh(c)
      PROVE  RefreshersInv'
  BY <1>1, <1>8
  DEF StartCall, EndCall, RecordResult, LoseResult, ReportQuota, SkipRefresh
<1>9. ASSUME NEW k \in Keys,
             (\E s \in Statuses : SetStatus(k, s)) \/ QueryQuota(k)
      PROVE  RefreshersInv'
  BY <1>1, <1>9 DEF SetStatus, QueryQuota
<1>10. CASE Tick
  BY <1>1, <1>10 DEF Tick
<1>11. QED
  BY <1>2, <1>3, <1>4, <1>5, <1>6, <1>7, <1>8, <1>9, <1>10 DEF Next

-----------------------------------------------------------------------------
(* The theorems. *)

\* The initial state has the invariant and every step keeps it, so that it holds
\* whatever the calls, the quotas and the administrator do.
THEOREM InvCorrect == Spec => []Inv
<1>1. Init => Inv
  <2> SUFFICES ASSUME Init PROVE Inv
    OBVIOUS
  <2>1. DatabaseInv
    BY CoolingAssumption DEF Init, DatabaseInv, DatabaseTypeOK, Cooled, Statuses
  <2>2. CallersTypeOK
    BY DEF Init, Idle, Asked, CallersTypeOK
  <2>3. RefreshersInv
    BY NullIsNoTime DEF Init, Fresh, RefreshersInv, RefreshersTypeOK, OneRefresh
  <2>4. QED
    BY <2>1, <2>2, <2>3 DEF Inv
<1>2. Inv /\ [Next]_vars => Inv'
  BY NextKeepsDatabase, NextKeepsCallers, NextKeepsRefreshers DEF Inv
<1>3. QED
  BY <1>1, <1>2, PTL DEF Spec

\* Every variable has its type, and a refresh is said to be in flight when one is.
THEOREM TypeCorrect == Spec => []TypeOK
<1>1. Inv => TypeOK
  BY DEF Inv, DatabaseInv, RefreshersInv, TypeOK
<1>2. QED
  BY <1>1, InvCorrect, PTL

\* A rate limit is heeded for its full time, whatever results are recorded after
\* it and in whatever order: until then the key is not listed, unless an
\* administrator sets its status.
THEOREM BackoffCorrect == Spec => []BackoffLasts
<1>1. Inv => BackoffLasts
  <2> SUFFICES ASSUME Inv, NEW k \in Keys, rest[k] > 0
               PROVE  ~Listed(k)
    BY DEF BackoffLasts
  <2>1. CASE status[k] \in Out
    BY <2>1 DEF Listed, Out
  <2>2. CASE status[k] = "cooling" /\ cooldown[k] # Null /\ cooldown[k] >= rest[k]
    BY <2>2, NullIsNoTime, CoolingAssumption
    DEF Inv, DatabaseInv, DatabaseTypeOK, Listed
  <2>3. QED
    BY <2>1, <2>2 DEF Inv, DatabaseInv, Cooled
<1>2. QED
  BY <1>1, InvCorrect, PTL

\* The official quota of a key is refreshed by one goroutine at a time.
THEOREM OneRefreshCorrect == Spec => []OneRefresh
<1>1. Inv => OneRefresh
  BY DEF Inv, RefreshersInv
<1>2. QED
  BY <1>1, InvCorrect, PTL

-----------------------------------------------------------------------------
(* No key comes back. *)

\* What a key that is not listed is.
LEMMA UnlistedFacts ==
  ASSUME DatabaseTypeOK, NEW k \in Keys
  PROVE  ~Listed(k) <=> (status[k] \in Out \/ Resting(k))
BY DEF DatabaseTypeOK, Statuses, Out, Listed, Resting

\* A result leaves a key out that is out, and a cooldown that lasts as long as
\* it was or longer.
LEMMA ResultBringsNothingBack ==
  ASSUME Inv, NEW c \in Calls \cup Tests, RecordResult(c), NEW l \in Keys, ~Listed(l)
  PROVE  ~Listed(l)'
<1> DEFINE k == call[c].key
           asked == call[c].status
           until == call[c].until
<1>1. /\ k \in Keys
      /\ asked \in Asked
      /\ until \in 0..CoolingTime \cup {Null}
      /\ asked = "cooling" <=> until # Null
  BY DEF Inv, CallersTypeOK, RecordResult
<1>2. /\ status' = [status EXCEPT ![k] = StatusAfter(k, asked)]
      /\ cooldown' = [cooldown EXCEPT ![k] = CooldownAfter(k, asked, until)]
  BY DEF RecordResult
<1>3. /\ status \in [Keys -> Statuses]
      /\ cooldown \in [Keys -> 0..CoolingTime \cup {Null}]
  BY DEF Inv, DatabaseInv, DatabaseTypeOK
<1>4. status[l] \in Out \/ Resting(l)
  BY UnlistedFacts DEF Inv, DatabaseInv
<1>5. CASE l # k
  BY <1>2, <1>3, <1>5 DEF Listed
<1>6. CASE l = k
  <2>1. /\ status'[l] = StatusAfter(l, asked)
        /\ cooldown'[l] = CooldownAfter(l, asked, until)
    BY <1>1, <1>2, <1>3, <1>6
  <2>2. CASE status[l] \in Out \/ asked \in Out
    BY <2>1, <2>2 DEF StatusAfter, Out, Listed
  <2>3. CASE Resting(l) /\ status[l] \notin Out /\ asked = "enabled"
    BY <2>1, <2>3 DEF StatusAfter, CooldownAfter, Out, Listed, Resting
  <2>4. CASE Resting(l) /\ status[l] \notin Out /\ asked = "cooling"
    <3>1. cooldown'[l] = Later(cooldown[l], until)
      BY <2>1, <2>4 DEF CooldownAfter
    <3>2. /\ until \in 0..CoolingTime
          /\ cooldown[l] \in 0..CoolingTime \cup {Null}
          /\ cooldown[l] # Null
          /\ cooldown[l] # 0
      BY <1>1, <1>3, <2>4 DEF Resting
    <3>3. /\ Later(cooldown[l], until) \in 0..CoolingTime
          /\ Later(cooldown[l], until) >= cooldown[l]
      BY <3>2, LaterFacts
    <3>4. cooldown'[l] \notin {Null, 0}
      BY <3>1, <3>2, <3>3, NullIsNoTime, CoolingAssumption
    <3>5. status'[l] = "cooling"
      BY <2>1, <2>4 DEF StatusAfter, Out
    <3>6. QED
      BY <3>4, <3>5 DEF Listed
  <2>5. QED
    BY <1>1, <1>4, <2>2, <2>3, <2>4 DEF Asked, Out
<1>7. QED
  BY <1>5, <1>6

\* Nor does a quota.
LEMMA QuotaBringsNothingBack ==
  ASSUME Inv, NEW k \in Keys, SaveOfficialQuota(k), NEW l \in Keys, ~Listed(l)
  PROVE  ~Listed(l)'
BY DEF Inv, DatabaseInv, DatabaseTypeOK, SaveOfficialQuota, Listed

\* A key that is not listed comes back only by the hand of an administrator or
\* because its cooldown is over: no late success, no late failure and no quota
\* brings back a key that was disabled, exhausted or cooled meanwhile.
THEOREM NoComebackCorrect == Spec => NoComeback
<1>1. ASSUME Inv, [Next]_vars, NEW l \in Keys, ~Listed(l), Listed(l)'
      PROVE  Tick \/ \E s \in Statuses : SetStatus(l, s)
  <2> SUFFICES ASSUME ~Tick, \A s \in Statuses : ~SetStatus(l, s)
               PROVE  FALSE
    OBVIOUS
  <2>1. CASE UNCHANGED database
    BY <1>1, <2>1 DEF database, Listed
  <2>2. ASSUME NEW k \in Keys, SaveOfficialQuota(k)
        PROVE  FALSE
    BY <1>1, <2>2, QuotaBringsNothingBack
  <2>3. ASSUME NEW c \in Calls \cup Tests, RecordResult(c)
        PROVE  FALSE
    BY <1>1, <2>3, ResultBringsNothingBack
  <2>4. ASSUME NEW c \in Calls \cup Tests, ReportQuota(c)
        PROVE  FALSE
    <3>1. call[c].key \in Keys
      BY <1>1, <2>4 DEF Inv, ReportQuota, CallersTypeOK
    <3>2. SaveOfficialQuota(call[c].key) \/ UNCHANGED database
      BY <2>4 DEF ReportQuota
    <3>3. QED
      BY <2>1, <2>2, <3>1, <3>2
  <2>5. ASSUME NEW j \in Refreshes, SaveRefreshed(j)
        PROVE  FALSE
    <3>1. jobs[j] \in Keys
      BY <1>1, <2>5 DEF Inv, SaveRefreshed, RefreshersInv, RefreshersTypeOK
    <3>2. QED
      BY <2>2, <2>5, <3>1 DEF SaveRefreshed
  <2>6. ASSUME NEW k \in Keys, QueryQuota(k)
        PROVE  FALSE
    BY <2>2, <2>6 DEF QueryQuota
  <2>7. ASSUME NEW k \in Keys, NEW s \in Statuses, SetStatus(k, s)
        PROVE  FALSE
    <3>1. k # l
      BY <2>7
    <3>2. status'[l] = status[l] /\ cooldown'[l] = cooldown[l]
      BY <1>1, <2>7, <3>1 DEF Inv, DatabaseInv, DatabaseTypeOK, SetStatus
    <3>3. QED
      BY <1>1, <3>2 DEF Listed
  <2>8. ASSUME NEW c \in Calls \cup Tests,
               \/ \E k \in Keys : StartCall(c, k)
               \/ \E asked \in Asked : EndCall(c, asked)
               \/ LoseResult(c)
               \/ \E j \in Refreshes : RefreshQuota(c, j)
               \/ SkipRefresh(c)
        PROVE  FALSE
    BY <2>1, <2>8 DEF StartCall, EndCall, LoseResult, RefreshQuota, SkipRefresh
  <2>9. ASSUME NEW j \in Refreshes, EndRefresh(j)
        PROVE  FALSE
    BY <2>1, <2>9 DEF EndRefresh
  <2>10. ASSUME NEW k \in Keys, IntervalPasses(k)
         PROVE  FALSE
    BY <2>1, <2>10 DEF IntervalPasses
  <2>11. CASE Restart
    BY <2>1, <2>11 DEF Restart
  <2>12. CASE UNCHANGED vars
    BY <2>1, <2>12 DEF vars
  <2>13. QED
    BY <1>1, <2>3, <2>4, <2>5, <2>6, <2>7, <2>8, <2>9, <2>10, <2>11, <2>12 DEF Next
<1>2. Inv /\ [Next]_vars =>
        [\A k \in Keys :
           (~Listed(k) /\ Listed(k)') => (Tick \/ \E s \in Statuses : SetStatus(k, s))]_vars
  BY <1>1
<1>3. QED
  BY <1>2, InvCorrect, PTL DEF Spec, NoComeback
=============================================================================
