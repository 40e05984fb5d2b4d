------------------------------ MODULE KeyStatus ------------------------------
(***************************************************************************)
(* The status column of the upstream keys of one provider, which decides   *)
(* what ListAvailableProviderKeys lists: the results of calls              *)
(* (Store.RecordKeyResult), official quotas that come with an answer, from *)
(* a background refresh or from an administrator's query                   *)
(* (UpdateProviderKeyOfficialQuota), and the administrator's own changes   *)
(* (UpdateProviderKey).                                                    *)
(*                                                                         *)
(* A result is known when the call ends and recorded later, so results     *)
(* reach the database in any order, long after the key was disabled,       *)
(* exhausted or cooled by another.  Time is relative: a cooldown_until is  *)
(* the number of ticks still to pass, 0 when it lies in the past.          *)
(***************************************************************************)
EXTENDS Integers

CONSTANTS
  Keys,         \* provider_keys of the provider
  Calls,        \* calls of relay requests that run concurrently
  Tests,        \* an administrator's test calls
  Refreshes,    \* goroutines that refresh an official quota
  Null,         \* SQL's NULL, and no key
  CoolingTime,  \* ticks of the 15 minutes of a cooldown
  Exhaustible,  \* whether the provider's official balance can exhaust a key
  AutoRefresh   \* whether the provider's official quota is refreshed

ASSUME NullAssumption == Null \notin Keys \cup Int
ASSUME CallsAssumption == Calls \cap Tests = {}
ASSUME CoolingAssumption == CoolingTime \in Nat \ {0}
ASSUME ProviderAssumption == Exhaustible \in BOOLEAN /\ AutoRefresh \in BOOLEAN

VARIABLES
  status,    \* status of each key
  cooldown,  \* cooldown_until of each key, in ticks from now
  pc,        \* where each call is
  call,      \* its key, and the status and cooldown_until its result asks for
  refresh,   \* Orchestrator.quotaRefreshes: in flight, and whether lastStarted and
             \* lastFinished are less than an interval ago
  jobs,      \* the key of each goroutine that refreshes a quota
  saved,     \* the goroutines that have saved the quota and are about to end
  rest       \* history: ticks left of the longest cooldown recorded for a key
             \* since an administrator last set its status

database == <<status, cooldown, rest>>
callers == <<pc, call>>
refreshers == <<refresh, jobs, saved>>
vars == <<database, callers, refreshers>>

Statuses == {"enabled", "disabled", "cooling", "exhausted"}
Out == {"disabled", "exhausted"}
Later(a, b) == IF a = Null \/ b > a THEN b ELSE a
Sooner(t) == IF t \in {Null, 0} THEN t ELSE t - 1

\* A faulty variant: cooled keys are not listed.
ListedWhenEnabled(k) == status[k] = "enabled"

\* ListAvailableProviderKeys, as far as it depends on the status: enabled keys,
\* and those that have cooled down.
Listed(k) ==
  \/ status[k] = "enabled"
  \/ status[k] = "cooling" /\ cooldown[k] \in {Null, 0}

-----------------------------------------------------------------------------
Idle == [key |-> Null, status |-> "enabled", until |-> Null]
Fresh == [inFlight |-> FALSE, started |-> FALSE, finished |-> FALSE]

Init ==
  /\ status = [k \in Keys |-> "enabled"]
  /\ cooldown = [k \in Keys |-> Null]
  /\ rest = [k \in Keys |-> 0]
  /\ pc = [c \in Calls \cup Tests |-> "idle"]
  /\ call = [c \in Calls \cup Tests |-> Idle]
  /\ refresh = [k \in Keys |-> Fresh]
  /\ jobs = [j \in Refreshes |-> Null]
  /\ saved = {}

\* A call begins with a key that was listed; a test with any key.
StartCall(c, k) ==
  /\ pc[c] = "idle"
  /\ c \in Calls => Listed(k)
  /\ pc' = [pc EXCEPT ![c] = "calling"]
  /\ call' = [call EXCEPT ![c] = [Idle EXCEPT !.key = k]]
  /\ UNCHANGED <<database, refreshers>>

\* The status a result asks for: rejected credentials, an exhausted quota, a
\* rate limit, anything else (a success, a timeout, an upstream error).
Asked == {"disabled", "exhausted", "cooling", "enabled"}

\* The upstream has answered or failed; a cooldown counts from this moment.
EndCall(c, asked) ==
  /\ pc[c] = "calling"
  /\ pc' = [pc EXCEPT ![c] = "recording"]
  /\ call' = [call EXCEPT ![c].status = asked,
                          ![c].until = IF asked = "cooling" THEN CoolingTime ELSE Null]
  /\ UNCHANGED <<database, refreshers>>

Resting(k) == status[k] = "cooling" /\ cooldown[k] \notin {Null, 0}

\* A faulty variant: a disabled key takes the status of any later result.
StatusAfterAny(k, asked) ==
  IF status[k] = "exhausted" /\ asked # "disabled" THEN "exhausted"
  ELSE IF Resting(k) /\ asked = "enabled" THEN "cooling"
  ELSE asked

\* The status RecordKeyResult leaves.
StatusAfter(k, asked) ==
  IF status[k] = "disabled" THEN "disabled"
  ELSE IF status[k] = "exhausted" /\ asked # "disabled" THEN "exhausted"
  ELSE IF Resting(k) /\ asked = "enabled" THEN "cooling"
  ELSE asked

\* A faulty variant: the result recorded last decides how long a key cools.
CooldownOfLast(k, asked, until) ==
  IF asked = "cooling" /\ status[k] \notin Out THEN until
  ELSE IF asked = "enabled" /\ ~Resting(k) /\ status[k] \notin Out THEN Null
  ELSE cooldown[k]

\* The cooldown_until RecordKeyResult leaves: the later of two.
CooldownAfter(k, asked, until) ==
  IF asked = "cooling" /\ status[k] \notin Out THEN Later(cooldown[k], until)
  ELSE IF asked = "enabled" /\ ~Resting(k) /\ status[k] \notin Out THEN Null
  ELSE cooldown[k]

RecordResult(c) ==
  LET k == call[c].key
      asked == call[c].status
      until == call[c].until
  IN /\ pc[c] = "recording"
     /\ status' = [status EXCEPT ![k] = StatusAfter(k, asked)]
     /\ cooldown' = [cooldown EXCEPT ![k] = CooldownAfter(k, asked, until)]
     /\ rest' = [rest EXCEPT ![k] = IF asked = "cooling" THEN Later(@, until) ELSE @]
     /\ pc' = [pc EXCEPT ![c] = "reporting"]
     /\ UNCHANGED <<call, refreshers>>

\* The context of the request has ended, or the statement failed: the error is
\* ignored.
LoseResult(c) ==
  /\ pc[c] = "recording"
  /\ pc' = [pc EXCEPT ![c] = "reporting"]
  /\ UNCHANGED <<call, database, refreshers>>

\* UpdateProviderKeyOfficialQuota, for the status column: a balance of nothing
\* exhausts the key, whatever its status.
SaveOfficialQuota(k) ==
  /\ UNCHANGED <<cooldown, rest>>
  /\ \/ Exhaustible /\ status' = [status EXCEPT ![k] = "exhausted"]
     \/ UNCHANGED status

\* The answer may have carried an official quota; a test that failed returns
\* before it looks.
ReportQuota(c) ==
  /\ pc[c] = "reporting"
  /\ IF c \in Calls \/ call[c].status = "enabled"
     THEN SaveOfficialQuota(call[c].key)
     ELSE UNCHANGED database
  /\ pc' = [pc EXCEPT ![c] = IF c \in Calls THEN "refreshing" ELSE "idle"]
  /\ call' = [call EXCEPT ![c] = IF c \in Calls THEN @ ELSE Idle]
  /\ UNCHANGED refreshers

\* A faulty variant: a refresh that takes longer than the interval is forgotten.
RefreshDueAfterInterval(k) == AutoRefresh /\ ~refresh[k].started /\ ~refresh[k].finished

RefreshDue(k) ==
  AutoRefresh /\ ~refresh[k].inFlight /\ ~refresh[k].started /\ ~refresh[k].finished

\* refreshOfficialQuota: the claim under quotaMu, and the goroutine.
RefreshQuota(c, j) ==
  LET k == call[c].key
  IN /\ pc[c] = "refreshing"
     /\ RefreshDue(k)
     /\ jobs[j] = Null
     /\ refresh' = [refresh EXCEPT ![k].inFlight = TRUE, ![k].started = TRUE]
     /\ jobs' = [jobs EXCEPT ![j] = k]
     /\ pc' = [pc EXCEPT ![c] = "idle"]
     /\ call' = [call EXCEPT ![c] = Idle]
     /\ UNCHANGED <<database, saved>>

SkipRefresh(c) ==
  /\ pc[c] = "refreshing"
  /\ ~RefreshDue(call[c].key)
  /\ pc' = [pc EXCEPT ![c] = "idle"]
  /\ call' = [call EXCEPT ![c] = Idle]
  /\ UNCHANGED <<database, refreshers>>

\* The goroutine has the official quota, of some moment since it began, and
\* saves it.
SaveRefreshed(j) ==
  /\ jobs[j] # Null
  /\ j \notin saved
  /\ SaveOfficialQuota(jobs[j])
  /\ saved' = saved \cup {j}
  /\ UNCHANGED <<callers, refresh, jobs>>

\* Its deferred end.
EndRefresh(j) ==
  /\ j \in saved
  /\ saved' = saved \ {j}
  /\ refresh' = [refresh EXCEPT ![jobs[j]].inFlight = FALSE, ![jobs[j]].finished = TRUE]
  /\ jobs' = [jobs EXCEPT ![j] = Null]
  /\ UNCHANGED <<database, callers>>

\* quotaRefreshInterval has passed since lastStarted, or since the lastFinished
\* that came after it too.
IntervalPasses(k) ==
  /\ \/ refresh[k].started /\ refresh' = [refresh EXCEPT ![k].started = FALSE]
     \/ /\ refresh[k].finished
        /\ refresh' = [refresh EXCEPT ![k].started = FALSE, ![k].finished = FALSE]
  /\ UNCHANGED <<database, callers, jobs, saved>>

\* The administrator sets a status; cooldown_until stays as it is.
SetStatus(k, s) ==
  /\ status' = [status EXCEPT ![k] = s]
  /\ rest' = [rest EXCEPT ![k] = 0]
  /\ UNCHANGED <<cooldown, callers, refreshers>>

\* The administrator queries the official quota of a key.
QueryQuota(k) == SaveOfficialQuota(k) /\ UNCHANGED <<callers, refreshers>>

Tick ==
  /\ cooldown' = [k \in Keys |-> Sooner(cooldown[k])]
  /\ rest' = [k \in Keys |-> Sooner(rest[k])]
  /\ call' = [c \in Calls \cup Tests |->
                [call[c] EXCEPT !.until = Sooner(call[c].until)]]
  /\ UNCHANGED <<status, pc, refreshers>>

\* The process restarts: its calls and refreshes are gone.
Restart ==
  /\ pc' = [c \in Calls \cup Tests |-> "idle"]
  /\ call' = [c \in Calls \cup Tests |-> Idle]
  /\ refresh' = [k \in Keys |-> Fresh]
  /\ jobs' = [j \in Refreshes |-> Null]
  /\ saved' = {}
  /\ UNCHANGED database

Next ==
  \/ \E c \in Calls \cup Tests :
       \/ \E k \in Keys : StartCall(c, k)
       \/ \E asked \in Asked : EndCall(c, asked)
       \/ RecordResult(c)
       \/ LoseResult(c)
       \/ ReportQuota(c)
       \/ \E j \in Refreshes : RefreshQuota(c, j)
       \/ SkipRefresh(c)
  \/ \E j \in Refreshes : SaveRefreshed(j) \/ EndRefresh(j)
  \/ \E k \in Keys :
       \/ \E s \in Statuses : SetStatus(k, s)
       \/ QueryQuota(k)
       \/ IntervalPasses(k)
  \/ Tick
  \/ Restart

Spec == Init /\ [][Next]_vars
FairSpec == Spec /\ WF_vars(Tick)

-----------------------------------------------------------------------------
(* Properties. *)

\* The columns have their types.
DatabaseTypeOK ==
  /\ status \in [Keys -> Statuses]
  /\ cooldown \in [Keys -> 0..CoolingTime \cup {Null}]
  /\ rest \in [Keys -> 0..CoolingTime]

\* A call that is under way has a key; a result has a time if it is a rate limit.
CallersTypeOK ==
  /\ pc \in [Calls \cup Tests ->
               {"idle", "calling", "recording", "reporting", "refreshing"}]
  /\ call \in [Calls \cup Tests ->
                 [key : Keys \cup {Null}, status : Asked,
                  until : 0..CoolingTime \cup {Null}]]
  /\ \A c \in Calls \cup Tests : pc[c] # "idle" => call[c].key \in Keys
  /\ \A c \in Calls \cup Tests :
       pc[c] = "recording" => (call[c].status = "cooling" <=> call[c].until # Null)

\* A refresh is said to be in flight when one is.
RefreshersTypeOK ==
  /\ refresh \in [Keys -> [inFlight : BOOLEAN, started : BOOLEAN, finished : BOOLEAN]]
  /\ jobs \in [Refreshes -> Keys \cup {Null}]
  /\ saved \subseteq {j \in Refreshes : jobs[j] # Null}
  /\ \A k \in Keys : refresh[k].inFlight <=> \E j \in Refreshes : jobs[j] = k

\* Every variable has its type; a call that is under way has a key, and the
\* map of refreshes says that one is in flight whenever one is.
TypeOK == DatabaseTypeOK /\ CallersTypeOK /\ RefreshersTypeOK

\* A key that is not listed comes back only by the hand of an administrator or
\* because its cooldown is over: no late success, no late failure and no quota
\* brings back a key that was disabled, exhausted or cooled meanwhile.
NoComeback ==
  [][\A k \in Keys :
       (~Listed(k) /\ Listed(k)') => (Tick \/ \E s \in Statuses : SetStatus(k, s))]_vars

\* A rate limit is heeded for its full time, whatever results are recorded after
\* it, in whatever order: until then the key is not listed, unless an
\* administrator sets its status.
BackoffLasts == \A k \in Keys : rest[k] > 0 => ~Listed(k)

\* The official quota of a key is refreshed by one goroutine at a time, however
\* long it takes and however many calls ask for it.
OneRefresh == \A i, j \in Refreshes : (i # j /\ jobs[i] # Null) => jobs[i] # jobs[j]

\* A key that cools is listed again in time, unless something worse happened or
\* an administrator is testing it: no process has to set it back.
KeyReturns ==
  \A k \in Keys :
    status[k] = "cooling" ~> \/ Listed(k)
                            \/ status[k] \in Out
                            \/ \E t \in Tests : pc[t] # "idle"
=============================================================================
