------------------------------- MODULE Retention -------------------------------
(***************************************************************************)
(* The cleaner of startLogRetentionCleaner: a round at once and one every  *)
(* hour, in which the settings are read, the old rows of three logs are    *)
(* deleted table by table, and then the expired entries of the cache.  A   *)
(* step that fails, because of the database or because the 30 seconds of   *)
(* the round are over, ends the round; the next one begins anew.           *)
(*                                                                         *)
(* Time passes in hours between rounds.  An entry of the cache has a time  *)
(* to live of its own; the rows of a log all have the retention that the   *)
(* round has read.                                                         *)
(***************************************************************************)
EXTENDS Integers, SequencesExt, FiniteSetsExt

CONSTANTS
  LogRows,    \* what is written to the tables
  Table,      \* the table of each row
  Settings,   \* the values log_retention_days may have, in hours here
  Default,    \* the retention if that is not positive
  CacheTTL,   \* of the entries of the cache
  MaxMissed   \* bound: hours in a row in which a table is not cleaned

Logs == <<"search_requests", "audit_logs", "user_request_logs">>
Tables == Append(Logs, "search_cache")

ASSUME RetentionAssumption ==
  /\ Table \in [LogRows -> Range(Tables)]
  /\ Settings \subseteq Int /\ Settings # {} /\ IsFiniteSet(Settings)
  /\ Default \in Nat \ {0} /\ CacheTTL \in Nat \ {0} /\ MaxMissed \in Nat

VARIABLES
  age,      \* of each row, in hours; Absent if it is not there
  setting,  \* log_retention_days
  up,       \* whether the process runs
  step,     \* where a round is: Waiting, 0 before the settings are read, or the
            \*   place in Tables of its next statement
  days,     \* the retention of the round
  due,      \* whether a round is due
  cleaned,  \* history: the tables cleaned in this hour
  missed    \* history: for how many hours in a row a table was not

retentionVars == <<age, setting, up, step, days, due, cleaned, missed>>

Absent == 0 - 1
Waiting == 0 - 1

RetentionInit ==
  /\ age = [r \in LogRows |-> Absent]
  /\ setting \in Settings
  /\ up = TRUE /\ step = Waiting /\ days = Default /\ due = TRUE
  /\ cleaned = {}
  /\ missed = [t \in Range(Tables) |-> 0]

-----------------------------------------------------------------------------
(* The cleaner. *)

RoundBegins ==
  /\ up /\ due /\ step = Waiting
  /\ due' = FALSE /\ step' = 0
  /\ UNCHANGED <<age, setting, up, days, cleaned, missed>>

\* The retention of DeleteOldLogs.
RetentionOf(value) == IF value <= 0 THEN Default ELSE value

ReadRetention ==
  /\ step = 0
  /\ days' = RetentionOf(setting) /\ step' = 1
  /\ UNCHANGED <<age, setting, up, due, cleaned, missed>>

\* A faulty variant: only what expired in the last hour is deleted.
ExpiredNow(r) == age[r] = days + 1

Expired(r) ==
  IF Table[r] = "search_cache" THEN age[r] >= CacheTTL ELSE age[r] > days

\* The next DELETE of the round.
CleanTable ==
  /\ step \in DOMAIN Tables
  /\ age' = [r \in LogRows |->
       IF Table[r] = Tables[step] /\ Expired(r) THEN Absent ELSE age[r]]
  /\ cleaned' = cleaned \cup {Tables[step]}
  /\ step' = IF step = Len(Tables) THEN Waiting ELSE step + 1
  /\ UNCHANGED <<setting, up, days, due, missed>>

\* An error, or the end of the round's budget.
RoundFails ==
  /\ step # Waiting
  /\ step' = Waiting
  /\ UNCHANGED <<age, setting, up, days, due, cleaned, missed>>

-----------------------------------------------------------------------------
(* What goes on around it. *)

\* The logs and the cache are written; an entry of the cache may be renewed.
Write(r) ==
  /\ up
  /\ age[r] = Absent \/ Table[r] = "search_cache"
  /\ age' = [age EXCEPT ![r] = 0]
  /\ UNCHANGED <<setting, up, step, days, due, cleaned, missed>>

UpdateRetention(value) ==
  /\ up
  /\ setting' = value
  /\ UNCHANGED <<age, up, step, days, due, cleaned, missed>>

\* The process stops, in the middle of a round or not, and starts again.
Stop ==
  /\ up
  /\ up' = FALSE /\ step' = Waiting /\ due' = FALSE
  /\ UNCHANGED <<age, setting, days, cleaned, missed>>

Start ==
  /\ ~up
  /\ up' = TRUE /\ due' = TRUE
  /\ UNCHANGED <<age, setting, step, days, cleaned, missed>>

\* An hour passes: the ticker fires.  A round takes seconds, so it is over.
Hour ==
  /\ step = Waiting /\ ~due
  /\ \A t \in Range(Tables) : t \in cleaned \/ missed[t] < MaxMissed
  /\ age' = [r \in LogRows |-> IF age[r] = Absent THEN Absent ELSE age[r] + 1]
  /\ due' = up
  /\ missed' = [t \in Range(Tables) |-> IF t \in cleaned THEN 0 ELSE missed[t] + 1]
  /\ cleaned' = {}
  /\ UNCHANGED <<setting, up, step, days>>

RetentionNext ==
  \/ RoundBegins \/ ReadRetention \/ CleanTable \/ RoundFails
  \/ \E r \in LogRows : Write(r)
  \/ \E value \in Settings : UpdateRetention(value)
  \/ Stop \/ Start \/ Hour

RetentionSpec == RetentionInit /\ [][RetentionNext]_retentionVars

-----------------------------------------------------------------------------
(* Properties. *)

\* The longest a round keeps a row of table t.
Longest(t) ==
  IF t = "search_cache" THEN CacheTTL - 1
  ELSE Max({RetentionOf(value) : value \in Settings})

\* A row outlives its retention by no more hours than its table has been missed in
\* a row, and one: whatever rounds fail at which statement, whenever the process
\* is down, none is forgotten once its table is cleaned again (DeleteOldLogs).
OldRowsGo ==
  \A r \in LogRows : age[r] <= Longest(Table[r]) + missed[Table[r]] + 1
=============================================================================
