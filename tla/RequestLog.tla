----------------------------- MODULE RequestLog -----------------------------
(***************************************************************************)
(* The transactions that write request logs into the database             *)
(* (Store.recordRequestLog, insertCallUsage, upsertUsage), the pool of     *)
(* connections they share, the rows of usage they lock, and the two        *)
(* deletions an administrator may run beside them: DeleteAPIToken and      *)
(* DeleteProviderKey.                                                      *)
(*                                                                         *)
(* One day, one provider and one unit of measurement.  usage_daily holds   *)
(* rows per token and key, with the requests of a token in its row without *)
(* a key; usage_meter_daily holds rows per token and key.  Both have a     *)
(* UNIQUE NULLS NOT DISTINCT constraint, so the row without a token or     *)
(* without a key exists once.  A row of 0 does not exist.                  *)
(*                                                                         *)
(* Postgres is modelled as the code uses it: READ COMMITTED, every         *)
(* statement its own reading of what is committed, row locks until the end *)
(* of the transaction, foreign keys that hold the row they refer to, and a *)
(* transaction of a cycle of waits aborted.                                *)
(***************************************************************************)
EXTENDS Integers, Sequences, FiniteSets, SequencesExt

CONSTANTS
  Writers,       \* requests that are over and have a log to write
  Tokens,        \* api_tokens at the start
  Keys,          \* provider_keys at the start
  Null,          \* SQL's NULL: no token, no key; and no owner of a lock
  Admin,         \* the administrator's deletion, as an owner of locks
  CallLists,     \* the calls a request may have made, in order
  Deletions,     \* the deletions the administrator may ask for: op and id
  MaxCalls,      \* calls of a request, at most
  Connections,   \* MaxConns of the pool
  SlowDatabase   \* whether statements may outlast usageLogTimeout

ASSUME SetsAssumption ==
  /\ IsFiniteSet(Writers) /\ IsFiniteSet(Tokens) /\ IsFiniteSet(Keys)
  /\ Null \notin Tokens \cup Keys \cup Writers \cup {Admin}
  /\ Admin \notin Writers
ASSUME ConnectionsAssumption == Connections \in Nat \ {0}
ASSUME CallsAssumption ==
  /\ MaxCalls \in Nat
  /\ \A calls \in CallLists :
       calls \in Seq([key : Keys, success : BOOLEAN]) /\ Len(calls) <= MaxCalls
ASSUME DeletionsAssumption == \A d \in Deletions : d.op \in {"token", "key"}

VARIABLES
  tokens,    \* api_tokens
  keys,      \* provider_keys
  usage,     \* the committed rows: requests_total, quantity_total
  owner,     \* the transaction that has a row locked
  pc,        \* where the log of each writer is
  entry,     \* the token and the calls of each log
  todo,      \* the statements each log has still to run
  reading,   \* the logs that read the provider's settings
  refs,      \* the keys whose rows an open log refers to
  deletion   \* the administrator's transaction

logs == <<pc, entry, todo, reading, refs>>
vars == <<tokens, keys, usage, owner, logs, deletion>>

-----------------------------------------------------------------------------
(* Rows and statements. *)

Rows == {"daily", "meter"} \X (Tokens \cup {Null}) \X (Keys \cup {Null})
Exists(r) == usage[r] > 0

Insert(key) == [do |-> "insert", key |-> key, row |-> Null]
ReadSettings == [do |-> "settings", key |-> Null, row |-> Null]
Upsert(row) == [do |-> "upsert", key |-> Null, row |-> row]

\* The statements of one call: its row of provider_calls and, when it
\* succeeded, the settings of its provider and its row of the meter.
CallStatements(t, call) ==
  IF call.success
    THEN <<Insert(call.key), ReadSettings, Upsert(<<"meter", t, call.key>>)>>
    ELSE <<Insert(call.key)>>

\* A faulty variant: the request counts once for every call.
PerCallStatements(t, calls) ==
  FlattenSeq([i \in DOMAIN calls |-> CallStatements(t, calls[i])])
    \o [i \in DOMAIN calls |-> Upsert(<<"daily", t, Null>>)]
    \o [i \in DOMAIN calls |-> Upsert(<<"daily", t, calls[i].key>>)]

\* recordRequestLog: every call with its usage, then (upsertUsage) the request
\* for its token, then every call for its key.
Statements(t, calls) ==
  FlattenSeq([i \in DOMAIN calls |-> CallStatements(t, calls[i])])
    \o <<Upsert(<<"daily", t, Null>>)>>
    \o [i \in DOMAIN calls |-> Upsert(<<"daily", t, calls[i].key>>)]

\* What a log adds to a row.
Added(w, r) ==
  LET written == Statements(entry[w].token, entry[w].calls)
  IN Cardinality({i \in DOMAIN written : written[i] = Upsert(r)})

NoEntry == [token |-> Null, calls |-> <<>>]
NoDeletion ==
  [op |-> "none", id |-> Null, stage |-> 0, moved |-> [r \in Rows |-> 0],
   dropped |-> {}]

-----------------------------------------------------------------------------
(* Connections, locks and waits. *)

Open == {w \in Writers : pc[w] = "open"}
Free == Connections - Cardinality(Open) - Cardinality(reading)
          - (IF deletion.op = "none" THEN 0 ELSE 1)

NextIs(w, do) == w \in Open /\ todo[w] # <<>> /\ Head(todo[w]).do = do
Locked(rs, by) == {owner[r] : r \in rs} \ {Null, by}

\* The logs that keep a token or a key from being deleted.
Referring(op, id) ==
  {w \in Open : IF op = "token" THEN entry[w].token = id ELSE id \in refs[w]}

\* The rows a deletion of a token merges and drops, table by table.
RowsOfToken(table, t) == {r \in Rows : r[1] = table /\ r[2] = t /\ Exists(r)}
WithoutToken(r) == <<r[1], Null, r[3]>>

\* A faulty variant: the meter of a key is dropped with its usage.
DropUsageAndMeterOf(k) == {r \in Rows : r[3] = k /\ Exists(r)}

\* The rows DeleteProviderKey drops.
DroppedWithKey(k) == {r \in Rows : r[1] = "daily" /\ r[3] = k /\ Exists(r)}
WithoutKey(r) == <<r[1], r[2], Null>>

\* The rows that still refer to what is being deleted: ON DELETE SET NULL.
Left(op, id) ==
  {r \in Rows \ deletion.dropped :
     Exists(r) /\ (IF op = "token" THEN r[2] = id ELSE r[3] = id)}
SetNull(op, r) == IF op = "token" THEN WithoutToken(r) ELSE WithoutKey(r)

\* The rows that would violate UNIQUE NULLS NOT DISTINCT.
Conflicts(op, id) ==
  {r \in Left(op, id) :
     Exists(SetNull(op, r)) \/ deletion.moved[SetNull(op, r)] > 0}

TableOf(stage) == IF stage <= 2 THEN "daily" ELSE "meter"
Merging == deletion.op = "token" /\ deletion.stage \in {1, 3}
Dropping == \/ deletion.op = "token" /\ deletion.stage \in {2, 4}
            \/ deletion.op = "key" /\ deletion.stage = 1
Finishing == \/ deletion.op = "token" /\ deletion.stage = 5
             \/ deletion.op = "key" /\ deletion.stage = 2

\* The rows the next statement of the deletion writes.
DeletionWrites ==
  IF Merging
    THEN {WithoutToken(r) : r \in RowsOfToken(TableOf(deletion.stage), deletion.id)}
  ELSE IF Dropping
    THEN IF deletion.op = "token"
           THEN RowsOfToken(TableOf(deletion.stage), deletion.id)
           ELSE DroppedWithKey(deletion.id)
  ELSE {SetNull(deletion.op, r) : r \in Left(deletion.op, deletion.id)}

\* The transactions that the next statement of a transaction waits for.
Blockers(x) ==
  IF x = Admin
    THEN IF deletion.op = "none" THEN {}
         ELSE Locked(DeletionWrites, Admin)
                \cup (IF Finishing THEN Referring(deletion.op, deletion.id) ELSE {})
  ELSE IF NextIs(x, "upsert") THEN Locked({Head(todo[x]).row}, x)
  ELSE {}

WaitsForConnection(w) ==
  /\ pc[w] = "queued" \/ (NextIs(w, "settings") /\ w \notin reading)
  /\ Free <= 0
Stuck(x) == Blockers(x) # {} \/ (x \in Writers /\ WaitsForConnection(x))

\* A set of transactions each of which waits for another of them.
Cyclic(S) == S # {} /\ \A x \in S : Blockers(x) \cap S # {}
Deadlocked(x) ==
  \E S \in SUBSET (Open \cup {Admin}) :
    x \in S /\ Cyclic(S) /\ \A T \in SUBSET (S \ {x}) : ~Cyclic(T)

\* Nothing can go on: statements take far less than usageLogTimeout, so only
\* then does a timeout strike when the database is not slow.
Stalled ==
  /\ \A w \in Writers : pc[w] \in {"queued", "open"} => Stuck(w)
  /\ deletion.op # "none" => Stuck(Admin)
  /\ \A x \in Open \cup {Admin} : ~Deadlocked(x)

-----------------------------------------------------------------------------
Init ==
  /\ tokens = Tokens
  /\ keys = Keys
  /\ usage = [r \in Rows |-> 0]
  /\ owner = [r \in Rows |-> Null]
  /\ pc = [w \in Writers |-> "idle"]
  /\ entry = [w \in Writers |-> NoEntry]
  /\ todo = [w \in Writers |-> <<>>]
  /\ reading = {}
  /\ refs = [w \in Writers |-> {}]
  /\ deletion = NoDeletion

\* A request of token t (of none: an administrator's) is over.
Finish(w, t, calls) ==
  /\ pc[w] = "idle"
  /\ \A i \in DOMAIN calls : calls[i].key \in keys
  /\ pc' = [pc EXCEPT ![w] = "queued"]
  /\ entry' = [entry EXCEPT ![w] = [token |-> t, calls |-> calls]]
  /\ UNCHANGED <<tokens, keys, usage, owner, todo, reading, refs, deletion>>

UnlockedBy(x) == [r \in Rows |-> IF owner[r] = x THEN Null ELSE owner[r]]

\* The transaction of w is over: its connection, its locks and what it refers
\* to are free again.
Close(w, outcome) ==
  /\ pc' = [pc EXCEPT ![w] = outcome]
  /\ todo' = [todo EXCEPT ![w] = <<>>]
  /\ reading' = reading \ {w}
  /\ refs' = [refs EXCEPT ![w] = {}]
  /\ owner' = UnlockedBy(w)

Lose(w) == Close(w, "lost") /\ UNCHANGED <<tokens, keys, usage, entry, deletion>>

\* A connection is at hand; the row of search_requests is written, or refused
\* because its token was deleted while the request ran.
Begin(w) ==
  /\ pc[w] = "queued"
  /\ Free > 0
  /\ IF entry[w].token \in tokens \cup {Null}
       THEN /\ pc' = [pc EXCEPT ![w] = "open"]
            /\ todo' = [todo EXCEPT ![w] =
                          Statements(entry[w].token, entry[w].calls)]
            /\ UNCHANGED <<tokens, keys, usage, owner, entry, reading, refs,
                           deletion>>
       ELSE Lose(w)

\* The row of provider_calls is written, or refused because its key was deleted.
InsertCall(w) ==
  /\ NextIs(w, "insert")
  /\ IF Head(todo[w]).key \in keys
       THEN /\ refs' = [refs EXCEPT ![w] = @ \cup {Head(todo[w]).key}]
            /\ todo' = [todo EXCEPT ![w] = Tail(@)]
            /\ UNCHANGED <<tokens, keys, usage, owner, pc, entry, reading, deletion>>
       ELSE Lose(w)

\* insertCallUsage reads the settings of the provider over a connection of the
\* pool, not over that of the transaction.
BorrowConnection(w) ==
  /\ NextIs(w, "settings")
  /\ w \notin reading
  /\ Free > 0
  /\ reading' = reading \cup {w}
  /\ UNCHANGED <<tokens, keys, usage, owner, pc, entry, todo, refs, deletion>>

ReturnConnection(w) ==
  /\ w \in reading
  /\ reading' = reading \ {w}
  /\ todo' = [todo EXCEPT ![w] = Tail(@)]
  /\ UNCHANGED <<tokens, keys, usage, owner, pc, entry, refs, deletion>>

\* A row of usage is inserted or updated, and locked.
UpsertRow(w) ==
  /\ NextIs(w, "upsert")
  /\ Blockers(w) = {}
  /\ owner' = [owner EXCEPT ![Head(todo[w]).row] = w]
  /\ todo' = [todo EXCEPT ![w] = Tail(@)]
  /\ UNCHANGED <<tokens, keys, usage, pc, entry, reading, refs, deletion>>

Commit(w) ==
  /\ w \in Open
  /\ todo[w] = <<>>
  /\ usage' = [r \in Rows |-> usage[r] + Added(w, r)]
  /\ Close(w, "committed")
  /\ UNCHANGED <<tokens, keys, entry, deletion>>

\* A faulty variant: the context of a log has no deadline.
MayNeverTimeOut(w) == FALSE

\* When usageLogTimeout may end the log of w.
MayTimeOut(w) == pc[w] \in {"queued", "open"} /\ (SlowDatabase \/ Stalled)

Timeout(w) == MayTimeOut(w) /\ Lose(w)

\* Postgres aborts a transaction of a cycle of waits.
AbortLog(w) == w \in Open /\ Deadlocked(w) /\ Lose(w)

-----------------------------------------------------------------------------
StartDeletion(op, id) ==
  /\ deletion.op = "none"
  /\ Free > 0
  /\ id \in (IF op = "token" THEN tokens ELSE keys)
  /\ deletion' = [NoDeletion EXCEPT !.op = op, !.id = id, !.stage = 1]
  /\ UNCHANGED <<tokens, keys, usage, owner, logs>>

\* DeleteAPIToken adds the rows of the token to those without a token: the
\* rows as they are when the statement begins.
MergeRows ==
  LET source == RowsOfToken(TableOf(deletion.stage), deletion.id)
  IN /\ Merging
     /\ Blockers(Admin) = {}
     /\ owner' = [r \in Rows |-> IF r \in DeletionWrites THEN Admin ELSE owner[r]]
     /\ deletion' =
          [deletion EXCEPT
             !.stage = @ + 1,
             !.moved = [r \in Rows |->
                IF \E s \in source : WithoutToken(s) = r
                  THEN usage[<<r[1], deletion.id, r[3]>>] ELSE @[r]]]
     /\ UNCHANGED <<tokens, keys, usage, logs>>

\* The rows of the token, or of the key, are dropped: those there are now.
DropRows ==
  /\ Dropping
  /\ Blockers(Admin) = {}
  /\ owner' = [r \in Rows |-> IF r \in DeletionWrites THEN Admin ELSE owner[r]]
  /\ deletion' = [deletion EXCEPT !.stage = @ + 1, !.dropped = @ \cup DeletionWrites]
  /\ UNCHANGED <<tokens, keys, usage, logs>>

\* What a deletion leaves of the rows: the dropped ones go, the merged ones are
\* added, those left over lose their reference.
UsageAfterDeletion ==
  LET left == Left(deletion.op, deletion.id)
      nulled(r) == {s \in left : SetNull(deletion.op, s) = r}
  IN [r \in Rows |->
        IF r \in deletion.dropped \cup left THEN 0
        ELSE usage[r] + deletion.moved[r]
               + (IF nulled(r) = {} THEN 0 ELSE usage[CHOOSE s \in nulled(r) : TRUE])]

EndDeletion ==
  /\ deletion' = NoDeletion
  /\ owner' = UnlockedBy(Admin)
  /\ UNCHANGED logs

\* A faulty variant: the statements are not in one transaction.
KeepMergedRows == [r \in Rows |-> usage[r] + deletion.moved[r]]

\* A rollback leaves the committed rows as they are.
UsageAfterRollback == usage

\* The token or the key itself is deleted and the transaction committed.
FinishDeletion ==
  /\ Finishing
  /\ Blockers(Admin) = {}
  /\ Conflicts(deletion.op, deletion.id) = {}
  /\ usage' = UsageAfterDeletion
  /\ tokens' = IF deletion.op = "token" THEN tokens \ {deletion.id} ELSE tokens
  /\ keys' = IF deletion.op = "key" THEN keys \ {deletion.id} ELSE keys
  /\ EndDeletion

\* The constraint refuses to have a reference set to NULL, or Postgres aborts
\* the deletion in a cycle of waits, or the administrator's request is given up.
FailDeletion ==
  /\ deletion.op # "none"
  /\ \/ /\ Finishing
        /\ Blockers(Admin) = {}
        /\ Conflicts(deletion.op, deletion.id) # {}
     \/ Deadlocked(Admin)
     \/ SlowDatabase
  /\ usage' = UsageAfterRollback
  /\ EndDeletion
  /\ UNCHANGED <<tokens, keys>>

LogStep(w) ==
  \/ Begin(w)
  \/ InsertCall(w)
  \/ BorrowConnection(w)
  \/ ReturnConnection(w)
  \/ UpsertRow(w)
  \/ Commit(w)
  \/ Timeout(w)
  \/ AbortLog(w)

DeletionStep == MergeRows \/ DropRows \/ FinishDeletion \/ FailDeletion

Next ==
  \/ \E w \in Writers :
       \/ \E t \in tokens \cup {Null}, calls \in CallLists : Finish(w, t, calls)
       \/ LogStep(w)
  \/ \E d \in Deletions : StartDeletion(d.op, d.id)
  \/ DeletionStep

Spec == Init /\ [][Next]_vars
FairSpec == Spec /\ (\A w \in Writers : WF_vars(LogStep(w))) /\ WF_vars(DeletionStep)

-----------------------------------------------------------------------------
(* Properties. *)

Row(table, t, k) == usage[<<table, t, k>>]
Logged(t) == {w \in Writers : pc[w] = "committed" /\ entry[w].token = t}
CallsLogged(t) ==
  {c \in Logged(t) \X (1..MaxCalls) : c[2] \in DOMAIN entry[c[1]].calls}
LoggedCalls(t, k) == {c \in CallsLogged(t) : entry[c[1]].calls[c[2]].key = k}
Succeeded(t) == {c \in CallsLogged(t) : entry[c[1]].calls[c[2]].success}
Total(f(_), S) == MapThenSumSet(f, S)

\* Every variable has its type, no more connections are in use than there are,
\* and only transactions under way hold locks.
TypeOK ==
  /\ tokens \subseteq Tokens
  /\ keys \subseteq Keys
  /\ usage \in [Rows -> Nat]
  /\ owner \in [Rows -> Open \cup {Null} \cup
                          (IF deletion.op = "none" THEN {} ELSE {Admin})]
  /\ pc \in [Writers -> {"idle", "queued", "open", "committed", "lost"}]
  /\ \A w \in Writers : /\ entry[w].token \in Tokens \cup {Null}
                        /\ entry[w].calls \in CallLists \cup {<<>>}
                        /\ refs[w] \subseteq Keys
  /\ reading \subseteq Open
  /\ Free \in 0..Connections
  /\ deletion.op \in {"none", "token", "key"}
  /\ deletion.stage \in 0..5

\* The requests counted for a token, which its quota is checked against, are
\* exactly those with a committed log, however many calls each made and whatever
\* keys are deleted meanwhile.
TokenUsageExact ==
  \A t \in tokens : Row("daily", t, Null) = Cardinality(Logged(t))

\* Deleting keys loses nothing that was billed: the meter of a token holds every
\* successful call of its logs.
BillingPreserved ==
  \A t \in tokens :
    Total(LAMBDA k : Row("meter", t, k), Keys \cup {Null}) = Cardinality(Succeeded(t))

\* Nothing is counted twice, for all tokens or for a key, whichever deletion is
\* cut short or rolled back.
NeverOvercounted ==
  /\ Total(LAMBDA t : Row("daily", t, Null), Tokens \cup {Null})
       <= Cardinality(UNION {Logged(t) : t \in Tokens \cup {Null}})
  /\ \A k \in keys :
       Total(LAMBDA t : Row("daily", t, k), Tokens \cup {Null})
         <= Cardinality(UNION {LoggedCalls(t, k) : t \in Tokens \cup {Null}})

\* A log that is to be written is written or given up: the response of its
\* request does not hang ("bounded so a stalled database cannot hang the
\* response indefinitely", recordSearchLog).
EveryLogEnds ==
  \A w \in Writers : pc[w] = "queued" ~> pc[w] \in {"committed", "lost"}

\* "Usage and billing must still be committed" (recordSearchLog): with a
\* database that answers, no log is lost.  The code does not keep this: the logs
\* may hold all connections while each waits for one more.
NoLogLost == \A w \in Writers : pc[w] # "lost"

\* "delete token preserving usage", "token deletion changed request totals"
\* (pgx_integration_test.go): the deletion of a token leaves the totals as they
\* are.  The code does not keep this when a log is committed meanwhile.
UsagePreserved ==
  Total(LAMBDA t : Row("daily", t, Null), Tokens \cup {Null})
    = Cardinality(UNION {Logged(t) : t \in Tokens \cup {Null}})

\* A stored key can be deleted when nothing else is under way (the route
\* DELETE /api/admin/keys/{id}).  The code does not keep this: the meters of two
\* keys cannot both lose their key.
KeysDeletable ==
  (Open = {} /\ deletion.op = "none") =>
    \A k \in keys :
      \A r \in Rows : (r[1] = "meter" /\ r[3] = k /\ Exists(r)) => ~Exists(WithoutKey(r))
=============================================================================
