------------------------------- MODULE Gateway -------------------------------
(***************************************************************************)
(* The way of a request through the public routes: captureUserRequest,     *)
(* the admission of an API token (requireAPIToken, mcpAuthContext), scopes *)
(* and provider policy, the run of the orchestrator, and on the way back   *)
(* the mark of the token and the entry in the user request log, while an   *)
(* administrator changes the token.                                        *)
(*                                                                         *)
(* A request reads the settings once, so every read may find either value. *)
(* How the run ends, what a body holds, and whether the database fails or  *)
(* a handler panics is left open.  Quotas are those of a day.              *)
(***************************************************************************)
EXTENDS Integers, FiniteSets

CONSTANTS
  Requests,   \* requests under way at a time
  Tokens,     \* rows of api_tokens
  Providers, Capable,  \* the providers, and those that can extract
  Rows,       \* what an administrator makes of a token: [on, scopes, allowed]
  FirstRow,
  Asked,      \* what comes in: [mcp, tool, cred, names]; the tool is "other" for
              \*   MCP methods that run nothing but need a token, None for the rest
  Daily,      \* daily_quota per token; 0: none
  PerMinute,  \* rate_limit_per_min per token; 0: none
  AdminKey, Missing, Wrong,  \* other credentials: the key, none, an unknown one
  None        \* not known, not there

ASSUME GatewayAssumption ==
  /\ IsFiniteSet(Requests)
  /\ FirstRow \in Rows /\ Capable \subseteq Providers
  /\ Rows \subseteq [on : BOOLEAN, scopes : SUBSET {"search", "extract"},
                     allowed : SUBSET Providers]
  /\ Asked \subseteq [mcp : BOOLEAN, tool : {"search", "extract", "other", None},
                      cred : Tokens \cup {AdminKey, Missing, Wrong},
                      names : SUBSET Providers]
  /\ Daily \in [Tokens -> Nat] /\ PerMinute \in [Tokens -> Nat]
  /\ {AdminKey, Missing, Wrong, None} \cap (Tokens \cup Rows) = {}
  /\ None \notin Asked /\ None \notin {"run", "rejected"}
  /\ Missing # AdminKey /\ "anonymous" \notin Tokens \cup {AdminKey, None}

VARIABLES
  row,      \* the row of each token
  usage,    \* today's requests of each token, as the log has counted them
  minute,   \* rateWindows: whether the window of a token is open, and its count
  req,      \* the requests under way
  logged,   \* the execution log a request has written: "run" or "rejected"
  marks,    \* history: the marks a request has made on its token, and those it lost
  granted   \* history: the enabled rows its token has had since a request came
            \* in, until it is answered

gatewayVars == <<row, usage, minute, req, logged, marks, granted>>
database == <<row, usage>>

-----------------------------------------------------------------------------
Idle == [at |-> "idle", ask |-> None, who |-> None, row |-> None,
         status |-> 0, execution |-> FALSE, exempt |-> FALSE]

Unmarked == [made |-> 0, lost |-> 0]

GatewayInit ==
  /\ row = [t \in Tokens |-> FirstRow]
  /\ usage = [t \in Tokens |-> 0]
  /\ minute = [t \in Tokens |-> [open |-> FALSE, count |-> 0]]
  /\ req = [r \in Requests |-> Idle]
  /\ logged = [r \in Requests |-> None]
  /\ marks = [r \in Requests |-> Unmarked]
  /\ granted = [r \in Requests |-> {}]

At(r, step) == req[r].at = step
Answered(r) == req[r].at \in {"unwinding", "marked"}
Cred(r) == req[r].ask.cred
Goes(r, step) == req' = [req EXCEPT ![r].at = step] /\ UNCHANGED granted
Known(r, who) ==
  req' = [req EXCEPT ![r].at = "handler", ![r].who = who] /\ UNCHANGED granted
Answers(r, status) ==
  /\ req' = [req EXCEPT ![r].at = "unwinding", ![r].status = status, ![r].row = None]
  /\ granted' = [granted EXCEPT ![r] = {}]

\* A request comes in.  MCP methods that need no token are dispatched at once.
Arrive(r, ask) ==
  /\ At(r, "idle")
  /\ req' = [req EXCEPT ![r] =
       IF ask.mcp /\ ask.tool = None
         THEN [Idle EXCEPT !.at = "handler", !.ask = ask, !.who = "anonymous"]
         ELSE [Idle EXCEPT !.at = "settings", !.ask = ask]]
  /\ granted' = [granted EXCEPT ![r] =
       IF ask.cred \in Tokens THEN {a \in {row[ask.cred]} : a.on} ELSE {}]
  /\ UNCHANGED <<database, minute, logged, marks>>

\* The body cannot be read, or is no JSON-RPC: known before the token is.
Malformed(r) ==
  /\ At(r, "settings")
  /\ Answers(r, 400)
  /\ UNCHANGED <<database, minute, logged, marks>>

\* RuntimeSettings: api_auth_required may be off.
ReadSettings(r) ==
  /\ At(r, "settings")
  /\ \/ Answers(r, 500)
     \/ Known(r, "anonymous")
     \/ Cred(r) = Missing /\ Answers(r, 401)
     \/ Cred(r) # Missing /\ Goes(r, "admin key")
  /\ UNCHANGED <<database, minute, logged, marks>>

LookUpAdminKey(r) ==
  /\ At(r, "admin key")
  /\ \/ Answers(r, 500)
     \/ Cred(r) = AdminKey /\ Known(r, AdminKey)
     \/ Cred(r) # AdminKey /\ Goes(r, "token")
  /\ UNCHANGED <<database, minute, logged, marks>>

\* A faulty variant: the quota is not looked at.
FoundAnyUsage(t) == row[t].on

\* The WHERE of FindAPIToken.
Found(t) == row[t].on /\ (Daily[t] = 0 \/ usage[t] < Daily[t])

\* MarkAPITokenUsed: the update may fail, and its error is ignored.
MarkToken(r) ==
  \/ marks' = [marks EXCEPT ![r].made = @ + 1]
  \/ marks' = [marks EXCEPT ![r].lost = @ + 1]

\* FindAPIToken; whatever it fails from, the token counts as invalid.  MCP marks
\* the token at once.
LookUpToken(r) ==
  /\ At(r, "token")
  /\ \/ Answers(r, 401) /\ UNCHANGED marks
     \/ /\ Cred(r) \in Tokens
        /\ Found(Cred(r))
        /\ req' = [req EXCEPT ![r].at = "rate", ![r].who = Cred(r),
                              ![r].row = row[Cred(r)]]
        /\ IF req[r].ask.mcp THEN MarkToken(r) ELSE UNCHANGED marks
        /\ UNCHANGED granted
  /\ UNCHANGED <<database, minute, logged>>

\* allowToken: a fixed window of a minute that begins with its first request.
Window(t) == [minute[t] EXCEPT !.open = TRUE]

AllowToken(r) ==
  LET t == req[r].who
      full == PerMinute[t] > 0 /\ Window(t).count >= PerMinute[t]
  IN /\ At(r, "rate")
     /\ minute' = IF PerMinute[t] = 0 THEN minute
                  ELSE [minute EXCEPT ![t] =
                          IF full THEN Window(t) ELSE [Window(t) EXCEPT !.count = @ + 1]]
     /\ IF full THEN Answers(r, 429) ELSE Goes(r, "handler")
     /\ UNCHANGED <<database, logged, marks>>

-----------------------------------------------------------------------------
(* The handlers. *)

\* A faulty variant: any scope will do.
HasAnyScope(a, tool) == a.scopes # {}

HasScope(a, tool) == tool \in a.scopes

\* applyTokenProviders and applyTokenExtractProviders: the providers a row lets a
\* request have, {} standing for those of the settings; or None.
TokenProviders(a, tool, names) ==
  IF a.allowed = {} THEN names
  ELSE IF names # {} THEN IF names \subseteq a.allowed THEN names ELSE None
  ELSE LET able == IF tool = "extract" THEN a.allowed \cap Capable ELSE a.allowed
       IN IF able = {} THEN None ELSE able

Runs(r) == req[r].ask.tool \in {"search", "extract"}

\* The row of the request's token stands against it.
Denied(r) ==
  /\ Runs(r)
  /\ req[r].row # None
  /\ \/ ~HasScope(req[r].row, req[r].ask.tool)
     \/ TokenProviders(req[r].row, req[r].ask.tool, req[r].ask.names) = None

\* The orchestrator is called.
BeginRun(r) ==
  /\ At(r, "handler")
  /\ Runs(r)
  /\ ~Denied(r)
  /\ req' = [req EXCEPT ![r].at = "running", ![r].execution = TRUE]
  /\ UNCHANGED <<database, minute, logged, marks, granted>>

\* The arguments are invalid, or the compatible endpoint is disabled; a reply of
\* MCP, the only one if there is no tool to run, has status 200.  REST looks at the
\* scope first.
Reject(r) ==
  /\ At(r, "handler")
  /\ ~req[r].ask.mcp /\ req[r].row # None => HasScope(req[r].row, req[r].ask.tool)
  /\ IF req[r].ask.mcp THEN Answers(r, 200) ELSE Answers(r, 400)
  /\ UNCHANGED <<database, minute, logged, marks>>

Deny(r) ==
  /\ At(r, "handler")
  /\ Denied(r)
  /\ req[r].ask.mcp \/ req[r].ask.tool = "search"
  /\ IF req[r].ask.mcp THEN Answers(r, 200) ELSE Answers(r, 403)
  /\ UNCHANGED <<database, minute, logged, marks>>

\* recordRejectedExtract: the denial is logged, if the database lets it, counts as
\* an execution of the entry, and exempts the request from the mark.
DenyExtract(r) ==
  /\ At(r, "handler")
  /\ Denied(r)
  /\ ~req[r].ask.mcp /\ req[r].ask.tool = "extract"
  /\ \/ logged' = [logged EXCEPT ![r] = "rejected"]
     \/ UNCHANGED logged
  /\ req' = [req EXCEPT ![r] =
       [@ EXCEPT !.at = "unwinding", !.status = 403, !.row = None,
                 !.execution = TRUE, !.exempt = TRUE]]
  /\ granted' = [granted EXCEPT ![r] = {}]
  /\ UNCHANGED <<database, minute, marks>>

\* How a run is answered, 500 standing for all errors; the client of MCP may be
\* gone, or the reply too large.
RunStatuses(r) == IF req[r].ask.mcp THEN {200, 408, 413} ELSE {200, 500}

\* The orchestrator returns, and has written its log or failed to.
EndRun(r, status) ==
  /\ At(r, "running")
  /\ Answers(r, status)
  /\ \/ UNCHANGED <<usage, logged>>
     \/ /\ logged' = [logged EXCEPT ![r] = "run"]
        /\ usage' = [t \in Tokens |-> IF t = req[r].who THEN usage[t] + 1 ELSE usage[t]]
  /\ UNCHANGED <<row, minute, marks>>

\* A handler panics: nothing was answered, the deferred calls run.
Panic(r) ==
  /\ req[r].at \in {"handler", "running"}
  /\ Answers(r, 0)
  /\ UNCHANGED <<database, minute, logged, marks>>

-----------------------------------------------------------------------------
(* The way back. *)

\* A faulty variant: a denied extraction is marked, too.
OwesMarkAlways(r) == req[r].who \in Tokens /\ ~req[r].ask.mcp

\* The deferred call of requireAPIToken marks the token.
OwesMark(r) == req[r].who \in Tokens /\ ~req[r].ask.mcp /\ ~req[r].exempt

\* The deferred calls: the mark, then the entry, each if the database lets it, and
\* the request is over.
MarkUsed(r) ==
  /\ At(r, "unwinding")
  /\ Goes(r, "marked")
  /\ IF OwesMark(r) THEN MarkToken(r) ELSE UNCHANGED marks
  /\ UNCHANGED <<database, minute, logged>>

\* What captureUserRequest puts into user_request_logs.
Entry(r) ==
  [auth |-> CASE req[r].who = None -> "unknown"
              [] req[r].who = AdminKey -> "admin_key"
              [] req[r].who = "anonymous" -> "anonymous"
              [] OTHER -> "api_token",
   token |-> IF req[r].who \in Tokens THEN req[r].who ELSE None,
   status |-> req[r].status,
   execution |-> req[r].execution]

RecordEntry(r) ==
  /\ At(r, "marked")
  /\ req' = [req EXCEPT ![r] = Idle]
  /\ logged' = [logged EXCEPT ![r] = None]
  /\ marks' = [marks EXCEPT ![r] = Unmarked]
  /\ UNCHANGED <<database, minute, granted>>

-----------------------------------------------------------------------------
(* The world around. *)

\* UpdateAPIToken and UpdateAPITokenStatus.
UpdateToken(t, a) ==
  /\ row[t] # a
  /\ row' = [row EXCEPT ![t] = a]
  /\ granted' = [r \in Requests |->
       IF req[r].ask # None /\ Cred(r) = t /\ ~Answered(r) /\ a.on
         THEN granted[r] \cup {a} ELSE granted[r]]
  /\ UNCHANGED <<usage, minute, req, logged, marks>>

MinuteOver ==
  /\ minute' = [t \in Tokens |-> [open |-> FALSE, count |-> 0]]
  /\ UNCHANGED <<database, req, logged, marks, granted>>

Midnight ==
  /\ usage' = [t \in Tokens |-> 0]
  /\ UNCHANGED <<row, minute, req, logged, marks, granted>>

GatewayNext ==
  \/ \E r \in Requests, ask \in Asked : Arrive(r, ask)
  \/ \E r \in Requests :
       \/ Malformed(r) \/ ReadSettings(r) \/ LookUpAdminKey(r) \/ LookUpToken(r)
       \/ AllowToken(r)
       \/ BeginRun(r) \/ Reject(r) \/ Deny(r) \/ DenyExtract(r) \/ Panic(r)
       \/ At(r, "running") /\ \E status \in RunStatuses(r) : EndRun(r, status)
       \/ MarkUsed(r) \/ RecordEntry(r)
  \/ \E t \in Tokens, a \in Rows : UpdateToken(t, a)
  \/ MinuteOver
  \/ Midnight

GatewaySpec == GatewayInit /\ [][GatewayNext]_gatewayVars

-----------------------------------------------------------------------------
(* Properties. *)

Steps ==
  {"idle", "settings", "admin key", "token", "rate", "handler", "running",
   "unwinding", "marked"}
Identities == Tokens \cup {None, "anonymous", AdminKey}

\* Every variable has its type.
GatewayTypeOK ==
  /\ row \in [Tokens -> Rows]
  /\ usage \in [Tokens -> Nat]
  /\ minute \in [Tokens -> [open : BOOLEAN, count : Nat]]
  /\ req \in [Requests ->
       [at : Steps, ask : Asked \cup {None}, who : Identities, row : Rows \cup {None},
        status : {0, 200, 400, 401, 403, 408, 413, 429, 500},
        execution : BOOLEAN, exempt : BOOLEAN]]
  /\ logged \in [Requests -> {"run", "rejected", None}]
  /\ marks \in [Requests -> [made : Nat, lost : Nat]]
  /\ granted \in [Requests -> SUBSET Rows]

\* The quota of a token is tested when a request comes in and counted when it is
\* over: what is counted exceeds it by no more than the requests that run at once.
OvershootBounded ==
  \A t \in Tokens :
    Daily[t] > 0 => usage[t] <= Daily[t] - 1 + Cardinality(Requests)

\* With which providers a request runs; {} are those of the settings.
RunsWith(r) ==
  IF req[r].row = None THEN req[r].ask.names
  ELSE TokenProviders(req[r].row, req[r].ask.tool, req[r].ask.names)

\* A request that runs for a token is permitted by one row that the token has had
\* since the request came in, whatever was changed meanwhile: a token that was
\* revoked before stays out, and no two rows are mixed.
AdmittedByOneRow ==
  \A r \in Requests :
    (At(r, "running") /\ req[r].who \in Tokens) =>
      \E a \in granted[r] :
        /\ req[r].ask.tool \in a.scopes
        /\ a.allowed # {} => RunsWith(r) # {} /\ RunsWith(r) \subseteq a.allowed

\* The entry agrees with the other books: it has the link of every execution log,
\* and the token it names has been marked exactly once, unless the one mark was lost
\* to the database or the entry shows an extraction that was denied; no other request
\* has tried to mark a token.
EntryMatches(r) ==
  LET e == Entry(r)
      denied == e.status = 403 /\ e.execution
  IN /\ logged[r] # None => e.execution
     /\ logged[r] = "rejected" => denied
     /\ logged[r] = "run" => ~denied
     /\ marks[r].made + marks[r].lost = IF e.auth = "api_token" /\ ~denied THEN 1 ELSE 0

EntriesMatch == [][\A r \in Requests : RecordEntry(r) => EntryMatches(r)]_gatewayVars
=============================================================================
