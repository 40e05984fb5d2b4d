------------------------------ MODULE MCServer ------------------------------
(***************************************************************************)
(* The parts of the server around the orchestrator share no state: one run *)
(* checks each of them by itself.  Which one is chosen at the start; the   *)
(* others stay as they began.                                              *)
(***************************************************************************)
EXTENDS AdminAuth, Gateway, Mcp, Retention, TLC

CONSTANTS tk, p, q, r1, r2, searchRow, userRow, cacheRow

VARIABLE part

ServerInit ==
  /\ AdminInit /\ GatewayInit /\ McpInit /\ RetentionInit
  /\ part \in {"admin", "gateway", "mcp", "retention"}
  /\ part # "retention" => setting = Default

ServerNext ==
  /\ part' = part
  /\ \/ /\ part = "admin" /\ AdminNext
        /\ UNCHANGED <<gatewayVars, mcpVars, retentionVars>>
     \/ /\ part = "gateway" /\ GatewayNext
        /\ UNCHANGED <<adminVars, mcpVars, retentionVars>>
     \/ /\ part = "mcp" /\ McpNext
        /\ UNCHANGED <<adminVars, gatewayVars, retentionVars>>
     \/ /\ part = "retention" /\ RetentionNext
        /\ UNCHANGED <<adminVars, gatewayVars, mcpVars>>

ServerSpec ==
  ServerInit /\ [][ServerNext]_<<adminVars, gatewayVars, mcpVars, retentionVars, part>>

-----------------------------------------------------------------------------
(* Gateway: rows of a token, requests, quotas. *)

EveryScope == {"search", "extract"}
MCRows ==
  {[on |-> TRUE, scopes |-> EveryScope, allowed |-> {}],
   [on |-> TRUE, scopes |-> {"search"}, allowed |-> {p}],
   [on |-> FALSE, scopes |-> EveryScope, allowed |-> {}]}
MCFirstRow == CHOOSE a \in MCRows : a.on /\ a.allowed = {}

Ask(mcp, tool, cred, names) ==
  [mcp |-> mcp, tool |-> tool, cred |-> cred, names |-> names]
MCAsked ==
  {Ask(FALSE, "search", tk, {q}), Ask(FALSE, "extract", tk, {}),
   Ask(TRUE, "extract", tk, {}), Ask(FALSE, "search", AdminKey, {}),
   Ask(FALSE, "search", Missing, {}), Ask(TRUE, "other", Wrong, {}),
   Ask(TRUE, None, Missing, {})}
OnePerToken == [token \in Tokens |-> 1]
Symmetry == Permutations(Requests)

(* Mcp: all batches of up to three messages of these kinds, and one too long. *)

Msg(method, id, size) == [method |-> method, id |-> id, size |-> size]
Kinds ==
  {Msg("ping", TRUE, 1), Msg("ping", FALSE, 1), Msg("", TRUE, 1),
   Msg("unknown", TRUE, 1), Msg("unknown", TRUE, 4),
   Msg("tools/call", TRUE, 1), Msg("tools/call", FALSE, 1),
   Msg("tools/call", TRUE, 5)}
MCBodies ==
  {[batch |-> FALSE, messages |-> <<m>>] : m \in Kinds} \cup
  {[batch |-> TRUE, messages |-> s] : s \in SeqOf(Kinds, MaxBatch)} \cup
  {[batch |-> TRUE, messages |-> [n \in 1..(MaxBatch + 1) |-> Msg("ping", TRUE, 1)]]}

(* Retention: a row in two of the logs and in the cache. *)

MCTable ==
  (searchRow :> "search_requests") @@ (userRow :> "user_request_logs")
    @@ (cacheRow :> "search_cache")
=============================================================================
