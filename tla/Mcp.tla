--------------------------------- MODULE Mcp ---------------------------------
(***************************************************************************)
(* The POST handler of the MCP endpoint: one JSON-RPC message or a batch   *)
(* of them, admitted together, answered one after the other into a buffer  *)
(* of bounded size, with at most one call of a tool.  The client may be    *)
(* gone at any time; what a tool has done by then stays done.              *)
(*                                                                         *)
(* A message has a method, an ID or none, and the size of a reply to it;   *)
(* how a tool call ends, and how large its reply is, is left open.  The    *)
(* admission of the token is that of Gateway.                              *)
(***************************************************************************)
EXTENDS Integers, FiniteSets, SequencesExt

CONSTANTS
  Bodies,        \* what may come in: [batch, messages]
  MaxBatch,      \* maxMCPBatchRequests
  MaxDiscovery,  \* maxMCPDiscoveryBytes, in units of size
  MaxResponse,   \* maxMCPResponseBytes
  ToolSizes      \* the sizes of the replies of tools

Methods == {"ping", "tools/call", "unknown", ""}
Messages == [method : Methods, id : BOOLEAN, size : Nat]

ASSUME McpAssumption ==
  /\ \A b \in Bodies :
       /\ b.batch \in BOOLEAN /\ b.messages \in Seq(Messages)
       /\ b.batch \/ Len(b.messages) = 1
  /\ MaxBatch \in Nat \ {0}
  /\ {MaxDiscovery, MaxResponse} \subseteq Nat \ {0, 1}
  /\ MaxDiscovery <= MaxResponse
  /\ ToolSizes \subseteq Nat

VARIABLES
  stage,     \* where the handler is
  body,      \* what it works on
  canceled,  \* whether the context of the request has ended
  next,      \* the message it is at
  reply,     \* the reply to that message: whether it is an error, and its size
  buffer,    \* the messages whose replies are encoded
  bytes,     \* the size of the buffer, or of what was sent
  errors,    \* MCPErrorCount of the entry in the user request log
  status,    \* the HTTP status sent
  admitted,  \* history: whether the admission was asked for and passed
  calls,     \* history: how often the orchestrator was called
  failed     \* history: how many replies, sent or not, were errors

mcpVars == <<stage, body, canceled, next, reply, buffer, bytes, errors, status,
             admitted, calls, failed>>
message == body.messages[next]
progress == <<body, canceled, admitted>>
sent == <<bytes, status>>

-----------------------------------------------------------------------------
ToolCalls(messages) ==
  Cardinality({n \in DOMAIN messages : messages[n].method = "tools/call"})

\* mcpMethodRequiresAuth and mcpRequestsRequireAuth.
RequiresAuth(messages) ==
  \E n \in DOMAIN messages : messages[n].method \in {"tools/call", "unknown"}

\* mcpResponseLimit.
Limit(messages) == IF ToolCalls(messages) > 0 THEN MaxResponse ELSE MaxDiscovery

NoReply == [error |-> FALSE, size |-> 0]
Nothing == [batch |-> FALSE, messages |-> <<>>]
OneMore(n) == IF n < MaxBatch THEN n + 1 ELSE n

McpInit ==
  /\ stage = "idle" /\ body = Nothing /\ canceled = FALSE
  /\ next = 1 /\ reply = NoReply /\ buffer = <<>> /\ bytes = 0
  /\ errors = 0 /\ status = 0
  /\ admitted = FALSE /\ calls = 0 /\ failed = 0

Receive(b) ==
  /\ stage = "idle"
  /\ stage' = "reading" /\ body' = b
  /\ UNCHANGED <<canceled, next, reply, buffer, sent, errors, admitted, calls, failed>>

\* The client is gone, or the server closes the connection.
Cancel ==
  /\ stage \notin {"idle", "sent"}
  /\ ~canceled
  /\ canceled' = TRUE
  /\ UNCHANGED <<stage, body, next, reply, buffer, sent, errors, admitted, calls, failed>>

\* One error, and a newline, go out in place of all replies.
SendErrorOf(code, size) ==
  /\ stage' = "sent" /\ status' = code /\ bytes' = size + 1
  /\ buffer' = <<>> /\ errors' = OneMore(errors)
  /\ UNCHANGED <<progress, next, reply, calls, failed>>

SendError(code) == SendErrorOf(code, 1)

\* writeMCPError with the ID of the first message, which may be too large.
SendFirstError(code) ==
  LET m == body.messages[1]
      size == IF m.id THEN m.size ELSE 1
  IN IF size > MaxDiscovery - 1 THEN SendError(413) ELSE SendErrorOf(code, size)

\* mcpRequestCanceled.
Canceled == canceled /\ SendError(408)

\* The body: it may be unreadable, no JSON, or a batch that is empty, too long, or
\* with more than one call of a tool.
ReadBody ==
  /\ stage = "reading"
  /\ \/ Canceled
     \/ ~canceled /\ SendError(400)
     \/ /\ ~canceled
        /\ Len(body.messages) \in 1..MaxBatch
        /\ IF body.batch /\ ToolCalls(body.messages) > 1
             THEN SendFirstError(400)
             ELSE /\ stage' = "admitting"
                  /\ UNCHANGED <<progress, next, reply, buffer, sent, errors, calls, failed>>

\* mcpAuthContext, if any message needs it: else the request is anonymous.
Admit ==
  /\ stage = "admitting"
  /\ \/ /\ RequiresAuth(body.messages)
        /\ \E code \in {401, 429, 500} : SendFirstError(code)
     \/ /\ stage' = "dispatching"
        /\ admitted' = RequiresAuth(body.messages)
        /\ UNCHANGED <<body, canceled, next, reply, buffer, sent, errors, calls, failed>>

-----------------------------------------------------------------------------
(* handleMCPRequest. *)

Replies(error, size) ==
  /\ stage' = "encoding"
  /\ reply' = [error |-> error, size |-> size]
  /\ errors' = IF error THEN OneMore(errors) ELSE errors
  /\ failed' = IF error THEN failed + 1 ELSE failed
  /\ UNCHANGED <<progress, next, buffer, sent>>

\* The next message of the batch, or the end.
GoesOn ==
  /\ next' = next + 1
  /\ stage' = IF next = Len(body.messages) THEN "ending" ELSE "dispatching"
  /\ reply' = NoReply

\* A message without an ID is a notification, whatever its method: it is not run
\* and not answered.
Silent(m) == ~m.id

\* Dispatch of one message.  One that finds the client gone is answered with an
\* error, which is counted and never sent.  A tool is called after its arguments
\* and the scope of the token were found good; its own error is a result.
Dispatch ==
  /\ stage = "dispatching"
  /\ \/ body.batch /\ Canceled
     \/ canceled /\ Replies(TRUE, message.size) /\ UNCHANGED calls
     \/ /\ ~canceled /\ Silent(message)
        /\ GoesOn
        /\ UNCHANGED <<progress, buffer, sent, errors, calls, failed>>
     \/ /\ ~canceled /\ ~Silent(message)
        /\ \/ message.method = "tools/call" /\ stage' = "calling" /\ calls' = calls + 1
              /\ UNCHANGED <<progress, next, reply, buffer, sent, errors, failed>>
           \/ Replies(TRUE, message.size) /\ UNCHANGED calls
           \/ message.method = "ping" /\ Replies(FALSE, message.size) /\ UNCHANGED calls

\* The orchestrator has returned; an invalid extraction is an error.
ToolReturns ==
  /\ stage = "calling"
  /\ \/ \E size \in ToolSizes : Replies(FALSE, size)
     \/ Replies(TRUE, message.size)
  /\ UNCHANGED calls

\* A faulty variant: no room is kept for the end of the batch.
RoomToTheEnd(used) == Limit(body.messages) - used

\* What a reply may take: the end of the array, and a newline, come after it.
Room(used) ==
  IF body.batch THEN Limit(body.messages) - used - 2 ELSE Limit(body.messages) - 1

\* "[", or "," between two replies.
Opening == IF ~body.batch THEN 0 ELSE IF buffer = <<>> THEN 1 ELSE bytes + 1

Encode ==
  /\ stage = "encoding"
  /\ \/ Canceled
     \/ ~canceled /\ reply.size > Room(Opening) /\ SendError(413)
     \/ /\ ~canceled /\ reply.size <= Room(Opening)
        /\ buffer' = Append(buffer, next)
        /\ bytes' = Opening + reply.size
        /\ GoesOn
        /\ UNCHANGED <<progress, errors, status, calls, failed>>

\* The replies go out, or an acknowledgement if there are none.
Send ==
  /\ stage = "ending"
  /\ \/ Canceled
     \/ /\ ~canceled
        /\ stage' = "sent"
        /\ status' = IF buffer = <<>> THEN 202 ELSE 200
        /\ bytes' = IF buffer = <<>> THEN 0
                    ELSE IF body.batch THEN bytes + 2 ELSE bytes + 1
        /\ UNCHANGED <<progress, next, reply, buffer, errors, calls, failed>>

McpDone ==
  /\ stage = "sent"
  /\ stage' = "idle" /\ body' = Nothing /\ canceled' = FALSE
  /\ next' = 1 /\ reply' = NoReply /\ buffer' = <<>> /\ bytes' = 0
  /\ errors' = 0 /\ status' = 0
  /\ admitted' = FALSE /\ calls' = 0 /\ failed' = 0

McpNext ==
  \/ \E b \in Bodies : Receive(b)
  \/ Cancel
  \/ ReadBody \/ Admit \/ Dispatch \/ ToolReturns \/ Encode \/ Send
  \/ McpDone

McpSpec == McpInit /\ [][McpNext]_mcpVars

-----------------------------------------------------------------------------
(* Properties. *)

Awaited == {n \in DOMAIN body.messages : body.messages[n].id}
InOrder(s) == \A i, j \in DOMAIN s : i < j => s[i] < s[j]

\* What goes out is all or nothing: every message with an ID is answered, in order,
\* within the limit, or one error stands for all.  At most one tool was called, for
\* a token, and the entry counts every error, those not sent included.
BatchAnswered ==
  stage = "sent" =>
    /\ ToSet(buffer) = (IF status = 200 THEN Awaited ELSE {}) /\ InOrder(buffer)
    /\ status = 202 => Awaited = {}
    /\ status = 200 => buffer # <<>>
    /\ bytes <= Limit(body.messages)
    /\ calls <= 1 /\ (calls = 1 => admitted)
    /\ LET all == failed + IF status \in {200, 202} THEN 0 ELSE 1
       IN errors = IF all < MaxBatch THEN all ELSE MaxBatch
=============================================================================
