------------------------------ MODULE A2AServer ------------------------------
(***************************************************************************)
(* The inbound A2A endpoint (runtime/a2a_server.py, _handle_rpc) and the   *)
(* rows it leaves in the application database (runtime/storage.py,         *)
(* runtime/audit.py).                                                      *)
(*                                                                         *)
(* Everything but "await runner.run_agent_task" is synchronous, so one     *)
(* request at a time is between two of its awaits; but every insert is a   *)
(* transaction of its own, which may fail, and the process may die between *)
(* any two of them.                                                        *)
(*                                                                         *)
(* Left out: the contents of messages, trace ids, spans, metrics and the   *)
(* read-only admin endpoints.  agent/card and skills/list differ only in   *)
(* what they compute from the configuration ("read"); any other method is  *)
(* "unsupported".                                                          *)
(***************************************************************************)
EXTENDS Naturals, Sequences, FiniteSets

CONSTANTS
  Posts,        \* the JSON-RPC requests
  Supplied,     \* conversation ids that clients put into their requests
  NoId,         \* no conversation id in the request
  MaxRestarts   \* bound: how often the process is restarted

ASSUME ServerAssumption ==
  /\ MaxRestarts \in Nat
  /\ Supplied \cap Posts = {}
  /\ NoId \notin Supplied \cup Posts

Methods == {"message/send", "read", "unsupported"}

\* Where the handler goes on once the request is audited; a read-only method
\* answers or finds no such agent.
After(m) ==
  CASE m = "message/send" -> {"user"}
    [] m = "read" -> {"reply", "raise"}
    [] OTHER -> {"raise"}

\* The id insert_conversation generates for request p is named by p itself.
Conversations == Supplied \cup Posts

VARIABLES
  method,         \* method[p]: the method of request p
  conversation,   \* conversation[p]: the conversation id in the handler's hands
  at,             \* at[p]: what the handler of p does next
  ok,             \* ok[p]: cap_result.ok
  reply,          \* reply[p]: what the client gets if the reply reaches it
  opened,         \* the rows of table conversations
  rows,           \* the rows of messages and audit_events, in commit order
  life            \* how often the process has been restarted

svars == <<method, conversation, at, ok, reply, opened, rows, life>>

Commits == {"conversation", "received", "user", "agent", "sent"}

\* The handler of p is between two awaits, or waits for the runner.
Busy(p) == at[p] \in Commits \cup {"reply", "raise"}

Stages == {"new", "running", "done", "lost", "reply", "raise"} \cup Commits

Replies == {"none", "result", "error", "http_error"}

Kinds == {"received", "user", "agent", "sent", "sent_failed"}

Rows == [kind : Kinds, conversation : Conversations, by : Posts]

ServerTypeOK ==
  /\ method \in [Posts -> Methods \cup {"none"}]
  /\ conversation \in [Posts -> Conversations \cup {NoId}]
  /\ at \in [Posts -> Stages]
  /\ ok \in [Posts -> BOOLEAN]
  /\ reply \in [Posts -> Replies]
  /\ opened \subseteq Conversations
  /\ rows \in Seq(Rows)
  /\ life \in 0 .. MaxRestarts

ServerInit ==
  /\ method = [p \in Posts |-> "none"]
  /\ conversation = [p \in Posts |-> NoId]
  /\ at = [p \in Posts |-> "new"]
  /\ ok = [p \in Posts |-> FALSE]
  /\ reply = [p \in Posts |-> "none"]
  /\ opened = {}
  /\ rows = <<>>
  /\ life = 0

-----------------------------------------------------------------------------
Parallel == TRUE  \* faulty variant: handlers run in parallel

LoopFree == \A p \in Posts : ~Busy(p)

Go(p, stage) == at' = [at EXCEPT ![p] = stage]

\* The conversations whose id a client has been told.
Returned ==
  {conversation[q] : q \in {q \in Posts : method[q] = "message/send" /\ reply[q] = "result"}}

\* require_auth passes, and the request is looked at: it names no
\* conversation, goes on with one it was told of, or brings an id of its own.
Receive(p, m, c) ==
  /\ c \in {NoId} \cup Supplied \cup Returned
  /\ at[p] = "new" /\ LoopFree
  /\ method' = [method EXCEPT ![p] = m]
  /\ conversation' = [conversation EXCEPT ![p] = c]
  /\ Go(p, IF c = NoId THEN "conversation" ELSE "received")
  /\ UNCHANGED <<ok, reply, opened, rows, life>>

\* require_auth raises, or the request is malformed: nothing is written.
Refuse(p) ==
  /\ at[p] = "new" /\ LoopFree
  /\ Go(p, "raise")
  /\ UNCHANGED <<method, conversation, ok, reply, opened, rows, life>>

\* Faulty variant: the id is made up and its row forgotten.
NameConversation(p) ==
  /\ at[p] = "conversation"
  /\ conversation' = [conversation EXCEPT ![p] = p]
  /\ Go(p, "received")
  /\ UNCHANGED <<method, ok, reply, opened, rows, life>>

\* Faulty variant: the id of the new row is not kept.
ForgetConversation(p) ==
  /\ at[p] = "conversation"
  /\ opened' = opened \cup {p}
  /\ Go(p, "received")
  /\ UNCHANGED <<method, conversation, ok, reply, rows, life>>

OpenConversation(p) ==
  /\ at[p] = "conversation"
  /\ opened' = opened \cup {p}
  /\ conversation' = [conversation EXCEPT ![p] = p]
  /\ Go(p, "received")
  /\ UNCHANGED <<method, ok, reply, rows, life>>

Insert(p, kind) ==
  /\ rows' = Append(rows, [kind |-> kind, conversation |-> conversation[p], by |-> p])
  /\ UNCHANGED <<method, conversation, reply, opened, life>>

AuditReceived(p) ==
  /\ at[p] = "received"
  /\ Insert(p, "received")
  /\ \E stage \in After(method[p]) : Go(p, stage)
  /\ UNCHANGED ok

StoreUserMessage(p) ==
  /\ at[p] = "user"
  /\ Insert(p, "user")
  /\ Go(p, "running")
  /\ UNCHANGED ok

\* run_agent_task returns a result, of either kind.
RunnerReturns(p, good) ==
  /\ at[p] = "running" /\ LoopFree
  /\ ok' = [ok EXCEPT ![p] = good]
  /\ Go(p, IF good THEN "agent" ELSE "sent")
  /\ UNCHANGED <<method, conversation, reply, opened, rows, life>>

\* It raises: there is no skill, or the task is cancelled.
RunnerRaises(p) ==
  /\ at[p] = "running" /\ LoopFree
  /\ Go(p, "raise")
  /\ UNCHANGED <<method, conversation, ok, reply, opened, rows, life>>

StoreAgentMessage(p) ==
  /\ at[p] = "agent"
  /\ Insert(p, "agent")
  /\ Go(p, "sent")
  /\ UNCHANGED ok

\* Faulty variant: the event always says ok=True.
AuditSentOk(p) ==
  /\ at[p] = "sent"
  /\ Insert(p, "sent")
  /\ Go(p, "reply")
  /\ UNCHANGED ok

AuditSent(p) ==
  /\ at[p] = "sent"
  /\ Insert(p, IF ok[p] THEN "sent" ELSE "sent_failed")
  /\ Go(p, "reply")
  /\ UNCHANGED ok

\* An exception leaves the handler: a failed insert (its transaction is rolled
\* back, those before it stay), an output that is no JSON, or a raise above.
Raise(p) ==
  /\ at[p] \in Commits \cup {"raise"}
  /\ Go(p, "done")
  /\ reply' = [reply EXCEPT ![p] = "http_error"]
  /\ UNCHANGED <<method, conversation, ok, opened, rows, life>>

\* Faulty variant: a request whose runner fails is left without an answer.
ReplyIfOk(p) ==
  /\ at[p] = "reply" /\ (method[p] = "read" \/ ok[p])
  /\ Go(p, "done")
  /\ reply' = [reply EXCEPT ![p] = "result"]
  /\ UNCHANGED <<method, conversation, ok, opened, rows, life>>

Reply(p) ==
  /\ at[p] = "reply"
  /\ Go(p, "done")
  /\ reply' = [reply EXCEPT ![p] =
       IF method[p] = "read" \/ ok[p] THEN "result" ELSE "error"]
  /\ UNCHANGED <<method, conversation, ok, opened, rows, life>>

\* The process dies and another one starts; the database stays.
Restart ==
  /\ life < MaxRestarts
  /\ life' = life + 1
  /\ at' = [p \in Posts |-> IF Busy(p) \/ at[p] = "running" THEN "lost" ELSE at[p]]
  /\ UNCHANGED <<method, conversation, ok, reply, opened, rows>>

Handle(p) ==
  \/ OpenConversation(p)
  \/ AuditReceived(p)
  \/ StoreUserMessage(p)
  \/ StoreAgentMessage(p)
  \/ AuditSent(p)
  \/ Raise(p)
  \/ Reply(p)

Runner(p) == (\E good \in BOOLEAN : RunnerReturns(p, good)) \/ RunnerRaises(p)

ServerNext ==
  \/ \E p \in Posts, m \in Methods, c \in Conversations \cup {NoId} : Receive(p, m, c)
  \/ \E p \in Posts : Refuse(p)
  \/ \E p \in Posts : Handle(p)
  \/ \E p \in Posts : Runner(p)
  \/ Restart

ServerSpec == ServerInit /\ [][ServerNext]_svars

-----------------------------------------------------------------------------
\* The synchronous parts of a handler leave no gap: the user message follows
\* its a2a.request.received event and a2a.response.sent its agent message with
\* no row of another request between them, however requests interleave and
\* wherever the process dies.
RowsAdjacent ==
  \A i \in DOMAIN rows : rows[i].kind \in {"user", "sent"} =>
    /\ i > 1
    /\ rows[i - 1].by = rows[i].by
    /\ rows[i - 1].kind = IF rows[i].kind = "user" THEN "received" ELSE "agent"

\* A request keeps to one conversation, and one that is not named by a client
\* has its row in conversations before anything refers to it, also when a later
\* request goes on with it after a restart.
OwnConversation ==
  /\ \A i, j \in DOMAIN rows :
       rows[i].by = rows[j].by => rows[i].conversation = rows[j].conversation
  /\ \A i \in DOMAIN rows :
       rows[i].conversation \in Supplied \cup opened

\* Whatever happens, a request that was received comes to an end.
RequestsEnd == \A p \in Posts : at[p] # "new" ~> at[p] \in {"done", "lost"}

\* The rows of p among rs, by their places, and the place of the k-th of them:
\* the one up to which p has k.
Mine(rs, p) == {i \in DOMAIN rs : rs[i].by = p}

UpTo(rs, p, i) == {j \in Mine(rs, p) : j <= i}

Pick(S) == CHOOSE x \in S : TRUE

Nth(rs, p, k) == Pick({i \in Mine(rs, p) : Cardinality(UpTo(rs, p, i)) = k})

\* The kinds of the rows of p among rs, in their order.
KindsIn(rs, p) == [k \in 1 .. Cardinality(Mine(rs, p)) |-> rs[Nth(rs, p, k)].kind]

KindsOf(p) == KindsIn(rows, p)

Log == INSTANCE RequestLog WITH
  trail <- [p \in Posts |-> KindsOf(p)],
  told <- [p \in Posts |->
    IF method[p] = "message/send" /\ reply[p] \in {"result", "error"} THEN reply[p]
    ELSE "nothing"]

\* The rows of a message/send are those of RequestLog: they grow along one of
\* two paths and are complete before the client is told the outcome.
ImplementsLog == Log!LSpec
=============================================================================
