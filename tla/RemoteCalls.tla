----------------------------- MODULE RemoteCalls -----------------------------
(***************************************************************************)
(* The server of A2AServer together with the programs that call it over a  *)
(* network: the root agent (root_agent/a2a_client.py, message_send), the   *)
(* outbound client of another runtime (runtime/a2a_client.py,              *)
(* send_message, with its failure count and circuit flag for this server), *)
(* and any other HTTP client.  A post is one call of one of them.          *)
(*                                                                         *)
(* Requests and replies may be late, or lost: then they never arrive.  A   *)
(* client gives up at a timeout or when its connection breaks, and nothing *)
(* tells the server.  None of the clients sends a request again.           *)
(*                                                                         *)
(* Left out: token and trace headers, a restart of the clients, and what   *)
(* other clients make of their answers.                                    *)
(***************************************************************************)
EXTENDS A2AServer

CONSTANT FailureThreshold  \* resilience.circuit_breaker.failure_threshold

ASSUME RemoteAssumption == FailureThreshold \in Nat

VARIABLES
  client,   \* client[p]: the program that made call p
  link,     \* link[p]: where the request of p or its reply is
  told,     \* told[p]: the result the client's caller has got
  circuit   \* the CircuitState of the runtime's client for this server

clientVars == <<client, link, told, circuit>>
remoteVars == <<svars, clientVars>>

Programs == {"root", "runtime", "other"}

\* "raised": an exception leaves send_message.
Outcomes == {"ok", "failed", "raised", "unavailable"}

RemoteTypeOK ==
  /\ ServerTypeOK
  /\ client \in [Posts -> Programs \cup {"none"}]
  /\ link \in [Posts -> {"none", "request", "served", "reply", "gone"}]
  /\ told \in [Posts -> Outcomes \cup {"none", "waiting", "sent"}]
  /\ circuit \in [failures : Nat, open : BOOLEAN]

RemoteInit ==
  /\ ServerInit
  /\ client = [p \in Posts |-> "none"]
  /\ link = [p \in Posts |-> "none"]
  /\ told = [p \in Posts |-> "none"]
  /\ circuit = [failures |-> 0, open |-> FALSE]

-----------------------------------------------------------------------------
Waiting(p) == told[p] = "waiting"

Tell(p, outcome) == told' = [told EXCEPT ![p] = outcome]

\* The client posts its request; the runtime's looks at its circuit first.
Send(p, program) ==
  /\ told[p] = "none"
  /\ client' = [client EXCEPT ![p] = program]
  /\ IF program = "runtime" /\ circuit.open
     THEN Tell(p, "unavailable") /\ UNCHANGED link
     ELSE /\ Tell(p, IF program = "other" THEN "sent" ELSE "waiting")
          /\ link' = [link EXCEPT ![p] = "request"]
  /\ UNCHANGED <<svars, circuit>>

\* Both clients send message/send with a conversation id.
Arrive(p) ==
  /\ link[p] = "request"
  /\ link' = [link EXCEPT ![p] = "served"]
  /\ \/ Refuse(p)
     \/ \E m \in Methods, c \in Conversations \cup {NoId} :
          /\ client[p] # "other" => (m = "message/send" /\ c # NoId)
          /\ Receive(p, m, c)
  /\ UNCHANGED <<client, told, circuit>>

Serve(p) ==
  /\ Handle(p) \/ Runner(p)
  /\ link' = [link EXCEPT ![p] = IF at'[p] = "done" THEN "reply" ELSE @]
  /\ UNCHANGED <<client, told, circuit>>

ServerRestarts ==
  /\ Restart
  /\ link' = [p \in Posts |-> IF at'[p] = "lost" THEN "gone" ELSE link[p]]
  /\ UNCHANGED <<client, told, circuit>>

\* The client's post raises.  The runtime's counts that; then its comparison
\* with circuit_breaker["failure_threshold"] raises a TypeError, as the block
\* is an object and not a mapping, before the circuit is opened.
Fails(p) ==
  IF client[p] = "runtime"
  THEN /\ circuit' = [circuit EXCEPT !.failures = @ + 1]
       /\ Tell(p, "raised")
  ELSE /\ UNCHANGED circuit
       /\ Tell(p, "failed")

\* Faulty variant: "error" in the response is not looked at.
TakesAnyAnswer(p) == TRUE

\* The root agent's client looks for "error" in the response, the runtime's
\* does not: a response with status 200 is a success to it.
TakesForSuccess(p) == reply[p] = "result" \/ (client[p] = "runtime" /\ reply[p] = "error")

GetReply(p) ==
  /\ Waiting(p) /\ link[p] = "reply"
  /\ link' = [link EXCEPT ![p] = "gone"]
  /\ IF TakesForSuccess(p)
     THEN /\ circuit' = IF client[p] = "runtime" THEN [circuit EXCEPT !.failures = 0]
                        ELSE circuit
          /\ Tell(p, "ok")
     ELSE Fails(p)
  /\ UNCHANGED <<svars, client>>

\* Faulty variant: there is no timeout.
GiveUpIfBroken(p) ==
  /\ Waiting(p) /\ at[p] = "lost"
  /\ Fails(p)
  /\ UNCHANGED <<svars, client, link>>

\* A timeout of httpx, or the connection breaks.  A request that is under way
\* may still arrive, and the handler of one that has goes on.
GiveUp(p) ==
  /\ Waiting(p)
  /\ link' = [link EXCEPT ![p] = IF @ = "reply" THEN "gone" ELSE @]
  /\ Fails(p)
  /\ UNCHANGED <<svars, client>>

RemoteNext ==
  \/ \E p \in Posts, program \in Programs : Send(p, program)
  \/ \E p \in Posts : Arrive(p) \/ Serve(p) \/ GetReply(p) \/ GiveUp(p)
  \/ ServerRestarts

RemoteSpec == RemoteInit /\ [][RemoteNext]_remoteVars

\* The server's loop and its runner go on; a client never waits for ever, as
\* httpx.Timeout bounds each of its waits.
FairRemoteSpec ==
  /\ RemoteSpec
  /\ \A p \in Posts : WF_remoteVars(Serve(p)) /\ WF_remoteVars(GetReply(p) \/ GiveUp(p))

-----------------------------------------------------------------------------
Served == <<"received", "user", "agent", "sent">>

\* A success of the root agent's client is one of the server: whatever is lost,
\* late or restarted, both messages of the exchange and both audit events are
\* in the database before message_send returns ok.
RootTruthful ==
  \A p \in Posts : (client[p] = "root" /\ told[p] = "ok") => KindsOf(p) = Served

\* Every call of a client ends and so does its request, if it has arrived; a
\* call that is given up is not waited for by the server.
CallsEnd ==
  \A p \in Posts : Waiting(p) ~>
    (told[p] \in Outcomes /\ (link[p] = "request" \/ at[p] \in {"new", "done", "lost"}))

-----------------------------------------------------------------------------
\* Closed -> Open after failure_threshold consecutive failures (05-a2a.md 3.5).
OpensAtThreshold == circuit.failures >= FailureThreshold => circuit.open
=============================================================================
