-------------------------- MODULE RemoteCallsProofs --------------------------
(***************************************************************************)
(* Proofs about RemoteCalls, for any number of calls, clients of any kind  *)
(* and any number of restarts of the server.                               *)
(***************************************************************************)
EXTENDS RemoteCalls, A2AServerProofs

\* A call whose request has not arrived is unknown to the server, and one that
\* is not made has no request.
Links ==
  \A p \in Posts :
    /\ link[p] \in {"none", "request"} => at[p] = "new" /\ method[p] = "none"
    /\ told[p] = "none" => link[p] = "none"

\* The root agent sends message/send, and takes only a result for a success.
RootCalls ==
  \A p \in Posts : client[p] = "root" =>
    /\ method[p] \in {"none", "message/send"}
    /\ told[p] = "ok" => reply[p] = "result"

\* The inductive invariant of the calls.
RemoteInv == RemoteTypeOK /\ ServerInv /\ Links /\ RootCalls

-----------------------------------------------------------------------------
\* Whatever the clients and the network do, the server takes a step of its own
\* or none.
LEMMA ServerSteps ==
  ASSUME [RemoteNext]_remoteVars
  PROVE  [ServerNext]_svars
<1>1. ASSUME NEW p \in Posts, Arrive(p)
      PROVE  ServerNext
  BY <1>1 DEF Arrive, ServerNext
<1>2. ASSUME NEW p \in Posts, Serve(p)
      PROVE  ServerNext
  BY <1>2 DEF Serve, ServerNext
<1>3. ASSUME NEW p \in Posts, (\E program \in Programs : Send(p, program)) \/ GetReply(p) \/ GiveUp(p)
      PROVE  UNCHANGED svars
  BY <1>3 DEF Send, GetReply, GiveUp
<1>4. CASE ServerRestarts
  BY <1>4 DEF ServerRestarts, ServerNext
<1>5. CASE UNCHANGED remoteVars
  BY <1>5 DEF remoteVars
<1> QED
  BY <1>1, <1>2, <1>3, <1>4, <1>5 DEF RemoteNext

\* A client posts its request, or finds its circuit open.
LEMMA SendInv ==
  ASSUME RemoteInv, NEW p \in Posts, NEW program \in Programs, Send(p, program), ServerInv'
  PROVE  RemoteInv'
<1> USE DEF RemoteInv
<1>1. UNCHANGED <<svars, circuit>> /\ told[p] = "none"
  BY DEF Send
<1>2. RemoteTypeOK'
  BY <1>1 DEF Send, Tell, RemoteTypeOK, ServerInv, Outcomes
<1>3. Links'
  BY <1>1 DEF Send, Tell, RemoteTypeOK, Links, svars
<1>4. RootCalls'
  BY <1>1 DEF Send, Tell, RemoteTypeOK, Links, RootCalls, svars
<1> QED
  BY <1>2, <1>3, <1>4

\* A request arrives: one of the root agent is a message/send.
LEMMA ArriveInv ==
  ASSUME RemoteInv, NEW p \in Posts, Arrive(p), ServerInv'
  PROVE  RemoteInv'
<1> USE DEF RemoteInv
<1>1. /\ UNCHANGED <<client, told, circuit, reply>> /\ link[p] = "request"
      /\ link' = [link EXCEPT ![p] = "served"]
      /\ \A q \in Posts \ {p} : at'[q] = at[q] /\ method'[q] = method[q]
      /\ client[p] = "root" => method'[p] \in {"none", "message/send"}
  <2>1. CASE Refuse(p)
    BY <2>1 DEF Arrive, Refuse, Go, RemoteTypeOK, ServerTypeOK, RootCalls
  <2>2. ASSUME NEW m \in Methods, NEW c \in Conversations \cup {NoId},
               client[p] # "other" => m = "message/send", Receive(p, m, c)
        PROVE  /\ UNCHANGED reply
               /\ \A q \in Posts \ {p} : at'[q] = at[q] /\ method'[q] = method[q]
               /\ client[p] = "root" => method'[p] \in {"none", "message/send"}
    BY <2>2 DEF Receive, Go, RemoteTypeOK, ServerTypeOK
  <2> QED
    BY <2>1, <2>2 DEF Arrive
<1>2. RemoteTypeOK'
  BY <1>1 DEF RemoteTypeOK, ServerInv
<1>3. Links'
  BY <1>1 DEF RemoteTypeOK, Links
<1>4. RootCalls'
  BY <1>1 DEF RootCalls
<1> QED
  BY <1>2, <1>3, <1>4

\* A handler moves: its request has arrived, and it has not replied.
LEMMA ServeInv ==
  ASSUME RemoteInv, NEW p \in Posts, Serve(p), ServerInv'
  PROVE  RemoteInv'
<1> USE DEF RemoteInv
<1>1. /\ at[p] \notin {"new", "done"} /\ UNCHANGED method
      /\ \A q \in Posts \ {p} : at'[q] = at[q] /\ reply'[q] = reply[q]
  BY DEF Serve, Handle, Runner, OpenConversation, AuditReceived, StoreUserMessage, StoreAgentMessage,
         AuditSent, Raise, Reply, RunnerReturns, RunnerRaises, Insert, Go, Commits,
         RemoteTypeOK, ServerTypeOK
<1>2. /\ UNCHANGED <<client, told, circuit>>
      /\ link' = [link EXCEPT ![p] = IF at'[p] = "done" THEN "reply" ELSE @]
  BY DEF Serve
<1>3. link[p] \notin {"none", "request"}
  BY <1>1 DEF Links
<1>4. reply[p] = "none"
  BY <1>1 DEF ServerInv, AllInLine, InLine
<1>5. RemoteTypeOK'
  BY <1>2 DEF RemoteTypeOK, ServerInv
<1>6. Links'
  BY <1>1, <1>2, <1>3 DEF RemoteTypeOK, Links
<1>7. RootCalls'
  BY <1>1, <1>2, <1>4 DEF RootCalls
<1> QED
  BY <1>5, <1>6, <1>7

\* The server restarts: requests that have not arrived are not lost by that.
LEMMA ServerRestartsInv ==
  ASSUME RemoteInv, ServerRestarts, ServerInv'
  PROVE  RemoteInv'
<1> USE DEF RemoteInv
<1>1. /\ UNCHANGED <<client, told, circuit, method, reply>>
      /\ link' = [p \in Posts |-> IF at'[p] = "lost" THEN "gone" ELSE link[p]]
      /\ \A p \in Posts : at'[p] = "lost" \/ at'[p] = at[p]
      /\ \A p \in Posts : at[p] = "new" => at'[p] = "new"
  BY DEF ServerRestarts, Restart, Busy, Commits
<1>2. RemoteTypeOK'
  BY <1>1 DEF RemoteTypeOK, ServerInv
<1>3. Links'
  BY <1>1 DEF Links
<1>4. RootCalls'
  BY <1>1 DEF RootCalls
<1> QED
  BY <1>2, <1>3, <1>4

\* A client's post raises.
LEMMA FailsType ==
  ASSUME RemoteTypeOK, NEW p \in Posts, Fails(p)
  PROVE  /\ circuit' \in [failures : Nat, open : BOOLEAN]
         /\ \E outcome \in {"raised", "failed"} : told' = [told EXCEPT ![p] = outcome]
BY DEF RemoteTypeOK, Fails, Tell

\* A client gets its reply.
LEMMA GetReplyInv ==
  ASSUME RemoteInv, NEW p \in Posts, GetReply(p), ServerInv'
  PROVE  RemoteInv'
<1> USE DEF RemoteInv
<1>1. /\ UNCHANGED <<svars, client>> /\ told[p] = "waiting" /\ link[p] = "reply"
      /\ link' = [link EXCEPT ![p] = "gone"]
  BY DEF GetReply, Waiting
<1>2. PICK outcome \in Outcomes :
        /\ told' = [told EXCEPT ![p] = outcome]
        /\ outcome = "ok" => TakesForSuccess(p)
  BY FailsType DEF GetReply, Tell, Outcomes
<1>3. circuit' \in [failures : Nat, open : BOOLEAN]
  BY FailsType DEF GetReply, RemoteTypeOK
<1>4. RemoteTypeOK'
  BY <1>1, <1>2, <1>3 DEF RemoteTypeOK, ServerInv
<1>5. Links'
  BY <1>1, <1>2 DEF RemoteTypeOK, Links, Outcomes, svars
<1>6. RootCalls'
  BY <1>1, <1>2 DEF RemoteTypeOK, RootCalls, TakesForSuccess, svars
<1> QED
  BY <1>4, <1>5, <1>6

\* A client gives up.
LEMMA GiveUpInv ==
  ASSUME RemoteInv, NEW p \in Posts, GiveUp(p), ServerInv'
  PROVE  RemoteInv'
<1> USE DEF RemoteInv
<1>1. /\ UNCHANGED <<svars, client>> /\ told[p] = "waiting"
      /\ link' = [link EXCEPT ![p] = IF @ = "reply" THEN "gone" ELSE @]
  BY DEF GiveUp, Waiting
<1>2. PICK outcome \in {"raised", "failed"} : told' = [told EXCEPT ![p] = outcome]
  BY FailsType DEF GiveUp
<1>3. circuit' \in [failures : Nat, open : BOOLEAN]
  BY FailsType DEF GiveUp
<1>4. RemoteTypeOK'
  BY <1>1, <1>2, <1>3 DEF RemoteTypeOK, ServerInv, Outcomes
<1>5. Links'
  BY <1>1, <1>2 DEF RemoteTypeOK, Links, svars
<1>6. RootCalls'
  BY <1>1, <1>2 DEF RemoteTypeOK, RootCalls, svars
<1> QED
  BY <1>4, <1>5, <1>6

\* No call is made at first.
LEMMA RemoteInitInv == RemoteInit => RemoteInv
<1> SUFFICES ASSUME RemoteInit
             PROVE  RemoteInv
  OBVIOUS
<1>1. ServerInv
  BY ServerInitInv DEF RemoteInit
<1>2. RemoteTypeOK
  BY <1>1 DEF RemoteInit, RemoteTypeOK, ServerInv
<1>3. Links /\ RootCalls
  BY DEF RemoteInit, ServerInit, Links, RootCalls
<1> QED
  BY <1>1, <1>2, <1>3 DEF RemoteInv

\* Every step keeps the invariant.
LEMMA RemoteNextInv ==
  ASSUME RemoteInv, [RemoteNext]_remoteVars
  PROVE  RemoteInv'
<1>1. ServerInv'
  BY ServerSteps, ServerNextInv DEF RemoteInv
<1>2. CASE UNCHANGED remoteVars
  BY <1>1, <1>2 DEF remoteVars, clientVars, svars, RemoteInv, RemoteTypeOK, ServerInv, Links, RootCalls
<1> QED
  BY <1>1, <1>2, SendInv, ArriveInv, ServeInv, ServerRestartsInv, GetReplyInv, GiveUpInv DEF RemoteNext

-----------------------------------------------------------------------------
\* The inductive invariant holds of every behaviour.
THEOREM RemoteInvariant == RemoteSpec => []RemoteInv
BY RemoteInitInv, RemoteNextInv, PTL DEF RemoteSpec

\* The variables of the server and of its clients keep their types.
THEOREM RemoteType == RemoteSpec => []RemoteTypeOK
<1>1. RemoteInv => RemoteTypeOK
  BY DEF RemoteInv
<1> QED
  BY <1>1, RemoteInvariant, PTL

\* Beside its clients the server behaves as A2AServer says, so what is proved
\* of it there holds here.
LEMMA RemoteServerSpec == RemoteSpec => ServerSpec
<1>1. RemoteInit => ServerInit
  BY DEF RemoteInit
<1> QED
  BY <1>1, ServerSteps, PTL DEF RemoteSpec, ServerSpec

\* A message and its audit event stay adjacent, and a request keeps to one
\* conversation, whatever calls overlap, get lost or are given up.
THEOREM RemoteRows == RemoteSpec => [](RowsAdjacent /\ OwnConversation)
BY RemoteServerSpec, ServerRowsAdjacent, ServerOwnConversation, PTL

\* So the rows keep to RequestLog whatever the clients do.
THEOREM RemoteImplementsLog == RemoteSpec => ImplementsLog
BY RemoteServerSpec, ServerImplementsLog, PTL

\* A success of the root agent's client is one of the server: both messages of
\* the exchange and both audit events are in the database by then.
THEOREM RootAgentTruthful == RemoteSpec => []RootTruthful
<1>1. RemoteInv => RootTruthful
  <2> SUFFICES ASSUME RemoteInv, NEW p \in Posts, client[p] = "root", told[p] = "ok"
               PROVE  KindsOf(p) = Served
    BY DEF RootTruthful
  <2>1. reply[p] = "result" /\ method[p] = "message/send"
    BY DEF RemoteInv, RootCalls, ServerInv, AllInLine, InLine
  <2>2. KindsIn(rows, p) = Log!Served
    BY <2>1 DEF RemoteInv, ServerInv, AllInLine, InLine
  <2> QED
    BY <2>2 DEF KindsOf, Log!Served, Served
<1> QED
  BY <1>1, RemoteInvariant, PTL
=============================================================================
