--------------------------- MODULE RootAgentProofs ---------------------------
(***************************************************************************)
(* Proofs about RootAgent, for any number of requests, conversations,      *)
(* capabilities, plans and refreshes.                                      *)
(***************************************************************************)
EXTENDS RootAgent, DiscoveryProofs

\* What the stage, plan, trail, result and catalog of one request have to do
\* with each other.  Only the last step of a request that failed is not ok.
Along(st, pl, tr, res, cat) ==
  /\ st \in {"new", "judging", "planning", "workflow"} => pl = <<>> /\ tr = <<>>
  /\ st \in {"step", "spawned"} => Len(tr) < Len(pl)
  /\ Len(tr) <= Len(pl)
  /\ \A i \in 1 .. Len(pl) : pl[i] \in cat \ {Workflows}
  /\ st = "workflow" => Workflows \in cat
  /\ \A i \in 1 .. Len(tr) : tr[i] = TRUE \/ (i = Len(tr) /\ res = "failed")
  /\ res = "none" <=> st # "done"
  /\ (res = "ok" /\ pl # <<>>) => Len(tr) = Len(pl)
  /\ (res = "failed" /\ pl # <<>>) => (Len(tr) > 0 /\ tr[Len(tr)] = FALSE)
  /\ res = "no_llm" => pl = <<>>

AllAlong ==
  \A r \in Requests : Along(stage[r], plan[r], trail[r], result[r], catalog[r])

\* A process whose exit the handler has yet to see is no longer running.
ExitsSeen ==
  \A r \in Requests : exit[r] # "none" =>
    stage[r] = "spawned" /\ <<r, Len(trail[r]) + 1>> \notin alive

\* The inductive invariant of the requests.
RootInv == RootTypeOK /\ AllAlong /\ ExitsSeen /\ ProcessesAccounted /\ NotesAreResponses

-----------------------------------------------------------------------------
(* The parts of handle_request between two awaits.                         *)

\* A response keeps the types.
LEMMA ReturnType ==
  ASSUME RootTypeOK, NEW r \in Requests, NEW res \in {"ok", "failed"}, Return(r, res)
  PROVE  /\ stage' \in [Requests -> Stages]
         /\ result' \in [Requests -> {"none", "ok", "failed", "no_llm"}]
         /\ notes' \in [Conversations -> Seq(Requests)]
         /\ alive' \subseteq Requests \X Nat
BY RootAssumption DEF RootTypeOK, Return, Goes, Stages, Conversations

\* So does an exception that leaves the request.
LEMMA RaiseOutType ==
  ASSUME RootTypeOK, NEW r \in Requests, RaiseOut(r)
  PROVE  /\ stage' \in [Requests -> Stages]
         /\ result' \in [Requests -> {"none", "ok", "failed", "no_llm"}]
         /\ notes' \in [Conversations -> Seq(Requests)]
         /\ alive' \subseteq Requests \X Nat
BY DEF RootTypeOK, RaiseOut, Goes, Stages

\* So does the beginning of a step.
LEMMA ExecuteType ==
  ASSUME RootTypeOK, NEW r \in Requests, NEW p, NEW t \in Seq(BOOLEAN), Execute(r, p, t)
  PROVE  /\ stage' \in [Requests -> Stages]
         /\ trail' \in [Requests -> Seq(BOOLEAN)]
         /\ result' \in [Requests -> {"none", "ok", "failed", "no_llm"}]
         /\ notes' \in [Conversations -> Seq(Requests)]
         /\ alive' \subseteq Requests \X Nat
<1>1. Append(t, FALSE) \in Seq(BOOLEAN) /\ Len(t) + 1 \in Nat
  OBVIOUS
<1>2. CASE /\ trail' = [trail EXCEPT ![r] = Append(t, FALSE)]
           /\ Return(r, "failed")
  BY <1>1, <1>2, ReturnType DEF RootTypeOK
<1>3. CASE /\ trail' = [trail EXCEPT ![r] = t]
           /\ Goes(r, "spawned")
           /\ alive' = alive \cup {<<r, Len(t) + 1>>}
           /\ UNCHANGED <<result, notes>>
  BY <1>1, <1>3 DEF RootTypeOK, Goes, Stages
<1>4. CASE /\ trail' = [trail EXCEPT ![r] = t]
           /\ Goes(r, "step")
           /\ UNCHANGED <<result, notes, alive>>
  BY <1>4 DEF RootTypeOK, Goes, Stages
<1> QED
  BY <1>2, <1>3, <1>4 DEF Execute

\* And the end of one.
LEMMA StepDoneType ==
  ASSUME RootTypeOK, NEW r \in Requests, NEW good \in BOOLEAN, StepDone(r, good)
  PROVE  /\ stage' \in [Requests -> Stages]
         /\ trail' \in [Requests -> Seq(BOOLEAN)]
         /\ result' \in [Requests -> {"none", "ok", "failed", "no_llm"}]
         /\ notes' \in [Conversations -> Seq(Requests)]
         /\ alive' \subseteq Requests \X Nat
<1> DEFINE t == Append(trail[r], good)
<1>1. t \in Seq(BOOLEAN)
  BY DEF RootTypeOK
<1> HIDE DEF t
<1>2. CASE trail' = [trail EXCEPT ![r] = t] /\ Return(r, IF good THEN "ok" ELSE "failed")
  <2>1. trail' \in [Requests -> Seq(BOOLEAN)]
    BY <1>1, <1>2 DEF RootTypeOK
  <2> QED
    BY <1>2, <2>1, ReturnType
<1>3. CASE trail' = [trail EXCEPT ![r] = t] /\ RaiseOut(r)
  <2>1. trail' \in [Requests -> Seq(BOOLEAN)]
    BY <1>1, <1>3 DEF RootTypeOK
  <2> QED
    BY <1>3, <2>1, RaiseOutType
<1>4. CASE Execute(r, plan[r], t)
  BY <1>1, <1>4, ExecuteType
<1> QED
  BY <1>2, <1>3, <1>4 DEF StepDone, t

\* A step is begun when those before it were ok: r awaits it, or has failed
\* with it as its last.
LEMMA ExecuteAlong ==
  ASSUME RootTypeOK, NEW r \in Requests, NEW p \in Seq(Capabilities), NEW t \in Seq(BOOLEAN),
         Len(t) < Len(p), Execute(r, p, t), result[r] = "none",
         \A k \in 1 .. Len(t) : t[k] = TRUE,
         \A k \in 1 .. Len(p) : p[k] \in catalog[r] \ {Workflows}
  PROVE  /\ Along(stage'[r], p, trail'[r], result'[r], catalog[r])
         /\ \A q \in Requests \ {r} :
              stage'[q] = stage[q] /\ trail'[q] = trail[q] /\ result'[q] = result[q]
<1>1. Len(t) \in Nat /\ Len(p) \in Nat
  OBVIOUS
<1>2. CASE /\ trail' = [trail EXCEPT ![r] = Append(t, FALSE)]
           /\ Return(r, "failed")
  <2> DEFINE u == Append(t, FALSE)
  <2>1. /\ Len(u) = Len(t) + 1 /\ u[Len(t) + 1] = FALSE
        /\ \A k \in 1 .. Len(t) + 1 : u[k] = TRUE \/ k = Len(t) + 1
    <3>1. /\ Len(u) = Len(t) + 1 /\ u[Len(t) + 1] = FALSE
          /\ \A k \in 1 .. Len(t) : u[k] = t[k]
      OBVIOUS
    <3> HIDE DEF u
    <3> QED
      BY <1>1, <3>1
  <2>2. stage'[r] = "done" /\ result'[r] = "failed" /\ trail'[r] = u
    BY <1>2 DEF Return, Goes, RootTypeOK
  <2> HIDE DEF u
  <2>3. Along("done", p, u, "failed", catalog[r])
    BY <1>1, <2>1 DEF Along
  <2> QED
    BY <1>2, <2>2, <2>3 DEF Return, Goes, RootTypeOK
<1>3. CASE /\ Goes(r, "spawned") \/ Goes(r, "step")
           /\ trail' = [trail EXCEPT ![r] = t]
           /\ UNCHANGED result
  <2>1. stage'[r] \in {"step", "spawned"} /\ result'[r] = "none" /\ trail'[r] = t
    BY <1>3 DEF Goes, RootTypeOK
  <2>2. \A st \in {"step", "spawned"} : Along(st, p, t, "none", catalog[r])
    BY <1>1 DEF Along
  <2> QED
    BY <1>3, <2>1, <2>2 DEF Goes, RootTypeOK
<1> QED
  BY <1>2, <1>3 DEF Execute

\* The end of a step takes r along its plan.
LEMMA StepDoneAlong ==
  ASSUME RootTypeOK, AllAlong, NEW r \in Requests, NEW good \in BOOLEAN,
         stage[r] \in {"step", "spawned"}, StepDone(r, good)
  PROVE  /\ Along(stage'[r], plan[r], trail'[r], result'[r], catalog[r])
         /\ \A q \in Requests \ {r} :
              stage'[q] = stage[q] /\ trail'[q] = trail[q] /\ result'[q] = result[q]
<1> DEFINE n == Len(trail[r])
           t == Append(trail[r], good)
<1>1. /\ n \in Nat /\ n < Len(plan[r]) /\ Len(plan[r]) \in Nat
      /\ plan[r] \in Seq(Capabilities) /\ trail[r] \in Seq(BOOLEAN)
      /\ result[r] = "none"
      /\ \A k \in 1 .. Len(plan[r]) : plan[r][k] \in catalog[r] \ {Workflows}
      /\ \A k \in 1 .. n : trail[r][k] = TRUE
  BY DEF RootTypeOK, AllAlong, Along
<1>2. /\ Len(t) = n + 1 /\ t[n + 1] = good
      /\ \A k \in 1 .. n : t[k] = TRUE
  BY <1>1
<1>2a. ASSUME good = TRUE
       PROVE  \A k \in 1 .. n + 1 : t[k] = TRUE
  <2>1. t = Append(trail[r], TRUE)
    BY <1>2a
  <2> HIDE DEF t
  <2> QED
    BY <1>1, <2>1
<1>3. CASE trail' = [trail EXCEPT ![r] = t] /\ good = FALSE /\ Return(r, "failed")
  <2>1. stage'[r] = "done" /\ result'[r] = "failed" /\ trail'[r] = t
    BY <1>3 DEF Return, Goes, RootTypeOK
  <2> HIDE DEF t
  <2>2. Along("done", plan[r], t, "failed", catalog[r])
    BY <1>1, <1>2, <1>3 DEF Along
  <2> QED
    BY <1>3, <2>1, <2>2 DEF Return, Goes, RootTypeOK
<1>4. CASE trail' = [trail EXCEPT ![r] = t] /\ good = TRUE /\ n + 1 = Len(plan[r]) /\ Return(r, "ok")
  <2>1. stage'[r] = "done" /\ result'[r] = "ok" /\ trail'[r] = t
    BY <1>4 DEF Return, Goes, RootTypeOK
  <2> HIDE DEF t
  <2>2. (\A k \in 1 .. n + 1 : t[k] = TRUE) /\ n + 1 = Len(plan[r])
    BY <1>2a, <1>4
  <2>3. Len(t) = n + 1
    BY <1>2
  <2>4. Along("done", plan[r], t, "ok", catalog[r])
    BY <1>1, <2>2, <2>3 DEF Along
  <2> QED
    BY <1>4, <2>1, <2>4 DEF Return, Goes, RootTypeOK
<1>5. CASE trail' = [trail EXCEPT ![r] = t] /\ good = TRUE /\ RaiseOut(r)
  <2>1. stage'[r] = "raised" /\ result'[r] = "none" /\ trail'[r] = t
    BY <1>1, <1>5 DEF RaiseOut, Goes, RootTypeOK
  <2> HIDE DEF t
  <2>2. (\A k \in 1 .. n + 1 : t[k] = TRUE)
    BY <1>2a, <1>5
  <2>3. Len(t) = n + 1
    BY <1>2
  <2>4. Along("raised", plan[r], t, "none", catalog[r])
    BY <1>1, <2>2, <2>3 DEF Along
  <2> QED
    BY <1>5, <2>1, <2>4 DEF RaiseOut, Goes, RootTypeOK
<1>6. CASE good = TRUE /\ n + 1 # Len(plan[r]) /\ Execute(r, plan[r], t)
  <2>1. t \in Seq(BOOLEAN)
    BY <1>1
  <2> HIDE DEF t
  <2>2. Len(t) = n + 1
    BY <1>2
  <2>3. \A k \in 1 .. n + 1 : t[k] = TRUE
    BY <1>2a, <1>6
  <2>4. Len(t) < Len(plan[r])
    BY <1>1, <1>6, <2>2
  <2>5. \A k \in 1 .. Len(t) : t[k] = TRUE
    BY <2>2, <2>3
  <2> QED
    BY <1>1, <1>6, <2>1, <2>4, <2>5, ExecuteAlong
<1> QED
  BY <1>2, <1>3, <1>4, <1>5, <1>6 DEF StepDone

\* If no process of r is running when a step of r is begun, the one it may
\* start is that of the current step.
LEMMA ExecuteProcesses ==
  ASSUME RootTypeOK, ExitsSeen, ProcessesAccounted, NEW r \in Requests,
         NEW p, NEW t \in Seq(BOOLEAN), Execute(r, p, t), result[r] = "none",
         \A process \in alive : process[1] # r,
         exit' = [exit EXCEPT ![r] = "none"]
  PROVE  ExitsSeen' /\ ProcessesAccounted'
<1> DEFINE i == Len(t) + 1
<1>1. i \in Nat
  OBVIOUS
<1>2. alive \subseteq Requests \X Nat
  BY DEF RootTypeOK
<1>3. CASE alive' = alive /\ trail'[r] \in Seq(BOOLEAN)
           /\ \A q \in Requests \ {r} :
                stage'[q] = stage[q] /\ trail'[q] = trail[q] /\ result'[q] = result[q]
  <2>1. exit'[r] = "none" /\ \A q \in Requests \ {r} : exit'[q] = exit[q]
    BY DEF RootTypeOK
  <2>2. ExitsSeen'
    BY <1>3, <2>1 DEF ExitsSeen
  <2>3. ProcessesAccounted'
    BY <1>2, <1>3 DEF ProcessesAccounted
  <2> QED
    BY <2>2, <2>3
<1>4. CASE /\ Goes(r, "spawned")
           /\ alive' = alive \cup {<<r, i>>}
           /\ trail' = [trail EXCEPT ![r] = t]
           /\ UNCHANGED <<result, notes>>
  <2>1. trail'[r] = t /\ stage'[r] = "spawned"
    BY <1>4 DEF RootTypeOK, Goes
  <2>2. \A q \in Requests \ {r} :
          stage'[q] = stage[q] /\ trail'[q] = trail[q] /\ result'[q] = result[q]
    BY <1>4 DEF RootTypeOK, Goes
  <2>3. ExitsSeen'
    BY <1>4, <2>1, <2>2 DEF ExitsSeen, RootTypeOK
  <2>4. ProcessesAccounted'
    BY <1>1, <1>2, <1>4, <2>1, <2>2 DEF ProcessesAccounted
  <2> QED
    BY <2>3, <2>4
<1>5. CASE alive' = alive
  BY <1>3, <1>5, ExecuteType DEF Execute, Return, Goes, RootTypeOK
<1> QED
  BY <1>4, <1>5 DEF Execute, Return

\* The end of a step, when a process of r that still runs is that of the step,
\* and none does if the step was ok.
LEMMA StepDoneProcesses ==
  ASSUME RootTypeOK, ExitsSeen, ProcessesAccounted, NEW r \in Requests,
         NEW good \in BOOLEAN, StepDone(r, good), result[r] = "none",
         good => \A process \in alive : process[1] # r,
         \A process \in alive : process[1] = r => process[2] = Len(trail[r]) + 1,
         exit' = [exit EXCEPT ![r] = "none"]
  PROVE  ExitsSeen' /\ ProcessesAccounted'
<1> DEFINE n == Len(trail[r])
<1>1. n \in Nat /\ alive \subseteq Requests \X Nat /\ exit'[r] = "none"
  BY DEF RootTypeOK
<1>2. CASE good /\ Execute(r, plan[r], Append(trail[r], good))
  <2>1. Append(trail[r], good) \in Seq(BOOLEAN)
    BY DEF RootTypeOK
  <2> QED
    BY <1>2, <2>1, ExecuteProcesses
<1>3. CASE /\ trail' = [trail EXCEPT ![r] = Append(@, good)]
           /\ \/ good /\ (Return(r, "ok") \/ RaiseOut(r))
              \/ ~good /\ Return(r, "failed")
  <2>1. Len(trail'[r]) = n + 1
    BY <1>3 DEF RootTypeOK
  <2>2. \A q \in Requests \ {r} :
          /\ stage'[q] = stage[q] /\ trail'[q] = trail[q]
          /\ result'[q] = result[q] /\ exit'[q] = exit[q]
    BY <1>3 DEF RootTypeOK, Return, RaiseOut, Goes
  <2>3. alive' = alive /\ (~good => result'[r] = "failed")
    BY <1>3 DEF RootTypeOK, Return, RaiseOut
  <2>4. ExitsSeen'
    BY <1>1, <2>2, <2>3 DEF ExitsSeen
  <2>5. ProcessesAccounted'
    BY <1>1, <2>1, <2>2, <2>3 DEF ProcessesAccounted
  <2> QED
    BY <2>4, <2>5
<1> QED
  BY <1>2, <1>3 DEF StepDone

\* What is new to a sequence without repetitions can be appended to it.
LEMMA AppendOnce ==
  ASSUME NEW S, NEW s \in Seq(S), NEW x \in S,
         \A k \in DOMAIN s : s[k] # x,
         \A k, l \in DOMAIN s : s[k] = s[l] => k = l
  PROVE  /\ \A k, l \in DOMAIN Append(s, x) : Append(s, x)[k] = Append(s, x)[l] => k = l
         /\ \A y : (\E k \in DOMAIN Append(s, x) : Append(s, x)[k] = y) <=>
                   ((\E k \in DOMAIN s : s[k] = y) \/ y = x)
<1> DEFINE t == Append(s, x)
           n == Len(s)
<1>1. /\ n \in Nat /\ DOMAIN s = 1 .. n /\ DOMAIN t = 1 .. n + 1
      /\ \A k \in 1 .. n : t[k] = s[k]
      /\ t[n + 1] = x
  OBVIOUS
<1> HIDE DEF t, n
<1>2. \A k \in 1 .. n + 1 : k \in 1 .. n \/ k = n + 1
  BY <1>1
<1>3. \A k \in 1 .. n : k \in 1 .. n + 1
  BY <1>1
<1>4. n + 1 \in 1 .. n + 1
  BY <1>1
<1>5. \A k, l \in DOMAIN t : t[k] = t[l] => k = l
  BY <1>1, <1>2
<1>6. \A y : (\E k \in DOMAIN t : t[k] = y) <=> ((\E k \in DOMAIN s : s[k] = y) \/ y = x)
  <2> SUFFICES ASSUME NEW y
               PROVE  (\E k \in 1 .. n + 1 : t[k] = y) <=> ((\E k \in 1 .. n : s[k] = y) \/ y = x)
    BY <1>1
  <2>1. ASSUME NEW k \in 1 .. n + 1, t[k] = y
        PROVE  (\E l \in 1 .. n : s[l] = y) \/ y = x
    BY <1>1, <1>2, <2>1
  <2>2. ASSUME NEW k \in 1 .. n, s[k] = y
        PROVE  \E l \in 1 .. n + 1 : t[l] = y
    BY <1>1, <1>3, <2>2
  <2> QED
    BY <1>1, <1>4, <2>1, <2>2
<1> QED
  BY <1>5, <1>6 DEF t

\* The note of a response is the first of its request.
LEMMA ReturnNotes ==
  ASSUME RootTypeOK, NotesAreResponses, NEW r \in Requests, NEW res \in {"ok", "failed"},
         Return(r, res), result[r] = "none"
  PROVE  NotesAreResponses'
<1> DEFINE c == Conversation[r]
           old == notes[c]
           new == Append(old, r)
<1>1. c \in Conversations /\ old \in Seq(Requests)
  BY DEF RootTypeOK, Conversations
<1>2. /\ notes'[c] = new
      /\ \A d \in Conversations \ {c} : notes'[d] = notes[d]
      /\ result'[r] = res
      /\ \A q \in Requests \ {r} : result'[q] = result[q]
  BY <1>1 DEF RootTypeOK, Return
<1>3. /\ \A q \in Requests :
           (\E k \in DOMAIN old : old[k] = q) <=>
             (Conversation[q] = c /\ result[q] \in {"ok", "failed"})
      /\ \A k, l \in DOMAIN old : old[k] = old[l] => k = l
      /\ \A k \in DOMAIN old : old[k] # r
  BY <1>1 DEF NotesAreResponses
<1>4. /\ \A k, l \in DOMAIN new : new[k] = new[l] => k = l
      /\ \A q : (\E k \in DOMAIN new : new[k] = q) <=>
               ((\E k \in DOMAIN old : old[k] = q) \/ q = r)
  <2> HIDE DEF old
  <2> QED
    BY <1>1, <1>3, AppendOnce
<1> SUFFICES ASSUME NEW d \in Conversations
             PROVE  /\ \A q \in Requests :
                         (\E k \in DOMAIN notes'[d] : notes'[d][k] = q) <=>
                           (Conversation[q] = d /\ result'[q] \in {"ok", "failed"})
                    /\ \A k, l \in DOMAIN notes'[d] : notes'[d][k] = notes'[d][l] => k = l
  BY DEF NotesAreResponses
<1>5. CASE d # c
  BY <1>2, <1>5 DEF NotesAreResponses
<1>6. CASE d = c
  <2> HIDE DEF old, new
  <2>1. ASSUME NEW q \in Requests
        PROVE  (\E k \in DOMAIN new : new[k] = q) <=>
                 (Conversation[q] = c /\ result'[q] \in {"ok", "failed"})
    <3>1. CASE q = r
      BY <1>2, <1>4, <3>1
    <3>2. CASE q # r
      BY <1>2, <1>3, <1>4, <3>2
    <3> QED
      BY <3>1, <3>2
  <2> QED
    BY <1>2, <1>4, <1>6, <2>1
<1> QED
  BY <1>5, <1>6

\* A step that is begun or over leaves the notes as they are, or returns.
LEMMA StepDoneNotes ==
  ASSUME RootTypeOK, NotesAreResponses, NEW r \in Requests, result[r] = "none",
         \/ \E good \in BOOLEAN : StepDone(r, good)
         \/ \E p, t : Execute(r, p, t)
         \/ RaiseOut(r)
  PROVE  NotesAreResponses'
<1>1. CASE \E res \in {"ok", "failed"} : Return(r, res)
  BY <1>1, ReturnNotes
<1>2. CASE UNCHANGED <<result, notes>>
  BY <1>2 DEF NotesAreResponses
<1> QED
  BY <1>1, <1>2 DEF StepDone, Execute, RaiseOut

-----------------------------------------------------------------------------
(* One lemma for each kind of step, then the theorems.                     *)

\* What a catalog offers are capabilities.
LEMMA OffersType ==
  ASSUME DiscoveryTypeOK
  PROVE  Offers \subseteq Capabilities
<1>1. /\ AgentsOf(cache) \in Seq(Agents)
      /\ DOMAIN cache.status = 1 .. Len(AgentsOf(cache))
  BY AgentsOfType DEF DiscoveryTypeOK, Views
<1>2. \A i \in DOMAIN cache.status : AgentsOf(cache)[i] \in Agents
  BY <1>1
<1> QED
  BY <1>2, RootAssumption DEF Offers, Capabilities

\* What RootInv says of the other requests when only r moves.
LEMMA OthersAlong ==
  ASSUME AllAlong, NEW r \in Requests,
         Along(stage'[r], plan'[r], trail'[r], result'[r], catalog'[r]),
         \A q \in Requests \ {r} :
           /\ stage'[q] = stage[q] /\ plan'[q] = plan[q] /\ trail'[q] = trail[q]
           /\ result'[q] = result[q] /\ catalog'[q] = catalog[q]
  PROVE  AllAlong'
<1> SUFFICES ASSUME NEW q \in Requests
             PROVE  Along(stage'[q], plan'[q], trail'[q], result'[q], catalog'[q])
  BY DEF AllAlong
<1>1. CASE q = r
  BY <1>1
<1>2. CASE q # r
  BY <1>2 DEF AllAlong
<1> QED
  BY <1>1, <1>2

\* A request without processes may change its stage as long as it awaits none.
LEMMA StageProcesses ==
  ASSUME RootTypeOK, ExitsSeen, ProcessesAccounted, NEW r \in Requests,
         stage[r] # "spawned", result[r] = "none",
         \A q \in Requests \ {r} :
           stage'[q] = stage[q] /\ result'[q] = result[q],
         UNCHANGED <<trail, exit, alive>>
  PROVE  ExitsSeen' /\ ProcessesAccounted'
<1>1. \A process \in alive : process[1] \in Requests /\ process[1] # r
  BY DEF ProcessesAccounted, RootTypeOK
<1> QED
  BY <1>1 DEF ExitsSeen, ProcessesAccounted

\* A request begins: without an LLM it is answered and leaves no note.
LEMMA AskInv ==
  ASSUME RootInv, NEW r \in Requests, Ask(r)
  PROVE  RootInv'
<1> USE DEF RootInv
<1>1. DiscoveryTypeOK /\ DiscoveryTypeOK'
  BY DiscoveryStepType DEF Ask, RootTypeOK
<1>2. RootTypeOK'
  BY <1>1, OffersType DEF Ask, Goes, RootTypeOK, Stages
<1>3. /\ plan[r] = <<>> /\ trail[r] = <<>> /\ result[r] = "none"
  BY DEF Ask, AllAlong, Along
<1>4. AllAlong'
  <2>1. Along(stage'[r], plan'[r], trail'[r], result'[r], catalog'[r])
    BY <1>3 DEF Ask, Goes, RootTypeOK, Along
  <2> QED
    BY <2>1, OthersAlong DEF Ask, Goes, RootTypeOK
<1>5. ExitsSeen' /\ ProcessesAccounted'
  BY <1>3, StageProcesses DEF Ask, Goes, RootTypeOK
<1>6. NotesAreResponses'
  <2>1. \A q \in Requests :
          result'[q] \in {"ok", "failed"} <=> result[q] \in {"ok", "failed"}
    BY <1>3 DEF Ask, RootTypeOK
  <2>2. UNCHANGED notes
    BY DEF Ask
  <2> QED
    BY <2>1, <2>2 DEF NotesAreResponses
<1> QED
  BY <1>2, <1>4, <1>5, <1>6

\* The judge chooses between a workflow of the catalog and a plan.
LEMMA JudgeInv ==
  ASSUME RootInv, NEW r \in Requests, NEW choice, JudgeDecides(r, choice)
  PROVE  RootInv'
<1> USE DEF RootInv
<1>1. RootTypeOK'
  BY DiscoveryStepType DEF JudgeDecides, Goes, RootTypeOK, Stages
<1>2. AllAlong'
  <2>1. Along(stage'[r], plan'[r], trail'[r], result'[r], catalog'[r])
    BY DEF JudgeDecides, Goes, RootTypeOK, AllAlong, Along
  <2> QED
    BY <2>1, OthersAlong DEF JudgeDecides, Goes, RootTypeOK
<1>3. result[r] = "none"
  BY DEF JudgeDecides, AllAlong, Along
<1>4. ExitsSeen' /\ ProcessesAccounted'
  BY <1>3, StageProcesses DEF JudgeDecides, Goes, RootTypeOK
<1>5. NotesAreResponses'
  BY DEF JudgeDecides, NotesAreResponses
<1> QED
  BY <1>1, <1>2, <1>4, <1>5

\* The LLM raises before anything has been begun.
LEMMA LlmRaisesInv ==
  ASSUME RootInv, NEW r \in Requests, LlmRaises(r)
  PROVE  RootInv'
<1> USE DEF RootInv
<1>1. RootTypeOK'
  BY DiscoveryStepType, RaiseOutType DEF LlmRaises, RootTypeOK
<1>2. result[r] = "none" /\ plan[r] = <<>> /\ trail[r] = <<>>
  BY DEF LlmRaises, AllAlong, Along
<1>3. AllAlong'
  <2>1. Along(stage'[r], plan'[r], trail'[r], result'[r], catalog'[r])
    BY <1>2 DEF LlmRaises, RaiseOut, Goes, RootTypeOK, Along
  <2> QED
    BY <2>1, OthersAlong DEF LlmRaises, RaiseOut, Goes, RootTypeOK
<1>4. ExitsSeen' /\ ProcessesAccounted'
  BY <1>2, StageProcesses DEF LlmRaises, RaiseOut, Goes, RootTypeOK
<1>5. NotesAreResponses'
  BY <1>2, StepDoneNotes DEF LlmRaises
<1> QED
  BY <1>1, <1>3, <1>4, <1>5

\* A workflow has answered, and the request has no plan.
LEMMA WorkflowAnswersInv ==
  ASSUME RootInv, NEW r \in Requests, NEW good \in BOOLEAN, WorkflowAnswers(r, good)
  PROVE  RootInv'
<1> USE DEF RootInv
<1>1. PICK res \in {"ok", "failed"} : Return(r, res)
  BY DEF WorkflowAnswers
<1>2. RootTypeOK'
  BY <1>1, DiscoveryStepType, ReturnType DEF WorkflowAnswers, RootTypeOK
<1>3. result[r] = "none" /\ plan[r] = <<>> /\ trail[r] = <<>> /\ stage[r] = "workflow"
  BY DEF WorkflowAnswers, AllAlong, Along
<1>4. AllAlong'
  <2>1. stage'[r] = "done" /\ result'[r] = res /\ plan'[r] = <<>> /\ trail'[r] = <<>>
    BY <1>1, <1>3 DEF WorkflowAnswers, Return, Goes, RootTypeOK
  <2>2. Along(stage'[r], plan'[r], trail'[r], result'[r], catalog'[r])
    BY <2>1 DEF Along
  <2> QED
    BY <1>1, <2>2, OthersAlong DEF WorkflowAnswers, Return, Goes, RootTypeOK
<1>5. ExitsSeen' /\ ProcessesAccounted'
  BY <1>1, <1>3, StageProcesses DEF WorkflowAnswers, Return, Goes, RootTypeOK
<1>6. NotesAreResponses'
  BY <1>1, <1>3, ReturnNotes
<1> QED
  BY <1>2, <1>4, <1>5, <1>6

\* A plan arrives and its first step is begun, or it is refused.
LEMMA PlanArrivesInv ==
  ASSUME RootInv, NEW r \in Requests, NEW p \in Plans, PlanArrives(r, p)
  PROVE  RootInv'
<1> USE DEF RootInv
<1>1. p \in Seq(Capabilities)
  BY RootAssumption
<1>2. /\ result[r] = "none" /\ plan[r] = <<>> /\ trail[r] = <<>>
      /\ stage[r] = "planning" /\ exit[r] = "none"
      /\ \A process \in alive : process[1] # r
  <2>1. result[r] = "none" /\ plan[r] = <<>> /\ trail[r] = <<>> /\ stage[r] = "planning"
    BY DEF PlanArrives, AllAlong, Along
  <2> QED
    BY <2>1 DEF ExitsSeen, ProcessesAccounted
<1>3. DiscoveryTypeOK'
  BY DiscoveryStepType DEF PlanArrives, RootTypeOK
<1>4. CASE Valid(r, p) /\ plan' = [plan EXCEPT ![r] = p] /\ Execute(r, p, <<>>)
  <2>1. Len(<<>>) < Len(p) /\ <<>> \in Seq(BOOLEAN) /\ \A k \in 1 .. Len(p) : p[k] \in catalog[r] \ {Workflows}
    BY <1>1, <1>4 DEF Valid
  <2>2. RootTypeOK'
    BY <1>1, <1>3, <1>4, <2>1, ExecuteType DEF PlanArrives, RootTypeOK
  <2>3. AllAlong'
    <3>1. /\ Along(stage'[r], p, trail'[r], result'[r], catalog[r])
          /\ \A q \in Requests \ {r} :
               stage'[q] = stage[q] /\ trail'[q] = trail[q] /\ result'[q] = result[q]
      <4> DEFINE none == <<>>
      <4>1. /\ none \in Seq(BOOLEAN) /\ Len(none) < Len(p)
            /\ \A k \in 1 .. Len(none) : none[k] = TRUE
        BY <2>1
      <4>2. Execute(r, p, none) /\ \A k \in 1 .. Len(p) : p[k] \in catalog[r] \ {Workflows}
        BY <1>4, <2>1
      <4> HIDE DEF none
      <4> QED
        BY <1>1, <1>2, <4>1, <4>2, ExecuteAlong
    <3>2. /\ plan'[r] = p /\ \A q \in Requests \ {r} : plan'[q] = plan[q]
          /\ UNCHANGED catalog
      BY <1>4 DEF PlanArrives, RootTypeOK
    <3> QED
      BY <3>1, <3>2, OthersAlong
  <2>4. ExitsSeen' /\ ProcessesAccounted'
    <3>1. exit' = [exit EXCEPT ![r] = "none"]
      BY <1>2 DEF PlanArrives, RootTypeOK
    <3>2. Execute(r, p, <<>>) /\ result[r] = "none"
      BY <1>2, <1>4
    <3>3. \A process \in alive : process[1] # r
      BY <1>2
    <3> QED
      BY <2>1, <3>1, <3>2, <3>3, ExecuteProcesses
  <2>5. NotesAreResponses'
    BY <1>2, <1>4, StepDoneNotes
  <2> QED
    BY <2>2, <2>3, <2>4, <2>5
<1>5. CASE RaiseOut(r) /\ UNCHANGED <<plan, trail>>
  <2>1. RootTypeOK'
    BY <1>3, <1>5, RaiseOutType DEF PlanArrives, RootTypeOK
  <2>2. AllAlong'
    <3>1. Along(stage'[r], plan'[r], trail'[r], result'[r], catalog'[r])
      BY <1>2, <1>5 DEF RaiseOut, Goes, RootTypeOK, Along
    <3> QED
      BY <1>5, <3>1, OthersAlong DEF PlanArrives, RaiseOut, Goes, RootTypeOK
  <2>3. ExitsSeen' /\ ProcessesAccounted'
    BY <1>2, <1>5, StageProcesses DEF PlanArrives, RaiseOut, Goes, RootTypeOK
  <2>4. NotesAreResponses'
    BY <1>2, <1>5, StepDoneNotes
  <2> QED
    BY <2>1, <2>2, <2>3, <2>4
<1> QED
  BY <1>4, <1>5 DEF PlanArrives

\* A step that r awaited is over.
LEMMA StepDoneInv ==
  ASSUME RootInv, NEW r \in Requests, NEW good \in BOOLEAN, StepDone(r, good),
         stage[r] \in {"step", "spawned"},
         good => \A process \in alive : process[1] # r,
         exit' = [exit EXCEPT ![r] = "none"],
         UNCHANGED <<discoveryVars, llm, catalog, plan>>
  PROVE  RootInv'
<1> USE DEF RootInv
<1>1. result[r] = "none"
  BY DEF AllAlong, Along
<1>2. RootTypeOK'
  BY DiscoveryStepType, StepDoneType DEF RootTypeOK
<1>3. AllAlong'
  BY StepDoneAlong, OthersAlong
<1>4. \A process \in alive : process[1] = r => process[2] = Len(trail[r]) + 1
  BY <1>1 DEF ProcessesAccounted
<1>5. ExitsSeen' /\ ProcessesAccounted'
  BY <1>1, <1>4, StepDoneProcesses
<1>6. NotesAreResponses'
  BY <1>1, StepDoneNotes
<1> QED
  BY <1>2, <1>3, <1>5, <1>6

\* A step without a process is over: r has no process at all.
LEMMA StepAnswersInv ==
  ASSUME RootInv, NEW r \in Requests, NEW good \in BOOLEAN, StepAnswers(r, good)
  PROVE  RootInv'
<1> USE DEF RootInv
<1>1. stage[r] = "step" /\ result[r] = "none"
  BY DEF StepAnswers, AllAlong, Along
<1>2. \A process \in alive : process[1] # r
  BY <1>1 DEF ProcessesAccounted
<1>3. exit' = [exit EXCEPT ![r] = "none"]
  BY <1>1 DEF StepAnswers, ExitsSeen, RootTypeOK
<1> QED
  BY <1>1, <1>2, <1>3, StepDoneInv DEF StepAnswers

\* A command is over: its process has exited, and it was the only one.
LEMMA CommandReturnsInv ==
  ASSUME RootInv, NEW r \in Requests, CommandReturns(r)
  PROVE  RootInv'
<1> USE DEF RootInv
<1>1. stage[r] = "spawned" /\ result[r] = "none" /\ <<r, Len(trail[r]) + 1>> \notin alive
  BY DEF CommandReturns, AllAlong, Along, ExitsSeen
<1>2. ASSUME NEW process \in alive, process[1] = r
      PROVE  FALSE
  <2>1. process = <<process[1], process[2]>>
    BY DEF RootTypeOK
  <2>2. process[2] = Len(trail[r]) + 1
    BY <1>1, <1>2 DEF ProcessesAccounted
  <2> QED
    BY <1>1, <1>2, <2>1, <2>2
<1>3. (exit[r] = "zero") \in BOOLEAN
  OBVIOUS
<1> QED
  BY <1>1, <1>2, <1>3, StepDoneInv DEF CommandReturns

\* A command times out: its process may go on, and the request fails.
LEMMA CommandTimesOutInv ==
  ASSUME RootInv, NEW r \in Requests, CommandTimesOut(r)
  PROVE  RootInv'
BY StepDoneInv DEF CommandTimesOut

\* A process exits, and its handler has yet to see it.
LEMMA ProcessExitsInv ==
  ASSUME RootInv, NEW process \in alive, NEW code \in {"zero", "other"},
         ProcessExits(process[1], process[2], code)
  PROVE  RootInv'
<1> USE DEF RootInv
<1> DEFINE r == process[1]
           i == process[2]
<1>1. r \in Requests /\ i \in Nat /\ process = <<r, i>> /\ alive' = alive \ {<<r, i>>}
  BY DEF RootTypeOK, ProcessExits
<1>2. RootTypeOK'
  BY <1>1, DiscoveryStepType DEF ProcessExits, RootTypeOK
<1>3. AllAlong'
  BY DEF ProcessExits, AllAlong
<1>4. ExitsSeen'
  BY <1>1 DEF ProcessExits, ExitsSeen, RootTypeOK
<1>5. ProcessesAccounted'
  BY <1>1 DEF ProcessExits, ProcessesAccounted
<1>6. NotesAreResponses'
  BY DEF ProcessExits, NotesAreResponses
<1> QED
  BY <1>2, <1>3, <1>4, <1>5, <1>6

\* At first no request has begun.
LEMMA InitRoot == RootInit => RootInv
<1> SUFFICES ASSUME RootInit
             PROVE  RootInv
  OBVIOUS
<1>1. RootTypeOK
  BY DiscoveryInitType DEF RootInit, RootTypeOK, Stages
<1>2. AllAlong
  BY DEF RootInit, AllAlong, Along
<1>3. ExitsSeen /\ ProcessesAccounted /\ NotesAreResponses
  BY DEF RootInit, ExitsSeen, ProcessesAccounted, NotesAreResponses
<1> QED
  BY <1>1, <1>2, <1>3 DEF RootInv

\* Every step keeps the invariant; those of discovery do not touch a request.
LEMMA NextRoot ==
  ASSUME RootInv, [RootNext]_rootVars
  PROVE  RootInv'
<1>1. ASSUME UNCHANGED <<llm, requestVars>>, [DiscoveryNext]_discoveryVars
      PROVE  RootInv'
  BY <1>1, DiscoveryStepType
     DEF RootInv, RootTypeOK, requestVars, AllAlong, ExitsSeen, ProcessesAccounted, NotesAreResponses
<1>2. CASE \E r \in Requests : Ask(r) \/ Proceed(r)
  BY <1>2, AskInv, JudgeInv, PlanArrivesInv, LlmRaisesInv, WorkflowAnswersInv, StepAnswersInv,
     CommandReturnsInv, CommandTimesOutInv DEF Proceed
<1>3. CASE \E process \in alive, code \in {"zero", "other"} :
             ProcessExits(process[1], process[2], code)
  BY <1>3, ProcessExitsInv
<1> QED
  BY <1>1, <1>2, <1>3 DEF RootNext, rootVars

\* The inductive invariant holds of every behaviour.
THEOREM RootInvariant == RootSpec => []RootInv
BY InitRoot, NextRoot, PTL DEF RootSpec

\* The variables of the root agent and its discovery keep their types.
THEOREM RootType == RootSpec => []RootTypeOK
<1>1. RootInv => RootTypeOK
  BY DEF RootInv
<1> QED
  BY <1>1, RootInvariant, PTL

\* A request calls nothing that its catalog did not offer, whatever the
\* refreshes find while the LLM is awaited.
THEOREM RootOffered == RootSpec => []OnlyOffered
<1>1. RootInv => OnlyOffered
  <2> SUFFICES ASSUME RootInv, NEW r \in Requests
               PROVE  /\ \A i \in Begun(r) : plan[r][i] \in catalog[r] \ {Workflows}
                      /\ stage[r] = "workflow" => Workflows \in catalog[r]
    BY DEF OnlyOffered
  <2>1. /\ Len(trail[r]) \in Nat /\ Len(plan[r]) \in Nat
        /\ stage[r] \in {"step", "spawned"} => Len(trail[r]) < Len(plan[r])
        /\ Len(trail[r]) <= Len(plan[r])
        /\ \A i \in 1 .. Len(plan[r]) : plan[r][i] \in catalog[r] \ {Workflows}
        /\ stage[r] = "workflow" => Workflows \in catalog[r]
    BY DEF RootInv, RootTypeOK, AllAlong, Along
  <2>2. CASE stage[r] \in {"step", "spawned"}
    <3>1. Begun(r) = 1 .. Len(trail[r]) + 1
      BY <2>2 DEF Begun
    <3> QED
      BY <2>1, <2>2, <3>1
  <2>3. CASE stage[r] \notin {"step", "spawned"}
    <3>1. Begun(r) = 1 .. Len(trail[r])
      BY <2>1, <2>3 DEF Begun
    <3> QED
      BY <2>1, <2>3, <3>1
  <2> QED
    BY <2>2, <2>3
<1> QED
  BY <1>1, RootInvariant, PTL

\* No step is begun after one that failed, and a response is ok if and only if
\* every step of its plan was.
THEOREM RootFailures == RootSpec => []FirstFailureEnds
<1>1. RootInv => FirstFailureEnds
  <2> SUFFICES ASSUME RootInv, NEW r \in Requests
               PROVE  /\ \A i, j \in Begun(r) : (i < j) => trail[r][i]
                      /\ (stage[r] = "done" /\ plan[r] # <<>>) =>
                           (result[r] = "ok" <=>
                             \A i \in DOMAIN plan[r] : i \in DOMAIN trail[r] /\ trail[r][i])
    BY DEF FirstFailureEnds
  <2>1. /\ Along(stage[r], plan[r], trail[r], result[r], catalog[r])
        /\ trail[r] \in Seq(BOOLEAN) /\ plan[r] \in Seq(Capabilities)
        /\ result[r] \in {"none", "ok", "failed", "no_llm"}
    BY DEF RootInv, RootTypeOK, AllAlong
  <2>2. ASSUME NEW i \in Begun(r), NEW j \in Begun(r), i < j
        PROVE  trail[r][i]
    <3> DEFINE n == Len(trail[r])
    <3>1. n \in Nat /\ \A k \in 1 .. n : trail[r][k] = TRUE \/ (k = n /\ result[r] = "failed")
      BY <2>1 DEF Along
    <3> HIDE DEF n
    <3>2. CASE stage[r] \in {"step", "spawned"}
      <4>1. i \in 1 .. n
        BY <2>2, <3>1, <3>2 DEF Begun, n
      <4>2. result[r] # "failed"
        BY <2>1, <3>2 DEF Along
      <4>3. trail[r][i] = TRUE
        BY <3>1, <4>1, <4>2
      <4> QED
        BY <4>3
    <3>3. CASE stage[r] \notin {"step", "spawned"}
      <4>1. Begun(r) = 1 .. n
        BY <3>1, <3>3 DEF Begun, n
      <4>2. i \in 1 .. n /\ i # n
        BY <2>2, <3>1, <4>1
      <4>3. trail[r][i] = TRUE
        BY <3>1, <4>2
      <4> QED
        BY <4>3
    <3> QED
      BY <3>2, <3>3
  <2>3. ASSUME stage[r] = "done", plan[r] # <<>>
        PROVE  result[r] = "ok" <=>
                 \A i \in DOMAIN plan[r] : i \in DOMAIN trail[r] /\ trail[r][i]
    <3>1. result[r] \in {"ok", "failed"}
      BY <2>1, <2>3 DEF Along
    <3>2. DOMAIN plan[r] = 1 .. Len(plan[r]) /\ DOMAIN trail[r] = 1 .. Len(trail[r])
      BY <2>1
    <3>3. CASE result[r] = "ok"
      <4>1. Len(trail[r]) = Len(plan[r])
        BY <2>1, <2>3, <3>3 DEF Along
      <4>2. \A i \in DOMAIN trail[r] : trail[r][i] = TRUE
        BY <2>1, <3>2, <3>3 DEF Along
      <4> QED
        BY <3>2, <3>3, <4>1, <4>2
    <3>4. CASE result[r] = "failed"
      <4>1. Len(trail[r]) \in DOMAIN plan[r] /\ trail[r][Len(trail[r])] = FALSE
        BY <2>1, <2>3, <3>2, <3>4 DEF Along
      <4> QED
        BY <3>4, <4>1
    <3> QED
      BY <3>1, <3>3, <3>4
  <2> QED
    BY <2>2, <2>3
<1> QED
  BY <1>1, RootInvariant, PTL

\* A process that outlives its step is that of the last step of a request that
\* has failed.
THEOREM RootProcesses == RootSpec => []ProcessesAccounted
<1>1. RootInv => ProcessesAccounted
  BY DEF RootInv
<1> QED
  BY <1>1, RootInvariant, PTL

\* The session memory has one note for each request that was carried out and
\* none for any other.
THEOREM RootNotes == RootSpec => []NotesAreResponses
<1>1. RootInv => NotesAreResponses
  BY DEF RootInv
<1> QED
  BY <1>1, RootInvariant, PTL

-----------------------------------------------------------------------------
\* Requests read the cache of discovery and nothing they do writes it: every
\* step of the whole is a step of discovery or leaves it alone.
LEMMA DiscoverySteps ==
  ASSUME [RootNext]_rootVars
  PROVE  [DiscoveryNext]_discoveryVars
<1>1. ASSUME NEW r \in Requests, Ask(r) \/ Proceed(r)
      PROVE  UNCHANGED discoveryVars
  BY <1>1 DEF Ask, Proceed, JudgeDecides, PlanArrives, LlmRaises, WorkflowAnswers, StepAnswers,
              CommandReturns, CommandTimesOut
<1>2. ASSUME NEW process \in alive, NEW code \in {"zero", "other"},
             ProcessExits(process[1], process[2], code)
      PROVE  UNCHANGED discoveryVars
  BY <1>2 DEF ProcessExits
<1> QED
  BY <1>1, <1>2 DEF RootNext, rootVars

\* Discovery beside requests behaves as it does alone.
THEOREM RootImplementsDiscovery == RootSpec => DiscoverySpec
<1>1. RootInit => DiscoveryInit
  BY DEF RootInit
<1> QED
  BY <1>1, DiscoverySteps, PTL DEF RootSpec, DiscoverySpec

\* So the agents that GET /agents shows as up are as fresh while requests read
\* the cache, await the LLM and leave processes behind.
THEOREM RootFreshAnswers == RootSpec => []AnswersAreFresh
BY RootImplementsDiscovery, FreshAnswers, PTL
=============================================================================
