------------------------------ MODULE RootAgent ------------------------------
(***************************************************************************)
(* Requests to the root agent: RootAgentService.handle_request             *)
(* (root_agent/service.py) with the judge, the planner, the plan executor  *)
(* (planner/) and local commands (commands/exec.py), beside the refreshes  *)
(* of Discovery.                                                           *)
(*                                                                         *)
(* A request takes its catalog from the cache of discovery when it begins, *)
(* then awaits the LLM once or twice and each step in turn; other requests *)
(* and refreshes go on at every await.  An agent is called by its one      *)
(* skill, so a capability is the agent, recipe or tool it names.           *)
(*                                                                         *)
(* Left out: arguments and outputs, the prompts, how message_send gets its *)
(* answer (RemoteCalls), which lines of memory are shown (Memory), session *)
(* memory that is disabled, a caller that goes away, and restarts.         *)
(***************************************************************************)
EXTENDS Discovery, FiniteSets

CONSTANTS
  Requests,      \* the requests
  Conversation,  \* Conversation[r]: the conversation of request r
  Workflows,     \* the agent whose URL has "workflows" in it
  Recipes,       \* the command recipes
  Available,     \* those whose binaries are found; none if not allowed
  Tools,         \* the tools of the root agent's MCP bridge
  Plans          \* the plans the LLM may come up with

Capabilities == Agents \cup Recipes \cup Tools

ASSUME RootAssumption ==
  /\ DOMAIN Conversation = Requests
  /\ Available \subseteq Recipes
  /\ Plans \subseteq Seq(Capabilities)

VARIABLES
  llm,       \* an LLM client could be built
  stage,     \* stage[r]: what request r awaits
  catalog,   \* catalog[r]: what the catalog of r offers
  plan,      \* plan[r]: the plan of r
  trail,     \* trail[r]: whether each step was ok, so far
  exit,      \* exit[r]: how the process of the current step has exited
  alive,     \* the processes that run, by request and step
  result,    \* result[r]: "ok" of the response
  notes      \* notes[c]: the session notes of conversation c

requestVars == <<stage, catalog, plan, trail, exit, alive, result, notes>>
rootVars == <<discoveryVars, llm, requestVars>>

Stages == {"new", "judging", "planning", "workflow", "step", "spawned", "done", "raised"}

Awaiting(r) == stage[r] \notin {"new", "done", "raised"}

Conversations == {Conversation[r] : r \in Requests}

RootTypeOK ==
  /\ DiscoveryTypeOK
  /\ llm \in BOOLEAN
  /\ stage \in [Requests -> Stages]
  /\ catalog \in [Requests -> SUBSET Capabilities]
  /\ plan \in [Requests -> Seq(Capabilities)]
  /\ trail \in [Requests -> Seq(BOOLEAN)]
  /\ exit \in [Requests -> {"none", "zero", "other"}]
  /\ alive \subseteq Requests \X Nat
  /\ result \in [Requests -> {"none", "ok", "failed", "no_llm"}]
  /\ notes \in [Conversations -> Seq(Requests)]

RootInit ==
  /\ DiscoveryInit
  /\ llm \in BOOLEAN
  /\ stage = [r \in Requests |-> "new"]
  /\ catalog = [r \in Requests |-> {}]
  /\ plan = [r \in Requests |-> <<>>]
  /\ trail = [r \in Requests |-> <<>>]
  /\ exit = [r \in Requests |-> "none"]
  /\ alive = {}
  /\ result = [r \in Requests |-> "none"]
  /\ notes = [c \in Conversations |-> <<>>]

-----------------------------------------------------------------------------
(* The parts of handle_request between two awaits.                         *)

\* build_catalog: the agents not known to be down, what the recipes and the
\* bridge offer, and the workflows whatever the status of their agent.
Offers ==
  {AgentsOf(cache)[i] : i \in {i \in DOMAIN cache.status :
     cache.status[i] # "down" \/ AgentsOf(cache)[i] = Workflows}}
  \cup Available \cup Tools

Goes(r, to) == stage' = [stage EXCEPT ![r] = to]

\* Faulty variant: the conversation is noted and not what was asked in it.
ReturnNotingConversation(r, res) ==
  /\ Goes(r, "done")
  /\ result' = [result EXCEPT ![r] = res]
  /\ notes' = [notes EXCEPT ![Conversation[r]] = Append(@, Conversation[r])]
  /\ UNCHANGED alive

\* The response, and the note of the session memory that precedes it.
Return(r, res) ==
  /\ Goes(r, "done")
  /\ result' = [result EXCEPT ![r] = res]
  /\ notes' = [notes EXCEPT ![Conversation[r]] = Append(@, r)]
  /\ UNCHANGED alive

\* Faulty variant: the note is written before the request is carried out.
RaiseOutWithNote(r) ==
  /\ Goes(r, "raised")
  /\ notes' = [notes EXCEPT ![Conversation[r]] = Append(@, r)]
  /\ UNCHANGED <<result, alive>>

\* An exception leaves handle_request.
RaiseOut(r) == Goes(r, "raised") /\ UNCHANGED <<result, notes, alive>>

\* The step of plan p that follows those of trail t is begun: a command is
\* refused or fails to start, or its process is started; anything else is a
\* request to someone.
Execute(r, p, t) ==
  IF p[Len(t) + 1] \in Recipes
  THEN \/ /\ trail' = [trail EXCEPT ![r] = Append(t, FALSE)]
          /\ Return(r, "failed")
       \/ /\ trail' = [trail EXCEPT ![r] = t]
          /\ Goes(r, "spawned")
          /\ alive' = alive \cup {<<r, Len(t) + 1>>}
          /\ UNCHANGED <<result, notes>>
  ELSE /\ trail' = [trail EXCEPT ![r] = t]
       /\ Goes(r, "step")
       /\ UNCHANGED <<result, notes, alive>>

\* Faulty variant: a failed step does not end the plan.
StepDoneAnyway(r, good) ==
  LET t == Append(trail[r], good)
  IN  IF Len(t) = Len(plan[r])
      THEN /\ trail' = [trail EXCEPT ![r] = t]
           /\ Return(r, IF good THEN "ok" ELSE "failed")
      ELSE Execute(r, plan[r], t)

\* The current step has a result, which is appended to those of the steps
\* before it.  The output of a step that is ok is stored under its id, which
\* raises if an earlier step of that id left a text there.
StepDone(r, good) ==
  LET t == Append(trail[r], good)
  IN  IF ~good \/ Len(t) = Len(plan[r])
      THEN /\ trail' = [trail EXCEPT ![r] = t]
           /\ \/ Return(r, IF good THEN "ok" ELSE "failed")
              \/ good /\ Len(t) > 1 /\ RaiseOut(r)
      ELSE \/ Execute(r, plan[r], t)
           \/ /\ Len(t) > 1
              /\ trail' = [trail EXCEPT ![r] = t]
              /\ RaiseOut(r)

-----------------------------------------------------------------------------
\* The catalog is built before the first await.
Ask(r) ==
  /\ stage[r] = "new" /\ at[Startup] = "ended"
  /\ IF llm
     THEN Goes(r, "judging") /\ catalog' = [catalog EXCEPT ![r] = Offers] /\ UNCHANGED result
     ELSE Goes(r, "done") /\ result' = [result EXCEPT ![r] = "no_llm"] /\ UNCHANGED catalog
  /\ UNCHANGED <<discoveryVars, llm, plan, trail, exit, alive, notes>>

\* A workflow that is not in the catalog is turned into "plan".
JudgeDecides(r, choice) ==
  /\ stage[r] = "judging"
  /\ Goes(r, IF choice = "use_workflow" /\ Workflows \in catalog[r] THEN "workflow"
             ELSE "planning")
  /\ UNCHANGED <<discoveryVars, llm, catalog, plan, trail, exit, alive, result, notes>>

\* Faulty variant: the plan is validated against a new catalog.
ValidNow(r, p) == p # <<>> /\ \A i \in DOMAIN p : p[i] \in Offers \ {Workflows}

Valid(r, p) == p # <<>> /\ \A i \in DOMAIN p : p[i] \in catalog[r] \ {Workflows}

PlanArrives(r, p) ==
  /\ stage[r] = "planning"
  /\ IF Valid(r, p)
     THEN plan' = [plan EXCEPT ![r] = p] /\ Execute(r, p, <<>>)
     ELSE RaiseOut(r) /\ UNCHANGED <<plan, trail>>
  /\ UNCHANGED <<discoveryVars, llm, catalog, exit>>

\* No answer of the LLM, or one that is no JSON or does not fit the schema.
LlmRaises(r) ==
  /\ stage[r] \in {"judging", "planning"}
  /\ RaiseOut(r)
  /\ UNCHANGED <<discoveryVars, llm, catalog, plan, trail, exit>>

WorkflowAnswers(r, good) ==
  /\ stage[r] = "workflow"
  /\ Return(r, IF good THEN "ok" ELSE "failed")
  /\ UNCHANGED <<discoveryVars, llm, catalog, plan, trail, exit>>

\* message_send returns in any case; an exception of a tool is caught.
StepAnswers(r, good) ==
  /\ stage[r] = "step"
  /\ StepDone(r, good)
  /\ UNCHANGED <<discoveryVars, llm, catalog, plan, exit>>

CommandReturns(r) ==
  /\ stage[r] = "spawned" /\ exit[r] # "none"
  /\ StepDone(r, exit[r] = "zero")
  /\ exit' = [exit EXCEPT ![r] = "none"]
  /\ UNCHANGED <<discoveryVars, llm, catalog, plan>>

\* Faulty variant: the timeout is not enforced while the process runs.
TimesOutIfExited(r) ==
  /\ stage[r] = "spawned" /\ exit[r] # "none"
  /\ StepDone(r, FALSE)
  /\ exit' = [exit EXCEPT ![r] = "none"]
  /\ UNCHANGED <<discoveryVars, llm, catalog, plan>>

\* wait_for gives up; the process goes on.
CommandTimesOut(r) ==
  /\ stage[r] = "spawned"
  /\ StepDone(r, FALSE)
  /\ exit' = [exit EXCEPT ![r] = "none"]
  /\ UNCHANGED <<discoveryVars, llm, catalog, plan>>

\* A process ends by itself, if it does.
ProcessExits(r, i, code) ==
  /\ <<r, i>> \in alive
  /\ alive' = alive \ {<<r, i>>}
  /\ exit' = [exit EXCEPT ![r] =
       IF stage[r] = "spawned" /\ i = Len(trail[r]) + 1 THEN code ELSE @]
  /\ UNCHANGED <<discoveryVars, llm, stage, catalog, plan, trail, result, notes>>

Proceed(r) ==
  \/ \E choice \in {"use_workflow", "plan"} : JudgeDecides(r, choice)
  \/ \E p \in Plans : PlanArrives(r, p)
  \/ LlmRaises(r)
  \/ \E good \in BOOLEAN : WorkflowAnswers(r, good) \/ StepAnswers(r, good)
  \/ CommandReturns(r)
  \/ CommandTimesOut(r)

RootNext ==
  \/ \E r \in Requests : Ask(r) \/ Proceed(r)
  \/ \E process \in alive, code \in {"zero", "other"} :
       ProcessExits(process[1], process[2], code)
  \/ DiscoveryNext /\ UNCHANGED <<llm, requestVars>>

RootSpec == RootInit /\ [][RootNext]_rootVars

\* The LLM answers or its client raises; message_send and commands have a
\* timeout.  Nothing is assumed of the processes, nor of discovery.
FairRootSpec == RootSpec /\ \A r \in Requests : WF_rootVars(Proceed(r))

-----------------------------------------------------------------------------
\* Steps the plan of r has begun.
Begun(r) ==
  1 .. (Len(trail[r]) + IF stage[r] \in {"step", "spawned"} THEN 1 ELSE 0)

\* Whatever refreshes find while the LLM is awaited, a request calls nothing
\* that its catalog, which the LLM was shown, did not offer, and its plan is
\* judged by that catalog alone (service.py 111-123, planner.py 43-49).
OnlyOffered ==
  \A r \in Requests :
    /\ \A i \in Begun(r) : plan[r][i] \in catalog[r] \ {Workflows}
    /\ stage[r] = "workflow" => Workflows \in catalog[r]

\* No step is begun after one that failed, and a plan is ok if and only if all
\* of its steps were.
FirstFailureEnds ==
  \A r \in Requests :
    /\ \A i, j \in Begun(r) : (i < j) => trail[r][i]
    /\ (stage[r] = "done" /\ plan[r] # <<>>) =>
         (result[r] = "ok" <=> \A i \in DOMAIN plan[r] : i \in DOMAIN trail[r] /\ trail[r][i])

\* A process that outlives its step is that of the last step of a request that
\* has failed: when the response says ok, or an exception leaves the request,
\* nothing that was run for it is running (exec.py 110-112).
ProcessesAccounted ==
  \A process \in alive :
    LET r == process[1]
    IN  \/ stage[r] = "spawned" /\ process[2] = Len(trail[r]) + 1
        \/ result[r] = "failed" /\ process[2] = Len(trail[r])

\* The session memory has one note for each request that was carried out, in
\* any mode and with any result, and none for one that an exception left or
\* that is still under way, although its processes and rows may remain.
NotesAreResponses ==
  \A c \in Conversations :
    /\ \A r \in Requests :
         (\E i \in DOMAIN notes[c] : notes[c][i] = r) <=>
           (Conversation[r] = c /\ result[r] \in {"ok", "failed"})
    /\ \A i, j \in DOMAIN notes[c] : notes[c][i] = notes[c][j] => i = j

\* Every request ends, also one whose process never does.
AnsweredOrRaised == \A r \in Requests : Awaiting(r) ~> ~Awaiting(r)
=============================================================================
