------------------------------ MODULE Workflows ------------------------------
(***************************************************************************)
(* Workflow runs on top of the capability registry: WorkflowExecutor.run   *)
(* (runtime/workflows/executor.py) as GraphRunner._workflow_handler calls  *)
(* it (runtime/graph_runner.py), for the requests GraphRunner              *)
(* .run_agent_task makes.  A run is the handler of a call whose URI is a   *)
(* workflow; the steps it executes are calls of the same registry, so runs *)
(* nest and several requests interleave.                                   *)
(*                                                                         *)
(* Calls are numbered in the order they are made.  One asyncio loop: at    *)
(* most one call is not waiting for another call or for something outside, *)
(* and only that one takes a step (Holder).                                *)
(*                                                                         *)
(* A value is abstracted to whether it is bound: an expression fails when  *)
(* it refers to the output of a step that has none and may fail otherwise, *)
(* and the value of a "when" is arbitrary.  retry and on_error are read by *)
(* nothing in the executor; "branches" of a parallel step and the goto a   *)
(* branch records are not followed either.                                 *)
(*                                                                         *)
(* Left out: spans, approval ids, the _agent_handlers memo of loaded       *)
(* factories, and timeout_seconds, which invoke does not read.             *)
(***************************************************************************)
EXTENDS Capabilities, FiniteSets

CONSTANTS
  Flow,       \* Flow[u]: the workflow a URI names, steps and output references
  RootUris,   \* the URIs requests are dispatched to
  Tenant,     \* the default tenant_id: nothing sets another one
  Inputs,     \* the inputs of a request, which its steps hand on
  MaxItems,   \* bound: the length of a for_each collection
  MaxRequests \* bound: the requests that are made

\* "branches" is a parallel step that has no for_each.
Kinds == {"call", "for_each", "branches", "assign", "branch", "human_approval",
          "emit_artifact"}

\* The texts of a step that are rendered: its condition, what its kind
\* evaluates once, and the "with" of each item of a for_each.
Texts == {"when", "value", "item"}

\* A step: its kind, whether it has a "when", the steps its texts refer to,
\* the capability and key of a call, and whether its result is bound.
StepType(n) == [kind : Kinds, when : BOOLEAN, uses : [Texts -> SUBSET (1 .. n)],
                uri : Uris, key : Keys \cup {NoKey}, output : BOOLEAN]

ASSUME FlowAssumption ==
  /\ Calls \subseteq Nat
  /\ DOMAIN Flow = {u \in Uris : Parsed[u] = "workflow"}
  /\ \A u \in DOMAIN Flow :
       /\ Flow[u].steps \in Seq(StepType(Len(Flow[u].steps)))
       /\ Flow[u].needs \subseteq 1 .. Len(Flow[u].steps)
  /\ Tenant \in Tenants
  /\ RootUris \subseteq Uris
  /\ DOMAIN Flow \subseteq Suspending  \* a run awaits the calls it makes
  /\ {{"workflow"}, {"agent", "mcp", "workflow"}} \subseteq Wirings
  /\ MaxItems \in Nat
  /\ MaxRequests \in Nat

VARIABLES
  parent,   \* parent[c]: the run that made call c, NoCall for a request
  step,     \* step[c]: the step of that run that made it
  given,    \* given[c]: the inputs call c was made with
  frame     \* frame[c]: where the run of call c is, if c is a workflow

runVars == <<parent, step, given, frame>>
allVars == <<vars, runVars>>

Ats == {"top", "loop", "await"}

Frames == [pc : Nat \ {0}, at : Ats, left : 0 .. MaxItems, bound : SUBSET Nat,
           inner : Calls \cup {NoCall}]

StartFrame == [pc |-> 1, at |-> "top", left |-> 0, bound |-> {}, inner |-> NoCall]

RunsTypeOK ==
  /\ TypeOK
  /\ parent \in [Calls -> Calls \cup {NoCall}]
  /\ step \in [Calls -> Nat]
  /\ given \in [Calls -> Inputs \cup {NoCall}]
  /\ frame \in [Calls -> Frames]

RunsInit ==
  /\ Init
  /\ parent = [c \in Calls |-> NoCall]
  /\ step = [c \in Calls |-> 0]
  /\ given = [c \in Calls |-> NoCall]
  /\ frame = [c \in Calls |-> StartFrame]

-----------------------------------------------------------------------------
Running(c) == phase[c] = "running"

IsRun(c) == Running(c) /\ request[c].uri \in DOMAIN Flow

\* Faulty variant: an await is not resumed when what it waits for was cancelled.
WaitingOnCancelled(c) ==
  /\ IsRun(c) /\ frame[c].at = "await"
  /\ \/ Running(frame[c].inner)
     \/ result[frame[c].inner].code = "capability.cancelled"

Waiting(c) == IsRun(c) /\ frame[c].at = "await" /\ Running(frame[c].inner)

\* Suspended in a handler that awaits something outside the process.
Parked(c) == Running(c) /\ ~IsRun(c) /\ request[c].uri \in Suspending

\* The call whose code the event loop is running.
Holder(c) == Running(c) /\ ~Waiting(c) /\ ~Parked(c)

Preempted == TRUE  \* faulty variant: calls are made while a handler has the loop

Idle == \A c \in Calls : ~Holder(c)

Steps(c) == Flow[request[c].uri].steps

Current(c) == Steps(c)[frame[c].pc]

HasStep(c) == frame[c].pc <= Len(Steps(c))

\* A text of the current step refers only to bound outputs.
Renders(c, text) == Current(c).uses[text] \subseteq frame[c].bound

\* The next call to be made.
IsNext(c) == phase[c] = "new" /\ \A d \in Calls : phase[d] = "new" => c <= d

Ask(u, k, wired) ==
  [tenant |-> Tenant, uri |-> u, key |-> k, stream |-> FALSE, wired |-> wired]

\* invoke is called, for request or run p, and answers or awaits its handler.
Invoke(c, r, p, s, in) ==
  /\ IsNext(c)
  /\ Answer(c, r) \/ Dispatch(c, r)
  /\ parent' = [parent EXCEPT ![c] = p]
  /\ step' = [step EXCEPT ![c] = s]
  /\ given' = [given EXCEPT ![c] = in]

-----------------------------------------------------------------------------
(* Requests and the handlers that are not workflows.                       *)

\* run_agent_task: a workflow's call comes with the workflow handler only.
RunAgentTask(c, u, in) ==
  /\ Idle
  /\ Cardinality({d \in Calls : phase[d] # "new" /\ parent[d] = NoCall}) < MaxRequests
  /\ LET wired == IF Parsed[u] = "workflow" THEN {"workflow"}
                  ELSE {"agent", "mcp", "workflow"}
     IN  Invoke(c, Ask(u, NoKey, wired), NoCall, 0, in)
  /\ UNCHANGED frame

\* A skill or tool settles: it held the loop, or the loop was idle.
LeafSettles(c) ==
  /\ Running(c) /\ ~IsRun(c)
  /\ Holder(c) \/ Idle
  /\ Settle(c)
  /\ UNCHANGED runVars

RestartAll == Restart /\ UNCHANGED runVars

-----------------------------------------------------------------------------
(* The executor's loop over the steps, for the run of call c.              *)

Move(c, f) == frame' = [frame EXCEPT ![c] = f]

Advance(c, binds) ==
  [frame[c] EXCEPT !.pc = @ + 1, !.at = "top", !.inner = NoCall,
                   !.bound = IF binds THEN @ \cup {frame[c].pc} ELSE @]

\* Before the current step: its "when" can be evaluated.
AtStep(c) ==
  /\ IsRun(c) /\ Holder(c) /\ HasStep(c)
  /\ frame[c].at = "top" /\ Renders(c, "when")

\* The step is executed, and what it evaluates first can be evaluated.
Enters(c, kinds) == AtStep(c) /\ Current(c).kind \in kinds /\ Renders(c, "value")

\* "when" is false: the step is passed over and binds nothing.
Skip(c) ==
  /\ AtStep(c) /\ Current(c).when
  /\ Move(c, Advance(c, FALSE))
  /\ UNCHANGED <<vars, parent, step, given>>

\* The steps that only record something under their id and go on: assign, an
\* approval that is requested, the target of a branch, an artifact, and the
\* empty results of a parallel step whose branches nothing runs.
Record(c) ==
  /\ Enters(c, Kinds \ {"call", "for_each"})
  /\ Move(c, Advance(c, Current(c).kind # "branches" \/ Current(c).output))
  /\ UNCHANGED <<vars, parent, step, given>>

\* The key of a step is handed on as it is written, unlike its inputs.
StepRequest(s) == Ask(s.uri, s.key, {"agent", "mcp", "workflow"})

\* Faulty variant: the call is made and not awaited.
StartCallUnawaited(c, d) ==
  /\ Enters(c, {"call"})
  /\ Invoke(d, StepRequest(Current(c)), c, frame[c].pc, given[c])
  /\ Move(c, Advance(c, FALSE))

StartCall(c, d) ==
  /\ Enters(c, {"call"})
  /\ Invoke(d, StepRequest(Current(c)), c, frame[c].pc, given[c])
  /\ Move(c, [frame[c] EXCEPT !.at = "await", !.inner = d])

\* The collection of a for_each is rendered; its items are called in turn.
StartLoop(c) ==
  /\ Enters(c, {"for_each"})
  /\ \E n \in 0 .. MaxItems : Move(c, [frame[c] EXCEPT !.at = "loop", !.left = n])
  /\ UNCHANGED <<vars, parent, step, given>>

InLoop(c) == IsRun(c) /\ Holder(c) /\ frame[c].at = "loop"

\* Faulty variant: one item too many.
StartExtraItem(c, d) ==
  /\ InLoop(c) /\ Renders(c, "item")
  /\ Invoke(d, StepRequest([Current(c) EXCEPT !.key = NoKey]), c, frame[c].pc, given[c])
  /\ Move(c, [frame[c] EXCEPT !.at = "await", !.inner = d, !.left = @ - 1])

StartItem(c, d) ==
  /\ InLoop(c) /\ frame[c].left > 0 /\ Renders(c, "item")
  /\ Invoke(d, StepRequest([Current(c) EXCEPT !.key = NoKey]), c, frame[c].pc, given[c])
  /\ Move(c, [frame[c] EXCEPT !.at = "await", !.inner = d, !.left = @ - 1])

EndLoop(c) ==
  /\ InLoop(c) /\ frame[c].left = 0
  /\ Move(c, Advance(c, Current(c).output))
  /\ UNCHANGED <<vars, parent, step, given>>

Awaited(c) == IsRun(c) /\ Holder(c) /\ frame[c].at = "await"

\* A failed item leaves an error entry in the results and the loop goes on.
ItemAnswered(c) ==
  /\ Awaited(c) /\ Current(c).kind = "for_each"
  /\ Move(c, [frame[c] EXCEPT !.at = "loop", !.inner = NoCall])
  /\ UNCHANGED <<vars, parent, step, given>>

\* Faulty variant: result.ok is not looked at.
CallAnswered(c) ==
  /\ Awaited(c) /\ Current(c).kind = "call"
  /\ Move(c, Advance(c, Current(c).output))
  /\ UNCHANGED <<vars, parent, step, given>>

CallSucceeded(c) ==
  /\ Awaited(c) /\ Current(c).kind = "call"
  /\ result[frame[c].inner].ok
  /\ Move(c, Advance(c, Current(c).output))
  /\ UNCHANGED <<vars, parent, step, given>>

\* An exception leaves run: invoke answers capability.execution_error.
Abort(c) == HandlerRaises(c) /\ UNCHANGED runVars

\* Faulty variants: the step is passed over, or executed again.
CallFailedContinues(c) ==
  /\ Awaited(c) /\ Current(c).kind = "call"
  /\ ~result[frame[c].inner].ok
  /\ Move(c, Advance(c, FALSE))
  /\ UNCHANGED <<vars, parent, step, given>>

CallFailedRetries(c) ==
  /\ Awaited(c) /\ Current(c).kind = "call"
  /\ ~result[frame[c].inner].ok
  /\ Move(c, [frame[c] EXCEPT !.at = "top", !.inner = NoCall])
  /\ UNCHANGED <<vars, parent, step, given>>

CallFailed(c) ==
  /\ Awaited(c) /\ Current(c).kind = "call"
  /\ ~result[frame[c].inner].ok
  /\ Abort(c)

\* An expression cannot be evaluated, in a step, an item or the output.
RenderFails(c) ==
  /\ \/ IsRun(c) /\ Holder(c) /\ HasStep(c) /\ frame[c].at = "top"
     \/ InLoop(c) /\ frame[c].left > 0
     \/ IsRun(c) /\ Holder(c) /\ ~HasStep(c)
  /\ Abort(c)

Complete(c) ==
  /\ IsRun(c) /\ Holder(c) /\ ~HasStep(c)
  /\ Flow[request[c].uri].needs \subseteq frame[c].bound
  /\ HandlerReturns(c)
  /\ UNCHANGED runVars

Turn(c) ==
  \/ Skip(c)
  \/ Record(c)
  \/ \E d \in Calls : StartCall(c, d)
  \/ StartLoop(c)
  \/ \E d \in Calls : StartItem(c, d)
  \/ EndLoop(c)
  \/ ItemAnswered(c)
  \/ CallSucceeded(c)
  \/ CallFailed(c)
  \/ RenderFails(c)
  \/ Complete(c)

RunsNext ==
  \/ \E c \in Calls, u \in RootUris, in \in Inputs : RunAgentTask(c, u, in)
  \/ \E c \in Calls : LeafSettles(c)
  \/ \E c \in Calls : Turn(c)
  \/ RestartAll

RunsSpec == RunsInit /\ [][RunsNext]_allVars

\* The loop goes on with whatever is ready, and every handler settles: that
\* much is assumed of skills and tools, nothing in the runtime enforces it.
FairRunsSpec ==
  /\ RunsSpec
  /\ WF_allVars(\E c \in Calls : Turn(c))
  /\ \A c \in Calls : WF_allVars(LeafSettles(c))

-----------------------------------------------------------------------------
IsStep(d) == phase[d] # "new" /\ parent[d] # NoCall

StepOf(d) == Steps(parent[d])[step[d]]

Succeeds(d) == phase[d] = "done" /\ result[d].ok

\* The run of c ended and its output was produced by this very run.
RanToTheEnd(c) ==
  /\ Succeeds(c) /\ result[c].output = c
  /\ request[c].uri \in DOMAIN Flow

\* Runs nest: at most one call has the loop, and a call a run made goes on
\* only while that run is suspended at the step that made it, so a run has one
\* step under way and a restart leaves no step without its run.
Nested ==
  /\ \A c, d \in Calls : (Holder(c) /\ Holder(d)) => c = d
  /\ \A d \in Calls : (IsStep(d) /\ Running(d)) =>
       /\ IsRun(parent[d])
       /\ frame[parent[d]].at = "await"
       /\ frame[parent[d]].inner = d
       /\ frame[parent[d]].pc = step[d]

\* After a call step has failed its run calls nothing any more and is not
\* answered with success, whatever other requests do meanwhile; a failed item
\* of a for_each is not such a step (executor.py 89-90, 126).
FailStop ==
  \A d \in Calls : (IsStep(d) /\ phase[d] = "done" /\ ~result[d].ok
                    /\ StepOf(d).kind = "call") =>
    /\ \A e \in Calls : (IsStep(e) /\ parent[e] = parent[d]) => e <= d
    /\ ~Succeeds(parent[d])

\* A run makes its calls in the order of its steps and, for_each aside, calls
\* no step twice: nothing is retried.
StepsInOrder ==
  \A d, e \in Calls : (IsStep(d) /\ IsStep(e) /\ parent[d] = parent[e] /\ d < e) =>
    step[d] < step[e] \/ (step[d] = step[e] /\ StepOf(d).kind = "for_each")

\* A run that ends with success has called every call step that has no "when"
\* or whose result its output refers to, and each of them succeeded.
SuccessIsComplete ==
  \A c \in Calls : RanToTheEnd(c) =>
    \A s \in DOMAIN Steps(c) :
      (Steps(c)[s].kind = "call" /\ (~Steps(c)[s].when \/ s \in Flow[request[c].uri].needs)) =>
        \E d \in Calls : IsStep(d) /\ parent[d] = c /\ step[d] = s /\ Succeeds(d)

\* Every request, and every run and step nested in it, is answered or ends with
\* its process, whatever steps and items fail or are cancelled, if all handlers
\* settle and workflows do not call each other in a circle.
RequestsAnswered == \A c \in Calls : Running(c) ~> ~Running(c)

\* The calls workflows make use the registry as Capabilities lets any caller
\* use it: in particular nothing enters invoke while a handler has the loop.
ImplementsRegistry == Spec

-----------------------------------------------------------------------------
(* What the documentation says of workflows and the executor does not do.  *)

\* The workflow halts at an approval that is pending (03-workflows.md 3.3): a
\* run makes no call after such a step unless it skipped it.
ApprovalsHalt ==
  \A d \in Calls : IsStep(d) =>
    \A s \in frame[parent[d]].bound :
      Steps(parent[d])[s].kind = "human_approval" => step[d] <= s

\* With its key made from the inputs, as 03-workflows.md 3.3 shows, a step is
\* answered with an output that was produced for its own inputs.
OutputsOfOwnInputs ==
  \A d \in Calls : (IsStep(d) /\ Succeeds(d)) => given[result[d].output] = given[d]
=============================================================================
