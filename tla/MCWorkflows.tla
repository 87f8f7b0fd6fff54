----------------------------- MODULE MCWorkflows -----------------------------
(* Instances of Workflows for TLC.                                         *)
EXTENDS Workflows, TLC

SevenCalls == 1 .. 7
FiveCalls == 1 .. 5

OneTenant == {<<"local">>}
LocalTenant == <<"local">>
OneKey == {<<"k">>}
BothWirings == {{"agent", "mcp", "workflow"}, {"workflow"}}
NoUses == [t \in Texts |-> {}]

\* A remote skill, whose handler suspends, a local one, which keeps the loop,
\* and workflows, which await what they call.
Remote == <<"agent.r.s">>
InProcess == <<"agent.l.s">>
Inner == <<"workflow.inner">>
Outer == <<"workflow.outer">>

Only(kind) == [kind |-> kind, when |-> FALSE, uses |-> NoUses, uri |-> Remote,
               key |-> NoKey, output |-> FALSE]
CallOf(u) == [Only("call") EXCEPT !.uri = u, !.output = TRUE]
After(t, s, st) == [st EXCEPT !.uses[t] = s]
Guarded(s, st) == [After("when", s, st) EXCEPT !.when = TRUE]

\* The shape of the bibliography workflow of workflows.yaml.example: a remote
\* step, here with a key, an approval that depends on its result, a for_each
\* over it; and a workflow that calls it, with steps of the other kinds.
InnerFlow ==
  [steps |-> << [CallOf(Remote) EXCEPT !.key = <<"k">>],
                Guarded({1}, Only("human_approval")),
                After("value", {1}, [CallOf(Remote) EXCEPT !.kind = "for_each"]) >>,
   needs |-> {1, 3}]

OuterFlow ==
  [steps |-> << [Only("branches") EXCEPT !.output = TRUE],
                CallOf(Inner),
                Guarded({2}, CallOf(InProcess)) >>,
   needs |-> {1, 2}]

NestedUris == {Remote, InProcess, Inner, Outer}
NestedFlows == (Inner :> InnerFlow) @@ (Outer :> OuterFlow)
NestedParsed == (Remote :> "agent") @@ (InProcess :> "agent") @@
                (Inner :> "workflow") @@ (Outer :> "workflow")
NestedSuspending == {Remote, Inner, Outer}
NestedRoots == {InProcess, Inner, Outer}
FlowRoots == {Inner, Outer}

WfSegments == {"local", "agent.r.s", "agent.l.s", "workflow.inner", "workflow.outer", "k"}
=============================================================================
