--------------------------- MODULE WorkflowsProofs ---------------------------
(***************************************************************************)
(* Proofs about Workflows, for any flows, calls, bounds and number of      *)
(* restarts.                                                               *)
(***************************************************************************)
EXTENDS Workflows, CapabilitiesProofs

\* Calls are made in the order of their numbers.
MadeInOrder ==
  \A c, d \in Calls : (phase[c] # "new" /\ phase[d] = "new") => c < d

\* A call that is not made yet has no progress.
Untouched == \A c \in Calls : phase[c] = "new" => frame[c] = StartFrame

\* Where call d, made at step s, stands to the frame f of its run of u: the
\* run is at that step or beyond it, and d is its last call while it awaits.
PlacedAt(d, s, u, f) ==
  /\ s \in DOMAIN Flow[u].steps
  /\ Flow[u].steps[s].kind \in {"call", "for_each"}
  /\ s <= f.pc
  /\ f.at = "await" => d <= f.inner
  /\ s = f.pc =>
       /\ f.at # "top"
       /\ Flow[u].steps[s].kind = "call" => (f.at = "await" /\ f.inner = d)

\* Every step was made by a workflow call that was made before it.
StepsPlaced ==
  \A d \in Calls : IsStep(d) =>
    /\ parent[d] \in Calls
    /\ parent[d] < d
    /\ phase[parent[d]] # "new"
    /\ request[parent[d]].uri \in DOMAIN Flow
    /\ PlacedAt(d, step[d], request[parent[d]].uri, frame[parent[d]])

\* A frame f of u that is inside a step is inside one that makes calls.
InsideStep(u, f) ==
  /\ u \in DOMAIN Flow
  /\ f.pc \in DOMAIN Flow[u].steps
  /\ Flow[u].steps[f.pc].kind \in {"call", "for_each"}
  /\ f.at = "loop" => Flow[u].steps[f.pc].kind = "for_each"

\* What a run awaits is a call it made at its current step, and it outlives
\* that call.
FramesLinked ==
  \A c \in Calls : frame[c].at # "top" =>
    /\ phase[c] # "new"
    /\ InsideStep(request[c].uri, frame[c])
    /\ frame[c].at = "await" =>
         /\ frame[c].inner \in Calls
         /\ IsStep(frame[c].inner)
         /\ parent[frame[c].inner] = c
         /\ step[frame[c].inner] = frame[c].pc
         /\ Running(c) => phase[frame[c].inner] # "lost"

\* The run of a call step that failed is still at it, and is no success.
FailedSteps ==
  \A d \in Calls : (IsStep(d) /\ phase[d] = "done" /\ ~result[d].ok
                    /\ StepOf(d).kind = "call") =>
    /\ frame[parent[d]].at = "await"
    /\ frame[parent[d]].inner = d
    /\ ~Succeeds(parent[d])

\* Run c called step s with success.
CalledStep(c, s) ==
  \E d \in Calls : IsStep(d) /\ parent[d] = c /\ step[d] = s /\ Succeeds(d)

\* A frame f of u answers for step s: it was passed without a choice, or bound.
AnswersFor(u, f, s) ==
  /\ Flow[u].steps[s].kind = "call"
  /\ s \in f.bound \/ (s < f.pc /\ ~Flow[u].steps[s].when)

\* The call steps a run passed or bound were called with success.
StepsDone ==
  \A c \in Calls : (phase[c] # "new" /\ request[c].uri \in DOMAIN Flow) =>
    \A s \in DOMAIN Flow[request[c].uri].steps :
      AnswersFor(request[c].uri, frame[c], s) => CalledStep(c, s)

\* A run that succeeded passed all its steps and bound what its output needs.
Ended ==
  \A c \in Calls : RanToTheEnd(c) =>
    ~HasStep(c) /\ Flow[request[c].uri].needs \subseteq frame[c].bound

\* The inductive invariant of the runs.
RunsInv ==
  /\ CacheInv
  /\ RunsTypeOK
  /\ MadeInOrder
  /\ Untouched
  /\ StepsPlaced
  /\ FramesLinked
  /\ Nested
  /\ StepsInOrder
  /\ FailedSteps
  /\ StepsDone
  /\ Ended

-----------------------------------------------------------------------------
\* Nothing but runs and parked calls is under way while no handler that keeps
\* the loop is, so invoke may be entered.
LEMMA LoopIsFree ==
  ASSUME Nested, Idle \/ \E c \in Calls : Holder(c) /\ IsRun(c)
  PROVE  LoopFree
<1> SUFFICES ASSUME NEW d \in Calls, phase[d] = "running"
             PROVE  request[d].uri \in Suspending
  BY DEF LoopFree
<1>1. CASE Holder(d)
  <2>1. IsRun(d)
    BY <1>1 DEF Idle, Nested
  <2> QED
    BY <2>1, FlowAssumption DEF IsRun
<1>2. CASE ~Holder(d)
  BY <1>2, FlowAssumption DEF Holder, Running, Waiting, IsRun, Parked
<1> QED
  BY <1>1, <1>2

\* The steps of a workflow are numbered from 1, and each is a step.
LEMMA FlowType ==
  ASSUME NEW u \in DOMAIN Flow
  PROVE  /\ Len(Flow[u].steps) \in Nat
         /\ DOMAIN Flow[u].steps = 1 .. Len(Flow[u].steps)
         /\ \A s \in DOMAIN Flow[u].steps :
              Flow[u].steps[s] \in StepType(Len(Flow[u].steps))
<1>1. Flow[u].steps \in Seq(StepType(Len(Flow[u].steps)))
  BY FlowAssumption
<1> QED
  BY <1>1, LenProperties, ElementOfSeq

\* The step a run is at, as far as there is one.
LEMMA CurrentType ==
  ASSUME RunsTypeOK, NEW c \in Calls, request[c].uri \in DOMAIN Flow, HasStep(c)
  PROVE  /\ frame[c].pc \in DOMAIN Flow[request[c].uri].steps
         /\ Current(c) = Flow[request[c].uri].steps[frame[c].pc]
         /\ Current(c) \in StepType(Len(Steps(c)))
<1>1. frame[c].pc \in Nat \ {0}
  BY DEF RunsTypeOK, Frames
<1>2. frame[c].pc <= Len(Flow[request[c].uri].steps)
  BY DEF HasStep, Steps
<1>3. frame[c].pc \in DOMAIN Flow[request[c].uri].steps
  BY <1>1, <1>2, FlowType
<1> QED
  BY <1>3, FlowType DEF Current, Steps

\* A run that is inside a step has a step.
LEMMA InsideHasStep ==
  ASSUME FramesLinked, NEW c \in Calls, frame[c].at # "top"
  PROVE  HasStep(c) /\ request[c].uri \in DOMAIN Flow
<1>1. InsideStep(request[c].uri, frame[c])
  BY DEF FramesLinked
<1> QED
  BY <1>1, FlowType DEF InsideStep, HasStep, Steps

-----------------------------------------------------------------------------
\* A step of run c that makes no call: it goes on with the items of its
\* for_each, or passes its step.
Moves(c, f) ==
  /\ IsRun(c) /\ Holder(c) /\ HasStep(c)
  /\ f \in Frames
  /\ frame' = [frame EXCEPT ![c] = f]
  /\ UNCHANGED <<vars, parent, step, given>>
  /\ \/ /\ f.pc = frame[c].pc /\ f.at = "loop" /\ f.bound = frame[c].bound
        /\ Current(c).kind = "for_each"
     \/ /\ f.pc = frame[c].pc + 1 /\ f.at = "top"
        /\ f.bound \subseteq frame[c].bound \cup {frame[c].pc}
        /\ Current(c).kind = "call" =>
             \/ frame[c].at = "top" /\ Current(c).when /\ f.bound = frame[c].bound
             \/ frame[c].at = "await" /\ result[frame[c].inner].ok

\* Call d is made at step s of p, or as a request if p is no call.
Makes(d, r, p, s) ==
  /\ IsNext(d) /\ r \in Requests
  /\ Answer(d, r) \/ Dispatch(d, r)
  /\ parent' = [parent EXCEPT ![d] = p]
  /\ step' = [step EXCEPT ![d] = s]
  /\ given' \in [Calls -> Inputs \cup {NoCall}]
  /\ \/ p = NoCall /\ Idle /\ s = 0 /\ frame' = frame
     \/ /\ p \in Calls /\ IsRun(p) /\ Holder(p) /\ HasStep(p) /\ s = frame[p].pc
        /\ \/ frame[p].at = "top" /\ Current(p).kind = "call"
           \/ frame[p].at = "loop" /\ Current(p).kind = "for_each"
        /\ \E n \in 0 .. MaxItems :
             frame' = [frame EXCEPT ![p] =
                         [frame[p] EXCEPT !.at = "await", !.inner = d, !.left = n]]

\* The handler of c settles with res; a run does so only from the loop, and
\* with success only at its end.
Settles(c, res) ==
  /\ Settle(c) /\ Finish(c, res)
  /\ Holder(c) \/ (Idle /\ ~IsRun(c))
  /\ res \in Failures \/ res = Ok(c)
  /\ IsRun(c) =>
       \/ res \in Failures
       \/ ~HasStep(c) /\ Flow[request[c].uri].needs \subseteq frame[c].bound
  /\ UNCHANGED runVars

\* A run passes its step, and binds its result or not.
LEMMA AdvanceType ==
  ASSUME RunsTypeOK, NEW c \in Calls, NEW b \in BOOLEAN
  PROVE  /\ Advance(c, b) \in Frames
         /\ Advance(c, b).pc = frame[c].pc + 1
         /\ Advance(c, b).at = "top"
         /\ b = TRUE => Advance(c, b).bound = frame[c].bound \cup {frame[c].pc}
         /\ b = FALSE => Advance(c, b).bound = frame[c].bound
<1> DEFINE g(B) == [frame[c] EXCEPT !.pc = frame[c].pc + 1, !.at = "top",
                                    !.inner = NoCall, !.bound = B]
<1>1. frame[c] \in Frames /\ frame[c].pc + 1 \in Nat \ {0}
  BY DEF RunsTypeOK, Frames
<1>2. ASSUME NEW B \in SUBSET Nat
      PROVE  /\ g(B) \in Frames /\ g(B).pc = frame[c].pc + 1
             /\ g(B).at = "top" /\ g(B).bound = B
  BY <1>1 DEF Frames, Ats
<1>3. frame[c].bound \in SUBSET Nat /\ frame[c].bound \cup {frame[c].pc} \in SUBSET Nat
  BY <1>1 DEF Frames
<1> HIDE DEF g
<1>4. CASE b = TRUE
  <2>1. Advance(c, b) = g(frame[c].bound \cup {frame[c].pc})
    BY <1>4, <1>1 DEF Advance, g, Frames
  <2> QED
    BY <1>2, <1>3, <1>4, <2>1
<1>5. CASE b = FALSE
  <2>1. Advance(c, b) = g(frame[c].bound)
    BY <1>5, <1>1 DEF Advance, g, Frames
  <2> QED
    BY <1>2, <1>3, <1>5, <2>1
<1> QED
  BY <1>4, <1>5

\* Every turn of a run is a move, a call or the end of its handler.
LEMMA TurnForms ==
  ASSUME RunsInv, NEW c \in Calls, Turn(c)
  PROVE  \/ \E f : Moves(c, f)
         \/ \E d \in Calls : \E r, s : Makes(d, r, c, s)
         \/ \E res : Settles(c, res)
<1> USE DEF RunsInv
<1>0. frame[c] \in Frames
  BY DEF RunsTypeOK
<1>1. IsRun(c) /\ Holder(c)
  BY DEF Turn, Skip, Record, StartCall, StartLoop, StartItem, EndLoop, ItemAnswered,
         CallSucceeded, CallFailed, RenderFails, Complete, Enters, AtStep, InLoop, Awaited
<1>2. request[c].uri \in DOMAIN Flow
  BY <1>1 DEF IsRun
<1>3. ASSUME NEW b \in BOOLEAN, HasStep(c), frame' = [frame EXCEPT ![c] = Advance(c, b)],
             UNCHANGED <<vars, parent, step, given>>,
             Current(c).kind = "call" =>
               \/ frame[c].at = "top" /\ Current(c).when /\ b = FALSE
               \/ frame[c].at = "await" /\ result[frame[c].inner].ok
      PROVE  Moves(c, Advance(c, b))
  <2>1. Advance(c, b).bound \subseteq frame[c].bound \cup {frame[c].pc}
    BY AdvanceType
  <2> QED
    BY <1>1, <1>3, <2>1, AdvanceType DEF Moves
<1>4. CASE Skip(c)
  <2>1. Moves(c, Advance(c, FALSE))
    BY <1>3, <1>4 DEF Skip, AtStep, Move
  <2> QED
    BY <2>1
<1>5. CASE Record(c)
  <2> DEFINE b == Current(c).kind # "branches" \/ Current(c).output
  <2>1. b \in BOOLEAN
    BY <1>2, <1>5, CurrentType DEF Record, Enters, AtStep, StepType
  <2>2. Moves(c, Advance(c, b))
    BY <1>3, <1>5, <2>1 DEF Record, Enters, AtStep, Move
  <2> QED
    BY <2>2
<1>6. ASSUME NEW d \in Calls, NEW n \in 0 .. MaxItems, NEW q, q \in StepType(Len(Steps(c))),
             HasStep(c),
             \/ frame[c].at = "top" /\ Current(c).kind = "call"
             \/ frame[c].at = "loop" /\ Current(c).kind = "for_each",
             Invoke(d, StepRequest(q), c, frame[c].pc, given[c]),
             frame' = [frame EXCEPT ![c] =
                         [frame[c] EXCEPT !.at = "await", !.inner = d, !.left = n]]
      PROVE  Makes(d, StepRequest(q), c, frame[c].pc)
  <2>1. q.uri \in Uris /\ q.key \in Keys \cup {NoKey}
    BY <1>6 DEF StepType
  <2>2. StepRequest(q) \in Requests
    BY <2>1, FlowAssumption DEF StepRequest, Ask, Requests
  <2>3. given' \in [Calls -> Inputs \cup {NoCall}]
    BY <1>6 DEF Invoke, RunsTypeOK
  <2> QED
    BY <1>1, <1>6, <2>2, <2>3 DEF Makes, Invoke
<1>7. ASSUME NEW d \in Calls, StartCall(c, d)
      PROVE  \E r, s : Makes(d, r, c, s)
  <2>1. HasStep(c) /\ Current(c) \in StepType(Len(Steps(c)))
    BY <1>2, <1>7, CurrentType DEF StartCall, Enters, AtStep
  <2>2. [frame[c] EXCEPT !.at = "await", !.inner = d]
          = [frame[c] EXCEPT !.at = "await", !.inner = d, !.left = frame[c].left]
    BY <1>0 DEF Frames
  <2>3. frame[c].left \in 0 .. MaxItems
    BY <1>0 DEF Frames
  <2>4. Makes(d, StepRequest(Current(c)), c, frame[c].pc)
    BY <1>6, <1>7, <2>1, <2>2, <2>3 DEF StartCall, Enters, AtStep, Move
  <2> QED
    BY <2>4
<1>8. ASSUME NEW d \in Calls, StartItem(c, d)
      PROVE  \E r, s : Makes(d, r, c, s)
  <2> DEFINE q == [Current(c) EXCEPT !.key = NoKey]
  <2>1. frame[c].at = "loop"
    BY <1>8 DEF StartItem, InLoop
  <2>2. HasStep(c) /\ Current(c) \in StepType(Len(Steps(c)))
    BY <1>2, <2>1, InsideHasStep, CurrentType
  <2>3. Current(c).kind = "for_each"
    BY <2>1, <2>2, <1>2, CurrentType DEF FramesLinked, InsideStep
  <2>4. q \in StepType(Len(Steps(c)))
    BY <2>2 DEF StepType
  <2>5. [frame[c] EXCEPT !.at = "await", !.inner = d, !.left = @ - 1]
          = [frame[c] EXCEPT !.at = "await", !.inner = d, !.left = frame[c].left - 1]
    BY <1>0 DEF Frames
  <2>6. frame[c].left - 1 \in 0 .. MaxItems
    BY <1>0, <1>8, FlowAssumption DEF Frames, StartItem
  <2>7. /\ Invoke(d, StepRequest(q), c, frame[c].pc, given[c])
        /\ frame' = [frame EXCEPT ![c] =
                       [frame[c] EXCEPT !.at = "await", !.inner = d, !.left = frame[c].left - 1]]
    BY <1>8, <2>5 DEF StartItem, Move
  <2> HIDE DEF q
  <2>8. Makes(d, StepRequest(q), c, frame[c].pc)
    BY <1>6, <2>1, <2>2, <2>3, <2>4, <2>6, <2>7
  <2> QED
    BY <2>8
<1>9. CASE StartLoop(c)
  <2>1. PICK n \in 0 .. MaxItems :
          frame' = [frame EXCEPT ![c] = [frame[c] EXCEPT !.at = "loop", !.left = n]]
    BY <1>9 DEF StartLoop, Move
  <2> DEFINE f == [frame[c] EXCEPT !.at = "loop", !.left = n]
  <2>2. f \in Frames /\ f.pc = frame[c].pc /\ f.at = "loop" /\ f.bound = frame[c].bound
    BY <1>0 DEF Frames, Ats
  <2> HIDE DEF f
  <2>3. Moves(c, f)
    BY <1>1, <1>9, <2>1, <2>2 DEF Moves, StartLoop, Enters, AtStep, f
  <2> QED
    BY <2>3
<1>10. CASE EndLoop(c)
  <2>1. frame[c].at = "loop"
    BY <1>10 DEF EndLoop, InLoop
  <2>2. HasStep(c) /\ Current(c) \in StepType(Len(Steps(c)))
    BY <1>2, <2>1, InsideHasStep, CurrentType
  <2>3. Current(c).kind = "for_each" /\ Current(c).output \in BOOLEAN
    BY <2>1, <2>2, <1>2, CurrentType DEF FramesLinked, InsideStep, StepType
  <2>4. Moves(c, Advance(c, Current(c).output))
    BY <1>3, <1>10, <2>2, <2>3 DEF EndLoop, Move
  <2> QED
    BY <2>4
<1>11. CASE ItemAnswered(c)
  <2> DEFINE f == [frame[c] EXCEPT !.at = "loop", !.inner = NoCall]
  <2>1. f \in Frames /\ f.pc = frame[c].pc /\ f.at = "loop" /\ f.bound = frame[c].bound
    BY <1>0 DEF Frames, Ats
  <2>2. frame[c].at = "await" /\ Current(c).kind = "for_each"
    BY <1>11 DEF ItemAnswered, Awaited
  <2>3. HasStep(c)
    BY <2>2, InsideHasStep
  <2>4. frame' = [frame EXCEPT ![c] = f] /\ UNCHANGED <<vars, parent, step, given>>
    BY <1>11 DEF ItemAnswered, Move
  <2> HIDE DEF f
  <2>5. Moves(c, f)
    BY <1>1, <2>1, <2>2, <2>3, <2>4 DEF Moves
  <2> QED
    BY <2>5
<1>12. CASE CallSucceeded(c)
  <2>1. frame[c].at = "await" /\ Current(c).kind = "call" /\ result[frame[c].inner].ok
    BY <1>12 DEF CallSucceeded, Awaited
  <2>2. HasStep(c) /\ Current(c).output \in BOOLEAN
    BY <1>2, <2>1, InsideHasStep, CurrentType DEF StepType
  <2>3. Moves(c, Advance(c, Current(c).output))
    BY <1>3, <1>12, <2>1, <2>2 DEF CallSucceeded, Move
  <2> QED
    BY <2>3
<1>13. ASSUME Abort(c) PROVE \E res : Settles(c, res)
  <2>1. Settles(c, Fail("capability.execution_error", FALSE))
    BY <1>1, <1>13, FailuresAre DEF Settles, Abort, HandlerRaises, Settle
  <2> QED
    BY <2>1
<1>14. CASE Complete(c)
  <2>1. Settles(c, Ok(c))
    BY <1>1, <1>14 DEF Settles, Complete, HandlerReturns, Settle
  <2> QED
    BY <2>1
<1> QED
  BY <1>4, <1>5, <1>7, <1>8, <1>9, <1>10, <1>11, <1>12, <1>13, <1>14
     DEF Turn, CallFailed, RenderFails

\* What a step of the runtime can be.
LEMMA RunsForms ==
  ASSUME RunsInv, RunsNext
  PROVE  \/ \E c \in Calls : \E f : Moves(c, f)
         \/ \E d \in Calls : \E r, p, s : Makes(d, r, p, s)
         \/ \E c \in Calls : \E res : Settles(c, res)
         \/ RestartAll
<1>1. ASSUME NEW c \in Calls, NEW u \in RootUris, NEW in \in Inputs, RunAgentTask(c, u, in)
      PROVE  \E r : Makes(c, r, NoCall, 0)
  <2> DEFINE w == IF Parsed[u] = "workflow" THEN {"workflow"} ELSE {"agent", "mcp", "workflow"}
  <2>1. Ask(u, NoKey, w) \in Requests
    BY FlowAssumption DEF Ask, Requests
  <2>2. Invoke(c, Ask(u, NoKey, w), NoCall, 0, in)
    BY <1>1 DEF RunAgentTask
  <2>3. given' \in [Calls -> Inputs \cup {NoCall}]
    BY <2>2 DEF Invoke, RunsInv, RunsTypeOK
  <2>4. Idle /\ frame' = frame
    BY <1>1 DEF RunAgentTask
  <2> HIDE DEF w
  <2>5. Makes(c, Ask(u, NoKey, w), NoCall, 0)
    BY <2>1, <2>2, <2>3, <2>4 DEF Makes, Invoke
  <2> QED
    BY <2>5
<1>2. ASSUME NEW c \in Calls, LeafSettles(c)
      PROVE  \E res : Settles(c, res)
  <2>1. PICK res : Finish(c, res) /\ (res \in Failures \/ res = Ok(c))
    BY <1>2, FailuresAre
       DEF LeafSettles, Settle, HandlerReturns, HandlerTimesOut, HandlerRaises, Cancelled
  <2>2. Settles(c, res)
    BY <1>2, <2>1 DEF Settles, LeafSettles
  <2> QED
    BY <2>2
<1> QED
  BY <1>1, <1>2, TurnForms DEF RunsNext

-----------------------------------------------------------------------------
\* A step of the runtime is a step of the registry or leaves it alone.
LEMMA RegistrySteps ==
  ASSUME RunsInv, [RunsNext]_allVars
  PROVE  [Next]_vars
<1> USE DEF RunsInv
<1>1. ASSUME NEW c \in Calls, NEW f, Moves(c, f) PROVE UNCHANGED vars
  BY <1>1 DEF Moves
<1>2. ASSUME NEW d \in Calls, NEW r, NEW p, NEW s, Makes(d, r, p, s) PROVE Next
  <2>1. LoopFree
    BY <1>2, LoopIsFree DEF Makes
  <2> QED
    BY <1>2, <2>1 DEF Makes, Next
<1>3. ASSUME NEW c \in Calls, NEW res, Settles(c, res) PROVE Next
  <2>1. phase[c] = "running"
    BY <1>3 DEF Settles, Finish
  <2>2. HoldsLoop(c)
    <3>1. CASE IsRun(c) \/ Idle
      BY <1>3, <3>1, LoopIsFree DEF Settles, HoldsLoop, Idle
    <3>2. CASE ~IsRun(c) /\ Holder(c)
      BY <2>1, <3>2 DEF Holder, Parked, Running, HoldsLoop
    <3> QED
      BY <1>3, <3>1, <3>2 DEF Settles
  <2> QED
    BY <1>3, <2>1, <2>2 DEF Settles, Next
<1>4. CASE RestartAll
  BY <1>4 DEF RestartAll, Next
<1>5. CASE UNCHANGED allVars
  BY <1>5 DEF allVars
<1> QED
  BY <1>1, <1>2, <1>3, <1>4, <1>5, RunsForms

\* A step that succeeded stays one.
LEMMA CalledStays ==
  ASSUME NEW c \in Calls, NEW s, CalledStep(c, s),
         \A d \in Calls : (phase[d] # "new" /\ phase[d] = "done") =>
           /\ phase'[d] = "done" /\ result'[d] = result[d]
           /\ parent'[d] = parent[d] /\ step'[d] = step[d]
  PROVE  CalledStep(c, s)'
BY DEF CalledStep, IsStep, Succeeds

-----------------------------------------------------------------------------
\* A move changes nothing but the frame of a run that has the loop.
LEMMA MovesNested ==
  ASSUME RunsInv, NEW c \in Calls, NEW f, Moves(c, f)
  PROVE  Nested'
<1> USE DEF RunsInv
<1>1. /\ \A e \in Calls : /\ phase'[e] = phase[e] /\ request'[e] = request[e]
                          /\ parent'[e] = parent[e] /\ step'[e] = step[e]
      /\ \A e \in Calls \ {c} : frame'[e] = frame[e]
  BY DEF Moves, vars, RunsTypeOK
<1>2. ASSUME NEW e \in Calls, Holder(e)' PROVE Holder(e)
  <2>1. CASE e = c
    BY <2>1 DEF Moves
  <2>2. CASE e # c
    <3>1. frame[e].at = "await" => frame[e].inner \in Calls
      BY DEF FramesLinked
    <3> QED
      BY <1>1, <1>2, <2>2, <3>1 DEF Holder, Running, Waiting, IsRun, Parked
  <2> QED
    BY <2>1, <2>2
<1>3. ASSUME NEW d \in Calls, IsStep(d), Running(d) PROVE parent[d] # c /\ parent[d] \in Calls
  BY <1>3 DEF Nested, StepsPlaced, Moves, Holder, Waiting
<1>4. \A d \in Calls : (IsStep(d) /\ Running(d))' => IsStep(d) /\ Running(d)
  BY <1>1 DEF IsStep, Running
<1> QED
  BY <1>1, <1>2, <1>3, <1>4 DEF Nested, IsRun, Running

\* A move inside a run leaves the steps where they were and its frame linked.
LEMMA MovesPlaced ==
  ASSUME RunsInv, NEW c \in Calls, NEW f, Moves(c, f)
  PROVE  StepsPlaced' /\ FramesLinked'
<1> USE DEF RunsInv
<1>1. /\ \A e \in Calls : /\ phase'[e] = phase[e] /\ request'[e] = request[e]
                          /\ parent'[e] = parent[e] /\ step'[e] = step[e]
      /\ \A e \in Calls \ {c} : frame'[e] = frame[e]
      /\ frame'[c] = f
  BY DEF Moves, vars, RunsTypeOK
<1>2. /\ request[c].uri \in DOMAIN Flow /\ phase[c] # "new"
      /\ frame[c].pc \in Nat /\ frame[c].pc \in DOMAIN Flow[request[c].uri].steps
      /\ Current(c) = Flow[request[c].uri].steps[frame[c].pc]
  BY CurrentType DEF Moves, IsRun, Running, RunsTypeOK, Frames
<1>3. ASSUME NEW d \in Calls, IsStep(d), parent[d] = c
      PROVE  PlacedAt(d, step[d], request[c].uri, f)
  <2>1. PlacedAt(d, step[d], request[c].uri, frame[c])
    BY <1>3 DEF StepsPlaced
  <2>2. step[d] \in Nat
    BY DEF RunsTypeOK
  <2> QED
    BY <1>2, <2>1, <2>2 DEF PlacedAt, Moves
<1>4. StepsPlaced'
  BY <1>1, <1>3 DEF StepsPlaced, IsStep
<1>5. f.at # "top" => InsideStep(request[c].uri, f) /\ f.at = "loop"
  BY <1>2 DEF Moves, InsideStep
<1>6. FramesLinked'
  BY <1>1, <1>2, <1>5 DEF FramesLinked, IsStep, Running
<1> QED
  BY <1>4, <1>6

\* A move of a run leaves behind only call steps that were called with success.
LEMMA MovesDone ==
  ASSUME RunsInv, NEW c \in Calls, NEW f, Moves(c, f)
  PROVE  StepsDone'
<1> USE DEF RunsInv
<1>1. /\ \A e \in Calls : /\ phase'[e] = phase[e] /\ request'[e] = request[e]
                          /\ parent'[e] = parent[e] /\ step'[e] = step[e]
                          /\ result'[e] = result[e]
      /\ \A e \in Calls \ {c} : frame'[e] = frame[e]
      /\ frame'[c] = f
  BY DEF Moves, vars, RunsTypeOK
<1>2. \A e \in Calls : \A s : CalledStep(e, s) => CalledStep(e, s)'
  BY <1>1, CalledStays
<1>3. /\ request[c].uri \in DOMAIN Flow /\ phase[c] # "new"
      /\ frame[c].pc \in Nat /\ frame[c].pc \in DOMAIN Flow[request[c].uri].steps
      /\ Current(c) = Flow[request[c].uri].steps[frame[c].pc]
  BY CurrentType DEF Moves, IsRun, Running, RunsTypeOK, Frames
<1>4. ASSUME frame[c].at = "await", result[frame[c].inner].ok
      PROVE  CalledStep(c, frame[c].pc)
  <2>1. /\ frame[c].inner \in Calls /\ IsStep(frame[c].inner) /\ Running(c)
        /\ parent[frame[c].inner] = c /\ step[frame[c].inner] = frame[c].pc
        /\ phase[frame[c].inner] \notin {"lost", "new"}
    BY <1>4 DEF FramesLinked, Moves, IsRun, IsStep
  <2>2. ~Running(frame[c].inner)
    BY <1>4 DEF Moves, Holder, Waiting
  <2>3. phase[frame[c].inner] = "done"
    BY <2>1, <2>2 DEF Running, RunsTypeOK, TypeOK, Phases
  <2> QED
    BY <1>4, <2>1, <2>3 DEF CalledStep, Succeeds
<1>5. ASSUME NEW s \in DOMAIN Flow[request[c].uri].steps, AnswersFor(request[c].uri, f, s)
      PROVE  CalledStep(c, s)
  <2>1. s \in Nat
    BY <1>3, FlowType
  <2>2. CASE AnswersFor(request[c].uri, frame[c], s)
    BY <1>3, <2>2 DEF StepsDone
  <2>3. CASE ~AnswersFor(request[c].uri, frame[c], s)
    <3>1. s = frame[c].pc /\ Current(c).kind = "call"
      BY <1>3, <1>5, <2>1, <2>3 DEF AnswersFor, Moves
    <3>2. frame[c].at = "await" /\ result[frame[c].inner].ok
      BY <1>3, <1>5, <2>3, <3>1 DEF AnswersFor, Moves
    <3> QED
      BY <1>4, <3>1, <3>2
  <2> QED
    BY <2>2, <2>3
<1>6. ASSUME NEW e \in Calls, phase[e] # "new", request[e].uri \in DOMAIN Flow,
             NEW s \in DOMAIN Flow[request[e].uri].steps,
             AnswersFor(request[e].uri, frame'[e], s)
      PROVE  CalledStep(e, s)
  BY <1>1, <1>5, <1>6 DEF StepsDone
<1>7. SUFFICES ASSUME NEW e \in Calls, phase[e] # "new", request[e].uri \in DOMAIN Flow,
                      NEW s \in DOMAIN Flow[request[e].uri].steps,
                      AnswersFor(request[e].uri, frame'[e], s)
               PROVE  CalledStep(e, s)'
  BY <1>1 DEF StepsDone, AnswersFor
<1> QED
  BY <1>2, <1>6, <1>7

\* A move of a run inside itself keeps the invariant.
LEMMA MovesRunsInv ==
  ASSUME RunsInv, NEW c \in Calls, NEW f, Moves(c, f)
  PROVE  RunsInv'
<1> USE DEF RunsInv
<1>1. /\ \A e \in Calls : /\ phase'[e] = phase[e] /\ request'[e] = request[e]
                          /\ parent'[e] = parent[e] /\ step'[e] = step[e]
                          /\ result'[e] = result[e]
      /\ \A e \in Calls \ {c} : frame'[e] = frame[e]
      /\ frame'[c] = f
  BY DEF Moves, vars, RunsTypeOK
<1>2. CacheInv'
  BY NextCacheInv DEF Moves
<1>3. RunsTypeOK'
  BY <1>2 DEF RunsTypeOK, Moves, CacheInv
<1>4. MadeInOrder' /\ Untouched'
  BY <1>1 DEF MadeInOrder, Untouched, Moves, IsRun, Running
<1>5. StepsInOrder'
  BY <1>1 DEF StepsInOrder, IsStep, StepOf, Steps, StepsPlaced
<1>6. FailedSteps'
  <2>1. ASSUME NEW d \in Calls, IsStep(d), phase[d] = "done", ~result[d].ok,
               StepOf(d).kind = "call"
        PROVE  parent[d] # c
    <3> SUFFICES ASSUME parent[d] = c PROVE FALSE
      OBVIOUS
    <3>1. frame[c].at = "await" /\ frame[c].inner = d
      BY <2>1 DEF FailedSteps
    <3>2. Current(c).kind = "call"
      BY <2>1, <3>1 DEF FramesLinked, StepOf, Current
    <3> QED
      BY <2>1, <3>1, <3>2 DEF Moves
  <2>2. \A d \in Calls : IsStep(d) => parent[d] \in Calls
    BY DEF StepsPlaced
  <2> QED
    BY <1>1, <2>1, <2>2 DEF FailedSteps, IsStep, StepOf, Steps, Succeeds
<1>7. Ended'
  BY <1>1 DEF Ended, RanToTheEnd, Succeeds, HasStep, Steps, Moves, IsRun, Running
<1> QED
  BY <1>2, <1>3, <1>4, <1>5, <1>6, <1>7, MovesNested, MovesPlaced, MovesDone

-----------------------------------------------------------------------------
\* A call that is made is the last one made, changes no other call, and is no
\* run that succeeds at once.
LEMMA MadeCall ==
  ASSUME RunsInv, NEW d \in Calls, NEW r, NEW p, NEW s, Makes(d, r, p, s)
  PROVE  /\ phase[d] = "new"
         /\ phase'[d] \in {"running", "done"}
         /\ request'[d] = r /\ parent'[d] = p /\ step'[d] = s
         /\ \A e \in Calls \ {d} :
              /\ phase'[e] = phase[e] /\ request'[e] = request[e]
              /\ phase[e] = "done" => result'[e] = result[e]
              /\ parent'[e] = parent[e] /\ step'[e] = step[e]
         /\ \A e \in Calls : IF phase[e] = "new" THEN d <= e ELSE e < d
         /\ ~RanToTheEnd(d)'
<1> USE DEF RunsInv
<1>1. phase[d] = "new" /\ \A e \in Calls : phase[e] = "new" => d <= e
  BY DEF Makes, IsNext
<1>2. \A e \in Calls : phase[e] # "new" => e < d
  BY <1>1 DEF MadeInOrder
<1>3. /\ phase'[d] \in {"running", "done"} /\ request'[d] = r
      /\ \A e \in Calls \ {d} :
           /\ phase'[e] = phase[e] /\ request'[e] = request[e] /\ result'[e] = result[e]
  BY DEF Makes, Answer, Dispatch, Enter, CacheInv, TypeOK
<1>4. parent'[d] = p /\ step'[d] = s
      /\ \A e \in Calls \ {d} : parent'[e] = parent[e] /\ step'[e] = step[e]
  BY DEF Makes, RunsTypeOK
<1>5. ASSUME RanToTheEnd(d)' PROVE FALSE
  <2>1. r.uri \in DOMAIN Flow /\ r \in Requests /\ r.uri \in Uris
    BY <1>3, <1>5, FlowAssumption DEF RanToTheEnd, Makes
  <2>2. Answer(d, r) /\ result'[d] = Immediate(d, r)
    BY <1>5 DEF Makes, Dispatch, RanToTheEnd, Succeeds, CacheInv, TypeOK, Answer
  <2>3. Parsed[r.uri] = "workflow"
    BY <2>1, FlowAssumption
  <2>4. CASE Cached(r) = NoEntry
    <3>1. Immediate(d, r) \in Failures
      BY <2>3, <2>4, FailuresAre DEF Immediate
    <3> QED
      BY <1>5, <2>2, <3>1, FailType DEF RanToTheEnd, Succeeds
  <2>5. CASE Cached(r) # NoEntry
    <3>1. r.key # NoKey /\ cache[Digest(r)] # NoEntry /\ result'[d] = cache[Digest(r)]
      BY <2>2, <2>5 DEF Cached, Immediate
    <3>2. PICK q \in Calls : Succeeded(q) /\ cache[Digest(r)] = result[q]
      BY <2>1, <3>1, DigestType DEF CacheInv, CacheFaithful
    <3>3. result'[d].output = q /\ phase[q] = "done"
      BY <3>1, <3>2 DEF Succeeded, Ok
    <3> QED
      BY <1>1, <1>5, <3>3 DEF RanToTheEnd
  <2> QED
    BY <2>4, <2>5
<1> QED
  BY <1>1, <1>2, <1>3, <1>4, <1>5

\* The frame of the run that makes a call awaits it from then on; no other
\* frame changes.
LEMMA MadeFrame ==
  ASSUME RunsInv, NEW d \in Calls, NEW r, NEW p, NEW s, Makes(d, r, p, s)
  PROVE  /\ \A e \in Calls \ {p} : frame'[e] = frame[e]
         /\ frame' \in [Calls -> Frames]
         /\ p # NoCall =>
              /\ p \in Calls /\ p < d /\ IsRun(p) /\ Holder(p)
              /\ request[p].uri \in DOMAIN Flow
              /\ s = frame[p].pc /\ frame[p].at # "await"
              /\ s \in DOMAIN Flow[request[p].uri].steps
              /\ Flow[request[p].uri].steps[s].kind =
                   IF frame[p].at = "top" THEN "call" ELSE "for_each"
              /\ frame'[p].pc = frame[p].pc /\ frame'[p].bound = frame[p].bound
              /\ frame'[p].at = "await" /\ frame'[p].inner = d
         /\ p = NoCall => Idle /\ s = 0 /\ frame' = frame
<1> USE DEF RunsInv
<1>1. CASE p = NoCall
  BY <1>1, CapabilitiesAssumption DEF Makes, RunsTypeOK
<1>2. CASE p # NoCall
  <2>1. PICK n \in 0 .. MaxItems :
          frame' = [frame EXCEPT ![p] =
                      [frame[p] EXCEPT !.at = "await", !.inner = d, !.left = n]]
    BY <1>2 DEF Makes
  <2>2. /\ p \in Calls /\ IsRun(p) /\ Holder(p) /\ HasStep(p) /\ s = frame[p].pc
        /\ \/ frame[p].at = "top" /\ Current(p).kind = "call"
           \/ frame[p].at = "loop" /\ Current(p).kind = "for_each"
    BY <1>2 DEF Makes
  <2>3. frame[p] \in Frames
    BY <2>2 DEF RunsTypeOK
  <2> DEFINE f == [frame[p] EXCEPT !.at = "await", !.inner = d, !.left = n]
  <2>4. /\ f \in Frames /\ f.pc = frame[p].pc /\ f.bound = frame[p].bound
        /\ f.at = "await" /\ f.inner = d
    BY <2>3 DEF Frames, Ats
  <2> HIDE DEF f
  <2>5. /\ frame' \in [Calls -> Frames] /\ frame'[p] = f
        /\ \A e \in Calls \ {p} : frame'[e] = frame[e]
    BY <2>1, <2>2, <2>4 DEF RunsTypeOK, f
  <2>6. request[p].uri \in DOMAIN Flow /\ phase[p] # "new"
    BY <2>2 DEF IsRun, Running
  <2>7. p < d
    BY <2>2, <2>6, MadeCall
  <2>8. /\ frame[p].pc \in DOMAIN Flow[request[p].uri].steps
        /\ Current(p) = Flow[request[p].uri].steps[frame[p].pc]
    BY <2>2, <2>6, CurrentType
  <2> QED
    BY <1>2, <2>2, <2>4, <2>5, <2>6, <2>7, <2>8
<1> QED
  BY <1>1, <1>2

\* A call that is made is awaited by its run, which no longer has the loop if
\* the call has one to keep.
LEMMA MakesNested ==
  ASSUME RunsInv, NEW d \in Calls, NEW r, NEW p, NEW s, Makes(d, r, p, s)
  PROVE  Nested'
<1> USE DEF RunsInv
<1>1. /\ phase[d] = "new" /\ parent'[d] = p /\ step'[d] = s
      /\ \A e \in Calls \ {d} :
           /\ phase'[e] = phase[e] /\ request'[e] = request[e]
           /\ parent'[e] = parent[e] /\ step'[e] = step[e]
  BY MadeCall
<1>2. \A e \in Calls \ {p} : frame'[e] = frame[e]
  BY MadeFrame
<1>3. ASSUME NEW e \in Calls \ {d, p}, Holder(e)' PROVE Holder(e)
  <2>1. frame[e].at = "await" => frame[e].inner \in Calls /\ frame[e].inner # d
    BY <1>1 DEF FramesLinked, IsStep
  <2> QED
    BY <1>1, <1>2, <1>3, <2>1 DEF Holder, Running, Waiting, IsRun, Parked
<1>4. CASE p = NoCall
  <2>1. \A e \in Calls : Holder(e)' => e = d
    BY <1>3, <1>4, MadeFrame, CapabilitiesAssumption DEF Idle
  <2>2. ASSUME NEW e \in Calls, IsStep(e)', Running(e)'
        PROVE  /\ IsStep(e) /\ Running(e) /\ parent'[e] = parent[e] /\ step'[e] = step[e]
               /\ parent[e] \in Calls /\ parent[e] # d
    BY <1>1, <1>4, <2>2 DEF IsStep, Running, StepsPlaced
  <2> QED
    BY <1>1, <1>2, <1>4, <2>1, <2>2, CapabilitiesAssumption DEF Nested, IsRun, Running
<1>5. CASE p # NoCall
  <2>1. /\ p \in Calls /\ Holder(p) /\ IsRun(p) /\ s = frame[p].pc /\ p # d
        /\ frame[p].at # "await" /\ frame'[p].pc = frame[p].pc
        /\ frame'[p].at = "await" /\ frame'[p].inner = d
    BY <1>1, <1>5, MadeFrame DEF IsRun, Running
  <2>2. IsRun(p)'
    BY <1>1, <2>1 DEF IsRun, Running
  <2>3. ASSUME NEW e \in Calls, Holder(e)'
        PROVE  e = IF phase'[d] = "running" THEN d ELSE p
    <3>1. e \in {d, p}
      BY <1>3, <2>1, <2>3 DEF Nested
    <3>2. phase'[d] = "running" => ~Holder(p)'
      BY <2>1, <2>2 DEF Holder, Waiting, Running
    <3>3. phase'[d] # "running" => ~Holder(d)'
      BY DEF Holder, Running
    <3> QED
      BY <2>3, <3>1, <3>2, <3>3
  <2>4. ASSUME NEW e \in Calls, e # d, IsStep(e)', Running(e)'
        PROVE  /\ IsStep(e) /\ Running(e) /\ parent'[e] = parent[e] /\ step'[e] = step[e]
               /\ parent[e] \in Calls /\ parent[e] # d /\ parent[e] # p
    BY <1>1, <2>1, <2>4 DEF IsStep, Running, StepsPlaced, Nested
  <2>5. ASSUME NEW e \in Calls, IsStep(e)', Running(e)'
        PROVE  /\ IsRun(parent[e])'
               /\ frame'[parent'[e]].at = "await"
               /\ frame'[parent'[e]].inner = e
               /\ frame'[parent'[e]].pc = step'[e]
    <3>1. CASE e = d
      BY <1>1, <2>1, <2>2, <3>1
    <3>2. CASE e # d
      BY <1>1, <1>2, <2>4, <2>5, <3>2 DEF Nested, IsRun, Running
    <3> QED
      BY <3>1, <3>2
  <2>6. \A e, g \in Calls : (Holder(e) /\ Holder(g))' => e = g
    BY <2>3
  <2> QED
    BY <2>5, <2>6 DEF Nested, IsRun, Running, IsStep
<1> QED
  BY <1>4, <1>5

\* A call that a run makes is placed at the step the run is at.
LEMMA MakesPlaced ==
  ASSUME RunsInv, NEW d \in Calls, NEW r, NEW p, NEW s, Makes(d, r, p, s)
  PROVE  StepsPlaced'
<1> USE DEF RunsInv
<1> SUFFICES ASSUME NEW e \in Calls, IsStep(e)'
             PROVE  /\ parent'[e] \in Calls /\ parent'[e] < e
                    /\ phase'[parent'[e]] # "new"
                    /\ request'[parent'[e]].uri \in DOMAIN Flow
                    /\ PlacedAt(e, step'[e], request'[parent'[e]].uri, frame'[parent'[e]])
  BY DEF StepsPlaced, PlacedAt
<1>0. d \in Nat /\ e \in Nat
  BY FlowAssumption
<1>1. CASE e = d
  <2>1. /\ p # NoCall /\ parent'[e] = p /\ step'[e] = s
    BY <1>1, MadeCall DEF IsStep
  <2>0. p \in Calls /\ p < d /\ s = frame[p].pc /\ IsRun(p)
    BY <2>1, MadeFrame
  <2>2. /\ p \in Calls /\ p < d /\ p # d /\ phase[p] # "new" /\ s = frame[p].pc
        /\ s \in Nat /\ request[p].uri \in DOMAIN Flow
        /\ s \in DOMAIN Flow[request[p].uri].steps
        /\ Flow[request[p].uri].steps[s].kind \in {"call", "for_each"}
        /\ frame'[p].pc = s /\ frame'[p].at = "await" /\ frame'[p].inner = d
    <3>1. phase[p] # "new"
      BY <2>0 DEF IsRun, Running
    <3>2. p # d
      BY <3>1, MadeCall
    <3>3. s \in Nat
      BY <2>0 DEF RunsTypeOK, Frames
    <3> QED
      BY <2>0, <2>1, <3>1, <3>2, <3>3, MadeFrame
  <2>3. phase'[p] = phase[p] /\ request'[p] = request[p]
    BY <2>2, MadeCall
  <2> QED
    BY <1>0, <1>1, <2>1, <2>2, <2>3 DEF PlacedAt
<1>2. CASE e # d
  <2>1. /\ IsStep(e) /\ parent'[e] = parent[e] /\ step'[e] = step[e]
    BY <1>2, MadeCall DEF IsStep
  <2>2. /\ parent[e] \in Calls /\ parent[e] < e /\ phase[parent[e]] # "new"
        /\ request[parent[e]].uri \in DOMAIN Flow
        /\ PlacedAt(e, step[e], request[parent[e]].uri, frame[parent[e]])
    BY <2>1 DEF StepsPlaced
  <2>3. /\ phase'[parent[e]] = phase[parent[e]] /\ request'[parent[e]] = request[parent[e]]
        /\ e < d
    BY <2>1, <2>2, MadeCall DEF IsStep
  <2>4. CASE parent[e] = p
    <3>1. /\ p # NoCall /\ frame[p].at # "await" /\ frame'[p].pc = frame[p].pc
          /\ frame'[p].at = "await" /\ frame'[p].inner = d
      BY <2>2, <2>4, MadeFrame, CapabilitiesAssumption
    <3>2. PlacedAt(e, step[e], request[p].uri, frame'[p])
      BY <1>0, <2>2, <2>3, <2>4, <3>1 DEF PlacedAt
    <3> QED
      BY <2>1, <2>2, <2>3, <2>4, <3>2
  <2>5. CASE parent[e] # p
    BY <2>1, <2>2, <2>3, <2>5, MadeFrame
  <2> QED
    BY <2>4, <2>5
<1> QED
  BY <1>1, <1>2

\* The run that makes a call and waits for it is linked to it, and no other is.
LEMMA MakesLinked ==
  ASSUME RunsInv, NEW d \in Calls, NEW r, NEW p, NEW s, Makes(d, r, p, s)
  PROVE  FramesLinked'
<1> USE DEF RunsInv
<1> SUFFICES ASSUME NEW c \in Calls, frame'[c].at # "top"
             PROVE  /\ phase'[c] # "new"
                    /\ InsideStep(request'[c].uri, frame'[c])
                    /\ frame'[c].at = "await" =>
                         /\ frame'[c].inner \in Calls
                         /\ IsStep(frame[c].inner)'
                         /\ parent'[frame'[c].inner] = c
                         /\ step'[frame'[c].inner] = frame'[c].pc
                         /\ Running(c)' => phase'[frame'[c].inner] # "lost"
  BY DEF FramesLinked, InsideStep, IsStep, Running
<1>1. /\ phase[d] = "new" /\ phase'[d] \in {"running", "done"}
      /\ parent'[d] = p /\ step'[d] = s
      /\ \A e \in Calls \ {d} :
           /\ phase'[e] = phase[e] /\ request'[e] = request[e]
           /\ parent'[e] = parent[e] /\ step'[e] = step[e]
  BY MadeCall
<1>2. CASE c = p
  <2>1. /\ p # NoCall /\ p # d /\ phase[p] # "new"
        /\ request[p].uri \in DOMAIN Flow /\ s = frame[p].pc
        /\ s \in DOMAIN Flow[request[p].uri].steps
        /\ Flow[request[p].uri].steps[s].kind \in {"call", "for_each"}
        /\ frame'[p].pc = s /\ frame'[p].at = "await" /\ frame'[p].inner = d
    BY <1>1, <1>2, MadeFrame, CapabilitiesAssumption DEF IsRun, Running
  <2>2. InsideStep(request[p].uri, frame'[p])
    BY <2>1 DEF InsideStep
  <2> QED
    BY <1>1, <1>2, <2>1, <2>2 DEF IsStep
<1>3. CASE c # p
  <2>1. frame'[c] = frame[c]
    BY <1>3, MadeFrame
  <2>2. /\ phase[c] # "new" /\ c # d
        /\ InsideStep(request[c].uri, frame[c])
        /\ frame[c].at = "await" =>
             /\ frame[c].inner \in Calls /\ frame[c].inner # d
             /\ IsStep(frame[c].inner)
             /\ parent[frame[c].inner] = c
             /\ step[frame[c].inner] = frame[c].pc
             /\ Running(c) => phase[frame[c].inner] # "lost"
    BY <1>1, <2>1 DEF FramesLinked, IsStep
  <2> QED
    BY <1>1, <2>1, <2>2 DEF IsStep, Running
<1> QED
  BY <1>2, <1>3

\* The step of a call stays the step it was.
LEMMA MakesOrdered ==
  ASSUME RunsInv, NEW d \in Calls, NEW r, NEW p, NEW s, Makes(d, r, p, s)
  PROVE  StepsInOrder'
<1> USE DEF RunsInv
<1>1. /\ phase[d] = "new" /\ parent'[d] = p /\ step'[d] = s
      /\ \A e \in Calls \ {d} :
           /\ phase'[e] = phase[e] /\ request'[e] = request[e]
           /\ parent'[e] = parent[e] /\ step'[e] = step[e]
      /\ \A e \in Calls : phase[e] # "new" => e < d
  BY MadeCall
<1> SUFFICES ASSUME NEW a \in Calls, NEW e \in Calls, IsStep(a)', IsStep(e)',
                    parent'[a] = parent'[e], a < e
             PROVE  \/ step'[a] < step'[e]
                    \/ step'[a] = step'[e] /\ StepOf(a)'.kind = "for_each"
  BY DEF StepsInOrder
<1>2. a # d
  BY <1>1, FlowAssumption DEF IsStep
<1>3. IsStep(a) /\ parent[a] \in Calls /\ parent[a] # d
  BY <1>1, <1>2 DEF IsStep, StepsPlaced
<1>4. StepOf(a)' = StepOf(a) /\ StepOf(a) = Flow[request[parent[a]].uri].steps[step[a]]
  BY <1>1, <1>2, <1>3 DEF StepOf, Steps
<1>5. CASE e = d
  <2>1. parent[a] = p /\ p # NoCall
    BY <1>1, <1>2, <1>3, <1>5, CapabilitiesAssumption
  <2>2. PlacedAt(a, step[a], request[p].uri, frame[p])
    BY <1>3, <2>1 DEF StepsPlaced
  <2>3. step[a] \in Nat /\ frame[p].pc \in Nat /\ s = frame[p].pc
    BY <1>3, <2>1, MadeFrame DEF RunsTypeOK, Frames
  <2>4. step[a] = s => Flow[request[p].uri].steps[s].kind = "for_each"
    BY <2>1, <2>2, <2>3, MadeFrame DEF PlacedAt
  <2> QED
    BY <1>1, <1>2, <1>4, <1>5, <2>1, <2>2, <2>3, <2>4 DEF PlacedAt
<1>6. CASE e # d
  BY <1>1, <1>2, <1>3, <1>4, <1>6 DEF StepsInOrder, IsStep
<1> QED
  BY <1>5, <1>6

\* A call step that fails at once leaves its run at that step; others are not disturbed.
LEMMA MakesFailed ==
  ASSUME RunsInv, NEW d \in Calls, NEW r, NEW p, NEW s, Makes(d, r, p, s)
  PROVE  FailedSteps'
<1> USE DEF RunsInv
<1>1. /\ phase[d] = "new" /\ parent'[d] = p /\ step'[d] = s
      /\ \A e \in Calls \ {d} :
           /\ phase'[e] = phase[e] /\ request'[e] = request[e]
           /\ phase[e] = "done" => result'[e] = result[e]
           /\ parent'[e] = parent[e] /\ step'[e] = step[e]
  BY MadeCall
<1> SUFFICES ASSUME NEW e \in Calls, IsStep(e)', phase'[e] = "done", ~result'[e].ok,
                    StepOf(e)'.kind = "call"
             PROVE  /\ frame'[parent'[e]].at = "await"
                    /\ frame'[parent'[e]].inner = e
                    /\ ~Succeeds(parent[e])'
  BY DEF FailedSteps, Succeeds
<1>2. CASE e = d
  <2>1. /\ parent'[e] = p /\ p # NoCall /\ p \in Calls /\ p # d /\ phase[p] = "running"
        /\ frame'[p].at = "await" /\ frame'[p].inner = d
    BY <1>1, <1>2, MadeFrame DEF IsStep, IsRun, Running
  <2>2. phase'[p] = "running"
    BY <1>1, <2>1
  <2> QED
    BY <1>2, <2>1, <2>2 DEF Succeeds
<1>3. CASE e # d
  <2>1. /\ IsStep(e) /\ phase[e] = "done" /\ ~result[e].ok
        /\ parent'[e] = parent[e] /\ parent[e] \in Calls /\ parent[e] # d
    BY <1>1, <1>3 DEF IsStep, StepsPlaced
  <2>2. StepOf(e).kind = "call"
    BY <1>1, <1>3, <2>1 DEF StepOf, Steps
  <2>3. frame[parent[e]].at = "await" /\ frame[parent[e]].inner = e /\ ~Succeeds(parent[e])
    BY <2>1, <2>2 DEF FailedSteps
  <2>4. parent[e] # p
    BY <2>1, <2>3, MadeFrame, CapabilitiesAssumption
  <2> QED
    BY <1>1, <2>1, <2>3, <2>4, MadeFrame DEF Succeeds
<1> QED
  BY <1>2, <1>3

\* Making a call takes nothing from the steps that are done.
LEMMA MakesDone ==
  ASSUME RunsInv, NEW d \in Calls, NEW r, NEW p, NEW s, Makes(d, r, p, s)
  PROVE  StepsDone' /\ Ended'
<1> USE DEF RunsInv
<1>1. /\ phase[d] = "new"
      /\ \A e \in Calls \ {d} :
           /\ phase'[e] = phase[e] /\ request'[e] = request[e]
           /\ phase[e] = "done" => result'[e] = result[e]
           /\ parent'[e] = parent[e] /\ step'[e] = step[e]
  BY MadeCall
<1>2. \A c \in Calls : \A q : CalledStep(c, q) => CalledStep(c, q)'
  BY <1>1, CalledStays
<1>3. \A c \in Calls : frame'[c].pc = frame[c].pc /\ frame'[c].bound = frame[c].bound
  BY MadeFrame
<1>4. StepsDone'
  <2> SUFFICES ASSUME NEW c \in Calls, phase'[c] # "new", request'[c].uri \in DOMAIN Flow,
                      NEW q \in DOMAIN Flow[request'[c].uri].steps,
                      AnswersFor(request'[c].uri, frame'[c], q)
               PROVE  CalledStep(c, q)'
    BY DEF StepsDone, AnswersFor
  <2>1. CASE c = d
    <3>1. frame'[c].pc = 1 /\ frame'[c].bound = {}
      BY <1>1, <1>3, <2>1 DEF Untouched, StartFrame
    <3>2. q \in Nat /\ q >= 1
      BY FlowType
    <3> QED
      BY <3>1, <3>2 DEF AnswersFor
  <2>2. CASE c # d
    <3>1. AnswersFor(request[c].uri, frame[c], q)
      BY <1>1, <1>3, <2>2 DEF AnswersFor
    <3> QED
      BY <1>1, <1>2, <2>2, <3>1 DEF StepsDone
  <2> QED
    BY <2>1, <2>2
<1>5. Ended'
  <2> SUFFICES ASSUME NEW c \in Calls, RanToTheEnd(c)'
               PROVE  ~HasStep(c)' /\ Flow[request'[c].uri].needs \subseteq frame'[c].bound
    BY DEF Ended
  <2>1. c # d
    BY MadeCall
  <2>2. RanToTheEnd(c)
    BY <1>1, <2>1 DEF RanToTheEnd, Succeeds
  <2> QED
    BY <1>1, <1>3, <2>1, <2>2 DEF Ended, HasStep, Steps
<1> QED
  BY <1>4, <1>5

\* Making a call, answered at once or awaited, keeps the invariant.
LEMMA MakesRunsInv ==
  ASSUME RunsInv, NEW d \in Calls, NEW r, NEW p, NEW s, Makes(d, r, p, s)
  PROVE  RunsInv'
<1> USE DEF RunsInv
<1>1. [Next]_vars
  <2>1. LoopFree
    BY LoopIsFree DEF Makes
  <2> QED
    BY <2>1 DEF Makes, Next
<1>2. CacheInv'
  BY <1>1, NextCacheInv
<1>3. RunsTypeOK'
  <2>1. p \in Calls \cup {NoCall} /\ s \in Nat
    <3>1. CASE p = NoCall
      BY <3>1, MadeFrame
    <3>2. CASE p # NoCall
      <4>1. p \in Calls /\ s = frame[p].pc
        BY <3>2, MadeFrame
      <4> QED
        BY <4>1 DEF RunsTypeOK, Frames
    <3> QED
      BY <3>1, <3>2
  <2>2. frame' \in [Calls -> Frames]
    BY MadeFrame
  <2> QED
    BY <1>2, <2>1, <2>2 DEF RunsTypeOK, Makes, CacheInv
<1>4. MadeInOrder'
  <2> SUFFICES ASSUME NEW a \in Calls, NEW e \in Calls, phase'[a] # "new", phase'[e] = "new"
               PROVE  a < e
    BY DEF MadeInOrder
  <2>1. e # d /\ phase[e] = "new" /\ d <= e
    BY MadeCall
  <2>2. a = d \/ a < e
    BY <2>1, MadeCall DEF MadeInOrder
  <2> QED
    BY <2>1, <2>2, FlowAssumption
<1>5. Untouched'
  <2> SUFFICES ASSUME NEW e \in Calls, phase'[e] = "new" PROVE frame'[e] = StartFrame
    BY DEF Untouched, StartFrame
  <2>1. phase[e] = "new"
    BY MadeCall
  <2>2. e # p
    BY <2>1, MadeFrame, CapabilitiesAssumption DEF IsRun, Running
  <2> QED
    BY <2>1, <2>2, MadeFrame DEF Untouched
<1> QED
  BY <1>2, <1>3, <1>4, <1>5, MakesNested, MakesPlaced, MakesLinked, MakesOrdered,
     MakesFailed, MakesDone

-----------------------------------------------------------------------------
\* The end of a handler ends one call and leaves the frames as they are.
LEMMA SettledCall ==
  ASSUME RunsInv, NEW c \in Calls, NEW res, Settles(c, res)
  PROVE  /\ phase[c] = "running" /\ phase'[c] = "done" /\ result'[c] = res
         /\ \A e \in Calls \ {c} : phase'[e] = phase[e] /\ result'[e] = result[e]
         /\ request' = request /\ parent' = parent /\ step' = step /\ frame' = frame
         /\ given' = given
         /\ IsRun(c) => Holder(c)
BY DEF RunsInv, Settles, Finish, runVars, CacheInv, TypeOK

\* Only the run that awaited the call goes on.
LEMMA SettlesNested ==
  ASSUME RunsInv, NEW c \in Calls, NEW res, Settles(c, res)
  PROVE  Nested'
<1> USE DEF RunsInv
<1>1. /\ phase[c] = "running" /\ phase'[c] = "done"
      /\ \A e \in Calls \ {c} : phase'[e] = phase[e]
      /\ request' = request /\ parent' = parent /\ step' = step /\ frame' = frame
      /\ IsRun(c) => Holder(c)
  BY SettledCall
<1>2. ASSUME NEW e \in Calls, Holder(e)' PROVE e = parent[c]
  <2>1. e # c /\ Running(e) /\ ~Parked(e)
    BY <1>1, <1>2 DEF Holder, Running, Parked, IsRun
  <2>2. ~Holder(e)
    BY <2>1 DEF Settles, Nested, Idle
  <2>3. IsRun(e) /\ frame[e].at = "await" /\ Running(frame[e].inner)
    BY <2>1, <2>2 DEF Holder, Waiting
  <2>4. frame[e].inner \in Calls /\ parent[frame[e].inner] = e
    BY <2>3 DEF FramesLinked
  <2>5. frame[e].inner = c
    BY <1>1, <1>2, <2>3, <2>4 DEF Holder, Waiting, IsRun, Running
  <2> QED
    BY <2>4, <2>5
<1>3. ASSUME NEW d \in Calls, IsStep(d)', Running(d)'
      PROVE  /\ d # c /\ IsStep(d) /\ Running(d) /\ parent[d] \in Calls /\ parent[d] # c
  <2>1. d # c /\ IsStep(d) /\ Running(d)
    BY <1>1, <1>3 DEF IsStep, Running
  <2>2. parent[d] \in Calls
    BY <2>1 DEF StepsPlaced
  <2>3. parent[d] # c
    BY <1>1, <2>1 DEF Nested, Holder, Waiting
  <2> QED
    BY <2>1, <2>2, <2>3
<1>4. \A e, g \in Calls : (Holder(e) /\ Holder(g))' => e = g
  BY <1>2
<1> QED
  BY <1>1, <1>3, <1>4 DEF Nested, IsRun, Running, IsStep

\* A call step that settles as a failure leaves its run waiting at that step.
LEMMA SettlesFailed ==
  ASSUME RunsInv, NEW c \in Calls, NEW res, Settles(c, res)
  PROVE  FailedSteps'
<1> USE DEF RunsInv
<1>1. /\ phase[c] = "running" /\ phase'[c] = "done" /\ result'[c] = res
      /\ \A e \in Calls \ {c} : phase'[e] = phase[e] /\ result'[e] = result[e]
      /\ request' = request /\ parent' = parent /\ step' = step /\ frame' = frame
  BY SettledCall
<1> SUFFICES ASSUME NEW d \in Calls, IsStep(d)', phase'[d] = "done", ~result'[d].ok,
                    StepOf(d)'.kind = "call"
             PROVE  /\ frame[parent[d]].at = "await"
                    /\ frame[parent[d]].inner = d
                    /\ ~Succeeds(parent[d])'
  BY <1>1 DEF FailedSteps
<1>2. IsStep(d) /\ parent[d] \in Calls /\ StepOf(d).kind = "call"
  BY <1>1 DEF IsStep, StepsPlaced, StepOf, Steps
<1>3. CASE d = c
  <2>1. /\ frame[parent[d]].at = "await" /\ frame[parent[d]].inner = d
        /\ Running(parent[d]) /\ parent[d] # d
    BY <1>1, <1>2, <1>3, FlowAssumption DEF Nested, StepsPlaced, Running, IsRun
  <2> QED
    BY <1>1, <1>2, <1>3, <2>1 DEF Succeeds, Running
<1>4. CASE d # c
  <2>1. /\ frame[parent[d]].at = "await" /\ frame[parent[d]].inner = d
        /\ ~Succeeds(parent[d])
    BY <1>1, <1>2, <1>4 DEF FailedSteps
  <2>2. CASE parent[d] = c
    <3>1. HasStep(c) /\ request[c].uri \in DOMAIN Flow
      BY <2>1, <2>2, InsideHasStep
    <3>2. res \in Failures
      BY <1>1, <3>1 DEF Settles, IsRun, Running
    <3> QED
      BY <1>1, <2>1, <2>2, <3>2, FailType DEF Succeeds
  <2>3. CASE parent[d] # c
    BY <1>1, <1>2, <2>1, <2>3 DEF Succeeds
  <2> QED
    BY <2>2, <2>3
<1> QED
  BY <1>3, <1>4

\* A run that settles with success has come to its end.
LEMMA SettlesDone ==
  ASSUME RunsInv, NEW c \in Calls, NEW res, Settles(c, res)
  PROVE  StepsDone' /\ Ended'
<1> USE DEF RunsInv
<1>1. /\ phase[c] = "running" /\ phase'[c] = "done" /\ result'[c] = res
      /\ \A e \in Calls \ {c} : phase'[e] = phase[e] /\ result'[e] = result[e]
      /\ request' = request /\ parent' = parent /\ step' = step /\ frame' = frame
  BY SettledCall
<1>2. \A e \in Calls : \A q : CalledStep(e, q) => CalledStep(e, q)'
  BY <1>1, CalledStays
<1>3. StepsDone'
  BY <1>1, <1>2 DEF StepsDone, AnswersFor
<1>4. Ended'
  <2> SUFFICES ASSUME NEW e \in Calls, RanToTheEnd(e)'
               PROVE  ~HasStep(e) /\ Flow[request[e].uri].needs \subseteq frame[e].bound
    BY <1>1 DEF Ended, HasStep, Steps
  <2>1. CASE e = c
    <3>1. IsRun(c) /\ res.ok
      BY <1>1, <2>1 DEF RanToTheEnd, Succeeds, IsRun, Running
    <3> QED
      BY <2>1, <3>1, FailType DEF Settles
  <2>2. CASE e # c
    BY <1>1, <2>2 DEF Ended, RanToTheEnd, Succeeds
  <2> QED
    BY <2>1, <2>2
<1> QED
  BY <1>3, <1>4

\* A call that settles keeps the invariant.
LEMMA SettlesRunsInv ==
  ASSUME RunsInv, NEW c \in Calls, NEW res, Settles(c, res), CacheInv'
  PROVE  RunsInv'
<1> USE DEF RunsInv
<1>1. /\ phase[c] = "running" /\ phase'[c] = "done" /\ result'[c] = res
      /\ \A e \in Calls \ {c} : phase'[e] = phase[e] /\ result'[e] = result[e]
      /\ request' = request /\ parent' = parent /\ step' = step /\ frame' = frame
      /\ given' = given
  BY SettledCall
<1>2. RunsTypeOK'
  BY <1>1 DEF RunsTypeOK, CacheInv
<1>3. MadeInOrder' /\ Untouched'
  BY <1>1 DEF MadeInOrder, Untouched
<1>4. \A d \in Calls : IsStep(d)' <=> IsStep(d)
  BY <1>1 DEF IsStep
<1>5. StepsPlaced'
  BY <1>1, <1>4 DEF StepsPlaced
<1>6. FramesLinked'
  BY <1>1, <1>4 DEF FramesLinked, Running
<1>7. StepsInOrder'
  BY <1>1, <1>4 DEF StepsInOrder, StepOf, Steps
<1> QED
  BY <1>2, <1>3, <1>5, <1>6, <1>7, SettlesNested, SettlesFailed, SettlesDone

-----------------------------------------------------------------------------
\* A restart ends what was running, a run together with the steps it awaits.
LEMMA RestartRunsInv ==
  ASSUME RunsInv, RestartAll, CacheInv'
  PROVE  RunsInv'
<1> USE DEF RunsInv
<1>1. /\ \A c \in Calls : phase'[c] = IF phase[c] = "running" THEN "lost" ELSE phase[c]
      /\ request' = request /\ result' = result /\ parent' = parent /\ step' = step
      /\ frame' = frame /\ given' = given
  BY DEF RestartAll, Restart, runVars
<1>2. \A c \in Calls : /\ ~Running(c)' /\ ~IsRun(c)' /\ ~Holder(c)'
                       /\ IsStep(c)' <=> IsStep(c)
                       /\ phase'[c] = "new" <=> phase[c] = "new"
                       /\ Succeeds(c)' <=> Succeeds(c)
  BY <1>1 DEF Running, IsRun, Holder, IsStep, Succeeds
<1>3. RunsTypeOK'
  BY <1>1 DEF RunsTypeOK, CacheInv
<1>4. MadeInOrder' /\ Untouched'
  BY <1>1, <1>2 DEF MadeInOrder, Untouched
<1>5. StepsPlaced'
  BY <1>1, <1>2 DEF StepsPlaced
<1>6. FramesLinked'
  BY <1>1, <1>2 DEF FramesLinked
<1>7. Nested'
  BY <1>2 DEF Nested
<1>8. StepsInOrder'
  BY <1>1, <1>2 DEF StepsInOrder, StepOf, Steps
<1>9. FailedSteps'
  BY <1>1, <1>2 DEF FailedSteps, StepOf, Steps, StepsPlaced
<1>10. \A e \in Calls : \A q : CalledStep(e, q) => CalledStep(e, q)'
  BY <1>1, CalledStays
<1>11. StepsDone'
  BY <1>1, <1>2, <1>10 DEF StepsDone, AnswersFor
<1>12. Ended'
  BY <1>1, <1>2 DEF Ended, RanToTheEnd, HasStep, Steps
<1> QED
  BY <1>3, <1>4, <1>5, <1>6, <1>7, <1>8, <1>9, <1>11, <1>12

\* A step that changes no run keeps the invariant.
LEMMA StutterRunsInv ==
  ASSUME RunsInv, UNCHANGED allVars, CacheInv'
  PROVE  RunsInv'
<1> USE DEF RunsInv
<1>1. /\ phase' = phase /\ request' = request /\ result' = result /\ parent' = parent
      /\ step' = step /\ frame' = frame /\ given' = given
  BY DEF allVars, vars, runVars
<1>2. RunsTypeOK' /\ MadeInOrder' /\ Untouched'
  BY <1>1 DEF RunsTypeOK, CacheInv, MadeInOrder, Untouched
<1>3. StepsPlaced' /\ FramesLinked'
  BY <1>1 DEF StepsPlaced, FramesLinked, IsStep, Running
<1>4. Nested'
  BY <1>1 DEF Nested, Holder, Waiting, Parked, IsRun, Running, IsStep
<1>5. StepsInOrder' /\ FailedSteps'
  BY <1>1 DEF StepsInOrder, FailedSteps, IsStep, StepOf, Steps, Succeeds
<1>6. StepsDone' /\ Ended'
  BY <1>1 DEF StepsDone, AnswersFor, CalledStep, Ended, RanToTheEnd, HasStep, Steps, IsStep,
              Succeeds
<1> QED
  BY <1>2, <1>3, <1>4, <1>5, <1>6

\* Before any call is made the invariant holds.
LEMMA InitRunsInv == RunsInit => RunsInv
<1> SUFFICES ASSUME RunsInit PROVE RunsInv
  OBVIOUS
<1>1. CacheInv
  BY InitCacheInv DEF RunsInit
<1>2. StartFrame \in Frames
  BY FlowAssumption DEF StartFrame, Frames, Ats
<1>3. RunsTypeOK
  BY <1>1, <1>2 DEF RunsInit, RunsTypeOK, CacheInv
<1>4. \A c \in Calls : phase[c] = "new" /\ frame[c] = StartFrame
  BY DEF RunsInit, Init
<1>5. MadeInOrder /\ Untouched /\ StepsPlaced /\ StepsInOrder /\ FailedSteps /\ StepsDone
  BY <1>4 DEF MadeInOrder, Untouched, StepsPlaced, StepsInOrder, FailedSteps, StepsDone, IsStep
<1>6. FramesLinked
  BY <1>4 DEF FramesLinked, StartFrame
<1>7. Nested /\ Ended
  BY <1>4 DEF Nested, Holder, Running, IsStep, Ended, RanToTheEnd, Succeeds
<1> QED
  BY <1>1, <1>3, <1>5, <1>6, <1>7 DEF RunsInv

\* The invariant is inductive: every step of the runs, and a restart, keeps it.
LEMMA NextRunsInv == RunsInv /\ [RunsNext]_allVars => RunsInv'
<1> SUFFICES ASSUME RunsInv, [RunsNext]_allVars PROVE RunsInv'
  OBVIOUS
<1>1. CacheInv'
  BY RegistrySteps, NextCacheInv DEF RunsInv
<1>2. ASSUME NEW c \in Calls, NEW f, Moves(c, f) PROVE RunsInv'
  BY <1>2, MovesRunsInv
<1>3. ASSUME NEW d \in Calls, NEW r, NEW p, NEW s, Makes(d, r, p, s) PROVE RunsInv'
  BY <1>3, MakesRunsInv
<1>4. ASSUME NEW c \in Calls, NEW res, Settles(c, res) PROVE RunsInv'
  BY <1>1, <1>4, SettlesRunsInv
<1> QED
  BY <1>1, <1>2, <1>3, <1>4, RunsForms, RestartRunsInv, StutterRunsInv

-----------------------------------------------------------------------------
\* The inductive invariant holds in every reachable state.
THEOREM RunsInvariant == RunsSpec => []RunsInv
BY InitRunsInv, NextRunsInv, PTL DEF RunsSpec

\* Every variable of the runs and of the registry has its type.
THEOREM RunsType == RunsSpec => []RunsTypeOK
<1>1. RunsInv => RunsTypeOK
  BY DEF RunsInv
<1> QED
  BY <1>1, RunsInvariant, PTL

\* However deep runs nest and requests interleave, one call has the event loop
\* at a time, and a running step is what its run is suspended at.
THEOREM RunsNest == RunsSpec => []Nested
<1>1. RunsInv => Nested
  BY DEF RunsInv
<1> QED
  BY <1>1, RunsInvariant, PTL

\* A run calls its steps in their order and none of them twice, items aside.
THEOREM RunsInOrder == RunsSpec => []StepsInOrder
<1>1. RunsInv => StepsInOrder
  BY DEF RunsInv
<1> QED
  BY <1>1, RunsInvariant, PTL

\* A run whose call step failed makes no further call and does not succeed.
THEOREM RunsFailStop == RunsSpec => []FailStop
<1>1. ASSUME RunsInv PROVE FailStop
  <2> SUFFICES ASSUME NEW d \in Calls, IsStep(d), phase[d] = "done", ~result[d].ok,
                      StepOf(d).kind = "call"
               PROVE  /\ \A e \in Calls : (IsStep(e) /\ parent[e] = parent[d]) => e <= d
                      /\ ~Succeeds(parent[d])
    BY DEF FailStop
  <2>1. /\ frame[parent[d]].at = "await" /\ frame[parent[d]].inner = d
        /\ ~Succeeds(parent[d])
    BY <1>1 DEF RunsInv, FailedSteps
  <2>2. ASSUME NEW e \in Calls, IsStep(e), parent[e] = parent[d] PROVE e <= d
    BY <1>1, <2>1, <2>2 DEF RunsInv, StepsPlaced, PlacedAt
  <2> QED
    BY <2>1, <2>2
<1> QED
  BY <1>1, RunsInvariant, PTL

\* A run that succeeded has called, with success, every call step it had no
\* choice about or whose result its output refers to.
THEOREM RunsComplete == RunsSpec => []SuccessIsComplete
<1>1. ASSUME RunsInv PROVE SuccessIsComplete
  <2> SUFFICES ASSUME NEW c \in Calls, RanToTheEnd(c), NEW s \in DOMAIN Steps(c),
                      Steps(c)[s].kind = "call",
                      ~Steps(c)[s].when \/ s \in Flow[request[c].uri].needs
               PROVE  CalledStep(c, s)
    BY DEF SuccessIsComplete, CalledStep
  <2>1. /\ phase[c] # "new" /\ request[c].uri \in DOMAIN Flow
        /\ ~HasStep(c) /\ Flow[request[c].uri].needs \subseteq frame[c].bound
    BY <1>1 DEF RunsInv, Ended, RanToTheEnd, Succeeds
  <2>2. frame[c].pc \in Nat
    BY <1>1 DEF RunsInv, RunsTypeOK, Frames
  <2>3. s \in DOMAIN Flow[request[c].uri].steps /\ s \in Nat /\ s < frame[c].pc
    BY <2>1, <2>2, FlowType DEF Steps, HasStep
  <2>4. AnswersFor(request[c].uri, frame[c], s)
    BY <2>1, <2>3 DEF AnswersFor, Steps
  <2> QED
    BY <1>1, <2>1, <2>3, <2>4 DEF RunsInv, StepsDone
<1> QED
  BY <1>1, RunsInvariant, PTL

\* Every behaviour of the runs is one of the registry: what is proved of the
\* registry for arbitrary callers holds while workflows call it.
THEOREM RunsImplementRegistry == RunsSpec => ImplementsRegistry
<1>1. RunsInit => Init
  BY DEF RunsInit
<1>2. RunsInv /\ [RunsNext]_allVars => [Next]_vars
  BY RegistrySteps
<1> QED
  BY <1>1, <1>2, RunsInvariant, PTL DEF RunsSpec, ImplementsRegistry, Spec

\* The steps of workflows get what IdempotentService promises: a keyed step is
\* executed again only if no execution of its hashed text succeeded in this
\* process life.
THEOREM RunsImplementService == RunsSpec => ImplementsService
BY RunsImplementRegistry, RegistryImplementsService, PTL DEF ImplementsRegistry

\* In particular a step with a key runs its handler only if no call of its
\* digest has succeeded in this process life, whichever run or request made it.
THEOREM RunsNeverRerun == RunsSpec => NoSequentialRerun
BY RunsImplementRegistry, NoRerunAfterSuccess, PTL DEF ImplementsRegistry
=============================================================================
