--------------------------- MODULE DiscoveryProofs ---------------------------
(***************************************************************************)
(* Proofs about Discovery, for any configurations, any number of requests  *)
(* and any number of faults and changes.                                   *)
(***************************************************************************)
EXTENDS Discovery, SequenceTheorems, TLAPS

\* The configurations that were up while r was under way are recorded: the one
\* that is up now, and the one that what r has found is from.
Recorded ==
  \A r \in Refreshes :
    /\ (at[r] \in {"card", "probe"} /\ up) => version \in served[r]
    /\ at[r] = "probe" => found[r].card \in served[r]

\* The inductive invariant of what a GET answers.
FreshInv == DiscoveryTypeOK /\ Recorded /\ AnswersAreFresh

\* What the assumption says of the cards.
LEMMA CardType ==
  /\ Len(Card) \in Nat \ {0}
  /\ \A v \in 1 .. Len(Card) : Card[v] \in Seq(Agents)
BY DiscoveryAssumption

\* A view has the agents of its card.
LEMMA AgentsOfType ==
  ASSUME NEW view \in Views
  PROVE  AgentsOf(view) \in Seq(Agents)
BY CardType DEF Views, AgentsOf

\* The empty cache is a view with no agents.
LEMMA NoViewType == NoView \in Views /\ AgentsOf(NoView) = <<>> /\ ~AnyUp(NoView)
BY CardType DEF NoView, Views, AgentsOf, AnyUp

\* Marking a view down keeps its entries and leaves none of them up.
LEMMA MarkDownType ==
  ASSUME NEW view \in Views
  PROVE  /\ MarkDown(view) \in Views
         /\ MarkDown(view).card = view.card
         /\ Len(MarkDown(view).status) = Len(view.status)
         /\ ~AnyUp(MarkDown(view))
<1> DEFINE n == Len(view.status)
           s == [i \in 1 .. n |-> "down"]
<1>1. view.status \in Seq({"up", "down"}) /\ n \in Nat /\ DOMAIN view.status = 1 .. n
  BY DEF Views
<1>2. s \in Seq({"up", "down"}) /\ Len(s) = n /\ DOMAIN s = 1 .. n
  BY <1>1
<1>3. MarkDown(view) = [view EXCEPT !.status = s]
  BY <1>1 DEF MarkDown
<1> QED
  BY <1>1, <1>2, <1>3 DEF Views, AnyUp

\* The end of a refresh with a view of the right type keeps the type.
LEMMA EndType ==
  ASSUME DiscoveryTypeOK, NEW r \in Refreshes, NEW view \in Views,
         Len(view.status) = Len(AgentsOf(view)), End(r, view)
  PROVE  /\ cache' \in Views /\ Len(cache'.status) = Len(AgentsOf(cache'))
         /\ at' \in [Refreshes -> {"idle", "card", "probe", "ended"}]
         /\ found' \in [Refreshes -> Views]
         /\ answer' \in [Gets -> Views]
BY NoViewType DEF DiscoveryTypeOK, End

\* So does going on with one.
LEMMA ContinueType ==
  ASSUME DiscoveryTypeOK, NEW r \in Refreshes, NEW view \in Views, Continue(r, view)
  PROVE  /\ cache' \in Views /\ Len(cache'.status) = Len(AgentsOf(cache'))
         /\ at' \in [Refreshes -> {"idle", "card", "probe", "ended"}]
         /\ found' \in [Refreshes -> Views]
         /\ answer' \in [Gets -> Views]
<1>1. CASE Len(view.status) = Len(AgentsOf(view))
  BY <1>1, EndType DEF Continue
<1>2. CASE Len(view.status) # Len(AgentsOf(view))
  BY <1>2 DEF Continue, DiscoveryTypeOK, AgentsOf
<1> QED
  BY <1>1, <1>2

\* The end of a refresh keeps what is recorded, and a GET that it ends has a
\* fresh answer, if what it ends with is fresh.
LEMMA EndFresh ==
  ASSUME FreshInv, NEW r \in Refreshes, NEW view \in Views, at[r] \in {"card", "probe"},
         AnyUp(view) => view.card \in served[r], End(r, view),
         UNCHANGED <<version, up, served>>
  PROVE  Recorded' /\ AnswersAreFresh'
<1> USE DEF FreshInv, DiscoveryTypeOK
<1>1. \A q \in Refreshes : q # r => at'[q] = at[q] /\ found'[q] = found[q]
  BY DEF End
<1>2. at'[r] \in {"idle", "ended"} /\ at \in [Refreshes -> {"idle", "card", "probe", "ended"}]
  BY DEF End
<1>3. Recorded'
  BY <1>1, <1>2 DEF Recorded
<1>4. \A g \in Gets : answer'[g] = IF g = r THEN view ELSE answer[g]
  BY DEF End
<1>5. AnswersAreFresh'
  <2> SUFFICES ASSUME NEW g \in Gets, at'[g] = "ended", AnyUp(answer'[g])
               PROVE  answer'[g].card \in served'[g]
    BY DEF AnswersAreFresh, AnyUp
  <2> QED
    BY <1>1, <1>4 DEF AnswersAreFresh, Refreshes
<1> QED
  BY <1>3, <1>5

\* A refresh that goes on has what it found from a configuration that was up.
LEMMA ContinueFresh ==
  ASSUME FreshInv, NEW r \in Refreshes, NEW view \in Views, at[r] \in {"card", "probe"},
         view.card \in served[r], Continue(r, view),
         UNCHANGED <<version, up, served>>
  PROVE  Recorded' /\ AnswersAreFresh'
<1>1. CASE Len(view.status) = Len(AgentsOf(view))
  BY <1>1, EndFresh DEF Continue
<1>2. CASE Len(view.status) # Len(AgentsOf(view))
  <2>1. /\ at' = [at EXCEPT ![r] = "probe"]
        /\ found' = [found EXCEPT ![r] = view]
        /\ UNCHANGED answer
    BY <1>2 DEF Continue
  <2>2. Recorded'
    BY <2>1 DEF FreshInv, DiscoveryTypeOK, Recorded
  <2>3. AnswersAreFresh'
    BY <2>1 DEF FreshInv, DiscoveryTypeOK, AnswersAreFresh, Refreshes, AnyUp
  <2> QED
    BY <2>2, <2>3
<1> QED
  BY <1>1, <1>2

-----------------------------------------------------------------------------
(* The steps of a refresh, and of the runtime: the type first, which the    *)
(* proofs about RootAgent need without the rest.                            *)

\* What has been probed is of the type of what there was.
LEMMA ProbedType ==
  ASSUME NEW view \in Views, NEW status \in {"up", "down"}
  PROVE  /\ [view EXCEPT !.status = Append(@, status)] \in Views
         /\ [view EXCEPT !.status = Append(@, status)].card = view.card
BY DEF Views

\* The counter of faults and changes stays within its bound.
LEMMA ChangeType ==
  ASSUME DiscoveryTypeOK, Fault \/ Change \/ UNCHANGED changes
  PROVE  changes' \in 0 .. MaxChanges
BY DiscoveryAssumption DEF DiscoveryTypeOK, Fault, Change

\* Any step of discovery keeps the type.
LEMMA DiscoveryStepType ==
  ASSUME DiscoveryTypeOK, [DiscoveryNext]_discoveryVars
  PROVE  DiscoveryTypeOK'
<1>1. ASSUME NEW r \in Refreshes, Begin(r)
      PROVE  DiscoveryTypeOK'
  BY <1>1 DEF Begin, DiscoveryTypeOK, world, AgentsOf
<1>2. ASSUME NEW r \in Refreshes, CardArrives(r)
      PROVE  DiscoveryTypeOK'
  <2>1. [card |-> version, status |-> <<>>] \in Views
    BY DEF DiscoveryTypeOK, Views
  <2> QED
    BY <1>2, <2>1, ContinueType DEF CardArrives, DiscoveryTypeOK, world
<1>3. ASSUME NEW r \in Refreshes, CardFails(r)
      PROVE  DiscoveryTypeOK'
  <2>1. /\ MarkDown(cache) \in Views
        /\ Len(MarkDown(cache).status) = Len(AgentsOf(MarkDown(cache)))
    BY MarkDownType DEF DiscoveryTypeOK, AgentsOf
  <2> QED
    BY <1>3, <2>1, EndType, ChangeType DEF CardFails, DiscoveryTypeOK
<1>4. ASSUME NEW r \in Refreshes, NEW status \in {"up", "down"}, Probe(r, status)
      PROVE  DiscoveryTypeOK'
  <2>1. [found[r] EXCEPT !.status = Append(@, status)] \in Views
    BY ProbedType DEF DiscoveryTypeOK
  <2>2. changes' \in 0 .. MaxChanges
    BY <1>4, ChangeType DEF Probe
  <2> QED
    BY <1>4, <2>1, <2>2, ContinueType DEF Probe, DiscoveryTypeOK
<1>5. CASE RuntimeChanges
  <2>1. changes' \in 0 .. MaxChanges
    BY <1>5, ChangeType DEF RuntimeChanges
  <2>2. version' \in 1 .. Len(Card) /\ up' \in BOOLEAN
    BY <1>5 DEF RuntimeChanges, DiscoveryTypeOK
  <2>3. served' \in [Refreshes -> SUBSET (1 .. Len(Card))]
    BY <1>5, <2>2 DEF RuntimeChanges, DiscoveryTypeOK
  <2> QED
    BY <1>5, <2>1, <2>2, <2>3 DEF RuntimeChanges, DiscoveryTypeOK, AgentsOf
<1>6. CASE UNCHANGED discoveryVars
  BY <1>6 DEF discoveryVars, world, DiscoveryTypeOK, AgentsOf
<1> QED
  BY <1>1, <1>2, <1>3, <1>4, <1>5, <1>6 DEF DiscoveryNext, Step

\* The initial states are of the type.
LEMMA DiscoveryInitType == DiscoveryInit => DiscoveryTypeOK
BY CardType, NoViewType, DiscoveryAssumption DEF DiscoveryInit, DiscoveryTypeOK, NoView

\* The variables of discovery keep their types.
THEOREM DiscoveryType == DiscoverySpec => []DiscoveryTypeOK
BY DiscoveryInitType, DiscoveryStepType, PTL DEF DiscoverySpec

-----------------------------------------------------------------------------
\* Nothing has been answered at first.
LEMMA InitFresh == DiscoveryInit => FreshInv
BY DiscoveryInitType DEF DiscoveryInit, FreshInv, Recorded, AnswersAreFresh, Refreshes

\* Any step of discovery keeps the invariant.
LEMMA StepFresh ==
  ASSUME FreshInv, [DiscoveryNext]_discoveryVars
  PROVE  FreshInv'
<1> SUFFICES Recorded' /\ AnswersAreFresh'
  BY DiscoveryStepType DEF FreshInv
<1>1. ASSUME NEW r \in Refreshes, Begin(r)
      PROVE  Recorded' /\ AnswersAreFresh'
  <2>1. Recorded'
    BY <1>1 DEF Begin, world, FreshInv, DiscoveryTypeOK, Recorded
  <2>2. AnswersAreFresh'
    BY <1>1 DEF Begin, world, FreshInv, DiscoveryTypeOK, AnswersAreFresh, Refreshes, AnyUp
  <2> QED
    BY <2>1, <2>2
<1>2. ASSUME NEW r \in Refreshes, CardArrives(r)
      PROVE  Recorded' /\ AnswersAreFresh'
  <2>1. [card |-> version, status |-> <<>>] \in Views
    BY DEF FreshInv, DiscoveryTypeOK, Views
  <2>2. version \in served[r]
    BY <1>2 DEF CardArrives, FreshInv, Recorded
  <2> QED
    BY <1>2, <2>1, <2>2, ContinueFresh DEF CardArrives, world
<1>3. ASSUME NEW r \in Refreshes, CardFails(r)
      PROVE  Recorded' /\ AnswersAreFresh'
  <2>1. MarkDown(cache) \in Views /\ ~AnyUp(MarkDown(cache))
    BY MarkDownType DEF FreshInv, DiscoveryTypeOK
  <2> QED
    BY <1>3, <2>1, EndFresh DEF CardFails
<1>4. ASSUME NEW r \in Refreshes, NEW status \in {"up", "down"}, Probe(r, status)
      PROVE  Recorded' /\ AnswersAreFresh'
  <2> DEFINE view == [found[r] EXCEPT !.status = Append(@, status)]
  <2>1. view \in Views /\ view.card \in served[r]
    BY <1>4, ProbedType DEF Probe, FreshInv, DiscoveryTypeOK, Recorded
  <2> QED
    BY <1>4, <2>1, ContinueFresh DEF Probe
<1>5. CASE RuntimeChanges
  <2>1. Recorded'
    BY <1>5 DEF RuntimeChanges, FreshInv, DiscoveryTypeOK, Recorded
  <2>2. AnswersAreFresh'
    BY <1>5 DEF RuntimeChanges, FreshInv, DiscoveryTypeOK, AnswersAreFresh, Refreshes, AnyUp
  <2> QED
    BY <2>1, <2>2
<1>6. CASE UNCHANGED discoveryVars
  BY <1>6 DEF discoveryVars, world, FreshInv, Recorded, AnswersAreFresh, AnyUp
<1> QED
  BY <1>1, <1>2, <1>3, <1>4, <1>5, <1>6 DEF DiscoveryNext, Step

\* A GET /agents that shows an agent as up shows the agents of a configuration
\* the runtime has had since the request was made, whatever older refreshes end
\* meanwhile.
THEOREM FreshAnswers == DiscoverySpec => []AnswersAreFresh
<1>1. FreshInv => AnswersAreFresh
  BY DEF FreshInv
<1> QED
  BY <1>1, InitFresh, StepFresh, PTL DEF DiscoverySpec
=============================================================================
