------------------------------ MODULE Discovery ------------------------------
(***************************************************************************)
(* The root agent's view of the agents downstream: DiscoveryRegistry       *)
(* (root_agent/discovery.py), refreshed at startup, by the background loop *)
(* (root_agent/main.py) and by every GET /agents (root_agent/routes.py).   *)
(*                                                                         *)
(* A refresh awaits the aggregate card, then a probe of each of its agents *)
(* in turn, and only then replaces the cache; refreshes overlap.  All      *)
(* requests go to one runtime, which may be down, come back with another   *)
(* configuration, or leave a request unanswered until it times out.        *)
(*                                                                         *)
(* Left out: names, skills and times of the entries, a card that is no     *)
(* agent card, and the restart of the root agent, which empties the cache. *)
(***************************************************************************)
EXTENDS Naturals, Sequences

CONSTANTS
  Agents,      \* the ids discovery gives to agents
  Card,        \* Card[v]: the agents of the aggregate card of configuration v
  Gets,        \* the GET /agents requests
  Startup,     \* the refresh of service.startup
  Loop,        \* the refreshes of _discovery_loop
  MaxChanges   \* bound: faults of the network and changes of the runtime

ASSUME DiscoveryAssumption ==
  /\ Card \in Seq(Seq(Agents)) /\ Len(Card) > 0
  /\ Startup \notin Gets /\ Loop \notin Gets /\ Startup # Loop
  /\ MaxChanges \in Nat

Refreshes == Gets \cup {Startup, Loop}

VARIABLES
  version,   \* the configuration the runtime runs with
  up,        \* the runtime answers
  changes,   \* how many faults and changes there have been
  cache,     \* _agents: the configuration its agents are from, their statuses
  at,        \* at[r]: what refresh r awaits
  found,     \* found[r]: discovered, as far as it is probed
  served,    \* served[r]: the configurations that were up since r began
  answer     \* answer[g]: what GET /agents returned

world == <<version, up, changes>>
discoveryVars == <<world, cache, at, found, served, answer>>

\* Entries come to the cache in the order of the card, with a status each.
Views == [card : 0 .. Len(Card), status : Seq({"up", "down"})]

NoView == [card |-> 0, status |-> <<>>]

AgentsOf(view) == IF view.card = 0 THEN <<>> ELSE Card[view.card]

DiscoveryTypeOK ==
  /\ version \in 1 .. Len(Card)
  /\ up \in BOOLEAN
  /\ changes \in 0 .. MaxChanges
  /\ cache \in Views /\ Len(cache.status) = Len(AgentsOf(cache))
  /\ at \in [Refreshes -> {"idle", "card", "probe", "ended"}]
  /\ found \in [Refreshes -> Views]
  /\ served \in [Refreshes -> SUBSET (1 .. Len(Card))]
  /\ answer \in [Gets -> Views]

DiscoveryInit ==
  /\ version = 1 /\ up \in BOOLEAN /\ changes = 0
  /\ cache = NoView
  /\ at = [r \in Refreshes |-> "idle"]
  /\ found = [r \in Refreshes |-> NoView]
  /\ served = [r \in Refreshes |-> {}]
  /\ answer = [g \in Gets |-> NoView]

-----------------------------------------------------------------------------
Change == changes < MaxChanges /\ changes' = changes + 1

\* A request of the root agent fails: the runtime is down, or a fault.
Fault == IF up THEN Change ELSE UNCHANGED changes

\* Another refresh is made only when the application has started.
Begin(r) ==
  /\ at[r] = "idle"
  /\ r = Startup \/ at[Startup] = "ended"
  /\ at' = [at EXCEPT ![r] = "card"]
  /\ served' = [served EXCEPT ![r] = IF up THEN {version} ELSE {}]
  /\ UNCHANGED <<world, cache, found, answer>>

\* Faulty variant: a GET returns the view it found.
EndWithOldView(r, view) ==
  /\ cache' = view
  /\ at' = [at EXCEPT ![r] = IF r = Loop THEN "idle" ELSE "ended"]
  /\ found' = [found EXCEPT ![r] = NoView]
  /\ answer' = [g \in Gets |-> IF g = r THEN cache ELSE answer[g]]

\* r is over with the cache as it then is, which a GET returns: there is no
\* await between the end of its refresh and agents().
End(r, view) ==
  /\ cache' = view
  /\ at' = [at EXCEPT ![r] = IF r = Loop THEN "idle" ELSE "ended"]
  /\ found' = [found EXCEPT ![r] = NoView]
  /\ answer' = [g \in Gets |-> IF g = r THEN view ELSE answer[g]]

\* Faulty variant: agents are added to the cache as they are probed.
ContinueInPlace(r, view) ==
  IF Len(view.status) = Len(AgentsOf(view)) THEN End(r, view)
  ELSE /\ at' = [at EXCEPT ![r] = "probe"]
       /\ found' = [found EXCEPT ![r] = view]
       /\ cache' = view
       /\ UNCHANGED answer

\* r has the statuses of the first agents of the card; after the last one the
\* cache is replaced in the same step.
Continue(r, view) ==
  IF Len(view.status) = Len(AgentsOf(view)) THEN End(r, view)
  ELSE /\ at' = [at EXCEPT ![r] = "probe"]
       /\ found' = [found EXCEPT ![r] = view]
       /\ UNCHANGED <<cache, answer>>

CardArrives(r) ==
  /\ at[r] = "card" /\ up
  /\ Continue(r, [card |-> version, status |-> <<>>])
  /\ UNCHANGED <<world, served>>

\* Faulty variant: when the card cannot be read the cache stays as it is.
KeepCache(view) == view

\* get_card raises: what is cached is marked down where it is.
MarkDown(view) == [view EXCEPT !.status = [i \in DOMAIN @ |-> "down"]]

CardFails(r) ==
  /\ at[r] = "card"
  /\ Fault
  /\ End(r, MarkDown(cache))
  /\ UNCHANGED <<version, up, served>>

\* The server answers agent/card for any agent id (a2a_server.py 88-95).
Probe(r, status) ==
  /\ at[r] = "probe"
  /\ IF status = "up" THEN up /\ UNCHANGED changes ELSE Fault
  /\ Continue(r, [found[r] EXCEPT !.status = Append(@, status)])
  /\ UNCHANGED <<version, up, served>>

\* The runtime stops, or starts with a configuration of its own.
RuntimeChanges ==
  /\ Change
  /\ up' = ~up
  /\ IF up THEN UNCHANGED version ELSE version' \in 1 .. Len(Card)
  /\ served' = [r \in Refreshes |->
       IF up' /\ at[r] \in {"card", "probe"} THEN served[r] \cup {version'} ELSE served[r]]
  /\ UNCHANGED <<cache, at, found, answer>>

Step(r) ==
  \/ CardArrives(r)
  \/ CardFails(r)
  \/ \E status \in {"up", "down"} : Probe(r, status)

DiscoveryNext ==
  \/ \E r \in Refreshes : Begin(r) \/ Step(r)
  \/ RuntimeChanges

DiscoverySpec == DiscoveryInit /\ [][DiscoveryNext]_discoveryVars

\* A request ends with its answer or its timeout, the application starts, and
\* the loop sleeps for an interval and goes on whatever a refresh did.
FairDiscoverySpec ==
  /\ DiscoverySpec
  /\ \A r \in Refreshes : WF_discoveryVars(Step(r))
  /\ WF_discoveryVars(Begin(Startup)) /\ WF_discoveryVars(Begin(Loop))

-----------------------------------------------------------------------------
AnyUp(view) == \E i \in DOMAIN view.status : view.status[i] = "up"

\* GET /agents tells of the runtime as it was after the request was made, even
\* if an older refresh ends in between: if it shows an agent as up, its agents
\* are those of a configuration the runtime has had since (routes.py 39-43).
AnswersAreFresh ==
  \A g \in Gets : (at[g] = "ended" /\ AnyUp(answer[g])) => answer[g].card \in served[g]

\* The view is that of the runtime as it is.
Accurate ==
  IF up THEN cache = [card |-> version, status |-> [i \in DOMAIN Card[version] |-> "up"]]
  ELSE ~AnyUp(cache)

\* Refreshes that overlap may put back an older view, and a failed one marks
\* down what another has just found; but once the runtime and the network
\* change no more, the view becomes accurate and stays so.
Converges == <>[]Accurate
=============================================================================
