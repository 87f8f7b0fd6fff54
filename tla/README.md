# agents101 in TLA+

This directory models the parts of agents101 in which several callers, steps or
processes meet, checks the models with TLC on small instances, and proves the
properties that matter most with TLAPS for every value of the constants.
Paths below are relative to the repository; `runtime/` is
`src/agent_stack/runtime/`, `registry/` is `src/agent_stack/registry/`.

## 1. The system and its parts

Two programs. **agent_stack** is a FastAPI process on one asyncio event loop:
an A2A JSON-RPC server in front of a registry through which every tool, skill
and workflow is called. **root-agent** is a second process, also on one event
loop, that plans a request with an LLM and executes the plan over HTTP against
agent_stack and with local commands.

| Part | State | Operations | Interacts with | What is hard | What makes it correct |
|---|---|---|---|---|---|
| Capability registry, `runtime/capabilities.py` | `_idempotency`, a dict from digest to result | `invoke` | called by runner and workflows; awaits the handler it is given | lookup before the await, store after it; failures, cancellation, restart | a keyed call that succeeded is not run again in the process life; nobody gets another call's answer |
| Workflow executor, `runtime/workflows/executor.py` | local variables of `run`: position, outputs | `run` | calls `invoke` for its steps, is itself a handler of `invoke` | nesting, interleaving of requests, failures of one step of several | steps in order, stop at a failure, success only when complete |
| Graph runner, `runtime/graph_runner.py` | memo of agent factories | `run_agent_task`, the three handlers | A2A server, registry, executor, client | recursion of handlers through the registry | every request is answered |
| Expressions, `runtime/workflows/expressions.py` | none | `render_value` | executor | a reference to a step that bound nothing | fails rather than yields a wrong value |
| A2A server, `runtime/a2a_server.py`, `storage.py`, `audit.py` | rows of conversations, messages, audit_events | `message/send` and read-only methods | runner, SQLite | four to five separate commits around an await, crashes between them | every answered request has its rows, in order |
| A2A clients, `runtime/a2a_client.py` and `root_agent/a2a_client.py` | the runtime's: failure count and circuit per remote | `send_message`, `message_send` | a server over HTTP | lost and late replies, errors inside HTTP 200, timeouts | a success that is reported is one; every call ends |
| Loader and schemas, `registry/config.py`, `schemas.py`; agent card | none after startup | `load_all`, `build_agent_card` | all; discovery reads the card | files edited while they are read; ids, endpoints and calls that refer to each other | what is served refers only to what is there |
| Discovery, `root_agent/discovery.py` | cache of agents | `refresh` | HTTP, catalog | overlapping refreshes, a runtime that restarts with other agents | an answer is not older than its request; the view becomes accurate |
| Service and plan executor, `root_agent/service.py`, `planner/`, `catalog.py` | none across requests but session memory | `handle_request`, `run_plan` | LLM, discovery, commands, A2A | awaits between reading the catalog and acting on it; steps that fail after others have acted | only what the catalog offered is called, plans stop at a failure, every request ends |
| Commands, `root_agent/commands/` | recipes, subprocesses | `run` | operating system | timeout of a process that goes on | a process that is left behind belongs to a request that failed |
| Memory, `root_agent/memory/` | two files, session notes | `append`, `build_context` | service, routes | a budget at its boundary, shared by three tiers | bounded, the most relevant lines, specific tiers first |
| Security, LLM providers, routes | none | | | | only their effect on the parts above |
| Instructions, tracing, metrics, CLI, scripts, stubs | none that decisions depend on | | | | not modelled |

`PROJECT.json` lists the same parts with their status, and under `hazards` each
place where this code is hard to test.

## 2. Modules

| Module | Models |
|---|---|
| `IdempotentService` | abstract: what a caller who names its calls may rely on |
| `Capabilities` | `CapabilityRegistry.invoke` with its cache and the event loop |
| `CapabilitiesProofs` | theorems about it: types, cache, no rerun, own replays, and that it implements `IdempotentService` |
| `Workflows` (extends `Capabilities`) | `WorkflowExecutor.run`, the workflow handler and `run_agent_task`: runs as calls of the registry |
| `WorkflowsProofs` (extends `CapabilitiesProofs`) | theorems about runs: nesting, order, fail-stop, completeness, and that they use the registry as its `Spec` allows |
| `RequestLog` | abstract: what a `message/send` may rely on about the server's records |
| `A2AServer` | the handler of an inbound request and the rows it commits |
| `A2AServerProofs` | theorems about the rows, and that the server implements `RequestLog` |
| `RemoteCalls` (extends `A2AServer`) | the two A2A clients and any other, and the network between them and the server |
| `RemoteCallsProofs` (extends `A2AServerProofs`) | theorems about clients: what a success means, and that the server's rows are kept beside them |
| `Discovery` | the root agent's view of the agents, and its refreshes |
| `DiscoveryProofs` | theorems: types, and answers that are fresh |
| `RootAgent` (extends `Discovery`) | requests to the root agent: judge, planner, plan executor, commands |
| `RootAgentProofs` | theorems about requests: offers, failures, processes, notes |
| `Memory` | the three memory tiers and what of them a request is shown |
| `MemoryProofs` | theorems: types, and how long, how relevant and how independent of other tiers what is shown is |
| `Registries` | the configuration from its files to the root agent's catalog |
| `RegistriesProofs` | theorems: what a serving process refers to is there |
| `MC*` | instances for TLC |

### Capabilities

A *call* is one use of `invoke`; `request[c]` is what it asked for, `phase[c]`
where it is, `result[c]` the `CapabilityResult`. asyncio runs the code between
two awaits in one piece, so `invoke` has two or three steps: `Answer` (it
returns before any await: a cache hit, an invalid URI, a stream, a builtin, a
missing handler), or `Dispatch` (it reaches `await handler(...)`) and later one
of `HandlerReturns`, `HandlerTimesOut`, `HandlerRaises`, `Cancelled`, which are
the `except` clauses and the code after them (`Finish`). `Immediate` keeps the
order of the checks in the code. `Restart` kills the process: the dict is
empty, the calls under way are lost.

A handler that never really suspends (a local skill without I/O) holds the
loop; `LoopFree` says when other calls may proceed. `Suspending` names the URIs
whose handlers do suspend, and only those can be cancelled.

Texts are sequences of colon-free segments, so that the digest
`f"{tenant}:{uri}:{key}"` is `tenant \o uri \o key` and its ambiguity is that
of the code: `mcp.s.resource:a` with the key `b:c` and `mcp.s.resource:a:b` with the
key `c` are hashed as one text (`config.py:86` admits the colon in a resource), and the
second call is answered with what the first one got. `ReplaysAreTheirOwn` says how far
a caller is safe from that: an answer is always from a keyed call of the same hashed text, and from one of the
same tenant, URI and key if tenants and URIs of the two have as many segments (`SameParts`).
SHA-256 is taken to be injective. An output is abstracted to the
call whose handler produced it. `Parsed` is what `_parse_uri` makes of a URI.

### Workflows

`Workflows` extends `Capabilities` with what a run holds in local variables:
`frame[c]` (position, awaited call, items left, steps that have an output),
`parent[c]` and `step[c]` (who made call `c`, at which step) and `given[c]` (the
inputs). The actions are the branches of the loop of `run`: `Skip`, `Record`
(the kinds that only record something), `StartCall` / `CallSucceeded` /
`CallFailed`, `StartLoop` / `StartItem` / `ItemAnswered` / `EndLoop`,
`RenderFails`, `Complete`. `StartCall` and `StartItem` *are* `Answer` or
`Dispatch` of the callee, so the step and its call are one piece of code, as in
Python. `Holder` is the call whose code the loop is running; the others wait
for a callee or for something outside.

A value is abstracted to whether it is bound: `uses` gives the steps each text
of a step refers to, an expression that refers to an unbound output fails, any
other may fail or not, and the value of a `when` is arbitrary. `retry`,
`on_error`, `branches` and the target of a `branch` have no effect in the
executor and so none here.

### A2AServer

A *post* is one JSON-RPC request; `at[p]` names what its handler does next. The
handler is one piece of code up to `await runner.run_agent_task` and one after
it, but each `insert_*` is a transaction of its own, so the actions are the
commits, and `LoopFree` keeps a second handler from starting or resuming
between two of them. `Raise` is an insert that fails, or an exception of the
code around it: the earlier rows stay and the client gets an HTTP error.
`Restart` may come between any two commits. `rows` holds the rows of `messages`
and `audit_events` in commit order, `opened` those of `conversations`. A request
names no conversation, goes on with one a client was told of (`Returned`), or
brings an id of its own, as root-agent does. The runner is what it is to the
handler: it returns a result of either kind or raises, and other requests may
run meanwhile; that it comes back is `RequestsAnswered` of `Workflows`.
`RequestLog` is the view of one client: its rows grow along one of two paths,
and are complete before it is told the outcome.

### RemoteCalls

The posts of `A2AServer` now come from a `client`: the root agent's
`message_send`, `send_message` of another runtime, or anybody. `link[p]` is
where the request or its reply is. A message that stays under way for ever is a
lost one, and a client may give up at any time (`GiveUp`: a timeout of httpx or
a broken connection), before or after the server has acted. `GetReply` is the
code after the `await` on the post: the root agent's client looks for `error`
in a response, the runtime's does not, so `TakesForSuccess` differs. `Fails` is
the `except` clause; in the runtime's client it counts the failure and then
raises itself, at the comparison with the threshold, and so `circuit.open`
stays false. `Serve` is a step of `A2AServer` and is fair as it is there.
The root agent always sends a conversation id, and neither client repeats a
request.

### Discovery

A refresh `r` is one of startup, of the background loop, or of a
`GET /agents`. It awaits the card (`CardArrives`, `CardFails`), then a probe of each agent
in the order of the card (`Probe`); after the last one the cache is replaced,
and a GET returns it, in the same step (`Continue`, `End`), as there is no await in
between. A card that cannot be read marks the *cached* entries down, whoever
put them there. The runtime (`RuntimeChanges`) stops, and comes back with any
configuration; a request to it fails while it is down, and otherwise at the
price of one of `MaxChanges` faults. `served[r]` remembers which configurations have been up
since `r` began, to say that an answer is not older than its request.

### RootAgent

A request reads the cache of `Discovery` once (`Ask`, `Offers`), and then awaits
the judge, perhaps the planner, and each step. The code between two awaits is
one action, also when it spans the end of a step, its entry in the outputs
and the start of the next one (`StepDone`, `Execute`). `trail[r]` keeps the result of each
step as it was: whether a plan goes on after a failure is what `StepDone` does, and is not put into the trail. The LLM is adversarial: any decision,
any plan of `Plans`, or an exception; `Valid` is the validation of the plan
against the catalog. A command is a process in `alive`, which is still there
when `CommandTimesOut` gives up on it. `StepDone` includes the exception that
`setdefault` raises for a plan with two steps of one id; plans leave ids out,
so that any step but the first may raise it. `notes` are the session notes in the
order they are written. `workflow.*` steps do not occur, as no catalog offers them.

### Memory

A note is one stamped line, kept as its length and its overlap with each
request. Appends and restarts build all memories within the bounds, and the
three properties compare what `_merge` and `_filter_relevant` do with them
with what the comments of the retriever promise. What is shown of a tier is a set of
positions of its lines. `Ranked` is the sorted order (stable, by overlap), `Take`
the body of the loop over it, `Keep` the loop, as a recursive function, and `BudgetFor` what
the tiers before leave of the budget. `FilterRelevant` restores the original order, and
with it all copies of a kept line, as the code compares texts. Lengths count what the code counts and, in
`LengthOf`, what it writes: headings, ends of lines, empty lines between notes of a file.

### Registries

`load_all` takes a step for each file it resolves and each it reads, and others
may edit the files between any two (`Edit`). `Accepted` is the conjunction of
the validators: `AgentsParse`, `FlowsParse` and `ServersParse` for one file each,
`FlowKnown` for the calls across files. `create_app` serves what it has read, or goes
on without configuration (`degraded`). The second half are functions of the
configuration in use: the aggregate `Card`, what discovery makes of it (ids from the
last segment of an endpoint, `workflows` as a part of the URL), the catalog's
offers, and what the runtime finds when one of them is called. An entry of `Card`
stands at the position its agent has in the file, since only their order matters.

Ids, skills and URIs are free texts, kept as the strings between their dots. An offer is made
by joining (`Offer`: `"agent." + id + "." + skill`), taken apart at its first dot by the
plan executor (`IdIn`, `SkillIn`: `rest.partition(".")`), joined again by the
runtime and parsed by `_URI_RE` (`Reached`, `Started`, with `IsAgentUri` and
`IsWorkflowUri`). Hence the skill `echo` of the agent `bib.v2` is called as
`v2.echo` of `bib`, which the runtime refuses, and the skills of an agent `1x` are offered and are no
URIs. Which strings are identifiers is the constant `Identifiers`.
`RegistriesAssumption` has what YAML guarantees (the keys of a mapping differ) and
what the code's constants are (`/a2a/workflows` contains the word `workflows`).

## 3. Runs

| Run | Instance | Shows |
|---|---|---|
| `registry` | 3 calls, 2 keys or none, 6 URIs, two of which share a digest under different keys, 1 restart | the invariants and the refinement of section 4 |
| `workflows` | 2 requests, nested flows, loops of at most 1 item, 1 restart, 7 calls | nesting, fail-stop, completeness; use of the registry as its `Spec` allows |
| `workflows_answered` | 2 requests for the inner or the outer flow, loops of at most 2 items, 1 restart, 5 calls | order of steps; every run ends, nested ones included |
| `remote` | 2 calls by any of the 3 kinds of clients, 1 supplied id, 1 restart, threshold 2 | rows and their conversations; what a client may conclude; refinement of `RequestLog`; every call and request ends |
| `discovery` | startup, loop and 2 GETs, 2 configurations, 4 changes or faults | answers are fresh; the view becomes accurate |
| `root` | 2 requests of one conversation, 6 plans, 2 recipes of which 1 is available, 2 configurations, 1 change | offers, failures, processes and notes; every request ends |
| `memory` | 4 notes, at most 3 session and 2 in each file, 2 requests, 81 characters | bound, relevance, precedence of tiers |
| `loader` | 7 x 9 x 4 documents, with ids that have dots or are no identifiers, absent and unreadable files, 2 edits | a serving process is consistent; which offers are reached |

**Bounds.** Three calls are what a race about a key needs: two that overlap and a third
that is answered from what they left. One restart separates two process lives.
A shared digest takes two URIs and two keys; the second resource is there for it, and a local skill,
a builtin, a workflow nobody handles and a text that is no URI for the early returns.
Calls are interchangeable in `registry` (symmetry); in the workflow runs they
are numbered and taken in order, which loses nothing because a number is only a
name. Two runs of the inner workflow with one item make six calls, the outer
one makes five, so `workflows` cuts off only the end of an outer run beside
another workflow. The five calls of `workflows_answered` are those of an outer run with one item, or of two
interleaved runs of which one makes a loop of two; a run that finds no call left can
only fail to render its step, so liveness is not had by stopping. Items of the loop are calls of the remote
skill, so that one of them may be cancelled and the loop must go on. The flows have the shape of `workflows.yaml.example`: a
remote step (here with a key), an approval depending on it, a loop over its
result; and a workflow that calls this one, with a step of its own before and
a guarded one after it.

Two posts are what the properties of `remote` need: one writes while the other
waits for its run, or goes on with the conversation of the other; the threshold
of two is reached by them. Two GETs besides startup and loop make three
refreshes that overlap, and four changes let the runtime stop, come back with
other agents, and fail a probe besides. In `root` one change is enough for agents
that go away between a catalog and its use; plans have a command in the middle,
at the end, and one that is not available. In `memory` the lengths are such
that the whole text may meet the budget exactly, a line may be as long as what is left
of it, and one line alone exceeds it. The
documents of `loader` are one good one and one for each way to fail of each
validator; two edits make a mixed and then repaired or broken configuration.

Deadlock is checked in `discovery`, `root`, `memory` and `loader`, which go on for ever.
In the other runs the system stops when all that was asked for is answered.

**Fairness.** `workflows_answered` assumes that the loop goes on with a run
that is ready (`WF` of `Turn` of some call: one has the loop at a time) and
that each handler outside the workflows settles (`WF` of `LeafSettles` of each call). Nothing in
the runtime enforces the second: `timeout_seconds` is never read. `remote` assumes the same
two things of the handler of a request and of the runner (`WF` of `Serve`), and that a client's wait ends
(`WF` of `GetReply` or `GiveUp`: each wait of httpx has a timeout); a network that loses
everything is allowed. `discovery` assumes that a request of the root agent is
answered or times out (`WF` of `Step`), that the application starts, and that the
loop sleeps and goes on, as it does whatever a refresh raises. `root` assumes that an
LLM client answers or raises, that `message_send` returns, and that
`wait_for` ends (`WF` of `Proceed`); it assumes nothing of the processes or of discovery. A
restart, a fault and a change need no fairness: they may never come.

Four runs show what the documentation says and the code does not do:

| Run | Documentation | Code |
|---|---|---|
| `registry_race` | a key prevents double charging | two overlapping calls both run |
| `workflows_approval` | an approval halts the workflow | the loop goes on |
| `workflows_keys` | the key of a step is an expression | it is not rendered |
| `remote_circuit` | the circuit opens at the threshold | the comparison raises first, and it never opens |

Other differences between documentation and code, which the models contain and
no run is about:

- A restart empties the idempotency cache (`07-storage-and-audit.md:217` advises a
  key against duplicates after a restart).
- A streaming call with a key is answered from the cache (`02-capabilities.md:147`),
  although no caller inside the runtime asks for streams.
- `timeout_seconds` bounds nothing (`02-capabilities.md:203`).
- Two workflows that call each other are accepted (`03-workflows.md:226`).
- A conversation id from a client is used without a row of `conversations`
  (`scripts/sql/app_schema.sql:18` declares the reference).
- `memory/schema.py:11` calls the merged text trimmed to the budget; headings and
  repeated lines are not counted. `BoundedOvershoot` says how much longer it is.
- The agents of the card are called at `/a2a/<last segment of their endpoint>`,
  where the runtime expects an id of `agents.yaml`, and ids and skills are free
  texts (`schemas.py:69,165`) where URIs take identifiers. `OffersResolve` says exactly which
  offers are reached: those of an agent that is at its own id, where id and skill are identifiers,
  and those of the last workflow exposed under its skill, if its id is one.

## 4. Proofs

All theorems are for arbitrary constants (sets of calls, posts, agents, plans, flows,
documents, bounds, any number of restarts) under the `ASSUME`s of the module they are
about, which TLC evaluates on every instance. Each safety result follows from one
inductive invariant per component; the theorem named `...Invariant` is that one, and
the properties of the runs are its consequences.

**Capabilities.** The invariant is `CacheInv`: types, `BornInLife`, `CacheFaithful` and
`SuccessRemembered`. `CacheFaithful` alone does not show that nothing
is run twice (it says what an entry is, not that there is one), and
`SuccessRemembered` alone cannot be carried over a replay without knowing that
the entry is a success of this life. Every action is one of three forms (a call ends, a
call is made and nothing else, restart: `StepForms`), and there is one lemma for each.

- `TypeCorrect`, `CacheIsFaithful`, `SuccessIsRemembered`: the parts.
- `NoRerunAfterSuccess`: the action property `NoSequentialRerun`.
- `OwnReplays`: `ReplaysAreTheirOwn`, for any tenants, URIs and keys, colons or not. Two calls
  can share a digest; where `SameParts` holds of the two they are the same tenant, URI and key, which is
  `DigestInjective`.
- `RegistryImplementsService`: `Spec` implements
  `IdempotentService` under the mapping of `Capabilities` (the name of a keyed
  call is the text that is hashed, so the service promises to those who share a digest
  what it promises to one caller; `Outcome` maps phase and result):
  initial states map to initial states, each action to one of the
  service's or to a stutter.

**Workflows.** `RunsInv` adds to `CacheInv` what ties the local variables of runs to the
calls of the registry. `Nested` and `StepsInOrder` are not inductive: that a failed step was
the last one needs to know where a step stands to the position of its run (`StepsPlaced`),
that what a run awaits is its own youngest call (`FramesLinked`), and that calls
are made in the order of their numbers (`MadeInOrder`; numbers are only names). `FailedSteps` says where the run of a failed step is stuck, `StepsDone` that each
step passed or bound has a call that succeeded, `Ended` that a successful run has no step left.
The actions fall into moves inside a run, calls it makes, calls that settle, and restart
(`Moves`, `Makes`, `Settles`), with lemmas for the parts each can disturb.

- `RunsType`, `RunsNest`, `RunsInOrder`, `RunsFailStop`, `RunsComplete`: the five invariants.
- `RunsImplementRegistry`: a behaviour of runs is one of the registry. With
  `RegistryImplementsService` this gives `RunsImplementService`: steps of workflows get
  what the service promises; with `NoRerunAfterSuccess`, `RunsNeverRerun`.

`FlowAssumption` says that workflow handlers suspend, which they do as they await the calls
they make, and that the wirings include the two the runner creates. Without the first a
workflow would hold the loop while its step runs, and no call of a step could be made.

**A2AServer.** `ServerInv`: one handler at most is between two commits (`OneBusy`), it wrote
the last row when the next one must follow it (`LastRow`), rows are of the conversation
of their request (`RowsOwn`), and the rows a request has are those its stage says
(`AllInLine`). The kinds of the rows of a request are taken in the order of their
places, counted by `Cardinality`; `AllNumbered` is the fact that such counting has
a place for each number, which lets the effect of an `Append` on `KindsOf` be
proved without induction over the rows.

- `ServerRowsAdjacent`, `ServerOwnConversation`: the two invariants.
- `ServerImplementsLog`: for each post, every step maps to one of `RequestLog` or a stutter.

**RemoteCalls.** `RemoteInv` adds where messages are (`Links`) and what the root agent's
client concludes (`RootCalls`). No client action writes a variable of the server (the lemma
`RemoteServerSpec`), so `RemoteImplementsLog` follows from
`ServerImplementsLog`, and `RemoteRows` from the invariants of the server.
`RootAgentTruthful` composes both sides: a success is told
only for a result, and a result is sent only after the fourth row.

**Discovery.** `FreshInv` adds `Recorded` to the property: what a refresh under way
has found is from a configuration that was up since it began, also
while others replace the cache.

**RootAgent.** `RootInv`: types, what each stage says of plan, trail, result and
catalog (`AllAlong`), and that a process whose exit is to be seen has ended
(`ExitsSeen`); `ProcessesAccounted` and `NotesAreResponses` are inductive with these.
That all steps before the last one of a trail were ok is a part of the invariant, carried by the
case of `StepDone` in which a failure ends the plan.
`RootType`, `RootOffered`, `RootFailures`, `RootProcesses`, `RootNotes` are the consequences, for any plans an LLM
makes up and any changes discovery sees meanwhile. No request writes what discovery keeps
(`RootImplementsDiscovery`), so its answers stay fresh beside requests (`RootFreshAnswers`).

**Registries.** `LoadedInv`: what was read are readings of the files at *some* time, and
what is served passed the validators as a whole. `CallsAreThere` then follows from `Accepted`
of the configuration read, not of the files. `NoAgentHidden` and `OffersAreThere` are about all
configurations the validators accept. `NoAgentHidden` is about endpoints of the plain form, which the validators do
not ask for. `OffersAreThere` is about any ids, skills and endpoints: joining an id and a skill and taking the result
apart at the first dot gives them back if the id has one part, and if it has more the call has the wrong id
and an agent URI of too many parts.

**Memory.** `MemoryType`: also across restarts that change `enable_session`. The other
theorems follow from the types of the tiers; what they need is what the loops compute, by
induction. The library's induction theorems take a predicate as a parameter, which the provers cannot
instantiate, but its theorem on strict inclusion between finite sets does not: intervals from 0
give a least element of each set of numbers (`LeastNat`), this `SetInduction`, for a *set* of
numbers, and this `Recursion`, that a recursive function exists. `SumDef` and
`KeepDef` unfold the two recursive functions of the model with it.

- `RankedFacts`: the ranks are a permutation, along which overlaps decrease (`Ranked`
  is defined by counting; that each rank is taken is the pigeonhole principle).
- `KeepFacts`: the loop keeps the lines up to a rank, their characters, ends included, and the rest of
  the budget add up to the budget, and the next line does not fit. `KeepFirst` and
  `KeepAll` are its consequences: what is left out ranks behind, and nothing is if all fit.
- `MemoryRelevance` follows for one tier, `MemoryBounded` adds the three tiers, and
  `MemoryPrecedence` has three cases: both texts fit, none does (the same
  loops run), or only the one without the less specific tiers does, of which the loops then
  keep all (`FitsAll`), as a heading is longer than the ends that are counted for the last line.

No bound of the run is used: notes, lengths, requests, budget and numbers of lines are
arbitrary.

Only model-checked:

- Liveness (`RequestsAnswered`, `RequestsEnd`, `CallsEnd`, `Converges`,
  `AnsweredOrRaised`): it needs `ENABLED` and fairness, which the prover does not have.
- That the finite instances reach the interesting cases: each property is also run
  against a faulty variant of the code in `PROJECT.json` that breaks it.

## 5. Not modelled, and the plan

The safety properties of the passing runs are all proved. What is left is
on the side of the models: properties for the hazards that have none, where the code can be
said to promise something. These hazards are in the models, with nothing in code or documentation that says
what should become of them: a handler that never settles, a cache hit that precedes the checks of a call, conversation ids
that clients supply, an agent taken for the workflows because of its URL, a default endpoint
that another agent has declared, copies of a line the budget did not pay for. Workflows that call each other, and what
`POST /memory` answers for a note it drops, are not in the models.

Not modelled:

- The characters of URIs, templates, prompts and documents: the models keep what the
  code decides by (where the colons of a hashed text and the dots of an offer are, a reference that is
  bound, a document that has the shape of its schema).
- The parameters of commands (`_resolve_params`, `_render_argv`, `_check_safety`) and the reading of
  recipes: pure checks of one call; the model lets any command fail before it starts.
- Tracing, metrics, instructions, LLM wrappers, settings, CLI, scripts: no state that
  another part reads, or input and output only.
- The handlers of local agents and the MCP bridge: whether they suspend and how they
  settle are parameters.
- The checkpointer and the OpenClaw bridge, which nothing calls.
- Restarts of the root agent other than in `Memory`: its cache is filled again by the
  startup pass before it serves, and requests under way are gone with their callers.
