------------------------------ MODULE Registries ------------------------------
(***************************************************************************)
(* The runtime's configuration, from the three registry files to those who *)
(* use it: load_all (registry/config.py, registry/schemas.py) as           *)
(* create_app calls it, the aggregate card made of it (registry/           *)
(* agent_card.py), what the root agent's discovery and catalog make of the *)
(* card (root_agent/discovery.py, catalog.py), and what a request for one  *)
(* of their offers finds (runtime/graph_runner.py).                        *)
(*                                                                         *)
(* Files are edited while they are loaded, and without effect on a process *)
(* that is serving, until it restarts.                                     *)
(*                                                                         *)
(* A text is the sequence of the strings between its dots, so that joining *)
(* with "." is \o: ids, skills and URIs are free texts, of which           *)
(* <<"bib", "v2">> is bib.v2.  A parsed document keeps them, endpoints as  *)
(* the sequence of the texts between their slashes, and what its           *)
(* validators look at; a document that violates the shape of a model in    *)
(* another way is "misshapen".                                             *)
(*                                                                         *)
(* Left out: base URLs, descriptions, policies and secrets; ids with       *)
(* slashes and other characters that mean something in a path; and a file  *)
(* that disappears between a check and its read in the same call.          *)
(***************************************************************************)
EXTENDS Naturals, Sequences, SequencesExt

CONSTANTS
  Documents,      \* Documents[f]: what file f may contain
  Examples,       \* Examples[f]: what is shipped as its example
  Strings,        \* the strings without a dot that texts are made of
  Identifiers,    \* those of them that match _IDENT of config.py
  OtherUris,      \* the mcp and builtin URIs that match _URI_RE
  WithWorkflows,  \* the strings that contain "workflows"
  MaxEdits,       \* bound: the edits of files
  Absent,         \* no file
  Unreadable,     \* a file that is no YAML, or no mapping
  None

FileNames == <<"agents.yaml", "workflows.yaml", "mcp_servers.yaml">>

\* What _read_yaml may return for file f.
Readable(f) == Documents[f] \cup {Examples[f]}

Readings == {<<a, w, m>> : a \in Readable(1), w \in Readable(2), m \in Readable(3)}

Texts == Seq(Strings) \ {<<>>}

\* The items of a document are those of a YAML mapping, whose keys differ; a
\* declared endpoint is a path that is not empty.
ASSUME RegistriesAssumption ==
  /\ DOMAIN Documents = DOMAIN FileNames /\ DOMAIN Examples = DOMAIN FileNames
  /\ \A f \in DOMAIN FileNames : \A doc \in Readable(f) :
       /\ doc.items \in Seq(Range(doc.items))
       /\ \A i, j \in DOMAIN doc.items : doc.items[i].key = doc.items[j].key => i = j
  /\ \A doc \in Readable(1) : \A i \in DOMAIN doc.items :
       /\ doc.items[i].key \in Texts /\ doc.items[i].skills \subseteq Texts
       /\ doc.items[i].endpoint = None \/ doc.items[i].endpoint \in Seq(Texts) \ {<<>>}
  /\ \A doc \in Readable(2) : \A i \in DOMAIN doc.items : doc.items[i].key \in Texts
  /\ Identifiers \cup {"agent", "workflow"} \subseteq Strings
  /\ "workflows" \in WithWorkflows
  /\ "a2a" \notin WithWorkflows
  /\ MaxEdits \in Nat
  /\ None \notin Readings

VARIABLES
  private,  \* private[f]: the content of the private file f
  edits,    \* how many edits there have been
  stage,    \* where load_all is, or what create_app has made of it
  path,     \* path[f]: the path _resolve_config_path has found
  raw,      \* raw[f]: what _read_yaml has returned
  config    \* app.state.config

registriesVars == <<private, edits, stage, path, raw, config>>

Contents(f) == Documents[f] \cup {Absent, Unreadable}

PrivateFiles == {<<a, w, m>> : a \in Contents(1), w \in Contents(2), m \in Contents(3)}

RegistriesTypeOK ==
  /\ private \in PrivateFiles
  /\ edits \in 0 .. MaxEdits
  /\ stage \in {"loading", "serving", "degraded"}
  /\ path \in BoundedSeq({"private", "example"}, Len(FileNames))
  /\ Len(raw) <= Len(path)
  /\ \A f \in DOMAIN raw : raw[f] \in Documents[f] \cup {Examples[f]}
  /\ (stage = "serving") = (config # None)
  /\ config # None => config = raw

RegistriesInit ==
  /\ private \in PrivateFiles
  /\ edits = 0
  /\ stage = "loading" /\ path = <<>> /\ raw = <<>> /\ config = None

-----------------------------------------------------------------------------
(* What load_all accepts.  Agents and workflows come in the order of their *)
(* file: sequences of records with a key.                                  *)

FieldsOf(s, Field(_)) == [i \in DOMAIN s |-> Field(s[i])]

\* Faulty variant: endpoints are not compared.
AgentsParseAlone(agents) == \A i \in DOMAIN agents : agents[i].id = agents[i].key

\* AgentsYaml: ids are those of the map, and no endpoint is declared twice.
AgentsParse(agents) ==
  /\ \A i \in DOMAIN agents : agents[i].id = agents[i].key
  /\ \A i, j \in DOMAIN agents :
       (agents[i].endpoint = agents[j].endpoint /\ agents[i].endpoint # None) => i = j

\* WorkflowsYaml: each step is of a known kind, and its id is not used again.
FlowsParse(flows) ==
  \A i \in DOMAIN flows :
    /\ \A j \in DOMAIN flows[i].steps : flows[i].steps[j].kind # "unknown"
    /\ IsInjective(FieldsOf(flows[i].steps, LAMBDA s : s.id))

\* McpServersYaml: ids are those of the map, and the fields fit the transport.
ServersParse(servers) ==
  \A i \in DOMAIN servers :
    /\ servers[i].id = servers[i].key
    /\ IF servers[i].transport = "stdio" THEN servers[i].command /\ ~servers[i].url
       ELSE servers[i].url /\ ~servers[i].command

IsIdentifier(text) == Len(text) = 1 /\ text[1] \in Identifiers

\* The two forms of _URI_RE that name something of the configuration.
IsAgentUri(uri) ==
  Len(uri) = 3 /\ uri[1] = "agent" /\ {uri[2], uri[3]} \subseteq Identifiers

IsWorkflowUri(uri) == Len(uri) = 2 /\ uri[1] = "workflow" /\ uri[2] \in Identifiers

\* _check_call_uri
CallKnown(agents, flows, flow, uri) ==
  \/ /\ IsAgentUri(uri)
     /\ \E i \in DOMAIN agents : agents[i].id = <<uri[2]>> /\ <<uri[3]>> \in agents[i].skills
  \/ /\ IsWorkflowUri(uri) /\ <<uri[2]>> # flow.key
     /\ \E i \in DOMAIN flows : flows[i].key = <<uri[2]>>
  \/ uri \in OtherUris

\* Faulty variant: only the calls of call steps are checked.
FlowKnownCalls(agents, flows, flow) ==
  /\ \A j \in DOMAIN flow.steps : flow.steps[j].kind = "call" =>
       \A uri \in flow.steps[j].calls : CallKnown(agents, flows, flow, uri)
  /\ \A j \in DOMAIN flow.steps :
       flow.steps[j].goto \in {s.id : s \in Range(flow.steps)} \cup {None}

\* The calls of a step, or of its branches, are known, and so is the target of
\* its on_error; the targets of a branch step are not looked at.
FlowKnown(agents, flows, flow) ==
  \A j \in DOMAIN flow.steps :
    /\ \A uri \in flow.steps[j].calls : CallKnown(agents, flows, flow, uri)
    /\ flow.steps[j].goto \in {s.id : s \in Range(flow.steps)} \cup {None}

Accepted(docs) ==
  /\ \A f \in DOMAIN docs : docs[f].schema_version = 1 /\ ~docs[f].misshapen
  /\ AgentsParse(docs[1].items) /\ FlowsParse(docs[2].items) /\ ServersParse(docs[3].items)
  /\ \A flow \in Range(docs[2].items) : FlowKnown(docs[1].items, docs[2].items, flow)

-----------------------------------------------------------------------------
(* load_all, a file at a time.                                             *)

Fails == stage' = "degraded" /\ UNCHANGED <<path, raw, config>>

\* _resolve_config_path: examples are always there.
ResolvePath ==
  /\ stage = "loading" /\ Len(path) < Len(FileNames)
  /\ path' = Append(path, IF private[Len(path) + 1] = Absent THEN "example" ELSE "private")
  /\ UNCHANGED <<private, edits, stage, raw, config>>

\* _read_yaml
ReadFile ==
  /\ stage = "loading" /\ Len(path) = Len(FileNames) /\ Len(raw) < Len(FileNames)
  /\ LET f == Len(raw) + 1
         content == IF path[f] = "private" THEN private[f] ELSE Examples[f]
     IN  IF content \in {Absent, Unreadable} THEN Fails
         ELSE raw' = Append(raw, content) /\ UNCHANGED <<stage, path, config>>
  /\ UNCHANGED <<private, edits>>

\* create_app serves what was read, or goes on without a configuration.
Validate ==
  /\ stage = "loading" /\ Len(raw) = Len(FileNames)
  /\ IF Accepted(raw)
     THEN stage' = "serving" /\ config' = raw /\ UNCHANGED <<path, raw>>
     ELSE Fails
  /\ UNCHANGED <<private, edits>>

\* Faulty variant: a restart keeps the configuration until a new one is loaded.
RestartWithOld ==
  /\ stage # "loading"
  /\ stage' = "loading" /\ path' = <<>> /\ raw' = <<>>
  /\ UNCHANGED <<private, edits, config>>

Restart ==
  /\ stage # "loading"
  /\ stage' = "loading" /\ path' = <<>> /\ raw' = <<>> /\ config' = None
  /\ UNCHANGED <<private, edits>>

Edit(f, content) ==
  /\ edits < MaxEdits
  /\ edits' = edits + 1
  /\ private' = [private EXCEPT ![f] = content]
  /\ UNCHANGED <<stage, path, raw, config>>

RegistriesNext ==
  \/ ResolvePath
  \/ ReadFile
  \/ Validate
  \/ Restart
  \/ \E f \in DOMAIN FileNames : \E content \in Contents(f) : Edit(f, content)

RegistriesSpec == RegistriesInit /\ [][RegistriesNext]_registriesVars

-----------------------------------------------------------------------------
(* Who uses the configuration.                                             *)

AgentList == config[1].items
FlowList == config[2].items

Local(agent) == agent.kind = "local"

Exposed == {flow.exposed : flow \in Range(FlowList)} \ {None}

AgentEntry(agent) ==
  [name |-> agent.name, skills |-> agent.skills,
   url |-> IF agent.endpoint = None THEN <<<<"a2a">>, agent.key>> ELSE agent.endpoint]

FlowsEntry ==
  [name |-> <<"local-workflows-agent">>, skills |-> Exposed,
   url |-> <<<<"a2a">>, <<"workflows">>>>]

\* build_agent_card: the local agents, then the workflows that are exposed; an
\* entry stands where its agent stands in the file.
Card ==
  LET locals == {i \in DOMAIN AgentList : Local(AgentList[i])}
      last == Len(AgentList) + 1
  IN  [i \in locals \cup IF Exposed = {} THEN {} ELSE {last} |->
         IF i = last THEN FlowsEntry ELSE AgentEntry(AgentList[i])]

\* Faulty variant: agents are known by the name on the card.
NameOf(entry) == entry.name

\* The id discovery gives to an entry: the last segment of its endpoint.
IdOf(entry) == Last(entry.url)

\* refresh: of entries with the same id the last one stays.
Discovered ==
  {Card[i] : i \in {i \in DOMAIN Card : \A j \in DOMAIN Card : IdOf(Card[i]) = IdOf(Card[j]) => j <= i}}

NamesWorkflows(text) == \E k \in DOMAIN text : text[k] \in WithWorkflows

IsWorkflows(entry) == \E i \in DOMAIN entry.url : NamesWorkflows(entry.url[i])

\* build_catalog, with every agent up: the URI a skill of an agent is offered
\* as, and the skills that are offered as workflows.
Offer(entry, skill) == <<"agent">> \o IdOf(entry) \o skill

OfferedWorkflows == UNION {entry.skills : entry \in {e \in Discovered : IsWorkflows(e)}}

\* _run_step: the id ends at the first dot of what follows the scheme.  The
\* skill, which is the rest, is posted to /a2a/<id>.
IdIn(call) == <<call[2]>>

SkillIn(call) == SubSeq(call, 3, Len(call))

\* _agent_handler: config.agents.agents[id]
AgentsWith(id, skill) ==
  {agent \in Range(AgentList) : agent.key = id /\ skill \in agent.skills}

\* What a skill posted to /a2a/<id> reaches: run_agent_task joins the two to a
\* URI, which invoke parses; at the id "workflows" skills are workflows.
Reached(id, skill) ==
  IF id # <<"workflows">> /\ IsAgentUri(<<"agent">> \o id \o skill)
  THEN AgentsWith(id, skill) ELSE {}

FindsWorkflow(id) == \E flow \in Range(FlowList) : flow.key = id

\* exposed_skill_map, in which the last of those exposed under one skill stays.
MappedTo(skill) ==
  {flow \in Range(FlowList) :
     \E i \in DOMAIN FlowList :
       /\ flow = FlowList[i] /\ flow.exposed = skill
       /\ \A j \in DOMAIN FlowList : FlowList[j].exposed = skill => j <= i}

\* The workflow a skill posted to /a2a/workflows starts, if its URI parses.
Started(skill) == {flow \in MappedTo(skill) : IsWorkflowUri(<<"workflow">> \o flow.key)}

-----------------------------------------------------------------------------
Serving == stage = "serving"

\* A serving process executes no workflow with a call of an agent, a skill or
\* a workflow that is not there, whatever was edited while it was loading.
\* (Calls of MCP tools are only looked at when they are made.)
CallsResolve ==
  Serving =>
    \A flow \in Range(FlowList) : \A i \in DOMAIN flow.steps : \A uri \in flow.steps[i].calls :
      \/ IsAgentUri(uri) /\ AgentsWith(<<uri[2]>>, <<uri[3]>>) # {}
      \/ IsWorkflowUri(uri) /\ FindsWorkflow(<<uri[2]>>)
      \/ uri \in OtherUris

\* Endpoints as in the example: /a2a and a segment that names no workflows.
PlainEndpoints ==
  \A agent \in Range(AgentList) :
    /\ agent.endpoint = None \/ (Len(agent.endpoint) = 2 /\ agent.endpoint[1] = <<"a2a">>)
    /\ ~NamesWorkflows(agent.key)
    /\ agent.endpoint # None => ~NamesWorkflows(agent.endpoint[2])

\* No agent hides another one from the root agent, which knows them by the
\* last segment of an endpoint only (discovery.py 66), if all declare theirs:
\* the one an agent has by default is not compared with those declared.
NoneHidden ==
  (Serving /\ PlainEndpoints /\ \A agent \in Range(AgentList) : agent.endpoint # None) =>
    \A i \in DOMAIN Card : Card[i] \in Discovered

\* The agent is in the root agent's catalog, and not taken for the workflows.
Advertised(i) ==
  Local(AgentList[i]) /\ Card[i] \in Discovered /\ ~IsWorkflows(Card[i])

\* Its id is what stands at the end of its endpoint.
AtOwnId(agent) == agent.endpoint = None \/ Last(agent.endpoint) = agent.key

\* When an offer of the root agent's catalog is there once it is asked for, in
\* the words of the offer: ids and skills are free texts (schemas.py 69, 165),
\* which catalog.py joins, planner/executor.py takes apart at the first dot,
\* and the runtime joins and parses again.  A skill reaches the agent that
\* offers it, and no other one of that id, exactly if the agent is at its own
\* id and both id and skill are identifiers; a skill of the workflows starts
\* the workflow it is exposed by, exactly if the id of that is an identifier
\* and no later workflow is exposed under the same skill.  Agents that are all
\* at /a2a and their ids are all offered.
OffersResolve ==
  Serving =>
    /\ \A i \in DOMAIN AgentList : Advertised(i) => \A skill \in AgentList[i].skills :
         LET agent == AgentList[i]
             call == Offer(Card[i], skill)
         IN  Reached(IdIn(call), SkillIn(call)) = {agent} <=>
               AtOwnId(agent) /\ IsIdentifier(agent.key) /\ IsIdentifier(skill)
    /\ \A i \in DOMAIN FlowList : FlowList[i].exposed # None =>
         /\ FlowList[i].exposed \in OfferedWorkflows
         /\ Started(FlowList[i].exposed) = {FlowList[i]} <=>
              /\ IsIdentifier(FlowList[i].key)
              /\ \A j \in DOMAIN FlowList : j > i => FlowList[j].exposed # FlowList[i].exposed
    /\ (PlainEndpoints /\ \A agent \in Range(AgentList) : AtOwnId(agent)) =>
         \A i \in DOMAIN AgentList : Local(AgentList[i]) => Advertised(i)
===============================================================================
