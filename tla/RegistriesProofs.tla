--------------------------- MODULE RegistriesProofs ---------------------------
(***************************************************************************)
(* Proofs about Registries, for any contents of the files and of their     *)
(* examples, and any number of edits.                                      *)
(***************************************************************************)
EXTENDS Registries, SequenceTheorems, TLAPS

\* There are three files.
LEMMA ThreeFiles == Len(FileNames) = 3 /\ DOMAIN FileNames = 1 .. 3
BY DEF FileNames

\* The inductive invariant: load_all has read what the files or the examples
\* held, and what is served was accepted as a whole.
LoadedInv ==
  /\ private \in PrivateFiles
  /\ edits \in 0 .. MaxEdits
  /\ stage \in {"loading", "serving", "degraded"}
  /\ path \in Seq({"private", "example"}) /\ Len(path) <= 3
  /\ raw \in Seq(Readable(1) \cup Readable(2) \cup Readable(3))
  /\ Len(raw) <= Len(path)
  /\ \A f \in DOMAIN raw : raw[f] \in Readable(f)
  /\ stage = "serving" <=> config # None
  /\ config # None => config = raw /\ Len(raw) = 3 /\ Accepted(raw)

\* Before anything is read there is nothing to be wrong.
LEMMA LoadedInit == RegistriesInit => LoadedInv
<1> SUFFICES ASSUME RegistriesInit PROVE LoadedInv
  OBVIOUS
<1>1. path = <<>> /\ raw = <<>>
  BY DEF RegistriesInit
<1>2. <<>> \in Seq({"private", "example"}) /\ Len(<<>>) = 0
  OBVIOUS
<1>3. raw \in Seq(Readable(1) \cup Readable(2) \cup Readable(3)) /\ DOMAIN raw = {}
  BY <1>1
<1> QED
  BY <1>1, <1>2, <1>3, RegistriesAssumption DEF RegistriesInit, LoadedInv

\* A path is resolved.
LEMMA LoadedResolvePath ==
  ASSUME LoadedInv, ResolvePath
  PROVE  LoadedInv'
<1> USE DEF LoadedInv
<1> DEFINE e == IF private[Len(path) + 1] = Absent THEN "example" ELSE "private"
<1>1. e \in {"private", "example"} /\ Len(path) < 3 /\ Len(path) \in Nat
  BY ThreeFiles DEF ResolvePath
<1>2. path' = Append(path, e)
  BY DEF ResolvePath
<1> HIDE DEF e
<1>3. path' \in Seq({"private", "example"}) /\ Len(path') = Len(path) + 1
  BY <1>1, <1>2, AppendProperties
<1> QED
  BY <1>1, <1>3 DEF ResolvePath

\* What is read of a file is one of its contents, or the example.
LEMMA ContentReadable ==
  ASSUME LoadedInv, NEW f \in 1 .. 3, private[f] \notin {Absent, Unreadable}
  PROVE  private[f] \in Readable(f)
<1>1. private[f] \in Contents(f)
  <2>1. PICK a \in Contents(1), w \in Contents(2), m \in Contents(3) : private = <<a, w, m>>
    BY DEF LoadedInv, PrivateFiles
  <2>2. private[1] = a /\ private[2] = w /\ private[3] = m
    BY <2>1
  <2>3. f = 1 \/ f = 2 \/ f = 3
    OBVIOUS
  <2> QED
    BY <2>2, <2>3
<1> QED
  BY <1>1 DEF Contents, Readable

\* A file is read as what it holds now: a private one or an example.
LEMMA LoadedReadFile ==
  ASSUME LoadedInv, ReadFile
  PROVE  LoadedInv'
<1> USE DEF LoadedInv
<1> DEFINE f == Len(raw) + 1
           content == IF path[f] = "private" THEN private[f] ELSE Examples[f]
<1>1. Len(raw) \in Nat /\ f \in 1 .. 3 /\ Len(path) = 3
  BY ThreeFiles DEF ReadFile
<1>2. stage = "loading" /\ config = None /\ UNCHANGED <<private, edits>>
  BY DEF ReadFile
<1>3. CASE content \in {Absent, Unreadable}
  BY <1>2, <1>3 DEF ReadFile, Fails
<1>4. CASE content \notin {Absent, Unreadable}
  <2>1. raw' = Append(raw, content) /\ UNCHANGED <<stage, path, config>>
    BY <1>4 DEF ReadFile
  <2>2. content \in Readable(f)
    BY <1>1, <1>4, ContentReadable DEF Readable
  <2>3. Readable(f) \subseteq Readable(1) \cup Readable(2) \cup Readable(3)
    BY <1>1
  <2> DEFINE S == Readable(1) \cup Readable(2) \cup Readable(3)
  <2>4. content \in S /\ raw \in Seq(S)
    BY <2>2, <2>3
  <2> HIDE DEF f, content, S
  <2>5. /\ raw' \in Seq(S) /\ Len(raw') = Len(raw) + 1 /\ raw'[Len(raw) + 1] = content
        /\ \A i \in 1 .. Len(raw) : raw'[i] = raw[i]
    BY <2>1, <2>4, AppendProperties
  <2>6. ASSUME NEW i \in DOMAIN raw' PROVE raw'[i] \in Readable(i)
    <3>1. i \in 1 .. Len(raw) \/ i = Len(raw) + 1
      BY <1>1, <2>5
    <3> QED
      BY <2>2, <2>4, <2>5, <3>1 DEF f
  <2>7. Len(raw') <= Len(path')
    BY <1>1, <2>1, <2>5 DEF f
  <2> QED
    BY <1>2, <2>1, <2>5, <2>6, <2>7 DEF S
<1> QED
  BY <1>3, <1>4

\* What has been read is a reading of the three files.
LEMMA ReadingComplete ==
  ASSUME LoadedInv, Len(raw) = 3
  PROVE  raw \in Readings
<1>1. raw[1] \in Readable(1) /\ raw[2] \in Readable(2) /\ raw[3] \in Readable(3)
  BY DEF LoadedInv
<1>2. raw = <<raw[1], raw[2], raw[3]>>
  BY DEF LoadedInv
<1> QED
  BY <1>1, <1>2 DEF Readings

\* What is served has passed the validators.
LEMMA LoadedValidate ==
  ASSUME LoadedInv, Validate
  PROVE  LoadedInv'
<1>1. Len(raw) = 3 /\ stage = "loading" /\ config = None /\ UNCHANGED <<private, edits>>
  BY ThreeFiles DEF Validate, LoadedInv
<1>2. raw # None
  BY <1>1, ReadingComplete, RegistriesAssumption
<1>3. CASE Accepted(raw)
  <2>1. stage' = "serving" /\ config' = raw /\ UNCHANGED <<path, raw>>
    BY <1>3 DEF Validate
  <2>2. Accepted(raw')
    BY <1>3, <2>1
  <2> QED
    BY <1>1, <1>2, <2>1, <2>2 DEF LoadedInv
<1>4. CASE ~Accepted(raw)
  BY <1>1, <1>4 DEF Validate, Fails, LoadedInv
<1> QED
  BY <1>3, <1>4

\* An edit changes the files, not what has been read of them.
LEMMA LoadedEdit ==
  ASSUME LoadedInv, NEW f \in DOMAIN FileNames, NEW content \in Contents(f), Edit(f, content)
  PROVE  LoadedInv'
<1>1. private' \in PrivateFiles
  <2>1. PICK a \in Contents(1), w \in Contents(2), m \in Contents(3) : private = <<a, w, m>>
    BY DEF LoadedInv, PrivateFiles
  <2>2. private' = [<<a, w, m>> EXCEPT ![f] = content]
    BY <2>1 DEF Edit
  <2>3. f = 1 \/ f = 2 \/ f = 3
    BY ThreeFiles
  <2>4. private' = <<IF f = 1 THEN content ELSE a, IF f = 2 THEN content ELSE w,
                     IF f = 3 THEN content ELSE m>>
    BY <2>2, <2>3
  <2>5. /\ (IF f = 1 THEN content ELSE a) \in Contents(1)
        /\ (IF f = 2 THEN content ELSE w) \in Contents(2)
        /\ (IF f = 3 THEN content ELSE m) \in Contents(3)
    OBVIOUS
  <2> QED
    BY <2>4, <2>5 DEF PrivateFiles
<1>2. edits' \in 0 .. MaxEdits
  BY RegistriesAssumption DEF Edit, LoadedInv
<1>3. Accepted(raw) => Accepted(raw')
  BY DEF Edit
<1> QED
  BY <1>1, <1>2, <1>3 DEF Edit, LoadedInv

\* Every step of the loader and of the editors keeps the invariant.
LEMMA LoadedNext == LoadedInv /\ [RegistriesNext]_registriesVars => LoadedInv'
<1> SUFFICES ASSUME LoadedInv, [RegistriesNext]_registriesVars PROVE LoadedInv'
  OBVIOUS
<1>1. CASE Restart
  <2>1. path' = <<>> /\ raw' = <<>> /\ stage' = "loading" /\ config' = None
        /\ UNCHANGED <<private, edits>>
    BY <1>1 DEF Restart
  <2>2. raw' \in Seq(Readable(1) \cup Readable(2) \cup Readable(3)) /\ DOMAIN raw' = {}
        /\ Len(raw') = 0 /\ Len(path') = 0 /\ path' \in Seq({"private", "example"})
    BY <2>1
  <2> QED
    BY <2>1, <2>2 DEF LoadedInv
<1>2. CASE UNCHANGED registriesVars
  <2>1. Accepted(raw) => Accepted(raw')
    BY <1>2 DEF registriesVars
  <2> QED
    BY <1>2, <2>1 DEF registriesVars, LoadedInv
<1> QED
  BY <1>1, <1>2, LoadedResolvePath, LoadedReadFile, LoadedValidate, LoadedEdit
     DEF RegistriesNext

\* The inductive invariant holds in every reachable state.
THEOREM LoadedInvariant == RegistriesSpec => []LoadedInv
BY LoadedInit, LoadedNext, PTL DEF RegistriesSpec

\* Every variable of the loader has its type, and what is served was read.
THEOREM RegistriesType == RegistriesSpec => []RegistriesTypeOK
<1>1. ASSUME LoadedInv PROVE RegistriesTypeOK
  <2>1. path \in BoundedSeq({"private", "example"}, Len(FileNames))
    <3>1. path \in Seq({"private", "example"}) /\ Len(path) <= 3
      BY <1>1 DEF LoadedInv
    <3>2. Len(path) \in Nat /\ path \in [1 .. Len(path) -> {"private", "example"}]
      BY <3>1, LenProperties
    <3>3. Len(path) \in 0 .. 3
      BY <3>1, <3>2
    <3> QED
      BY <3>2, <3>3, ThreeFiles DEF BoundedSeq, SeqOf
  <2>2. \A f \in DOMAIN raw : raw[f] \in Documents[f] \cup {Examples[f]}
    BY <1>1 DEF LoadedInv, Readable
  <2> QED
    BY <1>1, <2>1, <2>2 DEF LoadedInv, RegistriesTypeOK
<1> QED
  BY <1>1, LoadedInvariant, PTL

-----------------------------------------------------------------------------
\* What is served was accepted, and is made of sequences with distinct keys.
LEMMA Served ==
  ASSUME LoadedInv, Serving
  PROVE  /\ Accepted(config)
         /\ AgentList \in Seq(Range(AgentList))
         /\ \A i, j \in DOMAIN AgentList : AgentList[i].key = AgentList[j].key => i = j
         /\ \A i \in DOMAIN AgentList :
              /\ AgentList[i].key \in Texts /\ AgentList[i].skills \subseteq Texts
              /\ AgentList[i].endpoint = None \/ AgentList[i].endpoint \in Seq(Texts) \ {<<>>}
<1>1. config = raw /\ Len(raw) = 3 /\ Accepted(raw)
  BY DEF LoadedInv, Serving
<1>2. config[1] \in Readable(1)
  BY <1>1 DEF LoadedInv
<1>3. Accepted(config)
  BY <1>1
<1> QED
  BY <1>2, <1>3, RegistriesAssumption, ThreeFiles DEF AgentList

\* A serving process has every agent, skill and workflow its workflows call.
THEOREM CallsAreThere == RegistriesSpec => []CallsResolve
<1>1. ASSUME LoadedInv PROVE CallsResolve
  <2> SUFFICES ASSUME Serving, NEW flow \in Range(FlowList), NEW i \in DOMAIN flow.steps,
                      NEW uri \in flow.steps[i].calls
               PROVE  \/ IsAgentUri(uri) /\ AgentsWith(<<uri[2]>>, <<uri[3]>>) # {}
                      \/ IsWorkflowUri(uri) /\ FindsWorkflow(<<uri[2]>>)
                      \/ uri \in OtherUris
    BY DEF CallsResolve
  <2>1. Accepted(config)
    BY <1>1, Served
  <2>2. CallKnown(AgentList, FlowList, flow, uri)
    BY <1>1, <2>1, ThreeFiles DEF Accepted, FlowKnown, FlowList, AgentList
  <2>3. \A j \in DOMAIN AgentList : AgentList[j].id = AgentList[j].key
    BY <2>1 DEF Accepted, AgentsParse, AgentList
  <2>4. ASSUME NEW j \in DOMAIN AgentList, AgentList[j].id = <<uri[2]>>,
               <<uri[3]>> \in AgentList[j].skills
        PROVE  AgentList[j] \in AgentsWith(<<uri[2]>>, <<uri[3]>>)
    BY <2>3, <2>4 DEF AgentsWith, Range
  <2>5. ASSUME NEW j \in DOMAIN FlowList, FlowList[j].key = <<uri[2]>>
        PROVE  FindsWorkflow(<<uri[2]>>)
    BY <2>5 DEF FindsWorkflow, Range
  <2> QED
    BY <2>2, <2>4, <2>5 DEF CallKnown
<1> QED
  BY <1>1, LoadedInvariant, PTL

-----------------------------------------------------------------------------
\* The entries of the card: one for each local agent, one for the workflows.
LEMMA CardEntries ==
  ASSUME LoadedInv, Serving
  PROVE  /\ DOMAIN Card \subseteq Nat
         /\ \A i \in DOMAIN Card :
              \/ /\ i \in DOMAIN AgentList /\ Local(AgentList[i])
                 /\ Card[i] = AgentEntry(AgentList[i])
              \/ i = Len(AgentList) + 1 /\ Exposed # {} /\ Card[i] = FlowsEntry
         /\ \A i \in DOMAIN AgentList : Local(AgentList[i]) =>
              i \in DOMAIN Card /\ Card[i] = AgentEntry(AgentList[i])
<1>1. DOMAIN AgentList = 1 .. Len(AgentList) /\ Len(AgentList) \in Nat
  BY Served, LenProperties
<1> QED
  BY <1>1 DEF Card

\* An entry of the card is discovered if no other has its id.
LEMMA SoleIdDiscovered ==
  ASSUME LoadedInv, Serving, NEW i \in DOMAIN Card,
         \A j \in DOMAIN Card : IdOf(Card[i]) = IdOf(Card[j]) => j = i
  PROVE  Card[i] \in Discovered
<1>1. \A j \in DOMAIN Card : IdOf(Card[i]) = IdOf(Card[j]) => j <= i
  BY CardEntries
<1> QED
  BY <1>1 DEF Discovered

\* The ids of entries whose path has two segments, /a2a first.
LEMMA PairIds ==
  ASSUME NEW e \in Seq(Texts), NEW g \in Seq(Texts),
         Len(e) = 2, Len(g) = 2, e[1] = g[1], e[2] = g[2]
  PROVE  e = g
BY SeqEqual

\* An agent's entry has the end of its endpoint for an id, which is its own by
\* default, and that of the workflows is theirs.
LEMMA EntryIds ==
  /\ IdOf(FlowsEntry) = <<"workflows">> /\ IsWorkflows(FlowsEntry)
  /\ \A agent : agent.endpoint # None =>
       AgentEntry(agent).url = agent.endpoint /\ IdOf(AgentEntry(agent)) = Last(agent.endpoint)
  /\ \A agent : agent.endpoint = None =>
       AgentEntry(agent).url = <<<<"a2a">>, agent.key>> /\ IdOf(AgentEntry(agent)) = agent.key
<1>1. IdOf(FlowsEntry) = <<"workflows">>
  BY DEF IdOf, FlowsEntry, Last
<1>2. IsWorkflows(FlowsEntry)
  <2>1. FlowsEntry.url = <<<<"a2a">>, <<"workflows">>>>
    BY DEF FlowsEntry
  <2>2. 2 \in DOMAIN FlowsEntry.url /\ FlowsEntry.url[2] = <<"workflows">>
    BY <2>1
  <2>3. NamesWorkflows(<<"workflows">>)
    <3>1. 1 \in DOMAIN <<"workflows">> /\ <<"workflows">>[1] = "workflows"
      OBVIOUS
    <3> QED
      BY <3>1, RegistriesAssumption DEF NamesWorkflows
  <2> QED
    BY <2>2, <2>3 DEF IsWorkflows
<1>3. ASSUME NEW agent, agent.endpoint = None
      PROVE  AgentEntry(agent).url = <<<<"a2a">>, agent.key>> /\ IdOf(AgentEntry(agent)) = agent.key
  <2>1. AgentEntry(agent).url = <<<<"a2a">>, agent.key>>
    BY <1>3 DEF AgentEntry
  <2> QED
    BY <2>1 DEF IdOf, Last
<1>4. ASSUME NEW agent, agent.endpoint # None
      PROVE  AgentEntry(agent).url = agent.endpoint /\ IdOf(AgentEntry(agent)) = Last(agent.endpoint)
  BY <1>4 DEF AgentEntry, IdOf
<1> QED
  BY <1>1, <1>2, <1>3, <1>4

\* A text that names no workflows is not theirs.
LEMMA NotTheWorkflows ==
  ASSUME NEW text, ~NamesWorkflows(text)
  PROVE  text # <<"workflows">>
<1>1. 1 \in DOMAIN <<"workflows">> /\ <<"workflows">>[1] = "workflows"
  OBVIOUS
<1> QED
  BY <1>1, RegistriesAssumption DEF NamesWorkflows

\* Agents that declare endpoints of the plain form are all discovered: no two
\* of them have an id in common, nor one with the workflows.
THEOREM NoAgentHidden == RegistriesSpec => []NoneHidden
<1>1. ASSUME LoadedInv PROVE NoneHidden
  <2> SUFFICES ASSUME Serving, PlainEndpoints,
                      \A agent \in Range(AgentList) : agent.endpoint # None,
                      NEW i \in DOMAIN Card, NEW j \in DOMAIN Card,
                      IdOf(Card[i]) = IdOf(Card[j])
               PROVE  j = i
    BY <1>1, SoleIdDiscovered DEF NoneHidden
  <2>1. ASSUME NEW k \in DOMAIN AgentList
        PROVE  /\ AgentList[k].endpoint \in Seq(Texts) /\ AgentList[k].endpoint # None
               /\ Len(AgentList[k].endpoint) = 2 /\ AgentList[k].endpoint[1] = <<"a2a">>
               /\ AgentList[k].endpoint[2] # <<"workflows">>
               /\ IdOf(AgentEntry(AgentList[k])) = AgentList[k].endpoint[2]
    <3>1. AgentList[k] \in Range(AgentList)
      BY DEF Range
    <3>2. AgentList[k].endpoint # None /\ Len(AgentList[k].endpoint) = 2
          /\ AgentList[k].endpoint[1] = <<"a2a">> /\ ~NamesWorkflows(AgentList[k].endpoint[2])
      BY <3>1 DEF PlainEndpoints
    <3>3. IdOf(AgentEntry(AgentList[k])) = AgentList[k].endpoint[2]
      BY <3>2, EntryIds DEF Last
    <3> QED
      BY <1>1, <3>2, <3>3, Served, NotTheWorkflows
  <2>2. ASSUME NEW k \in DOMAIN AgentList, NEW l \in DOMAIN AgentList,
               AgentList[k].endpoint = AgentList[l].endpoint
        PROVE  k = l
    BY <1>1, <2>1, <2>2, Served DEF Accepted, AgentsParse, AgentList
  <2>3. CASE i \in DOMAIN AgentList /\ j \in DOMAIN AgentList
             /\ Card[i] = AgentEntry(AgentList[i]) /\ Card[j] = AgentEntry(AgentList[j])
    <3>1. AgentList[i].endpoint = AgentList[j].endpoint
      BY <2>1, <2>3, PairIds
    <3> QED
      BY <2>2, <2>3, <3>1
  <2> QED
    BY <1>1, <2>1, <2>3, CardEntries, EntryIds
<1> QED
  BY <1>1, LoadedInvariant, PTL

-----------------------------------------------------------------------------
\* A text is a sequence of at least one string.
LEMMA TextType ==
  ASSUME NEW text \in Texts
  PROVE  text \in Seq(Strings) /\ Len(text) \in Nat /\ Len(text) >= 1 /\ 1 \in DOMAIN text
<1>1. text \in Seq(Strings) /\ text # <<>>
  BY DEF Texts
<1>2. Len(text) \in Nat /\ Len(text) # 0
  BY <1>1, EmptySeq, LenProperties
<1>3. DOMAIN text = 1 .. Len(text)
  BY <1>1, LenProperties
<1> QED
  BY <1>1, <1>2, <1>3

\* A sequence of one element.
LEMMA One ==
  ASSUME NEW S, NEW w \in S
  PROVE  <<w>> \in Seq(S) /\ Len(<<w>>) = 1 /\ <<w>>[1] = w /\ <<w>> # <<>>
OBVIOUS

\* A text of a single string.
LEMMA WordType ==
  ASSUME NEW w \in Strings
  PROVE  <<w>> \in Texts /\ <<w>> \in Seq(Strings) /\ Len(<<w>>) = 1 /\ <<w>>[1] = w
<1>1. <<w>> \in Seq(Strings) /\ Len(<<w>>) = 1 /\ <<w>>[1] = w /\ <<w>> # <<>>
  BY One, Zenon
<1> QED
  BY <1>1, Zenon DEF Texts

\* Two sequences of strings joined.
LEMMA JoinType ==
  ASSUME NEW a \in Seq(Strings), NEW b \in Seq(Strings)
  PROVE  /\ a \o b \in Seq(Strings) /\ Len(a \o b) = Len(a) + Len(b)
         /\ Len(a) \in Nat /\ Len(b) \in Nat
         /\ \A k \in 1 .. Len(a) : (a \o b)[k] = a[k]
         /\ \A k \in 1 .. Len(b) : (a \o b)[k + Len(a)] = b[k]
<1>1. /\ a \o b \in Seq(Strings) /\ Len(a \o b) = Len(a) + Len(b)
      /\ Len(a) \in Nat /\ Len(b) \in Nat
  BY ConcatProperties, LenProperties, Zenon
<1>2. ASSUME NEW k \in 1 .. Len(a) PROVE (a \o b)[k] = a[k]
  <2>1. k \in 1 .. Len(a) + Len(b) /\ k <= Len(a)
    BY <1>1
  <2> QED
    BY <1>1, <2>1, ConcatProperties
<1>3. ASSUME NEW k \in 1 .. Len(b) PROVE (a \o b)[k + Len(a)] = b[k]
  <2>1. k + Len(a) \in 1 .. Len(a) + Len(b) /\ ~(k + Len(a) <= Len(a)) /\ (k + Len(a)) - Len(a) = k
    BY <1>1
  <2> QED
    BY <1>1, <2>1, ConcatProperties
<1> QED
  BY <1>1, <1>2, <1>3

\* A string before a text: the length and the elements of the result.
LEMMA Prefixed ==
  ASSUME NEW w \in Strings, NEW a \in Seq(Strings)
  PROVE  /\ <<w>> \o a \in Seq(Strings) /\ Len(<<w>> \o a) = 1 + Len(a) /\ Len(a) \in Nat
         /\ (<<w>> \o a)[1] = w
         /\ \A k \in 1 .. Len(a) : (<<w>> \o a)[k + 1] = a[k]
<1>1. \A x \in Seq(Strings) : Len(x) = 1 =>
        /\ x \o a \in Seq(Strings) /\ Len(x \o a) = 1 + Len(a) /\ Len(a) \in Nat
        /\ (x \o a)[1] = x[1]
        /\ \A k \in 1 .. Len(a) : (x \o a)[k + 1] = a[k]
  <2> SUFFICES ASSUME NEW x \in Seq(Strings), Len(x) = 1
               PROVE  /\ x \o a \in Seq(Strings) /\ Len(x \o a) = 1 + Len(a) /\ Len(a) \in Nat
                      /\ (x \o a)[1] = x[1]
                      /\ \A k \in 1 .. Len(a) : (x \o a)[k + 1] = a[k]
    OBVIOUS
  <2>1. /\ x \o a \in Seq(Strings) /\ Len(x \o a) = Len(x) + Len(a)
        /\ Len(x) \in Nat /\ Len(a) \in Nat
        /\ \A k \in 1 .. Len(x) : (x \o a)[k] = x[k]
        /\ \A k \in 1 .. Len(a) : (x \o a)[k + Len(x)] = a[k]
    BY JoinType, Zenon
  <2>2. 1 \in 1 .. Len(x)
    BY <2>1
  <2> QED
    BY <2>1, <2>2
<1> QED
  BY <1>1, WordType, Zenon

\* The text agent.<id>.<skill>.
AgentText(id, skill) == <<"agent">> \o id \o skill

\* Its length and its elements.
LEMMA Joined ==
  ASSUME NEW id \in Texts, NEW skill \in Seq(Strings)
  PROVE  /\ AgentText(id, skill) \in Seq(Strings)
         /\ Len(AgentText(id, skill)) = 1 + Len(id) + Len(skill)
         /\ AgentText(id, skill)[1] = "agent" /\ AgentText(id, skill)[2] = id[1]
         /\ Len(id) = 1 => \A k \in 1 .. Len(skill) : AgentText(id, skill)[k + 2] = skill[k]
<1> DEFINE front == <<"agent">> \o id   call == AgentText(id, skill)
<1>1. id \in Seq(Strings) /\ Len(id) \in Nat /\ Len(id) >= 1
  BY TextType, Zenon
<1>2. /\ front \in Seq(Strings) /\ Len(front) = 1 + Len(id)
      /\ front[1] = "agent" /\ \A k \in 1 .. Len(id) : front[k + 1] = id[k]
  <2>1. "agent" \in Strings
    BY RegistriesAssumption
  <2> QED
    BY <1>1, <2>1, Prefixed, Zenon
<1>3. call = front \o skill
  BY Zenon DEF AgentText
<1> HIDE DEF front, call
<1>4. /\ call \in Seq(Strings) /\ Len(call) = Len(front) + Len(skill) /\ Len(skill) \in Nat
      /\ \A k \in 1 .. Len(front) : call[k] = front[k]
      /\ \A k \in 1 .. Len(skill) : call[k + Len(front)] = skill[k]
  BY <1>2, <1>3, JoinType, Zenon
<1>5. 1 \in 1 .. Len(front) /\ 2 \in 1 .. Len(front) /\ 1 \in 1 .. Len(id) /\ 1 + 1 = 2
  BY <1>1, <1>2
<1>6. call[1] = "agent" /\ call[2] = id[1]
  BY <1>2, <1>4, <1>5
<1>7. Len(call) = 1 + Len(id) + Len(skill)
  BY <1>1, <1>2, <1>4
<1>8. ASSUME Len(id) = 1 PROVE \A k \in 1 .. Len(skill) : call[k + 2] = skill[k]
  <2>1. Len(front) = 2
    BY <1>2, <1>8
  <2> QED
    BY <1>4, <2>1
<1> QED
  BY <1>4, <1>6, <1>7, <1>8, Zenon DEF call

\* What an offer is posted as: the id is its second string, the skill the rest,
\* which are the offered id and skill if the id has no dot.
LEMMA Posted ==
  ASSUME NEW id \in Texts, NEW skill \in Texts, NEW call, call = AgentText(id, skill)
  PROVE  /\ IdIn(call) = <<id[1]>> /\ IdIn(call) \in Texts /\ Len(IdIn(call)) = 1
         /\ SkillIn(call) \in Seq(Strings) /\ Len(SkillIn(call)) = Len(id) + Len(skill) - 1
         /\ Len(id) = 1 => IdIn(call) = id /\ SkillIn(call) = skill
<1>1. /\ id \in Seq(Strings) /\ Len(id) \in Nat /\ Len(id) >= 1
      /\ skill \in Seq(Strings) /\ Len(skill) \in Nat /\ Len(skill) >= 1
  BY TextType, Zenon
<1>2. /\ call \in Seq(Strings) /\ Len(call) = 1 + Len(id) + Len(skill)
      /\ call[1] = "agent" /\ call[2] = id[1]
      /\ Len(id) = 1 => \A k \in 1 .. Len(skill) : call[k + 2] = skill[k]
  BY <1>1, Joined, Zenon
<1>3. IdIn(call) = <<id[1]>> /\ IdIn(call) \in Texts /\ Len(IdIn(call)) = 1
  <2>1. id[1] \in Strings
    BY <1>1
  <2>2. IdIn(call) = <<id[1]>>
    BY <1>2, Zenon DEF IdIn
  <2> QED
    BY <2>1, <2>2, WordType, Zenon
<1>4. /\ SkillIn(call) \in Seq(Strings) /\ Len(SkillIn(call)) = Len(id) + Len(skill) - 1
      /\ \A k \in 1 .. Len(SkillIn(call)) : SkillIn(call)[k] = call[k + 2]
  BY <1>1, <1>2 DEF SkillIn
<1>5. ASSUME Len(id) = 1 PROVE IdIn(call) = id /\ SkillIn(call) = skill
  <2>1. IdIn(call) = id
    BY <1>1, <1>3, <1>5
  <2>2. Len(SkillIn(call)) = Len(skill)
    BY <1>1, <1>4, <1>5
  <2>3. \A k \in 1 .. Len(skill) : SkillIn(call)[k] = skill[k]
    BY <1>2, <1>4, <1>5, <2>2
  <2> QED
    BY <1>1, <1>4, <2>1, <2>2, <2>3, SeqEqual
<1> QED
  BY <1>3, <1>4, <1>5

\* The URI the runtime makes of what was posted parses exactly if the offered
\* id and skill are identifiers, and then is about these.
LEMMA OfferSplit ==
  ASSUME NEW id \in Texts, NEW skill \in Texts, NEW call, call = AgentText(id, skill),
         NEW uri, uri = AgentText(IdIn(call), SkillIn(call))
  PROVE  /\ IsAgentUri(uri) <=> IsIdentifier(id) /\ IsIdentifier(skill)
         /\ IsAgentUri(uri) => IdIn(call) = id /\ SkillIn(call) = skill
<1> DEFINE i == IdIn(call)   s == SkillIn(call)
<1>1. /\ i \in Texts /\ Len(i) = 1 /\ s \in Seq(Strings)
      /\ Len(s) = Len(id) + Len(skill) - 1
      /\ Len(id) = 1 => i = id /\ s = skill
  BY Posted
<1>2. Len(id) \in Nat /\ Len(id) >= 1 /\ Len(skill) \in Nat /\ Len(skill) >= 1
  BY TextType, Zenon
<1>3. uri = AgentText(i, s)
  OBVIOUS
<1> HIDE DEF i, s
<1>4. /\ Len(uri) = 1 + Len(i) + Len(s) /\ uri[1] = "agent" /\ uri[2] = i[1]
      /\ Len(i) = 1 => \A k \in 1 .. Len(s) : uri[k + 2] = s[k]
  <2>1. /\ Len(AgentText(i, s)) = 1 + Len(i) + Len(s)
        /\ AgentText(i, s)[1] = "agent" /\ AgentText(i, s)[2] = i[1]
        /\ Len(i) = 1 => \A k \in 1 .. Len(s) : AgentText(i, s)[k + 2] = s[k]
    BY <1>1, Joined, Zenon
  <2> QED
    BY <1>3, <2>1
<1>5. Len(uri) = 3 <=> Len(id) = 1 /\ Len(skill) = 1
  <2>1. Len(uri) = 1 + 1 + (Len(id) + Len(skill) - 1)
    BY <1>1, <1>4, Zenon
  <2>2. \A a, b \in Nat : a >= 1 /\ b >= 1 => (1 + 1 + (a + b - 1) = 3 <=> a = 1 /\ b = 1)
    OBVIOUS
  <2> QED
    BY <1>2, <2>1, <2>2, Zenon
<1>6. ASSUME Len(id) = 1, Len(skill) = 1
      PROVE  IsAgentUri(uri) <=> id[1] \in Identifiers /\ skill[1] \in Identifiers
  <2>1. i = id /\ s = skill /\ Len(uri) = 3 /\ uri[2] = id[1]
    BY <1>1, <1>4, <1>5, <1>6
  <2>2. 1 \in 1 .. Len(s) /\ 1 + 2 = 3
    BY <1>6, <2>1
  <2>3. uri[3] = skill[1]
    BY <1>1, <1>4, <2>1, <2>2
  <2> QED
    BY <1>4, <2>1, <2>3 DEF IsAgentUri
<1>7. IsAgentUri(uri) => Len(id) = 1 /\ Len(skill) = 1
  BY <1>5 DEF IsAgentUri
<1> QED
  BY <1>1, <1>6, <1>7 DEF IsIdentifier, i, s

\* The same of a workflow, whose URI is made of its id.
LEMMA WorkflowUri ==
  ASSUME NEW id \in Texts, NEW uri, uri = <<"workflow">> \o id
  PROVE  IsWorkflowUri(uri) <=> IsIdentifier(id)
<1>1. id \in Seq(Strings) /\ Len(id) \in Nat /\ Len(id) >= 1
  BY TextType, Zenon
<1>2. /\ Len(uri) = 1 + Len(id) /\ uri[1] = "workflow"
      /\ \A k \in 1 .. Len(id) : uri[k + 1] = id[k]
  <2>1. "workflow" \in Strings
    BY RegistriesAssumption
  <2> QED
    BY <1>1, <2>1, Prefixed, Zenon
<1>3. uri[2] = id[1]
  <2>1. 1 \in 1 .. Len(id) /\ 1 + 1 = 2
    BY <1>1
  <2> QED
    BY <1>2, <2>1
<1> QED
  BY <1>1, <1>2, <1>3 DEF IsWorkflowUri, IsIdentifier

\* The entry of an agent that is advertised, its id, and whether that is its own.
LEMMA AdvertisedEntry ==
  ASSUME LoadedInv, Serving, NEW i \in DOMAIN AgentList, Advertised(i)
  PROVE  /\ Card[i] = AgentEntry(AgentList[i])
         /\ IdOf(Card[i]) \in Texts
         /\ IdOf(Card[i]) = AgentList[i].key <=> AtOwnId(AgentList[i])
         /\ <<IdOf(Card[i])[1]>> # <<"workflows">>
<1> DEFINE agent == AgentList[i]   entry == AgentEntry(AgentList[i])
<1>1. Card[i] = entry
  BY CardEntries DEF Advertised
<1>2. /\ agent.key \in Texts
      /\ agent.endpoint = None \/ agent.endpoint \in Seq(Texts) \ {<<>>}
  BY Served
<1>3. ~IsWorkflows(entry)
  BY <1>1 DEF Advertised
<1> HIDE DEF agent, entry
<1>4. entry = AgentEntry(agent)
  BY DEF agent, entry
<1>5. /\ IdOf(entry) \in Texts
      /\ IdOf(entry) = agent.key <=> AtOwnId(agent)
      /\ \E k \in DOMAIN entry.url : entry.url[k] = IdOf(entry)
  <2>1. CASE agent.endpoint = None
    <3>1. entry.url = <<<<"a2a">>, agent.key>> /\ IdOf(entry) = agent.key
      BY <1>4, <2>1, EntryIds
    <3>2. 2 \in DOMAIN entry.url /\ entry.url[2] = agent.key
      BY <3>1
    <3> QED
      BY <1>2, <2>1, <3>1, <3>2 DEF AtOwnId
  <2>2. CASE agent.endpoint # None
    <3>1. entry.url = agent.endpoint /\ IdOf(entry) = Last(agent.endpoint)
      BY <1>4, <2>2, EntryIds
    <3>2. agent.endpoint \in Seq(Texts) /\ agent.endpoint # <<>>
      BY <1>2, <2>2
    <3>3. Len(agent.endpoint) \in Nat /\ Len(agent.endpoint) # 0
      BY <3>2, EmptySeq, LenProperties
    <3>4. Len(agent.endpoint) \in DOMAIN agent.endpoint
          /\ agent.endpoint[Len(agent.endpoint)] \in Texts
      BY <3>2, <3>3
    <3> QED
      BY <2>2, <3>1, <3>4 DEF AtOwnId, Last
  <2> QED
    BY <2>1, <2>2
<1>6. ~NamesWorkflows(IdOf(entry))
  BY <1>3, <1>5 DEF IsWorkflows
<1>7. IdOf(entry)[1] # "workflows"
  <2>1. 1 \in DOMAIN IdOf(entry)
    BY <1>5, TextType, Zenon
  <2> QED
    BY <1>6, <2>1, RegistriesAssumption DEF NamesWorkflows
<1>8. <<IdOf(entry)[1]>> # <<"workflows">>
  BY <1>7
<1>9. IdOf(Card[i]) = IdOf(entry)
  BY <1>1
<1>10. /\ IdOf(Card[i]) \in Texts /\ <<IdOf(Card[i])[1]>> # <<"workflows">>
       /\ IdOf(Card[i]) = agent.key <=> AtOwnId(agent)
  BY <1>5, <1>8, <1>9, Zenon
<1> QED
  BY <1>1, <1>10, Zenon DEF agent, entry

\* What the offer of a skill of an advertised agent reaches.
LEMMA OfferReaches ==
  ASSUME LoadedInv, Serving, NEW i \in DOMAIN AgentList, Advertised(i),
         NEW skill \in AgentList[i].skills,
         NEW call, call = Offer(Card[i], skill)
  PROVE  Reached(IdIn(call), SkillIn(call)) = {AgentList[i]} <=>
           AtOwnId(AgentList[i]) /\ IsIdentifier(AgentList[i].key) /\ IsIdentifier(skill)
<1> DEFINE id == IdOf(Card[i])   agent == AgentList[i]
           uri == AgentText(IdIn(call), SkillIn(call))
<1>1. /\ id \in Texts /\ skill \in Texts /\ agent \in Range(AgentList) /\ skill \in agent.skills
      /\ id = agent.key <=> AtOwnId(agent)
      /\ <<id[1]>> # <<"workflows">>
  BY AdvertisedEntry, Served DEF Range
<1>2. call = AgentText(id, skill)
  BY DEF Offer, AgentText
<1>3. \A other \in Range(AgentList) : other.key = agent.key => other = agent
  BY Served DEF Range
<1>4. Reached(IdIn(call), SkillIn(call)) =
        IF IdIn(call) # <<"workflows">> /\ IsAgentUri(uri)
        THEN AgentsWith(IdIn(call), SkillIn(call)) ELSE {}
  BY DEF Reached, AgentText
<1>5. uri = AgentText(IdIn(call), SkillIn(call))
  OBVIOUS
<1> HIDE DEF id, agent, uri
<1>6. IdIn(call) = <<id[1]>>
  BY <1>1, <1>2, Posted
<1>7. /\ IsAgentUri(uri) <=> IsIdentifier(id) /\ IsIdentifier(skill)
      /\ IsAgentUri(uri) => IdIn(call) = id /\ SkillIn(call) = skill
  BY <1>1, <1>2, <1>5, OfferSplit
<1>8. ASSUME IsAgentUri(uri)
      PROVE  Reached(IdIn(call), SkillIn(call)) = AgentsWith(id, skill)
  BY <1>1, <1>4, <1>6, <1>7, <1>8
<1>9. ASSUME id = agent.key PROVE AgentsWith(id, skill) = {agent}
  BY <1>1, <1>3, <1>9 DEF AgentsWith
<1>10. agent \in AgentsWith(id, skill) => id = agent.key
  BY DEF AgentsWith
<1>11. CASE IsAgentUri(uri)
  <2>1. Reached(IdIn(call), SkillIn(call)) = {agent} <=> id = agent.key
    BY <1>8, <1>9, <1>10, <1>11
  <2> QED
    BY <1>1, <1>7, <1>11, <2>1 DEF agent
<1>12. CASE ~IsAgentUri(uri)
  <2>1. Reached(IdIn(call), SkillIn(call)) # {agent}
    BY <1>4, <1>12
  <2> QED
    BY <1>1, <1>7, <1>12, <2>1 DEF agent
<1> QED
  BY <1>11, <1>12

\* The workflows that are served: a sequence with distinct keys, which are texts.
LEMMA ServedFlows ==
  ASSUME LoadedInv, Serving
  PROVE  /\ DOMAIN FlowList = 1 .. Len(FlowList) /\ Len(FlowList) \in Nat
         /\ \A i \in DOMAIN FlowList : FlowList[i].key \in Texts /\ FlowList[i] \in Range(FlowList)
         /\ \A i, j \in DOMAIN FlowList : FlowList[i].key = FlowList[j].key => i = j
<1>1. config = raw /\ Len(raw) = 3
  BY DEF LoadedInv, Serving
<1>2. config[2] \in Readable(2)
  BY <1>1 DEF LoadedInv
<1>3. FlowList \in Seq(Range(FlowList))
  BY <1>2, RegistriesAssumption, ThreeFiles DEF FlowList
<1>4. DOMAIN FlowList = 1 .. Len(FlowList) /\ Len(FlowList) \in Nat
  BY <1>3, LenProperties
<1>5. /\ \A i \in DOMAIN FlowList : FlowList[i].key \in Texts
      /\ \A i, j \in DOMAIN FlowList : FlowList[i].key = FlowList[j].key => i = j
  BY <1>2, RegistriesAssumption, ThreeFiles DEF FlowList
<1>6. \A i \in DOMAIN FlowList : FlowList[i] \in Range(FlowList)
  BY DEF Range
<1> QED
  BY <1>4, <1>5, <1>6

\* The entry of the workflows is discovered, as the last of the card.
LEMMA FlowsDiscovered ==
  ASSUME LoadedInv, Serving, Exposed # {}
  PROVE  FlowsEntry \in Discovered
<1> DEFINE last == Len(AgentList) + 1
<1>1. Len(AgentList) \in Nat /\ DOMAIN AgentList = 1 .. Len(AgentList)
  BY Served, LenProperties
<1>2. last \in DOMAIN Card /\ Card[last] = FlowsEntry /\ \A j \in DOMAIN Card : j <= last
  BY <1>1 DEF Card
<1> QED
  BY <1>2 DEF Discovered

\* What the skill starts that a workflow is exposed by.
LEMMA ExposedStarts ==
  ASSUME LoadedInv, Serving, NEW i \in DOMAIN FlowList, FlowList[i].exposed # None
  PROVE  /\ FlowList[i].exposed \in OfferedWorkflows
         /\ Started(FlowList[i].exposed) = {FlowList[i]} <=>
              /\ IsIdentifier(FlowList[i].key)
              /\ \A j \in DOMAIN FlowList : j > i => FlowList[j].exposed # FlowList[i].exposed
<1> DEFINE skill == FlowList[i].exposed
           sole == \A j \in DOMAIN FlowList : j > i => FlowList[j].exposed # skill
<1>1. skill \in Exposed
  BY ServedFlows DEF Exposed
<1>2. skill \in OfferedWorkflows
  <2>1. FlowsEntry \in Discovered /\ IsWorkflows(FlowsEntry) /\ FlowsEntry.skills = Exposed
    BY <1>1, FlowsDiscovered, EntryIds DEF FlowsEntry
  <2> QED
    BY <1>1, <2>1 DEF OfferedWorkflows
<1>3. \A flow \in Range(FlowList) : IsWorkflowUri(<<"workflow">> \o flow.key) <=> IsIdentifier(flow.key)
  <2>1. ASSUME NEW flow \in Range(FlowList)
        PROVE  IsWorkflowUri(<<"workflow">> \o flow.key) <=> IsIdentifier(flow.key)
    <3>1. flow.key \in Texts
      BY ServedFlows DEF Range
    <3> DEFINE uri == <<"workflow">> \o flow.key
    <3>2. uri = <<"workflow">> \o flow.key
      OBVIOUS
    <3> HIDE DEF uri
    <3>3. IsWorkflowUri(uri) <=> IsIdentifier(flow.key)
      BY <3>1, <3>2, WorkflowUri
    <3> QED
      BY <3>3, Zenon DEF uri
  <2> QED
    BY <2>1
<1>4. FlowList[i] \in MappedTo(skill) <=> sole
  <2>1. ASSUME sole PROVE FlowList[i] \in MappedTo(skill)
    <3>1. \A j \in DOMAIN FlowList : FlowList[j].exposed = skill => j <= i
      BY <2>1, ServedFlows
    <3> QED
      BY <3>1, ServedFlows DEF MappedTo
  <2>2. ASSUME FlowList[i] \in MappedTo(skill) PROVE sole
    <3>1. PICK k \in DOMAIN FlowList :
            /\ FlowList[i] = FlowList[k]
            /\ \A j \in DOMAIN FlowList : FlowList[j].exposed = skill => j <= k
      BY <2>2 DEF MappedTo
    <3>2. k = i
      BY <3>1, ServedFlows
    <3> QED
      BY <3>1, <3>2, ServedFlows
  <2> QED
    BY <2>1, <2>2
<1>5. ASSUME sole, NEW flow \in MappedTo(skill) PROVE flow = FlowList[i]
  <2>1. PICK k \in DOMAIN FlowList :
          /\ flow = FlowList[k] /\ flow.exposed = skill
          /\ \A j \in DOMAIN FlowList : FlowList[j].exposed = skill => j <= k
    BY <1>5 DEF MappedTo
  <2>2. i <= k /\ ~(k > i)
    BY <1>5, <2>1
  <2>3. k = i
    BY <2>2, ServedFlows
  <2> QED
    BY <2>1, <2>3
<1> HIDE DEF skill, sole
<1>6. Started(skill) = {FlowList[i]} <=> IsIdentifier(FlowList[i].key) /\ sole
  <2>1. FlowList[i] \in Range(FlowList) /\ MappedTo(skill) \subseteq Range(FlowList)
    BY ServedFlows DEF MappedTo
  <2>2. \A flow : flow \in Started(skill) <=>
          flow \in MappedTo(skill) /\ flow \in Range(FlowList) /\ IsIdentifier(flow.key)
    BY <1>3, <2>1 DEF Started
  <2>3. ASSUME Started(skill) = {FlowList[i]} PROVE IsIdentifier(FlowList[i].key) /\ sole
    BY <1>4, <2>2, <2>3
  <2>4. ASSUME IsIdentifier(FlowList[i].key), sole PROVE Started(skill) = {FlowList[i]}
    <3>1. FlowList[i] \in Started(skill)
      BY <1>4, <2>1, <2>2, <2>4
    <3>2. \A flow \in Started(skill) : flow = FlowList[i]
      BY <1>5, <2>2, <2>4
    <3> QED
      BY <3>1, <3>2
  <2> QED
    BY <2>3, <2>4
<1> QED
  BY <1>2, <1>6 DEF skill, sole

\* Agents at /a2a and their ids are all advertised.
LEMMA OwnIdsAdvertised ==
  ASSUME LoadedInv, Serving, PlainEndpoints, \A agent \in Range(AgentList) : AtOwnId(agent),
         NEW i \in DOMAIN AgentList, Local(AgentList[i])
  PROVE  Advertised(i)
<1>1. ASSUME NEW k \in DOMAIN AgentList
      PROVE  /\ IdOf(AgentEntry(AgentList[k])) = AgentList[k].key
             /\ AgentList[k].key # <<"workflows">>
             /\ ~IsWorkflows(AgentEntry(AgentList[k]))
  <2> DEFINE agent == AgentList[k]   url == AgentEntry(AgentList[k]).url
  <2>1. agent \in Range(AgentList)
    BY DEF Range
  <2>2. /\ ~NamesWorkflows(agent.key)
        /\ agent.endpoint # None =>
             /\ Len(agent.endpoint) = 2 /\ agent.endpoint[1] = <<"a2a">>
             /\ ~NamesWorkflows(agent.endpoint[2])
        /\ AtOwnId(agent)
    BY <2>1 DEF PlainEndpoints
  <2>3. IdOf(AgentEntry(agent)) = agent.key
    BY <2>2, EntryIds DEF AtOwnId
  <2>4. agent.key # <<"workflows">>
    BY <2>2, NotTheWorkflows, Zenon
  <2>5. /\ DOMAIN url = 1 .. 2 /\ url[1] = <<"a2a">> /\ ~NamesWorkflows(url[2])
    <3>1. CASE agent.endpoint = None
      <4>1. url = <<<<"a2a">>, agent.key>>
        BY <3>1, EntryIds
      <4> HIDE DEF url
      <4>2. DOMAIN url = 1 .. 2 /\ url[1] = <<"a2a">> /\ url[2] = agent.key
        BY <4>1
      <4> QED
        BY <2>2, <4>2
    <3>2. CASE agent.endpoint # None
      <4>1. url = agent.endpoint
        BY <3>2, EntryIds
      <4>2. agent.endpoint \in Seq(Texts)
        BY <3>2, Served
      <4>3. DOMAIN agent.endpoint = 1 .. 2
        BY <2>2, <3>2, <4>2, LenProperties
      <4> QED
        BY <2>2, <3>2, <4>1, <4>3
    <3> QED
      BY <3>1, <3>2
  <2>6. ~NamesWorkflows(<<"a2a">>)
    <3>1. DOMAIN <<"a2a">> = {1} /\ <<"a2a">>[1] = "a2a"
      OBVIOUS
    <3> QED
      BY <3>1, RegistriesAssumption DEF NamesWorkflows
  <2>7. \A n \in 1 .. 2 : n = 1 \/ n = 2
    OBVIOUS
  <2>8. ~IsWorkflows(AgentEntry(agent))
    BY <2>5, <2>6, <2>7 DEF IsWorkflows
  <2> QED
    BY <2>3, <2>4, <2>8
<1>2. i \in DOMAIN Card /\ Card[i] = AgentEntry(AgentList[i])
  BY CardEntries
<1>3. ASSUME NEW j \in DOMAIN Card, IdOf(Card[i]) = IdOf(Card[j]) PROVE j = i
  <2>1. IdOf(Card[j]) = AgentList[i].key
    BY <1>1, <1>2, <1>3
  <2>2. j \in DOMAIN AgentList /\ Card[j] = AgentEntry(AgentList[j])
    BY <1>1, <2>1, CardEntries, EntryIds
  <2>3. AgentList[j].key = AgentList[i].key
    BY <1>1, <2>1, <2>2
  <2> QED
    BY <2>2, <2>3, Served
<1>4. Card[i] \in Discovered
  BY <1>2, <1>3, SoleIdDiscovered
<1> QED
  BY <1>1, <1>2, <1>4 DEF Advertised

\* The offers of the root agent's catalog are there when they are asked for,
\* exactly if their words are identifiers and their agents at their own ids:
\* the conversions between ids, skills and URIs are proved to agree, for any
\* ids and skills.
THEOREM OffersAreThere == RegistriesSpec => []OffersResolve
<1>1. ASSUME LoadedInv, Serving,
             NEW i \in DOMAIN AgentList, Advertised(i), NEW skill \in AgentList[i].skills
      PROVE  LET agent == AgentList[i]
                 call == Offer(Card[i], skill)
             IN  Reached(IdIn(call), SkillIn(call)) = {agent} <=>
                   AtOwnId(agent) /\ IsIdentifier(agent.key) /\ IsIdentifier(skill)
  <2> DEFINE call == Offer(Card[i], skill)
  <2>1. call = Offer(Card[i], skill)
    OBVIOUS
  <2> HIDE DEF call
  <2>2. Reached(IdIn(call), SkillIn(call)) = {AgentList[i]} <=>
          AtOwnId(AgentList[i]) /\ IsIdentifier(AgentList[i].key) /\ IsIdentifier(skill)
    BY <1>1, <2>1, OfferReaches, Zenon
  <2> QED
    BY <2>2, Zenon DEF call
<1>2. ASSUME LoadedInv PROVE OffersResolve
  <2>1. CASE Serving
    BY <1>1, <1>2, <2>1, ExposedStarts, OwnIdsAdvertised, Zenon DEF OffersResolve
  <2>2. CASE ~Serving
    BY <2>2 DEF OffersResolve
  <2> QED
    BY <2>1, <2>2
<1> QED
  BY <1>2, LoadedInvariant, PTL

===============================================================================
