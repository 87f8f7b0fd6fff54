----------------------------- MODULE MCRegistries -----------------------------
(* Instances of Registries for TLC.                                        *)
EXTENDS Registries

Doc(items) == [schema_version |-> 1, misshapen |-> FALSE, items |-> items]

\* Texts without a dot.
Word(s) == <<s>>

Agent(key, id, kind, endpoint, skills) ==
  [key |-> key, id |-> id, name |-> <<"local">> \o id, kind |-> kind, endpoint |-> endpoint,
   skills |-> skills]

At(text) == <<Word("a2a"), text>>

Named(key, endpoint, skills) == Agent(key, key, "local", endpoint, skills)
Generic(endpoint) == Named(Word("generic"), endpoint, {Word("echo")})
Writer(endpoint) == Named(Word("writer"), endpoint, {Word("echo"), Word("draft")})
Remote == Agent(Word("external"), Word("external"), "remote", None, {Word("search")})

\* In order: the example; another id than the key; an endpoint declared twice;
\* endpoints that are not the ids; none declared; ids and skills with dots,
\* two of which are offered by the same words, and ids and skills that are no
\* identifiers; an agent taken for the workflows.
AgentFiles == {
  Doc(<<Generic(At(Word("generic"))), Remote>>),
  Doc(<<Agent(Word("generic"), Word("gen"), "local", None, {Word("echo")})>>),
  Doc(<<Generic(At(Word("generic"))), Writer(At(Word("generic")))>>),
  Doc(<<Generic(At(Word("writer"))), Writer(At(Word("drafts")))>>),
  Doc(<<Generic(None), Writer(None)>>),
  Doc(<<Generic(None), Named(<<"bib", "v2">>, At(<<"bib", "v2">>), {Word("echo")}),
        Named(Word("bib"), None, {<<"v2", "echo">>, Word("1x"), Word("draft")}),
        Named(Word("1x"), None, {Word("echo")})>>),
  Doc(<<Generic(None), Named(Word("pipeline"), At(Word("my-workflows")), {Word("draft")})>>) }

Flow(key, exposed, steps) == [key |-> Word(key), exposed |-> exposed, steps |-> steps]
Call(id, uri) == [id |-> id, kind |-> "call", calls |-> {uri}, goto |-> None]
ForEach(id, uri) == [Call(id, uri) EXCEPT !.kind = "for_each"]
Echo == <<"agent", "generic", "echo">>
Pipeline == Word("pipeline")
Tool == <<"mcp", "x", "y">>

\* In order: the example; calls of another agent in a for_each; a call of the
\* workflow itself, of one that is not there, of an id that is no key; an id
\* used twice; a goto to no step; a step of no kind; workflows exposed under
\* one skill, and one whose id is no identifier.
FlowFiles == {
  Doc(<<Flow("echo", Pipeline, <<Call("a", Echo), Call("b", Tool)>>),
        Flow("twice", None, <<Call("a", <<"workflow", "echo">>)>>)>>),
  Doc(<<Flow("echo", Pipeline, <<ForEach("a", <<"agent", "writer", "draft">>)>>)>>),
  Doc(<<Flow("echo", Pipeline, <<Call("a", <<"workflow", "echo">>)>>)>>),
  Doc(<<Flow("echo", Pipeline, <<Call("a", <<"workflow", "gone">>)>>)>>),
  Doc(<<Flow("echo", None, <<Call("a", <<"agent", "gen", "echo">>)>>)>>),
  Doc(<<Flow("echo", None, <<Call("a", Echo), Call("a", Echo)>>)>>),
  Doc(<<Flow("echo", None, <<[Call("a", Echo) EXCEPT !.goto = "gone"]>>)>>),
  Doc(<<Flow("echo", None, <<[Call("a", Echo) EXCEPT !.kind = "unknown", !.calls = {}]>>)>>),
  Doc(<<Flow("echo", Pipeline, <<Call("a", Tool)>>), Flow("twice", Pipeline, <<Call("a", Echo)>>),
        Flow("1x", Word("x"), <<>>)>>) }

Server(transport, command, url) ==
  [key |-> "fs", id |-> "fs", transport |-> transport, command |-> command, url |-> url]

\* In order: the example; fields that do not fit; a version that is not known;
\* another shape than that of McpServersYaml.
ServerFiles == {
  Doc(<<Server("stdio", TRUE, FALSE), [Server("http", FALSE, TRUE) EXCEPT !.key = "fetch", !.id = "fetch"]>>),
  Doc(<<Server("http", TRUE, TRUE)>>),
  [Doc(<<>>) EXCEPT !.schema_version = 2],
  [Doc(<<>>) EXCEPT !.misshapen = TRUE] }

AllFiles == <<AgentFiles, FlowFiles, ServerFiles>>

ExampleFiles == <<
  Doc(<<Generic(At(Word("generic"))), Remote>>),
  Doc(<<Flow("echo", Pipeline, <<Call("a", Echo), Call("b", Tool)>>),
        Flow("twice", None, <<Call("a", <<"workflow", "echo">>)>>)>>),
  Doc(<<Server("stdio", TRUE, FALSE), [Server("http", FALSE, TRUE) EXCEPT !.key = "fetch", !.id = "fetch"]>>)
>>

Idents == {"generic", "gen", "writer", "external", "echo", "draft", "search", "bib", "v2",
           "twice", "pipeline", "gone", "drafts", "x", "y", "agent", "workflow"}

AllStrings == Idents \cup {"1x", "my-workflows", "a2a"}

Tools == {Tool}
===============================================================================
