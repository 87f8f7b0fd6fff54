--------------------------- MODULE MCCapabilities ---------------------------
(* Instances of Capabilities for TLC.                                      *)
EXTENDS Capabilities, TLC

Permute == Permutations(Calls)

\* Two resources, of which one with the key b:c and the other with the key c
\* have the same digest, and whose handler suspends; a local skill, whose
\* handler holds the loop, a builtin, a workflow, for which no handler is
\* passed in, and a text that is no URI.
Local == {<<"local">>}
Remote == <<"mcp.s.resource", "a">>
Deeper == <<"mcp.s.resource", "a", "b">>
InProcess == <<"agent.l.s">>
Builtin == <<"builtin.branch">>
Unwired == <<"workflow.w">>
Bad == <<"nowhere">>
ManyUris == {Remote, Deeper, InProcess, Builtin, Unwired, Bad}
ManyParsed == (Remote :> "mcp") @@ (Deeper :> "mcp") @@ (InProcess :> "agent") @@
              (Builtin :> "builtin") @@ (Unwired :> "workflow") @@ (Bad :> "invalid")
TwoKeys == {<<"c">>, <<"b", "c">>}
OneKey == {<<"c">>}
SomeWired == {{"agent", "mcp"}}
RemoteSuspends == {Remote}
ResourcesSuspend == {Remote, Deeper}

\* A single resource.
RemoteOnly == {Remote}
RemoteParsed == Remote :> "mcp"
AllWired == {{"agent", "mcp", "workflow"}}

AllSegments == {"local", "mcp.s.resource", "a", "b", "c", "agent.l.s", "builtin.branch",
                "workflow.w", "nowhere"}
=============================================================================
