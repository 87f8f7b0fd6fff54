----------------------------- MODULE MCRootAgent -----------------------------
(* Instances of RootAgent for TLC.                                         *)
EXTENDS RootAgent, TLC

\* A configuration with an agent and the workflows, and one with another agent.
TwoCards == << <<"bibliography", "workflows">>, <<"writer">> >>
AllAgents == {"bibliography", "writer", "workflows"}

SameConversation == [r \in Requests |-> "c"]

SomePlans == { <<>>, <<"bibliography">>, <<"rg", "writer">>, <<"read_file", "rg", "rg">>,
               <<"bibliography", "workflows">>, <<"fd">> }
=============================================================================
