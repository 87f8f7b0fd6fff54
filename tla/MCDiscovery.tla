----------------------------- MODULE MCDiscovery -----------------------------
(* Instances of Discovery for TLC.                                         *)
EXTENDS Discovery

\* Two configurations: an agent is replaced by another one and a third comes.
TwoCards == << <<"bibliography">>, <<"writer", "workflows">> >>
AllAgents == {"bibliography", "writer", "workflows"}
=============================================================================
