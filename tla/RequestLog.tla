----------------------------- MODULE RequestLog -----------------------------
(***************************************************************************)
(* What a message/send request may rely on about the server's records: the *)
(* records of a request only grow, along one of two paths; what it is told *)
(* agrees with them, and once it is told anything they are complete.  A    *)
(* request whose processing broke off is told nothing of its outcome and   *)
(* keeps the records it got so far.                                        *)
(***************************************************************************)
EXTENDS Naturals, Sequences

CONSTANT Posts    \* the requests

VARIABLES
  trail,  \* trail[p]: the kinds of the records of p, in the order made
  told    \* told[p]: what p was answered

lvars == <<trail, told>>

Served == <<"received", "user", "agent", "sent">>
Failed == <<"received", "user", "sent_failed">>

Begins(t, path) == Len(t) <= Len(path) /\ t = SubSeq(path, 1, Len(t))

LInit ==
  /\ trail = [p \in Posts |-> <<>>]
  /\ told = [p \in Posts |-> "nothing"]

Record(p, kind) ==
  /\ told[p] = "nothing"
  /\ Begins(Append(trail[p], kind), Served) \/ Begins(Append(trail[p], kind), Failed)
  /\ trail' = [trail EXCEPT ![p] = Append(@, kind)]
  /\ UNCHANGED told

Tell(p, what) ==
  /\ told[p] = "nothing"
  /\ \/ what = "result" /\ trail[p] = Served
     \/ what = "error" /\ trail[p] = Failed
  /\ told' = [told EXCEPT ![p] = what]
  /\ UNCHANGED trail

LNext ==
  \E p \in Posts :
    \/ \E kind \in {"received", "user", "agent", "sent", "sent_failed"} : Record(p, kind)
    \/ \E what \in {"result", "error"} : Tell(p, what)

LSpec == LInit /\ [][LNext]_lvars
=============================================================================
