------------------------------- MODULE MCMemory -------------------------------
(* Instances of Memory for TLC.                                            *)
EXTENDS Memory

\* Lengths with the stamp of 15 characters; "long" alone is over the budget.
Sizes == [short |-> 17, plain |-> 25, wordy |-> 37, long |-> 90]
Overlaps ==
  [docs  |-> [short |-> 0, plain |-> 1, wordy |-> 2, long |-> 1],
   other |-> [short |-> 1, plain |-> 0, wordy |-> 0, long |-> 2]]
Bounds == [session |-> 3, local |-> 2, global |-> 2]
===============================================================================
