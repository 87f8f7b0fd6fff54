-------------------------------- MODULE Memory --------------------------------
(***************************************************************************)
(* The root agent's memory: MemoryStore (root_agent/memory/store.py) keeps *)
(* notes in a global and a local file and, per conversation and until the  *)
(* process restarts, in session memory; MemoryRetriever (retriever.py)     *)
(* merges the three for a request and, over budget, filters their lines.   *)
(*                                                                         *)
(* A note is one line.  Of its text the model keeps the length and how     *)
(* many words of each request it has.  The tiers are the source's names.   *)
(*                                                                         *)
(* Left out: empty notes and unknown tiers, which change nothing, notes of *)
(* several lines, and what users write into the files themselves.          *)
(***************************************************************************)
EXTENDS Integers, Sequences, FiniteSets, Functions

CONSTANTS
  Conversations,
  Notes,       \* the stamped lines that may be appended
  Size,        \* Size[n]: the length of note n
  Queries,     \* the requests memory is retrieved for
  Overlap,     \* Overlap[q][n]: the words note n has in common with request q
  MaxChars,    \* the budget
  Most         \* bound: Most[t] is the number of notes of a tier

\* Faulty variant: the global tier comes first.
GlobalFirst == <<"global", "local", "session">>

\* More specific tiers come first.
Tiers == <<"session", "local", "global">>

ASSUME MemoryAssumption ==
  /\ Size \in [Notes -> Nat \ {0}]
  /\ Overlap \in [Queries -> [Notes -> Nat]]
  /\ MaxChars \in Nat
  /\ Most \in [Range(Tiers) -> Nat]

VARIABLES
  enabled,    \* enable_session
  sessions,   \* _sessions
  files       \* the lines of the two files

memoryVars == <<enabled, sessions, files>>

Files == {"global", "local"}

\* Types, and no session memory where it is not enabled.
MemoryTypeOK ==
  /\ enabled \in BOOLEAN
  /\ sessions \in [Conversations -> Seq(Notes)]
  /\ files \in [Files -> Seq(Notes)]
  /\ ~enabled => \A c \in Conversations : sessions[c] = <<>>

MemoryInit ==
  /\ enabled \in BOOLEAN
  /\ sessions = [c \in Conversations |-> <<>>]
  /\ files = [t \in Files |-> <<>>]

AppendToFile(t, note) ==
  /\ Len(files[t]) < Most[t]
  /\ files' = [files EXCEPT ![t] = Append(@, note)]
  /\ UNCHANGED <<enabled, sessions>>

\* Faulty variant: what is not to be kept is kept nevertheless.
AppendAnyway(c, note) ==
  /\ Len(sessions[c]) < Most["session"]
  /\ sessions' = [sessions EXCEPT ![c] = Append(@, note)]
  /\ UNCHANGED <<enabled, files>>

AppendToSession(c, note) ==
  /\ enabled
  /\ Len(sessions[c]) < Most["session"]
  /\ sessions' = [sessions EXCEPT ![c] = Append(@, note)]
  /\ UNCHANGED <<enabled, files>>

\* Another process reads the same files, with settings of its own.
Restart ==
  /\ enabled' \in BOOLEAN
  /\ sessions' = [c \in Conversations |-> <<>>]
  /\ UNCHANGED files

MemoryNext ==
  \/ \E note \in Notes : \/ \E t \in Files : AppendToFile(t, note)
                         \/ \E c \in Conversations : AppendToSession(c, note)
  \/ Restart

MemorySpec == MemoryInit /\ [][MemoryNext]_memoryVars

-----------------------------------------------------------------------------
(* _merge and _filter_relevant.  What is shown of a tier are positions of  *)
(* its lines; a tier of which nothing is shown has no section.             *)

\* The lengths of "## Session memory\n" and its like.
Heading == [session |-> 18, local |-> 16, global |-> 17]

\* What stands between two notes of a tier: files have an empty line there.
Gap == [session |-> 1, local |-> 2, global |-> 2]

LinesFor(c) ==
  [t \in Range(Tiers) |-> IF t = "session" THEN sessions[c] ELSE files[t]]

Sum(f) ==
  LET sum[k \in 0 .. Len(f)] == IF k = 0 THEN 0 ELSE sum[k - 1] + f[k]
  IN  sum[Len(f)]

\* The lines at positions P, with so many characters more for each.
Chars(lines, P, more) ==
  Sum([i \in DOMAIN lines |-> IF i \in P THEN Size[lines[i]] + more ELSE 0])

\* Sections as they are joined, with gap[t] characters between lines of t.
LengthOf(lines, shown, gap) ==
  LET Section(t) == IF shown[t] = {} THEN 0
                    ELSE Heading[t] + Chars(lines[t], shown[t], gap[t]) - gap[t] + 2
      all == Section("session") + Section("local") + Section("global")
  IN  IF all = 0 THEN 0 ELSE all - 2

Whole(lines) == [t \in Range(Tiers) |-> DOMAIN lines[t]]

\* The lines sorted by their overlap with the request, as far as line i; ties
\* keep their order.
UpTo(q, lines, i) ==
  LET Words(j) == Overlap[q][lines[j]]
  IN  {j \in DOMAIN lines : Words(j) > Words(i) \/ (Words(j) = Words(i) /\ j <= i)}

Ranked(q, lines) ==
  [k \in DOMAIN lines |-> CHOOSE i \in DOMAIN lines : Cardinality(UpTo(q, lines, i)) = k]

\* Faulty variant: a line that does not fit is passed over.
TakeIfItFits(lines, s, i) ==
  IF s.budget <= Size[lines[i]] THEN s
  ELSE [s EXCEPT !.kept = @ \cup {i}, !.budget = @ - (Size[lines[i]] + 1)]

\* Faulty variant: the ends of lines are not counted.
TakeByText(lines, s, i) ==
  IF s.full \/ s.budget <= Size[lines[i]] THEN [s EXCEPT !.full = TRUE]
  ELSE [s EXCEPT !.kept = @ \cup {i}, !.budget = @ - Size[lines[i]]]

\* Line i in the loop of _filter_relevant, which the first that does not fit ends.
Take(lines, s, i) ==
  IF s.full \/ s.budget <= Size[lines[i]] THEN [s EXCEPT !.full = TRUE]
  ELSE [s EXCEPT !.kept = @ \cup {i}, !.budget = @ - (Size[lines[i]] + 1)]

\* The lines the loop keeps, and what it leaves of the budget.
Keep(q, lines, budget) ==
  LET loop[k \in 0 .. Len(lines)] ==
        IF k = 0 THEN [kept |-> {}, budget |-> budget, full |-> FALSE]
        ELSE Take(lines, loop[k - 1], Ranked(q, lines)[k])
  IN  loop[Len(lines)]

\* What the tiers before t leave; with nothing left nothing more fits.
BudgetFor(q, lines, t) ==
  LET second == Keep(q, lines[Tiers[1]], MaxChars).budget
      third == Keep(q, lines[Tiers[2]], second).budget
  IN  CASE t = Tiers[1] -> MaxChars [] t = Tiers[2] -> second [] t = Tiers[3] -> third

\* In their original order, which brings back all copies of a line that is kept.
FilterRelevant(q, lines) ==
  [t \in Range(Tiers) |->
     {i \in DOMAIN lines[t] :
        \E j \in Keep(q, lines[t], BudgetFor(q, lines, t)).kept : lines[t][i] = lines[t][j]}]

WholeFits(lines) == LengthOf(lines, Whole(lines), Gap) <= MaxChars

Merge(q, lines) == IF WholeFits(lines) THEN Whole(lines) ELSE FilterRelevant(q, lines)

-----------------------------------------------------------------------------
\* The filtered text exceeds the budget at most by its headings and what joins
\* its sections, unless lines are repeated in a tier (retriever.py 64-82).
BoundedOvershoot ==
  \A c \in Conversations, q \in Queries :
    LET lines == LinesFor(c)
        shown == FilterRelevant(q, lines)
        Extra(t) == IF shown[t] = {} THEN 0 ELSE Heading[t] + 1
    IN  (\E t \in Range(Tiers) : shown[t] # {}) /\ (\A t \in Range(Tiers) : IsInjective(lines[t])) =>
          LengthOf(lines, shown, [t \in Range(Tiers) |-> 1]) + 2
            <= MaxChars + Extra("session") + Extra("local") + Extra("global")

\* What is left out of a tier is no more relevant than what is shown of it,
\* although the lines are shown in the order they were written.
MostRelevantFirst ==
  \A c \in Conversations, q \in Queries, t \in Range(Tiers) :
    LET lines == LinesFor(c)[t]
        shown == Merge(q, LinesFor(c))[t]
    IN  \A out \in DOMAIN lines \ shown, in \in shown :
          Overlap[q][lines[out]] <= Overlap[q][lines[in]]

\* What is shown of a tier does not depend on the less specific ones, however
\* much they hold: also not on whether they make the text exceed the budget.
SpecificFirst ==
  \A c \in Conversations, q \in Queries, t \in {"session", "local"} :
    LET lines == LinesFor(c)
        less == IF t = "session" THEN Files ELSE {"global"}
        alone == [u \in Range(Tiers) |-> IF u \in less THEN <<>> ELSE lines[u]]
    IN  Merge(q, lines)[t] = Merge(q, alone)[t]
===============================================================================
