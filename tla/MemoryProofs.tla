------------------------------ MODULE MemoryProofs ------------------------------
(***************************************************************************)
(* Proofs about Memory, for any notes, conversations, sizes and bounds.    *)
(*                                                                         *)
(* Memory adds up lengths and runs a loop, as recursive functions.  What   *)
(* they compute is shown by induction, which is here derived from the      *)
(* well-foundedness of strict inclusion between finite sets.               *)
(***************************************************************************)
EXTENDS Memory, SequenceTheorems, FiniteSetTheorems, TLAPS

\* The store keeps notes by tier, and where session memory is not enabled no
\* conversation has any (MemoryStore.append): also after a restart that
\* changed the setting, as the notes of a session do not survive it.
THEOREM MemoryType == MemorySpec => []MemoryTypeOK
<1>1. MemoryInit => MemoryTypeOK
  BY DEF MemoryInit, MemoryTypeOK
<1>2. ASSUME MemoryTypeOK, [MemoryNext]_memoryVars
      PROVE  MemoryTypeOK'
  <2> USE <1>2 DEF MemoryTypeOK
  <2>1. ASSUME NEW note \in Notes, NEW t \in Files, AppendToFile(t, note)
        PROVE  MemoryTypeOK'
    <3>1. Append(files[t], note) \in Seq(Notes)
      OBVIOUS
    <3> QED
      BY <2>1, <3>1 DEF AppendToFile
  <2>2. ASSUME NEW note \in Notes, NEW c \in Conversations, AppendToSession(c, note)
        PROVE  MemoryTypeOK'
    <3>1. Append(sessions[c], note) \in Seq(Notes)
      OBVIOUS
    <3> QED
      BY <2>2, <3>1 DEF AppendToSession
  <2>3. CASE Restart
    BY <2>3 DEF Restart
  <2>4. CASE UNCHANGED memoryVars
    BY <2>4 DEF memoryVars
  <2> QED
    BY <2>1, <2>2, <2>3, <2>4 DEF MemoryNext
<1> QED
  BY <1>1, <1>2, PTL DEF MemorySpec
-----------------------------------------------------------------------------
\* A set of numbers that is not empty has a least one.
LEMMA LeastNat ==
  ASSUME NEW T \in SUBSET Nat, T # {}
  PROVE  \E x \in T : \A y \in T : x <= y
<1> DEFINE U == {0 .. m : m \in T}
<1> DEFINE R == StrictSubsetOrdering(Nat)
<1>1. IsWellFoundedOn(R, FiniteSubsetsOf(Nat))
  BY FS_StrictSubsetOrderingWellFounded
<1>2. U \subseteq FiniteSubsetsOf(Nat) /\ U # {}
  <2>1. ASSUME NEW m \in T PROVE 0 .. m \in FiniteSubsetsOf(Nat)
    <3>1. 0 \in Int /\ m \in Int /\ 0 .. m \subseteq Nat
      OBVIOUS
    <3> QED
      BY <3>1, FS_Interval DEF FiniteSubsetsOf
  <2> QED
    BY <2>1
<1>3. \A k, m \in T : k < m => <<0 .. k, 0 .. m>> \in R
  <2> SUFFICES ASSUME NEW k \in T, NEW m \in T, k < m PROVE <<0 .. k, 0 .. m>> \in R
    OBVIOUS
  <2>1. 0 .. k \in SUBSET Nat /\ 0 .. m \in SUBSET Nat /\ 0 .. k \subseteq 0 .. m
    OBVIOUS
  <2>2. m \in 0 .. m /\ m \notin 0 .. k
    OBVIOUS
  <2> QED
    BY <2>1, <2>2 DEF StrictSubsetOrdering
<1> HIDE DEF R
<1>4. PICK u \in U : \A v \in U : ~ (<<v, u>> \in R)
  <2> HIDE DEF U
  <2> QED BY <1>1, <1>2, WFMin
<1>5. PICK m \in T : u = 0 .. m
  BY <1>4
<1>6. \A k \in T : 0 .. k \in U
  OBVIOUS
<1>7. \A k \in T : ~ (k < m)
  BY <1>3, <1>4, <1>5, <1>6
<1> QED
  BY <1>7

\* Induction, for a set in the place of a predicate.
LEMMA SetInduction ==
  ASSUME NEW S, 0 \in S, \A n \in Nat : n \in S => n + 1 \in S
  PROVE  Nat \subseteq S
<1> SUFFICES ASSUME Nat \ S # {} PROVE FALSE
  OBVIOUS
<1>1. PICK m \in Nat \ S : \A y \in Nat \ S : m <= y
  BY LeastNat
<1>2. m # 0 /\ m - 1 \in Nat /\ m - 1 < m
  BY <1>1
<1>3. m - 1 \in S /\ (m - 1) + 1 = m
  BY <1>1, <1>2
<1> QED
  BY <1>1, <1>2, <1>3

\* g has the values that F makes of a, one after the other, up to the n-th.
Unfolds(g, n, S, a, F) ==
  g \in [0 .. n -> S] /\ g[0] = a /\ \A k \in 1 .. n : g[k] = F[<<g[k - 1], k>>]

\* There is such a function: what a recursive definition says has a solution.
LEMMA Recursion ==
  ASSUME NEW S, NEW a \in S, NEW n \in Nat, NEW F \in [S \X (1 .. n) -> S]
  PROVE  \E g : Unfolds(g, n, S, a, F)
<1> DEFINE Upto(k) == {g \in [0 .. k -> S] : g[0] = a /\ \A i \in 1 .. k : g[i] = F[<<g[i - 1], i>>]}
           T == {k \in Nat : k <= n => Upto(k) # {}}
<1>1. 0 \in T
  <2>1. [i \in 0 .. 0 |-> a] \in Upto(0)
    OBVIOUS
  <2> QED
    BY <2>1
<1>2. ASSUME NEW k \in Nat, k \in T PROVE k + 1 \in T
  <2> SUFFICES ASSUME k + 1 <= n PROVE Upto(k + 1) # {}
    OBVIOUS
  <2>1. PICK g \in [0 .. k -> S] : g[0] = a /\ \A i \in 1 .. k : g[i] = F[<<g[i - 1], i>>]
    BY <1>2
  <2> DEFINE h == [i \in 0 .. (k + 1) |-> IF i = k + 1 THEN F[<<g[k], k + 1>>] ELSE g[i]]
  <2>2. F[<<g[k], k + 1>>] \in S
    BY <2>1
  <2>3. h \in [0 .. (k + 1) -> S]
    BY <2>1, <2>2
  <2>4. h[0] = a
    BY <2>1
  <2>5. ASSUME NEW i \in 1 .. (k + 1) PROVE h[i] = F[<<h[i - 1], i>>]
    <3>1. i - 1 \in 0 .. k /\ h[i - 1] = g[i - 1]
      OBVIOUS
    <3>2. CASE i = k + 1
      <4>1. h[k] = g[k] /\ i - 1 = k /\ h[i] = F[<<g[k], k + 1>>]
        BY <3>2
      <4> QED
        BY <4>1, <3>2
    <3>3. CASE i \in 1 .. k
      BY <3>1, <3>3, <2>1
    <3> QED
      BY <3>2, <3>3
  <2> HIDE DEF h
  <2>6. h \in Upto(k + 1)
    BY <2>3, <2>4, <2>5
  <2> QED
    BY <2>6
<1> HIDE DEF T
<1>3. Nat \subseteq T
  BY <1>1, <1>2, SetInduction
<1> USE DEF T
<1>4. Upto(n) # {}
  BY <1>3
<1> QED
  BY <1>4 DEF Unfolds

\* Sum(f) is the last of the partial sums of f.
LEMMA SumDef ==
  ASSUME NEW f \in Seq(Nat)
  PROVE  \E s \in [0 .. Len(f) -> Nat] :
           /\ s[0] = 0
           /\ \A k \in 1 .. Len(f) : s[k] = s[k - 1] + f[k]
           /\ Sum(f) = s[Len(f)]
<1> DEFINE n == Len(f)
           F == [p \in Nat \X (1 .. n) |-> p[1] + f[p[2]]]
<1>1. n \in Nat /\ \A k \in 1 .. n : f[k] \in Nat
  OBVIOUS
<1>2. F \in [Nat \X (1 .. n) -> Nat]
  BY <1>1
<1> HIDE DEF F
<1>3. \E g : Unfolds(g, n, Nat, 0, F)
  BY <1>1, <1>2, 0 \in Nat, Recursion, Zenon
<1>4. PICK g \in [0 .. n -> Nat] : g[0] = 0 /\ \A k \in 1 .. n : g[k] = F[<<g[k - 1], k>>]
  BY <1>3 DEF Unfolds
<1> USE DEF F
<1>5. ASSUME NEW k \in 1 .. n PROVE g[k] = g[k - 1] + f[k]
  <2>1. k - 1 \in 0 .. n
    BY <1>1
  <2> QED
    BY <1>1, <1>4, <2>1
<1> DEFINE Is(h) == h = [k \in 0 .. n |-> IF k = 0 THEN 0 ELSE h[k - 1] + f[k]]
           s == CHOOSE h : Is(h)
<1>6. Is(g)
  BY <1>4, <1>5
<1>7. Is(s)
  BY <1>6
<1>8. Sum(f) = s[n]
  BY DEF Sum
<1> HIDE DEF s
<1>9. \A k \in 0 .. n : s[k] = IF k = 0 THEN 0 ELSE s[k - 1] + f[k]
  BY <1>7
<1>10. s = g
  <2> DEFINE T == {k \in Nat : k <= n => s[k] = g[k]}
  <2>1. 0 \in T
    BY <1>1, <1>4, <1>9
  <2>2. \A k \in Nat : k \in T => k + 1 \in T
    BY <1>1, <1>5, <1>9
  <2> HIDE DEF T
  <2>3. Nat \subseteq T
    BY <2>1, <2>2, SetInduction
  <2>4. \A k \in 0 .. n : s[k] = g[k]
    BY <1>1, <2>3 DEF T
  <2>5. DOMAIN s = 0 .. n /\ s = [k \in DOMAIN s |-> s[k]]
    BY <1>7
  <2> QED
    BY <2>4, <2>5
<1> QED
  BY <1>4, <1>5, <1>8, <1>10

\* Sums of numbers are numbers, and grow with what is added up.
LEMMA SumMonotone ==
  ASSUME NEW f \in Seq(Nat), NEW g \in Seq(Nat), Len(f) = Len(g),
         \A k \in 1 .. Len(f) : f[k] <= g[k]
  PROVE  Sum(f) \in Nat /\ Sum(g) \in Nat /\ Sum(f) <= Sum(g)
<1> DEFINE n == Len(f)
<1>0. n \in Nat /\ \A k \in 1 .. n : f[k] \in Nat /\ g[k] \in Nat
  OBVIOUS
<1>1. PICK s \in [0 .. n -> Nat] :
        s[0] = 0 /\ (\A k \in 1 .. n : s[k] = s[k - 1] + f[k]) /\ Sum(f) = s[n]
  BY SumDef
<1>2. PICK t \in [0 .. n -> Nat] :
        t[0] = 0 /\ (\A k \in 1 .. n : t[k] = t[k - 1] + g[k]) /\ Sum(g) = t[n]
  BY SumDef
<1> DEFINE T == {k \in Nat : k <= n => s[k] <= t[k]}
<1>3. 0 \in T
  BY <1>1, <1>2
<1>4. ASSUME NEW k \in Nat, k \in T PROVE k + 1 \in T
  <2> SUFFICES ASSUME k + 1 <= n PROVE s[k + 1] <= t[k + 1]
    OBVIOUS
  <2>1. k + 1 \in 1 .. n /\ (k + 1) - 1 = k /\ k \in 0 .. n /\ s[k] <= t[k]
    BY <1>0, <1>4
  <2>2. s[k + 1] = s[k] + f[k + 1] /\ t[k + 1] = t[k] + g[k + 1]
    BY <1>1, <1>2, <2>1
  <2>3. s[k] \in Nat /\ t[k] \in Nat /\ f[k + 1] \in Nat /\ g[k + 1] \in Nat /\ f[k + 1] <= g[k + 1]
    BY <1>0, <2>1
  <2> QED
    BY <2>1, <2>2, <2>3
<1> HIDE DEF T
<1>5. Nat \subseteq T
  BY <1>3, <1>4, SetInduction
<1> QED
  BY <1>0, <1>1, <1>2, <1>5 DEF T

\* A sum grows by as much as one of its terms.
LEMMA SumPoint ==
  ASSUME NEW f \in Seq(Nat), NEW g \in Seq(Nat), Len(f) = Len(g),
         NEW i \in 1 .. Len(f), NEW d \in Nat, g[i] = f[i] + d,
         \A k \in 1 .. Len(f) : k # i => g[k] = f[k]
  PROVE  Sum(g) = Sum(f) + d
<1> DEFINE n == Len(f)
<1>0. n \in Nat /\ i \in 1 .. n /\ d \in Nat /\ \A k \in 1 .. n : f[k] \in Nat /\ g[k] \in Nat
  OBVIOUS
<1>1. PICK s \in [0 .. n -> Nat] :
        s[0] = 0 /\ (\A k \in 1 .. n : s[k] = s[k - 1] + f[k]) /\ Sum(f) = s[n]
  BY SumDef
<1>2. PICK t \in [0 .. n -> Nat] :
        t[0] = 0 /\ (\A k \in 1 .. n : t[k] = t[k - 1] + g[k]) /\ Sum(g) = t[n]
  BY SumDef
<1> DEFINE T == {k \in Nat : k <= n => (i <= k => t[k] = s[k] + d) /\ (k < i => t[k] = s[k])}
<1>3. 0 \in T
  BY <1>1, <1>2
<1>4. ASSUME NEW k \in Nat, k \in T PROVE k + 1 \in T
  <2> SUFFICES ASSUME k + 1 <= n 
            PROVE  /\ i <= k + 1 => t[k + 1] = s[k + 1] + d
                   /\ k + 1 < i => t[k + 1] = s[k + 1]
    OBVIOUS
  <2>1. /\ k + 1 \in 1 .. n /\ (k + 1) - 1 = k /\ k \in 0 .. n
        /\ (i <= k => t[k] = s[k] + d) /\ (k < i => t[k] = s[k])
    BY <1>0, <1>4
  <2>2. s[k + 1] = s[k] + f[k + 1] /\ t[k + 1] = t[k] + g[k + 1]
    BY <1>1, <1>2, <2>1
  <2>3. s[k] \in Nat /\ t[k] \in Nat /\ f[k + 1] \in Nat /\ g[k + 1] \in Nat
    BY <1>0, <2>1
  <2>4. CASE i = k + 1
    <3>1. g[k + 1] = f[k + 1] + d
      BY <2>4
    <3>2. t[k] = s[k]
      BY <1>0, <2>1, <2>4
    <3> QED
      BY <1>0, <2>2, <2>3, <2>4, <3>1, <3>2
  <2>5. CASE i # k + 1
    <3>1. g[k + 1] = f[k + 1] /\ (i <= k <=> i <= k + 1) /\ (k < i <=> k + 1 < i)
      BY <1>0, <2>1, <2>5
    <3> QED
      BY <1>0, <2>1, <2>2, <2>3, <3>1
  <2> QED
    BY <2>4, <2>5
<1> HIDE DEF T
<1>5. Nat \subseteq T
  BY <1>3, <1>4, SetInduction
<1>6. t[n] = s[n] + d
  BY <1>0, <1>5 DEF T
<1> QED
  BY <1>0, <1>1, <1>2, <1>6

\* Nothing adds up to nothing.
LEMMA SumZero ==
  ASSUME NEW f \in Seq(Nat), \A k \in 1 .. Len(f) : f[k] = 0
  PROVE  Sum(f) = 0
<1> DEFINE n == Len(f)
<1>1. PICK s \in [0 .. n -> Nat] :
        s[0] = 0 /\ (\A k \in 1 .. n : s[k] = s[k - 1] + f[k]) /\ Sum(f) = s[n]
  BY SumDef
<1> DEFINE T == {k \in Nat : k <= n => s[k] = 0}
<1>2. 0 \in T
  BY <1>1
<1>3. ASSUME NEW k \in Nat, k \in T PROVE k + 1 \in T
  <2> SUFFICES ASSUME k + 1 <= n PROVE s[k + 1] = 0
    OBVIOUS
  <2>1. k + 1 \in 1 .. n /\ (k + 1) - 1 = k /\ s[k] = 0
    BY <1>3
  <2> QED
    BY <1>1, <2>1
<1> HIDE DEF T
<1>4. Nat \subseteq T
  BY <1>2, <1>3, SetInduction
<1> QED
  BY <1>1, <1>4 DEF T

-----------------------------------------------------------------------------
\* Characters: one term for each line.
Terms(lines, P, more) == [i \in DOMAIN lines |-> IF i \in P THEN Size[lines[i]] + more ELSE 0]

\* A number of characters is the sum of its terms.
LEMMA TermsType ==
  ASSUME NEW lines \in Seq(Notes), NEW P, NEW more \in Nat
  PROVE  /\ Terms(lines, P, more) \in Seq(Nat)
         /\ Len(Terms(lines, P, more)) = Len(lines)
         /\ DOMAIN lines = 1 .. Len(lines)
         /\ \A i \in 1 .. Len(lines) : Size[lines[i]] \in Nat /\ Size[lines[i]] > 0
         /\ Chars(lines, P, more) = Sum(Terms(lines, P, more))
         /\ Chars(lines, P, more) \in Nat
<1>1. /\ Len(lines) \in Nat /\ DOMAIN lines = 1 .. Len(lines)
      /\ \A i \in 1 .. Len(lines) : lines[i] \in Notes
  OBVIOUS
<1>2. \A i \in 1 .. Len(lines) : Size[lines[i]] \in Nat /\ Size[lines[i]] > 0
  BY <1>1, MemoryAssumption
<1>3. Terms(lines, P, more) \in [1 .. Len(lines) -> Nat]
  BY <1>1, <1>2 DEF Terms
<1>4. Terms(lines, P, more) \in Seq(Nat) /\ Len(Terms(lines, P, more)) = Len(lines)
  BY <1>1, <1>3
<1>5. Chars(lines, P, more) = Sum(Terms(lines, P, more))
  BY DEF Chars, Terms
<1>6. Sum(Terms(lines, P, more)) \in Nat
  <2> DEFINE f == Terms(lines, P, more)
  <2>1. \A k \in 1 .. Len(f) : f[k] <= f[k]
    BY <1>3, <1>4
  <2> HIDE DEF f
  <2>2. f \in Seq(Nat)
    BY <1>4 DEF f
  <2>3. Sum(f) \in Nat
    BY <2>1, <2>2, SumMonotone
  <2> QED
    BY <2>3 DEF f
<1> QED
  BY <1>1, <1>2, <1>4, <1>5, <1>6

\* More positions, and more between them, are not fewer characters.
LEMMA CharsMonotone ==
  ASSUME NEW lines \in Seq(Notes), NEW P, NEW R, P \subseteq R,
         NEW less \in Nat, NEW more \in Nat, less <= more
  PROVE  Chars(lines, P, less) <= Chars(lines, R, more)
<1> DEFINE f == Terms(lines, P, less)
           g == Terms(lines, R, more)
<1>1. /\ f \in Seq(Nat) /\ g \in Seq(Nat) /\ Len(f) = Len(g) /\ Len(f) = Len(lines)
      /\ DOMAIN lines = 1 .. Len(lines)
      /\ \A i \in 1 .. Len(lines) : Size[lines[i]] \in Nat
      /\ Chars(lines, P, less) = Sum(f) /\ Chars(lines, R, more) = Sum(g)
  BY TermsType
<1>2. \A k \in 1 .. Len(f) : f[k] <= g[k]
  BY <1>1 DEF Terms
<1> HIDE DEF f, g
<1>3. Sum(f) <= Sum(g)
  BY <1>1, <1>2, SumMonotone
<1> QED
  BY <1>1, <1>3

\* One more position is its line more.
LEMMA CharsPlus ==
  ASSUME NEW lines \in Seq(Notes), NEW P, NEW more \in Nat, NEW i \in DOMAIN lines, i \notin P
  PROVE  Chars(lines, P \cup {i}, more) = Chars(lines, P, more) + (Size[lines[i]] + more)
<1> DEFINE f == Terms(lines, P, more)
           g == Terms(lines, P \cup {i}, more)
           d == Size[lines[i]] + more
<1>1. /\ f \in Seq(Nat) /\ g \in Seq(Nat) /\ Len(f) = Len(g) /\ Len(f) = Len(lines)
      /\ DOMAIN lines = 1 .. Len(lines)
      /\ \A k \in 1 .. Len(lines) : Size[lines[k]] \in Nat
      /\ Chars(lines, P, more) = Sum(f) /\ Chars(lines, P \cup {i}, more) = Sum(g)
  BY TermsType
<1>2. d \in Nat /\ i \in 1 .. Len(f)
  BY <1>1
<1>3. g[i] = f[i] + d /\ \A k \in 1 .. Len(f) : k # i => g[k] = f[k]
  BY <1>1, <1>2 DEF Terms
<1> HIDE DEF f, g, d
<1>4. Sum(g) = Sum(f) + d
  BY <1>1, <1>2, <1>3, SumPoint
<1> QED
  BY <1>1, <1>4 DEF d

\* No positions have no characters.
LEMMA CharsNone ==
  ASSUME NEW lines \in Seq(Notes), NEW more \in Nat
  PROVE  Chars(lines, {}, more) = 0
<1> DEFINE f == Terms(lines, {}, more)
<1>1. /\ f \in Seq(Nat) /\ Len(f) = Len(lines) /\ DOMAIN lines = 1 .. Len(lines)
      /\ Chars(lines, {}, more) = Sum(f)
  BY TermsType
<1>2. \A k \in 1 .. Len(f) : f[k] = 0
  BY <1>1 DEF Terms
<1> HIDE DEF f
<1> QED
  BY <1>1, <1>2, SumZero

-----------------------------------------------------------------------------
\* The lines are ranked: each has a rank of its own, and none has more words of
\* the request than one that is ranked before it.
LEMMA UpToChain ==
  ASSUME NEW q \in Queries, NEW lines \in Seq(Notes), NEW i \in DOMAIN lines, NEW j \in DOMAIN lines
  PROVE  /\ i \in UpTo(q, lines, i)
         /\ UpTo(q, lines, i) \subseteq 1 .. Len(lines)
         /\ i \in UpTo(q, lines, j) => UpTo(q, lines, i) \subseteq UpTo(q, lines, j)
         /\ i \in UpTo(q, lines, j) \/ j \in UpTo(q, lines, i)
         /\ i \in UpTo(q, lines, j) /\ j \in UpTo(q, lines, i) => i = j
         /\ i \in UpTo(q, lines, j) => Overlap[q][lines[i]] >= Overlap[q][lines[j]]
<1>1. DOMAIN lines = 1 .. Len(lines) /\ Len(lines) \in Nat /\ \A k \in DOMAIN lines : lines[k] \in Notes
  OBVIOUS
<1> DEFINE W(k) == Overlap[q][lines[k]]
<1>2. \A k \in DOMAIN lines : W(k) \in Nat
  BY <1>1, MemoryAssumption
<1>3. \A k \in DOMAIN lines : UpTo(q, lines, k) =
        {l \in DOMAIN lines : W(l) > W(k) \/ (W(l) = W(k) /\ l <= k)}
  BY DEF UpTo
<1> HIDE DEF W
<1>4. \A k \in DOMAIN lines : k \in Nat
  BY <1>1
<1>5. i \in UpTo(q, lines, j) => UpTo(q, lines, i) \subseteq UpTo(q, lines, j)
  BY <1>2, <1>3, <1>4
<1>6. i \in UpTo(q, lines, j) => W(i) >= W(j)
  BY <1>2, <1>3
<1>7. UpTo(q, lines, i) \subseteq 1 .. Len(lines)
  BY <1>1, <1>3
<1>8. /\ i \in UpTo(q, lines, i)
      /\ i \in UpTo(q, lines, j) \/ j \in UpTo(q, lines, i)
      /\ i \in UpTo(q, lines, j) /\ j \in UpTo(q, lines, i) => i = j
  BY <1>2, <1>3, <1>4
<1> QED
  BY <1>5, <1>6, <1>7, <1>8 DEF W

\* The ranks are a permutation of the lines along which overlaps do not grow.
LEMMA RankedFacts ==
  ASSUME NEW q \in Queries, NEW lines \in Seq(Notes)
  PROVE  /\ Ranked(q, lines) \in [1 .. Len(lines) -> 1 .. Len(lines)]
         /\ \A i \in 1 .. Len(lines) : \E k \in 1 .. Len(lines) : Ranked(q, lines)[k] = i
         /\ \A j, k \in 1 .. Len(lines) : Ranked(q, lines)[j] = Ranked(q, lines)[k] => j = k
         /\ \A j, k \in 1 .. Len(lines) : j <= k =>
              Overlap[q][lines[Ranked(q, lines)[j]]] >= Overlap[q][lines[Ranked(q, lines)[k]]]
<1> DEFINE n == Len(lines)
           U(i) == UpTo(q, lines, i)
           W(i) == Overlap[q][lines[i]]
           r == [i \in 1 .. n |-> Cardinality(U(i))]
           R == Ranked(q, lines)
<1>1. n \in Nat /\ DOMAIN lines = 1 .. n /\ \A k \in 1 .. n : lines[k] \in Notes
  OBVIOUS
<1>2. \A k \in 1 .. n : W(k) \in Nat
  BY <1>1, MemoryAssumption
<1>3. \A i, j \in 1 .. n :
        /\ i \in U(i) /\ U(i) \subseteq 1 .. n
        /\ i \in U(j) => U(i) \subseteq U(j)
        /\ i \in U(j) \/ j \in U(i)
        /\ i \in U(j) /\ j \in U(i) => i = j
        /\ i \in U(j) => W(i) >= W(j)
  BY <1>1, UpToChain
<1>4. IsFiniteSet(1 .. n) /\ Cardinality(1 .. n) = n
  <2>1. 1 \in Int /\ n \in Int /\ (IF 1 > n THEN 0 ELSE n - 1 + 1) = n
    BY <1>1
  <2> HIDE DEF n
  <2> QED
    BY <2>1, FS_Interval
<1>5. R = [k \in 1 .. n |-> CHOOSE i \in 1 .. n : Cardinality(U(i)) = k]
  BY <1>1 DEF Ranked
<1> HIDE DEF U, W, R
<1>6. \A i \in 1 .. n : IsFiniteSet(U(i)) /\ Cardinality(U(i)) \in 1 .. n
  <2> SUFFICES ASSUME NEW i \in 1 .. n PROVE IsFiniteSet(U(i)) /\ Cardinality(U(i)) \in 1 .. n
    OBVIOUS
  <2>1. U(i) \in SUBSET (1 .. n) /\ U(i) # {}
    BY <1>3
  <2>2. IsFiniteSet(U(i)) /\ Cardinality(U(i)) <= n
    BY <1>4, <2>1, FS_Subset
  <2>3. Cardinality(U(i)) \in Nat /\ Cardinality(U(i)) # 0
    BY <2>1, <2>2, FS_EmptySet, FS_CardinalityType
  <2> QED
    BY <1>1, <2>2, <2>3
<1>7. r \in [1 .. n -> 1 .. n]
  BY <1>6
<1>8. ASSUME NEW i \in 1 .. n, NEW j \in 1 .. n, r[i] = r[j], i \in U(j) PROVE i = j
  <2>1. U(i) \in SUBSET U(j)
    BY <1>3, <1>8
  <2>2. Cardinality(U(j)) = Cardinality(U(i))
    BY <1>8
  <2>3. U(j) = U(i)
    BY <1>6, <2>1, <2>2, FS_Subset
  <2> QED
    BY <1>3, <1>8, <2>3
<1>9. \A i, j \in 1 .. n : r[i] = r[j] => i = j
  BY <1>3, <1>8
<1>10. \A k \in 1 .. n : \E i \in 1 .. n : r[i] = k
  <2> HIDE DEF r, n
  <2>1. r \in Injection(1 .. n, 1 .. n)
    BY <1>7, <1>9 DEF Injection, IsInjective
  <2>2. r \in Surjection(1 .. n, 1 .. n)
    BY <1>4, <2>1, FS_Injection
  <2> QED
    BY <2>2 DEF Surjection
<1>11. \A k \in 1 .. n : R[k] \in 1 .. n /\ r[R[k]] = k
  <2> SUFFICES ASSUME NEW k \in 1 .. n PROVE R[k] \in 1 .. n /\ r[R[k]] = k
    OBVIOUS
  <2>1. \E i \in 1 .. n : Cardinality(U(i)) = k
    BY <1>10
  <2>2. R[k] = CHOOSE i \in 1 .. n : Cardinality(U(i)) = k
    BY <1>5
  <2>3. R[k] \in 1 .. n /\ Cardinality(U(R[k])) = k
    BY <2>1, <2>2
  <2> QED
    BY <2>3
<1>12. ASSUME NEW j \in 1 .. n, NEW k \in 1 .. n, j <= k PROVE W(R[j]) >= W(R[k])
  <2>1. R[j] \in 1 .. n /\ R[k] \in 1 .. n /\ Cardinality(U(R[j])) = j /\ Cardinality(U(R[k])) = k
    BY <1>11
  <2>2. CASE R[j] \in U(R[k])
    BY <1>3, <2>1, <2>2
  <2>3. CASE R[k] \in U(R[j])
    <3>1. U(R[k]) \in SUBSET U(R[j])
      BY <1>3, <2>1, <2>3
    <3>2. Cardinality(U(R[k])) <= Cardinality(U(R[j]))
      BY <1>6, <2>1, <3>1, FS_Subset
    <3>3. j = k
      BY <1>12, <2>1, <3>2
    <3> QED
      BY <1>2, <2>1, <3>3
  <2> QED
    BY <1>3, <2>1, <2>2, <2>3
<1>13. R \in [1 .. n -> 1 .. n]
  BY <1>5, <1>11
<1>14. \A i \in 1 .. n : \E k \in 1 .. n : R[k] = i
  BY <1>7, <1>9, <1>11
<1>15. \A j, k \in 1 .. n : R[j] = R[k] => j = k
  BY <1>11
<1> QED
  BY <1>12, <1>13, <1>14, <1>15 DEF W, R

-----------------------------------------------------------------------------
\* The loop of _filter_relevant: what it goes by, and what it keeps.
Loops(lines) == [kept : SUBSET (1 .. Len(lines)), budget : Nat, full : BOOLEAN]

LoopStart(budget) == [kept |-> {}, budget |-> budget, full |-> FALSE]

FirstOf(q, lines, m) == {Ranked(q, lines)[j] : j \in 1 .. m}

\* What one turn of the loop does: it ends the loop or keeps the line.
LEMMA TakeFacts ==
  ASSUME NEW lines \in Seq(Notes), NEW s \in Loops(lines), NEW i \in 1 .. Len(lines)
  PROVE  /\ Take(lines, s, i) \in Loops(lines)
         /\ s.full \/ s.budget <= Size[lines[i]] =>
              Take(lines, s, i) = [kept |-> s.kept, budget |-> s.budget, full |-> TRUE]
         /\ ~ (s.full \/ s.budget <= Size[lines[i]]) =>
              Take(lines, s, i) = [kept |-> s.kept \cup {i}, full |-> FALSE,
                                   budget |-> s.budget - (Size[lines[i]] + 1)]
<1>1. Size[lines[i]] \in Nat
  BY TermsType, 0 \in Nat
<1>2. /\ s.kept \in SUBSET (1 .. Len(lines)) /\ s.budget \in Nat /\ s.full \in BOOLEAN
      /\ s = [kept |-> s.kept, budget |-> s.budget, full |-> s.full]
  BY DEF Loops
<1>3. CASE s.full \/ s.budget <= Size[lines[i]]
  <2>1. Take(lines, s, i) = [kept |-> s.kept, budget |-> s.budget, full |-> TRUE]
    BY <1>2, <1>3 DEF Take
  <2> QED
    BY <1>2, <1>3, <2>1 DEF Loops
<1>4. CASE ~ (s.full \/ s.budget <= Size[lines[i]])
  <2>1. Take(lines, s, i) = [kept |-> s.kept \cup {i}, full |-> FALSE,
                             budget |-> s.budget - (Size[lines[i]] + 1)]
    BY <1>2, <1>4 DEF Take
  <2>2. s.budget - (Size[lines[i]] + 1) \in Nat
    BY <1>1, <1>2, <1>4
  <2> QED
    BY <1>2, <1>4, <2>1, <2>2 DEF Loops
<1> QED
  BY <1>3, <1>4

\* The loop passes from line to line in the order of their ranks.
LEMMA KeepDef ==
  ASSUME NEW q \in Queries, NEW lines \in Seq(Notes), NEW budget \in Nat
  PROVE  \E g \in [0 .. Len(lines) -> Loops(lines)] :
           /\ g[0] = LoopStart(budget)
           /\ \A k \in 1 .. Len(lines) : g[k] = Take(lines, g[k - 1], Ranked(q, lines)[k])
           /\ Keep(q, lines, budget) = g[Len(lines)]
<1> DEFINE n == Len(lines)
           S == Loops(lines)
           a == LoopStart(budget)
           R == Ranked(q, lines)
           F == [p \in S \X (1 .. n) |-> Take(lines, p[1], R[p[2]])]
<1>1. n \in Nat /\ R \in [1 .. n -> 1 .. n] /\ a \in S
  BY RankedFacts DEF Loops, LoopStart
<1>2. F \in [S \X (1 .. n) -> S]
  <2> SUFFICES ASSUME NEW p \in S \X (1 .. n) PROVE Take(lines, p[1], R[p[2]]) \in S
    OBVIOUS
  <2>1. p[1] \in S /\ R[p[2]] \in 1 .. n
    BY <1>1
  <2> QED
    BY <2>1, TakeFacts
<1> HIDE DEF F, S, a, R
<1>3. \E g : Unfolds(g, n, S, a, F)
  BY <1>1, <1>2, Recursion, Zenon
<1>4. PICK g \in [0 .. n -> S] : g[0] = a /\ \A k \in 1 .. n : g[k] = F[<<g[k - 1], k>>]
  BY <1>3 DEF Unfolds
<1>5. ASSUME NEW k \in 1 .. n PROVE g[k] = Take(lines, g[k - 1], R[k])
  <2>1. k - 1 \in 0 .. n
    BY <1>1
  <2>2. g[k - 1] \in S
    BY <1>4, <2>1
  <2>3. <<g[k - 1], k>> \in S \X (1 .. n)
    BY <2>2
  <2>4. F[<<g[k - 1], k>>] = Take(lines, g[k - 1], R[k])
    BY <2>3 DEF F
  <2> QED
    BY <1>4, <2>4
<1> DEFINE Is(h) == h = [k \in 0 .. n |-> IF k = 0 THEN a ELSE Take(lines, h[k - 1], R[k])]
           s == CHOOSE h : Is(h)
<1>6. Is(g)
  BY <1>1, <1>4, <1>5
<1>7. Is(s)
  BY <1>6
<1>8. Keep(q, lines, budget) = s[n]
  BY DEF Keep, a, R, LoopStart
<1> HIDE DEF s
<1>9. \A k \in 0 .. n : s[k] = IF k = 0 THEN a ELSE Take(lines, s[k - 1], R[k])
  BY <1>7
<1>10. s = g
  <2> DEFINE T == {k \in Nat : k <= n => s[k] = g[k]}
  <2>1. 0 \in T
    BY <1>1, <1>4, <1>9
  <2>2. ASSUME NEW k \in Nat, k \in T PROVE k + 1 \in T
    <3> SUFFICES ASSUME k + 1 <= n PROVE s[k + 1] = g[k + 1]
      OBVIOUS
    <3>1. k + 1 \in 1 .. n /\ k + 1 \in 0 .. n /\ k + 1 # 0 /\ (k + 1) - 1 = k /\ s[k] = g[k]
      BY <1>1, <2>2
    <3>2. s[k + 1] = Take(lines, s[k], R[k + 1])
      BY <1>9, <3>1
    <3>3. g[k + 1] = Take(lines, g[k], R[k + 1])
      BY <1>5, <3>1
    <3> QED
      BY <3>1, <3>2, <3>3
  <2> HIDE DEF T
  <2>3. Nat \subseteq T
    BY <2>1, <2>2, SetInduction
  <2>4. \A k \in 0 .. n : s[k] = g[k]
    BY <1>1, <2>3 DEF T
  <2>5. DOMAIN s = 0 .. n /\ s = [k \in DOMAIN s |-> s[k]]
    BY <1>7
  <2> QED
    BY <1>4, <2>4, <2>5
<1> QED
  BY <1>4, <1>5, <1>8, <1>10 DEF S, a, R

\* It keeps the lines up to a rank, which are as long as what it takes from the
\* budget, and stops only before a line for which the rest is too small.
LEMMA KeepFacts ==
  ASSUME NEW q \in Queries, NEW lines \in Seq(Notes), NEW budget \in Nat
  PROVE  \E m \in 0 .. Len(lines) :
           /\ Keep(q, lines, budget).kept = FirstOf(q, lines, m)
           /\ Keep(q, lines, budget).budget \in Nat
           /\ Keep(q, lines, budget).budget + Chars(lines, FirstOf(q, lines, m), 1) = budget
           /\ m < Len(lines) =>
                Keep(q, lines, budget).budget <= Size[lines[Ranked(q, lines)[m + 1]]]
<1> DEFINE n == Len(lines)
           R == Ranked(q, lines)
           C(m) == Chars(lines, FirstOf(q, lines, m), 1)
           Prefix(s, k, m) ==
             /\ s.kept = FirstOf(q, lines, m)
             /\ s.budget + C(m) = budget
             /\ IF s.full THEN m < k /\ s.budget <= Size[lines[R[m + 1]]] ELSE m = k
<1>1. /\ n \in Nat /\ R \in [1 .. n -> 1 .. n]
      /\ \A j, k \in 1 .. n : R[j] = R[k] => j = k
      /\ DOMAIN lines = 1 .. n
      /\ \A i \in 1 .. n : Size[lines[i]] \in Nat
  <2>1. /\ n \in Nat /\ R \in [1 .. n -> 1 .. n]
        /\ \A j, k \in 1 .. n : R[j] = R[k] => j = k
    BY RankedFacts
  <2>2. DOMAIN lines = 1 .. n /\ \A i \in 1 .. n : Size[lines[i]] \in Nat
    BY TermsType, 0 \in Nat
  <2> QED
    BY <2>1, <2>2
<1>2. PICK g \in [0 .. n -> Loops(lines)] :
        /\ g[0] = LoopStart(budget)
        /\ \A k \in 1 .. n : g[k] = Take(lines, g[k - 1], R[k])
        /\ Keep(q, lines, budget) = g[n]
  BY KeepDef
<1>3. \A m : C(m) \in Nat
  BY TermsType, 1 \in Nat
<1>4. ASSUME NEW m \in 0 .. n, m < n
      PROVE  C(m + 1) = C(m) + (Size[lines[R[m + 1]]] + 1)
             /\ FirstOf(q, lines, m + 1) = FirstOf(q, lines, m) \cup {R[m + 1]}
  <2>1. m + 1 \in 1 .. n /\ R[m + 1] \in DOMAIN lines
    BY <1>1, <1>4
  <2>2. FirstOf(q, lines, m + 1) = FirstOf(q, lines, m) \cup {R[m + 1]}
    <3>1. 1 .. (m + 1) = (1 .. m) \cup {m + 1}
      BY <1>4
    <3> HIDE DEF R
    <3> QED
      BY <3>1 DEF FirstOf, R
  <2>3. R[m + 1] \notin FirstOf(q, lines, m)
    BY <1>1, <1>4, <2>1 DEF FirstOf
  <2> HIDE DEF R
  <2>4. Chars(lines, FirstOf(q, lines, m) \cup {R[m + 1]}, 1) = C(m) + (Size[lines[R[m + 1]]] + 1)
    BY <2>1, <2>3, CharsPlus, 1 \in Nat
  <2> QED
    BY <2>2, <2>4
<1> DEFINE T == {k \in Nat : k <= n => \E m \in 0 .. k : Prefix(g[k], k, m)}
<1> HIDE DEF C, R
<1>5. 0 \in T
  <2>1. FirstOf(q, lines, 0) = {}
    BY DEF FirstOf
  <2>2. C(0) = 0
    BY <2>1, CharsNone, 1 \in Nat DEF C
  <2>3. Prefix(LoopStart(budget), 0, 0)
    BY <2>1, <2>2 DEF LoopStart
  <2> QED
    BY <1>2, <2>3
<1>6. ASSUME NEW k \in Nat, k \in T PROVE k + 1 \in T
  <2> SUFFICES ASSUME k + 1 <= n PROVE \E m \in 0 .. (k + 1) : Prefix(g[k + 1], k + 1, m)
    OBVIOUS
  <2>1. k + 1 \in 1 .. n /\ (k + 1) - 1 = k /\ k \in 0 .. n
    BY <1>1
  <2>2. PICK m \in 0 .. k : Prefix(g[k], k, m)
    BY <1>1, <1>6
  <2>3. g[k] \in Loops(lines) /\ R[k + 1] \in 1 .. n /\ g[k + 1] = Take(lines, g[k], R[k + 1])
    BY <1>1, <1>2, <2>1
  <2>4. g[k].budget \in Nat /\ g[k].full \in BOOLEAN
    BY <2>3 DEF Loops
  <2>5. CASE g[k].full \/ g[k].budget <= Size[lines[R[k + 1]]]
    <3>1. g[k + 1] = [kept |-> g[k].kept, budget |-> g[k].budget, full |-> TRUE]
      BY <2>3, <2>5, TakeFacts
    <3>2. m < k + 1 /\ g[k].budget <= Size[lines[R[m + 1]]]
      BY <2>2, <2>4, <2>5
    <3>3. Prefix(g[k + 1], k + 1, m)
      BY <2>2, <3>1, <3>2
    <3> QED
      BY <3>2, <3>3
  <2>6. CASE ~ (g[k].full \/ g[k].budget <= Size[lines[R[k + 1]]])
    <3>1. g[k + 1] = [kept |-> g[k].kept \cup {R[k + 1]}, full |-> FALSE,
                      budget |-> g[k].budget - (Size[lines[R[k + 1]]] + 1)]
      BY <2>3, <2>6, TakeFacts
    <3>2. m = k /\ C(m) \in Nat /\ Size[lines[R[k + 1]]] \in Nat
      BY <1>1, <1>3, <2>2, <2>3, <2>6
    <3>3. /\ C(k + 1) = C(k) + (Size[lines[R[k + 1]]] + 1)
          /\ FirstOf(q, lines, k + 1) = FirstOf(q, lines, k) \cup {R[k + 1]}
      BY <1>4, <2>1
    <3>4. g[k + 1].budget + C(k + 1) = budget
      <4>1. g[k].budget + C(k) = budget /\ C(k) \in Nat
        BY <2>2, <3>2
      <4>2. g[k + 1].budget = g[k].budget - (Size[lines[R[k + 1]]] + 1)
        BY <3>1
      <4>3. C(k + 1) = C(k) + (Size[lines[R[k + 1]]] + 1) /\ Size[lines[R[k + 1]]] \in Nat
        BY <3>2, <3>3
      <4>4. ASSUME NEW x \in Nat, NEW y \in Nat, NEW z \in Nat
            PROVE  (x - (z + 1)) + (y + (z + 1)) = x + y
        OBVIOUS
      <4>5. (g[k].budget - (Size[lines[R[k + 1]]] + 1)) + (C(k) + (Size[lines[R[k + 1]]] + 1))
              = g[k].budget + C(k)
        BY <2>4, <4>1, <4>3, <4>4
      <4> QED
        BY <4>1, <4>2, <4>3, <4>5
    <3>5. Prefix(g[k + 1], k + 1, k + 1)
      BY <2>2, <3>1, <3>2, <3>3, <3>4
    <3> QED
      BY <2>1, <3>5
  <2> QED
    BY <2>5, <2>6
<1> HIDE DEF T
<1>7. Nat \subseteq T
  BY <1>5, <1>6, SetInduction
<1>8. PICK m \in 0 .. n : Prefix(g[n], n, m)
  <2>1. n \in T
    BY <1>1, <1>7
  <2>2. n <= n
    BY <1>1
  <2> HIDE DEF n, Prefix
  <2> QED
    BY <2>1, <2>2 DEF T
<1>9. g[n].budget \in Nat /\ g[n].full \in BOOLEAN
  BY <1>1, <1>2 DEF Loops
<1>10. m < n => g[n].budget <= Size[lines[R[m + 1]]]
  BY <1>8, <1>9
<1> QED
  BY <1>2, <1>8, <1>9, <1>10 DEF C, R

\* What is kept is as long as what is taken from the budget, and no less
\* relevant than what is not.
LEMMA KeepFirst ==
  ASSUME NEW q \in Queries, NEW lines \in Seq(Notes), NEW budget \in Nat
  PROVE  LET kept == Keep(q, lines, budget).kept
         IN  /\ kept \subseteq DOMAIN lines
             /\ Keep(q, lines, budget).budget \in Nat
             /\ Keep(q, lines, budget).budget + Chars(lines, kept, 1) = budget
             /\ \A i \in kept, j \in DOMAIN lines \ kept :
                  Overlap[q][lines[j]] <= Overlap[q][lines[i]]
<1> DEFINE n == Len(lines)
           R == Ranked(q, lines)
           K == Keep(q, lines, budget)
           W(i) == Overlap[q][lines[i]]
<1>1. PICK m \in 0 .. n :
        /\ K.kept = FirstOf(q, lines, m) /\ K.budget \in Nat
        /\ K.budget + Chars(lines, FirstOf(q, lines, m), 1) = budget
        /\ m < n => K.budget <= Size[lines[R[m + 1]]]
  BY KeepFacts
<1>2. /\ R \in [1 .. n -> 1 .. n]
      /\ \A i \in 1 .. n : \E k \in 1 .. n : R[k] = i
      /\ \A j, k \in 1 .. n : j <= k => W(R[j]) >= W(R[k])
  BY RankedFacts
<1>3. n \in Nat /\ DOMAIN lines = 1 .. n
  OBVIOUS
<1>4. \A i \in 1 .. n : W(i) \in Nat
  BY <1>3, MemoryAssumption
<1>5. K.kept = {R[j] : j \in 1 .. m}
  BY <1>1 DEF FirstOf
<1> HIDE DEF W, R, K, n
<1>6. K.kept \subseteq DOMAIN lines
  BY <1>2, <1>3, <1>5
<1>7. ASSUME NEW i \in K.kept, NEW j \in DOMAIN lines \ K.kept PROVE W(j) <= W(i)
  <2>1. PICK k \in 1 .. m : i = R[k]
    BY <1>5
  <2>2. PICK l \in 1 .. n : R[l] = j
    BY <1>2, <1>3
  <2>3. l \notin 1 .. m
    BY <1>5, <2>2
  <2>4. k \in 1 .. n /\ k <= l
    BY <1>3, <2>3
  <2>5. W(R[k]) >= W(R[l]) /\ W(R[k]) \in Nat /\ W(R[l]) \in Nat
    BY <1>2, <1>4, <2>4
  <2> QED
    BY <2>1, <2>2, <2>5
<1> QED
  BY <1>1, <1>6, <1>7 DEF K, W

\* Where all lines fit, all are kept.
LEMMA KeepAll ==
  ASSUME NEW q \in Queries, NEW lines \in Seq(Notes), NEW budget \in Nat,
         Chars(lines, DOMAIN lines, 1) <= budget
  PROVE  Keep(q, lines, budget).kept = DOMAIN lines
<1> DEFINE n == Len(lines)
           R == Ranked(q, lines)
           K == Keep(q, lines, budget)
<1>1. PICK m \in 0 .. n :
        /\ K.kept = FirstOf(q, lines, m) /\ K.budget \in Nat
        /\ K.budget + Chars(lines, FirstOf(q, lines, m), 1) = budget
        /\ m < n => K.budget <= Size[lines[R[m + 1]]]
  BY KeepFacts
<1>2. /\ R \in [1 .. n -> 1 .. n]
      /\ \A i \in 1 .. n : \E k \in 1 .. n : R[k] = i
      /\ \A j, k \in 1 .. n : R[j] = R[k] => j = k
  BY RankedFacts
<1>3. n \in Nat /\ DOMAIN lines = 1 .. n
  OBVIOUS
<1>4. K.kept = {R[j] : j \in 1 .. m}
  BY <1>1 DEF FirstOf
<1> HIDE DEF R, K, n
<1>5. K.kept \subseteq DOMAIN lines
  BY <1>2, <1>3, <1>4
<1>6. ASSUME m < n PROVE FALSE
  <2>1. m + 1 \in 1 .. n
    BY <1>3, <1>6
  <2> DEFINE i == R[m + 1]
  <2>2. i \in DOMAIN lines
    BY <1>2, <1>3, <2>1
  <2>3. i \notin K.kept
    BY <1>2, <1>3, <1>4, <2>1
  <2> HIDE DEF i
  <2>4. Chars(lines, K.kept \cup {i}, 1) = Chars(lines, K.kept, 1) + (Size[lines[i]] + 1)
    BY <2>2, <2>3, CharsPlus, 1 \in Nat
  <2>5. Chars(lines, K.kept \cup {i}, 1) <= Chars(lines, DOMAIN lines, 1)
    <3>1. K.kept \cup {i} \subseteq DOMAIN lines
      BY <1>5, <2>2
    <3> QED
      BY <3>1, CharsMonotone, 1 \in Nat, 1 <= 1
  <2>6. Chars(lines, K.kept, 1) \in Nat /\ Chars(lines, DOMAIN lines, 1) \in Nat /\ Size[lines[i]] \in Nat
    BY <1>3, <2>2, TermsType, 1 \in Nat DEF n
  <2>7. K.budget + Chars(lines, K.kept, 1) = budget /\ K.budget <= Size[lines[i]] /\ K.budget \in Nat
    BY <1>1, <1>6 DEF i
  <2> QED
    BY <2>4, <2>5, <2>6, <2>7
<1>7. m = n
  BY <1>3, <1>6
<1> QED
  BY <1>2, <1>3, <1>4, <1>5, <1>7 DEF K

-----------------------------------------------------------------------------
\* The three tiers and their lines.
AllLines == [Range(Tiers) -> Seq(Notes)]

\* They are those of the source, the most specific first.
LEMMA TierFacts ==
  /\ Range(Tiers) = {"session", "local", "global"}
  /\ Tiers[1] = "session" /\ Tiers[2] = "local" /\ Tiers[3] = "global"
<1>1. Tiers = <<"session", "local", "global">>
  BY DEF Tiers
<1>2. DOMAIN Tiers = {1, 2, 3}
  BY <1>1
<1> QED
  BY <1>1, <1>2 DEF Range

\* Each tier of a conversation is a sequence of notes.
LEMMA LinesType ==
  ASSUME MemoryTypeOK, NEW c \in Conversations
  PROVE  LinesFor(c) \in AllLines
BY TierFacts DEF MemoryTypeOK, LinesFor, AllLines, Files

\* Each tier has what the ones before it left of the budget.
LEMMA BudgetFacts ==
  ASSUME NEW q \in Queries, NEW lines \in AllLines
  PROVE  LET B(t) == BudgetFor(q, lines, t)
             K(t) == Keep(q, lines[t], B(t))
         IN  /\ B("session") = MaxChars
             /\ B("local") = K("session").budget
             /\ B("global") = K("local").budget
             /\ \A t \in Range(Tiers) : B(t) \in Nat
<1> DEFINE B(t) == BudgetFor(q, lines, t)
           K(t) == Keep(q, lines[t], B(t))
<1>1. /\ lines["session"] \in Seq(Notes) /\ lines["local"] \in Seq(Notes)
      /\ lines["global"] \in Seq(Notes)
  BY TierFacts DEF AllLines
<1>2. B("session") = MaxChars
  BY TierFacts DEF BudgetFor
<1>3. B("local") = Keep(q, lines["session"], MaxChars).budget
  BY TierFacts DEF BudgetFor
<1>4. B("global") = Keep(q, lines["local"], Keep(q, lines["session"], MaxChars).budget).budget
  BY TierFacts DEF BudgetFor
<1> HIDE DEF B
<1>5. MaxChars \in Nat
  BY MemoryAssumption
<1>6. B("local") \in Nat
  BY <1>1, <1>3, <1>5, KeepFirst
<1>7. B("global") \in Nat
  BY <1>1, <1>3, <1>4, <1>6, KeepFirst
<1> QED
  BY <1>2, <1>3, <1>4, <1>5, <1>6, <1>7, TierFacts DEF B

\* What is shown of a tier: its kept lines, and their copies.
LEMMA ShownFacts ==
  ASSUME NEW q \in Queries, NEW lines \in AllLines, NEW t \in Range(Tiers)
  PROVE  LET kept == Keep(q, lines[t], BudgetFor(q, lines, t)).kept
         IN  /\ lines[t] \in Seq(Notes)
             /\ kept \subseteq DOMAIN lines[t]
             /\ FilterRelevant(q, lines)[t] =
                  {i \in DOMAIN lines[t] : \E j \in kept : lines[t][i] = lines[t][j]}
             /\ kept \subseteq FilterRelevant(q, lines)[t]
<1> DEFINE K == Keep(q, lines[t], BudgetFor(q, lines, t))
<1>1. lines[t] \in Seq(Notes) /\ BudgetFor(q, lines, t) \in Nat
  BY BudgetFacts DEF AllLines
<1>2. K.kept \subseteq DOMAIN lines[t]
  BY <1>1, KeepFirst
<1>3. FilterRelevant(q, lines)[t] =
        {i \in DOMAIN lines[t] : \E j \in K.kept : lines[t][i] = lines[t][j]}
  BY DEF FilterRelevant
<1> HIDE DEF K
<1> QED
  BY <1>1, <1>2, <1>3 DEF K

\* What of a tier is left out for a request, because the text is too long, has
\* no more of its words than what is shown (_filter_relevant): the loop keeps the
\* lines up to a rank, and a copy of a kept line has as many words as that line.
THEOREM MemoryRelevance == MemorySpec => []MostRelevantFirst
<1>1. MemoryTypeOK => MostRelevantFirst
  <2> SUFFICES ASSUME MemoryTypeOK, NEW c \in Conversations, NEW q \in Queries,
                      NEW t \in Range(Tiers),
                      NEW out \in DOMAIN LinesFor(c)[t] \ Merge(q, LinesFor(c))[t],
                      NEW in \in Merge(q, LinesFor(c))[t]
               PROVE  Overlap[q][LinesFor(c)[t][out]] <= Overlap[q][LinesFor(c)[t][in]]
    BY DEF MostRelevantFirst
  <2> DEFINE all == LinesFor(c)
             kept == Keep(q, all[t], BudgetFor(q, all, t)).kept
             W(i) == Overlap[q][all[t][i]]
  <2>1. all \in AllLines
    BY LinesType
  <2> HIDE DEF all
  <2>2. CASE WholeFits(all)
    <3>1. Merge(q, all)[t] = DOMAIN all[t]
      BY <2>2 DEF Merge, Whole
    <3> QED
      BY <3>1 DEF all
  <2>3. CASE ~ WholeFits(all)
    <3>1. /\ all[t] \in Seq(Notes) /\ kept \subseteq DOMAIN all[t]
          /\ Merge(q, all)[t] = {i \in DOMAIN all[t] : \E j \in kept : all[t][i] = all[t][j]}
          /\ kept \subseteq Merge(q, all)[t]
      BY <2>1, <2>3, ShownFacts DEF Merge
    <3>2. BudgetFor(q, all, t) \in Nat
      BY <2>1, BudgetFacts
    <3>3. \A i \in kept, j \in DOMAIN all[t] \ kept : W(j) <= W(i)
      BY <3>1, <3>2, KeepFirst
    <3> HIDE DEF kept
    <3>4. PICK j \in kept : all[t][in] = all[t][j]
      BY <3>1 DEF all
    <3>5. out \in DOMAIN all[t] \ kept
      BY <3>1 DEF all
    <3>6. W(out) <= W(j)
      BY <3>3, <3>4, <3>5
    <3> QED
      BY <3>4, <3>6 DEF all
  <2> QED
    BY <2>2, <2>3
<1> QED
  BY <1>1, MemoryType, PTL

-----------------------------------------------------------------------------
\* The lengths of the sections.
SectionLength(lines, shown, gap, t) ==
  IF shown[t] = {} THEN 0
  ELSE Heading[t] + Chars(lines[t], shown[t], gap[t]) - gap[t] + 2

Total(lines, shown, gap) ==
  SectionLength(lines, shown, gap, "session") + SectionLength(lines, shown, gap, "local")
    + SectionLength(lines, shown, gap, "global")

\* A text is as long as its sections, without what would follow the last.
LEMMA LengthFacts ==
  ASSUME NEW lines, NEW shown, NEW gap
  PROVE  LengthOf(lines, shown, gap) =
           IF Total(lines, shown, gap) = 0 THEN 0 ELSE Total(lines, shown, gap) - 2
BY DEF LengthOf, Total, SectionLength

\* The filtered text exceeds the budget by no more than its headings and what
\* joins its sections, unless lines are repeated in a tier (_filter_relevant):
\* the three loops together keep lines that fit the budget, ends included, but
\* count no headings and no lines that are brought back as copies.
THEOREM MemoryBounded == MemorySpec => []BoundedOvershoot
<1>1. MemoryTypeOK => BoundedOvershoot
  <2> DEFINE Ones == [t \in Range(Tiers) |-> 1]
             Extra(shown, t) == IF shown[t] = {} THEN 0 ELSE Heading[t] + 1
  <2> SUFFICES ASSUME MemoryTypeOK, NEW c \in Conversations, NEW q \in Queries,
                      \E t \in Range(Tiers) : FilterRelevant(q, LinesFor(c))[t] # {},
                      \A t \in Range(Tiers) : IsInjective(LinesFor(c)[t])
               PROVE  LengthOf(LinesFor(c), FilterRelevant(q, LinesFor(c)), Ones) + 2
                        <= MaxChars + Extra(FilterRelevant(q, LinesFor(c)), "session")
                             + Extra(FilterRelevant(q, LinesFor(c)), "local")
                             + Extra(FilterRelevant(q, LinesFor(c)), "global")
    BY DEF BoundedOvershoot
  <2> DEFINE all == LinesFor(c)
             shown == FilterRelevant(q, all)
             B(t) == BudgetFor(q, all, t)
             K(t) == Keep(q, all[t], B(t))
             C(t) == Chars(all[t], shown[t], 1)
             S(t) == SectionLength(all, shown, Ones, t)
  <2>1. all \in AllLines
    BY LinesType
  <2>2. \A t \in Range(Tiers) : IsInjective(all[t])
    OBVIOUS
  <2>3. \E t \in Range(Tiers) : shown[t] # {}
    OBVIOUS
  <2> HIDE DEF all
  <2>4. ASSUME NEW t \in Range(Tiers) PROVE shown[t] = K(t).kept
    <3>1. /\ K(t).kept \subseteq DOMAIN all[t]
          /\ shown[t] = {i \in DOMAIN all[t] : \E j \in K(t).kept : all[t][i] = all[t][j]}
      BY <2>1, ShownFacts
    <3>2. \A i, j \in DOMAIN all[t] : all[t][i] = all[t][j] => i = j
      BY <2>2 DEF IsInjective
    <3> HIDE DEF K, shown
    <3> QED
      BY <3>1, <3>2
  <2>5. ASSUME NEW t \in Range(Tiers)
        PROVE  /\ C(t) \in Nat /\ B(t) \in Nat /\ K(t).budget \in Nat
               /\ K(t).budget + C(t) = B(t)
               /\ S(t) = C(t) + Extra(shown, t)
               /\ shown[t] # {} => S(t) > 0
               /\ S(t) \in Nat
    <3>1. all[t] \in Seq(Notes) /\ B(t) \in Nat
      BY <2>1, BudgetFacts DEF AllLines
    <3>2. K(t).budget \in Nat /\ K(t).budget + Chars(all[t], K(t).kept, 1) = B(t)
      BY <3>1, KeepFirst
    <3>3. C(t) \in Nat
      BY <3>1, TermsType, 1 \in Nat
    <3>4. shown[t] = {} => C(t) = 0
      BY <3>1, CharsNone, 1 \in Nat
    <3>5. Heading[t] \in Nat /\ Ones[t] = 1
      BY TierFacts DEF Heading
    <3>6. S(t) = IF shown[t] = {} THEN 0 ELSE Heading[t] + C(t) - 1 + 2
      BY <3>5 DEF SectionLength
    <3>7. K(t).budget + C(t) = B(t)
      BY <2>4, <3>2
    <3> HIDE DEF B, K, C, S, shown
    <3> QED
      BY <3>1, <3>2, <3>3, <3>4, <3>5, <3>6, <3>7
  <2>6. B("session") = MaxChars /\ B("local") = K("session").budget /\ B("global") = K("local").budget
    BY <2>1, BudgetFacts
  <2>7. /\ Total(all, shown, Ones) = S("session") + S("local") + S("global")
        /\ LengthOf(all, shown, Ones) =
             IF Total(all, shown, Ones) = 0 THEN 0 ELSE Total(all, shown, Ones) - 2
    <3>1. Total(all, shown, Ones) = S("session") + S("local") + S("global")
      BY DEF Total
    <3> HIDE DEF shown, Ones, S
    <3> QED
      BY <3>1, LengthFacts
  <2> HIDE DEF B, K, C, S, shown, Ones
  <2>8. /\ "session" \in Range(Tiers) /\ "local" \in Range(Tiers) /\ "global" \in Range(Tiers)
        /\ Range(Tiers) = {"session", "local", "global"}
    BY TierFacts
  <2>9. S("session") + S("local") + S("global") > 0
    BY <2>3, <2>5, <2>8
  <2>10. C("session") + C("local") + C("global") <= MaxChars
    BY <2>5, <2>6, <2>8, MemoryAssumption
  <2>11. \A t \in Range(Tiers) : Extra(shown, t) \in Nat
    BY <2>8 DEF Heading
  <2> HIDE DEF Extra
  <2>12. LengthOf(all, shown, Ones) + 2 <= MaxChars + Extra(shown, "session")
           + Extra(shown, "local") + Extra(shown, "global")
    <3>1. LengthOf(all, shown, Ones) + 2 = S("session") + S("local") + S("global")
      BY <2>5, <2>7, <2>8, <2>9
    <3> QED
      BY <2>5, <2>8, <2>10, <2>11, <3>1, MemoryAssumption
  <2> QED
    BY <2>12 DEF all, shown
<1> QED
  BY <1>1, MemoryType, PTL

-----------------------------------------------------------------------------
\* The whole text: its length is that of its sections, a section is longer than
\* its lines with their ends, and one without lines has no length.
LEMMA WholeFacts ==
  ASSUME NEW lines \in AllLines
  PROVE  /\ \A t \in Range(Tiers) :
              LET S == SectionLength(lines, Whole(lines), Gap, t)
                  C == Chars(lines[t], DOMAIN lines[t], 1)
              IN  /\ S \in Nat /\ C \in Nat
                  /\ lines[t] = <<>> => S = 0 /\ C = 0
                  /\ lines[t] # <<>> => S >= C + 2
         /\ Total(lines, Whole(lines), Gap) \in Nat
         /\ LengthOf(lines, Whole(lines), Gap) =
              IF Total(lines, Whole(lines), Gap) = 0 THEN 0
              ELSE Total(lines, Whole(lines), Gap) - 2
<1> DEFINE S(t) == SectionLength(lines, Whole(lines), Gap, t)
           C(t) == Chars(lines[t], DOMAIN lines[t], 1)
<1>1. ASSUME NEW t \in Range(Tiers)
      PROVE  /\ S(t) \in Nat /\ C(t) \in Nat
             /\ lines[t] = <<>> => S(t) = 0 /\ C(t) = 0
             /\ lines[t] # <<>> => S(t) >= C(t) + 2
  <2> DEFINE D == Chars(lines[t], DOMAIN lines[t], Gap[t])
  <2>1. lines[t] \in Seq(Notes)
    BY DEF AllLines
  <2>2. /\ Gap[t] \in {1, 2} /\ Gap[t] \in Nat /\ 1 <= Gap[t] /\ Heading[t] \in Nat /\ Heading[t] >= 16
        /\ Whole(lines)[t] = DOMAIN lines[t]
    BY TierFacts DEF Gap, Heading, Whole
  <2>3. C(t) \in Nat /\ D \in Nat
    BY <2>1, <2>2, TermsType, 1 \in Nat
  <2>4. C(t) <= D
    BY <2>1, <2>2, CharsMonotone, 1 \in Nat
  <2>5. (lines[t] = <<>> <=> DOMAIN lines[t] = {}) /\ (lines[t] = <<>> => C(t) = 0)
    <3>1. lines[t] = <<>> <=> DOMAIN lines[t] = {}
      BY <2>1
    <3> QED
      BY <2>1, <3>1, CharsNone, 1 \in Nat
  <2>6. S(t) = IF DOMAIN lines[t] = {} THEN 0 ELSE Heading[t] + D - Gap[t] + 2
    BY <2>2 DEF SectionLength
  <2> HIDE DEF S, C, D
  <2> QED
    BY <2>2, <2>3, <2>4, <2>5, <2>6
<1>2. Total(lines, Whole(lines), Gap) = S("session") + S("local") + S("global")
  BY DEF Total
<1> HIDE DEF S, C
<1>3. Total(lines, Whole(lines), Gap) \in Nat
  BY <1>1, <1>2, TierFacts
<1>4. LengthOf(lines, Whole(lines), Gap) =
        IF Total(lines, Whole(lines), Gap) = 0 THEN 0
        ELSE Total(lines, Whole(lines), Gap) - 2
  BY LengthFacts
<1> QED
  BY <1>1, <1>3, <1>4 DEF S, C

\* If the whole text fits, what each loop is left with is enough for its tier.
LEMMA FitsAll ==
  ASSUME NEW q \in Queries, NEW lines \in AllLines, WholeFits(lines)
  PROVE  /\ Chars(lines["session"], DOMAIN lines["session"], 1) <= MaxChars
         /\ Chars(lines["local"], DOMAIN lines["local"], 1)
              <= Keep(q, lines["session"], MaxChars).budget
<1> DEFINE S(t) == SectionLength(lines, Whole(lines), Gap, t)
           C(t) == Chars(lines[t], DOMAIN lines[t], 1)
           all == Total(lines, Whole(lines), Gap)
           first == Keep(q, lines["session"], MaxChars)
<1>1. \A t \in Range(Tiers) :
        /\ S(t) \in Nat /\ C(t) \in Nat
        /\ lines[t] = <<>> => S(t) = 0 /\ C(t) = 0
        /\ lines[t] # <<>> => S(t) >= C(t) + 2
  BY WholeFacts
<1>2. all \in Nat /\ (IF all = 0 THEN 0 ELSE all - 2) <= MaxChars
  BY WholeFacts DEF WholeFits
<1>3. all = S("session") + S("local") + S("global")
  BY DEF Total
<1>4. lines["session"] \in Seq(Notes) /\ MaxChars \in Nat
  BY TierFacts, MemoryAssumption DEF AllLines
<1> HIDE DEF S, C, all
<1>5. \A t \in Range(Tiers) : S(t) = 0 => C(t) = 0
  BY <1>1
<1>6. C("session") + C("local") <= MaxChars
  <2>1. /\ "session" \in Range(Tiers) /\ "local" \in Range(Tiers) /\ "global" \in Range(Tiers)
    BY TierFacts
  <2>2. /\ S("session") \in Nat /\ S("local") \in Nat /\ S("global") \in Nat
        /\ C("session") \in Nat /\ C("local") \in Nat
        /\ (S("session") = 0 /\ C("session") = 0) \/ S("session") >= C("session") + 2
        /\ (S("local") = 0 /\ C("local") = 0) \/ S("local") >= C("local") + 2
    BY <1>1, <2>1
  <2> QED
    BY <1>2, <1>3, <1>4, <2>2
<1>7. C("session") \in Nat /\ C("local") \in Nat
  BY <1>1, TierFacts
<1>8. C("session") <= MaxChars
  BY <1>4, <1>6, <1>7
<1>9. first.kept = DOMAIN lines["session"]
  BY <1>4, <1>8, KeepAll DEF C
<1>10. first.budget \in Nat /\ first.budget + C("session") = MaxChars
  <2>1. first.budget \in Nat /\ first.budget + Chars(lines["session"], first.kept, 1) = MaxChars
    BY <1>4, KeepFirst
  <2> HIDE DEF first
  <2> QED
    BY <1>9, <2>1 DEF C
<1>11. C("local") <= first.budget
  <2> HIDE DEF first
  <2> QED
    BY <1>4, <1>6, <1>7, <1>10
<1> QED
  BY <1>8, <1>11 DEF C

\* What is shown of a tier does not depend on the less specific tiers, whether
\* they bring the text over the budget or not (_merge, _filter_relevant): a text
\* that fits is shown in full with or without them, and the loop takes the more
\* specific tiers first, of which it keeps every line that would be shown alone.
THEOREM MemoryPrecedence == MemorySpec => []SpecificFirst
<1>1. MemoryTypeOK => SpecificFirst
  <2> DEFINE Alone(c, t) == [u \in Range(Tiers) |->
               IF u \in (IF t = "session" THEN Files ELSE {"global"}) THEN <<>> ELSE LinesFor(c)[u]]
  <2> SUFFICES ASSUME MemoryTypeOK, NEW c \in Conversations, NEW q \in Queries,
                      NEW t \in {"session", "local"}
               PROVE  Merge(q, LinesFor(c))[t] = Merge(q, Alone(c, t))[t]
    BY DEF SpecificFirst
  <2> DEFINE all == LinesFor(c)
             alone == Alone(c, t)
  <2>1. all \in AllLines
    BY LinesType
  <2> HIDE DEF all
  <2>2. /\ alone["session"] = all["session"] /\ alone["global"] = <<>>
        /\ alone["local"] = IF t = "local" THEN all["local"] ELSE <<>>
    BY TierFacts DEF Files, all
  <2>3. alone \in AllLines
    <3>1. \A u \in Range(Tiers) : alone[u] \in Seq(Notes)
      <4>1. \A u \in Range(Tiers) : all[u] \in Seq(Notes)
        BY <2>1 DEF AllLines
      <4>2. <<>> \in Seq(Notes)
        OBVIOUS
      <4> QED
        BY <4>1, <4>2 DEF all
    <3> QED
      BY <3>1 DEF AllLines
  <2> HIDE DEF Alone
  <2>4. t \in Range(Tiers) /\ alone[t] = all[t]
    BY <2>2, TierFacts
  <2>5. BudgetFor(q, alone, t) = BudgetFor(q, all, t)
    BY <2>2, TierFacts DEF BudgetFor
  <2>6. CASE WholeFits(all)
    <3> DEFINE S(lines, u) == SectionLength(lines, Whole(lines), Gap, u)
    <3>1. ASSUME NEW u \in Range(Tiers)
          PROVE  S(alone, u) \in Nat /\ S(all, u) \in Nat /\ S(alone, u) <= S(all, u)
      <4>1. /\ S(alone, u) \in Nat /\ S(all, u) \in Nat
            /\ alone[u] = <<>> => S(alone, u) = 0
        BY <2>1, <2>3, WholeFacts
      <4>2. alone[u] = <<>> \/ alone[u] = all[u]
        BY <2>2, TierFacts
      <4>3. alone[u] = all[u] => S(alone, u) = S(all, u)
        BY DEF SectionLength, Whole
      <4> HIDE DEF S
      <4> QED
        BY <4>1, <4>2, <4>3
    <3>2. Total(alone, Whole(alone), Gap) <= Total(all, Whole(all), Gap)
      <4>1. /\ Total(alone, Whole(alone), Gap) = S(alone, "session") + S(alone, "local") + S(alone, "global")
            /\ Total(all, Whole(all), Gap) = S(all, "session") + S(all, "local") + S(all, "global")
        BY DEF Total
      <4> HIDE DEF S
      <4> QED
        BY <3>1, <4>1, TierFacts
    <3>3. WholeFits(alone)
      <4>1. /\ Total(alone, Whole(alone), Gap) \in Nat /\ Total(all, Whole(all), Gap) \in Nat
            /\ LengthOf(alone, Whole(alone), Gap) =
                 IF Total(alone, Whole(alone), Gap) = 0 THEN 0 ELSE Total(alone, Whole(alone), Gap) - 2
            /\ LengthOf(all, Whole(all), Gap) =
                 IF Total(all, Whole(all), Gap) = 0 THEN 0 ELSE Total(all, Whole(all), Gap) - 2
        BY <2>1, <2>3, WholeFacts
      <4>2. LengthOf(all, Whole(all), Gap) <= MaxChars /\ MaxChars \in Nat
        BY <2>6, MemoryAssumption DEF WholeFits
      <4>3. LengthOf(alone, Whole(alone), Gap) <= MaxChars
        BY <3>2, <4>1, <4>2
      <4> QED
        BY <4>3 DEF WholeFits
    <3>4. Merge(q, all)[t] = DOMAIN all[t] /\ Merge(q, alone)[t] = DOMAIN alone[t]
      BY <2>4, <2>6, <3>3 DEF Merge, Whole
    <3> QED
      BY <2>4, <3>4 DEF all
  <2>7. CASE ~ WholeFits(all) /\ ~ WholeFits(alone)
    <3>1. FilterRelevant(q, alone)[t] = FilterRelevant(q, all)[t]
      BY <2>4, <2>5 DEF FilterRelevant
    <3> QED
      BY <2>7, <3>1 DEF Merge, all
  <2>8. CASE ~ WholeFits(all) /\ WholeFits(alone)
    <3> DEFINE b == BudgetFor(q, all, t)
    <3>1. /\ Chars(alone["session"], DOMAIN alone["session"], 1) <= MaxChars
          /\ Chars(alone["local"], DOMAIN alone["local"], 1)
               <= Keep(q, alone["session"], MaxChars).budget
      BY <2>3, <2>8, FitsAll
    <3>2. Chars(all[t], DOMAIN all[t], 1) <= b
      <4>1. CASE t = "session"
        BY <2>2, <3>1, <4>1, TierFacts DEF BudgetFor
      <4>2. CASE t = "local"
        <5>1. b = Keep(q, all["session"], MaxChars).budget
          BY <4>2, TierFacts DEF BudgetFor
        <5> HIDE DEF b
        <5> QED
          BY <2>2, <3>1, <4>2, <5>1
      <4> QED
        BY <4>1, <4>2
    <3>3. b \in Nat /\ all[t] \in Seq(Notes)
      BY <2>1, <2>4, BudgetFacts DEF AllLines
    <3>4. Keep(q, all[t], b).kept = DOMAIN all[t]
      <4> HIDE DEF b
      <4> QED
        BY <3>2, <3>3, KeepAll
    <3>5. FilterRelevant(q, all)[t] = DOMAIN all[t]
      BY <2>1, <2>4, <3>4, ShownFacts
    <3>6. Merge(q, all)[t] = DOMAIN all[t] /\ Merge(q, alone)[t] = DOMAIN alone[t]
      BY <2>4, <2>8, <3>5 DEF Merge, Whole
    <3> QED
      BY <2>4, <3>6 DEF all
  <2> QED
    BY <2>6, <2>7, <2>8
<1> QED
  BY <1>1, MemoryType, PTL
=================================================================================
