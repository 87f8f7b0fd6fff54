--------------------------- MODULE A2AServerProofs ---------------------------
(***************************************************************************)
(* Proofs about A2AServer, for any number of requests, conversations and   *)
(* restarts: the rows it leaves, and that it implements RequestLog.        *)
(***************************************************************************)
EXTENDS A2AServer, FiniteSetTheorems, SequenceTheorems, TLAPS

\* The rows of p can be counted off: it has a k-th one for each k.
Numbered(rs, p) ==
  \A k \in 1 .. Cardinality(Mine(rs, p)) :
    \E i \in Mine(rs, p) : Cardinality(UpTo(rs, p, i)) = k

\* What a request has left and what its client gets, by where its handler is.
InLine(st, m, good, rep, kinds) ==
  /\ st \in {"user", "running", "agent", "sent"} => m = "message/send"
  /\ st = "user" => kinds = <<"received">>
  /\ st \in {"running", "agent"} => kinds = <<"received", "user">>
  /\ st = "agent" => good = TRUE
  /\ (st = "sent" /\ good = TRUE) => kinds = <<"received", "user", "agent">>
  /\ (st = "sent" /\ good = FALSE) => kinds = <<"received", "user">>
  /\ st = "reply" => m \in {"message/send", "read"}
  /\ (st = "reply" /\ m = "message/send" /\ good = TRUE) => kinds = Log!Served
  /\ (st = "reply" /\ m = "message/send" /\ good = FALSE) => kinds = Log!Failed
  /\ rep # "none" => st = "done"
  /\ rep = "result" => m \in {"message/send", "read"}
  /\ (m = "message/send" /\ rep = "result") => kinds = Log!Served

AllInLine ==
  \A p \in Posts : InLine(at[p], method[p], ok[p], reply[p], KindsIn(rows, p))

AllNumbered == \A p \in Posts : Numbered(rows, p)

\* The handlers share one loop.
OneBusy == \A p, q \in Posts : (Busy(p) /\ Busy(q)) => p = q

\* A conversation is a client's or has its row, and a handler that is past
\* opening one has one.
Named ==
  \A p \in Posts :
    /\ conversation[p] \in {NoId} \cup Supplied \cup opened
    /\ at[p] \in {"received", "user", "running", "agent", "sent"} => conversation[p] # NoId

\* Rows are of the conversation of their request, and a request whose
\* conversation may still change has none.
RowsOwn ==
  /\ \A i \in DOMAIN rows : rows[i].conversation = conversation[rows[i].by]
  /\ \A p \in Posts : at[p] \in {"new", "conversation", "received"} => Mine(rows, p) = {}

\* The last row when a handler is about to add the one that must follow it.
LastRow ==
  \A p \in Posts :
    /\ at[p] = "user" =>
         Len(rows) > 0 /\ rows[Len(rows)].by = p /\ rows[Len(rows)].kind = "received"
    /\ (at[p] = "sent" /\ ok[p] = TRUE) =>
         Len(rows) > 0 /\ rows[Len(rows)].by = p /\ rows[Len(rows)].kind = "agent"

\* The inductive invariant of the server.
ServerInv ==
  /\ ServerTypeOK /\ OneBusy /\ Named /\ RowsOwn /\ LastRow /\ RowsAdjacent
  /\ AllNumbered /\ AllInLine

-----------------------------------------------------------------------------
(* The kinds of the rows of a request, when a row is added.                *)

\* What is picked from a set that is not empty is in it.
LEMMA PickIn ==
  ASSUME NEW S, NEW x \in S
  PROVE  Pick(S) \in S
BY Zenon DEF Pick

\* The rows of a request are finitely many.
LEMMA MineFinite ==
  ASSUME NEW rs \in Seq(Rows), NEW p
  PROVE  /\ IsFiniteSet(Mine(rs, p)) /\ Cardinality(Mine(rs, p)) \in Nat
         /\ Mine(rs, p) \subseteq 1 .. Len(rs)
<1>1. Mine(rs, p) \subseteq 1 .. Len(rs) /\ Len(rs) \in Nat
  BY DEF Mine
<1>2. IsFiniteSet(1 .. Len(rs))
  BY <1>1, FS_Interval
<1> QED
  BY <1>1, <1>2, FS_Subset, FS_CardinalityType

\* A request without rows has no kinds, and can be counted off.
LEMMA KindsOfNone ==
  ASSUME NEW rs, NEW p, Mine(rs, p) = {}
  PROVE  KindsIn(rs, p) = <<>> /\ Numbered(rs, p)
<1>1. Cardinality(Mine(rs, p)) = 0
  BY FS_EmptySet
<1>2. 1 .. 0 = {}
  OBVIOUS
<1>3. Numbered(rs, p)
  BY <1>1, <1>2 DEF Numbered
<1>4. KindsIn(rs, p) = [k \in {} |-> rs[Nth(rs, p, k)].kind]
  BY <1>1, <1>2 DEF KindsIn
<1> QED
  BY <1>3, <1>4

\* The k-th row of a request is one of its rows.
LEMMA NthIsMine ==
  ASSUME NEW rs, NEW p, Numbered(rs, p), NEW k \in 1 .. Cardinality(Mine(rs, p))
  PROVE  Nth(rs, p, k) \in Mine(rs, p)
<1> DEFINE S == {i \in Mine(rs, p) : Cardinality(UpTo(rs, p, i)) = k}
<1>1. PICK i : i \in S
  BY DEF Numbered
<1>2. Pick(S) \in S
  BY <1>1, PickIn
<1> QED
  BY <1>2 DEF Nth

\* A row of another request changes nothing.
LEMMA KindsOfOther ==
  ASSUME NEW rs \in Seq(Rows), NEW row \in Rows, NEW p, row.by # p, Numbered(rs, p)
  PROVE  /\ KindsIn(Append(rs, row), p) = KindsIn(rs, p)
         /\ Numbered(Append(rs, row), p)
         /\ Mine(Append(rs, row), p) = Mine(rs, p)
<1> DEFINE new == Append(rs, row)
<1>1. Mine(new, p) = Mine(rs, p)
  BY DEF Mine
<1>2. \A i \in Mine(rs, p) : new[i] = rs[i]
  BY DEF Mine
<1> HIDE DEF new
<1>3. \A i : UpTo(new, p, i) = UpTo(rs, p, i)
  BY <1>1 DEF UpTo
<1>4. \A k : Nth(new, p, k) = Nth(rs, p, k)
  <2> SUFFICES ASSUME NEW k
               PROVE  {i \in Mine(new, p) : Cardinality(UpTo(new, p, i)) = k}
                        = {i \in Mine(rs, p) : Cardinality(UpTo(rs, p, i)) = k}
    BY DEF Nth
  <2> QED
    BY <1>1, <1>3
<1>5. \A k \in 1 .. Cardinality(Mine(rs, p)) : new[Nth(new, p, k)] = rs[Nth(rs, p, k)]
  BY <1>2, <1>4, NthIsMine
<1>6. KindsIn(new, p) = KindsIn(rs, p)
  BY <1>1, <1>5 DEF KindsIn
<1>7. Numbered(new, p)
  BY <1>1, <1>3 DEF Numbered
<1> QED
  BY <1>1, <1>6, <1>7 DEF new

\* A row of p is the last of its rows.
LEMMA KindsOfOwn ==
  ASSUME NEW rs \in Seq(Rows), NEW row \in Rows, NEW p, row.by = p, Numbered(rs, p),
         KindsIn(rs, p) \in Seq(Kinds)
  PROVE  /\ KindsIn(Append(rs, row), p) = Append(KindsIn(rs, p), row.kind)
         /\ Numbered(Append(rs, row), p)
<1> DEFINE new == Append(rs, row)
           n == Len(rs)
           m == Cardinality(Mine(rs, p))
<1>1. /\ n \in Nat /\ Mine(rs, p) \subseteq 1 .. n
      /\ m \in Nat /\ IsFiniteSet(Mine(rs, p))
  BY MineFinite
<1>2. /\ Mine(new, p) = Mine(rs, p) \cup {n + 1}
      /\ \A i \in Mine(rs, p) : new[i] = rs[i]
      /\ new[n + 1] = row
  BY DEF Mine
<1> HIDE DEF new, n
<1>3. n + 1 \notin Mine(rs, p) /\ \A i \in Mine(rs, p) : ~(n + 1 <= i) /\ i <= n + 1
  BY <1>1
<1>4. Cardinality(Mine(new, p)) = m + 1
  <2> DEFINE mine == Mine(rs, p)
  <2>1. IsFiniteSet(mine) /\ n + 1 \notin mine /\ Mine(new, p) = mine \cup {n + 1}
    BY <1>1, <1>2, <1>3
  <2> HIDE DEF mine
  <2>2. Cardinality(mine \cup {n + 1}) = Cardinality(mine) + 1
    BY <2>1, FS_AddElement
  <2> QED
    BY <2>1, <2>2 DEF mine
<1>5. \A i \in Mine(rs, p) : UpTo(new, p, i) = UpTo(rs, p, i)
  BY <1>2, <1>3 DEF UpTo
<1>6. UpTo(new, p, n + 1) = Mine(new, p)
  BY <1>1, <1>2, <1>3 DEF UpTo
<1>7. \A i \in Mine(rs, p) :
        Cardinality(UpTo(rs, p, i)) \in Nat /\ Cardinality(UpTo(rs, p, i)) <= m
  BY <1>1, FS_Subset, FS_CardinalityType DEF UpTo
<1> HIDE DEF m
<1>8. \A k \in 1 .. m : Nth(new, p, k) = Nth(rs, p, k)
  <2> SUFFICES ASSUME NEW k \in 1 .. m
               PROVE  {i \in Mine(new, p) : Cardinality(UpTo(new, p, i)) = k}
                        = {i \in Mine(rs, p) : Cardinality(UpTo(rs, p, i)) = k}
    BY DEF Nth
  <2>1. Cardinality(UpTo(new, p, n + 1)) # k
    BY <1>1, <1>4, <1>6
  <2> QED
    BY <1>2, <1>5, <2>1
<1>9. Nth(new, p, m + 1) = n + 1
  <2> DEFINE S == {i \in Mine(new, p) : Cardinality(UpTo(new, p, i)) = m + 1}
  <2>1. \A i \in Mine(rs, p) : Cardinality(UpTo(new, p, i)) # m + 1
    BY <1>1, <1>5, <1>7
  <2>2. S = {n + 1}
    BY <1>2, <1>4, <1>6, <2>1
  <2> QED
    BY <2>2, PickIn DEF Nth
<1>10. \A k \in 1 .. m : new[Nth(new, p, k)] = rs[Nth(rs, p, k)]
  BY <1>2, <1>8, NthIsMine DEF m
<1>11. KindsIn(new, p) = [k \in 1 .. m + 1 |-> IF k = m + 1 THEN row.kind
                                               ELSE rs[Nth(rs, p, k)].kind]
  <2>1. \A k \in 1 .. m + 1 : k = m + 1 \/ k \in 1 .. m
    BY <1>1
  <2> QED
    BY <1>2, <1>4, <1>9, <1>10, <2>1 DEF KindsIn
<1>12. KindsIn(rs, p) = [k \in 1 .. m |-> rs[Nth(rs, p, k)].kind]
  BY DEF KindsIn, m
<1>13. KindsIn(new, p) = Append(KindsIn(rs, p), row.kind)
  <2> DEFINE old == KindsIn(rs, p)
  <2>1. Len(old) = m /\ \A k \in 1 .. m : old[k] = rs[Nth(rs, p, k)].kind
    BY <1>1, <1>12
  <2> HIDE DEF old
  <2>2. row.kind \in Kinds
    BY DEF Rows
  <2>3. Append(old, row.kind) = [k \in 1 .. m + 1 |-> IF k = m + 1 THEN row.kind ELSE old[k]]
    BY <1>1, <2>1, <2>2, AppendProperties DEF old
  <2> QED
    BY <1>1, <1>11, <2>1, <2>3 DEF old
<1>14. Numbered(new, p)
  <2> SUFFICES ASSUME NEW k \in 1 .. m + 1
               PROVE  \E i \in Mine(new, p) : Cardinality(UpTo(new, p, i)) = k
    BY <1>4 DEF Numbered
  <2>1. CASE k = m + 1
    BY <1>2, <1>4, <1>6, <2>1
  <2>2. CASE k # m + 1
    <3>1. k \in 1 .. m
      BY <1>1, <2>2
    <3>2. PICK i \in Mine(rs, p) : Cardinality(UpTo(rs, p, i)) = k
      BY <3>1 DEF Numbered, m
    <3> QED
      BY <1>2, <1>5, <3>2
  <2> QED
    BY <2>1, <2>2
<1> QED
  BY <1>13, <1>14 DEF new

-----------------------------------------------------------------------------
(* The steps of a handler.                                                 *)

\* What a handler that is about to insert a row leaves by it.
LEMMA InsertRows ==
  ASSUME ServerInv, NEW p \in Posts, at[p] \in {"received", "user", "agent", "sent"},
         NEW kind \in Kinds, Insert(p, kind), KindsIn(rows, p) \in Seq(Kinds)
  PROVE  /\ rows' \in Seq(Rows) /\ Len(rows) \in Nat /\ Len(rows') = Len(rows) + 1
         /\ rows'[Len(rows')] = [kind |-> kind, conversation |-> conversation[p], by |-> p]
         /\ \A i \in 1 .. Len(rows) : rows'[i] = rows[i]
         /\ \A q \in Posts : Numbered(rows', q)
         /\ KindsIn(rows', p) = Append(KindsIn(rows, p), kind)
         /\ \A q \in Posts \ {p} :
              KindsIn(rows', q) = KindsIn(rows, q) /\ Mine(rows', q) = Mine(rows, q)
<1> DEFINE row == [kind |-> kind, conversation |-> conversation[p], by |-> p]
<1>1. rows \in Seq(Rows) /\ row \in Rows /\ rows' = Append(rows, row) /\ row.by = p /\ row.kind = kind
  BY DEF ServerInv, ServerTypeOK, Named, Insert, Rows
<1>2. \A q \in Posts : Numbered(rows, q)
  BY DEF ServerInv, AllNumbered
<1>3. KindsIn(rows', p) = Append(KindsIn(rows, p), kind) /\ Numbered(rows', p)
  <2> HIDE DEF row
  <2> QED
    BY <1>1, <1>2, KindsOfOwn
<1>4. ASSUME NEW q \in Posts \ {p}
      PROVE  /\ KindsIn(rows', q) = KindsIn(rows, q) /\ Mine(rows', q) = Mine(rows, q)
             /\ Numbered(rows', q)
  <2> HIDE DEF row
  <2>1. row.by # q
    BY <1>1
  <2> QED
    BY <1>1, <1>2, <2>1, KindsOfOther
<1>5. /\ rows' \in Seq(Rows) /\ Len(rows) \in Nat /\ Len(rows') = Len(rows) + 1
      /\ rows'[Len(rows')] = row
      /\ \A i \in 1 .. Len(rows) : rows'[i] = rows[i]
  <2> HIDE DEF row
  <2> QED
    BY <1>1
<1> QED
  BY <1>3, <1>4, <1>5

\* A handler inserts a row and goes on to a stage that fits it.
LEMMA InsertInv ==
  ASSUME ServerInv, NEW p \in Posts, at[p] \in {"received", "user", "agent", "sent"},
         NEW kind \in Kinds, Insert(p, kind), KindsIn(rows, p) \in Seq(Kinds),
         NEW stage \in {"user", "running", "sent", "reply", "raise"}, Go(p, stage), UNCHANGED ok,
         kind = "user" => at[p] = "user",
         kind = "sent" => at[p] = "sent" /\ ok[p] = TRUE,
         stage = "user" => kind = "received",
         (stage = "sent" /\ ok[p] = TRUE) => kind = "agent",
         InLine(stage, method[p], ok[p], reply[p], Append(KindsIn(rows, p), kind))
  PROVE  ServerInv'
<1> DEFINE n == Len(rows)
<1>1. /\ rows' \in Seq(Rows) /\ n \in Nat /\ Len(rows') = n + 1
      /\ rows'[n + 1] = [kind |-> kind, conversation |-> conversation[p], by |-> p]
      /\ \A i \in 1 .. n : rows'[i] = rows[i]
      /\ \A q \in Posts : Numbered(rows', q)
      /\ KindsIn(rows', p) = Append(KindsIn(rows, p), kind)
      /\ \A q \in Posts \ {p} :
           KindsIn(rows', q) = KindsIn(rows, q) /\ Mine(rows', q) = Mine(rows, q)
  <2>1. Len(rows') = n + 1
    BY InsertRows
  <2> QED
    BY <2>1, InsertRows
<1>2. UNCHANGED <<method, conversation, ok, reply, opened, life>>
  BY DEF Insert
<1>3. at'[p] = stage /\ \A q \in Posts \ {p} : at'[q] = at[q]
  BY DEF Go, ServerInv, ServerTypeOK
<1>4. Busy(p) /\ \A q \in Posts \ {p} : ~Busy(q)
  BY DEF ServerInv, OneBusy, Busy, Commits
<1>5. ServerTypeOK'
  BY <1>1, <1>2 DEF ServerInv, ServerTypeOK, Go, Stages, Commits
<1>6. OneBusy'
  BY <1>3, <1>4 DEF OneBusy, Busy
<1>7. Named'
  BY <1>2, <1>3 DEF ServerInv, Named
<1>8. RowsOwn'
  <2>1. \A i \in DOMAIN rows' : i = n + 1 \/ (i \in 1 .. n /\ i \in DOMAIN rows)
    BY <1>1
  <2>2. \A i \in DOMAIN rows' : rows'[i].conversation = conversation'[rows'[i].by]
    BY <1>1, <1>2, <2>1 DEF ServerInv, RowsOwn
  <2>3. \A q \in Posts : at'[q] \in {"new", "conversation", "received"} => Mine(rows', q) = {}
    BY <1>1, <1>3 DEF ServerInv, RowsOwn
  <2> QED
    BY <2>2, <2>3 DEF RowsOwn
<1>9. LastRow'
  BY <1>1, <1>2, <1>3, <1>4 DEF LastRow, Busy, Commits
<1>10. RowsAdjacent'
  <2>1. ASSUME kind \in {"user", "sent"}
        PROVE  n > 0 /\ rows[n].by = p /\ rows[n].kind = IF kind = "user" THEN "received" ELSE "agent"
    BY <2>1 DEF ServerInv, LastRow
  <2>2. \A i \in 1 .. n : i - 1 \in 1 .. n \/ i = 1
    BY <1>1
  <2>3. ASSUME NEW i \in 1 .. n, rows'[i].kind \in {"user", "sent"}
        PROVE  /\ i > 1
               /\ rows'[i - 1].by = rows'[i].by
               /\ rows'[i - 1].kind = IF rows'[i].kind = "user" THEN "received" ELSE "agent"
    <3>1. i \in DOMAIN rows /\ rows'[i] = rows[i]
      BY <1>1 DEF ServerInv, ServerTypeOK
    <3>2. i > 1 /\ rows[i - 1].by = rows[i].by
          /\ rows[i - 1].kind = IF rows[i].kind = "user" THEN "received" ELSE "agent"
      BY <2>3, <3>1 DEF ServerInv, RowsAdjacent
    <3>3. rows'[i - 1] = rows[i - 1]
      BY <1>1, <3>2
    <3> QED
      BY <3>1, <3>2, <3>3
  <2>4. ASSUME rows'[n + 1].kind \in {"user", "sent"}
        PROVE  /\ n + 1 > 1
               /\ rows'[n].by = rows'[n + 1].by
               /\ rows'[n].kind = IF rows'[n + 1].kind = "user" THEN "received" ELSE "agent"
    BY <1>1, <2>1, <2>4
  <2>5. \A i \in DOMAIN rows' : i = n + 1 \/ i \in 1 .. n
    BY <1>1
  <2>6. (n + 1) - 1 = n
    BY <1>1
  <2> QED
    BY <2>3, <2>4, <2>5, <2>6 DEF RowsAdjacent
<1>11. AllNumbered'
  BY <1>1 DEF AllNumbered
<1>12. AllInLine'
  <2> SUFFICES ASSUME NEW q \in Posts
               PROVE  InLine(at'[q], method'[q], ok'[q], reply'[q], KindsIn(rows', q))
    BY DEF AllInLine
  <2>1. CASE q = p
    BY <1>1, <1>2, <1>3, <2>1
  <2>2. CASE q # p
    BY <1>1, <1>2, <1>3, <2>2 DEF ServerInv, AllInLine
  <2> QED
    BY <2>1, <2>2
<1> QED
  BY <1>5, <1>6, <1>7, <1>8, <1>9, <1>10, <1>11, <1>12 DEF ServerInv

\* Only one handler moves, and leaves the rows as they are.
LEMMA QuietInv ==
  ASSUME ServerInv, ServerTypeOK', NEW p \in Posts, UNCHANGED rows,
         NEW stage \in Stages \ {"user"}, Go(p, stage), Busy(p) \/ LoopFree,
         \A q \in Posts \ {p} :
           /\ method'[q] = method[q] /\ conversation'[q] = conversation[q]
           /\ ok'[q] = ok[q] /\ reply'[q] = reply[q],
         opened \subseteq opened',
         conversation'[p] \in {NoId} \cup Supplied \cup opened',
         stage \in {"received", "running", "agent", "sent"} => conversation'[p] # NoId,
         conversation'[p] = conversation[p] \/ Mine(rows, p) = {},
         stage \in {"new", "conversation", "received"} => Mine(rows, p) = {},
         stage = "sent" => ok'[p] = FALSE,
         InLine(stage, method'[p], ok'[p], reply'[p], KindsIn(rows, p))
  PROVE  ServerInv'
<1>1. at'[p] = stage /\ \A q \in Posts \ {p} : at'[q] = at[q]
  BY DEF Go, ServerInv, ServerTypeOK
<1>2. \A q \in Posts \ {p} : ~Busy(q)
  BY DEF ServerInv, OneBusy, LoopFree
<1>3. OneBusy'
  BY <1>1, <1>2 DEF OneBusy, Busy
<1>4. Named'
  BY <1>1 DEF ServerInv, Named
<1>5. RowsOwn'
  <2>1. \A i \in DOMAIN rows : rows[i].by \in Posts
    <3>1. \A i \in DOMAIN rows : rows[i] \in Rows
      BY DEF ServerInv, ServerTypeOK
    <3> QED
      BY <3>1 DEF Rows
  <2>2. \A i \in DOMAIN rows : conversation'[rows[i].by] = conversation[rows[i].by]
    <3>1. ASSUME NEW i \in DOMAIN rows, rows[i].by = p
          PROVE  conversation'[p] = conversation[p]
      <4>1. i \in Mine(rows, p)
        BY <3>1 DEF Mine
      <4> QED
        BY <4>1
    <3> QED
      BY <2>1, <3>1
  <2>3. \A q \in Posts : at'[q] \in {"new", "conversation", "received"} => Mine(rows, q) = {}
    BY <1>1 DEF ServerInv, RowsOwn
  <2> QED
    BY <2>2, <2>3 DEF ServerInv, RowsOwn
<1>6. LastRow'
  BY <1>1 DEF ServerInv, LastRow
<1>7. RowsAdjacent' /\ AllNumbered'
  BY DEF ServerInv, RowsAdjacent, AllNumbered
<1>8. AllInLine'
  <2> SUFFICES ASSUME NEW q \in Posts
               PROVE  InLine(at'[q], method'[q], ok'[q], reply'[q], KindsIn(rows, q))
    BY DEF AllInLine
  <2>1. CASE q = p
    BY <1>1, <2>1
  <2>2. CASE q # p
    BY <1>1, <2>2 DEF ServerInv, AllInLine
  <2> QED
    BY <2>1, <2>2
<1> QED
  BY <1>3, <1>4, <1>5, <1>6, <1>7, <1>8 DEF ServerInv

\* A request without rows has no kinds.
LEMMA NoRowsNoKinds ==
  ASSUME ServerInv, NEW p \in Posts, at[p] \in {"new", "conversation", "received"}
  PROVE  Mine(rows, p) = {} /\ KindsIn(rows, p) = <<>> /\ reply[p] = "none"
<1>1. Mine(rows, p) = {}
  BY DEF ServerInv, RowsOwn
<1>2. reply[p] = "none"
  BY DEF ServerInv, AllInLine, InLine
<1> QED
  BY <1>1, <1>2, KindsOfNone

\* The conversations that clients have been told of have their rows, or are
\* theirs.
LEMMA ReturnedNamed ==
  ASSUME ServerInv
  PROVE  Returned \subseteq {NoId} \cup Supplied \cup opened
BY DEF Returned, ServerInv, Named

\* A request begins.
LEMMA ReceiveInv ==
  ASSUME ServerInv, NEW p \in Posts, NEW m \in Methods, NEW c \in Conversations \cup {NoId},
         Receive(p, m, c)
  PROVE  ServerInv'
<1> DEFINE stage == IF c = NoId THEN "conversation" ELSE "received"
<1>1. Mine(rows, p) = {} /\ KindsIn(rows, p) = <<>> /\ reply[p] = "none"
  BY NoRowsNoKinds DEF Receive
<1>2. stage \in Stages \ {"user"} /\ Go(p, stage) /\ LoopFree
  BY DEF Receive, Stages, Commits
<1>3. ServerTypeOK'
  BY <1>2 DEF Receive, ServerInv, ServerTypeOK, Go
<1>4. /\ method'[p] = m /\ conversation'[p] = c
      /\ \A q \in Posts \ {p} : method'[q] = method[q] /\ conversation'[q] = conversation[q]
      /\ UNCHANGED <<ok, reply, opened, rows>>
  BY DEF Receive, ServerInv, ServerTypeOK
<1>5. c \in {NoId} \cup Supplied \cup opened
  BY ReturnedNamed DEF Receive
<1>6. InLine(stage, m, ok[p], reply[p], KindsIn(rows, p))
  BY <1>1 DEF InLine
<1>7. stage \in {"received", "running", "agent", "sent"} => c # NoId
  OBVIOUS
<1>8. stage # "sent"
  OBVIOUS
<1> HIDE DEF stage
<1> QED
  BY <1>1, <1>2, <1>3, <1>4, <1>5, <1>6, <1>7, <1>8, QuietInv

\* A request is refused before anything is written.
LEMMA RefuseInv ==
  ASSUME ServerInv, NEW p \in Posts, Refuse(p)
  PROVE  ServerInv'
<1>1. Mine(rows, p) = {} /\ KindsIn(rows, p) = <<>> /\ reply[p] = "none"
  BY NoRowsNoKinds DEF Refuse
<1>2. /\ Go(p, "raise") /\ LoopFree
      /\ UNCHANGED <<method, conversation, ok, reply, opened, rows, life>>
  BY DEF Refuse
<1>3. ServerTypeOK'
  BY <1>2 DEF ServerInv, ServerTypeOK, Go, Stages
<1>4. InLine("raise", method[p], ok[p], reply[p], KindsIn(rows, p))
  BY <1>1 DEF InLine
<1>5. conversation[p] \in {NoId} \cup Supplied \cup opened
  BY DEF ServerInv, Named
<1>6. "raise" \in Stages \ {"user"}
  BY DEF Stages
<1> QED
  BY <1>1, <1>2, <1>3, <1>4, <1>5, <1>6, QuietInv

\* A conversation is opened, under the name of the request.
LEMMA OpenConversationInv ==
  ASSUME ServerInv, NEW p \in Posts, OpenConversation(p)
  PROVE  ServerInv'
<1>1. Mine(rows, p) = {} /\ KindsIn(rows, p) = <<>> /\ reply[p] = "none"
  BY NoRowsNoKinds DEF OpenConversation
<1>2. /\ Go(p, "received") /\ Busy(p) /\ opened' = opened \cup {p} /\ p # NoId
      /\ UNCHANGED <<method, ok, reply, rows, life>>
  BY ServerAssumption DEF OpenConversation, Busy, Commits
<1>3. conversation'[p] = p /\ \A q \in Posts \ {p} : conversation'[q] = conversation[q]
  BY DEF OpenConversation, ServerInv, ServerTypeOK
<1>4. ServerTypeOK'
  BY <1>2 DEF OpenConversation, ServerInv, ServerTypeOK, Go, Stages, Commits, Conversations
<1>5. InLine("received", method[p], ok[p], reply[p], KindsIn(rows, p))
  BY <1>1 DEF InLine
<1>6. "received" \in Stages \ {"user"}
  BY DEF Stages, Commits
<1> QED
  BY <1>1, <1>2, <1>3, <1>4, <1>5, <1>6, QuietInv

\* A handler that is past its audit event ends, or goes on without a row.
LEMMA LeaveInv ==
  ASSUME ServerInv, ServerTypeOK', NEW p \in Posts, NEW stage \in {"agent", "sent", "raise", "done"},
         Go(p, stage), Busy(p) \/ LoopFree,
         UNCHANGED <<method, conversation, opened, rows>>,
         \A q \in Posts \ {p} : ok'[q] = ok[q] /\ reply'[q] = reply[q],
         stage \in {"agent", "sent"} => at[p] = "running",
         stage = "sent" => ok'[p] = FALSE,
         InLine(stage, method[p], ok'[p], reply'[p], KindsIn(rows, p))
  PROVE  ServerInv'
<1>1. conversation[p] \in {NoId} \cup Supplied \cup opened
  BY DEF ServerInv, Named
<1>2. stage \in {"received", "running", "agent", "sent"} => conversation[p] # NoId
  BY DEF ServerInv, Named
<1>3. stage \in Stages \ {"user"}
  BY DEF Stages, Commits
<1> QED
  BY <1>1, <1>2, <1>3, QuietInv

\* The runner returns or raises.
LEMMA RunnerInv ==
  ASSUME ServerInv, NEW p \in Posts, Runner(p)
  PROVE  ServerInv'
<1>1. ASSUME NEW good \in BOOLEAN, RunnerReturns(p, good)
      PROVE  ServerInv'
  <2> DEFINE stage == IF good THEN "agent" ELSE "sent"
  <2>1. /\ at[p] = "running" /\ LoopFree /\ Go(p, stage) /\ stage \in {"agent", "sent"}
        /\ UNCHANGED <<method, conversation, reply, opened, rows, life>>
    BY <1>1 DEF RunnerReturns
  <2>2. ok'[p] = good /\ \A q \in Posts \ {p} : ok'[q] = ok[q]
    BY <1>1 DEF RunnerReturns, ServerInv, ServerTypeOK
  <2>3. ServerTypeOK'
    BY <1>1 DEF RunnerReturns, ServerInv, ServerTypeOK, Go, Stages, Commits
  <2>4. /\ method[p] = "message/send" /\ reply[p] = "none"
        /\ KindsIn(rows, p) = <<"received", "user">>
    BY <2>1 DEF ServerInv, AllInLine, InLine
  <2>5. CASE good = TRUE
    <3>1. stage = "agent" /\ ok'[p] = TRUE
      BY <2>2, <2>5
    <3> HIDE DEF stage
    <3>2. InLine(stage, method[p], ok'[p], reply'[p], KindsIn(rows, p))
      BY <2>1, <2>4, <3>1 DEF InLine
    <3> QED
      BY <2>1, <2>2, <2>3, <3>1, <3>2, LeaveInv
  <2>6. CASE good = FALSE
    <3>1. stage = "sent" /\ ok'[p] = FALSE
      BY <2>2, <2>6
    <3> HIDE DEF stage
    <3>2. InLine(stage, method[p], ok'[p], reply'[p], KindsIn(rows, p))
      BY <2>1, <2>4, <3>1 DEF InLine
    <3> QED
      BY <2>1, <2>2, <2>3, <3>1, <3>2, LeaveInv
  <2> QED
    BY <2>5, <2>6
<1>2. CASE RunnerRaises(p)
  <2>1. /\ at[p] = "running" /\ LoopFree /\ Go(p, "raise")
        /\ UNCHANGED <<method, conversation, ok, reply, opened, rows, life>>
    BY <1>2 DEF RunnerRaises
  <2>2. ServerTypeOK'
    BY <2>1 DEF ServerInv, ServerTypeOK, Go, Stages
  <2>3. InLine("raise", method[p], ok[p], reply[p], KindsIn(rows, p))
    BY <2>1 DEF ServerInv, AllInLine, InLine
  <2> QED
    BY <2>1, <2>2, <2>3, LeaveInv
<1> QED
  BY <1>1, <1>2 DEF Runner

\* A sequence that goes on with x.
LEMMA IsAppended ==
  ASSUME NEW s \in Seq(Kinds), NEW x \in Kinds, NEW t \in Seq(Kinds),
         Len(t) = Len(s) + 1, t[Len(t)] = x, \A i \in 1 .. Len(s) : t[i] = s[i]
  PROVE  Append(s, x) = t
<1>1. Append(s, x) \in Seq(Kinds) /\ Len(Append(s, x)) = Len(t)
  BY AppendProperties
<1>2. \A i \in 1 .. Len(t) : Append(s, x)[i] = t[i]
  BY AppendProperties
<1> QED
  BY <1>1, <1>2, SeqEqual

\* The kinds that a row is appended to, spelt out.
LEMMA KindsGrow ==
  /\ <<>> \in Seq(Kinds) /\ <<"received">> \in Seq(Kinds) /\ <<"received", "user">> \in Seq(Kinds)
  /\ <<"received", "user", "agent">> \in Seq(Kinds)
  /\ Append(<<>>, "received") = <<"received">>
  /\ Append(<<"received">>, "user") = <<"received", "user">>
  /\ Append(<<"received", "user">>, "agent") = <<"received", "user", "agent">>
  /\ Append(<<"received", "user">>, "sent_failed") = Log!Failed
  /\ Append(<<"received", "user", "agent">>, "sent") = Log!Served
<1> DEFINE r == <<"received">>
           u == <<"received", "user">>
           a == <<"received", "user", "agent">>
<1>1. /\ <<>> \in Seq(Kinds)
      /\ r \in Seq(Kinds) /\ Len(r) = 1 /\ r[1] = "received"
  BY DEF Kinds
<1>2. u \in Seq(Kinds) /\ Len(u) = 2 /\ u[1] = "received" /\ u[2] = "user"
  BY DEF Kinds
<1>3. a \in Seq(Kinds) /\ Len(a) = 3 /\ a[1] = "received" /\ a[2] = "user" /\ a[3] = "agent"
  BY DEF Kinds
<1>4. /\ Log!Failed \in Seq(Kinds) /\ Len(Log!Failed) = 3
      /\ Log!Failed[1] = "received" /\ Log!Failed[2] = "user" /\ Log!Failed[3] = "sent_failed"
  BY DEF Log!Failed, Kinds
<1>5. /\ Log!Served \in Seq(Kinds) /\ Len(Log!Served) = 4
      /\ Log!Served[1] = "received" /\ Log!Served[2] = "user"
      /\ Log!Served[3] = "agent" /\ Log!Served[4] = "sent"
  BY DEF Log!Served, Kinds
<1>6. Append(<<>>, "received") = r
  OBVIOUS
<1>7. Kinds = {"received", "user", "agent", "sent", "sent_failed"}
  BY DEF Kinds
<1> HIDE DEF r, u, a
<1>8. Append(r, "user") = u
  <2>1. Len(u) = Len(r) + 1 /\ u[Len(u)] = "user" /\ \A i \in 1 .. Len(r) : u[i] = r[i]
    BY <1>1, <1>2
  <2> QED
    BY <1>1, <1>2, <1>7, <2>1, IsAppended
<1>9. Append(u, "agent") = a
  BY <1>2, <1>3, <1>7, IsAppended
<1>10. Append(u, "sent_failed") = Log!Failed
  BY <1>2, <1>4, <1>7, IsAppended
<1>11. Append(a, "sent") = Log!Served
  <2> DEFINE t == Log!Served
  <2>1. t \in Seq(Kinds) /\ Len(t) = Len(a) + 1 /\ t[Len(t)] = "sent"
    BY <1>3, <1>5
  <2>2. \A i \in 1 .. Len(a) : i = 1 \/ i = 2 \/ i = 3
    BY <1>3
  <2>3. \A i \in 1 .. Len(a) : t[i] = a[i]
    BY <1>3, <1>5, <2>2
  <2> HIDE DEF t
  <2>4. Append(a, "sent") = t
    BY <1>3, <1>7, <2>1, <2>3, IsAppended
  <2> QED
    BY <2>4 DEF t
<1> QED
  BY <1>1, <1>2, <1>3, <1>6, <1>8, <1>9, <1>10, <1>11 DEF r, u, a

\* The audit event of a request that is received.
LEMMA AuditReceivedInv ==
  ASSUME ServerInv, NEW p \in Posts, AuditReceived(p)
  PROVE  ServerInv'
<1>1. at[p] = "received" /\ Insert(p, "received") /\ UNCHANGED ok
  BY DEF AuditReceived
<1>2. KindsIn(rows, p) = <<>> /\ reply[p] = "none"
  BY <1>1, NoRowsNoKinds
<1>3. PICK stage \in After(method[p]) : Go(p, stage)
  BY DEF AuditReceived
<1>4. method[p] \in Methods \cup {"none"}
  BY DEF ServerInv, ServerTypeOK
<1>5. /\ stage \in {"user", "reply", "raise"}
      /\ stage = "user" => method[p] = "message/send"
      /\ stage = "reply" => method[p] = "read"
  BY <1>3, <1>4 DEF After, Methods
<1>6. Append(KindsIn(rows, p), "received") = <<"received">> /\ KindsIn(rows, p) \in Seq(Kinds)
  BY <1>2, KindsGrow
<1>7. InLine(stage, method[p], ok[p], reply[p], <<"received">>)
  BY <1>2, <1>5 DEF InLine
<1>8. "received" \in Kinds
  BY DEF Kinds
<1> QED
  BY <1>1, <1>3, <1>5, <1>6, <1>7, <1>8, InsertInv

\* The user message.
LEMMA StoreUserMessageInv ==
  ASSUME ServerInv, NEW p \in Posts, StoreUserMessage(p)
  PROVE  ServerInv'
<1>1. at[p] = "user" /\ Insert(p, "user") /\ Go(p, "running") /\ UNCHANGED ok
  BY DEF StoreUserMessage
<1>2. /\ KindsIn(rows, p) = <<"received">> /\ reply[p] = "none" /\ method[p] = "message/send"
  BY <1>1 DEF ServerInv, AllInLine, InLine
<1>3. /\ Append(KindsIn(rows, p), "user") = <<"received", "user">>
      /\ KindsIn(rows, p) \in Seq(Kinds)
  BY <1>2, KindsGrow
<1>4. InLine("running", method[p], ok[p], reply[p], <<"received", "user">>)
  BY <1>2 DEF InLine
<1>5. "user" \in Kinds
  BY DEF Kinds
<1> QED
  BY <1>1, <1>3, <1>4, <1>5, InsertInv

\* The agent message.
LEMMA StoreAgentMessageInv ==
  ASSUME ServerInv, NEW p \in Posts, StoreAgentMessage(p)
  PROVE  ServerInv'
<1>1. at[p] = "agent" /\ Insert(p, "agent") /\ Go(p, "sent") /\ UNCHANGED ok
  BY DEF StoreAgentMessage
<1>2. /\ KindsIn(rows, p) = <<"received", "user">> /\ reply[p] = "none"
      /\ method[p] = "message/send" /\ ok[p] = TRUE
  BY <1>1 DEF ServerInv, AllInLine, InLine
<1>3. /\ Append(KindsIn(rows, p), "agent") = <<"received", "user", "agent">>
      /\ KindsIn(rows, p) \in Seq(Kinds)
  BY <1>2, KindsGrow
<1>4. InLine("sent", method[p], ok[p], reply[p], <<"received", "user", "agent">>)
  BY <1>2 DEF InLine
<1>5. "agent" \in Kinds
  BY DEF Kinds
<1> QED
  BY <1>1, <1>3, <1>4, <1>5, InsertInv

\* The audit event of the outcome.
LEMMA AuditSentInv ==
  ASSUME ServerInv, NEW p \in Posts, AuditSent(p)
  PROVE  ServerInv'
<1>1. at[p] = "sent" /\ Go(p, "reply") /\ UNCHANGED ok
  BY DEF AuditSent
<1>2. reply[p] = "none" /\ method[p] = "message/send" /\ ok[p] \in BOOLEAN
  BY <1>1 DEF ServerInv, AllInLine, InLine, ServerTypeOK
<1>3. "sent" \in Kinds /\ "sent_failed" \in Kinds
  BY DEF Kinds
<1>4. CASE ok[p] = TRUE
  <2>1. Insert(p, "sent")
    BY <1>4 DEF AuditSent
  <2>2. KindsIn(rows, p) = <<"received", "user", "agent">>
    BY <1>1, <1>4 DEF ServerInv, AllInLine, InLine
  <2>3. Append(KindsIn(rows, p), "sent") = Log!Served /\ KindsIn(rows, p) \in Seq(Kinds)
    BY <2>2, KindsGrow
  <2>4. InLine("reply", method[p], ok[p], reply[p], Log!Served)
    BY <1>2, <1>4 DEF InLine
  <2> QED
    BY <1>1, <1>3, <1>4, <2>1, <2>3, <2>4, InsertInv
<1>5. CASE ok[p] = FALSE
  <2>1. Insert(p, "sent_failed")
    BY <1>5 DEF AuditSent
  <2>2. KindsIn(rows, p) = <<"received", "user">>
    BY <1>1, <1>5 DEF ServerInv, AllInLine, InLine
  <2>3. Append(KindsIn(rows, p), "sent_failed") = Log!Failed /\ KindsIn(rows, p) \in Seq(Kinds)
    BY <2>2, KindsGrow
  <2>4. InLine("reply", method[p], ok[p], reply[p], Log!Failed)
    BY <1>2, <1>5 DEF InLine
  <2> QED
    BY <1>1, <1>3, <1>5, <2>1, <2>3, <2>4, InsertInv
<1> QED
  BY <1>2, <1>4, <1>5

\* A handler that ends, with an exception or a reply.
LEMMA EndInv ==
  ASSUME ServerInv, NEW p \in Posts, Raise(p) \/ Reply(p)
  PROVE  ServerInv'
<1>1. PICK rep \in Replies : reply' = [reply EXCEPT ![p] = rep]
  BY DEF Raise, Reply, Replies
<1>2. /\ Go(p, "done") /\ Busy(p)
      /\ UNCHANGED <<method, conversation, ok, opened, rows, life>>
  BY DEF Raise, Reply, Busy
<1>3. ServerTypeOK'
  BY <1>1, <1>2 DEF ServerInv, ServerTypeOK, Go, Stages
<1>4. (method[p] = "message/send" /\ reply'[p] = "result") => KindsIn(rows, p) = Log!Served
  <2>1. CASE Raise(p)
    BY <2>1 DEF Raise, ServerInv, ServerTypeOK
  <2>2. CASE Reply(p) /\ ok[p] = TRUE
    BY <2>2 DEF Reply, ServerInv, AllInLine, InLine
  <2>3. CASE Reply(p) /\ ok[p] = FALSE
    BY <2>3 DEF Reply, ServerInv, ServerTypeOK
  <2>4. ok[p] \in BOOLEAN
    BY DEF ServerInv, ServerTypeOK
  <2> QED
    BY <2>1, <2>2, <2>3, <2>4
<1>5. InLine("done", method[p], ok[p], reply'[p], KindsIn(rows, p))
  <2>1. reply'[p] = "result" => method[p] \in {"message/send", "read"}
    <3>1. CASE Raise(p)
      BY <3>1 DEF Raise, ServerInv, ServerTypeOK
    <3>2. CASE Reply(p)
      BY <3>2 DEF Reply, ServerInv, AllInLine, InLine
    <3> QED
      BY <3>1, <3>2
  <2> QED
    BY <1>4, <2>1 DEF InLine
<1>6. \A q \in Posts \ {p} : reply'[q] = reply[q]
  BY <1>1 DEF ServerInv, ServerTypeOK
<1> QED
  BY <1>2, <1>3, <1>5, <1>6, LeaveInv

\* A restart loses the handlers and keeps the rows.
LEMMA RestartInv ==
  ASSUME ServerInv, Restart
  PROVE  ServerInv'
<1>1. /\ at' \in [Posts -> Stages]
      /\ \A p \in Posts : at'[p] = "lost" \/ (at'[p] = at[p] /\ ~Busy(p) /\ at[p] # "running")
      /\ UNCHANGED <<method, conversation, ok, reply, opened, rows>>
      /\ life' \in 0 .. MaxRestarts
  BY ServerAssumption DEF Restart, ServerInv, ServerTypeOK, Stages
<1>2. ServerTypeOK'
  BY <1>1 DEF ServerInv, ServerTypeOK
<1>3. OneBusy' /\ Named' /\ LastRow'
  BY <1>1 DEF ServerInv, OneBusy, Named, LastRow, Busy, Commits
<1>4. RowsOwn'
  BY <1>1 DEF ServerInv, RowsOwn, Busy, Commits
<1>5. RowsAdjacent' /\ AllNumbered'
  BY <1>1 DEF ServerInv, RowsAdjacent, AllNumbered
<1>6. AllInLine'
  <2> SUFFICES ASSUME NEW p \in Posts
               PROVE  InLine(at'[p], method[p], ok[p], reply[p], KindsIn(rows, p))
    BY <1>1 DEF AllInLine
  <2>1. InLine(at[p], method[p], ok[p], reply[p], KindsIn(rows, p))
    BY DEF ServerInv, AllInLine
  <2>2. CASE at'[p] = "lost"
    <3>1. reply[p] = "none" \/ at[p] = "done"
      BY <2>1 DEF InLine
    <3>2. at[p] # "done"
      BY <2>2 DEF Restart, Busy, Commits
    <3> QED
      BY <2>2, <3>1, <3>2 DEF InLine
  <2> QED
    BY <1>1, <2>1, <2>2
<1> QED
  BY <1>2, <1>3, <1>4, <1>5, <1>6 DEF ServerInv

\* The database is empty at first.
LEMMA ServerInitInv == ServerInit => ServerInv
<1> SUFFICES ASSUME ServerInit
             PROVE  ServerInv
  OBVIOUS
<1>1. ServerTypeOK
  BY ServerAssumption DEF ServerInit, ServerTypeOK, Stages, Replies
<1>2. OneBusy /\ Named /\ LastRow /\ RowsAdjacent
  BY DEF ServerInit, OneBusy, Named, LastRow, RowsAdjacent, Busy, Commits
<1>3. \A p : Mine(rows, p) = {}
  BY DEF ServerInit, Mine
<1>4. RowsOwn /\ AllNumbered
  BY <1>3, KindsOfNone DEF ServerInit, RowsOwn, AllNumbered
<1>5. AllInLine
  <2>1. \A p : KindsIn(rows, p) = <<>>
    BY <1>3, KindsOfNone
  <2> QED
    BY DEF ServerInit, AllInLine, InLine
<1> QED
  BY <1>1, <1>2, <1>4, <1>5 DEF ServerInv

\* Every step of the server keeps the invariant.
LEMMA ServerNextInv ==
  ASSUME ServerInv, [ServerNext]_svars
  PROVE  ServerInv'
<1>1. CASE \E p \in Posts : Handle(p)
  BY <1>1, OpenConversationInv, AuditReceivedInv, StoreUserMessageInv, StoreAgentMessageInv,
     AuditSentInv, EndInv DEF Handle
<1>2. CASE UNCHANGED svars
  BY <1>2 DEF svars, ServerInv, ServerTypeOK, OneBusy, Named, RowsOwn, LastRow, RowsAdjacent,
     AllNumbered, AllInLine, Busy
<1> QED
  BY <1>1, <1>2, ReceiveInv, RefuseInv, RunnerInv, RestartInv DEF ServerNext

-----------------------------------------------------------------------------
\* The inductive invariant holds of every behaviour.
THEOREM ServerInvariant == ServerSpec => []ServerInv
BY ServerInitInv, ServerNextInv, PTL DEF ServerSpec

\* The user message follows its a2a.request.received event, and
\* a2a.response.sent its agent message, with no row of another request between.
THEOREM ServerRowsAdjacent == ServerSpec => []RowsAdjacent
<1>1. ServerInv => RowsAdjacent
  BY DEF ServerInv
<1> QED
  BY <1>1, ServerInvariant, PTL

\* What the invariant says of the conversations of rows.
LEMMA OneConversation == ServerInv => OwnConversation
<1> SUFFICES ASSUME ServerInv
             PROVE  OwnConversation
  OBVIOUS
<1>1. \A i \in DOMAIN rows : rows[i] \in Rows /\ rows[i].conversation = conversation[rows[i].by]
  BY DEF ServerInv, ServerTypeOK, RowsOwn
<1>2. \A i \in DOMAIN rows : rows[i].conversation \in Supplied \cup opened
  BY <1>1, ServerAssumption DEF ServerInv, Named, Rows, Conversations
<1> QED
  BY <1>1, <1>2 DEF OwnConversation

\* A request keeps to one conversation, which a client named or which has its
\* row before anything refers to it.
THEOREM ServerOwnConversation == ServerSpec => []OwnConversation
BY OneConversation, ServerInvariant, PTL

-----------------------------------------------------------------------------
(* The refinement of RequestLog.                                           *)

\* What the client of a message/send is told of its outcome.
ToldOf(m, rep) ==
  IF m = "message/send" /\ rep \in {"result", "error"} THEN rep ELSE "nothing"

\* A step that changes neither what the rows say nor what clients are told.
LEMMA LogStutters ==
  ASSUME UNCHANGED rows,
         \A p \in Posts : ToldOf(method'[p], reply'[p]) = ToldOf(method[p], reply[p])
  PROVE  UNCHANGED Log!lvars
<1>1. [p \in Posts |-> KindsIn(rows', p)] = [p \in Posts |-> KindsIn(rows, p)]
  OBVIOUS
<1>2. [p \in Posts |-> ToldOf(method'[p], reply'[p])] = [p \in Posts |-> ToldOf(method[p], reply[p])]
  OBVIOUS
<1> QED
  BY <1>1, <1>2 DEF Log!lvars, KindsOf, ToldOf

\* The beginnings of the two paths that handlers go along.
LEMMA Paths ==
  /\ Log!Begins(<<"received">>, Log!Served)
  /\ Log!Begins(<<"received", "user">>, Log!Served)
  /\ Log!Begins(<<"received", "user", "agent">>, Log!Served)
  /\ Log!Begins(Log!Served, Log!Served)
  /\ Log!Begins(Log!Failed, Log!Failed)
BY DEF Log!Begins, Log!Served, Log!Failed

\* A row along one of the paths is a record of the log.
LEMMA InsertRecords ==
  ASSUME ServerInv, NEW p \in Posts, at[p] \in {"received", "user", "agent", "sent"},
         NEW kind \in Kinds, Insert(p, kind), KindsIn(rows, p) \in Seq(Kinds),
         \/ Log!Begins(Append(KindsIn(rows, p), kind), Log!Served)
         \/ Log!Begins(Append(KindsIn(rows, p), kind), Log!Failed)
  PROVE  Log!LNext
<1>1. /\ KindsIn(rows', p) = Append(KindsIn(rows, p), kind)
      /\ \A q \in Posts \ {p} : KindsIn(rows', q) = KindsIn(rows, q)
  BY InsertRows
<1>2. UNCHANGED <<method, reply>> /\ reply[p] = "none"
  BY DEF Insert, ServerInv, AllInLine, InLine
<1>3. [q \in Posts |-> KindsIn(rows', q)]
        = [[q \in Posts |-> KindsIn(rows, q)] EXCEPT ![p] = Append(@, kind)]
  BY <1>1
<1>4. Log!Record(p, kind)
  BY <1>2, <1>3 DEF Log!Record, KindsOf
<1> QED
  BY <1>4 DEF Log!LNext, Kinds

\* The log is empty at first.
LEMMA LogInit == ServerInit => Log!LInit
<1> SUFFICES ASSUME ServerInit
             PROVE  Log!LInit
  OBVIOUS
<1>1. \A p \in Posts : KindsIn(rows, p) = <<>>
  BY KindsOfNone DEF ServerInit, Mine
<1> QED
  BY <1>1 DEF ServerInit, Log!LInit, KindsOf

\* The steps of a handler are those of the log, or none.
LEMMA HandleLogs ==
  ASSUME ServerInv, NEW p \in Posts, Handle(p)
  PROVE  Log!LNext \/ UNCHANGED Log!lvars
<1>1. InLine(at[p], method[p], ok[p], reply[p], KindsIn(rows, p)) /\ ok[p] \in BOOLEAN
  BY DEF ServerInv, AllInLine, ServerTypeOK
<1>2. Kinds = {"received", "user", "agent", "sent", "sent_failed"}
  BY DEF Kinds
<1>3. CASE OpenConversation(p)
  BY <1>3, LogStutters DEF OpenConversation
<1>4. CASE AuditReceived(p)
  <2>1. at[p] = "received" /\ Insert(p, "received") /\ KindsIn(rows, p) = <<>>
    BY <1>4, NoRowsNoKinds DEF AuditReceived
  <2> QED
    BY <1>2, <2>1, KindsGrow, Paths, InsertRecords
<1>5. CASE StoreUserMessage(p)
  <2>1. at[p] = "user" /\ Insert(p, "user") /\ KindsIn(rows, p) = <<"received">>
    BY <1>1, <1>5 DEF StoreUserMessage, InLine
  <2> QED
    BY <1>2, <2>1, KindsGrow, Paths, InsertRecords
<1>6. CASE StoreAgentMessage(p)
  <2>1. at[p] = "agent" /\ Insert(p, "agent") /\ KindsIn(rows, p) = <<"received", "user">>
    BY <1>1, <1>6 DEF StoreAgentMessage, InLine
  <2> QED
    BY <1>2, <2>1, KindsGrow, Paths, InsertRecords
<1>7. CASE AuditSent(p) /\ ok[p] = TRUE
  <2>1. at[p] = "sent" /\ Insert(p, "sent") /\ KindsIn(rows, p) = <<"received", "user", "agent">>
    BY <1>1, <1>7 DEF AuditSent, InLine
  <2> QED
    BY <1>2, <2>1, KindsGrow, Paths, InsertRecords
<1>8. CASE AuditSent(p) /\ ok[p] = FALSE
  <2>1. at[p] = "sent" /\ Insert(p, "sent_failed") /\ KindsIn(rows, p) = <<"received", "user">>
    BY <1>1, <1>8 DEF AuditSent, InLine
  <2> QED
    BY <1>2, <2>1, KindsGrow, Paths, InsertRecords
<1>9. CASE Raise(p)
  <2>1. reply[p] = "none"
    BY <1>1, <1>9 DEF Raise, InLine, Commits
  <2>2. \A q \in Posts : ToldOf(method'[q], reply'[q]) = ToldOf(method[q], reply[q])
    BY <1>9, <2>1 DEF Raise, ToldOf, ServerInv, ServerTypeOK
  <2> QED
    BY <1>9, <2>2, LogStutters DEF Raise
<1>10. CASE Reply(p) /\ method[p] # "message/send"
  <2>1. \A q \in Posts : ToldOf(method'[q], reply'[q]) = ToldOf(method[q], reply[q])
    BY <1>10 DEF Reply, ToldOf, ServerInv, ServerTypeOK
  <2> QED
    BY <1>10, <2>1, LogStutters DEF Reply
<1>11. CASE Reply(p) /\ method[p] = "message/send"
  <2>1. PICK what \in {"result", "error"} :
          /\ reply' = [reply EXCEPT ![p] = what]
          /\ what = "result" => KindsIn(rows, p) = Log!Served
          /\ what = "error" => KindsIn(rows, p) = Log!Failed
    <3>1. CASE ok[p] = TRUE
      BY <1>1, <1>11, <3>1 DEF Reply, InLine
    <3>2. CASE ok[p] = FALSE
      BY <1>1, <1>11, <3>2 DEF Reply, InLine
    <3> QED
      BY <1>1, <3>1, <3>2
  <2>2. UNCHANGED <<method, rows>> /\ reply[p] = "none"
    BY <1>1, <1>11 DEF Reply, InLine
  <2>3. [q \in Posts |-> ToldOf(method[q], reply'[q])]
          = [[q \in Posts |-> ToldOf(method[q], reply[q])] EXCEPT ![p] = what]
    BY <1>11, <2>1 DEF ToldOf, ServerInv, ServerTypeOK
  <2>4. Log!Tell(p, what)
    <3>1. [q \in Posts |-> KindsIn(rows', q)] = [q \in Posts |-> KindsIn(rows, q)]
      BY <2>2
    <3>2. ToldOf(method[p], reply[p]) = "nothing"
      BY <2>2 DEF ToldOf
    <3> QED
      BY <2>1, <2>2, <2>3, <3>1, <3>2 DEF Log!Tell, KindsOf, ToldOf
  <2> QED
    BY <2>4 DEF Log!LNext
<1> QED
  BY <1>1, <1>3, <1>4, <1>5, <1>6, <1>7, <1>8, <1>9, <1>10, <1>11 DEF Handle

\* So is every step of the server.
LEMMA LogSteps ==
  ASSUME ServerInv, [ServerNext]_svars
  PROVE  [Log!LNext]_Log!lvars
<1>1. ASSUME NEW p \in Posts, NEW m \in Methods, NEW c \in Conversations \cup {NoId}, Receive(p, m, c)
      PROVE  UNCHANGED Log!lvars
  <2>1. reply[p] = "none"
    BY <1>1, NoRowsNoKinds DEF Receive
  <2>2. \A q \in Posts : ToldOf(method'[q], reply'[q]) = ToldOf(method[q], reply[q])
    BY <1>1, <2>1 DEF Receive, ToldOf, ServerInv, ServerTypeOK
  <2> QED
    BY <1>1, <2>2, LogStutters DEF Receive
<1>2. ASSUME NEW p \in Posts, Handle(p)
      PROVE  [Log!LNext]_Log!lvars
  BY <1>2, HandleLogs
<1>3. CASE \/ \E p \in Posts : Refuse(p) \/ Runner(p)
           \/ Restart
           \/ UNCHANGED svars
  <2>1. UNCHANGED <<method, reply, rows>>
    BY <1>3 DEF Refuse, Runner, RunnerReturns, RunnerRaises, Restart, svars
  <2> QED
    BY <2>1, LogStutters
<1> QED
  BY <1>1, <1>2, <1>3 DEF ServerNext

\* The rows of a message/send grow along one of the two paths of RequestLog and
\* are complete before its client is told the outcome.
THEOREM ServerImplementsLog == ServerSpec => ImplementsLog
BY LogInit, LogSteps, ServerInvariant, PTL DEF ServerSpec, ImplementsLog, Log!LSpec
=============================================================================
