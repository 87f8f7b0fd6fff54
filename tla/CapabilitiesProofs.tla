------------------------- MODULE CapabilitiesProofs -------------------------
(***************************************************************************)
(* Proofs about Capabilities, for any set of calls, identifiers, schemes   *)
(* and handlers, and any number of restarts.                               *)
(***************************************************************************)
EXTENDS Capabilities, SequenceTheorems, TLAPS

\* Calls belong to this process life or an earlier one, and a handler that
\* runs to this one.
BornInLife ==
  \A c \in Calls : born[c] <= life /\ (phase[c] = "running" => born[c] = life)

\* The inductive invariant of the cache.
CacheInv == TypeOK /\ BornInLife /\ CacheFaithful /\ SuccessRemembered

\* The digest of a keyed request is one of the cache's indices.
LEMMA DigestType ==
  ASSUME NEW r \in Requests, r.key # NoKey
  PROVE  Digest(r) \in Digests
BY DEF Requests, Digest, Digests

\* A success is a result, and never the mark of an absent entry.
LEMMA OkType ==
  ASSUME NEW c \in Calls
  PROVE  Ok(c) \in Results /\ Ok(c).ok /\ Ok(c) # NoEntry
<1>1. Ok(c) \in Results /\ Ok(c).ok
  BY DEF Ok, Results, Codes
<1> QED
  BY <1>1, NoEntryAssumption

\* The failures invoke answers with.
Failures == {Fail(code, retryable) : code \in Codes, retryable \in BOOLEAN}

\* A failure is a result and no success, so that Remember stores nothing.
LEMMA FailType ==
  ASSUME NEW res \in Failures
  PROVE  res \in Results /\ ~res.ok
<1> PICK code \in Codes, retryable \in BOOLEAN : res = Fail(code, retryable)
  BY DEF Failures
<1> QED
  BY DEF Fail, Results

\* The failures after the await of invoke are among those considered here.
LEMMA FailuresAre ==
  /\ Fail("capability.invalid_uri", FALSE) \in Failures
  /\ Fail("capability.streaming_unsupported", FALSE) \in Failures
  /\ Fail("capability.cancelled", FALSE) \in Failures
  /\ Fail("capability.timeout", TRUE) \in Failures
  /\ Fail("capability.execution_error", FALSE) \in Failures
<1>1. \A code \in Codes, retryable \in BOOLEAN : Fail(code, retryable) \in Failures
  BY DEF Failures
<1> QED
  BY <1>1 DEF Codes

\* A registry without entries and without calls satisfies the invariant.
LEMMA InitCacheInv == Init => CacheInv
<1> SUFFICES ASSUME Init PROVE CacheInv
  OBVIOUS
<1>1. TypeOK
  BY CapabilitiesAssumption DEF Init, TypeOK, Phases
<1>2. BornInLife /\ CacheFaithful /\ SuccessRemembered
  BY DEF Init, BornInLife, CacheFaithful, SuccessRemembered, Succeeded
<1> QED
  BY <1>1, <1>2 DEF CacheInv

-----------------------------------------------------------------------------
\* Call c, made in this life, ends with res: its own success or a failure,
\* remembered under its digest.  Every way of ending a call is of this form.
Ends(c, res) ==
  /\ phase[c] \in {"new", "running"}
  /\ phase' = [phase EXCEPT ![c] = "done"]
  /\ result' = [result EXCEPT ![c] = res]
  /\ res \in Failures \/ res = Ok(c)
  /\ request'[c] \in Requests
  /\ request' = [request EXCEPT ![c] = request'[c]]
  /\ born' = [born EXCEPT ![c] = life]
  /\ cache' = Remember(request'[c], res)
  /\ life' = life

\* A call that ends keeps the types.
LEMMA EndsType ==
  ASSUME TypeOK, NEW c \in Calls, NEW res, Ends(c, res)
  PROVE  TypeOK'
<1>1. res \in Results
  BY OkType, FailType DEF Ends
<1>2. cache' \in [Digests -> Results \cup {NoEntry}]
  BY <1>1, DigestType DEF Ends, Remember, TypeOK
<1>3. /\ phase' \in [Calls -> Phases] /\ born' \in [Calls -> 0 .. MaxRestarts]
      /\ life' \in 0 .. MaxRestarts
  BY DEF Ends, TypeOK, Phases
<1>4. /\ request' \in [Calls -> Requests \cup {NoCall}]
      /\ \A d \in Calls : phase'[d] # "new" => request'[d] \in Requests
  BY DEF Ends, TypeOK
<1>5. /\ result' \in [Calls -> Results \cup {NoEntry}]
      /\ \A d \in Calls : phase'[d] = "done" => result'[d] \in Results
  BY <1>1 DEF Ends, TypeOK
<1> QED
  BY <1>2, <1>3, <1>4, <1>5 DEF TypeOK

\* A success of another call is still one, and nothing else becomes one.
LEMMA EndsSucceeded ==
  ASSUME TypeOK, NEW c \in Calls, NEW res, Ends(c, res), NEW p \in Calls
  PROVE  /\ Succeeded(p) => /\ p # c
                            /\ Succeeded(p)'
                            /\ request'[p] = request[p]
                            /\ result'[p] = result[p]
         /\ Succeeded(p)' => Succeeded(p) \/ (p = c /\ res = Ok(c) /\ request'[c].key # NoKey)
BY DEF Ends, Succeeded, TypeOK, Phases, Ok

\* A call that ends keeps the invariant: it stores its own success, or nothing.
LEMMA EndsCacheInv ==
  ASSUME CacheInv, NEW c \in Calls, NEW res, Ends(c, res)
  PROVE  CacheInv'
<1> USE DEF CacheInv
<1>1. TypeOK'
  BY EndsType
<1>2. BornInLife'
  BY CapabilitiesAssumption DEF Ends, BornInLife, TypeOK, Phases
<1>3. CacheFaithful'
  <2> SUFFICES ASSUME NEW d \in Digests, cache'[d] # NoEntry
               PROVE  \E p \in Calls : /\ Succeeded(p)'
                                       /\ Digest(request'[p]) = d
                                       /\ cache'[d] = result'[p]
    BY DEF CacheFaithful, Digest
  <2>1. CASE cache'[d] = cache[d]
    <3>1. PICK p \in Calls : Succeeded(p) /\ Digest(request[p]) = d /\ cache[d] = result[p]
      BY <2>1 DEF CacheFaithful
    <3> QED
      BY <2>1, <3>1, EndsSucceeded
  <2>2. CASE cache'[d] # cache[d]
    <3>1. res.ok /\ request'[c].key # NoKey /\ d = Digest(request'[c]) /\ cache'[d] = res
      BY <2>2 DEF Ends, Remember, TypeOK
    <3>2. res = Ok(c)
      BY <3>1, FailType DEF Ends
    <3>3. Succeeded(c)' /\ result'[c] = res
      BY <3>1, <3>2 DEF Ends, Succeeded, TypeOK, Ok
    <3> QED
      BY <3>1, <3>3
  <2> QED
    BY <2>1, <2>2
<1>4. SuccessRemembered'
  <2> SUFFICES ASSUME NEW p \in Calls, Succeeded(p)'
               PROVE  cache'[Digest(request'[p])] # NoEntry
    BY DEF SuccessRemembered, Digest
  <2>1. res.ok => res # NoEntry
    BY OkType, FailType DEF Ends
  <2>2. CASE Succeeded(p)
    <3>1. cache[Digest(request[p])] # NoEntry /\ request'[p] = request[p]
      BY <2>2, EndsSucceeded DEF SuccessRemembered
    <3> QED
      BY <3>1, <2>1 DEF Ends, Remember, TypeOK
  <2>3. CASE ~Succeeded(p)
    <3>1. p = c /\ res = Ok(c) /\ request'[c].key # NoKey
      BY <2>3, EndsSucceeded
    <3>2. Digest(request'[c]) \in Digests
      BY <3>1, DigestType DEF Ends
    <3> QED
      BY <3>1, <3>2, OkType DEF Ends, Remember, TypeOK
  <2> QED
    BY <2>2, <2>3
<1> QED
  BY <1>1, <1>2, <1>3, <1>4

\* invoke answers a call it does not look up in the cache, or looks up in vain.
LEMMA AnswerEnds ==
  ASSUME TypeOK, NEW c \in Calls, NEW r \in Requests, Answer(c, r), Cached(r) = NoEntry
  PROVE  Ends(c, Immediate(c, r))
<1>1. Immediate(c, r) \in Failures \/ Immediate(c, r) = Ok(c)
  BY FailuresAre DEF Immediate
<1>2. request'[c] = r
  BY DEF Answer, Enter, TypeOK
<1> QED
  BY <1>1, <1>2 DEF Answer, Enter, Ends

\* What follows the await on a handler ends the call.
LEMMA FinishEnds ==
  ASSUME TypeOK, BornInLife, NEW c \in Calls, Settle(c)
  PROVE  \E res : Ends(c, res)
<1>1. PICK res : Finish(c, res) /\ (res \in Failures \/ res = Ok(c))
  BY FailuresAre DEF Settle, HandlerReturns, HandlerTimesOut, HandlerRaises, Cancelled
<1>2. request[c] \in Requests
  BY <1>1 DEF Finish, TypeOK
<1>3. born' = [born EXCEPT ![c] = life] /\ request' = [request EXCEPT ![c] = request'[c]]
  BY <1>1 DEF Finish, TypeOK, BornInLife
<1>4. cache' = Remember(request'[c], res)
  BY <1>1 DEF Finish
<1>5. Ends(c, res)
  BY <1>1, <1>2, <1>3, <1>4 DEF Finish, Ends
<1> QED
  BY <1>5

\* A step that makes call c without ending it by a result of its own: it is
\* dispatched, or answered with the entry of its digest.
MakesOnly(c, r) ==
  /\ phase[c] = "new"
  /\ request' = [request EXCEPT ![c] = r]
  /\ born' = [born EXCEPT ![c] = life]
  /\ \/ /\ phase' = [phase EXCEPT ![c] = "running"]
        /\ result' = result
     \/ /\ phase' = [phase EXCEPT ![c] = "done"]
        /\ r.key # NoKey
        /\ cache[Digest(r)] # NoEntry
        /\ result' = [result EXCEPT ![c] = cache[Digest(r)]]
  /\ UNCHANGED <<cache, life>>

\* A call that reaches its handler, or hits the cache, leaves the cache alone.
LEMMA MakesOnlyCacheInv ==
  ASSUME CacheInv, NEW c \in Calls, NEW r \in Requests, MakesOnly(c, r)
  PROVE  CacheInv'
<1> USE DEF CacheInv
<1>1. r.key # NoKey => cache[Digest(r)] \in Results \cup {NoEntry}
  BY DigestType DEF TypeOK
<1>2. TypeOK'
  BY <1>1 DEF MakesOnly, TypeOK, Phases
<1>3. BornInLife'
  BY CapabilitiesAssumption DEF MakesOnly, BornInLife, TypeOK, Phases
<1>4. ~Succeeded(c)'
  <2> SUFFICES ASSUME Succeeded(c)' PROVE FALSE
    OBVIOUS
  <2>1. /\ r.key # NoKey
        /\ cache[Digest(r)] # NoEntry
        /\ cache[Digest(r)] = Ok(c)
    BY DEF Succeeded, MakesOnly, TypeOK, Phases, Ok
  <2>2. PICK p \in Calls : Succeeded(p) /\ result[p] = Ok(c)
    BY <2>1, DigestType DEF CacheFaithful
  <2>3. p = c
    BY <2>2 DEF Succeeded, Ok
  <2> QED
    BY <2>2, <2>3 DEF Succeeded, MakesOnly
<1>5. \A p \in Calls \ {c} : /\ Succeeded(p)' <=> Succeeded(p)
                             /\ request'[p] = request[p]
                             /\ result'[p] = result[p]
  BY DEF MakesOnly, Succeeded, TypeOK, Ok
<1>6. ~Succeeded(c)
  BY DEF MakesOnly, Succeeded
<1>7. CacheFaithful'
  <2> SUFFICES ASSUME NEW d \in Digests, cache[d] # NoEntry
               PROVE  \E p \in Calls : /\ Succeeded(p)'
                                       /\ Digest(request'[p]) = d
                                       /\ cache[d] = result'[p]
    BY DEF CacheFaithful, Digest, MakesOnly
  <2>1. PICK p \in Calls : Succeeded(p) /\ Digest(request[p]) = d /\ cache[d] = result[p]
    BY DEF CacheFaithful
  <2> QED
    BY <2>1, <1>5, <1>6
<1>8. SuccessRemembered'
  <2> SUFFICES ASSUME NEW p \in Calls, Succeeded(p)'
               PROVE  cache[Digest(request'[p])] # NoEntry
    BY DEF SuccessRemembered, Digest, MakesOnly
  <2> QED
    BY <1>4, <1>5 DEF SuccessRemembered
<1> QED
  BY <1>2, <1>3, <1>7, <1>8

\* A restart empties the cache, and the next life has no successes to remember.
LEMMA RestartCacheInv ==
  ASSUME CacheInv, Restart
  PROVE  CacheInv'
<1> USE CapabilitiesAssumption DEF CacheInv
<1>1. TypeOK'
  BY DEF Restart, TypeOK, Phases
<1>2. BornInLife'
  BY DEF Restart, BornInLife, TypeOK
<1>3. \A d \in Digests : cache'[d] = NoEntry
  BY DEF Restart
<1>4. \A p \in Calls : ~Succeeded(p)'
  BY DEF Restart, Succeeded, BornInLife, TypeOK
<1> QED
  BY <1>1, <1>2, <1>3, <1>4 DEF CacheFaithful, SuccessRemembered

\* What a step of the registry can be.
LEMMA StepForms ==
  ASSUME TypeOK, BornInLife, Next
  PROVE  \/ \E c \in Calls : \E res : Ends(c, res)
         \/ \E c \in Calls, r \in Requests : MakesOnly(c, r)
         \/ Restart
<1>1. ASSUME NEW c \in Calls, NEW r \in Requests, Answer(c, r)
      PROVE  (\E res : Ends(c, res)) \/ MakesOnly(c, r)
  <2>1. CASE Cached(r) = NoEntry
    BY <1>1, <2>1, AnswerEnds
  <2>2. CASE Cached(r) # NoEntry
    BY <1>1, <2>2 DEF Answer, Enter, MakesOnly, Cached, Immediate
  <2> QED
    BY <2>1, <2>2
<1>2. ASSUME NEW c \in Calls, NEW r \in Requests, Dispatch(c, r)
      PROVE  MakesOnly(c, r)
  BY <1>2 DEF Dispatch, Enter, MakesOnly
<1>3. ASSUME NEW c \in Calls, Settle(c)
      PROVE  \E res : Ends(c, res)
  BY <1>3, FinishEnds
<1> QED
  BY <1>1, <1>2, <1>3 DEF Next

\* The invariant is inductive: every step of the registry keeps it.
LEMMA NextCacheInv == CacheInv /\ [Next]_vars => CacheInv'
<1> SUFFICES ASSUME CacheInv, [Next]_vars PROVE CacheInv'
  OBVIOUS
<1>1. CASE Next
  BY <1>1, StepForms, EndsCacheInv, MakesOnlyCacheInv, RestartCacheInv DEF CacheInv
<1>2. CASE UNCHANGED vars
  BY <1>2 DEF vars, CacheInv, TypeOK, BornInLife, CacheFaithful, SuccessRemembered,
              Succeeded, Digest
<1> QED
  BY <1>1, <1>2

\* The inductive invariant holds in every reachable state.
THEOREM CacheInvariant == Spec => []CacheInv
BY InitCacheInv, NextCacheInv, PTL DEF Spec

\* Every variable of the registry has its type in every reachable state.
THEOREM TypeCorrect == Spec => []TypeOK
<1>1. CacheInv => TypeOK
  BY DEF CacheInv
<1> QED
  BY <1>1, CacheInvariant, PTL

\* Whatever calls race, fail or restart the process, an entry of the cache is
\* the answer of a call that ran and succeeded under that digest in this life.
THEOREM CacheIsFaithful == Spec => []CacheFaithful
<1>1. CacheInv => CacheFaithful
  BY DEF CacheInv
<1> QED
  BY <1>1, CacheInvariant, PTL

\* A digest whose call succeeded is remembered for the rest of the process
\* life, whatever other calls of it fail, race or are answered afterwards.
THEOREM SuccessIsRemembered == Spec => []SuccessRemembered
<1>1. CacheInv => SuccessRemembered
  BY DEF CacheInv
<1> QED
  BY <1>1, CacheInvariant, PTL

\* No handler is run for a keyed call made after a call of its digest
\* succeeded in this process life.
THEOREM NoRerunAfterSuccess == Spec => NoSequentialRerun
<1> DEFINE NoRerun ==
      \A c \in Calls :
        (phase[c] = "new" /\ phase'[c] = "running" /\ request'[c].key # NoKey) =>
          ~ \E p \in Calls : Succeeded(p) /\ Digest(request[p]) = Digest(request'[c])
<1>1. ASSUME CacheInv, Next PROVE NoRerun
  <2> SUFFICES ASSUME NEW c \in Calls, phase[c] = "new", phase'[c] = "running",
                      request'[c].key # NoKey, NEW p \in Calls, Succeeded(p),
                      Digest(request[p]) = Digest(request'[c])
               PROVE  FALSE
    OBVIOUS
  <2>1. cache[Digest(request'[c])] # NoEntry
    BY <1>1 DEF CacheInv, SuccessRemembered
  <2>2. PICK r \in Requests : Dispatch(c, r)
    <3>1. ASSUME NEW e \in Calls, NEW r \in Requests, Answer(e, r) PROVE FALSE
      BY <1>1, <3>1 DEF Answer, CacheInv, TypeOK
    <3>2. ASSUME NEW e \in Calls, NEW r \in Requests, Dispatch(e, r) PROVE Dispatch(c, r)
      BY <1>1, <3>2 DEF Dispatch, CacheInv, TypeOK
    <3>3. ASSUME NEW e \in Calls, Settle(e) PROVE FALSE
      BY <1>1, <3>3 DEF Settle, HandlerReturns, HandlerTimesOut, HandlerRaises, Cancelled,
                        Finish, CacheInv, TypeOK
    <3>4. ~Restart
      BY <1>1 DEF Restart, CacheInv, TypeOK
    <3> QED
      BY <1>1, <3>1, <3>2, <3>3, <3>4 DEF Next
  <2>3. request'[c] = r /\ Cached(r) = NoEntry
    BY <1>1, <2>2 DEF Dispatch, Dispatches, Enter, CacheInv, TypeOK
  <2> QED
    BY <2>1, <2>3 DEF Cached
<1>2. CacheInv /\ [Next]_vars => [NoRerun]_vars
  BY <1>1
<1> QED
  BY <1>2, CacheInvariant, PTL DEF Spec, NoSequentialRerun

-----------------------------------------------------------------------------
\* Every success can be traced to the call that ran for it: the call itself,
\* or a keyed call of the same digest and process life.
AnswersTraced ==
  \A c \in Calls : (phase[c] = "done" /\ result[c].ok) =>
    \E p \in Calls :
      /\ phase[p] = "done" /\ result[p] = Ok(p) /\ result[c] = Ok(p)
      /\ \/ p = c
         \/ /\ request[c].key # NoKey /\ request[p].key # NoKey
            /\ Digest(request[p]) = Digest(request[c])
            /\ born[p] = born[c]

\* A call that ends answers with its own output.
LEMMA EndsTraced ==
  ASSUME CacheInv, AnswersTraced, NEW c \in Calls, NEW res, Ends(c, res)
  PROVE  AnswersTraced'
<1> SUFFICES ASSUME NEW e \in Calls, phase'[e] = "done", result'[e].ok
             PROVE  \E p \in Calls :
                      /\ phase'[p] = "done" /\ result'[p] = Ok(p) /\ result'[e] = Ok(p)
                      /\ \/ p = e
                         \/ /\ request'[e].key # NoKey /\ request'[p].key # NoKey
                            /\ Digest(request'[p]) = Digest(request'[e])
                            /\ born'[p] = born'[e]
  BY DEF AnswersTraced, Ok, Digest
<1>1. CASE e = c
  <2>1. result'[c] = Ok(c)
    BY <1>1, FailType DEF Ends, CacheInv, TypeOK
  <2> QED
    BY <1>1, <2>1
<1>2. CASE e # c
  <2>1. PICK p \in Calls :
          /\ phase[p] = "done" /\ result[p] = Ok(p) /\ result[e] = Ok(p)
          /\ \/ p = e
             \/ /\ request[e].key # NoKey /\ request[p].key # NoKey
                /\ Digest(request[p]) = Digest(request[e])
                /\ born[p] = born[e]
    BY <1>2 DEF AnswersTraced, Ends, CacheInv, TypeOK
  <2>2. p # c
    BY <2>1 DEF Ends
  <2> QED
    BY <1>2, <2>1, <2>2 DEF Ends, CacheInv, TypeOK
<1> QED
  BY <1>1, <1>2

\* A replay is traced to the call that the replayed entry is traced to.
LEMMA MakesOnlyTraced ==
  ASSUME CacheInv, AnswersTraced, NEW c \in Calls, NEW r \in Requests, MakesOnly(c, r)
  PROVE  AnswersTraced'
<1> SUFFICES ASSUME NEW e \in Calls, phase'[e] = "done", result'[e].ok
             PROVE  \E p \in Calls :
                      /\ phase'[p] = "done" /\ result'[p] = Ok(p) /\ result'[e] = Ok(p)
                      /\ \/ p = e
                         \/ /\ request'[e].key # NoKey /\ request'[p].key # NoKey
                            /\ Digest(request'[p]) = Digest(request'[e])
                            /\ born'[p] = born'[e]
  BY DEF AnswersTraced, Ok, Digest
<1>1. CASE e = c
  <2>1. /\ r.key # NoKey /\ request'[c] = r /\ born'[c] = life
        /\ cache[Digest(r)] # NoEntry /\ result'[c] = cache[Digest(r)]
    BY <1>1 DEF MakesOnly, CacheInv, TypeOK
  <2>2. PICK p \in Calls : /\ Succeeded(p)
                           /\ Digest(request[p]) = Digest(r)
                           /\ cache[Digest(r)] = result[p]
    BY <2>1, DigestType DEF CacheInv, CacheFaithful
  <2>3. p # c
    BY <2>2 DEF MakesOnly, Succeeded
  <2> QED
    BY <1>1, <2>1, <2>2, <2>3 DEF MakesOnly, Succeeded, CacheInv, TypeOK
<1>2. CASE e # c
  <2>1. PICK p \in Calls :
          /\ phase[p] = "done" /\ result[p] = Ok(p) /\ result[e] = Ok(p)
          /\ \/ p = e
             \/ /\ request[e].key # NoKey /\ request[p].key # NoKey
                /\ Digest(request[p]) = Digest(request[e])
                /\ born[p] = born[e]
    BY <1>2 DEF AnswersTraced, MakesOnly, CacheInv, TypeOK
  <2>2. p # c
    BY <2>1 DEF MakesOnly
  <2> QED
    BY <1>2, <2>1, <2>2 DEF MakesOnly, CacheInv, TypeOK
<1> QED
  BY <1>1, <1>2

\* Every step of the registry keeps each answer traced to the call that produced it.
LEMMA NextTraced == CacheInv /\ AnswersTraced /\ [Next]_vars => AnswersTraced'
<1> SUFFICES ASSUME CacheInv, AnswersTraced, [Next]_vars PROVE AnswersTraced'
  OBVIOUS
<1>1. CASE Restart
  BY <1>1 DEF Restart, AnswersTraced, CacheInv, TypeOK, Digest, Ok
<1>2. CASE Next
  BY <1>1, <1>2, StepForms, EndsTraced, MakesOnlyTraced DEF CacheInv
<1>3. CASE UNCHANGED vars
  BY <1>3 DEF vars, AnswersTraced, Digest, Ok
<1> QED
  BY <1>2, <1>3

\* Each success ever answered was produced by a call that ran under its digest.
LEMMA Traced == Spec => []AnswersTraced
<1>1. Init => AnswersTraced
  BY DEF Init, AnswersTraced
<1> QED
  BY <1>1, NextTraced, CacheInvariant, PTL DEF Spec

-----------------------------------------------------------------------------
\* Concatenations whose first halves have one length are equal half by half.
LEMMA ConcatSplits ==
  ASSUME NEW S, NEW a \in Seq(S), NEW b \in Seq(S), NEW c \in Seq(S), NEW d \in Seq(S),
         Len(a) = Len(c), a \o b = c \o d
  PROVE  a = c /\ b = d
<1>1. Len(a) \in Nat /\ Len(b) \in Nat /\ Len(d) \in Nat
  OBVIOUS
<1>2. Len(a) + Len(b) = Len(c) + Len(d)
  <2>1. Len(a \o b) = Len(a) + Len(b)
    BY ConcatProperties, Zenon
  <2>2. Len(c \o d) = Len(c) + Len(d)
    BY ConcatProperties, Zenon
  <2> QED
    BY <2>1, <2>2
<1>3. Len(b) = Len(d)
  BY <1>1, <1>2
<1>4. ASSUME NEW i \in 1 .. Len(a) PROVE a[i] = c[i]
  <2>1. (a \o b)[i] = a[i] /\ (c \o d)[i] = c[i]
    BY <1>1, <1>3, ConcatProperties
  <2> QED
    BY <2>1
<1>5. ASSUME NEW i \in 1 .. Len(b) PROVE b[i] = d[i]
  <2>1. i + Len(a) \in 1 .. Len(a) + Len(b) /\ ~(i + Len(a) <= Len(a))
    BY <1>1
  <2>2. (i + Len(a)) - Len(a) = i
    BY <1>1
  <2>3. (a \o b)[i + Len(a)] = b[i] /\ (c \o d)[i + Len(a)] = d[i]
    BY <1>3, <2>1, <2>2, ConcatProperties
  <2> QED
    BY <2>3
<1> QED
  BY <1>3, <1>4, <1>5, SeqEqual

\* Two hashed texts with as many segments in the tenant and in the URI are the
\* same only for one tenant, URI and key (capabilities.py lines 95-97).
LEMMA DigestInjective ==
  ASSUME NEW r \in Requests, NEW s \in Requests,
         r.key # NoKey, s.key # NoKey, SameParts(r, s), Digest(r) = Digest(s)
  PROVE  r.tenant = s.tenant /\ r.uri = s.uri /\ r.key = s.key
<1> DEFINE t == r.tenant   u == r.uri   k == r.key
           tt == s.tenant  uu == s.uri  kk == s.key
<1>1. t \in Seq(Segments) /\ u \in Seq(Segments) /\ k \in Seq(Segments)
  BY CapabilitiesAssumption DEF Requests
<1>2. tt \in Seq(Segments) /\ uu \in Seq(Segments) /\ kk \in Seq(Segments)
  BY CapabilitiesAssumption DEF Requests
<1>3. Len(t) = Len(tt) /\ Len(u) = Len(uu)
  BY DEF SameParts
<1>4. t \o u \o k = tt \o uu \o kk
  BY DEF Digest
<1>5. t = tt /\ u = uu /\ k = kk
  <2> HIDE DEF t, u, k, tt, uu, kk
  <2>1. t \o u \in Seq(Segments) /\ Len(t \o u) = Len(t) + Len(u)
    BY <1>1, ConcatProperties, Zenon
  <2>2. tt \o uu \in Seq(Segments) /\ Len(tt \o uu) = Len(tt) + Len(uu)
    BY <1>2, ConcatProperties, Zenon
  <2>3. Len(t \o u) = Len(tt \o uu)
    BY <1>3, <2>1, <2>2
  <2>4. t \o u = tt \o uu /\ k = kk
    BY <1>1, <1>2, <1>4, <2>1, <2>2, <2>3, ConcatSplits, Zenon
  <2> QED
    BY <1>1, <1>2, <1>3, <2>4, ConcatSplits, Zenon
<1> QED
  BY <1>5

\* A replayed answer is that of a keyed call of the same hashed text, and of
\* the same tenant, URI and key if the separators of the two texts stand
\* between the same parts.
THEOREM OwnReplays == Spec => []ReplaysAreTheirOwn
<1>1. ASSUME CacheInv, AnswersTraced PROVE ReplaysAreTheirOwn
  <2> SUFFICES ASSUME NEW c \in Calls, phase[c] = "done", result[c].ok, result[c].output # c
               PROVE  LET p == request[result[c].output] IN
                        /\ request[c].key # NoKey /\ p.key # NoKey
                        /\ Digest(p) = Digest(request[c])
                        /\ SameParts(p, request[c]) => Triple(p) = Triple(request[c])
    BY DEF ReplaysAreTheirOwn
  <2>1. PICK p \in Calls :
          /\ phase[p] = "done" /\ result[c] = Ok(p)
          /\ p = c \/ ( /\ request[c].key # NoKey /\ request[p].key # NoKey
                        /\ Digest(request[p]) = Digest(request[c]))
    BY <1>1 DEF AnswersTraced
  <2>2. result[c].output = p
    BY <2>1 DEF Ok
  <2>3. request[p] \in Requests /\ request[c] \in Requests
    BY <1>1, <2>1 DEF CacheInv, TypeOK
  <2>4. SameParts(request[p], request[c]) => Triple(request[p]) = Triple(request[c])
    BY <2>1, <2>2, <2>3, DigestInjective DEF Triple
  <2> QED
    BY <2>1, <2>2, <2>4
<1> QED
  BY <1>1, CacheInvariant, Traced, PTL
-----------------------------------------------------------------------------
(***************************************************************************)
(* The registry implements IdempotentService, where a call is named by its *)
(* hashed text.                                                            *)
(***************************************************************************)

\* What the proof of a step may use of the state it starts from.
Known == CacheInv /\ AnswersTraced

\* The name of a keyed call is its hashed text, which is a name.
LEMMA NameNotNoKey ==
  ASSUME NEW r \in Requests, r.key # NoKey
  PROVE  NameOf(r) = Digest(r) /\ NameOf(r) \in Digests /\ NameOf(r) # NoKey
BY NoNameAssumption DEF NameOf, Digests

\* A success of the service under a name is a success of the registry.
LEMMA ServiceSucceeded ==
  ASSUME Known, NEW r \in Requests, NEW p \in Calls, Service!Succeeded(p, NameOf(r))
  PROVE  /\ r.key # NoKey
         /\ Succeeded(p)
         /\ Digest(request[p]) = Digest(r)
<1>1. NameOf(r) # NoKey /\ r.key # NoKey
  BY DEF Service!Succeeded, NameOf
<1>2. phase[p] # "new" /\ NameOf(request[p]) = NameOf(r) /\ request[p] \in Requests
  BY <1>1 DEF Service!Succeeded, Known, CacheInv, TypeOK
<1>3. request[p].key # NoKey
  BY <1>1, <1>2 DEF NameOf
<1>4. Digest(request[p]) = Digest(r)
  BY <1>1, <1>2, <1>3 DEF NameOf
<1>5. Outcome(phase[p], result[p]) = [is |-> "answered", by |-> p] /\ born[p] = life
  BY DEF Service!Succeeded, Service!AnsweredBy, Known, CacheInv, TypeOK
<1>6. phase[p] = "done" /\ result[p].ok /\ result[p].output = p
  <2>1. phase[p] \in {"running", "done", "lost"}
    BY <1>2 DEF Known, CacheInv, TypeOK, Phases
  <2> QED
    BY <1>5, <2>1 DEF Outcome
<1>7. result[p] = Ok(p)
  <2>1. PICK q \in Calls : result[q] = Ok(q) /\ result[p] = Ok(q)
    BY <1>6 DEF Known, AnswersTraced
  <2>2. q = p
    BY <1>6, <2>1 DEF Ok
  <2> QED
    BY <2>1, <2>2
<1> QED
  BY <1>1, <1>3, <1>4, <1>5, <1>6, <1>7 DEF Succeeded

\* A miss means that nothing has succeeded under the name in this life.
LEMMA MissIsFresh ==
  ASSUME Known, NEW r \in Requests, Cached(r) = NoEntry
  PROVE  Service!Fresh(NameOf(r))
BY ServiceSucceeded DEF Service!Fresh, Cached, Known, CacheInv, SuccessRemembered

\* The step of the service that makes c under a name, with an outcome.
MakeWith(c, n, o) == Service!Make(c, n) /\ Service!Becomes(c, o)

\* A call that is made gets its name and its outcome, and no other changes.
LEMMA MadeMaps ==
  ASSUME Known, NEW c \in Calls, NEW r \in Requests, Enter(c, r), NEW q \in {"running", "done"},
         phase' = [phase EXCEPT ![c] = q],
         \A e \in Calls \ {c} : result'[e] = result[e],
         life' = life
  PROVE  MakeWith(c, NameOf(r), Outcome(phase'[c], result'[c]))
<1>1. Outcome(phase[c], result[c]) = Service!Is("none")
  BY DEF Enter, Outcome, Service!Is
<1>2. request'[c] = r /\ phase'[c] # "new"
  BY DEF Enter, Known, CacheInv, TypeOK
<1>3. \A e \in Calls \ {c} : /\ phase'[e] = phase[e] /\ result'[e] = result[e]
                             /\ request'[e] = request[e]
  BY DEF Enter, Known, CacheInv, TypeOK
<1>4. \A e \in Calls \ {c} : NameOf(request'[e]) = NameOf(request[e])
  BY <1>3
<1>5. [e \in Calls |-> IF phase'[e] = "new" THEN NoKey ELSE NameOf(request'[e])]
        = [[e \in Calls |-> IF phase[e] = "new" THEN NoKey ELSE NameOf(request[e])]
             EXCEPT ![c] = NameOf(r)]
  BY <1>2, <1>3, <1>4
<1>6. \A e \in Calls \ {c} : Outcome(phase'[e], result'[e]) = Outcome(phase[e], result[e])
  BY <1>3 DEF Outcome
<1>7. [e \in Calls |-> Outcome(phase'[e], result'[e])]
        = [[e \in Calls |-> Outcome(phase[e], result[e])]
             EXCEPT ![c] = Outcome(phase'[c], result'[c])]
  <2> DEFINE f == [e \in Calls |-> Outcome(phase[e], result[e])]
             g == [e \in Calls |-> Outcome(phase'[e], result'[e])]
             v == Outcome(phase'[c], result'[c])
  <2>1. \A e \in Calls \ {c} : g[e] = f[e]
    BY <1>6
  <2>2. g[c] = v /\ g = [e \in Calls |-> g[e]] /\ f = [e \in Calls |-> f[e]]
    OBVIOUS
  <2> HIDE DEF f, g, v
  <2>3. g = [f EXCEPT ![c] = v]
    BY <2>1, <2>2
  <2> QED
    BY <2>3 DEF f, g, v
<1> QED
  BY <1>1, <1>5, <1>7 DEF MakeWith, Enter, Service!Make, Service!Becomes, NameOf

\* A registry that starts is a service that starts.
LEMMA InitMaps == Init => Service!SInit
BY DEF Init, Service!SInit, Service!Is, Outcome

\* To reach the handler is to open a call whose name is fresh.
LEMMA DispatchMaps ==
  ASSUME Known, NEW c \in Calls, NEW r \in Requests, Dispatch(c, r)
  PROVE  Service!Make(c, NameOf(r)) /\ Service!Open(c, NameOf(r))
<1>1. MakeWith(c, NameOf(r), Outcome(phase'[c], result'[c]))
  BY MadeMaps DEF Dispatch, Known, CacheInv, TypeOK
<1>2. Outcome(phase'[c], result'[c]) = Service!Is("open")
  BY DEF Dispatch, Outcome, Service!Is, Known, CacheInv, TypeOK
<1>3. Service!Fresh(NameOf(r))
  BY MissIsFresh DEF Dispatch, Dispatches
<1> QED
  BY <1>1, <1>2, <1>3 DEF Service!Open, MakeWith

\* An answer before any await executes at once, rejects, or replays.
LEMMA AnswerMaps ==
  ASSUME Known, NEW c \in Calls, NEW r \in Requests, Answer(c, r)
  PROVE  /\ Service!Make(c, NameOf(r))
         /\ \/ Service!ExecuteAtOnce(c, NameOf(r))
            \/ Service!Reject(c, NameOf(r))
            \/ \E p \in Calls : Service!Replay(c, NameOf(r), p)
<1>1. MakeWith(c, NameOf(r), Outcome(phase'[c], result'[c]))
  BY MadeMaps DEF Answer, Known, CacheInv, TypeOK
<1>2. Outcome(phase'[c], result'[c]) =
        IF Immediate(c, r).ok THEN Service!AnsweredBy(Immediate(c, r).output)
        ELSE Service!Is("failed")
  BY DEF Answer, Outcome, Service!Is, Service!AnsweredBy, Known, CacheInv, TypeOK
<1>3. CASE Cached(r) = NoEntry
  <2>1. Immediate(c, r) \in Failures \/ Immediate(c, r) = Ok(c)
    BY <1>3, AnswerEnds DEF Ends, Known, CacheInv
  <2>2. Outcome(phase'[c], result'[c]) \in {Service!Is("failed"), Service!AnsweredBy(c)}
    BY <1>2, <2>1, FailType DEF Ok
  <2> QED
    BY <1>1, <1>3, <2>2, MissIsFresh DEF Service!ExecuteAtOnce, Service!Reject, MakeWith
<1>4. CASE Cached(r) # NoEntry
  <2>1. r.key # NoKey /\ cache[Digest(r)] # NoEntry /\ Immediate(c, r) = cache[Digest(r)]
    BY <1>4 DEF Cached, Immediate
  <2>2. PICK p \in Calls : /\ Succeeded(p)
                           /\ Digest(request[p]) = Digest(r)
                           /\ cache[Digest(r)] = result[p]
    BY <2>1, DigestType DEF Known, CacheInv, CacheFaithful
  <2>3. Outcome(phase'[c], result'[c]) = Service!AnsweredBy(p)
    BY <1>2, <2>1, <2>2 DEF Succeeded, Ok
  <2>4. request[p] \in Requests /\ request[p].key # NoKey
    BY <2>2 DEF Succeeded, Known, CacheInv, TypeOK
  <2>5. NameOf(request[p]) = NameOf(r)
    BY <2>1, <2>2, <2>4 DEF NameOf
  <2>6. Service!Succeeded(p, NameOf(r))
    BY <2>1, <2>2, <2>5, NameNotNoKey
       DEF Service!Succeeded, Service!AnsweredBy, Succeeded, Outcome, Ok
  <2> QED
    BY <1>1, <2>3, <2>6 DEF Service!Replay, MakeWith
<1> QED
  BY <1>3, <1>4

\* A handler that settles closes its call with its own answer or with a failure.
LEMMA SettleMaps ==
  ASSUME Known, NEW c \in Calls, Settle(c)
  PROVE  Service!Close(c, Service!AnsweredBy(c)) \/ Service!Close(c, Service!Is("failed"))
<1>1. PICK res : Finish(c, res) /\ (res \in Failures \/ res = Ok(c))
  BY FailuresAre DEF Settle, HandlerReturns, HandlerTimesOut, HandlerRaises, Cancelled
<1>2. /\ Outcome(phase'[c], result'[c]) =
           IF res.ok THEN Service!AnsweredBy(res.output) ELSE Service!Is("failed")
      /\ Outcome(phase[c], result[c]) = Service!Is("open")
  BY <1>1 DEF Finish, Outcome, Service!Is, Service!AnsweredBy, Known, CacheInv, TypeOK
<1>3. Outcome(phase'[c], result'[c]) \in {Service!AnsweredBy(c), Service!Is("failed")}
  BY <1>1, <1>2, FailType DEF Ok
<1>4. \A e \in Calls \ {c} : Outcome(phase'[e], result'[e]) = Outcome(phase[e], result[e])
  BY <1>1 DEF Finish, Outcome, Known, CacheInv, TypeOK
<1>5. [e \in Calls |-> Outcome(phase'[e], result'[e])]
        = [[e \in Calls |-> Outcome(phase[e], result[e])] EXCEPT ![c] = Outcome(phase'[c], result'[c])]
  BY <1>4
<1>6. \A e \in Calls : (phase'[e] = "new" <=> phase[e] = "new") /\ request'[e] = request[e]
  BY <1>1 DEF Finish, Known, CacheInv, TypeOK
<1>7. [e \in Calls |-> IF phase'[e] = "new" THEN NoKey ELSE NameOf(request'[e])]
        = [e \in Calls |-> IF phase[e] = "new" THEN NoKey ELSE NameOf(request[e])]
  BY <1>6
<1>8. ASSUME NEW o, o = Outcome(phase'[c], result'[c])
      PROVE  Service!Close(c, o)
  BY <1>1, <1>2, <1>5, <1>7, <1>8 DEF Service!Close, Service!Becomes, Finish, NameOf
<1> QED
  BY <1>3, <1>8

\* A restart is a crash of the service, which loses the open calls.
LEMMA RestartMaps ==
  ASSUME Known, Restart
  PROVE  Service!Crash
<1>1. life + 1 \in 0 .. MaxRestarts
  BY CapabilitiesAssumption DEF Restart, Known, CacheInv, TypeOK
<1>2. \A e \in Calls : /\ phase'[e] = (IF phase[e] = "running" THEN "lost" ELSE phase[e])
                        /\ result'[e] = result[e] /\ request'[e] = request[e]
  BY DEF Restart
<1>3. \A e \in Calls : Outcome(phase[e], result[e]) = Service!Is("open") <=> phase[e] = "running"
  BY DEF Outcome, Service!Is, Known, CacheInv, TypeOK, Phases
<1>4. \A e \in Calls :
        Outcome(phase'[e], result'[e]) =
          IF Outcome(phase[e], result[e]) = Service!Is("open") THEN Service!Is("gone")
          ELSE Outcome(phase[e], result[e])
  BY <1>2, <1>3 DEF Outcome, Service!Is
<1>5. \A e \in Calls : phase'[e] = "new" <=> phase[e] = "new"
  BY <1>2
<1>6. [e \in Calls |-> IF phase'[e] = "new" THEN NoKey ELSE NameOf(request'[e])]
        = [e \in Calls |-> IF phase[e] = "new" THEN NoKey ELSE NameOf(request[e])]
  BY <1>2, <1>5
<1> QED
  BY <1>1, <1>4, <1>6 DEF Service!Crash, Restart, NameOf

\* Where the registry stutters the service does.
LEMMA StutterMaps ==
  ASSUME UNCHANGED vars
  PROVE  UNCHANGED Service!svars
BY DEF vars, Service!svars, Outcome, NameOf

\* The registry implements the idempotent service: what a named call is
\* answered with, and when its handler may run, for every interleaving, failure
\* and restart.
THEOREM RegistryImplementsService == Spec => ImplementsService
<1>1. ASSUME Known, Next PROVE Service!SNext
  <2>1. ASSUME NEW r \in Requests PROVE NameOf(r) \in Digests \cup {NoKey}
    BY <2>1, NameNotNoKey DEF NameOf
  <2>2. ASSUME NEW c \in Calls, NEW r \in Requests, Answer(c, r) PROVE Service!SNext
    BY <1>1, <2>1, <2>2, AnswerMaps DEF Service!SNext
  <2>3. ASSUME NEW c \in Calls, NEW r \in Requests, Dispatch(c, r) PROVE Service!SNext
    BY <1>1, <2>1, <2>3, DispatchMaps DEF Service!SNext
  <2>4. ASSUME NEW c \in Calls, Settle(c) PROVE Service!SNext
    BY <1>1, <2>4, SettleMaps DEF Service!SNext
  <2>5. CASE Restart
    BY <1>1, <2>5, RestartMaps DEF Service!SNext
  <2> QED
    BY <1>1, <2>2, <2>3, <2>4, <2>5 DEF Next
<1>2. Known /\ [Next]_vars => [Service!SNext]_(Service!svars)
  BY <1>1, StutterMaps
<1>3. Spec => []Known
  BY CacheInvariant, Traced, PTL DEF Known
<1> QED
  BY InitMaps, <1>2, <1>3, PTL DEF Spec, ImplementsService, Service!SSpec
=============================================================================
