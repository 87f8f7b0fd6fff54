---------------------------- MODULE Capabilities ----------------------------
(***************************************************************************)
(* The capability registry of the agent_stack runtime                      *)
(* (runtime/capabilities.py): CapabilityRegistry.invoke, the single seam   *)
(* every MCP tool, agent skill, workflow and builtin is called through,    *)
(* with its in-process idempotency cache.                                  *)
(*                                                                         *)
(* One element of Calls stands for one use of invoke.  Everything runs on  *)
(* one asyncio event loop, so the code between two awaits is one step: a   *)
(* call is answered at once, or it reaches "await handler(...)" and other  *)
(* calls interleave until the handler settles.  A handler that never       *)
(* really suspends (Suspending) keeps the loop to itself.                  *)
(*                                                                         *)
(* Strings are sequences of colon-free segments: joining with ":" is \o.   *)
(* The output of a handler is abstracted to the call whose handler         *)
(* produced it, which is all the properties tell apart.                    *)
(*                                                                         *)
(* Left out: the inputs, which invoke only hands on; trace and span ids,   *)
(* durations, messages; timeout_seconds, cancel_token, metadata and        *)
(* bearer_token, which invoke never reads.                                 *)
(***************************************************************************)
EXTENDS Naturals, Sequences

CONSTANTS
  Calls,        \* the uses of invoke
  Segments,     \* the colon-free strings identifiers are made of
  Tenants,      \* InvocationContext.tenant_id values, as segment sequences
  Uris,         \* CapabilityCall.uri values, as segment sequences
  Keys,         \* idempotency keys, as segment sequences
  Parsed,       \* what _parse_uri makes of each URI: a scheme, or "invalid"
  Wirings,      \* the sets of handlers callers pass to invoke
  Suspending,   \* the URIs whose handler awaits something outside the loop
  MaxRestarts,  \* bound: how often the process is restarted
  NoKey,        \* CapabilityCall.idempotency_key is None
  NoCall,       \* no call: the producer of a failed result's output
  NoEntry       \* no cache entry

Schemes == {"agent", "mcp", "workflow", "builtin"}

ASSUME CapabilitiesAssumption ==
  /\ Tenants \cup Uris \cup Keys \subseteq Seq(Segments)
  /\ Parsed \in [Uris -> Schemes \cup {"invalid"}]
  /\ Wirings \subseteq SUBSET {"agent", "mcp", "workflow"}
  /\ MaxRestarts \in Nat
  /\ NoKey \notin Keys
  /\ NoCall \notin Calls

Requests == [tenant : Tenants, uri : Uris, key : Keys \cup {NoKey},
             stream : BOOLEAN, wired : Wirings]

Codes == {"none", "capability.invalid_uri", "capability.streaming_unsupported",
          "capability.cancelled", "capability.timeout",
          "capability.execution_error"}

Results == [ok : BOOLEAN, code : Codes, retryable : BOOLEAN,
            output : Calls \cup {NoCall}]

ASSUME NoEntryAssumption == NoEntry \notin Results

Ok(c) == [ok |-> TRUE, code |-> "none", retryable |-> FALSE, output |-> c]

Fail(code, retryable) ==
  [ok |-> FALSE, code |-> code, retryable |-> retryable, output |-> NoCall]

\* The text that is hashed: f"{tenant_id}:{uri}:{idempotency_key}".  SHA-256
\* is taken to be injective, so the text itself names the entry.
DigestWithoutUri(r) == r.tenant \o r.key  \* faulty variant: the URI left out

Digest(r) == r.tenant \o r.uri \o r.key

Digests == {Digest(r) : r \in {q \in Requests : q.key # NoKey}}

ASSUME NoNameAssumption == NoKey \notin Digests

VARIABLES
  request,      \* request[c]: what call c asked for, once it is made
  phase,        \* phase[c]: "new", "running" its handler, "done" or "lost"
  result,       \* result[c]: the CapabilityResult of a call that is done
  cache,        \* CapabilityRegistry._idempotency
  life,         \* how often the process has been restarted
  born          \* born[c]: the process life call c was made in

vars == <<request, phase, result, cache, life, born>>

Phases == {"new", "running", "done", "lost"}

TypeOK ==
  /\ phase \in [Calls -> Phases]
  /\ request \in [Calls -> Requests \cup {NoCall}]
  /\ result \in [Calls -> Results \cup {NoEntry}]
  /\ \A c \in Calls : phase[c] # "new" => request[c] \in Requests
  /\ \A c \in Calls : phase[c] = "done" => result[c] \in Results
  /\ cache \in [Digests -> Results \cup {NoEntry}]
  /\ life \in 0 .. MaxRestarts
  /\ born \in [Calls -> 0 .. MaxRestarts]

Init ==
  /\ request = [c \in Calls |-> NoCall]
  /\ phase = [c \in Calls |-> "new"]
  /\ result = [c \in Calls |-> NoEntry]
  /\ cache = [d \in Digests |-> NoEntry]
  /\ life = 0
  /\ born = [c \in Calls |-> 0]

-----------------------------------------------------------------------------
\* The entry call.idempotency_key selects, NoEntry for a call without a key.
Cached(r) == IF r.key = NoKey THEN NoEntry ELSE cache[Digest(r)]

\* Faulty variant: the lookup is left out.
DispatchesAlways(r) == Parsed[r.uri] \in r.wired /\ ~r.stream

\* Reaching "await handler(...)": the URI parses, the call is not a stream,
\* the scheme is not answered in place and its handler was passed in.
Dispatches(r) ==
  /\ Cached(r) = NoEntry
  /\ Parsed[r.uri] \in r.wired
  /\ ~r.stream

\* What invoke answers without awaiting anything, in the order of its checks.
Immediate(c, r) ==
  IF Cached(r) # NoEntry THEN Cached(r)
  ELSE IF Parsed[r.uri] = "invalid" THEN Fail("capability.invalid_uri", FALSE)
  ELSE IF r.stream THEN Fail("capability.streaming_unsupported", FALSE)
  ELSE IF Parsed[r.uri] = "builtin" THEN Ok(c)
  ELSE Fail("capability.execution_error", FALSE)  \* handler not configured

\* Faulty variants: failures are stored too, or drop the entry.
RememberFailures(r, res) ==
  IF r.key # NoKey THEN [cache EXCEPT ![Digest(r)] = res] ELSE cache

ForgetOnFailure(r, res) ==
  IF r.key # NoKey
  THEN [cache EXCEPT ![Digest(r)] = IF res.ok THEN res ELSE NoEntry]
  ELSE cache

\* self._idempotency[key] = result, for a successful call that has a key.
Remember(r, res) ==
  IF res.ok /\ r.key # NoKey THEN [cache EXCEPT ![Digest(r)] = res] ELSE cache

Enter(c, r) ==
  /\ phase[c] = "new"
  /\ request' = [request EXCEPT ![c] = r]
  /\ born' = [born EXCEPT ![c] = life]

\* invoke returns before any await.  A hit is returned as it is; a builtin
\* falls through to the store at the end of invoke.
Answer(c, r) ==
  /\ Enter(c, r)
  /\ ~Dispatches(r)
  /\ phase' = [phase EXCEPT ![c] = "done"]
  /\ result' = [result EXCEPT ![c] = Immediate(c, r)]
  /\ cache' = IF Cached(r) # NoEntry THEN cache
              ELSE Remember(r, Immediate(c, r))
  /\ UNCHANGED life

\* invoke reaches the await on the handler.
Dispatch(c, r) ==
  /\ Enter(c, r)
  /\ Dispatches(r)
  /\ phase' = [phase EXCEPT ![c] = "running"]
  /\ UNCHANGED <<result, cache, life>>

\* Faulty variant: the result is stored and never returned.
FinishWithoutReturn(c, res) ==
  /\ phase[c] = "running"
  /\ phase' = [phase EXCEPT ![c] = "done"]
  /\ cache' = Remember(request[c], res)
  /\ UNCHANGED <<request, result, life, born>>

\* The rest of invoke once the handler settled with res.
Finish(c, res) ==
  /\ phase[c] = "running"
  /\ phase' = [phase EXCEPT ![c] = "done"]
  /\ result' = [result EXCEPT ![c] = res]
  /\ cache' = Remember(request[c], res)
  /\ UNCHANGED <<request, life, born>>

HandlerReturns(c) == Finish(c, Ok(c))

HandlerTimesOut(c) == Finish(c, Fail("capability.timeout", TRUE))

HandlerRaises(c) == Finish(c, Fail("capability.execution_error", FALSE))

\* The task that runs invoke is cancelled: CancelledError is thrown at the
\* await, so only into a handler that suspended, and invoke swallows it.
Cancelled(c) ==
  /\ request[c].uri \in Suspending
  /\ Finish(c, Fail("capability.cancelled", FALSE))

\* The process dies and a new one starts: the dict starts empty and whatever
\* was running is never answered.
Restart ==
  /\ life < MaxRestarts
  /\ life' = life + 1
  /\ cache' = [d \in Digests |-> NoEntry]
  /\ phase' = [c \in Calls |-> IF phase[c] = "running" THEN "lost" ELSE phase[c]]
  /\ UNCHANGED <<request, result, born>>

\* No handler holds the event loop.
LoopFree ==
  \A c \in Calls : phase[c] = "running" => request[c].uri \in Suspending

HoldsLoop(c) == LoopFree \/ request[c].uri \notin Suspending

Settle(c) ==
  \/ HandlerReturns(c)
  \/ HandlerTimesOut(c)
  \/ HandlerRaises(c)
  \/ Cancelled(c)

Next ==
  \/ \E c \in Calls, r \in Requests : LoopFree /\ (Answer(c, r) \/ Dispatch(c, r))
  \/ \E c \in Calls : phase[c] = "running" /\ HoldsLoop(c) /\ Settle(c)
  \/ Restart

Spec == Init /\ [][Next]_vars

-----------------------------------------------------------------------------
\* c ran (its handler, or a builtin) and succeeded under a key, in the
\* current process life.
Succeeded(c) ==
  /\ phase[c] = "done"
  /\ result[c] = Ok(c)
  /\ request[c].key # NoKey
  /\ born[c] = life

\* Every entry is the answer of a call that ran and succeeded under exactly
\* this digest in this process life, whatever order the racing calls of the
\* digest finished in: no failure, no replayed answer and no entry of an
\* earlier process is ever stored (capabilities.py lines 158-176).
CacheFaithful ==
  \A d \in Digests : cache[d] # NoEntry =>
    \E c \in Calls : Succeeded(c) /\ Digest(request[c]) = d /\ cache[d] = result[c]

\* Once a keyed call has succeeded its digest is remembered for the rest of
\* the process life, across failures and races of other calls of it.
SuccessRemembered ==
  \A c \in Calls : Succeeded(c) => cache[Digest(request[c])] # NoEntry

\* No handler is run for a keyed call that starts after a call of the same
\* digest has succeeded: executions of a key repeat only when they overlap or
\* when the process restarted (the lookup at lines 94-103 is before the await,
\* the store at 175-176 after it).
NoSequentialRerun ==
  [][\A c \in Calls :
       (phase[c] = "new" /\ phase'[c] = "running" /\ request'[c].key # NoKey) =>
         ~ \E p \in Calls : Succeeded(p) /\ Digest(request[p]) = Digest(request'[c])]_vars

Triple(r) == <<r.tenant, r.uri, r.key>>

\* The separators of the two texts that are hashed stand between the same
\* parts: those they are joined with, and those inside tenants and URIs.
SameParts(r, s) == Len(r.tenant) = Len(s.tenant) /\ Len(r.uri) = Len(s.uri)

\* A replayed answer goes to a call with a key, from a call whose hashed text
\* is the same, whatever ran, failed or died in between.  It is an answer for
\* the same tenant, URI and key if both texts are made of parts of as many
\* segments; without that it may be another's, because resource URIs (config.py
\* 86), tenants and keys may contain the separator.
ReplaysAreTheirOwn ==
  \A c \in Calls :
    (phase[c] = "done" /\ result[c].ok /\ result[c].output # c) =>
      LET p == request[result[c].output] IN
        /\ request[c].key # NoKey /\ p.key # NoKey
        /\ Digest(p) = Digest(request[c])
        /\ SameParts(p, request[c]) => Triple(p) = Triple(request[c])

\* What the registry promises, in terms of IdempotentService: the name of a
\* keyed call is the text that is hashed.
NameOf(r) == IF r.key = NoKey THEN NoKey ELSE Digest(r)

Outcome(ph, res) ==
  CASE ph = "new" -> [is |-> "none", by |-> NoCall]
    [] ph = "running" -> [is |-> "open", by |-> NoCall]
    [] ph = "lost" -> [is |-> "gone", by |-> NoCall]
    [] OTHER -> IF res.ok THEN [is |-> "answered", by |-> res.output]
                ELSE [is |-> "failed", by |-> NoCall]

Service == INSTANCE IdempotentService WITH
  Names <- Digests,
  Nobody <- NoCall,
  NoName <- NoKey,
  Lives <- 0 .. MaxRestarts,
  name <- [c \in Calls |-> IF phase[c] = "new" THEN NoKey ELSE NameOf(request[c])],
  outcome <- [c \in Calls |-> Outcome(phase[c], result[c])],
  since <- born,
  now <- life

\* invoke implements IdempotentService, where calls that differ only in where
\* the separators of their hashed texts stand have one name.
ImplementsService == Service!SSpec

-----------------------------------------------------------------------------
(* What the documentation says of the registry and invoke does not do.     *)

\* c succeeded by running, in whatever process life.
Charged(c) == phase[c] = "done" /\ result[c] = Ok(c) /\ request[c].key # NoKey

SameName(c, p) == Triple(request[c]) = Triple(request[p])

\* Setting an idempotency_key keeps a call from being charged twice
\* (02-capabilities.md section 5), here within one process life.
ChargedOnce ==
  \A c, p \in Calls :
    (Charged(c) /\ Charged(p) /\ SameName(c, p) /\ born[c] = born[p]) => c = p
=============================================================================
