-------------------------- MODULE IdempotentService --------------------------
(***************************************************************************)
(* What a caller may rely on when it names its calls with an idempotency   *)
(* key, as far as the registry really delivers it (the key is remembered   *)
(* for one process life and only once an execution has succeeded):         *)
(*   - a named call is executed only while no execution of that name has   *)
(*     succeeded in this process life;                                     *)
(*   - an answer that was not produced by the call's own execution is that *)
(*     of an execution of the same name that has already succeeded in this *)
(*     process life;                                                       *)
(*   - a failure is never handed to another call.                          *)
(* Executions of one name may overlap, and then each of them counts.       *)
(***************************************************************************)
EXTENDS Naturals

CONSTANTS
  Calls,    \* the calls
  Names,    \* what identifies a call to the service
  Nobody,   \* the producer of an outcome that is no answer
  NoName,   \* the name of a call that carries no key
  Lives     \* bound: the process lives, an initial segment of Nat

VARIABLES
  name,     \* name[c]: the name call c was made under
  outcome,  \* outcome[c]: what became of c, and who produced its answer
  since,    \* since[c]: the process life c was made in
  now       \* the current process life

Is(state) == [is |-> state, by |-> Nobody]
AnsweredBy(p) == [is |-> "answered", by |-> p]

svars == <<name, outcome, since, now>>

SInit ==
  /\ name = [c \in Calls |-> NoName]
  /\ outcome = [c \in Calls |-> Is("none")]
  /\ since = [c \in Calls |-> 0]
  /\ now = 0

\* c is an execution of n that has succeeded in this process life.
Succeeded(c, n) ==
  n # NoName /\ name[c] = n /\ outcome[c] = AnsweredBy(c) /\ since[c] = now

Make(c, n) ==
  /\ outcome[c] = Is("none")
  /\ name' = [name EXCEPT ![c] = n]
  /\ since' = [since EXCEPT ![c] = now]
  /\ UNCHANGED now

Becomes(c, o) == outcome' = [outcome EXCEPT ![c] = o]

Fresh(n) == ~ \E p \in Calls : Succeeded(p, n)

Open(c, n) == Becomes(c, Is("open")) /\ Fresh(n)

ExecuteAtOnce(c, n) == Becomes(c, AnsweredBy(c)) /\ Fresh(n)

Reject(c, n) == Becomes(c, Is("failed")) /\ Fresh(n)

Replay(c, n, p) == Becomes(c, AnsweredBy(p)) /\ Succeeded(p, n)

Close(c, o) ==
  /\ outcome[c] = Is("open")
  /\ Becomes(c, o)
  /\ UNCHANGED <<name, since, now>>

Crash ==
  /\ now + 1 \in Lives
  /\ now' = now + 1
  /\ outcome' = [c \in Calls |-> IF outcome[c] = Is("open") THEN Is("gone")
                              ELSE outcome[c]]
  /\ UNCHANGED <<name, since>>

SNext ==
  \/ \E c \in Calls, n \in Names \cup {NoName} :
        /\ Make(c, n)
        /\ \/ Open(c, n)
           \/ ExecuteAtOnce(c, n)
           \/ Reject(c, n)
           \/ \E p \in Calls : Replay(c, n, p)
  \/ \E c \in Calls : Close(c, AnsweredBy(c)) \/ Close(c, Is("failed"))
  \/ Crash

SSpec == SInit /\ [][SNext]_svars
=============================================================================
