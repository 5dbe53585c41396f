------------------------------- MODULE Gateway -------------------------------
(****************************************************************************)
(* Requests through the secure app of labs/async-ai-gateway: the drain       *)
(* manager (lifecycle.py), admission, attempts and streams of AsyncAIGateway *)
(* (gateway.py) and the health-aware selector (health_aware.py), as          *)
(* secure_app.py puts them together.                                         *)
(*                                                                           *)
(* Everything runs on one event loop.  A request suspends while it queues    *)
(* for capacity, while a provider works, and while it backs off; it takes    *)
(* the drain manager's condition without suspending, because nobody keeps    *)
(* that across an await.  A waiter of the semaphore that is handed a permit  *)
(* runs later: until then it is "woken", and its queue timeout may still     *)
(* come first.                                                               *)
(****************************************************************************)
EXTENDS Integers, FiniteSets, Sequences, SequencesExt

CONSTANTS
  Providers,
  Requests,          \* each is made once
  Streams,           \* those made to /v1/stream; the others to /v1/generate
  MaxConcurrency, MaxAttempts,
  FailureThreshold, EjectionTime,
  MaxTime            \* bound: the clock

ASSUME GatewayAssumption ==
  /\ MaxConcurrency \in Nat \ {0} /\ MaxAttempts \in Nat \ {0}
  /\ FailureThreshold \in Nat \ {0} /\ EjectionTime \in Nat /\ MaxTime \in Nat
  /\ IsFiniteSet(Requests) /\ Streams \subseteq Requests /\ Providers # {}

AnyProvider == "any"    \* no provider was asked for

VARIABLES
  asked,     \* the provider each request asks for, or AnyProvider
  phase,     \* where each request stands
  provider,  \* the provider it was last given, AnyProvider before
  attempt,   \* how many providers' calls it has started
  called,    \* the providers it called
  free,      \* permits of _capacity
  waiters,   \* those waiting for one, in order
  active,    \* _active
  draining,  \* _draining, and how begin_drain() stands
  health,    \* _health
  now        \* time.monotonic()

requestVars == <<asked, phase, provider, attempt, called>>
vars == <<requestVars, free, waiters, active, draining, health, now>>

Holding == {"woken", "calling", "backoff", "orphan"}
Inside == {"queued", "woken", "calling", "backoff", "closing"}
Ended == {"refused", "overloaded", "answered", "failed", "timed_out", "gone"}

Init ==
  /\ asked \in [Requests -> Providers \cup {AnyProvider}]
  /\ phase = [r \in Requests |-> "new"]
  /\ provider = [r \in Requests |-> AnyProvider]
  /\ attempt = [r \in Requests |-> 0]
  /\ called = [r \in Requests |-> {}]
  /\ free = MaxConcurrency
  /\ waiters = <<>>
  /\ active = 0
  /\ draining = "no"
  /\ health = [p \in Providers |-> [successes |-> 0, failures |-> 0,
                                    consecutive |-> 0, ejected_until |-> 0]]
  /\ now = 0

-----------------------------------------------------------------------------
\* success_rate as a fraction: 1 when nothing was tried yet.
Tried(p) == health[p].successes + health[p].failures
Won(p) == IF Tried(p) = 0 THEN 1 ELSE health[p].successes
Of(p) == IF Tried(p) = 0 THEN 1 ELSE Tried(p)

Ejected(p) == health[p].ejected_until > now

\* Slip: ejection is forgotten.
CandidatesAll == Providers

Candidates ==
  IF \A p \in Providers : Ejected(p) THEN Providers
  ELSE {p \in Providers : ~Ejected(p)}

\* select(): the one asked for, or a candidate with the best success rate; the
\* latencies that break a tie are not modelled.
Selects(r, p) ==
  IF asked[r] # AnyProvider THEN p = asked[r]
  ELSE p \in Candidates /\ \A q \in Candidates : Won(q) * Of(p) <= Won(p) * Of(q)

RecordSuccess(p) ==
  health' = [health EXCEPT ![p].successes = @ + 1, ![p].consecutive = 0]

RecordFailure(p) ==
  health' = [health EXCEPT
    ![p].failures = @ + 1, ![p].consecutive = @ + 1,
    ![p].ejected_until =
      IF health[p].consecutive + 1 >= FailureThreshold THEN now + EjectionTime ELSE @]

\* A provider's call starts.  generate() selects for each attempt.
Calls(r, p) ==
  /\ phase' = [phase EXCEPT ![r] = "calling"]
  /\ provider' = [provider EXCEPT ![r] = p]
  /\ attempt' = [attempt EXCEPT ![r] = @ + 1]
  /\ called' = [called EXCEPT ![r] = @ \cup {p}]

-----------------------------------------------------------------------------
\* asyncio.Semaphore.  Of n permits at most k go to the waiters that sleep, the
\* first ones first; the rest stays free.
Sleeping(q, ph) == {r \in ToSet(q) : ph[r] = "queued"}

Wake(n, k, q, ph) ==
  LET asleep == Sleeping(q, ph)
  IN  \E up \in SUBSET asleep :
        /\ Cardinality(up) = IF k < Cardinality(asleep) THEN k ELSE Cardinality(asleep)
        /\ \A i, j \in DOMAIN q : i < j /\ q[i] \in asleep /\ q[j] \in up => q[i] \in up
        /\ phase' = [r \in Requests |-> IF r \in up THEN "woken" ELSE ph[r]]
        /\ waiters' = q
        /\ free' = n - Cardinality(up)

\* acquire() leaves the queue, woken or not, and passes on every permit it leaves.
Without(r) == RemoveAt(waiters, CHOOSE i \in DOMAIN waiters : waiters[i] = r)

Leaves(r, n, ph) == Wake(n, n, Without(r), ph)

\* release() in the finally clause wakes one waiter.
Release(r, end) == Wake(free + 1, 1, waiters, [phase EXCEPT ![r] = end])

\* The end of a request that holds a permit, but for a stream's good one: it leaves
\* the gateway first and the drain manager second, without suspending in between.
Ends(r, end) == Release(r, end) /\ active' = active - 1

\* A request arrives.  It is refused while draining; it takes a free permit if
\* nobody waits for one; else it queues.  A stream is given its provider first.
Enters(r) ==
  /\ phase[r] = "new"
  /\ \/ /\ draining # "no"
        /\ phase' = [phase EXCEPT ![r] = "refused"]
        /\ UNCHANGED <<provider, attempt, called, free, waiters, active>>
     \/ /\ draining = "no" /\ free > 0 /\ waiters = <<>>
        /\ active' = active + 1
        /\ free' = free - 1
        /\ \E p \in Providers : Selects(r, p) /\ Calls(r, p)
        /\ UNCHANGED waiters
     \/ /\ draining = "no" /\ (free = 0 \/ waiters # <<>>)
        /\ active' = active + 1
        /\ phase' = [phase EXCEPT ![r] = "queued"]
        /\ waiters' = Append(waiters, r)
        /\ IF r \in Streams
           THEN \E p \in Providers : Selects(r, p) /\ provider' = [provider EXCEPT ![r] = p]
           ELSE UNCHANGED provider
        /\ UNCHANGED <<attempt, called, free>>
  /\ UNCHANGED <<asked, draining, health, now>>

\* A woken waiter runs; permits that are left over go to those behind it.
Resumes(r) ==
  /\ phase[r] = "woken"
  /\ \E p \in Providers :
       /\ IF r \in Streams THEN p = provider[r] ELSE Selects(r, p)
       /\ provider' = [provider EXCEPT ![r] = p]
       /\ called' = [called EXCEPT ![r] = @ \cup {p}]
  /\ attempt' = [attempt EXCEPT ![r] = @ + 1]
  /\ Leaves(r, free, [phase EXCEPT ![r] = "calling"])
  /\ UNCHANGED <<asked, active, draining, health, now>>

\* Slip: a waiter whose time is up as it is woken keeps the permit for itself.
QueueTimesOutKeeping(r) ==
  /\ phase[r] \in {"queued", "woken"}
  /\ phase' = [phase EXCEPT ![r] = "overloaded"]
  /\ waiters' = Without(r)
  /\ active' = active - 1
  /\ UNCHANGED <<asked, provider, attempt, called, free, draining, health, now>>

\* max_queue_wait_seconds are over, or the caller goes away; a permit that was
\* just handed over is passed on.
QueueTimesOut(r) ==
  /\ phase[r] \in {"queued", "woken"}
  /\ Leaves(r, IF phase[r] = "woken" THEN free + 1 ELSE free,
            [phase EXCEPT ![r] = "overloaded"])
  /\ active' = active - 1
  /\ UNCHANGED <<asked, provider, attempt, called, draining, health, now>>

\* A stream has left the gateway with its last chunk, and has yet to say so to
\* its client before it leaves the drain manager.
Answers(r) ==
  /\ phase[r] = "calling"
  /\ RecordSuccess(provider[r])
  /\ IF r \in Streams THEN Release(r, "closing") /\ UNCHANGED active
     ELSE Ends(r, "answered")
  /\ UNCHANGED <<asked, provider, attempt, called, draining, now>>

\* The closing event is sent, or events() is finalised with it unsent.
Closes(r) ==
  /\ phase[r] = "closing"
  /\ \E end \in {"answered", "gone"} : phase' = [phase EXCEPT ![r] = end]
  /\ active' = active - 1
  /\ UNCHANGED <<asked, provider, attempt, called, free, waiters, draining, health, now>>

\* No second attempt for a stream, for a provider that was asked for, or after
\* the last one.
LastAttempt(r) == r \in Streams \/ asked[r] # AnyProvider \/ attempt[r] = MaxAttempts

\* ConnectionError or TimeoutError from the provider.
ProviderFails(r) ==
  /\ phase[r] = "calling"
  /\ RecordFailure(provider[r])
  /\ \/ LastAttempt(r) /\ Ends(r, "failed")
     \/ /\ ~LastAttempt(r)
        /\ phase' = [phase EXCEPT ![r] = "backoff"]
        /\ UNCHANGED <<free, waiters, active>>
  /\ UNCHANGED <<asked, provider, attempt, called, draining, now>>

BackoffEnds(r) ==
  /\ phase[r] = "backoff"
  /\ \E p \in Providers : Selects(r, p) /\ Calls(r, p)
  /\ UNCHANGED <<asked, free, waiters, active, draining, health, now>>

\* The deadline of generate() cancels whatever it awaits; nothing is recorded.
DeadlinePasses(r) ==
  /\ phase[r] \in {"calling", "backoff"} /\ r \notin Streams
  /\ Ends(r, "timed_out")
  /\ UNCHANGED <<asked, provider, attempt, called, draining, health, now>>

\* Any other exception, or the request is cancelled.
Breaks(r) ==
  /\ phase[r] \in {"calling", "backoff"}
  /\ Ends(r, "gone")
  /\ UNCHANGED <<asked, provider, attempt, called, draining, health, now>>

\* The client of a stream goes away: events() returns, or is finalised where it
\* stands, and leaves the drain manager, but the generator of gateway.stream() it
\* iterated over is closed only when it is finalised itself, and holds its permit
\* until then.
Disconnects(r) ==
  /\ phase[r] = "calling" /\ r \in Streams
  /\ phase' = [phase EXCEPT ![r] = "orphan"]
  /\ active' = active - 1
  /\ UNCHANGED <<asked, provider, attempt, called, free, waiters, draining, health, now>>

Finalised(r) ==
  /\ phase[r] = "orphan"
  /\ Release(r, "gone")
  /\ UNCHANGED <<asked, provider, attempt, called, active, draining, health, now>>

-----------------------------------------------------------------------------
\* Slip: the drain does not wait.
ShutdownAtOnce ==
  /\ draining = "no"
  /\ draining' = "drained"
  /\ UNCHANGED <<requestVars, free, waiters, active, health, now>>

\* The lifespan's end: begin_shutdown() and begin_drain() without giving way.
Shutdown ==
  /\ draining = "no"
  /\ draining' = IF active = 0 THEN "drained" ELSE "waiting"
  /\ UNCHANGED <<requestVars, free, waiters, active, health, now>>

\* begin_drain() returns True, or False once its timeout is over.
DrainEnds ==
  /\ draining = "waiting"
  /\ \/ active = 0 /\ draining' = "drained"
     \/ draining' = "cut"
  /\ UNCHANGED <<requestVars, free, waiters, active, health, now>>

Tick ==
  /\ now < MaxTime
  /\ now' = now + 1
  /\ UNCHANGED <<requestVars, free, waiters, active, draining, health>>

Moves(r) ==
  \/ Resumes(r) \/ QueueTimesOut(r)
  \/ Answers(r) \/ Closes(r) \/ ProviderFails(r) \/ BackoffEnds(r) \/ DeadlinePasses(r)
  \/ Finalised(r)

Next ==
  \/ \E r \in Requests : Enters(r) \/ Moves(r) \/ Breaks(r) \/ Disconnects(r)
  \/ Shutdown \/ DrainEnds
  \/ Tick

Spec == Init /\ [][Next]_vars

-----------------------------------------------------------------------------
\* Every variable has its type; the waiters are those queued or woken.
TypeOK ==
  /\ asked \in [Requests -> Providers \cup {AnyProvider}]
  /\ phase \in [Requests -> {"new"} \cup Holding \cup Inside \cup Ended]
  /\ provider \in [Requests -> Providers \cup {AnyProvider}]
  /\ attempt \in [Requests -> 0..MaxAttempts]
  /\ called \in [Requests -> SUBSET Providers]
  /\ free \in 0..MaxConcurrency
  /\ IsInjective(waiters)
  /\ ToSet(waiters) = {r \in Requests : phase[r] \in {"queued", "woken"}}
  /\ active \in 0..Cardinality(Requests)
  /\ draining \in {"no", "waiting", "drained", "cut"}
  /\ health \in [Providers -> [successes : Nat, failures : Nat,
                               consecutive : Nat, ejected_until : Nat]]
  /\ now \in Nat

\* Capacity (gateway.py:57-60, 101-102, 128-129): whichever way requests and
\* streams end, each permit is either free or held by exactly one of them; and
\* nobody sleeps in the queue beside a free permit, unless a waiter that was
\* woken is still to run and passes it on.
CapacityConserved ==
  /\ TypeOK
  /\ free + Cardinality({r \in Requests : phase[r] \in Holding}) = MaxConcurrency
  /\ free > 0 /\ (\E r \in Requests : phase[r] = "queued")
       => \E r \in Requests : phase[r] = "woken"

\* Draining (lifecycle.py:28-52): the count is that of the requests inside, and
\* once begin_drain() has returned True none is inside any more.
DrainedIsQuiet ==
  /\ active = Cardinality({r \in Requests : phase[r] \in Inside})
  /\ draining = "drained" => active = 0

Spares(r) ==
  \/ asked[r] # AnyProvider
  \/ ~Ejected(provider'[r])
  \/ \A p \in Providers : Ejected(p)

\* Ejection (health_aware.py:38-52): an attempt of generate() calls no provider
\* that is ejected while another one is not, unless it was asked for.
EjectedSpared ==
  [][\A r \in Requests \ Streams :
       phase'[r] = "calling" /\ attempt'[r] # attempt[r] => Spares(r)]_vars
=============================================================================
