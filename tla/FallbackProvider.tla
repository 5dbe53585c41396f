--------------------------- MODULE FallbackProvider ---------------------------
(****************************************************************************)
(* Ordered fallback over circuit breakers in labs/async-ai-gateway           *)
(* (src/ai_gateway/fallback.py, resilience.py), one breaker per provider,    *)
(* shared by all requests in flight.                                         *)
(*                                                                           *)
(* allow() takes the probe lock only when it is free, so it never suspends:  *)
(* a request goes from one breaker to the next without giving way until a    *)
(* provider is called.  It suspends while the provider works.  There it may  *)
(* get an answer, a ConnectionError or a TimeoutError, which the breaker     *)
(* records; or anything else - another exception, its own cancellation, a    *)
(* client that stops reading the stream - which nobody records.              *)
(****************************************************************************)
EXTENDS Naturals, FiniteSets

CONSTANTS
  NumProviders,      \* providers are tried in the order 1..NumProviders
  Requests,          \* each is made once
  Streams,           \* those made through stream()
  FailureThreshold, RecoveryTimeout,
  MaxAborts,         \* bound: how many requests end in a way nobody records
  MaxTime            \* bound: the clock

ASSUME FallbackAssumption ==
  /\ NumProviders \in Nat \ {0} /\ FailureThreshold \in Nat \ {0}
  /\ RecoveryTimeout \in Nat /\ MaxAborts \in Nat /\ MaxTime \in Nat
  /\ Streams \subseteq Requests

Providers == 1..NumProviders

VARIABLES
  breakers,  \* _breakers: the CircuitBreaker of each provider
  calls,     \* where each request stands
  aborts,    \* how many requests ended unrecorded
  now        \* time.monotonic()

vars == <<breakers, calls, aborts, now>>

Breaker ==
  [state: {"closed", "open", "half_open"}, failures: Nat, opened_at: Nat,
   probe_locked: BOOLEAN]

\* "at" is the provider called last; "probe" says that its breaker was half
\* open when it let the request through; "sent" are the providers whose chunks
\* reached the client.
Call ==
  [phase: {"new", "calling", "answered", "failed", "aborted"},
   at: 0..NumProviders, probe: BOOLEAN, sent: SUBSET Providers]

Init ==
  /\ breakers = [p \in Providers |-> [state |-> "closed", failures |-> 0,
                                      opened_at |-> 0, probe_locked |-> FALSE]]
  /\ calls = [r \in Requests |-> [phase |-> "new", at |-> 0,
                                  probe |-> FALSE, sent |-> {}]]
  /\ aborts = 0
  /\ now = 0

-----------------------------------------------------------------------------
\* The state property: an open circuit becomes half open by itself.
StateOf(b) ==
  IF b.state = "open" /\ now - b.opened_at >= RecoveryTimeout THEN "half_open"
  ELSE b.state

\* allow() raises CircuitOpenError, or lets the call through.
Admits(b) ==
  \/ StateOf(b) = "closed"
  \/ StateOf(b) = "half_open" /\ ~b.probe_locked

Admitted(b) ==
  IF StateOf(b) = "half_open"
  THEN [b EXCEPT !.state = "half_open", !.probe_locked = TRUE] ELSE b

\* record_success() and record_failure(): whoever calls them, a probe lock that
\* is held is released.
Succeeded(b) ==
  [b EXCEPT !.failures = 0, !.state = "closed", !.probe_locked = FALSE]

\* Slip: a circuit trips one failure late.
TripsLate(b) == b.failures >= FailureThreshold \/ b.state = "half_open"

Trips(b) == b.failures + 1 >= FailureThreshold \/ b.state = "half_open"

\* Slip: a failed probe does not open its circuit again.
FailedStayingHalfOpen(b) ==
  [b EXCEPT !.failures = @ + 1, !.probe_locked = FALSE,
            !.state = IF Trips(b) /\ @ = "closed" THEN "open" ELSE @,
            !.opened_at = IF Trips(b) THEN now ELSE @]

Failed(b) ==
  [b EXCEPT !.failures = @ + 1, !.probe_locked = FALSE,
            !.state = IF Trips(b) THEN "open" ELSE @,
            !.opened_at = IF Trips(b) THEN now ELSE @]

-----------------------------------------------------------------------------
\* Request r goes on to the first provider from "first" whose breaker admits it.
\* With none left it raises AllProvidersFailedError.
Proceeds(r, first, bs) ==
  \/ /\ \A p \in first..NumProviders : ~Admits(bs[p])
     /\ breakers' = bs
     /\ calls' = [calls EXCEPT ![r].phase = "failed"]
  \/ \E p \in first..NumProviders :
       /\ Admits(bs[p])
       /\ \A q \in first..(p - 1) : ~Admits(bs[q])
       /\ breakers' = [bs EXCEPT ![p] = Admitted(@)]
       /\ calls' = [calls EXCEPT ![r].phase = "calling", ![r].at = p,
                                 ![r].probe = StateOf(bs[p]) = "half_open"]

Calling(r) == calls[r].phase = "calling"

Starts(r) ==
  /\ calls[r].phase = "new"
  /\ Proceeds(r, 1, breakers)
  /\ UNCHANGED <<aborts, now>>

\* The provider answers, or its stream ends.
Answers(r) ==
  /\ Calling(r)
  /\ breakers' = [breakers EXCEPT ![calls[r].at] = Succeeded(@)]
  /\ calls' = [calls EXCEPT ![r].phase = "answered"]
  /\ UNCHANGED <<aborts, now>>

\* ConnectionError or TimeoutError: recorded, and the next provider is tried,
\* whether or not a chunk of this one was sent already.
Fails(r) ==
  /\ Calling(r)
  /\ Proceeds(r, calls[r].at + 1, [breakers EXCEPT ![calls[r].at] = Failed(@)])
  /\ UNCHANGED <<aborts, now>>

\* Anything else: the exception passes both handlers by.
Aborts(r) ==
  /\ Calling(r) /\ aborts < MaxAborts
  /\ calls' = [calls EXCEPT ![r].phase = "aborted"]
  /\ aborts' = aborts + 1
  /\ UNCHANGED <<breakers, now>>

\* stream(): one more chunk of the provider reaches the client.
SendsChunk(r) ==
  /\ Calling(r) /\ r \in Streams
  /\ calls' = [calls EXCEPT ![r].sent = @ \cup {calls[r].at}]
  /\ UNCHANGED <<breakers, aborts, now>>

Tick ==
  /\ now < MaxTime
  /\ now' = now + 1
  /\ UNCHANGED <<breakers, calls, aborts>>

Next ==
  \/ \E r \in Requests :
       Starts(r) \/ Answers(r) \/ Fails(r) \/ Aborts(r) \/ SendsChunk(r)
  \/ Tick

Spec == Init /\ [][Next]_vars

\* A provider that was called answers or fails with a recorded exception in the
\* end: DemoProvider sleeps, then answers or raises ConnectionError
\* (providers.py:20-25).  Nobody has to make a request.
FairSpec == Spec /\ \A r \in Requests : WF_vars(Answers(r) \/ Fails(r))

-----------------------------------------------------------------------------
\* Every variable has its type.
TypeOK ==
  /\ breakers \in [Providers -> Breaker]
  /\ calls \in [Requests -> Call]
  /\ aborts \in 0..MaxAborts
  /\ now \in Nat

\* A circuit that lets everything through has not seen its threshold of failures
\* since the last success, one that is half open is so because a probe holds its
\* lock, and no other holds one (resilience.py:31-59): stragglers of an earlier
\* era may record what they like.  That probe is still out, or it ended in a way
\* nobody recorded (fallback.py:27-36).
CircuitSound ==
  /\ TypeOK
  /\ \A p \in Providers :
       /\ breakers[p].state = "closed" => breakers[p].failures < FailureThreshold
       /\ breakers[p].probe_locked <=> breakers[p].state = "half_open"
       /\ breakers[p].probe_locked =>
            \E r \in Requests : /\ calls[r].at = p /\ calls[r].probe
                                /\ calls[r].phase \in {"calling", "aborted"}

\* A breaker does not stay half open (resilience.py:47-59): once the provider
\* calls that are out have ended it closes, or opens and waits, unless a probe of
\* it ended in a way nobody recorded.
ProbingEnds ==
  \A p \in Providers :
    breakers[p].state = "half_open"
      ~> \/ breakers[p].state # "half_open"
         \/ \E r \in Requests : /\ calls[r].at = p /\ calls[r].probe
                               /\ calls[r].phase = "aborted"

-----------------------------------------------------------------------------
\* What 01-production-python.mdx:222-226 says: "One probe request is allowed
\* through in HALF_OPEN".  A circuit that reports HALF_OPEN lets a probe through,
\* unless a request is out.
ProbeAllowedThrough ==
  \A p \in Providers : StateOf(breakers[p]) = "half_open" =>
    \/ Admits(breakers[p])
    \/ \E r \in Requests : Calling(r) /\ calls[r].at = p
=============================================================================
