------------------------------ MODULE RateLimits ------------------------------
(***************************************************************************)
(* labs/async-ai-gateway: the token buckets of the gateway.  A local one   *)
(* (rate_limit.py, tenant_limits.py) reads the clock and takes tokens in   *)
(* one piece.  A shared one lives in Redis (distributed_rate_limit.py,     *)
(* runtime.py): a replica reads its own clock and sends it along with the  *)
(* script, which Redis runs whole but later, in whatever order the scripts *)
(* arrive.  Tokens and time are whole numbers.                             *)
(***************************************************************************)
EXTENDS Integers, FiniteSets

CONSTANTS
  LocalKeys, SharedKeys,   \* the tenants' buckets in the process and in Redis
  Calls,                   \* calls of replicas that may be on their way at once
  Costs,                   \* tokens a call may ask for
  Capacity, Refill,        \* tokens, tokens per unit of time
  Ttl,                     \* after which Redis drops an unused bucket
  Skew,                    \* how far a replica's clock may be behind
  MaxClock, MaxGranted     \* bounds

ASSUME LimitsAssumption ==
  /\ Capacity \in Nat \ {0} /\ Refill \in Nat \ {0}
  /\ Ttl \in Nat /\ Skew \in Nat /\ MaxClock \in Nat /\ MaxGranted \in Nat /\ Costs \subseteq Nat \ {0}
  /\ LocalKeys \cap SharedKeys = {}

VARIABLES
  now,
  bucket,      \* [tokens, updated, until]; NoBucket until a tenant's first call
  sent,        \* calls on their way: [key, reading], or NoCall
  granted,     \* tokens given out per bucket (for the property)
  first, lag,  \* its first reading, and the time given twice (for the property)
  forgiven     \* tokens its expiries gave back before their time (for the property)
limitVars == <<now, bucket, sent, granted, first, lag, forgiven>>

Keys == LocalKeys \cup SharedKeys
Never == -1
NoBucket == [tokens |-> Capacity, updated |-> Never, until |-> Never]
NoCall == [key |-> "none", reading |-> Never]

LimitsInit ==
  /\ now = Skew /\ sent = [c \in Calls |-> NoCall]
  /\ bucket = [k \in Keys |-> NoBucket]
  /\ granted = [k \in Keys |-> 0] /\ first = [k \in Keys |-> Never]
  /\ lag = [k \in Keys |-> 0] /\ forgiven = [k \in Keys |-> 0]

Tick == now < MaxClock /\ now' = now + 1 /\ UNCHANGED <<bucket, sent, granted, first, lag, forgiven>>

AtMost(n, m) == IF n < m THEN n ELSE m
Positive(n) == IF n > 0 THEN n ELSE 0

\* A missing bucket is full; otherwise time has filled it up to its capacity.
Elapsed(b, reading) == IF b.updated = Never THEN 0 ELSE reading - b.updated
Replenished(b, elapsed) == AtMost(Capacity, b.tokens + elapsed * Refill)

\* Bookkeeping of the property: a reading older than the last makes the time
\* between them count twice, as does one of less than Ttl after an expiry; and an
\* expiry gives back what Ttl would not have refilled.
Noted(k, b, reading, cost, allowed) ==
  /\ granted' = [granted EXCEPT ![k] = IF allowed THEN @ + cost ELSE @]
  /\ first' = [first EXCEPT ![k] = IF @ = Never THEN reading ELSE @]
  /\ lag' = [lag EXCEPT ![k] = IF bucket[k].updated = Never THEN @
       ELSE @ + Positive((IF b = NoBucket THEN bucket[k].updated + Ttl
                          ELSE bucket[k].updated) - reading)]
  /\ forgiven' = [forgiven EXCEPT ![k] = IF bucket[k].updated = Never \/ b # NoBucket THEN @
       ELSE @ + Positive(Capacity - (bucket[k].tokens + Ttl * Refill))]

\* acquire() and allow() in the process: the bucket is updated also when the
\* call is refused
Acquire(k, cost) ==
  LET full == Replenished(bucket[k], Elapsed(bucket[k], now))
      allowed == full >= cost
  IN  /\ granted[k] < MaxGranted
      /\ bucket' = [bucket EXCEPT ![k] =
           [tokens |-> IF allowed THEN full - cost ELSE full, updated |-> now, until |-> Never]]
      /\ Noted(k, bucket[k], now, cost, allowed)
      /\ UNCHANGED <<now, sent>>

\* acquire() of a replica up to its await: the clock is read here
Sends(c, k, reading) ==
  /\ sent[c] = NoCall
  /\ sent' = [sent EXCEPT ![c] = [key |-> k, reading |-> reading]]
  /\ UNCHANGED <<now, bucket, granted, first, lag, forgiven>>

\* The script: time never counts backwards, but updated is set back
ScriptElapsedByServer(b, reading) == Positive(Elapsed(b, now))   \* mutant: two clocks
ScriptElapsed(b, reading) == Positive(Elapsed(b, reading))
Runs(c, cost) ==
  LET k == sent[c].key
      reading == sent[c].reading
      b == IF bucket[k].until <= now THEN NoBucket ELSE bucket[k]
      full == Replenished(b, ScriptElapsed(b, reading))
      allowed == full >= cost
  IN  /\ sent[c] # NoCall /\ granted[k] < MaxGranted
      /\ bucket' = [bucket EXCEPT ![k] =
           [tokens |-> IF allowed THEN full - cost ELSE full,
            updated |-> reading, until |-> now + Ttl]]
      /\ sent' = [sent EXCEPT ![c] = NoCall]
      /\ Noted(k, b, reading, cost, allowed)
      /\ UNCHANGED now

\* The connection fails before the script runs
Lost(c) == /\ sent[c] # NoCall /\ sent' = [sent EXCEPT ![c] = NoCall]
           /\ UNCHANGED <<now, bucket, granted, first, lag, forgiven>>

LimitsNext ==
  \/ Tick
  \/ \E k \in LocalKeys, cost \in Costs : Acquire(k, cost)
  \/ \E c \in Calls : \/ \E k \in SharedKeys, n \in (now - Skew)..now : Sends(c, k, n)
                      \/ \E cost \in Costs : Runs(c, cost)
                      \/ Lost(c)
LimitsSpec == LimitsInit /\ [][LimitsNext]_limitVars
-------------------------------------------------------------------------------
LimitsTypeOK ==
  /\ now \in Nat /\ {lag, granted, forgiven} \subseteq [Keys -> Nat]
  /\ first \in [Keys -> Nat \cup {Never}]
  /\ bucket \in [Keys -> [tokens : 0..Capacity, updated : Nat \cup {Never},
                          until : Nat \cup {Never}]]
  /\ sent \in [Calls -> [key : SharedKeys, reading : Nat] \cup {NoCall}]

\* The quota (distributed_rate_limit.py:15-47, README.md:168): however the
\* scripts of several replicas are delayed, lost and reordered, a bucket gives
\* out no more than its capacity and what the time between its first and its
\* last reading refills - once more for any time that readings out of order
\* made count twice, and once more for what expiries gave back: nothing, if Ttl
\* is enough to fill a bucket, which nothing in the code asks for.  A local
\* bucket never counts time twice and does not expire.
QuotaHeld ==
  /\ LimitsTypeOK
  /\ \A k \in Keys :
       /\ granted[k] + (IF first[k] = Never THEN 0 ELSE bucket[k].tokens)
            <= Capacity + Refill * (bucket[k].updated - first[k] + lag[k]) + forgiven[k]
       /\ Ttl * Refill >= Capacity \/ k \in LocalKeys => forgiven[k] = 0
       /\ k \in LocalKeys => lag[k] = 0
===============================================================================
