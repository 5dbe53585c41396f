----------------------------- MODULE ToolGateway -----------------------------
(****************************************************************************)
(* The tool gateway of labs/policy-gated-tool-runtime (src/tool_gateway):    *)
(* ToolGateway.call with its registry, scopes, argument schemas, token       *)
(* buckets, approval queue and audit log, on one asyncio event loop.         *)
(*                                                                           *)
(* A call suspends while it waits for an operator and while its handler      *)
(* works, nowhere else: the rate limiter's lock is never kept across an      *)
(* await.  An operator's decision wakes the waiting call, which runs later;  *)
(* its timeout may come in between, and so may its cancellation.             *)
(*                                                                           *)
(* Tokens are counted in units of which a call costs Minute and a second     *)
(* refills RateLimit, so that they stay whole; float rounding is left out.   *)
(****************************************************************************)
EXTENDS Integers, FiniteSets, Sequences, SequencesExt

CONSTANTS
  Calls,        \* each is made once
  Tenants,
  Tools,        \* those of the registry
  HighRisk,     \* those an operator has to approve
  RateLimit,    \* rate_limit_per_minute of every tool
  Minute,       \* seconds in which a bucket refills
  MaxTime       \* bound: the clock

ASSUME ToolGatewayAssumption ==
  /\ IsFiniteSet(Calls) /\ HighRisk \subseteq Tools
  /\ RateLimit \in Nat \ {0} /\ Minute \in Nat \ {0} /\ MaxTime \in Nat

Full == RateLimit * Minute
NoTime == -1

VARIABLES
  calls,     \* whose each call is, where it stands and when it was rate limited
  status,    \* the status of its approval request, "none" before there is one
  ran,       \* the calls whose handler was started
  buckets,   \* _buckets, those not yet made being full
  audit,     \* _entries: which call, and the outcome
  now        \* time.monotonic()

vars == <<calls, status, ran, buckets, audit, now>>

Keys == Tenants \X Tools
Unset == <<>>

Outcomes == {"allowed", "denied_scope", "denied_validation", "denied_rate_limit",
             "denied_approval", "error"}

Call == [key: Keys \cup {Unset}, limited: Nat \cup {NoTime},
         phase: {"new", "waiting", "running", "cancelled"} \cup Outcomes]

Init ==
  /\ calls = [c \in Calls |-> [key |-> Unset, limited |-> NoTime, phase |-> "new"]]
  /\ status = [c \in Calls |-> "none"]
  /\ ran = {}
  /\ buckets = [k \in Keys |-> [tokens |-> Full, last_refill |-> 0]]
  /\ audit = <<>>
  /\ now = 0

-----------------------------------------------------------------------------
Moves(c, phase) == calls' = [calls EXCEPT ![c].phase = phase]

\* record()
Records(c, outcome) == audit' = Append(audit, [call |-> c, outcome |-> outcome])

\* _deny() and record(): the call ends and leaves an entry.
Finishes(c, outcome) == Moves(c, outcome) /\ Records(c, outcome)

\* Slip: a refill beyond the capacity.
RefilledOver(b) == b.tokens + (now - b.last_refill) * RateLimit

\* The tokens of a bucket by now.
Refilled(b) ==
  LET t == b.tokens + (now - b.last_refill) * RateLimit
  IN  IF t < Full THEN t ELSE Full

\* A call of a tool nobody registered, of one outside the caller's scopes, or
\* with arguments its schema rejects.
RefusedEarly(c) ==
  /\ calls[c].phase = "new"
  /\ \E outcome \in {"error", "denied_scope", "denied_validation"} : Finishes(c, outcome)
  /\ UNCHANGED <<status, ran, buckets, now>>

\* A call that passes those checks comes to its bucket.  Past it, a high-risk one
\* asks for approval and any other starts its handler.
Arrives(c, k) ==
  LET tokens == Refilled(buckets[k])
      enough == tokens >= Minute
      goes == CASE ~enough -> "denied_rate_limit"
                [] enough /\ k[2] \in HighRisk -> "waiting"
                [] OTHER -> "running"
  IN  /\ calls[c].phase = "new"
      /\ calls' = [calls EXCEPT ![c] = [key |-> k, limited |-> now, phase |-> goes]]
      /\ buckets' = [buckets EXCEPT
           ![k] = [tokens |-> IF enough THEN tokens - Minute ELSE tokens, last_refill |-> now]]
      /\ status' = [status EXCEPT ![c] = IF goes = "waiting" THEN "pending" ELSE @]
      /\ ran' = IF goes = "running" THEN ran \cup {c} ELSE ran
      /\ IF enough THEN UNCHANGED audit ELSE Records(c, "denied_rate_limit")
      /\ UNCHANGED now

\* decide(): an operator, who may have seen the request of a call that is gone.
Decides(c, decision) ==
  /\ status[c] = "pending"
  /\ status' = [status EXCEPT ![c] = decision]
  /\ UNCHANGED <<calls, ran, buckets, audit, now>>

Waiting(c) == calls[c].phase = "waiting"
Decided(c) == Waiting(c) /\ status[c] \in {"approved", "denied"}

\* The waiting call hears of the decision.
Resumes(c) ==
  /\ Decided(c)
  /\ \/ /\ status[c] = "approved"
        /\ Moves(c, "running") /\ ran' = ran \cup {c}
        /\ UNCHANGED audit
     \/ /\ status[c] = "denied"
        /\ Finishes(c, "denied_approval")
        /\ UNCHANGED ran
  /\ UNCHANGED <<status, buckets, now>>

\* Slip: the request stays what it was.
TimesOutKeeping(c) ==
  /\ Waiting(c)
  /\ Finishes(c, "denied_approval")
  /\ UNCHANGED <<status, ran, buckets, now>>

\* timeout_seconds are over.  A decision the call has not heard of is overwritten.
TimesOut(c) ==
  /\ Waiting(c)
  /\ status' = [status EXCEPT ![c] = "expired"]
  /\ Finishes(c, "denied_approval")
  /\ UNCHANGED <<ran, buckets, now>>

Running(c) == calls[c].phase = "running"

\* Slip: what the handler raises leaves no entry.
HandlerEndsSilently(c) ==
  /\ Running(c)
  /\ \/ Finishes(c, "allowed")
     \/ Moves(c, "error") /\ UNCHANGED audit
  /\ UNCHANGED <<status, ran, buckets, now>>

\* The handler returns, or raises.
HandlerEnds(c) ==
  /\ Running(c)
  /\ \E outcome \in {"allowed", "error"} : Finishes(c, outcome)
  /\ UNCHANGED <<status, ran, buckets, now>>

\* The caller goes away: CancelledError is not an Exception, no clause catches it.
Cancelled(c) ==
  /\ Waiting(c) \/ Running(c)
  /\ Moves(c, "cancelled")
  /\ UNCHANGED <<status, ran, buckets, audit, now>>

Tick ==
  /\ now < MaxTime
  /\ now' = now + 1
  /\ UNCHANGED <<calls, status, ran, buckets, audit>>

Next ==
  \/ \E c \in Calls :
       \/ RefusedEarly(c)
       \/ \E k \in Keys : Arrives(c, k)
       \/ \E decision \in {"approved", "denied"} : Decides(c, decision)
       \/ Resumes(c) \/ TimesOut(c) \/ HandlerEnds(c) \/ Cancelled(c)
  \/ Tick

Spec == Init /\ [][Next]_vars

-----------------------------------------------------------------------------
\* Every variable has its type; no bucket holds more than its capacity.
TypeOK ==
  /\ calls \in [Calls -> Call]
  /\ status \in [Calls -> {"none", "pending", "approved", "denied", "expired"}]
  /\ ran \subseteq Calls
  /\ buckets \in [Keys -> [tokens : 0..Full, last_refill : 0..now]]
  /\ audit \in Seq([call : Calls, outcome : Outcomes])
  /\ now \in Nat

\* The approval gate (gateway.py:82-98, approval.py:29-75): whatever the order of
\* decision, timeout and cancellation, a high-risk handler ran only if an operator
\* approved that very call and the approval still stands; and a call that had its
\* approval ran, unless it has not heard yet or was cancelled.
ApprovalGate ==
  /\ TypeOK
  /\ \A c \in Calls : calls[c].key # Unset /\ calls[c].key[2] \in HighRisk =>
       /\ c \in ran => status[c] = "approved"
       /\ status[c] = "approved" => c \in ran \/ calls[c].phase \in {"waiting", "cancelled"}
       /\ status[c] \in {"denied", "expired"}
            => calls[c].phase \in {"denied_approval"} \cup
                 IF status[c] = "denied" THEN {"waiting", "cancelled"} ELSE {}

\* The audit trail (audit.py:17-38, gateway.py:50-122): a call that ended left
\* exactly one entry, an open one none, and the entry tells what happened: a
\* handler ran if and only if it was allowed or failed, and a denied approval is
\* one that was denied or expired.
AuditTellsWhatHappened ==
  LET entries(c) == {i \in DOMAIN audit : audit[i].call = c}
  IN  \A c \in Calls :
        /\ calls[c].phase \in Outcomes
             => \E i \in DOMAIN audit : entries(c) = {i} /\ audit[i].outcome = calls[c].phase
        /\ calls[c].phase \in {"new", "waiting", "running"} => entries(c) = {}
        /\ calls[c].phase = "denied_approval"
             => c \notin ran /\ status[c] \in {"denied", "expired"}
        /\ c \in ran => calls[c].phase \in {"running", "allowed", "error", "cancelled"}

\* What the calls of bucket k let through from time s to time t cost.
Spent(k, s, t) ==
  Minute * Cardinality({c \in Calls :
    /\ calls[c].key = k /\ calls[c].phase # "denied_rate_limit"
    /\ calls[c].limited \in s..t})

\* The rate limit (rate_limit.py:29-46): in no window does a tenant make more
\* calls of a tool than a full bucket and its refill in that window pay for; and
\* no call is denied for nothing: calls of the same tenant and tool, from some
\* earlier time on, had used the bucket up.
RateLimited ==
  /\ \A k \in Keys, s \in 0..now : \A t \in s..now :
       Spent(k, s, t) <= Full + (t - s) * RateLimit
  /\ \A c \in Calls : calls[c].phase = "denied_rate_limit" =>
       \E s \in 0..calls[c].limited :
         LET t == calls[c].limited
         IN  Spent(calls[c].key, s, t) + Minute > Full + (t - s) * RateLimit
=============================================================================
