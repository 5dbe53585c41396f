--------------------------- MODULE ToolGatewayProofs ---------------------------
(***************************************************************************)
(* The approval gate, the audit trail and the rate limit of ToolGateway.tla *)
(* for any finite number of calls, any tenants and tools, every rate and    *)
(* capacity and any time.                                                   *)
(***************************************************************************)
EXTENDS ToolGateway, FiniteSetTheorems, TLAPS

-------------------------------------------------------------------------------
(* The invariants *)

\* Where a call stands, its approval and whether its handler was started agree:
\* it has no bucket, or its tool is of low risk, or an operator has a say.
Refused(c) ==
  /\ calls[c].key = Unset /\ calls[c].limited = NoTime
  /\ calls[c].phase \in {"new", "error", "denied_scope", "denied_validation"}
  /\ status[c] = "none" /\ c \notin ran

LowRisk(c) ==
  /\ calls[c].key \in Keys /\ calls[c].key[2] \notin HighRisk
  /\ status[c] = "none"
  /\ \/ calls[c].phase = "denied_rate_limit" /\ c \notin ran
     \/ calls[c].phase \in {"running", "allowed", "error", "cancelled"} /\ c \in ran

Gated(c) ==
  /\ calls[c].key \in Keys /\ calls[c].key[2] \in HighRisk
  /\ \/ /\ calls[c].phase = "denied_rate_limit"
        /\ status[c] = "none" /\ c \notin ran
     \/ /\ calls[c].phase \in {"waiting", "cancelled"}
        /\ status[c] \in {"pending", "approved", "denied"} /\ c \notin ran
     \/ /\ calls[c].phase \in {"running", "allowed", "error", "cancelled"}
        /\ status[c] = "approved" /\ c \in ran
     \/ /\ calls[c].phase = "denied_approval"
        /\ status[c] \in {"denied", "expired"} /\ c \notin ran

Stands(c) == Refused(c) \/ LowRisk(c) \/ Gated(c)

GateInv == TypeOK /\ \A c \in Calls : Stands(c)

\* The entries of a call.
Entries(c) == {i \in DOMAIN audit : audit[i].call = c}

Told(c) ==
  IF calls[c].phase \in Outcomes
  THEN \E i \in DOMAIN audit : Entries(c) = {i} /\ audit[i].outcome = calls[c].phase
  ELSE Entries(c) = {}

AuditInv == GateInv /\ \A c \in Calls : Told(c)

-------------------------------------------------------------------------------
(* The approval gate *)

\* A call without a bucket has none.
LEMMA UnsetIsNoKey == \A k \in Keys : k # Unset
  BY DEF Keys, Unset

\* No call is made yet.
LEMMA GateInitially == ASSUME ToolGatewayAssumption, Init PROVE GateInv
  <1>1. /\ calls = [c \in Calls |-> [key |-> Unset, limited |-> NoTime, phase |-> "new"]]
        /\ status = [c \in Calls |-> "none"] /\ ran = {} /\ audit = <<>> /\ now = 0
        /\ buckets = [k \in Keys |-> [tokens |-> Full, last_refill |-> 0]]
    BY DEF Init
  <1>2. Full \in Nat
    BY DEF ToolGatewayAssumption, Full
  <1>3. TypeOK
    <2>1. calls \in [Calls -> Call]
      BY <1>1 DEF Call
    <2>2. buckets \in [Keys -> [tokens : 0..Full, last_refill : 0..now]]
      BY <1>1, <1>2
    <2>3. audit \in Seq([call : Calls, outcome : Outcomes])
      BY <1>1
    <2> QED
      BY <1>1, <2>1, <2>2, <2>3 DEF TypeOK
  <1>4. \A c \in Calls : Refused(c)
    BY <1>1 DEF Refused
  <1> QED
    BY <1>3, <1>4 DEF GateInv, Stands

\* An entry more.
LEMMA RecordsIsTyped ==
  ASSUME TypeOK, NEW c \in Calls, NEW outcome \in Outcomes
  PROVE  Append(audit, [call |-> c, outcome |-> outcome]) \in Seq([call : Calls, outcome : Outcomes])
  BY DEF TypeOK

\* A call that ends takes one entry along.
LEMMA FinishesIsTyped ==
  ASSUME TypeOK, NEW c \in Calls, NEW outcome \in Outcomes, Finishes(c, outcome)
  PROVE  calls' \in [Calls -> Call] /\ audit' \in Seq([call : Calls, outcome : Outcomes])
  <1>1. Append(audit, [call |-> c, outcome |-> outcome]) \in Seq([call : Calls, outcome : Outcomes])
    BY RecordsIsTyped
  <1>2. calls[c] \in Call /\ [calls[c] EXCEPT !.phase = outcome] \in Call
    BY DEF TypeOK, Call
  <1>3. calls' = [calls EXCEPT ![c] = [calls[c] EXCEPT !.phase = outcome]]
    BY DEF Finishes, Moves
  <1> QED
    BY <1>1, <1>2, <1>3 DEF Finishes, Records, TypeOK

\* What a bucket holds by now.
LEMMA RefilledIsTyped ==
  ASSUME ToolGatewayAssumption, TypeOK, NEW k \in Keys
  PROVE  /\ Full \in Nat /\ buckets[k].tokens \in 0..Full /\ buckets[k].last_refill \in 0..now
         /\ (now - buckets[k].last_refill) * RateLimit \in Nat
         /\ Refilled(buckets[k]) \in 0..Full
  <1>1. /\ Full \in Nat /\ buckets[k].tokens \in 0..Full /\ buckets[k].last_refill \in 0..now
        /\ now \in Nat /\ RateLimit \in Nat
    BY DEF ToolGatewayAssumption, Full, TypeOK
  <1>2. now - buckets[k].last_refill \in Nat
    BY <1>1
  <1>3. (now - buckets[k].last_refill) * RateLimit \in Nat
    BY <1>1, <1>2
  <1> QED
    BY <1>1, <1>3 DEF Refilled

\* What a call at its bucket does, in one piece.
LEMMA ArrivesShape ==
  ASSUME ToolGatewayAssumption, GateInv, NEW c \in Calls, NEW k \in Keys, Arrives(c, k)
  PROVE  \E goes \in {"denied_rate_limit", "waiting", "running"}, tokens \in 0..Full :
           /\ goes = "denied_rate_limit" <=> Refilled(buckets[k]) < Minute
           /\ goes = "waiting" => k[2] \in HighRisk
           /\ goes = "running" => k[2] \notin HighRisk
           /\ tokens = IF goes = "denied_rate_limit" THEN Refilled(buckets[k])
                       ELSE Refilled(buckets[k]) - Minute
           /\ calls[c].phase = "new"
           /\ calls' = [calls EXCEPT ![c] = [key |-> k, limited |-> now, phase |-> goes]]
           /\ buckets' = [buckets EXCEPT ![k] = [tokens |-> tokens, last_refill |-> now]]
           /\ status' = [status EXCEPT ![c] = IF goes = "waiting" THEN "pending" ELSE @]
           /\ ran' = IF goes = "running" THEN ran \cup {c} ELSE ran
           /\ IF goes = "denied_rate_limit" THEN Records(c, goes) ELSE UNCHANGED audit
           /\ UNCHANGED now
  <1> DEFINE full == Refilled(buckets[k])
             enough == full >= Minute
             goes == CASE ~enough -> "denied_rate_limit"
                       [] enough /\ k[2] \in HighRisk -> "waiting"
                       [] OTHER -> "running"
             tokens == IF enough THEN full - Minute ELSE full
  <1>1. full \in 0..Full /\ Minute \in Nat /\ Full \in Nat
    BY RefilledIsTyped DEF GateInv, ToolGatewayAssumption
  <1>2. tokens \in 0..Full
    BY <1>1
  <1>3. /\ goes \in {"denied_rate_limit", "waiting", "running"}
        /\ goes = "denied_rate_limit" <=> ~enough
        /\ goes = "waiting" => k[2] \in HighRisk
        /\ goes = "running" => k[2] \notin HighRisk
    OBVIOUS
  <1>4. /\ calls[c].phase = "new"
        /\ calls' = [calls EXCEPT ![c] = [key |-> k, limited |-> now, phase |-> goes]]
        /\ buckets' = [buckets EXCEPT ![k] = [tokens |-> tokens, last_refill |-> now]]
        /\ status' = [status EXCEPT ![c] = IF goes = "waiting" THEN "pending" ELSE @]
        /\ ran' = IF goes = "running" THEN ran \cup {c} ELSE ran
        /\ IF enough THEN UNCHANGED audit ELSE Records(c, "denied_rate_limit")
        /\ UNCHANGED now
    BY DEF Arrives
  <1>5. enough <=> ~(full < Minute)
    BY <1>1
  <1>6. /\ tokens = IF goes = "denied_rate_limit" THEN full ELSE full - Minute
        /\ IF goes = "denied_rate_limit" THEN Records(c, goes) ELSE UNCHANGED audit
    BY <1>3, <1>4
  <1> HIDE DEF goes, tokens, enough, full
  <1>7. /\ goes = "denied_rate_limit" <=> full < Minute
    BY <1>3, <1>5
  <1> QED
    <2> USE <1>2, <1>3
    <2> WITNESS goes \in {"denied_rate_limit", "waiting", "running"}, tokens \in 0..Full
    <2> QED
      BY <1>3, <1>4, <1>6, <1>7 DEF full

\* A step of one call leaves the others where they stand.
OthersLeft(c) ==
  \A d \in Calls \ {c} : /\ calls'[d] = calls[d] /\ status'[d] = status[d]
                         /\ d \in ran' <=> d \in ran

\* A step of one call leaves the others where they stand.
LEMMA OthersStand ==
  ASSUME GateInv, NEW c \in Calls, TypeOK', Stands(c)', OthersLeft(c)
  PROVE  GateInv'
  <1>1. ASSUME NEW d \in Calls \ {c} PROVE Stands(d)'
    <2>1. Stands(d)
      BY DEF GateInv
    <2> QED
      BY <2>1 DEF OthersLeft, Stands, Refused, LowRisk, Gated
  <1> QED
    BY <1>1 DEF GateInv

\* A call arrives at its bucket and is let through or denied.
LEMMA ArrivesGated ==
  ASSUME ToolGatewayAssumption, GateInv, NEW c \in Calls, NEW k \in Keys, Arrives(c, k)
  PROVE  GateInv'
  <1>1. PICK goes \in {"denied_rate_limit", "waiting", "running"}, tokens \in 0..Full :
           /\ goes = "waiting" => k[2] \in HighRisk
           /\ goes = "running" => k[2] \notin HighRisk
           /\ calls[c].phase = "new"
           /\ calls' = [calls EXCEPT ![c] = [key |-> k, limited |-> now, phase |-> goes]]
           /\ buckets' = [buckets EXCEPT ![k] = [tokens |-> tokens, last_refill |-> now]]
           /\ status' = [status EXCEPT ![c] = IF goes = "waiting" THEN "pending" ELSE @]
           /\ ran' = IF goes = "running" THEN ran \cup {c} ELSE ran
           /\ IF goes = "denied_rate_limit" THEN Records(c, goes) ELSE UNCHANGED audit
           /\ UNCHANGED now
    BY ArrivesShape
  <1>2. TypeOK /\ Refused(c)
    BY <1>1, UnsetIsNoKey DEF GateInv, Stands, LowRisk, Gated
  <1>3. TypeOK'
    <2>1. calls' \in [Calls -> Call]
      <3>1. now \in Nat
        BY <1>2 DEF TypeOK
      <3>2. [key |-> k, limited |-> now, phase |-> goes] \in Call
        BY <3>1 DEF Call, Outcomes
      <3> QED
        BY <1>1, <1>2, <3>2 DEF TypeOK
    <2>2. buckets' \in [Keys -> [tokens : 0..Full, last_refill : 0..now']]
      <3>1. now \in 0..now
        BY <1>2 DEF TypeOK
      <3> QED
        BY <1>1, <1>2, <3>1 DEF TypeOK
    <2>3. audit' \in Seq([call : Calls, outcome : Outcomes])
      <3>1. "denied_rate_limit" \in Outcomes
        BY DEF Outcomes
      <3>2. audit' = audit \/ audit' = Append(audit, [call |-> c, outcome |-> "denied_rate_limit"])
        BY <1>1 DEF Records
      <3>3. audit \in Seq([call : Calls, outcome : Outcomes])
        BY <1>2 DEF TypeOK
      <3> QED
        BY <1>2, <3>1, <3>2, <3>3, RecordsIsTyped
    <2>4. /\ status' \in [Calls -> {"none", "pending", "approved", "denied", "expired"}]
          /\ ran' \subseteq Calls /\ now' \in Nat
      BY <1>1, <1>2 DEF TypeOK
    <2> QED
      BY <2>1, <2>2, <2>3, <2>4 DEF TypeOK
  <1>4. /\ calls'[c] = [key |-> k, limited |-> now, phase |-> goes]
        /\ status'[c] = IF goes = "waiting" THEN "pending" ELSE "none"
        /\ c \in ran' <=> goes = "running"
    BY <1>1, <1>2 DEF TypeOK, Refused
  <1>5. Stands(c)'
    BY <1>1, <1>4 DEF Stands, LowRisk, Gated
  <1>6. OthersLeft(c)
    BY <1>1, <1>2 DEF TypeOK, OthersLeft
  <1> QED
    BY <1>3, <1>5, <1>6, OthersStand

\* A call that was refused before it came to a bucket.
LEMMA RefusedEarlyGated ==
  ASSUME GateInv, NEW c \in Calls, RefusedEarly(c) PROVE GateInv'
  <1>1. PICK outcome \in {"error", "denied_scope", "denied_validation"} : Finishes(c, outcome)
    BY DEF RefusedEarly
  <1>2. /\ calls[c].phase = "new" /\ TypeOK /\ Refused(c)
        /\ UNCHANGED <<status, ran, buckets, now>>
    BY UnsetIsNoKey DEF GateInv, Stands, LowRisk, Gated, RefusedEarly
  <1>3. TypeOK'
    BY <1>1, <1>2, FinishesIsTyped DEF TypeOK, Outcomes
  <1>4. calls' = [calls EXCEPT ![c].phase = outcome]
    BY <1>1 DEF Finishes, Moves
  <1>5. Stands(c)'
    BY <1>2, <1>4 DEF Refused, TypeOK, Stands
  <1>6. OthersLeft(c)
    BY <1>2, <1>4 DEF TypeOK, OthersLeft
  <1> QED
    BY <1>3, <1>5, <1>6, OthersStand

\* The operator decides, also on a request whose call is gone.
LEMMA DecidesGated ==
  ASSUME GateInv, NEW c \in Calls, NEW decision \in {"approved", "denied"}, Decides(c, decision)
  PROVE  GateInv'
  <1>1. /\ status[c] = "pending" /\ TypeOK /\ Gated(c)
        /\ status' = [status EXCEPT ![c] = decision]
        /\ UNCHANGED <<calls, ran, buckets, audit, now>>
    BY DEF GateInv, Stands, Refused, LowRisk, Decides
  <1>2. TypeOK'
    BY <1>1 DEF TypeOK
  <1>3. status'[c] = decision
    BY <1>1 DEF TypeOK
  <1>4. Gated(c)'
    BY <1>1, <1>3 DEF Gated
  <1> QED
    BY <1>1, <1>2, <1>4, OthersStand DEF OthersLeft, Stands, TypeOK

\* Steps of a call past its bucket: it hears, times out, ends or is cancelled.
LEMMA GoesOnGated ==
  ASSUME GateInv, NEW c \in Calls,
         Resumes(c) \/ TimesOut(c) \/ HandlerEnds(c) \/ Cancelled(c)
  PROVE  GateInv'
  <1>1. TypeOK /\ Stands(c)
    BY DEF GateInv
  <1>2. ASSUME NEW outcome \in Outcomes \cup {"running", "cancelled"},
               calls' = [calls EXCEPT ![c].phase = outcome],
               (Finishes(c, outcome) /\ outcome \in Outcomes) \/ UNCHANGED audit,
               ran' \subseteq Calls, UNCHANGED <<buckets, now>>,
               status' \in [Calls -> {"none", "pending", "approved", "denied", "expired"}]
        PROVE  TypeOK'
    <2>1. calls' \in [Calls -> Call]
      <3>1. calls[c] \in Call
        BY <1>1 DEF TypeOK
      <3>2. [calls[c] EXCEPT !.phase = outcome] \in Call
        BY <3>1 DEF Call
      <3> QED
        BY <1>1, <1>2, <3>2 DEF TypeOK
    <2>2. audit' \in Seq([call : Calls, outcome : Outcomes])
      BY <1>1, <1>2, FinishesIsTyped DEF TypeOK
    <2> QED
      BY <1>1, <1>2, <2>1, <2>2 DEF TypeOK
  <1>3. CASE Resumes(c)
    <2>1. Gated(c) /\ Waiting(c) /\ UNCHANGED <<status, buckets, now>>
      BY <1>1, <1>3 DEF Resumes, Decided, Waiting, Stands, Refused, LowRisk
    <2>2. CASE status[c] = "approved" /\ Moves(c, "running") /\ ran' = ran \cup {c} /\ UNCHANGED audit
      <3>1. TypeOK'
        BY <1>1, <1>2, <2>1, <2>2 DEF TypeOK, Moves
      <3>2. Gated(c)'
        BY <1>1, <2>1, <2>2 DEF Gated, Moves, TypeOK
      <3> QED
        BY <1>1, <2>1, <2>2, <3>1, <3>2, OthersStand DEF OthersLeft, Stands, Moves, TypeOK
    <2>3. CASE status[c] = "denied" /\ Finishes(c, "denied_approval") /\ UNCHANGED ran
      <3>1. TypeOK'
        BY <1>1, <1>2, <2>1, <2>3 DEF TypeOK, Finishes, Moves, Outcomes
      <3>2. Gated(c)'
        BY <1>1, <2>1, <2>3 DEF Gated, Finishes, Moves, TypeOK, Waiting
      <3> QED
        BY <1>1, <2>1, <2>3, <3>1, <3>2, OthersStand DEF OthersLeft, Stands, Finishes, Moves, TypeOK
    <2> QED
      BY <1>3, <2>2, <2>3 DEF Resumes
  <1>4. CASE TimesOut(c)
    <2>1. /\ Gated(c) /\ Waiting(c) /\ UNCHANGED <<ran, buckets, now>>
          /\ status' = [status EXCEPT ![c] = "expired"] /\ Finishes(c, "denied_approval")
      BY <1>1, <1>4 DEF TimesOut, Waiting, Stands, Refused, LowRisk
    <2>2. TypeOK'
      BY <1>1, <1>2, <2>1 DEF TypeOK, Finishes, Moves, Outcomes
    <2>3. Gated(c)'
      BY <1>1, <2>1 DEF Gated, Finishes, Moves, TypeOK, Waiting
    <2> QED
      BY <1>1, <2>1, <2>2, <2>3, OthersStand DEF OthersLeft, Stands, Finishes, Moves, TypeOK
  <1>5. CASE HandlerEnds(c)
    <2>1. PICK outcome \in {"allowed", "error"} : Finishes(c, outcome)
      BY <1>5 DEF HandlerEnds
    <2>2. Running(c) /\ UNCHANGED <<status, ran, buckets, now>>
      BY <1>5 DEF HandlerEnds
    <2>3. TypeOK'
      BY <1>1, <1>2, <2>1, <2>2 DEF TypeOK, Finishes, Moves, Outcomes
    <2>4. calls'[c].phase = outcome /\ calls'[c].key = calls[c].key
      BY <1>1, <2>1 DEF TypeOK, Finishes, Moves
    <2>5. Stands(c)'
      BY <1>1, <2>2, <2>4 DEF Stands, Refused, LowRisk, Gated, Running
    <2> QED
      BY <1>1, <2>1, <2>2, <2>3, <2>5, OthersStand DEF OthersLeft, Finishes, Moves, TypeOK
  <1>6. CASE Cancelled(c)
    <2>1. /\ Waiting(c) \/ Running(c)
          /\ Moves(c, "cancelled") /\ UNCHANGED <<status, ran, buckets, audit, now>>
      BY <1>6 DEF Cancelled
    <2>2. TypeOK'
      BY <1>1, <1>2, <2>1 DEF TypeOK, Moves
    <2>3. calls'[c].phase = "cancelled" /\ calls'[c].key = calls[c].key
      BY <1>1, <2>1 DEF TypeOK, Moves
    <2>4. Stands(c)'
      BY <1>1, <2>1, <2>3 DEF Stands, Refused, LowRisk, Gated, Waiting, Running
    <2> QED
      BY <1>1, <2>1, <2>2, <2>4, OthersStand DEF OthersLeft, Moves, TypeOK
  <1> QED
    BY <1>3, <1>4, <1>5, <1>6

\* Time passes no gate.
LEMMA TickGated == ASSUME GateInv, Tick PROVE GateInv'
  <1>1. /\ TypeOK /\ now' = now + 1 /\ UNCHANGED <<calls, status, ran, buckets, audit>>
    BY DEF GateInv, Tick
  <1>2. TypeOK'
    <2>1. \A n \in 0..now : n \in 0..now'
      BY <1>1 DEF TypeOK
    <2>2. buckets \in [Keys -> [tokens : 0..Full, last_refill : 0..now']]
      BY <1>1, <2>1 DEF TypeOK
    <2> QED
      BY <1>1, <2>2 DEF TypeOK
  <1> QED
    BY <1>1, <1>2 DEF GateInv, Stands, Refused, LowRisk, Gated

\* Every step keeps the gate.
LEMMA GateKept == ASSUME ToolGatewayAssumption, GateInv, [Next]_vars PROVE GateInv'
  <1>1. ASSUME NEW c \in Calls, RefusedEarly(c) PROVE GateInv'
    BY <1>1, RefusedEarlyGated
  <1>2. ASSUME NEW c \in Calls, NEW k \in Keys, Arrives(c, k) PROVE GateInv'
    BY <1>2, ArrivesGated
  <1>3. ASSUME NEW c \in Calls, NEW decision \in {"approved", "denied"}, Decides(c, decision)
        PROVE  GateInv'
    BY <1>3, DecidesGated
  <1>4. ASSUME NEW c \in Calls, Resumes(c) \/ TimesOut(c) \/ HandlerEnds(c) \/ Cancelled(c)
        PROVE  GateInv'
    BY <1>4, GoesOnGated
  <1>5. CASE Tick
    BY <1>5, TickGated
  <1>6. CASE UNCHANGED vars
    BY <1>6 DEF vars, GateInv, TypeOK, Stands, Refused, LowRisk, Gated
  <1> QED
    BY <1>1, <1>2, <1>3, <1>4, <1>5, <1>6 DEF Next

\* Where every call stands is the approval gate.
LEMMA GateInvIsTheGate == GateInv => ApprovalGate
  <1> SUFFICES ASSUME GateInv, NEW c \in Calls,
                      calls[c].key # Unset, calls[c].key[2] \in HighRisk
               PROVE  /\ c \in ran => status[c] = "approved"
                      /\ status[c] = "approved"
                           => c \in ran \/ calls[c].phase \in {"waiting", "cancelled"}
                      /\ status[c] \in {"denied", "expired"}
                           => calls[c].phase \in {"denied_approval"} \cup
                                IF status[c] = "denied" THEN {"waiting", "cancelled"} ELSE {}
    BY DEF ApprovalGate, GateInv
  <1>1. Gated(c)
    BY DEF GateInv, Stands, Refused, LowRisk
  <1> QED
    BY <1>1 DEF Gated

\* The approval gate (ApprovalGate; gateway.py:82-98, approval.py:29-75): a
\* high-risk handler starts only on a standing approval of its own call,
\* whatever decisions, timeouts and cancellations cross.
THEOREM GateCorrect == Spec => []ApprovalGate
  <1>1. Init => GateInv
    BY ToolGatewayAssumption, GateInitially
  <1>2. GateInv /\ [Next]_vars => GateInv'
    BY ToolGatewayAssumption, GateKept
  <1>3. GateInv => ApprovalGate
    BY GateInvIsTheGate
  <1> QED
    BY <1>1, <1>2, <1>3, PTL DEF Spec

-------------------------------------------------------------------------------
(* The audit trail *)

\* What a step does to the trail: it is left alone while no call ends, and one
\* call ends with one entry of its own.
LeavesTrail ==
  /\ UNCHANGED audit
  /\ \A d \in Calls : \/ calls'[d].phase = calls[d].phase
                      \/ calls[d].phase \notin Outcomes /\ calls'[d].phase \notin Outcomes

Ends(c, outcome) ==
  /\ calls[c].phase \notin Outcomes /\ calls'[c].phase = outcome
  /\ Records(c, outcome)
  /\ \A d \in Calls \ {c} : calls'[d].phase = calls[d].phase

\* A call that finishes has an outcome and an entry.
LEMMA FinishesEnds ==
  ASSUME TypeOK, NEW c \in Calls, NEW outcome \in Outcomes,
         calls[c].phase \notin Outcomes, Finishes(c, outcome)
  PROVE  Ends(c, outcome)
  BY DEF TypeOK, Finishes, Moves, Ends

\* A call that moves on has neither.
LEMMA MovesLeavesTrail ==
  ASSUME TypeOK, NEW c \in Calls, NEW phase, phase \notin Outcomes,
         calls[c].phase \notin Outcomes, Moves(c, phase), UNCHANGED audit
  PROVE  LeavesTrail
  BY DEF TypeOK, Moves, LeavesTrail

\* Every step is one or the other.
LEMMA TrailShape ==
  ASSUME ToolGatewayAssumption, GateInv, [Next]_vars
  PROVE  LeavesTrail \/ \E c \in Calls, outcome \in Outcomes : Ends(c, outcome)
  <1>0. TypeOK
    BY DEF GateInv
  <1>1. ASSUME NEW c \in Calls, RefusedEarly(c)
        PROVE  \E outcome \in Outcomes : Ends(c, outcome)
    <2>1. PICK outcome \in {"error", "denied_scope", "denied_validation"} : Finishes(c, outcome)
      BY <1>1 DEF RefusedEarly
    <2>2. outcome \in Outcomes /\ calls[c].phase \notin Outcomes
      BY <1>1 DEF Outcomes, RefusedEarly
    <2> QED
      BY <1>0, <2>1, <2>2, FinishesEnds
  <1>2. ASSUME NEW c \in Calls, NEW k \in Keys, Arrives(c, k)
        PROVE  LeavesTrail \/ \E outcome \in Outcomes : Ends(c, outcome)
    <2>1. PICK goes \in {"denied_rate_limit", "waiting", "running"} :
             /\ calls[c].phase = "new"
             /\ calls' = [calls EXCEPT ![c] = [key |-> k, limited |-> now, phase |-> goes]]
             /\ IF goes = "denied_rate_limit" THEN Records(c, goes) ELSE UNCHANGED audit
      BY <1>2, ArrivesShape
    <2>2. /\ calls'[c].phase = goes
          /\ \A d \in Calls \ {c} : calls'[d].phase = calls[d].phase
      BY <1>0, <2>1 DEF TypeOK
    <2>3. CASE goes = "denied_rate_limit"
      <3>1. goes \in Outcomes /\ Ends(c, goes)
        BY <2>1, <2>2, <2>3 DEF Ends, Outcomes
      <3> QED
        BY <3>1
    <2>4. CASE goes # "denied_rate_limit"
      BY <2>1, <2>2, <2>4 DEF LeavesTrail, Outcomes
    <2> QED
      BY <2>3, <2>4
  <1>3. ASSUME NEW c \in Calls, NEW decision \in {"approved", "denied"}, Decides(c, decision)
        PROVE  LeavesTrail
    BY <1>3 DEF Decides, LeavesTrail
  <1>4. ASSUME NEW c \in Calls, Resumes(c)
        PROVE  LeavesTrail \/ Ends(c, "denied_approval")
    <2>1. calls[c].phase \notin Outcomes
      BY <1>4 DEF Resumes, Decided, Waiting, Outcomes
    <2> QED
      BY <1>0, <1>4, <2>1, FinishesEnds, MovesLeavesTrail DEF Resumes, Outcomes
  <1>5. ASSUME NEW c \in Calls, TimesOut(c) PROVE Ends(c, "denied_approval")
    BY <1>0, <1>5, FinishesEnds DEF TimesOut, Waiting, Outcomes
  <1>6. ASSUME NEW c \in Calls, HandlerEnds(c) PROVE \E outcome \in Outcomes : Ends(c, outcome)
    <2>1. PICK outcome \in {"allowed", "error"} : Finishes(c, outcome)
      BY <1>6 DEF HandlerEnds
    <2>2. outcome \in Outcomes /\ calls[c].phase \notin Outcomes
      BY <1>6 DEF Outcomes, HandlerEnds, Running
    <2> QED
      BY <1>0, <2>1, <2>2, FinishesEnds
  <1>7. ASSUME NEW c \in Calls, Cancelled(c) PROVE LeavesTrail
    BY <1>0, <1>7, MovesLeavesTrail DEF Cancelled, Waiting, Running, Outcomes
  <1>8. CASE Tick \/ UNCHANGED vars
    BY <1>8 DEF Tick, vars, LeavesTrail
  <1>9. "denied_approval" \in Outcomes
    BY DEF Outcomes
  <1> QED
    BY <1>1, <1>2, <1>3, <1>4, <1>5, <1>6, <1>7, <1>8, <1>9 DEF Next

\* One entry more, of one call.
LEMMA EntryAdded ==
  ASSUME TypeOK, NEW c \in Calls, NEW outcome \in Outcomes, Records(c, outcome)
  PROVE  /\ \A d \in Calls \ {c} : Entries(d)' = Entries(d)
         /\ \E i \in DOMAIN audit' : /\ Entries(c)' = Entries(c) \cup {i}
                                     /\ audit'[i].outcome = outcome
         /\ \A i \in DOMAIN audit : i \in DOMAIN audit' /\ audit'[i] = audit[i]
  <1> DEFINE n == Len(audit) + 1
  <1>1. /\ audit \in Seq([call : Calls, outcome : Outcomes])
        /\ audit' = Append(audit, [call |-> c, outcome |-> outcome])
    BY DEF TypeOK, Records
  <1>2. /\ Len(audit) \in Nat /\ DOMAIN audit = 1..Len(audit) /\ DOMAIN audit' = 1..n
        /\ \A i \in 1..Len(audit) : audit'[i] = audit[i]
        /\ audit'[n] = [call |-> c, outcome |-> outcome]
    BY <1>1
  <1>3. n \in 1..n /\ \A i \in 1..n : i \in 1..Len(audit) \/ i = n
    BY <1>2
  <1>4. \A i \in 1..Len(audit) : i \in 1..n /\ i # n
    BY <1>2
  <1> HIDE DEF n
  <1>5. audit'[n].call = c /\ audit'[n].outcome = outcome
    BY <1>2
  <1>6. ASSUME NEW d \in Calls \ {c} PROVE Entries(d)' = Entries(d)
    BY <1>2, <1>3, <1>4, <1>5 DEF Entries
  <1>7. Entries(c)' = Entries(c) \cup {n}
    BY <1>2, <1>3, <1>4, <1>5 DEF Entries
  <1> QED
    BY <1>2, <1>3, <1>4, <1>5, <1>6, <1>7

\* Every step keeps the trail.
LEMMA AuditKept == ASSUME ToolGatewayAssumption, AuditInv, [Next]_vars PROVE AuditInv'
  <1>1. GateInv' /\ TypeOK
    BY GateKept DEF AuditInv, GateInv
  <1>2. CASE LeavesTrail
    <2>1. ASSUME NEW d \in Calls PROVE Told(d)'
      <3>1. Told(d) /\ Entries(d)' = Entries(d) /\ audit' = audit
        BY <1>2 DEF AuditInv, LeavesTrail, Entries
      <3>2. \/ calls'[d].phase = calls[d].phase
            \/ calls[d].phase \notin Outcomes /\ calls'[d].phase \notin Outcomes
        BY <1>2 DEF LeavesTrail
      <3> QED
        BY <3>1, <3>2 DEF Told
    <2> QED
      BY <1>1, <2>1 DEF AuditInv
  <1>3. ASSUME NEW c \in Calls, NEW outcome \in Outcomes, Ends(c, outcome) PROVE AuditInv'
    <2>1. /\ \A d \in Calls \ {c} : Entries(d)' = Entries(d)
          /\ \E i \in DOMAIN audit' : /\ Entries(c)' = Entries(c) \cup {i}
                                      /\ audit'[i].outcome = outcome
          /\ \A i \in DOMAIN audit : i \in DOMAIN audit' /\ audit'[i] = audit[i]
      BY <1>1, <1>3, EntryAdded DEF Ends
    <2>2. Told(c)'
      <3>1. Entries(c) = {} /\ calls'[c].phase = outcome
        BY <1>3 DEF AuditInv, Told, Ends
      <3> QED
        BY <2>1, <3>1 DEF Told
    <2>3. ASSUME NEW d \in Calls \ {c} PROVE Told(d)'
      <3>1. Told(d) /\ Entries(d)' = Entries(d) /\ calls'[d].phase = calls[d].phase
        BY <1>3, <2>1 DEF AuditInv, Ends
      <3> QED
        BY <2>1, <3>1 DEF Told
    <2> QED
      BY <1>1, <2>2, <2>3 DEF AuditInv
  <1> QED
    BY <1>2, <1>3, TrailShape DEF AuditInv

\* The trail tells what happened.
LEMMA AuditInvTells == AuditInv => AuditTellsWhatHappened
  <1> SUFFICES ASSUME AuditInv, NEW c \in Calls
               PROVE  /\ calls[c].phase \in Outcomes
                           => \E i \in DOMAIN audit : Entries(c) = {i} /\ audit[i].outcome = calls[c].phase
                      /\ calls[c].phase \in {"new", "waiting", "running"} => Entries(c) = {}
                      /\ calls[c].phase = "denied_approval"
                           => c \notin ran /\ status[c] \in {"denied", "expired"}
                      /\ c \in ran => calls[c].phase \in {"running", "allowed", "error", "cancelled"}
    BY DEF AuditTellsWhatHappened, Entries
  <1>1. Told(c) /\ Stands(c)
    BY DEF AuditInv, GateInv
  <1> QED
    BY <1>1 DEF Told, Stands, Refused, LowRisk, Gated, Outcomes

\* The audit trail (AuditTellsWhatHappened; audit.py:17-38, gateway.py:50-122):
\* every call that ended has exactly one entry, which tells how, and every open
\* one has none.
THEOREM AuditCorrect == Spec => []AuditTellsWhatHappened
  <1>1. Init => AuditInv
    <2> SUFFICES ASSUME Init PROVE AuditInv
      OBVIOUS
    <2>1. GateInv /\ DOMAIN audit = {} /\ \A c \in Calls : calls[c].phase = "new"
      BY ToolGatewayAssumption, GateInitially DEF Init
    <2> QED
      BY <2>1 DEF AuditInv, Told, Entries, Outcomes
  <1>2. AuditInv /\ [Next]_vars => AuditInv'
    BY ToolGatewayAssumption, AuditKept
  <1>3. AuditInv => AuditTellsWhatHappened
    BY AuditInvTells
  <1> QED
    BY <1>1, <1>2, <1>3, PTL DEF Spec

-------------------------------------------------------------------------------
(* The rate limit *)

\* What a full bucket and its refill from s to t pay for.
Pays(s, t) == Full + (t - s) * RateLimit

LetThrough(k, s, t) ==
  {c \in Calls :
    /\ calls[c].key = k /\ calls[c].phase # "denied_rate_limit"
    /\ calls[c].limited \in s..t}

\* No window took more than is paid for.
Windows ==
  \A k \in Keys, s \in 0..now : \A t \in s..now : Spent(k, s, t) <= Pays(s, t)

\* The account of a bucket at its last refill: whatever window ends there, what
\* it took and what is left is paid for; and one window took all but what is left.
Paid(k, t, left) ==
  /\ \A c \in Calls : calls[c].key = k => calls[c].limited \in 0..t
  /\ \A s \in 0..t : Spent(k, s, t) + left <= Pays(s, t)
  /\ \E s \in 0..t : Spent(k, s, t) + left >= Pays(s, t)

BucketsPaid == \A k \in Keys : Paid(k, buckets[k].last_refill, buckets[k].tokens)

DeniedRightly ==
  \A c \in Calls, k \in Keys, t \in Nat :
    calls[c].phase = "denied_rate_limit" /\ calls[c].key = k /\ calls[c].limited = t
      => \E s \in 0..t : Spent(k, s, t) + Minute > Pays(s, t)

RateInv == GateInv /\ Windows /\ BucketsPaid /\ DeniedRightly

\* What two adjacent windows pay for, the whole one pays for.
LEMMA PaysAdds ==
  ASSUME ToolGatewayAssumption, NEW s \in Nat, NEW m \in Nat, NEW t \in Nat, s <= m, m <= t
  PROVE  /\ Pays(s, m) \in Nat /\ Pays(s, t) \in Nat /\ (t - m) * RateLimit \in Nat
         /\ Pays(s, t) = Pays(s, m) + (t - m) * RateLimit
         /\ Full \in Nat /\ Full <= Pays(s, t)
  <1> DEFINE a == m - s
             b == t - m
  <1>1. /\ a \in Nat /\ b \in Nat /\ t - s = a + b /\ RateLimit \in Nat /\ Full \in Nat
    BY DEF ToolGatewayAssumption, Full
  <1>2. /\ (a + b) * RateLimit = a * RateLimit + b * RateLimit
        /\ a * RateLimit \in Nat /\ b * RateLimit \in Nat
    <2> HIDE DEF a, b
    <2> QED
      BY <1>1
  <1>3. /\ Pays(s, m) = Full + a * RateLimit
        /\ Pays(s, t) = Full + (a + b) * RateLimit
        /\ (t - m) * RateLimit = b * RateLimit
    BY <1>1 DEF Pays
  <1> HIDE DEF a, b
  <1> QED
    BY <1>1, <1>2, <1>3

\* Only finitely many calls are let through in a window.
LEMMA SpentCounts ==
  ASSUME ToolGatewayAssumption, NEW k, NEW s, NEW t
  PROVE  /\ IsFiniteSet(LetThrough(k, s, t))
         /\ Spent(k, s, t) = Minute * Cardinality(LetThrough(k, s, t))
         /\ Cardinality(LetThrough(k, s, t)) \in Nat /\ Spent(k, s, t) \in Nat
  <1>1. LetThrough(k, s, t) \subseteq Calls /\ IsFiniteSet(Calls) /\ Minute \in Nat
    BY DEF LetThrough, ToolGatewayAssumption
  <1>2. IsFiniteSet(LetThrough(k, s, t)) /\ Cardinality(LetThrough(k, s, t)) \in Nat
    BY <1>1, FS_Subset, FS_CardinalityType
  <1>3. Spent(k, s, t) = Minute * Cardinality(LetThrough(k, s, t))
    BY DEF Spent, LetThrough
  <1>4. Minute * Cardinality(LetThrough(k, s, t)) \in Nat
    BY <1>1, <1>2
  <1> QED
    BY <1>2, <1>3, <1>4

\* After its last refill a bucket let nobody through.
LEMMA NothingSpentSince ==
  ASSUME ToolGatewayAssumption, NEW k \in Keys, NEW m \in Nat, NEW s \in Nat, NEW t \in Nat,
         m <= t, \A c \in Calls : calls[c].key = k => calls[c].limited \in 0..m
  PROVE  /\ Spent(k, s, t) = Spent(k, s, m)
         /\ m < s => Spent(k, s, t) = 0
  <1>1. LetThrough(k, s, t) = LetThrough(k, s, m)
    BY DEF LetThrough
  <1>2. m < s => LetThrough(k, s, t) = {}
    BY DEF LetThrough
  <1>3. Minute \in Nat
    BY DEF ToolGatewayAssumption
  <1>4. m < s => Spent(k, s, t) = 0
    BY <1>2, <1>3, SpentCounts, FS_EmptySet
  <1> QED
    BY <1>1, <1>4, SpentCounts

\* Refilling keeps the account.
LEMMA RefillKeepsPaid ==
  ASSUME ToolGatewayAssumption, TypeOK, NEW k \in Keys,
         Paid(k, buckets[k].last_refill, buckets[k].tokens)
  PROVE  Paid(k, now, Refilled(buckets[k]))
  <1> DEFINE m == buckets[k].last_refill
             tokens == buckets[k].tokens
             more == (now - m) * RateLimit
             full == Refilled(buckets[k])
  <1>1. /\ m \in Nat /\ now \in Nat /\ m <= now /\ tokens \in Nat /\ Full \in Nat
        /\ more \in Nat /\ full \in Nat
        /\ full = IF tokens + more < Full THEN tokens + more ELSE Full
    BY RefilledIsTyped DEF TypeOK, Refilled
  <1> HIDE DEF m, tokens, full
  <1>2. /\ \A c \in Calls : calls[c].key = k => calls[c].limited \in 0..m
        /\ \A s \in 0..m : Spent(k, s, m) + tokens <= Pays(s, m)
        /\ \E s \in 0..m : Spent(k, s, m) + tokens >= Pays(s, m)
    BY DEF Paid, m, tokens
  <1>3. ASSUME NEW s \in 0..m
        PROVE  /\ Pays(s, m) \in Nat /\ Pays(s, now) = Pays(s, m) + more
               /\ Spent(k, s, now) = Spent(k, s, m) /\ Spent(k, s, m) \in Nat
    <2>1. s \in Nat /\ s <= m
      BY <1>1
    <2>2. Pays(s, m) \in Nat /\ Pays(s, now) = Pays(s, m) + more
      BY <1>1, <2>1, PaysAdds
    <2>3. Spent(k, s, now) = Spent(k, s, m)
      BY <1>1, <1>2, <2>1, NothingSpentSince
    <2> QED
      BY <2>2, <2>3, SpentCounts
  <1>4. ASSUME NEW s \in 0..now PROVE Spent(k, s, now) + full <= Pays(s, now)
    <2>1. CASE s <= m
      <3> HIDE DEF more
      <3>1. /\ s \in 0..m /\ Pays(s, m) \in Nat /\ Pays(s, now) = Pays(s, m) + more
            /\ Spent(k, s, now) = Spent(k, s, m) /\ Spent(k, s, m) \in Nat
            /\ Spent(k, s, m) + tokens <= Pays(s, m)
        BY <1>1, <1>2, <1>3, <2>1
      <3> QED
        BY <1>1, <3>1
    <2>2. CASE m < s
      <3>1. Spent(k, s, now) = 0 /\ Full <= Pays(s, now) /\ Pays(s, now) \in Nat
        <4>1. s \in Nat /\ s <= now
          BY <1>1
        <4>2. Spent(k, s, now) = 0
          BY <1>1, <1>2, <2>2, <4>1, NothingSpentSince
        <4>3. Full <= Pays(s, now) /\ Pays(s, now) \in Nat
          BY <1>1, <4>1, PaysAdds
        <4> QED
          BY <4>2, <4>3
      <3> QED
        BY <1>1, <3>1
    <2> QED
      BY <1>1, <2>1, <2>2
  <1>5. \E s \in 0..now : Spent(k, s, now) + full >= Pays(s, now)
    <2>1. CASE tokens + more < Full
      <3>1. PICK s \in 0..m : Spent(k, s, m) + tokens >= Pays(s, m)
        BY <1>2
      <3> HIDE DEF more
      <3>2. s \in 0..now /\ full = tokens + more
        BY <1>1, <2>1
      <3>3. Spent(k, s, now) + full >= Pays(s, now)
        BY <1>1, <1>3, <3>1, <3>2
      <3> QED
        BY <3>2, <3>3
    <2>2. CASE ~(tokens + more < Full)
      <3>1. now \in 0..now /\ Pays(now, now) = Full /\ Spent(k, now, now) \in Nat /\ full = Full
        BY <1>1, <2>2, SpentCounts DEF Pays, ToolGatewayAssumption
      <3>2. Spent(k, now, now) + full >= Pays(now, now)
        BY <1>1, <3>1
      <3> QED
        BY <3>1, <3>2
    <2> QED
      BY <2>1, <2>2
  <1>6. \A c \in Calls : calls[c].key = k => calls[c].limited \in 0..now
    BY <1>1, <1>2
  <1> QED
    BY <1>4, <1>5, <1>6 DEF Paid, full

\* A step that is not a call's arrival at its bucket takes no tokens.
SpendsNothing ==
  /\ buckets' = buckets /\ now' \in {now, now + 1}
  /\ \A d \in Calls : /\ calls'[d].key = calls[d].key /\ calls'[d].limited = calls[d].limited
                      /\ calls'[d].phase = "denied_rate_limit"
                           <=> calls[d].phase = "denied_rate_limit"

\* A call that is past its bucket spends nothing.
LEMMA MovesSpendsNothing ==
  ASSUME TypeOK, NEW c \in Calls, NEW phase, Moves(c, phase), UNCHANGED <<buckets, now>>,
         phase # "denied_rate_limit", calls[c].phase # "denied_rate_limit"
  PROVE  SpendsNothing
  BY DEF TypeOK, Call, Moves, SpendsNothing

\* Only an arriving call spends.
LEMMA SpendingShape ==
  ASSUME GateInv, [Next]_vars
  PROVE  SpendsNothing \/ \E c \in Calls, k \in Keys : Arrives(c, k)
  <1>0. TypeOK
    BY DEF GateInv
  <1>1. ASSUME NEW c \in Calls,
               RefusedEarly(c) \/ Resumes(c) \/ TimesOut(c) \/ HandlerEnds(c) \/ Cancelled(c)
        PROVE  SpendsNothing
    <2>1. \E phase \in (Outcomes \ {"denied_rate_limit"}) \cup {"running", "cancelled"} : Moves(c, phase)
      BY <1>1 DEF RefusedEarly, Resumes, TimesOut, HandlerEnds, Cancelled, Finishes, Outcomes
    <2>2. calls[c].phase # "denied_rate_limit" /\ UNCHANGED <<buckets, now>>
      BY <1>1 DEF RefusedEarly, Resumes, TimesOut, HandlerEnds, Cancelled, Decided, Waiting, Running
    <2>3. PICK phase \in (Outcomes \ {"denied_rate_limit"}) \cup {"running", "cancelled"} : Moves(c, phase)
      BY <2>1
    <2> QED
      BY <1>0, <2>2, <2>3, MovesSpendsNothing
  <1>2. ASSUME NEW c \in Calls, NEW decision \in {"approved", "denied"}, Decides(c, decision)
        PROVE  SpendsNothing
    BY <1>2 DEF Decides, SpendsNothing
  <1>3. CASE Tick \/ UNCHANGED vars
    BY <1>3 DEF Tick, vars, SpendsNothing
  <1> QED
    BY <1>1, <1>2, <1>3 DEF Next

\* What spends nothing keeps every account.
LEMMA SpendsNothingKept ==
  ASSUME ToolGatewayAssumption, RateInv, SpendsNothing
  PROVE  Windows' /\ BucketsPaid' /\ DeniedRightly'
  <1>0. /\ TypeOK /\ now \in Nat /\ now' \in Nat /\ now' \in {now, now + 1} /\ buckets' = buckets
        /\ \A d \in Calls : /\ calls'[d].key = calls[d].key /\ calls'[d].limited = calls[d].limited
                            /\ calls'[d].phase = "denied_rate_limit"
                                 <=> calls[d].phase = "denied_rate_limit"
    BY DEF RateInv, GateInv, TypeOK, SpendsNothing
  <1>1. ASSUME NEW k, NEW s, NEW t PROVE Spent(k, s, t)' = Spent(k, s, t)
    <2>1. LetThrough(k, s, t)' = LetThrough(k, s, t)
      BY <1>0 DEF LetThrough
    <2> QED
      BY <2>1 DEF Spent, LetThrough
  <1>2. BucketsPaid'
    <2> SUFFICES ASSUME NEW k \in Keys
                 PROVE  Paid(k, buckets[k].last_refill, buckets[k].tokens)'
      BY DEF BucketsPaid
    <2>1. Paid(k, buckets[k].last_refill, buckets[k].tokens)
      BY DEF RateInv, BucketsPaid
    <2> QED
      BY <1>0, <1>1, <2>1 DEF Paid
  <1>3. Windows'
    <2> SUFFICES ASSUME NEW k \in Keys, NEW s \in 0..now', NEW t \in s..now'
                 PROVE  Spent(k, s, t) <= Pays(s, t)
      BY <1>1 DEF Windows
    <2>1. CASE t <= now
      BY <1>0, <2>1 DEF RateInv, Windows
    <2>2. CASE now < t
      <3>1. /\ t = now + 1 /\ now \in Nat /\ s \in Nat /\ t \in Nat /\ now <= t /\ s <= t
        BY <1>0, <2>2
      <3>2. \A c \in Calls : calls[c].key = k => calls[c].limited \in 0..now
        <4>1. buckets[k].last_refill \in 0..now
          BY <1>0 DEF TypeOK
        <4>2. \A c \in Calls : calls[c].key = k => calls[c].limited \in 0..buckets[k].last_refill
          BY DEF RateInv, BucketsPaid, Paid
        <4> QED
          BY <1>0, <4>1, <4>2
      <3>3. /\ Spent(k, s, t) = Spent(k, s, now)
            /\ now < s => Spent(k, s, t) = 0
        BY <3>1, <3>2, NothingSpentSince
      <3>4. CASE s <= now
        <4>1. Spent(k, s, now) <= Pays(s, now) /\ Spent(k, s, now) \in Nat
          BY <3>1, <3>4, SpentCounts DEF RateInv, Windows
        <4>2. /\ Pays(s, now) \in Nat /\ (t - now) * RateLimit \in Nat
              /\ Pays(s, t) = Pays(s, now) + (t - now) * RateLimit
          BY <3>1, <3>4, PaysAdds
        <4> DEFINE more == (t - now) * RateLimit
        <4> HIDE DEF more
        <4>3. more \in Nat /\ Pays(s, t) = Pays(s, now) + more
          BY <4>2 DEF more
        <4> QED
          BY <3>3, <4>1, <4>2, <4>3
      <3>5. CASE now < s
        <4>1. s <= s /\ s \in Nat /\ t \in Nat /\ s <= t
          BY <3>1
        <4>2. Pays(s, t) \in Nat
          BY <4>1, PaysAdds
        <4> QED
          BY <3>3, <3>5, <4>2
      <3> QED
        BY <3>1, <3>4, <3>5
    <2> QED
      BY <1>0, <2>1, <2>2
  <1>4. DeniedRightly'
    <2> SUFFICES ASSUME NEW c \in Calls, NEW k \in Keys, NEW t \in Nat,
                        calls'[c].phase = "denied_rate_limit",
                        calls'[c].key = k, calls'[c].limited = t
                 PROVE  \E s \in 0..t : Spent(k, s, t)' + Minute > Pays(s, t)
      BY DEF DeniedRightly
    <2> QED
      BY <1>0, <1>1 DEF RateInv, DeniedRightly
  <1> QED
    BY <1>2, <1>3, <1>4

\* A call that arrives pays for itself, or is denied for want of tokens.
LEMMA ArrivesKept ==
  ASSUME ToolGatewayAssumption, RateInv, NEW c \in Calls, NEW k \in Keys, Arrives(c, k)
  PROVE  Windows' /\ BucketsPaid' /\ DeniedRightly'
  <1> DEFINE full == Refilled(buckets[k])
  <1>1. PICK goes \in {"denied_rate_limit", "waiting", "running"}, tokens \in 0..Full :
           /\ goes = "denied_rate_limit" <=> full < Minute
           /\ tokens = IF goes = "denied_rate_limit" THEN full ELSE full - Minute
           /\ calls[c].phase = "new"
           /\ calls' = [calls EXCEPT ![c] = [key |-> k, limited |-> now, phase |-> goes]]
           /\ buckets' = [buckets EXCEPT ![k] = [tokens |-> tokens, last_refill |-> now]]
           /\ UNCHANGED now
    <2>1. GateInv
      BY DEF RateInv
    <2> QED
      BY <2>1, ArrivesShape
  <1>2. /\ TypeOK /\ Refused(c) /\ now \in Nat /\ Minute \in Nat
        /\ full \in 0..Full /\ Full \in Nat
    BY <1>1, UnsetIsNoKey, RefilledIsTyped
    DEF RateInv, GateInv, Stands, LowRisk, Gated, TypeOK, ToolGatewayAssumption
  <1>3. Paid(k, now, full)
    BY <1>2, RefillKeepsPaid DEF RateInv, BucketsPaid
  <1> HIDE DEF full
  <1>4. /\ calls'[c].key = k /\ calls'[c].limited = now /\ calls'[c].phase = goes
        /\ \A d \in Calls \ {c} : calls'[d] = calls[d]
        /\ \A j \in Keys : calls[c].key # j
        /\ buckets'[k].tokens = tokens /\ buckets'[k].last_refill = now
        /\ \A j \in Keys \ {k} : buckets'[j] = buckets[j]
    BY <1>1, <1>2, UnsetIsNoKey DEF TypeOK, Refused
  <1>5. ASSUME NEW j \in Keys, NEW s \in Nat, NEW t \in Nat
        PROVE  Spent(j, s, t)' = IF j = k /\ goes # "denied_rate_limit" /\ now \in s..t
                                 THEN Spent(j, s, t) + Minute ELSE Spent(j, s, t)
    <2>1. c \notin LetThrough(j, s, t)
      BY <1>4 DEF LetThrough
    <2>2. LetThrough(j, s, t)' = IF j = k /\ goes # "denied_rate_limit" /\ now \in s..t
                                 THEN LetThrough(j, s, t) \cup {c} ELSE LetThrough(j, s, t)
      BY <1>4 DEF LetThrough
    <2>3. Cardinality(LetThrough(j, s, t) \cup {c}) = Cardinality(LetThrough(j, s, t)) + 1
      BY <2>1, SpentCounts, FS_AddElement
    <2>4. Spent(j, s, t)' = Minute * Cardinality(LetThrough(j, s, t)')
      BY DEF Spent, LetThrough
    <2>5. /\ Cardinality(LetThrough(j, s, t)) \in Nat
          /\ Spent(j, s, t) = Minute * Cardinality(LetThrough(j, s, t))
      BY SpentCounts
    <2>6. Minute * (Cardinality(LetThrough(j, s, t)) + 1)
            = Minute * Cardinality(LetThrough(j, s, t)) + Minute
      BY <1>2, <2>5
    <2> QED
      BY <2>2, <2>3, <2>4, <2>5, <2>6
  <1>6. ASSUME NEW s \in 0..now
        PROVE  Spent(k, s, now)' + tokens = Spent(k, s, now) + full /\ Spent(k, s, now) \in Nat
    BY <1>1, <1>2, <1>5, SpentCounts
  <1>7. BucketsPaid'
    <2> SUFFICES ASSUME NEW j \in Keys
                 PROVE  Paid(j, buckets[j].last_refill, buckets[j].tokens)'
      BY DEF BucketsPaid
    <2>1. CASE j = k
      <3>1. \A d \in Calls : calls'[d].key = k => calls'[d].limited \in 0..now
        BY <1>2, <1>3, <1>4 DEF Paid
      <3>2. \A s \in 0..now : Spent(k, s, now)' + tokens <= Pays(s, now)
        BY <1>3, <1>6 DEF Paid
      <3>3. \E s \in 0..now : Spent(k, s, now)' + tokens >= Pays(s, now)
        BY <1>3, <1>6 DEF Paid
      <3> QED
        BY <1>1, <1>4, <2>1, <3>1, <3>2, <3>3 DEF Paid
    <2>2. CASE j # k
      <3>1. Paid(j, buckets[j].last_refill, buckets[j].tokens)
        BY DEF RateInv, BucketsPaid
      <3>2. buckets'[j] = buckets[j] /\ buckets[j].last_refill \in Nat
        BY <1>2, <1>4, <2>2 DEF TypeOK
      <3>3. \A s \in Nat : Spent(j, s, buckets[j].last_refill)' = Spent(j, s, buckets[j].last_refill)
        <4> DEFINE m == buckets[j].last_refill
        <4>1. PICK t \in Nat : t = buckets[j].last_refill
          BY <3>2
        <4>2. t = buckets'[j].last_refill
          BY <3>2, <4>1
        <4>3. \A s \in Nat : Spent(j, s, t)' = Spent(j, s, t)
          BY <1>5, <2>2
        <4> QED
          BY <4>1, <4>2, <4>3
      <3>4. \A d \in Calls : calls'[d].key = j => calls'[d] = calls[d]
        BY <1>4, <2>2
      <3> QED
        BY <3>1, <3>2, <3>3, <3>4 DEF Paid
    <2> QED
      BY <2>1, <2>2
  <1>8. Windows'
    <2> SUFFICES ASSUME NEW j \in Keys, NEW s \in 0..now, NEW t \in s..now
                 PROVE  Spent(j, s, t)' <= Pays(s, t)
      BY <1>1 DEF Windows
    <2>1. CASE j = k /\ t = now
      <3>1. Spent(k, s, now)' + tokens <= Pays(s, now)
        BY <1>3, <1>6 DEF Paid
      <3>2. Spent(k, s, now)' = Spent(k, s, now) + full - tokens
        BY <1>1, <1>2, <1>5, SpentCounts
      <3>3. Pays(s, now) \in Nat
        <4>1. s \in Nat /\ s <= s /\ s <= now
          BY <1>2
        <4> QED
          BY <1>2, <4>1, PaysAdds
      <3> QED
        BY <1>1, <1>2, <1>6, <2>1, <3>1, <3>2, <3>3
    <2>2. CASE ~(j = k /\ t = now)
      <3>1. Spent(j, s, t)' = Spent(j, s, t)
        BY <1>2, <1>5, <2>2
      <3> QED
        BY <3>1 DEF RateInv, Windows
    <2> QED
      BY <2>1, <2>2
  <1>9. DeniedRightly'
    <2> SUFFICES ASSUME NEW d \in Calls, NEW j \in Keys, NEW t \in Nat,
                        calls'[d].phase = "denied_rate_limit",
                        calls'[d].key = j, calls'[d].limited = t
                 PROVE  \E s \in 0..t : Spent(j, s, t)' + Minute > Pays(s, t)
      BY DEF DeniedRightly
    <2>1. CASE d = c
      <3>1. j = k /\ t = now /\ goes = "denied_rate_limit" /\ full < Minute
        BY <1>1, <1>4, <2>1
      <3>2. PICK s \in 0..t : Spent(j, s, t) + full >= Pays(s, t)
        BY <1>3, <3>1 DEF Paid
      <3>3. s \in Nat /\ s <= s /\ s <= t
        OBVIOUS
      <3>4. Spent(j, s, t)' = Spent(j, s, t)
        BY <1>5, <3>1, <3>3
      <3>5. Spent(j, s, t) \in Nat /\ Pays(s, t) \in Nat
        BY <3>3, PaysAdds, SpentCounts
      <3> QED
        BY <1>2, <3>1, <3>2, <3>4, <3>5
    <2>2. CASE d # c
      <3>1. PICK s \in 0..t : Spent(j, s, t) + Minute > Pays(s, t)
        BY <1>4, <2>2 DEF RateInv, DeniedRightly
      <3>2. s \in Nat /\ s <= s /\ s <= t
        OBVIOUS
      <3>3. Spent(j, s, t) \in Nat /\ Pays(s, t) \in Nat
        BY <3>2, PaysAdds, SpentCounts
      <3>4. Spent(j, s, t)' = Spent(j, s, t) \/ Spent(j, s, t)' = Spent(j, s, t) + Minute
        BY <1>5, <3>2
      <3> QED
        BY <1>2, <3>1, <3>3, <3>4
    <2> QED
      BY <2>1, <2>2
  <1> QED
    BY <1>7, <1>8, <1>9

\* Every bucket is full and no window has let anything through.
LEMMA RateInitially == ASSUME ToolGatewayAssumption, Init PROVE RateInv
  <1>1. /\ GateInv /\ now = 0 /\ \A k \in Keys : buckets[k] = [tokens |-> Full, last_refill |-> 0]
        /\ \A c \in Calls : calls[c].key = Unset /\ calls[c].phase = "new"
    BY GateInitially DEF Init
  <1>2. Full \in Nat /\ Pays(0, 0) = Full
    BY DEF ToolGatewayAssumption, Full, Pays
  <1>3. ASSUME NEW k \in Keys PROVE Spent(k, 0, 0) = 0
    <2>1. LetThrough(k, 0, 0) = {}
      BY <1>1, UnsetIsNoKey DEF LetThrough
    <2>2. Minute * 0 = 0
      BY DEF ToolGatewayAssumption
    <2> QED
      BY <2>1, <2>2, SpentCounts, FS_EmptySet
  <1>4. Windows
    BY <1>1, <1>2, <1>3 DEF Windows
  <1>5. BucketsPaid
    <2> SUFFICES ASSUME NEW k \in Keys PROVE Paid(k, 0, Full)
      BY <1>1 DEF BucketsPaid
    <2>1. 0 \in 0..0 /\ \A s \in 0..0 : s = 0
      OBVIOUS
    <2>2. \A c \in Calls : calls[c].key # k
      BY <1>1, UnsetIsNoKey
    <2> QED
      BY <1>2, <1>3, <2>1, <2>2 DEF Paid
  <1>6. DeniedRightly
    BY <1>1 DEF DeniedRightly
  <1> QED
    BY <1>1, <1>4, <1>5, <1>6 DEF RateInv

\* The accounts bound every window.
LEMMA RateInvLimits == RateInv => RateLimited
  <1> SUFFICES ASSUME RateInv PROVE RateLimited
    OBVIOUS
  <1>1. \A k \in Keys, s \in 0..now : \A t \in s..now :
          Spent(k, s, t) <= Full + (t - s) * RateLimit
    BY DEF RateInv, Windows, Pays
  <1>2. ASSUME NEW c \in Calls, calls[c].phase = "denied_rate_limit"
        PROVE  \E s \in 0..calls[c].limited :
                 Spent(calls[c].key, s, calls[c].limited) + Minute
                   > Full + (calls[c].limited - s) * RateLimit
    <2>1. calls[c].key \in Keys
      BY <1>2 DEF RateInv, GateInv, Stands, Refused, LowRisk, Gated
    <2>2. calls[c].limited \in Nat
      <3>1. buckets[calls[c].key].last_refill \in Nat
        BY <2>1 DEF RateInv, GateInv, TypeOK
      <3> QED
        BY <2>1, <3>1 DEF RateInv, BucketsPaid, Paid
    <2> QED
      BY <1>2, <2>1, <2>2 DEF RateInv, DeniedRightly, Pays
  <1> QED
    BY <1>1, <1>2 DEF RateLimited

\* The rate limit (RateLimited; rate_limit.py:29-46): no window lets more calls
\* through than a full bucket and the refill of that window pay for, and a call is
\* denied only when the bucket was used up.
THEOREM RateCorrect == Spec => []RateLimited
  <1>1. Init => RateInv
    BY ToolGatewayAssumption, RateInitially
  <1>2. RateInv /\ [Next]_vars => RateInv'
    <2> SUFFICES ASSUME RateInv, [Next]_vars PROVE RateInv'
      OBVIOUS
    <2>1. GateInv /\ GateInv'
      BY ToolGatewayAssumption, GateKept DEF RateInv
    <2>2. CASE SpendsNothing
      BY <2>1, <2>2, ToolGatewayAssumption, SpendsNothingKept DEF RateInv
    <2>3. ASSUME NEW c \in Calls, NEW k \in Keys, Arrives(c, k) PROVE RateInv'
      BY <2>1, <2>3, ToolGatewayAssumption, ArrivesKept DEF RateInv
    <2> QED
      BY <2>1, <2>2, <2>3, SpendingShape
  <1>3. RateInv => RateLimited
    BY RateInvLimits
  <1> QED
    BY <1>1, <1>2, <1>3, PTL DEF Spec
===============================================================================
