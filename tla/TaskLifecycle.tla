--------------------------- MODULE TaskLifecycle ---------------------------
(****************************************************************************)
(* What the durable task engine promises about one task, without clocks,     *)
(* queues or other tasks (README.md and store.py:11-24 of                    *)
(* labs/durable-agent-task-engine).  A task is accepted once; it is held by  *)
(* one token at a time; a token is never used twice; it changes hands only   *)
(* after the holder gave it up or let it become overdue; only its holder     *)
(* adds to its checkpoint or finishes it; it is set aside only after its     *)
(* attempts are spent; and finished is final.                                *)
(****************************************************************************)
EXTENDS Naturals

CONSTANTS Limits, Fields

VARIABLES
  phase,     \* "absent", "waiting", "held", "done" or "dead"
  limit,     \* how many deliveries the task may have
  tries,     \* deliveries since it was accepted or revived
  holder,    \* the token that holds it, 0 when nobody does
  overdue,   \* the holder has missed its deadline
  tokens,    \* every token that ever held it
  saved      \* each checkpoint field: the token that saved it last, or 0

lifeVars == <<phase, limit, tries, holder, overdue, tokens, saved>>

LifeInit ==
  /\ phase = "absent"
  /\ limit = 0 /\ tries = 0 /\ holder = 0
  /\ overdue = FALSE
  /\ tokens = {}
  /\ saved = [f \in Fields |-> 0]

Accept ==
  /\ phase = "absent" /\ phase' = "waiting"
  /\ limit' \in Limits
  /\ UNCHANGED <<tries, holder, overdue, tokens, saved>>

\* The task changes hands: nobody holds it, or its holder is overdue.
Deliver ==
  /\ phase = "waiting" \/ (phase = "held" /\ overdue)
  /\ tries < limit
  /\ phase' = "held"
  /\ tries' = tries + 1
  /\ \A token \in tokens : token < holder'
  /\ tokens' = tokens \cup {holder'}
  /\ overdue' = FALSE
  /\ UNCHANGED <<limit, saved>>

\* The deadline passes, or the holder asks for more time.
Lapse ==
  /\ phase = "held" /\ overdue' = ~overdue
  /\ UNCHANGED <<phase, limit, tries, holder, tokens, saved>>

Save ==
  /\ phase = "held"
  /\ DOMAIN saved' = Fields
  /\ \A f \in Fields : saved'[f] \in {saved[f], holder}
  /\ UNCHANGED <<phase, limit, tries, holder, overdue, tokens>>

\* The holder is gone: it finished, gave up, or was overdue.
Settle(to) ==
  /\ phase' = to /\ holder' = 0 /\ overdue' = FALSE
  /\ UNCHANGED <<limit, tries, tokens, saved>>

Finish == phase = "held" /\ Settle("done")
Release == phase = "held" /\ Settle("waiting")
Abandon == phase \in {"held", "waiting"} /\ tries = limit /\ Settle("dead")

Revive ==
  /\ phase = "dead" /\ phase' = "waiting"
  /\ tries' \in {0, tries}
  /\ UNCHANGED <<limit, holder, overdue, tokens, saved>>

LifeNext ==
  Accept \/ Deliver \/ Lapse \/ Save \/ Finish \/ Release \/ Abandon \/ Revive

LifeSpec == LifeInit /\ [][LifeNext]_lifeVars
=============================================================================
