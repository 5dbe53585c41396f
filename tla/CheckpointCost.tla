---------------------------- MODULE CheckpointCost ----------------------------
(***************************************************************************)
(* labs/langgraph-checkpoint-cost: a graph appends one payload per step    *)
(* (graphs.py) under a saver that measures what it hands on                *)
(* (measuring_saver.py); a second graph then gets the state back from what *)
(* the saver stored (resume.py).  A payload is the number of its step and  *)
(* weighs 1; the rest of a checkpoint and its metadata weigh Overhead.     *)
(* LangGraph is external: how its channels are checkpointed and read is    *)
(* modelled from what these files and their tests count.  The input is the *)
(* channel's first update (test_semantics.py:60, test_read_path.py:24);    *)
(* that a checkpoint of the bare input precedes it is in the lab's tables, *)
(* whose delta arm puts 3879 bytes in 10 steps of 333 and so two           *)
(* checkpoints besides.                                                    *)
(***************************************************************************)
EXTENDS Naturals, Sequences, Lists

CONSTANTS
  Kinds,         \* of graphs: "accumulating", "replacing", "delta"
  Frequencies,   \* snapshot_frequency of a delta graph
  MaxSteps, Overhead

VARIABLES
  kind, frequency,
  remaining,             \* steps still to run
  items,                 \* the channel's value in the running graph
  blob,                  \* the last value of the channel in a checkpoint
  log,                   \* the writes stored since that checkpoint, per step
  costs, write_costs,    \* what put() and put_writes() measured
  approval               \* the approval graph: [state, approved, log]
checkpointVars == <<kind, frequency, remaining, items, blob, log, costs, write_costs, approval>>

NoApproval == [state |-> "new", approved |-> FALSE, log |-> <<>>]
CheckpointInit ==
  /\ kind \in Kinds /\ frequency \in Frequencies /\ remaining \in 1..MaxSteps
  /\ items = <<>> /\ blob = <<>> /\ log = <<>>
  /\ costs = <<>> /\ write_costs = <<>> /\ approval = NoApproval

\* The reducers: _append, operator.add and none; a delta channel is handed
\* all writes there are to fold at once.
AppendNewest(state, writes) == state \o Last(writes)      \* mutant: right while batches are of one
AppendAll(state, writes) == state \o FlattenSeq(writes)
Reduced(state, writes) == IF kind = "replacing" THEN Last(writes) ELSE AppendAll(state, writes)

\* What a delta channel puts into a checkpoint: the whole value at every
\* frequency-th update, a sentinel otherwise.
Snapshots(updates) == kind # "delta" \/ updates % frequency = 0

Measured(channel) == Len(channel) + Overhead

\* One update of the channel: the writes are stored, then the checkpoint
Update(writes, before) ==
  LET value == Reduced(items, writes)
      whole == Snapshots(Len(write_costs) + 1)
  IN  /\ items' = value
      /\ write_costs' = Append(write_costs, Len(FlattenSeq(writes)))
      /\ costs' = Append(before, Measured(IF whole THEN value ELSE <<>>))
      /\ blob' = IF whole THEN value ELSE blob
      /\ log' = IF whole THEN <<>> ELSE log \o writes
      /\ UNCHANGED <<kind, frequency, approval>>

\* invoke() is given no items: they are put as they are, then written.
Input == /\ write_costs = <<>>
         /\ Update(<<<<>>>>, <<Overhead>>)
         /\ UNCHANGED remaining

\* One superstep: the node's payload
Step == /\ write_costs # <<>> /\ remaining > 0
        /\ Update(<<<<Len(write_costs)>>>>, costs)
        /\ remaining' = remaining - 1

\* The approval graph: request runs, gate interrupts; a human answers, perhaps
\* through another compile of the graph, and gate runs again from its start.
Requests ==
  /\ approval.state = "new"
  /\ approval' = [approval EXCEPT !.state = "interrupted", !.log = Append(@, "requested")]
  /\ UNCHANGED <<kind, frequency, remaining, items, blob, log, costs, write_costs>>
Answers(granted) ==
  /\ approval.state = "interrupted"
  /\ approval' = [state |-> "done", approved |-> granted,
                  log |-> Append(approval.log, IF granted THEN "granted" ELSE "denied")]
  /\ UNCHANGED <<kind, frequency, remaining, items, blob, log, costs, write_costs>>

CheckpointNext == Input \/ Step \/ Requests \/ \E granted \in BOOLEAN : Answers(granted)

\* get_state() of a second graph: the snapshot and the writes after it
Reconstructed == IF log = <<>> THEN blob ELSE Reduced(blob, log)

total_bytes == Total(costs)
total_write_bytes == Total(write_costs)
steps == IF write_costs = <<>> THEN 0 ELSE Len(write_costs) - 1     \* that have been run
expected_items == IF kind = "replacing" THEN IF steps = 0 THEN 0 ELSE 1 ELSE steps
-------------------------------------------------------------------------------
\* Wherever a run is when it is looked at (resume.py:21, measuring_saver.py:16):
\* a reader that shares nothing with it but the saver gets the state it has,
\* and replays one write for every update since a multiple of the frequency,
\* the input one of them; the arms of the sweep hold as many items as they
\* should; every payload was measured once as a write, and those that the last
\* checkpoint with a value lacks are the writes to be replayed; the bytes put
\* grow with the square of the steps when state accumulates, with the steps
\* when it is replaced.
ReadsBackWhatWasMeasured ==
  /\ Reconstructed = items
  /\ Len(log) = IF kind = "delta" THEN Len(write_costs) % frequency ELSE 0
  /\ Len(items) = expected_items
  /\ total_write_bytes = steps
  /\ Len(items) - Len(blob)
       = Total(SubSeq(write_costs, Len(write_costs) - Len(log) + 1, Len(write_costs)))
  /\ kind = "accumulating" => 2 * total_bytes = steps * (steps + 1) + 2 * Overhead * Len(costs)
  /\ kind = "replacing" => total_bytes = steps + Overhead * Len(costs)
  /\ approval.state = "done" => approval.log = <<"requested",
                                   IF approval.approved THEN "granted" ELSE "denied">>
===============================================================================
