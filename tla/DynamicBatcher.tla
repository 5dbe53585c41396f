---------------------------- MODULE DynamicBatcher ----------------------------
(****************************************************************************)
(* The dynamic batcher of labs/dynamic-batching-inference                    *)
(* (src/inference/batcher.py): requests, the run() loop and shutdown(), on   *)
(* one asyncio event loop, and how the app's lifespan ends them (app.py).    *)
(*                                                                           *)
(* The lock is never kept across an await, so nobody waits for it.  run()    *)
(* suspends while it waits for batch_full or its timeout; both run() and     *)
(* shutdown() suspend while the handler works on the batch they took.  Two   *)
(* batches may thus be out at once.                                          *)
(*                                                                           *)
(* A payload stands for the output a right handler computes from it.         *)
(****************************************************************************)
EXTENDS Integers, FiniteSets, Sequences, SequencesExt

CONSTANTS
  Requests,       \* each is submitted once
  MaxBatchSize,
  MayShutDown,    \* whether the app may end
  MaxMiscounts    \* bound: how often the handler returns a wrong number of outputs

ASSUME BatcherAssumption ==
  /\ MaxBatchSize \in Nat \ {0} /\ MaxMiscounts \in Nat /\ MayShutDown \in BOOLEAN

Flushers == {"run", "shutdown"}
NoOutput == "none"

VARIABLES
  request,     \* where each request stands: its future, and what it was set to
  pending,     \* _pending
  batch_full,  \* _batch_full
  stopping,    \* _stopping
  at,          \* where run() and shutdown() stand
  batch,       \* the batch each of them has given to the handler
  miscounts    \* how often the handler returned a wrong number of outputs

vars == <<request, pending, batch_full, stopping, at, batch, miscounts>>

Init ==
  /\ request = [r \in Requests |-> [state |-> "new", output |-> NoOutput]]
  /\ pending = <<>>
  /\ batch_full = FALSE
  /\ stopping = FALSE
  /\ at = [f \in Flushers |-> IF f = "run" THEN "waiting" ELSE "no"]
  /\ batch = [f \in Flushers |-> <<>>]
  /\ miscounts = 0

-----------------------------------------------------------------------------
Waiting(r) == request[r].state = "waiting"

\* submit()
Submits(r) ==
  /\ request[r].state = "new"
  /\ \/ /\ stopping
        /\ request' = [request EXCEPT ![r].state = "refused"]
        /\ UNCHANGED <<pending, batch_full>>
     \/ /\ ~stopping
        /\ request' = [request EXCEPT ![r].state = "waiting"]
        /\ pending' = Append(pending, r)
        /\ batch_full' = (batch_full \/ Len(pending') >= MaxBatchSize)
  /\ UNCHANGED <<stopping, at, batch, miscounts>>

\* The caller is cancelled, and the future it awaits with it.
Abandons(r) ==
  /\ Waiting(r)
  /\ request' = [request EXCEPT ![r].state = "cancelled"]
  /\ UNCHANGED <<pending, batch_full, stopping, at, batch, miscounts>>

\* Where f goes on when its batch is done: run() looks at _stopping.
After(f, stop) ==
  IF f = "shutdown" THEN "done" ELSE IF stop THEN "done" ELSE "waiting"

\* Slip: the handler is called with one batch of what is pending, and the rest
\* is dropped.
FlushesForgetting(f, stop) ==
  /\ batch' = [batch EXCEPT ![f] = SubSeq(pending, 1, Min({MaxBatchSize, Len(pending)}))]
  /\ at' = [at EXCEPT ![f] = IF pending = <<>> THEN After(f, stop) ELSE "flushing"]
  /\ pending' = <<>>
  /\ batch_full' = FALSE

\* _flush() up to the handler's call.
Flushes(f, stop) ==
  /\ batch' = [batch EXCEPT ![f] = pending]
  /\ at' = [at EXCEPT ![f] = IF pending = <<>> THEN After(f, stop) ELSE "flushing"]
  /\ pending' = <<>>
  /\ batch_full' = FALSE

\* run(): the batch is full, or max_wait_seconds are over.
LoopFlushes ==
  /\ at["run"] = "waiting"
  /\ Flushes("run", stopping)
  /\ UNCHANGED <<request, stopping, miscounts>>

\* Slip: the outputs are dealt out to those who still wait for one.
SetsAmongWaiting(b, outputs) ==
  LET waiting == SelectSeq(b, Waiting)
  IN  request' = [r \in Requests |->
        IF \E i \in DOMAIN waiting \cap DOMAIN outputs : waiting[i] = r
        THEN [state |-> "answered",
              output |-> outputs[CHOOSE i \in DOMAIN waiting : waiting[i] = r]]
        ELSE request[r]]

\* zip(batch, outputs): outputs go by position, to the futures that are not done.
Sets(b, outputs) ==
  request' = [r \in Requests |->
    IF Waiting(r) /\ \E i \in DOMAIN b \cap DOMAIN outputs : b[i] = r
    THEN [state |-> "answered", output |-> outputs[CHOOSE i \in DOMAIN b : b[i] = r]]
    ELSE request[r]]

\* f is through with its batch.
Leaves(f, where) ==
  /\ at' = [at EXCEPT ![f] = where]
  /\ batch' = [batch EXCEPT ![f] = <<>>]

Flushing(f) == at[f] = "flushing"

HandlerReturns(f) ==
  /\ Flushing(f)
  /\ Sets(batch[f], batch[f])
  /\ Leaves(f, After(f, stopping))
  /\ UNCHANGED <<pending, batch_full, stopping, miscounts>>

HandlerRaises(f) ==
  /\ Flushing(f)
  /\ request' = [r \in Requests |->
       IF Waiting(r) /\ r \in ToSet(batch[f])
       THEN [state |-> "failed", output |-> NoOutput] ELSE request[r]]
  /\ Leaves(f, After(f, stopping))
  /\ UNCHANGED <<pending, batch_full, stopping, miscounts>>

\* The handler returns too few outputs, or one too many: zip raises ValueError
\* once one side runs out, and nobody catches it.
HandlerMiscounts(f) ==
  /\ Flushing(f) /\ miscounts < MaxMiscounts
  /\ \E n \in 0..Len(batch[f]) : Sets(batch[f], SubSeq(batch[f], 1, n))
  /\ Leaves(f, "crashed")
  /\ miscounts' = miscounts + 1
  /\ UNCHANGED <<pending, batch_full, stopping>>

\* The lifespan ends: shutdown().
Shutdown ==
  /\ MayShutDown /\ at["shutdown"] = "no"
  /\ stopping' = TRUE
  /\ Flushes("shutdown", TRUE)
  /\ UNCHANGED <<request, miscounts>>

\* Then it cancels the run() tasks, with the handler's call one of them may await.
LoopCancelled ==
  /\ at["shutdown"] = "done" /\ at["run"] \in {"waiting", "flushing"}
  /\ Leaves("run", "cancelled")
  /\ UNCHANGED <<request, pending, batch_full, stopping, miscounts>>

HandlerEnds(f) == HandlerReturns(f) \/ HandlerRaises(f)

Next ==
  \/ \E r \in Requests : Submits(r) \/ Abandons(r)
  \/ LoopFlushes
  \/ \E f \in Flushers : HandlerEnds(f) \/ HandlerMiscounts(f)
  \/ Shutdown
  \/ LoopCancelled

Spec == Init /\ [][Next]_vars

\* run() has a timeout, so it comes back (batcher.py:57-63); the demo handlers
\* sleep and return (demo.py).
FairSpec ==
  Spec /\ WF_vars(LoopFlushes) /\ \A f \in Flushers : WF_vars(HandlerEnds(f))

-----------------------------------------------------------------------------
\* Every variable has its type; a flusher is at work exactly while it has a batch.
TypeOK ==
  /\ request \in [Requests -> [state : {"new", "waiting", "refused", "cancelled",
                                        "answered", "failed"},
                               output : Requests \cup {NoOutput}]]
  /\ pending \in Seq(Requests) /\ batch \in [Flushers -> Seq(Requests)]
  /\ batch_full \in BOOLEAN /\ stopping \in BOOLEAN
  /\ at \in [Flushers -> {"no", "waiting", "flushing", "done", "crashed", "cancelled"}]
  /\ \A f \in Flushers : at[f] = "flushing" <=> batch[f] # <<>>
  /\ miscounts \in 0..MaxMiscounts

\* Each its own answer (batcher.py:74-85): whoever was cancelled meanwhile, an
\* output goes to the request whose payload it was computed from, and to no
\* other.
OwnAnswer ==
  \A r \in Requests : request[r].output =
    IF request[r].state = "answered" THEN r ELSE NoOutput

\* Nobody is forgotten (batcher.py:45-91) and each gets its own answer: as long as neither run() nor shutdown()
\* crashed or was cancelled, each request that still waits is in exactly one
\* place, once: in _pending or in one of the batches that are out; and what was
\* pending shutdown() took along, nothing coming in behind it.
NobodyForgotten ==
  LET held == pending \o batch["run"] \o batch["shutdown"]
  IN  /\ TypeOK /\ OwnAnswer
      /\ stopping => pending = <<>>
      /\ IsInjective(held)
      /\ (\A f \in Flushers : at[f] \notin {"crashed", "cancelled"})
           => \A r \in Requests : Waiting(r) => r \in ToSet(held)

\* Every request is answered, fails or is cancelled (batcher.py:55-91), also
\* around an orderly end of the app; unless a wrong number of outputs crashed a
\* flusher, or the app cancelled run() with the request's batch in its hands.
EveryRequestEnds ==
  \A r \in Requests :
    Waiting(r) ~> \/ ~Waiting(r)
                  \/ \E f \in Flushers : at[f] \in {"crashed", "cancelled"}

-----------------------------------------------------------------------------
\* What batcher.py:77 says of a handler that goes wrong: "every waiter must hear
\* about it, not just crash the loop".
EveryWaiterHears ==
  [][\A f \in Flushers : batch[f] # <<>> /\ batch'[f] = <<>> /\ at'[f] # "cancelled" =>
       \A r \in ToSet(batch[f]) : ~Waiting(r)']_vars
=============================================================================
