---------------------------- MODULE QueueWorkers ----------------------------
(***************************************************************************)
(* The consumers of the work queue: processNextWorkItem of the controller, *)
(* looped by runWorker.  What a worker does with an item is left open; it  *)
(* always ends with Done, which processNextWorkItem defers, so a panic in  *)
(* syncHandler or an early return does not skip it.                        *)
(***************************************************************************)
EXTENDS WorkQueue

CONSTANTS Workers,          \* threadiness of Run
          NoItem

ASSUME NoItemAssumption == NoItem \notin Items

VARIABLES held,             \* held[w]: the item w got and did not finish yet
          exited            \* workers that have seen shutdown = TRUE

workerVars == <<held, exited>>

WorkerTypeOK ==
    /\ held \in [Workers -> Items \cup {NoItem}]
    /\ exited \in SUBSET Workers

WorkerInit ==
    /\ held = [w \in Workers |-> NoItem]
    /\ exited = {}

GetItem(w, i) ==
    /\ w \notin exited
    /\ held[w] = NoItem
    /\ Get(i)
    /\ held' = [held EXCEPT ![w] = i]
    /\ UNCHANGED exited

\* Forget only clears the back-off of the item, which is abstracted.
FinishItem(w) ==
    /\ held[w] # NoItem
    /\ Done(held[w])
    /\ held' = [held EXCEPT ![w] = NoItem]
    /\ UNCHANGED exited

\* Mutant of Exit: the worker leaves without draining the queue.
ExitAtOnce(w) ==
    /\ w \notin exited
    /\ held[w] = NoItem
    /\ shuttingDown
    /\ exited' = exited \cup {w}
    /\ UNCHANGED <<queueVars, held>>

\* runWorker returns, and wait.Until ends because stopCh is closed.
Exit(w) ==
    /\ w \notin exited
    /\ held[w] = NoItem
    /\ DrainedAndShuttingDown
    /\ exited' = exited \cup {w}
    /\ UNCHANGED <<queueVars, held>>
=============================================================================
