---------------------------- MODULE QueueProtocol ----------------------------
(***************************************************************************)
(* The life of an item from AddRateLimited to Done, with any number of     *)
(* event handlers adding and Workers consuming.  It states what doc.go of  *)
(* the package promises (fair, stingy, re-enqueue while processing,        *)
(* shutdown notification), on which the controller's handlers rely.        *)
(***************************************************************************)
EXTENDS RateLimitedQueue, QueueWorkers

CONSTANT MaxCopies          \* bound: adds of one item that are delayed at once

vars == <<queue, dirty, processing, shuttingDown, delayed, held, exited>>

Init == LimitedInit /\ WorkerInit

Next ==
    \/ \E i \in Items :
        \/ delayed[i] < MaxCopies /\ AddRateLimited(i) /\ UNCHANGED workerVars
        \/ Ripen(i) /\ UNCHANGED workerVars
        \/ Merge(i) /\ UNCHANGED workerVars
    \/ \E w \in Workers, i \in Items : GetItem(w, i) /\ UNCHANGED delayed
    \/ \E w \in Workers : FinishItem(w) /\ UNCHANGED delayed
    \/ \E w \in Workers : Exit(w) /\ UNCHANGED delayed
    \/ ShutDown /\ UNCHANGED <<delayed, held, exited>>

\* The waiting loop's goroutine and the workers' goroutines are scheduled;
\* nothing obliges a handler to add an item or the process to shut down.
Fairness ==
    /\ \A i \in Items : WF_vars(Ripen(i) /\ UNCHANGED workerVars)
    /\ \A w \in Workers :
        /\ WF_vars(\E i \in Items : GetItem(w, i) /\ UNCHANGED delayed)
        /\ WF_vars(FinishItem(w) /\ UNCHANGED delayed)
        /\ WF_vars(Exit(w) /\ UNCHANGED delayed)

Spec == Init /\ [][Next]_vars /\ Fairness
------------------------------------------------------------------------------
TypeOK == LimitedTypeOK /\ WorkerTypeOK

\* queue.go:60 on the field queue: "Every element of queue should be in the
\* dirty set and not in the processing set", and no element is there twice.
QueueWellFormed ==
    /\ ToSet(queue) \subseteq dirty
    /\ ToSet(queue) \cap processing = {}
    /\ \A j, k \in DOMAIN queue : queue[j] = queue[k] => j = k

\* doc.go, "Stingy": a single item is never processed by two workers at once,
\* even when it is added again while it is being processed.
Stingy ==
    \A v, w \in Workers : v # w /\ held[v] # NoItem => held[v] # held[w]

\* An item that has to be processed is never stranded: it is in the queue, or
\* a worker holds it and will put it back when it calls Done.
NoneStranded ==
    \A i \in dirty : i \in ToSet(queue) \/ \E w \in Workers : held[w] = i

\* An item handed to AddRateLimited becomes dirty unless the queue shuts down,
\* and what is dirty is handed out (only Get cleans an item): even an item
\* added while a worker holds it is processed again after that.
EventuallyProcessed ==
    \A i \in Items :
        /\ delayed[i] > 0 ~> (i \in dirty \/ shuttingDown)
        /\ i \in dirty ~> i \notin dirty

\* doc.go, "Shutdown notifications": after ShutDown the workers drain what is
\* in the queue, and then every one of them is told and ends.
ShutdownDrains ==
    shuttingDown ~> (queue = <<>> /\ dirty = {} /\ exited = Workers)
==============================================================================
