-------------------------- MODULE RateLimitedQueue --------------------------
(***************************************************************************)
(* What the rate limited, delaying queue promises to the controller        *)
(* (rate_limitting_queue.go over delaying_queue.go): an item handed to     *)
(* AddRateLimited is added to the work queue some time later, in any order *)
(* with respect to the other delayed items, and at least once.             *)
(* Durations are abstracted: the back-off of an item, 5ms * 2^failures     *)
(* against the bucket of 10 per second, is just "later".  DelayingQueue is *)
(* the waiting loop in detail, and implements this module.                 *)
(***************************************************************************)
EXTENDS WorkQueue

VARIABLE delayed            \* how often an item was handed in and not added yet

limitedVars == <<queue, dirty, processing, shuttingDown, delayed>>

LimitedTypeOK == QueueTypeOK /\ delayed \in [Items -> Nat]

LimitedInit == QueueInit /\ delayed = [i \in Items |-> 0]

\* AddAfter refuses new items when the queue is shutting down.
AddRateLimited(i) ==
    /\ delayed' = IF shuttingDown THEN delayed ELSE [delayed EXCEPT ![i] = @ + 1]
    /\ UNCHANGED queueVars

\* The waiting loop adds an item whose delay is over.  The loop ends at
\* shutdown, and drops what is still delayed.
Ripen(i) ==
    /\ ~shuttingDown
    /\ delayed[i] > 0
    /\ delayed' = [delayed EXCEPT ![i] = @ - 1]
    /\ Add(i)

\* Mutant of Merge: the last copy goes as well.
MergeAll(i) ==
    /\ ~shuttingDown
    /\ delayed' = [delayed EXCEPT ![i] = @ - 1]
    /\ UNCHANGED queueVars

\* An item handed in again while the loop holds it waits only once.
Merge(i) ==
    /\ ~shuttingDown
    /\ delayed[i] > 1
    /\ delayed' = [delayed EXCEPT ![i] = @ - 1]
    /\ UNCHANGED queueVars
=============================================================================
