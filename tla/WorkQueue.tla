----------------------------- MODULE WorkQueue -----------------------------
(***************************************************************************)
(* The work queue of client-go that stands between the controller's event  *)
(* handlers and its worker: type Type of util/workqueue/queue.go.  Every   *)
(* operation runs under the queue's lock, so each is one action.           *)
(*                                                                         *)
(* This module only holds the state and the operations.  RateLimitedQueue  *)
(* puts the delayed adds in front of them, QueueProtocol and Controller    *)
(* say who calls what.                                                     *)
(***************************************************************************)
EXTENDS Naturals, Sequences, SequencesExt

CONSTANT Items              \* the keys the controller enqueues

VARIABLES queue,            \* the order in which items will be handed out
          dirty,            \* items that need to be processed
          processing,       \* items a worker got and has not called Done for
          shuttingDown

queueVars == <<queue, dirty, processing, shuttingDown>>

QueueTypeOK ==
    /\ queue \in Seq(Items)
    /\ dirty \in SUBSET Items
    /\ processing \in SUBSET Items
    /\ shuttingDown \in BOOLEAN

QueueInit ==
    /\ queue = <<>>
    /\ dirty = {}
    /\ processing = {}
    /\ shuttingDown = FALSE

\* Mutant of Add: an item that is being processed is queued again at once.
AddAtOnce(i) ==
    /\ IF shuttingDown \/ i \in dirty
       THEN UNCHANGED <<queue, dirty>>
       ELSE dirty' = dirty \cup {i} /\ queue' = Append(queue, i)
    /\ UNCHANGED <<processing, shuttingDown>>

\* Mutant of Add: an item that is being processed is dropped.
AddUnlessProcessing(i) ==
    /\ IF shuttingDown \/ i \in dirty \cup processing
       THEN UNCHANGED <<queue, dirty>>
       ELSE dirty' = dirty \cup {i} /\ queue' = Append(queue, i)
    /\ UNCHANGED <<processing, shuttingDown>>

\* Add drops an item that is already dirty, and lets an item that is being
\* processed wait in dirty, from where Done moves it to the queue.
Add(i) ==
    /\ IF shuttingDown \/ i \in dirty
       THEN UNCHANGED <<queue, dirty>>
       ELSE /\ dirty' = dirty \cup {i}
            /\ queue' = IF i \in processing THEN queue ELSE Append(queue, i)
    /\ UNCHANGED <<processing, shuttingDown>>

\* Get blocks on an empty queue; i is the item it returns.
Get(i) ==
    /\ queue # <<>>
    /\ i = Head(queue)
    /\ queue' = Tail(queue)
    /\ processing' = processing \cup {i}
    /\ dirty' = dirty \ {i}
    /\ UNCHANGED shuttingDown

\* Get returns shutdown = TRUE once the queue has been drained.
DrainedAndShuttingDown == queue = <<>> /\ shuttingDown

\* Mutant of Done: an item added meanwhile is not put back.
DoneForGood(i) ==
    /\ processing' = processing \ {i}
    /\ UNCHANGED <<queue, dirty, shuttingDown>>

Done(i) ==
    /\ processing' = processing \ {i}
    /\ queue' = IF i \in dirty THEN Append(queue, i) ELSE queue
    /\ UNCHANGED <<dirty, shuttingDown>>

ShutDown ==
    /\ shuttingDown' = TRUE
    /\ UNCHANGED <<queue, dirty, processing>>
=============================================================================
