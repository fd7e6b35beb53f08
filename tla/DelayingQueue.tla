---------------------------- MODULE DelayingQueue ----------------------------
(***************************************************************************)
(* The delaying queue in detail (util/workqueue/delaying_queue.go): the    *)
(* buffered channel waitingForAddCh between the callers of AddAfter and    *)
(* the goroutine waitingLoop, and the loop's heap of waiting entries with  *)
(* one entry for an item.  Clock readings are abstracted: whether an entry *)
(* is ready when the loop looks at it is a choice.                         *)
(***************************************************************************)
EXTENDS QueueWorkers, FiniteSets

CONSTANT ChanCapacity       \* make(chan *waitFor, 1000)

ASSUME ChanCapacityAssumption == ChanCapacity \in Nat \ {0}

VARIABLES incoming,         \* waitingForAddCh
          waiting           \* waitingForQueue, with waitingEntryByData

delayVars == <<incoming, waiting>>
vars == <<queue, dirty, processing, shuttingDown, held, exited, incoming, waiting>>

TypeOK ==
    /\ QueueTypeOK
    /\ WorkerTypeOK
    /\ incoming \in Seq(Items)
    /\ Len(incoming) <= ChanCapacity
    /\ waiting \in SUBSET Items

Init ==
    /\ QueueInit
    /\ WorkerInit
    /\ incoming = <<>>
    /\ waiting = {}

\* Mutant of AddAfter: a channel without bound.
AddAfterUnbounded(i) ==
    /\ ~shuttingDown
    /\ incoming' = Append(incoming, i)
    /\ UNCHANGED <<queueVars, waiting>>

\* AddAfter sends to the channel, and blocks while the channel is full; the
\* delay of AddRateLimited is never zero, so it does not add at once.
AddAfter(i) ==
    /\ ~shuttingDown
    /\ Len(incoming) < ChanCapacity
    /\ incoming' = Append(incoming, i)
    /\ UNCHANGED <<queueVars, waiting>>

\* Mutant of ReceiveEarly: the received entry is not put into the heap.
ReceiveAndDrop ==
    /\ ~shuttingDown
    /\ incoming # <<>>
    /\ incoming' = Tail(incoming)
    /\ UNCHANGED <<queueVars, waiting>>

\* The loop receives an entry that is not ready yet: insert keeps one entry
\* for an item, with the earlier of the two times.
ReceiveEarly ==
    /\ ~shuttingDown
    /\ incoming # <<>>
    /\ waiting' = waiting \cup {Head(incoming)}
    /\ incoming' = Tail(incoming)
    /\ UNCHANGED queueVars

\* The loop receives an entry whose delay is over already.
ReceiveReady ==
    /\ ~shuttingDown
    /\ incoming # <<>>
    /\ Add(Head(incoming))
    /\ incoming' = Tail(incoming)
    /\ UNCHANGED waiting

\* The entry of i is due, and no clock reading puts another one before it.
Expire(i) ==
    /\ ~shuttingDown
    /\ i \in waiting
    /\ waiting' = waiting \ {i}
    /\ Add(i)
    /\ UNCHANGED incoming

Receive == (ReceiveEarly \/ ReceiveReady) /\ UNCHANGED workerVars

Next ==
    \/ \E i \in Items : AddAfter(i) /\ UNCHANGED workerVars
    \/ Receive
    \/ \E i \in Items : Expire(i) /\ UNCHANGED workerVars
    \/ \E w \in Workers, i \in Items : GetItem(w, i) /\ UNCHANGED delayVars
    \/ \E w \in Workers : FinishItem(w) /\ UNCHANGED delayVars
    \/ \E w \in Workers : Exit(w) /\ UNCHANGED delayVars
    \/ ShutDown /\ UNCHANGED <<delayVars, held, exited>>

\* The goroutine of the loop runs, and every delay ends.
Fairness ==
    /\ WF_vars(Receive)
    /\ \A i \in Items : WF_vars(Expire(i) /\ UNCHANGED workerVars)
    /\ \A w \in Workers :
        /\ WF_vars(\E i \in Items : GetItem(w, i) /\ UNCHANGED delayVars)
        /\ WF_vars(FinishItem(w) /\ UNCHANGED delayVars)
        /\ WF_vars(Exit(w) /\ UNCHANGED delayVars)

Spec == Init /\ [][Next]_vars /\ Fairness
------------------------------------------------------------------------------
\* What the loop hides: an item is delayed as often as the channel and the
\* heap hold it.
Copies(i) == Cardinality({k \in DOMAIN incoming : incoming[k] = i}) + (IF i \in waiting THEN 1 ELSE 0)

Protocol == INSTANCE QueueProtocol WITH delayed   <- [i \in Items |-> Copies(i)],
                                        MaxCopies <- ChanCapacity + 1

\* The channel and the waiting loop deliver what RateLimitedQueue promises:
\* nothing handed in is lost or handed out of thin air, in spite of merged
\* entries, of a full channel and of shutdown at any point.
ImplementsProtocol == Protocol!Spec
==============================================================================
