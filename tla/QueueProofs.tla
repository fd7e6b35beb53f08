----------------------------- MODULE QueueProofs -----------------------------
(***************************************************************************)
(* The safety of the work queue for any set of items and any number of     *)
(* workers.  TypeOK alone is not inductive, and neither are Stingy and     *)
(* NoneStranded: that two workers never hold one item needs that the       *)
(* elements of the queue are not being processed, and this needs that a    *)
(* worker holds exactly what is in processing.                             *)
(***************************************************************************)
EXTENDS QueueProtocol, TLAPS

\* The elements of a sequence after Append, the operation of Add and Done.
LEMMA ToSetAppend ==
    ASSUME NEW S, NEW s \in Seq(S), NEW x \in S
    PROVE  ToSet(Append(s, x)) = ToSet(s) \cup {x}
<1>1. DOMAIN Append(s, x) = 1..(Len(s) + 1) /\ DOMAIN s = 1..Len(s)
  OBVIOUS
<1>2. \A k \in 1..Len(s) : Append(s, x)[k] = s[k]
  OBVIOUS
<1>3. Append(s, x)[Len(s) + 1] = x
  OBVIOUS
<1> QED BY <1>1, <1>2, <1>3 DEF ToSet

\* The elements of a sequence without repetition after Tail, the operation
\* of Get: the head is gone, everything else stays.
LEMMA ToSetTail ==
    ASSUME NEW S, NEW s \in Seq(S), s # <<>>,
           \A j, k \in DOMAIN s : s[j] = s[k] => j = k
    PROVE  /\ ToSet(Tail(s)) = ToSet(s) \ {Head(s)}
           /\ Head(s) \in ToSet(s)
           /\ \A j, k \in DOMAIN Tail(s) : Tail(s)[j] = Tail(s)[k] => j = k
<1>1. DOMAIN Tail(s) = 1..(Len(s) - 1) /\ DOMAIN s = 1..Len(s) /\ Len(s) \in Nat \ {0}
  OBVIOUS
<1>2. \A k \in 1..(Len(s) - 1) : Tail(s)[k] = s[k + 1] /\ k + 1 \in 1..Len(s)
  OBVIOUS
<1>3. Head(s) = s[1]
  OBVIOUS
<1>4. \A k \in 1..Len(s) : k # 1 => k - 1 \in 1..(Len(s) - 1) /\ Tail(s)[k - 1] = s[k]
  BY <1>1, <1>2
<1>5. \A j, k \in DOMAIN Tail(s) : Tail(s)[j] = Tail(s)[k] => j = k
  BY <1>1, <1>2
<1>6. ToSet(Tail(s)) \subseteq ToSet(s) \ {Head(s)}
  BY <1>1, <1>2, <1>3 DEF ToSet
<1>7. ASSUME NEW x \in ToSet(s), x # Head(s) PROVE x \in ToSet(Tail(s))
  <2>1. PICK k \in 1..Len(s) : x = s[k]
    BY <1>1 DEF ToSet
  <2>2. k # 1
    BY <1>3, <1>7, <2>1
  <2>3. k - 1 \in DOMAIN Tail(s) /\ Tail(s)[k - 1] = x
    BY <1>1, <1>4, <2>1, <2>2
  <2> QED BY <2>3 DEF ToSet
<1>8. Head(s) \in ToSet(s)
  BY <1>1, <1>3 DEF ToSet
<1>9. ToSet(Tail(s)) = ToSet(s) \ {Head(s)}
  BY <1>6, <1>7
<1> QED BY <1>5, <1>8, <1>9
------------------------------------------------------------------------------
\* The workers hold what is being processed, and nothing is held twice.
HeldIsProcessing ==
    /\ \A w \in Workers : held[w] # NoItem => held[w] \in processing
    /\ \A i \in processing : \E w \in Workers : held[w] = i

\* The inductive invariant.
QueueInv ==
    /\ TypeOK
    /\ QueueWellFormed
    /\ HeldIsProcessing
    /\ Stingy
    /\ NoneStranded

\* The queue of a new controller has no elements.
LEMMA EmptyQueue == DOMAIN <<>> = {} /\ ToSet(<<>>) = {}
<1>1. DOMAIN <<>> = {}
  OBVIOUS
<1>2. ASSUME NEW x \in ToSet(<<>>) PROVE FALSE
  <2>1. PICK k \in DOMAIN <<>> : x = <<>>[k]
    BY DEF ToSet
  <2> QED BY <1>1, <2>1
<1> QED BY <1>1, <1>2

\* Appending an element that is not there repeats nothing.
LEMMA AppendInjective ==
    ASSUME NEW S, NEW s \in Seq(S), NEW x \in S,
           \A n \in DOMAIN s : s[n] # x,
           \A m, n \in DOMAIN s : s[m] = s[n] => m = n,
           NEW j \in DOMAIN Append(s, x), NEW k \in DOMAIN Append(s, x),
           Append(s, x)[j] = Append(s, x)[k]
    PROVE  j = k
<1>1. DOMAIN Append(s, x) = 1..(Len(s) + 1) /\ DOMAIN s = 1..Len(s) /\ Len(s) \in Nat
  OBVIOUS
<1>2. \A n \in 1..Len(s) : Append(s, x)[n] = s[n] /\ s[n] # x
  BY <1>1
<1>3. Append(s, x)[Len(s) + 1] = x
  OBVIOUS
<1>4. CASE j \in 1..Len(s) /\ k \in 1..Len(s)
  BY <1>1, <1>2, <1>4
<1>5. CASE j = Len(s) + 1 \/ k = Len(s) + 1
  BY <1>1, <1>2, <1>3, <1>5
<1>6. QED
  BY <1>1, <1>4, <1>5

\* Add keeps the queue well formed and strands nothing.
LEMMA AddKeepsQueueInv ==
    ASSUME QueueInv, NEW i \in Items, Add(i), UNCHANGED workerVars,
           delayed' \in [Items -> Nat]
    PROVE  QueueInv'
<1> USE DEF QueueInv, TypeOK, LimitedTypeOK, QueueTypeOK, WorkerTypeOK, workerVars
<1>1. CASE shuttingDown \/ i \in dirty \/ i \in processing
  <2>1. queue' = queue /\ processing' = processing /\ held' = held
    BY <1>1 DEF Add
  <2>2. dirty' = dirty \/ (i \in processing /\ dirty' = dirty \cup {i})
    BY <1>1 DEF Add
  <2>3. TypeOK'
    BY <2>1, <2>2 DEF Add
  <2>4. QueueWellFormed'
    BY <2>1, <2>2 DEF QueueWellFormed
  <2>5. HeldIsProcessing' /\ Stingy'
    BY <2>1 DEF HeldIsProcessing, Stingy
  <2>6. NoneStranded'
    BY <2>1, <2>2 DEF NoneStranded, HeldIsProcessing
  <2> QED BY <2>3, <2>4, <2>5, <2>6
<1>2. CASE ~(shuttingDown \/ i \in dirty \/ i \in processing)
  <2>1. /\ queue' = Append(queue, i) /\ dirty' = dirty \cup {i}
        /\ processing' = processing /\ held' = held
    BY <1>2 DEF Add
  <2>2. ToSet(queue') = ToSet(queue) \cup {i}
    BY <2>1, ToSetAppend
  <2>3. i \notin ToSet(queue)
    BY <1>2 DEF QueueWellFormed
  <2>4. TypeOK'
    BY <2>1 DEF Add
  <2>5. QueueWellFormed'
    <3>1. \A n \in DOMAIN queue : queue[n] # i
      BY <2>3 DEF ToSet
    <3>2. \A j, k \in DOMAIN queue' : queue'[j] = queue'[k] => j = k
      BY <2>1, <3>1, AppendInjective DEF QueueWellFormed
    <3> QED BY <1>2, <2>1, <2>2, <3>2 DEF QueueWellFormed
  <2>6. HeldIsProcessing' /\ Stingy'
    BY <2>1 DEF HeldIsProcessing, Stingy
  <2>7. NoneStranded'
    BY <2>1, <2>2 DEF NoneStranded
  <2> QED BY <2>4, <2>5, <2>6, <2>7
<1> QED BY <1>1, <1>2

\* Get hands out an item no worker holds.
LEMMA GetKeepsQueueInv ==
    ASSUME QueueInv, NEW w \in Workers, NEW i \in Items, GetItem(w, i), UNCHANGED delayed
    PROVE  QueueInv'
<1> USE DEF QueueInv, TypeOK, LimitedTypeOK, QueueTypeOK, WorkerTypeOK
<1>1. /\ queue # <<>> /\ i = Head(queue) /\ queue' = Tail(queue)
      /\ processing' = processing \cup {i} /\ dirty' = dirty \ {i}
      /\ held[w] = NoItem /\ held' = [held EXCEPT ![w] = i]
  BY DEF GetItem, Get
<1>2. /\ ToSet(queue') = ToSet(queue) \ {i} /\ i \in ToSet(queue)
      /\ \A j, k \in DOMAIN queue' : queue'[j] = queue'[k] => j = k
  BY <1>1, ToSetTail DEF QueueWellFormed
<1>3. held'[w] = i /\ \A v \in Workers : v # w => held'[v] = held[v]
  BY <1>1
<1>4. TypeOK'
  BY <1>1 DEF GetItem, Get
<1>5. QueueWellFormed'
  BY <1>1, <1>2 DEF QueueWellFormed
<1>6. i \notin processing
  BY <1>2 DEF QueueWellFormed
<1>7. HeldIsProcessing'
  BY <1>1, <1>3, NoItemAssumption DEF HeldIsProcessing
<1>8. Stingy'
  BY <1>1, <1>3, <1>6 DEF HeldIsProcessing, Stingy
<1>9. NoneStranded'
  BY <1>1, <1>2, <1>3, NoItemAssumption DEF NoneStranded
<1> QED BY <1>4, <1>5, <1>7, <1>8, <1>9

\* Done puts an item back that became dirty while it was processed.
LEMMA FinishKeepsQueueInv ==
    ASSUME QueueInv, NEW w \in Workers, FinishItem(w), UNCHANGED delayed
    PROVE  QueueInv'
<1> USE DEF QueueInv, TypeOK, LimitedTypeOK, QueueTypeOK, WorkerTypeOK
<1> DEFINE i == held[w]
<1>1. /\ i \in Items /\ processing' = processing \ {i} /\ dirty' = dirty
      /\ queue' = (IF i \in dirty THEN Append(queue, i) ELSE queue)
      /\ held' = [held EXCEPT ![w] = NoItem] /\ held[w] # NoItem
  BY DEF FinishItem, Done
<1>2. held'[w] = NoItem /\ \A v \in Workers : v # w => held'[v] = held[v] /\ held[v] # i
  BY <1>1 DEF Stingy
<1>3. i \in processing /\ i \notin ToSet(queue)
  BY <1>1 DEF HeldIsProcessing, QueueWellFormed
<1>4. ToSet(queue') = IF i \in dirty THEN ToSet(queue) \cup {i} ELSE ToSet(queue)
  <2>1. queue \in Seq(Items)
    OBVIOUS
  <2>2. ToSet(Append(queue, i)) = ToSet(queue) \cup {i}
    BY <1>1, <2>1, ToSetAppend
  <2> HIDE DEF i
  <2>3. CASE i \in dirty
    BY <1>1, <2>2, <2>3
  <2>4. CASE i \notin dirty
    BY <1>1, <2>4
  <2> QED BY <2>3, <2>4
<1>5. TypeOK'
  BY <1>1 DEF FinishItem, Done
<1>6. QueueWellFormed'
  <2>1. \A n \in DOMAIN queue : queue[n] # i
    BY <1>3 DEF ToSet
  <2>2. \A j, k \in DOMAIN queue' : queue'[j] = queue'[k] => j = k
    BY <1>1, <2>1, AppendInjective DEF QueueWellFormed
  <2>3. ToSet(queue') \cap processing' = {}
    BY <1>1, <1>3, <1>4 DEF QueueWellFormed
  <2>4. ToSet(queue') \subseteq dirty'
    BY <1>1, <1>4 DEF QueueWellFormed
  <2> QED BY <2>2, <2>3, <2>4 DEF QueueWellFormed
<1>7. HeldIsProcessing'
  BY <1>1, <1>2 DEF HeldIsProcessing
<1>8. Stingy'
  BY <1>2 DEF Stingy
<1>9. NoneStranded'
  BY <1>1, <1>2, <1>4 DEF NoneStranded
<1> QED BY <1>5, <1>6, <1>7, <1>8, <1>9

\* What leaves the queue and the workers' hands alone keeps the invariant.
LEMMA FrameKeepsQueueInv ==
    ASSUME QueueInv, UNCHANGED <<queue, dirty, processing, held>>,
           shuttingDown' \in BOOLEAN, delayed' \in [Items -> Nat], exited' \in SUBSET Workers
    PROVE  QueueInv'
BY DEF QueueInv, TypeOK, LimitedTypeOK, QueueTypeOK, WorkerTypeOK,
       QueueWellFormed, HeldIsProcessing, Stingy, NoneStranded

\* At the start nothing is queued, processed or held.
LEMMA InitQueueInv == Init => QueueInv
<1> SUFFICES ASSUME Init PROVE QueueInv
  OBVIOUS
<1> USE DEF Init, LimitedInit, QueueInit, WorkerInit
<1>1. ToSet(queue) = {} /\ DOMAIN queue = {}
  BY EmptyQueue
<1>2. TypeOK
  <2>1. QueueTypeOK /\ delayed \in [Items -> Nat]
    <3>1. <<>> \in Seq(Items)
      OBVIOUS
    <3>2. queue \in Seq(Items)
      BY <3>1
    <3>3. dirty \in SUBSET Items /\ processing \in SUBSET Items /\ delayed \in [Items -> Nat]
      OBVIOUS
    <3>4. shuttingDown \in BOOLEAN
      OBVIOUS
    <3> QED BY <3>2, <3>3, <3>4 DEF QueueTypeOK
  <2>2. WorkerTypeOK
    BY DEF WorkerTypeOK
  <2> QED BY <2>1, <2>2 DEF TypeOK, LimitedTypeOK
<1>3. QueueWellFormed
  BY <1>1 DEF QueueWellFormed
<1>4. HeldIsProcessing /\ Stingy /\ NoneStranded
  BY NoItemAssumption DEF HeldIsProcessing, Stingy, NoneStranded
<1> QED BY <1>2, <1>3, <1>4 DEF QueueInv

\* Every step of a handler, of the waiting loop or of a worker keeps it.
LEMMA NextQueueInv == QueueInv /\ [Next]_vars => QueueInv'
<1> SUFFICES ASSUME QueueInv, [Next]_vars PROVE QueueInv'
  OBVIOUS
<1>0. delayed \in [Items -> Nat] /\ exited \in SUBSET Workers /\ shuttingDown \in BOOLEAN
  BY DEF QueueInv, TypeOK, LimitedTypeOK, QueueTypeOK, WorkerTypeOK
<1>1. ASSUME NEW i \in Items, AddRateLimited(i), UNCHANGED workerVars PROVE QueueInv'
  <2>1. delayed' \in [Items -> Nat]
    BY <1>0, <1>1 DEF AddRateLimited
  <2> QED BY <1>0, <1>1, <2>1, FrameKeepsQueueInv DEF AddRateLimited, queueVars, workerVars
<1>2. ASSUME NEW i \in Items, Ripen(i), UNCHANGED workerVars PROVE QueueInv'
  <2>1. Add(i) /\ delayed' \in [Items -> Nat]
    BY <1>0, <1>2 DEF Ripen
  <2> QED BY <1>2, <2>1, AddKeepsQueueInv
<1>8. ASSUME NEW i \in Items, Merge(i), UNCHANGED workerVars PROVE QueueInv'
  <2>1. delayed' \in [Items -> Nat]
    BY <1>0, <1>8 DEF Merge
  <2> QED BY <1>0, <1>8, <2>1, FrameKeepsQueueInv DEF Merge, queueVars, workerVars
<1>3. ASSUME NEW w \in Workers, NEW i \in Items, GetItem(w, i), UNCHANGED delayed
      PROVE  QueueInv'
  BY <1>3, GetKeepsQueueInv
<1>4. ASSUME NEW w \in Workers, FinishItem(w), UNCHANGED delayed PROVE QueueInv'
  BY <1>4, FinishKeepsQueueInv
<1>5. ASSUME NEW w \in Workers, Exit(w), UNCHANGED delayed PROVE QueueInv'
  BY <1>0, <1>5, FrameKeepsQueueInv DEF Exit, queueVars
<1>6. ASSUME ShutDown, UNCHANGED <<delayed, held, exited>> PROVE QueueInv'
  BY <1>0, <1>6, FrameKeepsQueueInv DEF ShutDown
<1>7. CASE UNCHANGED vars
  BY <1>0, <1>7, FrameKeepsQueueInv DEF vars
<1> QED BY <1>1, <1>2, <1>3, <1>4, <1>5, <1>6, <1>7, <1>8 DEF Next

\* The inductive invariant holds in every reachable state.
THEOREM QueueInvariance == Spec => []QueueInv
BY InitQueueInv, NextQueueInv, PTL DEF Spec

\* Type correctness of the queue and of its workers.
THEOREM QueueTypeCorrect == Spec => []TypeOK
<1>1. QueueInv => TypeOK BY DEF QueueInv
<1> QED BY <1>1, QueueInvariance, PTL

\* The comment on the field queue of queue.go:60, for any set of items.
THEOREM QueueStaysWellFormed == Spec => []QueueWellFormed
<1>1. QueueInv => QueueWellFormed BY DEF QueueInv
<1> QED BY <1>1, QueueInvariance, PTL

\* No item is ever processed by two workers at once, for any number of them.
THEOREM QueueIsStingy == Spec => []Stingy
<1>1. QueueInv => Stingy BY DEF QueueInv
<1> QED BY <1>1, QueueInvariance, PTL

\* An item that needs to be processed is in the queue or comes back with Done.
THEOREM QueueStrandsNothing == Spec => []NoneStranded
<1>1. QueueInv => NoneStranded BY DEF QueueInv
<1> QED BY <1>1, QueueInvariance, PTL
==============================================================================
