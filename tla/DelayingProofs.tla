--------------------------- MODULE DelayingProofs ---------------------------
(***************************************************************************)
(* The delaying queue implements the protocol of the rate limited queue,   *)
(* for any items, workers and capacity of the channel: every step of the   *)
(* channel, the heap, the queue and the workers is a step of QueueProtocol *)
(* or changes nothing it sees.  What the proof turns on is Copies, the     *)
(* number of times the channel and the heap hold an item.  Then what is    *)
(* proved of the protocol holds of the implementation.                     *)
(***************************************************************************)
EXTENDS DelayingQueue, FiniteSetTheorems, FunctionTheorems, TLAPS

Places(s, i) == {k \in DOMAIN s : s[k] = i}

LEMMA PlacesFinite ==
    ASSUME NEW S, NEW s \in Seq(S), NEW i
    PROVE  /\ IsFiniteSet(Places(s, i))
           /\ Cardinality(Places(s, i)) \in Nat
           /\ Cardinality(Places(s, i)) <= Len(s)
<1>1. Len(s) \in Nat /\ DOMAIN s = 1..Len(s) OBVIOUS
<1>2. IsFiniteSet(1..Len(s)) /\ Cardinality(1..Len(s)) = Len(s) BY <1>1, FS_Interval
<1>3. Places(s, i) \in SUBSET (1..Len(s)) BY <1>1 DEF Places
<1>4. IsFiniteSet(Places(s, i)) /\ Cardinality(Places(s, i)) <= Cardinality(1..Len(s))
  BY <1>2, <1>3, FS_Subset
<1> QED BY <1>2, <1>4, FS_CardinalityType

\* A send to the channel.
LEMMA PlacesAppend ==
    ASSUME NEW S, NEW s \in Seq(S), NEW x \in S, NEW i
    PROVE  Cardinality(Places(Append(s, x), i)) =
             IF x = i THEN Cardinality(Places(s, i)) + 1 ELSE Cardinality(Places(s, i))
<1>1. /\ Len(s) \in Nat /\ DOMAIN s = 1..Len(s)
      /\ DOMAIN Append(s, x) = 1..(Len(s) + 1)
      /\ Append(s, x)[Len(s) + 1] = x
      /\ \A k \in 1..Len(s) : Append(s, x)[k] = s[k]
  OBVIOUS
<1>2. CASE x = i
  <2>1. Places(Append(s, x), i) = Places(s, i) \cup {Len(s) + 1} BY <1>1, <1>2 DEF Places
  <2>2. Len(s) + 1 \notin Places(s, i) BY <1>1 DEF Places
  <2> QED BY <1>2, <2>1, <2>2, PlacesFinite, FS_AddElement
<1>3. CASE x # i
  <2>1. Places(Append(s, x), i) = Places(s, i) BY <1>1, <1>3 DEF Places
  <2> QED BY <1>3, <2>1
<1> QED BY <1>2, <1>3

\* A receive: the places move up by one, and the head has left.
LEMMA PlacesTail ==
    ASSUME NEW S, NEW s \in Seq(S), s # <<>>, NEW i
    PROVE  Cardinality(Places(s, i)) =
             IF Head(s) = i THEN Cardinality(Places(Tail(s), i)) + 1
                            ELSE Cardinality(Places(Tail(s), i))
<1>1. /\ Len(s) \in Nat \ {0} /\ DOMAIN s = 1..Len(s)
      /\ Tail(s) \in Seq(S) /\ DOMAIN Tail(s) = 1..(Len(s) - 1)
      /\ Head(s) = s[1]
      /\ \A k \in 1..(Len(s) - 1) : Tail(s)[k] = s[k + 1]
  OBVIOUS
<1> DEFINE Moved == Places(s, i) \ {1}
           up == [k \in Places(Tail(s), i) |-> k + 1]
<1>2. up \in Bijection(Places(Tail(s), i), Moved)
  <2>1. up \in [Places(Tail(s), i) -> Moved] BY <1>1 DEF Places
  <2>2. \A j, k \in Places(Tail(s), i) : up[j] = up[k] => j = k BY <1>1 DEF Places
  <2>3. ASSUME NEW m \in Moved PROVE \E k \in Places(Tail(s), i) : up[k] = m
    <3>1. m \in 2..Len(s) /\ s[m] = i BY <1>1 DEF Places
    <3>2. m - 1 \in 1..(Len(s) - 1) /\ (m - 1) + 1 = m BY <1>1, <3>1
    <3>3. m - 1 \in Places(Tail(s), i) BY <1>1, <3>1, <3>2 DEF Places
    <3>4. up[m - 1] = m BY <3>2, <3>3
    <3> QED BY <3>3, <3>4
  <2> QED BY <2>1, <2>2, <2>3, Fun_IsBij
<1>3. Cardinality(Moved) = Cardinality(Places(Tail(s), i))
  <2>1. IsFiniteSet(Places(Tail(s), i)) BY <1>1, PlacesFinite
  <2>2. ExistsBijection(Places(Tail(s), i), Moved) BY <1>2 DEF ExistsBijection
  <2> HIDE DEF Moved
  <2> QED BY <2>1, <2>2, FS_Bijection
<1>4. IsFiniteSet(Places(s, i)) /\ Cardinality(Places(s, i)) \in Nat BY PlacesFinite
<1>5. Cardinality(Moved) = IF 1 \in Places(s, i) THEN Cardinality(Places(s, i)) - 1
                                                  ELSE Cardinality(Places(s, i))
  BY <1>4, FS_RemoveElement
<1>6. 1 \in Places(s, i) <=> Head(s) = i BY <1>1 DEF Places
<1> QED BY <1>3, <1>4, <1>5, <1>6
------------------------------------------------------------------------------
LEMMA DelayingInit == Init => TypeOK
<1> SUFFICES ASSUME Init PROVE TypeOK OBVIOUS
<1>1. queue \in Seq(Items) /\ incoming \in Seq(Items) /\ Len(incoming) = 0
  BY DEF Init, QueueInit
<1>2. shuttingDown \in BOOLEAN BY DEF Init, QueueInit
<1>3. QueueTypeOK BY <1>1, <1>2 DEF Init, QueueInit, QueueTypeOK
<1>4. WorkerTypeOK BY DEF Init, WorkerInit, WorkerTypeOK
<1> QED BY <1>1, <1>3, <1>4, ChanCapacityAssumption DEF Init, TypeOK

LEMMA AddTypes ==
    ASSUME QueueTypeOK, NEW i \in Items, Add(i) PROVE QueueTypeOK'
<1>1. Append(queue, i) \in Seq(Items) BY DEF QueueTypeOK
<1>2. queue' \in Seq(Items) BY <1>1 DEF QueueTypeOK, Add
<1>3. dirty' \in SUBSET Items BY DEF QueueTypeOK, Add
<1>4. shuttingDown' \in BOOLEAN /\ processing' \in SUBSET Items BY DEF QueueTypeOK, Add
<1> QED BY <1>2, <1>3, <1>4 DEF QueueTypeOK

LEMMA DelayingStep == TypeOK /\ [Next]_vars => TypeOK'
<1> SUFFICES ASSUME TypeOK, [Next]_vars PROVE TypeOK' OBVIOUS
<1>0. /\ QueueTypeOK /\ WorkerTypeOK
      /\ incoming \in Seq(Items) /\ Len(incoming) <= ChanCapacity /\ waiting \in SUBSET Items
  BY DEF TypeOK
<1>1. ASSUME NEW i \in Items, AddAfter(i), UNCHANGED workerVars PROVE TypeOK'
  <2>1. incoming' \in Seq(Items) /\ Len(incoming') = Len(incoming) + 1 BY <1>0, <1>1 DEF AddAfter
  <2>2. Len(incoming') <= ChanCapacity BY <1>0, <1>1, <2>1, ChanCapacityAssumption DEF AddAfter
  <2>3. QueueTypeOK' BY <1>0, <1>1 DEF AddAfter, queueVars, QueueTypeOK
  <2>4. WorkerTypeOK' BY <1>0, <1>1 DEF workerVars, WorkerTypeOK
  <2> QED BY <1>0, <1>1, <2>1, <2>2, <2>3, <2>4 DEF AddAfter, TypeOK
<1>2. CASE Receive
  <2>1. incoming # <<>> /\ incoming' = Tail(incoming) BY <1>2 DEF Receive, ReceiveEarly, ReceiveReady
  <2>2. Head(incoming) \in Items /\ incoming' \in Seq(Items) /\ Len(incoming') = Len(incoming) - 1
    BY <1>0, <2>1
  <2>3. QueueTypeOK'
    <3>1. CASE ReceiveEarly BY <1>0, <3>1 DEF ReceiveEarly, queueVars, QueueTypeOK
    <3>3. CASE ReceiveReady BY <1>0, <2>2, <3>3, AddTypes DEF ReceiveReady
    <3> QED BY <1>2, <3>1, <3>3 DEF Receive
  <2>4. waiting' \in SUBSET Items BY <1>0, <1>2, <2>2 DEF Receive, ReceiveEarly, ReceiveReady
  <2>5. WorkerTypeOK' BY <1>0, <1>2 DEF Receive, workerVars, WorkerTypeOK
  <2>6. Len(incoming') <= ChanCapacity BY <1>0, <2>1, <2>2, ChanCapacityAssumption
  <2> QED BY <2>2, <2>3, <2>4, <2>5, <2>6 DEF TypeOK
<1>3. ASSUME NEW i \in Items, Expire(i), UNCHANGED workerVars PROVE TypeOK'
  <2>1. QueueTypeOK' BY <1>0, <1>3, AddTypes DEF Expire
  <2>2. WorkerTypeOK' BY <1>0, <1>3 DEF workerVars, WorkerTypeOK
  <2> QED BY <1>0, <1>3, <2>1, <2>2 DEF Expire, TypeOK
<1>4. ASSUME NEW w \in Workers, NEW i \in Items, GetItem(w, i), UNCHANGED delayVars PROVE TypeOK'
  <2>1. queue' \in Seq(Items) BY <1>0, <1>4 DEF GetItem, Get, QueueTypeOK
  <2>2. shuttingDown' \in BOOLEAN BY <1>0, <1>4 DEF GetItem, Get, QueueTypeOK
  <2>3. QueueTypeOK' BY <1>0, <1>4, <2>1, <2>2 DEF GetItem, Get, QueueTypeOK
  <2>4. WorkerTypeOK' BY <1>0, <1>4 DEF GetItem, WorkerTypeOK
  <2> QED BY <1>0, <1>4, <2>3, <2>4 DEF delayVars, TypeOK
<1>5. ASSUME NEW w \in Workers, FinishItem(w), UNCHANGED delayVars PROVE TypeOK'
  <2>1. held[w] \in Items BY <1>0, <1>5 DEF FinishItem, WorkerTypeOK
  <2>2. Append(queue, held[w]) \in Seq(Items) BY <1>0, <2>1 DEF QueueTypeOK
  <2>3. queue' \in Seq(Items) BY <1>0, <1>5, <2>2 DEF FinishItem, Done, QueueTypeOK
  <2>4. shuttingDown' \in BOOLEAN BY <1>0, <1>5 DEF FinishItem, Done, QueueTypeOK
  <2>5. QueueTypeOK' BY <1>0, <1>5, <2>3, <2>4 DEF FinishItem, Done, QueueTypeOK
  <2>6. WorkerTypeOK' BY <1>0, <1>5 DEF FinishItem, WorkerTypeOK
  <2> QED BY <1>0, <1>5, <2>5, <2>6 DEF delayVars, TypeOK
<1>6. ASSUME NEW w \in Workers, Exit(w), UNCHANGED delayVars PROVE TypeOK'
  <2>1. QueueTypeOK' BY <1>0, <1>6 DEF Exit, queueVars, QueueTypeOK
  <2>2. WorkerTypeOK' BY <1>0, <1>6 DEF Exit, WorkerTypeOK
  <2> QED BY <1>0, <1>6, <2>1, <2>2 DEF delayVars, TypeOK
<1>7. CASE ShutDown /\ UNCHANGED <<delayVars, held, exited>>
  <2>1. shuttingDown' \in BOOLEAN BY <1>7 DEF ShutDown
  <2>2. QueueTypeOK' BY <1>0, <1>7, <2>1 DEF ShutDown, QueueTypeOK
  <2>3. WorkerTypeOK' BY <1>0, <1>7 DEF WorkerTypeOK
  <2> QED BY <1>0, <1>7, <2>2, <2>3 DEF delayVars, TypeOK
<1>8. CASE UNCHANGED vars
  <2>1. QueueTypeOK' BY <1>0, <1>8 DEF vars, QueueTypeOK
  <2>2. WorkerTypeOK' BY <1>0, <1>8 DEF vars, WorkerTypeOK
  <2> QED BY <1>0, <1>8, <2>1, <2>2 DEF vars, TypeOK
<1> QED BY <1>1, <1>2, <1>3, <1>4, <1>5, <1>6, <1>7, <1>8 DEF Next

\* The channel never holds more than it was made for, and both the channel and
\* the heap only hold items, for any capacity.
THEOREM DelayingTypes == Spec => []TypeOK
BY DelayingInit, DelayingStep, PTL DEF Spec
------------------------------------------------------------------------------
\* How often each item is delayed, as the protocol sees it.
Delayed == [i \in Items |-> Copies(i)]

LEMMA CopiesByPlaces ==
    ASSUME NEW i \in Items
    PROVE  /\ Copies(i) = Cardinality(Places(incoming, i)) + (IF i \in waiting THEN 1 ELSE 0)
           /\ Copies(i)' = Cardinality(Places(incoming', i)) + (IF i \in waiting' THEN 1 ELSE 0)
BY DEF Copies, Places

LEMMA CopiesType ==
    ASSUME TypeOK, NEW i \in Items
    PROVE  /\ Copies(i) \in Nat
           /\ Copies(i) <= Len(incoming) + 1
<1>1. incoming \in Seq(Items) /\ Len(incoming) \in Nat BY DEF TypeOK
<1> QED BY <1>1, CopiesByPlaces, PlacesFinite

\* A send adds one copy.
LEMMA SendCopies ==
    ASSUME TypeOK, NEW i \in Items, AddAfter(i), NEW j \in Items
    PROVE  Copies(j)' = IF j = i THEN Copies(j) + 1 ELSE Copies(j)
<1>1. incoming \in Seq(Items) /\ incoming' = Append(incoming, i) /\ waiting' = waiting
  BY DEF TypeOK, AddAfter
<1>2. Cardinality(Places(incoming', j)) =
        IF i = j THEN Cardinality(Places(incoming, j)) + 1 ELSE Cardinality(Places(incoming, j))
  BY <1>1, PlacesAppend
<1>3. Cardinality(Places(incoming, j)) \in Nat BY <1>1, PlacesFinite
<1> QED BY <1>1, <1>2, <1>3, CopiesByPlaces

\* A receive takes the copy of the head out of the channel.
LEMMA ReceiveCopies ==
    ASSUME TypeOK, incoming # <<>>, incoming' = Tail(incoming), NEW j \in Items,
           NEW n \in Nat, n = Cardinality(Places(incoming', j))
    PROVE  Copies(j) = n + (IF j = Head(incoming) THEN 1 ELSE 0) + (IF j \in waiting THEN 1 ELSE 0)
<1>1. incoming \in Seq(Items) BY DEF TypeOK
<1>2. Cardinality(Places(incoming, j)) =
        IF Head(incoming) = j THEN n + 1 ELSE n
  BY <1>1, PlacesTail
<1> QED BY <1>2, CopiesByPlaces

\* The function the protocol sees, from what happens to the copies.
LEMMA DelayedUnchanged ==
    ASSUME \A j \in Items : Copies(j)' = Copies(j) PROVE Delayed' = Delayed
BY DEF Delayed

LEMMA DelayedOneLess ==
    ASSUME NEW i \in Items, \A j \in Items : Copies(j)' = IF j = i THEN Copies(j) - 1 ELSE Copies(j)
    PROVE  Delayed' = [Delayed EXCEPT ![i] = @ - 1]
BY DEF Delayed

LEMMA DelayedOneMore ==
    ASSUME NEW i \in Items, \A j \in Items : Copies(j)' = IF j = i THEN Copies(j) + 1 ELSE Copies(j)
    PROVE  Delayed' = [Delayed EXCEPT ![i] = @ + 1]
BY DEF Delayed
------------------------------------------------------------------------------
LEMMA RefinesInit == Init => Protocol!Init
<1> SUFFICES ASSUME Init PROVE Protocol!Init OBVIOUS
<1>1. incoming = <<>> /\ waiting = {} BY DEF Init
<1>2. ASSUME NEW i \in Items PROVE Copies(i) = 0
  <2>1. Places(incoming, i) = {} BY <1>1 DEF Places
  <2>2. Cardinality(Places(incoming, i)) = 0 BY <2>1, FS_EmptySet
  <2>3. i \notin waiting BY <1>1
  <2> QED BY <2>2, <2>3, CopiesByPlaces
<1>3. [i \in Items |-> Copies(i)] = [i \in Items |-> 0] BY <1>2
<1>4. Protocol!LimitedInit
  BY <1>3 DEF Init, QueueInit, Protocol!LimitedInit, Protocol!QueueInit
<1>5. Protocol!WorkerInit BY DEF Init, WorkerInit, Protocol!WorkerInit
<1> QED BY <1>4, <1>5 DEF Protocol!Init

\* AddAfter is AddRateLimited of the protocol: the bound there is never met.
LEMMA RefinesAddAfter ==
    ASSUME TypeOK, NEW i \in Items, AddAfter(i), UNCHANGED workerVars
    PROVE  Protocol!Next
<1>1. Delayed' = [Delayed EXCEPT ![i] = @ + 1] BY SendCopies, DelayedOneMore
<1>2. Copies(i) < ChanCapacity + 1
  <2>1. Len(incoming) \in Nat BY DEF TypeOK
  <2> QED BY <2>1, CopiesType, ChanCapacityAssumption DEF AddAfter
<1>3. Protocol!AddRateLimited(i)
  BY <1>1 DEF Protocol!AddRateLimited, Delayed, AddAfter, queueVars, Protocol!queueVars
<1>4. UNCHANGED Protocol!workerVars BY DEF workerVars, Protocol!workerVars
<1> QED BY <1>2, <1>3, <1>4 DEF Protocol!Next

\* The loop's receive is Merge, Ripen or invisible.
LEMMA RefinesReceive ==
    ASSUME TypeOK, Receive
    PROVE  Protocol!Next \/ UNCHANGED Protocol!vars
<1> DEFINE h == Head(incoming)
<1>1. incoming \in Seq(Items) /\ incoming # <<>> /\ incoming' = Tail(incoming) /\ UNCHANGED workerVars
  BY DEF TypeOK, Receive, ReceiveEarly, ReceiveReady
<1>2. h \in Items /\ incoming' \in Seq(Items) BY <1>1
<1> HIDE DEF h
<1>3. ASSUME NEW j \in Items PROVE Cardinality(Places(incoming', j)) \in Nat BY <1>2, PlacesFinite
<1>4. ASSUME NEW j \in Items
      PROVE  Copies(j) = Cardinality(Places(incoming', j)) + (IF j = h THEN 1 ELSE 0) + (IF j \in waiting THEN 1 ELSE 0)
  BY <1>1, <1>3, ReceiveCopies DEF h
<1>5. UNCHANGED Protocol!workerVars BY <1>1 DEF workerVars, Protocol!workerVars
<1>6. CASE ReceiveEarly /\ h \in waiting
  <2>1. waiting' = waiting /\ ~shuttingDown /\ UNCHANGED queueVars BY <1>6 DEF ReceiveEarly, h
  <2>2. \A j \in Items : Copies(j)' = IF j = h THEN Copies(j) - 1 ELSE Copies(j)
    BY <1>3, <1>4, <2>1, CopiesByPlaces
  <2>3. Delayed' = [Delayed EXCEPT ![h] = @ - 1] BY <1>2, <2>2, DelayedOneLess
  <2>4. Copies(h) > 1 BY <1>2, <1>3, <1>4, <1>6
  <2>5. Protocol!Merge(h)
    BY <1>2, <2>1, <2>3, <2>4 DEF Protocol!Merge, Delayed, queueVars, Protocol!queueVars
  <2> QED BY <1>2, <1>5, <2>5 DEF Protocol!Next
<1>7. CASE ReceiveEarly /\ h \notin waiting
  <2>1. waiting' = waiting \cup {h} /\ UNCHANGED queueVars BY <1>7 DEF ReceiveEarly, h
  <2>2. \A j \in Items : Copies(j)' = Copies(j) BY <1>3, <1>4, <1>7, <2>1, CopiesByPlaces
  <2>3. Delayed' = Delayed BY <2>2, DelayedUnchanged
  <2> QED BY <1>1, <2>1, <2>3 DEF Protocol!vars, Delayed, queueVars, workerVars
<1>8. CASE ReceiveReady
  <2>1. waiting' = waiting /\ ~shuttingDown /\ Add(h) BY <1>8 DEF ReceiveReady, h
  <2>2. \A j \in Items : Copies(j)' = IF j = h THEN Copies(j) - 1 ELSE Copies(j)
    BY <1>3, <1>4, <2>1, CopiesByPlaces
  <2>3. Delayed' = [Delayed EXCEPT ![h] = @ - 1] BY <1>2, <2>2, DelayedOneLess
  <2>4. Copies(h) > 0 BY <1>2, <1>3, <1>4
  <2>5. Protocol!Add(h) BY <2>1 DEF Add, Protocol!Add
  <2>6. Protocol!Ripen(h) BY <1>2, <2>1, <2>3, <2>4, <2>5 DEF Protocol!Ripen, Delayed
  <2> QED BY <1>2, <1>5, <2>6 DEF Protocol!Next
<1> QED BY <1>6, <1>7, <1>8 DEF Receive

\* An entry of the heap that is due ripens.
LEMMA RefinesExpire ==
    ASSUME TypeOK, NEW i \in Items, Expire(i), UNCHANGED workerVars
    PROVE  Protocol!Next
<1>1. incoming \in Seq(Items) /\ incoming' = incoming /\ i \in waiting /\ waiting' = waiting \ {i}
  BY DEF TypeOK, Expire
<1>2. ASSUME NEW j \in Items PROVE Cardinality(Places(incoming, j)) \in Nat BY <1>1, PlacesFinite
<1>3. \A j \in Items : Copies(j)' = IF j = i THEN Copies(j) - 1 ELSE Copies(j)
  BY <1>1, <1>2, CopiesByPlaces
<1>4. Delayed' = [Delayed EXCEPT ![i] = @ - 1] BY <1>3, DelayedOneLess
<1>5. Copies(i) > 0 BY <1>1, <1>2, CopiesByPlaces
<1>6. Protocol!Add(i) BY DEF Expire, Add, Protocol!Add
<1>7. Protocol!Ripen(i) BY <1>4, <1>5, <1>6 DEF Protocol!Ripen, Delayed, Expire
<1>8. UNCHANGED Protocol!workerVars BY DEF workerVars, Protocol!workerVars
<1> QED BY <1>7, <1>8 DEF Protocol!Next

LEMMA RefinesStep == TypeOK /\ [Next]_vars => [Protocol!Next]_(Protocol!vars)
<1> SUFFICES ASSUME TypeOK, [Next]_vars PROVE Protocol!Next \/ UNCHANGED Protocol!vars OBVIOUS
<1>1. ASSUME UNCHANGED delayVars PROVE Delayed' = Delayed
  BY <1>1, DelayedUnchanged DEF delayVars, Copies
<1>2. ASSUME NEW i \in Items, AddAfter(i) /\ UNCHANGED workerVars PROVE Protocol!Next
  BY <1>2, RefinesAddAfter
<1>3. CASE Receive BY <1>3, RefinesReceive
<1>4. ASSUME NEW i \in Items, Expire(i) /\ UNCHANGED workerVars PROVE Protocol!Next
  BY <1>4, RefinesExpire
<1>5. ASSUME NEW w \in Workers, NEW i \in Items, GetItem(w, i) /\ UNCHANGED delayVars PROVE Protocol!Next
  <2>1. Protocol!GetItem(w, i) BY <1>5 DEF GetItem, Get, Protocol!GetItem, Protocol!Get
  <2> QED BY <1>1, <1>5, <2>1 DEF Protocol!Next, Delayed
<1>6. ASSUME NEW w \in Workers, FinishItem(w) /\ UNCHANGED delayVars PROVE Protocol!Next
  <2>1. Protocol!FinishItem(w) BY <1>6 DEF FinishItem, Done, Protocol!FinishItem, Protocol!Done
  <2> QED BY <1>1, <1>6, <2>1 DEF Protocol!Next, Delayed
<1>7. ASSUME NEW w \in Workers, Exit(w) /\ UNCHANGED delayVars PROVE Protocol!Next
  <2>1. Protocol!Exit(w)
    BY <1>7 DEF Exit, DrainedAndShuttingDown, queueVars,
                Protocol!Exit, Protocol!DrainedAndShuttingDown, Protocol!queueVars
  <2> QED BY <1>1, <1>7, <2>1 DEF Protocol!Next, Delayed
<1>8. CASE ShutDown /\ UNCHANGED <<delayVars, held, exited>>
  <2>1. Protocol!ShutDown BY <1>8 DEF ShutDown, Protocol!ShutDown
  <2> QED BY <1>1, <1>8, <2>1 DEF Protocol!Next, Delayed
<1>9. CASE UNCHANGED vars
  BY <1>1, <1>9 DEF vars, delayVars, Protocol!vars, Delayed
<1> QED BY <1>2, <1>3, <1>4, <1>5, <1>6, <1>7, <1>8, <1>9 DEF Next

\* The safety half of ImplementsProtocol, for any items, workers and capacity:
\* what the theorems of QueueProofs say of the protocol (comment on the field
\* queue, "Stingy", nothing stranded) holds of the channel and the loop.
THEOREM DelayingImplementsProtocol == Spec => Protocol!Init /\ [][Protocol!Next]_(Protocol!vars)
BY RefinesInit, RefinesStep, DelayingTypes, PTL DEF Spec
------------------------------------------------------------------------------
\* The theory of the protocol, at this refinement.
QueueFacts == INSTANCE QueueProofs WITH delayed   <- [i \in Items |-> Copies(i)],
                                        MaxCopies <- ChanCapacity + 1

LEMMA SameInit == Protocol!Init => QueueFacts!Init
BY DEF Protocol!Init, Protocol!LimitedInit, Protocol!QueueInit, Protocol!WorkerInit,
         QueueFacts!Init, QueueFacts!LimitedInit, QueueFacts!QueueInit, QueueFacts!WorkerInit

LEMMA SameNext == [Protocol!Next]_(Protocol!vars) => [QueueFacts!Next]_(QueueFacts!vars)
<1>1. Protocol!Next => QueueFacts!Next
  BY DEF Protocol!Next, Protocol!AddRateLimited, Protocol!Ripen, Protocol!Merge, Protocol!Add,
         Protocol!GetItem, Protocol!Get, Protocol!FinishItem, Protocol!Done, Protocol!Exit,
         Protocol!DrainedAndShuttingDown, Protocol!ShutDown, Protocol!queueVars,
         Protocol!workerVars, QueueFacts!Next, QueueFacts!AddRateLimited, QueueFacts!Ripen,
         QueueFacts!Merge, QueueFacts!Add, QueueFacts!GetItem, QueueFacts!Get,
         QueueFacts!FinishItem, QueueFacts!Done, QueueFacts!Exit,
         QueueFacts!DrainedAndShuttingDown, QueueFacts!ShutDown, QueueFacts!queueVars,
         QueueFacts!workerVars
<1>2. UNCHANGED Protocol!vars => UNCHANGED QueueFacts!vars BY DEF Protocol!vars, QueueFacts!vars
<1> QED BY <1>1, <1>2

\* What the refinement is for: the comment on the field queue, "Stingy" of
\* doc.go, and that nothing is stranded, proved of the protocol, hold of the
\* queue behind the channel and the waiting loop.
THEOREM DelayingInherits ==
    Spec => [](QueueFacts!QueueWellFormed /\ QueueFacts!Stingy /\ QueueFacts!NoneStranded)
<1>1. Init => QueueFacts!QueueInv
  BY RefinesInit, SameInit, QueueFacts!InitQueueInv, NoItemAssumption
<1>2. TypeOK /\ QueueFacts!QueueInv /\ [Next]_vars => QueueFacts!QueueInv'
  BY RefinesStep, SameNext, QueueFacts!NextQueueInv, NoItemAssumption
<1>3. QueueFacts!QueueInv => QueueFacts!QueueWellFormed /\ QueueFacts!Stingy /\ QueueFacts!NoneStranded
  BY DEF QueueFacts!QueueInv
<1> QED BY <1>1, <1>2, <1>3, DelayingTypes, PTL DEF Spec
==============================================================================
