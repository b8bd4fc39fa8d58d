------------------------- MODULE BoundedQueueProofs -------------------------
(***************************************************************************)
(* Proofs about BoundedQueue, for any threads, any limit and any number of *)
(* nodes: its types and the shape of its list, that it implements the      *)
(* abstract channel Fifo, and that a balanced queue never puts all of its  *)
(* threads to sleep.                                                       *)
(***************************************************************************)
EXTENDS BoundedQueue, FiniteSetTheorems, WellFoundedInduction, SequenceTheorems, TLAPS

\* Every nonempty set of naturals has a least element.
LEMMA LeastNumber ==
  ASSUME NEW T \in SUBSET Nat, T # {}
  PROVE  \E x \in T : \A y \in T : x <= y
<1>1. PICK x \in T : \A y \in T : ~ (<<y, x>> \in OpToRel(<, Nat))
  BY NatLessThanWellFounded, WFMin
<1>2. \A y \in T : x \in Nat /\ y \in Nat
  OBVIOUS
<1>3. \A y \in T : ~ (y < x)
  BY <1>1, <1>2, Zenon DEF OpToRel
<1> QED BY <1>2, <1>3

USE QueueAssumption

\* The limit of a queue is a natural number.
LEMMA LimitType == max_size \in Nat
BY DEF max_size

-----------------------------------------------------------------------------
\* Only one sequence of nodes enumerates the list.
LEMMA ListUnique ==
  TypeOK => \A o1, o2 \in [1..size -> Node] : IsList(o1) /\ IsList(o2) => o1 = o2
<1> SUFFICES ASSUME TypeOK,
                    NEW o1 \in [1..size -> Node], NEW o2 \in [1..size -> Node],
                    IsList(o1), IsList(o2)
             PROVE  o1 = o2
  OBVIOUS
<1> DEFINE Differ == {i \in 1..size : o1[i] # o2[i]}
<1> SUFFICES ASSUME o1 # o2 PROVE FALSE
  BY Zenon
<1>1. Differ # {}
  <2>1. /\ o1 = [i \in 1..size |-> o1[i]]
        /\ o2 = [i \in 1..size |-> o2[i]]
    OBVIOUS
  <2> QED BY <2>1, Zenon
<1>2. size \in Nat /\ Differ \in SUBSET Nat
  BY DEF TypeOK
<1>3. PICK k \in Differ : \A j \in Differ : k <= j
  <2> HIDE DEF Differ
  <2> QED BY <1>1, <1>2, LeastNumber
<1>4. CASE k = 1
  BY <1>2, <1>4 DEF IsList
<1>5. CASE k # 1
  <2>1. k - 1 \in 1..size /\ k - 1 \notin Differ /\ k - 1 # size
    BY <1>2, <1>3, <1>5
  <2>2. next[o1[k - 1]] = o1[k] /\ next[o2[k - 1]] = o2[k]
    BY <2>1, <1>2 DEF IsList
  <2> QED BY <2>1, <2>2
<1> QED BY <1>4, <1>5

\* Order is that sequence.
LEMMA OrderIsList ==
  ASSUME ListShape
  PROVE  Order \in [1..size -> Node] /\ IsList(Order)
BY DEF ListShape, Order

\* queue_destroy's walk visits every node of the list.
LEMMA VisitsAll ==
  ASSUME TypeOK, ListShape
  PROVE  Visited = allocated
<1>1. PICK order \in [1..size -> Node] : IsList(order)
  BY DEF ListShape
<1>2. size \in Nat
  BY DEF TypeOK
<1>3. allocated \in SUBSET Node /\ Linked(allocated)
  <2>1. head # NULL => head \in allocated
    BY <1>1, <1>2 DEF IsList
  <2>2. ASSUME NEW n \in allocated, next[n] # NULL PROVE next[n] \in allocated
    <3>1. PICK i \in 1..size : n = order[i]
      BY <1>1 DEF IsList
    <3>2. i + 1 \in 1..size /\ next[n] = order[i + 1]
      BY <1>1, <1>2, <2>2, <3>1 DEF IsList
    <3> QED BY <1>1, <3>2 DEF IsList
  <2> QED BY <2>1, <2>2 DEF Linked, TypeOK
<1>4. ASSUME NEW nodes \in SUBSET Node, Linked(nodes), ~(allocated \subseteq nodes)
      PROVE  FALSE
  <2> DEFINE Missed == {i \in 1..size : order[i] \notin nodes}
  <2>1. Missed # {} /\ Missed \in SUBSET Nat
    BY <1>1, <1>2, <1>4 DEF IsList
  <2>2. PICK k \in Missed : \A j \in Missed : k <= j
    <3> HIDE DEF Missed
    <3> QED BY <2>1, LeastNumber
  <2>3. CASE k = 1
    BY <1>1, <1>2, <1>4, <2>3 DEF IsList, Linked
  <2>4. CASE k # 1
    <3>1. k - 1 \in 1..size /\ order[k - 1] \in nodes /\ k - 1 # size
      BY <1>2, <2>2, <2>4
    <3>2. next[order[k - 1]] = order[k] /\ order[k] \in Node
      BY <1>1, <1>2, <3>1 DEF IsList
    <3> QED BY <1>4, <3>1, <3>2 DEF Linked
  <2> QED BY <2>3, <2>4
<1> QED BY <1>3, <1>4 DEF Visited

\* As many nodes are allocated as size says.
LEMMA AllocatedSize ==
  ASSUME TypeOK, ListShape
  PROVE  IsFiniteSet(allocated) /\ Cardinality(allocated) = size
<1>1. PICK order \in [1..size -> Node] : IsList(order)
  BY DEF ListShape
<1>2. size \in Nat
  BY DEF TypeOK
<1>3. order \in Bijection(1..size, allocated)
  <2>1. order \in [1..size -> allocated]
    BY <1>1 DEF IsList
  <2> QED BY <1>1, <2>1 DEF IsList, Bijection, Injection, Surjection, IsInjective
<1>4. IsFiniteSet(1..size) /\ Cardinality(1..size) = size
  BY <1>2, FS_Interval
<1> QED BY <1>3, <1>4, FS_Bijection DEF ExistsBijection

-----------------------------------------------------------------------------
\* The inductive invariant of the list: with the types and the shape, that
\* the sleepers are inside an operation and the finished threads are not.
Membership == /\ waiting \subseteq Inside
              /\ finished \cap Inside = {}
              /\ destroyed => finished = Threads

ListInv == TypeOK /\ ListShape /\ Membership

\* queue_create establishes the invariant.
LEMMA ListInit == Init => ListInv
<1> SUFFICES ASSUME Init PROVE ListInv
  OBVIOUS
<1>1. TypeOK
  BY DEF Init, TypeOK
<1>2. ListShape
  <2> DEFINE order == [i \in 1..0 |-> NULL]
  <2>1. order \in [1..0 -> Node]
    OBVIOUS
  <2>2. IsList(order)
    BY DEF Init, IsList
  <2> QED BY <2>1, <2>2, Zenon DEF Init, ListShape
<1>3. Membership
  BY DEF Init, Membership, Inside, Threads
<1> QED BY <1>1, <1>2, <1>3 DEF ListInv

\* A step that leaves the list alone leaves its shape alone.
LEMMA SameList ==
  ASSUME ListShape, UNCHANGED listVars
  PROVE  ListShape' /\ Order' = Order
<1>1. /\ head' = head /\ tail' = tail /\ next' = next
      /\ size' = size /\ allocated' = allocated
  BY DEF listVars
<1>2. \A order : IsList(order)' = IsList(order)
  BY <1>1, Zenon DEF IsList
<1> QED BY <1>1, <1>2, Zenon DEF ListShape, Order

\* A step on the sleepers keeps them inside.
LEMMA SignalType ==
  ASSUME TypeOK, Signal
  PROVE  waiting' \subseteq waiting
BY DEF Signal

\* A push appends the new node to the list.
LEMMA PushExtends ==
  ASSUME ListInv, NEW p \in Producers, Push(p)
  PROVE  \E n \in Node, order \in [1..size + 1 -> Node] :
           /\ order = [i \in 1..size + 1 |-> IF i = size + 1 THEN n ELSE Order[i]]
           /\ n \notin allocated
           /\ data' = [data EXCEPT ![n] = arg[p]]
           /\ IsList(order)'
<1>1. Order \in [1..size -> Node] /\ IsList(Order) /\ size \in Nat
  BY OrderIsList DEF ListInv, TypeOK
<1>2. PICK n \in Node \ allocated : /\ allocated' = allocated \cup {n}
                                   /\ data' = [data EXCEPT ![n] = arg[p]]
                                   /\ LinkLast(n)
                                   /\ tail' = n
  BY DEF Push
<1>3. size' = size + 1
  BY DEF Push
<1>4. PICK order \in [1..size + 1 -> Node] :
        order = [i \in 1..size + 1 |-> IF i = size + 1 THEN n ELSE Order[i]]
  <2> DEFINE longer == [i \in 1..size + 1 |-> IF i = size + 1 THEN n ELSE Order[i]]
  <2>1. longer \in [1..size + 1 -> Node]
    BY <1>1, <1>2
  <2> QED BY <2>1, Zenon
<1>5. \A i \in 1..size : order[i] = Order[i] /\ Order[i] \in allocated /\ order[i] # n
  BY <1>1, <1>2, <1>4 DEF IsList
<1>6. order[size + 1] = n
  BY <1>1, <1>4
<1>7. allocated' = {order[i] : i \in 1..size + 1}
  <2>1. allocated = {Order[i] : i \in 1..size}
    BY <1>1 DEF IsList
  <2>2. 1..size + 1 = (1..size) \cup {size + 1}
    BY <1>1
  <2> QED BY <1>2, <1>5, <1>6, <2>1, <2>2
<1>8. \A i, j \in 1..size + 1 : order[i] = order[j] => i = j
  BY <1>1, <1>5, <1>6 DEF IsList
<1>9. next' = IF size = 0 THEN [next EXCEPT ![n] = NULL]
                          ELSE [next EXCEPT ![n] = NULL, ![Order[size]] = n]
  BY <1>1, <1>2 DEF LinkLast, IsList
<1>10. \A i \in 1..size + 1 :
         next'[order[i]] = IF i = size + 1 THEN NULL ELSE order[i + 1]
  <2>1. \A i \in 1..size : next[Order[i]] = IF i = size THEN NULL ELSE Order[i + 1]
    BY <1>1 DEF IsList
  <2>2. next \in [Node -> Node \cup {NULL}]
    BY DEF ListInv, TypeOK
  <2>3. CASE size = 0
    BY <1>1, <1>6, <1>9, <2>2, <2>3
  <2>4. CASE size # 0
    <3>1. \A i \in 1..size - 1 : order[i] # Order[size]
      BY <1>1, <1>5, <2>4 DEF IsList
    <3>2. size \in 1..size /\ Order[size] # n /\ order[size] = Order[size]
      BY <1>1, <1>5, <2>4
    <3>3. next'[n] = NULL /\ next'[Order[size]] = n
      BY <1>1, <1>2, <1>9, <2>2, <2>4, <3>2
    <3>4. \A i \in 1..size - 1 : next'[order[i]] = Order[i + 1] /\ Order[i + 1] = order[i + 1]
      BY <1>1, <1>2, <1>5, <1>9, <2>1, <2>2, <2>4, <3>1
    <3> QED BY <1>1, <1>6, <3>2, <3>3, <3>4
  <2> QED BY <2>3, <2>4
<1>11. head' = order[1]
  BY <1>1, <1>2, <1>4, <1>5, <1>6 DEF LinkLast, IsList
<1>12. IsList(order)'
  <2>1. size + 1 # 0 /\ tail' = order[size + 1]
    BY <1>1, <1>2, <1>6
  <2> QED BY <1>3, <1>7, <1>8, <1>10, <1>11, <2>1, Zenon DEF IsList
<1> QED BY <1>2, <1>4, <1>12

\* A pull takes the first node off the list and frees it.
LEMMA PullShifts ==
  ASSUME ListInv, NEW c \in Consumers, Pull(c)
  PROVE  /\ size \in Nat \ {0}
         /\ head = Order[1]
         /\ \E order \in [1..size - 1 -> Node] :
              /\ order = [i \in 1..size - 1 |-> Order[i + 1]]
              /\ \A i \in 1..size - 1 : data'[order[i]] = data[order[i]]
              /\ IsList(order)'
<1>1. Order \in [1..size -> Node] /\ IsList(Order) /\ size \in Nat
  BY OrderIsList DEF ListInv, TypeOK
<1>2. size # 0 /\ size' = size - 1
  BY DEF Pull, Empty
<1>3. 1 \in 1..size /\ head = Order[1] /\ head \in Node
  BY <1>1, <1>2 DEF IsList
<1>4. PICK order \in [1..size - 1 -> Node] :
        order = [i \in 1..size - 1 |-> Order[i + 1]]
  <2> DEFINE shorter == [i \in 1..size - 1 |-> Order[i + 1]]
  <2>1. shorter \in [1..size - 1 -> Node]
    BY <1>1, <1>2
  <2> QED BY <2>1, Zenon
<1>5. \A i \in 1..size - 1 : /\ i + 1 \in 1..size
                             /\ order[i] = Order[i + 1]
                             /\ order[i] # head
                             /\ order[i] \in allocated
  BY <1>1, <1>2, <1>3, <1>4 DEF IsList
<1>6. /\ allocated' = allocated \ {head}
      /\ next' = [n \in Node |-> IF n \in {head} THEN NULL ELSE next[n]]
      /\ data' = [n \in Node |-> IF n \in {head} THEN NoData ELSE data[n]]
  BY DEF Pull, Free
<1>7. allocated' = {order[i] : i \in 1..size - 1}
  <2>1. \A i \in 1..size : i = 1 \/ (i - 1 \in 1..size - 1 /\ Order[i] = order[i - 1])
    BY <1>1, <1>2, <1>5
  <2>2. allocated = {Order[i] : i \in 1..size}
    BY <1>1 DEF IsList
  <2> QED BY <1>3, <1>5, <1>6, <2>1, <2>2
<1>8. \A i, j \in 1..size - 1 : order[i] = order[j] => i = j
  BY <1>1, <1>5 DEF IsList
<1>9. \A i \in 1..size - 1 :
        next'[order[i]] = IF i = size - 1 THEN NULL ELSE order[i + 1]
  <2>1. \A i \in 1..size - 1 : order[i] \in Node /\ next'[order[i]] = next[Order[i + 1]]
    BY <1>1, <1>5, <1>6
  <2>2. \A i \in 1..size - 1 : next[Order[i + 1]] =
                                 IF i + 1 = size THEN NULL ELSE Order[i + 2]
    BY <1>1, <1>5 DEF IsList
  <2>3. \A i \in 1..size - 1 : i # size - 1 =>
                                 i + 1 \in 1..size - 1 /\ order[i + 1] = Order[i + 2]
    BY <1>1, <1>2, <1>5
  <2> QED BY <1>1, <1>2, <2>1, <2>2, <2>3
<1>10. head' = IF size - 1 = 0 THEN NULL ELSE order[1]
  <2>1. head' = next[Order[1]]
    BY <1>3 DEF Pull
  <2> QED BY <1>1, <1>2, <1>3, <1>5, <2>1 DEF IsList
<1>11. tail' = IF size - 1 = 0 THEN NULL ELSE order[size - 1]
  <2>1. tail' = IF head' = NULL THEN NULL ELSE Order[size]
    BY <1>1, <1>2 DEF Pull, IsList
  <2>2. CASE size = 1
    BY <1>10, <2>1, <2>2
  <2>3. CASE size # 1
    <3>1. size - 1 \in 1..size - 1 /\ 1 \in 1..size - 1
      BY <1>1, <1>2, <2>3
    <3>2. order[size - 1] = Order[size] /\ order[1] \in Node
      BY <1>1, <1>5, <3>1
    <3> QED BY <1>1, <1>10, <2>1, <2>3, <3>2
  <2> QED BY <2>2, <2>3
<1>12. IsList(order)'
  BY <1>2, <1>7, <1>8, <1>9, <1>10, <1>11, Zenon DEF IsList
<1>13. \A i \in 1..size - 1 : data'[order[i]] = data[order[i]]
  BY <1>5, <1>6
<1> QED BY <1>1, <1>2, <1>3, <1>4, <1>12, <1>13, Zenon

\* queue_destroy empties the list and frees all of it.
LEMMA DestroyEmpties ==
  ASSUME ListInv, Destroy
  PROVE  size' = 0 /\ ListShape'
<1>1. Visited = allocated /\ Cardinality(allocated) = size /\ size \in Nat
  BY VisitsAll, AllocatedSize DEF ListInv, TypeOK
<1>2. /\ size' = 0 /\ allocated' = {} /\ head' = NULL /\ tail' = NULL
  BY <1>1 DEF Destroy, Free
<1> DEFINE order == [i \in 1..0 |-> NULL]
<1>3. order \in [1..0 -> Node]
  OBVIOUS
<1>4. IsList(order)'
  BY <1>2 DEF IsList
<1> QED BY <1>2, <1>3, <1>4, Zenon DEF ListShape

\* Every step of every thread, and queue_destroy, keeps the invariant.
LEMMA ListStep == ListInv /\ [Next]_vars => ListInv'
<1> SUFFICES ASSUME ListInv, [Next]_vars PROVE ListInv'
  OBVIOUS
<1> USE DEF ListInv
<1>1. ASSUME NEW p \in Producers, NEW d \in Data, CallPush(p, d) PROVE ListInv'
  <2>1. TypeOK' /\ Membership'
    BY <1>1 DEF CallPush, Idle, TypeOK, Membership, Inside, Threads, listVars
  <2> QED BY <1>1, <2>1, SameList DEF CallPush
<1>2. ASSUME NEW p \in Producers, PushWait(p) PROVE ListInv'
  <2>1. TypeOK' /\ Membership'
    BY <1>2 DEF PushWait, Wait, TypeOK, Membership, Inside, Threads, listVars
  <2> QED BY <1>2, <2>1, SameList DEF PushWait
<1>3. ASSUME NEW p \in Producers, Push(p) PROVE ListInv'
  <2>1. PICK n \in Node, order \in [1..size + 1 -> Node] : IsList(order)'
    BY <1>3, PushExtends, Zenon
  <2>2. ListShape'
    BY <1>3, <2>1, Zenon DEF ListShape, Push
  <2>3. Membership'
    BY <1>3 DEF Push, Signal, TypeOK, Membership, Inside, Threads
  <2>4. TypeOK'
    <3>1. waiting' \subseteq Threads
      BY <1>3, SignalType DEF Push, TypeOK
    <3> QED BY <1>3, <3>1 DEF Push, LinkLast, TypeOK, Threads
  <2> QED BY <2>2, <2>3, <2>4
<1>4. ASSUME NEW c \in Consumers, CallPull(c) PROVE ListInv'
  <2>1. TypeOK' /\ Membership'
    BY <1>4 DEF CallPull, Idle, TypeOK, Membership, Inside, Threads, listVars
  <2> QED BY <1>4, <2>1, SameList DEF CallPull
<1>5. ASSUME NEW c \in Consumers, PullWait(c) PROVE ListInv'
  <2>1. TypeOK' /\ Membership'
    BY <1>5 DEF PullWait, Wait, TypeOK, Membership, Inside, Threads, listVars
  <2> QED BY <1>5, <2>1, SameList DEF PullWait
<1>6. ASSUME NEW c \in Consumers, Pull(c) PROVE ListInv'
  <2>1. PICK order \in [1..size - 1 -> Node] : IsList(order)'
    BY <1>6, PullShifts, Zenon
  <2>2. ListShape'
    BY <1>6, <2>1, Zenon DEF ListShape, Pull
  <2>3. Membership'
    BY <1>6 DEF Pull, Signal, TypeOK, Membership, Inside, Threads
  <2>4. head \in Node /\ size \in Nat \ {0}
    <3>1. size \in Nat \ {0} /\ head = Order[1] /\ Order \in [1..size -> Node]
      BY <1>6, PullShifts, OrderIsList
    <3> QED BY <3>1
  <2>5. TypeOK'
    <3>1. waiting' \subseteq Threads
      BY <1>6, SignalType DEF Pull, TypeOK
    <3> QED BY <1>6, <2>4, <3>1 DEF Pull, Free, FrontData, TypeOK, Threads
  <2> QED BY <2>2, <2>3, <2>5
<1>7. ASSUME NEW t \in Threads, SpuriousWakeup(t) PROVE ListInv'
  <2>1. TypeOK' /\ Membership'
    BY <1>7 DEF SpuriousWakeup, TypeOK, Membership, Inside, Threads, listVars
  <2> QED BY <1>7, <2>1, SameList DEF SpuriousWakeup
<1>8. ASSUME NEW t \in Threads, Finish(t) PROVE ListInv'
  <2>1. TypeOK' /\ Membership'
    BY <1>8 DEF Finish, Idle, TypeOK, Membership, Inside, Threads, listVars
  <2> QED BY <1>8, <2>1, SameList DEF Finish
<1>9. ASSUME Destroy PROVE ListInv'
  <2>1. size' = 0 /\ ListShape'
    BY <1>9, DestroyEmpties
  <2>2. TypeOK' /\ Membership'
    BY <1>9, <2>1 DEF Destroy, Free, threadVars, TypeOK, Membership, Inside, Threads
  <2> QED BY <2>1, <2>2
<1>10. ASSUME UNCHANGED vars PROVE ListInv'
  <2>1. TypeOK' /\ Membership'
    BY <1>10 DEF vars, listVars, threadVars, TypeOK, Membership, Inside
  <2> QED BY <1>10, <2>1, SameList DEF vars
<1> QED BY <1>1, <1>2, <1>3, <1>4, <1>5, <1>6, <1>7, <1>8, <1>9, <1>10 DEF Next

\* Every reachable state is well typed (queue.c:20-140).
THEOREM TypeCorrect == Spec => []TypeOK
<1>1. ListInv => TypeOK
  BY DEF ListInv
<1> QED BY <1>1, ListInit, ListStep, PTL DEF Spec

\* The nodes form one list from head to tail that agrees with size, in every
\* reachable state, queue_destroy's result included (queue.c:54-140).
THEOREM ListCorrect == Spec => []ListShape
<1>1. ListInv => ListShape
  BY DEF ListInv
<1> QED BY <1>1, ListInit, ListStep, PTL DEF Spec

-----------------------------------------------------------------------------
\* What a push does to the size.
LEMMA PushSize ==
  ASSUME ListInv, WithinLimit, NEW p \in Producers, Push(p)
  PROVE  /\ size \in Nat /\ size' = size + 1
         /\ max_size > 0 => size < max_size
BY LimitType DEF ListInv, TypeOK, WithinLimit, Push, Full

\* No step takes a bounded queue above its limit.
LEMMA LimitStep == ListInv /\ WithinLimit /\ [Next]_vars => WithinLimit'
<1> SUFFICES ASSUME ListInv, WithinLimit, [Next]_vars PROVE WithinLimit'
  OBVIOUS
<1>1. ASSUME NEW p \in Producers, Push(p) PROVE WithinLimit'
  BY <1>1, PushSize, LimitType DEF WithinLimit, max_size
<1>2. ASSUME NEW c \in Consumers, Pull(c) PROVE WithinLimit'
  BY <1>2, LimitType DEF WithinLimit, ListInv, TypeOK, Pull, max_size
<1>3. ASSUME Destroy PROVE WithinLimit'
  BY <1>3, DestroyEmpties, LimitType DEF WithinLimit, max_size
<1>4. size' = size => WithinLimit'
  BY DEF WithinLimit, max_size
<1>5. ASSUME NEW p \in Producers, NEW d \in Data, CallPush(p, d) PROVE WithinLimit'
  BY <1>4, <1>5 DEF CallPush, listVars
<1>6. ASSUME NEW t \in Threads,
             PushWait(t) \/ CallPull(t) \/ PullWait(t) \/ SpuriousWakeup(t) \/ Finish(t)
      PROVE  WithinLimit'
  BY <1>4, <1>6 DEF PushWait, CallPull, PullWait, SpuriousWakeup, Finish, listVars
<1>7. ASSUME UNCHANGED vars PROVE WithinLimit'
  BY <1>4, <1>7 DEF vars, listVars
<1> QED BY <1>1, <1>2, <1>3, <1>5, <1>6, <1>7 DEF Next, Threads

\* A new queue is within its limit.
LEMMA LimitInit == Init => WithinLimit
BY LimitType DEF Init, WithinLimit

-----------------------------------------------------------------------------
\* The contents of the list, as the steps of the queue change them.
LEMMA ContentsType ==
  ASSUME ListInv
  PROVE  /\ Contents \in Seq(Data \cup {NoData})
         /\ Len(Contents) = size /\ size \in Nat
<1>1. Order \in [1..size -> Node] /\ size \in Nat
  BY OrderIsList DEF ListInv, TypeOK
<1>2. \A i \in 1..size : data[Order[i]] \in Data \cup {NoData}
  BY <1>1 DEF ListInv, TypeOK
<1> QED BY <1>1, <1>2 DEF Contents

\* Whichever sequence is known to enumerate the new list, it is the new Order.
LEMMA NextOrder ==
  ASSUME ListInv', NEW order \in [1..size' -> Node], IsList(order)'
  PROVE  Order' = order
<1>1. TypeOK' /\ ListShape'
  BY DEF ListInv
<1>2. (Order \in [1..size -> Node] /\ IsList(Order))'
  BY <1>1, OrderIsList, PTL
<1>3. (TypeOK => \A o1, o2 \in [1..size -> Node] :
                     IsList(o1) /\ IsList(o2) => o1 = o2)'
  BY ListUnique, PTL
<1> QED BY <1>1, <1>2, <1>3

\* queue_push (queue.c:79-108) is Put of the abstract channel.
LEMMA PushPuts ==
  ASSUME ListInv, ListInv', WithinLimit, NEW p \in Producers, Push(p)
  PROVE  \E d \in Data : Channel!Put(d)
<1>1. PICK n \in Node, order \in [1..size + 1 -> Node] :
        /\ order = [i \in 1..size + 1 |-> IF i = size + 1 THEN n ELSE Order[i]]
        /\ n \notin allocated
        /\ data' = [data EXCEPT ![n] = arg[p]]
        /\ IsList(order)'
  BY PushExtends, Zenon
<1>2. /\ size \in Nat /\ size' = size + 1
      /\ max_size > 0 => size < max_size
  BY PushSize
<1>3. Order' = order
  BY <1>1, <1>2, NextOrder
<1>4. arg[p] \in Data /\ got' = got
  BY DEF Push, ListInv, TypeOK
<1>5. Order \in [1..size -> Node] /\ \A i \in 1..size : Order[i] # n
  BY <1>1, OrderIsList DEF ListInv, IsList
<1>6. Contents' = [i \in 1..size + 1 |-> data'[order[i]]]
  BY <1>2, <1>3 DEF Contents
<1>7. \A i \in 1..size : data'[order[i]] = Contents[i]
  BY <1>1, <1>2, <1>5 DEF Contents, ListInv, TypeOK
<1>8. data'[order[size + 1]] = arg[p]
  BY <1>1, <1>2 DEF ListInv, TypeOK
<1>9. Contents' = Append(Contents, arg[p])
  <2>1. Contents \in Seq(Data \cup {NoData}) /\ Len(Contents) = size
    BY ContentsType
  <2> QED BY <1>2, <1>4, <1>6, <1>7, <1>8, <2>1
<1> QED BY <1>2, <1>4, <1>9, ContentsType DEF Channel!Put

\* Head and Tail of a sequence, by position.
LEMMA HeadTail ==
  ASSUME NEW S, NEW s \in Seq(S), Len(s) # 0
  PROVE  /\ s # <<>>
         /\ Head(s) = s[1]
         /\ Tail(s) = [i \in 1..Len(s) - 1 |-> s[i + 1]]
<1>1. s # <<>>
  OBVIOUS
<1>2. Head(s) = s[1]
  BY <1>1
<1>3. /\ Tail(s) \in Seq(S) /\ Len(Tail(s)) = Len(s) - 1
      /\ \A i \in 1..Len(Tail(s)) : Tail(s)[i] = s[i + 1]
  BY <1>1, HeadTailProperties
<1>4. Tail(s) = [i \in 1..Len(Tail(s)) |-> Tail(s)[i]]
  <2>1. Tail(s) \in [1..Len(Tail(s)) -> S]
    BY <1>3, LenProperties
  <2> QED BY <2>1, Zenon
<1> QED BY <1>1, <1>2, <1>3, <1>4

\* queue_pull (queue.c:111-140) is Get of the abstract channel.
LEMMA PullGets ==
  ASSUME ListInv, ListInv', NEW c \in Consumers, Pull(c)
  PROVE  Channel!Get(c)
<1>1. size \in Nat \ {0} /\ head = Order[1]
  BY PullShifts
<1>2. PICK order \in [1..size - 1 -> Node] :
        /\ order = [i \in 1..size - 1 |-> Order[i + 1]]
        /\ \A i \in 1..size - 1 : data'[order[i]] = data[order[i]]
        /\ IsList(order)'
  BY PullShifts
<1>3. size' = size - 1 /\ got' = [got EXCEPT ![c] = data[head]]
  BY DEF Pull, FrontData
<1>4. Order' = order
  BY <1>2, <1>3, NextOrder
<1>5. Contents' = [i \in 1..size - 1 |-> Contents[i + 1]]
  <2>1. Contents' = [i \in 1..size - 1 |-> data'[order[i]]]
    BY <1>3, <1>4 DEF Contents
  <2>2. \A i \in 1..size - 1 : data'[order[i]] = Contents[i + 1]
    BY <1>1, <1>2 DEF Contents
  <2> QED BY <2>1, <2>2
<1>6. /\ Contents \in Seq(Data \cup {NoData})
      /\ Len(Contents) = size
      /\ Contents[1] = data[head]
  BY <1>1, ContentsType DEF Contents
<1>7. /\ Contents # <<>> /\ Contents' = Tail(Contents)
      /\ Head(Contents) = data[head]
  <2>1. Len(Contents) # 0
    BY <1>1, <1>6
  <2>2. /\ Contents # <<>> /\ Head(Contents) = Contents[1]
        /\ Tail(Contents) = [i \in 1..Len(Contents) - 1 |-> Contents[i + 1]]
    BY <1>6, <2>1, HeadTail
  <2> QED BY <1>5, <1>6, <2>2, Zenon
<1> QED BY <1>3, <1>7, Zenon DEF Channel!Get

\* A new queue is an empty channel.
LEMMA ChannelInit == ListInv /\ Init => Channel!Init
<1> SUFFICES ASSUME ListInv, Init PROVE Channel!Init
  OBVIOUS
<1>1. Contents \in Seq(Data \cup {NoData}) /\ Len(Contents) = 0
  BY ContentsType DEF Init
<1> QED BY <1>1 DEF Init, Channel!Init

\* Every step is one of the abstract channel or changes nothing it sees.
LEMMA ChannelStep ==
  ListInv /\ ListInv' /\ WithinLimit /\ [Next]_vars
    => [Channel!Next]_(Channel!fifoVars)
<1> SUFFICES ASSUME ListInv, ListInv', WithinLimit, [Next]_vars
             PROVE  [Channel!Next]_(Channel!fifoVars)
  OBVIOUS
<1> USE DEF Channel!fifoVars
<1>1. ASSUME NEW p \in Producers, Push(p) PROVE Channel!Next
  BY <1>1, PushPuts DEF Channel!Next
<1>2. ASSUME NEW c \in Consumers, Pull(c) PROVE Channel!Next
  BY <1>2, PullGets DEF Channel!Next
<1>3. ASSUME Destroy PROVE Channel!Next
  <2>1. size' = 0
    BY <1>3, DestroyEmpties
  <2>2. Contents' = <<>>
    BY <2>1 DEF Contents
  <2> QED BY <1>3, <2>2 DEF Destroy, threadVars, Channel!Next, Channel!Drop
<1>4. ASSUME UNCHANGED <<listVars, got>> PROVE UNCHANGED Channel!fifoVars
  <2>1. Order' = Order /\ size' = size /\ data' = data /\ got' = got
    BY <1>4, SameList DEF ListInv, listVars
  <2> QED BY <2>1 DEF Contents
<1>5. ASSUME NEW p \in Producers, NEW d \in Data, CallPush(p, d)
      PROVE  UNCHANGED Channel!fifoVars
  BY <1>4, <1>5 DEF CallPush
<1>6. ASSUME NEW t \in Threads,
             PushWait(t) \/ CallPull(t) \/ PullWait(t) \/ SpuriousWakeup(t) \/ Finish(t)
      PROVE  UNCHANGED Channel!fifoVars
  BY <1>4, <1>6 DEF PushWait, CallPull, PullWait, SpuriousWakeup, Finish
<1>7. ASSUME UNCHANGED vars PROVE UNCHANGED Channel!fifoVars
  BY <1>4, <1>7 DEF vars, threadVars
<1> QED BY <1>1, <1>2, <1>3, <1>5, <1>6, <1>7 DEF Next, Threads

\* queue.c implements the first-in first-out channel of Fifo: each push
\* appends its item and each pull returns the oldest one (queue.c:79-141).
THEOREM QueueImplementsFifo == Spec => ImplementsFifo
<1>1. Spec => [](ListInv /\ WithinLimit)
  BY ListInit, ListStep, LimitInit, LimitStep, PTL DEF Spec
<1> QED BY <1>1, ChannelInit, ChannelStep, PTL DEF Spec, ImplementsFifo, Channel!Spec

-----------------------------------------------------------------------------
\* How many sleep, and how waiting and waking change it.
LEMMA SleepersType ==
  TypeOK => /\ SleepingProducers \in Nat /\ SleepingConsumers \in Nat
            /\ Cardinality(Producers) \in Nat \ {0}
            /\ Cardinality(Consumers) \in Nat \ {0}
            /\ SleepingProducers <= Cardinality(Producers)
            /\ SleepingConsumers <= Cardinality(Consumers)
<1>1. /\ IsFiniteSet(waiting \cap Producers)
      /\ IsFiniteSet(waiting \cap Consumers)
      /\ SleepingProducers <= Cardinality(Producers)
      /\ SleepingConsumers <= Cardinality(Consumers)
  BY FS_Intersection DEF SleepingProducers, SleepingConsumers
<1>2. /\ Cardinality(Producers) \in Nat /\ Cardinality(Producers) # 0
      /\ Cardinality(Consumers) \in Nat /\ Cardinality(Consumers) # 0
  BY FS_CardinalityType, FS_EmptySet
<1> QED BY <1>1, <1>2, FS_CardinalityType DEF SleepingProducers, SleepingConsumers

\* A producer that goes to sleep adds one to the sleeping producers.
LEMMA ProducerSleeps ==
  ASSUME TypeOK, NEW p \in Producers, p \notin waiting, Wait(p)
  PROVE  /\ SleepingProducers' = SleepingProducers + 1
         /\ SleepingConsumers' = SleepingConsumers
<1>1. /\ waiting' \cap Producers = (waiting \cap Producers) \cup {p}
      /\ waiting' \cap Consumers = waiting \cap Consumers
      /\ p \notin waiting \cap Producers
  BY DEF Wait
<1>2. IsFiniteSet(waiting \cap Producers)
  BY FS_Intersection
<1> QED BY <1>1, <1>2, FS_AddElement DEF SleepingProducers, SleepingConsumers

\* A consumer that goes to sleep adds one to the sleeping consumers.
LEMMA ConsumerSleeps ==
  ASSUME TypeOK, NEW c \in Consumers, c \notin waiting, Wait(c)
  PROVE  /\ SleepingConsumers' = SleepingConsumers + 1
         /\ SleepingProducers' = SleepingProducers
<1>1. /\ waiting' \cap Consumers = (waiting \cap Consumers) \cup {c}
      /\ waiting' \cap Producers = waiting \cap Producers
      /\ c \notin waiting \cap Consumers
  BY DEF Wait
<1>2. IsFiniteSet(waiting \cap Consumers)
  BY FS_Intersection
<1> QED BY <1>1, <1>2, FS_AddElement DEF SleepingProducers, SleepingConsumers

\* One sleeper of either kind fewer.
OneWakes == \/ /\ SleepingProducers' = SleepingProducers - 1
               /\ SleepingConsumers' = SleepingConsumers
            \/ /\ SleepingProducers' = SleepingProducers
               /\ SleepingConsumers' = SleepingConsumers - 1

\* Waking one sleeper takes one from its kind.
LEMMA Wakes ==
  ASSUME TypeOK, NEW w \in waiting, waiting' = waiting \ {w}
  PROVE  OneWakes
<1>1. /\ IsFiniteSet(waiting \cap Producers)
      /\ IsFiniteSet(waiting \cap Consumers)
  BY FS_Intersection
<1>2. CASE w \in Producers
  <2>1. /\ waiting' \cap Producers = (waiting \cap Producers) \ {w}
        /\ waiting' \cap Consumers = waiting \cap Consumers
        /\ w \in waiting \cap Producers
    BY <1>2
  <2> QED BY <1>1, <2>1, FS_RemoveElement
          DEF SleepingProducers, SleepingConsumers, OneWakes
<1>3. CASE w \in Consumers
  <2>1. /\ waiting' \cap Consumers = (waiting \cap Consumers) \ {w}
        /\ waiting' \cap Producers = waiting \cap Producers
        /\ w \in waiting \cap Consumers
    BY <1>3
  <2> QED BY <1>1, <2>1, FS_RemoveElement
          DEF SleepingProducers, SleepingConsumers, OneWakes
<1> QED BY <1>2, <1>3 DEF TypeOK, Threads

\* A signal wakes one sleeper, if there is one.
LEMMA SignalWakes ==
  ASSUME TypeOK, Signal
  PROVE  \/ OneWakes
         \/ /\ SleepingProducers = 0 /\ SleepingConsumers = 0
            /\ SleepingProducers' = 0 /\ SleepingConsumers' = 0
<1>1. CASE waiting = {}
  BY <1>1, FS_EmptySet DEF Signal, SleepingProducers, SleepingConsumers
<1>2. CASE waiting # {}
  BY <1>2, Wakes DEF Signal
<1> QED BY <1>1, <1>2

SleepInv == ListInv /\ SleepersBounded

\* In a new queue nobody sleeps.
LEMMA SleepInit == Init => SleepersBounded
<1> SUFFICES ASSUME Init PROVE SleepersBounded
  OBVIOUS
<1>1. SleepingProducers = 0 /\ SleepingConsumers = 0
  BY FS_EmptySet DEF Init, SleepingProducers, SleepingConsumers
<1>2. WithinLimit
  BY LimitInit
<1> QED BY <1>1, <1>2, LimitType DEF SleepersBounded, FewConsumers, FewProducers

\* A step that changes neither the size nor the sleepers.
LEMMA SameSleepers ==
  ASSUME SleepersBounded, size' = size, waiting' = waiting
  PROVE  SleepersBounded'
BY DEF SleepersBounded, WithinLimit, FewConsumers, FewProducers, Excess,
       SleepingProducers, SleepingConsumers, max_size

\* No step takes the sleepers of a balanced queue beyond their bound.
LEMMA SleepStep ==
  ASSUME Balanced
  PROVE  SleepInv /\ [Next]_vars => SleepersBounded'
<1> SUFFICES ASSUME SleepInv, [Next]_vars PROVE SleepersBounded'
  OBVIOUS
<1> USE DEF SleepInv
<1>1. /\ TypeOK /\ WithinLimit /\ WithinLimit' /\ TypeOK'
  BY LimitStep, ListStep DEF SleepersBounded, ListInv
<1>2. /\ size \in Nat /\ max_size \in Nat
      /\ SleepingProducers \in Nat /\ SleepingConsumers \in Nat
      /\ SleepingProducers' \in Nat /\ SleepingConsumers' \in Nat
      /\ Cardinality(Producers) \in Nat /\ Cardinality(Consumers) \in Nat
      /\ SleepingProducers' <= Cardinality(Producers)
      /\ SleepingConsumers' <= Cardinality(Consumers)
  <2>1. /\ SleepingProducers' \in Nat /\ SleepingConsumers' \in Nat
        /\ SleepingProducers' <= Cardinality(Producers)
        /\ SleepingConsumers' <= Cardinality(Consumers)
    <3>1. (TypeOK => /\ SleepingProducers \in Nat /\ SleepingConsumers \in Nat
                     /\ Cardinality(Producers) \in Nat \ {0}
                     /\ Cardinality(Consumers) \in Nat \ {0}
                     /\ SleepingProducers <= Cardinality(Producers)
                     /\ SleepingConsumers <= Cardinality(Consumers))'
      BY SleepersType, PTL
    <3> QED BY <1>1, <3>1
  <2> QED BY <1>1, <2>1, SleepersType, LimitType DEF TypeOK
<1> USE DEF SleepersBounded, FewConsumers, FewProducers, Excess, OneWakes
<1>3. ASSUME NEW p \in Producers, PushWait(p) PROVE SleepersBounded'
  <2>1. /\ SleepingProducers' = SleepingProducers + 1
        /\ SleepingConsumers' = SleepingConsumers
    BY <1>1, <1>3, ProducerSleeps DEF PushWait
  <2>2. size' = size /\ max_size > 0 /\ size = max_size
    BY <1>3 DEF PushWait, Full, listVars
  <2> QED BY <1>1, <1>2, <2>1, <2>2 DEF Balanced
<1>4. ASSUME NEW p \in Producers, Push(p) PROVE SleepersBounded'
  <2>1. \/ OneWakes
        \/ /\ SleepingProducers = 0 /\ SleepingConsumers = 0
           /\ SleepingProducers' = 0 /\ SleepingConsumers' = 0
    BY <1>1, <1>4, SignalWakes DEF Push
  <2>2. size' = size + 1 /\ (max_size > 0 => size < max_size)
    BY <1>1, <1>4, PushSize
  <2> QED BY <1>1, <1>2, <2>1, <2>2 DEF Balanced
<1>5. ASSUME NEW c \in Consumers, PullWait(c) PROVE SleepersBounded'
  <2>1. /\ SleepingConsumers' = SleepingConsumers + 1
        /\ SleepingProducers' = SleepingProducers
    BY <1>1, <1>5, ConsumerSleeps DEF PullWait
  <2>2. size' = size /\ size = 0
    BY <1>5 DEF PullWait, Empty, listVars
  <2> QED BY <1>1, <1>2, <2>1, <2>2 DEF Balanced
<1>6. ASSUME NEW c \in Consumers, Pull(c) PROVE SleepersBounded'
  <2>1. \/ OneWakes
        \/ /\ SleepingProducers = 0 /\ SleepingConsumers = 0
           /\ SleepingProducers' = 0 /\ SleepingConsumers' = 0
    BY <1>1, <1>6, SignalWakes DEF Pull
  <2>2. size' = size - 1 /\ size # 0
    BY <1>6 DEF Pull, Empty
  <2>3. max_size = 0 => SleepingProducers' = 0
    BY <1>1, <1>2, <2>1
  <2>4. max_size > 0 /\ Cardinality(Consumers) <= max_size => FewConsumers'
    BY <1>1, <1>2, <2>1, <2>2 DEF WithinLimit
  <2>5. max_size > 0 /\ Cardinality(Producers) <= max_size => FewProducers'
    BY <1>1, <1>2, <2>1, <2>2 DEF WithinLimit
  <2> QED BY <1>1, <2>3, <2>4, <2>5
<1>7. ASSUME NEW t \in Threads, SpuriousWakeup(t) PROVE SleepersBounded'
  <2>1. OneWakes
    BY <1>1, <1>7, Wakes DEF SpuriousWakeup
  <2>2. size' = size
    BY <1>7 DEF SpuriousWakeup, listVars
  <2>3. max_size = 0 => SleepingProducers' = 0
    BY <1>1, <1>2, <2>1
  <2>4. max_size > 0 /\ Cardinality(Consumers) <= max_size => FewConsumers'
    BY <1>1, <1>2, <2>1, <2>2 DEF WithinLimit
  <2>5. max_size > 0 /\ Cardinality(Producers) <= max_size => FewProducers'
    BY <1>1, <1>2, <2>1, <2>2 DEF WithinLimit
  <2> QED BY <1>1, <2>3, <2>4, <2>5
<1>8. ASSUME Destroy PROVE SleepersBounded'
  <2>1. waiting' = {}
    BY <1>8 DEF Destroy, threadVars, ListInv, Membership, TypeOK
  <2>2. SleepingProducers' = 0 /\ SleepingConsumers' = 0
    BY <2>1, FS_EmptySet DEF SleepingProducers, SleepingConsumers
  <2> QED BY <1>1, <1>2, <2>2
<1>9. ASSUME NEW p \in Producers, NEW d \in Data, CallPush(p, d)
      PROVE  SleepersBounded'
  <2>1. size' = size /\ waiting' = waiting
    BY <1>9 DEF CallPush, listVars
  <2> QED BY <2>1, SameSleepers
<1>10. ASSUME NEW c \in Consumers, CallPull(c) PROVE SleepersBounded'
  <2>1. size' = size /\ waiting' = waiting
    BY <1>10 DEF CallPull, listVars
  <2> QED BY <2>1, SameSleepers
<1>11. ASSUME NEW t \in Threads, Finish(t) PROVE SleepersBounded'
  <2>1. size' = size /\ waiting' = waiting
    BY <1>11 DEF Finish, listVars
  <2> QED BY <2>1, SameSleepers
<1>12. ASSUME UNCHANGED vars PROVE SleepersBounded'
  <2>1. size' = size /\ waiting' = waiting
    BY <1>12 DEF vars, listVars, threadVars
  <2> QED BY <2>1, SameSleepers
<1> QED
  <2> HIDE DEF SleepersBounded
  <2> QED BY <1>3, <1>4, <1>5, <1>6, <1>7, <1>8, <1>9, <1>10, <1>11, <1>12
          DEF Next

\* With no more than twice as many threads as places, not all can sleep.
LEMMA SomeoneAwake ==
  ASSUME Balanced
  PROVE  SleepInv => NoStranding
<1> SUFFICES ASSUME SleepInv, waiting = Threads PROVE FALSE
  BY DEF NoStranding
<1>1. /\ SleepingProducers = Cardinality(Producers)
      /\ SleepingConsumers = Cardinality(Consumers)
  <2>1. waiting \cap Producers = Producers /\ waiting \cap Consumers = Consumers
    BY DEF Threads
  <2> QED BY <2>1 DEF SleepingProducers, SleepingConsumers
<1>2. /\ Cardinality(Producers) \in Nat \ {0}
      /\ Cardinality(Consumers) \in Nat \ {0}
      /\ max_size \in Nat
  BY SleepersType, LimitType DEF SleepInv, ListInv
<1> QED BY <1>1, <1>2 DEF SleepInv, SleepersBounded, FewConsumers, FewProducers,
                          Excess, Balanced

\* The sleepers' count of a balanced queue, and so that its threads never all
\* sleep: the single condition variable and single signals of queue.c:86-137
\* lose no wakeup that matters as long as the queue is unlimited or has half
\* as many places as there are threads.
THEOREM BalancedSleepers ==
  ASSUME Balanced
  PROVE  Spec => []SleepersBounded
<1>1. Spec => []SleepInv
  BY ListInit, ListStep, SleepInit, SleepStep, PTL DEF Spec, SleepInv
<1>2. SleepInv => SleepersBounded
  BY DEF SleepInv
<1> QED BY <1>1, <1>2, PTL

\* The threads of a balanced queue never all sleep (queue.c:86-137).
THEOREM BalancedNeverStrands ==
  ASSUME Balanced
  PROVE  Spec => []NoStranding
<1>1. Spec => []SleepInv
  BY ListInit, ListStep, SleepInit, SleepStep, PTL DEF Spec, SleepInv
<1> QED BY <1>1, SomeoneAwake, PTL

-----------------------------------------------------------------------------
\* Neither kind of thread has more than the queue has places.
Roomy == \/ max_size = 0
         \/ /\ Cardinality(Producers) <= max_size
            /\ Cardinality(Consumers) <= max_size

\* No pusher sleeps when the queue is empty, and no puller when it is full.
OneKindSleeps == /\ Empty => waiting \cap Producers = {}
                 /\ Full => waiting \cap Consumers = {}

\* The bound on the sleepers says so when there is room for either kind.
LEMMA RoomForOneKind ==
  ASSUME Roomy
  PROVE  SleepInv => OneKindSleeps
<1> SUFFICES ASSUME SleepInv PROVE OneKindSleeps
  OBVIOUS
<1>1. /\ SleepingProducers \in Nat /\ SleepingConsumers \in Nat
      /\ Cardinality(Producers) \in Nat /\ Cardinality(Consumers) \in Nat
      /\ max_size \in Nat /\ size \in Nat
  BY SleepersType, LimitType DEF SleepInv, ListInv, TypeOK
<1>2. Empty => SleepingProducers = 0
  BY <1>1 DEF Roomy, Empty, SleepInv, SleepersBounded, FewProducers, Excess
<1>3. Full => SleepingConsumers = 0
  BY <1>1 DEF Roomy, Full, SleepInv, SleepersBounded, FewConsumers, Excess
<1>4. IsFiniteSet(waiting \cap Producers) /\ IsFiniteSet(waiting \cap Consumers)
  BY FS_Intersection DEF SleepInv, ListInv, TypeOK, Threads
<1> QED BY <1>2, <1>3, <1>4, FS_EmptySet
        DEF SleepingProducers, SleepingConsumers, OneKindSleeps

\* A signal wakes somebody who is inside, or nobody sleeps.
LEMMA SignalAwakes ==
  ASSUME ListInv, Signal, NEW t, Inside' = Inside \ {t}, t \notin waiting
  PROVE  NoMissedWakeup'
<1>1. CASE waiting = {}
  BY <1>1 DEF Signal, NoMissedWakeup
<1>2. CASE waiting # {}
  <2>1. PICK w \in waiting : waiting' = waiting \ {w}
    BY <1>2 DEF Signal
  <2>2. w \in Inside'
    BY <2>1 DEF ListInv, Membership
  <2> QED BY <2>1, <2>2 DEF NoMissedWakeup, Awake
<1> QED BY <1>1, <1>2

\* A pusher sleeps at an empty queue, or a puller at a full one, only while
\* somebody inside is awake.
NobodyLeft == /\ Empty /\ waiting \cap Producers # {} => Awake # {}
              /\ Full /\ waiting \cap Consumers # {} => Awake # {}

\* No step leaves a thread asleep whose wait is over with nobody to wake it.
LEMMA MissedStep ==
  ListInv /\ NobodyLeft' /\ NoMissedWakeup /\ [Next]_vars => NoMissedWakeup'
<1> SUFFICES ASSUME ListInv, NobodyLeft', NoMissedWakeup, [Next]_vars
             PROVE  NoMissedWakeup'
  OBVIOUS
<1>1. TypeOK /\ Membership
  BY DEF ListInv
<1>2. ASSUME NEW p \in Producers, NEW d \in Data, CallPush(p, d)
      PROVE  NoMissedWakeup'
  <2>1. d # NoData /\ p \notin Inside
    BY <1>1, <1>2, QueueAssumption DEF CallPush, Idle, Inside, TypeOK
  <2>2. p \in Inside' /\ p \notin waiting'
    BY <1>1, <1>2, <2>1 DEF CallPush, Inside, Membership, TypeOK
  <2> QED BY <2>2 DEF NoMissedWakeup, Awake
<1>3. ASSUME NEW c \in Consumers, CallPull(c) PROVE NoMissedWakeup'
  <2>1. c \notin Inside
    BY <1>3, QueueAssumption DEF CallPull, Idle, Inside
  <2>2. c \in Inside' /\ c \notin waiting'
    BY <1>1, <1>3, <2>1 DEF CallPull, Inside, Membership
  <2> QED BY <2>2 DEF NoMissedWakeup, Awake
<1>4. ASSUME NEW p \in Producers, PushWait(p) PROVE NoMissedWakeup'
  <2>1. Full'
    BY <1>4 DEF PushWait, Full, listVars, max_size
  <2> QED BY <2>1 DEF NoMissedWakeup, NobodyLeft
<1>5. ASSUME NEW c \in Consumers, PullWait(c) PROVE NoMissedWakeup'
  <2>1. Empty'
    BY <1>5 DEF PullWait, Empty, listVars
  <2> QED BY <2>1 DEF NoMissedWakeup, NobodyLeft
<1>6. ASSUME NEW p \in Producers, Push(p) PROVE NoMissedWakeup'
  <2>1. Inside' = Inside \ {p}
    BY <1>1, <1>6, QueueAssumption DEF Push, Inside, TypeOK
  <2> QED BY <1>6, <2>1, SignalAwakes DEF Push
<1>7. ASSUME NEW c \in Consumers, Pull(c) PROVE NoMissedWakeup'
  <2>1. Inside' = Inside \ {c}
    BY <1>1, <1>7, QueueAssumption DEF Pull, Inside, TypeOK
  <2> QED BY <1>7, <2>1, SignalAwakes DEF Pull
<1>8. ASSUME NEW t \in Threads, SpuriousWakeup(t) PROVE NoMissedWakeup'
  <2>1. t \in Inside' /\ t \notin waiting'
    BY <1>1, <1>8 DEF SpuriousWakeup, Inside, Membership
  <2> QED BY <2>1 DEF NoMissedWakeup, Awake
<1>9. ASSUME Destroy PROVE NoMissedWakeup'
  <2>1. waiting' = {}
    BY <1>1, <1>9 DEF Destroy, threadVars, Membership, TypeOK
  <2> QED BY <2>1 DEF NoMissedWakeup
<1>10. ASSUME UNCHANGED <<size, waiting, arg, pulling>> PROVE NoMissedWakeup'
  BY <1>10 DEF NoMissedWakeup, Full, Empty, Awake, Inside, max_size
<1>11. ASSUME NEW t \in Threads, Finish(t) PROVE NoMissedWakeup'
  BY <1>10, <1>11 DEF Finish, listVars
<1>12. ASSUME UNCHANGED vars PROVE NoMissedWakeup'
  BY <1>10, <1>12 DEF vars, listVars, threadVars
<1> QED BY <1>2, <1>3, <1>4, <1>5, <1>6, <1>7, <1>8, <1>9, <1>11, <1>12 DEF Next

\* With no more threads of a kind than places, a thread whose wait is over
\* never sleeps on with nobody inside to wake it, although pushers and pullers
\* share one condition variable and each signals once (queue.c:86-137).
THEOREM RoomyMissesNothing ==
  ASSUME Roomy
  PROVE  Spec => []NoMissedWakeup
<1>1. Spec => []SleepInv
  <2>1. Balanced
    <3>1. /\ max_size \in Nat /\ Cardinality(Producers) \in Nat
          /\ Cardinality(Consumers) \in Nat
      BY LimitType, FS_CardinalityType, QueueAssumption
    <3> QED BY <3>1 DEF Roomy, Balanced
  <2> QED BY <2>1, ListInit, ListStep, SleepInit, SleepStep, PTL DEF Spec, SleepInv
<1>2. SleepInv => ListInv /\ NobodyLeft
  BY RoomForOneKind DEF SleepInv, OneKindSleeps, NobodyLeft
<1>3. Init => NoMissedWakeup
  BY DEF Init, NoMissedWakeup
<1> QED BY <1>1, <1>2, <1>3, MissedStep, PTL DEF Spec

-----------------------------------------------------------------------------
\* One thread on one side, as main is the only pusher of parallel_make and of
\* password_cracker.  On the other side as many are then awake inside as there
\* are places (for pushers) or items (for pullers), unless none of them sleeps.
OneSided == Cardinality(Producers) = 1 \/ Cardinality(Consumers) = 1

Covered(asleep, awake, n) == asleep # {} => Cardinality(awake) >= n

PlacesCovered ==
    max_size > 0 =>
      Covered(waiting \cap Producers, Awake \cap Producers, max_size - size)

ItemsCovered == Covered(waiting \cap Consumers, Awake \cap Consumers, size)

\* With nobody more asleep and nobody fewer awake.
LEMMA CoveredStays ==
  ASSUME NEW V, NEW W, NEW A, NEW B, IsFiniteSet(B), NEW n \in Int,
         Covered(W, A, n), V \subseteq W, A \subseteq B
  PROVE  Covered(V, B, n)
<1>1. IsFiniteSet(A) /\ Cardinality(A) <= Cardinality(B)
  BY FS_Subset
<1>2. Cardinality(A) \in Nat /\ Cardinality(B) \in Nat
  BY <1>1, FS_CardinalityType
<1> QED BY <1>1, <1>2 DEF Covered

\* One fewer awake, for one fewer.
LEMMA CoveredLeaves ==
  ASSUME NEW V, NEW W, NEW A, NEW B, IsFiniteSet(A), IsFiniteSet(B),
         NEW n \in Int, NEW t,
         Covered(W, A, n), V \subseteq W, A \ {t} \subseteq B
  PROVE  Covered(V, B, n - 1)
<1>1. /\ IsFiniteSet(A \ {t})
      /\ \/ Cardinality(A \ {t}) = Cardinality(A) - 1
         \/ Cardinality(A \ {t}) = Cardinality(A)
  BY FS_RemoveElement
<1>2. Cardinality(A \ {t}) <= Cardinality(B)
  BY FS_Subset
<1>3. /\ Cardinality(A) \in Nat /\ Cardinality(B) \in Nat
      /\ Cardinality(A \ {t}) \in Nat
  BY <1>1, FS_CardinalityType
<1> QED BY <1>1, <1>2, <1>3 DEF Covered

\* One more awake, for one more.
LEMMA CoveredWakes ==
  ASSUME NEW V, NEW W, NEW A, NEW B, IsFiniteSet(B), NEW n \in Int,
         Covered(W, A, n), V \subseteq W, A \subseteq B, A # B
  PROVE  Covered(V, B, n + 1)
<1>1. /\ IsFiniteSet(A) /\ Cardinality(A) <= Cardinality(B)
      /\ Cardinality(A) # Cardinality(B)
  BY FS_Subset
<1>2. Cardinality(A) \in Nat /\ Cardinality(B) \in Nat
  BY <1>1, FS_CardinalityType
<1> QED BY <1>1, <1>2 DEF Covered

\* The awake threads of a kind are finitely many.
LEMMA AwakeFinite ==
  TypeOK => IsFiniteSet(Awake \cap Producers) /\ IsFiniteSet(Awake \cap Consumers)
<1>1. /\ Awake \cap Producers \subseteq Producers
      /\ Awake \cap Consumers \subseteq Consumers
  OBVIOUS
<1> QED BY <1>1, FS_Subset, QueueAssumption

\* The steps that change neither the size nor put anybody to sleep or out.
Quiet == size' = size /\ waiting' \subseteq waiting /\ Inside \subseteq Inside'

\* Calls, wakeups nobody signalled and returns are such steps.
LEMMA QuietSteps ==
  ASSUME ListInv, [Next]_vars
  PROVE  \/ \E p \in Producers : PushWait(p) \/ Push(p)
         \/ \E c \in Consumers : PullWait(c) \/ Pull(c)
         \/ Destroy
         \/ Quiet
<1>1. ASSUME NEW p \in Producers, NEW d \in Data, CallPush(p, d) PROVE Quiet
  BY <1>1, QueueAssumption DEF CallPush, Idle, Quiet, Inside, listVars, ListInv, TypeOK
<1>2. ASSUME NEW c \in Consumers, CallPull(c) PROVE Quiet
  BY <1>2 DEF CallPull, Quiet, Inside, listVars
<1>3. ASSUME NEW t \in Threads, SpuriousWakeup(t) PROVE Quiet
  BY <1>3 DEF SpuriousWakeup, Quiet, Inside, listVars
<1>4. ASSUME NEW t \in Threads, Finish(t) PROVE Quiet
  BY <1>4 DEF Finish, Quiet, Inside, listVars
<1>5. ASSUME UNCHANGED vars PROVE Quiet
  BY <1>5 DEF vars, listVars, threadVars, Quiet, Inside
<1> QED BY <1>1, <1>2, <1>3, <1>4, <1>5 DEF Next

\* The sets of awake threads before and after a step are finite, and the
\* numbers are numbers.
LEMMA CoveredTypes ==
  ASSUME TypeOK, TypeOK'
  PROVE  /\ IsFiniteSet(Awake \cap Producers) /\ IsFiniteSet(Awake \cap Consumers)
         /\ IsFiniteSet((Awake \cap Producers)')
         /\ IsFiniteSet((Awake \cap Consumers)')
         /\ size \in Int /\ max_size \in Int
<1>1. (TypeOK => /\ IsFiniteSet(Awake \cap Producers)
                 /\ IsFiniteSet(Awake \cap Consumers))'
  BY AwakeFinite, PTL
<1> QED BY <1>1, AwakeFinite, LimitType DEF TypeOK

\* With one puller: a push takes a place and a pusher; a pull frees a place
\* and, since no other puller can be woken, wakes a pusher.
LEMMA PlacesStep ==
  ASSUME Cardinality(Consumers) = 1
  PROVE  ListInv /\ PlacesCovered /\ [Next]_vars => PlacesCovered'
<1> SUFFICES ASSUME ListInv, PlacesCovered, [Next]_vars, max_size > 0
             PROVE  Covered((waiting \cap Producers)', (Awake \cap Producers)',
                            max_size - size')
  BY DEF PlacesCovered, max_size
<1>1. TypeOK /\ TypeOK' /\ Membership
  BY ListStep DEF ListInv
<1>2. /\ IsFiniteSet(Awake \cap Producers)
      /\ IsFiniteSet((Awake \cap Producers)')
      /\ size \in Int /\ max_size \in Int /\ max_size - size \in Int
  BY <1>1, CoveredTypes
<1>3. Covered(waiting \cap Producers, Awake \cap Producers, max_size - size)
  BY DEF PlacesCovered
<1>4. PICK me : Consumers = {me}
  BY FS_Singleton, QueueAssumption
<1>5. ASSUME NEW p \in Producers, PushWait(p)
      PROVE  Covered((waiting \cap Producers)', (Awake \cap Producers)',
                     max_size - size')
  <2>1. size' = max_size
    BY <1>5 DEF PushWait, Full, listVars
  <2>2. Cardinality((Awake \cap Producers)') \in Nat
    BY <1>2, FS_CardinalityType
  <2> QED BY <1>2, <2>1, <2>2 DEF Covered
<1>6. ASSUME NEW p \in Producers, Push(p)
      PROVE  Covered((waiting \cap Producers)', (Awake \cap Producers)',
                     max_size - size')
  <2>1. waiting' \subseteq waiting
    BY <1>1, <1>6, SignalType DEF Push
  <2>2. Inside' = Inside \ {p}
    BY <1>1, <1>6, QueueAssumption DEF Push, Inside, TypeOK
  <2>3. (Awake \cap Producers) \ {p} \subseteq (Awake \cap Producers)'
    BY <2>1, <2>2 DEF Awake
  <2>4. (waiting \cap Producers)' \subseteq waiting \cap Producers
    BY <2>1
  <2>5. Covered((waiting \cap Producers)', (Awake \cap Producers)',
                (max_size - size) - 1)
    BY <1>2, <1>3, <2>3, <2>4, CoveredLeaves
  <2>6. size' = size + 1
    BY <1>6 DEF Push
  <2>7. max_size - size' = (max_size - size) - 1
    BY <1>2, <2>6
  <2> QED BY <2>5, <2>7
<1>7. ASSUME NEW c \in Consumers, Pull(c)
      PROVE  Covered((waiting \cap Producers)', (Awake \cap Producers)',
                     max_size - size')
  <2>1. Inside' = Inside \ {c} /\ c \notin Producers
    BY <1>1, <1>7, QueueAssumption DEF Pull, Inside, TypeOK
  <2>2. waiting \subseteq Producers
    BY <1>1, <1>4, <1>7 DEF Pull, TypeOK, Threads
  <2>3. CASE waiting = {}
    <3>1. waiting' = {}
      BY <1>7, <2>3 DEF Pull, Signal
    <3> QED BY <3>1 DEF Covered
  <2>4. CASE waiting # {}
    <3>1. PICK w \in waiting : waiting' = waiting \ {w}
      BY <1>7, <2>4 DEF Pull, Signal
    <3>2. /\ w \in Inside
          /\ w \in waiting \cap Producers
          /\ w \notin Awake \cap Producers
      BY <1>1, <2>2 DEF Membership, Awake
    <3>3. /\ Awake \cap Producers \subseteq (Awake \cap Producers)'
          /\ Awake \cap Producers # (Awake \cap Producers)'
      BY <2>1, <3>1, <3>2 DEF Awake
    <3>4. (waiting \cap Producers)' \subseteq waiting \cap Producers
      BY <3>1
    <3>5. Covered((waiting \cap Producers)', (Awake \cap Producers)',
                  (max_size - size) + 1)
      BY <1>2, <1>3, <3>3, <3>4, CoveredWakes
    <3>6. size' = size - 1
      BY <1>7 DEF Pull
    <3>7. max_size - size' = (max_size - size) + 1
      BY <1>2, <3>6
    <3> QED BY <3>5, <3>7
  <2> QED BY <2>3, <2>4
<1>8. ASSUME size' = size, waiting' \cap Producers \subseteq waiting,
             Awake \cap Producers \subseteq Awake'
      PROVE  Covered((waiting \cap Producers)', (Awake \cap Producers)',
                     max_size - size')
  <2>1. /\ (waiting \cap Producers)' \subseteq waiting \cap Producers
        /\ Awake \cap Producers \subseteq (Awake \cap Producers)'
    BY <1>8
  <2>2. Covered((waiting \cap Producers)', (Awake \cap Producers)',
                max_size - size)
    BY <1>2, <1>3, <2>1, CoveredStays
  <2> QED BY <1>8, <2>2
<1>9. ASSUME Quiet PROVE Covered((waiting \cap Producers)', (Awake \cap Producers)',
                     max_size - size')
  <2>1. /\ size' = size /\ waiting' \cap Producers \subseteq waiting
        /\ Awake \cap Producers \subseteq Awake'
    BY <1>1, <1>9, QueueAssumption DEF Quiet, Awake
  <2> QED BY <1>8, <2>1
<1>10. ASSUME NEW c \in Consumers, PullWait(c)
       PROVE  Covered((waiting \cap Producers)', (Awake \cap Producers)',
                      max_size - size')
  <2>1. /\ size' = size /\ waiting' = waiting \cup {c} /\ Inside' = Inside
        /\ c \notin Producers
    BY <1>10, QueueAssumption DEF PullWait, Wait, listVars, Inside
  <2>2. /\ waiting' \cap Producers \subseteq waiting
        /\ Awake \cap Producers \subseteq Awake'
    BY <2>1 DEF Awake
  <2> QED BY <1>8, <2>1, <2>2
<1>11. ASSUME Destroy
       PROVE  Covered((waiting \cap Producers)', (Awake \cap Producers)',
                      max_size - size')
  <2>1. waiting' = {}
    BY <1>1, <1>11 DEF Destroy, threadVars, Membership, TypeOK
  <2> QED BY <2>1 DEF Covered
<1> QED BY <1>5, <1>6, <1>7, <1>9, <1>10, <1>11, QuietSteps

\* With one pusher: a pull takes an item and a puller; a push adds an item
\* and, since no other pusher can be woken, wakes a puller.
LEMMA ItemsStep ==
  ASSUME Cardinality(Producers) = 1
  PROVE  ListInv /\ ItemsCovered /\ [Next]_vars => ItemsCovered'
<1> SUFFICES ASSUME ListInv, ItemsCovered, [Next]_vars
             PROVE  Covered((waiting \cap Consumers)', (Awake \cap Consumers)', size')
  BY DEF ItemsCovered
<1>1. TypeOK /\ TypeOK' /\ Membership
  BY ListStep DEF ListInv
<1>2. /\ IsFiniteSet(Awake \cap Consumers)
      /\ IsFiniteSet((Awake \cap Consumers)')
      /\ size \in Int
  BY <1>1, CoveredTypes
<1>3. Covered(waiting \cap Consumers, Awake \cap Consumers, size)
  BY DEF ItemsCovered
<1>4. PICK me : Producers = {me}
  BY FS_Singleton, QueueAssumption
<1>5. ASSUME NEW c \in Consumers, PullWait(c)
      PROVE  Covered((waiting \cap Consumers)', (Awake \cap Consumers)', size')
  <2>1. size' = 0
    BY <1>5 DEF PullWait, Empty, listVars
  <2>2. Cardinality((Awake \cap Consumers)') \in Nat
    BY <1>2, FS_CardinalityType
  <2> QED BY <1>2, <2>1, <2>2 DEF Covered
<1>6. ASSUME NEW c \in Consumers, Pull(c)
      PROVE  Covered((waiting \cap Consumers)', (Awake \cap Consumers)', size')
  <2>1. waiting' \subseteq waiting
    BY <1>1, <1>6, SignalType DEF Pull
  <2>2. Inside' = Inside \ {c}
    BY <1>1, <1>6, QueueAssumption DEF Pull, Inside, TypeOK
  <2>3. (Awake \cap Consumers) \ {c} \subseteq (Awake \cap Consumers)'
    BY <2>1, <2>2 DEF Awake
  <2>4. (waiting \cap Consumers)' \subseteq waiting \cap Consumers
    BY <2>1
  <2>5. Covered((waiting \cap Consumers)', (Awake \cap Consumers)', size - 1)
    BY <1>2, <1>3, <2>3, <2>4, CoveredLeaves
  <2> QED BY <1>6, <2>5 DEF Pull
<1>7. ASSUME NEW p \in Producers, Push(p)
      PROVE  Covered((waiting \cap Consumers)', (Awake \cap Consumers)', size')
  <2>1. Inside' = Inside \ {p} /\ p \notin Consumers
    BY <1>1, <1>7, QueueAssumption DEF Push, Inside, TypeOK
  <2>2. waiting \subseteq Consumers
    BY <1>1, <1>4, <1>7 DEF Push, TypeOK, Threads
  <2>3. CASE waiting = {}
    <3>1. waiting' = {}
      BY <1>7, <2>3 DEF Push, Signal
    <3> QED BY <3>1 DEF Covered
  <2>4. CASE waiting # {}
    <3>1. PICK w \in waiting : waiting' = waiting \ {w}
      BY <1>7, <2>4 DEF Push, Signal
    <3>2. /\ w \in Inside
          /\ w \in waiting \cap Consumers
          /\ w \notin Awake \cap Consumers
      BY <1>1, <2>2 DEF Membership, Awake
    <3>3. /\ Awake \cap Consumers \subseteq (Awake \cap Consumers)'
          /\ Awake \cap Consumers # (Awake \cap Consumers)'
      BY <2>1, <3>1, <3>2 DEF Awake
    <3>4. (waiting \cap Consumers)' \subseteq waiting \cap Consumers
      BY <3>1
    <3>5. Covered((waiting \cap Consumers)', (Awake \cap Consumers)', size + 1)
      BY <1>2, <1>3, <3>3, <3>4, CoveredWakes
    <3> QED BY <1>7, <3>5 DEF Push
  <2> QED BY <2>3, <2>4
<1>8. ASSUME size' = size, waiting' \cap Consumers \subseteq waiting,
             Awake \cap Consumers \subseteq Awake'
      PROVE  Covered((waiting \cap Consumers)', (Awake \cap Consumers)', size')
  <2>1. /\ (waiting \cap Consumers)' \subseteq waiting \cap Consumers
        /\ Awake \cap Consumers \subseteq (Awake \cap Consumers)'
    BY <1>8
  <2>2. Covered((waiting \cap Consumers)', (Awake \cap Consumers)', size)
    BY <1>2, <1>3, <2>1, CoveredStays
  <2> QED BY <1>8, <2>2
<1>9. ASSUME Quiet
      PROVE  Covered((waiting \cap Consumers)', (Awake \cap Consumers)', size')
  <2>1. /\ size' = size /\ waiting' \cap Consumers \subseteq waiting
        /\ Awake \cap Consumers \subseteq Awake'
    BY <1>1, <1>9, QueueAssumption DEF Quiet, Awake
  <2> QED BY <1>8, <2>1
<1>10. ASSUME NEW p \in Producers, PushWait(p)
       PROVE  Covered((waiting \cap Consumers)', (Awake \cap Consumers)', size')
  <2>1. /\ size' = size /\ waiting' = waiting \cup {p} /\ Inside' = Inside
        /\ p \notin Consumers
    BY <1>10, QueueAssumption DEF PushWait, Wait, listVars, Inside
  <2>2. /\ waiting' \cap Consumers \subseteq waiting
        /\ Awake \cap Consumers \subseteq Awake'
    BY <2>1 DEF Awake
  <2> QED BY <1>8, <2>1, <2>2
<1>11. ASSUME Destroy
       PROVE  Covered((waiting \cap Consumers)', (Awake \cap Consumers)', size')
  <2>1. waiting' = {}
    BY <1>1, <1>11 DEF Destroy, threadVars, Membership, TypeOK
  <2> QED BY <2>1 DEF Covered
<1> QED BY <1>5, <1>6, <1>7, <1>9, <1>10, <1>11, QuietSteps

\* Somebody asleep is counted.
LEMMA AsleepCounted ==
  TypeOK => /\ waiting \cap Producers # {} <=> SleepingProducers > 0
            /\ waiting \cap Consumers # {} <=> SleepingConsumers > 0
<1> SUFFICES ASSUME TypeOK
             PROVE  /\ waiting \cap Producers # {} <=> SleepingProducers > 0
                    /\ waiting \cap Consumers # {} <=> SleepingConsumers > 0
  OBVIOUS
<1>1. IsFiniteSet(waiting \cap Producers) /\ IsFiniteSet(waiting \cap Consumers)
  BY FS_Intersection, QueueAssumption
<1>2. /\ waiting \cap Producers = {} <=> SleepingProducers = 0
      /\ waiting \cap Consumers = {} <=> SleepingConsumers = 0
  BY <1>1, FS_EmptySet DEF SleepingProducers, SleepingConsumers
<1>3. SleepingProducers \in Nat /\ SleepingConsumers \in Nat
  BY SleepersType
<1> QED BY <1>2, <1>3

\* With one puller nobody sleeps at a queue that is against them alone.
LEMMA OnePullerLeaves ==
  ASSUME Balanced, Cardinality(Consumers) = 1
  PROVE  SleepInv /\ PlacesCovered => NobodyLeft
<1> SUFFICES ASSUME SleepInv, PlacesCovered PROVE NobodyLeft
  OBVIOUS
<1>1. /\ TypeOK /\ SleepersBounded
      /\ SleepingProducers \in Nat /\ SleepingConsumers \in Nat
      /\ Cardinality(Producers) \in Nat \ {0}
      /\ max_size \in Nat /\ size \in Nat
  BY SleepersType, LimitType DEF SleepInv, ListInv, TypeOK
<1>2. Full => SleepingConsumers = 0
  BY <1>1 DEF Balanced, Full, SleepersBounded, FewConsumers, Excess
<1>3. Empty /\ SleepingProducers > 0 => Awake # {}
  <2> SUFFICES ASSUME Empty, SleepingProducers > 0 PROVE Awake # {}
    OBVIOUS
  <2>1. max_size > 0 /\ size = 0
    BY <1>1 DEF SleepersBounded, Empty
  <2>2. Cardinality(Awake \cap Producers) >= max_size
    BY <1>1, <2>1, AsleepCounted DEF PlacesCovered, Covered
  <2>3. Cardinality(Awake \cap Producers) # 0
    BY <1>1, <2>1, <2>2
  <2> QED BY <2>3, FS_EmptySet
<1> QED BY <1>1, <1>2, <1>3, AsleepCounted DEF NobodyLeft

\* Nor with one pusher.
LEMMA OnePusherLeaves ==
  ASSUME Balanced, Cardinality(Producers) = 1
  PROVE  SleepInv /\ ItemsCovered => NobodyLeft
<1> SUFFICES ASSUME SleepInv, ItemsCovered PROVE NobodyLeft
  OBVIOUS
<1>1. /\ TypeOK /\ SleepersBounded
      /\ SleepingProducers \in Nat /\ SleepingConsumers \in Nat
      /\ Cardinality(Consumers) \in Nat \ {0}
      /\ max_size \in Nat /\ size \in Nat
  BY SleepersType, LimitType DEF SleepInv, ListInv, TypeOK
<1>2. Empty => SleepingProducers = 0
  BY <1>1 DEF Balanced, Empty, SleepersBounded, FewProducers, Excess
<1>3. Full /\ SleepingConsumers > 0 => Awake # {}
  <2> SUFFICES ASSUME Full, SleepingConsumers > 0 PROVE Awake # {}
    OBVIOUS
  <2>1. size > 0
    BY <1>1 DEF Full
  <2>2. Cardinality(Awake \cap Consumers) >= size
    BY <1>1, AsleepCounted DEF ItemsCovered, Covered
  <2>3. Cardinality(Awake \cap Consumers) # 0
    BY <1>1, <2>1, <2>2
  <2> QED BY <2>3, FS_EmptySet
<1> QED BY <1>1, <1>2, <1>3, AsleepCounted DEF NobodyLeft

\* With a single thread on one side a balanced queue misses no wakeup however
\* many threads are on the other (queue.c:86-137): what one thread adds or
\* takes alone is matched by one it wakes.  Being balanced is not enough with two
\* threads on the smaller side (4 pushers and 2 pullers on 3 places).
THEOREM OneSidedMissesNothing ==
  ASSUME Balanced, OneSided
  PROVE  Spec => []NoMissedWakeup
<1>1. Spec => []SleepInv
  BY ListInit, ListStep, SleepInit, SleepStep, PTL DEF Spec, SleepInv
<1>2. SleepInv => ListInv
  BY DEF SleepInv
<1>3. Init => NoMissedWakeup /\ PlacesCovered /\ ItemsCovered
  BY DEF Init, NoMissedWakeup, PlacesCovered, ItemsCovered, Covered
<1>4. CASE Cardinality(Consumers) = 1
  BY <1>1, <1>2, <1>3, <1>4, PlacesStep, OnePullerLeaves, MissedStep, PTL DEF Spec
<1>5. CASE Cardinality(Producers) = 1
  BY <1>1, <1>2, <1>3, <1>5, ItemsStep, OnePusherLeaves, MissedStep, PTL DEF Spec
<1> QED BY <1>4, <1>5 DEF OneSided
=============================================================================
