---------------------------- MODULE BoundedQueue ----------------------------
(***************************************************************************)
(* The thread-safe queue of critical_concurrency/queue.c: a linked list of *)
(* queue_nodes guarded by one mutex m and ONE condition variable cv, on    *)
(* which the pushers of a full queue and the pullers of an empty queue     *)
(* wait together.  Every push and pull ends with pthread_cond_signal,      *)
(* which wakes one waiter of either kind.                                  *)
(*                                                                         *)
(* The code between pthread_mutex_lock and the next pthread_cond_wait or   *)
(* pthread_mutex_unlock runs with m held, so it is one step.  A waiter is  *)
(* woken by a signal, or spuriously as POSIX allows; a woken thread        *)
(* competes for m like any other and tests its condition again.            *)
(***************************************************************************)
EXTENDS Integers, Sequences, FiniteSets

CONSTANTS Producers,   \* threads that call queue_push
          Consumers,   \* threads that call queue_pull
          Data,        \* the values pushed
          Node,        \* the addresses malloc returns for a queue_node
          NULL,        \* the null pointer
          NoData,      \* no value: no push under way, nothing pulled yet
          MaxSize,     \* queue_create's argument, an ssize_t
          SizeMod      \* 2^w for a w-bit size_t

ASSUME QueueAssumption ==
    /\ IsFiniteSet(Producers) /\ Producers # {}
    /\ IsFiniteSet(Consumers) /\ Consumers # {}
    /\ Producers \cap Consumers = {}
    /\ NULL \notin Node
    /\ NoData \notin Data
    /\ MaxSize \in Int
    /\ SizeMod \in Nat \ {0}

VARIABLES head, tail,  \* first and last node of the list, or NULL
          next, data,  \* the fields of the nodes
          size,        \* the number of elements
          allocated,   \* the nodes malloc'ed and not yet freed
          waiting,     \* the threads blocked in pthread_cond_wait on cv
          arg,         \* the value each producer is pushing, or NoData
          pulling,     \* the consumers inside queue_pull
          got,         \* what each consumer's last pull returned
          finished,    \* the threads that have returned and been joined
          destroyed    \* queue_destroy has run

listVars   == <<head, tail, next, data, size, allocated>>
threadVars == <<waiting, arg, pulling, got, finished>>
vars       == <<listVars, threadVars, destroyed>>

Threads == Producers \cup Consumers

\* queue_create stores its ssize_t argument in the size_t max_size.
max_size == MaxSize % SizeMod

\* The queue's fields and the nodes' (queue.c:19-37), and who is in which
\* operation; size, a size_t, never goes below zero.
TypeOK ==
    /\ head \in Node \cup {NULL} /\ tail \in Node \cup {NULL}
    /\ next \in [Node -> Node \cup {NULL}]
    /\ data \in [Node -> Data \cup {NoData}]
    /\ size \in Nat
    /\ allocated \subseteq Node
    /\ waiting \subseteq Threads
    /\ arg \in [Producers -> Data \cup {NoData}]
    /\ pulling \subseteq Consumers
    /\ got \in [Consumers -> Data \cup {NoData}]
    /\ finished \subseteq Threads
    /\ destroyed \in BOOLEAN

\* queue_create: an empty list, nobody inside.
Init ==
    /\ head = NULL /\ tail = NULL
    /\ next = [n \in Node |-> NULL]
    /\ data = [n \in Node |-> NoData]
    /\ size = 0
    /\ allocated = {}
    /\ waiting = {}
    /\ arg = [p \in Producers |-> NoData]
    /\ pulling = {}
    /\ got = [c \in Consumers |-> NoData]
    /\ finished = {}
    /\ destroyed = FALSE

-----------------------------------------------------------------------------
Full  == max_size > 0 /\ size = max_size
Empty == size = 0

Idle(t) == /\ t \notin finished
           /\ IF t \in Producers THEN arg[t] = NoData ELSE t \notin pulling

\* pthread_cond_wait on cv: m is released and t sleeps.
Wait(t) == waiting' = waiting \cup {t}

\* Mutant: the update is not signalled.
SignalNobody == UNCHANGED waiting

\* pthread_cond_signal on cv: one of the sleepers, whichever, is woken.
Signal == IF waiting = {} THEN UNCHANGED waiting
                          ELSE \E w \in waiting : waiting' = waiting \ {w}

\* free: the nodes' memory is malloc's again and their fields mean nothing.
Free(nodes) ==
    /\ allocated' = allocated \ nodes
    /\ next' = [n \in Node |-> IF n \in nodes THEN NULL ELSE next[n]]
    /\ data' = [n \in Node |-> IF n \in nodes THEN NoData ELSE data[n]]

-----------------------------------------------------------------------------
\* A producer calls queue_push(this, d) / a consumer calls queue_pull(this).
CallPush(p, d) ==
    /\ Idle(p)
    /\ arg' = [arg EXCEPT ![p] = d]
    /\ UNCHANGED <<listVars, waiting, pulling, got, finished, destroyed>>

CallPull(c) ==
    /\ Idle(c)
    /\ pulling' = pulling \cup {c}
    /\ UNCHANGED <<listVars, waiting, arg, got, finished, destroyed>>

\* queue_push finds the queue full and waits.
PushWait(p) ==
    /\ arg[p] # NoData /\ p \notin waiting
    /\ Full
    /\ Wait(p)
    /\ UNCHANGED <<listVars, arg, pulling, got, finished, destroyed>>

\* Mutant: the node before is not linked to the new one.
LinkNothing(n) ==
    /\ head' = IF head = NULL THEN n ELSE head
    /\ next' = [next EXCEPT ![n] = NULL]

\* The new node becomes the only one of an empty list, or follows the tail.
LinkLast(n) ==
    IF head = NULL
    THEN /\ head' = n
         /\ next' = [next EXCEPT ![n] = NULL]
    ELSE /\ head' = head
         /\ next' = [next EXCEPT ![n] = NULL, ![tail] = n]

\* queue_push finds room: it appends a node, counts it, signals and returns.
Push(p) ==
    /\ arg[p] # NoData /\ p \notin waiting
    /\ ~Full
    /\ \E n \in Node \ allocated :
        /\ allocated' = allocated \cup {n}
        /\ data' = [data EXCEPT ![n] = arg[p]]
        /\ LinkLast(n)
        /\ tail' = n
    /\ size' = size + 1
    /\ Signal
    /\ arg' = [arg EXCEPT ![p] = NoData]
    /\ UNCHANGED <<pulling, got, finished, destroyed>>

\* queue_pull finds the queue empty and waits.
PullWait(c) ==
    /\ c \in pulling /\ c \notin waiting
    /\ Empty
    /\ Wait(c)
    /\ UNCHANGED <<listVars, arg, pulling, got, finished, destroyed>>

\* Mutant: the newest element is returned.
BackData == data[tail]

FrontData == data[head]

\* queue_pull takes the front node, frees it, signals and returns its data.
Pull(c) ==
    /\ c \in pulling /\ c \notin waiting
    /\ ~Empty
    /\ got' = [got EXCEPT ![c] = FrontData]
    /\ head' = next[head]
    /\ tail' = IF head' = NULL THEN NULL ELSE tail
    /\ Free({head})
    /\ size' = size - 1
    /\ Signal
    /\ pulling' = pulling \ {c}
    /\ UNCHANGED <<arg, finished, destroyed>>

\* A wakeup nobody signalled: pthread_cond_wait may return at any time.
SpuriousWakeup(t) ==
    /\ t \in waiting
    /\ waiting' = waiting \ {t}
    /\ UNCHANGED <<listVars, arg, pulling, got, finished, destroyed>>

\* A thread that is in neither operation returns for good.
Finish(t) ==
    /\ Idle(t)
    /\ finished' = finished \cup {t}
    /\ UNCHANGED <<listVars, waiting, arg, pulling, got, destroyed>>

\* The nodes queue_destroy visits, following the next fields from head: the
\* least set that holds head and is closed under next.
Linked(nodes) ==
    /\ head # NULL => head \in nodes
    /\ \A n \in nodes : next[n] # NULL => next[n] \in nodes

Visited == {n \in Node : \A nodes \in SUBSET Node : Linked(nodes) => n \in nodes}

\* queue_destroy, which the callers run once every thread has been joined.
Destroy ==
    /\ finished = Threads
    /\ ~destroyed
    /\ Free(Visited)
    /\ size' = size - Cardinality(Visited)
    /\ head' = NULL /\ tail' = NULL
    /\ destroyed' = TRUE
    /\ UNCHANGED threadVars

Next ==
    \/ \E p \in Producers : \/ \E d \in Data : CallPush(p, d)
                            \/ PushWait(p)
                            \/ Push(p)
    \/ \E c \in Consumers : CallPull(c) \/ PullWait(c) \/ Pull(c)
    \/ \E t \in Threads : SpuriousWakeup(t) \/ Finish(t)
    \/ Destroy

Spec == Init /\ [][Next]_vars

\* Every thread is scheduled fairly: one that is inside an operation and awake
\* takes the mutex again and again, and one that is outside calls again unless
\* it has returned for good.  No wakeup but a signal is promised.
CallAgain(t) == \/ t \in Producers /\ \E d \in Data : CallPush(t, d)
                \/ t \in Consumers /\ CallPull(t)

Run(t) == \/ t \in Producers /\ (PushWait(t) \/ Push(t))
          \/ t \in Consumers /\ (PullWait(t) \/ Pull(t))

FairSpec == Spec /\ \A t \in Threads : WF_vars(CallAgain(t)) /\ WF_vars(Run(t))

-----------------------------------------------------------------------------
\* order enumerates the list: it holds the allocated nodes, each once, from
\* head to tail along the next fields, and as many of them as size says.
IsList(order) ==
    /\ allocated = {order[i] : i \in 1..size}
    /\ \A i, j \in 1..size : order[i] = order[j] => i = j
    /\ head = IF size = 0 THEN NULL ELSE order[1]
    /\ tail = IF size = 0 THEN NULL ELSE order[size]
    /\ \A i \in 1..size :
         next[order[i]] = IF i = size THEN NULL ELSE order[i + 1]

\* The nodes always form one list from head to tail that agrees with size:
\* none is lost, shared, linked twice or freed while linked, whatever the
\* interleaving of pushes and pulls, and queue_destroy frees all of them
\* (queue.c:54-140).
ListShape == \E order \in [1..size -> Node] : IsList(order)

\* queue_push never takes a bounded queue above its limit (queue.c:82-89).
WithinLimit == max_size > 0 => size <= max_size

\* The threads inside an operation, and those of them that are not asleep:
\* they will test their condition again.
Inside == {p \in Producers : arg[p] # NoData} \cup pulling
Awake  == Inside \ waiting

\* queue.c:85 and :117 wait for a removal and for an addition: a thread whose
\* wait is over (there is room, there is an element) is not left asleep with
\* nobody else inside the queue to pass a signal on.
NoMissedWakeup ==
    (\/ ~Full  /\ waiting \cap Producers # {}
     \/ ~Empty /\ waiting \cap Consumers # {}) => Awake # {}

\* The queue never puts all of its threads to sleep (the one condition
\* variable and the single signal of queue.c:107 and :137).
NoStranding == waiting # Threads

\* Elements keep coming out of the queue as long as no thread stops using it
\* (queue.c:79-140): pushers and pullers never all wait for each other.
KeepsFlowing ==
    <>(finished # {}) \/ []<><<\E c \in Consumers : Pull(c)>>_vars

\* Who may sleep, by the room that is left.  A signal wakes a thread of
\* either kind, so what keeps the two kinds from all sleeping at once is a
\* count: the pushes and pulls of queue.c:79-140 keep it as long as there are
\* at most twice as many threads as the queue has places, and it makes
\* NoStranding inductive.
SleepingProducers == Cardinality(waiting \cap Producers)
SleepingConsumers == Cardinality(waiting \cap Consumers)

Balanced == \/ max_size = 0
            \/ Cardinality(Producers) + Cardinality(Consumers) <= 2 * max_size

Excess(n) == IF n > max_size THEN n - max_size ELSE 0

FewConsumers ==
    /\ SleepingConsumers > 0 =>
         /\ SleepingProducers + SleepingConsumers + size
              <= Cardinality(Consumers) + Excess(Cardinality(Producers))
         /\ SleepingProducers <= Excess(Cardinality(Producers))
    /\ SleepingProducers > 0 /\ SleepingConsumers = 0 =>
         SleepingProducers + (max_size - size) <= Cardinality(Producers)

FewProducers ==
    /\ SleepingProducers > 0 =>
         /\ SleepingProducers + SleepingConsumers + (max_size - size)
              <= Cardinality(Producers) + Excess(Cardinality(Consumers))
         /\ SleepingConsumers <= Excess(Cardinality(Consumers))
    /\ SleepingConsumers > 0 /\ SleepingProducers = 0 =>
         SleepingConsumers + size <= Cardinality(Consumers)

\* The bound on the sleepers, and the queue's limit with it.
SleepersBounded ==
    /\ WithinLimit
    /\ max_size = 0 => SleepingProducers = 0
    /\ max_size > 0 /\ Cardinality(Consumers) <= max_size => FewConsumers
    /\ max_size > 0 /\ Cardinality(Producers) <= max_size => FewProducers

\* The items in list order, oldest first.
Order    == CHOOSE order \in [1..size -> Node] : IsList(order)
Contents == [i \in 1..size |-> data[Order[i]]]

Channel == INSTANCE Fifo WITH buffer <- Contents, Limit <- max_size

\* The linked list under its mutex is a first-in first-out channel of at most
\* max_size items: every queue_push appends one item, every queue_pull
\* returns the oldest one, and waiting, waking and calling change nothing.
ImplementsFifo == Channel!Spec
=============================================================================
