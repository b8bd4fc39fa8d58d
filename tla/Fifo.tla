-------------------------------- MODULE Fifo --------------------------------
(***************************************************************************)
(* What critical_concurrency/queue.c promises its callers: a first-in      *)
(* first-out channel of data items, bounded when Limit is positive, with   *)
(* the value each consumer's last pull returned.  Locks, waiting and the   *)
(* linked list of queue_nodes are BoundedQueue's business.                 *)
(***************************************************************************)
EXTENDS Integers, Sequences

CONSTANTS Consumers,  \* threads that pull
          Data,       \* the values pushed
          NoData,     \* "this consumer has pulled nothing yet"
          Limit       \* the greatest number of items held at once, 0 for any

VARIABLES buffer,     \* the items, oldest first
          got         \* the value each consumer's last pull returned

fifoVars == <<buffer, got>>

Init == /\ buffer = <<>>
        /\ got = [c \in Consumers |-> NoData]

Put(d) == /\ Limit > 0 => Len(buffer) < Limit
          /\ buffer' = Append(buffer, d)
          /\ UNCHANGED got

Get(c) == /\ buffer # <<>>
          /\ got' = [got EXCEPT ![c] = Head(buffer)]
          /\ buffer' = Tail(buffer)

\* Destroying the queue drops whatever it still held.
Drop == buffer' = <<>> /\ UNCHANGED got

Next == \/ \E d \in Data : Put(d)
        \/ \E c \in Consumers : Get(c)
        \/ Drop

Spec == Init /\ [][Next]_fifoVars
=============================================================================
