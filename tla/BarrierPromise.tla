--------------------------- MODULE BarrierPromise ---------------------------
(***************************************************************************)
(* What barrier_wait of critical_concurrency/barrier.c promises: nobody    *)
(* returns from its k-th call before everybody has made its k-th call.     *)
(***************************************************************************)
EXTENDS Naturals

CONSTANT Threads

VARIABLES arrived,  \* how many calls each thread has made
          left      \* how many of them have returned

promiseVars == <<arrived, left>>

Init == /\ arrived = [t \in Threads |-> 0]
        /\ left = [t \in Threads |-> 0]

Arrive(t) == /\ arrived[t] = left[t]
             /\ arrived' = [arrived EXCEPT ![t] = @ + 1]

Leave(t) == /\ left[t] < arrived'[t]
            /\ \A u \in Threads : arrived'[u] > left[t]
            /\ left' = [left EXCEPT ![t] = @ + 1]

\* The last thread to arrive may return in the same step.
Next == \E t \in Threads : \/ Arrive(t) /\ UNCHANGED left
                           \/ Leave(t) /\ UNCHANGED arrived
                           \/ Arrive(t) /\ Leave(t)

Spec == Init /\ [][Next]_promiseVars
=============================================================================
