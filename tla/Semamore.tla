------------------------------ MODULE Semamore ------------------------------
(***************************************************************************)
(* The two-sided semaphore of critical_concurrency/semamore.c.  Its value  *)
(* is tested before the mutex is taken, and decremented or incremented     *)
(* without it when the test lets the caller through, so that the mutex     *)
(* orders only the callers that had to wait.  s->value-- and s->value++    *)
(* are a load and a store that another thread can come between.            *)
(***************************************************************************)
EXTENDS Integers

CONSTANTS Waiters,   \* threads that call semm_wait
          Posters,   \* threads that call semm_post
          Initial,   \* semm_init's value
          max_val,   \* semm_init's max_val
          NoThread   \* the owner of a free mutex

ASSUME SemamoreAssumption ==
    /\ Waiters \cap Posters = {}
    /\ NoThread \notin Waiters \cup Posters
    /\ max_val \in Nat \ {0} /\ Initial \in 0..max_val

VARIABLES value,  \* s->value
          m,      \* the thread that holds the mutex, or NoThread
          pc,     \* where each thread is
          loaded  \* the value each thread read for its -- or ++

vars == <<value, m, pc, loaded>>

Threads == Waiters \cup Posters

\* The variables' types; who spins has the mutex, and the mutex is never left
\* with a thread outside semm_wait and semm_post (semamore.c:43-54, :65-78).
TypeOK ==
    /\ value \in Int
    /\ m \in Threads \cup {NoThread}
    /\ pc \in [Threads -> {"out", "lock", "spin", "load", "store"}]
    /\ loaded \in [Threads -> Int]
    /\ \A t \in Threads : pc[t] = "spin" => m = t
    /\ m # NoThread => pc[m] \in {"spin", "load", "store"}

Init ==
    /\ value = Initial
    /\ m = NoThread
    /\ pc = [t \in Threads |-> "out"]
    /\ loaded = [t \in Threads |-> 0]

-----------------------------------------------------------------------------
\* The value at which semm_wait, and semm_post, must wait.
Blocks(t) == IF t \in Waiters THEN 0 ELSE max_val

Goto(t, where) == pc' = [pc EXCEPT ![t] = where]

\* Mutant: the first test is left out.
CallAtOnce(t) ==
    /\ pc[t] = "out"
    /\ Goto(t, "load")
    /\ UNCHANGED <<value, m, loaded>>

\* A call tests the value, without the mutex.
Call(t) ==
    /\ pc[t] = "out"
    /\ Goto(t, IF value = Blocks(t) THEN "lock" ELSE "load")
    /\ UNCHANGED <<value, m, loaded>>

Lock(t) ==
    /\ pc[t] = "lock" /\ m = NoThread
    /\ m' = t
    /\ Goto(t, "spin")
    /\ UNCHANGED <<value, loaded>>

\* Mutant: the loop's test is the wrong way round.
SpinInverted(t) ==
    /\ pc[t] = "spin" /\ value = Blocks(t)
    /\ Goto(t, "load")
    /\ UNCHANGED <<value, m, loaded>>

\* The loop around sched_yield ends once the value has changed.
Spin(t) ==
    /\ pc[t] = "spin" /\ value # Blocks(t)
    /\ Goto(t, "load")
    /\ UNCHANGED <<value, m, loaded>>

Load(t) ==
    /\ pc[t] = "load"
    /\ loaded' = [loaded EXCEPT ![t] = value]
    /\ Goto(t, "store")
    /\ UNCHANGED <<value, m>>

Unlock(t) == m' = IF m = t THEN NoThread ELSE m

\* The decrement or increment takes effect, and a caller that waited unlocks.
Store(t) ==
    /\ pc[t] = "store"
    /\ value' = IF t \in Waiters THEN loaded[t] - 1 ELSE loaded[t] + 1
    /\ Unlock(t)
    /\ Goto(t, "out")
    /\ UNCHANGED loaded

Step(t) == Call(t) \/ Lock(t) \/ Spin(t) \/ Load(t) \/ Store(t)

Next == \E t \in Threads : Step(t)

Spec == Init /\ [][Next]_vars

\* Threads that keep calling, each scheduled again and again.
FairSpec == Spec /\ \A t \in Threads : WF_vars(Step(t))

-----------------------------------------------------------------------------
\* semm_wait blocks at 0 and semm_post at max_value (semamore.c:35, :57), so
\* the value stays between the two.
InRange == value \in 0..max_val

\* Who must wait in semm_wait or semm_post gets through when the other side
\* keeps calling (semamore.c:35-36, :57-59).
GetsThrough ==
    \A t \in Threads : pc[t] \in {"lock", "spin"} ~> pc[t] = "load"

\* Whoever spins with the mutex held (semamore.c:46, :69) gets through when
\* the other side keeps calling, unless it keeps from the mutex a thread that
\* found the opposite limit and has no reason to wait any more.
SpinEnds ==
    \A t \in Threads :
        pc[t] = "spin" ~> \/ pc[t] = "load"
                          \/ \E u \in Threads : pc[u] = "lock" /\ value # Blocks(u)
=============================================================================
