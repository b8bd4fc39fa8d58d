------------------------------ MODULE Barrier -------------------------------
(***************************************************************************)
(* The reusable barrier of critical_concurrency/barrier.c: one mutex, one  *)
(* condition variable for two waits, the first until everyone has called   *)
(* (times_used returns to 0), the second until everyone has passed the     *)
(* first (count reaches n_threads), so that a fast thread cannot start     *)
(* the next round in the middle of this one.                               *)
(*                                                                         *)
(* What the code does between acquiring mtx and the next wait or the       *)
(* unlock is one step.  A waiter may also wake without a broadcast.        *)
(***************************************************************************)
EXTENDS Integers, FiniteSets

CONSTANTS Threads,  \* the threads that share the barrier
          Rounds    \* how often each of them calls barrier_wait

ASSUME BarrierAssumption ==
    /\ IsFiniteSet(Threads) /\ Threads # {}
    /\ Rounds \in Nat

VARIABLES times_used,  \* callers in the first wait
          count,       \* threads past the first wait
          place,       \* where in barrier_wait each thread is
          asleep,      \* the threads blocked in pthread_cond_wait
          arrived,     \* calls of barrier_wait each thread has made
          left         \* calls that have returned

vars == <<times_used, count, place, asleep, arrived, left>>

n_threads == Cardinality(Threads)

At(p) == {t \in Threads : place[t] = p}

\* The counters of barrier_t stay within the number of threads, and only
\* threads in one of the two waits sleep (barrier.c:42-65).
TypeOK ==
    /\ times_used \in 0..n_threads
    /\ count \in 0..n_threads
    /\ place \in [Threads -> {"outside", "first", "second"}]
    /\ asleep \subseteq At("first") \cup At("second")
    /\ arrived \in [Threads -> Nat]
    /\ left \in [Threads -> Nat]

\* barrier_init: the count starts at 1, the only round it does not start at 0.
Init ==
    /\ times_used = 0
    /\ count = 1
    /\ place = [t \in Threads |-> "outside"]
    /\ asleep = {}
    /\ arrived = [t \in Threads |-> 0]
    /\ left = [t \in Threads |-> 0]

-----------------------------------------------------------------------------
\* pthread_cond_wait at the given place.
Sleep(t, where) ==
    /\ place' = [place EXCEPT ![t] = where]
    /\ asleep' = asleep \cup {t}

\* Unlock and return.
Return(t) ==
    /\ place' = [place EXCEPT ![t] = "outside"]
    /\ left' = [left EXCEPT ![t] = @ + 1]

\* Mutant: the last thread does not wake the others.
SilentSecondPhase(t, before, sleepers) ==
    /\ count' = before + 1
    /\ IF count' = n_threads
       THEN /\ Return(t)
            /\ asleep' = sleepers
       ELSE /\ place' = [place EXCEPT ![t] = "second"]
            /\ asleep' = sleepers \cup {t}
            /\ UNCHANGED left

\* The second half of barrier_wait, reached with count at before and the given
\* threads asleep: the n-th thread to pass wakes the others and returns.
SecondPhase(t, before, sleepers) ==
    /\ count' = before + 1
    /\ IF count' = n_threads
       THEN /\ Return(t)
            /\ asleep' = {}
       ELSE /\ place' = [place EXCEPT ![t] = "second"]
            /\ asleep' = sleepers \cup {t}
            /\ UNCHANGED left

\* Mutant: the count is not restarted for the new round.
EnterKeepingCount(t) ==
    /\ place[t] = "outside" /\ arrived[t] < Rounds
    /\ arrived' = [arrived EXCEPT ![t] = @ + 1]
    /\ IF times_used + 1 = n_threads
       THEN /\ times_used' = 0
            /\ SecondPhase(t, count, {})
       ELSE /\ times_used' = times_used + 1
            /\ Sleep(t, "first")
            /\ UNCHANGED <<count, left>>

\* A call of barrier_wait: the n-th caller opens the barrier for the others
\* and goes on to the second phase, the others wait.
Enter(t) ==
    /\ place[t] = "outside" /\ arrived[t] < Rounds
    /\ arrived' = [arrived EXCEPT ![t] = @ + 1]
    /\ IF times_used + 1 = n_threads
       THEN /\ times_used' = 0
            /\ SecondPhase(t, 0, {})
       ELSE /\ times_used' = times_used + 1
            /\ Sleep(t, "first")
            /\ UNCHANGED <<count, left>>

\* Mutant: the first wait is an if, not a while.
FirstNotAgain(t) ==
    /\ place[t] = "first" /\ t \notin asleep
    /\ SecondPhase(t, count, asleep)
    /\ UNCHANGED <<times_used, arrived>>

\* A woken thread tests the first condition again.
FirstAgain(t) ==
    /\ place[t] = "first" /\ t \notin asleep
    /\ IF times_used # 0
       THEN /\ Sleep(t, "first")
            /\ UNCHANGED <<count, left>>
       ELSE SecondPhase(t, count, asleep)
    /\ UNCHANGED <<times_used, arrived>>

\* A woken thread tests the second condition again.
SecondAgain(t) ==
    /\ place[t] = "second" /\ t \notin asleep
    /\ IF count # n_threads
       THEN Sleep(t, "second") /\ UNCHANGED left
       ELSE Return(t) /\ UNCHANGED asleep
    /\ UNCHANGED <<times_used, count, arrived>>

SpuriousWakeup(t) ==
    /\ t \in asleep
    /\ asleep' = asleep \ {t}
    /\ UNCHANGED <<times_used, count, place, arrived, left>>

Next == \E t \in Threads :
           Enter(t) \/ FirstAgain(t) \/ SecondAgain(t) \/ SpuriousWakeup(t)

\* Every thread is scheduled; nothing is promised of spurious wakeups.
Fairness == \A t \in Threads : WF_vars(Enter(t) \/ FirstAgain(t) \/ SecondAgain(t))

Spec == Init /\ [][Next]_vars
FairSpec == Spec /\ Fairness

-----------------------------------------------------------------------------
\* Whoever sleeps in barrier_wait has something to wait for: the broadcasts of
\* barrier.c:47 and :62 miss nobody, in whatever round the threads are.
NoLostWakeup ==
    /\ \A t \in asleep \cap At("first") : times_used # 0
    /\ \A t \in asleep \cap At("second") : count # n_threads

\* The threads gather: times_used counts those in the first wait, and those in
\* the second are about to leave.
Gathering ==
    /\ times_used = Cardinality(At("first"))
    /\ times_used < n_threads
    /\ At("second") # {} => count = n_threads
    /\ \A t, u \in Threads : arrived[t] - (IF place[t] = "first" THEN 1 ELSE 0)
                             = arrived[u] - (IF place[u] = "first" THEN 1 ELSE 0)

\* The barrier is open: everyone is inside, and count counts those past the
\* first wait.
Releasing ==
    /\ times_used = 0
    /\ At("first") # {} /\ At("outside") = {}
    /\ count = Cardinality(At("second"))
    /\ \A t, u \in Threads : arrived[t] = arrived[u]

\* The two counters and the threads' places agree (barrier.c:42-65), in each of
\* the two phases; and the threads are never more than one round apart.
PhasesAgree ==
    /\ Gathering \/ Releasing
    /\ \A t \in Threads :
         arrived[t] = left[t] + (IF place[t] = "outside" THEN 0 ELSE 1)

Promise == INSTANCE BarrierPromise

\* barrier_wait keeps a barrier's promise, round after round.
ImplementsBarrier == Promise!Spec

\* Every call of barrier_wait returns, when all threads make all their calls.
AllReturn == <>(\A t \in Threads : left[t] = Rounds)
=============================================================================
