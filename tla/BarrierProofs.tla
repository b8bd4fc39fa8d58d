--------------------------- MODULE BarrierProofs ----------------------------
(***************************************************************************)
(* Proofs about Barrier, for any finite set of threads and any number of   *)
(* rounds: the counters agree with the threads' places, no wakeup is lost, *)
(* and barrier_wait implements BarrierPromise.                             *)
(***************************************************************************)
EXTENDS Barrier, FiniteSetTheorems, TLAPS

USE BarrierAssumption

\* There is at least one thread, and finitely many.
LEMMA ThreadCount == n_threads \in Nat \ {0}
BY FS_CardinalityType, FS_EmptySet DEF n_threads

\* The threads at one place are finitely many, at most all of them.
LEMMA PlaceFinite ==
  ASSUME NEW p
  PROVE  /\ At(p) \subseteq Threads
         /\ IsFiniteSet(At(p)) /\ Cardinality(At(p)) \in Nat
         /\ Cardinality(At(p)) <= n_threads
         /\ Cardinality(At(p)) = n_threads => At(p) = Threads
<1>1. At(p) \subseteq Threads
  BY DEF At
<1> QED BY <1>1, FS_Subset, FS_CardinalityType DEF n_threads

\* The inductive invariant.
BarrierInv == TypeOK /\ PhasesAgree /\ NoLostWakeup

\* barrier_init establishes the invariant (barrier.c:18-35).
LEMMA BarrierInit == Init => BarrierInv
<1> SUFFICES ASSUME Init PROVE BarrierInv
  OBVIOUS
<1>1. At("first") = {} /\ At("second") = {}
  BY DEF Init, At
<1>2. Cardinality(At("first")) = 0
  BY <1>1, FS_EmptySet
<1>3. TypeOK
  BY ThreadCount DEF Init, TypeOK, At
<1>4. PhasesAgree
  BY <1>1, <1>2, ThreadCount DEF Init, PhasesAgree, Gathering
<1> QED BY <1>3, <1>4 DEF BarrierInv, NoLostWakeup, Init

\* The places after thread t has moved from one place to another.
LEMMA Moved ==
  ASSUME TypeOK, NEW t \in Threads, NEW p \in {"outside", "first", "second"},
         place' = [place EXCEPT ![t] = p]
  PROVE  /\ At("outside")' = IF p = "outside" THEN At("outside") \cup {t}
                                              ELSE At("outside") \ {t}
         /\ At("first")' = IF p = "first" THEN At("first") \cup {t}
                                          ELSE At("first") \ {t}
         /\ At("second")' = IF p = "second" THEN At("second") \cup {t}
                                            ELSE At("second") \ {t}
<1>1. \A u \in Threads : place'[u] = IF u = t THEN p ELSE place[u]
  BY DEF TypeOK
<1> QED BY <1>1 DEF At

\* A thread is at exactly the place its entry names, and every thread somewhere.
LEMMA SomewhereElse ==
  ASSUME TypeOK, NEW t \in Threads
  PROVE  /\ t \in At(place[t])
         /\ \A q : q # place[t] => t \notin At(q)
         /\ place[t] \in {"outside", "first", "second"}
         /\ Threads = At("outside") \cup At("first") \cup At("second")
BY DEF At, TypeOK

\* Adding to or taking from the threads at a place changes their number by one.
LEMMA PlaceCount ==
  ASSUME TypeOK, NEW p, NEW t
  PROVE  /\ t \notin At(p) => Cardinality(At(p) \cup {t}) = Cardinality(At(p)) + 1
         /\ t \in At(p) => Cardinality(At(p) \ {t}) = Cardinality(At(p)) - 1
         /\ t \notin At(p) => At(p) \ {t} = At(p)
         /\ t \in At(p) => At(p) \cup {t} = At(p)
<1>1. IsFiniteSet(At(p))
  BY PlaceFinite
<1> QED BY <1>1, FS_AddElement, FS_RemoveElement

\* A call of barrier_wait (barrier.c:37-58) keeps the invariant.
LEMMA EnterStep ==
  ASSUME BarrierInv, NEW t \in Threads, Enter(t)
  PROVE  BarrierInv'
<1> USE DEF BarrierInv
<1>1. /\ t \in At("outside") /\ t \notin At("first") /\ t \notin At("second")
      /\ place[t] = "outside"
  BY SomewhereElse DEF Enter
<1>2. Gathering /\ times_used \in Nat
  BY <1>1, PlaceFinite DEF PhasesAgree, Releasing, Gathering
<1>3. arrived' = [arrived EXCEPT ![t] = @ + 1] /\ arrived \in [Threads -> Nat]
      /\ left \in [Threads -> Nat]
  BY DEF Enter, TypeOK
<1>4. CASE times_used + 1 # n_threads
  <2>1. /\ times_used' = times_used + 1
        /\ place' = [place EXCEPT ![t] = "first"]
        /\ asleep' = asleep \cup {t}
        /\ count' = count /\ left' = left
    BY <1>4 DEF Enter, Sleep
  <2>2. /\ At("first")' = At("first") \cup {t} /\ At("second")' = At("second")
        /\ Cardinality(At("first")') = Cardinality(At("first")) + 1
    <3>1. At("first")' = At("first") \cup {t} /\ At("second")' = At("second") \ {t}
      BY <2>1, Moved
    <3> QED BY <1>1, <3>1, PlaceCount
  <2>3. TypeOK'
    BY <1>2, <1>3, <1>4, <2>1, <2>2, ThreadCount DEF TypeOK, Gathering, n_threads
  <2>4. Gathering'
    <3>1. \A u, v \in Threads :
            arrived'[u] - (IF place'[u] = "first" THEN 1 ELSE 0)
              = arrived'[v] - (IF place'[v] = "first" THEN 1 ELSE 0)
      <4>1. \A u \in Threads :
              arrived'[u] - (IF place'[u] = "first" THEN 1 ELSE 0)
                = arrived[u] - (IF place[u] = "first" THEN 1 ELSE 0)
        BY <1>1, <1>3, <2>1 DEF TypeOK
      <4> QED BY <1>2, <4>1 DEF Gathering
    <3> QED BY <1>2, <1>4, <2>1, <2>2, <3>1, ThreadCount DEF Gathering, n_threads
  <2>5. PhasesAgree'
    BY <1>1, <1>3, <2>1, <2>4 DEF PhasesAgree, TypeOK
  <2>6. NoLostWakeup'
    BY <1>1, <1>2, <2>1, <2>2 DEF NoLostWakeup, n_threads
  <2> QED BY <2>3, <2>5, <2>6
<1>5. CASE times_used + 1 = n_threads
  <2>1. /\ times_used' = 0 /\ count' = 1
        /\ SecondPhase(t, 0, {})
    BY <1>5 DEF Enter, SecondPhase
  <2>2. At("first") = Threads \ {t}
    <3>1. Cardinality(Threads \ {t}) = Cardinality(At("first"))
      <4>1. Cardinality(Threads \ {t}) = Cardinality(Threads) - 1
        BY FS_RemoveElement
      <4> QED BY <1>2, <1>5, <4>1, ThreadCount DEF Gathering, n_threads
    <3>2. At("first") \subseteq Threads \ {t}
      BY <1>1, PlaceFinite
    <3>3. IsFiniteSet(Threads \ {t})
      BY FS_RemoveElement
    <3> QED BY <3>1, <3>2, <3>3, FS_Subset
  <2>3. At("outside") = {t} /\ At("second") = {}
    BY <1>1, <2>2 DEF At
  <2>4. \A u \in Threads \ {t} : arrived[u] = arrived[t] + 1
    <3>1. \A u \in Threads \ {t} : place[u] = "first"
      BY <2>2 DEF At
    <3> QED BY <1>1, <1>2, <1>3, <3>1 DEF Gathering
  <2>5. CASE n_threads = 1
    <3>1. /\ place' = [place EXCEPT ![t] = "outside"]
          /\ left' = [left EXCEPT ![t] = @ + 1]
          /\ asleep' = {}
      BY <2>1, <2>5 DEF SecondPhase, Return, n_threads
    <3>2. Threads = {t}
      BY <2>2, <2>5, FS_Singleton DEF n_threads
    <3>3. At("first")' = {} /\ At("second")' = {} /\ Cardinality(At("first")') = 0
      <4>1. At("first")' = At("first") \ {t} /\ At("second")' = At("second") \ {t}
        BY <3>1, Moved
      <4> QED BY <2>2, <2>3, <3>2, <4>1, FS_EmptySet
    <3>4. TypeOK'
      BY <1>3, <2>1, <2>5, <3>1 DEF TypeOK, n_threads
    <3>5. Gathering'
      BY <2>1, <2>5, <3>2, <3>3, <1>3 DEF Gathering, n_threads
    <3>6. PhasesAgree'
      BY <1>1, <1>3, <3>1, <3>2, <3>5 DEF PhasesAgree, TypeOK
    <3> QED BY <3>1, <3>4, <3>6 DEF NoLostWakeup
  <2>6. CASE n_threads # 1
    <3>1. /\ place' = [place EXCEPT ![t] = "second"]
          /\ asleep' = {t} /\ left' = left
      BY <2>1, <2>6 DEF SecondPhase, n_threads
    <3>2. /\ At("first")' = Threads \ {t} /\ At("second")' = {t}
          /\ At("outside")' = {}
      <4>1. /\ At("first")' = At("first") \ {t}
            /\ At("second")' = At("second") \cup {t}
            /\ At("outside")' = At("outside") \ {t}
        BY <3>1, Moved
      <4> QED BY <2>2, <2>3, <4>1
    <3>3. Threads \ {t} # {}
      BY <2>6, FS_Singleton DEF n_threads
    <3>4. TypeOK'
      BY <1>3, <2>1, <3>1, <3>2, ThreadCount DEF TypeOK, n_threads
    <3>5. Releasing'
      BY <1>3, <2>1, <2>4, <3>2, <3>3, FS_Singleton DEF Releasing
    <3>6. PhasesAgree'
      BY <1>1, <1>3, <3>1, <3>5 DEF PhasesAgree, TypeOK
    <3>7. NoLostWakeup'
      BY <2>1, <2>6, <3>1, <3>2 DEF NoLostWakeup, n_threads
    <3> QED BY <3>4, <3>6, <3>7
  <2> QED BY <2>5, <2>6
<1> QED BY <1>4, <1>5

\* A wakeup in the first wait (barrier.c:49-62) keeps it.
LEMMA FirstAgainStep ==
  ASSUME BarrierInv, NEW t \in Threads, FirstAgain(t)
  PROVE  BarrierInv'
<1> USE DEF BarrierInv
<1>1. /\ t \in At("first") /\ t \notin At("outside") /\ t \notin At("second")
      /\ place[t] = "first" /\ t \notin asleep
  BY SomewhereElse DEF FirstAgain
<1>2. /\ times_used' = times_used /\ arrived' = arrived
      /\ arrived \in [Threads -> Nat] /\ left \in [Threads -> Nat]
  BY DEF FirstAgain, TypeOK
<1>3. CASE times_used # 0
  <2>1. /\ place' = place /\ asleep' = asleep \cup {t}
        /\ count' = count /\ left' = left
    <3>1. [place EXCEPT ![t] = "first"] = place
      BY <1>1 DEF TypeOK
    <3> QED BY <1>3, <3>1 DEF FirstAgain, Sleep
  <2>2. \A p : At(p)' = At(p)
    BY <2>1 DEF At
  <2>3. TypeOK'
    BY <1>1, <1>2, <2>1, <2>2 DEF TypeOK, n_threads
  <2>4. PhasesAgree'
    BY <1>2, <2>1, <2>2 DEF PhasesAgree, Gathering, Releasing, n_threads
  <2>5. NoLostWakeup'
    BY <1>1, <1>2, <1>3, <2>1, <2>2 DEF NoLostWakeup, n_threads
  <2> QED BY <2>3, <2>4, <2>5
<1>4. CASE times_used = 0
  <2>1. Releasing /\ SecondPhase(t, count, asleep) /\ count' = count + 1
    <3>1. Cardinality(At("first")) # 0
      BY <1>1, PlaceFinite, FS_EmptySet
    <3> QED BY <1>4, <3>1 DEF PhasesAgree, Gathering, FirstAgain, SecondPhase
  <2>2. Cardinality(At("second") \cup {t}) = count + 1 /\ count \in Nat
    BY <1>1, <2>1, PlaceCount, PlaceFinite DEF Releasing
  <2>3. CASE count + 1 = n_threads
    <3>1. /\ place' = [place EXCEPT ![t] = "outside"]
          /\ left' = [left EXCEPT ![t] = @ + 1]
          /\ asleep' = {}
      BY <2>1, <2>3 DEF SecondPhase, Return, n_threads
    <3>2. At("second") \cup {t} = Threads
      <4>1. At("second") \cup {t} \subseteq Threads
        BY PlaceFinite
      <4> QED BY <2>2, <2>3, <4>1, FS_Subset DEF n_threads
    <3>3. At("first") = {t}
      BY <1>1, <3>2 DEF At
    <3>4. At("first")' = {} /\ At("second")' = At("second") \ {t}
      BY <3>1, <3>3, Moved
    <3>5. Cardinality(At("first")') = 0
      BY <3>4, FS_EmptySet
    <3>6. TypeOK'
      BY <1>2, <2>1, <2>3, <3>1, ThreadCount DEF TypeOK, n_threads
    <3>7. \A u \in Threads : place'[u] # "first"
      BY <3>4 DEF At
    <3>8. Gathering'
      BY <1>2, <1>4, <2>1, <2>3, <3>5, <3>7, ThreadCount
         DEF Gathering, Releasing, n_threads
    <3>9. PhasesAgree'
      BY <1>1, <1>2, <3>1, <3>8 DEF PhasesAgree, TypeOK
    <3> QED BY <3>1, <3>6, <3>9 DEF NoLostWakeup
  <2>4. CASE count + 1 # n_threads
    <3>1. /\ place' = [place EXCEPT ![t] = "second"]
          /\ asleep' = asleep \cup {t} /\ left' = left
      BY <2>1, <2>4 DEF SecondPhase, n_threads
    <3>2. /\ At("first")' = At("first") \ {t}
          /\ At("second")' = At("second") \cup {t}
          /\ At("outside")' = {}
      <4>1. At("outside")' = At("outside") \ {t}
        BY <3>1, Moved
      <4> QED BY <2>1, <3>1, <4>1, Moved DEF Releasing
    <3>3. At("first") \ {t} # {}
      <4>1. Threads # At("second") \cup {t}
        BY <2>2, <2>4 DEF n_threads
      <4>2. Threads = At("first") \cup At("second")
        BY <2>1, SomewhereElse DEF Releasing
      <4> QED BY <1>1, <4>1, <4>2
    <3>4. count + 1 < n_threads
      <4>1. At("second") \cup {t} \subseteq Threads
        BY PlaceFinite
      <4>2. Cardinality(At("second") \cup {t}) <= n_threads
        BY <4>1, FS_Subset DEF n_threads
      <4> QED BY <2>2, <2>4, <4>2, ThreadCount
    <3>5. TypeOK'
      <4>1. asleep' \subseteq At("first")' \cup At("second")'
        BY <3>1, <3>2 DEF TypeOK
      <4>2. /\ times_used' \in 0..n_threads /\ count' \in 0..n_threads
            /\ place' \in [Threads -> {"outside", "first", "second"}]
            /\ arrived' \in [Threads -> Nat] /\ left' \in [Threads -> Nat]
        BY <1>2, <2>1, <2>2, <3>1, <3>4, ThreadCount DEF TypeOK
      <4> QED BY <4>1, <4>2 DEF TypeOK, n_threads
    <3>6. Releasing'
      BY <1>2, <1>4, <2>1, <2>2, <3>2, <3>3 DEF Releasing
    <3>7. PhasesAgree'
      BY <1>1, <1>2, <3>1, <3>6 DEF PhasesAgree, TypeOK
    <3>8. NoLostWakeup'
      BY <1>4, <2>1, <2>2, <3>1, <3>2, <3>4, ThreadCount DEF NoLostWakeup, n_threads
    <3> QED BY <3>5, <3>7, <3>8
  <2> QED BY <2>3, <2>4
<1> QED BY <1>3, <1>4

\* A wakeup in the second wait (barrier.c:58-65) keeps it.
LEMMA SecondAgainStep ==
  ASSUME BarrierInv, NEW t \in Threads, SecondAgain(t)
  PROVE  BarrierInv'
<1> USE DEF BarrierInv
<1>1. /\ t \in At("second") /\ t \notin At("outside") /\ t \notin At("first")
      /\ place[t] = "second" /\ t \notin asleep
  BY SomewhereElse DEF SecondAgain
<1>2. /\ times_used' = times_used /\ arrived' = arrived /\ count' = count
      /\ arrived \in [Threads -> Nat] /\ left \in [Threads -> Nat]
  BY DEF SecondAgain, TypeOK
<1>3. CASE count # n_threads
  <2>1. place' = place /\ asleep' = asleep \cup {t} /\ left' = left
    <3>1. [place EXCEPT ![t] = "second"] = place
      BY <1>1 DEF TypeOK
    <3> QED BY <1>3, <3>1 DEF SecondAgain, Sleep
  <2>2. \A p : At(p)' = At(p)
    BY <2>1 DEF At
  <2>3. TypeOK'
    BY <1>1, <1>2, <2>1, <2>2 DEF TypeOK, n_threads
  <2>4. PhasesAgree'
    BY <1>2, <2>1, <2>2 DEF PhasesAgree, Gathering, Releasing, n_threads
  <2>5. NoLostWakeup'
    BY <1>1, <1>2, <1>3, <2>1, <2>2 DEF NoLostWakeup, n_threads
  <2> QED BY <2>3, <2>4, <2>5
<1>4. CASE count = n_threads
  <2>1. /\ place' = [place EXCEPT ![t] = "outside"]
        /\ left' = [left EXCEPT ![t] = @ + 1] /\ asleep' = asleep
    BY <1>4 DEF SecondAgain, Return
  <2>2. At("first")' = At("first") /\ At("second")' = At("second") \ {t}
    <3>1. At("first")' = At("first") \ {t} /\ At("second")' = At("second") \ {t}
      BY <2>1, Moved
    <3> QED BY <1>1, <3>1
  <2>3. Gathering
    <3>1. Cardinality(At("second")) = n_threads => At("second") = Threads
      BY PlaceFinite
    <3>2. At("first") # {} => At("second") # Threads
      BY DEF At
    <3> QED BY <1>4, <3>1, <3>2 DEF PhasesAgree, Releasing
  <2>4. TypeOK'
    BY <1>1, <1>2, <2>1, <2>2 DEF TypeOK, n_threads
  <2>5. Gathering'
    <3>1. \A u \in Threads : (place'[u] = "first") = (place[u] = "first")
      BY <1>1, <2>1 DEF TypeOK
    <3> QED BY <1>2, <1>4, <2>2, <2>3, <3>1 DEF Gathering, n_threads
  <2>6. PhasesAgree'
    BY <1>1, <1>2, <2>1, <2>5 DEF PhasesAgree, TypeOK
  <2>7. NoLostWakeup'
    BY <1>2, <2>1, <2>2 DEF NoLostWakeup, n_threads
  <2> QED BY <2>4, <2>6, <2>7
<1> QED BY <1>3, <1>4

\* Every step keeps the invariant.
LEMMA BarrierStep == BarrierInv /\ [Next]_vars => BarrierInv'
<1> SUFFICES ASSUME BarrierInv, [Next]_vars PROVE BarrierInv'
  OBVIOUS
<1>1. ASSUME UNCHANGED <<times_used, count, place, arrived, left>>,
             asleep' \subseteq asleep
      PROVE  BarrierInv'
  <2>1. \A p : At(p)' = At(p)
    BY <1>1 DEF At
  <2> QED BY <1>1, <2>1 DEF BarrierInv, TypeOK, PhasesAgree, NoLostWakeup,
                            Gathering, Releasing, n_threads
<1>2. ASSUME NEW t \in Threads, SpuriousWakeup(t) PROVE BarrierInv'
  BY <1>1, <1>2 DEF SpuriousWakeup
<1>3. ASSUME UNCHANGED vars PROVE BarrierInv'
  BY <1>1, <1>3 DEF vars
<1> QED BY <1>2, <1>3, EnterStep, FirstAgainStep, SecondAgainStep DEF Next

\* Whoever sleeps in barrier_wait has something to wait for, whatever the
\* number of threads and rounds and however they interleave (barrier.c:42-65).
THEOREM NoWakeupLost == Spec => []NoLostWakeup
<1>1. BarrierInv => NoLostWakeup
  BY DEF BarrierInv
<1> QED BY <1>1, BarrierInit, BarrierStep, PTL DEF Spec

\* times_used, count and the threads' places agree (barrier.c:42-65).
THEOREM CountersCorrect == Spec => [](TypeOK /\ PhasesAgree)
<1>1. BarrierInv => TypeOK /\ PhasesAgree
  BY DEF BarrierInv
<1> QED BY <1>1, BarrierInit, BarrierStep, PTL DEF Spec

-----------------------------------------------------------------------------
\* Every step is one of the abstract barrier or changes nothing it sees.
LEMMA PromiseStep ==
  BarrierInv /\ [Next]_vars => [Promise!Next]_(Promise!promiseVars)
<1> SUFFICES ASSUME BarrierInv, [Next]_vars
             PROVE  [Promise!Next]_(Promise!promiseVars)
  OBVIOUS
<1> USE DEF BarrierInv, Promise!promiseVars
<1>1. /\ arrived \in [Threads -> Nat] /\ left \in [Threads -> Nat]
      /\ \A t \in Threads :
           arrived[t] = left[t] + (IF place[t] = "outside" THEN 0 ELSE 1)
  BY DEF TypeOK, PhasesAgree
<1>2. ASSUME NEW t \in Threads, Enter(t) PROVE Promise!Next
  <2>1. Promise!Arrive(t)
    BY <1>1, <1>2 DEF Enter, Promise!Arrive
  <2>2. CASE left' = left
    BY <2>1, <2>2 DEF Promise!Next
  <2>3. CASE left' # left
    <3>1. times_used + 1 = n_threads /\ 1 = n_threads
      BY <1>2, <2>3 DEF Enter, SecondPhase, n_threads
    <3>2. Threads = {t} /\ left' = [left EXCEPT ![t] = @ + 1]
      BY <1>2, <2>3, <3>1, FS_Singleton DEF Enter, SecondPhase, Return, n_threads
    <3>3. Promise!Leave(t)
      BY <1>1, <2>1, <3>2 DEF Promise!Leave, Promise!Arrive
    <3> QED BY <2>1, <3>3 DEF Promise!Next
  <2> QED BY <2>2, <2>3
<1>3. ASSUME NEW t \in Threads, FirstAgain(t), left' # left PROVE Promise!Next
  <2>1. /\ times_used = 0 /\ left' = [left EXCEPT ![t] = @ + 1]
        /\ arrived' = arrived /\ place[t] = "first"
    BY <1>3 DEF FirstAgain, SecondPhase, Return
  <2>2. Releasing
    <3>1. t \in At("first") => Cardinality(At("first")) # 0
      BY PlaceFinite, FS_EmptySet
    <3>2. t \in At("first")
      BY <2>1 DEF At
    <3> QED BY <2>1, <3>1, <3>2 DEF PhasesAgree, Gathering
  <2>3. Promise!Leave(t)
    BY <1>1, <2>1, <2>2 DEF Releasing, Promise!Leave
  <2> QED BY <2>1, <2>3 DEF Promise!Next
<1>4. ASSUME NEW t \in Threads, SecondAgain(t), left' # left PROVE Promise!Next
  <2>1. /\ count = n_threads /\ left' = [left EXCEPT ![t] = @ + 1]
        /\ arrived' = arrived /\ place[t] = "second"
    BY <1>4 DEF SecondAgain, Return
  <2>2. Gathering
    <3>1. Cardinality(At("second")) = n_threads => At("second") = Threads
      BY PlaceFinite
    <3>2. At("first") # {} => At("second") # Threads
      BY DEF At
    <3> QED BY <2>1, <3>1, <3>2 DEF PhasesAgree, Releasing
  <2>3. \A u \in Threads : arrived[u] >= arrived[t]
    BY <1>1, <2>1, <2>2 DEF Gathering
  <2>4. Promise!Leave(t)
    BY <1>1, <2>1, <2>3 DEF Promise!Leave
  <2> QED BY <2>1, <2>4 DEF Promise!Next
<1>5. ASSUME NEW t \in Threads,
             FirstAgain(t) \/ SecondAgain(t) \/ SpuriousWakeup(t), left' = left
      PROVE  UNCHANGED <<arrived, left>>
  BY <1>5 DEF FirstAgain, SecondAgain, SpuriousWakeup
<1>6. ASSUME UNCHANGED vars PROVE UNCHANGED <<arrived, left>>
  BY <1>6 DEF vars
<1>7. CASE Next
  <2>1. PICK t \in Threads :
          Enter(t) \/ FirstAgain(t) \/ SecondAgain(t) \/ SpuriousWakeup(t)
    BY <1>7 DEF Next
  <2>2. CASE Enter(t) \/ left' = left
    BY <1>2, <1>5, <2>1, <2>2
  <2>3. CASE left' # left /\ ~Enter(t)
    <3>1. ~SpuriousWakeup(t)
      BY <2>3 DEF SpuriousWakeup
    <3> QED BY <1>3, <1>4, <2>1, <2>3, <3>1
  <2> QED BY <2>2, <2>3
<1> QED BY <1>6, <1>7

\* barrier_wait implements the abstract barrier: nobody returns from a round
\* before everybody has called for it (barrier.c:37-67).
THEOREM BarrierImplementsPromise == Spec => ImplementsBarrier
<1>1. Init => Promise!Init
  BY DEF Init, Promise!Init
<1> QED BY <1>1, BarrierInit, BarrierStep, PromiseStep, PTL
        DEF Spec, ImplementsBarrier, Promise!Spec
=============================================================================
