--------------------------- MODULE SemamoreProofs ---------------------------
(***************************************************************************)
(* Proofs about Semamore: the mutex belongs to whom the code thinks, for   *)
(* any threads, and one waiter and one poster keep the value in its range, *)
(* whatever their races.                                                   *)
(***************************************************************************)
EXTENDS Semamore, TLAPS

\* One step of one thread keeps the types and the ownership of the mutex.
LEMMA TypeStep == TypeOK /\ [Next]_vars => TypeOK'
<1> SUFFICES ASSUME TypeOK, [Next]_vars PROVE TypeOK'
  OBVIOUS
<1> USE SemamoreAssumption
<1>1. CASE UNCHANGED vars
  BY <1>1 DEF vars, TypeOK
<1>2. ASSUME NEW t \in Threads, Step(t) PROVE TypeOK'
  <2>1. Blocks(t) \in Int
    BY DEF Blocks
  <2>2. CASE Call(t)
    BY <2>1, <2>2 DEF TypeOK, Call, Goto, Threads
  <2>3. CASE Lock(t)
    BY <2>3 DEF TypeOK, Lock, Goto, Threads
  <2>4. CASE Spin(t)
    BY <2>1, <2>4 DEF TypeOK, Spin, Goto, Threads
  <2>5. CASE Load(t)
    BY <2>5 DEF TypeOK, Load, Goto, Threads
  <2>6. CASE Store(t)
    BY <2>6 DEF TypeOK, Store, Unlock, Goto, Threads
  <2> QED BY <1>2, <2>2, <2>3, <2>4, <2>5, <2>6 DEF Step
<1> QED BY <1>1, <1>2 DEF Next

\* Types; who spins holds the mutex, and nobody holds it outside semm_wait and
\* semm_post, for any numbers of waiters and posters (semamore.c:43-54, :65-78).
THEOREM TypeCorrect == Spec => []TypeOK
<1>1. Init => TypeOK
  BY SemamoreAssumption DEF Init, TypeOK, Threads
<1> QED BY <1>1, TypeStep, PTL DEF Spec

-----------------------------------------------------------------------------
\* What a test that let w through still says when w updates: only w lowers the
\* value, so it stays above 0 until w has read it, and what w has read is what
\* w needs, however old it is.  The same of p and max_val.
PairInv(w, p) ==
    /\ InRange
    /\ pc[w] = "load" => value # 0
    /\ pc[w] = "store" => loaded[w] \in 1..max_val
    /\ pc[p] = "load" => value # max_val
    /\ pc[p] = "store" => loaded[p] \in 0..(max_val - 1)

\* With one thread on each side the value never leaves its range, although the
\* tests and the updates are not atomic (semamore.c:44-52, :66-75).
THEOREM PairInRange ==
    ASSUME NEW w, NEW p, Waiters = {w}, Posters = {p}
    PROVE  Spec => []InRange
<1> USE SemamoreAssumption
<1>1. Threads = {w, p} /\ w # p
  BY DEF Threads
<1>2. Init => PairInv(w, p)
  BY <1>1 DEF Init, PairInv, InRange
<1>3. TypeOK /\ PairInv(w, p) /\ [Next]_vars => PairInv(w, p)'
  <2> SUFFICES ASSUME TypeOK, PairInv(w, p), [Next]_vars PROVE PairInv(w, p)'
    OBVIOUS
  <2>1. CASE UNCHANGED vars
    BY <2>1 DEF vars, PairInv, InRange
  <2>2. CASE Step(w)
    <3>1. Blocks(w) = 0
      BY DEF Blocks
    <3>2. CASE Call(w)
      BY <1>1, <3>1, <3>2 DEF PairInv, InRange, TypeOK, Call, Goto
    <3>3. CASE Lock(w)
      BY <1>1, <3>3 DEF PairInv, InRange, TypeOK, Lock, Goto
    <3>4. CASE Spin(w)
      BY <1>1, <3>1, <3>4 DEF PairInv, InRange, TypeOK, Spin, Goto
    <3>5. CASE Load(w)
      BY <1>1, <3>5 DEF PairInv, InRange, TypeOK, Load, Goto
    <3>6. CASE Store(w)
      BY <1>1, <3>6 DEF PairInv, InRange, TypeOK, Store, Goto
    <3> QED BY <2>2, <3>2, <3>3, <3>4, <3>5, <3>6 DEF Step
  <2>3. CASE Step(p)
    <3>1. Blocks(p) = max_val /\ p \notin Waiters
      BY <1>1 DEF Blocks
    <3>2. CASE Call(p)
      BY <1>1, <3>1, <3>2 DEF PairInv, InRange, TypeOK, Call, Goto
    <3>3. CASE Lock(p)
      BY <1>1, <3>3 DEF PairInv, InRange, TypeOK, Lock, Goto
    <3>4. CASE Spin(p)
      BY <1>1, <3>1, <3>4 DEF PairInv, InRange, TypeOK, Spin, Goto
    <3>5. CASE Load(p)
      BY <1>1, <3>5 DEF PairInv, InRange, TypeOK, Load, Goto
    <3>6. CASE Store(p)
      BY <1>1, <3>1, <3>6 DEF PairInv, InRange, TypeOK, Store, Goto
    <3> QED BY <2>3, <3>2, <3>3, <3>4, <3>5, <3>6 DEF Step
  <2> QED BY <1>1, <2>1, <2>2, <2>3 DEF Next
<1>4. PairInv(w, p) => InRange
  BY DEF PairInv
<1> QED BY <1>2, <1>3, <1>4, TypeCorrect, PTL DEF Spec
=============================================================================
