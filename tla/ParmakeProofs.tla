--------------------------- MODULE ParmakeProofs ----------------------------
(***************************************************************************)
(* Proofs about Parmake, for any rules, graphs, targets and workers whose  *)
(* waitlists are ordered as WaitlistAssumption says, and, from IsGraph on, *)
(* about MakeTargets, for any rules, graphs, targets, files and outcomes   *)
(* of the commands; the last theorem says that MakeTargets makes the       *)
(* waitlists that Parmake assumes.                                         *)
(***************************************************************************)
EXTENDS Parmake, MakeTargets, FiniteSetTheorems, WellFoundedInduction, TLAPS

\* Every nonempty set of naturals has a least element.
LEMMA LeastNumber ==
  ASSUME NEW T \in SUBSET Nat, T # {}
  PROVE  \E x \in T : \A y \in T : x <= y
<1>1. PICK x \in T : \A y \in T : ~ (<<y, x>> \in OpToRel(<, Nat))
  BY NatLessThanWellFounded, WFMin
<1>2. \A y \in T : x \in Nat /\ y \in Nat
  OBVIOUS
<1>3. \A y \in T : ~ (y < x)
  BY <1>1, <1>2, Zenon DEF OpToRel
<1> QED BY <1>2, <1>3

USE ParmakeAssumption

\* queue_mtx is held exactly from a worker's test to its wait or decrement.
LockHeld == \A w \in Workers : at[w] \in {"drowsy", "take"} <=> queue_mtx = w

\* What main is doing fits its waitlist and its target.
MainInPlace ==
    /\ mainAt \in {"load", "store", "push"} <=> todo # <<>>
    /\ mainAt \in {"load", "store", "push", "wake", "check", "nap", "asleep"}
         => current <= Len(targets)

Places == {"look", "drowsy", "dozing", "take", "pull", "stat",
           "child", "nap", "asleep", "run", "exited"}

ControlInv == TypeOK /\ LockHeld /\ NeverWraps /\ MainInPlace

\* The rules queued so far include their dependencies.
Closed == Complete(graph, all_rules)

\* The state parmake starts with satisfies both.
LEMMA ControlInit == Init => ControlInv /\ Closed
<1> SUFFICES ASSUME Init PROVE ControlInv /\ Closed
  OBVIOUS
<1>1. targets \in Seq(Rules) /\ mtime \in [Rules -> Nat] /\ Len(targets) \in Nat
  BY DEF Init
<1>2. \A w \in Workers : at[w] = "look" /\ rule[w] = NoRule
  BY DEF Init
<1>3. TypeOK
  <2>1. /\ at \in [Workers -> {"look"}] /\ rule \in [Workers -> {NoRule}]
        /\ seen \in [Workers -> Nat] /\ must \in [Workers -> BOOLEAN]
        /\ next \in [Workers -> Nat]
    BY DEF Init
  <2>2. todo \in Seq(Rules) /\ waiting_rules \in Seq(Rules)
    BY DEF Init
  <2>3. mtime \in [Rules -> Nat] /\ clock \in Nat /\ Len(targets) \in Nat
    BY <1>1 DEF Init
  <2>4. /\ at \in [Workers -> {"look", "drowsy", "dozing", "take", "pull", "stat",
                               "child", "nap", "asleep", "run", "exited"}]
        /\ rule \in [Workers -> Rules \cup {NoRule}]
    BY <2>1
  <2>5. \A w \in Workers : ~Holding(w) /\ at[w] \notin {"child", "nap", "asleep"}
    BY <1>2 DEF Holding
  <2>6. current \in 1..(Len(targets) + 1) /\ loaded \in Nat /\ queue_size \in Nat
    BY <2>3 DEF Init
  <2> QED BY <2>1, <2>2, <2>3, <2>4, <2>5, <2>6 DEF Init, TypeOK, CoreTypes, WorkersFit
<1> QED BY <1>2, <1>3 DEF Init, ControlInv, LockHeld, NeverWraps, MainInPlace, Closed, Complete

\* A waitlist has its target, and brings along the dependencies of all it queues.
LEMMA PlanCloses ==
  ASSUME ControlInv, Closed, Plan
  PROVE  /\ todo' \in Seq(Rules) /\ todo' # <<>>
         /\ all_rules' \subseteq Rules
         /\ Closed'
         /\ \A i \in 1..Len(todo') : \A c \in Dependencies(graph, todo'[i]) :
              c \in all_rules \/ \E j \in 1..(i - 1) : todo'[j] = c
         /\ all_rules' = all_rules \cup {todo'[i] : i \in 1..Len(todo')}
         /\ targets[current] \in all_rules'
<1>1. targets \in Seq(Rules) /\ current \in 1..Len(targets) /\ graph \in Graphs
      /\ all_rules \in SUBSET Rules
  BY DEF ControlInv, TypeOK, CoreTypes, Plan
<1>2. targets[current] \in Rules
  BY <1>1
<1>3. ~ContainsCycle(graph, targets[current])
      /\ todo' = Waitlist(graph, all_rules, targets[current]) /\ graph' = graph
      /\ all_rules' = all_rules \cup {todo'[i] : i \in DOMAIN todo'}
  BY DEF Plan, inputVars
<1>4. /\ todo' \in Seq(Rules) /\ todo' # <<>>
      /\ \A i \in 1..Len(todo') : \A c \in Dependencies(graph, todo'[i]) :
           c \in all_rules \/ \E j \in 1..(i - 1) : todo'[j] = c
      /\ \E i \in 1..Len(todo') : todo'[i] = targets[current]
  <2>1. IsWaitlist(graph, all_rules, targets[current], todo')
    BY <1>1, <1>2, <1>3, WaitlistAssumption DEF Closed
  <2> QED BY <2>1 DEF IsWaitlist
<1>5. DOMAIN todo' = 1..Len(todo')
  BY <1>4
<1>6. all_rules' = all_rules \cup {todo'[i] : i \in 1..Len(todo')}
  BY <1>3, <1>5
<1>7. all_rules' \subseteq Rules
  BY <1>1, <1>4, <1>6
<1>8. Closed'
  <2> SUFFICES ASSUME NEW a \in all_rules', NEW c \in Dependencies(graph, a)
               PROVE  c \in all_rules'
    BY <1>3 DEF Closed, Complete
  <2>1. CASE a \in all_rules
    BY <2>1, <1>6 DEF Closed, Complete
  <2>2. CASE a \notin all_rules
    <3>1. PICK i \in 1..Len(todo') : a = todo'[i]
      BY <2>2, <1>6
    <3>2. c \in all_rules \/ \E j \in 1..(i - 1) : todo'[j] = c
      BY <1>4, <3>1
    <3>3. Len(todo') \in Nat
      BY <1>4
    <3> QED BY <3>2, <3>3, <1>6
  <2> QED BY <2>1, <2>2
<1> QED BY <1>4, <1>6, <1>7, <1>8

\* The steps of main (parmake.c:210-224, :353-405) keep both.
LEMMA MainControl == ControlInv /\ Closed /\ (MainStep \/ RootSpuriousWakeup) => ControlInv' /\ Closed'
<1> SUFFICES ASSUME ControlInv, Closed, MainStep \/ RootSpuriousWakeup
             PROVE  ControlInv' /\ Closed'
  OBVIOUS
<1> USE DEF ControlInv, TypeOK, CoreTypes, WorkersFit, LockHeld, NeverWraps, MainInPlace, Holding, inputVars, mainVars,
            queueVars, workerVars, verdictVars, fileVars
<1>1. CASE Skip
  <2>1. UNCHANGED <<graph, targets, mainAt, todo, loaded, all_rules, queueVars, workerVars,
                    verdictVars, fileVars>>
        /\ current' = current + 1 /\ mainAt = "target" /\ current <= Len(targets)
    BY <1>1 DEF Skip
  <2>2. current' \in 1..(Len(targets') + 1)
    BY <2>1
  <2>3. TypeOK'
    BY SMTT(30), <2>1, <2>2
  <2>4. LockHeld' /\ NeverWraps' /\ MainInPlace' /\ Closed'
    BY <2>1 DEF Closed, Complete
  <2> QED BY <2>3, <2>4
<1>2. CASE Plan
  <2>1. todo' \in Seq(Rules) /\ todo' # <<>> /\ all_rules' \subseteq Rules /\ Closed'
    BY <1>2, PlanCloses
  <2> QED BY <1>2, <2>1 DEF Plan
<1>3. CASE Load
  BY <1>3 DEF Load, Closed, Complete
<1>4. CASE Store
  <2>1. TypeOK'
    <3>1. /\ queue_size' = loaded + 1 /\ loaded' = 0 /\ mainAt' = "push"
          /\ UNCHANGED <<graph, targets, current, todo, all_rules, waiting_rules, queue_mtx,
                         job_done, workerVars, verdictVars, fileVars>>
      BY <1>4 DEF Store
    <3> QED BY SMTT(30), <3>1
  <2>2. LockHeld' /\ NeverWraps' /\ MainInPlace' /\ Closed'
    BY SMTT(30), <1>4 DEF Store, Closed, Complete
  <2> QED BY <2>1, <2>2
<1>5. CASE Push
  <2>1. todo # <<>> /\ Head(todo) \in Rules /\ Tail(todo) \in Seq(Rules)
    BY <1>5 DEF Push
  <2>2. waiting_rules' \in Seq(Rules) /\ todo' \in Seq(Rules)
    BY <1>5, <2>1 DEF Push
  <2>4. UNCHANGED <<graph, targets, current, loaded, all_rules, queue_size, queue_mtx,
                    job_done, workerVars, verdictVars, fileVars>>
        /\ mainAt' \in {"wake", "load"}
    BY <1>5 DEF Push
  <2>5. TypeOK'
    BY SMTT(30), <2>2, <2>4
  <2>3. LockHeld' /\ NeverWraps' /\ MainInPlace' /\ Closed'
    BY <1>5, <2>1 DEF Push, Closed, Complete
  <2> QED BY <2>3, <2>5
<1>6. CASE Wake
  BY <1>6 DEF Wake, WakeDozing, Closed, Complete
<1>7. CASE CheckRoot
  <2>1. TypeOK'
    BY SMTT(30), <1>7 DEF CheckRoot
  <2>2. LockHeld' /\ NeverWraps' /\ MainInPlace' /\ Closed'
    BY <1>7 DEF CheckRoot, Closed, Complete
  <2> QED BY <2>1, <2>2
<1>8. CASE RootNap
  BY <1>8 DEF RootNap, Closed, Complete
<1>9. CASE Finish
  BY <1>9 DEF Finish, WakeDozing, Closed, Complete
<1>10. CASE Join
  BY <1>10 DEF Join, Closed, Complete
<1>11. CASE RootSpuriousWakeup
  BY <1>11 DEF RootSpuriousWakeup, Closed, Complete
<1> QED BY <1>1, <1>2, <1>3, <1>4, <1>5, <1>6, <1>7, <1>8, <1>9, <1>10, <1>11 DEF MainStep

\* Rules stay in the hands of the workers that have them, at the same child.
LEMMA FitStays ==
  ASSUME WorkersFit, graph' = graph,
         \A u \in Workers : Holding(u)' => Holding(u) /\ rule'[u] = rule[u],
         \A u \in Workers : at'[u] \in {"child", "nap", "asleep"}
           => at[u] \in {"child", "nap", "asleep"} /\ next'[u] = next[u]
  PROVE  WorkersFit'
<1> HIDE ParmakeAssumption
<1> SUFFICES ASSUME NEW u \in Workers
             PROVE  /\ Holding(u)' => rule'[u] \in Rules
                    /\ at'[u] \in {"child", "nap", "asleep"}
                         => next'[u] \in DOMAIN graph[rule'[u]]
  BY DEF WorkersFit
<1>1. Holding(u)' => rule'[u] \in Rules
  BY DEF WorkersFit
<1>2. at'[u] \in {"child", "nap", "asleep"} => Holding(u)'
  BY DEF Holding
<1>3. ASSUME at'[u] \in {"child", "nap", "asleep"}
      PROVE  next'[u] \in DOMAIN graph[rule'[u]]
  <2>1. rule'[u] = rule[u] /\ next'[u] = next[u] /\ at[u] \in {"child", "nap", "asleep"}
    BY <1>2, <1>3
  <2>2. next[u] \in DOMAIN graph[rule[u]]
    BY <2>1 DEF WorkersFit
  <2> QED BY <2>1, <2>2
<1> QED BY <1>1, <1>3

\* Nobody takes or releases queue_mtx, and main is where it was or woken.
LEMMA LockStays ==
  ASSUME LockHeld, NeverWraps, MainInPlace,
         UNCHANGED <<queue_mtx, queue_size, seen, todo, current, targets>>,
         mainAt' = mainAt \/ (mainAt = "asleep" /\ mainAt' = "check"),
         \A u \in Workers : /\ at'[u] = "take" <=> at[u] = "take"
                            /\ at'[u] = "drowsy" <=> at[u] = "drowsy"
  PROVE  LockHeld' /\ NeverWraps' /\ MainInPlace'
<1>1. LockHeld'
  BY DEF LockHeld
<1>2. NeverWraps'
  BY DEF NeverWraps
<1>3. MainInPlace'
  BY DEF MainInPlace
<1> QED BY <1>1, <1>2, <1>3

\* The steps of the workers (parmake.c:227-326) keep both.
LEMMA WorkerControl ==
  ASSUME ControlInv, NEW w \in Workers, WorkerStep(w) \/ SpuriousWakeup(w)
  PROVE  ControlInv'
<1> USE DEF inputVars, mainVars, queueVars, workerVars, verdictVars, fileVars, Go
<1>a. /\ CoreTypes /\ WorkersFit /\ LockHeld /\ NeverWraps /\ MainInPlace
      /\ graph \in [Rules -> Seq(Rules)] /\ at \in [Workers -> Places]
      /\ next \in [Workers -> Nat] /\ seen \in [Workers -> Nat]
      /\ must \in [Workers -> BOOLEAN] /\ queue_size \in Nat
      /\ queue_mtx \in Workers \cup {NoWorker} /\ mtime \in [Rules -> Nat] /\ clock \in Nat
  BY DEF ControlInv, TypeOK, CoreTypes, Places
<1>1. CASE Look(w)
  <2>0. /\ at' \in [Workers -> Places] /\ seen' \in [Workers -> Nat]
        /\ queue_mtx' \in Workers \cup {NoWorker}
    <3>1. \E p \in Places : at' = [at EXCEPT ![w] = p]
      BY <1>1 DEF Look, Places
    <3> QED BY <1>a, <1>1, <3>1 DEF Look
  <2>1. CoreTypes'
    BY SMTT(30), <1>a, <1>1, <2>0 DEF Places, Look, CoreTypes, WorkersFit, Holding
  <2>2. WorkersFit'
    BY SMTT(30), <1>a, <1>1, <2>0 DEF Places, Look, CoreTypes, WorkersFit, Holding
  <2>3. LockHeld' /\ NeverWraps' /\ MainInPlace'
    <3>1. CASE at'[w] = "exited" /\ queue_mtx' = queue_mtx
      BY SMTT(30), <1>a, <1>1, <3>1 DEF Look, LockHeld, NeverWraps, MainInPlace
    <3>2. CASE at'[w] = "drowsy" /\ queue_mtx' = w
      BY SMTT(30), <1>a, <1>1, <3>2 DEF Look, LockHeld, NeverWraps, MainInPlace
    <3>3. CASE at'[w] = "take" /\ queue_mtx' = w
      <4>1. /\ queue_mtx = NoWorker /\ queue_size > 0
            /\ at' = [at EXCEPT ![w] = "take"] /\ seen' = [seen EXCEPT ![w] = queue_size]
            /\ UNCHANGED <<queue_size, mainAt, todo, current, targets>>
        BY <1>a, <1>1, <3>3 DEF Look
      <4>2. \A u \in Workers : at[u] \notin {"drowsy", "take"}
        BY <1>a, <4>1, ParmakeAssumption DEF LockHeld
      <4>3. LockHeld' /\ NeverWraps'
        BY <1>a, <3>3, <4>1, <4>2 DEF LockHeld, NeverWraps
      <4>4. MainInPlace'
        BY <1>a, <4>1 DEF MainInPlace
      <4> QED BY <4>3, <4>4
    <3> QED BY <1>a, <1>1, <3>1, <3>2, <3>3 DEF Look
  <2> QED BY <2>1, <2>2, <2>3 DEF ControlInv, TypeOK
<1>2. CASE Doze(w)
  <2>1. CoreTypes'
    BY SMTT(30), <1>a, <1>2 DEF Doze, CoreTypes, WorkersFit, Holding
  <2>2. WorkersFit'
    BY SMTT(30), <1>a, <1>2 DEF Doze, CoreTypes, WorkersFit, Holding
  <2>3. LockHeld' /\ NeverWraps' /\ MainInPlace'
    BY SMTT(30), <1>a, <1>2 DEF Doze, CoreTypes, LockHeld, NeverWraps, MainInPlace
  <2> QED BY <2>1, <2>2, <2>3 DEF ControlInv, TypeOK
<1>3. CASE Take(w)
  <2>0. /\ queue_size' \in Nat
        /\ \A u \in Workers : at[u] = "take" => u = w
    BY <1>a, <1>3 DEF Take, NeverWraps, LockHeld, CoreTypes
  <2>1. CoreTypes'
    BY SMTT(30), <1>a, <1>3, <2>0 DEF Take, CoreTypes, WorkersFit, Holding
  <2>2. WorkersFit'
    BY SMTT(30), <1>a, <1>3, <2>0 DEF Take, CoreTypes, WorkersFit, Holding
  <2>3. LockHeld' /\ NeverWraps' /\ MainInPlace'
    BY SMTT(30), <1>a, <1>3, <2>0 DEF Take, CoreTypes, LockHeld, NeverWraps, MainInPlace
  <2> QED BY <2>1, <2>2, <2>3 DEF ControlInv, TypeOK
<1>4. CASE Pull(w)
  <2>0. Head(waiting_rules) \in Rules /\ Tail(waiting_rules) \in Seq(Rules)
    BY <1>a, <1>4 DEF Pull, CoreTypes
  <2>1. CoreTypes'
    BY SMTT(30), <1>a, <1>4, <2>0 DEF Pull, CoreTypes, WorkersFit, Holding
  <2>2. WorkersFit'
    BY SMTT(30), <1>a, <1>4, <2>0 DEF Pull, CoreTypes, WorkersFit, Holding
  <2>3. LockHeld' /\ NeverWraps' /\ MainInPlace'
    BY SMTT(30), <1>a, <1>4, <2>0 DEF Pull, CoreTypes, LockHeld, NeverWraps, MainInPlace
  <2> QED BY <2>1, <2>2, <2>3 DEF ControlInv, TypeOK
<1>5. CASE Stat(w)
  <2>a. rule[w] \in Rules
    BY <1>a, <1>5 DEF Stat, WorkersFit, Holding
  <2>0. /\ MustRun(rule[w]) \in BOOLEAN
        /\ graph[rule[w]] # <<>> => 1 \in DOMAIN graph[rule[w]]
    BY <1>a, <2>a DEF MustRun
  <2>b. at' \in [Workers -> Places] /\ next' \in [Workers -> Nat] /\ must' \in [Workers -> BOOLEAN]
    <3>1. CASE graph[rule[w]] = <<>>
      <4>1. at' = [at EXCEPT ![w] = "run"] /\ next' = next
            /\ must' = [must EXCEPT ![w] = MustRun(rule[w])]
        BY <1>5, <3>1 DEF Stat
      <4> QED BY <1>a, <2>0, <4>1 DEF Places
    <3>2. CASE graph[rule[w]] # <<>>
      <4>1. at' = [at EXCEPT ![w] = "child"] /\ next' = [next EXCEPT ![w] = 1]
            /\ must' = [must EXCEPT ![w] = MustRun(rule[w])]
        BY <1>5, <3>2 DEF Stat
      <4> QED BY <1>a, <2>0, <4>1 DEF Places
    <3> QED BY <3>1, <3>2
  <2>1. CoreTypes'
    <3>1. UNCHANGED <<graph, targets, mainAt, current, todo, loaded, all_rules, queue_size,
                      waiting_rules, queue_mtx, job_done, rule, seen, successful_rules,
                      failed_rules, mtime, clock>>
      BY <1>5 DEF Stat
    <3> QED BY SMTT(30), <1>a, <2>b, <3>1 DEF CoreTypes, Places
  <2>2. WorkersFit'
    BY SMTT(30), <1>a, <1>5, <2>0 DEF Stat, CoreTypes, WorkersFit, Holding
  <2>3. LockHeld' /\ NeverWraps' /\ MainInPlace'
    BY SMTT(30), <1>a, <1>5, <2>0 DEF Stat, CoreTypes, LockHeld, NeverWraps, MainInPlace
  <2> QED BY <2>1, <2>2, <2>3 DEF ControlInv, TypeOK
<1>6. CASE ChildSucceeded(w)
  <2>a. rule[w] \in Rules /\ next[w] \in DOMAIN graph[rule[w]]
    BY <1>a, <1>6 DEF ChildSucceeded, WorkersFit, Holding
  <2>0. /\ next[w] # Len(graph[rule[w]]) => next[w] + 1 \in DOMAIN graph[rule[w]]
        /\ next[w] + 1 \in Nat
    <3>1. graph[rule[w]] \in Seq(Rules) /\ next[w] \in Nat
      BY <1>a, <2>a
    <3>2. next[w] \in 1..Len(graph[rule[w]]) /\ Len(graph[rule[w]]) \in Nat
      BY <2>a, <3>1
    <3> QED BY <3>1, <3>2
  <2>b. at' \in [Workers -> Places] /\ next' \in [Workers -> Nat]
    <3>1. CASE next[w] = Len(graph[rule[w]])
      <4>1. at' = [at EXCEPT ![w] = "run"] /\ next' = [next EXCEPT ![w] = 0]
        BY <1>6, <3>1 DEF ChildSucceeded
      <4> QED BY <1>a, <4>1 DEF Places
    <3>2. CASE next[w] # Len(graph[rule[w]])
      <4>1. at' = at /\ next' = [next EXCEPT ![w] = next[w] + 1]
        BY <1>6, <3>2 DEF ChildSucceeded
      <4> QED BY <1>a, <2>0, <4>1 DEF Places
    <3> QED BY <3>1, <3>2
  <2>1. CoreTypes'
    BY SMTT(30), <1>a, <1>6, <2>b DEF ChildSucceeded, CoreTypes, Places
  <2>2. WorkersFit'
    <3>1. CASE next[w] = Len(graph[rule[w]])
      BY SMTT(30), <1>a, <1>6, <3>1 DEF ChildSucceeded, WorkersFit, Holding
    <3>2. CASE next[w] # Len(graph[rule[w]])
      BY SMTT(30), <1>a, <1>6, <2>0, <3>2 DEF ChildSucceeded, WorkersFit, Holding
    <3> QED BY <3>1, <3>2
  <2>3. LockHeld' /\ NeverWraps' /\ MainInPlace'
    BY SMTT(30), <1>a, <1>6, <2>0 DEF ChildSucceeded, CoreTypes, LockHeld, NeverWraps, MainInPlace
  <2> QED BY <2>1, <2>2, <2>3 DEF ControlInv, TypeOK
<1>7. CASE ChildUnknown(w)
  <2>0. /\ at[w] = "child" /\ at' = [at EXCEPT ![w] = "nap"] /\ at' \in [Workers -> Places]
        /\ UNCHANGED <<graph, targets, mainAt, current, todo, loaded, all_rules, queue_size,
                       waiting_rules, queue_mtx, job_done, rule, seen, must, next,
                       successful_rules, failed_rules, mtime, clock>>
    BY <1>a, <1>7 DEF ChildUnknown, Places
  <2>a. at'[w] = "nap" /\ \A u \in Workers \ {w} : at'[u] = at[u]
    BY <1>a, <2>0
  <2>1. CoreTypes'
    BY SMTT(30), <1>a, <2>0 DEF CoreTypes, Places
  <2>2. WorkersFit'
    BY <1>a, <2>0, <2>a, FitStays DEF Holding
  <2>3. LockHeld' /\ NeverWraps' /\ MainInPlace'
    BY <1>a, <2>0, <2>a, LockStays
  <2> QED BY <2>1, <2>2, <2>3 DEF ControlInv, TypeOK
<1>8. CASE ChildNap(w)
  <2>0. /\ at[w] = "nap" /\ at' = [at EXCEPT ![w] = "asleep"] /\ at' \in [Workers -> Places]
        /\ UNCHANGED <<graph, targets, mainAt, current, todo, loaded, all_rules, queue_size,
                       waiting_rules, queue_mtx, job_done, rule, seen, must, next,
                       successful_rules, failed_rules, mtime, clock>>
    BY <1>a, <1>8 DEF ChildNap, Places
  <2>a. at'[w] = "asleep" /\ \A u \in Workers \ {w} : at'[u] = at[u]
    BY <1>a, <2>0
  <2>1. CoreTypes'
    BY SMTT(30), <1>a, <2>0 DEF CoreTypes, Places
  <2>2. WorkersFit'
    BY <1>a, <2>0, <2>a, FitStays DEF Holding
  <2>3. LockHeld' /\ NeverWraps' /\ MainInPlace'
    BY <1>a, <2>0, <2>a, LockStays
  <2> QED BY <2>1, <2>2, <2>3 DEF ControlInv, TypeOK
<1>9. CASE ChildFailed(w)
  <2>1. CoreTypes'
    <3>1. rule[w] \in Rules
      BY <1>a, <1>9 DEF ChildFailed, WorkersFit, Holding
    <3>2. at' \in [Workers -> Places] /\ rule' \in [Workers -> Rules \cup {NoRule}]
          /\ must' \in [Workers -> BOOLEAN] /\ next' \in [Workers -> Nat]
      BY <1>a, <1>9 DEF ChildFailed, Decide, CoreTypes, Places
    <3>3. /\ failed_rules' = failed_rules \cup {rule[w]}
          /\ mainAt' = IF mainAt = "asleep" THEN "check" ELSE mainAt
          /\ UNCHANGED <<graph, targets, current, todo, loaded, all_rules, queue_size,
                         waiting_rules, queue_mtx, job_done, seen, successful_rules,
                         mtime, clock>>
      BY <1>9 DEF ChildFailed, Decide
    <3> QED BY SMTT(30), <1>a, <3>1, <3>2, <3>3 DEF CoreTypes, Places
  <2>d. /\ at' = [u \in Workers |-> IF u = w THEN "look"
                                    ELSE IF at[u] = "asleep" THEN "child" ELSE at[u]]
        /\ mainAt' = IF mainAt = "asleep" THEN "check" ELSE mainAt
        /\ rule' = [rule EXCEPT ![w] = NoRule] /\ next' = [next EXCEPT ![w] = 0]
        /\ UNCHANGED <<graph, targets, current, todo, queue_mtx, queue_size, seen>>
    BY <1>9 DEF ChildFailed, Decide
  <2>e. /\ \A u \in Workers \ {w} : rule'[u] = rule[u] /\ next'[u] = next[u]
        /\ at[w] \in {"child", "run"} /\ at'[w] = "look"
        /\ \A u \in Workers \ {w} : at'[u] = IF at[u] = "asleep" THEN "child" ELSE at[u]
    <3>1. at[w] \in {"child", "run"}
      BY <1>9 DEF ChildFailed
    <3>2. rule \in [Workers -> Rules \cup {NoRule}]
      BY <1>a DEF CoreTypes
    <3> QED BY <1>a, <2>d, <3>1, <3>2
  <2>2. WorkersFit'
    BY <1>a, <2>d, <2>e, FitStays DEF Holding
  <2>3. LockHeld' /\ NeverWraps' /\ MainInPlace'
    BY <1>a, <2>d, <2>e, LockStays
  <2> QED BY <2>1, <2>2, <2>3 DEF ControlInv, TypeOK
<1>10. CASE Commands(w)
  <2>a. rule[w] \in Rules
    BY <1>a, <1>10 DEF Commands, WorkersFit, Holding
  <2>b. mtime' \in [Rules -> Nat] /\ clock' \in Nat
    <3>1. CASE rule[w] \in Writes
      <4>1. mtime' = [mtime EXCEPT ![rule[w]] = clock] /\ clock' = clock + 1
        BY <1>10, <3>1 DEF Commands
      <4> QED BY <1>a, <2>a, <4>1
    <3>2. CASE rule[w] \notin Writes
      BY <1>a, <1>10, <3>2 DEF Commands, CoreTypes
    <3> QED BY <3>1, <3>2
  <2>0. /\ mtime' \in [Rules -> Nat] /\ clock' \in Nat
        /\ successful_rules' \subseteq Rules /\ failed_rules' \subseteq Rules
    BY <1>a, <1>10, <2>a, <2>b DEF Commands, CoreTypes
  <2>1. CoreTypes'
    BY SMTT(30), <1>a, <1>10, <2>0 DEF Commands, Decide, CoreTypes, WorkersFit, Holding
  <2>d. /\ at' = [u \in Workers |-> IF u = w THEN "look"
                                    ELSE IF at[u] = "asleep" THEN "child" ELSE at[u]]
        /\ mainAt' = IF mainAt = "asleep" THEN "check" ELSE mainAt
        /\ rule' = [rule EXCEPT ![w] = NoRule] /\ next' = [next EXCEPT ![w] = 0]
        /\ UNCHANGED <<graph, targets, current, todo, queue_mtx, queue_size, seen>>
    BY <1>10 DEF Commands, Decide
  <2>e. /\ \A u \in Workers \ {w} : rule'[u] = rule[u] /\ next'[u] = next[u]
        /\ at[w] \in {"child", "run"} /\ at'[w] = "look"
        /\ \A u \in Workers \ {w} : at'[u] = IF at[u] = "asleep" THEN "child" ELSE at[u]
    <3>1. at[w] \in {"child", "run"}
      BY <1>10 DEF Commands
    <3>2. rule \in [Workers -> Rules \cup {NoRule}]
      BY <1>a DEF CoreTypes
    <3> QED BY <1>a, <2>d, <3>1, <3>2
  <2>2. WorkersFit'
    BY <1>a, <2>d, <2>e, FitStays DEF Holding
  <2>3. LockHeld' /\ NeverWraps' /\ MainInPlace'
    BY <1>a, <2>d, <2>e, LockStays
  <2> QED BY <2>1, <2>2, <2>3 DEF ControlInv, TypeOK
<1>11. CASE Satisfied(w)
  <2>1. CoreTypes'
    BY SMTT(30), <1>a, <1>11 DEF Satisfied, Decide, CoreTypes, WorkersFit, Holding
  <2>d. /\ at' = [u \in Workers |-> IF u = w THEN "look"
                                    ELSE IF at[u] = "asleep" THEN "child" ELSE at[u]]
        /\ mainAt' = IF mainAt = "asleep" THEN "check" ELSE mainAt
        /\ rule' = [rule EXCEPT ![w] = NoRule] /\ next' = [next EXCEPT ![w] = 0]
        /\ UNCHANGED <<graph, targets, current, todo, queue_mtx, queue_size, seen>>
    BY <1>11 DEF Satisfied, Decide
  <2>e. /\ \A u \in Workers \ {w} : rule'[u] = rule[u] /\ next'[u] = next[u]
        /\ at[w] \in {"child", "run"} /\ at'[w] = "look"
        /\ \A u \in Workers \ {w} : at'[u] = IF at[u] = "asleep" THEN "child" ELSE at[u]
    <3>1. at[w] \in {"child", "run"}
      BY <1>11 DEF Satisfied
    <3>2. rule \in [Workers -> Rules \cup {NoRule}]
      BY <1>a DEF CoreTypes
    <3> QED BY <1>a, <2>d, <3>1, <3>2
  <2>2. WorkersFit'
    BY <1>a, <2>d, <2>e, FitStays DEF Holding
  <2>3. LockHeld' /\ NeverWraps' /\ MainInPlace'
    BY <1>a, <2>d, <2>e, LockStays
  <2> QED BY <2>1, <2>2, <2>3 DEF ControlInv, TypeOK
<1>12. CASE SpuriousWakeup(w)
  <2>0. at' \in [Workers -> Places]
    BY <1>a, <1>12 DEF SpuriousWakeup, Places
  <2>1. CoreTypes'
    BY SMTT(30), <1>a, <1>12, <2>0 DEF SpuriousWakeup, CoreTypes, Places
  <2>2. WorkersFit'
    <3>1. /\ \/ at[w] = "dozing" /\ at'[w] = "look"
             \/ at[w] = "asleep" /\ at'[w] = "child"
          /\ \A u \in Workers \ {w} : at'[u] = at[u]
          /\ UNCHANGED <<graph, rule, next>>
      BY <1>a, <1>12 DEF SpuriousWakeup
    <3> QED BY <1>a, <3>1, FitStays DEF Holding
  <2>3. LockHeld' /\ NeverWraps' /\ MainInPlace'
    <3>1. at[w] \notin {"drowsy", "take"} /\ at'[w] \notin {"drowsy", "take"}
          /\ \A u \in Workers \ {w} : at'[u] = at[u]
      BY <1>a, <1>12 DEF SpuriousWakeup
    <3>2. UNCHANGED <<queue_mtx, queue_size, seen, mainAt, todo, current, targets>>
      BY <1>12 DEF SpuriousWakeup
    <3> QED BY <1>a, <3>1, <3>2 DEF LockHeld, NeverWraps, MainInPlace
  <2> QED BY <2>1, <2>2, <2>3 DEF ControlInv, TypeOK
<1> QED BY <1>1, <1>2, <1>3, <1>4, <1>5, <1>6, <1>7, <1>8, <1>9, <1>10, <1>11, <1>12 DEF WorkerStep

\* Types, ownership of queue_mtx and the places of main and the workers are
\* as ControlInv says, and the queued rules come with their dependencies.
THEOREM ControlCorrect == Spec => [](ControlInv /\ Closed)
<1>1. Init => ControlInv /\ Closed
  BY ControlInit
<1>2. ControlInv /\ Closed /\ [Next]_vars => (ControlInv /\ Closed)'
  <2> SUFFICES ASSUME ControlInv, Closed, [Next]_vars PROVE ControlInv' /\ Closed'
    OBVIOUS
  <2>1. CASE MainStep \/ RootSpuriousWakeup
    BY <2>1, MainControl
  <2>2. CASE \E w \in Workers : WorkerStep(w) \/ SpuriousWakeup(w)
    <3>1. PICK w \in Workers : WorkerStep(w) \/ SpuriousWakeup(w)
      BY <2>2
    <3>2. graph' = graph /\ all_rules' = all_rules
      BY <3>1 DEF WorkerStep, Look, Doze, Take, Pull, Stat, ChildSucceeded, ChildFailed,
                  ChildUnknown, ChildNap, Commands, Satisfied, SpuriousWakeup, Decide,
                  inputVars, mainVars
    <3> QED BY <3>1, <3>2, WorkerControl DEF Closed, Complete
  <2>3. CASE UNCHANGED vars
    BY <2>3 DEF vars, inputVars, mainVars, queueVars, workerVars, verdictVars, fileVars,
                ControlInv, TypeOK, CoreTypes, WorkersFit, LockHeld, NeverWraps, MainInPlace,
                Holding, Closed, Complete
  <2> QED BY <2>1, <2>2, <2>3 DEF Next
<1> QED BY <1>1, <1>2, PTL DEF Spec

\* main and the workers keep their variables in their types and their places:
\* a worker that waits for a child is at one of its rule's (parmake.c:210-326).
THEOREM TypeCorrect == Spec => []TypeOK
<1>1. ControlInv => TypeOK
  BY DEF ControlInv
<1> QED BY <1>1, ControlCorrect, PTL

\* queue_size never wraps below zero (parmake.c:239), although main writes it
\* without the lock.
THEOREM NoWrap == Spec => []NeverWraps
<1>1. ControlInv => NeverWraps
  BY DEF ControlInv
<1> QED BY <1>1, ControlCorrect, PTL

-----------------------------------------------------------------------------
\* The rules queued or about to be queued, in order.
Line == waiting_rules \o todo

Known == Verified \cup Held

Placed(c, before) == c \in Known \/ \E j \in 1..before : Line[j] = c

\* What a worker holds depends only on known rules; what is in line, on rules
\* known or further ahead; and the rules queued so far are known or in line.
OrderInv ==
    /\ \A w \in Workers : Holding(w) => Dependencies(graph, rule[w]) \subseteq Known
    /\ \A i \in 1..Len(Line) : \A c \in Dependencies(graph, Line[i]) : Placed(c, i - 1)
    /\ \A a \in all_rules : Placed(a, Len(Line))

\* A step that only lets known rules become or stay known keeps the order.
LEMMA OrderKept ==
  ASSUME OrderInv, graph' = graph, all_rules' = all_rules, Line' = Line,
         Verified \subseteq Verified',
         \A w \in Workers : Holding(w)' => Holding(w) /\ rule'[w] = rule[w],
         \A w \in Workers : Holding(w) => \/ Holding(w)' /\ rule'[w] = rule[w]
                                          \/ rule[w] \in Verified'
  PROVE  OrderInv'
<1>1. Known \subseteq Known'
  BY DEF Known, Held
<1>2. \A c, n : Placed(c, n) => Placed(c, n)'
  BY <1>1 DEF Placed
<1>3. \A w \in Workers : Holding(w)' => (Dependencies(graph, rule[w]) \subseteq Known)'
  BY <1>1 DEF OrderInv, Dependencies
<1>4. (\A i \in 1..Len(Line) : \A c \in Dependencies(graph, Line[i]) : Placed(c, i - 1))'
  <2>1. Line' = Line
    OBVIOUS
  <2>2. \A i \in 1..Len(Line) : Dependencies(graph', Line[i]) = Dependencies(graph, Line[i])
    BY DEF Dependencies
  <2>3. \A i \in 1..Len(Line) : \A c \in Dependencies(graph, Line[i]) : Placed(c, i - 1)
    BY DEF OrderInv
  <2> HIDE ParmakeAssumption
  <2> QED BY <1>2, <2>1, <2>2, <2>3
<1>5. (\A a \in all_rules : Placed(a, Len(Line)))'
  BY <1>2 DEF OrderInv
<1> QED BY <1>3, <1>4, <1>5 DEF OrderInv

\* Moving a rule from what is to be queued to the queue keeps the line.
LEMMA PushSequence ==
  ASSUME NEW S, NEW s \in Seq(S), NEW t \in Seq(S), t # <<>>
  PROVE  Append(s, Head(t)) \o Tail(t) = s \o t
<1> DEFINE a == Append(s, Head(t)) \o Tail(t)
           b == s \o t
<1>1. a \in Seq(S) /\ b \in Seq(S)
  OBVIOUS
<1>2. Len(a) = Len(b)
  OBVIOUS
<1>3. \A i \in 1..Len(b) : a[i] = b[i]
  OBVIOUS
<1> QED BY <1>1, <1>2, <1>3

\* A pull takes the first rule out of the line.
LEMMA PullSequence ==
  ASSUME NEW S, NEW s \in Seq(S), NEW t \in Seq(S), s # <<>>
  PROVE  /\ Tail(s) \o t \in Seq(S) /\ s \o t \in Seq(S)
         /\ Len(s \o t) = Len(Tail(s) \o t) + 1
         /\ (s \o t)[1] = Head(s)
         /\ \A i \in 1..Len(Tail(s) \o t) : (Tail(s) \o t)[i] = (s \o t)[i + 1]
OBVIOUS

\* A new waitlist goes to the end of the line.
LEMMA PlanSequence ==
  ASSUME NEW S, NEW s \in Seq(S), NEW t \in Seq(S)
  PROVE  /\ s \o <<>> = s
         /\ Len(s \o t) = Len(s) + Len(t)
         /\ \A i \in 1..Len(s) : (s \o t)[i] = s[i]
         /\ \A i \in 1..Len(t) : (s \o t)[Len(s) + i] = t[i]
         /\ \A i \in 1..Len(s \o t) : i \notin 1..Len(s) => i - Len(s) \in 1..Len(t)
OBVIOUS

\* A worker that pulls a rule (parmake.c:241) keeps the order.
LEMMA OrderPull ==
  ASSUME ControlInv, OrderInv, NEW w \in Workers, Pull(w)
  PROVE  OrderInv'
<1> USE DEF inputVars, mainVars, workerVars, verdictVars, fileVars
<1>1. /\ waiting_rules \in Seq(Rules) /\ waiting_rules # <<>> /\ todo \in Seq(Rules)
      /\ at \in [Workers -> Places] /\ rule \in [Workers -> Rules \cup {NoRule}]
  BY DEF ControlInv, TypeOK, CoreTypes, Pull, Places
<1>2. /\ Line' = Tail(waiting_rules) \o todo
      /\ Line \in Seq(Rules) /\ Line' \in Seq(Rules)
      /\ Len(Line) = Len(Line') + 1
      /\ Line[1] = Head(waiting_rules)
      /\ \A i \in 1..Len(Line') : Line'[i] = Line[i + 1]
  <2>1. Line' = Tail(waiting_rules) \o todo
    BY DEF Line, Pull
  <2> QED BY <1>1, <2>1, PullSequence DEF Line
<1>3. /\ Holding(w)' /\ ~Holding(w) /\ rule'[w] = Line[1]
      /\ \A u \in Workers \ {w} : (Holding(u)' <=> Holding(u)) /\ rule'[u] = rule[u]
  BY <1>1, <1>2 DEF Pull, Go, Holding
<1>4. Known' = Known \cup {Line[1]}
  BY <1>3 DEF Known, Held, Verified, Pull
<1>5. \A c : \A n \in Nat : Placed(c, n + 1) /\ n <= Len(Line') => Placed(c, n)'
  <2> SUFFICES ASSUME NEW c, NEW n \in Nat, Placed(c, n + 1), n <= Len(Line'), c \notin Known'
               PROVE  \E j \in 1..n : Line'[j] = c
    BY DEF Placed
  <2>1. PICK j \in 1..(n + 1) : Line[j] = c
    BY <1>4 DEF Placed
  <2>2. j # 1
    BY <2>1, <1>4
  <2>3. j - 1 \in 1..n /\ j - 1 \in 1..Len(Line')
    BY <2>1, <2>2, <1>2
  <2>4. PICK k \in Nat : k = j - 1
    BY <2>3
  <2>5. k \in 1..n /\ k \in 1..Len(Line') /\ k + 1 = j
    BY <2>3, <2>4
  <2>6. Line'[k] = Line[k + 1]
    BY <2>5, <1>2
  <2> QED BY <2>1, <2>5, <2>6
<1>6. graph' = graph /\ all_rules' = all_rules
  BY DEF Pull
<1>7. (\A u \in Workers : Holding(u) => Dependencies(graph, rule[u]) \subseteq Known)'
  <2> SUFFICES ASSUME NEW u \in Workers, Holding(u)', NEW c \in Dependencies(graph, rule'[u])
               PROVE  c \in Known'
    BY <1>6 DEF Dependencies
  <2>1. CASE u = w
    <3>1. 1 \in 1..Len(Line)
      BY <1>2
    <3>2. Placed(c, 1 - 1)
      BY <2>1, <1>3, <3>1 DEF OrderInv
    <3> QED BY <3>2, <1>4 DEF Placed
  <2>2. CASE u # w
    BY <2>2, <1>3, <1>4 DEF OrderInv
  <2> QED BY <2>1, <2>2
<1>8. (\A i \in 1..Len(Line) : \A c \in Dependencies(graph, Line[i]) : Placed(c, i - 1))'
  <2> SUFFICES ASSUME NEW i \in 1..Len(Line'), NEW c \in Dependencies(graph, Line'[i])
               PROVE  Placed(c, i - 1)'
    BY <1>6 DEF Dependencies
  <2>1. i + 1 \in 1..Len(Line) /\ Line'[i] = Line[i + 1] /\ i - 1 \in Nat /\ i - 1 <= Len(Line')
    <3>1. Line'[i] = Line[i + 1]
      BY <1>2
    <3>2. Len(Line') \in Nat /\ Len(Line) = Len(Line') + 1
      BY <1>2
    <3>3. i + 1 \in 1..Len(Line) /\ i - 1 \in Nat /\ i - 1 <= Len(Line')
      BY <3>2
    <3> QED BY <3>1, <3>3
  <2>2. Placed(c, (i + 1) - 1)
    BY <2>1 DEF OrderInv
  <2>3. (i + 1) - 1 = (i - 1) + 1
    BY <2>1
  <2>4. Placed(c, (i - 1) + 1)
    BY <2>2, <2>3
  <2> QED BY <2>1, <2>4, <1>5
<1>9. (\A a \in all_rules : Placed(a, Len(Line)))'
  <2>1. Len(Line') \in Nat /\ Len(Line) = Len(Line') + 1
    BY <1>2
  <2>2. \A a \in all_rules : Placed(a, Len(Line') + 1)
    BY <2>1 DEF OrderInv
  <2> SUFFICES ASSUME NEW a \in all_rules PROVE Placed(a, Len(Line))'
    BY <1>6
  <2>3. PICK n \in Nat : n = Len(Line')
    BY <2>1
  <2>4. Placed(a, n)'
    BY <2>1, <2>2, <2>3, <1>5
  <2> QED BY <2>3, <2>4 DEF Placed
<1> QED BY <1>7, <1>8, <1>9 DEF OrderInv
\* A new waitlist (parmake.c:200-208) keeps the order.
LEMMA OrderPlan ==
  ASSUME ControlInv, Closed, OrderInv, Plan
  PROVE  OrderInv'
<1> USE DEF inputVars, queueVars, workerVars, verdictVars, fileVars
<1>1. /\ waiting_rules \in Seq(Rules) /\ todo = <<>> /\ todo' \in Seq(Rules)
      /\ \A i \in 1..Len(todo') : \A c \in Dependencies(graph, todo'[i]) :
           c \in all_rules \/ \E j \in 1..(i - 1) : todo'[j] = c
      /\ all_rules' = all_rules \cup {todo'[i] : i \in 1..Len(todo')}
  BY PlanCloses DEF ControlInv, TypeOK, CoreTypes, MainInPlace, Plan
<1> DEFINE n == Len(waiting_rules)
<1>2. /\ n \in Nat /\ Line = waiting_rules /\ Len(Line) = n
      /\ Line' = waiting_rules \o todo'
      /\ Len(Line') = n + Len(todo') /\ Len(todo') \in Nat
      /\ \A i \in 1..n : Line'[i] = Line[i]
      /\ \A i \in 1..Len(todo') : Line'[n + i] = todo'[i]
      /\ \A i \in 1..Len(Line') : i \notin 1..n => i - n \in 1..Len(todo')
  <2>1. waiting_rules' = waiting_rules
    BY DEF Plan
  <2>2. Line = waiting_rules /\ Line' = waiting_rules \o todo'
    BY <1>1, <2>1, PlanSequence DEF Line
  <2> QED BY <1>1, <2>2, PlanSequence
<1>3. Known' = Known /\ graph' = graph
      /\ \A u \in Workers : (Holding(u)' <=> Holding(u)) /\ rule'[u] = rule[u]
  BY DEF Plan, Known, Held, Verified, Holding
<1>4. \A c : \A m, k \in Nat : Placed(c, m) /\ m <= n /\ m <= k => Placed(c, k)'
  BY <1>2, <1>3 DEF Placed
<1>5. (\A u \in Workers : Holding(u) => Dependencies(graph, rule[u]) \subseteq Known)'
  BY <1>3 DEF OrderInv, Dependencies
<1>6. (\A i \in 1..Len(Line) : \A c \in Dependencies(graph, Line[i]) : Placed(c, i - 1))'
  <2> SUFFICES ASSUME NEW i \in 1..Len(Line'), NEW c \in Dependencies(graph, Line'[i])
               PROVE  Placed(c, i - 1)'
    BY <1>3 DEF Dependencies
  <2>1. CASE i \in 1..n
    <3>1. Placed(c, i - 1) /\ i - 1 \in Nat /\ i - 1 <= n
      BY <2>1, <1>2 DEF OrderInv
    <3> QED BY <3>1, <1>4
  <2>2. CASE i \notin 1..n
    <3>0. i - n \in 1..Len(todo')
      BY <1>2, <2>2
    <3>1. PICK k \in Nat : k = i - n
      BY <3>0, <1>2
    <3>2. k \in 1..Len(todo') /\ i = n + k /\ Line'[i] = todo'[k] /\ i - 1 \in Nat /\ n <= i - 1
      BY <1>2, <2>2, <3>0, <3>1
    <3>3. CASE c \in all_rules
      <4>1. Placed(c, n)
        BY <3>3, <1>2 DEF OrderInv
      <4> QED BY <4>1, <3>2, <1>2, <1>4
    <3>4. CASE c \notin all_rules
      <4>1. PICK j \in 1..(k - 1) : todo'[j] = c
        BY <3>2, <3>4, <1>1
      <4>2. PICK m \in Nat : m = n + j
        BY <1>2, <4>1
      <4>3. j \in 1..Len(todo') /\ m \in 1..(i - 1) /\ Line'[m] = c
        BY <1>2, <3>2, <4>1, <4>2
      <4> QED BY <4>3 DEF Placed
    <3> QED BY <3>3, <3>4
  <2> QED BY <2>1, <2>2
<1>7. (\A a \in all_rules : Placed(a, Len(Line)))'
  <2> SUFFICES ASSUME NEW a \in all_rules' PROVE Placed(a, Len(Line))'
    OBVIOUS
  <2>1. PICK k \in Nat : k = Len(Line') /\ n <= k
    BY <1>2
  <2>2. CASE a \in all_rules
    <3>1. Placed(a, n)
      BY <2>2, <1>2 DEF OrderInv
    <3>2. Placed(a, k)'
      BY <2>1, <3>1, <1>2, <1>4
    <3> QED BY <3>2, <2>1 DEF Placed
  <2>3. CASE a \notin all_rules
    <3>1. PICK j \in 1..Len(todo') : todo'[j] = a
      BY <2>3, <1>1
    <3>2. PICK m \in Nat : m = n + j
      BY <1>2, <3>1
    <3>3. m \in 1..Len(Line') /\ Line'[m] = a
      BY <1>2, <3>1, <3>2
    <3> QED BY <3>3 DEF Placed
  <2> QED BY <2>2, <2>3
<1> QED BY <1>5, <1>6, <1>7 DEF OrderInv
\* The steps of main keep the order.
LEMMA OrderMain ==
  ASSUME ControlInv, Closed, OrderInv, MainStep \/ RootSpuriousWakeup
  PROVE  OrderInv'
<1>1. CASE Plan
  BY <1>1, OrderPlan
<1>2. CASE ~Plan
  <2>1. /\ graph' = graph /\ all_rules' = all_rules /\ rule' = rule
        /\ Verified' = Verified
    BY <1>2 DEF MainStep, Skip, Load, Store, Push, Wake, CheckRoot, RootNap, Finish, Join,
                RootSpuriousWakeup, inputVars, mainVars, queueVars, workerVars, verdictVars, Verified
  <2>2. Line' = Line
    <3>1. CASE Push
      <4>1. waiting_rules \in Seq(Rules) /\ todo \in Seq(Rules) /\ todo # <<>>
        BY <3>1 DEF Push, ControlInv, TypeOK, CoreTypes, MainInPlace
      <4> QED BY <3>1, <4>1, PushSequence DEF Line, Push
    <3>2. CASE ~Push
      <4>1. waiting_rules' = waiting_rules /\ todo' = todo
        BY <1>2, <3>2 DEF MainStep, Skip, Load, Store, Wake, CheckRoot, RootNap, Finish, Join,
                          RootSpuriousWakeup, queueVars
      <4> QED BY <4>1 DEF Line
    <3> QED BY <3>1, <3>2
  <2>3. at' = at \/ at' = WakeDozing
    BY <1>2 DEF MainStep, Skip, Load, Store, Push, Wake, CheckRoot, RootNap, Finish, Join,
                RootSpuriousWakeup, workerVars
  <2>4. \A w \in Workers : Holding(w)' <=> Holding(w)
    BY <2>3 DEF Holding, WakeDozing
  <2> QED BY <2>1, <2>2, <2>4, OrderKept
<1> QED BY <1>1, <1>2

\* The other steps of the workers keep the order.
LEMMA OrderWorker ==
  ASSUME ControlInv, OrderInv, NEW w \in Workers, WorkerStep(w) \/ SpuriousWakeup(w)
  PROVE  OrderInv'
<1>1. CASE Pull(w)
  BY <1>1, OrderPull
<1>2. CASE ~Pull(w)
  <2>1. /\ graph' = graph /\ all_rules' = all_rules
        /\ waiting_rules' = waiting_rules /\ todo' = todo
        /\ Verified \subseteq Verified'
    BY <1>2 DEF WorkerStep, Look, Doze, Take, Stat, ChildSucceeded, ChildFailed, ChildUnknown,
                ChildNap, Commands, Satisfied, SpuriousWakeup, Decide, inputVars, mainVars,
                queueVars, verdictVars, Verified
  <2>2. Line' = Line
    BY <2>1 DEF Line
  <2>3. at \in [Workers -> Places] /\ rule \in [Workers -> Rules \cup {NoRule}]
    BY DEF ControlInv, TypeOK, CoreTypes, Places
  <2>4. CASE ChildFailed(w) \/ Commands(w) \/ Satisfied(w)
    <3>1. /\ at' = [u \in Workers |-> IF u = w THEN "look"
                                      ELSE IF at[u] = "asleep" THEN "child" ELSE at[u]]
          /\ rule' = [rule EXCEPT ![w] = NoRule]
      BY <2>4 DEF ChildFailed, Commands, Satisfied, Decide
    <3>2. rule[w] \in Verified'
      BY <2>4 DEF ChildFailed, Commands, Satisfied, Verified
    <3>3. /\ ~Holding(w)'
          /\ \A u \in Workers \ {w} : (Holding(u)' <=> Holding(u)) /\ rule'[u] = rule[u]
      BY <2>3, <3>1 DEF Holding
    <3> QED BY <2>1, <2>2, <3>2, <3>3, OrderKept
  <2>5. CASE ~(ChildFailed(w) \/ Commands(w) \/ Satisfied(w))
    <3>1. rule' = rule
      BY <1>2, <2>5 DEF WorkerStep, Look, Doze, Take, Stat, ChildSucceeded, ChildUnknown,
                        ChildNap, SpuriousWakeup, workerVars
    <3>2. /\ \A u \in Workers \ {w} : at'[u] = at[u]
          /\ Holding(w)' <=> Holding(w)
      <4>1. CASE Look(w) \/ Doze(w) \/ Take(w)
        BY <2>3, <4>1 DEF Look, Doze, Take, Go, Holding
      <4>2. CASE Stat(w)
        BY <2>3, <4>2 DEF Stat, Go, Holding
      <4>3. CASE ChildSucceeded(w)
        BY <2>3, <4>3 DEF ChildSucceeded, Go, Holding
      <4>4. CASE ChildUnknown(w) \/ ChildNap(w) \/ SpuriousWakeup(w)
        BY <2>3, <4>4 DEF ChildUnknown, ChildNap, SpuriousWakeup, Go, Holding
      <4> QED BY <1>2, <2>5, <4>1, <4>2, <4>3, <4>4 DEF WorkerStep
    <3>3. \A u \in Workers : Holding(u)' <=> Holding(u)
      BY <3>2 DEF Holding
    <3> QED BY <2>1, <2>2, <3>1, <3>3, OrderKept
  <2> QED BY <2>4, <2>5
<1> QED BY <1>1, <1>2

\* What is in line depends only on rules that are held, decided or further
\* ahead (parmake.c:170-208, :241).
THEOREM OrderCorrect == Spec => []OrderInv
<1>1. Init => OrderInv
  BY DEF Init, OrderInv, Holding, Line, Placed
<1>2. ControlInv /\ Closed /\ OrderInv /\ [Next]_vars => OrderInv'
  <2> SUFFICES ASSUME ControlInv, Closed, OrderInv, [Next]_vars PROVE OrderInv'
    OBVIOUS
  <2>1. CASE MainStep \/ RootSpuriousWakeup
    BY <2>1, OrderMain
  <2>2. CASE \E w \in Workers : WorkerStep(w) \/ SpuriousWakeup(w)
    BY <2>2, OrderWorker
  <2>3. CASE UNCHANGED vars
    <3>1. /\ graph' = graph /\ all_rules' = all_rules /\ Line' = Line /\ Verified' = Verified
          /\ rule' = rule /\ \A w \in Workers : Holding(w)' <=> Holding(w)
      BY <2>3 DEF vars, inputVars, mainVars, queueVars, workerVars, verdictVars, Line, Verified,
                  Holding
    <3> QED BY <3>1, OrderKept
  <2> QED BY <2>1, <2>2, <2>3 DEF Next
<1> QED BY <1>1, <1>2, ControlCorrect, PTL DEF Spec

\* No worker waits for a rule that is still in the queue (parmake.c:268-277):
\* what it waits for is decided or in the hands of a worker.
THEOREM WaitsOnlyForHeldRules == Spec => []WaitsForHeld
<1>1. ControlInv /\ OrderInv => WaitsForHeld
  <2> SUFFICES ASSUME ControlInv, OrderInv, NEW w \in Workers, at[w] \in {"child", "nap", "asleep"}
               PROVE  Child(w) \in Verified \cup Held
    BY DEF WaitsForHeld
  <2>1. Holding(w) /\ next[w] \in DOMAIN graph[rule[w]]
    BY DEF ControlInv, TypeOK, WorkersFit, Holding
  <2>2. Child(w) \in Dependencies(graph, rule[w])
    BY <2>1 DEF Child, Dependencies
  <2> QED BY <2>1, <2>2 DEF OrderInv, Known
<1> QED BY <1>1, ControlCorrect, OrderCorrect, PTL
-----------------------------------------------------------------------------
\* A worker about to run commands has seen all children succeed, one at a
\* child those before it; and main has seen the targets before this one.
Served(w) ==
    /\ at[w] = "run" => Dependencies(graph, rule[w]) \subseteq successful_rules
    /\ at[w] \in {"child", "nap", "asleep"}
         => \A i \in 1..(next[w] - 1) : graph[rule[w]][i] \in successful_rules

ChildrenMade == \A w \in Workers : Served(w)

TargetsVerified ==
    \A i \in 1..(current - 1) : ~ContainsCycle(graph, targets[i]) => targets[i] \in Verified

VerdictInv == ChildrenMade /\ TargetsVerified

\* A worker that stays where it is, or leaves, has seen what it has seen.
LEMMA ServedStays ==
  ASSUME NEW u \in Workers, Served(u), graph' = graph, rule'[u] = rule[u], next'[u] = next[u],
         successful_rules \subseteq successful_rules', at'[u] = "run" => at[u] = "run",
         at'[u] \in {"child", "nap", "asleep"} => at[u] \in {"child", "nap", "asleep"}
  PROVE  Served(u)'
<1> HIDE ParmakeAssumption
<1> QED BY DEF Served, Dependencies

\* The steps of main keep the verdicts.
LEMMA VerdictMain ==
  ASSUME ControlInv, VerdictInv, MainStep \/ RootSpuriousWakeup
  PROVE  VerdictInv'
<1>1. /\ graph' = graph /\ targets' = targets /\ rule' = rule /\ next' = next
      /\ successful_rules' = successful_rules /\ failed_rules' = failed_rules
  BY DEF MainStep, Skip, Plan, Load, Store, Push, Wake, CheckRoot, RootNap, Finish, Join,
         RootSpuriousWakeup, inputVars, workerVars, verdictVars
<1>2. at' = at \/ at' = WakeDozing
  BY DEF MainStep, Skip, Plan, Load, Store, Push, Wake, CheckRoot, RootNap, Finish, Join,
         RootSpuriousWakeup, workerVars
<1>3. \A w \in Workers : /\ at'[w] = "run" => at[w] = "run"
                         /\ at'[w] \in {"child", "nap", "asleep"} => at[w] = at'[w]
  BY <1>2 DEF WakeDozing
<1>4. ChildrenMade'
  BY <1>1, <1>3, ServedStays DEF VerdictInv, ChildrenMade
<1>5. current \in Nat
  BY DEF ControlInv, TypeOK, CoreTypes
<1>6. \/ current' = current
      \/ /\ current' = current + 1
         /\ ContainsCycle(graph, targets[current]) \/ targets[current] \in Verified
  BY DEF MainStep, Skip, Plan, Load, Store, Push, Wake, CheckRoot, RootNap, Finish, Join,
         RootSpuriousWakeup
<1>7. TargetsVerified'
  BY <1>1, <1>5, <1>6 DEF VerdictInv, TargetsVerified, Verified
<1> QED BY <1>4, <1>7 DEF VerdictInv

\* The steps of the workers keep the verdicts.
LEMMA VerdictWorker ==
  ASSUME ControlInv, VerdictInv, NEW w \in Workers, WorkerStep(w) \/ SpuriousWakeup(w)
  PROVE  VerdictInv'
<1>1. /\ graph' = graph /\ targets' = targets /\ current' = current
      /\ successful_rules \subseteq successful_rules' /\ Verified \subseteq Verified'
  BY DEF WorkerStep, Look, Doze, Take, Pull, Stat, ChildSucceeded, ChildFailed, ChildUnknown,
         ChildNap, Commands, Satisfied, SpuriousWakeup, Decide, inputVars, mainVars,
         verdictVars, Verified
<1>2. TargetsVerified'
  BY <1>1 DEF VerdictInv, TargetsVerified
<1>3. /\ at \in [Workers -> Places] /\ rule \in [Workers -> Rules \cup {NoRule}]
      /\ next \in [Workers -> Nat] /\ graph \in [Rules -> Seq(Rules)]
  BY DEF ControlInv, TypeOK, CoreTypes, Places
<1>a. SUFFICES ChildrenMade'
  BY <1>2 DEF VerdictInv
<1>4. CASE ChildFailed(w) \/ Commands(w) \/ Satisfied(w)
  <2>1. /\ at' = [u \in Workers |-> IF u = w THEN "look"
                                    ELSE IF at[u] = "asleep" THEN "child" ELSE at[u]]
        /\ rule' = [rule EXCEPT ![w] = NoRule] /\ next' = [next EXCEPT ![w] = 0]
    BY <1>4 DEF ChildFailed, Commands, Satisfied, Decide
  <2>2. at'[w] = "look"
        /\ \A u \in Workers \ {w} :
             /\ rule'[u] = rule[u] /\ next'[u] = next[u]
             /\ at'[u] = "run" => at[u] = "run"
             /\ at'[u] \in {"child", "nap", "asleep"} => at[u] \in {"child", "nap", "asleep"}
    BY <1>3, <2>1
  <2>3. Served(w)'
    BY <2>2 DEF Served
  <2>4. \A u \in Workers \ {w} : Served(u)'
    BY <1>1, <2>2, ServedStays DEF VerdictInv, ChildrenMade
  <2> QED BY <2>3, <2>4 DEF ChildrenMade
<1>5. CASE Stat(w)
  <2>1. rule[w] \in Rules
    BY <1>5 DEF Stat, ControlInv, TypeOK, WorkersFit, Holding
  <2>2. /\ rule' = rule
        /\ \A u \in Workers \ {w} : at'[u] = at[u] /\ next'[u] = next[u]
        /\ \/ at'[w] = "run" /\ graph[rule[w]] = <<>>
           \/ at'[w] = "child" /\ next'[w] = 1
    BY <1>3, <1>5 DEF Stat, Go
  <2>3. graph[rule[w]] = <<>> => Dependencies(graph, rule[w]) = {}
    BY DEF Dependencies
  <2>4. Served(w)'
    BY <1>1, <2>2, <2>3 DEF Served, Dependencies
  <2>5. \A u \in Workers \ {w} : Served(u)'
    BY <1>1, <2>2, ServedStays DEF VerdictInv, ChildrenMade
  <2> QED BY <2>4, <2>5 DEF ChildrenMade
<1>6. CASE ChildSucceeded(w)
  <2>1. /\ rule[w] \in Rules /\ next[w] \in DOMAIN graph[rule[w]]
        /\ \A i \in 1..(next[w] - 1) : graph[rule[w]][i] \in successful_rules
    BY <1>6 DEF ChildSucceeded, ControlInv, TypeOK, WorkersFit, Holding, VerdictInv, ChildrenMade, Served
  <2>2. graph[rule[w]][next[w]] \in successful_rules
    BY <1>6 DEF ChildSucceeded, Child, Verified
  <2>3. \A i \in 1..next[w] : graph[rule[w]][i] \in successful_rules
    BY <1>3, <2>1, <2>2
  <2>4. rule' = rule /\ successful_rules' = successful_rules
        /\ \A u \in Workers \ {w} : at'[u] = at[u] /\ next'[u] = next[u]
    BY <1>3, <1>6 DEF ChildSucceeded, Go, verdictVars
  <2>7. \A u \in Workers \ {w} : Served(u)'
    BY <1>1, <2>4, ServedStays DEF VerdictInv, ChildrenMade
  <2>5. CASE next[w] = Len(graph[rule[w]])
    <3>1. at'[w] = "run"
      BY <1>3, <1>6, <2>5 DEF ChildSucceeded, Go
    <3>2. Dependencies(graph, rule[w]) \subseteq successful_rules
      BY <1>3, <2>1, <2>3, <2>5 DEF Dependencies
    <3>3. Served(w)'
      BY <1>1, <2>4, <3>1, <3>2 DEF Served, Dependencies
    <3> QED BY <2>7, <3>3 DEF ChildrenMade
  <2>6. CASE next[w] # Len(graph[rule[w]])
    <3>1. at'[w] = "child" /\ next'[w] = next[w] + 1
      BY <1>3, <1>6, <2>6 DEF ChildSucceeded
    <3>2. next'[w] - 1 = next[w]
      BY <1>3, <3>1
    <3>3. Served(w)'
      BY <1>1, <2>3, <2>4, <3>1, <3>2 DEF Served, Dependencies
    <3> QED BY <2>7, <3>3 DEF ChildrenMade
  <2> QED BY <2>5, <2>6
<1>7. CASE Pull(w)
  <2>1. /\ at'[w] = "stat"
        /\ \A u \in Workers \ {w} : at'[u] = at[u] /\ rule'[u] = rule[u]
        /\ next' = next
    BY <1>3, <1>7 DEF Pull, Go
  <2> QED BY <1>1, <2>1 DEF VerdictInv, ChildrenMade, Served, Dependencies
<1>8. CASE Look(w) \/ Doze(w) \/ Take(w) \/ ChildUnknown(w) \/ ChildNap(w) \/ SpuriousWakeup(w)
  <2>1. /\ rule' = rule /\ next' = next
        /\ \A u \in Workers \ {w} : at'[u] = at[u]
        /\ at'[w] # "run"
        /\ at'[w] \in {"child", "nap", "asleep"} => at[w] \in {"child", "nap", "asleep"}
    BY <1>3, <1>8 DEF Look, Doze, Take, ChildUnknown, ChildNap, SpuriousWakeup, Go
  <2> QED BY <1>1, <2>1 DEF VerdictInv, ChildrenMade, Served, Dependencies
<1> QED BY <1>4, <1>5, <1>6, <1>7, <1>8 DEF WorkerStep

\* A worker that gets to its rule's commands has seen all its dependencies
\* succeed, and main gets past a target only when it is decided or refused
\* (parmake.c:219-221, :266-284).
THEOREM VerdictCorrect == Spec => []VerdictInv
<1>1. Init => VerdictInv
  BY DEF Init, VerdictInv, ChildrenMade, Served, TargetsVerified
<1>2. ControlInv /\ VerdictInv /\ [Next]_vars => VerdictInv'
  <2> SUFFICES ASSUME ControlInv, VerdictInv, [Next]_vars PROVE VerdictInv'
    OBVIOUS
  <2>1. CASE MainStep \/ RootSpuriousWakeup
    BY <2>1, VerdictMain
  <2>2. CASE \E w \in Workers : WorkerStep(w) \/ SpuriousWakeup(w)
    BY <2>2, VerdictWorker
  <2>3. CASE UNCHANGED vars
    BY <2>3 DEF vars, inputVars, mainVars, workerVars, verdictVars, VerdictInv, ChildrenMade,
                Served, TargetsVerified, Dependencies, Verified
  <2> QED BY <2>1, <2>2, <2>3 DEF Next
<1> QED BY <1>1, <1>2, ControlCorrect, PTL DEF Spec

\* The steps of main are steps of MakePromise or change nothing it sees.
LEMMA MainRefines ==
  ASSUME ControlInv, VerdictInv, MainStep \/ RootSpuriousWakeup
  PROVE  [Promise!Next]_(Promise!makeVars)
<1>1. UNCHANGED <<graph, targets, successful_rules, failed_rules>>
  BY DEF MainStep, Skip, Plan, Load, Store, Push, Wake, CheckRoot, RootNap, Finish, Join,
         RootSpuriousWakeup, inputVars, verdictVars
<1>2. Goals' = Goals /\ [r \in Rules |-> Dependencies(graph, r)]' = [r \in Rules |-> Dependencies(graph, r)]
  BY <1>1 DEF Goals, Dependencies
<1>3. CASE Finish
  <2>1. Goals \subseteq Verified
    <3>1. targets \in Seq(Rules) /\ current \in Nat /\ current > Len(targets)
      BY <1>3 DEF Finish, ControlInv, TypeOK, CoreTypes
    <3>2. \A i \in DOMAIN targets : i \in 1..(current - 1)
      BY <3>1
    <3> QED BY <3>2 DEF Goals, VerdictInv, TargetsVerified
  <2>2. job_done' = TRUE
    BY <1>3 DEF Finish
  <2> QED BY <1>1, <1>2, <2>1, <2>2 DEF Promise!Next, Promise!Finish, Verified
<1>4. CASE ~Finish
  <2>1. job_done' = job_done
    BY <1>4 DEF MainStep, Skip, Plan, Load, Store, Push, Wake, CheckRoot, RootNap, Join,
                RootSpuriousWakeup, queueVars
  <2> QED BY <1>1, <1>2, <2>1 DEF Promise!makeVars
<1> QED BY <1>3, <1>4

\* The steps of the workers are steps of MakePromise or change nothing it sees.
LEMMA WorkerRefines ==
  ASSUME ControlInv, VerdictInv, NEW w \in Workers, WorkerStep(w) \/ SpuriousWakeup(w)
  PROVE  [Promise!Next]_(Promise!makeVars)
<1>1. UNCHANGED <<graph, targets, job_done>>
  BY DEF WorkerStep, Look, Doze, Take, Pull, Stat, ChildSucceeded, ChildFailed, ChildUnknown,
         ChildNap, Commands, Satisfied, SpuriousWakeup, Decide, inputVars, queueVars
<1> DEFINE deps == [r \in Rules |-> Dependencies(graph, r)]
<1>2. Goals' = Goals /\ deps' = deps
  BY <1>1 DEF Goals, Dependencies
<1>3. CASE ChildFailed(w) \/ Commands(w) \/ Satisfied(w)
  <2>1. rule[w] \in Rules
    BY <1>3 DEF ChildFailed, Commands, Satisfied, ControlInv, TypeOK, WorkersFit, Holding
  <2>2. deps[rule[w]] = Dependencies(graph, rule[w])
    BY <2>1
  <2>3. CASE successful_rules' = successful_rules \cup {rule[w]} /\ failed_rules' = failed_rules
             /\ at[w] = "run"
    <3>1. deps[rule[w]] \subseteq successful_rules
      BY <2>2, <2>3 DEF VerdictInv, ChildrenMade, Served
    <3> QED BY <1>1, <1>2, <2>1, <2>3, <3>1 DEF Promise!Next, Promise!Make
  <2>4. CASE successful_rules' = successful_rules /\ failed_rules' = failed_rules \cup {rule[w]}
             /\ at[w] = "run"
    <3>1. deps[rule[w]] \subseteq successful_rules
      BY <2>2, <2>4 DEF VerdictInv, ChildrenMade, Served
    <3> QED BY <1>1, <1>2, <2>1, <2>4, <3>1 DEF Promise!Next, Promise!Fail
  <2>5. CASE ChildFailed(w)
    <3>1. next[w] \in DOMAIN graph[rule[w]]
      BY <2>5 DEF ChildFailed, ControlInv, TypeOK, WorkersFit
    <3>2. Child(w) \in deps[rule[w]] \cap failed_rules
      BY <2>2, <2>5, <3>1 DEF ChildFailed, Child, Dependencies
    <3>3. successful_rules' = successful_rules /\ failed_rules' = failed_rules \cup {rule[w]}
      BY <2>5 DEF ChildFailed
    <3> QED BY <1>1, <1>2, <2>1, <3>2, <3>3 DEF Promise!Next, Promise!Fail
  <2> QED BY <1>3, <2>3, <2>4, <2>5 DEF Commands, Satisfied
<1>4. CASE ~(ChildFailed(w) \/ Commands(w) \/ Satisfied(w))
  <2>1. UNCHANGED <<successful_rules, failed_rules>>
    BY <1>4 DEF WorkerStep, Look, Doze, Take, Pull, Stat, ChildSucceeded, ChildUnknown,
                ChildNap, SpuriousWakeup, verdictVars
  <2> QED BY <1>1, <1>2, <2>1 DEF Promise!makeVars
<1> QED BY <1>3, <1>4

\* The workers and main together keep MakePromise: dependencies first, no
\* rule after a failed dependency, all targets decided before job_done
\* (parmake.c:210-326, :386-398).
THEOREM ParmakeImplementsMake == Spec => ImplementsMake
<1>1. Init => Promise!Init
  <2> SUFFICES ASSUME Init PROVE Promise!Init
    OBVIOUS
  <2>1. graph \in [Rules -> Seq(Rules)] /\ targets \in Seq(Rules)
    BY DEF Init
  <2>2. [r \in Rules |-> Dependencies(graph, r)] \in [Rules -> SUBSET Rules]
    BY <2>1 DEF Dependencies
  <2>3. Goals \subseteq Rules
    BY <2>1 DEF Goals
  <2> QED BY <2>2, <2>3 DEF Init, Promise!Init
<1>2. ControlInv /\ VerdictInv /\ [Next]_vars => [Promise!Next]_(Promise!makeVars)
  <2> SUFFICES ASSUME ControlInv, VerdictInv, [Next]_vars
               PROVE  [Promise!Next]_(Promise!makeVars)
    OBVIOUS
  <2>1. CASE MainStep \/ RootSpuriousWakeup
    BY <2>1, MainRefines
  <2>2. CASE \E w \in Workers : WorkerStep(w) \/ SpuriousWakeup(w)
    BY <2>2, WorkerRefines
  <2>3. CASE UNCHANGED vars
    BY <2>3 DEF vars, inputVars, queueVars, verdictVars, Promise!makeVars, Goals, Dependencies
  <2> QED BY <2>1, <2>2, <2>3 DEF Next
<1> QED BY <1>1, <1>2, ControlCorrect, VerdictCorrect, PTL
        DEF Spec, ImplementsMake, Promise!Spec

-----------------------------------------------------------------------------
\* The rules queued so far have no cycle: some rule of any set of them depends
\* on no other of the set.  Those in line and in the workers' hands are among
\* them.
Arranged ==
    \A S \in SUBSET all_rules : S # {} =>
       \E r \in S : Dependencies(graph, r) \cap S = {}

Registered ==
    /\ \A i \in 1..Len(Line) : Line[i] \in all_rules
    /\ Held \subseteq all_rules

ArrangedInv == Arranged /\ Registered

\* A waitlist lists what is new to it after its dependencies: no cycle comes
\* with it.
LEMMA ArrangedPlan ==
  ASSUME ControlInv, Closed, Arranged, Plan
  PROVE  Arranged'
<1>1. /\ todo' \in Seq(Rules) /\ graph' = graph
      /\ all_rules' = all_rules \cup {todo'[i] : i \in 1..Len(todo')}
      /\ \A i \in 1..Len(todo') : \A c \in Dependencies(graph, todo'[i]) :
           c \in all_rules \/ \E j \in 1..(i - 1) : todo'[j] = c
  BY PlanCloses DEF Plan, inputVars
<1> SUFFICES ASSUME NEW S \in SUBSET all_rules', S # {}
             PROVE  \E r \in S : Dependencies(graph', r) \cap S = {}
  BY DEF Arranged
<1> SUFFICES \E r \in S : Dependencies(graph, r) \cap S = {}
  BY <1>1
<1>2. CASE S \cap all_rules # {}
  <2>1. PICK r \in S \cap all_rules : Dependencies(graph, r) \cap (S \cap all_rules) = {}
    BY <1>2 DEF Arranged
  <2>2. Dependencies(graph, r) \subseteq all_rules
    BY <2>1 DEF Closed, Complete
  <2> QED BY <2>1, <2>2
<1>3. CASE S \cap all_rules = {}
  <2> DEFINE T == {i \in 1..Len(todo') : todo'[i] \in S}
  <2>1. T \in SUBSET Nat /\ T # {}
    BY <1>1, <1>3
  <2>2. PICK i \in T : \A j \in T : i <= j
    <3> HIDE DEF T
    <3> QED BY <2>1, LeastNumber
  <2>3. ASSUME NEW c \in Dependencies(graph, todo'[i]), c \in S PROVE FALSE
    <3>1. PICK j \in 1..(i - 1) : todo'[j] = c
      BY <1>1, <1>3, <2>3
    <3>2. j \in T /\ j < i
      <4>1. Len(todo') \in Nat
        BY <1>1
      <4> QED BY <2>3, <3>1, <4>1
    <3> QED BY <2>1, <2>2, <3>2
  <2> QED BY <2>3
<1> QED BY <1>2, <1>3

\* A step that adds no rule, but to the line, keeps the arrangement.
LEMMA ArrangedKept ==
  ASSUME ArrangedInv, graph' = graph, all_rules' = all_rules,
         \A i \in 1..Len(Line') : Line'[i] \in all_rules,
         \A w \in Workers : Holding(w)' => rule'[w] \in all_rules
  PROVE  ArrangedInv'
<1>1. Arranged'
  <2> SUFFICES ASSUME NEW S \in SUBSET all_rules, S # {}
               PROVE  \E r \in S : Dependencies(graph', r) \cap S = {}
    BY DEF Arranged
  <2>1. PICK r \in S : Dependencies(graph, r) \cap S = {}
    BY DEF ArrangedInv, Arranged
  <2> QED BY <2>1
<1>2. Registered'
  BY DEF Registered, Held
<1> QED BY <1>1, <1>2 DEF ArrangedInv

\* What is queued, pulled and made is always one of the rules queued so far.
LEMMA ArrangedStep ==
  ControlInv /\ Closed /\ ArrangedInv /\ [Next]_vars => ArrangedInv'
<1> SUFFICES ASSUME ControlInv, Closed, ArrangedInv, [Next]_vars PROVE ArrangedInv'
  OBVIOUS
<1>1. /\ waiting_rules \in Seq(Rules) /\ todo \in Seq(Rules)
      /\ at \in [Workers -> Places] /\ rule \in [Workers -> Rules \cup {NoRule}]
  BY DEF ControlInv, TypeOK, CoreTypes, Places
<1>2. Registered /\ Arranged /\ \A w \in Workers : Holding(w) => rule[w] \in all_rules
  BY DEF ArrangedInv, Registered, Held
<1>3. CASE Plan
  <2>1. /\ todo = <<>> /\ todo' \in Seq(Rules) /\ waiting_rules' = waiting_rules
        /\ all_rules' = all_rules \cup {todo'[i] : i \in 1..Len(todo')}
        /\ UNCHANGED <<at, rule>>
    BY <1>3, PlanCloses DEF ControlInv, MainInPlace, Plan, queueVars, workerVars
  <2>2. Line = waiting_rules /\ Line' = waiting_rules \o todo'
    BY <1>1, <2>1, PlanSequence DEF Line
  <2>3. \A i \in 1..Len(Line') : Line'[i] \in all_rules'
    <3> SUFFICES ASSUME NEW i \in 1..Len(Line') PROVE Line'[i] \in all_rules'
      OBVIOUS
    <3>1. CASE i \in 1..Len(waiting_rules)
      <4>1. Line'[i] = Line[i] /\ i \in 1..Len(Line)
        BY <1>1, <2>1, <2>2, <3>1, PlanSequence
      <4> QED BY <1>2, <2>1, <4>1 DEF Registered
    <3>2. CASE i \notin 1..Len(waiting_rules)
      <4>1. PICK k \in 1..Len(todo') : k = i - Len(waiting_rules)
        BY <1>1, <2>1, <2>2, <3>2, PlanSequence
      <4>2. i = Len(waiting_rules) + k
        <5>1. Len(waiting_rules) \in Nat /\ Len(Line') \in Nat
          BY <1>1, <2>1, <2>2
        <5> QED BY <4>1, <5>1
      <4>3. Line'[i] = todo'[k]
        BY <1>1, <2>1, <2>2, <4>2, PlanSequence
      <4> QED BY <2>1, <4>3
    <3> QED BY <3>1, <3>2
  <2>4. Held' \subseteq all_rules'
    BY <1>2, <2>1 DEF Held, Holding
  <2>5. Arranged'
    BY <1>2, <1>3, ArrangedPlan
  <2> QED BY <2>3, <2>4, <2>5 DEF ArrangedInv, Registered
<1>4. ASSUME NEW w \in Workers, Pull(w) PROVE ArrangedInv'
  <2>1. /\ waiting_rules # <<>> /\ graph' = graph /\ all_rules' = all_rules /\ todo' = todo
        /\ waiting_rules' = Tail(waiting_rules)
        /\ rule' = [rule EXCEPT ![w] = Head(waiting_rules)]
        /\ at' = [at EXCEPT ![w] = "stat"]
    BY <1>4 DEF Pull, Go, inputVars, mainVars
  <2>2. /\ Line' = Tail(waiting_rules) \o todo /\ Line \in Seq(Rules) /\ Line' \in Seq(Rules)
        /\ Len(Line) = Len(Line') + 1 /\ Line[1] = Head(waiting_rules)
        /\ \A i \in 1..Len(Line') : Line'[i] = Line[i + 1]
    BY <1>1, <2>1, PullSequence DEF Line
  <2>3. Len(Line') \in Nat
    BY <2>2
  <2>4. \A i \in 1..Len(Line') : i + 1 \in 1..Len(Line)
    BY <2>2, <2>3
  <2>5. \A i \in 1..Len(Line') : Line'[i] \in all_rules
    BY <1>2, <2>2, <2>4 DEF Registered
  <2>6. Head(waiting_rules) \in all_rules
    <3>1. 1 \in 1..Len(Line)
      BY <2>2, <2>3
    <3> QED BY <1>2, <2>2, <3>1 DEF Registered
  <2>7. \A u \in Workers : Holding(u)' => rule'[u] \in all_rules
    BY <1>1, <1>2, <2>1, <2>6 DEF Holding
  <2> QED BY <2>1, <2>5, <2>7, ArrangedKept
<1>5. CASE Push
  <2>1. todo # <<>>
    BY <1>5 DEF Push, ControlInv, MainInPlace
  <2>2. Line' = Line
    <3>1. todo' = Tail(todo) /\ waiting_rules' = Append(waiting_rules, Head(todo))
      BY <1>5 DEF Push
    <3>2. Append(waiting_rules, Head(todo)) \o Tail(todo) = waiting_rules \o todo
      BY <1>1, <2>1, PushSequence
    <3> QED BY <3>1, <3>2 DEF Line
  <2>3. UNCHANGED <<graph, all_rules, at, rule>>
    BY <1>5 DEF Push, inputVars, workerVars
  <2> QED BY <1>2, <2>2, <2>3, ArrangedKept DEF Registered, Holding
<1>6. ASSUME UNCHANGED <<graph, all_rules, waiting_rules, todo>>,
             \A w \in Workers : Holding(w)' => Holding(w) /\ rule'[w] = rule[w]
      PROVE  ArrangedInv'
  <2>1. Line' = Line
    BY <1>6 DEF Line
  <2> QED BY <1>2, <1>6, <2>1, ArrangedKept DEF Registered
<1>7. CASE (MainStep \/ RootSpuriousWakeup) /\ ~Plan /\ ~Push
  <2>1. UNCHANGED <<graph, all_rules, waiting_rules, todo, rule>> /\ (at' = at \/ at' = WakeDozing)
    BY <1>7 DEF MainStep, Skip, Load, Store, Wake, CheckRoot, RootNap, Finish, Join,
                RootSpuriousWakeup, inputVars, mainVars, queueVars, workerVars
  <2>2. \A w \in Workers : Holding(w)' <=> Holding(w)
    BY <2>1 DEF Holding, WakeDozing
  <2> QED BY <1>6, <2>1, <2>2
<1>8. ASSUME NEW w \in Workers, WorkerStep(w) \/ SpuriousWakeup(w), ~Pull(w) PROVE ArrangedInv'
  <2>1. UNCHANGED <<graph, all_rules, waiting_rules, todo>>
    BY <1>8 DEF WorkerStep, Look, Doze, Take, Stat, ChildSucceeded, ChildFailed, ChildUnknown,
                ChildNap, Commands, Satisfied, SpuriousWakeup, Decide, inputVars, mainVars, queueVars
  <2>2. CASE ChildFailed(w) \/ Commands(w) \/ Satisfied(w)
    <3>1. /\ at' = [u \in Workers |-> IF u = w THEN "look"
                                      ELSE IF at[u] = "asleep" THEN "child" ELSE at[u]]
          /\ rule' = [rule EXCEPT ![w] = NoRule]
      BY <2>2 DEF ChildFailed, Commands, Satisfied, Decide
    <3>2. \A u \in Workers : Holding(u)' => Holding(u) /\ rule'[u] = rule[u]
      BY <1>1, <3>1 DEF Holding
    <3> QED BY <1>6, <2>1, <3>2
  <2>3. CASE ~(ChildFailed(w) \/ Commands(w) \/ Satisfied(w))
    <3>1. rule' = rule
      BY <1>8, <2>3 DEF WorkerStep, Look, Doze, Take, Stat, ChildSucceeded, ChildUnknown,
                        ChildNap, SpuriousWakeup, workerVars
    <3>2. /\ \A u \in Workers \ {w} : at'[u] = at[u]
          /\ Holding(w)' <=> Holding(w)
      <4>1. CASE Look(w) \/ Doze(w) \/ Take(w)
        BY <1>1, <4>1 DEF Look, Doze, Take, Go, Holding
      <4>2. CASE Stat(w)
        BY <1>1, <4>2 DEF Stat, Go, Holding
      <4>3. CASE ChildSucceeded(w)
        BY <1>1, <4>3 DEF ChildSucceeded, Go, Holding
      <4>4. CASE ChildUnknown(w) \/ ChildNap(w) \/ SpuriousWakeup(w)
        BY <1>1, <4>4 DEF ChildUnknown, ChildNap, SpuriousWakeup, Go, Holding
      <4> QED BY <1>8, <2>3, <4>1, <4>2, <4>3, <4>4 DEF WorkerStep
    <3>3. \A u \in Workers : Holding(u)' <=> Holding(u)
      BY <3>2 DEF Holding
    <3> QED BY <1>6, <2>1, <3>1, <3>3
  <2> QED BY <2>2, <2>3
<1>9. CASE UNCHANGED vars
  BY <1>6, <1>9 DEF vars, inputVars, mainVars, queueVars, workerVars, Holding
<1> QED BY <1>3, <1>4, <1>5, <1>7, <1>8, <1>9 DEF Next

\* While a worker holds a rule, one of those that do is not at a child that is
\* undecided.  It may still sleep: the broadcast it waits for has been made.
SomeChildDecided ==
    Held # {} => \E w \in Workers :
                    \/ at[w] \in {"stat", "run"}
                    \/ at[w] \in {"child", "nap", "asleep"} /\ Child(w) \in Verified

\* The rules that are held cannot all depend on each other.
LEMMA NoCircle == ControlInv /\ OrderInv /\ ArrangedInv => SomeChildDecided
<1> SUFFICES ASSUME ControlInv, OrderInv, ArrangedInv, Held # {}
             PROVE  \E w \in Workers :
                       \/ at[w] \in {"stat", "run"}
                       \/ at[w] \in {"child", "nap", "asleep"} /\ Child(w) \in Verified
  BY DEF SomeChildDecided
<1>1. Held \in SUBSET all_rules
  BY DEF ArrangedInv, Registered
<1>2. PICK r \in Held : Dependencies(graph, r) \cap Held = {}
  BY <1>1 DEF ArrangedInv, Arranged
<1>3. PICK w \in Workers : Holding(w) /\ rule[w] = r
  BY <1>2 DEF Held
<1>4. Dependencies(graph, rule[w]) \subseteq Verified
  BY <1>2, <1>3 DEF OrderInv, Known
<1>5. at[w] \in {"child", "nap", "asleep"} => Child(w) \in Dependencies(graph, rule[w])
  BY DEF ControlInv, TypeOK, WorkersFit, Child, Dependencies
<1> QED BY <1>3, <1>4, <1>5 DEF Holding

\* job_done is set as main goes to join, when no worker is on its way to sleep
\* on queue_cond; before that no worker exits, and the target at hand is queued.
LateInv ==
    /\ job_done <=> mainAt \in {"join", "returned"}
    /\ \A w \in Workers : /\ at[w] = "exited" => job_done
                          /\ at[w] \in {"drowsy", "dozing"} => ~job_done
    /\ mainAt \in {"load", "store", "push", "wake", "check", "nap", "asleep"}
         => targets[current] \in all_rules

\* The steps of main keep it.
LEMMA LateMain ==
  ASSUME ControlInv, Closed, LateInv, MainStep \/ RootSpuriousWakeup
  PROVE  LateInv'
<1> USE DEF LateInv, inputVars, mainVars, queueVars, workerVars
<1>1. at \in [Workers -> Places] /\ NoWorker \notin Workers /\ LockHeld
  BY DEF ControlInv, TypeOK, CoreTypes, Places
<1>2. CASE Skip
  BY <1>2 DEF Skip
<1>3. CASE Plan
  BY <1>3, PlanCloses DEF Plan
<1>4. CASE Load \/ Store \/ Push
  BY <1>4 DEF Load, Store, Push
<1>5. CASE Wake
  BY <1>5 DEF Wake, WakeDozing
<1>6. CASE CheckRoot \/ RootNap \/ RootSpuriousWakeup
  BY <1>6 DEF CheckRoot, RootNap, RootSpuriousWakeup
<1>7. CASE Finish
  <2>1. \A w \in Workers : at[w] # "drowsy"
    BY <1>1, <1>7 DEF Finish, LockHeld
  <2> QED BY <1>7, <2>1 DEF Finish, WakeDozing
<1>8. CASE Join
  BY <1>8 DEF Join
<1> QED BY <1>2, <1>3, <1>4, <1>5, <1>6, <1>7, <1>8 DEF MainStep

\* The steps of the workers keep it.
LEMMA LateWorker ==
  ASSUME ControlInv, LateInv, NEW w \in Workers, WorkerStep(w) \/ SpuriousWakeup(w)
  PROVE  LateInv'
<1>1. at \in [Workers -> Places]
  BY DEF ControlInv, TypeOK, CoreTypes, Places
<1>2. UNCHANGED <<targets, current, all_rules, job_done>>
  BY DEF WorkerStep, Look, Doze, Take, Pull, Stat, ChildSucceeded, ChildFailed, ChildUnknown,
         ChildNap, Commands, Satisfied, SpuriousWakeup, Decide, inputVars, mainVars, queueVars
<1>3. CASE ChildFailed(w) \/ Commands(w) \/ Satisfied(w)
  <2>1. /\ at' = [u \in Workers |-> IF u = w THEN "look"
                                    ELSE IF at[u] = "asleep" THEN "child" ELSE at[u]]
        /\ mainAt' = IF mainAt = "asleep" THEN "check" ELSE mainAt
    BY <1>3 DEF ChildFailed, Commands, Satisfied, Decide
  <2> QED BY <1>2, <2>1 DEF LateInv
<1>4. CASE ~(ChildFailed(w) \/ Commands(w) \/ Satisfied(w))
  <2>1. mainAt' = mainAt
    BY <1>4 DEF WorkerStep, Look, Doze, Take, Pull, Stat, ChildSucceeded, ChildUnknown,
                ChildNap, SpuriousWakeup, mainVars
  <2>2. /\ \A u \in Workers \ {w} : at'[u] = at[u]
        /\ at'[w] = "exited" => job_done
        /\ at'[w] \in {"drowsy", "dozing"} => ~job_done
    <3>1. CASE Look(w)
      BY <1>1, <3>1 DEF Look, Go
    <3>2. CASE Doze(w) \/ Take(w)
      BY <1>1, <3>2 DEF Doze, Take, Go, LateInv
    <3>3. CASE Pull(w) \/ Stat(w) \/ ChildUnknown(w) \/ ChildNap(w) \/ SpuriousWakeup(w)
      BY <1>1, <3>3 DEF Pull, Stat, ChildUnknown, ChildNap, SpuriousWakeup, Go
    <3>4. CASE ChildSucceeded(w)
      BY <1>1, <3>4 DEF ChildSucceeded, Go
    <3> QED BY <1>4, <3>1, <3>2, <3>3, <3>4 DEF WorkerStep
  <2> QED BY <1>2, <2>1, <2>2 DEF LateInv
<1> QED BY <1>3, <1>4

\* It always holds.
LEMMA LateCorrect == Spec => []LateInv
<1>1. Init => LateInv
  BY DEF Init, LateInv
<1>2. ControlInv /\ Closed /\ LateInv /\ [Next]_vars => LateInv'
  <2> SUFFICES ASSUME ControlInv, Closed, LateInv, [Next]_vars PROVE LateInv'
    OBVIOUS
  <2>1. CASE MainStep \/ RootSpuriousWakeup
    BY <2>1, LateMain
  <2>2. CASE \E w \in Workers : WorkerStep(w) \/ SpuriousWakeup(w)
    BY <2>2, LateWorker
  <2>3. CASE UNCHANGED vars
    BY <2>3 DEF vars, inputVars, mainVars, queueVars, workerVars, LateInv
  <2> QED BY <2>1, <2>2, <2>3 DEF Next
<1> QED BY <1>1, <1>2, ControlCorrect, PTL DEF Spec

\* A target that is neither decided nor held is still in the queue once main
\* waits for it.
LEMMA TargetQueued ==
  ASSUME ControlInv, OrderInv, LateInv, mainAt = "asleep",
         targets[current] \notin Verified, Held = {}
  PROVE  waiting_rules # <<>>
<1>1. targets[current] \in all_rules /\ todo = <<>> /\ waiting_rules \in Seq(Rules)
  BY DEF LateInv, ControlInv, MainInPlace, TypeOK, CoreTypes
<1>2. PICK j \in 1..Len(Line) : Line[j] = targets[current]
  BY <1>1 DEF OrderInv, Placed, Known
<1>3. Line = waiting_rules
  BY <1>1 DEF Line
<1> QED BY <1>1, <1>2, <1>3

\* However many workers, whatever graphs and targets: when all threads wait for
\* good, a broadcast was missed or queue_size is wrong (parmake.c:188, :215,
\* :237, :274); the workers' waiting for their children is never the cause.
THEOREM OnlyRacesHang == Spec => []HangsOnlyByRaces
<1>1. Init => ArrangedInv
  BY DEF Init, ArrangedInv, Arranged, Registered, Line, Held, Holding
<1>2. ControlInv /\ OrderInv /\ ArrangedInv /\ LateInv => HangsOnlyByRaces
  <2> SUFFICES ASSUME ControlInv, OrderInv, ArrangedInv, LateInv, Halted
               PROVE  IF Held # {}
                      THEN \E w \in Workers : SleepsThrough(w)
                      ELSE \/ RootSleepsThrough
                           \/ \E w \in Workers : DozesThrough(w) \/ PullsNothing(w)
    BY DEF HangsOnlyByRaces
  <2>1. \A w \in Workers : at[w] \in {"dozing", "asleep", "exited"} \/ PullsNothing(w)
    BY DEF Halted
  <2>2. CASE Held # {}
    <3>1. PICK w \in Workers : \/ at[w] \in {"stat", "run"}
                               \/ at[w] \in {"child", "nap", "asleep"} /\ Child(w) \in Verified
      BY <2>2, NoCircle DEF SomeChildDecided
    <3>2. SleepsThrough(w)
      BY <2>1, <3>1 DEF PullsNothing, SleepsThrough
    <3> QED BY <2>2, <3>2
  <2>3. CASE Held = {}
    <3>1. \A w \in Workers : at[w] \in {"dozing", "exited"} \/ PullsNothing(w)
      <4>1. \A w \in Workers : ~Holding(w)
        <5> SUFFICES ASSUME NEW w \in Workers, Holding(w) PROVE FALSE
          OBVIOUS
        <5>1. rule[w] \in Held
          BY DEF Held
        <5> QED BY <2>3, <5>1
      <4> QED BY <2>1, <4>1 DEF Holding
    <3>2. CASE mainAt = "asleep" /\ targets[current] \notin Verified
      <4>1. PICK w \in Workers : TRUE
        BY WorkersAssumption
      <4>2. waiting_rules # <<>>
        BY <2>3, <3>2, TargetQueued
      <4>3. at[w] # "exited"
        BY <3>2 DEF LateInv
      <4>4. DozesThrough(w)
        BY <3>1, <4>2, <4>3 DEF DozesThrough, PullsNothing
      <4> QED BY <2>3, <4>4
    <3>3. CASE mainAt = "asleep" /\ targets[current] \in Verified
      BY <2>3, <3>3 DEF RootSleepsThrough
    <3>4. CASE mainAt = "join"
      <4>1. PICK w \in Workers : at[w] # "exited"
        BY <3>4 DEF Halted
      <4>2. at[w] # "dozing"
        BY <3>4 DEF LateInv
      <4>3. PullsNothing(w)
        BY <3>1, <4>1, <4>2
      <4> QED BY <2>3, <4>3
    <3> QED BY <3>2, <3>3, <3>4 DEF Halted
  <2> QED BY <2>2, <2>3
<1> QED BY <1>1, <1>2, ArrangedStep, ControlCorrect, OrderCorrect, LateCorrect, PTL DEF Spec

-----------------------------------------------------------------------------
\* MakeTargets: what main does alone.

HIDE ParmakeAssumption

IsGraph(g) == g \in [Rules -> Seq(Rules)]

\* A rule's dependencies are rules.
LEMMA DependenciesType ==
  ASSUME NEW g, IsGraph(g), NEW r \in Rules
  PROVE  /\ Dependencies(g, r) \subseteq Rules /\ Len(g[r]) \in Nat
         /\ DOMAIN g[r] = 1..Len(g[r])
         /\ \A i \in 1..Len(g[r]) : g[r][i] \in Dependencies(g, r)
<1>1. g[r] \in Seq(Rules)
  BY DEF IsGraph
<1> QED BY <1>1 DEF Dependencies

\* Below is complete, and the least complete set that has the rule.
LEMMA BelowIs ==
  ASSUME NEW g, IsGraph(g), NEW r \in Rules
  PROVE  /\ r \in Below(g, r) /\ Below(g, r) \subseteq Rules
         /\ Complete(g, Below(g, r))
         /\ \A S \in SUBSET Rules : r \in S /\ Complete(g, S) => Below(g, r) \subseteq S
<1>1. r \in Below(g, r) /\ Below(g, r) \subseteq Rules
  BY DEF Below
<1>2. ASSUME NEW a \in Below(g, r), NEW c \in Dependencies(g, a) PROVE c \in Below(g, r)
  <2>1. c \in Rules
    BY <1>1, DependenciesType
  <2>2. ASSUME NEW S \in SUBSET Rules, r \in S, Complete(g, S) PROVE c \in S
    <3>1. a \in S
      BY <2>2 DEF Below
    <3> QED BY <2>2, <3>1 DEF Complete
  <2> QED BY <2>1, <2>2 DEF Below
<1>3. \A S \in SUBSET Rules : r \in S /\ Complete(g, S) => Below(g, r) \subseteq S
  BY DEF Below
<1> QED BY <1>1, <1>2, <1>3 DEF Complete

\* What is below a rule that is below r is below r.
LEMMA BelowBelow ==
  ASSUME NEW g, IsGraph(g), NEW r \in Rules, NEW a \in Below(g, r)
  PROVE  Below(g, a) \subseteq Below(g, r)
<1>1. a \in Rules /\ Below(g, r) \in SUBSET Rules /\ Complete(g, Below(g, r))
  BY BelowIs
<1> QED BY <1>1, BelowIs

\* An edge that leads back to where it was reached from closes a cycle.
LEMMA BackEdge ==
  ASSUME NEW g, NEW r, NEW a \in Below(g, r), NEW c \in Dependencies(g, a), a \in Below(g, c)
  PROVE  Cyclic(g, r)
BY DEF Cyclic, OnCycle

-----------------------------------------------------------------------------
FrameType == [node : Rules, i : Nat \ {0}, ok : BOOLEAN, must : BOOLEAN]

\* The types of main's variables.
TargetsTypeOK ==
    /\ threads \in BOOLEAN /\ IsGraph(graph) /\ targets \in Seq(Rules)
    /\ fails \subseteq Rules /\ writes \subseteq Rules
    /\ current \in Nat \ {0}
    /\ phase \in {"target", "verify", "pass", "run"}
    /\ stack \in Seq(FrameType)
    /\ black \subseteq Rules /\ grey \in Seq(Rules) /\ refused \subseteq Rules
    /\ fresh_rules \subseteq Rules /\ all_rules \subseteq Rules /\ pushed \in Seq(Rules)
    /\ visited \subseteq Rules /\ ran \in Seq(Rules) /\ result \in BOOLEAN

\* What the recursion does to the stack: a call is entered, or the loop of the
\* n-th call goes on, those above it having returned.
Entered(c, m) ==
    /\ Len(stack') = Len(stack) + 1
    /\ \A k \in 1..Len(stack) : stack'[k] = stack[k]
    /\ stack'[Len(stack) + 1] = Frame(c, m)

WentOn(n, ok) ==
    /\ Len(stack') = n
    /\ \A k \in 1..(n - 1) : stack'[k] = stack[k]
    /\ n > 0 => /\ stack'[n].node = stack[n].node
                /\ stack'[n].i = stack[n].i + 1
                /\ stack'[n].ok = (stack[n].ok /\ ok)
                /\ stack'[n].must = stack[n].must

\* The frame whose loop goes on.
LEMMA AdvancedIs ==
  ASSUME NEW s \in Seq(FrameType), s # <<>>, NEW ok \in BOOLEAN, NEW t, t = Advanced(s, ok)
  PROVE  /\ t \in Seq(FrameType) /\ Len(t) = Len(s)
         /\ \A k \in 1..(Len(s) - 1) : t[k] = s[k]
         /\ t[Len(s)].node = s[Len(s)].node /\ t[Len(s)].i = s[Len(s)].i + 1
         /\ t[Len(s)].ok = (s[Len(s)].ok /\ ok) /\ t[Len(s)].must = s[Len(s)].must
<1>1. Len(s) \in Nat \ {0}
  OBVIOUS
<1>2. PICK e \in FrameType : e = s[Len(s)]
  BY <1>1
<1>3. PICK v \in BOOLEAN : v = (e.ok /\ ok)
  BY DEF FrameType
<1>4. PICK f : f = [e EXCEPT !.i = e.i + 1, !.ok = v]
  OBVIOUS
<1>5. f.node = e.node /\ f.i = e.i + 1 /\ f.must = e.must /\ f.ok = v /\ f \in FrameType
  <2>1. e = [node |-> e.node, i |-> e.i, ok |-> e.ok, must |-> e.must]
    BY DEF FrameType
  <2>2. f = [node |-> e.node, i |-> e.i + 1, ok |-> v, must |-> e.must]
    BY <1>4, <2>1
  <2>3. e.node \in Rules /\ e.i \in Nat \ {0} /\ e.must \in BOOLEAN
    BY DEF FrameType
  <2> QED BY <2>2, <2>3 DEF FrameType
<1>6. t = [s EXCEPT ![Len(s)] = f]
  <2>1. f = [e EXCEPT !.i = e.i + 1, !.ok = e.ok /\ ok]
    BY <1>3, <1>4
  <2> QED BY <1>2, <2>1 DEF Advanced
<1>7. t \in Seq(FrameType) /\ Len(t) = Len(s) /\ t[Len(s)] = f
      /\ \A k \in 1..(Len(s) - 1) : t[k] = s[k]
  BY <1>1, <1>5, <1>6
<1> QED BY <1>2, <1>3, <1>5, <1>7

\* A call is entered.
LEMMA EnterIs ==
  ASSUME TargetsTypeOK, NEW c \in Rules, NEW m \in BOOLEAN, Enter(c, m)
  PROVE  stack' \in Seq(FrameType) /\ Entered(c, m)
<1>1. Frame(c, m) \in FrameType
  BY DEF Frame, FrameType
<1> QED BY <1>1 DEF Enter, Entered, TargetsTypeOK

\* The loop goes on.
LEMMA GoOnIs ==
  ASSUME TargetsTypeOK, stack # <<>>, NEW ok \in BOOLEAN, GoOn(ok)
  PROVE  stack' \in Seq(FrameType) /\ WentOn(Len(stack), ok)
<1>1. stack \in Seq(FrameType) /\ Len(stack) \in Nat \ {0}
  BY DEF TargetsTypeOK
<1>2. stack' = Advanced(stack, ok)
  BY DEF GoOn
<1> QED BY <1>1, <1>2, AdvancedIs DEF WentOn

\* The call at the top returns.
LEMMA ReturnIs ==
  ASSUME TargetsTypeOK, stack # <<>>, NEW ok \in BOOLEAN, Return(ok)
  PROVE  stack' \in Seq(FrameType) /\ WentOn(Len(stack) - 1, ok)
<1>1. stack \in Seq(FrameType) /\ Len(stack) \in Nat \ {0}
  BY DEF TargetsTypeOK
<1>2. CASE Len(stack) = 1
  BY <1>2 DEF Return, WentOn
<1>3. CASE Len(stack) # 1
  <2>1. PICK s : s = SubSeq(stack, 1, Len(stack) - 1)
    OBVIOUS
  <2>2. PICK n : n = Len(stack) - 1
    OBVIOUS
  <2>3. n \in Nat \ {0}
    BY <1>1, <1>3, <2>2
  <2>4. s = SubSeq(stack, 1, n) /\ n \in 1..Len(stack)
    BY <1>1, <2>1, <2>2, <2>3
  <2>5. s \in Seq(FrameType) /\ Len(s) = n /\ \A k \in 1..n : s[k] = stack[k]
    BY <1>1, <2>4
  <2>6. s # <<>>
    BY <2>3, <2>5
  <2>7. stack' = Advanced(s, ok)
    BY <1>3, <2>1 DEF Return
  <2>8. stack' \in Seq(FrameType) /\ WentOn(n, ok)
    <3>1. /\ stack' \in Seq(FrameType) /\ Len(stack') = Len(s)
          /\ \A k \in 1..(Len(s) - 1) : stack'[k] = s[k]
          /\ stack'[Len(s)].node = s[Len(s)].node /\ stack'[Len(s)].i = s[Len(s)].i + 1
          /\ stack'[Len(s)].ok = (s[Len(s)].ok /\ ok)
          /\ stack'[Len(s)].must = s[Len(s)].must
      BY <2>5, <2>6, <2>7, AdvancedIs
    <3>2. n \in 1..n /\ \A k \in 1..(n - 1) : k \in 1..n
      BY <2>3
    <3> QED BY <2>5, <3>1, <3>2 DEF WentOn
  <2> QED BY <2>2, <2>8
<1> QED BY <1>2, <1>3

-----------------------------------------------------------------------------
\* A frame of the stack.
LEMMA FrameIs ==
  ASSUME TargetsTypeOK, NEW k \in 1..Len(stack)
  PROVE  /\ stack[k].node \in Rules /\ stack[k].i \in Nat \ {0}
         /\ stack[k].ok \in BOOLEAN /\ stack[k].must \in BOOLEAN
         /\ Len(graph[stack[k].node]) \in Nat
         /\ DOMAIN graph[stack[k].node] = 1..Len(graph[stack[k].node])
         /\ \A i \in 1..Len(graph[stack[k].node]) :
              graph[stack[k].node][i] \in Rules \cap Dependencies(graph, stack[k].node)
<1>1. stack[k] \in FrameType /\ IsGraph(graph)
  BY DEF TargetsTypeOK
<1>2. /\ stack[k].node \in Rules /\ stack[k].i \in Nat \ {0}
      /\ stack[k].ok \in BOOLEAN /\ stack[k].must \in BOOLEAN
  BY <1>1 DEF FrameType
<1> QED BY <1>1, <1>2, DependenciesType

\* Each call was made by the one before, for the child its loop is at, and the
\* first one for the target; what is called is below all that called it, and
\* nothing is explored within its own exploration.
InLoop == \A k \in 1..Len(stack) : stack[k].i <= Len(graph[stack[k].node]) + 1
CalledBy ==
    \A k \in 1..(Len(stack) - 1) :
       /\ stack[k].i <= Len(graph[stack[k].node])
       /\ graph[stack[k].node][stack[k].i] = stack[k + 1].node
RootFirst == stack # <<>> => stack[1].node = Root
Linked == \A j, k \in 1..Len(stack) :
             j <= k => stack[k].node \in Below(graph, stack[j].node)
Apart == \A j, k \in 1..Len(stack) : stack[j].node = stack[k].node => j = k

Calls == InLoop /\ CalledBy /\ RootFirst /\ Linked /\ Apart

OnStack(c) == \E k \in 1..Len(stack) : stack[k].node = c

\* The call at the top, and the child its loop is at.
LEMMA TopIs ==
  ASSUME TargetsTypeOK, stack # <<>>
  PROVE  /\ Len(stack) \in Nat \ {0} /\ Len(stack) \in 1..Len(stack)
         /\ Top.node \in Rules /\ Top.i \in Nat \ {0} /\ Len(graph[Top.node]) \in Nat
         /\ Top.ok \in BOOLEAN /\ Top.must \in BOOLEAN
         /\ AtChild => NextChild \in Rules /\ NextChild \in Dependencies(graph, Top.node)
<1>1. Len(stack) \in Nat \ {0} /\ Len(stack) \in 1..Len(stack)
  BY DEF TargetsTypeOK
<1> QED BY <1>1, FrameIs DEF Top, AtChild, NextChild

\* The first call.
LEMMA StartedCalls ==
  ASSUME TargetsTypeOK, Root \in Rules, NEW m \in BOOLEAN, stack' = <<Frame(Root, m)>>,
         UNCHANGED <<graph, Root>>
  PROVE  Calls' /\ stack' \in Seq(FrameType)
<1>1. PICK f : f = Frame(Root, m)
  OBVIOUS
<1>2. f \in FrameType /\ f.node = Root /\ f.i = 1
  BY <1>1 DEF Frame, FrameType
<1>3. stack' = <<f>> /\ Len(stack') = 1 /\ stack'[1] = f /\ stack' \in Seq(FrameType)
  BY <1>1, <1>2
<1>4. Len(graph[Root]) \in Nat /\ Root \in Below(graph, Root)
  BY DependenciesType, BelowIs DEF TargetsTypeOK
<1> QED BY <1>2, <1>3, <1>4 DEF Calls, InLoop, CalledBy, RootFirst, Linked, Apart

\* No call is left.
LEMMA EndedCalls ==
  ASSUME stack' = <<>>
  PROVE  Calls' /\ stack' \in Seq(FrameType)
BY DEF Calls, InLoop, CalledBy, RootFirst, Linked, Apart

\* A call for the child at hand, which is not being explored.
LEMMA EnteredCalls ==
  ASSUME TargetsTypeOK, Calls, AtChild, ~OnStack(NextChild), NEW m, Entered(NextChild, m),
         UNCHANGED <<graph, Root>>
  PROVE  Calls'
<1>1. stack # <<>> /\ NextChild \in Rules /\ NextChild \in Dependencies(graph, Top.node)
  BY TopIs DEF AtChild
<1>2. PICK n : n = Len(stack)
  OBVIOUS
<1>3. n \in Nat \ {0} /\ stack[n] = Top
  BY <1>1, <1>2, TopIs DEF Top
<1>4. /\ Len(stack') = n + 1 /\ \A k \in 1..n : stack'[k] = stack[k]
      /\ stack'[n + 1].node = NextChild /\ stack'[n + 1].i = 1
  BY <1>2 DEF Entered, Frame
<1>5. \A k \in 1..(n + 1) : k \in 1..n \/ k = n + 1
  BY <1>3
<1>6. \A k \in 1..n : stack[k].node \in Rules
  BY <1>2, FrameIs
<1>7. InLoop'
  <2>1. Len(graph[NextChild]) \in Nat
    BY <1>1, DependenciesType DEF TargetsTypeOK
  <2>2. Len(stack') = n + 1 /\ graph' = graph
    BY <1>4
  <2>3. ASSUME NEW k \in 1..(n + 1)
        PROVE  stack'[k].i <= Len(graph[stack'[k].node]) + 1
    <3>1. CASE k \in 1..n
      <4>1. stack[k].i <= Len(graph[stack[k].node]) + 1
        BY <1>2, <3>1 DEF InLoop, Calls
      <4> QED BY <1>4, <3>1, <4>1
    <3>2. CASE k = n + 1
      BY <1>4, <2>1, <3>2
    <3> QED BY <1>5, <3>1, <3>2
  <2> QED BY <2>2, <2>3 DEF InLoop
<1>8. CalledBy'
  <2>1. \A k \in 1..n : k \in 1..(n - 1) \/ k = n
    BY <1>3
  <2>2. \A k \in 1..(n - 1) : k + 1 \in 1..n /\ k \in 1..n
    BY <1>3
  <2>3. Top.i <= Len(graph[Top.node]) /\ NextChild = graph[Top.node][Top.i]
    BY DEF AtChild, NextChild
  <2>4. n \in 1..n
    BY <1>3
  <2>5. ASSUME NEW k \in 1..(n - 1)
        PROVE  /\ stack'[k].i <= Len(graph[stack'[k].node])
               /\ graph[stack'[k].node][stack'[k].i] = stack'[k + 1].node
    BY <1>2, <1>4, <2>2 DEF CalledBy, Calls
  <2>6. /\ stack'[n].i <= Len(graph[stack'[n].node])
        /\ graph[stack'[n].node][stack'[n].i] = stack'[n + 1].node
    BY <1>3, <1>4, <2>3, <2>4
  <2>7. (n + 1) - 1 = n
    BY <1>3
  <2> QED BY <1>4, <2>1, <2>5, <2>6, <2>7 DEF CalledBy
<1>9. RootFirst'
  <2>1. 1 \in 1..n
    BY <1>3
  <2> QED BY <1>1, <1>2, <1>4, <2>1 DEF RootFirst, Calls
<1>10. Linked'
  <2>1. ASSUME NEW j \in 1..n PROVE NextChild \in Below(graph, stack[j].node)
    <3>1. Top.node \in Below(graph, stack[j].node)
      <4>1. n \in 1..n /\ j <= n
        BY <1>3
      <4> QED BY <1>2, <1>3, <4>1 DEF Linked, Calls
    <3>2. Complete(graph, Below(graph, stack[j].node))
      BY <1>6, BelowIs DEF TargetsTypeOK
    <3> QED BY <1>1, <3>1, <3>2 DEF Complete
  <2>2. NextChild \in Below(graph, NextChild)
    BY <1>1, BelowIs DEF TargetsTypeOK
  <2>3. ASSUME NEW j \in 1..(n + 1), NEW k \in 1..(n + 1), j <= k
        PROVE  stack'[k].node \in Below(graph, stack'[j].node)
    <3>1. CASE k \in 1..n
      <4>1. j \in 1..n
        BY <1>3, <2>3, <3>1
      <4> QED BY <1>2, <1>4, <2>3, <3>1, <4>1 DEF Linked, Calls
    <3>2. CASE k = n + 1
      BY <1>4, <1>5, <2>1, <2>2, <3>2
    <3> QED BY <1>5, <3>1, <3>2
  <2> QED BY <1>4, <2>3 DEF Linked
<1>11. Apart'
  <2>1. \A k \in 1..n : stack[k].node # NextChild
    BY <1>2 DEF OnStack
  <2>2. ASSUME NEW j \in 1..(n + 1), NEW k \in 1..(n + 1), stack'[j].node = stack'[k].node
        PROVE  j = k
    <3>1. CASE j \in 1..n /\ k \in 1..n
      BY <1>2, <1>4, <2>2, <3>1 DEF Apart, Calls
    <3> QED BY <1>4, <1>5, <2>1, <2>2, <3>1
  <2> QED BY <1>4, <2>2 DEF Apart
<1> QED BY <1>7, <1>8, <1>9, <1>10, <1>11 DEF Calls

\* A loop goes on, which is at a child.
LEMMA WentOnCalls ==
  ASSUME TargetsTypeOK, Calls, NEW n \in Nat, n <= Len(stack), NEW ok, WentOn(n, ok),
         n > 0 => stack[n].i <= Len(graph[stack[n].node]), UNCHANGED <<graph, Root>>
  PROVE  Calls'
<1>1. Len(stack) \in Nat /\ \A k \in 1..n : k \in 1..Len(stack)
  BY DEF TargetsTypeOK
<1>2. ASSUME NEW k \in 1..n PROVE stack'[k].node = stack[k].node
  <2>1. k \in 1..(n - 1) \/ (k = n /\ n > 0)
    OBVIOUS
  <2> QED BY <2>1 DEF WentOn
<1>3. InLoop'
  <2>1. ASSUME NEW k \in 1..n PROVE stack'[k].i <= Len(graph[stack'[k].node]) + 1
    <3>1. CASE k \in 1..(n - 1)
      BY <1>1, <3>1 DEF WentOn, InLoop, Calls
    <3>2. CASE k = n
      <4>1. stack'[n].i = stack[n].i + 1 /\ n > 0
        BY <3>2 DEF WentOn
      <4>2. stack[n].i \in Nat /\ Len(graph[stack[n].node]) \in Nat
        BY <1>1, <3>2, FrameIs
      <4> QED BY <1>2, <3>2, <4>1, <4>2
    <3> QED BY <3>1, <3>2
  <2> QED BY <2>1 DEF InLoop, WentOn
<1>4. CalledBy'
  <2>1. ASSUME NEW k \in 1..(n - 1)
        PROVE  /\ stack'[k].i <= Len(graph[stack'[k].node])
               /\ graph[stack'[k].node][stack'[k].i] = stack'[k + 1].node
    <3>1. k \in 1..(Len(stack) - 1) /\ k + 1 \in 1..n /\ stack'[k] = stack[k]
      BY <1>1 DEF WentOn
    <3> QED BY <1>2, <3>1 DEF CalledBy, Calls
  <2> QED BY <2>1 DEF CalledBy, WentOn
<1>5. RootFirst'
  <2>1. CASE n = 0
    BY <2>1 DEF WentOn, RootFirst
  <2>2. CASE n # 0
    <3>1. 1 \in 1..n /\ stack # <<>>
      BY <1>1, <2>2
    <3> QED BY <1>2, <3>1 DEF RootFirst, Calls
  <2> QED BY <2>1, <2>2
<1>6. Linked'
  BY <1>1, <1>2 DEF Linked, Calls, WentOn
<1>7. Apart'
  BY <1>1, <1>2 DEF Apart, Calls, WentOn
<1> QED BY <1>3, <1>4, <1>5, <1>6, <1>7 DEF Calls

\* Where main is, its target, and its calls.
Control ==
    /\ phase = "target" => stack = <<>>
    /\ phase = "verify" => stack # <<>>
    /\ phase # "target" => current <= Len(targets)
    /\ Calls

\* The grey vector holds what is being explored.
GreyIs == phase = "verify" => /\ Len(grey) = Len(stack)
                           /\ \A k \in 1..Len(stack) : grey[k] = stack[k].node

\* Black rules depend on black rules only and are on no cycle; the children
\* that a loop has passed are black.
BlackSound ==
    phase = "verify" =>
       /\ Complete(graph, black) /\ \A b \in black : ~OnCycle(graph, b)
       /\ \A k \in 1..Len(stack) :
            /\ stack[k].node \notin black
            /\ \A i \in 1..(stack[k].i - 1) : graph[stack[k].node][i] \in black

\* What is queued or made is below a target from which no cycle is reached.
TargetSound == phase \in {"pass", "run"} => ~Cyclic(graph, Root)

\* The targets that are done have been refused if and only if they are cyclic.
RefusedSound ==
    /\ \A r \in refused : Cyclic(graph, r)
    /\ \A i \in 1..(current - 1) : Cyclic(graph, targets[i]) => targets[i] \in refused

TargetsInv ==
    TargetsTypeOK /\ Control /\ GreyIs /\ BlackSound /\ TargetSound /\ RefusedSound

\* The target at hand is a rule.
LEMMA RootType ==
  ASSUME TargetsTypeOK, current <= Len(targets)
  PROVE  Root \in Rules
BY DEF TargetsTypeOK, Root

\* The inputs stay, and so does the target while main is at it.
LEMMA InputsStay ==
  ASSUME TargetsTypeOK, UNCHANGED inputs
  PROVE  /\ UNCHANGED <<threads, graph, targets, fails, writes>>
         /\ current' = current => UNCHANGED Root
BY DEF inputs, Root

\* Nothing that is being explored is below itself.
LEMMA ChildIsNew ==
  ASSUME TargetsTypeOK, Calls, AtChild, ~Cyclic(graph, Root)
  PROVE  ~OnStack(NextChild)
<1>1. stack # <<>>
  BY DEF AtChild
<1>2. Len(stack) \in 1..Len(stack) /\ NextChild \in Dependencies(graph, Top.node)
      /\ 1 \in 1..Len(stack) /\ 1 <= Len(stack)
  BY <1>1, TopIs
<1>3. Top.node \in Below(graph, Root)
  BY <1>1, <1>2 DEF Calls, Linked, RootFirst, Top
<1>4. ASSUME NEW k \in 1..Len(stack), stack[k].node = NextChild PROVE FALSE
  <2>1. k <= Len(stack)
    BY <1>2
  <2>2. Top.node \in Below(graph, NextChild)
    BY <1>2, <1>4, <2>1 DEF Calls, Linked, Top
  <2> QED BY <1>2, <1>3, <2>2, BackEdge
<1> QED BY <1>4 DEF OnStack

\* The child's loop goes on, or a call returns and its caller's loop goes on.
LEMMA GoOnCalls ==
  ASSUME TargetsTypeOK, Calls, AtChild, NEW ok \in BOOLEAN, GoOn(ok), UNCHANGED <<graph, Root>>
  PROVE  /\ WentOn(Len(stack), ok) /\ Len(stack) \in Nat /\ Len(stack) > 0
         /\ stack' \in Seq(FrameType) /\ Calls'
<1>1. stack # <<>> /\ stack[Len(stack)].i <= Len(graph[stack[Len(stack)].node])
  BY DEF AtChild, Top
<1>2. Len(stack) \in Nat /\ Len(stack) > 0
  BY <1>1, TopIs
<1>3. stack' \in Seq(FrameType) /\ WentOn(Len(stack), ok)
  BY <1>1, GoOnIs
<1> QED BY <1>1, <1>2, <1>3, WentOnCalls

\* A call ends, and its caller's loop goes on with the next child.
LEMMA ReturnCalls ==
  ASSUME TargetsTypeOK, Calls, AtEnd, NEW ok \in BOOLEAN, Return(ok), UNCHANGED <<graph, Root>>
  PROVE  /\ WentOn(Len(stack) - 1, ok) /\ Len(stack) - 1 \in Nat
         /\ stack' \in Seq(FrameType) /\ Calls'
<1>1. stack # <<>>
  BY DEF AtEnd
<1>2. PICK n : n = Len(stack) - 1
  OBVIOUS
<1>3. n \in Nat /\ n <= Len(stack) /\ (n > 0 => n \in 1..(Len(stack) - 1))
  BY <1>1, <1>2, TopIs
<1>4. stack' \in Seq(FrameType) /\ WentOn(n, ok)
  BY <1>1, <1>2, ReturnIs
<1>5. n > 0 => stack[n].i <= Len(graph[stack[n].node])
  BY <1>3 DEF Calls, CalledBy
<1> QED BY <1>2, <1>3, <1>4, <1>5, WentOnCalls

\* A call is made for a child that is not being explored.
LEMMA EnterCalls ==
  ASSUME TargetsTypeOK, Calls, AtChild, ~OnStack(NextChild), NEW m \in BOOLEAN,
         Enter(NextChild, m), UNCHANGED <<graph, Root>>
  PROVE  /\ Entered(NextChild, m) /\ Len(stack) \in Nat \ {0}
         /\ stack' \in Seq(FrameType) /\ Calls'
<1>1. stack # <<>> /\ NextChild \in Rules /\ Len(stack) \in Nat \ {0}
  BY TopIs DEF AtChild
<1>2. stack' \in Seq(FrameType) /\ Entered(NextChild, m)
  BY <1>1, EnterIs
<1> QED BY <1>1, <1>2, EnteredCalls

-----------------------------------------------------------------------------
\* The actions of the cycle check.
LEMMA VerifyKeeps == TargetsInv /\ Verify => TargetsInv'
<1> SUFFICES ASSUME TargetsInv, Verify PROVE TargetsInv'
  OBVIOUS
<1>1. TargetsTypeOK /\ UNCHANGED <<inputs, current, refused, queueing, making>>
      /\ stack' = <<Frame(Root, FALSE)>> /\ black' = {} /\ grey' = <<Root>>
      /\ phase' = "verify" /\ current <= Len(targets)
  BY DEF TargetsInv, Verify
<1>2. UNCHANGED <<threads, graph, targets, fails, writes>> /\ UNCHANGED Root /\ Root \in Rules
  BY <1>1, InputsStay, RootType
<1>3. Calls' /\ stack' \in Seq(FrameType)
  <2>1. PICK v \in BOOLEAN : v = FALSE
    OBVIOUS
  <2> QED BY <1>1, <1>2, <2>1, StartedCalls
<1>4. grey' \in Seq(Rules) /\ Len(grey') = 1 /\ grey'[1] = Root
  BY <1>1, <1>2
<1>5. TargetsTypeOK'
  BY <1>1, <1>2, <1>3, <1>4 DEF TargetsTypeOK, queueing, making
<1>6. Len(stack') = 1 /\ stack'[1].node = Root /\ stack'[1].i = 1 /\ stack' # <<>>
  BY <1>1 DEF Frame
<1>7. Control'
  BY <1>1, <1>2, <1>3, <1>6 DEF Control
<1>8. GreyIs'
  BY <1>4, <1>6 DEF GreyIs
<1>9. BlackSound'
  <2>1. Complete(graph', {}) /\ \A k \in 1..1 : k = 1
    BY DEF Complete
  <2>2. 1..(1 - 1) = {}
    OBVIOUS
  <2>3. \A k \in 1..Len(stack') : stack'[k].i = 1
    BY <1>6, <2>1
  <2>4. \A k \in 1..Len(stack') : stack'[k].node \notin black'
                                 /\ 1..(stack'[k].i - 1) = {}
    BY <1>1, <2>2, <2>3
  <2> QED BY <1>1, <2>1, <2>4 DEF BlackSound
<1>10. TargetSound' /\ RefusedSound'
  BY <1>1, <1>2 DEF TargetSound, RefusedSound, TargetsInv
<1> QED BY <1>5, <1>7, <1>8, <1>9, <1>10 DEF TargetsInv

\* DFS_verify passes a black child by.
LEMMA VerifyBlackKeeps == TargetsInv /\ VerifyBlack => TargetsInv'
<1> SUFFICES ASSUME TargetsInv, VerifyBlack PROVE TargetsInv'
  OBVIOUS
<1>1. /\ TargetsTypeOK /\ Calls /\ AtChild /\ NextChild \in black /\ GoOn(TRUE)
      /\ phase = "verify" /\ phase' = phase /\ current' = current /\ current <= Len(targets)
      /\ UNCHANGED <<inputs, verifying, queueing, making>>
  BY DEF TargetsInv, VerifyBlack, Control
<1>2. UNCHANGED <<threads, graph, targets, fails, writes>> /\ UNCHANGED Root
  BY <1>1, InputsStay
<1>3. PICK n : n = Len(stack)
  OBVIOUS
<1>4. PICK v \in BOOLEAN : v = TRUE
  OBVIOUS
<1>5. /\ WentOn(n, v) /\ n \in Nat /\ n > 0 /\ stack' \in Seq(FrameType) /\ Calls'
  BY <1>1, <1>2, <1>3, <1>4, GoOnCalls
<1>6. TargetsTypeOK'
  BY <1>1, <1>2, <1>5 DEF TargetsTypeOK, verifying, queueing, making
<1>7. Control'
  <2>1. stack' # <<>>
    BY <1>5 DEF WentOn
  <2> QED BY <1>1, <1>2, <1>5, <2>1 DEF Control
<1>8. UNCHANGED <<black, grey, refused>>
  BY <1>1 DEF verifying
<1>9. \A k \in 1..n : stack'[k].node = stack[k].node
  BY <1>5 DEF WentOn
<1>10. GreyIs'
  BY <1>1, <1>3, <1>5, <1>8, <1>9 DEF GreyIs, TargetsInv, WentOn
<1>11. BlackSound'
  <2>1. ASSUME NEW k \in 1..n, NEW i \in 1..(stack'[k].i - 1)
        PROVE  graph[stack'[k].node][i] \in black
    <3>1. CASE k \in 1..(n - 1)
      <4>1. stack'[k] = stack[k]
        BY <1>5, <3>1 DEF WentOn
      <4> QED BY <1>1, <1>3, <2>1, <4>1 DEF BlackSound, TargetsInv
    <3>2. CASE k = n
      <4>1. stack'[n].i = stack[n].i + 1 /\ stack[n].i \in Nat
        BY <1>1, <1>3, <1>5, <3>2, FrameIs DEF WentOn
      <4>2. i \in 1..(stack[n].i - 1) \/ i = stack[n].i
        BY <2>1, <3>2, <4>1
      <4>3. graph[stack[n].node][stack[n].i] \in black
        BY <1>1, <1>3 DEF NextChild, Top
      <4> QED BY <1>1, <1>3, <1>9, <3>2, <4>2, <4>3 DEF BlackSound, TargetsInv
    <3> QED BY <1>5, <3>1, <3>2
  <2> QED BY <1>1, <1>2, <1>3, <1>5, <1>8, <1>9, <2>1 DEF BlackSound, TargetsInv, WentOn
<1>12. TargetSound' /\ RefusedSound'
  BY <1>1, <1>2, <1>8 DEF TargetSound, RefusedSound, TargetsInv
<1> QED BY <1>6, <1>7, <1>10, <1>11, <1>12 DEF TargetsInv

\* DFS_verify goes down to a child that is neither black nor grey.
LEMMA VerifyChildKeeps == TargetsInv /\ VerifyChild => TargetsInv'
<1> SUFFICES ASSUME TargetsInv, VerifyChild PROVE TargetsInv'
  OBVIOUS
<1>1. /\ TargetsTypeOK /\ Calls /\ AtChild /\ NextChild \notin black /\ ~IsGrey(NextChild)
      /\ Enter(NextChild, FALSE) /\ grey' = Append(grey, NextChild)
      /\ phase = "verify" /\ phase' = phase /\ current' = current /\ current <= Len(targets)
      /\ UNCHANGED <<inputs, black, refused, queueing, making>>
  BY DEF TargetsInv, VerifyChild, Control
<1>2. UNCHANGED <<threads, graph, targets, fails, writes>> /\ UNCHANGED Root
  BY <1>1, InputsStay
<1>3. PICK n : n = Len(stack)
  OBVIOUS
<1>4. PICK v \in BOOLEAN : v = FALSE
  OBVIOUS
<1>5. Len(grey) = n /\ \A k \in 1..n : grey[k] = stack[k].node
  BY <1>1, <1>3 DEF GreyIs, TargetsInv
<1>6. ~OnStack(NextChild)
  BY <1>1, <1>3, <1>5 DEF OnStack, IsGrey
<1>7. Entered(NextChild, v) /\ n \in Nat \ {0} /\ stack' \in Seq(FrameType) /\ Calls'
  BY <1>1, <1>2, <1>3, <1>4, <1>6, EnterCalls
<1>8. NextChild \in Rules
  BY <1>1, TopIs DEF AtChild
<1>9. /\ grey' \in Seq(Rules) /\ Len(grey') = n + 1 /\ grey'[n + 1] = NextChild
      /\ \A k \in 1..n : grey'[k] = grey[k]
  BY <1>1, <1>5, <1>7, <1>8 DEF TargetsTypeOK
<1>10. TargetsTypeOK'
  BY <1>1, <1>2, <1>7, <1>9 DEF TargetsTypeOK, queueing, making
<1>11. /\ Len(stack') = n + 1 /\ stack'[n + 1].node = NextChild /\ stack'[n + 1].i = 1
       /\ \A k \in 1..n : stack'[k] = stack[k]
  BY <1>3, <1>7 DEF Entered, Frame
<1>12. Control'
  <2>1. stack' # <<>>
    BY <1>7, <1>11
  <2> QED BY <1>1, <1>2, <1>7, <2>1 DEF Control
<1>13. \A k \in 1..(n + 1) : k \in 1..n \/ k = n + 1
  BY <1>7
<1>14. GreyIs'
  BY <1>5, <1>9, <1>11, <1>13 DEF GreyIs
<1>15. BlackSound'
  <2>1. ASSUME NEW k \in 1..(n + 1)
        PROVE  /\ stack'[k].node \notin black
               /\ \A i \in 1..(stack'[k].i - 1) : graph[stack'[k].node][i] \in black
    <3>1. CASE k \in 1..n
      BY <1>1, <1>3, <1>11, <3>1 DEF BlackSound, TargetsInv
    <3>2. CASE k = n + 1
      BY <1>1, <1>11, <3>2
    <3> QED BY <1>13, <3>1, <3>2
  <2> QED BY <1>1, <1>2, <1>11, <2>1 DEF BlackSound, TargetsInv
<1>16. TargetSound' /\ RefusedSound'
  BY <1>1, <1>2 DEF TargetSound, RefusedSound, TargetsInv
<1> QED BY <1>10, <1>12, <1>14, <1>15, <1>16 DEF TargetsInv

\* A child that is being explored closes a cycle.
LEMMA RefuseKeeps == TargetsInv /\ Refuse => TargetsInv'
<1> SUFFICES ASSUME TargetsInv, Refuse PROVE TargetsInv'
  OBVIOUS
<1>1. /\ TargetsTypeOK /\ Calls /\ AtChild /\ IsGrey(NextChild) /\ phase = "verify"
      /\ stack' = <<>> /\ refused' = refused \cup {Root} /\ phase' = "target"
      /\ current' = current + 1 /\ current <= Len(targets)
      /\ UNCHANGED <<inputs, black, grey, queueing, making>>
  BY DEF TargetsInv, Refuse, Control, NextTarget
<1>2. UNCHANGED <<threads, graph, targets, fails, writes>> /\ Root \in Rules
  BY <1>1, InputsStay, RootType
<1>3. Calls' /\ stack' \in Seq(FrameType)
  BY <1>1, EndedCalls
<1>4. stack # <<>>
  BY <1>1 DEF AtChild
<1>5. OnStack(NextChild)
  BY <1>1 DEF OnStack, IsGrey, GreyIs, TargetsInv
<1>6. Cyclic(graph, Root)
  BY <1>1, <1>5, ChildIsNew
<1>7. TargetsTypeOK'
  BY <1>1, <1>2, <1>3 DEF TargetsTypeOK, queueing, making
<1>8. Control' /\ GreyIs' /\ BlackSound' /\ TargetSound'
  BY <1>1, <1>3 DEF Control, GreyIs, BlackSound, TargetSound
<1>9. RefusedSound'
  <2>1. \A r \in refused' : Cyclic(graph', r)
    BY <1>1, <1>2, <1>6 DEF RefusedSound, TargetsInv
  <2>2. \A i \in 1..(current' - 1) : i \in 1..(current - 1) \/ i = current
    BY <1>1 DEF TargetsTypeOK
  <2>3. targets[current] \in refused'
    BY <1>1 DEF Root
  <2> QED BY <1>1, <1>2, <2>1, <2>2, <2>3 DEF RefusedSound, TargetsInv
<1> QED BY <1>7, <1>8, <1>9 DEF TargetsInv

\* A rule whose children are all black is on no cycle: what is below them is
\* black, and it is not.
LEMMA BlackenedSound ==
  ASSUME NEW g, IsGraph(g), NEW b \in SUBSET Rules, NEW a \in Rules, a \notin b,
         Complete(g, b), \A c \in b : ~OnCycle(g, c), Dependencies(g, a) \subseteq b
  PROVE  /\ Complete(g, b \cup {a}) /\ \A c \in b \cup {a} : ~OnCycle(g, c)
         /\ ~Cyclic(g, a)
<1>1. \A c \in Dependencies(g, a) : c \in Rules /\ Below(g, c) \subseteq b
  BY DependenciesType, BelowIs
<1>2. ~OnCycle(g, a)
  BY <1>1 DEF OnCycle
<1>3. Complete(g, b \cup {a})
  BY DEF Complete
<1>4. Below(g, a) \subseteq b \cup {a}
  BY <1>3, BelowIs
<1> QED BY <1>2, <1>3, <1>4 DEF Cyclic

\* All children are explored: the rule turns black, and the target is sound
\* when it was the first.
LEMMA VerifyReturnKeeps == TargetsInv /\ VerifyReturn => TargetsInv'
<1> SUFFICES ASSUME TargetsInv, VerifyReturn PROVE TargetsInv'
  OBVIOUS
<1>1. /\ TargetsTypeOK /\ Calls /\ AtEnd /\ phase = "verify" /\ Return(TRUE)
      /\ black' = black \cup {Top.node} /\ grey' = SubSeq(grey, 1, Len(grey) - 1)
      /\ phase' = IF Len(stack) > 1 THEN phase ELSE IF threads THEN "pass" ELSE "run"
      /\ current' = current /\ current <= Len(targets)
      /\ UNCHANGED <<inputs, refused, queueing, making>>
  BY DEF TargetsInv, VerifyReturn, Control
<1>2. UNCHANGED <<threads, graph, targets, fails, writes>> /\ UNCHANGED Root
  BY <1>1, InputsStay
<1>3. PICK n : n = Len(stack) - 1
  OBVIOUS
<1>4. PICK v \in BOOLEAN : v = TRUE
  OBVIOUS
<1>5. WentOn(n, v) /\ n \in Nat /\ stack' \in Seq(FrameType) /\ Calls'
  BY <1>1, <1>2, <1>3, <1>4, ReturnCalls
<1>6. stack # <<>>
  BY <1>1 DEF AtEnd
<1>7. /\ Top.node \in Rules /\ Len(stack) = n + 1 /\ Top = stack[n + 1]
      /\ n + 1 \in 1..(n + 1) /\ Top.i \in Nat /\ Len(graph[Top.node]) \in Nat
  BY <1>1, <1>3, <1>5, <1>6, TopIs DEF Top
<1>8. Len(grey) = n + 1 /\ \A k \in 1..(n + 1) : grey[k] = stack[k].node
  BY <1>1, <1>7 DEF GreyIs, TargetsInv
<1>9. grey' \in Seq(Rules) /\ Len(grey') = n /\ \A k \in 1..n : grey'[k] = grey[k]
  BY <1>1, <1>5, <1>8 DEF TargetsTypeOK
<1>10. TargetsTypeOK'
  <2>1. phase' \in {"verify", "pass", "run"} /\ black' \subseteq Rules
    BY <1>1, <1>7 DEF TargetsTypeOK
  <2> QED BY <1>1, <1>2, <1>5, <1>9, <2>1 DEF TargetsTypeOK, queueing, making
<1>11. Len(stack') = n /\ \A k \in 1..n : k \in 1..(n + 1) /\ stack'[k].node = stack[k].node
  <2>1. \A k \in 1..n : k \in 1..(n - 1) \/ (k = n /\ n > 0)
    BY <1>5
  <2>2. \A k \in 1..n : k \in 1..(n + 1)
    BY <1>5
  <2> QED BY <1>5, <2>1, <2>2 DEF WentOn
<1>12. /\ IsGraph(graph) /\ black \in SUBSET Rules /\ Top.node \notin black
       /\ Complete(graph, black) /\ \A c \in black : ~OnCycle(graph, c)
       /\ \A i \in 1..(Top.i - 1) : graph[Top.node][i] \in black
  BY <1>1, <1>7 DEF TargetsTypeOK, TargetsInv, BlackSound
<1>13. Dependencies(graph, Top.node) \subseteq black
  <2>1. DOMAIN graph[Top.node] \subseteq 1..(Top.i - 1)
    <3>1. DOMAIN graph[Top.node] = 1..Len(graph[Top.node])
      BY <1>7, <1>12, DependenciesType
    <3> QED BY <1>1, <1>7, <3>1 DEF AtEnd
  <2> QED BY <1>12, <2>1 DEF Dependencies
<1>14. /\ Complete(graph, black') /\ \A c \in black' : ~OnCycle(graph, c)
       /\ ~Cyclic(graph, Top.node)
  BY <1>1, <1>7, <1>12, <1>13, BlackenedSound
<1>15. Control'
  <2>1. phase' = "verify" => stack' # <<>>
    <3>1. phase' = "verify" => n > 0
      BY <1>1, <1>5, <1>7
    <3> QED BY <1>11, <3>1
  <2>2. phase' # "target"
    BY <1>1
  <2> QED BY <1>1, <1>2, <1>5, <2>1, <2>2 DEF Control
<1>16. GreyIs'
  BY <1>8, <1>9, <1>11 DEF GreyIs
<1>17. BlackSound'
  <2>1. ASSUME NEW k \in 1..n PROVE stack'[k].node \notin black'
    <3>1. stack[k].node \notin black /\ k # n + 1
      BY <1>1, <1>5, <1>7, <1>11 DEF BlackSound, TargetsInv
    <3>2. stack[k].node # Top.node
      BY <1>1, <1>7, <1>11, <3>1 DEF Calls, Apart
    <3> QED BY <1>1, <1>11, <3>1, <3>2
  <2>2. ASSUME NEW k \in 1..n, NEW i \in 1..(stack'[k].i - 1)
        PROVE  graph[stack'[k].node][i] \in black'
    <3>1. CASE k \in 1..(n - 1)
      <4>1. stack'[k] = stack[k]
        BY <1>5, <3>1 DEF WentOn
      <4> QED BY <1>1, <1>7, <1>11, <2>2, <4>1 DEF BlackSound, TargetsInv
    <3>2. CASE k = n
      <4>1. stack'[n].i = stack[n].i + 1 /\ stack[n].i \in Nat
        BY <1>1, <1>5, <1>7, <1>11, <3>2, FrameIs DEF WentOn
      <4>2. i \in 1..(stack[n].i - 1) \/ i = stack[n].i
        BY <2>2, <3>2, <4>1
      <4>3. graph[stack[n].node][stack[n].i] = Top.node
        BY <1>1, <1>5, <1>7, <3>2 DEF Calls, CalledBy
      <4>4. i \in 1..(stack[n].i - 1) => graph[stack[n].node][i] \in black
        BY <1>1, <1>7, <1>11, <3>2 DEF BlackSound, TargetsInv
      <4> QED BY <1>1, <1>11, <3>2, <4>2, <4>3, <4>4
    <3> QED BY <1>5, <3>1, <3>2
  <2> QED BY <1>2, <1>11, <1>14, <2>1, <2>2 DEF BlackSound
<1>18. TargetSound'
  <2>1. ASSUME n = 0 PROVE ~Cyclic(graph, Root)
    BY <1>1, <1>6, <1>7, <1>14, <2>1 DEF Calls, RootFirst
  <2>2. n # 0 => phase' = "verify"
    BY <1>1, <1>5, <1>7
  <2> QED BY <1>2, <2>1, <2>2 DEF TargetSound
<1>19. RefusedSound'
  BY <1>1, <1>2 DEF RefusedSound, TargetsInv
<1> QED BY <1>10, <1>15, <1>16, <1>17, <1>18, <1>19 DEF TargetsInv

-----------------------------------------------------------------------------
\* What is left of the invariant once the target is known to reach no cycle.
LEMMA LaterKeeps ==
  ASSUME TargetsInv, phase \in {"pass", "run"}, TargetsTypeOK', Calls',
         UNCHANGED <<inputs, refused>>,
         \/ UNCHANGED <<phase, current>>
         \/ NextTarget /\ stack' = <<>>
  PROVE  TargetsInv'
<1>1. TargetsTypeOK /\ current <= Len(targets) /\ ~Cyclic(graph, Root) /\ phase' # "verify"
  BY DEF TargetsInv, Control, TargetSound, NextTarget
<1>2. UNCHANGED <<graph, targets>> /\ (current' = current => UNCHANGED Root)
  BY <1>1, InputsStay
<1>3. GreyIs' /\ BlackSound'
  BY <1>1 DEF GreyIs, BlackSound
<1>4. Control' /\ TargetSound'
  BY <1>1, <1>2 DEF Control, TargetSound, NextTarget
<1>5. RefusedSound'
  <2>1. CASE UNCHANGED <<phase, current>>
    BY <1>2, <2>1 DEF RefusedSound, TargetsInv
  <2>2. CASE NextTarget
    <3>1. \A i \in 1..(current' - 1) : i \in 1..(current - 1) \/ i = current
      BY <1>1, <2>2 DEF NextTarget, TargetsTypeOK
    <3>2. ~Cyclic(graph, targets[current])
      BY <1>1 DEF Root
    <3> QED BY <1>2, <3>1, <3>2 DEF RefusedSound, TargetsInv
  <2> QED BY <2>1, <2>2
<1> QED BY <1>3, <1>4, <1>5 DEF TargetsInv

\* A pass begins at the target, and so does DFS_run.
Starts(m) ==
    /\ Len(stack') = 1 /\ stack'[1] = Frame(Root, m) /\ Calls'
    /\ TargetsTypeOK' /\ TargetsInv'

\* find_children is called for the target.
LEMMA PassStarts ==
  ASSUME TargetsInv, Pass
  PROVE  \E v \in BOOLEAN : Starts(v)
<1>1. /\ TargetsTypeOK /\ phase = "pass" /\ current <= Len(targets) /\ fresh_rules' = {}
      /\ stack' = <<Frame(Root, FALSE)>>
      /\ UNCHANGED <<inputs, current, phase, verifying, all_rules, pushed, making>>
  BY DEF TargetsInv, Pass, Control
<1>2. UNCHANGED <<threads, graph, targets, fails, writes>> /\ UNCHANGED Root /\ Root \in Rules
  BY <1>1, InputsStay, RootType
<1>3. PICK v \in BOOLEAN : v = FALSE
  OBVIOUS
<1>4. stack' = <<Frame(Root, v)>>
  BY <1>1, <1>3
<1>5. Calls' /\ stack' \in Seq(FrameType)
  BY <1>1, <1>2, <1>4, StartedCalls
<1>6. TargetsTypeOK'
  BY <1>1, <1>2, <1>5 DEF TargetsTypeOK, verifying, making
<1>7. TargetsInv'
  BY <1>1, <1>5, <1>6, LaterKeeps DEF verifying
<1> QED BY <1>4, <1>5, <1>6, <1>7 DEF Starts

\* DFS_run is called for the target.
LEMMA RunStarts ==
  ASSUME TargetsInv, Run
  PROVE  Starts(MustMake(Root)) /\ MustMake(Root) \in BOOLEAN
<1>1. /\ TargetsTypeOK /\ phase = "run" /\ current <= Len(targets)
      /\ visited' = {Root} /\ ran' = <<>> /\ stack' = <<Frame(Root, MustMake(Root))>>
      /\ UNCHANGED <<inputs, current, phase, verifying, queueing, result, mtime, clock>>
  BY DEF TargetsInv, Run, Control
<1>2. UNCHANGED <<threads, graph, targets, fails, writes>> /\ UNCHANGED Root /\ Root \in Rules
  BY <1>1, InputsStay, RootType
<1>3. MustMake(Root) \in BOOLEAN
  BY DEF MustMake
<1>4. PICK v \in BOOLEAN : v = MustMake(Root)
  BY <1>3
<1>5. stack' = <<Frame(Root, v)>>
  BY <1>1, <1>4
<1>6. Calls' /\ stack' \in Seq(FrameType)
  BY <1>1, <1>2, <1>5, StartedCalls
<1>7. TargetsTypeOK'
  BY <1>1, <1>2, <1>6 DEF TargetsTypeOK, verifying, queueing
<1>8. TargetsInv'
  BY <1>1, <1>6, <1>7, LaterKeeps DEF verifying
<1> QED BY <1>1, <1>3, <1>6, <1>7, <1>8 DEF Starts

\* The loop goes on with the next child.
Continues(n, ok) ==
    /\ WentOn(n, ok) /\ n \in Nat /\ n = Len(stack) /\ n > 0
    /\ TargetsTypeOK' /\ TargetsInv'

\* find_children passes a child by that has been queued.
LEMMA PassKnownContinues ==
  ASSUME TargetsInv, PassKnown
  PROVE  \E v \in BOOLEAN : v = (NextChild \notin fresh_rules) /\ Continues(Len(stack), v)
<1>1. /\ TargetsTypeOK /\ phase = "pass" /\ Calls /\ AtChild /\ GoOn(NextChild \notin fresh_rules)
      /\ UNCHANGED <<inputs, current, phase, verifying, queueing, making>>
  BY DEF TargetsInv, PassKnown, Control
<1>2. UNCHANGED <<threads, graph, targets, fails, writes>> /\ UNCHANGED Root
  BY <1>1, InputsStay
<1>3. PICK v \in BOOLEAN : v = (NextChild \notin fresh_rules)
  OBVIOUS
<1>4. GoOn(v)
  BY <1>1, <1>3
<1>5. /\ WentOn(Len(stack), v) /\ Len(stack) \in Nat /\ Len(stack) > 0
      /\ stack' \in Seq(FrameType) /\ Calls'
  BY <1>1, <1>2, <1>4, GoOnCalls
<1>6. TargetsTypeOK'
  BY <1>1, <1>2, <1>5 DEF TargetsTypeOK, verifying, queueing, making
<1>7. TargetsInv'
  BY <1>1, <1>5, <1>6, LaterKeeps DEF verifying
<1> QED BY <1>3, <1>5, <1>6, <1>7 DEF Continues

\* DFS_run passes a child by that has been visited.
LEMMA RunVisitedContinues ==
  ASSUME TargetsInv, RunVisited
  PROVE  \E v \in BOOLEAN : v = TRUE /\ Continues(Len(stack), v)
<1>1. /\ TargetsTypeOK /\ phase = "run" /\ Calls /\ AtChild /\ GoOn(TRUE)
      /\ UNCHANGED <<inputs, current, phase, verifying, queueing, making>>
  BY DEF TargetsInv, RunVisited, Control
<1>2. UNCHANGED <<threads, graph, targets, fails, writes>> /\ UNCHANGED Root
  BY <1>1, InputsStay
<1>3. PICK v \in BOOLEAN : v = TRUE
  OBVIOUS
<1>4. GoOn(v)
  BY <1>1, <1>3
<1>5. /\ WentOn(Len(stack), v) /\ Len(stack) \in Nat /\ Len(stack) > 0
      /\ stack' \in Seq(FrameType) /\ Calls'
  BY <1>1, <1>2, <1>4, GoOnCalls
<1>6. TargetsTypeOK'
  BY <1>1, <1>2, <1>5 DEF TargetsTypeOK, verifying, queueing, making
<1>7. TargetsInv'
  BY <1>1, <1>5, <1>6, LaterKeeps DEF verifying
<1> QED BY <1>3, <1>5, <1>6, <1>7 DEF Continues

\* A call for the child is made.
Deepens(n, m) ==
    /\ Entered(NextChild, m) /\ n \in Nat \ {0} /\ n = Len(stack)
    /\ NextChild \in Rules /\ ~OnStack(NextChild)
    /\ TargetsTypeOK' /\ TargetsInv'

\* find_children goes down to a child that has not been queued.
LEMMA PassChildDeepens ==
  ASSUME TargetsInv, PassChild
  PROVE  \E v \in BOOLEAN : Deepens(Len(stack), v)
<1>1. /\ TargetsTypeOK /\ phase = "pass" /\ Calls /\ AtChild /\ Enter(NextChild, FALSE)
      /\ fresh_rules' = fresh_rules \cup {NextChild}
      /\ UNCHANGED <<inputs, current, phase, verifying, all_rules, pushed, making>>
  BY DEF TargetsInv, PassChild, Control
<1>2. UNCHANGED <<threads, graph, targets, fails, writes>> /\ UNCHANGED Root
  BY <1>1, InputsStay
<1>3. PICK v \in BOOLEAN : v = FALSE
  OBVIOUS
<1>4. NextChild \in Rules /\ ~OnStack(NextChild)
  <2>1. ~Cyclic(graph, Root)
    BY <1>1 DEF TargetsInv, TargetSound
  <2> QED BY <1>1, <2>1, TopIs, ChildIsNew DEF AtChild
<1>5. /\ Entered(NextChild, v) /\ Len(stack) \in Nat \ {0} /\ stack' \in Seq(FrameType) /\ Calls'
  BY <1>1, <1>2, <1>3, <1>4, EnterCalls
<1>6. TargetsTypeOK'
  BY <1>1, <1>2, <1>4, <1>5 DEF TargetsTypeOK, verifying, making
<1>7. TargetsInv'
  BY <1>1, <1>5, <1>6, LaterKeeps DEF verifying
<1> QED BY <1>4, <1>5, <1>6, <1>7 DEF Deepens

\* DFS_run goes down to a child that has not been visited.
LEMMA RunChildDeepens ==
  ASSUME TargetsInv, RunChild
  PROVE  MustMake(NextChild) \in BOOLEAN /\ Deepens(Len(stack), MustMake(NextChild))
<1>1. /\ TargetsTypeOK /\ phase = "run" /\ Calls /\ AtChild
      /\ Enter(NextChild, MustMake(NextChild))
      /\ visited' = visited \cup {NextChild}
      /\ UNCHANGED <<inputs, current, phase, verifying, queueing, ran, result, mtime, clock>>
  BY DEF TargetsInv, RunChild, Control
<1>2. UNCHANGED <<threads, graph, targets, fails, writes>> /\ UNCHANGED Root
  BY <1>1, InputsStay
<1>3. MustMake(NextChild) \in BOOLEAN
  BY DEF MustMake
<1>4. NextChild \in Rules /\ ~OnStack(NextChild)
  <2>1. ~Cyclic(graph, Root)
    BY <1>1 DEF TargetsInv, TargetSound
  <2> QED BY <1>1, <2>1, TopIs, ChildIsNew DEF AtChild
<1>5. /\ Entered(NextChild, MustMake(NextChild)) /\ Len(stack) \in Nat \ {0}
      /\ stack' \in Seq(FrameType) /\ Calls'
  BY <1>1, <1>2, <1>3, <1>4, EnterCalls
<1>6. TargetsTypeOK'
  BY <1>1, <1>2, <1>4, <1>5 DEF TargetsTypeOK, verifying, queueing
<1>7. TargetsInv'
  BY <1>1, <1>5, <1>6, LaterKeeps DEF verifying
<1> QED BY <1>3, <1>4, <1>5, <1>6, <1>7 DEF Deepens

\* The call at the top, the n + 1st, returns.
Ends(n, ok) ==
    /\ WentOn(n, ok) /\ n \in Nat /\ Len(stack) = n + 1 /\ Top = stack[n + 1]
    /\ Top.node \in Rules /\ Top.i \in Nat /\ Len(graph[Top.node]) \in Nat
    /\ TargetsTypeOK' /\ TargetsInv'

\* The last call returns.
LEMMA LastReturns ==
  ASSUME Len(stack) = 1, NEW ok, Return(ok)
  PROVE  stack' = <<>>
BY DEF Return

\* A call of find_children returns, the last one with the target queued.
LEMMA PassReturnEnds ==
  ASSUME TargetsInv, PassReturn
  PROVE  \E v \in BOOLEAN : v = FALSE /\ Ends(Len(stack) - 1, v)
<1>1. /\ TargetsTypeOK /\ phase = "pass" /\ Calls /\ AtEnd /\ Return(FALSE)
      /\ IF Top.ok
         THEN /\ all_rules' = all_rules \cup {Top.node}
              /\ pushed' = Append(pushed, Top.node)
         ELSE UNCHANGED <<all_rules, pushed>>
      /\ IF Top.ok /\ Len(stack) = 1 THEN NextTarget ELSE UNCHANGED <<phase, current>>
      /\ UNCHANGED <<inputs, verifying, fresh_rules, making>>
  BY DEF TargetsInv, PassReturn, Control
<1>2. /\ UNCHANGED <<threads, graph, targets, fails, writes>>
      /\ current' = current => UNCHANGED Root
  BY <1>1, InputsStay
<1>3. PICK v \in BOOLEAN : v = FALSE
  OBVIOUS
<1>4. PICK n : n = Len(stack) - 1
  OBVIOUS
<1>5. stack # <<>> /\ Return(v)
  BY <1>1, <1>3 DEF AtEnd
<1>6. Len(stack) = n + 1 /\ n \in Nat /\ Top = stack[n + 1]
      /\ Top.node \in Rules /\ Top.i \in Nat /\ Len(graph[Top.node]) \in Nat
  BY <1>1, <1>4, <1>5, TopIs DEF Top
<1>7. stack' \in Seq(FrameType) /\ WentOn(n, v)
  BY <1>1, <1>4, <1>5, ReturnIs
<1>8. Calls' /\ (UNCHANGED <<phase, current>> \/ (NextTarget /\ stack' = <<>>))
  <2>1. CASE Top.ok /\ Len(stack) = 1
    BY <1>1, <2>1, LastReturns, EndedCalls
  <2>2. CASE ~(Top.ok /\ Len(stack) = 1)
    <3>1. UNCHANGED <<phase, current>> /\ UNCHANGED Root
      BY <1>1, <1>2, <2>2
    <3> QED BY <1>1, <1>2, <1>5, <3>1, ReturnCalls
  <2> QED BY <2>1, <2>2
<1>9. TargetsTypeOK'
  <2>1. all_rules' \subseteq Rules /\ pushed' \in Seq(Rules)
    <3>1. CASE Top.ok
      <4>1. all_rules' = all_rules \cup {Top.node} /\ pushed' = Append(pushed, Top.node)
        BY <1>1, <3>1
      <4> QED BY <1>1, <1>6, <4>1 DEF TargetsTypeOK
    <3>2. CASE ~Top.ok
      <4>1. UNCHANGED <<all_rules, pushed>>
        BY <1>1, <3>2
      <4> QED BY <1>1, <4>1 DEF TargetsTypeOK
    <3> QED BY <3>1, <3>2
  <2>2. phase' \in {"target", "pass"} /\ current' \in Nat \ {0}
    BY <1>1 DEF TargetsTypeOK, NextTarget
  <2> QED BY <1>1, <1>2, <1>7, <2>1, <2>2 DEF TargetsTypeOK, verifying, making
<1>10. TargetsInv'
  BY <1>1, <1>8, <1>9, LaterKeeps DEF verifying
<1> QED BY <1>3, <1>4, <1>6, <1>7, <1>9, <1>10 DEF Ends

\* A call of DFS_run returns.
LEMMA RunReturnEnds ==
  ASSUME TargetsInv, RunReturn
  PROVE  Result \in BOOLEAN /\ Ends(Len(stack) - 1, Result)
<1>1. /\ TargetsTypeOK /\ phase = "run" /\ Calls /\ AtEnd /\ Return(Result)
      /\ IF Runs THEN RunCommands ELSE UNCHANGED <<ran, mtime, clock>>
      /\ IF Len(stack) = 1 THEN NextTarget /\ result' = Result
                           ELSE UNCHANGED <<phase, current, result>>
      /\ UNCHANGED <<inputs, verifying, queueing, visited>>
  BY DEF TargetsInv, RunReturn, Control
<1>2. /\ UNCHANGED <<threads, graph, targets, fails, writes>>
      /\ current' = current => UNCHANGED Root
  BY <1>1, InputsStay
<1>3. PICK n : n = Len(stack) - 1
  OBVIOUS
<1>4. stack # <<>>
  BY <1>1 DEF AtEnd
<1>5. Len(stack) = n + 1 /\ n \in Nat /\ Top = stack[n + 1]
      /\ Top.node \in Rules /\ Top.i \in Nat /\ Len(graph[Top.node]) \in Nat
  BY <1>1, <1>3, <1>4, TopIs DEF Top
<1>6. Result \in BOOLEAN
  BY <1>1, <1>4, TopIs DEF Result
<1>7. stack' \in Seq(FrameType) /\ WentOn(n, Result)
  BY <1>1, <1>3, <1>4, <1>6, ReturnIs
<1>8. Calls' /\ (UNCHANGED <<phase, current>> \/ (NextTarget /\ stack' = <<>>))
  <2>1. CASE Len(stack) = 1
    BY <1>1, <2>1, LastReturns, EndedCalls
  <2>2. CASE Len(stack) # 1
    <3>1. UNCHANGED <<phase, current>> /\ UNCHANGED Root
      BY <1>1, <1>2, <2>2
    <3> QED BY <1>1, <1>2, <1>6, <3>1, ReturnCalls
  <2> QED BY <2>1, <2>2
<1>9. TargetsTypeOK'
  <2>1. ran' \in Seq(Rules)
    <3>1. ran' = Append(ran, Top.node) \/ ran' = ran
      BY <1>1 DEF RunCommands
    <3>2. ran \in Seq(Rules) /\ Top.node \in Rules
      BY <1>1, <1>5 DEF TargetsTypeOK
    <3> QED BY <3>1, <3>2
  <2>3. result' \in BOOLEAN
    BY <1>1, <1>6 DEF TargetsTypeOK
  <2>2. phase' \in {"target", "run"} /\ current' \in Nat \ {0}
    BY <1>1 DEF TargetsTypeOK, NextTarget
  <2> QED BY <1>1, <1>2, <1>7, <2>1, <2>2, <2>3 DEF TargetsTypeOK, verifying, queueing
<1>10. TargetsInv'
  BY <1>1, <1>8, <1>9, LaterKeeps DEF verifying
<1> QED BY <1>3, <1>5, <1>6, <1>7, <1>9, <1>10 DEF Ends

-----------------------------------------------------------------------------
\* Main starts with nothing done.
LEMMA TargetsStart == TargetsInit => TargetsInv
<1> SUFFICES ASSUME TargetsInit PROVE TargetsInv
  OBVIOUS
<1>1. TargetsTypeOK
  <2>1. threads \in BOOLEAN /\ fails \subseteq Rules /\ writes \subseteq Rules
    BY DEF TargetsInit
  <2>2. IsGraph(graph) /\ targets \in Seq(Rules)
    BY TargetsAssumption DEF TargetsInit, IsGraph
  <2> QED BY <2>1, <2>2 DEF TargetsInit, TargetsTypeOK
<1>2. Calls
  BY DEF TargetsInit, Calls, InLoop, CalledBy, RootFirst, Linked, Apart
<1>3. Control /\ GreyIs /\ BlackSound /\ TargetSound
  BY <1>2 DEF TargetsInit, Control, GreyIs, BlackSound, TargetSound
<1>4. RefusedSound
  BY DEF TargetsInit, RefusedSound
<1> QED BY <1>1, <1>3, <1>4 DEF TargetsInv

\* A step that changes nothing keeps the invariant.
LEMMA TargetsStutter == TargetsInv /\ UNCHANGED targetsVars => TargetsInv'
<1> SUFFICES ASSUME TargetsInv, UNCHANGED targetsVars PROVE TargetsInv'
  OBVIOUS
<1>1. UNCHANGED <<threads, graph, targets, fails, writes, current, phase, stack, black, grey,
                  refused, fresh_rules, all_rules, pushed, visited, ran, result>>
  BY DEF targetsVars, inputs, verifying, queueing, making
<1>2. UNCHANGED Root
  BY <1>1 DEF Root
<1>3. TargetsTypeOK'
  BY <1>1 DEF TargetsInv, TargetsTypeOK
<1>4. Control'
  <2>1. Calls'
    BY <1>1, <1>2 DEF TargetsInv, Control, Calls, InLoop, CalledBy, RootFirst, Linked, Apart
  <2> QED BY <1>1, <2>1 DEF TargetsInv, Control
<1>5. GreyIs' /\ BlackSound' /\ TargetSound' /\ RefusedSound'
  BY <1>1, <1>2 DEF TargetsInv, GreyIs, BlackSound, TargetSound, RefusedSound
<1> QED BY <1>3, <1>4, <1>5 DEF TargetsInv

\* Every step keeps the invariant.
LEMMA TargetsStep == TargetsInv /\ [TargetsNext]_targetsVars => TargetsInv'
<1> SUFFICES ASSUME TargetsInv, [TargetsNext]_targetsVars PROVE TargetsInv'
  OBVIOUS
<1>1. CASE Verify \/ VerifyBlack \/ VerifyChild \/ Refuse \/ VerifyReturn
  BY <1>1, VerifyKeeps, VerifyBlackKeeps, VerifyChildKeeps, RefuseKeeps, VerifyReturnKeeps
<1>2. CASE Pass
  BY <1>2, PassStarts DEF Starts
<1>3. CASE PassKnown
  BY <1>3, PassKnownContinues DEF Continues
<1>4. CASE PassChild
  BY <1>4, PassChildDeepens DEF Deepens
<1>5. CASE PassReturn
  BY <1>5, PassReturnEnds DEF Ends
<1>6. CASE Run
  BY <1>6, RunStarts DEF Starts
<1>7. CASE RunVisited
  BY <1>7, RunVisitedContinues DEF Continues
<1>8. CASE RunChild
  BY <1>8, RunChildDeepens DEF Deepens
<1>9. CASE RunReturn
  BY <1>9, RunReturnEnds DEF Ends
<1>10. CASE UNCHANGED targetsVars
  BY <1>10, TargetsStutter
<1> QED BY <1>1, <1>2, <1>3, <1>4, <1>5, <1>6, <1>7, <1>8, <1>9, <1>10 DEF TargetsNext

\* The invariant holds throughout.
LEMMA TargetsInvariant == TargetsSpec => []TargetsInv
BY TargetsStart, TargetsStep, PTL DEF TargetsSpec

\* DFS_verify reports a target exactly when a cycle can be reached from it.
THEOREM VerifyFindsCycles == TargetsSpec => []RefusesCycles
<1>1. TargetsInv => RefusesCycles
  BY DEF TargetsInv, RefusedSound, RefusesCycles
<1> QED BY <1>1, TargetsInvariant, PTL

-----------------------------------------------------------------------------
Queued == {pushed[i] : i \in 1..Len(pushed)}

\* children_full says what it should: the children that a loop has passed are
\* queued.  No rule but the target is queued while its own call lasts.
FullSound ==
    \A k \in 1..Len(stack) :
       stack[k].ok => \A i \in 1..(stack[k].i - 1) : graph[stack[k].node][i] \in all_rules
CallsFresh == \A k \in 2..Len(stack) : stack[k].node \notin all_rules

\* The first target finds nothing queued, and each one that is done is queued.
FirstTarget ==
    current = 1 => IF phase = "pass" THEN Root \notin all_rules ELSE all_rules = {}
DoneQueued ==
    threads => \A i \in 1..(current - 1) : targets[i] \in refused \cup all_rules

Threadless == (phase = "pass" => threads) /\ (phase = "run" => ~threads)

OnlyLaterRoots ==
    \A i, j \in 1..Len(pushed) :
       i < j /\ pushed[i] = pushed[j]
       => \E k \in 2..Len(targets) : targets[k] = pushed[i]

QueueInv ==
    /\ TargetsInv /\ all_rules = Queued /\ ChildrenFirst /\ OnlyLaterRoots
    /\ phase = "pass" => FullSound /\ CallsFresh
    /\ FirstTarget /\ DoneQueued /\ Threadless

\* During DFS_run a rule that is visited has run, or been passed by, or is on
\* the stack, and only in the first case are its dependencies settled; a
\* failure is reported by some call that has not returned.
SettledChildren ==
    \A k \in 1..Len(stack) : \A i \in 1..(stack[k].i - 1) :
       LET c == graph[stack[k].node][i] IN c \in visited /\ ~OnStack(c)
SettledRan ==
    \A r \in Ran : r \in visited /\ ~OnStack(r)
                   /\ \A c \in Dependencies(graph, r) : c \in visited /\ ~OnStack(c)
FailureKept == (\E k \in 1..Len(stack) : ~stack[k].ok) <=> Ran \cap fails # {}

MakeInv ==
    /\ TargetsInv /\ OnceAndInOrder
    /\ phase = "run" /\ stack # <<>> =>
         /\ \A k \in 1..Len(stack) : stack[k].node \in visited
         /\ SettledChildren /\ SettledRan /\ FailureKept

\* A step that queues nothing keeps the invariant if it keeps the parts that
\* are about the calls and the target.
LEMMA QueueRests ==
  ASSUME QueueInv, TargetsInv', UNCHANGED <<inputs, all_rules, pushed>>,
         phase' = "pass" => FullSound' /\ CallsFresh',
         FirstTarget', DoneQueued', Threadless'
  PROVE  QueueInv'
<1>1. UNCHANGED <<graph, targets, all_rules, pushed>>
  BY DEF inputs
<1>2. all_rules' = Queued' /\ ChildrenFirst' /\ OnlyLaterRoots'
  BY <1>1 DEF QueueInv, Queued, ChildrenFirst, OnlyLaterRoots
<1> QED BY <1>2 DEF QueueInv

\* Where main stays at its target, only the parts about the calls matter.
LEMMA QueueRestsHere ==
  ASSUME QueueInv, TargetsInv', UNCHANGED <<inputs, all_rules, pushed, phase, current, refused>>,
         phase = "pass" => FullSound' /\ CallsFresh'
  PROVE  QueueInv'
<1>1. UNCHANGED <<threads, targets>> /\ UNCHANGED Root
  BY InputsStay DEF QueueInv, TargetsInv
<1>2. FirstTarget' /\ DoneQueued' /\ Threadless'
  BY <1>1 DEF QueueInv, FirstTarget, DoneQueued, Threadless
<1> QED BY <1>2, QueueRests

\* The steps down of the cycle check queue nothing.
LEMMA VerifyQueue == QueueInv /\ (Verify \/ VerifyBlack \/ VerifyChild) => QueueInv'
<1> SUFFICES ASSUME QueueInv, Verify \/ VerifyBlack \/ VerifyChild PROVE QueueInv'
  OBVIOUS
<1>1. TargetsInv' /\ TargetsTypeOK
  BY VerifyKeeps, VerifyBlackKeeps, VerifyChildKeeps DEF QueueInv, TargetsInv
<1>2. CASE VerifyBlack \/ VerifyChild
  <2>1. UNCHANGED <<inputs, all_rules, pushed, phase, current, refused>> /\ phase # "pass"
    BY <1>2 DEF VerifyBlack, VerifyChild, verifying, queueing
  <2> QED BY <1>1, <2>1, QueueRestsHere
<1>3. CASE Verify
  <2>1. /\ UNCHANGED <<inputs, all_rules, pushed, current, refused>>
        /\ phase = "target" /\ phase' = "verify"
    BY <1>3 DEF Verify, queueing
  <2>2. UNCHANGED <<threads, targets>>
    BY <1>1, <2>1, InputsStay
  <2>3. FirstTarget' /\ DoneQueued' /\ Threadless'
    BY <2>1, <2>2 DEF QueueInv, FirstTarget, DoneQueued, Threadless
  <2> QED BY <1>1, <2>1, <2>3, QueueRests
<1> QED BY <1>2, <1>3

\* A refused target is done without being queued.
LEMMA RefuseQueue == QueueInv /\ Refuse => QueueInv'
<1> SUFFICES ASSUME QueueInv, Refuse PROVE QueueInv'
  OBVIOUS
<1>1. TargetsInv' /\ TargetsTypeOK
  BY RefuseKeeps DEF QueueInv, TargetsInv
<1>2. /\ UNCHANGED <<inputs, all_rules, pushed>> /\ phase' = "target"
      /\ current' = current + 1 /\ refused' = refused \cup {targets[current]}
  BY DEF Refuse, queueing, NextTarget, Root
<1>3. UNCHANGED <<threads, targets>> /\ current \in Nat \ {0}
  BY <1>1, <1>2, InputsStay DEF TargetsTypeOK
<1>4. FirstTarget' /\ Threadless'
  BY <1>2, <1>3 DEF FirstTarget, Threadless
<1>5. DoneQueued'
  <2>1. \A i \in 1..(current' - 1) : i \in 1..(current - 1) \/ i = current
    BY <1>2, <1>3
  <2> QED BY <1>2, <1>3, <2>1 DEF QueueInv, DoneQueued
<1> QED BY <1>1, <1>2, <1>4, <1>5, QueueRests

\* The last call of the cycle check leaves no calls.
LEMMA VerifyEnds ==
  ASSUME TargetsTypeOK, VerifyReturn, phase' # "verify"
  PROVE  stack' = <<>> /\ phase' = (IF threads THEN "pass" ELSE "run") /\ phase = "verify"
<1>1. phase = "verify" /\ AtEnd /\ Return(TRUE)
      /\ phase' = IF Len(stack) > 1 THEN phase ELSE IF threads THEN "pass" ELSE "run"
  BY DEF VerifyReturn
<1>2. stack # <<>> /\ ~(Len(stack) > 1)
  BY <1>1 DEF AtEnd
<1>3. Len(stack) = 1
  <2>1. Len(stack) \in Nat \ {0}
    BY <1>2, TopIs
  <2> QED BY <1>2, <2>1
<1>4. PICK v \in BOOLEAN : v = TRUE
  OBVIOUS
<1>5. stack' = <<>>
  BY <1>1, <1>3, <1>4, LastReturns
<1> QED BY <1>1, <1>2, <1>5

\* The cycle check may end, and the passes begin.
LEMMA VerifyReturnQueue == QueueInv /\ VerifyReturn => QueueInv'
<1> SUFFICES ASSUME QueueInv, VerifyReturn PROVE QueueInv'
  OBVIOUS
<1>1. TargetsInv' /\ TargetsTypeOK
  BY VerifyReturnKeeps DEF QueueInv, TargetsInv
<1>2. UNCHANGED <<inputs, all_rules, pushed, current, refused>> /\ phase = "verify"
  BY DEF VerifyReturn, queueing
<1>3. UNCHANGED <<threads, targets>> /\ UNCHANGED Root
  BY <1>1, <1>2, InputsStay
<1>4. phase' # "verify" => stack' = <<>> /\ phase' = IF threads THEN "pass" ELSE "run"
  BY <1>1, VerifyEnds
<1>5. phase' = "pass" => FullSound' /\ CallsFresh'
  BY <1>4 DEF FullSound, CallsFresh
<1>6. FirstTarget' /\ DoneQueued'
  BY <1>2, <1>3 DEF QueueInv, FirstTarget, DoneQueued
<1>7. Threadless'
  BY <1>3, <1>4 DEF Threadless
<1> QED BY <1>1, <1>2, <1>5, <1>6, <1>7, QueueRests

\* A pass of create_waitlist that queues nothing yet.
LEMMA PassQueue == QueueInv /\ Pass => QueueInv'
<1> SUFFICES ASSUME QueueInv, Pass PROVE QueueInv'
  OBVIOUS
<1>1. \E v \in BOOLEAN : Starts(v)
  BY PassStarts DEF QueueInv
<1>2. TargetsInv' /\ Len(stack') = 1 /\ stack'[1].i = 1
  BY <1>1 DEF Starts, Frame
<1>3. UNCHANGED <<inputs, all_rules, pushed, phase, current, refused>>
  BY DEF Pass, verifying
<1>4. \A k \in 1..Len(stack') : 1..(stack'[k].i - 1) = {}
  <2>1. \A k \in 1..1 : k = 1
    OBVIOUS
  <2> QED BY <1>2, <2>1
<1>5. FullSound' /\ CallsFresh'
  BY <1>2, <1>4 DEF FullSound, CallsFresh
<1> QED BY <1>2, <1>3, <1>5, QueueRestsHere

\* A child queued before this pass leaves children_full as it is.
LEMMA PassKnownQueue == QueueInv /\ PassKnown => QueueInv'
<1> SUFFICES ASSUME QueueInv, PassKnown PROVE QueueInv'
  OBVIOUS
<1>1. PICK v \in BOOLEAN : Continues(Len(stack), v)
  BY PassKnownContinues DEF QueueInv
<1>2. PICK n : n = Len(stack)
  OBVIOUS
<1>3. /\ WentOn(n, v) /\ n \in Nat /\ n = Len(stack) /\ n > 0 /\ TargetsInv'
  BY <1>1, <1>2 DEF Continues
<1>4. /\ UNCHANGED <<inputs, all_rules, pushed, phase, current, refused>> /\ TargetsTypeOK
      /\ NextChild \in all_rules /\ phase = "pass" /\ FullSound /\ CallsFresh
  BY DEF PassKnown, verifying, queueing, QueueInv, TargetsInv
<1>5. graph' = graph
  BY <1>4 DEF inputs
<1>6. \A k \in 1..n : k \in 1..(n - 1) \/ k = n
  BY <1>3
<1>7. CallsFresh'
  <2>1. \A k \in 1..n : stack'[k].node = stack[k].node
    BY <1>3, <1>6 DEF WentOn
  <2> QED BY <1>3, <1>4, <2>1 DEF CallsFresh, WentOn
<1>8. FullSound'
  <2>1. ASSUME NEW k \in 1..n, stack'[k].ok, NEW i \in 1..(stack'[k].i - 1)
        PROVE  graph[stack'[k].node][i] \in all_rules
    <3>1. CASE k \in 1..(n - 1)
      <4>1. stack'[k] = stack[k]
        BY <1>3, <3>1 DEF WentOn
      <4> QED BY <1>3, <1>4, <2>1, <4>1 DEF FullSound
    <3>2. CASE k = n
      <4>1. stack'[n].i = stack[n].i + 1 /\ stack'[n].node = stack[n].node
            /\ stack[n].i \in Nat
        BY <1>3, <1>4, <3>2, FrameIs DEF WentOn
      <4>2. stack[n].ok
        <5>1. stack'[n].ok = (stack[n].ok /\ v)
          BY <1>3 DEF WentOn
        <5> QED BY <2>1, <3>2, <5>1
      <4>3. i \in 1..(stack[n].i - 1) \/ i = stack[n].i
        BY <2>1, <3>2, <4>1
      <4>4. graph[stack[n].node][stack[n].i] \in all_rules
        BY <1>3, <1>4 DEF NextChild, Top
      <4>5. i \in 1..(stack[n].i - 1) => graph[stack[n].node][i] \in all_rules
        BY <1>3, <1>4, <3>2, <4>2 DEF FullSound
      <4> QED BY <3>2, <4>1, <4>3, <4>4, <4>5
    <3> QED BY <1>6, <3>1, <3>2
  <2> QED BY <1>3, <1>4, <1>5, <2>1 DEF FullSound, WentOn
<1> QED BY <1>3, <1>4, <1>7, <1>8, QueueRestsHere

\* The call for a child that has not been queued begins with no child passed.
LEMMA PassChildQueue == QueueInv /\ PassChild => QueueInv'
<1> SUFFICES ASSUME QueueInv, PassChild PROVE QueueInv'
  OBVIOUS
<1>1. PICK v \in BOOLEAN : Deepens(Len(stack), v)
  BY PassChildDeepens DEF QueueInv
<1>2. PICK n : n = Len(stack)
  OBVIOUS
<1>3. /\ n \in Nat \ {0} /\ TargetsInv' /\ Len(stack') = n + 1
      /\ \A k \in 1..n : stack'[k] = stack[k]
      /\ stack'[n + 1].node = NextChild /\ stack'[n + 1].i = 1
  BY <1>1, <1>2 DEF Deepens, Entered, Frame
<1>4. /\ UNCHANGED <<inputs, all_rules, pushed, phase, current, refused>>
      /\ NextChild \notin all_rules /\ phase = "pass" /\ FullSound /\ CallsFresh
  BY DEF PassChild, verifying, QueueInv
<1>5. graph' = graph
  BY <1>4 DEF inputs
<1>6. \A k \in 1..(n + 1) : k \in 1..n \/ k = n + 1
  BY <1>3
<1>7. CallsFresh'
  <2>1. \A k \in 2..(n + 1) : k \in 2..n \/ k = n + 1
    BY <1>3
  <2>2. \A k \in 2..n : k \in 1..n
    BY <1>3
  <2> QED BY <1>2, <1>3, <1>4, <2>1, <2>2 DEF CallsFresh
<1>8. FullSound'
  <2>1. ASSUME NEW k \in 1..(n + 1), stack'[k].ok, NEW i \in 1..(stack'[k].i - 1)
        PROVE  graph[stack'[k].node][i] \in all_rules
    <3>1. CASE k \in 1..n
      BY <1>2, <1>3, <1>4, <2>1, <3>1 DEF FullSound
    <3>2. CASE k = n + 1
      BY <1>3, <2>1, <3>2
    <3> QED BY <1>6, <3>1, <3>2
  <2> QED BY <1>3, <1>4, <1>5, <2>1 DEF FullSound
<1> QED BY <1>3, <1>4, <1>7, <1>8, QueueRestsHere

\* A rule whose children are all queued is queued behind them.
LEMMA QueuedBehind ==
  ASSUME TargetsTypeOK, ChildrenFirst, NEW a \in Rules,
         Dependencies(graph, a) \subseteq Queued, pushed' = Append(pushed, a), graph' = graph
  PROVE  /\ ChildrenFirst' /\ Queued' = Queued \cup {a}
         /\ Len(pushed') = Len(pushed) + 1 /\ pushed'[Len(pushed) + 1] = a
         /\ \A i \in 1..Len(pushed) : pushed'[i] = pushed[i]
<1>1. PICK n : n = Len(pushed)
  OBVIOUS
<1>2. n \in Nat /\ pushed \in Seq(Rules)
  BY <1>1 DEF TargetsTypeOK
<1>3. /\ Len(pushed') = n + 1 /\ pushed'[n + 1] = a
      /\ \A i \in 1..n : pushed'[i] = pushed[i]
  BY <1>1, <1>2
<1>4. \A i \in 1..(n + 1) : i \in 1..n \/ i = n + 1
  BY <1>2
<1>5. \A i \in 1..n : i \in 1..(n + 1)
  BY <1>2
<1>6. n + 1 \in 1..(n + 1)
  BY <1>2
<1>7. Queued' = Queued \cup {a}
  BY <1>1, <1>3, <1>4, <1>5, <1>6 DEF Queued
<1>8. ChildrenFirst'
  <2>1. ASSUME NEW i \in 1..n, NEW c \in Dependencies(graph, pushed'[i])
        PROVE  \E j \in 1..(i - 1) : pushed'[j] = c
    <3>1. PICK j \in 1..(i - 1) : pushed[j] = c
      BY <1>1, <1>3, <2>1 DEF ChildrenFirst
    <3>2. j \in 1..n
      BY <1>2
    <3> QED BY <1>3, <3>1, <3>2
  <2>2. ASSUME NEW c \in Dependencies(graph, a) PROVE \E j \in 1..n : pushed'[j] = c
    BY <1>1, <1>3 DEF Queued
  <2>3. (n + 1) - 1 = n
    BY <1>2
  <2>4. ASSUME NEW i \in 1..(n + 1), NEW c \in Dependencies(graph, pushed'[i])
        PROVE  \E j \in 1..(i - 1) : pushed'[j] = c
    <3>1. CASE i \in 1..n
      BY <2>1, <2>4, <3>1
    <3>2. CASE i = n + 1
      BY <1>3, <2>2, <2>3, <2>4, <3>2
    <3> QED BY <1>4, <3>1, <3>2
  <2> QED BY <1>3, <2>4 DEF ChildrenFirst
<1> QED BY <1>1, <1>3, <1>7, <1>8

\* A rule that has all its children queued is queued, and a call ends.
LEMMA PassReturnQueue == QueueInv /\ PassReturn => QueueInv'
<1> SUFFICES ASSUME QueueInv, PassReturn PROVE QueueInv'
  OBVIOUS
<1>1. PICK v \in BOOLEAN : v = FALSE /\ Ends(Len(stack) - 1, v)
  BY PassReturnEnds DEF QueueInv
<1>2. PICK n : n = Len(stack) - 1
  OBVIOUS
<1>3. /\ WentOn(n, v) /\ n \in Nat /\ Len(stack) = n + 1 /\ Top = stack[n + 1]
      /\ Top.node \in Rules /\ Top.i \in Nat /\ Len(graph[Top.node]) \in Nat /\ TargetsInv'
  BY <1>1, <1>2 DEF Ends
<1>4. /\ UNCHANGED <<inputs, refused>> /\ TargetsTypeOK /\ AtEnd /\ stack # <<>>
      /\ phase = "pass" /\ Calls /\ FullSound /\ CallsFresh /\ threads
  BY DEF PassReturn, verifying, QueueInv, TargetsInv, AtEnd, Control, Threadless
<1>5. UNCHANGED <<threads, graph, targets>> /\ current \in Nat \ {0}
      /\ (current' = current => UNCHANGED Root)
  BY <1>4, InputsStay DEF TargetsTypeOK
<1>6. n + 1 \in 1..(n + 1) /\ 1 \in 1..(n + 1) /\ \A k \in 1..n : k \in 1..(n + 1) /\ k # n + 1
  BY <1>3
<1>7. stack[1].node = Root
  BY <1>4 DEF Calls, RootFirst
<1>8. \A k \in 1..n : stack[k].node # Top.node
  BY <1>3, <1>4, <1>6 DEF Calls, Apart
<1>9. Len(stack') = n /\ \A k \in 1..n : stack'[k].node = stack[k].node
  <2>1. \A k \in 1..n : k \in 1..(n - 1) \/ (k = n /\ n > 0)
    BY <1>3
  <2> QED BY <1>3, <2>1 DEF WentOn
<1>10. CASE ~Top.ok
  <2>1. UNCHANGED <<all_rules, pushed, phase, current>>
    BY <1>10 DEF PassReturn
  <2>2. CallsFresh'
    <3>1. \A k \in 2..n : k \in 2..(n + 1) /\ k \in 1..n
      BY <1>3
    <3> QED BY <1>3, <1>4, <1>9, <2>1, <3>1 DEF CallsFresh
  <2>3. FullSound'
    <3>1. ASSUME NEW k \in 1..n, stack'[k].ok
          PROVE  k \in 1..(n - 1)
      <4>1. CASE k = n
        <5>1. stack'[n].ok = (stack[n].ok /\ v)
          BY <1>3, <4>1 DEF WentOn
        <5> QED BY <1>1, <3>1, <4>1, <5>1
      <4> QED BY <1>3, <4>1
    <3>2. \A k \in 1..(n - 1) : stack'[k] = stack[k] /\ k \in 1..(n + 1)
      BY <1>3 DEF WentOn
    <3> QED BY <1>3, <1>4, <1>5, <1>9, <2>1, <3>1, <3>2 DEF FullSound
  <2> QED BY <1>3, <1>4, <2>1, <2>2, <2>3, QueueRestsHere
<1>11. CASE Top.ok
  <2>1. all_rules' = all_rules \cup {Top.node} /\ pushed' = Append(pushed, Top.node)
    BY <1>11 DEF PassReturn
  <2>2. Dependencies(graph, Top.node) \subseteq Queued
    <3>1. DOMAIN graph[Top.node] \subseteq 1..(Top.i - 1)
      <4>1. DOMAIN graph[Top.node] = 1..Len(graph[Top.node])
        BY <1>3, <1>4, DependenciesType DEF TargetsTypeOK
      <4> QED BY <1>3, <1>4, <4>1 DEF AtEnd
    <3>2. \A i \in 1..(Top.i - 1) : graph[Top.node][i] \in all_rules
      BY <1>3, <1>4, <1>6, <1>11 DEF FullSound
    <3> QED BY <3>1, <3>2 DEF Dependencies, QueueInv
  <2>3. /\ ChildrenFirst' /\ Queued' = Queued \cup {Top.node}
        /\ Len(pushed') = Len(pushed) + 1 /\ pushed'[Len(pushed) + 1] = Top.node
        /\ \A i \in 1..Len(pushed) : pushed'[i] = pushed[i]
    BY <1>3, <1>4, <1>5, <2>1, <2>2, QueuedBehind DEF QueueInv
  <2>4. all_rules' = Queued' /\ all_rules = Queued
    BY <2>1, <2>3 DEF QueueInv
  <2>5. Top.node \in all_rules => n = 0 /\ Top.node = Root /\ current \in 2..Len(targets)
    <3>1. ASSUME Top.node \in all_rules PROVE n = 0
      <4>1. n # 0 => n + 1 \in 2..(n + 1)
        BY <1>3
      <4> QED BY <1>3, <1>4, <3>1, <4>1 DEF CallsFresh
    <3>2. ASSUME n = 0 PROVE Top.node = Root
      BY <1>3, <1>7, <3>2
    <3>3. ASSUME Root \in all_rules PROVE current \in 2..Len(targets)
      <4>1. current # 1
        BY <1>4, <3>3 DEF QueueInv, FirstTarget
      <4>2. current <= Len(targets) /\ Len(targets) \in Nat
        BY <1>4 DEF QueueInv, TargetsInv, Control, TargetsTypeOK
      <4> QED BY <1>5, <4>1, <4>2
    <3> QED BY <3>1, <3>2, <3>3
  <2>6. OnlyLaterRoots'
    <3>1. PICK m : m = Len(pushed)
      OBVIOUS
    <3>2. m \in Nat
      BY <1>4, <3>1 DEF TargetsTypeOK
    <3>3. ASSUME NEW i \in 1..(m + 1), NEW j \in 1..(m + 1), i < j, pushed'[i] = pushed'[j]
          PROVE  \E k \in 2..Len(targets) : targets[k] = pushed'[i]
      <4>1. i \in 1..m
        BY <3>2, <3>3
      <4>2. CASE j \in 1..m
        BY <2>3, <3>1, <3>3, <4>1, <4>2 DEF QueueInv, OnlyLaterRoots
      <4>3. CASE j = m + 1
        <5>1. pushed'[i] = Top.node /\ Top.node \in Queued
          BY <2>3, <3>1, <3>3, <4>1, <4>3 DEF Queued
        <5>2. current \in 2..Len(targets) /\ targets[current] = Top.node
          BY <2>4, <2>5, <5>1 DEF Root
        <5> QED BY <5>1, <5>2
      <4> QED BY <3>2, <4>2, <4>3
    <3> QED BY <1>5, <2>3, <3>1, <3>3 DEF OnlyLaterRoots
  <2>7. CASE n = 0
    <3>1. phase' = "target" /\ current' = current + 1 /\ Top.node = targets[current]
      BY <1>3, <1>7, <1>11, <2>7 DEF PassReturn, NextTarget, Root
    <3>2. FirstTarget' /\ Threadless'
      BY <1>5, <3>1 DEF FirstTarget, Threadless
    <3>3. DoneQueued'
      <4>1. \A i \in 1..(current' - 1) : i \in 1..(current - 1) \/ i = current
        BY <1>5, <3>1
      <4> QED BY <1>4, <1>5, <2>1, <3>1, <4>1 DEF QueueInv, DoneQueued
    <3> QED BY <1>3, <2>3, <2>4, <2>6, <3>1, <3>2, <3>3 DEF QueueInv
  <2>8. CASE n # 0
    <3>1. UNCHANGED <<phase, current>> /\ UNCHANGED Root
      BY <1>3, <1>5, <2>8 DEF PassReturn
    <3>2. Top.node # Root
      BY <1>3, <1>7, <1>8, <2>8
    <3>3. FirstTarget' /\ DoneQueued' /\ Threadless'
      BY <1>4, <1>5, <2>1, <3>1, <3>2 DEF QueueInv, FirstTarget, DoneQueued, Threadless
    <3>4. CallsFresh'
      <4>1. \A k \in 2..n : k \in 2..(n + 1) /\ k \in 1..n
        BY <1>3
      <4> QED BY <1>3, <1>4, <1>8, <1>9, <2>1, <4>1 DEF CallsFresh
    <3>5. FullSound'
      <4>1. ASSUME NEW k \in 1..n, stack'[k].ok
            PROVE  k \in 1..(n - 1)
        <5>1. CASE k = n
          <6>1. stack'[n].ok = (stack[n].ok /\ v)
            BY <1>3, <5>1 DEF WentOn
          <6> QED BY <1>1, <4>1, <5>1, <6>1
        <5> QED BY <1>3, <5>1
      <4>2. \A k \in 1..(n - 1) : stack'[k] = stack[k] /\ k \in 1..(n + 1)
        BY <1>3 DEF WentOn
      <4> QED BY <1>3, <1>4, <1>5, <1>9, <2>1, <4>1, <4>2 DEF FullSound
    <3> QED BY <1>3, <2>3, <2>4, <2>6, <3>3, <3>4, <3>5 DEF QueueInv
  <2> QED BY <2>7, <2>8
<1> QED BY <1>10, <1>11

\* Without threads nothing is queued.
LEMMA RunQueue == QueueInv /\ (Run \/ RunVisited \/ RunChild) => QueueInv'
<1> SUFFICES ASSUME QueueInv, Run \/ RunVisited \/ RunChild PROVE QueueInv'
  OBVIOUS
<1>1. TargetsInv'
  BY RunStarts, RunVisitedContinues, RunChildDeepens DEF QueueInv, Starts, Continues, Deepens
<1>2. UNCHANGED <<inputs, all_rules, pushed, phase, current, refused>> /\ phase # "pass"
  BY DEF Run, RunVisited, RunChild, verifying, queueing
<1> QED BY <1>1, <1>2, QueueRestsHere

\* Without threads a target is done without being queued.
LEMMA RunReturnQueue == QueueInv /\ RunReturn => QueueInv'
<1> SUFFICES ASSUME QueueInv, RunReturn PROVE QueueInv'
  OBVIOUS
<1>1. TargetsInv' /\ TargetsTypeOK
  BY RunReturnEnds DEF QueueInv, Ends, TargetsInv
<1>2. /\ UNCHANGED <<inputs, all_rules, pushed, refused>> /\ phase = "run"
      /\ UNCHANGED <<phase, current>> \/ NextTarget
  BY DEF RunReturn, verifying, queueing
<1>3. CASE UNCHANGED <<phase, current>>
  BY <1>1, <1>2, <1>3, QueueRestsHere
<1>4. CASE NextTarget
  <2>1. /\ phase' = "target" /\ current' = current + 1 /\ current \in Nat \ {0}
        /\ threads' = threads /\ ~threads
    BY <1>1, <1>2, <1>4, InputsStay DEF NextTarget, TargetsTypeOK, QueueInv, Threadless
  <2>2. FirstTarget' /\ DoneQueued' /\ Threadless'
    BY <2>1 DEF FirstTarget, DoneQueued, Threadless
  <2> QED BY <1>1, <1>2, <2>1, <2>2, QueueRests
<1> QED BY <1>2, <1>3, <1>4

\* Main starts with nothing queued.
LEMMA QueueStart == TargetsInit => QueueInv
<1> SUFFICES ASSUME TargetsInit PROVE QueueInv
  OBVIOUS
<1>1. TargetsInv
  BY TargetsStart
<1>2. /\ pushed = <<>> /\ Len(pushed) = 0 /\ all_rules = {} /\ phase = "target" /\ current = 1
  BY DEF TargetsInit
<1>3. all_rules = Queued /\ ChildrenFirst /\ OnlyLaterRoots
  BY <1>2 DEF Queued, ChildrenFirst, OnlyLaterRoots
<1>4. FirstTarget /\ DoneQueued /\ Threadless
  BY <1>2 DEF FirstTarget, DoneQueued, Threadless
<1> QED BY <1>1, <1>2, <1>3, <1>4 DEF QueueInv

\* A step that changes nothing keeps the queue's invariant.
LEMMA QueueStutter == QueueInv /\ UNCHANGED targetsVars => QueueInv'
<1> SUFFICES ASSUME QueueInv, UNCHANGED targetsVars PROVE QueueInv'
  OBVIOUS
<1>1. TargetsInv'
  BY TargetsStutter DEF QueueInv
<1>2. UNCHANGED <<inputs, graph, all_rules, pushed, phase, current, refused, stack>>
  BY DEF targetsVars, inputs, verifying, queueing
<1>3. phase = "pass" => FullSound' /\ CallsFresh'
  BY <1>2 DEF QueueInv, FullSound, CallsFresh
<1> QED BY <1>1, <1>2, <1>3, QueueRestsHere

\* Every step keeps it.
LEMMA QueueStep == QueueInv /\ [TargetsNext]_targetsVars => QueueInv'
BY VerifyQueue, RefuseQueue, VerifyReturnQueue, PassQueue, PassKnownQueue, PassChildQueue,
   PassReturnQueue, RunQueue, RunReturnQueue, QueueStutter DEF TargetsNext

\* It holds throughout.
LEMMA QueueInvariant == TargetsSpec => []QueueInv
BY QueueStart, QueueStep, PTL DEF TargetsSpec

\* The rules queued so far include all that they depend on.
LEMMA QueuedComplete ==
  ASSUME QueueInv
  PROVE  Complete(graph, all_rules)
<1>1. ASSUME NEW a \in Queued, NEW c \in Dependencies(graph, a) PROVE c \in Queued
  <2>1. PICK i \in 1..Len(pushed) : pushed[i] = a
    BY DEF Queued
  <2>2. PICK j \in 1..(i - 1) : pushed[j] = c
    BY <1>1, <2>1 DEF QueueInv, ChildrenFirst
  <2>3. j \in 1..Len(pushed)
    BY DEF QueueInv, TargetsInv, TargetsTypeOK
  <2> QED BY <2>2, <2>3 DEF Queued
<1> QED BY <1>1 DEF Complete, QueueInv

\* A rule is queued behind all the rules it depends on, whatever targets came
\* before.
THEOREM QueuesChildrenFirst == TargetsSpec => []ChildrenFirst
BY QueueInvariant, PTL DEF QueueInv

\* All that is below a target that is done has been queued, unless the target
\* is cyclic, and nothing is queued twice but the root of a later target.
THEOREM QueuesAllBelow == TargetsSpec => []NothingMissing
<1>1. QueueInv => NothingMissing
  <2> SUFFICES ASSUME QueueInv PROVE NothingMissing
    OBVIOUS
  <2>1. ASSUME threads, NEW i \in 1..(current - 1)
        PROVE  targets[i] \in refused \/ Below(graph, targets[i]) \subseteq all_rules
    <3>1. targets[i] \in refused \cup all_rules
      BY <2>1 DEF QueueInv, DoneQueued
    <3>2. all_rules \in SUBSET Rules /\ IsGraph(graph)
      BY DEF QueueInv, TargetsInv, TargetsTypeOK
    <3>3. targets[i] \in all_rules => Below(graph, targets[i]) \subseteq all_rules
      BY <3>2, QueuedComplete, BelowIs
    <3> QED BY <3>1, <3>3
  <2> QED BY <2>1 DEF QueueInv, OnlyLaterRoots, NothingMissing
<1> QED BY <1>1, QueueInvariant, PTL

-----------------------------------------------------------------------------
\* A step that runs no command keeps DFS_run's invariant, if no call of it lasts.
LEMMA MakeRests ==
  ASSUME MakeInv, TargetsInv', UNCHANGED <<graph, ran>>, phase' # "run" \/ stack' = <<>>
  PROVE  MakeInv'
BY DEF MakeInv, OnceAndInOrder

\* The cycle check and the queueing run no commands.
LEMMA BesideMake ==
  MakeInv /\ (Verify \/ VerifyBlack \/ VerifyChild \/ Refuse \/ VerifyReturn) => MakeInv'
<1> SUFFICES ASSUME MakeInv, Verify \/ VerifyBlack \/ VerifyChild \/ Refuse \/ VerifyReturn
             PROVE  MakeInv'
  OBVIOUS
<1>1. TargetsInv' /\ TargetsTypeOK
  BY VerifyKeeps, VerifyBlackKeeps, VerifyChildKeeps, RefuseKeeps, VerifyReturnKeeps
     DEF MakeInv, TargetsInv
<1>2. UNCHANGED <<graph, ran>>
  BY DEF Verify, VerifyBlack, VerifyChild, Refuse, VerifyReturn, inputs, making
<1>3. CASE Verify \/ VerifyBlack \/ VerifyChild \/ Refuse
  <2>1. phase' # "run"
    BY <1>3 DEF Verify, VerifyBlack, VerifyChild, Refuse, NextTarget
  <2> QED BY <1>1, <1>2, <2>1, MakeRests
<1>4. CASE VerifyReturn
  <2>1. phase' # "verify" => stack' = <<>>
    BY <1>1, <1>4, VerifyEnds
  <2>2. phase' # "run" \/ stack' = <<>>
    BY <2>1
  <2> QED BY <1>1, <1>2, <2>2, MakeRests
<1> QED BY <1>3, <1>4

\* Queueing runs no commands either.
LEMMA QueueingMake ==
  MakeInv /\ (Pass \/ PassKnown \/ PassChild \/ PassReturn) => MakeInv'
<1> SUFFICES ASSUME MakeInv, Pass \/ PassKnown \/ PassChild \/ PassReturn PROVE MakeInv'
  OBVIOUS
<1>1. TargetsInv'
  BY PassStarts, PassKnownContinues, PassChildDeepens, PassReturnEnds
     DEF MakeInv, Starts, Continues, Deepens, Ends
<1>2. UNCHANGED <<graph, ran>> /\ phase' # "run"
  BY DEF Pass, PassKnown, PassChild, PassReturn, inputs, making, NextTarget
<1> QED BY <1>1, <1>2, MakeRests

\* DFS_run begins with nothing run.
LEMMA RunMake == MakeInv /\ Run => MakeInv'
<1> SUFFICES ASSUME MakeInv, Run PROVE MakeInv'
  OBVIOUS
<1>1. /\ Len(stack') = 1 /\ stack'[1].node = Root /\ stack'[1].i = 1 /\ stack'[1].ok = TRUE
      /\ TargetsInv'
  BY RunStarts DEF MakeInv, Starts, Frame
<1>2. visited' = {Root} /\ ran' = <<>> /\ Ran' = {}
  BY DEF Run, Ran
<1>3. \A k \in 1..1 : k = 1
  OBVIOUS
<1>4. \A k \in 1..Len(stack') : stack'[k].node = Root /\ 1..(stack'[k].i - 1) = {}
  BY <1>1, <1>3
<1>5. ~ \E k \in 1..Len(stack') : ~stack'[k].ok
  BY <1>1, <1>3
<1>6. SettledChildren' /\ SettledRan'
  BY <1>2, <1>4 DEF SettledChildren, SettledRan
<1>7. FailureKept'
  <2>1. Ran' \cap fails' = {}
    BY <1>2
  <2> QED BY <1>5, <2>1 DEF FailureKept
<1>8. OnceAndInOrder'
  <2>1. Len(ran') = 0
    BY <1>2
  <2> QED BY <2>1 DEF OnceAndInOrder
<1> QED BY <1>1, <1>2, <1>4, <1>6, <1>7, <1>8 DEF MakeInv

\* While DFS_run's calls last.
Making ==
    /\ \A k \in 1..Len(stack) : stack[k].node \in visited
    /\ SettledChildren /\ SettledRan /\ FailureKept

\* A rule that has been visited is passed by, having run or needed no run.
LEMMA RunVisitedMake == MakeInv /\ RunVisited => MakeInv'
<1> SUFFICES ASSUME MakeInv, RunVisited PROVE MakeInv'
  OBVIOUS
<1>1. PICK v \in BOOLEAN : v = TRUE /\ Continues(Len(stack), v)
  BY RunVisitedContinues DEF MakeInv
<1>2. PICK n : n = Len(stack)
  OBVIOUS
<1>3. /\ WentOn(n, v) /\ n \in Nat /\ n = Len(stack) /\ n > 0 /\ TargetsInv'
  BY <1>1, <1>2 DEF Continues
<1>4. /\ UNCHANGED <<graph, fails, visited, ran>> /\ TargetsTypeOK /\ Calls
      /\ NextChild \in visited /\ AtChild /\ phase = "run" /\ stack # <<>>
  BY DEF RunVisited, MakeInv, TargetsInv, inputs, making, AtChild, Control
<1>5. Making
  BY <1>4 DEF Making, MakeInv
<1>6. ~OnStack(NextChild)
  <2>1. ~Cyclic(graph, Root)
    BY <1>4 DEF MakeInv, TargetsInv, TargetSound
  <2> QED BY <1>4, <2>1, ChildIsNew
<1>7. \A k \in 1..n : (k \in 1..(n - 1) \/ k = n) /\ (k = n => k > 0)
  BY <1>3
<1>8. \A k \in 1..n : stack'[k].node = stack[k].node
  BY <1>3, <1>7 DEF WentOn
<1>9. \A c : OnStack(c)' <=> OnStack(c)
  BY <1>3, <1>8 DEF OnStack, WentOn
<1>10. SettledChildren'
  <2>1. ASSUME NEW k \in 1..n, NEW i \in 1..(stack'[k].i - 1)
        PROVE  graph[stack[k].node][i] \in visited /\ ~OnStack(graph[stack[k].node][i])
    <3>1. CASE k \in 1..(n - 1)
      <4>1. stack'[k] = stack[k]
        BY <1>3, <3>1 DEF WentOn
      <4> QED BY <1>3, <1>5, <2>1, <4>1 DEF Making, SettledChildren
    <3>2. CASE k = n
      <4>1. stack'[n].i = stack[n].i + 1 /\ stack[n].i \in Nat
        BY <1>3, <1>4, <3>2, FrameIs DEF WentOn
      <4>2. i \in 1..(stack[n].i - 1) \/ i = stack[n].i
        BY <2>1, <3>2, <4>1
      <4>3. graph[stack[n].node][stack[n].i] = NextChild
        BY <1>3 DEF NextChild, Top
      <4>4. i \in 1..(stack[n].i - 1) =>
              graph[stack[n].node][i] \in visited /\ ~OnStack(graph[stack[n].node][i])
        BY <1>3, <1>5, <3>2 DEF Making, SettledChildren
      <4> QED BY <1>4, <1>6, <3>2, <4>2, <4>3, <4>4
    <3> QED BY <1>7, <3>1, <3>2
  <2>2. Len(stack') = n
    BY <1>3 DEF WentOn
  <2> QED BY <1>4, <1>8, <1>9, <2>1, <2>2 DEF SettledChildren
<1>11. SettledRan'
  BY <1>4, <1>5, <1>9 DEF SettledRan, Making, Ran
<1>12. FailureKept'
  <2>1. ASSUME NEW k \in 1..n PROVE stack'[k].ok <=> stack[k].ok
    <3>1. CASE k \in 1..(n - 1)
      BY <1>3, <3>1 DEF WentOn
    <3>2. CASE k = n
      <4>1. stack'[n].ok = (stack[n].ok /\ v)
        BY <1>3 DEF WentOn
      <4> QED BY <1>1, <3>2, <4>1
    <3> QED BY <1>7, <3>1, <3>2
  <2>2. Len(stack') = n /\ Ran' = Ran
    BY <1>3, <1>4 DEF WentOn, Ran
  <2>3. (\E k \in 1..n : ~stack'[k].ok) <=> (\E k \in 1..n : ~stack[k].ok)
    BY <2>1
  <2> QED BY <1>3, <1>4, <1>5, <2>2, <2>3 DEF FailureKept, Making
<1>13. OnceAndInOrder'
  BY <1>4 DEF MakeInv, OnceAndInOrder
<1>14. \A k \in 1..Len(stack') : stack'[k].node \in visited'
  BY <1>3, <1>4, <1>5, <1>8 DEF Making, WentOn
<1> QED BY <1>3, <1>10, <1>11, <1>12, <1>13, <1>14 DEF MakeInv

\* A call for a rule that has not been visited.
LEMMA RunChildMake == MakeInv /\ RunChild => MakeInv'
<1> SUFFICES ASSUME MakeInv, RunChild PROVE MakeInv'
  OBVIOUS
<1>1. MustMake(NextChild) \in BOOLEAN /\ Deepens(Len(stack), MustMake(NextChild))
  BY RunChildDeepens DEF MakeInv
<1>2. PICK n : n = Len(stack)
  OBVIOUS
<1>3. /\ n \in Nat \ {0} /\ TargetsInv' /\ Len(stack') = n + 1
      /\ \A k \in 1..n : stack'[k] = stack[k]
      /\ stack'[n + 1].node = NextChild /\ stack'[n + 1].i = 1 /\ stack'[n + 1].ok = TRUE
  BY <1>1, <1>2 DEF Deepens, Entered, Frame
<1>4. /\ UNCHANGED <<graph, fails, ran>> /\ visited' = visited \cup {NextChild}
      /\ NextChild \notin visited /\ phase = "run" /\ stack # <<>>
  BY DEF RunChild, AtChild, inputs
<1>5. Making
  BY <1>4 DEF Making, MakeInv
<1>6. \A k \in 1..(n + 1) : k \in 1..n \/ k = n + 1
  BY <1>3
<1>7. \A k \in 1..n : k \in 1..(n + 1)
  BY <1>3
<1>8. \A c : OnStack(c)' => OnStack(c) \/ c = NextChild
  BY <1>2, <1>3, <1>6 DEF OnStack
<1>9. SettledChildren'
  <2>1. ASSUME NEW k \in 1..(n + 1), NEW i \in 1..(stack'[k].i - 1), NEW c,
               c = graph[stack'[k].node][i]
        PROVE  c \in visited' /\ ~OnStack(c)'
    <3>1. CASE k \in 1..n
      <4>1. c \in visited /\ ~OnStack(c)
        BY <1>2, <1>3, <1>5, <2>1, <3>1 DEF Making, SettledChildren
      <4> QED BY <1>4, <1>8, <4>1
    <3>2. CASE k = n + 1
      BY <1>3, <2>1, <3>2
    <3> QED BY <1>6, <3>1, <3>2
  <2>2. \A k \in 1..(n + 1) : \A i \in 1..(stack'[k].i - 1) : \A c :
          c = graph[stack'[k].node][i] => c \in visited' /\ ~OnStack(c)'
    BY <2>1
  <2> QED BY <1>3, <1>4, <2>2 DEF SettledChildren
<1>10. SettledRan'
  <2>1. \A r : r \in visited /\ ~OnStack(r) => r \in visited' /\ ~OnStack(r)'
    BY <1>4, <1>8
  <2> QED BY <1>4, <1>5, <2>1 DEF Making, SettledRan, Ran
<1>11. FailureKept'
  <2>1. (\E k \in 1..(n + 1) : ~stack'[k].ok) <=> (\E k \in 1..n : ~stack[k].ok)
    <3>1. \A k \in 1..n : stack'[k].ok <=> stack[k].ok
      BY <1>3
    <3> QED BY <1>3, <1>6, <1>7, <3>1
  <2>2. Ran' = Ran
    BY <1>4 DEF Ran
  <2> QED BY <1>2, <1>3, <1>4, <1>5, <2>1, <2>2 DEF FailureKept, Making
<1>12. OnceAndInOrder'
  BY <1>4 DEF MakeInv, OnceAndInOrder
<1>13. \A k \in 1..Len(stack') : stack'[k].node \in visited'
  BY <1>2, <1>3, <1>4, <1>5, <1>6 DEF Making
<1> QED BY <1>3, <1>9, <1>10, <1>11, <1>12, <1>13 DEF MakeInv

\* A command that starts behind those of all that the rule depends on, which
\* has not run before.
LEMMA RunsOnceInOrder ==
  ASSUME OnceAndInOrder, ran \in Seq(Rules), NEW t \in Rules, graph' = graph,
         ran' = Append(ran, t), t \notin Ran, t \notin Dependencies(graph, t),
         \A r \in Ran : t \notin Dependencies(graph, r)
  PROVE  OnceAndInOrder' /\ Ran' = Ran \cup {t}
<1>1. PICK m : m = Len(ran)
  OBVIOUS
<1>2. m \in Nat
  BY <1>1
<1>3. Len(ran') = m + 1 /\ ran'[m + 1] = t /\ \A i \in 1..m : ran'[i] = ran[i]
  BY <1>1, <1>2
<1>4. \A i \in 1..(m + 1) : i \in 1..m \/ i = m + 1
  BY <1>2
<1>5. m + 1 \in 1..(m + 1) /\ \A i \in 1..m : i \in 1..(m + 1) /\ i < m + 1
  BY <1>2
<1>6. \A i \in 1..m : ran[i] # t /\ t \notin Dependencies(graph, ran[i])
  BY <1>1 DEF Ran
<1>7. ASSUME NEW i \in 1..(m + 1), NEW j \in 1..(m + 1), ran'[i] = ran'[j]
      PROVE  i = j
  <2>1. CASE i \in 1..m /\ j \in 1..m
    BY <1>1, <1>3, <1>7, <2>1 DEF OnceAndInOrder
  <2>2. CASE i = m + 1 /\ j = m + 1
    BY <2>2
  <2>3. CASE (i \in 1..m /\ j = m + 1) \/ (j \in 1..m /\ i = m + 1)
    BY <1>3, <1>6, <1>7, <2>3
  <2> QED BY <1>4, <2>1, <2>2, <2>3
<1>8. ASSUME NEW i \in 1..(m + 1), NEW j \in 1..(m + 1), ran'[j] \in Dependencies(graph, ran'[i])
      PROVE  j < i
  <2>1. CASE i \in 1..m /\ j \in 1..m
    BY <1>1, <1>3, <1>8, <2>1 DEF OnceAndInOrder
  <2>2. CASE i = m + 1 /\ j \in 1..m
    BY <1>5, <2>2
  <2>3. CASE j = m + 1
    <3>1. ran'[j] = t
      BY <1>3, <2>3
    <3> QED BY <1>3, <1>4, <1>6, <1>8, <3>1
  <2> QED BY <1>4, <2>1, <2>2, <2>3
<1>9. OnceAndInOrder'
  BY <1>3, <1>7, <1>8 DEF OnceAndInOrder
<1>10. Ran' = Ran \cup {t}
  BY <1>1, <1>3, <1>4, <1>5 DEF Ran
<1> QED BY <1>9, <1>10

\* A call ends, its rule's commands having run or not.
LEMMA RunReturnMake ==
  ASSUME MakeInv, RunReturn
  PROVE  /\ MakeInv'
         /\ Len(stack) = 1 => (~Result <=> Ran' \cap fails # {})
<1>1. Result \in BOOLEAN /\ Ends(Len(stack) - 1, Result)
  BY RunReturnEnds DEF MakeInv
<1>2. PICK n : n = Len(stack) - 1
  OBVIOUS
<1>3. /\ WentOn(n, Result) /\ n \in Nat /\ Len(stack) = n + 1 /\ Top = stack[n + 1]
      /\ Top.node \in Rules /\ Top.i \in Nat /\ Len(graph[Top.node]) \in Nat /\ TargetsInv'
  BY <1>1, <1>2 DEF Ends
<1>4. /\ UNCHANGED <<graph, fails, visited>> /\ TargetsTypeOK /\ Calls
      /\ AtEnd /\ phase = "run" /\ stack # <<>>
      /\ IF Runs THEN RunCommands ELSE UNCHANGED <<ran, mtime, clock>>
  BY DEF RunReturn, MakeInv, TargetsInv, inputs, AtEnd, Control
<1>5. Making
  BY <1>4 DEF Making, MakeInv
<1>6. PICK t \in Rules : t = Top.node
  BY <1>3
<1>7. n + 1 \in 1..(n + 1) /\ \A k \in 1..n : k \in 1..(n + 1) /\ k # n + 1
  BY <1>3
<1>8. t \in visited /\ OnStack(t) /\ t = stack[n + 1].node
  BY <1>3, <1>5, <1>6, <1>7 DEF Making, OnStack
<1>9. \A c \in Dependencies(graph, t) : c \in visited /\ ~OnStack(c)
  <2>1. DOMAIN graph[t] \subseteq 1..(stack[n + 1].i - 1)
    <3>1. DOMAIN graph[t] = 1..Len(graph[t])
      BY <1>4, DependenciesType DEF TargetsTypeOK
    <3> QED BY <1>3, <1>4, <1>6, <3>1 DEF AtEnd
  <2>2. \A i \in 1..(stack[n + 1].i - 1) : graph[t][i] \in visited /\ ~OnStack(graph[t][i])
    BY <1>3, <1>5, <1>7, <1>8 DEF Making, SettledChildren
  <2> QED BY <2>1, <2>2 DEF Dependencies
<1>10. Len(stack') = n /\ \A k \in 1..n : stack'[k].node = stack[k].node
  <2>1. \A k \in 1..n : k \in 1..(n - 1) \/ (k = n /\ n > 0)
    BY <1>3
  <2> QED BY <1>3, <2>1 DEF WentOn
<1>11. \A c : OnStack(c)' => OnStack(c) /\ c # t
  <2>1. \A k \in 1..n : stack[k].node # t
    BY <1>3, <1>4, <1>7, <1>8 DEF Calls, Apart
  <2> QED BY <1>3, <1>7, <1>10, <2>1 DEF OnStack
<1>12. OnceAndInOrder' /\ Ran' = IF Runs THEN Ran \cup {t} ELSE Ran
  <2>1. CASE Runs
    <3>1. ran' = Append(ran, t) /\ ran \in Seq(Rules)
      BY <1>4, <1>6, <2>1 DEF RunCommands, TargetsTypeOK
    <3>2. t \notin Ran /\ t \notin Dependencies(graph, t)
          /\ \A r \in Ran : t \notin Dependencies(graph, r)
      BY <1>5, <1>8, <1>9 DEF Making, SettledRan
    <3> QED BY <1>4, <2>1, <3>1, <3>2, RunsOnceInOrder DEF MakeInv
  <2>2. CASE ~Runs
    BY <1>4, <2>2 DEF MakeInv, OnceAndInOrder, Ran
  <2> QED BY <2>1, <2>2
<1>13. SettledChildren'
  <2>1. ASSUME NEW k \in 1..n, NEW i \in 1..(stack'[k].i - 1), NEW c,
               c = graph[stack[k].node][i]
        PROVE  c \in visited /\ ~OnStack(c)'
    <3>1. CASE k \in 1..(n - 1)
      <4>1. stack'[k] = stack[k]
        BY <1>3, <3>1 DEF WentOn
      <4>2. c \in visited /\ ~OnStack(c)
        BY <1>3, <1>5, <1>7, <2>1, <4>1 DEF Making, SettledChildren
      <4> QED BY <1>11, <4>2
    <3>2. CASE k = n
      <4>1. stack'[n].i = stack[n].i + 1 /\ stack[n].i \in Nat
        BY <1>3, <1>4, <1>7, <3>2, FrameIs DEF WentOn
      <4>2. i \in 1..(stack[n].i - 1) \/ i = stack[n].i
        BY <2>1, <3>2, <4>1
      <4>3. graph[stack[n].node][stack[n].i] = t
        BY <1>3, <1>4, <1>8, <3>2 DEF Calls, CalledBy
      <4>4. i \in 1..(stack[n].i - 1) => c \in visited /\ ~OnStack(c)
        BY <1>3, <1>5, <1>7, <2>1, <3>2 DEF Making, SettledChildren
      <4> QED BY <1>8, <1>11, <2>1, <3>2, <4>2, <4>3, <4>4
    <3> QED BY <1>3, <3>1, <3>2
  <2>2. \A k \in 1..n : \A i \in 1..(stack'[k].i - 1) : \A c :
          c = graph[stack[k].node][i] => c \in visited /\ ~OnStack(c)'
    BY <2>1
  <2> QED BY <1>4, <1>10, <2>2 DEF SettledChildren
<1>14. SettledRan'
  <2>1. \A c : c \in visited /\ ~OnStack(c) => c \in visited' /\ ~OnStack(c)'
    BY <1>4, <1>11
  <2>2. \A r \in Ran : r \in visited' /\ ~OnStack(r)'
                       /\ \A c \in Dependencies(graph, r) : c \in visited' /\ ~OnStack(c)'
    BY <1>5, <2>1 DEF Making, SettledRan
  <2>3. t \in visited' /\ ~OnStack(t)'
        /\ \A c \in Dependencies(graph, t) : c \in visited' /\ ~OnStack(c)'
    BY <1>4, <1>8, <1>9, <1>11, <2>1
  <2>4. \A r \in Ran' : r \in Ran \/ r = t
    BY <1>12
  <2> QED BY <1>4, <2>2, <2>3, <2>4 DEF SettledRan
<1>15. (\E k \in 1..(n + 1) : ~stack[k].ok) <=> Ran \cap fails # {}
  BY <1>3, <1>5 DEF Making, FailureKept
<1>16. ((\E k \in 1..n : ~stack[k].ok) \/ ~Result) <=> Ran' \cap fails # {}
  <2>1. \A k \in 1..(n + 1) : k \in 1..n \/ k = n + 1
    BY <1>3
  <2>2. (\E k \in 1..(n + 1) : ~stack[k].ok) <=> (\E k \in 1..n : ~stack[k].ok) \/ ~Top.ok
    BY <1>3, <1>7, <2>1
  <2>3. CASE ~Top.ok
    <3>1. Ran' = Ran /\ ~Result
      BY <1>12, <2>3 DEF Runs, Result
    <3> QED BY <1>15, <2>2, <2>3, <3>1
  <2>4. CASE Top.ok /\ ~Top.must
    <3>1. Ran' = Ran /\ Result
      BY <1>12, <2>4 DEF Runs, Result
    <3> QED BY <1>15, <2>2, <2>4, <3>1
  <2>5. CASE Top.ok /\ Top.must
    <3>1. Ran' = Ran \cup {t} /\ (Result <=> t \notin fails)
      BY <1>6, <1>12, <2>5 DEF Runs, Result
    <3>2. Ran' \cap fails # {} <=> (Ran \cap fails # {} \/ t \in fails)
      BY <3>1
    <3> QED BY <1>15, <2>2, <2>5, <3>1, <3>2
  <2> QED BY <2>3, <2>4, <2>5
<1>17. Len(stack) = 1 => (~Result <=> Ran' \cap fails # {})
  <2>1. Len(stack) = 1 => n = 0
    <3>1. Len(stack) = 1 => n + 1 = 1 /\ n \in Nat
      BY <1>3
    <3>2. n + 1 = 1 /\ n \in Nat => n = 0
      OBVIOUS
    <3> QED BY <3>1, <3>2
  <2>2. n = 0 => ~ \E k \in 1..n : ~stack[k].ok
    OBVIOUS
  <2> QED BY <1>16, <2>1, <2>2
<1>18. n # 0 => FailureKept'
  <2> SUFFICES ASSUME n # 0 PROVE FailureKept'
    OBVIOUS
  <2>1. n \in 1..n /\ n > 0 /\ \A k \in 1..n : k \in 1..(n - 1) \/ k = n
    BY <1>3
  <2>2. \A k \in 1..(n - 1) : k \in 1..n /\ (stack'[k].ok <=> stack[k].ok)
    BY <1>3 DEF WentOn
  <2>3. stack'[n].ok <=> stack[n].ok /\ Result
    <3>1. stack'[n].ok = (stack[n].ok /\ Result)
      BY <1>3, <2>1 DEF WentOn
    <3> QED BY <3>1
  <2>4. (\E k \in 1..n : ~stack'[k].ok) <=> (\E k \in 1..n : ~stack[k].ok) \/ ~Result
    BY <2>1, <2>2, <2>3
  <2> QED BY <1>4, <1>10, <1>16, <2>4 DEF FailureKept
<1>19. \A k \in 1..Len(stack') : stack'[k].node \in visited'
  BY <1>3, <1>4, <1>5, <1>7, <1>10 DEF Making
<1>20. MakeInv'
  <2>1. n = 0 => phase' # "run"
    BY <1>3 DEF RunReturn, NextTarget
  <2> QED BY <1>3, <1>12, <1>13, <1>14, <1>18, <1>19, <2>1 DEF MakeInv
<1> QED BY <1>17, <1>20

\* Main starts with nothing run.
LEMMA MakeStart == TargetsInit => MakeInv
<1> SUFFICES ASSUME TargetsInit PROVE MakeInv
  OBVIOUS
<1>1. Len(ran) = 0 /\ phase = "target"
  BY DEF TargetsInit
<1> QED BY <1>1, TargetsStart DEF MakeInv, OnceAndInOrder

\* A step that changes nothing keeps DFS_run's invariant.
LEMMA MakeStutter == MakeInv /\ UNCHANGED targetsVars => MakeInv'
<1> SUFFICES ASSUME MakeInv, UNCHANGED targetsVars PROVE MakeInv'
  OBVIOUS
<1>1. UNCHANGED <<graph, fails, phase, stack, visited, ran>> /\ TargetsInv'
  BY TargetsStutter DEF MakeInv, targetsVars, inputs, making
<1>2. UNCHANGED Ran /\ \A c : OnStack(c)' <=> OnStack(c)
  BY <1>1 DEF Ran, OnStack
<1>3. OnceAndInOrder'
  BY <1>1 DEF MakeInv, OnceAndInOrder
<1>4. Making => Making'
  BY <1>1, <1>2 DEF Making, SettledChildren, SettledRan, FailureKept
<1> QED BY <1>1, <1>3, <1>4 DEF MakeInv, Making

\* Every step keeps it.
LEMMA MakeStep == MakeInv /\ [TargetsNext]_targetsVars => MakeInv'
BY BesideMake, QueueingMake, RunMake, RunVisitedMake, RunChildMake, RunReturnMake, MakeStutter
   DEF TargetsNext

\* It holds throughout.
LEMMA MakeInvariant == TargetsSpec => []MakeInv
BY MakeStart, MakeStep, PTL DEF TargetsSpec

\* DFS_run starts the commands of a rule at most once for a target, behind
\* those of all that the rule depends on.
THEOREM RunsOnceAndInOrder == TargetsSpec => []OnceAndInOrder
BY MakeInvariant, PTL DEF MakeInv

\* run_target_threadless returns FALSE exactly when some command failed.
THEOREM ReportsFailures == TargetsSpec => ResultIsTrue
<1>1. MakeInv /\ [TargetsNext]_targetsVars
      => [phase = "run" /\ phase' = "target" => (~result' <=> Ran' \cap fails # {})]_targetsVars
  <2> SUFFICES ASSUME MakeInv, TargetsNext, phase = "run", phase' = "target"
               PROVE  ~result' <=> Ran' \cap fails # {}
    OBVIOUS
  <2>1. RunReturn
    BY DEF TargetsNext, Verify, VerifyBlack, VerifyChild, Refuse, VerifyReturn, Pass, PassKnown,
           PassChild, PassReturn, Run, RunVisited, RunChild
  <2>2. Len(stack) = 1 /\ result' = Result
    BY <2>1 DEF RunReturn
  <2> QED BY <2>1, <2>2, RunReturnMake
<1> QED BY <1>1, MakeInvariant, PTL DEF TargetsSpec, ResultIsTrue

-----------------------------------------------------------------------------
\* What is pushed for a target, wherever what was queued for it begins.
QueuesWaitlist ==
    phase = "pass" /\ phase' = "target" =>
       \A n \in 0..Len(pushed) :
          LET all == {pushed[i] : i \in 1..n}
          IN  /\ Complete(graph, all)
              /\ IsWaitlist(graph, all, Root, SubSeq(pushed', n + 1, Len(pushed')))

\* A part of the queue that ends with the rule.
LEMMA TailIsWaitlist ==
  ASSUME NEW g, IsGraph(g), NEW p \in Seq(Rules), NEW r \in Rules, NEW n \in 0..(Len(p) - 1),
         \A i \in 1..Len(p) : \A c \in Dependencies(g, p[i]) : \E j \in 1..(i - 1) : p[j] = c,
         p[Len(p)] = r
  PROVE  /\ Complete(g, {p[i] : i \in 1..n})
         /\ IsWaitlist(g, {p[i] : i \in 1..n}, r, SubSeq(p, n + 1, Len(p)))
<1>1. PICK m : m = Len(p)
  OBVIOUS
<1>2. PICK all : all = {p[i] : i \in 1..n}
  OBVIOUS
<1>3. PICK s : s = SubSeq(p, n + 1, m)
  OBVIOUS
<1>4. m \in Nat /\ n \in Nat /\ n < m
  BY <1>1
<1>5. \A i \in 1..n : i \in 1..m
  BY <1>4
<1>6. Complete(g, all)
  <2>1. ASSUME NEW i \in 1..n, NEW c \in Dependencies(g, p[i]) PROVE c \in all
    <3>1. PICK j \in 1..(i - 1) : p[j] = c
      BY <1>1, <1>5, <2>1
    <3>2. j \in 1..n
      BY <1>4
    <3> QED BY <1>2, <3>1, <3>2
  <2> QED BY <1>2, <2>1 DEF Complete
<1>7. s \in Seq(Rules) /\ Len(s) = m - n /\ \A i \in 1..(m - n) : s[i] = p[n + i]
  <2>1. \A i \in (n + 1)..m : p[i] \in Rules
    BY <1>1, <1>4
  <2>2. Len(s) = m - n /\ \A i \in 1..(m - n) : s[i] = p[n + i]
    BY <1>1, <1>3, <1>4
  <2>3. s \in Seq(Rules)
    BY <1>1, <1>3, <1>4, <2>1
  <2> QED BY <2>2, <2>3
<1>8. s[m - n] = r /\ m - n \in 1..(m - n)
  <2>1. m - n \in 1..(m - n) /\ n + (m - n) = m
    BY <1>4
  <2> QED BY <1>1, <1>7, <2>1
<1>9. ASSUME NEW i \in 1..(m - n), NEW c \in Dependencies(g, s[i])
      PROVE  c \in all \/ \E j \in 1..(i - 1) : s[j] = c
  <2>1. s[i] = p[n + i] /\ n + i \in 1..m
    BY <1>4, <1>7
  <2>2. PICK j \in 1..((n + i) - 1) : p[j] = c
    BY <1>1, <1>9, <2>1
  <2>3. CASE j \in 1..n
    BY <1>2, <2>2, <2>3
  <2>4. CASE j \notin 1..n
    <3>1. j - n \in 1..(i - 1) /\ j - n \in 1..(m - n) /\ n + (j - n) = j
      BY <1>4, <2>4
    <3> QED BY <1>7, <2>2, <3>1
  <2> QED BY <2>3, <2>4
<1>10. IsWaitlist(g, all, r, s)
  BY <1>7, <1>8, <1>9 DEF IsWaitlist
<1> QED BY <1>1, <1>2, <1>3, <1>6, <1>10

\* What create_waitlist pushes for a target keeps what WaitlistAssumption says
\* of Waitlist, whatever targets came before.
THEOREM CreatesWaitlists == TargetsSpec => [][QueuesWaitlist]_targetsVars
<1>1. QueueInv /\ [TargetsNext]_targetsVars => [QueuesWaitlist]_targetsVars
  <2> SUFFICES ASSUME QueueInv, TargetsNext, phase = "pass", phase' = "target"
               PROVE  QueuesWaitlist
    BY DEF QueuesWaitlist
  <2>1. PassReturn
    BY DEF TargetsNext, Verify, VerifyBlack, VerifyChild, Refuse, VerifyReturn, Pass, PassKnown,
           PassChild, Run, RunVisited, RunChild, RunReturn
  <2>2. Top.ok /\ Len(stack) = 1 /\ pushed' = Append(pushed, Top.node)
    BY <2>1 DEF PassReturn
  <2>3. QueueInv' /\ graph' = graph
    BY <2>1, PassReturnQueue DEF PassReturn, inputs
  <2>4. Top.node = Root /\ Root \in Rules
    <3>1. Calls /\ TargetsTypeOK /\ current <= Len(targets) /\ stack # <<>>
      BY <2>1 DEF QueueInv, TargetsInv, Control, PassReturn, AtEnd
    <3>2. stack[1].node = Root
      BY <3>1 DEF Calls, RootFirst
    <3> QED BY <2>2, <3>1, <3>2, RootType DEF Top
  <2>5. PICK p : p = pushed'
    OBVIOUS
  <2>6. p \in Seq(Rules) /\ Len(p) = Len(pushed) + 1 /\ p[Len(p)] = Root
        /\ \A i \in 1..Len(pushed) : p[i] = pushed[i]
    BY <2>2, <2>4, <2>5 DEF QueueInv, TargetsInv, TargetsTypeOK
  <2>7. \A i \in 1..Len(p) : \A c \in Dependencies(graph, p[i]) :
          \E j \in 1..(i - 1) : p[j] = c
    BY <2>3, <2>5 DEF QueueInv, ChildrenFirst
  <2>8. ASSUME NEW n \in 0..Len(pushed)
        PROVE  /\ Complete(graph, {pushed[i] : i \in 1..n})
               /\ IsWaitlist(graph, {pushed[i] : i \in 1..n}, Root, SubSeq(p, n + 1, Len(p)))
    <3>1. n \in 0..(Len(p) - 1) /\ IsGraph(graph) /\ Len(pushed) \in Nat
      BY <2>6 DEF QueueInv, TargetsInv, TargetsTypeOK
    <3>2. \A i \in 1..n : p[i] = pushed[i]
      BY <2>6, <3>1
    <3>3. {p[i] : i \in 1..n} = {pushed[i] : i \in 1..n}
      BY <3>2
    <3>4. /\ Complete(graph, {p[i] : i \in 1..n})
          /\ IsWaitlist(graph, {p[i] : i \in 1..n}, Root, SubSeq(p, n + 1, Len(p)))
      BY <2>4, <2>6, <2>7, <3>1, TailIsWaitlist
    <3> QED BY <3>3, <3>4
  <2> QED BY <2>5, <2>8 DEF QueuesWaitlist
<1> QED BY <1>1, QueueInvariant, PTL DEF TargetsSpec
=============================================================================
