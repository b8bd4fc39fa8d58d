------------------------------ MODULE Parmake -------------------------------
(***************************************************************************)
(* parmake with worker threads (parallel_make/parmake.c:210-326, :353-435).*)
(* main queues the rules below each target and waits for the target; the   *)
(* workers pull rules, wait for their children, run commands and record    *)
(* the outcome.                                                            *)
(*                                                                         *)
(* main updates queue_size and wakes the workers without queue_mtx, and    *)
(* the workers record outcomes and wake the waiters without verify_mtx, as *)
(* in the code.  verify_mtx itself is not modelled: only threads that look *)
(* at the outcomes take it, so nothing that matters excludes anything.     *)
(* waiting_rules is the unbounded queue that BoundedQueue implements.      *)
(* Steps that only read outcomes, which never go away, are joined with the *)
(* step that follows them.                                                 *)
(***************************************************************************)
EXTENDS Makefile

CONSTANTS Workers, NoRule, NoWorker,
          Graphs,               \* the dependency graphs considered
          TargetLists,          \* the sequences of targets considered
          StartTimes,           \* the files' times at the start, 0 for no file
          StartClock,           \* the time of the first command
          Writes,               \* the rules whose commands write their file
          ContainsCycle(_, _),  \* contains_cycle, see Makefile!Cyclic
          Waitlist(_, _, _)     \* create_waitlist, see MakeRules!QueuedFor

\* The list has the rule, and each rule in it comes after its dependencies
\* unless they are in all, the rules of earlier waitlists.
IsWaitlist(g, all, r, list) ==
    /\ list \in Seq(Rules)
    /\ \E i \in 1..Len(list) : list[i] = r
    /\ \A i \in 1..Len(list) : \A c \in Dependencies(g, list[i]) :
         c \in all \/ \E j \in 1..(i - 1) : list[j] = c

ASSUME WaitlistAssumption ==
    \A g \in Graphs, r \in Rules, all \in SUBSET Rules :
       ~ContainsCycle(g, r) /\ Complete(g, all)
       => IsWaitlist(g, all, r, Waitlist(g, all, r))

ASSUME ParmakeAssumption ==
    /\ \A g \in Graphs : g \in [Rules -> Seq(Rules)]
    /\ \A l \in TargetLists : l \in Seq(Rules)
    /\ \A m \in StartTimes : m \in [Rules -> Nat]
    /\ StartClock \in Nat
    /\ NoRule \notin Rules /\ NoWorker \notin Workers

\* Without threads parmake takes another path (parmake.c:332).
ASSUME WorkersAssumption == Workers # {}

VARIABLES mainAt, todo, loaded,                           \* the main thread
          queue_size, waiting_rules, queue_mtx, job_done, \* shared with it
          at, rule, seen, must, next,                     \* the workers
          successful_rules, failed_rules

inputVars == <<graph, targets>>
mainVars == <<mainAt, current, todo, loaded, all_rules>>
queueVars == <<queue_size, waiting_rules, queue_mtx, job_done>>
workerVars == <<at, rule, seen, must, next>>
verdictVars == <<successful_rules, failed_rules>>
fileVars == <<mtime, clock>>
vars == <<inputVars, mainVars, queueVars, workerVars, verdictVars, fileVars>>

Verified == successful_rules \cup failed_rules

\* A worker that has pulled a rule and not yet decided it.
Holding(w) == at[w] \in {"stat", "child", "nap", "asleep", "run"}

Held == {rule[w] : w \in {u \in Workers : Holding(u)}}

\* A worker holds a rule, and at a child it is at one of the rule's.
WorkersFit ==
    \A w \in Workers :
       /\ Holding(w) => rule[w] \in Rules
       /\ at[w] \in {"child", "nap", "asleep"} => next[w] \in DOMAIN graph[rule[w]]

CoreTypes ==
    /\ graph \in Graphs /\ targets \in TargetLists
    /\ mainAt \in {"target", "load", "store", "push", "wake", "check", "nap",
                   "asleep", "join", "returned"}
    /\ current \in 1..(Len(targets) + 1)
    /\ todo \in Seq(Rules) /\ loaded \in Nat /\ all_rules \subseteq Rules
    /\ queue_size \in Nat /\ waiting_rules \in Seq(Rules)
    /\ queue_mtx \in Workers \cup {NoWorker} /\ job_done \in BOOLEAN
    /\ at \in [Workers -> {"look", "drowsy", "dozing", "take", "pull", "stat",
                           "child", "nap", "asleep", "run", "exited"}]
    /\ rule \in [Workers -> Rules \cup {NoRule}]
    /\ seen \in [Workers -> Nat] /\ must \in [Workers -> BOOLEAN]
    /\ next \in [Workers -> Nat]
    /\ successful_rules \subseteq Rules /\ failed_rules \subseteq Rules
    /\ mtime \in [Rules -> Nat] /\ clock \in Nat

\* main's and the workers' variables (parmake.c:210-326), and every worker that
\* is past queue_pull has a rule and a child of it to look at.
TypeOK == CoreTypes /\ WorkersFit

Init ==
    /\ graph \in Graphs /\ targets \in TargetLists
    /\ mainAt = "target" /\ current = 1
    /\ todo = <<>> /\ loaded = 0 /\ all_rules = {}
    /\ queue_size = 0 /\ waiting_rules = <<>>
    /\ queue_mtx = NoWorker /\ job_done = FALSE
    /\ at = [w \in Workers |-> "look"]
    /\ rule = [w \in Workers |-> NoRule]
    /\ seen = [w \in Workers |-> 0]
    /\ must = [w \in Workers |-> FALSE]
    /\ next = [w \in Workers |-> 0]
    /\ successful_rules = {} /\ failed_rules = {}
    /\ mtime \in StartTimes /\ clock = StartClock

-----------------------------------------------------------------------------
\* main: parmake and run_target.

\* A cyclic target is reported and skipped.
Skip ==
    /\ mainAt = "target" /\ current <= Len(targets)
    /\ ContainsCycle(graph, targets[current])
    /\ current' = current + 1
    /\ UNCHANGED <<inputVars, mainAt, todo, loaded, all_rules, queueVars,
                   workerVars, verdictVars, fileVars>>

\* create_waitlist works out what to push from main's own all_rules alone.
Plan ==
    /\ mainAt = "target" /\ current <= Len(targets)
    /\ ~ContainsCycle(graph, targets[current])
    /\ todo' = Waitlist(graph, all_rules, targets[current])
    /\ all_rules' = all_rules \cup {todo'[i] : i \in DOMAIN todo'}
    /\ mainAt' = "load"
    /\ UNCHANGED <<inputVars, current, loaded, queueVars, workerVars,
                   verdictVars, fileVars>>

\* queue_size++ without the lock reads ...
Load ==
    /\ mainAt = "load"
    /\ loaded' = queue_size
    /\ mainAt' = "store"
    /\ UNCHANGED <<inputVars, current, todo, all_rules, queueVars, workerVars,
                   verdictVars, fileVars>>

\* ... and later writes.
Store ==
    /\ mainAt = "store"
    /\ queue_size' = loaded + 1
    /\ loaded' = 0
    /\ mainAt' = "push"
    /\ UNCHANGED <<inputVars, current, todo, all_rules, waiting_rules, queue_mtx,
                   job_done, workerVars, verdictVars, fileVars>>

\* Mutant: the queue is a stack.
PushInFront ==
    /\ mainAt = "push"
    /\ waiting_rules' = <<Head(todo)>> \o waiting_rules
    /\ todo' = Tail(todo)
    /\ mainAt' = IF Tail(todo) = <<>> THEN "wake" ELSE "load"
    /\ UNCHANGED <<inputVars, current, loaded, all_rules, queue_size, queue_mtx,
                   job_done, workerVars, verdictVars, fileVars>>

Push ==
    /\ mainAt = "push"
    /\ waiting_rules' = Append(waiting_rules, Head(todo))
    /\ todo' = Tail(todo)
    /\ mainAt' = IF Tail(todo) = <<>> THEN "wake" ELSE "load"
    /\ UNCHANGED <<inputVars, current, loaded, all_rules, queue_size, queue_mtx,
                   job_done, workerVars, verdictVars, fileVars>>

\* pthread_cond_broadcast(&queue_cond).
WakeDozing == [w \in Workers |-> IF at[w] = "dozing" THEN "look" ELSE at[w]]

\* The broadcast of run_target, without the lock.
Wake ==
    /\ mainAt = "wake"
    /\ at' = WakeDozing
    /\ mainAt' = "check"
    /\ UNCHANGED <<inputVars, current, todo, loaded, all_rules, queueVars, rule,
                   seen, must, next, verdictVars, fileVars>>

\* The root is looked up; main goes on to the next target or will wait.
CheckRoot ==
    /\ mainAt = "check"
    /\ IF targets[current] \in Verified
       THEN mainAt' = "target" /\ current' = current + 1
       ELSE mainAt' = "nap" /\ UNCHANGED current
    /\ UNCHANGED <<inputVars, todo, loaded, all_rules, queueVars, workerVars,
                   verdictVars, fileVars>>

\* pthread_cond_wait(&verify_cond, ...) puts main to sleep.
RootNap ==
    /\ mainAt = "nap"
    /\ mainAt' = "asleep"
    /\ UNCHANGED <<inputVars, current, todo, loaded, all_rules, queueVars,
                   workerVars, verdictVars, fileVars>>

RootSpuriousWakeup ==
    /\ mainAt = "asleep"
    /\ mainAt' = "check"
    /\ UNCHANGED <<inputVars, current, todo, loaded, all_rules, queueVars,
                   workerVars, verdictVars, fileVars>>

\* All targets are done: job_done and the broadcast, this time under the lock.
Finish ==
    /\ mainAt = "target" /\ current > Len(targets)
    /\ queue_mtx = NoWorker
    /\ job_done' = TRUE
    /\ at' = WakeDozing
    /\ mainAt' = "join"
    /\ UNCHANGED <<inputVars, current, todo, loaded, all_rules, queue_size,
                   waiting_rules, queue_mtx, rule, seen, must, next,
                   verdictVars, fileVars>>

\* pthread_join of all workers.
Join ==
    /\ mainAt = "join" /\ \A w \in Workers : at[w] = "exited"
    /\ mainAt' = "returned"
    /\ UNCHANGED <<inputVars, current, todo, loaded, all_rules, queueVars,
                   workerVars, verdictVars, fileVars>>

-----------------------------------------------------------------------------
\* worker_thread.

Go(w, place) == at' = [at EXCEPT ![w] = place]

\* Mutant: queue_size is not tested.
LookBlindly(w) ==
    /\ at[w] = "look" /\ queue_mtx = NoWorker
    /\ Go(w, "take")
    /\ queue_mtx' = w /\ seen' = [seen EXCEPT ![w] = queue_size]
    /\ UNCHANGED <<inputVars, mainVars, queue_size, waiting_rules, job_done, rule,
                   must, next, verdictVars, fileVars>>

\* Under queue_mtx: exit, decide to wait, or read queue_size to decrement it.
Look(w) ==
    /\ at[w] = "look" /\ queue_mtx = NoWorker
    /\ \/ /\ queue_size = 0 /\ job_done
          /\ Go(w, "exited")
          /\ UNCHANGED <<seen, queue_mtx>>
       \/ /\ queue_size = 0 /\ ~job_done
          /\ Go(w, "drowsy")
          /\ queue_mtx' = w /\ UNCHANGED seen
       \/ /\ queue_size > 0
          /\ Go(w, "take")
          /\ queue_mtx' = w /\ seen' = [seen EXCEPT ![w] = queue_size]
    /\ UNCHANGED <<inputVars, mainVars, queue_size, waiting_rules, job_done, rule,
                   must, next, verdictVars, fileVars>>

\* pthread_cond_wait(&queue_cond, &queue_mtx) releases the lock and sleeps.
Doze(w) ==
    /\ at[w] = "drowsy"
    /\ Go(w, "dozing")
    /\ queue_mtx' = NoWorker
    /\ UNCHANGED <<inputVars, mainVars, queue_size, waiting_rules, job_done, rule,
                   seen, must, next, verdictVars, fileVars>>

\* queue_size-- writes what it read, at the test or again; then unlock.
Take(w) ==
    /\ at[w] = "take"
    /\ queue_size' \in {seen[w] - 1, queue_size - 1}
    /\ Go(w, "pull")
    /\ queue_mtx' = NoWorker
    /\ seen' = [seen EXCEPT ![w] = 0]
    /\ UNCHANGED <<inputVars, mainVars, waiting_rules, job_done, rule, must, next,
                   verdictVars, fileVars>>

\* queue_pull returns the oldest rule, once there is one.
Pull(w) ==
    /\ at[w] = "pull" /\ waiting_rules # <<>>
    /\ rule' = [rule EXCEPT ![w] = Head(waiting_rules)]
    /\ waiting_rules' = Tail(waiting_rules)
    /\ Go(w, "stat")
    /\ UNCHANGED <<inputVars, mainVars, queue_size, queue_mtx, job_done, seen, must,
                   next, verdictVars, fileVars>>

\* No file, a child that is no file or is newer, or no children at all.
MustRun(r) ==
    \/ mtime[r] = 0
    \/ graph[r] = <<>>
    \/ \E c \in Dependencies(graph, r) : mtime[c] = 0 \/ mtime[r] < mtime[c]

\* The files are looked at before the children have been waited for.
Stat(w) ==
    /\ at[w] = "stat"
    /\ must' = [must EXCEPT ![w] = MustRun(rule[w])]
    /\ IF graph[rule[w]] = <<>>
       THEN Go(w, "run") /\ UNCHANGED next
       ELSE Go(w, "child") /\ next' = [next EXCEPT ![w] = 1]
    /\ UNCHANGED <<inputVars, mainVars, queueVars, rule, seen, verdictVars, fileVars>>

Child(w) == graph[rule[w]][next[w]]

\* Mutant: a child's failure is not looked for.
AnyChild(w) ==
    /\ at[w] = "child"
    /\ Child(w) \in Verified
    /\ IF next[w] = Len(graph[rule[w]])
       THEN Go(w, "run") /\ next' = [next EXCEPT ![w] = 0]
       ELSE next' = [next EXCEPT ![w] = @ + 1] /\ UNCHANGED at
    /\ UNCHANGED <<inputVars, mainVars, queueVars, rule, seen, must, verdictVars,
                   fileVars>>

\* The child has succeeded: on to the next one, or to the commands.
ChildSucceeded(w) ==
    /\ at[w] = "child"
    /\ Child(w) \in Verified /\ Child(w) \notin failed_rules
    /\ IF next[w] = Len(graph[rule[w]])
       THEN Go(w, "run") /\ next' = [next EXCEPT ![w] = 0]
       ELSE next' = [next EXCEPT ![w] = @ + 1] /\ UNCHANGED at
    /\ UNCHANGED <<inputVars, mainVars, queueVars, rule, seen, must, verdictVars,
                   fileVars>>

\* The child has not been decided yet: decide to wait ...
ChildUnknown(w) ==
    /\ at[w] = "child"
    /\ Child(w) \notin Verified
    /\ Go(w, "nap")
    /\ UNCHANGED <<inputVars, mainVars, queueVars, rule, seen, must, next,
                   verdictVars, fileVars>>

\* ... and sleep on verify_cond.
ChildNap(w) ==
    /\ at[w] = "nap"
    /\ Go(w, "asleep")
    /\ UNCHANGED <<inputVars, mainVars, queueVars, rule, seen, must, next,
                   verdictVars, fileVars>>

\* set_add and pthread_cond_broadcast(&verify_cond), without a lock, and back
\* to the queue.
Decide(w) ==
    /\ at' = [u \in Workers |-> IF u = w THEN "look"
                                ELSE IF at[u] = "asleep" THEN "child" ELSE at[u]]
    /\ mainAt' = IF mainAt = "asleep" THEN "check" ELSE mainAt
    /\ rule' = [rule EXCEPT ![w] = NoRule]
    /\ must' = [must EXCEPT ![w] = FALSE]
    /\ next' = [next EXCEPT ![w] = 0]
    /\ UNCHANGED <<inputVars, current, todo, loaded, all_rules, queueVars, seen>>

\* A child has failed: so has this rule.
ChildFailed(w) ==
    /\ at[w] = "child" /\ Child(w) \in failed_rules
    /\ failed_rules' = failed_rules \cup {rule[w]}
    /\ Decide(w)
    /\ UNCHANGED <<successful_rules, fileVars>>

\* The commands run and succeed or fail, or do not need to run.
Commands(w) ==
    /\ at[w] = "run" /\ must[w]
    /\ \/ /\ successful_rules' = successful_rules \cup {rule[w]}
          /\ UNCHANGED failed_rules
       \/ /\ failed_rules' = failed_rules \cup {rule[w]}
          /\ UNCHANGED successful_rules
    /\ IF rule[w] \in Writes
       THEN mtime' = [mtime EXCEPT ![rule[w]] = clock] /\ clock' = clock + 1
       ELSE UNCHANGED fileVars
    /\ Decide(w)

Satisfied(w) ==
    /\ at[w] = "run" /\ ~must[w]
    /\ successful_rules' = successful_rules \cup {rule[w]}
    /\ Decide(w)
    /\ UNCHANGED <<failed_rules, fileVars>>

SpuriousWakeup(w) ==
    /\ \/ at[w] = "dozing" /\ Go(w, "look")
       \/ at[w] = "asleep" /\ Go(w, "child")
    /\ UNCHANGED <<inputVars, mainVars, queueVars, rule, seen, must, next,
                   verdictVars, fileVars>>

MainStep == \/ Skip \/ Plan \/ Load \/ Store \/ Push \/ Wake
            \/ CheckRoot \/ RootNap \/ Finish \/ Join

WorkerStep(w) == \/ Look(w) \/ Doze(w) \/ Take(w) \/ Pull(w) \/ Stat(w)
                 \/ ChildSucceeded(w) \/ ChildFailed(w) \/ ChildUnknown(w)
                 \/ ChildNap(w) \/ Commands(w) \/ Satisfied(w)

Next == \/ MainStep \/ RootSpuriousWakeup
        \/ \E w \in Workers : WorkerStep(w) \/ SpuriousWakeup(w)

\* The scheduler runs every thread that can run, and the mutex is granted to
\* a thread that keeps asking; nothing is promised of spurious wakeups.
Fairness == /\ SF_vars(MainStep)
            /\ \A w \in Workers : SF_vars(WorkerStep(w))

Spec == Init /\ [][Next]_vars
FairSpec == Spec /\ Fairness

-----------------------------------------------------------------------------
\* main writes queue_size without queue_mtx (parmake.c:188) and can lose the
\* workers' updates, but never takes the size to 0 between a worker's test and
\* its decrement (:232-239): the unsigned counter does not wrap.
NeverWraps ==
    \A w \in Workers : at[w] = "take" => queue_size > 0 /\ seen[w] > 0

\* A worker waits only for a child that is decided or that another worker is
\* at (parmake.c:268-277): no worker waits for a rule still in the queue.
WaitsForHeld ==
    \A w \in Workers : at[w] \in {"child", "nap", "asleep"}
                         => Child(w) \in Verified \cup Held

\* A worker sleeps on verify_cond although its child has been decided.
SleepsThrough(w) == at[w] = "asleep" /\ Child(w) \in Verified

RootSleepsThrough == mainAt = "asleep" /\ targets[current] \in Verified

\* A worker waits in queue_pull for a rule, and there is none.
PullsNothing(w) == at[w] = "pull" /\ waiting_rules = <<>>

\* A worker sleeps on queue_cond although a rule is queued.
DozesThrough(w) == at[w] = "dozing" /\ waiting_rules # <<>>

\* Every thread waits: only a spurious wakeup could move one.
Halted ==
    /\ \A w \in Workers : at[w] \in {"dozing", "asleep", "exited"} \/ PullsNothing(w)
    /\ \/ mainAt = "asleep"
       \/ mainAt = "join" /\ \E w \in Workers : at[w] # "exited"

\* parmake never hangs because the workers wait for each other's rules
\* (parmake.c:268-277), only by its unlocked updates.  When all threads wait
\* while workers hold rules, one of those sleeps though its child is decided:
\* it missed the broadcast of verify_cond (:293, :308, :314, :322).  When they
\* wait and hold none, main missed that broadcast, or a worker the one of
\* queue_cond (:215), or main's queue_size++ (:188) undid or lost a change, so
\* that one dozes beside a queued rule or pulls where there is none.
HangsOnlyByRaces ==
    Halted => IF Held # {}
              THEN \E w \in Workers : SleepsThrough(w)
              ELSE \/ RootSleepsThrough
                   \/ \E w \in Workers : DozesThrough(w) \/ PullsNothing(w)

Goals == {targets[i] : i \in {j \in DOMAIN targets : ~ContainsCycle(graph, targets[j])}}

Promise == INSTANCE MakePromise WITH
              deps <- [r \in Rules |-> Dependencies(graph, r)],
              goals <- Goals,
              made <- successful_rules,
              failed <- failed_rules,
              over <- job_done

\* The threads together make what parmake promises: dependencies first, no
\* rule after a failed dependency, and job_done only when every target that
\* is not cyclic has been decided (parmake.c:227-326, :386-398).
ImplementsMake == Promise!Spec

\* main notices that its target has been decided (parmake.c:217, "Check if the
\* root has been verified, and wait if it hasn't").
RootNoticed ==
    \A i \in 1..2 : (mainAt \in {"check", "nap", "asleep"} /\ current = i
                     /\ targets[i] \in Verified) ~> current > i

\* Once job_done is set, main rejoins the threads (parmake.c:400, "Rejoin the
\* threads once we're finished").
Rejoined == mainAt = "join" ~> mainAt = "returned"

\* A file that was made is not older than the files it depends on
\* (parmake.c:300, "If a child file was changed after the parent file, then we
\* need to update the parent file").
UpToDate ==
    job_done => \A r \in successful_rules : \A c \in Dependencies(graph, r) :
                  mtime[r] # 0 /\ mtime[c] # 0 => mtime[c] <= mtime[r]
=============================================================================
