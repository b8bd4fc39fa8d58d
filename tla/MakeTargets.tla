---------------------------- MODULE MakeTargets -----------------------------
(***************************************************************************)
(* What parmake does on its main thread alone, target after target: the    *)
(* cycle check, DFS_verify, then either the passes of create_waitlist that *)
(* queue the rules for the workers, or, without threads, DFS_run, which    *)
(* makes them.  The three recursions run on an explicit stack with a frame *)
(* for each call that has not returned.  The graph, the targets, the       *)
(* files' times, the rules whose commands fail and those whose commands    *)
(* write the rule's file are arbitrary.                                    *)
(***************************************************************************)
EXTENDS Makefile

CONSTANTS QueueInputs,  \* the <<graph, targets>> considered with threads
          MakeInputs,   \* and without
          Times,        \* the files' times at the start
          StartOfMake   \* the time of the first command, each takes one unit

ASSUME TargetsAssumption ==
    /\ \A in \in QueueInputs \cup MakeInputs :
          in[1] \in [Rules -> Seq(Rules)] /\ in[2] \in Seq(Rules)
    /\ Times \subseteq Nat /\ StartOfMake \in Nat

VARIABLES threads,       \* num_threads > 0
          fails, writes, \* the rules whose commands fail, and write their file
          phase,         \* what main is at
          stack,         \* the calls that have not returned
          black, grey,   \* DFS_verify's vectors
          refused,       \* the targets reported as cyclic
          fresh_rules,   \* first met in this pass of create_waitlist
          pushed,        \* all that has been pushed to waiting_rules
          visited,       \* DFS_run's vector
          ran,           \* the rules whose commands were started
          result         \* what run_target_threadless last returned

inputs == <<threads, graph, targets, fails, writes>>
verifying == <<black, grey, refused>>
queueing == <<fresh_rules, all_rules, pushed>>
making == <<visited, ran, result, mtime, clock>>
targetsVars == <<inputs, current, phase, stack, verifying, queueing, making>>

Root == targets[current]

-----------------------------------------------------------------------------
\* A call: the node, the child its loop is at, children_full or result, and
\* whether the files ask for the commands.
Frame(node, must) == [node |-> node, i |-> 1, ok |-> TRUE, must |-> must]

Top == stack[Len(stack)]

AtChild == stack # <<>> /\ Top.i <= Len(graph[Top.node])
AtEnd   == stack # <<>> /\ Top.i > Len(graph[Top.node])

NextChild == graph[Top.node][Top.i]

\* The last frame's loop goes on to the next child.
Advanced(s, ok) ==
    LET f == s[Len(s)]
    IN  [s EXCEPT ![Len(s)] = [f EXCEPT !.i = f.i + 1, !.ok = f.ok /\ ok]]

Enter(node, must) == stack' = Append(stack, Frame(node, must))
GoOn(ok) == stack' = Advanced(stack, ok)

\* The call at the top returns, and its caller's loop goes on.
Return(ok) ==
    stack' = IF Len(stack) = 1 THEN <<>>
             ELSE Advanced(SubSeq(stack, 1, Len(stack) - 1), ok)

NextTarget == phase' = "target" /\ current' = current + 1

TargetsInit ==
    /\ \/ /\ threads = TRUE
          /\ \E in \in QueueInputs : graph = in[1] /\ targets = in[2]
          /\ fails = {} /\ writes = {} /\ mtime = [r \in Rules |-> 0]
       \/ /\ threads = FALSE
          /\ \E in \in MakeInputs : graph = in[1] /\ targets = in[2]
          /\ fails \in SUBSET Rules /\ writes \in SUBSET Rules
          /\ mtime \in [Rules -> Times]
    /\ current = 1 /\ phase = "target" /\ stack = <<>>
    /\ black = {} /\ grey = <<>> /\ refused = {}
    /\ fresh_rules = {} /\ all_rules = {} /\ pushed = <<>>
    /\ visited = {} /\ ran = <<>> /\ result = TRUE /\ clock = StartOfMake

-----------------------------------------------------------------------------
\* contains_cycle and DFS_verify.

Verify ==
    /\ phase = "target" /\ current <= Len(targets)
    /\ phase' = "verify"
    /\ stack' = <<Frame(Root, FALSE)>>
    /\ black' = {} /\ grey' = <<Root>>
    /\ UNCHANGED <<inputs, current, refused, queueing, making>>

\* The child reaches no cycle.
VerifyBlack ==
    /\ phase = "verify" /\ AtChild /\ NextChild \in black
    /\ GoOn(TRUE)
    /\ UNCHANGED <<inputs, current, phase, verifying, queueing, making>>

IsGrey(node) == \E k \in 1..Len(grey) : grey[k] = node

VerifyChild ==
    /\ phase = "verify" /\ AtChild /\ NextChild \notin black /\ ~IsGrey(NextChild)
    /\ Enter(NextChild, FALSE)
    /\ grey' = Append(grey, NextChild)
    /\ UNCHANGED <<inputs, current, phase, black, refused, queueing, making>>

\* The child is being explored: all calls return TRUE at once, and the target
\* is reported and skipped.
Refuse ==
    /\ phase = "verify" /\ AtChild /\ NextChild \notin black /\ IsGrey(NextChild)
    /\ stack' = <<>>
    /\ refused' = refused \cup {Root}
    /\ NextTarget
    /\ UNCHANGED <<inputs, black, grey, queueing, making>>

\* Mutant: the call returns with the two vectors as they are.
StayGrey ==
    /\ phase = "verify" /\ AtEnd
    /\ Return(TRUE)
    /\ phase' = IF Len(stack) > 1 THEN phase ELSE IF threads THEN "pass" ELSE "run"
    /\ UNCHANGED <<inputs, current, verifying, queueing, making>>

\* All children are explored.
VerifyReturn ==
    /\ phase = "verify" /\ AtEnd
    /\ black' = black \cup {Top.node}
    /\ grey' = SubSeq(grey, 1, Len(grey) - 1)
    /\ Return(TRUE)
    /\ phase' = IF Len(stack) > 1 THEN phase ELSE IF threads THEN "pass" ELSE "run"
    /\ UNCHANGED <<inputs, current, refused, queueing, making>>

-----------------------------------------------------------------------------
\* create_waitlist and find_children.

\* Mutant: fresh_rules is created once, not once per pass.
PassKeepingFresh ==
    /\ phase = "pass" /\ stack = <<>>
    /\ stack' = <<Frame(Root, FALSE)>>
    /\ UNCHANGED <<inputs, current, phase, verifying, queueing, making>>

\* The next round of the loop.
Pass ==
    /\ phase = "pass" /\ stack = <<>>
    /\ fresh_rules' = {}
    /\ stack' = <<Frame(Root, FALSE)>>
    /\ UNCHANGED <<inputs, current, phase, verifying, all_rules, pushed, making>>

\* The child has been queued, in this pass or before.
PassKnown ==
    /\ phase = "pass" /\ AtChild /\ NextChild \in all_rules
    /\ GoOn(NextChild \notin fresh_rules)
    /\ UNCHANGED <<inputs, current, phase, verifying, queueing, making>>

PassChild ==
    /\ phase = "pass" /\ AtChild /\ NextChild \notin all_rules
    /\ fresh_rules' = fresh_rules \cup {NextChild}
    /\ Enter(NextChild, FALSE)
    /\ UNCHANGED <<inputs, current, phase, verifying, all_rules, pushed, making>>

\* Mutant: one pass is taken to be enough, and the root queued after it.
SinglePass ==
    /\ phase = "pass" /\ AtEnd
    /\ IF Top.ok \/ Len(stack) = 1
       THEN /\ all_rules' = all_rules \cup {Top.node}
            /\ pushed' = Append(pushed, Top.node)
       ELSE UNCHANGED <<all_rules, pushed>>
    /\ Return(FALSE)
    /\ IF Len(stack) = 1 THEN NextTarget ELSE UNCHANGED <<phase, current>>
    /\ UNCHANGED <<inputs, verifying, fresh_rules, making>>

\* A rule is queued when all its children were queued before it was looked at.
\* A caller's children_full is FALSE, the rule being in fresh_rules; the loop
\* of create_waitlist ends when the root is queued.
PassReturn ==
    /\ phase = "pass" /\ AtEnd
    /\ IF Top.ok
       THEN /\ all_rules' = all_rules \cup {Top.node}
            /\ pushed' = Append(pushed, Top.node)
       ELSE UNCHANGED <<all_rules, pushed>>
    /\ Return(FALSE)
    /\ IF Top.ok /\ Len(stack) = 1 THEN NextTarget ELSE UNCHANGED <<phase, current>>
    /\ UNCHANGED <<inputs, verifying, fresh_rules, making>>

-----------------------------------------------------------------------------
\* run_target_threadless and DFS_run.

\* Must the commands of the rule run?  The loop over the children stops at the
\* first one that settles it.
MustMake(r) ==
    \/ mtime[r] = 0
    \/ \E c \in Dependencies(graph, r) : mtime[c] = 0 \/ mtime[r] < mtime[c]

Run ==
    /\ phase = "run" /\ stack = <<>>
    /\ visited' = {Root} /\ ran' = <<>>
    /\ stack' = <<Frame(Root, MustMake(Root))>>
    /\ UNCHANGED <<inputs, current, phase, verifying, queueing, result, mtime, clock>>

\* A rule met again counts as made.
RunVisited ==
    /\ phase = "run" /\ AtChild /\ NextChild \in visited
    /\ GoOn(TRUE)
    /\ UNCHANGED <<inputs, current, phase, verifying, queueing, making>>

\* Mutant: every path to a rule makes it again.
RunAgain ==
    /\ phase = "run" /\ AtChild
    /\ visited' = visited \cup {NextChild}
    /\ Enter(NextChild, MustMake(NextChild))
    /\ UNCHANGED <<inputs, current, phase, verifying, queueing, ran, result, mtime, clock>>

RunChild ==
    /\ phase = "run" /\ AtChild /\ NextChild \notin visited
    /\ visited' = visited \cup {NextChild}
    /\ Enter(NextChild, MustMake(NextChild))
    /\ UNCHANGED <<inputs, current, phase, verifying, queueing, ran, result, mtime, clock>>

\* The commands run when the files ask for it and no child reported a failure.
Runs == Top.must /\ Top.ok

\* Mutant: a failing command does not end the rule as failed.
ResultRegardless == Top.ok

Result == Top.ok /\ (Top.must => Top.node \notin fails)

RunCommands ==
    /\ ran' = Append(ran, Top.node)
    /\ mtime' = IF Top.node \in writes THEN [mtime EXCEPT ![Top.node] = clock] ELSE mtime
    /\ clock' = clock + 1

RunReturn ==
    /\ phase = "run" /\ AtEnd
    /\ IF Runs THEN RunCommands ELSE UNCHANGED <<ran, mtime, clock>>
    /\ Return(Result)
    /\ IF Len(stack) = 1 THEN NextTarget /\ result' = Result
                         ELSE UNCHANGED <<phase, current, result>>
    /\ UNCHANGED <<inputs, verifying, queueing, visited>>

TargetsNext == \/ Verify \/ VerifyBlack \/ VerifyChild \/ Refuse \/ VerifyReturn
               \/ Pass \/ PassKnown \/ PassChild \/ PassReturn
               \/ Run \/ RunVisited \/ RunChild \/ RunReturn

\* One thread, which does not stop.
TargetsSpec == /\ TargetsInit /\ [][TargetsNext]_targetsVars
               /\ WF_targetsVars(TargetsNext)

-----------------------------------------------------------------------------
\* DFS_verify (parmake.c:58-84) with its two colours finds a cycle exactly
\* when one can be reached from the target.
RefusesCycles ==
    \A i \in 1..(current - 1) : targets[i] \in refused <=> Cyclic(graph, targets[i])

\* The queue holds a rule only behind all the rules it depends on, whatever
\* targets came before (find_children, parmake.c:170-197), which is what lets
\* the workers wait for children without waiting for each other.
ChildrenFirst ==
    \A i \in 1..Len(pushed) : \A c \in Dependencies(graph, pushed[i]) :
       \E j \in 1..(i - 1) : pushed[j] = c

\* What is below each target that is done and was not refused has been queued,
\* and only the root of a later target twice.
NothingMissing ==
    /\ threads => \A i \in 1..(current - 1) :
         targets[i] \in refused \/ Below(graph, targets[i]) \subseteq all_rules
    /\ \A i, j \in 1..Len(pushed) :
         i < j /\ pushed[i] = pushed[j]
         => \E k \in 2..Len(targets) : targets[k] = pushed[i]

Ran == {ran[i] : i \in 1..Len(ran)}

\* run_target_threadless returns FALSE exactly when some command it ran for
\* the target failed, although DFS_run answers TRUE whenever it meets a rule
\* for the second time (parmake.c:104-105, :131-135).
ResultIsTrue ==
    [][phase = "run" /\ phase' = "target" => (~result' <=> Ran' \cap fails # {})]_targetsVars

\* DFS_run starts the commands of a rule at most once for a target, and of
\* all that run the dependencies run first (parmake.c:104-107, :129-142).
OnceAndInOrder ==
    /\ \A i, j \in 1..Len(ran) : ran[i] = ran[j] => i = j
    /\ \A i, j \in 1..Len(ran) : ran[j] \in Dependencies(graph, ran[i]) => j < i
=============================================================================
