----------------------------- MODULE MakeRules ------------------------------
(***************************************************************************)
(* What create_waitlist of parallel_make/parmake.c pushes for a target, in *)
(* one go: its recursion as operators, for the instances of Parmake.       *)
(* MakeTargets takes the same recursion step by step.                      *)
(***************************************************************************)
EXTENDS Naturals, Sequences, SequencesExt

\* The rule is queued once its children are known from earlier passes.
QueueWhenFull(s, node) ==
    IF s.full THEN [s EXCEPT !.all = @ \cup {node}, !.queue = Append(@, node)]
              ELSE s

\* find_children: one pass over the rules below node.  all is all_rules, fresh
\* the rules first met in this pass, queue the rules pushed; full is the
\* return value.
RECURSIVE find_children(_, _, _)
find_children(g, s, node) ==
    LET VisitChild(t, child) ==
          LET u == IF child \in t.all THEN t
                   ELSE [find_children(g, [t EXCEPT !.fresh = @ \cup {child}], child)
                         EXCEPT !.full = FALSE]
          IN  [u EXCEPT !.full = @ /\ child \notin u.fresh]
    IN  QueueWhenFull(FoldLeft(VisitChild, [s EXCEPT !.full = TRUE], g[node]), node)

\* The state find_children starts a pass with.
NewPass(all, queue) == [all |-> all, fresh |-> {}, queue |-> queue, full |-> FALSE]

\* create_waitlist: passes until the root itself has been queued.
RECURSIVE create_waitlist(_, _, _)
create_waitlist(g, s, root) ==
    LET t == find_children(g, s, root)
    IN  IF t.full THEN t ELSE create_waitlist(g, NewPass(t.all, t.queue), root)

\* What create_waitlist pushes for the root when the rules of all are known.
QueuedFor(g, all, root) == create_waitlist(g, NewPass(all, <<>>), root).queue
=============================================================================
