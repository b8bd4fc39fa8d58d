------------------------------ MODULE Makefile ------------------------------
(***************************************************************************)
(* What parmake (parallel_make/parmake.c) works on, with threads and       *)
(* without: the dependency graph, which maps each rule to the sequence of  *)
(* rules it depends on, in the order graph_neighbors returns them; the     *)
(* targets; the rules that have been queued; the files.                    *)
(***************************************************************************)
EXTENDS Integers, Sequences

CONSTANT Rules

VARIABLES graph, targets,
          current,       \* the target at hand
          all_rules,     \* the rules queued so far
          mtime, clock   \* the files' times, 0 for no file; the next command's

Dependencies(g, r) == {g[r][i] : i \in DOMAIN g[r]}

-----------------------------------------------------------------------------
\* S holds what any rule in it depends on.
Complete(g, S) == \A a \in S : Dependencies(g, a) \subseteq S

\* r and all that it depends on, directly or not: the least complete set.
Below(g, r) ==
    {b \in Rules : \A S \in SUBSET Rules : r \in S /\ Complete(g, S) => b \in S}

OnCycle(g, a) == \E b \in Dependencies(g, a) : a \in Below(g, b)

\* r depends on a rule that depends on itself.
Cyclic(g, r) == \E b \in Below(g, r) : OnCycle(g, b)
=============================================================================
