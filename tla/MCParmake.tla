----------------------------- MODULE MCParmake ------------------------------
EXTENDS Parmake, TLC

Make == INSTANCE MakeRules

\* contains_cycle finds just this, as MakeTargets shows.  Evaluated once.
CyclicRules == [g \in Graphs |-> {r \in Rules : Cyclic(g, r)}]
CycleCheck(g, r) == r \in CyclicRules[g]
MakeWaitlist(g, all, r) == Make!QueuedFor(g, all, r)

\* A diamond; two rules over a common one, with a cyclic fourth.
MixedGraphs == {<<<<2, 3>>, <<4>>, <<4>>, <<>>>>, <<<<2, 3>>, <<3>>, <<>>, <<4>>>>}

\* One target; a cyclic target or a leaf first, and a leaf asked for again.
MixedTargets == {<<1>>, <<4, 1>>, <<1, 3>>}

\* A chain, made once.
Chain == {<<<<2>>, <<3>>, <<>>>>}
OneTarget == {<<1>>}

NoFiles == {[r \in Rules |-> 0]}
\* No files; or all files, rule 1 out of date, the others not.
SomeFiles == NoFiles \cup {[r \in Rules |-> IF r = 1 THEN 1 ELSE 2]}
\* Rule 2 is older than rule 3, rule 1 younger than both.
StaleChild == {<<3, 1, 2>>}

Permute == Permutations(Workers)
=============================================================================
