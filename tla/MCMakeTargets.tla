--------------------------- MODULE MCMakeTargets ----------------------------
EXTENDS MakeTargets, SequencesExt

Whole == INSTANCE MakeRules

\* A graph of numbered rules lists each rule's dependencies in the order of
\* their numbers; all graphs are considered, so all orders are up to renaming.
Ordered(S) == SelectSeq([i \in 1..3 |-> i], LAMBDA i : i \in S)

AllGraphs == {[a \in 1..3 |-> Ordered(d[a])] : d \in [1..3 -> SUBSET (1..3)]}

AllTargets == {<<a>> : a \in Rules} \cup {<<a, b>> : a, b \in Rules}

AnyQueueing == AllGraphs \X AllTargets

\* Rule 1 above 2 and 3 in every order, rule 2 with and without rule 3, and
\* the same with a way back from 3 to 1; two targets, of which the second may
\* need the first.
SmallGraphs ==
    {<<a, b, c>> : a \in {<<>>, <<2>>, <<3>>, <<2, 3>>, <<3, 2>>},
                   b \in {<<>>, <<3>>}, c \in {<<>>, <<1>>}}

SmallMakes == SmallGraphs \X {<<2, 1>>}
NoQueueing == {}

-----------------------------------------------------------------------------
\* What create_waitlist pushes for the targets in turn, each in one go.
Expected ==
    LET Queue(q, t) == IF t \in refused THEN q
                       ELSE q \o Whole!QueuedFor(graph, ToSet(q), t)
    IN  FoldLeft(Queue, <<>>, targets)

\* create_waitlist's do-while loop (parmake.c:202-207) ends for every target
\* and every graph, with all the rules queued that the workers will need, and
\* with the queue that Parmake starts from.
EveryTargetQueued ==
    threads ~> /\ current > Len(targets)
               /\ NothingMissing
               /\ pushed = Expected
=============================================================================
