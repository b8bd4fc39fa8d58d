------------------------------- MODULE MCHeap -------------------------------
EXTENDS Heap, TLC

\* The names of the blocks are interchangeable.
Renamings == Permutations(Names)
=============================================================================
