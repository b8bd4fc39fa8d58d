-------------------------- MODULE AllocatorPromise --------------------------
(***************************************************************************)
(* What malloc, free and realloc of malloc/alloc.c promise a program: each *)
(* pointer it holds is a block of its own, and no call changes what the    *)
(* other blocks hold.                                                      *)
(***************************************************************************)
EXTENDS Integers

CONSTANTS Names,  \* the blocks a program may hold at the same time
          Sizes,  \* the sizes it asks for
          Addresses

VARIABLES live,   \* each name's block, {} or {[ptr, size]}
          data    \* what each of them holds

Held(x) == UNION {b.ptr .. (b.ptr + b.size - 1) : b \in live[x]}

\* A block for x that has nothing in common with the others.
Place(x, n) ==
    \E p \in Addresses :
       /\ live' = [live EXCEPT ![x] = {[ptr |-> p, size |-> n]}]
       /\ \A y \in Names \ {x} : p .. (p + n - 1) \cap Held(y) = {}
       /\ \A y \in Names \ {x} : \A b \in live[y] : b.ptr # p

Untouched(ys) == \A y \in ys : data'[y] = data[y]

Init == /\ live = [x \in Names |-> {}]
        /\ data = [x \in Names |-> <<>>]

Allocate(x, n) == live[x] = {} /\ Place(x, n) /\ Untouched(Names \ {x})

Release(x) ==
    /\ live[x] # {}
    /\ live' = [live EXCEPT ![x] = {}]
    /\ data' = [data EXCEPT ![x] = <<>>]

Resize(x, n) ==
    /\ live[x] # {}
    /\ Place(x, n)
    /\ Untouched(Names \ {x})

Next == \E x \in Names :
           Release(x) \/ \E n \in Sizes : Allocate(x, n) \/ Resize(x, n)

promiseVars == <<live, data>>
Spec == Init /\ [][Next]_promiseVars
=============================================================================
