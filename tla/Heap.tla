-------------------------------- MODULE Heap --------------------------------
(***************************************************************************)
(* The heap of malloc/alloc.c: blocks one after the other from head to     *)
(* end, each a header, the user's memory and a tag with the size once      *)
(* more; the free blocks are also a doubly linked list in address order.   *)
(*                                                                         *)
(* Memory is counted in units of SIZE_FACTOR bytes.  A header takes two    *)
(* units (is_free and prev_free; next_free and user_size), a tag takes     *)
(* one.  The functions of the code are operators on the heap as a whole.   *)
(* The program that uses the heap fills what it is given and never writes  *)
(* anywhere else.                                                          *)
(***************************************************************************)
EXTENDS Integers, FiniteSets, FiniteSetsExt

CONSTANTS Names,           \* the blocks the program may hold at the same time
          Sizes,           \* the sizes it asks for
          HEAP_INIT_SIZE,
          Limit            \* what sbrk can give altogether

ASSUME HeapAssumption ==
    /\ Sizes \subseteq Nat
    /\ HEAP_INIT_SIZE \in Nat \ {0} /\ Limit \in Nat /\ HEAP_INIT_SIZE <= Limit

BLOCK_SIZE == 2
META_DATA_SIZE == 3
GROWTH_RATIO == 2
NULL == -1
Addresses == 0..(Limit - 1)
Spots == 0..(Limit - BLOCK_SIZE)  \* where a header can be

VARIABLES heap,  \* memory and the static variables; head is address 0
          live   \* the program's blocks: {} or {[ptr, size]} for each name

vars == <<heap, live>>

\* One unit of memory: of what kind it is and what it says.  Memory that has
\* not been written is zero.
Raw == [is |-> "raw", free |-> FALSE, prev |-> NULL, next |-> NULL, size |-> 0,
        of |-> {}, at |-> 0]
Datum(x, i) == [Raw EXCEPT !.is = "data", !.of = {x}, !.at = i]
Tag(n) == [Raw EXCEPT !.is = "tag", !.size = n]

\* heap_size is 0 until init_head has run.
Init ==
    /\ heap = [mem |-> [a \in Addresses |-> Raw], end |-> 0, heap_size |-> 0,
               free_head |-> NULL, free_total |-> 0]
    /\ live = [x \in Names |-> {}]

-----------------------------------------------------------------------------
\* Headers and tags.

IsFree(h, b) == h.mem[b].free
PrevFree(h, b) == h.mem[b].prev
NextFree(h, b) == h.mem[b + 1].next
UserSize(h, b) == h.mem[b + 1].size

get_next_block(h, b) == b + UserSize(h, b) + META_DATA_SIZE
get_prev_block(h, b) ==
    IF b = 0 THEN NULL ELSE b - h.mem[b - 1].size - META_DATA_SIZE

\* A block's size in its header and in its tag.
SetSize(h, b, n) ==
    [h EXCEPT !.mem[b + 1].size = n,
              !.mem[b + BLOCK_SIZE + n] = Tag(n)]

WriteHeader(h, b, free, n) ==
    SetSize([h EXCEPT !.mem[b] = [Raw EXCEPT !.is = "head", !.free = free],
                      !.mem[b + 1] = [Raw EXCEPT !.is = "links"]], b, n)

\* The free list as free_head and the next_free pointers give it.
FreeChain(h) ==
    LET from[b \in Spots \cup {NULL}] ==
          IF b = NULL THEN {} ELSE {b} \cup from[NextFree(h, b)]
    IN  from[h.free_head]

\* a and b become neighbours in the list; a NULL end writes nothing.
Link(h, a, b) ==
    IF NULL \in {a, b} THEN h
    ELSE [h EXCEPT !.mem[a + 1].next = b, !.mem[b].prev = a]

insert_free_block(h, b) ==
    LET below == {c \in FreeChain(h) : c < b}
        prev == IF below = {} THEN NULL ELSE Max(below)
        next == IF below = {} THEN h.free_head ELSE NextFree(h, prev)
    IN  Link(Link([h EXCEPT !.free_total = @ + 1,
                            !.free_head = IF below = {} THEN b ELSE @],
                  prev, b), b, next)

remove_free_block(h, b) ==
    LET prev == PrevFree(h, b)
        next == NextFree(h, b)
        g == [h EXCEPT !.free_total = @ - 1,
                       !.free_head = IF @ = b THEN next ELSE @]
        past == IF prev = NULL THEN g ELSE [g EXCEPT !.mem[prev + 1].next = next]
        back == IF next = NULL THEN past ELSE [past EXCEPT !.mem[next].prev = prev]
    IN  [back EXCEPT !.mem[b].prev = NULL, !.mem[b + 1].next = NULL]

\* Mutant: the tag keeps the second block's size.
MergeWithoutTag(h, a, b) ==
    LET next == NextFree(h, b)
        g == [h EXCEPT !.mem[a + 1].next = next]
        skipping == IF next = NULL THEN g ELSE [g EXCEPT !.mem[next].prev = a]
    IN  [remove_free_block(skipping, b) EXCEPT
            !.mem[a + 1].size = @ + UserSize(h, b) + META_DATA_SIZE]

\* Two free blocks in the list become one.
merge_free_free(h, a, b) ==
    LET next == NextFree(h, b)
        g == [h EXCEPT !.mem[a + 1].next = next]
        skipping == IF next = NULL THEN g ELSE [g EXCEPT !.mem[next].prev = a]
    IN  SetSize(remove_free_block(skipping, b), a,
                UserSize(h, a) + UserSize(h, b) + META_DATA_SIZE)

\* An allocated block takes in the free one after it.
merge_unfree_free(h, a, b) ==
    SetSize(remove_free_block(h, b), a,
            UserSize(h, a) + UserSize(h, b) + META_DATA_SIZE)

-----------------------------------------------------------------------------
\* malloc, free and realloc.

\* Mutant: the rest of a split block is not put into the list.
SplitAndForget(h, b, n) ==
    LET rest == UserSize(h, b) - n
        second == b + n + META_DATA_SIZE
        taken == [remove_free_block(h, b) EXCEPT !.mem[b].free = FALSE]
    IN  IF rest > META_DATA_SIZE + 1
        THEN WriteHeader(SetSize(taken, b, n), second, TRUE, rest - META_DATA_SIZE)
        ELSE taken

\* A free block is handed out; what is left of it is a free block again if it
\* has room for more than one unit.
init_old_block(h, b, n) ==
    LET rest == UserSize(h, b) - n
        second == b + n + META_DATA_SIZE
        taken == [remove_free_block(h, b) EXCEPT !.mem[b].free = FALSE]
    IN  IF rest > META_DATA_SIZE + 1
        THEN insert_free_block(
               WriteHeader(SetSize(taken, b, n), second, TRUE, rest - META_DATA_SIZE),
               second)
        ELSE taken

\* The heap with room for n more units at its end: doubled as often as it
\* takes, or as sbrk allows.
Expanded(h, n) ==
    LET grown[s \in 1..Limit] ==
          IF h.end + n < s \/ s * GROWTH_RATIO > Limit THEN s
          ELSE grown[s * GROWTH_RATIO]
    IN  [h EXCEPT !.heap_size = grown[@]]

\* The heap after malloc and the pointer it returns.
Malloc(h0, n) ==
    LET h == IF h0.heap_size = 0 THEN [h0 EXCEPT !.heap_size = HEAP_INIT_SIZE] ELSE h0
        total == n + META_DATA_SIZE
        fits == {c \in FreeChain(h) : UserSize(h, c) >= n}
        grown == Expanded(h, total)
    IN  CASE fits # {} ->
               [heap |-> init_old_block(h, Min(fits), n), ptr |-> Min(fits) + BLOCK_SIZE]
          [] fits = {} /\ h.end + total >= grown.heap_size ->
               [heap |-> grown, ptr |-> NULL]
          [] OTHER ->
               [heap |-> [WriteHeader(grown, h.end, FALSE, n) EXCEPT !.end = h.end + total],
                ptr |-> h.end + BLOCK_SIZE]

\* Mutant: the next block is taken for free.
FreedWithNext(h, p) ==
    LET b == p - BLOCK_SIZE
        inserted == insert_free_block([h EXCEPT !.mem[b].free = TRUE], b)
        next == get_next_block(h, b)
        ahead == IF next # h.end THEN merge_free_free(inserted, b, next) ELSE inserted
        prev == get_prev_block(h, b)
    IN  IF prev # NULL /\ IsFree(h, prev)
        THEN merge_free_free(ahead, prev, b) ELSE ahead

\* The heap after free.
Freed(h, p) ==
    LET b == p - BLOCK_SIZE
        inserted == insert_free_block([h EXCEPT !.mem[b].free = TRUE], b)
        next == get_next_block(h, b)
        ahead == IF next # h.end /\ IsFree(h, next)
                 THEN merge_free_free(inserted, b, next) ELSE inserted
        prev == get_prev_block(h, b)
    IN  IF prev # NULL /\ IsFree(h, prev)
        THEN merge_free_free(ahead, prev, b) ELSE ahead

\* Mutant: one unit too few is copied.
memmoveShort(h, to, from, n) ==
    [h EXCEPT !.mem = [a \in Addresses |->
        IF a \in to .. (to + n - 2) THEN h.mem[a - to + from] ELSE h.mem[a]]]

memmove(h, to, from, n) ==
    [h EXCEPT !.mem = [a \in Addresses |->
        IF a \in to .. (to + n - 1) THEN h.mem[a - to + from] ELSE h.mem[a]]]

\* What realloc reads as the old block's user_size once the memory is handed
\* out again (size before that): a header written one unit further on has its
\* prev_free there, as a number zero or larger than any size.
StaleSize(h, b, size) ==
    IF h.mem[b + 1].is # "head" THEN size
    ELSE IF PrevFree(h, b + 1) = NULL THEN 0 ELSE Limit

\* The heap after realloc to n units and the pointer; exact if n units are
\* what the program asked for to the byte.
Realloc(h, p, n, exact) ==
    LET b == p - BLOCK_SIZE
        next == get_next_block(h, b)
        wide == IF next # h.end /\ IsFree(h, next) THEN merge_unfree_free(h, b, next) ELSE h
        size == UserSize(wide, b)
        again == Malloc(Freed(wide, p), n)
        moved == Malloc(wide, n)
    IN  CASE size = n /\ exact -> [heap |-> wide, ptr |-> p]
          [] size > n \/ (size = n /\ ~exact) ->
               [heap |-> memmove(again.heap, again.ptr, p,
                                 Min({StaleSize(again.heap, b, size), n})),
                ptr |-> again.ptr]
          [] size < n /\ moved.ptr = NULL -> [heap |-> moved.heap, ptr |-> NULL]
          [] OTHER ->
               [heap |-> Freed(memmove(moved.heap, moved.ptr, p, size), p),
                ptr |-> moved.ptr]

\* The blocks from head to end, as their headers' sizes give them.
Blocks(h) ==
    LET from[b \in Nat] ==
          IF b >= h.end THEN {} ELSE {b} \cup from[get_next_block(h, b)]
    IN  from[0]

\* The heap between two calls: what no header, tag or block of the program
\* takes up is forgotten, and so is what a spoilt part of a block holds.
Settled(h, blocks) ==
    LET meta == UNION {{b, b + 1, get_next_block(h, b) - 1} : b \in Blocks(h)}
        user == UNION {b.ptr .. (b.ptr + b.size - 1) : b \in blocks}
    IN  [h EXCEPT !.mem = [a \in Addresses |->
          IF a \in meta \/ (a \in user /\ @[a].is = "data") THEN @[a] ELSE Raw]]

OwnedBy(owner) == UNION {owner[x] : x \in Names}

-----------------------------------------------------------------------------
\* The program: it fills a block from offset i on when it gets it.

Fill(r, x, i, n) ==
    /\ live' = [live EXCEPT ![x] = {[ptr |-> r.ptr, size |-> n]}]
    /\ heap' = Settled([r.heap EXCEPT !.mem = [a \in Addresses |->
                           IF a \in (r.ptr + i) .. (r.ptr + n - 1)
                           THEN Datum(x, a - r.ptr) ELSE @[a]]],
                       OwnedBy(live'))

\* NULL comes back: the program keeps what it has.
Refused(r) == heap' = Settled(r.heap, OwnedBy(live)) /\ UNCHANGED live

\* malloc, calloc, or realloc of NULL.
Allocate(x, n) ==
    /\ live[x] = {}
    /\ LET r == Malloc(heap, n)
       IN  IF r.ptr = NULL THEN Refused(r) ELSE Fill(r, x, 0, n)

\* free, or realloc to size 0.
Release(x) ==
    \E b \in live[x] :
       /\ live' = [live EXCEPT ![x] = {}]
       /\ heap' = Settled(Freed(heap, b.ptr), OwnedBy(live'))

Resize(x, n, exact) ==
    \E b \in live[x] :
       LET r == Realloc(heap, b.ptr, n, exact)
       IN  IF r.ptr = NULL THEN Refused(r) ELSE Fill(r, x, Min({b.size, n}), n)

Next == \E x \in Names :
           \/ Release(x)
           \/ \E n \in Sizes : Allocate(x, n)
           \/ \E n \in Sizes \ {0}, exact \in BOOLEAN : Resize(x, n, exact)

Spec == Init /\ [][Next]_vars
-----------------------------------------------------------------------------
InUse == {b \in Blocks(heap) : ~IsFree(heap, b)}

\* The blocks fill the heap from head to end, each with a header and with a tag
\* that says the same; those in use are the program's, with room for what it
\* asked for; and the heap stays below what sbrk has given (alloc.c:348).
HeapTiled ==
    /\ heap.end < heap.heap_size \/ heap.heap_size = 0
    /\ heap.heap_size <= Limit
    /\ \A b \in Blocks(heap) :
          /\ heap.mem[b].is = "head" /\ heap.mem[b + 1].is = "links"
          /\ get_next_block(heap, b) <= heap.end
          /\ heap.mem[get_next_block(heap, b) - 1] = Tag(UserSize(heap, b))
    /\ {b + BLOCK_SIZE : b \in InUse} = {b.ptr : b \in OwnedBy(live)}
    /\ \A x \in Names : \A b \in live[x] : UserSize(heap, b.ptr - BLOCK_SIZE) >= b.size

\* The list holds exactly the free blocks, in address order and linked both
\* ways, free_total counts them (find_next_fit exits otherwise, :381), and no
\* two of them are neighbours in the heap: free merges, realloc merges, and a
\* split leaves nothing to merge.
FreeListExact ==
    LET free == Blocks(heap) \ InUse
        After(b) == {c \in free : c > b}
        Before(b) == {c \in free : c < b}
    IN  /\ FreeChain(heap) = free
        /\ heap.free_total = Cardinality(free)
        /\ heap.free_head = IF free = {} THEN NULL ELSE Min(free)
        /\ \A b \in free :
              /\ NextFree(heap, b) = IF After(b) = {} THEN NULL ELSE Min(After(b))
              /\ PrevFree(heap, b) = IF Before(b) = {} THEN NULL ELSE Max(Before(b))
              /\ get_next_block(heap, b) \notin free
        /\ \A b \in InUse : NextFree(heap, b) = NULL /\ PrevFree(heap, b) = NULL

Holds(x) == UNION {{[i \in 1..b.size |-> heap.mem[b.ptr + i - 1]]} : b \in live[x]}

\* Every pointer the program holds is a block of its own, and no call changes
\* what another block holds: headers, tags and list links are never written
\* into anybody's memory (alloc.c:266-274, :222-236).
Promise == INSTANCE AllocatorPromise WITH
             data <- [x \in Names |-> IF live[x] = {} THEN <<>>
                                      ELSE CHOOSE s \in Holds(x) : TRUE]
ImplementsAllocator == Promise!Spec

\* x's block holds what the program wrote.
Intact(x) == \A b \in live[x] : \A i \in 0..(b.size - 1) :
                heap.mem[b.ptr + i] = Datum(x, i)

\* A block's own realloc spoils it only when it slides down into a free block
\* before it that is smaller than the new size: then the tag and the header
\* written behind the new block hit the old contents before memmove reads them
\* (alloc.c:651-658).
SpoiledOnlySlidingDown ==
    [][\A x \in Names :
          Intact(x) => \/ Intact(x)'
                       \/ \E b \in live[x], c \in live'[x] :
                             LET prev == get_prev_block(heap, b.ptr - BLOCK_SIZE)
                             IN  /\ prev # NULL /\ IsFree(heap, prev)
                                 /\ UserSize(heap, prev) < c.size]_vars

\* "The content of the memory block is preserved up to the lesser of the new
\* and old sizes, even if the block is moved" (alloc.c:575-576).
ContentsPreserved == \A x \in Names : Intact(x)
=============================================================================
