----------------------------- MODULE HeapProofs -----------------------------
(***************************************************************************)
(* Proofs about Heap, for any number of blocks of any sizes.               *)
(***************************************************************************)
EXTENDS Heap, FiniteSetTheorems, WellFoundedInduction, TLAPS

USE HeapAssumption

\* Every nonempty set of naturals has a least element.
LEMMA LeastNumber ==
  ASSUME NEW T \in SUBSET Nat, T # {}
  PROVE  \E x \in T : \A y \in T : x <= y
<1>1. PICK x \in T : \A y \in T : ~ (<<y, x>> \in OpToRel(<, Nat))
  BY NatLessThanWellFounded, WFMin
<1>2. \A y \in T : x \in Nat /\ y \in Nat
  OBVIOUS
<1>3. \A y \in T : ~ (y < x)
  BY <1>1, <1>2, Zenon DEF OpToRel
<1> QED BY <1>2, <1>3

\* And a greatest one if it is bounded.
LEMMA GreatestNumber ==
  ASSUME NEW T \in SUBSET Nat, T # {}, NEW m \in Nat, \A x \in T : x <= m
  PROVE  \E x \in T : \A y \in T : y <= x
<1> DEFINE U == {m - x : x \in T}
<1>1. U \in SUBSET Nat /\ U # {}
  <2>1. \A x \in T : m - x \in Nat
    OBVIOUS
  <2>2. \E x : x \in T
    OBVIOUS
  <2> QED BY <2>1, <2>2
<1>2. PICK u \in U : \A v \in U : u <= v
  <2> HIDE DEF U
  <2> QED BY <1>1, LeastNumber
<1>3. PICK x \in T : u = m - x
  OBVIOUS
<1>4. \A y \in T : m - y \in U
  OBVIOUS
<1>5. \A y \in T : u <= m - y
  BY <1>2, <1>4
<1> HIDE DEF U
<1>6. \A y \in T : y <= x
  BY <1>3, <1>5
<1> QED BY <1>6

-----------------------------------------------------------------------------
\* What memory holds, and the heap.
Cell == [is : {"raw", "data", "tag", "head", "links"}, free : BOOLEAN,
         prev : Spots \cup {NULL}, next : Spots \cup {NULL}, size : Nat,
         of : SUBSET Names, at : Int]
HeapType == [mem : [Addresses -> Cell], end : Nat, heap_size : Nat,
             free_head : Spots \cup {NULL}, free_total : Int]

\* n is the first of F above b, NULL when there is none; p the last below.
IsNext(F, b, n) ==
    \/ n = NULL /\ \A c \in F : c <= b
    \/ n \in F /\ n > b /\ \A c \in F : c <= b \/ c >= n
IsPrev(F, b, p) ==
    \/ p = NULL /\ \A c \in F : c >= b
    \/ p \in F /\ p < b /\ \A c \in F : c >= b \/ c <= p

\* The list links exactly the blocks of F, in the order of their addresses.
Chained(h, F) ==
    /\ F \subseteq Spots
    /\ IsNext(F, NULL, h.free_head)
    /\ \A b \in F : IsNext(F, b, NextFree(h, b)) /\ IsPrev(F, b, PrevFree(h, b))

\* A header has both its units in the memory.
LEMMA SpotsFit == \A b \in Spots : /\ b \in Nat /\ b \in Addresses /\ b + 1 \in Addresses
                                   /\ b # NULL /\ b < Limit
BY DEF Spots, Addresses, BLOCK_SIZE, NULL

\* The links of a heap are links.
LEMMA LinkTypes ==
  ASSUME NEW h \in HeapType, NEW b \in Spots
  PROVE  /\ NextFree(h, b) \in Spots \cup {NULL} /\ PrevFree(h, b) \in Spots \cup {NULL}
         /\ IsFree(h, b) \in BOOLEAN /\ UserSize(h, b) \in Nat
<1>1. h.mem[b] \in Cell /\ h.mem[b + 1] \in Cell
  BY SpotsFit DEF HeapType
<1>2. h.mem[b].free \in BOOLEAN
  BY <1>1 DEF Cell
<1> QED BY <1>1, <1>2 DEF Cell, NextFree, PrevFree, IsFree, UserSize

\* f collects what the steps lead to, as FreeChain and Blocks define it.
Follows(f, D, E, step) == f = [b \in D |-> IF b \in E THEN {b} \cup f[step[b]] ELSE {}]

\* There is such a function, wherever the steps lead, since any set can be
\* closed under them.
LEMMA Followed ==
  ASSUME NEW D, NEW E \in SUBSET D, NEW step \in [E -> D]
  PROVE  \E f : Follows(f, D, E, step)
<1> DEFINE Closed(S) == \A x \in S \cap E : step[x] \in S
           f == [b \in D |-> {c \in E : \A S \in SUBSET D : b \in S /\ Closed(S) => c \in S}]
<1>1. ASSUME NEW b \in D, b \notin E PROVE f[b] = {}
  <2>1. {b} \in SUBSET D /\ b \in {b} /\ Closed({b})
    BY <1>1
  <2>2. \A c \in f[b] : c \in E /\ c \in {b}
    BY <2>1
  <2> QED BY <1>1, <2>2
<1>2. ASSUME NEW b \in E PROVE f[b] = {b} \cup f[step[b]]
  <2>1. b \in D /\ step[b] \in D
    OBVIOUS
  <2>2. ASSUME NEW c \in f[step[b]] PROVE c \in f[b]
    <3>1. \A S \in SUBSET D : b \in S /\ Closed(S) => step[b] \in S
      OBVIOUS
    <3> QED BY <2>1, <2>2, <3>1
  <2>3. b \in f[b]
    BY <2>1
  <2>4. ASSUME NEW c \in f[b], c # b PROVE c \in f[step[b]]
    <3>1. ASSUME NEW S \in SUBSET D, step[b] \in S, Closed(S) PROVE c \in S
      <4>1. S \cup {b} \in SUBSET D /\ b \in S \cup {b} /\ Closed(S \cup {b})
        BY <2>1, <3>1
      <4>2. c \in S \cup {b}
        BY <2>1, <4>1
      <4> QED BY <2>4, <4>2
    <3>2. c \in E
      BY <2>1
    <3> QED BY <2>1, <3>1, <3>2
  <2> HIDE DEF f, Closed
  <2> QED BY <2>2, <2>3, <2>4
<1>3. f = [b \in D |-> IF b \in E THEN {b} \cup f[step[b]] ELSE {}]
  <2>1. \A b \in D : f[b] = IF b \in E THEN {b} \cup f[step[b]] ELSE {}
    BY <1>1, <1>2
  <2>2. f = [b \in D |-> f[b]]
    OBVIOUS
  <2> HIDE DEF f
  <2> QED BY <2>1, <2>2
<1> QED BY <1>3 DEF Follows

\* The blocks that free_head and the links lead to are those they are to link.
LEMMA ChainOf ==
  ASSUME NEW h \in HeapType, NEW F, Chained(h, F)
  PROVE  FreeChain(h) = F
<1> DEFINE D == Spots \cup {NULL}
           eq(g) == g = [b \in D |-> IF b = NULL THEN {} ELSE {b} \cup g[NextFree(h, b)]]
           from == CHOOSE g : eq(g)
<1>1. FreeChain(h) = from[h.free_head]
  BY DEF FreeChain
<1>2. eq(from)
  <2> DEFINE step == [b \in Spots |-> NextFree(h, b)]
  <2>1. step \in [Spots -> D] /\ Spots \in SUBSET D
    BY LinkTypes
  <2>2. \E f : Follows(f, D, Spots, step)
    <3> HIDE DEF step, D
    <3> QED BY <2>1, Followed
  <2>3. PICK f : Follows(f, D, Spots, step)
    BY <2>2
  <2>4. \A b \in D : b \in Spots <=> b # NULL
    BY SpotsFit
  <2>5. [b \in D |-> IF b \in Spots THEN {b} \cup f[step[b]] ELSE {}]
        = [b \in D |-> IF b = NULL THEN {} ELSE {b} \cup f[NextFree(h, b)]]
    BY <2>4
  <2>6. eq(f)
    BY <2>3, <2>5 DEF Follows
  <2> HIDE DEF eq
  <2> QED BY <2>6
<1>3. from[NULL] = {} /\ \A b \in Spots : from[b] = {b} \cup from[NextFree(h, b)]
  BY <1>2, SpotsFit
<1> HIDE DEF from, D, eq
<1> DEFINE T == {b \in F : from[b] # {c \in F : c >= b}}
<1>4. F \subseteq Spots /\ \A b \in F : b \in Nat /\ b <= Limit
  BY SpotsFit DEF Chained
<1>5. T = {}
  <2> SUFFICES ASSUME T # {} PROVE FALSE
    OBVIOUS
  <2>1. T \in SUBSET Nat /\ \A b \in T : b <= Limit
    BY <1>4
  <2> HIDE DEF T
  <2>2. PICK x \in T : \A y \in T : y <= x
    BY <2>1, GreatestNumber
  <2> USE DEF T
  <2>3. x \in F /\ from[x] = {x} \cup from[NextFree(h, x)] /\ IsNext(F, x, NextFree(h, x))
    BY <1>3, <1>4 DEF Chained
  <2>4. CASE NextFree(h, x) = NULL
    <3>1. \A c \in F : c <= x
      BY <2>3, <2>4, <1>4 DEF IsNext, NULL
    <3>2. {c \in F : c >= x} = {x}
      BY <1>4, <2>3, <3>1
    <3> QED BY <1>3, <2>2, <2>3, <2>4, <3>2
  <2>5. CASE NextFree(h, x) # NULL
    <3> DEFINE n == NextFree(h, x)
    <3>1. n \in F /\ n > x /\ \A c \in F : c <= x \/ c >= n
      BY <2>3, <2>5 DEF IsNext
    <3>2. n \notin T
      BY <1>4, <2>1, <2>2, <3>1
    <3>3. from[n] = {c \in F : c >= n}
      BY <3>1, <3>2
    <3>4. {c \in F : c >= x} = {x} \cup {c \in F : c >= n}
      <4> HIDE DEF n, T
      <4> QED BY <1>4, <2>3, <3>1
    <3> QED BY <2>2, <2>3, <3>3, <3>4
  <2> QED BY <2>4, <2>5
<1>6. CASE h.free_head = NULL
  <2>1. F = {}
    <3>1. \A c \in F : c <= NULL
      BY <1>4, <1>6 DEF Chained, IsNext, NULL
    <3> QED BY <1>4, <3>1 DEF NULL
  <2> QED BY <1>1, <1>3, <1>6, <2>1
<1>7. CASE h.free_head # NULL
  <2> DEFINE n == h.free_head
  <2>1. n \in F /\ \A c \in F : c <= NULL \/ c >= n
    BY <1>7 DEF Chained, IsNext
  <2>2. {c \in F : c >= n} = F
    BY <1>4, <2>1 DEF NULL
  <2>3. from[n] = {c \in F : c >= n}
    BY <1>5, <2>1
  <2> QED BY <1>1, <2>2, <2>3
<1> QED BY <1>6, <1>7

-----------------------------------------------------------------------------
\* The heap stays below what sbrk has given.
Bounded(h) ==
    /\ h.heap_size <= Limit
    /\ h.end < h.heap_size \/ (h.end = 0 /\ h.heap_size = 0)

\* The blocks of B fill the heap from head to end.
Tiles(h, B) ==
    /\ B \subseteq Nat /\ (h.end > 0 => 0 \in B)
    /\ \A b \in B : b < h.end /\ get_next_block(h, b) \in B \cup {h.end}
    /\ \A b, c \in B : b < c => get_next_block(h, b) <= c

\* Blocks are where headers can be, and end in the heap.
LEMMA BlocksFit ==
  ASSUME NEW h \in HeapType, Bounded(h), NEW B, Tiles(h, B), NEW b \in B
  PROVE  /\ b \in Nat /\ b \in Spots /\ b < h.end /\ h.end \in Nat /\ h.end < Limit
         /\ UserSize(h, b) \in Nat
         /\ get_next_block(h, b) = b + UserSize(h, b) + 3
         /\ get_next_block(h, b) <= h.end
<1>1. b \in Nat /\ b < h.end /\ h.end \in Nat /\ h.heap_size \in Nat
  BY DEF Tiles, HeapType
<1>2. h.end < Limit
  BY <1>1 DEF Bounded
<1>3. b \in Spots
  BY <1>1, <1>2 DEF Spots, BLOCK_SIZE
<1>4. UserSize(h, b) \in Nat
  BY <1>3, LinkTypes
<1>5. get_next_block(h, b) = b + UserSize(h, b) + 3
  BY DEF get_next_block, META_DATA_SIZE
<1>6. get_next_block(h, b) <= h.end
  <2>1. get_next_block(h, b) \in B => get_next_block(h, b) < h.end
    BY DEF Tiles
  <2>2. get_next_block(h, b) \in Nat
    BY <1>1, <1>4, <1>5
  <2> QED BY <1>1, <2>1, <2>2 DEF Tiles
<1> QED BY <1>1, <1>2, <1>3, <1>4, <1>5, <1>6

\* They are those that the headers' sizes lead to.
LEMMA BlocksAre ==
  ASSUME NEW h \in HeapType, Bounded(h), NEW B, Tiles(h, B)
  PROVE  Blocks(h) = B
<1> DEFINE eq(g) == g = [b \in Nat |-> IF b >= h.end THEN {} ELSE {b} \cup g[get_next_block(h, b)]]
           from == CHOOSE g : eq(g)
           E == {b \in Nat : b < h.end}
<1>1. Blocks(h) = from[0]
  BY DEF Blocks
<1>2. h.end \in Nat /\ h.heap_size \in Nat
  BY DEF HeapType
<1>3. \A b \in E : get_next_block(h, b) \in Nat
  <2>1. ASSUME NEW b \in E PROVE get_next_block(h, b) \in Nat
    <3>1. b \in Spots
      BY <1>2 DEF Bounded, Spots, BLOCK_SIZE
    <3>2. UserSize(h, b) \in Nat
      BY <3>1, LinkTypes
    <3> QED BY <3>2 DEF get_next_block, META_DATA_SIZE
  <2> QED BY <2>1
<1>4. eq(from)
  <2> DEFINE step == [b \in E |-> get_next_block(h, b)]
  <2>1. step \in [E -> Nat] /\ E \in SUBSET Nat
    BY <1>3
  <2>2. PICK f : Follows(f, Nat, E, step)
    <3> HIDE DEF step, E
    <3> QED BY <2>1, Followed
  <2>3. \A b \in Nat : b \in E <=> ~(b >= h.end)
    BY <1>2
  <2>4. [b \in Nat |-> IF b \in E THEN {b} \cup f[step[b]] ELSE {}]
        = [b \in Nat |-> IF b >= h.end THEN {} ELSE {b} \cup f[get_next_block(h, b)]]
    <3> HIDE DEF E
    <3> QED BY <2>3
  <2>5. eq(f)
    BY <2>2, <2>4 DEF Follows
  <2> HIDE DEF eq
  <2> QED BY <2>5
<1>5. /\ \A b \in Nat : b < h.end => from[b] = {b} \cup from[get_next_block(h, b)]
      /\ from[h.end] = {}
  <2>1. \A b \in Nat : from[b] = IF b >= h.end THEN {} ELSE {b} \cup from[get_next_block(h, b)]
    BY <1>4
  <2>2. \A b \in Nat : b < h.end => ~(b >= h.end)
    BY <1>2
  <2>3. h.end >= h.end
    BY <1>2
  <2> QED BY <1>2, <2>1, <2>2, <2>3
<1> HIDE DEF from, E, eq
<1> DEFINE T == {b \in B : from[b] # {c \in B : c >= b}}
<1>6. \A b \in B : /\ b \in Nat /\ b < h.end /\ get_next_block(h, b) \in Nat
                   /\ get_next_block(h, b) > b /\ get_next_block(h, b) <= h.end
  <2>1. ASSUME NEW b \in B
        PROVE  /\ b \in Nat /\ b < h.end /\ get_next_block(h, b) \in Nat
               /\ get_next_block(h, b) > b /\ get_next_block(h, b) <= h.end
    BY BlocksFit
  <2> QED BY <2>1
<1>7. T = {}
  <2> SUFFICES ASSUME T # {} PROVE FALSE
    OBVIOUS
  <2>1. T \in SUBSET Nat /\ \A b \in T : b <= h.end
    BY <1>2, <1>6
  <2> HIDE DEF T
  <2>2. PICK x \in T : \A y \in T : y <= x
    BY <1>2, <2>1, GreatestNumber
  <2> USE DEF T
  <2> DEFINE n == get_next_block(h, x)
  <2>3. x \in B /\ from[x] = {x} \cup from[n] /\ \A c \in B : c <= x \/ c >= n
    <3>1. x \in B
      OBVIOUS
    <3>2. from[x] = {x} \cup from[n]
      BY <1>2, <1>5, <1>6, <3>1
    <3>3. \A c \in B : c <= x \/ c >= n
      BY <1>6, <3>1 DEF Tiles
    <3> QED BY <3>1, <3>2, <3>3
  <2>4. from[n] = {c \in B : c >= n}
    <3>1. CASE n = h.end
      <4>1. from[n] = {}
        BY <1>2, <1>5, <3>1
      <4>2. {c \in B : c >= n} = {}
        BY <1>2, <1>6, <3>1
      <4> QED BY <4>1, <4>2
    <3>2. CASE n \in B
      <4>1. n \notin T
        BY <1>6, <2>1, <2>2, <2>3
      <4> QED BY <3>2, <4>1
    <3> QED BY <2>3, <3>1, <3>2 DEF Tiles
  <2>5. {c \in B : c >= x} = {x} \cup {c \in B : c >= n}
    <3>1. n \in Nat /\ n > x /\ x \in Nat /\ \A c \in B : c \in Nat
      BY <1>6, <2>3
    <3>2. x \in B /\ \A c \in B : c <= x \/ c >= n
      BY <2>3
    <3> HIDE DEF n, T
    <3>3. \A c \in B : c >= x <=> c = x \/ c >= n
      BY <3>1, <3>2
    <3> QED BY <3>2, <3>3
  <2> QED BY <2>2, <2>3, <2>4, <2>5
<1>8. CASE h.end = 0
  <2>1. B = {}
    BY <1>6, <1>8
  <2>2. from[0] = {}
    BY <1>5, <1>8
  <2> QED BY <1>1, <2>1, <2>2
<1>9. CASE h.end # 0
  <2>1. 0 \in B
    BY <1>2, <1>9 DEF Tiles
  <2>2. from[0] = {c \in B : c >= 0}
    BY <1>7, <2>1
  <2>3. {c \in B : c >= 0} = B
    BY <1>6
  <2> QED BY <1>1, <2>2, <2>3
<1> QED BY <1>8, <1>9

-----------------------------------------------------------------------------
\* What changes when only links are written, those of the blocks of S.
Relinks(h, g, S) ==
    /\ g \in HeapType /\ g.end = h.end /\ g.heap_size = h.heap_size
    /\ \A k \in Addresses :
          /\ g.mem[k].is = h.mem[k].is /\ g.mem[k].free = h.mem[k].free
          /\ g.mem[k].size = h.mem[k].size
          /\ (\A b \in S : k # b /\ k # b + 1) => g.mem[k] = h.mem[k]

\* The links of S are the only ones that change.
LEMMA RelinksTwice ==
  ASSUME NEW h, NEW g, NEW e, NEW S, NEW R, Relinks(h, g, S), Relinks(g, e, R)
  PROVE  Relinks(h, e, S \cup R)
BY DEF Relinks

\* Nothing relinked is the links of no block or of any.
LEMMA RelinksNothing == ASSUME NEW h \in HeapType, NEW S PROVE Relinks(h, h, S)
BY DEF Relinks

\* What changes few links changes the links of more.
LEMMA RelinksMore ==
  ASSUME NEW h, NEW g, NEW S, NEW R, S \subseteq R, Relinks(h, g, S)
  PROVE  Relinks(h, g, R)
BY DEF Relinks

\* Blocks and their sizes are seen the same.
LEMMA RelinksKeeps ==
  ASSUME NEW h \in HeapType, NEW g, NEW S, Relinks(h, g, S), NEW b \in Spots
  PROVE  /\ IsFree(g, b) = IsFree(h, b) /\ UserSize(g, b) = UserSize(h, b)
         /\ get_next_block(g, b) = get_next_block(h, b)
<1>1. b \in Addresses /\ b + 1 \in Addresses
  BY SpotsFit
<1> QED BY <1>1 DEF Relinks, IsFree, UserSize, get_next_block

\* A cell with another link is a cell.
LEMMA LinkedCell ==
  ASSUME NEW x \in Cell, NEW v \in Spots \cup {NULL}
  PROVE  /\ [x EXCEPT !.next = v] \in Cell /\ [x EXCEPT !.prev = v] \in Cell
         /\ [x EXCEPT !.next = v].next = v /\ [x EXCEPT !.prev = v].prev = v
         /\ [x EXCEPT !.next = v].prev = x.prev /\ [x EXCEPT !.prev = v].next = x.next
         /\ \A y \in {[x EXCEPT !.next = v], [x EXCEPT !.prev = v]} :
               y.is = x.is /\ y.free = x.free /\ y.size = x.size
BY DEF Cell

\* a's next_free becomes v and b's prev_free w; NULL is no block.
Wired(h, g, a, v, b, w) ==
    /\ g.free_head = h.free_head /\ g.free_total = h.free_total
    /\ \A c \in Spots : /\ NextFree(g, c) = IF c = a THEN v ELSE NextFree(h, c)
                        /\ PrevFree(g, c) = IF c = b THEN w ELSE PrevFree(h, c)

\* Writing a block's next_free.
SetNext(h, a, v) == [h EXCEPT !.mem[a + 1].next = v]
\* Writing a next_free changes that link only.
LEMMA SetNextIs ==
  ASSUME NEW h \in HeapType, NEW a \in Spots, NEW v \in Spots \cup {NULL},
         NEW g, g = SetNext(h, a, v)
  PROVE  Relinks(h, g, {a}) /\ Wired(h, g, a, v, NULL, NULL)
<1> DEFINE x == [h.mem[a + 1] EXCEPT !.next = v]
           m == [h.mem EXCEPT ![a + 1] = x]
<1>1. a + 1 \in Addresses /\ h.mem \in [Addresses -> Cell] /\ h.mem[a + 1] \in Cell
  BY SpotsFit DEF HeapType
<1>2. /\ x \in Cell /\ x.next = v /\ x.prev = h.mem[a + 1].prev
      /\ x.is = h.mem[a + 1].is /\ x.free = h.mem[a + 1].free /\ x.size = h.mem[a + 1].size
  BY <1>1, LinkedCell
<1>3. g = [h EXCEPT !.mem = m]
  BY <1>1 DEF SetNext, HeapType
<1> HIDE DEF x
<1>4. m \in [Addresses -> Cell] /\ m[a + 1] = x /\ \A k \in Addresses \ {a + 1} : m[k] = h.mem[k]
  BY <1>1, <1>2
<1> HIDE DEF m
<1>5. /\ g \in HeapType /\ g.mem = m /\ g.end = h.end /\ g.heap_size = h.heap_size
      /\ g.free_head = h.free_head /\ g.free_total = h.free_total
  BY <1>3, <1>4 DEF HeapType
<1>6. Relinks(h, g, {a})
  BY <1>2, <1>4, <1>5 DEF Relinks
<1>7. ASSUME NEW c \in Spots
      PROVE  /\ NextFree(g, c) = IF c = a THEN v ELSE NextFree(h, c)
             /\ PrevFree(g, c) = PrevFree(h, c)
  <2>1. c \in Addresses /\ c + 1 \in Addresses /\ (c + 1 = a + 1 <=> c = a)
    BY SpotsFit
  <2> QED BY <1>2, <1>4, <1>5, <2>1 DEF NextFree, PrevFree
<1> QED BY <1>5, <1>6, <1>7, SpotsFit DEF Wired

\* And its prev_free.
SetPrev(h, a, v) == [h EXCEPT !.mem[a].prev = v]
\* Writing a prev_free changes that link only.
LEMMA SetPrevIs ==
  ASSUME NEW h \in HeapType, NEW a \in Spots, NEW v \in Spots \cup {NULL},
         NEW g, g = SetPrev(h, a, v)
  PROVE  Relinks(h, g, {a}) /\ Wired(h, g, NULL, NULL, a, v)
<1> DEFINE x == [h.mem[a] EXCEPT !.prev = v]
           m == [h.mem EXCEPT ![a] = x]
<1>1. a \in Addresses /\ h.mem \in [Addresses -> Cell] /\ h.mem[a] \in Cell
  BY SpotsFit DEF HeapType
<1>2. /\ x \in Cell /\ x.prev = v /\ x.next = h.mem[a].next
      /\ x.is = h.mem[a].is /\ x.free = h.mem[a].free /\ x.size = h.mem[a].size
  BY <1>1, LinkedCell
<1>3. g = [h EXCEPT !.mem = m]
  BY <1>1 DEF SetPrev, HeapType
<1> HIDE DEF x
<1>4. m \in [Addresses -> Cell] /\ m[a] = x /\ \A k \in Addresses \ {a} : m[k] = h.mem[k]
  BY <1>1, <1>2
<1> HIDE DEF m
<1>5. /\ g \in HeapType /\ g.mem = m /\ g.end = h.end /\ g.heap_size = h.heap_size
      /\ g.free_head = h.free_head /\ g.free_total = h.free_total
  BY <1>3, <1>4 DEF HeapType
<1>6. Relinks(h, g, {a})
  BY <1>2, <1>4, <1>5 DEF Relinks
<1>7. ASSUME NEW c \in Spots
      PROVE  /\ PrevFree(g, c) = IF c = a THEN v ELSE PrevFree(h, c)
             /\ NextFree(g, c) = NextFree(h, c)
  <2>1. c \in Addresses /\ c + 1 \in Addresses
    BY SpotsFit
  <2> QED BY <1>2, <1>4, <1>5, <2>1 DEF NextFree, PrevFree
<1> QED BY <1>5, <1>6, <1>7, SpotsFit DEF Wired

\* Two blocks become neighbours, unless there is only one.
LEMMA LinkIs ==
  ASSUME NEW h \in HeapType, NEW a \in Spots \cup {NULL}, NEW b \in Spots \cup {NULL},
         NEW g, g = Link(h, a, b)
  PROVE  /\ Relinks(h, g, {a, b} \ {NULL})
         /\ Wired(h, g, IF b = NULL THEN NULL ELSE a, b, IF a = NULL THEN NULL ELSE b, a)
<1>1. CASE NULL \in {a, b}
  <2>1. g = h
    BY <1>1 DEF Link
  <2>2. Relinks(h, h, {a, b} \ {NULL})
    BY RelinksNothing
  <2>3. \A c \in Spots : c # NULL
    BY SpotsFit
  <2> QED BY <1>1, <2>1, <2>2, <2>3 DEF Wired
<1>2. CASE NULL \notin {a, b}
  <2>1. a \in Spots /\ b \in Spots
    BY <1>2
  <2>2. PICK e : e = SetNext(h, a, b)
    OBVIOUS
  <2>3. g = SetPrev(e, b, a)
    BY <1>2, <2>2 DEF Link, SetNext, SetPrev
  <2>4. Relinks(h, e, {a}) /\ Wired(h, e, a, b, NULL, NULL)
    BY <2>1, <2>2, SetNextIs
  <2>5. e \in HeapType
    BY <2>4 DEF Relinks
  <2>6. Relinks(e, g, {b}) /\ Wired(e, g, NULL, NULL, b, a)
    BY <2>1, <2>3, <2>5, SetPrevIs
  <2>7. Relinks(h, g, {a, b} \ {NULL})
    <3>1. Relinks(h, g, {a} \cup {b})
      BY <2>4, <2>6, RelinksTwice
    <3>2. {a} \cup {b} = {a, b} \ {NULL}
      BY <1>2
    <3> QED BY <3>1, <3>2
  <2>8. Wired(h, g, a, b, b, a)
    BY <2>4, <2>6, SpotsFit DEF Wired
  <2> QED BY <1>2, <2>7, <2>8
<1> QED BY <1>1, <1>2

\* The greatest of some numbers, and the least.
LEMMA MaxIs ==
  ASSUME NEW T \in SUBSET Nat, T # {}, NEW m \in Nat, \A x \in T : x <= m
  PROVE  Max(T) \in T /\ \A y \in T : y <= Max(T)
<1>1. \E x \in T : \A y \in T : x >= y
  <2>1. PICK x \in T : \A y \in T : y <= x
    BY GreatestNumber
  <2>2. \A y \in T : x \in Nat /\ y \in Nat
    OBVIOUS
  <2>3. \A y \in T : x >= y
    BY <2>1, <2>2
  <2> QED BY <2>3
<1>2. Max(T) \in T /\ \A y \in T : Max(T) >= y
  BY <1>1 DEF Max
<1>3. \A y \in T : Max(T) \in Nat /\ y \in Nat
  BY <1>2
<1> QED BY <1>2, <1>3

\* The least element is in the set and below the others.
LEMMA MinIs ==
  ASSUME NEW T \in SUBSET Nat, T # {}
  PROVE  Min(T) \in T /\ \A y \in T : Min(T) <= y
<1>1. \E x \in T : \A y \in T : x <= y
  BY LeastNumber
<1> QED BY <1>1 DEF Min

\* The free list of F among the blocks of B; who is not in it has no links.
Listed(h, B, F) ==
    /\ F \subseteq B /\ B \subseteq Spots
    /\ Chained(h, F) /\ h.free_total = Cardinality(F)
    /\ \A b \in B \ F : NextFree(h, b) = NULL /\ PrevFree(h, b) = NULL

\* Blocks are few.
LEMMA ListFinite == ASSUME NEW F, F \subseteq Spots PROVE IsFiniteSet(F)
<1>1. IsFiniteSet(0..(Limit - BLOCK_SIZE))
  BY FS_Interval DEF BLOCK_SIZE
<1> QED BY <1>1, FS_Subset DEF Spots

\* A block that comes between prev and next in the list.
Spliced(h, g, b, prev, next) ==
    /\ g.free_head = (IF prev = NULL THEN b ELSE h.free_head)
    /\ g.free_total = h.free_total + 1
    /\ \A c \in Spots :
         /\ NextFree(g, c) = IF c = b THEN next ELSE IF c = prev THEN b ELSE NextFree(h, c)
         /\ PrevFree(g, c) = IF c = b THEN prev ELSE IF c = next THEN b ELSE PrevFree(h, c)

\* The list with a block spliced in at its place links one block more.
LEMMA SplicedChain ==
  ASSUME NEW h, NEW g, NEW F, Chained(h, F), NEW b \in Spots, b \notin F,
         NEW prev, NEW next, IsPrev(F, b, prev), IsNext(F, b, next),
         Spliced(h, g, b, prev, next)
  PROVE  Chained(g, F \cup {b})
<1> DEFINE G == F \cup {b}
<1>1. F \subseteq Spots /\ \A c \in G : c \in Nat /\ c # NULL /\ c > NULL /\ c \in Spots
  BY SpotsFit DEF Chained, NULL
<1>2. IsNext(G, NULL, g.free_head)
  <2>1. CASE prev = NULL
    <3>1. \A c \in F : c >= b
      BY <1>1, <2>1 DEF IsPrev
    <3>2. \A c \in G : c <= NULL \/ c >= b
      BY <1>1, <3>1
    <3>3. g.free_head = b
      BY <2>1 DEF Spliced
    <3> QED BY <1>1, <3>2, <3>3 DEF IsNext
  <2>2. CASE prev # NULL
    <3>1. prev \in F /\ prev < b
      BY <2>2 DEF IsPrev
    <3>2. g.free_head = h.free_head /\ IsNext(F, NULL, h.free_head)
      BY <2>2 DEF Spliced, Chained
    <3>3. ~(prev <= NULL)
      BY <1>1, <3>1 DEF NULL
    <3>4. /\ h.free_head \in F /\ h.free_head > NULL
          /\ \A c \in F : c <= NULL \/ c >= h.free_head
      BY <3>1, <3>2, <3>3 DEF IsNext
    <3>5. b >= h.free_head
      BY <1>1, <3>1, <3>3, <3>4
    <3> QED BY <3>2, <3>4, <3>5 DEF IsNext
  <2> QED BY <2>1, <2>2
<1>3. ASSUME NEW c \in G PROVE IsNext(G, c, NextFree(g, c))
  <2>1. CASE c = b
    <3>1. NextFree(g, c) = next
      BY <2>1 DEF Spliced
    <3>2. b <= c
      BY <1>1, <2>1
    <3> QED BY <2>1, <3>1, <3>2 DEF IsNext
  <2>2. CASE c # b /\ c = prev
    <3>1. NextFree(g, c) = b
      BY <1>1, <2>2 DEF Spliced
    <3>2. c \in F /\ c < b /\ \A d \in F : d >= b \/ d <= c
      BY <1>1, <2>2 DEF IsPrev
    <3>3. \A d \in G : d <= c \/ d >= b
      BY <1>1, <3>2
    <3>4. b > c
      BY <1>1, <3>2
    <3> QED BY <3>1, <3>3, <3>4 DEF IsNext
  <2>3. CASE c # b /\ c # prev
    <3>1. c \in F /\ NextFree(g, c) = NextFree(h, c) /\ IsNext(F, c, NextFree(h, c))
      BY <1>1, <2>3 DEF Spliced, Chained
    <3> DEFINE n == NextFree(h, c)
    <3>2. prev # NULL => prev \in F /\ prev < b /\ \A d \in F : d >= b \/ d <= prev
      BY DEF IsPrev
    <3>3. prev = NULL => \A d \in F : d >= b
      BY <1>1 DEF IsPrev
    <3>4. CASE n = NULL /\ \A d \in F : d <= c
      <4>1. b <= c
        BY <1>1, <2>3, <3>1, <3>2, <3>3, <3>4
      <4> QED BY <3>1, <3>4, <4>1 DEF IsNext
    <3>5. CASE n \in F /\ n > c /\ \A d \in F : d <= c \/ d >= n
      <4> HIDE DEF n
      <4>1. b <= c \/ b >= n
        BY <1>1, <2>3, <3>1, <3>2, <3>3, <3>5
      <4>2. IsNext(G, c, n)
        BY <3>5, <4>1 DEF IsNext
      <4> QED BY <3>1, <4>2 DEF n
    <3> QED BY <3>1, <3>4, <3>5 DEF IsNext
  <2> QED BY <2>1, <2>2, <2>3
<1>4. ASSUME NEW c \in G PROVE IsPrev(G, c, PrevFree(g, c))
  <2>1. CASE c = b
    <3>1. PrevFree(g, c) = prev
      BY <2>1 DEF Spliced
    <3>2. b >= c
      BY <1>1, <2>1
    <3> QED BY <2>1, <3>1, <3>2 DEF IsPrev
  <2>2. CASE c # b /\ c = next
    <3>1. PrevFree(g, c) = b
      BY <1>1, <2>2 DEF Spliced
    <3>2. c \in F /\ c > b /\ \A d \in F : d <= b \/ d >= c
      BY <1>1, <2>2 DEF IsNext
    <3>3. \A d \in G : d >= c \/ d <= b
      BY <1>1, <3>2
    <3>4. b < c
      BY <1>1, <3>2
    <3> QED BY <3>1, <3>3, <3>4 DEF IsPrev
  <2>3. CASE c # b /\ c # next
    <3>1. c \in F /\ PrevFree(g, c) = PrevFree(h, c) /\ IsPrev(F, c, PrevFree(h, c))
      BY <1>1, <2>3 DEF Spliced, Chained
    <3> DEFINE n == PrevFree(h, c)
    <3>2. next # NULL => next \in F /\ next > b /\ \A d \in F : d <= b \/ d >= next
      BY DEF IsNext
    <3>3. next = NULL => \A d \in F : d <= b
      BY <1>1 DEF IsNext
    <3>4. CASE n = NULL /\ \A d \in F : d >= c
      <4>1. b >= c
        BY <1>1, <2>3, <3>1, <3>2, <3>3, <3>4
      <4> QED BY <3>1, <3>4, <4>1 DEF IsPrev
    <3>5. CASE n \in F /\ n < c /\ \A d \in F : d >= c \/ d <= n
      <4> HIDE DEF n
      <4>1. b >= c \/ b <= n
        BY <1>1, <2>3, <3>1, <3>2, <3>3, <3>5
      <4>2. IsPrev(G, c, n)
        BY <3>5, <4>1 DEF IsPrev
      <4> QED BY <3>1, <4>2 DEF n
    <3> QED BY <3>1, <3>4, <3>5 DEF IsPrev
  <2> QED BY <2>1, <2>2, <2>3
<1> QED BY <1>1, <1>2, <1>3, <1>4 DEF Chained

\* Nothing but the list's head and length changes.
SetHead(h, n, k) == [h EXCEPT !.free_total = k, !.free_head = n]
\* Writing the head and the length of the list leaves the links.
LEMMA HeadIs ==
  ASSUME NEW h \in HeapType, NEW n \in Spots \cup {NULL}, NEW k \in Int,
         NEW e, e = SetHead(h, n, k)
  PROVE  /\ Relinks(h, e, {}) /\ e.mem = h.mem /\ e.free_head = n /\ e.free_total = k
         /\ \A c \in Spots : NextFree(e, c) = NextFree(h, c) /\ PrevFree(e, c) = PrevFree(h, c)
<1>1. /\ e \in HeapType /\ e.mem = h.mem /\ e.end = h.end /\ e.heap_size = h.heap_size
      /\ e.free_head = n /\ e.free_total = k
  BY DEF HeapType, SetHead
<1> QED BY <1>1 DEF Relinks, NextFree, PrevFree

\* A block that is not in the list yet gets into it at its place.
LEMMA InsertIs ==
  ASSUME NEW h \in HeapType, NEW B, NEW F, Listed(h, B, F), NEW b \in B \ F,
         NEW g, g = insert_free_block(h, b)
  PROVE  Relinks(h, g, B) /\ Listed(g, B, F \cup {b})
<1>1. /\ F \subseteq B /\ B \subseteq Spots /\ b \in Spots /\ b \notin F /\ b # NULL
      /\ b \in Nat /\ \A c \in F : c \in Nat /\ c \in Spots /\ c # NULL
  BY SpotsFit DEF Listed
<1>20. PICK below : below = {c \in F : c < b}
  OBVIOUS
<1>21. PICK prev : prev = IF below = {} THEN NULL ELSE Max(below)
  OBVIOUS
<1>22. PICK next : next = IF below = {} THEN h.free_head ELSE NextFree(h, prev)
  OBVIOUS
<1>0. below \subseteq F /\ \A c \in F : c \in below <=> c < b
  BY <1>20
<1>2. PICK e : e = [h EXCEPT !.free_total = @ + 1, !.free_head = IF below = {} THEN b ELSE @]
  OBVIOUS
<1>3. PICK f : f = Link(e, prev, b)
  OBVIOUS
<1>4. g = Link(f, b, next)
  <2>1. FreeChain(h) = F
    BY ChainOf DEF Listed
  <2> QED BY <1>2, <1>3, <1>20, <1>21, <1>22, <2>1 DEF insert_free_block
<1>5. below # {} => prev \in below /\ \A c \in below : c <= prev
  <2>1. \A c \in below : c \in Nat /\ c <= b
    BY <1>1, <1>0
  <2> QED BY <1>1, <1>21, <2>1, MaxIs
<1>6. IsPrev(F, b, prev)
  <2>1. CASE below = {}
    <3>1. \A c \in F : ~(c < b)
      BY <1>0, <2>1
    <3>2. \A c \in F : c >= b
      BY <1>1, <3>1
    <3> QED BY <1>21, <2>1, <3>2 DEF IsPrev
  <2>2. CASE below # {}
    <3>1. prev \in F /\ prev < b /\ \A c \in F : c < b => c <= prev
      BY <1>5, <1>0, <2>2
    <3> QED BY <1>1, <3>1 DEF IsPrev
  <2> QED BY <2>1, <2>2
<1>7. IsNext(F, b, next)
  <2>1. CASE below = {}
    <3>0. \A c \in F : ~(c < b)
      BY <1>0, <2>1
    <3>1. IsNext(F, NULL, next) /\ \A c \in F : c >= b
      <4>1. next = h.free_head /\ IsNext(F, NULL, h.free_head)
        BY <1>22, <2>1 DEF Listed, Chained
      <4> QED BY <1>1, <3>0, <4>1
    <3>2. next = NULL => F = {}
      BY <1>1, <3>1 DEF IsNext, NULL
    <3>3. next \in F => next > b /\ \A c \in F : c >= next
      BY <1>1, <3>1 DEF IsNext, NULL
    <3> QED BY <3>1, <3>2, <3>3 DEF IsNext
  <2>2. CASE below # {}
    <3>1. prev \in F /\ prev < b /\ IsNext(F, prev, next)
      BY <1>0, <1>5, <1>22, <2>2 DEF Listed, Chained
    <3>2. \A c \in F : c >= b \/ c <= prev
      BY <1>0, <1>1, <1>5, <2>2
    <3>3. CASE next = NULL /\ \A c \in F : c <= prev
      <4>1. \A c \in F : c <= b
        BY <1>1, <3>1, <3>3
      <4> QED BY <3>3, <4>1 DEF IsNext
    <3>4. CASE next \in F /\ next > prev /\ \A c \in F : c <= prev \/ c >= next
      <4>1. next > b
        BY <1>1, <3>1, <3>2, <3>4
      <4>2. \A c \in F : c <= b \/ c >= next
        BY <1>1, <3>1, <3>4
      <4> QED BY <3>4, <4>1, <4>2 DEF IsNext
    <3> QED BY <3>1, <3>3, <3>4 DEF IsNext
  <2> QED BY <2>1, <2>2
<1>8. prev \in Spots \cup {NULL} /\ next \in Spots \cup {NULL} /\ prev # b /\ next # b
  <2>1. prev = NULL \/ (prev \in F /\ prev < b)
    BY <1>6 DEF IsPrev
  <2>2. next = NULL \/ (next \in F /\ next > b)
    BY <1>7 DEF IsNext
  <2>3. prev \in Spots \cup {NULL} /\ prev # b
    <3>1. CASE prev = NULL
      BY <1>1, <3>1
    <3>2. CASE prev \in F
      BY <1>1, <3>2
    <3> QED BY <2>1, <3>1, <3>2
  <2>4. next \in Spots \cup {NULL} /\ next # b
    <3>1. CASE next = NULL
      BY <1>1, <3>1
    <3>2. CASE next \in F
      BY <1>1, <3>2
    <3> QED BY <2>2, <3>1, <3>2
  <2> QED BY <2>3, <2>4
<1>9. prev = NULL <=> below = {}
  BY <1>0, <1>1, <1>5, <1>21
<1>10. /\ Relinks(h, e, {})
       /\ e.free_head = (IF prev = NULL THEN b ELSE h.free_head)
       /\ e.free_total = h.free_total + 1
       /\ \A c \in Spots : NextFree(e, c) = NextFree(h, c) /\ PrevFree(e, c) = PrevFree(h, c)
  <2> PICK n : n = IF prev = NULL THEN b ELSE h.free_head
    OBVIOUS
  <2>1. e = SetHead(h, n, h.free_total + 1)
    BY <1>2, <1>9 DEF SetHead
  <2>2. h.free_total + 1 \in Int /\ n \in Spots \cup {NULL}
    BY <1>1 DEF HeapType
  <2> QED BY <2>1, <2>2, HeadIs
<1>11. Relinks(e, f, {prev, b} \ {NULL}) /\ Wired(e, f, prev, b, IF prev = NULL THEN NULL ELSE b, prev)
  <2>1. e \in HeapType
    BY <1>10 DEF Relinks
  <2>2. /\ Relinks(e, f, {prev, b} \ {NULL})
        /\ Wired(e, f, IF b = NULL THEN NULL ELSE prev, b, IF prev = NULL THEN NULL ELSE b, prev)
    BY <1>1, <1>3, <1>8, <2>1, LinkIs
  <2> QED BY <1>1, <2>2
<1>12. f \in HeapType
  BY <1>11 DEF Relinks
<1>13. Relinks(f, g, {b, next} \ {NULL}) /\ Wired(f, g, IF next = NULL THEN NULL ELSE b, next, next, b)
  <2>1. /\ Relinks(f, g, {b, next} \ {NULL})
        /\ Wired(f, g, IF next = NULL THEN NULL ELSE b, next, IF b = NULL THEN NULL ELSE next, b)
    BY <1>1, <1>4, <1>8, <1>12, LinkIs
  <2> QED BY <1>1, <2>1
<1>14. Spliced(h, g, b, prev, next)
  <2>1. g.free_head = e.free_head /\ g.free_total = e.free_total
    BY <1>11, <1>13 DEF Wired
  <2>2. NextFree(h, b) = NULL
    BY <1>1 DEF Listed
  <2>3. ASSUME NEW c \in Spots
        PROVE  /\ NextFree(g, c) = IF c = b THEN next ELSE IF c = prev THEN b ELSE NextFree(h, c)
               /\ PrevFree(g, c) = IF c = b THEN prev ELSE IF c = next THEN b ELSE PrevFree(h, c)
    <3>1. NextFree(e, c) = NextFree(h, c) /\ PrevFree(e, c) = PrevFree(h, c)
      BY <1>10
    <3>2. /\ NextFree(f, c) = IF c = prev THEN b ELSE NextFree(h, c)
          /\ PrevFree(f, c) = IF c = (IF prev = NULL THEN NULL ELSE b) THEN prev ELSE PrevFree(h, c)
      BY <1>11, <3>1 DEF Wired
    <3>3. /\ NextFree(g, c) = IF c = (IF next = NULL THEN NULL ELSE b) THEN next ELSE NextFree(f, c)
          /\ PrevFree(g, c) = IF c = next THEN b ELSE PrevFree(f, c)
      BY <1>13 DEF Wired
    <3>4. c # NULL
      BY SpotsFit
    <3>5. prev = NULL => PrevFree(h, b) = NULL
      BY DEF Listed
    <3> QED BY <1>8, <2>2, <3>2, <3>3, <3>4, <3>5
  <2> QED BY <1>10, <2>1, <2>3 DEF Spliced
<1>15. Relinks(h, g, B)
  <2>1. Relinks(h, g, {} \cup ({prev, b} \ {NULL}) \cup ({b, next} \ {NULL}))
    BY <1>10, <1>11, <1>13, RelinksTwice
  <2>2. {} \cup ({prev, b} \ {NULL}) \cup ({b, next} \ {NULL}) \subseteq B
    BY <1>1, <1>6, <1>7 DEF IsPrev, IsNext
  <2> QED BY <2>1, <2>2, RelinksMore
<1>16. Chained(g, F \cup {b})
  BY <1>1, <1>6, <1>7, <1>14, SplicedChain DEF Listed
<1>17. g.free_total = Cardinality(F \cup {b})
  <2>1. IsFiniteSet(F)
    BY <1>1, ListFinite
  <2> QED BY <1>1, <1>14, <2>1, FS_AddElement DEF Spliced, Listed
<1>18. ASSUME NEW c \in B \ (F \cup {b}) PROVE NextFree(g, c) = NULL /\ PrevFree(g, c) = NULL
  <2>1. c \in Spots /\ c # NULL /\ c # b /\ c \notin F /\ NextFree(h, c) = NULL /\ PrevFree(h, c) = NULL
    BY <1>1, SpotsFit DEF Listed
  <2>2. c # prev /\ c # next
    BY <1>6, <1>7, <2>1 DEF IsPrev, IsNext
  <2> QED BY <1>14, <2>1, <2>2 DEF Spliced
<1> QED BY <1>1, <1>15, <1>16, <1>17, <1>18 DEF Listed

\* The neighbours of the others when b is gone.
NextSkips(F, b, p, q, c, n) ==
    (n = b <=> c = p) /\ IsNext(F \ {b}, c, IF c = p THEN q ELSE n)
\* Without b the next of its predecessor is the next of b.
LEMMA NextWithout ==
  ASSUME NEW F \in SUBSET Nat, NEW b \in F, NEW p, IsPrev(F, b, p), NEW q, IsNext(F, b, q),
         NEW c \in Int, c \in F \/ c = NULL, c # b, NEW n, IsNext(F, c, n)
  PROVE  NextSkips(F, b, p, q, c, n)
<1> USE DEF NextSkips
<1>1. b \in Nat /\ c \in Int /\ (c \in F \/ c = NULL) /\ NULL \in Int /\ NULL < b
      /\ \A d \in F : d \in Nat /\ d > NULL
  BY DEF NULL
<1>2. \/ p = NULL /\ \A d \in F : d >= b
      \/ p \in F /\ p < b /\ \A d \in F : d >= b \/ d <= p
  BY DEF IsPrev
<1>3. \/ n = NULL /\ \A d \in F : d <= c
      \/ n \in F /\ n > c /\ \A d \in F : d <= c \/ d >= n
  BY DEF IsNext
<1>4. \/ q = NULL /\ \A d \in F : d <= b
      \/ q \in F /\ q > b /\ \A d \in F : d <= b \/ d >= q
  BY DEF IsNext
<1>5. ASSUME n = b PROVE c = p
  <2>1. c < b /\ \A d \in F : d <= c \/ d >= b
    BY <1>1, <1>3, <1>5
  <2>2. CASE p = NULL /\ \A d \in F : d >= b
    BY <1>1, <2>1, <2>2
  <2>3. CASE p \in F /\ p < b /\ \A d \in F : d >= b \/ d <= p
    <3>1. p <= c
      BY <1>1, <2>1, <2>3
    <3>2. c \in F
      BY <1>1, <2>3, <3>1
    <3>3. c <= p
      BY <1>1, <2>1, <2>3, <3>2
    <3> QED BY <1>1, <2>3, <3>1, <3>3
  <2> QED BY <1>2, <2>2, <2>3
<1>6. ASSUME c = p PROVE n = b
  <2>1. c < b /\ \A d \in F : d <= c \/ d >= b
    BY <1>1, <1>2, <1>6
  <2>2. n \in F /\ n > c /\ \A d \in F : d <= c \/ d >= n
    BY <1>1, <1>3, <2>1
  <2>3. n >= b /\ b >= n
    BY <1>1, <2>1, <2>2
  <2> QED BY <1>1, <2>2, <2>3
<1>7. CASE c = p
  <2>1. c < b /\ \A d \in F \ {b} : d <= c \/ d > b
    BY <1>1, <1>2, <1>7
  <2>2. CASE q = NULL /\ \A d \in F : d <= b
    <3>1. \A d \in F \ {b} : d <= c
      BY <1>1, <2>1, <2>2
    <3> QED BY <1>5, <1>6, <1>7, <2>2, <3>1 DEF IsNext
  <2>3. CASE q \in F /\ q > b /\ \A d \in F : d <= b \/ d >= q
    <3>1. q # b /\ q > c
      BY <1>1, <2>1, <2>3
    <3>2. \A d \in F \ {b} : d <= c \/ d >= q
      BY <1>1, <2>1, <2>3
    <3> QED BY <1>5, <1>6, <1>7, <2>3, <3>1, <3>2 DEF IsNext
  <2> QED BY <1>4, <2>2, <2>3
<1>8. CASE c # p
  BY <1>3, <1>5, <1>6, <1>8 DEF IsNext
<1> QED BY <1>7, <1>8

\* Without b the previous of its successor is the previous of b.
LEMMA PrevWithout ==
  ASSUME NEW F \in SUBSET Nat, NEW b \in F, NEW p, IsPrev(F, b, p), NEW q, IsNext(F, b, q),
         NEW c \in F, c # b, NEW n, IsPrev(F, c, n)
  PROVE  (n = b <=> c = q) /\ IsPrev(F \ {b}, c, IF c = q THEN p ELSE n)
<1>1. b \in Nat /\ c \in Int /\ NULL \in Int /\ NULL < b
      /\ \A d \in F : d \in Nat /\ d > NULL
  BY DEF NULL
<1>2. \/ p = NULL /\ \A d \in F : d >= b
      \/ p \in F /\ p < b /\ \A d \in F : d >= b \/ d <= p
  BY DEF IsPrev
<1>3. \/ n = NULL /\ \A d \in F : d >= c
      \/ n \in F /\ n < c /\ \A d \in F : d >= c \/ d <= n
  BY DEF IsPrev
<1>4. \/ q = NULL /\ \A d \in F : d <= b
      \/ q \in F /\ q > b /\ \A d \in F : d <= b \/ d >= q
  BY DEF IsNext
<1>5. ASSUME n = b PROVE c = q
  <2>1. c > b /\ \A d \in F : d >= c \/ d <= b
    BY <1>1, <1>3, <1>5
  <2>2. q \in F /\ q > b /\ \A d \in F : d <= b \/ d >= q
    BY <1>1, <1>4, <2>1
  <2>3. q <= c /\ c <= q
    BY <1>1, <2>1, <2>2
  <2> QED BY <1>1, <2>2, <2>3
<1>6. ASSUME c = q PROVE n = b
  <2>1. c > b /\ \A d \in F : d <= b \/ d >= c
    BY <1>1, <1>4, <1>6
  <2>2. n \in F /\ n < c /\ \A d \in F : d >= c \/ d <= n
    BY <1>1, <1>3, <2>1
  <2>3. n <= b /\ b <= n
    BY <1>1, <2>1, <2>2
  <2> QED BY <1>1, <2>2, <2>3
<1>7. CASE c = q
  <2>1. c > b /\ \A d \in F \ {b} : d >= c \/ d < b
    BY <1>1, <1>4, <1>7
  <2>2. CASE p = NULL /\ \A d \in F : d >= b
    <3>1. \A d \in F \ {b} : d >= c
      BY <1>1, <2>1, <2>2
    <3> QED BY <1>5, <1>6, <1>7, <2>2, <3>1 DEF IsPrev
  <2>3. CASE p \in F /\ p < b /\ \A d \in F : d >= b \/ d <= p
    <3>1. p # b /\ p < c
      BY <1>1, <2>1, <2>3
    <3>2. \A d \in F \ {b} : d >= c \/ d <= p
      BY <1>1, <2>1, <2>3
    <3> QED BY <1>5, <1>6, <1>7, <2>3, <3>1, <3>2 DEF IsPrev
  <2> QED BY <1>2, <2>2, <2>3
<1>8. CASE c # q
  BY <1>3, <1>5, <1>6, <1>8 DEF IsPrev
<1> QED BY <1>7, <1>8

\* A block that leaves the list.
Cut(h, g, b) ==
    /\ g.free_head = (IF h.free_head = b THEN NextFree(h, b) ELSE h.free_head)
    /\ g.free_total = h.free_total - 1
    /\ \A c \in Spots :
         /\ NextFree(g, c) = IF c = b THEN NULL
                             ELSE IF c = PrevFree(h, b) THEN NextFree(h, b) ELSE NextFree(h, c)
         /\ PrevFree(g, c) = IF c = b THEN NULL
                             ELSE IF c = NextFree(h, b) THEN PrevFree(h, b) ELSE PrevFree(h, c)

\* What is left of a list that a block is cut out of is the list of the others.
LEMMA CutList ==
  ASSUME NEW h, NEW g, NEW B, NEW F, Listed(h, B, F), NEW b \in F, Cut(h, g, b)
  PROVE  Listed(g, B, F \ {b})
<1>1. /\ F \in SUBSET Nat /\ F \subseteq B /\ B \subseteq Spots /\ b \in Spots /\ b # NULL
      /\ \A c \in F : c # NULL
  BY SpotsFit DEF Listed
<1>2. PICK p : p = PrevFree(h, b)
  OBVIOUS
<1>3. PICK q : q = NextFree(h, b)
  OBVIOUS
<1>4. IsPrev(F, b, p) /\ IsNext(F, b, q)
  BY <1>2, <1>3 DEF Listed, Chained
<1>5. IsNext(F \ {b}, NULL, g.free_head)
  <2>1. IsNext(F, NULL, h.free_head)
    BY DEF Listed, Chained
  <2>2. /\ h.free_head = b <=> NULL = p
        /\ IsNext(F \ {b}, NULL, IF NULL = p THEN q ELSE h.free_head)
    <3>1. NULL \in Int /\ NULL # b
      BY <1>1 DEF NULL
    <3>2. NextSkips(F, b, p, q, NULL, h.free_head)
      BY <1>1, <1>4, <2>1, <3>1, NextWithout
    <3> QED BY <3>2 DEF NextSkips
  <2>3. g.free_head = IF NULL = p THEN q ELSE h.free_head
    BY <1>3, <2>2 DEF Cut
  <2> QED BY <2>2, <2>3
<1>6. ASSUME NEW c \in F \ {b}
      PROVE  IsNext(F \ {b}, c, NextFree(g, c)) /\ IsPrev(F \ {b}, c, PrevFree(g, c))
  <2>1. c \in Spots /\ IsNext(F, c, NextFree(h, c)) /\ IsPrev(F, c, PrevFree(h, c))
    BY <1>1 DEF Listed, Chained
  <2>2. IsNext(F \ {b}, c, IF c = p THEN q ELSE NextFree(h, c))
    <3>1. c \in Int /\ (c \in F \/ c = NULL) /\ c # b
      BY <1>1
    <3> PICK n : n = NextFree(h, c)
      OBVIOUS
    <3>2. IsNext(F, c, n)
      BY <2>1
    <3>3. NextSkips(F, b, p, q, c, n)
      BY <1>1, <1>4, <3>1, <3>2, NextWithout
    <3> QED BY <3>3 DEF NextSkips
  <2>3. IsPrev(F \ {b}, c, IF c = q THEN p ELSE PrevFree(h, c))
    BY <1>1, <1>4, <2>1, PrevWithout
  <2>4. /\ NextFree(g, c) = IF c = p THEN q ELSE NextFree(h, c)
        /\ PrevFree(g, c) = IF c = q THEN p ELSE PrevFree(h, c)
    BY <1>2, <1>3, <2>1 DEF Cut
  <2> QED BY <2>2, <2>3, <2>4
<1>7. Chained(g, F \ {b})
  BY <1>1, <1>5, <1>6 DEF Chained
<1>8. g.free_total = Cardinality(F \ {b})
  <2>1. IsFiniteSet(F)
    BY <1>1, ListFinite
  <2> QED BY <2>1, FS_RemoveElement DEF Cut, Listed
<1>9. ASSUME NEW c \in B \ (F \ {b}) PROVE NextFree(g, c) = NULL /\ PrevFree(g, c) = NULL
  <2>1. CASE c = b
    BY <1>1, <2>1 DEF Cut
  <2>2. CASE c # b
    <3>1. c \in Spots /\ c \notin F /\ NextFree(h, c) = NULL /\ PrevFree(h, c) = NULL /\ c # NULL
      BY <1>1, <2>2, SpotsFit DEF Listed
    <3>2. c # p /\ c # q
      BY <1>4, <3>1 DEF IsPrev, IsNext
    <3> QED BY <1>2, <1>3, <2>2, <3>1, <3>2 DEF Cut
  <2> QED BY <2>1, <2>2
<1> QED BY <1>1, <1>7, <1>8, <1>9 DEF Listed

\* The list goes from p to q directly; NULL ends write nothing.
Skip(h, p, q) ==
    LET past == IF p = NULL THEN h ELSE SetNext(h, p, q)
    IN  IF q = NULL THEN past ELSE SetPrev(past, q, p)

\* The two neighbours of a block can be linked past it.
LEMMA SkipIs ==
  ASSUME NEW h \in HeapType, NEW p \in Spots \cup {NULL}, NEW q \in Spots \cup {NULL},
         NEW g, g = Skip(h, p, q)
  PROVE  Relinks(h, g, {p, q} \ {NULL}) /\ Wired(h, g, p, q, q, p)
<1>1. PICK e : e = IF p = NULL THEN h ELSE SetNext(h, p, q)
  OBVIOUS
<1>2. g = IF q = NULL THEN e ELSE SetPrev(e, q, p)
  BY <1>1 DEF Skip
<1>3. \A c \in Spots : c # NULL
  BY SpotsFit
<1>4. Relinks(h, e, {p} \ {NULL}) /\ Wired(h, e, p, q, NULL, NULL)
  <2>1. CASE p = NULL
    <3>1. Relinks(h, e, {p} \ {NULL})
      BY <1>1, <2>1, RelinksNothing
    <3>2. Wired(h, e, p, q, NULL, NULL)
      BY <1>1, <1>3, <2>1 DEF Wired
    <3> QED BY <3>1, <3>2
  <2>2. CASE p # NULL
    <3>1. p \in Spots /\ {p} \ {NULL} = {p}
      BY <2>2
    <3> QED BY <1>1, <2>2, <3>1, SetNextIs
  <2> QED BY <2>1, <2>2
<1>5. e \in HeapType
  BY <1>4 DEF Relinks
<1>6. Relinks(e, g, {q} \ {NULL}) /\ Wired(e, g, NULL, NULL, q, p)
  <2>1. CASE q = NULL
    <3>1. Relinks(e, g, {q} \ {NULL})
      BY <1>2, <1>5, <2>1, RelinksNothing
    <3>2. Wired(e, g, NULL, NULL, q, p)
      BY <1>2, <1>3, <2>1 DEF Wired
    <3> QED BY <3>1, <3>2
  <2>2. CASE q # NULL
    <3>1. q \in Spots /\ {q} \ {NULL} = {q}
      BY <2>2
    <3> QED BY <1>2, <1>5, <2>2, <3>1, SetPrevIs
  <2> QED BY <2>1, <2>2
<1>7. Relinks(h, g, {p, q} \ {NULL})
  <2>1. Relinks(h, g, ({p} \ {NULL}) \cup ({q} \ {NULL}))
    BY <1>4, <1>6, RelinksTwice
  <2>2. ({p} \ {NULL}) \cup ({q} \ {NULL}) = {p, q} \ {NULL}
    OBVIOUS
  <2> QED BY <2>1, <2>2
<1>8. Wired(h, g, p, q, q, p)
  BY <1>3, <1>4, <1>6 DEF Wired
<1> QED BY <1>7, <1>8

\* remove_free_block cuts a block out.
LEMMA CutIs ==
  ASSUME NEW h \in HeapType, NEW b \in Spots, PrevFree(h, b) # b, NextFree(h, b) # b,
         NEW g, g = remove_free_block(h, b)
  PROVE  Relinks(h, g, {b, PrevFree(h, b), NextFree(h, b)} \ {NULL}) /\ Cut(h, g, b)
<1>1. PICK p : p = PrevFree(h, b)
  OBVIOUS
<1>2. PICK q : q = NextFree(h, b)
  OBVIOUS
<1>3. /\ p \in Spots \cup {NULL} /\ q \in Spots \cup {NULL} /\ p # b /\ q # b
      /\ b # NULL /\ NULL \in Spots \cup {NULL} /\ \A c \in Spots : c # NULL
  BY <1>1, <1>2, LinkTypes, SpotsFit
<1>4. PICK n : n = IF h.free_head = b THEN q ELSE h.free_head
  OBVIOUS
<1>5. PICK e : e = SetHead(h, n, h.free_total - 1)
  OBVIOUS
<1>6. PICK f : f = Skip(e, p, q)
  OBVIOUS
<1>7. PICK k : k = SetPrev(f, b, NULL)
  OBVIOUS
<1>8. g = SetNext(k, b, NULL)
  <2>1. e = [h EXCEPT !.free_total = @ - 1, !.free_head = IF @ = b THEN q ELSE @]
    BY <1>4, <1>5 DEF SetHead
  <2>2. f = LET past == IF p = NULL THEN e ELSE [e EXCEPT !.mem[p + 1].next = q]
            IN  IF q = NULL THEN past ELSE [past EXCEPT !.mem[q].prev = p]
    BY <1>6 DEF Skip, SetNext, SetPrev
  <2>3. g = [f EXCEPT !.mem[b].prev = NULL, !.mem[b + 1].next = NULL]
    BY <1>1, <1>2, <2>1, <2>2 DEF remove_free_block
  <2> QED BY <1>7, <2>3 DEF SetNext, SetPrev
<1>9. /\ Relinks(h, e, {}) /\ e.free_head = n /\ e.free_total = h.free_total - 1
      /\ \A c \in Spots : NextFree(e, c) = NextFree(h, c) /\ PrevFree(e, c) = PrevFree(h, c)
  <2>1. n \in Spots \cup {NULL} /\ h.free_total - 1 \in Int
    BY <1>3, <1>4 DEF HeapType
  <2> QED BY <1>5, <2>1, HeadIs
<1>10. Relinks(e, f, {p, q} \ {NULL}) /\ Wired(e, f, p, q, q, p)
  <2>1. e \in HeapType
    BY <1>9 DEF Relinks
  <2> QED BY <1>3, <1>6, <2>1, SkipIs
<1>11. Relinks(f, k, {b}) /\ Wired(f, k, NULL, NULL, b, NULL)
  <2>1. f \in HeapType
    BY <1>10 DEF Relinks
  <2> QED BY <1>3, <1>7, <2>1, SetPrevIs
<1>12. Relinks(k, g, {b}) /\ Wired(k, g, b, NULL, NULL, NULL)
  <2>1. k \in HeapType
    BY <1>11 DEF Relinks
  <2> QED BY <1>3, <1>8, <2>1, SetNextIs
<1>13. Relinks(h, g, {b, p, q} \ {NULL})
  <2>1. Relinks(h, g, (({} \cup ({p, q} \ {NULL})) \cup {b}) \cup {b})
    <3>1. Relinks(h, f, {} \cup ({p, q} \ {NULL}))
      BY <1>9, <1>10, RelinksTwice
    <3>2. Relinks(h, k, ({} \cup ({p, q} \ {NULL})) \cup {b})
      BY <3>1, <1>11, RelinksTwice
    <3> QED BY <3>2, <1>12, RelinksTwice
  <2>2. (({} \cup ({p, q} \ {NULL})) \cup {b}) \cup {b} = {b, p, q} \ {NULL}
    BY <1>3
  <2> QED BY <2>1, <2>2
<1>14. g.free_head = n /\ g.free_total = h.free_total - 1
  BY <1>9, <1>10, <1>11, <1>12 DEF Wired
<1>15. ASSUME NEW c \in Spots
       PROVE  /\ NextFree(g, c) = IF c = b THEN NULL ELSE IF c = p THEN q ELSE NextFree(h, c)
              /\ PrevFree(g, c) = IF c = b THEN NULL ELSE IF c = q THEN p ELSE PrevFree(h, c)
  <2>1. /\ NextFree(f, c) = IF c = p THEN q ELSE NextFree(h, c)
        /\ PrevFree(f, c) = IF c = q THEN p ELSE PrevFree(h, c)
    BY <1>9, <1>10 DEF Wired
  <2>2. /\ NextFree(k, c) = NextFree(f, c)
        /\ PrevFree(k, c) = IF c = b THEN NULL ELSE PrevFree(f, c)
    BY <1>3, <1>11 DEF Wired
  <2>3. /\ NextFree(g, c) = IF c = b THEN NULL ELSE NextFree(k, c)
        /\ PrevFree(g, c) = PrevFree(k, c)
    BY <1>3, <1>12 DEF Wired
  <2> QED BY <2>1, <2>2, <2>3
<1> QED BY <1>1, <1>2, <1>4, <1>13, <1>14, <1>15 DEF Cut

\* So the list is that of the others.
LEMMA RemoveIs ==
  ASSUME NEW h \in HeapType, NEW B, NEW F, Listed(h, B, F), NEW b \in F,
         NEW g, g = remove_free_block(h, b)
  PROVE  Relinks(h, g, B) /\ Listed(g, B, F \ {b})
<1>1. F \subseteq B /\ b \in Spots /\ b \in Nat
  BY SpotsFit DEF Listed
<1>2. IsNext(F, b, NextFree(h, b)) /\ IsPrev(F, b, PrevFree(h, b))
  BY DEF Listed, Chained
<1>3. PrevFree(h, b) # b /\ NextFree(h, b) # b
  <2>1. b # NULL /\ ~(b < b) /\ ~(b > b)
    BY <1>1, SpotsFit
  <2> QED BY <1>2, <2>1 DEF IsNext, IsPrev
<1>4. Relinks(h, g, {b, PrevFree(h, b), NextFree(h, b)} \ {NULL}) /\ Cut(h, g, b)
  BY <1>1, <1>3, CutIs
<1>5. {b, PrevFree(h, b), NextFree(h, b)} \ {NULL} \subseteq B
  <2>1. NextFree(h, b) = NULL \/ NextFree(h, b) \in F
    BY <1>2 DEF IsNext
  <2>2. PrevFree(h, b) = NULL \/ PrevFree(h, b) \in F
    BY <1>2 DEF IsPrev
  <2>3. ASSUME NEW x \in {b, PrevFree(h, b), NextFree(h, b)} \ {NULL} PROVE x \in F
    BY <2>1, <2>2
  <2> QED BY <1>1, <2>3
<1> QED BY <1>4, <1>5, RelinksMore, CutList

\* When the block before has been linked to the one after already, as
\* merge_free_free does, it comes to the same.
MergedList(h, a, b) == remove_free_block(Skip(h, a, NextFree(h, b)), b)
\* merge_free_free takes the second of two neighbours out of the list, though
\* it links the first past it before remove_free_block does.
LEMMA MergedListIs ==
  ASSUME NEW h \in HeapType, NEW B, NEW F, Listed(h, B, F), NEW a \in F, NEW b \in F,
         a < b, \A c \in F : c <= a \/ c >= b, NEW g, g = MergedList(h, a, b)
  PROVE  Relinks(h, g, B) /\ Listed(g, B, F \ {b})
<1>1. /\ F \subseteq B /\ B \subseteq Spots /\ a \in Spots /\ b \in Spots /\ a \in Nat /\ b \in Nat
      /\ \A c \in Spots : c \in Nat /\ c # NULL
  BY SpotsFit DEF Listed
<1>2. IsNext(F, b, NextFree(h, b)) /\ IsPrev(F, b, PrevFree(h, b))
  BY DEF Listed, Chained
<1>3. PrevFree(h, b) = a
  <2>1. ~(a >= b)
    BY <1>1
  <2>2. PrevFree(h, b) \in F /\ PrevFree(h, b) < b /\ \A c \in F : c >= b \/ c <= PrevFree(h, b)
    BY <1>2, <2>1 DEF IsPrev
  <2> PICK p : p = PrevFree(h, b)
    OBVIOUS
  <2>3. p \in F /\ p < b /\ (a >= b \/ a <= p) /\ (p <= a \/ p >= b)
    BY <2>2
  <2>4. p \in Nat
    BY <1>1, <2>3
  <2>5. p = a
    BY <1>1, <2>1, <2>3, <2>4
  <2> QED BY <2>5
<1>4. PICK q : q = NextFree(h, b)
  OBVIOUS
<1>5. q = NULL \/ (q \in F /\ q > b)
  BY <1>2, <1>4 DEF IsNext
<1>6. q \in Spots \cup {NULL} /\ q # b /\ q # a /\ a # b
  <2>1. CASE q = NULL
    BY <1>1, <2>1
  <2>2. CASE q \in F /\ q > b
    <3>1. q \in Nat /\ q \in Spots
      BY <1>1, <2>2
    <3> QED BY <1>1, <2>2, <3>1
  <2> QED BY <1>5, <2>1, <2>2
<1>7. PICK e : e = Skip(h, a, q)
  OBVIOUS
<1>8. Relinks(h, e, {a, q} \ {NULL}) /\ Wired(h, e, a, q, q, a)
  BY <1>1, <1>6, <1>7, SkipIs
<1>9. e \in HeapType /\ PrevFree(e, b) = a /\ NextFree(e, b) = q
  BY <1>1, <1>3, <1>4, <1>6, <1>8 DEF Relinks, Wired
<1>10. g = remove_free_block(e, b)
  BY <1>4, <1>7 DEF MergedList
<1>11. Relinks(e, g, {b, a, q} \ {NULL}) /\ Cut(e, g, b)
  <2>1. PrevFree(e, b) # b /\ NextFree(e, b) # b
    BY <1>6, <1>9
  <2>2. Relinks(e, g, {b, PrevFree(e, b), NextFree(e, b)} \ {NULL}) /\ Cut(e, g, b)
    BY <1>1, <1>9, <1>10, <2>1, CutIs
  <2> QED BY <1>9, <2>2
<1>12. Cut(h, g, b)
  <2>1. g.free_head = (IF h.free_head = b THEN q ELSE h.free_head) /\ g.free_total = h.free_total - 1
    BY <1>8, <1>9, <1>11 DEF Wired, Cut
  <2>2. ASSUME NEW c \in Spots
        PROVE  /\ NextFree(g, c) = IF c = b THEN NULL ELSE IF c = a THEN q ELSE NextFree(h, c)
               /\ PrevFree(g, c) = IF c = b THEN NULL ELSE IF c = q THEN a ELSE PrevFree(h, c)
    <3>1. /\ NextFree(e, c) = IF c = a THEN q ELSE NextFree(h, c)
          /\ PrevFree(e, c) = IF c = q THEN a ELSE PrevFree(h, c)
      BY <1>8 DEF Wired
    <3>2. /\ NextFree(g, c) = IF c = b THEN NULL ELSE IF c = a THEN q ELSE NextFree(e, c)
          /\ PrevFree(g, c) = IF c = b THEN NULL ELSE IF c = q THEN a ELSE PrevFree(e, c)
      BY <1>9, <1>11 DEF Cut
    <3> QED BY <3>1, <3>2
  <2> QED BY <1>3, <1>4, <2>1, <2>2 DEF Cut
<1>13. Relinks(h, g, B)
  <2>1. Relinks(h, g, ({a, q} \ {NULL}) \cup ({b, a, q} \ {NULL}))
    BY <1>8, <1>11, RelinksTwice
  <2>2. ({a, q} \ {NULL}) \cup ({b, a, q} \ {NULL}) \subseteq B
    BY <1>1, <1>5
  <2> QED BY <2>1, <2>2, RelinksMore
<1> QED BY <1>12, <1>13, CutList

-----------------------------------------------------------------------------
\* Each block has a header and a tag that says the same.
Marked(h, B) == \A b \in B :
    /\ h.mem[b].is = "head" /\ h.mem[b + 1].is = "links"
    /\ h.mem[get_next_block(h, b) - 1] = Tag(UserSize(h, b))

Body(h, B) == h \in HeapType /\ Bounded(h) /\ Tiles(h, B) /\ Marked(h, B)

\* What a block in use is to keep: its size and what its user has in it.
Spared(h, g, b) ==
    /\ UserSize(g, b) = UserSize(h, b)
    /\ \A k \in Addresses : b + BLOCK_SIZE <= k /\ k < b + BLOCK_SIZE + UserSize(h, b)
                            => g.mem[k] = h.mem[k]

\* A block that is altogether the same.
Same(h, g, b) ==
    /\ Spared(h, g, b) /\ get_next_block(g, b) = get_next_block(h, b)
    /\ NextFree(g, b) = NextFree(h, b) /\ PrevFree(g, b) = PrevFree(h, b)
    /\ IsFree(g, b) = IsFree(h, b)
    /\ g.mem[b].is = h.mem[b].is /\ g.mem[b + 1].is = h.mem[b + 1].is
    /\ g.mem[get_next_block(h, b) - 1] = h.mem[get_next_block(h, b) - 1]

\* Memory outside of K stays.
Touches(h, g, K) ==
    /\ g \in HeapType /\ g.end = h.end /\ g.heap_size = h.heap_size
    /\ g.free_head = h.free_head /\ g.free_total = h.free_total
    /\ \A k \in Addresses \ K : g.mem[k] = h.mem[k]

\* A block outside of what is written to is the same.
LEMMA Untouched ==
  ASSUME NEW h \in HeapType, NEW g, NEW K, Touches(h, g, K), NEW c \in Spots,
         get_next_block(h, c) <= Limit, \A k \in K : k < c \/ k >= get_next_block(h, c)
  PROVE  Same(h, g, c)
<1>1. PICK n : n = UserSize(h, c)
  OBVIOUS
<1>2. /\ n \in Nat /\ c \in Nat /\ get_next_block(h, c) = c + n + 3
      /\ c + n + 3 <= Limit
  BY <1>1, LinkTypes, SpotsFit DEF get_next_block, META_DATA_SIZE
<1>3. \A k \in Addresses : c <= k /\ k < c + n + 3 => g.mem[k] = h.mem[k]
  <2>1. SUFFICES ASSUME NEW k \in Addresses, c <= k, k < c + n + 3
                 PROVE  k \notin K
    BY DEF Touches
  <2>2. k \in Int
    BY DEF Addresses
  <2> QED BY <1>2, <2>1, <2>2
<1>4. g.mem[c] = h.mem[c] /\ g.mem[c + 1] = h.mem[c + 1] /\ g.mem[c + n + 2] = h.mem[c + n + 2]
  <2>1. /\ c \in Addresses /\ c + 1 \in Addresses /\ c + n + 2 \in Addresses
        /\ c <= c /\ c <= c + 1 /\ c <= c + n + 2
        /\ c < c + n + 3 /\ c + 1 < c + n + 3 /\ c + n + 2 < c + n + 3
    BY <1>2 DEF Addresses
  <2> QED BY <1>3, <2>1
<1>5. UserSize(g, c) = n /\ get_next_block(g, c) = c + n + 3
  BY <1>1, <1>4 DEF UserSize, get_next_block, META_DATA_SIZE
<1>6. \A k \in Addresses : c + 2 <= k /\ k < c + 2 + n => g.mem[k] = h.mem[k]
  <2>1. \A k \in Addresses : c + 2 <= k /\ k < c + 2 + n => c <= k /\ k < c + n + 3
    BY <1>2 DEF Addresses
  <2> QED BY <1>3, <2>1
<1>7. (c + n + 3) - 1 = c + n + 2
  BY <1>2
<1>8. Spared(h, g, c)
  BY <1>1, <1>5, <1>6 DEF Spared, BLOCK_SIZE
<1> QED BY <1>1, <1>2, <1>4, <1>5, <1>7, <1>8 DEF Same, NextFree, PrevFree, IsFree

\* No header is in another block's memory or tag.
LEMMA BlocksApart ==
  ASSUME NEW h, NEW B, Body(h, B), NEW b \in B, NEW c \in B, NEW k \in Int,
         b + 2 <= k, k < get_next_block(h, b)
  PROVE  k \in Addresses /\ k # c /\ k # c + 1
<1>1. /\ b \in Nat /\ c \in Nat /\ UserSize(h, b) \in Nat /\ UserSize(h, c) \in Nat
      /\ get_next_block(h, b) = b + UserSize(h, b) + 3
      /\ get_next_block(h, c) = c + UserSize(h, c) + 3
      /\ get_next_block(h, b) <= h.end /\ h.end \in Nat /\ h.end < Limit
  BY BlocksFit DEF Body
<1>2. (b < c => get_next_block(h, b) <= c) /\ (c < b => get_next_block(h, c) <= b)
  BY DEF Body, Tiles
<1>3. k \in Addresses
  BY <1>1 DEF Addresses
<1> QED BY <1>1, <1>2, <1>3

\* Writing links of blocks leaves the blocks as they are.
LEMMA RelinksBody ==
  ASSUME NEW h, NEW B, Body(h, B), NEW g, Relinks(h, g, B)
  PROVE  /\ Body(g, B)
         /\ \A b \in B : Spared(h, g, b) /\ IsFree(g, b) = IsFree(h, b)
                         /\ get_next_block(g, b) = get_next_block(h, b)
<1>0. h \in HeapType /\ g \in HeapType /\ g.end = h.end /\ g.heap_size = h.heap_size
      /\ Tiles(h, B) /\ Bounded(h) /\ Marked(h, B)
  BY DEF Relinks, Body
<1>1. ASSUME NEW b \in B
      PROVE  /\ Spared(h, g, b) /\ IsFree(g, b) = IsFree(h, b) /\ UserSize(g, b) = UserSize(h, b)
             /\ get_next_block(g, b) = get_next_block(h, b)
             /\ g.mem[b].is = "head" /\ g.mem[b + 1].is = "links"
             /\ g.mem[get_next_block(g, b) - 1] = Tag(UserSize(g, b))
  <2>1. /\ b \in Nat /\ b \in Spots /\ UserSize(h, b) \in Nat
        /\ get_next_block(h, b) = b + UserSize(h, b) + 3
    BY <1>0, BlocksFit
  <2>2. /\ IsFree(g, b) = IsFree(h, b) /\ UserSize(g, b) = UserSize(h, b)
        /\ get_next_block(g, b) = get_next_block(h, b)
    BY <1>0, <2>1, RelinksKeeps
  <2>3. \A k \in Int : b + 2 <= k /\ k < get_next_block(h, b) => g.mem[k] = h.mem[k]
    <3>1. SUFFICES ASSUME NEW k \in Int, b + 2 <= k, k < get_next_block(h, b)
                   PROVE  g.mem[k] = h.mem[k]
      OBVIOUS
    <3>2. k \in Addresses /\ \A c \in B : k # c /\ k # c + 1
      BY <3>1, BlocksApart
    <3> QED BY <3>2 DEF Relinks
  <2>4. g.mem[get_next_block(h, b) - 1] = h.mem[get_next_block(h, b) - 1]
    <3>1. PICK k : k = get_next_block(h, b) - 1
      OBVIOUS
    <3>2. k \in Int /\ b + 2 <= k /\ k < get_next_block(h, b)
      BY <2>1, <3>1
    <3> QED BY <2>3, <3>1, <3>2
  <2>5. Spared(h, g, b)
    <3>1. \A k \in Addresses : k \in Int /\ (k < b + 2 + UserSize(h, b) => k < get_next_block(h, b))
      BY <2>1 DEF Addresses
    <3> QED BY <2>2, <2>3, <3>1 DEF Spared, BLOCK_SIZE
  <2>6. g.mem[b].is = "head" /\ g.mem[b + 1].is = "links"
    <3>1. b \in Addresses /\ b + 1 \in Addresses
      BY <2>1, SpotsFit
    <3> QED BY <1>0, <3>1 DEF Relinks, Marked
  <2> QED BY <1>0, <2>2, <2>4, <2>5, <2>6 DEF Marked
<1>2. Bounded(g)
  BY <1>0 DEF Bounded
<1>3. Tiles(g, B)
  BY <1>0, <1>1 DEF Tiles
<1>4. Marked(g, B)
  BY <1>1 DEF Marked
<1> QED BY <1>0, <1>1, <1>2, <1>3, <1>4 DEF Body

\* The cells that are written into memory are cells.
LEMMA WrittenCells ==
  ASSUME NEW n \in Nat, NEW v \in BOOLEAN, NEW x \in Cell
  PROVE  /\ Tag(n) \in Cell /\ [Raw EXCEPT !.is = "head", !.free = v] \in Cell
         /\ [x EXCEPT !.size = n] \in Cell /\ [Raw EXCEPT !.is = "links"] \in Cell
         /\ [x EXCEPT !.free = v] \in Cell
<1>1. Raw \in Cell
  BY DEF Cell, Raw
<1>2. Tag(n) \in Cell
  <2>1. \A r \in Cell : [r EXCEPT !.is = "tag", !.size = n] \in Cell
    BY DEF Cell
  <2> QED BY <1>1, <2>1 DEF Tag
<1>3. [Raw EXCEPT !.is = "head", !.free = v] \in Cell
  <2>1. \A r \in Cell : [r EXCEPT !.is = "head", !.free = v] \in Cell
    BY DEF Cell
  <2> QED BY <1>1, <2>1
<1>4. [Raw EXCEPT !.is = "links"] \in Cell
  <2>1. \A r \in Cell : [r EXCEPT !.is = "links"] \in Cell
    BY DEF Cell
  <2> QED BY <1>1, <2>1
<1>5. [x EXCEPT !.size = n] \in Cell
  BY DEF Cell
<1>6. [x EXCEPT !.free = v] \in Cell
  BY DEF Cell
<1> QED BY <1>2, <1>3, <1>4, <1>5, <1>6

\* What changes when one cell is written.
Written(h, a, x) == [h EXCEPT !.mem[a] = x]
\* Writing one unit touches only that.
LEMMA WrittenIs ==
  ASSUME NEW h \in HeapType, NEW a \in Addresses, NEW x \in Cell, NEW g, g = Written(h, a, x)
  PROVE  Touches(h, g, {a}) /\ g.mem[a] = x
<1>1. PICK m : m = [h.mem EXCEPT ![a] = x]
  OBVIOUS
<1>2. h.mem \in [Addresses -> Cell]
  BY DEF HeapType
<1>3. m \in [Addresses -> Cell] /\ m[a] = x /\ \A k \in Addresses \ {a} : m[k] = h.mem[k]
  BY <1>1, <1>2
<1>4. g = [h EXCEPT !.mem = m]
  BY <1>1 DEF Written
<1> QED BY <1>3, <1>4 DEF HeapType, Touches

\* Two writes touch what either touches.
LEMMA TouchesTwice ==
  ASSUME NEW h, NEW g, NEW e, NEW K, NEW L, Touches(h, g, K), Touches(g, e, L)
  PROVE  Touches(h, e, K \cup L)
BY DEF Touches

\* A block's size is written at two places.
LEMMA SetSizeIs ==
  ASSUME NEW h \in HeapType, NEW b \in Spots, NEW n \in Nat, b + 2 + n < Limit,
         NEW g, g = SetSize(h, b, n)
  PROVE  /\ Touches(h, g, {b + 1, b + 2 + n}) /\ g.mem[b + 2 + n] = Tag(n)
         /\ g.mem[b + 1] = [h.mem[b + 1] EXCEPT !.size = n]
<1>1. PICK x : x = [h.mem[b + 1] EXCEPT !.size = n]
  OBVIOUS
<1>2. /\ b \in Nat /\ b + 1 \in Addresses /\ b + 2 + n \in Addresses /\ b + 2 + n # b + 1
      /\ b + BLOCK_SIZE + n = b + 2 + n
  BY SpotsFit DEF Addresses, BLOCK_SIZE
<1>3. x \in Cell /\ Tag(n) \in Cell
  <2>1. h.mem[b + 1] \in Cell
    BY <1>2 DEF HeapType
  <2> QED BY <1>1, <2>1, WrittenCells
<1>4. PICK e : e = Written(h, b + 1, x)
  OBVIOUS
<1>5. g = Written(e, b + 2 + n, Tag(n))
  <2>1. e = [h EXCEPT !.mem[b + 1].size = n]
    BY <1>1, <1>4 DEF Written
  <2> QED BY <1>2, <2>1 DEF Written, SetSize
<1>6. Touches(h, e, {b + 1}) /\ e.mem[b + 1] = x
  BY <1>2, <1>3, <1>4, WrittenIs
<1>7. Touches(e, g, {b + 2 + n}) /\ g.mem[b + 2 + n] = Tag(n)
  <2>1. e \in HeapType
    BY <1>6 DEF Touches
  <2> QED BY <1>2, <1>3, <1>5, <2>1, WrittenIs
<1>8. g.mem[b + 1] = x
  BY <1>2, <1>6, <1>7 DEF Touches
<1>9. Touches(h, g, {b + 1} \cup {b + 2 + n})
  BY <1>6, <1>7, TouchesTwice
<1>10. {b + 1} \cup {b + 2 + n} = {b + 1, b + 2 + n}
  OBVIOUS
<1> QED BY <1>1, <1>7, <1>8, <1>9, <1>10

\* A new header and its tag.
HeaderWritten(h, g, b, v, n) ==
    /\ Touches(h, g, {b, b + 1, b + 2 + n})
    /\ UserSize(g, b) = n /\ IsFree(g, b) = v /\ NextFree(g, b) = NULL /\ PrevFree(g, b) = NULL
    /\ g.mem[b].is = "head" /\ g.mem[b + 1].is = "links" /\ g.mem[b + 2 + n] = Tag(n)
\* A header and a tag, and nothing else, are written.
LEMMA WriteHeaderIs ==
  ASSUME NEW h \in HeapType, NEW b \in Spots, NEW n \in Nat, b + 2 + n < Limit,
         NEW v \in BOOLEAN, NEW g, g = WriteHeader(h, b, v, n)
  PROVE  HeaderWritten(h, g, b, v, n)
<1>1. PICK x : x = [Raw EXCEPT !.is = "head", !.free = v]
  OBVIOUS
<1>2. PICK y : y = [Raw EXCEPT !.is = "links"]
  OBVIOUS
<1>3. b \in Nat /\ b \in Addresses /\ b + 1 \in Addresses /\ b # b + 1
      /\ b + 2 + n # b /\ b + 2 + n # b + 1
  BY SpotsFit
<1>4. /\ x \in Cell /\ y \in Cell
      /\ x.is = "head" /\ x.free = v /\ x.prev = NULL
      /\ y.is = "links" /\ y.next = NULL
  <2>1. h.mem[b] \in Cell
    BY <1>3 DEF HeapType
  <2>2. x \in Cell /\ y \in Cell
    BY <1>1, <1>2, <2>1, WrittenCells
  <2>3. x.is = "head" /\ x.free = v /\ x.prev = NULL
    BY <1>1 DEF Raw
  <2>4. y.is = "links" /\ y.next = NULL
    BY <1>2 DEF Raw
  <2> QED BY <2>2, <2>3, <2>4
<1>5. PICK e : e = Written(h, b, x)
  OBVIOUS
<1>6. PICK f : f = Written(e, b + 1, y)
  OBVIOUS
<1>7. g = SetSize(f, b, n)
  <2>1. f = [h EXCEPT !.mem[b] = x, !.mem[b + 1] = y]
    BY <1>5, <1>6 DEF Written
  <2> QED BY <1>1, <1>2, <2>1 DEF WriteHeader
<1>8. Touches(h, e, {b}) /\ e.mem[b] = x
  BY <1>3, <1>4, <1>5, WrittenIs
<1>9. Touches(e, f, {b + 1}) /\ f.mem[b + 1] = y
  <2>1. e \in HeapType
    BY <1>8 DEF Touches
  <2> QED BY <1>3, <1>4, <1>6, <2>1, WrittenIs
<1>10. /\ Touches(f, g, {b + 1, b + 2 + n}) /\ g.mem[b + 2 + n] = Tag(n)
       /\ g.mem[b + 1] = [f.mem[b + 1] EXCEPT !.size = n]
  <2>1. f \in HeapType
    BY <1>9 DEF Touches
  <2> QED BY <1>7, <2>1, SetSizeIs
<1>11. g.mem[b] = x
  BY <1>3, <1>8, <1>9, <1>10 DEF Touches
<1>12. g.mem[b + 1].is = "links" /\ g.mem[b + 1].next = NULL /\ g.mem[b + 1].size = n
  BY <1>4, <1>9, <1>10 DEF Cell
<1>13. Touches(h, g, {b, b + 1, b + 2 + n})
  <2>1. Touches(h, g, ({b} \cup {b + 1}) \cup {b + 1, b + 2 + n})
    <3>1. Touches(h, f, {b} \cup {b + 1})
      BY <1>8, <1>9, TouchesTwice
    <3> QED BY <3>1, <1>10, TouchesTwice
  <2>2. ({b} \cup {b + 1}) \cup {b + 1, b + 2 + n} = {b, b + 1, b + 2 + n}
    OBVIOUS
  <2> QED BY <2>1, <2>2
<1> QED BY <1>4, <1>10, <1>11, <1>12, <1>13 DEF HeaderWritten, UserSize, IsFree, NextFree, PrevFree

\* A block is marked free, or in use.
SetFree(h, b, v) == [h EXCEPT !.mem[b].free = v]
\* Marking a block touches its first unit.
LEMMA SetFreeIs ==
  ASSUME NEW h \in HeapType, NEW b \in Spots, NEW v \in BOOLEAN, NEW g, g = SetFree(h, b, v)
  PROVE  Touches(h, g, {b}) /\ g.mem[b] = [h.mem[b] EXCEPT !.free = v]
<1>1. b \in Addresses
  BY SpotsFit
<1>2. [h.mem[b] EXCEPT !.free = v] \in Cell
  <2>1. h.mem[b] \in Cell
    BY <1>1 DEF HeapType
  <2> QED BY <2>1, WrittenCells
<1>3. g = Written(h, b, [h.mem[b] EXCEPT !.free = v])
  BY DEF SetFree, Written
<1> QED BY <1>1, <1>2, <1>3, WrittenIs

\* The links of the blocks of S, and the list's head and length, are the same.
SameLinks(h, g, S) ==
    /\ g.free_head = h.free_head /\ g.free_total = h.free_total
    /\ \A c \in S : NextFree(g, c) = NextFree(h, c) /\ PrevFree(g, c) = PrevFree(h, c)

\* The list is the same when no link of its blocks changes.
LEMMA ListedStill ==
  ASSUME NEW h, NEW g, NEW B, NEW F, Listed(h, B, F), NEW C, C \subseteq Spots, F \subseteq C,
         SameLinks(h, g, B \cap C),
         \A c \in C \ B : NextFree(g, c) = NULL /\ PrevFree(g, c) = NULL
  PROVE  Listed(g, C, F)
<1>1. F \subseteq B \cap C
  BY DEF Listed
<1>2. Chained(g, F)
  <2>1. F \subseteq Spots /\ IsNext(F, NULL, h.free_head)
    BY DEF Listed, Chained
  <2>2. g.free_head = h.free_head
    BY DEF SameLinks
  <2>3. ASSUME NEW b \in F PROVE IsNext(F, b, NextFree(g, b)) /\ IsPrev(F, b, PrevFree(g, b))
    <3>1. IsNext(F, b, NextFree(h, b)) /\ IsPrev(F, b, PrevFree(h, b))
      BY DEF Listed, Chained
    <3>2. NextFree(g, b) = NextFree(h, b) /\ PrevFree(g, b) = PrevFree(h, b)
      BY <1>1 DEF SameLinks
    <3> QED BY <3>1, <3>2
  <2> QED BY <2>1, <2>2, <2>3 DEF Chained
<1>3. ASSUME NEW c \in C \ F PROVE NextFree(g, c) = NULL /\ PrevFree(g, c) = NULL
  <2>1. CASE c \in B
    BY <2>1 DEF Listed, SameLinks
  <2>2. CASE c \notin B
    BY <2>2
  <2> QED BY <2>1, <2>2
<1>4. g.free_total = Cardinality(F)
  BY DEF Listed, SameLinks
<1> QED BY <1>2, <1>3, <1>4 DEF Listed

\* A block takes in the one after it.
Merging(h, g, B, a, b) ==
    /\ Body(g, B \ {b}) /\ \A c \in B \ {a, b} : Same(h, g, c)
    /\ SameLinks(h, g, B \ {b}) /\ IsFree(g, a) = IsFree(h, a)
    /\ UserSize(g, a) = UserSize(h, a) + UserSize(h, b) + META_DATA_SIZE
    /\ get_next_block(g, a) = get_next_block(h, b)
    /\ \A k \in Addresses : a + BLOCK_SIZE <= k /\ k < a + BLOCK_SIZE + UserSize(h, a)
                            => g.mem[k] = h.mem[k]

\* Enlarging a block by the one behind it makes one block of the two.
LEMMA MergingIs ==
  ASSUME NEW h, NEW B, Body(h, B), NEW a \in B, NEW b \in B, get_next_block(h, a) = b,
         NEW g, g = SetSize(h, a, UserSize(h, a) + UserSize(h, b) + META_DATA_SIZE)
  PROVE  Merging(h, g, B, a, b)
<1>0. h \in HeapType /\ Tiles(h, B) /\ Bounded(h) /\ Marked(h, B)
  BY DEF Body
<1>1. PICK m : m = UserSize(h, a)
  OBVIOUS
<1>2. PICK l : l = UserSize(h, b)
  OBVIOUS
<1>3. PICK n : n = m + l + 3
  OBVIOUS
<1>4. /\ a \in Nat /\ b \in Nat /\ m \in Nat /\ l \in Nat /\ n \in Nat
      /\ a \in Spots /\ b \in Spots /\ b = a + m + 3 /\ get_next_block(h, b) = a + n + 3
      /\ h.end \in Nat /\ h.end < Limit /\ a + n + 3 <= h.end /\ a < h.end
  <2>1. /\ a \in Nat /\ a \in Spots /\ m \in Nat /\ get_next_block(h, a) = a + m + 3 /\ a < h.end
    BY <1>0, <1>1, BlocksFit
  <2>2. /\ b \in Nat /\ b \in Spots /\ l \in Nat /\ get_next_block(h, b) = b + l + 3
        /\ get_next_block(h, b) <= h.end /\ h.end \in Nat /\ h.end < Limit
    BY <1>0, <1>2, BlocksFit
  <2>3. b = a + m + 3
    BY <2>1
  <2> QED BY <1>3, <2>1, <2>2, <2>3
<1>5. /\ Touches(h, g, {a + 1, a + 2 + n}) /\ g.mem[a + 2 + n] = Tag(n)
      /\ g.mem[a + 1] = [h.mem[a + 1] EXCEPT !.size = n]
  <2>1. g = SetSize(h, a, n) /\ a + 2 + n < Limit
    BY <1>1, <1>2, <1>3, <1>4 DEF META_DATA_SIZE
  <2> QED BY <1>0, <1>4, <2>1, SetSizeIs
<1>6. ASSUME NEW c \in B \ {a, b}
      PROVE  Same(h, g, c) /\ c \in Nat /\ get_next_block(h, c) # b
  <2>1. /\ c \in Nat /\ c \in Spots /\ get_next_block(h, c) \in Nat
        /\ get_next_block(h, c) <= h.end /\ get_next_block(h, c) > c
    BY <1>0, BlocksFit
  <2>2. c < a => get_next_block(h, c) <= a
    BY <1>0 DEF Tiles
  <2>3. c > a => c >= b
    BY <1>0, <1>4, <2>1 DEF Tiles
  <2>4. c > b => c >= get_next_block(h, b)
    BY <1>0, <1>4, <2>1 DEF Tiles
  <2>5. c < a \/ c > b
    BY <1>4, <2>1, <2>3
  <2>6. \A k \in {a + 1, a + 2 + n} : k < c \/ k >= get_next_block(h, c)
    BY <1>4, <2>1, <2>2, <2>4, <2>5
  <2>7. get_next_block(h, c) <= Limit
    BY <1>4, <2>1
  <2>8. Same(h, g, c)
    BY <1>0, <1>5, <2>1, <2>6, <2>7, Untouched
  <2>9. get_next_block(h, c) # b
    BY <1>4, <2>1, <2>2, <2>5
  <2> QED BY <2>1, <2>8, <2>9
<1>7. /\ UserSize(g, a) = n /\ get_next_block(g, a) = a + n + 3
      /\ NextFree(g, a) = NextFree(h, a) /\ PrevFree(g, a) = PrevFree(h, a)
      /\ IsFree(g, a) = IsFree(h, a) /\ g.mem[a].is = "head" /\ g.mem[a + 1].is = "links"
  <2>1. h.mem[a + 1] \in Cell /\ a \in Addresses /\ a # a + 1 /\ a # a + 2 + n
    BY <1>0, <1>4, SpotsFit DEF HeapType
  <2>2. g.mem[a] = h.mem[a]
    BY <1>5, <2>1 DEF Touches
  <2>3. /\ g.mem[a + 1].size = n /\ g.mem[a + 1].next = h.mem[a + 1].next
        /\ g.mem[a + 1].is = h.mem[a + 1].is
    BY <1>5, <2>1 DEF Cell
  <2>4. UserSize(g, a) = n
    BY <2>3 DEF UserSize
  <2> QED BY <1>0, <2>2, <2>3, <2>4
          DEF NextFree, PrevFree, IsFree, Marked, get_next_block, META_DATA_SIZE
<1>8. Bounded(g) /\ g \in HeapType
  BY <1>0, <1>5 DEF Touches, Bounded
<1>9. Tiles(g, B \ {b})
  <2>1. B \ {b} \subseteq Nat /\ (g.end > 0 => 0 \in B \ {b})
    BY <1>0, <1>4, <1>5 DEF Tiles, Touches
  <2>2. ASSUME NEW c \in B \ {b}
        PROVE  c < g.end /\ get_next_block(g, c) \in (B \ {b}) \cup {g.end}
    <3>1. c < h.end /\ g.end = h.end
      BY <1>0, <1>5 DEF Tiles, Touches
    <3>2. CASE c = a
      <4>1. get_next_block(h, b) \in B \cup {h.end} /\ a + n + 3 # b
        BY <1>0, <1>3, <1>4 DEF Tiles
      <4> QED BY <1>4, <1>7, <3>1, <3>2, <4>1
    <3>3. CASE c # a
      <4>1. get_next_block(g, c) = get_next_block(h, c) /\ get_next_block(h, c) # b
        BY <1>6, <3>3 DEF Same
      <4>2. get_next_block(h, c) \in B \cup {h.end}
        BY <1>0 DEF Tiles
      <4> QED BY <3>1, <4>1, <4>2
    <3> QED BY <3>2, <3>3
  <2>3. ASSUME NEW c \in B \ {b}, NEW d \in B \ {b}, c < d
        PROVE  get_next_block(g, c) <= d
    <3>1. CASE c = a
      <4>1. d \in Nat /\ d >= b
        BY <1>0, <1>4, <2>3, <3>1 DEF Tiles
      <4>2. b < d
        BY <1>4, <4>1
      <4>3. get_next_block(h, b) <= d
        BY <1>0, <4>2 DEF Tiles
      <4> QED BY <1>4, <1>7, <3>1, <4>3
    <3>2. CASE c # a
      <4>1. get_next_block(g, c) = get_next_block(h, c)
        BY <1>6, <3>2 DEF Same
      <4> QED BY <1>0, <2>3, <4>1 DEF Tiles
    <3> QED BY <3>1, <3>2
  <2> QED BY <2>1, <2>2, <2>3 DEF Tiles
<1>10. Marked(g, B \ {b})
  <2>1. ASSUME NEW c \in B \ {b}
        PROVE  /\ g.mem[c].is = "head" /\ g.mem[c + 1].is = "links"
               /\ g.mem[get_next_block(g, c) - 1] = Tag(UserSize(g, c))
    <3>1. CASE c = a
      <4>1. (a + n + 3) - 1 = a + 2 + n
        BY <1>4
      <4> QED BY <1>5, <1>7, <3>1, <4>1
    <3>2. CASE c # a
      <4>1. Same(h, g, c)
        BY <1>6, <3>2
      <4> QED BY <1>0, <4>1 DEF Same, Spared, Marked
    <3> QED BY <3>1, <3>2
  <2> QED BY <2>1 DEF Marked
<1>11. SameLinks(h, g, B \ {b})
  <2>1. ASSUME NEW c \in B \ {b}
        PROVE  NextFree(g, c) = NextFree(h, c) /\ PrevFree(g, c) = PrevFree(h, c)
    BY <1>6, <1>7 DEF Same
  <2> QED BY <1>5, <2>1 DEF SameLinks, Touches
<1>12. \A k \in Addresses : a + 2 <= k /\ k < a + 2 + m => g.mem[k] = h.mem[k]
  <2>1. \A k \in Addresses : a + 2 <= k /\ k < a + 2 + m => k # a + 1 /\ k # a + 2 + n
    BY <1>3, <1>4 DEF Addresses
  <2> QED BY <1>5, <2>1 DEF Touches
<1>13. Body(g, B \ {b})
  BY <1>8, <1>9, <1>10 DEF Body
<1>14. UserSize(g, a) = UserSize(h, a) + UserSize(h, b) + META_DATA_SIZE
  BY <1>1, <1>2, <1>3, <1>7 DEF META_DATA_SIZE
<1>15. get_next_block(g, a) = get_next_block(h, b)
  BY <1>4, <1>7
<1> QED BY <1>1, <1>6, <1>7, <1>11, <1>12, <1>13, <1>14, <1>15 DEF Merging, BLOCK_SIZE

\* A block is cut in two; the second part is not in the list.
Splitting(h, g, B, b, n, s, v) ==
    /\ Body(g, B \cup {s}) /\ s \notin B /\ s \in Spots /\ s > b
    /\ \A c \in B \ {b} : Same(h, g, c)
    /\ SameLinks(h, g, B) /\ NextFree(g, s) = NULL /\ PrevFree(g, s) = NULL
    /\ UserSize(g, b) = n /\ IsFree(g, b) = IsFree(h, b) /\ IsFree(g, s) = v
    /\ get_next_block(g, b) = s /\ get_next_block(g, s) = get_next_block(h, b)
    /\ g.end = h.end

\* Making a block smaller and writing a header behind it makes two of one.
LEMMA SplittingIs ==
  ASSUME NEW h, NEW B, Body(h, B), NEW b \in B, NEW n \in Nat, NEW l \in Nat,
         UserSize(h, b) = n + l + 3, l > 1, NEW s \in Nat, s = b + n + 3,
         NEW v \in BOOLEAN, NEW g, g = WriteHeader(SetSize(h, b, n), s, v, l)
  PROVE  Splitting(h, g, B, b, n, s, v)
<1>0. h \in HeapType /\ Tiles(h, B) /\ Bounded(h) /\ Marked(h, B)
  BY DEF Body
<1>1. PICK m : m = UserSize(h, b)
  OBVIOUS
<1>3. PICK e : e = SetSize(h, b, n)
  OBVIOUS
<1>4. /\ b \in Nat /\ b \in Spots /\ m \in Nat /\ l \in Nat /\ l > 1 /\ m = n + l + 3
      /\ get_next_block(h, b) = b + m + 3
      /\ h.end \in Nat /\ h.end < Limit /\ b + m + 3 <= h.end /\ b < h.end
  BY <1>0, <1>1, BlocksFit
<1>5. s = b + n + 3 /\ s \in Nat /\ s > b + 2 /\ s < h.end /\ s + l + 3 = b + m + 3
  BY <1>4
<1>6. s \in Spots
  BY <1>4, <1>5 DEF Spots, BLOCK_SIZE
<1>7. /\ Touches(h, e, {b + 1, b + 2 + n}) /\ e.mem[b + 2 + n] = Tag(n)
      /\ e.mem[b + 1] = [h.mem[b + 1] EXCEPT !.size = n]
  <2>1. b + 2 + n < Limit
    BY <1>4
  <2> QED BY <1>0, <1>3, <1>4, <2>1, SetSizeIs
<1>8. /\ Touches(e, g, {s, s + 1, s + 2 + l})
      /\ UserSize(g, s) = l /\ IsFree(g, s) = v /\ NextFree(g, s) = NULL /\ PrevFree(g, s) = NULL
      /\ g.mem[s].is = "head" /\ g.mem[s + 1].is = "links" /\ g.mem[s + 2 + l] = Tag(l)
  <2>1. e \in HeapType
    BY <1>7 DEF Touches
  <2>3. g = WriteHeader(e, s, v, l)
    BY <1>3
  <2>4. s + 2 + l < Limit
    BY <1>4, <1>5
  <2>5. HeaderWritten(e, g, s, v, l)
    BY <1>6, <2>1, <2>3, <2>4, WriteHeaderIs
  <2> QED BY <2>5 DEF HeaderWritten
<1>9. Touches(h, g, {b + 1, b + 2 + n, s, s + 1, s + 2 + l})
  <2>1. Touches(h, g, {b + 1, b + 2 + n} \cup {s, s + 1, s + 2 + l})
    BY <1>7, <1>8, TouchesTwice
  <2>2. {b + 1, b + 2 + n} \cup {s, s + 1, s + 2 + l} = {b + 1, b + 2 + n, s, s + 1, s + 2 + l}
    OBVIOUS
  <2> QED BY <2>1, <2>2
<1>10. /\ g \in HeapType /\ g.end = h.end /\ g.heap_size = h.heap_size
       /\ g.free_head = h.free_head /\ g.free_total = h.free_total
  BY <1>9 DEF Touches
<1>11. ASSUME NEW c \in B \ {b}
       PROVE  Same(h, g, c) /\ c \in Nat /\ (c < b \/ c >= b + m + 3)
  <2>1. /\ c \in Nat /\ c \in Spots /\ get_next_block(h, c) \in Nat
        /\ get_next_block(h, c) <= h.end /\ get_next_block(h, c) > c
    BY <1>0, BlocksFit
  <2>2. c < b => get_next_block(h, c) <= b
    BY <1>0 DEF Tiles
  <2>3. c > b => c >= b + m + 3
    BY <1>0, <1>4, <2>1 DEF Tiles
  <2>4. c < b \/ c >= b + m + 3
    BY <1>4, <2>1, <2>3
  <2>5. \A k \in {b + 1, b + 2 + n, s, s + 1, s + 2 + l} : k < c \/ k >= get_next_block(h, c)
    BY <1>4, <1>5, <2>1, <2>2, <2>4
  <2>6. get_next_block(h, c) <= Limit
    BY <1>4, <2>1
  <2>7. Same(h, g, c)
    BY <1>0, <1>9, <2>1, <2>5, <2>6, Untouched
  <2> QED BY <2>1, <2>4, <2>7
<1>12. s \notin B
  BY <1>4, <1>5, <1>11
<1>13. /\ UserSize(g, b) = n /\ get_next_block(g, b) = s
       /\ NextFree(g, b) = NextFree(h, b) /\ PrevFree(g, b) = PrevFree(h, b)
       /\ IsFree(g, b) = IsFree(h, b) /\ g.mem[b].is = "head" /\ g.mem[b + 1].is = "links"
       /\ g.mem[get_next_block(g, b) - 1] = Tag(n)
  <2>1. /\ h.mem[b + 1] \in Cell /\ b \in Addresses /\ b + 1 \in Addresses /\ b + 2 + n \in Addresses
        /\ b \notin {b + 1, b + 2 + n, s, s + 1, s + 2 + l}
        /\ b + 1 \notin {s, s + 1, s + 2 + l} /\ b + 2 + n \notin {s, s + 1, s + 2 + l}
    BY <1>0, <1>4, <1>5, SpotsFit DEF HeapType, Addresses
  <2>2. g.mem[b] = h.mem[b] /\ g.mem[b + 1] = e.mem[b + 1] /\ g.mem[b + 2 + n] = e.mem[b + 2 + n]
    BY <1>8, <1>9, <2>1 DEF Touches
  <2>3. /\ g.mem[b + 1].size = n /\ g.mem[b + 1].next = h.mem[b + 1].next
        /\ g.mem[b + 1].is = h.mem[b + 1].is
    BY <1>7, <2>1, <2>2 DEF Cell
  <2>4. UserSize(g, b) = n /\ get_next_block(g, b) = s
    BY <1>4, <1>5, <2>3 DEF UserSize, get_next_block, META_DATA_SIZE
  <2>5. s - 1 = b + 2 + n
    BY <1>4, <1>5
  <2> QED BY <1>0, <1>7, <2>2, <2>3, <2>4, <2>5 DEF NextFree, PrevFree, IsFree, Marked
<1>14. get_next_block(g, s) = b + m + 3
  BY <1>5, <1>8 DEF get_next_block, META_DATA_SIZE
<1>15. Tiles(g, B \cup {s})
  <2>1. B \cup {s} \subseteq Nat /\ (g.end > 0 => 0 \in B \cup {s})
    BY <1>0, <1>5, <1>10 DEF Tiles
  <2>2. ASSUME NEW c \in B \cup {s}
        PROVE  c < g.end /\ get_next_block(g, c) \in (B \cup {s}) \cup {g.end}
    <3>1. CASE c = b
      BY <1>4, <1>10, <1>13, <3>1
    <3>2. CASE c = s
      BY <1>0, <1>4, <1>5, <1>10, <1>14, <3>2 DEF Tiles
    <3>3. CASE c # b /\ c # s
      BY <1>0, <1>10, <1>11, <3>3 DEF Tiles, Same
    <3> QED BY <3>1, <3>2, <3>3
  <2>3. ASSUME NEW c \in B \cup {s}, NEW d \in B \cup {s}, c < d
        PROVE  get_next_block(g, c) <= d
    <3>0. \A x \in B : x \in Nat
      BY <1>0 DEF Tiles
    <3>1. CASE c = b
      <4>1. CASE d = s
        BY <1>5, <1>13, <3>1, <4>1
      <4>2. CASE d \in B \ {b}
        BY <1>4, <1>5, <1>11, <1>13, <2>3, <3>1, <4>2
      <4> QED BY <1>4, <2>3, <3>1, <4>1, <4>2
    <3>2. CASE c = s
      <4>1. d \in B \ {b}
        BY <1>4, <1>5, <2>3, <3>2
      <4>2. d >= b + m + 3
        BY <1>4, <1>5, <1>11, <2>3, <3>2, <4>1
      <4> QED BY <1>14, <3>2, <4>2
    <3>3. CASE c \in B \ {b}
      <4>1. get_next_block(g, c) = get_next_block(h, c) /\ c \in Nat
        BY <1>11, <3>3 DEF Same
      <4>2. CASE d \in B
        BY <1>0, <2>3, <3>3, <4>1, <4>2 DEF Tiles
      <4>3. CASE d = s
        <5>1. c < b
          BY <1>4, <1>5, <1>11, <2>3, <3>3, <4>3
        <5>2. get_next_block(h, c) <= b
          BY <1>0, <3>3, <5>1 DEF Tiles
        <5>3. get_next_block(h, c) \in Nat
          BY <1>0, <3>3, BlocksFit
        <5> QED BY <1>4, <1>5, <4>1, <4>3, <5>2, <5>3
      <4> QED BY <4>2, <4>3
    <3> QED BY <3>1, <3>2, <3>3
  <2> QED BY <2>1, <2>2, <2>3 DEF Tiles
<1>16. Marked(g, B \cup {s})
  <2>1. ASSUME NEW c \in B \cup {s}
        PROVE  /\ g.mem[c].is = "head" /\ g.mem[c + 1].is = "links"
               /\ g.mem[get_next_block(g, c) - 1] = Tag(UserSize(g, c))
    <3>1. CASE c = b
      BY <1>13, <3>1
    <3>2. CASE c = s
      <4>1. get_next_block(g, s) - 1 = s + 2 + l
        BY <1>4, <1>5, <1>14
      <4> QED BY <1>8, <3>2, <4>1
    <3>3. CASE c \in B \ {b}
      <4>1. Same(h, g, c)
        BY <1>11, <3>3
      <4> QED BY <1>0, <3>3, <4>1 DEF Same, Spared, Marked
    <3> QED BY <3>1, <3>2, <3>3
  <2> QED BY <2>1 DEF Marked
<1>17. SameLinks(h, g, B)
  <2>1. ASSUME NEW c \in B
        PROVE  NextFree(g, c) = NextFree(h, c) /\ PrevFree(g, c) = PrevFree(h, c)
    BY <1>11, <1>13 DEF Same
  <2> QED BY <1>10, <2>1 DEF SameLinks
<1>18. Body(g, B \cup {s})
  BY <1>0, <1>10, <1>15, <1>16 DEF Body, Bounded
<1>19. s > b /\ get_next_block(g, s) = get_next_block(h, b)
  BY <1>4, <1>5, <1>14
<1> QED BY <1>6, <1>8, <1>10, <1>11, <1>12, <1>13, <1>17, <1>18, <1>19 DEF Splitting

\* A block in use is put at the heap's end.
Extend(h, n) == [WriteHeader(h, h.end, FALSE, n) EXCEPT !.end = h.end + (n + META_DATA_SIZE)]
Extending(h, g, B, n) ==
    /\ Body(g, B \cup {h.end}) /\ h.end \notin B /\ h.end \in Spots
    /\ \A c \in B : Same(h, g, c)
    /\ SameLinks(h, g, B) /\ NextFree(g, h.end) = NULL /\ PrevFree(g, h.end) = NULL
    /\ UserSize(g, h.end) = n /\ ~IsFree(g, h.end) /\ get_next_block(g, h.end) \notin B

\* A header at the end of the heap makes one block more.
LEMMA ExtendingIs ==
  ASSUME NEW h, NEW B, Body(h, B), NEW n \in Nat, h.end + n + 3 < h.heap_size,
         NEW g, g = Extend(h, n)
  PROVE  Extending(h, g, B, n)
<1>0. h \in HeapType /\ Tiles(h, B) /\ Bounded(h) /\ Marked(h, B)
  BY DEF Body
<1>1. PICK b : b = h.end
  OBVIOUS
<1>2. PICK e : e = WriteHeader(h, b, FALSE, n)
  OBVIOUS
<1>3. b \in Nat /\ h.heap_size \in Nat /\ h.heap_size <= Limit /\ b + n + 3 < Limit
  BY <1>0, <1>1 DEF HeapType, Bounded
<1>4. b \in Spots
  BY <1>3 DEF Spots, BLOCK_SIZE
<1>5. /\ Touches(h, e, {b, b + 1, b + 2 + n})
      /\ UserSize(e, b) = n /\ IsFree(e, b) = FALSE /\ NextFree(e, b) = NULL /\ PrevFree(e, b) = NULL
      /\ e.mem[b].is = "head" /\ e.mem[b + 1].is = "links" /\ e.mem[b + 2 + n] = Tag(n)
  <2>1. b + 2 + n < Limit
    BY <1>3
  <2>2. PICK v : v = FALSE
    OBVIOUS
  <2>3. e = WriteHeader(h, b, v, n) /\ v \in BOOLEAN
    BY <1>2, <2>2
  <2>4. HeaderWritten(h, e, b, v, n)
    BY <1>0, <1>4, <2>1, <2>3, WriteHeaderIs
  <2> QED BY <2>2, <2>4 DEF HeaderWritten
<1>6. /\ g \in HeapType /\ g.mem = e.mem /\ g.end = b + n + 3 /\ g.heap_size = h.heap_size
      /\ g.free_head = h.free_head /\ g.free_total = h.free_total
  <2>1. e \in HeapType /\ e.heap_size = h.heap_size /\ e.free_head = h.free_head
        /\ e.free_total = h.free_total
    BY <1>5 DEF Touches
  <2>2. PICK x : x = b + (n + META_DATA_SIZE)
    OBVIOUS
  <2>3. g = [e EXCEPT !.end = x]
    BY <1>1, <1>2, <2>2, Zenon DEF Extend
  <2>4. x = b + n + 3 /\ x \in Nat
    BY <1>3, <2>2 DEF META_DATA_SIZE
  <2> QED BY <2>1, <2>3, <2>4 DEF HeapType
<1>7. ASSUME NEW c \in B
      PROVE  Same(h, g, c) /\ c \in Nat /\ c < b /\ get_next_block(h, c) \in Nat
             /\ get_next_block(h, c) <= b
  <2>1. /\ c \in Nat /\ c \in Spots /\ get_next_block(h, c) \in Nat /\ c < b
        /\ get_next_block(h, c) <= b /\ get_next_block(h, c) > c
    BY <1>0, <1>1, BlocksFit
  <2>2. \A k \in {b, b + 1, b + 2 + n} : k < c \/ k >= get_next_block(h, c)
    BY <1>3, <2>1
  <2>3. get_next_block(h, c) <= Limit
    BY <1>3, <2>1
  <2>4. Same(h, e, c)
    BY <1>0, <1>5, <2>1, <2>2, <2>3, Untouched
  <2>5. Same(h, g, c)
    BY <1>6, <2>4 DEF Same, Spared, UserSize, get_next_block, NextFree, PrevFree, IsFree
  <2> QED BY <2>1, <2>5
<1>8. b \notin B
  BY <1>3, <1>7
<1>9. /\ UserSize(g, b) = n /\ IsFree(g, b) = FALSE /\ NextFree(g, b) = NULL /\ PrevFree(g, b) = NULL
      /\ g.mem[b].is = "head" /\ g.mem[b + 1].is = "links" /\ g.mem[b + 2 + n] = Tag(n)
      /\ get_next_block(g, b) = b + n + 3
  BY <1>5, <1>6 DEF UserSize, IsFree, NextFree, PrevFree, get_next_block, META_DATA_SIZE
<1>10. Bounded(g)
  BY <1>0, <1>1, <1>6 DEF Bounded
<1>11. Tiles(g, B \cup {b})
  <2>1. B \cup {b} \subseteq Nat /\ (g.end > 0 => 0 \in B \cup {b})
    <3>1. B \subseteq Nat /\ (b > 0 => 0 \in B)
      BY <1>0, <1>1 DEF Tiles
    <3>2. b = 0 \/ b > 0
      BY <1>3
    <3> QED BY <1>3, <3>1, <3>2
  <2>2. ASSUME NEW c \in B \cup {b}
        PROVE  c < g.end /\ get_next_block(g, c) \in (B \cup {b}) \cup {g.end}
    <3>1. CASE c = b
      BY <1>3, <1>6, <1>9, <3>1
    <3>2. CASE c \in B
      <4>1. get_next_block(g, c) = get_next_block(h, c) /\ c \in Nat /\ c < b
        BY <1>7, <3>2 DEF Same
      <4>2. get_next_block(h, c) \in B \cup {b}
        BY <1>0, <1>1, <3>2 DEF Tiles
      <4>3. c < g.end
        BY <1>3, <1>6, <4>1
      <4> QED BY <4>1, <4>2, <4>3
    <3> QED BY <3>1, <3>2
  <2>3. ASSUME NEW c \in B \cup {b}, NEW d \in B \cup {b}, c < d
        PROVE  get_next_block(g, c) <= d
    <3>1. c \in B /\ get_next_block(g, c) = get_next_block(h, c)
      <4>1. c # b
        BY <1>3, <1>7, <2>3
      <4> QED BY <1>7, <4>1 DEF Same
    <3>2. CASE d = b
      BY <1>7, <3>1, <3>2
    <3>3. CASE d \in B
      BY <1>0, <2>3, <3>1, <3>3 DEF Tiles
    <3> QED BY <3>2, <3>3
  <2> QED BY <2>1, <2>2, <2>3 DEF Tiles
<1>12. Marked(g, B \cup {b})
  <2>1. ASSUME NEW c \in B \cup {b}
        PROVE  /\ g.mem[c].is = "head" /\ g.mem[c + 1].is = "links"
               /\ g.mem[get_next_block(g, c) - 1] = Tag(UserSize(g, c))
    <3>1. CASE c = b
      <4>1. (b + n + 3) - 1 = b + 2 + n
        BY <1>3
      <4> QED BY <1>9, <3>1, <4>1
    <3>2. CASE c \in B
      <4>1. Same(h, g, c)
        BY <1>7, <3>2
      <4> QED BY <1>0, <3>2, <4>1 DEF Same, Spared, Marked
    <3> QED BY <3>1, <3>2
  <2> QED BY <2>1 DEF Marked
<1>13. SameLinks(h, g, B)
  <2>1. ASSUME NEW c \in B
        PROVE  NextFree(g, c) = NextFree(h, c) /\ PrevFree(g, c) = PrevFree(h, c)
    BY <1>7 DEF Same
  <2> QED BY <1>6, <2>1 DEF SameLinks
<1>14. Body(g, B \cup {b})
  BY <1>6, <1>10, <1>11, <1>12 DEF Body
<1>15. get_next_block(g, b) \notin B
  BY <1>3, <1>7, <1>9
<1> QED BY <1>1, <1>4, <1>7, <1>8, <1>9, <1>13, <1>14, <1>15 DEF Extending

\* A block is marked free, or in use.
Flagging(h, g, B, b, v) ==
    /\ Body(g, B) /\ SameLinks(h, g, B) /\ IsFree(g, b) = v
    /\ \A c \in B : Spared(h, g, c) /\ get_next_block(g, c) = get_next_block(h, c)
                    /\ (c # b => IsFree(g, c) = IsFree(h, c))

\* Marking a block changes nothing else of any block.
LEMMA FlaggingIs ==
  ASSUME NEW h, NEW B, Body(h, B), NEW b \in B, NEW v \in BOOLEAN, NEW g, g = SetFree(h, b, v)
  PROVE  Flagging(h, g, B, b, v)
<1>0. h \in HeapType /\ Tiles(h, B) /\ Bounded(h) /\ Marked(h, B)
  BY DEF Body
<1>1. /\ b \in Nat /\ b \in Spots /\ UserSize(h, b) \in Nat
      /\ get_next_block(h, b) = b + UserSize(h, b) + 3
      /\ get_next_block(h, b) <= h.end /\ h.end \in Nat /\ h.end < Limit
  BY <1>0, BlocksFit
<1>2. Touches(h, g, {b}) /\ g.mem[b] = [h.mem[b] EXCEPT !.free = v]
  BY <1>0, <1>1, SetFreeIs
<1>3. ASSUME NEW c \in B \ {b} PROVE Same(h, g, c)
  <2>1. /\ c \in Nat /\ c \in Spots /\ get_next_block(h, c) \in Nat
        /\ get_next_block(h, c) <= h.end
    BY <1>0, BlocksFit
  <2>2. c < b => get_next_block(h, c) <= b
    BY <1>0 DEF Tiles
  <2>3. b < c \/ b >= get_next_block(h, c)
    BY <1>1, <2>1, <2>2
  <2>4. get_next_block(h, c) <= Limit
    BY <1>1, <2>1
  <2> QED BY <1>0, <1>2, <2>1, <2>3, <2>4, Untouched
<1>4. /\ IsFree(g, b) = v /\ Spared(h, g, b) /\ get_next_block(g, b) = get_next_block(h, b)
      /\ NextFree(g, b) = NextFree(h, b) /\ PrevFree(g, b) = PrevFree(h, b)
      /\ g.mem[b].is = "head" /\ g.mem[b + 1].is = "links"
      /\ g.mem[get_next_block(g, b) - 1] = Tag(UserSize(g, b))
  <2>1. h.mem[b] \in Cell
    BY <1>0, <1>1, SpotsFit DEF HeapType
  <2>2. g.mem[b].free = v /\ g.mem[b].prev = h.mem[b].prev /\ g.mem[b].is = h.mem[b].is
    BY <1>2, <2>1 DEF Cell
  <2>3. \A k \in Addresses : k > b => g.mem[k] = h.mem[k]
    <3>1. \A k \in Addresses : k > b => k # b
      BY <1>1 DEF Addresses
    <3> QED BY <1>2, <3>1 DEF Touches
  <2>4. /\ b + 1 \in Addresses /\ b + 1 > b
        /\ get_next_block(h, b) - 1 \in Addresses /\ get_next_block(h, b) - 1 > b
    BY <1>1 DEF Addresses
  <2>5. g.mem[b + 1] = h.mem[b + 1]
        /\ g.mem[get_next_block(h, b) - 1] = h.mem[get_next_block(h, b) - 1]
    BY <2>3, <2>4
  <2>6. UserSize(g, b) = UserSize(h, b) /\ get_next_block(g, b) = get_next_block(h, b)
    BY <2>5 DEF UserSize, get_next_block
  <2>7. \A k \in Addresses : b + 2 <= k => k > b
    BY <1>1 DEF Addresses
  <2>8. Spared(h, g, b)
    BY <2>3, <2>6, <2>7 DEF Spared, BLOCK_SIZE
  <2> QED BY <1>0, <2>2, <2>5, <2>6, <2>8 DEF IsFree, NextFree, PrevFree, Marked
<1>5. /\ g \in HeapType /\ g.end = h.end /\ g.heap_size = h.heap_size
      /\ g.free_head = h.free_head /\ g.free_total = h.free_total
  BY <1>2 DEF Touches
<1>6. ASSUME NEW c \in B
      PROVE  /\ Spared(h, g, c) /\ get_next_block(g, c) = get_next_block(h, c)
             /\ NextFree(g, c) = NextFree(h, c) /\ PrevFree(g, c) = PrevFree(h, c)
             /\ (c # b => IsFree(g, c) = IsFree(h, c))
             /\ g.mem[c].is = "head" /\ g.mem[c + 1].is = "links"
             /\ g.mem[get_next_block(g, c) - 1] = Tag(UserSize(g, c))
  <2>1. CASE c = b
    BY <1>4, <2>1
  <2>2. CASE c # b
    BY <1>0, <1>3, <2>2 DEF Same, Spared, Marked
  <2> QED BY <2>1, <2>2
<1>7. Tiles(g, B)
  BY <1>0, <1>5, <1>6 DEF Tiles
<1>8. Body(g, B)
  BY <1>0, <1>5, <1>6, <1>7 DEF Body, Bounded, Marked
<1> QED BY <1>4, <1>5, <1>6, <1>8 DEF Flagging, SameLinks

-----------------------------------------------------------------------------
\* The blocks of B, of which those of F are free and in the list.
Shape(h, B, F) == Body(h, B) /\ Listed(h, B, F) /\ \A c \in B : IsFree(h, c) <=> c \in F

\* No two free blocks are neighbours.
Apart(h, F) == \A c \in F : get_next_block(h, c) \notin F

FreeOf(h) == {b \in Blocks(h) : IsFree(h, b)}
UsedOf(h) == {b \in Blocks(h) : ~IsFree(h, b)}
Whole(h) == Shape(h, Blocks(h), FreeOf(h)) /\ Apart(h, FreeOf(h))

\* What blocks, free blocks and blocks in use are is known from the shape.
LEMMA WholeIs ==
  ASSUME NEW h, NEW B, NEW F, Shape(h, B, F)
  PROVE  /\ Blocks(h) = B /\ FreeOf(h) = F /\ UsedOf(h) = B \ F
         /\ (Apart(h, F) => Whole(h))
<1>1. h \in HeapType /\ Bounded(h) /\ Tiles(h, B) /\ F \subseteq B
  BY DEF Shape, Body, Listed
<1>2. Blocks(h) = B
  BY <1>1, BlocksAre
<1>3. \A c \in B : IsFree(h, c) <=> c \in F
  BY DEF Shape
<1>4. FreeOf(h) = F
  BY <1>1, <1>2, <1>3 DEF FreeOf
<1>5. UsedOf(h) = B \ F
  BY <1>1, <1>2, <1>3 DEF UsedOf
<1> QED BY <1>2, <1>4, <1>5 DEF Whole

\* A whole heap has a shape.
LEMMA WholeHas ==
  ASSUME NEW h, Whole(h)
  PROVE  \E B, F : Shape(h, B, F) /\ Apart(h, F) /\ UsedOf(h) = B \ F /\ FreeOf(h) = F
<1>1. Shape(h, Blocks(h), FreeOf(h)) /\ Apart(h, FreeOf(h))
  BY DEF Whole
<1> QED BY <1>1, WholeIs

\* Who is spared twice is spared.
LEMMA SparedTwice ==
  ASSUME NEW h, NEW g, NEW e, NEW b, Spared(h, g, b), Spared(g, e, b)
  PROVE  Spared(h, e, b)
BY DEF Spared

\* The block before b is found by its tag.
LEMMA PrevBlock ==
  ASSUME NEW h, NEW B, Body(h, B), NEW b \in B
  PROVE  IF b = 0 THEN get_prev_block(h, b) = NULL
         ELSE get_prev_block(h, b) \in B /\ get_next_block(h, get_prev_block(h, b)) = b
<1>0. h \in HeapType /\ Tiles(h, B) /\ Bounded(h) /\ Marked(h, B)
  BY DEF Body
<1>1. CASE b = 0
  BY <1>1 DEF get_prev_block
<1>2. CASE b # 0
  <2>1. b \in Nat /\ b < h.end /\ h.end \in Nat
    BY <1>0, BlocksFit
  <2>2. PICK T : T = {c \in B : c < b}
    OBVIOUS
  <2>3. 0 \in B /\ 0 < b
    BY <1>0, <1>2, <2>1 DEF Tiles
  <2>4. PICK a \in T : \A c \in T : c <= a
    <3>1. T \in SUBSET Nat /\ T # {} /\ \A c \in T : c <= b
      <4>1. \A c \in B : c \in Nat
        BY <1>0 DEF Tiles
      <4>2. \A c \in T : c \in Nat /\ c <= b
        BY <2>1, <2>2, <4>1
      <4> QED BY <2>2, <2>3, <4>2
    <3> QED BY <2>1, <3>1, GreatestNumber
  <2>5. a \in B /\ a < b
    BY <2>2, <2>4
  <2>6. /\ a \in Nat /\ UserSize(h, a) \in Nat /\ get_next_block(h, a) = a + UserSize(h, a) + 3
    BY <1>0, <2>5, BlocksFit
  <2>7. get_next_block(h, a) = b
    <3>1. get_next_block(h, a) <= b
      BY <1>0, <2>5 DEF Tiles
    <3>2. CASE get_next_block(h, a) \in B
      <4>1. ~(get_next_block(h, a) <= a)
        BY <2>6
      <4>2. get_next_block(h, a) \notin T
        BY <2>4, <4>1
      <4>3. ~(get_next_block(h, a) < b)
        BY <2>2, <3>2, <4>2
      <4> QED BY <2>1, <2>6, <3>1, <4>3
    <3>3. CASE get_next_block(h, a) = h.end
      BY <2>1, <3>1, <3>3
    <3> QED BY <1>0, <2>5, <3>2, <3>3 DEF Tiles
  <2>8. h.mem[b - 1] = Tag(UserSize(h, a))
    BY <1>0, <2>5, <2>7 DEF Marked
  <2>9. get_prev_block(h, b) = a
    <3>1. h.mem[b - 1].size = UserSize(h, a)
      BY <2>8 DEF Tag, Raw
    <3> QED BY <1>2, <2>1, <2>6, <2>7, <3>1 DEF get_prev_block, META_DATA_SIZE
  <2> QED BY <1>2, <2>5, <2>7, <2>9
<1> QED BY <1>1, <1>2

\* Two neighbouring free blocks become one.
FreesMerged(h, g, B, F, a, b) ==
    /\ Shape(g, B \ {b}, F \ {b})
    /\ UserSize(g, a) >= UserSize(h, a) /\ UserSize(g, a) >= UserSize(h, b)
    /\ UserSize(g, a) \in Nat /\ get_next_block(g, a) = get_next_block(h, b)
    /\ \A c \in B \ {a, b} : Spared(h, g, c) /\ get_next_block(g, c) = get_next_block(h, c)

\* merge_free_free makes one free block of two.
LEMMA MergeFreeIs ==
  ASSUME NEW h, NEW B, NEW F, Shape(h, B, F), NEW a \in F, NEW b \in F,
         get_next_block(h, a) = b, NEW g, g = merge_free_free(h, a, b)
  PROVE  FreesMerged(h, g, B, F, a, b)
<1>0. /\ h \in HeapType /\ Body(h, B) /\ Listed(h, B, F) /\ F \subseteq B /\ B \subseteq Spots
      /\ a \in B /\ b \in B /\ Tiles(h, B) /\ Bounded(h)
  BY DEF Shape, Body, Listed
<1>1. /\ a \in Nat /\ b \in Nat /\ UserSize(h, a) \in Nat /\ UserSize(h, b) \in Nat
      /\ b = a + UserSize(h, a) + 3 /\ a # NULL /\ \A c \in F : c \in Nat
  <2>1. a \in Nat /\ UserSize(h, a) \in Nat /\ get_next_block(h, a) = a + UserSize(h, a) + 3
    BY <1>0, BlocksFit
  <2>2. b \in Nat /\ UserSize(h, b) \in Nat
    BY <1>0, BlocksFit
  <2>3. \A c \in F : c \in Nat
    BY <1>0, SpotsFit
  <2>4. a # NULL
    BY <1>0, SpotsFit
  <2> QED BY <2>1, <2>2, <2>3, <2>4
<1>2. PICK e : e = MergedList(h, a, b)
  OBVIOUS
<1>3. g = SetSize(e, a, UserSize(h, a) + UserSize(h, b) + META_DATA_SIZE)
  <2>1. PICK q : q = NextFree(h, b)
    OBVIOUS
  <2>2. PICK k : k = Skip(h, a, q)
    OBVIOUS
  <2>3. k = LET f == [h EXCEPT !.mem[a + 1].next = q]
            IN  IF q = NULL THEN f ELSE [f EXCEPT !.mem[q].prev = a]
    BY <1>1, <2>2 DEF Skip, SetNext, SetPrev
  <2>4. g = SetSize(remove_free_block(k, b), a, UserSize(h, a) + UserSize(h, b) + META_DATA_SIZE)
    BY <2>1, <2>3 DEF merge_free_free
  <2>5. e = remove_free_block(k, b)
    BY <1>2, <2>1, <2>2 DEF MergedList
  <2> QED BY <2>4, <2>5
<1>4. Relinks(h, e, B) /\ Listed(e, B, F \ {b})
  <2>1. a < b
    BY <1>1
  <2>2. \A c \in F : c <= a \/ c >= b
    <3>1. \A c \in B : a < c => b <= c
      BY <1>0 DEF Tiles
    <3> QED BY <1>0, <1>1, <3>1
  <2> QED BY <1>0, <1>2, <2>1, <2>2, MergedListIs
<1>5. /\ Body(e, B)
      /\ \A c \in B : Spared(h, e, c) /\ IsFree(e, c) = IsFree(h, c)
                      /\ get_next_block(e, c) = get_next_block(h, c)
  BY <1>0, <1>4, RelinksBody
<1>6. UserSize(e, a) = UserSize(h, a) /\ UserSize(e, b) = UserSize(h, b)
  BY <1>0, <1>5 DEF Spared
<1>7. Merging(e, g, B, a, b)
  BY <1>0, <1>3, <1>5, <1>6, MergingIs
<1>8. Listed(g, B \ {b}, F \ {b})
  <2>1. B \cap (B \ {b}) = B \ {b} /\ (B \ {b}) \ B = {} /\ B \ {b} \subseteq Spots
        /\ F \ {b} \subseteq B \ {b}
    BY <1>0
  <2>2. SameLinks(e, g, B \cap (B \ {b}))
    BY <1>7, <2>1 DEF Merging
  <2>3. \A c \in (B \ {b}) \ B : NextFree(g, c) = NULL /\ PrevFree(g, c) = NULL
    BY <2>1
  <2> QED BY <1>4, <2>1, <2>2, <2>3, ListedStill
<1>9. ASSUME NEW c \in B \ {b} PROVE IsFree(g, c) <=> c \in F \ {b}
  <2>1. IsFree(g, c) = IsFree(e, c)
    <3>1. CASE c = a
      BY <1>7, <3>1 DEF Merging
    <3>2. CASE c # a
      BY <1>7, <3>2 DEF Merging, Same
    <3> QED BY <3>1, <3>2
  <2>2. IsFree(h, c) <=> c \in F
    BY DEF Shape
  <2>3. IsFree(e, c) = IsFree(h, c)
    BY <1>5
  <2> QED BY <2>1, <2>2, <2>3
<1>10. Body(g, B \ {b})
  BY <1>7 DEF Merging
<1>11. /\ UserSize(g, a) >= UserSize(h, a) /\ UserSize(g, a) >= UserSize(h, b)
       /\ UserSize(g, a) \in Nat
  <2>1. UserSize(g, a) = UserSize(h, a) + UserSize(h, b) + 3
    BY <1>6, <1>7 DEF Merging, META_DATA_SIZE
  <2> QED BY <1>1, <2>1
<1>12. get_next_block(g, a) = get_next_block(h, b)
  BY <1>0, <1>5, <1>7 DEF Merging
<1>13. ASSUME NEW c \in B \ {a, b}
       PROVE  Spared(h, g, c) /\ get_next_block(g, c) = get_next_block(h, c)
  <2>1. Same(e, g, c)
    BY <1>7 DEF Merging
  <2>2. Spared(h, e, c) /\ Spared(e, g, c) /\ get_next_block(e, c) = get_next_block(h, c)
    BY <1>5, <2>1 DEF Same
  <2> QED BY <2>1, <2>2, SparedTwice DEF Same
<1>14. Shape(g, B \ {b}, F \ {b})
  BY <1>8, <1>9, <1>10 DEF Shape
<1> QED BY <1>11, <1>12, <1>13, <1>14 DEF FreesMerged

\* A block that is handed out, with at least n units.
Gives(h, g, b, n) ==
    /\ Whole(g) /\ b \notin UsedOf(h) /\ UsedOf(g) = UsedOf(h) \cup {b}
    /\ UserSize(g, b) \in Nat /\ UserSize(g, b) >= n
    /\ \A c \in UsedOf(h) : Spared(h, g, c)

\* A free block taken out of the list and marked.
Take(h, b, v) == SetFree(remove_free_block(h, b), b, v)
Taking(h, g, B, F, b) ==
    /\ Shape(g, B, F \ {b})
    /\ \A c \in B : Spared(h, g, c) /\ get_next_block(g, c) = get_next_block(h, c)
\* A block taken out of the list and marked is in use.
LEMMA TakingIs ==
  ASSUME NEW h, NEW B, NEW F, Shape(h, B, F), NEW b \in F, NEW v \in BOOLEAN, ~v,
         NEW g, g = Take(h, b, v)
  PROVE  Taking(h, g, B, F, b)
<1>0. /\ h \in HeapType /\ Body(h, B) /\ Listed(h, B, F) /\ F \subseteq B /\ B \subseteq Spots
      /\ b \in B
  BY DEF Shape, Body, Listed
<1>1. PICK e : e = remove_free_block(h, b)
  OBVIOUS
<1>2. Relinks(h, e, B) /\ Listed(e, B, F \ {b})
  BY <1>0, <1>1, RemoveIs
<1>3. /\ Body(e, B)
      /\ \A c \in B : Spared(h, e, c) /\ IsFree(e, c) = IsFree(h, c)
                      /\ get_next_block(e, c) = get_next_block(h, c)
  BY <1>0, <1>2, RelinksBody
<1>4. Flagging(e, g, B, b, v)
  <2>1. g = SetFree(e, b, v)
    BY <1>1 DEF Take
  <2> QED BY <1>0, <1>3, <2>1, FlaggingIs
<1>5. Listed(g, B, F \ {b})
  <2>1. B \cap B = B /\ B \ B = {} /\ F \ {b} \subseteq B
    BY <1>0
  <2>2. SameLinks(e, g, B \cap B)
    BY <1>4, <2>1 DEF Flagging
  <2>3. \A c \in B \ B : NextFree(g, c) = NULL /\ PrevFree(g, c) = NULL
    BY <2>1
  <2> QED BY <1>0, <1>2, <2>1, <2>2, <2>3, ListedStill
<1>6. ASSUME NEW c \in B PROVE IsFree(g, c) <=> c \in F \ {b}
  <2>1. CASE c = b
    BY <1>4, <2>1 DEF Flagging
  <2>2. CASE c # b
    <3>1. IsFree(g, c) = IsFree(e, c)
      BY <1>4, <2>2 DEF Flagging
    <3>2. IsFree(e, c) = IsFree(h, c)
      BY <1>3
    <3>3. IsFree(h, c) <=> c \in F
      BY DEF Shape
    <3> QED BY <2>2, <3>1, <3>2, <3>3
  <2> QED BY <2>1, <2>2
<1>7. Shape(g, B, F \ {b})
  BY <1>4, <1>5, <1>6 DEF Shape, Flagging
<1>8. ASSUME NEW c \in B
      PROVE  Spared(h, g, c) /\ get_next_block(g, c) = get_next_block(h, c)
  <2>1. Spared(h, e, c) /\ get_next_block(e, c) = get_next_block(h, c)
    BY <1>3
  <2>2. Spared(e, g, c) /\ get_next_block(g, c) = get_next_block(e, c)
    BY <1>4 DEF Flagging
  <2> QED BY <2>1, <2>2, SparedTwice
<1> QED BY <1>7, <1>8 DEF Taking

\* What is left of a block is put into the list.
Yes(v) == v = TRUE
Rest(h, b, n, s, v, l) == insert_free_block(WriteHeader(SetSize(h, b, n), s, v, l), s)
Leaving(h, g, B, F, b, n, s) ==
    /\ Shape(g, B \cup {s}, F \cup {s}) /\ Apart(g, F \cup {s}) /\ s \notin B
    /\ UserSize(g, b) = n /\ \A c \in B \ {b} : Spared(h, g, c)
\* init_old_block splits: the rest is a free block in the list.
LEMMA RestIs ==
  ASSUME NEW h, NEW B, NEW F, Shape(h, B, F), Apart(h, F), NEW b \in B \ F,
         NEW n \in Nat, NEW l \in Nat, UserSize(h, b) = n + l + 3, l > 1,
         NEW s \in Nat, s = b + n + 3, NEW v \in BOOLEAN, Yes(v),
         get_next_block(h, b) \notin F, NEW g, g = Rest(h, b, n, s, v, l)
  PROVE  Leaving(h, g, B, F, b, n, s)
<1>0. /\ h \in HeapType /\ Body(h, B) /\ Listed(h, B, F) /\ F \subseteq B /\ B \subseteq Spots
      /\ b \in B /\ b \notin F /\ Tiles(h, B)
  BY DEF Shape, Body, Listed
<1>1. PICK e : e = WriteHeader(SetSize(h, b, n), s, v, l)
  OBVIOUS
<1>2. Splitting(h, e, B, b, n, s, v)
  BY <1>0, <1>1, SplittingIs
<1>3. /\ Body(e, B \cup {s}) /\ s \notin B /\ s \in Spots /\ s \notin F
      /\ s \in (B \cup {s}) \ F /\ e \in HeapType
  BY <1>0, <1>2 DEF Splitting, Body
<1>4. Listed(e, B \cup {s}, F)
  <2>1. B \cap (B \cup {s}) = B /\ (B \cup {s}) \ B = {s} /\ B \cup {s} \subseteq Spots
        /\ F \subseteq B \cup {s}
    BY <1>0, <1>3
  <2>2. SameLinks(h, e, B \cap (B \cup {s}))
    BY <1>2, <2>1 DEF Splitting
  <2>3. \A c \in (B \cup {s}) \ B : NextFree(e, c) = NULL /\ PrevFree(e, c) = NULL
    BY <1>2, <2>1 DEF Splitting
  <2> QED BY <1>0, <2>1, <2>2, <2>3, ListedStill
<1>5. Relinks(e, g, B \cup {s}) /\ Listed(g, B \cup {s}, F \cup {s})
  <2>1. g = insert_free_block(e, s)
    BY <1>1 DEF Rest
  <2> QED BY <1>3, <1>4, <2>1, InsertIs
<1>6. /\ Body(g, B \cup {s})
      /\ \A c \in B \cup {s} : Spared(e, g, c) /\ IsFree(g, c) = IsFree(e, c)
                               /\ get_next_block(g, c) = get_next_block(e, c)
  <2> PICK C : C = B \cup {s}
    OBVIOUS
  <2>1. Body(e, C) /\ Relinks(e, g, C)
    BY <1>3, <1>5
  <2>2. /\ Body(g, C)
        /\ \A c \in C : Spared(e, g, c) /\ IsFree(g, c) = IsFree(e, c)
                        /\ get_next_block(g, c) = get_next_block(e, c)
    BY <2>1, RelinksBody
  <2> QED BY <2>2
<1>7. ASSUME NEW c \in B \cup {s} PROVE IsFree(g, c) <=> c \in F \cup {s}
  <2>1. CASE c = s
    BY <1>2, <1>6, <2>1, Zenon DEF Splitting, Yes
  <2>2. CASE c # s
    <3>1. c \in B /\ IsFree(g, c) = IsFree(e, c)
      BY <1>6, <2>2
    <3>2. IsFree(e, c) = IsFree(h, c)
      <4>1. CASE c = b
        BY <1>2, <4>1 DEF Splitting
      <4>2. CASE c # b
        BY <1>2, <3>1, <4>2 DEF Splitting, Same
      <4> QED BY <4>1, <4>2
    <3>3. IsFree(h, c) <=> c \in F
      BY <3>1 DEF Shape
    <3> QED BY <2>2, <3>1, <3>2, <3>3
  <2> QED BY <2>1, <2>2
<1>8. Shape(g, B \cup {s}, F \cup {s})
  BY <1>5, <1>6, <1>7 DEF Shape
<1>9. Apart(g, F \cup {s})
  <2>1. ASSUME NEW c \in F PROVE get_next_block(g, c) \notin F \cup {s}
    <3>1. c \in B \ {b} /\ get_next_block(g, c) = get_next_block(e, c)
      BY <1>0, <1>6
    <3>2. get_next_block(e, c) = get_next_block(h, c)
      BY <1>2, <3>1 DEF Splitting, Same
    <3>3. get_next_block(h, c) \notin F
      BY DEF Apart
    <3>4. get_next_block(h, c) \in B \cup {h.end}
      BY <1>0, <3>1 DEF Tiles
    <3>5. s # h.end
      <4>1. Tiles(g, B \cup {s}) /\ g \in HeapType
        BY <1>6 DEF Body
      <4>2. s < g.end /\ g.end \in Nat
        BY <4>1 DEF Tiles, HeapType
      <4>3. g.end = e.end
        BY <1>5 DEF Relinks
      <4>4. e.end = h.end
        BY <1>2 DEF Splitting
      <4> QED BY <4>2, <4>3, <4>4
    <3> QED BY <1>3, <3>1, <3>2, <3>3, <3>4, <3>5
  <2>2. get_next_block(g, s) \notin F \cup {s}
    <3>1. get_next_block(g, s) = get_next_block(h, b)
      BY <1>2, <1>6 DEF Splitting
    <3>2. get_next_block(g, s) # s
      <4>1. Tiles(g, B \cup {s}) /\ g \in HeapType /\ Bounded(g)
        BY <1>6 DEF Body
      <4>2. get_next_block(g, s) = s + UserSize(g, s) + 3 /\ UserSize(g, s) \in Nat
        BY <1>3, <4>1, LinkTypes DEF get_next_block, META_DATA_SIZE
      <4> QED BY <4>2
    <3> QED BY <3>1, <3>2
  <2> QED BY <2>1, <2>2 DEF Apart
<1>10. UserSize(g, b) = n
  BY <1>0, <1>2, <1>6 DEF Splitting, Spared
<1>11. \A c \in B \ {b} : Spared(h, g, c)
  <2>1. \A c \in B \ {b} : Spared(h, e, c) /\ Spared(e, g, c)
    BY <1>2, <1>6 DEF Splitting, Same
  <2> QED BY <2>1, SparedTwice
<1> QED BY <1>3, <1>8, <1>9, <1>10, <1>11 DEF Leaving

\* A free block of enough units is handed out.
LEMMA OldIs ==
  ASSUME NEW h, Whole(h), NEW b \in FreeOf(h), NEW n \in Nat, UserSize(h, b) >= n,
         NEW g, g = init_old_block(h, b, n)
  PROVE  Gives(h, g, b, n)
<1>1. PICK B, F : Shape(h, B, F) /\ Apart(h, F) /\ UsedOf(h) = B \ F /\ FreeOf(h) = F
  BY WholeHas
<1>2. /\ b \in F /\ b \in B /\ b \in Nat /\ UserSize(h, b) \in Nat /\ h \in HeapType
      /\ Tiles(h, B) /\ F \subseteq B /\ Bounded(h)
  <2>1. b \in F /\ F \subseteq B /\ h \in HeapType /\ Bounded(h) /\ Tiles(h, B)
    BY <1>1 DEF Shape, Body, Listed
  <2> QED BY <2>1, BlocksFit
<1>3. PICK u, v : u = FALSE /\ v = TRUE
  OBVIOUS
<1>4. PICK t : t = Take(h, b, u)
  OBVIOUS
<1>5. PICK rest : rest = UserSize(h, b) - n
  OBVIOUS
<1>6. PICK s : s = b + n + META_DATA_SIZE
  OBVIOUS
<1>7. g = IF rest > META_DATA_SIZE + 1 THEN Rest(t, b, n, s, v, rest - META_DATA_SIZE) ELSE t
  <2>1. t = [remove_free_block(h, b) EXCEPT !.mem[b].free = FALSE]
    BY <1>3, <1>4, Zenon DEF Take, SetFree
  <2> QED BY <1>3, <1>5, <1>6, <2>1, Zenon DEF init_old_block, Rest
<1>8. Taking(h, t, B, F, b)
  <2>1. u \in BOOLEAN /\ ~u
    BY <1>3
  <2> QED BY <1>1, <1>2, <1>4, <2>1, TakingIs
<1>9. Shape(t, B, F \ {b}) /\ UserSize(t, b) = UserSize(h, b)
      /\ \A c \in B : Spared(h, t, c) /\ get_next_block(t, c) = get_next_block(h, c)
  BY <1>2, <1>8 DEF Taking, Spared
<1>10. Apart(t, F \ {b}) /\ get_next_block(t, b) \notin F \ {b}
  BY <1>1, <1>2, <1>9 DEF Apart
<1>11. rest \in Nat /\ UserSize(h, b) = n + rest
  BY <1>2, <1>5
<1>12. CASE rest > META_DATA_SIZE + 1
  <2>1. PICK l : l = rest - META_DATA_SIZE
    OBVIOUS
  <2>2. l \in Nat /\ l > 1 /\ UserSize(t, b) = n + l + 3 /\ s \in Nat /\ s = b + n + 3
    BY <1>2, <1>6, <1>9, <1>11, <1>12, <2>1 DEF META_DATA_SIZE
  <2>3. v \in BOOLEAN /\ Yes(v)
    BY <1>3 DEF Yes
  <2>4. g = Rest(t, b, n, s, v, l)
    BY <1>7, <1>12, <2>1
  <2> PICK E : E = F \ {b}
    OBVIOUS
  <2>5. b \in B \ E /\ Shape(t, B, E) /\ Apart(t, E) /\ get_next_block(t, b) \notin E
    BY <1>2, <1>9, <1>10
  <2>6. /\ Shape(g, B \cup {s}, E \cup {s}) /\ Apart(g, E \cup {s}) /\ s \notin B
        /\ UserSize(g, b) = n /\ \A c \in B \ {b} : Spared(t, g, c)
    <3>1. Leaving(t, g, B, E, b, n, s)
      BY <2>2, <2>3, <2>4, <2>5, RestIs
    <3> QED BY <3>1 DEF Leaving
  <2>7. Whole(g) /\ UsedOf(g) = (B \cup {s}) \ (E \cup {s})
    BY <2>6, WholeIs
  <2>8. (B \cup {s}) \ (E \cup {s}) = (B \ F) \cup {b} /\ b \notin B \ F
    BY <1>2, <2>6
  <2>9. \A c \in B \ F : Spared(h, g, c)
    <3>1. \A c \in B \ F : Spared(h, t, c) /\ Spared(t, g, c)
      BY <1>2, <1>9, <2>6
    <3> QED BY <3>1, SparedTwice
  <2>10. UserSize(g, b) \in Nat /\ UserSize(g, b) >= n
    BY <2>6
  <2> QED BY <1>1, <2>7, <2>8, <2>9, <2>10 DEF Gives
<1>13. CASE ~(rest > META_DATA_SIZE + 1)
  <2>1. g = t
    BY <1>7, <1>13
  <2>2. Whole(g) /\ UsedOf(g) = B \ (F \ {b})
    BY <1>9, <1>10, <2>1, WholeIs
  <2>3. B \ (F \ {b}) = (B \ F) \cup {b} /\ b \notin B \ F
    BY <1>2
  <2>4. UserSize(g, b) \in Nat /\ UserSize(g, b) >= n
    BY <1>2, <1>9, <2>1
  <2> QED BY <1>1, <1>9, <2>1, <2>2, <2>3, <2>4 DEF Gives
<1> QED BY <1>12, <1>13

\* What a call leaves to everybody whose block is none of its business.
Keeps(h, g) == Whole(g) /\ UsedOf(g) = UsedOf(h) /\ \A c \in UsedOf(h) : Spared(h, g, c)

\* sbrk gives more memory.
SetHeapSize(h, s) == [h EXCEPT !.heap_size = s]
\* A larger heap_size changes no block.
LEMMA GrowIs ==
  ASSUME NEW h, NEW B, NEW F, Shape(h, B, F), Apart(h, F), NEW s \in Nat, h.end < s, s <= Limit,
         NEW g, g = SetHeapSize(h, s)
  PROVE  /\ Shape(g, B, F) /\ Apart(g, F) /\ Keeps(h, g) /\ FreeOf(g) = FreeOf(h)
         /\ g.end = h.end /\ g.heap_size = s /\ FreeChain(g) = F
         /\ \A c \in B : Same(h, g, c) /\ UserSize(g, c) = UserSize(h, c)
<1>0. /\ h \in HeapType /\ Body(h, B) /\ Listed(h, B, F) /\ Tiles(h, B) /\ Bounded(h) /\ Marked(h, B)
      /\ F \subseteq B
  BY DEF Shape, Body, Listed
<1>1. /\ g \in HeapType /\ g.mem = h.mem /\ g.end = h.end /\ g.heap_size = s
      /\ g.free_head = h.free_head /\ g.free_total = h.free_total
  BY <1>0 DEF SetHeapSize, HeapType
<1>2. \A c : /\ UserSize(g, c) = UserSize(h, c) /\ get_next_block(g, c) = get_next_block(h, c)
             /\ NextFree(g, c) = NextFree(h, c) /\ PrevFree(g, c) = PrevFree(h, c)
             /\ IsFree(g, c) = IsFree(h, c)
  BY <1>1 DEF UserSize, get_next_block, NextFree, PrevFree, IsFree
<1>3. \A c : Same(h, g, c)
  BY <1>1, <1>2 DEF Same, Spared
<1>4. Body(g, B)
  <2>1. Bounded(g)
    BY <1>1 DEF Bounded
  <2>2. Tiles(g, B)
    BY <1>0, <1>1, <1>2 DEF Tiles
  <2>3. Marked(g, B)
    BY <1>0, <1>1, <1>2 DEF Marked
  <2> QED BY <1>1, <2>1, <2>2, <2>3 DEF Body
<1>5. Listed(g, B, F)
  BY <1>0, <1>1, <1>2 DEF Listed, Chained
<1>6. Shape(g, B, F)
  BY <1>2, <1>4, <1>5 DEF Shape
<1>7. Apart(g, F)
  BY <1>2 DEF Apart
<1>8. Keeps(h, g) /\ FreeOf(g) = FreeOf(h)
  <2>1. UsedOf(h) = B \ F /\ FreeOf(h) = F /\ UsedOf(g) = B \ F /\ FreeOf(g) = F /\ Whole(g)
    BY <1>6, <1>7, WholeIs
  <2> QED BY <1>3, <2>1 DEF Keeps, Same
<1>9. FreeChain(g) = F
  BY <1>1, <1>5, ChainOf DEF Listed
<1> QED BY <1>1, <1>2, <1>3, <1>6, <1>7, <1>8, <1>9

\* Doubling until it is enough, or all that there is, ends at some size.
Doubled(g, D, E) == g = [s \in D |-> IF s \in E THEN g[s * GROWTH_RATIO] ELSE s]
\* The function that Expanded describes exists: it ends at the limit.
LEMMA DoubledExists ==
  ASSUME NEW D, D = 1..Limit, NEW E \in SUBSET D, \A s \in E : s * GROWTH_RATIO \in D
  PROVE  \E g : Doubled(g, D, E)
<1>1. PICK step : step = [s \in E |-> s * GROWTH_RATIO]
  OBVIOUS
<1>2. PICK f : Follows(f, D, E, step)
  <2>1. step \in [E -> D]
    BY <1>1
  <2> QED BY <2>1, Followed
<1>3. \A s \in D : s \in Nat /\ s > 0 /\ s <= Limit
  OBVIOUS
<1>4. /\ \A s \in E : s \in D /\ f[s] = {s} \cup f[s * 2] /\ s * 2 \in D
      /\ \A s \in D \ E : f[s] = {}
  BY <1>1, <1>2 DEF Follows, GROWTH_RATIO
<1>5. PICK T : T = {s \in D : ~(\A x \in f[s] : x \in E /\ x >= s)}
  OBVIOUS
<1>6. T = {}
  <2> SUFFICES ASSUME T # {} PROVE FALSE
    OBVIOUS
  <2>1. T \in SUBSET Nat /\ \A s \in T : s <= Limit
    BY <1>3, <1>5
  <2>2. PICK s \in T : \A t \in T : t <= s
    BY <2>1, GreatestNumber
  <2>3. s \in D
    BY <1>5
  <2>4. CASE s \notin E
    BY <1>4, <1>5, <2>3, <2>4
  <2>5. CASE s \in E
    <3>1. s * 2 \in D /\ s \in Nat /\ s > 0 /\ f[s] = {s} \cup f[s * 2]
      BY <1>3, <1>4, <2>5
    <3>2. ~(s * 2 <= s)
      BY <3>1
    <3>3. s * 2 \notin T
      BY <2>2, <3>2
    <3>4. \A x \in f[s * 2] : x \in E /\ x >= s * 2
      BY <1>5, <3>1, <3>3
    <3>5. ASSUME NEW x \in f[s * 2] PROVE x >= s
      <4>1. x \in Nat /\ x >= s * 2
        BY <1>3, <3>4
      <4> QED BY <3>1, <4>1
    <3>6. s >= s
      BY <3>1
    <3> QED BY <1>5, <2>5, <3>1, <3>4, <3>5, <3>6
  <2> QED BY <2>4, <2>5
<1>7. \A s \in D : \A x \in f[s] : x \in E /\ x \in Nat /\ x >= s /\ x <= Limit
  BY <1>3, <1>5, <1>6
<1> DEFINE last(s) == CHOOSE x \in f[s] : \A y \in f[s] : y <= x
           g == [s \in D |-> IF s \in E THEN last(s) * GROWTH_RATIO ELSE s]
<1>8. ASSUME NEW s \in E PROVE last(s) \in f[s] /\ \A y \in f[s] : y <= last(s)
  <2>1. f[s] \in SUBSET Nat /\ f[s] # {} /\ \A x \in f[s] : x <= Limit
    BY <1>4, <1>7
  <2>2. \E x \in f[s] : \A y \in f[s] : y <= x
    BY <2>1, GreatestNumber
  <2> QED BY <2>2
<1> HIDE DEF last
<1>9. ASSUME NEW s \in E PROVE last(s) * GROWTH_RATIO = g[s * GROWTH_RATIO]
  <2>0. s * GROWTH_RATIO = s * 2
    BY DEF GROWTH_RATIO
  <2>1. s \in Nat /\ s \in D /\ s * 2 \in D /\ f[s] = {s} \cup f[s * 2]
    BY <1>3, <1>4
  <2>2. CASE s * 2 \notin E
    <3>1. f[s] = {s}
      BY <1>4, <2>1, <2>2
    <3>2. last(s) = s
      BY <1>8, <3>1
    <3>3. g[s * 2] = s * 2
      BY <2>1, <2>2
    <3> QED BY <2>0, <3>2, <3>3
  <2>3. CASE s * 2 \in E
    <3>1. last(s * 2) \in f[s * 2] /\ \A y \in f[s * 2] : y <= last(s * 2)
      BY <1>8, <2>3
    <3>2. last(s) \in f[s] /\ \A y \in f[s] : y <= last(s)
      BY <1>8
    <3>3. last(s * 2) <= last(s)
      BY <2>1, <3>1, <3>2
    <3>4. last(s * 2) \in Nat /\ last(s * 2) >= s * 2 /\ last(s) \in Nat
      BY <1>7, <2>1, <3>1, <3>2
    <3>5. last(s) <= last(s * 2)
      <4>1. CASE last(s) = s
        BY <2>1, <3>4, <4>1
      <4>2. CASE last(s) \in f[s * 2]
        BY <3>1, <4>2
      <4> QED BY <2>1, <3>2, <4>1, <4>2
    <3>6. last(s) = last(s * 2)
      BY <3>3, <3>4, <3>5
    <3>7. g[s * 2] = last(s * 2) * GROWTH_RATIO
      BY <2>1, <2>3
    <3> QED BY <2>0, <3>6, <3>7
  <2> QED BY <2>2, <2>3
<1>10. g = [s \in D |-> IF s \in E THEN g[s * GROWTH_RATIO] ELSE s]
  <2>1. \A s \in D : g[s] = IF s \in E THEN g[s * GROWTH_RATIO] ELSE s
    BY <1>9
  <2>2. g = [s \in D |-> g[s]]
    OBVIOUS
  <2> HIDE DEF g
  <2> QED BY <2>1, <2>2
<1> QED BY <1>10 DEF Doubled

\* expand_heap makes the heap no smaller, and no larger than sbrk can.
LEMMA ExpandedIs ==
  ASSUME NEW h \in HeapType, h.heap_size > 0, h.heap_size <= Limit, NEW n \in Nat
  PROVE  \E s \in Nat : /\ Expanded(h, n) = SetHeapSize(h, s)
                        /\ s >= h.heap_size /\ s <= Limit
<1> DEFINE eq(g) == g = [s \in 1..Limit |->
                           IF h.end + n < s \/ s * GROWTH_RATIO > Limit THEN s
                           ELSE g[s * GROWTH_RATIO]]
           grown == CHOOSE g : eq(g)
<1>1. Expanded(h, n) = [h EXCEPT !.heap_size = grown[h.heap_size]]
  BY DEF Expanded
<1>2. PICK D : D = 1..Limit
  OBVIOUS
<1>3. \A s \in D : s \in Nat /\ s > 0 /\ s <= Limit
  BY <1>2
<1>4. eq(grown)
  <2>1. PICK E : E = {s \in D : ~(h.end + n < s \/ s * GROWTH_RATIO > Limit)}
    OBVIOUS
  <2>2. \A s \in E : s * GROWTH_RATIO \in D
    <3>1. ASSUME NEW s \in E PROVE s * 2 \in D
      <4>1. s \in Nat /\ s > 0 /\ ~(s * 2 > Limit)
        BY <1>3, <2>1 DEF GROWTH_RATIO
      <4> QED BY <1>2, <4>1
    <3> QED BY <3>1 DEF GROWTH_RATIO
  <2>3. PICK g : Doubled(g, D, E)
    <3>1. E \in SUBSET D
      BY <2>1
    <3> QED BY <1>2, <2>2, <3>1, DoubledExists
  <2>4. eq(g)
    <3>1. [s \in D |-> IF s \in E THEN g[s * GROWTH_RATIO] ELSE s]
          = [s \in D |-> IF h.end + n < s \/ s * GROWTH_RATIO > Limit THEN s
                         ELSE g[s * GROWTH_RATIO]]
      <4>1. \A s \in D : s \in E <=> ~(h.end + n < s \/ s * GROWTH_RATIO > Limit)
        BY <2>1
      <4> QED BY <4>1, Zenon
    <3> QED BY <1>2, <2>3, <3>1, Zenon DEF Doubled
  <2> HIDE DEF eq
  <2> QED BY <2>4
<1>5. \A s \in D : grown[s] = s \/ (s * 2 \in D /\ grown[s] = grown[s * 2])
  <2>1. ASSUME NEW s \in D PROVE grown[s] = s \/ (s * 2 \in D /\ grown[s] = grown[s * 2])
    <3>1. grown[s] = IF h.end + n < s \/ s * 2 > Limit THEN s ELSE grown[s * 2]
      BY <1>2, <1>4 DEF GROWTH_RATIO
    <3> HIDE DEF grown, eq
    <3>2. s * 2 > Limit \/ s * 2 \in D
      BY <1>2, <1>3
    <3> QED BY <3>1, <3>2
  <2> QED BY <2>1
<1> HIDE DEF grown, eq
<1>6. PICK T : T = {s \in D : ~(grown[s] \in Nat /\ grown[s] >= s /\ grown[s] <= Limit)}
  OBVIOUS
<1>7. T = {}
  <2> SUFFICES ASSUME T # {} PROVE FALSE
    OBVIOUS
  <2>1. T \in SUBSET Nat /\ \A s \in T : s <= Limit
    BY <1>3, <1>6
  <2>2. PICK s \in T : \A t \in T : t <= s
    BY <2>1, GreatestNumber
  <2>3. s \in D /\ s \in Nat /\ s > 0 /\ s <= Limit
    BY <1>3, <1>6
  <2>4. CASE grown[s] = s
    BY <1>6, <2>3, <2>4
  <2>5. CASE s * 2 \in D /\ grown[s] = grown[s * 2]
    <3>1. ~(s * 2 <= s)
      BY <2>3
    <3>2. s * 2 \notin T
      BY <2>2, <3>1
    <3>3. grown[s] \in Nat /\ grown[s] >= s * 2 /\ grown[s] <= Limit
      BY <1>6, <2>5, <3>2
    <3>4. grown[s] >= s
      BY <2>3, <3>3
    <3> QED BY <1>6, <3>3, <3>4
  <2> QED BY <1>5, <2>3, <2>4, <2>5
<1>8. h.heap_size \in D
  BY <1>2 DEF HeapType
<1>9. PICK s : s = grown[h.heap_size]
  OBVIOUS
<1>10. s \in Nat /\ s >= h.heap_size /\ s <= Limit
  BY <1>6, <1>7, <1>8, <1>9
<1> QED BY <1>1, <1>9, <1>10 DEF SetHeapSize

\* What malloc does: a block of n units or more, or NULL.
Mallocs(h, r, n) ==
    \/ r.ptr = NULL /\ Keeps(h, r.heap) /\ \A c \in FreeOf(h) : ~(UserSize(h, c) >= n)
    \/ \E b \in Spots : r.ptr = b + BLOCK_SIZE /\ Gives(h, r.heap, b, n)

\* malloc gives a block of its own, or NULL when no free block has the room.
LEMMA MallocIs ==
  ASSUME NEW h0, Whole(h0), NEW n \in Nat, NEW r, r = Malloc(h0, n)
  PROVE  Mallocs(h0, r, n)
<1>1. PICK B, F : Shape(h0, B, F) /\ Apart(h0, F) /\ UsedOf(h0) = B \ F /\ FreeOf(h0) = F
  BY WholeHas
<1>2. h0 \in HeapType /\ Bounded(h0) /\ F \subseteq B /\ B \subseteq Spots
  BY <1>1 DEF Shape, Body, Listed
<1>3. PICK h : h = IF h0.heap_size = 0 THEN SetHeapSize(h0, HEAP_INIT_SIZE) ELSE h0
  OBVIOUS
<1>4. /\ Shape(h, B, F) /\ Apart(h, F) /\ Keeps(h0, h) /\ FreeOf(h) = F /\ UsedOf(h) = B \ F
      /\ h.heap_size > 0 /\ FreeChain(h) = F
      /\ \A c \in B : UserSize(h, c) = UserSize(h0, c)
  <2>1. CASE h0.heap_size = 0
    <3>1. h0.end < HEAP_INIT_SIZE /\ HEAP_INIT_SIZE \in Nat /\ HEAP_INIT_SIZE <= Limit
          /\ HEAP_INIT_SIZE > 0
      BY <1>2, <2>1 DEF Bounded, HeapType
    <3>2. h = SetHeapSize(h0, HEAP_INIT_SIZE)
      BY <1>3, <2>1
    <3>3. /\ Shape(h, B, F) /\ Apart(h, F) /\ Keeps(h0, h) /\ FreeOf(h) = FreeOf(h0)
          /\ h.heap_size = HEAP_INIT_SIZE /\ FreeChain(h) = F
          /\ \A c \in B : UserSize(h, c) = UserSize(h0, c)
      BY <1>1, <3>1, <3>2, GrowIs
    <3> QED BY <1>1, <3>1, <3>3 DEF Keeps
  <2>2. CASE h0.heap_size # 0
    <3>1. h = h0
      BY <1>3, <2>2
    <3>2. Keeps(h0, h0)
      <4>1. Whole(h0) /\ \A c : Spared(h0, h0, c)
        BY DEF Spared
      <4> QED BY <4>1 DEF Keeps
    <3>3. h0.heap_size > 0
      BY <1>2, <2>2 DEF HeapType
    <3>4. FreeChain(h0) = F
      BY <1>1, <1>2, ChainOf DEF Shape, Listed
    <3> QED BY <1>1, <3>1, <3>2, <3>3, <3>4
  <2> QED BY <2>1, <2>2
<1>5. h \in HeapType /\ Bounded(h) /\ h.heap_size <= Limit /\ h.heap_size \in Nat
      /\ h.end \in Nat /\ h.end < h.heap_size
  <2>1. h \in HeapType /\ Bounded(h)
    BY <1>4 DEF Shape, Body
  <2> QED BY <1>4, <2>1 DEF Bounded, HeapType
<1>6. PICK total : total = n + META_DATA_SIZE
  OBVIOUS
<1>7. PICK fits : fits = {c \in FreeChain(h) : UserSize(h, c) >= n}
  OBVIOUS
<1>8. PICK grown : grown = Expanded(h, total)
  OBVIOUS
<1>9. r = CASE fits # {} ->
                 [heap |-> init_old_block(h, Min(fits), n), ptr |-> Min(fits) + BLOCK_SIZE]
            [] fits = {} /\ h.end + total >= grown.heap_size -> [heap |-> grown, ptr |-> NULL]
            [] OTHER ->
                 [heap |-> [WriteHeader(grown, h.end, FALSE, n) EXCEPT !.end = h.end + total],
                  ptr |-> h.end + BLOCK_SIZE]
  BY <1>3, <1>6, <1>7, <1>8, Zenon DEF Malloc, SetHeapSize
<1>10. \A c \in UsedOf(h0) : Spared(h0, h, c)
  BY <1>4 DEF Keeps
<1>11. CASE fits # {}
  <2>1. PICK b : b = Min(fits)
    OBVIOUS
  <2>2. r = [heap |-> init_old_block(h, b, n), ptr |-> b + BLOCK_SIZE]
    BY <1>9, <1>11, <2>1, Zenon
  <2>3. b \in F /\ UserSize(h, b) >= n
    <3>1. \A c \in fits : c \in F /\ UserSize(h, c) >= n
      BY <1>4, <1>7
    <3>2. fits \in SUBSET Nat
      BY <1>2, <3>1, SpotsFit
    <3>3. b \in fits
      BY <1>11, <2>1, <3>2, MinIs
    <3> QED BY <3>1, <3>3
  <2>4. PICK g : g = init_old_block(h, b, n)
    OBVIOUS
  <2>5. Whole(h) /\ b \in FreeOf(h)
    BY <1>4, <2>3, WholeIs
  <2>6. Gives(h, g, b, n)
    BY <2>3, <2>4, <2>5, OldIs
  <2>7. Gives(h0, g, b, n)
    <3>1. UsedOf(h0) = UsedOf(h)
      BY <1>1, <1>4
    <3>2. \A c \in UsedOf(h0) : Spared(h, g, c)
      BY <2>6, <3>1 DEF Gives
    <3>3. \A c \in UsedOf(h0) : Spared(h0, g, c)
      BY <1>10, <3>2, SparedTwice
    <3> QED BY <2>6, <3>1, <3>3 DEF Gives
  <2>8. r.heap = g /\ r.ptr = b + BLOCK_SIZE /\ b \in Spots
    BY <1>2, <2>2, <2>3, <2>4
  <2> QED BY <2>7, <2>8 DEF Mallocs
<1>12. CASE fits = {}
  <2>1. PICK s \in Nat : grown = SetHeapSize(h, s) /\ s >= h.heap_size /\ s <= Limit
    <3>1. total \in Nat
      BY <1>6 DEF META_DATA_SIZE
    <3> QED BY <1>4, <1>5, <1>8, <3>1, ExpandedIs
  <2>2. /\ Shape(grown, B, F) /\ Apart(grown, F) /\ Keeps(h, grown) /\ grown.end = h.end
        /\ grown.heap_size = s /\ FreeOf(grown) = F
    <3>1. h.end < s
      BY <1>5, <2>1
    <3> QED BY <1>4, <2>1, <3>1, GrowIs
  <2>3. Keeps(h0, grown)
    <3>1. \A c \in UsedOf(h0) : Spared(h, grown, c)
      BY <1>1, <1>4, <2>2 DEF Keeps
    <3>2. \A c \in UsedOf(h0) : Spared(h0, grown, c)
      BY <1>10, <3>1, SparedTwice
    <3> QED BY <1>1, <1>4, <2>2, <3>2 DEF Keeps
  <2>4. CASE h.end + total >= grown.heap_size
    <3>1. r = [heap |-> grown, ptr |-> NULL]
      BY <1>9, <1>12, <2>4, Zenon
    <3>2. \A c \in FreeOf(h0) : ~(UserSize(h0, c) >= n)
      <4>1. \A c \in F : ~(UserSize(h, c) >= n)
        BY <1>4, <1>7, <1>12
      <4> QED BY <1>1, <1>2, <1>4, <4>1
    <3>3. r.heap = grown /\ r.ptr = NULL
      BY <3>1
    <3> QED BY <2>3, <3>2, <3>3 DEF Mallocs
  <2>5. CASE ~(h.end + total >= grown.heap_size)
    <3>1. PICK g : g = [WriteHeader(grown, h.end, FALSE, n) EXCEPT !.end = h.end + total]
      OBVIOUS
    <3>2. r = [heap |-> g, ptr |-> h.end + BLOCK_SIZE]
      BY <1>9, <1>12, <2>5, <3>1, Zenon
    <3>3. g = Extend(grown, n)
      BY <1>6, <2>2, <3>1, Zenon DEF Extend
    <3>4. grown.end + n + 3 < grown.heap_size
      BY <1>5, <1>6, <2>2, <2>5 DEF META_DATA_SIZE
    <3>5. Extending(grown, g, B, n)
      <4>1. Body(grown, B)
        BY <2>2 DEF Shape
      <4> QED BY <3>3, <3>4, <4>1, ExtendingIs
    <3>6. PICK b : b = h.end
      OBVIOUS
    <3>7. /\ Body(g, B \cup {b}) /\ b \notin B /\ b \in Spots /\ b \notin F
          /\ \A c \in B : Same(grown, g, c)
          /\ SameLinks(grown, g, B) /\ NextFree(g, b) = NULL /\ PrevFree(g, b) = NULL
          /\ UserSize(g, b) = n /\ ~IsFree(g, b)
      BY <1>2, <2>2, <3>5, <3>6 DEF Extending
    <3>8. Listed(g, B \cup {b}, F)
      <4>1. B \cap (B \cup {b}) = B /\ (B \cup {b}) \ B = {b} /\ B \cup {b} \subseteq Spots
            /\ F \subseteq B \cup {b}
        BY <1>2, <3>7
      <4>2. SameLinks(grown, g, B \cap (B \cup {b}))
        BY <3>7, <4>1
      <4>3. \A c \in (B \cup {b}) \ B : NextFree(g, c) = NULL /\ PrevFree(g, c) = NULL
        BY <3>7, <4>1
      <4>4. Listed(grown, B, F)
        BY <2>2 DEF Shape
      <4> QED BY <4>1, <4>2, <4>3, <4>4, ListedStill
    <3>9. ASSUME NEW c \in B \cup {b} PROVE IsFree(g, c) <=> c \in F
      <4>1. CASE c = b
        BY <3>7, <4>1
      <4>2. CASE c \in B
        <5>1. IsFree(g, c) = IsFree(grown, c)
          BY <3>7, <4>2 DEF Same
        <5>2. IsFree(grown, c) <=> c \in F
          BY <2>2, <4>2 DEF Shape
        <5> QED BY <5>1, <5>2
      <4> QED BY <4>1, <4>2
    <3>10. Shape(g, B \cup {b}, F)
      BY <3>7, <3>8, <3>9 DEF Shape
    <3>11. Apart(g, F)
      BY <1>2, <2>2, <3>7 DEF Apart, Same
    <3>12. Whole(g) /\ UsedOf(g) = (B \cup {b}) \ F
      BY <3>10, <3>11, WholeIs
    <3>13. (B \cup {b}) \ F = (B \ F) \cup {b} /\ b \notin B \ F
      BY <3>7
    <3>14. \A c \in B \ F : Spared(h0, g, c)
      <4>1. \A c \in B \ F : Spared(h0, grown, c) /\ Spared(grown, g, c)
        BY <1>1, <2>3, <3>7 DEF Keeps, Same
      <4> QED BY <4>1, SparedTwice
    <3>15. UserSize(g, b) \in Nat /\ UserSize(g, b) >= n
      BY <3>7
    <3>16. Gives(h0, g, b, n)
      BY <1>1, <3>12, <3>13, <3>14, <3>15 DEF Gives
    <3>17. r.heap = g /\ r.ptr = b + BLOCK_SIZE
      BY <3>2, <3>6
    <3> QED BY <3>7, <3>16, <3>17 DEF Mallocs
  <2> QED BY <2>4, <2>5
<1> QED BY <1>11, <1>12

\* What free does: the block is no longer in use, nobody else's block changes,
\* and some free block is as large as it was.
Frees(h, g, b) ==
    /\ Whole(g) /\ UsedOf(g) = UsedOf(h) \ {b}
    /\ \A c \in UsedOf(g) : Spared(h, g, c)
    /\ \E c \in FreeOf(g) : UserSize(g, c) >= UserSize(h, b)

\* The block is marked and put into the list.
Putting(h, i, B, F, b) ==
    /\ Shape(i, B, F \cup {b})
    /\ \A c \in B : Spared(h, i, c) /\ get_next_block(i, c) = get_next_block(h, c)

\* A block in use that is marked and inserted is a free one.
LEMMA PuttingIs ==
  ASSUME NEW h, NEW B, NEW F, Shape(h, B, F), NEW b \in B \ F, NEW v \in BOOLEAN, Yes(v),
         NEW i, i = insert_free_block(SetFree(h, b, v), b)
  PROVE  Putting(h, i, B, F, b)
<1>0. /\ h \in HeapType /\ Body(h, B) /\ Listed(h, B, F) /\ F \subseteq B /\ B \subseteq Spots
      /\ b \in B
  BY DEF Shape, Body, Listed
<1>1. PICK m : m = SetFree(h, b, v)
  OBVIOUS
<1>2. Flagging(h, m, B, b, v)
  BY <1>0, <1>1, FlaggingIs
<1>3. Listed(m, B, F) /\ Body(m, B) /\ m \in HeapType
  <2>1. B \cap B = B /\ B \ B = {} /\ F \subseteq B
    BY <1>0
  <2>2. SameLinks(h, m, B \cap B)
    BY <1>2, <2>1 DEF Flagging
  <2>3. \A c \in B \ B : NextFree(m, c) = NULL /\ PrevFree(m, c) = NULL
    BY <2>1
  <2>4. Listed(m, B, F)
    BY <1>0, <2>1, <2>2, <2>3, ListedStill
  <2> QED BY <1>2, <2>4 DEF Flagging, Body
<1>4. Relinks(m, i, B) /\ Listed(i, B, F \cup {b})
  BY <1>1, <1>3, InsertIs
<1>5. /\ Body(i, B)
      /\ \A c \in B : Spared(m, i, c) /\ IsFree(i, c) = IsFree(m, c)
                      /\ get_next_block(i, c) = get_next_block(m, c)
  BY <1>3, <1>4, RelinksBody
<1>6. ASSUME NEW c \in B PROVE IsFree(i, c) <=> c \in F \cup {b}
  <2>1. CASE c = b
    BY <1>2, <1>5, <2>1, Zenon DEF Flagging, Yes
  <2>2. CASE c # b
    <3>1. IsFree(m, c) = IsFree(h, c)
      BY <1>2, <2>2 DEF Flagging
    <3>2. IsFree(i, c) = IsFree(m, c)
      BY <1>5
    <3>3. IsFree(h, c) <=> c \in F
      BY DEF Shape
    <3> QED BY <2>2, <3>1, <3>2, <3>3
  <2> QED BY <2>1, <2>2
<1>7. Shape(i, B, F \cup {b})
  BY <1>4, <1>5, <1>6 DEF Shape
<1>8. ASSUME NEW c \in B
      PROVE  Spared(h, i, c) /\ get_next_block(i, c) = get_next_block(h, c)
  <2>1. Spared(h, m, c) /\ get_next_block(m, c) = get_next_block(h, c)
    BY <1>2 DEF Flagging
  <2>2. Spared(m, i, c) /\ get_next_block(i, c) = get_next_block(m, c)
    BY <1>5
  <2> QED BY <2>1, <2>2, SparedTwice
<1> QED BY <1>7, <1>8 DEF Putting

\* free after it has looked at the next block: B1 are the blocks, F1 the free
\* ones; only the block before b can be the free neighbour of another.
Ahead(h, g, B, F, b, B1, F1) ==
    /\ Shape(g, B1, F1) /\ B1 \subseteq B /\ B1 \ F1 = (B \ F) \ {b}
    /\ b \in F1 /\ F1 \ {b} \subseteq F /\ \A c \in F : c < b => c \in F1
    /\ get_next_block(g, b) \notin F1
    /\ UserSize(g, b) \in Nat /\ UserSize(g, b) >= UserSize(h, b)
    /\ \A c \in B1 \ {b} : Spared(h, g, c) /\ get_next_block(g, c) = get_next_block(h, c)

\* After that and the merge with the block behind, only the block before can be
\* a free neighbour.
LEMMA AheadIs ==
  ASSUME NEW h, NEW B, NEW F, Shape(h, B, F), Apart(h, F), NEW b \in B \ F,
         NEW i, Putting(h, i, B, F, b), NEW next, next = get_next_block(h, b),
         NEW g, g = IF next # h.end /\ IsFree(h, next) THEN merge_free_free(i, b, next) ELSE i
  PROVE  \E B1, F1 : Ahead(h, g, B, F, b, B1, F1)
<1>0. /\ h \in HeapType /\ Tiles(h, B) /\ Bounded(h) /\ F \subseteq B /\ b \in B
      /\ \A c \in B : IsFree(h, c) <=> c \in F
  BY DEF Shape, Body, Listed
<1>1. /\ b \in Nat /\ UserSize(h, b) \in Nat /\ next = b + UserSize(h, b) + 3
      /\ \A c \in B : c \in Nat
  <2>1. b \in Nat /\ UserSize(h, b) \in Nat /\ next = b + UserSize(h, b) + 3
    BY <1>0, BlocksFit
  <2> QED BY <1>0, <2>1 DEF Tiles
<1>2. next \in B \cup {h.end}
  BY <1>0 DEF Tiles
<1>3. PICK E : E = F \cup {b}
  OBVIOUS
<1>4. /\ Shape(i, B, E) /\ UserSize(i, b) = UserSize(h, b)
      /\ \A c \in B : Spared(h, i, c) /\ get_next_block(i, c) = get_next_block(h, c)
  BY <1>0, <1>3 DEF Putting, Spared
<1>5. b # next
  BY <1>1
<1>6. CASE next # h.end /\ IsFree(h, next)
  <2>1. next \in F /\ next \in B
    BY <1>0, <1>2, <1>6
  <2>2. g = merge_free_free(i, b, next)
    BY <1>6
  <2>3. FreesMerged(i, g, B, E, b, next)
    <3>1. b \in E /\ next \in E /\ get_next_block(i, b) = next
      BY <1>0, <1>3, <1>4, <2>1
    <3> QED BY <1>4, <2>2, <3>1, MergeFreeIs
  <2>4. /\ Shape(g, B \ {next}, E \ {next})
        /\ UserSize(g, b) >= UserSize(i, b) /\ UserSize(g, b) \in Nat
        /\ get_next_block(g, b) = get_next_block(i, next)
        /\ \A c \in B \ {b, next} : Spared(i, g, c) /\ get_next_block(g, c) = get_next_block(i, c)
    BY <2>3 DEF FreesMerged
  <2>5. get_next_block(g, b) \notin E \ {next}
    <3>1. get_next_block(g, b) = get_next_block(h, next)
      BY <1>4, <2>1, <2>4
    <3>2. get_next_block(h, next) \notin F
      BY <2>1 DEF Apart
    <3>3. get_next_block(h, next) # b
      <4>1. next \in Nat /\ UserSize(h, next) \in Nat
            /\ get_next_block(h, next) = next + UserSize(h, next) + 3
        BY <1>0, <2>1, BlocksFit
      <4> QED BY <1>1, <4>1
    <3> QED BY <1>3, <3>1, <3>2, <3>3
  <2>6. \A c \in F : c < b => c \in E \ {next}
    <3>1. ~(next < b)
      BY <1>1
    <3> QED BY <1>3, <3>1
  <2>7. ASSUME NEW c \in (B \ {next}) \ {b}
        PROVE  Spared(h, g, c) /\ get_next_block(g, c) = get_next_block(h, c)
    <3>1. Spared(h, i, c) /\ get_next_block(i, c) = get_next_block(h, c)
      BY <1>4
    <3>2. Spared(i, g, c) /\ get_next_block(g, c) = get_next_block(i, c)
      BY <2>4
    <3> QED BY <3>1, <3>2, SparedTwice
  <2>8. /\ (B \ {next}) \ (E \ {next}) = (B \ F) \ {b} /\ b \in E \ {next}
        /\ (E \ {next}) \ {b} \subseteq F /\ B \ {next} \subseteq B
    BY <1>0, <1>3, <1>5, <2>1
  <2>9. UserSize(g, b) \in Nat /\ UserSize(g, b) >= UserSize(h, b)
    BY <1>4, <2>4
  <2>10. Ahead(h, g, B, F, b, B \ {next}, E \ {next})
    BY <2>4, <2>5, <2>6, <2>7, <2>8, <2>9 DEF Ahead
  <2> QED BY <2>10
<1>7. CASE ~(next # h.end /\ IsFree(h, next))
  <2>1. g = i
    BY <1>7
  <2>2. next \notin E
    <3>1. next \notin F
      <4>1. CASE next = h.end
        <5>1. \A c \in B : c # h.end
          <6>1. \A c \in B : c < h.end /\ c \in Nat
            BY <1>0, <1>1 DEF Tiles
          <6>2. h.end \in Nat
            BY <1>0 DEF HeapType
          <6> QED BY <6>1, <6>2
        <5> QED BY <1>0, <4>1, <5>1
      <4>2. CASE next # h.end
        BY <1>0, <1>2, <1>7, <4>2
      <4> QED BY <4>1, <4>2
    <3> QED BY <1>3, <1>5, <3>1
  <2>3. get_next_block(g, b) \notin E
    BY <1>0, <1>4, <2>1, <2>2
  <2>4. /\ B \ E = (B \ F) \ {b} /\ b \in E /\ E \ {b} \subseteq F /\ B \subseteq B
        /\ \A c \in F : c < b => c \in E
    BY <1>3
  <2>5. UserSize(g, b) \in Nat /\ UserSize(g, b) >= UserSize(h, b)
    BY <1>1, <1>4, <2>1
  <2>6. Ahead(h, g, B, F, b, B, E)
    BY <1>4, <2>1, <2>3, <2>4, <2>5 DEF Ahead
  <2> QED BY <2>6
<1> QED BY <1>6, <1>7

\* free gives a block back.
LEMMA FreedIs ==
  ASSUME NEW h, Whole(h), NEW b \in UsedOf(h), NEW p, p = b + BLOCK_SIZE, NEW g, g = Freed(h, p)
  PROVE  Frees(h, g, b)
<1>1. PICK B, F : Shape(h, B, F) /\ Apart(h, F) /\ UsedOf(h) = B \ F /\ FreeOf(h) = F
  BY WholeHas
<1>2. /\ b \in B /\ b \notin F /\ b \in Nat /\ UserSize(h, b) \in Nat /\ h \in HeapType
      /\ Tiles(h, B) /\ F \subseteq B /\ Bounded(h) /\ Body(h, B)
      /\ \A c \in B : IsFree(h, c) <=> c \in F
  <2>1. /\ b \in B /\ b \notin F /\ F \subseteq B /\ h \in HeapType /\ Bounded(h) /\ Tiles(h, B)
        /\ Body(h, B) /\ \A c \in B : IsFree(h, c) <=> c \in F
    BY <1>1 DEF Shape, Body, Listed
  <2> QED BY <2>1, BlocksFit
<1>3. PICK v : v = TRUE
  OBVIOUS
<1>4. v \in BOOLEAN /\ Yes(v)
  BY <1>3 DEF Yes
<1>5. PICK i : i = insert_free_block(SetFree(h, b, v), b)
  OBVIOUS
<1>6. PICK next : next = get_next_block(h, b)
  OBVIOUS
<1>7. PICK ahead : ahead = IF next # h.end /\ IsFree(h, next)
                           THEN merge_free_free(i, b, next) ELSE i
  OBVIOUS
<1>8. PICK prev : prev = get_prev_block(h, b)
  OBVIOUS
<1>9. g = IF prev # NULL /\ IsFree(h, prev) THEN merge_free_free(ahead, prev, b) ELSE ahead
  <2>1. p - BLOCK_SIZE = b
    BY <1>2 DEF BLOCK_SIZE
  <2>2. i = insert_free_block([h EXCEPT !.mem[b].free = TRUE], b)
    BY <1>3, <1>5, Zenon DEF SetFree
  <2> QED BY <1>6, <1>7, <1>8, <2>1, <2>2, Zenon DEF Freed
<1>10. Putting(h, i, B, F, b)
  BY <1>1, <1>2, <1>4, <1>5, PuttingIs
<1>11. PICK B1, F1 : Ahead(h, ahead, B, F, b, B1, F1)
  BY <1>1, <1>2, <1>6, <1>7, <1>10, AheadIs
<1>12. /\ Shape(ahead, B1, F1) /\ B1 \subseteq B /\ B1 \ F1 = (B \ F) \ {b}
       /\ b \in F1 /\ F1 \ {b} \subseteq F /\ F1 \subseteq B1
       /\ get_next_block(ahead, b) \notin F1
       /\ UserSize(ahead, b) \in Nat /\ UserSize(ahead, b) >= UserSize(h, b)
       /\ \A c \in B1 \ {b} : Spared(h, ahead, c)
                              /\ get_next_block(ahead, c) = get_next_block(h, c)
  BY <1>11 DEF Ahead, Shape, Listed
<1>13. IF b = 0 THEN prev = NULL
       ELSE prev \in B /\ get_next_block(h, prev) = b
  BY <1>2, <1>8, PrevBlock
<1>14. CASE prev # NULL /\ IsFree(h, prev)
  <2>1. prev \in F /\ get_next_block(h, prev) = b /\ prev < b /\ prev # b
    <3>1. prev \in B /\ get_next_block(h, prev) = b
      BY <1>13, <1>14
    <3>2. prev \in Nat /\ UserSize(h, prev) \in Nat
          /\ get_next_block(h, prev) = prev + UserSize(h, prev) + 3
      BY <1>2, <3>1, BlocksFit
    <3> QED BY <1>2, <1>14, <3>1, <3>2
  <2>2. prev \in F1 /\ prev \in B1 \ {b}
    BY <1>11, <1>12, <2>1 DEF Ahead
  <2>3. FreesMerged(ahead, g, B1, F1, prev, b)
    <3>1. get_next_block(ahead, prev) = b /\ g = merge_free_free(ahead, prev, b)
      BY <1>9, <1>12, <1>14, <2>1, <2>2
    <3> QED BY <1>12, <2>2, <3>1, MergeFreeIs
  <2>4. /\ Shape(g, B1 \ {b}, F1 \ {b})
        /\ UserSize(g, prev) \in Nat /\ UserSize(g, prev) >= UserSize(ahead, b)
        /\ get_next_block(g, prev) = get_next_block(ahead, b)
        /\ \A c \in B1 \ {prev, b} : Spared(ahead, g, c)
                                     /\ get_next_block(g, c) = get_next_block(ahead, c)
    BY <2>3 DEF FreesMerged
  <2>5. Apart(g, F1 \ {b})
    <3>1. ASSUME NEW c \in F1 \ {b} PROVE get_next_block(g, c) \notin F1 \ {b}
      <4>1. CASE c = prev
        BY <1>12, <2>4, <4>1
      <4>2. CASE c # prev
        <5>1. get_next_block(g, c) = get_next_block(h, c) /\ c \in F
          BY <1>12, <2>4, <4>2
        <5>2. get_next_block(h, c) \notin F
          BY <1>1, <5>1 DEF Apart
        <5> QED BY <1>12, <5>1, <5>2
      <4> QED BY <4>1, <4>2
    <3> QED BY <3>1 DEF Apart
  <2>6. Whole(g) /\ UsedOf(g) = (B1 \ {b}) \ (F1 \ {b}) /\ FreeOf(g) = F1 \ {b}
    BY <2>4, <2>5, WholeIs
  <2>7. (B1 \ {b}) \ (F1 \ {b}) = (B \ F) \ {b}
    BY <1>12
  <2>8. ASSUME NEW c \in (B \ F) \ {b} PROVE Spared(h, g, c)
    <3>1. c \in B1 \ {prev, b}
      BY <1>12, <2>1
    <3>2. Spared(h, ahead, c) /\ Spared(ahead, g, c)
      BY <1>12, <2>4, <3>1
    <3> QED BY <3>2, SparedTwice
  <2>9. prev \in FreeOf(g) /\ UserSize(g, prev) >= UserSize(h, b)
    BY <1>2, <1>12, <2>1, <2>2, <2>4, <2>6
  <2> QED BY <1>1, <2>6, <2>7, <2>8, <2>9 DEF Frees
<1>15. CASE ~(prev # NULL /\ IsFree(h, prev))
  <2>1. g = ahead
    BY <1>9, <1>15
  <2>2. Apart(ahead, F1)
    <3>1. ASSUME NEW c \in F1 PROVE get_next_block(ahead, c) \notin F1
      <4>1. CASE c = b
        BY <1>12, <4>1
      <4>2. CASE c # b
        <5>1. c \in B1 \ {b} /\ c \in F /\ c \in B
          BY <1>12, <4>2
        <5>2. get_next_block(ahead, c) = get_next_block(h, c)
          BY <1>12, <5>1
        <5>3. get_next_block(h, c) \notin F
          BY <1>1, <5>1 DEF Apart
        <5>4. get_next_block(h, c) # b
          <6>1. SUFFICES ASSUME get_next_block(h, c) = b PROVE FALSE
            OBVIOUS
          <6>2. /\ c \in Nat /\ UserSize(h, c) \in Nat
                /\ get_next_block(h, c) = c + UserSize(h, c) + 3
            BY <1>2, <5>1, BlocksFit
          <6>3. b # 0
            BY <6>1, <6>2
          <6>4. prev \in B /\ get_next_block(h, prev) = b
            BY <1>13, <6>3
          <6>5. /\ prev \in Nat /\ UserSize(h, prev) \in Nat
                /\ get_next_block(h, prev) = prev + UserSize(h, prev) + 3
            BY <1>2, <6>4, BlocksFit
          <6>6. prev = c
            <7>1. /\ prev < c => get_next_block(h, prev) <= c
                  /\ c < prev => get_next_block(h, c) <= prev
              BY <1>2, <5>1, <6>4 DEF Tiles
            <7> QED BY <1>2, <6>1, <6>2, <6>4, <6>5, <7>1
          <6>7. prev # NULL
            BY <6>5 DEF NULL
          <6> QED BY <1>2, <1>15, <5>1, <6>6, <6>7
        <5> QED BY <1>12, <5>2, <5>3, <5>4
      <4> QED BY <4>1, <4>2
    <3> QED BY <3>1 DEF Apart
  <2>3. Whole(g) /\ UsedOf(g) = B1 \ F1 /\ FreeOf(g) = F1
    BY <1>12, <2>1, <2>2, WholeIs
  <2>4. \A c \in (B \ F) \ {b} : Spared(h, g, c)
    BY <1>12, <2>1
  <2>5. b \in FreeOf(g) /\ UserSize(g, b) >= UserSize(h, b)
    BY <1>12, <2>1, <2>3
  <2> QED BY <1>1, <1>12, <2>3, <2>4, <2>5 DEF Frees
<1> QED BY <1>14, <1>15

\* realloc gives a block the free block behind it.
Widens(h, g, b) ==
    /\ Whole(g) /\ UsedOf(g) = UsedOf(h)
    /\ \A c \in UsedOf(h) \ {b} : Spared(h, g, c)
    /\ UserSize(g, b) \in Nat /\ UserSize(g, b) >= UserSize(h, b)
    /\ \A k \in Addresses : b + BLOCK_SIZE <= k /\ k < b + BLOCK_SIZE + UserSize(h, b)
                            => g.mem[k] = h.mem[k]

\* merge_unfree_free takes the free block behind from the list and widens.
LEMMA WidenIs ==
  ASSUME NEW h, Whole(h), NEW b \in UsedOf(h), NEW next, next = get_next_block(h, b),
         NEW g, g = IF next # h.end /\ IsFree(h, next) THEN merge_unfree_free(h, b, next) ELSE h
  PROVE  Widens(h, g, b)
<1>1. PICK B, F : Shape(h, B, F) /\ Apart(h, F) /\ UsedOf(h) = B \ F /\ FreeOf(h) = F
  BY WholeHas
<1>2. /\ b \in B /\ b \notin F /\ b \in Nat /\ UserSize(h, b) \in Nat /\ h \in HeapType
      /\ Tiles(h, B) /\ F \subseteq B /\ Bounded(h) /\ Body(h, B) /\ B \subseteq Spots
      /\ \A c \in B : IsFree(h, c) <=> c \in F
  <2>1. /\ b \in B /\ b \notin F /\ F \subseteq B /\ h \in HeapType /\ Bounded(h) /\ Tiles(h, B)
        /\ Body(h, B) /\ \A c \in B : IsFree(h, c) <=> c \in F
        /\ B \subseteq Spots
    BY <1>1 DEF Shape, Body, Listed
  <2> QED BY <2>1, BlocksFit
<1>3. CASE ~(next # h.end /\ IsFree(h, next))
  <2>1. g = h
    BY <1>3
  <2>2. \A c : Spared(h, h, c)
    BY DEF Spared
  <2> QED BY <1>2, <2>1, <2>2 DEF Widens
<1>4. CASE next # h.end /\ IsFree(h, next)
  <2>1. next \in F /\ next \in B
    BY <1>2, <1>4 DEF Tiles
  <2>2. PICK r : r = remove_free_block(h, next)
    OBVIOUS
  <2>3. Relinks(h, r, B) /\ Listed(r, B, F \ {next})
    <3>1. Listed(h, B, F) /\ next \in F
      BY <1>1, <2>1 DEF Shape
    <3> QED BY <1>2, <2>2, <3>1, RemoveIs
  <2>4. /\ Body(r, B)
        /\ \A c \in B : Spared(h, r, c) /\ IsFree(r, c) = IsFree(h, c)
                        /\ get_next_block(r, c) = get_next_block(h, c)
    BY <1>2, <2>3, RelinksBody
  <2>5. UserSize(r, b) = UserSize(h, b) /\ UserSize(r, next) = UserSize(h, next)
        /\ get_next_block(r, b) = next
    BY <1>2, <2>1, <2>4 DEF Spared
  <2>6. Merging(r, g, B, b, next)
    <3>1. g = SetSize(r, b, UserSize(r, b) + UserSize(r, next) + META_DATA_SIZE)
      BY <1>4, <2>2, <2>5 DEF merge_unfree_free
    <3> QED BY <1>2, <2>1, <2>4, <2>5, <3>1, MergingIs
  <2>7. Listed(g, B \ {next}, F \ {next})
    <3>1. B \cap (B \ {next}) = B \ {next} /\ (B \ {next}) \ B = {} /\ B \ {next} \subseteq Spots
          /\ F \ {next} \subseteq B \ {next}
      BY <1>2
    <3>2. SameLinks(r, g, B \cap (B \ {next}))
      BY <2>6, <3>1 DEF Merging
    <3>3. \A c \in (B \ {next}) \ B : NextFree(g, c) = NULL /\ PrevFree(g, c) = NULL
      BY <3>1
    <3> QED BY <2>3, <3>1, <3>2, <3>3, ListedStill
  <2>8. ASSUME NEW c \in B \ {next} PROVE IsFree(g, c) <=> c \in F \ {next}
    <3>1. IsFree(g, c) = IsFree(r, c)
      <4>1. CASE c = b
        BY <2>6, <4>1 DEF Merging
      <4>2. CASE c # b
        BY <2>6, <4>2 DEF Merging, Same
      <4> QED BY <4>1, <4>2
    <3>2. IsFree(r, c) = IsFree(h, c)
      BY <2>4
    <3>3. IsFree(h, c) <=> c \in F
      BY <1>2
    <3> QED BY <3>1, <3>2, <3>3
  <2>9. Shape(g, B \ {next}, F \ {next})
    BY <2>6, <2>7, <2>8 DEF Shape, Merging
  <2>10. Apart(g, F \ {next})
    <3>1. ASSUME NEW c \in F \ {next} PROVE get_next_block(g, c) \notin F
      <4>1. c \in B /\ c # b
        BY <1>2
      <4>2. get_next_block(g, c) = get_next_block(r, c)
        BY <2>6, <4>1 DEF Merging, Same
      <4>3. get_next_block(r, c) = get_next_block(h, c)
        BY <2>4, <4>1
      <4> QED BY <1>1, <4>2, <4>3 DEF Apart
    <3> QED BY <3>1 DEF Apart
  <2>11. Whole(g) /\ UsedOf(g) = UsedOf(h)
    <3>1. Whole(g) /\ UsedOf(g) = (B \ {next}) \ (F \ {next})
      BY <2>9, <2>10, WholeIs
    <3>2. (B \ {next}) \ (F \ {next}) = B \ F
      BY <2>1
    <3> QED BY <1>1, <3>1, <3>2
  <2>12. ASSUME NEW c \in UsedOf(h) \ {b} PROVE Spared(h, g, c)
    <3>1. c \in B /\ c # next /\ c # b
      BY <1>1, <2>1
    <3>2. Spared(h, r, c) /\ Spared(r, g, c)
      BY <2>4, <2>6, <3>1 DEF Merging, Same
    <3> QED BY <3>2, SparedTwice
  <2>13. UserSize(g, b) \in Nat /\ UserSize(g, b) >= UserSize(h, b)
    <3>1. UserSize(g, b) = UserSize(h, b) + UserSize(h, next) + 3
      BY <2>5, <2>6 DEF Merging, META_DATA_SIZE
    <3>2. UserSize(h, next) \in Nat
      BY <1>2, <2>1, BlocksFit
    <3> QED BY <1>2, <3>1, <3>2
  <2>14. \A k \in Addresses : b + BLOCK_SIZE <= k /\ k < b + BLOCK_SIZE + UserSize(h, b)
                              => g.mem[k] = h.mem[k]
    BY <1>2, <2>4, <2>5, <2>6 DEF Merging, Spared
  <2> QED BY <2>11, <2>12, <2>13, <2>14 DEF Widens
<1> QED BY <1>3, <1>4

\* Memory that is no header and no tag changes.
Aside(h, g) ==
    /\ g \in HeapType /\ g.end = h.end /\ g.heap_size = h.heap_size
    /\ g.free_head = h.free_head /\ g.free_total = h.free_total
    /\ \A b \in Blocks(h) : /\ g.mem[b] = h.mem[b] /\ g.mem[b + 1] = h.mem[b + 1]
                            /\ g.mem[get_next_block(h, b) - 1] = h.mem[get_next_block(h, b) - 1]

\* A heap stays whole when only users write into their blocks.
LEMMA AsideIs ==
  ASSUME NEW h, Whole(h), NEW g, Aside(h, g)
  PROVE  /\ Whole(g) /\ Blocks(g) = Blocks(h) /\ UsedOf(g) = UsedOf(h) /\ FreeOf(g) = FreeOf(h)
         /\ \A b \in Blocks(h) : UserSize(g, b) = UserSize(h, b)
<1>1. PICK B, F : /\ Shape(h, B, F) /\ Apart(h, F) /\ UsedOf(h) = B \ F /\ FreeOf(h) = F
                  /\ Blocks(h) = B
  BY WholeHas, WholeIs
<1>2. /\ h \in HeapType /\ Tiles(h, B) /\ Bounded(h) /\ Marked(h, B) /\ Listed(h, B, F)
      /\ B \subseteq Spots /\ F \subseteq B /\ \A c \in B : IsFree(h, c) <=> c \in F
  BY <1>1 DEF Shape, Body, Listed
<1>3. \A c \in B : /\ UserSize(g, c) = UserSize(h, c) /\ get_next_block(g, c) = get_next_block(h, c)
                   /\ NextFree(g, c) = NextFree(h, c) /\ PrevFree(g, c) = PrevFree(h, c)
                   /\ IsFree(g, c) = IsFree(h, c)
  BY <1>1 DEF Aside, UserSize, get_next_block, NextFree, PrevFree, IsFree
<1>4. /\ g \in HeapType /\ g.end = h.end /\ g.heap_size = h.heap_size
      /\ g.free_head = h.free_head /\ g.free_total = h.free_total
  BY DEF Aside
<1>5. Body(g, B)
  <2>1. Bounded(g)
    BY <1>2, <1>4 DEF Bounded
  <2>2. Tiles(g, B)
    BY <1>2, <1>3, <1>4 DEF Tiles
  <2>3. Marked(g, B)
    <3>1. ASSUME NEW c \in B
          PROVE  /\ g.mem[c].is = "head" /\ g.mem[c + 1].is = "links"
                 /\ g.mem[get_next_block(g, c) - 1] = Tag(UserSize(g, c))
      <4>1. /\ h.mem[c].is = "head" /\ h.mem[c + 1].is = "links"
            /\ h.mem[get_next_block(h, c) - 1] = Tag(UserSize(h, c))
        BY <1>2 DEF Marked
      <4> QED BY <1>1, <1>3, <4>1 DEF Aside
    <3> QED BY <3>1 DEF Marked
  <2> QED BY <1>4, <2>1, <2>2, <2>3 DEF Body
<1>6. Listed(g, B, F)
  BY <1>2, <1>3, <1>4 DEF Listed, Chained
<1>7. Shape(g, B, F)
  BY <1>2, <1>3, <1>5, <1>6 DEF Shape
<1>8. Apart(g, F)
  BY <1>1, <1>2, <1>3 DEF Apart
<1> QED BY <1>1, <1>3, <1>7, <1>8, WholeIs

\* The program, or memmove for it, writes into the block c and nowhere else.
Inside(h, g, c) ==
    /\ g \in HeapType /\ g.end = h.end /\ g.heap_size = h.heap_size
    /\ g.free_head = h.free_head /\ g.free_total = h.free_total
    /\ \A k \in Addresses : k < c + BLOCK_SIZE \/ k >= c + BLOCK_SIZE + UserSize(h, c)
                            => g.mem[k] = h.mem[k]

\* Where the blocks of a heap are.
LEMMA WholeFits ==
  ASSUME NEW h, Whole(h), NEW c \in Blocks(h)
  PROVE  /\ h \in HeapType /\ h.end \in Nat /\ h.end < Limit
         /\ c \in Nat /\ c \in Spots /\ UserSize(h, c) \in Nat
         /\ get_next_block(h, c) = c + UserSize(h, c) + 3 /\ get_next_block(h, c) <= h.end
         /\ \A d \in Blocks(h) : c < d => c + UserSize(h, c) + 3 <= d
<1>1. h \in HeapType /\ Bounded(h) /\ Tiles(h, Blocks(h))
  BY DEF Whole, Shape, Body
<1>2. /\ c \in Nat /\ c \in Spots /\ UserSize(h, c) \in Nat
      /\ get_next_block(h, c) = c + UserSize(h, c) + 3 /\ get_next_block(h, c) <= h.end
      /\ h.end \in Nat /\ h.end < Limit
  BY <1>1, BlocksFit
<1>3. \A d \in Blocks(h) : c < d => get_next_block(h, c) <= d
  BY <1>1 DEF Tiles
<1> QED BY <1>1, <1>2, <1>3

\* A block's units are nobody else's.
LEMMA Elsewhere ==
  ASSUME NEW h, Whole(h), NEW c \in Blocks(h), NEW d \in Blocks(h), c # d, NEW k \in Int,
         d <= k, k < d + UserSize(h, d) + 3
  PROVE  k < c \/ k >= c + UserSize(h, c) + 3
<1>1. /\ c \in Nat /\ UserSize(h, c) \in Nat /\ (c < d => c + UserSize(h, c) + 3 <= d)
  BY WholeFits
<1>2. /\ d \in Nat /\ UserSize(h, d) \in Nat /\ (d < c => d + UserSize(h, d) + 3 <= c)
  BY WholeFits
<1> QED BY <1>1, <1>2

\* Writing into a block leaves headers, tags and every other block.
LEMMA InsideIs ==
  ASSUME NEW h, Whole(h), NEW c \in Blocks(h), NEW g, Inside(h, g, c)
  PROVE  Aside(h, g) /\ \A d \in Blocks(h) \ {c} : Spared(h, g, d)
<1>1. c \in Nat /\ UserSize(h, c) \in Nat
  BY WholeFits
<1>2. \A k \in Addresses : k < c + 2 \/ k >= c + 2 + UserSize(h, c) => g.mem[k] = h.mem[k]
  BY DEF Inside, BLOCK_SIZE
<1>3. ASSUME NEW d \in Blocks(h)
      PROVE  /\ g.mem[d] = h.mem[d] /\ g.mem[d + 1] = h.mem[d + 1]
             /\ g.mem[get_next_block(h, d) - 1] = h.mem[get_next_block(h, d) - 1]
  <2>1. /\ d \in Nat /\ UserSize(h, d) \in Nat /\ h.end \in Nat /\ h.end < Limit
        /\ get_next_block(h, d) = d + UserSize(h, d) + 3 /\ get_next_block(h, d) <= h.end
    BY WholeFits
  <2>2. PICK m : m = UserSize(h, d)
    OBVIOUS
  <2>3. get_next_block(h, d) - 1 = d + m + 2 /\ m \in Nat
    BY <2>1, <2>2
  <2>4. d \in Addresses /\ d + 1 \in Addresses /\ d + m + 2 \in Addresses
    BY <2>1, <2>2 DEF Addresses
  <2>5. \A k \in {d, d + 1, d + m + 2} : k < c + 2 \/ k >= c + 2 + UserSize(h, c)
    <3>1. CASE d = c
      BY <1>1, <2>1, <2>2, <3>1
    <3>2. CASE d # c
      <4>1. \A k \in {d, d + 1, d + m + 2} : k \in Int /\ d <= k /\ k < d + m + 3
        BY <2>1, <2>3
      <4>2. \A k \in {d, d + 1, d + m + 2} : k < c \/ k >= c + UserSize(h, c) + 3
        BY <2>2, <3>2, <4>1, Elsewhere
      <4> QED BY <1>1, <4>1, <4>2
    <3> QED BY <3>1, <3>2
  <2> QED BY <1>2, <2>3, <2>4, <2>5
<1>4. Aside(h, g)
  BY <1>3 DEF Aside, Inside
<1>5. ASSUME NEW d \in Blocks(h) \ {c} PROVE Spared(h, g, d)
  <2>1. UserSize(g, d) = UserSize(h, d)
    BY <1>3 DEF UserSize
  <2>2. d \in Nat /\ UserSize(h, d) \in Nat
    BY WholeFits
  <2>3. ASSUME NEW k \in Addresses, d + 2 <= k, k < d + 2 + UserSize(h, d)
        PROVE  g.mem[k] = h.mem[k]
    <3>1. k \in Int /\ d <= k /\ k < d + UserSize(h, d) + 3
      BY <2>2, <2>3 DEF Addresses
    <3>2. k < c \/ k >= c + UserSize(h, c) + 3
      BY <3>1, Elsewhere
    <3>3. k < c + 2 \/ k >= c + 2 + UserSize(h, c)
      BY <1>1, <3>1, <3>2
    <3> QED BY <1>2, <3>3
  <2> QED BY <2>1, <2>3 DEF Spared, BLOCK_SIZE
<1> QED BY <1>4, <1>5

\* memmove into a block that has the room.
LEMMA MovedIs ==
  ASSUME NEW h, Whole(h), NEW c \in Blocks(h), NEW to, to = c + BLOCK_SIZE,
         NEW from \in Nat, NEW n \in Nat, n <= UserSize(h, c), from + n <= Limit,
         NEW g, g = memmove(h, to, from, n)
  PROVE  Inside(h, g, c)
<1>1. c \in Nat /\ UserSize(h, c) \in Nat /\ h \in HeapType /\ to = c + 2
  BY WholeFits DEF BLOCK_SIZE
<1>2. PICK f : f = [a \in Addresses |->
                      IF a \in to .. (to + n - 1) THEN h.mem[a - to + from] ELSE h.mem[a]]
  OBVIOUS
<1>3. ASSUME NEW k \in Addresses PROVE f[k] \in Cell /\ (k \notin to .. (to + n - 1) => f[k] = h.mem[k])
  <2>1. CASE k \in to .. (to + n - 1)
    <3>1. k - to + from \in Addresses
      BY <1>1, <2>1 DEF Addresses
    <3> QED BY <1>1, <1>2, <2>1, <3>1 DEF HeapType
  <2>2. CASE k \notin to .. (to + n - 1)
    BY <1>1, <1>2, <2>2 DEF HeapType
  <2> QED BY <2>1, <2>2
<1>4. f \in [Addresses -> Cell]
  BY <1>2, <1>3
<1>5. g = [h EXCEPT !.mem = f]
  BY <1>2, Zenon DEF memmove
<1>6. /\ g \in HeapType /\ g.mem = f /\ g.end = h.end /\ g.heap_size = h.heap_size
      /\ g.free_head = h.free_head /\ g.free_total = h.free_total
  BY <1>1, <1>4, <1>5 DEF HeapType
<1>7. \A k \in Addresses : k < c + 2 \/ k >= c + 2 + UserSize(h, c) => k \notin to .. (to + n - 1)
  BY <1>1 DEF Addresses
<1> QED BY <1>3, <1>6, <1>7 DEF Inside, BLOCK_SIZE

\* What realloc does: NULL and the block as it was, or perhaps wider, or a block
\* of n units or more in its place.
Reallocs(h, r, b, n) ==
    \/ r.ptr = NULL /\ Widens(h, r.heap, b)
    \/ \E c \in Spots :
          /\ r.ptr = c + BLOCK_SIZE /\ Whole(r.heap)
          /\ c \notin UsedOf(h) \ {b} /\ UsedOf(r.heap) = (UsedOf(h) \ {b}) \cup {c}
          /\ UserSize(r.heap, c) \in Nat /\ UserSize(r.heap, c) >= n
          /\ \A d \in UsedOf(h) \ {b} : Spared(h, r.heap, d)

\* Whatever size realloc reads from the stale header, it copies no more than n.
LEMMA StaleIs ==
  ASSUME NEW h \in HeapType, NEW b, NEW size \in Nat, NEW n \in Nat,
         NEW m, m = Min({StaleSize(h, b, size), n})
  PROVE  m \in Nat /\ m <= n
<1>1. PICK s : s = StaleSize(h, b, size)
  OBVIOUS
<1>2. s \in Nat
  BY <1>1 DEF StaleSize
<1>3. PICK S : S = {s, n}
  OBVIOUS
<1>4. S \in SUBSET Nat /\ S # {} /\ n \in S
  BY <1>2, <1>3
<1>5. m = Min(S)
  BY <1>1, <1>3
<1>6. Min(S) \in S /\ \A y \in S : Min(S) <= y
  BY <1>4, MinIs
<1> QED BY <1>4, <1>5, <1>6

\* realloc gives a block in place of the old one, or NULL and leaves it.
LEMMA ReallocIs ==
  ASSUME NEW h, Whole(h), NEW b \in UsedOf(h), NEW p, p = b + BLOCK_SIZE, NEW n \in Nat,
         NEW exact \in BOOLEAN, NEW r, r = Realloc(h, p, n, exact)
  PROVE  Reallocs(h, r, b, n)
<1>1. PICK next : next = get_next_block(h, b)
  OBVIOUS
<1>2. PICK wide : wide = IF next # h.end /\ IsFree(h, next)
                         THEN merge_unfree_free(h, b, next) ELSE h
  OBVIOUS
<1>3. PICK size : size = UserSize(wide, b)
  OBVIOUS
<1>4. PICK freed : freed = Freed(wide, p)
  OBVIOUS
<1>5. PICK again : again = Malloc(freed, n)
  OBVIOUS
<1>6. PICK moved : moved = Malloc(wide, n)
  OBVIOUS
<1>7. b \in Blocks(h) /\ b \in Nat /\ b \in Spots /\ p = b + 2 /\ p \in Nat
      /\ UserSize(h, b) \in Nat
  <2>1. b \in Blocks(h)
    BY DEF UsedOf
  <2> QED BY <2>1, WholeFits DEF BLOCK_SIZE
<1>8. r = CASE size = n /\ exact -> [heap |-> wide, ptr |-> p]
            [] size > n \/ (size = n /\ ~exact) ->
                 [heap |-> memmove(again.heap, again.ptr, p,
                                   Min({StaleSize(again.heap, b, size), n})),
                  ptr |-> again.ptr]
            [] size < n /\ moved.ptr = NULL -> [heap |-> moved.heap, ptr |-> NULL]
            [] OTHER -> [heap |-> Freed(memmove(moved.heap, moved.ptr, p, size), p),
                         ptr |-> moved.ptr]
  <2>1. p - BLOCK_SIZE = b
    BY <1>7 DEF BLOCK_SIZE
  <2> QED BY <1>1, <1>2, <1>3, <1>4, <1>5, <1>6, <2>1, Zenon DEF Realloc
<1>9. Widens(h, wide, b)
  BY <1>1, <1>2, WidenIs
<1>10. /\ Whole(wide) /\ UsedOf(wide) = UsedOf(h) /\ size \in Nat /\ size >= UserSize(h, b)
       /\ b \in UsedOf(wide) /\ b \in Blocks(wide)
       /\ \A d \in UsedOf(h) \ {b} : Spared(h, wide, d)
  BY <1>3, <1>9 DEF Widens, UsedOf
<1>11. p + size <= Limit
  <2>1. /\ get_next_block(wide, b) = b + size + 3 /\ get_next_block(wide, b) <= wide.end
        /\ wide.end \in Nat /\ wide.end < Limit
    BY <1>3, <1>10, WholeFits
  <2> QED BY <1>7, <1>10, <2>1
<1>12. Frees(wide, freed, b)
  BY <1>4, <1>10, FreedIs
<1>13. /\ Whole(freed) /\ UsedOf(freed) = UsedOf(h) \ {b}
       /\ \A d \in UsedOf(h) \ {b} : Spared(wide, freed, d)
       /\ \E c \in FreeOf(freed) : UserSize(freed, c) >= size
  BY <1>3, <1>10, <1>12 DEF Frees
<1>14. CASE size = n /\ exact
  <2>1. ~(size > n) /\ ~(size < n)
    BY <1>10, <1>14
  <2>2. r.heap = wide /\ r.ptr = p
    <3>1. r = [heap |-> wide, ptr |-> p]
      BY <1>8, <1>14, <2>1, Zenon
    <3> QED BY <3>1
  <2>3. (UsedOf(h) \ {b}) \cup {b} = UsedOf(h)
    OBVIOUS
  <2>4. UserSize(wide, b) \in Nat /\ UserSize(wide, b) >= n
    BY <1>3, <1>10, <2>1, <1>14
  <2>5. b \notin UsedOf(h) \ {b} /\ UsedOf(wide) = (UsedOf(h) \ {b}) \cup {b}
    BY <1>10, <2>3
  <2> QED BY <1>7, <1>10, <2>2, <2>4, <2>5, Zenon DEF Reallocs
<1>15. CASE size > n \/ (size = n /\ ~exact)
  <2>1. size >= n /\ ~(size = n /\ exact) /\ ~(size < n)
    <3>1. CASE size > n
      BY <1>10, <3>1
    <3>2. CASE size = n /\ ~exact
      BY <1>10, <3>2
    <3> QED BY <1>15, <3>1, <3>2
  <2>2. PICK len : len = Min({StaleSize(again.heap, b, size), n})
    OBVIOUS
  <2>3. PICK g : g = memmove(again.heap, again.ptr, p, len)
    OBVIOUS
  <2>4. r.heap = g /\ r.ptr = again.ptr
    <3>1. r = [heap |-> g, ptr |-> again.ptr]
      BY <1>8, <1>15, <2>1, <2>2, <2>3, Zenon
    <3> QED BY <3>1
  <2>5. Mallocs(freed, again, n)
    BY <1>5, <1>13, MallocIs
  <2>6. PICK c \in Spots : again.ptr = c + BLOCK_SIZE /\ Gives(freed, again.heap, c, n)
    <3>1. PICK d \in FreeOf(freed) : UserSize(freed, d) >= size
      BY <1>13
    <3>2. d \in Blocks(freed)
      BY <3>1 DEF FreeOf
    <3>3. UserSize(freed, d) \in Nat
      BY <1>13, <3>2, WholeFits
    <3>4. UserSize(freed, d) >= n
      BY <1>10, <2>1, <3>1, <3>3
    <3> QED BY <2>5, <3>1, <3>4 DEF Mallocs
  <2>7. /\ Whole(again.heap) /\ c \notin UsedOf(h) \ {b}
        /\ UsedOf(again.heap) = (UsedOf(h) \ {b}) \cup {c}
        /\ UserSize(again.heap, c) \in Nat /\ UserSize(again.heap, c) >= n
        /\ \A d \in UsedOf(h) \ {b} : Spared(freed, again.heap, d)
    BY <1>13, <2>6 DEF Gives
  <2>8. c \in Blocks(again.heap) /\ \A d \in UsedOf(h) \ {b} : d \in Blocks(again.heap) /\ d # c
    BY <2>7 DEF UsedOf
  <2>9. Inside(again.heap, g, c)
    <3>1. again.heap \in HeapType
      BY <2>7, <2>8, WholeFits
    <3>2. len \in Nat /\ len <= n
      BY <1>10, <2>2, <3>1, StaleIs
    <3>3. len <= UserSize(again.heap, c) /\ p + len <= Limit
      BY <1>7, <1>10, <1>11, <2>1, <2>7, <3>2
    <3> QED BY <1>7, <2>3, <2>6, <2>7, <2>8, <3>2, <3>3, MovedIs
  <2>10. Aside(again.heap, g) /\ \A d \in Blocks(again.heap) \ {c} : Spared(again.heap, g, d)
    BY <2>7, <2>8, <2>9, InsideIs
  <2>11. /\ Whole(g) /\ UsedOf(g) = UsedOf(again.heap)
         /\ UserSize(g, c) = UserSize(again.heap, c)
    BY <2>7, <2>8, <2>10, AsideIs
  <2>12. ASSUME NEW d \in UsedOf(h) \ {b} PROVE Spared(h, g, d)
    <3>1. /\ Spared(h, wide, d) /\ Spared(wide, freed, d) /\ Spared(freed, again.heap, d)
          /\ Spared(again.heap, g, d)
      BY <1>10, <1>13, <2>7, <2>8, <2>10
    <3>2. Spared(h, freed, d)
      BY <3>1, SparedTwice
    <3>3. Spared(h, again.heap, d)
      BY <3>1, <3>2, SparedTwice
    <3> QED BY <3>1, <3>3, SparedTwice
  <2> QED BY <2>4, <2>6, <2>7, <2>11, <2>12 DEF Reallocs
<1>16. Mallocs(wide, moved, n)
  BY <1>6, <1>10, MallocIs
<1>17. CASE size < n /\ moved.ptr = NULL
  <2>1. ~(size > n) /\ size # n
    BY <1>10, <1>17
  <2>2. r.heap = moved.heap /\ r.ptr = NULL
    <3>1. r = [heap |-> moved.heap, ptr |-> NULL]
      BY <1>8, <1>17, <2>1, Zenon
    <3> QED BY <3>1
  <2>3. Keeps(wide, moved.heap)
    <3>1. \A c \in Spots : c + BLOCK_SIZE # NULL
      BY SpotsFit DEF BLOCK_SIZE, NULL
    <3> QED BY <1>16, <1>17, <3>1 DEF Mallocs
  <2>4. PICK g : g = moved.heap
    OBVIOUS
  <2>5. Whole(g) /\ UsedOf(g) = UsedOf(h) /\ \A d \in UsedOf(h) : Spared(wide, g, d)
    BY <1>10, <2>3, <2>4 DEF Keeps
  <2>6. \A d \in UsedOf(h) \ {b} : Spared(h, g, d)
    BY <1>10, <2>5, SparedTwice
  <2>7. UserSize(g, b) = size
    BY <1>3, <2>5 DEF Spared
  <2>8. ASSUME NEW k \in Addresses, b + BLOCK_SIZE <= k, k < b + BLOCK_SIZE + UserSize(h, b)
        PROVE  g.mem[k] = h.mem[k]
    <3>1. wide.mem[k] = h.mem[k]
      BY <1>9, <2>8 DEF Widens
    <3>2. k < b + BLOCK_SIZE + size
      BY <1>7, <1>10, <2>8 DEF BLOCK_SIZE, Addresses
    <3>3. g.mem[k] = wide.mem[k]
      BY <1>3, <2>5, <2>8, <3>2 DEF Spared
    <3> QED BY <3>1, <3>3
  <2>9. Widens(h, g, b)
    BY <1>10, <2>5, <2>6, <2>7, <2>8 DEF Widens
  <2> QED BY <2>2, <2>4, <2>9 DEF Reallocs
<1>18. CASE size < n /\ moved.ptr # NULL
  <2>1. ~(size > n) /\ size # n
    BY <1>10, <1>18
  <2>2. PICK g : g = memmove(moved.heap, moved.ptr, p, size)
    OBVIOUS
  <2>3. PICK f : f = Freed(g, p)
    OBVIOUS
  <2>4. r.heap = f /\ r.ptr = moved.ptr
    <3>1. r = [heap |-> f, ptr |-> moved.ptr]
      BY <1>8, <1>18, <2>1, <2>2, <2>3, Zenon
    <3> QED BY <3>1
  <2>5. PICK c \in Spots : moved.ptr = c + BLOCK_SIZE /\ Gives(wide, moved.heap, c, n)
    BY <1>16, <1>18 DEF Mallocs
  <2>6. /\ Whole(moved.heap) /\ c \notin UsedOf(h) /\ UsedOf(moved.heap) = UsedOf(h) \cup {c}
        /\ UserSize(moved.heap, c) \in Nat /\ UserSize(moved.heap, c) >= n
        /\ \A d \in UsedOf(h) : Spared(wide, moved.heap, d)
    BY <1>10, <2>5 DEF Gives
  <2>7. c \in Blocks(moved.heap) /\ \A d \in UsedOf(h) : d \in Blocks(moved.heap) /\ d # c
    BY <2>6 DEF UsedOf
  <2>8. Inside(moved.heap, g, c)
    <3>1. size <= UserSize(moved.heap, c)
      BY <1>10, <1>18, <2>6
    <3> QED BY <1>7, <1>10, <1>11, <2>2, <2>5, <2>6, <2>7, <3>1, MovedIs
  <2>9. Aside(moved.heap, g) /\ \A d \in Blocks(moved.heap) \ {c} : Spared(moved.heap, g, d)
    BY <2>6, <2>7, <2>8, InsideIs
  <2>10. /\ Whole(g) /\ UsedOf(g) = UsedOf(h) \cup {c}
         /\ UserSize(g, c) = UserSize(moved.heap, c)
    BY <2>6, <2>7, <2>9, AsideIs
  <2>11. Frees(g, f, b)
    <3>1. b \in UsedOf(g)
      BY <2>10
    <3> QED BY <2>3, <2>10, <3>1, FreedIs
  <2>12. /\ Whole(f) /\ UsedOf(f) = (UsedOf(h) \ {b}) \cup {c}
         /\ \A d \in (UsedOf(h) \ {b}) \cup {c} : Spared(g, f, d)
    <3>1. (UsedOf(h) \cup {c}) \ {b} = (UsedOf(h) \ {b}) \cup {c}
      BY <2>6
    <3> QED BY <2>10, <2>11, <3>1 DEF Frees
  <2>13. UserSize(f, c) \in Nat /\ UserSize(f, c) >= n
    BY <2>6, <2>10, <2>12 DEF Spared
  <2>14. ASSUME NEW d \in UsedOf(h) \ {b} PROVE Spared(h, f, d)
    <3>1. /\ Spared(h, wide, d) /\ Spared(wide, moved.heap, d) /\ Spared(moved.heap, g, d)
          /\ Spared(g, f, d)
      BY <1>10, <2>6, <2>7, <2>9, <2>12
    <3>2. Spared(h, moved.heap, d)
      BY <3>1, SparedTwice
    <3>3. Spared(h, g, d)
      BY <3>1, <3>2, SparedTwice
    <3> QED BY <3>1, <3>3, SparedTwice
  <2>15. c \notin UsedOf(h) \ {b}
    BY <2>6
  <2> QED BY <2>4, <2>5, <2>12, <2>13, <2>14, <2>15 DEF Reallocs
<1>19. size = n \/ size < n \/ size > n
  BY <1>10
<1> QED BY <1>14, <1>15, <1>17, <1>18, <1>19

-----------------------------------------------------------------------------
\* What is behind a header, be it still one or not: m units as they were, and
\* no other kind of header in the place of the links.
Held(h, g, b, m) ==
    /\ h.mem[b + 1].is = "links" => g.mem[b + 1].is = "links"
    /\ \A k \in Addresses : b + 2 <= k /\ k < b + 2 + m => g.mem[k] = h.mem[k]

\* No block of B begins in the m units behind the header at b.
Clear(B, b, m) == \A c \in B : c <= b \/ c >= b + 2 + m

\* What is held twice is held.
LEMMA HeldTwice ==
  ASSUME NEW h, NEW g, NEW e, NEW b, NEW m, Held(h, g, b, m), Held(g, e, b, m)
  PROVE  Held(h, e, b, m)
BY DEF Held

\* And so is the beginning of it.
LEMMA HeldLess ==
  ASSUME NEW h, NEW g, NEW b \in Nat, NEW m \in Nat, NEW n \in Nat, n <= m, Held(h, g, b, m)
  PROVE  Held(h, g, b, n)
BY DEF Held, Addresses

\* Links of the blocks around do not matter.
LEMMA RelinksHolds ==
  ASSUME NEW h \in HeapType, NEW g, NEW B, B \subseteq Nat, Relinks(h, g, B), NEW b \in Spots,
         NEW m \in Nat, Clear(B, b, m)
  PROVE  Held(h, g, b, m)
<1>1. b \in Nat /\ b + 1 \in Addresses
  BY SpotsFit
<1>2. g.mem[b + 1].is = h.mem[b + 1].is
  BY <1>1 DEF Relinks
<1>3. ASSUME NEW k \in Addresses, b + 2 <= k, k < b + 2 + m PROVE g.mem[k] = h.mem[k]
  <2>1. \A c \in B : k # c /\ k # c + 1
    BY <1>1, <1>3 DEF Clear, Addresses
  <2> QED BY <2>1 DEF Relinks
<1> QED BY <1>2, <1>3 DEF Held

\* Nor does what is written before and behind.
LEMMA TouchesHolds ==
  ASSUME NEW h, NEW g, NEW K, Touches(h, g, K), NEW b \in Spots, NEW m \in Nat,
         \A k \in K : k <= b + 1 \/ k >= b + 2 + m,
         b + 1 \in K => (h.mem[b + 1].is = "links" => g.mem[b + 1].is = "links"), K \subseteq Int
  PROVE  Held(h, g, b, m)
<1>1. b \in Nat /\ b + 1 \in Addresses
  BY SpotsFit
<1>2. h.mem[b + 1].is = "links" => g.mem[b + 1].is = "links"
  BY <1>1 DEF Touches
<1>3. ASSUME NEW k \in Addresses, b + 2 <= k, k < b + 2 + m PROVE g.mem[k] = h.mem[k]
  <2>1. k \notin K
    BY <1>1, <1>3 DEF Addresses
  <2> QED BY <2>1 DEF Touches
<1> QED BY <1>2, <1>3 DEF Held

\* No block begins in another.
LEMMA BlocksClear ==
  ASSUME NEW h, NEW B, Body(h, B), NEW b \in B, NEW m \in Nat, m <= UserSize(h, b)
  PROVE  Clear(B, b, m)
<1>1. h \in HeapType /\ Bounded(h) /\ Tiles(h, B)
  BY DEF Body
<1>2. /\ b \in Nat /\ UserSize(h, b) \in Nat
      /\ get_next_block(h, b) = b + UserSize(h, b) + 3
  BY <1>1, BlocksFit
<1>3. ASSUME NEW c \in B PROVE c <= b \/ c >= b + 2 + m
  <2>1. c \in Nat
    BY <1>1 DEF Tiles
  <2>2. b < c => get_next_block(h, b) <= c
    BY <1>1 DEF Tiles
  <2> QED BY <1>2, <2>1, <2>2
<1> QED BY <1>3 DEF Clear

\* The two blocks that merge_free_free makes one hold what they held.
LEMMA MergeFreeHolds ==
  ASSUME NEW h, NEW B, NEW F, Shape(h, B, F), NEW a \in F, NEW b \in F,
         get_next_block(h, a) = b, NEW g, g = merge_free_free(h, a, b)
  PROVE  Held(h, g, a, UserSize(h, a)) /\ Held(h, g, b, UserSize(h, b))
<1>0. /\ h \in HeapType /\ Body(h, B) /\ Listed(h, B, F) /\ F \subseteq B /\ B \subseteq Spots
      /\ a \in B /\ b \in B /\ Tiles(h, B) /\ Bounded(h) /\ B \subseteq Nat
  BY DEF Shape, Body, Listed, Tiles
<1>1. /\ a \in Nat /\ b \in Nat /\ UserSize(h, a) \in Nat /\ UserSize(h, b) \in Nat
      /\ b = a + UserSize(h, a) + 3 /\ a # NULL /\ \A c \in F : c \in Nat
      /\ b + UserSize(h, b) + 3 <= h.end /\ h.end < Limit /\ h.end \in Nat
  <2>1. a \in Nat /\ UserSize(h, a) \in Nat /\ get_next_block(h, a) = a + UserSize(h, a) + 3
    BY <1>0, BlocksFit
  <2>2. /\ b \in Nat /\ UserSize(h, b) \in Nat /\ get_next_block(h, b) = b + UserSize(h, b) + 3
        /\ get_next_block(h, b) <= h.end /\ h.end < Limit /\ h.end \in Nat
    BY <1>0, BlocksFit
  <2>3. \A c \in F : c \in Nat
    BY <1>0, SpotsFit
  <2>4. a # NULL
    BY <1>0, SpotsFit
  <2> QED BY <2>1, <2>2, <2>3, <2>4
<1>2. PICK e : e = MergedList(h, a, b)
  OBVIOUS
<1>3. PICK n : n = UserSize(h, a) + UserSize(h, b) + META_DATA_SIZE
  OBVIOUS
<1>4. g = SetSize(e, a, n)
  <2>1. PICK q : q = NextFree(h, b)
    OBVIOUS
  <2>2. PICK k : k = Skip(h, a, q)
    OBVIOUS
  <2>3. k = LET f == [h EXCEPT !.mem[a + 1].next = q]
            IN  IF q = NULL THEN f ELSE [f EXCEPT !.mem[q].prev = a]
    BY <1>1, <2>2 DEF Skip, SetNext, SetPrev
  <2>4. g = SetSize(remove_free_block(k, b), a, UserSize(h, a) + UserSize(h, b) + META_DATA_SIZE)
    BY <2>1, <2>3 DEF merge_free_free
  <2>5. e = remove_free_block(k, b)
    BY <1>2, <2>1, <2>2 DEF MergedList
  <2> QED BY <1>3, <2>4, <2>5
<1>5. Relinks(h, e, B) /\ e \in HeapType
  <2>1. a < b
    BY <1>1
  <2>2. \A c \in F : c <= a \/ c >= b
    <3>1. \A c \in B : a < c => b <= c
      BY <1>0 DEF Tiles
    <3> QED BY <1>0, <1>1, <3>1
  <2>3. Relinks(h, e, B)
    BY <1>0, <1>2, <2>1, <2>2, MergedListIs
  <2> QED BY <2>3 DEF Relinks
<1>6. n \in Nat /\ a + 2 + n = b + 2 + UserSize(h, b) /\ a + 2 + n < Limit
  BY <1>1, <1>3 DEF META_DATA_SIZE
<1>7. /\ Touches(e, g, {a + 1, a + 2 + n})
      /\ g.mem[a + 1] = [e.mem[a + 1] EXCEPT !.size = n]
  BY <1>0, <1>4, <1>5, <1>6, SetSizeIs
<1>8. g.mem[a + 1].is = e.mem[a + 1].is
  <2>1. e.mem[a + 1] \in Cell
    BY <1>0, <1>5, SpotsFit DEF HeapType
  <2> QED BY <1>7, <2>1 DEF Cell
<1>9. ASSUME NEW d \in {a, b} PROVE Held(h, g, d, UserSize(h, d))
  <2>1. d \in B /\ d \in Nat /\ UserSize(h, d) \in Nat /\ d \in Spots
    BY <1>0, <1>1
  <2>2. Clear(B, d, UserSize(h, d))
    BY <1>0, <2>1, BlocksClear
  <2>3. Held(h, e, d, UserSize(h, d))
    BY <1>0, <1>5, <2>1, <2>2, RelinksHolds
  <2>4. \A k \in {a + 1, a + 2 + n} : k <= d + 1 \/ k >= d + 2 + UserSize(h, d)
    BY <1>1, <1>6, <1>9
  <2>5. d + 1 \in {a + 1, a + 2 + n} => d + 1 = a + 1
    BY <1>1, <1>6, <1>9
  <2>6. d + 1 \in {a + 1, a + 2 + n} =>
           (e.mem[d + 1].is = "links" => g.mem[d + 1].is = "links")
    BY <1>8, <2>5
  <2>7. {a + 1, a + 2 + n} \subseteq Int
    BY <1>1, <1>6
  <2> PICK K : K = {a + 1, a + 2 + n}
    OBVIOUS
  <2>8. Held(e, g, d, UserSize(h, d))
    BY <1>7, <2>1, <2>4, <2>6, <2>7, TouchesHolds
  <2> QED BY <2>3, <2>8, HeldTwice
<1> QED BY <1>9

\* A block that is marked and inserted holds what it held.
LEMMA PuttingHolds ==
  ASSUME NEW h, NEW B, NEW F, Shape(h, B, F), NEW b \in B \ F, NEW v \in BOOLEAN,
         NEW i, i = insert_free_block(SetFree(h, b, v), b)
  PROVE  Held(h, i, b, UserSize(h, b))
<1>0. /\ h \in HeapType /\ Body(h, B) /\ Listed(h, B, F) /\ F \subseteq B /\ B \subseteq Spots
      /\ b \in B /\ B \subseteq Nat /\ b \in Spots /\ b \in Nat /\ UserSize(h, b) \in Nat
  <2>1. /\ h \in HeapType /\ Body(h, B) /\ Listed(h, B, F) /\ F \subseteq B /\ B \subseteq Spots
        /\ b \in B /\ B \subseteq Nat
    BY DEF Shape, Body, Listed, Tiles
  <2> QED BY <2>1, LinkTypes
<1>1. PICK m : m = SetFree(h, b, v)
  OBVIOUS
<1>2. Flagging(h, m, B, b, v) /\ Touches(h, m, {b})
  <2>1. Flagging(h, m, B, b, v)
    BY <1>0, <1>1, FlaggingIs
  <2>2. Touches(h, m, {b})
    BY <1>0, <1>1, SetFreeIs
  <2> QED BY <2>1, <2>2
<1>3. Listed(m, B, F) /\ Body(m, B) /\ m \in HeapType
  <2>1. B \cap B = B /\ B \ B = {} /\ F \subseteq B
    BY <1>0
  <2>2. SameLinks(h, m, B \cap B)
    BY <1>2, <2>1 DEF Flagging
  <2>3. \A c \in B \ B : NextFree(m, c) = NULL /\ PrevFree(m, c) = NULL
    BY <2>1
  <2>4. Listed(m, B, F)
    BY <1>0, <2>1, <2>2, <2>3, ListedStill
  <2> QED BY <1>2, <2>4 DEF Flagging, Body
<1>4. Relinks(m, i, B)
  BY <1>1, <1>3, InsertIs
<1>5. Held(h, m, b, UserSize(h, b))
  <2>1. \A k \in {b} : k <= b + 1 \/ k >= b + 2 + UserSize(h, b)
    BY <1>0
  <2>2. b + 1 \notin {b} /\ {b} \subseteq Int
    BY <1>0
  <2> QED BY <1>0, <1>2, <2>1, <2>2, TouchesHolds
<1>6. Clear(B, b, UserSize(h, b))
  BY <1>0, BlocksClear
<1>7. Held(m, i, b, UserSize(h, b))
  BY <1>0, <1>3, <1>4, <1>6, RelinksHolds
<1> QED BY <1>5, <1>7, HeldTwice

\* The free block that has taken b in: b itself or the free one before it.
Around(h, g, b, M) ==
    /\ M \in FreeOf(g) /\ UserSize(g, M) \in Nat
    /\ M + UserSize(g, M) >= b + UserSize(h, b)
    /\ \/ M = b
       \/ /\ M = get_prev_block(h, b) /\ M # NULL /\ IsFree(h, M)
          /\ M + UserSize(h, M) + 3 = b /\ M \in Nat /\ UserSize(h, M) \in Nat

\* What is in a block that is given back stays there for the time being, in a
\* free block large enough.
LEMMA FreedHolds ==
  ASSUME NEW h, Whole(h), NEW b \in UsedOf(h), NEW p, p = b + BLOCK_SIZE, NEW g, g = Freed(h, p)
  PROVE  Held(h, g, b, UserSize(h, b)) /\ \E M : Around(h, g, b, M)
<1>1. PICK B, F : Shape(h, B, F) /\ Apart(h, F) /\ UsedOf(h) = B \ F /\ FreeOf(h) = F
  BY WholeHas
<1>2. /\ b \in B /\ b \notin F /\ b \in Nat /\ UserSize(h, b) \in Nat /\ h \in HeapType
      /\ Tiles(h, B) /\ F \subseteq B /\ Bounded(h) /\ Body(h, B)
      /\ \A c \in B : IsFree(h, c) <=> c \in F
  <2>1. /\ b \in B /\ b \notin F /\ F \subseteq B /\ h \in HeapType /\ Bounded(h) /\ Tiles(h, B)
        /\ Body(h, B) /\ \A c \in B : IsFree(h, c) <=> c \in F
    BY <1>1 DEF Shape, Body, Listed
  <2> QED BY <2>1, BlocksFit
<1>3. PICK v : v = TRUE
  OBVIOUS
<1>4. v \in BOOLEAN /\ Yes(v)
  BY <1>3 DEF Yes
<1>5. PICK i : i = insert_free_block(SetFree(h, b, v), b)
  OBVIOUS
<1>6. PICK next : next = get_next_block(h, b)
  OBVIOUS
<1>7. PICK ahead : ahead = IF next # h.end /\ IsFree(h, next)
                           THEN merge_free_free(i, b, next) ELSE i
  OBVIOUS
<1>8. PICK prev : prev = get_prev_block(h, b)
  OBVIOUS
<1>9. g = IF prev # NULL /\ IsFree(h, prev) THEN merge_free_free(ahead, prev, b) ELSE ahead
  <2>1. p - BLOCK_SIZE = b
    BY <1>2 DEF BLOCK_SIZE
  <2>2. i = insert_free_block([h EXCEPT !.mem[b].free = TRUE], b)
    BY <1>3, <1>5, Zenon DEF SetFree
  <2> QED BY <1>6, <1>7, <1>8, <2>1, <2>2, Zenon DEF Freed
<1>10. Putting(h, i, B, F, b) /\ Held(h, i, b, UserSize(h, b))
  BY <1>1, <1>2, <1>4, <1>5, PuttingIs, PuttingHolds
<1>11. PICK B1, F1 : Ahead(h, ahead, B, F, b, B1, F1)
  BY <1>1, <1>2, <1>6, <1>7, <1>10, AheadIs
<1>12. /\ Shape(ahead, B1, F1) /\ b \in F1 /\ F1 \subseteq B1
       /\ UserSize(ahead, b) \in Nat /\ UserSize(ahead, b) >= UserSize(h, b)
       /\ \A c \in B1 \ {b} : Spared(h, ahead, c)
                              /\ get_next_block(ahead, c) = get_next_block(h, c)
  BY <1>11 DEF Ahead, Shape, Listed
<1>13. IF b = 0 THEN prev = NULL
       ELSE prev \in B /\ get_next_block(h, prev) = b
  BY <1>2, <1>8, PrevBlock
<1>14. Held(h, ahead, b, UserSize(h, b))
  <2>1. CASE next # h.end /\ IsFree(h, next)
    <3>1. ahead = merge_free_free(i, b, next)
      BY <1>7, <2>1
    <3>2. PICK E : E = F \cup {b}
      OBVIOUS
    <3>3. /\ Shape(i, B, E) /\ b \in E /\ next \in E /\ get_next_block(i, b) = next
          /\ UserSize(i, b) = UserSize(h, b)
      <4>1. next \in B \cup {h.end}
        BY <1>2, <1>6 DEF Tiles
      <4>2. next \in F
        BY <1>2, <2>1, <4>1
      <4> QED BY <1>2, <1>6, <1>10, <3>2, <4>2 DEF Putting, Spared
    <3>4. Held(i, ahead, b, UserSize(i, b))
      BY <3>1, <3>3, MergeFreeHolds
    <3> QED BY <1>10, <3>3, <3>4, HeldTwice
  <2>2. CASE ~(next # h.end /\ IsFree(h, next))
    BY <1>7, <1>10, <2>2
  <2> QED BY <2>1, <2>2
<1>15. CASE prev # NULL /\ IsFree(h, prev)
  <2>1. /\ prev \in F /\ get_next_block(h, prev) = b /\ prev < b /\ prev # b
        /\ prev \in Nat /\ UserSize(h, prev) \in Nat /\ prev + UserSize(h, prev) + 3 = b
    <3>1. prev \in B /\ get_next_block(h, prev) = b
      BY <1>13, <1>15
    <3>2. prev \in Nat /\ UserSize(h, prev) \in Nat
          /\ get_next_block(h, prev) = prev + UserSize(h, prev) + 3
      BY <1>2, <3>1, BlocksFit
    <3> QED BY <1>2, <1>15, <3>1, <3>2
  <2>2. prev \in F1 /\ prev \in B1 \ {b}
    BY <1>11, <1>12, <2>1 DEF Ahead
  <2>3. get_next_block(ahead, prev) = b /\ g = merge_free_free(ahead, prev, b)
    BY <1>9, <1>12, <1>15, <2>1, <2>2
  <2>4. FreesMerged(ahead, g, B1, F1, prev, b)
    BY <1>12, <2>2, <2>3, MergeFreeIs
  <2>5. /\ Shape(g, B1 \ {b}, F1 \ {b})
        /\ UserSize(g, prev) \in Nat /\ get_next_block(g, prev) = get_next_block(ahead, b)
    BY <2>4 DEF FreesMerged
  <2>6. prev \in FreeOf(g)
    <3>1. FreeOf(g) = F1 \ {b}
      BY <2>5, WholeIs
    <3> QED BY <2>1, <2>2, <3>1
  <2>7. Held(ahead, g, b, UserSize(ahead, b))
    BY <1>12, <2>2, <2>3, MergeFreeHolds
  <2>8. Held(ahead, g, b, UserSize(h, b))
    BY <1>2, <1>12, <2>7, HeldLess
  <2>9. prev + UserSize(g, prev) >= b + UserSize(h, b)
    <3>1. prev + UserSize(g, prev) + 3 = b + UserSize(ahead, b) + 3
      BY <2>5 DEF get_next_block, META_DATA_SIZE
    <3> QED BY <1>2, <1>12, <2>1, <2>5, <3>1
  <2>10. Around(h, g, b, prev)
    BY <1>8, <1>15, <2>1, <2>5, <2>6, <2>9 DEF Around
  <2> QED BY <1>14, <2>8, <2>10, HeldTwice
<1>16. CASE ~(prev # NULL /\ IsFree(h, prev))
  <2>1. g = ahead
    BY <1>9, <1>16
  <2>2. b \in FreeOf(g)
    BY <1>12, <2>1, WholeIs
  <2>3. b + UserSize(g, b) >= b + UserSize(h, b)
    BY <1>2, <1>12, <2>1
  <2>4. Around(h, g, b, b)
    BY <1>12, <2>1, <2>2, <2>3 DEF Around
  <2> QED BY <1>14, <2>1, <2>4
<1> QED BY <1>15, <1>16

\* Where a block f can be that is handed out when b's units are to stay: it is
\* b, or large enough to end behind b's first units after what is split off its
\* end begins before them, or before b altogether.
Beside(h, f, b, n) ==
    \/ f = b
    \/ f + n + 3 <= b /\ f + UserSize(h, f) >= b + n
    \/ f + UserSize(h, f) + 3 <= b

\* The rest of a split block is written elsewhere.
LEMMA RestHolds ==
  ASSUME NEW h, NEW B, NEW F, Shape(h, B, F), NEW f \in B \ F,
         NEW n \in Nat, NEW l \in Nat, UserSize(h, f) = n + l + 3, l > 1,
         NEW s \in Nat, s = f + n + 3, NEW v \in BOOLEAN, NEW g, g = Rest(h, f, n, s, v, l),
         NEW b \in Spots, Beside(h, f, b, n), Clear(B, b, n)
  PROVE  Held(h, g, b, n)
<1>0. /\ h \in HeapType /\ Body(h, B) /\ Listed(h, B, F) /\ F \subseteq B /\ B \subseteq Spots
      /\ f \in B /\ f \notin F /\ Tiles(h, B) /\ Bounded(h) /\ B \subseteq Nat
  BY DEF Shape, Body, Listed, Tiles
<1>1. /\ f \in Nat /\ f \in Spots /\ UserSize(h, f) \in Nat /\ f + UserSize(h, f) + 3 <= h.end
      /\ h.end < Limit /\ h.end \in Nat /\ b \in Nat
  BY <1>0, BlocksFit, SpotsFit
<1>2. PICK e : e = SetSize(h, f, n)
  OBVIOUS
<1>3. PICK w : w = WriteHeader(e, s, v, l)
  OBVIOUS
<1>4. Splitting(h, w, B, f, n, s, v)
  BY <1>0, <1>2, <1>3, SplittingIs
<1>5. /\ Body(w, B \cup {s}) /\ s \notin B /\ s \in Spots /\ w \in HeapType
      /\ s \in (B \cup {s}) \ F
  BY <1>0, <1>4 DEF Splitting, Body
<1>6. Relinks(w, g, B \cup {s})
  <2>1. Listed(w, B \cup {s}, F)
    <3>1. B \cap (B \cup {s}) = B /\ (B \cup {s}) \ B = {s} /\ B \cup {s} \subseteq Spots
          /\ F \subseteq B \cup {s}
      BY <1>0, <1>5
    <3>2. SameLinks(h, w, B \cap (B \cup {s}))
      BY <1>4, <3>1 DEF Splitting
    <3>3. \A c \in (B \cup {s}) \ B : NextFree(w, c) = NULL /\ PrevFree(w, c) = NULL
      BY <1>4, <3>1 DEF Splitting
    <3> QED BY <1>0, <3>1, <3>2, <3>3, ListedStill
  <2>2. g = insert_free_block(w, s)
    BY <1>2, <1>3 DEF Rest
  <2> QED BY <1>5, <2>1, <2>2, InsertIs
<1>7. /\ Touches(h, e, {f + 1, f + 2 + n}) /\ e.mem[f + 1] = [h.mem[f + 1] EXCEPT !.size = n]
      /\ e \in HeapType
  <2>1. f + 2 + n < Limit
    BY <1>1
  <2>2. Touches(h, e, {f + 1, f + 2 + n}) /\ e.mem[f + 1] = [h.mem[f + 1] EXCEPT !.size = n]
    BY <1>0, <1>1, <1>2, <2>1, SetSizeIs
  <2> QED BY <2>2 DEF Touches
<1>8. HeaderWritten(e, w, s, v, l) /\ s + 2 + l = f + 2 + UserSize(h, f)
  <2>1. s + 2 + l < Limit /\ s + 2 + l = f + 2 + UserSize(h, f)
    BY <1>1
  <2> QED BY <1>3, <1>5, <1>7, <2>1, WriteHeaderIs
<1>9. Held(h, e, b, n)
  <2> PICK K : K = {f + 1, f + 2 + n}
    OBVIOUS
  <2>1. \A k \in K : k <= b + 1 \/ k >= b + 2 + n
    BY <1>1 DEF Beside
  <2>2. e.mem[f + 1].is = h.mem[f + 1].is
    <3>1. h.mem[f + 1] \in Cell
      BY <1>0, <1>1, SpotsFit DEF HeapType
    <3> QED BY <1>7, <3>1 DEF Cell
  <2>3. b + 1 \in K => b + 1 = f + 1
    BY <1>1 DEF Beside
  <2>4. b + 1 \in K => (h.mem[b + 1].is = "links" => e.mem[b + 1].is = "links")
    BY <2>2, <2>3
  <2>5. K \subseteq Int
    BY <1>1
  <2> QED BY <1>7, <2>1, <2>4, <2>5, TouchesHolds
<1>10. Held(e, w, b, n)
  <2> PICK K : K = {s, s + 1, s + 2 + l}
    OBVIOUS
  <2>1. \A k \in K : k <= b + 1 \/ k >= b + 2 + n
    BY <1>1, <1>8 DEF Beside
  <2>2. b + 1 \in K => b + 1 = s + 1
    BY <1>1, <1>8 DEF Beside
  <2>3. b + 1 \in K => (e.mem[b + 1].is = "links" => w.mem[b + 1].is = "links")
    BY <1>8, <2>2 DEF HeaderWritten
  <2>4. K \subseteq Int /\ Touches(e, w, K)
    BY <1>8 DEF HeaderWritten
  <2> QED BY <2>1, <2>3, <2>4, TouchesHolds
<1>11. Held(w, g, b, n)
  <2> PICK C : C = B \cup {s}
    OBVIOUS
  <2>1. Clear(C, b, n)
    <3>1. s <= b \/ s >= b + 2 + n
      BY <1>1 DEF Beside
    <3> QED BY <3>1 DEF Clear
  <2>2. C \subseteq Nat /\ Relinks(w, g, C)
    BY <1>0, <1>6
  <2> QED BY <1>5, <2>1, <2>2, RelinksHolds
<1> QED BY <1>9, <1>10, <1>11, HeldTwice

\* A block taken from the list and marked holds what it held.
LEMMA TakingHolds ==
  ASSUME NEW h, NEW B, NEW F, Shape(h, B, F), NEW f \in F, NEW v \in BOOLEAN,
         NEW g, g = Take(h, f, v), NEW b \in Spots, NEW n \in Nat, f <= b \/ f >= b + 2 + n,
         Clear(B, b, n)
  PROVE  Held(h, g, b, n)
<1>0. /\ h \in HeapType /\ Listed(h, B, F) /\ f \in Spots /\ B \subseteq Nat /\ f \in Nat /\ b \in Nat
  <2>1. h \in HeapType /\ Listed(h, B, F) /\ f \in Spots /\ B \subseteq Nat
    BY DEF Shape, Body, Listed, Tiles
  <2> QED BY <2>1, SpotsFit
<1>1. PICK e : e = remove_free_block(h, f)
  OBVIOUS
<1>2. Relinks(h, e, B) /\ e \in HeapType
  <2>1. Relinks(h, e, B)
    BY <1>0, <1>1, RemoveIs
  <2> QED BY <2>1 DEF Relinks
<1>3. Touches(e, g, {f})
  <2>1. g = SetFree(e, f, v)
    BY <1>1 DEF Take
  <2> QED BY <1>0, <1>2, <2>1, SetFreeIs
<1>4. Held(h, e, b, n)
  BY <1>0, <1>2, RelinksHolds
<1>5. Held(e, g, b, n)
  <2>1. \A k \in {f} : k <= b + 1 \/ k >= b + 2 + n
    BY <1>0
  <2>2. b + 1 \notin {f} /\ {f} \subseteq Int
    BY <1>0
  <2> QED BY <1>3, <2>1, <2>2, TouchesHolds
<1> QED BY <1>4, <1>5, HeldTwice

\* What is handed out beside b leaves b's first units.
LEMMA OldHolds ==
  ASSUME NEW h, Whole(h), NEW f \in FreeOf(h), NEW n \in Nat, UserSize(h, f) >= n,
         NEW g, g = init_old_block(h, f, n), NEW b \in Spots, Beside(h, f, b, n),
         Clear(Blocks(h), b, n)
  PROVE  Held(h, g, b, n)
<1>1. PICK B, F : Shape(h, B, F) /\ Apart(h, F) /\ UsedOf(h) = B \ F /\ FreeOf(h) = F
  BY WholeHas
<1>2. /\ f \in F /\ f \in B /\ f \in Nat /\ UserSize(h, f) \in Nat /\ h \in HeapType
      /\ Tiles(h, B) /\ F \subseteq B /\ Bounded(h) /\ b \in Nat
  <2>1. f \in F /\ F \subseteq B /\ h \in HeapType /\ Bounded(h) /\ Tiles(h, B)
    BY <1>1 DEF Shape, Body, Listed
  <2> QED BY <2>1, BlocksFit, SpotsFit
<1>3. PICK u, v : u = FALSE /\ v = TRUE
  OBVIOUS
<1>4. PICK t : t = Take(h, f, u)
  OBVIOUS
<1>5. PICK rest : rest = UserSize(h, f) - n
  OBVIOUS
<1>6. PICK s : s = f + n + META_DATA_SIZE
  OBVIOUS
<1>7. g = IF rest > META_DATA_SIZE + 1 THEN Rest(t, f, n, s, v, rest - META_DATA_SIZE) ELSE t
  <2>1. t = [remove_free_block(h, f) EXCEPT !.mem[f].free = FALSE]
    BY <1>3, <1>4, Zenon DEF Take, SetFree
  <2> QED BY <1>3, <1>5, <1>6, <2>1, Zenon DEF init_old_block, Rest
<1>8. u \in BOOLEAN /\ ~u /\ v \in BOOLEAN
  BY <1>3
<1>9. Clear(B, b, n)
  BY <1>1, WholeIs
<1>10. Held(h, t, b, n)
  <2>1. f <= b
    BY <1>2 DEF Beside
  <2> QED BY <1>1, <1>2, <1>4, <1>8, <1>9, <2>1, TakingHolds
<1>11. Shape(t, B, F \ {f}) /\ UserSize(t, f) = UserSize(h, f)
  <2>1. Taking(h, t, B, F, f)
    BY <1>1, <1>2, <1>4, <1>8, TakingIs
  <2> QED BY <1>2, <2>1 DEF Taking, Spared
<1>12. CASE rest > META_DATA_SIZE + 1
  <2>1. PICK l : l = rest - META_DATA_SIZE
    OBVIOUS
  <2>2. l \in Nat /\ l > 1 /\ UserSize(t, f) = n + l + 3 /\ s \in Nat /\ s = f + n + 3
    BY <1>2, <1>5, <1>6, <1>11, <1>12, <2>1 DEF META_DATA_SIZE
  <2>3. g = Rest(t, f, n, s, v, l)
    BY <1>7, <1>12, <2>1
  <2> PICK E : E = F \ {f}
    OBVIOUS
  <2>4. f \in B \ E /\ Shape(t, B, E)
    BY <1>2, <1>11
  <2>5. Beside(t, f, b, n)
    BY <1>11 DEF Beside
  <2>6. Held(t, g, b, n)
    BY <1>8, <1>9, <2>2, <2>3, <2>4, <2>5, RestHolds
  <2> QED BY <1>10, <2>6, HeldTwice
<1>13. CASE ~(rest > META_DATA_SIZE + 1)
  BY <1>7, <1>10, <1>13
<1> QED BY <1>12, <1>13

\* malloc takes the first block that fits, which is not behind the one that b's
\* units lie in: if that one is handed out itself, n units before b, or at b,
\* are enough.
LEMMA MallocHolds ==
  ASSUME NEW h0, Whole(h0), NEW n \in Nat, NEW r, r = Malloc(h0, n), NEW b \in Spots,
         NEW M \in FreeOf(h0), M + UserSize(h0, M) >= b + n, M = b \/ M + n + 3 <= b
  PROVE  Held(h0, r.heap, b, n)
<1>1. PICK B, F : Shape(h0, B, F) /\ Apart(h0, F) /\ UsedOf(h0) = B \ F /\ FreeOf(h0) = F
  BY WholeHas
<1>2. /\ h0 \in HeapType /\ Bounded(h0) /\ F \subseteq B /\ B \subseteq Spots /\ Tiles(h0, B)
      /\ B \subseteq Nat /\ b \in Nat /\ M \in B /\ M \in Nat /\ UserSize(h0, M) \in Nat
      /\ M <= b /\ UserSize(h0, M) >= n
  <2>1. /\ h0 \in HeapType /\ Bounded(h0) /\ F \subseteq B /\ B \subseteq Spots /\ Tiles(h0, B)
        /\ B \subseteq Nat
    BY <1>1 DEF Shape, Body, Listed, Tiles
  <2>2. b \in Nat /\ M \in B /\ M \in Nat /\ UserSize(h0, M) \in Nat
    BY <1>1, <2>1, BlocksFit, SpotsFit
  <2> QED BY <2>1, <2>2
<1>3. PICK h : h = IF h0.heap_size = 0 THEN SetHeapSize(h0, HEAP_INIT_SIZE) ELSE h0
  OBVIOUS
<1>4. /\ Shape(h, B, F) /\ Apart(h, F) /\ FreeChain(h) = F /\ h.mem = h0.mem
      /\ \A c \in B : UserSize(h, c) = UserSize(h0, c)
  <2>1. CASE h0.heap_size = 0
    <3>1. h0.end < HEAP_INIT_SIZE /\ HEAP_INIT_SIZE \in Nat /\ HEAP_INIT_SIZE <= Limit
          /\ HEAP_INIT_SIZE > 0
      BY <1>2, <2>1 DEF Bounded, HeapType
    <3>2. h = SetHeapSize(h0, HEAP_INIT_SIZE)
      BY <1>3, <2>1
    <3>3. Shape(h, B, F) /\ Apart(h, F) /\ FreeChain(h) = F
          /\ \A c \in B : UserSize(h, c) = UserSize(h0, c)
      BY <1>1, <3>1, <3>2, GrowIs
    <3>4. h.mem = h0.mem
      BY <1>2, <3>2 DEF SetHeapSize, HeapType
    <3> QED BY <3>3, <3>4
  <2>2. CASE h0.heap_size # 0
    <3>1. h = h0
      BY <1>3, <2>2
    <3>2. FreeChain(h0) = F
      BY <1>1, <1>2, ChainOf DEF Shape, Listed
    <3> QED BY <1>1, <3>1, <3>2
  <2> QED BY <2>1, <2>2
<1>5. Whole(h) /\ FreeOf(h) = F /\ Blocks(h) = B /\ h \in HeapType /\ Bounded(h) /\ Tiles(h, B)
  BY <1>4, WholeIs DEF Shape, Body
<1>6. PICK total : total = n + META_DATA_SIZE
  OBVIOUS
<1>7. PICK fits : fits = {c \in FreeChain(h) : UserSize(h, c) >= n}
  OBVIOUS
<1>8. PICK grown : grown = Expanded(h, total)
  OBVIOUS
<1>9. r = CASE fits # {} ->
                 [heap |-> init_old_block(h, Min(fits), n), ptr |-> Min(fits) + BLOCK_SIZE]
            [] fits = {} /\ h.end + total >= grown.heap_size -> [heap |-> grown, ptr |-> NULL]
            [] OTHER ->
                 [heap |-> [WriteHeader(grown, h.end, FALSE, n) EXCEPT !.end = h.end + total],
                  ptr |-> h.end + BLOCK_SIZE]
  BY <1>3, <1>6, <1>7, <1>8, Zenon DEF Malloc, SetHeapSize
<1>10. M \in fits
  BY <1>1, <1>2, <1>4, <1>7
<1>11. PICK f : f = Min(fits)
  OBVIOUS
<1>12. /\ f \in F /\ UserSize(h, f) >= n /\ f <= M /\ f \in B
  <2>1. \A c \in fits : c \in F /\ UserSize(h, c) >= n
    BY <1>4, <1>7
  <2>2. fits \in SUBSET Nat
    BY <1>2, <2>1
  <2>3. f \in fits /\ f <= M
    BY <1>10, <1>11, <2>2, MinIs
  <2> QED BY <1>2, <2>1, <2>3
<1>13. PICK g : g = init_old_block(h, f, n)
  OBVIOUS
<1>14. r.heap = g
  <2>1. fits # {}
    BY <1>10
  <2>2. r = [heap |-> g, ptr |-> f + BLOCK_SIZE]
    BY <1>9, <1>11, <1>13, <2>1, Zenon
  <2> QED BY <2>2
<1>15. f \in Nat /\ UserSize(h, f) \in Nat /\ get_next_block(h, f) = f + UserSize(h, f) + 3
       /\ UserSize(h, M) = UserSize(h0, M) /\ get_next_block(h, M) = M + UserSize(h, M) + 3
  BY <1>2, <1>4, <1>5, <1>12, BlocksFit
<1>16. Beside(h, f, b, n)
  <2>1. CASE f = M
    BY <1>15, <2>1 DEF Beside
  <2>2. CASE f # M
    <3>1. f < M
      BY <1>2, <1>12, <1>15, <2>2
    <3>2. get_next_block(h, f) <= M
      BY <1>2, <1>5, <1>12, <3>1 DEF Tiles
    <3>3. f + UserSize(h, f) + 3 <= b
      BY <1>2, <1>15, <3>2
    <3> QED BY <3>3 DEF Beside
  <2> QED BY <2>1, <2>2
<1>17. Clear(B, b, n)
  <2>1. ASSUME NEW c \in B PROVE c <= b \/ c >= b + 2 + n
    <3>1. M < c => get_next_block(h, M) <= c
      BY <1>2, <1>5 DEF Tiles
    <3>2. c \in Nat
      BY <1>2
    <3> QED BY <1>2, <1>15, <3>1, <3>2
  <2> QED BY <2>1 DEF Clear
<1>18. Held(h, g, b, n)
  BY <1>5, <1>12, <1>13, <1>16, <1>17, OldHolds
<1>19. Held(h0, h, b, n)
  BY <1>4 DEF Held
<1> QED BY <1>14, <1>18, <1>19, HeldTwice

\* Taking in the block behind changes nothing of the block before.
LEMMA WidenBefore ==
  ASSUME NEW h, Whole(h), NEW b \in UsedOf(h), NEW next, next = get_next_block(h, b),
         NEW g, g = IF next # h.end /\ IsFree(h, next) THEN merge_unfree_free(h, b, next) ELSE h,
         NEW prev, prev = get_prev_block(h, b)
  PROVE  /\ get_prev_block(g, b) = prev
         /\ prev # NULL => IsFree(g, prev) = IsFree(h, prev) /\ UserSize(g, prev) = UserSize(h, prev)
<1>1. PICK B, F : Shape(h, B, F) /\ Apart(h, F) /\ UsedOf(h) = B \ F /\ FreeOf(h) = F
  BY WholeHas
<1>2. /\ b \in B /\ b \notin F /\ b \in Nat /\ UserSize(h, b) \in Nat /\ h \in HeapType
      /\ Tiles(h, B) /\ F \subseteq B /\ Bounded(h) /\ Body(h, B) /\ Listed(h, B, F)
      /\ b \in Spots /\ next = b + UserSize(h, b) + 3
      /\ \A c \in B : IsFree(h, c) <=> c \in F
  <2>1. /\ b \in B /\ b \notin F /\ F \subseteq B /\ h \in HeapType /\ Bounded(h) /\ Tiles(h, B)
        /\ Body(h, B) /\ Listed(h, B, F) /\ \A c \in B : IsFree(h, c) <=> c \in F
    BY <1>1 DEF Shape, Body, Listed
  <2> QED BY <2>1, BlocksFit
<1>3. IF b = 0 THEN prev = NULL ELSE prev \in B /\ get_next_block(h, prev) = b
  BY <1>2, PrevBlock
<1>4. CASE next # h.end /\ IsFree(h, next)
  <2>1. next \in F
    <3>1. next \in B \cup {h.end}
      BY <1>2 DEF Tiles
    <3> QED BY <1>2, <1>4, <3>1
  <2>2. PICK e : e = remove_free_block(h, next)
    OBVIOUS
  <2>3. Relinks(h, e, B) /\ e \in HeapType
    <3>1. Relinks(h, e, B)
      BY <1>2, <2>1, <2>2, RemoveIs
    <3> QED BY <3>1 DEF Relinks
  <2>4. PICK n : n = UserSize(h, b) + UserSize(h, next) + META_DATA_SIZE
    OBVIOUS
  <2>5. g = SetSize(e, b, n)
    BY <1>4, <2>2, <2>4 DEF merge_unfree_free
  <2>6. Touches(e, g, {b + 1, b + 2 + n}) /\ n \in Nat
    <3>1. /\ UserSize(h, next) \in Nat /\ next + UserSize(h, next) + 3 <= h.end
          /\ h.end < Limit /\ h.end \in Nat
      BY <1>2, <2>1, BlocksFit
    <3>2. n \in Nat /\ b + 2 + n < Limit
      BY <1>2, <2>4, <3>1 DEF META_DATA_SIZE
    <3> QED BY <1>2, <2>3, <2>5, <3>2, SetSizeIs
  <2>7. CASE b = 0
    BY <1>3, <2>7 DEF get_prev_block
  <2>8. CASE b # 0
    <3>1. /\ prev \in B /\ prev \in Nat /\ prev \in Spots /\ UserSize(h, prev) \in Nat
          /\ b = prev + UserSize(h, prev) + 3
      BY <1>2, <1>3, <2>8, BlocksFit
    <3>2. PICK k : k = b - 1
      OBVIOUS
    <3>3. k \in Addresses /\ \A c \in B : k # c /\ k # c + 1
      BY <1>2, <1>3, <2>8, <3>1, <3>2, BlocksApart
    <3>4. e.mem[k] = h.mem[k]
      BY <2>3, <3>3 DEF Relinks
    <3>5. k \notin {b + 1, b + 2 + n}
      BY <1>2, <2>6, <3>2
    <3>6. g.mem[k] = h.mem[k]
      BY <2>6, <3>3, <3>4, <3>5 DEF Touches
    <3>7. get_prev_block(g, b) = prev
      BY <2>8, <3>2, <3>6 DEF get_prev_block
    <3>8. IsFree(e, prev) = IsFree(h, prev) /\ UserSize(e, prev) = UserSize(h, prev)
      BY <1>2, <2>3, <3>1, RelinksKeeps
    <3>9. prev \in Addresses /\ prev + 1 \in Addresses
      BY <3>1, SpotsFit
    <3>10. prev \notin {b + 1, b + 2 + n} /\ prev + 1 \notin {b + 1, b + 2 + n}
      BY <1>2, <2>6, <3>1
    <3>11. g.mem[prev] = e.mem[prev] /\ g.mem[prev + 1] = e.mem[prev + 1]
      BY <2>6, <3>9, <3>10 DEF Touches
    <3>12. IsFree(g, prev) = IsFree(h, prev)
      BY <3>8, <3>11, Zenon DEF IsFree
    <3>13. UserSize(g, prev) = UserSize(h, prev)
      BY <3>8, <3>11 DEF UserSize
    <3> QED BY <3>7, <3>12, <3>13
  <2> QED BY <2>7, <2>8
<1>5. CASE ~(next # h.end /\ IsFree(h, next))
  BY <1>5
<1> QED BY <1>4, <1>5

\* The block would slide down into a free block that is smaller than n.
Slides(h, b, n) ==
    LET prev == get_prev_block(h, b)
    IN  prev # NULL /\ IsFree(h, prev) /\ UserSize(h, prev) < n

\* k units from q on are what was from p on.
Carries(h, g, p, q, k) == \A j \in Nat : j < k => g.mem[q + j] = h.mem[p + j]

\* memmove carries what it copies.
LEMMA MovedCarries ==
  ASSUME NEW h \in HeapType, NEW to \in Nat, NEW from \in Nat, NEW n \in Nat, to + n <= Limit,
         NEW g, g = memmove(h, to, from, n)
  PROVE  Carries(h, g, from, to, n)
<1>1. SUFFICES ASSUME NEW j \in Nat, j < n PROVE g.mem[to + j] = h.mem[from + j]
  BY DEF Carries
<1>2. to + j \in Addresses /\ to + j \in to .. (to + n - 1) /\ (to + j) - to + from = from + j
  BY <1>1 DEF Addresses
<1>3. PICK m : m = [a \in Addresses |->
          IF a \in to .. (to + n - 1) THEN h.mem[a - to + from] ELSE h.mem[a]]
  OBVIOUS
<1>4. g.mem = m
  BY <1>3 DEF memmove, HeapType
<1> QED BY <1>2, <1>3, <1>4

\* After free and malloc the old units are still there, and realloc reads the
\* old size, unless the block slides down.
LEMMA AgainHolds ==
  ASSUME NEW h, Whole(h), NEW b \in UsedOf(h), NEW n \in Nat, n <= UserSize(h, b),
         ~Slides(h, b, n), NEW p, p = b + BLOCK_SIZE, NEW r, r = Malloc(Freed(h, p), n)
  PROVE  /\ \A k \in Addresses : b + 2 <= k /\ k < b + 2 + n => r.heap.mem[k] = h.mem[k]
         /\ r.heap.mem[b + 1].is # "head"
<1>1. b \in Blocks(h) /\ b \in Nat /\ b \in Spots /\ UserSize(h, b) \in Nat
  <2>1. b \in Blocks(h)
    BY DEF UsedOf
  <2> QED BY <2>1, WholeFits
<1>2. PICK g : g = Freed(h, p)
  OBVIOUS
<1>3. Whole(g)
  <2>1. Frees(h, g, b)
    BY <1>2, FreedIs
  <2> QED BY <2>1 DEF Frees
<1>4. Held(h, g, b, UserSize(h, b)) /\ \E M : Around(h, g, b, M)
  BY <1>2, FreedHolds
<1>5. PICK M : Around(h, g, b, M)
  BY <1>4
<1>6. M \in FreeOf(g) /\ M + UserSize(g, M) >= b + n
  <2>1. M \in Nat /\ UserSize(g, M) \in Nat /\ M + UserSize(g, M) >= b + UserSize(h, b)
    BY <1>1, <1>5 DEF Around
  <2>2. M \in FreeOf(g)
    BY <1>5 DEF Around
  <2> QED BY <1>1, <2>1, <2>2
<1>7. M = b \/ M + n + 3 <= b
  <2>1. CASE M = b
    BY <2>1
  <2>2. CASE M # b
    <3>1. /\ M = get_prev_block(h, b) /\ M # NULL /\ IsFree(h, M)
          /\ M + UserSize(h, M) + 3 = b /\ M \in Nat /\ UserSize(h, M) \in Nat
      BY <1>5, <2>2 DEF Around
    <3>2. ~(UserSize(h, M) < n)
      BY <3>1, Zenon DEF Slides
    <3> QED BY <1>1, <3>1, <3>2
  <2> QED BY <2>1, <2>2
<1>8. Held(g, r.heap, b, n)
  BY <1>1, <1>2, <1>3, <1>6, <1>7, MallocHolds
<1>9. Held(h, g, b, n)
  BY <1>1, <1>4, HeldLess
<1>10. h.mem[b + 1].is = "links"
  BY <1>1 DEF Whole, Shape, Body, Marked
<1>11. Held(h, r.heap, b, n)
  BY <1>8, <1>9, HeldTwice
<1> QED BY <1>10, <1>11 DEF Held

\* Unless it slides down, what a block that is resized holds comes with it.
LEMMA ReallocCarries ==
  ASSUME NEW h, Whole(h), NEW b \in UsedOf(h), NEW p, p = b + BLOCK_SIZE, NEW n \in Nat,
         NEW exact \in BOOLEAN, NEW r, r = Realloc(h, p, n, exact), r.ptr # NULL,
         ~Slides(h, b, n), NEW i \in Nat, i <= UserSize(h, b), i <= n
  PROVE  Carries(h, r.heap, p, r.ptr, i)
<1>1. PICK next : next = get_next_block(h, b)
  OBVIOUS
<1>2. PICK wide : wide = IF next # h.end /\ IsFree(h, next)
                         THEN merge_unfree_free(h, b, next) ELSE h
  OBVIOUS
<1>3. PICK size : size = UserSize(wide, b)
  OBVIOUS
<1>4. PICK freed : freed = Freed(wide, p)
  OBVIOUS
<1>5. PICK again : again = Malloc(freed, n)
  OBVIOUS
<1>6. PICK moved : moved = Malloc(wide, n)
  OBVIOUS
<1>7. b \in Blocks(h) /\ b \in Nat /\ b \in Spots /\ p = b + 2 /\ p \in Nat
      /\ UserSize(h, b) \in Nat /\ b + 1 \in Addresses
  <2>1. b \in Blocks(h)
    BY DEF UsedOf
  <2> QED BY <2>1, WholeFits, SpotsFit DEF BLOCK_SIZE
<1>8. r = CASE size = n /\ exact -> [heap |-> wide, ptr |-> p]
            [] size > n \/ (size = n /\ ~exact) ->
                 [heap |-> memmove(again.heap, again.ptr, p,
                                   Min({StaleSize(again.heap, b, size), n})),
                  ptr |-> again.ptr]
            [] size < n /\ moved.ptr = NULL -> [heap |-> moved.heap, ptr |-> NULL]
            [] OTHER -> [heap |-> Freed(memmove(moved.heap, moved.ptr, p, size), p),
                         ptr |-> moved.ptr]
  <2>1. p - BLOCK_SIZE = b
    BY <1>7 DEF BLOCK_SIZE
  <2> QED BY <1>1, <1>2, <1>3, <1>4, <1>5, <1>6, <2>1, Zenon DEF Realloc
<1>9. Widens(h, wide, b)
  BY <1>1, <1>2, WidenIs
<1>10. /\ Whole(wide) /\ UsedOf(wide) = UsedOf(h) /\ size \in Nat /\ size >= UserSize(h, b)
       /\ b \in UsedOf(wide) /\ b \in Blocks(wide)
       /\ \A k \in Addresses : b + 2 <= k /\ k < b + 2 + UserSize(h, b) => wide.mem[k] = h.mem[k]
  BY <1>3, <1>9 DEF Widens, UsedOf, BLOCK_SIZE
<1>11. p + size < Limit
  <2>1. /\ get_next_block(wide, b) = b + size + 3 /\ get_next_block(wide, b) <= wide.end
        /\ wide.end \in Nat /\ wide.end < Limit
    BY <1>3, <1>10, WholeFits
  <2> QED BY <1>7, <1>10, <2>1
<1>12. ASSUME NEW j \in Nat, j < i
       PROVE  /\ wide.mem[p + j] = h.mem[p + j] /\ p + j \in Addresses
              /\ b + 2 <= p + j /\ p + j < b + 2 + i /\ j < n /\ j < size
              /\ p + j < b + 2 + n /\ p + j < b + 2 + size
  <2>1. /\ p + j \in Addresses /\ b + 2 <= p + j /\ p + j < b + 2 + UserSize(h, b)
        /\ p + j < b + 2 + i /\ j < n /\ j < size /\ p + j < b + 2 + n /\ p + j < b + 2 + size
    BY <1>7, <1>10, <1>11, <1>12 DEF Addresses
  <2> QED BY <1>10, <2>1
<1>13. CASE size = n /\ exact
  <2>1. ~(size > n) /\ ~(size < n)
    BY <1>10, <1>13
  <2>2. r = [heap |-> wide, ptr |-> p]
    BY <1>8, <1>13, <2>1, Zenon
  <2>3. r.heap = wide /\ r.ptr = p
    BY <2>2
  <2> QED BY <1>12, <2>3 DEF Carries
<1>14. CASE size > n \/ (size = n /\ ~exact)
  <2>1. size >= n /\ ~(size = n /\ exact) /\ ~(size < n)
    <3>1. CASE size > n
      BY <1>10, <3>1
    <3>2. CASE size = n /\ ~exact
      BY <1>10, <3>2
    <3> QED BY <1>14, <3>1, <3>2
  <2>2. PICK len : len = Min({StaleSize(again.heap, b, size), n})
    OBVIOUS
  <2>3. PICK g : g = memmove(again.heap, again.ptr, p, len)
    OBVIOUS
  <2>4. r.heap = g /\ r.ptr = again.ptr
    <3>1. r = [heap |-> g, ptr |-> again.ptr]
      BY <1>8, <1>14, <2>1, <2>2, <2>3, Zenon
    <3> QED BY <3>1
  <2>5. ~Slides(wide, b, n)
    <3>1. PICK prev : prev = get_prev_block(h, b)
      OBVIOUS
    <3>2. /\ get_prev_block(wide, b) = prev
          /\ prev # NULL =>
                IsFree(wide, prev) = IsFree(h, prev) /\ UserSize(wide, prev) = UserSize(h, prev)
      BY <1>1, <1>2, <3>1, WidenBefore
    <3> QED BY <3>1, <3>2, Zenon DEF Slides
  <2>6. /\ \A k \in Addresses : b + 2 <= k /\ k < b + 2 + n => again.heap.mem[k] = wide.mem[k]
        /\ again.heap.mem[b + 1].is # "head"
    BY <1>3, <1>4, <1>5, <1>10, <2>1, <2>5, AgainHolds
  <2>7. len = n
    <3>1. StaleSize(again.heap, b, size) = size
      BY <2>6, Zenon DEF StaleSize
    <3>2. PICK S : S = {size, n}
      OBVIOUS
    <3>3. S \in SUBSET Nat /\ S # {} /\ len = Min(S)
      BY <1>10, <2>2, <3>1, <3>2
    <3>4. len \in S /\ \A y \in S : len <= y
      BY <3>3, MinIs
    <3> QED BY <1>10, <2>1, <3>2, <3>4
  <2>8. Mallocs(freed, again, n) /\ Whole(freed)
    <3>1. Frees(wide, freed, b)
      BY <1>4, <1>10, FreedIs
    <3> QED BY <1>5, <3>1, MallocIs DEF Frees
  <2>9. PICK c \in Spots : again.ptr = c + BLOCK_SIZE /\ Gives(freed, again.heap, c, n)
    BY <2>4, <2>8 DEF Mallocs
  <2>10. /\ Whole(again.heap) /\ c \in Blocks(again.heap) /\ again.heap \in HeapType
         /\ c \in Nat /\ UserSize(again.heap, c) \in Nat /\ UserSize(again.heap, c) >= n
         /\ c + UserSize(again.heap, c) + 3 < Limit
    <3>1. /\ Whole(again.heap) /\ c \in Blocks(again.heap) /\ UserSize(again.heap, c) >= n
      BY <2>9 DEF Gives, UsedOf
    <3>2. /\ again.heap \in HeapType /\ again.heap.end \in Nat /\ again.heap.end < Limit
          /\ c \in Nat /\ UserSize(again.heap, c) \in Nat
          /\ get_next_block(again.heap, c) = c + UserSize(again.heap, c) + 3
          /\ get_next_block(again.heap, c) <= again.heap.end
      BY <3>1, WholeFits
    <3> QED BY <3>1, <3>2
  <2>11. again.ptr \in Nat /\ again.ptr + n <= Limit
    BY <2>9, <2>10 DEF BLOCK_SIZE
  <2>12. Carries(again.heap, g, p, again.ptr, n)
    BY <1>7, <2>3, <2>7, <2>10, <2>11, MovedCarries
  <2>13. ASSUME NEW j \in Nat, j < i PROVE g.mem[again.ptr + j] = h.mem[p + j]
    <3>1. again.heap.mem[p + j] = wide.mem[p + j]
      BY <1>12, <2>6, <2>13
    <3>2. g.mem[again.ptr + j] = again.heap.mem[p + j]
      BY <1>12, <2>12, <2>13 DEF Carries
    <3> QED BY <1>12, <2>13, <3>1, <3>2
  <2> QED BY <2>4, <2>13 DEF Carries
<1>15. CASE size < n /\ moved.ptr = NULL
  <2>1. ~(size > n) /\ size # n
    BY <1>10, <1>15
  <2>2. r = [heap |-> moved.heap, ptr |-> NULL]
    BY <1>8, <1>15, <2>1, Zenon
  <2> QED BY <2>2
<1>16. CASE size < n /\ moved.ptr # NULL
  <2>1. ~(size > n) /\ size # n
    BY <1>10, <1>16
  <2>2. PICK g : g = memmove(moved.heap, moved.ptr, p, size)
    OBVIOUS
  <2>3. PICK f : f = Freed(g, p)
    OBVIOUS
  <2>4. r.heap = f /\ r.ptr = moved.ptr
    <3>1. r = [heap |-> f, ptr |-> moved.ptr]
      BY <1>8, <1>16, <2>1, <2>2, <2>3, Zenon
    <3> QED BY <3>1
  <2>5. PICK c \in Spots : moved.ptr = c + BLOCK_SIZE /\ Gives(wide, moved.heap, c, n)
    <3>1. Mallocs(wide, moved, n)
      BY <1>6, <1>10, MallocIs
    <3> QED BY <1>16, <3>1 DEF Mallocs
  <2>6. /\ Whole(moved.heap) /\ c \notin UsedOf(h) /\ UsedOf(moved.heap) = UsedOf(h) \cup {c}
        /\ UserSize(moved.heap, c) \in Nat /\ UserSize(moved.heap, c) >= n
        /\ Spared(wide, moved.heap, b)
    BY <1>10, <2>5 DEF Gives
  <2>7. c \in Blocks(moved.heap) /\ b # c
    BY <2>6 DEF UsedOf
  <2>8. /\ moved.heap \in HeapType /\ c \in Nat /\ c + UserSize(moved.heap, c) + 3 < Limit
    <3>1. /\ moved.heap \in HeapType /\ moved.heap.end \in Nat /\ moved.heap.end < Limit
          /\ c \in Nat /\ get_next_block(moved.heap, c) = c + UserSize(moved.heap, c) + 3
          /\ get_next_block(moved.heap, c) <= moved.heap.end
      BY <2>6, <2>7, WholeFits
    <3> QED BY <2>6, <3>1
  <2>9. Inside(moved.heap, g, c)
    <3>1. size <= UserSize(moved.heap, c)
      BY <1>10, <1>16, <2>6
    <3>2. p + size <= Limit
      BY <1>7, <1>10, <1>11
    <3> QED BY <1>7, <1>10, <2>2, <2>5, <2>6, <2>7, <3>1, <3>2, MovedIs
  <2>10. /\ Whole(g) /\ UsedOf(g) = UsedOf(h) \cup {c}
         /\ UserSize(g, c) = UserSize(moved.heap, c)
    <3>1. Aside(moved.heap, g)
      BY <2>6, <2>7, <2>9, InsideIs
    <3> QED BY <2>6, <2>7, <3>1, AsideIs
  <2>11. Spared(g, f, c)
    <3>1. b \in UsedOf(g)
      BY <2>10
    <3>2. Frees(g, f, b)
      BY <2>3, <2>10, <3>1, FreedIs
    <3> QED BY <2>7, <2>10, <3>2 DEF Frees
  <2>12. moved.ptr = c + 2 /\ moved.ptr \in Nat /\ moved.ptr + size <= Limit
    BY <1>10, <1>16, <2>5, <2>6, <2>8 DEF BLOCK_SIZE
  <2>13. Carries(moved.heap, g, p, moved.ptr, size)
    BY <1>7, <1>10, <2>2, <2>8, <2>12, MovedCarries
  <2>14. ASSUME NEW j \in Nat, j < i PROVE f.mem[moved.ptr + j] = h.mem[p + j]
    <3>1. moved.heap.mem[p + j] = wide.mem[p + j]
      BY <1>3, <1>12, <2>6, <2>14 DEF Spared, BLOCK_SIZE
    <3>2. g.mem[moved.ptr + j] = moved.heap.mem[p + j]
      BY <1>12, <2>13, <2>14 DEF Carries
    <3>3. /\ moved.ptr + j \in Addresses /\ c + 2 <= moved.ptr + j
          /\ moved.ptr + j < c + 2 + UserSize(g, c)
      <4>1. j < n
        BY <1>12, <2>14
      <4> QED BY <2>6, <2>8, <2>10, <2>12, <4>1 DEF Addresses
    <3>4. f.mem[moved.ptr + j] = g.mem[moved.ptr + j]
      BY <2>11, <3>3 DEF Spared, BLOCK_SIZE
    <3> QED BY <1>12, <2>14, <3>1, <3>2, <3>4
  <2> QED BY <2>4, <2>14 DEF Carries
<1>17. size = n \/ size < n \/ size > n
  BY <1>10
<1> QED BY <1>13, <1>14, <1>15, <1>16, <1>17

-----------------------------------------------------------------------------
\* The program's side: it fills a block, and what is nobody's is forgotten.
Filled(h, x, p, i, n) ==
    [h EXCEPT !.mem = [a \in Addresses |->
        IF a \in (p + i) .. (p + n - 1) THEN Datum(x, a - p) ELSE h.mem[a]]]

\* The program fills its block and nothing else.
LEMMA FilledIs ==
  ASSUME NEW h, Whole(h), NEW c \in Blocks(h), NEW p, p = c + BLOCK_SIZE,
         NEW i \in Nat, NEW n \in Nat, n <= UserSize(h, c), NEW x \in Names,
         NEW g, g = Filled(h, x, p, i, n)
  PROVE  Inside(h, g, c)
<1>1. c \in Nat /\ UserSize(h, c) \in Nat /\ h \in HeapType /\ p = c + 2 /\ p \in Nat
  BY WholeFits DEF BLOCK_SIZE
<1>2. PICK f : f = [a \in Addresses |->
                      IF a \in (p + i) .. (p + n - 1) THEN Datum(x, a - p) ELSE h.mem[a]]
  OBVIOUS
<1>3. \A j \in Int : Datum(x, j) \in Cell
  <2>1. Raw \in Cell
    <3>1. FALSE \in BOOLEAN
      OBVIOUS
    <3>2. {} \in SUBSET Names
      OBVIOUS
    <3> QED BY <3>1, <3>2 DEF Raw, Cell, NULL
  <2>2. \A r \in Cell : \A j \in Int : [r EXCEPT !.is = "data", !.of = {x}, !.at = j] \in Cell
    <3>1. {x} \in SUBSET Names
      OBVIOUS
    <3> QED BY <3>1 DEF Cell
  <2> QED BY <2>1, <2>2, Zenon DEF Datum
<1>4. ASSUME NEW k \in Addresses
      PROVE  f[k] \in Cell /\ (k \notin (p + i) .. (p + n - 1) => f[k] = h.mem[k])
  <2>1. k - p \in Int
    BY <1>1 DEF Addresses
  <2>2. h.mem[k] \in Cell
    BY <1>1 DEF HeapType
  <2>3. f[k] = IF k \in (p + i) .. (p + n - 1) THEN Datum(x, k - p) ELSE h.mem[k]
    BY <1>2
  <2> QED BY <1>3, <2>1, <2>2, <2>3
<1>5. f \in [Addresses -> Cell]
  BY <1>2, <1>4
<1>6. g = [h EXCEPT !.mem = f]
  BY <1>2, Zenon DEF Filled
<1>7. /\ g \in HeapType /\ g.mem = f /\ g.end = h.end /\ g.heap_size = h.heap_size
      /\ g.free_head = h.free_head /\ g.free_total = h.free_total
  BY <1>1, <1>5, <1>6 DEF HeapType
<1>8. \A k \in Addresses : k < c + 2 \/ k >= c + 2 + UserSize(h, c)
                           => k \notin (p + i) .. (p + n - 1)
  BY <1>1 DEF Addresses
<1> QED BY <1>4, <1>7, <1>8 DEF Inside, BLOCK_SIZE

\* Data, or memory that has not been written.
Plain(h, k) == h.mem[k].is = "data" \/ h.mem[k] = Raw

UnitsOf(r) == r.ptr .. (r.ptr + r.size - 1)

\* Headers and tags stay, and what the blocks of the program hold.
Settles(h, g, blocks) ==
    /\ Aside(h, g)
    /\ \A r \in blocks : \A k \in UnitsOf(r) \cap Addresses : Plain(h, k) => g.mem[k] = h.mem[k]
    /\ \A k \in Addresses :
          (\A b \in Blocks(h) : k # b /\ k # b + 1 /\ k # get_next_block(h, b) - 1) => Plain(g, k)

\* Forgetting what is nobody's leaves headers, tags and what blocks hold.
LEMMA SettledIs ==
  ASSUME NEW h, Whole(h), NEW blocks, NEW g, g = Settled(h, blocks)
  PROVE  Settles(h, g, blocks)
<1>1. h \in HeapType
  BY DEF Whole, Shape, Body
<1>2. PICK meta : meta = UNION {{b, b + 1, get_next_block(h, b) - 1} : b \in Blocks(h)}
  OBVIOUS
<1>3. PICK user : user = UNION {b.ptr .. (b.ptr + b.size - 1) : b \in blocks}
  OBVIOUS
<1>4. PICK f : f = [a \in Addresses |->
                      IF a \in meta \/ (a \in user /\ h.mem[a].is = "data") THEN h.mem[a] ELSE Raw]
  OBVIOUS
<1>5. g = [h EXCEPT !.mem = f]
  BY <1>2, <1>3, <1>4, Zenon DEF Settled
<1>6. Raw \in Cell /\ Raw.is = "raw"
  <2>1. FALSE \in BOOLEAN
    OBVIOUS
  <2>2. {} \in SUBSET Names
    OBVIOUS
  <2> QED BY <2>1, <2>2 DEF Raw, Cell, NULL
<1>7. ASSUME NEW k \in Addresses
      PROVE  /\ f[k] \in Cell
             /\ f[k] = IF k \in meta \/ (k \in user /\ h.mem[k].is = "data") THEN h.mem[k] ELSE Raw
  <2>1. h.mem[k] \in Cell
    BY <1>1 DEF HeapType
  <2>2. f[k] = IF k \in meta \/ (k \in user /\ h.mem[k].is = "data") THEN h.mem[k] ELSE Raw
    BY <1>4
  <2> QED BY <1>6, <2>1, <2>2
<1>8. f \in [Addresses -> Cell]
  BY <1>4, <1>7
<1>9. /\ g \in HeapType /\ g.mem = f /\ g.end = h.end /\ g.heap_size = h.heap_size
      /\ g.free_head = h.free_head /\ g.free_total = h.free_total
  BY <1>1, <1>5, <1>8 DEF HeapType
<1>10. ASSUME NEW b \in Blocks(h)
       PROVE  /\ g.mem[b] = h.mem[b] /\ g.mem[b + 1] = h.mem[b + 1]
              /\ g.mem[get_next_block(h, b) - 1] = h.mem[get_next_block(h, b) - 1]
  <2>1. b \in meta /\ b + 1 \in meta /\ get_next_block(h, b) - 1 \in meta
    BY <1>2
  <2>2. b \in Addresses /\ b + 1 \in Addresses /\ get_next_block(h, b) - 1 \in Addresses
    <3>1. /\ b \in Nat /\ UserSize(h, b) \in Nat /\ h.end \in Nat /\ h.end < Limit
          /\ get_next_block(h, b) = b + UserSize(h, b) + 3 /\ get_next_block(h, b) <= h.end
      BY WholeFits
    <3> QED BY <3>1 DEF Addresses
  <2> QED BY <1>7, <1>9, <2>1, <2>2
<1>11. Aside(h, g)
  BY <1>9, <1>10 DEF Aside
<1>12. ASSUME NEW r \in blocks, NEW k \in UnitsOf(r) \cap Addresses, Plain(h, k)
       PROVE  g.mem[k] = h.mem[k]
  <2>1. k \in user
    BY <1>3 DEF UnitsOf
  <2>2. f[k] = IF k \in meta \/ (k \in user /\ h.mem[k].is = "data") THEN h.mem[k] ELSE Raw
    BY <1>7
  <2>3. h.mem[k].is = "data" \/ h.mem[k] = Raw
    BY <1>12 DEF Plain
  <2> QED BY <1>9, <2>1, <2>2, <2>3
<1>13. ASSUME NEW k \in Addresses,
              \A b \in Blocks(h) : k # b /\ k # b + 1 /\ k # get_next_block(h, b) - 1
       PROVE  Plain(g, k)
  <2>1. k \notin meta
    BY <1>2, <1>13
  <2>2. f[k] = IF k \in meta \/ (k \in user /\ h.mem[k].is = "data") THEN h.mem[k] ELSE Raw
    BY <1>7
  <2> QED BY <1>9, <2>1, <2>2 DEF Plain
<1> QED BY <1>11, <1>12, <1>13 DEF Settles

\* The blocks in use are those that the program has, each name at most one.
Piece == [ptr : Int, size : Nat]
Owns(h, w) ==
    /\ w \in [Names -> SUBSET Piece]
    /\ \A x \in Names : \A r, s \in w[x] : r = s
    /\ \A x \in Names : \A r \in w[x] : \E c \in UsedOf(h) :
          r.ptr = c + BLOCK_SIZE /\ r.size <= UserSize(h, c)
    /\ \A x, y \in Names : \A r \in w[x], s \in w[y] : r.ptr = s.ptr => x = y
    /\ \A c \in UsedOf(h) : \E x \in Names : \E r \in w[x] : r.ptr = c + BLOCK_SIZE

\* Who has which block does not change when blocks in use stay or get wider.
LEMMA OwnsStill ==
  ASSUME NEW h, NEW g, NEW w, Owns(h, w), UsedOf(g) = UsedOf(h),
         \A c \in UsedOf(h) : \A n \in Nat : n <= UserSize(h, c) => n <= UserSize(g, c)
  PROVE  Owns(g, w)
<1>1. \A x \in Names : \A r \in w[x] : r.size \in Nat
  BY DEF Owns, Piece
<1> QED BY <1>1, Zenon DEF Owns

\* A pointer tells where its block begins.
LEMMA SameSpot == \A c, d \in Nat : c + BLOCK_SIZE = d + BLOCK_SIZE => c = d
BY DEF BLOCK_SIZE

\* Q is x's block, as a set.
Holding(h, w, x, Q) ==
    \A c \in UsedOf(h) : c \in Q <=> \E r \in w[x] : r.ptr = c + BLOCK_SIZE

\* x's block gives way to another: Q was in use, R is, and P is what x gets.
Succeeds(h, g, w, x, P, Q, R) ==
    /\ UsedOf(h) \subseteq Nat /\ UsedOf(g) \subseteq Nat
    /\ P \in SUBSET Piece /\ \A r, s \in P : r = s
    /\ Holding(h, w, x, Q)
    /\ UsedOf(g) = (UsedOf(h) \ Q) \cup R /\ \A c \in R : c \notin UsedOf(h) \ Q
    /\ \A r \in P : \E c \in R : r.ptr = c + BLOCK_SIZE /\ r.size <= UserSize(g, c)
    /\ \A c \in R : \E r \in P : r.ptr = c + BLOCK_SIZE
    /\ \A c \in UsedOf(h) \ Q : UserSize(g, c) = UserSize(h, c)

\* After the exchange every block in use is still somebody's, and only one's.
LEMMA OwnsAnew ==
  ASSUME NEW h, NEW g, NEW w, Owns(h, w), NEW x \in Names, NEW P, NEW Q, NEW R,
         Succeeds(h, g, w, x, P, Q, R), NEW w2, w2 = [w EXCEPT ![x] = P]
  PROVE  Owns(g, w2)
<1>0. /\ UsedOf(h) \subseteq Nat /\ UsedOf(g) \subseteq Nat
      /\ P \in SUBSET Piece /\ \A r, s \in P : r = s
      /\ \A c \in UsedOf(h) : c \in Q <=> \E r \in w[x] : r.ptr = c + BLOCK_SIZE
      /\ UsedOf(g) = (UsedOf(h) \ Q) \cup R /\ \A c \in R : c \notin UsedOf(h) \ Q
      /\ \A r \in P : \E c \in R : r.ptr = c + BLOCK_SIZE /\ r.size <= UserSize(g, c)
      /\ \A c \in R : \E r \in P : r.ptr = c + BLOCK_SIZE
      /\ \A c \in UsedOf(h) \ Q : UserSize(g, c) = UserSize(h, c)
  BY DEF Succeeds, Holding
<1>2. /\ w2 \in [Names -> SUBSET Piece] /\ w2[x] = P
      /\ \A y \in Names \ {x} : w2[y] = w[y]
  BY <1>0 DEF Owns
<1>3. \A y \in Names : \A r, s \in w2[y] : r = s
  BY <1>0, <1>2 DEF Owns
<1>4. ASSUME NEW y \in Names \ {x}, NEW r \in w[y]
      PROVE  \E c \in UsedOf(h) \ Q : r.ptr = c + BLOCK_SIZE /\ r.size <= UserSize(g, c)
  <2>1. PICK c \in UsedOf(h) : r.ptr = c + BLOCK_SIZE /\ r.size <= UserSize(h, c)
    BY DEF Owns
  <2>2. c \notin Q
    <3>1. SUFFICES ASSUME c \in Q PROVE FALSE
      OBVIOUS
    <3>2. PICK s \in w[x] : s.ptr = c + BLOCK_SIZE
      BY <1>0, <3>1
    <3>3. r.ptr = s.ptr
      BY <2>1, <3>2
    <3> QED BY <3>3 DEF Owns
  <2> QED BY <1>0, <2>1, <2>2
<1>5. \A y \in Names : \A r \in w2[y] : \E c \in UsedOf(g) :
          r.ptr = c + BLOCK_SIZE /\ r.size <= UserSize(g, c)
  BY <1>0, <1>2, <1>4, Zenon
<1>6. ASSUME NEW y \in Names, NEW z \in Names, NEW r \in w2[y], NEW s \in w2[z], r.ptr = s.ptr
      PROVE  y = z
  <2>1. ASSUME NEW t \in P, NEW u \in Names \ {x}, NEW v \in w[u], t.ptr = v.ptr PROVE FALSE
    <3>1. PICK c \in R : t.ptr = c + BLOCK_SIZE
      BY <1>0
    <3>2. PICK d \in UsedOf(h) \ Q : v.ptr = d + BLOCK_SIZE
      BY <1>4
    <3>3. c \in Nat /\ d \in Nat
      BY <1>0
    <3>4. c + BLOCK_SIZE = d + BLOCK_SIZE
      BY <2>1, <3>1, <3>2, Zenon
    <3>5. c = d
      BY <3>3, <3>4, SameSpot, Zenon
    <3> QED BY <1>0, <3>5
  <2>2. CASE y = x /\ z # x
    BY <1>2, <1>6, <2>1, <2>2
  <2>3. CASE z = x /\ y # x
    BY <1>2, <1>6, <2>1, <2>3
  <2>4. CASE y # x /\ z # x
    BY <1>2, <1>6, <2>4 DEF Owns
  <2> QED BY <2>2, <2>3, <2>4
<1>7. ASSUME NEW c \in UsedOf(g) PROVE \E y \in Names : \E r \in w2[y] : r.ptr = c + BLOCK_SIZE
  <2>1. CASE c \in R
    BY <1>0, <1>2, <2>1
  <2>2. CASE c \in UsedOf(h) \ Q
    <3>1. PICK y \in Names : \E r \in w[y] : r.ptr = c + BLOCK_SIZE
      BY <2>2 DEF Owns
    <3>2. y # x
      BY <1>0, <2>2, <3>1
    <3> QED BY <1>2, <3>1, <3>2
  <2> QED BY <1>0, <2>1, <2>2
<1> QED BY <1>2, <1>3, <1>5, <1>6, <1>7 DEF Owns

\* Where a block of the program is.
Lies(h, r, c) ==
    /\ c \in UsedOf(h) /\ c \in Blocks(h) /\ c \in Nat /\ r.ptr = c + BLOCK_SIZE
    /\ r.size \in Nat /\ r.size <= UserSize(h, c) /\ UserSize(h, c) \in Nat
    /\ c + 2 + UserSize(h, c) < Limit
    /\ \A k \in UnitsOf(r) : /\ k \in Addresses /\ k \in Int
                             /\ c + BLOCK_SIZE <= k /\ k < c + BLOCK_SIZE + UserSize(h, c)

\* Each of the program's blocks lies in a block in use.
LEMMA LiesIs ==
  ASSUME NEW h, Whole(h), NEW w, Owns(h, w), NEW x \in Names, NEW r \in w[x]
  PROVE  \E c \in UsedOf(h) : Lies(h, r, c)
<1>1. PICK c \in UsedOf(h) : r.ptr = c + BLOCK_SIZE /\ r.size <= UserSize(h, c)
  BY DEF Owns
<1>2. r.size \in Nat /\ r.ptr \in Int
  <2>1. r \in Piece
    BY DEF Owns
  <2> QED BY <2>1 DEF Piece
<1>3. c \in Blocks(h)
  BY DEF UsedOf
<1>4. /\ c \in Nat /\ UserSize(h, c) \in Nat /\ h.end \in Nat /\ h.end < Limit
      /\ c + UserSize(h, c) + 3 <= h.end
  <2>1. /\ c \in Nat /\ UserSize(h, c) \in Nat /\ h.end \in Nat /\ h.end < Limit
        /\ get_next_block(h, c) = c + UserSize(h, c) + 3 /\ get_next_block(h, c) <= h.end
    BY <1>3, WholeFits
  <2> QED BY <2>1
<1>5. PICK p : p = r.ptr
  OBVIOUS
<1>6. PICK s : s = r.size
  OBVIOUS
<1>7. p = c + 2 /\ s \in Nat /\ s <= UserSize(h, c) /\ UnitsOf(r) = p .. (p + s - 1)
  BY <1>1, <1>2, <1>5, <1>6 DEF UnitsOf, BLOCK_SIZE
<1>8. ASSUME NEW k \in UnitsOf(r)
      PROVE  k \in Addresses /\ k \in Int /\ c + 2 <= k /\ k < c + 2 + UserSize(h, c)
  <2>1. k \in Int /\ c + 2 <= k /\ k <= c + 1 + s
    BY <1>4, <1>7
  <2> QED BY <1>4, <1>7, <2>1 DEF Addresses
<1>9. c + 2 + UserSize(h, c) < Limit
  BY <1>4
<1> QED BY <1>1, <1>2, <1>3, <1>4, <1>8, <1>9 DEF Lies, BLOCK_SIZE

\* They hold data or nothing.
Quiet(h, w) == \A x \in Names : \A r \in w[x] : \A k \in UnitsOf(r) : Plain(h, k)

\* What the blocks of Y hold stays.
Stays(h, g, w, Y) == \A y \in Y : \A r \in w[y] : \A k \in UnitsOf(r) : g.mem[k] = h.mem[k]

\* A user's memory is no header and no tag.
LEMMA UnitsAreNoMeta ==
  ASSUME NEW h, Whole(h), NEW r, NEW c, Lies(h, r, c), NEW k \in UnitsOf(r), NEW b \in Blocks(h)
  PROVE  k # b /\ k # b + 1 /\ k # get_next_block(h, b) - 1
<1>1. /\ c \in Blocks(h) /\ c \in Nat /\ UserSize(h, c) \in Nat /\ k \in Int
      /\ c + 2 <= k /\ k < c + 2 + UserSize(h, c)
  BY DEF Lies, BLOCK_SIZE
<1>2. /\ b \in Nat /\ UserSize(h, b) \in Nat /\ get_next_block(h, b) = b + UserSize(h, b) + 3
  BY WholeFits
<1>3. CASE b = c
  BY <1>1, <1>2, <1>3
<1>4. CASE b # c
  <2>1. k < b \/ k >= b + UserSize(h, b) + 3
    <3>1. c <= k /\ k < c + UserSize(h, c) + 3
      BY <1>1
    <3> QED BY <1>1, <1>4, <3>1, Elsewhere
  <2> QED BY <1>1, <1>2, <2>1
<1> QED BY <1>3, <1>4

\* The end of every call.
LEMMA SettlesOwned ==
  ASSUME NEW h, Whole(h), NEW w, Owns(h, w), NEW e, e = Settled(h, OwnedBy(w))
  PROVE  /\ Whole(e) /\ Owns(e, w) /\ Quiet(e, w)
         /\ \A x \in Names : \A r \in w[x] : \A k \in UnitsOf(r) :
               Plain(h, k) => e.mem[k] = h.mem[k]
<1>1. Settles(h, e, OwnedBy(w))
  BY SettledIs
<1>2. /\ Whole(e) /\ UsedOf(e) = UsedOf(h)
      /\ \A c \in Blocks(h) : UserSize(e, c) = UserSize(h, c)
  BY <1>1, AsideIs DEF Settles
<1>3. Owns(e, w)
  <2>1. \A c \in UsedOf(h) : \A n \in Nat : n <= UserSize(h, c) => n <= UserSize(e, c)
    BY <1>2 DEF UsedOf
  <2> QED BY <1>2, <2>1, OwnsStill
<1>4. ASSUME NEW x \in Names, NEW r \in w[x], NEW k \in UnitsOf(r)
      PROVE  Plain(e, k) /\ (Plain(h, k) => e.mem[k] = h.mem[k])
  <2>1. PICK c \in UsedOf(h) : Lies(h, r, c)
    BY LiesIs
  <2>2. k \in Addresses
    BY <2>1 DEF Lies
  <2>3. \A b \in Blocks(h) : k # b /\ k # b + 1 /\ k # get_next_block(h, b) - 1
    BY <2>1, UnitsAreNoMeta
  <2>4. r \in OwnedBy(w)
    BY DEF OwnedBy
  <2> QED BY <1>1, <2>2, <2>3, <2>4 DEF Settles
<1> QED BY <1>2, <1>3, <1>4 DEF Quiet

\* A call that leaves a name its block, or none: w2 is who has what afterwards,
\* and Y are those whom the call does not concern.
After(h, w, e, w2, Y) ==
    /\ Whole(e) /\ Owns(e, w2) /\ Quiet(e, w2) /\ Stays(h, e, w, Y)

\* Who is not concerned holds what he held, also after the settling.
LEMMA LeftIs ==
  ASSUME NEW h, NEW w, Quiet(h, w), NEW Y \in SUBSET Names, NEW w2, \A y \in Y : w2[y] = w[y],
         NEW g, Whole(g), Owns(g, w2), Stays(h, g, w, Y), NEW e, e = Settled(g, OwnedBy(w2))
  PROVE  After(h, w, e, w2, Y)
<1>1. /\ Whole(e) /\ Owns(e, w2) /\ Quiet(e, w2)
      /\ \A x \in Names : \A r \in w2[x] : \A k \in UnitsOf(r) :
            Plain(g, k) => e.mem[k] = g.mem[k]
  BY SettlesOwned
<1>2. ASSUME NEW y \in Y, NEW r \in w[y], NEW k \in UnitsOf(r) PROVE e.mem[k] = h.mem[k]
  <2>1. y \in Names /\ r \in w2[y]
    OBVIOUS
  <2>2. Plain(h, k) /\ g.mem[k] = h.mem[k]
    BY <2>1 DEF Quiet, Stays
  <2>3. Plain(g, k)
    BY <2>2 DEF Plain
  <2> QED BY <1>1, <2>1, <2>2, <2>3
<1> QED BY <1>1, <1>2 DEF After, Stays

\* Filling a block changes nothing of whose blocks are whose.
LEMMA FilledOwns ==
  ASSUME NEW g, Whole(g), NEW w, Owns(g, w), NEW c \in UsedOf(g), NEW p, p = c + BLOCK_SIZE,
         NEW n \in Nat, n <= UserSize(g, c), NEW x \in Names, NEW i \in Nat,
         NEW f, f = Filled(g, x, p, i, n)
  PROVE  Whole(f) /\ Owns(f, w) /\ \A d \in Blocks(g) \ {c} : Spared(g, f, d)
<1>1. c \in Blocks(g)
  BY DEF UsedOf
<1>2. Aside(g, f) /\ \A d \in Blocks(g) \ {c} : Spared(g, f, d)
  <2>1. Inside(g, f, c)
    BY <1>1, FilledIs
  <2> QED BY <1>1, <2>1, InsideIs
<1>3. /\ Whole(f) /\ UsedOf(f) = UsedOf(g)
      /\ \A d \in Blocks(g) : UserSize(f, d) = UserSize(g, d)
  BY <1>2, AsideIs
<1>4. Owns(f, w)
  <2>1. \A d \in UsedOf(g) : \A m \in Nat : m <= UserSize(g, d) => m <= UserSize(f, d)
    BY <1>3 DEF UsedOf
  <2> QED BY <1>3, <2>1, OwnsStill
<1> QED BY <1>2, <1>3, <1>4

\* A block holds its data when the part that was not filled did before.
LEMMA FilledHas ==
  ASSUME NEW g, Whole(g), NEW w, Owns(g, w), NEW c \in UsedOf(g), NEW p, p = c + BLOCK_SIZE,
         NEW n \in Nat, n <= UserSize(g, c), NEW x \in Names, NEW r \in w[x], r.ptr = p,
         r.size = n, NEW i \in Nat, \A j \in Nat : j < i /\ j < n => g.mem[p + j] = Datum(x, j),
         NEW e, e = Settled(Filled(g, x, p, i, n), OwnedBy(w))
  PROVE  \A j \in 0..(n - 1) : e.mem[p + j] = Datum(x, j)
<1>1. PICK f : f = Filled(g, x, p, i, n)
  OBVIOUS
<1>2. Whole(f) /\ Owns(f, w)
  BY <1>1, FilledOwns
<1>3. /\ g \in HeapType /\ c \in Nat /\ UserSize(g, c) \in Nat /\ p = c + 2
      /\ c + UserSize(g, c) + 3 < Limit
  <2>1. c \in Blocks(g)
    BY DEF UsedOf
  <2>2. /\ g \in HeapType /\ g.end \in Nat /\ g.end < Limit /\ c \in Nat
        /\ UserSize(g, c) \in Nat /\ get_next_block(g, c) = c + UserSize(g, c) + 3
        /\ get_next_block(g, c) <= g.end
    BY <2>1, WholeFits
  <2> QED BY <2>2 DEF BLOCK_SIZE
<1>4. ASSUME NEW j \in 0..(n - 1) PROVE e.mem[p + j] = Datum(x, j)
  <2>1. p + j \in Addresses /\ p + j \in UnitsOf(r) /\ (p + j) - p = j /\ j \in Nat /\ j < n
    BY <1>3 DEF Addresses, UnitsOf
  <2>2. f.mem[p + j] = Datum(x, j)
    <3>1. PICK m : m = [a \in Addresses |->
              IF a \in (p + i) .. (p + n - 1) THEN Datum(x, a - p) ELSE g.mem[a]]
      OBVIOUS
    <3>2. f.mem = m
      BY <1>1, <1>3, <3>1 DEF Filled, HeapType
    <3>3. m[p + j] = IF p + j \in (p + i) .. (p + n - 1) THEN Datum(x, j) ELSE g.mem[p + j]
      BY <2>1, <3>1
    <3>4. CASE j < i
      BY <2>1, <3>2, <3>3, <3>4
    <3>5. CASE ~(j < i)
      <4>1. p + j \in (p + i) .. (p + n - 1)
        BY <1>3, <2>1, <3>5
      <4> QED BY <3>2, <3>3, <4>1
    <3> QED BY <3>4, <3>5
  <2>3. Plain(f, p + j)
    BY <2>2 DEF Plain, Datum, Raw
  <2>4. e = Settled(f, OwnedBy(w))
    BY <1>1
  <2>5. e.mem[p + j] = f.mem[p + j]
    BY <1>2, <2>1, <2>3, <2>4, SettlesOwned
  <2> QED BY <2>2, <2>5
<1> QED BY <1>4

\* The same after the program has filled what it was given, the block c.
LEMMA FilledLeft ==
  ASSUME NEW h, NEW w, Quiet(h, w), NEW x \in Names, NEW w2,
         \A y \in Names \ {x} : w2[y] = w[y],
         NEW g, Whole(g), Owns(g, w2), Stays(h, g, w, Names \ {x}),
         NEW c \in UsedOf(g), NEW p, p = c + BLOCK_SIZE, NEW n \in Nat, n <= UserSize(g, c),
         NEW r \in w2[x], r.ptr = p, NEW i \in Nat,
         NEW e, e = Settled(Filled(g, x, p, i, n), OwnedBy(w2))
  PROVE  After(h, w, e, w2, Names \ {x})
<1>1. PICK f : f = Filled(g, x, p, i, n)
  OBVIOUS
<1>2. Whole(f) /\ Owns(f, w2) /\ \A d \in Blocks(g) \ {c} : Spared(g, f, d)
  BY <1>1, FilledOwns
<1>3. Stays(h, f, w, Names \ {x})
  <2>1. ASSUME NEW y \in Names \ {x}, NEW s \in w[y], NEW k \in UnitsOf(s)
        PROVE  f.mem[k] = h.mem[k]
    <3>1. s \in w2[y]
      OBVIOUS
    <3>2. PICK d \in UsedOf(g) : Lies(g, s, d)
      BY <3>1, LiesIs
    <3>3. d # c
      <4>1. SUFFICES ASSUME d = c PROVE FALSE
        OBVIOUS
      <4>2. s.ptr = r.ptr
        BY <3>2, <4>1 DEF Lies
      <4>3. y = x
        BY <3>1, <4>2 DEF Owns
      <4> QED BY <4>3
    <3>4. /\ k \in Addresses /\ d \in Blocks(g)
          /\ d + BLOCK_SIZE <= k /\ k < d + BLOCK_SIZE + UserSize(g, d)
      BY <3>2 DEF Lies
    <3>5. f.mem[k] = g.mem[k]
      BY <1>2, <3>3, <3>4 DEF Spared
    <3> QED BY <3>5 DEF Stays
  <2> QED BY <2>1 DEF Stays
<1> QED BY <1>1, <1>2, <1>3, LeftIs

\* Blocks that are spared hold what they held.
LEMMA SparedStays ==
  ASSUME NEW h, Whole(h), NEW w, Owns(h, w), NEW g, NEW Y \in SUBSET Names,
         \A y \in Y : \A r \in w[y] : \A c \in UsedOf(h) : r.ptr = c + BLOCK_SIZE => Spared(h, g, c)
  PROVE  Stays(h, g, w, Y)
<1>1. ASSUME NEW y \in Y, NEW r \in w[y], NEW k \in UnitsOf(r) PROVE g.mem[k] = h.mem[k]
  <2>1. PICK c \in UsedOf(h) : Lies(h, r, c)
    BY LiesIs
  <2>2. /\ k \in Addresses /\ r.ptr = c + BLOCK_SIZE
        /\ c + BLOCK_SIZE <= k /\ k < c + BLOCK_SIZE + UserSize(h, c)
    BY <2>1 DEF Lies
  <2> QED BY <2>2 DEF Spared
<1> QED BY <1>1 DEF Stays

\* What the invariant says of a heap and of who has which block in it.
Proper(h, w) == Whole(h) /\ Owns(h, w) /\ Quiet(h, w)

\* Blocks in use are at natural addresses.
LEMMA UsedFits == ASSUME NEW h, Whole(h) PROVE UsedOf(h) \subseteq Nat
<1>1. \A c \in UsedOf(h) : c \in Blocks(h)
  BY DEF UsedOf
<1> QED BY <1>1, WholeFits

\* The block that a name has is the only one it has.
LEMMA HoldingIs ==
  ASSUME NEW h, NEW w, Proper(h, w), NEW x \in Names, NEW r \in w[x]
  PROVE  \E c \in UsedOf(h) : Lies(h, r, c) /\ Holding(h, w, x, {c})
<1>1. Whole(h) /\ Owns(h, w)
  BY DEF Proper
<1>2. PICK c \in UsedOf(h) : Lies(h, r, c)
  BY <1>1, LiesIs
<1>3. ASSUME NEW d \in UsedOf(h) PROVE d \in {c} <=> \E s \in w[x] : s.ptr = d + BLOCK_SIZE
  <2>1. r.ptr = c + BLOCK_SIZE
    BY <1>2 DEF Lies
  <2>2. ASSUME NEW s \in w[x], s.ptr = d + BLOCK_SIZE PROVE d = c
    <3>1. s = r
      BY <1>1 DEF Owns
    <3>2. d + BLOCK_SIZE = c + BLOCK_SIZE
      BY <2>1, <2>2, <3>1
    <3>3. c \in Nat /\ d \in Nat
      BY <1>1, UsedFits
    <3> QED BY <3>2, <3>3, SameSpot
  <2> QED BY <2>1, <2>2
<1> QED BY <1>2, <1>3 DEF Holding

\* Whoever is spared but x holds what he held.
LEMMA OthersStay ==
  ASSUME NEW h, NEW w, Proper(h, w), NEW x \in Names, NEW Q, Holding(h, w, x, Q),
         NEW g, \A d \in UsedOf(h) \ Q : Spared(h, g, d)
  PROVE  Stays(h, g, w, Names \ {x})
<1>1. Whole(h) /\ Owns(h, w)
  BY DEF Proper
<1>2. ASSUME NEW y \in Names \ {x}, NEW r \in w[y], NEW c \in UsedOf(h), r.ptr = c + BLOCK_SIZE
      PROVE  Spared(h, g, c)
  <2>1. c \notin Q
    <3>1. SUFFICES ASSUME c \in Q PROVE FALSE
      OBVIOUS
    <3>2. PICK s \in w[x] : s.ptr = c + BLOCK_SIZE
      BY <3>1 DEF Holding
    <3>3. y = x
      BY <1>1, <1>2, <3>2 DEF Owns
    <3> QED BY <3>3
  <2> QED BY <2>1
<1>3. Names \ {x} \in SUBSET Names
  OBVIOUS
<1>4. \A y \in Names \ {x} : \A r \in w[y] : \A c \in UsedOf(h) :
         r.ptr = c + BLOCK_SIZE => Spared(h, g, c)
  BY <1>2
<1>5. PICK Y : Y = Names \ {x}
  OBVIOUS
<1> QED BY <1>1, <1>3, <1>4, <1>5, SparedStays

\* x has a block of n units at p, everybody else has what he had.
Got(g, w, w2, x, p, n) ==
    /\ Owns(g, w2) /\ \A y \in Names \ {x} : w2[y] = w[y]
    /\ \E r \in w2[x] : r.ptr = p /\ r.size = n

\* x has a block from now on, in place of the one of Q: still all that is in use
\* is somebody's.
LEMMA OwnsGot ==
  ASSUME NEW h, NEW w, Proper(h, w), NEW x \in Names, NEW Q, Holding(h, w, x, Q),
         NEW g, Whole(g), NEW c \in Spots, c \notin UsedOf(h) \ Q,
         UsedOf(g) = (UsedOf(h) \ Q) \cup {c}, NEW n \in Nat, UserSize(g, c) \in Nat,
         UserSize(g, c) >= n, \A d \in UsedOf(h) \ Q : Spared(h, g, d),
         NEW p, p = c + BLOCK_SIZE,
         NEW w2, w2 = [w EXCEPT ![x] = {[ptr |-> p, size |-> n]}]
  PROVE  Got(g, w, w2, x, p, n)
<1>1. Whole(h) /\ Owns(h, w) /\ Quiet(h, w) /\ w \in [Names -> SUBSET Piece]
  BY DEF Proper, Owns
<1>2. c \in Nat /\ p \in Int /\ n <= UserSize(g, c)
  BY SpotsFit DEF BLOCK_SIZE
<1>3. PICK r : r = [ptr |-> p, size |-> n]
  OBVIOUS
<1>4. r.ptr = p /\ r.size = n /\ r \in Piece
  BY <1>2, <1>3 DEF Piece
<1>5. PICK P : P = {r}
  OBVIOUS
<1>6. w2 = [w EXCEPT ![x] = P]
  BY <1>3, <1>5
<1>7. w2[x] = {r} /\ \A y \in Names \ {x} : w2[y] = w[y]
  BY <1>1, <1>5, <1>6
<1>8. PICK R : R = {c}
  OBVIOUS
<1>9. Owns(g, w2)
  <2>1. UsedOf(h) \subseteq Nat /\ UsedOf(g) \subseteq Nat
    BY <1>1, UsedFits
  <2>2. P \in SUBSET Piece /\ \A s, t \in P : s = t
    BY <1>4, <1>5
  <2>4. UsedOf(g) = (UsedOf(h) \ Q) \cup R /\ \A d \in R : d \notin UsedOf(h) \ Q
    BY <1>8
  <2>5. \A s \in P : \E d \in R : s.ptr = d + BLOCK_SIZE /\ s.size <= UserSize(g, d)
    BY <1>2, <1>4, <1>5, <1>8
  <2>6. \A d \in R : \E s \in P : s.ptr = d + BLOCK_SIZE
    BY <1>4, <1>5, <1>8
  <2>7. \A d \in UsedOf(h) \ Q : UserSize(g, d) = UserSize(h, d)
    BY DEF Spared
  <2>8. Succeeds(h, g, w, x, P, Q, R)
    BY <2>1, <2>2, <2>4, <2>5, <2>6, <2>7 DEF Succeeds
  <2> QED BY <1>1, <1>6, <2>8, OwnsAnew
<1> QED BY <1>4, <1>7, <1>9 DEF Got

\* The same after it has been filled.
LEMMA GetsIs ==
  ASSUME NEW h, NEW w, Proper(h, w), NEW x \in Names, NEW Q, Holding(h, w, x, Q),
         NEW g, Whole(g), NEW c \in Spots, c \notin UsedOf(h) \ Q,
         UsedOf(g) = (UsedOf(h) \ Q) \cup {c}, NEW n \in Nat, UserSize(g, c) \in Nat,
         UserSize(g, c) >= n, \A d \in UsedOf(h) \ Q : Spared(h, g, d),
         NEW p, p = c + BLOCK_SIZE, NEW i \in Nat,
         NEW w2, w2 = [w EXCEPT ![x] = {[ptr |-> p, size |-> n]}],
         NEW e, e = Settled(Filled(g, x, p, i, n), OwnedBy(w2))
  PROVE  After(h, w, e, w2, Names \ {x})
<1>1. Quiet(h, w) /\ Stays(h, g, w, Names \ {x})
  BY OthersStay DEF Proper
<1>2. Got(g, w, w2, x, p, n)
  BY OwnsGot
<1>3. PICK r \in w2[x] : r.ptr = p
  BY <1>2 DEF Got
<1>4. c \in UsedOf(g) /\ n <= UserSize(g, c)
  OBVIOUS
<1>5. Owns(g, w2) /\ \A y \in Names \ {x} : w2[y] = w[y]
  BY <1>2 DEF Got
<1> QED BY <1>1, <1>3, <1>4, <1>5, FilledLeft

\* x has no block any more.
LEMMA LosesIs ==
  ASSUME NEW h, NEW w, Proper(h, w), NEW x \in Names, NEW Q, Holding(h, w, x, Q),
         NEW g, Whole(g), UsedOf(g) = UsedOf(h) \ Q, \A d \in UsedOf(h) \ Q : Spared(h, g, d),
         NEW w2, w2 = [w EXCEPT ![x] = {}], NEW e, e = Settled(g, OwnedBy(w2))
  PROVE  After(h, w, e, w2, Names \ {x})
<1>1. Whole(h) /\ Owns(h, w) /\ Quiet(h, w) /\ w \in [Names -> SUBSET Piece]
  BY DEF Proper, Owns
<1>2. PICK P : P = {}
  OBVIOUS
<1>3. w2 = [w EXCEPT ![x] = P] /\ \A y \in Names \ {x} : w2[y] = w[y]
  BY <1>1, <1>2
<1>4. PICK R : R = {}
  OBVIOUS
<1>5. Owns(g, w2)
  <2>1. UsedOf(h) \subseteq Nat /\ UsedOf(g) \subseteq Nat
    BY <1>1, UsedFits
  <2>2. P \in SUBSET Piece /\ \A s, t \in P : s = t
    BY <1>2
  <2>4. UsedOf(g) = (UsedOf(h) \ Q) \cup R /\ \A d \in R : d \notin UsedOf(h) \ Q
    BY <1>4
  <2>5. \A s \in P : \E d \in R : s.ptr = d + BLOCK_SIZE /\ s.size <= UserSize(g, d)
    BY <1>2
  <2>6. \A d \in R : \E s \in P : s.ptr = d + BLOCK_SIZE
    BY <1>4
  <2>7. \A d \in UsedOf(h) \ Q : UserSize(g, d) = UserSize(h, d)
    BY DEF Spared
  <2>8. Succeeds(h, g, w, x, P, Q, R)
    BY <2>1, <2>2, <2>4, <2>5, <2>6, <2>7 DEF Succeeds
  <2> QED BY <1>1, <1>3, <2>8, OwnsAnew
<1>6. Stays(h, g, w, Names \ {x})
  BY OthersStay
<1>7. PICK Y : Y = Names \ {x}
  OBVIOUS
<1>8. Y \in SUBSET Names /\ \A y \in Y : w2[y] = w[y]
  BY <1>3, <1>7
<1> QED BY <1>1, <1>5, <1>6, <1>7, <1>8, LeftIs

\* Everybody keeps his block; it may be wider than before.
LEMMA RefusedIs ==
  ASSUME NEW h, NEW w, Proper(h, w), NEW g, Whole(g), UsedOf(g) = UsedOf(h),
         \A c \in UsedOf(h) : \A m \in Nat : m <= UserSize(h, c) => m <= UserSize(g, c),
         Stays(h, g, w, Names), NEW e, e = Settled(g, OwnedBy(w))
  PROVE  After(h, w, e, w, Names)
<1>1. Owns(g, w) /\ Quiet(h, w)
  BY OwnsStill DEF Proper
<1> QED BY <1>1, LeftIs

-----------------------------------------------------------------------------
\* The invariant: the heap is whole, its blocks in use are the program's, and
\* these hold data or nothing.
HeapInv == Proper(heap, live)

\* What a call can come to: x has got a block of n units, lost its block, or NULL
\* has come back.
Gets(x, n) ==
    \E p \in Int : /\ live' = [live EXCEPT ![x] = {[ptr |-> p, size |-> n]}]
                   /\ After(heap, live, heap', live', Names \ {x})
Loses(x) ==
    /\ live' = [live EXCEPT ![x] = {}]
    /\ After(heap, live, heap', live', Names \ {x})
Refuses == live' = live /\ After(heap, live, heap', live', Names)

\* x's block holds what it held, or has slid down into a smaller free one.
SlidDown(x) ==
    \E b \in live[x], c \in live'[x] :
       LET prev == get_prev_block(heap, b.ptr - BLOCK_SIZE)
       IN  /\ prev # NULL /\ IsFree(heap, prev)
           /\ UserSize(heap, prev) < c.size
Spoils(x) == Intact(x) => Intact(x)' \/ SlidDown(x)

\* malloc as the program sees it.
LEMMA AllocateIs ==
  ASSUME HeapInv, NEW x \in Names, NEW n \in Sizes, Allocate(x, n)
  PROVE  (Gets(x, n) /\ Spoils(x)) \/ Refuses
<1>1. Proper(heap, live) /\ Whole(heap) /\ Owns(heap, live) /\ n \in Nat
  BY DEF HeapInv, Proper
<1>2. PICK r : r = Malloc(heap, n)
  OBVIOUS
<1>3. live[x] = {} /\ IF r.ptr = NULL THEN Refused(r) ELSE Fill(r, x, 0, n)
  BY <1>2, Zenon DEF Allocate
<1>4. Mallocs(heap, r, n)
  BY <1>1, <1>2, MallocIs
<1>5. \A c \in Spots : c + BLOCK_SIZE # NULL
  BY SpotsFit DEF BLOCK_SIZE, NULL
<1>6. PICK Q : Q = {}
  OBVIOUS
<1>7. Holding(heap, live, x, Q)
  BY <1>3, <1>6 DEF Holding
<1>8. UsedOf(heap) \ Q = UsedOf(heap)
  BY <1>6
<1>9. CASE r.ptr = NULL
  <2>1. heap' = Settled(r.heap, OwnedBy(live)) /\ live' = live
    BY <1>3, <1>9 DEF Refused
  <2>2. PICK g : g = r.heap
    OBVIOUS
  <2>3. Whole(g) /\ UsedOf(g) = UsedOf(heap) /\ \A c \in UsedOf(heap) : Spared(heap, g, c)
    BY <1>4, <1>5, <1>9, <2>2 DEF Mallocs, Keeps
  <2>4. \A c \in UsedOf(heap) : \A m \in Nat : m <= UserSize(heap, c) => m <= UserSize(g, c)
    BY <2>3 DEF Spared
  <2>5. Stays(heap, g, live, Names)
    BY <1>1, <2>3, SparedStays
  <2>6. After(heap, live, heap', live, Names)
    BY <1>1, <2>1, <2>2, <2>3, <2>4, <2>5, RefusedIs
  <2> QED BY <2>1, <2>6 DEF Refuses
<1>10. CASE r.ptr # NULL
  <2>1. PICK c \in Spots : r.ptr = c + BLOCK_SIZE /\ Gives(heap, r.heap, c, n)
    BY <1>4, <1>10 DEF Mallocs
  <2>2. PICK g : g = r.heap
    OBVIOUS
  <2>3. PICK p : p = r.ptr
    OBVIOUS
  <2>4. /\ live' = [live EXCEPT ![x] = {[ptr |-> p, size |-> n]}]
        /\ heap' = Settled(Filled(g, x, p, 0, n), OwnedBy(live'))
    BY <1>3, <1>10, <2>2, <2>3, Zenon DEF Fill, Filled
  <2>5. /\ Whole(g) /\ c \notin UsedOf(heap) \ Q /\ UsedOf(g) = (UsedOf(heap) \ Q) \cup {c}
        /\ UserSize(g, c) \in Nat /\ UserSize(g, c) >= n
        /\ \A d \in UsedOf(heap) \ Q : Spared(heap, g, d)
    BY <1>8, <2>1, <2>2 DEF Gives
  <2>6. p = c + BLOCK_SIZE /\ p \in Int
    BY <2>1, <2>3, SpotsFit DEF BLOCK_SIZE
  <2>7. PICK i : i = 0
    OBVIOUS
  <2>8. i \in Nat /\ heap' = Settled(Filled(g, x, p, i, n), OwnedBy(live'))
    BY <2>4, <2>7
  <2>9. After(heap, live, heap', live', Names \ {x})
    BY <1>1, <1>7, <2>4, <2>5, <2>6, <2>8, GetsIs
  <2>10. Got(g, live, live', x, p, n)
    BY <1>1, <1>7, <2>4, <2>5, <2>6, OwnsGot
  <2>11. Owns(g, live') /\ \E s \in live'[x] : s.ptr = p /\ s.size = n
    BY <2>10 DEF Got
  <2>12. PICK s \in live'[x] : s.ptr = p /\ s.size = n
    BY <2>11
  <2>13. Intact(x)'
    <3>1. c \in UsedOf(g) /\ n <= UserSize(g, c)
      BY <1>1, <2>5
    <3>2. \A j \in Nat : j < i /\ j < n => g.mem[p + j] = Datum(x, j)
      BY <2>7
    <3>3. \A j \in 0..(n - 1) : heap'.mem[p + j] = Datum(x, j)
      BY <1>1, <2>5, <2>6, <2>8, <2>11, <2>12, <3>1, <3>2, FilledHas
    <3>4. \A t \in live'[x] : t = s
      BY <2>11 DEF Owns
    <3> QED BY <2>12, <3>3, <3>4 DEF Intact
  <2> QED BY <2>4, <2>6, <2>9, <2>13 DEF Gets, Spoils
<1> QED BY <1>9, <1>10

\* free as the program sees it.
LEMMA ReleaseIs ==
  ASSUME HeapInv, NEW x \in Names, Release(x)
  PROVE  live[x] # {} /\ Loses(x)
<1>1. Proper(heap, live) /\ Whole(heap) /\ Owns(heap, live)
  BY DEF HeapInv, Proper
<1>2. PICK b \in live[x] : /\ live' = [live EXCEPT ![x] = {}]
                           /\ heap' = Settled(Freed(heap, b.ptr), OwnedBy(live'))
  BY DEF Release
<1>3. PICK c \in UsedOf(heap) : Lies(heap, b, c) /\ Holding(heap, live, x, {c})
  BY <1>1, HoldingIs
<1>4. PICK p : p = b.ptr
  OBVIOUS
<1>5. p = c + BLOCK_SIZE
  BY <1>3, <1>4 DEF Lies
<1>6. PICK g : g = Freed(heap, p)
  OBVIOUS
<1>7. Frees(heap, g, c)
  BY <1>1, <1>5, <1>6, FreedIs
<1>8. PICK Q : Q = {c}
  OBVIOUS
<1>9. /\ Whole(g) /\ UsedOf(g) = UsedOf(heap) \ Q
      /\ \A d \in UsedOf(heap) \ Q : Spared(heap, g, d)
  BY <1>7, <1>8 DEF Frees
<1>10. After(heap, live, heap', live', Names \ {x})
  BY <1>1, <1>2, <1>3, <1>4, <1>6, <1>8, <1>9, LosesIs
<1> QED BY <1>2, <1>10 DEF Loses

\* realloc as the program sees it.
LEMMA ResizeIs ==
  ASSUME HeapInv, NEW x \in Names, NEW n \in Sizes, NEW exact \in BOOLEAN, Resize(x, n, exact)
  PROVE  live[x] # {} /\ ((Gets(x, n) /\ Spoils(x)) \/ Refuses)
<1>1. Proper(heap, live) /\ Whole(heap) /\ Owns(heap, live) /\ n \in Nat
  BY DEF HeapInv, Proper
<1>2. PICK b \in live[x] : LET r == Realloc(heap, b.ptr, n, exact)
                           IN  IF r.ptr = NULL THEN Refused(r) ELSE Fill(r, x, Min({b.size, n}), n)
  BY DEF Resize
<1>3. PICK c \in UsedOf(heap) : Lies(heap, b, c) /\ Holding(heap, live, x, {c})
  BY <1>1, HoldingIs
<1>4. PICK p : p = b.ptr
  OBVIOUS
<1>5. p = c + BLOCK_SIZE
  BY <1>3, <1>4 DEF Lies
<1>6. PICK i : i = Min({b.size, n})
  OBVIOUS
<1>7. i \in Nat /\ i <= b.size /\ i <= n /\ b.size \in Nat
  <2>1. PICK S : S = {b.size, n}
    OBVIOUS
  <2>2. S \in SUBSET Nat /\ S # {}
    BY <1>1, <1>3, <2>1 DEF Lies
  <2>3. Min(S) \in S /\ \A y \in S : Min(S) <= y
    BY <2>2, MinIs
  <2> QED BY <1>6, <2>1, <2>2, <2>3
<1>8. PICK r : r = Realloc(heap, p, n, exact)
  OBVIOUS
<1>9. IF r.ptr = NULL THEN Refused(r) ELSE Fill(r, x, i, n)
  BY <1>2, <1>4, <1>6, <1>8, Zenon
<1>10. Reallocs(heap, r, c, n)
  BY <1>1, <1>5, <1>8, ReallocIs
<1>11. \A d \in Spots : d + BLOCK_SIZE # NULL
  BY SpotsFit DEF BLOCK_SIZE, NULL
<1>12. PICK g : g = r.heap
  OBVIOUS
<1>13. PICK Q : Q = {c}
  OBVIOUS
<1>14. CASE r.ptr = NULL
  <2>1. heap' = Settled(g, OwnedBy(live)) /\ live' = live
    BY <1>9, <1>12, <1>14 DEF Refused
  <2>2. Widens(heap, g, c)
    BY <1>10, <1>11, <1>12, <1>14 DEF Reallocs
  <2>3. /\ Whole(g) /\ UsedOf(g) = UsedOf(heap)
        /\ \A d \in UsedOf(heap) \ Q : Spared(heap, g, d)
        /\ UserSize(g, c) \in Nat /\ UserSize(g, c) >= UserSize(heap, c)
    BY <1>13, <2>2 DEF Widens
  <2>4. ASSUME NEW d \in UsedOf(heap), NEW m \in Nat, m <= UserSize(heap, d)
        PROVE  m <= UserSize(g, d)
    <3>1. CASE d = c
      <4>1. UserSize(heap, c) \in Nat
        BY <1>3 DEF Lies
      <4> QED BY <2>3, <2>4, <3>1, <4>1
    <3>2. CASE d # c
      BY <1>13, <2>3, <2>4, <3>2 DEF Spared
    <3> QED BY <3>1, <3>2
  <2>5. Stays(heap, g, live, Names)
    <3>1. Stays(heap, g, live, Names \ {x})
      BY <1>1, <1>3, <1>13, <2>3, OthersStay
    <3>2. ASSUME NEW s \in live[x], NEW k \in UnitsOf(s) PROVE g.mem[k] = heap.mem[k]
      <4>1. s = b
        BY <1>1 DEF Owns
      <4>2. /\ k \in Addresses /\ c + BLOCK_SIZE <= k
            /\ k < c + BLOCK_SIZE + UserSize(heap, c)
        BY <1>3, <3>2, <4>1 DEF Lies
      <4> QED BY <2>2, <4>2 DEF Widens
    <3> QED BY <3>1, <3>2 DEF Stays
  <2>6. After(heap, live, heap', live, Names)
    BY <1>1, <2>1, <2>3, <2>4, <2>5, RefusedIs
  <2> QED BY <2>1, <2>6 DEF Refuses
<1>15. CASE r.ptr # NULL
  <2>1. PICK d \in Spots : /\ r.ptr = d + BLOCK_SIZE /\ Whole(g)
                           /\ d \notin UsedOf(heap) \ {c}
                           /\ UsedOf(g) = (UsedOf(heap) \ {c}) \cup {d}
                           /\ UserSize(g, d) \in Nat /\ UserSize(g, d) >= n
                           /\ \A a \in UsedOf(heap) \ {c} : Spared(heap, g, a)
    BY <1>10, <1>12, <1>15 DEF Reallocs
  <2>2. PICK q : q = r.ptr
    OBVIOUS
  <2>3. /\ live' = [live EXCEPT ![x] = {[ptr |-> q, size |-> n]}]
        /\ heap' = Settled(Filled(g, x, q, i, n), OwnedBy(live'))
    BY <1>9, <1>12, <1>15, <2>2, Zenon DEF Fill, Filled
  <2>4. q = d + BLOCK_SIZE /\ q \in Int
    BY <2>1, <2>2, SpotsFit DEF BLOCK_SIZE
  <2>5. After(heap, live, heap', live', Names \ {x})
    BY <1>1, <1>3, <1>7, <2>1, <2>3, <2>4, GetsIs
  <2>6. Got(g, live, live', x, q, n)
    BY <1>1, <1>3, <2>1, <2>3, <2>4, OwnsGot
  <2>7. Owns(g, live') /\ \E s \in live'[x] : s.ptr = q /\ s.size = n
    BY <2>6 DEF Got
  <2>8. PICK s \in live'[x] : s.ptr = q /\ s.size = n
    BY <2>7
  <2>9. CASE Slides(heap, c, n)
    <3>1. c \in Nat /\ p - BLOCK_SIZE = c
      BY <1>3, <1>5 DEF Lies, BLOCK_SIZE
    <3>2. SlidDown(x)
      BY <1>4, <2>8, <2>9, <3>1 DEF Slides, SlidDown
    <3> QED BY <2>3, <2>4, <2>5, <3>2 DEF Gets, Spoils
  <2>10. CASE ~Slides(heap, c, n)
    <3> SUFFICES ASSUME Intact(x) PROVE Intact(x)'
      BY <2>3, <2>4, <2>5 DEF Gets, Spoils
    <3>1. Carries(heap, g, p, q, i)
      <4>1. i <= UserSize(heap, c)
        BY <1>3, <1>7 DEF Lies
      <4> QED BY <1>1, <1>5, <1>7, <1>8, <1>12, <1>15, <2>2, <2>10, <4>1, ReallocCarries
    <3>2. ASSUME NEW j \in Nat, j < i, j < n PROVE g.mem[q + j] = Datum(x, j)
      <4>1. j \in 0..(b.size - 1)
        BY <1>7, <3>2
      <4>2. heap.mem[p + j] = Datum(x, j)
        BY <1>4, <4>1 DEF Intact
      <4> QED BY <3>1, <3>2, <4>2 DEF Carries
    <3>3. \A j \in Nat : j < i /\ j < n => g.mem[q + j] = Datum(x, j)
      BY <3>2
    <3>4. /\ d \in UsedOf(g) /\ n <= UserSize(g, d) /\ Whole(g) /\ Owns(g, live')
          /\ q = d + BLOCK_SIZE /\ n \in Nat /\ i \in Nat
          /\ heap' = Settled(Filled(g, x, q, i, n), OwnedBy(live'))
      BY <1>1, <1>7, <2>1, <2>3, <2>4, <2>7
    <3>5. \A j \in 0..(n - 1) : heap'.mem[q + j] = Datum(x, j)
      BY <2>8, <3>3, <3>4, FilledHas
    <3>6. \A t \in live'[x] : t = s
      BY <2>7 DEF Owns
    <3> QED BY <2>8, <3>5, <3>6 DEF Intact
  <2> QED BY <2>9, <2>10
<1> QED BY <1>14, <1>15

\* The heap before the first call satisfies the invariant.
LEMMA FirstHeap == Init => HeapInv
<1> SUFFICES ASSUME Init PROVE HeapInv
  OBVIOUS
<1>1. PICK m : m = [a \in Addresses |-> Raw]
  OBVIOUS
<1>2. heap = [mem |-> m, end |-> 0, heap_size |-> 0, free_head |-> NULL, free_total |-> 0]
      /\ live = [x \in Names |-> {}]
  BY <1>1, Zenon DEF Init
<1>3. Raw \in Cell
  <2>1. FALSE \in BOOLEAN
    OBVIOUS
  <2>2. {} \in SUBSET Names
    OBVIOUS
  <2> QED BY <2>1, <2>2 DEF Raw, Cell, NULL
<1>4. m \in [Addresses -> Cell]
  BY <1>1, <1>3
<1>5. /\ heap \in HeapType /\ heap.end = 0 /\ heap.heap_size = 0 /\ heap.free_head = NULL
      /\ heap.free_total = 0
  BY <1>2, <1>4 DEF HeapType
<1>6. PICK B : B = {}
  OBVIOUS
<1>7. Body(heap, B)
  <2>1. Tiles(heap, B)
    BY <1>5, <1>6 DEF Tiles
  <2>2. Bounded(heap) /\ Marked(heap, B)
    BY <1>5, <1>6 DEF Bounded, Marked
  <2> QED BY <1>5, <2>1, <2>2 DEF Body
<1>8. Listed(heap, B, B)
  <2>1. Cardinality(B) = 0
    BY <1>6, FS_EmptySet
  <2>2. Chained(heap, B)
    BY <1>5, <1>6 DEF Chained, IsNext
  <2> QED BY <1>5, <1>6, <2>1, <2>2 DEF Listed
<1>9. Shape(heap, B, B) /\ Apart(heap, B)
  BY <1>6, <1>7, <1>8 DEF Shape, Apart
<1>10. Whole(heap) /\ UsedOf(heap) = {}
  BY <1>6, <1>9, WholeIs
<1>11. Owns(heap, live)
  BY <1>2, <1>10 DEF Owns
<1>12. Quiet(heap, live)
  BY <1>2 DEF Quiet
<1> QED BY <1>10, <1>11, <1>12 DEF HeapInv, Proper

\* A call keeps the invariant.
LEMMA NextHeap == HeapInv /\ [Next]_vars => HeapInv'
<1> SUFFICES ASSUME HeapInv, [Next]_vars PROVE HeapInv'
  OBVIOUS
<1>1. \A Y : After(heap, live, heap', live', Y) => HeapInv'
  BY DEF After, HeapInv, Proper
<1>2. CASE Next
  <2>1. PICK x \in Names : \/ Release(x)
                           \/ \E n \in Sizes : Allocate(x, n)
                           \/ \E n \in Sizes \ {0}, exact \in BOOLEAN : Resize(x, n, exact)
    BY <1>2 DEF Next
  <2>2. CASE Release(x)
    BY <1>1, <2>2, ReleaseIs DEF Loses
  <2>3. ASSUME NEW n \in Sizes, Allocate(x, n) PROVE HeapInv'
    <3>1. Gets(x, n) \/ Refuses
      BY <2>3, AllocateIs
    <3> QED BY <1>1, <3>1 DEF Gets, Refuses
  <2>4. ASSUME NEW n \in Sizes \ {0}, NEW exact \in BOOLEAN, Resize(x, n, exact) PROVE HeapInv'
    <3>1. Gets(x, n) \/ Refuses
      BY <2>4, ResizeIs
    <3> QED BY <1>1, <3>1 DEF Gets, Refuses
  <2> QED BY <2>1, <2>2, <2>3, <2>4
<1>3. CASE UNCHANGED vars
  <2>1. heap' = heap /\ live' = live
    BY <1>3 DEF vars
  <2> QED BY <2>1 DEF HeapInv, Proper, Whole, Shape, Body, Listed, Chained, Owns, Quiet
<1> QED BY <1>2, <1>3

-----------------------------------------------------------------------------
\* The links in terms of least and greatest elements.
LEMMA NextIsMin ==
  ASSUME NEW F \in SUBSET Nat, NEW b \in Int, NEW n, IsNext(F, b, n),
         NEW S, S = {c \in F : c > b}
  PROVE  n = IF S = {} THEN NULL ELSE Min(S)
<1>1. \A c \in F : c \in S <=> c > b
  OBVIOUS
<1>2. S \in SUBSET Nat
  OBVIOUS
<1>3. CASE n = NULL /\ \A c \in F : c <= b
  <2>1. S = {}
    <3>1. \A c \in F : ~(c > b)
      BY <1>3
    <3> QED BY <3>1
  <2> QED BY <1>3, <2>1
<1>4. CASE n \in F /\ n > b /\ \A c \in F : c <= b \/ c >= n
  <2>1. n \in S /\ n \in Nat
    BY <1>4
  <2>2. PICK m : m = Min(S)
    OBVIOUS
  <2>3. m \in S /\ \A c \in S : m <= c
    BY <1>2, <2>1, <2>2, MinIs
  <2>4. m \in F /\ m \in Nat /\ m > b /\ m <= n
    BY <2>1, <2>3
  <2>5. m >= n
    BY <1>4, <2>4
  <2>6. m = n
    BY <2>1, <2>4, <2>5
  <2> QED BY <2>1, <2>2, <2>6
<1> QED BY <1>3, <1>4 DEF IsNext

\* The previous block of the list is the greatest below.
LEMMA PrevIsMax ==
  ASSUME NEW F \in SUBSET Nat, NEW b \in Nat, NEW p, IsPrev(F, b, p),
         NEW S, S = {c \in F : c < b}
  PROVE  p = IF S = {} THEN NULL ELSE Max(S)
<1>1. \A c \in F : c \in S <=> c < b
  OBVIOUS
<1>2. S \in SUBSET Nat /\ \A c \in S : c <= b
  <2>1. \A c \in S : c \in Nat /\ c < b
    OBVIOUS
  <2>2. \A c \in S : c <= b
    BY <2>1
  <2> QED BY <2>1, <2>2
<1>3. CASE p = NULL /\ \A c \in F : c >= b
  <2>1. S = {}
    <3>1. \A c \in F : ~(c < b)
      BY <1>3
    <3> QED BY <3>1
  <2> QED BY <1>3, <2>1
<1>4. CASE p \in F /\ p < b /\ \A c \in F : c >= b \/ c <= p
  <2>1. p \in S /\ p \in Nat
    BY <1>4
  <2>2. PICK m : m = Max(S)
    OBVIOUS
  <2>3. m \in S /\ \A c \in S : c <= m
    BY <1>2, <2>1, <2>2, MaxIs
  <2>4. m \in F /\ m \in Nat /\ m < b /\ m >= p
    BY <2>1, <2>3
  <2>5. m <= p
    BY <1>4, <2>4
  <2>6. m = p
    BY <2>1, <2>4, <2>5
  <2> QED BY <2>1, <2>2, <2>6
<1> QED BY <1>3, <1>4 DEF IsPrev

\* The invariant implies that the blocks fill the heap.
LEMMA TiledIs == HeapInv => HeapTiled
<1> SUFFICES ASSUME HeapInv PROVE HeapTiled
  OBVIOUS
<1>1. Whole(heap) /\ Owns(heap, live) /\ InUse = UsedOf(heap)
  BY DEF HeapInv, Proper, InUse, UsedOf
<1>2. heap \in HeapType /\ Bounded(heap) /\ Marked(heap, Blocks(heap))
  BY <1>1 DEF Whole, Shape, Body
<1>3. (heap.end < heap.heap_size \/ heap.heap_size = 0) /\ heap.heap_size <= Limit
  BY <1>2 DEF Bounded
<1>4. \A b \in Blocks(heap) :
         /\ heap.mem[b].is = "head" /\ heap.mem[b + 1].is = "links"
         /\ get_next_block(heap, b) <= heap.end
         /\ heap.mem[get_next_block(heap, b) - 1] = Tag(UserSize(heap, b))
  BY <1>1, <1>2, WholeFits DEF Marked
<1>5. {b + BLOCK_SIZE : b \in UsedOf(heap)} = {b.ptr : b \in OwnedBy(live)}
  <2>1. ASSUME NEW c \in UsedOf(heap) PROVE c + BLOCK_SIZE \in {b.ptr : b \in OwnedBy(live)}
    <3>1. PICK x \in Names : \E r \in live[x] : r.ptr = c + BLOCK_SIZE
      BY <1>1 DEF Owns
    <3>2. PICK r \in live[x] : r.ptr = c + BLOCK_SIZE
      BY <3>1
    <3>3. r \in OwnedBy(live)
      BY DEF OwnedBy
    <3> QED BY <3>2, <3>3
  <2>2. ASSUME NEW r \in OwnedBy(live) PROVE r.ptr \in {b + BLOCK_SIZE : b \in UsedOf(heap)}
    <3>1. PICK x \in Names : r \in live[x]
      BY DEF OwnedBy
    <3>2. PICK c \in UsedOf(heap) : r.ptr = c + BLOCK_SIZE
      BY <1>1, <3>1 DEF Owns
    <3> QED BY <3>2
  <2> QED BY <2>1, <2>2
<1>6. ASSUME NEW x \in Names, NEW r \in live[x]
      PROVE  UserSize(heap, r.ptr - BLOCK_SIZE) >= r.size
  <2>1. PICK c \in UsedOf(heap) : Lies(heap, r, c)
    BY <1>1, LiesIs
  <2>2. /\ c \in Nat /\ r.ptr = c + 2 /\ r.size \in Nat /\ UserSize(heap, c) \in Nat
        /\ r.size <= UserSize(heap, c)
    BY <2>1 DEF Lies, BLOCK_SIZE
  <2>3. r.ptr - BLOCK_SIZE = c
    BY <2>2 DEF BLOCK_SIZE
  <2> QED BY <2>2, <2>3
<1> QED BY <1>1, <1>3, <1>4, <1>5, <1>6 DEF HeapTiled

\* The invariant implies that the list is exact.
LEMMA ExactIs == HeapInv => FreeListExact
<1> SUFFICES ASSUME HeapInv PROVE FreeListExact
  OBVIOUS
<1>1. Whole(heap) /\ InUse = UsedOf(heap)
  BY DEF HeapInv, Proper, InUse, UsedOf
<1>2. PICK B, F : /\ Shape(heap, B, F) /\ Apart(heap, F) /\ UsedOf(heap) = B \ F
                  /\ Blocks(heap) = B
  BY <1>1, WholeHas, WholeIs
<1>3. /\ heap \in HeapType /\ Listed(heap, B, F) /\ Chained(heap, F) /\ F \subseteq B
      /\ B \subseteq Spots /\ heap.free_total = Cardinality(F)
      /\ \A b \in B \ F : NextFree(heap, b) = NULL /\ PrevFree(heap, b) = NULL
  BY <1>2 DEF Shape, Body, Listed
<1>4. Blocks(heap) \ InUse = F /\ InUse = B \ F
  BY <1>1, <1>2, <1>3
<1>5. FreeChain(heap) = F
  BY <1>3, ChainOf
<1>6. F \in SUBSET Nat
  BY <1>3, SpotsFit
<1>7. heap.free_head = IF F = {} THEN NULL ELSE Min(F)
  <2>1. PICK S : S = {c \in F : c > NULL}
    OBVIOUS
  <2>2. \A c \in F : c > NULL
    BY <1>6 DEF NULL
  <2>3. S = F
    BY <2>1, <2>2
  <2>4. NULL \in Int /\ IsNext(F, NULL, heap.free_head)
    BY <1>3 DEF Chained, NULL
  <2>5. heap.free_head = IF S = {} THEN NULL ELSE Min(S)
    BY <1>6, <2>1, <2>4, NextIsMin
  <2> QED BY <2>3, <2>5
<1>8. ASSUME NEW b \in F
      PROVE  /\ NextFree(heap, b) = IF {c \in F : c > b} = {} THEN NULL ELSE Min({c \in F : c > b})
             /\ PrevFree(heap, b) = IF {c \in F : c < b} = {} THEN NULL ELSE Max({c \in F : c < b})
             /\ get_next_block(heap, b) \notin F
  <2>1. b \in Nat /\ b \in Int
    BY <1>6
  <2>2. IsNext(F, b, NextFree(heap, b)) /\ IsPrev(F, b, PrevFree(heap, b))
    BY <1>3 DEF Chained
  <2>3. PICK S : S = {c \in F : c > b}
    OBVIOUS
  <2>4. PICK T : T = {c \in F : c < b}
    OBVIOUS
  <2>5. NextFree(heap, b) = IF S = {} THEN NULL ELSE Min(S)
    BY <1>6, <2>1, <2>2, <2>3, NextIsMin
  <2>6. PrevFree(heap, b) = IF T = {} THEN NULL ELSE Max(T)
    BY <1>6, <2>1, <2>2, <2>4, PrevIsMax
  <2>7. get_next_block(heap, b) \notin F
    BY <1>2 DEF Apart
  <2> QED BY <2>3, <2>4, <2>5, <2>6, <2>7, Zenon
<1>9. \A b \in InUse : NextFree(heap, b) = NULL /\ PrevFree(heap, b) = NULL
  BY <1>3, <1>4
<1> QED BY <1>3, <1>4, <1>5, <1>7, <1>8, <1>9, Zenon DEF FreeListExact

-----------------------------------------------------------------------------
\* In every state the heap is whole and its blocks in use are the program's:
\* what malloc, free and realloc keep true of headers, tags and the free list
\* together (alloc.c).
THEOREM HeapIsWhole == Spec => []HeapInv
BY FirstHeap, NextHeap, PTL DEF Spec

\* The blocks fill the heap from head to end, each with a header and a tag that
\* says the same, and those in use are the program's.
THEOREM BlocksFillTheHeap == Spec => []HeapTiled
BY HeapIsWhole, TiledIs, PTL

\* The free list is exactly the free blocks, in order, counted, and no two of
\* them are neighbours.
THEOREM FreeListIsExact == Spec => []FreeListExact
BY HeapIsWhole, ExactIs, PTL

-----------------------------------------------------------------------------
\* The refinement of AllocatorPromise.
Says(x) == IF live[x] = {} THEN <<>> ELSE CHOOSE s \in Holds(x) : TRUE
Data == [x \in Names |-> Says(x)]

\* Two of the program's blocks have nothing in common.
LEMMA BlocksDisjoint ==
  ASSUME NEW h, Whole(h), NEW w, Owns(h, w), NEW x \in Names, NEW y \in Names \ {x},
         NEW r \in w[x], NEW s \in w[y]
  PROVE  r.ptr \in Addresses /\ s.ptr # r.ptr /\ UnitsOf(r) \cap UnitsOf(s) = {}
<1>1. PICK c \in UsedOf(h) : Lies(h, r, c)
  BY LiesIs
<1>2. PICK d \in UsedOf(h) : Lies(h, s, d)
  BY LiesIs
<1>3. r.ptr \in Addresses
  <2>1. c \in Nat /\ UserSize(h, c) \in Nat /\ c + 2 + UserSize(h, c) < Limit
        /\ r.ptr = c + 2
    BY <1>1 DEF Lies, BLOCK_SIZE
  <2> QED BY <2>1 DEF Addresses
<1>4. s.ptr # r.ptr
  BY DEF Owns
<1>5. c # d
  BY <1>1, <1>2, <1>4 DEF Lies
<1>6. ASSUME NEW k \in UnitsOf(r), k \in UnitsOf(s) PROVE FALSE
  <2>1. /\ c \in Blocks(h) /\ c \in Nat /\ UserSize(h, c) \in Nat /\ k \in Int
        /\ c + 2 <= k /\ k < c + 2 + UserSize(h, c)
    BY <1>1 DEF Lies, BLOCK_SIZE
  <2>2. /\ d \in Blocks(h) /\ d \in Nat /\ UserSize(h, d) \in Nat
        /\ d + 2 <= k /\ k < d + 2 + UserSize(h, d)
    BY <1>2, <1>6 DEF Lies, BLOCK_SIZE
  <2>3. d <= k /\ k < d + UserSize(h, d) + 3
    BY <2>1, <2>2
  <2>4. k < c \/ k >= c + UserSize(h, c) + 3
    BY <1>5, <2>1, <2>2, <2>3, Elsewhere
  <2> QED BY <2>1, <2>4
<1> QED BY <1>3, <1>4, <1>6

\* A block that stays says what it said.
LEMMA SaysStill ==
  ASSUME HeapInv, NEW y \in Names, live'[y] = live[y],
         \A r \in live[y] : \A k \in UnitsOf(r) : heap'.mem[k] = heap.mem[k]
  PROVE  Says(y)' = Says(y)
<1>1. ASSUME NEW r \in live[y]
      PROVE  [i \in 1..r.size |-> heap'.mem[r.ptr + i - 1]]
             = [i \in 1..r.size |-> heap.mem[r.ptr + i - 1]]
  <2>1. r \in Piece
    BY DEF HeapInv, Proper, Owns
  <2>2. PICK p, n : p = r.ptr /\ n = r.size
    OBVIOUS
  <2>3. p \in Int /\ n \in Nat
    BY <2>1, <2>2 DEF Piece
  <2>4. ASSUME NEW i \in 1..n PROVE heap'.mem[p + i - 1] = heap.mem[p + i - 1]
    <3>1. p + i - 1 \in p .. (p + n - 1)
      BY <2>3
    <3> QED BY <2>2, <3>1 DEF UnitsOf
  <2> QED BY <2>2, <2>4
<1>2. Holds(y)' = Holds(y)
  <2>1. Holds(y)' = UNION {{[i \in 1..b.size |-> heap'.mem[b.ptr + i - 1]]} : b \in live[y]}
    BY DEF Holds
  <2>2. Holds(y) = UNION {{[i \in 1..b.size |-> heap.mem[b.ptr + i - 1]]} : b \in live[y]}
    BY DEF Holds
  <2>3. {{[i \in 1..b.size |-> heap'.mem[b.ptr + i - 1]]} : b \in live[y]}
        = {{[i \in 1..b.size |-> heap.mem[b.ptr + i - 1]]} : b \in live[y]}
    BY <1>1, Zenon
  <2> QED BY <2>1, <2>2, <2>3
<1> QED BY <1>2 DEF Says

\* The blocks of Y say what they said.
LEMMA DataStill ==
  ASSUME HeapInv, NEW Y \in SUBSET Names, \A y \in Y : live'[y] = live[y],
         After(heap, live, heap', live', Y)
  PROVE  \A y \in Y : Data'[y] = Data[y]
<1>1. ASSUME NEW y \in Y PROVE Data'[y] = Data[y]
  <2>1. y \in Names
    OBVIOUS
  <2>2. \A r \in live[y] : \A k \in UnitsOf(r) : heap'.mem[k] = heap.mem[k]
    BY DEF After, Stays
  <2>3. Says(y)' = Says(y)
    BY <2>1, <2>2, SaysStill
  <2> QED BY <2>1, <2>3 DEF Data
<1> QED BY <1>1

\* A block that is got is a place that the promise allows.
LEMMA GetsPlaces ==
  ASSUME HeapInv, NEW x \in Names, NEW n \in Sizes, Gets(x, n)
  PROVE  Promise!Place(x, n) /\ Promise!Untouched(Names \ {x})
<1>1. PICK p \in Int : /\ live' = [live EXCEPT ![x] = {[ptr |-> p, size |-> n]}]
                       /\ After(heap, live, heap', live', Names \ {x})
  BY DEF Gets
<1>2. live \in [Names -> SUBSET Piece]
  BY DEF HeapInv, Proper, Owns
<1>3. PICK r : r = [ptr |-> p, size |-> n]
  OBVIOUS
<1>4. live'[x] = {r} /\ \A y \in Names \ {x} : live'[y] = live[y]
  BY <1>1, <1>2, <1>3
<1>5. Whole(heap') /\ Owns(heap', live')
  BY <1>1 DEF After
<1>6. r.ptr = p /\ UnitsOf(r) = p .. (p + n - 1)
  BY <1>3 DEF UnitsOf
<1>7. p \in Addresses
  <2>1. r \in live'[x]
    BY <1>4
  <2>2. PICK c \in UsedOf(heap') : Lies(heap', r, c)
    BY <1>5, <2>1, LiesIs
  <2>3. c \in Nat /\ UserSize(heap', c) \in Nat /\ c + 2 + UserSize(heap', c) < Limit
        /\ p = c + 2
    BY <1>6, <2>2 DEF Lies, BLOCK_SIZE
  <2> QED BY <2>3 DEF Addresses
<1>8. ASSUME NEW y \in Names \ {x}, NEW s \in live[y]
      PROVE  s.ptr # p /\ (p .. (p + n - 1)) \cap UnitsOf(s) = {}
  <2>1. r \in live'[x] /\ s \in live'[y]
    BY <1>4
  <2> QED BY <1>5, <1>6, <2>1, BlocksDisjoint
<1>9. \A y \in Names \ {x} : (p .. (p + n - 1)) \cap Promise!Held(y) = {}
  <2>1. ASSUME NEW y \in Names \ {x}, NEW k \in p .. (p + n - 1), k \in Promise!Held(y)
        PROVE  FALSE
    <3>1. PICK s \in live[y] : k \in UnitsOf(s)
      BY <2>1 DEF Promise!Held, UnitsOf
    <3> QED BY <1>8, <3>1
  <2> QED BY <2>1
<1>10. Promise!Place(x, n)
  BY <1>1, <1>7, <1>8, <1>9 DEF Promise!Place
<1>11. Promise!Untouched(Names \ {x})
  <2>1. PICK Y : Y = Names \ {x}
    OBVIOUS
  <2>2. \A y \in Y : Data'[y] = Data[y]
    BY <1>1, <1>4, <2>1, DataStill
  <2> QED BY <2>1, <2>2 DEF Promise!Untouched, Data, Says
<1> QED BY <1>10, <1>11

\* A block that is lost is a release of the promise.
LEMMA LosesReleases ==
  ASSUME HeapInv, NEW x \in Names, live[x] # {}, Loses(x)
  PROVE  Promise!Release(x)
<1>1. live' = [live EXCEPT ![x] = {}] /\ After(heap, live, heap', live', Names \ {x})
  BY DEF Loses
<1>2. live \in [Names -> SUBSET Piece]
  BY DEF HeapInv, Proper, Owns
<1>3. live'[x] = {} /\ \A y \in Names \ {x} : live'[y] = live[y]
  BY <1>1, <1>2
<1>4. \A y \in Names \ {x} : Data'[y] = Data[y]
  <2>1. PICK Y : Y = Names \ {x}
    OBVIOUS
  <2> QED BY <1>1, <1>3, <2>1, DataStill
<1>5. Data'[x] = <<>>
  BY <1>3 DEF Data, Says
<1>6. Data' = [Data EXCEPT ![x] = <<>>]
  <2>1. Data = [y \in Names |-> Data[y]] /\ Data' = [y \in Names |-> Data'[y]]
    BY DEF Data
  <2> QED BY <1>4, <1>5, <2>1
<1> QED BY <1>1, <1>6 DEF Promise!Release, Data, Says

\* The initial states are those of the promise, and each call is one that it
\* allows or changes nothing that it speaks of.
LEMMA FirstPromise == Init => Promise!Init
BY DEF Init, Promise!Init

\* Each call is one that the promise allows, or changes nothing it speaks of.
LEMMA NextPromise == HeapInv /\ [Next]_vars => [Promise!Next]_Promise!promiseVars
<1> SUFFICES ASSUME HeapInv, [Next]_vars PROVE [Promise!Next]_Promise!promiseVars
  OBVIOUS
<1>1. ASSUME Refuses PROVE UNCHANGED Promise!promiseVars
  <2>1. live' = live /\ After(heap, live, heap', live', Names)
    BY <1>1 DEF Refuses
  <2>2. \A y \in Names : Data'[y] = Data[y]
    BY <2>1, DataStill
  <2>3. Data' = Data
    <3>1. Data = [y \in Names |-> Data[y]] /\ Data' = [y \in Names |-> Data'[y]]
      BY DEF Data
    <3> QED BY <2>2, <3>1
  <2> QED BY <2>1, <2>3 DEF Promise!promiseVars, Data, Says
<1>2. CASE Next
  <2>1. PICK x \in Names : \/ Release(x)
                           \/ \E n \in Sizes : Allocate(x, n)
                           \/ \E n \in Sizes \ {0}, exact \in BOOLEAN : Resize(x, n, exact)
    BY <1>2 DEF Next
  <2>2. CASE Release(x)
    <3>1. Promise!Release(x)
      BY <2>2, ReleaseIs, LosesReleases
    <3> QED BY <3>1 DEF Promise!Next
  <2>3. ASSUME NEW n \in Sizes, Allocate(x, n) PROVE [Promise!Next]_Promise!promiseVars
    <3>1. Gets(x, n) \/ Refuses
      BY <2>3, AllocateIs
    <3>2. CASE Gets(x, n)
      <4>1. Promise!Allocate(x, n)
        BY <2>3, <3>2, GetsPlaces DEF Allocate, Promise!Allocate
      <4> QED BY <4>1 DEF Promise!Next
    <3> QED BY <1>1, <3>1, <3>2
  <2>4. ASSUME NEW n \in Sizes \ {0}, NEW exact \in BOOLEAN, Resize(x, n, exact)
        PROVE  [Promise!Next]_Promise!promiseVars
    <3>1. live[x] # {} /\ (Gets(x, n) \/ Refuses)
      BY <2>4, ResizeIs
    <3>2. CASE Gets(x, n)
      <4>1. Promise!Resize(x, n)
        BY <3>1, <3>2, GetsPlaces DEF Promise!Resize
      <4> QED BY <4>1 DEF Promise!Next
    <3> QED BY <1>1, <3>1, <3>2
  <2> QED BY <2>1, <2>2, <2>3, <2>4
<1>3. CASE UNCHANGED vars
  <2>1. heap' = heap /\ live' = live
    BY <1>3 DEF vars
  <2> QED BY <2>1 DEF Promise!promiseVars, Holds
<1> QED BY <1>2, <1>3

\* Every pointer the program holds is a block of its own, and no call changes
\* what another block holds: the calls implement AllocatorPromise.
THEOREM HeapKeepsItsPromise == Spec => ImplementsAllocator
<1>1. Init => Promise!Init
  BY FirstPromise
<1>2. HeapInv /\ [Next]_vars => [Promise!Next]_Promise!promiseVars
  BY NextPromise
<1>3. Spec => []HeapInv
  BY HeapIsWhole
<1> QED BY <1>1, <1>2, <1>3, PTL DEF Spec, ImplementsAllocator, Promise!Spec

-----------------------------------------------------------------------------
\* A call spoils no block but the one that it slides down.
LEMMA NextSpoils == HeapInv /\ Next => \A x \in Names : Spoils(x)
<1> SUFFICES ASSUME HeapInv, Next, NEW x \in Names PROVE Spoils(x)
  OBVIOUS
<1>1. PICK y \in Names : \/ Release(y)
                         \/ \E n \in Sizes : Allocate(y, n)
                         \/ \E n \in Sizes \ {0}, exact \in BOOLEAN : Resize(y, n, exact)
  BY DEF Next
<1>2. ASSUME NEW Y, x \in Y, live'[x] = live[x], After(heap, live, heap', live', Y)
      PROVE  Spoils(x)
  <2>1. ASSUME Intact(x), NEW b \in live'[x], NEW i \in 0..(b.size - 1)
        PROVE  heap'.mem[b.ptr + i] = Datum(x, i)
    <3>1. b \in live[x] /\ b.ptr \in Int /\ b.size \in Nat
      BY <1>2 DEF HeapInv, Proper, Owns, Piece
    <3>2. b.ptr + i \in UnitsOf(b)
      BY <3>1 DEF UnitsOf
    <3>3. heap'.mem[b.ptr + i] = heap.mem[b.ptr + i]
      BY <1>2, <3>1, <3>2 DEF After, Stays
    <3> QED BY <2>1, <3>1, <3>3 DEF Intact
  <2> QED BY <2>1 DEF Spoils, Intact
<1>3. CASE Refuses
  BY <1>2, <1>3 DEF Refuses
<1>4. live \in [Names -> SUBSET Piece]
  BY DEF HeapInv, Proper, Owns
<1>5. ASSUME NEW n \in Sizes, Gets(y, n), x # y PROVE Spoils(x)
  <2>1. PICK p \in Int : /\ live' = [live EXCEPT ![y] = {[ptr |-> p, size |-> n]}]
                         /\ After(heap, live, heap', live', Names \ {y})
    BY <1>5 DEF Gets
  <2>2. live'[x] = live[x]
    BY <1>4, <1>5, <2>1
  <2> QED BY <1>2, <1>5, <2>1, <2>2
<1>6. CASE Release(y)
  <2>1. live' = [live EXCEPT ![y] = {}] /\ After(heap, live, heap', live', Names \ {y})
    BY <1>6, ReleaseIs DEF Loses
  <2>2. CASE x = y
    <3>1. live'[x] = {}
      BY <1>4, <2>1, <2>2
    <3> QED BY <3>1 DEF Spoils, Intact
  <2>3. CASE x # y
    BY <1>2, <1>4, <2>1, <2>3
  <2> QED BY <2>2, <2>3
<1>7. ASSUME NEW n \in Sizes, Allocate(y, n) PROVE Spoils(x)
  <2>1. (Gets(y, n) /\ Spoils(y)) \/ Refuses
    BY <1>7, AllocateIs
  <2> QED BY <1>3, <1>5, <2>1
<1>8. ASSUME NEW n \in Sizes \ {0}, NEW exact \in BOOLEAN, Resize(y, n, exact) PROVE Spoils(x)
  <2>1. (Gets(y, n) /\ Spoils(y)) \/ Refuses
    BY <1>8, ResizeIs
  <2> QED BY <1>3, <1>5, <2>1
<1> QED BY <1>1, <1>6, <1>7, <1>8

\* No call loses what a block of the program holds but a realloc of that block
\* that moves it down into a free block smaller than the new size.
THEOREM OnlySlidingSpoils == Spec => SpoiledOnlySlidingDown
<1>1. HeapInv /\ [Next]_vars =>
         [\A x \in Names :
            Intact(x) => \/ Intact(x)'
                         \/ \E b \in live[x], c \in live'[x] :
                               LET prev == get_prev_block(heap, b.ptr - BLOCK_SIZE)
                               IN  /\ prev # NULL /\ IsFree(heap, prev)
                                   /\ UserSize(heap, prev) < c.size]_vars
  BY NextSpoils DEF Spoils, SlidDown
<1>2. Spec => []HeapInv
  BY HeapIsWhole
<1> QED BY <1>1, <1>2, PTL DEF Spec, SpoiledOnlySlidingDown
=============================================================================
