-------------------------- MODULE JsonParserProofs --------------------------
(***************************************************************************)
(* Proofs about JsonParser.  Memory: the inductive invariant PInv says     *)
(* that the blocks are shared out between main() and the calls in          *)
(* progress: each owns the tree below the cell it fills in and its key,    *)
(* nothing belongs to two of them, and nothing live to none.  Every way    *)
(* out of parse_object and parse_array frees just what the call owns, and  *)
(* arr_push and obj_push hand it to the container.                         *)
(*                                                                         *)
(* Grammar: the invariant JInv says what may still come: with one language *)
(* for each call in progress, the texts that complete what was read to a   *)
(* JSON value are those of the language left, as far as the token looked   *)
(* at allows; after an error that was not memory's there is none.          *)
(*                                                                         *)
(* Round trip: the invariant RInv says that what was read, each token as   *)
(* it comes back, is what would be printed of the values so far: with one  *)
(* text for each call in progress, that of the call below it, the bracket, *)
(* the items with their commas, and the key that waits for its value.      *)
(*                                                                         *)
(* Paths: whatever resolve_path does, it goes to items of the cell it is   *)
(* at, and so stays within the root's tree.                                *)
(***************************************************************************)
EXTENDS JsonPath, JsonGrammar, FiniteSetTheorems, SequenceTheorems, WellFoundedInduction,
        TLAPS

-----------------------------------------------------------------------------
(***************************************************************************)
(* Heaps.  Tree is a recursive function over the blocks; here it is the    *)
(* function Trees of the heap, so that the trees before and after a step   *)
(* can be compared.  In a heap in which every item lies behind the cell it *)
(* belongs to, the recursion is well founded: the function exists, and a   *)
(* write to one cell changes no tree that the cell is not part of.         *)
(***************************************************************************)
Refs(b) == {b} \ {NULL}

Inner(f, c) == UNION {Refs(m.key) \union f[m.value] : m \in {c.items[k] : k \in DOMAIN c.items}}

Body(f, c, n) == {n} \union Refs(c.buf) \union Inner(f, c)

IsTrees(f, heap) == f = [n \in 1..Len(heap) |-> Body(f, heap[n], n)]

Trees(heap) == CHOOSE f : IsTrees(f, heap)

LEMMA TreeIs == \A b : Tree(b) = IF b = NULL THEN {} ELSE Trees(cells)[b]
BY Zenon DEF Tree, Trees, IsTrees, Body, Inner, Refs, Blocks

(* c may stand in cell n of a heap of len cells. *)
CellSound(c, n, len) ==
  /\ c.buf \in {NULL} \union n+1..len
  /\ \A k \in DOMAIN c.items : /\ c.items[k].key \in {NULL} \union n+1..len
                               /\ c.items[k].value \in n+1..len

Sound(heap) == /\ Len(heap) \in Nat
               /\ \A n \in 1..Len(heap) : CellSound(heap[n], n, Len(heap))

(* Induction from the last block to the first. *)
LEMMA Downwards ==
  ASSUME NEW L \in Nat, NEW G,
         \A n \in 1..L : (\A m \in n+1..L : m \in G) => n \in G
  PROVE  1..L \subseteq G
<1> SUFFICES ASSUME NEW n \in 1..L, n \notin G PROVE FALSE OBVIOUS
<1> DEFINE Bad == {d \in Nat : \E m \in 1..L : m \notin G /\ d = L - m}
<1>1. L - n \in Bad OBVIOUS
<1>2. PICK d \in Bad : \A e \in Bad : ~(<<e, d>> \in OpToRel(<, Nat))
  BY <1>1, NatLessThanWellFounded, WFMin, Bad \subseteq Nat
<1>3. PICK m \in 1..L : m \notin G /\ d = L - m OBVIOUS
<1>4. PICK k \in m+1..L : k \notin G BY <1>3
<1>5. L - k \in Bad /\ L - k < d BY <1>3, <1>4
<1>6. <<L - k, d>> \in OpToRel(<, Nat) BY <1>5 DEF OpToRel
<1> QED BY <1>2, <1>5, <1>6

LEMMA BodySame ==
  ASSUME NEW f, NEW g, NEW c, NEW n,
         \A k \in DOMAIN c.items : f[c.items[k].value] = g[c.items[k].value]
  PROVE  Body(f, c, n) = Body(g, c, n)
<1>1. \A m \in {c.items[k] : k \in DOMAIN c.items} : f[m.value] = g[m.value] OBVIOUS
<1>2. Inner(f, c) = Inner(g, c) BY <1>1 DEF Inner
<1> QED BY <1>2 DEF Body

LEMMA TreesExist ==
  ASSUME NEW heap, Sound(heap)
  PROVE  IsTrees(Trees(heap), heap)
<1> DEFINE L == Len(heap)
           Part(f, n) == f = [x \in n..L |-> Body(f, heap[x], x)]
           G == {n \in 1..L : \E f : Part(f, n)}
<1>0. L \in Nat BY DEF Sound
<1>1. ASSUME NEW n \in 1..L, \A m \in n+1..L : m \in G PROVE n \in G
  <2>1. PICK f : f = [x \in n+1..L |-> Body(f, heap[x], x)]
    <3>1. CASE n < L
      <4>1. n + 1 \in n+1..L BY <1>0, <3>1
      <4> QED BY <1>1, <4>1
    <3>2. CASE n = L
      <4> DEFINE e == [x \in {} |-> 0]
      <4>1. n+1..L = {} BY <1>0, <3>2
      <4>2. e = [x \in n+1..L |-> Body(e, heap[x], x)] BY <4>1
      <4> QED BY <4>2
    <3> QED BY <1>0, <3>1, <3>2
  <2> DEFINE g == [x \in n..L |-> IF x = n THEN Body(f, heap[n], n) ELSE f[x]]
  <2>2. ASSUME NEW x \in n..L PROVE Body(f, heap[x], x) = Body(g, heap[x], x)
    <3>1. x \in 1..L BY <1>0
    <3>2. \A k \in DOMAIN heap[x].items : heap[x].items[k].value \in x+1..L
      BY <3>1 DEF Sound, CellSound
    <3>3. \A v \in x+1..L : v \in n..L /\ v # n BY <1>0
    <3>4. \A k \in DOMAIN heap[x].items :
            f[heap[x].items[k].value] = g[heap[x].items[k].value]
      BY <3>2, <3>3
    <3> HIDE DEF g
    <3> QED BY <3>4, BodySame
  <2>3. ASSUME NEW x \in n..L PROVE g[x] = Body(g, heap[x], x)
    <3>1. CASE x = n BY <2>2, <3>1
    <3>2. CASE x # n
      <4>1. x \in n+1..L BY <1>0, <3>2
      <4>2. f[x] = Body(f, heap[x], x) BY <2>1, <4>1, Zenon
      <4> QED BY <2>2, <3>2, <4>2
    <3> QED BY <3>1, <3>2
  <2>4. g = [x \in n..L |-> Body(g, heap[x], x)]
    <3>1. g = [x \in n..L |-> g[x]] OBVIOUS
    <3> HIDE DEF g
    <3> QED BY <2>3, <3>1, Zenon
  <2> HIDE DEF g
  <2> QED BY <2>4
<1>2. 1..L \subseteq G BY <1>0, <1>1, Downwards
<1>3. \E f : IsTrees(f, heap)
  <2>1. CASE L = 0
    <3> DEFINE e == [x \in {} |-> 0]
    <3>1. 1..L = {} BY <2>1
    <3>2. e = [x \in 1..L |-> Body(e, heap[x], x)] BY <3>1
    <3> QED BY <3>2 DEF IsTrees
  <2>2. CASE L # 0
    <3>1. 1 \in G BY <1>0, <1>2, <2>2
    <3> QED BY <3>1 DEF IsTrees
  <2> QED BY <2>1, <2>2
<1> QED BY <1>3, Zenon DEF Trees

LEMMA Unfold ==
  ASSUME NEW heap, Sound(heap), NEW n \in 1..Len(heap)
  PROVE  Trees(heap)[n] = Body(Trees(heap), heap[n], n)
<1> DEFINE f == Trees(heap)
<1>1. f = [x \in 1..Len(heap) |-> Body(f, heap[x], x)] BY TreesExist DEF IsTrees
<1> HIDE DEF f
<1>2. f[n] = Body(f, heap[n], n) BY <1>1, Zenon
<1> QED BY <1>2 DEF f

(* The trees of the items are parts of the tree. *)
LEMMA ItemsIn ==
  ASSUME NEW heap, Sound(heap), NEW n \in 1..Len(heap), NEW k \in DOMAIN heap[n].items
  PROVE  Trees(heap)[heap[n].items[k].value] \subseteq Trees(heap)[n]
BY Unfold DEF Body, Inner

LEMMA TreeInHeap ==
  ASSUME NEW heap, Sound(heap), NEW n \in 1..Len(heap)
  PROVE  n \in Trees(heap)[n] /\ Trees(heap)[n] \subseteq n..Len(heap)
<1> DEFINE L == Len(heap)
           G == {x \in 1..L : Trees(heap)[x] \subseteq x..L}
<1>0. L \in Nat BY DEF Sound
<1>1. ASSUME NEW x \in 1..L, \A m \in x+1..L : m \in G PROVE x \in G
  <2>1. CellSound(heap[x], x, L) BY DEF Sound
  <2>2. \A k \in DOMAIN heap[x].items :
          /\ Refs(heap[x].items[k].key) \subseteq x..L
          /\ Trees(heap)[heap[x].items[k].value] \subseteq x..L
    BY <1>0, <1>1, <2>1 DEF CellSound, Refs, NULL
  <2>3. Inner(Trees(heap), heap[x]) \subseteq x..L BY <2>2 DEF Inner
  <2>4. Refs(heap[x].buf) \subseteq x..L BY <1>0, <2>1 DEF CellSound, Refs, NULL
  <2> QED BY <2>3, <2>4, Unfold DEF Body
<1>2. 1..L \subseteq G BY <1>0, <1>1, Downwards
<1>3. n \in Trees(heap)[n] BY Unfold DEF Body
<1> QED BY <1>2, <1>3

(* A write to cell b, and cells added at the end, leave a tree without b   *)
(* as it is.                                                               *)
LEMMA TreeKept ==
  ASSUME NEW heap, NEW new, NEW b, Sound(heap), Sound(new), Len(heap) <= Len(new),
         \A x \in 1..Len(heap) : x # b => new[x] = heap[x],
         NEW n \in 1..Len(heap), b \notin Trees(heap)[n]
  PROVE  Trees(new)[n] = Trees(heap)[n]
<1> DEFINE L == Len(heap)
           G == {x \in 1..L : b \notin Trees(heap)[x] => Trees(new)[x] = Trees(heap)[x]}
<1>0. L \in Nat /\ \A x \in 1..L : x \in 1..Len(new) BY DEF Sound
<1>1. ASSUME NEW x \in 1..L, \A m \in x+1..L : m \in G PROVE x \in G
  <2> SUFFICES ASSUME b \notin Trees(heap)[x] PROVE Trees(new)[x] = Trees(heap)[x] OBVIOUS
  <2>1. new[x] = heap[x] BY TreeInHeap
  <2>2. \A k \in DOMAIN heap[x].items :
          Trees(new)[heap[x].items[k].value] = Trees(heap)[heap[x].items[k].value]
    <3> SUFFICES ASSUME NEW k \in DOMAIN heap[x].items
                 PROVE  Trees(new)[heap[x].items[k].value] = Trees(heap)[heap[x].items[k].value]
      OBVIOUS
    <3>1. heap[x].items[k].value \in x+1..L BY DEF Sound, CellSound
    <3>2. b \notin Trees(heap)[heap[x].items[k].value] BY ItemsIn
    <3> QED BY <1>1, <3>1, <3>2
  <2>3. Body(Trees(new), heap[x], x) = Body(Trees(heap), heap[x], x) BY <2>2, BodySame
  <2> QED BY <1>0, <2>1, <2>3, Unfold
<1>2. 1..L \subseteq G BY <1>0, <1>1, Downwards
<1> QED BY <1>2

(* So does it what hangs below the cell itself. *)
LEMMA InnerKept ==
  ASSUME NEW heap, NEW new, NEW b, Sound(heap), Sound(new), Len(heap) <= Len(new),
         \A x \in 1..Len(heap) : x # b => new[x] = heap[x],
         NEW n \in 1..Len(heap), n = b \/ b \notin Trees(heap)[n]
  PROVE  Inner(Trees(new), heap[n]) = Inner(Trees(heap), heap[n])
<1>0. \A v \in 1..Len(heap) : b \notin Trees(heap)[v] => Trees(new)[v] = Trees(heap)[v]
  BY TreeKept
<1>1. ASSUME NEW k \in DOMAIN heap[n].items
      PROVE  Trees(new)[heap[n].items[k].value] = Trees(heap)[heap[n].items[k].value]
  <2>0. PICK v : v = heap[n].items[k].value OBVIOUS
  <2>1. v \in n+1..Len(heap) /\ v \in 1..Len(heap) BY <2>0 DEF Sound, CellSound
  <2>2. CASE n = b
    <3>1. Trees(heap)[v] \subseteq v..Len(heap) BY <2>1, TreeInHeap
    <3>2. b \notin Trees(heap)[v] BY <2>1, <2>2, <3>1
    <3> QED BY <1>0, <2>0, <2>1, <3>2
  <2>3. CASE b \notin Trees(heap)[n]
    <3>1. b \notin Trees(heap)[v] BY <2>0, <2>3, ItemsIn
    <3> QED BY <1>0, <2>0, <2>1, <3>1
  <2> QED BY <2>2, <2>3
<1> QED BY <1>1 DEF Inner

-----------------------------------------------------------------------------
(***************************************************************************)
(* The inductive invariant.  Level 0 is main() with the root, level k the  *)
(* k-th call in progress.  Each level owns the tree of its block and its   *)
(* key; the owners are disjoint and share out the live blocks.             *)
(***************************************************************************)
Depth    == Len(stack)
At(k)    == IF k = 0 THEN root ELSE stack[k].elem
KeyAt(k) == IF k = 0 THEN NULL ELSE stack[k].key

TreeAt(heap, b) == IF b = NULL THEN {} ELSE Trees(heap)[b]
Own(k) == TreeAt(cells, At(k)) \union Refs(KeyAt(k))

(* The locals: the block a call writes to is that of the level below, and  *)
(* every block is younger than the one its tree will be hung into.         *)
Calls ==
  /\ root \in Blocks
  /\ \A k \in 1..Depth :
       /\ stack[k].out = At(k-1)
       /\ KeyAt(k) \in {NULL} \union At(k-1)+1 .. Len(cells)
       /\ At(k) \in {NULL} \union At(k-1)+1 .. Len(cells)
       /\ At(k) # NULL => KeyAt(k) < At(k)
  /\ \A k \in 0..Depth-1 : At(k) # NULL

(* What the innermost call is about to do. *)
Turn ==
  /\ pc \in {"value", "returned"} => At(Depth) # NULL
  /\ pc \in {"first", "loop", "colon", "after"} =>
       /\ Depth > 0 /\ At(Depth) = NULL
       /\ pc = "colon" <=> KeyAt(Depth) # NULL
  /\ pc = "value" => cells[At(Depth)] = Zero

(* The sets owns[0], ..., owns[n] share out the set all. *)
Share(owns, n, all) ==
  /\ all = UNION {owns[k] : k \in 0..n}
  /\ \A k, l \in 0..n : k # l => owns[k] \cap owns[l] = {}

Owns == [k \in 0..Depth |-> Own(k)]

(* The array of an unfinished container is not a part of its items. *)
ArrayApart ==
  \A k \in 1..Depth : cells[At(k-1)].buf \notin Inner(Trees(cells), cells[At(k-1)])

Parsing == pc \in {"value", "first", "loop", "colon", "returned", "after"}

Afterwards ==
  /\ stack = <<>>
  /\ pc = "free" => root \in Blocks
  /\ ~bad => /\ live = RootTree \union lost
             /\ RootTree \cap lost = {}
             /\ lost # {} => rc = 1
  /\ bad => ok /\ look # EOF /\ rc = 1

PInv ==
  /\ TypeOK /\ Sound(cells)
  /\ pc = "start" => /\ cells = <<>> /\ stack = <<>> /\ live = {} /\ lost = {} /\ ~bad
  /\ Parsing => /\ Calls /\ Turn /\ Share(Owns, Depth, live) /\ ArrayApart
                /\ lost = {} /\ ~bad
  /\ pc \in {"free", "done"} => Afterwards

-----------------------------------------------------------------------------
LEMMA ShareGrows ==
  ASSUME NEW O, NEW P, NEW n \in Nat, NEW L, NEW F,
         Share(O, n, L), F \cap L = {},
         \A k \in 0..n : P[k] = IF k = n THEN O[k] \union F ELSE O[k]
  PROVE  Share(P, n, L \union F)
<1>1. \A k \in 0..n : O[k] \subseteq L BY DEF Share
<1>2. UNION {P[k] : k \in 0..n} = L \union F
  <2>1. ASSUME NEW x \in L PROVE \E k \in 0..n : x \in P[k]
    <3>1. PICK k \in 0..n : x \in O[k] BY DEF Share
    <3> QED BY <3>1
  <2>2. ASSUME NEW x \in F PROVE x \in P[n]
    <3>1. n \in 0..n OBVIOUS
    <3> QED BY <2>2, <3>1
  <2>3. ASSUME NEW k \in 0..n, NEW x \in P[k] PROVE x \in L \union F BY <1>1, <2>3
  <2> QED BY <2>1, <2>2, <2>3
<1> QED BY <1>1, <1>2 DEF Share

LEMMA ShareDrops ==
  ASSUME NEW O, NEW P, NEW n \in Nat, n > 0, NEW L, Share(O, n, L),
         \A k \in 0..n-1 : P[k] = O[k]
  PROVE  Share(P, n - 1, L \ O[n])
<1>1. 0..n = (0..n-1) \union {n} /\ n \notin 0..n-1 OBVIOUS
<1>2. UNION {P[k] : k \in 0..n-1} = L \ O[n] BY <1>1 DEF Share
<1> QED BY <1>1, <1>2 DEF Share

LEMMA ShareDeepens ==
  ASSUME NEW O, NEW P, NEW n \in Nat, NEW L, Share(O, n, L),
         \A k \in 0..n : P[k] = O[k], P[n + 1] = {}
  PROVE  Share(P, n + 1, L)
<1>1. 0..n+1 = (0..n) \union {n + 1} OBVIOUS
<1>2. UNION {P[k] : k \in 0..n+1} = L BY <1>1 DEF Share
<1> QED BY <1>1, <1>2 DEF Share

(* The last but one gives away X, takes over what the last has, and F. *)
LEMMA ShareMerges ==
  ASSUME NEW O, NEW P, NEW n \in Nat, n > 0, NEW L, NEW F, NEW X,
         Share(O, n, L), F \cap L = {}, X \subseteq O[n-1],
         \A k \in 0..n : P[k] = IF k = n THEN {}
                                ELSE IF k = n-1 THEN (O[k] \ X) \union O[n] \union F
                                ELSE O[k]
  PROVE  Share(P, n, (L \ X) \union F)
<1>1. \A k \in 0..n : O[k] \subseteq L BY DEF Share
<1>2. n - 1 \in 0..n /\ n \in 0..n /\ n # n - 1 OBVIOUS
<1>3. \A k \in 0..n : k # n - 1 => O[k] \cap X = {} BY <1>2 DEF Share
<1>4. UNION {P[k] : k \in 0..n} = (L \ X) \union F
  <2>1. ASSUME NEW x \in UNION {P[k] : k \in 0..n} PROVE x \in (L \ X) \union F
    <3>1. PICK k \in 0..n : x \in P[k] OBVIOUS
    <3> QED BY <1>1, <1>2, <1>3, <3>1
  <2>2. ASSUME NEW x \in (L \ X) \union F PROVE x \in UNION {P[k] : k \in 0..n}
    <3>1. CASE x \in F
      <4>1. x \in P[n-1] BY <1>2, <3>1
      <4> QED BY <1>2, <4>1
    <3>2. CASE x \in L \ X
      <4>1. PICK k \in 0..n : x \in O[k] BY <3>2 DEF Share
      <4>2. CASE k \in {n-1, n}
        <5>1. x \in P[n-1] BY <1>2, <3>2, <4>1, <4>2
        <5> QED BY <1>2, <5>1
      <4>3. CASE k \notin {n-1, n}
        <5>1. x \in P[k] BY <4>1, <4>3
        <5> QED BY <5>1
      <4> QED BY <4>2, <4>3
    <3> QED BY <3>1, <3>2
  <2> QED BY <2>1, <2>2
<1>5. ASSUME NEW k \in 0..n, NEW l \in 0..n, k # l PROVE P[k] \cap P[l] = {}
  <2>1. \A j, m \in 0..n : j # m => O[j] \cap O[m] = {} BY DEF Share
  <2>2. ASSUME NEW j \in 0..n, j # n, j # n-1
        PROVE  P[n-1] \cap P[j] = {}
    <3>1. P[n-1] = (O[n-1] \ X) \union O[n] \union F /\ P[j] = O[j] BY <1>2, <2>2
    <3>2. O[n-1] \cap O[j] = {} /\ O[n] \cap O[j] = {} /\ F \cap O[j] = {}
      BY <1>1, <1>2, <2>1, <2>2
    <3> QED BY <3>1, <3>2
  <2>3. CASE k = n \/ l = n BY <2>3
  <2>4. CASE k = n-1 /\ l # n BY <1>5, <2>2, <2>4
  <2>5. CASE l = n-1 /\ k # n BY <1>5, <2>2, <2>5
  <2>6. CASE k \notin {n-1, n} /\ l \notin {n-1, n} BY <1>5, <2>1, <2>6
  <2> QED BY <2>3, <2>4, <2>5, <2>6
<1> QED BY <1>4, <1>5 DEF Share

-----------------------------------------------------------------------------
(* Heaps: one cell is written, one is added, or both. *)
Room(c) == Len(c.items) <= c.cap

GoodHeap(heap) ==
  /\ heap \in Seq(Cell) /\ Sound(heap)
  /\ \A b \in 1..Len(heap) : Room(heap[b])

GoodCell(c, n, len) == c \in Cell /\ CellSound(c, n, len) /\ Room(c)

LEMMA CellStaysSound ==
  ASSUME NEW c, NEW n \in Nat, NEW l \in Nat, NEW m \in Nat, l <= m, CellSound(c, n, l)
  PROVE  CellSound(c, n, m)
BY DEF CellSound

LEMMA HeapWrite ==
  ASSUME NEW heap, GoodHeap(heap), NEW b \in 1..Len(heap),
         NEW c, GoodCell(c, b, Len(heap)), NEW new, new = [heap EXCEPT ![b] = c]
  PROVE  /\ GoodHeap(new) /\ Len(new) = Len(heap) /\ new[b] = c
         /\ \A x \in 1..Len(heap) : x # b => new[x] = heap[x]
<1>0. heap \in Seq(Cell) /\ c \in Cell /\ Len(heap) \in Nat BY DEF GoodHeap, GoodCell
<1>1. /\ new \in Seq(Cell) /\ Len(new) = Len(heap) /\ new[b] = c
      /\ \A x \in 1..Len(heap) : x # b => new[x] = heap[x]
  BY <1>0
<1>2. \A x \in 1..Len(heap) : GoodCell(new[x], x, Len(heap))
  BY <1>0, <1>1 DEF GoodHeap, GoodCell, Sound
<1> QED BY <1>0, <1>1, <1>2 DEF GoodHeap, GoodCell, Sound

LEMMA HeapAdd ==
  ASSUME NEW heap, GoodHeap(heap),
         NEW d, GoodCell(d, Len(heap) + 1, Len(heap) + 1), NEW new, new = Append(heap, d)
  PROVE  /\ GoodHeap(new) /\ Len(new) = Len(heap) + 1 /\ new[Len(heap) + 1] = d
         /\ \A x \in 1..Len(heap) : new[x] = heap[x]
<1>0. heap \in Seq(Cell) /\ d \in Cell /\ Len(heap) \in Nat BY DEF GoodHeap, GoodCell
<1>1. /\ new \in Seq(Cell) /\ Len(new) = Len(heap) + 1 /\ new[Len(heap) + 1] = d
      /\ \A x \in 1..Len(heap) : new[x] = heap[x]
  BY <1>0
<1>2. \A x \in 1..Len(heap) : CellSound(heap[x], x, Len(heap) + 1)
  BY <1>0, CellStaysSound DEF GoodHeap, Sound
<1>3. \A x \in 1..Len(heap) + 1 : GoodCell(new[x], x, Len(heap) + 1)
  <2> SUFFICES ASSUME NEW x \in 1..Len(heap) + 1
               PROVE  GoodCell(new[x], x, Len(heap) + 1)
    OBVIOUS
  <2>1. CASE x = Len(heap) + 1 BY <1>1, <2>1
  <2>2. CASE x \in 1..Len(heap) BY <1>0, <1>1, <1>2, <2>2 DEF GoodHeap, GoodCell
  <2> QED BY <1>0, <2>1, <2>2
<1> QED BY <1>0, <1>1, <1>3 DEF GoodHeap, GoodCell, Sound

LEMMA HeapWriteAdd ==
  ASSUME NEW heap, GoodHeap(heap), NEW b \in 1..Len(heap),
         NEW c, GoodCell(c, b, Len(heap) + 1),
         NEW d, GoodCell(d, Len(heap) + 1, Len(heap) + 1),
         NEW new, new = Append([heap EXCEPT ![b] = c], d)
  PROVE  /\ GoodHeap(new) /\ Len(new) = Len(heap) + 1
         /\ new[b] = c /\ new[Len(heap) + 1] = d
         /\ \A x \in 1..Len(heap) : x # b => new[x] = heap[x]
<1>0. heap \in Seq(Cell) /\ c \in Cell /\ d \in Cell /\ Len(heap) \in Nat
  BY DEF GoodHeap, GoodCell
<1> DEFINE mid == [heap EXCEPT ![b] = c]
<1>1. /\ mid \in Seq(Cell) /\ Len(mid) = Len(heap) /\ mid[b] = c
      /\ \A x \in 1..Len(heap) : x # b => mid[x] = heap[x]
  BY <1>0
<1>2. new = Append(mid, d) OBVIOUS
<1> HIDE DEF mid
<1>3. /\ new \in Seq(Cell) /\ Len(new) = Len(heap) + 1 /\ new[Len(heap) + 1] = d
      /\ \A x \in 1..Len(heap) : new[x] = mid[x]
  BY <1>0, <1>1, <1>2
<1>4. \A x \in 1..Len(heap) : CellSound(heap[x], x, Len(heap) + 1)
  BY <1>0, CellStaysSound DEF GoodHeap, Sound
<1>5. \A x \in 1..Len(heap) + 1 : GoodCell(new[x], x, Len(heap) + 1)
  <2> SUFFICES ASSUME NEW x \in 1..Len(heap) + 1
               PROVE  GoodCell(new[x], x, Len(heap) + 1)
    OBVIOUS
  <2>1. CASE x = Len(heap) + 1 BY <1>3, <2>1
  <2>2. CASE x \in 1..Len(heap) /\ x # b
    BY <1>0, <1>1, <1>3, <1>4, <2>2 DEF GoodHeap, GoodCell
  <2>3. CASE x = b BY <1>1, <1>3, <2>3
  <2> QED BY <1>0, <2>1, <2>2, <2>3
<1> QED BY <1>0, <1>1, <1>3, <1>5 DEF GoodHeap, GoodCell, Sound

LEMMA LeafTree ==
  ASSUME NEW heap, Sound(heap), NEW n \in 1..Len(heap), heap[n].items = <<>>
  PROVE  Trees(heap)[n] = {n} \union Refs(heap[n].buf)
<1>1. Inner(Trees(heap), heap[n]) = {} BY DEF Inner
<1> QED BY <1>1, Unfold DEF Body

LEMMA ZeroIsGood ==
  ASSUME NEW n \in Nat, NEW len \in Nat
  PROVE  /\ GoodCell(Zero, n, len) /\ Zero.items = <<>> /\ Zero.buf = NULL
         /\ \A t \in Kinds \union {""} :
              GoodCell(Bytes(t), n, len) /\ Bytes(t).items = <<>> /\ Bytes(t).buf = NULL
<1>1. <<>> \in Seq([key : Nat, value : Nat]) /\ Len(<<>>) = 0 OBVIOUS
<1>2. Zero \in Cell BY <1>1 DEF Zero, Cell, NULL
<1>3. \A t \in Kinds \union {""} : Bytes(t) \in Cell BY <1>1 DEF Bytes, Zero, Cell, NULL
<1>4. /\ Zero.items = <<>> /\ Zero.buf = NULL /\ Zero.cap = 0
      /\ \A t : Bytes(t).items = <<>> /\ Bytes(t).buf = NULL /\ Bytes(t).cap = 0
  BY DEF Bytes, Zero
<1>5. \A x : x.items = <<>> /\ x.buf = NULL /\ x.cap = 0 => CellSound(x, n, len) /\ Room(x)
  BY <1>1 DEF CellSound, Room
<1> QED BY <1>2, <1>3, <1>4, <1>5 DEF GoodCell

-----------------------------------------------------------------------------
(* The stack. *)
Call == [fn : {"{", "["}, out : Nat, elem : Nat, key : Nat]

LEMMA PInvFacts ==
  ASSUME PInv
  PROVE  /\ GoodHeap(cells) /\ stack \in Seq(Call)
         /\ Len(cells) \in Nat /\ Depth \in Nat
         /\ live \subseteq Blocks /\ lost \subseteq Blocks
<1>1. /\ cells \in Seq(Cell) /\ Sound(cells)
      /\ \A b \in 1..Len(cells) : Len(cells[b].items) <= cells[b].cap
  BY DEF PInv, TypeOK, Blocks
<1>2. stack \in Seq(Call) BY DEF PInv, TypeOK, Call
<1>3. live \subseteq Blocks /\ lost \subseteq Blocks BY DEF PInv, TypeOK
<1> QED BY <1>1, <1>2, <1>3 DEF GoodHeap, Room, Depth

(* A call returns. *)
LEMMA Popped ==
  ASSUME stack \in Seq(Call), stack # <<>>, stack' = SubSeq(stack, 1, Len(stack) - 1)
  PROVE  /\ stack' \in Seq(Call) /\ Depth \in Nat /\ Depth' = Depth - 1 /\ Depth > 0
         /\ \A k \in 0..Depth-1 : At(k)' = At(k) /\ KeyAt(k)' = KeyAt(k)
         /\ \A k \in 1..Depth-1 : stack'[k] = stack[k]
<1>0. Len(stack) \in Nat /\ Len(stack) > 0 OBVIOUS
<1>1. /\ stack' \in Seq(Call) /\ Len(stack') = Len(stack) - 1
      /\ \A k \in 1..Len(stack)-1 : stack'[k] = stack[k]
  <2>1. \A k \in 1..Len(stack)-1 : stack[k] \in Call BY <1>0
  <2>2. /\ SubSeq(stack, 1, Len(stack) - 1) \in Seq(Call)
        /\ Len(SubSeq(stack, 1, Len(stack) - 1)) =
             IF 1 <= Len(stack) - 1 THEN Len(stack) - 1 - 1 + 1 ELSE 0
        /\ \A k \in 1 .. Len(stack) - 1 - 1 + 1 :
             SubSeq(stack, 1, Len(stack) - 1)[k] = stack[1 + k - 1]
    BY <1>0, <2>1, SubSeqProperties
  <2>3. Len(stack) - 1 - 1 + 1 = Len(stack) - 1 BY <1>0
  <2>4. \A k \in 1 .. Len(stack) - 1 : 1 + k - 1 = k BY <1>0
  <2> QED BY <1>0, <2>2, <2>3, <2>4
<1> QED BY <1>0, <1>1 DEF At, KeyAt, Depth

(* The locals of the innermost call are set. *)
LEMMA TopSet ==
  ASSUME stack \in Seq(Call), stack # <<>>, NEW t \in Call, t.out = Top.out,
         stack' = [stack EXCEPT ![Len(stack)] = t]
  PROVE  /\ stack' \in Seq(Call) /\ Depth \in Nat /\ Depth' = Depth /\ Depth > 0
         /\ At(Depth)' = t.elem /\ KeyAt(Depth)' = t.key
         /\ \A k \in 0..Depth-1 : At(k)' = At(k) /\ KeyAt(k)' = KeyAt(k)
         /\ \A k \in 1..Depth : stack'[k].out = stack[k].out
<1>0. Len(stack) \in Nat /\ Len(stack) > 0 OBVIOUS
<1>1. PICK n : n = Len(stack) OBVIOUS
<1>2. n \in 1..Len(stack) BY <1>0, <1>1
<1>3. stack' = [stack EXCEPT ![n] = t] BY <1>1, Zenon
<1>4. /\ stack' \in Seq(Call) /\ Len(stack') = Len(stack) /\ stack'[n] = t
      /\ \A k \in 1..Len(stack) : k # n => stack'[k] = stack[k]
  BY <1>0, <1>2, <1>3
<1> QED BY <1>0, <1>1, <1>2, <1>4 DEF At, KeyAt, Depth, Top

LEMMA Pushed1 ==
  ASSUME stack \in Seq(Call), NEW t \in Call, stack' = Append(stack, t)
  PROVE  /\ stack' \in Seq(Call) /\ Depth \in Nat /\ Depth' = Depth + 1
         /\ At(Depth)' = t.elem /\ KeyAt(Depth)' = t.key
         /\ stack'[Depth + 1] = t
         /\ \A k \in 0..Depth : At(k)' = At(k) /\ KeyAt(k)' = KeyAt(k)
         /\ \A k \in 1..Depth : stack'[k] = stack[k]
<1>1. /\ stack' \in Seq(Call) /\ Len(stack) \in Nat /\ Len(stack') = Len(stack) + 1
      /\ stack'[Len(stack) + 1] = t /\ \A k \in 1..Len(stack) : stack'[k] = stack[k]
  OBVIOUS
<1> QED BY <1>1 DEF At, KeyAt, Depth

-----------------------------------------------------------------------------
(* The levels. *)
LEMMA Levels ==
  ASSUME PInv, Parsing
  PROVE  /\ GoodHeap(cells) /\ Sound(cells) /\ stack \in Seq(Call)
         /\ Len(cells) \in Nat /\ Depth \in Nat /\ live \subseteq Blocks
         /\ Calls /\ Turn /\ ArrayApart /\ Share(Owns, Depth, live) /\ ~bad /\ lost = {}
         /\ \A k \in 0..Depth : /\ At(k) \in {NULL} \union Blocks
                                /\ KeyAt(k) \in {NULL} \union Blocks
                                /\ Owns[k] = Own(k) /\ Own(k) \subseteq live
                                /\ At(k) # NULL => At(k) \in Own(k)
<1>1. /\ GoodHeap(cells) /\ Sound(cells) /\ stack \in Seq(Call)
      /\ Len(cells) \in Nat /\ Depth \in Nat /\ live \subseteq Blocks
  BY PInvFacts DEF GoodHeap
<1>2. Calls /\ Turn /\ ArrayApart /\ Share(Owns, Depth, live) /\ ~bad /\ lost = {}
  BY DEF PInv
<1>3. ASSUME NEW k \in 0..Depth
      PROVE  At(k) \in {NULL} \union Blocks /\ KeyAt(k) \in {NULL} \union Blocks
  <2>1. CASE k = 0 BY <1>2, <2>1 DEF Calls, At, KeyAt
  <2>2. CASE k # 0
    <3>0. k \in 1..Depth /\ k - 1 \in 0..Depth-1 BY <1>1, <2>2
    <3>1. /\ KeyAt(k) \in {NULL} \union At(k-1)+1 .. Len(cells)
          /\ At(k) \in {NULL} \union At(k-1)+1 .. Len(cells)
      BY <1>2, <3>0 DEF Calls
    <3>2. At(k-1) \in Nat
      <4>1. CASE k = 1 BY <4>1 DEF At, root
      <4>2. CASE k # 1
        <5>1. stack[k-1] \in Call BY <1>1, <3>0, <4>2 DEF Depth
        <5>2. stack[k-1].elem \in Nat BY <5>1 DEF Call
        <5>3. k - 1 # 0 BY <3>0, <4>2
        <5> QED BY <5>2, <5>3 DEF At
      <4> QED BY <4>1, <4>2
    <3> QED BY <1>1, <3>1, <3>2 DEF Blocks
  <2> QED BY <2>1, <2>2
<1>4. ASSUME NEW k \in 0..Depth
      PROVE  /\ Owns[k] = Own(k) /\ Own(k) \subseteq live
             /\ At(k) # NULL => At(k) \in Own(k)
  <2>1. Owns[k] = Own(k) BY DEF Owns
  <2>2. Owns[k] \subseteq live BY <1>2 DEF Share
  <2>3. At(k) # NULL => At(k) \in Own(k)
    BY <1>1, <1>3, TreeInHeap DEF Own, TreeAt, Blocks
  <2> QED BY <2>1, <2>2, <2>3
<1> QED BY <1>1, <1>2, <1>3, <1>4

LEMMA OthersDisjoint ==
  ASSUME PInv, Parsing, NEW k \in 0..Depth, NEW l \in 0..Depth, k # l
  PROVE  Own(k) \cap Own(l) = {}
BY Levels DEF Share

(* The trees that the written cell is not part of. *)
LEMMA OtherTreesKept ==
  ASSUME Sound(cells), Sound(cells'), Len(cells) <= Len(cells'),
         NEW b, \A x \in Blocks : x # b => cells'[x] = cells[x],
         NEW v \in Blocks, b \notin Trees(cells)[v]
  PROVE  Trees(cells')[v] = Trees(cells)[v]
BY TreeKept DEF Blocks

(* What a level owns stays the same if its cells do. *)
LEMMA OwnKept ==
  ASSUME PInv, Parsing, GoodHeap(cells'), Len(cells) <= Len(cells'),
         NEW b, \A x \in Blocks : x # b => cells'[x] = cells[x],
         NEW k \in 0..Depth, b \notin Own(k), At(k)' = At(k), KeyAt(k)' = KeyAt(k)
  PROVE  Own(k)' = Own(k)
<1>1. Sound(cells) /\ Sound(cells') /\ At(k) \in {NULL} \union Blocks BY Levels DEF GoodHeap
<1>2. TreeAt(cells', At(k)) = TreeAt(cells, At(k))
  <2>1. CASE At(k) = NULL BY <2>1 DEF TreeAt
  <2>2. CASE At(k) # NULL
    <3>1. At(k) \in 1..Len(cells) BY <1>1, <2>2 DEF Blocks
    <3>2. b \notin Trees(cells)[At(k)] BY <2>2 DEF Own, TreeAt
    <3>3. Trees(cells')[At(k)] = Trees(cells)[At(k)]
      <4>1. At(k) \in Blocks BY <3>1 DEF Blocks
      <4> QED BY <1>1, <3>2, <4>1, OtherTreesKept
    <3> QED BY <2>2, <3>3 DEF TreeAt
  <2> QED BY <2>1, <2>2
<1> QED BY <1>2 DEF Own

LEMMA ApartKept ==
  ASSUME PInv, Parsing, GoodHeap(cells'), Len(cells) <= Len(cells'),
         NEW b, \A x \in Blocks : x # b => cells'[x] = cells[x],
         NEW k \in 1..Depth, b \notin Own(k-1)
  PROVE  cells'[At(k-1)].buf \notin Inner(Trees(cells'), cells'[At(k-1)])
<1>1. Sound(cells) /\ Sound(cells') /\ k - 1 \in 0..Depth /\ k - 1 \in 0..Depth-1
  BY Levels DEF GoodHeap
<1>2. At(k-1) # NULL /\ At(k-1) \in Blocks /\ At(k-1) \in Own(k-1)
  BY <1>1, Levels DEF Calls
<1>3. cells'[At(k-1)] = cells[At(k-1)] BY <1>2
<1>4. b \notin Trees(cells)[At(k-1)] BY <1>2 DEF Own, TreeAt
<1>5. Inner(Trees(cells'), cells[At(k-1)]) = Inner(Trees(cells), cells[At(k-1)])
  BY <1>1, <1>2, <1>4, InnerKept DEF Blocks
<1> QED BY <1>3, <1>5, Levels DEF ArrayApart

-----------------------------------------------------------------------------
(* The value is written into the innermost block, which gets the array F.  *)
LEMMA LeafWritten ==
  ASSUME PInv, pc = "value", GoodHeap(cells'), Len(cells) <= Len(cells'),
         \A x \in Blocks : x # At(Depth) => cells'[x] = cells[x],
         cells'[At(Depth)].items = <<>>,
         \A k \in 0..Depth : At(k)' = At(k) /\ KeyAt(k)' = KeyAt(k)
  PROVE  /\ \A k \in 0..Depth :
              Own(k)' = IF k = Depth THEN Own(k) \union Refs(cells'[At(Depth)].buf)
                                     ELSE Own(k)
         /\ \A k \in 1..Depth :
              cells'[At(k-1)].buf \notin Inner(Trees(cells'), cells'[At(k-1)])
<1> DEFINE b == At(Depth)
<1>0. Parsing BY DEF Parsing
<1>1. /\ Sound(cells) /\ Sound(cells') /\ Depth \in 0..Depth /\ Depth \in Nat
      /\ b \in Blocks /\ b \in Own(Depth) /\ cells[b] = Zero /\ b # NULL
      /\ b \in 1..Len(cells')
  BY <1>0, Levels DEF Turn, GoodHeap, Blocks
<1>2. ASSUME NEW k \in 0..Depth, k # Depth PROVE b \notin Own(k) /\ Own(k)' = Own(k)
  <2>1. b \notin Own(k) BY <1>0, <1>1, <1>2, OthersDisjoint
  <2> QED BY <1>0, <2>1, OwnKept
<1>3. Own(Depth) = {b} \union Refs(KeyAt(Depth))
  <2>1. cells[b].items = <<>> /\ cells[b].buf = NULL /\ b \in 1..Len(cells)
    <3>1. Zero.items = <<>> /\ Zero.buf = NULL BY DEF Zero
    <3> QED BY <1>1, <3>1 DEF Blocks
  <2>2. Trees(cells)[b] = {b} \union Refs(NULL) BY <1>1, <2>1, LeafTree
  <2>3. Refs(NULL) = {} BY DEF Refs
  <2> QED BY <1>1, <2>2, <2>3 DEF Own, TreeAt
<1>4. PICK d : d = Depth OBVIOUS
<1>5. Own(d)' = {b} \union Refs(cells'[b].buf) \union Refs(KeyAt(d))
  <2>1. Trees(cells')[b] = {b} \union Refs(cells'[b].buf) BY <1>1, LeafTree
  <2>2. At(d)' = b /\ KeyAt(d)' = KeyAt(d) BY <1>1, <1>4
  <2> QED BY <1>1, <2>1, <2>2 DEF Own, TreeAt
<1>6. \A k \in 1..Depth :
        cells'[At(k-1)].buf \notin Inner(Trees(cells'), cells'[At(k-1)])
  <2> SUFFICES ASSUME NEW k \in 1..Depth
      PROVE cells'[At(k-1)].buf \notin Inner(Trees(cells'), cells'[At(k-1)])
    OBVIOUS
  <2>1. k - 1 \in 0..Depth /\ k - 1 # Depth BY <1>1
  <2>2. b \notin Own(k-1) BY <1>2, <2>1
  <2> QED BY <1>0, <1>1, <2>2, ApartKept
<1>7. ASSUME NEW k \in 0..Depth
      PROVE  Own(k)' = IF k = Depth THEN Own(k) \union Refs(cells'[b].buf) ELSE Own(k)
  <2>1. CASE k # Depth BY <1>2, <2>1
  <2>2. CASE k = Depth BY <1>3, <1>4, <1>5, <2>2
  <2> QED BY <2>1, <2>2
<1> QED BY <1>6, <1>7

-----------------------------------------------------------------------------
(* What the steps do to the owners. *)
Owned == Calls /\ Share(Owns, Depth, live) /\ ArrayApart

(* Nothing. *)
LEMMA OwnedSame ==
  ASSUME PInv, Parsing, UNCHANGED <<cells, stack, live>>
  PROVE  Owned'
<1>1. Calls /\ Share(Owns, Depth, live) /\ ArrayApart BY Levels
<1>2. Depth' = Depth /\ \A k : At(k)' = At(k) /\ KeyAt(k)' = KeyAt(k)
  BY DEF Depth, At, KeyAt
<1>3. \A k : Own(k)' = Own(k) BY <1>2 DEF Own
<1>4. Owns' = Owns BY <1>2, <1>3 DEF Owns
<1>5. Share(Owns, Depth, live)' BY <1>1, <1>2, <1>4
<1>6. Calls' BY <1>1, <1>2 DEF Calls, Blocks
<1>7. ArrayApart' BY <1>1, <1>2 DEF ArrayApart
<1> QED BY <1>5, <1>6, <1>7 DEF Owned

LEMMA OwnedWritten ==
  ASSUME PInv, pc = "value", GoodHeap(cells'), Len(cells) <= Len(cells'),
         \A x \in Blocks : x # At(Depth) => cells'[x] = cells[x],
         cells'[At(Depth)].items = <<>>,
         NEW F, F = Refs(cells'[At(Depth)].buf), F \cap Blocks = {},
         live' = live \union F, UNCHANGED stack
  PROVE  Owned'
<1>0. Parsing BY DEF Parsing
<1>1. /\ Depth \in Nat /\ live \subseteq Blocks /\ Share(Owns, Depth, live) /\ Calls
      /\ Len(cells) \in Nat /\ Len(cells') \in Nat
      /\ \A k \in 0..Depth : Owns[k] = Own(k)
  BY <1>0, Levels DEF GoodHeap, Sound
<1>2. Depth' = Depth /\ \A k : At(k)' = At(k) /\ KeyAt(k)' = KeyAt(k)
  BY DEF Depth, At, KeyAt
<1>3. /\ \A k \in 0..Depth : Own(k)' = IF k = Depth THEN Own(k) \union F ELSE Own(k)
      /\ \A k \in 1..Depth :
           cells'[At(k-1)].buf \notin Inner(Trees(cells'), cells'[At(k-1)])
  BY <1>2, LeafWritten
<1>4. Share(Owns, Depth, live)'
  <2>1. \A k \in 0..Depth : Owns'[k] = IF k = Depth THEN Owns[k] \union F ELSE Owns[k]
    BY <1>1, <1>2, <1>3 DEF Owns
  <2>2. F \cap live = {} BY <1>1
  <2>4. Share(Owns', Depth, live \union F) BY <1>1, <2>1, <2>2, ShareGrows
  <2> QED BY <1>2, <2>4
<1>5. ArrayApart' BY <1>2, <1>3 DEF ArrayApart
<1>6. Calls' BY <1>1, <1>2 DEF Calls, Blocks
<1> QED BY <1>4, <1>5, <1>6 DEF Owned

(* parse_object or parse_array begins. *)
LEMMA OwnedDeeper ==
  ASSUME PInv, pc = "value", GoodHeap(cells'), Len(cells) = Len(cells'),
         \A x \in Blocks : x # At(Depth) => cells'[x] = cells[x],
         cells'[At(Depth)].items = <<>>, cells'[At(Depth)].buf = NULL,
         NEW t \in Call, t.out = At(Depth), t.elem = NULL, t.key = NULL,
         stack' = Append(stack, t), live' = live
  PROVE  Owned' /\ stack' \in Seq(Call) /\ Depth' > 0 /\ At(Depth)' = NULL /\ KeyAt(Depth)' = NULL
<1>0. Parsing BY DEF Parsing
<1>1. /\ Depth \in Nat /\ stack \in Seq(Call)
      /\ live \subseteq Blocks /\ Share(Owns, Depth, live) /\ Calls
      /\ Len(cells) \in Nat /\ Sound(cells')
      /\ At(Depth) # NULL /\ At(Depth) \in Blocks
      /\ \A k \in 0..Depth : Owns[k] = Own(k)
  BY <1>0, Levels DEF GoodHeap, Turn
<1>2. /\ stack' \in Seq(Call) /\ Depth' = Depth + 1
      /\ At(Depth)' = NULL /\ KeyAt(Depth)' = NULL
      /\ stack'[Depth + 1] = t
      /\ \A k \in 0..Depth : At(k)' = At(k) /\ KeyAt(k)' = KeyAt(k)
      /\ \A k \in 1..Depth : stack'[k] = stack[k]
  BY <1>1, Pushed1
<1>3. /\ \A k \in 0..Depth : Own(k)' = Own(k)
      /\ \A k \in 1..Depth :
           cells'[At(k-1)].buf \notin Inner(Trees(cells'), cells'[At(k-1)])
  <2>1. Refs(cells'[At(Depth)].buf) = {} BY DEF Refs
  <2>2. Len(cells) <= Len(cells') BY <1>1
  <2> QED BY <1>2, <2>1, <2>2, LeafWritten
<1>d. PICK d : d = Depth + 1 OBVIOUS
<1>4. Own(d)' = {}
  <2>1. At(d)' = NULL /\ KeyAt(d)' = NULL BY <1>1, <1>2, <1>d
  <2> QED BY <2>1 DEF Own, TreeAt, Refs
<1>5. Share(Owns, Depth, live)'
  <2>1. \A k \in 0..Depth : Owns'[k] = Owns[k]
    <3>1. \A k \in 0..Depth : k \in 0..Depth' BY <1>1, <1>2
    <3> QED BY <1>1, <1>3, <3>1 DEF Owns
  <2>2. Owns'[Depth + 1] = {}
    <3>1. d \in 0..Depth' BY <1>1, <1>2, <1>d
    <3>2. Owns'[d] = Own(d)' BY <3>1 DEF Owns
    <3> QED BY <1>4, <1>d, <3>2
  <2>3. Share(Owns', Depth + 1, live) BY <1>1, <2>1, <2>2, ShareDeepens
  <2> QED BY <1>2, <2>3
<1>6. ArrayApart'
  <2> SUFFICES ASSUME NEW k \in 1..Depth+1
      PROVE cells'[At(k-1)'].buf \notin Inner(Trees(cells'), cells'[At(k-1)'])
    BY <1>1, <1>2 DEF ArrayApart
  <2>1. CASE k \in 1..Depth
    <3>1. At(k-1)' = At(k-1) BY <1>1, <1>2, <2>1
    <3> QED BY <1>3, <2>1, <3>1
  <2>2. CASE k = Depth + 1
    <3>1. At(k-1)' = At(Depth) BY <1>1, <1>2, <2>2
    <3>2. Inner(Trees(cells'), cells'[At(Depth)]) = {} BY DEF Inner
    <3> QED BY <3>1, <3>2
  <2> QED BY <1>1, <2>1, <2>2
<1>7. Calls'
  <2>1. ASSUME NEW k \in 1..Depth+1
        PROVE  /\ stack'[k].out = At(k-1)'
               /\ KeyAt(k)' \in {NULL} \union At(k-1)'+1 .. Len(cells')
               /\ At(k)' \in {NULL} \union At(k-1)'+1 .. Len(cells')
               /\ At(k)' # NULL => KeyAt(k)' < At(k)'
               /\ At(k-1)' # NULL
    <3>1. CASE k \in 1..Depth
      <4>1. At(k-1)' = At(k-1) /\ At(k)' = At(k) /\ KeyAt(k)' = KeyAt(k)
        BY <1>1, <1>2, <3>1
      <4>2. /\ stack[k].out = At(k-1)
            /\ KeyAt(k) \in {NULL} \union At(k-1)+1 .. Len(cells)
            /\ At(k) \in {NULL} \union At(k-1)+1 .. Len(cells)
            /\ At(k) # NULL => KeyAt(k) < At(k)
        BY <1>1, <3>1 DEF Calls
      <4>3. At(k-1) # NULL
        <5>1. k - 1 \in 0..Depth-1 BY <1>1, <3>1
        <5> QED BY <1>1, <5>1 DEF Calls
      <4>4. stack'[k] = stack[k] BY <1>2, <3>1
      <4> QED BY <4>1, <4>2, <4>3, <4>4
    <3>2. CASE k = Depth + 1
      <4>1. At(k-1)' = At(Depth) BY <1>1, <1>2, <3>2
      <4>2. k = d BY <1>d, <3>2
      <4>3. At(d)' = NULL /\ KeyAt(d)' = NULL BY <1>1, <1>2, <1>d
      <4> QED BY <1>1, <1>2, <3>2, <4>1, <4>2, <4>3
    <3>3. k \in 1..Depth \/ k = Depth + 1 BY <1>1
    <3> QED BY <3>1, <3>2, <3>3
  <2>2. root \in Blocks' BY <1>1 DEF Calls, Blocks
  <2>3. \A k \in 0..Depth'-1 : At(k)' # NULL
    <3> SUFFICES ASSUME NEW k \in 0..Depth PROVE At(k)' # NULL BY <1>1, <1>2
    <3>1. k + 1 \in 1..Depth+1 /\ k + 1 - 1 = k BY <1>1
    <3> QED BY <2>1, <3>1
  <2> QED BY <1>2, <2>1, <2>2, <2>3 DEF Calls
<1> QED BY <1>1, <1>2, <1>5, <1>6, <1>7 DEF Owned

(* It ends; what the call still owned is freed. *)
LEMMA OwnedPopped ==
  ASSUME PInv, Parsing, stack # <<>>, stack' = SubSeq(stack, 1, Len(stack) - 1),
         UNCHANGED cells, live' = live \ Own(Depth)
  PROVE  Owned' /\ stack' \in Seq(Call) /\ At(Depth)' # NULL
<1>1. /\ Depth \in Nat /\ stack \in Seq(Call)
      /\ Share(Owns, Depth, live) /\ Calls /\ ArrayApart
      /\ \A k \in 0..Depth : Owns[k] = Own(k)
  BY Levels
<1>2. /\ stack' \in Seq(Call) /\ Depth' = Depth - 1 /\ Depth > 0
      /\ \A k \in 0..Depth-1 : At(k)' = At(k) /\ KeyAt(k)' = KeyAt(k)
      /\ \A k \in 1..Depth-1 : stack'[k] = stack[k]
  BY <1>1, Popped
<1>3. \A k \in 0..Depth-1 : Own(k)' = Own(k) BY <1>2 DEF Own
<1>4. Share(Owns, Depth, live)'
  <2>1. \A k \in 0..Depth-1 : Owns'[k] = Owns[k] BY <1>1, <1>2, <1>3 DEF Owns
  <2>2. Share(Owns', Depth - 1, live \ Owns[Depth]) BY <1>1, <1>2, <2>1, ShareDrops
  <2>3. Owns[Depth] = Own(Depth) BY <1>1
  <2> QED BY <1>2, <2>2, <2>3
<1>5. \A k \in 1..Depth-1 : At(k-1)' = At(k-1) /\ k \in 1..Depth /\ k - 1 \in 0..Depth-1
  BY <1>1, <1>2
<1>6. ArrayApart' BY <1>1, <1>2, <1>5 DEF ArrayApart
<1>7. Calls'
  <2>1. \A k \in 1..Depth' :
          /\ stack'[k].out = At(k-1)'
          /\ KeyAt(k)' \in {NULL} \union At(k-1)'+1 .. Len(cells')
          /\ At(k)' \in {NULL} \union At(k-1)'+1 .. Len(cells')
          /\ At(k)' # NULL => KeyAt(k)' < At(k)'
    <3> SUFFICES ASSUME NEW k \in 1..Depth-1
                 PROVE  /\ stack'[k].out = At(k-1)'
                        /\ KeyAt(k)' \in {NULL} \union At(k-1)'+1 .. Len(cells)
                        /\ At(k)' \in {NULL} \union At(k-1)'+1 .. Len(cells)
                        /\ At(k)' # NULL => KeyAt(k)' < At(k)'
      BY <1>2
    <3>1. /\ stack[k].out = At(k-1)
          /\ KeyAt(k) \in {NULL} \union At(k-1)+1 .. Len(cells)
          /\ At(k) \in {NULL} \union At(k-1)+1 .. Len(cells)
          /\ At(k) # NULL => KeyAt(k) < At(k)
      BY <1>1, <1>5 DEF Calls
    <3>2. k \in 0..Depth-1 BY <1>1
    <3> QED BY <1>2, <1>5, <3>1, <3>2
  <2>2. \A k \in 0..Depth'-1 : At(k)' # NULL BY <1>1, <1>2 DEF Calls
  <2> QED BY <1>1, <2>1, <2>2 DEF Calls, Blocks
<1>8. At(Depth)' # NULL
  <2>1. PICK d : d = Depth - 1 OBVIOUS
  <2>2. d \in 0..Depth-1 /\ d = Depth' BY <1>1, <1>2, <2>1
  <2>3. At(d)' = At(d) /\ At(d) # NULL BY <1>1, <1>2, <2>2 DEF Calls
  <2> QED BY <2>2, <2>3
<1> QED BY <1>2, <1>4, <1>6, <1>7, <1>8 DEF Owned

LEMMA LeafAdded ==
  ASSUME GoodHeap(cells), NEW c, GoodCell(c, New, New), c.items = <<>>, c.buf = NULL,
         cells' = Append(cells, c)
  PROVE  /\ GoodHeap(cells') /\ Sound(cells') /\ Len(cells') = New
         /\ cells'[New] = c /\ Trees(cells')[New] = {New}
         /\ \A x \in Blocks : cells'[x] = cells[x]
<1>1. PICK n : n = New OBVIOUS
<1>2. Len(cells) \in Nat /\ n = Len(cells) + 1 /\ GoodCell(c, n, n)
  BY <1>1 DEF GoodHeap, Sound, New
<1>a. GoodCell(c, Len(cells) + 1, Len(cells) + 1) BY <1>2
<1>3. /\ GoodHeap(cells') /\ Len(cells') = n /\ cells'[n] = c
      /\ \A x \in 1..Len(cells) : cells'[x] = cells[x]
  <2>1. GoodHeap(cells') BY <1>a, HeapAdd
  <2>2. Len(cells') = Len(cells) + 1 BY <1>a, HeapAdd
  <2>3. cells'[Len(cells) + 1] = c BY <1>a, HeapAdd
  <2>4. \A x \in 1..Len(cells) : cells'[x] = cells[x] BY <1>a, HeapAdd
  <2> QED BY <1>2, <2>1, <2>2, <2>3, <2>4
<1>4. Sound(cells') /\ n \in 1..Len(cells') BY <1>2, <1>3 DEF GoodHeap
<1>5. cells'[n].items = <<>> /\ cells'[n].buf = NULL BY <1>3
<1>6. Trees(cells')[n] = {n} \union Refs(NULL) BY <1>4, <1>5, LeafTree
<1>7. Refs(NULL) = {} BY DEF Refs
<1> QED BY <1>1, <1>3, <1>4, <1>6, <1>7 DEF Blocks

(* A block is allocated for the key or the value that comes next. *)
LEMMA OwnedNew ==
  ASSUME PInv, pc \in {"loop", "colon"},
         NEW c, GoodCell(c, New, New), c.items = <<>>, c.buf = NULL,
         cells' = Append(cells, c), live' = live \union {New},
         NEW t \in Call, t.out = Top.out, stack' = [stack EXCEPT ![Len(stack)] = t],
         \/ t.elem = New /\ t.key = Top.key
         \/ t.elem = Top.elem /\ t.key = New /\ Top.key = NULL
  PROVE  /\ Owned' /\ stack' \in Seq(Call) /\ GoodHeap(cells') /\ Len(cells') = New
         /\ Depth' > 0 /\ At(Depth)' = t.elem /\ KeyAt(Depth)' = t.key
         /\ cells'[New] = c
<1>0. Parsing BY DEF Parsing
<1>1. /\ Depth \in Nat /\ Depth > 0 /\ stack \in Seq(Call) /\ stack # <<>>
      /\ live \subseteq Blocks /\ Share(Owns, Depth, live) /\ Calls /\ ArrayApart
      /\ GoodHeap(cells) /\ Len(cells) \in Nat
      /\ \A k \in 0..Depth : Owns[k] = Own(k) /\ Own(k) \subseteq live
  BY <1>0, Levels DEF Turn, Depth
<1>2. At(Depth) = NULL /\ KeyAt(Depth) = Top.key /\ Top.elem = NULL
  BY <1>0, <1>1, Levels DEF Turn, At, KeyAt, Top, Depth
<1>3. /\ GoodHeap(cells') /\ Sound(cells') /\ Len(cells') = New /\ cells'[New] = c
      /\ Trees(cells')[New] = {New} /\ \A x \in Blocks : cells'[x] = cells[x]
  BY <1>1, LeafAdded
<1>4. /\ stack' \in Seq(Call) /\ Depth' = Depth
      /\ At(Depth)' = t.elem /\ KeyAt(Depth)' = t.key
      /\ \A k \in 0..Depth-1 : At(k)' = At(k) /\ KeyAt(k)' = KeyAt(k)
      /\ \A k \in 1..Depth : stack'[k].out = stack[k].out
  BY <1>1, TopSet
<1>5. New \in Nat /\ New \notin Blocks /\ New # NULL /\ New \notin live /\ Len(cells) <= Len(cells')
  BY <1>1, <1>3 DEF New, Blocks, NULL
<1>6. ASSUME NEW k \in 0..Depth-1
      PROVE /\ Own(k)' = Own(k) /\ New \notin Own(k)
            /\ At(k)' = At(k) /\ KeyAt(k)' = KeyAt(k)
  <2>1. k \in 0..Depth BY <1>1
  <2>2. New \notin Own(k) BY <1>1, <1>5, <2>1
  <2> QED BY <1>0, <1>3, <1>4, <1>5, <2>1, <2>2, OwnKept
<1>d. PICK d : d = Depth OBVIOUS
<1>7. Own(d)' = Own(d) \union {New}
  <2>2. Refs(New) = {New} BY <1>5 DEF Refs
  <2>3. At(d)' = t.elem /\ KeyAt(d)' = t.key BY <1>4, <1>d
  <2>4. Own(d) = Refs(Top.key) BY <1>2, <1>d DEF Own, TreeAt
  <2>5. Own(d)' = TreeAt(cells', t.elem) \union Refs(t.key) BY <2>3 DEF Own
  <2> QED BY <1>2, <1>3, <1>5, <2>2, <2>4, <2>5 DEF TreeAt, Refs
<1>8. Share(Owns, Depth, live)'
  <2>1. \A k \in 0..Depth : Owns'[k] = IF k = Depth THEN Owns[k] \union {New} ELSE Owns[k]
    <3> SUFFICES ASSUME NEW k \in 0..Depth
        PROVE Owns'[k] = IF k = Depth THEN Owns[k] \union {New} ELSE Owns[k]
      OBVIOUS
    <3>1. Owns'[k] = Own(k)' BY <1>4 DEF Owns
    <3>2. CASE k = Depth BY <1>1, <1>7, <1>d, <3>1, <3>2
    <3>3. CASE k # Depth
      <4>1. k \in 0..Depth-1 BY <1>1, <3>3
      <4> QED BY <1>1, <1>6, <3>1, <3>3, <4>1
    <3> QED BY <3>2, <3>3
  <2>2. {New} \cap live = {} BY <1>5
  <2>3. Share(Owns', Depth, live \union {New}) BY <1>1, <2>1, <2>2, ShareGrows
  <2> QED BY <1>4, <2>3
<1>9. ArrayApart'
  <2> SUFFICES ASSUME NEW k \in 1..Depth
      PROVE cells'[At(k-1)'].buf \notin Inner(Trees(cells'), cells'[At(k-1)'])
    BY <1>4 DEF ArrayApart
  <2>1. k - 1 \in 0..Depth-1 BY <1>1
  <2>2. At(k-1)' = At(k-1) /\ New \notin Own(k-1) BY <1>6, <2>1
  <2>3. cells'[At(k-1)].buf \notin Inner(Trees(cells'), cells'[At(k-1)])
    BY <1>0, <1>3, <1>5, <2>2, ApartKept
  <2> QED BY <2>2, <2>3
<1>10. Calls'
  <2>1. ASSUME NEW k \in 1..Depth
        PROVE  /\ stack'[k].out = At(k-1)'
               /\ KeyAt(k)' \in {NULL} \union At(k-1)'+1 .. Len(cells')
               /\ At(k)' \in {NULL} \union At(k-1)'+1 .. Len(cells')
               /\ At(k)' # NULL => KeyAt(k)' < At(k)'
               /\ At(k-1)' # NULL
    <3>1. /\ stack[k].out = At(k-1)
          /\ KeyAt(k) \in {NULL} \union At(k-1)+1 .. Len(cells)
          /\ At(k) \in {NULL} \union At(k-1)+1 .. Len(cells)
          /\ At(k) # NULL => KeyAt(k) < At(k)
      BY <1>1 DEF Calls
    <3>2. k - 1 \in 0..Depth-1 /\ k - 1 \in 0..Depth BY <1>1
    <3>3. At(k-1) # NULL /\ At(k-1) \in Blocks BY <1>0, <3>2, Levels DEF Calls
    <3>4. At(k-1)' = At(k-1) BY <1>6, <3>2
    <3>5. New \in At(k-1)+1 .. Len(cells')
      BY <1>1, <1>3, <3>3 DEF New, Blocks
    <3>6. At(k-1)+1 .. Len(cells) \subseteq At(k-1)+1 .. Len(cells')
      BY <1>1, <1>3, <3>3 DEF New, Blocks
    <3>7. CASE k = Depth
      <4>1. At(k)' = t.elem /\ KeyAt(k)' = t.key BY <1>4, <3>7
      <4>2. At(k) = NULL /\ KeyAt(k) = Top.key BY <1>2, <3>7
      <4>3. At(k)' # NULL => KeyAt(k)' < At(k)'
        <5>1. Top.key \in {NULL} \union Blocks BY <1>0, <1>1, <1>2, Levels
        <5>2. Top.key < New BY <1>1, <5>1 DEF New, Blocks, NULL
        <5>3. At(k)' # NULL => At(k)' = New /\ KeyAt(k)' = Top.key BY <1>2, <4>1
        <5> QED BY <5>2, <5>3
      <4> QED BY <1>2, <1>4, <3>1, <3>3, <3>4, <3>5, <3>6, <4>1, <4>2, <4>3
    <3>8. CASE k # Depth
      <4>1. k \in 0..Depth-1 BY <1>1, <3>8
      <4>2. At(k)' = At(k) /\ KeyAt(k)' = KeyAt(k) BY <1>6, <4>1
      <4> QED BY <1>4, <3>1, <3>3, <3>4, <3>6, <4>2
    <3> QED BY <3>7, <3>8
  <2>2. root \in Blocks' BY <1>1, <1>3 DEF Calls, Blocks, New
  <2>3. \A k \in 0..Depth'-1 : At(k)' # NULL
    <3> SUFFICES ASSUME NEW k \in 0..Depth-1 PROVE At(k)' # NULL BY <1>1, <1>4
    <3>0. Depth \in Nat BY <1>1
    <3>1. PICK l : l = k + 1 OBVIOUS
    <3>2. l \in 1..Depth /\ l - 1 = k BY <3>0, <3>1
    <3>3. At(l-1)' # NULL BY <2>1, <3>2
    <3> QED BY <3>2, <3>3
  <2> QED BY <1>4, <2>1, <2>2, <2>3 DEF Calls
<1> QED BY <1>1, <1>3, <1>4, <1>8, <1>9, <1>10 DEF Owned

(* arr_push, obj_push: the block of the level below, b, takes over what    *)
(* the call owns; its array may move, then X is freed and F is new.        *)
LEMMA OwnedPushed ==
  ASSUME PInv, pc = "returned", stack # <<>>,
         NEW b, b = At(Depth-1), GoodHeap(cells'), Len(cells) <= Len(cells'),
         \A x \in Blocks : x # b => cells'[x] = cells[x],
         cells'[b].items = Append(cells[b].items, [key |-> KeyAt(Depth), value |-> At(Depth)]),
         cells[b].items \in Seq([key : Nat, value : Nat]),
         NEW F, NEW X,
         \/ cells'[b].buf = cells[b].buf /\ X = {} /\ F = {}
         \/ cells'[b].buf = New /\ X = Refs(cells[b].buf) /\ F = {New},
         live' = (live \ X) \union F,
         NEW t \in Call, t.out = Top.out, t.elem = NULL, t.key = NULL,
         stack' = [stack EXCEPT ![Len(stack)] = t]
  PROVE  /\ Owned' /\ stack' \in Seq(Call)
         /\ Depth' > 0 /\ At(Depth)' = NULL /\ KeyAt(Depth)' = NULL
<1>0. Parsing BY DEF Parsing
<1>d. PICK d, m : d = Depth /\ m = Depth - 1 OBVIOUS
<1>1. /\ Depth \in Nat /\ Depth > 0 /\ stack \in Seq(Call) /\ d \in Nat /\ m \in Nat
      /\ d \in 0..Depth /\ m \in 0..Depth /\ m # d /\ m = d - 1 /\ d \in 1..Depth /\ m \in 0..Depth-1
  BY <1>0, <1>d, Levels DEF Depth
<1>2. /\ live \subseteq Blocks /\ Share(Owns, Depth, live) /\ Calls /\ ArrayApart
      /\ GoodHeap(cells) /\ Sound(cells) /\ Sound(cells') /\ Len(cells) \in Nat
      /\ \A k \in 0..Depth : Owns[k] = Own(k) /\ Own(k) \subseteq live
  BY <1>0, Levels DEF GoodHeap
<1>3. /\ At(d) # NULL /\ At(d) \in Blocks /\ At(d) \in Own(d) /\ KeyAt(d) \in {NULL} \union Blocks
      /\ At(m) = b /\ b # NULL /\ b \in Blocks /\ b \in Own(m)
  <2>1. At(d) # NULL BY <1>0, <1>d, Levels DEF Turn
  <2>2. At(m) # NULL BY <1>1, <1>2 DEF Calls
  <2> QED BY <1>0, <1>1, <1>d, <2>1, <2>2, Levels
<1>4. /\ stack' \in Seq(Call) /\ Depth' = Depth /\ At(d)' = NULL /\ KeyAt(d)' = NULL
      /\ \A k \in 0..Depth-1 : At(k)' = At(k) /\ KeyAt(k)' = KeyAt(k)
      /\ \A k \in 1..Depth : stack'[k].out = stack[k].out
  <2>1. /\ stack' \in Seq(Call) /\ Depth' = Depth
        /\ At(Depth)' = NULL /\ KeyAt(Depth)' = NULL
        /\ \A k \in 0..Depth-1 : At(k)' = At(k) /\ KeyAt(k)' = KeyAt(k)
        /\ \A k \in 1..Depth : stack'[k].out = stack[k].out
    BY <1>1, TopSet
  <2> QED BY <1>d, <2>1
<1>5. ASSUME NEW k \in 0..Depth, k # d, k # m
      PROVE  b \notin Own(k) /\ Own(k)' = Own(k)
  <2>1. b \notin Own(k) BY <1>0, <1>1, <1>3, <1>5, OthersDisjoint
  <2>2. k \in 0..Depth-1 BY <1>1, <1>5, <1>d
  <2>3. At(k)' = At(k) /\ KeyAt(k)' = KeyAt(k) BY <1>4, <2>2
  <2> QED BY <1>0, <2>1, <2>3, OwnKept
<1>e. PICK e, y : e = At(d) /\ y = KeyAt(d) OBVIOUS
<1> DEFINE I == Inner(Trees(cells), cells[b])
<1>6. Trees(cells')[e] = Trees(cells)[e]
  <2>1. b \notin Own(d) BY <1>0, <1>1, <1>3, OthersDisjoint
  <2>2. b \notin Trees(cells)[e] BY <1>3, <1>e, <2>1 DEF Own, TreeAt
  <2>4. e \in Blocks BY <1>3, <1>e
  <2> QED BY <1>2, <2>2, <2>4, OtherTreesKept
<1>7. Inner(Trees(cells'), cells[b]) = I BY <1>2, <1>3, InnerKept DEF Blocks
<1>8. Own(d) = Trees(cells)[e] \union Refs(y) BY <1>3, <1>e DEF Own, TreeAt
<1>9. Inner(Trees(cells'), cells'[b]) = I \union Own(d)
  <2> DEFINE old == cells[b].items
             item == [key |-> y, value |-> e]
             new == Append(old, item)
  <2>1. cells'[b].items = new BY <1>d, <1>e
  <2>2. {new[k] : k \in DOMAIN new} = {old[k] : k \in DOMAIN old} \union {item}
    <3>1. item \in [key : Nat, value : Nat] BY <1>2, <1>3, <1>e DEF Blocks, NULL
    <3> HIDE DEF item, old
    <3>2. old \in Seq([key : Nat, value : Nat]) BY DEF old
    <3>3. /\ DOMAIN old = 1..Len(old) /\ DOMAIN new = 1..Len(old)+1 /\ Len(old) \in Nat
          /\ new[Len(old)+1] = item /\ \A k \in 1..Len(old) : new[k] = old[k]
      BY <3>1, <3>2
    <3> HIDE DEF new
    <3>4. 1..Len(old)+1 = (1..Len(old)) \union {Len(old)+1} BY <3>3
    <3>5. ASSUME NEW k \in DOMAIN new PROVE new[k] \in {old[l] : l \in DOMAIN old} \union {item}
      BY <3>3, <3>4
    <3>6. ASSUME NEW k \in DOMAIN old PROVE old[k] \in {new[l] : l \in DOMAIN new}
      <4>1. k \in DOMAIN new /\ new[k] = old[k] BY <3>3, <3>4
      <4> QED BY <4>1
    <3>7. item \in {new[l] : l \in DOMAIN new}
      <4>1. Len(old)+1 \in DOMAIN new BY <3>3, <3>4
      <4> QED BY <3>3, <4>1
    <3> QED BY <3>5, <3>6, <3>7
  <2>3. item.key = y /\ item.value = e OBVIOUS
  <2> HIDE DEF new, item
  <2>4. Inner(Trees(cells'), cells'[b]) =
          Inner(Trees(cells'), cells[b]) \union Refs(y) \union Trees(cells')[e]
    <3> DEFINE f == Trees(cells')
               T == {old[k] : k \in DOMAIN old}
    <3>1. {cells'[b].items[k] : k \in DOMAIN cells'[b].items} = T \union {item}
      <4> DEFINE R(s) == {s[k] : k \in DOMAIN s}
      <4>1. R(new) = T \union {item} BY <2>2
      <4> HIDE DEF R
      <4>2. R(cells'[b].items) = T \union {item} BY <2>1, <4>1
      <4> QED BY <4>2 DEF R
    <3>2. {cells[b].items[k] : k \in DOMAIN cells[b].items} = T OBVIOUS
    <3> HIDE DEF T, f
    <3>3. \A z : z \in Inner(f, cells'[b]) <=>
                  \E x \in T \union {item} : z \in Refs(x.key) \union f[x.value]
      BY <3>1 DEF Inner
    <3>4. \A z : z \in Inner(f, cells[b]) <=> \E x \in T : z \in Refs(x.key) \union f[x.value]
      BY <3>2 DEF Inner
    <3>5. \A z : z \in Inner(f, cells'[b]) <=>
                  z \in Inner(f, cells[b]) \union Refs(y) \union f[e]
      BY <2>3, <3>3, <3>4
    <3>6. Inner(f, cells'[b]) = Inner(f, cells[b]) \union Refs(y) \union f[e] BY <3>5
    <3> QED BY <3>6 DEF f
  <2> QED BY <1>6, <1>7, <1>8, <2>4
<1>10. Trees(cells)[b] = {b} \union Refs(cells[b].buf) \union I
  BY <1>2, <1>3, Unfold DEF Body, Blocks
<1>11. Trees(cells')[b] = {b} \union Refs(cells'[b].buf) \union I \union Own(d)
  <2>1. b \in 1..Len(cells') BY <1>2, <1>3 DEF Blocks, Sound
  <2>2. Trees(cells')[b] = Body(Trees(cells'), cells'[b], b) BY <1>2, <2>1, Unfold
  <2> QED BY <1>9, <2>2 DEF Body
<1> HIDE DEF I
<1>12. /\ Trees(cells)[b] \subseteq b..Len(cells)
       /\ cells[b].buf \notin I
       /\ cells[b].buf \in {NULL} \union b+1..Len(cells)
       /\ KeyAt(m) < b /\ KeyAt(m) \in Nat
  <2>1. Trees(cells)[b] \subseteq b..Len(cells) BY <1>2, <1>3, TreeInHeap DEF Blocks
  <2>2. cells[b].buf \notin I BY <1>1, <1>2, <1>3 DEF ArrayApart, I
  <2>3. cells[b].buf \in {NULL} \union b+1..Len(cells)
    BY <1>2, <1>3 DEF Sound, CellSound, Blocks
  <2>4. KeyAt(m) \in Nat
    <3>1. KeyAt(m) \in {NULL} \union Blocks BY <1>0, <1>1, Levels
    <3> QED BY <3>1 DEF Blocks, NULL
  <2>5. KeyAt(m) < b
    <3>1. CASE m = 0
      <4>1. KeyAt(m) = 0 /\ At(m) = 1 BY <3>1 DEF KeyAt, At, NULL, root
      <4>2. b = 1 BY <1>3, <4>1
      <4> QED BY <4>1, <4>2
    <3>2. CASE m # 0
      <4>1. m \in 1..Depth BY <1>1, <3>2
      <4> QED BY <1>2, <1>3, <4>1 DEF Calls
    <3> QED BY <3>1, <3>2
  <2> QED BY <2>1, <2>2, <2>3, <2>4, <2>5
<1>13. Own(m)' = (Own(m) \ X) \union Own(d) \union F
  <2>1. At(m)' = b /\ KeyAt(m)' = KeyAt(m) BY <1>1, <1>3, <1>4
  <2>2. Own(m) = {b} \union Refs(cells[b].buf) \union I \union Refs(KeyAt(m))
    BY <1>3, <1>10 DEF Own, TreeAt
  <2>3. Own(m)' = {b} \union Refs(cells'[b].buf) \union I \union Own(d) \union Refs(KeyAt(m))
    BY <1>3, <1>11, <2>1 DEF Own, TreeAt
  <2>4. CASE cells'[b].buf = cells[b].buf /\ X = {} /\ F = {} BY <2>2, <2>3, <2>4
  <2>5. CASE cells'[b].buf = New /\ X = Refs(cells[b].buf) /\ F = {New}
    <3>1. Refs(cells'[b].buf) = {New} BY <1>2, <2>5 DEF Refs, New, NULL
    <3>2. b \in Nat /\ b # NULL BY <1>3 DEF Blocks
    <3>3. X \cap ({b} \union I \union Refs(KeyAt(m))) = {}
      BY <1>12, <2>5, <3>2 DEF Refs, NULL
    <3> QED BY <2>2, <2>3, <2>5, <3>1, <3>3
  <2> QED BY <2>4, <2>5
<1>14. Own(d)' = {} BY <1>4 DEF Own, TreeAt, Refs
<1>15. X \subseteq Own(m) /\ F \cap live = {}
  <2>1. New \notin Blocks BY <1>2 DEF New, Blocks
  <2>2. Refs(cells[b].buf) \subseteq Own(m) BY <1>3, <1>10 DEF Own, TreeAt
  <2> QED BY <1>2, <2>1, <2>2
<1>16. Share(Owns, Depth, live)'
  <2>1. \A k \in 0..Depth : Owns'[k] = Own(k)' BY <1>4 DEF Owns
  <2>2. \A k \in 0..Depth :
          Owns'[k] = IF k = Depth THEN {}
                     ELSE IF k = Depth-1 THEN (Owns[k] \ X) \union Owns[Depth] \union F
                     ELSE Owns[k]
    <3> SUFFICES ASSUME NEW k \in 0..Depth
        PROVE Owns'[k] = IF k = Depth THEN {}
                     ELSE IF k = Depth-1 THEN (Owns[k] \ X) \union Owns[Depth] \union F
                     ELSE Owns[k]
      OBVIOUS
    <3>1. CASE k = d BY <1>14, <1>d, <2>1, <3>1
    <3>2. CASE k = m BY <1>1, <1>2, <1>13, <1>d, <2>1, <3>2
    <3>3. CASE k # d /\ k # m BY <1>2, <1>5, <1>d, <2>1, <3>3
    <3> QED BY <3>1, <3>2, <3>3
  <2>3. X \subseteq Owns[Depth-1] BY <1>1, <1>2, <1>15, <1>d
  <2>4. Share(Owns', Depth, (live \ X) \union F)
    BY <1>1, <1>2, <1>15, <2>2, <2>3, ShareMerges
  <2> QED BY <1>4, <2>4
<1>17. ArrayApart'
  <2> SUFFICES ASSUME NEW k \in 1..Depth
      PROVE cells'[At(k-1)'].buf \notin Inner(Trees(cells'), cells'[At(k-1)'])
    BY <1>4 DEF ArrayApart
  <2>1. k - 1 \in 0..Depth-1 /\ k - 1 \in 0..Depth /\ k - 1 # d BY <1>1, <1>d
  <2>2. At(k-1)' = At(k-1) BY <1>4, <2>1
  <2>3. CASE k - 1 # m
    <3>1. b \notin Own(k-1) BY <1>5, <2>1, <2>3
    <3>2. cells'[At(k-1)].buf \notin Inner(Trees(cells'), cells'[At(k-1)])
      BY <1>0, <3>1, ApartKept
    <3> QED BY <2>2, <3>2
  <2>4. CASE k - 1 = m
    <3>1. At(k-1)' = b BY <1>3, <2>2, <2>4
    <3>2. Own(d) \subseteq Blocks BY <1>1, <1>2
    <3>3. I \subseteq b..Len(cells) BY <1>10, <1>12
    <3>4. CASE cells'[b].buf = New
      <4>1. New \notin Blocks BY <1>2 DEF New, Blocks
      <4>2. New \notin b..Len(cells) BY <1>2, <1>3 DEF New, Blocks
      <4> QED BY <1>9, <3>1, <3>2, <3>3, <3>4, <4>1, <4>2
    <3>5. CASE cells'[b].buf = cells[b].buf
      <4>1. cells[b].buf \notin Own(d)
        <5>1. CASE cells[b].buf = NULL BY <1>2, <3>2, <5>1 DEF Blocks, NULL
        <5>2. CASE cells[b].buf # NULL
          <6>1. cells[b].buf \in Own(m) BY <1>3, <1>10, <5>2 DEF Own, TreeAt, Refs
          <6> QED BY <1>0, <1>1, <6>1, OthersDisjoint
        <5> QED BY <5>1, <5>2
      <4> QED BY <1>9, <1>12, <3>1, <3>5, <4>1
    <3> QED BY <3>4, <3>5
  <2> QED BY <2>3, <2>4
<1>18. Calls'
  <2>1. ASSUME NEW k \in 1..Depth
        PROVE  /\ stack'[k].out = At(k-1)'
               /\ KeyAt(k)' \in {NULL} \union At(k-1)'+1 .. Len(cells')
               /\ At(k)' \in {NULL} \union At(k-1)'+1 .. Len(cells')
               /\ At(k)' # NULL => KeyAt(k)' < At(k)'
               /\ At(k-1)' # NULL
    <3>1. /\ stack[k].out = At(k-1)
          /\ KeyAt(k) \in {NULL} \union At(k-1)+1 .. Len(cells)
          /\ At(k) \in {NULL} \union At(k-1)+1 .. Len(cells)
          /\ At(k) # NULL => KeyAt(k) < At(k)
      BY <1>2 DEF Calls
    <3>2. k - 1 \in 0..Depth-1 /\ k - 1 \in 0..Depth BY <1>1
    <3>3. At(k-1) # NULL /\ At(k-1) \in Blocks BY <1>0, <1>2, <3>2, Levels DEF Calls
    <3>4. At(k-1)' = At(k-1) BY <1>4, <3>2
    <3>5. At(k-1)+1 .. Len(cells) \subseteq At(k-1)+1 .. Len(cells')
      BY <1>2, <3>3 DEF Blocks, Sound
    <3>6. CASE k = d BY <1>4, <3>1, <3>3, <3>4, <3>6
    <3>7. CASE k # d
      <4>1. k \in 0..Depth-1 BY <1>1, <1>d, <3>7
      <4>2. At(k)' = At(k) /\ KeyAt(k)' = KeyAt(k) BY <1>4, <4>1
      <4> QED BY <1>4, <3>1, <3>3, <3>4, <3>5, <4>2
    <3> QED BY <3>6, <3>7
  <2>2. root \in Blocks' BY <1>2 DEF Calls, Blocks, Sound
  <2>3. \A k \in 0..Depth'-1 : At(k)' # NULL
    <3> SUFFICES ASSUME NEW k \in 0..Depth-1 PROVE At(k)' # NULL BY <1>1, <1>4
    <3>0. Depth \in Nat BY <1>1
    <3>1. PICK l : l = k + 1 OBVIOUS
    <3>2. l \in 1..Depth /\ l - 1 = k BY <3>0, <3>1
    <3>3. At(l-1)' # NULL BY <2>1, <3>2
    <3> QED BY <3>2, <3>3
  <2> QED BY <1>4, <2>1, <2>2, <2>3 DEF Calls
<1>19. At(Depth)' = NULL /\ KeyAt(Depth)' = NULL /\ Depth' > 0 BY <1>1, <1>4, <1>d
<1> QED BY <1>4, <1>16, <1>17, <1>18, <1>19 DEF Owned

-----------------------------------------------------------------------------
(* The steps.  What is the same for all of them: *)
Plain ==
  /\ doc \in Seq(Kinds \union {EOF})
  /\ ok \in BOOLEAN /\ bad \in BOOLEAN /\ rc \in {0, 1}
  /\ fails \in 0..MaxFails

LEMMA NextIs ==
  ASSUME Next
  PROVE  /\ next \/ UNCHANGED doc
         /\ Memory \/ NoMemory
         /\ ok' \in {ok, TRUE, FALSE}
         /\ rc' \in {rc, 0, 1}
         /\ \/ UNCHANGED bad
            \/ \E S : Freed(S)
            \/ bad' = (bad \/ ~(Tree(root) \subseteq live) \/ root \notin live')
<1>1. next \/ UNCHANGED doc
  BY Zenon
     DEF Next, Start, ValueOpen, ValueString, ValueNumber, ValueLiteral, ValueUnexpected,
         First, Key, KeyNotString, Colon, ColonMissing, Element, ElementFailed, Push,
         PushFails, After, ParseFailed, TrailingData, Parsed, MainFree
<1>2. Memory \/ NoMemory
  BY Zenon
     DEF Next, Start, ValueOpen, ValueString, ValueNumber, ValueLiteral, ValueUnexpected,
         First, Key, KeyNotString, Colon, ColonMissing, Element, ElementFailed, Push,
         PushFails, After, ParseFailed, TrailingData, Parsed, MainFree
<1>3. ok' \in {ok, TRUE, FALSE}
  BY Zenon
     DEF Next, Start, ValueOpen, ValueString, ValueNumber, ValueLiteral, ValueUnexpected,
         First, Key, KeyNotString, Colon, ColonMissing, Element, ElementFailed, Push,
         PushFails, After, ParseFailed, TrailingData, Parsed, MainFree,
         Go, Leave, Return
<1>4. rc' \in {rc, 0, 1}
  BY Zenon
     DEF Next, Start, ValueOpen, ValueString, ValueNumber, ValueLiteral, ValueUnexpected,
         First, Key, KeyNotString, Colon, ColonMissing, Element, ElementFailed, Push,
         PushFails, After, ParseFailed, TrailingData, Parsed, MainFree,
         Go, Leave, Return
<1>5. \/ UNCHANGED bad
      \/ \E S : Freed(S)
      \/ bad' = (bad \/ ~(Tree(root) \subseteq live) \/ root \notin live')
  BY Zenon
     DEF Next, Start, ValueOpen, ValueString, ValueNumber, ValueLiteral, ValueUnexpected,
         First, Key, KeyNotString, Colon, ColonMissing, Element, ElementFailed, Push,
         PushFails, After, ParseFailed, TrailingData, Parsed, MainFree,
         HeapSame
<1> QED BY <1>1, <1>2, <1>3, <1>4, <1>5

LEMMA NextPlain == TypeOK /\ Next => Plain'
<1> SUFFICES ASSUME TypeOK, Next PROVE Plain' OBVIOUS
<1>0. Plain BY DEF TypeOK, Plain
<1>1. doc' \in Seq(Kinds \union {EOF})
  <2>0. doc \in Seq(Kinds \union {EOF}) BY <1>0 DEF Plain
  <2>1. CASE next
    <3>1. PICK t \in Kinds \union {EOF} : doc' = Append(doc, t) BY <2>1 DEF next
    <3> QED BY <2>0, <3>1
  <2>2. CASE UNCHANGED doc BY <2>0, <2>2
  <2> QED BY <2>1, <2>2, NextIs
<1>2. ok' \in BOOLEAN BY <1>0, NextIs, Zenon DEF Plain
<1>3. bad' \in BOOLEAN BY <1>0, NextIs, Zenon DEF Plain, Freed
<1>4. rc' \in {0, 1} BY <1>0, NextIs, Zenon DEF Plain
<1>5. fails' \in 0..MaxFails
  <2>0. fails \in 0..MaxFails BY <1>0 DEF Plain
  <2>1. CASE Memory BY <2>0, <2>1 DEF Memory
  <2>2. CASE NoMemory BY <2>0, <2>2, JsonAssumption DEF NoMemory
  <2> QED BY <2>1, <2>2, NextIs
<1> QED BY <1>1, <1>2, <1>3, <1>4, <1>5 DEF Plain

LEMMA Goes ==
  ASSUME TypeOK, Next, GoodHeap(cells'), stack' \in Seq(Call), Owned', Turn', Parsing',
         lost' = {}, ~bad', live' \subseteq Blocks'
  PROVE  PInv'
<1>1. Plain' BY NextPlain
<1>2. /\ cells' \in Seq(Cell) /\ Sound(cells')
      /\ \A b \in Blocks' : Len(cells'[b].items) <= cells'[b].cap
  BY DEF GoodHeap, Room, Blocks
<1>3. /\ pc' \in {"start", "value", "first", "loop", "colon", "returned", "after",
                  "free", "done"}
      /\ pc' # "start" /\ pc' \notin {"free", "done"}
  BY DEF Parsing
<1>4. stack' \in Seq([fn : {"{", "["}, out : Nat, elem : Nat, key : Nat]) BY DEF Call
<1>5. TypeOK' BY <1>1, <1>2, <1>3, <1>4 DEF TypeOK, Plain
<1> QED BY <1>2, <1>3, <1>5 DEF PInv, Owned

(* The innermost call returns; what it owned is freed. *)
LEMMA Leaves ==
  ASSUME PInv, Next, Parsing, stack # <<>>, NEW b, Leave(b), UNCHANGED cells,
         live' = live \ Own(Depth), ~bad'
  PROVE  PInv'
<1>1. Owned' /\ stack' \in Seq(Call) /\ At(Depth)' # NULL BY OwnedPopped DEF Leave
<1>2. pc' = "returned" /\ lost' = {} BY Levels DEF Leave, Return
<1>3. GoodHeap(cells') /\ live' \subseteq Blocks' BY Levels DEF Blocks
<1>4. Turn' BY <1>1, <1>2 DEF Turn
<1>5. TypeOK /\ Parsing' BY <1>2 DEF PInv, Parsing
<1> QED BY <1>1, <1>2, <1>3, <1>4, <1>5, Goes

(* It owned nothing. *)
LEMMA LeavesEmpty ==
  ASSUME PInv, Next, pc \in {"first", "loop", "after"}, NEW b, Leave(b), HeapSame
  PROVE  PInv'
<1>1. Parsing BY DEF Parsing
<1>2. Depth > 0 /\ At(Depth) = NULL /\ KeyAt(Depth) = NULL /\ stack # <<>>
  BY <1>1, Levels DEF Turn, Depth
<1>3. Own(Depth) = {} BY <1>2 DEF Own, TreeAt, Refs
<1>4. UNCHANGED cells /\ live' = live \ Own(Depth) BY <1>3 DEF HeapSame
<1>5. ~bad' BY <1>1, Levels DEF HeapSame
<1> QED BY <1>1, <1>2, <1>4, <1>5, Leaves

(* It frees what it owned: nothing of it was freed before. *)
LEMMA LeavesFreeing ==
  ASSUME PInv, Next, Parsing, stack # <<>>, NEW b, Leave(b), UNCHANGED cells,
         Freed(Own(Depth))
  PROVE  PInv'
<1>1. Depth \in 0..Depth BY Levels
<1>2. Own(Depth) \subseteq live BY <1>1, Levels
<1>3. live' = live \ Own(Depth) BY DEF Freed
<1>4. ~bad' BY <1>2, Levels DEF Freed
<1> QED BY <1>3, <1>4, Leaves

(* The locals are what the innermost level owns. *)
LEMMA LocalsOwned ==
  ASSUME PInv, Parsing, stack # <<>>
  PROVE  Depth > 0 /\ At(Depth) = Top.elem /\ KeyAt(Depth) = Top.key /\ Own(Depth) = Locals
<1>1. Depth \in Nat /\ Depth > 0 BY Levels DEF Depth
<1>2. At(Depth) = Top.elem /\ KeyAt(Depth) = Top.key BY <1>1 DEF At, KeyAt, Top, Depth
<1>3. Tree(Top.elem) = TreeAt(cells, Top.elem) BY TreeIs DEF TreeAt
<1> QED BY <1>1, <1>2, <1>3 DEF Own, Locals, Refs

LEMMA OutIs ==
  ASSUME PInv, Parsing
  PROVE  Out = At(Depth) /\ (stack # <<>> => Top.out = At(Depth-1))
<1>1. Depth \in Nat /\ stack \in Seq(Call) /\ Calls BY Levels
<1>2. CASE stack = <<>> BY <1>2 DEF Out, At, Depth
<1>3. CASE stack # <<>>
  <2>1. Depth \in 1..Depth /\ Depth # 0 BY <1>1, <1>3 DEF Depth
  <2> QED BY <1>1, <1>3, <2>1 DEF Out, At, Depth, Top, Calls
<1> QED BY <1>2, <1>3

(* A value without an array of its own is written. *)
LEMMA ValueWritten ==
  ASSUME PInv, Next, pc = "value", NEW c \in Cell, c.items = <<>>, c.buf = NULL,
         NEW o, o = Out, cells' = [cells EXCEPT ![o] = c],
         UNCHANGED <<stack, live, bad>>, NEW b, Return(b)
  PROVE  PInv'
<1>0. Parsing BY DEF Parsing
<1>1. /\ GoodHeap(cells) /\ Len(cells) \in Nat /\ stack \in Seq(Call) /\ live \subseteq Blocks
      /\ Depth \in 0..Depth /\ ~bad /\ lost = {}
  BY <1>0, Levels
<1>3. o \in Blocks /\ o = At(Depth) /\ o # NULL BY <1>0, <1>1, OutIs, Levels DEF Turn
<1>4. GoodCell(c, o, Len(cells))
  <2>1. c.cap \in Nat /\ Len(c.items) = 0 BY DEF Cell
  <2> QED BY <2>1 DEF GoodCell, CellSound, Room
<1>5. /\ GoodHeap(cells') /\ Len(cells') = Len(cells) /\ cells'[o] = c
      /\ \A x \in Blocks : x # o => cells'[x] = cells[x]
  <2>2. o \in 1..Len(cells) BY <1>3 DEF Blocks
  <2>0. GoodHeap(cells) BY <1>1
  <2>3. GoodHeap(cells') BY <1>4, <2>0, <2>2, HeapWrite
  <2>4. Len(cells') = Len(cells) /\ cells'[o] = c BY <1>4, <2>0, <2>2, HeapWrite
  <2>5. \A x \in Blocks : x # o => cells'[x] = cells[x]
    BY <1>4, <2>0, <2>2, HeapWrite DEF Blocks
  <2> QED BY <2>3, <2>4, <2>5
<1>6. Owned'
  <2>1. Refs(cells'[o].buf) = {} BY <1>5 DEF Refs
  <2>2. /\ Len(cells) <= Len(cells') /\ cells'[At(Depth)].items = <<>>
        /\ Refs(cells'[At(Depth)].buf) = {} /\ live' = live \union {}
        /\ \A x \in Blocks : x # At(Depth) => cells'[x] = cells[x]
        /\ {} \cap Blocks = {} /\ stack' = stack
    BY <1>1, <1>3, <1>5, <2>1
  <2> QED BY <1>5, <2>2, OwnedWritten
<1>7. pc' = "returned" /\ lost' = {} /\ ~bad' BY <1>1 DEF Return
<1>8. Depth' = Depth /\ At(Depth)' = At(Depth) BY DEF Depth, At
<1>9. Turn' BY <1>3, <1>7, <1>8 DEF Turn
<1>10. live' \subseteq Blocks' BY <1>1, <1>5 DEF Blocks
<1>11. TypeOK /\ Parsing' /\ stack' \in Seq(Call) BY <1>1, <1>7 DEF PInv, Parsing
<1> QED BY <1>5, <1>6, <1>7, <1>9, <1>10, <1>11, Goes

(* The cell that a value is written to is Zero. *)
LEMMA OutIsZero ==
  ASSUME PInv, pc = "value"
  PROVE  Out \in Blocks /\ cells[Out] = Zero /\ cells \in Seq(Cell) /\ Zero \in Cell
<1>1. Parsing BY DEF Parsing
<1>2. Out = At(Depth) BY <1>1, OutIs
<1>3. Depth \in 0..Depth /\ GoodHeap(cells) BY <1>1, Levels
<1>4. Zero \in Cell BY ZeroIsGood DEF GoodCell
<1> QED BY <1>1, <1>2, <1>3, <1>4, Levels DEF Turn, GoodHeap

LEMMA StepLiteral == PInv /\ Next /\ ValueLiteral => PInv'
<1> SUFFICES ASSUME PInv, Next, ValueLiteral PROVE PInv' OBVIOUS
<1>1. pc = "value" /\ look \in Scalars /\ Return(TRUE) /\ UNCHANGED <<stack, live, bad>>
  BY DEF ValueLiteral
<1>2. PICK o, l : o = Out /\ l = look OBVIOUS
<1>3. o \in Blocks /\ cells[o] = Zero /\ cells \in Seq(Cell) BY <1>1, <1>2, OutIsZero
<1> DEFINE c == [Zero EXCEPT !.kind = "literal", !.text = l]
<1>4. c \in Cell /\ c.items = <<>> /\ c.buf = NULL
  <2>1. l \in Kinds BY <1>1, <1>2 DEF Kinds
  <2>2. <<>> \in Seq([key : Nat, value : Nat]) OBVIOUS
  <2> QED BY <2>1, <2>2 DEF Zero, Cell, NULL
<1>5. cells' = [cells EXCEPT ![o] = c]
  <2>1. cells' = [cells EXCEPT ![o].kind = "literal", ![o].text = l]
    BY <1>2 DEF ValueLiteral
  <2> QED BY <1>3, <2>1 DEF Blocks
<1> HIDE DEF c
<1> QED BY <1>1, <1>2, <1>4, <1>5, ValueWritten

(* Nothing is written: this was no value, or there is no memory. *)
LEMMA ValueNot ==
  ASSUME PInv, Next, pc = "value", HeapSame, UNCHANGED stack, NEW b, Return(b)
  PROVE  PInv'
<1>0. Parsing BY DEF Parsing
<1>1. Owned' BY <1>0, OwnedSame DEF HeapSame
<1>2. pc' = "returned" /\ lost' = {} /\ ~bad' /\ TypeOK
  BY <1>0, Levels DEF Return, PInv, HeapSame
<1>3. GoodHeap(cells') /\ stack' \in Seq(Call) /\ live' \subseteq Blocks'
  BY <1>0, Levels DEF Blocks, HeapSame
<1>4. Depth' = Depth /\ At(Depth)' = At(Depth) BY DEF Depth, At
<1>5. Turn' BY <1>0, <1>2, <1>4, Levels DEF Turn
<1>6. Parsing' BY <1>2 DEF Parsing
<1> QED BY <1>1, <1>2, <1>3, <1>5, <1>6, Goes

LEMMA StepUnexpected == PInv /\ Next /\ ValueUnexpected => PInv'
BY ValueNot DEF ValueUnexpected

LEMMA StepNumber == PInv /\ Next /\ ValueNumber => PInv'
<1> SUFFICES ASSUME PInv, Next, ValueNumber PROVE PInv' OBVIOUS
<1>1. pc = "value" /\ look \in Numbers /\ UNCHANGED <<stack, live, bad>>
  BY DEF ValueNumber
<1>2. CASE UNCHANGED cells /\ Return(FALSE) BY <1>1, <1>2, ValueNot DEF HeapSame
<1>3. CASE /\ cells' = [cells EXCEPT ![Out].kind = "number", ![Out].text = strtod[look]]
           /\ Return(TRUE)
  <2>2. PICK o, l : o = Out /\ l = strtod[look] OBVIOUS
  <2>3. o \in Blocks /\ cells[o] = Zero /\ cells \in Seq(Cell) BY <1>1, <2>2, OutIsZero
  <2> DEFINE c == [Zero EXCEPT !.kind = "number", !.text = l]
  <2>4. c \in Cell /\ c.items = <<>> /\ c.buf = NULL
    <3>1. l \in Doubles BY <1>1, <2>2, JsonAssumption
    <3>2. <<>> \in Seq([key : Nat, value : Nat]) OBVIOUS
    <3> QED BY <3>1, <3>2 DEF Zero, Cell, NULL
  <2>5. cells' = [cells EXCEPT ![o] = c]
    <3>1. cells' = [cells EXCEPT ![o].kind = "number", ![o].text = l]
      BY <1>3, <2>2
    <3> QED BY <2>3, <3>1 DEF Blocks
  <2> HIDE DEF c
  <2> QED BY <1>1, <1>3, <2>2, <2>4, <2>5, ValueWritten
<1> QED BY <1>2, <1>3 DEF ValueNumber

LEMMA StepOpen == PInv /\ Next /\ ValueOpen => PInv'
<1> SUFFICES ASSUME PInv, Next, ValueOpen PROVE PInv' OBVIOUS
<1>0. Parsing /\ pc = "value" BY DEF ValueOpen, Parsing
<1>1. /\ GoodHeap(cells) /\ Len(cells) \in Nat /\ live \subseteq Blocks
      /\ Depth \in 0..Depth /\ ~bad /\ lost = {}
  BY <1>0, Levels
<1>2. PICK o, l, k : o = Out /\ l = look /\ k = IF look = "{" THEN "object" ELSE "array"
  OBVIOUS
<1>3. o \in Blocks /\ o = At(Depth) /\ o # NULL /\ o \in Nat
  <2>1. o = At(Depth) BY <1>0, <1>2, OutIs
  <2>2. o \in Blocks /\ o # NULL BY <1>0, <1>1, <2>1, Levels DEF Turn
  <2> QED BY <2>1, <2>2 DEF Blocks
<1> DEFINE c == [Zero EXCEPT !.kind = k]
           t == [fn |-> l, out |-> o, elem |-> NULL, key |-> NULL]
<1>4. c \in Cell /\ c.items = <<>> /\ c.buf = NULL
  <2>1. k \in {"object", "array"} BY <1>2
  <2>2. <<>> \in Seq([key : Nat, value : Nat]) OBVIOUS
  <2> QED BY <2>1, <2>2 DEF Zero, Cell, NULL
<1>5. cells' = [cells EXCEPT ![o] = c] BY <1>2 DEF ValueOpen
<1>6. t \in Call /\ t.out = o /\ t.elem = NULL /\ t.key = NULL
  BY <1>2, <1>3 DEF Call, NULL, ValueOpen
<1>7. stack' = Append(stack, t) BY <1>2 DEF ValueOpen
<1> HIDE DEF c, t
<1>8. GoodCell(c, o, Len(cells))
  <2>1. c.cap \in Nat /\ Len(c.items) = 0 BY <1>4 DEF Cell
  <2> QED BY <1>4, <2>1 DEF GoodCell, CellSound, Room
<1>9. /\ GoodHeap(cells') /\ Len(cells') = Len(cells) /\ cells'[o] = c
      /\ \A x \in Blocks : x # o => cells'[x] = cells[x]
  <2>0. GoodHeap(cells) BY <1>1
  <2>2. o \in 1..Len(cells) BY <1>3 DEF Blocks
  <2>3. GoodHeap(cells') BY <1>5, <1>8, <2>0, <2>2, HeapWrite
  <2>4. Len(cells') = Len(cells) /\ cells'[o] = c BY <1>5, <1>8, <2>0, <2>2, HeapWrite
  <2>5. \A x \in Blocks : x # o => cells'[x] = cells[x]
    BY <1>5, <1>8, <2>0, <2>2, HeapWrite DEF Blocks
  <2> QED BY <2>3, <2>4, <2>5
<1>10. pc' = "first" /\ lost' = {} /\ ~bad' /\ live' = live BY <1>1 DEF ValueOpen, Go
<1>11. /\ Owned' /\ stack' \in Seq(Call) /\ Depth' > 0
       /\ At(Depth)' = NULL /\ KeyAt(Depth)' = NULL
  <2>1. /\ Len(cells) = Len(cells') /\ cells'[At(Depth)].items = <<>>
        /\ cells'[At(Depth)].buf = NULL /\ t.out = At(Depth)
        /\ \A x \in Blocks : x # At(Depth) => cells'[x] = cells[x]
    BY <1>3, <1>4, <1>6, <1>9
  <2> QED BY <1>0, <1>6, <1>7, <1>9, <1>10, <2>1, OwnedDeeper
<1>12. Turn' BY <1>10, <1>11 DEF Turn
<1>13. live' \subseteq Blocks' BY <1>1, <1>9, <1>10 DEF Blocks
<1>14. TypeOK /\ Parsing' BY <1>10 DEF PInv, Parsing
<1> QED BY <1>9, <1>10, <1>11, <1>12, <1>13, <1>14, Goes

LEMMA StepString == PInv /\ Next /\ ValueString => PInv'
<1> SUFFICES ASSUME PInv, Next, ValueString PROVE PInv' OBVIOUS
<1>0. Parsing /\ pc = "value" /\ look \in Strings /\ UNCHANGED <<stack, bad>>
  BY DEF ValueString, Parsing
<1>1. /\ GoodHeap(cells) /\ Len(cells) \in Nat /\ live \subseteq Blocks
      /\ Depth \in 0..Depth /\ ~bad /\ lost = {} /\ stack \in Seq(Call)
  BY <1>0, Levels
<1>2. PICK o, n : o = Out /\ n = New OBVIOUS
<1>3. /\ o \in Blocks /\ o = At(Depth) /\ o # NULL /\ cells[o] = Zero /\ cells \in Seq(Cell)
      /\ n = Len(cells) + 1 /\ n \in Nat /\ n # NULL /\ n \notin Blocks
  BY <1>0, <1>1, <1>2, OutIs, OutIsZero, Levels DEF Turn, Blocks, New, NULL
<1>4. CASE /\ cells' = [cells EXCEPT ![Out].kind = "string"]
           /\ UNCHANGED live /\ Return(FALSE)
  <2> DEFINE c == [Zero EXCEPT !.kind = "string"]
  <2>1. c \in Cell /\ c.items = <<>> /\ c.buf = NULL
    <3>1. <<>> \in Seq([key : Nat, value : Nat]) OBVIOUS
    <3> QED BY <3>1 DEF Zero, Cell, NULL
  <2>2. cells' = [cells EXCEPT ![o] = c]
    <3>1. cells' = [cells EXCEPT ![o].kind = "string"] BY <1>2, <1>4
    <3> QED BY <1>3, <3>1 DEF Blocks
  <2> HIDE DEF c
  <2> QED BY <1>0, <1>2, <1>4, <2>1, <2>2, ValueWritten
<1>5. CASE /\ cells' = Append([cells EXCEPT ![Out].kind = "string", ![Out].buf = New],
                              Bytes(look))
           /\ live' = live \union {New} /\ Return(TRUE)
  <2> DEFINE c == [Zero EXCEPT !.kind = "string", !.buf = n]
             d == Bytes(look)
  <2>1. c \in Cell /\ c.items = <<>> /\ c.buf = n /\ c.cap = 0
    <3>1. <<>> \in Seq([key : Nat, value : Nat]) OBVIOUS
    <3> QED BY <1>3, <3>1 DEF Zero, Cell, NULL
  <2>2. cells' = Append([cells EXCEPT ![o] = c], d)
    <3>1. [cells EXCEPT ![o].kind = "string", ![o].buf = n] = [cells EXCEPT ![o] = c]
      BY <1>3 DEF Blocks
    <3> QED BY <1>2, <1>5, <3>1
  <2>3. GoodCell(d, Len(cells) + 1, Len(cells) + 1)
    <3>1. look \in Kinds \union {""} BY <1>0 DEF Kinds
    <3>2. \A m \in Nat : GoodCell(Bytes(look), m, m) BY <3>1, ZeroIsGood
    <3>3. Len(cells) + 1 \in Nat BY <1>1
    <3> QED BY <3>2, <3>3
  <2> HIDE DEF c, d
  <2>4. GoodCell(c, o, Len(cells) + 1)
    <3>1. Len(c.items) = 0 /\ DOMAIN c.items = {} BY <2>1
    <3>2. n \in o+1 .. Len(cells)+1 BY <1>3 DEF Blocks
    <3> QED BY <2>1, <3>1, <3>2 DEF GoodCell, CellSound, Room
  <2>5. /\ GoodHeap(cells') /\ Len(cells') = Len(cells) + 1 /\ cells'[o] = c
        /\ \A x \in Blocks : x # o => cells'[x] = cells[x]
    <3>0. GoodHeap(cells) BY <1>1
    <3>1. o \in 1..Len(cells) BY <1>3 DEF Blocks
    <3>2. GoodHeap(cells') BY <2>2, <2>3, <2>4, <3>0, <3>1, HeapWriteAdd
    <3>3. Len(cells') = Len(cells) + 1 BY <2>2, <2>3, <2>4, <3>0, <3>1, HeapWriteAdd
    <3>4. cells'[o] = c BY <2>2, <2>3, <2>4, <3>0, <3>1, HeapWriteAdd
    <3>5. \A x \in 1..Len(cells) : x # o => cells'[x] = cells[x]
      BY <2>2, <2>3, <2>4, <3>0, <3>1, HeapWriteAdd
    <3> QED BY <3>2, <3>3, <3>4, <3>5 DEF Blocks
  <2>6. Owned'
    <3>1. Refs(cells'[At(Depth)].buf) = {n} BY <1>3, <2>1, <2>5 DEF Refs
    <3>2. /\ Len(cells) <= Len(cells') /\ cells'[At(Depth)].items = <<>>
          /\ live' = live \union {n}
          /\ \A x \in Blocks : x # At(Depth) => cells'[x] = cells[x]
          /\ {n} \cap Blocks = {}
      <4>1. live' = live \union {n} /\ {n} \cap Blocks = {} BY <1>2, <1>3, <1>5
      <4>2. Len(cells) <= Len(cells') BY <1>1, <2>5
      <4> QED BY <1>3, <2>1, <2>5, <4>1, <4>2
    <3> QED BY <1>0, <2>5, <3>1, <3>2, OwnedWritten
  <2>7. pc' = "returned" /\ lost' = {} /\ ~bad' BY <1>0, <1>1, <1>5 DEF Return
  <2>8. Depth' = Depth /\ At(Depth)' = At(Depth) BY <1>0 DEF Depth, At
  <2>9. Turn' BY <1>3, <2>7, <2>8 DEF Turn
  <2>10. live' \subseteq Blocks'
    <3>1. Blocks' = Blocks \union {n} BY <1>1, <1>3, <2>5 DEF Blocks
    <3>2. live' = live \union {n} BY <1>2, <1>5
    <3> QED BY <1>1, <3>1, <3>2
  <2>11. TypeOK /\ Parsing' /\ stack' \in Seq(Call) BY <1>0, <1>1, <2>7 DEF PInv, Parsing
  <2> QED BY <2>5, <2>6, <2>7, <2>9, <2>10, <2>11, Goes
<1> QED BY <1>4, <1>5 DEF ValueString

LEMMA StepFirst == PInv /\ Next /\ First => PInv'
<1> SUFFICES ASSUME PInv, Next, First PROVE PInv' OBVIOUS
<1>1. pc = "first" /\ HeapSame BY DEF First
<1>2. CASE Leave(TRUE) BY <1>1, <1>2, LeavesEmpty
<1>3. CASE Go("loop") /\ UNCHANGED stack
  <2>0. Parsing BY <1>1 DEF Parsing
  <2>1. Owned' BY <1>1, <1>3, <2>0, OwnedSame DEF HeapSame
  <2>2. pc' = "loop" /\ lost' = {} /\ ~bad' /\ TypeOK
    BY <1>1, <1>3, <2>0, Levels DEF Go, PInv, HeapSame
  <2>3. GoodHeap(cells') /\ stack' \in Seq(Call) /\ live' \subseteq Blocks'
    BY <1>1, <1>3, <2>0, Levels DEF Blocks, HeapSame
  <2>4. Depth' = Depth /\ At(Depth)' = At(Depth) /\ KeyAt(Depth)' = KeyAt(Depth)
    BY <1>3 DEF Depth, At, KeyAt
  <2>5. Turn' BY <1>1, <2>0, <2>2, <2>4, Levels DEF Turn
  <2>6. Parsing' BY <2>2 DEF Parsing
  <2> QED BY <2>1, <2>2, <2>3, <2>5, <2>6, Goes
<1> QED BY <1>2, <1>3 DEF First

LEMMA StepAfter == PInv /\ Next /\ After => PInv'
<1> SUFFICES ASSUME PInv, Next, After PROVE PInv' OBVIOUS
<1>1. pc = "after" /\ HeapSame BY DEF After
<1>2. CASE Leave(TRUE) \/ Leave(FALSE) BY <1>1, <1>2, LeavesEmpty
<1>3. CASE Go("loop") /\ UNCHANGED stack
  <2>0. Parsing BY <1>1 DEF Parsing
  <2>1. Owned' BY <1>1, <1>3, <2>0, OwnedSame DEF HeapSame
  <2>2. pc' = "loop" /\ lost' = {} /\ ~bad' /\ TypeOK
    BY <1>1, <1>3, <2>0, Levels DEF Go, PInv, HeapSame
  <2>3. GoodHeap(cells') /\ stack' \in Seq(Call) /\ live' \subseteq Blocks'
    BY <1>1, <1>3, <2>0, Levels DEF Blocks, HeapSame
  <2>4. Depth' = Depth /\ At(Depth)' = At(Depth) /\ KeyAt(Depth)' = KeyAt(Depth)
    BY <1>3 DEF Depth, At, KeyAt
  <2>5. Turn' BY <1>1, <2>0, <2>2, <2>4, Levels DEF Turn
  <2>6. Parsing' BY <2>2 DEF Parsing
  <2> QED BY <2>1, <2>2, <2>3, <2>5, <2>6, Goes
<1> QED BY <1>2, <1>3 DEF After

(* The three allocations of a single block. *)
LEMMA Allocates ==
  ASSUME PInv, Next, pc \in {"loop", "colon"},
         NEW c, GoodCell(c, New, New), c.items = <<>>, c.buf = NULL,
         cells' = Append(cells, c), live' = live \union {New}, UNCHANGED <<bad, lost>>,
         \/ /\ stack' = [stack EXCEPT ![Len(stack)].elem = New]
            /\ pc' = "value" /\ c = Zero
         \/ /\ stack' = [stack EXCEPT ![Len(stack)].key = New]
            /\ pc' = "colon" /\ pc = "loop"
  PROVE  PInv'
<1>0. Parsing BY DEF Parsing
<1>1. /\ Depth \in Nat /\ Depth > 0 /\ stack \in Seq(Call) /\ stack # <<>>
      /\ live \subseteq Blocks /\ Len(cells) \in Nat /\ ~bad /\ lost = {}
      /\ At(Depth) = NULL /\ (pc = "loop" => KeyAt(Depth) = NULL)
  BY <1>0, Levels DEF Turn, Depth
<1>2. Top \in Call /\ At(Depth) = Top.elem /\ KeyAt(Depth) = Top.key
  <2>1. Depth \in 1..Len(stack) /\ Depth # 0 BY <1>1 DEF Depth
  <2> QED BY <1>1, <2>1 DEF At, KeyAt, Top, Depth
<1>3. PICK n, z : n = New /\ z = Len(stack) OBVIOUS
<1>4. n \in Nat /\ n = Len(cells) + 1 /\ n # NULL BY <1>1, <1>3 DEF New, NULL
<1>5. z \in 1..Len(stack) /\ stack[z] = Top BY <1>1, <1>3 DEF Top, Depth
<1>6. live' \subseteq Blocks'
  <2>1. Len(cells') = Len(cells) + 1
    <3>1. cells \in Seq(Cell) BY <1>0, Levels DEF GoodHeap
    <3> QED BY <3>1
  <2>2. Blocks' = Blocks \union {n} BY <1>1, <1>4, <2>1 DEF Blocks
  <2> QED BY <1>1, <1>3, <2>2
<1>7. CASE /\ stack' = [stack EXCEPT ![Len(stack)].elem = New]
           /\ pc' = "value" /\ c = Zero
  <2> DEFINE t == [Top EXCEPT !.elem = n]
  <2>1. t \in Call /\ t.elem = n /\ t.key = Top.key /\ t.out = Top.out
    BY <1>2, <1>4 DEF Call
  <2>2. stack' = [stack EXCEPT ![z] = t] BY <1>3, <1>5, <1>7
  <2> HIDE DEF t
  <2>3. stack' = [stack EXCEPT ![Len(stack)] = t] /\ t.elem = New BY <1>3, <2>1, <2>2
  <2>4. /\ Owned' /\ stack' \in Seq(Call) /\ GoodHeap(cells') /\ cells'[New] = c
        /\ Depth' > 0 /\ At(Depth)' = t.elem
    BY <2>1, <2>3, OwnedNew
  <2>5. Turn' BY <1>3, <1>4, <1>7, <2>3, <2>4 DEF Turn
  <2>6. TypeOK /\ Parsing' /\ lost' = {} /\ ~bad' BY <1>1, <1>7 DEF PInv, Parsing
  <2> QED BY <1>6, <2>4, <2>5, <2>6, Goes
<1>8. CASE /\ stack' = [stack EXCEPT ![Len(stack)].key = New]
           /\ pc' = "colon" /\ pc = "loop"
  <2> DEFINE t == [Top EXCEPT !.key = n]
  <2>1. t \in Call /\ t.elem = Top.elem /\ t.key = n /\ t.out = Top.out
    BY <1>2, <1>4 DEF Call
  <2>2. stack' = [stack EXCEPT ![z] = t] BY <1>3, <1>5, <1>8
  <2> HIDE DEF t
  <2>3. /\ stack' = [stack EXCEPT ![Len(stack)] = t] /\ t.key = New
        /\ Top.key = NULL /\ t.elem = NULL
    BY <1>1, <1>2, <1>3, <1>8, <2>1, <2>2
  <2>4. /\ Owned' /\ stack' \in Seq(Call) /\ GoodHeap(cells')
        /\ Depth' > 0 /\ At(Depth)' = t.elem /\ KeyAt(Depth)' = t.key
    BY <2>1, <2>3, OwnedNew
  <2>5. Turn' BY <1>3, <1>4, <1>8, <2>3, <2>4 DEF Turn
  <2>6. TypeOK /\ Parsing' /\ lost' = {} /\ ~bad' BY <1>1, <1>8 DEF PInv, Parsing
  <2> QED BY <1>6, <2>4, <2>5, <2>6, Goes
<1> QED BY <1>7, <1>8

LEMMA NewCellIsGood ==
  ASSUME PInv, Parsing
  PROVE  /\ GoodCell(Zero, New, New) /\ Zero.items = <<>> /\ Zero.buf = NULL
         /\ \A t \in Kinds :
              GoodCell(Bytes(t), New, New) /\ Bytes(t).items = <<>> /\ Bytes(t).buf = NULL
<1>1. New \in Nat BY Levels DEF New
<1> QED BY <1>1, ZeroIsGood

LEMMA StepKey == PInv /\ Next /\ Key => PInv'
<1> SUFFICES ASSUME PInv, Next, Key PROVE PInv' OBVIOUS
<1>1. pc = "loop" /\ look \in Strings /\ UNCHANGED bad BY DEF Key
<1>0. Parsing BY <1>1 DEF Parsing
<1>2. CASE UNCHANGED <<cells, live>> /\ Leave(FALSE) BY <1>1, <1>2, LeavesEmpty DEF HeapSame
<1>3. CASE /\ cells' = Append(cells, Bytes(look)) /\ live' = live \union {New}
           /\ stack' = [stack EXCEPT ![Len(stack)].key = New] /\ Go("colon")
  <2>1. look \in Kinds BY <1>1 DEF Kinds
  <2>2. PICK c : c = Bytes(look) OBVIOUS
  <2>3. GoodCell(c, New, New) /\ c.items = <<>> /\ c.buf = NULL
    BY <1>0, <2>1, <2>2, NewCellIsGood
  <2>4. cells' = Append(cells, c) /\ pc' = "colon" /\ UNCHANGED <<bad, lost>>
    BY <1>1, <1>3, <2>2 DEF Go
  <2> QED BY <1>1, <1>3, <2>3, <2>4, Allocates
<1> QED BY <1>2, <1>3 DEF Key

LEMMA StepKeyNotString == PInv /\ Next /\ KeyNotString => PInv'
BY LeavesEmpty DEF KeyNotString

LEMMA StepElement == PInv /\ Next /\ Element => PInv'
<1> SUFFICES ASSUME PInv, Next, Element PROVE PInv' OBVIOUS
<1>1. pc = "loop" /\ UNCHANGED bad BY DEF Element
<1>0. Parsing BY <1>1 DEF Parsing
<1>2. CASE UNCHANGED <<cells, live>> /\ Leave(FALSE) BY <1>1, <1>2, LeavesEmpty DEF HeapSame
<1>3. CASE /\ cells' = Append(cells, Zero) /\ live' = live \union {New}
           /\ stack' = [stack EXCEPT ![Len(stack)].elem = New] /\ Go("value")
  <2>1. GoodCell(Zero, New, New) /\ Zero.items = <<>> /\ Zero.buf = NULL
    BY <1>0, NewCellIsGood
  <2>2. pc' = "value" /\ UNCHANGED <<bad, lost>> BY <1>1, <1>3 DEF Go
  <2> QED BY <1>1, <1>3, <2>1, <2>2, Allocates
<1> QED BY <1>2, <1>3 DEF Element

(* In "colon" the key is all that the call owns. *)
LEMMA OnlyKey ==
  ASSUME PInv, pc = "colon"
  PROVE  Parsing /\ stack # <<>> /\ Own(Depth) = {Top.key}
<1>1. Parsing BY DEF Parsing
<1>2. Depth > 0 /\ At(Depth) = NULL /\ KeyAt(Depth) # NULL /\ stack # <<>>
  BY <1>1, Levels DEF Turn, Depth
<1>3. Own(Depth) = Refs(KeyAt(Depth)) /\ KeyAt(Depth) = Top.key
  BY <1>1, <1>2, LocalsOwned DEF Own, TreeAt
<1> QED BY <1>1, <1>2, <1>3 DEF Refs

LEMMA StepColon == PInv /\ Next /\ Colon => PInv'
<1> SUFFICES ASSUME PInv, Next, Colon PROVE PInv' OBVIOUS
<1>1. pc = "colon" BY DEF Colon
<1>0. Parsing BY <1>1 DEF Parsing
<1>2. CASE Freed({Top.key}) /\ UNCHANGED cells /\ Leave(FALSE)
  BY <1>1, <1>2, OnlyKey, LeavesFreeing
<1>3. CASE /\ cells' = Append(cells, Zero) /\ live' = live \union {New}
           /\ stack' = [stack EXCEPT ![Len(stack)].elem = New] /\ Go("value") /\ UNCHANGED bad
  <2>1. GoodCell(Zero, New, New) /\ Zero.items = <<>> /\ Zero.buf = NULL
    BY <1>0, NewCellIsGood
  <2>2. pc' = "value" /\ UNCHANGED <<bad, lost>> BY <1>3 DEF Go
  <2> QED BY <1>1, <1>3, <2>1, <2>2, Allocates
<1> QED BY <1>2, <1>3 DEF Colon

LEMMA StepColonMissing == PInv /\ Next /\ ColonMissing => PInv'
BY OnlyKey, LeavesFreeing DEF ColonMissing

LEMMA StepElementFailed == PInv /\ Next /\ ElementFailed => PInv'
<1> SUFFICES ASSUME PInv, Next, ElementFailed PROVE PInv' OBVIOUS
<1>1. Parsing /\ stack # <<>> BY DEF ElementFailed, Parsing
<1>2. Own(Depth) = Locals BY <1>1, LocalsOwned
<1>3. Freed(Own(Depth)) /\ UNCHANGED cells /\ Leave(FALSE) BY <1>2 DEF ElementFailed
<1> QED BY <1>1, <1>3, LeavesFreeing

LEMMA StepPushFails == PInv /\ Next /\ PushFails => PInv'
<1> SUFFICES ASSUME PInv, Next, PushFails PROVE PInv' OBVIOUS
<1>1. Parsing /\ stack # <<>> BY DEF PushFails, Parsing
<1>2. Own(Depth) = Locals BY <1>1, LocalsOwned
<1>3. Freed(Own(Depth)) /\ UNCHANGED cells /\ Leave(FALSE) BY <1>2 DEF PushFails
<1> QED BY <1>1, <1>3, LeavesFreeing

(* The cell with one item more. *)
LEMMA OneMoreItem ==
  ASSUME NEW c \in Cell, NEW n \in Nat, NEW len \in Nat, n <= len, CellSound(c, n, len),
         NEW y \in {NULL} \union n+1..len, NEW e \in n+1..len,
         NEW p, p = [c EXCEPT !.items = Append(@, [key |-> y, value |-> e])]
  PROVE  /\ p \in Cell /\ CellSound(p, n, len)
         /\ p.items = Append(c.items, [key |-> y, value |-> e])
         /\ Len(p.items) = Len(c.items) + 1 /\ Len(c.items) \in Nat
         /\ p.buf = c.buf /\ p.cap = c.cap /\ c.cap \in Nat
         /\ c.items \in Seq([key : Nat, value : Nat])
<1> DEFINE item == [key |-> y, value |-> e]
           old  == c.items
           new  == Append(old, item)
<1>1. old \in Seq([key : Nat, value : Nat]) /\ c.cap \in Nat BY DEF Cell
<1>2. item \in [key : Nat, value : Nat] BY DEF NULL
<1>3. item.key = y /\ item.value = e OBVIOUS
<1>4. /\ p.items = new /\ p.buf = c.buf /\ p.cap = c.cap /\ p.kind = c.kind
      /\ p.text = c.text
  BY DEF Cell
<1>q. PICK i : i = item OBVIOUS
<1>r. PICK s : s = old OBVIOUS
<1>t. new = Append(s, i) BY <1>q, <1>r
<1>5. /\ new \in Seq([key : Nat, value : Nat]) /\ Len(new) = Len(old) + 1 /\ Len(old) \in Nat
      /\ DOMAIN new = 1..Len(old)+1 /\ DOMAIN old = 1..Len(old)
      /\ new[Len(old)+1] = item /\ \A k \in 1..Len(old) : new[k] = old[k]
  <2>1. i \in [key : Nat, value : Nat] /\ s \in Seq([key : Nat, value : Nat])
    BY <1>1, <1>2, <1>q, <1>r
  <2> HIDE DEF item, old, new
  <2>2. /\ Append(s, i) \in Seq([key : Nat, value : Nat])
        /\ Len(Append(s, i)) = Len(s) + 1 /\ Len(s) \in Nat
        /\ DOMAIN Append(s, i) = 1..Len(s)+1 /\ DOMAIN s = 1..Len(s)
        /\ Append(s, i)[Len(s)+1] = i /\ \A k \in 1..Len(s) : Append(s, i)[k] = s[k]
    BY <2>1
  <2> QED BY <1>q, <1>r, <1>t, <2>2
<1>6. p \in Cell
  <2>1. p = [c EXCEPT !.items = new] OBVIOUS
  <2> HIDE DEF new, old, item
  <2> QED BY <1>5, <2>1 DEF Cell
<1> HIDE DEF new, item
<1>7. ASSUME NEW k \in DOMAIN new
      PROVE  /\ new[k].key \in {NULL} \union n+1..len
             /\ new[k].value \in n+1..len
  <2>1. CASE k = Len(old) + 1 BY <1>3, <1>5, <2>1
  <2>2. CASE k \in DOMAIN old BY <1>5, <2>2 DEF CellSound
  <2> QED BY <1>5, <2>1, <2>2
<1>8. CellSound(p, n, len) BY <1>4, <1>7 DEF CellSound
<1>9. p.items = Append(c.items, [key |-> y, value |-> e]) BY <1>4 DEF new, item
<1> QED BY <1>1, <1>4, <1>5, <1>6, <1>8, <1>9

LEMMA StepPush == PInv /\ Next /\ Push => PInv'
<1> SUFFICES ASSUME PInv, Next, Push PROVE PInv' OBVIOUS
<1>0. Parsing /\ pc = "returned" /\ stack # <<>> /\ bad' = bad
  BY DEF Push, Parsing
<1>1. /\ GoodHeap(cells) /\ Len(cells) \in Nat /\ live \subseteq Blocks
      /\ Depth \in Nat /\ ~bad /\ lost = {} /\ stack \in Seq(Call) /\ Calls /\ Turn
      /\ cells \in Seq(Cell) /\ Sound(cells) /\ Depth > 0
  BY <1>0, Levels DEF GoodHeap, Depth
<1>2. PICK b, n, z, e, y : /\ b = Top.out /\ n = New /\ z = Len(stack)
                           /\ e = Top.elem /\ y = Top.key
  OBVIOUS
<1>3. b = At(Depth-1) /\ e = At(Depth) /\ y = KeyAt(Depth) /\ e # NULL
  BY <1>0, <1>1, <1>2, OutIs, LocalsOwned DEF Turn
<1>4. /\ b \in Blocks /\ b \in Nat /\ b # NULL /\ b <= Len(cells)
      /\ e \in b+1..Len(cells) /\ y \in {NULL} \union b+1..Len(cells)
  <2>1. Depth \in 1..Depth /\ Depth-1 \in 0..Depth /\ Depth-1 \in 0..Depth-1 BY <1>1
  <2>2. b # NULL /\ b \in {NULL} \union Blocks BY <1>0, <1>1, <1>3, <2>1, Levels DEF Calls
  <2>3. e \in {NULL} \union b+1..Len(cells) /\ y \in {NULL} \union b+1..Len(cells)
    BY <1>1, <1>3, <2>1 DEF Calls
  <2> QED BY <1>1, <1>3, <2>2, <2>3 DEF Blocks
<1>5. /\ n = Len(cells) + 1 /\ n \in Nat /\ n # NULL /\ n \notin Blocks
      /\ z \in 1..Len(stack) /\ stack[z] = Top /\ Top \in Call
  BY <1>1, <1>2 DEF New, NULL, Blocks, Top, Depth
<1> DEFINE t == [Top EXCEPT !.elem = NULL, !.key = NULL]
<1>6. t \in Call /\ t.out = Top.out /\ t.elem = NULL /\ t.key = NULL BY <1>5 DEF Call, NULL
<1>7. stack' = [stack EXCEPT ![Len(stack)] = t]
  <2>1. stack' = [stack EXCEPT ![z].elem = NULL, ![z].key = NULL] BY <1>2 DEF Push
  <2>2. stack' = [stack EXCEPT ![z] = t] BY <1>1, <1>5, <2>1
  <2> QED BY <1>2, <2>2
<1> HIDE DEF t
<1>8. PICK p : p = [cells[b] EXCEPT !.items = Append(@, [key |-> y, value |-> e])] OBVIOUS
<1>9. p = Pushed(b) BY <1>2, <1>8 DEF Pushed
<1>c. /\ cells[b] \in Cell /\ CellSound(cells[b], b, Len(cells)) /\ Room(cells[b])
  BY <1>1, <1>4 DEF Blocks, Sound, GoodHeap
<1>10. /\ p \in Cell /\ CellSound(p, b, Len(cells))
       /\ p.items = Append(cells[b].items, [key |-> y, value |-> e])
       /\ Len(p.items) = Len(cells[b].items) + 1 /\ Len(cells[b].items) \in Nat
       /\ p.buf = cells[b].buf /\ p.cap = cells[b].cap /\ cells[b].cap \in Nat
       /\ cells[b].items \in Seq([key : Nat, value : Nat])
  <2>0. b <= Len(cells) BY <1>4
  <2>1. p \in Cell /\ CellSound(p, b, Len(cells))
    BY <1>1, <1>4, <1>8, <1>c, <2>0, OneMoreItem
  <2>2. /\ p.items = Append(cells[b].items, [key |-> y, value |-> e])
        /\ Len(p.items) = Len(cells[b].items) + 1 /\ Len(cells[b].items) \in Nat
    <3>1. p.items = Append(cells[b].items, [key |-> y, value |-> e])
      BY <1>8, <1>c DEF Cell
    <3>2. PICK s, i : s = cells[b].items /\ i = [key |-> y, value |-> e] OBVIOUS
    <3>3. s \in Seq([key : Nat, value : Nat]) BY <1>c, <3>2 DEF Cell
    <3>4. Len(Append(s, i)) = Len(s) + 1 /\ Len(s) \in Nat BY <3>3
    <3> QED BY <3>1, <3>2, <3>4
  <2>3. p.buf = cells[b].buf /\ p.cap = cells[b].cap /\ cells[b].cap \in Nat
    BY <1>8, <1>c DEF Cell
  <2>4. cells[b].items \in Seq([key : Nat, value : Nat]) BY <1>c DEF Cell
  <2> QED BY <2>1, <2>2, <2>3, <2>4
<1>11. pc' = "after" /\ lost' = {} /\ ~bad' BY <1>0, <1>1 DEF Push, Go
<1>12. ASSUME GoodHeap(cells'), Owned', stack' \in Seq(Call), live' \subseteq Blocks',
              Depth' > 0 /\ At(Depth)' = NULL /\ KeyAt(Depth)' = NULL
       PROVE  PInv'
  <2>1. Turn' BY <1>11, <1>12 DEF Turn
  <2>2. TypeOK /\ Parsing' BY <1>11 DEF PInv, Parsing
  <2> QED BY <1>11, <1>12, <2>1, <2>2, Goes
<1>13. CASE ~Full(b) /\ cells' = [cells EXCEPT ![b] = Pushed(b)] /\ UNCHANGED live
  <2>1. GoodCell(p, b, Len(cells))
    <3>1. Len(p.items) <= p.cap BY <1>10, <1>13 DEF Full
    <3> QED BY <1>10, <3>1 DEF GoodCell, Room
  <2>2. cells' = [cells EXCEPT ![b] = p] BY <1>9, <1>13
  <2>3. /\ GoodHeap(cells') /\ Len(cells') = Len(cells) /\ cells'[b] = p
        /\ \A x \in Blocks : x # b => cells'[x] = cells[x]
    <3>0. GoodHeap(cells) BY <1>1
    <3>1. b \in 1..Len(cells) BY <1>4 DEF Blocks
    <3>2. GoodHeap(cells') BY <2>1, <2>2, <3>0, <3>1, HeapWrite
    <3>3. Len(cells') = Len(cells) /\ cells'[b] = p BY <2>1, <2>2, <3>0, <3>1, HeapWrite
    <3>4. \A x \in Blocks : x # b => cells'[x] = cells[x]
      BY <2>1, <2>2, <3>0, <3>1, HeapWrite DEF Blocks
    <3> QED BY <3>2, <3>3, <3>4
  <2>4. /\ Len(cells) <= Len(cells') /\ cells'[b].buf = cells[b].buf
        /\ cells'[b].items = Append(cells[b].items, [key |-> KeyAt(Depth), value |-> At(Depth)])
        /\ live' = (live \ {}) \union {}
    <3>1. Len(cells) <= Len(cells') BY <1>1, <2>3
    <3>2. cells'[b].buf = cells[b].buf BY <1>10, <2>3
    <3>3. cells'[b].items = Append(cells[b].items, [key |-> KeyAt(Depth), value |-> At(Depth)])
      BY <1>3, <1>10, <2>3
    <3>4. live' = (live \ {}) \union {} BY <1>13
    <3> QED BY <3>1, <3>2, <3>3, <3>4
  <2>5. /\ Owned' /\ stack' \in Seq(Call)
        /\ Depth' > 0 /\ At(Depth)' = NULL /\ KeyAt(Depth)' = NULL
    BY <1>0, <1>3, <1>6, <1>7, <1>10, <2>3, <2>4, OwnedPushed
  <2>6. live' \subseteq Blocks' BY <1>1, <1>13, <2>3 DEF Blocks
  <2> QED BY <1>12, <2>3, <2>5, <2>6
<1>14. CASE /\ Full(b)
            /\ cells' = Append([cells EXCEPT ![b] = [Pushed(b) EXCEPT !.buf = New,
                                  !.cap = IF @ = 0 THEN FIRST_CAP ELSE @ * 2]], Bytes(""))
            /\ live' = (live \ {cells[b].buf}) \union {New}
  <2> DEFINE d == Bytes("")
  <2>0. PICK cap : cap = IF p.cap = 0 THEN FIRST_CAP ELSE p.cap * 2 OBVIOUS
  <2> DEFINE q == [p EXCEPT !.buf = n, !.cap = cap]
  <2>1. q \in Cell /\ q.items = p.items /\ q.buf = n /\ q.cap = cap
    <3>1. cap \in Nat BY <1>10, <2>0, JsonAssumption
    <3>2. p \in Cell BY <1>10
    <3> QED BY <1>5, <3>1, <3>2 DEF Cell
  <2>2. cells' = Append([cells EXCEPT ![b] = q], d)
    <3>1. [p EXCEPT !.buf = n, !.cap = IF @ = 0 THEN FIRST_CAP ELSE @ * 2] = q BY <2>0
    <3> QED BY <1>2, <1>9, <1>14, <3>1
  <2>3. GoodCell(d, Len(cells) + 1, Len(cells) + 1)
    <3>1. \A m \in Nat : GoodCell(Bytes(""), m, m) BY ZeroIsGood
    <3>2. Len(cells) + 1 \in Nat BY <1>1
    <3> QED BY <3>1, <3>2
  <2> HIDE DEF q, d
  <2>4. GoodCell(q, b, Len(cells) + 1)
    <3>1. Len(q.items) <= q.cap
      <4>1. Len(cells[b].items) <= cells[b].cap BY <1>c DEF Room
      <4>2. Len(cells[b].items) >= cells[b].cap BY <1>14 DEF Full
      <4>3. FIRST_CAP \in Nat /\ FIRST_CAP > 0 BY JsonAssumption
      <4> QED BY <1>10, <2>0, <2>1, <4>1, <4>2, <4>3
    <3>2. n \in b+1 .. Len(cells)+1 BY <1>1, <1>4, <1>5
    <3>3. CellSound(p, b, Len(cells) + 1) BY <1>1, <1>4, <1>10, CellStaysSound
    <3>4. CellSound(q, b, Len(cells) + 1) BY <2>1, <3>2, <3>3 DEF CellSound
    <3> QED BY <2>1, <3>1, <3>4 DEF GoodCell, Room
  <2>5. /\ GoodHeap(cells') /\ Len(cells') = Len(cells) + 1 /\ cells'[b] = q
        /\ \A x \in Blocks : x # b => cells'[x] = cells[x]
    <3>0. GoodHeap(cells) BY <1>1
    <3>1. b \in 1..Len(cells) BY <1>4 DEF Blocks
    <3>2. GoodHeap(cells') BY <2>2, <2>3, <2>4, <3>0, <3>1, HeapWriteAdd
    <3>3. Len(cells') = Len(cells) + 1 BY <2>2, <2>3, <2>4, <3>0, <3>1, HeapWriteAdd
    <3>4. cells'[b] = q BY <2>2, <2>3, <2>4, <3>0, <3>1, HeapWriteAdd
    <3>5. \A x \in 1..Len(cells) : x # b => cells'[x] = cells[x]
      BY <2>2, <2>3, <2>4, <3>0, <3>1, HeapWriteAdd
    <3> QED BY <3>2, <3>3, <3>4, <3>5 DEF Blocks
  <2>6. live' = (live \ Refs(cells[b].buf)) \union {n}
    <3>1. NULL \notin live BY <1>1 DEF Blocks, NULL
    <3>2. live' = (live \ {cells[b].buf}) \union {n} BY <1>2, <1>14
    <3> QED BY <3>1, <3>2 DEF Refs
  <2>7. /\ Len(cells) <= Len(cells') /\ cells'[b].buf = New
        /\ cells'[b].items = Append(cells[b].items, [key |-> KeyAt(Depth), value |-> At(Depth)])
        /\ live' = (live \ Refs(cells[b].buf)) \union {New}
    <3>1. Len(cells) <= Len(cells') BY <1>1, <2>5
    <3> QED BY <1>2, <1>3, <1>10, <2>1, <2>5, <2>6, <3>1
  <2>8. /\ Owned' /\ stack' \in Seq(Call)
        /\ Depth' > 0 /\ At(Depth)' = NULL /\ KeyAt(Depth)' = NULL
    BY <1>0, <1>3, <1>6, <1>7, <1>10, <2>5, <2>7, OwnedPushed
  <2>9. live' \subseteq Blocks'
    <3>1. Blocks' = Blocks \union {n} BY <1>1, <1>5, <2>5 DEF Blocks
    <3> QED BY <1>1, <2>6, <3>1
  <2> QED BY <1>12, <2>5, <2>8, <2>9
<1>15. \/ ~Full(b) /\ cells' = [cells EXCEPT ![b] = Pushed(b)] /\ UNCHANGED live
       \/ /\ Full(b)
          /\ cells' = Append([cells EXCEPT ![b] = [Pushed(b) EXCEPT !.buf = New,
                                !.cap = IF @ = 0 THEN FIRST_CAP ELSE @ * 2]], Bytes(""))
          /\ live' = (live \ {cells[b].buf}) \union {New}
  BY <1>2 DEF Push
<1> QED BY <1>13, <1>14, <1>15

-----------------------------------------------------------------------------
(* main(): before the parser and after it. *)
LEMMA RootTreeIs ==
  /\ RootTree  = IF pc \in {"start", "done"} THEN {} ELSE Trees(cells)[root]
  /\ RootTree' = IF pc' \in {"start", "done"} THEN {} ELSE Trees(cells')[root]
<1>1. root # NULL BY DEF root, NULL
<1>2. Tree(root) = Trees(cells)[root]
  BY <1>1, Zenon DEF Tree, Trees, IsTrees, Body, Inner, Refs, Blocks
<1>3. Tree(root)' = Trees(cells')[root]
  BY <1>1, Zenon DEF Tree, Trees, IsTrees, Body, Inner, Refs, Blocks, root
<1> QED BY <1>2, <1>3 DEF RootTree

LEMMA Finishes ==
  ASSUME TypeOK, Next, GoodHeap(cells'), stack' = <<>>, live' \subseteq Blocks',
         lost' \subseteq Blocks', pc' \in {"free", "done"}, Afterwards'
  PROVE  PInv'
<1>1. Plain' BY NextPlain
<1>2. /\ cells' \in Seq(Cell) /\ Sound(cells')
      /\ \A b \in Blocks' : Len(cells'[b].items) <= cells'[b].cap
  BY DEF GoodHeap, Room, Blocks
<1>3. /\ pc' \in {"start", "value", "first", "loop", "colon", "returned", "after",
                  "free", "done"}
      /\ pc' # "start" /\ ~Parsing'
  BY DEF Parsing
<1>4. stack' \in Seq([fn : {"{", "["}, out : Nat, elem : Nat, key : Nat]) OBVIOUS
<1>5. TypeOK' BY <1>1, <1>2, <1>3, <1>4 DEF TypeOK, Plain
<1> QED BY <1>2, <1>3, <1>5 DEF PInv

LEMMA StepStart == PInv /\ Next /\ Start => PInv'
<1> SUFFICES ASSUME PInv, Next, Start PROVE PInv' OBVIOUS
<1>1. /\ pc = "start" /\ cells = <<>> /\ stack = <<>> /\ live = {} /\ lost = {} /\ ~bad
      /\ TypeOK
  BY DEF Start, PInv
<1>2. CASE /\ cells' = <<Zero>> /\ live' = {root} /\ UNCHANGED bad
           /\ Go("value") /\ UNCHANGED stack
  <2>0. \A m \in Nat : \A l \in Nat : GoodCell(Zero, m, l) BY ZeroIsGood
  <2>1. /\ Len(cells') = 1 /\ cells'[1] = Zero /\ cells' \in Seq(Cell)
    <3>1. Zero \in Cell BY <2>0 DEF GoodCell
    <3> QED BY <1>2, <3>1
  <2>2. GoodHeap(cells')
    <3>1. \A b \in 1..Len(cells') : GoodCell(cells'[b], b, Len(cells')) BY <2>0, <2>1
    <3> QED BY <2>1, <3>1 DEF GoodHeap, GoodCell, Sound
  <2>3. stack' = <<>> /\ Depth' = 0 /\ At(0)' = root /\ KeyAt(0)' = NULL
    BY <1>1, <1>2 DEF Depth, At, KeyAt
  <2>4. Own(0)' = {root}
    <3>1. Trees(cells')[1] = {1} \union Refs(cells'[1].buf)
      <4>1. Sound(cells') /\ 1 \in 1..Len(cells') BY <2>1, <2>2 DEF GoodHeap
      <4>2. cells'[1].items = <<>>
        <5>1. cells'[1] = Zero BY <2>1
        <5>2. Zero.items = <<>> BY DEF Zero
        <5> QED BY <5>1, <5>2
      <4> QED BY <4>1, <4>2, LeafTree
    <3>2. cells'[1].buf = NULL
      <4>1. cells'[1] = Zero BY <2>1
      <4>2. Zero.buf = NULL BY DEF Zero
      <4> QED BY <4>1, <4>2
    <3>3. TreeAt(cells', root) = {root} BY <3>1, <3>2 DEF TreeAt, Refs, root, NULL
    <3> QED BY <2>3, <3>3 DEF Own, Refs
  <2>5. Share(Owns, Depth, live)'
    <3>1. 0..0 = {0} OBVIOUS
    <3>2. Owns' = [k \in {0} |-> Own(k)'] BY <2>3, <3>1 DEF Owns
    <3>3. Owns'[0] = {root} BY <2>4, <3>2
    <3>4. live' = {root} BY <1>2
    <3>5. Share(Owns', 0, live') BY <3>1, <3>3, <3>4 DEF Share
    <3> QED BY <2>3, <3>5
  <2>6. Calls' /\ ArrayApart'
    <3>1. 1..0 = {} /\ 0..0-1 = {} /\ root \in 1..1 BY DEF root
    <3> QED BY <2>1, <2>3, <3>1 DEF Calls, ArrayApart, Blocks
  <2>7. pc' = "value" /\ lost' = {} /\ ~bad' BY <1>1, <1>2 DEF Go
  <2>8. Turn'
    <3>1. At(Depth)' = 1 BY <2>3 DEF root
    <3> QED BY <2>1, <2>7, <3>1 DEF Turn, NULL
  <2>9. Owned' /\ Parsing' BY <2>5, <2>6, <2>7 DEF Owned, Parsing
  <2>10. live' \subseteq Blocks' BY <1>2, <2>1 DEF Blocks, root
  <2>11. stack' \in Seq(Call) BY <2>3
  <2> QED BY <1>1, <2>2, <2>7, <2>8, <2>9, <2>10, <2>11, Goes
<1>3. CASE pc' = "done" /\ HeapSame /\ UNCHANGED <<stack, lost>>
  <2>1. GoodHeap(cells') /\ live' = {} /\ lost' = {} /\ stack' = <<>> /\ ~bad'
    BY <1>1, <1>3, PInvFacts DEF HeapSame
  <2>2. RootTree' = {} BY <1>3, RootTreeIs
  <2>3. Afterwards' BY <1>3, <2>1, <2>2 DEF Afterwards
  <2> QED BY <1>1, <1>3, <2>1, <2>3, Finishes
<1> QED BY <1>2, <1>3 DEF Start

(* When the last call has returned, the root's tree is all there is. *)
LEMMA AllIsRoots ==
  ASSUME PInv, Ended
  PROVE  /\ stack = <<>> /\ GoodHeap(cells) /\ Len(cells) \in Nat /\ root \in Blocks
         /\ live = Trees(cells)[root] /\ root \in live /\ live \subseteq Blocks
         /\ lost = {} /\ ~bad /\ TypeOK
<1>1. pc = "returned" /\ stack = <<>> /\ Parsing BY DEF Ended, Parsing
<1>2. Depth = 0 /\ At(0) = root /\ KeyAt(0) = NULL BY <1>1 DEF Depth, At, KeyAt
<1>3. /\ GoodHeap(cells) /\ Len(cells) \in Nat /\ live \subseteq Blocks /\ ~bad /\ lost = {}
      /\ Calls /\ Share(Owns, Depth, live) /\ 0 \in 0..Depth
  BY <1>1, <1>2, Levels
<1>4. root # NULL /\ Own(0) = Trees(cells)[root]
  BY <1>2 DEF Own, TreeAt, Refs, root, NULL
<1>5. root \in live
  <2>1. At(0) \in Own(0) /\ Own(0) \subseteq live BY <1>1, <1>2, <1>3, <1>4, Levels
  <2> QED BY <1>2, <2>1
<1>6. live = Own(0)
  <2>1. 0..0 = {0} OBVIOUS
  <2>2. live = Owns[0] BY <1>2, <1>3, <2>1 DEF Share
  <2>3. Owns[0] = Own(0) BY <1>2, <2>1 DEF Owns
  <2> QED BY <2>2, <2>3
<1> QED BY <1>1, <1>3, <1>4, <1>5, <1>6 DEF Calls, PInv

(* The root overwritten with Zero is a heap again. *)
LEMMA RootZeroed ==
  ASSUME GoodHeap(cells), root \in Blocks, cells' = [cells EXCEPT ![root] = Zero]
  PROVE  GoodHeap(cells') /\ Blocks' = Blocks /\ Trees(cells')[root] = {root}
<1>1. PICK r : r = root OBVIOUS
<1>2. r \in 1..Len(cells) /\ Len(cells) \in Nat /\ r \in Nat
  BY <1>1 DEF Blocks, GoodHeap, root
<1>3. GoodCell(Zero, r, Len(cells)) /\ Zero.items = <<>> /\ Zero.buf = NULL
  BY <1>2, ZeroIsGood
<1>4. PICK z, new : z = Zero /\ new = cells' OBVIOUS
<1>5. GoodHeap(new) /\ Len(new) = Len(cells) /\ new[r] = z
  <2>1. new = [cells EXCEPT ![r] = z] BY <1>1, <1>4
  <2>2. GoodCell(z, r, Len(cells)) BY <1>3, <1>4
  <2>3. r \in 1..Len(cells) BY <1>2
  <2>4. GoodHeap(new) BY <2>1, <2>2, <2>3, HeapWrite
  <2>5. Len(new) = Len(cells) /\ new[r] = z BY <2>1, <2>2, <2>3, HeapWrite
  <2> QED BY <2>4, <2>5
<1>6. GoodHeap(cells') /\ Len(cells') = Len(cells) /\ cells'[r] = Zero BY <1>4, <1>5
<1>7. Trees(cells')[r] = {r} \union Refs(NULL)
  <2>1. Sound(cells') /\ r \in 1..Len(cells') BY <1>2, <1>6 DEF GoodHeap
  <2> QED BY <1>3, <1>6, <2>1, LeafTree
<1> QED BY <1>1, <1>6, <1>7 DEF Refs, Blocks

LEMMA StepParseFailed == PInv /\ Next /\ ParseFailed => PInv'
<1> SUFFICES ASSUME PInv, Next, ParseFailed PROVE PInv' OBVIOUS
<1>1. Ended BY DEF ParseFailed
<1>2. /\ pc' = "free" /\ rc' = 1 /\ stack' = stack /\ live' = live /\ bad' = bad
      /\ cells' = [cells EXCEPT ![root] = Zero] /\ lost' = Tree(root) \ {root}
  BY DEF ParseFailed
<1>3. Tree(root) = Trees(cells)[root] BY TreeIs DEF root, NULL
<1>4. GoodHeap(cells') /\ Blocks' = Blocks /\ Trees(cells')[root] = {root}
  BY <1>1, <1>2, AllIsRoots, RootZeroed
<1>5. RootTree' = {root} BY <1>2, <1>4, RootTreeIs
<1>6. /\ stack' = <<>> /\ ~bad' /\ live' = Tree(root) /\ root \in Blocks /\ live \subseteq Blocks
      /\ root \in live
  BY <1>1, <1>2, <1>3, AllIsRoots
<1>7. Afterwards' BY <1>2, <1>4, <1>5, <1>6 DEF Afterwards, root
<1>8. live' \subseteq Blocks' /\ lost' \subseteq Blocks' BY <1>2, <1>4, <1>6
<1> QED BY <1>1, <1>2, <1>4, <1>6, <1>7, <1>8, AllIsRoots, Finishes

LEMMA StepTrailingData == PInv /\ Next /\ TrailingData => PInv'
<1> SUFFICES ASSUME PInv, Next, TrailingData PROVE PInv' OBVIOUS
<1>1. Ended BY DEF TrailingData
<1>2. /\ pc' = "free" /\ rc' = 1 /\ UNCHANGED <<stack, lost, ok, doc>>
      /\ cells' = [cells EXCEPT ![root] = Zero] /\ live' = live \ Tree(root)
      /\ ok /\ look # EOF
  BY DEF TrailingData
<1>3. Tree(root) = Trees(cells)[root] BY TreeIs DEF root, NULL
<1>4. live' = {} BY <1>1, <1>2, <1>3, AllIsRoots
<1>5. bad'
  <2>1. bad' = (bad \/ ~(Tree(root) \subseteq live) \/ root \notin live')
    BY DEF TrailingData
  <2> QED BY <1>4, <2>1
<1>6. GoodHeap(cells') /\ Blocks' = Blocks BY <1>1, <1>2, AllIsRoots, RootZeroed
<1>7. stack' = <<>> /\ lost' = {} /\ root \in Blocks' BY <1>1, <1>2, <1>6, AllIsRoots
<1>8. look' = look BY <1>2 DEF look
<1>9. Afterwards' BY <1>2, <1>5, <1>7, <1>8 DEF Afterwards, root
<1> QED BY <1>1, <1>2, <1>4, <1>6, <1>7, <1>9, AllIsRoots, Finishes

LEMMA StepParsed == PInv /\ Next /\ Parsed => PInv'
<1> SUFFICES ASSUME PInv, Next, Parsed PROVE PInv' OBVIOUS
<1>1. Ended /\ pc' = "free" /\ HeapSame /\ UNCHANGED <<stack, lost>> BY DEF Parsed
<1>2. /\ stack' = <<>> /\ ~bad' /\ lost' = {} /\ live' = Trees(cells')[root]
      /\ GoodHeap(cells') /\ root \in Blocks' /\ live' \subseteq Blocks' /\ TypeOK
  BY <1>1, AllIsRoots DEF HeapSame, Blocks
<1>3. RootTree' = live' BY <1>1, <1>2, RootTreeIs
<1>4. Afterwards' BY <1>2, <1>3 DEF Afterwards, root
<1> QED BY <1>1, <1>2, <1>4, Finishes

LEMMA StepMainFree == PInv /\ Next /\ MainFree => PInv'
<1> SUFFICES ASSUME PInv, Next, MainFree PROVE PInv' OBVIOUS
<1>1. /\ pc = "free" /\ pc' = "done" /\ Freed(Tree(root))
      /\ UNCHANGED <<cells, doc, stack, ok, lost, rc>>
  BY DEF MainFree
<1>2. Afterwards /\ TypeOK BY <1>1 DEF PInv
<1>3. RootTree = Tree(root) BY <1>1 DEF RootTree
<1>4. RootTree' = {} BY <1>1, RootTreeIs
<1>5. live' = live \ Tree(root) /\ (bad' <=> bad \/ ~(Tree(root) \subseteq live))
  BY <1>1 DEF Freed
<1>6. bad' <=> bad BY <1>2, <1>3, <1>5 DEF Afterwards
<1>7. look' = look BY <1>1 DEF look
<1>8. ~bad' => /\ live' = RootTree' \union lost'
               /\ RootTree' \cap lost' = {}
               /\ lost' # {} => rc' = 1
  BY <1>1, <1>2, <1>3, <1>4, <1>5, <1>6 DEF Afterwards
<1>9. Afterwards'
  <2>1. bad' => ok' /\ look' # EOF /\ rc' = 1 BY <1>1, <1>2, <1>6, <1>7 DEF Afterwards
  <2>2. stack' = <<>> /\ pc' # "free" BY <1>1, <1>2 DEF Afterwards
  <2> QED BY <1>8, <2>1, <2>2 DEF Afterwards
<1>10. GoodHeap(cells') /\ live' \subseteq Blocks' /\ lost' \subseteq Blocks' /\ stack' = <<>>
  BY <1>1, <1>2, <1>5, PInvFacts DEF Blocks, Afterwards
<1> QED BY <1>1, <1>2, <1>9, <1>10, Finishes

-----------------------------------------------------------------------------
(* PInv is inductive.                                                      *)
LEMMA InitPInv == Init => PInv
<1> SUFFICES ASSUME Init PROVE PInv OBVIOUS
<1>1. /\ doc = <<>> /\ pc = "start" /\ stack = <<>> /\ ok = FALSE /\ cells = <<>>
      /\ live = {} /\ bad = FALSE /\ lost = {} /\ fails = 0 /\ rc = 0
  BY DEF Init
<1>2. TypeOK
  <2>1. fails \in 0..MaxFails BY <1>1, JsonAssumption
  <2>2. /\ doc \in Seq(Kinds \union {EOF}) /\ cells \in Seq(Cell)
        /\ stack \in Seq([fn : {"{", "["}, out : Nat, elem : Nat, key : Nat])
    BY <1>1
  <2>3. Blocks = {} BY <1>1 DEF Blocks
  <2> QED BY <1>1, <2>1, <2>2, <2>3 DEF TypeOK
<1>3. Sound(cells) BY <1>1 DEF Sound
<1> QED BY <1>1, <1>2, <1>3 DEF PInv, Parsing

LEMMA NextPInv == PInv /\ [Next]_vars => PInv'
<1> SUFFICES ASSUME PInv, [Next]_vars PROVE PInv' OBVIOUS
<1>1. CASE Next
  <2>1. \/ Start
        \/ ValueOpen \/ ValueString \/ ValueNumber \/ ValueLiteral \/ ValueUnexpected
        \/ First \/ Key \/ KeyNotString \/ Colon \/ ColonMissing \/ Element
        \/ ElementFailed \/ Push \/ PushFails \/ After
        \/ ParseFailed \/ TrailingData \/ Parsed \/ MainFree
    BY <1>1 DEF Next
  <2>2. CASE Start BY <1>1, <2>2, StepStart
  <2>3. CASE ValueOpen BY <1>1, <2>3, StepOpen
  <2>4. CASE ValueString BY <1>1, <2>4, StepString
  <2>5. CASE ValueNumber BY <1>1, <2>5, StepNumber
  <2>6. CASE ValueLiteral BY <1>1, <2>6, StepLiteral
  <2>7. CASE ValueUnexpected BY <1>1, <2>7, StepUnexpected
  <2>8. CASE First BY <1>1, <2>8, StepFirst
  <2>9. CASE Key BY <1>1, <2>9, StepKey
  <2>10. CASE KeyNotString BY <1>1, <2>10, StepKeyNotString
  <2>11. CASE Colon BY <1>1, <2>11, StepColon
  <2>12. CASE ColonMissing BY <1>1, <2>12, StepColonMissing
  <2>13. CASE Element BY <1>1, <2>13, StepElement
  <2>14. CASE ElementFailed BY <1>1, <2>14, StepElementFailed
  <2>15. CASE Push BY <1>1, <2>15, StepPush
  <2>16. CASE PushFails BY <1>1, <2>16, StepPushFails
  <2>17. CASE After BY <1>1, <2>17, StepAfter
  <2>18. CASE ParseFailed BY <1>1, <2>18, StepParseFailed
  <2>19. CASE TrailingData BY <1>1, <2>19, StepTrailingData
  <2>20. CASE Parsed BY <1>1, <2>20, StepParsed
  <2>21. CASE MainFree BY <1>1, <2>21, StepMainFree
  <2> QED BY <2>1, <2>2, <2>3, <2>4, <2>5, <2>6, <2>7, <2>8, <2>9, <2>10, <2>11, <2>12,
             <2>13, <2>14, <2>15, <2>16, <2>17, <2>18, <2>19, <2>20, <2>21
<1>2. CASE UNCHANGED vars
  <2>1. UNCHANGED <<doc, pc, stack, ok, cells, live, bad, lost, fails, rc>>
    BY <1>2 DEF vars
  <2>2. Depth' = Depth /\ \A k : At(k)' = At(k) /\ KeyAt(k)' = KeyAt(k)
    BY <2>1 DEF Depth, At, KeyAt
  <2>3. CASE Parsing
    <3>1. Owned' BY <2>1, <2>3, OwnedSame
    <3>2. Turn /\ ~bad /\ lost = {} BY <2>3, Levels
    <3>3. Turn' BY <2>1, <2>2, <3>2 DEF Turn
    <3>4. TypeOK' /\ Sound(cells') BY <2>1 DEF PInv, TypeOK, Blocks
    <3> QED BY <2>1, <2>3, <3>1, <3>2, <3>3, <3>4 DEF PInv, Parsing, Owned
  <2>4. CASE ~Parsing
    <3>1. TypeOK' /\ Sound(cells') BY <2>1 DEF PInv, TypeOK, Blocks
    <3>2. ~Parsing' BY <2>1, <2>4 DEF Parsing
    <3>3. RootTree' = RootTree BY <2>1, RootTreeIs
    <3>4. look' = look BY <2>1 DEF look
    <3>5. Afterwards => Afterwards' BY <2>1, <3>3, <3>4 DEF Afterwards, Blocks, root
    <3> QED BY <2>1, <3>1, <3>2, <3>5 DEF PInv
  <2> QED BY <2>3, <2>4
<1> QED BY <1>1, <1>2

LEMMA PInvHolds == Spec => []PInv
BY InitPInv, NextPInv, PTL DEF Spec

(* Every variable has its type in every reachable state; in particular no  *)
(* array or object holds more items than it has room for (arr_push,        *)
(* obj_push), whatever FIRST_CAP is.                                       *)
THEOREM ParserTypeCorrect == Spec => []TypeOK
<1>1. PInv => TypeOK BY DEF PInv
<1> QED BY <1>1, PInvHolds, PTL

LEMMA PInvOwner == PInv => OneOwner
<1> SUFFICES ASSUME PInv, ~bad
             PROVE  /\ live = RootTree \union lost \union UNION {Held(k) : k \in DOMAIN stack}
                    /\ RootTree \cap lost = {}
                    /\ \A k \in DOMAIN stack :
                         /\ Held(k) \cap (RootTree \union lost) = {}
                         /\ \A n \in 1..k-1 : Held(k) \cap Held(n) = {}
                    /\ lost # {} => rc = 1
  BY DEF OneOwner
<1>1. CASE pc = "start"
  <2>1. stack = <<>> /\ live = {} /\ lost = {} BY <1>1 DEF PInv
  <2>2. RootTree = {} BY <1>1, RootTreeIs
  <2> QED BY <2>1, <2>2
<1>2. CASE Parsing
  <2>1. /\ Depth \in Nat /\ lost = {} /\ DOMAIN stack = 1..Depth
        /\ Share(Owns, Depth, live) /\ \A k \in 0..Depth : Owns[k] = Own(k)
    BY <1>2, Levels DEF Depth
  <2>2. RootTree = Own(0)
    <3>1. pc \notin {"start", "done"} BY <1>2 DEF Parsing
    <3> QED BY <3>1, RootTreeIs DEF Own, At, KeyAt, TreeAt, Refs, root, NULL
  <2>3. \A k \in 1..Depth : Held(k) = Own(k)
    <3> SUFFICES ASSUME NEW k \in 1..Depth PROVE Held(k) = Own(k) OBVIOUS
    <3>1. At(k) = stack[k].elem /\ KeyAt(k) = stack[k].key BY <2>1 DEF At, KeyAt
    <3>2. Tree(stack[k].elem) = TreeAt(cells, stack[k].elem) BY TreeIs DEF TreeAt
    <3> QED BY <3>1, <3>2 DEF Own, Held, Refs
  <2>4. live = Own(0) \union UNION {Own(k) : k \in 1..Depth}
    <3>1. 0..Depth = {0} \union 1..Depth BY <2>1
    <3> QED BY <2>1, <3>1 DEF Share
  <2>5. \A k, l \in 0..Depth : k # l => Own(k) \cap Own(l) = {} BY <2>1 DEF Share
  <2>6. ASSUME NEW k \in 1..Depth
        PROVE  /\ Held(k) \cap RootTree = {}
               /\ \A n \in 1..k-1 : Held(k) \cap Held(n) = {}
    <3>1. Held(k) \cap RootTree = {} BY <2>1, <2>2, <2>3, <2>5
    <3>2. ASSUME NEW n \in 1..k-1 PROVE Held(k) \cap Held(n) = {}
      <4>1. n \in 1..Depth /\ n \in 0..Depth /\ k \in 0..Depth /\ n # k BY <2>1
      <4> QED BY <2>3, <2>5, <4>1
    <3> QED BY <3>1, <3>2
  <2>7. UNION {Held(k) : k \in DOMAIN stack} = UNION {Own(k) : k \in 1..Depth}
    BY <2>1, <2>3
  <2> QED BY <2>1, <2>2, <2>4, <2>6, <2>7
<1>3. CASE pc \in {"free", "done"}
  <2>1. Afterwards BY <1>3 DEF PInv
  <2>2. stack = <<>> BY <2>1 DEF Afterwards
  <2>3. UNION {Held(k) : k \in DOMAIN stack} = {} BY <2>2
  <2> QED BY <2>1, <2>2, <2>3 DEF Afterwards
<1>4. pc = "start" \/ Parsing \/ pc \in {"free", "done"} BY DEF PInv, TypeOK, Parsing
<1> QED BY <1>1, <1>2, <1>3, <1>4

(* Whatever document is read and whichever allocations fail, as long as    *)
(* nothing was freed twice each live block has exactly one owner (the      *)
(* cleanup before every return 0 of parse_object and parse_array).         *)
THEOREM EveryBlockOwned == Spec => []OneOwner
BY PInvHolds, PInvOwner, PTL

(* What goes wrong, if anything does: something follows a complete value.  *)
BadOnlyAfterValue ==
  bad => pc \in {"free", "done"} /\ ok /\ look # EOF /\ rc = 1

LEMMA BadAfterValue == PInv => BadOnlyAfterValue
<1> SUFFICES ASSUME PInv, bad PROVE pc \in {"free", "done"} /\ ok /\ look # EOF /\ rc = 1
  BY DEF BadOnlyAfterValue
<1>1. pc = "start" \/ Parsing \/ pc \in {"free", "done"} BY DEF PInv, TypeOK, Parsing
<1>2. pc \in {"free", "done"} BY <1>1 DEF PInv
<1> QED BY <1>2 DEF PInv, Afterwards

(* A document in which nothing follows the value, or which is rejected     *)
(* before, makes the program free no block twice and touch none that is    *)
(* freed: the only double free is the one at the end of parser_parse.      *)
THEOREM MemorySafeButForTrailingData == Spec => []BadOnlyAfterValue
BY PInvHolds, BadAfterValue, PTL

(* Nothing is left when main() returns 0.                                  *)
NothingLeaks == pc = "done" /\ rc = 0 => live = {}

(* A successful run frees every block it allocated (jv_free in main()).    *)
THEOREM SuccessFreesAll == Spec => []NothingLeaks
<1>1. PInv => NothingLeaks
  <2> SUFFICES ASSUME PInv, pc = "done", rc = 0 PROVE live = {} BY DEF NothingLeaks
  <2>1. Afterwards BY DEF PInv
  <2>2. ~bad /\ RootTree = {} /\ lost = {} BY <2>1, RootTreeIs DEF Afterwards
  <2> QED BY <2>1, <2>2 DEF Afterwards
<1> QED BY <1>1, PInvHolds, PTL

(* The cell that is filled in, the container and the value that are joined *)
(* by arr_push or obj_push, the key that is freed, and all that is printed *)
(* are live.                                                               *)
TouchesLive ==
  /\ pc = "value" => Out \in live
  /\ Parsing /\ stack # <<>> => Top.out \in live
  /\ pc = "returned" /\ stack # <<>> => Top.elem \in live
  /\ pc = "colon" => Top.key \in live
  /\ pc = "free" /\ rc = 0 => Tree(root) \subseteq live

(* The parser and the printing never use a block that was freed: the       *)
(* pointers of every call in progress stay valid while inner calls grow    *)
(* and move arrays (realloc in arr_push and obj_push).                     *)
THEOREM OnlyLiveBlocksTouched == Spec => []TouchesLive
<1>1. PInv => TouchesLive
  <2> SUFFICES ASSUME PInv PROVE TouchesLive OBVIOUS
  <2>1. ASSUME Parsing, NEW k \in 0..Depth, At(k) # NULL PROVE At(k) \in live
    BY <2>1, Levels
  <2>2. ASSUME pc = "value" PROVE Out \in live
    <3>1. Parsing BY <2>2 DEF Parsing
    <3>2. Depth \in 0..Depth /\ At(Depth) # NULL BY <2>2, <3>1, Levels DEF Turn
    <3> QED BY <2>1, <3>1, <3>2, OutIs
  <2>3. ASSUME Parsing, stack # <<>> PROVE Top.out \in live
    <3>1. Depth \in Nat /\ Depth > 0 BY <2>3, Levels, LocalsOwned
    <3>2. Depth-1 \in 0..Depth /\ Depth-1 \in 0..Depth-1 BY <3>1
    <3>3. At(Depth-1) # NULL BY <2>3, <3>2, Levels DEF Calls
    <3> QED BY <2>1, <2>3, <3>2, <3>3, OutIs
  <2>4. ASSUME pc = "returned", stack # <<>> PROVE Top.elem \in live
    <3>1. Parsing BY <2>4 DEF Parsing
    <3>2. Depth \in 0..Depth /\ At(Depth) # NULL BY <2>4, <3>1, Levels DEF Turn
    <3> QED BY <2>1, <2>4, <3>1, <3>2, LocalsOwned
  <2>5. ASSUME pc = "colon" PROVE Top.key \in live
    <3>1. Parsing /\ Own(Depth) = {Top.key} BY <2>5, OnlyKey
    <3>2. Depth \in 0..Depth BY <3>1, Levels
    <3> QED BY <3>1, <3>2, Levels
  <2>6. ASSUME pc = "free", rc = 0 PROVE Tree(root) \subseteq live
    <3>1. Afterwards BY <2>6 DEF PInv
    <3>2. ~bad /\ RootTree = Tree(root) BY <2>6, <3>1 DEF Afterwards, RootTree
    <3> QED BY <3>1, <3>2 DEF Afterwards
  <2> QED BY <2>2, <2>3, <2>4, <2>5, <2>6 DEF TouchesLive
<1> QED BY <1>1, PInvHolds, PTL

(* Looking up a path (resolve_path in main()) leaves everything that the   *)
(* parser and main() own as it is; an allocation may fail meanwhile.       *)
OnlyFails ==
  /\ pc = "free" /\ rc = 0 /\ NoMemory
  /\ UNCHANGED <<doc, pc, stack, ok, cells, live, bad, lost, rc>>

LEMMA LookupOnlyReads == [CliNext]_<<vars, cliVars>> => [Next]_vars \/ OnlyFails
BY DEF CliNext, Get, GetNoMemory, OnlyFails

LEMMA BoundsAre == MaxTokens \in Nat /\ MaxFails \in Nat
BY JsonAssumption

LEMMA StaysPInv == PInv /\ OnlyFails => PInv'
<1> SUFFICES ASSUME PInv, OnlyFails PROVE PInv' OBVIOUS
<1>1. UNCHANGED <<doc, pc, stack, ok, cells, live, bad, lost, rc>> BY DEF OnlyFails
<1>2. TypeOK'
  <2>1. fails' \in 0..MaxFails
    <3>1. fails \in 0..MaxFails /\ MaxFails \in Nat BY BoundsAre DEF PInv, TypeOK
    <3>2. fails < MaxFails /\ fails' = fails + 1 BY DEF OnlyFails, NoMemory
    <3> QED BY <3>1, <3>2
  <2> QED BY <1>1, <2>1 DEF PInv, TypeOK, Blocks
<1>3. Sound(cells)' /\ pc' = "free" BY <1>1 DEF PInv, OnlyFails
<1>4. Afterwards'
  <2>1. Afterwards BY DEF PInv, OnlyFails
  <2>2. RootTree' = RootTree BY <1>1, RootTreeIs
  <2>3. look' = look BY <1>1 DEF look
  <2> QED BY <1>1, <2>1, <2>2, <2>3 DEF Afterwards, Blocks, root
<1> QED BY <1>2, <1>3, <1>4 DEF PInv, Parsing

LEMMA CliPInvHolds == CliSpec => []PInv
<1>1. CliInit => PInv BY InitPInv DEF CliInit
<1>2. PInv /\ [CliNext]_<<vars, cliVars>> => PInv' BY LookupOnlyReads, NextPInv, StaysPInv
<1> QED BY <1>1, <1>2, PTL DEF CliSpec

(* The whole program, with either command: each live block has one owner.  *)
THEOREM ProgramBlocksOwned == CliSpec => []OneOwner
BY CliPInvHolds, PInvOwner, PTL

(* A double free or a use after free has one cause only, in both commands. *)
THEOREM ProgramMemorySafe == CliSpec => []BadOnlyAfterValue
BY CliPInvHolds, BadAfterValue, PTL

-----------------------------------------------------------------------------
(***************************************************************************)
(* The grammar.  Its rules refer only to shorter sequences, so there is a  *)
(* function that obeys them; its values, members and lists of any length   *)
(* are the languages the parser's places are described by.                 *)
(***************************************************************************)
LEMMA StrongInduction ==
  ASSUME NEW G, \A n \in Nat : (\A m \in 0..n-1 : m \in G) => n \in G
  PROVE  Nat \subseteq G
<1> SUFFICES ASSUME Nat \ G # {} PROVE FALSE OBVIOUS
<1>1. PICK n \in Nat \ G : \A m \in Nat \ G : ~(<<m, n>> \in OpToRel(<, Nat))
  BY NatLessThanWellFounded, WFMin, Nat \ G \subseteq Nat
<1>2. PICK m \in 0..n-1 : m \notin G BY <1>1
<1>3. m \in Nat \ G /\ n \in Nat /\ m < n BY <1>2
<1>4. <<m, n>> \in OpToRel(<, Nat) BY <1>3 DEF OpToRel
<1> QED BY <1>1, <1>3, <1>4

IsLang(f) == f = [n \in Nat |-> Rules(f, n)]
Lang == CHOOSE f : IsLang(f)

LEMMA LanguageIs == Language = UNION {Lang[n].value : n \in 1..MaxTokens}
BY Zenon DEF Language, Lang, IsLang

(* What the rules say of n tokens depends on the shorter ones only. *)
LEMMA RulesSame ==
  ASSUME NEW f, NEW g, NEW n \in Nat, \A m \in 0..n-1 : f[m] = g[m]
  PROVE  Rules(f, n) = Rules(g, n)
<1>1. /\ n # 0 /\ n # 1 /\ n # 2 => f[n-2] = g[n-2]
      /\ ~(n < 3) => f[n-2] = g[n-2]
  OBVIOUS
<1>2. ValuesOf(f, n) = ValuesOf(g, n) BY <1>1, Zenon DEF ValuesOf
<1>3. MembersOf(f, n) = MembersOf(g, n) BY <1>1, Zenon DEF MembersOf
<1>4. \A k \in 1..n-2 : f[k] = g[k] /\ f[n-k-1] = g[n-k-1] OBVIOUS
<1>5. \A item, list : Longer(f, n, item, list) = Longer(g, n, item, list)
  BY <1>4, Zenon DEF Longer
<1> QED BY <1>2, <1>3, <1>5, Zenon DEF Rules

LEMMA LangExists == IsLang(Lang)
<1> DEFINE Part(f, n) == f = [m \in 0..n |-> Rules(f, m)]
           G == {n \in Nat : \E f : Part(f, n)}
<1>1. ASSUME NEW n \in Nat, NEW f, NEW m \in Nat, NEW g, Part(f, n), Part(g, m)
      PROVE  \A k \in Nat : k <= n /\ k <= m => f[k] = g[k]
  <2> DEFINE H == {k \in Nat : k <= n /\ k <= m => f[k] = g[k]}
  <2>1. ASSUME NEW k \in Nat, \A j \in 0..k-1 : j \in H PROVE k \in H
    <3> SUFFICES ASSUME k <= n, k <= m PROVE f[k] = g[k] OBVIOUS
    <3>1. \A j \in 0..k-1 : f[j] = g[j] BY <2>1
    <3>2. Rules(f, k) = Rules(g, k) BY <3>1, RulesSame
    <3>3. k \in 0..n /\ k \in 0..m OBVIOUS
    <3>4. f[k] = Rules(f, k) BY <1>1, <3>3, Zenon
    <3>5. g[k] = Rules(g, k) BY <1>1, <3>3, Zenon
    <3> QED BY <3>2, <3>4, <3>5
  <2> HIDE DEF H
  <2>2. Nat \subseteq H BY <2>1, StrongInduction
  <2> QED BY <2>2 DEF H
<1> DEFINE F(n) == CHOOSE f : Part(f, n)
           h == [n \in Nat |-> F(n)[n]]
<1>2. ASSUME NEW n \in Nat, \A m \in 0..n-1 : m \in G PROVE n \in G
  <2> DEFINE g == [m \in 0..n |-> Rules(h, m)]
  <2>1. ASSUME NEW m \in 0..n-1 PROVE Part(F(m), m)
    BY <1>2, Zenon
  <2>2. ASSUME NEW m \in 0..n-1 PROVE h[m] = Rules(h, m)
    <3>1. m \in Nat /\ \A k \in 0..m-1 : k \in 0..n-1 /\ k <= m /\ k \in Nat OBVIOUS
    <3>2. h[m] = F(m)[m] BY <3>1
    <3> HIDE DEF F
    <3>3. \A k \in 0..m-1 : h[k] = F(m)[k]
      <4> SUFFICES ASSUME NEW k \in 0..m-1 PROVE h[k] = F(m)[k] OBVIOUS
      <4>1. k \in Nat /\ k \in 0..n-1 /\ k <= m BY <3>1
      <4>2. h[k] = F(k)[k] BY <4>1
      <4>3. Part(F(k), k) /\ Part(F(m), m) BY <2>1, <4>1
      <4>4. F(k)[k] = F(m)[k] BY <1>1, <3>1, <4>1, <4>3
      <4> QED BY <4>2, <4>4
    <3>4. Rules(h, m) = Rules(F(m), m)
      <4> HIDE DEF h
      <4> QED BY <3>1, <3>3, RulesSame
    <3>5. F(m)[m] = Rules(F(m), m)
      <4>1. Part(F(m), m) BY <2>1
      <4>2. m \in 0..m BY <3>1
      <4> QED BY <4>1, <4>2, Zenon
    <3> QED BY <3>2, <3>4, <3>5
  <2>3. ASSUME NEW m \in 0..n PROVE Rules(h, m) = Rules(g, m)
    <3>1. \A k \in 0..m-1 : k \in 0..n-1 /\ k \in 0..n /\ m \in Nat OBVIOUS
    <3>2. \A k \in 0..m-1 : h[k] = g[k] BY <2>2, <3>1
    <3> HIDE DEF h, g
    <3> QED BY <3>2, RulesSame, m \in Nat
  <2>4. g = [m \in 0..n |-> Rules(g, m)]
    <3>1. g = [m \in 0..n |-> g[m]] OBVIOUS
    <3>2. \A m \in 0..n : g[m] = Rules(h, m) OBVIOUS
    <3> HIDE DEF g
    <3> QED BY <2>3, <3>1, <3>2, Zenon
  <2> HIDE DEF g
  <2> QED BY <2>4
<1>3. Nat \subseteq G
  <2> HIDE DEF G
  <2> QED BY <1>2, StrongInduction
<1>4. ASSUME NEW n \in Nat PROVE h[n] = Rules(h, n)
  <2>1. \A k \in Nat : Part(F(k), k) BY <1>3, Zenon
  <2>2. h[n] = F(n)[n] OBVIOUS
  <2> HIDE DEF F
  <2>3. \A k \in 0..n-1 : h[k] = F(n)[k]
    <3> SUFFICES ASSUME NEW k \in 0..n-1 PROVE h[k] = F(n)[k] OBVIOUS
    <3>1. k \in Nat /\ k <= n OBVIOUS
    <3>2. F(k)[k] = F(n)[k] BY <1>1, <2>1, <3>1
    <3> QED BY <3>1, <3>2
  <2>4. Rules(h, n) = Rules(F(n), n)
    <3> HIDE DEF h
    <3> QED BY <2>3, RulesSame
  <2>5. F(n)[n] = Rules(F(n), n) BY <2>1, n \in 0..n, Zenon
  <2> QED BY <2>2, <2>4, <2>5
<1>5. IsLang(h)
  <2>1. h = [n \in Nat |-> h[n]] OBVIOUS
  <2> HIDE DEF h
  <2> QED BY <1>4, <2>1, Zenon DEF IsLang
<1> HIDE DEF h
<1> QED BY <1>5, Zenon DEF Lang

LEMMA LangRule ==
  ASSUME NEW n \in Nat
  PROVE  /\ Lang[n].value = ValuesOf(Lang, n)
         /\ Lang[n].member = MembersOf(Lang, n)
         /\ Lang[n].list = ValuesOf(Lang, n) \union Longer(Lang, n, "value", "list")
         /\ Lang[n].members = MembersOf(Lang, n) \union Longer(Lang, n, "member", "members")
<1>1. Lang = [m \in Nat |-> Rules(Lang, m)] BY LangExists DEF IsLang
<1>2. Lang[n] = Rules(Lang, n) BY <1>1, Zenon
<1> QED BY <1>2 DEF Rules

-----------------------------------------------------------------------------
(***************************************************************************)
(* Languages and what they are joined to.                                  *)
(***************************************************************************)
Texts == Seq(Kinds)

LEMMA InCat ==
  ASSUME NEW L, NEW M, NEW x
  PROVE  x \in Cat(L, M) <=> \E s \in L, t \in M : x = s \o t
BY DEF Cat

LEMMA CatParts ==
  \A L, M : \A x \in Cat(L, M) : \E s \in L : \E t \in M : x = s \o t
BY InCat

LEMMA CatHas ==
  ASSUME NEW L, NEW M, NEW s \in L, NEW t \in M
  PROVE  s \o t \in Cat(L, M)
BY InCat

LEMMA Joins ==
  ASSUME NEW s \in Texts, NEW t \in Texts
  PROVE  s \o t \in Texts /\ Len(s \o t) = Len(s) + Len(t)
BY ConcatProperties DEF Texts

LEMMA JoinsThree ==
  ASSUME NEW s \in Texts, NEW t \in Texts, NEW u \in Texts
  PROVE  (s \o t) \o u = s \o (t \o u)
BY ConcatAssociative DEF Texts

LEMMA OneToken ==
  ASSUME NEW t \in Kinds
  PROVE  <<t>> \in Texts /\ Len(<<t>>) = 1
BY DEF Texts

LEMMA SomeKinds ==
  /\ Punctuation \subseteq Kinds /\ Single \subseteq Kinds
  /\ "[" \in Kinds /\ "]" \in Kinds /\ "{" \in Kinds /\ "}" \in Kinds
  /\ "," \in Kinds /\ ":" \in Kinds
BY DEF Punctuation, Single, Kinds

LEMMA CatTexts ==
  ASSUME NEW L \in SUBSET Texts, NEW M \in SUBSET Texts
  PROVE  Cat(L, M) \in SUBSET Texts
<1> SUFFICES ASSUME NEW x \in Cat(L, M) PROVE x \in Texts OBVIOUS
<1>1. PICK s \in L, t \in M : x = s \o t BY InCat
<1> QED BY <1>1, Joins

LEMMA EachTexts == ASSUME NEW S \in SUBSET Kinds PROVE Each(S) \in SUBSET Texts
BY OneToken DEF Each

LEMMA CatThree ==
  ASSUME NEW L \in SUBSET Texts, NEW M \in SUBSET Texts, NEW N \in SUBSET Texts
  PROVE  Cat(Cat(L, M), N) = Cat(L, Cat(M, N))
<1>1. ASSUME NEW s \in L, NEW t \in M, NEW u \in N
      PROVE  (s \o t) \o u = s \o (t \o u)
  BY JoinsThree
<1>2. ASSUME NEW x \in Cat(Cat(L, M), N) PROVE x \in Cat(L, Cat(M, N))
  <2>1. PICK a \in Cat(L, M), u \in N : x = a \o u BY InCat
  <2>2. PICK s \in L, t \in M : a = s \o t BY InCat
  <2>3. x = s \o (t \o u) BY <1>1, <2>1, <2>2
  <2>4. t \o u \in Cat(M, N) BY InCat
  <2> QED BY <2>3, <2>4, InCat
<1>3. ASSUME NEW x \in Cat(L, Cat(M, N)) PROVE x \in Cat(Cat(L, M), N)
  <2>1. PICK s \in L, a \in Cat(M, N) : x = s \o a BY InCat
  <2>2. PICK t \in M, u \in N : a = t \o u BY InCat
  <2>3. x = (s \o t) \o u BY <1>1, <2>1, <2>2
  <2>4. s \o t \in Cat(L, M) BY InCat
  <2> QED BY <2>3, <2>4, InCat
<1> QED BY <1>2, <1>3

LEMMA EitherCat ==
  ASSUME NEW L, NEW M, NEW N
  PROVE  Cat(L \union M, N) = Cat(L, N) \union Cat(M, N)
<1>1. ASSUME NEW x \in Cat(L \union M, N) PROVE x \in Cat(L, N) \union Cat(M, N)
  <2>1. PICK s \in L \union M, t \in N : x = s \o t BY CatParts
  <2> QED BY <2>1, CatHas
<1>2. Cat(L, N) \subseteq Cat(L \union M, N) BY InCat
<1>3. Cat(M, N) \subseteq Cat(L \union M, N) BY InCat
<1> QED BY <1>1, <1>2, <1>3

LEMMA CatEither ==
  ASSUME NEW L, NEW M, NEW N
  PROVE  Cat(N, L \union M) = Cat(N, L) \union Cat(N, M)
<1>1. ASSUME NEW x \in Cat(N, L \union M) PROVE x \in Cat(N, L) \union Cat(N, M)
  <2>1. PICK s \in N, t \in L \union M : x = s \o t BY CatParts
  <2> QED BY <2>1, CatHas
<1>2. Cat(N, L) \subseteq Cat(N, L \union M) BY InCat
<1>3. Cat(N, M) \subseteq Cat(N, L \union M) BY InCat
<1> QED BY <1>1, <1>2, <1>3

(* The first token and the rest. *)
LEMMA HeadOff ==
  ASSUME NEW t \in Kinds, NEW u \in Kinds, NEW y \in Texts, NEW z \in Texts
  PROVE  <<t>> \o y = <<u>> \o z <=> t = u /\ y = z
<1>1. /\ <<t>> \in Seq(Kinds) /\ <<u>> \in Seq(Kinds)
      /\ y \in Seq(Kinds) /\ z \in Seq(Kinds)
      /\ Len(<<t>>) = 1 /\ Len(<<u>>) = 1
  BY DEF Texts
<1> SUFFICES ASSUME <<t>> \o y = <<u>> \o z PROVE t = u /\ y = z OBVIOUS
<1>2. /\ Len(<<t>> \o y) = 1 + Len(y)
      /\ \A i \in 1..1 + Len(y) : (<<t>> \o y)[i] = IF i <= 1 THEN <<t>>[i] ELSE y[i - 1]
  BY <1>1, ConcatProperties
<1>3. /\ Len(<<u>> \o z) = 1 + Len(z)
      /\ \A i \in 1..1 + Len(z) : (<<u>> \o z)[i] = IF i <= 1 THEN <<u>>[i] ELSE z[i - 1]
  BY <1>1, ConcatProperties
<1>4. Len(y) \in Nat /\ Len(z) \in Nat BY <1>1, LenProperties
<1>5. Len(y) = Len(z) BY <1>2, <1>3, <1>4
<1>6. t = u
  <2>1. 1 \in 1..1 + Len(y) /\ 1 \in 1..1 + Len(z) BY <1>4
  <2> QED BY <1>2, <1>3, <2>1
<1>7. ASSUME NEW i \in 1..Len(y) PROVE y[i] = z[i]
  <2>1. PICK j \in 1..1 + Len(y) : j = i + 1 BY <1>4
  <2>2. ~(j <= 1) /\ j - 1 = i /\ j \in 1..1 + Len(z) BY <1>4, <1>5, <2>1
  <2> QED BY <1>2, <1>3, <2>2
<1>8. y = z BY <1>1, <1>5, <1>7, SeqEqual
<1> QED BY <1>6, <1>8

LEMMA AfterFirst ==
  ASSUME NEW t \in Kinds, NEW S \in SUBSET Kinds, NEW L \in SUBSET Texts, NEW y \in Texts
  PROVE  <<t>> \o y \in Cat(Each(S), L) <=> t \in S /\ y \in L
<1>1. ASSUME <<t>> \o y \in Cat(Each(S), L) PROVE t \in S /\ y \in L
  <2>0. PICK x \in Cat(Each(S), L) : x = <<t>> \o y BY <1>1
  <2>1. PICK a \in Each(S), z \in L : x = a \o z BY InCat
  <2>2. PICK u \in S : a = <<u>> BY DEF Each
  <2>3. t = u /\ y = z BY <2>0, <2>1, <2>2, HeadOff, SMTT(20)
  <2> QED BY <2>3
<1>2. ASSUME t \in S, y \in L PROVE <<t>> \o y \in Cat(Each(S), L)
  BY <1>2, InCat DEF Each
<1> QED BY <1>1, <1>2

(* So any text of such a language begins with one of S. *)
Starts(x, S) == x # <<>> /\ x[1] \in S

LEMMA HeadIs ==
  ASSUME NEW t \in Kinds, NEW y \in Texts
  PROVE  <<t>> \o y # <<>> /\ (<<t>> \o y)[1] = t
<1>1. <<t>> \in Seq(Kinds) /\ Len(<<t>>) = 1 /\ y \in Seq(Kinds) BY DEF Texts
<1>2. /\ Len(<<t>> \o y) = 1 + Len(y)
      /\ \A i \in 1..1 + Len(y) : (<<t>> \o y)[i] = IF i <= 1 THEN <<t>>[i] ELSE y[i - 1]
  BY <1>1, ConcatProperties
<1>3. Len(y) \in Nat /\ 1 \in 1..1 + Len(y) BY <1>1, LenProperties
<1>4. (<<t>> \o y)[1] = t BY <1>2, <1>3
<1>5. Len(<<>>) = 0 OBVIOUS
<1> QED BY <1>2, <1>3, <1>4, <1>5

LEMMA BeginsWith ==
  ASSUME NEW S \in SUBSET Kinds, NEW L \in SUBSET Texts, NEW x \in Cat(Each(S), L)
  PROVE  Starts(x, S)
<1>1. PICK a \in Each(S), y \in L : x = a \o y BY InCat
<1>2. PICK t \in S : a = <<t>> BY DEF Each
<1>3. <<t>> \o y # <<>> /\ (<<t>> \o y)[1] = t BY HeadIs
<1> QED BY <1>1, <1>2, <1>3 DEF Starts

-----------------------------------------------------------------------------
(***************************************************************************)
(* The languages of JSON, of any length, and what is left to read at each  *)
(* place of parse_value, parse_array and parse_object.                     *)
(***************************************************************************)
Every(part) == UNION {Lang[n][part] : n \in Nat}

Values      == Every("value")
Members     == Every("member")
Lists       == Every("list")
MemberLists == Every("members")

CloseOf(fn) == IF fn = "{" THEN "}" ELSE "]"
InnerOf(fn) == IF fn = "{" THEN MemberLists ELSE Lists
LoopOf(fn)  == Cat(InnerOf(fn), Each({CloseOf(fn)}))
FirstOf(fn) == Each({CloseOf(fn)}) \union LoopOf(fn)
OnOf(fn)    == Each({CloseOf(fn)}) \union Cat(Each({","}), LoopOf(fn))

(* Every text has its length. *)
OfLength(n) == {s \in Texts : Len(s) = n}

Fitting(n) ==
  /\ Lang[n].value \subseteq OfLength(n) /\ Lang[n].member \subseteq OfLength(n)
  /\ Lang[n].list \subseteq OfLength(n) /\ Lang[n].members \subseteq OfLength(n)

LEMMA CatFits ==
  ASSUME NEW m \in Nat, NEW n \in Nat, NEW L, NEW M, L \subseteq OfLength(m), M \subseteq OfLength(n)
  PROVE  Cat(L, M) \subseteq OfLength(m + n)
<1> SUFFICES ASSUME NEW x \in Cat(L, M) PROVE x \in OfLength(m + n) OBVIOUS
<1>1. PICK s \in L, t \in M : x = s \o t BY InCat
<1> QED BY <1>1, Joins DEF OfLength

LEMMA EachFits == ASSUME NEW S \in SUBSET Kinds PROVE Each(S) \subseteq OfLength(1)
BY OneToken DEF Each, OfLength

LEMMA LongerFits ==
  ASSUME NEW n \in Nat, NEW item, NEW list,
         \A k \in 0..n-1 : Lang[k][item] \subseteq OfLength(k) /\ Lang[k][list] \subseteq OfLength(k)
  PROVE  Longer(Lang, n, item, list) \subseteq OfLength(n)
<1> SUFFICES ASSUME NEW k \in 1..n-2
             PROVE  Cat(Lang[k][item], Cat(Each({","}), Lang[n-k-1][list])) \subseteq OfLength(n)
  BY DEF Longer
<1>1. PICK m \in 0..n-1 : m = n-k-1 /\ m \in Nat /\ k \in Nat /\ k \in 0..n-1 /\ k + (1 + m) = n
  OBVIOUS
<1>2. Each({","}) \subseteq OfLength(1) BY EachFits, SomeKinds
<1>3. Cat(Each({","}), Lang[m][list]) \subseteq OfLength(1 + m) BY <1>1, <1>2, CatFits
<1>4. 1 + m \in Nat BY <1>1
<1>5. Cat(Lang[k][item], Cat(Each({","}), Lang[m][list])) \subseteq OfLength(k + (1 + m))
  BY <1>1, <1>3, <1>4, CatFits
<1> QED BY <1>1, <1>5

LEMMA WrappedFits ==
  ASSUME NEW n \in Nat, NEW inner, inner \subseteq OfLength(n), NEW a \in Kinds, NEW z \in Kinds
  PROVE  Wrapped(a, inner, z) \subseteq OfLength(n + 2)
<1>1. Each({a}) \subseteq OfLength(1) /\ Each({z}) \subseteq OfLength(1) BY EachFits
<1>2. Cat(inner, Each({z})) \subseteq OfLength(n + 1) BY <1>1, CatFits
<1>3. PICK m \in Nat : m = n + 1 OBVIOUS
<1>4. Cat(Each({a}), Cat(inner, Each({z}))) \subseteq OfLength(1 + m)
  BY <1>1, <1>2, <1>3, CatFits
<1>5. 1 + m = n + 2 BY <1>3
<1> QED BY <1>4, <1>5 DEF Wrapped

LEMMA AllFit == \A n \in Nat : Fitting(n)
<1> DEFINE G == {n \in Nat : Fitting(n)}
<1>1. ASSUME NEW n \in Nat, \A m \in 0..n-1 : m \in G PROVE n \in G
  <2>1. \A m \in 0..n-1 : Fitting(m) BY <1>1
  <2>2. ValuesOf(Lang, n) \subseteq OfLength(n)
    <3>1. CASE n = 0 BY <3>1 DEF ValuesOf
    <3>2. CASE n = 1 BY <3>2, EachFits, SomeKinds DEF ValuesOf
    <3>3. CASE n = 2
      <4>1. /\ Each({"["}) \subseteq OfLength(1) /\ Each({"]"}) \subseteq OfLength(1)
            /\ Each({"{"}) \subseteq OfLength(1) /\ Each({"}"}) \subseteq OfLength(1)
        BY EachFits, SomeKinds
      <4>2. /\ Cat(Each({"["}), Each({"]"})) \subseteq OfLength(1 + 1)
            /\ Cat(Each({"{"}), Each({"}"})) \subseteq OfLength(1 + 1)
        BY <4>1, CatFits
      <4>3. ValuesOf(Lang, n) = Cat(Each({"["}), Each({"]"})) \union Cat(Each({"{"}), Each({"}"}))
        BY <3>3 DEF ValuesOf
      <4>4. 1 + 1 = n BY <3>3
      <4> QED BY <4>2, <4>3, <4>4
    <3>4. CASE n > 2
      <4>1. PICK m \in 0..n-1 : m = n - 2 /\ m \in Nat /\ m + 2 = n BY <3>4
      <4>2. Lang[m].list \subseteq OfLength(m) /\ Lang[m].members \subseteq OfLength(m)
        BY <2>1 DEF Fitting
      <4>3. /\ Wrapped("[", Lang[m].list, "]") \subseteq OfLength(n)
            /\ Wrapped("{", Lang[m].members, "}") \subseteq OfLength(n)
        BY <4>1, <4>2, SomeKinds, WrappedFits
      <4>4. n # 0 /\ n # 1 /\ n # 2 BY <3>4
      <4>5. ValuesOf(Lang, n) = Wrapped("[", Lang[m].list, "]") \union
                                Wrapped("{", Lang[m].members, "}")
        BY <4>1, <4>4, Zenon DEF ValuesOf
      <4> QED BY <4>3, <4>5
    <3> QED BY <3>1, <3>2, <3>3, <3>4
  <2>3. MembersOf(Lang, n) \subseteq OfLength(n)
    <3>1. CASE n < 3 BY <3>1 DEF MembersOf
    <3>2. CASE ~(n < 3)
      <4>1. PICK m \in 0..n-1 : m = n - 2 /\ m \in Nat /\ 1 + (1 + m) = n BY <3>2
      <4>2. Lang[m].value \subseteq OfLength(m) BY <2>1 DEF Fitting
      <4>3. Each(Strings) \subseteq OfLength(1) /\ Each({":"}) \subseteq OfLength(1)
        BY EachFits, SomeKinds DEF Single
      <4>4. Cat(Each({":"}), Lang[m].value) \subseteq OfLength(1 + m)
        BY <4>1, <4>2, <4>3, CatFits
      <4>5. Cat(Each(Strings), Cat(Each({":"}), Lang[m].value)) \subseteq OfLength(1 + (1 + m))
        BY <4>1, <4>3, <4>4, CatFits
      <4> QED BY <3>2, <4>1, <4>5 DEF MembersOf
    <3> QED BY <3>1, <3>2
  <2>4. Longer(Lang, n, "value", "list") \subseteq OfLength(n)
    <3>1. \A k \in 0..n-1 : Lang[k]["value"] \subseteq OfLength(k) /\ Lang[k]["list"] \subseteq OfLength(k)
      BY <2>1 DEF Fitting
    <3> QED BY <3>1, LongerFits
  <2>5. Longer(Lang, n, "member", "members") \subseteq OfLength(n)
    <3>1. \A k \in 0..n-1 : Lang[k]["member"] \subseteq OfLength(k) /\ Lang[k]["members"] \subseteq OfLength(k)
      BY <2>1 DEF Fitting
    <3> QED BY <3>1, LongerFits
  <2> QED BY <2>2, <2>3, <2>4, <2>5, LangRule DEF Fitting
<1>2. Nat \subseteq G
  <2> HIDE DEF G
  <2> QED BY <1>1, StrongInduction
<1> QED BY <1>2

LEMMA LanguagesAre ==
  /\ Values \in SUBSET Texts /\ Members \in SUBSET Texts
  /\ Lists \in SUBSET Texts /\ MemberLists \in SUBSET Texts
BY AllFit DEF Every, Values, Members, Lists, MemberLists, Fitting, OfLength

(* Language has the values that are not too long. *)
LEMMA InLanguage == Language = {d \in Values : Len(d) <= MaxTokens}
<1>1. ASSUME NEW n \in Nat, NEW d \in Lang[n].value PROVE Len(d) = n /\ n # 0
  <2>1. Len(d) = n BY AllFit DEF Fitting, OfLength
  <2>2. ValuesOf(Lang, 0) = {} BY DEF ValuesOf
  <2>3. n # 0 BY <2>2, LangRule
  <2> QED BY <2>1, <2>3
<1>2. \A n \in 1..MaxTokens : n \in Nat OBVIOUS
<1>3. ASSUME NEW d \in Language PROVE d \in Values /\ Len(d) <= MaxTokens
  <2>1. PICK n \in 1..MaxTokens : d \in Lang[n].value BY LanguageIs
  <2> QED BY <1>1, <1>2, <2>1, JsonAssumption DEF Values, Every
<1>4. ASSUME NEW d \in Values, Len(d) <= MaxTokens PROVE d \in Language
  <2>1. PICK n \in Nat : d \in Lang[n].value BY DEF Values, Every
  <2>2. n \in 1..MaxTokens BY <1>1, <1>4, <2>1, JsonAssumption
  <2> QED BY <2>1, <2>2, LanguageIs
<1> QED BY <1>3, <1>4

(* The rules, without the lengths. *)
LEMMA CatWithin ==
  ASSUME NEW L, NEW M, NEW LL, NEW MM, L \subseteq LL, M \subseteq MM
  PROVE  Cat(L, M) \subseteq Cat(LL, MM)
<1> SUFFICES ASSUME NEW x \in Cat(L, M) PROVE x \in Cat(LL, MM) OBVIOUS
<1>1. PICK s \in L, t \in M : x = s \o t BY CatParts
<1> QED BY <1>1, InCat

LEMMA NoneEmpty ==
  /\ Lang[0].value = {} /\ Lang[0].member = {} /\ Lang[0].list = {} /\ Lang[0].members = {}
<1>1. ValuesOf(Lang, 0) = {} BY DEF ValuesOf
<1>2. MembersOf(Lang, 0) = {} BY DEF MembersOf
<1>3. \A item, list : Longer(Lang, 0, item, list) = {}
  <2>1. 1..(0 - 2) = {} OBVIOUS
  <2> QED BY <2>1 DEF Longer
<1> QED BY <1>1, <1>2, <1>3, LangRule

(* list is what the grammar says of lists of item. *)
Listing(item, list) ==
  \A n \in Nat : Lang[n][list] = Lang[n][item] \union Longer(Lang, n, item, list)

Lasting(Items, All) == All = Items \union Cat(Items, Cat(Each({","}), All))

LEMMA ListsGrow ==
  ASSUME NEW item, NEW list, Lang[0][item] = {}, Lang[0][list] = {}, Listing(item, list)
  PROVE  Lasting(Every(item), Every(list))
<1> DEFINE C == Each({","})
           Right == Cat(Every(item), Cat(C, Every(list)))
<1>0. \A n : Longer(Lang, n, item, list) =
             UNION {Cat(Lang[k][item], Cat(C, Lang[n-k-1][list])) : k \in 1..n-2}
  BY DEF Longer
<1> HIDE DEF C
<1>1. ASSUME NEW x \in Every(list) PROVE x \in Every(item) \union Right
  <2>1. PICK n \in Nat : x \in Lang[n][list] BY DEF Every
  <2>2. CASE x \in Lang[n][item] BY <2>2 DEF Every
  <2>3. CASE x \in Longer(Lang, n, item, list)
    <3>1. PICK k \in 1..n-2 : x \in Cat(Lang[k][item], Cat(C, Lang[n-k-1][list]))
      BY <1>0, <2>3
    <3>2. PICK m \in Nat : m = n-k-1 /\ k \in Nat OBVIOUS
    <3>3. Lang[k][item] \subseteq Every(item) /\ Lang[m][list] \subseteq Every(list)
      BY <3>2 DEF Every
    <3>4. Cat(C, Lang[m][list]) \subseteq Cat(C, Every(list)) BY <3>3, CatWithin
    <3>5. Cat(Lang[k][item], Cat(C, Lang[m][list])) \subseteq Right
      BY <3>3, <3>4, CatWithin
    <3> QED BY <3>1, <3>2, <3>5
  <2>4. x \in Lang[n][item] \union Longer(Lang, n, item, list) BY <2>1 DEF Listing
  <2> QED BY <2>2, <2>3, <2>4
<1>2. Every(item) \subseteq Every(list) BY DEF Every, Listing
<1>3. ASSUME NEW x \in Right PROVE x \in Every(list)
  <2>1. PICK f \in Every(item), g \in Cat(C, Every(list)) : x = f \o g BY CatParts
  <2>2. PICK c \in C, r \in Every(list) : g = c \o r BY CatParts
  <2>3. PICK k \in Nat : f \in Lang[k][item] BY DEF Every
  <2>4. PICK m \in Nat : r \in Lang[m][list] BY DEF Every
  <2>5. k # 0 /\ m # 0 BY <2>3, <2>4
  <2>6. PICK n \in Nat : n = k + m + 1 OBVIOUS
  <2>7. k \in 1..n-2 /\ n-k-1 = m BY <2>5, <2>6
  <2>8. g \in Cat(C, Lang[m][list]) BY <2>2, <2>4, CatHas
  <2>9. x \in Cat(Lang[k][item], Cat(C, Lang[n-k-1][list]))
    BY <2>1, <2>3, <2>7, <2>8, CatHas
  <2>10. x \in Longer(Lang, n, item, list) BY <1>0, <2>7, <2>9
  <2> QED BY <2>10 DEF Listing, Every
<1>4. Every(list) = Every(item) \union Right BY <1>1, <1>2, <1>3
<1> QED BY <1>4 DEF Lasting, C

LEMMA ListsAre == Lasting(Values, Lists) /\ Lasting(Members, MemberLists)
<1>1. /\ Lang[0]["value"] = {} /\ Lang[0]["list"] = {}
      /\ Lang[0]["member"] = {} /\ Lang[0]["members"] = {}
  BY NoneEmpty
<1>2. Listing("value", "list") BY LangRule DEF Listing
<1>3. Listing("member", "members") BY LangRule DEF Listing
<1> QED BY <1>1, <1>2, <1>3, ListsGrow DEF Values, Lists, Members, MemberLists

LEMMA MembersAre == Members = Cat(Each(Strings), Cat(Each({":"}), Values))
<1>1. ASSUME NEW x \in Members PROVE x \in Cat(Each(Strings), Cat(Each({":"}), Values))
  <2>1. PICK n \in Nat : x \in Lang[n].member BY DEF Members, Every
  <2>2. x \in MembersOf(Lang, n) BY <2>1, LangRule
  <2>3. x \in Cat(Each(Strings), Cat(Each({":"}), Lang[n-2].value)) /\ n - 2 \in Nat
    BY <2>2 DEF MembersOf
  <2>4. Lang[n-2].value \subseteq Values BY <2>3 DEF Values, Every
  <2>5. Cat(Each({":"}), Lang[n-2].value) \subseteq Cat(Each({":"}), Values)
    BY <2>4, CatWithin
  <2>6. Cat(Each(Strings), Cat(Each({":"}), Lang[n-2].value)) \subseteq
        Cat(Each(Strings), Cat(Each({":"}), Values))
    BY <2>5, CatWithin
  <2> QED BY <2>3, <2>6
<1>2. ASSUME NEW x \in Cat(Each(Strings), Cat(Each({":"}), Values)) PROVE x \in Members
  <2>1. PICK s \in Each(Strings), g \in Cat(Each({":"}), Values) : x = s \o g BY CatParts
  <2>2. PICK c \in Each({":"}), v \in Values : g = c \o v BY CatParts, SMTT(20)
  <2>3. PICK m \in Nat : v \in Lang[m].value BY DEF Values, Every
  <2>4. m # 0 BY <2>3, NoneEmpty
  <2>5. PICK n \in Nat : n = m + 2 OBVIOUS
  <2>6. ~(n < 3) /\ n - 2 = m BY <2>4, <2>5
  <2>7. g \in Cat(Each({":"}), Lang[m].value) BY <2>2, <2>3, InCat
  <2>8. x \in Cat(Each(Strings), Cat(Each({":"}), Lang[n-2].value))
    BY <2>1, <2>6, <2>7, InCat
  <2>9. x \in Lang[n].member BY <2>6, <2>8, LangRule DEF MembersOf
  <2> QED BY <2>9 DEF Members, Every
<1> QED BY <1>1, <1>2

LEMMA WrappedAre ==
  ASSUME NEW a, NEW z, NEW list, Lang[0][list] = {}
  PROVE  \A x : x \in Cat(Each({a}), Cat(Every(list), Each({z}))) <=>
                \E n \in Nat : n > 2 /\ x \in Wrapped(a, Lang[n-2][list], z)
<1> DEFINE A == Each({a})
           Z == Each({z})
           All == Cat(A, Cat(Every(list), Z))
<1>0. \A L : Wrapped(a, L, z) = Cat(A, Cat(L, Z)) BY DEF Wrapped
<1> HIDE DEF A, Z
<1>1. ASSUME NEW n \in Nat, n > 2
      PROVE  Wrapped(a, Lang[n-2][list], z) \subseteq All
  <2>1. PICK m \in Nat : n - 2 = m BY <1>1
  <2>2. Lang[m][list] \subseteq Every(list) BY DEF Every
  <2>3. Cat(Lang[m][list], Z) \subseteq Cat(Every(list), Z) BY <2>2, CatWithin
  <2>4. Cat(A, Cat(Lang[m][list], Z)) \subseteq All BY <2>3, CatWithin
  <2> QED BY <2>1, <2>4, <1>0
<1>2. ASSUME NEW x \in All
      PROVE  \E n \in Nat : n > 2 /\ x \in Wrapped(a, Lang[n-2][list], z)
  <2>1. PICK s \in A, g \in Cat(Every(list), Z) : x = s \o g BY CatParts, SMTT(20)
  <2>2. PICK l \in Every(list), e \in Z : g = l \o e
    <3> PICK L : L = Every(list) OBVIOUS
    <3>1. g \in Cat(L, Z) OBVIOUS
    <3> HIDE DEF All
    <3> QED BY <3>1, InCat
  <2>3. PICK m \in Nat : l \in Lang[m][list] BY DEF Every
  <2>4. m # 0 BY <2>3
  <2>5. PICK n \in Nat : n = m + 2 OBVIOUS
  <2>6. n > 2 /\ n - 2 = m BY <2>4, <2>5
  <2>7. g \in Cat(Lang[m][list], Z) BY <2>2, <2>3, CatHas
  <2>8. x \in Cat(A, Cat(Lang[m][list], Z)) BY <2>1, <2>7, CatHas
  <2>9. x \in Wrapped(a, Lang[n-2][list], z) BY <2>6, <2>8, <1>0
  <2> QED BY <2>6, <2>9
<1> HIDE DEF All
<1>3. \A x : x \in All <=> \E n \in Nat : n > 2 /\ x \in Wrapped(a, Lang[n-2][list], z)
  BY <1>1, <1>2
<1> QED BY <1>3 DEF All, A, Z

LEMMA ValuesAre ==
  Values = Each(Single) \union Cat(Each({"["}), FirstOf("[")) \union Cat(Each({"{"}), FirstOf("{"))
<1> DEFINE Lo == Cat(Each({"["}), Cat(Lists, Each({"]"})))
           Mo == Cat(Each({"{"}), Cat(MemberLists, Each({"}"})))
           Empty == Cat(Each({"["}), Each({"]"})) \union Cat(Each({"{"}), Each({"}"}))
           InLo(n) == Wrapped("[", Lang[n-2]["list"], "]")
           InMo(n) == Wrapped("{", Lang[n-2]["members"], "}")
<1>1. \A x : x \in Lo <=> \E n \in Nat : n > 2 /\ x \in InLo(n)
  <2>1. Lang[0]["list"] = {} BY NoneEmpty
  <2> QED BY <2>1, WrappedAre, Zenon DEF Lists
<1>2. \A x : x \in Mo <=> \E n \in Nat : n > 2 /\ x \in InMo(n)
  <2>1. Lang[0]["members"] = {} BY NoneEmpty
  <2> QED BY <2>1, WrappedAre, Zenon DEF MemberLists
<1>3. /\ Lang[0].value = {} /\ Lang[1].value = Each(Single) /\ Lang[2].value = Empty
  <2>1. ValuesOf(Lang, 1) = Each(Single) BY DEF ValuesOf
  <2>2. ValuesOf(Lang, 2) = Empty BY DEF ValuesOf
  <2> QED BY <2>1, <2>2, NoneEmpty, LangRule
<1>4. ASSUME NEW n \in Nat, n > 2 PROVE Lang[n].value = InLo(n) \union InMo(n)
  <2>1. n # 0 /\ n # 1 /\ n # 2 BY <1>4
  <2>2. ValuesOf(Lang, n) = InLo(n) \union InMo(n) BY <2>1, Zenon DEF ValuesOf
  <2> QED BY <2>2, LangRule
<1>5. Values = Each(Single) \union Empty \union Lo \union Mo
  <2> HIDE DEF Lo, Mo, Empty, InLo, InMo
  <2>1. ASSUME NEW x \in Values PROVE x \in Each(Single) \union Empty \union Lo \union Mo
    <3>1. PICK n \in Nat : x \in Lang[n].value BY DEF Values, Every
    <3>2. CASE n > 2 BY <1>1, <1>2, <1>4, <3>1, <3>2
    <3>3. CASE n \in {0, 1, 2} BY <1>3, <3>1, <3>3
    <3> QED BY <3>2, <3>3
  <2>2. Each(Single) \subseteq Values /\ Empty \subseteq Values BY <1>3 DEF Values, Every
  <2>3. ASSUME NEW x \in Lo \union Mo PROVE x \in Values
    <3>1. PICK n \in Nat : n > 2 /\ x \in InLo(n) \union InMo(n) BY <1>1, <1>2
    <3>2. x \in Lang[n].value BY <1>4, <3>1
    <3> QED BY <3>2 DEF Values, Every
  <2> QED BY <2>1, <2>2, <2>3
<1>6. /\ Cat(Each({"["}), FirstOf("[")) = Cat(Each({"["}), Each({"]"})) \union Lo
      /\ Cat(Each({"{"}), FirstOf("{")) = Cat(Each({"{"}), Each({"}"})) \union Mo
  <2>1. FirstOf("[") = Each({"]"}) \union Cat(Lists, Each({"]"}))
    BY DEF FirstOf, LoopOf, InnerOf, CloseOf
  <2>2. FirstOf("{") = Each({"}"}) \union Cat(MemberLists, Each({"}"}))
    BY DEF FirstOf, LoopOf, InnerOf, CloseOf
  <2>3. /\ Cat(Each({"["}), FirstOf("[")) =
             Cat(Each({"["}), Each({"]"})) \union Cat(Each({"["}), Cat(Lists, Each({"]"})))
        /\ Cat(Each({"{"}), FirstOf("{")) =
             Cat(Each({"{"}), Each({"}"})) \union Cat(Each({"{"}), Cat(MemberLists, Each({"}"})))
    <3>0. \A L, M, N : Cat(N, L \union M) = Cat(N, L) \union Cat(N, M) BY CatEither
    <3> DEFINE Ls == Cat(Lists, Each({"]"}))
               Ms == Cat(MemberLists, Each({"}"}))
               Begin == Each({"{"})
               End   == Each({"}"})
    <3>1. Cat(Each({"["}), Each({"]"}) \union Ls) =
            Cat(Each({"["}), Each({"]"})) \union Cat(Each({"["}), Ls)
      <4> HIDE DEF Ls
      <4> QED BY <3>0
    <3>2. Cat(Begin, End \union Ms) = Cat(Begin, End) \union Cat(Begin, Ms)
      <4> HIDE DEF Ls, Ms, Begin, End
      <4> QED BY <3>0
    <3> HIDE DEF Ls, Ms
    <3> QED BY <2>1, <2>2, <3>1, <3>2, Zenon DEF Ls, Ms
  <2> QED BY <2>3
<1> HIDE DEF Lo, Mo
<1> QED BY <1>5, <1>6

LEMMA Unrolled ==
  ASSUME NEW Items \in SUBSET Texts, NEW All \in SUBSET Texts, NEW z \in Kinds,
         Lasting(Items, All)
  PROVE  Cat(All, Each({z})) = Cat(Items, Each({z}) \union Cat(Each({","}), Cat(All, Each({z}))))
<1> DEFINE Z == Each({z})
           C == Each({","})
<1>1. Z \in SUBSET Texts /\ C \in SUBSET Texts BY SomeKinds, EachTexts
<1>2. All = Items \union Cat(Items, Cat(C, All)) BY DEF Lasting
<1> HIDE DEF Z, C
<1>3. Cat(C, All) \in SUBSET Texts BY <1>1, CatTexts
<1>4. Cat(Items \union Cat(Items, Cat(C, All)), Z) = Cat(Items, Z) \union Cat(Cat(Items, Cat(C, All)), Z)
  BY EitherCat
<1>5. Cat(Cat(Items, Cat(C, All)), Z) = Cat(Items, Cat(Cat(C, All), Z))
  BY <1>1, <1>3, CatThree
<1>6. Cat(Cat(C, All), Z) = Cat(C, Cat(All, Z)) BY <1>1, CatThree
<1>7. Cat(Items, Z \union Cat(C, Cat(All, Z))) = Cat(Items, Z) \union Cat(Items, Cat(C, Cat(All, Z)))
  BY CatEither
<1>8. Cat(All, Z) = Cat(Items, Z \union Cat(C, Cat(All, Z)))
  BY <1>2, <1>4, <1>5, <1>6, <1>7, Zenon
<1> QED BY <1>8 DEF Z, C

LEMMA LoopsAre ==
  /\ LoopOf("[") = Cat(Values, OnOf("["))
  /\ LoopOf("{") = Cat(Each(Strings), Cat(Each({":"}), Cat(Values, OnOf("{"))))
<1>1. /\ Each({"}"}) \in SUBSET Texts /\ Each({":"}) \in SUBSET Texts
      /\ Each({","}) \in SUBSET Texts /\ Each(Strings) \in SUBSET Texts
  BY EachTexts, SomeKinds DEF Single
<1>2. LoopOf("[") = Cat(Values, OnOf("["))
  <2>1. LoopOf("[") = Cat(Lists, Each({"]"})) BY DEF LoopOf, InnerOf, CloseOf
  <2>2. OnOf("[") = Each({"]"}) \union Cat(Each({","}), LoopOf("[")) BY DEF OnOf, CloseOf
  <2>3. Cat(Lists, Each({"]"})) = Cat(Values, Each({"]"}) \union Cat(Each({","}), Cat(Lists, Each({"]"}))))
    <3>1. /\ Values \in SUBSET Texts /\ Lists \in SUBSET Texts /\ "]" \in Kinds
          /\ Lasting(Values, Lists)
      BY ListsAre, LanguagesAre, SomeKinds
    <3> QED BY <3>1, Unrolled
  <2> QED BY <2>1, <2>2, <2>3, Zenon
<1>3. LoopOf("{") = Cat(Members, OnOf("{")) /\ OnOf("{") \in SUBSET Texts
  <2>1. LoopOf("{") = Cat(MemberLists, Each({"}"})) BY DEF LoopOf, InnerOf, CloseOf
  <2>2. OnOf("{") = Each({"}"}) \union Cat(Each({","}), LoopOf("{")) BY DEF OnOf, CloseOf
  <2>3. Cat(MemberLists, Each({"}"})) =
          Cat(Members, Each({"}"}) \union Cat(Each({","}), Cat(MemberLists, Each({"}"}))))
    <3>1. /\ Members \in SUBSET Texts /\ MemberLists \in SUBSET Texts /\ "}" \in Kinds
          /\ Lasting(Members, MemberLists)
      BY ListsAre, LanguagesAre, SomeKinds
    <3> QED BY <3>1, Unrolled
  <2>4. Cat(MemberLists, Each({"}"})) \in SUBSET Texts BY <1>1, LanguagesAre, CatTexts
  <2>5. Cat(Each({","}), LoopOf("{")) \in SUBSET Texts BY <1>1, <2>1, <2>4, CatTexts
  <2>6. OnOf("{") \in SUBSET Texts BY <1>1, <2>2, <2>5
  <2> QED BY <2>1, <2>2, <2>3, <2>6, Zenon
<1> DEFINE S == Each(Strings)
           C == Each({":"})
           R == OnOf("{")
<1>4. S \in SUBSET Texts /\ C \in SUBSET Texts /\ R \in SUBSET Texts /\ Values \in SUBSET Texts
  BY <1>1, <1>3, LanguagesAre
<1>5. Members = Cat(S, Cat(C, Values)) BY MembersAre
<1> HIDE DEF S, C, R
<1>6. Cat(C, Values) \in SUBSET Texts BY <1>4, CatTexts
<1>7. Cat(Cat(S, Cat(C, Values)), R) = Cat(S, Cat(Cat(C, Values), R))
  BY <1>4, <1>6, CatThree
<1>8. Cat(Cat(C, Values), R) = Cat(C, Cat(Values, R)) BY <1>4, CatThree
<1>9. LoopOf("{") = Cat(S, Cat(C, Cat(Values, R))) BY <1>3, <1>5, <1>7, <1>8, Zenon DEF R
<1> QED BY <1>2, <1>9 DEF S, C, R

LEMMA PlacesAre ==
  ASSUME NEW fn \in {"{", "["}
  PROVE  /\ CloseOf(fn) \in Kinds /\ LoopOf(fn) \in SUBSET Texts
         /\ FirstOf(fn) \in SUBSET Texts /\ OnOf(fn) \in SUBSET Texts
<1>1. CloseOf(fn) \in Kinds BY SomeKinds DEF CloseOf
<1>2. InnerOf(fn) \in SUBSET Texts BY LanguagesAre DEF InnerOf
<1>3. Each({CloseOf(fn)}) \in SUBSET Texts /\ Each({","}) \in SUBSET Texts
  BY <1>1, SomeKinds, EachTexts
<1>4. LoopOf(fn) \in SUBSET Texts BY <1>2, <1>3, CatTexts DEF LoopOf
<1>5. Cat(Each({","}), LoopOf(fn)) \in SUBSET Texts BY <1>3, <1>4, CatTexts
<1> QED BY <1>1, <1>3, <1>4, <1>5 DEF FirstOf, OnOf

LEMMA KindsApart ==
  /\ Single \cap Punctuation = {}
  /\ Strings \cap Punctuation = {} /\ Strings \cap Scalars = {} /\ Strings \cap Numbers = {}
  /\ Errors \cap Kinds \subseteq Errors /\ Errors \cap Single = {} /\ Errors \cap Punctuation = {}
  /\ EOF \notin Kinds
<1> DEFINE kinds == <<Punctuation, Strings, Scalars, Numbers, Errors>>
<1>1. \A m, n \in 1..5 : m # n => kinds[m] \cap kinds[n] = {} BY JsonAssumption
<1>2. /\ kinds[1] = Punctuation /\ kinds[2] = Strings /\ kinds[3] = Scalars
      /\ kinds[4] = Numbers /\ kinds[5] = Errors
  OBVIOUS
<1> HIDE DEF kinds
<1>3. /\ kinds[1] \cap kinds[2] = {} /\ kinds[1] \cap kinds[3] = {} /\ kinds[1] \cap kinds[4] = {}
      /\ kinds[1] \cap kinds[5] = {} /\ kinds[2] \cap kinds[3] = {} /\ kinds[2] \cap kinds[4] = {}
      /\ kinds[2] \cap kinds[5] = {} /\ kinds[3] \cap kinds[5] = {} /\ kinds[4] \cap kinds[5] = {}
  BY <1>1
<1> QED BY <1>2, <1>3, JsonAssumption DEF Single

(* What comes at each place, with A behind it. *)
LEMMA ValueParts ==
  ASSUME NEW A \in SUBSET Texts
  PROVE  Cat(Values, A) = Cat(Each(Single), A) \union Cat(Each({"["}), Cat(FirstOf("["), A)) \union
                          Cat(Each({"{"}), Cat(FirstOf("{"), A))
<1>0. \A L, M \in SUBSET Texts : Cat(Cat(L, M), A) = Cat(L, Cat(M, A)) BY CatThree
<1> DEFINE S == Each(Single)
           B == Each({"["})
           C == Each({"{"})
<1>1. S \in SUBSET Texts /\ B \in SUBSET Texts /\ C \in SUBSET Texts BY EachTexts, SomeKinds
<1>2. FirstOf("[") \in SUBSET Texts /\ FirstOf("{") \in SUBSET Texts BY PlacesAre
<1>3. Values = (S \union Cat(B, FirstOf("["))) \union Cat(C, FirstOf("{")) BY ValuesAre
<1> HIDE DEF S, B, C
<1>4. Cat((S \union Cat(B, FirstOf("["))) \union Cat(C, FirstOf("{")), A) =
      Cat(S \union Cat(B, FirstOf("[")), A) \union Cat(Cat(C, FirstOf("{")), A)
  <2>1. \A T, D : Cat(T \union D, A) = Cat(T, A) \union Cat(D, A) BY EitherCat
  <2> QED BY <2>1
<1>5. Cat(S \union Cat(B, FirstOf("[")), A) = Cat(S, A) \union Cat(Cat(B, FirstOf("[")), A)
  <2> PICK D : D = Cat(B, FirstOf("[")) OBVIOUS
  <2>1. Cat(S \union D, A) = Cat(S, A) \union Cat(D, A) BY EitherCat
  <2> QED BY <2>1
<1>6. Cat(Cat(B, FirstOf("[")), A) = Cat(B, Cat(FirstOf("["), A))
  BY <1>0, <1>1, <1>2
<1>7. Cat(Cat(C, FirstOf("{")), A) = Cat(C, Cat(FirstOf("{"), A))
  BY <1>0, <1>1, <1>2
<1>8. Cat(Values, A) = (Cat(S, A) \union Cat(B, Cat(FirstOf("["), A))) \union Cat(C, Cat(FirstOf("{"), A))
  BY <1>3, <1>4, <1>5, <1>6, <1>7, Zenon
<1> QED BY <1>8 DEF S, B, C

Openers == {"[", "{"}

LEMMA ValueNext ==
  ASSUME NEW A \in SUBSET Texts, NEW t \in Kinds, NEW y \in Texts
  PROVE  <<t>> \o y \in Cat(Values, A) <=>
           (t \in Single /\ y \in A) \/ (t \in Openers /\ y \in Cat(FirstOf(t), A))
<1>1. FirstOf("[") \in SUBSET Texts /\ FirstOf("{") \in SUBSET Texts BY PlacesAre
<1>2. Cat(FirstOf("["), A) \in SUBSET Texts /\ Cat(FirstOf("{"), A) \in SUBSET Texts
  BY <1>1, CatTexts
<1>3. <<t>> \o y \in Cat(Each(Single), A) <=> t \in Single /\ y \in A
  BY SomeKinds, AfterFirst
<1>4. <<t>> \o y \in Cat(Each({"["}), Cat(FirstOf("["), A)) <=> t \in {"["} /\ y \in Cat(FirstOf("["), A)
  <2>1. {"["} \in SUBSET Kinds BY SomeKinds
  <2> QED BY <1>2, <2>1, AfterFirst
<1>5. <<t>> \o y \in Cat(Each({"{"}), Cat(FirstOf("{"), A)) <=> t \in {"{"} /\ y \in Cat(FirstOf("{"), A)
  <2>1. {"{"} \in SUBSET Kinds BY SomeKinds
  <2> QED BY <1>2, <2>1, AfterFirst
<1>6. <<t>> \o y \in Cat(Values, A) <=>
        \/ <<t>> \o y \in Cat(Each(Single), A)
        \/ <<t>> \o y \in Cat(Each({"["}), Cat(FirstOf("["), A))
        \/ <<t>> \o y \in Cat(Each({"{"}), Cat(FirstOf("{"), A))
  BY ValueParts, Zenon
<1> QED BY <1>3, <1>4, <1>5, <1>6, Zenon DEF Openers

LEMMA ValueFirst ==
  ASSUME NEW A \in SUBSET Texts, NEW x \in Cat(Values, A)
  PROVE  Starts(x, Single \union Openers)
<1>1. FirstOf("[") \in SUBSET Texts /\ FirstOf("{") \in SUBSET Texts BY PlacesAre
<1>2. Cat(FirstOf("["), A) \in SUBSET Texts /\ Cat(FirstOf("{"), A) \in SUBSET Texts
  BY <1>1, CatTexts
<1>3. Single \in SUBSET Kinds /\ {"["} \in SUBSET Kinds /\ {"{"} \in SUBSET Kinds
  BY SomeKinds
<1>4. CASE x \in Cat(Each(Single), A)
  <2>1. Starts(x, Single) BY <1>3, <1>4, BeginsWith
  <2> QED BY <2>1 DEF Starts
<1>5. CASE x \in Cat(Each({"["}), Cat(FirstOf("["), A))
  <2>1. Starts(x, {"["}) BY <1>2, <1>3, <1>5, BeginsWith
  <2> QED BY <2>1 DEF Starts, Openers
<1>6. CASE x \in Cat(Each({"{"}), Cat(FirstOf("{"), A))
  <2>1. Starts(x, {"{"}) BY <1>2, <1>3, <1>6, BeginsWith
  <2> QED BY <2>1 DEF Starts, Openers
<1> QED BY <1>4, <1>5, <1>6, ValueParts

Brackets == {"{", "["}

LEMMA ArrayLoop ==
  ASSUME NEW A \in SUBSET Texts
  PROVE  Cat(LoopOf("["), A) = Cat(Values, Cat(OnOf("["), A))
<1>1. OnOf("[") \in SUBSET Texts BY PlacesAre
<1>2. Cat(Cat(Values, OnOf("[")), A) = Cat(Values, Cat(OnOf("["), A))
  BY <1>1, LanguagesAre, CatThree
<1> QED BY <1>2, LoopsAre, Zenon

LEMMA ObjectLoop ==
  ASSUME NEW A \in SUBSET Texts
  PROVE  Cat(LoopOf("{"), A) =
           Cat(Each(Strings), Cat(Each({":"}), Cat(Values, Cat(OnOf("{"), A))))
<1> DEFINE S == Each(Strings)
           C == Each({":"})
           R == OnOf("{")
<1>1. S \in SUBSET Texts /\ C \in SUBSET Texts /\ R \in SUBSET Texts /\ Values \in SUBSET Texts
  <2>1. {":"} \in SUBSET Kinds /\ Strings \in SUBSET Kinds BY SomeKinds DEF Single
  <2> QED BY <2>1, EachTexts, PlacesAre, LanguagesAre
<1>2. LoopOf("{") = Cat(S, Cat(C, Cat(Values, R))) BY LoopsAre
<1> HIDE DEF S, C, R
<1>3. Cat(Values, R) \in SUBSET Texts BY <1>1, CatTexts
<1>4. Cat(C, Cat(Values, R)) \in SUBSET Texts BY <1>1, <1>3, CatTexts
<1>5. Cat(Cat(S, Cat(C, Cat(Values, R))), A) = Cat(S, Cat(Cat(C, Cat(Values, R)), A))
  BY <1>1, <1>4, CatThree
<1>6. Cat(Cat(C, Cat(Values, R)), A) = Cat(C, Cat(Cat(Values, R), A))
  BY <1>1, <1>3, CatThree
<1>7. Cat(Cat(Values, R), A) = Cat(Values, Cat(R, A)) BY <1>1, CatThree
<1>8. Cat(LoopOf("{"), A) = Cat(S, Cat(C, Cat(Values, Cat(R, A))))
  BY <1>2, <1>5, <1>6, <1>7, Zenon
<1> QED BY <1>8 DEF S, C, R

Enders == {"]", "}", ",", ":"}

(* A member begins with its key, an array's element like a value. *)
LEMMA LoopFirst ==
  ASSUME NEW A \in SUBSET Texts, NEW fn \in Brackets, NEW x \in Cat(LoopOf(fn), A)
  PROVE  Starts(x, Kinds \ Enders) /\ (fn = "{" => Starts(x, Strings))
<1>1. OnOf("[") \in SUBSET Texts /\ OnOf("{") \in SUBSET Texts BY PlacesAre
<1>2. Cat(OnOf("["), A) \in SUBSET Texts /\ Cat(OnOf("{"), A) \in SUBSET Texts
  BY <1>1, CatTexts
<1>3. CASE fn = "["
  <2>1. x \in Cat(Values, Cat(OnOf("["), A)) BY <1>3, ArrayLoop
  <2>2. Starts(x, Single \union Openers) BY <1>2, <2>1, ValueFirst
  <2>3. Single \union Openers \subseteq Kinds \ Enders
    BY SomeKinds, KindsApart DEF Openers, Punctuation, Enders
  <2> QED BY <1>3, <2>2, <2>3 DEF Starts
<1>4. CASE fn = "{"
  <2> DEFINE M == Cat(Each({":"}), Cat(Values, Cat(OnOf("{"), A)))
  <2>1. x \in Cat(Each(Strings), M) BY <1>4, ObjectLoop
  <2>2. M \in SUBSET Texts
    <3>1. Cat(Values, Cat(OnOf("{"), A)) \in SUBSET Texts BY <1>2, LanguagesAre, CatTexts
    <3>2. {":"} \in SUBSET Kinds BY SomeKinds
    <3>3. Each({":"}) \in SUBSET Texts BY <3>2, EachTexts
    <3> QED BY <3>1, <3>3, CatTexts
  <2>3. Strings \in SUBSET Kinds BY SomeKinds DEF Single
  <2> HIDE DEF M
  <2>4. Starts(x, Strings) BY <2>1, <2>2, <2>3, BeginsWith
  <2>5. Strings \subseteq Kinds \ Enders BY <2>3, KindsApart DEF Punctuation, Enders
  <2> QED BY <2>4, <2>5 DEF Starts
<1> QED BY <1>3, <1>4 DEF Brackets

LEMMA FirstParts ==
  ASSUME NEW A \in SUBSET Texts, NEW fn \in Brackets
  PROVE  Cat(FirstOf(fn), A) = Cat(Each({CloseOf(fn)}), A) \union Cat(LoopOf(fn), A)
<1> PICK E, L : E = Each({CloseOf(fn)}) /\ L = LoopOf(fn) OBVIOUS
<1>1. Cat(E \union L, A) = Cat(E, A) \union Cat(L, A) BY EitherCat, SMTT(20)
<1> QED BY <1>1 DEF FirstOf

LEMMA OnParts ==
  ASSUME NEW A \in SUBSET Texts, NEW fn \in Brackets
  PROVE  Cat(OnOf(fn), A) = Cat(Each({CloseOf(fn)}), A) \union
                            Cat(Each({","}), Cat(LoopOf(fn), A))
<1>1. Each({","}) \in SUBSET Texts /\ LoopOf(fn) \in SUBSET Texts
  BY SomeKinds, EachTexts, PlacesAre DEF Brackets
<1>2. Cat(Cat(Each({","}), LoopOf(fn)), A) = Cat(Each({","}), Cat(LoopOf(fn), A))
  BY <1>1, CatThree
<1>3. \A E, L : Cat(E \union L, A) = Cat(E, A) \union Cat(L, A) BY EitherCat
<1> DEFINE E == Each({CloseOf(fn)})
           C == Cat(Each({","}), LoopOf(fn))
<1>4. OnOf(fn) = E \union C BY DEF OnOf
<1> HIDE DEF E, C
<1>5. Cat(OnOf(fn), A) = Cat(E, A) \union Cat(C, A) BY <1>3, <1>4
<1> QED BY <1>2, <1>5, Zenon DEF E, C

LEMMA CloseIs ==
  ASSUME NEW fn \in Brackets
  PROVE  {CloseOf(fn)} \in SUBSET Kinds /\ CloseOf(fn) \in Enders
BY SomeKinds DEF CloseOf, Enders

LEMMA FirstNext ==
  ASSUME NEW A \in SUBSET Texts, NEW fn \in Brackets, NEW y \in Texts
  PROVE  <<CloseOf(fn)>> \o y \in Cat(FirstOf(fn), A) <=> y \in A
<1> DEFINE c == CloseOf(fn)
<1>1. c \in Kinds /\ {c} \in SUBSET Kinds /\ c \in Enders BY CloseIs
<1> HIDE DEF c
<1>2. <<c>> \o y \in Cat(Each({c}), A) <=> y \in A
  <2>1. <<c>> \o y \in Cat(Each({c}), A) <=> c \in {c} /\ y \in A BY <1>1, AfterFirst
  <2> QED BY <2>1
<1>3. <<c>> \o y \notin Cat(LoopOf(fn), A)
  <2>1. (<<c>> \o y)[1] = c BY <1>1, HeadIs
  <2>2. <<c>> \o y \in Cat(LoopOf(fn), A) => Starts(<<c>> \o y, Kinds \ Enders) BY LoopFirst
  <2> QED BY <1>1, <2>1, <2>2 DEF Starts
<1>4. Cat(FirstOf(fn), A) = Cat(Each({c}), A) \union Cat(LoopOf(fn), A) BY FirstParts DEF c
<1>5. <<c>> \o y \in Cat(FirstOf(fn), A) <=> y \in A BY <1>2, <1>3, <1>4
<1> QED BY <1>5 DEF c

LEMMA OnNext ==
  ASSUME NEW A \in SUBSET Texts, NEW fn \in Brackets, NEW y \in Texts
  PROVE  /\ <<CloseOf(fn)>> \o y \in Cat(OnOf(fn), A) <=> y \in A
         /\ <<",">> \o y \in Cat(OnOf(fn), A) <=> y \in Cat(LoopOf(fn), A)
<1> DEFINE c == CloseOf(fn)
           L == Cat(LoopOf(fn), A)
           P == Cat(Each({c}), A)
           Q == Cat(Each({","}), L)
<1>1. c \in Kinds /\ {c} \in SUBSET Kinds /\ "," \in Kinds /\ {","} \in SUBSET Kinds /\ c # ","
  BY SomeKinds DEF CloseOf
<1>2. L \in SUBSET Texts BY PlacesAre, CatTexts DEF Brackets
<1>3. Cat(OnOf(fn), A) = P \union Q BY OnParts
<1>4. /\ <<c>> \o y \in P <=> c \in {c} /\ y \in A
      /\ <<",">> \o y \in P <=> "," \in {c} /\ y \in A
  <2> HIDE DEF c
  <2> QED BY <1>1, AfterFirst
<1>5. /\ <<c>> \o y \in Q <=> c \in {","} /\ y \in L
      /\ <<",">> \o y \in Q <=> "," \in {","} /\ y \in L
  <2> HIDE DEF c, L
  <2> QED BY <1>1, <1>2, AfterFirst
<1> HIDE DEF c, L, P, Q
<1>6. /\ <<c>> \o y \in P \union Q <=> y \in A
      /\ <<",">> \o y \in P \union Q <=> y \in L
  BY <1>1, <1>4, <1>5
<1> QED BY <1>3, <1>6 DEF c, L

LEMMA OnFirst ==
  ASSUME NEW A \in SUBSET Texts, NEW fn \in Brackets, NEW x \in Cat(OnOf(fn), A)
  PROVE  Starts(x, {CloseOf(fn), ","})
<1>1. {CloseOf(fn)} \in SUBSET Kinds /\ {","} \in SUBSET Kinds BY CloseIs, SomeKinds
<1>2. Cat(LoopOf(fn), A) \in SUBSET Texts BY PlacesAre, CatTexts DEF Brackets
<1>3. CASE x \in Cat(Each({CloseOf(fn)}), A)
  <2>1. Starts(x, {CloseOf(fn)}) BY <1>1, <1>3, BeginsWith
  <2> QED BY <2>1 DEF Starts
<1>4. CASE x \in Cat(Each({","}), Cat(LoopOf(fn), A))
  <2>1. Starts(x, {","}) BY <1>1, <1>2, <1>4, BeginsWith
  <2> QED BY <2>1 DEF Starts
<1> QED BY <1>3, <1>4, OnParts

-----------------------------------------------------------------------------
(***************************************************************************)
(* The invariant.  What is left to read is a language: what the innermost  *)
(* place still needs, followed by what each call around it needs.  A text  *)
(* of it completes what was read to a value, and a text that does so and   *)
(* begins with the token looked at is one of it.                           *)
(***************************************************************************)
(* t is the first token of y, or the end of it. *)
Fits(y, t) == IF y = <<>> THEN t = EOF ELSE y[1] = t

Promises(read, R, t) ==
  /\ \A y \in R : read \o y \in Values
  /\ \A y \in Texts : Fits(y, t) /\ read \o y \in Values => y \in R

Refused(read, t) == \A y \in Texts : Fits(y, t) => read \o y \notin Values

(* on is what follows a value at this level, below what follows the call. *)
LeftAt(place, fn, on, below) ==
  CASE place = "value"                -> Cat(Values, on)
    [] place \in {"returned", "after"} -> on
    [] place = "first"                -> Cat(FirstOf(fn), below)
    [] place = "loop"                 -> Cat(LoopOf(fn), below)
    [] OTHER                          -> Cat(Each({":"}), Cat(Values, on))

Layers(A) ==
  /\ A \in [0..Depth -> SUBSET Texts] /\ A[0] = {<<>>}
  /\ \A k \in 1..Depth : A[k] = Cat(OnOf(stack[k].fn), A[k-1])

Left(A) == LeftAt(pc, stack[Depth].fn, A[Depth], A[Depth-1])

Promised == \E A : Layers(A) /\ Promises(Read, Left(A), look)

Reads == /\ doc # <<>> /\ Read \in Texts
         /\ Len(doc) <= MaxTokens \/ (Len(doc) = MaxTokens + 1 /\ look = EOF)

JInv ==
  /\ pc = "start" => doc = <<>> /\ ~ok
  /\ Parsing \/ pc = "free" => Reads
  /\ Parsing /\ (pc = "returned" => ok) => Promised
  /\ pc = "returned" /\ ~ok /\ fails = 0 => Refused(Read, look)
  /\ pc = "free" /\ rc = 0 => ok
  /\ pc = "free" /\ rc = 1 /\ fails = 0 => Refused(Read, look)
  /\ pc \in {"free", "done"} /\ ok => Reads /\ Read \in Values

LEMMA AddOne ==
  ASSUME NEW read \in Texts, NEW t \in Kinds, NEW R \in SUBSET Texts, NEW RR \in SUBSET Texts,
         Promises(read, R, t), \A y \in Texts : <<t>> \o y \in R <=> y \in RR, NEW u
  PROVE  Promises(read \o <<t>>, RR, u)
<1>1. \A y \in Texts : (read \o <<t>>) \o y = read \o (<<t>> \o y) /\ <<t>> \o y \in Texts
  BY OneToken, Joins, JoinsThree
<1>2. \A y \in Texts : Fits(<<t>> \o y, t) BY HeadIs DEF Fits
<1>3. ASSUME NEW y \in RR PROVE (read \o <<t>>) \o y \in Values
  BY <1>1 DEF Promises
<1>4. ASSUME NEW y \in Texts, (read \o <<t>>) \o y \in Values PROVE y \in RR
  <2>1. read \o (<<t>> \o y) \in Values BY <1>1, <1>4
  <2>2. <<t>> \o y \in R BY <1>1, <1>2, <2>1 DEF Promises
  <2> QED BY <2>2
<1> QED BY <1>3, <1>4 DEF Promises

LEMMA Narrow ==
  ASSUME NEW read, NEW t, NEW R, NEW RR, Promises(read, R, t), RR \subseteq R,
         \A y \in R : Fits(y, t) => y \in RR
  PROVE  Promises(read, RR, t)
BY DEF Promises

LEMMA NoneFits ==
  ASSUME NEW read, NEW t, NEW R \in SUBSET Texts, Promises(read, R, t),
         NEW S, \A y \in R : Starts(y, S), t \notin S
  PROVE  Refused(read, t)
<1>1. \A y \in R : ~Fits(y, t) BY DEF Fits, Starts
<1> QED BY <1>1 DEF Promises, Refused

(* The next token is asked for. *)
LEMMA NextToken ==
  ASSUME doc \in Seq(Kinds \union {EOF}), Reads, look \in Kinds, next
  PROVE  Reads' /\ Read' = Read \o <<look>> /\ Read' \in Texts
<1>1. PICK t \in Kinds \union {EOF} : doc' = Append(doc, t) /\ (Len(doc) < MaxTokens \/ t = EOF)
  BY DEF next
<1> DEFINE n == Len(doc)
<1>2. n \in Nat /\ n >= 1 BY DEF Reads
<1>3. n <= MaxTokens BY KindsApart DEF Reads
<1>4. /\ doc' \in Seq(Kinds \union {EOF}) /\ Len(doc') = n + 1 /\ doc'[n+1] = t
      /\ \A k \in 1..n : doc'[k] = doc[k]
  BY <1>1, AppendProperties
<1>5. look' = t BY <1>4 DEF look
<1>6. Read' = doc
  <2>1. Read' = SubSeq(doc', 1, n) BY <1>2, <1>4 DEF Read
  <2>2. SubSeq(doc', 1, n) = doc
    <3>1. SubSeq(doc', 1, n) \in Seq(Kinds \union {EOF}) /\ Len(SubSeq(doc', 1, n)) = n
          /\ \A k \in 1..n : SubSeq(doc', 1, n)[k] = doc'[k]
      BY <1>2, <1>4, SubSeqProperties
    <3> QED BY <1>4, <3>1, SeqEqual
  <2> QED BY <2>1, <2>2
<1>7. doc = Read \o <<look>>
  <2>1. Read \in Seq(Kinds \union {EOF}) /\ Len(Read) = n - 1
        /\ \A k \in 1..n-1 : Read[k] = doc[k]
    <3>1. n - 1 \in 0..n BY <1>2
    <3> PICK m : m = n - 1 OBVIOUS
    <3>2. /\ SubSeq(doc, 1, m) \in Seq(Kinds \union {EOF}) /\ Len(SubSeq(doc, 1, m)) = m
          /\ \A k \in 1..m : SubSeq(doc, 1, m)[k] = doc[k]
      BY <1>2, <3>1, SubSeqProperties
    <3> QED BY <3>2 DEF Read
  <2>2. Append(Read, look) = Read \o <<look>> BY <2>1, AppendIsConcat
  <2>3. /\ Append(Read, look) \in Seq(Kinds \union {EOF}) /\ Len(Append(Read, look)) = n
        /\ \A k \in 1..n : Append(Read, look)[k] = doc[k]
    BY <1>2, <2>1, AppendProperties DEF look
  <2>4. doc = Append(Read, look) BY <2>3, SeqEqual
  <2> QED BY <2>2, <2>4
<1>8. Read' \in Texts BY <1>6, <1>7, OneToken, Joins DEF Reads
<1>9. doc' # <<>> BY <1>2, <1>4
<1>10. Len(doc') <= MaxTokens \/ (Len(doc') = MaxTokens + 1 /\ look' = EOF)
  BY <1>1, <1>2, <1>3, <1>4, <1>5, JsonAssumption
<1> QED BY <1>6, <1>7, <1>8, <1>9, <1>10 DEF Reads

LEMMA Onward ==
  ASSUME doc \in Seq(Kinds \union {EOF}), Reads, look \in Kinds, next,
         NEW R \in SUBSET Texts, NEW RR \in SUBSET Texts, Promises(Read, R, look),
         \A y \in Texts : <<look>> \o y \in R <=> y \in RR
  PROVE  Reads' /\ Promises(Read', RR, look')
<1>1. Reads' /\ Read' = Read \o <<look>> BY NextToken
<1>2. Read \in Texts BY DEF Reads
<1>3. PICK t \in Kinds, r \in Texts : t = look /\ r = Read BY <1>2
<1>4. Promises(r \o <<t>>, RR, look') BY <1>3, AddOne
<1> QED BY <1>1, <1>3, <1>4

LEMMA LeftIs ==
  ASSUME NEW fn, NEW on, NEW below
  PROVE  /\ LeftAt("value", fn, on, below) = Cat(Values, on)
         /\ LeftAt("returned", fn, on, below) = on
         /\ LeftAt("after", fn, on, below) = on
         /\ LeftAt("first", fn, on, below) = Cat(FirstOf(fn), below)
         /\ LeftAt("loop", fn, on, below) = Cat(LoopOf(fn), below)
         /\ LeftAt("colon", fn, on, below) = Cat(Each({":"}), Cat(Values, on))
BY DEF LeftAt

LEMMA PlaceTexts ==
  ASSUME NEW A \in SUBSET Texts, NEW fn \in Brackets
  PROVE  /\ Cat(Values, A) \in SUBSET Texts /\ Cat(FirstOf(fn), A) \in SUBSET Texts
         /\ Cat(LoopOf(fn), A) \in SUBSET Texts /\ Cat(OnOf(fn), A) \in SUBSET Texts
         /\ Cat(Each({":"}), Cat(Values, A)) \in SUBSET Texts
<1>1. Cat(Values, A) \in SUBSET Texts BY LanguagesAre, CatTexts
<1>2. FirstOf(fn) \in SUBSET Texts /\ LoopOf(fn) \in SUBSET Texts /\ OnOf(fn) \in SUBSET Texts
  BY PlacesAre DEF Brackets
<1>3. {":"} \in SUBSET Kinds BY SomeKinds
<1>4. Each({":"}) \in SUBSET Texts BY <1>3, EachTexts
<1> QED BY <1>1, <1>2, <1>4, CatTexts

LEMMA TypesAre ==
  ASSUME PInv
  PROVE  /\ doc \in Seq(Kinds \union {EOF}) /\ stack \in Seq(Call) /\ Depth \in Nat
         /\ ok \in BOOLEAN /\ fails \in Nat /\ rc \in {0, 1}
<1>1. doc \in Seq(Kinds \union {EOF}) /\ ok \in BOOLEAN /\ rc \in {0, 1} BY DEF PInv, TypeOK
<1>2. fails \in Nat
  <2>1. fails \in 0..MaxFails BY DEF PInv, TypeOK
  <2> QED BY <2>1, BoundsAre
<1>3. stack \in Seq(Call) BY DEF PInv, TypeOK, Call
<1>4. Depth \in Nat
  <2>1. Len(stack) \in Nat BY <1>3
  <2> QED BY <2>1 DEF Depth
<1> QED BY <1>1, <1>2, <1>3, <1>4

(* The innermost call. *)
LEMMA Inside ==
  ASSUME PInv, pc \in {"first", "loop", "colon", "after"} \/ (pc = "returned" /\ stack # <<>>)
  PROVE  /\ Depth \in Nat /\ Depth > 0 /\ Top = stack[Depth] /\ Top.fn \in Brackets
         /\ Closing = CloseOf(Top.fn)
<1>1. stack \in Seq(Call) /\ Depth \in Nat BY TypesAre
<1>2. Depth > 0
  <2>1. CASE pc \in {"first", "loop", "colon", "after"}
    <3>1. Turn BY <2>1, Levels DEF Parsing
    <3> QED BY <2>1, <3>1 DEF Turn
  <2>2. CASE stack # <<>> BY <1>1, <2>2 DEF Depth
  <2> QED BY <2>1, <2>2
<1>3. Depth \in 1..Len(stack) BY <1>1, <1>2 DEF Depth
<1>4. stack[Depth] \in Call BY <1>1, <1>3
<1> QED BY <1>1, <1>2, <1>4 DEF Top, Depth, Call, Brackets, Closing, CloseOf

LEMMA LayersHere ==
  ASSUME PInv, NEW A, Layers(A)
  PROVE  /\ A[Depth] \in SUBSET Texts
         /\ Depth > 0 => A[Depth-1] \in SUBSET Texts /\ A[Depth] = Cat(OnOf(stack[Depth].fn), A[Depth-1])
<1>1. Depth \in Nat BY TypesAre
<1> QED BY <1>1 DEF Layers

LEMMA LayersSame ==
  ASSUME PInv, NEW A, Layers(A), Depth' = Depth, \A k \in 1..Depth : stack'[k].fn = stack[k].fn
  PROVE  Layers(A)'
BY DEF Layers

LEMMA LayersPop ==
  ASSUME PInv, Depth > 0, NEW A, Layers(A), stack' = SubSeq(stack, 1, Len(stack) - 1)
  PROVE  Depth' = Depth - 1 /\ \E B : Layers(B)' /\ B[Depth'] = A[Depth-1]
<1>1. stack \in Seq(Call) /\ Depth \in Nat /\ Len(stack) = Depth BY TypesAre DEF Depth
<1>2. PICK n \in Nat : n = Depth - 1 BY <1>1
<1>3. Len(stack') = n /\ \A k \in 1..n : stack'[k] = stack[k]
  <2>1. \A k \in 1..n : stack[k] \in Call BY <1>1, <1>2
  <2>2. stack' = SubSeq(stack, 1, n) BY <1>1, <1>2
  <2> QED BY <1>2, <2>1, <2>2, SubSeqProperties
<1>4. Depth' = n BY <1>3 DEF Depth
<1> DEFINE B == [k \in 0..n |-> A[k]]
<1>5. B \in [0..n -> SUBSET Texts] /\ B[0] = {<<>>} BY <1>1, <1>2 DEF Layers
<1>6. \A k \in 1..n : B[k] = Cat(OnOf(stack'[k].fn), B[k-1]) BY <1>1, <1>2, <1>3 DEF Layers
<1>7. B[n] = A[Depth-1] BY <1>2
<1> HIDE DEF B
<1>8. Layers(B)' BY <1>4, <1>5, <1>6 DEF Layers
<1> QED BY <1>2, <1>4, <1>7, <1>8

LEMMA LayersPush ==
  ASSUME PInv, NEW A, Layers(A), NEW c \in Call, stack' = Append(stack, c)
  PROVE  /\ Depth' = Depth + 1 /\ stack'[Depth'] = c
         /\ \E B : Layers(B)' /\ B[Depth'-1] = A[Depth]
<1>1. stack \in Seq(Call) /\ Depth \in Nat /\ Len(stack) = Depth BY TypesAre DEF Depth
<1>2. PICK n \in Nat : n = Depth + 1 BY <1>1
<1>3. Len(stack') = n /\ stack'[n] = c /\ \A k \in 1..Depth : stack'[k] = stack[k]
  BY <1>1, <1>2, AppendProperties
<1>4. Depth' = n BY <1>3 DEF Depth
<1> DEFINE on == Cat(OnOf(c.fn), A[Depth])
           B == [k \in 0..n |-> IF k = n THEN on ELSE A[k]]
<1>5. on \in SUBSET Texts
  <2>1. A[Depth] \in SUBSET Texts BY LayersHere
  <2>2. c.fn \in Brackets BY DEF Call, Brackets
  <2> QED BY <2>1, <2>2, PlaceTexts
<1>6. B \in [0..n -> SUBSET Texts] /\ B[0] = {<<>>}
  <2> HIDE DEF on
  <2> QED BY <1>1, <1>2, <1>5 DEF Layers
<1>7. \A k \in 1..n : B[k] = Cat(OnOf(stack'[k].fn), B[k-1])
  <2> SUFFICES ASSUME NEW k \in 1..n PROVE B[k] = Cat(OnOf(stack'[k].fn), B[k-1]) OBVIOUS
  <2>1. k - 1 \in 0..n /\ k - 1 # n /\ B[k-1] = A[k-1] BY <1>2
  <2>2. CASE k = n
    <3>1. B[k] = on /\ k - 1 = Depth /\ stack'[k] = c BY <1>1, <1>2, <1>3, <2>2
    <3> HIDE DEF B
    <3> QED BY <2>1, <3>1
  <2>3. CASE k # n
    <3>1. k \in 1..Depth /\ B[k] = A[k] /\ stack'[k] = stack[k] BY <1>1, <1>2, <1>3, <2>3
    <3>2. A[k] = Cat(OnOf(stack[k].fn), A[k-1]) BY <3>1 DEF Layers
    <3> HIDE DEF B
    <3> QED BY <2>1, <3>1, <3>2
  <2> QED BY <2>2, <2>3
<1>8. B[n-1] = A[Depth] BY <1>1, <1>2
<1> HIDE DEF B
<1> PICK C : C = B OBVIOUS
<1>9. Layers(C)'
  <2>1. C \in [0..Depth' -> SUBSET Texts] BY <1>4, <1>6
  <2>2. \A k \in 1..Depth' : C[k] = Cat(OnOf(stack'[k].fn), C[k-1]) BY <1>4, <1>7
  <2>3. C[0] = {<<>>} BY <1>6
  <2> QED BY <2>1, <2>2, <2>3, Zenon DEF Layers
<1>10. Depth' = Depth + 1 /\ stack'[Depth'] = c BY <1>2, <1>3, <1>4
<1>11. C[Depth'-1] = A[Depth] BY <1>4, <1>8
<1> QED BY <1>9, <1>10, <1>11

(* What has to be shown of a step, and what is known before it. *)
LEMMA StillPromised ==
  ASSUME pc' \in {"value", "first", "loop", "colon", "returned", "after"}, pc' = "returned" => ok',
         Reads', NEW B, Layers(B)', Promises(Read', Left(B)', look')
  PROVE  JInv'
<1>1. Promised' BY DEF Promised
<1> QED BY <1>1 DEF JInv, Parsing

LEMMA NowRefused ==
  ASSUME pc' = "returned", ~ok', Reads', fails' = 0 => Refused(Read', look')
  PROVE  JInv'
BY DEF JInv, Parsing

LEMMA WasPromised ==
  ASSUME JInv, Parsing, pc = "returned" => ok
  PROVE  Reads /\ \E A : Layers(A) /\ Promises(Read, Left(A), look)
BY DEF JInv, Promised

(* Nothing is read: Read and the token looked at stay. *)
LEMMA SameDoc ==
  ASSUME UNCHANGED doc
  PROVE  Read' = Read /\ look' = look /\ (Reads => Reads')
BY DEF Read, look, Reads

LEMMA OutOfMemory ==
  ASSUME PInv, NoMemory
  PROVE  fails' # 0
<1>1. fails \in Nat BY TypesAre
<1> QED BY <1>1 DEF NoMemory

-----------------------------------------------------------------------------
(* The steps of parse_value, parse_array and parse_object.                 *)
LEMMA LeftTexts ==
  ASSUME PInv, Parsing, NEW A, Layers(A)
  PROVE  Left(A) \in SUBSET Texts
<1>1. A[Depth] \in SUBSET Texts BY LayersHere
<1>2. CASE pc = "value"
  <2>1. Left(A) = Cat(Values, A[Depth]) BY <1>2, LeftIs DEF Left
  <2> QED BY <1>1, <2>1, LanguagesAre, CatTexts
<1>3. CASE pc \in {"returned", "after"}
  <2>1. Left(A) = A[Depth] BY <1>3, LeftIs DEF Left
  <2> QED BY <1>1, <2>1
<1>4. CASE pc \in {"first", "loop", "colon"}
  <2>1. Depth > 0 /\ stack[Depth].fn \in Brackets BY <1>4, Inside
  <2>2. A[Depth-1] \in SUBSET Texts BY <2>1, LayersHere
  <2>3. PICK fn \in Brackets, below \in SUBSET Texts :
           fn = stack[Depth].fn /\ below = A[Depth-1] BY <2>1, <2>2
  <2>4. CASE pc = "first"
    <3>1. Left(A) = Cat(FirstOf(fn), below) BY <2>3, <2>4, LeftIs DEF Left
    <3> QED BY <3>1, PlaceTexts
  <2>5. CASE pc = "loop"
    <3>1. Left(A) = Cat(LoopOf(fn), below) BY <2>3, <2>5, LeftIs DEF Left
    <3> QED BY <3>1, PlaceTexts
  <2>6. CASE pc = "colon"
    <3>1. Left(A) = Cat(Each({":"}), Cat(Values, A[Depth])) BY <2>6, LeftIs DEF Left
    <3> QED BY <1>1, <2>3, <3>1, PlaceTexts
  <2> QED BY <1>4, <2>4, <2>5, <2>6
<1> QED BY <1>2, <1>3, <1>4 DEF Parsing

(* A token is passed. *)
LEMMA Forward ==
  ASSUME PInv, Parsing, Reads, next, look \in Kinds,
         pc' \in {"value", "first", "loop", "colon", "returned", "after"}, pc' = "returned" => ok',
         NEW A, Layers(A), Promises(Read, Left(A), look),
         NEW B, Layers(B)', Left(B)' \in SUBSET Texts,
         \A y \in Texts : <<look>> \o y \in Left(A) <=> y \in Left(B)'
  PROVE  JInv'
<1>1. Left(A) \in SUBSET Texts BY LeftTexts
<1>2. doc \in Seq(Kinds \union {EOF}) BY TypesAre
<1>3. PICK R \in SUBSET Texts, RR \in SUBSET Texts : R = Left(A) /\ RR = Left(B)' BY <1>1
<1>4. Promises(Read, R, look) /\ \A y \in Texts : <<look>> \o y \in R <=> y \in RR BY <1>3
<1>5. Reads' /\ Promises(Read', RR, look') BY <1>2, <1>4, Onward
<1>6. Promises(Read', Left(B)', look') BY <1>3, <1>5
<1> QED BY <1>5, <1>6, StillPromised

(* None is, and what is left is at most narrowed to what fits. *)
LEMMA Waits ==
  ASSUME UNCHANGED doc, Reads,
         pc' \in {"value", "first", "loop", "colon", "after"},
         NEW A, Promises(Read, Left(A), look), NEW B, Layers(B)', Left(B)' \subseteq Left(A),
         \A y \in Left(A) : Fits(y, look) => y \in Left(B)'
  PROVE  JInv'
<1>1. Read' = Read /\ look' = look /\ Reads' BY SameDoc
<1>2. Promises(Read, Left(B)', look) BY Narrow
<1>3. Promises(Read', Left(B)', look') BY <1>1, <1>2
<1> QED BY <1>1, <1>3, StillPromised

LEMMA Refuses ==
  ASSUME PInv, JInv, Parsing, pc = "returned" => ok, UNCHANGED doc, pc' = "returned", ~ok',
         NEW S, look \notin S, \A A : Layers(A) => \A y \in Left(A) : Starts(y, S)
  PROVE  JInv'
<1>1. PICK A : Layers(A) /\ Promises(Read, Left(A), look) BY WasPromised
<1>2. Left(A) \in SUBSET Texts BY <1>1, LeftTexts
<1>3. \A y \in Left(A) : Starts(y, S) BY <1>1
<1>4. Refused(Read, look) BY <1>1, <1>2, <1>3, NoneFits
<1>5. Read' = Read /\ look' = look /\ Reads' BY SameDoc, WasPromised
<1>6. Refused(Read', look') BY <1>4, <1>5
<1> QED BY <1>5, <1>6, NowRefused

LEMMA RunsOut ==
  ASSUME PInv, JInv, Parsing, NoMemory, UNCHANGED doc \/ (next /\ look \in Kinds),
         pc' = "returned", ~ok'
  PROVE  JInv'
<1>1. Reads BY DEF JInv
<1>2. Reads'
  <2>1. CASE UNCHANGED doc BY <1>1, <2>1, SameDoc
  <2>2. CASE next /\ look \in Kinds BY <1>1, <2>2, NextToken, TypesAre
  <2> QED BY <2>1, <2>2
<1>3. fails' # 0 BY OutOfMemory
<1> QED BY <1>2, <1>3, NowRefused

(* The level is the same. *)
LEMMA SameLevel ==
  ASSUME PInv, NEW A, Layers(A), UNCHANGED stack
  PROVE  Layers(A)' /\ Depth' = Depth
<1>1. Depth' = Depth BY DEF Depth
<1>2. \A k \in 1..Depth : stack'[k].fn = stack[k].fn OBVIOUS
<1> QED BY <1>1, <1>2, LayersSame

LEMMA GoesSingle ==
  ASSUME PInv, JInv, pc = "value", look \in Single, next, UNCHANGED stack, pc' = "returned", ok'
  PROVE  JInv'
<1>0. Parsing BY DEF Parsing
<1>1. PICK A : Layers(A) /\ Promises(Read, Left(A), look) BY <1>0, WasPromised
<1>2. PICK on \in SUBSET Texts : on = A[Depth] BY <1>1, LayersHere
<1>3. Left(A) = Cat(Values, on) BY <1>2, LeftIs DEF Left
<1>4. Layers(A)' /\ Depth' = Depth BY <1>1, SameLevel
<1>5. Left(A)' = on BY <1>2, <1>4, LeftIs DEF Left
<1>6. PICK t \in Kinds : t = look BY SomeKinds
<1>7. t \notin Openers /\ t \in Single BY <1>6, KindsApart DEF Openers, Punctuation
<1>8. \A y \in Texts : <<t>> \o y \in Cat(Values, on) <=> y \in on BY <1>7, ValueNext
<1>9. Reads BY <1>0, WasPromised
<1> QED BY <1>0, <1>1, <1>3, <1>4, <1>5, <1>6, <1>8, <1>9, Forward

LEMMA GoesLiteral == PInv /\ JInv /\ ValueLiteral => JInv'
<1> SUFFICES ASSUME PInv, JInv, ValueLiteral PROVE JInv' OBVIOUS
<1>1. pc = "value" /\ look \in Scalars /\ next /\ UNCHANGED stack /\ pc' = "returned" /\ ok'
  BY DEF ValueLiteral, Return
<1>2. look \in Single BY <1>1 DEF Single
<1> QED BY <1>1, <1>2, GoesSingle

LEMMA GoesNumber == PInv /\ JInv /\ ValueNumber => JInv'
<1> SUFFICES ASSUME PInv, JInv, ValueNumber PROVE JInv' OBVIOUS
<1>1. /\ pc = "value" /\ look \in Numbers /\ UNCHANGED stack /\ pc' = "returned"
      /\ (next /\ ok') \/ (NoMemory /\ UNCHANGED doc /\ ~ok')
  BY DEF ValueNumber, Return
<1>2. look \in Single BY <1>1 DEF Single
<1>3. Parsing BY <1>1 DEF Parsing
<1> QED BY <1>1, <1>2, <1>3, GoesSingle, RunsOut

LEMMA GoesString == PInv /\ JInv /\ ValueString => JInv'
<1> SUFFICES ASSUME PInv, JInv, ValueString PROVE JInv' OBVIOUS
<1>1. /\ pc = "value" /\ look \in Strings /\ UNCHANGED stack /\ pc' = "returned"
      /\ next /\ (ok' \/ (NoMemory /\ ~ok'))
  BY DEF ValueString, Return
<1>2. look \in Single /\ look \in Kinds BY <1>1 DEF Single, Kinds
<1>3. Parsing BY <1>1 DEF Parsing
<1> QED BY <1>1, <1>2, <1>3, GoesSingle, RunsOut

LEMMA ValueStarts ==
  ASSUME PInv, pc = "value", NEW A, Layers(A)
  PROVE  \A y \in Left(A) : Starts(y, Single \union Openers)
<1>1. A[Depth] \in SUBSET Texts BY LayersHere
<1>2. Left(A) = Cat(Values, A[Depth]) BY LeftIs DEF Left
<1> QED BY <1>1, <1>2, ValueFirst

LEMMA GoesUnexpected == PInv /\ JInv /\ ValueUnexpected => JInv'
<1> SUFFICES ASSUME PInv, JInv, ValueUnexpected PROVE JInv' OBVIOUS
<1>1. /\ pc = "value" /\ look \in (Punctuation \ {"{", "["}) \union Errors \union {EOF}
      /\ UNCHANGED doc /\ pc' = "returned" /\ ~ok'
  BY DEF ValueUnexpected, Return
<1>2. Parsing BY <1>1 DEF Parsing
<1> DEFINE S == Single \union Openers
<1>3. look \notin S
  <2>1. look \notin Openers
    <3>1. Openers \subseteq Punctuation BY DEF Openers, Punctuation
    <3>2. CASE look \in Punctuation \ {"{", "["} BY <3>2 DEF Openers
    <3>3. CASE look \in Errors BY <3>1, <3>3, KindsApart
    <3>4. CASE look = EOF BY <3>1, <3>4, SomeKinds, KindsApart
    <3> QED BY <1>1, <3>2, <3>3, <3>4
  <2>2. look \notin Single
    <3>2. CASE look \in Punctuation \ {"{", "["} BY <3>2, KindsApart
    <3>3. CASE look \in Errors BY <3>3, KindsApart
    <3>4. CASE look = EOF BY <3>4, SomeKinds, KindsApart
    <3> QED BY <1>1, <3>2, <3>3, <3>4
  <2> QED BY <2>1, <2>2
<1>4. ASSUME NEW A, Layers(A) PROVE \A y \in Left(A) : Starts(y, S)
  BY <1>1, <1>4, ValueStarts
<1> HIDE DEF S
<1> QED BY <1>1, <1>2, <1>3, <1>4, Refuses

(* A level is entered or left. *)
LEMMA OutIsNat ==
  ASSUME PInv, Parsing
  PROVE  Out \in Nat
<1>1. Depth \in Nat /\ Depth \in 0..Depth BY TypesAre
<1>2. At(Depth) \in Nat BY <1>1, Levels DEF Blocks, NULL
<1> QED BY OutIs, <1>2

LEMMA GoesOpen == PInv /\ JInv /\ ValueOpen => JInv'
<1> SUFFICES ASSUME PInv, JInv, ValueOpen PROVE JInv' OBVIOUS
<1>1. /\ pc = "value" /\ look \in Brackets /\ next /\ pc' = "first"
      /\ stack' = Append(stack, [fn |-> look, out |-> Out, elem |-> NULL, key |-> NULL])
  BY DEF ValueOpen, Go, Brackets
<1>2. Parsing BY <1>1 DEF Parsing
<1>3. PICK A : Layers(A) /\ Promises(Read, Left(A), look) BY <1>1, <1>2, WasPromised
<1>4. PICK on \in SUBSET Texts : on = A[Depth] BY <1>3, LayersHere
<1>5. Left(A) = Cat(Values, on) BY <1>1, <1>4, LeftIs DEF Left
<1>6. PICK c \in Call : stack' = Append(stack, c) /\ c.fn = look
  <2>1. Out \in Nat BY <1>2, OutIsNat
  <2>2. [fn |-> look, out |-> Out, elem |-> NULL, key |-> NULL] \in Call
    BY <1>1, <2>1 DEF Call, NULL, Brackets
  <2> QED BY <1>1, <2>2
<1>7. PICK B : stack'[Depth'] = c /\ Layers(B)' /\ B[Depth'-1] = on
  BY <1>3, <1>4, <1>6, LayersPush
<1>8. Left(B)' = Cat(FirstOf(look), on)
  <2>1. pc' = "first" /\ stack'[Depth'].fn = look /\ B[(Depth-1)'] = on BY <1>1, <1>6, <1>7
  <2> QED BY <2>1, LeftIs DEF Left
<1>9. PICK t \in Kinds : t = look /\ t \in Brackets BY <1>1, SomeKinds DEF Brackets
<1>10. t \in Openers /\ t \notin Single
  <2>1. t \in Openers /\ t \in Punctuation BY <1>9 DEF Openers, Brackets, Punctuation
  <2> QED BY <2>1, KindsApart
<1>11. \A y \in Texts : <<t>> \o y \in Cat(Values, on) <=> y \in Cat(FirstOf(t), on)
  BY <1>10, ValueNext
<1>12. Cat(FirstOf(t), on) \in SUBSET Texts BY <1>9, PlaceTexts
<1>13. Reads BY <1>1, <1>2, WasPromised
<1> QED BY <1>1, <1>2, <1>3, <1>5, <1>7, <1>8, <1>9, <1>11, <1>12, <1>13, Forward

(* The closing bracket is passed. *)
LEMMA GoesUp ==
  ASSUME PInv, JInv, pc \in {"first", "after"}, look = Closing, next, Leave(TRUE)
  PROVE  JInv'
<1>1. Parsing BY DEF Parsing
<1>2. PICK A : Layers(A) /\ Promises(Read, Left(A), look) BY <1>1, WasPromised
<1>3. Depth > 0 /\ stack[Depth].fn \in Brackets /\ Closing = CloseOf(stack[Depth].fn)
  BY Inside
<1>4. PICK fn \in Brackets, below \in SUBSET Texts :
         /\ fn = stack[Depth].fn /\ below = A[Depth-1] /\ A[Depth] = Cat(OnOf(fn), below)
  BY <1>2, <1>3, LayersHere
<1>5. look = CloseOf(fn) BY <1>3, <1>4
<1>6. \A y \in Texts : <<look>> \o y \in Left(A) <=> y \in below
  <2>1. CASE pc = "first"
    <3>1. Left(A) = Cat(FirstOf(fn), below) BY <1>4, <2>1, LeftIs DEF Left
    <3> QED BY <1>5, <3>1, FirstNext
  <2>2. CASE pc = "after"
    <3>1. Left(A) = Cat(OnOf(fn), below) BY <1>4, <2>2, LeftIs DEF Left
    <3>2. \A y \in Texts : <<CloseOf(fn)>> \o y \in Cat(OnOf(fn), below) <=> y \in below
      BY OnNext
    <3> QED BY <1>5, <3>1, <3>2
  <2> QED BY <2>1, <2>2
<1>7. /\ pc' = "returned" /\ ok' /\ stack' = SubSeq(stack, 1, Len(stack) - 1)
  BY DEF Leave, Return
<1>8. PICK B : Layers(B)' /\ B[Depth'] = below BY <1>2, <1>3, <1>4, <1>7, LayersPop
<1>9. Left(B)' = below BY <1>7, <1>8, LeftIs DEF Left
<1>10. look \in Kinds BY <1>5, CloseIs
<1>11. Reads BY <1>1, WasPromised
<1> QED BY <1>1, <1>2, <1>6, <1>7, <1>8, <1>9, <1>10, <1>11, Forward

LEMMA GoesFirst == PInv /\ JInv /\ First => JInv'
<1> SUFFICES ASSUME PInv, JInv, First PROVE JInv' OBVIOUS
<1>1. pc = "first" BY DEF First
<1>2. CASE look = Closing /\ next /\ Leave(TRUE) BY <1>1, <1>2, GoesUp
<1>3. CASE look # Closing /\ Go("loop") /\ UNCHANGED <<doc, stack>>
  <2>1. Parsing BY <1>1 DEF Parsing
  <2>2. PICK A : Layers(A) /\ Promises(Read, Left(A), look) BY <1>1, <2>1, WasPromised
  <2>3. Depth > 0 /\ stack[Depth].fn \in Brackets /\ Closing = CloseOf(stack[Depth].fn)
    BY <1>1, Inside
  <2>4. PICK fn \in Brackets, below \in SUBSET Texts :
           fn = stack[Depth].fn /\ below = A[Depth-1]
    BY <2>2, <2>3, LayersHere
  <2>5. Left(A) = Cat(FirstOf(fn), below) BY <1>1, <2>4, LeftIs DEF Left
  <2>6. pc' = "loop" /\ UNCHANGED doc /\ UNCHANGED stack BY <1>3 DEF Go
  <2>7. Layers(A)' /\ Depth' = Depth BY <2>2, <2>6, SameLevel
  <2>8. Left(A)' = Cat(LoopOf(fn), below) BY <2>4, <2>6, <2>7, LeftIs DEF Left
  <2>9. PICK z : z = CloseOf(fn) /\ z # look BY <1>3, <2>3, <2>4
  <2>10. Left(A) = Cat(Each({z}), below) \union Left(A)' BY <2>5, <2>8, <2>9, FirstParts
  <2>11. ASSUME NEW y \in Left(A), Fits(y, look) PROVE y \in Left(A)'
    <3>1. CASE y \in Cat(Each({z}), below)
      <4>1. Starts(y, {z}) BY <2>9, <3>1, CloseIs, BeginsWith
      <4>2. y # <<>> /\ y[1] = z BY <4>1 DEF Starts
      <4> QED BY <2>9, <2>11, <4>2 DEF Fits
    <3> QED BY <2>10, <3>1
  <2>12. Reads BY <1>1, <2>1, WasPromised
  <2> QED BY <2>2, <2>6, <2>7, <2>10, <2>11, <2>12, Waits
<1> QED BY <1>2, <1>3 DEF First

LEMMA GoesAfter == PInv /\ JInv /\ After => JInv'
<1> SUFFICES ASSUME PInv, JInv, After PROVE JInv' OBVIOUS
<1>1. pc = "after" BY DEF After
<1>2. Parsing BY <1>1 DEF Parsing
<1>3. Depth > 0 /\ stack[Depth].fn \in Brackets /\ Closing = CloseOf(stack[Depth].fn)
  BY <1>1, Inside
<1>4. ASSUME NEW A, Layers(A)
      PROVE  \E fn \in Brackets : \E below \in SUBSET Texts :
               /\ fn = stack[Depth].fn /\ below = A[Depth-1] /\ Left(A) = Cat(OnOf(fn), below)
  <2>1. PICK fn, below : fn = stack[Depth].fn /\ below = A[Depth-1] OBVIOUS
  <2>2. fn \in Brackets /\ below \in SUBSET Texts /\ A[Depth] = Cat(OnOf(fn), below)
    BY <1>3, <1>4, <2>1, LayersHere
  <2>3. Left(A) = A[Depth] BY <1>1, LeftIs DEF Left
  <2> QED BY <2>1, <2>2, <2>3
<1>5. CASE look = Closing /\ next /\ Leave(TRUE) BY <1>1, <1>5, GoesUp
<1>6. CASE look = "," /\ next /\ Go("loop") /\ UNCHANGED stack
  <2>1. PICK A : Layers(A) /\ Promises(Read, Left(A), look) BY <1>1, <1>2, WasPromised
  <2>2. PICK fn \in Brackets, below \in SUBSET Texts :
           /\ fn = stack[Depth].fn /\ below = A[Depth-1] /\ Left(A) = Cat(OnOf(fn), below)
    BY <1>4, <2>1
  <2>3. Layers(A)' /\ Depth' = Depth BY <1>6, <2>1, SameLevel
  <2>4. pc' = "loop" BY <1>6 DEF Go
  <2>5. Left(A)' = Cat(LoopOf(fn), below)
    <3>1. stack'[Depth'].fn = fn /\ A[(Depth-1)'] = below BY <1>6, <2>2, <2>3
    <3> QED BY <2>4, <3>1, LeftIs DEF Left
  <2>6. \A y \in Texts : <<look>> \o y \in Left(A) <=> y \in Left(A)'
    <3>1. \A y \in Texts : <<",">> \o y \in Cat(OnOf(fn), below) <=> y \in Cat(LoopOf(fn), below)
      BY OnNext
    <3> QED BY <1>6, <2>2, <2>5, <3>1
  <2>7. Left(A)' \in SUBSET Texts BY <2>5, PlaceTexts
  <2>8. look \in Kinds /\ Reads BY <1>1, <1>2, <1>6, SomeKinds, WasPromised
  <2> QED BY <1>2, <1>6, <2>1, <2>3, <2>4, <2>6, <2>7, <2>8, Forward
<1>7. CASE look \notin {",", Closing} /\ Leave(FALSE) /\ UNCHANGED doc
  <2> PICK S : S = {Closing, ","} OBVIOUS
  <2>1. look \notin S /\ UNCHANGED doc /\ pc' = "returned" /\ ~ok' BY <1>7 DEF Leave, Return
  <2>2. ASSUME NEW A, Layers(A), NEW y \in Left(A) PROVE Starts(y, S)
    <3>1. PICK fn \in Brackets, below \in SUBSET Texts :
             /\ fn = stack[Depth].fn /\ below = A[Depth-1] /\ Left(A) = Cat(OnOf(fn), below)
      BY <1>4, <2>2
    <3>2. Starts(y, {CloseOf(fn), ","}) BY <2>2, <3>1, OnFirst
    <3> QED BY <1>3, <3>1, <3>2
  <2> QED BY <1>1, <1>2, <2>1, <2>2, Refuses
<1> QED BY <1>5, <1>6, <1>7 DEF After

(* The innermost call's locals change. *)
LEMMA LocalsSet ==
  ASSUME PInv, Depth > 0, NEW c \in Call, c.fn = Top.fn, stack' = [stack EXCEPT ![Len(stack)] = c],
         NEW A, Layers(A)
  PROVE  Layers(A)' /\ Depth' = Depth /\ stack'[Depth'].fn = stack[Depth].fn
<1>1. stack \in Seq(Call) /\ Depth \in 1..Depth /\ Len(stack) = Depth BY TypesAre DEF Depth
<1>2. Len(stack') = Depth /\ \A k \in 1..Depth : stack'[k] = IF k = Depth THEN c ELSE stack[k]
  BY <1>1
<1>3. Depth' = Depth BY <1>2 DEF Depth
<1>4. Top = stack[Depth] BY DEF Top, Depth
<1>5. \A k \in 1..Depth : stack'[k].fn = stack[k].fn BY <1>2, <1>4
<1>6. stack'[Depth].fn = stack[Depth].fn BY <1>1, <1>5
<1> QED BY <1>3, <1>5, <1>6, LayersSame

LEMMA LocalIsSet ==
  ASSUME PInv, pc \in {"loop", "colon"}, New \in Nat,
         \/ stack' = [stack EXCEPT ![Len(stack)].key = New]
         \/ stack' = [stack EXCEPT ![Len(stack)].elem = New],
         NEW A, Layers(A)
  PROVE  Layers(A)' /\ Depth' = Depth /\ stack'[Depth'].fn = stack[Depth].fn
<1>1. Depth > 0 /\ Top = stack[Depth] BY Inside
<1>2. Top \in Call BY <1>1, TypesAre DEF Depth
<1>3. CASE stack' = [stack EXCEPT ![Len(stack)].key = New]
  <2>1. PICK c : c = [Top EXCEPT !.key = New] OBVIOUS
  <2>2. c \in Call /\ c.fn = Top.fn BY <1>2, <2>1 DEF Call
  <2>3. stack' = [stack EXCEPT ![Len(stack)] = c] BY <1>3, <2>1 DEF Top
  <2> QED BY <1>1, <2>2, <2>3, LocalsSet
<1>4. CASE stack' = [stack EXCEPT ![Len(stack)].elem = New]
  <2>1. PICK c : c = [Top EXCEPT !.elem = New] OBVIOUS
  <2>2. c \in Call /\ c.fn = Top.fn BY <1>2, <2>1 DEF Call
  <2>3. stack' = [stack EXCEPT ![Len(stack)] = c] BY <1>4, <2>1 DEF Top
  <2> QED BY <1>1, <2>2, <2>3, LocalsSet
<1> QED BY <1>3, <1>4

LEMMA NewIsNat == ASSUME PInv PROVE New \in Nat
<1>1. Len(cells) \in Nat BY PInvFacts
<1> QED BY <1>1 DEF New

(* What is left in the loop of each of the two functions, and before ":". *)
LEMMA InLoop ==
  ASSUME PInv, pc = "loop", NEW A, Layers(A)
  PROVE  /\ A[Depth] \in SUBSET Texts
         /\ Top.fn = "[" => Left(A) = Cat(Values, A[Depth])
         /\ Top.fn = "{" => Left(A) = Cat(Each(Strings), Cat(Each({":"}), Cat(Values, A[Depth])))
<1>1. Depth > 0 /\ Top = stack[Depth] BY Inside
<1>2. PICK fn, below : fn = Top.fn /\ below = A[Depth-1] OBVIOUS
<1>3. below \in SUBSET Texts /\ A[Depth] = Cat(OnOf(fn), below) /\ A[Depth] \in SUBSET Texts
  BY <1>1, <1>2, LayersHere
<1>4. Left(A) = Cat(LoopOf(fn), below) BY <1>1, <1>2, LeftIs DEF Left
<1>5. ASSUME Top.fn = "[" PROVE Left(A) = Cat(Values, A[Depth])
  <2>1. Cat(LoopOf("["), below) = Cat(Values, Cat(OnOf("["), below)) BY <1>3, ArrayLoop
  <2> QED BY <1>2, <1>3, <1>4, <1>5, <2>1
<1>6. ASSUME Top.fn = "{"
      PROVE  Left(A) = Cat(Each(Strings), Cat(Each({":"}), Cat(Values, A[Depth])))
  <2>1. PICK on : on = Cat(OnOf("{"), below) OBVIOUS
  <2>2. Cat(LoopOf("{"), below) = Cat(Each(Strings), Cat(Each({":"}), Cat(Values, on)))
    BY <1>3, <2>1, ObjectLoop
  <2>3. A[Depth] = on BY <1>2, <1>3, <1>6, <2>1
  <2> QED BY <1>2, <1>4, <1>6, <2>2, <2>3
<1> QED BY <1>3, <1>5, <1>6

LEMMA GoesKey == PInv /\ JInv /\ Key => JInv'
<1> SUFFICES ASSUME PInv, JInv, Key PROVE JInv' OBVIOUS
<1>1. pc = "loop" /\ Top.fn = "{" /\ look \in Strings BY DEF Key
<1>2. Parsing /\ look \in Kinds BY <1>1 DEF Parsing, Kinds
<1>3. CASE NoMemory /\ UNCHANGED doc /\ Leave(FALSE)
  <2>1. pc' = "returned" /\ ~ok' BY <1>3 DEF Leave, Return
  <2> QED BY <1>2, <1>3, <2>1, RunsOut
<1>4. CASE next /\ pc' = "colon" /\ stack' = [stack EXCEPT ![Len(stack)].key = New]
  <2>1. PICK A : Layers(A) /\ Promises(Read, Left(A), look) BY <1>1, <1>2, WasPromised
  <2>2. PICK on \in SUBSET Texts : on = A[Depth] BY <2>1, LayersHere
  <2>3. PICK rest : rest = Cat(Each({":"}), Cat(Values, on)) OBVIOUS
  <2>4. Left(A) = Cat(Each(Strings), rest) BY <1>1, <2>1, <2>2, <2>3, InLoop
  <2>5. Layers(A)' /\ Depth' = Depth BY <1>1, <1>4, <2>1, LocalIsSet, NewIsNat
  <2>6. Left(A)' = rest BY <1>4, <2>2, <2>3, <2>5, LeftIs DEF Left
  <2>7. rest \in SUBSET Texts
    <3>1. {":"} \in SUBSET Kinds BY SomeKinds
    <3>2. Each({":"}) \in SUBSET Texts BY <3>1, EachTexts
    <3> QED BY <2>3, <3>2, LanguagesAre, CatTexts
  <2>8. Strings \in SUBSET Kinds BY DEF Kinds
  <2>9. \A y \in Texts : <<look>> \o y \in Cat(Each(Strings), rest) <=> y \in rest
    BY <1>1, <1>2, <2>7, <2>8, AfterFirst
  <2>10. Reads BY <1>1, <1>2, WasPromised
  <2> QED BY <1>2, <1>4, <2>1, <2>4, <2>5, <2>6, <2>7, <2>9, <2>10, Forward
<1> QED BY <1>3, <1>4 DEF Key, Go

LEMMA GoesKeyNotString == PInv /\ JInv /\ KeyNotString => JInv'
<1> SUFFICES ASSUME PInv, JInv, KeyNotString PROVE JInv' OBVIOUS
<1>1. /\ pc = "loop" /\ Top.fn = "{" /\ look \notin Strings /\ UNCHANGED doc
      /\ pc' = "returned" /\ ~ok'
  BY DEF KeyNotString, Leave, Return
<1>2. Parsing BY <1>1 DEF Parsing
<1>3. ASSUME NEW A, Layers(A), NEW y \in Left(A) PROVE Starts(y, Strings)
  <2>1. PICK rest : rest = Cat(Each({":"}), Cat(Values, A[Depth])) OBVIOUS
  <2>2. A[Depth] \in SUBSET Texts BY <1>3, LayersHere
  <2>3. Left(A) = Cat(Each(Strings), rest) BY <1>1, <1>3, <2>1, InLoop
  <2>4. Strings \in SUBSET Kinds BY DEF Kinds
  <2>5. rest \in SUBSET Texts
    <3>1. {":"} \in SUBSET Kinds BY SomeKinds
    <3>2. Each({":"}) \in SUBSET Texts BY <3>1, EachTexts
    <3> QED BY <2>1, <2>2, <3>2, LanguagesAre, CatTexts
  <2> QED BY <1>3, <2>3, <2>4, <2>5, BeginsWith
<1> QED BY <1>1, <1>2, <1>3, Refuses

LEMMA GoesColon == PInv /\ JInv /\ Colon => JInv'
<1> SUFFICES ASSUME PInv, JInv, Colon PROVE JInv' OBVIOUS
<1>1. pc = "colon" /\ look = ":" /\ next BY DEF Colon
<1>2. Parsing /\ look \in Kinds BY <1>1, SomeKinds DEF Parsing
<1>3. CASE NoMemory /\ Leave(FALSE)
  <2>1. pc' = "returned" /\ ~ok' BY <1>3 DEF Leave, Return
  <2> QED BY <1>1, <1>2, <1>3, <2>1, RunsOut
<1>4. CASE pc' = "value" /\ stack' = [stack EXCEPT ![Len(stack)].elem = New]
  <2>1. PICK A : Layers(A) /\ Promises(Read, Left(A), look) BY <1>1, <1>2, WasPromised
  <2>2. PICK on \in SUBSET Texts : on = A[Depth] BY <2>1, LayersHere
  <2>3. PICK rest : rest = Cat(Values, on) OBVIOUS
  <2>4. Left(A) = Cat(Each({":"}), rest) BY <1>1, <2>2, <2>3, LeftIs DEF Left
  <2>5. Layers(A)' /\ Depth' = Depth BY <1>1, <1>4, <2>1, LocalIsSet, NewIsNat
  <2>6. Left(A)' = rest BY <1>4, <2>2, <2>3, <2>5, LeftIs DEF Left
  <2>7. rest \in SUBSET Texts BY <2>3, LanguagesAre, CatTexts
  <2>8. PICK S \in SUBSET Kinds : S = {":"} /\ look \in S BY <1>1, SomeKinds
  <2>9. \A y \in Texts : <<look>> \o y \in Cat(Each(S), rest) <=> y \in rest
    BY <1>2, <2>7, <2>8, AfterFirst
  <2>10. Reads BY <1>1, <1>2, WasPromised
  <2>11. \A y \in Texts : <<look>> \o y \in Left(A) <=> y \in Left(A)'
    BY <2>4, <2>6, <2>8, <2>9
  <2>12. Left(A)' \in SUBSET Texts BY <2>6, <2>7
  <2> QED BY <1>1, <1>2, <1>4, <2>1, <2>5, <2>10, <2>11, <2>12, Forward
<1> QED BY <1>3, <1>4 DEF Colon, Go

LEMMA GoesColonMissing == PInv /\ JInv /\ ColonMissing => JInv'
<1> SUFFICES ASSUME PInv, JInv, ColonMissing PROVE JInv' OBVIOUS
<1>1. /\ pc = "colon" /\ look # ":" /\ UNCHANGED doc /\ pc' = "returned" /\ ~ok'
  BY DEF ColonMissing, Leave, Return
<1>2. Parsing BY <1>1 DEF Parsing
<1>3. PICK S : S = {":"} OBVIOUS
<1>4. S \in SUBSET Kinds /\ look \notin S BY <1>1, <1>3, SomeKinds
<1>5. ASSUME NEW A, Layers(A), NEW y \in Left(A) PROVE Starts(y, S)
  <2>1. PICK rest : rest = Cat(Values, A[Depth]) OBVIOUS
  <2>2. A[Depth] \in SUBSET Texts BY <1>5, LayersHere
  <2>3. Left(A) = Cat(Each(S), rest) BY <1>1, <1>3, <2>1, LeftIs DEF Left
  <2>4. rest \in SUBSET Texts BY <2>1, <2>2, LanguagesAre, CatTexts
  <2> QED BY <1>5, <1>4, <2>3, <2>4, BeginsWith
<1> QED BY <1>1, <1>2, <1>4, <1>5, Refuses

LEMMA GoesElement == PInv /\ JInv /\ Element => JInv'
<1> SUFFICES ASSUME PInv, JInv, Element PROVE JInv' OBVIOUS
<1>1. pc = "loop" /\ Top.fn = "[" /\ UNCHANGED doc BY DEF Element
<1>2. Parsing BY <1>1 DEF Parsing
<1>3. CASE NoMemory /\ Leave(FALSE)
  <2>1. pc' = "returned" /\ ~ok' BY <1>3 DEF Leave, Return
  <2> QED BY <1>1, <1>2, <1>3, <2>1, RunsOut
<1>4. CASE pc' = "value" /\ stack' = [stack EXCEPT ![Len(stack)].elem = New]
  <2>1. PICK A : Layers(A) /\ Promises(Read, Left(A), look) BY <1>1, <1>2, WasPromised
  <2>2. PICK on \in SUBSET Texts : on = A[Depth] BY <2>1, LayersHere
  <2>3. Left(A) = Cat(Values, on) BY <1>1, <2>1, <2>2, InLoop
  <2>4. Layers(A)' /\ Depth' = Depth BY <1>1, <1>4, <2>1, LocalIsSet, NewIsNat
  <2>5. Left(A)' = Cat(Values, on) BY <1>4, <2>2, <2>4, LeftIs DEF Left
  <2>6. Left(A)' = Left(A) BY <2>3, <2>5
  <2>7. Reads BY <1>1, <1>2, WasPromised
  <2> QED BY <1>1, <1>4, <2>1, <2>4, <2>6, <2>7, Waits
<1> QED BY <1>3, <1>4 DEF Element, Go

LEMMA GoesElementFailed == PInv /\ JInv /\ ElementFailed => JInv'
<1> SUFFICES ASSUME PInv, JInv, ElementFailed PROVE JInv' OBVIOUS
<1>1. pc = "returned" /\ ~ok /\ UNCHANGED doc /\ UNCHANGED fails /\ pc' = "returned" /\ ~ok'
  BY DEF ElementFailed, Leave, Return, Memory
<1>2. Reads /\ (fails = 0 => Refused(Read, look)) BY <1>1 DEF JInv, Parsing
<1>3. Read' = Read /\ look' = look /\ Reads' BY <1>1, <1>2, SameDoc
<1>4. fails' = 0 => Refused(Read', look') BY <1>1, <1>2, <1>3
<1> QED BY <1>1, <1>3, <1>4, NowRefused

LEMMA GoesPush == PInv /\ JInv /\ Push => JInv'
<1> SUFFICES ASSUME PInv, JInv, Push PROVE JInv' OBVIOUS
<1>1. /\ pc = "returned" /\ stack # <<>> /\ ok /\ pc' = "after" /\ UNCHANGED doc
      /\ stack' = [stack EXCEPT ![Len(stack)].elem = NULL, ![Len(stack)].key = NULL]
  BY Zenon DEF Push, Go
<1>2. Parsing BY <1>1 DEF Parsing
<1>3. PICK A : Layers(A) /\ Promises(Read, Left(A), look) BY <1>1, <1>2, WasPromised
<1>4. Depth > 0 /\ Top = stack[Depth] BY <1>1, Inside
<1>5. Layers(A)' /\ Depth' = Depth
  <2>1. Top \in Call BY <1>4, TypesAre DEF Depth
  <2>2. PICK c : c = [Top EXCEPT !.elem = NULL, !.key = NULL] OBVIOUS
  <2>3. c \in Call /\ c.fn = Top.fn BY <2>1, <2>2 DEF Call, NULL
  <2>4. stack' = [stack EXCEPT ![Len(stack)] = c]
    <3>1. stack \in Seq(Call) /\ Len(stack) \in 1..Len(stack) BY <1>4, TypesAre DEF Depth
    <3> QED BY <1>1, <2>2, <3>1 DEF Top
  <2> QED BY <1>3, <1>4, <2>3, <2>4, LocalsSet
<1>6. Left(A) = A[Depth] BY <1>1, LeftIs DEF Left
<1>7. Left(A)' = A[Depth] BY <1>1, <1>5, LeftIs DEF Left
<1>8. Left(A)' = Left(A) BY <1>6, <1>7
<1>9. Reads BY <1>1, <1>2, WasPromised
<1> QED BY <1>1, <1>3, <1>5, <1>8, <1>9, Waits

LEMMA GoesPushFails == PInv /\ JInv /\ PushFails => JInv'
<1> SUFFICES ASSUME PInv, JInv, PushFails PROVE JInv' OBVIOUS
<1>1. pc = "returned" /\ NoMemory /\ UNCHANGED doc /\ pc' = "returned" /\ ~ok'
  BY DEF PushFails, Leave, Return
<1>2. Parsing BY <1>1 DEF Parsing
<1> QED BY <1>1, <1>2, RunsOut

-----------------------------------------------------------------------------
(* The steps of parser_parse and main().                                   *)
LEMMA CatSame ==
  ASSUME NEW L, NEW N, \A s \in L : \A t \in N : s \o t = s, NEW e \in N
  PROVE  Cat(L, N) = L
<1>1. \A x \in Cat(L, N) : \E s \in L : \E t \in N : x = s \o t BY CatParts
<1>2. Cat(L, N) \subseteq L BY <1>1
<1>3. ASSUME NEW s \in L PROVE s \in Cat(L, N)
  <2>1. s \o e \in Cat(L, N) BY CatHas
  <2>2. s \o e = s OBVIOUS
  <2> QED BY <2>1, <2>2
<1> QED BY <1>2, <1>3

LEMMA CatNothing == ASSUME NEW L \in SUBSET Texts PROVE Cat(L, {<<>>}) = L
<1>1. \A s \in Texts : s \o <<>> = s BY DEF Texts
<1>2. \A s \in L : \A t \in {<<>>} : s \o t = s BY <1>1
<1> PICK N : N = {<<>>} OBVIOUS
<1>3. <<>> \in N BY Zenon
<1> QED BY <1>2, <1>3, CatSame

LEMMA GoesStart == PInv /\ JInv /\ Start => JInv'
<1> SUFFICES ASSUME PInv, JInv, Start PROVE JInv' OBVIOUS
<1>1. pc = "start" /\ doc = <<>> /\ ~ok BY DEF Start, JInv
<1>2. stack = <<>> BY <1>1 DEF PInv
<1>3. CASE pc' = "done" /\ UNCHANGED ok BY <1>1, <1>3 DEF JInv, Parsing
<1>4. CASE next /\ pc' = "value" /\ UNCHANGED stack
  <2>1. PICK t \in Kinds \union {EOF} :
           doc' = Append(doc, t) /\ (Len(doc) < MaxTokens \/ t = EOF)
    BY <1>4 DEF next
  <2>2. doc' = <<t>> BY <1>1, <2>1
  <2>3. look' = t /\ Read' = <<>> /\ Len(doc') = 1 BY <2>2 DEF look, Read
  <2>4. <<>> \in Texts BY DEF Texts
  <2>5. Reads'
    <3>1. doc' # <<>> /\ Read' \in Texts BY <2>2, <2>3, <2>4
    <3>2. Len(doc') <= MaxTokens \/ (Len(doc') = MaxTokens + 1 /\ look' = EOF)
      <4>1. Len(doc) = 0 BY <1>1
      <4> QED BY <2>1, <2>3, <4>1, BoundsAre
    <3> QED BY <3>1, <3>2 DEF Reads
  <2>6. Depth' = 0 BY <1>2, <1>4 DEF Depth
  <2>7. PICK B : B = [k \in {0} |-> {<<>>}] OBVIOUS
  <2>8. Layers(B)'
    <3>1. B \in [0..0 -> SUBSET Texts] /\ B[0] = {<<>>} BY <2>4, <2>7
    <3> QED BY <2>6, <3>1 DEF Layers
  <2>9. Left(B)' = Values
    <3>1. B[0] = {<<>>} BY <2>7
    <3>2. Left(B)' = Cat(Values, B[0]) BY <1>4, <2>6, LeftIs DEF Left
    <3> QED BY <3>1, <3>2, CatNothing, LanguagesAre
  <2>10. Promises(<<>>, Values, t)
    <3>1. \A y \in Texts : <<>> \o y = y BY DEF Texts
    <3> QED BY <3>1, LanguagesAre DEF Promises
  <2> QED BY <1>4, <2>3, <2>5, <2>8, <2>9, <2>10, StillPromised
<1> QED BY <1>3, <1>4 DEF Start, Go

(* After the whole value nothing is left to read. *)
LEMMA ValueRead ==
  ASSUME PInv, JInv, Ended, ok
  PROVE  Reads /\ Read \in Values /\ (look # EOF => Refused(Read, look))
<1>1. pc = "returned" /\ stack = <<>> BY DEF Ended
<1>2. PICK A : Layers(A) /\ Promises(Read, Left(A), look) BY <1>1, WasPromised DEF Parsing
<1>3. Depth = 0 BY <1>1 DEF Depth
<1>4. Left(A) = {<<>>}
  <2>1. A[0] = {<<>>} BY <1>2 DEF Layers
  <2>2. Left(A) = A[0] BY <1>1, <1>3, LeftIs DEF Left
  <2> QED BY <2>1, <2>2
<1>5. Reads BY <1>1, WasPromised DEF Parsing
<1>6. Read \in Values
  <2>1. Read \o <<>> \in Values BY <1>2, <1>4 DEF Promises
  <2>2. Read \o <<>> = Read BY <1>5 DEF Reads, Texts
  <2> QED BY <2>1, <2>2
<1>7. ASSUME look # EOF PROVE Refused(Read, look)
  <2>1. ASSUME NEW y \in Texts, Fits(y, look) PROVE Read \o y \notin Values
    <3>1. y # <<>> BY <1>7, <2>1 DEF Fits
    <3> QED BY <1>2, <1>4, <2>1, <3>1 DEF Promises
  <2> QED BY <2>1 DEF Refused
<1> QED BY <1>5, <1>6, <1>7

LEMMA GoesEnded == PInv /\ JInv /\ (ParseFailed \/ TrailingData \/ Parsed) => JInv'
<1> SUFFICES ASSUME PInv, JInv, ParseFailed \/ TrailingData \/ Parsed PROVE JInv' OBVIOUS
<1>1. /\ Ended /\ UNCHANGED doc /\ UNCHANGED ok /\ UNCHANGED fails /\ pc' = "free"
      /\ \/ ~ok /\ rc' = 1
         \/ ok /\ look # EOF /\ rc' = 1
         \/ ok /\ rc' = 0
  BY Zenon DEF ParseFailed, TrailingData, Parsed, Memory, HeapSame
<1>2. pc = "returned" /\ Reads BY <1>1 DEF Ended, JInv, Parsing
<1>3. Read' = Read /\ look' = look /\ Reads' BY <1>1, <1>2, SameDoc
<1>4. ok => Read' \in Values BY <1>1, <1>3, ValueRead
<1>5. rc' = 1 /\ fails' = 0 => Refused(Read', look')
  <2>1. CASE ok
    <3>1. rc' = 1 => look # EOF BY <1>1, <2>1
    <3> QED BY <1>1, <1>3, <2>1, <3>1, ValueRead
  <2>2. CASE ~ok BY <1>1, <1>2, <1>3, <2>2 DEF JInv
  <2> QED BY <2>1, <2>2
<1>6. rc' = 0 => ok' BY <1>1
<1>7. pc' \notin {"start", "returned"} /\ ~Parsing' BY <1>1 DEF Parsing
<1> QED BY <1>1, <1>3, <1>4, <1>5, <1>6, <1>7 DEF JInv

LEMMA GoesFree == PInv /\ JInv /\ MainFree => JInv'
<1> SUFFICES ASSUME PInv, JInv, MainFree PROVE JInv' OBVIOUS
<1>1. pc = "free" /\ pc' = "done" /\ UNCHANGED doc /\ UNCHANGED ok BY DEF MainFree
<1>2. ok => Reads /\ Read \in Values BY <1>1 DEF JInv
<1>3. ok' => Reads' /\ Read' \in Values BY <1>1, <1>2, SameDoc
<1> QED BY <1>1, <1>3 DEF JInv, Parsing

LEMMA InitJInv == Init => JInv
BY DEF Init, JInv, Parsing

LEMMA NextJInv == PInv /\ JInv /\ [Next]_vars => JInv'
<1> SUFFICES ASSUME PInv, JInv, [Next]_vars PROVE JInv' OBVIOUS
<1>1. CASE Next
  BY <1>1, GoesStart, GoesOpen, GoesString, GoesNumber, GoesLiteral, GoesUnexpected, GoesFirst,
     GoesKey, GoesKeyNotString, GoesColon, GoesColonMissing, GoesElement, GoesElementFailed,
     GoesPush, GoesPushFails, GoesAfter, GoesEnded, GoesFree, Zenon DEF Next
<1>2. CASE UNCHANGED vars
  <2>1. UNCHANGED <<doc, pc, stack, ok, fails, rc>> BY <1>2 DEF vars
  <2>2. Reads' = Reads /\ Read' = Read /\ look' = look BY <2>1 DEF Reads, Read, look
  <2>3. \A A : Layers(A)' = Layers(A) /\ Left(A)' = Left(A) BY <2>1 DEF Layers, Left, Depth
  <2>4. Promised' = Promised BY <2>2, <2>3 DEF Promised
  <2> QED BY <2>1, <2>2, <2>4 DEF JInv, Parsing
<1> QED BY <1>1, <1>2

LEMMA JInvHolds == Spec => [](PInv /\ JInv)
<1>1. Init => PInv /\ JInv BY InitPInv, InitJInv
<1>2. PInv /\ JInv /\ [Next]_vars => (PInv /\ JInv)' BY NextPInv, NextJInv
<1> QED BY <1>1, <1>2, PTL DEF Spec

-----------------------------------------------------------------------------
LEMMA SplitsAt ==
  ASSUME NEW d \in Texts, NEW n \in 1..Len(d)
  PROVE  \E r, y \in Texts : /\ d = r \o y /\ Len(r) = n - 1 /\ y # <<>> /\ y[1] = d[n]
                             /\ \A k \in 1..n-1 : r[k] = d[k]
<1>1. d \in Seq(Kinds) /\ Len(d) \in Nat BY DEF Texts
<1>2. PICK m \in Nat : m = n - 1 /\ m \in 0..Len(d) /\ m + 1 = n BY <1>1
<1>3. PICK r : r = SubSeq(d, 1, m) OBVIOUS
<1>4. PICK y : y = SubSeq(d, n, Len(d)) OBVIOUS
<1>5. r \in Texts /\ Len(r) = m /\ \A k \in 1..m : r[k] = d[k]
  <2>1. \A k \in 1..m : d[k] \in Kinds BY <1>1, <1>2
  <2> QED BY <1>1, <1>2, <1>3, <2>1, SubSeqProperties DEF Texts
<1>6. y \in Texts /\ Len(y) = Len(d) - m /\ \A k \in 1..Len(d)-m : y[k] = d[m + k]
  <2>1. \A k \in n..Len(d) : d[k] \in Kinds BY <1>1
  <2>2. Len(d) - n + 1 = Len(d) - m /\ \A k \in 1..Len(d)-m : n + k - 1 = m + k
    BY <1>1, <1>2
  <2> QED BY <1>1, <1>2, <1>4, <2>1, <2>2, SubSeqProperties DEF Texts
<1>7. y # <<>> /\ y[1] = d[n] BY <1>1, <1>2, <1>6
<1>8. d = r \o y
  <2>1. r \o y \in Texts /\ Len(r \o y) = Len(d) BY <1>1, <1>2, <1>5, <1>6, Joins
  <2>2. ASSUME NEW k \in 1..Len(d) PROVE (r \o y)[k] = d[k]
    <3>1. (r \o y)[k] = IF k <= Len(r) THEN r[k] ELSE y[k - Len(r)]
      BY <1>1, <1>2, <1>5, <1>6, ConcatProperties DEF Texts
    <3>2. CASE k <= m BY <1>5, <3>1, <3>2
    <3>3. CASE k > m
      <4>1. k - m \in 1..Len(d)-m /\ m + (k - m) = k BY <1>1, <1>2, <3>3
      <4> QED BY <1>5, <1>6, <3>1, <3>3, <4>1
    <3> QED
      <4>1. k <= m \/ k > m BY <1>2
      <4> QED BY <3>2, <3>3, <4>1
  <2> QED BY <1>1, <2>1, <2>2, SeqEqual DEF Texts
<1> QED BY <1>2, <1>5, <1>6, <1>7, <1>8

LEMMA ReadIs ==
  ASSUME doc \in Seq(Kinds \union {EOF}), Reads
  PROVE  /\ Len(doc) \in Nat /\ Len(doc) >= 1 /\ Len(Read) = Len(doc) - 1
         /\ \A k \in 1..Len(doc)-1 : Read[k] = doc[k]
<1>1. PICK n \in Nat : n = Len(doc) /\ n >= 1 BY DEF Reads
<1>2. PICK m \in Nat : m = n - 1 /\ m \in 0..n BY <1>1
<1>3. Read = SubSeq(doc, 1, m) BY <1>1, <1>2 DEF Read
<1>4. \A k \in 1..m : doc[k] \in Kinds \union {EOF} BY <1>1, <1>2
<1> QED BY <1>1, <1>2, <1>3, <1>4, SubSeqProperties

(* A text that begins with what was read goes on with the token looked at. *)
LEMMA GoesOn ==
  ASSUME doc \in Seq(Kinds \union {EOF}), Reads, NEW d \in Texts, Begins(doc, Append(d, EOF))
  PROVE  \E y \in Texts : Fits(y, look) /\ d = Read \o y
<1>1. PICK n \in Nat : n = Len(doc) /\ n >= 1 BY ReadIs
<1>2. Len(Read) = n - 1 /\ \A k \in 1..n-1 : Read[k] = doc[k] BY <1>1, ReadIs
<1>3. PICK m \in Nat : m = Len(d) BY DEF Texts
<1>4. /\ n <= m + 1 /\ \A k \in 1..n : doc[k] = Append(d, EOF)[k]
      /\ Append(d, EOF)[m + 1] = EOF /\ \A k \in 1..m : Append(d, EOF)[k] = d[k]
  <2>1. d \in Seq(Kinds \union {EOF}) BY DEF Texts
  <2>2. /\ Len(Append(d, EOF)) = m + 1
        /\ Append(d, EOF)[m + 1] = EOF /\ \A k \in 1..m : Append(d, EOF)[k] = d[k]
    BY <1>3, <2>1, AppendProperties
  <2> QED BY <1>1, <2>2 DEF Begins
<1>5. Read \in Seq(Kinds) /\ d \in Seq(Kinds) BY DEF Reads, Texts
<1>6. look = doc[n] BY <1>1 DEF look
<1>7. CASE n = m + 1
  <2>1. look = EOF
    <3>1. n \in 1..n BY <1>1
    <3>2. doc[n] = Append(d, EOF)[n] BY <1>4, <3>1
    <3> QED BY <1>4, <1>6, <1>7, <3>2
  <2>2. \A k \in 1..m : Read[k] = d[k]
    <3> SUFFICES ASSUME NEW k \in 1..m PROVE Read[k] = d[k] OBVIOUS
    <3>1. k \in 1..n /\ k \in 1..n-1 BY <1>7
    <3>2. Read[k] = doc[k] BY <1>2, <3>1
    <3>3. doc[k] = Append(d, EOF)[k] BY <1>4, <3>1
    <3> QED BY <1>4, <3>2, <3>3
  <2>3. Read = d BY <1>2, <1>3, <1>5, <1>7, <2>2, SeqEqual
  <2>4. <<>> \in Texts /\ d \o <<>> = d BY <1>5 DEF Texts
  <2> QED BY <2>1, <2>3, <2>4 DEF Fits
<1>8. CASE n # m + 1
  <2>1. n \in 1..m BY <1>1, <1>4, <1>8
  <2>2. PICK r \in Texts, y \in Texts :
           /\ d = r \o y /\ Len(r) = n - 1 /\ y # <<>> /\ y[1] = d[n]
           /\ \A k \in 1..n-1 : r[k] = d[k]
    BY <1>3, <2>1, SplitsAt
  <2>3. \A k \in 1..n-1 : r[k] = Read[k] BY <1>2, <1>4, <2>1, <2>2
  <2>4. r = Read BY <1>2, <1>5, <2>2, <2>3, SeqEqual DEF Texts
  <2>5. y[1] = look BY <1>4, <1>6, <2>1, <2>2
  <2> QED BY <2>2, <2>4, <2>5 DEF Fits
<1> QED BY <1>7, <1>8

LEMMA ReadFits ==
  ASSUME doc \in Seq(Kinds \union {EOF}), Reads, Read \in Values
  PROVE  Read \in Language
<1>1. Len(Read) <= MaxTokens BY ReadIs, BoundsAre DEF Reads
<1> QED BY <1>1, InLanguage

LEMMA JInvAccepts == PInv /\ JInv => AcceptsJson
<1> SUFFICES ASSUME PInv, JInv, pc = "free"
             PROVE  IF rc = 0 THEN Read \in Language
                    ELSE fails = 0 => \A d \in Language : ~Begins(doc, Append(d, EOF))
  BY DEF AcceptsJson
<1>1. doc \in Seq(Kinds \union {EOF}) /\ rc \in {0, 1} BY TypesAre
<1>2. Reads BY DEF JInv
<1>3. CASE rc = 0
  <2>1. Read \in Values BY <1>3 DEF JInv
  <2> QED BY <1>1, <1>2, <1>3, <2>1, ReadFits
<1>4. CASE rc = 1
  <2>1. ASSUME fails = 0, NEW d \in Language, Begins(doc, Append(d, EOF)) PROVE FALSE
    <3>1. d \in Values /\ d \in Texts BY InLanguage, LanguagesAre
    <3>2. PICK y \in Texts : Fits(y, look) /\ d = Read \o y
      BY <1>1, <1>2, <2>1, <3>1, GoesOn
    <3>3. Refused(Read, look) BY <1>4, <2>1 DEF JInv
    <3> QED BY <3>1, <3>2, <3>3 DEF Refused
  <2> QED BY <1>4, <2>1
<1> QED BY <1>1, <1>3, <1>4

LEMMA JInvFrees == PInv /\ JInv => FreedTwiceOnlyAfterValue
<1> SUFFICES ASSUME PInv, JInv, bad PROVE look # EOF /\ Read \in Language
  BY DEF FreedTwiceOnlyAfterValue
<1>1. pc \in {"free", "done"} /\ ok /\ look # EOF
  BY BadAfterValue DEF BadOnlyAfterValue
<1>2. Reads /\ Read \in Values BY <1>1 DEF JInv
<1>3. doc \in Seq(Kinds \union {EOF}) BY TypesAre
<1> QED BY <1>1, <1>2, <1>3, ReadFits

LEMMA StaysJInv == JInv /\ OnlyFails => JInv'
<1> SUFFICES ASSUME JInv, OnlyFails PROVE JInv' OBVIOUS
<1>1. UNCHANGED <<doc, pc, ok, rc>> /\ pc = "free" /\ rc = 0 BY DEF OnlyFails
<1>2. Reads' = Reads /\ Read' = Read /\ look' = look BY <1>1 DEF Reads, Read, look, Texts
<1> QED BY <1>1, <1>2 DEF JInv, Parsing

LEMMA CliJInvHolds == CliSpec => [](PInv /\ JInv)
<1>1. CliInit => PInv /\ JInv BY InitPInv, InitJInv DEF CliInit
<1>2. PInv /\ JInv /\ [CliNext]_<<vars, cliVars>> => (PInv /\ JInv)'
  BY LookupOnlyReads, NextPInv, NextJInv, StaysPInv, StaysJInv
<1> QED BY <1>1, <1>2, PTL DEF CliSpec

(* main() accepts JSON and nothing else: it prints a document only if the  *)
(* whole of it is a JSON value, and unless an allocation failed it refuses *)
(* one only where no value goes on as the tokens do, at the first such     *)
(* token (parse_value, parse_array, parse_object, parser_parse).           *)
THEOREM OnlyJsonIsAccepted == Spec => []AcceptsJson
BY JInvHolds, JInvAccepts, PTL

(* The only documents that make main() free a block twice are those with   *)
(* something behind a complete JSON value (parser_parse frees the root and *)
(* returns failure, and main() frees it again).                            *)
THEOREM FreedTwiceAfterValueOnly == Spec => []FreedTwiceOnlyAfterValue
BY JInvHolds, JInvFrees, PTL

(* The same of the whole program, with either command.                     *)
THEOREM ProgramAcceptsJson == CliSpec => []AcceptsJson
BY CliJInvHolds, JInvAccepts, PTL

THEOREM ProgramFreesTwiceAfterValueOnly == CliSpec => []FreedTwiceOnlyAfterValue
BY CliJInvHolds, JInvFrees, PTL

-----------------------------------------------------------------------------
(***************************************************************************)
(* What is printed of a heap.  As with Tree, the function is there because *)
(* every item lies behind its container, and a write to one cell changes   *)
(* no text that the cell is not part of.                                   *)
(***************************************************************************)
Step(parts, f, n) ==
  IF n = 0 THEN <<>>
  ELSE f[n-1] \o (IF n = 1 THEN <<>> ELSE <<AsIs(",")>>) \o parts[n]

(* What stands between n parts and one more. *)
Commas(n) == IF n = 0 THEN <<>> ELSE <<AsIs(",")>>

IsJoined(parts, f) == f = [n \in Nat |-> Step(parts, f, n)]

LEMMA JoinedIs == \A parts : Joined(parts) = CHOOSE f : IsJoined(parts, f)
BY Zenon DEF Joined, IsJoined, Step

LEMMA StepSame ==
  ASSUME NEW p, NEW f, NEW g, NEW n \in Nat, \A m \in 0..n-1 : f[m] = g[m]
  PROVE  Step(p, f, n) = Step(p, g, n)
<1>1. n # 0 => f[n-1] = g[n-1] OBVIOUS
<1> QED BY <1>1, Zenon DEF Step

LEMMA JoinedExists == ASSUME NEW p PROVE IsJoined(p, Joined(p))
<1> DEFINE Part(f, n) == f = [m \in 0..n |-> Step(p, f, m)]
           G == {n \in Nat : \E f : Part(f, n)}
<1>1. ASSUME NEW n \in Nat, NEW f, NEW m \in Nat, NEW g, Part(f, n), Part(g, m)
      PROVE  \A k \in Nat : k <= n /\ k <= m => f[k] = g[k]
  <2> DEFINE H == {k \in Nat : k <= n /\ k <= m => f[k] = g[k]}
  <2>1. ASSUME NEW k \in Nat, \A j \in 0..k-1 : j \in H PROVE k \in H
    <3> SUFFICES ASSUME k <= n, k <= m PROVE f[k] = g[k] OBVIOUS
    <3>1. \A j \in 0..k-1 : f[j] = g[j] BY <2>1
    <3>2. Step(p, f, k) = Step(p, g, k) BY <3>1, StepSame
    <3>3. k \in 0..n /\ k \in 0..m OBVIOUS
    <3>4. f[k] = Step(p, f, k) BY <1>1, <3>3, Zenon
    <3>5. g[k] = Step(p, g, k) BY <1>1, <3>3, Zenon
    <3> QED BY <3>2, <3>4, <3>5
  <2> HIDE DEF H
  <2>2. Nat \subseteq H BY <2>1, StrongInduction
  <2> QED BY <2>2 DEF H
<1>2. ASSUME NEW n \in Nat, \A m \in 0..n-1 : m \in G PROVE n \in G
  <2>1. CASE n = 0
    <3> DEFINE g == [m \in 0..n |-> <<>>]
    <3>1. \A m \in 0..n : Step(p, g, m) = <<>>
      <4>1. \A m \in 0..n : m = 0 BY <2>1
      <4> QED BY <4>1 DEF Step
    <3>2. g = [m \in 0..n |-> Step(p, g, m)]
      <4> HIDE DEF g
      <4>1. g = [m \in 0..n |-> <<>>] BY DEF g
      <4> QED BY <3>1, <4>1, Zenon
    <3> HIDE DEF g
    <3> QED BY <3>2
  <2>2. CASE n > 0
    <3>1. n - 1 \in 0..n-1 /\ n - 1 \in Nat BY <2>2
    <3>2. PICK k \in Nat : k = n - 1 /\ k + 1 = n BY <3>1
    <3>3. PICK f : Part(f, k) BY <1>2, <3>1, <3>2, Zenon
    <3> DEFINE g == [m \in 0..n |-> IF m = n THEN Step(p, f, n) ELSE f[m]]
    <3>4. \A m \in 0..n : \A j \in 0..m-1 : g[j] = f[j] BY <3>2
    <3>5. ASSUME NEW m \in 0..n PROVE g[m] = Step(p, g, m)
      <4>1. Step(p, g, m) = Step(p, f, m)
        <5> HIDE DEF g
        <5> QED BY <3>4, StepSame, m \in Nat
      <4>2. CASE m = n BY <4>1, <4>2
      <4>3. CASE m # n
        <5>1. m \in 0..k BY <3>2, <4>3
        <5>2. f[m] = Step(p, f, m) BY <3>3, <5>1, Zenon
        <5> QED BY <4>1, <4>3, <5>2
      <4> QED BY <4>2, <4>3
    <3>6. g = [m \in 0..n |-> Step(p, g, m)]
      <4>1. g = [m \in 0..n |-> g[m]] OBVIOUS
      <4> HIDE DEF g
      <4> QED BY <3>5, <4>1, Zenon
    <3> HIDE DEF g
    <3> QED BY <3>6
  <2> QED BY <2>1, <2>2
<1>3. Nat \subseteq G
  <2> HIDE DEF G
  <2> QED BY <1>2, StrongInduction
<1> DEFINE F(n) == CHOOSE f : Part(f, n)
           h == [n \in Nat |-> F(n)[n]]
<1>4. ASSUME NEW n \in Nat PROVE h[n] = Step(p, h, n)
  <2>1. \A k \in Nat : Part(F(k), k) BY <1>3, Zenon
  <2>2. h[n] = F(n)[n] OBVIOUS
  <2> HIDE DEF F
  <2>3. \A k \in 0..n-1 : h[k] = F(n)[k]
    <3> SUFFICES ASSUME NEW k \in 0..n-1 PROVE h[k] = F(n)[k] OBVIOUS
    <3>1. k \in Nat /\ k <= n OBVIOUS
    <3>2. F(k)[k] = F(n)[k] BY <1>1, <2>1, <3>1
    <3> QED BY <3>1, <3>2
  <2>4. Step(p, h, n) = Step(p, F(n), n)
    <3> HIDE DEF h
    <3> QED BY <2>3, StepSame
  <2>5. F(n)[n] = Step(p, F(n), n) BY <2>1, n \in 0..n, Zenon
  <2> QED BY <2>2, <2>4, <2>5
<1>5. IsJoined(p, h)
  <2>1. h = [n \in Nat |-> h[n]] OBVIOUS
  <2> HIDE DEF h
  <2> QED BY <1>4, <2>1, Zenon DEF IsJoined
<1> HIDE DEF h
<1> QED BY <1>5, JoinedIs, Zenon

LEMMA JoinedStep ==
  ASSUME NEW p
  PROVE  /\ Joined(p)[0] = <<>>
         /\ \A n \in Nat : Joined(p)[n+1] = Joined(p)[n] \o Commas(n) \o p[n+1]
<1>1. PICK f : f = Joined(p) OBVIOUS
<1>2. f = [n \in Nat |-> Step(p, f, n)] BY <1>1, JoinedExists DEF IsJoined
<1>3. \A n \in Nat : f[n] = Step(p, f, n) BY <1>2, Zenon
<1>4. f[0] = <<>> BY <1>3 DEF Step
<1>5. ASSUME NEW n \in Nat
      PROVE  f[n+1] = f[n] \o Commas(n) \o p[n+1]
  <2>1. PICK m \in Nat : m = n + 1 OBVIOUS
  <2>2. m # 0 /\ m - 1 = n /\ (m = 1 <=> n = 0) BY <2>1
  <2>3. f[m] = Step(p, f, m) BY <1>3
  <2>4. Step(p, f, m) = f[n] \o Commas(n) \o p[m] BY <2>2 DEF Step, Commas
  <2> QED BY <2>1, <2>3, <2>4
<1> QED BY <1>1, <1>4, <1>5

LEMMA JoinedSame ==
  ASSUME NEW p, NEW q, NEW n \in Nat, \A k \in 1..n : p[k] = q[k]
  PROVE  Joined(p)[n] = Joined(q)[n]
<1> DEFINE G == {m \in Nat : m <= n => Joined(p)[m] = Joined(q)[m]}
<1>1. ASSUME NEW m \in Nat, \A k \in 0..m-1 : k \in G PROVE m \in G
  <2> SUFFICES ASSUME m <= n PROVE Joined(p)[m] = Joined(q)[m] OBVIOUS
  <2>1. CASE m = 0 BY <2>1, JoinedStep
  <2>2. CASE m # 0
    <3>1. PICK k \in Nat : m = k + 1 /\ k \in 0..m-1 /\ m \in 1..n BY <2>2
    <3>2. Joined(p)[k] = Joined(q)[k] BY <1>1, <3>1
    <3>3. p[m] = q[m] BY <3>1
    <3> QED BY <3>1, <3>2, <3>3, JoinedStep
  <2> QED BY <2>1, <2>2
<1>2. Nat \subseteq G
  <2> HIDE DEF G
  <2> QED BY <1>1, StrongInduction
<1> QED BY <1>2

Alike(p, q, n) == \A k \in 1..n : p[k] = q[k]

LEMMA JoinedAlike == \A p, q : \A n \in Nat : Alike(p, q, n) => Joined(p)[n] = Joined(q)[n]
<1> SUFFICES ASSUME NEW n \in Nat, NEW p, NEW q, Alike(p, q, n) PROVE  Joined(p)[n] = Joined(q)[n]
  OBVIOUS
<1>1. \A k \in 1..n : p[k] = q[k] BY DEF Alike
<1> QED BY <1>1, JoinedSame

LEMMA JoinedTexts ==
  ASSUME NEW T, NEW p, NEW n \in Nat, \A k \in 1..n : p[k] \in Seq(T),
         \A k : Commas(k) \in Seq(T)
  PROVE  Joined(p)[n] \in Seq(T)
<1>0. <<>> \in Seq(T) OBVIOUS
<1> DEFINE G == {m \in Nat : m <= n => Joined(p)[m] \in Seq(T)}
<1>1. ASSUME NEW m \in Nat, \A k \in 0..m-1 : k \in G PROVE m \in G
  <2> SUFFICES ASSUME m <= n PROVE Joined(p)[m] \in Seq(T) OBVIOUS
  <2>1. CASE m = 0 BY <1>0, <2>1, JoinedStep
  <2>2. CASE m # 0
    <3>1. PICK k \in Nat : m = k + 1 /\ k \in 0..m-1 /\ m \in 1..n BY <2>2
    <3>2. Joined(p)[k] \in Seq(T) /\ p[m] \in Seq(T) BY <1>1, <3>1
    <3>3. Joined(p)[m] = Joined(p)[k] \o Commas(k) \o p[m] BY <3>1, JoinedStep
    <3> QED BY <3>2, <3>3, ConcatProperties
  <2> QED BY <2>1, <2>2
<1>2. Nat \subseteq G
  <2> HIDE DEF G
  <2> QED BY <1>1, StrongInduction
<1> QED BY <1>2

IsDumps(f, heap) == f = [n \in 1..Len(heap) |-> Shown(f, heap, heap[n])]

Dumps(heap) == CHOOSE f : IsDumps(f, heap)

LEMMA DumpIs == \A b : Dump(b) = Dumps(cells)[b]
BY Zenon DEF Dump, Dumps, IsDumps, Blocks

LEMMA PartsSame ==
  ASSUME NEW f, NEW g, NEW heap, NEW new, NEW c,
         \A k \in DOMAIN c.items :
           /\ f[c.items[k].value] = g[c.items[k].value]
           /\ c.kind = "object" => new[c.items[k].key] = heap[c.items[k].key]
  PROVE  Parts(f, heap, c) = Parts(g, new, c) /\ List(f, heap, c) = List(g, new, c)
<1>1. Parts(f, heap, c) = Parts(g, new, c) BY Zenon DEF Parts, String
<1> QED BY <1>1, Zenon DEF List

LEMMA ShownSame ==
  ASSUME NEW f, NEW g, NEW heap, NEW new, NEW c,
         \A k \in DOMAIN c.items :
           /\ f[c.items[k].value] = g[c.items[k].value]
           /\ c.kind = "object" => new[c.items[k].key] = heap[c.items[k].key],
         c.kind = "string" => new[c.buf] = heap[c.buf]
  PROVE  Shown(f, heap, c) = Shown(g, new, c)
<1>1. List(f, heap, c) = List(g, new, c) BY PartsSame
<1> QED BY <1>1, Zenon DEF Shown, String

LEMMA DumpsExist ==
  ASSUME NEW heap, Sound(heap)
  PROVE  IsDumps(Dumps(heap), heap)
<1> DEFINE L == Len(heap)
           Part(f, n) == f = [x \in n..L |-> Shown(f, heap, heap[x])]
           G == {n \in 1..L : \E f : Part(f, n)}
<1>0. L \in Nat BY DEF Sound
<1>1. ASSUME NEW n \in 1..L, \A m \in n+1..L : m \in G PROVE n \in G
  <2>1. PICK f : f = [x \in n+1..L |-> Shown(f, heap, heap[x])]
    <3>1. CASE n < L
      <4>1. n + 1 \in n+1..L BY <1>0, <3>1
      <4> QED BY <1>1, <4>1
    <3>2. CASE n = L
      <4> DEFINE e == [x \in {} |-> 0]
      <4>1. n+1..L = {} BY <1>0, <3>2
      <4>2. e = [x \in n+1..L |-> Shown(e, heap, heap[x])] BY <4>1
      <4> QED BY <4>2
    <3> QED BY <1>0, <3>1, <3>2
  <2> DEFINE g == [x \in n..L |-> IF x = n THEN Shown(f, heap, heap[n]) ELSE f[x]]
  <2>2. ASSUME NEW x \in n..L PROVE Shown(f, heap, heap[x]) = Shown(g, heap, heap[x])
    <3>1. x \in 1..L BY <1>0
    <3>2. \A k \in DOMAIN heap[x].items : heap[x].items[k].value \in x+1..L
      BY <3>1 DEF Sound, CellSound
    <3>3. \A v \in x+1..L : v \in n..L /\ v # n BY <1>0
    <3>4. \A k \in DOMAIN heap[x].items :
            f[heap[x].items[k].value] = g[heap[x].items[k].value]
      BY <3>2, <3>3
    <3> HIDE DEF g
    <3> QED BY <3>4, ShownSame
  <2>3. ASSUME NEW x \in n..L PROVE g[x] = Shown(g, heap, heap[x])
    <3>1. CASE x = n BY <2>2, <3>1
    <3>2. CASE x # n
      <4>1. x \in n+1..L BY <1>0, <3>2
      <4>2. f[x] = Shown(f, heap, heap[x]) BY <2>1, <4>1, Zenon
      <4> QED BY <2>2, <3>2, <4>2
    <3> QED BY <3>1, <3>2
  <2>4. g = [x \in n..L |-> Shown(g, heap, heap[x])]
    <3>1. g = [x \in n..L |-> g[x]] OBVIOUS
    <3> HIDE DEF g
    <3> QED BY <2>3, <3>1, Zenon
  <2> HIDE DEF g
  <2> QED BY <2>4
<1>2. 1..L \subseteq G BY <1>0, <1>1, Downwards
<1>3. \E f : IsDumps(f, heap)
  <2>1. CASE L = 0
    <3> DEFINE e == [x \in {} |-> 0]
    <3>1. 1..L = {} BY <2>1
    <3>2. e = [x \in 1..L |-> Shown(e, heap, heap[x])] BY <3>1
    <3> QED BY <3>2 DEF IsDumps
  <2>2. CASE L # 0
    <3>1. 1 \in G BY <1>0, <1>2, <2>2
    <3> QED BY <3>1 DEF IsDumps
  <2> QED BY <2>1, <2>2
<1> QED BY <1>3, Zenon DEF Dumps

LEMMA DumpUnfold ==
  ASSUME NEW heap, Sound(heap), NEW n \in 1..Len(heap)
  PROVE  Dumps(heap)[n] = Shown(Dumps(heap), heap, heap[n])
<1> DEFINE f == Dumps(heap)
<1>1. f = [x \in 1..Len(heap) |-> Shown(f, heap, heap[x])] BY DumpsExist DEF IsDumps
<1> HIDE DEF f
<1>2. f[n] = Shown(f, heap, heap[n]) BY <1>1, Zenon
<1> QED BY <1>2 DEF f

(* A string has its text; members have keys, and other items have none. *)
Keyed(c, k) == c.kind = "object" <=> c.items[k].key # NULL

Whole(c) == /\ c.kind = "string" => c.buf # NULL
            /\ \A k \in DOMAIN c.items : Keyed(c, k)

AllWhole(heap) == \A b \in 1..Len(heap) : Whole(heap[b])

(* Keys and texts are parts of the tree. *)
LEMMA KeysIn ==
  ASSUME NEW heap, Sound(heap), AllWhole(heap), NEW n \in 1..Len(heap)
  PROVE  /\ heap[n].kind = "string" => /\ heap[n].buf \in Trees(heap)[n]
                                       /\ heap[n].buf \in n+1..Len(heap)
         /\ heap[n].kind = "object" => \A k \in DOMAIN heap[n].items :
              /\ heap[n].items[k].key \in Trees(heap)[n]
              /\ heap[n].items[k].key \in n+1..Len(heap)
<1>1. Whole(heap[n]) BY DEF AllWhole
<1>2. CellSound(heap[n], n, Len(heap)) BY DEF Sound
<1>3. Trees(heap)[n] = Body(Trees(heap), heap[n], n) BY Unfold
<1>4. \A b : b # NULL => b \in Refs(b) BY DEF Refs
<1>5. ASSUME heap[n].kind = "string"
      PROVE  heap[n].buf \in Trees(heap)[n] /\ heap[n].buf \in n+1..Len(heap)
  BY <1>1, <1>2, <1>3, <1>4, <1>5 DEF Whole, Keyed, CellSound, Body
<1>6. ASSUME heap[n].kind = "object", NEW k \in DOMAIN heap[n].items
      PROVE  /\ heap[n].items[k].key \in Trees(heap)[n]
             /\ heap[n].items[k].key \in n+1..Len(heap)
  BY <1>1, <1>2, <1>3, <1>4, <1>6 DEF Whole, Keyed, CellSound, Body, Inner
<1> QED BY <1>5, <1>6

LEMMA DumpKept ==
  ASSUME NEW heap, NEW new, NEW b, Sound(heap), Sound(new), AllWhole(heap), Len(heap) <= Len(new),
         \A x \in 1..Len(heap) : x # b => new[x] = heap[x],
         NEW n \in 1..Len(heap), b \notin Trees(heap)[n]
  PROVE  Dumps(new)[n] = Dumps(heap)[n]
<1> DEFINE L == Len(heap)
           G == {x \in 1..L : b \notin Trees(heap)[x] => Dumps(new)[x] = Dumps(heap)[x]}
<1>0. L \in Nat /\ \A x \in 1..L : x \in 1..Len(new) BY DEF Sound
<1>1. ASSUME NEW x \in 1..L, \A m \in x+1..L : m \in G PROVE x \in G
  <2> SUFFICES ASSUME b \notin Trees(heap)[x] PROVE Dumps(new)[x] = Dumps(heap)[x] OBVIOUS
  <2>1. new[x] = heap[x] BY TreeInHeap
  <2>2. ASSUME NEW k \in DOMAIN heap[x].items
        PROVE  /\ Dumps(heap)[heap[x].items[k].value] = Dumps(new)[heap[x].items[k].value]
               /\ heap[x].kind = "object" => new[heap[x].items[k].key] = heap[heap[x].items[k].key]
    <3>1. heap[x].items[k].value \in x+1..L BY DEF Sound, CellSound
    <3>2. b \notin Trees(heap)[heap[x].items[k].value] BY ItemsIn
    <3>3. Dumps(heap)[heap[x].items[k].value] = Dumps(new)[heap[x].items[k].value]
      BY <1>1, <3>1, <3>2
    <3>4. ASSUME heap[x].kind = "object"
          PROVE  new[heap[x].items[k].key] = heap[heap[x].items[k].key]
      <4>1. PICK y : y = heap[x].items[k].key OBVIOUS
      <4>2. y \in Trees(heap)[x] /\ y \in x+1..L BY <3>4, <4>1, KeysIn
      <4>3. y \in 1..L /\ y # b BY <1>0, <4>2
      <4> QED BY <4>1, <4>3
    <3> QED BY <3>3, <3>4
  <2>3. ASSUME heap[x].kind = "string" PROVE new[heap[x].buf] = heap[heap[x].buf]
    <3>1. PICK y : y = heap[x].buf OBVIOUS
    <3>2. y \in Trees(heap)[x] /\ y \in x+1..L BY <2>3, <3>1, KeysIn
    <3>3. y \in 1..L /\ y # b BY <1>0, <3>2
    <3> QED BY <3>1, <3>3
  <2>4. Shown(Dumps(heap), heap, heap[x]) = Shown(Dumps(new), new, heap[x])
    BY <2>2, <2>3, ShownSame
  <2> QED BY <1>0, <2>1, <2>4, DumpUnfold
<1>2. 1..L \subseteq G BY <1>0, <1>1, Downwards
<1> QED BY <1>2

(* What is listed in a cell stays the same if the cell does, whether or    *)
(* not another is written, or its items do while it is written itself.     *)
LEMMA ListKept ==
  ASSUME NEW heap, NEW new, NEW b, Sound(heap), Sound(new), AllWhole(heap), Len(heap) <= Len(new),
         \A x \in 1..Len(heap) : x # b => new[x] = heap[x],
         NEW n \in 1..Len(heap), n = b \/ b \notin Trees(heap)[n]
  PROVE  /\ List(Dumps(new), new, heap[n]) = List(Dumps(heap), heap, heap[n])
         /\ Parts(Dumps(new), new, heap[n]) = Parts(Dumps(heap), heap, heap[n])
<1> DEFINE L == Len(heap)
<1>0. L \in Nat BY DEF Sound
<1>1. \A v \in 1..L : b \notin Trees(heap)[v] => Dumps(new)[v] = Dumps(heap)[v]
  BY DumpKept
<1>2. ASSUME NEW k \in DOMAIN heap[n].items
      PROVE  /\ Dumps(heap)[heap[n].items[k].value] = Dumps(new)[heap[n].items[k].value]
             /\ heap[n].kind = "object" => new[heap[n].items[k].key] = heap[heap[n].items[k].key]
  <2>1. PICK v : v = heap[n].items[k].value OBVIOUS
  <2>2. v \in n+1..L /\ v \in 1..L BY <2>1 DEF Sound, CellSound
  <2>3. b \notin Trees(heap)[v]
    <3>1. CASE n = b
      <4>1. Trees(heap)[v] \subseteq v..L BY <2>2, TreeInHeap
      <4> QED BY <2>2, <3>1, <4>1
    <3>2. CASE b \notin Trees(heap)[n] BY <2>1, <3>2, ItemsIn
    <3> QED BY <3>1, <3>2
  <2>4. ASSUME heap[n].kind = "object"
        PROVE  new[heap[n].items[k].key] = heap[heap[n].items[k].key]
    <3>1. PICK y : y = heap[n].items[k].key OBVIOUS
    <3>2. y \in Trees(heap)[n] /\ y \in n+1..L BY <2>4, <3>1, KeysIn
    <3>3. y \in 1..L /\ y # b BY <1>0, <3>2
    <3> QED BY <3>1, <3>3
  <2> QED BY <1>1, <2>1, <2>2, <2>3, <2>4
<1> QED BY <1>2, PartsSame

(* Everything printed consists of what tokens and doubles are printed as.  *)
Contents == Kinds \union Doubles \union {""}
Marks    == {AsIs(t) : t \in Contents} \union {Format[t] : t \in Contents}
              \union {dump_string_escaped(Chars[t]) : t \in Contents}
Printed  == Seq(Marks)

LEMMA MarksAre ==
  /\ \A t \in Kinds : AsIs(t) \in Marks /\ Back(t) \in Marks
  /\ \A c \in Cell : /\ AsIs(c.text) \in Marks /\ Format[c.text] \in Marks
                     /\ dump_string_escaped(Chars[c.text]) \in Marks
<1>1. \A t \in Contents : /\ AsIs(t) \in Marks /\ Format[t] \in Marks
                          /\ dump_string_escaped(Chars[t]) \in Marks
  BY Zenon DEF Marks
<1>2. Kinds \subseteq Contents /\ Doubles \subseteq Contents BY Zenon DEF Contents
<1>3. \A t \in Numbers : strtod[t] \in Doubles BY JsonAssumption
<1>4. \A t \in Kinds : Back(t) \in Marks BY <1>1, <1>2, <1>3, Zenon DEF Back
<1>5. ASSUME NEW T, T = Kinds \union Doubles \union {""} PROVE \A c \in Cell : c.text \in T
  BY <1>5 DEF Cell
<1>6. \A c \in Cell : c.text \in Contents BY <1>5, Zenon DEF Contents
<1> QED BY <1>1, <1>2, <1>4, <1>6, Zenon

(* Brackets, commas, colons and literals come back as they are. *)
LEMMA BackAsIs ==
  \A t \in Punctuation \union Scalars : Back(t) = AsIs(t)
<1> DEFINE kinds == <<Punctuation, Strings, Scalars, Numbers, Errors>>
<1>1. \A m, n \in 1..5 : m # n => kinds[m] \cap kinds[n] = {} BY JsonAssumption
<1>2. kinds[1] = Punctuation /\ kinds[2] = Strings /\ kinds[3] = Scalars /\ kinds[4] = Numbers
  OBVIOUS
<1> HIDE DEF kinds
<1>3. kinds[1] \cap kinds[2] = {} /\ kinds[1] \cap kinds[4] = {} BY <1>1
<1>4. kinds[3] \cap kinds[2] = {} /\ kinds[3] \cap kinds[4] = {} BY <1>1
<1>5. \A t \in Punctuation \union Scalars : t \notin Strings /\ t \notin Numbers
  BY <1>2, <1>3, <1>4
<1> QED BY <1>5, Zenon DEF Back

LEMMA StringBack ==
  ASSUME NEW heap, NEW b, heap[b].text \in Strings
  PROVE  String(heap, b) = Back(heap[b].text)
<1> PICK t \in Strings : t = heap[b].text OBVIOUS
<1>1. t \notin Numbers BY KindsApart
<1>2. Back(t) = dump_string_escaped(Chars[t]) BY <1>1, Zenon DEF Back
<1> QED BY <1>2 DEF String

LEMMA CommaBack == Back(",") = AsIs(",") /\ Back(":") = AsIs(":")
BY BackAsIs DEF Punctuation

LEMMA BracketsBack ==
  \A fn \in Brackets : Back(fn) = AsIs(fn) /\ Back(CloseOf(fn)) = AsIs(CloseOf(fn))
<1>1. \A fn \in Brackets : fn \in Punctuation /\ CloseOf(fn) \in Punctuation
  BY DEF Brackets, CloseOf, Punctuation
<1> QED BY <1>1, BackAsIs

LEMMA Glued ==
  ASSUME NEW s \in Printed, NEW t \in Printed
  PROVE  s \o t \in Printed
BY ConcatProperties DEF Printed

LEMMA GluedThree ==
  ASSUME NEW s \in Printed, NEW t \in Printed, NEW u \in Printed
  PROVE  (s \o t) \o u = s \o (t \o u)
BY ConcatAssociative DEF Printed

Associates(s, t, u) == (s \o t) \o u = s \o (t \o u)

LEMMA GluedAgain == \A s, t, u \in Printed : Associates(s, t, u)
BY GluedThree DEF Associates

LEMMA GluedNothing == <<>> \in Printed /\ \A s \in Printed : s \o <<>> = s /\ <<>> \o s = s
BY DEF Printed

LEMMA OneMark == \A t \in Marks : <<t>> \in Printed
BY DEF Printed

LEMMA TwoMarks ==
  ASSUME NEW t \in Marks, NEW u \in Marks
  PROVE  <<t, u>> \in Printed /\ <<t, u>> = <<t>> \o <<u>>
<1>1. <<t>> \in Seq(Marks) BY OneMark DEF Printed
<1>2. Append(<<t>>, u) = <<t>> \o <<u>> BY <1>1, AppendIsConcat
<1>3. Append(<<t>>, u) = <<t, u>>
  <2>1. <<t, u>> \in Seq(Marks) /\ Len(<<t, u>>) = 2 /\ <<t, u>>[1] = t /\ <<t, u>>[2] = u OBVIOUS
  <2>2. /\ Append(<<t>>, u) \in Seq(Marks) /\ Len(Append(<<t>>, u)) = 2
        /\ Append(<<t>>, u)[1] = t /\ Append(<<t>>, u)[2] = u
    BY <1>1, AppendProperties
  <2>3. PICK r \in Seq(Marks), s \in Seq(Marks) : r = <<t, u>> /\ s = Append(<<t>>, u)
    BY <2>1, <2>2
  <2>4. Len(r) = 2 /\ Len(s) = 2 /\ \A k \in 1..2 : r[k] = s[k] BY <2>1, <2>2, <2>3
  <2>5. r = s BY <2>4, SeqEqual
  <2> QED BY <2>3, <2>5
<1>4. Append(<<t>>, u) \in Seq(Marks) BY <1>1, AppendProperties
<1> QED BY <1>2, <1>3, <1>4 DEF Printed

LEMMA CommasPrinted == \A n : Commas(n) \in Printed
<1>1. AsIs(",") \in Marks BY SomeKinds, MarksAre
<1>2. <<AsIs(",")>> \in Printed BY <1>1, OneMark
<1> QED BY <1>2, GluedNothing, Zenon DEF Commas

(* The key that stands before an item, if it has one. *)
Label(heap, key) == IF key = NULL THEN <<>> ELSE <<String(heap, key), AsIs(":")>>

LEMMA LabelPrinted ==
  ASSUME NEW heap, GoodHeap(heap), NEW key \in {NULL} \union 1..Len(heap)
  PROVE  Label(heap, key) \in Printed
<1>1. AsIs(":") \in Marks BY SomeKinds, MarksAre
<1>2. CASE key = NULL BY <1>2, GluedNothing DEF Label
<1>3. CASE key # NULL
  <2>1. heap[key] \in Cell BY <1>3 DEF GoodHeap
  <2>2. String(heap, key) \in Marks BY <2>1, MarksAre DEF String
  <2>3. PICK t \in Marks, u \in Marks : t = String(heap, key) /\ u = AsIs(":") BY <1>1, <2>2
  <2>4. <<t, u>> \in Printed BY TwoMarks
  <2> QED BY <1>3, <2>3, <2>4 DEF Label
<1> QED BY <1>2, <1>3

PartOf(f, heap, m) == Label(heap, m.key) \o f[m.value]

LEMMA PartIs ==
  \A f, heap, c : \A k \in DOMAIN c.items :
    Keyed(c, k) => Parts(f, heap, c)[k] = PartOf(f, heap, c.items[k])
<1> SUFFICES ASSUME NEW f, NEW heap, NEW c, NEW k \in DOMAIN c.items, Keyed(c, k)
    PROVE  Parts(f, heap, c)[k] = Label(heap, c.items[k].key) \o f[c.items[k].value]
  BY DEF PartOf
<1>1. Parts(f, heap, c)[k] =
        (IF c.kind = "object" THEN <<String(heap, c.items[k].key), AsIs(":")>> ELSE <<>>)
          \o f[c.items[k].value]
  BY Zenon DEF Parts
<1>2. (IF c.kind = "object" THEN <<String(heap, c.items[k].key), AsIs(":")>> ELSE <<>>) =
      Label(heap, c.items[k].key)
  BY Zenon DEF Label, Keyed
<1> QED BY <1>1, <1>2

KindOf(fn) == IF fn = "{" THEN "object" ELSE "array"

LEMMA ShownIs ==
  ASSUME NEW f, NEW heap, NEW c
  PROVE  /\ \A fn \in Brackets : c.kind = KindOf(fn) =>
              Shown(f, heap, c) = <<AsIs(fn)>> \o List(f, heap, c) \o <<AsIs(CloseOf(fn))>>
         /\ c.kind = "string" => Shown(f, heap, c) = <<String(heap, c.buf)>>
         /\ c.kind = "number" => Shown(f, heap, c) = <<Format[c.text]>>
         /\ c.kind \in {"literal", "bytes"} => Shown(f, heap, c) = <<AsIs(c.text)>>
BY Zenon DEF Brackets, KindOf, CloseOf, Shown

LEMMA KindCases ==
  \A c \in Cell : \/ \E fn \in Brackets : c.kind = KindOf(fn)
                  \/ c.kind \in {"string", "number"} \/ c.kind \in {"literal", "bytes"}
<1>1. "{" \in Brackets /\ "[" \in Brackets BY DEF Brackets
<1>2. KindOf("{") = "object" /\ KindOf("[") = "array" BY DEF KindOf
<1> QED BY <1>1, <1>2 DEF Cell

LEMMA BracketsPrinted == \A fn \in Brackets : <<AsIs(fn)>> \in Printed /\ <<AsIs(CloseOf(fn))>> \in Printed
<1>1. \A fn \in Brackets : fn \in Kinds /\ CloseOf(fn) \in Kinds
  BY SomeKinds DEF Brackets, CloseOf
<1>2. \A fn \in Brackets : AsIs(fn) \in Marks /\ AsIs(CloseOf(fn)) \in Marks
  BY <1>1, MarksAre
<1> QED BY <1>2, OneMark

LEMMA ItemsAre ==
  ASSUME NEW heap, GoodHeap(heap), NEW n \in 1..Len(heap)
  PROVE  /\ heap[n] \in Cell /\ Len(heap[n].items) \in Nat
         /\ DOMAIN heap[n].items = 1..Len(heap[n].items)
         /\ \A k \in DOMAIN heap[n].items : /\ heap[n].items[k].key \in {NULL} \union n+1..Len(heap)
                                            /\ heap[n].items[k].value \in n+1..Len(heap)
<1>1. heap[n] \in Cell BY DEF GoodHeap
<1>2. heap[n].items \in Seq([key : Nat, value : Nat]) BY <1>1 DEF Cell
<1>3. CellSound(heap[n], n, Len(heap)) BY DEF GoodHeap, Sound
<1> QED BY <1>1, <1>2, <1>3 DEF CellSound

LEMMA ListPrinted ==
  ASSUME NEW heap, GoodHeap(heap), AllWhole(heap), NEW n \in 1..Len(heap), NEW f,
         \A k \in DOMAIN heap[n].items : f[heap[n].items[k].value] \in Printed
  PROVE  List(f, heap, heap[n]) \in Printed
<1> PICK c : c = heap[n] OBVIOUS
<1> PICK p : p = Parts(f, heap, c) OBVIOUS
<1>0. \A k \in DOMAIN c.items : Keyed(c, k) => p[k] = PartOf(f, heap, c.items[k])
  BY PartIs
<1> PICK m : m = Len(heap[n].items) OBVIOUS
<1>1. m \in Nat /\ DOMAIN heap[n].items = 1..m BY ItemsAre
<1>2. ASSUME NEW k \in 1..m PROVE p[k] \in Seq(Marks)
  <2>1. k \in DOMAIN heap[n].items BY <1>1
  <2>2. Keyed(heap[n], k) BY <2>1 DEF AllWhole, Whole
  <2>3. PICK i : i = heap[n].items[k] OBVIOUS
  <2>4. p[k] = Label(heap, i.key) \o f[i.value] BY <1>0, <2>1, <2>2, <2>3 DEF PartOf
  <2>5. i.key \in {NULL} \union 1..Len(heap)
    <3>1. i.key \in {NULL} \union n+1..Len(heap) BY <2>1, <2>3, ItemsAre
    <3>2. Len(heap) \in Nat BY DEF GoodHeap
    <3> QED BY <3>1, <3>2
  <2>6. Label(heap, i.key) \in Printed BY <2>5, LabelPrinted
  <2>7. f[i.value] \in Printed BY <2>1, <2>3
  <2> QED BY <2>4, <2>6, <2>7, Glued DEF Printed
<1>3. Joined(p)[m] \in Seq(Marks) BY <1>1, <1>2, JoinedTexts, CommasPrinted DEF Printed
<1> QED BY <1>3, Zenon DEF List, Printed

LEMMA DumpPrinted ==
  ASSUME NEW heap, GoodHeap(heap), AllWhole(heap)
  PROVE  /\ \A n \in 1..Len(heap) : Dumps(heap)[n] \in Printed
         /\ \A n \in 1..Len(heap) : List(Dumps(heap), heap, heap[n]) \in Printed
<1> DEFINE L == Len(heap)
           G == {n \in 1..L : Dumps(heap)[n] \in Printed}
<1>0. L \in Nat /\ Sound(heap) BY DEF GoodHeap
<1> PICK f : f = Dumps(heap) OBVIOUS
<1>1. ASSUME NEW n \in 1..L, \A m \in n+1..L : m \in G PROVE n \in G
  <2>1. \A k \in DOMAIN heap[n].items : f[heap[n].items[k].value] \in Printed
    BY <1>1, ItemsAre
  <2>2. List(f, heap, heap[n]) \in Printed BY <2>1, ListPrinted
  <2>3. f[n] = Shown(f, heap, heap[n]) BY <1>0, DumpUnfold
  <2> PICK c \in Cell : c = heap[n] BY ItemsAre
  <2>4. CASE \E fn \in Brackets : c.kind = KindOf(fn)
    <3>1. PICK fn \in Brackets : c.kind = KindOf(fn) BY <2>4
    <3>2. f[n] = <<AsIs(fn)>> \o List(f, heap, c) \o <<AsIs(CloseOf(fn))>> BY <2>3, <3>1, ShownIs
    <3>3. PICK a \in Printed, b \in Printed, l \in Printed :
             a = <<AsIs(fn)>> /\ b = <<AsIs(CloseOf(fn))>> /\ l = List(f, heap, c)
      BY <2>2, BracketsPrinted
    <3>4. f[n] = a \o l \o b BY <3>2, <3>3
    <3> QED BY <3>4, Glued
  <2>5. CASE c.kind = "string"
    <3>1. f[n] = <<String(heap, c.buf)>> BY <2>3, <2>5, ShownIs
    <3>2. c.buf \in n+1..L BY <1>0, <2>5, KeysIn
    <3>3. heap[c.buf] \in Cell BY <1>0, <3>2 DEF GoodHeap
    <3>4. String(heap, c.buf) \in Marks BY <3>3, MarksAre DEF String
    <3> QED BY <3>1, <3>4, OneMark
  <2>6. CASE c.kind = "number"
    <3>1. f[n] = <<Format[c.text]>> BY <2>3, <2>6, ShownIs
    <3>2. Format[c.text] \in Marks BY MarksAre
    <3> QED BY <3>1, <3>2, OneMark
  <2>7. CASE c.kind \in {"literal", "bytes"}
    <3>1. f[n] = <<AsIs(c.text)>> BY <2>3, <2>7, ShownIs
    <3>2. AsIs(c.text) \in Marks BY MarksAre
    <3> QED BY <3>1, <3>2, OneMark
  <2> QED BY <2>4, <2>5, <2>6, <2>7, KindCases
<1>2. 1..L \subseteq G
  <2> HIDE DEF G
  <2> QED BY <1>0, <1>1, Downwards
<1>3. \A n \in 1..L : Dumps(heap)[n] \in Printed BY <1>2
<1>4. ASSUME NEW n \in 1..L PROVE List(Dumps(heap), heap, heap[n]) \in Printed
  <2>1. \A k \in DOMAIN heap[n].items : heap[n].items[k].value \in 1..L BY <1>0, ItemsAre
  <2>2. \A k \in DOMAIN heap[n].items : f[heap[n].items[k].value] \in Printed
    BY <1>3, <2>1
  <2> QED BY <2>2, ListPrinted
<1> QED BY <1>3, <1>4

-----------------------------------------------------------------------------
(***************************************************************************)
(* The round trip.  A[k] is the text before the value that level k fills   *)
(* in: that of the level below, the bracket, the items so far, a comma and *)
(* a key.  What was read is A at the innermost level, or a little more.    *)
(***************************************************************************)
Shows == PrintOf(Read)

LEMMA OneMoreShown ==
  ASSUME NEW s \in Texts, NEW t \in Kinds
  PROVE  PrintOf(s) \in Printed /\ PrintOf(s \o <<t>>) = PrintOf(s) \o <<Back(t)>>
<1> PICK n \in Nat : n = Len(s) BY DEF Texts
<1>1. DOMAIN s = 1..n /\ \A k \in 1..n : s[k] \in Kinds BY DEF Texts
<1>2. PICK p : p = PrintOf(s) OBVIOUS
<1>3. p \in Seq(Marks) /\ Len(p) = n /\ \A k \in 1..n : p[k] = Back(s[k])
  <2>1. p = [k \in 1..n |-> Back(s[k])] BY <1>1, <1>2 DEF PrintOf
  <2>2. \A k \in 1..n : Back(s[k]) \in Marks BY <1>1, MarksAre
  <2>3. PICK f : f = [k \in 1..n |-> Back(s[k])] OBVIOUS
  <2>4. \A k \in 1..n : f[k] = Back(s[k]) BY <2>3
  <2>5. f \in [1..n -> Marks] BY <2>2, <2>3
  <2>6. f \in Seq(Marks) /\ Len(f) = n BY <2>5
  <2> QED BY <2>1, <2>3, <2>4, <2>6
<1>4. PICK u : u = s \o <<t>> OBVIOUS
<1>5. DOMAIN u = 1..n+1 /\ u[n+1] = t /\ \A k \in 1..n : u[k] = s[k] BY <1>4 DEF Texts
<1>6. PICK b \in Marks : b = Back(t) BY MarksAre
<1>7. PICK q : q = PrintOf(u) OBVIOUS
<1>8. q \in Seq(Marks) /\ Len(q) = n + 1 /\ q[n+1] = b /\ \A k \in 1..n : q[k] = p[k]
  <2>1. PICK f : f = [k \in 1..n+1 |-> Back(u[k])] OBVIOUS
  <2>2. q = f BY <1>5, <1>7, <2>1 DEF PrintOf
  <2>3. \A k \in 1..n+1 : f[k] = Back(u[k]) BY <2>1
  <2>4. n + 1 \in 1..n+1 /\ \A k \in 1..n : k \in 1..n+1 OBVIOUS
  <2>5. f[n+1] = b BY <1>5, <1>6, <2>3, <2>4
  <2>6. \A k \in 1..n : f[k] = p[k] BY <1>3, <1>5, <2>3, <2>4
  <2>7. \A k \in 1..n+1 : k = n + 1 \/ k \in 1..n OBVIOUS
  <2>8. \A k \in 1..n+1 : f[k] \in Marks BY <1>3, <2>5, <2>6, <2>7
  <2>9. f \in [1..n+1 -> Marks] BY <2>1, <2>8
  <2> QED BY <2>2, <2>5, <2>6, <2>9
<1>9. q = Append(p, b)
  <2>1. PICK a : a = Append(p, b) OBVIOUS
  <2>2. a \in Seq(Marks) /\ Len(a) = n + 1 /\ a[n+1] = b /\ \A k \in 1..n : a[k] = p[k]
    BY <1>3, <2>1
  <2>3. \A k \in 1..n+1 : k = n + 1 \/ k \in 1..n OBVIOUS
  <2>4. \A k \in 1..n+1 : a[k] = q[k] BY <1>8, <2>2, <2>3
  <2>5. a = q BY <1>8, <2>2, <2>4, SeqEqual
  <2> QED BY <2>1, <2>5
<1>10. Append(p, b) = p \o <<b>> BY <1>3, AppendIsConcat
<1> QED BY <1>2, <1>3, <1>4, <1>6, <1>7, <1>9, <1>10 DEF Printed

LEMMA ShowsPrinted == ASSUME JInv, Parsing PROVE Shows \in Printed
<1>1. Read \in Texts BY DEF JInv, Reads
<1>2. "," \in Kinds BY SomeKinds
<1> QED BY <1>1, <1>2, OneMoreShown DEF Shows

LEMMA ShowsNext ==
  ASSUME PInv, JInv, Parsing, look \in Kinds, next
  PROVE  Shows' = Shows \o <<Back(look)>>
<1>1. Reads BY DEF JInv
<1>2. Read \in Texts BY <1>1 DEF Reads
<1>3. PICK r, t : r = Read /\ t = look OBVIOUS
<1>4. Read' = r \o <<t>> BY <1>1, <1>3, NextToken, TypesAre
<1>5. Shows' = PrintOf(r \o <<t>>) BY <1>4 DEF Shows, PrintOf, Back
<1>6. PrintOf(r \o <<t>>) = PrintOf(r) \o <<Back(t)>> BY <1>2, <1>3, OneMoreShown
<1> QED BY <1>3, <1>5, <1>6 DEF Shows

Begun(heap, fn, n, key) ==
  <<AsIs(fn)>> \o List(Dumps(heap), heap, heap[n]) \o Commas(Len(heap[n].items)) \o Label(heap, key)

Written(A) ==
  /\ A \in [0..Depth -> Printed] /\ A[0] = <<>>
  /\ \A k \in 1..Depth : A[k] = A[k-1] \o Begun(cells, stack[k].fn, At(k-1), KeyAt(k))

(* Each container is what its function makes, and so are the keys.         *)
Shaped ==
  \A k \in 1..Depth : /\ cells[At(k-1)].kind = KindOf(stack[k].fn)
                      /\ stack[k].fn = "[" => KeyAt(k) = NULL
                      /\ stack[k].fn = "{" /\ At(k) # NULL => KeyAt(k) # NULL

Kept(A) ==
  /\ pc \in {"value", "first", "loop"} => Shows = A[Depth]
  /\ pc = "colon" => Shows \o <<AsIs(":")>> = A[Depth]
  /\ pc = "after" => Shows \o Commas(1) = A[Depth] /\ cells[At(Depth-1)].items # <<>>
  /\ pc = "returned" => Shows = A[Depth] \o Dumps(cells)[At(Depth)]
  /\ pc = "first" => cells[At(Depth-1)].items = <<>>

Holds == AllWhole(cells) /\ Shaped /\ \E A : Written(A) /\ Kept(A)

RInv ==
  /\ Parsing /\ (pc = "returned" => ok) => Holds
  /\ pc = "free" /\ rc = 0 => Dumps(cells)[root] = Shows

LEMMA BegunPrinted ==
  ASSUME NEW heap, GoodHeap(heap), AllWhole(heap), NEW n \in 1..Len(heap), NEW fn \in Brackets,
         NEW key \in {NULL} \union 1..Len(heap)
  PROVE  Begun(heap, fn, n, key) \in Printed
<1>1. PICK a \in Printed, l \in Printed, c \in Printed, b \in Printed :
         /\ a = <<AsIs(fn)>> /\ l = List(Dumps(heap), heap, heap[n])
         /\ c = Commas(Len(heap[n].items)) /\ b = Label(heap, key)
  BY BracketsPrinted, DumpPrinted, CommasPrinted, LabelPrinted
<1>2. Begun(heap, fn, n, key) = a \o l \o c \o b BY <1>1 DEF Begun
<1> QED BY <1>2, Glued

(* Another cell is written, or some are added. *)
LEMMA LevelKept ==
  ASSUME PInv, Parsing, AllWhole(cells), GoodHeap(cells'), Len(cells) <= Len(cells'),
         NEW b, \A x \in Blocks : x # b => cells'[x] = cells[x],
         NEW k \in 1..Depth, b \notin Own(k-1), b # KeyAt(k),
         stack'[k].fn = stack[k].fn, At(k-1)' = At(k-1), KeyAt(k)' = KeyAt(k)
  PROVE  /\ Begun(cells', stack'[k].fn, At(k-1)', KeyAt(k)') =
              Begun(cells, stack[k].fn, At(k-1), KeyAt(k))
         /\ cells'[At(k-1)'] = cells[At(k-1)]
<1>1. Sound(cells) /\ Sound(cells') /\ k - 1 \in 0..Depth /\ k - 1 \in 0..Depth-1 /\ k \in 0..Depth
  BY Levels DEF GoodHeap
<1>2. At(k-1) # NULL /\ At(k-1) \in Blocks /\ At(k-1) \in Own(k-1)
  BY <1>1, Levels DEF Calls
<1>3. PICK n \in 1..Len(cells) : n = At(k-1) BY <1>2 DEF Blocks
<1>4. b \notin Trees(cells)[n] /\ n # b BY <1>2, <1>3 DEF Own, TreeAt
<1>5. cells'[n] = cells[n] BY <1>4 DEF Blocks
<1>6. List(Dumps(cells'), cells', cells[n]) = List(Dumps(cells), cells, cells[n])
  BY <1>1, <1>4, ListKept DEF Blocks
<1>7. PICK y \in {NULL} \union Blocks : y = KeyAt(k) BY <1>1, Levels
<1>8. Label(cells', y) = Label(cells, y)
  <2>1. y # NULL => cells'[y] = cells[y] BY <1>7
  <2>2. y # NULL => String(cells', y) = String(cells, y) BY <2>1 DEF String
  <2> QED BY <2>2, Zenon DEF Label
<1>9. \A fn : Begun(cells', fn, n, y) = Begun(cells, fn, n, y)
  BY <1>5, <1>6, <1>8, Zenon DEF Begun
<1> QED BY <1>3, <1>5, <1>7, <1>9

(* What is written to is the value at the innermost level, or nothing.     *)
LEMMA LevelsKept ==
  ASSUME PInv, Parsing, AllWhole(cells), GoodHeap(cells'), Len(cells) <= Len(cells'),
         NEW b \in {NULL, At(Depth)}, \A x \in Blocks : x # b => cells'[x] = cells[x],
         NEW k \in 1..Depth,
         stack'[k].fn = stack[k].fn, At(k-1)' = At(k-1), KeyAt(k)' = KeyAt(k)
  PROVE  /\ Begun(cells', stack'[k].fn, At(k-1)', KeyAt(k)') =
              Begun(cells, stack[k].fn, At(k-1), KeyAt(k))
         /\ cells'[At(k-1)'] = cells[At(k-1)]
<1>1. Depth \in Nat /\ k - 1 \in 0..Depth /\ k \in 0..Depth /\ Depth \in 0..Depth /\ k - 1 # Depth
  BY Levels
<1>2. \A j \in 0..Depth : NULL \notin Own(j) BY Levels DEF Blocks, NULL
<1>3. CASE b = NULL /\ KeyAt(k) = NULL
  <2>1. PICK c : c = Len(cells) + 1 OBVIOUS
  <2>2. c \notin Blocks /\ c # NULL BY <2>1, Levels DEF Blocks, NULL
  <2>3. \A x \in Blocks : x # c => cells'[x] = cells[x] BY <1>3, Levels DEF Blocks, NULL
  <2>4. c \notin Own(k-1) BY <1>1, <2>2, Levels
  <2>5. c # KeyAt(k) BY <1>3, <2>2
  <2> QED BY <2>3, <2>4, <2>5, LevelKept
<1>4. CASE b = NULL /\ KeyAt(k) # NULL BY <1>1, <1>2, <1>4, LevelKept
<1>5. CASE b = At(Depth) /\ b # NULL
  <2>1. b \in Own(Depth) BY <1>1, <1>5, Levels
  <2>2. b \notin Own(k-1) BY <1>1, <2>1, OthersDisjoint
  <2>3. b # KeyAt(k)
    <3>1. CASE k = Depth
      <4>1. KeyAt(k) < At(k) BY <1>5, <3>1, Levels DEF Calls
      <4>2. At(k) \in Nat BY <1>1, Levels DEF Blocks, NULL
      <4>3. KeyAt(k) \in Nat BY <1>1, Levels DEF Blocks, NULL
      <4> QED BY <1>5, <3>1, <4>1, <4>2, <4>3
    <3>2. CASE k # Depth
      <4>1. b \notin Own(k) BY <1>1, <2>1, <3>2, OthersDisjoint
      <4>2. KeyAt(k) # NULL => KeyAt(k) \in Own(k) BY DEF Own, Refs
      <4> QED BY <1>5, <4>1, <4>2
    <3> QED BY <3>1, <3>2
  <2> QED BY <2>2, <2>3, LevelKept
<1> QED BY <1>3, <1>4, <1>5

(* The heap after a step, at the innermost level and below. *)
LEMMA Undisturbed ==
  ASSUME PInv, Parsing, AllWhole(cells), GoodHeap(cells'), Len(cells) <= Len(cells'),
         NEW b \in {NULL, At(Depth)}, \A x \in Blocks : x # b => cells'[x] = cells[x],
         Depth' = Depth, \A k \in 1..Depth : stack'[k].fn = stack[k].fn,
         \A k \in 0..Depth-1 : At(k)' = At(k) /\ KeyAt(k)' = KeyAt(k),
         KeyAt(Depth)' = KeyAt(Depth)
  PROVE  /\ \A A : Written(A) => Written(A)'
         /\ Shaped /\ (At(Depth)' = At(Depth) \/ KeyAt(Depth) # NULL \/ stack[Depth].fn # "{")
              => Shaped'
<1>1. Depth \in Nat BY Levels
<1>2. ASSUME NEW k \in 1..Depth
      PROVE  /\ Begun(cells', stack'[k].fn, At(k-1)', KeyAt(k)') =
                  Begun(cells, stack[k].fn, At(k-1), KeyAt(k))
             /\ cells'[At(k-1)'] = cells[At(k-1)]
             /\ stack'[k].fn = stack[k].fn /\ KeyAt(k)' = KeyAt(k)
  <2>1. k - 1 \in 0..Depth-1 /\ (k = Depth \/ k \in 0..Depth-1) BY <1>1
  <2>2. At(k-1)' = At(k-1) /\ KeyAt(k)' = KeyAt(k) /\ stack'[k].fn = stack[k].fn BY <2>1
  <2> QED BY <2>2, LevelsKept
<1>3. ASSUME NEW A, Written(A) PROVE Written(A)'
  BY <1>2, <1>3 DEF Written
<1>4. ASSUME Shaped, At(Depth)' = At(Depth) \/ KeyAt(Depth) # NULL \/ stack[Depth].fn # "{"
      PROVE  Shaped'
  <2>1. ASSUME NEW k \in 1..Depth
        PROVE  /\ cells'[At(k-1)'].kind = KindOf(stack'[k].fn)
               /\ stack'[k].fn = "[" => KeyAt(k)' = NULL
               /\ stack'[k].fn = "{" /\ At(k)' # NULL => KeyAt(k)' # NULL
    <3>1. cells[At(k-1)].kind = KindOf(stack[k].fn) /\ (stack[k].fn = "[" => KeyAt(k) = NULL)
      BY <1>4 DEF Shaped
    <3>2. ASSUME stack[k].fn = "{", At(k)' # NULL PROVE KeyAt(k) # NULL
      <4>1. CASE k = Depth BY <1>4, <3>2, <4>1 DEF Shaped
      <4>2. CASE k # Depth
        <5>1. k \in 0..Depth-1 BY <1>1, <4>2
        <5> QED BY <1>4, <3>2, <5>1 DEF Shaped
      <4> QED BY <4>1, <4>2
    <3> QED BY <1>2, <3>1, <3>2
  <2> QED BY <2>1 DEF Shaped
<1> QED BY <1>3, <1>4

LEMMA GoodHeapNext == ASSUME PInv' PROVE GoodHeap(cells')
<1>1. /\ cells' \in Seq(Cell) /\ Sound(cells')
      /\ \A b \in 1..Len(cells') : Len(cells'[b].items) <= cells'[b].cap
  BY DEF PInv, TypeOK, Blocks
<1> QED BY <1>1 DEF GoodHeap, Room

LEMMA WasHeld == ASSUME RInv, Parsing, pc = "returned" => ok
               PROVE  AllWhole(cells) /\ Shaped /\ \E A : Written(A) /\ Kept(A)
BY DEF RInv, Holds

LEMMA StillHeld ==
  ASSUME pc' \in {"value", "first", "loop", "colon", "returned", "after"},
         AllWhole(cells'), Shaped', NEW B, Written(B)', Kept(B)'
  PROVE  RInv'
<1>1. Holds' BY DEF Holds
<1> QED BY <1>1 DEF RInv, Parsing

LEMMA Fails == ASSUME pc' = "returned", ~ok' PROVE RInv'
BY DEF RInv, Parsing

(* The text at a level. *)
LEMMA WrittenHere ==
  ASSUME PInv, NEW A, Written(A)
  PROVE  /\ A[Depth] \in Printed
         /\ Depth > 0 => /\ A[Depth-1] \in Printed
                         /\ A[Depth] = A[Depth-1] \o Begun(cells, stack[Depth].fn, At(Depth-1), KeyAt(Depth))
<1>1. PICK n \in Nat : n = Depth BY TypesAre
<1>2. n \in 0..n /\ (n > 0 => n - 1 \in 0..n /\ n \in 1..n) BY <1>1
<1>3. A[n] \in Printed /\ (n > 0 => A[n-1] \in Printed) BY <1>1, <1>2 DEF Written
<1>4. n > 0 => A[n] = A[n-1] \o Begun(cells, stack[n].fn, At(n-1), KeyAt(n))
  BY <1>1, <1>2 DEF Written
<1> QED BY <1>1, <1>3, <1>4

(* A value is written; what is printed of it is the token passed. *)
LEMMA ValueDone ==
  ASSUME PInv, PInv', JInv, RInv, pc = "value", next, look \in Kinds, UNCHANGED stack,
         Len(cells) <= Len(cells'), \A x \in Blocks : x # At(Depth) => cells'[x] = cells[x],
         AllWhole(cells'), Dumps(cells')[At(Depth)] = <<Back(look)>>, pc' = "returned"
  PROVE  RInv'
<1>0. Parsing BY DEF Parsing
<1>1. AllWhole(cells) /\ Shaped BY <1>0, WasHeld
<1>2. PICK A : Written(A) /\ Kept(A) BY <1>0, WasHeld
<1>3. GoodHeap(cells') BY GoodHeapNext
<1>4. /\ Depth' = Depth /\ \A k : stack'[k].fn = stack[k].fn
      /\ \A k : At(k)' = At(k) /\ KeyAt(k)' = KeyAt(k)
  BY DEF Depth, At, KeyAt
<1>5. Written(A)' /\ Shaped' BY <1>0, <1>1, <1>2, <1>3, <1>4, Undisturbed
<1>6. Shows = A[Depth] BY <1>2 DEF Kept
<1>7. Shows' = Shows \o <<Back(look)>> BY <1>0, ShowsNext
<1>8. Kept(A)'
  <2>1. At(Depth)' = At(Depth) BY DEF At, Depth
  <2>2. Shows' = A[Depth'] \o Dumps(cells')[At(Depth)'] BY <1>4, <1>6, <1>7, <2>1
  <2> QED BY <2>2 DEF Kept
<1> QED BY <1>1, <1>5, <1>8, StillHeld

(* The cells written and added are whole. *)
LEMMA WholeWritten ==
  ASSUME NEW heap, NEW new, NEW b, AllWhole(heap),
         \A x \in 1..Len(new) : (x \in 1..Len(heap) /\ x # b /\ new[x] = heap[x]) \/ Whole(new[x])
  PROVE  AllWhole(new)
BY DEF AllWhole

LEMMA EmptyIsWhole ==
  ASSUME NEW c, c.items = <<>>, c.kind = "string" => c.buf # NULL
  PROVE  Whole(c)
BY DEF Whole

LEMMA NewIsWhole == Whole(Zero) /\ \A t : Whole(Bytes(t))
<1>1. Zero.items = <<>> /\ Zero.kind # "string" BY DEF Zero
<1>2. \A t : Bytes(t).items = <<>> /\ Bytes(t).kind # "string" BY DEF Bytes, Zero
<1> QED BY <1>1, <1>2, EmptyIsWhole

(* The innermost cell becomes c. *)
Becomes(o, c) ==
  /\ Len(cells) \in Nat /\ o = At(Depth) /\ o \in 1..Len(cells)
  /\ GoodHeap(cells') /\ Len(cells') = Len(cells) /\ cells'[o] = c
  /\ \A x \in 1..Len(cells) : x # o => cells'[x] = cells[x]

LEMMA OutWritten ==
  ASSUME PInv, pc = "value", NEW c \in Cell, c.items = <<>>, c.buf = NULL, NEW o, o = Out,
         cells' = [cells EXCEPT ![o] = c]
  PROVE  Becomes(o, c)
<1>0. Parsing BY DEF Parsing
<1>1. GoodHeap(cells) /\ Len(cells) \in Nat BY <1>0, Levels
<1>2. o = At(Depth) /\ o \in 1..Len(cells) BY <1>0, OutIs, OutIsZero DEF Blocks
<1>3. GoodCell(c, o, Len(cells))
  <2>1. c.cap \in Nat /\ Len(c.items) = 0 BY DEF Cell
  <2> QED BY <2>1 DEF GoodCell, CellSound, Room
<1>4. GoodHeap(cells') BY <1>1, <1>2, <1>3, HeapWrite
<1>5. Len(cells') = Len(cells) /\ cells'[o] = c BY <1>1, <1>2, <1>3, HeapWrite
<1>6. \A x \in 1..Len(cells) : x # o => cells'[x] = cells[x]
  BY <1>1, <1>2, <1>3, HeapWrite
<1> QED BY <1>1, <1>2, <1>4, <1>5, <1>6 DEF Becomes

LEMMA LeafRead ==
  ASSUME PInv, PInv', JInv, RInv, pc = "value", next, look \in Kinds, UNCHANGED stack,
         pc' = "returned", NEW c, c.items = <<>>, NEW o, Becomes(o, c),
         \/ c.kind = "number" /\ Format[c.text] = Back(look)
         \/ c.kind = "literal" /\ AsIs(c.text) = Back(look)
  PROVE  RInv'
<1> USE DEF Becomes
<1>0. Parsing BY DEF Parsing
<1>5. AllWhole(cells')
  <2>1. AllWhole(cells) BY <1>0, WasHeld
  <2>2. Whole(c) BY EmptyIsWhole
  <2>3. \A x \in 1..Len(cells') : (x \in 1..Len(cells) /\ x # o /\ cells'[x] = cells[x]) \/ Whole(cells'[x])
    BY <2>2
  <2> QED BY <2>1, <2>3, WholeWritten
<1>6. Dumps(cells')[o] = <<Back(look)>>
  <2>1. Sound(cells') /\ o \in 1..Len(cells') BY DEF GoodHeap
  <2>2. Dumps(cells')[o] = Shown(Dumps(cells'), cells', c) BY <2>1, DumpUnfold
  <2>3. Shown(Dumps(cells'), cells', c) = <<Back(look)>> BY ShownIs
  <2> QED BY <2>2, <2>3
<1>7. Dumps(cells')[At(Depth)] = <<Back(look)>> BY <1>6
<1>8. Len(cells) <= Len(cells') /\ \A x \in Blocks : x # At(Depth) => cells'[x] = cells[x]
  BY DEF Blocks
<1> QED BY <1>5, <1>7, <1>8, ValueDone

LEMMA ReadsLiteral == PInv /\ PInv' /\ JInv /\ RInv /\ ValueLiteral => RInv'
<1> SUFFICES ASSUME PInv, PInv', JInv, RInv, ValueLiteral PROVE RInv' OBVIOUS
<1>1. pc = "value" /\ look \in Scalars /\ next /\ UNCHANGED stack /\ pc' = "returned"
  BY DEF ValueLiteral, Return
<1>2. PICK o, l : o = Out /\ l = look OBVIOUS
<1>3. o \in Blocks /\ cells[o] = Zero /\ cells \in Seq(Cell) BY <1>1, <1>2, OutIsZero
<1>l. l \in Kinds BY <1>1, <1>2 DEF Kinds
<1> DEFINE c == [Zero EXCEPT !.kind = "literal", !.text = l]
<1>4. c \in Cell /\ c.items = <<>> /\ c.buf = NULL /\ c.kind = "literal" /\ c.text = l
  <2>2. <<>> \in Seq([key : Nat, value : Nat]) OBVIOUS
  <2> QED BY <1>l, <2>2 DEF Zero, Cell, NULL
<1>5. cells' = [cells EXCEPT ![o] = c]
  <2>1. cells' = [cells EXCEPT ![o].kind = "literal", ![o].text = l]
    BY <1>2 DEF ValueLiteral
  <2> QED BY <1>3, <2>1 DEF Blocks
<1> HIDE DEF c
<1>6. look \in Kinds /\ c.text = look BY <1>2, <1>4, <1>l
<1>7. AsIs(c.text) = Back(look) BY <1>1, <1>6, BackAsIs
<1>8. Becomes(o, c) BY <1>1, <1>2, <1>4, <1>5, OutWritten
<1> QED BY <1>1, <1>4, <1>6, <1>7, <1>8, LeafRead

LEMMA ReadsNumber == PInv /\ PInv' /\ JInv /\ RInv /\ ValueNumber => RInv'
<1> SUFFICES ASSUME PInv, PInv', JInv, RInv, ValueNumber PROVE RInv' OBVIOUS
<1>1. pc = "value" /\ look \in Numbers /\ UNCHANGED stack BY DEF ValueNumber
<1>2. CASE Return(FALSE) BY <1>2, Fails DEF Return
<1>3. CASE /\ cells' = [cells EXCEPT ![Out].kind = "number", ![Out].text = strtod[look]]
           /\ next /\ Return(TRUE)
  <2>2. PICK o, l : o = Out /\ l = strtod[look] OBVIOUS
  <2>3. o \in Blocks /\ cells[o] = Zero /\ cells \in Seq(Cell) BY <1>1, <2>2, OutIsZero
  <2>l. l \in Doubles BY <1>1, <2>2, JsonAssumption
  <2> DEFINE c == [Zero EXCEPT !.kind = "number", !.text = l]
  <2>4. c \in Cell /\ c.items = <<>> /\ c.buf = NULL /\ c.kind = "number" /\ c.text = l
    <3>2. <<>> \in Seq([key : Nat, value : Nat]) OBVIOUS
    <3> QED BY <2>l, <3>2 DEF Zero, Cell, NULL
  <2>5. cells' = [cells EXCEPT ![o] = c]
    <3>1. cells' = [cells EXCEPT ![o].kind = "number", ![o].text = l]
      BY <1>3, <2>2
    <3> QED BY <2>3, <3>1 DEF Blocks
  <2> HIDE DEF c
  <2>6. look \in Kinds BY <1>1 DEF Kinds
  <2>7. pc' = "returned" BY <1>3 DEF Return
  <2>t. Format[c.text] = Back(look)
    <3>1. look \notin Strings BY <1>1, KindsApart
    <3>2. Back(look) = Format[strtod[look]] BY <1>1, <3>1, Zenon DEF Back
    <3> QED BY <2>2, <2>4, <3>2
  <2>8. Becomes(o, c) BY <1>1, <2>2, <2>4, <2>5, OutWritten
  <2>9. next BY <1>3
  <2> QED BY <1>1, <2>4, <2>6, <2>7, <2>8, <2>9, <2>t, LeafRead
<1> QED BY <1>2, <1>3 DEF ValueNumber

LEMMA ReadsString == PInv /\ PInv' /\ JInv /\ RInv /\ ValueString => RInv'
<1> SUFFICES ASSUME PInv, PInv', JInv, RInv, ValueString PROVE RInv' OBVIOUS
<1>0. Parsing /\ pc = "value" /\ look \in Strings /\ UNCHANGED stack /\ next
  BY DEF ValueString, Parsing
<1>1. GoodHeap(cells) /\ Len(cells) \in Nat BY <1>0, Levels
<1>2. PICK o, n : o = Out /\ n = New OBVIOUS
<1>3. /\ o \in 1..Len(cells) /\ o = At(Depth) /\ cells[o] = Zero /\ cells \in Seq(Cell)
      /\ n = Len(cells) + 1 /\ n \in Nat /\ n # NULL
  BY <1>0, <1>1, <1>2, OutIs, OutIsZero DEF Blocks, New, NULL
<1>4. CASE Return(FALSE) BY <1>4, Fails DEF Return
<1>5. CASE /\ cells' = Append([cells EXCEPT ![Out].kind = "string", ![Out].buf = New],
                              Bytes(look))
           /\ Return(TRUE)
  <2> DEFINE c == [Zero EXCEPT !.kind = "string", !.buf = n]
             d == Bytes(look)
  <2>1. c \in Cell /\ c.items = <<>> /\ c.buf = n /\ c.cap = 0 /\ c.kind = "string"
    <3>1. <<>> \in Seq([key : Nat, value : Nat]) OBVIOUS
    <3> QED BY <1>3, <3>1 DEF Zero, Cell, NULL
  <2>2. cells' = Append([cells EXCEPT ![o] = c], d)
    <3>1. [cells EXCEPT ![o].kind = "string", ![o].buf = n] = [cells EXCEPT ![o] = c]
      BY <1>3
    <3> QED BY <1>2, <1>5, <3>1
  <2>l. look \in Kinds BY <1>0 DEF Kinds
  <2>3. GoodCell(d, Len(cells) + 1, Len(cells) + 1) BY <1>0, <2>l, NewCellIsGood DEF New
  <2>d. d.text = look BY DEF Bytes, Zero
  <2>w. Whole(d) BY NewIsWhole
  <2> HIDE DEF c, d
  <2>4. GoodCell(c, o, Len(cells) + 1)
    <3>1. Len(c.items) = 0 /\ DOMAIN c.items = {} BY <2>1
    <3>2. n \in o+1 .. Len(cells)+1 BY <1>1, <1>3
    <3> QED BY <2>1, <3>1, <3>2 DEF GoodCell, CellSound, Room
  <2>5. /\ GoodHeap(cells') /\ Len(cells') = Len(cells) + 1 /\ cells'[o] = c
        /\ cells'[Len(cells) + 1] = d
        /\ \A x \in 1..Len(cells) : x # o => cells'[x] = cells[x]
    <3>2. GoodHeap(cells') BY <1>1, <1>3, <2>2, <2>3, <2>4, HeapWriteAdd
    <3>3. Len(cells') = Len(cells) + 1 BY <1>1, <1>3, <2>2, <2>3, <2>4, HeapWriteAdd
    <3>4. cells'[o] = c /\ cells'[Len(cells) + 1] = d
      BY <1>1, <1>3, <2>2, <2>3, <2>4, HeapWriteAdd
    <3>5. \A x \in 1..Len(cells) : x # o => cells'[x] = cells[x]
      BY <1>1, <1>3, <2>2, <2>3, <2>4, HeapWriteAdd
    <3> QED BY <3>2, <3>3, <3>4, <3>5
  <2>6. AllWhole(cells')
    <3>1. AllWhole(cells) BY <1>0, WasHeld
    <3>2. Whole(c) BY <1>3, <2>1, EmptyIsWhole
    <3>3. \A x \in 1..Len(cells') : x \in 1..Len(cells) \/ x = Len(cells) + 1
      BY <1>1, <2>5
    <3> QED BY <2>5, <2>w, <3>1, <3>2, <3>3, WholeWritten
  <2>7. Dumps(cells')[o] = <<Back(look)>>
    <3>1. Sound(cells') /\ o \in 1..Len(cells') BY <1>1, <1>3, <2>5 DEF GoodHeap
    <3>2. Dumps(cells')[o] = Shown(Dumps(cells'), cells', c) BY <2>5, <3>1, DumpUnfold
    <3>3. Shown(Dumps(cells'), cells', c) = <<String(cells', n)>> BY <2>1, ShownIs
    <3>4. cells'[n].text = look BY <1>3, <2>5, <2>d
    <3>5. String(cells', n) = Back(look) BY <1>0, <3>4, StringBack
    <3> QED BY <3>2, <3>3, <3>5
  <2>8. /\ Len(cells) <= Len(cells') /\ Dumps(cells')[At(Depth)] = <<Back(look)>>
        /\ \A x \in Blocks : x # At(Depth) => cells'[x] = cells[x]
    BY <1>1, <1>3, <2>5, <2>7 DEF Blocks
  <2>9. pc' = "returned" BY <1>5 DEF Return
  <2> QED BY <1>0, <2>6, <2>8, <2>9, <2>l, ValueDone
<1> QED BY <1>4, <1>5 DEF ValueString

-----------------------------------------------------------------------------
(* A level is entered. *)
LEMMA BegunEmpty ==
  ASSUME NEW heap, NEW n, heap[n].items = <<>>, NEW fn \in Brackets
  PROVE  Begun(heap, fn, n, NULL) = <<AsIs(fn)>>
<1>1. Len(heap[n].items) = 0 /\ Commas(0) = <<>> /\ Label(heap, NULL) = <<>>
  BY Zenon, Len(<<>>) = 0 DEF Commas, Label
<1>2. List(Dumps(heap), heap, heap[n]) = <<>> BY <1>1, JoinedStep DEF List
<1>3. <<AsIs(fn)>> \in Printed BY BracketsPrinted
<1>4. PICK s \in Printed : s = <<AsIs(fn)>> BY <1>3
<1>5. Begun(heap, fn, n, NULL) = s \o <<>> \o <<>> \o <<>> BY <1>1, <1>2, <1>4 DEF Begun
<1> QED BY <1>4, <1>5, GluedNothing

LEMMA ReadsOpen == PInv /\ PInv' /\ JInv /\ RInv /\ ValueOpen => RInv'
<1> SUFFICES ASSUME PInv, PInv', JInv, RInv, ValueOpen PROVE RInv' OBVIOUS
<1>0. Parsing /\ pc = "value" /\ look \in Brackets /\ next /\ pc' = "first"
  BY DEF ValueOpen, Parsing, Go, Brackets
<1>1. Depth \in Nat /\ stack \in Seq(Call) BY TypesAre
<1>2. PICK o, l, k : o = Out /\ l = look /\ k = KindOf(look) OBVIOUS
<1>o. o \in Nat BY <1>0, <1>2, OutIsNat
<1> DEFINE c == [Zero EXCEPT !.kind = k]
           t == [fn |-> l, out |-> o, elem |-> NULL, key |-> NULL]
<1>4. c \in Cell /\ c.items = <<>> /\ c.buf = NULL /\ c.kind = k /\ k # "string"
  <2>1. k \in {"object", "array"} BY <1>2 DEF KindOf
  <2>2. <<>> \in Seq([key : Nat, value : Nat]) OBVIOUS
  <2> QED BY <2>1, <2>2 DEF Zero, Cell, NULL
<1>5. cells' = [cells EXCEPT ![o] = c] BY <1>2 DEF ValueOpen, KindOf
<1>6. t \in Call /\ t.elem = NULL /\ t.key = NULL /\ t.fn = l
  BY <1>0, <1>2, <1>o DEF Call, NULL, Brackets
<1>7. stack' = Append(stack, t) BY <1>2 DEF ValueOpen
<1> HIDE DEF c, t
<1>8. Becomes(o, c) BY <1>0, <1>2, <1>4, <1>5, OutWritten
<1>9. /\ Depth' = Depth + 1 /\ stack'[Depth + 1] = t
      /\ At(Depth)' = t.elem /\ KeyAt(Depth)' = t.key
      /\ \A j \in 0..Depth : At(j)' = At(j) /\ KeyAt(j)' = KeyAt(j)
      /\ \A j \in 1..Depth : stack'[j] = stack[j]
  BY <1>1, <1>6, <1>7, Pushed1
<1>10. PICK d \in Nat : d = Depth BY <1>1
<1>11. AllWhole(cells) /\ Shaped BY <1>0, WasHeld
<1>12. PICK A : Written(A) /\ Kept(A) BY <1>0, WasHeld
<1>13. PICK s : s \in Printed /\ s = A[d] BY <1>10, <1>12, WrittenHere
<1>14. <<Back(look)>> \in Printed /\ s \o <<Back(look)>> \in Printed
  BY <1>0, <1>13, BracketsPrinted, BracketsBack, Glued
<1> DEFINE B == [j \in 0..d+1 |-> IF j = d+1 THEN s \o <<Back(look)>> ELSE A[j]]
<1>15. Shows' = B[d+1]
  <2>1. Shows = A[Depth] BY <1>0, <1>12 DEF Kept
  <2>2. look \in Kinds BY <1>0, SomeKinds DEF Brackets
  <2>3. Shows' = Shows \o <<Back(look)>> BY <1>0, <2>2, ShowsNext
  <2> QED BY <1>10, <1>13, <2>1, <2>3
<1>16. ASSUME NEW j \in 1..d
       PROVE  /\ Begun(cells', stack'[j].fn, At(j-1)', KeyAt(j)') =
                   Begun(cells, stack[j].fn, At(j-1), KeyAt(j))
              /\ cells'[At(j-1)'] = cells[At(j-1)]
  <2>1. /\ j \in 1..Depth /\ j - 1 \in 0..Depth /\ j \in 0..Depth BY <1>10
  <2>2. stack'[j].fn = stack[j].fn /\ At(j-1)' = At(j-1) /\ KeyAt(j)' = KeyAt(j)
    BY <1>9, <2>1
  <2>3. GoodHeap(cells') /\ Len(cells) <= Len(cells') BY <1>8 DEF Becomes
  <2>4. \A x \in Blocks : x # At(Depth) => cells'[x] = cells[x] BY <1>8 DEF Becomes, Blocks
  <2> QED BY <1>0, <1>11, <2>1, <2>2, <2>3, <2>4, LevelsKept
<1>17. At(d)' = o /\ KeyAt(d+1)' = NULL /\ At(d+1)' = NULL /\ stack'[d+1].fn = look
  <2>1. d \in 0..Depth /\ d = Depth BY <1>10
  <2>2. At(d)' = o BY <1>8, <1>9, <2>1 DEF Becomes
  <2>3. KeyAt(d+1)' = NULL BY <1>6, <1>9, <2>1
  <2>4. At(d+1)' = NULL BY <1>6, <1>9, <2>1
  <2> QED BY <1>2, <1>6, <1>9, <2>1, <2>2, <2>3, <2>4
<1>18. cells'[o] = c BY <1>8 DEF Becomes
<1>19. Begun(cells', look, o, NULL) = <<Back(look)>>
  BY <1>0, <1>4, <1>18, BegunEmpty, BracketsBack
<1>20. ASSUME NEW j \in 1..d+1
       PROVE  /\ B[j] = B[j-1] \o Begun(cells', stack'[j].fn, At(j-1)', KeyAt(j)')
              /\ cells'[At(j-1)'].kind = KindOf(stack'[j].fn)
              /\ stack'[j].fn = "[" => KeyAt(j)' = NULL
              /\ stack'[j].fn = "{" /\ At(j)' # NULL => KeyAt(j)' # NULL
  <2>0. j - 1 \in 0..d+1 /\ j - 1 # d + 1 /\ B[j-1] = A[j-1] OBVIOUS
  <2>1. CASE j = d + 1
    <3>1. j - 1 = d BY <2>1
    <3>2. B[j] = s \o <<Back(look)>> /\ B[j-1] = s BY <1>13, <2>0, <2>1, <3>1
    <3>3. At(j-1)' = o BY <1>17, <3>1
    <3> HIDE DEF B
    <3>4. stack'[j].fn = look /\ KeyAt(j)' = NULL /\ At(j)' = NULL BY <1>17, <2>1
    <3>5. Begun(cells', stack'[j].fn, At(j-1)', KeyAt(j)') = <<Back(look)>> BY <1>19, <3>3, <3>4
    <3> QED BY <1>2, <1>4, <1>18, <3>2, <3>3, <3>4, <3>5
  <2>2. CASE j # d + 1
    <3>1. j \in 1..d /\ B[j] = A[j] BY <2>2
    <3> HIDE DEF B
    <3>2. j \in 1..Depth /\ j \in 0..Depth BY <1>10, <3>1
    <3>3. A[j] = A[j-1] \o Begun(cells, stack[j].fn, At(j-1), KeyAt(j)) BY <1>12, <3>2 DEF Written
    <3>4. /\ cells[At(j-1)].kind = KindOf(stack[j].fn) /\ (stack[j].fn = "[" => KeyAt(j) = NULL)
          /\ stack[j].fn = "{" /\ At(j) # NULL => KeyAt(j) # NULL
      BY <1>11, <3>2 DEF Shaped
    <3>5. stack'[j] = stack[j] /\ At(j)' = At(j) /\ KeyAt(j)' = KeyAt(j) BY <1>9, <3>2
    <3>6. /\ Begun(cells', stack'[j].fn, At(j-1)', KeyAt(j)') =
               Begun(cells, stack[j].fn, At(j-1), KeyAt(j))
          /\ cells'[At(j-1)'] = cells[At(j-1)]
      BY <1>16, <3>1
    <3> QED BY <2>0, <3>1, <3>3, <3>4, <3>5, <3>6
  <2> QED BY <2>1, <2>2
<1>21. B \in [0..d+1 -> Printed] /\ B[0] = <<>>
  <2>1. \A j \in 0..d+1 : B[j] \in Printed
    <3>1. A \in [0..d -> Printed] BY <1>10, <1>12 DEF Written
    <3>2. \A j \in 0..d+1 : j # d+1 => j \in 0..d BY <1>10
    <3> QED BY <1>13, <1>14, <3>1, <3>2
  <2>2. A[0] = <<>> BY <1>12 DEF Written
  <2>3. 0 \in 0..d+1 /\ 0 # d+1 BY <1>10
  <2> QED BY <2>1, <2>2, <2>3
<1> HIDE DEF B
<1> PICK C : C = B OBVIOUS
<1>22. Depth' = d + 1 BY <1>9, <1>10
<1>23. Written(C)'
  <2>1. C \in [0..Depth' -> Printed] BY <1>21, <1>22
  <2>2. \A j \in 1..Depth' : C[j] = C[j-1] \o Begun(cells', stack'[j].fn, At(j-1)', KeyAt(j)')
    BY <1>20, <1>22
  <2> QED BY <1>21, <2>1, <2>2 DEF Written
<1>24. Shaped' BY <1>20, <1>22 DEF Shaped
<1>25. Kept(C)'
  <2>1. Shows' = C[Depth'] BY <1>15, <1>22
  <2>2. At(Depth-1)' = o
    <3>1. At(Depth-1)' = At(d)' BY <1>10, <1>22 DEF At
    <3> QED BY <1>17, <3>1
  <2>3. cells'[At(Depth-1)'].items = <<>> BY <1>4, <1>18, <2>2
  <2> QED BY <1>0, <2>1, <2>3 DEF Kept
<1>26. AllWhole(cells')
  <2>1. Whole(c) BY <1>4, EmptyIsWhole
  <2>2. \A x \in 1..Len(cells') : (x \in 1..Len(cells) /\ x # o /\ cells'[x] = cells[x]) \/ Whole(cells'[x])
    BY <1>8, <2>1 DEF Becomes
  <2> QED BY <1>11, <2>2, WholeWritten
<1> QED BY <1>0, <1>23, <1>24, <1>25, <1>26, StillHeld

-----------------------------------------------------------------------------
(* Nothing but the place changes, and what was read. *)
LEMMA ReadsOn ==
  ASSUME PInv, PInv', RInv, pc \in {"first", "after"}, UNCHANGED <<cells, stack>>, pc' = "loop",
         NEW A, Written(A), Shows' = A[Depth]
  PROVE  RInv'
<1>0. Parsing BY DEF Parsing
<1>1. AllWhole(cells) /\ Shaped BY <1>0, WasHeld
<1>3. GoodHeap(cells') BY GoodHeapNext
<1>4. /\ Depth' = Depth /\ \A k : stack'[k].fn = stack[k].fn
      /\ \A k : At(k)' = At(k) /\ KeyAt(k)' = KeyAt(k)
  BY DEF Depth, At, KeyAt
<1>5. Len(cells) <= Len(cells') /\ \A x \in Blocks : cells'[x] = cells[x] BY <1>0, Levels
<1>6. At(Depth)' = At(Depth) /\ KeyAt(Depth)' = KeyAt(Depth) BY DEF At, KeyAt, Depth
<1>7. Written(A)' /\ Shaped' BY <1>0, <1>1, <1>3, <1>4, <1>5, <1>6, Undisturbed
<1>9. Kept(A)' BY <1>4 DEF Kept
<1> QED BY <1>1, <1>7, <1>9, StillHeld

(* The innermost call's locals are those of c. *)
Locally(d, c) ==
  /\ Depth = d /\ d > 0 /\ Depth' = d /\ At(d)' = c.elem /\ KeyAt(d)' = c.key
  /\ \A k \in 0..d-1 : At(k)' = At(k) /\ KeyAt(k)' = KeyAt(k)
  /\ \A k \in 1..d : stack'[k].fn = stack[k].fn

LEMMA TopLocals ==
  ASSUME PInv, stack # <<>>, NEW c \in Call, c.fn = Top.fn, c.out = Top.out,
         stack' = [stack EXCEPT ![Len(stack)] = c], NEW d \in Nat, d = Depth
  PROVE  Locally(d, c)
<1>1. stack \in Seq(Call) /\ d = Len(stack) /\ d > 0 BY TypesAre DEF Depth
<1>2. /\ Depth' = Depth /\ At(Depth)' = c.elem /\ KeyAt(Depth)' = c.key
      /\ \A k \in 0..Depth-1 : At(k)' = At(k) /\ KeyAt(k)' = KeyAt(k)
  BY <1>1, TopSet
<1>3. At(d)' = c.elem /\ KeyAt(d)' = c.key
  <2>1. At(Depth)' = At(d)' /\ KeyAt(Depth)' = KeyAt(d)' BY <1>2 DEF At, KeyAt
  <2> QED BY <1>2, <2>1
<1>4. \A k \in 1..d : stack'[k].fn = stack[k].fn
  <2>1. \A k \in 1..d : stack'[k] = IF k = d THEN c ELSE stack[k] BY <1>1
  <2>2. Top = stack[d] BY <1>1 DEF Top
  <2> QED BY <2>1, <2>2
<1> QED BY <1>1, <1>2, <1>3, <1>4 DEF Locally

LEMMA LocalIs ==
  ASSUME PInv, stack # <<>>, NEW n \in Nat, NEW d \in Nat, d = Depth
  PROVE  /\ stack' = [stack EXCEPT ![Len(stack)].key = n] => Locally(d, [Top EXCEPT !.key = n])
         /\ stack' = [stack EXCEPT ![Len(stack)].elem = n] => Locally(d, [Top EXCEPT !.elem = n])
         /\ stack' = [stack EXCEPT ![Len(stack)].elem = NULL, ![Len(stack)].key = NULL]
              => Locally(d, [Top EXCEPT !.elem = NULL, !.key = NULL])
<1>1. stack \in Seq(Call) /\ Len(stack) \in 1..Len(stack) BY TypesAre DEF Depth
<1>2. Top \in Call BY <1>1 DEF Top
<1>3. ASSUME stack' = [stack EXCEPT ![Len(stack)].key = n]
      PROVE  Locally(d, [Top EXCEPT !.key = n])
  <2>1. PICK c : c = [Top EXCEPT !.key = n] OBVIOUS
  <2>2. c \in Call /\ c.fn = Top.fn /\ c.out = Top.out BY <1>2, <2>1 DEF Call
  <2>3. stack' = [stack EXCEPT ![Len(stack)] = c] BY <1>1, <1>3, <2>1 DEF Top
  <2>4. Locally(d, c) BY <2>2, <2>3, TopLocals
  <2> QED BY <2>1, <2>4
<1>4. ASSUME stack' = [stack EXCEPT ![Len(stack)].elem = n]
      PROVE  Locally(d, [Top EXCEPT !.elem = n])
  <2>1. PICK c : c = [Top EXCEPT !.elem = n] OBVIOUS
  <2>2. c \in Call /\ c.fn = Top.fn /\ c.out = Top.out BY <1>2, <2>1 DEF Call
  <2>3. stack' = [stack EXCEPT ![Len(stack)] = c] BY <1>1, <1>4, <2>1 DEF Top
  <2>4. Locally(d, c) BY <2>2, <2>3, TopLocals
  <2> QED BY <2>1, <2>4
<1>5. ASSUME stack' = [stack EXCEPT ![Len(stack)].elem = NULL, ![Len(stack)].key = NULL]
      PROVE  Locally(d, [Top EXCEPT !.elem = NULL, !.key = NULL])
  <2>1. PICK c : c = [Top EXCEPT !.elem = NULL, !.key = NULL] OBVIOUS
  <2>2. c \in Call /\ c.fn = Top.fn /\ c.out = Top.out BY <1>2, <2>1 DEF Call, NULL
  <2>3. stack' = [stack EXCEPT ![Len(stack)] = c] BY <1>1, <1>5, <2>1 DEF Top
  <2>4. Locally(d, c) BY <2>2, <2>3, TopLocals
  <2> QED BY <2>1, <2>4
<1> QED BY <1>3, <1>4, <1>5

(* A cell is added. *)
Grows(c) ==
  /\ Len(cells) \in Nat /\ GoodHeap(cells') /\ Len(cells') = Len(cells) + 1 /\ cells'[New] = c
  /\ \A x \in 1..Len(cells) : cells'[x] = cells[x]
  /\ AllWhole(cells) => AllWhole(cells')

LEMMA CellAdded ==
  ASSUME PInv, Parsing, NEW c, GoodCell(c, New, New), Whole(c), cells' = Append(cells, c)
  PROVE  Grows(c)
<1>1. GoodHeap(cells) /\ Len(cells) \in Nat BY Levels
<1>2. GoodHeap(cells') BY <1>1, HeapAdd DEF New
<1>3. Len(cells') = Len(cells) + 1 BY <1>1, HeapAdd DEF New
<1>4. cells'[New] = c BY <1>1, HeapAdd DEF New
<1>5. \A x \in 1..Len(cells) : cells'[x] = cells[x] BY <1>1, HeapAdd DEF New
<1>6. ASSUME AllWhole(cells) PROVE AllWhole(cells')
  <2>1. \A x \in 1..Len(cells') : (x \in 1..Len(cells) /\ x # New) \/ x = New
    BY <1>1, <1>3 DEF New
  <2>2. \A x \in 1..Len(cells') : (x \in 1..Len(cells) /\ x # New /\ cells'[x] = cells[x]) \/ Whole(cells'[x])
    BY <1>4, <1>5, <2>1
  <2> QED BY <1>6, <2>2, WholeWritten
<1> QED BY <1>1, <1>2, <1>3, <1>4, <1>5, <1>6 DEF Grows

(* What is written at the innermost level grows by s. *)
LEMMA TopGrows ==
  ASSUME PInv, NEW d \in Nat, d > 0, Depth = d, Depth' = d, NEW A, Written(A), NEW s \in Printed,
         Begun(cells, stack[d].fn, At(d-1), KeyAt(d)) \in Printed,
         Begun(cells', stack'[d].fn, At(d-1)', KeyAt(d)') =
           Begun(cells, stack[d].fn, At(d-1), KeyAt(d)) \o s,
         \A k \in 1..d-1 : Begun(cells', stack'[k].fn, At(k-1)', KeyAt(k)') =
                             Begun(cells, stack[k].fn, At(k-1), KeyAt(k))
  PROVE  \E C : Written(C)' /\ C[d] = A[d] \o s
<1> PICK a \in Printed, u \in Printed, w \in Printed :
      /\ a = A[d] /\ u = A[d-1] /\ w = Begun(cells, stack[d].fn, At(d-1), KeyAt(d))
  BY WrittenHere
<1>1. a = u \o w BY WrittenHere
<1>2. a \o s = u \o (w \o s) /\ a \o s \in Printed
  <2>1. (u \o w) \o s = u \o (w \o s)
    <3>1. Associates(u, w, s) BY GluedAgain
    <3> QED BY <3>1, Zenon DEF Associates
  <2>2. a \o s \in Printed BY Glued
  <2> QED BY <1>1, <2>1, <2>2
<1> DEFINE B == [k \in 0..d |-> IF k = d THEN a \o s ELSE A[k]]
<1>3. ASSUME NEW k \in 1..d
      PROVE  B[k] = B[k-1] \o Begun(cells', stack'[k].fn, At(k-1)', KeyAt(k)')
  <2>1. k - 1 \in 0..d /\ k - 1 # d /\ B[k-1] = A[k-1] OBVIOUS
  <2>2. CASE k = d
    <3>1. B[k] = a \o s /\ B[k-1] = u BY <2>1, <2>2
    <3> HIDE DEF B
    <3>2. Begun(cells', stack'[k].fn, At(k-1)', KeyAt(k)') = w \o s BY <2>2
    <3> QED BY <1>2, <3>1, <3>2
  <2>3. CASE k # d
    <3>1. k \in 1..d-1 /\ k \in 1..Depth /\ B[k] = A[k] BY <2>3
    <3> HIDE DEF B
    <3>2. A[k] = A[k-1] \o Begun(cells, stack[k].fn, At(k-1), KeyAt(k)) BY <3>1 DEF Written
    <3>3. Begun(cells', stack'[k].fn, At(k-1)', KeyAt(k)') =
            Begun(cells, stack[k].fn, At(k-1), KeyAt(k))
      BY <3>1
    <3> QED BY <2>1, <3>1, <3>2, <3>3
  <2> QED BY <2>2, <2>3
<1>4. B \in [0..d -> Printed] /\ B[0] = <<>> /\ B[d] = a \o s
  <2>1. A \in [0..d -> Printed] /\ A[0] = <<>> BY DEF Written
  <2>2. \A k \in 0..d : B[k] \in Printed BY <1>2, <2>1
  <2>3. 0 \in 0..d /\ 0 # d /\ d \in 0..d OBVIOUS
  <2> QED BY <2>1, <2>2, <2>3
<1> HIDE DEF B
<1> PICK C : C = B OBVIOUS
<1>5. Written(C)'
  <2>1. C \in [0..Depth' -> Printed] /\ C[0] = <<>> BY <1>4
  <2>2. \A k \in 1..Depth' : C[k] = C[k-1] \o Begun(cells', stack'[k].fn, At(k-1)', KeyAt(k)')
    BY <1>3
  <2> QED BY <2>1, <2>2 DEF Written
<1> QED BY <1>4, <1>5

LEMMA Cancels ==
  ASSUME NEW s \in Printed, NEW t \in Printed, NEW m, s \o <<m>> = t \o <<m>>
  PROVE  s = t
<1>1. Append(s, m) = s \o <<m>> /\ Append(t, m) = t \o <<m>>
  <2>1. s \in Seq(Marks \union {m}) /\ t \in Seq(Marks \union {m}) BY DEF Printed
  <2>2. m \in Marks \union {m} OBVIOUS
  <2> QED BY <2>1, <2>2, AppendIsConcat
<1>2. Len(s) \in Nat /\ Len(t) \in Nat /\ Len(Append(s, m)) = Len(s) + 1
      /\ Len(Append(t, m)) = Len(t) + 1
  BY DEF Printed
<1>3. Len(s) = Len(t) BY <1>1, <1>2
<1>4. \A k \in 1..Len(s) : Append(s, m)[k] = s[k] /\ Append(t, m)[k] = t[k]
  BY <1>3 DEF Printed
<1>5. \A k \in 1..Len(s) : s[k] = t[k] BY <1>1, <1>4
<1> QED BY <1>3, <1>5, SeqEqual DEF Printed

LEMMA CommasAre == \A n : n # 0 => Commas(n) = Commas(1)
<1>1. 1 # 0 OBVIOUS
<1> QED BY <1>1, Zenon DEF Commas

LEMMA OneComma == Commas(1) = <<AsIs(",")>> /\ AsIs(",") \in Marks
<1>1. 1 # 0 OBVIOUS
<1>2. Commas(1) = <<AsIs(",")>> BY <1>1, Zenon DEF Commas
<1>3. AsIs(",") \in Marks BY SomeKinds, MarksAre
<1> QED BY <1>2, <1>3

(* What was read when a container is all but closed. *)
Listed(heap, fn, n) == <<AsIs(fn)>> \o List(Dumps(heap), heap, heap[n])

LEMMA ListedPrinted ==
  ASSUME NEW heap, GoodHeap(heap), AllWhole(heap), NEW n \in 1..Len(heap), NEW fn \in Brackets
  PROVE  /\ Listed(heap, fn, n) \in Printed
         /\ heap[n].items = <<>> => Listed(heap, fn, n) = <<AsIs(fn)>>
         /\ heap[n].items = <<>> => Begun(heap, fn, n, NULL) = Listed(heap, fn, n)
         /\ heap[n].items # <<>> => Begun(heap, fn, n, NULL) = Listed(heap, fn, n) \o Commas(1)
         /\ heap[n].kind = KindOf(fn) => Dumps(heap)[n] = Listed(heap, fn, n) \o <<AsIs(CloseOf(fn))>>
<1> PICK a \in Printed, l \in Printed, c \in Printed :
      a = <<AsIs(fn)>> /\ l = List(Dumps(heap), heap, heap[n]) /\ c = Commas(1)
  BY BracketsPrinted, DumpPrinted, CommasPrinted
<1>1. Listed(heap, fn, n) = a \o l /\ a \o l \in Printed BY Glued DEF Listed
<1>2. Label(heap, NULL) = <<>> BY DEF Label
<1>3. ASSUME heap[n].items = <<>> PROVE Listed(heap, fn, n) = <<AsIs(fn)>> /\ Begun(heap, fn, n, NULL) = <<AsIs(fn)>>
  <2>1. Len(heap[n].items) = 0 BY <1>3
  <2>2. l = <<>> BY <2>1, JoinedStep DEF List
  <2> QED BY <1>1, <1>3, <2>2, GluedNothing, BegunEmpty
<1>4. ASSUME heap[n].items # <<>>
      PROVE  Begun(heap, fn, n, NULL) = Listed(heap, fn, n) \o Commas(1)
  <2>1. Len(heap[n].items) # 0
    <3>1. heap[n].items \in Seq([key : Nat, value : Nat]) BY ItemsAre DEF Cell
    <3> QED BY <1>4, <3>1, EmptySeq
  <2>2. Commas(Len(heap[n].items)) = c BY <2>1, CommasAre
  <2>3. Begun(heap, fn, n, NULL) = a \o l \o c \o <<>> BY <1>2, <2>2 DEF Begun
  <2>4. a \o l \o c \in Printed BY <1>1, Glued
  <2> QED BY <1>1, <2>3, <2>4, GluedNothing
<1>5. ASSUME heap[n].kind = KindOf(fn)
      PROVE  Dumps(heap)[n] = Listed(heap, fn, n) \o <<AsIs(CloseOf(fn))>>
  <2>1. Dumps(heap)[n] = Shown(Dumps(heap), heap, heap[n]) BY DumpUnfold DEF GoodHeap
  <2>2. Shown(Dumps(heap), heap, heap[n]) = <<AsIs(fn)>> \o List(Dumps(heap), heap, heap[n]) \o <<AsIs(CloseOf(fn))>>
    BY <1>5, ShownIs
  <2> QED BY <2>1, <2>2 DEF Listed
<1> QED BY <1>1, <1>3, <1>4, <1>5

LEMMA NearlyClosed ==
  ASSUME PInv, JInv, RInv, pc \in {"first", "after"}, NEW A, Written(A), Kept(A)
  PROVE  Shows = A[Depth-1] \o Listed(cells, stack[Depth].fn, At(Depth-1))
<1>0. Parsing BY DEF Parsing
<1>1. /\ GoodHeap(cells) /\ AllWhole(cells) /\ Depth \in Nat /\ Depth > 0 /\ KeyAt(Depth) = NULL
      /\ Calls /\ Turn
  BY <1>0, Levels, WasHeld DEF Turn
<1>2. PICK fn \in Brackets : fn = stack[Depth].fn BY Inside
<1>3. PICK n \in 1..Len(cells) : n = At(Depth-1)
  <2>1. Depth-1 \in 0..Depth-1 /\ Depth-1 \in 0..Depth BY <1>1
  <2> QED BY <1>0, <1>1, <2>1, Levels DEF Calls, Blocks
<1>4. PICK u \in Printed : u = A[Depth-1] BY <1>1, WrittenHere
<1>5. A[Depth] = u \o Begun(cells, fn, n, NULL) BY <1>1, <1>2, <1>3, <1>4, WrittenHere
<1>6. PICK l \in Printed : l = Listed(cells, fn, n) BY <1>1, ListedPrinted
<1>7. CASE pc = "first"
  <2>1. Shows = A[Depth] /\ cells[n].items = <<>> BY <1>3, <1>7 DEF Kept
  <2>2. Begun(cells, fn, n, NULL) = l BY <1>1, <1>6, <2>1, ListedPrinted
  <2> QED BY <1>2, <1>3, <1>4, <1>5, <1>6, <2>1, <2>2
<1>8. CASE pc = "after"
  <2>1. Shows \o Commas(1) = A[Depth] /\ cells[n].items # <<>> BY <1>3, <1>8 DEF Kept
  <2>2. Begun(cells, fn, n, NULL) = l \o Commas(1) BY <1>1, <1>6, <2>1, ListedPrinted
  <2>3. PICK c \in Printed : c = Commas(1) BY CommasPrinted
  <2>4. Shows \o c = u \o (l \o c) BY <1>5, <2>1, <2>2, <2>3
  <2>5. u \o (l \o c) = (u \o l) \o c /\ u \o l \in Printed BY Glued, GluedThree
  <2>6. PICK m : c = <<m>> BY <2>3, OneComma
  <2>7. Shows \in Printed BY <1>0, ShowsPrinted
  <2>8. Shows = u \o l
    <3>1. PICK r \in Printed, t \in Printed : r = Shows /\ t = u \o l BY <2>5, <2>7
    <3>2. r \o <<m>> = t \o <<m>> BY <2>4, <2>5, <2>6, <3>1
    <3>3. r = t BY <3>2, Cancels
    <3> QED BY <3>1, <3>3
  <2> QED BY <1>2, <1>3, <1>4, <1>6, <2>8
<1> QED BY <1>7, <1>8

(* A level is left. *)
LEMMA ReadsUp ==
  ASSUME PInv, PInv', JInv, RInv, pc \in {"first", "after"}, look = Closing, next, UNCHANGED cells,
         stack' = SubSeq(stack, 1, Len(stack) - 1), pc' = "returned"
  PROVE  RInv'
<1>0. Parsing BY DEF Parsing
<1>1. /\ GoodHeap(cells) /\ Sound(cells) /\ AllWhole(cells) /\ Shaped /\ Depth > 0 /\ Calls
      /\ stack \in Seq(Call) /\ stack # <<>>
  BY <1>0, Levels, WasHeld DEF Turn, Depth
<1>2. PICK A : Written(A) /\ Kept(A) BY <1>0, WasHeld
<1>3. PICK fn \in Brackets : fn = stack[Depth].fn /\ look = CloseOf(fn) BY Inside
<1>4. PICK d \in Nat : Depth = d + 1
  <2>1. Depth \in Nat BY TypesAre
  <2>2. Depth - 1 \in Nat /\ Depth = (Depth - 1) + 1 BY <1>1, <2>1
  <2> QED BY <2>2
<1>5. PICK n \in 1..Len(cells) : n = At(d)
  <2>1. d \in 0..Depth-1 /\ d \in 0..Depth BY <1>4
  <2> QED BY <1>0, <1>1, <2>1, Levels DEF Calls, Blocks
<1>6. PICK u \in Printed, l \in Printed : u = A[d] /\ l = Listed(cells, fn, n)
  <2>1. A[d] \in Printed
    <3>1. Depth - 1 = d BY <1>4
    <3> QED BY <1>1, <1>2, <3>1, WrittenHere
  <2> QED BY <1>1, <1>5, <2>1, ListedPrinted
<1>7. Shows = u \o l
  <2>1. Depth - 1 = d BY <1>4
  <2> QED BY <1>2, <1>3, <1>5, <1>6, <2>1, NearlyClosed
<1>8. Dumps(cells)[n] = l \o <<Back(look)>>
  <2>1. cells[n].kind = KindOf(fn)
    <3>1. Depth \in 1..Depth /\ Depth - 1 = d BY <1>4
    <3> QED BY <1>1, <1>3, <1>5, <3>1 DEF Shaped
  <2>2. Dumps(cells)[n] = Listed(cells, fn, n) \o <<AsIs(CloseOf(fn))>>
    BY <1>1, <2>1, ListedPrinted
  <2> QED BY <1>3, <1>6, <2>2, BracketsBack
<1>9. Shows' = u \o Dumps(cells)[n]
  <2>1. look \in Kinds BY <1>3, SomeKinds DEF Brackets, CloseOf
  <2>2. Shows' = Shows \o <<Back(look)>> BY <1>0, <2>1, ShowsNext
  <2>3. Back(look) \in Marks BY <2>1, MarksAre
  <2>4. PICK w \in Printed : w = <<Back(look)>> BY <2>3, OneMark
  <2>5. (u \o l) \o w = u \o (l \o w) BY GluedThree
  <2> QED BY <1>7, <1>8, <2>2, <2>4, <2>5
<1>10. /\ Depth' = d /\ \A k \in 0..d : At(k)' = At(k) /\ KeyAt(k)' = KeyAt(k)
       /\ \A k \in 1..d : stack'[k] = stack[k]
  <2>1. /\ Depth' = Depth - 1
        /\ \A k \in 0..Depth-1 : At(k)' = At(k) /\ KeyAt(k)' = KeyAt(k)
        /\ \A k \in 1..Depth-1 : stack'[k] = stack[k]
    BY <1>1, Popped
  <2>2. Depth - 1 = d BY <1>4
  <2> QED BY <2>1, <2>2
<1>11. PICK B : B = [k \in 0..d |-> A[k]] OBVIOUS
<1>12. Written(B)'
  <2>1. A \in [0..d+1 -> Printed] /\ A[0] = <<>> BY <1>2, <1>4 DEF Written
  <2>2. B \in [0..d -> Printed] /\ B[0] = <<>>
    <3>1. \A k \in 0..d : k \in 0..d+1 OBVIOUS
    <3> QED BY <1>11, <2>1, <3>1
  <2>3. ASSUME NEW k \in 1..d
        PROVE  B[k] = B[k-1] \o Begun(cells', stack'[k].fn, At(k-1)', KeyAt(k)')
    <3>1. k \in 1..Depth /\ k - 1 \in 0..d /\ k \in 0..d BY <1>4
    <3>2. A[k] = A[k-1] \o Begun(cells, stack[k].fn, At(k-1), KeyAt(k)) BY <1>2, <3>1 DEF Written
    <3>3. B[k] = A[k] /\ B[k-1] = A[k-1] BY <1>11, <3>1
    <3>4. stack'[k] = stack[k] /\ At(k-1)' = At(k-1) /\ KeyAt(k)' = KeyAt(k) BY <1>10, <3>1
    <3> QED BY <3>2, <3>3, <3>4
  <2> QED BY <1>10, <2>2, <2>3 DEF Written
<1>13. Shaped'
  <2>1. ASSUME NEW k \in 1..d
        PROVE  /\ cells'[At(k-1)'].kind = KindOf(stack'[k].fn)
               /\ stack'[k].fn = "[" => KeyAt(k)' = NULL
               /\ stack'[k].fn = "{" /\ At(k)' # NULL => KeyAt(k)' # NULL
    <3>1. k \in 1..Depth /\ k - 1 \in 0..d /\ k \in 0..d BY <1>4
    <3>2. stack'[k] = stack[k] /\ At(k-1)' = At(k-1) /\ KeyAt(k)' = KeyAt(k) /\ At(k)' = At(k)
      BY <1>10, <3>1
    <3> QED BY <1>1, <3>1, <3>2 DEF Shaped
  <2> QED BY <1>10, <2>1 DEF Shaped
<1>14. Kept(B)'
  <2>1. At(Depth)' = n
    <3>1. At(Depth)' = At(d)' BY <1>10 DEF At
    <3>2. d \in 0..d OBVIOUS
    <3> QED BY <1>5, <1>10, <3>1, <3>2
  <2>2. B[Depth'] = u BY <1>6, <1>10, <1>11
  <2>3. Shows' = B[Depth'] \o Dumps(cells')[At(Depth)'] BY <1>9, <2>1, <2>2
  <2> QED BY <2>3 DEF Kept
<1> QED BY <1>1, <1>12, <1>13, <1>14, StillHeld

LEMMA ReadsFirst == PInv /\ PInv' /\ JInv /\ RInv /\ First => RInv'
<1> SUFFICES ASSUME PInv, PInv', JInv, RInv, First PROVE RInv' OBVIOUS
<1>1. pc = "first" /\ UNCHANGED cells /\ Parsing BY DEF First, HeapSame, Parsing
<1>2. CASE look = Closing /\ next /\ Leave(TRUE) BY <1>1, <1>2, ReadsUp DEF Leave, Return
<1>3. CASE Go("loop") /\ UNCHANGED <<doc, stack>>
  <2>1. PICK A : Written(A) /\ Kept(A) BY <1>1, WasHeld
  <2>2. Shows' = A[Depth] BY <1>1, <1>3, <2>1 DEF Kept, Shows, Read
  <2> QED BY <1>1, <1>3, <2>1, <2>2, ReadsOn DEF Go
<1> QED BY <1>2, <1>3 DEF First

LEMMA ReadsAfter == PInv /\ PInv' /\ JInv /\ RInv /\ After => RInv'
<1> SUFFICES ASSUME PInv, PInv', JInv, RInv, After PROVE RInv' OBVIOUS
<1>1. pc = "after" /\ UNCHANGED cells /\ Parsing BY DEF After, HeapSame, Parsing
<1>2. CASE look = Closing /\ next /\ Leave(TRUE) BY <1>1, <1>2, ReadsUp DEF Leave, Return
<1>3. CASE look = "," /\ next /\ Go("loop") /\ UNCHANGED stack
  <2>1. PICK A : Written(A) /\ Kept(A) BY <1>1, WasHeld
  <2>2. Commas(1) = <<Back(look)>> /\ look \in Kinds BY <1>3, OneComma, SomeKinds, CommaBack
  <2>3. next /\ pc' = "loop" /\ UNCHANGED stack BY <1>3 DEF Go
  <2> HIDE <1>3
  <2>4. Shows' = Shows \o <<Back(look)>> BY <1>1, <2>2, <2>3, ShowsNext
  <2>5. Shows' = A[Depth] BY <1>1, <2>1, <2>2, <2>4 DEF Kept
  <2> QED BY <1>1, <2>1, <2>3, <2>5, ReadsOn
<1>4. CASE Leave(FALSE) BY <1>4, Fails DEF Leave, Return
<1> QED BY <1>2, <1>3, <1>4 DEF After

(* Cells are only added. *)
LEMMA BegunGrows ==
  ASSUME NEW heap, NEW new, GoodHeap(heap), GoodHeap(new), AllWhole(heap), Len(heap) <= Len(new),
         \A x \in 1..Len(heap) : new[x] = heap[x], NEW n \in 1..Len(heap), NEW fn \in Brackets,
         NEW key
  PROVE  Begun(new, fn, n, key) = Begun(heap, fn, n, NULL) \o Label(new, key)
<1>0. Sound(heap) /\ Sound(new) /\ Len(heap) \in Nat BY DEF GoodHeap
<1>1. List(Dumps(new), new, heap[n]) = List(Dumps(heap), heap, heap[n])
  <2>1. PICK b : b = Len(heap) + 1 OBVIOUS
  <2>2. b \notin Trees(heap)[n]
    <3>1. Trees(heap)[n] \subseteq n..Len(heap) BY <1>0, TreeInHeap
    <3> QED BY <1>0, <2>1, <3>1
  <2> QED BY <1>0, <2>2, ListKept
<1>2. PICK a \in Printed, l \in Printed, c \in Printed :
         /\ a = <<AsIs(fn)>> /\ l = List(Dumps(heap), heap, heap[n]) /\ c = Commas(Len(heap[n].items))
  BY BracketsPrinted, DumpPrinted, CommasPrinted
<1>3. Begun(heap, fn, n, NULL) = a \o l \o c
  <2>1. Begun(heap, fn, n, NULL) = a \o l \o c \o Label(heap, NULL) BY <1>2 DEF Begun
  <2>2. Label(heap, NULL) = <<>> BY DEF Label
  <2>3. a \o l \o c \in Printed BY Glued
  <2> QED BY <2>1, <2>2, <2>3, GluedNothing
<1>4. Begun(new, fn, n, key) = a \o l \o c \o Label(new, key)
  <2>1. new[n] = heap[n] OBVIOUS
  <2> QED BY <1>1, <1>2, <2>1 DEF Begun
<1> QED BY <1>3, <1>4

(* An item is added to a list. *)
OneMore(items, more, i) ==
  \E m \in Nat : /\ DOMAIN items = 1..m /\ DOMAIN more = 1..m+1
                 /\ Len(items) = m /\ Len(more) = m + 1 /\ more[m+1] = i
                 /\ \A k \in 1..m : more[k] = items[k]

LEMMA AppendsOne ==
  ASSUME NEW T, NEW s \in Seq(T), NEW i
  PROVE  OneMore(s, Append(s, i), i)
<1>1. s \in Seq(T \union {i}) /\ i \in T \union {i} OBVIOUS
<1>2. /\ Len(Append(s, i)) = Len(s) + 1 /\ DOMAIN Append(s, i) = 1..Len(s)+1
      /\ Append(s, i)[Len(s)+1] = i /\ \A k \in 1..Len(s) : Append(s, i)[k] = s[k]
      /\ Len(s) \in Nat /\ DOMAIN s = 1..Len(s)
  BY <1>1
<1> QED BY <1>2 DEF OneMore

Adds(heap, new, n, y, e) ==
  /\ n \in 1..Len(heap) /\ Len(heap) <= Len(new)
  /\ \A x \in 1..Len(heap) : x # n => new[x] = heap[x]
  /\ y \in {NULL} \union n+1..Len(heap) /\ e \in n+1..Len(heap)
  /\ new[n].kind = heap[n].kind
  /\ \E i : i.key = y /\ i.value = e /\ OneMore(heap[n].items, new[n].items, i)

ListAdds(heap, new, n, y, e) ==
  /\ List(Dumps(new), new, new[n]) =
       List(Dumps(heap), heap, heap[n]) \o Commas(Len(heap[n].items))
         \o (Label(heap, y) \o Dumps(heap)[e])
  /\ Len(new[n].items) # 0

LEMMA ListPushed ==
  ASSUME NEW heap, NEW new, GoodHeap(heap), GoodHeap(new), AllWhole(heap), AllWhole(new),
         NEW n, NEW y, NEW e, Adds(heap, new, n, y, e)
  PROVE  ListAdds(heap, new, n, y, e)
<1>0. /\ Sound(heap) /\ Sound(new) /\ Len(heap) \in Nat
      /\ n \in 1..Len(heap) /\ Len(heap) <= Len(new) /\ n \in 1..Len(new)
      /\ \A x \in 1..Len(heap) : x # n => new[x] = heap[x]
      /\ y \in {NULL} \union n+1..Len(heap) /\ e \in n+1..Len(heap)
  BY DEF GoodHeap, Adds
<1>k. \A v \in 1..Len(heap) : n \notin Trees(heap)[v] => Dumps(new)[v] = Dumps(heap)[v]
  BY <1>0, DumpKept
<1> PICK c, d : c = heap[n] /\ d = new[n] OBVIOUS
<1> PICK i : i.key = y /\ i.value = e /\ OneMore(c.items, d.items, i) BY DEF Adds
<1> PICK m \in Nat : /\ DOMAIN c.items = 1..m /\ DOMAIN d.items = 1..m+1
                     /\ Len(c.items) = m /\ Len(d.items) = m + 1 /\ d.items[m+1] = i
                     /\ \A k \in 1..m : d.items[k] = c.items[k]
  BY DEF OneMore
<1> PICK p : p = Parts(Dumps(heap), heap, c) OBVIOUS
<1> PICK q : q = Parts(Dumps(new), new, d) OBVIOUS
<1>2. \A k \in 1..m+1 : q[k] = PartOf(Dumps(new), new, d.items[k])
  <2>1. \A k \in 1..m+1 : Keyed(d, k) BY <1>0 DEF AllWhole, Whole
  <2> QED BY <2>1, PartIs
<1>3. \A k \in 1..m : p[k] = PartOf(Dumps(new), new, c.items[k])
  <2>1. p = Parts(Dumps(new), new, c) BY <1>0, ListKept
  <2>2. \A k \in 1..m : Keyed(c, k) BY <1>0 DEF AllWhole, Whole
  <2> QED BY <2>1, <2>2, PartIs
<1>4. \A k \in 1..m : p[k] = q[k]
  <2>1. \A k \in 1..m : k \in 1..m+1 OBVIOUS
  <2>2. \A k \in 1..m : q[k] = PartOf(Dumps(new), new, c.items[k]) BY <1>2, <2>1
  <2> QED BY <1>3, <2>2
<1>5. q[m+1] = Label(heap, y) \o Dumps(heap)[e]
  <2>0. m + 1 \in 1..m+1 OBVIOUS
  <2>1. q[m+1] = PartOf(Dumps(new), new, i) BY <1>2, <2>0
  <2>2. Label(new, y) = Label(heap, y)
    <3>1. y # NULL => new[y] = heap[y] BY <1>0
    <3>2. y # NULL => String(new, y) = String(heap, y) BY <3>1 DEF String
    <3> QED BY <3>2, Zenon DEF Label
  <2>3. Dumps(new)[e] = Dumps(heap)[e]
    <3>1. e \in 1..Len(heap) BY <1>0
    <3>2. Trees(heap)[e] \subseteq e..Len(heap) BY <1>0, <3>1, TreeInHeap
    <3>3. n \notin Trees(heap)[e] BY <1>0, <3>2
    <3> QED BY <1>k, <3>1, <3>3
  <2> QED BY <2>1, <2>2, <2>3, Zenon DEF PartOf
<1>6. Joined(q)[m+1] = Joined(q)[m] \o Commas(m) \o q[m+1] BY JoinedStep
<1>7. Joined(q)[m] = Joined(p)[m]
  <2>1. Alike(q, p, m) BY <1>4 DEF Alike
  <2> QED BY <2>1, JoinedAlike
<1>8. List(Dumps(new), new, d) = Joined(q)[m+1] /\ List(Dumps(heap), heap, c) = Joined(p)[m]
  BY DEF List
<1>9. List(Dumps(new), new, d) =
        List(Dumps(heap), heap, c) \o Commas(m) \o (Label(heap, y) \o Dumps(heap)[e])
  BY <1>5, <1>6, <1>7, <1>8
<1>10. Len(d.items) # 0 OBVIOUS
<1> QED BY <1>9, <1>10 DEF ListAdds

Glue(s, t) == s \o t

LEMMA GlueIs ==
  /\ \A s, t \in Printed : Glue(s, t) \in Printed
  /\ \A s, t, u \in Printed : Glue(Glue(s, t), u) = Glue(s, Glue(t, u))
<1>1. \A s, t \in Printed : Glue(s, t) \in Printed BY Glued DEF Glue
<1>2. ASSUME NEW s \in Printed, NEW t \in Printed, NEW u \in Printed
      PROVE  Glue(Glue(s, t), u) = Glue(s, Glue(t, u))
  BY GluedThree DEF Glue
<1> QED BY <1>1, <1>2

Regroups(a, l, c, b, v, w) ==
  /\ a \o (l \o c \o (b \o v)) \o w = a \o l \o c \o b \o (v \o w)
  /\ a \o (l \o c \o (b \o v)) \o w \in Printed

LEMMA Regrouped ==
  ASSUME NEW a \in Printed, NEW l \in Printed, NEW c \in Printed, NEW b \in Printed,
         NEW v \in Printed, NEW w \in Printed
  PROVE  Regroups(a, l, c, b, v, w)
<1>a. PICK lc \in Printed, al \in Printed, bv \in Printed :
         lc = Glue(l, c) /\ al = Glue(a, l) /\ bv = Glue(b, v)
  BY GlueIs
<1>b. PICK alc \in Printed : alc = Glue(al, c) BY GlueIs
<1>c. PICK alcb \in Printed : alcb = Glue(alc, b) BY GlueIs
<1>1. Glue(a, Glue(Glue(l, c), Glue(b, v))) = Glue(Glue(Glue(Glue(a, l), c), b), v)
  <2>1. Glue(a, Glue(lc, bv)) = Glue(Glue(a, lc), bv) BY GlueIs
  <2>2. Glue(a, lc) = alc BY <1>a, <1>b, GlueIs
  <2>3. Glue(alc, bv) = Glue(alcb, v) BY <1>a, <1>c, GlueIs
  <2> QED BY <1>a, <1>b, <1>c, <2>1, <2>2, <2>3
<1>2. Glue(Glue(Glue(Glue(Glue(a, l), c), b), v), w) = Glue(Glue(Glue(Glue(a, l), c), b), Glue(v, w))
  <2>1. Glue(Glue(alcb, v), w) = Glue(alcb, Glue(v, w)) BY GlueIs
  <2> QED BY <1>a, <1>b, <1>c, <2>1
<1>3. Glue(Glue(Glue(Glue(Glue(a, l), c), b), v), w) \in Printed
  <2>1. Glue(Glue(alcb, v), w) \in Printed BY GlueIs
  <2> QED BY <1>a, <1>b, <1>c, <2>1
<1>4. Glue(Glue(a, Glue(Glue(l, c), Glue(b, v))), w) = Glue(Glue(Glue(Glue(a, l), c), b), Glue(v, w))
  BY <1>1, <1>2
<1>5. Glue(Glue(a, Glue(Glue(l, c), Glue(b, v))), w) \in Printed BY <1>1, <1>3
<1> QED BY <1>4, <1>5 DEF Glue, Regroups

PushBegins(heap, new, fn, n, y, e) ==
  Begun(new, fn, n, NULL) = Begun(heap, fn, n, y) \o (Dumps(heap)[e] \o Commas(1))

LEMMA BegunPushed ==
  ASSUME NEW heap, NEW new, GoodHeap(heap), GoodHeap(new), AllWhole(heap), AllWhole(new),
         NEW n, NEW y, NEW e, Adds(heap, new, n, y, e), NEW fn \in Brackets
  PROVE  PushBegins(heap, new, fn, n, y, e)
<1>0. /\ Len(heap) \in Nat /\ n \in 1..Len(heap) /\ e \in 1..Len(heap)
      /\ y \in {NULL} \union 1..Len(heap)
  BY DEF GoodHeap, Adds
<1>1. PICK a \in Printed, l \in Printed, c \in Printed, b \in Printed, v \in Printed, w \in Printed :
         /\ a = <<AsIs(fn)>> /\ l = List(Dumps(heap), heap, heap[n])
         /\ c = Commas(Len(heap[n].items)) /\ b = Label(heap, y)
         /\ v = Dumps(heap)[e] /\ w = Commas(1)
  BY <1>0, BracketsPrinted, DumpPrinted, CommasPrinted, LabelPrinted
<1>2. Begun(heap, fn, n, y) = a \o l \o c \o b BY <1>1 DEF Begun
<1>3. Begun(new, fn, n, NULL) = a \o (l \o c \o (b \o v)) \o w \o <<>>
  <2>0. \A x, z, f : Adds(heap, new, x, z, f) => ListAdds(heap, new, x, z, f) BY ListPushed
  <2>1. List(Dumps(new), new, new[n]) = l \o c \o (b \o v) /\ Len(new[n].items) # 0
    BY <1>1, <2>0 DEF ListAdds
  <2>2. Commas(Len(new[n].items)) = w BY <1>1, <2>1, CommasAre
  <2>3. Label(new, NULL) = <<>> BY DEF Label
  <2> QED BY <1>1, <2>1, <2>2, <2>3 DEF Begun
<1>g. Regroups(a, l, c, b, v, w) BY Regrouped
<1>4. a \o (l \o c \o (b \o v)) \o w = a \o l \o c \o b \o (v \o w)
  BY <1>g, Zenon DEF Regroups
<1>5. a \o (l \o c \o (b \o v)) \o w \in Printed BY <1>g, Zenon DEF Regroups
<1>6. Begun(new, fn, n, NULL) = a \o (l \o c \o (b \o v)) \o w BY <1>3, <1>5, GluedNothing
<1> QED BY <1>1, <1>2, <1>4, <1>6 DEF PushBegins

-----------------------------------------------------------------------------
(* The innermost call, with the local variable it has set. *)
LEMMA TopCall ==
  ASSUME PInv, stack # <<>>, NEW d, d = Depth
  PROVE  Top \in Call /\ Top.key = KeyAt(d) /\ Top.elem = At(d) /\ d \in Nat /\ d > 0
<1>1. stack \in Seq(Call) BY TypesAre
<1>2. d = Len(stack) /\ d \in Nat /\ d > 0 BY <1>1 DEF Depth
<1>3. Top = stack[d] /\ Top \in Call BY <1>1, <1>2 DEF Top
<1> QED BY <1>2, <1>3 DEF At, KeyAt

LEMMA ElemSet ==
  ASSUME PInv, stack # <<>>, stack' = [stack EXCEPT ![Len(stack)].elem = New],
         NEW d, d = Depth
  PROVE  \E t : Locally(d, t) /\ t.elem = New /\ t.key = KeyAt(d)
<1>1. Top \in Call /\ Top.key = KeyAt(d) /\ d \in Nat BY TopCall
<1>2. Locally(d, [Top EXCEPT !.elem = New]) BY <1>1, LocalIs, NewIsNat
<1>3. [Top EXCEPT !.elem = New].elem = New /\ [Top EXCEPT !.elem = New].key = Top.key
  BY <1>1 DEF Call
<1> QED BY <1>1, <1>2, <1>3

LEMMA KeySet ==
  ASSUME PInv, stack # <<>>, stack' = [stack EXCEPT ![Len(stack)].key = New],
         NEW d, d = Depth
  PROVE  \E t : Locally(d, t) /\ t.elem = At(d) /\ t.key = New
<1>1. Top \in Call /\ Top.elem = At(d) /\ d \in Nat BY TopCall
<1>2. Locally(d, [Top EXCEPT !.key = New]) BY <1>1, LocalIs, NewIsNat
<1>3. [Top EXCEPT !.key = New].elem = Top.elem /\ [Top EXCEPT !.key = New].key = New
  BY <1>1 DEF Call
<1> QED BY <1>1, <1>2, <1>3

LEMMA LocalsEmpty ==
  ASSUME PInv, stack # <<>>, NEW d, d = Depth,
         stack' = [stack EXCEPT ![Len(stack)].elem = NULL, ![Len(stack)].key = NULL]
  PROVE  \E t : Locally(d, t) /\ t.elem = NULL /\ t.key = NULL
<1>1. Top \in Call /\ d \in Nat BY TopCall
<1>2. Locally(d, [Top EXCEPT !.elem = NULL, !.key = NULL]) BY <1>1, LocalIs, 0 \in Nat
<1>3. PICK t : t = [Top EXCEPT !.elem = NULL, !.key = NULL] OBVIOUS
<1>4. t.elem = NULL /\ t.key = NULL BY <1>1, <1>3 DEF Call
<1> QED BY <1>2, <1>3, <1>4

LEMMA GrowsMeans ==
  ASSUME NEW c, Grows(c), AllWhole(cells)
  PROVE  /\ GoodHeap(cells') /\ Len(cells) <= Len(cells') /\ AllWhole(cells')
         /\ \A x \in Blocks : cells'[x] = cells[x]
BY DEF Grows, Blocks

(* The cell for an item is added. *)
LEMMA ReadsItem ==
  ASSUME PInv, PInv', RInv, pc \in {"loop", "colon"}, pc' = "value", NEW A, Written(A),
         Shows' = A[Depth], NEW c, Grows(c), KeyAt(Depth) # NULL \/ stack[Depth].fn # "{",
         NEW d, d = Depth, NEW t, Locally(d, t), t.key = KeyAt(d)
  PROVE  RInv'
<1>0. Parsing BY DEF Parsing
<1>1. AllWhole(cells) /\ Shaped BY <1>0, WasHeld
<1>2. /\ GoodHeap(cells') /\ Len(cells) <= Len(cells') /\ AllWhole(cells')
      /\ \A x \in Blocks : cells'[x] = cells[x]
  BY <1>1, GrowsMeans
<1>6. /\ Depth' = Depth /\ \A k \in 1..Depth : stack'[k].fn = stack[k].fn
      /\ \A k \in 0..Depth-1 : At(k)' = At(k) /\ KeyAt(k)' = KeyAt(k)
  BY DEF Locally
<1>7. KeyAt(Depth)' = KeyAt(Depth)
  <2>1. KeyAt(Depth)' = KeyAt(d)' BY <1>6 DEF KeyAt
  <2>2. KeyAt(d)' = KeyAt(d) BY DEF Locally
  <2> QED BY <2>1, <2>2
<1>8. Written(A)' /\ Shaped' BY <1>0, <1>1, <1>2, <1>6, <1>7, Undisturbed
<1>9. Kept(A)' BY <1>6 DEF Kept
<1> QED BY <1>2, <1>8, <1>9, StillHeld

LEMMA ReadsElement == PInv /\ PInv' /\ JInv /\ RInv /\ Element => RInv'
<1> SUFFICES ASSUME PInv, PInv', JInv, RInv, Element PROVE RInv' OBVIOUS
<1>1. pc = "loop" /\ Top.fn = "[" /\ UNCHANGED doc /\ Parsing BY DEF Element, Parsing
<1>e. stack # <<>> BY <1>1, Levels DEF Turn, Depth
<1>2. CASE Leave(FALSE) BY <1>2, Fails DEF Leave, Return
<1>3. CASE /\ cells' = Append(cells, Zero)
           /\ stack' = [stack EXCEPT ![Len(stack)].elem = New] /\ Go("value")
  <2>1. PICK A : Written(A) /\ Kept(A) BY <1>1, WasHeld
  <2>2. Shows' = A[Depth] BY <1>1, <2>1 DEF Kept, Shows, Read
  <2>3. stack[Depth].fn = "[" BY <1>1 DEF Top, Depth
  <2>4. stack[Depth].fn # "{" BY <2>3
  <2>5. Grows(Zero)
    <3>1. PICK c : c = Zero OBVIOUS
    <3>2. GoodCell(c, New, New) /\ Whole(c) BY <1>1, <3>1, NewCellIsGood, NewIsWhole
    <3>3. Grows(c) BY <1>1, <1>3, <3>1, <3>2, CellAdded
    <3> QED BY <3>1, <3>3
  <2>6. pc' = "value" BY <1>3 DEF Go
  <2>7. PICK d : d = Depth OBVIOUS
  <2>8. PICK t : Locally(d, t) /\ t.key = KeyAt(d) BY <1>3, <1>e, <2>7, ElemSet
  <2> HIDE <1>3
  <2> QED BY <1>1, <2>1, <2>2, <2>4, <2>5, <2>6, <2>7, <2>8, ReadsItem
<1> QED BY <1>2, <1>3 DEF Element

LEMMA ReadsColon == PInv /\ PInv' /\ JInv /\ RInv /\ Colon => RInv'
<1> SUFFICES ASSUME PInv, PInv', JInv, RInv, Colon PROVE RInv' OBVIOUS
<1>1. pc = "colon" /\ next /\ Parsing BY DEF Colon, Parsing
<1>e. stack # <<>> BY <1>1, Levels DEF Turn, Depth
<1>2. CASE Leave(FALSE) BY <1>2, Fails DEF Leave, Return
<1>3. CASE /\ cells' = Append(cells, Zero)
           /\ stack' = [stack EXCEPT ![Len(stack)].elem = New] /\ Go("value")
  <2>1. PICK A : Written(A) /\ Kept(A) BY <1>1, WasHeld
  <2>2. Shows \o <<Back(look)>> = A[Depth] /\ look \in Kinds BY <1>1, <2>1, SomeKinds, CommaBack DEF Kept, Colon
  <2>3. Shows' = A[Depth] BY <1>1, <2>2, ShowsNext
  <2>4. KeyAt(Depth) # NULL BY <1>1, Levels DEF Turn
  <2>5. Grows(Zero)
    <3>1. PICK c : c = Zero OBVIOUS
    <3>2. GoodCell(c, New, New) /\ Whole(c) BY <1>1, <3>1, NewCellIsGood, NewIsWhole
    <3>3. Grows(c) BY <1>1, <1>3, <3>1, <3>2, CellAdded
    <3> QED BY <3>1, <3>3
  <2>6. pc' = "value" BY <1>3 DEF Go
  <2>7. PICK d : d = Depth OBVIOUS
  <2>8. PICK t : Locally(d, t) /\ t.key = KeyAt(d) BY <1>3, <1>e, <2>7, ElemSet
  <2> HIDE <1>3
  <2> QED BY <1>1, <2>1, <2>3, <2>4, <2>5, <2>6, <2>7, <2>8, ReadsItem
<1> QED BY <1>2, <1>3 DEF Colon

(* The levels below the innermost one, when cells are added. *)
LEMMA LowerKept ==
  ASSUME PInv, Parsing, AllWhole(cells), NEW c, Grows(c), NEW d \in Nat, NEW t, Locally(d, t),
         NEW k \in 1..d-1
  PROVE  /\ Begun(cells', stack'[k].fn, At(k-1)', KeyAt(k)') =
              Begun(cells, stack[k].fn, At(k-1), KeyAt(k))
         /\ cells'[At(k-1)'] = cells[At(k-1)]
<1>1. /\ k \in 1..d /\ k \in 0..d-1 /\ k - 1 \in 0..d-1 /\ k \in 1..Depth BY DEF Locally
<1>2. stack'[k].fn = stack[k].fn /\ At(k-1)' = At(k-1) /\ KeyAt(k)' = KeyAt(k)
  BY <1>1 DEF Locally
<1>3. GoodHeap(cells') /\ Len(cells) <= Len(cells') /\ \A x \in Blocks : cells'[x] = cells[x]
  BY DEF Grows, Blocks
<1> QED BY <1>1, <1>2, <1>3, LevelsKept

LEMMA ReadsKey == PInv /\ PInv' /\ JInv /\ RInv /\ Key => RInv'
<1> SUFFICES ASSUME PInv, PInv', JInv, RInv, Key PROVE RInv' OBVIOUS
<1>1. pc = "loop" /\ Top.fn = "{" /\ look \in Strings /\ Parsing BY DEF Key, Parsing
<1>e. /\ AllWhole(cells) /\ Shaped /\ Depth \in Nat /\ Depth > 0 /\ stack # <<>>
      /\ At(Depth) = NULL /\ KeyAt(Depth) = NULL /\ GoodHeap(cells)
  <2>1. AllWhole(cells) /\ Shaped BY <1>1, WasHeld
  <2>2. Turn /\ GoodHeap(cells) BY <1>1, Levels
  <2>3. Depth > 0 /\ At(Depth) = NULL /\ KeyAt(Depth) = NULL BY <1>1, <2>2 DEF Turn
  <2>4. Depth \in Nat /\ stack # <<>>
    <3>1. Depth \in Nat BY TypesAre
    <3> QED BY <2>3, <3>1 DEF Depth
  <2> QED BY <2>1, <2>2, <2>3, <2>4
<1>2. CASE Leave(FALSE) BY <1>2, Fails DEF Leave, Return
<1>3. CASE /\ cells' = Append(cells, Bytes(look)) /\ next /\ Go("colon")
           /\ stack' = [stack EXCEPT ![Len(stack)].key = New]
  <2>1. PICK A : Written(A) /\ Kept(A) BY <1>1, WasHeld
  <2>2. /\ AllWhole(cells) /\ Shaped /\ Depth \in Nat /\ Depth > 0 /\ stack # <<>>
        /\ At(Depth) = NULL /\ KeyAt(Depth) = NULL /\ GoodHeap(cells) BY <1>e
  <2>3. PICK d \in Nat : d = Depth BY <2>2
  <2>4. PICK c : c = Bytes(look) OBVIOUS
  <2>5. look \in Kinds /\ c.text = look BY <1>1, <2>4 DEF Kinds, Bytes, Zero
  <2>6. Grows(c)
    <3>1. GoodCell(c, New, New) /\ Whole(c) BY <1>1, <2>4, <2>5, NewCellIsGood, NewIsWhole
    <3> QED BY <1>1, <1>3, <2>4, <3>1, CellAdded
  <2>8. PICK t : Locally(d, t) /\ t.elem = At(d) /\ t.key = New BY <1>3, <2>2, <2>3, KeySet
  <2>9. t.elem = NULL BY <2>2, <2>3, <2>8
  <2>10. pc' = "colon" /\ next BY <1>3 DEF Go
  <2> HIDE <1>3
  <2>11. PICK fn \in Brackets : fn = stack[d].fn BY <1>1, <2>3, Inside
  <2>12. PICK n \in 1..Len(cells) : n = At(d-1) /\ cells[n].kind = KindOf(fn)
    <3>1. d-1 \in 0..Depth-1 /\ d-1 \in 0..Depth /\ d \in 1..Depth BY <2>2, <2>3
    <3>2. cells[At(d-1)].kind = KindOf(fn) BY <2>2, <2>11, <3>1 DEF Shaped
    <3> QED BY <1>1, <3>1, <3>2, Levels DEF Calls, Blocks
  <2>13. At(d-1)' = n /\ KeyAt(d)' = New /\ At(d)' = NULL /\ stack'[d].fn = fn
    <3>1. d - 1 \in 0..d-1 /\ d \in 1..d BY <2>2, <2>3
    <3> QED BY <2>8, <2>9, <2>11, <2>12, <3>1 DEF Locally
  <2>14. Begun(cells', fn, n, New) = Begun(cells, fn, n, NULL) \o <<Back(look), AsIs(":")>>
    <3>1. GoodHeap(cells') /\ Len(cells) <= Len(cells') /\ \A x \in 1..Len(cells) : cells'[x] = cells[x]
      BY <2>6 DEF Grows
    <3>2. Begun(cells', fn, n, New) = Begun(cells, fn, n, NULL) \o Label(cells', New)
      BY <2>2, <3>1, BegunGrows
    <3>3. cells'[New].text = look /\ New # NULL BY <2>5, <2>6, NewIsNat DEF Grows, New, NULL
    <3>4. Label(cells', New) = <<Back(look), AsIs(":")>>
      <4>1. String(cells', New) = Back(look) BY <1>1, <3>3, StringBack
      <4> QED BY <3>3, <4>1, Zenon DEF Label
    <3> QED BY <3>2, <3>4
  <2>15. PICK s \in Printed : s = <<Back(look), AsIs(":")>>
    <3>1. Back(look) \in Marks /\ AsIs(":") \in Marks BY <2>5, MarksAre, SomeKinds
    <3> QED BY <3>1, TwoMarks
  <2>16. PICK C : Written(C)' /\ C[d] = A[d] \o s
    <3>1. Begun(cells, stack[d].fn, At(d-1), KeyAt(d)) \in Printed
      BY <2>2, <2>3, <2>11, <2>12, BegunPrinted
    <3>2. Begun(cells', stack'[d].fn, At(d-1)', KeyAt(d)') =
            Begun(cells, stack[d].fn, At(d-1), KeyAt(d)) \o s
      BY <2>2, <2>3, <2>11, <2>12, <2>13, <2>14, <2>15
    <3>3. \A k \in 1..d-1 : Begun(cells', stack'[k].fn, At(k-1)', KeyAt(k)') =
                              Begun(cells, stack[k].fn, At(k-1), KeyAt(k))
      BY <1>1, <2>2, <2>6, <2>8, LowerKept
    <3>4. d > 0 /\ Depth = d /\ Depth' = d BY <2>8 DEF Locally
    <3> QED BY <2>1, <3>1, <3>2, <3>3, <3>4, TopGrows
  <2>17. Shows' \o <<AsIs(":")>> = C[d]
    <3>1. Shows = A[d] BY <1>1, <2>1, <2>3 DEF Kept
    <3>2. Shows' = Shows \o <<Back(look)>> BY <1>1, <2>5, <2>10, ShowsNext
    <3>3. PICK u \in Printed, v \in Printed, w \in Printed :
             u = Shows /\ v = <<Back(look)>> /\ w = <<AsIs(":")>> /\ s = v \o w
      <4>1. Shows \in Printed BY <1>1, ShowsPrinted
      <4>2. Back(look) \in Marks /\ AsIs(":") \in Marks BY <2>5, MarksAre, SomeKinds
      <4>3. <<Back(look)>> \in Printed /\ <<AsIs(":")>> \in Printed /\ <<Back(look), AsIs(":")>> = <<Back(look)>> \o <<AsIs(":")>>
        BY <4>2, OneMark, TwoMarks
      <4> QED BY <2>15, <4>1, <4>3
    <3>4. (u \o v) \o w = u \o (v \o w) BY GluedThree
    <3> QED BY <2>16, <3>1, <3>2, <3>3, <3>4
  <2>18. Shaped'
    <3>1. ASSUME NEW k \in 1..d
          PROVE  /\ cells'[At(k-1)'].kind = KindOf(stack'[k].fn)
                 /\ stack'[k].fn = "[" => KeyAt(k)' = NULL
                 /\ stack'[k].fn = "{" /\ At(k)' # NULL => KeyAt(k)' # NULL
      <4>1. CASE k = d
        <5>1. fn # "[" BY <1>1, <2>3, <2>11 DEF Top, Depth
        <5>2. cells'[n] = cells[n] BY <2>6 DEF Grows
        <5> QED BY <2>12, <2>13, <4>1, <5>1, <5>2
      <4>2. CASE k # d
        <5>1. k \in 1..d-1 /\ k \in 1..Depth /\ k \in 0..d-1 BY <2>3, <4>2
        <5>2. cells'[At(k-1)'] = cells[At(k-1)] BY <1>1, <2>2, <2>6, <2>8, <5>1, LowerKept
        <5>3. stack'[k].fn = stack[k].fn /\ At(k)' = At(k) /\ KeyAt(k)' = KeyAt(k)
          BY <2>8, <5>1 DEF Locally
        <5> QED BY <2>2, <5>1, <5>2, <5>3 DEF Shaped
      <4> QED BY <4>1, <4>2
    <3> QED BY <2>8, <3>1 DEF Shaped, Locally
  <2>19. Kept(C)'
    <3>1. Depth' = d BY <2>8 DEF Locally
    <3>2. Shows' \o <<AsIs(":")>> = C[Depth'] BY <2>17, <3>1
    <3> QED BY <2>10, <3>2, Zenon DEF Kept
  <2>20. AllWhole(cells') BY <2>2, <2>6 DEF Grows
  <2> QED BY <2>10, <2>16, <2>18, <2>19, <2>20, StillHeld
<1> QED BY <1>2, <1>3 DEF Key

-----------------------------------------------------------------------------
(* arr_push and obj_push: one more item, and perhaps another array.        *)
WithItem(c, y, e) == [c EXCEPT !.items = Append(@, [key |-> y, value |-> e])]

Moved(p, n, cap) == [p EXCEPT !.buf = n, !.cap = cap]

HasItem(c, p, y, e) ==
  p.kind = c.kind /\ \E i : i.key = y /\ i.value = e /\ OneMore(c.items, p.items, i)

LEMMA ItemAdded ==
  ASSUME NEW c \in Cell, NEW y, NEW e,
         NEW p, p = WithItem(c, y, e)
  PROVE  HasItem(c, p, y, e)
<1>1. PICK i : i = [key |-> y, value |-> e] OBVIOUS
<1>2. i.key = y /\ i.value = e BY <1>1
<1>3. p.items = Append(c.items, i) /\ p.kind = c.kind BY <1>1 DEF Cell, WithItem
<1>4. c.items \in Seq([key : Nat, value : Nat]) BY DEF Cell
<1>5. OneMore(c.items, Append(c.items, i), i) BY <1>4, AppendsOne
<1> QED BY <1>2, <1>3, <1>5 DEF HasItem

LEMMA ItemFields ==
  ASSUME NEW c \in Cell, NEW y, NEW e
  PROVE  DOMAIN WithItem(c, y, e) = {"kind", "buf", "cap", "items", "text"}
BY DEF Cell, WithItem

LEMMA ArrayMoved ==
  ASSUME NEW p, DOMAIN p = {"kind", "buf", "cap", "items", "text"}, NEW n, NEW cap,
         NEW q, q = Moved(p, n, cap)
  PROVE  q.kind = p.kind /\ q.items = p.items
BY DEF Moved

LEMMA ItemIsWhole ==
  ASSUME NEW c, Whole(c), c.kind # "string", NEW p, p.kind = c.kind,
         NEW i, OneMore(c.items, p.items, i), c.kind = "object" <=> i.key # NULL
  PROVE  Whole(p)
<1>1. PICK m \in Nat : /\ DOMAIN c.items = 1..m /\ DOMAIN p.items = 1..m+1
                       /\ p.items[m+1] = i /\ \A k \in 1..m : p.items[k] = c.items[k]
  BY DEF OneMore
<1>2. ASSUME NEW k \in DOMAIN p.items PROVE Keyed(p, k)
  <2>1. k \in 1..m \/ k = m + 1 BY <1>1
  <2>2. CASE k \in 1..m
    <3>1. Keyed(c, k) BY <1>1, <2>2 DEF Whole
    <3> QED BY <1>1, <2>2, <3>1 DEF Keyed
  <2>3. CASE k = m + 1 BY <1>1, <2>3 DEF Keyed
  <2> QED BY <2>1, <2>2, <2>3
<1> QED BY <1>2 DEF Whole

(* Cell b is written, and another one may be added. *)
Puts(b, y, e) ==
  /\ Len(cells) \in Nat /\ Len(cells) <= Len(cells')
  /\ \A x \in 1..Len(cells) : x # b => cells'[x] = cells[x]
  /\ \A x \in 1..Len(cells') : x \in 1..Len(cells) \/ Whole(cells'[x])
  /\ cells'[b].kind = cells[b].kind
  /\ \E i : i.key = y /\ i.value = e /\ OneMore(cells[b].items, cells'[b].items, i)

LEMMA OneWritten ==
  ASSUME NEW T, NEW s \in Seq(T), NEW b \in 1..Len(s), NEW c, NEW new, new = [s EXCEPT ![b] = c]
  PROVE  /\ Len(new) = Len(s) /\ new[b] = c /\ \A x \in 1..Len(s) : x # b => new[x] = s[x]
         /\ new \in Seq(T \union {c})
<1>1. s \in Seq(T \union {c}) /\ c \in T \union {c} OBVIOUS
<1> QED BY <1>1

LEMMA PutsInPlace ==
  ASSUME GoodHeap(cells), NEW b \in 1..Len(cells), NEW y, NEW e,
         NEW p, p = WithItem(cells[b], y, e),
         cells' = [cells EXCEPT ![b] = p]
  PROVE  Puts(b, y, e)
<1>1. cells \in Seq(Cell) /\ cells[b] \in Cell /\ Len(cells) \in Nat BY DEF GoodHeap
<1>2. p.kind = cells[b].kind /\ \E i : i.key = y /\ i.value = e /\ OneMore(cells[b].items, p.items, i)
  <2>1. HasItem(cells[b], p, y, e) BY <1>1, ItemAdded, Zenon
  <2> QED BY <2>1 DEF HasItem
<1>3. Len(cells') = Len(cells) /\ cells'[b] = p /\ \A x \in 1..Len(cells) : x # b => cells'[x] = cells[x]
  BY <1>1, OneWritten
<1> QED BY <1>1, <1>2, <1>3 DEF Puts

LEMMA PutsAnew ==
  ASSUME GoodHeap(cells), NEW b \in 1..Len(cells), NEW y, NEW e, NEW n, NEW cap,
         NEW p, p = WithItem(cells[b], y, e),
         NEW q, q = Moved(p, n, cap),
         NEW d, Whole(d), cells' = Append([cells EXCEPT ![b] = q], d)
  PROVE  Puts(b, y, e)
<1>1. cells \in Seq(Cell) /\ cells[b] \in Cell /\ Len(cells) \in Nat BY DEF GoodHeap
<1>2. p.kind = cells[b].kind /\ \E i : i.key = y /\ i.value = e /\ OneMore(cells[b].items, p.items, i)
  <2>1. HasItem(cells[b], p, y, e) BY <1>1, ItemAdded, Zenon
  <2> QED BY <2>1 DEF HasItem
<1>3. q.kind = p.kind /\ q.items = p.items
  <2>1. DOMAIN p = {"kind", "buf", "cap", "items", "text"} BY <1>1, ItemFields
  <2> QED BY <2>1, ArrayMoved
<1>4. /\ Len(cells') = Len(cells) + 1 /\ cells'[b] = q /\ cells'[Len(cells)+1] = d
      /\ \A x \in 1..Len(cells) : x # b => cells'[x] = cells[x]
  <2>1. PICK mid : mid = [cells EXCEPT ![b] = q] OBVIOUS
  <2>2. /\ mid \in Seq(Cell \union {q}) /\ Len(mid) = Len(cells) /\ mid[b] = q
        /\ \A x \in 1..Len(cells) : x # b => mid[x] = cells[x]
    BY <1>1, <2>1, OneWritten
  <2>3. cells' = Append(mid, d) BY <2>1
  <2>4. /\ Len(cells') = Len(mid) + 1 /\ cells'[Len(mid)+1] = d
        /\ \A x \in 1..Len(mid) : cells'[x] = mid[x]
    <3>1. mid \in Seq(Cell \union {q} \union {d}) /\ d \in Cell \union {q} \union {d} BY <2>2
    <3> QED BY <2>3, <3>1
  <2> QED BY <1>1, <2>2, <2>4
<1>5. \A x \in 1..Len(cells') : x \in 1..Len(cells) \/ Whole(cells'[x]) BY <1>1, <1>4
<1>6. \E i : i.key = y /\ i.value = e /\ OneMore(cells[b].items, cells'[b].items, i)
  BY <1>2, <1>3, <1>4
<1> QED BY <1>1, <1>2, <1>3, <1>4, <1>5, <1>6 DEF Puts

LEMMA PushPuts ==
  ASSUME PInv, Push, NEW b \in 1..Len(cells), b = Top.out
  PROVE  Puts(b, Top.key, Top.elem)
<1>1. GoodHeap(cells) /\ Parsing BY PInvFacts DEF Push, Parsing
<1>2. PICK y, e, n, f : y = Top.key /\ e = Top.elem /\ n = New /\ f = Full(b) OBVIOUS
<1>3. PICK p : p = WithItem(cells[b], y, e) OBVIOUS
<1>4. p = Pushed(b) BY <1>2, <1>3 DEF Pushed, WithItem
<1>5. CASE cells' = [cells EXCEPT ![b] = Pushed(b)]
  <2>1. cells' = [cells EXCEPT ![b] = p] BY <1>4, <1>5
  <2> HIDE <1>5
  <2> QED BY <1>1, <1>2, <1>3, <2>1, PutsInPlace
<1>6. CASE cells' = Append([cells EXCEPT ![b] = [Pushed(b) EXCEPT !.buf = New,
                              !.cap = IF @ = 0 THEN FIRST_CAP ELSE @ * 2]], Bytes(""))
  <2>1. PICK d : d = Bytes("") OBVIOUS
  <2>2. Whole(d) BY <2>1, NewIsWhole
  <2>3. PICK cap : cap = IF p.cap = 0 THEN FIRST_CAP ELSE p.cap * 2 OBVIOUS
  <2>4. PICK q : q = Moved(p, n, cap) OBVIOUS
  <2>5. [p EXCEPT !.buf = n, !.cap = IF @ = 0 THEN FIRST_CAP ELSE @ * 2] = q BY <2>3, <2>4 DEF Moved
  <2>6. cells' = Append([cells EXCEPT ![b] = q], d) BY <1>2, <1>4, <1>6, <2>1, <2>5
  <2> HIDE <1>6
  <2> QED BY <1>1, <1>2, <1>3, <2>2, <2>4, <2>6, PutsAnew
<1>7. \/ cells' = [cells EXCEPT ![b] = Pushed(b)]
      \/ cells' = Append([cells EXCEPT ![b] = [Pushed(b) EXCEPT !.buf = New,
                            !.cap = IF @ = 0 THEN FIRST_CAP ELSE @ * 2]], Bytes(""))
  BY DEF Push
<1> QED BY <1>5, <1>6, <1>7

LEMMA ReadsPush == PInv /\ PInv' /\ JInv /\ RInv /\ Push => RInv'
<1> SUFFICES ASSUME PInv, PInv', JInv, RInv, Push PROVE RInv' OBVIOUS
<1>1. /\ pc = "returned" /\ stack # <<>> /\ ok /\ UNCHANGED doc /\ Parsing /\ pc' = "after"
      /\ stack' = [stack EXCEPT ![Len(stack)].elem = NULL, ![Len(stack)].key = NULL]
  BY DEF Push, Parsing, Go
<1>2. /\ AllWhole(cells) /\ Shaped /\ GoodHeap(cells) /\ GoodHeap(cells')
  BY <1>1, WasHeld, Levels, GoodHeapNext
<1>3. PICK A : Written(A) /\ Kept(A) BY <1>1, WasHeld
<1>4. PICK d \in Nat : d = Depth BY TypesAre
<1>5. PICK t : Locally(d, t) /\ t.elem = NULL /\ t.key = NULL BY <1>1, <1>4, LocalsEmpty
<1>6. PICK e, y : e = At(d) /\ y = KeyAt(d) OBVIOUS
<1>7. d > 0 /\ Top.elem = e /\ Top.key = y /\ Top.out = At(d-1) /\ e # NULL
  BY <1>1, <1>4, <1>6, LocalsOwned, OutIs, Levels DEF Turn
<1>8. PICK fn \in Brackets : fn = stack[d].fn BY <1>1, <1>4, Inside
<1>9. /\ d - 1 \in 0..Depth-1 /\ d - 1 \in 0..Depth /\ d \in 1..Depth /\ d \in 0..Depth
      /\ d - 1 \in 0..d-1 /\ d \in 1..d
  BY <1>4, <1>7
<1>10. PICK n \in 1..Len(cells) : n = At(d-1) /\ cells[n].kind = KindOf(fn)
  <2>1. cells[At(d-1)].kind = KindOf(fn) BY <1>2, <1>8, <1>9 DEF Shaped
  <2> QED BY <1>1, <1>9, <2>1, Levels DEF Calls, Blocks
<1>11. e \in n+1..Len(cells) /\ y \in {NULL} \union n+1..Len(cells)
  <2>1. e \in {NULL} \union n+1..Len(cells) /\ y \in {NULL} \union n+1..Len(cells)
    BY <1>1, <1>6, <1>9, <1>10, Levels DEF Calls
  <2> QED BY <1>7, <2>1
<1>12. Puts(n, y, e) BY <1>7, <1>10, PushPuts
<1>13. (fn = "[" => y = NULL) /\ (fn = "{" => y # NULL)
  BY <1>2, <1>6, <1>7, <1>8, <1>9 DEF Shaped
<1>14. AllWhole(cells')
  <2>1. Whole(cells[n]) BY <1>2 DEF AllWhole
  <2>2. cells[n].kind # "string" /\ (cells[n].kind = "object" <=> y # NULL)
    BY <1>10, <1>13, KindCases DEF Brackets, KindOf
  <2>3. PICK i : i.key = y /\ i.value = e /\ OneMore(cells[n].items, cells'[n].items, i)
    BY <1>12 DEF Puts
  <2>4. Whole(cells'[n])
    <3>1. cells'[n].kind = cells[n].kind BY <1>12 DEF Puts
    <3> QED BY <2>1, <2>2, <2>3, <3>1, ItemIsWhole
  <2>5. \A x \in 1..Len(cells') :
          (x \in 1..Len(cells) /\ x # n /\ cells'[x] = cells[x]) \/ Whole(cells'[x])
    BY <1>12, <2>4 DEF Puts
  <2> QED BY <1>2, <2>5, WholeWritten
<1>15. Adds(cells, cells', n, y, e) BY <1>11, <1>12 DEF Puts, Adds
<1>16. At(d-1)' = n /\ KeyAt(d)' = NULL /\ At(d)' = NULL /\ stack'[d].fn = fn
  BY <1>5, <1>8, <1>9, <1>10 DEF Locally
<1>17. Begun(cells', fn, n, NULL) = Begun(cells, fn, n, y) \o (Dumps(cells)[e] \o Commas(1))
  <2>1. PushBegins(cells, cells', fn, n, y, e) BY <1>2, <1>14, <1>15, BegunPushed
  <2> QED BY <2>1 DEF PushBegins
<1>18. PICK v \in Printed, w \in Printed, s \in Printed :
         v = Dumps(cells)[e] /\ w = Commas(1) /\ s = v \o w
  <2>1. e \in 1..Len(cells) BY <1>11
  <2>2. Dumps(cells)[e] \in Printed BY <1>2, <2>1, DumpPrinted
  <2>3. Commas(1) \in Printed BY CommasPrinted
  <2> QED BY <2>2, <2>3, Glued
<1>19. \A k \in 1..d-1 :
         /\ Begun(cells', stack'[k].fn, At(k-1)', KeyAt(k)') =
              Begun(cells, stack[k].fn, At(k-1), KeyAt(k))
         /\ cells'[At(k-1)'] = cells[At(k-1)]
         /\ stack'[k].fn = stack[k].fn /\ At(k)' = At(k) /\ KeyAt(k)' = KeyAt(k)
  <2>1. TAKE k \in 1..d-1
  <2>2. /\ k \in 1..Depth /\ k \in 0..Depth /\ k - 1 \in 0..Depth /\ k - 1 # d - 1 /\ k \in 1..d
        /\ k - 1 \in 0..d-1 /\ k \in 0..d-1
    BY <1>4
  <2>3. stack'[k].fn = stack[k].fn /\ At(k-1)' = At(k-1) /\ KeyAt(k)' = KeyAt(k) /\ At(k)' = At(k)
    BY <1>5, <2>2 DEF Locally
  <2>4. n \in Own(d-1)
    <3>1. n # NULL BY DEF NULL
    <3> QED BY <1>1, <1>9, <1>10, <3>1, Levels
  <2>5. n \notin Own(k-1) BY <1>1, <1>9, <2>2, <2>4, OthersDisjoint
  <2>6. n # KeyAt(k)
    <3>1. CASE k = d - 1
      <4>1. KeyAt(k) # NULL => KeyAt(k) < At(k) BY <1>1, <1>9, <1>10, <2>2, <3>1, Levels DEF Calls, NULL
      <4> QED BY <1>10, <3>1, <4>1 DEF NULL
    <3>2. CASE k # d - 1
      <4>1. n \notin Own(k) BY <1>1, <1>9, <2>2, <2>4, <3>2, OthersDisjoint
      <4>2. KeyAt(k) # NULL => KeyAt(k) \in Own(k) BY DEF Own, Refs
      <4>3. n # NULL BY DEF NULL
      <4> QED BY <4>1, <4>2, <4>3
    <3> QED BY <3>1, <3>2
  <2>7. Len(cells) <= Len(cells') /\ \A x \in Blocks : x # n => cells'[x] = cells[x]
    BY <1>12 DEF Puts, Blocks
  <2>8. /\ Begun(cells', stack'[k].fn, At(k-1)', KeyAt(k)') =
             Begun(cells, stack[k].fn, At(k-1), KeyAt(k))
        /\ cells'[At(k-1)'] = cells[At(k-1)]
    BY <1>1, <1>2, <2>2, <2>3, <2>5, <2>6, <2>7, LevelKept
  <2> QED BY <2>3, <2>8
<1>20. PICK C : Written(C)' /\ C[d] = A[d] \o s
  <2>1. Begun(cells, stack[d].fn, At(d-1), KeyAt(d)) \in Printed
    <3>1. y \in {NULL} \union 1..Len(cells) BY <1>11
    <3> QED BY <1>2, <1>6, <1>8, <1>10, <3>1, BegunPrinted
  <2>2. Begun(cells', stack'[d].fn, At(d-1)', KeyAt(d)') =
          Begun(cells, stack[d].fn, At(d-1), KeyAt(d)) \o s
    BY <1>6, <1>8, <1>10, <1>16, <1>17, <1>18
  <2>3. Depth = d /\ Depth' = d BY <1>4, <1>5 DEF Locally
  <2>4. \A k \in 1..d-1 : Begun(cells', stack'[k].fn, At(k-1)', KeyAt(k)') =
                            Begun(cells, stack[k].fn, At(k-1), KeyAt(k))
    BY <1>19
  <2> QED BY <1>3, <1>7, <2>1, <2>2, <2>3, <2>4, TopGrows
<1>21. Shows' \o Commas(1) = C[d]
  <2>1. Shows = A[d] \o v BY <1>1, <1>3, <1>4, <1>6, <1>18 DEF Kept
  <2>2. PICK a \in Printed : a = A[d] BY <1>3, <1>4, WrittenHere
  <2>3. (a \o v) \o w = a \o (v \o w) BY GluedThree
  <2>4. Shows' = Shows BY <1>1 DEF Shows, Read, PrintOf, Back
  <2> QED BY <1>18, <1>20, <2>1, <2>2, <2>3, <2>4
<1>22. Shaped'
  <2>1. ASSUME NEW k \in 1..d
        PROVE  /\ cells'[At(k-1)'].kind = KindOf(stack'[k].fn)
               /\ stack'[k].fn = "[" => KeyAt(k)' = NULL
               /\ stack'[k].fn = "{" /\ At(k)' # NULL => KeyAt(k)' # NULL
    <3>1. CASE k = d
      <4>1. cells'[n].kind = cells[n].kind BY <1>12 DEF Puts
      <4> QED BY <1>10, <1>16, <3>1, <4>1
    <3>2. CASE k # d
      <4>1. k \in 1..d-1 /\ k \in 1..Depth BY <1>4, <3>2
      <4> QED BY <1>2, <1>19, <4>1 DEF Shaped
    <3> QED BY <3>1, <3>2
  <2>2. Depth' = d BY <1>5 DEF Locally
  <2> QED BY <2>1, <2>2 DEF Shaped
<1>23. Kept(C)'
  <2>1. Depth' = d BY <1>5 DEF Locally
  <2>2. cells'[n].items # <<>>
    <3>1. PICK i : OneMore(cells[n].items, cells'[n].items, i) BY <1>12 DEF Puts
    <3>2. Len(cells'[n].items) # 0 BY <3>1 DEF OneMore
    <3> QED BY <3>2
  <2>3. At(Depth-1)' = n
    <3>1. At(Depth-1)' = At(d-1)' BY <2>1 DEF At
    <3> QED BY <1>16, <3>1
  <2>4. Shows' \o Commas(1) = C[Depth'] BY <1>21, <2>1
  <2> QED BY <1>1, <2>2, <2>3, <2>4, Zenon DEF Kept
<1> QED BY <1>1, <1>14, <1>20, <1>22, <1>23, StillHeld

-----------------------------------------------------------------------------
LEMMA ReadsFails ==
  RInv /\ (KeyNotString \/ ColonMissing \/ ElementFailed \/ PushFails \/ ValueUnexpected) => RInv'
<1> SUFFICES ASSUME KeyNotString \/ ColonMissing \/ ElementFailed \/ PushFails \/ ValueUnexpected
             PROVE  RInv'
  OBVIOUS
<1>1. pc' = "returned" /\ ok' = FALSE
  BY Zenon DEF KeyNotString, ColonMissing, ElementFailed, PushFails, ValueUnexpected, Leave, Return
<1> QED BY <1>1, Fails

(* The whole document was one value. *)
LEMMA ReadsEnded == PInv /\ RInv /\ (ParseFailed \/ TrailingData \/ Parsed) => RInv'
<1> SUFFICES ASSUME PInv, RInv, ParseFailed \/ TrailingData \/ Parsed PROVE RInv' OBVIOUS
<1>1. /\ Ended /\ UNCHANGED doc /\ pc' = "free"
      /\ rc' = 1 \/ (ok /\ look = EOF /\ UNCHANGED cells)
  BY Zenon DEF ParseFailed, TrailingData, Parsed, HeapSame
<1>2. ~Parsing' BY <1>1 DEF Parsing
<1>3. CASE rc' = 1 BY <1>1, <1>2, <1>3 DEF RInv
<1>4. CASE ok /\ look = EOF /\ UNCHANGED cells
  <2>1. pc = "returned" /\ stack = <<>> /\ Parsing BY <1>1 DEF Ended, Parsing
  <2>2. AllWhole(cells) BY <1>4, <2>1, WasHeld
  <2>3. PICK A : Written(A) /\ Kept(A) BY <1>4, <2>1, WasHeld
  <2>4. Depth = 0 /\ At(Depth) = root /\ A[Depth] = <<>>
    <3>1. Depth = 0 BY <2>1 DEF Depth
    <3> QED BY <2>3, <3>1 DEF At, Written
  <2>5. Shows = <<>> \o Dumps(cells)[root] BY <2>1, <2>3, <2>4 DEF Kept
  <2>6. Dumps(cells)[root] \in Printed
    <3>1. root # NULL BY DEF root, NULL
    <3>2. Depth \in 0..Depth BY <2>4
    <3>3. root \in 1..Len(cells) BY <2>1, <2>4, <3>1, <3>2, Levels DEF Blocks
    <3>4. GoodHeap(cells) BY <2>1, Levels
    <3> QED BY <2>2, <3>3, <3>4, DumpPrinted
  <2>7. Shows = Dumps(cells)[root] BY <2>5, <2>6, GluedNothing
  <2>8. Shows' = Shows BY <1>1 DEF Shows, Read, PrintOf, Back
  <2> QED BY <1>1, <1>2, <1>4, <2>7, <2>8 DEF RInv
<1> QED BY <1>1, <1>3, <1>4

LEMMA ReadsStart == PInv /\ PInv' /\ JInv /\ Start => RInv'
<1> SUFFICES ASSUME PInv, PInv', JInv, Start PROVE RInv' OBVIOUS
<1>1. pc = "start" /\ doc = <<>> /\ stack = <<>> BY DEF Start, JInv, PInv
<1>2. CASE pc' = "done" BY <1>2 DEF RInv, Parsing
<1>3. CASE next /\ pc' = "value" /\ UNCHANGED stack /\ cells' = <<Zero>>
  <2>1. PICK t : doc' = Append(doc, t) BY <1>3 DEF next
  <2>2. doc' = <<t>> BY <1>1, <2>1
  <2>3. Shows' = <<>>
    <3>1. Read' = <<>> BY <2>2 DEF Read
    <3>2. PICK r : r = Read' OBVIOUS
    <3>3. Shows' = PrintOf(r) BY <3>2 DEF Shows, PrintOf, Back
    <3> QED BY <3>1, <3>2, <3>3 DEF PrintOf
  <2>4. Depth' = 0 BY <1>1, <1>3 DEF Depth
  <2>5. AllWhole(cells')
    <3>1. PICK c : c = Zero OBVIOUS
    <3>2. Whole(c) BY <3>1, NewIsWhole
    <3>3. cells' = <<c>> BY <1>3, <3>1
    <3>4. \A b \in 1..Len(cells') : cells'[b] = c BY <3>3
    <3> QED BY <3>2, <3>4 DEF AllWhole
  <2>6. PICK B : B = [k \in {0} |-> <<>>] OBVIOUS
  <2>7. Written(B)'
    <3>1. <<>> \in Printed BY DEF Printed
    <3>2. B \in [0..0 -> Printed] /\ B[0] = <<>> BY <2>6, <3>1
    <3> QED BY <2>4, <3>2 DEF Written
  <2>8. Shaped'
    <3>1. \A k \in 1..Depth' : FALSE BY <2>4
    <3> QED BY <3>1 DEF Shaped
  <2>9. Kept(B)'
    <3>1. Shows' = B[Depth'] BY <2>3, <2>4, <2>6
    <3> QED BY <1>3, <3>1 DEF Kept
  <2> QED BY <1>3, <2>5, <2>7, <2>8, <2>9, StillHeld
<1> QED BY <1>2, <1>3 DEF Start, Go

LEMMA ReadsFree == MainFree => RInv'
BY DEF MainFree, RInv, Parsing

LEMMA InitRInv == Init => RInv
BY DEF Init, RInv, Parsing

LEMMA NextRInv == PInv /\ PInv' /\ JInv /\ RInv /\ [Next]_vars => RInv'
<1> SUFFICES ASSUME PInv, PInv', JInv, RInv, [Next]_vars PROVE RInv' OBVIOUS
<1>1. CASE Next
  BY <1>1, ReadsStart, ReadsOpen, ReadsString, ReadsNumber, ReadsLiteral, ReadsFails, ReadsFirst,
     ReadsKey, ReadsColon, ReadsElement, ReadsPush, ReadsAfter, ReadsEnded, ReadsFree, Zenon DEF Next
<1>2. CASE UNCHANGED vars
  <2>1. UNCHANGED <<doc, pc, stack, cells, ok, rc>> BY <1>2 DEF vars
  <2>2. Shows' = Shows /\ Depth' = Depth BY <2>1 DEF Shows, Read, PrintOf, Back, Depth
  <2>3. \A k : At(k)' = At(k) /\ KeyAt(k)' = KeyAt(k) BY <2>1 DEF At, KeyAt
  <2>4. Shaped' = Shaped /\ \A A : Written(A)' = Written(A) BY <2>1, <2>2, <2>3 DEF Shaped, Written
  <2>5. \A A : Kept(A)' = Kept(A) BY <2>1, <2>2, <2>3 DEF Kept, At
  <2>6. Holds' = Holds BY <2>1, <2>4, <2>5 DEF Holds
  <2> QED BY <2>1, <2>2, <2>6 DEF RInv, Parsing
<1> QED BY <1>1, <1>2

LEMMA RInvHolds == Spec => [](PInv /\ JInv /\ RInv)
<1>1. Init => PInv /\ JInv /\ RInv BY InitPInv, InitJInv, InitRInv
<1>2. PInv /\ JInv /\ RInv /\ [Next]_vars => (PInv /\ JInv /\ RInv)'
  BY NextPInv, NextJInv, NextRInv
<1> QED BY <1>1, <1>2, PTL DEF Spec

LEMMA RInvPrints == PInv /\ JInv /\ RInv => RoundTrip
<1> SUFFICES ASSUME PInv, JInv, RInv, pc = "free", rc = 0
             PROVE  Dump(root) = PrintOf(SubSeq(doc, 1, Len(doc) - 1))
  BY DEF RoundTrip
<1>1. Dumps(cells)[root] = Shows BY DEF RInv
<1>2. Dump(root) = Shows BY <1>1, DumpIs
<1> QED BY <1>2 DEF Shows, Read

LEMMA StaysRInv == RInv /\ OnlyFails => RInv'
<1> SUFFICES ASSUME RInv, OnlyFails PROVE RInv' OBVIOUS
<1>1. UNCHANGED <<doc, pc, cells, rc>> /\ pc = "free" BY DEF OnlyFails
<1>2. Shows' = Shows BY <1>1 DEF Shows, Read, PrintOf, Back
<1> QED BY <1>1, <1>2 DEF RInv, Parsing

LEMMA CliRInvHolds == CliSpec => [](PInv /\ JInv /\ RInv)
<1>1. CliInit => PInv /\ JInv /\ RInv BY InitPInv, InitJInv, InitRInv DEF CliInit
<1>2. PInv /\ JInv /\ RInv /\ [CliNext]_<<vars, cliVars>> => (PInv /\ JInv /\ RInv)'
  BY LookupOnlyReads, NextPInv, NextJInv, NextRInv, StaysPInv, StaysJInv, StaysRInv
<1> QED BY <1>1, <1>2, PTL DEF CliSpec

(* What main() prints is what it read, each token of the document in its   *)
(* place and converted once: a string by dump_string_escaped, a number by  *)
(* strtod and back, and nothing else is printed, however deep the values   *)
(* are nested and however often their arrays were moved (parse_value,      *)
(* arr_push, obj_push, dump_impl).                                         *)
THEOREM PrintedIsRead == Spec => []RoundTrip
BY RInvHolds, RInvPrints, PTL

(* The same of the whole program, with either command.                     *)
THEOREM ProgramPrintsWhatItRead == CliSpec => []RoundTrip
BY CliRInvHolds, RInvPrints, PTL

-----------------------------------------------------------------------------
(***************************************************************************)
(* Paths.  Every step of resolve_path is to a later character, so that the *)
(* function it is written as exists; and each leads to an item of the cell *)
(* it starts from, or to NULL.                                             *)
(***************************************************************************)
IsIndex(s, p, end, f) ==
  f = [q \in p..end |-> IF q = p THEN 0 ELSE 10 * f[q-1] + Number(s[q-1])]
Indices(s, p, end) == CHOOSE f : IsIndex(s, p, end, f)

LEMMA IndexIs == \A s, p, end : Index(s, p, end) = Indices(s, p, end)[end]
BY Zenon DEF Index, Indices, IsIndex

Places == Blocks \union {NULL}

Advance(s, f, p, inner, b) ==
  LET key == UpTo(s, p, {".", "["})
      end == PastDigits(s, p + 1)
  IN  IF b = NULL \/ p > Len(s) THEN b
      ELSE CASE s[p] = "." -> f[p + 1][FALSE][b]
             [] ~inner /\ s[p] \notin {".", "["} ->
                  f[key][TRUE][jv_get_object(b, SubSeq(s, p, key - 1))]
             [] s[p] = "[" /\ end > p + 1 /\ CharAt(s, end) = "]" ->
                  f[end + 1][TRUE][jv_get_array(b, Index(s, p + 1, end))]
             [] OTHER -> NULL

From(s, f, p) == [inner \in BOOLEAN |-> [b \in Places |-> Advance(s, f, p, inner, b)]]
IsWalk(s, f)  == f = [p \in 1..Len(s)+1 |-> From(s, f, p)]
Walk(s)       == CHOOSE f : IsWalk(s, f)

LEMMA ResolveIs == \A s : resolve_path(s) = Walk(s)[1][FALSE][root]
BY Zenon DEF resolve_path, Walk, IsWalk, From, Places, Advance

(* Both searches in the path find a first character. *)
LEMMA LeastOne ==
  ASSUME NEW S \in SUBSET Nat, S # {}
  PROVE  \E m \in S : \A n \in S : m <= n
<1>1. PICK m \in S : \A n \in S : ~(<<n, m>> \in OpToRel(<, Nat))
  BY NatLessThanWellFounded, WFMin
<1>2. \A n \in S : ~(n < m) BY <1>1 DEF OpToRel
<1> QED BY <1>2

LEMMA UpToIs ==
  ASSUME NEW s, Len(s) \in Nat, NEW p \in 1..Len(s), NEW S
  PROVE  /\ UpTo(s, p, S) \in p..Len(s)+1
         /\ UpTo(s, p, S) > Len(s) \/ s[UpTo(s, p, S)] \in S
         /\ \A n \in p..UpTo(s, p, S)-1 : s[n] \notin S
<1> DEFINE Hit(q)  == q > Len(s) \/ s[q] \in S
           Ends    == {q \in p..Len(s)+1 : Hit(q)}
           Is(q)   == Hit(q) /\ \A n \in p..q-1 : s[n] \notin S
<1>1. Len(s) + 1 \in Ends OBVIOUS
<1>2. PICK m \in Ends : \A n \in Ends : m <= n BY <1>1, LeastOne, Ends \subseteq Nat
<1>3. m \in p..Len(s)+1 /\ Is(m)
  <2>1. ASSUME NEW n \in p..m-1 PROVE s[n] \notin S BY <1>2, <2>1
  <2> QED BY <1>2, <2>1
<1> DEFINE q == CHOOSE x \in p..Len(s)+1 : Is(x)
<1>4. q \in p..Len(s)+1 /\ Is(q)
  <2> HIDE DEF Is
  <2> QED BY <1>3
<1>5. UpTo(s, p, S) = q BY DEF UpTo
<1> HIDE DEF q
<1> QED BY <1>4, <1>5

LEMMA PastDigitsIs ==
  ASSUME NEW s, Len(s) \in Nat, NEW p \in 1..Len(s)+1
  PROVE  /\ PastDigits(s, p) \in p..Len(s)+1
         /\ CharAt(s, PastDigits(s, p)) \notin Digits
         /\ \A n \in p..PastDigits(s, p)-1 : s[n] \in Digits
<1> DEFINE Ends  == {q \in p..Len(s)+1 : CharAt(s, q) \notin Digits}
           Is(q) == CharAt(s, q) \notin Digits /\ \A n \in p..q-1 : s[n] \in Digits
<1>1. Len(s) + 1 \in Ends BY DEF CharAt, Digits
<1>2. PICK m \in Ends : \A n \in Ends : m <= n BY <1>1, LeastOne, Ends \subseteq Nat
<1>3. m \in p..Len(s)+1 /\ Is(m)
  <2>1. ASSUME NEW n \in p..m-1 PROVE s[n] \in Digits
    <3>1. n \in p..Len(s) BY <1>2
    <3>2. CharAt(s, n) \in Digits BY <1>2, <3>1
    <3>3. CharAt(s, n) = s[n]
      <4>1. ~(n > Len(s)) BY <3>1
      <4> QED BY <4>1, Zenon DEF CharAt
    <3> QED BY <3>2, <3>3
  <2> QED BY <1>2, <2>1
<1> DEFINE q == CHOOSE x \in p..Len(s)+1 : Is(x)
<1>4. q \in p..Len(s)+1 /\ Is(q)
  <2> HIDE DEF Is
  <2> QED BY <1>3
<1>5. PastDigits(s, p) = q BY DEF PastDigits
<1> HIDE DEF q
<1> QED BY <1>4, <1>5

(* The digits make a number. *)
LEMMA IndexExists ==
  ASSUME NEW s, NEW p \in Nat, NEW end \in Nat, p <= end
  PROVE  IsIndex(s, p, end, Indices(s, p, end))
<1> DEFINE Rule(f, q)  == IF q = p THEN 0 ELSE 10 * f[q-1] + Number(s[q-1])
           Part(f, n)  == f = [q \in p..p+n |-> Rule(f, q)]
           G == {n \in Nat : \E f : Part(f, n)}
<1>1. ASSUME NEW n \in Nat, \A m \in 0..n-1 : m \in G PROVE n \in G
  <2>1. CASE n = 0
    <3> DEFINE f == [q \in p..p+n |-> 0]
    <3>1. p..p+n = {p} BY <2>1
    <3>2. f = [q \in p..p+n |-> Rule(f, q)] BY <3>1
    <3> QED BY <3>2
  <2>2. CASE n # 0
    <3>1. n - 1 \in 0..n-1 /\ p + (n - 1) = p + n - 1 BY <2>2
    <3>2. PICK f : f = [q \in p..p+n-1 |-> Rule(f, q)]
      <4>1. n - 1 \in G BY <1>1, <3>1
      <4>2. PICK h : h = [q \in p..p+(n-1) |-> Rule(h, q)] BY <4>1
      <4> HIDE DEF Rule
      <4> QED BY <3>1, <4>2
    <3> DEFINE g == [q \in p..p+n |-> IF q = p + n THEN Rule(f, q) ELSE f[q]]
    <3>3. ASSUME NEW q \in p..p+n PROVE g[q] = Rule(g, q)
      <4>1. Rule(g, q) = Rule(f, q)
        <5>1. CASE q = p BY <5>1
        <5>2. CASE q # p
          <6>1. q - 1 \in p..p+n /\ q - 1 # p + n BY <5>2
          <6>2. g[q-1] = f[q-1] BY <6>1
          <6> QED BY <6>2
        <5> QED BY <5>1, <5>2
      <4>2. CASE q = p + n BY <4>1, <4>2
      <4>3. CASE q # p + n
        <5>1. q \in p..p+n-1 BY <4>3
        <5>2. f[q] = Rule(f, q) BY <3>2, <5>1, Zenon
        <5> QED BY <4>1, <4>3, <5>2
      <4> QED BY <4>2, <4>3
    <3>4. g = [q \in p..p+n |-> g[q]] OBVIOUS
    <3>5. g = [q \in p..p+n |-> Rule(g, q)]
      <4> HIDE DEF g, Rule
      <4> QED BY <3>3, <3>4, Zenon
    <3> HIDE DEF g
    <3> QED BY <3>5
  <2> QED BY <2>1, <2>2
<1>2. end - p \in G /\ p + (end - p) = end
  <2> HIDE DEF G
  <2> QED BY <1>1, StrongInduction
<1>3. \E f : IsIndex(s, p, end, f) BY <1>2 DEF IsIndex
<1> QED BY <1>3, Zenon DEF Indices

LEMMA DigitIsNat == \A ch \in Digits : Number(ch) \in Nat
<1> DEFINE Ten == <<"0", "1", "2", "3", "4", "5", "6", "7", "8", "9">>
<1> SUFFICES ASSUME NEW ch \in Digits PROVE Number(ch) \in Nat OBVIOUS
<1>1. \E n \in 0..9 : Ten[n + 1] = ch BY DEF Digits
<1> DEFINE m == CHOOSE n \in 0..9 : Ten[n + 1] = ch
<1>2. m \in 0..9
  <2> HIDE DEF Ten
  <2> QED BY <1>1
<1>3. Number(ch) = m BY Zenon DEF Number
<1> HIDE DEF m
<1> QED BY <1>2, <1>3

LEMMA IndexIsNat ==
  ASSUME NEW s, NEW p \in Nat, NEW end \in Nat, p <= end, \A n \in p..end-1 : s[n] \in Digits
  PROVE  Index(s, p, end) \in Nat
<1> DEFINE f == Indices(s, p, end)
           F(q) == IF q = p THEN 0 ELSE 10 * f[q-1] + Number(s[q-1])
<1>1. f = [q \in p..end |-> F(q)] BY IndexExists DEF IsIndex
<1> HIDE DEF f
<1>2. \A q \in p..end : f[q] = F(q)
  <2> HIDE DEF F
  <2> QED BY <1>1, Zenon
<1> DEFINE G == {n \in Nat : n <= end - p => f[p + n] \in Nat}
<1>3. ASSUME NEW n \in Nat, \A m \in 0..n-1 : m \in G PROVE n \in G
  <2> SUFFICES ASSUME n <= end - p PROVE f[p + n] \in Nat OBVIOUS
  <2>1. p + n \in p..end OBVIOUS
  <2>2. CASE n = 0 BY <1>2, <2>1, <2>2
  <2>3. CASE n # 0
    <3>1. n - 1 \in 0..n-1 /\ n - 1 <= end - p /\ p + (n - 1) = p + n - 1 BY <2>3
    <3>2. f[p + n - 1] \in Nat BY <1>3, <3>1
    <3>3. p + n - 1 \in p..end-1 BY <2>3
    <3>4. Number(s[p + n - 1]) \in Nat BY <3>3, DigitIsNat
    <3>5. f[p + n] = 10 * f[p + n - 1] + Number(s[p + n - 1]) BY <1>2, <2>1, <2>3
    <3> QED BY <3>2, <3>4, <3>5
  <2> QED BY <2>2, <2>3
<1>4. end - p \in G
  <2> HIDE DEF G
  <2> QED BY <1>3, StrongInduction
<1>5. f[end] \in Nat
  <2>1. p + (end - p) = end OBVIOUS
  <2> QED BY <1>4, <2>1
<1> QED BY <1>5, IndexIs DEF f

LEMMA UpIs ==
  ASSUME NEW s, Len(s) \in Nat, NEW p \in 1..Len(s)
  PROVE  LET key == UpTo(s, p, {".", "["})
         IN  /\ key \in p..Len(s)+1 /\ (key > Len(s) \/ s[key] \in {".", "["})
             /\ \A n \in p..key-1 : s[n] \notin {".", "["}
<1>1. \A S : /\ UpTo(s, p, S) \in p..Len(s)+1
             /\ UpTo(s, p, S) > Len(s) \/ s[UpTo(s, p, S)] \in S
             /\ \A n \in p..UpTo(s, p, S)-1 : s[n] \notin S
  BY UpToIs
<1> QED BY <1>1, Zenon

(* A step goes on at a later character, so the walk exists. *)
LEMMA AdvanceSame ==
  ASSUME NEW s, Len(s) \in Nat, NEW p \in 1..Len(s)+1, NEW f, NEW g,
         \A x \in p+1..Len(s)+1 : f[x] = g[x]
  PROVE  \A inner \in BOOLEAN, b \in Places : Advance(s, f, p, inner, b) = Advance(s, g, p, inner, b)
<1> DEFINE key == UpTo(s, p, {".", "["})
           end == PastDigits(s, p + 1)
<1> SUFFICES ASSUME NEW inner \in BOOLEAN, NEW b \in Places
             PROVE  Advance(s, f, p, inner, b) = Advance(s, g, p, inner, b)
  OBVIOUS
<1>1. CASE b = NULL \/ p > Len(s) BY <1>1, Zenon DEF Advance
<1>2. CASE ~(b = NULL \/ p > Len(s))
  <2>1. p \in 1..Len(s) /\ p + 1 \in p+1..Len(s)+1 BY <1>2
  <2>2. f[p+1] = g[p+1] BY <2>1
  <2>3. s[p] \notin {".", "["} => f[key] = g[key]
    <3>1. key \in p..Len(s)+1 /\ (key > Len(s) \/ s[key] \in {".", "["}) BY <2>1, UpIs
    <3> HIDE DEF key
    <3> QED BY <2>1, <3>1
  <2>4. CharAt(s, end) = "]" => f[end+1] = g[end+1]
    <3>1. end \in p+1..Len(s)+1 BY <2>1, PastDigitsIs
    <3>2. CharAt(s, end) = "]" => ~(end > Len(s)) BY DEF CharAt
    <3> HIDE DEF end
    <3> QED BY <3>1, <3>2
  <2> QED BY <1>2, <2>2, <2>3, <2>4, Zenon DEF Advance
<1> QED BY <1>1, <1>2

LEMMA WalkExists ==
  ASSUME NEW s, Len(s) \in Nat
  PROVE  IsWalk(s, Walk(s))
<1> DEFINE L == Len(s) + 1
           Part(f, n) == f = [p \in n..L |-> From(s, f, p)]
           G == {n \in 1..L : \E f : Part(f, n)}
<1>1. ASSUME NEW n \in 1..L, \A m \in n+1..L : m \in G PROVE n \in G
  <2>1. PICK f : f = [p \in n+1..L |-> From(s, f, p)]
    <3>1. CASE n < L
      <4>1. n + 1 \in n+1..L BY <3>1
      <4> QED BY <1>1, <4>1
    <3>2. CASE n = L
      <4> DEFINE e == [p \in {} |-> 0]
      <4>1. n+1..L = {} BY <3>2
      <4>2. e = [p \in n+1..L |-> From(s, e, p)] BY <4>1
      <4> QED BY <4>2
    <3> QED BY <3>1, <3>2
  <2> DEFINE g == [p \in n..L |-> IF p = n THEN From(s, f, n) ELSE f[p]]
  <2>2. ASSUME NEW p \in n..L PROVE From(s, f, p) = From(s, g, p)
    <3>1. p \in 1..L /\ \A x \in p+1..L : x \in n..L /\ x # n OBVIOUS
    <3>2. \A x \in p+1..L : f[x] = g[x] BY <3>1
    <3> HIDE DEF g
    <3>3. \A inner \in BOOLEAN, b \in Places :
            Advance(s, f, p, inner, b) = Advance(s, g, p, inner, b)
      BY <3>1, <3>2, AdvanceSame
    <3> QED BY <3>3, Zenon DEF From
  <2>3. ASSUME NEW p \in n..L PROVE g[p] = From(s, g, p)
    <3>1. CASE p = n BY <2>2, <3>1
    <3>2. CASE p # n
      <4>1. p \in n+1..L BY <3>2
      <4>2. f[p] = From(s, f, p) BY <2>1, <4>1, Zenon
      <4> QED BY <2>2, <3>2, <4>2
    <3> QED BY <3>1, <3>2
  <2>4. g = [p \in n..L |-> From(s, g, p)]
    <3>1. g = [p \in n..L |-> g[p]] OBVIOUS
    <3> HIDE DEF g
    <3> QED BY <2>3, <3>1, Zenon
  <2> HIDE DEF g
  <2> QED BY <2>4
<1>2. 1 \in G
  <2>1. L \in Nat /\ 1 \in 1..L OBVIOUS
  <2> HIDE DEF G, L
  <2>2. 1..L \subseteq G BY <1>1, <2>1, Downwards
  <2> QED BY <2>1, <2>2
<1>3. \E f : IsWalk(s, f) BY <1>2 DEF IsWalk
<1> QED BY <1>3, Zenon DEF Walk

(* The parts of the tree below b. *)
Below(b) == {NULL} \union {c \in Blocks : b # NULL /\ Trees(cells)[c] \subseteq Trees(cells)[b]}

LEMMA MemberBelow ==
  ASSUME GoodHeap(cells), NEW b \in Blocks, NEW key
  PROVE  jv_get_object(b, key) \in Below(b)
<1> DEFINE hits == {k \in DOMAIN cells[b].items : Chars[cells[cells[b].items[k].key].text] = key}
<1>1. CASE cells[b].kind # "object" \/ hits = {} BY <1>1, Zenon DEF jv_get_object, Below
<1>2. CASE ~(cells[b].kind # "object" \/ hits = {})
  <2> DEFINE n == CHOOSE k \in hits : \A m \in hits : k <= m
  <2>1. cells[b].items \in Seq([key : Nat, value : Nat])
    <3>1. cells[b] \in Cell BY DEF GoodHeap, Blocks
    <3> QED BY <3>1 DEF Cell
  <2>2. hits \subseteq Nat BY <2>1
  <2>3. \E k \in hits : \A m \in hits : k <= m
    <3> HIDE DEF hits
    <3> QED BY <1>2, <2>2, LeastOne
  <2>4. n \in DOMAIN cells[b].items
    <3>1. n \in hits
      <4> HIDE DEF hits
      <4> QED BY <2>3
    <3> QED BY <3>1
  <2>5. jv_get_object(b, key) = cells[b].items[n].value BY <1>2, Zenon DEF jv_get_object
  <2> HIDE DEF n
  <2>6. cells[b].items[n].value \in Blocks /\ b # NULL
    BY <2>4 DEF GoodHeap, Sound, CellSound, Blocks, NULL
  <2>7. Trees(cells)[cells[b].items[n].value] \subseteq Trees(cells)[b]
    BY <2>4, ItemsIn DEF GoodHeap, Blocks
  <2> QED BY <2>5, <2>6, <2>7 DEF Below
<1> QED BY <1>1, <1>2

LEMMA ItemBelow ==
  ASSUME GoodHeap(cells), NEW b \in Blocks, NEW idx \in Nat
  PROVE  jv_get_array(b, idx) \in Below(b)
<1>1. CASE cells[b].kind # "array" \/ idx >= Len(cells[b].items)
  BY <1>1, Zenon DEF jv_get_array, Below
<1>2. CASE ~(cells[b].kind # "array" \/ idx >= Len(cells[b].items))
  <2>1. cells[b].items \in Seq([key : Nat, value : Nat])
    <3>1. cells[b] \in Cell BY DEF GoodHeap, Blocks
    <3> QED BY <3>1 DEF Cell
  <2>2. idx + 1 \in DOMAIN cells[b].items BY <1>2, <2>1
  <2>3. jv_get_array(b, idx) = cells[b].items[idx + 1].value BY <1>2, Zenon DEF jv_get_array
  <2>4. cells[b].items[idx + 1].value \in Blocks /\ b # NULL
    BY <2>2 DEF GoodHeap, Sound, CellSound, Blocks, NULL
  <2>5. Trees(cells)[cells[b].items[idx + 1].value] \subseteq Trees(cells)[b]
    BY <2>2, ItemsIn DEF GoodHeap, Blocks
  <2> QED BY <2>3, <2>4, <2>5 DEF Below
<1> QED BY <1>1, <1>2

LEMMA BelowBelow ==
  ASSUME NEW b \in Blocks, NEW c \in Below(b)
  PROVE  c \in Places /\ Below(c) \subseteq Below(b)
BY DEF Below, Places, NULL, Blocks
(* So is whatever the rest of a path leads to. *)
LEMMA WalkBelow ==
  ASSUME GoodHeap(cells), NEW s, Len(s) \in Nat, NEW p \in 1..Len(s)+1,
         NEW inner \in BOOLEAN, NEW b \in Places
  PROVE  Walk(s)[p][inner][b] \in Below(b)
<1> DEFINE f == Walk(s)
           L == Len(s) + 1
           Fine(x) == \A i \in BOOLEAN, c \in Places : f[x][i][c] \in Below(c)
           G == {x \in 1..L : Fine(x)}
<1>1. f = [x \in 1..L |-> From(s, f, x)] BY WalkExists DEF IsWalk
<1> HIDE DEF f
<1>2. ASSUME NEW x \in 1..L, \A y \in x+1..L : y \in G PROVE x \in G
  <2> SUFFICES ASSUME NEW i \in BOOLEAN, NEW c \in Places PROVE f[x][i][c] \in Below(c)
    OBVIOUS
  <2> DEFINE key == UpTo(s, x, {".", "["})
             end == PastDigits(s, x + 1)
  <2>1. f[x][i][c] = Advance(s, f, x, i, c)
    <3>1. f[x] = From(s, f, x) BY <1>1, Zenon
    <3>2. From(s, f, x)[i][c] = Advance(s, f, x, i, c) BY Zenon DEF From
    <3> QED BY <3>1, <3>2
  <2>2. c \in Below(c) /\ NULL \in Below(c) BY DEF Below, Places
  <2>3. ASSUME NEW y \in x+1..L, NEW j \in BOOLEAN, NEW d \in Below(c), c \in Blocks
        PROVE  f[y][j][d] \in Below(c)
    <3>1. d \in Places /\ Below(d) \subseteq Below(c) BY <2>3, BelowBelow
    <3> QED BY <1>2, <3>1
  <2>4. CASE c = NULL \/ x > Len(s)
    <3>1. Advance(s, f, x, i, c) = c BY <2>4, Zenon DEF Advance
    <3> QED BY <2>1, <2>2, <3>1
  <2>5. CASE ~(c = NULL \/ x > Len(s))
    <3>0. c \in Blocks /\ x \in 1..Len(s) /\ x + 1 \in x+1..L BY <2>5 DEF Places
    <3>1. CASE s[x] = "."
      <4>1. s[x] \in {".", "["} /\ s[x] # "[" BY <3>1
      <4>2. Advance(s, f, x, i, c) = f[x + 1][FALSE][c] BY <2>5, <3>1, <4>1, Zenon DEF Advance
      <4> QED BY <2>1, <2>2, <2>3, <3>0, <4>2
    <3>2. CASE ~i /\ s[x] \notin {".", "["}
      <4>1. s[x] # "." /\ s[x] # "[" BY <3>2
      <4>2. Advance(s, f, x, i, c) = f[key][TRUE][jv_get_object(c, SubSeq(s, x, key - 1))]
        BY <2>5, <3>2, <4>1, Zenon DEF Advance
      <4>3. key \in x+1..L
        <5>1. key \in x..Len(s)+1 /\ (key > Len(s) \/ s[key] \in {".", "["}) BY <3>0, UpIs
        <5> HIDE DEF key
        <5> QED BY <3>0, <3>2, <5>1
      <4>4. jv_get_object(c, SubSeq(s, x, key - 1)) \in Below(c) BY <3>0, MemberBelow
      <4> HIDE DEF key
      <4> QED BY <2>1, <2>3, <3>0, <4>2, <4>3, <4>4
    <3>3. CASE s[x] = "[" /\ end > x + 1 /\ CharAt(s, end) = "]"
      <4>1. s[x] # "." /\ s[x] \in {".", "["} BY <3>3
      <4>2. Advance(s, f, x, i, c)
              = f[end + 1][TRUE][jv_get_array(c, Index(s, x + 1, end))]
        BY <2>5, <3>3, <4>1, Zenon DEF Advance
      <4>3. /\ end \in x+1..Len(s)+1
            /\ \A n \in x+1..end-1 : s[n] \in Digits
        BY <3>0, PastDigitsIs
      <4>4. ~(end > Len(s)) BY <3>3 DEF CharAt
      <4> HIDE DEF end
      <4>5. end + 1 \in x+1..L BY <4>3, <4>4
      <4>6. Index(s, x + 1, end) \in Nat
        <5>1. PICK from \in Nat, e \in Nat : from = x + 1 /\ e = end /\ from <= e BY <4>3
        <5>2. \A n \in from..e-1 : s[n] \in Digits BY <4>3, <5>1
        <5>3. Index(s, from, e) \in Nat BY <5>1, <5>2, IndexIsNat
        <5> QED BY <5>1, <5>3
      <4>7. jv_get_array(c, Index(s, x + 1, end)) \in Below(c) BY <3>0, <4>6, ItemBelow
      <4> QED BY <2>1, <2>3, <3>0, <4>2, <4>5, <4>7
    <3>4. CASE /\ s[x] # "."
               /\ ~(~i /\ s[x] \notin {".", "["})
               /\ ~(s[x] = "[" /\ end > x + 1 /\ CharAt(s, end) = "]")
      <4>1. Advance(s, f, x, i, c) = NULL BY <2>5, <3>4, Zenon DEF Advance
      <4> QED BY <2>1, <2>2, <4>1
    <3> QED BY <3>1, <3>2, <3>3, <3>4
  <2> QED BY <2>4, <2>5
<1>3. 1..L \subseteq G
  <2>1. L \in Nat OBVIOUS
  <2> HIDE DEF G, L
  <2> QED BY <1>2, <2>1, Downwards
<1>4. Fine(p) BY <1>3
<1> QED BY <1>4 DEF f

LEMMA ResolvedBelow ==
  ASSUME GoodHeap(cells), root \in Blocks, NEW s \in Seq(STRING)
  PROVE  resolve_path(s) \in Below(root)
<1>1. Len(s) \in Nat /\ 1 \in 1..Len(s)+1 /\ root \in Places BY DEF Places
<1>2. Walk(s)[1][FALSE][root] \in Below(root) BY <1>1, WalkBelow
<1> QED BY <1>2, ResolveIs

-----------------------------------------------------------------------------
(* What "get" prints is a part of the root's tree, and nothing of it has   *)
(* been freed: whichever path leads there, however the arrays have grown   *)
(* and moved.                                                              *)
FoundIsLive ==
  status = "found" /\ pc = "free" =>
    /\ target \in Tree(root)
    /\ Tree(target) \subseteq Tree(root) \intersect live

(* It was looked up in the heap as it is. *)
FInv ==
  /\ status # "" => pc \in {"free", "done"}
  /\ status = "found" /\ pc = "free" =>
       rc = 0 /\ target # NULL /\ target \in Below(root)

LEMMA InitFInv == CliInit => FInv BY DEF CliInit, FInv

LEMMA NextFInv == PInv /\ FInv /\ [CliNext]_<<vars, cliVars>> => FInv'
<1> SUFFICES ASSUME PInv, FInv, [CliNext]_<<vars, cliVars>> PROVE FInv' OBVIOUS
<1>1. CASE Next /\ UNCHANGED cliVars
  <2>1. status # "" => pc' = "done"
    <3> SUFFICES ASSUME status # "" PROVE pc' = "done" OBVIOUS
    <3>1. pc \in {"free", "done"} BY DEF FInv
    <3> QED BY <1>1, <3>1 DEF Next, Start, ValueOpen, ValueString, ValueNumber, ValueLiteral,
          ValueUnexpected, First, Key, KeyNotString, Colon, ColonMissing, Element,
          ElementFailed, Push, PushFails, After, ParseFailed, TrailingData, Parsed, Ended,
          MainFree
  <2>2. status' = status BY <1>1 DEF cliVars
  <2> QED BY <2>1, <2>2 DEF FInv
<1>2. ASSUME NEW s \in Paths, Get(s) PROVE FInv'
  <2>1. s \in Seq(STRING) BY PathsAssumption
  <2>2. Afterwards /\ pc = "free" /\ rc = 0 BY <1>2 DEF Get, PInv
  <2>3. target' \in Below(root) BY <1>2, <2>1, <2>2, PInvFacts, ResolvedBelow DEF Get, Afterwards
  <2>4. UNCHANGED vars BY <1>2 DEF Get
  <2>5. Below(root)' = Below(root) BY <2>4 DEF vars, Below, Blocks, root
  <2>6. status' = "found" => target' # NULL BY <1>2 DEF Get
  <2> QED BY <2>2, <2>3, <2>4, <2>5, <2>6 DEF FInv, vars
<1>3. ASSUME NEW s \in Paths, GetNoMemory(s) PROVE FInv'
  <2>1. pc' = "free" /\ status' = "no memory" BY <1>3 DEF GetNoMemory
  <2> QED BY <2>1 DEF FInv
<1>4. CASE UNCHANGED <<vars, cliVars>>
  <2>1. Below(root)' = Below(root) BY <1>4 DEF vars, Below, Blocks, root
  <2> QED BY <1>4, <2>1 DEF FInv, vars, cliVars
<1> QED BY <1>1, <1>2, <1>3, <1>4 DEF CliNext

LEMMA FInvFound == PInv /\ FInv => FoundIsLive
<1> SUFFICES ASSUME PInv, FInv, status = "found", pc = "free"
             PROVE  /\ target \in Tree(root)
                    /\ Tree(target) \subseteq Tree(root) \intersect live
  BY DEF FoundIsLive
<1>1. rc = 0 /\ target # NULL /\ target \in Below(root) BY DEF FInv
<1>2. Afterwards BY DEF PInv
<1>3. RootTree \subseteq live BY <1>1, <1>2 DEF Afterwards
<1>4. RootTree = Trees(cells)[root] BY RootTreeIs
<1>5. target \in Blocks /\ Trees(cells)[target] \subseteq Trees(cells)[root]
  BY <1>1 DEF Below
<1>6. target \in Trees(cells)[target] BY <1>5, PInvFacts, TreeInHeap DEF GoodHeap, Blocks
<1>7. Tree(target) = Trees(cells)[target] /\ Tree(root) = Trees(cells)[root]
  BY <1>1, TreeIs DEF root, NULL
<1> QED BY <1>3, <1>4, <1>5, <1>6, <1>7

THEOREM FoundPartIsLive == CliSpec => []FoundIsLive
BY CliPInvHolds, InitFInv, NextFInv, FInvFound, PTL DEF CliSpec
=============================================================================
