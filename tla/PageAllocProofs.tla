-------------------------- MODULE PageAllocProofs ---------------------------
(***************************************************************************)
(* The page allocator for every zone size, slack, largest order and set of *)
(* reserved pages.  The inductive invariant IInv adds to the checked       *)
(* properties that private is cleared with the page: without PrivateFresh  *)
(* a page left with an old order would turn into a head when it becomes    *)
(* the middle of another block.                                            *)
(***************************************************************************)
EXTENDS PageAlloc, FiniteSetTheorems, TLAPS

\* Only a page in use has an order.
PrivateFresh == \A p \in Zone : private[p] # NoOrder => count[p] > 0

IInv == /\ TypeOK
        /\ PrivateFresh
        /\ BlocksDisjoint
        /\ ReservedKept
        /\ NoLeak
        /\ FreeAccounting

-----------------------------------------------------------------------------
\* A block has a positive number of pages, at most that of the largest order.
LEMMA PageCountType ==
    \A o \in Orders : /\ PageCount[o] \in Nat \ {0}
                      /\ PageCount[o] <= PageCount[MAX_PAGE_ORDER]
  BY OrderAssumption, SMTT(30) DEF Orders, PageCount

\* A block that starts in the zone ends among the descriptors.
LEMMA BlockFacts ==
    ASSUME NEW f \in Zone, NEW o \in Orders
    PROVE  /\ Block(f, o) \subseteq Descr
           /\ f \in Block(f, o)
           /\ IsFiniteSet(Block(f, o))
           /\ Cardinality(Block(f, o)) = PageCount[o]
  <1>1. /\ PageCount[o] \in Nat \ {0}
        /\ PageCount[o] <= PageCount[MAX_PAGE_ORDER]
    BY PageCountType
  <1>2. PageCount[MAX_PAGE_ORDER] \in Nat
    BY PageCountType, OrderAssumption DEF Orders
  <1>3. f \in Int /\ f + PageCount[o] - 1 \in Int /\ f <= f + PageCount[o] - 1
    BY <1>1, PagesAssumption DEF Zone
  <1>4. Block(f, o) \subseteq Descr /\ f \in Block(f, o)
    BY <1>1, <1>2, PagesAssumption, SlackAssumption DEF Zone, Descr, Block
  <1>5. /\ IsFiniteSet(f .. f + PageCount[o] - 1)
        /\ Cardinality(f .. f + PageCount[o] - 1) = (f + PageCount[o] - 1) - f + 1
    BY <1>3, FS_Interval
  <1> QED
    BY <1>1, <1>3, <1>4, <1>5 DEF Block

LEMMA DescrFacts == Zone \subseteq Descr /\ IsFiniteSet(Descr) /\ IsFiniteSet(Zone)
  <1>1. 0 \in Int /\ Pages - 1 \in Int /\ Pages + Slack - 1 \in Int
    BY PagesAssumption, SlackAssumption
  <1>2. IsFiniteSet(Zone) /\ IsFiniteSet(Descr)
    BY <1>1, FS_Interval DEF Zone, Descr
  <1> QED
    BY <1>2, PagesAssumption, SlackAssumption DEF Zone, Descr

LEMMA BusyFinite == IsFiniteSet(Busy) /\ Cardinality(Busy) \in Nat
  <1>1. Busy \in SUBSET Descr
    BY DEF Busy
  <1> QED
    BY <1>1, DescrFacts, FS_Subset, FS_CardinalityType

-----------------------------------------------------------------------------
\* What a successful alloc_pages does: a block of free pages, disjoint from
\* all the others, becomes one more block.
LEMMA AllocEffect ==
    ASSUME IInv, NEW o \in Orders, alloc_pages(o)
    PROVE  \E f \in Zone :
              /\ f \notin Heads
              /\ \A d \in Block(f, o) : count[d] = 0
              /\ count' = [d \in Descr |-> IF d \in Block(f, o) THEN 1 ELSE count[d]]
              /\ private' = [private EXCEPT ![f] = o]
              /\ free_pages' = free_pages - PageCount[o]
              /\ Heads' = Heads \cup {f}
              /\ \A p \in Heads : private'[p] = private[p]
              /\ private'[f] = o
  <1>1. PICK f \in Zone :
              /\ \A d \in Block(f, o) : count[d] = 0
              /\ count' = [d \in Descr |-> IF d \in Block(f, o) THEN 1 ELSE count[d]]
              /\ private' = [private EXCEPT ![f] = o]
              /\ free_pages' = free_pages - PageCount[o]
    BY DEF alloc_pages, Fit, MarkBlock
  <1>2. f \in Block(f, o) /\ Block(f, o) \subseteq Descr
    BY BlockFacts
  <1>3. count[f] = 0 /\ f \notin Heads
    BY <1>1, <1>2 DEF Heads
  <1>4. \A p \in Zone : p # f => private'[p] = private[p]
    BY <1>1 DEF IInv, TypeOK
  <1>5. private'[f] = o
    BY <1>1 DEF IInv, TypeOK
  <1>6. Heads' = Heads \cup {f}
    <2>1. ASSUME NEW p \in Heads' PROVE p \in Heads \cup {f}
      <3>1. CASE p = f
        BY <3>1
      <3>2. CASE p # f
        <4>1. p \in Zone /\ private[p] # NoOrder
          BY <2>1, <3>2, <1>4 DEF Heads
        <4>2. count[p] > 0
          BY <4>1 DEF IInv, PrivateFresh
        <4> QED
          BY <4>1, <4>2 DEF Heads
      <3> QED
        BY <3>1, <3>2
    <2>2. ASSUME NEW p \in Heads PROVE p \in Heads'
      <3>1. p \in Zone /\ p # f /\ p \in Descr /\ count[p] > 0 /\ private[p] # NoOrder
        BY <1>3, DescrFacts DEF Heads
      <3>2. count'[p] > 0
        BY <3>1, <1>1
      <3> QED
        BY <3>1, <3>2, <1>4 DEF Heads
    <2>3. f \in Heads'
      <3>1. count'[f] = 1
        BY <1>1, <1>2
      <3>2. private'[f] # NoOrder
        BY <1>5, OrderAssumption DEF Orders, NoOrder
      <3> QED
        BY <3>1, <3>2 DEF Heads
    <2> QED
      BY <2>1, <2>2, <2>3
  <1>7. \A p \in Heads : private'[p] = private[p]
    BY <1>3, <1>4 DEF Heads
  <1> QED
    BY <1>1, <1>3, <1>5, <1>6, <1>7

\* What an accepted __free_pages does: exactly one block goes, all of it.
LEMMA FreeEffect ==
    ASSUME IInv, NEW p \in Zone, NEW o \in Orders, __free_pages(p, o)
    PROVE  /\ p \in Heads /\ private[p] = o
           /\ count' = [d \in Descr |-> IF d \in Block(p, o) THEN 0 ELSE count[d]]
           /\ private' = [private EXCEPT ![p] = NoOrder]
           /\ free_pages' = free_pages + PageCount[o]
           /\ Heads' = Heads \ {p}
           /\ \A q \in Heads' : private'[q] = private[q]
  <1>1. p \in Heads /\ private[p] = o
    BY OrderAssumption DEF __free_pages, Heads, Orders, NoOrder
  <1>2. Block(p, o) = BlockOf(p) /\ \A d \in Block(p, o) : count[d] = 1
    BY <1>1 DEF IInv, BlocksDisjoint, BlockOf
  <1>3. p \in Block(p, o) /\ Block(p, o) \subseteq Descr /\ Cardinality(Block(p, o)) = PageCount[o]
    BY BlockFacts
  <1>4. count' = [d \in Descr |-> IF d \in Block(p, o) THEN 0 ELSE count[d]]
    <2>1. count' = [d \in Descr |-> IF d \in Block(p, o) THEN Dec(count[d]) ELSE count[d]]
      BY DEF __free_pages
    <2>2. \A d \in Block(p, o) : Dec(count[d]) = 0
      BY <1>2 DEF Dec
    <2> QED
      BY <2>1, <2>2
  <1>5. { d \in Block(p, o) : count'[d] = 0 } = Block(p, o)
    BY <1>3, <1>4
  <1>6. free_pages' = free_pages + PageCount[o]
    BY <1>3, <1>5 DEF __free_pages
  <1>7. private' = [private EXCEPT ![p] = NoOrder]
    <2>1. count'[p] = 0
      BY <1>3, <1>4
    <2> QED
      BY <2>1 DEF __free_pages
  <1>8. \A q \in Zone : q # p => private'[q] = private[q]
    BY <1>7 DEF IInv, TypeOK
  <1>9. Heads' = Heads \ {p}
    <2>1. ASSUME NEW q \in Heads' PROVE q \in Heads \ {p}
      <3>1. q # p
        BY <1>7 DEF Heads, IInv, TypeOK
      <3>2. q \in Zone /\ private[q] # NoOrder
        BY <3>1, <1>8 DEF Heads
      <3> QED
        BY <3>1, <3>2 DEF Heads, IInv, PrivateFresh
    <2>2. ASSUME NEW q \in Heads \ {p} PROVE q \in Heads'
      <3>1. q \in Zone /\ q \in Descr /\ private'[q] # NoOrder /\ count[q] > 0
        BY <1>8, DescrFacts DEF Heads
      <3>2. q \in BlockOf(q)
        BY BlockFacts DEF Heads, BlockOf, IInv, TypeOK
      <3>3. BlockOf(q) \cap BlockOf(p) = {}
        BY <1>1 DEF IInv, BlocksDisjoint
      <3>4. q \notin Block(p, o)
        BY <3>2, <3>3, <1>2
      <3> QED
        BY <3>1, <3>4, <1>4 DEF Heads
    <2> QED
      BY <2>1, <2>2
  <1>10. \A q \in Heads' : private'[q] = private[q]
    BY <1>8, <1>9 DEF Heads
  <1> QED
    BY <1>1, <1>4, <1>6, <1>7, <1>9, <1>10
-----------------------------------------------------------------------------
LEMMA InitIInv == Init => IInv
  <1> SUFFICES ASSUME Init PROVE IInv
    OBVIOUS
  <1>1. Heads = {}
    BY DescrFacts DEF Init, Heads
  <1>2. Busy = {}
    BY DEF Init, Busy
  <1>3. Cardinality(Zone \ Reserved) \in Nat /\ Cardinality({}) = 0
    BY DescrFacts, FS_Difference, FS_CardinalityType, FS_EmptySet
  <1>4. TypeOK
    BY <1>3, DescrFacts DEF Init, TypeOK
  <1>5. PrivateFresh
    BY DEF Init, PrivateFresh
  <1>6. BlocksDisjoint
    BY <1>1 DEF BlocksDisjoint
  <1>7. ReservedKept
    BY <1>1, ReservedAssumption DEF ReservedKept, Init
  <1>8. NoLeak
    BY DEF NoLeak, Init
  <1>9. FreeAccounting
    BY <1>2, <1>3 DEF FreeAccounting, Init
  <1> QED
    BY <1>4, <1>5, <1>6, <1>7, <1>8, <1>9 DEF IInv

LEMMA AllocIInv ==
    ASSUME IInv, NEW o \in Orders, alloc_pages(o)
    PROVE  IInv'
  <1>1. PICK f \in Zone :
              /\ f \notin Heads
              /\ \A d \in Block(f, o) : count[d] = 0
              /\ count' = [d \in Descr |-> IF d \in Block(f, o) THEN 1 ELSE count[d]]
              /\ private' = [private EXCEPT ![f] = o]
              /\ free_pages' = free_pages - PageCount[o]
              /\ Heads' = Heads \cup {f}
              /\ \A p \in Heads : private'[p] = private[p]
              /\ private'[f] = o
    BY AllocEffect
  <1>2. /\ Block(f, o) \subseteq Descr /\ f \in Block(f, o)
        /\ IsFiniteSet(Block(f, o)) /\ Cardinality(Block(f, o)) = PageCount[o]
    BY BlockFacts
  <1>3. BlockOf(f)' = Block(f, o) /\ \A p \in Heads : BlockOf(p)' = BlockOf(p)
    BY <1>1 DEF BlockOf, Block
  <1>4. \A p \in Heads : BlockOf(p) \cap Block(f, o) = {}
    BY <1>1 DEF IInv, BlocksDisjoint
  <1>5. TypeOK'
    <2>1. free_pages > PageCount[o] /\ PageCount[o] \in Nat
      BY PageCountType DEF alloc_pages
    <2>2. free_pages' \in Nat
      BY <2>1, <1>1 DEF IInv, TypeOK
    <2>3. count' \in [Descr -> {0, 1}]
      BY <1>1 DEF IInv, TypeOK
    <2>4. private' \in [Zone -> Orders \cup {NoOrder}]
      BY <1>1 DEF IInv, TypeOK
    <2> QED
      BY <2>2, <2>3, <2>4 DEF TypeOK
  <1>6. PrivateFresh'
    <2> SUFFICES ASSUME NEW p \in Zone, private'[p] # NoOrder PROVE count'[p] > 0
      BY DEF PrivateFresh
    <2>1. CASE p = f
      BY <2>1, <1>1, <1>2
    <2>2. CASE p # f
      <3>1. private[p] # NoOrder
        BY <2>2, <1>1 DEF IInv, TypeOK
      <3>2. count[p] > 0 /\ p \in Descr
        BY <3>1, DescrFacts DEF IInv, PrivateFresh
      <3> QED
        BY <3>2, <1>1
    <2> QED
      BY <2>1, <2>2
  <1>7. BlocksDisjoint'
    <2>1. ASSUME NEW p \in Heads', NEW q \in Heads', p # q
          PROVE  BlockOf(p)' \cap BlockOf(q)' = {}
      <3>1. CASE p = f
        BY <2>1, <3>1, <1>1, <1>3, <1>4
      <3>2. CASE q = f
        BY <2>1, <3>2, <1>1, <1>3, <1>4
      <3>3. CASE p # f /\ q # f
        BY <2>1, <3>3, <1>1, <1>3 DEF IInv, BlocksDisjoint
      <3> QED
        BY <3>1, <3>2, <3>3
    <2>2. ASSUME NEW p \in Heads', NEW d \in BlockOf(p)' PROVE count'[d] = 1
      <3>1. CASE p = f
        BY <2>2, <3>1, <1>1, <1>2, <1>3
      <3>2. CASE p # f
        <4>1. p \in Heads /\ d \in BlockOf(p) /\ count[d] = 1
          BY <2>2, <3>2, <1>1, <1>3 DEF IInv, BlocksDisjoint
        <4>2. d \in Descr
          BY <4>1, BlockFacts DEF Heads, BlockOf, IInv, TypeOK
        <4> QED
          BY <4>1, <4>2, <1>1
      <3> QED
        BY <3>1, <3>2
    <2> QED
      BY <2>1, <2>2 DEF BlocksDisjoint
  <1>8. ReservedKept'
    <2>1. \A d \in Reserved : d \in Descr /\ count[d] = 1
      BY ReservedAssumption DEF IInv, ReservedKept
    <2>2. \A d \in Reserved : count'[d] = 1
      BY <2>1, <1>1
    <2>3. Block(f, o) \cap Reserved = {}
      BY <2>1, <1>1
    <2>4. \A p \in Heads' : BlockOf(p)' \cap Reserved = {}
      BY <2>3, <1>1, <1>3 DEF IInv, ReservedKept
    <2> QED
      BY <2>2, <2>4 DEF ReservedKept
  <1>9. NoLeak'
    <2> SUFFICES ASSUME NEW d \in Descr \ Reserved, count'[d] > 0
                 PROVE  \E p \in Heads' : d \in BlockOf(p)'
      BY DEF NoLeak
    <2>1. CASE d \in Block(f, o)
      BY <2>1, <1>1, <1>3
    <2>2. CASE d \notin Block(f, o)
      <3>1. PICK p \in Heads : d \in BlockOf(p)
        BY <2>2, <1>1 DEF IInv, NoLeak
      <3> QED
        BY <3>1, <1>1, <1>3
    <2> QED
      BY <2>1, <2>2
  <1>10. FreeAccounting'
    <2>1. Block(f, o) \cap Reserved = {}
      BY <1>1, ReservedAssumption DEF IInv, ReservedKept
    <2>2. Busy' = Busy \cup Block(f, o)
      BY <1>1, <1>2, <2>1 DEF Busy
    <2>3. Busy \cap Block(f, o) = {}
      BY <1>1 DEF Busy
    <2>4. Cardinality(Busy') = Cardinality(Busy) + PageCount[o]
      <3>1. Cardinality(Busy \cup Block(f, o))
              = Cardinality(Busy) + Cardinality(Block(f, o)) - Cardinality(Busy \cap Block(f, o))
        BY <1>2, BusyFinite, FS_Union
      <3>2. Cardinality(Busy \cap Block(f, o)) = 0
        BY <2>3, FS_EmptySet
      <3>3. Cardinality(Busy') = Cardinality(Busy \cup Block(f, o))
        BY <2>2
      <3> QED
        BY <3>1, <3>2, <3>3, <1>2, BusyFinite, PageCountType
    <2> QED
      BY <2>4, <1>1, BusyFinite, PageCountType DEF IInv, FreeAccounting, TypeOK
  <1> QED
    BY <1>5, <1>6, <1>7, <1>8, <1>9, <1>10 DEF IInv

LEMMA FreeIInv ==
    ASSUME IInv, NEW f \in Zone, NEW o \in Orders, __free_pages(f, o)
    PROVE  IInv'
  <1>1. /\ f \in Heads /\ private[f] = o
        /\ count' = [d \in Descr |-> IF d \in Block(f, o) THEN 0 ELSE count[d]]
        /\ private' = [private EXCEPT ![f] = NoOrder]
        /\ free_pages' = free_pages + PageCount[o]
        /\ Heads' = Heads \ {f}
        /\ \A q \in Heads' : private'[q] = private[q]
    BY FreeEffect
  <1>2. /\ Block(f, o) \subseteq Descr /\ f \in Block(f, o)
        /\ IsFiniteSet(Block(f, o)) /\ Cardinality(Block(f, o)) = PageCount[o]
    BY BlockFacts
  <1>3. BlockOf(f) = Block(f, o) /\ \A p \in Heads' : BlockOf(p)' = BlockOf(p)
    BY <1>1 DEF BlockOf, Block
  <1>4. \A p \in Heads' : p \in Heads /\ BlockOf(p) \cap Block(f, o) = {}
    BY <1>1, <1>3 DEF IInv, BlocksDisjoint
  <1>5. Block(f, o) \cap Reserved = {} /\ \A d \in Block(f, o) : count[d] = 1
    BY <1>1, <1>3 DEF IInv, ReservedKept, BlocksDisjoint
  <1>6. TypeOK'
    <2>1. free_pages' \in Nat
      BY <1>1, PageCountType DEF IInv, TypeOK
    <2>2. count' \in [Descr -> {0, 1}]
      BY <1>1 DEF IInv, TypeOK
    <2>3. private' \in [Zone -> Orders \cup {NoOrder}]
      BY <1>1 DEF IInv, TypeOK
    <2> QED
      BY <2>1, <2>2, <2>3 DEF TypeOK
  <1>7. PrivateFresh'
    <2> SUFFICES ASSUME NEW p \in Zone, private'[p] # NoOrder PROVE count'[p] > 0
      BY DEF PrivateFresh
    <2>1. p # f /\ private[p] # NoOrder
      BY <1>1 DEF IInv, TypeOK
    <2>2. p \in Heads
      BY <2>1 DEF IInv, PrivateFresh, Heads
    <2> QED
      BY <2>1, <2>2, <1>1 DEF Heads
  <1>8. BlocksDisjoint'
    <2>1. \A p, q \in Heads' : p # q => BlockOf(p)' \cap BlockOf(q)' = {}
      BY <1>1, <1>3 DEF IInv, BlocksDisjoint
    <2>2. ASSUME NEW p \in Heads', NEW d \in BlockOf(p)' PROVE count'[d] = 1
      <3>1. p \in Heads /\ d \in BlockOf(p) /\ count[d] = 1 /\ d \notin Block(f, o)
        BY <2>2, <1>3, <1>4 DEF IInv, BlocksDisjoint
      <3>2. d \in Descr
        BY <3>1, BlockFacts DEF Heads, BlockOf, IInv, TypeOK
      <3> QED
        BY <3>1, <3>2, <1>1
    <2> QED
      BY <2>1, <2>2 DEF BlocksDisjoint
  <1>9. ReservedKept'
    <2>1. \A d \in Reserved : d \in Descr /\ count[d] = 1
      BY ReservedAssumption DEF IInv, ReservedKept
    <2>2. \A d \in Reserved : count'[d] = 1
      BY <2>1, <1>1, <1>5
    <2>3. \A p \in Heads' : BlockOf(p)' \cap Reserved = {}
      BY <1>1, <1>3 DEF IInv, ReservedKept
    <2> QED
      BY <2>2, <2>3 DEF ReservedKept
  <1>10. NoLeak'
    <2> SUFFICES ASSUME NEW d \in Descr \ Reserved, count'[d] > 0
                 PROVE  \E p \in Heads' : d \in BlockOf(p)'
      BY DEF NoLeak
    <2>1. d \notin Block(f, o) /\ count[d] > 0
      BY <1>1
    <2>2. PICK p \in Heads : d \in BlockOf(p)
      BY <2>1 DEF IInv, NoLeak
    <2> QED
      BY <2>1, <2>2, <1>1, <1>3
  <1>11. FreeAccounting'
    <2>1. Busy' = Busy \ Block(f, o)
      BY <1>1 DEF Busy
    <2>2. Busy \cap Block(f, o) = Block(f, o)
      BY <1>2, <1>5 DEF Busy
    <2>3. Cardinality(Busy') = Cardinality(Busy) - PageCount[o]
      <3>1. Cardinality(Busy \ Block(f, o))
              = Cardinality(Busy) - Cardinality(Busy \cap Block(f, o))
        BY BusyFinite, FS_Difference
      <3>2. Cardinality(Busy') = Cardinality(Busy \ Block(f, o))
        BY <2>1
      <3> QED
        BY <3>1, <3>2, <2>2, <1>2
    <2> QED
      BY <2>3, <1>1, BusyFinite, PageCountType DEF IInv, FreeAccounting, TypeOK
  <1> QED
    BY <1>6, <1>7, <1>8, <1>9, <1>10, <1>11 DEF IInv

-----------------------------------------------------------------------------
\* The invariant of page_alloc.c: alloc_pages and __free_pages, called with any
\* page and order, keep every conjunct of IInv.
THEOREM AllocatorInvariant == Spec => []IInv
<1>1. IInv /\ [Next]_vars => IInv'
  <2> SUFFICES ASSUME IInv, [Next]_vars PROVE IInv'
    OBVIOUS
  <2>1. ASSUME NEW o \in Orders, alloc_pages(o) PROVE IInv'
    BY <2>1, AllocIInv
  <2>2. ASSUME NEW p \in Zone, NEW o \in Orders, __free_pages(p, o) PROVE IInv'
    BY <2>2, FreeIInv
  <2>3. CASE UNCHANGED vars
    BY <2>3 DEF vars, IInv, TypeOK, PrivateFresh, BlocksDisjoint, ReservedKept,
                NoLeak, FreeAccounting, Heads, BlockOf, Block, Busy
  <2> QED
    BY <2>1, <2>2, <2>3 DEF Next
<1> QED
  BY InitIInv, <1>1, PTL DEF Spec

\* No page is handed out twice: the blocks out of alloc_pages are disjoint and
\* all their pages are marked in mem_map.
THEOREM AllocatorDisjoint == Spec => []BlocksDisjoint
  BY AllocatorInvariant, PTL DEF IInv

\* The pages that mem_map_init marks for BIOS, kernel and boot tables are never
\* granted and never freed.
THEOREM AllocatorKeepsReserved == Spec => []ReservedKept
  BY AllocatorInvariant, PTL DEF IInv

\* zone->free_pages and mem_map agree after every alloc_pages and __free_pages.
THEOREM AllocatorAccounting == Spec => []FreeAccounting
  BY AllocatorInvariant, PTL DEF IInv

\* mem_map and the zone keep their types: no count or order leaves its range,
\* whatever alloc_pages and __free_pages are called with.
THEOREM AllocatorTypeCorrect == Spec => []TypeOK
  BY AllocatorInvariant, PTL DEF IInv

\* Every marked page can be given back: none is lost between two blocks.
THEOREM AllocatorNoLeak == Spec => []NoLeak
  BY AllocatorInvariant, PTL DEF IInv
-----------------------------------------------------------------------------
\* A block that goes over the end of the zone holds the descriptor right behind
\* it: if that one is marked, no block of alloc_pages does.
LEMMA EndMarkedWithin ==
    ASSUME Pages \in Reserved, IInv
    PROVE  WithinZone
  <1> SUFFICES ASSUME NEW p \in Heads, NEW d \in BlockOf(p), d \notin Zone
               PROVE  FALSE
    BY DEF WithinZone
  <1>1. p \in Zone /\ private[p] \in Orders
    BY DEF Heads, IInv, TypeOK
  <1>2. PageCount[private[p]] \in Nat \ {0}
    BY <1>1, PageCountType
  <1>3. Pages \in BlockOf(p)
    BY <1>1, <1>2, PagesAssumption DEF BlockOf, Block, Zone
  <1> QED
    BY <1>3 DEF IInv, ReservedKept

\* page_alloc.c implements PagePool as far as its blocks stay in the zone: a
\* successful alloc_pages grants one block of unreserved pages of the zone that
\* no other block has, an accepted __free_pages takes back a whole block, and a
\* rejected call does nothing.  Nothing in the code keeps the blocks in the zone
\* (page_alloc.c:90), so that they do is a hypothesis.
THEOREM AllocatorImplementsPool == Spec /\ []WithinZone => PoolSpec
<1>1. Init => Pool!Init
  BY DescrFacts DEF Init, Heads, granted, Pool!Init
<1>2. IInv /\ WithinZone' /\ [Next]_vars => [Pool!Next]_granted
  <2> SUFFICES ASSUME IInv, WithinZone', [Next]_vars
               PROVE  Pool!Next \/ granted' = granted
    OBVIOUS
  <2>1. ASSUME NEW o \in Orders, alloc_pages(o) PROVE Pool!Next
    <3>1. PICK f \in Zone :
              /\ f \notin Heads
              /\ \A d \in Block(f, o) : count[d] = 0
              /\ Heads' = Heads \cup {f}
              /\ \A p \in Heads : private'[p] = private[p]
              /\ private'[f] = o
      BY <2>1, AllocEffect
    <3>2. Block(f, o) \subseteq Zone
      <4>1. f \in Heads'
        BY <3>1
      <4>2. BlockOf(f)' = Block(f, o)
        BY <3>1 DEF BlockOf, Block
      <4> QED
        BY <4>1, <4>2 DEF WithinZone
    <3>3. granted' = granted \cup {<<f, o>>}
      BY <3>1 DEF granted
    <3>4. <<f, o>> \notin granted
      BY <3>1 DEF granted
    <3>5. Block(f, o) \subseteq Zone \ (Reserved \cap Zone)
      BY <3>1, <3>2 DEF IInv, ReservedKept
    <3>6. \A p \in Heads : Block(f, o) \cap Block(p, private[p]) = {}
      BY <3>1 DEF IInv, BlocksDisjoint, BlockOf
    <3>7. \A c \in granted : Block(f, o) \cap Pool!Frames(c) = {}
      BY <3>6 DEF granted, Pool!Frames, Block
    <3>8. Pool!Frames(<<f, o>>) = Block(f, o)
      BY DEF Pool!Frames, Block
    <3>9. Pool!Grant(<<f, o>>)
      BY <3>3, <3>4, <3>5, <3>7, <3>8 DEF Pool!Grant
    <3>10. <<f, o>> \in Zone \X Pool!Order
      BY <3>1 DEF Pool!Order, PageCount, Orders
    <3> QED
      BY <3>9, <3>10 DEF Pool!Next
  <2>2. ASSUME NEW f \in Zone, NEW o \in Orders, __free_pages(f, o) PROVE Pool!Next
    <3>1. /\ f \in Heads /\ private[f] = o
          /\ Heads' = Heads \ {f}
          /\ \A q \in Heads' : private'[q] = private[q]
      BY <2>2, FreeEffect
    <3>2. granted' = granted \ {<<f, o>>}
      BY <3>1 DEF granted
    <3>3. <<f, o>> \in granted
      BY <3>1 DEF granted
    <3>4. <<f, o>> \in Zone \X Pool!Order
      BY DEF Pool!Order, PageCount, Orders
    <3> QED
      BY <3>2, <3>3, <3>4 DEF Pool!Next, Pool!Release
  <2>3. CASE UNCHANGED vars
    BY <2>3 DEF vars, granted, Heads
  <2> QED
    BY <2>1, <2>2, <2>3 DEF Next
<1> QED
  BY <1>1, <1>2, AllocatorInvariant, PTL DEF Spec, PoolSpec, Pool!Spec

\* The condition on mem_map that makes the promise hold for every run: the
\* descriptor behind the zone's last one reads as used.  mem_map_init
\* (page.c:107) does not write it, so the code does not see to this.
THEOREM PoolWithMarkedEnd == Pages \in Reserved => (Spec => PoolSpec)
<1> SUFFICES ASSUME Pages \in Reserved PROVE Spec => PoolSpec
  OBVIOUS
<1>1. IInv => WithinZone
  BY EndMarkedWithin
<1> QED
  BY <1>1, AllocatorInvariant, AllocatorImplementsPool, PTL
=============================================================================
