----------------------------- MODULE PageAlloc ------------------------------
(***************************************************************************)
(* The page allocator: src/page_alloc.c on the mem_map and the zone that   *)
(* page.c and memory.c leave behind.                                       *)
(*                                                                         *)
(* The zone has the descriptors 0 .. Pages-1.  The scan of __alloc_pages   *)
(* has no bound on first+last, so it also reads, and marks, descriptors    *)
(* behind the zone: the Slack descriptors of the last page of mem_map,     *)
(* which mem_map_init has not written.                                     *)
(*                                                                         *)
(* A call is one step here, the form the slab allocator builds on; PageScan*)
(* has the search descriptor by descriptor and implements this one.        *)
(*                                                                         *)
(* Callers run one at a time: boot code of the first processor.            *)
(***************************************************************************)
EXTENDS Integers, FiniteSets

CONSTANTS Pages,          \* zone->pages
          Slack,          \* descriptors behind the zone the scan can reach
          MAX_PAGE_ORDER, \* page_alloc.h
          Reserved        \* descriptors that are not free after memory_init

\* 1UL << order, up to the largest order of page_alloc.h.
PageCount == [o \in 0 .. MAX_PAGE_ORDER |-> <<1, 2, 4, 8, 16, 32>>[o + 1]]

Zone  == 0 .. Pages - 1
Descr == 0 .. Pages + Slack - 1
Orders == 0 .. MAX_PAGE_ORDER

ASSUME PagesAssumption == Pages \in Nat \ {0}
ASSUME OrderAssumption == MAX_PAGE_ORDER \in 0 .. 5
ASSUME SlackAssumption == Slack \in Nat /\ Slack >= PageCount[MAX_PAGE_ORDER] - 1
ASSUME ReservedAssumption == Reserved \subseteq Descr /\ 0 \in Reserved

VARIABLES count,       \* mem_map[d].count
          private,     \* mem_map[p].private of a page of the zone
          free_pages   \* zone->free_pages

vars == <<count, private, free_pages>>

NoOrder == -1          \* what mem_map_init and __free_pages store in private

\* size_t: a count of zero decremented.  Any number no page count reaches.
CountMax == 1000

\* The descriptors of a block, and the free runs the scan accepts: they start
\* in the zone, and nothing says that they end there.
Block(first, order) == first .. first + PageCount[order] - 1

Fit(order) == { f \in Zone : \A d \in Block(f, order) : count[d] = 0 }

-----------------------------------------------------------------------------
\* mem_map_init marks the pages in use; memory_init counts the free ones.
Init == /\ count = [d \in Descr |-> IF d \in Reserved THEN 1 ELSE 0]
        /\ private = [p \in Zone |-> NoOrder]
        /\ free_pages = Cardinality(Zone \ Reserved)

\* The block's descriptors are marked, the first one gets the order.
MarkBlock(first, order) ==
    /\ count' = [d \in Descr |-> IF d \in Block(first, order) THEN 1 ELSE count[d]]
    /\ private' = [private EXCEPT ![first] = order]

\* alloc_pages(gfp_mask, order) when it does not return NULL.  The zone must
\* have more free pages than asked for; the first run that fits is taken.
alloc_pages(order) ==
    /\ free_pages > PageCount[order]
    /\ \E first \in Fit(order) :
          /\ \A f \in Fit(order) : first <= f
          /\ MarkBlock(first, order)
          /\ free_pages' = free_pages - PageCount[order]

\* page[i].count--
Dec(c) == IF c = 0 THEN CountMax ELSE c - 1

\* Mutant: the order the block was allocated with is not compared.
Free_AnyOrder(page, order) ==
    /\ count[page] > 0
    /\ count' = [d \in Descr |-> IF d \in Block(page, order) THEN Dec(count[d]) ELSE count[d]]
    /\ free_pages' = free_pages + Cardinality({ d \in Block(page, order) : count'[d] = 0 })
    /\ private' = [private EXCEPT ![page] = IF count'[page] = 0 THEN NoOrder ELSE @]

\* Mutant: as many pages as the order says, not 1 << order.
Free_OrderPages(page, order) ==
    /\ count[page] > 0
    /\ private[page] = order
    /\ count' = [d \in Descr |-> IF d \in page .. page + order THEN Dec(count[d]) ELSE count[d]]
    /\ free_pages' = free_pages + Cardinality({ d \in page .. page + order : count'[d] = 0 })
    /\ private' = [private EXCEPT ![page] = IF count'[page] = 0 THEN NoOrder ELSE @]

\* __free_pages(page, order) past its early returns, which change nothing.  Any
\* page of the zone and any order may be passed.
__free_pages(page, order) ==
    /\ count[page] > 0
    /\ private[page] = order
    /\ count' = [d \in Descr |-> IF d \in Block(page, order) THEN Dec(count[d]) ELSE count[d]]
    /\ free_pages' = free_pages + Cardinality({ d \in Block(page, order) : count'[d] = 0 })
    /\ private' = [private EXCEPT ![page] = IF count'[page] = 0 THEN NoOrder ELSE @]

Next == \/ \E order \in Orders : alloc_pages(order)
        \/ \E page \in Zone, order \in Orders : __free_pages(page, order)

Spec == Init /\ [][Next]_vars

-----------------------------------------------------------------------------
\* The page counts are 0 or 1 (no block is marked twice or released twice), and
\* private holds an order only in the zone.
TypeOK == /\ count \in [Descr -> {0, 1}]
          /\ private \in [Zone -> Orders \cup {NoOrder}]
          /\ free_pages \in Nat

\* The pages __free_pages takes for the first page of a block.
Heads == { p \in Zone : count[p] > 0 /\ private[p] # NoOrder }

BlockOf(p) == Block(p, private[p])

\* The blocks that are out share no page, and all their pages are marked.
BlocksDisjoint ==
    /\ \A p, q \in Heads : p # q => BlockOf(p) \cap BlockOf(q) = {}
    /\ \A p \in Heads : \A d \in BlockOf(p) : count[d] = 1

\* BIOS, kernel image and boot-time tables stay out of the allocator's hands,
\* whatever pages and orders __free_pages is called with.
ReservedKept == /\ \A d \in Reserved : count[d] = 1
                /\ \A p \in Heads : BlockOf(p) \cap Reserved = {}

\* A page that is marked and not reserved belongs to a block that can be freed.
NoLeak == \A d \in Descr \ Reserved :
              count[d] > 0 => \E p \in Heads : d \in BlockOf(p)

Busy == { d \in Descr \ Reserved : count[d] > 0 }

\* zone->free_pages is what memory_init counted less the pages that are out.
FreeAccounting == free_pages + Cardinality(Busy) = Cardinality(Zone \ Reserved)

\* The promise of PagePool, taken at its word: a frame is a page of the zone
\* (include/memory.h:35, "Only page in the same zone can be allocated").  The
\* scan breaks it at the zone's end, where it marks descriptors that have no
\* page behind them.
granted == { <<p, private[p]>> : p \in Heads }

Pool == INSTANCE PagePool WITH Frame <- Zone, Kept <- Reserved \cap Zone,
                               Size <- PageCount, granted <- granted

PoolSpec == Pool!Spec

\* No block that is out goes over the end of the zone.
WithinZone == \A p \in Heads : BlockOf(p) \subseteq Zone
=============================================================================
