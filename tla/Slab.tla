-------------------------------- MODULE Slab --------------------------------
(***************************************************************************)
(* The object allocator, src/slab.c, on top of the page allocator.         *)
(*                                                                         *)
(* A slab is named by the first page of its block; its descriptor (inuse,  *)
(* free, bufctl) lives there, and mem_map[p].slab of every page p of the   *)
(* block names it.  The cache table is fixed: kmem_cache_init has run (the *)
(* pages of the table are among Reserved), and CacheTable.tla says how the *)
(* numbers ObjSize, Num and GfpOrder come about.                           *)
(*                                                                         *)
(* Each call runs to its end: there is one processor that allocates and no *)
(* interrupt handler does.                                                 *)
(***************************************************************************)
EXTENDS Integers, Sequences, FiniteSets, FiniteSetsExt, SequencesExt

CONSTANTS Pages, Slack, MAX_PAGE_ORDER, Reserved,   \* see PageAlloc
          ObjSize,      \* objsize of each cache, in the order of the table
          Num,          \* objects per slab
          GfpOrder,     \* order of a slab's block
          Requests      \* sizes that kmalloc is called with

\* The index that ends a free list; a slab has fewer objects than that.
BUFCTL_END == 65535

ASSUME CacheAssumption ==
    /\ Len(ObjSize) = Len(Num) /\ Len(Num) = Len(GfpOrder)
    /\ ObjSize \in Seq(Nat) /\ Num \in Seq(1 .. BUFCTL_END) /\ GfpOrder \in Seq(0 .. MAX_PAGE_ORDER)
    /\ Requests \subseteq Nat

VARIABLES count, private, free_pages,   \* the page allocator
          page_slab,   \* mem_map[d].slab
          slab,        \* the slab descriptors, by first page
          slabs,       \* cachep->slabs, first entry first
          live,        \* objects callers hold: slab, index, size asked for
          fault        \* the processor took a page fault it does not survive

pageVars == <<count, private, free_pages>>
vars == <<count, private, free_pages, page_slab, slab, slabs, live, fault>>

PA == INSTANCE PageAlloc

\* The zone is one that PageAlloc is made for.
ASSUME ZoneAssumption ==
    /\ Pages \in Nat \ {0} /\ MAX_PAGE_ORDER \in 0 .. 5
    /\ Slack \in Nat /\ Slack >= PA!PageCount[MAX_PAGE_ORDER] - 1
    /\ Reserved \subseteq PA!Descr /\ 0 \in Reserved

Caches == DOMAIN ObjSize
NULL == -1

-----------------------------------------------------------------------------
\* alloc_pages(order) # NULL, and the page it returns.
CanAlloc(order) == free_pages > PA!PageCount[order] /\ PA!Fit(order) # {}
FirstPage(order) == Min(PA!Fit(order))

\* What kmem_cache_grow writes into a new slab.
NewSlab(c) == [cache |-> c, inuse |-> 0, free |-> 0,
               bufctl |-> [i \in 0 .. Num[c] - 1 |-> IF i = Num[c] - 1 THEN BUFCTL_END ELSE i + 1]]

\* The slabs of a cache that kmalloc can take an object from, by list position.
Usable(c) == { k \in DOMAIN slabs[c] : /\ slab[slabs[c][k]].free # BUFCTL_END
                                       /\ slab[slabs[c][k]].inuse < Num[c] }

\* The caches big enough for n bytes; kmalloc starts with the first of them.
BigEnough(n) == { c \in Caches : n <= ObjSize[c] }

\* Mutant: the search starts over at the head of the table.
Serving_FromStart(n) == { c \in Caches : Usable(c) # {} \/ CanAlloc(GfpOrder[c]) }

\* From there kmalloc moves on to the next entry of the table whenever the list
\* has no free object and two calls of kmem_cache_grow have failed.
Serving(n) == { c \in Caches : /\ c >= Min(BigEnough(n))
                               /\ Usable(c) # {} \/ CanAlloc(GfpOrder[c]) }

\* slabp->inuse++, slabp->free = bufctl[slabp->free]
Take(s) == [s EXCEPT !.inuse = @ + 1, !.free = s.bufctl[s.free]]

\* Mutant: the old head of the list is not linked behind the freed object.
Put_NoLink(s, i) == [s EXCEPT !.free = i, !.inuse = @ - 1]

\* bufctl[obj_index] = slabp->free, slabp->free = obj_index, slabp->inuse--
Put(s, i) == [s EXCEPT !.bufctl[i] = s.free, !.free = i, !.inuse = @ - 1]

-----------------------------------------------------------------------------
Init == /\ PA!Init
        /\ page_slab = [d \in PA!Descr |-> NULL]
        /\ slab = << >>
        /\ slabs = [c \in Caches |-> << >>]
        /\ live = {}
        /\ fault = FALSE

\* caos_kmalloc(n) that finds a slab with a free object.
KmallocFromSlab(n) ==
    /\ ~fault /\ BigEnough(n) # {} /\ Serving(n) # {}
    /\ LET c == Min(Serving(n)) IN
         /\ Usable(c) # {}
         /\ LET pg == slabs[c][Min(Usable(c))] IN
              /\ slab' = [slab EXCEPT ![pg] = Take(@)]
              /\ live' = live \cup {[slab |-> pg, index |-> slab[pg].free, size |-> n]}
    /\ UNCHANGED <<pageVars, page_slab, slabs, fault>>

\* kmem_getpages points every page of the block at the slab.
kmem_getpages(order) ==
    /\ PA!alloc_pages(order)
    /\ page_slab' = [d \in PA!Descr |->
                       IF d \in PA!Block(FirstPage(order), order) THEN FirstPage(order) ELSE page_slab[d]]

\* caos_kmalloc(n) that first has to add a slab (kmem_cache_grow).
KmallocGrow(n) ==
    /\ ~fault /\ BigEnough(n) # {} /\ Serving(n) # {}
    /\ LET c == Min(Serving(n))
           pg == FirstPage(GfpOrder[c]) IN
         /\ Usable(c) = {}
         /\ kmem_getpages(GfpOrder[c])
         /\ slab' = [p \in DOMAIN slab \cup {pg} |-> IF p = pg THEN Take(NewSlab(c)) ELSE slab[p]]
         /\ slabs' = [slabs EXCEPT ![c] = <<pg>> \o @]
         /\ live' = live \cup {[slab |-> pg, index |-> 0, size |-> n]}
    /\ UNCHANGED fault

\* No cache up to the end of the table can serve: kmalloc resets retry_count at
\* every cache, so it never gives up; it takes the empty descriptor behind the
\* last cache for a cache, whose list head is zero, and follows the pointer.
KmallocExhausted(n) ==
    /\ ~fault /\ BigEnough(n) # {} /\ Serving(n) = {}
    /\ fault' = TRUE
    /\ UNCHANGED <<pageVars, page_slab, slab, slabs, live>>

\* caos_kfree(objp) of object i of the slab at pg, past the early returns.
\* Callers free an object that is out, and once (Held in Next).
caos_kfree(pg, i) ==
    /\ ~fault
    /\ page_slab[pg] # NULL
    /\ slab[pg].inuse > 0
    /\ slab' = [slab EXCEPT ![pg] = Put(@, i)]
    /\ live' = { o \in live : o.slab # pg \/ o.index # i }
    /\ UNCHANGED <<pageVars, page_slab, slabs, fault>>

Empty(c) == { k \in DOMAIN slabs[c] : slab[slabs[c][k]].inuse = 0 }

\* Mutant: only the first page of the block forgets the slab.
kmem_freepages_FirstOnly(c, pg) ==
    /\ PA!__free_pages(pg, GfpOrder[c])
    /\ page_slab' = [page_slab EXCEPT ![pg] = NULL]

\* kmem_freepages: clear mem_map[].slab, then free_pages.
kmem_freepages(c, pg) ==
    /\ PA!__free_pages(pg, GfpOrder[c])
    /\ page_slab' = [d \in PA!Descr |->
                       IF d \in PA!Block(pg, GfpOrder[c]) THEN NULL ELSE page_slab[d]]

\* kmem_cache_shrink: the first slab of the list without objects is destroyed.
kmem_cache_shrink(c) ==
    /\ ~fault /\ Empty(c) # {}
    /\ LET k == Min(Empty(c))
           pg == slabs[c][k] IN
         /\ kmem_freepages(c, pg)
         /\ slab' = [p \in DOMAIN slab \ {pg} |-> slab[p]]
         /\ slabs' = [slabs EXCEPT ![c] = RemoveAt(@, k)]
    /\ UNCHANGED <<live, fault>>

\* Other users of the page allocator (percpu.c) take pages and give them back.
OtherAlloc == /\ ~fault
              /\ PA!alloc_pages(0)
              /\ UNCHANGED <<page_slab, slab, slabs, live, fault>>

OtherFree(pg) == /\ ~fault
                 /\ pg \notin DOMAIN slab
                 /\ PA!__free_pages(pg, 0)
                 /\ UNCHANGED <<page_slab, slab, slabs, live, fault>>

\* After the fault the exception handler halts the processor.
Halted == fault /\ UNCHANGED vars

Held(pg, i) == \E o \in live : o.slab = pg /\ o.index = i

Next == \/ \E n \in Requests : KmallocFromSlab(n) \/ KmallocGrow(n) \/ KmallocExhausted(n)
        \/ \E pg \in DOMAIN slab : \E i \in 0 .. Num[slab[pg].cache] - 1 :
              Held(pg, i) /\ caos_kfree(pg, i)
        \/ \E c \in Caches : kmem_cache_shrink(c)
        \/ OtherAlloc
        \/ \E pg \in PA!Zone : OtherFree(pg)
        \/ Halted

Spec == Init /\ [][Next]_vars

-----------------------------------------------------------------------------
Object(c) == 0 .. Num[c] - 1

\* The index the free list of a slab reaches after k links.
FreeList(s) ==
    LET at[k \in 0 .. Num[s.cache]] ==
            IF k = 0 THEN s.free
            ELSE IF at[k - 1] = BUFCTL_END THEN BUFCTL_END ELSE s.bufctl[at[k - 1]]
    IN  at

HeldIn(pg) == { o.index : o \in { x \in live : x.slab = pg } }

\* The bufctl list of every slab holds exactly the objects that no caller has,
\* each of them once, and inuse counts the others: kmalloc can never hand out
\* an object that is out, and can hand out every one that is not.
FreeListExact ==
    \A pg \in DOMAIN slab :
        LET s == slab[pg]
            at == FreeList(s)
            free == Num[s.cache] - s.inuse
        IN  /\ { at[k] : k \in 0 .. free - 1 } = Object(s.cache) \ HeldIn(pg)
            /\ at[free] = BUFCTL_END
            /\ s.inuse = Cardinality(HeldIn(pg))

\* An object that is out lives in a slab that still has its pages, and each of
\* those pages leads kfree to that slab.
LiveObjectsBacked ==
    \A o \in live : /\ o.slab \in DOMAIN slab /\ o.slab \in PA!Heads
                    /\ \A d \in PA!BlockOf(o.slab) : page_slab[d] = o.slab

\* mem_map[].slab is set exactly for the pages of the slabs on the lists, and
\* every slab is on one list, once: shrinking loses no block.
SlabsListed ==
    /\ \A c \in Caches : IsInjective(slabs[c])
    /\ \A c \in Caches : \A k \in DOMAIN slabs[c] : slab[slabs[c][k]].cache = c
    /\ DOMAIN slab = UNION { Range(slabs[c]) : c \in Caches }
    /\ \A d \in PA!Descr : page_slab[d] # NULL <=> \E pg \in DOMAIN slab : d \in PA!BlockOf(pg)

\* Pages, slabs and lists agree, whatever order slabs are grown, emptied and
\* destroyed in (kmem_cache_grow, kmem_cache_shrink, caos_kfree).
SlabsKept == LiveObjectsBacked /\ SlabsListed

-----------------------------------------------------------------------------
\* slab.c of the search in kmalloc: "it tries other caches which has bigger
\* object size".  An object that is out has the size its caller asked for.
ObjectBigEnough == \A o \in live : o.size <= ObjSize[slab[o.slab].cache]

\* slab.c: kmalloc that cannot get pages reports "<kmem_cache_grow fails>" and
\* returns NULL; it does not fault.
NoFault == ~fault
=============================================================================
