-------------------------------- MODULE Boot --------------------------------
(***************************************************************************)
(* The boot of the first processor from the floppy to the slab caches: the *)
(* loader (Loader), memory management from setup_arch to memory_init       *)
(* (BootMem), and the table of caches (CacheTable).                        *)
(***************************************************************************)
EXTENDS Loader, BootMem

CONSTANTS Names, Sizes, Aligns, cache_cache_max, DefaultNames

\* "physical memory size (MIN 16MB ~ MAX 512MB)" (src/Makefile)
ASSUME BuildsAssumption ==
    \A b \in Builds : b.sects \in 1 .. 109 /\ b.mem \in 16 .. 512

VARIABLE cache_cache

vars == <<loader_vars, mem_vars, cache_cache>>

Caches == INSTANCE CacheTable

BootInit == LoaderInit /\ Init /\ Caches!Init

\* The loader, then setup_arch and memory_init, then kmem_cache_init and the
\* callers of kmem_cache_create.
BootStep ==
    \/ LoaderNext /\ UNCHANGED <<mem_vars, cache_cache>>
    \/ /\ pc = "kernel"
       /\ bootmem_init(build.mem) \/ MemNext
       /\ UNCHANGED <<loader_vars, cache_cache>>
    \/ Done /\ Caches!CacheNext /\ UNCHANGED <<loader_vars, mem_vars>>

\* The loader has given up, or memory management has.
Stopped == (pc = "a20_die" \/ halted) /\ UNCHANGED vars

BootNext == BootStep \/ Stopped

BootSpec == BootInit /\ [][BootNext]_vars /\ WF_vars(BootStep)

-----------------------------------------------------------------------------
\* Every address the code uses is mapped where it expects it: the boot tables
\* map 8 MB at linear 0 and at PAGE_OFFSET; after paging_init PAGE_OFFSET + p is
\* page frame p for every whole 2 MB of memory and nothing behind it, the 20 MB
\* from 0xC0000000 on are the APICs and the BIOS from 0xFEC00000 on, and linear 0
\* is not mapped any more (set_PTE, paging_init).  With an odd number of megabytes
\* the last one is not mapped, although mem_map has its pages.
MemoryMapped ==
    /\ pc = "entry" =>
           \A top \in {0, 256} : \A p \in TableEdges(4) : Walk(SetupLoops, 144, top, p) = p
    /\ Done /\ cache_cache = << >> =>
           LET loops == KernelLoops
               map(p) == Walk(loops, At("pgd"), 256, p)
               mapped == page_count - (IF OddSize THEN 256 ELSE 0)
           IN  /\ \A p \in TableEdges(pte_count) : map(p) = p
               /\ map(mapped - 1) = mapped - 1
               /\ map(mapped) = NotPresent
               /\ \A p \in TableEdges(10) : map(786432 + p) = RESERV_FRAME + p
               /\ Walk(loops, At("pgd"), 0, 0) = NotPresent

\* A slab of every cache fits its pages (kmem_cache_create).
LayoutFits == Caches!LayoutFits

\* Every machine of 16 to 303 MB whose A20 line opens comes up with its slab
\* caches; every larger one up to the 512 MB of src/Makefile:16 stops, because its
\* boot-time tables do not fit below 8 MB (a20_try_loop, alloc_bootmem,
\* kmem_cache_init).
Boots == <>(\/ pc = "a20_die"
            \/ build.mem <= 303 /\ cache_cache # << >>
            \/ build.mem > 303 /\ halted)
=============================================================================
