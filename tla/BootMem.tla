------------------------------ MODULE BootMem -------------------------------
(***************************************************************************)
(* Memory at boot: the bump allocator of page.c (bootmem_init and          *)
(* alloc_bootmem), its users in the order setup_arch calls them (gdt_init, *)
(* idt_init, paging_init, mem_map_init), and memory_init.                  *)
(*                                                                         *)
(* Page numbers are page frame numbers.  A table is the pages it was given *)
(* and the number of pages the code writes from its start.                 *)
(***************************************************************************)
EXTENDS PageWalk

CONSTANT GdtDescs              \* descriptors at 0x8000 up to the first zero one

\* setup.asm writes five descriptors.  It means to clear the page first, but clears
\* memory elsewhere (GdtCleared of Loader), and gdt_init copies up to the first
\* descriptor that is zero: what the BIOS left in the page has one.
ASSUME GdtAssumption == GdtDescs \in 5 .. 512

PAGE_SIZE == 4096
ENTRIES == 512                 \* 8-byte entries of a table page
SIZEOF_PAGE == 72              \* struct page
KERNEL_FIRST == 256            \* 0x100, kernel image at 1MB
HEAP_START == 512              \* 0x200, KERNEL_STACK_START
HEAP_END == 2048               \* 8MB, what setup.asm has mapped
MAX_PAGE_ORDER == 5

VARIABLES phy_mem_size,        \* in MB, from the boot parameters
          bootmem_page_index,  \* next free page of the boot heap
          table,               \* the tables, by name
          step,                \* next step of setup_arch
          halted,              \* alloc_bootmem gave up
          busy,                \* page ranges mem_map_init marks, as pairs
          free_pages           \* what memory_init counts

mem_vars == <<phy_mem_size, bootmem_page_index, table, step, halted, busy, free_pages>>

Ceil(a, b) == (a + b - 1) \div b

-----------------------------------------------------------------------------
\* Mutant: half of what setup.asm has mapped.
bootmem_page_max_Half == HEAP_END \div 2 - 1

\* bootmem_page_max of bootmem_init
bootmem_page_max == HEAP_END - 1

page_count == phy_mem_size * 256
AtLeastOne(n) == IF n = 0 THEN 1 ELSE n
pmd_count == AtLeastOne(phy_mem_size \div 1024)

\* Mutant: a page of PTEs taken to cover 4 MB.
pte_count_Half == phy_mem_size \div 4

pte_count == phy_mem_size \div 2

mem_map_page == Ceil(page_count * SIZEOF_PAGE + 11, PAGE_SIZE)

\* gdt_init copies 8 bytes for each descriptor.
GdtPages == Ceil(8 * GdtDescs, PAGE_SIZE)

\* The boot-time tables in the order they are allocated: pages asked for, and
\* pages written.
Request == <<
    [name |-> "gdt",        pages |-> 1,         written |-> GdtPages],
    [name |-> "tss",        pages |-> 1,         written |-> 1],
    [name |-> "idt",        pages |-> 1,         written |-> 1],
    [name |-> "pgd",        pages |-> 1,         written |-> 1],
    [name |-> "pud",        pages |-> 1,         written |-> 1],
    [name |-> "pmd",        pages |-> pmd_count, written |-> Ceil(pte_count, ENTRIES)],
    [name |-> "pte",        pages |-> pte_count, written |-> Ceil(page_count, ENTRIES)],
    [name |-> "pmd_reserv", pages |-> 1,         written |-> 1],
    [name |-> "pte_reserv", pages |-> 10,        written |-> 10],
    [name |-> "mem_map",    pages |-> mem_map_page,
                            written |-> Ceil(page_count * SIZEOF_PAGE, PAGE_SIZE)] >>

Init == /\ phy_mem_size = 0
        /\ bootmem_page_index = 0
        /\ table = << >>
        /\ step = 0
        /\ halted = FALSE
        /\ busy = {}
        /\ free_pages = 0

\* setup_arch reads the boot parameters and calls bootmem_init.
bootmem_init(size) ==
    /\ step = 0
    /\ phy_mem_size' = size
    /\ bootmem_page_index' = HEAP_START
    /\ step' = 1
    /\ UNCHANGED <<table, halted, busy, free_pages>>

\* The test of alloc_bootmem.
Fits(count) == bootmem_page_index + count < bootmem_page_max

\* alloc_bootmem for the next table, and the code that fills the table.  (The
\* check of paging_init for pte_count = 0 only stops machines below 2 MB.)
alloc_bootmem ==
    /\ ~halted /\ step \in DOMAIN Request
    /\ Fits(Request[step].pages)
    /\ bootmem_page_index' = bootmem_page_index + Request[step].pages
    /\ table' = Append(table, [name    |-> Request[step].name,
                               first   |-> bootmem_page_index,
                               last    |-> bootmem_page_index + Request[step].pages - 1,
                               touched |-> bootmem_page_index + Request[step].written - 1])
    /\ step' = step + 1
    /\ UNCHANGED <<phy_mem_size, halted, busy, free_pages>>

\* "FATAL ERROR: KERNEL HEAP EXHAUSTS"
HeapExhausts ==
    /\ ~halted /\ step \in DOMAIN Request
    /\ ~Fits(Request[step].pages)
    /\ halted' = TRUE
    /\ UNCHANGED <<phy_mem_size, bootmem_page_index, table, step, busy, free_pages>>

\* Mutant: the pages of the kernel image are not marked.
BusyRanges_NoKernel == {<<0, 0>>, <<159, 255>>, <<HEAP_START, bootmem_page_index - 1>>}

\* Page 0, BIOS and kernel image 0x9f .. 0x1ff, and the boot heap.
BusyRanges == {<<0, 0>>, <<159, 511>>, <<HEAP_START, bootmem_page_index - 1>>}

\* The end of mem_map_init.
MarkBusy == /\ ~halted /\ step = Len(Request) + 1
            /\ busy' = BusyRanges
            /\ step' = step + 1
            /\ UNCHANGED <<phy_mem_size, bootmem_page_index, table, halted, free_pages>>

IsBusy(p) == \E r \in busy : r[1] <= p /\ p <= r[2]

\* memory_init walks the list of the zone from page 0, whose own entry is the
\* list head and is not visited.  The zone reaches behind the boot heap: every
\* machine the Makefile names has more than HEAP_END pages.
BusyCount == LET n(r) == r[2] - r[1] + 1
                 ranges == { r \in busy : r[1] # 0 }
                 low  == CHOOSE r \in ranges : \A q \in ranges : r[1] <= q[1]
                 high == CHOOSE r \in ranges : \A q \in ranges : r[1] >= q[1]
             IN  n(low) + n(high)

memory_init ==
    /\ ~halted /\ step = Len(Request) + 2
    /\ free_pages' = page_count - 1 - BusyCount
    /\ step' = step + 1
    /\ UNCHANGED <<phy_mem_size, bootmem_page_index, table, halted, busy>>

MemNext == alloc_bootmem \/ HeapExhausts \/ MarkBusy \/ memory_init

Done == step = Len(Request) + 3

-----------------------------------------------------------------------------
\* The first page of a table.
At(name) == LET k == CHOOSE k \in DOMAIN table : table[k].name = name IN table[k].first

\* Mutant: the reserved area is hung one gigabyte too low.
RESERV_INDEX_Low == 2

RESERV_INDEX == 3

RESERV_FRAME == 1043456        \* 0xFEC00

\* What paging_init writes, in the order of its loops.  "pmd + l*PAGE_SIZE"
\* counts in entries: one PUD entry is eight pages behind the other.
KernelLoops ==
    << ZeroLoop(Entry(At("pgd"), 0), 256),
       Loop(Entry(At("pgd"), 256), 1, At("pud"), 0),
       ZeroLoop(Entry(At("pgd"), 257), 255),
       Loop(Entry(At("pud"), 0), pmd_count, At("pmd"), 8),
       Loop(Entry(At("pmd"), 0), pte_count, At("pte"), 1),
       Loop(Entry(At("pte"), 0), page_count, 0, 1),
       Loop(Entry(At("pud"), RESERV_INDEX), 1, At("pmd_reserv"), 0),
       Loop(Entry(At("pmd_reserv"), 0), 10, At("pte_reserv"), 1),
       Loop(Entry(At("pte_reserv"), 0), 512 * 10, RESERV_FRAME, 1) >>

-----------------------------------------------------------------------------
\* Each table is filled inside its own pages, which the boot loader has mapped:
\* no table reaches into one that is already there, and none into the next one
\* (alloc_bootmem and its callers).  The one exception is an odd number of
\* megabytes: pte_count is rounded down, and the loop over all page frames runs
\* half a page into pmd_reserv, which is filled after it (paging_init).
OddSize == phy_mem_size % 2 = 1
RunsOver(k) == OddSize /\ table[k].name = "pte"
TablesApart ==
    \A k \in DOMAIN table :
        /\ table[k].touched <= IF RunsOver(k) THEN table[k].last + 1 ELSE table[k].last
        /\ table[k].last < HEAP_END
        /\ \A j \in 1 .. k - 1 :
              \/ table[j].touched < table[k].first
              \/ RunsOver(j) /\ table[k].name = "pmd_reserv"

\* When the page allocator takes over, every page of the kernel image and of a
\* boot-time table is marked, free_pages is the number of the others
\* (memory_init), and the last page of mem_map holds the descriptors behind the
\* zone that the scan of __alloc_pages can reach (Slack of PageAlloc).  With an
\* odd number of megabytes it has three too few for a block of the largest order.
HandOver ==
    Done => /\ \A p \in KERNEL_FIRST .. bootmem_page_index - 1 : IsBusy(p)
            /\ \A k \in DOMAIN table : IsBusy(table[k].first) /\ IsBusy(table[k].touched)
            /\ ~IsBusy(bootmem_page_index)
            /\ free_pages = page_count - (1 + (512 - 159) + (bootmem_page_index - HEAP_START))
            /\ (mem_map_page * PAGE_SIZE - page_count * SIZEOF_PAGE) \div SIZEOF_PAGE
                   >= 2^MAX_PAGE_ORDER - (IF OddSize THEN 4 ELSE 1)
=============================================================================
