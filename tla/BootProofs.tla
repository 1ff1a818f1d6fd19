----------------------------- MODULE BootProofs -----------------------------
(***************************************************************************)
(* Proofs about module Boot: the loader opens the A20 line and keeps its   *)
(* images apart, for every size of kernel; the boot-time tables keep to    *)
(* their pages and the page allocator takes over the rest, for every even  *)
(* size of memory; the page tables map what the code uses; and a slab fits *)
(* its pages, for every size of object.                                    *)
(***************************************************************************)
EXTENDS Boot, TLAPS

\* A step of the memory management or of the cache table leaves the loader
\* alone, and the other way round.
LEMMA Parts ==
    ASSUME [BootNext]_vars
    PROVE  /\ LoaderNext \/ UNCHANGED loader_vars
           /\ (pc = "kernel" /\ (bootmem_init(build.mem) \/ MemNext)) \/ UNCHANGED mem_vars
           /\ Caches!CacheNext \/ UNCHANGED cache_cache
  BY DEF BootNext, BootStep, Stopped, vars

-----------------------------------------------------------------------------
(* The A20 line                                                               *)

A20Inv == a20 \in BOOLEAN /\ A20Open

\* setup.asm runs only with the A20 line open, however many rounds it took and
\* whatever the hardware did in them (a20_try_loop).
THEOREM BootA20 == BootSpec => []A20Open
<1>1. BootInit => A20Inv
  BY DEF BootInit, LoaderInit, A20Inv, A20Open
<1>2. A20Inv /\ [BootNext]_vars => A20Inv'
  <2> SUFFICES ASSUME A20Inv, [BootNext]_vars PROVE A20Inv'
    OBVIOUS
  <2> USE DEF A20Inv, A20Open
  <2>1. CASE UNCHANGED loader_vars
    BY <2>1 DEF loader_vars
  <2>2. ASSUME NEW here, NEW base, NEW next, read_sectors(here, base, next),
               here \notin {"real", "protect", "long", "entry", "a20_die"},
               next \notin {"real", "protect", "long", "entry", "a20_die"}
        PROVE  A20Inv'
    BY <2>2 DEF read_sectors
  <2>3. CASE NextImage
    BY <2>3 DEF NextImage
  <2>4. CASE a20_none \/ a20_bios \/ a20_kbc
    BY <2>4 DEF a20_none, a20_bios, a20_kbc, TryA20, a20_test
  <2>5. CASE a20_fast
    BY <2>5 DEF a20_fast, a20_test, AfterRound
  <2>6. CASE RealMode \/ Protect \/ CopyKernel \/ EnterKernel
    BY <2>6 DEF RealMode, Protect, CopyKernel, EnterKernel
  <2> QED
    BY <2>1, <2>2, <2>3, <2>4, <2>5, <2>6, Parts DEF LoaderNext
<1> QED
  BY <1>1, <1>2, PTL DEF BootSpec, A20Inv

-----------------------------------------------------------------------------
(* The boot heap                                                              *)

\* The memory sizes the boot-time tables are made for: whole pages of PTEs.
EvenMemory == \A b \in Builds : b.mem % 2 = 0

\* What is asked for covers what is written.
LEMMA RequestFits ==
    ASSUME NEW s \in DOMAIN Request, phy_mem_size \in 16 .. 512, phy_mem_size % 2 = 0
    PROVE  /\ Request[s].pages \in Nat \ {0} /\ Request[s].written \in Nat \ {0}
           /\ Request[s].written <= Request[s].pages
<1>1. PICK h \in 8 .. 256 : phy_mem_size = 2 * h
  OBVIOUS
<1>2. page_count = 512 * h /\ pte_count = h /\ h \div 512 = 0
  BY <1>1 DEF page_count, pte_count
<1>3. pmd_count = 1 /\ Ceil(pte_count, ENTRIES) = 1
  BY <1>1, <1>2 DEF pmd_count, AtLeastOne, Ceil, ENTRIES
<1>4. Ceil(page_count, ENTRIES) = h
  BY <1>2 DEF Ceil, ENTRIES
<1>5. /\ mem_map_page = 9 * h + 1
      /\ Ceil(page_count * SIZEOF_PAGE, PAGE_SIZE) = 9 * h
  BY <1>2 DEF mem_map_page, Ceil, SIZEOF_PAGE, PAGE_SIZE
<1>6. s \in 1 .. 10
  BY DEF Request
<1>7. CASE s \in {1, 2, 3, 4, 5}
  <2>1. GdtPages = 1
    BY GdtAssumption DEF GdtPages, Ceil, PAGE_SIZE
  <2> QED
    BY <1>7, <2>1 DEF Request
<1>8. CASE s \in {6, 7, 8, 9, 10}
  BY <1>2, <1>3, <1>4, <1>5, <1>8 DEF Request
<1> QED
  BY <1>6, <1>7, <1>8

\* The ten tables.
LEMMA RequestShape == Len(Request) = 10 /\ DOMAIN Request = 1 .. 10
<1>1. Len(Request) = 10
  BY DEF Request
<1>2. DOMAIN Request = 1 .. 10
  BY DEF Request
<1> QED
  BY <1>1, <1>2

\* The boot heap: tables one behind the other, up to bootmem_page_index.
Placed(t, limit) == HEAP_START <= t.first /\ t.first <= t.touched /\ t.touched <= t.last
                    /\ t.last < limit /\ t.last < HEAP_END
TableList == \A k \in 1 .. Len(table) :
                /\ {table[k].first, table[k].last, table[k].touched} \subseteq Int
                /\ Placed(table[k], bootmem_page_index)
                /\ \A j \in 1 .. k - 1 : table[j].touched < table[k].first

TableSeq == Len(table) \in Nat /\ table \in Seq({table[k] : k \in 1 .. Len(table)})
HeapStep == /\ build \in Builds /\ step \in 0 .. 13 /\ bootmem_page_index \in Nat
            /\ step > 0 => /\ phy_mem_size \in 16 .. 512 /\ bootmem_page_index >= HEAP_START
                           /\ phy_mem_size % 2 = 0
            /\ step = 0 => table = << >>
HeapMarks == /\ step > 11 => busy = BusyRanges
             /\ step > 12 => free_pages = page_count - 1 - BusyCount

HeapInv == HeapStep /\ HeapMarks /\ TableSeq /\ TableList

\* The next table is placed behind the others.
LEMMA HeapAlloc ==
    ASSUME HeapInv, alloc_bootmem, build' = build
    PROVE  HeapInv'
<1> DEFINE r == Request[step]
           t == [name |-> r.name, first |-> bootmem_page_index,
                 last |-> bootmem_page_index + r.pages - 1,
                 touched |-> bootmem_page_index + r.written - 1]
           N == Len(table)
<1>1. /\ step \in 1 .. 10 /\ step' = step + 1 /\ phy_mem_size' = phy_mem_size
      /\ bootmem_page_index' = bootmem_page_index + r.pages
      /\ bootmem_page_index + r.pages < HEAP_END - 1 /\ table' = Append(table, t)
  BY RequestShape DEF alloc_bootmem, Fits, bootmem_page_max
<1>2. /\ phy_mem_size \in 16 .. 512 /\ bootmem_page_index \in Nat
      /\ bootmem_page_index >= HEAP_START /\ N \in Nat
      /\ phy_mem_size % 2 = 0
  <2>1. step > 0
    BY <1>1
  <2> QED
    BY <2>1 DEF HeapInv, HeapStep, TableSeq
<1>4. r.pages \in Nat \ {0} /\ r.written \in Nat \ {0} /\ r.written <= r.pages
  BY <1>1, <1>2, RequestFits, RequestShape, ZenonT(30)
<1> HIDE DEF r
<1>5. /\ t.first = bootmem_page_index /\ t.last = bootmem_page_index + r.pages - 1
      /\ t.touched = bootmem_page_index + r.written - 1
  OBVIOUS
<1> HIDE DEF t
<1>6. /\ {t.first, t.last, t.touched} \subseteq Int /\ Placed(t, bootmem_page_index')
  <2>1. t.first \in Int /\ t.last \in Int /\ t.touched \in Int
    BY <1>2, <1>4, <1>5
  <2>2. HEAP_START <= t.first /\ t.first <= t.touched /\ t.touched <= t.last
    BY <1>2, <1>4, <1>5 DEF HEAP_START
  <2>3. t.last < bootmem_page_index' /\ t.last < HEAP_END
    BY <1>1, <1>2, <1>4, <1>5 DEF HEAP_END
  <2> QED
    BY <2>1, <2>2, <2>3 DEF Placed
<1>7. table \in Seq({table[k] : k \in 1 .. N})
  BY DEF HeapInv, TableSeq
<1>8. /\ Len(table') = N + 1 /\ table'[N + 1] = t
      /\ \A k \in 1 .. N : table'[k] = table[k]
      /\ table' \in Seq({table'[k] : k \in 1 .. Len(table')})
  <2>1. PICK S : S = {table[k] : k \in 1 .. N} /\ table \in Seq(S)
    BY <1>7
  <2>2. table \in Seq(S \cup {t}) /\ t \in S \cup {t}
    BY <2>1
  <2>3. /\ Len(table') = N + 1 /\ table'[N + 1] = t /\ \A k \in 1 .. N : table'[k] = table[k]
        /\ table' \in Seq(S \cup {t})
    BY <1>1, <1>2, <2>2
  <2>4. S \cup {t} = {table'[k] : k \in 1 .. Len(table')}
    <3>1. \A k : k \in 1 .. N + 1 <=> k \in 1 .. N \/ k = N + 1
      BY <1>2
    <3> QED
      BY <2>1, <2>3, <3>1
  <2> QED
    BY <2>3, <2>4
<1>9. ASSUME NEW k \in 1 .. N
      PROVE  /\ {table'[k].first, table'[k].last, table'[k].touched} \subseteq Int
             /\ Placed(table'[k], bootmem_page_index')
             /\ table'[k].touched < bootmem_page_index
             /\ \A j \in 1 .. k - 1 : table'[j].touched < table'[k].first
  <2>1. /\ {table[k].first, table[k].last, table[k].touched} \subseteq Int
        /\ Placed(table[k], bootmem_page_index)
        /\ \A j \in 1 .. k - 1 : table[j].touched < table[k].first
    BY DEF HeapInv, TableList
  <2>2. \A j \in 1 .. k - 1 : j \in 1 .. N
    BY <1>2
  <2>3. Placed(table[k], bootmem_page_index') /\ table[k].touched < bootmem_page_index
    BY <1>1, <1>2, <1>4, <2>1 DEF Placed
  <2> QED
    BY <1>8, <2>1, <2>2, <2>3
<1>10. TableList'
  <2>1. ASSUME NEW k \in 1 .. N + 1
        PROVE  /\ {table'[k].first, table'[k].last, table'[k].touched} \subseteq Int
               /\ Placed(table'[k], bootmem_page_index')
               /\ \A j \in 1 .. k - 1 : table'[j].touched < table'[k].first
    <3>1. CASE k \in 1 .. N
      BY <1>9, <3>1
    <3>2. CASE k = N + 1
      <4>1. \A j \in 1 .. k - 1 : table'[j].touched < bootmem_page_index
        BY <1>2, <1>9, <3>2
      <4> QED
        BY <1>5, <1>6, <1>8, <3>2, <4>1 DEF t
    <3> QED
      BY <1>2, <3>1, <3>2
  <2> QED
    BY <1>8, <2>1 DEF TableList
<1> QED
  <2>1. Len(table') \in Nat /\ bootmem_page_index' \in Nat /\ bootmem_page_index' >= HEAP_START
    BY SMTT(20), <1>1, <1>2, <1>4, <1>8 DEF HEAP_START
  <2>2. step' \in 2 .. 11
    BY <1>1
  <2>3. HeapStep'
    BY <1>1, <1>2, <2>1, <2>2 DEF HeapInv, HeapStep
  <2>4. HeapMarks'
    BY <2>2 DEF HeapMarks
  <2>5. TableSeq'
    BY <1>8, <2>1 DEF TableSeq
  <2> QED
    BY <1>10, <2>3, <2>4, <2>5 DEF HeapInv

\* The ranges mem_map_init marks, counted.
LEMMA Marked ==
    ASSUME busy = BusyRanges, bootmem_page_index \in Nat, bootmem_page_index >= HEAP_START
    PROVE  /\ BusyCount = 353 + (bootmem_page_index - HEAP_START)
           /\ \A p \in KERNEL_FIRST .. bootmem_page_index - 1 : IsBusy(p)
           /\ ~IsBusy(bootmem_page_index)
<1> DEFINE low == <<159, 511>>
           heap == <<HEAP_START, bootmem_page_index - 1>>
           zero == <<0, 0>>
           ranges == {q \in busy : q[1] # 0}
           n(q) == q[2] - q[1] + 1
<1>1. /\ low[1] = 159 /\ low[2] = 511 /\ heap[1] = 512 /\ heap[2] = bootmem_page_index - 1
      /\ zero[1] = 0 /\ zero[2] = 0
  BY DEF HEAP_START
<1>2. busy = {zero, low, heap}
  BY DEF BusyRanges
<1> HIDE DEF low, heap, zero
<1>3. ranges = {low, heap}
  BY <1>1, <1>2
<1>4. (CHOOSE q \in ranges : \A o \in ranges : q[1] <= o[1]) = low
  <2>1. \A q \in ranges : (\A o \in ranges : q[1] <= o[1]) <=> q = low
    BY <1>1, <1>3
  <2>2. low \in ranges
    BY <1>3
  <2> QED
    BY <2>1, <2>2
<1>5. (CHOOSE q \in ranges : \A o \in ranges : q[1] >= o[1]) = heap
  <2>1. \A q \in ranges : (\A o \in ranges : q[1] >= o[1]) <=> q = heap
    BY <1>1, <1>3
  <2>2. heap \in ranges
    BY <1>3
  <2> QED
    BY <2>1, <2>2
<1>6. BusyCount = n(low) + n(heap)
  BY <1>4, <1>5 DEF BusyCount
<1>7. BusyCount = 353 + (bootmem_page_index - HEAP_START)
  BY <1>1, <1>6 DEF HEAP_START
<1>8. ASSUME NEW p \in KERNEL_FIRST .. bootmem_page_index - 1 PROVE IsBusy(p)
  <2>1. CASE p <= 511
    BY <1>1, <1>2, <2>1 DEF IsBusy, KERNEL_FIRST
  <2>2. CASE p > 511
    BY <1>1, <1>2, <2>2 DEF IsBusy, KERNEL_FIRST
  <2> QED
    BY <2>1, <2>2 DEF KERNEL_FIRST
<1>9. ~IsBusy(bootmem_page_index)
  BY <1>1, <1>2 DEF IsBusy, HEAP_START
<1> QED
  BY <1>7, <1>8, <1>9

\* What the invariant is about.
heapVars == <<build, phy_mem_size, bootmem_page_index, table, step, busy, free_pages>>

\* Steps that change none of it.
LEMMA HeapSame == ASSUME HeapInv, UNCHANGED heapVars PROVE HeapInv'
<1>1. HeapStep'
  BY DEF HeapInv, HeapStep, heapVars
<1>2. HeapMarks'
  BY DEF HeapInv, HeapMarks, page_count, BusyCount, BusyRanges, heapVars
<1>3. TableSeq'
  BY DEF HeapInv, TableSeq, heapVars
<1>4. TableList'
  BY DEF HeapInv, TableList, heapVars
<1> QED
  BY <1>1, <1>2, <1>3, <1>4 DEF HeapInv

\* Every step of setup_arch and memory_init.
LEMMA HeapNext ==
    ASSUME HeapInv, bootmem_init(build.mem) \/ MemNext, build' = build, EvenMemory
    PROVE  HeapInv'
<1> USE DEF HeapInv
<1>1. CASE bootmem_init(build.mem)
  <2>1. build.mem \in 16 .. 512 /\ build.mem % 2 = 0
    <3>1. build \in Builds
      BY DEF HeapStep
    <3> QED
      BY <3>1, BuildsAssumption DEF EvenMemory
  <2>2. /\ step = 0 /\ step' = 1 /\ phy_mem_size' = build.mem /\ bootmem_page_index' = HEAP_START
        /\ table = << >> /\ table' = << >>
    BY <1>1 DEF bootmem_init, HeapStep
  <2>3. HeapStep' /\ HeapMarks'
    BY <2>1, <2>2 DEF HeapStep, HeapMarks, HEAP_START
  <2>4. TableSeq' /\ TableList'
    BY <2>2 DEF TableSeq, TableList
  <2> QED
    BY <2>3, <2>4
<1>2. CASE alloc_bootmem
  BY <1>2, HeapAlloc
<1>3. CASE HeapExhausts
  <2>1. UNCHANGED <<build, phy_mem_size, bootmem_page_index, table, step, busy, free_pages>>
    BY <1>3 DEF HeapExhausts
  <2> QED
    BY <2>1, HeapSame DEF heapVars
<1>4. CASE MarkBusy
  <2>1. /\ step = 11 /\ step' = 12 /\ busy' = BusyRanges
        /\ UNCHANGED <<build, phy_mem_size, bootmem_page_index, table>>
    BY <1>4, RequestShape DEF MarkBusy
  <2>3. HeapStep'
    BY <2>1 DEF HeapStep
  <2>4. HeapMarks' /\ TableSeq' /\ TableList'
    BY <2>1 DEF HeapMarks, TableSeq, TableList, BusyRanges
  <2> QED
    BY <2>3, <2>4
<1>5. CASE memory_init
  <2>1. /\ step = 12 /\ step' = 13 /\ free_pages' = page_count - 1 - BusyCount
        /\ UNCHANGED <<build, phy_mem_size, bootmem_page_index, table, busy>>
    BY <1>5, RequestShape DEF memory_init
  <2>3. HeapStep'
    BY <2>1 DEF HeapStep
  <2>4. HeapMarks' /\ TableSeq' /\ TableList'
    BY <2>1 DEF HeapMarks, TableSeq, TableList, BusyRanges, BusyCount, page_count
  <2> QED
    BY <2>3, <2>4
<1> QED
  BY <1>1, <1>2, <1>3, <1>4, <1>5 DEF MemNext

\* The inductive invariant of the boot heap.
THEOREM BootHeap == ASSUME EvenMemory PROVE BootSpec => []HeapInv
<1>1. BootInit => HeapInv
  <2> SUFFICES ASSUME BootInit PROVE HeapInv
    OBVIOUS
  <2>1. step = 0 /\ table = << >> /\ bootmem_page_index = 0 /\ build \in Builds
    BY DEF BootInit, LoaderInit, Init
  <2>2. HeapStep /\ HeapMarks
    BY <2>1 DEF HeapStep, HeapMarks
  <2>3. TableSeq /\ TableList
    BY <2>1 DEF TableSeq, TableList
  <2> QED
    BY <2>2, <2>3 DEF HeapInv
<1>2. HeapInv /\ [BootNext]_vars => HeapInv'
  <2> SUFFICES ASSUME HeapInv, [BootNext]_vars PROVE HeapInv'
    OBVIOUS
  <2>1. build' = build
    BY Parts DEF LoaderNext, loader_vars, read_sectors, NextImage, a20_none, a20_bios, a20_kbc,
       TryA20, a20_fast, RealMode, Protect, CopyKernel, EnterKernel
  <2>2. CASE UNCHANGED mem_vars
    BY <2>1, <2>2, HeapSame DEF heapVars, mem_vars
  <2> QED
    BY <2>1, <2>2, Parts, HeapNext
<1> QED
  BY <1>1, <1>2, PTL DEF BootSpec

\* The boot-time tables stay in their pages and in what setup.asm has mapped, for
\* every even size of memory up to 512 MB, whether or not the heap is large enough
\* for all of them (alloc_bootmem, paging_init, mem_map_init).
THEOREM BootTablesApart == ASSUME EvenMemory PROVE BootSpec => []TablesApart
<1>1. HeapInv => TablesApart
  <2> SUFFICES ASSUME HeapInv PROVE TablesApart
    OBVIOUS
  <2>1. CASE DOMAIN table = {}
    BY <2>1 DEF TablesApart
  <2>2. CASE DOMAIN table # {}
    <3>1. step > 0 /\ DOMAIN table = 1 .. Len(table)
      BY <2>2 DEF HeapInv, HeapStep, TableSeq
    <3>2. \A k : ~RunsOver(k)
      BY <3>1 DEF HeapInv, HeapStep, RunsOver, OddSize
    <3>3. ASSUME NEW k \in DOMAIN table
          PROVE  /\ table[k].touched <= table[k].last
                 /\ table[k].last < HEAP_END
                 /\ \A j \in 1 .. k - 1 : table[j].touched < table[k].first
      BY <3>1 DEF HeapInv, TableList, Placed
    <3> QED
      BY <3>2, <3>3, Zenon DEF TablesApart
  <2> QED
    BY <2>1, <2>2
<1> QED
  BY <1>1, BootHeap, PTL

\* When memory_init is through, all pages in use are marked, the others are
\* counted, and mem_map has the slack the page scan needs, for every even size of
\* memory (mem_map_init, memory_init).
THEOREM BootHandOver == ASSUME EvenMemory PROVE BootSpec => []HandOver
<1>1. HeapInv => HandOver
  <2> SUFFICES ASSUME HeapInv, Done PROVE HandOver
    BY DEF HandOver
  <2>1. step = 13
    BY RequestShape DEF Done
  <2>2. /\ bootmem_page_index \in Nat /\ bootmem_page_index >= HEAP_START /\ busy = BusyRanges
        /\ phy_mem_size \in 16 .. 512 /\ phy_mem_size % 2 = 0
        /\ free_pages = page_count - 1 - BusyCount
    BY <2>1 DEF HeapInv, HeapStep, HeapMarks
  <2>3. /\ BusyCount = 353 + (bootmem_page_index - HEAP_START)
        /\ \A p \in KERNEL_FIRST .. bootmem_page_index - 1 : IsBusy(p)
        /\ ~IsBusy(bootmem_page_index)
    BY <2>2, Marked
  <2>4. ASSUME NEW k \in DOMAIN table PROVE IsBusy(table[k].first) /\ IsBusy(table[k].touched)
    <3>1. k \in 1 .. Len(table)
      BY DEF HeapInv, TableSeq
    <3>2. /\ table[k].first \in Int /\ table[k].touched \in Int /\ table[k].last \in Int
          /\ HEAP_START <= table[k].first /\ table[k].first <= table[k].touched
          /\ table[k].touched <= table[k].last /\ table[k].last < bootmem_page_index
      BY <3>1 DEF HeapInv, TableList, Placed
    <3> QED
      BY <2>2, <2>3, <3>2 DEF HEAP_START, KERNEL_FIRST
  <2>5. PICK h \in 8 .. 256 : phy_mem_size = 2 * h
    BY <2>2
  <2>6. page_count = 512 * h /\ mem_map_page = 9 * h + 1
    BY <2>5 DEF page_count, mem_map_page, Ceil, SIZEOF_PAGE, PAGE_SIZE
  <2>7. (mem_map_page * PAGE_SIZE - page_count * SIZEOF_PAGE) \div SIZEOF_PAGE
            >= 2^MAX_PAGE_ORDER - (IF OddSize THEN 4 ELSE 1)
    BY <2>2, <2>6 DEF SIZEOF_PAGE, PAGE_SIZE, MAX_PAGE_ORDER, OddSize
  <2>8. free_pages = page_count - (1 + (512 - 159) + (bootmem_page_index - HEAP_START))
    BY <2>2, <2>3, <2>6 DEF HEAP_START
  <2> QED
    BY <2>3, <2>4, <2>7, <2>8 DEF HandOver
<1> QED
  BY <1>1, BootHeap, PTL

-----------------------------------------------------------------------------
(* The images in low memory                                                   *)

\* What a block holds, and that n sectors from first on are in the blocks from
\* base on.
Holds(b, value) == b \in DOMAIN mem /\ mem[b] = value
SectorsAt(base, first, n) == \A k \in 1 .. n : Holds(base + k - 1, first + k - 1)

SetupRead == SectorsAt(SETUP_AT, 1, SETUP_SECT)
KernelRead == SectorsAt(KERNEL_AT, SETUP_SECT + 1, build.sects)
TablesBuilt == \A b \in TABLES_AT .. TABLES_AT + 55 : Holds(b, TABLES)
Copied == \A k \in 1 .. build.sects : image[k] = SETUP_SECT + k

A20Points == {"a20_none", "a20_bios", "a20_kbc", "a20_fast", "a20_die"}

\* How far the loader has come, and what low memory holds by then.
ReadingSetup ==
    /\ Holds(STACK_AT, STACK)
    /\ si \in 0 .. 7 /\ cx = 8 - si /\ current_sect = 1 + si
    /\ SectorsAt(SETUP_AT, 1, si)
BetweenImages == Holds(STACK_AT, STACK) /\ current_sect = 9 /\ SetupRead
ReadingKernel ==
    /\ Holds(STACK_AT, STACK)
    /\ si \in 0 .. 108 /\ si < build.sects /\ cx = build.sects - si /\ current_sect = 9 + si
    /\ SetupRead /\ SectorsAt(KERNEL_AT, 9, si)
BothRead == SetupRead /\ KernelRead
Ready == Copied /\ Holds(GDT_AT, GDT) /\ Holds(PARAMS_AT, PARAMS) /\ TablesBuilt

ImageInv ==
    /\ build \in Builds
    /\ \/ pc = "read_setup" /\ ReadingSetup
       \/ pc = "next_image" /\ BetweenImages
       \/ pc = "read_kernel" /\ ReadingKernel
       \/ pc \in A20Points \cup {"real"} /\ BothRead
       \/ pc = "protect" /\ BothRead /\ Holds(GDT_AT, GDT)
       \/ pc = "long" /\ BothRead /\ Holds(GDT_AT, GDT) /\ TablesBuilt
       \/ pc = "entry" /\ Ready
       \/ pc = "kernel"

\* Fill writes the blocks it is told to, below the ROM, and no others.
LEMMA FillAt ==
    ASSUME NEW m, NEW blocks, NEW value, NEW b,
           b \in DOMAIN m \/ (b \in blocks /\ b < ROM_AT)
    PROVE  /\ b \in DOMAIN Fill(m, blocks, value)
           /\ Fill(m, blocks, value)[b] = IF b \in blocks THEN value ELSE m[b]
  BY DEF Fill

\* Cylinder, head and sector number name the sector they were computed from, and
\* the byte that counts sectors does not wrap.
LEMMA SectorRead ==
    ASSUME current_sect \in 0 .. 254
    PROVE  ReadSector = current_sect /\ IncByte(current_sect) = current_sect + 1
<1>1. PICK n \in Int : n = current_sect /\ n >= 0 /\ n <= 254
  OBVIOUS
<1>2. PICK q \in Int : q = n \div 18
  OBVIOUS
<1>3. n = q * 18 + (n % 18)
  BY <1>1, <1>2
<1>4. q = (q \div 2) * 2 + (q % 2)
  BY <1>2
<1>5. ReadSector = ((q \div 2) * 2 + (q % 2)) * 18 + (n % 18)
  BY <1>1, <1>2 DEF ReadSector, BiosSector, sect_per_track, head_per_drv
<1>6. ReadSector = n
  BY <1>3, <1>4, <1>5
<1>7. IncByte(n) = n + 1
  BY <1>1 DEF IncByte
<1> QED
  BY <1>1, <1>6, <1>7

\* One sector is read: it joins those before it, the stack stays and so does
\* every other block.
LEMMA ReadOne ==
    ASSUME NEW here, NEW next, NEW base \in Int, NEW first \in Int, NEW n \in Int,
           base >= 0, first >= 0, n >= 0, n <= 126, first + n <= 254, base + n < STACK_AT,
           n = si, current_sect = first + n, SectorsAt(base, first, n),
           Holds(STACK_AT, STACK), read_sectors(here, base, next)
    PROVE  /\ SectorsAt(base, first, n + 1)' /\ Holds(STACK_AT, STACK)'
           /\ \A b, v : Holds(b, v) /\ b # base + n => Holds(b, v)'
           /\ current_sect' = first + n + 1 /\ si' = n + 1 /\ cx' = cx - 1
           /\ pc' = IF cx' = 0 THEN next ELSE here
           /\ build' = build
<1>1. /\ mem' = Fill(mem, {base + n}, ReadSector)
      /\ current_sect' = IncByte(current_sect) /\ si' = (si + 1) % 128 /\ cx' = cx - 1
      /\ pc' = IF mem'[STACK_AT] # STACK THEN "astray" ELSE IF cx' = 0 THEN next ELSE here
      /\ build' = build
  BY DEF read_sectors
<1>2. current_sect \in 0 .. 254
  OBVIOUS
<1>3. ReadSector = first + n /\ current_sect' = first + n + 1
  BY <1>1, <1>2, SectorRead
<1>4. si' = n + 1
  BY <1>1
<1>5. ASSUME NEW b, NEW v, Holds(b, v), b # base + n PROVE Holds(b, v)'
  BY <1>1, <1>5, FillAt DEF Holds
<1>6. Holds(STACK_AT, STACK)'
  BY <1>5 DEF STACK_AT
<1>7. Holds(base + n, first + n)'
  <2>1. base + n \in {base + n} /\ base + n < ROM_AT
    BY DEF STACK_AT, ROM_AT
  <2> QED
    BY <1>1, <1>3, <2>1, FillAt DEF Holds
<1>8. SectorsAt(base, first, n + 1)'
  <2>1. ASSUME NEW k \in 1 .. n + 1 PROVE Holds(base + k - 1, first + k - 1)'
    <3>1. CASE k = n + 1
      <4>1. base + k - 1 = base + n /\ first + k - 1 = first + n
        BY <3>1
      <4> QED
        BY <1>7, <4>1
    <3>2. CASE k # n + 1
      <4>1. k \in 1 .. n /\ base + k - 1 # base + n
        BY <3>2
      <4>2. Holds(base + k - 1, first + k - 1)
        BY <4>1 DEF SectorsAt
      <4> QED
        BY <1>5, <4>1, <4>2
    <3> QED
      BY <3>1, <3>2
  <2> QED
    BY <2>1 DEF SectorsAt
<1>9. pc' = IF cx' = 0 THEN next ELSE here
  BY <1>1, <1>6 DEF Holds
<1> QED
  BY <1>1, <1>3, <1>4, <1>5, <1>6, <1>8, <1>9

\* The first sectors of setup.img are followed by the rest.
LEMMA ReadSetup ==
    ASSUME build \in Builds, pc = "read_setup", ReadingSetup,
           read_sectors("read_setup", SETUP_AT, "next_image")
    PROVE  ImageInv'
<1>1. PICK n \in Int : n = si
  BY DEF ReadingSetup
<1>2. /\ n >= 0 /\ n <= 7 /\ cx = 8 - n /\ current_sect = 1 + n
      /\ Holds(STACK_AT, STACK) /\ SectorsAt(SETUP_AT, 1, n)
  BY <1>1 DEF ReadingSetup
<1>3. SETUP_AT \in Int /\ SETUP_AT >= 0 /\ SETUP_AT + n < STACK_AT
  BY <1>2 DEF SETUP_AT, STACK_AT
<1>4. /\ SectorsAt(SETUP_AT, 1, n + 1)' /\ Holds(STACK_AT, STACK)'
      /\ current_sect' = 1 + n + 1 /\ si' = n + 1 /\ cx' = cx - 1
      /\ pc' = IF cx' = 0 THEN "next_image" ELSE "read_setup"
      /\ build' = build
  BY <1>1, <1>2, <1>3, ReadOne
<1>5. CASE n = 7
  <2>1. pc' = "next_image" /\ current_sect' = 9
    BY <1>2, <1>4, <1>5
  <2>2. SectorsAt(SETUP_AT, 1, SETUP_SECT)'
    BY <1>4, <1>5 DEF SectorsAt, SETUP_SECT
  <2> QED
    BY <1>4, <2>1, <2>2 DEF ImageInv, BetweenImages, SetupRead
<1>6. CASE n # 7
  <2>1. pc' = "read_setup" /\ si' \in 0 .. 7 /\ cx' = 8 - si' /\ current_sect' = 1 + si'
    BY <1>2, <1>4, <1>6
  <2>2. SectorsAt(SETUP_AT, 1, si)'
    BY <1>4 DEF SectorsAt
  <2> QED
    BY <1>4, <2>1, <2>2 DEF ImageInv, ReadingSetup
<1> QED
  BY <1>5, <1>6

\* The kernel is read behind setup.img, and setup.img stays.
LEMMA ReadKernel ==
    ASSUME build \in Builds, pc = "read_kernel", ReadingKernel,
           read_sectors("read_kernel", KERNEL_AT, "a20_none")
    PROVE  ImageInv'
<1>1. PICK n \in Int : n = si
  BY DEF ReadingKernel
<1>2. PICK s \in Int : s = build.sects /\ s <= 109
  BY BuildsAssumption
<1>3. /\ n >= 0 /\ n <= 108 /\ n < s /\ cx = s - n /\ current_sect = 9 + n
      /\ Holds(STACK_AT, STACK) /\ SectorsAt(KERNEL_AT, 9, n) /\ SetupRead
  BY <1>1, <1>2 DEF ReadingKernel
<1>4. KERNEL_AT \in Int /\ KERNEL_AT >= 0 /\ KERNEL_AT + n < STACK_AT
  BY <1>3 DEF KERNEL_AT, STACK_AT
<1>5. /\ SectorsAt(KERNEL_AT, 9, n + 1)' /\ Holds(STACK_AT, STACK)'
      /\ \A b, v : Holds(b, v) /\ b # KERNEL_AT + n => Holds(b, v)'
      /\ current_sect' = 9 + n + 1 /\ si' = n + 1 /\ cx' = cx - 1
      /\ pc' = IF cx' = 0 THEN "a20_none" ELSE "read_kernel"
      /\ build' = build
  BY <1>1, <1>3, <1>4, ReadOne
<1>6. SetupRead'
  <2>1. ASSUME NEW k \in 1 .. 8 PROVE Holds(SETUP_AT + k - 1, 1 + k - 1)'
    <3>1. SETUP_AT + k - 1 # KERNEL_AT + n
      BY <1>3 DEF SETUP_AT, KERNEL_AT
    <3>2. Holds(SETUP_AT + k - 1, 1 + k - 1)
      BY <1>3 DEF SetupRead, SectorsAt, SETUP_SECT
    <3> QED
      BY <1>5, <3>1, <3>2
  <2> QED
    BY <2>1 DEF SetupRead, SectorsAt, SETUP_SECT
<1>7. CASE n + 1 = s
  <2>1. pc' = "a20_none"
    BY <1>3, <1>5, <1>7
  <2>2. SectorsAt(KERNEL_AT, SETUP_SECT + 1, build.sects)'
    BY <1>2, <1>5, <1>7 DEF SectorsAt, SETUP_SECT
  <2> QED
    BY <1>5, <1>6, <2>1, <2>2 DEF ImageInv, BothRead, KernelRead, A20Points
<1>8. CASE n + 1 # s
  <2>1. /\ pc' = "read_kernel" /\ si' \in 0 .. 108 /\ si' < build'.sects
        /\ cx' = build'.sects - si' /\ current_sect' = 9 + si'
    BY <1>2, <1>3, <1>5, <1>8
  <2>2. SectorsAt(KERNEL_AT, 9, si)'
    BY <1>5 DEF SectorsAt
  <2> QED
    BY <1>5, <1>6, <2>1, <2>2 DEF ImageInv, ReadingKernel
<1> QED
  BY <1>7, <1>8

\* A step that leaves the blocks of setup.img and of the kernel alone.
LEMMA StillRead ==
    ASSUME build \in Builds, BothRead, build' = build,
           \A b, v : Holds(b, v) /\ b \in SETUP_AT .. STACK_AT - 1 => Holds(b, v)'
    PROVE  BothRead'
<1>1. ASSUME NEW k \in 1 .. 8 PROVE Holds(SETUP_AT + k - 1, 1 + k - 1)'
  <2>1. SETUP_AT + k - 1 \in SETUP_AT .. STACK_AT - 1
    BY DEF SETUP_AT, STACK_AT
  <2>2. Holds(SETUP_AT + k - 1, 1 + k - 1)
    BY DEF BothRead, SetupRead, SectorsAt, SETUP_SECT
  <2> QED
    BY <2>1, <2>2
<1>2. PICK s \in Int : s = build.sects /\ s <= 109
  BY BuildsAssumption
<1>3. ASSUME NEW k \in 1 .. s PROVE Holds(KERNEL_AT + k - 1, 9 + k - 1)'
  <2>1. KERNEL_AT + k - 1 \in SETUP_AT .. STACK_AT - 1
    BY <1>2 DEF KERNEL_AT, SETUP_AT, STACK_AT
  <2>2. Holds(KERNEL_AT + k - 1, 9 + k - 1)
    BY <1>2 DEF BothRead, KernelRead, SectorsAt, SETUP_SECT
  <2> QED
    BY <2>1, <2>2
<1> QED
  BY <1>1, <1>2, <1>3 DEF BothRead, SetupRead, KernelRead, SectorsAt, SETUP_SECT

\* What setup.asm writes lies outside the images and outside what it has written
\* before.
LEMMA SetupRuns ==
    ASSUME ImageInv, RealMode \/ Protect \/ CopyKernel \/ EnterKernel
    PROVE  ImageInv'
<1> USE DEF A20Points
<1>1. CASE RealMode
  <2>1. build \in Builds /\ BothRead /\ build' = build /\ pc' = "protect"
    BY <1>1 DEF RealMode, ImageInv
  <2>2. mem' = Fill(Fill(mem, GdtCleared, ZERO), {GDT_AT}, GDT)
    BY <1>1 DEF RealMode
  <2>3. ASSUME NEW b, NEW v, Holds(b, v), b \in SETUP_AT .. STACK_AT - 1 PROVE Holds(b, v)'
    <3>1. b \notin GdtCleared /\ b \notin {GDT_AT}
      BY <2>3 DEF GdtCleared, GDT_AT, SETUP_AT, STACK_AT
    <3> QED
      BY <2>2, <2>3, <3>1, FillAt DEF Holds
  <2>4. Holds(GDT_AT, GDT)'
    <3>1. GDT_AT \in {GDT_AT} /\ GDT_AT < ROM_AT
      BY DEF GDT_AT, ROM_AT
    <3> QED
      BY <2>2, <3>1, FillAt DEF Holds
  <2> QED
    BY <2>1, <2>3, <2>4, StillRead DEF ImageInv
<1>2. CASE Protect
  <2>1. build \in Builds /\ BothRead /\ Holds(GDT_AT, GDT) /\ build' = build /\ pc' = "long"
    BY <1>2 DEF Protect, ImageInv
  <2>2. PICK cleared, tables :
            /\ \A b : b \in cleared <=> b \in TABLES_AT .. TABLES_AT + 223
            /\ \A b : b \in tables <=> b \in TABLES_AT .. TABLES_AT + 55
            /\ mem' = Fill(Fill(mem, cleared, ZERO), tables, TABLES)
    BY <1>2 DEF Protect
  <2>3. ASSUME NEW b, NEW v, Holds(b, v), b \in GDT_AT .. STACK_AT - 1 PROVE Holds(b, v)'
    <3>1. b \notin cleared /\ b \notin tables
      BY SMTT(20), <2>2, <2>3 DEF TABLES_AT, GDT_AT, STACK_AT
    <3>2. mem' = Fill(Fill(mem, cleared, ZERO), tables, TABLES)
      BY <2>2
    <3> QED
      BY <2>3, <3>1, <3>2, FillAt DEF Holds
  <2>4. ASSUME NEW b \in TABLES_AT .. TABLES_AT + 55 PROVE Holds(b, TABLES)'
    <3>1. b \in tables /\ b < ROM_AT
      BY <2>2 DEF TABLES_AT, ROM_AT
    <3>2. mem' = Fill(Fill(mem, cleared, ZERO), tables, TABLES)
      BY <2>2
    <3> QED
      BY <3>1, <3>2, FillAt DEF Holds
  <2>5. Holds(GDT_AT, GDT)'
    BY <2>1, <2>3 DEF GDT_AT, STACK_AT
  <2>6. BothRead'
    <3>1. SETUP_AT .. STACK_AT - 1 \subseteq GDT_AT .. STACK_AT - 1
      BY DEF SETUP_AT, GDT_AT, STACK_AT
    <3> QED
      BY <2>1, <2>3, <3>1, StillRead
  <2> QED
    BY <2>1, <2>4, <2>5, <2>6 DEF ImageInv, TablesBuilt
<1>3. CASE CopyKernel
  <2>1. /\ build \in Builds /\ BothRead /\ Holds(GDT_AT, GDT) /\ TablesBuilt
        /\ build' = build /\ pc' = "entry"
    BY <1>3 DEF CopyKernel, ImageInv
  <2>2. /\ mem' = Fill(mem, {PARAMS_AT}, PARAMS)
        /\ image' = [k \in 1 .. build.sects |-> mem[KERNEL_AT + k - 1]]
    BY <1>3 DEF CopyKernel
  <2>3. ASSUME NEW b, NEW v, Holds(b, v), b # PARAMS_AT PROVE Holds(b, v)'
    BY <2>2, <2>3, FillAt DEF Holds
  <2>4. Holds(PARAMS_AT, PARAMS)'
    <3>1. PARAMS_AT \in {PARAMS_AT} /\ PARAMS_AT < ROM_AT
      BY DEF PARAMS_AT, ROM_AT
    <3> QED
      BY <2>2, <3>1, FillAt DEF Holds
  <2>5. Holds(GDT_AT, GDT)'
    BY <2>1, <2>3 DEF GDT_AT, PARAMS_AT
  <2>6. TablesBuilt'
    BY <2>1, <2>3 DEF TablesBuilt, TABLES_AT, PARAMS_AT
  <2>7. Copied'
    <3>1. ASSUME NEW k \in 1 .. build.sects PROVE image'[k] = SETUP_SECT + k
      <4>1. PICK s \in Int : s = build.sects
        BY <2>1, BuildsAssumption
      <4>2. image'[k] = mem[KERNEL_AT + k - 1]
        BY <2>2
      <4>3. Holds(KERNEL_AT + k - 1, SETUP_SECT + 1 + k - 1)
        BY <2>1 DEF BothRead, KernelRead, SectorsAt
      <4>4. SETUP_SECT + 1 + k - 1 = SETUP_SECT + k
        BY <4>1 DEF SETUP_SECT
      <4> QED
        BY <4>2, <4>3, <4>4 DEF Holds
    <3> QED
      BY <2>1, <3>1 DEF Copied
  <2> QED
    BY <2>1, <2>4, <2>5, <2>6, <2>7 DEF ImageInv, Ready
<1>4. CASE EnterKernel
  BY <1>4 DEF EnterKernel, ImageInv
<1> QED
  BY <1>1, <1>2, <1>3, <1>4

\* A step that changes neither low memory nor the image, between two points at
\* which both images are read.
LEMMA A20Runs ==
    ASSUME ImageInv, a20_none \/ a20_bios \/ a20_kbc \/ a20_fast
    PROVE  ImageInv'
<1>1. /\ build \in Builds /\ BothRead /\ build' = build /\ mem' = mem
      /\ pc' \in A20Points \cup {"real"}
  BY DEF a20_none, a20_bios, a20_kbc, a20_fast, TryA20, AfterRound, ImageInv, A20Points
<1>2. BothRead'
  BY <1>1 DEF BothRead, SetupRead, KernelRead, SectorsAt, Holds
<1> QED
  BY <1>1, <1>2 DEF ImageInv

\* For every kernel of 1 to 109 sectors: no step of the loader writes over what
\* a later one needs, the kernel at 1 MB is that of the floppy, and the GDT, the
\* boot page tables and the parameters are there when the kernel starts
\* (read_sectors, setup_start, protect_start, long_start).
THEOREM BootImage == BootSpec => []ImageInPlace
<1>1. BootInit => ImageInv
  <2> SUFFICES ASSUME BootInit PROVE ImageInv
    OBVIOUS
  <2>1. /\ build \in Builds /\ pc = "read_setup" /\ current_sect = 1 /\ si = 0 /\ cx = 8
        /\ mem = [b \in {BOOT_AT, STACK_AT} |-> IF b = BOOT_AT THEN 0 ELSE STACK]
    BY DEF BootInit, LoaderInit, SETUP_SECT
  <2>2. Holds(STACK_AT, STACK)
    BY <2>1 DEF Holds, BOOT_AT, STACK_AT
  <2>3. SectorsAt(SETUP_AT, 1, si)
    BY <2>1 DEF SectorsAt
  <2> QED
    BY <2>1, <2>2, <2>3 DEF ImageInv, ReadingSetup
<1>2. ImageInv /\ [BootNext]_vars => ImageInv'
  <2> SUFFICES ASSUME ImageInv, [BootNext]_vars PROVE ImageInv'
    OBVIOUS
  <2>1. CASE UNCHANGED loader_vars
    <3>1. /\ build' = build /\ pc' = pc /\ current_sect' = current_sect /\ si' = si /\ cx' = cx
          /\ mem' = mem /\ image' = image
      BY <2>1 DEF loader_vars
    <3> QED
      BY <3>1 DEF ImageInv, ReadingSetup, BetweenImages, ReadingKernel, BothRead, Ready, Copied,
                  TablesBuilt, SetupRead, KernelRead, SectorsAt, Holds
  <2>2. CASE read_sectors("read_setup", SETUP_AT, "next_image")
    <3>1. build \in Builds /\ pc = "read_setup" /\ ReadingSetup
      BY <2>2 DEF ImageInv, read_sectors, A20Points
    <3> QED
      BY <2>2, <3>1, ReadSetup
  <2>3. CASE NextImage
    <3>1. /\ build \in Builds /\ build' = build /\ BetweenImages /\ mem' = mem
          /\ pc' = "read_kernel" /\ si' = 0 /\ cx' = build.sects /\ current_sect' = current_sect
      BY <2>3 DEF ImageInv, NextImage, A20Points
    <3>2. PICK s \in Int : s = build.sects /\ s > 0
      BY <3>1, BuildsAssumption
    <3>3. SectorsAt(KERNEL_AT, 9, si)'
      BY <3>1 DEF SectorsAt
    <3>4. Holds(STACK_AT, STACK)' /\ SetupRead'
      BY <3>1 DEF BetweenImages, SetupRead, SectorsAt, Holds
    <3>5. /\ si' \in 0 .. 108 /\ si' < build'.sects /\ cx' = build'.sects - si'
          /\ current_sect' = 9 + si'
      BY <3>1, <3>2 DEF BetweenImages
    <3> QED
      BY <3>1, <3>3, <3>4, <3>5 DEF ImageInv, ReadingKernel
  <2>4. CASE read_sectors("read_kernel", KERNEL_AT, "a20_none")
    <3>1. build \in Builds /\ pc = "read_kernel" /\ ReadingKernel
      BY <2>4 DEF ImageInv, read_sectors, A20Points
    <3> QED
      BY <2>4, <3>1, ReadKernel
  <2> QED
    BY <2>1, <2>2, <2>3, <2>4, A20Runs, SetupRuns, Parts DEF LoaderNext
<1>3. ImageInv => ImageInPlace
  <2> SUFFICES ASSUME ImageInv PROVE ImageInPlace
    OBVIOUS
  <2>1. pc # "astray"
    BY DEF ImageInv, A20Points
  <2>2. ASSUME pc \in {"real", "protect", "long"}, NEW k \in 1 .. SETUP_SECT
        PROVE  mem[SETUP_AT + k - 1] = k
    <3>1. SetupRead
      BY <2>2 DEF ImageInv, A20Points, BothRead
    <3>2. 1 + k - 1 = k
      BY DEF SETUP_SECT
    <3> QED
      BY <3>1, <3>2 DEF SetupRead, SectorsAt, Holds
  <2>3. pc = "entry" => Ready
    BY DEF ImageInv, A20Points
  <2> QED
    BY <2>1, <2>2, <2>3 DEF ImageInPlace, Ready, Copied, TablesBuilt, Holds
<1> QED
  BY <1>1, <1>2, <1>3, PTL DEF BootSpec

-----------------------------------------------------------------------------
(* The layout of a slab                                                       *)

\* A slab of cache c fits its pages.
SlabFits(c) ==
    /\ 64 + c.num * 2 <= c.colour_off
    /\ c.colour_off + c.num * c.objsize <= Caches!Bytes(c.gfporder)
    /\ c.colour_off % c.align = 0
    /\ c.num >= 1 /\ c.num < 65535
    /\ c.gfporder <= 5

\* The caches this is proved for: any size, an alignment of up to
\* X86_64_CACHE_ALIGN bytes, which is what the callers in the kernel ask for, and
\* default sizes that double up to KMALLOC_MAX_SIZE.
SmallAligns == Sizes \subseteq Int /\ Aligns \subseteq 1 .. 16 /\ Len(DefaultNames) \in 0 .. 8

\* The powers of two from eight on.
LEMMA Powers == ASSUME NEW b \in 4 .. 31 PROVE 2^(b - 1) \in Int /\ 2^(b - 1) >= 8
<1>4. CASE b = 4
  BY <1>4
<1>5. CASE b = 5
  BY <1>5
<1>6. CASE b = 6
  BY <1>6
<1>7. CASE b = 7
  BY <1>7
<1>8. CASE b = 8
  BY <1>8
<1>9. CASE b = 9
  BY <1>9
<1>10. CASE b = 10
  BY <1>10
<1>11. CASE b = 11
  BY <1>11
<1>12. CASE b = 12
  BY <1>12
<1>13. CASE b = 13
  BY <1>13
<1>14. CASE b = 14
  BY <1>14
<1>15. CASE b = 15
  BY <1>15
<1>16. CASE b = 16
  BY <1>16
<1>17. CASE b = 17
  BY <1>17
<1>18. CASE b = 18
  BY <1>18
<1>19. CASE b = 19
  BY <1>19
<1>20. CASE b = 20
  BY <1>20
<1>21. CASE b = 21
  BY <1>21
<1>22. CASE b = 22
  BY <1>22
<1>23. CASE b = 23
  BY <1>23
<1>24. CASE b = 24
  BY <1>24
<1>25. CASE b = 25
  BY <1>25
<1>26. CASE b = 26
  BY <1>26
<1>27. CASE b = 27
  BY <1>27
<1>28. CASE b = 28
  BY <1>28
<1>29. CASE b = 29
  BY <1>29
<1>30. CASE b = 30
  BY <1>30
<1>31. CASE b = 31
  BY <1>31
<1> QED
  BY <1>4, <1>5, <1>6, <1>7, <1>8, <1>9, <1>10, <1>11, <1>12, <1>13, <1>14, <1>15, <1>16, <1>17,
     <1>18, <1>19, <1>20, <1>21, <1>22, <1>23, <1>24, <1>25, <1>26, <1>27, <1>28, <1>29, <1>30, <1>31

\* The highest bit of a number below eight.
LEMMA SmallFls ==
    /\ Caches!fls64(1) = 1
    /\ \A x \in 2 .. 3 : Caches!fls64(x) = 2
    /\ \A x \in 4 .. 5 : Caches!fls64(x) = 3
<1>1. ASSUME NEW x \in 1 .. 5, NEW t \in 1 .. 3, 2^(t - 1) <= x, x < 2^t
      PROVE  Caches!fls64(x) = t
  <2>1. ASSUME NEW b \in 1 .. 31, 2^(b - 1) <= x, x < 2^b PROVE b = t
    <3>1. b \in 1 .. 3
      <4>1. CASE b \in 4 .. 31
        <5>1. PICK p \in Int : p = 2^(b - 1) /\ p >= 8
          BY <4>1, Powers
        <5> QED
          BY <2>1, <5>1
      <4> QED
        BY <4>1
    <3>2. \/ b = 1 /\ x < 2
          \/ b = 2 /\ 2 <= x /\ x < 4
          \/ b = 3 /\ 4 <= x
      <4>1. CASE b = 1
        BY <2>1, <4>1
      <4>2. CASE b = 2
        BY <2>1, <4>2
      <4>3. CASE b = 3
        BY <2>1, <4>3
      <4> QED
        BY <3>1, <4>1, <4>2, <4>3
    <3>3. \/ t = 1 /\ x < 2
          \/ t = 2 /\ 2 <= x /\ x < 4
          \/ t = 3 /\ 4 <= x
      <4>1. CASE t = 1
        BY <1>1, <4>1
      <4>2. CASE t = 2
        BY <1>1, <4>2
      <4>3. CASE t = 3
        BY <1>1, <4>3
      <4> QED
        BY <4>1, <4>2, <4>3
    <3> QED
      BY <3>2, <3>3
  <2>2. \E b \in 1 .. 31 : 2^(b - 1) <= x /\ x < 2^b
    BY <1>1
  <2> DEFINE c == CHOOSE b \in 1 .. 31 : 2^(b - 1) <= x /\ x < 2^b
  <2>3. c \in 1 .. 31 /\ 2^(c - 1) <= x /\ x < 2^c
    BY <2>2
  <2>4. c = t
    BY <2>1, <2>3
  <2> QED
    BY <2>4 DEF Caches!fls64
<1>2. Caches!fls64(1) = 1
  <2>1. 2^(1 - 1) <= 1 /\ 1 < 2^1
    OBVIOUS
  <2> QED
    BY <1>1, <2>1
<1>3. ASSUME NEW x \in 2 .. 3 PROVE Caches!fls64(x) = 2
  <2>1. 2^(2 - 1) <= x /\ x < 2^2
    OBVIOUS
  <2> QED
    BY <1>1, <2>1
<1>4. ASSUME NEW x \in 4 .. 5 PROVE Caches!fls64(x) = 3
  <2>1. 2^(3 - 1) <= x /\ x < 2^3
    OBVIOUS
  <2> QED
    BY <1>1, <2>1
<1> QED
  BY <1>2, <1>3, <1>4

\* The pages of a slab.
LEMMA SlabPages ==
    ASSUME NEW s \in Int, s >= 8, s <= 2048
    PROVE  /\ Caches!page_order(s) \in 1 .. 3
           /\ \/ Caches!Bytes(Caches!page_order(s)) = 8192 /\ s <= 810
              \/ Caches!Bytes(Caches!page_order(s)) = 16384 /\ s >= 811 /\ s <= 1629
              \/ Caches!Bytes(Caches!page_order(s)) = 32768 /\ s >= 1630
<1>1. PICK need \in Int : need = (84 + s * 10) \div 4096
  OBVIOUS
<1>2. /\ need \in 0 .. 5
      /\ need \in 0 .. 1 => s <= 810
      /\ need \in 2 .. 3 => s >= 811 /\ s <= 1629
      /\ need \in 4 .. 5 => s >= 1630
  BY <1>1
<1>3. Caches!page_order(s) = IF need = 0 THEN 1 ELSE Caches!fls64(need)
  <2>1. (64 + s * 10 + 2 * 10) \div 4096 = need
    BY <1>1
  <2> QED
    BY <2>1 DEF Caches!page_order, Caches!SIZEOF_SLAB, Caches!SIZEOF_BUFCTL,
                Caches!SLAB_DEFAULT_NUM, Caches!PAGE_SIZE
<1>4. CASE need \in 0 .. 1
  <2>1. Caches!page_order(s) = 1
    BY <1>3, <1>4, SmallFls
  <2>2. Caches!Bytes(1) = 8192
    BY DEF Caches!Bytes, Caches!PAGE_SIZE
  <2> QED
    BY <1>2, <1>4, <2>1, <2>2
<1>5. CASE need \in 2 .. 3
  <2>1. Caches!page_order(s) = 2
    BY <1>3, <1>5, SmallFls
  <2>2. Caches!Bytes(2) = 16384
    BY DEF Caches!Bytes, Caches!PAGE_SIZE
  <2> QED
    BY <1>2, <1>5, <2>1, <2>2
<1>6. CASE need \in 4 .. 5
  <2>1. Caches!page_order(s) = 3
    BY <1>3, <1>6, SmallFls
  <2>2. Caches!Bytes(3) = 32768
    BY DEF Caches!Bytes, Caches!PAGE_SIZE
  <2> QED
    BY <1>2, <1>6, <2>1, <2>2
<1> QED
  BY <1>2, <1>4, <1>5, <1>6

\* Rounding up.
LEMMA UpIs ==
    ASSUME NEW x \in Int
    PROVE  /\ Caches!Up(x, 8) = 8 * ((x + 7) \div 8)
           /\ 8 * ((x + 7) \div 8) >= x /\ 8 * ((x + 7) \div 8) < x + 8
           /\ Caches!Up(x, 16) = 16 * ((x + 15) \div 16)
           /\ 16 * ((x + 15) \div 16) >= x /\ 16 * ((x + 15) \div 16) < x + 16
  BY DEF Caches!Up

\* Objects of an odd multiple of eight bytes fill the room behind struct slab
\* only if they have eight bytes.
LEMMA NoExactFill ==
    ASSUME NEW t \in Int, NEW R \in Int, NEW j \in Int, t = 2 * j + 1, t > 1, R > 0
    PROVE  /\ t <= 101 => R * t # 1016
           /\ t >= 102 /\ t <= 203 => R * t # 2040
           /\ t >= 204 /\ t <= 256 => R * t # 4088
<1>1. ASSUME t <= 101, R * t = 1016 PROVE FALSE
  <2>1. PICK h \in Int : h = R * j
    OBVIOUS
  <2>2. R = 1016 - 2 * h
    BY <1>1, <2>1
  <2>3. PICK r1 \in Int : R = 2 * r1 /\ r1 = 508 - h
    BY <2>2
  <2>4. r1 * t = 508
    BY <1>1, <2>3
  <2>5. PICK h1 \in Int : h1 = r1 * j
    OBVIOUS
  <2>6. r1 = 508 - 2 * h1
    BY <2>4, <2>5
  <2>7. PICK r2 \in Int : r1 = 2 * r2
    BY <2>6
  <2>8. r2 * t = 254
    BY <2>4, <2>7
  <2>9. PICK h2 \in Int : h2 = r2 * j
    OBVIOUS
  <2>10. r2 = 254 - 2 * h2
    BY <2>8, <2>9
  <2>11. PICK r \in Int : r2 = 2 * r
    BY <2>10
  <2>12. r * t = 127 /\ r > 0
    BY <2>8, <2>11, <2>3, <2>7
  <2>13. r <= 11 \/ t <= 11
    <3>1. ASSUME r >= 12, t >= 12 PROVE r * t >= 144
      BY <3>1
    <3> QED
      BY <2>12, <3>1
  <2>14. CASE r <= 11
    <3>1. r \in {1, 2, 3, 4, 5, 6, 7, 8, 9, 10, 11}
      BY <2>12, <2>14
    <3> QED
      BY <1>1, <2>12, <3>1
  <2>15. CASE t <= 11
    <3>1. t \in {3, 5, 7, 9, 11}
      BY <2>15
    <3> QED
      BY <2>12, <3>1
  <2> QED
    BY <2>13, <2>14, <2>15
<1>2. ASSUME t >= 102, t <= 203, R * t = 2040 PROVE FALSE
  <2>1. R <= 20
    <3>1. ASSUME R >= 21 PROVE R * t >= 2142
      BY <1>2, <3>1
    <3> QED
      BY <1>2, <3>1
  <2>2. R >= 10
    <3>1. ASSUME R <= 9 PROVE R * t <= 1827
      BY <1>2, <3>1
    <3> QED
      BY <1>2, <3>1
  <2>3. R \in {10, 11, 12, 13, 14, 15, 16, 17, 18, 19, 20}
    BY <2>1, <2>2
  <2> QED
    BY <1>2, <2>3
<1>3. ASSUME t >= 204, t <= 256, R * t = 4088 PROVE FALSE
  <2>1. R <= 20
    <3>1. ASSUME R >= 21 PROVE R * t >= 4284
      BY <1>3, <3>1
    <3> QED
      BY <1>3, <3>1
  <2>2. R >= 15
    <3>1. ASSUME R <= 14 PROVE R * t <= 3584
      BY <1>3, <3>1
    <3> QED
      BY <1>3, <3>1
  <2>3. R \in {15, 16, 17, 18, 19, 20}
    BY <2>1, <2>2
  <2> QED
    BY <1>3, <2>3
<1> QED
  BY <1>1, <1>2, <1>3

\* Division by any positive number.
LEMMA Divided ==
    ASSUME NEW x \in Int, NEW d \in Int, d > 0
    PROVE  \E q \in Int : q = x \div d /\ q * d <= x /\ x < q * d + d
<1>1. PICK q \in Int : q = x \div d
  OBVIOUS
<1>2. q * d <= x /\ x < q * d + d
  BY <1>1, SMTT(30)
<1> QED
  BY <1>1, <1>2

\* The slab of a cache of any size and of an alignment up to 16 bytes.
LEMMA Layout ==
    ASSUME NEW name, NEW size \in Int, size >= 8, size <= 2048, NEW align \in 1 .. 16
    PROVE  SlabFits(Caches!NewCache(name, size, align))
<1>1. PICK t \in Int : Caches!Up(size, 8) = 8 * t /\ 8 * t >= size /\ 8 * t < size + 8
  <2>1. PICK t \in Int : t = (size + 7) \div 8
    OBVIOUS
  <2> QED
    BY <2>1, UpIs
<1>2. PICK a \in {8, 16} : Caches!Up(align, 8) = a
  <2>1. PICK k \in Int : Caches!Up(align, 8) = 8 * k /\ 8 * k >= align /\ 8 * k < align + 8
    <3>1. PICK k \in Int : k = (align + 7) \div 8
      OBVIOUS
    <3> QED
      BY <3>1, UpIs
  <2> QED
    BY <2>1
<1>3. PICK s \in Int : s = 8 * t /\ s >= 8 /\ s <= 2048
  BY <1>1
<1>4. PICK order \in 1 .. 3 : order = Caches!page_order(s)
  BY <1>3, SlabPages
<1>5. PICK B \in Int : /\ B = Caches!Bytes(order)
                       /\ \/ B = 8192 /\ s <= 810
                          \/ B = 16384 /\ s >= 811 /\ s <= 1629
                          \/ B = 32768 /\ s >= 1630
  BY <1>3, <1>4, SlabPages
<1>6. PICK R \in Int : R = (B - 64) \div s /\ R * s <= B - 64 /\ B - 64 < R * s + s
  BY <1>3, Divided
<1>7. PICK P \in Int : P = R * s
  OBVIOUS
<1>8. P <= B - 64 /\ B - 64 < P + s
  BY <1>6, <1>7
<1>9. R >= 10 /\ R <= 4088
  <2>1. ASSUME R <= 9 PROVE P <= 9 * s
    BY <1>3, <1>7, <2>1
  <2>2. ASSUME R >= 4089 PROVE P >= 32712
    BY <1>3, <1>7, <2>2
  <2> QED
    BY <1>3, <1>5, <1>8, <2>1, <2>2
<1>10. PICK f \in Int : f = (R * 2) \div s /\ f * s <= R * 2 /\ R * 2 < f * s + s
  BY <1>3, Divided
<1>11. PICK E \in Int : E = (f + 1) * s
  OBVIOUS
<1>12. E > 2 * R /\ f >= 0 /\ 4 * f <= R
  <2>1. E = f * s + s
    BY <1>3, <1>11
  <2>2. ASSUME f < 0 PROVE f * s + s <= 0
    BY <1>3, <2>2
  <2>3. f >= 0
    BY <1>9, <1>10, <2>2
  <2>4. 8 * f <= f * s
    BY <1>3, <2>3
  <2> QED
    BY <1>10, <2>1, <2>3, <2>4
<1>13. PICK x \in Int : x = 64 + R * 2
  OBVIOUS
<1>14. PICK C \in Int : /\ C = Caches!Up(x, a) /\ C >= 64 + 2 * R /\ C < 64 + 2 * R + a
                        /\ \E c \in Int : C = a * c
  <2>1. CASE a = 8
    <3>1. PICK c \in Int : Caches!Up(x, 8) = 8 * c /\ 8 * c >= x /\ 8 * c < x + 8
      <4>1. PICK c \in Int : c = (x + 7) \div 8
        OBVIOUS
      <4> QED
        BY SMTT(20), <4>1, UpIs
    <3> QED
      BY <1>13, <2>1, <3>1
  <2>2. CASE a = 16
    <3>1. PICK c \in Int : Caches!Up(x, 16) = 16 * c /\ 16 * c >= x /\ 16 * c < x + 16
      <4>1. PICK c \in Int : c = (x + 15) \div 16
        OBVIOUS
      <4> QED
        BY SMTT(20), <4>1, UpIs
    <3> QED
      BY <1>13, <2>2, <3>1
  <2> QED
    BY <2>1, <2>2
<1>15. C % a = 0
  BY <1>2, <1>14
<1>16. C + P - E <= B
  <2>1. CASE a = 8
    <3>1. PICK u \in Int : u = (f + 1) * t
      OBVIOUS
    <3>2. E = 8 * u
      BY <1>3, <1>11, <3>1
    <3> QED
      BY <1>8, <1>12, <1>14, <2>1, <3>2
  <2>2. CASE a = 16 /\ \E j \in Int : t = 2 * j
    <3>1. PICK j \in Int : t = 2 * j
      BY <2>2
    <3>2. PICK u \in Int : u = (f + 1) * j
      OBVIOUS
    <3>3. E = 16 * u
      BY <1>3, <1>11, <3>1, <3>2
    <3> QED
      BY <1>8, <1>12, <1>14, <2>2, <3>3
  <2>3. CASE a = 16 /\ \E j \in Int : t = 2 * j + 1
    <3>1. PICK u \in Int : u = (f + 1) * t
      OBVIOUS
    <3>2. E = 8 * u
      BY <1>3, <1>11, <3>1
    <3>3. PICK v \in Int : v = R * t
      OBVIOUS
    <3>4. P = 8 * v
      BY <1>3, <1>7, <3>3
    <3>5. C - 64 <= E + 8
      BY <1>12, <1>14, <2>3, <3>2
    <3>6. CASE P # B - 64
      <4>1. P + 8 <= B - 64
        BY <1>5, <1>8, <3>4, <3>6
      <4> QED
        BY <3>5, <4>1
    <3>7. CASE P = B - 64
      <4>1. t = 1
        <5>1. v \in {1016, 2040, 4088}
          BY <1>5, <3>4, <3>7
        <5>2. \/ v = 1016 /\ t <= 101
              \/ v = 2040 /\ t >= 102 /\ t <= 203
              \/ v = 4088 /\ t >= 204 /\ t <= 256
          BY <1>3, <1>5, <3>4, <3>7
        <5>3. t > 1 => v # 1016 \/ t > 101
          BY <1>9, <2>3, <3>3, NoExactFill
        <5>4. t > 1 => (t >= 102 /\ t <= 203 => v # 2040) /\ (t >= 204 /\ t <= 256 => v # 4088)
          BY <1>9, <2>3, <3>3, NoExactFill
        <5> QED
          BY <1>3, <5>2, <5>3, <5>4
      <4>2. s = 8 /\ B = 8192
        BY <1>3, <1>5, <4>1
      <4>3. R = 1016
        BY <1>7, <3>7, <4>2
      <4>4. f = 254
        BY <1>10, <4>2, <4>3
      <4> QED
        BY <1>11, <1>14, <2>3, <3>7, <4>2, <4>3, <4>4
    <3> QED
      BY <3>6, <3>7
  <2>4. \E j \in Int : t = 2 * j \/ t = 2 * j + 1
    <3>1. t \div 2 \in Int /\ (t = 2 * (t \div 2) \/ t = 2 * (t \div 2) + 1)
      OBVIOUS
    <3> QED
      BY <3>1
  <2> QED
    BY <2>1, <2>2, <2>3, <2>4
<1>17. (R - (f + 1)) * s = P - E
  BY <1>3, <1>7, <1>11
<1> DEFINE cache == [name |-> name, objsize |-> s, align |-> a, gfporder |-> order,
                     num |-> R - (f + 1), colour_off |-> C]
<1>18. Caches!NewCache(name, size, align) = cache
  <2>1. Caches!RoughNum(s) = R
    BY <1>4, <1>5, <1>6 DEF Caches!RoughNum, Caches!SIZEOF_SLAB
  <2>2. Caches!obj_num(s) = R - (f + 1)
    BY <1>10, <2>1 DEF Caches!obj_num, Caches!SIZEOF_BUFCTL
  <2>3. Caches!colour_off(s, a) = C
    BY <1>13, <1>14, <2>1 DEF Caches!colour_off, Caches!SIZEOF_SLAB, Caches!SIZEOF_BUFCTL
  <2>4. Caches!Up(size, 8) = s /\ Caches!Up(align, 8) = a
    BY <1>1, <1>2, <1>3
  <2> QED
    BY <1>4, <2>2, <2>3, <2>4 DEF Caches!NewCache, Caches!BYTES_PER_LONG
<1>19. SlabFits(cache)
  <2>1. 64 + (R - (f + 1)) * 2 <= C
    BY <1>12, <1>14
  <2>2. C + (R - (f + 1)) * s <= Caches!Bytes(order)
    BY <1>5, <1>16, <1>17
  <2>3. R - (f + 1) >= 1 /\ R - (f + 1) < 65535
    BY <1>9, <1>12
  <2>4. order <= 5
    BY <1>4
  <2> QED
    BY <1>15, <2>1, <2>2, <2>3, <2>4 DEF SlabFits
<1> QED
  BY <1>18, <1>19

\* The entries of the table, of which there are finitely many in a row.
CacheInv == /\ \E S : cache_cache \in Seq(S)
            /\ \A k \in DOMAIN cache_cache : SlabFits(cache_cache[k])

\* A slab of every cache fits its pages: for every size kmem_cache_create takes
\* and every alignment up to X86_64_CACHE_ALIGN, the last object ends within the
\* block although the number of objects is estimated before the bufctl array and
\* the rounding are taken off (kmem_cache_create).
THEOREM BootLayout == ASSUME SmallAligns PROVE BootSpec => []LayoutFits
<1>1. BootInit => CacheInv
  <2>1. << >> \in Seq({}) /\ DOMAIN << >> = {}
    OBVIOUS
  <2> QED
    BY <2>1 DEF BootInit, Caches!Init, CacheInv
<1>2. CacheInv /\ [BootNext]_vars => CacheInv'
  <2> SUFFICES ASSUME CacheInv, [BootNext]_vars PROVE CacheInv'
    OBVIOUS
  <2>1. CASE UNCHANGED cache_cache
    BY <2>1 DEF CacheInv
  <2>2. CASE Caches!kmem_cache_init
    <3> DEFINE f(k) == Caches!NewCache(DefaultNames[k], 16 * 2^(k - 1), 16)
    <3>1. cache_cache' = [k \in 1 .. Len(DefaultNames) |-> f(k)]
      BY <2>2 DEF Caches!kmem_cache_init, Caches!KMALLOC_SMALL_SIZE, Caches!X86_64_CACHE_ALIGN
    <3>2. PICK n \in 0 .. 8 : n = Len(DefaultNames)
      BY DEF SmallAligns
    <3>3. ASSUME NEW k \in 1 .. n PROVE SlabFits(f(k))
      <4>1. 16 * 2^(k - 1) \in {16, 32, 64, 128, 256, 512, 1024, 2048}
        <5>1. k \in {1, 2, 3, 4, 5, 6, 7, 8}
          OBVIOUS
        <5>2. CASE k = 1
          BY <5>2
        <5>3. CASE k = 2
          BY <5>3
        <5>4. CASE k = 3
          BY <5>4
        <5>5. CASE k = 4
          BY <5>5
        <5>6. CASE k = 5
          BY <5>6
        <5>7. CASE k = 6
          BY <5>7
        <5>8. CASE k = 7
          BY <5>8
        <5>9. CASE k = 8
          BY <5>9
        <5> QED
          BY <5>1, <5>2, <5>3, <5>4, <5>5, <5>6, <5>7, <5>8, <5>9
      <4>2. PICK size \in Int : size = 16 * 2^(k - 1) /\ size >= 8 /\ size <= 2048
        BY <4>1
      <4>3. 16 \in 1 .. 16
        OBVIOUS
      <4> QED
        BY <4>2, <4>3, Layout
    <3> HIDE DEF f
    <3>4. cache_cache' \in Seq({ f(k) : k \in 1 .. n })
      BY <3>1, <3>2
    <3>5. \A k \in DOMAIN cache_cache' : SlabFits(cache_cache'[k])
      BY <3>1, <3>2, <3>3
    <3> QED
      BY <3>4, <3>5 DEF CacheInv
  <2>3. ASSUME NEW name \in Names, NEW size \in Sizes, NEW align \in Aligns,
               Caches!kmem_cache_create(name, size, align)
        PROVE  CacheInv'
    <3>1. PICK c : c = Caches!NewCache(name, size, align)
      OBVIOUS
    <3>2. SlabFits(c)
      <4>1. size \in Int /\ size >= 8 /\ size <= 2048 /\ align \in 1 .. 16
        BY <2>3 DEF SmallAligns, Caches!kmem_cache_create, Caches!BYTES_PER_LONG,
                    Caches!KMALLOC_MAX_SIZE
      <4> QED
        BY <3>1, <4>1, Layout
    <3>3. cache_cache' = Append(cache_cache, c)
      BY <2>3, <3>1 DEF Caches!kmem_cache_create
    <3>4. PICK S : cache_cache \in Seq(S)
      BY DEF CacheInv
    <3>5. cache_cache \in Seq(S \cup {c})
      BY <3>4
    <3>6. cache_cache' \in Seq(S \cup {c})
      BY <3>3, <3>5
    <3>7. ASSUME NEW k \in DOMAIN cache_cache' PROVE SlabFits(cache_cache'[k])
      <4>1. k = Len(cache_cache) + 1 \/ k \in DOMAIN cache_cache
        BY <3>3, <3>5
      <4>2. CASE k = Len(cache_cache) + 1
        BY <3>2, <3>3, <3>5, <4>2
      <4>3. CASE k \in DOMAIN cache_cache
        <5>1. cache_cache'[k] = cache_cache[k]
          BY <3>3, <3>5, <4>3
        <5> QED
          BY <4>3, <5>1 DEF CacheInv
      <4> QED
        BY <4>1, <4>2, <4>3
    <3> QED
      BY <3>6, <3>7 DEF CacheInv
  <2> QED
    BY <2>1, <2>2, <2>3, Parts DEF Caches!CacheNext, Caches!CreateFails
<1>3. CacheInv => LayoutFits
  BY DEF CacheInv, SlabFits, LayoutFits, Caches!LayoutFits, Caches!SIZEOF_SLAB, Caches!SIZEOF_BUFCTL
<1> QED
  BY <1>1, <1>2, <1>3, PTL DEF BootSpec

-----------------------------------------------------------------------------
(* The page tables                                                            *)

\* An entry that one loop has written.
LEMMA Written ==
    ASSUME NEW loops, NEW e, NEW k \in Int, k \in DOMAIN loops,
           \A j \in DOMAIN loops : (loops[j].at <= e /\ e < loops[j].at + loops[j].n) <=> j = k
    PROVE  EntryAt(loops, e) = loops[k].to + ((e - loops[k].at) * loops[k].stride)
<1>1. Hits(loops, e) = {k}
  BY SMT DEF Hits
<1>2. (CHOOSE i \in Hits(loops, e) : \A j \in Hits(loops, e) : j <= i) = k
  BY SMT, <1>1
<1> QED
  BY SMT, <1>1, <1>2 DEF EntryAt

\* An entry that none has.
LEMMA NotWritten ==
    ASSUME NEW loops, NEW e,
           \A j \in DOMAIN loops : ~(loops[j].at <= e /\ e < loops[j].at + loops[j].n)
    PROVE  EntryAt(loops, e) = NotPresent
  BY SMT DEF EntryAt, Hits

\* A walk along four entries that are present.
LEMMA WalkAlong ==
    ASSUME NEW loops, NEW cr3, NEW top, NEW page, NEW pud, NEW pmd, NEW pte,
           cr3 # NotPresent, pud # NotPresent, pmd # NotPresent, pte # NotPresent,
           EntryAt(loops, Entry(cr3, top)) = pud,
           EntryAt(loops, Entry(pud, pud_index(page))) = pmd,
           EntryAt(loops, Entry(pmd, pmd_index(page))) = pte
    PROVE  Walk(loops, cr3, top, page) = EntryAt(loops, Entry(pte, pte_index(page)))
  BY SMT DEF Walk, Level

\* The pages of the edges of n tables.
LEMMA Edges ==
    ASSUME NEW n \in Nat, NEW p \in TableEdges(n)
    PROVE  \E q \in 0 .. n - 1, r \in 0 .. 511 : p = 512 * q + r
<1>1. CASE \E k \in 0 .. n - 1 : p = 512 * k
  <2>1. PICK k \in 0 .. n - 1 : p = 512 * k
    BY SMT, <1>1
  <2>2. p = 512 * k + 0 /\ 0 \in 0 .. 511
    BY SMT, <2>1
  <2> QED
    BY SMT, <2>2
<1>2. CASE \E k \in 0 .. n - 1 : p = 512 * k + 511
  <2>1. 511 \in 0 .. 511
    BY SMT
  <2> QED
    BY SMT, <1>2, <2>1
<1> QED
  BY SMT, <1>1, <1>2 DEF TableEdges

\* The boot tables map the 8 MB of four tables of PTEs to themselves.
LEMMA SetupMaps ==
    ASSUME NEW top \in {0, 256}, NEW q \in 0 .. 3, NEW r \in 0 .. 511
    PROVE  Walk(SetupLoops, 144, top, 512 * q + r) = 512 * q + r
<1>1. PICK L : L = SetupLoops
  BY SMT
<1>2. DOMAIN L = 1 .. 5
  BY SMT, <1>1 DEF SetupLoops
<1>3. /\ L[1].at = 73728 /\ L[1].n = 1 /\ L[1].to = 145 /\ L[1].stride = 0
      /\ L[2].at = 73984 /\ L[2].n = 1 /\ L[2].to = 145 /\ L[2].stride = 0
      /\ L[3].at = 74240 /\ L[3].n = 1 /\ L[3].to = 146 /\ L[3].stride = 0
      /\ L[4].at = 74752 /\ L[4].n = 4 /\ L[4].to = 147 /\ L[4].stride = 1
      /\ L[5].at = 75264 /\ L[5].n = 2048 /\ L[5].to = 0 /\ L[5].stride = 1
  BY SMT, <1>1 DEF SetupLoops, Loop, Entry
<1>4. \A j \in DOMAIN L : j = 1 \/ j = 2 \/ j = 3 \/ j = 4 \/ j = 5
  BY SMT, <1>2
<1>5. EntryAt(L, Entry(144, top)) = 145
  <2>1. CASE top = 0
    <3>1. Entry(144, top) = 73728
      BY SMT, <2>1 DEF Entry
    <3>2. \A j \in DOMAIN L : (L[j].at <= 73728 /\ 73728 < L[j].at + L[j].n) <=> j = 1
      BY SMT, <1>3, <1>4
    <3>3. EntryAt(L, 73728) = L[1].to + ((73728 - L[1].at) * L[1].stride)
      BY SMT, <1>2, <3>2, Written
    <3> QED
      BY SMT, <1>3, <3>1, <3>3
  <2>2. CASE top = 256
    <3>1. Entry(144, top) = 73984
      BY SMT, <2>2 DEF Entry
    <3>2. \A j \in DOMAIN L : (L[j].at <= 73984 /\ 73984 < L[j].at + L[j].n) <=> j = 2
      BY SMT, <1>3, <1>4
    <3>3. EntryAt(L, 73984) = L[2].to + ((73984 - L[2].at) * L[2].stride)
      BY SMT, <1>2, <3>2, Written
    <3> QED
      BY SMT, <1>3, <3>1, <3>3
  <2> QED
    BY SMT, <2>1, <2>2
<1>6. EntryAt(L, Entry(145, 0)) = 146
  <2>1. Entry(145, 0) = 74240
    BY SMT DEF Entry
  <2>2. \A j \in DOMAIN L : (L[j].at <= 74240 /\ 74240 < L[j].at + L[j].n) <=> j = 3
    BY SMT, <1>3, <1>4
  <2> QED
    BY SMT, <1>2, <1>3, <2>1, <2>2, Written
<1>7. EntryAt(L, Entry(146, q)) = 147 + q
  <2>1. PICK e \in Int : e = 74752 + q
    BY SMT
  <2>2. Entry(146, q) = e
    BY SMT, <2>1 DEF Entry
  <2>3. \A j \in DOMAIN L : (L[j].at <= e /\ e < L[j].at + L[j].n) <=> j = 4
    BY SMT, <1>3, <1>4, <2>1
  <2>4. EntryAt(L, e) = L[4].to + ((e - L[4].at) * L[4].stride)
    BY SMT, <1>2, <2>3, Written
  <2> QED
    BY SMT, <1>3, <2>1, <2>2, <2>4
<1>8. EntryAt(L, Entry(147 + q, r)) = 512 * q + r
  <2>1. PICK e \in Int : e = 75264 + (512 * q + r)
    BY SMT
  <2>2. Entry(147 + q, r) = e
    BY SMT, <2>1 DEF Entry
  <2>3. \A j \in DOMAIN L : (L[j].at <= e /\ e < L[j].at + L[j].n) <=> j = 5
    BY SMTT(20), <1>3, <1>4, <2>1
  <2>4. EntryAt(L, e) = L[5].to + ((e - L[5].at) * L[5].stride)
    BY SMT, <1>2, <2>3, Written
  <2> QED
    BY SMT, <1>3, <2>1, <2>2, <2>4
<1>9. PICK page \in Int : page = 512 * q + r
  BY SMT
<1>10. pud_index(page) = 0 /\ pmd_index(page) = q /\ pte_index(page) = r
  <2>1. q \in 0 .. 511
    BY SMT
  <2> QED
    BY SMT, <1>9, <2>1 DEF pud_index, pmd_index, pte_index
<1>11. 144 # NotPresent /\ 145 # NotPresent /\ 146 # NotPresent /\ 147 + q # NotPresent
  BY SMT DEF NotPresent
<1>12. Walk(L, 144, top, page) = EntryAt(L, Entry(147 + q, pte_index(page)))
  BY SMT, <1>5, <1>6, <1>7, <1>10, <1>11, WalkAlong
<1> QED
  BY SMT, <1>1, <1>8, <1>9, <1>10, <1>12

\* What paging_init writes when h tables of PTEs follow the PMD.
LoopsFor(h) ==
    << ZeroLoop(Entry(515, 0), 256),
       Loop(Entry(515, 256), 1, 516, 0),
       ZeroLoop(Entry(515, 257), 255),
       Loop(Entry(516, 0), 1, 517, 8),
       Loop(Entry(517, 0), h, 518, 1),
       Loop(Entry(518, 0), 512 * h, 0, 1),
       Loop(Entry(516, 3), 1, 518 + h, 0),
       Loop(Entry(518 + h, 0), 10, 519 + h, 1),
       Loop(Entry(519 + h, 0), 512 * 10, RESERV_FRAME, 1) >>

\* The loops by their numbers.
LoopNumbers(h, L) ==
    /\ DOMAIN L = 1 .. 9
    /\ L[1].at = 263680 /\ L[1].n = 256 /\ L[1].to = -1 /\ L[1].stride = 0
    /\ L[2].at = 263936 /\ L[2].n = 1 /\ L[2].to = 516 /\ L[2].stride = 0
    /\ L[3].at = 263937 /\ L[3].n = 255 /\ L[3].to = -1 /\ L[3].stride = 0
    /\ L[4].at = 264192 /\ L[4].n = 1 /\ L[4].to = 517 /\ L[4].stride = 8
    /\ L[5].at = 264704 /\ L[5].n = h /\ L[5].to = 518 /\ L[5].stride = 1
    /\ L[6].at = 265216 /\ L[6].n = 512 * h /\ L[6].to = 0 /\ L[6].stride = 1
    /\ L[7].at = 264195 /\ L[7].n = 1 /\ L[7].to = 518 + h /\ L[7].stride = 0
    /\ L[8].at = 265216 + 512 * h /\ L[8].n = 10 /\ L[8].to = 519 + h /\ L[8].stride = 1
    /\ L[9].at = 265728 + 512 * h /\ L[9].n = 5120 /\ L[9].to = RESERV_FRAME
    /\ L[9].stride = 1

LEMMA LoopsNumbered == ASSUME NEW h \in Nat, NEW L, L = LoopsFor(h) PROVE LoopNumbers(h, L)
<1>1. DOMAIN L = 1 .. 9
  BY SMT DEF LoopsFor
<1>2. /\ L[1].at = 263680 /\ L[1].n = 256 /\ L[1].to = -1 /\ L[1].stride = 0
      /\ L[2].at = 263936 /\ L[2].n = 1 /\ L[2].to = 516 /\ L[2].stride = 0
      /\ L[3].at = 263937 /\ L[3].n = 255 /\ L[3].to = -1 /\ L[3].stride = 0
  BY SMT DEF LoopsFor, Loop, ZeroLoop, Entry, NotPresent
<1>3. /\ L[4].at = 264192 /\ L[4].n = 1 /\ L[4].to = 517 /\ L[4].stride = 8
      /\ L[5].at = 264704 /\ L[5].n = h /\ L[5].to = 518 /\ L[5].stride = 1
      /\ L[6].at = 265216 /\ L[6].n = 512 * h /\ L[6].to = 0 /\ L[6].stride = 1
  BY SMT DEF LoopsFor, Loop, Entry
<1>4. /\ L[7].at = 264195 /\ L[7].n = 1 /\ L[7].to = 518 + h /\ L[7].stride = 0
      /\ L[8].at = 265216 + 512 * h /\ L[8].n = 10 /\ L[8].to = 519 + h /\ L[8].stride = 1
      /\ L[9].at = 265728 + 512 * h /\ L[9].n = 5120 /\ L[9].to = RESERV_FRAME
      /\ L[9].stride = 1
  BY SMT DEF LoopsFor, Loop, Entry
<1> QED
  BY SMT, <1>1, <1>2, <1>3, <1>4 DEF LoopNumbers

\* The entries the loops leave, level by level: the tables are apart, so that no
\* loop writes into the table of another.
TopEntries(h, L) ==
    /\ EntryAt(L, Entry(515, 0)) = NotPresent /\ EntryAt(L, Entry(515, 256)) = 516
    /\ EntryAt(L, Entry(516, 0)) = 517 /\ EntryAt(L, Entry(516, 3)) = 518 + h
    /\ EntryAt(L, Entry(517, h)) = NotPresent
PmdEntries(h, L) == \A q \in 0 .. h - 1 : EntryAt(L, Entry(517, q)) = 518 + q
PteEntries(h, L) == \A q \in 0 .. h - 1 : \A r \in 0 .. 511 :
                        EntryAt(L, Entry(518 + q, r)) = 512 * q + r
ReservPmd(h, L) == \A q \in 0 .. 9 : EntryAt(L, Entry(518 + h, q)) = 519 + h + q
ReservPte(h, L) == \A q \in 0 .. 9 : \A r \in 0 .. 511 :
                       EntryAt(L, Entry(519 + h + q, r)) = RESERV_FRAME + (512 * q + r)
Entries(h, L) == /\ TopEntries(h, L) /\ PmdEntries(h, L) /\ PteEntries(h, L)
                 /\ ReservPmd(h, L) /\ ReservPte(h, L)

LEMMA KernelEntries == ASSUME NEW h \in 1 .. 511, NEW L, L = LoopsFor(h) PROVE Entries(h, L)
<1>0. LoopNumbers(h, L) /\ h \in Nat
  BY SMT, LoopsNumbered
<1>1. /\ DOMAIN L = 1 .. 9
      /\ \A j \in DOMAIN L : j = 1 \/ j = 2 \/ j = 3 \/ j = 4 \/ j = 5 \/ j = 6 \/ j = 7 \/ j = 8 \/ j = 9
  BY SMT, <1>0 DEF LoopNumbers
<1>2. EntryAt(L, Entry(515, 0)) = NotPresent
  <2>1. \A j \in DOMAIN L : (L[j].at <= 263680 /\ 263680 < L[j].at + L[j].n) <=> j = 1
    BY SMT, <1>1, <1>0 DEF LoopNumbers
  <2>2. EntryAt(L, 263680) = L[1].to + ((263680 - L[1].at) * L[1].stride)
    BY SMT, <1>1, <2>1, Written
  <2> QED
    BY SMT, <1>0, <2>2 DEF LoopNumbers, Entry, NotPresent
<1>3. EntryAt(L, Entry(515, 256)) = 516
  <2>1. \A j \in DOMAIN L : (L[j].at <= 263936 /\ 263936 < L[j].at + L[j].n) <=> j = 2
    BY SMT, <1>1, <1>0 DEF LoopNumbers
  <2>2. EntryAt(L, 263936) = L[2].to + ((263936 - L[2].at) * L[2].stride)
    BY SMT, <1>1, <2>1, Written
  <2> QED
    BY SMT, <1>0, <2>2 DEF LoopNumbers, Entry
<1>4. EntryAt(L, Entry(516, 0)) = 517
  <2>1. \A j \in DOMAIN L : (L[j].at <= 264192 /\ 264192 < L[j].at + L[j].n) <=> j = 4
    BY SMT, <1>1, <1>0 DEF LoopNumbers
  <2>2. EntryAt(L, 264192) = L[4].to + ((264192 - L[4].at) * L[4].stride)
    BY SMT, <1>1, <2>1, Written
  <2> QED
    BY SMT, <1>0, <2>2 DEF LoopNumbers, Entry
<1>5. EntryAt(L, Entry(516, 3)) = 518 + h
  <2>1. \A j \in DOMAIN L : (L[j].at <= 264195 /\ 264195 < L[j].at + L[j].n) <=> j = 7
    BY SMT, <1>1, <1>0 DEF LoopNumbers
  <2>2. EntryAt(L, 264195) = L[7].to + ((264195 - L[7].at) * L[7].stride)
    BY SMT, <1>1, <2>1, Written
  <2> QED
    BY SMT, <1>0, <2>2 DEF LoopNumbers, Entry
<1>6. ASSUME NEW q \in 0 .. h - 1 PROVE EntryAt(L, Entry(517, q)) = 518 + q
  <2>1. PICK e \in Int : e = 264704 + q
    BY SMT
  <2>2. \A j \in DOMAIN L : (L[j].at <= e /\ e < L[j].at + L[j].n) <=> j = 5
    BY SMT, <1>1, <2>1, <1>0 DEF LoopNumbers
  <2>3. EntryAt(L, e) = L[5].to + ((e - L[5].at) * L[5].stride)
    BY SMT, <1>1, <2>2, Written
  <2>4. Entry(517, q) = e
    BY SMT, <2>1 DEF Entry
  <2> QED
    BY SMT, <1>0, <2>1, <2>3, <2>4 DEF LoopNumbers
<1>7. ASSUME NEW q \in 0 .. h - 1, NEW r \in 0 .. 511 PROVE EntryAt(L, Entry(518 + q, r)) = 512 * q + r
  <2>1. PICK e \in Int : e = 265216 + (512 * q + r)
    BY SMT
  <2>2. \A j \in DOMAIN L : (L[j].at <= e /\ e < L[j].at + L[j].n) <=> j = 6
    BY SMT, <1>1, <2>1, <1>0 DEF LoopNumbers
  <2>3. EntryAt(L, e) = L[6].to + ((e - L[6].at) * L[6].stride)
    BY SMT, <1>1, <2>2, Written
  <2>4. Entry(518 + q, r) = e
    BY SMT, <2>1 DEF Entry
  <2> QED
    BY SMT, <1>0, <2>1, <2>3, <2>4 DEF LoopNumbers
<1>8. EntryAt(L, Entry(517, h)) = NotPresent
  <2>1. PICK e \in Int : e = 264704 + h
    BY SMT
  <2>2. \A j \in DOMAIN L : ~(L[j].at <= e /\ e < L[j].at + L[j].n)
    BY SMT, <1>1, <2>1, <1>0 DEF LoopNumbers
  <2>3. Entry(517, h) = e
    BY SMT, <2>1 DEF Entry
  <2> QED
    BY SMT, <2>2, <2>3, NotWritten
<1>9. ASSUME NEW q \in 0 .. 9 PROVE EntryAt(L, Entry(518 + h, q)) = 519 + h + q
  <2>1. PICK e \in Int : e = 265216 + 512 * h + q
    BY SMT
  <2>2. \A j \in DOMAIN L : (L[j].at <= e /\ e < L[j].at + L[j].n) <=> j = 8
    BY SMT, <1>1, <2>1, <1>0 DEF LoopNumbers
  <2>3. EntryAt(L, e) = L[8].to + ((e - L[8].at) * L[8].stride)
    BY SMT, <1>1, <2>2, Written
  <2>4. Entry(518 + h, q) = e
    BY SMT, <2>1 DEF Entry
  <2> QED
    BY SMT, <1>0, <2>1, <2>3, <2>4 DEF LoopNumbers
<1>10. ASSUME NEW q \in 0 .. 9, NEW r \in 0 .. 511
       PROVE  EntryAt(L, Entry(519 + h + q, r)) = RESERV_FRAME + (512 * q + r)
  <2>1. PICK e \in Int : e = 265728 + 512 * h + (512 * q + r)
    BY SMT
  <2>2. \A j \in DOMAIN L : (L[j].at <= e /\ e < L[j].at + L[j].n) <=> j = 9
    BY SMT, <1>1, <2>1, <1>0 DEF LoopNumbers
  <2>3. EntryAt(L, e) = L[9].to + ((e - L[9].at) * L[9].stride)
    BY SMT, <1>1, <2>2, Written
  <2>4. Entry(519 + h + q, r) = e
    BY SMT, <2>1 DEF Entry
  <2> QED
    BY SMT, <1>0, <2>1, <2>3, <2>4 DEF LoopNumbers, RESERV_FRAME
<1>11. TopEntries(h, L)
  BY <1>2, <1>3, <1>4, <1>5, <1>8, Zenon DEF TopEntries
<1>12. PmdEntries(h, L) /\ PteEntries(h, L)
  BY <1>6, <1>7, Zenon DEF PmdEntries, PteEntries
<1>13. ReservPmd(h, L) /\ ReservPte(h, L)
  BY <1>9, <1>10, Zenon DEF ReservPmd, ReservPte
<1> QED
  BY <1>11, <1>12, <1>13 DEF Entries

\* The tables of paging_init map all of memory, the APICs and the BIOS, and
\* nothing behind memory.
Maps(h, L) ==
    /\ \A q \in 0 .. h - 1, r \in 0 .. 511 : Walk(L, 515, 256, 512 * q + r) = 512 * q + r
    /\ Walk(L, 515, 256, 512 * h) = NotPresent
    /\ \A q \in 0 .. 9, r \in 0 .. 511 :
          Walk(L, 515, 256, 786432 + (512 * q + r)) = RESERV_FRAME + (512 * q + r)
    /\ Walk(L, 515, 0, 0) = NotPresent

LEMMA KernelMaps == ASSUME NEW h \in 1 .. 511, NEW L, L = LoopsFor(h) PROVE Maps(h, L)
<1>0. Entries(h, L)
  BY SMT, KernelEntries
<1>1. ASSUME NEW q \in 0 .. h - 1, NEW r \in 0 .. 511
      PROVE  Walk(L, 515, 256, 512 * q + r) = 512 * q + r
  <2>1. PICK page \in Int : page = 512 * q + r
    BY SMT
  <2>2. q \in 0 .. 511
    BY SMT
  <2>3. pud_index(page) = 0 /\ pmd_index(page) = q /\ pte_index(page) = r
    BY SMT, <2>1, <2>2 DEF pud_index, pmd_index, pte_index
  <2>4. 515 # NotPresent /\ 516 # NotPresent /\ 517 # NotPresent /\ 518 + q # NotPresent
    BY SMT DEF NotPresent
  <2>5. /\ EntryAt(L, Entry(515, 256)) = 516 /\ EntryAt(L, Entry(516, 0)) = 517
        /\ EntryAt(L, Entry(517, q)) = 518 + q /\ EntryAt(L, Entry(518 + q, r)) = 512 * q + r
    <3>1. EntryAt(L, Entry(515, 256)) = 516 /\ EntryAt(L, Entry(516, 0)) = 517
      BY SMT, <1>0 DEF Entries, TopEntries
    <3>2. EntryAt(L, Entry(517, q)) = 518 + q
      BY SMT, <1>0 DEF Entries, PmdEntries
    <3>3. EntryAt(L, Entry(518 + q, r)) = 512 * q + r
      BY SMT, <1>0 DEF Entries, PteEntries
    <3> QED
      BY SMT, <3>1, <3>2, <3>3
  <2>6. Walk(L, 515, 256, page) = EntryAt(L, Entry(518 + q, pte_index(page)))
    BY SMT, <2>3, <2>4, <2>5, WalkAlong
  <2> QED
    BY SMT, <2>1, <2>3, <2>5, <2>6
<1>2. Walk(L, 515, 256, 512 * h) = NotPresent
  <2>1. PICK page \in Int : page = 512 * h + 0
    BY SMT
  <2>2. h \in 0 .. 511 /\ 0 \in 0 .. 511
    BY SMT
  <2>3. pud_index(page) = 0 /\ pmd_index(page) = h
    BY SMT, <2>1, <2>2 DEF pud_index, pmd_index, pte_index
  <2>4. 515 # NotPresent /\ 516 # NotPresent /\ 517 # NotPresent
    BY SMT DEF NotPresent
  <2>5. /\ EntryAt(L, Entry(515, 256)) = 516 /\ EntryAt(L, Entry(516, 0)) = 517
        /\ EntryAt(L, Entry(517, h)) = NotPresent
    BY SMT, <1>0 DEF Entries, TopEntries
  <2>6. Walk(L, 515, 256, page) = NotPresent
    BY SMT, <2>3, <2>4, <2>5 DEF Walk, Level
  <2> QED
    BY SMT, <2>1, <2>6
<1>3. ASSUME NEW q \in 0 .. 9, NEW r \in 0 .. 511
      PROVE  Walk(L, 515, 256, 786432 + (512 * q + r)) = RESERV_FRAME + (512 * q + r)
  <2>1. PICK page \in Int : page = 786432 + (512 * q + r)
    BY SMT
  <2>2. q \in 0 .. 511
    BY SMT
  <2>3. pud_index(page) = 3 /\ pmd_index(page) = q /\ pte_index(page) = r
    BY SMT, <2>1, <2>2 DEF pud_index, pmd_index, pte_index
  <2>4. 515 # NotPresent /\ 516 # NotPresent /\ 518 + h # NotPresent /\ 519 + h + q # NotPresent
    BY SMT DEF NotPresent
  <2>5. /\ EntryAt(L, Entry(515, 256)) = 516 /\ EntryAt(L, Entry(516, 3)) = 518 + h
        /\ EntryAt(L, Entry(518 + h, q)) = 519 + h + q
        /\ EntryAt(L, Entry(519 + h + q, r)) = RESERV_FRAME + (512 * q + r)
    <3>1. EntryAt(L, Entry(515, 256)) = 516 /\ EntryAt(L, Entry(516, 3)) = 518 + h
      BY SMT, <1>0 DEF Entries, TopEntries
    <3>2. EntryAt(L, Entry(519 + h + q, r)) = RESERV_FRAME + (512 * q + r)
      BY SMTT(20), <1>0 DEF Entries, ReservPte
    <3>3. EntryAt(L, Entry(518 + h, q)) = 519 + h + q
      BY SMT, <1>0 DEF Entries, ReservPmd
    <3> QED
      BY SMT, <3>1, <3>2, <3>3
  <2>6. Walk(L, 515, 256, page) = EntryAt(L, Entry(519 + h + q, pte_index(page)))
    BY SMT, <2>3, <2>4, <2>5, WalkAlong
  <2> QED
    BY SMT, <2>1, <2>3, <2>5, <2>6
<1>4. Walk(L, 515, 0, 0) = NotPresent
  <2>1. 0 \in 0 .. 511 /\ 515 # NotPresent
    BY SMT DEF NotPresent
  <2>2. EntryAt(L, Entry(515, 0)) = NotPresent
    BY Zenon, <1>0 DEF Entries, TopEntries
  <2> QED
    BY SMT, <2>1, <2>2 DEF Walk, Level
<1> QED
  BY SMTT(20), <1>1, <1>2, <1>3, <1>4 DEF Maps

\* The page a boot-time table starts at, and its name, in the order of Request.
Place(k) == IF k <= 7 THEN 511 + k
            ELSE IF k = 8 THEN 518 + pte_count
            ELSE IF k = 9 THEN 519 + pte_count
            ELSE IF k = 10 THEN 529 + pte_count ELSE 530 + 10 * pte_count
NameOf == <<"gdt", "tss", "idt", "pgd", "pud", "pmd", "pte", "pmd_reserv", "pte_reserv", "mem_map">>

\* The tables that have been allocated are where Place says.
PlaceInv ==
    /\ HeapInv
    /\ step \in 1 .. 11 => Len(table) = step - 1 /\ bootmem_page_index = Place(step)
    /\ step \in 12 .. 13 => Len(table) = 10 /\ bootmem_page_index = Place(11)
    /\ step >= 11 => bootmem_page_index < HEAP_END
    /\ step >= 1 => \A k \in 1 .. Len(table) : table[k].name = NameOf[k] /\ table[k].first = Place(k)

\* What each table asks for.
LEMMA RequestPlace ==
    ASSUME NEW s \in 1 .. 10, phy_mem_size \in 16 .. 512, phy_mem_size % 2 = 0
    PROVE  Place(s) + Request[s].pages = Place(s + 1) /\ Request[s].name = NameOf[s]
<1>1. Request[s].name = NameOf[s]
  <2>1. CASE s \in 1 .. 5
    BY <2>1 DEF Request, NameOf
  <2>2. CASE s \in 6 .. 10
    BY <2>2 DEF Request, NameOf
  <2> QED
    BY <2>1, <2>2
<1>2. CASE s <= 3
  <2>1. Request[s].pages = 1
    BY <1>2 DEF Request
  <2> QED
    BY <1>1, <1>2, <2>1 DEF Place
<1>3. CASE s > 3
  <2>1. PICK h \in 8 .. 256 : phy_mem_size = 2 * h
    BY <1>3
  <2>2. page_count = 512 * h /\ pte_count = h
    BY <2>1 DEF page_count, pte_count
  <2>3. pmd_count = 1
    BY <2>1 DEF pmd_count, AtLeastOne
  <2>4. mem_map_page = 9 * h + 1
    BY <2>2 DEF mem_map_page, Ceil, SIZEOF_PAGE, PAGE_SIZE
  <2>5. CASE s \in {4, 5}
    BY <1>1, <2>5 DEF Request, Place
  <2>6. CASE s \in {6, 7}
    BY <1>1, <2>2, <2>3, <2>6 DEF Request, Place
  <2>7. CASE s \in {8, 9}
    BY <1>1, <2>2, <2>7 DEF Request, Place
  <2>8. CASE s = 10
    BY <1>1, <2>2, <2>4, <2>8 DEF Request, Place
  <2> QED
    BY <1>3, <2>5, <2>6, <2>7, <2>8
<1> QED
  BY <1>2, <1>3

\* Where the tables are once all of them are there.
LEMMA TablesAt ==
    ASSUME PlaceInv, step = 13
    PROVE  /\ At("pgd") = 515 /\ At("pud") = 516 /\ At("pmd") = 517 /\ At("pte") = 518
           /\ At("pmd_reserv") = 518 + pte_count /\ At("pte_reserv") = 519 + pte_count
<1>1. /\ DOMAIN table = 1 .. 10
      /\ \A k \in 1 .. 10 : table[k].name = NameOf[k] /\ table[k].first = Place(k)
  <2>1. Len(table) = 10
    BY DEF PlaceInv
  <2>2. DOMAIN table = 1 .. Len(table)
    <3>1. PICK S : table \in Seq(S)
      BY DEF PlaceInv, HeapInv, TableSeq
    <3> QED
      BY <3>1
  <2> QED
    BY <2>1, <2>2 DEF PlaceInv
<1>2. ASSUME NEW i \in 1 .. 10 PROVE At(NameOf[i]) = Place(i)
  <2>1. \A k \in 1 .. 10 : NameOf[k] = NameOf[i] <=> k = i
    BY DEF NameOf
  <2>2. \A k \in DOMAIN table : table[k].name = NameOf[i] <=> k = i
    BY <1>1, <2>1
  <2>3. (CHOOSE k \in DOMAIN table : table[k].name = NameOf[i]) = i
    BY <1>1, <2>2
  <2> QED
    BY <1>1, <2>3 DEF At
<1>3. /\ NameOf[4] = "pgd" /\ NameOf[5] = "pud" /\ NameOf[6] = "pmd" /\ NameOf[7] = "pte"
      /\ NameOf[8] = "pmd_reserv" /\ NameOf[9] = "pte_reserv"
  BY DEF NameOf
<1>4. /\ At("pgd") = Place(4) /\ At("pud") = Place(5) /\ At("pmd") = Place(6)
      /\ At("pte") = Place(7) /\ At("pmd_reserv") = Place(8) /\ At("pte_reserv") = Place(9)
  <2>1. 4 \in 1 .. 10 /\ 5 \in 1 .. 10 /\ 6 \in 1 .. 10 /\ 7 \in 1 .. 10 /\ 8 \in 1 .. 10 /\ 9 \in 1 .. 10
    OBVIOUS
  <2> QED
    BY <1>2, <1>3, <2>1
<1> QED
  BY <1>4 DEF Place

\* The next table is put at its place.
LEMMA PlaceAlloc ==
    ASSUME PlaceInv, HeapInv', alloc_bootmem
    PROVE  PlaceInv'
<1>1. /\ step \in 1 .. 10 /\ step' = step + 1 /\ phy_mem_size' = phy_mem_size
      /\ bootmem_page_index' = bootmem_page_index + Request[step].pages
      /\ bootmem_page_index' < HEAP_END - 1
  BY RequestShape DEF alloc_bootmem, Fits, bootmem_page_max
<1>2. phy_mem_size \in 16 .. 512 /\ phy_mem_size % 2 = 0
  BY <1>1 DEF PlaceInv, HeapInv, HeapStep
<1>3. PICK s \in 1 .. 10 : s = step
  BY <1>1
<1>4. PICK t : /\ t.name = Request[s].name /\ t.first = bootmem_page_index /\ table' = Append(table, t)
  <2>1. PICK t : t = [name |-> Request[step].name, first |-> bootmem_page_index,
                      last |-> bootmem_page_index + Request[step].pages - 1,
                      touched |-> bootmem_page_index + Request[step].written - 1]
    OBVIOUS
  <2> QED
    BY <1>3, <2>1 DEF alloc_bootmem
<1>5. Place(s) + Request[s].pages = Place(s + 1) /\ Request[s].name = NameOf[s]
  BY <1>2, <1>3, RequestPlace
<1>6. \A k : Place(k)' = Place(k)
  BY <1>1 DEF Place, pte_count
<1>7. /\ Len(table) = s - 1 /\ bootmem_page_index = Place(s) /\ Len(table) \in Nat
      /\ \A k \in 1 .. Len(table) : table[k].name = NameOf[k] /\ table[k].first = Place(k)
  BY <1>1, <1>3 DEF PlaceInv, HeapInv, TableSeq
<1>8. Len(table') = s /\ table'[s] = t /\ \A k \in 1 .. s - 1 : table'[k] = table[k]
  <2>1. PICK S : table \in Seq(S)
    BY DEF PlaceInv, HeapInv, TableSeq
  <2>2. table \in Seq(S \cup {t}) /\ t \in S \cup {t}
    BY <2>1
  <2> QED
    BY <1>4, <1>7, <2>2
<1>9. bootmem_page_index' = Place(s + 1)'
  BY <1>1, <1>3, <1>5, <1>6, <1>7
<1>10. \A k \in 1 .. s : table'[k].name = NameOf[k] /\ table'[k].first = Place(k)'
  <2>1. ASSUME NEW k \in 1 .. s PROVE table'[k].name = NameOf[k] /\ table'[k].first = Place(k)
    <3>1. CASE k = s
      BY <1>4, <1>5, <1>7, <1>8, <3>1
    <3>2. CASE k # s
      <4>1. k \in 1 .. s - 1
        BY <3>2
      <4> QED
        BY <1>7, <1>8, <4>1
    <3> QED
      BY <3>1, <3>2
  <2> QED
    BY <1>6, <2>1
<1>11. step' = s + 1 /\ s + 1 \in 2 .. 11 /\ bootmem_page_index' < HEAP_END
  <2>1. bootmem_page_index' \in Nat
    BY DEF HeapInv, HeapStep
  <2> QED
    BY <1>1, <1>3, <2>1 DEF HEAP_END
<1> QED
  BY SMTT(30), <1>8, <1>9, <1>10, <1>11 DEF PlaceInv

\* Steps that move no table.
LEMMA PlaceSame ==
    ASSUME PlaceInv, HeapInv', UNCHANGED <<phy_mem_size, bootmem_page_index, table, step>>
    PROVE  PlaceInv'
<1>1. \A k : Place(k)' = Place(k)
  BY DEF Place, pte_count
<1>2. PICK a, b : a = Place(step) /\ b = Place(11)
  OBVIOUS
<1>3. Place(step)' = a /\ Place(11)' = b
  BY <1>2 DEF Place, pte_count
<1> QED
  BY <1>1, <1>2, <1>3 DEF PlaceInv

\* The tables are where Place says, for every even size of memory.
LEMMA BootPlaces == ASSUME EvenMemory PROVE BootSpec => []PlaceInv
<1>1. BootInit /\ HeapInv => PlaceInv
  BY DEF BootInit, Init, PlaceInv
<1>2. PlaceInv /\ HeapInv' /\ [BootNext]_vars => PlaceInv'
  <2> SUFFICES ASSUME PlaceInv, HeapInv', [BootNext]_vars PROVE PlaceInv'
    OBVIOUS
  <2>1. CASE UNCHANGED mem_vars
    BY <2>1, PlaceSame DEF mem_vars
  <2>2. CASE bootmem_init(build.mem)
    <3>1. step = 0 /\ step' = 1 /\ bootmem_page_index' = HEAP_START /\ table' = << >>
      BY <2>2 DEF bootmem_init, PlaceInv, HeapInv, HeapStep
    <3>2. Place(1)' = 512 /\ HEAP_START = 512
      BY DEF Place, HEAP_START
    <3>3. Place(step)' = 512
      BY <3>1 DEF Place
    <3> QED
      BY <3>1, <3>2, <3>3 DEF PlaceInv
  <2>3. CASE alloc_bootmem
    BY <2>3, PlaceAlloc
  <2>4. CASE HeapExhausts
    BY <2>4, PlaceSame DEF HeapExhausts
  <2>5. CASE MarkBusy \/ memory_init
    <3>1. /\ step \in 11 .. 12 /\ step' = step + 1
          /\ UNCHANGED <<phy_mem_size, bootmem_page_index, table>>
      BY <2>5, RequestShape DEF MarkBusy, memory_init
    <3>2. \A k : Place(k)' = Place(k)
      BY <3>1 DEF Place, pte_count
    <3>3. /\ Len(table) = 10 /\ bootmem_page_index = Place(11) /\ bootmem_page_index < HEAP_END
          /\ \A k \in 1 .. Len(table) : table[k].name = NameOf[k] /\ table[k].first = Place(k)
      <4>1. CASE step = 11
        <5>1. Len(table) = step - 1 /\ bootmem_page_index = Place(step) /\ bootmem_page_index < HEAP_END
          BY <4>1 DEF PlaceInv
        <5>2. Len(table) = 10 /\ bootmem_page_index = Place(11)
          BY <4>1, <5>1
        <5> QED
          BY <3>1, <5>1, <5>2 DEF PlaceInv
      <4>2. CASE step = 12
        BY <4>2 DEF PlaceInv
      <4> QED
        BY <3>1, <4>1, <4>2
    <3>4. step' \in 12 .. 13
      BY <3>1
    <3> QED
      BY <3>1, <3>2, <3>3, <3>4 DEF PlaceInv
  <2> QED
    BY <2>1, <2>2, <2>3, <2>4, <2>5, Parts DEF MemNext
<1> QED
  BY <1>1, <1>2, BootHeap, PTL DEF BootSpec

\* Wherever the code goes the address it uses is mapped as it expects: 8 MB by
\* the tables of setup.asm; all of memory and nothing behind it, the APICs and
\* the BIOS by those of paging_init, for every even size of memory.
THEOREM BootMapped == ASSUME EvenMemory PROVE BootSpec => []MemoryMapped
<1>1. ASSUME NEW top \in {0, 256}, NEW p \in TableEdges(4) PROVE Walk(SetupLoops, 144, top, p) = p
  <2>1. PICK q \in 0 .. 3, r \in 0 .. 511 : p = 512 * q + r
    <3>1. PICK n \in Nat : n = 4
      OBVIOUS
    <3>2. PICK q \in 0 .. n - 1, r \in 0 .. 511 : p = 512 * q + r
      <4>1. p \in TableEdges(n)
        BY Zenon, <3>1
      <4> QED
        BY <4>1, Edges
    <3>3. q \in 0 .. 3
      BY <3>1
    <3> QED
      BY <3>2, <3>3
  <2> QED
    BY <2>1, SetupMaps
<1>2. ASSUME PlaceInv, Done
      PROVE  LET map(p) == Walk(KernelLoops, At("pgd"), 256, p)
                 mapped == page_count - (IF OddSize THEN 256 ELSE 0)
             IN  /\ \A p \in TableEdges(pte_count) : map(p) = p
                 /\ map(mapped - 1) = mapped - 1
                 /\ map(mapped) = NotPresent
                 /\ \A p \in TableEdges(10) : map(786432 + p) = RESERV_FRAME + p
                 /\ Walk(KernelLoops, At("pgd"), 0, 0) = NotPresent
  <2>1. step = 13
    BY <1>2, RequestShape DEF Done
  <2>2. PICK h \in 8 .. 256 : phy_mem_size = 2 * h
    <3>1. phy_mem_size \in 16 .. 512 /\ phy_mem_size % 2 = 0
      BY <1>2, <2>1 DEF PlaceInv, HeapInv, HeapStep
    <3> QED
      BY <3>1
  <2>3. page_count = 512 * h /\ pte_count = h /\ pmd_count = 1
    BY <2>2 DEF page_count, pte_count, pmd_count, AtLeastOne
  <2>4. h \in 1 .. 511
    <3>1. bootmem_page_index = 530 + 10 * h /\ bootmem_page_index < HEAP_END
      BY <1>2, <2>1, <2>3 DEF PlaceInv, Place
    <3> QED
      BY <3>1 DEF HEAP_END
  <2>5. /\ At("pgd") = 515 /\ At("pud") = 516 /\ At("pmd") = 517 /\ At("pte") = 518
        /\ At("pmd_reserv") = 518 + h /\ At("pte_reserv") = 519 + h
    BY <1>2, <2>1, <2>3, TablesAt
  <2>6. PICK L : L = KernelLoops
    OBVIOUS
  <2>7. L = LoopsFor(h)
    BY SMT, <2>3, <2>5, <2>6 DEF KernelLoops, LoopsFor, RESERV_INDEX
  <2>8. Maps(h, L)
    BY SMT, <2>4, <2>7, KernelMaps
  <2>9. ASSUME NEW p \in TableEdges(h) PROVE Walk(L, 515, 256, p) = p
    <3>1. h \in Nat
      OBVIOUS
    <3>2. PICK q \in 0 .. h - 1, r \in 0 .. 511 : p = 512 * q + r
      BY <3>1, Edges
    <3> QED
      BY SMTT(20), <2>8, <3>2 DEF Maps
  <2>10. Walk(L, 515, 256, page_count - 1) = page_count - 1
    <3>1. PICK q \in 0 .. h - 1, r \in 0 .. 511 : q = h - 1 /\ r = 511
      BY SMT
    <3>2. Walk(L, 515, 256, 512 * q + r) = 512 * q + r
      BY SMT, <2>8 DEF Maps
    <3>3. page_count - 1 = 512 * q + r
      BY SMT, <2>3, <3>1
    <3> QED
      BY SMT, <3>2, <3>3
  <2>11. ASSUME NEW p \in TableEdges(10) PROVE Walk(L, 515, 256, 786432 + p) = RESERV_FRAME + p
    <3>1. PICK q \in 0 .. 9, r \in 0 .. 511 : p = 512 * q + r
      <4>1. PICK n \in Nat : n = 10
        OBVIOUS
      <4>2. PICK q \in 0 .. n - 1, r \in 0 .. 511 : p = 512 * q + r
        <5>1. p \in TableEdges(n)
          BY Zenon, <4>1
        <5> QED
          BY <5>1, Edges
      <4>3. q \in 0 .. 9
        BY <4>1
      <4> QED
        BY <4>2, <4>3
    <3> QED
      BY SMTT(20), <2>8, <3>1 DEF Maps
  <2>12. page_count - (IF OddSize THEN 256 ELSE 0) = page_count
    BY <2>2, <2>3 DEF OddSize
  <2> QED
    BY SMT, <2>3, <2>5, <2>6, <2>8, <2>9, <2>10, <2>11, <2>12 DEF Maps
<1>3. PlaceInv => MemoryMapped
  BY SMT, <1>1, <1>2 DEF MemoryMapped
<1> QED
  BY <1>3, BootPlaces, PTL
=============================================================================
