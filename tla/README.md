# caos, in TLA+

caos is a small 64-bit kernel for x86: a boot sector, `setup.asm`, and a C
kernel that sets up paging, memory allocators, interrupts, a second processor,
a keyboard and a text screen. This directory holds TLA+ modules for the parts
of it that have state and rules, TLC configurations that check them on small
instances, and TLAPS proofs of the properties that matter most. `PROJECT.json`
lists components, runs, the definitions and the source lines they stand for,
hazards, findings and theorems.

Paths below are relative to `src/src/` unless they start with `docs/`.

## Inventory

| Part | State | Operations | Talks to |
|---|---|---|---|
| spin lock (`spinlock.c`, `include/smp.h`) | lock word, one global `preempt_count` | `spin_lock`, `raw_spin_trylock`, `spin_unlock` | any processor |
| boot sector, `setup.asm` (`bootsect.asm`, `a20.inc`) | low memory, the A20 line, boot page tables | read both images, open A20, copy the kernel | BIOS; starts the kernel |
| boot memory (`page.c`, `setup.c`, `memory.c`) | bump pointer below 8 MB, paging tables, `mem_map`, one zone | `alloc_bootmem`, `paging_init`, `mem_map_init`, `memory_init` | hands over to the page allocator |
| page allocator (`page_alloc.c`) | `count` and `private` of each descriptor, `zone->free_pages` | `alloc_pages`, `free_pages` | slab, per-cpu areas |
| slab allocator (`slab.c`) | cache table, slab lists, a free list in each slab, `mem_map[].slab` | `kmem_cache_create`, `caos_kmalloc`, `caos_kfree`, `kmem_cache_shrink` | page allocator |
| MP table (`mp_spec.c`) | processors, buses, I/O APICs, interrupt sources | search, one handler per kind of entry | AP start, APIC |
| AP start (`setup.asm`, `smp.c`, `main.c`) | `processor_sig64`, stacks, the IPIs under way | `setup.asm` on every processor, `wake_ap`, `start_kernel` | page allocator, MP table |
| per-cpu areas (`percpu.c`) | one block of pages | `setup_per_cpu_areas` | page allocator |
| interrupts (`irq_handler.c`, `irq_entry.asm`, `apic.c`, `io_apic.c`, `idt.c`) | gates, handler table, APIC registers | setup, `handle_irq`, timer handler | keyboard, screen |
| keyboard (`keyboard.c`) | modifier bits | `keyboard_isr` | screen |
| screen (`screen.c`, `printf.c`) | cursor, video memory, the static buffer `sz` | `caos_printf`, `caos_delchar`, `set_cursor`, `scroll_screen`, number conversion | everyone, on both processors |
| exceptions, IDT (`except_entry.asm`, `except_handler.c`, `idt.c`) | gates, the stack | 19 entries, `_ignore_isr` | screen |
| GDT, 8259, processes, helpers | none, or constant after boot | | |

What is hard here, and what therefore has properties:

* *Several processors.* The lock between processors; two processors that
  execute the same boot code and tell each other apart by one counter; two
  processors that print through one buffer and one cursor.
* *Interrupts.* Keys and timer ticks at any moment of boot and later; the order
  of unmasking, registration, acknowledgement and priority.
* *Long sequences of legal calls.* Page and slab allocator: any order of
  allocation and release, and the moment nothing is left.
* *Nesting.* Exceptions, IRQs and NMIs on one stack, with a trap gate here and
  an interrupt gate there.
* *Overwriting.* A loader that reads, clears and builds tables all over the
  first megabyte, its own code and stack included.
* *Arithmetic at the edge.* The end of the zone, the layout of a slab, the size
  of the paging tables, the last cell of the screen.
* *Loops that must end.* The page scan, the MP table, the A20 loop, booting
  itself.

## Modules

| Module | Models | Notes |
|---|---|---|
| `SpinLock` | spin lock | one shared-memory access per step |
| `SpinLockProofs` | | theorems for any set of processors |
| `PagePool` | the promise of the page allocator | abstract specification |
| `PageAlloc` | page allocator, a call in one step | implements `PagePool` as long as blocks end inside the zone |
| `PageAllocProofs` | | invariant and refinement for all constants |
| `PageScan` | page allocator with the search loop step by step | extends `PageAlloc` and implements it |
| `PageScanProofs` | | for every zone, order and history of calls |
| `CacheTable` | `kmem_cache_init`, `kmem_cache_create` and the layout arithmetic | |
| `Slab`, `MCSlab` | `kmalloc`, `kfree`, grow, shrink | composed with `PageAlloc` by `INSTANCE` |
| `SlabProofs` | | for every cache table and zone, on top of `PageAllocProofs` |
| `PageWalk` | loops that write page table entries, the processor's walk | operators |
| `Loader` | `bootsect.asm`, `a20.inc`, `setup.asm` on the BSP | uses `PageWalk` |
| `BootMem` | boot heap, tables, hand-over | uses `PageWalk` |
| `Boot`, `MCBoot` | from the floppy to the slab caches | composes `Loader`, `BootMem`, `CacheTable` |
| `BootProofs` | | for every size of kernel and every even size of memory from 16 to 512 MB |
| `MPSpec` | handlers of MP table entries | operators on one record |
| `SmpBoot`, `MCSmpBoot` | from `setup.asm` to a running AP | uses `MPSpec` |
| `SmpBootProofs` | | for every MP table, in any order; any number of APs where that is true |
| `Console` | screen and character output | operators on a screen |
| `Keyboard` | one scan code: modifiers, character | operators |
| `Interrupts`, `MCInterrupts` | boot of interrupts, dispatch, both handlers | uses `Keyboard`, `Console` |
| `InterruptsProofs` | | for any number of keys and ticks and every screen |
| `PrintSmp`, `MCPrintSmp` | `caos_printf` on two processors, one access per step | uses `Console` |
| `PrintSmpProofs` | | for any processors, texts, buffer and screen |
| `Format` | `print_hex`, `print_decimal` | operators, with a reference definition |
| `Exceptions`, `MCExceptions` | gates, entries, nesting, messages | uses `Format` |

Definitions whose name ends in `_Something` and whose comment starts with
"Mutant" are plausible mistakes. Each property has one that breaks it; they are
listed in `PROJECT.json` and no specification uses them.

How state and actions correspond to the code:

* **SpinLock.** `slock` is `lock->slock`, `pc` the place in `spin_lock`. Each of
  `xchgb`, `bt`, `set_bit`, and the load and the store of `preempt_count` is a
  step. `StaleRax` is what bits 8..63 of RAX hold when `raw_spin_trylock`
  begins: the code writes only AL and returns RAX, so this is an undefined value
  and a nondeterministic choice.
* **PageAlloc, PageScan.** `count`, `private`, `free_pages` are the fields of the
  same name. `PageAlloc` takes a call of `alloc_pages` for one step that finds the
  first fit; in `PageScan` each descriptor the loop looks at is a step, and `first`
  and `last` are the loop's variables. `__free_pages` may be called with any page
  of the zone and any order. `Slack` is the number of descriptors behind the zone
  that exist in the last page of `mem_map`; that there are enough of them is part
  of `HandOver` of `BootMem`. `PagePool` knows only the pages of the zone.
* **Slab.** A slab is named by its first page. `kmalloc` is three actions: an
  object from an existing slab, one from a new slab, and the walk off the table.
  The page allocator is the one of `PageAlloc`, shared with other callers
  (`OtherAlloc`, `OtherFree`).
* **CacheTable.** The numbers of `kmem_cache_create`, with its bytes and pages.
* **PageWalk.** A page table is the loops that wrote it: start, number of
  entries, first frame and stride. `Walk` looks an address up in them. Attribute
  bits are reduced to present or not.
* **Loader.** `mem` is low memory in blocks of 512 bytes, with the number of the
  sector a block holds. Each sector read, each way to open A20, and each of the
  three parts of `setup.asm` is a step. The hardware may open the line at any
  attempt or never; `high` is what the word at 1 MB happens to hold, because
  `a20_test` only looks at its last comparison. When the kernel starts, the
  loader's variables are set to fixed values, so that later states do not
  multiply.
* **BootMem.** Each boot-time table with the pages it asks for and the pages the
  code writes, which are computed separately in the code; `KernelLoops` is what
  `paging_init` writes, pointer arithmetic included. `GdtDescs` is the number of
  descriptors before the first zero one in the page `gdt_init` copies from:
  `setup.asm` writes five and does not clear what follows (see Findings), so
  `GdtAssumption` says what the code relies on, that the page has a zero one.
* **Boot.** The sequence of `main.c`: loader, `setup_arch`, `memory_init`,
  `kmem_cache_init`, then callers of `kmem_cache_create`.
* **SmpBoot.** `pc[p]` is the place of processor p in `setup.asm` or
  `start_kernel`; the increment of `processor_sig64` is a load and a store.
  The MP table lists its entries in any order, entries of a type the kernel does
  not know among them. IPIs are a queue for each AP; because the kernel writes the
  ICR three times without waiting for delivery, `Send` may overwrite the one
  before it, and `lost` remembers the APs whose INIT it was. `InitBspApic` and `WakeCheck` choose what the
  hardware answers, and take the code's error path for a bad answer. `percpu`
  is the pages that `setup_per_cpu_areas` writes its five copies to.
* **Interrupts.** `cpu` is the frame of the handler in progress (one at most,
  because IRQ gates are interrupt gates), with the priority that `handle_irq`
  keeps in `task_pri`. `KeyArrives`, `TimerFires`, `IoApicDeliver`, `Accept`
  and `EOI` are the hardware. `doc` and `pos` are history variables: all text
  ever printed, without a screen, to compare the screen with.
* **PrintSmp.** One step is one access to `sz` or to `cursor_offset`. Where the
  compiler may keep `cursor_offset` in a register or load it again, both
  happen. `alone` and `from` are history variables: the other processor has not
  printed since the call began, and where the cursor was then.
* **Exceptions.** `stack` is the real stack, word by word, and `red` what a leaf
  function keeps in the words below it: the kernel is built without
  `-mno-red-zone` (`Makefile:25`), so the processor's frame goes on top of that.
  `frames` says which handlers are in progress and keeps, as history, the
  processor's state at each interruption. A word that can get printed is eight
  bytes, so that the messages can be compared with what happened; others are just
  numbers. `sz` is the buffer: the text and one piece for each number. Formatting
  is not atomic: `StartText`, then `Convert` (the digits are below `rsp`) and `Copy`
  (they go to the buffer) for each number, then `Show`, with interrupts between
  any two where the gate leaves them on. `disturbed` and `torn` are history:
  another handler has printed meanwhile, a conversion was interrupted while it
  had digits below `rsp`.

## Runs

| Run | Shows | Bounds |
|---|---|---|
| `lock_smp` | mutual exclusion, the lock word agrees, no lock without a holder, if RAX is clear | 3 processors; counters modulo 4 |
| `lock_stale_rax` | *violation*: two holders with stale RAX | 2 processors |
| `lock_inverted_poll` | *violation*: a waiter waits for ever on a free lock | 2 processors, fair |
| `pages` | disjoint blocks, reserved pages, no leak, exact counter; the search loop reads inside `mem_map` (`ReadsInMap`), takes the first fit (`FirstFit`), ends (`ScanEnds`) and looks like one step (`AtomicSpec`) | 10 pages and 3 descriptors behind them, orders 0..2 |
| `pages_zone_end` | *violation*: a block across the end of the zone (`PoolSpec`) | 10 pages, 4 descriptors behind them |
| `slab` | exact free lists, objects keep their pages, no slab lost, size | 6 pages, 2 caches, blocks of 2 pages |
| `slab_exhausted` | *violation*: `kmalloc` faults when nothing is left | 7 pages |
| `boot` | see below | kernels of 1, 2, 9, 64, 108, 109 sectors; every even size of 16..320 MB, every size of 290..310 and 510..512 MB, 17, 19, 127 and 129 MB; the GDT page full; 3 rounds of the A20 loop; 80 sizes of a ninth cache, align 8 and 16 |
| `smp_boot` | tables from the BIOS (`MpTables`), one boot processor and two stacks (`ProcessorsApart`), memory of the AP and of the per-cpu areas (`PagesOwned`), boot ends (`BootEnds`), AP runs (`ApRuns`) | 1 AP; tables of up to 4 processors in any order, with up to 2 other entries (3 where their order matters) behind or before them; room for 3 processors, 2 I/O APICs and 2 interrupts; a per-cpu section of 819 bytes |
| `interrupts` | see below | screen of 3 x 2, 3 keys, 1 tick, 2 bytes in the controller |
| `printing` | nobody leaves the buffer, an undisturbed call is right, every call returns | screen of 4 x 3, a buffer of 4; two messages of the BSP, one of the AP |
| `exceptions` | messages are true, contexts are restored, interrupts go on | 21 vectors, 3 IRQs; up to 2 exceptions and 2 IRQs, three together |

Why the bounds are enough. In `pages` a zone of ten pages with two reserved
ones has runs of three and five: every order fits somewhere and not everywhere,
blocks straddle the end, the zone can be filled, and the search meets every map
that calls can leave behind. In `slab` two slabs of one cache and one of the other fit, so lists have
more than one entry, slabs are destroyed and their pages used again by either
cache or by others. In `smp_boot` four processors and three other entries
overfill the arrays, and the BSP is in every place of the table or missing; 819 bytes is the largest section whose five copies fit
the page that is allocated (the kernel has 40). In `interrupts` three keys are
enough for modifier, character and release, for two scrolls, and for a byte that
waits behind another; the cursor starts in the last row. In `boot` the kernel
sizes are one sector, both sides of a track boundary, several tracks, and the
most that fits below the loader's stack; the memory sizes are from the smallest
to the largest `Makefile:16` names, all of them around the limit of the boot heap. The rounds of the A20 loop are
alike, so three stand for 255. In `printing` a message is as long as the buffer
allows, the cursor starts anywhere in the last row, and the texts have a newline
and a backspace. In `exceptions` three handlers are
enough for every kind of nesting: an NMI or a machine check in an exception or
in an IRQ, an IRQ in either, one of these in a handler that is itself nested, and
one handler after another.

The properties of `interrupts`: an accepted interrupt has its gate and its
handler (`HandlersReady`); between interrupts the APIC has nothing in service
and priority 0 (`PriorityKept`); a keyboard interrupt always finds a byte
(`ByteForEachInterrupt`); modifier bits are the keys that are down
(`ModifiersTrackKeys`); the cursor is on the screen and the screen shows the end
of the text (`ScreenIsWindow`); what arrives is served, also when it arrives
during boot (`InterruptsServed`).

The properties of `boot`: nothing the loader writes destroys what a later step
needs, and the kernel at 1 MB is the kernel of the floppy (`ImageInPlace`); with
a closed A20 line it does not go on, with an open one it does not give up unless
the test cannot see it (`A20Open`); the page tables of `setup.asm` and those of
`paging_init` map what the code expects where it expects it (`MemoryMapped`);
boot-time tables keep to their pages (`TablesApart`); everything in use is
marked at the hand-over, the count is right and `mem_map` has the slack that the
page scan needs (`HandOver`); every slab fits its pages (`LayoutFits`); a machine
of 16 to 303 MB gets to its slab caches, and a larger one stops for want of boot
heap (`Boots`). What an odd number of megabytes does is part of three of them, and
exact: the last megabyte is not mapped, the loop over the page frames runs half a
page into `pmd_reserv`, and the slack behind `mem_map` is three descriptors short.

The properties of `smp_boot` say where the code falls short, too: an AP that is
listed before the BSP loses its slot, and `cpu_present_map` has one bit less than
`num_processors` says (`MpTables`); an entry of unknown type is where booting may
hang, and the only such place (`BootEnds`); an AP whose INIT was overwritten does
not start, while the loss of a STARTUP does no harm (`ApRuns`).

The properties of `printing`: `TextEnds` is why two processors in `caos_printf`
do not run out of `sz`: the last byte is never written, because every text is
shorter. `Undisturbed` says that a call that nobody overlaps with finds its own
text, and that the cursor is on the screen after every character or, if
overlapping calls left it behind the screen, comes back by a row for every
character. The latter is for a cursor that is at least as many cells into the
screen as the text is long: nearer to the top left corner a text of backspaces
takes the cursor below zero (see Findings). While calls overlap no bound on the cursor holds.

The properties of `exceptions`: `ReportTrue` (a message that is shown is that of
the exception, its error code and its address, unless another handler has printed
since it was begun or a conversion was torn by an interrupt, and neither happens
where interrupts are off and no NMI or machine check comes; the double fault shows
its error code for the address); `ContextKept` (after any nesting registers,
address, flag and stack are what they were, and what a leaf function had below
`rsp` is not: it finds the stack selector there); `InterruptsGoOn` (an exception
that ends in `jmp $` behind a trap gate leaves the processor able to serve
interrupts). The assumptions `DecimalReadsBack` and `HexReadsBack` of
`MCExceptions` compare the conversions of `Format` with a reference definition
for all numbers of ten bits and for every pair of neighbouring bytes.

Deadlock is checked in every run. Where the code really stops (halted, endless
loop) the module says so with an action (`Idle`, `Halted`, `Stopped`, `Done`,
`Loop`).

### Fairness

* `SpinLock`: a processor that is inside `spin_lock` or `spin_unlock` goes on.
  Nothing makes anybody call `spin_lock`, and nothing is assumed of the lock.
* `PageScan`: a search that has begun goes on; nothing makes anybody call.
  `Boot`: sequential code goes on.
* `SmpBoot`: each processor goes on, and an IPI that is not overwritten in the ICR
  arrives; the local APIC guarantees the latter.
* `PrintSmp`: a processor that is inside `caos_printf` goes on. Nothing makes it
  call.
* `Exceptions`: the processor goes on, and takes an interrupt that stays pending
  while it may take it. Exceptions and IRQs are not fair.
* `Interrupts`: the processor goes on, the I/O APIC sends what a pin holds, the
  processor takes an interrupt it may take. Keys and timer are not fair.

Weak fairness is enough throughout: nothing in the code waits for a condition
that others switch on and off, except the spin lock, whose polling loop is the
subject of `lock_inverted_poll`.

## Proofs

Constants are arbitrary within the named assumptions of the modules; where a
theorem needs more than the specification does, it says so with `ASSUME`. Each
invariant of a passing run has a theorem, for `boot` with an even size of memory.

* **SpinLockProofs.** `LockTypeCorrect`; `LockNeverOrphaned` (a locked word has
  a holder, for every content of RAX; inductive with the type invariant);
  `LockMutualExclusion` and `LockWordHeld`, under the assumption that RAX is
  clear. Their inductive invariant is mutual exclusion together with
  `LockedInCS`: only with "locked while held" can the exchange be known to fail
  for a second processor.
* **PageAllocProofs.** `AllocatorInvariant` for any number of pages, slack, set
  of reserved descriptors and largest order up to 5. The inductive invariant
  adds to the checked properties that a free page has no order left in
  `private` (`PrivateFresh`); without it a later allocation could revive an old
  block. From it: `AllocatorTypeCorrect`, `AllocatorDisjoint`,
  `AllocatorKeepsReserved`, `AllocatorAccounting`, `AllocatorNoLeak`, and
  `AllocatorImplementsPool`: as long as no block goes over the end of the zone
  (`WithinZone`), `alloc_pages` is `Grant` and `__free_pages` is `Release` of a
  `PagePool` whose frames are the pages of the zone. Without that it is false, as
  `pages_zone_end` shows. `PoolWithMarkedEnd` says what is missing from the code:
  if the first descriptor behind the zone reads as used, every block stays inside
  (`EndMarkedWithin`), and the allocator implements `PagePool` in every run.
* **PageScanProofs.** `ScanIsFirstFit` and `ScanReadsInMap` for every zone, order
  and history of calls. The inductive invariant says that no run that fits starts
  before `first` and that the `last` descriptors from `first` on are free; the
  skip `first += last` is right because every skipped start has the busy
  descriptor inside its run. `ScanImplementsAllocator` follows: the loop's last
  step is the one step of `PageAlloc`, the others are stutters, so the theorems
  about `PageAlloc` hold of the code with its loop.
* **SlabProofs.** `SlabFreeLists`, `SlabsAgree` and `SlabObjects` from the
  inductive invariant `SlabInv`: the page allocator's own invariant, the block
  and the `mem_map[].slab` entries of each slab (`PageInv`), the list of slabs of
  each cache (`ListInv`), and the objects that are out (`LiveInv`). The page
  allocator is used through what `PageAllocProofs` proves of a grant and a
  release, so `OtherAlloc` and `OtherFree` cost two lemmas. A free list is an
  injective chain (`Chained`) that ends in `BUFCTL_END`; that the walk
  `FreeList` runs along it is shown by the least index at which it would not
  (the walk is a recursive function, and induction over it is not available).
  `SlabObjects` needs a table in the order of sizes (`OrderedTable`), as
  `kmem_cache_init` makes it; the others hold for any table.
* **BootProofs.** `BootA20` for any number of rounds. `BootImage` for kernels of
  1 to 109 sectors: `ImageInv` lists, for each step of the loader, the blocks
  that hold what is still needed. `BootTablesApart` and `BootHandOver` for every
  even size of memory from 16 to 512 MB (`EvenMemory`; odd sizes are model-checked): `HeapInv` gives each table its pages in terms of the memory size,
  also where the heap runs out. `BootMapped`: what the loops of `setup.asm` and
  `paging_init` write is looked up level by level (`Written`, `NotWritten`,
  `WalkAlong`), with `PlaceInv` for where each table is. `BootLayout` for every
  object size and alignments up to 16 (`SmallAligns`; larger ones are a
  finding), which are those the kernel uses.
* **SmpBootProofs.** `SmpControl` is who may be where, for any number of APs:
  the boot path is taken once, and an AP never has index 0 or the BSP's stack.
  With one AP this is `SmpApart`; for several it is false (see Findings).
  `SmpPagesOwned` for cache orders 0..2 and sections of 1 to 819 bytes, the
  sizes for which five copies fit. `SmpTables` for every table, its
  entries in any order, and every size of the kernel's arrays; of the table only
  what `TableAssumption` says is used, that its entries are well formed and at most
  one is the BSP's. The inductive invariant `TableInv` says what the kernel's tables
  are after each entry, so it is the reference definition for a part of the table;
  that a processor's slot is its rank among those read, less one behind a BSP that
  came late, rests on lemmas about ranks in a set (`RankOrder`, `SlotRange`).
* **InterruptsProofs.** `ServiceReady`, `ServiceKeepsPriority`,
  `ServiceHasByte` from `ServiceInv`: what is set up after each step of
  `start_kernel`, where the processor is, what the local APIC has in each step
  of `handle_irq`, and that a pin that has sent an interrupt sends no other
  before its EOI, so the byte waits. `ServiceTracksModifiers`: `key.status`,
  replayed over the bytes that wait in the controller, comes to the keys that
  are down (`ReplayInv`). `ServiceScreen`: screen and text agree wherever the
  screen is scrolled to (`ScreenInv`); `KeyboardAssumption` (the controller
  holds fewer bytes than the screen has cells below its first row) keeps
  waiting backspaces off the top left corner.
* **PrintSmpProofs.** `PrintTextEnds`: the last byte of `sz` stays NUL however
  calls overlap (`BufferInv`), because every text is shorter than the buffer
  (`TextsAssumption`). `PrintUndisturbed`: `AloneInv` follows a call without
  overlap through formatting and output, with the distance the cursor can have
  gone.

Only model-checked:

* Liveness, which is outside the prover: `ScanEnds`, `Boots`, `BootEnds`,
  `ApRuns`, `InterruptsServed`, `PrintsEnd`, `InterruptsGoOn`.
* `ContextKept` and `ReportTrue` of `Exceptions`. The second rests on what the
  conversions of `Format` compute, which needs induction over digits.
* Odd sizes of memory in `TablesApart`, `HandOver` and `MemoryMapped`.

## Findings

Four violations have runs:

1. `raw_spin_trylock` returns stale bits of RAX (`spinlock.c:14`): with a
   nonzero leftover the lock is taken although it is held.
2. `spin_is_locked` is true for a free lock (`spinlock.c:45`): waiters wait
   while the lock is free.
3. `__alloc_pages` does not compare `first+last` with the end of the zone
   (`page_alloc.c:90`), so a block that goes over it is granted
   (`include/memory.h:35`: "Only page in the same zone can be allocated, not across
   zones."). `ReadsInMap` and `HandOver` say why the descriptors at least exist.
4. `caos_kmalloc` runs off the cache table when pages are exhausted
   (`slab.c:504`).

Stated by the properties of passing runs, or met while modelling:

* `bootsect.asm:41`: with `sp` = 0 the stack starts at 0x17BFE. A kernel of more
  than 109 sectors is read over it, one of more than 128 over its own start,
  and `inc byte [current_sect]` wraps at 256. `int 0x13` errors are ignored.
* `a20.inc:112`: `loop` where the code it was ported from has `loope`: only the
  last of the 32 comparisons counts. An open line is missed if the word at 1 MB
  happens to be what the counter comes to, and then in every round.
* `setup.asm:84`: the GDT area is cleared with `es` = 0xb800, so 8 KB of ROM are
  "cleared" and the GDT is not; with `es` = 0, as the comment has it, the code
  would erase itself. So `gdt_init` (`gdt.c:105`), which copies descriptors up to
  the first zero one, depends on what the BIOS left in that page; without a zero in
  it the copy would leave its page. `setup.asm:152` clears 28 pages, its comment says 7.
* `page.c:293`: `pmd + l*PAGE_SIZE` counts in entries. It is harmless as long as
  there is one PMD, that is, below 2 GB; the boot heap ends far below.
* `except_entry.asm:255`: the double fault pushes a zero although the processor
  has pushed an error code, which is then printed for the address (`ReportTrue`).
* `Makefile:25`: no `-mno-red-zone`. An interrupt overwrites what a leaf function
  keeps below `rsp` (`ContextKept`); `print_hex` and `print_decimal` are such
  functions and lose digits when they are interrupted behind a trap gate
  (`ReportTrue`).
* `_general_protection` is the only exception that returns, to the instruction
  that faulted: the message is printed again and again.
* A message of an exception behind a trap gate can be replaced or mixed in `sz`
  with that of a key pressed while it is formatted or shown (`ReportTrue`).
* Two processors in `caos_printf` can mix their texts and leave the cursor
  behind the screen.
* `page_alloc.c:62` wants `free_pages > count`: a zone with exactly as many
  pages as asked for, in one run, is refused, although the comment says "find
  zone that has enough pages". `PageAlloc` has the guard of the code.
* `slab.c:288`: with an alignment of 32 and size 8, or 128 and sizes up to 80,
  the last object ends behind the slab's pages (`Aligns = {32, 64, 128}` in
  `Boot.cfg` shows it). The kernel's own caches have alignment 16.
* `slab.c:504`: a cache of small objects that is created after the default ones
  can serve a larger request when pages are short (`ObjSize = <<1, 2, 1>>`,
  `Num = <<3, 2, 3>>`, `GfpOrder = <<1, 2, 1>>` in `Slab` shows it).
* `slab.c:582`: a second `caos_kfree` of an object is noticed only if no object
  of the slab is out; otherwise the object is on the free list twice.
* 512 MB (`Makefile:16`, `docs/memory_map.txt:65`): `mem_map` does not fit below
  8 MB and boot halts with "KERNEL HEAP EXHAUSTS"; 303 MB is the most that boots
  (`Boots`).
* `page.c:254`: an odd number of megabytes leaves the last one unmapped although
  the page allocator has its pages (`MemoryMapped`), and its entries are written
  into the next table, where what is filled later overwrites the first ten
  (`TablesApart`). `mem_map` then has 28 descriptors behind the zone: a search for
  a block of 32 pages can look at three behind those (`HandOver`).
* `mp_spec.c:152`: an AP that the table lists before the BSP loses its slot
  (`MpTables`). The loop of `smp_read_mpc` never ends on an entry of unknown type
  (`BootEnds`). `mp_spec.c:143` ignores processors beyond the limit, but `wake_ap`
  starts all: two APs would get the same stack and, if they run at once, the same
  index.
* `apic.c:189`: the raw id register is compared with the id, so a BSP whose APIC
  id is not 0 halts.
* `setup.asm` clears 0x90000..0xABFFF: a floating pointer in the extended BIOS
  data area is gone before `mp_spec_init` looks there.
* `smp.c:62`: the inner loop of `delay()` does not run, so INIT and both STARTUPs
  follow each other at once, and one may overwrite the one before it in the ICR. An
  AP that misses INIT stays off (`ApRuns`).
* `include/bitops.h:167`: `test_bit` is `lock; btq`. The instruction set does not
  allow the prefix with `bt`; see Assumptions.
* `io_apic.c:67`: pins are programmed active low, where the line of the keyboard is
  active high; see Assumptions.
* IRQs 22..31 have entry code but no gate. `_ignore_isr` sends no EOI.
  `RESTORE_ALL` pops `fs` and `gs` in the order they were pushed; both hold the
  same selector.
* `percpu.c`: five copies of the section are written into a block sized for
  `NR_CPUS` whole pages; up to 819 bytes they fit, at 40 bytes now.
* `printf.c:32`: backspace in the top left corner takes the cursor below zero.
  With NumLock, ScrollLock or Alt alone every key prints 0xff. F5 and Ctrl-H act
  as backspace.
* `printf.c`: the most negative number is printed as "-".
* `preempt_count` is one plain counter for all processors; updates are lost.

## Assumptions about the machine

The repository runs on QEMU (`run.sh` and `run.bat` at its root, `docs/qemu.txt`), and two
things are modelled as they are there. `lock; btq` tests the bit and raises no
invalid-opcode exception (`spin_is_locked` of `SpinLock`, `print_decimal` of
`Format`); on a processor that raises one, neither `spin_lock` nor `%d` gets past
it. And the emulated I/O APIC does not look at the polarity of a pin, so the pin
is asserted while a byte waits (`IoApicDeliver` of `Interrupts`). The local APIC
delivers IPIs that are not overwritten, in order, and an AP is ready for STARTUP
when it has taken INIT. An NMI or machine check does not interrupt its own handler.

## Not modelled

* The bit layout of segment descriptors (`gdt.c`) and of attribute bits in
  paging entries: constants that are written once and never read by the code.
* Read errors of the floppy, which the code does not look at.
* The parsing of formats: a message is the text it comes to, and the numbers in
  it are those of `Format`. `cpuid` output, dump functions, the hardware cursor.
* The AP's counter in the corner of the screen (`main.c:38`).
* 8259 (not called), process management (no code), headers that nothing uses
  (`atomic.h`, `page-flags.h`, most of `apic.h` and `processor.h`), string
  functions beyond the assignments they make.
* `docs/spinlock_test/lock.c`: a test in user space of an older lock; it is a
  source of expectations (see finding 2).
* Concurrency inside the allocators: only the boot processor calls them, before
  interrupts are on.

## Plan

Done: the modules above, in this order: lock, page allocator and scan, slab and
cache table, boot memory, MP table and AP start, interrupts to screen; then
printing on two processors, exceptions and number conversion, page tables, the
boot loader, and the composition of all of booting. What is left of the code has
no state or is not called.

The invariants of all passing runs are proved. Next, prove:

1. `Exceptions`: `ContextKept` for any nesting. The invariant needed says that
   the stack is, frame by frame from the bottom, the stack of the interruption,
   the five or six words of the processor and, from "format" to "restore", the
   registers in the order of `SAVE_ALL`, and that nothing is below `rsp` when a
   handler is entered or left;
2. `SpinLock`: that the lock, with RAX clear, implements an abstract lock.

## Running

    tlc -config Interrupts.cfg MCInterrupts
    tlapm PageAllocProofs.tla
    tlapm SlabProofs.tla
