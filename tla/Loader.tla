------------------------------- MODULE Loader -------------------------------
(***************************************************************************)
(* From the BIOS to the kernel: bootsect.asm reads setup.img and the       *)
(* kernel from the floppy, a20.inc opens the A20 line, and setup.asm, as   *)
(* the boot processor runs it, builds the boot GDT and the boot page       *)
(* tables, copies the kernel to 1 MB and writes the boot parameters.       *)
(*                                                                         *)
(* Low memory is counted in blocks of 512 bytes; a block that holds a      *)
(* sector of the floppy holds that sector's number.                        *)
(***************************************************************************)
EXTENDS PageWalk

CONSTANTS Builds,             \* what make has put in: [sects, mem], the sectors
                              \* of the kernel and the megabytes of memory
          A20_ENABLE_LOOPS,   \* rounds of a20_try_loop
          A20_TEST_LOOPS      \* increments of a20_test

VARIABLES build,              \* the build that is started
          pc,                 \* where the loader is
          current_sect,       \* next sector to read
          si,                 \* offset to read to, in blocks
          cx,                 \* sectors still to read
          mem,                \* low memory, the blocks written so far
          a20,                \* the A20 line is open
          high,               \* what the word at 1 MB + 0x200 has more than its alias
          a20_tries,
          image               \* the kernel at 1 MB

loader_vars == <<build, pc, current_sect, si, cx, mem, a20, high, a20_tries, image>>

SETUP_SECT == 8
BOOT_AT   == 62               \* 0x7c00
GDT_AT    == 64               \* 0x8000
SETUP_AT  == 72               \* 0x900:0
KERNEL_AT == 80               \* 0xA00:0
STACK_AT  == 189              \* first push at 0x7c0:0xfffe, since sp = 0
TABLES_AT == 1152             \* PML4 at 0x90000
PARAMS_AT == 1272             \* BOOTING_PARAMS_ADDR 0x9F000
ROM_AT    == 1536             \* 0xC0000, where writing has no effect

\* What else a block can hold.
ZERO   == -1
STACK  == -2
GDT    == -3
TABLES == -4
PARAMS == -5

sect_per_track == 18
head_per_drv == 2

\* m with the given blocks set to value
Fill(m, blocks, value) ==
    [b \in DOMAIN m \cup { x \in blocks : x < ROM_AT } |-> IF b \in blocks THEN value ELSE m[b]]

LoaderInit ==
    /\ build \in Builds
    /\ pc = "read_setup" /\ current_sect = 1 /\ si = 0 /\ cx = SETUP_SECT
    /\ mem = [b \in {BOOT_AT, STACK_AT} |-> IF b = BOOT_AT THEN 0 ELSE STACK]
    /\ a20 \in BOOLEAN /\ high \in {0, 1, A20_TEST_LOOPS}
    /\ a20_tries = A20_ENABLE_LOOPS
    /\ image = << >>

-----------------------------------------------------------------------------
(* bootsect.asm *)

\* int 0x13, service 2: the sector at a cylinder, head and sector number.
BiosSector(ch, dh, cl) == (ch * 2 + dh) * 18 + (cl - 1)

\* What read_one_sect reads.
ReadSector == BiosSector((current_sect \div sect_per_track) \div head_per_drv,
                         (current_sect \div sect_per_track) % head_per_drv,
                         (current_sect % sect_per_track) + 1)

\* inc byte [current_sect]
IncByte(x) == (x \div 256) * 256 + ((x + 1) % 256)

\* One turn of read_sectors.  A sector read over the stack takes the return
\* address with it.
read_sectors(here, base, next) ==
    /\ pc = here
    /\ mem' = Fill(mem, {base + si}, ReadSector)
    /\ current_sect' = IncByte(current_sect)
    /\ si' = (si + 1) % 128
    /\ cx' = cx - 1
    /\ pc' = IF mem'[STACK_AT] # STACK THEN "astray" ELSE IF cx' = 0 THEN next ELSE here
    /\ UNCHANGED <<build, a20, high, a20_tries, image>>

\* The second call of read_sectors is prepared.
NextImage ==
    /\ pc = "next_image"
    /\ si' = 0 /\ cx' = build.sects /\ pc' = "read_kernel"
    /\ UNCHANGED <<build, current_sect, mem, a20, high, a20_tries, image>>

-----------------------------------------------------------------------------
(* a20.inc *)

\* The flags a20_test leaves are those of its last comparison.  With the line
\* closed both addresses are one word; with the line open the word at 1 MB may
\* happen to be what the counter has come to.
a20_test(line) == line /\ high # A20_TEST_LOOPS

\* One way to open the line: the hardware may follow.
TryA20(here, next) ==
    /\ pc = here
    /\ a20' \in {a20, TRUE}
    /\ pc' = IF a20_test(a20') THEN "real" ELSE next
    /\ UNCHANGED <<build, current_sect, si, cx, mem, high, a20_tries, image>>

a20_none == /\ pc = "a20_none"
            /\ pc' = IF a20_test(a20) THEN "real" ELSE "a20_bios"
            /\ UNCHANGED <<build, current_sect, si, cx, mem, a20, high, a20_tries, image>>

a20_bios == TryA20("a20_bios", "a20_kbc")

\* The polls of empty_8042 and of a20_kbc_wait are bounded.
a20_kbc == TryA20("a20_kbc", "a20_fast")

\* Mutant: after the last round the loader goes on instead of stopping.
AfterRound_GoOn(tries) == IF tries = 0 THEN "real" ELSE "a20_none"

AfterRound(tries) == IF tries = 0 THEN "a20_die" ELSE "a20_none"

a20_fast ==
    /\ pc = "a20_fast"
    /\ a20' \in {a20, TRUE}
    /\ IF a20_test(a20')
       THEN pc' = "real" /\ UNCHANGED a20_tries
       ELSE a20_tries' = (a20_tries - 1) % 256 /\ pc' = AfterRound(a20_tries')
    /\ UNCHANGED <<build, current_sect, si, cx, mem, high, image>>

-----------------------------------------------------------------------------
(* setup.asm on the boot processor *)

\* Mutant: es is 0 when the GDT is cleared.
GdtCleared_EsZero == GDT_AT .. GDT_AT + 15

\* The blocks "rep stosd" clears for the GDT: 8 KB from es:0x8000, and es is
\* still 0xb800.
GdtCleared == 1472 + GDT_AT .. 1472 + GDT_AT + 15

\* setup_start
RealMode == /\ pc = "real"
            /\ mem' = Fill(Fill(mem, GdtCleared, ZERO), {GDT_AT}, GDT)
            /\ pc' = "protect"
            /\ UNCHANGED <<build, current_sect, si, cx, a20, high, a20_tries, image>>

\* protect_start: 7*4096 double words are cleared, of which the tables need the
\* first 28 KB.
Protect == /\ pc = "protect"
           /\ mem' = Fill(Fill(mem, TABLES_AT .. TABLES_AT + 223, ZERO),
                          TABLES_AT .. TABLES_AT + 55, TABLES)
           /\ pc' = "long"
           /\ UNCHANGED <<build, current_sect, si, cx, a20, high, a20_tries, image>>

\* long_start: the kernel is copied and the boot parameters are written.
CopyKernel == /\ pc = "long"
              /\ image' = [k \in 1 .. build.sects |-> mem[KERNEL_AT + k - 1]]
              /\ mem' = Fill(mem, {PARAMS_AT}, PARAMS)
              /\ pc' = "entry"
              /\ UNCHANGED <<build, current_sect, si, cx, a20, high, a20_tries>>

\* iretq to _code_start.  The kernel does not come back: what the loader still
\* has in registers and low memory is dropped from the state.
EnterKernel == /\ pc = "entry"
               /\ pc' = "kernel"
               /\ current_sect' = 0 /\ si' = 0 /\ cx' = 0 /\ mem' = << >>
               /\ a20' = TRUE /\ high' = 0 /\ a20_tries' = 0 /\ image' = << >>
               /\ UNCHANGED build

LoaderNext == \/ read_sectors("read_setup", SETUP_AT, "next_image")
              \/ NextImage
              \/ read_sectors("read_kernel", KERNEL_AT, "a20_none")
              \/ a20_none \/ a20_bios \/ a20_kbc \/ a20_fast
              \/ RealMode \/ Protect \/ CopyKernel \/ EnterKernel

\* The boot page tables: 8 MB at linear 0 and at PAGE_OFFSET.
SetupLoops ==
    << Loop(Entry(144, 0),   1,    145, 0),
       Loop(Entry(144, 256), 1,    145, 0),
       Loop(Entry(145, 0),   1,    146, 0),
       Loop(Entry(146, 0),   4,    147, 1),
       Loop(Entry(147, 0),   2048, 0,   1) >>

-----------------------------------------------------------------------------
\* No step of the loader writes over what a later one needs: setup.asm runs as
\* it was read, the kernel at 1 MB is the kernel of the floppy, in order, and
\* GDT, page tables and parameters are there when the kernel starts.  The
\* loader keeps its own stack (read_sectors, setup_start, copy_kernel).
ImageInPlace ==
    /\ pc # "astray"
    /\ pc \in {"real", "protect", "long"} =>
           \A k \in 1 .. SETUP_SECT : mem[SETUP_AT + k - 1] = k
    /\ pc = "entry" =>
           /\ \A k \in 1 .. build.sects : image[k] = SETUP_SECT + k
           /\ mem[GDT_AT] = GDT /\ mem[PARAMS_AT] = PARAMS
           /\ \A b \in TABLES_AT .. TABLES_AT + 55 : mem[b] = TABLES

\* setup.asm, which needs the memory above 1 MB, runs only with the A20 line
\* open, and the loader gives up only when no way has opened the line or the
\* test cannot see that it is open (a20_try_loop).
A20Open == /\ pc \in {"real", "protect", "long", "entry"} => a20
           /\ pc = "a20_die" => ~a20 \/ high = A20_TEST_LOOPS
=============================================================================
