------------------------------ MODULE SmpBoot -------------------------------
(***************************************************************************)
(* From the first instruction of setup.asm to a running second processor.  *)
(* Every processor runs setup.asm; the bootstrap processor first, and the  *)
(* others from the same page when wake_ap sends them INIT and STARTUP.     *)
(* pc[p] names the next step of processor p:                               *)
(*                                                                         *)
(*   off, wait                      an AP that the BIOS stopped, after INIT*)
(*   real .. store                  setup.asm                              *)
(*   start_kernel                   the branch on the processor index      *)
(*   mp_scan .. up                  start_kernel of the BSP, setup_arch    *)
(*                                  included                               *)
(*   hello, spin                    start_kernel of an AP                  *)
(*   halt                           halt()                                 *)
(***************************************************************************)
EXTENDS MPSpec

CONSTANTS bsp, APs,       \* the processors of the machine
          BspApicId,      \* local APIC id of the BSP
          BiosData,       \* what the BIOS may leave, records of kind and table
          CacheOrder,     \* CACHE_CACHE_PAGE
          percpu_size     \* bytes of the per-cpu section

ASSUME ProcessorsAssumption == bsp \notin APs

\* A table of the BIOS, its entries in any order.  Entries of a type that
\* smp_read_mpc has no case for are "unknown".  At most one enabled processor is
\* the bootstrap processor (MP specification).
ValidEntry(m) ==
    /\ m.type \in {"processor", "bus", "ioapic", "intsrc", "lintsrc", "unknown"}
    /\ m.type = "processor" => m.enabled \in BOOLEAN /\ m.boot \in BOOLEAN
    /\ m.type = "bus" => m.busid \in BusIds
    /\ m.type = "ioapic" => m.usable \in BOOLEAN

BspEntries(t) == {n \in 1 .. Len(t) : t[n].type = "processor" /\ t[n].enabled /\ t[n].boot}

ASSUME TableAssumption == \A b \in BiosData :
    /\ Len(b.table) \in Nat
    /\ \A n \in 1 .. Len(b.table) : ValidEntry(b.table[n])
    /\ \A n, k \in BspEntries(b.table) : n = k

Procs == {bsp} \cup APs

VARIABLES pc,
          processor_sig64,  \* processors that have passed setup.asm
          rax,              \* the copy of it a processor is about to store
          index,            \* rdi, the argument of start_kernel
          rsp,              \* stack: 0 KERNEL_STACK_START, 1 two pages below
          image,            \* the kernel image at 1MB: none, copied, wiped
          floating,         \* areas that hold an MP floating pointer
          bios,             \* what the floating pointer leads to, and the table
          entry,            \* entries of the table read so far
          mp,               \* what the kernel has learned, see MPSpec
          granted,          \* pages the page allocator has handed out
          percpu,           \* pages the copies of the per-cpu section are in
          ipi,              \* IPIs on their way to an AP
          lost              \* history: the APs that never saw their INIT

vars == <<pc, processor_sig64, rax, index, rsp, image, floating, bios, entry, mp,
          granted, percpu, ipi, lost>>

setupVars == <<processor_sig64, rax, index, rsp, image, floating>>
kernelVars == <<bios, entry, mp, granted, percpu, ipi, lost>>

None == -1

Init == /\ pc = [p \in Procs |-> IF p = bsp THEN "real" ELSE "off"]
        /\ processor_sig64 = 0
        /\ rax = [p \in Procs |-> None]
        /\ index = [p \in Procs |-> None]
        /\ rsp = [p \in Procs |-> None]
        /\ image = "none"
        /\ floating \in [{Areas[i] : i \in 1 .. Len(Areas)} -> BOOLEAN]
        /\ bios \in BiosData
        /\ entry = 0
        /\ mp = NoConfig
        /\ granted = {} /\ percpu = {}
        /\ ipi = [p \in APs |-> <<>>] /\ lost = {}

Goto(p, from, to) == pc[p] = from /\ pc' = [pc EXCEPT ![p] = to]

-----------------------------------------------------------------------------
(* setup.asm *)

\* 16-bit code: builds the GDT in page 8.
RealMode(p) == /\ Goto(p, "real", "protect")
               /\ UNCHANGED <<setupVars, kernelVars>>

\* 32-bit code: clears 7*4096 doublewords from 0x90000, the extended BIOS data
\* area included, and builds the boot paging tables there.
Protect(p) == /\ Goto(p, "protect", "long")
              /\ floating' = [floating EXCEPT !["ebda"] = FALSE]
              /\ UNCHANGED <<processor_sig64, rax, index, rsp, image, kernelVars>>

\* The first processor clears the kernel area and copies the image.
CopyKernel(p) == /\ Goto(p, "long", "stack")
                 /\ image' = IF processor_sig64 # 0 THEN image
                             ELSE IF image = "none" THEN "copied" ELSE "wiped"
                 /\ UNCHANGED <<processor_sig64, rax, index, rsp, floating, kernelVars>>

\* Mutant: no stack of its own for an AP.
SetStack_Same(p) == /\ Goto(p, "stack", "index")
                    /\ rsp' = [rsp EXCEPT ![p] = 0]
                    /\ UNCHANGED <<processor_sig64, rax, index, image, floating, kernelVars>>

SetStack(p) == /\ Goto(p, "stack", "index")
               /\ rsp' = [rsp EXCEPT ![p] = IF processor_sig64 = 0 THEN 0 ELSE 1]
               /\ UNCHANGED <<processor_sig64, rax, index, image, floating, kernelVars>>

TakeIndex(p) == /\ Goto(p, "index", "load")
                /\ index' = [index EXCEPT ![p] = processor_sig64]
                /\ UNCHANGED <<processor_sig64, rax, rsp, image, floating, kernelVars>>

\* The counter is incremented with a load, an add and a store.
LoadSig(p) == /\ Goto(p, "load", "store")
              /\ rax' = [rax EXCEPT ![p] = processor_sig64 + 1]
              /\ UNCHANGED <<processor_sig64, index, rsp, image, floating, kernelVars>>

StoreSig(p) == /\ Goto(p, "store", "start_kernel")
               /\ processor_sig64' = rax[p]
               /\ UNCHANGED <<rax, index, rsp, image, floating, kernelVars>>

StartKernel(p) == /\ Goto(p, "start_kernel", IF index[p] = 0 THEN "mp_scan" ELSE "hello")
                  /\ UNCHANGED <<setupVars, kernelVars>>

\* The AP prints and goes on to its endless loop.
Hello(p) == /\ Goto(p, "hello", "spin")
            /\ UNCHANGED <<setupVars, kernelVars>>

-----------------------------------------------------------------------------
(* start_kernel of the bootstrap processor.  p is the processor that runs   *)
(* it, which is the BSP as long as OneBsp holds.                            *)

\* mp_spec_init up to the call of smp_read_mpc, and the checks that starts
\* with.  Only a table with a good header is read: a default configuration
\* (feature1 # 0), a null pointer or a bad header end in halt().
MpScan(p) == LET ok == smp_scan_config(floating) /\ bios.kind = "table"
             IN /\ Goto(p, "mp_scan", IF ok THEN "mp_read" ELSE "halt")
                /\ mp' = IF smp_scan_config(floating) THEN NoConfig ELSE mp
                /\ entry' = 0
                /\ UNCHANGED <<bios, granted, percpu, ipi, lost, setupVars>>

\* Mutant: entries of local interrupts are not skipped.
MpRead_NoSkip(p) ==
    /\ pc[p] = "mp_read" /\ entry < Len(bios.table)
    /\ LET m == bios.table[entry + 1]
           s == mp_entry(mp, m)
       IN /\ mp' = s
          /\ pc' = IF m.type = "intsrc" /\ irqs_full(s) THEN [pc EXCEPT ![p] = "halt"] ELSE pc
          /\ entry' = IF m.type \in {"lintsrc", "unknown"} THEN entry ELSE entry + 1
    /\ UNCHANGED <<bios, granted, percpu, ipi, lost, setupVars>>

\* One turn of the loop of smp_read_mpc.  The switch has no default: an entry of
\* an unknown type is looked at again in the next turn, and so for ever.
MpRead(p) == /\ pc[p] = "mp_read" /\ entry < Len(bios.table)
             /\ LET m == bios.table[entry + 1]
                    s == mp_entry(mp, m)
                IN /\ mp' = s
                   /\ pc' = IF m.type = "intsrc" /\ irqs_full(s)
                            THEN [pc EXCEPT ![p] = "halt"] ELSE pc
                   /\ entry' = IF m.type = "unknown" THEN entry ELSE entry + 1
             /\ UNCHANGED <<bios, granted, percpu, ipi, lost, setupVars>>

MpDone(p) == /\ entry = Len(bios.table)
             /\ Goto(p, "mp_read", "memory")
             /\ UNCHANGED <<kernelVars, setupVars>>

\* First fit on a fresh mem_map: page 0 is busy, nothing has been freed.
alloc_pages(order) == LET first == Cardinality(granted) + 1
                      IN granted' = granted \cup (first .. first + 2^order - 1)

\* memory_init, kmem_cache_init
MemoryInit(p) == /\ Goto(p, "memory", "apic")
                 /\ alloc_pages(CacheOrder)
                 /\ UNCHANGED <<bios, entry, mp, percpu, ipi, lost, setupVars>>

\* The id register holds the id in bits 24..31; boot_cpu_id is the id itself.
APIC_ID == BspApicId * 2^24

\* init_bsp_APIC; valid: verify_local_APIC
InitBspApic(p) == \E valid \in BOOLEAN :
    /\ Goto(p, "apic", IF /\ APIC_ID = mp.boot_cpu_id
                          /\ APIC_ID = mp.bios_cpu_apicid[mp.boot_cpu_id]
                          /\ valid
                       THEN "smp" ELSE "halt")
    /\ UNCHANGED <<kernelVars, setupVars>>

fls64(x) == IF x = 0 THEN 0 ELSE CHOOSE n \in 1 .. 31 : 2^(n - 1) <= x /\ x < 2^n

\* Mutant: one copy more.
PERCPU_COPIES_Six == 6

PERCPU_COPIES == 5

\* smp_init, setup_per_cpu_areas: the block is sized for NR_CPUS copies, the
\* copies are written one behind the other.
SmpInit(p) == LET first == Cardinality(granted) + 1
              IN /\ Goto(p, "smp", "init_ipi")
                 /\ alloc_pages(fls64((percpu_size \div 4096) * NR_CPUS))
                 /\ percpu' = first .. first + (PERCPU_COPIES * percpu_size - 1) \div 4096
                 /\ UNCHANGED <<bios, entry, mp, ipi, lost, setupVars>>

\* An ICR write: all processors but this one.  Nothing waits for the delivery of
\* the one before, so what an AP has not taken yet may be overwritten in the ICR.
Send(what) == \E late \in SUBSET {p \in APs : ipi[p] # <<>>} :
    /\ ipi' = [p \in APs |-> Append(IF p \in late THEN SubSeq(ipi[p], 1, Len(ipi[p]) - 1)
                                    ELSE ipi[p], what)]
    /\ lost' = lost \cup {p \in late : ipi[p][Len(ipi[p])] = "INIT"}

\* The three ICR writes of wake_ap; delay() does not run its inner loop.
WakeInit(p) == /\ Goto(p, "init_ipi", "sipi1")
               /\ Send("INIT")
               /\ UNCHANGED <<bios, entry, mp, granted, percpu, setupVars>>

\* Mutant: STARTUP is not sent.
WakeStartup_None(p) == /\ \/ Goto(p, "sipi1", "sipi2")
                          \/ Goto(p, "sipi2", "icr")
                       /\ UNCHANGED <<kernelVars, setupVars>>

WakeStartup(p) == /\ \/ Goto(p, "sipi1", "sipi2")
                     \/ Goto(p, "sipi2", "icr")
                  /\ Send("STARTUP")
                  /\ UNCHANGED <<bios, entry, mp, granted, percpu, setupVars>>

\* busy: the delivery status the ICR shows.
WakeCheck(p) == \E busy \in BOOLEAN :
    /\ Goto(p, "icr", IF busy THEN "halt" ELSE "up")
    /\ UNCHANGED <<kernelVars, setupVars>>

-----------------------------------------------------------------------------
\* External: an AP takes the IPIs that reach it in order.  INIT stops it, and it
\* is ready for STARTUP at once; STARTUP starts a stopped AP at page 9, and a
\* running one, or one that had no INIT, ignores it.
TakeIpi(p) == /\ ipi[p] # <<>>
              /\ pc' = [pc EXCEPT ![p] = IF Head(ipi[p]) = "INIT" THEN "wait"
                                         ELSE IF @ = "wait" THEN "real" ELSE @]
              /\ ipi' = [ipi EXCEPT ![p] = Tail(@)]
              /\ UNCHANGED <<bios, entry, mp, granted, percpu, lost, setupVars>>

\* All processors are stopped or in their endless loops.
Idle == /\ \A p \in Procs : pc[p] \in {"off", "wait", "halt", "up", "spin"}
        /\ \A p \in APs : ipi[p] = <<>>
        /\ UNCHANGED vars

Step(p) == \/ RealMode(p) \/ Protect(p) \/ CopyKernel(p) \/ SetStack(p)
           \/ TakeIndex(p) \/ LoadSig(p) \/ StoreSig(p) \/ StartKernel(p)
           \/ Hello(p)
           \/ MpScan(p) \/ MpRead(p) \/ MpDone(p) \/ MemoryInit(p)
           \/ InitBspApic(p) \/ SmpInit(p)
           \/ WakeInit(p) \/ WakeStartup(p) \/ WakeCheck(p)

Next == \/ \E p \in Procs : Step(p)
        \/ \E p \in APs : TakeIpi(p)
        \/ Idle

\* A processor goes on executing, and an IPI that is sent arrives.
Fairness == /\ \A p \in Procs : WF_vars(Step(p))
            /\ \A p \in APs : WF_vars(TakeIpi(p))

Spec == Init /\ [][Next]_vars /\ Fairness

-----------------------------------------------------------------------------
\* Entries that have been read: the processors and the usable I/O APICs among
\* them, and the how-manieth of a set an entry is.
Cpus == {n \in 1 .. entry : bios.table[n].type = "processor" /\ bios.table[n].enabled}
IoApics == {n \in 1 .. entry : /\ bios.table[n].type = "ioapic" /\ bios.table[n].usable
                               /\ bios.table[n].addr # 0}
Rank(S, n) == Cardinality({m \in S : m <= n})
AtMost(n, limit) == IF n < limit THEN n ELSE limit

\* The processors that got under the limit of NR_CPUS; the BSP among them, if its
\* entry was not the first; and the slot a processor has in the end.
Accepted == {n \in Cpus : Rank(Cpus, n) <= NR_CPUS}
LateBsp == {n \in Accepted : bios.table[n].boot /\ Rank(Cpus, n) > 1}
CpuSlot(n) == IF bios.table[n].boot THEN 0
              ELSE Rank(Cpus, n) - (IF \E b \in LateBsp : b < n THEN 2 ELSE 1)

\* The processor tables agree with what has been read, whatever its order: all
\* processors up to NR_CPUS are counted, the BSP has slot 0, and the others have
\* theirs in the order of the table, each with its APIC id.  One processor may be
\* missing: an AP that the table lists first loses slot 0 to a BSP that is listed
\* later, and cpu_present_map has one bit less than num_processors says
\* (MP_processor_info, mp_spec.c:152).
CpuTable == LET found == AtMost(Cardinality(Cpus), NR_CPUS)
            IN /\ mp.num_processors = found
               /\ mp.cpu_present_map = 0 .. found - (IF LateBsp = {} THEN 1 ELSE 2)
               /\ \A n \in Accepted : LateBsp = {} \/ Rank(Cpus, n) > 1 =>
                     mp.bios_cpu_apicid[CpuSlot(n)] = bios.table[n].apicid
               /\ \A n \in Cpus : bios.table[n].boot => mp.boot_cpu_id = bios.table[n].apicid

\* mp_ioapics holds the first MAX_IO_APICS usable I/O APICs of the part of the
\* table that has been read, and mp_irqs keeps to its array (MP_ioapic_info,
\* MP_intsrc_info).
TablesKept == /\ Len(mp.mp_ioapics) = AtMost(Cardinality(IoApics), MAX_IO_APICS)
              /\ \A n \in IoApics : Rank(IoApics, n) <= MAX_IO_APICS =>
                    mp.mp_ioapics[Rank(IoApics, n)] = bios.table[n]
              /\ Len(mp.mp_irqs) <= MAX_IRQ_SOURCES

\* The last entry of bus b says that it is a PCI bus.
IsBus(n, b) == bios.table[n].type = "bus" /\ bios.table[n].busid = b
LastIsPci(b) == \E n \in 1 .. entry : /\ IsBus(n, b) /\ bios.table[n].bustype = "PCI"
                                      /\ \A k \in n + 1 .. entry : ~IsBus(k, b)

\* Two different PCI buses never share a PCI number, and a bus known as PCI by
\* its last entry is not marked as something else (MP_bus_info).
PciNumbers ==
    LET pci == {b \in BusIds : mp.mp_bus_id_to_pci_bus[b] # -1}
    IN /\ \A a, b \in pci : a # b => mp.mp_bus_id_to_pci_bus[a] # mp.mp_bus_id_to_pci_bus[b]
       /\ \A b \in BusIds : LastIsPci(b) => b \in pci /\ b \notin mp.mp_bus_not_pci

\* What the kernel knows of the machine is what the BIOS table says, entry by
\* entry (smp_read_mpc).
MpTables == CpuTable /\ TablesKept /\ PciNumbers

\* One processor at most runs the boot path of start_kernel, the image is never
\* cleared under a running kernel, and a processor that an IPI started knows
\* that it is not the first (setup.asm, processor_sig64).
OneBsp == /\ image # "wiped"
          /\ \A p \in APs : index[p] # 0
          /\ \A p, q \in Procs : p # q /\ index[p] # None => index[p] # index[q]

\* Two processors never run on one stack (setup.asm, set_ap_stack).
StacksApart == \A p, q \in Procs : p # q /\ rsp[p] # None => rsp[p] # rsp[q]

\* The second processor runs the code of the first one and stays out of its way
\* (setup.asm).
ProcessorsApart == OneBsp /\ StacksApart

\* Pages of the boot code that mem_map does not mark and an AP still needs: its
\* GDT, setup.asm itself and the boot paging tables it runs on.
BootPages == {8, 9} \cup 144 .. 150

\* The page allocator has not given away the memory an AP starts from, and the
\* copies of the per-cpu section are in pages that were allocated for them
\* (wake_ap, setup_per_cpu_areas).
PagesOwned == granted \cap BootPages = {} /\ percpu \subseteq granted

\* The loop of smp_read_mpc is at an entry it has no case for.
Stuck == /\ pc[bsp] = "mp_read" /\ entry < Len(bios.table)
         /\ bios.table[entry + 1].type = "unknown"

\* Booting comes to an end: the kernel is up or has said why not, unless an entry
\* of an unknown type holds the loop over the MP table (mp_spec.c:355).
BootEnds == <>(pc[bsp] \in {"up", "halt"} \/ Stuck)

\* Once the first STARTUP is out every AP gets to the loop of start_kernel, but
\* for one whose INIT was overwritten by it: the second STARTUP makes up for the
\* loss of the first, and nothing for the loss of INIT (wake_ap, smp.c:54-63).
ApRuns == pc[bsp] = "sipi2" ~> \A p \in APs : pc[p] = "spin" \/ p \in lost

=============================================================================
