--------------------------- MODULE SmpBootProofs ----------------------------
(***************************************************************************)
(* Proofs about module SmpBoot: which processor runs which part of the     *)
(* boot path, for any number of APs; that one AP stays apart from the BSP; *)
(* the pages an AP starts from; and the tables read from any MP table.     *)
(***************************************************************************)
EXTENDS SmpBoot, FiniteSetTheorems, TLAPS

\* setup.asm up to the store of processor_sig64; the rest of the BSP's way; and
\* where an AP can be.
Early == {"real", "protect", "long", "stack", "index", "load", "store"}
BspLate == {"start_kernel", "mp_scan", "mp_read", "memory", "apic", "smp", "init_ipi",
            "sipi1", "sipi2", "icr", "up", "halt"}
ApPoints == Early \cup {"off", "wait", "start_kernel", "hello", "spin"}

\* While the BSP is in setup.asm it is alone.
BspFirst == /\ pc[bsp] \in Early => /\ processor_sig64 = 0
                                    /\ \A p \in APs : pc[p] = "off" /\ ipi[p] = <<>>
            /\ pc[bsp] \in {"real", "protect", "long"} => image = "none"
            /\ pc[bsp] = "store" => rax[bsp] = 1
            /\ pc[bsp] \in BspLate => processor_sig64 >= 1
            /\ pc[bsp] \in BspLate \cup {"load", "store"} => index[bsp] = 0
            /\ index[bsp] \in {None, 0} /\ rsp[bsp] \in {None, 0}

\* An AP that runs knows that it is not the first.
ApLater(p) == /\ index[p] = None \/ index[p] >= 1
              /\ rsp[p] \in {None, 1}
              /\ pc[p] = "store" => rax[p] >= 1
              /\ pc[p] \in {"load", "store", "start_kernel"} => index[p] >= 1

ControlInv == /\ pc \in [Procs -> Early \cup BspLate \cup ApPoints]
              /\ pc[bsp] \in Early \cup BspLate
              /\ \A p \in APs : pc[p] \in ApPoints
              /\ processor_sig64 \in Nat
              /\ rax \in [Procs -> Int] /\ index \in [Procs -> Int] /\ rsp \in [Procs -> Int]
              /\ image \in {"none", "copied"}
              /\ ipi \in [APs -> Seq({"INIT", "STARTUP"})]
              /\ BspFirst
              /\ \A p \in APs : ApLater(p)

-----------------------------------------------------------------------------
\* A step of the BSP in setup.asm.
LEMMA ControlBspEarly ==
    ASSUME ControlInv, Step(bsp), pc[bsp] \in Early
    PROVE  ControlInv'
<1> USE ProcessorsAssumption DEF Procs, Goto, Early, BspLate, ApPoints, BspFirst, ApLater,
        ControlInv, setupVars, kernelVars, None
<1>1. CASE RealMode(bsp)
  BY <1>1 DEF RealMode
<1>2. CASE Protect(bsp)
  BY <1>2 DEF Protect
<1>3. CASE CopyKernel(bsp)
  BY <1>3 DEF CopyKernel
<1>4. CASE SetStack(bsp)
  BY <1>4 DEF SetStack
<1>5. CASE TakeIndex(bsp)
  BY <1>5 DEF TakeIndex
<1>6. CASE LoadSig(bsp)
  BY <1>6 DEF LoadSig
<1>7. CASE StoreSig(bsp)
  <2>1. processor_sig64' = 1 /\ pc' = [pc EXCEPT ![bsp] = "start_kernel"]
    BY <1>7 DEF StoreSig
  <2>2. UNCHANGED <<rax, index, rsp, image, ipi>>
    BY <1>7 DEF StoreSig
  <2>3. index[bsp] = 0 /\ pc'[bsp] = "start_kernel" /\ \A p \in APs : pc'[p] = "off"
    BY <1>7, <2>1 DEF StoreSig
  <2>4. BspFirst'
    BY <2>1, <2>2, <2>3
  <2>5. \A p \in APs : ApLater(p)'
    BY <2>2, <2>3
  <2> HIDE DEF BspFirst, ApLater
  <2> QED
    BY <2>1, <2>2, <2>3, <2>4, <2>5
<1>8. \/ RealMode(bsp) \/ Protect(bsp) \/ CopyKernel(bsp) \/ SetStack(bsp)
      \/ TakeIndex(bsp) \/ LoadSig(bsp) \/ StoreSig(bsp)
  BY DEF Step, StartKernel, Hello, MpScan, MpRead, MpDone, MemoryInit, InitBspApic, SmpInit,
     WakeInit, WakeStartup, WakeCheck
<1> HIDE DEF ControlInv
<1> QED
  BY <1>1, <1>2, <1>3, <1>4, <1>5, <1>6, <1>7, <1>8

\* An ICR write leaves a sequence of IPIs for every AP, whatever it overwrites.
LEMMA SendType ==
    ASSUME ipi \in [APs -> Seq({"INIT", "STARTUP"})],
           NEW what \in {"INIT", "STARTUP"}, Send(what)
    PROVE  ipi' \in [APs -> Seq({"INIT", "STARTUP"})]
<1> DEFINE Ipis == {"INIT", "STARTUP"}
<1>1. PICK late \in SUBSET {p \in APs : ipi[p] # <<>>} :
          ipi' = [p \in APs |-> Append(IF p \in late THEN SubSeq(ipi[p], 1, Len(ipi[p]) - 1)
                                       ELSE ipi[p], what)]
  BY DEF Send
<1>2. ASSUME NEW p \in APs
      PROVE  Append(IF p \in late THEN SubSeq(ipi[p], 1, Len(ipi[p]) - 1) ELSE ipi[p], what)
               \in Seq(Ipis)
  <2>1. ipi[p] \in Seq(Ipis) /\ Len(ipi[p]) \in Nat
    OBVIOUS
  <2>2. SubSeq(ipi[p], 1, Len(ipi[p]) - 1) \in Seq(Ipis)
    BY <2>1
  <2> QED
    BY <2>1, <2>2
<1> QED
  BY <1>1, <1>2

\* A step of the BSP in start_kernel: it leaves what setup.asm set alone, moves
\* on along its own path, and sends IPIs.
LEMMA BspLateStep ==
    ASSUME ControlInv, Step(bsp), pc[bsp] \in BspLate
    PROVE  /\ UNCHANGED setupVars
           /\ \E to \in BspLate : pc' = [pc EXCEPT ![bsp] = to]
           /\ ipi' \in [APs -> Seq({"INIT", "STARTUP"})]
<1>1. CASE StartKernel(bsp)
  BY <1>1 DEF StartKernel, Goto, setupVars, kernelVars, BspLate, ControlInv, BspFirst
<1>2. CASE MpScan(bsp)
  BY <1>2 DEF MpScan, Goto, setupVars, BspLate, ControlInv
<1>3. CASE MpRead(bsp)
  <2>1. pc' = [pc EXCEPT ![bsp] = "halt"] \/ pc' = pc
    BY <1>3 DEF MpRead
  <2>2. pc = [pc EXCEPT ![bsp] = "mp_read"]
    BY <1>3 DEF MpRead, ControlInv
  <2> QED
    BY <1>3, <2>1, <2>2 DEF MpRead, setupVars, BspLate, ControlInv
<1>4. CASE MpDone(bsp)
  BY <1>4 DEF MpDone, Goto, setupVars, kernelVars, BspLate, ControlInv
<1>5. CASE MemoryInit(bsp)
  BY <1>5 DEF MemoryInit, Goto, setupVars, BspLate, ControlInv
<1>6. CASE InitBspApic(bsp)
  BY <1>6 DEF InitBspApic, Goto, setupVars, kernelVars, BspLate, ControlInv
<1>7. CASE SmpInit(bsp)
  BY <1>7 DEF SmpInit, Goto, setupVars, BspLate, ControlInv
<1>8. CASE WakeInit(bsp)
  BY <1>8, SendType DEF WakeInit, Goto, setupVars, BspLate, ControlInv
<1>9. CASE WakeStartup(bsp)
  BY <1>9, SendType DEF WakeStartup, Goto, setupVars, BspLate, ControlInv
<1>10. CASE WakeCheck(bsp)
  BY <1>10 DEF WakeCheck, Goto, setupVars, kernelVars, BspLate, ControlInv
<1> QED
  BY <1>1, <1>2, <1>3, <1>4, <1>5, <1>6, <1>7, <1>8, <1>9, <1>10
     DEF Step, RealMode, Protect, CopyKernel, SetStack, TakeIndex, LoadSig, StoreSig, Hello,
         Goto, BspLate

\* A step of an AP: it runs setup.asm after the BSP, and never the boot path.
LEMMA ApStep ==
    ASSUME ControlInv, NEW p \in APs, Step(p)
    PROVE  /\ ControlInv'
           /\ pc'[bsp] = pc[bsp] /\ UNCHANGED kernelVars
<1>1. \/ RealMode(p) \/ Protect(p) \/ CopyKernel(p) \/ SetStack(p)
       \/ TakeIndex(p) \/ LoadSig(p) \/ StoreSig(p) \/ StartKernel(p) \/ Hello(p)
  <2>1. pc[p] \in ApPoints
    BY DEF ControlInv
  <2> QED
    BY <2>1 DEF Step, MpScan, MpRead, MpDone, MemoryInit, InitBspApic, SmpInit,
       WakeInit, WakeStartup, WakeCheck, Goto, ApPoints, Early
<1> USE ProcessorsAssumption DEF Procs, Goto, Early, BspLate, ApPoints, BspFirst, ApLater,
        ControlInv, setupVars, kernelVars, None
<1>2. CASE RealMode(p)
  BY <1>2 DEF RealMode
<1>3. CASE Protect(p)
  BY <1>3 DEF Protect
<1>4. CASE CopyKernel(p)
  BY <1>4 DEF CopyKernel
<1>5. CASE SetStack(p)
  BY <1>5 DEF SetStack
<1>6. CASE TakeIndex(p)
  BY <1>6 DEF TakeIndex
<1>7. CASE LoadSig(p)
  BY <1>7 DEF LoadSig
<1>8. CASE StoreSig(p)
  <2>1. processor_sig64' \in Nat \ {0} /\ pc' = [pc EXCEPT ![p] = "start_kernel"]
    BY <1>8 DEF StoreSig
  <2>2. UNCHANGED <<rax, index, rsp, image>> /\ UNCHANGED kernelVars
    BY <1>8 DEF StoreSig
  <2>3. index[p] >= 1 /\ pc[bsp] \in BspLate
    BY <1>8 DEF StoreSig
  <2> QED
    BY <2>1, <2>2, <2>3
<1>9. CASE StartKernel(p)
  BY <1>9 DEF StartKernel
<1>10. CASE Hello(p)
  BY <1>10 DEF Hello
<1> HIDE DEF ControlInv
<1> QED
  BY <1>2, <1>3, <1>4, <1>5, <1>6, <1>7, <1>8, <1>9, <1>10, <1>1

\* Which processor runs which part of the boot path, for any number of APs: the
\* BSP finishes setup.asm alone and first, an AP never takes index 0, the kernel
\* image is never copied again, and an AP never runs on the BSP's stack.
THEOREM SmpControl == Spec => []ControlInv
<1>1. Init => ControlInv
  BY ProcessorsAssumption DEF Init, ControlInv, BspFirst, ApLater, Procs, Early, BspLate,
     ApPoints, None
<1>2. ControlInv /\ [Next]_vars => ControlInv'
  <2> SUFFICES ASSUME ControlInv, [Next]_vars PROVE ControlInv'
    OBVIOUS
  <2>1. ASSUME Step(bsp) PROVE ControlInv'
    <3>1. CASE pc[bsp] \in Early
      BY <2>1, <3>1, ControlBspEarly
    <3>2. CASE pc[bsp] \in BspLate
      <4>1. PICK to \in BspLate : pc' = [pc EXCEPT ![bsp] = to]
        BY <2>1, <3>2, BspLateStep
      <4>2. UNCHANGED setupVars /\ ipi' \in [APs -> Seq({"INIT", "STARTUP"})]
        BY <2>1, <3>2, BspLateStep
      <4>3. pc'[bsp] = to /\ \A p \in APs : pc'[p] = pc[p]
        BY <4>1, ProcessorsAssumption DEF ControlInv, Procs
      <4>4. to \notin Early
        BY DEF Early, BspLate
      <4> QED
        BY <3>2, <4>1, <4>2, <4>3, <4>4
           DEF ControlInv, BspFirst, ApLater, setupVars, Procs, Early
    <3> QED
      BY <3>1, <3>2 DEF ControlInv
  <2>2. ASSUME NEW p \in APs, Step(p) PROVE ControlInv'
    BY <2>2, ApStep
  <2>3. ASSUME NEW p \in APs, TakeIpi(p) PROVE ControlInv'
    <3>1. pc[bsp] \in BspLate
      BY <2>3 DEF TakeIpi, ControlInv, BspFirst
    <3>2. PICK to \in {"wait", "real", pc[p]} : pc' = [pc EXCEPT ![p] = to]
      BY <2>3 DEF TakeIpi
    <3>3. pc'[bsp] = pc[bsp] /\ \A q \in APs : pc'[q] = IF q = p THEN to ELSE pc[q]
      BY <3>2, ProcessorsAssumption DEF ControlInv, Procs
    <3>4. UNCHANGED setupVars /\ ipi' \in [APs -> Seq({"INIT", "STARTUP"})]
      BY <2>3 DEF TakeIpi, ControlInv
    <3>5. pc'[bsp] \notin Early
      BY <3>1, <3>3 DEF Early, BspLate
    <3> QED
      BY <3>1, <3>2, <3>3, <3>4, <3>5
         DEF ControlInv, BspFirst, ApLater, setupVars, Procs, Early, ApPoints
  <2>4. CASE UNCHANGED vars
    BY <2>4 DEF vars, ControlInv, BspFirst, ApLater
  <2> QED
    BY <2>1, <2>2, <2>3, <2>4 DEF Next, Idle, Procs
<1> QED
  BY <1>1, <1>2, PTL DEF Spec

\* With one AP, the machine the code is written for, both processors have an
\* index and a stack of their own, and the AP leaves the kernel image alone.
THEOREM SmpApart ==
    ASSUME \A p, q \in APs : p = q
    PROVE  Spec => []ProcessorsApart
<1>1. ControlInv => ProcessorsApart
  BY DEF ControlInv, BspFirst, ApLater, ProcessorsApart, OneBsp, StacksApart, Procs, None
<1> QED
  BY <1>1, SmpControl, PTL

\* The state of the kernel changes only in steps of the BSP.
LEMMA OnlyBspBoots ==
    ASSUME ControlInv, [Next]_vars, ~Step(bsp)
    PROVE  pc'[bsp] = pc[bsp] /\ UNCHANGED <<bios, entry, mp, granted, percpu>>
<1>1. ASSUME NEW p \in APs, Step(p) PROVE pc'[bsp] = pc[bsp] /\ UNCHANGED kernelVars
  BY <1>1, ApStep
<1>2. ASSUME NEW p \in APs, TakeIpi(p)
      PROVE  pc'[bsp] = pc[bsp] /\ UNCHANGED <<bios, entry, mp, granted, percpu>>
  BY <1>2, ProcessorsAssumption DEF TakeIpi, ControlInv, Procs
<1>3. CASE UNCHANGED vars
  BY <1>3 DEF vars
<1> QED
  BY <1>1, <1>2, <1>3 DEF Next, Idle, Procs, kernelVars

-----------------------------------------------------------------------------
(* The pages that are allocated while the kernel boots                         *)

Nothing == granted = {} /\ percpu = {}
CachePages == granted = 1 .. 2^CacheOrder /\ percpu = {}
AllPages == granted = 1 .. 2^CacheOrder + 1 /\ percpu = {2^CacheOrder + 1}

PagesInv == /\ pc[bsp] \in Early \cup {"start_kernel", "mp_scan", "mp_read", "memory"} => Nothing
            /\ pc[bsp] \in {"apic", "smp"} => CachePages
            /\ pc[bsp] \in {"init_ipi", "sipi1", "sipi2", "icr", "up"} => AllPages
            /\ pc[bsp] = "halt" => Nothing \/ CachePages \/ AllPages

\* A per-cpu section of which five copies fit into a page needs one page.
LEMMA PercpuFits ==
    ASSUME percpu_size \in 1 .. 819
    PROVE  /\ fls64((percpu_size \div 4096) * NR_CPUS) = 0
           /\ (PERCPU_COPIES * percpu_size - 1) \div 4096 = 0
<1>1. percpu_size \div 4096 = 0 /\ (5 * percpu_size - 1) \div 4096 = 0
  OBVIOUS
<1>2. NR_CPUS \in Nat
  BY LimitsAssumption
<1> QED
  BY <1>1, <1>2 DEF fls64, PERCPU_COPIES

\* setup_per_cpu_areas takes the next page and writes all copies into it.
LEMMA SmpInitEffect ==
    ASSUME SmpInit(bsp), percpu_size \in 1 .. 819,
           NEW N \in Nat, granted = 1 .. N
    PROVE  /\ Goto(bsp, "smp", "init_ipi")
           /\ granted' = 1 .. N + 1 /\ percpu' = {N + 1}
<1>1. Goto(bsp, "smp", "init_ipi")
  BY DEF SmpInit
<1>2. Cardinality(granted) = N
  BY FS_Interval
<1> DEFINE first == Cardinality(granted) + 1
           order == fls64((percpu_size \div 4096) * NR_CPUS)
           last == (PERCPU_COPIES * percpu_size - 1) \div 4096
<1>3. /\ granted' = granted \cup (first .. first + 2^order - 1)
      /\ percpu' = first .. first + last
  BY SMT DEF SmpInit, alloc_pages
<1>4. order = 0 /\ last = 0 /\ first = N + 1
  BY <1>2, PercpuFits
<1> HIDE DEF first, order, last
<1>5. granted' = granted \cup (N + 1 .. (N + 1) + 2^0 - 1) /\ percpu' = N + 1 .. (N + 1) + 0
  BY <1>3, <1>4, Zenon
<1>6. 2^0 = 1
  OBVIOUS
<1>7. granted' = 1 .. N + 1 /\ percpu' = {N + 1}
  BY <1>5, <1>6
<1> QED
  BY <1>1, <1>7

\* The page allocator hands out neither page 8 and 9 nor the boot paging tables
\* while an AP may still start from them, and the five copies of the per-cpu
\* section stay inside the block that setup_per_cpu_areas allocated: for a cache
\* of caches of up to four pages (slab.h has two) and a section of which five
\* copies fit into a page (the kernel's has 40 bytes).
THEOREM SmpPagesOwned ==
    ASSUME CacheOrder \in 0 .. 2, percpu_size \in 1 .. 819
    PROVE  Spec => []PagesOwned
<1>1. PICK N \in 1 .. 4 : N = 2^CacheOrder
  <2>1. 2^0 = 1 /\ 2^1 = 2 /\ 2^2 = 4
    OBVIOUS
  <2>2. CacheOrder = 0 \/ CacheOrder = 1 \/ CacheOrder = 2
    OBVIOUS
  <2>3. 2^CacheOrder = 2^0 \/ 2^CacheOrder = 2^1 \/ 2^CacheOrder = 2^2
    BY <2>2, Zenon
  <2>4. 2^CacheOrder = 1 \/ 2^CacheOrder = 2 \/ 2^CacheOrder = 4
    BY <2>1, <2>3, Zenon
  <2> QED
    BY <2>4
<1>2. Init => PagesInv
  BY DEF Init, PagesInv, Nothing, Procs, Early
<1>3. ControlInv /\ PagesInv /\ [Next]_vars => PagesInv'
  <2> SUFFICES ASSUME ControlInv, PagesInv, [Next]_vars PROVE PagesInv'
    OBVIOUS
  <2> USE DEF Goto, PagesInv, Early
  <2>1. CASE ~Step(bsp)
    BY <2>1, OnlyBspBoots DEF Nothing, CachePages, AllPages
  <2>2. ASSUME NEW to, pc' = [pc EXCEPT ![bsp] = to] PROVE pc'[bsp] = to
    BY <2>2 DEF ControlInv, Procs
  <2>3. CASE MemoryInit(bsp)
    <3>1. pc[bsp] = "memory" /\ pc'[bsp] = "apic" /\ granted = {} /\ percpu' = {}
      BY <2>2, <2>3 DEF MemoryInit, Nothing
    <3>2. granted' = 1 .. N
      BY <1>1, <2>3, <3>1, FS_EmptySet DEF MemoryInit, alloc_pages
    <3> QED
      BY <1>1, <3>1, <3>2 DEF CachePages
  <2>4. CASE SmpInit(bsp)
    <3>1. pc[bsp] = "smp"
      BY <2>4 DEF SmpInit
    <3>2. granted = 1 .. N
      BY <1>1, <3>1 DEF CachePages
    <3>3. pc'[bsp] = "init_ipi" /\ granted' = 1 .. N + 1 /\ percpu' = {N + 1}
      <4>1. Goto(bsp, "smp", "init_ipi") /\ granted' = 1 .. N + 1 /\ percpu' = {N + 1}
        <5>1. N \in Nat
          BY <1>1
        <5> HIDE DEF Goto
        <5> QED
          BY <2>4, <3>2, <5>1, SmpInitEffect
      <4>2. pc' = [pc EXCEPT ![bsp] = "init_ipi"]
        BY <4>1
      <4> QED
        BY <2>2, <4>1, <4>2
    <3> QED
      BY <1>1, <3>3 DEF AllPages
  <2>5. CASE UNCHANGED <<granted, percpu>> /\ Step(bsp)
    <3>1. UNCHANGED <<Nothing, CachePages, AllPages>>
      BY <2>5 DEF Nothing, CachePages, AllPages
    <3>2. CASE RealMode(bsp) \/ Protect(bsp) \/ CopyKernel(bsp) \/ SetStack(bsp)
               \/ TakeIndex(bsp) \/ LoadSig(bsp) \/ StoreSig(bsp) \/ Hello(bsp)
      BY <2>2, <3>1, <3>2 DEF RealMode, Protect, CopyKernel, SetStack, TakeIndex, LoadSig,
         StoreSig, Hello, ControlInv, BspLate
    <3>3. CASE StartKernel(bsp)
      BY <2>2, <3>1, <3>3 DEF StartKernel, ControlInv, BspFirst, BspLate
    <3>4. CASE MpScan(bsp) \/ MpDone(bsp)
      BY <2>2, <3>1, <3>4 DEF MpScan, MpDone
    <3>5. CASE MpRead(bsp)
      BY <2>2, <3>1, <3>5 DEF MpRead
    <3>6. CASE InitBspApic(bsp)
      BY <2>2, <3>1, <3>6 DEF InitBspApic
    <3>7. CASE WakeInit(bsp) \/ WakeStartup(bsp) \/ WakeCheck(bsp)
      BY <2>2, <3>1, <3>7 DEF WakeInit, WakeStartup, WakeCheck
    <3> QED
      BY <2>3, <2>4, <2>5, <3>2, <3>3, <3>4, <3>5, <3>6, <3>7 DEF Step
  <2>6. Step(bsp) => MemoryInit(bsp) \/ SmpInit(bsp) \/ UNCHANGED <<granted, percpu>>
    BY DEF Step, RealMode, Protect, CopyKernel, SetStack, TakeIndex, LoadSig, StoreSig,
       StartKernel, Hello, MpScan, MpRead, MpDone, InitBspApic, WakeInit, WakeStartup,
       WakeCheck, kernelVars
  <2> QED
    BY <2>1, <2>3, <2>4, <2>5, <2>6
<1>4. ControlInv /\ PagesInv => PagesOwned
  <2> SUFFICES ASSUME ControlInv, PagesInv PROVE PagesOwned
    OBVIOUS
  <2>1. Nothing \/ CachePages \/ AllPages
    BY DEF ControlInv, PagesInv, BspLate
  <2>2. granted \subseteq 1 .. 5 /\ percpu \subseteq granted
    BY <1>1, <2>1 DEF Nothing, CachePages, AllPages
  <2>3. (1 .. 5) \cap BootPages = {}
    BY DEF BootPages
  <2> QED
    BY <2>2, <2>3 DEF PagesOwned
<1> QED
  BY <1>2, <1>3, <1>4, SmpControl, PTL DEF Spec

-----------------------------------------------------------------------------
(* What the kernel learns from the MP table                                    *)

Entry == UNION {{b.table[n] : n \in 1 .. Len(b.table)} : b \in BiosData}
Ids == {NO_APIC, 0} \cup {m.apicid : m \in Entry}
MpType == [cpu_present_map : SUBSET Int, bios_cpu_apicid : [0 .. NR_CPUS - 1 -> Ids],
           num_processors : Nat, disabled_cpus : Nat, boot_cpu_id : Ids,
           mp_bus_not_pci : SUBSET BusIds, mp_bus_id_to_pci_bus : [BusIds -> Int],
           mp_current_pci_id : Nat, mp_ioapics : Seq(Entry), mp_irqs : Seq(Entry)]

SameCpus(r, s) == /\ r.cpu_present_map = s.cpu_present_map /\ r.boot_cpu_id = s.boot_cpu_id
                  /\ r.num_processors = s.num_processors
                  /\ r.bios_cpu_apicid = s.bios_cpu_apicid
SameBuses(r, s) == /\ r.mp_bus_not_pci = s.mp_bus_not_pci
                   /\ r.mp_bus_id_to_pci_bus = s.mp_bus_id_to_pci_bus
                   /\ r.mp_current_pci_id = s.mp_current_pci_id

\* The first zero bit of a map of the first n processors is bit n.
LEMMA FirstCpu ==
    ASSUME NEW n \in 0 .. NR_CPUS
    PROVE  first_cpu(0 .. n - 1) = n
<1>1. NR_CPUS \in Nat
  BY LimitsAssumption
<1>2. n \notin 0 .. n - 1 /\ \A d \in 0 .. n - 1 : d \in 0 .. n - 1
  BY <1>1
<1>3. ASSUME NEW c \in 0 .. NR_CPUS, c \notin 0 .. n - 1, \A d \in 0 .. c - 1 : d \in 0 .. n - 1
      PROVE  c = n
  <2>1. c >= n
    BY <1>1, <1>3
  <2>2. ~(c > n)
    BY <1>1, <1>3, <1>2
  <2> QED
    BY <1>1, <2>1, <2>2
<1> QED
  BY <1>2, <1>3 DEF first_cpu

\* A record with one well-typed field changed is well typed.
LEMMA FieldUpdate ==
    ASSUME NEW s \in MpType
    PROVE  /\ \A x \in SUBSET Int : [s EXCEPT !.cpu_present_map = x] \in MpType
           /\ \A x \in [0 .. NR_CPUS - 1 -> Ids] : [s EXCEPT !.bios_cpu_apicid = x] \in MpType
           /\ \A x \in Nat : [s EXCEPT !.num_processors = x] \in MpType
           /\ \A x \in Nat : [s EXCEPT !.disabled_cpus = x] \in MpType
           /\ \A x \in Ids : [s EXCEPT !.boot_cpu_id = x] \in MpType
           /\ \A x \in SUBSET BusIds : [s EXCEPT !.mp_bus_not_pci = x] \in MpType
           /\ \A x \in [BusIds -> Int] : [s EXCEPT !.mp_bus_id_to_pci_bus = x] \in MpType
           /\ \A x \in Nat : [s EXCEPT !.mp_current_pci_id = x] \in MpType
           /\ \A x \in Seq(Entry) : [s EXCEPT !.mp_ioapics = x] \in MpType
           /\ \A x \in Seq(Entry) : [s EXCEPT !.mp_irqs = x] \in MpType
<1>1. \A x \in SUBSET Int : [s EXCEPT !.cpu_present_map = x] \in MpType
  BY DEF MpType
<1>2. \A x \in [0 .. NR_CPUS - 1 -> Ids] : [s EXCEPT !.bios_cpu_apicid = x] \in MpType
  BY DEF MpType
<1>3. \A x \in Nat : [s EXCEPT !.num_processors = x] \in MpType
  BY DEF MpType
<1>4. \A x \in Nat : [s EXCEPT !.disabled_cpus = x] \in MpType
  BY DEF MpType
<1>5. \A x \in Ids : [s EXCEPT !.boot_cpu_id = x] \in MpType
  BY DEF MpType
<1>6. \A x \in SUBSET BusIds : [s EXCEPT !.mp_bus_not_pci = x] \in MpType
  BY DEF MpType
<1>7. \A x \in [BusIds -> Int] : [s EXCEPT !.mp_bus_id_to_pci_bus = x] \in MpType
  BY DEF MpType
<1>8. \A x \in Nat : [s EXCEPT !.mp_current_pci_id = x] \in MpType
  BY DEF MpType
<1>9. \A x \in Seq(Entry) : [s EXCEPT !.mp_ioapics = x] \in MpType
  BY DEF MpType
<1>10. \A x \in Seq(Entry) : [s EXCEPT !.mp_irqs = x] \in MpType
  BY DEF MpType
<1> QED
  BY <1>1, <1>2, <1>3, <1>4, <1>5, <1>6, <1>7, <1>8, <1>9, <1>10

\* The processor number MP_processor_info gives.
Slot(s, m) == IF m.boot THEN 0 ELSE first_cpu(s.cpu_present_map)

\* What MP_processor_info does: it writes the processor tables and nothing
\* else.
CpuEffect(r, s, m, cpu) ==
    /\ SameBuses(r, s) /\ r.mp_ioapics = s.mp_ioapics /\ r.mp_irqs = s.mp_irqs
    /\ ~m.enabled => SameCpus(r, s)
    /\ m.enabled => r.boot_cpu_id = IF m.boot THEN m.apicid ELSE s.boot_cpu_id
    /\ m.enabled /\ s.num_processors >= NR_CPUS =>
          /\ r.num_processors = s.num_processors
          /\ r.cpu_present_map = s.cpu_present_map
          /\ r.bios_cpu_apicid = s.bios_cpu_apicid
    /\ m.enabled /\ ~(s.num_processors >= NR_CPUS) =>
          /\ r.num_processors = s.num_processors + 1
          /\ r.cpu_present_map = s.cpu_present_map \cup {cpu}
          /\ r.bios_cpu_apicid = [s.bios_cpu_apicid EXCEPT ![cpu] = m.apicid]

\* MP_processor_info has this effect as long as the slot it takes exists.
LEMMA ProcessorEffect ==
    ASSUME NEW s \in MpType, NEW m \in Entry, m.enabled \in BOOLEAN,
           NEW r, r = MP_processor_info(s, m), NEW cpu, cpu = Slot(s, m),
           s.num_processors < NR_CPUS => cpu \in 0 .. NR_CPUS - 1
    PROVE  r \in MpType /\ CpuEffect(r, s, m, cpu)
<1> DEFINE id == IF m.boot THEN m.apicid ELSE s.boot_cpu_id
           b == [s EXCEPT !.boot_cpu_id = id]
<1>1. NR_CPUS \in Nat /\ id \in Ids /\ m.apicid \in Ids
  BY LimitsAssumption DEF Ids, MpType
<1>2. /\ b.boot_cpu_id = id /\ SameBuses(b, s) /\ b.mp_ioapics = s.mp_ioapics
      /\ b.mp_irqs = s.mp_irqs /\ b.num_processors = s.num_processors
      /\ b.cpu_present_map = s.cpu_present_map /\ b.bios_cpu_apicid = s.bios_cpu_apicid
  BY DEF MpType, SameBuses
<1>3. b \in MpType
  BY <1>1, FieldUpdate
<1> HIDE DEF b, id
<1>4. CASE ~m.enabled
  <2>1. r = [s EXCEPT !.disabled_cpus = s.disabled_cpus + 1]
    BY <1>4 DEF MP_processor_info
  <2>2. s.disabled_cpus + 1 \in Nat
    BY DEF MpType
  <2>3. r \in MpType
    BY <2>1, <2>2, FieldUpdate
  <2>4. /\ SameCpus(r, s) /\ SameBuses(r, s)
        /\ r.mp_ioapics = s.mp_ioapics /\ r.mp_irqs = s.mp_irqs
    BY <2>1 DEF MpType, SameCpus, SameBuses
  <2> QED
    BY <1>4, <2>3, <2>4 DEF CpuEffect
<1>5. CASE m.enabled /\ s.num_processors >= NR_CPUS
  <2>1. r = b
    BY <1>5 DEF MP_processor_info, b, id
  <2> QED
    BY <1>2, <1>3, <1>5, <2>1 DEF id, CpuEffect
<1>6. CASE m.enabled /\ ~(s.num_processors >= NR_CPUS)
  <2> DEFINE n == s.num_processors + 1
             f == [s.bios_cpu_apicid EXCEPT ![cpu] = m.apicid]
             map == s.cpu_present_map \cup {cpu}
             b1 == [b EXCEPT !.num_processors = n]
             b2 == [b1 EXCEPT !.bios_cpu_apicid = f]
             b3 == [b2 EXCEPT !.cpu_present_map = map]
  <2>1. r = [b EXCEPT !.num_processors = @ + 1, !.bios_cpu_apicid[cpu] = m.apicid,
                      !.cpu_present_map = @ \cup {cpu}]
    BY <1>6 DEF MP_processor_info, Slot, b, id
  <2>2. r = b3
    BY <2>1, <1>2, <1>3 DEF MpType
  <2>3. cpu \in 0 .. NR_CPUS - 1
    BY <1>1, <1>6 DEF MpType
  <2>4. n \in Nat /\ f \in [0 .. NR_CPUS - 1 -> Ids] /\ map \in SUBSET Int
    BY <1>1, <2>3 DEF MpType
  <2>5. b3 \in MpType
    <3> HIDE DEF n, f, map
    <3>1. b1 \in MpType
      BY <1>3, <2>4, FieldUpdate
    <3>2. b2 \in MpType
      BY <2>4, <3>1, FieldUpdate
    <3> QED
      BY <2>4, <3>2, FieldUpdate
  <2>6. /\ SameBuses(r, b) /\ r.mp_ioapics = b.mp_ioapics /\ r.mp_irqs = b.mp_irqs
        /\ r.boot_cpu_id = b.boot_cpu_id
        /\ r.num_processors = n /\ r.cpu_present_map = map /\ r.bios_cpu_apicid = f
    <3> HIDE DEF n, f, map
    <3> QED
      BY <1>3, <2>2 DEF MpType, SameBuses
  <2> QED
    BY <1>2, <1>6, <2>2, <2>5, <2>6 DEF id, SameBuses, CpuEffect
<1> QED
  BY <1>4, <1>5, <1>6

\* What MP_bus_info does: it writes the bus tables and nothing else.
BusChange(r, s, m) ==
    /\ SameCpus(r, s) /\ r.mp_ioapics = s.mp_ioapics /\ r.mp_irqs = s.mp_irqs
    /\ m.bustype # "PCI" => /\ r.mp_bus_not_pci \subseteq s.mp_bus_not_pci \cup {m.busid}
                            /\ r.mp_bus_id_to_pci_bus = s.mp_bus_id_to_pci_bus
                            /\ r.mp_current_pci_id = s.mp_current_pci_id
    /\ m.bustype = "PCI" => /\ r.mp_bus_not_pci = s.mp_bus_not_pci \ {m.busid}
                            /\ r.mp_bus_id_to_pci_bus =
                                  [s.mp_bus_id_to_pci_bus EXCEPT ![m.busid] = s.mp_current_pci_id]
                            /\ r.mp_current_pci_id = s.mp_current_pci_id + 1

\* MP_bus_info has this effect.
LEMMA BusEffect ==
    ASSUME NEW s \in MpType, NEW m, m.busid \in BusIds, NEW r, r = MP_bus_info(s, m)
    PROVE  r \in MpType /\ BusChange(r, s, m)
<1>1. CASE m.bustype = "ISA"
  <2> DEFINE not == s.mp_bus_not_pci \cup {m.busid}
  <2>1. r = [s EXCEPT !.mp_bus_not_pci = not] /\ not \in SUBSET BusIds
    BY <1>1 DEF MP_bus_info, MpType
  <2> HIDE DEF not
  <2>2. r \in MpType
    BY <2>1, FieldUpdate
  <2>3. /\ SameCpus(r, s) /\ r.mp_ioapics = s.mp_ioapics /\ r.mp_irqs = s.mp_irqs
        /\ r.mp_bus_not_pci = not /\ r.mp_bus_id_to_pci_bus = s.mp_bus_id_to_pci_bus
        /\ r.mp_current_pci_id = s.mp_current_pci_id
    BY <2>1 DEF MpType, SameCpus
  <2> QED
    BY <1>1, <2>2, <2>3 DEF not, BusChange
<1>2. CASE m.bustype = "PCI"
  <2> DEFINE not == s.mp_bus_not_pci \ {m.busid}
             f == [s.mp_bus_id_to_pci_bus EXCEPT ![m.busid] = s.mp_current_pci_id]
             n == s.mp_current_pci_id + 1
             s1 == [s EXCEPT !.mp_bus_not_pci = not]
             s2 == [s1 EXCEPT !.mp_bus_id_to_pci_bus = f]
             s3 == [s2 EXCEPT !.mp_current_pci_id = n]
  <2>1. r = [s EXCEPT !.mp_bus_not_pci = @ \ {m.busid},
                      !.mp_bus_id_to_pci_bus[m.busid] = s.mp_current_pci_id,
                      !.mp_current_pci_id = @ + 1]
    BY <1>2 DEF MP_bus_info
  <2>2. r = s3
    BY <2>1 DEF MpType
  <2>3. not \in SUBSET BusIds /\ f \in [BusIds -> Int] /\ n \in Nat
    BY DEF MpType
  <2> HIDE DEF not, f, n
  <2>4. r \in MpType
    <3>1. s1 \in MpType
      BY <2>3, FieldUpdate
    <3>2. s2 \in MpType
      BY <2>3, <3>1, FieldUpdate
    <3> QED
      BY <2>2, <2>3, <3>2, FieldUpdate, ZenonT(30)
  <2>5. /\ SameCpus(r, s) /\ r.mp_ioapics = s.mp_ioapics /\ r.mp_irqs = s.mp_irqs
        /\ r.mp_bus_not_pci = not /\ r.mp_bus_id_to_pci_bus = f /\ r.mp_current_pci_id = n
    BY <2>2 DEF MpType, SameCpus
  <2> QED
    BY <1>2, <2>4, <2>5 DEF not, f, n, BusChange
<1>3. CASE m.bustype # "ISA" /\ m.bustype # "PCI"
  <2>1. r = s
    BY <1>3 DEF MP_bus_info
  <2> QED
    BY <1>3, <2>1 DEF SameCpus, BusChange
<1> QED
  BY <1>1, <1>2, <1>3

\* MP_ioapic_info and MP_intsrc_info append to their own table only.
LEMMA AppendEffect ==
    ASSUME NEW s \in MpType, NEW m \in Entry, NEW r
    PROVE  /\ r = [s EXCEPT !.mp_ioapics = Append(@, m)] =>
                 /\ r \in MpType /\ SameCpus(r, s) /\ SameBuses(r, s)
                 /\ r.mp_ioapics = Append(s.mp_ioapics, m) /\ r.mp_irqs = s.mp_irqs
           /\ r = MP_intsrc_info(s, m) =>
                 /\ r \in MpType /\ SameCpus(r, s) /\ SameBuses(r, s)
                 /\ r.mp_irqs = Append(s.mp_irqs, m) /\ r.mp_ioapics = s.mp_ioapics
<1> DEFINE io == Append(s.mp_ioapics, m)
           irq == Append(s.mp_irqs, m)
<1>1. io \in Seq(Entry) /\ irq \in Seq(Entry)
  BY DEF MpType
<1> HIDE DEF io, irq
<1>2. [s EXCEPT !.mp_ioapics = io] \in MpType /\ [s EXCEPT !.mp_irqs = irq] \in MpType
  BY <1>1, FieldUpdate
<1>3. ASSUME r = [s EXCEPT !.mp_ioapics = io]
      PROVE  /\ SameCpus(r, s) /\ SameBuses(r, s) /\ r.mp_ioapics = io /\ r.mp_irqs = s.mp_irqs
  BY <1>3 DEF MpType, SameCpus, SameBuses
<1>4. ASSUME r = [s EXCEPT !.mp_irqs = irq]
      PROVE  /\ SameCpus(r, s) /\ SameBuses(r, s) /\ r.mp_irqs = irq
             /\ r.mp_ioapics = s.mp_ioapics
  BY <1>4 DEF MpType, SameCpus, SameBuses
<1> QED
  BY <1>2, <1>3, <1>4 DEF MP_intsrc_info, io, irq

\* Counting: one more entry that belongs to a set has the next rank, and the
\* ranks of the others stay.
LEMMA RankExtend ==
    ASSUME NEW k \in Nat, NEW S \in SUBSET (1 .. k)
    PROVE  /\ IsFiniteSet(S) /\ Cardinality(S) \in Nat
           /\ Cardinality(S \cup {k + 1}) = Cardinality(S) + 1
           /\ \A i \in S : /\ Rank(S \cup {k + 1}, i) = Rank(S, i)
                           /\ Rank(S, i) \in 1 .. Cardinality(S)
           /\ Rank(S \cup {k + 1}, k + 1) = Cardinality(S) + 1
<1>1. IsFiniteSet(1 .. k)
  BY FS_Interval
<1>2. IsFiniteSet(S) /\ Cardinality(S) \in Nat
  BY <1>1, FS_Subset, FS_CardinalityType
<1>3. k + 1 \notin S /\ k + 1 \in Int /\ \A i \in S : i \in Int /\ i <= k
  OBVIOUS
<1>4. Cardinality(S \cup {k + 1}) = Cardinality(S) + 1
  BY <1>2, <1>3, FS_AddElement
<1>5. ASSUME NEW i \in S
      PROVE  Rank(S \cup {k + 1}, i) = Rank(S, i) /\ Rank(S, i) \in 1 .. Cardinality(S)
  <2>1. {m \in S \cup {k + 1} : m <= i} = {m \in S : m <= i}
    <3>1. ~(k + 1 <= i)
      BY <1>3
    <3>2. ASSUME NEW m PROVE m \in S \cup {k + 1} /\ m <= i <=> m \in S /\ m <= i
      BY <3>1
    <3> QED
      BY <3>2
  <2>2. {m \in S : m <= i} \in SUBSET S /\ i \in {m \in S : m <= i}
    OBVIOUS
  <2>3. IsFiniteSet({m \in S : m <= i}) /\ Cardinality({m \in S : m <= i}) <= Cardinality(S)
    BY <1>2, <2>2, FS_Subset
  <2>4. Cardinality({m \in S : m <= i}) \in Nat /\ Cardinality({m \in S : m <= i}) # 0
    BY <2>2, <2>3, FS_CardinalityType, FS_EmptySet
  <2> QED
    BY <1>2, <2>1, <2>3, <2>4 DEF Rank
<1>6. Rank(S \cup {k + 1}, k + 1) = Cardinality(S) + 1
  <2>1. {m \in S \cup {k + 1} : m <= k + 1} = S \cup {k + 1}
    <3>1. \A m \in S : m <= k + 1
      BY <1>3
    <3>2. k + 1 <= k + 1
      OBVIOUS
    <3> QED
      BY <3>1, <3>2, Zenon
  <2> QED
    BY <1>4, <2>1 DEF Rank
<1> QED
  BY <1>2, <1>4, <1>5, <1>6

\* Ranks follow the order of the entries.
LEMMA RankOrder ==
    ASSUME NEW k \in Nat, NEW S \in SUBSET (1 .. k), NEW i \in S, NEW j \in S, i < j
    PROVE  Rank(S, i) < Rank(S, j)
<1> DEFINE A == {m \in S : m <= i}
           B == {m \in S : m <= j}
<1>1. IsFiniteSet(S)
  BY RankExtend
<1>2. A \subseteq B /\ j \in B /\ j \notin A /\ B \subseteq S
  <2>1. i \in Int /\ j \in Int /\ ~(j <= i) /\ j <= j
    OBVIOUS
  <2>2. \A m \in S : m <= i => m <= j
    BY <2>1
  <2> QED
    BY <2>1, <2>2, Zenon
<1>3. IsFiniteSet(B) /\ A # B
  BY <1>1, <1>2, FS_Subset
<1> HIDE DEF A, B
<1>4. IsFiniteSet(A) /\ Cardinality(A) \in Nat /\ Cardinality(B) \in Nat
  BY <1>2, <1>3, FS_Subset, FS_CardinalityType
<1>5. Cardinality(A) <= Cardinality(B) /\ (Cardinality(A) = Cardinality(B) => A = B)
  BY <1>2, <1>3, FS_Subset
<1> QED
  BY <1>3, <1>4, <1>5 DEF Rank, A, B

-----------------------------------------------------------------------------
\* One more entry of the table has been read.
ReadOne == /\ bios \in BiosData /\ bios' = bios
           /\ entry \in 0 .. Len(bios.table) - 1 /\ entry' = entry + 1

\* Where the numbers the kernel gives to PCI buses are.
BusInv == /\ \A b \in BusIds : /\ mp.mp_bus_id_to_pci_bus[b] >= -1
                               /\ mp.mp_bus_id_to_pci_bus[b] < mp.mp_current_pci_id
          /\ PciNumbers

\* The inductive invariant of the reading of the MP table.
TableInv == /\ bios \in BiosData /\ entry \in 0 .. Len(bios.table) /\ mp \in MpType
            /\ pc[bsp] \in Early \cup {"start_kernel", "mp_scan"} => mp = NoConfig /\ entry = 0
            /\ pc[bsp] = "mp_read" => Len(mp.mp_irqs) < MAX_IRQ_SOURCES
            /\ CpuTable /\ TablesKept /\ BusInv

\* What the kernel expects of a table.
LEMMA TableEntry ==
    ASSUME ReadOne
    PROVE  LET m == bios.table[entry + 1]
           IN  /\ m \in Entry /\ ValidEntry(m)
               /\ m.type = "processor" /\ m.enabled /\ m.boot =>
                     \A n \in Cpus : ~bios.table[n].boot
               /\ entry \in Nat /\ Len(bios.table) \in Nat
<1>1. Len(bios.table) \in Nat
  BY TableAssumption DEF ReadOne
<1>2. entry \in Nat /\ entry + 1 \in 1 .. Len(bios.table) /\ (entry + 1 = 1 <=> entry = 0)
  BY <1>1 DEF ReadOne
<1>3. bios.table[entry + 1] \in Entry
  BY <1>2 DEF ReadOne, Entry
<1>4. ValidEntry(bios.table[entry + 1])
  BY <1>2, TableAssumption DEF ReadOne
<1>5. ASSUME bios.table[entry + 1].type = "processor", bios.table[entry + 1].enabled,
             bios.table[entry + 1].boot, NEW n \in Cpus, bios.table[n].boot
      PROVE  FALSE
  <2>1. n \in 1 .. Len(bios.table) /\ n # entry + 1
    BY <1>1, <1>2 DEF Cpus
  <2>2. n \in BspEntries(bios.table) /\ entry + 1 \in BspEntries(bios.table)
    BY <1>2, <1>5, <2>1 DEF BspEntries, Cpus
  <2> QED
    BY <2>1, <2>2, TableAssumption DEF ReadOne
<1> QED
  BY <1>1, <1>2, <1>3, <1>4, <1>5

\* The sets of processors and of I/O APICs grow by the entry read.
LEMMA SetsGrow ==
    ASSUME ReadOne
    PROVE  LET m == bios.table[entry + 1]
           IN  /\ Cpus \in SUBSET (1 .. entry) /\ IoApics \in SUBSET (1 .. entry)
               /\ Cpus' = IF m.type = "processor" /\ m.enabled
                          THEN Cpus \cup {entry + 1} ELSE Cpus
               /\ IoApics' = IF m.type = "ioapic" /\ m.usable /\ m.addr # 0
                             THEN IoApics \cup {entry + 1} ELSE IoApics
<1>1. entry \in Nat
  BY TableEntry
<1>2. \A n : n \in 1 .. entry + 1 <=> n \in 1 .. entry \/ n = entry + 1
  BY <1>1
<1>3. 1 .. entry' = 1 .. entry + 1 /\ bios' = bios
  BY DEF ReadOne
<1>4. Cpus' = {n \in 1 .. entry + 1 : bios.table[n].type = "processor" /\ bios.table[n].enabled}
  BY <1>3 DEF Cpus
<1>5. IoApics' = {n \in 1 .. entry + 1 : /\ bios.table[n].type = "ioapic"
                                         /\ bios.table[n].usable /\ bios.table[n].addr # 0}
  BY <1>3 DEF IoApics
<1> QED
  BY <1>2, <1>4, <1>5, ZenonT(30) DEF Cpus, IoApics

\* An entry that is not that of an enabled processor leaves the processor
\* tables alone.
LEMMA CpuTableKept ==
    ASSUME ReadOne, CpuTable, SameCpus(mp', mp), Cpus' = Cpus
    PROVE  CpuTable'
<1>1. bios' = bios
  BY DEF ReadOne
<1> QED
  BY <1>1 DEF CpuTable, SameCpus, Accepted, LateBsp, CpuSlot

\* Where the slots of the processors read so far are: the BSP has slot 0, and no
\* AP that kept its slot has one behind the bits of cpu_present_map.
LEMMA SlotRange ==
    ASSUME entry \in Nat, Cpus \in SUBSET (1 .. entry), NR_CPUS \in Nat \ {0},
           \A n, k \in Cpus : bios.table[n].boot /\ bios.table[k].boot => n = k,
           \A n \in Cpus : bios.table[n].boot \in BOOLEAN,
           NEW n \in Accepted, LateBsp = {} \/ Rank(Cpus, n) > 1
    PROVE  CpuSlot(n) \in 0 .. AtMost(Cardinality(Cpus), NR_CPUS)
                               - (IF LateBsp = {} THEN 1 ELSE 2)
<1> DEFINE C == Cardinality(Cpus)
           found == AtMost(C, NR_CPUS)
           r == Rank(Cpus, n)
<1>1. C \in Nat /\ \A i \in Cpus : Rank(Cpus, i) \in 1 .. C
  BY RankExtend
<1> HIDE DEF C
<1>2. found \in Nat /\ \A x \in 1 .. C : x <= NR_CPUS => x \in 1 .. found
  BY <1>1 DEF AtMost
<1> HIDE DEF found
<1>3. ASSUME NEW i \in Accepted
      PROVE  i \in Cpus /\ i \in Int /\ Rank(Cpus, i) \in 1 .. found
  <2>1. i \in Cpus /\ Rank(Cpus, i) <= NR_CPUS
    BY DEF Accepted
  <2>2. i \in Int /\ Rank(Cpus, i) \in 1 .. C
    BY <1>1, <2>1
  <2> QED
    BY <1>2, <2>1, <2>2
<1>4. \A b \in LateBsp : b \in Accepted /\ bios.table[b].boot /\ Rank(Cpus, b) > 1
  BY DEF LateBsp
<1>5. n \in Cpus /\ n \in Int /\ r \in 1 .. found
  BY <1>3
<1>6. LateBsp # {} => found >= 2
  BY <1>2, <1>3, <1>4
<1> HIDE DEF r
<1>7. CASE bios.table[n].boot
  <2>1. CpuSlot(n) = 0
    BY <1>7 DEF CpuSlot
  <2> QED
    BY <1>2, <1>5, <1>6, <2>1 DEF found, C
<1>8. CASE ~bios.table[n].boot /\ LateBsp = {}
  <2>1. CpuSlot(n) = r - 1
    BY <1>8 DEF CpuSlot, r
  <2> QED
    BY <1>2, <1>5, <1>8, <2>1 DEF found, C
<1>9. CASE ~bios.table[n].boot /\ LateBsp # {}
  <2>1. PICK b \in LateBsp : TRUE
    BY <1>9
  <2>2. n # b /\ b \in Int /\ b \in Cpus
    BY <1>3, <1>4, <1>9, <2>1
  <2>3. r > 1
    BY <1>9 DEF r
  <2>4. CASE b < n
    <3>1. CpuSlot(n) = r - 2
      BY <1>9, <2>1, <2>4 DEF CpuSlot, r
    <3> QED
      BY <1>2, <1>5, <1>9, <2>3, <3>1 DEF found, C
  <2>5. CASE n < b
    <3>1. r < Rank(Cpus, b) /\ Rank(Cpus, b) \in 1 .. found
      BY <1>3, <1>4, <1>5, <2>1, <2>2, <2>5, RankOrder DEF r
    <3>2. ~\E c \in LateBsp : c < n
      <4>1. \A c \in LateBsp : c = b
        BY <1>3, <1>4, <2>1
      <4> QED
        BY <1>5, <2>2, <2>5, <4>1
    <3>3. CpuSlot(n) = r - 1
      BY <1>9, <3>2 DEF CpuSlot, r
    <3> QED
      BY <1>2, <1>5, <1>9, <3>1, <3>3 DEF found, C
  <2> QED
    BY <1>5, <2>2, <2>4, <2>5
<1> QED
  BY <1>4, <1>5, <1>7, <1>8, <1>9

\* At most one of the processors read so far is the BSP.
LEMMA OneBspEntry ==
    ASSUME bios \in BiosData, entry \in 0 .. Len(bios.table)
    PROVE  /\ \A n \in Cpus : bios.table[n].boot \in BOOLEAN
           /\ \A n, k \in Cpus : bios.table[n].boot /\ bios.table[k].boot => n = k
<1>1. Len(bios.table) \in Nat
  BY TableAssumption
<1>2. \A n \in Cpus : n \in 1 .. Len(bios.table)
  BY <1>1 DEF Cpus
<1>3. \A n \in Cpus : bios.table[n].boot \in BOOLEAN
  BY <1>2, TableAssumption DEF ValidEntry, Cpus
<1>4. \A n \in Cpus : bios.table[n].boot => n \in BspEntries(bios.table)
  BY <1>2 DEF BspEntries, Cpus
<1> QED
  BY <1>3, <1>4, TableAssumption

\* An enabled processor takes the next slot as long as there is one, the BSP
\* slot 0.
LEMMA CpuTableGrows ==
    ASSUME ReadOne, CpuTable, mp \in MpType,
           bios.table[entry + 1].type = "processor", bios.table[entry + 1].enabled,
           mp' = MP_processor_info(mp, bios.table[entry + 1])
    PROVE  /\ CpuTable' /\ mp' \in MpType /\ SameBuses(mp', mp)
           /\ mp'.mp_ioapics = mp.mp_ioapics /\ mp'.mp_irqs = mp.mp_irqs
<1> DEFINE e == entry + 1
           m == bios.table[entry + 1]
           C == Cardinality(Cpus)
           found == AtMost(C, NR_CPUS)
           D == IF LateBsp = {} THEN 1 ELSE 2
           cpu == Slot(mp, m)
<1>1. /\ m \in Entry /\ m.enabled \in BOOLEAN /\ m.boot \in BOOLEAN
      /\ entry \in Nat /\ NR_CPUS \in Nat \ {0} /\ Len(bios.table) \in Nat
      /\ m.boot => \A n \in Cpus : ~bios.table[n].boot
  BY TableEntry, LimitsAssumption DEF ValidEntry
<1>2. Cpus \in SUBSET (1 .. entry) /\ Cpus' = Cpus \cup {e}
  BY SetsGrow
<1>3. /\ C \in Nat /\ Cardinality(Cpus') = C + 1
      /\ \A n \in Cpus : Rank(Cpus', n) = Rank(Cpus, n) /\ Rank(Cpus, n) \in 1 .. C
      /\ Rank(Cpus', e) = C + 1
  BY <1>1, <1>2, RankExtend
<1>4. /\ \A n \in Cpus : bios.table[n].boot \in BOOLEAN
      /\ \A n, k \in Cpus : bios.table[n].boot /\ bios.table[k].boot => n = k
  BY <1>1, OneBspEntry DEF ReadOne
<1>5. found \in 0 .. NR_CPUS /\ (C < NR_CPUS => found = C) /\ (C >= NR_CPUS => found = NR_CPUS)
  BY <1>1, <1>3 DEF AtMost
<1>6. mp.num_processors = found /\ mp.cpu_present_map = 0 .. found - D
  BY DEF CpuTable
<1>7. D \in {1, 2} /\ found - D + 1 \in 0 .. NR_CPUS
  <2>1. LateBsp # {} => found >= 2
    BY <1>1, <1>3, <1>5 DEF LateBsp, Accepted
  <2> QED
    BY <1>1, <1>5, <2>1
<1>8. cpu = IF m.boot THEN 0 ELSE found - D + 1
  <2>1. 0 .. (found - D + 1) - 1 = 0 .. found - D
    BY <1>5, <1>7
  <2> QED
    BY <1>6, <1>7, <2>1, FirstCpu DEF Slot
<1>9. bios' = bios /\ bios'.table = bios.table /\ e \notin Cpus /\ \A n \in Cpus : n < e
  BY <1>1, <1>2 DEF ReadOne
<1> HIDE DEF found, C, D
<1>10. /\ mp' \in MpType /\ SameBuses(mp', mp)
       /\ mp'.mp_ioapics = mp.mp_ioapics /\ mp'.mp_irqs = mp.mp_irqs
       /\ mp'.boot_cpu_id = IF m.boot THEN m.apicid ELSE mp.boot_cpu_id
       /\ found >= NR_CPUS => /\ mp'.num_processors = found
                              /\ mp'.cpu_present_map = mp.cpu_present_map
                              /\ mp'.bios_cpu_apicid = mp.bios_cpu_apicid
       /\ ~(found >= NR_CPUS) =>
             /\ mp'.num_processors = found + 1
             /\ mp'.cpu_present_map = mp.cpu_present_map \cup {cpu}
             /\ mp'.bios_cpu_apicid = [mp.bios_cpu_apicid EXCEPT ![cpu] = m.apicid]
  <2>1. mp.num_processors < NR_CPUS => cpu \in 0 .. NR_CPUS - 1
    BY <1>1, <1>5, <1>6, <1>7, <1>8
  <2>2. cpu = Slot(mp, m) /\ mp' = MP_processor_info(mp, m) /\ m.enabled
    OBVIOUS
  <2> HIDE DEF m, cpu
  <2>3. mp' \in MpType /\ CpuEffect(mp', mp, m, cpu)
    BY <1>1, <2>1, <2>2, ProcessorEffect
  <2> QED
    BY <1>6, <2>2, <2>3 DEF CpuEffect
<1> SUFFICES CpuTable'
  BY <1>10
<1>11. \A n \in Cpus' : bios'.table[n].boot => mp'.boot_cpu_id = bios'.table[n].apicid
  <2>1. \A n \in Cpus : bios.table[n].boot => mp.boot_cpu_id = bios.table[n].apicid
    BY DEF CpuTable
  <2> QED
    BY <1>1, <1>2, <1>9, <1>10, <2>1
<1>12. \A n \in Accepted : LateBsp = {} \/ Rank(Cpus, n) > 1 =>
          /\ mp.bios_cpu_apicid[CpuSlot(n)] = bios.table[n].apicid
          /\ CpuSlot(n) \in 0 .. found - D
  <2>1. \A n \in Accepted : LateBsp = {} \/ Rank(Cpus, n) > 1 =>
           mp.bios_cpu_apicid[CpuSlot(n)] = bios.table[n].apicid
    BY DEF CpuTable
  <2> QED
    BY <1>1, <1>2, <1>4, <2>1, SlotRange DEF found, C, D
<1>13. Accepted' = {n \in Cpus' : Rank(Cpus', n) <= NR_CPUS}
  BY DEF Accepted
<1>14. LateBsp' = {n \in Accepted' : bios.table[n].boot /\ Rank(Cpus', n) > 1}
  BY <1>9 DEF LateBsp
<1>15. ASSUME NEW n
       PROVE  CpuSlot(n)' = IF bios.table[n].boot THEN 0
                            ELSE Rank(Cpus', n) - (IF \E b \in LateBsp' : b < n THEN 2 ELSE 1)
  BY <1>9 DEF CpuSlot
<1>16. CASE C >= NR_CPUS
  <2>1. AtMost(Cardinality(Cpus'), NR_CPUS) = found
    BY <1>1, <1>3, <1>5, <1>16 DEF AtMost
  <2>2. Accepted' = Accepted
    <3>1. ~(Rank(Cpus', e) <= NR_CPUS)
      BY <1>1, <1>3, <1>16
    <3>2. \A n \in Cpus : Rank(Cpus', n) = Rank(Cpus, n)
      BY <1>3
    <3> QED
      BY <1>2, <1>13, <3>1, <3>2, Zenon DEF Accepted
  <2>3. \A n \in Accepted : n \in Cpus /\ Rank(Cpus', n) = Rank(Cpus, n)
    BY <1>3 DEF Accepted
  <2>4. LateBsp' = LateBsp
    BY <1>14, <2>2, <2>3 DEF LateBsp
  <2>5. \A n \in Accepted : CpuSlot(n)' = CpuSlot(n)
    BY <1>15, <2>3, <2>4 DEF CpuSlot
  <2>6. ASSUME NEW n \in Accepted', LateBsp' = {} \/ Rank(Cpus', n) > 1
        PROVE  mp'.bios_cpu_apicid[CpuSlot(n)'] = bios'.table[n].apicid
    BY <1>1, <1>5, <1>9, <1>10, <1>12, <1>16, <2>2, <2>3, <2>4, <2>5, <2>6
  <2>7. mp'.num_processors = found /\ mp'.cpu_present_map = 0 .. found - D
    BY <1>1, <1>5, <1>6, <1>10, <1>16
  <2> QED
    BY <1>11, <2>1, <2>4, <2>6, <2>7 DEF CpuTable, D
<1>17. CASE C < NR_CPUS
  <2>1. AtMost(Cardinality(Cpus'), NR_CPUS) = C + 1 /\ found = C
    BY <1>1, <1>3, <1>5, <1>17 DEF AtMost
  <2>2. Accepted' = Accepted \cup {e} /\ Accepted = Cpus
    <3>1. Rank(Cpus', e) <= NR_CPUS
      BY <1>1, <1>3, <1>17
    <3>2. \A n \in Cpus : Rank(Cpus', n) = Rank(Cpus, n) /\ Rank(Cpus, n) <= NR_CPUS
      BY <1>1, <1>3, <1>17
    <3> QED
      BY <1>2, <1>13, <3>1, <3>2, Zenon DEF Accepted
  <2>3. /\ mp'.num_processors = C + 1
        /\ mp'.cpu_present_map = (0 .. C - D) \cup {cpu}
        /\ mp'.bios_cpu_apicid = [mp.bios_cpu_apicid EXCEPT ![cpu] = m.apicid]
        /\ mp.bios_cpu_apicid \in [0 .. NR_CPUS - 1 -> Ids] /\ cpu \in 0 .. NR_CPUS - 1
    BY SMTT(20), <1>1, <1>6, <1>7, <1>8, <1>10, <1>17, <2>1 DEF MpType
  <2>4. \A x : x # cpu => mp'.bios_cpu_apicid[x] = mp.bios_cpu_apicid[x] \/ x \notin 0 .. NR_CPUS - 1
    BY <2>3
  <2>5. mp'.bios_cpu_apicid[cpu] = m.apicid
    BY <2>3
  <2>6. CASE ~m.boot
    <3>1. LateBsp' = LateBsp
      BY <1>3, <1>9, <1>14, <2>2, <2>6 DEF LateBsp
    <3>2. cpu = C - D + 1 /\ \A n : n = e => CpuSlot(n)' = cpu
      <4>1. \A b \in LateBsp : b < e
        BY <1>9 DEF LateBsp, Accepted
      <4>2. ASSUME NEW n, n = e
            PROVE  CpuSlot(n)' = (C + 1) - D
        <5>1. CpuSlot(n)' = Rank(Cpus', n) - (IF \E b \in LateBsp : b < n THEN 2 ELSE 1)
          BY <1>15, <2>6, <3>1, <4>2
        <5>2. (IF \E b \in LateBsp : b < n THEN 2 ELSE 1) = D
          BY <4>1, <4>2, Zenon DEF D
        <5> QED
          BY <1>3, <4>2, <5>1, <5>2
      <4> QED
        BY <1>3, <1>7, <1>8, <2>1, <2>6, <4>2
    <3>3. \A n \in Accepted : CpuSlot(n)' = CpuSlot(n)
      BY <1>3, <1>15, <2>2, <3>1 DEF CpuSlot
    <3>4. ASSUME NEW n \in Accepted', LateBsp' = {} \/ Rank(Cpus', n) > 1
          PROVE  mp'.bios_cpu_apicid[CpuSlot(n)'] = bios'.table[n].apicid
      <4>1. CASE n = e
        BY <1>9, <2>5, <3>2, <4>1
      <4>2. CASE n \in Accepted
        <5>1. mp.bios_cpu_apicid[CpuSlot(n)] = bios.table[n].apicid /\ CpuSlot(n) \in 0 .. C - D
          BY <1>3, <1>12, <2>1, <2>2, <3>1, <3>4, <4>2
        <5>2. CpuSlot(n) # cpu /\ CpuSlot(n) \in 0 .. NR_CPUS - 1
          BY <1>1, <1>3, <1>7, <1>17, <3>2, <5>1
        <5> QED
          BY <1>9, <2>4, <3>3, <4>2, <5>1, <5>2
      <4> QED
        BY <2>2, <4>1, <4>2
    <3>5. mp'.cpu_present_map = 0 .. (C + 1) - D
      <4>1. (0 .. C - D) \cup {C - D + 1} = 0 .. (C + 1) - D
        BY <1>3, <1>7, <2>1
      <4> QED
        BY <2>3, <3>2, <4>1
    <3> QED
      BY <1>11, <2>1, <2>3, <3>1, <3>4, <3>5 DEF CpuTable, D
  <2>7. CASE m.boot
    <3>1. LateBsp = {} /\ D = 1 /\ cpu = 0
      BY <1>1, <1>8, <2>7 DEF LateBsp, Accepted, D
    <3>2. \A n : n = e => CpuSlot(n)' = 0
      BY <1>15, <2>7
    <3>3. CASE C = 0
      <4>1. Cpus = {}
        BY <1>3, <3>3
      <4>2. LateBsp' = {} /\ Accepted' = {e}
        BY <1>3, <1>14, <2>2, <3>3, <4>1
      <4>3. mp'.cpu_present_map = 0 .. (C + 1) - 1
        BY <2>3, <3>1, <3>3
      <4>4. \A n \in Accepted' : mp'.bios_cpu_apicid[CpuSlot(n)'] = bios'.table[n].apicid
        BY <1>9, <2>5, <3>1, <3>2, <4>2
      <4> QED
        BY <1>11, <2>1, <2>3, <4>2, <4>3, <4>4 DEF CpuTable
    <3>4. CASE C > 0
      <4>1. LateBsp' = {e}
        BY <1>1, <1>3, <1>9, <1>14, <2>2, <2>7, <3>4
      <4>2. ASSUME NEW n \in Accepted', Rank(Cpus', n) > 1
            PROVE  mp'.bios_cpu_apicid[CpuSlot(n)'] = bios'.table[n].apicid
        <5>1. CASE n = e
          BY <1>9, <2>5, <3>1, <3>2, <5>1
        <5>2. CASE n \in Accepted
          <6>1. n \in Cpus /\ ~bios.table[n].boot /\ ~(e < n) /\ Rank(Cpus', n) = Rank(Cpus, n)
            <7>1. n \in Cpus
              BY <2>2, <5>2
            <7>2. n \in Int /\ n < e /\ e \in Int
              BY <1>1, <1>2, <7>1
            <7> QED
              BY <1>1, <1>3, <2>7, <7>1, <7>2
          <6>2. CpuSlot(n)' = Rank(Cpus, n) - 1 /\ CpuSlot(n) = Rank(Cpus, n) - 1
            BY <1>15, <3>1, <4>1, <6>1 DEF CpuSlot
          <6>3. CpuSlot(n) # cpu /\ CpuSlot(n) \in 0 .. NR_CPUS - 1
            BY <1>1, <1>3, <1>17, <3>1, <4>2, <6>1, <6>2
          <6> QED
            BY <1>9, <1>12, <2>4, <3>1, <5>2, <6>2, <6>3
        <5> QED
          BY <2>2, <5>1, <5>2
      <4>3. mp'.cpu_present_map = 0 .. (C + 1) - 2
        <5>1. (0 .. C - 1) \cup {0} = 0 .. (C + 1) - 2
          BY <1>3, <3>4
        <5> QED
          BY <2>3, <3>1, <5>1
      <4> QED
        BY <1>11, <2>1, <2>3, <4>1, <4>2, <4>3 DEF CpuTable
    <3> QED
      BY <1>3, <3>3, <3>4
  <2> QED
    BY <1>1, <2>6, <2>7
<1> QED
  BY <1>1, <1>3, <1>10, <1>16, <1>17 DEF C

\* The table of I/O APICs stays as it is when nothing is added to it.
LEMMA IoTableKept ==
    ASSUME ReadOne, TablesKept, IoApics' = IoApics, mp'.mp_ioapics = mp.mp_ioapics,
           Len(mp'.mp_irqs) <= MAX_IRQ_SOURCES
    PROVE  TablesKept'
<1>1. bios' = bios
  BY DEF ReadOne
<1> QED
  BY <1>1 DEF TablesKept

\* A usable I/O APIC is appended as long as there is room.
LEMMA IoTableGrows ==
    ASSUME ReadOne, TablesKept, mp \in MpType, bios.table[entry + 1].type = "ioapic",
           mp' = MP_ioapic_info(mp, bios.table[entry + 1])
    PROVE  /\ TablesKept' /\ mp' \in MpType /\ SameCpus(mp', mp) /\ SameBuses(mp', mp)
           /\ mp'.mp_irqs = mp.mp_irqs
<1> DEFINE m == bios.table[entry + 1]
           C == Cardinality(IoApics)
<1>1. /\ m \in Entry /\ m.usable \in BOOLEAN /\ entry \in Nat /\ MAX_IO_APICS \in Nat \ {0}
  BY TableEntry, LimitsAssumption DEF ValidEntry
<1>2. bios' = bios /\ mp.mp_ioapics \in Seq(Entry) /\ Len(mp.mp_irqs) <= MAX_IRQ_SOURCES
  BY DEF ReadOne, MpType, TablesKept
<1>3. CASE ~m.usable \/ m.addr = 0
  <2>1. IoApics' = IoApics /\ mp' = mp
    BY <1>3, SetsGrow DEF MP_ioapic_info
  <2> QED
    BY <1>2, <2>1, IoTableKept DEF SameCpus, SameBuses
<1>4. CASE m.usable /\ m.addr # 0
  <2>1. IoApics \in SUBSET (1 .. entry) /\ IoApics' = IoApics \cup {entry + 1}
    BY <1>4, SetsGrow
  <2>2. /\ C \in Nat /\ Cardinality(IoApics') = C + 1
        /\ \A n \in IoApics : /\ Rank(IoApics', n) = Rank(IoApics, n)
                              /\ Rank(IoApics, n) \in 1 .. C
        /\ Rank(IoApics', entry + 1) = C + 1
    BY <1>1, <2>1, RankExtend
  <2>3. /\ Len(mp.mp_ioapics) = AtMost(C, MAX_IO_APICS)
        /\ \A n \in IoApics : Rank(IoApics, n) <= MAX_IO_APICS =>
              mp.mp_ioapics[Rank(IoApics, n)] = bios.table[n]
    BY DEF TablesKept
  <2>4. CASE C >= MAX_IO_APICS
    <3>1. mp' = mp
      BY <1>1, <2>2, <2>3, <2>4 DEF AtMost, MP_ioapic_info
    <3>2. AtMost(C + 1, MAX_IO_APICS) = AtMost(C, MAX_IO_APICS)
      BY <1>1, <2>2, <2>4 DEF AtMost
    <3>3. ASSUME NEW n \in IoApics', Rank(IoApics', n) <= MAX_IO_APICS
          PROVE  mp'.mp_ioapics[Rank(IoApics', n)] = bios'.table[n]
      <4>1. n \in IoApics
        BY <1>1, <2>1, <2>2, <2>4, <3>3
      <4> QED
        BY <1>2, <2>2, <2>3, <3>1, <3>3, <4>1
    <3> QED
      BY <1>2, <2>2, <2>3, <3>1, <3>2, <3>3 DEF TablesKept, SameCpus, SameBuses
  <2>5. CASE C < MAX_IO_APICS
    <3>1. Len(mp.mp_ioapics) = C /\ ~(Len(mp.mp_ioapics) >= MAX_IO_APICS)
      BY <1>1, <2>2, <2>3, <2>5 DEF AtMost
    <3>2. mp' = [mp EXCEPT !.mp_ioapics = Append(@, m)]
      BY <1>4, <3>1 DEF MP_ioapic_info
    <3>3. /\ mp' \in MpType /\ SameCpus(mp', mp) /\ SameBuses(mp', mp)
          /\ mp'.mp_ioapics = Append(mp.mp_ioapics, m) /\ mp'.mp_irqs = mp.mp_irqs
      BY <1>1, <3>2, AppendEffect
    <3>4. Len(mp'.mp_ioapics) = C + 1 /\ AtMost(C + 1, MAX_IO_APICS) = C + 1
      BY <1>1, <1>2, <2>2, <2>5, <3>1, <3>3 DEF AtMost
    <3>5. ASSUME NEW n \in IoApics'
          PROVE  mp'.mp_ioapics[Rank(IoApics', n)] = bios'.table[n]
      <4>1. CASE n = entry + 1
        BY <1>1, <1>2, <2>2, <3>1, <3>3, <4>1
      <4>2. CASE n \in IoApics
        <5>1. Rank(IoApics', n) = Rank(IoApics, n) /\ Rank(IoApics, n) \in 1 .. C
          BY <2>2, <4>2
        <5>2. mp.mp_ioapics[Rank(IoApics, n)] = bios.table[n]
          BY <1>1, <2>2, <2>3, <2>5, <4>2, <5>1
        <5> QED
          BY <1>1, <1>2, <2>2, <3>1, <3>3, <5>1, <5>2
      <4> QED
        BY <2>1, <4>1, <4>2
    <3> QED
      BY <1>2, <2>2, <3>3, <3>4, <3>5 DEF TablesKept
  <2> QED
    BY <1>1, <2>2, <2>4, <2>5
<1> QED
  BY <1>1, <1>3, <1>4

-----------------------------------------------------------------------------
\* What the last entry of a bus says changes only with an entry of that bus.
LEMMA LastEntry ==
    ASSUME ReadOne, NEW b
    PROVE  LastIsPci(b)' => \/ IsBus(entry + 1, b) /\ bios.table[entry + 1].bustype = "PCI"
                            \/ ~IsBus(entry + 1, b) /\ LastIsPci(b)
<1>1. entry \in Nat
  BY TableEntry
<1>2. SUFFICES ASSUME LastIsPci(b)'
               PROVE  \/ IsBus(entry + 1, b) /\ bios.table[entry + 1].bustype = "PCI"
                      \/ ~IsBus(entry + 1, b) /\ LastIsPci(b)
  OBVIOUS
<1>3. bios' = bios /\ entry' = entry + 1
  BY DEF ReadOne
<1>4. PICK n \in 1 .. entry + 1 :
         /\ IsBus(n, b) /\ bios.table[n].bustype = "PCI"
         /\ \A k \in n + 1 .. entry + 1 : ~IsBus(k, b)
  BY <1>2, <1>3 DEF LastIsPci, IsBus
<1>5. CASE n = entry + 1
  BY <1>4, <1>5
<1>6. CASE n # entry + 1
  <2>1. n \in 1 .. entry /\ entry + 1 \in n + 1 .. entry + 1
    BY <1>1, <1>6
  <2>2. \A k \in n + 1 .. entry : k \in n + 1 .. entry + 1
    BY <1>1, <2>1
  <2> QED
    BY <1>4, <2>1, <2>2 DEF LastIsPci
<1> QED
  BY <1>5, <1>6

\* An entry of another kind leaves the bus tables alone.
LEMMA BusKept ==
    ASSUME ReadOne, BusInv, SameBuses(mp', mp), bios.table[entry + 1].type # "bus"
    PROVE  BusInv'
<1>1. ASSUME NEW b, LastIsPci(b)' PROVE LastIsPci(b)
  BY <1>1, LastEntry DEF IsBus
<1> QED
  BY <1>1 DEF BusInv, PciNumbers, SameBuses

\* An entry of a bus: a PCI bus gets a number no other has.
LEMMA BusStep ==
    ASSUME ReadOne, BusInv, mp \in MpType, mp' \in MpType,
           bios.table[entry + 1].type = "bus", bios.table[entry + 1].busid \in BusIds,
           BusChange(mp', mp, bios.table[entry + 1])
    PROVE  BusInv'
<1> DEFINE m == bios.table[entry + 1]
           num == mp.mp_bus_id_to_pci_bus
           cur == mp.mp_current_pci_id
<1>1. /\ num \in [BusIds -> Int] /\ cur \in Nat
      /\ \A b \in BusIds : num[b] >= -1 /\ num[b] < cur
      /\ \A a, b \in BusIds : num[a] # -1 /\ num[b] # -1 /\ a # b => num[a] # num[b]
      /\ \A b \in BusIds : LastIsPci(b) => num[b] # -1 /\ b \notin mp.mp_bus_not_pci
  BY DEF BusInv, PciNumbers, MpType
<1>2. CASE m.bustype # "PCI"
  <2>1. /\ mp'.mp_bus_id_to_pci_bus = num /\ mp'.mp_current_pci_id = cur
        /\ mp'.mp_bus_not_pci \subseteq mp.mp_bus_not_pci \cup {m.busid}
    BY <1>2 DEF BusChange
  <2>2. ASSUME NEW b, LastIsPci(b)' PROVE LastIsPci(b) /\ b # m.busid
    BY <1>2, <2>2, LastEntry DEF IsBus
  <2>3. \A b \in BusIds : LastIsPci(b)' => num[b] # -1 /\ b \notin mp'.mp_bus_not_pci
    BY <1>1, <2>1, <2>2
  <2> QED
    BY <1>1, <2>1, <2>3 DEF BusInv, PciNumbers
<1>3. CASE m.bustype = "PCI"
  <2>1. /\ mp'.mp_bus_id_to_pci_bus = [num EXCEPT ![m.busid] = cur]
        /\ mp'.mp_current_pci_id = cur + 1
        /\ mp'.mp_bus_not_pci = mp.mp_bus_not_pci \ {m.busid}
    BY <1>3 DEF BusChange
  <2> DEFINE new == [num EXCEPT ![m.busid] = cur]
  <2>2. \A b \in BusIds : new[b] = IF b = m.busid THEN cur ELSE num[b]
    BY <1>1
  <2>3. ASSUME NEW b \in BusIds, LastIsPci(b)' PROVE b = m.busid \/ LastIsPci(b)
    BY <2>3, LastEntry DEF IsBus
  <2> HIDE DEF new, num, cur
  <2>4. \A b \in BusIds : new[b] >= -1 /\ new[b] < cur + 1
    BY <1>1, <2>2
  <2>5. \A a, b \in BusIds : new[a] # -1 /\ new[b] # -1 /\ a # b => new[a] # new[b]
    BY <1>1, <2>2
  <2>6. \A b \in BusIds : LastIsPci(b)' => new[b] # -1 /\ b \notin mp'.mp_bus_not_pci
    BY <1>1, <2>1, <2>2, <2>3
  <2> QED
    BY <2>1, <2>4, <2>5, <2>6 DEF BusInv, PciNumbers, new
<1> QED
  BY <1>2, <1>3

-----------------------------------------------------------------------------
\* One turn of the loop of smp_read_mpc keeps the invariant.
LEMMA MpReadStep ==
    ASSUME ControlInv, TableInv, MpRead(bsp), bios.table[entry + 1].type # "unknown"
    PROVE  TableInv'
<1> DEFINE m == bios.table[entry + 1]
<1>1. /\ ReadOne /\ mp' = mp_entry(mp, m) /\ mp \in MpType /\ pc[bsp] = "mp_read"
      /\ Len(mp.mp_irqs) < MAX_IRQ_SOURCES /\ CpuTable /\ TablesKept /\ BusInv
      /\ bios' = bios /\ entry' = entry + 1
  <2>1. Len(bios.table) \in Nat
    BY TableAssumption DEF TableInv
  <2> QED
    BY <2>1 DEF MpRead, ReadOne, TableInv
<1>2. /\ m \in Entry /\ ValidEntry(m) /\ entry \in Nat /\ Len(bios.table) \in Nat
      /\ MAX_IRQ_SOURCES \in Nat
  BY <1>1, TableEntry, LimitsAssumption
<1>3. entry' \in 0 .. Len(bios'.table) /\ bios' \in BiosData
  BY <1>1, <1>2 DEF ReadOne
<1>4. pc'[bsp] = "halt" \/ pc'[bsp] = "mp_read"
  BY <1>1 DEF MpRead, ControlInv, Procs
<1>5. pc'[bsp] = "mp_read" /\ m.type = "intsrc" => ~irqs_full(mp')
  BY <1>1 DEF MpRead, ControlInv, Procs
<1> HIDE DEF m
<1>6. SUFFICES /\ mp' \in MpType /\ CpuTable' /\ TablesKept' /\ BusInv'
               /\ pc'[bsp] = "mp_read" => Len(mp'.mp_irqs) < MAX_IRQ_SOURCES
  BY <1>3, <1>4 DEF TableInv, Early
<1>7. CASE m.type = "processor" /\ m.enabled
  <2>1. mp' = MP_processor_info(mp, m)
    BY <1>1, <1>7 DEF mp_entry
  <2>2. /\ CpuTable' /\ mp' \in MpType /\ SameBuses(mp', mp)
        /\ mp'.mp_ioapics = mp.mp_ioapics /\ mp'.mp_irqs = mp.mp_irqs
    BY <1>1, <1>7, <2>1, CpuTableGrows DEF m
  <2>3. IoApics' = IoApics
    BY <1>1, <1>7, SetsGrow DEF m
  <2>4. Len(mp'.mp_irqs) <= MAX_IRQ_SOURCES
    BY <1>2, <2>2 DEF TablesKept, TableInv
  <2>5. TablesKept' /\ BusInv'
    BY <1>1, <1>7, <2>2, <2>3, <2>4, IoTableKept, BusKept DEF m
  <2> QED
    BY <1>1, <2>2, <2>5
<1>8. CASE m.type = "processor" /\ ~m.enabled
  <2>1. mp' = MP_processor_info(mp, m)
    BY <1>1, <1>8 DEF mp_entry
  <2>2. mp' = [mp EXCEPT !.disabled_cpus = mp.disabled_cpus + 1]
    BY <1>8, <2>1 DEF MP_processor_info
  <2>3. mp.disabled_cpus + 1 \in Nat
    BY <1>1 DEF MpType
  <2>4. mp' \in MpType
    BY <1>1, <2>2, <2>3, FieldUpdate
  <2>5. /\ SameCpus(mp', mp) /\ SameBuses(mp', mp)
        /\ mp'.mp_ioapics = mp.mp_ioapics /\ mp'.mp_irqs = mp.mp_irqs
    BY <1>1, <2>2 DEF MpType, SameCpus, SameBuses
  <2>6. Cpus' = Cpus /\ IoApics' = IoApics
    BY <1>1, <1>8, SetsGrow DEF m
  <2>7. Len(mp'.mp_irqs) <= MAX_IRQ_SOURCES
    BY <1>1, <2>5 DEF TablesKept
  <2>8. CpuTable' /\ TablesKept' /\ BusInv'
    BY <1>1, <1>8, <2>5, <2>6, <2>7, CpuTableKept, IoTableKept, BusKept DEF m
  <2> QED
    BY <1>1, <2>4, <2>5, <2>8
<1>9. CASE m.type = "bus"
  <2>1. mp' = MP_bus_info(mp, m) /\ m.busid \in BusIds
    BY <1>1, <1>2, <1>9 DEF mp_entry, ValidEntry
  <2>2. mp' \in MpType /\ BusChange(mp', mp, m)
    BY <1>1, <2>1, BusEffect
  <2>3. SameCpus(mp', mp) /\ mp'.mp_ioapics = mp.mp_ioapics /\ mp'.mp_irqs = mp.mp_irqs
    BY <2>2 DEF BusChange
  <2>4. Cpus' = Cpus /\ IoApics' = IoApics
    BY <1>1, <1>9, SetsGrow DEF m
  <2>5. Len(mp'.mp_irqs) <= MAX_IRQ_SOURCES
    BY <1>1, <2>3 DEF TablesKept
  <2>6. CpuTable' /\ TablesKept'
    BY <1>1, <2>3, <2>4, <2>5, CpuTableKept, IoTableKept
  <2>7. BusInv'
    BY <1>1, <1>9, <2>1, <2>2, BusStep DEF m
  <2> QED
    BY <1>1, <2>2, <2>3, <2>6, <2>7
<1>10. CASE m.type = "ioapic"
  <2>1. mp' = MP_ioapic_info(mp, m)
    BY <1>1, <1>10 DEF mp_entry
  <2>2. /\ TablesKept' /\ mp' \in MpType /\ SameCpus(mp', mp) /\ SameBuses(mp', mp)
        /\ mp'.mp_irqs = mp.mp_irqs
    BY <1>1, <1>10, <2>1, IoTableGrows DEF m
  <2>3. Cpus' = Cpus
    BY <1>1, <1>10, SetsGrow DEF m
  <2>4. CpuTable' /\ BusInv'
    BY <1>1, <1>10, <2>2, <2>3, CpuTableKept, BusKept DEF m
  <2> QED
    BY <1>1, <2>2, <2>4
<1>11. CASE m.type = "intsrc"
  <2>1. mp' = MP_intsrc_info(mp, m)
    BY <1>1, <1>11 DEF mp_entry
  <2>2. /\ mp' \in MpType /\ SameCpus(mp', mp) /\ SameBuses(mp', mp)
        /\ mp'.mp_irqs = Append(mp.mp_irqs, m) /\ mp'.mp_ioapics = mp.mp_ioapics
    BY <1>1, <1>2, <2>1, AppendEffect
  <2>3. /\ Len(mp'.mp_irqs) <= MAX_IRQ_SOURCES
        /\ pc'[bsp] = "mp_read" => Len(mp'.mp_irqs) < MAX_IRQ_SOURCES
    BY <1>1, <1>2, <1>5, <1>11, <2>2 DEF irqs_full, MpType
  <2>4. Cpus' = Cpus /\ IoApics' = IoApics
    BY <1>1, <1>11, SetsGrow DEF m
  <2>5. CpuTable' /\ TablesKept' /\ BusInv'
    BY <1>1, <1>11, <2>2, <2>3, <2>4, CpuTableKept, IoTableKept, BusKept DEF m
  <2> QED
    BY <2>2, <2>3, <2>5
<1>12. CASE m.type = "lintsrc"
  <2>1. mp' = mp /\ SameCpus(mp', mp) /\ SameBuses(mp', mp)
    BY <1>1, <1>12 DEF mp_entry, SameCpus, SameBuses
  <2>2. Cpus' = Cpus /\ IoApics' = IoApics
    BY <1>1, <1>12, SetsGrow DEF m
  <2>3. Len(mp'.mp_irqs) <= MAX_IRQ_SOURCES
    BY <1>1, <2>1 DEF TablesKept
  <2>4. CpuTable' /\ TablesKept' /\ BusInv'
    BY <1>1, <1>12, <2>1, <2>2, <2>3, CpuTableKept, IoTableKept, BusKept DEF m
  <2> QED
    BY <1>1, <2>1, <2>4
<1> QED
  BY <1>2, <1>7, <1>8, <1>9, <1>10, <1>11, <1>12 DEF ValidEntry, m

\* Nothing has been read yet, and what that makes true.
Fresh == bios \in BiosData /\ entry = 0 /\ mp = NoConfig
TablesFit == /\ mp \in MpType /\ entry \in 0 .. Len(bios.table)
             /\ Len(mp.mp_irqs) < MAX_IRQ_SOURCES /\ CpuTable /\ TablesKept /\ BusInv

\* The tables agree with nothing read.
LEMMA TableFresh == Fresh => TablesFit
<1> SUFFICES ASSUME bios \in BiosData, entry = 0, mp = NoConfig PROVE TablesFit
  BY DEF Fresh
<1>1. {NR_CPUS, MAX_IO_APICS, MAX_IRQ_SOURCES} \subseteq Nat \ {0} /\ Len(bios.table) \in Nat
  BY LimitsAssumption, TableAssumption
<1>2. Cpus = {} /\ IoApics = {} /\ \A b : ~LastIsPci(b)
  BY DEF Cpus, IoApics, LastIsPci
<1>3. Cardinality(Cpus) = 0 /\ Cardinality(IoApics) = 0
  BY <1>2, FS_EmptySet
<1>4. /\ mp.cpu_present_map = {} /\ mp.num_processors = 0
      /\ mp.mp_bus_id_to_pci_bus = [b \in BusIds |-> -1] /\ mp.mp_current_pci_id = 0
      /\ mp.mp_ioapics = <<>> /\ mp.mp_irqs = <<>>
  BY DEF NoConfig
<1>5. mp \in MpType
  BY <1>1 DEF NoConfig, MpType, Ids
<1>6. CpuTable
  BY <1>1, <1>2, <1>3, <1>4 DEF CpuTable, AtMost, Accepted, LateBsp
<1>7. TablesKept /\ Len(mp.mp_irqs) < MAX_IRQ_SOURCES
  BY <1>1, <1>2, <1>3, <1>4 DEF TablesKept, AtMost
<1>8. BusInv
  BY <1>2, <1>4 DEF BusInv, PciNumbers
<1> QED
  BY <1>1, <1>5, <1>6, <1>7, <1>8 DEF TablesFit

\* A step that reads nothing leaves the tables as right as they were.
LEMMA TablesSame ==
    ASSUME UNCHANGED <<bios, entry, mp>>, CpuTable, TablesKept, BusInv
    PROVE  CpuTable' /\ TablesKept' /\ BusInv'
<1>1. Cpus' = Cpus /\ IoApics' = IoApics
  BY DEF Cpus, IoApics
<1>2. Accepted' = Accepted
  BY <1>1 DEF Accepted
<1>3. LateBsp' = LateBsp
  BY <1>1, <1>2 DEF LateBsp
<1>4. \A n : CpuSlot(n)' = CpuSlot(n)
  BY <1>1, <1>3 DEF CpuSlot
<1>5. CpuTable'
  BY <1>1, <1>2, <1>3, <1>4, Zenon DEF CpuTable
<1>6. TablesKept'
  BY <1>1 DEF TablesKept
<1>7. BusInv'
  BY DEF BusInv, PciNumbers, LastIsPci, IsBus
<1> QED
  BY <1>5, <1>6, <1>7

\* The processor, I/O APIC, interrupt and bus tables the kernel builds are what
\* the MP table of the BIOS says, for every table with entries in any order, every
\* number of processors and every size of the kernel's arrays (smp_read_mpc and
\* the MP_*_info handlers), but for the one AP that a late BSP pushes out.
THEOREM SmpTables == Spec => []MpTables
<1>0. Fresh' => TablesFit'
  BY TableFresh, PTL
<1>1. Init => TableInv
  <2> SUFFICES ASSUME Init PROVE TableInv
    OBVIOUS
  <2>1. pc[bsp] = "real"
    BY DEF Init, Procs
  <2> QED
    BY <2>1, TableFresh DEF Init, TableInv, Early, Fresh, TablesFit
<1>2. ControlInv /\ TableInv /\ [Next]_vars => TableInv'
  <2> SUFFICES ASSUME ControlInv, TableInv, [Next]_vars PROVE TableInv'
    OBVIOUS
  <2>1. ASSUME pc'[bsp] = pc[bsp] \/ pc'[bsp] \notin Early \cup {"start_kernel", "mp_scan", "mp_read"},
               UNCHANGED <<bios, entry, mp>>
        PROVE  TableInv'
    <3>1. CpuTable' /\ TablesKept' /\ BusInv'
      BY <2>1, TablesSame DEF TableInv
    <3> QED
      BY <2>1, <3>1 DEF TableInv
  <2>2. CASE ~Step(bsp)
    BY <2>1, <2>2, OnlyBspBoots
  <2>3. ASSUME NEW to, pc' = [pc EXCEPT ![bsp] = to] PROVE pc'[bsp] = to
    BY <2>3 DEF ControlInv, Procs
  <2>4. ASSUME pc[bsp] \in Early \cup {"start_kernel"}, UNCHANGED <<bios, entry, mp>>,
               pc'[bsp] \in Early \cup {"start_kernel", "mp_scan"}
        PROVE  TableInv'
    <3>1. CpuTable' /\ TablesKept' /\ BusInv'
      BY <2>4, TablesSame DEF TableInv
    <3> QED
      BY <2>4, <3>1 DEF TableInv, Early
  <2>5. CASE RealMode(bsp) \/ Protect(bsp) \/ CopyKernel(bsp) \/ SetStack(bsp)
             \/ TakeIndex(bsp) \/ LoadSig(bsp) \/ StoreSig(bsp)
    BY <2>3, <2>4, <2>5 DEF RealMode, Protect, CopyKernel, SetStack, TakeIndex, LoadSig,
       StoreSig, Goto, kernelVars, Early
  <2>6. CASE StartKernel(bsp)
    BY <2>3, <2>4, <2>6 DEF StartKernel, Goto, kernelVars, ControlInv, BspFirst, BspLate
  <2>7. CASE MpScan(bsp)
    <3>1. mp' = NoConfig /\ entry' = 0 /\ bios' = bios /\ pc'[bsp] \in {"mp_read", "halt"}
      BY <2>3, <2>7 DEF MpScan, Goto, TableInv
    <3>2. bios' \in BiosData
      BY <3>1 DEF TableInv
    <3>3. TablesFit'
      BY <1>0, <3>1, <3>2 DEF Fresh
    <3> QED
      BY <3>1, <3>2, <3>3 DEF TableInv, TablesFit, Early
  <2>8. CASE MpRead(bsp)
    <3>1. CASE bios.table[entry + 1].type = "unknown"
      <4>1. mp' = mp /\ pc' = pc /\ entry' = entry /\ bios' = bios
        BY <2>8, <3>1 DEF MpRead, mp_entry
      <4> QED
        BY <2>1, <4>1
    <3>2. CASE bios.table[entry + 1].type # "unknown"
      BY <2>8, <3>2, MpReadStep
    <3> QED
      BY <3>1, <3>2
  <2>9. CASE MpDone(bsp) \/ MemoryInit(bsp) \/ InitBspApic(bsp) \/ SmpInit(bsp)
             \/ WakeInit(bsp) \/ WakeStartup(bsp) \/ WakeCheck(bsp) \/ Hello(bsp)
    <3>0. SmpInit(bsp) => Goto(bsp, "smp", "init_ipi")
      BY DEF SmpInit
    <3> USE DEF Goto, kernelVars
    <3>1. UNCHANGED <<bios, entry, mp>>
      BY <2>9 DEF MpDone, MemoryInit, InitBspApic, SmpInit, WakeInit, WakeStartup, WakeCheck,
         Hello
    <3>2. CASE MpDone(bsp) \/ MemoryInit(bsp) \/ SmpInit(bsp) \/ WakeInit(bsp) \/ Hello(bsp)
      <4>1. pc'[bsp] \in {"memory", "apic", "init_ipi", "sipi1", "spin"}
        <5>1. CASE MpDone(bsp) \/ Hello(bsp)
          BY <2>3, <5>1 DEF MpDone, Hello
        <5>2. CASE MemoryInit(bsp)
          BY <2>3, <5>2 DEF MemoryInit
        <5>3. CASE SmpInit(bsp)
          BY <2>3, <3>0, <5>3
        <5>4. CASE WakeInit(bsp)
          BY <2>3, <5>4 DEF WakeInit
        <5> QED
          BY <3>2, <5>1, <5>2, <5>3, <5>4
      <4> QED
        BY <2>1, <3>1, <4>1 DEF Early
    <3>3. CASE InitBspApic(bsp) \/ WakeCheck(bsp)
      BY <2>1, <2>3, <3>1, <3>3 DEF InitBspApic, WakeCheck, Early
    <3>4. CASE WakeStartup(bsp)
      BY <2>1, <2>3, <3>1, <3>4 DEF WakeStartup, Early
    <3> QED
      BY <2>9, <3>2, <3>3, <3>4
  <2> QED
    BY <2>2, <2>5, <2>6, <2>7, <2>8, <2>9 DEF Step
<1>3. TableInv => MpTables
  BY DEF TableInv, MpTables, BusInv
<1> QED
  BY <1>1, <1>2, <1>3, SmpControl, PTL DEF Spec
=============================================================================
