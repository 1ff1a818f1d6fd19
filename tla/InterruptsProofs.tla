-------------------------- MODULE InterruptsProofs --------------------------
(***************************************************************************)
(* Proofs about module Interrupts, for every screen, set of scan codes,    *)
(* I/O APIC, size of the keyboard's buffer and number of keys and ticks:   *)
(* setup before the first interrupt, the local APIC between two of them,   *)
(* one byte for each keyboard interrupt, the modifier keys, the screen.    *)
(***************************************************************************)
EXTENDS Interrupts, FiniteSetTheorems, TLAPS

Handlers == {"null", "ignore_isr_handler", "bsp_local_timer", "keyboard_isr"}

\* What start_kernel has set up after each of its steps.
SetupInv == /\ boot \in 0 .. 5
            /\ boot >= 2 => gate = 0 .. 21
            /\ irq_handler \in [Irqs -> Handlers]
            /\ boot >= 3 => irq_handler[BSP_TIMER_IRQ] = "bsp_local_timer"
            /\ boot >= 4 => irq_handler[KEYBOARD_IRQ] = "keyboard_isr"
            /\ boot < 3 => lvtt_masked = TRUE
            /\ KEYBOARD_IRQ \in redtbl => boot >= 4

\* Where the processor is: at most one handler, with interrupts off, after sti.
FrameInv == /\ \/ cpu = NoFrame
               \/ /\ cpu \in [vector : {33, 48}, task_pri : {0},
                              step : {"save", "call", "eoi", "restore", "iretq"}]
                  /\ if = FALSE
                  /\ boot = 5
            /\ if = TRUE => boot = 5

\* The local APIC: what is in service and at which priority, in each step of
\* handle_irq; and what may be pending.
ApicInv == /\ isr = IF cpu.step \in {"save", "call", "eoi"} THEN {cpu.vector} ELSE {}
           /\ tpr = IF cpu.step \in {"call", "eoi", "restore"} THEN cpu.vector ELSE 0
           /\ irr \subseteq {33, 48}

\* The keyboard's pin: from the delivery of an interrupt to its EOI the pin
\* sends no other, and until the handler reads it there is a byte to read.
LineInv == /\ kbd \in Seq(ScanCodes)
           /\ 33 \in irr => KEYBOARD_IRQ \in remote_irr /\ kbd # <<>>
           /\ (cpu.vector = 33 /\ cpu.step \in {"save", "call", "eoi"})
                 => KEYBOARD_IRQ \in remote_irr /\ 33 \notin irr
           /\ (cpu.vector = 33 /\ cpu.step \in {"save", "call"}) => kbd # <<>>

ServiceInv == SetupInv /\ FrameInv /\ ApicInv /\ LineInv

-----------------------------------------------------------------------------
\* The steps of start_kernel come in one order.
LEMMA BootOrder ==
    ASSUME boot \in 0 .. 5
    PROVE  /\ Booting("init_bsp_APIC") => boot = 0 /\ boot' = 1
           /\ Booting("irq_init") => boot = 1 /\ boot' = 2
           /\ Booting("init_bsp_timer") => boot = 2 /\ boot' = 3
           /\ Booting("keyboard_init") => boot = 3 /\ boot' = 4
           /\ Booting("sti") => boot = 4 /\ boot' = 5
  BY DEF Booting, BootSteps

\* The EOI ends exactly the one interrupt that is in service.
LEMMA EOIEndsService ==
    ASSUME NEW v \in {33, 48}, isr = {v}, EOI
    PROVE  isr' = {} /\ remote_irr' = remote_irr \ {IrqOf(v)}
<1>1. {w \in isr : \A x \in isr : x <= w} = {v}
  OBVIOUS
<1> QED
  BY <1>1 DEF EOI

\* Setup comes before service: start_kernel's steps keep SetupInv, and nothing
\* else touches what they set up.
LEMMA SetupStep == ASSUME ServiceInv, [Next]_vars PROVE SetupInv'
<1> USE DEF ServiceInv, KEYBOARD_IRQ, BSP_TIMER_IRQ, Irqs, Handlers
<1>1. CASE Boot
  <2>1. CASE init_bsp_APIC
    BY <2>1, BootOrder DEF init_bsp_APIC, SetupInv
  <2>2. CASE irq_init
    BY <2>2, BootOrder DEF irq_init, SetupInv
  <2>3. CASE init_bsp_timer
    BY <2>3, BootOrder DEF init_bsp_timer, register_irq, io_apic_enable_irq, SetupInv
  <2>4. CASE keyboard_init
    BY <2>4, BootOrder DEF keyboard_init, register_irq, io_apic_enable_irq, SetupInv
  <2>5. CASE sti
    BY <2>5, BootOrder DEF sti, SetupInv
  <2> QED
    BY <1>1, <2>1, <2>2, <2>3, <2>4, <2>5 DEF Boot
<1>2. ASSUME UNCHANGED setupVars PROVE SetupInv'
  BY <1>2 DEF setupVars, SetupInv
<1>3. CASE Handle
  BY <1>2, <1>3 DEF Handle, SavePriority, keyboard_isr, bsp_local_timer, end_irq,
     RestorePriority, iretq
<1>4. ASSUME NEW sc \in ScanCodes, KeyArrives(sc) PROVE SetupInv'
  BY <1>2, <1>4 DEF KeyArrives
<1>5. CASE IoApicDeliver
  BY <1>2, <1>5 DEF IoApicDeliver
<1>6. CASE TimerFires
  BY <1>2, <1>6 DEF TimerFires
<1>7. ASSUME NEW v \in irr, Accept(v) PROVE SetupInv'
  BY <1>2, <1>7 DEF Accept
<1>8. CASE UNCHANGED vars
  BY <1>2, <1>8 DEF vars, setupVars
<1> QED
  BY <1>1, <1>3, <1>4, <1>5, <1>6, <1>7, <1>8 DEF Next, Loop

\* Which frame the processor has after a step: Accept opens one, iretq closes
\* it, the steps of handle_irq move it on.
LEMMA FrameStep == ASSUME ServiceInv, [Next]_vars PROVE FrameInv'
<1> USE DEF ServiceInv
<1>1. CASE Boot
  <2>1. boot # 5 /\ boot' \in 0 .. 5 /\ cpu' = cpu
    BY <1>1, BootOrder DEF Boot, init_bsp_APIC, irq_init, init_bsp_timer, keyboard_init,
       sti, SetupInv
  <2>2. cpu = NoFrame
    BY <2>1 DEF FrameInv
  <2>3. if' = TRUE => boot' = 5
    BY <1>1, <2>1, BootOrder DEF Boot, init_bsp_APIC, irq_init, init_bsp_timer, keyboard_init,
       sti, SetupInv, FrameInv
  <2> QED
    BY <2>1, <2>2, <2>3 DEF FrameInv
<1>2. CASE Handle
  <2>1. cpu # NoFrame /\ UNCHANGED setupVars
    BY <1>2 DEF Handle, SavePriority, keyboard_isr, bsp_local_timer, end_irq,
       RestorePriority, iretq, NoFrame
  <2>2. CASE SavePriority
    <3>1. tpr = 0
      BY <2>2 DEF SavePriority, ApicInv
    <3> QED
      BY <2>1, <2>2, <3>1 DEF SavePriority, FrameInv, setupVars
  <2>3. CASE keyboard_isr \/ bsp_local_timer \/ end_irq \/ RestorePriority
    BY <2>1, <2>3 DEF keyboard_isr, bsp_local_timer, end_irq, RestorePriority, FrameInv,
       setupVars
  <2>4. CASE iretq
    BY <2>1, <2>4 DEF iretq, FrameInv, setupVars
  <2> QED
    BY <1>2, <2>2, <2>3, <2>4 DEF Handle
<1>3. ASSUME UNCHANGED <<setupVars, if, cpu>> PROVE FrameInv'
  BY <1>3 DEF setupVars, FrameInv
<1>4. ASSUME NEW sc \in ScanCodes, KeyArrives(sc) PROVE FrameInv'
  BY <1>3, <1>4 DEF KeyArrives
<1>5. CASE IoApicDeliver
  BY <1>3, <1>5 DEF IoApicDeliver
<1>6. CASE TimerFires
  BY <1>3, <1>6 DEF TimerFires
<1>7. ASSUME NEW v \in irr, Accept(v) PROVE FrameInv'
  BY <1>7 DEF Accept, FrameInv, ApicInv, setupVars
<1>8. CASE UNCHANGED vars
  BY <1>3, <1>8 DEF vars, setupVars
<1> QED
  BY <1>1, <1>2, <1>4, <1>5, <1>6, <1>7, <1>8 DEF Next, Loop

\* What is in service and at which priority after a step of handle_irq: Accept
\* puts its vector in service, end_irq takes it out again.
LEMMA ApicStep == ASSUME ServiceInv, [Next]_vars PROVE ApicInv'
<1> USE DEF ServiceInv
<1>1. CASE Boot
  <2>1. cpu = NoFrame /\ cpu' = cpu
    BY <1>1, BootOrder DEF Boot, init_bsp_APIC, irq_init, init_bsp_timer, keyboard_init,
       sti, SetupInv, FrameInv
  <2>2. isr = {} /\ tpr = 0
    BY <2>1 DEF ApicInv, NoFrame
  <2>3. isr' = {} /\ tpr' = 0 /\ irr' = irr
    BY <1>1, <2>2 DEF Boot, init_bsp_APIC, irq_init, init_bsp_timer, keyboard_init,
       sti, apicVars
  <2> QED
    BY <2>1, <2>3 DEF ApicInv, NoFrame
<1>2. CASE SavePriority
  BY <1>2 DEF SavePriority, ApicInv, FrameInv, NoFrame
<1>3. CASE keyboard_isr \/ bsp_local_timer
  BY <1>3 DEF keyboard_isr, bsp_local_timer, apicVars, ApicInv, FrameInv, NoFrame
<1>4. CASE end_irq
  <2>1. cpu.vector \in {33, 48} /\ isr = {cpu.vector} /\ EOI
    BY <1>4 DEF end_irq, ApicInv, FrameInv, NoFrame
  <2>2. isr' = {}
    BY <2>1, EOIEndsService
  <2> QED
    BY <1>4, <2>2 DEF end_irq, ApicInv, FrameInv, NoFrame
<1>5. CASE RestorePriority
  BY <1>5 DEF RestorePriority, ApicInv, FrameInv, NoFrame
<1>6. CASE iretq
  BY <1>6 DEF iretq, apicVars, ApicInv, FrameInv, NoFrame
<1>7. ASSUME NEW sc \in ScanCodes, KeyArrives(sc) PROVE ApicInv'
  BY <1>7 DEF KeyArrives, apicVars, ApicInv
<1>8. CASE IoApicDeliver
  BY <1>8 DEF IoApicDeliver, ApicInv, IRQ_TO_VECTOR, KEYBOARD_IRQ
<1>9. CASE TimerFires
  BY <1>9 DEF TimerFires, ApicInv, IRQ_TO_VECTOR, BSP_TIMER_IRQ
<1>10. ASSUME NEW v \in irr, Accept(v) PROVE ApicInv'
  <2>1. cpu = NoFrame /\ isr = {} /\ tpr = 0
    BY <1>10 DEF Accept, FrameInv, ApicInv, NoFrame
  <2> QED
    BY <1>10, <2>1 DEF Accept, ApicInv
<1>11. CASE UNCHANGED vars
  BY <1>11 DEF vars, ApicInv
<1> QED
  BY <1>1, <1>2, <1>3, <1>4, <1>5, <1>6, <1>7, <1>8, <1>9, <1>10, <1>11
     DEF Next, Handle, Loop

\* The keyboard's pin after a step: it cannot send a second interrupt before the
\* EOI of the first, and only keyboard_isr takes a byte.
LEMMA LineStep == ASSUME ServiceInv, [Next]_vars PROVE LineInv'
<1> USE DEF ServiceInv
<1>1. CASE Boot
  BY <1>1 DEF Boot, init_bsp_APIC, irq_init, init_bsp_timer, keyboard_init, sti,
     apicVars, LineInv
<1>2. CASE SavePriority
  BY <1>2 DEF SavePriority, LineInv, FrameInv, NoFrame
<1>3. CASE keyboard_isr
  <2>1. cpu.vector = 33 /\ cpu.step = "call"
    BY <1>3 DEF keyboard_isr, FrameInv, NoFrame, SetupInv, IrqOf, BSP_TIMER_IRQ
  <2>2. cpu'.vector = 33 /\ cpu'.step = "eoi"
    BY <1>3, <2>1 DEF keyboard_isr, FrameInv, NoFrame
  <2>3. kbd # <<>> /\ 33 \notin irr /\ KEYBOARD_IRQ \in remote_irr
    BY <2>1 DEF LineInv
  <2>4. kbd' \in Seq(ScanCodes)
    BY <1>3, <2>3 DEF keyboard_isr, LineInv
  <2> QED
    BY <1>3, <2>2, <2>3, <2>4 DEF keyboard_isr, apicVars, LineInv
<1>4. CASE bsp_local_timer
  <2>1. cpu.vector = 48
    BY <1>4 DEF bsp_local_timer, FrameInv, NoFrame, SetupInv, IrqOf, KEYBOARD_IRQ
  <2>2. cpu'.vector = 48
    BY <1>4, <2>1 DEF bsp_local_timer, FrameInv, NoFrame
  <2> QED
    BY <1>4, <2>2 DEF bsp_local_timer, apicVars, LineInv
<1>5. CASE end_irq
  <2>1. cpu.vector \in {33, 48} /\ isr = {cpu.vector} /\ EOI
    BY <1>5 DEF end_irq, ApicInv, FrameInv, NoFrame
  <2>2. remote_irr' = remote_irr \ {IrqOf(cpu.vector)}
    BY <2>1, EOIEndsService
  <2>3. cpu'.step = "restore" /\ UNCHANGED <<irr, kbd>>
    BY <1>5, <2>1 DEF end_irq, FrameInv, NoFrame
  <2>4. cpu.step = "eoi"
    BY <1>5 DEF end_irq
  <2>5. 33 \in irr => cpu.vector = 48
    BY <2>1, <2>4 DEF LineInv
  <2>6. 33 \in irr => KEYBOARD_IRQ \in remote_irr'
    BY <2>2, <2>5 DEF LineInv, IrqOf, KEYBOARD_IRQ
  <2> QED
    BY <2>3, <2>6 DEF LineInv
<1>6. CASE RestorePriority
  BY <1>6 DEF RestorePriority, LineInv, FrameInv, NoFrame
<1>7. CASE iretq
  BY <1>7 DEF iretq, apicVars, LineInv, NoFrame
<1>8. ASSUME NEW sc \in ScanCodes, KeyArrives(sc) PROVE LineInv'
  <2>1. kbd' \in Seq(ScanCodes) /\ kbd' # <<>>
    BY <1>8 DEF KeyArrives, LineInv
  <2> QED
    BY <1>8, <2>1 DEF KeyArrives, apicVars, LineInv
<1>9. CASE IoApicDeliver
  BY <1>9 DEF IoApicDeliver, LineInv, IRQ_TO_VECTOR, KEYBOARD_IRQ
<1>10. CASE TimerFires
  BY <1>10 DEF TimerFires, LineInv, IRQ_TO_VECTOR, BSP_TIMER_IRQ
<1>11. ASSUME NEW v \in irr, Accept(v) PROVE LineInv'
  BY <1>11 DEF Accept, LineInv
<1>12. CASE UNCHANGED vars
  BY <1>12 DEF vars, LineInv
<1> QED
  BY <1>1, <1>2, <1>3, <1>4, <1>5, <1>6, <1>7, <1>8, <1>9, <1>10, <1>11, <1>12
     DEF Next, Handle, Loop

\* The inductive invariant of interrupt service holds for any devices, however
\* keys, ticks and the steps of handle_irq interleave.
THEOREM ServiceInvariant == Spec => []ServiceInv
<1>1. Init => ServiceInv
  BY DEF Init, ServiceInv, SetupInv, FrameInv, ApicInv, LineInv, NoFrame, Handlers
<1>2. ServiceInv /\ [Next]_vars => ServiceInv'
  BY SetupStep, FrameStep, ApicStep, LineStep DEF ServiceInv
<1> QED
  BY <1>1, <1>2, PTL DEF Spec

\* No interrupt finds an empty gate or a null handler: start_kernel unmasks a
\* source only when irq_init and register_irq are done.
THEOREM ServiceReady == Spec => []HandlersReady
<1>1. ServiceInv => HandlersReady
  BY DEF ServiceInv, SetupInv, FrameInv, HandlersReady, IrqOf, BSP_TIMER_IRQ, KEYBOARD_IRQ
<1> QED
  BY <1>1, ServiceInvariant, PTL

\* handle_irq leaves the local APIC as it found it, whichever interrupts it
\* handled: nothing stays in service, the task priority is back at 0.
THEOREM ServiceKeepsPriority == Spec => []PriorityKept
<1>1. ServiceInv => PriorityKept
  BY DEF ServiceInv, ApicInv, PriorityKept, NoFrame
<1> QED
  BY <1>1, ServiceInvariant, PTL

\* keyboard_isr reads port 0x60 only when the controller has a byte for it.
THEOREM ServiceHasByte == Spec => []ByteForEachInterrupt
<1>1. ServiceInv => ByteForEachInterrupt
  BY DEF ServiceInv, LineInv, ByteForEachInterrupt, IRQ_TO_VECTOR, KEYBOARD_IRQ
<1> QED
  BY <1>1, ServiceInvariant, PTL

-----------------------------------------------------------------------------
(* The modifier keys.  f[n] is key.status when n - 1 of the bytes that wait    *)
(* in the controller have been read: the invariant says that it ends at the    *)
(* keys that are down now.                                                     *)

Shows(s) == /\ \A k \in DOMAIN Holding : Holding[k] \in s <=> k \in held
            /\ "MK_CAPSLOCK" \in s <=> caps = 1

Replays(f) == /\ f[1] = status
              /\ \A n \in 1 .. Len(kbd) : f[n + 1] = NewStatus(f[n], kbd[n])
              /\ Shows(f[Len(kbd) + 1])

Bits == {"MK_SHIFT", "MK_CTRL", "MK_ALT", "MK_CAPSLOCK", "MK_SCROLLLOCK", "MK_NUMLOCK"}

ReplayInv == /\ caps \in {0, 1}
             /\ \E f \in [1 .. Len(kbd) + 1 -> SUBSET Bits] : Replays(f)

\* The keys of keyboard.c that set a bit and those that toggle one.
LEMMA HoldingFacts ==
    /\ DOMAIN Holding = {"shift", "ctrl", "alt"}
    /\ Holding["shift"] = "MK_SHIFT" /\ Holding["ctrl"] = "MK_CTRL" /\ Holding["alt"] = "MK_ALT"
    /\ DOMAIN Toggling = {"caps", "scroll", "num"}
    /\ Toggling["caps"] = "MK_CAPSLOCK" /\ Toggling["scroll"] = "MK_SCROLLLOCK"
    /\ Toggling["num"] = "MK_NUMLOCK"
  BY DEF Holding, Toggling

\* key.status keeps to its bits.
LEMMA NewStatusType ==
    ASSUME NEW s \in SUBSET Bits, NEW sc \in ScanCodes
    PROVE  NewStatus(s, sc) \in SUBSET Bits
  BY HoldingFacts, ZenonT(30) DEF NewStatus, Bits

\* Pressing or releasing a key and then reading its byte agree on what is down.
LEMMA NewStatusShows ==
    ASSUME NEW sc \in ScanCodes, KeyArrives(sc), caps \in {0, 1},
           NEW s \in SUBSET Bits, Shows(s)
    PROVE  Shows(NewStatus(s, sc))'
<1>1. sc.up \in BOOLEAN /\ sc.key \in Keys
  BY KeyboardAssumption
<1>2. CASE sc.key \in DOMAIN Holding
  BY <1>1, <1>2, HoldingFacts DEF KeyArrives, Shows, NewStatus
<1>3. CASE sc.key \notin DOMAIN Holding
  BY <1>1, <1>3, HoldingFacts DEF KeyArrives, Shows, NewStatus
<1> QED
  BY <1>2, <1>3

\* A byte more at the end of the controller's buffer is one state more of
\* key.status at the end of the replay.
LEMMA ReplayArrive ==
    ASSUME LineInv, ReplayInv, NEW sc \in ScanCodes, KeyArrives(sc)
    PROVE  ReplayInv'
<1>1. PICK f \in [1 .. Len(kbd) + 1 -> SUBSET Bits] : Replays(f)
  BY DEF ReplayInv
<1>0. PICK N : N = Len(kbd)
  OBVIOUS
<1> DEFINE g == [n \in 1 .. N + 2 |-> IF n <= N + 1 THEN f[n] ELSE NewStatus(f[N + 1], sc)]
<1>2. N \in Nat /\ kbd' = Append(kbd, sc) /\ status' = status
  BY <1>0 DEF LineInv, KeyArrives, textVars
<1>3. Len(kbd') = N + 1 /\ \A n \in 1 .. N : kbd'[n] = kbd[n]
  BY <1>0, <1>2 DEF LineInv
<1>4. kbd'[N + 1] = sc
  BY <1>0, <1>2 DEF LineInv
<1>5. g \in [1 .. Len(kbd') + 1 -> SUBSET Bits]
  <2>1. NewStatus(f[N + 1], sc) \in SUBSET Bits
    BY <1>0, <1>2, NewStatusType
  <2> QED
    BY <1>0, <1>2, <1>3, <2>1
<1>6. Shows(g[N + 2])'
  <2>1. g[N + 2] = NewStatus(f[N + 1], sc)
    BY <1>0, <1>2
  <2>2. Shows(f[N + 1]) /\ caps \in {0, 1} /\ f[N + 1] \in SUBSET Bits
    BY <1>0, <1>1, <1>2 DEF Replays, ReplayInv
  <2>3. Shows(NewStatus(f[N + 1], sc))'
    BY <2>2, NewStatusShows
  <2> QED
    BY <2>1, <2>3
<1>7. \A n \in 1 .. N + 1 : g[n + 1] = NewStatus(g[n], kbd'[n])
  BY <1>0, <1>1, <1>2, <1>3, <1>4 DEF Replays
<1>8. Replays(g)'
  BY <1>0, <1>1, <1>2, <1>3, <1>6, <1>7 DEF Replays
<1>9. caps' \in {0, 1}
  BY DEF KeyArrives, ReplayInv
<1> QED
  BY <1>5, <1>8, <1>9 DEF ReplayInv

\* A byte less at the front is the first state of the replay less.
LEMMA ReplayRead ==
    ASSUME LineInv, ReplayInv, kbd # <<>>, keyboard_isr
    PROVE  ReplayInv'
<1>1. PICK f \in [1 .. Len(kbd) + 1 -> SUBSET Bits] : Replays(f)
  BY DEF ReplayInv
<1>0. PICK N : N = Len(kbd)
  OBVIOUS
<1> DEFINE g == [n \in 1 .. N |-> f[n + 1]]
<1>2. N \in Nat \ {0} /\ kbd' = Tail(kbd) /\ status' = NewStatus(status, kbd[1])
  BY <1>0 DEF LineInv, keyboard_isr
<1>3. Len(kbd') = N - 1 /\ \A n \in 1 .. N - 1 : kbd'[n] = kbd[n + 1]
  BY <1>0, <1>2 DEF LineInv
<1>4. g \in [1 .. Len(kbd') + 1 -> SUBSET Bits]
  BY <1>0, <1>2, <1>3
<1>5. UNCHANGED <<held, caps>>
  BY DEF keyboard_isr, keyVars
<1>6. Replays(g)'
  <2>1. g[1] = status'
    BY <1>0, <1>1, <1>2 DEF Replays
  <2>2. \A n \in 1 .. N - 1 : g[n + 1] = NewStatus(g[n], kbd'[n])
    BY <1>0, <1>1, <1>2, <1>3 DEF Replays
  <2>3. Shows(g[N])'
    BY <1>0, <1>1, <1>2, <1>5 DEF Replays, Shows
  <2>4. Len(kbd') + 1 = N /\ 1 .. Len(kbd') = 1 .. N - 1
    BY <1>2, <1>3
  <2> HIDE DEF g
  <2> QED
    BY <2>1, <2>2, <2>3, <2>4 DEF Replays
<1> QED
  BY <1>4, <1>5, <1>6 DEF ReplayInv

\* keyboard_isr runs only as the handler of the keyboard's vector, so it never
\* takes a byte that is not there.
LEMMA ReadFindsByte == ASSUME ServiceInv, keyboard_isr PROVE kbd # <<>>
<1>1. cpu.vector = 33 /\ cpu.step = "call"
  BY DEF ServiceInv, keyboard_isr, FrameInv, NoFrame, SetupInv, IrqOf, BSP_TIMER_IRQ
<1> QED
  BY <1>1 DEF ServiceInv, LineInv

\* Whatever keys were pressed and however long their bytes waited, once all are
\* read key.status shows the keys that are down and CAPS LOCK.
THEOREM ServiceTracksModifiers == Spec => []ModifiersTrackKeys
<1>1. Init => ReplayInv
  <2> SUFFICES ASSUME Init PROVE ReplayInv
    OBVIOUS
  <2> DEFINE f == [n \in 1 .. 1 |-> {}]
  <2>1. Len(kbd) = 0 /\ status = {} /\ held = {} /\ caps = 0
    BY DEF Init
  <2>2. f \in [1 .. Len(kbd) + 1 -> SUBSET Bits]
    BY <2>1
  <2>3. Replays(f)
    BY <2>1 DEF Replays, Shows
  <2> QED
    BY <2>1, <2>2, <2>3 DEF ReplayInv
<1>2. ServiceInv /\ ReplayInv /\ [Next]_vars => ReplayInv'
  <2> SUFFICES ASSUME ServiceInv, ReplayInv, [Next]_vars PROVE ReplayInv'
    OBVIOUS
  <2>1. ASSUME UNCHANGED <<kbd, status, held, caps>> PROVE ReplayInv'
    BY <2>1 DEF ReplayInv, Replays, Shows
  <2>2. CASE Boot
    BY <2>1, <2>2 DEF Boot, init_bsp_APIC, irq_init, init_bsp_timer, keyboard_init, sti,
       textVars, keyVars
  <2>3. CASE keyboard_isr
    BY <2>3, ReplayRead, ReadFindsByte DEF ServiceInv
  <2>4. CASE SavePriority \/ bsp_local_timer \/ end_irq \/ RestorePriority \/ iretq
    BY <2>1, <2>4 DEF SavePriority, bsp_local_timer, end_irq, RestorePriority, iretq,
       textVars, keyVars
  <2>5. ASSUME NEW sc \in ScanCodes, KeyArrives(sc) PROVE ReplayInv'
    BY <2>5, ReplayArrive DEF ServiceInv
  <2>6. CASE IoApicDeliver \/ TimerFires
    BY <2>1, <2>6 DEF IoApicDeliver, TimerFires, textVars, keyVars
  <2>7. ASSUME NEW v \in irr, Accept(v) PROVE ReplayInv'
    BY <2>1, <2>7 DEF Accept, textVars, keyVars
  <2>8. CASE UNCHANGED vars
    BY <2>1, <2>8 DEF vars
  <2> QED
    BY <2>2, <2>3, <2>4, <2>5, <2>6, <2>7, <2>8 DEF Next, Handle, Loop
<1>3. ReplayInv => ModifiersTrackKeys
  <2> SUFFICES ASSUME ReplayInv, kbd = <<>> PROVE Shows(status)
    BY DEF ModifiersTrackKeys, Shows
  <2>1. Len(kbd) = 0
    OBVIOUS
  <2> QED
    BY <2>1 DEF ReplayInv, Replays
<1> QED
  BY <1>1, <1>2, <1>3, ServiceInvariant, PTL DEF Spec

-----------------------------------------------------------------------------
(* Arithmetic of rows: division by the number of columns, which is any         *)
(* positive number.                                                            *)

\* A product grows with its second factor.
LEMMA MulMonotonic ==
    ASSUME NEW c \in Nat, NEW n \in Int, NEW m \in Int, n <= m
    PROVE  c * n <= c * m
  OBVIOUS

\* The next multiple is a whole row away.
LEMMA MulNext == ASSUME NEW c \in Nat, NEW n \in Int PROVE c * (n + 1) = c * n + c
  OBVIOUS

\* The row of an offset, and that its column is less than the row's length.
LEMMA RowBounds ==
    ASSUME NEW c \in Nat \ {0}, NEW x \in Int, NEW q \in Int, q = x \div c
    PROVE  c * q <= x /\ x < c * q + c
<1>1. c * q <= x
  BY SMTT(30)
<1>2. x < c * q + c
  BY SMTT(30)
<1> QED
  BY <1>1, <1>2

\* An offset lies in one row only.
LEMMA RowUnique ==
    ASSUME NEW c \in Nat \ {0}, NEW x \in Int, NEW q \in Int, c * q <= x, x < c * q + c
    PROVE  x \div c = q
<1>1. PICK k \in Int : k = x \div c
  OBVIOUS
<1>2. c * k <= x /\ x < c * k + c
  BY <1>1, RowBounds
<1>3. CASE k < q
  <2>1. c * (k + 1) <= c * q
    BY <1>3, MulMonotonic
  <2> QED
    BY <1>2, <2>1, MulNext
<1>4. CASE q < k
  <2>1. c * (q + 1) <= c * k
    BY <1>4, MulMonotonic
  <2> QED
    BY <1>2, <2>1, MulNext
<1> QED
  BY <1>1, <1>3, <1>4

\* Moving down by whole rows moves the row and keeps the column.
LEMMA RowShift ==
    ASSUME NEW c \in Nat \ {0}, NEW r \in Int, NEW x \in Int
    PROVE  (c * r + x) \div c = r + x \div c
<1>1. PICK q \in Int : q = x \div c
  OBVIOUS
<1>2. c * q <= x /\ x < c * q + c
  BY <1>1, RowBounds
<1>3. c * (r + q) = c * r + c * q
  OBVIOUS
<1>4. c * r \in Int /\ r + q \in Int
  OBVIOUS
<1>5. (c * r + x) \div c = r + q
  BY <1>2, <1>3, <1>4, RowUnique
<1> QED
  BY <1>1, <1>5

\* Sizes of the screen: the last row starts at Size - SCREEN_COL, and an offset
\* is below the screen exactly if its row is.
LEMMA ScreenFacts ==
    /\ SCREEN_COL \in Nat \ {0} /\ SCREEN_ROW \in Nat \ {0, 1}
    /\ Size \in Nat /\ Size >= 2 * SCREEN_COL
    /\ Size = SCREEN_COL * SCREEN_ROW
    /\ \A x \in 0 .. Size : x \div SCREEN_COL >= SCREEN_ROW <=> x = Size
<1>1. SCREEN_COL \in Nat \ {0} /\ SCREEN_ROW \in Nat \ {0, 1}
  BY ScreenAssumption
<1>2. Size = SCREEN_COL * SCREEN_ROW /\ Size \in Nat
  BY <1>1 DEF Size
<1>3. SCREEN_COL * 2 <= SCREEN_COL * SCREEN_ROW
  BY <1>1, MulMonotonic
<1>4. ASSUME NEW x \in 0 .. Size PROVE x \div SCREEN_COL >= SCREEN_ROW <=> x = Size
  <2>1. PICK q \in Int : q = x \div SCREEN_COL
    BY <1>1
  <2>2. SCREEN_COL * q <= x /\ x < SCREEN_COL * q + SCREEN_COL
    BY <1>1, <1>2, <2>1, RowBounds
  <2>3. ASSUME q >= SCREEN_ROW PROVE x = Size
    <3>1. SCREEN_COL * SCREEN_ROW <= SCREEN_COL * q
      BY <1>1, <2>3, MulMonotonic
    <3> QED
      BY <1>1, <1>2, <2>2, <3>1
  <2>4. ASSUME x = Size PROVE q >= SCREEN_ROW
    <3>1. /\ SCREEN_COL * SCREEN_ROW <= x
          /\ x < SCREEN_COL * SCREEN_ROW + SCREEN_COL
      BY <1>1, <1>2, <2>4
    <3>2. SCREEN_ROW \in Int /\ x \in Int
      BY <1>1, <1>2
    <3>3. x \div SCREEN_COL = SCREEN_ROW
      BY <1>1, <3>1, <3>2, RowUnique
    <3> QED
      BY <1>1, <2>1, <3>3
  <2> QED
    BY <2>1, <2>3, <2>4
<1> QED
  BY <1>1, <1>2, <1>3, <1>4

-----------------------------------------------------------------------------
(* The screen as a window on the text                                          *)

Glyphs == {"lower", "upper", "control", ErrorCode}
Chars == {BG_BLACK, STATUS} \cup Glyphs
Screens == [cursor : Cells, video : [Cells -> Chars]]

\* The video memory v below its first row is text d from offset top on.
Window(v, d, top) ==
    \A i \in SCREEN_COL .. Size - 1 :
        v[i] = IF top + i \in DocCells THEN d[top + i] ELSE BG_BLACK

\* A whole number of rows.
Aligned(n) == \E r \in Nat : n = SCREEN_COL * r

\* Nothing is written in text d from p on.
BlankFrom(d, p) == \A j \in DocCells : j >= p => d[j] = BG_BLACK

\* Screen s with the cursor at offset off, perhaps just below the screen, shows
\* text d, of which p is the end.
Agree(s, off, d, p) ==
    /\ s \in Screens /\ off \in 0 .. Size
    /\ d \in [DocCells -> Chars] /\ p \in Nat
    /\ Aligned(p - off)
    /\ BlankFrom(d, p)
    /\ Window(s.video, d, p - off)

\* set_cursor keeps the agreement: it stores the offset, or scrolls by one line
\* and takes one line from the offset.
LEMMA SetCursorAgrees ==
    ASSUME NEW s, NEW off, NEW d, NEW p, Agree(s, off, d, p)
    PROVE  /\ Agree(set_cursor(s, off), set_cursor(s, off).cursor, d, p)
           /\ set_cursor(s, off).cursor = IF off = Size THEN Size - SCREEN_COL ELSE off
           /\ off # Size => set_cursor(s, off).video = s.video
<1>1. /\ SCREEN_COL \in Nat \ {0} /\ Size \in Nat /\ Size >= 2 * SCREEN_COL
      /\ off \in 0 .. Size /\ s \in Screens /\ p \in Nat
  BY ScreenFacts DEF Agree
<1>2. CASE off # Size
  <2>1. set_cursor(s, off) = [s EXCEPT !.cursor = off]
    BY <1>1, <1>2, ScreenFacts DEF set_cursor
  <2>2. /\ set_cursor(s, off) \in Screens
        /\ set_cursor(s, off).cursor = off
        /\ set_cursor(s, off).video = s.video
    <3>1. off \in Cells
      BY <1>1, <1>2 DEF Cells
    <3> DEFINE t == [s EXCEPT !.cursor = off]
    <3>2. t \in Screens /\ t.cursor = off /\ t.video = s.video
      BY <1>1, <3>1 DEF Screens
    <3> QED
      BY <2>1, <3>2
  <2>3. Agree(set_cursor(s, off), off, d, p)
    BY <2>2 DEF Agree
  <2> QED
    BY <1>2, <2>2, <2>3
<1>3. CASE off = Size
  <2> DEFINE t == [cursor |-> off - SCREEN_COL, video |-> scroll_screen(s.video)]
  <2>1. set_cursor(s, off) = t
    BY <1>1, <1>3, ScreenFacts DEF set_cursor
  <2>2. t.cursor = Size - SCREEN_COL /\ t.video = scroll_screen(s.video)
    BY <1>3
  <2>3. t \in Screens
    <3>1. off - SCREEN_COL \in Cells
      BY <1>1, <1>3 DEF Cells
    <3>2. scroll_screen(s.video) \in [Cells -> Chars]
      <4>1. \A i \in Cells : i < Size - SCREEN_COL => i + SCREEN_COL \in Cells
        BY <1>1 DEF Cells
      <4> QED
        BY <1>1, <4>1 DEF scroll_screen, Screens, Chars
    <3> QED
      BY <3>1, <3>2 DEF Screens
  <2>4. PICK r \in Nat : p - off = SCREEN_COL * r
    BY DEF Agree, Aligned
  <2>5. Aligned(p - t.cursor)
    <3>1. SCREEN_COL * (r + 1) = SCREEN_COL * r + SCREEN_COL
      BY <1>1, MulNext
    <3>2. p - t.cursor = SCREEN_COL * (r + 1)
      BY <1>1, <1>3, <2>2, <2>4, <3>1
    <3> QED
      BY <3>2 DEF Aligned
  <2>6. Window(t.video, d, p - t.cursor)
    <3> SUFFICES ASSUME NEW i \in SCREEN_COL .. Size - 1
                 PROVE  t.video[i] = IF p - (Size - SCREEN_COL) + i \in DocCells
                                     THEN d[p - (Size - SCREEN_COL) + i] ELSE BG_BLACK
      BY <2>2 DEF Window
    <3>1. i \in Cells
      BY <1>1 DEF Cells
    <3>2. CASE i < Size - SCREEN_COL
      <4>1. t.video[i] = s.video[i + SCREEN_COL]
        BY <2>2, <3>1, <3>2 DEF scroll_screen
      <4>2. i + SCREEN_COL \in SCREEN_COL .. Size - 1
        BY <1>1, <3>2
      <4>3. p - Size + (i + SCREEN_COL) = p - (Size - SCREEN_COL) + i
        BY <1>1
      <4>4. s.video[i + SCREEN_COL] = IF p - Size + (i + SCREEN_COL) \in DocCells
                                      THEN d[p - Size + (i + SCREEN_COL)] ELSE BG_BLACK
        BY <1>3, <4>2 DEF Agree, Window
      <4> QED
        BY <4>1, <4>3, <4>4
    <3>3. CASE ~(i < Size - SCREEN_COL)
      <4>1. t.video[i] = BG_BLACK
        BY <2>2, <3>1, <3>3 DEF scroll_screen
      <4>2. p - (Size - SCREEN_COL) + i >= p
        BY <1>1, <3>3
      <4> QED
        BY <4>1, <4>2 DEF Agree, BlankFrom
    <3> QED
      BY <3>2, <3>3
  <2>7. t.cursor \in 0 .. Size
    BY <1>1, <2>2
  <2>8. Agree(t, t.cursor, d, p)
    <3> HIDE DEF t
    <3> QED
      BY <2>3, <2>5, <2>6, <2>7 DEF Agree
  <2> QED
    BY <1>3, <2>1, <2>2, <2>8
<1> QED
  BY <1>2, <1>3

\* caos_putchar writes the character where the text ends.
LEMMA PutAgrees ==
    ASSUME NEW s, NEW d, NEW p \in DocCells, NEW c \in Chars, Agree(s, s.cursor, d, p)
    PROVE  Agree([s EXCEPT !.video[s.cursor] = c], s.cursor + 1, [d EXCEPT ![p] = c], p + 1)
<1> DEFINE t == [s EXCEPT !.video[s.cursor] = c]
           e == [d EXCEPT ![p] = c]
<1>1. /\ SCREEN_COL \in Nat \ {0} /\ Size \in Nat
      /\ s \in Screens /\ s.cursor \in Cells /\ p \in Nat
      /\ d \in [DocCells -> Chars]
  BY ScreenFacts DEF Agree, Screens
<1>2. /\ t \in Screens
      /\ \A i \in Cells : t.video[i] = IF i = s.cursor THEN c ELSE s.video[i]
  BY <1>1 DEF Screens
<1>3. /\ e \in [DocCells -> Chars]
      /\ \A j \in DocCells : e[j] = IF j = p THEN c ELSE d[j]
  BY <1>1
<1>4. (p + 1) - (s.cursor + 1) = p - s.cursor /\ s.cursor + 1 \in 0 .. Size
  BY <1>1 DEF Cells
<1>5. Window(t.video, e, p - s.cursor)
  <2> SUFFICES ASSUME NEW i \in SCREEN_COL .. Size - 1
               PROVE  t.video[i] = IF p - s.cursor + i \in DocCells
                                   THEN e[p - s.cursor + i] ELSE BG_BLACK
    BY DEF Window
  <2>1. i \in Cells
    BY <1>1 DEF Cells
  <2>2. s.video[i] = IF p - s.cursor + i \in DocCells
                     THEN d[p - s.cursor + i] ELSE BG_BLACK
    BY DEF Agree, Window
  <2>3. i = s.cursor <=> p - s.cursor + i = p
    BY <1>1, <2>1 DEF Cells
  <2> HIDE DEF t, e
  <2> QED
    BY <1>2, <1>3, <2>1, <2>2, <2>3
<1>6. BlankFrom(e, p + 1)
  <2>1. \A j \in DocCells : j >= p + 1 => j >= p /\ j # p
    BY <1>1 DEF DocCells
  <2> QED
    BY <1>3, <2>1 DEF Agree, BlankFrom
<1>7. Aligned((p + 1) - (s.cursor + 1))
  BY <1>4 DEF Agree
<1>8. Agree(t, s.cursor + 1, e, p + 1)
  <2> HIDE DEF t, e
  <2> QED
    BY <1>1, <1>2, <1>3, <1>4, <1>5, <1>6, <1>7 DEF Agree
<1> QED
  BY <1>8

\* A newline moves the end of the text and the cursor to the next row.
LEMMA NewlineAgrees ==
    ASSUME NEW s, NEW d, NEW p, Agree(s, s.cursor, d, p)
    PROVE  LET off == (s.cursor \div SCREEN_COL + 1) * SCREEN_COL
               q == (p \div SCREEN_COL + 1) * SCREEN_COL
           IN  Agree(s, off, d, q) /\ off > s.cursor /\ q > p /\ q <= p + SCREEN_COL
<1> DEFINE off == (s.cursor \div SCREEN_COL + 1) * SCREEN_COL
           q == (p \div SCREEN_COL + 1) * SCREEN_COL
<1>1. /\ SCREEN_COL \in Nat \ {0} /\ Size \in Nat
      /\ s \in Screens /\ s.cursor \in Cells /\ p \in Nat
      /\ d \in [DocCells -> Chars] /\ BlankFrom(d, p) /\ Window(s.video, d, p - s.cursor)
  BY ScreenFacts DEF Agree, Screens
<1>2. PICK r \in Nat : p - s.cursor = SCREEN_COL * r
  BY DEF Agree, Aligned
<1>3. PICK k \in Int : k = s.cursor \div SCREEN_COL
  BY <1>1 DEF Cells
<1>4. SCREEN_COL * k <= s.cursor /\ s.cursor < SCREEN_COL * k + SCREEN_COL
  BY <1>1, <1>3, RowBounds DEF Cells
<1>5. off = SCREEN_COL * k + SCREEN_COL
  BY <1>1, <1>3
<1>6. p \div SCREEN_COL = r + k
  <2>1. p = SCREEN_COL * r + s.cursor
    BY <1>1, <1>2 DEF Cells
  <2> QED
    BY <1>1, <1>3, <2>1, RowShift DEF Cells
<1>7. q = SCREEN_COL * r + off
  <2>1. q = (r + k + 1) * SCREEN_COL
    BY <1>6
  <2>2. (r + k + 1) * SCREEN_COL = SCREEN_COL * (r + k) + SCREEN_COL
    BY <1>1, <1>3
  <2>3. SCREEN_COL * (r + k) = SCREEN_COL * r + SCREEN_COL * k
    BY <1>1, <1>3
  <2> QED
    BY <1>1, <1>3, <1>5, <2>1, <2>2, <2>3
<1>8. off \in 0 .. Size
  <2>1. k < SCREEN_ROW
    BY <1>1, <1>3, ScreenFacts DEF Cells
  <2>2. SCREEN_COL * (k + 1) <= SCREEN_COL * SCREEN_ROW
    BY <1>1, <1>3, <2>1, MulMonotonic, ScreenFacts
  <2> QED
    BY <1>1, <1>3, <1>4, <1>5, <2>2, MulNext, ScreenFacts DEF Cells
<1> HIDE DEF off, q
<1>9. /\ q - off = SCREEN_COL * r /\ q - off = p - s.cursor
      /\ q > p /\ q <= p + SCREEN_COL /\ q \in Nat /\ off > s.cursor
  BY <1>1, <1>2, <1>3, <1>4, <1>5, <1>7, <1>8 DEF Cells
<1>10. Aligned(q - off)
  BY <1>9 DEF Aligned
<1>11. BlankFrom(d, q)
  <2>1. \A j \in DocCells : j >= q => j >= p
    BY <1>1, <1>9 DEF DocCells
  <2> QED
    BY <1>1, <2>1 DEF BlankFrom
<1>12. Agree(s, off, d, q)
  BY <1>1, <1>8, <1>9, <1>10, <1>11 DEF Agree
<1> QED
  BY <1>9, <1>12 DEF off, q

\* The text has room for what the keys can print.
LEMMA DocFacts ==
    /\ MaxKeys \in Nat /\ StartOffset \in Nat
    /\ StartOffset + (MaxKeys + 1) * SCREEN_COL \in Nat
    /\ StartOffset + (MaxKeys + 1) * SCREEN_COL = StartOffset + SCREEN_COL * MaxKeys + SCREEN_COL
<1>1. MaxKeys \in Nat
  BY BoundsAssumption
<1>2. StartOffset \in Nat
  BY KeyboardAssumption DEF Cells
<1>3. SCREEN_COL \in Nat
  BY ScreenFacts
<1> QED
  BY <1>1, <1>2, <1>3

\* caos_delchar blanks the last character of the text and steps back to it.
LEMMA DeleteAgrees ==
    ASSUME NEW s, NEW d, NEW p \in DocCells, Agree(s, s.cursor, d, p), s.cursor >= 1
    PROVE  /\ Agree(caos_delchar(s), s.cursor - 1, [d EXCEPT ![p - 1] = BG_BLACK], p - 1)
           /\ caos_delchar(s).cursor = s.cursor - 1
<1> DEFINE u == [cursor |-> s.cursor - 1,
                 video |-> [s.video EXCEPT ![s.cursor - 1] = BG_BLACK]]
           e == [d EXCEPT ![p - 1] = BG_BLACK]
<1>1. /\ SCREEN_COL \in Nat \ {0} /\ Size \in Nat
      /\ s \in Screens /\ s.cursor \in Cells /\ p \in Nat
      /\ d \in [DocCells -> Chars]
  BY ScreenFacts DEF Agree, Screens
<1>2. s.cursor - 1 \in Cells /\ (s.cursor - 1) \div SCREEN_COL < SCREEN_ROW
  BY <1>1, ScreenFacts DEF Cells
<1>3. caos_delchar(s) = u
  <2>1. set_cursor(s, s.cursor - 1) = [s EXCEPT !.cursor = s.cursor - 1]
    BY <1>1, <1>2, ScreenFacts DEF set_cursor, Cells
  <2> QED
    BY <1>1, <2>1 DEF caos_delchar, Screens
<1>4. /\ u \in Screens /\ u.cursor = s.cursor - 1
      /\ \A i \in Cells : u.video[i] = IF i = s.cursor - 1 THEN BG_BLACK ELSE s.video[i]
  BY <1>1, <1>2 DEF Screens, Chars
<1>5. p - 1 \in DocCells /\ p - 1 \in Nat
  <2>1. PICK r \in Nat : p - s.cursor = SCREEN_COL * r
    BY DEF Agree, Aligned
  <2>2. SCREEN_COL * r \in Nat
    BY <1>1
  <2>3. p >= 1
    BY <1>1, <2>1, <2>2 DEF Cells
  <2> QED
    BY <1>1, <2>3, DocFacts DEF DocCells
<1>6. /\ e \in [DocCells -> Chars]
      /\ \A j \in DocCells : e[j] = IF j = p - 1 THEN BG_BLACK ELSE d[j]
  BY <1>1, <1>5 DEF Chars
<1>7. (p - 1) - (s.cursor - 1) = p - s.cursor
  BY <1>1 DEF Cells
<1>8. Window(u.video, e, p - s.cursor)
  <2> SUFFICES ASSUME NEW i \in SCREEN_COL .. Size - 1
               PROVE  u.video[i] = IF p - s.cursor + i \in DocCells
                                   THEN e[p - s.cursor + i] ELSE BG_BLACK
    BY DEF Window
  <2>1. i \in Cells
    BY <1>1 DEF Cells
  <2>2. s.video[i] = IF p - s.cursor + i \in DocCells
                     THEN d[p - s.cursor + i] ELSE BG_BLACK
    BY DEF Agree, Window
  <2>3. i = s.cursor - 1 <=> p - s.cursor + i = p - 1
    BY <1>1, <2>1 DEF Cells
  <2> HIDE DEF u, e
  <2> QED
    BY <1>4, <1>6, <2>1, <2>2, <2>3
<1>9. BlankFrom(e, p - 1)
  <2>1. \A j \in DocCells : j >= p - 1 => j >= p \/ j = p - 1
    BY <1>1 DEF DocCells
  <2> QED
    BY <1>6, <2>1 DEF Agree, BlankFrom
<1>10. Aligned((p - 1) - (s.cursor - 1)) /\ s.cursor - 1 \in 0 .. Size
  BY <1>1, <1>7 DEF Agree, Cells
<1>11. Agree(u, s.cursor - 1, e, p - 1)
  <2> HIDE DEF u, e
  <2> QED
    BY <1>4, <1>5, <1>6, <1>7, <1>8, <1>9, <1>10 DEF Agree
<1> QED
  BY <1>3, <1>4, <1>11

-----------------------------------------------------------------------------
(* The backspaces that wait in the controller                                  *)

\* Where in the bytes s a backspace is.
DeletesAt(s) == {n \in DOMAIN s : s[n].key = "backspace"}

\* There are at most as many of them as bytes.
LEMMA DeletesBound ==
    ASSUME NEW s \in Seq(ScanCodes)
    PROVE  /\ IsFiniteSet(DeletesAt(s)) /\ Deletes(s) = Cardinality(DeletesAt(s))
           /\ Deletes(s) \in Nat /\ Deletes(s) <= Len(s)
<1>1. DOMAIN s = 1 .. Len(s) /\ Len(s) \in Nat
  OBVIOUS
<1>2. IsFiniteSet(1 .. Len(s)) /\ Cardinality(1 .. Len(s)) = Len(s)
  BY <1>1, FS_Interval
<1>3. DeletesAt(s) \in SUBSET (1 .. Len(s))
  BY <1>1 DEF DeletesAt
<1>4. IsFiniteSet(DeletesAt(s)) /\ Cardinality(DeletesAt(s)) <= Len(s)
  BY <1>2, <1>3, FS_Subset
<1> QED
  BY <1>4, FS_CardinalityType DEF Deletes, DeletesAt

\* A byte more is at most one backspace more, and only if it is one.
LEMMA DeletesAppend ==
    ASSUME NEW s \in Seq(ScanCodes), NEW e \in ScanCodes
    PROVE  Deletes(Append(s, e)) = IF e.key = "backspace" THEN Deletes(s) + 1 ELSE Deletes(s)
<1>1. Append(s, e) \in Seq(ScanCodes) /\ Len(s) + 1 \notin DeletesAt(s)
  BY DEF DeletesAt
<1> DEFINE t == Append(s, e)
<1>2. /\ Len(s) \in Nat /\ DOMAIN s = 1 .. Len(s) /\ DOMAIN t = 1 .. Len(s) + 1
      /\ \A n \in 1 .. Len(s) : t[n] = s[n]
      /\ t[Len(s) + 1] = e
  OBVIOUS
<1>3. CASE e.key = "backspace"
  <2>1. DeletesAt(t) = DeletesAt(s) \cup {Len(s) + 1}
    <3> HIDE DEF t
    <3> QED
      BY <1>2, <1>3 DEF DeletesAt
  <2>2. IsFiniteSet(DeletesAt(s)) /\ Deletes(s) = Cardinality(DeletesAt(s))
    BY DeletesBound
  <2>3. Cardinality(DeletesAt(s) \cup {Len(s) + 1}) = Cardinality(DeletesAt(s)) + 1
    BY <1>1, <2>2, FS_AddElement
  <2>4. Deletes(t) = Cardinality(DeletesAt(t))
    BY <1>1, DeletesBound
  <2> QED
    BY <1>3, <2>1, <2>2, <2>3, <2>4
<1>4. CASE e.key # "backspace"
  <2>1. DeletesAt(t) = DeletesAt(s)
    <3> HIDE DEF t
    <3> QED
      BY <1>2, <1>4 DEF DeletesAt
  <2> QED
    BY <1>1, <1>4, <2>1, DeletesBound
<1> QED
  BY <1>3, <1>4

\* Reading a byte that is a backspace leaves one less, any other byte as many.
LEMMA DeletesTail ==
    ASSUME NEW s \in Seq(ScanCodes), s # <<>>
    PROVE  Deletes(Tail(s)) = IF Head(s).key = "backspace" THEN Deletes(s) - 1 ELSE Deletes(s)
<1> DEFINE S == DeletesAt(Tail(s))
           T == DeletesAt(s) \ {1}
           f == [n \in S |-> n + 1]
<1>1. /\ Tail(s) \in Seq(ScanCodes) /\ Len(s) \in Nat \ {0} /\ Len(Tail(s)) = Len(s) - 1
      /\ \A n \in 1 .. Len(s) - 1 : Tail(s)[n] = s[n + 1]
  OBVIOUS
<1>2. S \subseteq Nat /\ \A n \in S : n + 1 \in T
  BY <1>1 DEF DeletesAt
<1>3. \A m \in T : m - 1 \in S /\ (m - 1) + 1 = m
  BY <1>1 DEF DeletesAt
<1>4. f \in Bijection(S, T)
  <2>1. f \in [S -> T] /\ \A n \in S : f[n] = n + 1
    BY <1>2
  <2>2. \A m \in T : \E n \in S : f[n] = m
    BY <1>3, <2>1
  <2>3. \A n, m \in S : f[n] = f[m] => n = m
    BY <1>2, <2>1
  <2> HIDE DEF f, S, T
  <2> QED
    BY <2>1, <2>2, <2>3 DEF Bijection, Injection, Surjection, IsInjective
<1>5. Cardinality(T) = Cardinality(S)
  <2>1. IsFiniteSet(S)
    BY <1>1, DeletesBound
  <2> QED
    BY <1>4, <2>1, FS_Bijection DEF ExistsBijection
<1>6. 1 \in DeletesAt(s) <=> Head(s).key = "backspace"
  BY <1>1 DEF DeletesAt
<1>7. Cardinality(T) = IF 1 \in DeletesAt(s) THEN Deletes(s) - 1 ELSE Deletes(s)
  BY DeletesBound, FS_RemoveElement
<1> QED
  BY <1>1, <1>5, <1>6, <1>7, DeletesBound

\* What a byte can print, and that only the backspace key deletes.
LEMMA PrintedType ==
    ASSUME NEW st, NEW sc \in ScanCodes
    PROVE  /\ Printed(st, sc) \in {NUL, NL, BS} \cup Glyphs
           /\ Printed(st, sc) = BS => sc.key = "backspace"
<1>1. sc.key \in Keys /\ sc.up \in BOOLEAN
  BY KeyboardAssumption
<1>2. table(st) \in {"TABLE_CAPS_N_SHIFT", "TABLE_NORMAL", "TABLE_CAPSLOCK", "TABLE_SHIFT",
                     "TABLE_CTRL", "none"}
  BY DEF table
<1>3. ASSUME sc.key \in {"letter", "j", "home"}
      PROVE  scan_to_ascii(table(st), sc.key) \in {NUL, NL} \cup Glyphs
  BY <1>2, <1>3 DEF scan_to_ascii, Glyphs, ErrorCode, NUL, NL
<1>4. NUL # BS /\ NL # BS /\ BS \notin Glyphs
  BY DEF NUL, NL, BS, Glyphs, ErrorCode
<1>5. sc.key \in {"letter", "j", "home", "enter", "backspace", "none"}
        \/ sc.key \in DOMAIN Holding \cup DOMAIN Toggling
  BY <1>1 DEF Keys
<1> QED
  BY <1>3, <1>4, <1>5 DEF Printed

-----------------------------------------------------------------------------
\* The screen shows the text; the backspaces that wait cannot take the cursor
\* off the screen; and the text has room for the keys that are still to come.
ScreenInv == /\ Agree(scr, scr.cursor, doc, pos)
             /\ Deletes(kbd) <= scr.cursor
             /\ Len(kbd) <= KbdBuffer
             /\ keys \in Nat /\ Len(kbd) <= keys /\ keys <= MaxKeys
             /\ pos <= StartOffset + SCREEN_COL * (keys - Len(kbd))

\* One byte, whatever it prints, keeps the screen a window on the text.
LEMMA ScreenRead ==
    ASSUME LineInv, ScreenInv, kbd # <<>>, keyboard_isr
    PROVE  ScreenInv'
<1> DEFINE c == Printed(status, Head(kbd))
<1>1. /\ Head(kbd) \in ScanCodes /\ kbd' = Tail(kbd) /\ keys' = keys
      /\ Len(kbd) \in Nat \ {0} /\ Len(kbd') = Len(kbd) - 1 /\ kbd' \in Seq(ScanCodes)
  BY DEF LineInv, keyboard_isr, keyVars
<1>2. /\ SCREEN_COL \in Nat \ {0} /\ Size \in Nat /\ Size >= 2 * SCREEN_COL
      /\ KbdBuffer \in Nat /\ KbdBuffer <= Size - SCREEN_COL
      /\ scr \in Screens /\ scr.cursor \in Cells /\ scr.cursor \in Nat /\ pos \in Nat
  BY ScreenFacts, BoundsAssumption, KeyboardAssumption DEF ScreenInv, Agree, Screens, Cells
<1>3. pos \in DocCells
  <2>1. SCREEN_COL * (keys - Len(kbd)) <= SCREEN_COL * MaxKeys
    BY <1>1, <1>2, DocFacts, MulMonotonic DEF ScreenInv
  <2>2. SCREEN_COL * (keys - Len(kbd)) \in Int /\ SCREEN_COL * MaxKeys \in Int
    BY <1>1, <1>2, DocFacts DEF ScreenInv
  <2> QED
    BY <1>2, <2>1, <2>2, DocFacts DEF ScreenInv, DocCells
<1>4. SCREEN_COL * (keys' - Len(kbd')) = SCREEN_COL * (keys - Len(kbd)) + SCREEN_COL
  <2>1. keys - Len(kbd) \in Int /\ keys' - Len(kbd') = (keys - Len(kbd)) + 1
    BY <1>1 DEF ScreenInv
  <2> QED
    BY <1>2, <2>1, MulNext
<1>5. /\ Deletes(kbd') \in Nat /\ Deletes(kbd) \in Nat
      /\ Deletes(kbd') <= Deletes(kbd) /\ Deletes(kbd') <= Size - SCREEN_COL
  <2>1. Deletes(kbd') <= Len(kbd') /\ Deletes(kbd') \in Nat /\ Deletes(kbd) \in Nat
    BY <1>1, DeletesBound DEF LineInv
  <2>2. Deletes(kbd') <= Deletes(kbd)
    BY <1>1, <2>1, DeletesTail DEF LineInv
  <2> QED
    BY <1>1, <1>2, <2>1, <2>2 DEF ScreenInv
<1>6. scr' = caos_printf(scr, c) /\ Record(c)
  BY DEF keyboard_isr
<1>7. c \in {NUL, NL, BS} \cup Glyphs
  BY <1>1, PrintedType
<1>8. /\ Agree(scr, scr.cursor, doc, pos)'
      /\ pos' <= pos + SCREEN_COL
      /\ Deletes(kbd') <= scr'.cursor
  <2>1. CASE c = NUL
    <3>1. UNCHANGED <<scr, doc, pos>>
      BY <1>6, <2>1 DEF Record, caos_printf, NUL, NL, BS
    <3> QED
      BY <1>2, <1>5, <3>1 DEF ScreenInv
  <2>2. CASE c = NL
    <3> DEFINE off == (scr.cursor \div SCREEN_COL + 1) * SCREEN_COL
               q == (pos \div SCREEN_COL + 1) * SCREEN_COL
    <3>1. scr' = set_cursor(scr, off) /\ pos' = q /\ doc' = doc
      BY <1>6, <2>2 DEF Record, caos_printf, newline, NUL, NL, BS
    <3>2. Agree(scr, off, doc, q) /\ off > scr.cursor /\ q <= pos + SCREEN_COL
      BY NewlineAgrees DEF ScreenInv
    <3> HIDE DEF off, q
    <3>3. /\ Agree(scr', scr'.cursor, doc, q)
          /\ scr'.cursor = IF off = Size THEN Size - SCREEN_COL ELSE off
      BY <3>1, <3>2, SetCursorAgrees
    <3>4. off \in Nat
      BY <3>2 DEF Agree
    <3>5. Deletes(kbd') <= scr'.cursor
      BY <1>2, <1>5, <3>2, <3>3, <3>4 DEF ScreenInv
    <3> QED
      BY <3>1, <3>2, <3>3, <3>5
  <2>3. CASE c = BS
    <3>1. Head(kbd).key = "backspace"
      BY <1>1, <2>3, PrintedType
    <3>2. Deletes(kbd') = Deletes(kbd) - 1
      BY <1>1, <3>1, DeletesTail DEF LineInv
    <3>3. scr.cursor >= 1
      BY <1>2, <1>5, <3>2 DEF ScreenInv
    <3>4. scr' = caos_delchar(scr) /\ pos' = pos - 1 /\ doc' = [doc EXCEPT ![pos - 1] = BG_BLACK]
      BY <1>6, <2>3 DEF Record, caos_printf, NUL, NL, BS
    <3>5. Agree(scr', scr.cursor - 1, doc', pos') /\ scr'.cursor = scr.cursor - 1
      BY <1>3, <3>3, <3>4, DeleteAgrees DEF ScreenInv
    <3> QED
      BY <1>2, <1>5, <3>2, <3>4, <3>5 DEF ScreenInv
  <2>4. CASE c \in Glyphs
    <3>1. c \notin {NUL, NL, BS} /\ c \in Chars
      BY <2>4 DEF Glyphs, Chars, NUL, NL, BS, ErrorCode
    <3> HIDE DEF c
    <3> DEFINE t == [scr EXCEPT !.video[scr.cursor] = c]
               e == [doc EXCEPT ![pos] = c]
    <3>2. scr' = set_cursor(t, scr.cursor + 1) /\ pos' = pos + 1 /\ doc' = e
      BY <1>6, <3>1 DEF Record, caos_printf, caos_putchar
    <3>3. Agree(t, scr.cursor + 1, e, pos + 1)
      BY <1>3, <3>1, PutAgrees DEF ScreenInv
    <3> HIDE DEF t, e
    <3>4. /\ Agree(scr', scr'.cursor, e, pos + 1)
          /\ scr'.cursor = IF scr.cursor + 1 = Size THEN Size - SCREEN_COL ELSE scr.cursor + 1
      BY <3>2, <3>3, SetCursorAgrees
    <3>5. Deletes(kbd') <= scr'.cursor
      BY <1>2, <1>5, <3>4 DEF ScreenInv
    <3> QED
      BY <1>2, <3>2, <3>4, <3>5
  <2> QED
    BY <1>7, <2>1, <2>2, <2>3, <2>4
<1>9. pos' \in Int
  BY <1>8 DEF Agree
<1> QED
  BY <1>1, <1>2, <1>4, <1>8, <1>9, DocFacts DEF ScreenInv

\* The timer's status line stays in the first row, which is not part of the
\* window.
LEMMA ScreenTick == ASSUME ScreenInv, bsp_local_timer PROVE ScreenInv'
<1> DEFINE v == [i \in Cells |-> IF i < SCREEN_COL THEN STATUS ELSE scr.video[i]]
<1>1. scr \in Screens /\ SCREEN_COL \in Nat /\ Size \in Nat
  BY ScreenFacts DEF ScreenInv, Agree
<1>2. scr' = [scr EXCEPT !.video = v] /\ UNCHANGED <<doc, pos, kbd, keys>>
  BY DEF bsp_local_timer, set_screen_line, keyVars
<1>3. v \in [Cells -> Chars]
  BY <1>1 DEF Screens, Chars
<1>4. scr' \in Screens /\ scr'.cursor = scr.cursor /\ scr'.video = v
  BY <1>1, <1>2, <1>3 DEF Screens
<1>5. Window(v, doc, pos - scr.cursor)
  <2>1. \A i \in SCREEN_COL .. Size - 1 : i \in Cells /\ ~(i < SCREEN_COL)
    BY <1>1 DEF Cells
  <2> QED
    BY <2>1 DEF ScreenInv, Agree, Window
<1> HIDE DEF v
<1>6. Agree(scr', scr.cursor, doc, pos)
  BY <1>4, <1>5 DEF ScreenInv, Agree
<1> QED
  BY <1>2, <1>4, <1>6 DEF ScreenInv

\* A key that arrives adds a byte, and a backspace only if the cursor is far
\* enough from the top.
LEMMA ScreenArrive ==
    ASSUME LineInv, ScreenInv, NEW sc \in ScanCodes, KeyArrives(sc)
    PROVE  ScreenInv'
<1>1. /\ UNCHANGED <<scr, doc, pos>> /\ kbd' = Append(kbd, sc) /\ keys' = keys + 1
      /\ keys < MaxKeys /\ Len(kbd) < KbdBuffer
      /\ sc.key = "backspace" => Deletes(kbd) < scr.cursor
  BY DEF KeyArrives, textVars
<1>2. Len(kbd) \in Nat /\ Len(kbd') = Len(kbd) + 1
  BY <1>1 DEF LineInv
<1>3. KbdBuffer \in Nat /\ MaxKeys \in Nat /\ scr.cursor \in Int /\ Deletes(kbd) \in Nat
  BY BoundsAssumption, ScreenFacts, DeletesBound DEF LineInv, ScreenInv, Agree, Screens, Cells
<1>4. Deletes(kbd') <= scr.cursor
  BY <1>1, <1>3, DeletesAppend DEF LineInv, ScreenInv
<1>5. keys' - Len(kbd') = keys - Len(kbd)
  BY <1>1, <1>2 DEF ScreenInv
<1> QED
  BY <1>1, <1>2, <1>3, <1>4, <1>5 DEF ScreenInv

\* Whatever keys are pressed, and whenever the timer writes its status line, the
\* cursor stays on the screen and the screen shows the end of the text: nothing
\* that caos_printf printed is lost but what scrolled out at the top.
THEOREM ServiceScreen == Spec => []ScreenIsWindow
<1>1. Init => ScreenInv
  <2> SUFFICES ASSUME Init PROVE ScreenInv
    OBVIOUS
  <2>1. /\ scr = [cursor |-> StartOffset, video |-> [i \in Cells |-> BG_BLACK]]
        /\ doc = [i \in DocCells |-> BG_BLACK] /\ pos = StartOffset
        /\ keys = 0 /\ kbd = <<>>
    BY DEF Init
  <2>2. /\ SCREEN_COL \in Nat \ {0} /\ Size \in Nat /\ StartOffset \in Cells
        /\ KbdBuffer \in Nat /\ MaxKeys \in Nat
    BY ScreenFacts, KeyboardAssumption, BoundsAssumption
  <2>3. Len(kbd) = 0 /\ Deletes(kbd) = 0
    <3>1. Len(kbd) = 0 /\ {n \in DOMAIN kbd : kbd[n].key = "backspace"} = {}
      BY <2>1
    <3> QED
      BY <3>1, FS_EmptySet DEF Deletes
  <2>4. scr \in Screens /\ scr.cursor = StartOffset /\ doc \in [DocCells -> Chars]
    BY <2>1, <2>2 DEF Screens, Chars
  <2>5. Aligned(pos - scr.cursor)
    <3>1. pos - scr.cursor = SCREEN_COL * 0
      BY <2>1, <2>2, <2>4 DEF Cells
    <3> QED
      BY <3>1 DEF Aligned
  <2>6. Window(scr.video, doc, pos - scr.cursor)
    <3>1. scr.video = [i \in Cells |-> BG_BLACK]
      BY <2>1
    <3>2. SCREEN_COL .. Size - 1 \subseteq Cells
      BY <2>2 DEF Cells
    <3> QED
      BY <2>1, <3>1, <3>2 DEF Window
  <2>7. BlankFrom(doc, pos)
    BY <2>1 DEF BlankFrom
  <2>8. Agree(scr, scr.cursor, doc, pos)
    BY <2>1, <2>2, <2>4, <2>5, <2>6, <2>7 DEF Agree, Cells
  <2>9. pos <= StartOffset + SCREEN_COL * (keys - Len(kbd))
    BY <2>1, <2>2, <2>3 DEF Cells
  <2> QED
    BY <2>1, <2>2, <2>3, <2>4, <2>8, <2>9 DEF ScreenInv, Cells
<1>2. ServiceInv /\ ScreenInv /\ [Next]_vars => ScreenInv'
  <2> SUFFICES ASSUME ServiceInv, ScreenInv, [Next]_vars PROVE ScreenInv'
    OBVIOUS
  <2>1. ASSUME UNCHANGED <<kbd, scr, doc, pos, keys>> PROVE ScreenInv'
    BY <2>1 DEF ScreenInv
  <2>2. CASE Boot
    BY <2>1, <2>2 DEF Boot, init_bsp_APIC, irq_init, init_bsp_timer, keyboard_init, sti,
       textVars, keyVars
  <2>3. CASE keyboard_isr
    BY <2>3, ScreenRead, ReadFindsByte DEF ServiceInv
  <2>4. CASE bsp_local_timer
    BY <2>4, ScreenTick
  <2>5. CASE SavePriority \/ end_irq \/ RestorePriority \/ iretq
    BY <2>1, <2>5 DEF SavePriority, end_irq, RestorePriority, iretq, textVars, keyVars
  <2>6. ASSUME NEW sc \in ScanCodes, KeyArrives(sc) PROVE ScreenInv'
    BY <2>6, ScreenArrive DEF ServiceInv
  <2>7. CASE IoApicDeliver \/ TimerFires
    BY <2>1, <2>7 DEF IoApicDeliver, TimerFires, textVars, keyVars
  <2>8. ASSUME NEW v \in irr, Accept(v) PROVE ScreenInv'
    BY <2>1, <2>8 DEF Accept, textVars, keyVars
  <2>9. CASE UNCHANGED vars
    BY <2>1, <2>9 DEF vars
  <2> QED
    BY <2>2, <2>3, <2>4, <2>5, <2>6, <2>7, <2>8, <2>9 DEF Next, Handle, Loop
<1>3. ScreenInv => ScreenIsWindow
  <2> SUFFICES ASSUME ScreenInv PROVE ScreenIsWindow
    OBVIOUS
  <2>1. PICK r \in Nat : pos - scr.cursor = SCREEN_COL * r
    BY DEF ScreenInv, Agree, Aligned
  <2>2. SCREEN_COL \in Nat \ {0}
    BY ScreenFacts
  <2>3. SCREEN_COL * r >= 0 /\ (SCREEN_COL * r) % SCREEN_COL = 0
    BY <2>2
  <2> QED
    BY <2>1, <2>3 DEF ScreenInv, Agree, Screens, Window, ScreenIsWindow
<1> QED
  BY <1>1, <1>2, <1>3, ServiceInvariant, PTL DEF Spec
=============================================================================
