----------------------------- MODULE Interrupts -----------------------------
(***************************************************************************)
(* Interrupts on the bootstrap processor, from the devices to the screen:  *)
(* the last part of start_kernel that sets them up (init_bsp_APIC,         *)
(* irq_init, init_bsp_timer, keyboard_init, sti), handle_irq between the   *)
(* entry code of irq_entry.asm and its iretq, and the two handlers,        *)
(* bsp_local_timer and keyboard_isr.  The keyboard controller, the I/O     *)
(* APIC and the local APIC are external: KeyArrives, IoApicDeliver,        *)
(* TimerFires and Accept.                                                  *)
(*                                                                         *)
(* Gates of IRQs are interrupt gates, so a handler runs with interrupts    *)
(* off and there is at most one in progress: cpu is its frame.             *)
(***************************************************************************)
EXTENDS Keyboard, Sequences, FiniteSets

CONSTANTS ScanCodes,      \* scan codes that keys send
          StartOffset,    \* cursor when the boot messages are out
          IoApicEntry,    \* highest redirection entry of the I/O APIC
          KbdBuffer,      \* bytes the keyboard controller holds
          MaxKeys,        \* bound: scan codes sent
          MaxTicks        \* bound: timer expirations

ASSUME BoundsAssumption == {KbdBuffer, MaxKeys, MaxTicks, IoApicEntry} \subseteq Nat

\* The cursor starts on the screen, and the screen below its first line holds
\* more cells than the keyboard controller holds bytes (24 * 80 and 16 in the
\* machine), so that backspaces that wait there cannot outrun the cursor.
ASSUME KeyboardAssumption == /\ ScanCodes \subseteq [key : Keys, up : BOOLEAN]
                             /\ StartOffset \in Cells
                             /\ KbdBuffer <= Size - SCREEN_COL

KEYBOARD_IRQ == 1
BSP_TIMER_IRQ == 16
Irqs == 0 .. 31
IRQ_TO_VECTOR(irq) == irq + 32
IrqOf(vector) == vector - 32
Priority(vector) == vector \div 16

VARIABLES boot,           \* steps of start_kernel done
          if,             \* RFLAGS.IF
          gate,           \* IRQs whose IDT entry is an interrupt gate
          irq_handler,
          lvtt_masked,    \* mask bit of the local timer
          redtbl,         \* I/O APIC pins that are enabled
          remote_irr,     \* pins waiting for the EOI of a level interrupt
          irr, isr, tpr,  \* local APIC
          cpu,            \* frame of the handler in progress
          kbd,            \* bytes in the keyboard controller
          held, caps,     \* keys that are down, presses of CAPS LOCK modulo 2
          status,         \* key.status
          scr,            \* the screen
          doc, pos,       \* history: all text printed and where printing is
          keys, ticks     \* counts for the bounds

vars == <<boot, if, gate, irq_handler, lvtt_masked, redtbl, remote_irr, irr, isr, tpr,
          cpu, kbd, held, caps, status, scr, doc, pos, keys, ticks>>

setupVars == <<boot, gate, irq_handler, lvtt_masked, redtbl>>
apicVars == <<remote_irr, irr, isr, tpr>>
textVars == <<status, scr, doc, pos>>
keyVars == <<held, caps, keys, ticks>>

NoFrame == [vector |-> -1, step |-> "none", task_pri |-> 0]

\* Every position printing can reach within the bounds.
DocCells == 0 .. StartOffset + (MaxKeys + 1) * SCREEN_COL

Init == /\ boot = 0 /\ if = FALSE
        /\ gate = {} /\ irq_handler = [i \in Irqs |-> "null"]
        /\ lvtt_masked = TRUE /\ redtbl = {} /\ remote_irr = {}
        /\ irr = {} /\ isr = {} /\ tpr = 0
        /\ cpu = NoFrame
        /\ kbd = <<>> /\ held = {} /\ caps = 0 /\ status = {}
        /\ scr = [cursor |-> StartOffset, video |-> [i \in Cells |-> BG_BLACK]]
        /\ doc = [i \in DocCells |-> BG_BLACK] /\ pos = StartOffset
        /\ keys = 0 /\ ticks = 0

-----------------------------------------------------------------------------
(* start_kernel, with interrupts off until sti *)

\* Mutant: the timer is set up before irq_init.
BootSteps_TimerFirst == <<"init_bsp_APIC", "init_bsp_timer", "irq_init", "keyboard_init", "sti">>

BootSteps == <<"init_bsp_APIC", "irq_init", "init_bsp_timer", "keyboard_init", "sti">>

Booting(what) == /\ boot < Len(BootSteps) /\ BootSteps[boot + 1] = what
                 /\ boot' = boot + 1

\* Masks the LVT, accepts all priorities, acknowledges what is left over.
init_bsp_APIC == /\ Booting("init_bsp_APIC")
                 /\ lvtt_masked' = TRUE /\ tpr' = 0 /\ isr' = {}
                 /\ UNCHANGED <<if, gate, irq_handler, redtbl, remote_irr, irr, cpu, kbd,
                                textVars, keyVars>>

irq_init == /\ Booting("irq_init")
            /\ irq_handler' = [i \in Irqs |-> "ignore_isr_handler"]
            /\ gate' = 0 .. 21
            /\ UNCHANGED <<if, lvtt_masked, redtbl, apicVars, cpu, kbd, textVars, keyVars>>

\* Mutant: the mask bit stays set.
io_apic_enable_irq_Masked(irq) == redtbl

\* io_apic_enable_irq: the redirection table with irq level-triggered and not
\* masked, if the I/O APIC has such an entry
io_apic_enable_irq(irq) == IF irq > IoApicEntry THEN redtbl ELSE redtbl \cup {irq}

register_irq(irq, handler) == /\ irq_handler' = [irq_handler EXCEPT ![irq] = handler]
                              /\ redtbl' = io_apic_enable_irq(irq)

init_bsp_timer == /\ Booting("init_bsp_timer")
                  /\ lvtt_masked' = FALSE
                  /\ register_irq(BSP_TIMER_IRQ, "bsp_local_timer")
                  /\ UNCHANGED <<if, gate, apicVars, cpu, kbd, textVars, keyVars>>

keyboard_init == /\ Booting("keyboard_init")
                 /\ register_irq(KEYBOARD_IRQ, "keyboard_isr")
                 /\ UNCHANGED <<if, gate, lvtt_masked, apicVars, cpu, kbd, textVars, keyVars>>

sti == /\ Booting("sti")
       /\ if' = TRUE
       /\ UNCHANGED <<gate, irq_handler, lvtt_masked, redtbl, apicVars, cpu, kbd,
                      textVars, keyVars>>

-----------------------------------------------------------------------------
(* External: devices and interrupt controllers *)

Deletes(s) == Cardinality({n \in DOMAIN s : s[n].key = "backspace"})

\* A key is pressed if it is up and released if it is down.  Backspace is not
\* pressed with the cursor in the top left corner.
KeyArrives(sc) ==
    /\ keys < MaxKeys /\ Len(kbd) < KbdBuffer
    /\ sc.key \in DOMAIN Holding => (sc.up <=> sc.key \in held)
    /\ sc.key = "backspace" => Deletes(kbd) < scr.cursor
    /\ kbd' = Append(kbd, sc)
    /\ keys' = keys + 1
    /\ held' = IF sc.key \notin DOMAIN Holding THEN held
               ELSE IF sc.up THEN held \ {sc.key} ELSE held \cup {sc.key}
    /\ caps' = IF sc.key = "caps" /\ ~sc.up THEN 1 - caps ELSE caps
    /\ UNCHANGED <<setupVars, if, apicVars, cpu, textVars, ticks>>

\* The keyboard holds its line while it has a byte; a level-triggered pin sends
\* once per EOI.  io_apic_enable_irq programs the pin active low, but the line of
\* the keyboard is active high: the I/O APIC is that of the emulator of run.sh,
\* which does not look at the polarity.
IoApicDeliver == /\ KEYBOARD_IRQ \in redtbl \ remote_irr
                 /\ kbd # <<>>
                 /\ irr' = irr \cup {IRQ_TO_VECTOR(KEYBOARD_IRQ)}
                 /\ remote_irr' = remote_irr \cup {KEYBOARD_IRQ}
                 /\ UNCHANGED <<setupVars, if, isr, tpr, cpu, kbd, textVars, keyVars>>

TimerFires == /\ ~lvtt_masked /\ ticks < MaxTicks
              /\ irr' = irr \cup {IRQ_TO_VECTOR(BSP_TIMER_IRQ)}
              /\ ticks' = ticks + 1
              /\ UNCHANGED <<setupVars, if, remote_irr, isr, tpr, cpu, kbd, textVars,
                             held, caps, keys>>

\* The processor takes the highest interrupt that its priority lets through.
Accept(v) == /\ if /\ v \in irr
             /\ \A w \in irr : w <= v
             /\ \A w \in isr \cup {tpr} : Priority(v) > Priority(w)
             /\ irr' = irr \ {v} /\ isr' = isr \cup {v}
             /\ cpu' = [vector |-> v, step |-> "save", task_pri |-> 0]
             /\ if' = FALSE
             /\ UNCHANGED <<setupVars, remote_irr, tpr, kbd, textVars, keyVars>>

-----------------------------------------------------------------------------
(* irq_entry.asm and handle_irq.  A null handler would be skipped and         *)
(* ignore_isr_handler would print a message; HandlersReady is the claim that  *)
(* neither is ever reached, so they have no action.                           *)

\* The EOI ends the highest interrupt in service.
EOI == LET top == {v \in isr : \A w \in isr : w <= v}
       IN /\ isr' = isr \ top
          /\ remote_irr' = remote_irr \ {IrqOf(v) : v \in top}

\* Mutant: the interrupt is acknowledged before its handler has run.
SavePriority_EarlyEOI == /\ cpu.step = "save"
                         /\ tpr' = cpu.vector
                         /\ EOI
                         /\ cpu' = [cpu EXCEPT !.step = "call", !.task_pri = tpr]
                         /\ UNCHANGED <<setupVars, if, irr, kbd, textVars, keyVars>>

SavePriority == /\ cpu.step = "save"
                /\ tpr' = cpu.vector
                /\ cpu' = [cpu EXCEPT !.step = "call", !.task_pri = tpr]
                /\ UNCHANGED <<setupVars, if, remote_irr, irr, isr, kbd, textVars, keyVars>>

\* The text without a screen around it: the reference the screen is compared
\* with.
Record(c) == /\ pos' = CASE c = NUL -> pos
                         [] c = NL -> (pos \div SCREEN_COL + 1) * SCREEN_COL
                         [] c = BS -> pos - 1
                         [] OTHER -> pos + 1
             /\ doc' = CASE c \in {NUL, NL} -> doc
                         [] c = BS -> [doc EXCEPT ![pos - 1] = BG_BLACK]
                         [] OTHER -> [doc EXCEPT ![pos] = c]

\* inb(0x60) takes the byte; the rest is keyboard_isr.
keyboard_isr == /\ cpu.step = "call" /\ irq_handler[IrqOf(cpu.vector)] = "keyboard_isr"
                /\ kbd' = Tail(kbd)
                /\ status' = NewStatus(status, Head(kbd))
                /\ scr' = caos_printf(scr, Printed(status, Head(kbd)))
                /\ Record(Printed(status, Head(kbd)))
                /\ cpu' = [cpu EXCEPT !.step = "eoi"]
                /\ UNCHANGED <<setupVars, if, apicVars, keyVars>>

bsp_local_timer == /\ cpu.step = "call"
                   /\ irq_handler[IrqOf(cpu.vector)] = "bsp_local_timer"
                   /\ scr' = set_screen_line(scr)
                   /\ cpu' = [cpu EXCEPT !.step = "eoi"]
                   /\ UNCHANGED <<setupVars, if, apicVars, kbd, status, doc, pos, keyVars>>

\* Mutant: end_irq is left out.
end_irq_None == /\ cpu.step = "eoi"
                /\ cpu' = [cpu EXCEPT !.step = "restore"]
                /\ UNCHANGED <<setupVars, if, apicVars, kbd, textVars, keyVars>>

end_irq == /\ cpu.step = "eoi"
           /\ EOI
           /\ cpu' = [cpu EXCEPT !.step = "restore"]
           /\ UNCHANGED <<setupVars, if, irr, tpr, kbd, textVars, keyVars>>

RestorePriority == /\ cpu.step = "restore"
                   /\ tpr' = cpu.task_pri
                   /\ cpu' = [cpu EXCEPT !.step = "iretq"]
                   /\ UNCHANGED <<setupVars, if, remote_irr, irr, isr, kbd, textVars, keyVars>>

iretq == /\ cpu.step = "iretq"
         /\ cpu' = NoFrame
         /\ if' = TRUE
         /\ UNCHANGED <<setupVars, apicVars, kbd, textVars, keyVars>>

Boot == init_bsp_APIC \/ irq_init \/ init_bsp_timer \/ keyboard_init \/ sti
Handle == \/ SavePriority \/ keyboard_isr \/ bsp_local_timer \/ end_irq
          \/ RestorePriority \/ iretq

\* while (1) ;
Loop == boot = Len(BootSteps) /\ cpu = NoFrame /\ UNCHANGED vars

Next == \/ Boot \/ Handle
        \/ \E sc \in ScanCodes : KeyArrives(sc)
        \/ IoApicDeliver \/ TimerFires
        \/ \E v \in irr : Accept(v)
        \/ Loop

\* The processor goes on, and the controllers pass on what they hold.  Nothing
\* is assumed of the devices: keys and the timer may stop.
Fairness == /\ WF_vars(Boot) /\ WF_vars(Handle) /\ WF_vars(IoApicDeliver)
            /\ WF_vars(\E v \in irr : Accept(v))

Spec == Init /\ [][Next]_vars /\ Fairness

-----------------------------------------------------------------------------
\* An interrupt is accepted only when its gate and its handler are in place:
\* nothing arrives between the unmasking of a source and the registration of
\* its handler, and nothing registered is lost again (start_kernel,
\* init_bsp_timer, register_irq).
HandlersReady == cpu # NoFrame =>
    /\ IrqOf(cpu.vector) \in gate
    /\ irq_handler[IrqOf(cpu.vector)] \notin {"null", "ignore_isr_handler"}

\* Between interrupts the local APIC is as it was: nothing in service, priority
\* 0; and what is in service is what the processor handles (handle_irq).
PriorityKept == /\ cpu = NoFrame => isr = {} /\ tpr = 0
                /\ isr \subseteq {cpu.vector}

\* keyboard_isr never finds an empty controller: one byte per interrupt.
ByteForEachInterrupt ==
    (cpu.step \in {"save", "call"} /\ cpu.vector = IRQ_TO_VECTOR(KEYBOARD_IRQ)) => kbd # <<>>

\* With all bytes read, key.status shows the keys that are down and whether
\* CAPS LOCK is on, whatever was pressed in between (keyboard_isr).
ModifiersTrackKeys == kbd = <<>> =>
    /\ \A k \in DOMAIN Holding : Holding[k] \in status <=> k \in held
    /\ "MK_CAPSLOCK" \in status <=> caps = 1

\* The cursor is on the screen, so every character is written into it, and
\* below the status line the screen shows the last rows of all the text that
\* was printed up to there (set_cursor, caos_delchar, scroll_screen).
ScreenIsWindow ==
    LET top == pos - scr.cursor
    IN /\ scr.cursor \in Cells
       /\ top >= 0 /\ top % SCREEN_COL = 0
       /\ \A i \in SCREEN_COL .. Size - 1 :
             scr.video[i] = IF top + i \in DocCells THEN doc[top + i] ELSE BG_BLACK

\* Every byte in the controller is read in the end, one that arrived during
\* boot too, and every timer interrupt is served.
InterruptsServed == /\ kbd # <<>> ~> kbd = <<>>
                    /\ irr # {} ~> irr = {}

=============================================================================
