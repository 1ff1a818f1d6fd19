----------------------------- MODULE Exceptions -----------------------------
(***************************************************************************)
(* Exceptions and interrupts on one processor, on the level of its stack:  *)
(* the gates of idt_init and irq_init, what the processor pushes, the      *)
(* entry code of except_entry.asm and irq_entry.asm (push 0, SAVE_ALL,     *)
(* the arguments, RESTORE_ALL, the end of the entry), and the message the  *)
(* handler prints through the static buffer sz of caos_printf.             *)
(*                                                                         *)
(* A word that can get printed, an address or an error code, is its eight  *)
(* bytes, lowest first; any other one is just a number.  An entry point is *)
(* known by the vector it is written for, _ignore_isr by IGNORE.  Handlers *)
(* nest: frames is the stack of those in progress.                         *)
(*                                                                         *)
(* The kernel is compiled without -mno-red-zone: a function that calls no  *)
(* other one keeps data in the words below rsp (red), where the processor  *)
(* pushes its frame when it is interrupted.                                *)
(***************************************************************************)
EXTENDS Format, FiniteSets, SequencesExt

CONSTANTS Vectors,      \* vectors the program raises
          Irqs,         \* IRQs that devices raise
          Codes,        \* error codes
          Rips,         \* addresses the program can be at
          MaxFaults,    \* bound: exceptions raised
          MaxIrqs,      \* bound: IRQs raised
          MaxEvents     \* bound: both together

KEYBOARD_IRQ == 1
BSP_TIMER_IRQ == 16
IRQ_TO_VECTOR(irq) == irq + 32
IGNORE == 255
NMI == 2
DOUBLE_FAULT == 8
MACHINE_CHECK == 18

ZERO == <<0, 0, 0, 0, 0, 0, 0, 0>>

\* A word that is never printed.
Word(n) == <<n>>
SS == Word(32)
CS == Word(24)
JUNK == Word(255)

\* The order of SAVE_ALL.
SaveOrder == <<"rax", "rbx", "rcx", "rdx", "rsi", "rdi", "rbp", "r8", "r9", "r10", "r11",
               "r12", "r13", "r14", "r15", "fs", "gs">>
Registers == ToSet(SaveOrder)

\* Registers a C function may change.
Volatile == {"rax", "rcx", "rdx", "rsi", "rdi", "r8", "r9", "r10", "r11"}

\* Mutant: two registers are taken back in the wrong order.
RestoreOrder_Swapped == <<"fs", "gs", "r15", "r14", "r13", "r12", "r11", "r10", "r9", "r8",
                          "rbp", "rdi", "rsi", "rdx", "rbx", "rcx", "rax">>

\* The order of RESTORE_ALL: fs and gs are swapped, and hold the same selector.
RestoreOrder == <<"fs", "gs", "r15", "r14", "r13", "r12", "r11", "r10", "r9", "r8",
                  "rbp", "rdi", "rsi", "rdx", "rcx", "rbx", "rax">>

-----------------------------------------------------------------------------
(* idt_init and irq_init *)

Address(label) == <<label, 18, 16, 0, 0, 128, 255, 255>>

\* set_intr_gate, set_trap_gate and set_system_gate
SetGate(type, label) == [offset0_15  |-> SubSeq(Address(label), 1, 2),
                         type        |-> type,
                         offset16_31 |-> SubSeq(Address(label), 3, 4),
                         offset32_63 |-> SubSeq(Address(label), 5, 8)]

\* Mutant: every exception gets an interrupt gate.
ExceptionGate_AllIntr(v) == SetGate("INT", v)

ExceptionGate(v) == IF v \in {2, 14} THEN SetGate("INT", v)
                    ELSE IF v \in {3, 4, 5} THEN SetGate("SYS", v)
                    ELSE SetGate("TRAP", v)

\* The table when both have run.
idt_table ==
    [v \in 0 .. 255 |->
        IF v \in (0 .. 19) \ {15} THEN ExceptionGate(v)
        ELSE IF v \in 32 .. 53 THEN SetGate("INT", v)
        ELSE SetGate("TRAP", IGNORE)]

\* External: the processor takes the three parts of the address together.
Target(gate) == LET a == gate.offset0_15 \o gate.offset16_31 \o gate.offset32_63
                IN  CHOOSE label \in 0 .. 255 : Address(label) = a

\* External: exceptions with an error code.
PushesCode(v) == v \in {8, 10, 11, 12, 13, 14, 17}

-----------------------------------------------------------------------------
VARIABLES regs, rip, if,    \* the processor
          stack,            \* words, the top last
          red,              \* data of a leaf function in the words below that
          frames,           \* handlers in progress, the innermost last
          sz,               \* buffer of caos_printf: text and converted arguments
          pending,          \* IRQs the local APIC holds
          faults, irqs      \* counts for the bounds

vars == <<regs, rip, if, stack, red, frames, sz, pending, faults, irqs>>
counts == <<faults, irqs>>
More == faults + irqs < MaxEvents

\* What a leaf function of the program keeps below rsp.
DATA == Word(7)

Init == /\ regs = [r \in Registers |-> IF r \in {"fs", "gs"} THEN SS
                                       ELSE Word(CHOOSE k \in DOMAIN SaveOrder : SaveOrder[k] = r)]
        /\ rip \in Rips /\ if = TRUE
        /\ stack = <<>> /\ red = <<>> /\ frames = <<>>
        /\ sz = <<IGNORE, <<>>, <<>>>>
        /\ pending = {} /\ faults = 0 /\ irqs = 0

Top == frames[Len(frames)]
In(step) == frames # <<>> /\ Top.step = step
Goto(step) == frames' = [frames EXCEPT ![Len(frames)].step = step]

rflags == Word(IF if THEN 2 ELSE 0)

\* External: the processor's part of an exception or interrupt.
Interrupt(v, code) ==
    /\ stack' = stack \o <<SS, Word(Len(stack)), rflags, CS, rip>>
                      \o (IF PushesCode(v) THEN <<code>> ELSE <<>>)
    /\ if' = (if /\ idt_table[v].type # "INT")
    /\ rip' = Address(Target(idt_table[v]))
    /\ red' = <<>>
    /\ frames' = Append([k \in DOMAIN frames |->
                            [frames[k] EXCEPT !.faulted = @ \/ v < 32,
                                              !.torn = @ \/ (k = Len(frames) /\ red # <<>>)]],
                        [vector |-> v, label |-> Target(idt_table[v]), step |-> "entry",
                         code |-> IF PushesCode(v) THEN code ELSE ZERO,
                         rdi |-> JUNK, rsi |-> JUNK, next |-> 1,
                         ctx |-> <<regs, rip, if, stack>>, red |-> red,
                         disturbed |-> FALSE, torn |-> FALSE, faulted |-> FALSE])
    /\ UNCHANGED <<regs, sz>>

\* The program calls a leaf function, or comes back from it.
Program == /\ frames = <<>>
           /\ red' \in {<<>>, <<DATA>>}
           /\ UNCHANGED <<regs, rip, if, stack, frames, sz, pending, counts>>

\* The program raises an exception or executes int; an NMI or a machine check
\* comes at any time, but not twice.  The error code of a double fault is 0.
Raise(v, code) ==
    /\ faults < MaxFaults /\ More
    /\ \/ frames = <<>>
       \/ v \in {NMI, MACHINE_CHECK} /\ \A k \in DOMAIN frames : frames[k].vector # v
    /\ Interrupt(v, IF v = DOUBLE_FAULT THEN ZERO ELSE code)
    /\ faults' = faults + 1
    /\ UNCHANGED <<pending, irqs>>

\* External: a device raises an IRQ, and the local APIC hands it over.
RaiseIrq(irq) == /\ irqs < MaxIrqs /\ More /\ irq \notin pending
                 /\ pending' = pending \cup {irq}
                 /\ irqs' = irqs + 1
                 /\ UNCHANGED <<regs, rip, if, stack, red, frames, sz, faults>>

Accept(irq) == /\ if /\ irq \in pending
               /\ pending' = pending \ {irq}
               /\ Interrupt(IRQ_TO_VECTOR(irq), ZERO)
               /\ UNCHANGED counts

-----------------------------------------------------------------------------
(* The entry code *)

IsException(label) == label \in (0 .. 19) \ {15}

\* Mutant: the entry of the alignment check pushes a zero as well.
PushesZero_Alignment(label) == label \in 0 .. 9 \cup {16, 17, 18, 19}

\* Entries that begin with "push 0".
PushesZero(label) == label \in 0 .. 9 \cup {16, 18, 19}

Pushed(label) == (IF PushesZero(label) THEN <<ZERO>> ELSE <<>>)
                 \o [k \in DOMAIN SaveOrder |-> regs[SaveOrder[k]]]

\* push 0, SAVE_ALL, and the arguments from [rsp+_ERROR] and [rsp+_RIP]
Enter == /\ In("entry")
         /\ stack' = stack \o Pushed(Top.label)
         /\ frames' = [frames EXCEPT ![Len(frames)] =
                [@ EXCEPT !.step = "format",
                          !.rdi = stack'[Len(stack') - 17],
                          !.rsi = stack'[Len(stack') - 18]]]
         /\ UNCHANGED <<regs, rip, if, red, sz, pending, counts>>

\* An int argument: the lower half of the register.
IntArg(word) == SubSeq(word, 1, 4) \o <<0, 0, 0, 0>>

\* The arguments of the handler's message, converted.
Arguments(f) == IF IsException(f.label) THEN <<print_hex(IntArg(f.rdi)), print_hex(f.rsi)>>
                ELSE IF f.label = IGNORE THEN <<print_decimal(IGNORE, 31)>>
                ELSE IF f.label = IRQ_TO_VECTOR(KEYBOARD_IRQ) THEN <<>>
                ELSE <<print_decimal(f.label - 32, 31)>>

Clobbered == [r \in Registers |-> IF r \in Volatile THEN JUNK ELSE regs[r]]

\* caos_vsprintf after next - 1 arguments.
Following(f) == IF f.next <= Len(Arguments(f)) THEN "convert" ELSE "show"

\* The handler's caos_printf: caos_vsprintf starts to fill the buffer.  A message
\* that is on its way through the buffer, not yet shown, is spoilt.
StartText ==
    /\ In("format") /\ Top.label # IRQ_TO_VECTOR(BSP_TIMER_IRQ)
    /\ sz' = [sz EXCEPT ![1] = Top.label]
    /\ frames' = [k \in DOMAIN frames |->
                    IF k = Len(frames) THEN [frames[k] EXCEPT !.step = Following(Top)]
                    ELSE [frames[k] EXCEPT !.disturbed =
                            @ \/ frames[k].step \in {"convert", "copy", "show"}]]
    /\ regs' = Clobbered
    /\ UNCHANGED <<rip, if, stack, red, pending, counts>>

\* print_hex and print_decimal call nothing and have their v[] below rsp.  They
\* fill it, but for a zero ...
IsZero == Arguments(Top)[Top.next] = <<0>>

Convert == /\ In("convert")
           /\ red' = IF IsZero THEN <<>> ELSE <<Arguments(Top)[Top.next]>>
           /\ Goto("copy")
           /\ UNCHANGED <<regs, rip, if, stack, sz, pending, counts>>

\* ... and copy it to the buffer.
Copy == LET f == [Top EXCEPT !.next = @ + 1]
        IN  /\ In("copy")
            /\ sz' = [sz EXCEPT ![f.next] = IF IsZero THEN <<0>> ELSE red[1]]
            /\ red' = <<>>
            /\ frames' = [frames EXCEPT ![Len(frames)] = [f EXCEPT !.step = Following(f)]]
            /\ UNCHANGED <<regs, rip, if, stack, pending, counts>>

\* The rest of caos_printf.
Show == /\ In("show")
        /\ Goto("restore")
        /\ UNCHANGED <<regs, rip, if, stack, red, sz, pending, counts>>

\* bsp_local_timer writes its line into a buffer of its own.
Timer == /\ In("format") /\ Top.label = IRQ_TO_VECTOR(BSP_TIMER_IRQ)
         /\ regs' = Clobbered
         /\ Goto("restore")
         /\ UNCHANGED <<rip, if, stack, red, sz, pending, counts>>

\* "jmp $", or iretq
Ends(label) == IF IsException(label) /\ label # 13 THEN "hang" ELSE "iretq"

\* RESTORE_ALL, and "add rsp, 8" of the exceptions
Restore ==
    LET n == Len(stack) IN
    /\ In("restore")
    /\ regs' = [r \in Registers |-> stack[n + 1 - CHOOSE k \in 1 .. 17 : RestoreOrder[k] = r]]
    /\ stack' = SubSeq(stack, 1, n - (IF IsException(Top.label) THEN 18 ELSE 17))
    /\ Goto(Ends(Top.label))
    /\ UNCHANGED <<rip, if, red, sz, pending, counts>>

\* What is below rsp afterwards is what the processor had pushed there.
iretq ==
    LET n == Len(stack)
        rsp == stack[n - 3][1]
    IN
    /\ In("iretq")
    /\ rip' = stack[n]
    /\ if' = (stack[n - 2] = Word(2))
    /\ stack' = SubSeq(stack, 1, rsp)
    /\ red' = IF Top.red = <<>> THEN <<>> ELSE <<stack[rsp + 1]>>
    /\ frames' = Front(frames)
    /\ UNCHANGED <<regs, sz, pending, counts>>

\* "jmp $"
Loop == In("hang")

Handle == Enter \/ StartText \/ Convert \/ Copy \/ Show \/ Timer \/ Restore \/ iretq

Next == \/ Handle \/ Program
        \/ \E v \in Vectors, code \in Codes : Raise(v, code)
        \/ \E irq \in Irqs : RaiseIrq(irq) \/ Accept(irq)
        \/ Loop /\ UNCHANGED vars

\* The processor goes on and takes the IRQs that are pending.
Spec == /\ Init /\ [][Next]_vars
        /\ WF_vars(Handle) /\ WF_vars(\E irq \in Irqs : Accept(irq))

-----------------------------------------------------------------------------
\* Who serves a vector: the exceptions but 15, the 22 IRQs with a gate, and
\* _ignore_isr for all others.
Server(v) == IF v \in (0 .. 14) \cup (16 .. 19) \cup (32 .. 53) THEN v ELSE IGNORE

\* A handler runs with interrupts off: those of the NMI, the page fault and the
\* IRQs, and every one that began with interrupts off.
InterruptsOff(v, ctx) == v \in {NMI, 14} \cup (32 .. 53) \/ ~ctx[3]

\* The text of a message is that of the vector, and its numbers, read back, are
\* the error code and the address of the fault, or the number of the IRQ.  The
\* double fault is the exception: its entry pushes a zero although the processor
\* has pushed a code, and that code is printed for the address (except_entry.asm:255).
Right(text, f) ==
    LET n == Len(Arguments(f)) IN
    /\ text[1] = Server(f.vector)
    /\ \A k \in 2 .. n + 1 : NoZeroFirst(text[k])
    /\ IsException(f.vector) =>
           /\ n = 2 /\ ReadHex(text[2]) = f.code
           /\ ReadHex(text[3]) = IF f.vector = DOUBLE_FAULT THEN f.code ELSE f.ctx[2]
    /\ f.vector \in 32 .. 53 /\ n > 0 => ReadDecimal(text[2]) = f.vector - 32

\* What the screen says is what happened: a message is right if no other handler
\* has printed between the first character that went into the buffer and the last
\* that went to the screen, and no conversion was interrupted while it had digits
\* below rsp; and neither of the two happens to a handler that runs with interrupts
\* off, unless an NMI or a machine check comes (do_*, print_hex, caos_vsprintf).
ReportTrue ==
    [][Show => /\ InterruptsOff(Top.vector, Top.ctx) /\ ~Top.faulted =>
                     ~Top.disturbed /\ ~Top.torn
               /\ ~Top.disturbed /\ ~Top.torn => Right(sz, Top)]_vars

\* Whoever was interrupted goes on where it was: registers, address, interrupt
\* flag and stack are those of the interruption, however many handlers have run in
\* between (SAVE_ALL, RESTORE_ALL, iretq).  Only a leaf function is not kept whole:
\* it finds the stack selector of the processor's frame in its data below rsp
\* (Makefile:25).
ContextKept ==
    [][Len(frames') < Len(frames) =>
           /\ <<regs', rip', if', stack'>> = Top.ctx
           /\ red' = IF Top.red = <<>> THEN <<>> ELSE <<SS>>]_vars

\* The processor hangs with interrupts off: after an NMI or a page fault, or
\* after an exception where they were off already.
Deaf == In("hang") /\ InterruptsOff(Top.vector, Top.ctx)

\* An exception does not stop the interrupts: one that is pending is served and
\* left again, also while the entry of an exception is in its "jmp $", unless
\* the processor is Deaf.
InterruptsGoOn ==
    pending # {} ~> \/ pending = {} /\ \A k \in DOMAIN frames : frames[k].vector \notin 32 .. 53
                    \/ Deaf
=============================================================================
