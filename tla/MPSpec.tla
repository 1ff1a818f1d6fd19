------------------------------- MODULE MPSpec -------------------------------
(***************************************************************************)
(* Reading the MP configuration of the BIOS (src/mp_spec.c).  What the     *)
(* kernel learns from it is one record, mp; every MP_*_info handler maps   *)
(* the record and a table entry to the record after the call.              *)
(*                                                                         *)
(*   cpu_present_map       the set of bits that are set                    *)
(*   bios_cpu_apicid       also stands for x86_cpu_to_apicid, which is     *)
(*                         always written with it                          *)
(*   mp_ioapics, mp_irqs   the entries stored; their lengths are           *)
(*                         nr_ioapics and mp_irq_entries                   *)
(***************************************************************************)
EXTENDS Integers, Sequences, FiniteSets

CONSTANTS NR_CPUS, MAX_IO_APICS, MAX_IRQ_SOURCES,
          NO_APIC,          \* 0xFF, an unused slot
          BusIds

ASSUME LimitsAssumption == {NR_CPUS, MAX_IO_APICS, MAX_IRQ_SOURCES} \subseteq Nat \ {0}

\* The state mp_spec_init starts to read the table with.
NoConfig == [cpu_present_map |-> {}, bios_cpu_apicid |-> [c \in 0 .. NR_CPUS - 1 |-> NO_APIC],
             num_processors |-> 0, disabled_cpus |-> 0, boot_cpu_id |-> 0,
             mp_bus_not_pci |-> {}, mp_bus_id_to_pci_bus |-> [b \in BusIds |-> -1],
             mp_current_pci_id |-> 0, mp_ioapics |-> <<>>, mp_irqs |-> <<>>]

-----------------------------------------------------------------------------
\* The lowest zero bit of the map.
first_cpu(map) == CHOOSE c \in 0 .. NR_CPUS :
                     /\ c \notin map
                     /\ \A d \in 0 .. c - 1 : d \in map

\* Mutant: every application processor is number 1.
MP_processor_info_Fixed(s, m) ==
    IF ~m.enabled \/ s.num_processors >= NR_CPUS THEN s
    ELSE LET cpu == IF m.boot THEN 0 ELSE 1
         IN [s EXCEPT !.num_processors = @ + 1, !.cpu_present_map = @ \cup {cpu},
                      !.bios_cpu_apicid[0] = m.apicid]

MP_processor_info(s, m) ==
    LET cpu == IF m.boot THEN 0 ELSE first_cpu(s.cpu_present_map)
        booted == [s EXCEPT !.boot_cpu_id = IF m.boot THEN m.apicid ELSE @]
    IN IF ~m.enabled THEN [s EXCEPT !.disabled_cpus = @ + 1]
       ELSE IF s.num_processors >= NR_CPUS THEN booted
       ELSE [booted EXCEPT !.num_processors = @ + 1,
                           !.bios_cpu_apicid[cpu] = m.apicid,
                           !.cpu_present_map = @ \cup {cpu}]

MP_bus_info(s, m) ==
    CASE m.bustype = "ISA" -> [s EXCEPT !.mp_bus_not_pci = @ \cup {m.busid}]
      [] m.bustype = "PCI" -> [s EXCEPT !.mp_bus_not_pci = @ \ {m.busid},
                                        !.mp_bus_id_to_pci_bus[m.busid] = s.mp_current_pci_id,
                                        !.mp_current_pci_id = @ + 1]
      [] OTHER -> s

MP_ioapic_info(s, m) ==
    IF ~m.usable \/ Len(s.mp_ioapics) >= MAX_IO_APICS \/ m.addr = 0 THEN s
    ELSE [s EXCEPT !.mp_ioapics = Append(@, m)]

\* The caller halts when the array is full afterwards.
MP_intsrc_info(s, m) == [s EXCEPT !.mp_irqs = Append(@, m)]

irqs_full(s) == Len(s.mp_irqs) >= MAX_IRQ_SOURCES

\* The switch of smp_read_mpc; local interrupt entries are only printed, and a
\* type it has no case for does nothing.
mp_entry(s, m) ==
    CASE m.type = "processor" -> MP_processor_info(s, m)
      [] m.type = "bus"       -> MP_bus_info(s, m)
      [] m.type = "ioapic"    -> MP_ioapic_info(s, m)
      [] m.type = "intsrc"    -> MP_intsrc_info(s, m)
      [] m.type \in {"lintsrc", "unknown"} -> s

-----------------------------------------------------------------------------
\* The areas searched for the floating pointer, in their order.
Areas == <<"first_1K", "ebda", "bios_rom">>

smp_scan_config(floating) == \E i \in 1 .. Len(Areas) : floating[Areas[i]]

=============================================================================
