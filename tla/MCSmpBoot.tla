----------------------------- MODULE MCSmpBoot ------------------------------
EXTENDS SmpBoot

Cpu(id, on, first) == [type |-> "processor", apicid |-> id, enabled |-> on, boot |-> first]
Bus(id, t) == [type |-> "bus", busid |-> id, bustype |-> t]
IoApic(id, on, a) == [type |-> "ioapic", apicid |-> id, usable |-> on, addr |-> a]

MCBsp == Cpu(0, TRUE, TRUE)

MCKept == {Bus(0, "PCI"), Bus(1, "PCI"), Bus(1, "ISA"), Bus(0, "EISA"), IoApic(2, TRUE, 1)}
MCOthers == MCKept \cup {IoApic(4, FALSE, 1), IoApic(5, TRUE, 0),
                         [type |-> "intsrc"], [type |-> "lintsrc"], [type |-> "unknown"]}

\* Processors in any order; behind two of them up to two other entries, or three
\* of those whose order matters; and up to two other entries before the BSP.
MCCpuTables == {t \in UNION {[1 .. n -> {MCBsp, Cpu(1, TRUE, FALSE), Cpu(2, TRUE, FALSE),
                                         Cpu(3, FALSE, FALSE)}] : n \in 0 .. 4} :
                   Cardinality(BspEntries(t)) <= 1}

MCTables == MCCpuTables
            \cup {<<MCBsp, Cpu(1, TRUE, FALSE)>> \o rest :
                     rest \in UNION {[1 .. n -> MCOthers] : n \in 1 .. 2}
                             \cup [1 .. 3 -> MCKept]}
            \cup {rest \o <<Cpu(1, TRUE, FALSE), MCBsp>> :
                     rest \in UNION {[1 .. n -> MCOthers] : n \in 1 .. 2}}
            \cup {<<Cpu(1, TRUE, TRUE)>>}

\* A table that is read, or one of the three cases that are turned down.
MCBiosData == [kind : {"table"}, table : MCTables]
              \cup [kind : {"bad_header", "default", "null"}, table : {<<>>}]
=============================================================================
