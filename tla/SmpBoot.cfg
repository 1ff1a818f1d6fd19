\* The largest per-cpu section whose five copies fit (the kernel's has 40 bytes).
CONSTANTS
    NR_CPUS = 3
    MAX_IO_APICS = 2
    MAX_IRQ_SOURCES = 2
    NO_APIC = 255
    BusIds = {0, 1}
    bsp = bsp
    APs = {ap}
    BspApicId = 0
    BiosData <- MCBiosData
    CacheOrder = 1
    percpu_size = 819
SPECIFICATION Spec
INVARIANTS MpTables ProcessorsApart PagesOwned
PROPERTIES BootEnds ApRuns
