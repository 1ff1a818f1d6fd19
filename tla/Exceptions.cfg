\* All exceptions; keyboard, timer and an IRQ without a handler; up to three
\* handlers inside each other.
CONSTANTS
    Vectors <- MCVectors
    Irqs = {1, 10, 16}
    Codes <- MCCodes
    Rips <- MCRips
    MaxFaults = 2
    MaxIrqs = 2
    MaxEvents = 3
SPECIFICATION Spec
PROPERTIES ReportTrue ContextKept InterruptsGoOn
