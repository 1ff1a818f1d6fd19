CONSTANTS
    SCREEN_ROW = 3
    SCREEN_COL = 2
    BG_BLACK = "blank"
    STATUS = "status"
    ScanCodes <- MCScanCodes
    StartOffset = 4
    IoApicEntry = 15
    KbdBuffer = 2
    MaxKeys = 3
    MaxTicks = 1
SPECIFICATION Spec
INVARIANTS HandlersReady PriorityKept ByteForEachInterrupt ModifiersTrackKeys ScreenIsWindow
PROPERTIES InterruptsServed
