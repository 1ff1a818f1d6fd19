CONSTANTS
    SCREEN_ROW = 4
    SCREEN_COL = 3
    BG_BLACK = "blank"
    STATUS = "status"
    bsp = bsp
    ap = ap
    Cpu = {bsp, ap}
    Texts <- MCTexts
    Calls <- MCCalls
    BufSize = 4
SPECIFICATION Spec
INVARIANTS TextEnds Undisturbed
PROPERTIES PrintsEnd
