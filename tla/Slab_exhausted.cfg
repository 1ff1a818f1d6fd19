CONSTANTS
    Pages = 7
    Slack = 1
    MAX_PAGE_ORDER = 1
    Reserved = {0}
    ObjSize <- MCObjSize
    Num <- MCNum
    GfpOrder <- MCGfpOrder
    Requests = {1, 2, 3}
SPECIFICATION Spec
INVARIANTS NoFault
