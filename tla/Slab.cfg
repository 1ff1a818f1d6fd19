\* Two caches (three and two objects per slab) on six pages.
CONSTANTS
    Pages = 6
    Slack = 1
    MAX_PAGE_ORDER = 1
    Reserved = {0}
    ObjSize <- MCObjSize
    Num <- MCNum
    GfpOrder <- MCGfpOrder
    Requests = {1, 2, 3}
SPECIFICATION Spec
INVARIANTS FreeListExact SlabsKept ObjectBigEnough
