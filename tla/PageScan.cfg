\* Ten pages, a reserved one at the start and one in the middle, three
\* descriptors behind the zone, blocks of one, two and four pages.
CONSTANTS
    Pages = 10
    Slack = 3
    MAX_PAGE_ORDER = 2
    Reserved = {0, 4}
SPECIFICATION ScanFairSpec
INVARIANTS TypeOK BlocksDisjoint ReservedKept NoLeak FreeAccounting ReadsInMap FirstFit
PROPERTIES AtomicSpec ScanEnds
