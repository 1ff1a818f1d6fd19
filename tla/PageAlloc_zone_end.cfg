\* The zone of PageScan.cfg and some reserved descriptors: may a block go over its end?
CONSTANTS
    Pages = 10
    Slack = 4
    MAX_PAGE_ORDER = 2
    Reserved = {0, 4, 13}
SPECIFICATION Spec
PROPERTIES PoolSpec
