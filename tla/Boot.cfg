\* Three rounds of the A20 loop for 255; one cache more than the default ones.
CONSTANTS
    Builds <- MCBuilds
    A20_ENABLE_LOOPS = 3
    A20_TEST_LOOPS = 32
    GdtDescs = 512
    Names = {"a", "32"}
    Sizes <- MCSizes
    Aligns = {8, 16}
    cache_cache_max = 9
    DefaultNames <- MCDefaultNames
SPECIFICATION BootSpec
INVARIANTS ImageInPlace A20Open MemoryMapped TablesApart HandOver LayoutFits
PROPERTIES Boots
