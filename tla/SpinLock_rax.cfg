CONSTANTS
    Thread = {t1, t2}
    StaleRax = {0, 256}
    CountMod = 4
SPECIFICATION Spec
INVARIANTS MutualExclusion
