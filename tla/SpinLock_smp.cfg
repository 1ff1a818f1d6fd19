\* Three processors, a build that happens to enter trylock with RAX clear.
CONSTANTS
    Thread = {t1, t2, t3}
    StaleRax = {0}
    CountMod = 4
SPECIFICATION Spec
INVARIANTS TypeOK MutualExclusion LockedInCS NoOrphanLock
