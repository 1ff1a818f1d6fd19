CONSTANTS
    Thread = {t1, t2}
    StaleRax = {0}
    CountMod = 4
SPECIFICATION FairSpec
PROPERTIES FreeLockIsTaken
