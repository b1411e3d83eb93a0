CONSTANTS
    Threads = {boot, t1, t2, t3}
    Boot = boot
    None = none
SPECIFICATION FairSpec
PROPERTIES RingKeepsOrder StableRingIsFair
