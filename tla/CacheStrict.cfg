SPECIFICATION FairSpec
CONSTANTS
    t1 = t1  t2 = t2  Unloader = exit  NULL = NULL
    Threads = {t1}
    Files = {1, 2, 3}
    Gens = {g1}
    Times = {1, 2, 3, 4}
    ScanIds = {s1, s2, s3, s4}
    LruIds = {l1, l2, l3}
    Owner <- OwnerShared
    StrictClock = TRUE
    EvictCount = 2
INVARIANTS NoLruLeak
PROPERTIES EvictsOldest CallsReturn UnloadFinishes
