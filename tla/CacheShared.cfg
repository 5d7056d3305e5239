SPECIFICATION Spec
CONSTANTS
    t1 = t1  t2 = t2  Unloader = exit  NULL = NULL
    Threads = {t1, t2}
    Files = {1, 2}
    Gens = {g1}
    Times = {1, 2, 3}
    ScanIds = {s1, s2, s3}
    LruIds = {l1, l2}
    Owner <- OwnerShared
    StrictClock = TRUE
    EvictCount = 1
SYMMETRY IdsAndThreads
INVARIANTS TreesLive NoScanLeak
