SPECIFICATION Spec
CONSTANTS
    t1 = t1  t2 = t2  Unloader = exit  NULL = NULL
    Threads = {t1, t2}
    Files = {1, 2}
    Gens = {g1}
    Times = {1, 2}
    ScanIds = {s1, s2, s3}
    LruIds = {l1, l2}
    Owner <- OwnerShared
    StrictClock = FALSE
    EvictCount = 1
SYMMETRY IdsAndThreads
INVARIANT OldStillInTree
