SPECIFICATION FairSpec
CONSTANTS
    Elems = {r1, r2, r3}
    ListHead = ListHead
    NULL = NULL
INVARIANTS
    TypeOK
    NoStaleAccess
    QueueIsChained
    NothingLeft
    StopsAreSafe
PROPERTIES
    ImplementsFifo
    UnloadFinishes
