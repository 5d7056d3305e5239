SPECIFICATION Spec
CONSTANTS
    Elems = {e1, e2, e3, e4}
    ListHead = ListHead
    NULL = NULL
SYMMETRY EntrySymmetry
INVARIANTS
    TypeOK
    ListIsChained
    LoopsAreInStep
