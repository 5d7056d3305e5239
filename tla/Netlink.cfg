SPECIFICATION FairSpec
CONSTANTS
    Clients = {c1, c2}
    Backlog = 1
    NULL = NULL
    ERR_PTR = ERR_PTR
INVARIANTS
    OneSender
    FaultsHaveCauses
PROPERTIES
    RegistrationEnds
    UnloadEnds
    ListenersHear
