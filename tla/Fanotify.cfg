SPECIFICATION FairSpec
CONSTANTS
    Procs = {p1, p2}
    Files = {f1, f2}
    Specials = {f2}
    BatchMax = 2
    FdMax = 3
INVARIANTS
    TypeOK
    EventsAreSettled
    IgnoredFilesAreChecked
PROPERTIES
    OpensReturn
