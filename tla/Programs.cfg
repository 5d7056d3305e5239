SPECIFICATION Spec
CONSTANTS
    MountCount = 4
    FsTypes = {ext, tmp}
    Base = 3
    NewLimit = 2
    OldLimit = 4
    IntMax = 8
    LongMax = 13
    ImageFirst = 2
    UintRange = 16
    FileMax = 10
    UseMax = 2
INVARIANTS
    Walked
    ToolsAreRight
    DataIsKept
    AllGivenBack
