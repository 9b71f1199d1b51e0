CONSTANTS
    PageSize = 2
    UserStackSize = 2
    FlatStackSize = 4
    HeaderSize = 3
    Garbage = Garbage
    NumPhysPages = 2
    TLBSize = 1
    MaxThreadCount = 3
    NULL = NULL
    Programs <- ProgramsDef
    Started <- StartedDef
    MaxForks <- MaxForksDef
    Joined = {1}
    StoreAddr = {3, 6}
    StoreByte = 9
    NameAddr = {2}
    Buffer <- BufferDef
SPECIFICATION ProcessSpec
INVARIANT BothBssAccepted
CHECK_DEADLOCK FALSE
