CONSTANTS
    ByteBits = 2
    MaxReg = 3
    DataBase = 16
    DataSize = 8
    PageSize = 4
    Operands1 = {0, 1, 16, 18, 127, 128, 255}
    Operands2 = {0, 1, 5, 127, 128, 255}
    NumTracks = 3
    SectorsPerTrack = 4
    SeekTime = 2
    RotationTime = 3
    MaxTicks = 60
    Thread = {"main", "a", "b"}
    Main = "main"
    Address = {1, 2, 3, 4}
    Key = {0, 1}
    Item = {10, 11}
    BitsInByte = 2
    BytesInWord = 2
    Sizes = {4, 6}
    Heap = {0, 5, 15}
    Builds <- MakefileDefines
    Groups <- Options
    LastGroups <- LastOptions
    MaxGroups = 3
SPECIFICATION MCSpec
INVARIANTS
    InterpretersAgree
    ArithmeticExact
    LatencyExact
    ContextKept
    CellsAreList
    BitMapIsSet
    OptionsUnderstood
CHECK_DEADLOCK FALSE
