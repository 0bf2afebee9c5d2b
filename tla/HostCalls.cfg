\* clint32 with a counter whose low word wraps around.
CONSTANTS
    Base = 4
    MaxTime = 5
    InitTimes = {2}
    Ticks = {1, 2}
    Ops = {"sleep", "spin", "freq"}
\* Headers of 8 bytes as on RV32, a heap with room for three or four blocks.
CONSTANTS
    HeapStart = 32
    HeapEnd = 82
    Alignment = 4
    Header = 8
    WordSize = 256
    Sizes = {0, 5, 13, 40}
\* Two chips and an address space of five addresses.
CONSTANTS
    NumChips = 2
    AddrSpace = 5
    Timings = {0, 19}
    MaxBusCalls = 3
SPECIFICATION CallsSpec
INVARIANTS
    TypeOK
    MtimeAtomic
    WaitsLongEnough
    AllocTypeOK
    BlocksAccounted
    PayloadsPrivate
    ReadsBack
    SelectsOneChip
PROPERTIES
    WaitsEnd
    ImplementsHeap
CHECK_DEADLOCK FALSE
