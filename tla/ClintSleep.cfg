\* A timer interrupt between set_mie and wfi.
CONSTANTS
    Base = 4
    MaxTime = 3
    InitTimes = {0}
    Ticks = {1}
    Ops = {"sleep"}
SPECIFICATION FairSpec
PROPERTY SleepEnds
CHECK_DEADLOCK FALSE
