SPECIFICATION Spec
CONSTANTS
    WordSize = 1073741824
    FMAX = 825000000
    Rtc = 8192
    RefFreq = 2500000
    Baud16 = 38400
    Targets <- MCTargets
    ResetFll <- MCResetFll
    RxDepth = 1
    MaxCalls = 2
    MaxChars = 2
INVARIANT TypeOK CharactersDelivered RunsFromLockedFll ReachesTarget
PROPERTY CallsReturn
CHECK_DEADLOCK FALSE
