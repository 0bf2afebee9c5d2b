\* Every pair of calls, from registers with all bits set.
CONSTANTS
    Values <- MCValues
    Muxes <- MCMuxes
    InitWords <- MCInitWords
    MaxCalls = 2
SPECIFICATION Spec
INVARIANTS
    TypeOK
PROPERTIES
    ImplementsPadSignals
CHECK_DEADLOCK FALSE
