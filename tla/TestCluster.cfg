\* Two clusters of one core, one line each; up to two rounds.
CONSTANTS
    c1 = c1  c2 = c2  k1 = k1  k2 = k2  nl = nl
    NULL = NULL
    Cores = {c1, c2}
    Clusters = {k1, k2}
    ClusterOf <- MCClusterOf
    Ids <- MCIds
    Chars = {nl}
    NL = nl
    BufLen = 1
    InitSizes = {0}
    MaxChars = 1
    Modes = {"automatic", "interactive"}
    Freqs = {"skip", "range", "ok"}
    Errors = {0, 1}
    MaxRounds = 2
SPECIFICATION FairSpec
INVARIANTS
    OffloadNeverWaits
    CollectsThisRound
    LeavesChipQuiet
PROPERTY TestEnds
CHECK_DEADLOCK FALSE
