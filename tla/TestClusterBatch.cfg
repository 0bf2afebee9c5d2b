\* A frequency that is out of range and that nobody typed in.
CONSTANTS
    c1 = c1  c2 = c2  k1 = k1  k2 = k2  nl = nl
    NULL = NULL
    Cores = {c1, c2}
    Clusters = {k1, k2}
    ClusterOf <- MCClusterOf
    Ids <- MCIds
    Chars = {nl}
    NL = nl
    BufLen = 1
    InitSizes = {0}
    MaxChars = 1
    Modes = {"dutctl"}
    Freqs = {"range"}
    Errors = {0, 1}
    MaxRounds = 1
SPECIFICATION FairSpec
PROPERTY RunsOnce
CHECK_DEADLOCK FALSE
