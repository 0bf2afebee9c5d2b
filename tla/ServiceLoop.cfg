\* Two cores of one cluster, a buffer of two characters, two characters each.
CONSTANTS
    c1 = c1  c2 = c2  k1 = k1  k2 = k2  x = x  nl = nl
    NULL = NULL
    Cores = {c1, c2}
    Clusters = {k1}
    ClusterOf <- MCOneCluster
    Polled = k1
    Chars = {x, nl}
    NL = nl
    BufLen = 2
    InitSizes = {0, 1}
    MaxChars = 2
SPECIFICATION FairSpec
INVARIANTS
    TypeOK
    FlushesSerialised
    BoundsKept
    HostReadsStableText
    ReplyReachesRequester
    LeavesNothingBehind
PROPERTIES
    RequestNotOverwritten
    ImplementsLinePrinter
    FlushCompletes
    HostLeaves
CHECK_DEADLOCK FALSE
