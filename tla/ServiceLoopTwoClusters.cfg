\* One core in each of two clusters: snrt_printf_init runs once per cluster.
CONSTANTS
    c1 = c1  c2 = c2  k1 = k1  k2 = k2  x = x  nl = nl
    NULL = NULL
    Cores = {c1, c2}
    Clusters = {k1, k2}
    ClusterOf <- MCTwoClusters
    Polled = k1
    Chars = {x, nl}
    NL = nl
    BufLen = 2
    InitSizes = {0, 1}
    MaxChars = 3
SPECIFICATION Spec
INVARIANT FlushesSerialised
CHECK_DEADLOCK FALSE
