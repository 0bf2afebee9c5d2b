\* The same cores, and buffers whose hdr.size may start past the end.
CONSTANTS
    c1 = c1  c2 = c2  k1 = k1  k2 = k2  x = x  nl = nl
    NULL = NULL
    Cores = {c1, c2}
    Clusters = {k1}
    ClusterOf <- MCOneCluster
    Polled = k1
    Chars = {x, nl}
    NL = nl
    BufLen = 2
    InitSizes = {0, 1, 2}
    MaxChars = 2
SPECIFICATION Spec
INVARIANT StoresInBounds
CHECK_DEADLOCK FALSE
