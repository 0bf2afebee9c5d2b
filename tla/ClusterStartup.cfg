\* Two clusters, and two offloads to one of them or to both.
CONSTANTS
    NumCores <- MCNumCores
    ClusterBase <- MCClusterBase
    L1Alias <- MCL1Alias
    L1Size = 131072
    ClsSize = 44
    MinChunk = 8
    Links <- MCLinks
    Stacks <- MCStacks
    MaxOffloads = 2
SPECIFICATION Spec
INVARIANTS
    ReadyInMain
    StacksAligned
PROPERTY CoresReachMain
CHECK_DEADLOCK FALSE
