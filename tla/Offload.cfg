\* An application that collects its results, and one that does not.
CONSTANTS
    NumClusters = 2
    NumCores <- MCNumCores
    HostCores = 1
    Apps <- MCApps
    MaxJobs = 3
SPECIFICATION FairSpec
INVARIANTS
    TypeOK
    RunsItsJob
    ResultOfJob
    NoWorkInGatedCluster
PROPERTY WaitReturnReturns
CHECK_DEADLOCK FALSE
