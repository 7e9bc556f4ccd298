CONSTANTS
    Faults = TRUE
    NumRounds = 2
    LogLen = 2
    FsckStatuses = {0, 256, 1024}
    CheckResults <- MCCheckResults
    Partial = Partial
    MaxOpenFds = 1
SPECIFICATION Spec
INVARIANTS TypeOK LvmFlagsTrackVolumes CheckSeesThisTest

