CONSTANTS
    NumRounds = 3
    c1 = c1
    c2 = c2
    CrashStateIds <- MCCrashStateIds
    FsckStatuses <- MCFsckStatuses
    WorkloadOutcomes <- Generic090Outcomes
    DataKinds <- MCDataKinds
    UmountMayFail = TRUE
    Partial = Partial


SPECIFICATION Spec

INVARIANT FailedCheckNeverPasses
