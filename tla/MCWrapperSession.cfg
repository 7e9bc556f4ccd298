CONSTANTS
    EnvFaults = TRUE
    CleanupFaults = FALSE
    MaxOpenFds = 2
    MaxEntries = 2
    MetaErrs = {"EFAULT", "EIO"}
    DataErrs = {"EFAULT", "EIO"}
    NextErrs = {"EIO"}
SPECIFICATION Spec
INVARIANTS
    TypeOK
    
    CleanupIdempotent
PROPERTY HarnessCallsReturn
