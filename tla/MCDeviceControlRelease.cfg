CONSTANTS
    EnvFaults = TRUE
    CleanupFaults = FALSE
    MaxOpenFds = 2
SPECIFICATION Spec
INVARIANT CleanupReleasesAll
