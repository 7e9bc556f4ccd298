CONSTANTS
    Logs <- MCLogs

SPECIFICATION Spec

INVARIANT TypeOK

PROPERTY RefinesCrashStates
