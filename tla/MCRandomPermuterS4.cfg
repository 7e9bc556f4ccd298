CONSTANTS
    Logs <- S4Logs

SPECIFICATION Spec

INVARIANT S4CrashStatesArePrefixes
