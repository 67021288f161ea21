SPECIFICATION MutexSpec
CONSTANTS
    MutexTask = {a, b}
    MutexDisp = MutexDisp
    Fiqs = TRUE
INVARIANT ReleaseRetries
CHECK_DEADLOCK FALSE
