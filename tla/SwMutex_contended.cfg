SPECIFICATION MutexFairSpec
CONSTANTS
    MutexTask = {a, b}
    MutexDisp = MutexDisp
    Fiqs = FALSE
PROPERTY AcquireReturns
CHECK_DEADLOCK FALSE
