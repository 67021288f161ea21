SPECIFICATION Spec
CONSTANTS
    Id <- MCId
    Disp = 1
    Shell = 2
INVARIANTS
    IdsOwned
    ReadyWellFormed
    NoTaskLost
    RunnerNotBlocked
CHECK_DEADLOCK FALSE
