SPECIFICATION KernelSpec
CONSTANTS
    one = one  two = two  three = three
    MutexTask <- ThreeOf
    MutexDisp = MutexDisp
    Fiqs = TRUE
    Event <- ThreeOf
    NoEvent = NoEvent
    Durations = {0, 3}
    Period = 2
    CountMax = 2
    MaxLate = 1
    SlowCalls = TRUE
    CanStop = TRUE
    TIMER_COUNT_MAX = 3
    UIntRange = 16
    MaxLaps = 3
    Starts <- Readings
    Usecs <- Microsecs
    Steps = {5600, 55555, 56000, 65535}
    MaxWait = 2600000
    NPages = 7
    VBits = 8
    PBits = 9
    KPages = 1
    SpPages = 2
    HpPages = 2
    NShm = 6
    ShmTask = {taskA, taskB}
    ShmName = {nameX, nameY}
    ShmSize = {2}
    ShmFlags = {{"create", "read"}, {"ctrl"}}
    MaxVirFree = 7
    MaxAttach = 1
INVARIANTS MutexSafe TimerSafe ClockExact SleepsIfExact ShmExact
PROPERTY EventFires
CHECK_DEADLOCK FALSE
