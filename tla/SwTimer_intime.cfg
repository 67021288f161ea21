SPECIFICATION TimerSpec
CONSTANTS
    Event = {a, b}
    NoEvent = NoEvent
    Durations = {0, 1, 3, 5}
    Period = 2
    CountMax = 4
    MaxLate = 3
    SlowCalls = FALSE
    CanStop = FALSE
INVARIANT ArmedInTime
CHECK_DEADLOCK FALSE
