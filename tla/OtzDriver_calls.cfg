SPECIFICATION FairSpec
CONSTANTS
    t1 = t1  t2 = t2  d1 = d1  d2 = d2
    NoThread = NoThread  NoCmd = NoCmd
    Dev = {d1, d2}
    Cmd = {c1, c2}
    Thread <- Two
    DevOf <- Apart
    Ops <- AllOps
    Async = TRUE
    Signals = TRUE
INVARIANTS DeliveredAlone HeapSafe OneClient WokenWhenReady
PROPERTY PendingEnds
CHECK_DEADLOCK FALSE
