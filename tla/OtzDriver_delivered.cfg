SPECIFICATION Spec
CONSTANTS
    t1 = t1  t2 = t2  d1 = d1  d2 = d2
    NoThread = NoThread  NoCmd = NoCmd
    Dev = {d1, d2}
    Cmd = {c1, c2}
    Thread <- Two
    DevOf <- Apart
    Ops <- Senders
    Async = TRUE
    Signals = FALSE
INVARIANT CommandDelivered
CHECK_DEADLOCK FALSE
