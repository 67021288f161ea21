---------------------------- MODULE MCOtzDriver ----------------------------
(* TLC instances of OtzDriver: two threads, each on its own device file.    *)
EXTENDS OtzDriver

CONSTANTS t1, t2, d1, d2

Two   == {t1, t2}
Apart == [t \in Thread |-> IF t = t1 THEN d1 ELSE d2]

\* The threads only send; or they open and close their sessions too.
Senders == [t \in Thread |-> {"send"}]
AllOps  == [t \in Thread |-> {"send", "open", "close"}]
=============================================================================
