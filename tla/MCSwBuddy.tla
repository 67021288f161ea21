----------------------------- MODULE MCSwBuddy -----------------------------
(* TLC instances of SwBuddy.                                                *)
EXTENDS SwBuddy

\* A pool of eight minimum allocations.
Sizes8 == [b \in 0 .. 4 |-> 2 ^ b]
=============================================================================
