------------------------------ MODULE MCMemory ------------------------------
(* A TLC instance of what hands out memory: a behaviour is one of the buddy   *)
(* heap, its trees, the sessions or the page tables.                           *)
EXTENDS SwBuddy, BuddyTree, SwSessions, PageTable

\* A pool of eight minimum allocations.
Sizes8 == [b \in 0 .. 4 |-> 2 ^ b]

VARIABLE part

memvars == <<mem, pt>>
tablevars == <<pgd, l2, objs, wrong>>
memoryvars == <<part, vars, treevars, memvars, sesvars, tablevars>>

MemoryInit ==
    /\ part \in {"heap", "trees", "sessions", "tables"}
    /\ Init /\ TreeInit /\ SessionInit /\ PTInit
    /\ part # "trees" => bintree = "free"

HeapPart ==
    part = "heap" /\ Next /\ UNCHANGED <<part, treevars, memvars, sesvars, tablevars>>
TreePart ==
    part = "trees" /\ TreeNext /\ UNCHANGED <<part, vars, memvars, sesvars, tablevars>>
SessionPart ==
    part = "sessions" /\ SessionNext /\ UNCHANGED <<part, vars, treevars, tablevars>>
TablePart ==
    part = "tables" /\ PTNext /\ UNCHANGED <<part, vars, treevars, sesvars>>

MemoryNext == HeapPart \/ TreePart \/ SessionPart \/ TablePart

MemorySpec == MemoryInit /\ [][MemoryNext]_memoryvars

----------------------------------------------------------------------------
\* The memory is that of the part at work.  Pages and mappings are owned by one
\* session each (SessionPagesExact); second-level tables are those the entries
\* of the page tables need (TablesExact).
OwnedPages ==
    /\ part = "sessions" => SessionPagesExact
    /\ part = "tables" => TablesExact
=============================================================================
