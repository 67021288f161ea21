------------------------------ MODULE SwBuddy ------------------------------
(***************************************************************************)
(* The buddy allocator behind every secure heap (lib/common/sw_buddy.c).   *)
(* The sorted tree of each bin and the tree of allocated nodes are sets of *)
(* addresses here: the code inserts, removes, searches by address and      *)
(* takes the lowest.  A node of the area array is named by its mem_addr.   *)
(*                                                                         *)
(* Sizes and addresses count minimum allocations; the pool's memory is     *)
(* 1 .. N, and 0 is the mem_addr of an unused node.  The allocator takes   *)
(* no lock: the timer FIQ frees into the common heap (wake_up_from_sleep)  *)
(* while a task may be inside sw_buddy_alloc.                              *)
(***************************************************************************)
EXTENDS Integers, FiniteSets, FiniteSetsExt

CONSTANTS
    MaxBin,   \* max_bin
    Size,     \* Size[b] = min_alloc_size << b
    Fiqs,     \* may a FIQ free a block at any time
    MaxLive,  \* bound: blocks allocated at the same time
    MaxLost   \* bound: no request once this many nodes are lost

\* sw_buddy_init: total_nodes is max_alloc_size >> max_alloc_shift, which is
\* one, so max_bin is max_alloc_shift - min_alloc_shift + 1: one bin more
\* than the pool has sizes.
ASSUME BuddyAssumption ==
    /\ MaxBin \in Nat \ {0}
    /\ Size \in [0 .. MaxBin -> Nat \ {0}]
    /\ \A b \in 0 .. (MaxBin - 1) : Size[b + 1] = 2 * Size[b]
    /\ Fiqs \in BOOLEAN
    /\ MaxLive \in Nat /\ MaxLost \in Nat

Bin == 0 .. MaxBin

\* The memory of the pool, which is also total_area_cnt.
N == Size[MaxBin - 1]

\* The task inside the allocator, and the FIQ handler that interrupts it.
Ctx == {"task", "fiq"}

VARIABLES
    free,   \* free[b]: the addresses in the tree free_area[b]
    alloc,  \* alloc[b]: the addresses of alloc_tree whose node has bin b
    curr,   \* curr_heap_size
    lost,   \* nodes in use that are in no tree
    pc,     \* where each context stands
    node,   \* the mem_addr of its node (of temp_node while merging)
    nbin,   \* the bin stored in that node
    idx,    \* its loop index
    want    \* the bin it allocates

vars == <<free, alloc, curr, lost, pc, node, nbin, idx, want>>

PCs == {"idle", "scan", "take", "split", "give", "merge"}

Goto(c, l) == pc' = [pc EXCEPT ![c] = l]

\* The call returns and its locals are forgotten.
Return(c) ==
    /\ Goto(c, "idle")
    /\ node' = [node EXCEPT ![c] = 0]
    /\ nbin' = [nbin EXCEPT ![c] = 0]
    /\ idx' = [idx EXCEPT ![c] = 0]
    /\ want' = [want EXCEPT ![c] = 0]

\* The FIQ handler runs to its end before the task goes on.
Runs(c) == c = "fiq" \/ pc["fiq"] = "idle"

\* sw_buddy_init: one node, in the topmost bin.
Init ==
    /\ free = [b \in Bin |-> IF b = MaxBin THEN {1} ELSE {}]
    /\ alloc = [b \in Bin |-> {}]
    /\ curr = N
    /\ lost = 0
    /\ pc = [c \in Ctx |-> "idle"]
    /\ node = [c \in Ctx |-> 0]
    /\ nbin = [c \in Ctx |-> 0]
    /\ idx = [c \in Ctx |-> 0]
    /\ want = [c \in Ctx |-> 0]

----------------------------------------------------------------------------
(* sw_buddy_alloc and get_free_buddy.                                      *)

\* next_pow_of_2 and log_of_2: b is the bin of the smallest block for s.
BinOf(s, b) == s <= Size[b] /\ \A d \in Bin : s <= Size[d] => b <= d

\* Requests above curr_heap_size are refused, before and after rounding.
\* (The branch for blocks larger than the pool is therefore never taken.)
sw_buddy_alloc(s) ==
    /\ Runs("task") /\ pc["task"] = "idle"
    /\ Cardinality(UNION {alloc[b] : b \in Bin}) < MaxLive /\ lost < MaxLost
    /\ \E b \in Bin :
          /\ BinOf(s, b) /\ Size[b] <= curr
          /\ want' = [want EXCEPT !["task"] = b]
    /\ Goto("task", "scan")
    /\ UNCHANGED <<free, alloc, curr, lost, node, nbin, idx>>

\* The first bin that is not empty, and its lowest node.
Scan(c) ==
    /\ Runs(c) /\ pc[c] = "scan"
    /\ \E b \in want[c] .. MaxBin :
          /\ \A d \in want[c] .. MaxBin : free[d] # {} => b <= d
          /\ \E a \in free[b] :
                /\ \A x \in free[b] : a <= x
                /\ node' = [node EXCEPT ![c] = a]
          /\ idx' = [idx EXCEPT ![c] = b]
          /\ nbin' = [nbin EXCEPT ![c] = b]
    /\ Goto(c, "take")
    /\ UNCHANGED <<free, alloc, curr, lost, want>>

\* NULL when every bin is empty.
ScanFails(c) ==
    /\ Runs(c) /\ pc[c] = "scan"
    /\ \A b \in want[c] .. MaxBin : free[b] = {}
    /\ Return(c)
    /\ UNCHANGED <<free, alloc, curr, lost>>

\* remove_btree_node: the node leaves the tree it is linked in by now.
Take(c) ==
    /\ Runs(c) /\ pc[c] = "take"
    /\ free' = [b \in Bin |-> free[b] \ {node[c]}]
    /\ \E b \in Bin :
          /\ IF \E d \in Bin : node[c] \in free[d]
             THEN node[c] \in free[b] ELSE b = nbin[c]
          /\ nbin' = [nbin EXCEPT ![c] = b]
    /\ Goto(c, IF idx[c] = want[c] THEN "give" ELSE "split")
    /\ UNCHANGED <<alloc, curr, lost, node, idx, want>>

\* The nodes with a mem_addr: in a tree, lost, or taken by a context.
InUse ==
    Cardinality(UNION {free[b] \cup alloc[b] : b \in Bin}) + lost
    + Cardinality({c \in Ctx : pc[c] = "split" /\ node[c] # 0})

\* One round of the splitting loop: get_free_node finds a node, and the upper
\* half goes to the bin below.  (The code stores the bin of the lower half in
\* the last round; nobody else reads it before.)
Split(c) ==
    /\ Runs(c) /\ pc[c] = "split" /\ InUse < N
    /\ LET half == idx[c] - 1 IN
       /\ free' = [free EXCEPT ![half] = @ \cup {node[c] + Size[half]}]
       /\ nbin' = [nbin EXCEPT ![c] = half]
       /\ idx' = [idx EXCEPT ![c] = half]
       /\ Goto(c, IF half = want[c] THEN "give" ELSE "split")
    /\ UNCHANGED <<alloc, curr, lost, node, want>>

\* No node left: NULL.  The node taken stays out of every tree.
SplitFails(c) ==
    /\ Runs(c) /\ pc[c] = "split" /\ InUse >= N
    /\ lost' = IF node[c] = 0 THEN lost ELSE lost + 1
    /\ Return(c)
    /\ UNCHANGED <<free, alloc, curr>>

\* Defect: curr_heap_size is not charged.
Give_free(c) ==
    /\ Runs(c) /\ pc[c] = "give"
    /\ alloc' = [alloc EXCEPT ![nbin[c]] = @ \cup {node[c]}]
    /\ Return(c)
    /\ UNCHANGED <<free, curr, lost>>

\* The block is charged and linked in the tree of allocated nodes; a node
\* whose mem_addr has become 0 equals the root of that tree and is not.
Give(c) ==
    /\ Runs(c) /\ pc[c] = "give"
    /\ curr' = curr - Size[nbin[c]]
    /\ alloc' = [alloc EXCEPT ![nbin[c]] = @ \cup ({node[c]} \ {0})]
    /\ Return(c)
    /\ UNCHANGED <<free, lost>>

----------------------------------------------------------------------------
(* sw_buddy_free and return_to_free_area.                                  *)

\* The block goes back to the tree of its bin.  A pointer that is not in the
\* tree of allocated nodes changes nothing.
sw_buddy_free(c, a) ==
    /\ Runs(c) /\ pc[c] = "idle" /\ (c = "fiq" => Fiqs)
    /\ \E b \in Bin :
          /\ a \in alloc[b]
          /\ curr' = curr + Size[b]
          /\ alloc' = [alloc EXCEPT ![b] = @ \ {a}]
          /\ free' = [free EXCEPT ![b] = @ \cup {a}]
          /\ IF b = MaxBin THEN Return(c)
             ELSE /\ node' = [node EXCEPT ![c] = a]
                  /\ nbin' = [nbin EXCEPT ![c] = b]
                  /\ idx' = [idx EXCEPT ![c] = b]
                  /\ Goto(c, "merge")
                  /\ UNCHANGED want
    /\ UNCHANGED lost

\* f is the lowest block of bin b, and another starts where it ends.
Buddies(b, f) ==
    f \in free[b] /\ (\A x \in free[b] : f <= x) /\ f + Size[b] \in free[b]

\* The loop goes on with the bin above, up to the topmost.  The node of the
\* upper block is unused from now on, whoever still points to it.
Merged(c, b, m) ==
    IF b = MaxBin
    THEN /\ Goto(c, "idle")
         /\ node' = [k \in Ctx |-> IF k = c \/ node[k] = m THEN 0 ELSE node[k]]
         /\ nbin' = [nbin EXCEPT ![c] = 0]
         /\ idx' = [idx EXCEPT ![c] = 0]
         /\ UNCHANGED want
    ELSE /\ node' = [k \in Ctx |-> IF node[k] = m THEN 0 ELSE node[k]]
         /\ idx' = [idx EXCEPT ![c] = b]
         /\ UNCHANGED <<pc, nbin, want>>

\* Defect: the merged neighbour stays in its tree.
Merge_keep(c) ==
    /\ Runs(c) /\ pc[c] = "merge" /\ idx[c] < MaxBin
    /\ LET b == idx[c] IN
       \E f \in free[b] :
          /\ Buddies(b, f)
          /\ free' = [free EXCEPT ![b] = @ \ {f}, ![b + 1] = @ \cup {f}]
          /\ Merged(c, b + 1, f + Size[b])
    /\ UNCHANGED <<alloc, curr, lost>>

\* One round of the merging loop that finds a neighbour.
Merge(c) ==
    /\ Runs(c) /\ pc[c] = "merge" /\ idx[c] < MaxBin
    /\ LET b == idx[c] IN
       \E f \in free[b] :
          /\ Buddies(b, f)
          /\ free' = [free EXCEPT ![b] = @ \ {f, f + Size[b]},
                                  ![b + 1] = @ \cup {f}]
          /\ Merged(c, b + 1, f + Size[b])
    /\ UNCHANGED <<alloc, curr, lost>>

\* One that finds none: the loop ends on an empty bin or when the lowest
\* node is the one being freed, and otherwise tries the next bin.
NoMerge(c) ==
    /\ Runs(c) /\ pc[c] = "merge"
    /\ LET b == idx[c] IN
       /\ \A f \in free[b] : ~Buddies(b, f)
       /\ IF \/ free[b] = {} \/ b = MaxBin
             \/ node[c] \in free[b] /\ \A x \in free[b] : node[c] <= x
          THEN Return(c)
          ELSE idx' = [idx EXCEPT ![c] = b + 1] /\ UNCHANGED <<pc, node, nbin, want>>
    /\ UNCHANGED <<free, alloc, curr, lost>>

----------------------------------------------------------------------------
AllocStep(c) ==
    Scan(c) \/ ScanFails(c) \/ Take(c) \/ Split(c) \/ SplitFails(c) \/ Give(c)

FreeStep(c) == Merge(c) \/ NoMerge(c)

Next ==
    \/ \E s \in 1 .. N : sw_buddy_alloc(s)
    \/ AllocStep("task")
    \/ \E c \in Ctx :
          \/ FreeStep(c)
          \/ \E b \in Bin : \E a \in alloc[b] : sw_buddy_free(c, a)

Spec == Init /\ [][Next]_vars
----------------------------------------------------------------------------
TypeOK ==
    /\ free \in [Bin -> SUBSET Nat]
    /\ alloc \in [Bin -> SUBSET Nat]
    /\ curr \in Int
    /\ lost \in Nat
    /\ pc \in [Ctx -> PCs]
    /\ node \in [Ctx -> Nat]
    /\ nbin \in [Ctx -> Bin]
    /\ idx \in [Ctx -> Bin]
    /\ want \in [Ctx -> Bin]

\* The block of bin b at a and the block of bin d at x share no memory.
Apart(a, b, x, d) == a + Size[b] <= x \/ x + Size[d] <= a

\* Blocks that are allocated or free never overlap, whatever the order of
\* requests, splits and merges: no two callers are given the same memory,
\* and none is given memory that is still free.
NoOverlap ==
    \A b, d \in Bin :
        /\ \A a \in free[b], x \in alloc[d] : Apart(a, b, x, d)
        /\ \A a \in free[b], x \in free[d] : <<a, b>> = <<x, d>> \/ Apart(a, b, x, d)
        /\ \A a \in alloc[b], x \in alloc[d] : <<a, b>> = <<x, d>> \/ Apart(a, b, x, d)

\* The memory of the block of bin b at a, and all the memory handed out.
Block(a, b) == a .. (a + Size[b] - 1)
Handed == UNION {UNION {Block(a, b) : a \in alloc[b]} : b \in Bin}

\* Outside a call, curr_heap_size is what of the pool is not handed out: each
\* unit of memory that a caller has is charged once, in the size it was given
\* after rounding and splitting, and no other.
HeapSizeExact ==
    (\A c \in Ctx : pc[c] = "idle") => curr + Cardinality(Handed) = N

\* Memory handed out is memory of the pool.
AllocInPool ==
    \A b \in Bin : \A a \in alloc[b] : 1 <= a /\ a + Size[b] - 1 <= N
=============================================================================
