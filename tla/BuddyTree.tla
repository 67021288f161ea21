----------------------------- MODULE BuddyTree -----------------------------
(***************************************************************************)
(* The trees behind the buddy allocator (lib/common/sw_buddy.c): the       *)
(* sorted tree of the free blocks of a bin, and the tree of the allocated  *)
(* ones.  SwBuddy takes each for a set of addresses of which it inserts,   *)
(* removes, finds and takes the lowest; here are the nodes and pointers,   *)
(* and what makes them such a set.  A node is named by its mem_addr; the   *)
(* root, free_area[bin] or alloc_tree, has none.                           *)
(***************************************************************************)
EXTENDS Integers, FiniteSets, FiniteSetsExt, Functions

CONSTANT MaxAddr  \* the addresses of nodes are 1 .. MaxAddr

ASSUME BuddyTreeAssumption == MaxAddr \in Nat \ {0}

Root == 0
NIL == -1
Node == 0 .. MaxAddr

VARIABLES
    bintree,  \* which of the trees this is: "free" or "alloc"
    parent, lchild, rchild,
    members   \* history: the nodes that were added and not removed

treevars == <<bintree, parent, lchild, rchild, members>>

NoNodes == [n \in Node |-> NIL]

TreeInit ==
    /\ bintree \in {"free", "alloc"}
    /\ parent = NoNodes /\ lchild = NoNodes /\ rchild = NoNodes
    /\ members = {}

\* The way down a tree of pointers next[n], from n.
RECURSIVE Way(_, _)
Way(next(_), n) == IF n = NIL THEN {} ELSE {n} \cup Way(next, next(n))

\* The last node on a way.
Last(next(_), n) == CHOOSE m \in Way(next, n) : next(m) = NIL

get_min_node(n) == Last(LAMBDA m : lchild[m], n)
get_max_node(n) == Last(LAMBDA m : rchild[m], n)

\* Where an address is looked for below a node.
Towards(a, n) == IF a = n THEN NIL ELSE IF a < n THEN lchild[n] ELSE rchild[n]
search_btree_node(a) ==
    LET way == Way(LAMBDA n : Towards(a, n), Root) IN IF a \in way THEN a ELSE NIL

----------------------------------------------------------------------------
\* The node below which an address would be linked.
Leaf(a) == Last(LAMBDA n : Towards(a, n), Root)

LinkBelow(a, p) ==
    /\ parent' = [parent EXCEPT ![a] = p]
    /\ IF a < p THEN lchild' = [lchild EXCEPT ![p] = a] /\ UNCHANGED rchild
       ELSE rchild' = [rchild EXCEPT ![p] = a] /\ UNCHANGED lchild

\* A node that is in the tree already is not added again.
add_btree_node(a) ==
    /\ IF search_btree_node(a) = a THEN UNCHANGED <<parent, lchild, rchild>>
       ELSE LinkBelow(a, Leaf(a))
    /\ members' = members \cup {a}

\* The sorted tree: down the right children to the first that is higher, and
\* in between; no node gets a left child.
SortedNext(a, n) == IF rchild[n] # NIL /\ a >= rchild[n] THEN rchild[n] ELSE NIL

\* Defect: the node that follows keeps its old parent.
add_sorted_btree_node_back(a) ==
    LET p == Last(LAMBDA n : SortedNext(a, n), Root)
    IN /\ parent' = [parent EXCEPT ![a] = p]
       /\ rchild' = [rchild EXCEPT ![p] = a, ![a] = rchild[p]]
       /\ members' = members \cup {a}
       /\ UNCHANGED lchild

add_sorted_btree_node(a) ==
    LET p == Last(LAMBDA n : SortedNext(a, n), Root)
        q == rchild[p]
    IN /\ parent' = [n \in Node |-> IF n = a THEN p ELSE IF n = q THEN a ELSE parent[n]]
       /\ rchild' = [rchild EXCEPT ![p] = a, ![a] = q]
       /\ members' = members \cup {a}
       /\ UNCHANGED lchild

\* The node that takes the place of d: the least of its right children, for
\* want of those the greatest of its left, or none.
Heir(d) ==
    IF rchild[d] # NIL THEN get_min_node(rchild[d])
    ELSE IF lchild[d] # NIL THEN get_max_node(lchild[d]) ELSE NIL

\* The child of the heir, which takes its place when it was not d's own child.
Orphan(d, h) == IF rchild[d] # NIL THEN rchild[h] ELSE lchild[h]

\* The pointers without d; its own are reset.
remove_btree_node(d) ==
    LET h == Heir(d)
        own == h # NIL /\ parent[h] = d
        o == IF h = NIL \/ own THEN NIL ELSE Orphan(d, h)
        Placed(child) ==
            [n \in Node |->
                CASE n = d -> NIL
                  [] n = parent[d] /\ child[n] = d -> h
                  [] ~ own /\ h # NIL /\ n = parent[h] /\ child[n] = h -> o
                  [] n = h /\ child[d] \notin {NIL, h} -> child[d]
                  [] OTHER -> child[n]]
    IN /\ lchild' = Placed(lchild) /\ rchild' = Placed(rchild)
       /\ parent' = [n \in Node |->
             CASE n = d -> NIL
               [] n = h -> parent[d]
               [] n = o -> parent[h]
               [] OTHER -> IF parent[n] = d THEN h ELSE parent[n]]
       /\ members' = members \ {d}

\* Blocks are freed and given, and allocated blocks found and freed.
TreeNext ==
    /\ \/ bintree = "free" /\ \E a \in Node \ ({Root} \cup members) : add_sorted_btree_node(a)
       \/ bintree = "alloc" /\ \E a \in Node \ {Root} : add_btree_node(a)
       \/ \E a \in members : remove_btree_node(a)
    /\ UNCHANGED bintree

TreeSpec == TreeInit /\ [][TreeNext]_treevars

----------------------------------------------------------------------------
\* The nodes that pointers lead to from a node.
RECURSIVE Below(_)
Below(n) == IF n = NIL THEN {} ELSE {n} \cup Below(lchild[n]) \cup Below(rchild[n])

\* In every order of additions and removals the tree holds exactly the nodes
\* that were added and not removed, each is found from the root and by its
\* parent pointer, and the first right child in the tree of a bin is the lowest
\* free block: the trees are the sets of addresses that SwBuddy works with.
TreeIsSet ==
    /\ Below(Root) = members \cup {Root}
    /\ \A a \in 1 .. MaxAddr : search_btree_node(a) = IF a \in members THEN a ELSE NIL
    /\ \A a \in members : a \in {lchild[parent[a]], rchild[parent[a]]} /\ parent[a] \in members \cup {Root}
    /\ bintree = "free" => rchild[Root] = IF members = {} THEN NIL ELSE Min(members)
=============================================================================
