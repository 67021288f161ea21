------------------------------ MODULE SwMemory ------------------------------
(***************************************************************************)
(* The page allocator of the secure kernel (core/mem_mng.c) and what takes *)
(* pages from it: kernel stacks, user stacks, thread-local storage         *)
(* (core/task.c), kernel heaps and user heaps (lib/kernel/sw_heap.c).      *)
(*                                                                         *)
(* A page is its number from the start of the region.  The two bitmaps are *)
(* sets of taken pages.  The translation table is kept as the set of the   *)
(* pairs <<virtual page, physical page>> that are mapped; the second-level *)
(* tables behind it are the subject of PageTable.                          *)
(***************************************************************************)
EXTENDS Integers, FiniteSets, FiniteSetsExt, Sequences

CONSTANTS
    NPages,  \* pages of the secure RAM, phy_memregion_size
    VBits,   \* bits of the virtual bitmap: at least one byte more than needed
    PBits,   \* bits of the physical bitmap, rounded up to whole words
    KPages,  \* pages of the kernel image, its page tables and the common heap
    SpPages, \* pages of a stack, without its guard page
    HpPages  \* pages of a task's heap with the area that manages it

ASSUME MemoryAssumption ==
    /\ {NPages, VBits, PBits, KPages, SpPages, HpPages} \subseteq Nat \ {0}
    /\ NPages < VBits /\ VBits <= PBits /\ KPages < NPages

VARIABLES
    mem, \* mem_info: p and v the taken pages, pf and vf the counters of free ones
    pt   \* the mapped pairs <<virtual page, physical page>>

None == -1

Run(a, n) == a .. (a + n - 1)

\* sw_meminfo_init, and the common heap of global_val_init.
MemInit ==
    /\ mem = [p |-> Run(0, KPages), v |-> Run(0, KPages),
              pf |-> NPages - KPages, vf |-> NPages - KPages]
    /\ pt = {}

----------------------------------------------------------------------------
(* core/mem_mng.c *)

\* The bitmaps are searched a little past the region, and never to their end.
FirstFit(taken, n, bits) ==
    LET fits == {s \in 0 .. (bits - n - 1) : Run(s, n) \cap taken = {}}
    IN IF fits = {} THEN None ELSE Min(fits)

sw_phy_page_alloc(m, n) ==
    LET a == IF n > m.pf THEN None ELSE FirstFit(m.p, n, PBits)
    IN [at |-> a,
        m |-> IF a = None THEN m
              ELSE [m EXCEPT !.p = @ \cup Run(a, n), !.pf = @ - n]]

\* An address one past the region is not refused.
InRegion(a) == a \in 0 .. NPages

sw_vir_addr_reserve(m, a, n) ==
    LET ok == InRegion(a) /\ Run(a, n) \cap m.v = {}
    IN [ok |-> ok,
        m |-> IF ok THEN [m EXCEPT !.v = @ \cup Run(a, n), !.vf = @ - n] ELSE m]

sw_vir_free_reserve(m, a, n) ==
    IF InRegion(a) THEN [m EXCEPT !.v = @ \ Run(a, n), !.vf = @ + n] ELSE m

sw_phy_addr_free(m, a, n) ==
    IF InRegion(a) THEN [m EXCEPT !.p = @ \ Run(a, n), !.pf = @ + n] ELSE m

\* The virtual and the physical run are looked for separately.
sw_vir_page_alloc(m, n) ==
    LET v == IF n > m.vf THEN None ELSE FirstFit(m.v, n, VBits)
        r == sw_phy_page_alloc(m, n)
    IN IF v = None \/ r.at = None THEN [at |-> None, phy |-> None, m |-> m]
       ELSE [at |-> v, phy |-> r.at,
             m |-> [r.m EXCEPT !.v = @ \cup Run(v, n), !.vf = @ - n]]

\* secure_vir_to_phy reads the translation table.
secure_vir_to_phy(t, v) == IF \E x \in t : x[1] = v THEN (CHOOSE x \in t : x[1] = v)[2] ELSE None

Mapped(t, v, p, n) == {x \in t : x[1] \notin Run(v, n)} \cup {<<v + i, p + i>> : i \in 0 .. (n - 1)}

Unmapped(t, v, n) == {x \in t : x[1] \notin Run(v, n)}

\* The same through the table the tasks share, for the pages of user tasks.
map_user_memory(t, v, p, n) == Mapped(t, v, p, n)
unmap_user_memory(t, v, n) == Unmapped(t, v, n)

sw_vir_addr_free(m, t, v, n) ==
    IF ~ InRegion(v) THEN [m |-> m, t |-> t]
    ELSE [m |-> sw_phy_addr_free([m EXCEPT !.v = @ \ Run(v, n), !.vf = @ + n],
                                 secure_vir_to_phy(t, v), n),
          t |-> Unmapped(t, v, n)]

----------------------------------------------------------------------------
(* What is built from pages.  Each constructor returns the memory after it, *)
(* and in at the page that names the object, None when it failed.          *)

\* Physical pages first, then the virtual pages of the same numbers; the
\* physical pages are given back when those are reserved, except by
\* sw_alloc_tls.
Pair(m, n, giveback) ==
    LET r == sw_phy_page_alloc(m, n)
        q == sw_vir_addr_reserve(r.m, r.at, n)
    IN IF r.at = None THEN [at |-> None, m |-> m, lost |-> {}]
       ELSE IF q.ok THEN [at |-> r.at, m |-> q.m, lost |-> {}]
       ELSE IF giveback
         THEN LET f == sw_phy_addr_free(r.m, r.at, n)
              IN [at |-> None, m |-> f, lost |-> Run(r.at, n) \cap f.p]
         ELSE [at |-> None, m |-> r.m, lost |-> Run(r.at, n)]

\* The page below the stack stays unmapped.
alloc_kernel_stack(m, t) ==
    LET r == Pair(m, SpPages + 1, TRUE)
    IN [at |-> IF r.at = None THEN None ELSE r.at + 1, m |-> r.m, lost |-> r.lost,
        t |-> IF r.at = None THEN t ELSE Mapped(t, r.at + 1, r.at + 1, SpPages)]

free_kernel_stack(m, t, sp) ==
    LET p == secure_vir_to_phy(t, sp) - 1
        m1 == sw_vir_free_reserve(m, sp - 1, SpPages + 1)
    IN [m |-> sw_phy_addr_free(m1, p, SpPages + 1), t |-> Unmapped(t, sp, SpPages)]

\* Only the physical address is moved past the guard page.
alloc_user_stack(m, t) ==
    LET r == Pair(m, SpPages + 1, TRUE)
    IN [at |-> r.at, m |-> r.m, lost |-> r.lost,
        t |-> IF r.at = None THEN t ELSE map_user_memory(t, r.at, r.at + 1, SpPages)]

free_user_stack(m, t, sp) ==
    LET m1 == sw_vir_free_reserve(m, sp, SpPages + 1)
    IN [m |-> sw_phy_addr_free(m1, sp, SpPages + 1), t |-> unmap_user_memory(t, sp, SpPages)]

sw_map_tls(t, tls) == map_user_memory(t, tls, tls, 1)

sw_unmap_tls(t, tls) == unmap_user_memory(t, tls, 1)

sw_alloc_tls(m, t) ==
    LET r == Pair(m, 1, FALSE)
    IN [at |-> r.at, m |-> r.m, lost |-> r.lost,
        t |-> IF r.at = None THEN t ELSE sw_map_tls(t, r.at)]

sw_free_tls(m, t, tls) ==
    [m |-> sw_phy_addr_free(sw_vir_free_reserve(m, tls, 1), tls, 1),
     t |-> sw_unmap_tls(t, tls)]

alloc_private_heap(m, t) ==
    LET r == sw_vir_page_alloc(m, HpPages)
    IN [at |-> r.at, m |-> r.m, lost |-> {},
        t |-> IF r.at = None THEN t ELSE Mapped(t, r.at, r.phy, HpPages)]

\* Freed even while blocks of it are allocated: only a message is printed.
free_private_heap(m, t, heap) == sw_vir_addr_free(m, t, heap, HpPages)

alloc_user_heap(m, t) ==
    LET r == Pair(m, HpPages, TRUE)
    IN [at |-> r.at, m |-> r.m, lost |-> r.lost,
        t |-> IF r.at = None THEN t ELSE map_user_memory(t, r.at, r.at, HpPages)]

free_user_heap(m, t, heap) ==
    IF heap = None THEN [m |-> m, t |-> t]
    ELSE [m |-> sw_phy_addr_free(sw_vir_free_reserve(m, heap, HpPages), heap, HpPages),
          t |-> unmap_user_memory(t, heap, HpPages)]
=============================================================================
