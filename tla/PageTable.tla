----------------------------- MODULE PageTable -----------------------------
(***************************************************************************)
(* The translation table of the secure world (arch/arm/armv7/page_table.c):*)
(* small pages through second-level tables that are kept in pages of their *)
(* own, four tables to a page, taken from the allocator of SwMemory and    *)
(* mapped through the table they extend.                                   *)
(*                                                                         *)
(* The clients are kernel heaps, allocated and freed page by page.         *)
(* Attributes and permissions of an entry are left out.                    *)
(***************************************************************************)
EXTENDS SwMemory

CONSTANTS
    SecPages, \* pages of a section
    PerPage,  \* PAGE_SIZE / L2_PAGE_TABLE_SIZE, tables in a page
    ObjSizes, \* sizes of the clients' allocations
    MaxObj    \* bound: allocations at a time

ASSUME PageTableAssumption ==
    /\ {SecPages, PerPage} \cup ObjSizes \subseteq Nat \ {0}
    /\ MaxObj \in Nat

VARIABLES
    pgd,   \* first level: the table of each section as <<page, index>>, or Fault
    l2,    \* l2_pages: the list of pages with the use counts of their tables,
           \* and the counters blk_allocated and blk_used
    objs,  \* the clients' allocations, <<first page, size>>
    wrong  \* history: what has gone wrong

ptvars == <<mem, pt, pgd, l2, objs, wrong>>

Static == -2  \* the static page of second-level tables
Fault == <<None, None>>
Sections == 0 .. (VBits \div SecPages)
SectionOf(v) == v \div SecPages

\* map_secure_page_table, and the first table taken from the static page.
PTInit ==
    /\ MemInit
    /\ pgd = [s \in Sections |-> Fault]
    /\ l2 = [pages |-> <<[base |-> Static, cnt |-> [i \in 1 .. PerPage |-> 0]]>>,
             allocated |-> PerPage, used |-> 0]
    /\ objs = {} /\ wrong = {}

----------------------------------------------------------------------------
(* Second-level tables.  t stands for everything these functions change:    *)
(* the allocator m, the mapped pairs x, the first level g, the second l,    *)
(* and w for what went wrong.                                              *)

PageAt(l, b) == CHOOSE i \in DOMAIN l.pages : l.pages[i].base = b

\* The first table that is not in use, None when there is none: the code then
\* takes the memory after the last page.
FreeTable(l) ==
    LET free == {x \in (DOMAIN l.pages) \X (1 .. PerPage) : l.pages[x[1]].cnt[x[2]] = 0}
        i == Min({x[1] : x \in free})
    IN IF free = {} THEN <<None, None>> ELSE <<i, Min({x[2] : x \in {y \in free : y[1] = i}})>>

\* alloc_l2_secure_page_table.
alloc_l2_secure_page_table(t, s) ==
    LET f == FreeTable(t.l)
    IN IF f[1] = None THEN [t EXCEPT !.w = @ \cup {"no table"}]
       ELSE [t EXCEPT !.g[s] = <<t.l.pages[f[1]].base, f[2]>>, !.l.used = @ + 1]

\* The entry itself, and the use count of its table.
Enter(t, v, p) ==
    LET s == SectionOf(v)
        u == IF t.g[s] = Fault THEN alloc_l2_secure_page_table(t, s) ELSE t
    IN IF u.g[s] = Fault THEN u
       ELSE [u EXCEPT !.l.pages[PageAt(u.l, u.g[s][1])].cnt[u.g[s][2]] = @ + 1,
                      !.x = Mapped(@, v, p, 1)]

\* Defect: the margin of free tables is one too small.
map_small_page_entry_late(t, v, p) ==
    LET u == Enter(t, v, p)
        r == sw_vir_page_alloc(u.m, 1)
        n == Enter([u EXCEPT !.m = r.m], r.at, r.phy)
    IN IF u.l.allocated - u.l.used > 0 THEN u
       ELSE IF r.at = None THEN [u EXCEPT !.w = @ \cup {"no page"}]
       ELSE [n EXCEPT !.l.pages = Append(@, [base |-> r.at, cnt |-> [i \in 1 .. PerPage |-> 0]]),
                      !.l.allocated = @ + PerPage]

\* When two tables are left another page of them is taken, and mapped by this
\* same function, which does not look at the margin then (skip).
map_small_page_entry(t, v, p) ==
    LET u == Enter(t, v, p)
        r == sw_vir_page_alloc(u.m, 1)
        n == Enter([u EXCEPT !.m = r.m], r.at, r.phy)
    IN IF u.l.allocated - u.l.used > 2 THEN u
       ELSE IF r.at = None THEN [u EXCEPT !.w = @ \cup {"no page"}]
       ELSE [n EXCEPT !.l.pages = Append(@, [base |-> r.at, cnt |-> [i \in 1 .. PerPage |-> 0]]),
                      !.l.allocated = @ + PerPage]

\* The entry and the use count; a table no longer used leaves the first level.
Leave(t, v) ==
    LET s == SectionOf(v)
        i == PageAt(t.l, t.g[s][1])
        j == t.g[s][2]
        u == [t EXCEPT !.l.pages[i].cnt[j] = @ - 1, !.x = Unmapped(@, v, 1)]
    IN IF t.g[s] = Fault THEN t
       ELSE IF u.l.pages[i].cnt[j] # 0 THEN u
       ELSE [u EXCEPT !.g[s] = Fault, !.l.used = @ - 1]

\* The page of tables that became empty, when enough tables are left without.
Spare(l, i) ==
    /\ \A j \in 1 .. PerPage : l.pages[i].cnt[j] = 0
    /\ l.allocated - l.used > PerPage + 1

RECURSIVE unmap_small_page_entry(_, _)

\* Giving back a page of tables unmaps it, by this same function; the static
\* page is taken out of the list only.
unmap_small_page_entry(t, v) ==
    LET u == Leave(t, v)
        i == PageAt(t.l, t.g[SectionOf(v)][1])
        b == u.l.pages[i].base
        w == [u EXCEPT !.l.pages = SubSeq(@, 1, i - 1) \o SubSeq(@, i + 1, Len(@)),
                       !.l.allocated = @ - PerPage]
    IN IF t.g[SectionOf(v)] = Fault \/ ~ Spare(u.l, i) THEN u
       ELSE IF b = Static THEN w
       ELSE unmap_small_page_entry(
                [w EXCEPT !.m = sw_phy_addr_free(sw_vir_free_reserve(@, b, 1),
                                                 secure_vir_to_phy(w.x, b), 1)], b)

RECURSIVE map_secure_memory(_, _, _, _)

\* map_kernel_data_memory and the other ranges, page by page: they are never
\* as large as a section.
map_secure_memory(t, v, p, n) ==
    IF n = 0 THEN t ELSE map_secure_memory(map_small_page_entry(t, v, p), v + 1, p + 1, n - 1)

RECURSIVE unmap_secure_memory(_, _, _)

unmap_secure_memory(t, v, n) ==
    IF n = 0 THEN t ELSE unmap_secure_memory(unmap_small_page_entry(t, v), v + 1, n - 1)

Now == [m |-> mem, x |-> pt, g |-> pgd, l |-> l2, w |-> wrong]

Become(t) == mem' = t.m /\ pt' = t.x /\ pgd' = t.g /\ l2' = t.l /\ wrong' = t.w

\* A kernel heap: sw_vir_page_alloc, which maps what it took.
AllocHeap(n) ==
    LET r == sw_vir_page_alloc(mem, n)
    IN /\ Cardinality(objs) < MaxObj /\ r.at # None
       /\ Become(map_secure_memory([Now EXCEPT !.m = r.m], r.at, r.phy, n))
       /\ objs' = objs \cup {<<r.at, n>>}

\* sw_vir_addr_free.
FreeHeap(o) ==
    LET m1 == sw_phy_addr_free(sw_vir_free_reserve(mem, o[1], o[2]),
                               secure_vir_to_phy(pt, o[1]), o[2])
    IN /\ o \in objs /\ objs' = objs \ {o}
       /\ Become(unmap_secure_memory([Now EXCEPT !.m = m1], o[1], o[2]))

----------------------------------------------------------------------------
\* After a page of tables could not be had the table at address 0 is used.
PTNext ==
    /\ "no page" \notin wrong
    /\ \/ \E n \in ObjSizes : AllocHeap(n)
       \/ \E o \in objs : FreeHeap(o)

PTSpec == PTInit /\ [][PTNext]_ptvars

----------------------------------------------------------------------------
(* Properties *)

\* As long as the allocator has a page when one is asked for, a section that
\* needs a second-level table finds a free one, also while the page that will
\* hold more of them is itself being mapped, and after empty pages were given
\* back.
TablesLeft == "no page" \notin wrong => "no table" \notin wrong

\* The use count of a table is the number of pages mapped through it, no two
\* sections share a table, the counters are exact, and every page of tables in
\* the list is allocated and mapped: none is freed while it translates.
TableCountsExact ==
    "no page" \notin wrong =>
    /\ \A i \in DOMAIN l2.pages, j \in 1 .. PerPage :
          LET secs == {s \in Sections : pgd[s] = <<l2.pages[i].base, j>>}
          IN /\ Cardinality(secs) <= 1
             /\ l2.pages[i].cnt[j] = Cardinality({x \in pt : SectionOf(x[1]) \in secs})
    /\ \A x \in pt : \E i \in DOMAIN l2.pages : l2.pages[i].base = pgd[SectionOf(x[1])][1]
    /\ l2.allocated = PerPage * Len(l2.pages)
    /\ l2.used = Cardinality({s \in Sections : pgd[s] # Fault})
    /\ {x[1] : x \in pt} =
          UNION {Run(o[1], o[2]) : o \in objs}
          \cup ({l2.pages[i].base : i \in DOMAIN l2.pages} \ {Static})

\* Both, over every sequence of allocations and frees.
TablesExact == TablesLeft /\ TableCountsExact
=============================================================================
