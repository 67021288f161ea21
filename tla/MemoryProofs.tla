--------------------------- MODULE MemoryProofs ----------------------------
(***************************************************************************)
(* Proofs about the memory of the secure world.  SwShm: the pages and the  *)
(* identifiers of shared segments are those that are taken, and each is    *)
(* held once, for any number of pages, segments and tasks.  SwSessions:    *)
(* the tables of tasks, blocks and identifiers agree.  SwBuddy: without a  *)
(* FIQ inside the allocator blocks never overlap, for every pool size and  *)
(* every sequence of requests.                                             *)
(***************************************************************************)
EXTENDS SwBuddy, SwShm, SwSessions, ListLemmas

----------------------------------------------------------------------------
(* SwMemory: what the page allocator does to the bitmaps.                   *)

LEMMA RunFacts ==
    ASSUME NEW s \in Nat, NEW n \in Nat
    PROVE  /\ Run(s, n) \subseteq Nat
           /\ \A x : x \in Run(s, n) <=> x \in Nat /\ s <= x /\ x < s + n
           /\ n # 0 => s \in Run(s, n)
BY DEF Run

LEMMA LowestIn ==
    ASSUME NEW S \in SUBSET Nat, S # {}
    PROVE  Min(S) \in S /\ \A y \in S : Min(S) <= y
<1>1. \E x \in S : \A y \in S : x <= y
  BY LeastNat
<1> QED BY <1>1 DEF Min

Bitmaps == [p : SUBSET Nat, v : SUBSET Nat, pf : Int, vf : Int]

LEMMA PhysicalFields ==
    ASSUME NEW m \in Bitmaps, NEW X \in SUBSET Nat, NEW k \in Int
    PROVE  LET y == [m EXCEPT !.p = X, !.pf = k] IN y \in Bitmaps /\ y.p = X /\ y.v = m.v
<1> DEFINE a == [m EXCEPT !.p = X]
           b == [a EXCEPT !.pf = k]
<1>1. a \in Bitmaps /\ a.p = X /\ a.v = m.v
  BY DEF Bitmaps
<1>2. [m EXCEPT !.p = X, !.pf = k] = b
  OBVIOUS
<1> HIDE DEF a
<1>3. b \in Bitmaps /\ b.p = X /\ b.v = m.v
  BY <1>1 DEF Bitmaps
<1> QED BY <1>2, <1>3

LEMMA VirtualFields ==
    ASSUME NEW m \in Bitmaps, NEW X \in SUBSET Nat, NEW k \in Int
    PROVE  LET y == [m EXCEPT !.v = X, !.vf = k] IN y \in Bitmaps /\ y.v = X /\ y.p = m.p
<1> DEFINE a == [m EXCEPT !.v = X]
           b == [a EXCEPT !.vf = k]
<1>1. a \in Bitmaps /\ a.v = X /\ a.p = m.p
  BY DEF Bitmaps
<1>2. [m EXCEPT !.v = X, !.vf = k] = b
  OBVIOUS
<1> HIDE DEF a
<1>3. b \in Bitmaps /\ b.v = X /\ b.p = m.p
  BY <1>1 DEF Bitmaps
<1> QED BY <1>2, <1>3

LEMMA BitmapTypes ==
    ASSUME NEW m \in Bitmaps
    PROVE  m.p \in SUBSET Nat /\ m.v \in SUBSET Nat /\ m.pf \in Int /\ m.vf \in Int
BY DEF Bitmaps

\* A physical run that is granted was free.
LEMMA PhyAllocFacts ==
    ASSUME NEW m \in Bitmaps, NEW n \in Nat
    PROVE  LET r == sw_phy_page_alloc(m, n)
           IN  \/ r.at = None /\ r.m = m
               \/ /\ r.at \in Nat /\ Run(r.at, n) \cap m.p = {} /\ r.m \in Bitmaps
                  /\ r.m.p = m.p \cup Run(r.at, n) /\ r.m.v = m.v
<1> DEFINE fits == {s \in 0 .. (PBits - n - 1) : Run(s, n) \cap m.p = {}}
           at == IF n > m.pf \/ fits = {} THEN None ELSE Min(fits)
           r == sw_phy_page_alloc(m, n)
<1>0. NPages \in Nat /\ PBits \in Nat
  BY MemoryAssumption
<1>1. r.at = at /\ r.m = (IF at = None THEN m ELSE [m EXCEPT !.p = m.p \cup Run(at, n), !.pf = m.pf - n])
  BY DEF sw_phy_page_alloc, FirstFit
<1>2. fits \in SUBSET Nat
  BY <1>0
<1>3. at = None \/ (at \in Nat /\ Run(at, n) \cap m.p = {})
  <2>1. fits # {} => Min(fits) \in fits
    BY <1>2, LowestIn
  <2> QED BY <1>2, <2>1
<1> HIDE DEF r, at
<1>4. CASE at = None
  BY <1>1, <1>4 DEF r
<1>5. CASE at # None
  <2> DEFINE X == m.p \cup Run(at, n)
             k == m.pf - n
             y == [m EXCEPT !.p = X, !.pf = k]
  <2>1. at \in Nat /\ Run(at, n) \cap m.p = {} /\ Run(at, n) \subseteq Nat
    BY <1>3, <1>5, RunFacts
  <2>2. X \in SUBSET Nat /\ k \in Int
    BY <2>1, BitmapTypes
  <2>3. r.m = y
    BY <1>1, <1>5
  <2> HIDE DEF X, k
  <2>4. y \in Bitmaps /\ y.p = X /\ y.v = m.v
    BY <2>2, PhysicalFields
  <2> HIDE DEF y
  <2> QED BY <1>1, <2>1, <2>3, <2>4 DEF r, X
<1> QED BY <1>4, <1>5

LEMMA VirReserveFacts ==
    ASSUME NEW m \in Bitmaps, NEW s \in Nat, NEW n \in Nat
    PROVE  LET q == sw_vir_addr_reserve(m, s, n)
           IN  q.m \in Bitmaps /\ q.m.p = m.p /\ (q.ok => s \in 0 .. NPages) /\ (~ q.ok => q.m = m)
<1> DEFINE X == m.v \cup Run(s, n)
           k == m.vf - n
           y == [m EXCEPT !.v = X, !.vf = k]
           q == sw_vir_addr_reserve(m, s, n)
<1>1. X \in SUBSET Nat /\ k \in Int
  BY RunFacts, BitmapTypes
<1>2. q.m = (IF q.ok THEN y ELSE m) /\ (q.ok => s \in 0 .. NPages)
  BY DEF sw_vir_addr_reserve, InRegion
<1> HIDE DEF X, k, q
<1>3. y \in Bitmaps /\ y.p = m.p
  BY <1>1, VirtualFields
<1> HIDE DEF y
<1> QED BY <1>2, <1>3 DEF q

LEMMA VirFreeFacts ==
    ASSUME NEW m \in Bitmaps, NEW s, NEW n \in Nat
    PROVE  sw_vir_free_reserve(m, s, n) \in Bitmaps /\ sw_vir_free_reserve(m, s, n).p = m.p
<1> DEFINE X == m.v \ Run(s, n)
           k == m.vf + n
           y == [m EXCEPT !.v = X, !.vf = k]
<1>1. X \in SUBSET Nat /\ k \in Int
  BY BitmapTypes
<1>2. sw_vir_free_reserve(m, s, n) = IF InRegion(s) THEN y ELSE m
  BY DEF sw_vir_free_reserve
<1> HIDE DEF X, k
<1>3. y \in Bitmaps /\ y.p = m.p
  BY <1>1, VirtualFields
<1> HIDE DEF y
<1> QED BY <1>2, <1>3

\* Physical pages are given back when they lie in the region.
LEMMA PhyFreeFacts ==
    ASSUME NEW m \in Bitmaps, NEW s, NEW n \in Nat
    PROVE  LET f == sw_phy_addr_free(m, s, n)
           IN  /\ f \in Bitmaps /\ f.v = m.v
               /\ f.p = IF s \in 0 .. NPages THEN m.p \ Run(s, n) ELSE m.p
<1> DEFINE X == m.p \ Run(s, n)
           k == m.pf + n
           y == [m EXCEPT !.p = X, !.pf = k]
           f == sw_phy_addr_free(m, s, n)
<1>1. X \in SUBSET Nat /\ k \in Int
  BY BitmapTypes
<1>2. f = IF s \in 0 .. NPages THEN y ELSE m
  BY DEF sw_phy_addr_free, InRegion
<1> HIDE DEF X, k, f
<1>3. y \in Bitmaps /\ y.p = X /\ y.v = m.v
  BY <1>1, PhysicalFields
<1> HIDE DEF y
<1> QED BY <1>2, <1>3 DEF f, X

\* Refused pages: those of the region are as they were before they were taken.
LEMMA RefusedFacts ==
    ASSUME NEW m \in Bitmaps, NEW k \in Bitmaps, NEW s \in Nat, NEW n \in Nat,
           Run(s, n) \cap m.p = {}, k.p = m.p \cup Run(s, n)
    PROVE  /\ \A x \in 0 .. NPages : x \in sw_phy_addr_free(k, s, n).p <=> x \in m.p
           /\ m.p \subseteq sw_phy_addr_free(k, s, n).p
<1>0. NPages \in Nat
  BY MemoryAssumption
<1>1. sw_phy_addr_free(k, s, n).p = IF s \in 0 .. NPages THEN k.p \ Run(s, n) ELSE k.p
  BY PhyFreeFacts
<1>2. \A x : x \in Run(s, n) => x \in Nat /\ s <= x
  BY RunFacts
<1>3. CASE s \in 0 .. NPages
  BY <1>1, <1>3
<1>4. CASE s \notin 0 .. NPages
  <2>1. \A x \in 0 .. NPages : x \notin Run(s, n)
    BY <1>0, <1>2, <1>4
  <2> QED BY <1>1, <1>4, <2>1
<1> QED BY <1>3, <1>4

\* Physical and virtual pages of the same numbers, or the pages of the region
\* as they were.
LEMMA TakenFacts ==
    ASSUME NEW m \in Bitmaps, NEW n \in Nat
    PROVE  LET r == sw_phy_page_alloc(m, n)
               q == sw_vir_addr_reserve(r.m, r.at, n)
           IN  /\ r.at # None => /\ r.at \in Nat /\ Run(r.at, n) \cap m.p = {} /\ r.m \in Bitmaps
                                 /\ r.m.p = m.p \cup Run(r.at, n)
               /\ r.at # None /\ q.ok => /\ r.at \in 0 .. NPages /\ q.m \in Bitmaps
                                         /\ q.m.p = m.p \cup Run(r.at, n)
<1> DEFINE r == sw_phy_page_alloc(m, n)
           q == sw_vir_addr_reserve(r.m, r.at, n)
<1>1. r.at # None => /\ r.at \in Nat /\ Run(r.at, n) \cap m.p = {} /\ r.m \in Bitmaps
                     /\ r.m.p = m.p \cup Run(r.at, n)
  BY PhyAllocFacts
<1> HIDE DEF r
<1>2. r.at # None /\ q.ok => /\ r.at \in 0 .. NPages /\ q.m \in Bitmaps
                             /\ q.m.p = m.p \cup Run(r.at, n)
  BY <1>1, VirReserveFacts
<1> QED BY <1>1, <1>2 DEF r

LEMMA StackTaken ==
    ASSUME NEW m \in Bitmaps, NEW t
    PROVE  LET r == alloc_kernel_stack(m, t)
           IN  /\ r.m \in Bitmaps
               /\ \/ /\ r.at = None /\ r.t = t /\ m.p \subseteq r.m.p
                     /\ \A x \in 0 .. NPages : x \in r.m.p <=> x \in m.p
                  \/ /\ r.at # None /\ r.at \in 1 .. (NPages + 1)
                     /\ Run(r.at - 1, SpPages + 1) \cap m.p = {}
                     /\ r.m.p = m.p \cup Run(r.at - 1, SpPages + 1)
                     /\ r.t = Mapped(t, r.at, r.at, SpPages)
<1> DEFINE n == SpPages + 1
           u == sw_phy_page_alloc(m, n)
           q == sw_vir_addr_reserve(u.m, u.at, n)
           f == sw_phy_addr_free(u.m, u.at, n)
           pr == Pair(m, n, TRUE)
           r == alloc_kernel_stack(m, t)
<1>0. n \in Nat /\ NPages \in Nat /\ None = -1
  BY MemoryAssumption DEF None
<1>1. /\ r.at = (IF pr.at = None THEN None ELSE pr.at + 1) /\ r.m = pr.m
      /\ r.t = (IF pr.at = None THEN t ELSE Mapped(t, pr.at + 1, pr.at + 1, SpPages))
  BY DEF alloc_kernel_stack
<1>2. /\ pr.at = (IF u.at = None \/ ~ q.ok THEN None ELSE u.at)
      /\ pr.m = (IF u.at = None THEN m ELSE IF q.ok THEN q.m ELSE f)
  BY DEF Pair
<1> HIDE DEF n
<1>3. /\ u.at # None => /\ u.at \in Nat /\ Run(u.at, n) \cap m.p = {} /\ u.m \in Bitmaps
                        /\ u.m.p = m.p \cup Run(u.at, n)
      /\ u.at # None /\ q.ok => /\ u.at \in 0 .. NPages /\ q.m \in Bitmaps
                                /\ q.m.p = m.p \cup Run(u.at, n)
  BY <1>0, TakenFacts
<1> HIDE DEF pr, r, q, u
<1>4. CASE u.at = None
  BY <1>1, <1>2, <1>4 DEF r
<1>5. CASE u.at # None /\ q.ok
  <2>1. pr.at = u.at /\ pr.m = q.m /\ u.at \in 0 .. NPages
    BY <1>2, <1>3, <1>5
  <2>2. pr.at # None /\ r.at = u.at + 1
    BY <1>0, <1>1, <2>1
  <2>3. r.at - 1 = u.at /\ r.at \in 1 .. (NPages + 1) /\ r.at # None
    BY <1>0, <2>1, <2>2
  <2>4. r.m = q.m /\ r.t = Mapped(t, r.at, r.at, SpPages)
    BY <1>1, <2>1, <2>2
  <2> QED BY <1>3, <1>5, <2>3, <2>4 DEF r, n
<1>6. CASE u.at # None /\ ~ q.ok
  <2>1. f \in Bitmaps /\ m.p \subseteq f.p /\ \A x \in 0 .. NPages : x \in f.p <=> x \in m.p
    BY <1>0, <1>3, <1>6, RefusedFacts, PhyFreeFacts
  <2> HIDE DEF f
  <2> QED BY <1>1, <1>2, <1>6, <2>1 DEF r
<1> QED BY <1>4, <1>5, <1>6

LEMMA StackGiven ==
    ASSUME NEW m \in Bitmaps, NEW t, NEW sp \in 1 .. (NPages + 1),
           t = {<<sp + i, sp + i>> : i \in 0 .. (SpPages - 1)}
    PROVE  LET r == free_kernel_stack(m, t, sp)
           IN  r.m \in Bitmaps /\ r.m.p = m.p \ Run(sp - 1, SpPages + 1) /\ r.t = {}
<1> DEFINE n == SpPages + 1
           m1 == sw_vir_free_reserve(m, sp - 1, n)
           f == sw_phy_addr_free(m1, sp - 1, n)
           r == free_kernel_stack(m, t, sp)
<1>0. n \in Nat /\ NPages \in Nat /\ SpPages \in Nat \ {0}
  BY MemoryAssumption
<1>1. secure_vir_to_phy(t, sp) = sp
  <2>1. <<sp, sp>> \in t
    BY <1>0
  <2>2. \A x \in t : x[1] = x[2]
    OBVIOUS
  <2> QED BY <2>1, <2>2 DEF secure_vir_to_phy
<1>2. r.m = f /\ r.t = Unmapped(t, sp, SpPages)
  BY <1>1 DEF free_kernel_stack
<1>3. Unmapped(t, sp, SpPages) = {}
  <2>1. ASSUME NEW x \in t PROVE x[1] \in Run(sp, SpPages)
    BY <1>0 DEF Run
  <2> QED BY <2>1 DEF Unmapped
<1> HIDE DEF n
<1>4. m1 \in Bitmaps /\ m1.p = m.p
  BY <1>0, VirFreeFacts
<1> HIDE DEF m1, r
<1>5. sp - 1 \in 0 .. NPages
  BY <1>0
<1>6. f \in Bitmaps /\ f.p = m.p \ Run(sp - 1, n)
  <2> DEFINE s == sp - 1
  <2>1. s \in 0 .. NPages
    BY <1>5
  <2> HIDE DEF s
  <2>2. LET g == sw_phy_addr_free(m1, s, n) IN g \in Bitmaps /\ g.p = m1.p \ Run(s, n)
    BY <1>0, <1>4, <2>1, PhyFreeFacts
  <2> QED BY <1>4, <2>2 DEF s
<1> HIDE DEF f
<1> QED BY <1>2, <1>3, <1>6 DEF r, n

----------------------------------------------------------------------------
(* SwShm: lists of segments and what they hold.                             *)

\* The place of the first segment of that number.
First(q, id) == Min({i \in DOMAIN q : q[i].id = id})
Has(q, id) == {i \in DOMAIN q : q[i].id = id} # {}

LEMMA FirstFacts ==
    ASSUME NEW q \in Seq(Segment), NEW id, Has(q, id)
    PROVE  /\ First(q, id) \in DOMAIN q /\ q[First(q, id)].id = id
           /\ \A i \in DOMAIN q : q[i].id = id => First(q, id) <= i
<1> DEFINE T == {i \in DOMAIN q : q[i].id = id}
<1>1. DOMAIN q \subseteq Nat
  OBVIOUS
<1>2. T \in SUBSET Nat /\ T # {}
  BY <1>1 DEF Has
<1>3. First(q, id) = Min(T)
  BY DEF First
<1> HIDE DEF T
<1>4. Min(T) \in T /\ \A y \in T : Min(T) <= y
  BY <1>2, LowestIn
<1> QED BY <1>3, <1>4 DEF T

LEMMA FirstIs ==
    ASSUME NEW q \in Seq(Segment), NEW id, NEW k \in DOMAIN q, q[k].id = id,
           \A i \in DOMAIN q : q[i].id = id => k <= i
    PROVE  Has(q, id) /\ First(q, id) = k
<1>1. Has(q, id)
  BY DEF Has
<1>2. First(q, id) <= k /\ k <= First(q, id) /\ First(q, id) \in DOMAIN q
  BY <1>1, FirstFacts
<1>3. DOMAIN q \subseteq Int
  OBVIOUS
<1> QED BY <1>1, <1>2, <1>3

LEMMA SegmentFields ==
    ASSUME NEW q \in Seq(Segment), NEW i \in DOMAIN q
    PROVE  /\ q[i] \in Segment /\ q[i].id \in Nat /\ q[i].size \in Nat \ {0} /\ q[i].size \in ShmSize
           /\ q[i].phy \in 0 .. NPages /\ q[i].phy \in Nat /\ q[i].creator \in ShmTask
<1>1. q[i] \in Segment
  OBVIOUS
<1>2. ShmSize \subseteq Nat \ {0} /\ NPages \in Nat
  BY ShmAssumption, MemoryAssumption
<1>3. /\ q[i].id \in Nat /\ q[i].size \in ShmSize /\ q[i].phy \in 0 .. NPages
      /\ q[i].creator \in ShmTask
  BY <1>1 DEF Segment
<1>4. q[i].size \in Nat \ {0}
  BY <1>2, <1>3, Zenon
<1>5. \A x \in 0 .. NPages : x \in Nat
  BY <1>2
<1> QED BY <1>1, <1>3, <1>4, <1>5, Zenon

\* The segment linked last is not found before the others.
LEMMA FirstAppend ==
    ASSUME NEW q \in Seq(Segment), NEW e \in Segment, NEW id, Has(q, id)
    PROVE  LET r == Append(q, e) IN Has(r, id) /\ r[First(r, id)] = q[First(q, id)]
<1> DEFINE r == Append(q, e)
           k == First(q, id)
<1>1. /\ r \in Seq(Segment) /\ DOMAIN r = DOMAIN q \cup {Len(q) + 1}
      /\ \A i \in DOMAIN q : r[i] = q[i]
      /\ \A i \in DOMAIN q : i <= Len(q) /\ i \in Nat
  OBVIOUS
<1>2. k \in DOMAIN q /\ q[k].id = id /\ \A i \in DOMAIN q : q[i].id = id => k <= i
  BY FirstFacts
<1> HIDE DEF r, k
<1>3. Len(q) \in Nat
  OBVIOUS
<1>4. k \in DOMAIN r /\ r[k].id = id /\ \A i \in DOMAIN r : r[i].id = id => k <= i
  <2>1. k <= Len(q) + 1
    BY <1>1, <1>2, <1>3
  <2> QED BY <1>1, <1>2, <2>1
<1>5. Has(r, id) /\ First(r, id) = k
  BY <1>1, <1>4, FirstIs
<1> QED BY <1>1, <1>2, <1>5 DEF r, k

\* Where the segment at a place of the shorter list was.
Was(i, k) == IF i < k THEN i ELSE i + 1

LEMMA Unlinked ==
    ASSUME NEW q \in Seq(Segment), NEW k \in DOMAIN q
    PROVE  LET r == RemoveAt(q, k)
           IN  /\ r \in Seq(Segment)
               /\ \A i \in DOMAIN r : Was(i, k) \in DOMAIN q \ {k} /\ r[i] = q[Was(i, k)]
               /\ \A j \in DOMAIN q \ {k} : \E i \in DOMAIN r : Was(i, k) = j
               /\ \A i, j \in DOMAIN r : i < j <=> Was(i, k) < Was(j, k)
               /\ \A i, j \in DOMAIN r : i # j => Was(i, k) # Was(j, k)
<1> DEFINE r == RemoveAt(q, k)
<1>1. Len(q) \in Nat /\ k \in 1 .. Len(q) /\ DOMAIN q = 1 .. Len(q)
  OBVIOUS
<1>2. /\ r \in Seq(Segment) /\ Len(r) = Len(q) - 1
      /\ \A i \in 1 .. (Len(q) - 1) : r[i] = IF i < k THEN q[i] ELSE q[i + 1]
  BY RemoveAtFacts, Zenon
<1> HIDE DEF r
<1>3. DOMAIN r = 1 .. (Len(q) - 1)
  BY <1>2
<1>4. \A i \in DOMAIN r : Was(i, k) \in DOMAIN q \ {k} /\ r[i] = q[Was(i, k)]
  BY <1>1, <1>2, <1>3 DEF Was
<1>5. ASSUME NEW j \in DOMAIN q \ {k} PROVE \E i \in DOMAIN r : Was(i, k) = j
  <2>1. CASE j < k
    BY <1>1, <1>3, <2>1 DEF Was
  <2>2. CASE j > k
    <3>1. j - 1 \in DOMAIN r /\ Was(j - 1, k) = j
      BY <1>1, <1>3, <2>2 DEF Was
    <3> QED BY <3>1
  <2> QED BY <1>1, <2>1, <2>2
<1>6. \A i, j \in DOMAIN r : i < j <=> Was(i, k) < Was(j, k)
  BY <1>1, <1>3 DEF Was
<1>7. \A i, j \in DOMAIN r : i # j => Was(i, k) # Was(j, k)
  BY <1>1, <1>3 DEF Was
<1> QED BY <1>2, <1>4, <1>5, <1>6, <1>7 DEF r

\* Unlinking a segment leaves the first of another number the first.
LEMMA FirstRemove ==
    ASSUME NEW q \in Seq(Segment), NEW k \in DOMAIN q, NEW id, Has(q, id), First(q, id) # k
    PROVE  LET r == RemoveAt(q, k) IN Has(r, id) /\ r[First(r, id)] = q[First(q, id)]
<1> DEFINE r == RemoveAt(q, k)
           f == First(q, id)
<1>1. f \in DOMAIN q \ {k} /\ q[f].id = id /\ \A i \in DOMAIN q : q[i].id = id => f <= i
  BY FirstFacts
<1>2. /\ r \in Seq(Segment)
      /\ \A i \in DOMAIN r : Was(i, k) \in DOMAIN q \ {k} /\ r[i] = q[Was(i, k)]
      /\ \A j \in DOMAIN q \ {k} : \E i \in DOMAIN r : Was(i, k) = j
      /\ \A i, j \in DOMAIN r : i < j <=> Was(i, k) < Was(j, k)
  BY Unlinked
<1> HIDE DEF r, f
<1>3. PICK n \in DOMAIN r : Was(n, k) = f
  BY <1>1, <1>2
<1>4. r[n] = q[f] /\ r[n].id = id
  BY <1>1, <1>2, <1>3
<1>5. ASSUME NEW i \in DOMAIN r, r[i].id = id PROVE n <= i
  <2>1. Was(i, k) \in DOMAIN q /\ f <= Was(i, k)
    BY <1>1, <1>2, <1>5
  <2>2. DOMAIN q \subseteq Int /\ DOMAIN r \subseteq Int
    BY <1>2
  <2>3. ~ (Was(i, k) < Was(n, k))
    BY <1>1, <1>3, <2>1, <2>2
  <2>4. ~ (i < n)
    BY <1>2, <2>3
  <2> QED BY <2>2, <2>4
<1>6. Has(r, id) /\ First(r, id) = n
  BY <1>2, <1>4, <1>5, FirstIs
<1> QED BY <1>4, <1>6 DEF r, f

HeldBy(q) == UNION {SegPages(q[i]) : i \in DOMAIN q}

\* The pages, for bitmap p, list q, stack pages S and window W.
PagesHold(p, q, S, W) ==
    /\ \A x \in 0 .. NPages : x \in p <=> x \in Run(0, KPages) \cup HeldBy(q) \cup S
    /\ HeldBy(q) \cap S = {}
    /\ \A i, j \in DOMAIN q : i # j => SegPages(q[i]) \cap SegPages(q[j]) = {}
    /\ {x[2] : x \in W} \subseteq HeldBy(q)
    /\ HeldBy(q) \cup S \subseteq p \ Run(0, KPages)

LEMMA HeldPages ==
    ASSUME NEW q
    PROVE  \A x : x \in HeldBy(q) <=> \E i \in DOMAIN q : x \in SegPages(q[i])
BY DEF HeldBy

LEMMA HeldAppend ==
    ASSUME NEW q \in Seq(Segment), NEW e \in Segment
    PROVE  HeldBy(Append(q, e)) = HeldBy(q) \cup SegPages(e)
<1> DEFINE r == Append(q, e)
<1>1. /\ DOMAIN r = DOMAIN q \cup {Len(q) + 1} /\ \A i \in DOMAIN q : r[i] = q[i]
      /\ r[Len(q) + 1] = e
  OBVIOUS
<1> HIDE DEF r
<1>2. \A x : x \in HeldBy(r) <=> x \in HeldBy(q) \/ x \in SegPages(e)
  BY <1>1, HeldPages
<1> QED BY <1>2 DEF r

LEMMA KernelInRegion == Run(0, KPages) \subseteq 0 .. NPages
<1>1. KPages \in Nat /\ NPages \in Nat /\ KPages < NPages
  BY MemoryAssumption
<1> QED BY <1>1 DEF Run

LEMMA PagesAppend ==
    ASSUME NEW p, NEW q \in Seq(Segment), NEW S, NEW W, PagesHold(p, q, S, W),
           NEW e \in Segment, SegPages(e) \cap p = {}
    PROVE  PagesHold(p \cup SegPages(e), Append(q, e), S, W)
<1> DEFINE r == Append(q, e)
<1>1. HeldBy(r) = HeldBy(q) \cup SegPages(e)
  BY HeldAppend
<1>2. /\ DOMAIN r = DOMAIN q \cup {Len(q) + 1} /\ \A i \in DOMAIN q : r[i] = q[i]
      /\ r[Len(q) + 1] = e
  OBVIOUS
<1> HIDE DEF r
<1>3. Run(0, KPages) \subseteq p
  BY KernelInRegion DEF PagesHold
<1>4. \A i \in DOMAIN q : SegPages(q[i]) \subseteq p
  BY HeldPages DEF PagesHold
<1>5. \A i, j \in DOMAIN r : i # j => SegPages(r[i]) \cap SegPages(r[j]) = {}
  <2> SUFFICES ASSUME NEW i \in DOMAIN r, NEW j \in DOMAIN r, i # j
               PROVE  SegPages(r[i]) \cap SegPages(r[j]) = {}
    OBVIOUS
  <2>1. CASE i \in DOMAIN q /\ j \in DOMAIN q
    BY <1>2, <2>1 DEF PagesHold
  <2>2. CASE i \in DOMAIN q /\ j = Len(q) + 1
    BY <1>2, <1>4, <2>2
  <2>3. CASE i = Len(q) + 1 /\ j \in DOMAIN q
    BY <1>2, <1>4, <2>3
  <2> QED BY <1>2, <2>1, <2>2, <2>3
<1> QED BY <1>1, <1>3, <1>5 DEF PagesHold, r

LEMMA PagesRemove ==
    ASSUME NEW p, NEW q \in Seq(Segment), NEW S, NEW W, PagesHold(p, q, S, W),
           NEW k \in DOMAIN q, \A x \in W : x[2] \notin SegPages(q[k])
    PROVE  PagesHold(p \ SegPages(q[k]), RemoveAt(q, k), S, W)
<1> DEFINE r == RemoveAt(q, k)
<1>1. /\ \A i \in DOMAIN r : Was(i, k) \in DOMAIN q \ {k} /\ r[i] = q[Was(i, k)]
      /\ \A j \in DOMAIN q \ {k} : \E i \in DOMAIN r : Was(i, k) = j
      /\ \A i, j \in DOMAIN r : i # j => Was(i, k) # Was(j, k)
  BY Unlinked
<1> HIDE DEF r
<1>2. \A x : x \in HeldBy(r) <=> \E j \in DOMAIN q \ {k} : x \in SegPages(q[j])
  BY <1>1, HeldPages
<1>3. \A i, j \in DOMAIN q : i # j => SegPages(q[i]) \cap SegPages(q[j]) = {}
  BY DEF PagesHold
<1>4. \A x : x \in HeldBy(r) <=> x \in HeldBy(q) /\ x \notin SegPages(q[k])
  BY <1>2, <1>3, HeldPages
<1>5. \A x \in SegPages(q[k]) : x \in HeldBy(q)
  BY HeldPages
<1>6. \A i, j \in DOMAIN r : i # j => SegPages(r[i]) \cap SegPages(r[j]) = {}
  BY <1>1, <1>3
<1> QED BY <1>4, <1>5, <1>6 DEF PagesHold, r

\* Segments of the same pages.
LEMMA HeldSame ==
    ASSUME NEW q, NEW r, DOMAIN r = DOMAIN q,
           \A i \in DOMAIN q : r[i].phy = q[i].phy /\ r[i].size = q[i].size
    PROVE  HeldBy(r) = HeldBy(q) /\ \A i \in DOMAIN q : SegPages(r[i]) = SegPages(q[i])
<1>1. \A i \in DOMAIN q : SegPages(r[i]) = SegPages(q[i])
  BY DEF SegPages
<1>2. \A x : x \in HeldBy(r) <=> x \in HeldBy(q)
  BY <1>1, HeldPages
<1> QED BY <1>1, <1>2

----------------------------------------------------------------------------
(* The identifiers, for the set I, list q and attachments F of others.      *)

IdRun(g) == Run(g.id, g.size)
AtRun(b) == Run(b.at, b.size)

IdsHold(I, q, F) ==
    /\ \A x : x \in I <=> \/ \E i \in DOMAIN q : x \in IdRun(q[i])
                          \/ \E b \in F : x \in AtRun(b)
    /\ \A i, j \in DOMAIN q : i # j => IdRun(q[i]) \cap IdRun(q[j]) = {}
    /\ \A i \in DOMAIN q : \A b \in F : IdRun(q[i]) \cap AtRun(b) = {}
    /\ \A b, d \in F : b # d => AtRun(b) \cap AtRun(d) = {}

LEMMA IdsAppend ==
    ASSUME NEW I, NEW q \in Seq(Segment), NEW F, IdsHold(I, q, F),
           NEW e \in Segment, IdRun(e) \cap I = {}
    PROVE  IdsHold(I \cup IdRun(e), Append(q, e), F)
<1> DEFINE r == Append(q, e)
           J == I \cup IdRun(e)
<1>1. /\ DOMAIN r = DOMAIN q \cup {Len(q) + 1} /\ \A i \in DOMAIN q : r[i] = q[i]
      /\ r[Len(q) + 1] = e
  OBVIOUS
<1>2. \A x : x \in J <=> x \in I \/ x \in IdRun(e)
  OBVIOUS
<1> HIDE DEF r, J
<1>3. \A x : x \in J <=> \/ \E i \in DOMAIN r : x \in IdRun(r[i])
                         \/ \E b \in F : x \in AtRun(b)
  BY <1>1, <1>2 DEF IdsHold
<1>4. /\ \A i \in DOMAIN q : IdRun(q[i]) \cap IdRun(e) = {}
      /\ \A b \in F : AtRun(b) \cap IdRun(e) = {}
  BY DEF IdsHold
<1>5. \A i, j \in DOMAIN r : i # j => IdRun(r[i]) \cap IdRun(r[j]) = {}
  <2> SUFFICES ASSUME NEW i \in DOMAIN r, NEW j \in DOMAIN r, i # j
               PROVE  IdRun(r[i]) \cap IdRun(r[j]) = {}
    OBVIOUS
  <2>1. CASE i \in DOMAIN q /\ j \in DOMAIN q
    BY <1>1, <2>1 DEF IdsHold
  <2>2. CASE i \in DOMAIN q /\ j = Len(q) + 1
    BY <1>1, <1>4, <2>2
  <2>3. CASE i = Len(q) + 1 /\ j \in DOMAIN q
    BY <1>1, <1>4, <2>3
  <2> QED BY <1>1, <2>1, <2>2, <2>3
<1>6. \A i \in DOMAIN r : \A b \in F : IdRun(r[i]) \cap AtRun(b) = {}
  <2> SUFFICES ASSUME NEW i \in DOMAIN r, NEW b \in F
               PROVE  IdRun(r[i]) \cap AtRun(b) = {}
    OBVIOUS
  <2>1. CASE i \in DOMAIN q
    BY <1>1, <2>1 DEF IdsHold
  <2>2. CASE i = Len(q) + 1
    BY <1>1, <1>4, <2>2
  <2> QED BY <1>1, <2>1, <2>2
<1>7. \A b, d \in F : b # d => AtRun(b) \cap AtRun(d) = {}
  BY DEF IdsHold
<1> HIDE DEF IdsHold
<1>8. IdsHold(J, r, F)
  BY <1>3, <1>5, <1>6, <1>7 DEF IdsHold
<1> QED BY <1>8 DEF J, r

LEMMA IdsRemove ==
    ASSUME NEW I, NEW q \in Seq(Segment), NEW F, IdsHold(I, q, F), NEW k \in DOMAIN q
    PROVE  IdsHold(I \ IdRun(q[k]), RemoveAt(q, k), F)
<1> DEFINE r == RemoveAt(q, k)
           J == I \ IdRun(q[k])
<1>1. /\ \A i \in DOMAIN r : Was(i, k) \in DOMAIN q \ {k} /\ r[i] = q[Was(i, k)]
      /\ \A j \in DOMAIN q \ {k} : \E i \in DOMAIN r : Was(i, k) = j
      /\ \A i, j \in DOMAIN r : i # j => Was(i, k) # Was(j, k)
  BY Unlinked
<1>2. \A x : x \in J <=> x \in I /\ x \notin IdRun(q[k])
  OBVIOUS
<1> HIDE DEF r, J
<1>3. \A x : (\E i \in DOMAIN r : x \in IdRun(r[i])) <=> (\E j \in DOMAIN q \ {k} : x \in IdRun(q[j]))
  BY <1>1
<1>4. \A x : x \in I <=> \/ \E i \in DOMAIN q : x \in IdRun(q[i])
                         \/ \E b \in F : x \in AtRun(b)
  BY DEF IdsHold
<1>5. /\ \A j \in DOMAIN q \ {k} : \A x \in IdRun(q[j]) : x \notin IdRun(q[k])
      /\ \A b \in F : \A x \in AtRun(b) : x \notin IdRun(q[k])
  BY DEF IdsHold
<1>6. \A x : x \in J <=> \/ \E i \in DOMAIN r : x \in IdRun(r[i])
                         \/ \E b \in F : x \in AtRun(b)
  BY <1>2, <1>3, <1>4, <1>5
<1>7. /\ \A i, j \in DOMAIN r : i # j => IdRun(r[i]) \cap IdRun(r[j]) = {}
      /\ \A i \in DOMAIN r : \A b \in F : IdRun(r[i]) \cap AtRun(b) = {}
  BY <1>1 DEF IdsHold
<1>8. \A b, d \in F : b # d => AtRun(b) \cap AtRun(d) = {}
  BY DEF IdsHold
<1>9. IdsHold(J, r, F)
  BY <1>6, <1>7, <1>8 DEF IdsHold
<1> QED BY <1>9 DEF J, r

LEMMA IdsAttach ==
    ASSUME NEW I, NEW q, NEW F, IdsHold(I, q, F), NEW e, AtRun(e) \cap I = {}
    PROVE  IdsHold(I \cup AtRun(e), q, F \cup {e})
<1> DEFINE J == I \cup AtRun(e)
           G == F \cup {e}
<1>1. \A x : x \in J <=> x \in I \/ x \in AtRun(e)
  OBVIOUS
<1>2. \A b : b \in G <=> b \in F \/ b = e
  OBVIOUS
<1> HIDE DEF J, G
<1>3. \A x : x \in J <=> \/ \E i \in DOMAIN q : x \in IdRun(q[i])
                         \/ \E b \in G : x \in AtRun(b)
  BY <1>1, <1>2 DEF IdsHold
<1>4. /\ \A i \in DOMAIN q : IdRun(q[i]) \cap AtRun(e) = {}
      /\ \A b \in F : AtRun(b) \cap AtRun(e) = {}
  BY DEF IdsHold
<1>5. \A i, j \in DOMAIN q : i # j => IdRun(q[i]) \cap IdRun(q[j]) = {}
  BY DEF IdsHold
<1>6. \A i \in DOMAIN q : \A b \in G : IdRun(q[i]) \cap AtRun(b) = {}
  BY <1>2, <1>4 DEF IdsHold
<1>7. ASSUME NEW b \in G, NEW d \in G, b # d PROVE AtRun(b) \cap AtRun(d) = {}
  <2>1. CASE b \in F /\ d \in F
    BY <1>7, <2>1 DEF IdsHold
  <2>2. CASE b = e /\ d \in F
    BY <1>4, <2>2
  <2>3. CASE b \in F /\ d = e
    BY <1>4, <2>3
  <2> QED BY <1>2, <1>7, <2>1, <2>2, <2>3
<1>8. IdsHold(J, q, G)
  BY <1>3, <1>5, <1>6, <1>7 DEF IdsHold
<1> QED BY <1>8 DEF J, G

LEMMA IdsDetach ==
    ASSUME NEW I, NEW q, NEW F, IdsHold(I, q, F), NEW e \in F
    PROVE  IdsHold(I \ AtRun(e), q, F \ {e})
<1> DEFINE J == I \ AtRun(e)
           G == F \ {e}
<1>1. \A x : x \in J <=> x \in I /\ x \notin AtRun(e)
  OBVIOUS
<1>2. \A b : b \in G <=> b \in F /\ b # e
  OBVIOUS
<1> HIDE DEF J, G
<1>3. /\ \A i \in DOMAIN q : \A x \in IdRun(q[i]) : x \notin AtRun(e)
      /\ \A b \in G : \A x \in AtRun(b) : x \notin AtRun(e)
  BY <1>2 DEF IdsHold
<1>4. \A x : x \in J <=> \/ \E i \in DOMAIN q : x \in IdRun(q[i])
                         \/ \E b \in G : x \in AtRun(b)
  BY <1>1, <1>2, <1>3 DEF IdsHold
<1>5. IdsHold(J, q, G)
  BY <1>2, <1>4 DEF IdsHold
<1> QED BY <1>5 DEF J, G

LEMMA IdsSame ==
    ASSUME NEW I, NEW q, NEW F, IdsHold(I, q, F), NEW r, DOMAIN r = DOMAIN q,
           \A i \in DOMAIN q : r[i].id = q[i].id /\ r[i].size = q[i].size
    PROVE  IdsHold(I, r, F)
<1>1. \A i \in DOMAIN q : IdRun(r[i]) = IdRun(q[i])
  BY DEF IdRun
<1> QED BY <1>1 DEF IdsHold

----------------------------------------------------------------------------
(* The invariant in terms of lists, sets and bitmaps.                       *)

\* What those that have attached a segment find by its number.
LiveHold(q, A, same) ==
    \A b \in A : /\ Has(q, b.id)
                 /\ q[First(q, b.id)].phy = b.phy /\ q[First(q, b.id)].size = b.size
                 /\ same => (b.mine <=> q[First(q, b.id)].creator = b.task)

\* What is mapped has been attached.
SeenHold(A, W) == \A x \in W : \E b \in A : x[1] \in AtRun(b) /\ x[2] \in Run(b.phy, b.size)

LEMMA IdsForm ==
    ASSUME NEW I, NEW q, NEW F
    PROVE  (/\ I = UNION ({Run(q[i].id, q[i].size) : i \in DOMAIN q} \cup {Run(b.at, b.size) : b \in F})
            /\ \A i \in DOMAIN q :
                  /\ \A j \in DOMAIN q \ {i} : Run(q[i].id, q[i].size) \cap Run(q[j].id, q[j].size) = {}
                  /\ \A b \in F : Run(q[i].id, q[i].size) \cap Run(b.at, b.size) = {}
            /\ \A b, d \in F : b # d => Run(b.at, b.size) \cap Run(d.at, d.size) = {})
           <=> IdsHold(I, q, F)
<1> DEFINE U == UNION ({Run(q[i].id, q[i].size) : i \in DOMAIN q} \cup {Run(b.at, b.size) : b \in F})
<1>1. \A x : x \in U <=> \/ \E i \in DOMAIN q : x \in IdRun(q[i])
                         \/ \E b \in F : x \in AtRun(b)
  BY DEF IdRun, AtRun
<1> HIDE DEF U
<1>2. (I = U) <=> \A x : x \in I <=> \/ \E i \in DOMAIN q : x \in IdRun(q[i])
                                     \/ \E b \in F : x \in AtRun(b)
  BY <1>1
<1>3. (\A i \in DOMAIN q : \A j \in DOMAIN q \ {i} : IdRun(q[i]) \cap IdRun(q[j]) = {})
      <=> (\A i, j \in DOMAIN q : i # j => IdRun(q[i]) \cap IdRun(q[j]) = {})
  OBVIOUS
<1> QED BY <1>2, <1>3 DEF U, IdsHold, IdRun, AtRun

LEMMA InvParts ==
    ASSUME ShmInv
    PROVE  /\ ShmTypeOK /\ StackMapped
           /\ Defined => /\ PagesHold(mem.p, shms, StackPages, window)
                         /\ LiveHold(shms, attached, odd = {}) /\ SeenHold(attached, window)
           /\ odd = {} => IdsHold(shmids, shms, Foreign)
<1>1. ASSUME Defined PROVE PagesHold(mem.p, shms, StackPages, window)
  BY <1>1 DEF ShmInv, ShmExact, ShmPagesExact, PagesTaken, PagesHold, Held, HeldBy
<1>2. ASSUME Defined PROVE LiveHold(shms, attached, odd = {}) /\ SeenHold(attached, window)
  <2>1. AttachedLive
    BY DEF ShmInv
  <2> QED BY <1>2, <2>1 DEF AttachedLive, Numbered, Found, LiveHold, SeenHold, First, Has, AtRun
<1>3. ASSUME odd = {} PROVE IdsHold(shmids, shms, Foreign)
  <2>1. ShmIdsExact
    BY DEF ShmInv, ShmExact
  <2> QED BY <1>3, <2>1, IdsForm DEF ShmIdsExact
<1> QED BY <1>1, <1>2, <1>3 DEF ShmInv

LEMMA PartsInvNext ==
    ASSUME ShmTypeOK', StackMapped',
           Defined' => /\ PagesHold(mem'.p, shms', StackPages', window')
                       /\ LiveHold(shms', attached', odd' = {}) /\ SeenHold(attached', window'),
           odd' = {} => IdsHold(shmids', shms', Foreign')
    PROVE  ShmInv'
<1>1. ASSUME Defined' PROVE PagesHold(mem'.p, shms', StackPages', window')
  BY <1>1
<1>2. ShmPagesExact' /\ PagesTaken'
  BY <1>1 DEF ShmPagesExact, PagesTaken, PagesHold, Held, HeldBy
<1>3. AttachedLive'
  <2>1. ASSUME Defined' PROVE LiveHold(shms', attached', odd' = {}) /\ SeenHold(attached', window')
    BY <2>1
  <2> QED BY <2>1 DEF AttachedLive, Numbered, Found, LiveHold, SeenHold, First, Has, AtRun
<1>4. ShmIdsExact'
  BY IdsForm DEF ShmIdsExact
<1> QED BY <1>2, <1>3, <1>4 DEF ShmInv, ShmExact

LEMMA ShmInitially == ASSUME ShmInit PROVE ShmInv
<1>1. /\ mem = [p |-> Run(0, KPages), v |-> Run(0, KPages), pf |-> NPages - KPages, vf |-> NPages - KPages]
      /\ pt = {} /\ shms = <<>> /\ shmids = {} /\ window = {} /\ attached = {} /\ stack = None /\ odd = {}
  BY DEF ShmInit, MemInit
<1>2. KPages \in Nat /\ NPages \in Nat
  BY MemoryAssumption
<1>3. Run(0, KPages) \in SUBSET Nat
  BY <1>2, RunFacts
<1>4. ShmTypeOK
  BY <1>1, <1>2, <1>3 DEF ShmTypeOK
<1>5. DOMAIN shms = {} /\ StackPages = {} /\ Held = {} /\ Foreign = {}
  BY <1>1 DEF StackPages, Held, Foreign
<1>6. mem.p = Run(0, KPages)
  BY <1>1
<1>7. ShmPagesExact /\ PagesTaken
  BY <1>1, <1>5, <1>6 DEF ShmPagesExact, PagesTaken
<1>8. ShmIdsExact
  BY <1>1, <1>5 DEF ShmIdsExact
<1> QED BY <1>1, <1>4, <1>7, <1>8 DEF ShmInv, ShmExact, StackMapped, AttachedLive

----------------------------------------------------------------------------
(* Each operation keeps the invariant.                                      *)

LEMMA ShmTypes ==
    ASSUME ShmInv
    PROVE  /\ mem \in Bitmaps /\ shms \in Seq(Segment) /\ shmids \in SUBSET Nat
           /\ window \subseteq Nat \X Nat /\ attached \subseteq Attachment
           /\ stack \in {None} \cup 1 .. (NPages + 1)
BY DEF ShmInv, ShmTypeOK, Bitmaps

LEMMA TypesNext ==
    ASSUME mem' \in Bitmaps, shms' \in Seq(Segment), shmids' \in SUBSET Nat,
           window' \subseteq Nat \X Nat, attached' \subseteq Attachment,
           stack' \in {None} \cup 1 .. (NPages + 1)
    PROVE  ShmTypeOK'
BY DEF ShmTypeOK, Bitmaps

LEMMA SizeFacts ==
    ASSUME NEW n \in ShmSize
    PROVE  n \in Nat \ {0} /\ n \in Nat
BY ShmAssumption

LEMMA FreeIdsFacts ==
    ASSUME NEW n \in Nat, FreeIds(n) # None
    PROVE  FreeIds(n) \in Nat /\ Run(FreeIds(n), n) \cap shmids = {}
<1> DEFINE T == {s \in 1 .. (NShm - n) : Run(s, n) \cap shmids = {}}
<1>1. NShm \in Nat
  BY ShmAssumption
<1>2. T \in SUBSET Nat
  BY <1>1
<1>3. FreeIds(n) = (IF T = {} THEN None ELSE Min(T))
  BY DEF FreeIds
<1>4. T # {} /\ FreeIds(n) = Min(T)
  BY <1>3
<1>5. Min(T) \in T
  BY <1>2, <1>4, LowestIn
<1> QED BY <1>1, <1>4, <1>5

LEMMA PagesRefused ==
    ASSUME NEW p, NEW q, NEW S, NEW W, PagesHold(p, q, S, W),
           NEW r, p \subseteq r, \A x \in 0 .. NPages : x \in r <=> x \in p
    PROVE  PagesHold(r, q, S, W)
BY DEF PagesHold

LEMMA LiveAppend ==
    ASSUME NEW q \in Seq(Segment), NEW e \in Segment, NEW A, NEW same, LiveHold(q, A, same)
    PROVE  LiveHold(Append(q, e), A, same)
<1> DEFINE r == Append(q, e)
<1>1. ASSUME NEW b \in A PROVE Has(q, b.id) /\ Has(r, b.id) /\ r[First(r, b.id)] = q[First(q, b.id)]
  <2>1. Has(q, b.id)
    BY DEF LiveHold
  <2> QED BY <2>1, FirstAppend
<1> HIDE DEF r
<1>2. LiveHold(r, A, same)
  BY <1>1 DEF LiveHold
<1> QED BY <1>2 DEF r

\* A new segment.
LEMMA CreateKeeps ==
    ASSUME ShmInv, Defined, NEW t \in ShmTask, NEW x \in ShmName, NEW n \in ShmSize,
           NEW flags \in ShmFlags, _shm_create(t, x, n, flags)
    PROVE  ShmInv'
<1> DEFINE id == FreeIds(n)
           r == sw_phy_page_alloc(mem, n)
           q == sw_vir_addr_reserve(r.m, r.at, n)
           h == sw_vir_free_reserve(r.m, r.at, n)
           f == sw_phy_addr_free(h, r.at, n)
           e == [name |-> x, id |-> id, creator |-> t, flags |-> flags, size |-> n, phy |-> r.at]
<1>1. UNCHANGED <<pt, window, attached, stack, odd>> /\ id # None
  BY DEF _shm_create
<1>2. \/ /\ r.at # None /\ q.ok /\ mem' = q.m /\ shms' = Append(shms, e)
         /\ shmids' = shmids \cup Run(id, n)
      \/ /\ ~ (r.at # None /\ q.ok) /\ UNCHANGED <<shms, shmids>>
         /\ mem' = IF r.at = None THEN mem ELSE f
  BY DEF _shm_create
<1>3. n \in Nat /\ mem \in Bitmaps
  BY SizeFacts, ShmTypes
<1>4. id \in Nat /\ Run(id, n) \cap shmids = {}
  BY <1>1, <1>3, FreeIdsFacts
<1>5. Run(id, n) \subseteq Nat
  BY <1>3, <1>4, RunFacts
<1>6. /\ r.at # None => /\ r.at \in Nat /\ Run(r.at, n) \cap mem.p = {} /\ r.m \in Bitmaps
                        /\ r.m.p = mem.p \cup Run(r.at, n)
      /\ r.at # None /\ q.ok => /\ r.at \in 0 .. NPages /\ q.m \in Bitmaps
                                /\ q.m.p = mem.p \cup Run(r.at, n)
  BY <1>3, TakenFacts
<1>7. StackPages' = StackPages /\ Foreign' = Foreign /\ (Defined' <=> Defined) /\ StackMapped'
  BY <1>1 DEF StackPages, Foreign, Defined, ShmInv, StackMapped
<1>8. CASE r.at # None /\ q.ok
  <2>1. e \in Segment
    BY <1>4, <1>6, <1>8 DEF Segment
  <2>2. e.phy = r.at /\ e.size = n /\ e.id = id
    OBVIOUS
  <2>3. mem' = q.m /\ shms' = Append(shms, e) /\ shmids' = shmids \cup Run(id, n)
    BY <1>2, <1>8
  <2>4. q.m \in Bitmaps /\ q.m.p = mem.p \cup Run(r.at, n) /\ Run(r.at, n) \cap mem.p = {}
    BY <1>6, <1>8
  <2> HIDE DEF e, q, r, id
  <2>5. SegPages(e) = Run(r.at, n) /\ IdRun(e) = Run(id, n)
    BY <2>2 DEF SegPages, IdRun
  <2>6. mem' \in Bitmaps /\ shms' \in Seq(Segment) /\ shmids' \in SUBSET Nat
    BY <1>5, <2>1, <2>3, <2>4, ShmTypes
  <2>7. ShmTypeOK'
    <3>1. /\ window' \subseteq Nat \X Nat /\ attached' \subseteq Attachment
          /\ stack' \in {None} \cup 1 .. (NPages + 1)
      BY <1>1, ShmTypes
    <3> QED BY <2>6, <3>1, TypesNext
  <2>8. PagesHold(mem'.p, shms', StackPages', window')
    <3>1. PagesHold(mem.p, shms, StackPages, window)
      BY InvParts
    <3>2. PagesHold(mem.p \cup SegPages(e), Append(shms, e), StackPages, window)
      BY <2>1, <2>4, <2>5, <3>1, ShmTypes, PagesAppend
    <3> QED BY <1>1, <1>7, <2>3, <2>4, <2>5, <3>2
  <2>9. LiveHold(shms', attached', odd' = {}) /\ SeenHold(attached', window')
    <3>1. LiveHold(shms, attached, odd = {}) /\ SeenHold(attached, window)
      BY InvParts
    <3>2. LiveHold(Append(shms, e), attached, odd = {})
      BY <2>1, <3>1, ShmTypes, LiveAppend
    <3> QED BY <1>1, <2>3, <3>1, <3>2
  <2>10. ASSUME odd' = {} PROVE IdsHold(shmids', shms', Foreign')
    <3>1. IdsHold(shmids, shms, Foreign)
      BY <1>1, <2>10, InvParts
    <3>2. IdsHold(shmids \cup IdRun(e), Append(shms, e), Foreign)
      BY <1>4, <2>1, <2>5, <3>1, ShmTypes, IdsAppend
    <3> QED BY <1>7, <2>3, <2>5, <3>2
  <2> QED BY <1>7, <2>7, <2>8, <2>9, <2>10, PartsInvNext
<1>9. CASE ~ (r.at # None /\ q.ok)
  <2>1. UNCHANGED <<shms, shmids>> /\ mem' = IF r.at = None THEN mem ELSE f
    BY <1>2, <1>9
  <2>2. /\ mem' \in Bitmaps /\ mem.p \subseteq mem'.p
        /\ \A y \in 0 .. NPages : y \in mem'.p <=> y \in mem.p
    <3> HIDE DEF q, r
    <3>1. CASE r.at = None
      BY <1>3, <2>1, <3>1
    <3>2. CASE r.at # None
      <4>1. h \in Bitmaps /\ h.p = mem.p \cup Run(r.at, n)
        BY <1>3, <1>6, <3>2, VirFreeFacts
      <4> HIDE DEF h
      <4>2. f \in Bitmaps
        BY <1>3, <4>1, PhyFreeFacts
      <4>3. /\ mem.p \subseteq f.p
            /\ \A y \in 0 .. NPages : y \in f.p <=> y \in mem.p
        BY <1>3, <1>6, <3>2, <4>1, RefusedFacts
      <4> HIDE DEF f
      <4> QED BY <2>1, <3>2, <4>2, <4>3
    <3> QED BY <3>1, <3>2
  <2>3. ShmTypeOK'
    BY <1>1, <2>1, <2>2, ShmTypes, TypesNext
  <2>4. PagesHold(mem'.p, shms', StackPages', window')
    <3>1. PagesHold(mem.p, shms, StackPages, window)
      BY InvParts
    <3>2. PagesHold(mem'.p, shms, StackPages, window)
      BY <2>2, <3>1, PagesRefused
    <3> QED BY <1>1, <1>7, <2>1, <3>2
  <2>5. LiveHold(shms', attached', odd' = {}) /\ SeenHold(attached', window')
    BY <1>1, <2>1, InvParts
  <2>6. odd' = {} => IdsHold(shmids', shms', Foreign')
    BY <1>1, <1>7, <2>1, InvParts
  <2> QED BY <1>7, <2>3, <2>4, <2>5, <2>6, PartsInvNext
<1> QED BY <1>8, <1>9

\* The error paths of a creation end what is followed.
LEMMA CreateFailsKeeps ==
    ASSUME ShmInv, Defined, NEW x \in ShmName, NEW n \in ShmSize, NEW flags \in ShmFlags,
           _shm_create_fails(x, n, flags)
    PROVE  ShmInv'
<1> DEFINE g == shms[Len(shms)]
           h == sw_vir_free_reserve(mem, g.phy, n)
           f == sw_phy_addr_free(h, g.phy, n)
<1>1. UNCHANGED <<pt, shms, shmids, window, attached, stack>>
  BY DEF _shm_create_fails
<1>2. ~ Defined' /\ odd' # {}
  BY DEF _shm_create_fails, Defined
<1>3. mem' = mem \/ mem' = f
  BY DEF _shm_create_fails
<1>4. n \in Nat /\ mem \in Bitmaps
  BY SizeFacts, ShmTypes
<1> HIDE DEF g
<1>5. f \in Bitmaps
  <2>1. h \in Bitmaps
    BY <1>4, VirFreeFacts
  <2> HIDE DEF h
  <2> QED BY <1>4, <2>1, PhyFreeFacts
<1> HIDE DEF f
<1>6. ShmTypeOK'
  BY <1>1, <1>3, <1>4, <1>5, ShmTypes, TypesNext
<1>7. StackMapped'
  BY <1>1 DEF ShmInv, StackMapped
<1> QED BY <1>2, <1>6, <1>7, PartsInvNext

\* The list after another word of a segment was set.
LEMMA FirstSame ==
    ASSUME NEW q, NEW r, DOMAIN r = DOMAIN q, \A i \in DOMAIN q : r[i].id = q[i].id, NEW id
    PROVE  (Has(r, id) <=> Has(q, id)) /\ First(r, id) = First(q, id)
<1>1. {i \in DOMAIN r : r[i].id = id} = {i \in DOMAIN q : q[i].id = id}
  OBVIOUS
<1> QED BY <1>1 DEF Has, First

\* The first segment of a number that some segment has.
LEMMA FoundFacts ==
    ASSUME ShmInv, NEW id, Numbered(id) # {}
    PROVE  Found(id) \in DOMAIN shms /\ Found(id) = First(shms, id) /\ Has(shms, id)
<1>1. Has(shms, id) /\ Found(id) = First(shms, id)
  BY DEF Has, First, Found, Numbered
<1> QED BY <1>1, ShmTypes, FirstFacts

\* Any segment is destroyed.
LEMMA DestroyKeeps ==
    ASSUME ShmInv, Defined, NEW t \in ShmTask, NEW id, _shm_destroy(t, id)
    PROVE  ShmInv'
<1> DEFINE k == Found(id)
           g == shms[k]
           f == sw_phy_addr_free(mem, g.phy, g.size)
<1>1. /\ Numbered(id) # {} /\ shms' = RemoveAt(shms, k) /\ mem' = f
      /\ shmids' = shmids \ Run(id, g.size)
      /\ odd' = odd \cup (IF \E b \in attached : b.phy = g.phy THEN {"destroyed early"} ELSE {})
      /\ UNCHANGED <<pt, window, attached, stack>>
  BY DEF _shm_destroy
<1>2. k \in DOMAIN shms /\ k = First(shms, id) /\ Has(shms, id) /\ g.id = id
  BY <1>1, ShmTypes, FoundFacts, FirstFacts
<1>3. g.size \in Nat /\ g.phy \in 0 .. NPages /\ mem \in Bitmaps
  BY <1>2, ShmTypes, SegmentFields
<1> HIDE DEF k
<1>4. SegPages(g) = Run(g.phy, g.size) /\ IdRun(g) = Run(id, g.size)
  BY <1>2 DEF SegPages, IdRun
<1> HIDE DEF g
<1>5. f \in Bitmaps /\ f.p = mem.p \ SegPages(g)
  <2> DEFINE a == g.phy
             n == g.size
  <2>1. a \in 0 .. NPages /\ n \in Nat
    BY <1>3
  <2> HIDE DEF a, n
  <2>2. LET y == sw_phy_addr_free(mem, a, n) IN y \in Bitmaps /\ y.p = mem.p \ Run(a, n)
    BY <1>3, <2>1, PhyFreeFacts
  <2> QED BY <1>4, <2>2 DEF a, n
<1> HIDE DEF f
<1>6. ShmTypeOK'
  <2>1. shms' \in Seq(Segment)
    BY <1>1, <1>2, ShmTypes, Unlinked
  <2> QED BY <1>1, <1>5, <2>1, ShmTypes, TypesNext
<1>7. StackMapped' /\ StackPages' = StackPages /\ Foreign' = Foreign
  BY <1>1 DEF ShmInv, StackMapped, StackPages, Foreign
<1>8. CASE \E b \in attached : b.phy = g.phy
  <2>1. ~ Defined' /\ odd' # {}
    BY <1>1, <1>8 DEF Defined
  <2> QED BY <1>6, <1>7, <2>1, PartsInvNext
<1>9. CASE ~ \E b \in attached : b.phy = g.phy
  <2>1. odd' = odd
    BY <1>1, <1>9
  <2>2. PagesHold(mem.p, shms, StackPages, window) /\ LiveHold(shms, attached, odd = {})
        /\ SeenHold(attached, window)
    BY InvParts
  <2>3. ASSUME NEW b \in attached
        PROVE  /\ Has(shms, b.id) /\ First(shms, b.id) \in DOMAIN shms \ {k}
               /\ shms[First(shms, b.id)].phy = b.phy /\ shms[First(shms, b.id)].size = b.size
    <3>1. Has(shms, b.id) /\ shms[First(shms, b.id)].phy = b.phy /\ shms[First(shms, b.id)].size = b.size
      BY <2>2 DEF LiveHold
    <3>2. First(shms, b.id) \in DOMAIN shms
      BY <3>1, ShmTypes, FirstFacts
    <3>3. First(shms, b.id) # k
      BY <1>9, <3>1 DEF g
    <3> QED BY <3>1, <3>2, <3>3
  <2>4. ASSUME NEW y \in window PROVE y[2] \notin SegPages(g)
    <3>1. PICK b \in attached : y[2] \in Run(b.phy, b.size)
      BY <2>2 DEF SeenHold
    <3> DEFINE j == First(shms, b.id)
    <3>2. j \in DOMAIN shms \ {k} /\ SegPages(shms[j]) = Run(b.phy, b.size)
      BY <2>3 DEF SegPages
    <3> HIDE DEF j
    <3>3. SegPages(shms[j]) \cap SegPages(shms[k]) = {}
      BY <1>2, <2>2, <3>2 DEF PagesHold
    <3> QED BY <3>1, <3>2, <3>3 DEF g
  <2>5. PagesHold(mem'.p, shms', StackPages', window')
    <3>1. PagesHold(mem.p \ SegPages(shms[k]), RemoveAt(shms, k), StackPages, window)
      <4>1. \A y \in window : y[2] \notin SegPages(shms[k])
        BY <2>4 DEF g
      <4> QED BY <1>2, <2>2, <4>1, ShmTypes, PagesRemove
    <3> QED BY <1>1, <1>5, <1>7, <3>1 DEF g
  <2>6. LiveHold(shms', attached', odd' = {})
    <3> DEFINE r == RemoveAt(shms, k)
    <3>1. ASSUME NEW b \in attached PROVE Has(r, b.id) /\ r[First(r, b.id)] = shms[First(shms, b.id)]
      <4>1. Has(shms, b.id) /\ First(shms, b.id) # k
        BY <2>3
      <4> QED BY <1>2, <4>1, ShmTypes, FirstRemove
    <3> HIDE DEF r
    <3>2. LiveHold(r, attached, odd = {})
      BY <2>2, <3>1 DEF LiveHold
    <3> QED BY <1>1, <2>1, <3>2 DEF r
  <2>7. SeenHold(attached', window')
    BY <1>1, <2>2
  <2>8. ASSUME odd' = {} PROVE IdsHold(shmids', shms', Foreign')
    <3>1. IdsHold(shmids, shms, Foreign)
      BY <2>1, <2>8, InvParts
    <3>2. IdsHold(shmids \ IdRun(shms[k]), RemoveAt(shms, k), Foreign)
      BY <1>2, <3>1, ShmTypes, IdsRemove
    <3> QED BY <1>1, <1>4, <1>7, <3>2 DEF g
  <2> QED BY <1>6, <1>7, <2>5, <2>6, <2>7, <2>8, PartsInvNext
<1> QED BY <1>8, <1>9

LEMMA SegmentSet ==
    ASSUME NEW q \in Seq(Segment), NEW k \in DOMAIN q, NEW g \in Segment
    PROVE  LET r == [q EXCEPT ![k] = g]
           IN  /\ r \in Seq(Segment) /\ DOMAIN r = DOMAIN q /\ r[k] = g
               /\ \A i \in DOMAIN q \ {k} : r[i] = q[i]
OBVIOUS

\* Nothing but the creator or the flags of a segment is written.
LEMMA ListKept ==
    ASSUME ShmInv, Defined, UNCHANGED <<mem, pt, shmids, window, attached, stack>>,
           NEW k \in DOMAIN shms, NEW g \in Segment, shms' = [shms EXCEPT ![k] = g],
           g.id = shms[k].id, g.size = shms[k].size, g.phy = shms[k].phy,
           Defined' <=> Defined,
           odd' # {} \/ (odd' = odd /\ g.creator = shms[k].creator)
    PROVE  ShmInv'
<1>1. /\ shms' \in Seq(Segment) /\ DOMAIN shms' = DOMAIN shms /\ shms'[k] = g
      /\ \A i \in DOMAIN shms \ {k} : shms'[i] = shms[i]
  BY ShmTypes, SegmentSet
<1>2. \A i \in DOMAIN shms : shms'[i].id = shms[i].id /\ shms'[i].size = shms[i].size
                             /\ shms'[i].phy = shms[i].phy
  BY <1>1
<1>3. ShmTypeOK'
  BY <1>1, ShmTypes, TypesNext
<1>4. StackMapped' /\ StackPages' = StackPages /\ Foreign' = Foreign
  BY DEF ShmInv, StackMapped, StackPages, Foreign
<1>5. PagesHold(mem.p, shms, StackPages, window) /\ LiveHold(shms, attached, odd = {})
      /\ SeenHold(attached, window)
  BY InvParts
<1>6. PagesHold(mem'.p, shms', StackPages', window')
  <2>1. DOMAIN shms' = DOMAIN shms
        /\ \A i \in DOMAIN shms : shms'[i].phy = shms[i].phy /\ shms'[i].size = shms[i].size
    BY <1>1, <1>2
  <2>2. HeldBy(shms') = HeldBy(shms) /\ \A i \in DOMAIN shms : SegPages(shms'[i]) = SegPages(shms[i])
    BY ZenonT(40), <2>1, HeldSame
  <2> QED BY <1>1, <1>4, <1>5, <2>2 DEF PagesHold
<1>7. LiveHold(shms', attached', odd' = {})
  <2>1. ASSUME NEW b \in attached
        PROVE  /\ Has(shms', b.id) /\ First(shms', b.id) = First(shms, b.id)
               /\ First(shms, b.id) \in DOMAIN shms /\ Has(shms, b.id)
    <3>1. Has(shms, b.id)
      BY <1>5 DEF LiveHold
    <3>2. DOMAIN shms' = DOMAIN shms /\ \A i \in DOMAIN shms : shms'[i].id = shms[i].id
      BY <1>1, <1>2
    <3>3. (Has(shms', b.id) <=> Has(shms, b.id)) /\ First(shms', b.id) = First(shms, b.id)
      BY <3>2, FirstSame, Zenon
    <3>4. First(shms, b.id) \in DOMAIN shms
      BY <3>1, ShmTypes, FirstFacts
    <3> QED BY <3>1, <3>3, <3>4
  <2>2. ASSUME odd' = {} PROVE odd = {} /\ \A i \in DOMAIN shms : shms'[i].creator = shms[i].creator
    BY <1>1, <2>2
  <2>3. ASSUME NEW b \in attached
        PROVE  /\ Has(shms', b.id) /\ shms'[First(shms', b.id)].phy = b.phy
               /\ shms'[First(shms', b.id)].size = b.size
               /\ odd' = {} => (b.mine <=> shms'[First(shms', b.id)].creator = b.task)
    <3> DEFINE j == First(shms, b.id)
    <3>1. /\ Has(shms', b.id) /\ First(shms', b.id) = j /\ j \in DOMAIN shms
          /\ shms'[j].phy = shms[j].phy /\ shms'[j].size = shms[j].size
          /\ odd' = {} => odd = {} /\ shms'[j].creator = shms[j].creator
      BY <1>2, <2>1, <2>2
    <3>2. /\ shms[j].phy = b.phy /\ shms[j].size = b.size
          /\ odd = {} => (b.mine <=> shms[j].creator = b.task)
      BY <1>5 DEF LiveHold
    <3> HIDE DEF j
    <3>3. Has(shms', b.id) /\ shms'[First(shms', b.id)].phy = b.phy
          /\ shms'[First(shms', b.id)].size = b.size
      BY <3>1, <3>2
    <3>4. ASSUME odd' = {} PROVE b.mine <=> shms'[First(shms', b.id)].creator = b.task
      <4>1. shms'[First(shms', b.id)].creator = shms[j].creator /\ odd = {}
        BY <3>1, <3>4
      <4>2. b.mine <=> shms[j].creator = b.task
        BY <3>2, <4>1, Zenon
      <4> QED BY <4>1, <4>2, Zenon
    <3> QED BY <3>3, <3>4, Zenon
  <2> QED BY <2>3 DEF LiveHold
<1>8. ASSUME odd' = {} PROVE IdsHold(shmids', shms', Foreign')
  <2>1. IdsHold(shmids, shms, Foreign)
    BY <1>8, InvParts
  <2>2. IdsHold(shmids, shms', Foreign)
    BY <1>1, <1>2, <2>1, IdsSame
  <2> QED BY <1>4, <2>2
<1> QED BY <1>3, <1>4, <1>5, <1>6, <1>7, <1>8, PartsInvNext

\* A segment changes hands, or its flags are changed.
LEMMA ControlKeeps ==
    ASSUME ShmInv, Defined, NEW t \in ShmTask, NEW id, _shm_control(t, id)
    PROVE  ShmInv'
<1> DEFINE k == Found(id)
           s == shms[k]
<1>1. Numbered(id) # {} /\ UNCHANGED <<mem, pt, shmids, window, attached, stack>>
  BY DEF _shm_control
<1>2. k \in DOMAIN shms
  BY <1>1, ShmTypes, FoundFacts
<1>3. s \in Segment
  BY <1>2, SegmentFields, ShmTypes
<1>4. \/ /\ \E u \in ShmTask : shms' = [shms EXCEPT ![k] = [s EXCEPT !.creator = u]]
         /\ odd' = odd \cup {"creator changed"}
      \/ /\ \E f \in ShmFlags : shms' = [shms EXCEPT ![k] = [s EXCEPT !.flags = f]]
         /\ odd' = odd
  BY DEF _shm_control
<1> HIDE DEF k
<1>5. ASSUME NEW u \in ShmTask, shms' = [shms EXCEPT ![k] = [s EXCEPT !.creator = u]],
             odd' = odd \cup {"creator changed"}
      PROVE  ShmInv'
  <2> DEFINE g == [s EXCEPT !.creator = u]
  <2>1. g \in Segment /\ g.id = s.id /\ g.size = s.size /\ g.phy = s.phy
    BY <1>3 DEF Segment
  <2>2. (Defined' <=> Defined) /\ odd' # {}
    BY <1>5 DEF Defined
  <2> HIDE DEF g
  <2> QED BY <1>1, <1>2, <1>5, <2>1, <2>2, ListKept DEF g
<1>6. ASSUME NEW f \in ShmFlags, shms' = [shms EXCEPT ![k] = [s EXCEPT !.flags = f]], odd' = odd
      PROVE  ShmInv'
  <2> DEFINE g == [s EXCEPT !.flags = f]
  <2>1. g \in Segment /\ g.id = s.id /\ g.size = s.size /\ g.phy = s.phy /\ g.creator = s.creator
    BY <1>3, <1>6 DEF Segment
  <2>2. Defined' <=> Defined
    BY <1>6 DEF Defined
  <2> HIDE DEF g
  <2> QED BY <1>1, <1>2, <1>6, <2>1, <2>2, ListKept DEF g
<1> QED BY <1>4, <1>5, <1>6

LEMMA MappedFacts ==
    ASSUME NEW t, NEW v \in Nat, NEW p \in Nat, NEW n \in Nat, NEW x \in map_user_memory(t, v, p, n)
    PROVE  x \in t \/ (x[1] \in Run(v, n) /\ x[2] \in Run(p, n) /\ x \in Nat \X Nat)
<1>1. CASE x \in t
  BY <1>1
<1>2. CASE \E i \in 0 .. (n - 1) : x = <<v + i, p + i>>
  <2>1. PICK i \in 0 .. (n - 1) : x = <<v + i, p + i>>
    BY <1>2
  <2>2. v + i \in Run(v, n) /\ p + i \in Run(p, n) /\ v + i \in Nat /\ p + i \in Nat
    BY <2>1 DEF Run
  <2> QED BY <2>1, <2>2
<1> QED BY <1>1, <1>2 DEF map_user_memory, Mapped

LEMMA PagesSeen ==
    ASSUME NEW p, NEW q, NEW S, NEW W, PagesHold(p, q, S, W),
           NEW V, \A x \in V : x[2] \in HeldBy(q)
    PROVE  PagesHold(p, q, S, V)
BY DEF PagesHold

LEMMA AttachKeeps ==
    ASSUME ShmInv, Defined, NEW t \in ShmTask, NEW id \in Nat, NEW flag, _shm_attach(t, id, flag)
    PROVE  ShmInv'
<1> DEFINE k == Found(id)
           g == shms[k]
           at == At(t, g)
           mine == t = g.creator
           e == [task |-> t, id |-> id, at |-> at, mine |-> mine, size |-> g.size, phy |-> g.phy]
<1>1. /\ Numbered(id) # {} /\ at # None /\ UNCHANGED <<mem, pt, shms, stack>>
      /\ shmids' = IF mine THEN shmids ELSE shmids \cup Run(at, g.size)
      /\ \/ /\ odd' = IF mine THEN odd ELSE odd \cup {"identifiers lost"}
            /\ UNCHANGED <<window, attached>>
         \/ /\ window' = map_user_memory(window, at, g.phy, g.size)
            /\ attached' = attached \cup {e} /\ odd' = odd
  BY DEF _shm_attach
<1>2. k \in DOMAIN shms /\ k = First(shms, id) /\ Has(shms, id)
  BY <1>1, ShmTypes, FoundFacts
<1>3. /\ g.size \in Nat /\ g.size \in ShmSize /\ g.phy \in 0 .. NPages /\ g.phy \in Nat
  BY <1>2, ShmTypes, SegmentFields
<1> HIDE DEF k, g
<1>4. /\ at \in Nat /\ Run(at, g.size) \subseteq Nat
      /\ ~ mine => Run(at, g.size) \cap shmids = {}
  <2>1. CASE mine
    BY <1>3, <2>1, RunFacts DEF At
  <2>2. CASE ~ mine
    <3>1. at = FreeIds(g.size)
      BY <2>2 DEF At
    <3> QED BY <1>1, <1>3, <3>1, FreeIdsFacts, RunFacts
  <2> QED BY <2>1, <2>2
<1>5. StackMapped' /\ StackPages' = StackPages
  BY <1>1 DEF ShmInv, StackMapped, StackPages
<1> HIDE DEF at
<1>6. shmids' \in SUBSET Nat
  BY <1>1, <1>4, ShmTypes
<1>7. PagesHold(mem.p, shms, StackPages, window) /\ LiveHold(shms, attached, odd = {})
      /\ SeenHold(attached, window)
  BY InvParts
<1>8. CASE /\ odd' = IF mine THEN odd ELSE odd \cup {"identifiers lost"}
           /\ UNCHANGED <<window, attached>>
  <2>1. ShmTypeOK'
    BY <1>1, <1>6, <1>8, ShmTypes, TypesNext
  <2>2. odd' = {} => odd = {} /\ mine
    BY <1>8
  <2>3. PagesHold(mem'.p, shms', StackPages', window')
    BY <1>1, <1>5, <1>7, <1>8
  <2>4. LiveHold(shms', attached', odd' = {}) /\ SeenHold(attached', window')
    <3>1. LiveHold(shms, attached, odd' = {})
      BY <1>7, <2>2 DEF LiveHold
    <3> QED BY <1>1, <1>7, <1>8, <3>1
  <2>5. ASSUME odd' = {} PROVE IdsHold(shmids', shms', Foreign')
    <3>1. IdsHold(shmids, shms, Foreign)
      BY <2>2, <2>5, InvParts
    <3>2. shmids' = shmids /\ Foreign' = Foreign
      BY <1>1, <1>8, <2>2, <2>5 DEF Foreign
    <3> QED BY <1>1, <3>1, <3>2
  <2> QED BY <1>5, <2>1, <2>3, <2>4, <2>5, PartsInvNext
<1>9. CASE /\ window' = map_user_memory(window, at, g.phy, g.size)
           /\ attached' = attached \cup {e} /\ odd' = odd
  <2>1. /\ e \in Attachment /\ e.id = id /\ e.at = at /\ e.size = g.size /\ e.phy = g.phy
        /\ e.task = t
    <3>1. mine \in BOOLEAN
      OBVIOUS
    <3> HIDE DEF mine
    <3> QED BY <1>3, <1>4, <3>1 DEF Attachment
  <2>2. e.mine <=> t = g.creator
    BY Zenon
  <2> HIDE DEF e
  <2>3. ASSUME NEW x \in window'
        PROVE  \/ x \in window
               \/ x[1] \in AtRun(e) /\ x[2] \in Run(e.phy, e.size) /\ x[2] \in SegPages(g) /\ x \in Nat \X Nat
    <3>1. x \in window \/ (x[1] \in Run(at, g.size) /\ x[2] \in Run(g.phy, g.size) /\ x \in Nat \X Nat)
      BY <1>3, <1>4, <1>9, MappedFacts
    <3> QED BY <2>1, <3>1 DEF AtRun, SegPages
  <2>4. ShmTypeOK'
    <3>1. window' \subseteq Nat \X Nat
      BY <2>3, ShmTypes
    <3>2. attached' \subseteq Attachment
      BY <1>9, <2>1, ShmTypes
    <3> QED BY <1>1, <1>6, <3>1, <3>2, ShmTypes, TypesNext
  <2>5. PagesHold(mem'.p, shms', StackPages', window')
    <3>1. \A x \in window : x[2] \in HeldBy(shms)
      BY <1>7 DEF PagesHold
    <3>2. SegPages(g) \subseteq HeldBy(shms)
      BY <1>2, HeldPages DEF g
    <3>3. \A x \in window' : x[2] \in HeldBy(shms)
      BY <2>3, <3>1, <3>2
    <3>4. PagesHold(mem.p, shms, StackPages, window')
      BY <1>7, <3>3, PagesSeen
    <3> QED BY <1>1, <1>5, <3>4
  <2>6. LiveHold(shms', attached', odd' = {})
    <3>1. Has(shms, e.id) /\ shms[First(shms, e.id)] = g
      BY <1>2, <2>1 DEF g
    <3>2. odd = {} => (e.mine <=> shms[First(shms, e.id)].creator = e.task)
      BY <2>1, <2>2, <3>1, Zenon
    <3>3. LiveHold(shms, attached \cup {e}, odd = {})
      BY <1>7, <2>1, <3>1, <3>2 DEF LiveHold
    <3> QED BY <1>1, <1>9, <3>3
  <2>7. SeenHold(attached', window')
    <3>1. \A x \in window : \E b \in attached : x[1] \in AtRun(b) /\ x[2] \in Run(b.phy, b.size)
      BY <1>7 DEF SeenHold
    <3> QED BY <1>9, <2>3, <3>1 DEF SeenHold
  <2>8. ASSUME odd' = {} PROVE IdsHold(shmids', shms', Foreign')
    <3>1. IdsHold(shmids, shms, Foreign)
      BY <1>9, <2>8, InvParts
    <3>2. CASE mine
      <4>1. shmids' = shmids
        BY <1>1, <3>2
      <4>2. e.mine
        BY <2>2, <3>2, Zenon
      <4>3. Foreign' = Foreign
        BY <1>9, <4>2 DEF Foreign
      <4> QED BY <1>1, <3>1, <4>1, <4>3
    <3>3. CASE ~ mine
      <4>1. shmids' = shmids \cup AtRun(e)
        BY <1>1, <2>1, <3>3 DEF AtRun
      <4>2. ~ e.mine
        BY <2>2, <3>3, Zenon
      <4>3. Foreign' = Foreign \cup {e}
        BY <1>9, <4>2 DEF Foreign
      <4>4. AtRun(e) \cap shmids = {}
        BY <1>4, <2>1, <3>3 DEF AtRun
      <4>5. IdsHold(shmids \cup AtRun(e), shms, Foreign \cup {e})
        BY <3>1, <4>4, IdsAttach
      <4> QED BY <1>1, <4>1, <4>3, <4>5
    <3> QED BY <3>2, <3>3
  <2> QED BY <1>5, <2>4, <2>5, <2>6, <2>7, <2>8, PartsInvNext
<1> QED BY <1>1, <1>8, <1>9

LEMMA AttachNoneKeeps ==
    ASSUME ShmInv, Defined, NEW id, _shm_attach_none(id)
    PROVE  ShmInv'
<1>1. UNCHANGED <<mem, pt, shms, shmids, window, attached, stack>>
  BY DEF _shm_attach_none
<1>2. ~ Defined' /\ odd' # {}
  BY DEF _shm_attach_none, Defined
<1>3. ShmTypeOK' /\ StackMapped'
  BY <1>1 DEF ShmInv, ShmTypeOK, StackMapped
<1> QED BY <1>2, <1>3, PartsInvNext

\* An attachment is given back.
LEMMA DetachKeeps ==
    ASSUME ShmInv, Defined, NEW e, _shm_detach(e)
    PROVE  ShmInv'
<1> DEFINE k == First(shms, e.id)
           g == shms[k]
<1>1. e \in attached /\ attached' = attached \ {e} /\ UNCHANGED <<mem, pt, shms, stack, odd>>
  BY DEF _shm_detach
<1>2. PagesHold(mem.p, shms, StackPages, window) /\ LiveHold(shms, attached, odd = {})
      /\ SeenHold(attached, window)
  BY InvParts
<1>3. /\ Has(shms, e.id) /\ g.size = e.size
      /\ odd = {} => (e.mine <=> g.creator = e.task)
  BY <1>1, <1>2 DEF LiveHold
<1>4. Numbered(e.id) # {} /\ Found(e.id) = k
  BY <1>3 DEF Has, First, Numbered, Found
<1> HIDE DEF k, g
<1>5. /\ shmids' = IF g.creator = e.task THEN shmids ELSE shmids \ AtRun(e)
      /\ window' = {x \in window : x[1] \notin AtRun(e)}
  BY <1>3, <1>4 DEF _shm_detach, unmap_user_memory, Unmapped, AtRun, g
<1>6. ShmTypeOK'
  BY <1>1, <1>5, ShmTypes, TypesNext
<1>7. StackMapped' /\ StackPages' = StackPages
  BY <1>1 DEF ShmInv, StackMapped, StackPages
<1>8. PagesHold(mem'.p, shms', StackPages', window')
  <2>1. \A x \in window' : x[2] \in HeldBy(shms)
    BY <1>2, <1>5 DEF PagesHold
  <2>2. PagesHold(mem.p, shms, StackPages, window')
    BY <1>2, <2>1, PagesSeen
  <2> QED BY <1>1, <1>7, <2>2
<1>9. LiveHold(shms', attached', odd' = {})
  <2>1. LiveHold(shms, attached \ {e}, odd = {})
    BY <1>2 DEF LiveHold
  <2> QED BY <1>1, <2>1
<1>10. SeenHold(attached', window')
  BY <1>1, <1>2, <1>5 DEF SeenHold
<1>11. ASSUME odd' = {} PROVE IdsHold(shmids', shms', Foreign')
  <2>1. IdsHold(shmids, shms, Foreign) /\ (e.mine <=> g.creator = e.task)
    BY <1>1, <1>3, <1>11, InvParts, Zenon
  <2>2. CASE g.creator = e.task
    <3>1. e.mine
      BY <2>1, <2>2, Zenon
    <3>2. Foreign' = Foreign /\ shmids' = shmids
      BY <1>1, <1>5, <2>2, <3>1 DEF Foreign
    <3> QED BY <1>1, <2>1, <3>2
  <2>3. CASE g.creator # e.task
    <3>1. ~ e.mine
      BY <2>1, <2>3, Zenon
    <3>2. Foreign' = Foreign \ {e} /\ e \in Foreign /\ shmids' = shmids \ AtRun(e)
      BY <1>1, <1>5, <2>3, <3>1 DEF Foreign
    <3>3. IdsHold(shmids \ AtRun(e), shms, Foreign \ {e})
      BY <2>1, <3>2, IdsDetach
    <3> QED BY <1>1, <3>2, <3>3
  <2> QED BY <2>2, <2>3
<1> QED BY <1>6, <1>7, <1>8, <1>9, <1>10, <1>11, PartsInvNext

\* A kernel stack is taken, or refused, and given back.
LEMMA StackKeeps ==
    ASSUME ShmInv, Defined, TakeStack \/ GiveStack
    PROVE  ShmInv'
<1>1. UNCHANGED <<shms, shmids, window, attached, odd>>
  BY DEF TakeStack, GiveStack
<1>2. mem \in Bitmaps /\ PagesHold(mem.p, shms, StackPages, window)
  BY ShmTypes, InvParts
<1>3. LiveHold(shms', attached', odd' = {}) /\ SeenHold(attached', window')
      /\ (odd' = {} => IdsHold(shmids', shms', Foreign'))
  <2>1. Foreign' = Foreign
    BY <1>1 DEF Foreign
  <2> QED BY <1>1, <2>1, InvParts
<1>4. SUFFICES mem' \in Bitmaps /\ stack' \in {None} \cup 1 .. (NPages + 1) /\ StackMapped'
               /\ PagesHold(mem'.p, shms', StackPages', window')
  <2> SUFFICES ASSUME mem' \in Bitmaps, stack' \in {None} \cup 1 .. (NPages + 1), StackMapped',
                      PagesHold(mem'.p, shms', StackPages', window')
               PROVE  ShmInv'
    OBVIOUS
  <2>1. ShmTypeOK'
    BY <1>1, ShmTypes, TypesNext
  <2> QED BY <1>3, <2>1, PartsInvNext
<1>5. CASE TakeStack
  <2> DEFINE r == alloc_kernel_stack(mem, pt)
  <2>1. stack = None /\ mem' = r.m /\ pt' = r.t /\ stack' = r.at
    BY <1>5 DEF TakeStack
  <2>2. pt = {} /\ StackPages = {}
    BY <2>1 DEF ShmInv, StackMapped, StackPages
  <2>3. /\ r.m \in Bitmaps
        /\ \/ /\ r.at = None /\ r.t = pt /\ mem.p \subseteq r.m.p
              /\ \A x \in 0 .. NPages : x \in r.m.p <=> x \in mem.p
           \/ /\ r.at # None /\ r.at \in 1 .. (NPages + 1)
              /\ Run(r.at - 1, SpPages + 1) \cap mem.p = {}
              /\ r.m.p = mem.p \cup Run(r.at - 1, SpPages + 1)
              /\ r.t = Mapped(pt, r.at, r.at, SpPages)
    BY <1>2, StackTaken
  <2> HIDE DEF r
  <2>4. CASE /\ r.at = None /\ r.t = pt /\ mem.p \subseteq r.m.p
             /\ \A x \in 0 .. NPages : x \in r.m.p <=> x \in mem.p
    <3>1. StackMapped' /\ StackPages' = StackPages
      BY <2>1, <2>2, <2>4 DEF StackMapped, StackPages
    <3>2. PagesHold(r.m.p, shms, StackPages, window)
      BY <1>2, <2>4, PagesRefused
    <3> QED BY <1>1, <2>1, <2>3, <2>4, <3>1, <3>2
  <2>5. CASE /\ r.at # None /\ r.at \in 1 .. (NPages + 1)
             /\ Run(r.at - 1, SpPages + 1) \cap mem.p = {}
             /\ r.m.p = mem.p \cup Run(r.at - 1, SpPages + 1)
             /\ r.t = Mapped(pt, r.at, r.at, SpPages)
    <3> DEFINE R == Run(r.at - 1, SpPages + 1)
    <3>1. StackPages' = R
      BY <2>1, <2>5 DEF StackPages
    <3>2. StackMapped'
      BY <2>1, <2>2, <2>5 DEF StackMapped, Mapped
    <3> HIDE DEF R
    <3>3. R \cap mem.p = {} /\ r.m.p = mem.p \cup R
      BY <2>5 DEF R
    <3>4. Run(0, KPages) \subseteq mem.p
      BY <1>2, KernelInRegion DEF PagesHold
    <3>5. PagesHold(mem.p \cup R, shms, R, window)
      BY <1>2, <2>2, <3>3, <3>4 DEF PagesHold
    <3> QED BY <1>1, <2>1, <2>3, <2>5, <3>1, <3>2, <3>3, <3>5
  <2> QED BY <2>3, <2>4, <2>5
<1>6. CASE GiveStack
  <2> DEFINE r == free_kernel_stack(mem, pt, stack)
  <2>1. stack # None /\ stack' = None /\ mem' = r.m /\ pt' = r.t
    BY <1>6 DEF GiveStack
  <2>2. stack \in 1 .. (NPages + 1) /\ pt = {<<stack + i, stack + i>> : i \in 0 .. (SpPages - 1)}
    BY <2>1, ShmTypes DEF ShmInv, StackMapped
  <2>3. r.m \in Bitmaps /\ r.m.p = mem.p \ Run(stack - 1, SpPages + 1) /\ r.t = {}
    BY <1>2, <2>2, StackGiven
  <2>4. StackPages = Run(stack - 1, SpPages + 1) /\ StackPages' = {} /\ StackMapped'
    BY <2>1, <2>3 DEF StackPages, StackMapped
  <2> HIDE DEF r
  <2>5. PagesHold(mem.p \ StackPages, shms, {}, window)
    BY <1>2 DEF PagesHold
  <2> QED BY <1>1, <2>1, <2>3, <2>4, <2>5
<1> QED BY <1>5, <1>6

LEMMA ShmStepKeeps ==
    ASSUME ShmInv, [ShmNext]_<<mem, pt, shmvars>>
    PROVE  ShmInv'
<1>1. CASE UNCHANGED <<mem, pt, shmvars>>
  <2>1. UNCHANGED <<mem, pt, shms, shmids, window, attached, stack, odd>>
    BY <1>1 DEF shmvars
  <2>2. ShmTypeOK' /\ StackMapped' /\ StackPages' = StackPages /\ Foreign' = Foreign /\ (Defined' <=> Defined)
    BY <2>1 DEF ShmInv, ShmTypeOK, StackMapped, StackPages, Foreign, Defined
  <2> QED BY <2>1, <2>2, InvParts, PartsInvNext
<1>2. CASE ShmNext
  <2>1. Defined /\ ShmStep
    BY <1>2 DEF ShmNext
  <2>2. ASSUME NEW t \in ShmTask, NEW id \in 1 .. (NShm - 1),
               \/ _shm_destroy(t, id) \/ _shm_control(t, id)
               \/ \E f \in ShmFlags : _shm_attach(t, id, f)
        PROVE  ShmInv'
    <3>1. id \in Nat
      OBVIOUS
    <3> QED BY <2>1, <2>2, <3>1, DestroyKeeps, ControlKeeps, AttachKeeps
  <2> QED BY <2>1, <2>2, CreateKeeps, CreateFailsKeeps, AttachNoneKeeps, DetachKeeps, StackKeeps DEF ShmStep
<1> QED BY <1>1, <1>2

\* Through every creation, change, attachment and destruction the lists of
\* segments, the bitmap, the window and what tasks have attached belong
\* together.
THEOREM ShmInvariant == ShmSpec => []ShmInv
<1>1. ShmInit => ShmInv
  BY ShmInitially
<1>2. ShmInv /\ [ShmNext]_<<mem, pt, shmvars>> => ShmInv'
  BY ShmStepKeeps
<1> QED BY <1>1, <1>2, PTL DEF ShmSpec

\* Pages and identifiers of segments are those that are taken, each held once
\* (_shm_create, _shm_destroy, _shm_attach, _shm_detach).
THEOREM SegmentsExact == ShmSpec => []ShmExact
<1>1. ShmInv => ShmExact
  BY DEF ShmInv
<1> QED BY <1>1, ShmInvariant, PTL

----------------------------------------------------------------------------
(* SwSessions: the addresses that the constructors return.                  *)

LEMMA FitIsInt ==
    ASSUME NEW taken, NEW n \in Nat, NEW bits \in Nat
    PROVE  FirstFit(taken, n, bits) \in Int
<1> DEFINE fits == {s \in 0 .. (bits - n - 1) : Run(s, n) \cap taken = {}}
<1>1. fits \in SUBSET Nat
  OBVIOUS
<1>2. FirstFit(taken, n, bits) = IF fits = {} THEN None ELSE Min(fits)
  BY DEF FirstFit
<1> HIDE DEF fits
<1>3. fits # {} => Min(fits) \in Nat
  BY <1>1, LowestIn
<1> QED BY <1>2, <1>3 DEF None

LEMMA PhyIsInt ==
    ASSUME NEW m, NEW n \in Nat
    PROVE  sw_phy_page_alloc(m, n).at \in Int
<1>1. FirstFit(m.p, n, PBits) \in Int
  BY FitIsInt, MemoryAssumption
<1> QED BY <1>1 DEF sw_phy_page_alloc, None

LEMMA PairIsInt ==
    ASSUME NEW m, NEW n \in Nat, NEW giveback
    PROVE  Pair(m, n, giveback).at \in Int /\ Pair(m, n, giveback).lost \subseteq Int
<1> DEFINE a == sw_phy_page_alloc(m, n).at
<1>1. a \in Int
  BY PhyIsInt
<1> HIDE DEF a
<1>2. Run(a, n) \subseteq Int /\ None \in Int
  BY <1>1 DEF Run, None
<1> QED BY <1>1, <1>2 DEF Pair, a

LEMMA PlacesAreInt ==
    ASSUME NEW m, NEW t
    PROVE  /\ sw_alloc_tls(m, t).at \in Int /\ sw_alloc_tls(m, t).lost \subseteq Int
           /\ alloc_kernel_stack(m, t).at \in Int /\ alloc_kernel_stack(m, t).lost \subseteq Int
           /\ alloc_user_stack(m, t).at \in Int /\ alloc_user_stack(m, t).lost \subseteq Int
           /\ alloc_user_heap(m, t).at \in Int /\ alloc_user_heap(m, t).lost \subseteq Int
           /\ alloc_private_heap(m, t).at \in Int
<1>1. SpPages + 1 \in Nat /\ HpPages \in Nat /\ 1 \in Nat
  BY MemoryAssumption
<1>2. sw_alloc_tls(m, t).at \in Int /\ sw_alloc_tls(m, t).lost \subseteq Int
  <2>1. Pair(m, 1, FALSE).at \in Int /\ Pair(m, 1, FALSE).lost \subseteq Int
    BY <1>1, PairIsInt
  <2> QED BY <2>1 DEF sw_alloc_tls
<1>3. alloc_kernel_stack(m, t).at \in Int /\ alloc_kernel_stack(m, t).lost \subseteq Int
  <2> DEFINE p == Pair(m, SpPages + 1, TRUE)
  <2>1. p.at \in Int /\ p.lost \subseteq Int
    BY <1>1, PairIsInt
  <2>2. /\ alloc_kernel_stack(m, t).at = IF p.at = None THEN None ELSE p.at + 1
        /\ alloc_kernel_stack(m, t).lost = p.lost
    BY DEF alloc_kernel_stack
  <2> HIDE DEF p
  <2> QED BY <2>1, <2>2 DEF None
<1>6. alloc_user_stack(m, t).at \in Int /\ alloc_user_stack(m, t).lost \subseteq Int
  <2>1. Pair(m, SpPages + 1, TRUE).at \in Int /\ Pair(m, SpPages + 1, TRUE).lost \subseteq Int
    BY <1>1, PairIsInt
  <2> QED BY <2>1 DEF alloc_user_stack
<1>4. alloc_user_heap(m, t).at \in Int /\ alloc_user_heap(m, t).lost \subseteq Int
  <2>1. Pair(m, HpPages, TRUE).at \in Int /\ Pair(m, HpPages, TRUE).lost \subseteq Int
    BY <1>1, PairIsInt
  <2> QED BY <2>1 DEF alloc_user_heap
<1>5. alloc_private_heap(m, t).at \in Int
  <2>1. FirstFit(m.v, HpPages, VBits) \in Int
    BY <1>1, FitIsInt, MemoryAssumption
  <2>2. sw_vir_page_alloc(m, HpPages).at \in Int
    BY <2>1 DEF sw_vir_page_alloc, None
  <2> QED BY <2>2 DEF alloc_private_heap
<1> QED BY <1>2, <1>3, <1>4, <1>5, <1>6

\* What create_task asks for.
LEMMA StagesAreInt ==
    ASSUME NEW s, NEW m, NEW t
    PROVE  LET a == sw_alloc_tls(m, t)
               b == StackStage(s, a)
               h == HeapStage(s, b)
               g == Stages(s, a, b, h)
           IN  /\ g.tls.at \in Int /\ g.sp.at \in Int /\ g.heap.at \in Int
               /\ g.tls.lost \subseteq Int /\ g.sp.lost \subseteq Int
<1> DEFINE a == sw_alloc_tls(m, t)
           b == StackStage(s, a)
           h == HeapStage(s, b)
<1>1. a.at \in Int /\ a.lost \subseteq Int
  BY PlacesAreInt
<1>2. /\ alloc_kernel_stack(a.m, a.t).at \in Int /\ alloc_kernel_stack(a.m, a.t).lost \subseteq Int
      /\ alloc_user_stack(a.m, a.t).at \in Int /\ alloc_user_stack(a.m, a.t).lost \subseteq Int
  BY PlacesAreInt
<1>3. "at" \in DOMAIN a /\ "at" \in DOMAIN b
  BY DEF sw_alloc_tls, StackStage, alloc_kernel_stack, alloc_user_stack
<1> HIDE DEF a
<1>4. b.at \in Int /\ b.lost \subseteq Int
  BY <1>1, <1>2 DEF StackStage
<1> HIDE DEF b
<1>5. alloc_private_heap(b.m, b.t).at \in Int
  BY PlacesAreInt
<1>6. h.at \in Int
  BY <1>3, <1>5 DEF HeapStage, None
<1> HIDE DEF h
<1> QED BY <1>1, <1>4, <1>6 DEF Stages, a, b, h

LEMMA NextAsid ==
    ASSUME SessionTypeOK, get_next_asid_val # None
    PROVE  get_next_asid_val \in Ids \ pool
<1> DEFINE F == Ids \ pool
<1>1. F \in SUBSET Nat
  BY SessionAssumption DEF Ids, OverId
<1>2. get_next_asid_val = IF F # {} THEN Min(F) ELSE None
  BY DEF get_next_asid_val
<1> HIDE DEF F
<1>3. Min(F) \in F
  BY <1>1, <1>2, LowestIn
<1> QED BY <1>2, <1>3 DEF F

\* The search ends while an identifier is free.
LEMMA NoAsid ==
    ASSUME SessionTypeOK, get_next_asid_val = None
    PROVE  Ids \subseteq pool
<1> DEFINE F == Ids \ pool
<1>1. F \in SUBSET Nat
  BY SessionAssumption DEF Ids, OverId
<1>2. get_next_asid_val = IF F # {} THEN Min(F) ELSE None
  BY DEF get_next_asid_val
<1> HIDE DEF F
<1>3. F # {} => Min(F) \in Nat
  BY <1>1, LowestIn
<1>4. F = {}
  BY <1>2, <1>3 DEF None
<1> QED BY <1>4 DEF F

LEMMA IdsFinite == IsFiniteSet(Ids) /\ Cardinality(Ids) = NIds + 1
<1>1. NIds + 1 \in Nat /\ 1 \in Int
  BY SessionAssumption
<1>2. IsFiniteSet(1 .. (NIds + 1)) /\ Cardinality(1 .. (NIds + 1)) = NIds + 1
  BY <1>1, FS_Interval
<1> QED BY <1>2 DEF Ids, OverId

\* The tables of tasks, blocks and identifiers.
SessionsHold(ts, po, he, ns, le) ==
    /\ he = {ts[i].data : i \in DOMAIN ts}
    /\ Cardinality(he) = Cardinality(DOMAIN ts)
    /\ po = DOMAIN ts \cup le
    /\ ns = {<<ts[i].svc, i>> : i \in DOMAIN ts}
    /\ \A i, j \in DOMAIN ts : i # j => ts[i].data # ts[j].data
    /\ le \cap DOMAIN ts = {}

LEMMA SessionInit1 == ASSUME SessionInit PROVE SessionInv
<1>1. /\ tasks = <<>> /\ pool = {} /\ heap = {} /\ hung = FALSE /\ nsopen = {}
      /\ leaked = [pages |-> {}, ids |-> {}] /\ undef = {}
  BY DEF SessionInit
<1>2. DOMAIN tasks = {} /\ IsFiniteSet(heap) /\ leaked.ids = {}
  BY <1>1, FS_EmptySet
<1>3. SessionTypeOK
  BY <1>1, <1>2 DEF SessionTypeOK
<1>4. {tasks[i].data : i \in DOMAIN tasks} = {} /\ {<<tasks[i].svc, i>> : i \in DOMAIN tasks} = {}
  BY <1>2
<1> QED BY <1>1, <1>2, <1>3, <1>4 DEF SessionInv, SessionsApart, SessionsExact

\* A task is made.
LEMMA HoldsCreate ==
    ASSUME NEW ts, NEW po, NEW he, NEW ns, NEW le, NEW tn, NEW id, NEW k,
           SessionsHold(ts, po, he, ns, le), IsFiniteSet(he), IsFiniteSet(DOMAIN ts),
           id \notin po, k.data \notin he,
           DOMAIN tn = DOMAIN ts \cup {id}, tn[id] = k,
           \A j \in DOMAIN ts : tn[j] = ts[j]
    PROVE  SessionsHold(tn, po \cup {id}, he \cup {k.data}, ns \cup {<<k.svc, id>>}, le)
<1>1. /\ he = {ts[i].data : i \in DOMAIN ts} /\ Cardinality(he) = Cardinality(DOMAIN ts)
      /\ po = DOMAIN ts \cup le /\ ns = {<<ts[i].svc, i>> : i \in DOMAIN ts}
      /\ \A i, j \in DOMAIN ts : i # j => ts[i].data # ts[j].data
      /\ le \cap DOMAIN ts = {}
  BY DEF SessionsHold
<1>2. id \notin DOMAIN ts /\ id \notin le
  BY <1>1
<1>3. he \cup {k.data} = {tn[i].data : i \in DOMAIN tn}
  BY <1>1
<1>4. Cardinality(he \cup {k.data}) = Cardinality(DOMAIN tn)
  <2>1. Cardinality(he \cup {k.data}) = Cardinality(he) + 1
    BY FS_AddElement
  <2>2. Cardinality(DOMAIN ts \cup {id}) = Cardinality(DOMAIN ts) + 1
    BY <1>2, FS_AddElement
  <2> QED BY <1>1, <2>1, <2>2
<1>5. ns \cup {<<k.svc, id>>} = {<<tn[i].svc, i>> : i \in DOMAIN tn}
  BY <1>1
<1>6. \A i, j \in DOMAIN tn : i # j => tn[i].data # tn[j].data
  BY <1>1
<1>7. po \cup {id} = DOMAIN tn \cup le /\ le \cap DOMAIN tn = {}
  BY <1>1, <1>2
<1> QED BY <1>3, <1>4, <1>5, <1>6, <1>7 DEF SessionsHold

\* A task is destroyed by the name its session has.
LEMMA HoldsClose ==
    ASSUME NEW ts, NEW po, NEW he, NEW ns, NEW le, NEW s, NEW id,
           SessionsHold(ts, po, he, ns, le), IsFiniteSet(he), IsFiniteSet(DOMAIN ts),
           <<s, id>> \in ns
    PROVE  /\ id \in DOMAIN ts
           /\ SessionsHold(Without(ts, id), po \ {id}, he \ {ts[id].data}, ns \ {<<s, id>>}, le)
<1>1. /\ he = {ts[i].data : i \in DOMAIN ts} /\ Cardinality(he) = Cardinality(DOMAIN ts)
      /\ po = DOMAIN ts \cup le /\ ns = {<<ts[i].svc, i>> : i \in DOMAIN ts}
      /\ \A i, j \in DOMAIN ts : i # j => ts[i].data # ts[j].data
      /\ le \cap DOMAIN ts = {}
  BY DEF SessionsHold
<1>2. PICK i0 \in DOMAIN ts : <<s, id>> = <<ts[i0].svc, i0>>
  BY <1>1
<1>3. id \in DOMAIN ts /\ s = ts[id].svc
  BY <1>2
<1> DEFINE tn == Without(ts, id)
<1>4. DOMAIN tn = DOMAIN ts \ {id} /\ \A j \in DOMAIN tn : tn[j] = ts[j]
  BY DEF Without
<1> HIDE DEF tn
<1>5. he \ {ts[id].data} = {tn[i].data : i \in DOMAIN tn}
  BY <1>1, <1>3, <1>4
<1>6. Cardinality(he \ {ts[id].data}) = Cardinality(DOMAIN tn)
  <2>1. ts[id].data \in he
    BY <1>1, <1>3
  <2>2. Cardinality(he \ {ts[id].data}) = Cardinality(he) - 1
    BY <2>1, FS_RemoveElement
  <2>3. Cardinality(DOMAIN ts \ {id}) = Cardinality(DOMAIN ts) - 1
    BY <1>3, FS_RemoveElement
  <2> QED BY <1>1, <1>4, <2>2, <2>3
<1>7. ns \ {<<s, id>>} = {<<tn[i].svc, i>> : i \in DOMAIN tn}
  BY <1>1, <1>3, <1>4
<1>8. \A i, j \in DOMAIN tn : i # j => tn[i].data # tn[j].data
  BY <1>1, <1>4
<1>9. po \ {id} = DOMAIN tn \cup le /\ le \cap DOMAIN tn = {}
  BY <1>1, <1>3, <1>4
<1> QED BY <1>3, <1>5, <1>6, <1>7, <1>8, <1>9 DEF SessionsHold, tn

\* An identifier is kept by an open that was refused.
LEMMA HoldsRefuse ==
    ASSUME NEW ts, NEW po, NEW he, NEW ns, NEW le, NEW id,
           SessionsHold(ts, po, he, ns, le), id \notin po
    PROVE  SessionsHold(ts, po \cup {id}, he, ns, le \cup {id})
BY DEF SessionsHold

\* A field of a task that the tables do not keep changes.
LEMMA HoldsSame ==
    ASSUME NEW ts, NEW po, NEW he, NEW ns, NEW le, NEW tn,
           SessionsHold(ts, po, he, ns, le), DOMAIN tn = DOMAIN ts,
           \A i \in DOMAIN ts : tn[i].data = ts[i].data /\ tn[i].svc = ts[i].svc
    PROVE  SessionsHold(tn, po, he, ns, le)
<1>1. /\ he = {ts[i].data : i \in DOMAIN ts} /\ Cardinality(he) = Cardinality(DOMAIN ts)
      /\ po = DOMAIN ts \cup le /\ ns = {<<ts[i].svc, i>> : i \in DOMAIN ts}
      /\ \A i, j \in DOMAIN ts : i # j => ts[i].data # ts[j].data
      /\ le \cap DOMAIN ts = {}
  BY DEF SessionsHold
<1>2. {ts[i].data : i \in DOMAIN ts} = {tn[i].data : i \in DOMAIN tn}
  OBVIOUS
<1>3. {<<ts[i].svc, i>> : i \in DOMAIN ts} = {<<tn[i].svc, i>> : i \in DOMAIN tn}
  OBVIOUS
<1>4. \A i, j \in DOMAIN tn : i # j => tn[i].data # tn[j].data
  BY <1>1
<1> QED BY <1>1, <1>2, <1>3, <1>4 DEF SessionsHold

----------------------------------------------------------------------------
(* The steps. *)

\* The invariant, with the tables named.
LEMMA SessionParts ==
    ASSUME SessionInv
    PROVE  /\ SessionTypeOK /\ IsFiniteSet(DOMAIN tasks)
           /\ undef = {} => SessionsHold(tasks, pool, heap, nsopen, leaked.ids)
           /\ undef = {} /\ hung => leaked.ids # {} \/ Cardinality(DOMAIN tasks) > NIds
<1>1. SessionTypeOK /\ SessionsApart /\ SessionsExact
  BY DEF SessionInv
<1>2. IsFiniteSet(DOMAIN tasks)
  BY <1>1, IdsFinite, FS_Subset DEF SessionTypeOK
<1>3. undef = {} => SessionsHold(tasks, pool, heap, nsopen, leaked.ids)
  BY <1>1 DEF SessionsApart, SessionsExact, SessionsHold
<1>4. undef = {} /\ hung => leaked.ids # {} \/ Cardinality(DOMAIN tasks) > NIds
  BY <1>1 DEF SessionsExact
<1> QED BY <1>1, <1>2, <1>3, <1>4

LEMMA PartsSession ==
    ASSUME SessionTypeOK',
           undef' = {} => SessionsHold(tasks', pool', heap', nsopen', leaked'.ids),
           undef' = {} /\ hung' => leaked'.ids # {} \/ Cardinality(DOMAIN tasks') > NIds
    PROVE  SessionInv'
<1>1. SessionsApart'
  BY DEF SessionsApart, SessionsHold
<1>2. SessionsExact'
  BY DEF SessionsExact, SessionsHold
<1> QED BY <1>1, <1>2 DEF SessionInv

LEMMA LeakedFields ==
    ASSUME NEW l \in [pages : SUBSET Int, ids : SUBSET Ids], NEW P \in SUBSET Int, NEW I \in SUBSET Ids
    PROVE  /\ [l EXCEPT !.pages = P] \in [pages : SUBSET Int, ids : SUBSET Ids]
           /\ [l EXCEPT !.pages = P].ids = l.ids
           /\ [l EXCEPT !.ids = I] \in [pages : SUBSET Int, ids : SUBSET Ids]
           /\ [l EXCEPT !.ids = I].ids = I
OBVIOUS

LEMMA SessionTypes ==
    ASSUME SessionTypeOK
    PROVE  /\ DOMAIN tasks \subseteq Ids /\ \A i \in DOMAIN tasks : tasks[i] \in TaskRecord
           /\ pool \subseteq Ids /\ hung \in BOOLEAN
           /\ heap \subseteq Blk /\ IsFiniteSet(heap)
           /\ leaked \in [pages : SUBSET Int, ids : SUBSET Ids]
           /\ leaked.ids \subseteq Ids /\ leaked.pages \subseteq Int
<1>1. /\ DOMAIN tasks \subseteq Ids /\ \A i \in DOMAIN tasks : tasks[i] \in TaskRecord
      /\ pool \subseteq Ids /\ hung \in BOOLEAN
      /\ heap \subseteq Blk /\ IsFiniteSet(heap)
      /\ leaked \in [pages : SUBSET Int, ids : SUBSET Ids]
  BY DEF SessionTypeOK
<1> QED BY <1>1

LEMMA SessionTypesNext ==
    ASSUME DOMAIN tasks' \subseteq Ids, \A i \in DOMAIN tasks' : tasks'[i] \in TaskRecord,
           pool' \subseteq Ids, hung' \in BOOLEAN, heap' \subseteq Blk, IsFiniteSet(heap'),
           leaked' \in [pages : SUBSET Int, ids : SUBSET Ids]
    PROVE  SessionTypeOK'
BY DEF SessionTypeOK

\* An open that is refused, or whose data is not allocated.
LEMMA RefusedKeeps ==
    ASSUME SessionInv, ~ hung, UNCHANGED hung, NEW id \in Ids, id \notin pool,
           pool' = pool \cup {id}, leaked' = [leaked EXCEPT !.ids = @ \cup {id}],
           UNCHANGED <<tasks, heap, nsopen, undef>>
    PROVE  SessionInv'
<1>1. /\ SessionTypeOK
      /\ undef = {} => SessionsHold(tasks, pool, heap, nsopen, leaked.ids)
  BY SessionParts
<1>2. leaked' = [leaked EXCEPT !.ids = leaked.ids \cup {id}]
  OBVIOUS
<1>3. leaked.ids \cup {id} \in SUBSET Ids
  BY <1>1, SessionTypes
<1>4. leaked' \in [pages : SUBSET Int, ids : SUBSET Ids] /\ leaked'.ids = leaked.ids \cup {id}
  BY <1>1, <1>2, <1>3, SessionTypes, LeakedFields
<1>5. SessionTypeOK'
  BY <1>1, <1>4, SessionTypes, SessionTypesNext
<1>6. undef' = {} => SessionsHold(tasks', pool', heap', nsopen', leaked'.ids)
  BY <1>1, <1>4, HoldsRefuse
<1> QED BY <1>5, <1>6, PartsSession

LEMMA DoneKeeps ==
    ASSUME SessionInv, ~ hung, UNCHANGED hung, NEW s \in Svc, NEW id \in Ids, id \notin pool,
           NEW blk \in Blk \ heap, NEW g, create_task_done(s, id, blk, g),
           g.tls.at \in Int, g.sp.at \in Int, g.heap.at \in Int
    PROVE  SessionInv'
<1> DEFINE k == [svc |-> s, mode |-> sa_create_entry_point[s].mode, data |-> blk,
                 tls |-> g.tls.at, sp |-> g.sp.at, heap |-> g.heap.at]
<1>1. /\ SessionTypeOK /\ IsFiniteSet(DOMAIN tasks)
      /\ undef = {} => SessionsHold(tasks, pool, heap, nsopen, leaked.ids)
  BY SessionParts
<1>2. /\ DOMAIN tasks \subseteq Ids /\ \A i \in DOMAIN tasks : tasks[i] \in TaskRecord
      /\ pool \subseteq Ids /\ heap \subseteq Blk /\ IsFiniteSet(heap)
      /\ leaked \in [pages : SUBSET Int, ids : SUBSET Ids] /\ hung \in BOOLEAN
  BY <1>1, SessionTypes
<1>3. /\ tasks' = [j \in DOMAIN tasks \cup {id} |-> IF j = id THEN k ELSE tasks[j]]
      /\ heap' = heap \cup {blk} /\ pool' = pool \cup {id}
      /\ nsopen' = nsopen \cup {<<s, id>>} /\ leaked' = leaked /\ undef' = undef
  BY DEF create_task_done
<1>4. k \in TaskRecord
  BY DEF TaskRecord
<1>5. k.data = blk /\ k.svc = s
  OBVIOUS
<1> HIDE DEF k
<1>6. /\ DOMAIN tasks' = DOMAIN tasks \cup {id} /\ tasks'[id] = k
  BY <1>3
<1>7. \A j \in DOMAIN tasks' : tasks'[j] = IF j = id THEN k ELSE tasks[j]
  BY <1>3
<1>8. SessionTypeOK'
  <2>1. \A i \in DOMAIN tasks' : tasks'[i] \in TaskRecord
    BY <1>2, <1>4, <1>6, <1>7
  <2>2. IsFiniteSet(heap')
    BY <1>2, <1>3, FS_AddElement
  <2>3. DOMAIN tasks' \subseteq Ids /\ pool' \subseteq Ids /\ heap' \subseteq Blk
    BY <1>2, <1>3, <1>6
  <2> QED BY <1>2, <1>3, <2>1, <2>2, <2>3, SessionTypesNext
<1>9. undef' = {} => SessionsHold(tasks', pool', heap', nsopen', leaked'.ids)
  <2>1. SUFFICES ASSUME undef = {}
                 PROVE  SessionsHold(tasks', pool', heap', nsopen', leaked'.ids)
    BY <1>3
  <2>2. SessionsHold(tasks, pool, heap, nsopen, leaked.ids)
    BY <1>1, <2>1
  <2>3. id \notin DOMAIN tasks
    BY <2>2 DEF SessionsHold
  <2>4. \A j \in DOMAIN tasks : tasks'[j] = tasks[j]
    BY <1>6, <1>7, <2>3
  <2>5. SessionsHold(tasks', pool \cup {id}, heap \cup {k.data}, nsopen \cup {<<k.svc, id>>},
                     leaked.ids)
    BY <1>1, <1>2, <1>5, <1>6, <2>2, <2>4, HoldsCreate
  <2> QED BY <1>3, <1>5, <2>5
<1> QED BY <1>8, <1>9, PartsSession

LEMMA UndoneKeeps ==
    ASSUME SessionInv, ~ hung, UNCHANGED hung, NEW s, NEW g, create_task_undone(s, g),
           g.tls.lost \subseteq Int, g.sp.lost \subseteq Int
    PROVE  SessionInv'
<1>1. /\ SessionTypeOK
      /\ undef = {} => SessionsHold(tasks, pool, heap, nsopen, leaked.ids)
  BY SessionParts
<1>2. leaked.pages \cup g.tls.lost \cup g.sp.lost \in SUBSET Int /\ leaked.ids \in SUBSET Ids
  BY <1>1, SessionTypes
<1>3. /\ leaked' = [leaked EXCEPT !.pages = leaked.pages \cup g.tls.lost \cup g.sp.lost]
      /\ undef' # {} /\ UNCHANGED <<tasks, pool, heap, nsopen>>
  BY DEF create_task_undone
<1>4. leaked' \in [pages : SUBSET Int, ids : SUBSET Ids]
  BY <1>1, <1>2, <1>3, SessionTypes, LeakedFields
<1>5. SessionTypeOK'
  BY <1>1, <1>3, <1>4, SessionTypes, SessionTypesNext
<1> QED BY <1>3, <1>5, PartsSession

LEMMA OpenKeeps ==
    ASSUME SessionInv, ~ hung, UNCHANGED hung, NEW s \in Svc, open_session_from_ns(s)
    PROVE  SessionInv'
<1>1. PICK id \in Ids, blk \in Blk \ heap : entry_point(s, id) /\ create_task(s, id, blk)
  BY DEF open_session_from_ns
<1>2. SessionTypeOK
  BY SessionParts
<1>3. id \notin pool
  BY <1>1, <1>2, NextAsid DEF entry_point
<1>4. CASE create_task_refused(id)
  BY <1>3, <1>4, RefusedKeeps DEF create_task_refused
<1>5. ASSUME NEW g, create_task_done(s, id, blk, g) \/ create_task_undone(s, g),
             g.tls.at \in Int, g.sp.at \in Int, g.heap.at \in Int,
             g.tls.lost \subseteq Int, g.sp.lost \subseteq Int
      PROVE  SessionInv'
  <2>1. CASE create_task_done(s, id, blk, g)
    BY <1>3, <1>5, <2>1, DoneKeeps
  <2>2. CASE create_task_undone(s, g)
    BY <1>5, <2>2, UndoneKeeps
  <2> QED BY <1>5, <2>1, <2>2
<1>6. CASE ~ create_task_refused(id)
  <2> DEFINE a == sw_alloc_tls(mem, pt)
             b == StackStage(s, a)
             h == HeapStage(s, b)
             g == Stages(s, a, b, h)
  <2>1. create_task_done(s, id, blk, g) \/ create_task_undone(s, g)
    BY <1>1, <1>6 DEF create_task
  <2>2. /\ g.tls.at \in Int /\ g.sp.at \in Int /\ g.heap.at \in Int
        /\ g.tls.lost \subseteq Int /\ g.sp.lost \subseteq Int
    BY StagesAreInt
  <2> HIDE DEF g
  <2> QED BY <1>5, <2>1, <2>2
<1> QED BY <1>4, <1>6

LEMMA NoDataKeeps ==
    ASSUME SessionInv, ~ hung, UNCHANGED hung, NEW s \in Svc, open_no_data(s)
    PROVE  SessionInv'
<1>1. PICK id \in Ids : /\ entry_point(s, id) /\ pool' = pool \cup {id}
                        /\ leaked' = [leaked EXCEPT !.ids = @ \cup {id}]
                        /\ UNCHANGED <<tasks, heap, nsopen, undef>>
  BY DEF open_no_data
<1>2. SessionTypeOK
  BY SessionParts
<1>3. id \notin pool
  BY <1>1, <1>2, NextAsid DEF entry_point
<1> QED BY <1>1, <1>3, RefusedKeeps

LEMMA CloseKeeps ==
    ASSUME SessionInv, ~ hung, UNCHANGED hung, NEW s, NEW id, close_session_from_ns(s, id)
    PROVE  SessionInv'
<1>1. /\ SessionTypeOK /\ IsFiniteSet(DOMAIN tasks)
      /\ undef = {} => SessionsHold(tasks, pool, heap, nsopen, leaked.ids)
  BY SessionParts
<1>2. /\ DOMAIN tasks \subseteq Ids /\ \A i \in DOMAIN tasks : tasks[i] \in TaskRecord
      /\ pool \subseteq Ids /\ heap \subseteq Blk /\ IsFiniteSet(heap) /\ hung \in BOOLEAN
      /\ leaked \in [pages : SUBSET Int, ids : SUBSET Ids]
  BY <1>1, SessionTypes
<1>3. /\ <<s, id>> \in nsopen /\ nsopen' = nsopen \ {<<s, id>>}
      /\ heap' = heap \ {tasks[id].data} /\ tasks' = Without(tasks, id)
      /\ pool' = pool \ {id} /\ leaked' = leaked /\ undef' = undef
  BY DEF close_session_from_ns, sa_destroy_entry_point, destroy_task
<1>4. SessionTypeOK'
  <2>1. DOMAIN tasks' = DOMAIN tasks \ {id} /\ \A j \in DOMAIN tasks' : tasks'[j] = tasks[j]
    BY <1>3 DEF Without
  <2>2. IsFiniteSet(heap')
    BY <1>2, <1>3, FS_Subset
  <2>3. heap' \subseteq Blk /\ pool' \subseteq Ids
    BY <1>2, <1>3
  <2> QED BY <1>2, <1>3, <2>1, <2>2, <2>3, SessionTypesNext
<1>5. undef' = {} => SessionsHold(tasks', pool', heap', nsopen', leaked'.ids)
  BY <1>1, <1>2, <1>3, HoldsClose
<1> QED BY <1>4, <1>5, PartsSession

LEMMA TaskInitKeeps ==
    ASSUME SessionInv, ~ hung, UNCHANGED hung, NEW id, task_init(id)
    PROVE  SessionInv'
<1> DEFINE r == alloc_user_heap(mem, pt)
<1>1. /\ SessionTypeOK
      /\ undef = {} => SessionsHold(tasks, pool, heap, nsopen, leaked.ids)
  BY SessionParts
<1>2. /\ DOMAIN tasks \subseteq Ids /\ \A i \in DOMAIN tasks : tasks[i] \in TaskRecord
      /\ pool \subseteq Ids /\ heap \subseteq Blk /\ IsFiniteSet(heap) /\ hung \in BOOLEAN
      /\ leaked \in [pages : SUBSET Int, ids : SUBSET Ids]
      /\ leaked.ids \in SUBSET Ids /\ leaked.pages \subseteq Int
  BY <1>1, SessionTypes
<1>3. /\ id \in DOMAIN tasks /\ tasks' = [tasks EXCEPT ![id].heap = r.at]
      /\ leaked' = [leaked EXCEPT !.pages = leaked.pages \cup r.lost]
      /\ UNCHANGED <<pool, heap, nsopen, undef>>
  BY DEF task_init
<1>4. r.at \in Int /\ r.lost \subseteq Int
  BY PlacesAreInt
<1> HIDE DEF r
<1>5. leaked.pages \cup r.lost \in SUBSET Int
  BY <1>2, <1>4
<1>6. leaked' \in [pages : SUBSET Int, ids : SUBSET Ids] /\ leaked'.ids = leaked.ids
  BY <1>2, <1>3, <1>5, LeakedFields
<1>7. \A k \in TaskRecord : /\ [k EXCEPT !.heap = r.at] \in TaskRecord
                            /\ [k EXCEPT !.heap = r.at].data = k.data
                            /\ [k EXCEPT !.heap = r.at].svc = k.svc
  BY <1>4 DEF TaskRecord
<1>8. /\ DOMAIN tasks' = DOMAIN tasks
      /\ \A i \in DOMAIN tasks' :
            tasks'[i] = IF i = id THEN [tasks[id] EXCEPT !.heap = r.at] ELSE tasks[i]
  BY <1>3
<1>9. \A i \in DOMAIN tasks : /\ tasks'[i] \in TaskRecord
                              /\ tasks'[i].data = tasks[i].data /\ tasks'[i].svc = tasks[i].svc
  BY <1>2, <1>3, <1>7, <1>8
<1>10. SessionTypeOK'
  BY <1>2, <1>3, <1>6, <1>8, <1>9, SessionTypesNext
<1>11. undef' = {} => SessionsHold(tasks', pool', heap', nsopen', leaked'.ids)
  BY <1>1, <1>3, <1>6, <1>8, <1>9, HoldsSame
<1> QED BY <1>10, <1>11, PartsSession

\* No identifier is free: every one is the name of a task, or kept.
LEMMA HangsKeeps ==
    ASSUME SessionInv, open_hangs
    PROVE  SessionInv'
<1>1. /\ SessionTypeOK /\ IsFiniteSet(DOMAIN tasks)
      /\ undef = {} => SessionsHold(tasks, pool, heap, nsopen, leaked.ids)
  BY SessionParts
<1>2. /\ get_next_asid_val = None /\ hung' = TRUE
      /\ UNCHANGED <<tasks, pool, heap, nsopen, leaked, undef>>
  BY DEF open_hangs
<1>3. SessionTypeOK'
  BY <1>1, <1>2, SessionTypes, SessionTypesNext
<1>4. ASSUME undef = {}, leaked.ids = {}
      PROVE  Cardinality(DOMAIN tasks) > NIds
  <2>1. Ids \subseteq DOMAIN tasks
    BY <1>1, <1>2, <1>4, NoAsid DEF SessionsHold
  <2>2. Ids = DOMAIN tasks
    BY <1>1, <2>1, SessionTypes
  <2> QED BY <2>2, IdsFinite, SessionAssumption
<1> QED BY <1>1, <1>2, <1>3, <1>4, PartsSession

LEMMA SessionStepKeeps ==
    ASSUME SessionInv, [SessionNext]_<<mem, pt, sesvars>>
    PROVE  SessionInv'
<1>1. CASE UNCHANGED <<mem, pt, sesvars>>
  <2>1. UNCHANGED <<tasks, pool, heap, hung, nsopen, leaked, undef>>
    BY <1>1 DEF sesvars
  <2> QED BY <2>1 DEF SessionInv, SessionTypeOK, SessionsApart, SessionsExact
<1>2. CASE SessionNext
  <2>1. CASE open_hangs
    BY <2>1, HangsKeeps
  <2>2. CASE UNCHANGED hung /\ SessionStep
    <3>1. ~ hung
      BY <1>2 DEF SessionNext
    <3>2. ASSUME NEW s \in Svc, open_session_from_ns(s) PROVE SessionInv'
      BY <2>2, <3>1, <3>2, OpenKeeps
    <3>3. ASSUME NEW s \in Svc, open_no_data(s) PROVE SessionInv'
      BY <2>2, <3>1, <3>3, NoDataKeeps
    <3>4. ASSUME NEW s \in Svc, NEW id \in Ids, close_session_from_ns(s, id) PROVE SessionInv'
      BY <2>2, <3>1, <3>4, CloseKeeps
    <3>5. ASSUME NEW id \in Ids, task_init(id) PROVE SessionInv'
      BY <2>2, <3>1, <3>5, TaskInitKeeps
    <3> QED BY <2>2, <3>2, <3>3, <3>4, <3>5 DEF SessionStep
  <2> QED BY <1>2, <2>1, <2>2 DEF SessionNext
<1> QED BY <1>1, <1>2

\* The tables of the sessions are typed, no block is the data of two tasks,
\* and no task has an identifier that a refused open keeps (SessionInv), for
\* any number of identifiers, services, blocks and pages.
THEOREM SessionInvariant == SessionSpec => []SessionInv
<1>1. SessionInit => SessionInv
  BY SessionInit1
<1>2. SessionInv /\ [SessionNext]_<<mem, pt, sesvars>> => SessionInv'
  BY SessionStepKeeps
<1> QED BY <1>1, <1>2, PTL DEF SessionSpec

\* The blocks of create_task, the identifiers of task_id_pool, the task list
\* and the sessions the driver holds agree through any sequence of opens and
\* closes, and get_next_asid_val ends unless every identifier has a task or
\* refused opens have kept some.
THEOREM SessionTablesExact == SessionSpec => []SessionsExact
<1>1. SessionInv => SessionsExact
  BY DEF SessionInv
<1> QED BY <1>1, SessionInvariant, PTL

----------------------------------------------------------------------------
(* SwBuddy.                                                                 *)


\* The block a call has taken out of its tree and not yet linked again.
Holding == pc["task"] \in {"split", "give"}

\* No FIQ handler is inside the allocator; every block has an address; the
\* task that is about to take a block finds it where it saw it.
Alone ==
    /\ pc["fiq"] = "idle"
    /\ \A b \in Bin : 0 \notin free[b] /\ 0 \notin alloc[b]
    /\ pc["task"] = "take" => /\ node["task"] \in free[idx["task"]]
                              /\ want["task"] <= idx["task"]

\* The block the task holds overlaps no other, and is larger than wanted as
\* long as it is being split.
HeldApart ==
    Holding =>
        /\ node["task"] # 0
        /\ pc["task"] = "split" => /\ nbin["task"] = idx["task"]
                                   /\ want["task"] < idx["task"]
        /\ \A d \in Bin : \A x \in free[d] \cup alloc[d] :
              Apart(node["task"], nbin["task"], x, d)

BuddyInv == TypeOK /\ NoOverlap /\ Alone /\ HeldApart

USE DEF Ctx, Bin

\* Sizes are positive and double from bin to bin.
LEMMA Sizes ==
    /\ \A b \in Bin : Size[b] \in Nat /\ Size[b] > 0
    /\ \A b \in Bin : b < MaxBin => b + 1 \in Bin /\ Size[b + 1] = 2 * Size[b]
    /\ \A b \in Bin : b > 0 => b - 1 \in Bin /\ Size[b] = 2 * Size[b - 1]
    /\ MaxBin \in Nat /\ MaxBin \in Bin
<1>1. MaxBin \in Nat /\ MaxBin \in Bin
  BY BuddyAssumption
<1>2. \A b \in Bin : Size[b] \in Nat /\ Size[b] > 0
  BY <1>1, BuddyAssumption
<1>3. \A b \in Bin : b < MaxBin => b + 1 \in Bin /\ Size[b + 1] = 2 * Size[b]
  BY <1>1, BuddyAssumption
<1>4. ASSUME NEW b \in Bin, b > 0
      PROVE  b - 1 \in Bin /\ Size[b] = 2 * Size[b - 1]
  <2>1. b - 1 \in Bin /\ b - 1 < MaxBin /\ (b - 1) + 1 = b
    BY <1>1, <1>4
  <2>2. QED
    BY <2>1, <1>3
<1>5. QED
  BY <1>1, <1>2, <1>3, <1>4

\* The pool starts as one block.
LEMMA InitBuddy == ASSUME Init PROVE BuddyInv
<1>1. MaxBin \in Bin /\ 0 \in Bin /\ N \in Nat
  BY Sizes, BuddyAssumption DEF N
<1>2. TypeOK
  BY <1>1 DEF Init, TypeOK, PCs
<1>3. \A b \in Bin : alloc[b] = {} /\ (b # MaxBin => free[b] = {}) /\ free[MaxBin] = {1}
  BY <1>1 DEF Init
<1>4. NoOverlap
  BY <1>3 DEF NoOverlap
<1>5. Alone
  BY <1>3 DEF Alone, Init
<1>6. HeldApart
  BY DEF HeldApart, Holding, Init
<1>7. QED
  BY <1>2, <1>4, <1>5, <1>6 DEF BuddyInv

\* Two blocks of the free trees that start at the same address are one.
LEMMA SameAddress ==
    ASSUME TypeOK, NoOverlap, NEW b \in Bin, NEW d \in Bin,
           NEW a \in free[b], a \in free[d]
    PROVE  b = d
<1>1. <<a, b>> = <<a, d>> \/ Apart(a, b, a, d)
  BY DEF NoOverlap
<1>2. a \in Nat
  BY DEF TypeOK
<1>3. QED
  BY <1>1, <1>2, Sizes DEF Apart

\* A request and the scan of the bins move no block.
LEMMA RequestStep ==
    ASSUME BuddyInv, NEW s \in 1 .. N, sw_buddy_alloc(s)
    PROVE  BuddyInv'
<1>1. TypeOK'
  BY DEF BuddyInv, sw_buddy_alloc, TypeOK, Goto, PCs
<1>2. NoOverlap'
  BY DEF BuddyInv, sw_buddy_alloc, NoOverlap, Apart
<1>3. pc'["task"] = "scan" /\ pc'["fiq"] = "idle"
  BY DEF BuddyInv, sw_buddy_alloc, TypeOK, Goto, Alone
<1>4. Alone'
  BY <1>3 DEF BuddyInv, sw_buddy_alloc, Alone
<1>5. HeldApart'
  BY <1>3 DEF HeldApart, Holding
<1>6. QED
  BY <1>1, <1>2, <1>4, <1>5 DEF BuddyInv

LEMMA ScanStep ==
    ASSUME BuddyInv, Scan("task")
    PROVE  BuddyInv'
<1> USE DEF BuddyInv
<1>1. PICK b \in want["task"] .. MaxBin :
         \E a \in free[b] :
            /\ node' = [node EXCEPT !["task"] = a]
            /\ idx' = [idx EXCEPT !["task"] = b]
            /\ nbin' = [nbin EXCEPT !["task"] = b]
  BY DEF Scan
<1>2. want["task"] \in Bin /\ b \in Bin
  BY <1>1, Sizes DEF TypeOK
<1>3. PICK a \in free[b] : /\ node' = [node EXCEPT !["task"] = a]
                            /\ idx' = [idx EXCEPT !["task"] = b]
                            /\ nbin' = [nbin EXCEPT !["task"] = b]
  BY <1>1
<1>4. a \in Nat
  BY <1>2, <1>3 DEF TypeOK
<1>5. pc' = [pc EXCEPT !["task"] = "take"] /\ UNCHANGED <<free, alloc, curr, lost, want>>
  BY DEF Scan, Goto
<1>6. TypeOK'
  BY <1>2, <1>3, <1>4, <1>5 DEF TypeOK, PCs
<1>7. NoOverlap'
  BY <1>5 DEF NoOverlap, Apart
<1>8. pc'["task"] = "take" /\ pc'["fiq"] = "idle"
  BY <1>5 DEF TypeOK, Alone
<1>9. node'["task"] = a /\ idx'["task"] = b /\ want["task"] <= b
  BY <1>1, <1>2, <1>3 DEF TypeOK
<1>10. Alone'
  BY <1>5, <1>8, <1>9 DEF Alone
<1>11. HeldApart'
  BY <1>8 DEF HeldApart, Holding
<1>12. QED
  BY <1>6, <1>7, <1>10, <1>11

\* The locals of a call that returns keep their types.
LEMMA ReturnType ==
    ASSUME TypeOK, Return("task"),
           free' \in [Bin -> SUBSET Nat], alloc' \in [Bin -> SUBSET Nat],
           curr' \in Int, lost' \in Nat
    PROVE  TypeOK'
<1>1. 0 \in Bin
  BY Sizes
<1>2. pc' \in [Ctx -> PCs]
  BY DEF TypeOK, Return, Goto, PCs
<1>3. node' \in [Ctx -> Nat]
  BY DEF TypeOK, Return
<1>4. nbin' \in [Ctx -> Bin] /\ idx' \in [Ctx -> Bin] /\ want' \in [Ctx -> Bin]
  BY <1>1 DEF TypeOK, Return
<1>5. QED
  BY <1>2, <1>3, <1>4 DEF TypeOK

\* A call that returns, leaving every tree as it is.
LEMMA ReturnStep ==
    ASSUME BuddyInv, Return("task"), UNCHANGED <<free, alloc, curr>>,
           lost' \in Nat
    PROVE  BuddyInv'
<1> USE DEF BuddyInv
<1>1. TypeOK'
  BY Sizes DEF TypeOK, PCs, Return, Goto
<1>2. NoOverlap'
  BY DEF NoOverlap, Apart
<1>3. pc'["task"] = "idle" /\ pc'["fiq"] = "idle"
  BY DEF TypeOK, Alone, Return, Goto
<1>4. Alone'
  BY <1>3 DEF Alone
<1>5. HeldApart'
  BY <1>3 DEF HeldApart, Holding
<1>6. QED
  BY <1>1, <1>2, <1>4, <1>5

\* The block taken was free, so it overlaps nothing that is left.
LEMMA TakeStep ==
    ASSUME BuddyInv, Take("task")
    PROVE  BuddyInv'
<1> USE DEF BuddyInv
<1> DEFINE a == node["task"]
           i == idx["task"]
<1>1. /\ pc["task"] = "take" /\ pc["fiq"] = "idle"
      /\ i \in Bin /\ want["task"] \in Bin /\ want["task"] <= i
      /\ a \in Nat /\ a \in free[i] /\ a # 0
  BY DEF Take, TypeOK, Alone
<1>2. free' = [b \in Bin |-> free[b] \ {a}]
  BY DEF Take
<1>3. PICK b \in Bin : a \in free[b] /\ nbin' = [nbin EXCEPT !["task"] = b]
  BY <1>1 DEF Take
<1>4. b = i
  BY <1>1, <1>3, SameAddress
<1>5. /\ pc' = [pc EXCEPT !["task"] = IF i = want["task"] THEN "give" ELSE "split"]
      /\ UNCHANGED <<alloc, curr, lost, node, idx, want>>
  BY DEF Take, Goto
<1>6. TypeOK'
  BY <1>1, <1>2, <1>3, <1>5 DEF TypeOK, PCs
<1>7. \A d \in Bin : free'[d] \subseteq free[d] /\ a \notin free'[d] /\ alloc'[d] = alloc[d]
  BY <1>2, <1>5
<1>8. NoOverlap'
  BY <1>7 DEF NoOverlap, Apart
<1>9. pc'["task"] \in {"give", "split"} /\ pc'["fiq"] = "idle"
  BY <1>1, <1>5 DEF TypeOK
<1>10. Alone'
  BY <1>7, <1>9 DEF Alone
<1>11. node'["task"] = a /\ nbin'["task"] = i /\ idx'["task"] = i /\ want' = want
  BY <1>3, <1>4, <1>5 DEF TypeOK
<1>12. pc'["task"] = "split" => want["task"] < i
  BY <1>1, <1>5 DEF TypeOK
<1>13. ASSUME NEW d \in Bin, NEW x \in free'[d] \cup alloc'[d]
       PROVE  Apart(a, i, x, d)
  <2>1. CASE x \in free'[d]
    BY <2>1, <1>1, <1>7 DEF NoOverlap
  <2>2. CASE x \in alloc'[d]
    BY <2>2, <1>1, <1>7 DEF NoOverlap
  <2>3. QED
    BY <1>13, <2>1, <2>2
<1>14. HeldApart'
  BY <1>1, <1>11, <1>12, <1>13 DEF HeldApart, Apart
<1>15. QED
  BY <1>6, <1>8, <1>10, <1>14

\* Both halves lie inside the block that is split.
LEMMA SplitStep ==
    ASSUME BuddyInv, Split("task")
    PROVE  BuddyInv'
<1> USE DEF BuddyInv
<1> DEFINE a == node["task"]
           i == idx["task"]
           h == i - 1
           m == a + Size[h]
<1>1. /\ pc["task"] = "split" /\ pc["fiq"] = "idle"
      /\ i \in Bin /\ want["task"] \in Bin /\ want["task"] < i /\ nbin["task"] = i
      /\ a \in Nat /\ a # 0
  BY DEF Split, TypeOK, Alone, HeldApart, Holding
<1>2. i \in Nat /\ want["task"] \in Nat /\ i > 0
  BY <1>1, Sizes
<1>3. h \in Bin /\ Size[h] \in Nat /\ Size[h] > 0 /\ Size[i] = 2 * Size[h]
  BY <1>1, <1>2, Sizes
<1>4. m \in Nat /\ m # 0
  BY <1>1, <1>3
<1>5. /\ free' = [free EXCEPT ![h] = @ \cup {m}]
      /\ nbin' = [nbin EXCEPT !["task"] = h]
      /\ idx' = [idx EXCEPT !["task"] = h]
      /\ pc' = [pc EXCEPT !["task"] = IF h = want["task"] THEN "give" ELSE "split"]
      /\ UNCHANGED <<alloc, curr, lost, node, want>>
  BY DEF Split, Goto
<1>6. TypeOK'
  BY <1>3, <1>4, <1>5 DEF TypeOK, PCs
<1>7. \A d \in Bin : alloc'[d] = alloc[d] /\ (d # h => free'[d] = free[d])
  BY <1>5 DEF TypeOK
<1>8. free'[h] = free[h] \cup {m}
  BY <1>3, <1>5 DEF TypeOK
<1>9. ASSUME NEW d \in Bin, NEW x \in free[d] \cup alloc[d]
      PROVE  Apart(a, h, x, d) /\ Apart(m, h, x, d)
  <2>1. Apart(a, i, x, d)
    BY <1>1, <1>9 DEF HeldApart, Holding
  <2>2. x \in Nat /\ Size[d] \in Nat
    BY <1>9, Sizes DEF TypeOK
  <2>3. QED
    BY <1>1, <1>3, <2>1, <2>2 DEF Apart
<1>10. Apart(a, h, m, h)
  BY <1>1, <1>3 DEF Apart
<1>11. \A x \in Nat, d \in Bin : Apart(m, h, x, d) => Apart(x, d, m, h)
  BY DEF Apart
<1>12. NoOverlap'
  <2>1. ASSUME NEW b \in Bin, NEW d \in Bin, NEW y \in free'[b], NEW x \in alloc'[d]
        PROVE  Apart(y, b, x, d)
    BY <1>7, <1>8, <1>9, <2>1 DEF NoOverlap
  <2>2. ASSUME NEW b \in Bin, NEW d \in Bin, NEW y \in free'[b], NEW x \in free'[d]
        PROVE  <<y, b>> = <<x, d>> \/ Apart(y, b, x, d)
    <3>1. CASE y \in free[b] /\ x \in free[d]
      BY <3>1 DEF NoOverlap
    <3>2. CASE y = m /\ b = h /\ x \in free[d]
      BY <3>2, <1>9
    <3>3. CASE y \in free[b] /\ x = m /\ d = h
      BY <3>3, <1>9, <1>11 DEF TypeOK
    <3>4. CASE y = m /\ b = h /\ x = m /\ d = h
      BY <3>4
    <3>5. QED
      BY <2>2, <3>1, <3>2, <3>3, <3>4, <1>7, <1>8
  <2>3. ASSUME NEW b \in Bin, NEW d \in Bin, NEW y \in alloc'[b], NEW x \in alloc'[d]
        PROVE  <<y, b>> = <<x, d>> \/ Apart(y, b, x, d)
    BY <1>7, <2>3 DEF NoOverlap
  <2>4. QED
    BY <2>1, <2>2, <2>3 DEF NoOverlap, Apart
<1>13. pc'["task"] \in {"give", "split"} /\ pc'["fiq"] = "idle"
  BY <1>1, <1>5 DEF TypeOK
<1>14. Alone'
  <2>1. \A b \in Bin : 0 \notin free'[b] /\ 0 \notin alloc'[b]
    BY <1>4, <1>7, <1>8 DEF Alone
  <2>2. QED
    BY <1>13, <2>1 DEF Alone
<1>15. node'["task"] = a /\ nbin'["task"] = h /\ idx'["task"] = h /\ want' = want
  BY <1>5 DEF TypeOK
<1>16. pc'["task"] = "split" => want["task"] < h
  BY <1>1, <1>2, <1>5 DEF TypeOK
<1>17. ASSUME NEW d \in Bin, NEW x \in free'[d] \cup alloc'[d]
       PROVE  Apart(a, h, x, d)
  BY <1>7, <1>8, <1>9, <1>10, <1>17
<1>18. HeldApart'
  BY <1>1, <1>15, <1>16, <1>17 DEF HeldApart, Apart
<1>19. QED
  BY <1>6, <1>12, <1>14, <1>18

\* The block the task holds joins the allocated ones.
LEMMA GiveStep ==
    ASSUME BuddyInv, Give("task")
    PROVE  BuddyInv'
<1> USE DEF BuddyInv
<1> DEFINE a == node["task"]
           k == nbin["task"]
<1>1. /\ pc["task"] = "give" /\ pc["fiq"] = "idle"
      /\ k \in Bin /\ Size[k] \in Nat /\ a \in Nat /\ a # 0
  BY Sizes DEF Give, TypeOK, Alone, HeldApart, Holding
<1>2. /\ alloc' = [alloc EXCEPT ![k] = @ \cup ({a} \ {0})]
      /\ curr' = curr - Size[k]
      /\ UNCHANGED <<free, lost>> /\ Return("task")
  BY DEF Give
<1>3. TypeOK'
  <2>1. alloc' \in [Bin -> SUBSET Nat] /\ free' \in [Bin -> SUBSET Nat]
    BY <1>1, <1>2 DEF TypeOK
  <2>2. curr' \in Int
    BY <1>1, <1>2 DEF TypeOK
  <2>3. lost' \in Nat
    BY <1>2 DEF TypeOK
  <2>4. QED
    BY <1>2, <2>1, <2>2, <2>3, ReturnType
<1>4. /\ \A d \in Bin : free'[d] = free[d] /\ (d # k => alloc'[d] = alloc[d])
      /\ alloc'[k] = alloc[k] \cup {a}
  BY <1>1, <1>2 DEF TypeOK
<1>5. \A d \in Bin : \A x \in free[d] \cup alloc[d] : Apart(a, k, x, d) /\ Apart(x, d, a, k)
  BY <1>1 DEF HeldApart, Holding, Apart
<1>6. NoOverlap'
  <2>1. ASSUME NEW b \in Bin, NEW d \in Bin, NEW y \in free'[b], NEW x \in alloc'[d]
        PROVE  Apart(y, b, x, d)
    BY <1>4, <1>5, <2>1 DEF NoOverlap
  <2>2. ASSUME NEW b \in Bin, NEW d \in Bin, NEW y \in free'[b], NEW x \in free'[d]
        PROVE  <<y, b>> = <<x, d>> \/ Apart(y, b, x, d)
    BY <1>4, <2>2 DEF NoOverlap
  <2>3. ASSUME NEW b \in Bin, NEW d \in Bin, NEW y \in alloc'[b], NEW x \in alloc'[d]
        PROVE  <<y, b>> = <<x, d>> \/ Apart(y, b, x, d)
    BY <1>4, <1>5, <2>3 DEF NoOverlap
  <2>4. QED
    BY <2>1, <2>2, <2>3 DEF NoOverlap, Apart
<1>7. pc'["task"] = "idle" /\ pc'["fiq"] = "idle"
  BY <1>1, <1>2 DEF TypeOK, Return, Goto
<1>8. \A b \in Bin : 0 \notin free'[b] /\ 0 \notin alloc'[b]
  BY <1>1, <1>4 DEF Alone
<1>9. Alone'
  BY <1>7, <1>8 DEF Alone
<1>10. HeldApart'
  BY <1>7 DEF HeldApart, Holding
<1>11. QED
  BY <1>3, <1>6, <1>9, <1>10

\* A freed block changes trees and stays where it is.
LEMMA FreeBlock ==
    ASSUME BuddyInv, NEW b \in Bin, NEW a \in alloc[b], sw_buddy_free("task", a)
    PROVE  BuddyInv'
<1> USE DEF BuddyInv
<1>1. /\ pc["task"] = "idle" /\ pc["fiq"] = "idle"
      /\ a \in Nat /\ a # 0
  BY DEF sw_buddy_free, TypeOK, Alone
<1>2. PICK k \in Bin :
         /\ a \in alloc[k]
         /\ curr' = curr + Size[k]
         /\ alloc' = [alloc EXCEPT ![k] = @ \ {a}]
         /\ free' = [free EXCEPT ![k] = @ \cup {a}]
         /\ IF k = MaxBin THEN Return("task")
            ELSE /\ node' = [node EXCEPT !["task"] = a]
                 /\ nbin' = [nbin EXCEPT !["task"] = k]
                 /\ idx' = [idx EXCEPT !["task"] = k]
                 /\ Goto("task", "merge")
                 /\ UNCHANGED want
  BY DEF sw_buddy_free
<1>3. TypeOK'
  <2>1. free' \in [Bin -> SUBSET Nat] /\ alloc' \in [Bin -> SUBSET Nat]
    BY <1>1, <1>2 DEF TypeOK
  <2>a. Size[k] \in Nat
    BY Sizes
  <2>b. lost' = lost
    BY DEF sw_buddy_free
  <2>c. curr' \in Int
    BY <1>2, <2>a DEF TypeOK
  <2>2. curr' \in Int /\ lost' \in Nat
    BY <2>b, <2>c DEF TypeOK
  <2>3. CASE k = MaxBin
    BY <1>2, <2>1, <2>2, <2>3, ReturnType
  <2>4. CASE k # MaxBin
    BY SMTT(30), <1>1, <1>2, <2>1, <2>2, <2>4 DEF TypeOK, PCs, Goto
  <2>5. QED
    BY <2>3, <2>4
<1>4. /\ \A d \in Bin : d # k => alloc'[d] = alloc[d] /\ free'[d] = free[d]
      /\ alloc'[k] = alloc[k] \ {a} /\ free'[k] = free[k] \cup {a}
  BY <1>2 DEF TypeOK
<1>5. \A d \in Bin : \A x \in free[d] : Apart(a, k, x, d) /\ Apart(x, d, a, k)
  BY <1>2 DEF NoOverlap, Apart
<1>6. \A d \in Bin : \A x \in alloc'[d] : Apart(a, k, x, d) /\ Apart(x, d, a, k)
  BY <1>2, <1>4 DEF NoOverlap, Apart
<1>7. NoOverlap'
  <2>1. ASSUME NEW c \in Bin, NEW d \in Bin, NEW y \in free'[c], NEW x \in alloc'[d]
        PROVE  Apart(y, c, x, d)
    BY <1>4, <1>6, <2>1 DEF NoOverlap
  <2>2. ASSUME NEW c \in Bin, NEW d \in Bin, NEW y \in free'[c], NEW x \in free'[d]
        PROVE  <<y, c>> = <<x, d>> \/ Apart(y, c, x, d)
    BY <1>4, <1>5, <2>2 DEF NoOverlap
  <2>3. ASSUME NEW c \in Bin, NEW d \in Bin, NEW y \in alloc'[c], NEW x \in alloc'[d]
        PROVE  <<y, c>> = <<x, d>> \/ Apart(y, c, x, d)
    BY <1>4, <2>3 DEF NoOverlap
  <2>4. QED
    BY <2>1, <2>2, <2>3 DEF NoOverlap, Apart
<1>8. pc'["task"] \in {"idle", "merge"} /\ pc'["fiq"] = "idle"
  BY <1>1, <1>2 DEF TypeOK, Return, Goto
<1>9. \A d \in Bin : 0 \notin free'[d] /\ 0 \notin alloc'[d]
  BY <1>1, <1>4 DEF Alone
<1>10. Alone'
  BY <1>8, <1>9 DEF Alone
<1>11. HeldApart'
  BY <1>8 DEF HeldApart, Holding
<1>12. QED
  BY <1>3, <1>7, <1>10, <1>11

\* Two neighbours that become one block cover the same memory as before.
LEMMA MergeStep ==
    ASSUME BuddyInv, Merge("task")
    PROVE  BuddyInv'
<1> USE DEF BuddyInv
<1> DEFINE b == idx["task"]
<1>1. /\ pc["task"] = "merge" /\ pc["fiq"] = "idle"
      /\ b \in Bin /\ b < MaxBin
      /\ UNCHANGED <<alloc, curr, lost>>
  BY DEF Merge, TypeOK, Alone
<1>2. /\ b + 1 \in Bin /\ b + 1 # b
      /\ Size[b] \in Nat /\ Size[b] > 0 /\ Size[b + 1] = 2 * Size[b]
  BY <1>1, Sizes
<1>3. PICK f \in free[b] :
         /\ Buddies(b, f)
         /\ free' = [free EXCEPT ![b] = @ \ {f, f + Size[b]}, ![b + 1] = @ \cup {f}]
         /\ Merged("task", b + 1, f + Size[b])
  BY DEF Merge
<1> DEFINE m == f + Size[b]
<1>4. f \in Nat /\ f # 0 /\ m \in Nat /\ f \in free[b] /\ m \in free[b] /\ m # f
  BY SMTT(30), <1>1, <1>2, <1>3 DEF TypeOK, Alone, Buddies
<1>5. /\ free'[b] = free[b] \ {f, m}
      /\ free'[b + 1] = free[b + 1] \cup {f}
      /\ \A d \in Bin : d # b /\ d # b + 1 => free'[d] = free[d]
      /\ \A d \in Bin : alloc'[d] = alloc[d]
  BY <1>1, <1>2, <1>3 DEF TypeOK
<1>6. TypeOK'
  <2>1. free' \in [Bin -> SUBSET Nat]
    BY <1>2, <1>3, <1>4 DEF TypeOK
  <2>2. node' \in [Ctx -> Nat]
    BY <1>3 DEF TypeOK, Merged
  <2>3. 0 \in Bin /\ b + 1 \in Bin
    BY <1>2, Sizes
  <2>4. nbin' \in [Ctx -> Bin] /\ idx' \in [Ctx -> Bin] /\ want' \in [Ctx -> Bin]
    BY <1>3, <2>3 DEF TypeOK, Merged
  <2>5. pc' \in [Ctx -> PCs]
    BY <1>3 DEF TypeOK, Merged, Goto, PCs
  <2>6. alloc' \in [Bin -> SUBSET Nat] /\ curr' \in Int /\ lost' \in Nat
    BY <1>1 DEF TypeOK
  <2>7. QED
    BY <2>1, <2>2, <2>4, <2>5, <2>6 DEF TypeOK
<1>7. ASSUME NEW d \in Bin, NEW x \in Nat, Apart(f, b, x, d), Apart(m, b, x, d)
      PROVE  Apart(f, b + 1, x, d) /\ Apart(x, d, f, b + 1)
  <2>1. Size[d] \in Nat /\ Size[d] > 0
    BY Sizes
  <2>2. QED
    BY <1>2, <1>4, <1>7, <2>1 DEF Apart
<1>8. ASSUME NEW d \in Bin, NEW x \in alloc[d]
      PROVE  Apart(f, b + 1, x, d)
  <2>1. x \in Nat /\ Apart(f, b, x, d) /\ Apart(m, b, x, d)
    BY <1>4, <1>8, <1>1 DEF TypeOK, NoOverlap
  <2>2. QED
    BY <2>1, <1>7
<1>9. ASSUME NEW d \in Bin, NEW x \in free[d], <<x, d>> # <<f, b>>, <<x, d>> # <<m, b>>
      PROVE  Apart(f, b + 1, x, d) /\ Apart(x, d, f, b + 1)
  <2>1. x \in Nat /\ Apart(f, b, x, d) /\ Apart(m, b, x, d)
    BY <1>4, <1>9, <1>1 DEF TypeOK, NoOverlap
  <2>2. QED
    BY <2>1, <1>7
<1>10. ASSUME NEW d \in Bin, NEW x \in free'[d]
       PROVE  \/ x = f /\ d = b + 1
              \/ x \in free[d] /\ <<x, d>> # <<f, b>> /\ <<x, d>> # <<m, b>>
  <2>1. CASE d = b
    BY <1>5, <1>10, <2>1
  <2>2. CASE d = b + 1
    BY <1>2, <1>5, <1>10, <2>2
  <2>3. CASE d # b /\ d # b + 1
    BY <1>5, <1>10, <2>3
  <2>4. QED
    BY <2>1, <2>2, <2>3
<1>11. NoOverlap'
  <2>1. ASSUME NEW c \in Bin, NEW d \in Bin, NEW y \in free'[c], NEW x \in alloc'[d]
        PROVE  Apart(y, c, x, d)
    <3>1. CASE y = f /\ c = b + 1
      BY <3>1, <2>1, <1>5, <1>8
    <3>2. CASE y \in free[c]
      BY <3>2, <2>1, <1>5 DEF NoOverlap
    <3>3. QED
      BY <2>1, <3>1, <3>2, <1>10
  <2>2. ASSUME NEW c \in Bin, NEW d \in Bin, NEW y \in free'[c], NEW x \in free'[d]
        PROVE  <<y, c>> = <<x, d>> \/ Apart(y, c, x, d)
    <3>1. CASE y = f /\ c = b + 1 /\ x = f /\ d = b + 1
      BY <3>1
    <3>2. CASE /\ y = f /\ c = b + 1
               /\ x \in free[d] /\ <<x, d>> # <<f, b>> /\ <<x, d>> # <<m, b>>
      BY <3>2, <1>9
    <3>3. CASE /\ x = f /\ d = b + 1
               /\ y \in free[c] /\ <<y, c>> # <<f, b>> /\ <<y, c>> # <<m, b>>
      BY <3>3, <1>9
    <3>4. CASE y \in free[c] /\ x \in free[d]
      BY <3>4 DEF NoOverlap
    <3>5. QED
      BY <2>2, <3>1, <3>2, <3>3, <3>4, <1>10
  <2>3. ASSUME NEW c \in Bin, NEW d \in Bin, NEW y \in alloc'[c], NEW x \in alloc'[d]
        PROVE  <<y, c>> = <<x, d>> \/ Apart(y, c, x, d)
    BY <1>5, <2>3 DEF NoOverlap
  <2>4. QED
    BY <2>1, <2>2, <2>3 DEF NoOverlap, Apart
<1>12. pc'["task"] \in {"idle", "merge"} /\ pc'["fiq"] = "idle"
  BY <1>1, <1>3 DEF TypeOK, Merged, Goto
<1>13. \A d \in Bin : 0 \notin free'[d] /\ 0 \notin alloc'[d]
  BY <1>4, <1>5, <1>10 DEF Alone
<1>14. Alone'
  BY <1>12, <1>13 DEF Alone
<1>15. HeldApart'
  BY <1>12 DEF HeldApart, Holding
<1>16. QED
  BY <1>6, <1>11, <1>14, <1>15

\* A round of the merging loop that merges nothing.
LEMMA NoMergeStep ==
    ASSUME BuddyInv, NoMerge("task")
    PROVE  BuddyInv'
<1> USE DEF BuddyInv
<1>1. pc["task"] = "merge" /\ UNCHANGED <<free, alloc, curr, lost>>
  BY DEF NoMerge
<1>2. CASE Return("task")
  BY <1>1, <1>2, ReturnStep DEF TypeOK
<1>3. CASE /\ idx["task"] # MaxBin
           /\ idx' = [idx EXCEPT !["task"] = idx["task"] + 1]
           /\ UNCHANGED <<pc, node, nbin, want>>
  <2>1. idx["task"] \in Bin /\ idx["task"] + 1 \in Bin
    BY <1>3, Sizes DEF TypeOK
  <2>2. TypeOK'
    BY <1>1, <1>3, <2>1 DEF TypeOK
  <2>3. NoOverlap'
    BY <1>1 DEF NoOverlap, Apart
  <2>4. Alone'
    BY <1>1, <1>3 DEF Alone
  <2>5. HeldApart'
    BY <1>1, <1>3 DEF HeldApart, Holding
  <2>6. QED
    BY <2>2, <2>3, <2>4, <2>5
<1>4. QED
  BY <1>2, <1>3 DEF NoMerge

\* Every step of the task keeps the invariant; without FIQs there is no other.
LEMMA BuddyStep ==
    ASSUME ~Fiqs, BuddyInv, [Next]_vars
    PROVE  BuddyInv'
<1>1. ASSUME NEW s \in 1 .. N, sw_buddy_alloc(s) PROVE BuddyInv'
  BY <1>1, RequestStep
<1>2. CASE AllocStep("task")
  <2>1. lost \in Nat /\ lost + 1 \in Nat
    BY DEF BuddyInv, TypeOK
  <2>2. CASE ScanFails("task")
    BY <2>1, <2>2, ReturnStep DEF ScanFails
  <2>3. CASE SplitFails("task")
    BY <2>1, <2>3, ReturnStep DEF SplitFails
  <2>4. QED
    BY <1>2, <2>2, <2>3, ScanStep, TakeStep, SplitStep, GiveStep DEF AllocStep
<1>3. ASSUME NEW c \in Ctx, FreeStep(c) PROVE BuddyInv'
  <2>1. c = "task"
    BY <1>3 DEF FreeStep, Merge, NoMerge, BuddyInv, Alone
  <2>2. QED
    BY <1>3, <2>1, MergeStep, NoMergeStep DEF FreeStep
<1>4. ASSUME NEW c \in Ctx, NEW b \in Bin, NEW a \in alloc[b], sw_buddy_free(c, a)
      PROVE  BuddyInv'
  <2>1. c = "task"
    BY <1>4 DEF sw_buddy_free
  <2>2. QED
    BY <1>4, <2>1, FreeBlock
<1>5. CASE UNCHANGED vars
  BY <1>5 DEF vars, BuddyInv, TypeOK, NoOverlap, Alone, HeldApart, Holding, Apart
<1>6. QED
  BY <1>1, <1>2, <1>3, <1>4, <1>5 DEF Next

\* Without FIQs the invariant above holds in every reachable state.
THEOREM BuddyInvariant == ~Fiqs /\ Spec => []BuddyInv
<1>1. Init => BuddyInv
  BY InitBuddy
<1>2. ~Fiqs /\ BuddyInv /\ [Next]_vars => BuddyInv'
  BY BuddyStep
<1>3. CASE Fiqs
  BY <1>3
<1>4. CASE ~Fiqs
  <2>1. BuddyInv /\ [Next]_vars => BuddyInv'
    BY <1>2, <1>4
  <2>2. QED
    BY <1>1, <2>1, PTL DEF Spec
<1>5. QED
  BY <1>3, <1>4

\* sw_buddy_alloc never hands out memory that is allocated or free already,
\* for every pool size and every sequence of calls, as long as no FIQ frees
\* a block while a task is inside the allocator.
THEOREM BlocksNeverOverlap == ~Fiqs /\ Spec => []NoOverlap
<1>1. BuddyInv => NoOverlap
  BY DEF BuddyInv
<1>2. QED
  BY <1>1, BuddyInvariant, PTL

\* curr_heap_size and the memory handed out change together, in every state
\* of a call.
Accounts == IsFiniteSet(Handed) /\ curr + Cardinality(Handed) = N

LEMMA InHanded ==
    ASSUME NEW x
    PROVE  x \in Handed <=> \E b \in Bin : \E a \in alloc[b] : x \in Block(a, b)
BY DEF Handed

LEMMA BlockSize ==
    ASSUME NEW a \in Nat, NEW b \in Bin
    PROVE  IsFiniteSet(Block(a, b)) /\ Cardinality(Block(a, b)) = Size[b]
<1>1. Size[b] \in Nat /\ Size[b] > 0
  BY Sizes
<1>2. a \in Int
  OBVIOUS
<1> DEFINE z == a + Size[b] - 1
<1>3. Block(a, b) = a .. z
  BY DEF Block
<1>4. z \in Int /\ ~ a > z /\ z - a + 1 = Size[b]
  BY <1>1
<1> HIDE DEF z
<1>5. IsFiniteSet(a .. z) /\ Cardinality(a .. z) = z - a + 1
  BY <1>2, <1>4, FS_Interval
<1> QED BY <1>3, <1>4, <1>5

LEMMA ApartBlocks ==
    ASSUME NEW a \in Nat, NEW b \in Bin, NEW x \in Nat, NEW d \in Bin, Apart(a, b, x, d)
    PROVE  Block(a, b) \cap Block(x, d) = {}
BY Sizes DEF Apart, Block

\* A block that is handed out charges its own size and no more.
LEMMA HandedGrows ==
    ASSUME BuddyInv, Accounts, NEW k \in Bin, NEW a \in Nat,
           \A d \in Bin : \A x \in alloc[d] : Apart(a, k, x, d),
           alloc' = [alloc EXCEPT ![k] = @ \cup {a}], curr' = curr - Size[k]
    PROVE  Accounts'
<1>1. alloc \in [Bin -> SUBSET Nat] /\ curr \in Int
  BY DEF BuddyInv, TypeOK
<1>2. \A d \in Bin : alloc'[d] = IF d = k THEN alloc[d] \cup {a} ELSE alloc[d]
  BY <1>1
<1>3. Handed' = UNION {UNION {Block(x, d) : x \in alloc'[d]} : d \in Bin}
  BY DEF Handed, Block
<1>4. Handed' = Handed \cup Block(a, k)
  <2>1. ASSUME NEW y PROVE y \in Handed' <=> y \in Handed \/ y \in Block(a, k)
    <3>1. y \in Handed' <=> \E d \in Bin : \E x \in alloc'[d] : y \in Block(x, d)
      BY <1>3
    <3>2. y \in Handed => y \in Handed'
      BY <1>2, <3>1, InHanded
    <3>3. y \in Block(a, k) => y \in Handed'
      BY <1>2, <3>1
    <3>4. y \in Handed' => y \in Handed \/ y \in Block(a, k)
      BY <1>2, <3>1, InHanded
    <3> QED BY <3>2, <3>3, <3>4
  <2> QED BY <2>1
<1>5. Handed \cap Block(a, k) = {}
  <2>1. ASSUME NEW y \in Handed, y \in Block(a, k) PROVE FALSE
    <3>0. PICK d \in Bin : \E x \in alloc[d] : y \in Block(x, d)
      BY <2>1, InHanded
    <3>1. PICK x \in alloc[d] : y \in Block(x, d)
      BY <3>0
    <3>2. x \in Nat /\ Apart(a, k, x, d)
      BY <1>1, <3>1
    <3> QED BY <2>1, <3>1, <3>2, ApartBlocks
  <2> QED BY <2>1
<1>6. IsFiniteSet(Handed) /\ IsFiniteSet(Block(a, k)) /\ Cardinality(Block(a, k)) = Size[k]
  BY BlockSize DEF Accounts
<1>7. /\ IsFiniteSet(Handed')
      /\ Cardinality(Handed') = Cardinality(Handed) + Cardinality(Block(a, k)) - Cardinality(Handed \cap Block(a, k))
  BY <1>4, <1>6, FS_Union
<1>8. Cardinality(Handed \cap Block(a, k)) = 0 /\ Cardinality(Handed) \in Nat /\ Size[k] \in Nat
  BY <1>5, <1>6, FS_EmptySet, FS_CardinalityType, Sizes
<1>9. curr' + Cardinality(Handed') = N
  BY <1>1, <1>6, <1>7, <1>8 DEF Accounts
<1>10. N' = N
  BY DEF N
<1> QED BY <1>7, <1>9, <1>10 DEF Accounts

\* A block that comes back gives back its own size and no more.
LEMMA HandedShrinks ==
    ASSUME BuddyInv, Accounts, NEW k \in Bin, NEW a \in alloc[k],
           alloc' = [alloc EXCEPT ![k] = @ \ {a}], curr' = curr + Size[k]
    PROVE  Accounts'
<1>1. alloc \in [Bin -> SUBSET Nat] /\ curr \in Int /\ a \in Nat
  BY DEF BuddyInv, TypeOK
<1>2. \A d \in Bin : alloc'[d] = IF d = k THEN alloc[d] \ {a} ELSE alloc[d]
  BY <1>1
<1>3. Handed' = UNION {UNION {Block(x, d) : x \in alloc'[d]} : d \in Bin}
  BY DEF Handed, Block
<1>4. ASSUME NEW d \in Bin, NEW x \in alloc'[d] PROVE Block(a, k) \cap Block(x, d) = {}
  <2>1. x \in alloc[d] /\ x \in Nat /\ <<a, k>> # <<x, d>>
    BY <1>1, <1>2, <1>4
  <2>2. Apart(a, k, x, d)
    BY <2>1 DEF BuddyInv, NoOverlap
  <2> QED BY <1>1, <2>1, <2>2, ApartBlocks
<1>5. Handed' = Handed \ Block(a, k)
  <2>1. ASSUME NEW y PROVE y \in Handed' <=> y \in Handed /\ y \notin Block(a, k)
    <3>1. y \in Handed' <=> \E d \in Bin : \E x \in alloc'[d] : y \in Block(x, d)
      BY <1>3
    <3>2. y \in Handed' => y \in Handed /\ y \notin Block(a, k)
      BY <1>2, <1>4, <3>1, InHanded
    <3>3. ASSUME y \in Handed, y \notin Block(a, k) PROVE y \in Handed'
      <4>0. PICK d \in Bin : \E x \in alloc[d] : y \in Block(x, d)
        BY <3>3, InHanded
      <4>1. PICK x \in alloc[d] : y \in Block(x, d)
        BY <4>0
      <4>2. x \in alloc'[d]
        BY <1>2, <3>3, <4>1
      <4> QED BY <3>1, <4>1, <4>2
    <3> QED BY <3>2, <3>3
  <2> QED BY <2>1
<1>6. Handed \cap Block(a, k) = Block(a, k)
  <2>1. Block(a, k) \subseteq Handed
    BY InHanded
  <2> QED BY <2>1
<1>7. IsFiniteSet(Handed) /\ Cardinality(Block(a, k)) = Size[k]
  BY <1>1, BlockSize DEF Accounts
<1>8. /\ IsFiniteSet(Handed')
      /\ Cardinality(Handed') = Cardinality(Handed) - Cardinality(Handed \cap Block(a, k))
  BY <1>5, <1>7, FS_Difference
<1>9. Cardinality(Handed) \in Nat /\ Size[k] \in Nat
  BY <1>7, FS_CardinalityType, Sizes
<1> DEFINE h == Cardinality(Handed)
<1>a. curr + h = N /\ h \in Nat /\ Cardinality(Handed') = h - Size[k]
  BY <1>6, <1>7, <1>8, <1>9 DEF Accounts
<1> HIDE DEF h
<1>10. curr' + Cardinality(Handed') = N
  BY <1>1, <1>9, <1>a
<1>11. N' = N
  BY DEF N
<1> QED BY <1>8, <1>10, <1>11 DEF Accounts

LEMMA HandedSame ==
    ASSUME Accounts, alloc' = alloc, curr' = curr
    PROVE  Accounts'
<1>1. Handed' = Handed /\ N' = N
  BY DEF Handed, Block, N
<1> QED BY <1>1 DEF Accounts

LEMMA AccountsInit == ASSUME Init PROVE Accounts
<1>1. \A b \in Bin : alloc[b] = {}
  BY DEF Init
<1>2. Handed = {}
  BY <1>1, InHanded
<1>3. MaxBin - 1 \in Bin /\ N \in Nat
  BY BuddyAssumption DEF N
<1>4. curr = N /\ IsFiniteSet(Handed) /\ Cardinality(Handed) = 0
  BY <1>2, FS_EmptySet DEF Init
<1> QED BY <1>3, <1>4 DEF Accounts

LEMMA AccountsStep ==
    ASSUME ~Fiqs, BuddyInv, Accounts, [Next]_vars
    PROVE  Accounts'
<1>1. ASSUME NEW s \in 1 .. N, sw_buddy_alloc(s) PROVE Accounts'
  BY <1>1, HandedSame DEF sw_buddy_alloc
<1>2. ASSUME Give("task") PROVE Accounts'
  <2> DEFINE a == node["task"]
             k == nbin["task"]
  <2>1. k \in Bin /\ a \in Nat /\ a # 0 /\ \A d \in Bin : \A x \in alloc[d] : Apart(a, k, x, d)
    BY <1>2 DEF Give, BuddyInv, TypeOK, HeldApart, Holding
  <2>2. alloc' = [alloc EXCEPT ![k] = @ \cup {a}] /\ curr' = curr - Size[k]
    <3>1. {a} \ {0} = {a}
      BY <2>1
    <3> QED BY <1>2, <3>1 DEF Give
  <2> HIDE DEF a, k
  <2> QED BY <2>1, <2>2, HandedGrows
<1>3. CASE AllocStep("task")
  <2>1. Give("task") \/ (alloc' = alloc /\ curr' = curr)
    BY <1>3 DEF AllocStep, Scan, ScanFails, Take, Split, SplitFails
  <2> QED BY <1>2, <2>1, HandedSame
<1>4. ASSUME NEW c \in Ctx, FreeStep(c) PROVE Accounts'
  BY <1>4, HandedSame DEF FreeStep, Merge, NoMerge
<1>5. ASSUME NEW c \in Ctx, NEW b \in Bin, NEW a \in alloc[b], sw_buddy_free(c, a)
      PROVE  Accounts'
  <2>1. PICK k \in Bin : /\ a \in alloc[k] /\ curr' = curr + Size[k]
                         /\ alloc' = [alloc EXCEPT ![k] = @ \ {a}]
    BY <1>5 DEF sw_buddy_free
  <2> QED BY <2>1, HandedShrinks
<1>6. CASE UNCHANGED vars
  BY <1>6, HandedSame DEF vars
<1> QED BY <1>1, <1>3, <1>4, <1>5, <1>6 DEF Next

\* curr_heap_size is exact after every call of sw_buddy_alloc and
\* sw_buddy_free, the requests that fail in the middle of a split included,
\* as long as no FIQ frees a block while a task is inside the allocator.
THEOREM HeapAccounts == ~Fiqs /\ Spec => []HeapSizeExact
<1>1. Init => BuddyInv /\ Accounts
  BY InitBuddy, AccountsInit
<1>2. ~Fiqs /\ BuddyInv /\ Accounts /\ [Next]_vars => BuddyInv' /\ Accounts'
  BY BuddyStep, AccountsStep
<1>3. Accounts => HeapSizeExact
  BY DEF Accounts, HeapSizeExact
<1>4. CASE Fiqs
  BY <1>4
<1>5. CASE ~Fiqs
  <2>1. BuddyInv /\ Accounts /\ [Next]_vars => BuddyInv' /\ Accounts'
    BY <1>2, <1>5
  <2> QED BY <1>1, <1>3, <2>1, PTL DEF Spec
<1> QED BY <1>4, <1>5
=============================================================================
