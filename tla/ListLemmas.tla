----------------------------- MODULE ListLemmas -----------------------------
(***************************************************************************)
(* Facts about the linked lists of the kernel and of the driver, modelled  *)
(* as sequences without duplicates: what linking a node at the tail,       *)
(* taking the first one and unlinking one do to the set of linked nodes.   *)
(***************************************************************************)
EXTENDS Integers, Sequences, SequencesExt, FiniteSetTheorems, WellFoundedInduction, TLAPS

\* Linking at the tail.
LEMMA AppendFacts ==
    ASSUME NEW S, NEW s \in Seq(S), NEW e \in S
    PROVE  /\ Append(s, e) \in Seq(S)
           /\ Range(Append(s, e)) = Range(s) \cup {e}
           /\ Append(s, e) # <<>>
           /\ IsInjective(s) /\ e \notin Range(s) => IsInjective(Append(s, e))
           /\ s # <<>> => Head(Append(s, e)) = Head(s)
<1> DEFINE a == Append(s, e)
<1>1. a \in Seq(S) /\ DOMAIN a = 1 .. (Len(s) + 1) /\ DOMAIN s = 1 .. Len(s) /\ Len(s) \in Nat
      /\ Len(a) = Len(s) + 1
  OBVIOUS
<1>2. \A i \in DOMAIN s : a[i] = s[i]
  OBVIOUS
<1>3. a[Len(s) + 1] = e
  OBVIOUS
<1>4. Range(a) = Range(s) \cup {e}
  BY <1>1, <1>2, <1>3 DEF Range
<1>5. IsInjective(s) /\ e \notin Range(s) => IsInjective(a)
  BY <1>1, <1>2, <1>3 DEF IsInjective, Range
<1>6. s # <<>> => Head(a) = Head(s)
  OBVIOUS
<1> QED
  BY <1>1, <1>4, <1>5, <1>6

\* Taking the first node.
LEMMA HeadTailFacts ==
    ASSUME NEW S, NEW s \in Seq(S), s # <<>>
    PROVE  /\ Head(s) \in S /\ Tail(s) \in Seq(S)
           /\ Range(s) = {Head(s)} \cup Range(Tail(s))
           /\ IsInjective(s) => IsInjective(Tail(s)) /\ Head(s) \notin Range(Tail(s))
<1> DEFINE r == Tail(s)
<1>1. Len(s) \in Nat /\ Len(s) > 0 /\ DOMAIN s = 1 .. Len(s) /\ Head(s) = s[1]
  OBVIOUS
<1>2. r \in Seq(S) /\ Len(r) = Len(s) - 1 /\ DOMAIN r = 1 .. Len(r)
      /\ \A i \in DOMAIN r : r[i] = s[i + 1]
  OBVIOUS
<1>3. Range(s) = {Head(s)} \cup Range(r)
  <2>1. ASSUME NEW i \in DOMAIN s PROVE s[i] \in {Head(s)} \cup Range(r)
    <3>1. CASE i = 1
      BY <1>1, <3>1
    <3>2. CASE i # 1
      <4>1. i - 1 \in DOMAIN r /\ r[i - 1] = s[i]
        BY <1>1, <1>2, <3>2
      <4> QED
        BY <4>1 DEF Range
    <3> QED
      BY <3>1, <3>2
  <2>2. Head(s) \in Range(s)
    BY <1>1 DEF Range
  <2>3. \A i \in DOMAIN r : i + 1 \in DOMAIN s
    BY <1>1, <1>2
  <2>4. ASSUME NEW i \in DOMAIN r PROVE r[i] \in Range(s)
    BY <1>2, <2>3 DEF Range
  <2> QED
    BY <2>1, <2>2, <2>4 DEF Range
<1>4. ASSUME IsInjective(s) PROVE IsInjective(r) /\ Head(s) \notin Range(r)
  BY <1>1, <1>2, <1>4 DEF IsInjective, Range
<1> QED
  BY <1>1, <1>2, <1>3, <1>4

\* The first node of a list is one of its nodes.
LEMMA HeadInRange ==
    ASSUME NEW S, NEW s \in Seq(S), s # <<>>
    PROVE  Head(s) \in Range(s) /\ Head(s) \in S
BY HeadTailFacts

LEMMA EmptyFacts == Range(<<>>) = {} /\ IsInjective(<<>>)
BY DEF Range, IsInjective

\* Unlinking the node at place k.
LEMMA RemoveAtFacts ==
    ASSUME NEW S, NEW s \in Seq(S), NEW k \in DOMAIN s
    PROVE  /\ RemoveAt(s, k) \in Seq(S) /\ Len(RemoveAt(s, k)) = Len(s) - 1
           /\ \A i \in 1 .. (Len(s) - 1) :
                 RemoveAt(s, k)[i] = IF i < k THEN s[i] ELSE s[i + 1]
<1> DEFINE a == SubSeq(s, 1, k - 1)
           b == SubSeq(s, k + 1, Len(s))
<1>1. Len(s) \in Nat /\ k \in 1 .. Len(s)
  OBVIOUS
<1>2. a \in Seq(S) /\ Len(a) = k - 1 /\ \A i \in 1 .. (k - 1) : a[i] = s[i]
  BY <1>1
<1>3. b \in Seq(S) /\ Len(b) = Len(s) - k /\ \A i \in 1 .. (Len(s) - k) : b[i] = s[k + i]
  BY <1>1
<1> HIDE DEF a, b
<1>4. a \o b \in Seq(S) /\ Len(a \o b) = Len(s) - 1
  BY <1>1, <1>2, <1>3
<1>5. ASSUME NEW i \in 1 .. (Len(s) - 1)
      PROVE  (a \o b)[i] = IF i < k THEN s[i] ELSE s[i + 1]
  <2>1. (a \o b)[i] = IF i <= Len(a) THEN a[i] ELSE b[i - Len(a)]
    BY SMTT(30), <1>1, <1>2, <1>3
  <2> QED
    BY <1>1, <1>2, <1>3, <2>1
<1> QED
  BY <1>4, <1>5 DEF RemoveAt, a, b

\* Linking before the node at place k.
LEMMA InsertAtFacts ==
    ASSUME NEW S, NEW s \in Seq(S), NEW e \in S, NEW k \in 1 .. (Len(s) + 1)
    PROVE  /\ InsertAt(s, k, e) \in Seq(S) /\ Len(InsertAt(s, k, e)) = Len(s) + 1
           /\ \A i \in 1 .. (Len(s) + 1) :
                 InsertAt(s, k, e)[i] = IF i < k THEN s[i] ELSE IF i = k THEN e ELSE s[i - 1]
<1> DEFINE a == SubSeq(s, 1, k - 1)
           b == SubSeq(s, k, Len(s))
           c == a \o <<e>>
<1>1. Len(s) \in Nat /\ k \in Nat
  OBVIOUS
<1>2. a \in Seq(S) /\ Len(a) = k - 1 /\ \A i \in 1 .. (k - 1) : a[i] = s[i]
  BY <1>1
<1>3. b \in Seq(S) /\ Len(b) = Len(s) - k + 1 /\ \A i \in 1 .. (Len(s) - k + 1) : b[i] = s[k + i - 1]
  BY <1>1
<1> HIDE DEF a, b
<1>4. c \in Seq(S) /\ Len(c) = k /\ c[k] = e /\ \A i \in 1 .. (k - 1) : c[i] = s[i]
  BY <1>1, <1>2
<1> HIDE DEF c
<1>5. c \o b \in Seq(S) /\ Len(c \o b) = Len(s) + 1
  BY <1>1, <1>3, <1>4
<1>6. ASSUME NEW i \in 1 .. (Len(s) + 1)
      PROVE  (c \o b)[i] = IF i < k THEN s[i] ELSE IF i = k THEN e ELSE s[i - 1]
  <2>1. (c \o b)[i] = IF i <= Len(c) THEN c[i] ELSE b[i - Len(c)]
    BY <1>1, <1>3, <1>4
  <2>2. CASE i <= k
    BY <1>1, <1>4, <2>1, <2>2
  <2>3. CASE i > k
    <3>1. i - k \in 1 .. (Len(s) - k + 1) /\ k + (i - k) - 1 = i - 1
      BY <1>1, <2>3
    <3> QED
      BY <1>1, <1>3, <1>4, <2>1, <2>3, <3>1
  <2>4. i <= k \/ i > k
    BY <1>1
  <2> QED
    BY <2>2, <2>3, <2>4
<1> QED
  BY <1>5, <1>6 DEF InsertAt, a, b, c

LEMMA InsertAtElement ==
    ASSUME NEW S, NEW s \in Seq(S), NEW e \in S, NEW k \in 1 .. (Len(s) + 1),
           NEW i \in 1 .. (Len(s) + 1)
    PROVE  InsertAt(s, k, e)[i] = IF i < k THEN s[i] ELSE IF i = k THEN e ELSE s[i - 1]
BY InsertAtFacts

\* Taking the first k nodes.
LEMMA SuffixFacts ==
    ASSUME NEW S, NEW s \in Seq(S), NEW k \in 0 .. Len(s)
    PROVE  /\ SubSeq(s, k + 1, Len(s)) \in Seq(S)
           /\ Len(SubSeq(s, k + 1, Len(s))) = Len(s) - k
           /\ \A i \in 1 .. (Len(s) - k) : SubSeq(s, k + 1, Len(s))[i] = s[k + i]
OBVIOUS

\* A set of natural numbers that is not empty has a least element.
LEMMA LeastNat ==
    ASSUME NEW T \in SUBSET Nat, T # {}
    PROVE  \E m \in T : \A y \in T : m <= y
<1>1. PICK m \in T : \A y \in T : ~(<<y, m>> \in OpToRel(<, Nat))
  BY WFMin, NatLessThanWellFounded
<1>2. ASSUME NEW y \in T PROVE m <= y
  <2>1. y < m => <<y, m>> \in OpToRel(<, Nat)
    BY DEF OpToRel
  <2>2. ~(y < m)
    BY <1>1, <2>1
  <2> QED
    BY <2>2
<1> QED
  BY <1>2

\* Unlinking a node of a list in which none is linked twice; the others keep
\* their order.
LEMMA RemoveFirstFacts ==
    ASSUME NEW S, NEW s \in Seq(S), IsInjective(s), NEW e
    PROVE  /\ RemoveFirst(s, e) \in Seq(S)
           /\ IsInjective(RemoveFirst(s, e))
           /\ Range(RemoveFirst(s, e)) = Range(s) \ {e}
           /\ \A i, j \in DOMAIN RemoveFirst(s, e) : i < j =>
                 \E x, y \in DOMAIN s : x < y /\ RemoveFirst(s, e)[i] = s[x]
                                              /\ RemoveFirst(s, e)[j] = s[y]
<1>0. Len(s) \in Nat /\ DOMAIN s = 1 .. Len(s)
  OBVIOUS
<1>1. CASE ~ \E i \in 1 .. Len(s) : s[i] = e
  BY <1>0, <1>1 DEF RemoveFirst, Range
<1>2. CASE \E i \in 1 .. Len(s) : s[i] = e
  <2>1. PICK k \in 1 .. Len(s) : s[k] = e
    BY <1>2
  <2>2. {i \in 1 .. Len(s) : s[i] = e} = {k}
    BY <1>0, <2>1 DEF IsInjective
  <2>3. SelectInSeq(s, LAMBDA v : v = e) = k
    BY <2>1, <2>2 DEF SelectInSeq, Min
  <2> DEFINE r == RemoveAt(s, k)
  <2>4. RemoveFirst(s, e) = r
    BY <1>2, <2>3 DEF RemoveFirst
  <2>0. r \in Seq(S) /\ Len(r) = Len(s) - 1
        /\ \A i \in 1 .. (Len(s) - 1) : r[i] = IF i < k THEN s[i] ELSE s[i + 1]
    BY <1>0, <2>1, RemoveAtFacts, Zenon
  <2> HIDE DEF r
  <2>5. r \in Seq(S) /\ Len(r) = Len(s) - 1 /\ DOMAIN r = 1 .. (Len(s) - 1)
        /\ \A i \in 1 .. (Len(s) - 1) : r[i] = IF i < k THEN s[i] ELSE s[i + 1]
    BY <2>0
  <2>6. IsInjective(r)
    <3> DEFINE o(i) == IF i < k THEN i ELSE i + 1
    <3>1. \A i \in DOMAIN r : o(i) \in DOMAIN s /\ r[i] = s[o(i)]
      BY <1>0, <2>1, <2>5
    <3>2. \A i, j \in DOMAIN r : o(i) = o(j) => i = j
      BY <1>0, <2>1, <2>5
    <3> HIDE DEF o
    <3> QED
      BY <3>1, <3>2 DEF IsInjective
  <2>9. ASSUME NEW i \in DOMAIN r, NEW j \in DOMAIN r, i < j
        PROVE  \E x, y \in DOMAIN s : x < y /\ r[i] = s[x] /\ r[j] = s[y]
    <3> DEFINE o(n) == IF n < k THEN n ELSE n + 1
    <3>1. o(i) \in DOMAIN s /\ o(j) \in DOMAIN s /\ o(i) < o(j)
      BY <1>0, <2>1, <2>5, <2>9
    <3>2. r[i] = s[o(i)] /\ r[j] = s[o(j)]
      BY <1>0, <2>1, <2>5
    <3> QED
      BY <3>1, <3>2
  <2>7. Range(r) \subseteq Range(s) \ {e}
    <3>1. ASSUME NEW i \in DOMAIN r PROVE r[i] \in Range(s) \ {e}
      <4>1. CASE i < k
        BY <1>0, <2>1, <2>5, <4>1 DEF IsInjective, Range
      <4>2. CASE ~(i < k)
        <5>1. i + 1 \in DOMAIN s /\ i + 1 # k /\ r[i] = s[i + 1]
          BY <1>0, <2>1, <2>5, <4>2
        <5> QED
          BY <1>0, <2>1, <5>1 DEF IsInjective, Range
      <4> QED
        BY <4>1, <4>2
    <3> QED
      BY <3>1 DEF Range
  <2>8. Range(s) \ {e} \subseteq Range(r)
    <3>1. ASSUME NEW i \in DOMAIN s, s[i] # e PROVE s[i] \in Range(r)
      <4>1. CASE i < k
        <5>1. i \in DOMAIN r /\ r[i] = s[i]
          BY <1>0, <2>1, <2>5, <4>1
        <5> QED
          BY <5>1 DEF Range
      <4>2. CASE i > k
        <5>1. i - 1 \in DOMAIN r /\ r[i - 1] = s[i]
          BY <1>0, <2>1, <2>5, <4>2
        <5> QED
          BY <5>1 DEF Range
      <4> QED
        BY <1>0, <2>1, <3>1, <4>1, <4>2
    <3> QED
      BY <3>1 DEF Range
  <2> QED
    BY <2>4, <2>5, <2>6, <2>7, <2>8, <2>9
<1> QED
  BY <1>1, <1>2
=============================================================================
