---------------------------- MODULE PagesProofs ----------------------------
(***************************************************************************)
(* Theorems about Pages, for any number of processes, of physical and of   *)
(* user pages and any size of a page: no page has two owners, the heap of  *)
(* a process is mapped, faults and forks keep what a program finds in its  *)
(* pages, and every process has a memory of its own.                       *)
(***************************************************************************)
EXTENDS Pages, FiniteSetTheorems, SequenceTheorems, WellFoundedInduction, TLAPS

-----------------------------------------------------------------------------
(***************************************************************************)
(* Numbers.                                                                *)
(***************************************************************************)
LEMMA LeastNumber ==
    ASSUME NEW S \in SUBSET Nat, S # {}
    PROVE  \E x \in S : \A y \in S : x <= y
<1> DEFINE R == OpToRel(<, Nat)
<1>1. IsWellFoundedOn(R, Nat)
  BY NatLessThanWellFounded
<1> HIDE DEF R
<1>2. PICK x \in S : \A y \in S : ~ (<<y, x>> \in R)
  BY <1>1, WFMin, Zenon
<1>3. \A y \in Nat : y < x => <<y, x>> \in R
  BY DEF OpToRel, R
<1>4. \A y \in S : x \in Nat /\ y \in Nat /\ ~ (y < x)
  BY <1>2, <1>3
<1> QED
  BY <1>4

\* Multiples of a page size are in the order of their numbers.
LEMMA Multiples ==
    ASSUME NEW m \in Nat \ {0}, NEW a \in Int, NEW b \in Int, a < b
    PROVE  m * a + m <= m * b
<1>1. PICK d \in Nat : b = (a + 1) + d
  BY b - (a + 1) \in Nat
<1>2. m * b = m * (a + 1) + m * d /\ m * (a + 1) = m * a + m /\ m * d >= 0 /\ m * d \in Int
  BY <1>1, Z3
<1>3. m * b \in Int /\ m * a \in Int
  OBVIOUS
<1> QED
  BY <1>2, <1>3

\* What div and mod are.
LEMMA Division ==
    ASSUME NEW m \in Nat \ {0}, NEW x \in Nat
    PROVE  /\ x \div m \in Nat /\ x % m \in 0..(m - 1)
           /\ x = m * (x \div m) + (x % m)
BY Z3

\* The pages to an address are those that begin below it.
LEMMA PagesToIs ==
    ASSUME NEW h \in Nat
    PROVE  /\ PagesTo(h) \in Nat
           /\ h <= PG * PagesTo(h) /\ PG * PagesTo(h) < h + PG
<1>1. PG \in Nat \ {0} /\ (h + PG) - 1 \in Nat
  BY PagesAssumption
<1>2. PICK x, q, r : x = (h + PG) - 1 /\ q = x \div PG /\ r = x % PG
  OBVIOUS
<1>3. q \in Nat /\ r \in 0..(PG - 1) /\ x = PG * q + r
  BY <1>1, <1>2, Division
<1>4. PagesTo(h) = q
  <2>1. (h + PG) - 1 = h + (PG - 1)
    BY <1>1
  <2> QED
    BY <2>1, <1>2 DEF PagesTo
<1>5. PG * q \in Int
  BY <1>1, <1>3
<1> QED
  BY <1>1, <1>2, <1>3, <1>4, <1>5

LEMMA PagesToMonotonic ==
    ASSUME NEW h \in Nat, NEW k \in Nat, h <= k
    PROVE  PagesTo(h) <= PagesTo(k)
<1>1. PICK x, y : x = PagesTo(h) /\ y = PagesTo(k)
  OBVIOUS
<1>2. x \in Nat /\ y \in Nat /\ PG * x < h + PG /\ k <= PG * y
  BY <1>1, PagesToIs
<1>3. PG \in Nat \ {0} /\ PG * x \in Int /\ PG * y \in Int
  BY <1>2, PagesAssumption
<1>4. SUFFICES ASSUME y < x PROVE FALSE
  BY <1>1, <1>2
<1>5. PG * y + PG <= PG * x
  BY <1>2, <1>3, <1>4, Multiples
<1> QED
  BY <1>2, <1>3, <1>5

LEMMA PagesToSmall ==
    ASSUME NEW h \in 0..(NV * PG)
    PROVE  PagesTo(h) \in 0..NV /\ PagesTo(0) = 0 /\ PagesTo(PG) = 1
<1>0. PG \in Nat \ {0} /\ NV \in Nat /\ h \in Nat /\ 0 \in Nat /\ PG \in Nat
  BY PagesAssumption
<1>1. PICK x, y, z : x = PagesTo(h) /\ y = PagesTo(0) /\ z = PagesTo(PG)
  OBVIOUS
<1>2. x \in Nat /\ y \in Nat /\ z \in Nat
  BY <1>0, <1>1, PagesToIs
<1>3. PG * x < h + PG /\ PG * y < 0 + PG /\ PG <= PG * z /\ PG * z < PG + PG
  BY <1>0, <1>1, PagesToIs
<1>4. /\ PG * x \in Int /\ PG * y \in Int /\ PG * z \in Int
      /\ PG * NV = NV * PG /\ PG * 0 = 0 /\ PG * 1 = PG /\ PG * NV \in Int
  BY <1>0, <1>2
<1>5. ~ (NV < x)
  <2> SUFFICES ASSUME NV < x PROVE FALSE
    OBVIOUS
  <2>1. PG * NV + PG <= PG * x
    BY <1>0, <1>2, Multiples
  <2> QED
    BY <2>1, <1>0, <1>3, <1>4
<1>6. ~ (0 < y)
  <2> SUFFICES ASSUME 0 < y PROVE FALSE
    OBVIOUS
  <2>1. PG * 0 + PG <= PG * y
    BY <1>0, <1>2, Multiples
  <2> QED
    BY <2>1, <1>0, <1>3, <1>4
<1>7. ~ (1 < z) /\ z # 0
  <2>1. 1 < z => PG * 1 + PG <= PG * z
    BY <1>0, <1>2, Multiples
  <2>2. z = 0 => PG * z = 0
    BY <1>4
  <2> QED
    BY <2>1, <2>2, <1>0, <1>3, <1>4
<1> QED
  BY <1>0, <1>1, <1>2, <1>5, <1>6, <1>7

-----------------------------------------------------------------------------
(***************************************************************************)
(* Sequences of pages.                                                     *)
(***************************************************************************)
Increasing(s, A) ==
    /\ s \in [1..Cardinality(A) -> A]
    /\ \A j, k \in DOMAIN s : j < k => s[j] < s[k]

\* A set of numbers with its greatest one put at the end.
LEMMA IncreasingMore ==
    ASSUME NEW n \in Nat, NEW B \in SUBSET 0..(n - 1), NEW s, Increasing(s, B), IsFiniteSet(B)
    PROVE  \E t : Increasing(t, B \cup {n})
<1>1. PICK c : c = Cardinality(B)
  OBVIOUS
<1>2. c \in Nat /\ Cardinality(B \cup {n}) = c + 1
  BY <1>1, FS_CardinalityType, FS_AddElement
<1> DEFINE t == [k \in 1..(c + 1) |-> IF k = c + 1 THEN n ELSE s[k]]
<1>3. /\ s \in [1..c -> B]
      /\ \A j, k \in 1..c : j < k => s[j] < s[k]
  BY <1>1 DEF Increasing
<1>4. t \in [1..(c + 1) -> B \cup {n}]
  BY <1>2, <1>3
<1>5. ASSUME NEW j \in 1..(c + 1), NEW k \in 1..(c + 1), j < k
      PROVE  t[j] < t[k]
  <2>1. j \in 1..c
    BY <1>2, <1>5
  <2>2. s[j] \in 0..(n - 1)
    BY <2>1, <1>3
  <2> QED
    BY <2>1, <2>2, <1>2, <1>3, <1>5
<1>6. Increasing(t, B \cup {n})
  BY <1>2, <1>4, <1>5 DEF Increasing
<1> QED
  BY <1>6

LEMMA IncreasingExists ==
    ASSUME NEW n \in Nat, NEW A \in SUBSET 0..(n - 1)
    PROVE  IsFiniteSet(A) /\ Cardinality(A) \in Nat /\ \E s : Increasing(s, A)
<1>0. \A m \in Nat : \A B \in SUBSET 0..(m - 1) : IsFiniteSet(B)
  <2> SUFFICES ASSUME NEW m \in Nat, NEW B \in SUBSET 0..(m - 1) PROVE IsFiniteSet(B)
    OBVIOUS
  <2>1. IsFiniteSet(0..(m - 1))
    BY 0 \in Int, m - 1 \in Int, FS_Interval
  <2> QED
    BY <2>1, FS_Subset
<1> DEFINE Bad == {m \in Nat : \E B \in SUBSET 0..(m - 1) : ~ \E s : Increasing(s, B)}
<1>1. Bad = {}
  <2> SUFFICES ASSUME Bad # {} PROVE FALSE
    OBVIOUS
  <2>1. PICK m \in Bad : \A k \in Bad : m <= k
    <3>1. Bad \in SUBSET Nat
      OBVIOUS
    <3> HIDE DEF Bad
    <3> QED
      BY <3>1, LeastNumber
  <2>2. PICK B \in SUBSET 0..(m - 1) : ~ \E s : Increasing(s, B)
    OBVIOUS
  <2>3. m \in Nat
    OBVIOUS
  <2>4. CASE m = 0
    <3>0. B = {}
      BY <2>3, <2>4
    <3>1. B = {} /\ Cardinality(B) = 0
      BY <3>0, FS_EmptySet
    <3>2. Increasing([k \in {} |-> 0], B)
      BY <3>1 DEF Increasing
    <3> QED
      BY <3>2, <2>2
  <2>5. CASE m # 0
    <3>1. m - 1 \in Nat /\ m - 1 \notin Bad
      <4>1. m - 1 \in Nat /\ ~ (m <= m - 1)
        BY <2>3, <2>5
      <4> HIDE DEF Bad
      <4> QED
        BY <4>1, <2>1
    <3>2. \A C \in SUBSET 0..((m - 1) - 1) : \E s : Increasing(s, C)
      BY <3>1
    <3>3. B \ {m - 1} \in SUBSET 0..((m - 1) - 1)
      BY <2>3, <3>1
    <3>4. CASE m - 1 \in B
      <4>1. PICK s : Increasing(s, B \ {m - 1})
        BY <3>2, <3>3
      <4>2. (B \ {m - 1}) \cup {m - 1} = B
        BY <3>4
      <4>3. IsFiniteSet(B \ {m - 1})
        BY <1>0, <3>1, <3>3
      <4> QED
        BY <4>1, <4>2, <4>3, <3>1, <3>3, <2>2, IncreasingMore
    <3>5. CASE m - 1 \notin B
      <4>1. B = B \ {m - 1}
        BY <3>5
      <4> QED
        BY <4>1, <3>2, <3>3, <2>2
    <3> QED
      BY <3>4, <3>5
  <2> QED
    BY <2>4, <2>5
<1>2. \E s : Increasing(s, A)
  BY <1>1
<1> QED
  BY <1>0, <1>2, FS_CardinalityType

\* InOrder lists elements of A, none twice.
LEMMA InOrderIs ==
    ASSUME NEW A \in SUBSET VAs
    PROVE  LET s == InOrder(A) IN
           /\ Cardinality(A) \in Nat /\ s \in [1..Cardinality(A) -> A]
           /\ \A j, k \in 1..Cardinality(A) : s[j] = s[k] => j = k
<1>1. NV \in Nat /\ A \in SUBSET 0..(NV - 1) /\ VAs \subseteq Int
  BY PagesAssumption DEF VAs
<1>2. Cardinality(A) \in Nat /\ \E s : Increasing(s, A)
  BY <1>1, IncreasingExists
<1>3. Increasing(InOrder(A), A)
  BY <1>2 DEF InOrder, Increasing
<1>4. PICK s, c : s = InOrder(A) /\ c = Cardinality(A)
  OBVIOUS
<1>5. s \in [1..c -> A] /\ c \in Nat /\ \A j, k \in 1..c : j < k => s[j] < s[k]
  BY <1>2, <1>3, <1>4 DEF Increasing
<1>6. ASSUME NEW j \in 1..c, NEW k \in 1..c, s[j] = s[k]
      PROVE  j = k
  <2>0. s[j] \in Int /\ s[k] \in Int
    BY <1>1, <1>5
  <2>1. ~ (s[j] < s[k]) /\ ~ (s[k] < s[j])
    BY <2>0, <1>6
  <2>2. ~ (j < k) /\ ~ (k < j)
    BY <2>1, <1>5
  <2> QED
    BY <2>2, <1>5
<1> QED
  BY <1>4, <1>5, <1>6

-----------------------------------------------------------------------------
(***************************************************************************)
(* Where the pages are.                                                    *)
(***************************************************************************)
Sites == Procs \X Places

\* No page is at two places of layout m or list f.
Apart(m, f) ==
    /\ m \in [Sites -> Pages \cup {NULL}]
    /\ f \in Seq(Pages)
    /\ \A j, k \in 1..Len(f) : f[j] = f[k] => j = k
    /\ \A z, w \in Sites : m[z] # NULL /\ m[z] = m[w] => z = w
    /\ \A z \in Sites, k \in 1..Len(f) : m[z] # f[k]

\* The layout becomes l: a place keeps its page, loses it, or gets one of the
\* n pages taken from the list, each of which goes to one place at most.
Placed(m, f, n, l) ==
    /\ \A z \in Sites : l[z] \in {m[z], NULL} \/ \E k \in 1..n : l[z] = f[k]
    /\ \A z, w \in Sites, k \in 1..n : l[z] = f[k] /\ l[w] = f[k] => z = w

\* The pages in r, none twice, are at no place any more.
Returned(m, f, n, l, r) ==
    /\ r \in Seq(Pages)
    /\ \A j, k \in 1..Len(r) : r[j] = r[k] => j = k
    /\ \A j \in 1..Len(r) :
           \/ \E z \in Sites : r[j] = m[z] /\ l[z] # m[z]
           \/ \E k \in 1..n : r[j] = f[k] /\ \A z \in Sites : l[z] # f[k]

\* R is put in front of what is left of list f without its first n pages.
FrontOf(g, r, f, n) ==
    /\ g \in Seq(Pages)
    /\ Len(g) = Len(r) + (Len(f) - n)
    /\ \A k \in 1..Len(g) : g[k] = IF k <= Len(r) THEN r[k] ELSE f[(k - Len(r)) + n]

LEMMA FrontOfIs ==
    ASSUME NEW f \in Seq(Pages), NEW r \in Seq(Pages), NEW n \in 0..Len(f)
    PROVE  FrontOf(r \o SubSeq(f, n + 1, Len(f)), r, f, n)
<1>0. Len(f) \in Nat /\ Len(r) \in Nat /\ n \in Nat
  BY LenProperties
<1>1. PICK t : t = SubSeq(f, n + 1, Len(f))
  OBVIOUS
<1>2. /\ t \in Seq(Pages) /\ Len(t) = Len(f) - n
      /\ \A k \in 1..Len(t) : t[k] = f[k + n]
  <2>1. \A k \in (n + 1)..Len(f) : f[k] \in Pages
    BY <1>0, ElementOfSeq
  <2>2. t = [k \in 1..(Len(f) - n) |-> f[k + n]]
    BY <1>0, <1>1
  <2> QED
    BY <2>1, <2>2, <1>0, <1>1
<1>3. PICK g : g = r \o t
  OBVIOUS
<1>4. /\ g \in Seq(Pages) /\ Len(g) = Len(r) + Len(t)
      /\ \A k \in 1..Len(g) : g[k] = IF k <= Len(r) THEN r[k] ELSE t[k - Len(r)]
  <2>1. /\ r \o t \in Seq(Pages) /\ Len(r \o t) = Len(r) + Len(t)
        /\ \A k \in 1..(Len(r) + Len(t)) : (r \o t)[k] = IF k <= Len(r) THEN r[k] ELSE t[k - Len(r)]
    BY <1>2, ConcatProperties, Zenon
  <2> QED
    BY <2>1, <1>3
<1>5. ASSUME NEW k \in 1..Len(g)
      PROVE  g[k] = IF k <= Len(r) THEN r[k] ELSE f[(k - Len(r)) + n]
  <2>1. CASE k <= Len(r)
    BY <2>1, <1>4
  <2>2. CASE ~ (k <= Len(r))
    <3>1. k - Len(r) \in 1..Len(t)
      BY <2>2, <1>0, <1>2, <1>4
    <3> QED
      BY <3>1, <2>2, <1>2, <1>4
  <2> QED
    BY <2>1, <2>2
<1> QED
  BY <1>1, <1>2, <1>3, <1>4, <1>5 DEF FrontOf

\* Taking pages from the front of the list and giving others back keeps the
\* pages apart.
LEMMA Shuffle ==
    ASSUME NEW m, NEW f, NEW l \in [Sites -> Pages \cup {NULL}], NEW r, NEW g, NEW n \in 0..Len(f),
           Apart(m, f), Placed(m, f, n, l), Returned(m, f, n, l, r), FrontOf(g, r, f, n)
    PROVE  Apart(l, g)
<1>0. /\ f \in Seq(Pages) /\ r \in Seq(Pages) /\ g \in Seq(Pages)
      /\ Len(f) \in Nat /\ Len(r) \in Nat /\ n \in Nat
      /\ Len(g) = Len(r) + (Len(f) - n)
  BY LenProperties DEF Apart, Returned, FrontOf
<1>1. \A k \in 1..n : k \in 1..Len(f)
  BY <1>0
<1>2. \A k \in 1..Len(g) :
        IF k <= Len(r) THEN k \in 1..Len(r) /\ g[k] = r[k]
        ELSE (k - Len(r)) + n \in (n + 1)..Len(f) /\ (k - Len(r)) + n \in 1..Len(f) /\ g[k] = f[(k - Len(r)) + n]
  <2> SUFFICES ASSUME NEW k \in 1..Len(g)
               PROVE  IF k <= Len(r) THEN k \in 1..Len(r) /\ g[k] = r[k]
                      ELSE (k - Len(r)) + n \in (n + 1)..Len(f) /\ (k - Len(r)) + n \in 1..Len(f) /\ g[k] = f[(k - Len(r)) + n]
    OBVIOUS
  <2>1. g[k] = IF k <= Len(r) THEN r[k] ELSE f[(k - Len(r)) + n]
    BY DEF FrontOf
  <2>2. IF k <= Len(r) THEN k \in 1..Len(r)
        ELSE (k - Len(r)) + n \in (n + 1)..Len(f) /\ (k - Len(r)) + n \in 1..Len(f)
    BY <1>0
  <2> QED
    BY <2>1, <2>2
<1>3. NULL \notin Pages /\ \A k \in 1..Len(f) : f[k] \in Pages
  BY <1>0, ElementOfSeq, PagesAssumption DEF Pages
<1>4. ASSUME NEW z \in Sites, NEW w \in Sites, l[z] # NULL, l[z] = l[w]
      PROVE  z = w
  <2>1. CASE l[z] = m[z] /\ l[w] = m[w]
    BY <2>1, <1>4 DEF Apart
  <2>2. CASE \E k \in 1..n : l[z] = f[k]
    BY <2>2, <1>4, ZenonT(60) DEF Placed
  <2>3. CASE \E k \in 1..n : l[w] = f[k]
    BY <2>3, <1>4 DEF Placed
  <2> QED
    BY <2>1, <2>2, <2>3, <1>4 DEF Placed
\* A place keeps no page of the list or of r.
<1>5. ASSUME NEW z \in Sites, NEW i \in (n + 1)..Len(f)
      PROVE  l[z] # f[i]
  <2>0. i \in 1..Len(f) /\ \A k \in 1..n : k # i
    BY <1>0
  <2>1. CASE l[z] \in {m[z], NULL}
    BY <2>0, <2>1, <1>3 DEF Apart
  <2>2. CASE \E k \in 1..n : l[z] = f[k]
    BY <2>0, <2>2, <1>1 DEF Apart
  <2> QED
    BY <2>1, <2>2 DEF Placed
<1>6. ASSUME NEW z \in Sites, NEW j \in 1..Len(r)
      PROVE  l[z] # r[j]
  <2> SUFFICES ASSUME l[z] = r[j] PROVE FALSE
    OBVIOUS
  <2>0. r[j] \in Pages
    BY <1>0, ElementOfSeq
  <2>1. CASE \E w \in Sites : r[j] = m[w] /\ l[w] # m[w]
    <3>1. PICK w \in Sites : r[j] = m[w] /\ l[w] # m[w]
      BY <2>1
    <3>2. CASE l[z] = m[z]
      BY <3>1, <3>2, <2>0, <1>3 DEF Apart
    <3>3. CASE \E k \in 1..n : l[z] = f[k]
      BY <3>1, <3>3, <1>1 DEF Apart
    <3> QED
      BY <3>2, <3>3, <2>0, <1>3 DEF Placed
  <2>2. CASE \E k \in 1..n : r[j] = f[k] /\ \A w \in Sites : l[w] # f[k]
    BY <2>2
  <2> QED
    BY <2>1, <2>2 DEF Returned
<1>7. ASSUME NEW j \in 1..Len(r), NEW i \in (n + 1)..Len(f)
      PROVE  r[j] # f[i]
  <2>0. i \in 1..Len(f) /\ \A k \in 1..n : k # i
    BY <1>0
  <2> QED
    BY <2>0, <1>1 DEF Returned, Apart
<1>8. ASSUME NEW j \in 1..Len(g), NEW k \in 1..Len(g), g[j] = g[k]
      PROVE  j = k
  <2>1. CASE j <= Len(r) /\ k <= Len(r)
    BY <2>1, <1>2, <1>8 DEF Returned
  <2>2. CASE j <= Len(r) /\ ~ (k <= Len(r))
    BY <2>2, <1>2, <1>7, <1>8
  <2>3. CASE ~ (j <= Len(r)) /\ k <= Len(r)
    BY <2>3, <1>2, <1>7, <1>8
  <2>4. CASE ~ (j <= Len(r)) /\ ~ (k <= Len(r))
    <3>1. (j - Len(r)) + n = (k - Len(r)) + n
      BY <2>4, <1>2, <1>8 DEF Apart
    <3> QED
      BY <3>1, <1>0
  <2> QED
    BY <2>1, <2>2, <2>3, <2>4
<1>9. \A z \in Sites, k \in 1..Len(g) : l[z] # g[k]
  BY <1>2, <1>5, <1>6
<1> QED
  BY <1>0, <1>4, <1>8, <1>9 DEF Apart

\* The page of a place, for a table and trapframes.
At(e, t, p, x) == IF x = TRAPFRAME THEN t[p] ELSE IF e[p][x] = NULL THEN NULL ELSE e[p][x].pa
Layout(e, t) == [z \in Sites |-> At(e, t, z[1], z[2])]

Entries == [pa : Pages, w : BOOLEAN, cow : BOOLEAN]
Tables == [Procs -> [VAs -> Entries \cup {NULL}]]
Frames == [Procs -> Pages \cup {NULL}]

LEMMA LayoutIs ==
    ASSUME NEW e \in Tables, NEW t \in Frames
    PROVE  /\ Layout(e, t) \in [Sites -> Pages \cup {NULL}]
           /\ \A p \in Procs, x \in Places :
                /\ <<p, x>> \in Sites /\ Layout(e, t)[<<p, x>>] = At(e, t, p, x)
                /\ At(e, t, p, x) \in Pages \cup {NULL}
           /\ \A z \in Sites : \E p \in Procs, x \in Places : z = <<p, x>>
<1>1. ASSUME NEW p \in Procs, NEW x \in Places PROVE At(e, t, p, x) \in Pages \cup {NULL}
  <2>1. x = NV \/ x \in VAs
    BY PagesAssumption DEF Places, VAs
  <2> QED
    BY <2>1 DEF At, TRAPFRAME, Tables, Frames, Entries
<1>2. Layout(e, t) \in [Sites -> Pages \cup {NULL}]
  BY <1>1 DEF Layout, Sites
<1>3. \A p \in Procs, x \in Places : <<p, x>> \in Sites /\ Layout(e, t)[<<p, x>>] = At(e, t, p, x)
  BY DEF Layout, Sites
<1>4. \A z \in Sites : \E p \in Procs, x \in Places : z = <<p, x>>
  BY DEF Sites
<1> QED
  BY <1>1, <1>2, <1>3, <1>4

\* Exclusive without the types.
Owned(e, t, f) ==
    /\ IsInjective(f)
    /\ \A p, q \in Procs, x, y \in Places :
           At(e, t, p, x) # NULL /\ At(e, t, p, x) = At(e, t, q, y) => p = q /\ x = y
    /\ \A p \in Procs, x \in Places : At(e, t, p, x) \notin Range(f)

\* Exclusive says that the pages are apart.
LEMMA OwnedApart ==
    ASSUME NEW e \in Tables, NEW t \in Frames, NEW f \in Seq(Pages)
    PROVE  Owned(e, t, f) <=> Apart(Layout(e, t), f)
<1>1. PICK m : m = Layout(e, t)
  OBVIOUS
<1>2. /\ DOMAIN f = 1..Len(f)
      /\ Range(f) = {f[k] : k \in 1..Len(f)}
  BY LenProperties DEF Range
<1>3. IsInjective(f) <=> \A j, k \in 1..Len(f) : f[j] = f[k] => j = k
  BY <1>2 DEF IsInjective
<1>4. \A p \in Procs, x \in Places : <<p, x>> \in Sites /\ m[<<p, x>>] = At(e, t, p, x)
  BY <1>1, LayoutIs
<1>5. \A z \in Sites : \E p \in Procs, x \in Places : z = <<p, x>>
  BY DEF Sites
<1> DEFINE Once == \A p, q \in Procs, x, y \in Places :
                       At(e, t, p, x) # NULL /\ At(e, t, p, x) = At(e, t, q, y) => p = q /\ x = y
           Single == \A z, w \in Sites : m[z] # NULL /\ m[z] = m[w] => z = w
           Used == \A p \in Procs, x \in Places : At(e, t, p, x) \notin Range(f)
           Unlisted == \A z \in Sites, k \in 1..Len(f) : m[z] # f[k]
<1>6. Once => Single
  <2> SUFFICES ASSUME Once, NEW z \in Sites, NEW w \in Sites, m[z] # NULL, m[z] = m[w]
               PROVE  z = w
    OBVIOUS
  <2>1. PICK p \in Procs, x \in Places : z = <<p, x>>
    BY <1>5
  <2>2. PICK q \in Procs, y \in Places : w = <<q, y>>
    BY <1>5
  <2> QED
    BY <2>1, <2>2, <1>4
<1>7. Single => Once
  <2> SUFFICES ASSUME Single, NEW p \in Procs, NEW q \in Procs, NEW x \in Places, NEW y \in Places,
                      At(e, t, p, x) # NULL, At(e, t, p, x) = At(e, t, q, y)
               PROVE  p = q /\ x = y
    OBVIOUS
  <2>1. <<p, x>> = <<q, y>>
    BY <1>4
  <2> QED
    BY <2>1
<1>8. Used => Unlisted
  <2> SUFFICES ASSUME Used, NEW z \in Sites, NEW k \in 1..Len(f) PROVE m[z] # f[k]
    OBVIOUS
  <2>1. PICK p \in Procs, x \in Places : z = <<p, x>>
    BY <1>5
  <2> QED
    BY <2>1, <1>2, <1>4
<1>9. Unlisted => Used
  <2> SUFFICES ASSUME Unlisted, NEW p \in Procs, NEW x \in Places PROVE At(e, t, p, x) \notin Range(f)
    OBVIOUS
  <2> QED
    BY <1>2, <1>4
<1>10. /\ Owned(e, t, f) <=> IsInjective(f) /\ Once /\ Used
       /\ Apart(m, f) <=>
            (\A j, k \in 1..Len(f) : f[j] = f[k] => j = k) /\ Single /\ Unlisted
  BY <1>1, LayoutIs DEF Owned, Apart
<1> HIDE DEF Once, Single, Used, Unlisted
<1> QED
  BY <1>1, <1>3, <1>6, <1>7, <1>8, <1>9, <1>10

LEMMA ExclusiveOwned ==
    /\ Exclusive <=> TypeOK /\ Owned(pte, tf, free)
    /\ Exclusive' <=> TypeOK' /\ Owned(pte', tf', free')
<1>1. Exclusive <=> TypeOK /\ Owned(pte, tf, free)
  BY DEF Exclusive, Owned, PageAt, At
<1>2. Exclusive' <=> TypeOK' /\ Owned(pte', tf', free')
  BY DEF Exclusive, Owned, PageAt, At
<1> QED
  BY <1>1, <1>2

LEMMA Types ==
    /\ TypeOK <=> /\ state \in [Procs -> {"unused", "live", "panic"}]
                  /\ free \in Seq(Pages)
                  /\ word \in [Pages -> Vals]
                  /\ pte \in Tables /\ tf \in Frames
                  /\ heap_top \in [Procs -> 0..(NV * PG)]
    /\ TypeOK' <=> /\ state' \in [Procs -> {"unused", "live", "panic"}]
                   /\ free' \in Seq(Pages)
                   /\ word' \in [Pages -> Vals]
                   /\ pte' \in Tables /\ tf' \in Frames
                   /\ heap_top' \in [Procs -> 0..(NV * PG)]
BY DEF TypeOK, Tables, Frames, Entries

\* A step that takes n pages from the list, and puts r in front.
LEMMA MoveStep ==
    ASSUME Exclusive, TypeOK', NEW n \in 0..Len(free), NEW r \in Seq(Pages),
           free' = r \o AfterTaking(n),
           Placed(Layout(pte, tf), free, n, Layout(pte', tf')),
           Returned(Layout(pte, tf), free, n, Layout(pte', tf'), r)
    PROVE  Exclusive'
<1>1. TypeOK /\ Owned(pte, tf, free)
  BY ExclusiveOwned
<1>2. /\ free \in Seq(Pages) /\ pte \in Tables /\ tf \in Frames
      /\ free' \in Seq(Pages) /\ pte' \in Tables /\ tf' \in Frames
  BY <1>1, Types
<1>3. PICK m, l, f, g : m = Layout(pte, tf) /\ l = Layout(pte', tf') /\ f = free /\ g = free'
  OBVIOUS
<1>4. Apart(m, f)
  BY <1>1, <1>2, <1>3, OwnedApart
<1>5. l \in [Sites -> Pages \cup {NULL}]
  BY <1>2, <1>3, LayoutIs
<1>6. FrontOf(g, r, f, n)
  BY <1>2, <1>3, FrontOfIs DEF AfterTaking
<1>7. Placed(m, f, n, l) /\ Returned(m, f, n, l, r) /\ n \in 0..Len(f)
  BY <1>3
<1>8. Apart(l, g)
  BY <1>4, <1>5, <1>6, <1>7, Shuffle
<1>9. Owned(pte', tf', free')
  BY <1>2, <1>3, <1>8, OwnedApart
<1> QED
  BY <1>9, ExclusiveOwned

\* A step that only takes pages.
LEMMA TakeStep ==
    ASSUME Exclusive, TypeOK', NEW n \in 0..Len(free), free' = AfterTaking(n),
           Placed(Layout(pte, tf), free, n, Layout(pte', tf'))
    PROVE  Exclusive'
<1>1. free \in Seq(Pages)
  BY Types DEF Exclusive
<1>2. PICK m, l, f : m = Layout(pte, tf) /\ l = Layout(pte', tf') /\ f = free
  OBVIOUS
<1>3. <<>> \in Seq(Pages) /\ Len(<<>>) = 0
  OBVIOUS
<1>4. Returned(m, f, n, l, <<>>)
  BY <1>3 DEF Returned
<1>5. <<>> \o AfterTaking(n) = AfterTaking(n)
  <2>1. AfterTaking(n) \in Seq(Pages)
    <3>1. SubSeq(f, n + 1, Len(f)) \in Seq(Pages)
      BY <1>1, <1>2, LenProperties, ElementOfSeq
    <3> QED
      BY <3>1, <1>2 DEF AfterTaking
  <2> QED
    BY <2>1, ConcatEmptySeq
<1> QED
  BY <1>2, <1>3, <1>4, <1>5, MoveStep

\* A step that leaves every page where it is, and perhaps drops the list.
LEMMA StayStep ==
    ASSUME Exclusive, TypeOK', free' = free \/ free' = <<>>,
           \A p \in Procs, x \in Places : At(pte', tf', p, x) = At(pte, tf, p, x)
    PROVE  Exclusive'
<1>1. Owned(pte, tf, free)
  BY ExclusiveOwned
<1>2. IsInjective(free') /\ Range(free') \subseteq Range(free)
  BY <1>1 DEF Owned, IsInjective, Range
<1>3. Owned(pte', tf', free')
  BY <1>1, <1>2 DEF Owned
<1> QED
  BY <1>3, ExclusiveOwned

\* What Placed says in terms of the places.
LEMMA PlacedIf ==
    ASSUME NEW e \in Tables, NEW t \in Frames, NEW d \in Tables, NEW u \in Frames, NEW f, NEW n,
           \A p \in Procs, x \in Places :
               At(d, u, p, x) \in {At(e, t, p, x), NULL} \/ \E k \in 1..n : At(d, u, p, x) = f[k],
           \A p, q \in Procs, x, y \in Places, k \in 1..n :
               At(d, u, p, x) = f[k] /\ At(d, u, q, y) = f[k] => p = q /\ x = y
    PROVE  Placed(Layout(e, t), f, n, Layout(d, u))
<1>1. PICK m, l : m = Layout(e, t) /\ l = Layout(d, u)
  OBVIOUS
<1>2. \A z \in Sites : \E p \in Procs, x \in Places :
        z = <<p, x>> /\ m[z] = At(e, t, p, x) /\ l[z] = At(d, u, p, x)
  BY <1>1, LayoutIs
<1>3. \A z \in Sites : l[z] \in {m[z], NULL} \/ \E k \in 1..n : l[z] = f[k]
  BY <1>2
<1>4. \A z, w \in Sites, k \in 1..n : l[z] = f[k] /\ l[w] = f[k] => z = w
  <2> SUFFICES ASSUME NEW z \in Sites, NEW w \in Sites, NEW k \in 1..n, l[z] = f[k], l[w] = f[k]
               PROVE  z = w
    OBVIOUS
  <2>1. PICK p \in Procs, x \in Places : z = <<p, x>> /\ l[z] = At(d, u, p, x)
    BY <1>2
  <2>2. PICK q \in Procs, y \in Places : w = <<q, y>> /\ l[w] = At(d, u, q, y)
    BY <1>2
  <2> QED
    BY <2>1, <2>2
<1> QED
  BY <1>1, <1>3, <1>4 DEF Placed

LEMMA PlaceKinds ==
    /\ \A x : x \in Places <=> x = TRAPFRAME \/ x \in VAs
    /\ TRAPFRAME \notin VAs /\ TRAPFRAME \in Places
    /\ NULL \notin Pages /\ NULL \notin Entries /\ 0 \in VAs
    /\ \A x \in VAs : x \in Nat /\ x < NV
BY PagesAssumption DEF Places, VAs, TRAPFRAME, Pages, Entries

-----------------------------------------------------------------------------
(***************************************************************************)
(* The pages that pmem_free puts into the list.                            *)
(***************************************************************************)
\* R has pages from places A of process p, none twice.
Gives(r, p, A) ==
    /\ r \in Seq(Pages)
    /\ \A j, k \in 1..Len(r) : r[j] = r[k] => j = k
    /\ \A j \in 1..Len(r) : \E a \in A : r[j] = At(pte, tf, p, a)

LEMMA MappedFacts ==
    ASSUME TypeOK, NEW p \in Procs, NEW a \in VAs
    PROVE  /\ a \in Mapped(p) <=> At(pte, tf, p, a) # NULL
           /\ a \in Mapped(p) => /\ pte[p][a] \in Entries /\ pte[p][a] # NULL
                                 /\ pte[p][a].pa \in Pages
                                 /\ At(pte, tf, p, a) = pte[p][a].pa
           /\ a \notin Mapped(p) => pte[p][a] = NULL
<1>1. pte[p][a] \in Entries \cup {NULL} /\ a # TRAPFRAME
  BY Types, PlaceKinds DEF Tables
<1>2. \A e \in Entries : e.pa \in Pages
  BY DEF Entries
<1>3. At(pte, tf, p, a) = IF pte[p][a] = NULL THEN NULL ELSE pte[p][a].pa
  BY <1>1 DEF At
<1>4. a \in Mapped(p) <=> pte[p][a] # NULL
  BY DEF Mapped
<1> QED
  BY <1>1, <1>2, <1>3, <1>4, PlaceKinds

LEMMA OwnedFacts ==
    ASSUME Exclusive
    PROVE  /\ TypeOK
           /\ \A p, q \in Procs, x, y \in Places :
                At(pte, tf, p, x) # NULL /\ At(pte, tf, p, x) = At(pte, tf, q, y) => p = q /\ x = y
           /\ \A p \in Procs, x \in Places, k \in 1..Len(free) : At(pte, tf, p, x) # free[k]
           /\ \A j, k \in 1..Len(free) : free[j] = free[k] => j = k
           /\ \A k \in 1..Len(free) : free[k] \in Pages /\ free[k] # NULL
<1>1. TypeOK /\ Owned(pte, tf, free)
  BY ExclusiveOwned
<1>2. DOMAIN free = 1..Len(free) /\ \A k \in 1..Len(free) : free[k] \in Pages
  BY <1>1, Types, LenProperties, ElementOfSeq
<1>3. \A k \in 1..Len(free) : free[k] \in Range(free)
  BY <1>2 DEF Range
<1> QED
  BY <1>1, <1>2, <1>3, PlaceKinds DEF Owned, IsInjective

LEMMA ReclaimedDownIs ==
    ASSUME Exclusive, NEW p \in Procs, NEW A \in SUBSET Mapped(p)
    PROVE  Gives(ReclaimedDown(p, A), p, A)
<1> DEFINE B == {a \in A : Contents(p, a) = 1}
<1>0. B \in SUBSET VAs /\ B \subseteq A
  BY DEF Mapped
<1> HIDE DEF B
<1>1. PICK s, c : s = InOrder(B) /\ c = Cardinality(B)
  OBVIOUS
<1>2. c \in Nat /\ s \in [1..c -> B] /\ \A j, k \in 1..c : s[j] = s[k] => j = k
  BY <1>0, <1>1, InOrderIs
<1>3. PICK r : r = ReclaimedDown(p, A)
  OBVIOUS
<1>4. r = [k \in 1..c |-> pte[p][s[k]].pa]
  BY <1>1, <1>2, <1>3 DEF ReclaimedDown, B
<1>5. \A k \in 1..c : /\ s[k] \in A /\ s[k] \in VAs /\ s[k] \in Places
                      /\ r[k] = At(pte, tf, p, s[k]) /\ r[k] \in Pages /\ r[k] # NULL
  BY <1>0, <1>2, <1>4, MappedFacts, OwnedFacts, PlaceKinds
<1>6. r \in Seq(Pages) /\ Len(r) = c
  BY <1>2, <1>4, <1>5
<1>7. \A j, k \in 1..c : r[j] = r[k] => j = k
  BY <1>2, <1>5, OwnedFacts
<1> QED
  BY <1>3, <1>5, <1>6, <1>7 DEF Gives

LEMMA GivesReverse ==
    ASSUME NEW r, NEW p, NEW A, Gives(r, p, A)
    PROVE  Gives(Reverse(r), p, A)
<1>1. r \in Seq(Pages) /\ Len(r) \in Nat
  BY LenProperties DEF Gives
<1>2. PICK c, s : c = Len(r) /\ s = Reverse(r)
  OBVIOUS
<1>3. s = [k \in 1..c |-> r[(c - k) + 1]] /\ c \in Nat
  BY <1>1, <1>2 DEF Reverse
<1>4. \A k \in 1..c : (c - k) + 1 \in 1..c /\ r[(c - k) + 1] \in Pages
  BY <1>1, <1>2, <1>3, ElementOfSeq
<1>5. s \in Seq(Pages) /\ Len(s) = c
  BY <1>3, <1>4
<1>6. ASSUME NEW j \in 1..c, NEW k \in 1..c, s[j] = s[k] PROVE j = k
  <2>1. PICK x, y : x = (c - j) + 1 /\ y = (c - k) + 1
    OBVIOUS
  <2>2. x \in 1..c /\ y \in 1..c /\ r[x] = r[y]
    BY <2>1, <1>3, <1>4, <1>6
  <2>3. x = y
    BY <2>2, <1>2 DEF Gives
  <2> QED
    BY <2>1, <2>3, <1>3
<1>7. \A j \in 1..c : \E a \in A : s[j] = At(pte, tf, p, a)
  BY <1>2, <1>3, <1>4 DEF Gives
<1> QED
  BY <1>2, <1>5, <1>6, <1>7 DEF Gives

LEMMA ReclaimedTableIs ==
    ASSUME Exclusive, NEW p \in Procs
    PROVE  Gives(ReclaimedTable(p), p, Mapped(p))
BY ReclaimedDownIs, GivesReverse DEF ReclaimedTable

\* The single page of one place more.
LEMMA GivesMore ==
    ASSUME Exclusive, NEW p \in Procs, NEW A \in SUBSET Places, NEW r, Gives(r, p, A),
           NEW x \in Places \ A, NEW g, g = At(pte, tf, p, x), g # NULL
    PROVE  Gives(r \o Reclaimed(g), p, A \cup {x}) /\ Gives(Reclaimed(g), p, {x})
<1>1. g \in Pages
  <2>1. pte \in Tables /\ tf \in Frames
    BY OwnedFacts, Types
  <2> QED
    BY <2>1, LayoutIs
<1>2. PICK s : s = Reclaimed(g)
  OBVIOUS
<1>3. /\ s \in Seq(Pages) /\ Len(s) \in {0, 1}
      /\ \A k \in 1..Len(s) : k = 1 /\ s[k] = g
  BY <1>1, <1>2 DEF Reclaimed
<1>4. Gives(s, p, {x})
  BY <1>3 DEF Gives
<1>5. PICK t, c : t = r \o s /\ c = Len(r)
  OBVIOUS
<1>6. r \in Seq(Pages) /\ c \in Nat
  BY <1>5, LenProperties DEF Gives
<1>7. t \in Seq(Pages) /\ Len(t) = c + Len(s)
  BY <1>3, <1>5, <1>6, ConcatProperties
<1>8. \A k \in 1..Len(t) : IF k <= c THEN k \in 1..c /\ t[k] = r[k] ELSE k = c + 1 /\ t[k] = g
  <2> SUFFICES ASSUME NEW k \in 1..Len(t)
               PROVE  IF k <= c THEN k \in 1..c /\ t[k] = r[k] ELSE k = c + 1 /\ t[k] = g
    OBVIOUS
  <2>1. k \in 1..(Len(r) + Len(s))
    BY <1>5, <1>7
  <2>2. (r \o s)[k] = IF k <= Len(r) THEN r[k] ELSE s[k - Len(r)]
    BY <2>1, <1>3, <1>6, ConcatProperties
  <2>3. CASE k <= c
    BY <2>2, <2>3, <1>5, <1>6
  <2>4. CASE ~ (k <= c)
    <3>1. k - c \in 1..Len(s)
      BY <2>4, <1>3, <1>6, <1>7
    <3>2. k - c = 1 /\ s[k - c] = g
      BY <3>1, <1>3
    <3> QED
      BY <3>1, <3>2, <2>2, <2>4, <1>5, <1>6
  <2> QED
    BY <2>3, <2>4
<1>9. \A j \in 1..c : r[j] # g /\ \E a \in A : r[j] = At(pte, tf, p, a)
  BY <1>5, OwnedFacts DEF Gives
<1>10. \A j, k \in 1..Len(t) : t[j] = t[k] => j = k
  BY <1>5, <1>8, <1>9, SMTT(60) DEF Gives
<1>11. \A j \in 1..Len(t) : \E a \in A \cup {x} : t[j] = At(pte, tf, p, a)
  BY <1>8, <1>9
<1> QED
  BY <1>2, <1>4, <1>5, <1>7, <1>10, <1>11, ZenonT(60) DEF Gives

\* Pages given back have left their places.
LEMMA ReturnedIf ==
    ASSUME TypeOK, TypeOK', NEW p \in Procs, NEW A \in SUBSET Places, NEW r, NEW n, Gives(r, p, A),
           \A a \in A : At(pte', tf', p, a) # At(pte, tf, p, a)
    PROVE  Returned(Layout(pte, tf), free, n, Layout(pte', tf'), r)
<1>1. PICK m, l : m = Layout(pte, tf) /\ l = Layout(pte', tf')
  OBVIOUS
<1>2. \A x \in Places : <<p, x>> \in Sites /\ m[<<p, x>>] = At(pte, tf, p, x) /\ l[<<p, x>>] = At(pte', tf', p, x)
  BY <1>1, LayoutIs, Types
<1>3. \A j \in 1..Len(r) : \E z \in Sites : r[j] = m[z] /\ l[z] # m[z]
  <2> SUFFICES ASSUME NEW j \in 1..Len(r) PROVE \E z \in Sites : r[j] = m[z] /\ l[z] # m[z]
    OBVIOUS
  <2>1. PICK a \in A : r[j] = At(pte, tf, p, a)
    BY DEF Gives
  <2>2. a \in Places /\ At(pte', tf', p, a) # At(pte, tf, p, a)
    OBVIOUS
  <2> QED
    BY <2>1, <2>2, <1>2
<1> QED
  BY <1>1, <1>3 DEF Returned, Gives

-----------------------------------------------------------------------------
(***************************************************************************)
(* The steps keep the invariant.                                           *)
(***************************************************************************)
\* What IInv says of a process.
Good(p) == state[p] = "live" => Range0(p) \subseteq Mapped(p) /\ tf[p] # NULL

SameFor(p) ==
    state'[p] = state[p] /\ heap_top'[p] = heap_top[p] /\ pte'[p] = pte[p] /\ tf'[p] = tf[p]

LEMMA IInvParts == IInv <=> Exclusive /\ \A p \in Procs : Good(p)
BY DEF IInv, HeapMapped, Good

LEMMA IInvIf ==
    ASSUME IInv, Exclusive', \A p \in Procs : SameFor(p) \/ Good(p)'
    PROVE  IInv'
<1>1. ASSUME NEW p \in Procs PROVE Good(p)'
  <2>1. CASE SameFor(p)
    BY <2>1, IInvParts DEF SameFor, Good, Range0, Mapped
  <2> QED
    BY <2>1
<1> QED
  BY <1>1 DEF IInv, HeapMapped, Good

\* The list after n pages were taken is a list.
LEMMA AfterTakingType ==
    ASSUME TypeOK, NEW n \in 0..Len(free)
    PROVE  AfterTaking(n) \in Seq(Pages) /\ Len(AfterTaking(n)) = Len(free) - n /\ Len(free) \in Nat
<1>1. PICK f : f = free
  OBVIOUS
<1>2. f \in Seq(Pages) /\ Len(f) \in Nat
  BY <1>1, Types, LenProperties
<1>3. SubSeq(f, n + 1, Len(f)) \in Seq(Pages) /\ Len(SubSeq(f, n + 1, Len(f))) = Len(f) - n
  BY <1>1, <1>2, ElementOfSeq
<1> QED
  BY <1>1, <1>2, <1>3 DEF AfterTaking

\* Tables and trapframes are left alone.
LEMMA PlacedSame ==
    ASSUME Exclusive, NEW n \in 0..Len(free),
           \A p \in Procs, x \in Places : At(pte', tf', p, x) = At(pte, tf, p, x),
           TypeOK'
    PROVE  Placed(Layout(pte, tf), free, n, Layout(pte', tf'))
<1>1. pte \in Tables /\ tf \in Frames /\ pte' \in Tables /\ tf' \in Frames /\ Len(free) \in Nat
  BY Types, OwnedFacts, LenProperties
<1>2. \A k \in 1..n : k \in 1..Len(free)
  BY <1>1
<1> QED
  BY <1>1, <1>2, OwnedFacts, PlacedIf

\* A process panics, perhaps after it took some pages.
LEMMA PanicStep ==
    ASSUME IInv, NEW S \in SUBSET Procs,
           state' = [q \in Procs |-> IF q \in S THEN "panic" ELSE state[q]],
           word' \in [Pages -> Vals], UNCHANGED <<pte, tf, heap_top>>,
           free' = free \/ free' = <<>> \/ \E n \in 0..Len(free) : free' = AfterTaking(n)
    PROVE  IInv'
<1>0. Exclusive /\ TypeOK
  BY DEF IInv, Exclusive
<1>1. free' \in Seq(Pages)
  <2>1. free \in Seq(Pages) /\ <<>> \in Seq(Pages)
    BY <1>0, Types
  <2> QED
    BY <2>1, <1>0, AfterTakingType
<1>2. TypeOK'
  <2>1. state' \in [Procs -> {"unused", "live", "panic"}]
    BY <1>0, Types
  <2> QED
    BY <2>1, <1>0, <1>1, Types
<1>3. \A p \in Procs, x \in Places : At(pte', tf', p, x) = At(pte, tf, p, x)
  OBVIOUS
<1>4. Exclusive'
  BY <1>0, <1>2, <1>3, StayStep, TakeStep, PlacedSame
<1>5. \A p \in Procs : SameFor(p) \/ Good(p)'
  BY DEF SameFor, Good
<1> QED
  BY <1>4, <1>5, IInvIf

LEMMA PanicOne ==
    ASSUME IInv, NEW p \in Procs, Panic(p), UNCHANGED <<word, pte, tf, heap_top>>,
           free' = free \/ free' = <<>> \/ \E n \in 0..Len(free) : free' = AfterTaking(n)
    PROVE  IInv'
<1>1. TypeOK
  BY DEF IInv, Exclusive
<1>2. state' = [q \in Procs |-> IF q \in {p} THEN "panic" ELSE state[q]]
  BY <1>1, Types DEF Panic
<1>3. word' \in [Pages -> Vals] /\ {p} \in SUBSET Procs
  BY <1>1, Types
<1> QED
  BY <1>2, <1>3, PanicStep

LEMMA OutOfPagesStep ==
    ASSUME IInv, NEW p \in Procs, NEW n, OutOfPages(p, n)
    PROVE  IInv'
BY PanicOne DEF OutOfPages

LEMMA ForkPanicStep ==
    ASSUME IInv, NEW p \in Procs, NEW c \in Procs, Fork_panic(p, c)
    PROVE  IInv'
<1>1. TypeOK /\ word \in [Pages -> Vals] /\ state \in [Procs -> {"unused", "live", "panic"}]
  BY Types DEF IInv, Exclusive
<1>2. state' = [q \in Procs |-> IF q \in {p, c} THEN "panic" ELSE state[q]]
  BY <1>1 DEF Fork_panic
<1> QED
  BY <1>1, <1>2, PanicStep, ZenonT(60) DEF Fork_panic

LEMMA BrkPanicStep ==
    ASSUME IInv, NEW p \in Procs, NEW new \in 0..(NV * PG), brk_panic(p, new)
    PROVE  IInv'
<1>1. TypeOK /\ word \in [Pages -> Vals] /\ Len(free) \in Nat
  BY Types, LenProperties DEF IInv, Exclusive
<1>2. PICK n : n = GrowsUntil(p, new)
  OBVIOUS
<1>3. n \in Nat
  <2>1. heap_top[p] \in Nat /\ new \in Nat /\ heap_top[p] \in 0..(NV * PG) /\ heap_top[p] <= new
    BY <1>1, Types, PagesAssumption DEF brk_panic
  <2>2. PICK x, y : x = PagesTo(heap_top[p]) /\ y = PagesTo(new)
    OBVIOUS
  <2>3. x \in Nat /\ y \in Nat /\ x <= y
    BY <2>1, <2>2, PagesToSmall, PagesToMonotonic
  <2>4. CASE heap_top[p] % PG # 0
    BY <2>4, <1>2 DEF GrowsUntil
  <2>5. CASE heap_top[p] % PG = 0 /\ GrowFails(p, new)
    <3>1. PICK S : S = GrowSet(p, new) \cap Mapped(p)
      OBVIOUS
    <3>2. S # {} /\ S \in SUBSET Nat /\ \A a \in S : a >= x
      BY <2>2, <2>3, <2>5, <3>1 DEF GrowFails, GrowSet
    <3>3. Min(S) \in S
      BY <3>2, LeastNumber DEF Min
    <3>4. PICK a : a = Min(S) /\ a \in Nat /\ a >= x
      BY <3>2, <3>3
    <3>5. n = (a - x) + 1
      BY <2>2, <2>5, <3>1, <3>4, <1>2 DEF GrowsUntil
    <3> QED
      BY <3>4, <3>5, <2>3
  <2>6. CASE heap_top[p] % PG = 0 /\ ~ GrowFails(p, new)
    BY <2>2, <2>3, <2>6, <1>2 DEF GrowsUntil
  <2> QED
    BY <2>4, <2>5, <2>6
<1>4. free' = <<>> \/ (n \in 0..Len(free) /\ free' = AfterTaking(n))
  BY <1>1, <1>2, <1>3 DEF brk_panic
<1>5. Panic(p) /\ UNCHANGED <<word, pte, tf, heap_top>>
  BY DEF brk_panic
<1> QED
  BY <1>4, <1>5, PanicOne

LEMMA FaultPanicStep ==
    ASSUME IInv, NEW p \in Procs, NEW a \in VAs, page_fault_panic(p, a)
    PROVE  IInv'
<1>1. TypeOK /\ word \in [Pages -> Vals] /\ free \in Seq(Pages)
  BY Types DEF IInv, Exclusive
<1>2. CASE OutOfPages(p, 1)
  BY <1>2, OutOfPagesStep
<1>3. CASE ~ OutOfPages(p, 1)
  <2>1. /\ free' = IF free = <<>> THEN free ELSE AfterTaking(1)
        /\ Panic(p) /\ UNCHANGED <<word, pte, tf, heap_top>>
    BY <1>3 DEF page_fault_panic
  <2>2. free # <<>> => 1 \in 0..Len(free)
    BY <1>1, LenProperties, EmptySeq
  <2> QED
    BY <2>1, <2>2, PanicOne
<1> QED
  BY <1>2, <1>3

\* bad: the page goes back if the word in it is 1.
LEMMA ExecBadStep ==
    ASSUME IInv, NEW p \in Procs, NEW v \in Vals, proc_exec_bad(p, v)
    PROVE  IInv'
<1>0. Exclusive /\ TypeOK /\ Len(free) \in Nat /\ free \in Seq(Pages) /\ Len(free) >= 2
  BY Types, LenProperties DEF IInv, Exclusive, proc_exec_bad
<1>1. PICK g1, g2 : g1 = free[1] /\ g2 = free[2]
  OBVIOUS
<1>2. Taken(2)[1] = g1 /\ Taken(2)[2] = g2 /\ g1 \in Pages /\ g2 \in Pages
  BY <1>0, <1>1, ElementOfSeq DEF Taken
<1>3. PICK r : r = (IF v = 1 THEN <<g2>> ELSE <<>>)
  OBVIOUS
<1>4. /\ free' = r \o AfterTaking(2)
      /\ word' = [word EXCEPT ![g1] = KERNEL_SP, ![g2] = IF v = 1 THEN GARBAGE ELSE (v - 1) % WRAP]
      /\ Panic(p) /\ UNCHANGED <<pte, tf, heap_top>>
  BY <1>2, <1>3 DEF proc_exec_bad
<1>5. r \in Seq(Pages) /\ 2 \in 0..Len(free)
  BY <1>0, <1>2, <1>3
<1>6. word' \in [Pages -> Vals]
  <2>1. KERNEL_SP \in Vals /\ GARBAGE \in Vals /\ v \in Nat
    BY PagesAssumption DEF KERNEL_SP, GARBAGE, Vals
  <2>2. v # 1 => ((v - 1) % WRAP) \in Vals
    BY <2>1, PagesAssumption, Z3 DEF Vals
  <2>3. word \in [Pages -> Vals]
    BY <1>0, Types
  <2> QED
    BY <2>1, <2>2, <2>3, <1>2, <1>4
<1>7. TypeOK'
  <2>1. AfterTaking(2) \in Seq(Pages)
    BY <1>0, <1>5, AfterTakingType
  <2>2. free' \in Seq(Pages)
    BY <2>1, <1>4, <1>5, ConcatProperties
  <2>3. state' \in [Procs -> {"unused", "live", "panic"}]
    BY <1>0, <1>4, Types DEF Panic
  <2> QED
    BY <2>2, <2>3, <1>0, <1>4, <1>6, Types
<1>8. Placed(Layout(pte, tf), free, 2, Layout(pte', tf'))
  BY <1>0, <1>4, <1>5, <1>7, PlacedSame
<1>9. Returned(Layout(pte, tf), free, 2, Layout(pte', tf'), r)
  <2>1. PICK m, l : m = Layout(pte, tf) /\ l = Layout(pte', tf')
    OBVIOUS
  <2>2. l = m
    BY <2>1, <1>4
  <2>3. \A z \in Sites : m[z] # free[2]
    <3>1. pte \in Tables /\ tf \in Frames /\ 2 \in 1..Len(free)
      BY <1>0, Types
    <3>2. \A z \in Sites : \E q \in Procs, x \in Places : m[z] = At(pte, tf, q, x)
      BY <2>1, <3>1, LayoutIs
    <3> QED
      BY <3>1, <3>2, <1>0, OwnedFacts
  <2>4. \A j \in 1..Len(r) : j = 1 /\ r[j] = free[2]
    BY <1>1, <1>3
  <2> QED
    BY <2>1, <2>2, <2>3, <2>4, <1>5 DEF Returned
<1>10. Exclusive'
  BY <1>0, <1>4, <1>5, <1>7, <1>8, <1>9, MoveStep
<1>11. \A q \in Procs : SameFor(q) \/ Good(q)'
  BY <1>0, <1>4, Types DEF SameFor, Good, Panic
<1> QED
  BY <1>10, <1>11, IInvIf

\* Another process has its pages where it had them.
LEMMA OthersAt ==
    ASSUME NEW q, pte'[q] = pte[q], tf'[q] = tf[q]
    PROVE  \A x : At(pte', tf', q, x) = At(pte, tf, q, x)
BY DEF At

\* The page at one address of a table.
LEMMA AtOf ==
    ASSUME NEW e, NEW t, NEW p, NEW a \in VAs
    PROVE  /\ e[p][a] = NULL => At(e, t, p, a) = NULL
           /\ e[p][a] # NULL => At(e, t, p, a) = e[p][a].pa
           /\ At(e, t, p, TRAPFRAME) = t[p]
BY PlaceKinds DEF At

LEMMA EntryIs ==
    ASSUME NEW g \in Pages, NEW w \in BOOLEAN, NEW c \in BOOLEAN
    PROVE  /\ Entry(g, w, c) \in Entries /\ Entry(g, w, c) # NULL /\ Entry(g, w, c).pa = g
           /\ Entry(g, w, c).w = w /\ Entry(g, w, c).cow = c
<1>1. Entry(g, w, c) \in Entries /\ Entry(g, w, c).pa = g /\ Entry(g, w, c).w = w /\ Entry(g, w, c).cow = c
  BY DEF Entry, Entries
<1> QED
  BY <1>1, PlaceKinds

\* The words of pages that were freed.
LEMMA FreeWordType ==
    ASSUME TypeOK, NEW G
    PROVE  /\ FreeWord(G) \in [Pages -> Vals]
           /\ \A g \in Pages \ G : FreeWord(G)[g] = word[g]
<1>1. ASSUME NEW w \in Vals PROVE GARBAGE \in Vals /\ (w # 1 => ((w - 1) % WRAP) \in Vals)
  BY PagesAssumption, Z3 DEF GARBAGE, Vals
<1>2. word \in [Pages -> Vals]
  BY Types
<1> QED
  BY <1>1, <1>2 DEF FreeWord

LEMMA WordsIn == Zero \in Vals /\ KERNEL_SP \in Vals /\ GARBAGE \in Vals /\ Fresh(0) = Zero
BY PagesAssumption DEF KERNEL_SP, GARBAGE, Vals, Zero, Fresh

LEMMA NoentStep ==
    ASSUME IInv, NEW p \in Procs, proc_exec_noent(p)
    PROVE  IInv'
<1>0. Exclusive /\ TypeOK /\ Len(free) \in Nat /\ free \in Seq(Pages) /\ 1 \in 0..Len(free)
  BY Types, LenProperties DEF IInv, Exclusive, proc_exec_noent
<1>1. free' = AfterTaking(1) /\ UNCHANGED <<state, pte, tf, heap_top>>
      /\ word' = [word EXCEPT ![free[1]] = KERNEL_SP]
  BY DEF proc_exec_noent
<1>2. TypeOK'
  <2>1. free' \in Seq(Pages)
    BY <1>0, <1>1, AfterTakingType
  <2>2. word' \in [Pages -> Vals]
    BY <1>0, <1>1, Types, WordsIn
  <2> QED
    BY <2>1, <2>2, <1>0, <1>1, Types
<1>3. Exclusive'
  BY <1>0, <1>1, <1>2, PlacedSame, TakeStep
<1>4. \A q \in Procs : SameFor(q)
  BY <1>1 DEF SameFor
<1> QED
  BY <1>3, <1>4, IInvIf

\* A store, and uvm_copyout, change the contents of a page only.
LEMMA PutWordStep ==
    ASSUME IInv, NEW p \in Procs, NEW a \in VAs, NEW v \in Vals, PutWord(p, a, v)
    PROVE  IInv'
<1>0. Exclusive /\ TypeOK
  BY DEF IInv, Exclusive
<1>1. UNCHANGED <<state, free, pte, tf, heap_top>> /\ word' = [word EXCEPT ![pte[p][a].pa] = v]
  BY DEF PutWord
<1>2. TypeOK'
  BY <1>0, <1>1, Types
<1>3. Exclusive'
  BY <1>0, <1>1, <1>2, StayStep
<1>4. \A q \in Procs : SameFor(q)
  BY <1>1 DEF SameFor
<1> QED
  BY <1>3, <1>4, IInvIf

LEMMA CopyoutStep ==
    ASSUME IInv, NEW p \in Procs, NEW a \in VAs, NEW v \in Vals, uvm_copyout(p, a, v)
    PROVE  IInv'
BY PutWordStep, PanicOne DEF uvm_copyout

\* The table of p changes at address a only, where it now has entry e.
SetEntry(p, a, e) == pte' = [pte EXCEPT ![p][a] = e]

LEMMA SetEntryIs ==
    ASSUME TypeOK, NEW p \in Procs, NEW a \in VAs, NEW e \in Entries, SetEntry(p, a, e), tf' = tf
    PROVE  /\ pte' \in Tables
           /\ \A q \in Procs, x \in Places :
                At(pte', tf', q, x) = IF q = p /\ x = a THEN e.pa ELSE At(pte, tf, q, x)
           /\ \A q \in Procs \ {p} : pte'[q] = pte[q]
           /\ \A x \in VAs : pte'[p][x] = IF x = a THEN e ELSE pte[p][x]
<1>1. pte \in Tables /\ e # NULL
  BY Types, PlaceKinds
<1>2. pte' \in Tables
  BY <1>1 DEF Tables, SetEntry
<1>3. /\ \A q \in Procs \ {p} : pte'[q] = pte[q]
      /\ \A x \in VAs : pte'[p][x] = IF x = a THEN e ELSE pte[p][x]
  BY <1>1 DEF Tables, SetEntry
<1>4. ASSUME NEW q \in Procs, NEW x \in Places
      PROVE  At(pte', tf', q, x) = IF q = p /\ x = a THEN e.pa ELSE At(pte, tf, q, x)
  BY <1>1, <1>3, PlaceKinds DEF At
<1> QED
  BY <1>2, <1>3, <1>4

\* The running process keeps its heap and its trapframe when an entry is set.
LEMMA SetEntryGood ==
    ASSUME IInv, NEW p \in Procs, NEW a \in VAs, NEW e \in Entries, SetEntry(p, a, e),
           UNCHANGED <<state, tf, heap_top>>
    PROVE  \A q \in Procs : SameFor(q) \/ Good(q)'
<1>0. TypeOK /\ Good(p)
  BY IInvParts DEF Exclusive
<1>1. /\ \A q \in Procs \ {p} : pte'[q] = pte[q]
      /\ \A x \in VAs : pte'[p][x] = IF x = a THEN e ELSE pte[p][x]
  BY <1>0, SetEntryIs
<1>2. Good(p)'
  BY <1>0, <1>1, PlaceKinds DEF Good, Range0, Mapped
<1> QED
  BY <1>1, <1>2 DEF SameFor

LEMMA CowOwnStep ==
    ASSUME IInv, NEW p \in Procs, NEW a \in VAs, handle_cow_own(p, a)
    PROVE  IInv'
<1>0. Exclusive /\ TypeOK /\ a \in Mapped(p) /\ UNCHANGED <<state, free, word, tf, heap_top>>
  BY DEF IInv, Exclusive, handle_cow_own
<1>1. PICK e : e = Entry(pte[p][a].pa, TRUE, FALSE)
  OBVIOUS
<1>2. e \in Entries /\ e.pa = At(pte, tf, p, a)
  BY <1>0, <1>1, MappedFacts, EntryIs
<1>3. SetEntry(p, a, e)
  BY <1>1 DEF handle_cow_own, SetEntry
<1>4. TypeOK'
  BY <1>0, <1>2, <1>3, SetEntryIs, Types
<1>5. \A q \in Procs, x \in Places : At(pte', tf', q, x) = At(pte, tf, q, x)
  BY <1>0, <1>2, <1>3, SetEntryIs
<1>6. Exclusive'
  BY <1>0, <1>4, <1>5, StayStep
<1>7. \A q \in Procs : SameFor(q) \/ Good(q)'
  BY <1>0, <1>2, <1>3, SetEntryGood
<1> QED
  BY <1>6, <1>7, IInvIf

\* The first page of the list goes to address a of process p.
LEMMA PlacedOne ==
    ASSUME Exclusive, TypeOK', NEW p \in Procs, NEW a \in VAs, 1 \in 0..Len(free),
           \A q \in Procs, x \in Places :
               At(pte', tf', q, x) = IF q = p /\ x = a THEN free[1] ELSE At(pte, tf, q, x)
    PROVE  Placed(Layout(pte, tf), free, 1, Layout(pte', tf'))
<1>1. pte \in Tables /\ tf \in Frames /\ pte' \in Tables /\ tf' \in Frames /\ Len(free) \in Nat
  BY Types, OwnedFacts, LenProperties
<1>2. \A k \in 1..1 : k = 1 /\ k \in 1..Len(free)
  BY <1>1
<1>3. 1 \in 1..1
  OBVIOUS
<1> QED
  BY <1>1, <1>2, <1>3, OwnedFacts, PlacedIf

LEMMA FaultStep ==
    ASSUME IInv, NEW p \in Procs, NEW a \in VAs, handle_page_fault(p, a)
    PROVE  IInv'
<1>0. Exclusive /\ TypeOK /\ Len(free) \in Nat /\ free \in Seq(Pages) /\ 1 \in 0..Len(free) /\ 1 \in 1..Len(free)
  BY Types, LenProperties DEF IInv, Exclusive, handle_page_fault
<1>1. free' = AfterTaking(1) /\ UNCHANGED <<state, tf, heap_top>>
      /\ word' = [word EXCEPT ![free[1]] = Zero]
  BY DEF handle_page_fault, Fresh
<1>2. PICK e : e = Entry(free[1], TRUE, FALSE)
  OBVIOUS
<1>3. free[1] \in Pages /\ e \in Entries /\ e.pa = free[1]
  BY <1>0, <1>2, OwnedFacts, EntryIs
<1>4. SetEntry(p, a, e)
  BY <1>2 DEF handle_page_fault, SetEntry
<1>5. TypeOK'
  <2>1. free' \in Seq(Pages)
    BY <1>0, <1>1, AfterTakingType
  <2>2. word' \in [Pages -> Vals]
    BY <1>0, <1>1, Types, WordsIn
  <2> QED
    BY <2>1, <2>2, <1>0, <1>1, <1>3, <1>4, SetEntryIs, Types
<1>6. Placed(Layout(pte, tf), free, 1, Layout(pte', tf'))
  BY <1>0, <1>1, <1>3, <1>4, <1>5, SetEntryIs, PlacedOne
<1>7. Exclusive'
  BY <1>0, <1>1, <1>5, <1>6, TakeStep
<1>8. \A q \in Procs : SameFor(q) \/ Good(q)'
  BY <1>1, <1>3, <1>4, SetEntryGood
<1> QED
  BY <1>7, <1>8, IInvIf

LEMMA CowCopyStep ==
    ASSUME IInv, NEW p \in Procs, NEW a \in VAs, handle_cow_copy(p, a)
    PROVE  IInv'
<1>0. /\ Exclusive /\ TypeOK /\ Len(free) \in Nat /\ free \in Seq(Pages) /\ 1 \in 0..Len(free) /\ 1 \in 1..Len(free)
      /\ a \in Mapped(p)
  BY Types, LenProperties DEF IInv, Exclusive, handle_cow_copy
<1>1. PICK old, e : old = pte[p][a].pa /\ e = Entry(free[1], TRUE, FALSE)
  OBVIOUS
<1>2. /\ free' = Reclaimed(old) \o AfterTaking(1) /\ UNCHANGED <<state, tf, heap_top>>
      /\ word' = [FreeWord({old}) EXCEPT ![free[1]] = word[old]]
      /\ SetEntry(p, a, e)
  BY <1>1 DEF handle_cow_copy, CowWord, Contents, SetEntry
<1>3. /\ free[1] \in Pages /\ e \in Entries /\ e.pa = free[1]
      /\ old \in Pages /\ old = At(pte, tf, p, a) /\ old # NULL /\ old # free[1] /\ a \in Places
  <2>1. free[1] \in Pages
    BY <1>0, OwnedFacts
  <2>2. e \in Entries /\ e.pa = free[1]
    BY <2>1, <1>1, EntryIs
  <2>3. old \in Pages /\ old = At(pte, tf, p, a)
    BY <1>0, <1>1, MappedFacts
  <2>4. a \in Places /\ old # NULL
    BY <2>3, PlaceKinds
  <2>5. old # free[1]
    BY <2>3, <2>4, <1>0, OwnedFacts
  <2> QED
    BY <2>1, <2>2, <2>3, <2>4, <2>5
<1>4. Gives(Reclaimed(old), p, {a}) /\ Reclaimed(old) \in Seq(Pages)
  <2>1. Gives(<<>>, p, {})
    BY DEF Gives
  <2>2. Gives(Reclaimed(old), p, {a})
    <3>1. {} \in SUBSET Places /\ a \in Places \ {} /\ {} \cup {a} = {a}
      BY <1>3
    <3> QED
      BY <2>1, <3>1, <1>0, <1>3, GivesMore
  <2> QED
    BY <2>2 DEF Gives
<1>5. TypeOK'
  <2>1. AfterTaking(1) \in Seq(Pages)
    BY <1>0, AfterTakingType
  <2>2. free' \in Seq(Pages)
    BY <2>1, <1>2, <1>4, ConcatProperties
  <2>3. word' \in [Pages -> Vals]
    BY <1>0, <1>2, <1>3, Types, FreeWordType
  <2> QED
    BY <2>2, <2>3, <1>0, <1>2, <1>3, SetEntryIs, Types
<1>6. \A q \in Procs, x \in Places :
        At(pte', tf', q, x) = IF q = p /\ x = a THEN free[1] ELSE At(pte, tf, q, x)
  BY <1>0, <1>2, <1>3, SetEntryIs
<1>7. Placed(Layout(pte, tf), free, 1, Layout(pte', tf'))
  BY <1>0, <1>5, <1>6, PlacedOne
<1>8. Returned(Layout(pte, tf), free, 1, Layout(pte', tf'), Reclaimed(old))
  <2>1. \A x \in {a} : At(pte', tf', p, x) # At(pte, tf, p, x)
    BY <1>3, <1>6
  <2> QED
    BY <2>1, <1>0, <1>3, <1>4, <1>5, ReturnedIf
<1>9. Exclusive'
  BY <1>0, <1>2, <1>4, <1>5, <1>7, <1>8, MoveStep
<1>10. \A q \in Procs : SameFor(q) \/ Good(q)'
  BY <1>2, <1>3, SetEntryGood
<1> QED
  BY <1>9, <1>10, IInvIf

\* The table of p becomes T.
LEMMA SetTable ==
    ASSUME TypeOK, NEW p \in Procs, NEW T \in [VAs -> Entries \cup {NULL}], pte' = [pte EXCEPT ![p] = T]
    PROVE  pte' \in Tables /\ pte'[p] = T /\ \A q \in Procs \ {p} : pte'[q] = pte[q]
<1>1. pte \in Tables
  BY Types
<1> QED
  BY <1>1 DEF Tables

\* The bounds of the heap, before and after sys_brk.
LEMMA BrkBounds ==
    ASSUME TypeOK, NEW p \in Procs, NEW new \in 0..(NV * PG)
    PROVE  /\ PagesTo(heap_top[p]) \in 0..NV /\ PagesTo(new) \in 0..NV
           /\ heap_top[p] <= new => PagesTo(heap_top[p]) <= PagesTo(new)
           /\ new <= heap_top[p] => PagesTo(new) <= PagesTo(heap_top[p])
           /\ NV \in Nat /\ VAs = 0..(NV - 1)
<1>1. heap_top[p] \in 0..(NV * PG) /\ NV \in Nat /\ PG \in Nat
  BY Types, PagesAssumption
<1>2. heap_top[p] \in Nat /\ new \in Nat
  BY <1>1
<1> QED
  BY <1>1, <1>2, PagesToSmall, PagesToMonotonic DEF VAs

LEMMA GrowStep ==
    ASSUME IInv, NEW p \in Procs, NEW new \in 0..(NV * PG), brk_grow(p, new)
    PROVE  IInv'
<1>0. Exclusive /\ TypeOK /\ Len(free) \in Nat /\ Good(p) /\ state[p] = "live"
  BY IInvParts, Types, LenProperties DEF Exclusive, brk_grow
<1>1. PICK x, y, n : x = PagesTo(heap_top[p]) /\ y = PagesTo(new) /\ n = y - x
  OBVIOUS
<1>2. /\ new > heap_top[p] /\ ~ GrowFails(p, new) /\ Len(free) >= n
      /\ free' = AfterTaking(n)
      /\ word' = [g \in Pages |-> IF \E k \in 1..n : g = free[k] THEN Zero ELSE word[g]]
      /\ pte' = [pte EXCEPT ![p] = [a \in VAs |->
             IF a \in GrowSet(p, new) THEN Entry(free[(a - x) + 1], TRUE, FALSE) ELSE pte[p][a]]]
      /\ heap_top' = [heap_top EXCEPT ![p] = new]
      /\ UNCHANGED <<state, tf>>
  BY <1>1 DEF brk_grow, Fresh
<1>3. x \in 0..NV /\ y \in 0..NV /\ x <= y /\ NV \in Nat /\ VAs = 0..(NV - 1) /\ GrowSet(p, new) = x..(y - 1)
  <2>1. heap_top[p] <= new
    BY <1>0, <1>2, Types, PagesAssumption
  <2> QED
    BY <2>1, <1>0, <1>1, BrkBounds DEF GrowSet
<1>4. n \in 0..Len(free) /\ n \in Nat
  BY <1>0, <1>1, <1>2, <1>3
<1>5. \A a \in x..(y - 1) : (a - x) + 1 \in 1..n /\ (a - x) + 1 \in 1..Len(free) /\ a \in VAs
  BY <1>0, <1>1, <1>3, <1>4, SMTT(60)
<1>6. PICK T : T = [a \in VAs |-> IF a \in x..(y - 1) THEN Entry(free[(a - x) + 1], TRUE, FALSE) ELSE pte[p][a]]
  OBVIOUS
<1>7. \A a \in x..(y - 1) : T[a] \in Entries /\ T[a].pa = free[(a - x) + 1] /\ T[a] # NULL
  BY <1>0, <1>5, <1>6, OwnedFacts, EntryIs
<1>8. \A a \in VAs : a \notin x..(y - 1) => T[a] = pte[p][a]
  BY <1>6
<1>9. T \in [VAs -> Entries \cup {NULL}]
  <2>1. \A a \in VAs : pte[p][a] \in Entries \cup {NULL}
    BY <1>0, Types DEF Tables
  <2> QED
    BY <2>1, <1>6, <1>7
<1>10. pte' \in Tables /\ pte'[p] = T /\ \A q \in Procs \ {p} : pte'[q] = pte[q]
  BY <1>0, <1>2, <1>3, <1>6, <1>9, SetTable
<1>11. TypeOK'
  <2>1. free' \in Seq(Pages)
    BY <1>0, <1>2, <1>4, AfterTakingType
  <2>2. word' \in [Pages -> Vals]
    BY <1>0, <1>2, Types, WordsIn
  <2>3. heap_top' \in [Procs -> 0..(NV * PG)]
    BY <1>0, <1>2, Types
  <2> QED
    BY <2>1, <2>2, <2>3, <1>0, <1>2, <1>10, Types
<1>12. \A q \in Procs, a \in Places :
         At(pte', tf', q, a) = IF q = p /\ a \in x..(y - 1) THEN free[(a - x) + 1] ELSE At(pte, tf, q, a)
  <2> SUFFICES ASSUME NEW q \in Procs, NEW a \in Places
               PROVE  At(pte', tf', q, a) = IF q = p /\ a \in x..(y - 1) THEN free[(a - x) + 1] ELSE At(pte, tf, q, a)
    OBVIOUS
  <2>1. CASE q # p \/ a = TRAPFRAME
    <3>1. ~ (q = p /\ a \in x..(y - 1))
      BY <2>1, <1>5, PlaceKinds
    <3>2. tf'[q] = tf[q] /\ (q # p => pte'[q] = pte[q])
      BY <1>2, <1>10
    <3>3. At(pte', tf', q, a) = At(pte, tf, q, a)
      BY <3>2, <2>1 DEF At
    <3> QED
      BY <3>1, <3>3
  <2>2. CASE q = p /\ a \in VAs
    <3>1. CASE a \in x..(y - 1)
      BY <2>2, <3>1, <1>7, <1>10, AtOf
    <3>2. CASE a \notin x..(y - 1)
      <4>1. pte'[q][a] = pte[q][a] /\ tf'[q] = tf[q]
        BY <2>2, <3>2, <1>2, <1>8, <1>10
      <4>2. At(pte', tf', q, a) = At(pte, tf, q, a)
        BY <4>1 DEF At
      <4> QED
        BY <4>2, <3>2
    <3> QED
      BY <3>1, <3>2
  <2> QED
    BY <2>1, <2>2, PlaceKinds
<1>13. Placed(Layout(pte, tf), free, n, Layout(pte', tf'))
  <2>1. \A q \in Procs, a \in Places :
          At(pte', tf', q, a) \in {At(pte, tf, q, a), NULL} \/ \E k \in 1..n : At(pte', tf', q, a) = free[k]
    BY <1>5, <1>12
  <2>2. ASSUME NEW q \in Procs, NEW a \in Places, NEW k \in 1..n, At(pte', tf', q, a) = free[k]
        PROVE  q = p /\ a \in x..(y - 1) /\ a = (k + x) - 1
    <3>0. k \in 1..Len(free)
      BY <1>0, <1>4
    <3>1. q = p /\ a \in x..(y - 1)
      BY <3>0, <2>2, <1>0, <1>12, OwnedFacts
    <3>2. free[(a - x) + 1] = free[k]
      BY <3>1, <2>2, <1>12
    <3>3. (a - x) + 1 = k
      BY <3>0, <3>1, <3>2, <1>0, <1>5, OwnedFacts
    <3> QED
      BY <3>1, <3>3, <1>3
  <2>3. \A q, r \in Procs, a, b \in Places, k \in 1..n :
          At(pte', tf', q, a) = free[k] /\ At(pte', tf', r, b) = free[k] => q = r /\ a = b
    BY <2>2
  <2>4. pte \in Tables /\ tf \in Frames /\ pte' \in Tables /\ tf' \in Frames
    BY <1>0, <1>11, Types
  <2> QED
    BY <2>1, <2>3, <2>4, PlacedIf
<1>14. Exclusive'
  BY <1>0, <1>2, <1>4, <1>11, <1>13, TakeStep
<1>15. Good(p)'
  <2>1. heap_top'[p] = new
    BY <1>0, <1>2, Types
  <2>2. Range0(p)' = 0..(y - 1) /\ Range0(p) = 0..(x - 1)
    BY <2>1, <1>1 DEF Range0, PagesTo
  <2>3. \A a \in 0..(y - 1) : a \in VAs /\ (a \in x..(y - 1) \/ a \in 0..(x - 1))
    BY <1>3
  <2>4. \A a \in VAs : a \in 0..(x - 1) => pte[p][a] # NULL /\ a \notin x..(y - 1)
    BY <2>2, <1>0, <1>3 DEF Good, Mapped
  <2>5. \A a \in 0..(y - 1) : a \in VAs /\ pte'[p][a] # NULL
    BY <2>3, <2>4, <1>7, <1>8, <1>10
  <2>6. tf'[p] # NULL
    BY <1>0, <1>2 DEF Good
  <2> QED
    BY <2>2, <2>5, <2>6 DEF Good, Mapped
<1>16. \A q \in Procs : SameFor(q) \/ Good(q)'
  BY <1>0, <1>2, <1>10, <1>15, Types DEF SameFor
<1> QED
  BY <1>14, <1>16, IInvIf

LEMMA ShrinkStep ==
    ASSUME IInv, NEW p \in Procs, NEW new \in 0..(NV * PG), brk_shrink(p, new)
    PROVE  IInv'
<1>0. Exclusive /\ TypeOK /\ Len(free) \in Nat /\ Good(p) /\ state[p] = "live" /\ free \in Seq(Pages)
  BY IInvParts, Types, LenProperties DEF Exclusive, brk_shrink
<1>1. PICK x, y, A : x = PagesTo(heap_top[p]) /\ y = PagesTo(new) /\ A = UngrowSet(p, new)
  OBVIOUS
<1>2. /\ new <= heap_top[p]
      /\ free' = ReclaimedDown(p, A) \o free
      /\ word' = FreeWord(PagesAt(p, A))
      /\ pte' = [pte EXCEPT ![p] = [a \in VAs |-> IF a \in A THEN NULL ELSE pte[p][a]]]
      /\ heap_top' = [heap_top EXCEPT ![p] = new]
      /\ UNCHANGED <<state, tf>>
  BY <1>1 DEF brk_shrink
<1>3. x \in 0..NV /\ y \in 0..NV /\ y <= x /\ NV \in Nat /\ VAs = 0..(NV - 1) /\ A = y..(x - 1)
  BY <1>0, <1>1, <1>2, BrkBounds DEF UngrowSet
<1>4. A \in SUBSET Mapped(p) /\ A \in SUBSET VAs /\ A \in SUBSET Places
  <2>1. Range0(p) = 0..(x - 1)
    BY <1>1 DEF Range0
  <2>2. A \subseteq Mapped(p)
    BY <2>1, <1>0, <1>3 DEF Good
  <2> QED
    BY <2>2, PlaceKinds DEF Mapped
<1>5. PICK r : r = ReclaimedDown(p, A)
  OBVIOUS
<1>6. Gives(r, p, A) /\ r \in Seq(Pages)
  <2>1. Gives(r, p, A)
    BY <1>0, <1>4, <1>5, ReclaimedDownIs
  <2> QED
    BY <2>1 DEF Gives
<1>7. PICK T : T = [a \in VAs |-> IF a \in A THEN NULL ELSE pte[p][a]]
  OBVIOUS
<1>8. T \in [VAs -> Entries \cup {NULL}]
  BY <1>0, <1>7, Types DEF Tables
<1>9. pte' \in Tables /\ pte'[p] = T /\ \A q \in Procs \ {p} : pte'[q] = pte[q]
  BY <1>0, <1>2, <1>7, <1>8, SetTable
<1>10. 0 \in 0..Len(free) /\ free' = r \o AfterTaking(0)
  <2>1. SubSeq(free, 0 + 1, Len(free)) = free
    BY <1>0, SubSeqFull
  <2> QED
    BY <2>1, <1>0, <1>2, <1>5 DEF AfterTaking
<1>11. TypeOK'
  <2>1. free' \in Seq(Pages)
    BY <1>0, <1>2, <1>5, <1>6, ConcatProperties
  <2>2. word' \in [Pages -> Vals]
    BY <1>0, <1>2, FreeWordType
  <2>3. heap_top' \in [Procs -> 0..(NV * PG)]
    BY <1>0, <1>2, Types
  <2> QED
    BY <2>1, <2>2, <2>3, <1>0, <1>2, <1>9, Types
<1>12. \A q \in Procs, a \in Places :
         At(pte', tf', q, a) = IF q = p /\ a \in A THEN NULL ELSE At(pte, tf, q, a)
  BY <1>2, <1>4, <1>7, <1>9, PlaceKinds DEF At
<1>13. Placed(Layout(pte, tf), free, 0, Layout(pte', tf'))
  <2>1. \A q \in Procs, a \in Places : At(pte', tf', q, a) \in {At(pte, tf, q, a), NULL}
    BY <1>12
  <2>2. \A k \in 1..0 : FALSE
    OBVIOUS
  <2>3. pte \in Tables /\ tf \in Frames /\ pte' \in Tables /\ tf' \in Frames
    BY <1>0, <1>11, Types
  <2> QED
    BY <2>1, <2>2, <2>3, PlacedIf
<1>14. Returned(Layout(pte, tf), free, 0, Layout(pte', tf'), r)
  <2>1. \A a \in A : At(pte', tf', p, a) # At(pte, tf, p, a)
    BY <1>0, <1>4, <1>12, MappedFacts
  <2> QED
    BY <2>1, <1>0, <1>4, <1>6, <1>11, ReturnedIf
<1>15. Exclusive'
  BY <1>0, <1>6, <1>10, <1>11, <1>13, <1>14, MoveStep
<1>16. Good(p)'
  <2>1. heap_top'[p] = new
    BY <1>0, <1>2, Types
  <2>2. Range0(p)' = 0..(y - 1) /\ Range0(p) = 0..(x - 1)
    BY <2>1, <1>1 DEF Range0, PagesTo
  <2>3. \A a \in 0..(y - 1) : a \in VAs /\ a \notin A /\ a \in 0..(x - 1)
    BY <1>3
  <2>4. \A a \in 0..(y - 1) : a \in VAs /\ pte'[p][a] # NULL
    BY <2>2, <2>3, <1>0, <1>7, <1>9 DEF Good, Mapped
  <2>5. tf'[p] # NULL
    BY <1>0, <1>2 DEF Good
  <2> QED
    BY <2>2, <2>4, <2>5 DEF Good, Mapped
<1>17. \A q \in Procs : SameFor(q) \/ Good(q)'
  BY <1>0, <1>2, <1>9, <1>16, Types DEF SameFor
<1> QED
  BY <1>15, <1>17, IInvIf

LEMMA FreeStep ==
    ASSUME IInv, NEW p \in Procs, proc_free(p)
    PROVE  IInv'
<1>0. /\ Exclusive /\ TypeOK /\ Len(free) \in Nat /\ free \in Seq(Pages) /\ state[p] = "live" /\ tf[p] # NULL
      /\ Mapped(p) \in SUBSET VAs /\ Mapped(p) \in SUBSET Places /\ TRAPFRAME \in Places \ Mapped(p)
  BY IInvParts, Types, LenProperties, PlaceKinds DEF Exclusive, proc_free, Good, Mapped
<1>1. PICK g, r, A : g = tf[p] /\ r = ReclaimedTable(p) \o Reclaimed(g) /\ A = Mapped(p) \cup {TRAPFRAME}
  OBVIOUS
<1>2. /\ state' = [state EXCEPT ![p] = "unused"]
      /\ free' = r \o free
      /\ word' = FreeWord(PagesAt(p, Mapped(p)) \cup {g})
      /\ pte' = [pte EXCEPT ![p] = NoTable]
      /\ tf' = [tf EXCEPT ![p] = NULL]
      /\ heap_top' = [heap_top EXCEPT ![p] = 0]
  BY <1>1 DEF proc_free
<1>3. Gives(r, p, A) /\ r \in Seq(Pages) /\ A \in SUBSET Places
  <2>1. g = At(pte, tf, p, TRAPFRAME) /\ g # NULL
    BY <1>0, <1>1 DEF At
  <2>2. Gives(ReclaimedTable(p), p, Mapped(p))
    BY <1>0, ReclaimedTableIs
  <2>3. Gives(r, p, A)
    BY <2>1, <2>2, <1>0, <1>1, GivesMore
  <2> QED
    BY <2>3, <1>0, <1>1 DEF Gives
<1>4. pte' \in Tables /\ pte'[p] = NoTable /\ \A q \in Procs \ {p} : pte'[q] = pte[q]
  <2>1. NoTable \in [VAs -> Entries \cup {NULL}]
    BY DEF NoTable
  <2> QED
    BY <2>1, <1>0, <1>2, SetTable
<1>5. tf' \in Frames /\ tf'[p] = NULL /\ \A q \in Procs \ {p} : tf'[q] = tf[q]
  BY <1>0, <1>2, Types DEF Frames
<1>6. 0 \in 0..Len(free) /\ free' = r \o AfterTaking(0)
  <2>1. SubSeq(free, 0 + 1, Len(free)) = free
    BY <1>0, SubSeqFull
  <2> QED
    BY <2>1, <1>0, <1>2 DEF AfterTaking
<1>7. TypeOK'
  <2>1. free' \in Seq(Pages)
    BY <1>0, <1>2, <1>3, ConcatProperties
  <2>2. word' \in [Pages -> Vals]
    BY <1>0, <1>2, FreeWordType
  <2>3. heap_top' \in [Procs -> 0..(NV * PG)]
    <3>1. 0 \in 0..(NV * PG)
      BY PagesAssumption
    <3> QED
      BY <3>1, <1>0, <1>2, Types
  <2>4. state' \in [Procs -> {"unused", "live", "panic"}]
    BY <1>0, <1>2, Types
  <2> QED
    BY <2>1, <2>2, <2>3, <2>4, <1>4, <1>5, Types
<1>8. \A q \in Procs, a \in Places : At(pte', tf', q, a) = IF q = p THEN NULL ELSE At(pte, tf, q, a)
  BY <1>4, <1>5, PlaceKinds DEF At, NoTable
<1>9. Placed(Layout(pte, tf), free, 0, Layout(pte', tf'))
  <2>1. \A q \in Procs, a \in Places : At(pte', tf', q, a) \in {At(pte, tf, q, a), NULL}
    BY <1>8
  <2>2. \A k \in 1..0 : FALSE
    OBVIOUS
  <2>3. pte \in Tables /\ tf \in Frames
    BY <1>0, Types
  <2> QED
    BY <2>1, <2>2, <2>3, <1>4, <1>5, PlacedIf
<1>10. Returned(Layout(pte, tf), free, 0, Layout(pte', tf'), r)
  <2>1. \A a \in A : At(pte, tf, p, a) # NULL
    BY <1>0, <1>1, MappedFacts, AtOf, PlaceKinds
  <2>2. \A a \in A : At(pte', tf', p, a) # At(pte, tf, p, a)
    BY <2>1, <1>3, <1>8
  <2> QED
    BY <2>2, <1>0, <1>3, <1>7, ReturnedIf
<1>11. Exclusive'
  BY <1>0, <1>3, <1>6, <1>7, <1>9, <1>10, MoveStep
<1>12. \A q \in Procs : SameFor(q) \/ Good(q)'
  <2>1. \A q \in Procs \ {p} : state'[q] = state[q] /\ heap_top'[q] = heap_top[q]
    BY <1>0, <1>2, Types
  <2>2. state'[p] = "unused"
    BY <1>0, <1>2, Types
  <2> QED
    BY <2>1, <2>2, <1>4, <1>5 DEF SameFor, Good
<1> QED
  BY <1>11, <1>12, IInvIf

LEMMA ExecStep ==
    ASSUME IInv, NEW p \in Procs, NEW v \in Vals, proc_exec(p, v)
    PROVE  IInv'
<1>0. /\ Exclusive /\ TypeOK /\ Len(free) \in Nat /\ free \in Seq(Pages) /\ state[p] = "live"
      /\ Mapped(p) \in SUBSET VAs /\ Mapped(p) \in SUBSET Places
      /\ 2 \in 0..Len(free) /\ 1 \in 1..Len(free) /\ 2 \in 1..Len(free)
  BY IInvParts, Types, LenProperties, PlaceKinds DEF Exclusive, proc_exec, Mapped
<1>1. PICK g1, g2, r : g1 = free[1] /\ g2 = free[2] /\ r = ReclaimedTable(p)
  OBVIOUS
<1>2. /\ Taken(2)[1] = g1 /\ Taken(2)[2] = g2 /\ g1 \in Pages /\ g2 \in Pages
      /\ g1 # g2 /\ g1 # NULL /\ g2 # NULL
  <2>1. Taken(2)[1] = g1 /\ Taken(2)[2] = g2
    BY <1>0, <1>1 DEF Taken
  <2> QED
    BY <2>1, <1>0, <1>1, OwnedFacts
<1>3. PICK T : T = [NoTable EXCEPT ![0] = Entry(g2, FALSE, FALSE)]
  OBVIOUS
<1>4. /\ free' = r \o AfterTaking(2)
      /\ word' = [FreeWord(PagesAt(p, Mapped(p))) EXCEPT ![g1] = KERNEL_SP, ![g2] = v]
      /\ pte' = [pte EXCEPT ![p] = T]
      /\ tf' = [tf EXCEPT ![p] = g1]
      /\ heap_top' = [heap_top EXCEPT ![p] = PG]
      /\ UNCHANGED state
  BY <1>1, <1>2, <1>3 DEF proc_exec
<1>5. Gives(r, p, Mapped(p)) /\ r \in Seq(Pages)
  <2>1. Gives(r, p, Mapped(p))
    BY <1>0, <1>1, ReclaimedTableIs
  <2> QED
    BY <2>1 DEF Gives
<1>6. /\ T \in [VAs -> Entries \cup {NULL}]
      /\ T[0] # NULL /\ T[0].pa = g2
      /\ \A a \in VAs : a # 0 => T[a] = NULL
  <2>1. Entry(g2, FALSE, FALSE) \in Entries /\ Entry(g2, FALSE, FALSE) # NULL /\ Entry(g2, FALSE, FALSE).pa = g2
    BY <1>2, EntryIs
  <2>2. 0 \in VAs
    BY PlaceKinds
  <2>3. /\ T \in [VAs -> Entries \cup {NULL}]
        /\ T[0] = Entry(g2, FALSE, FALSE)
        /\ \A a \in VAs : a # 0 => T[a] = NULL
    BY <2>1, <2>2, <1>3 DEF NoTable
  <2> QED
    BY <2>1, <2>3
<1>7. pte' \in Tables /\ pte'[p] = T /\ \A q \in Procs \ {p} : pte'[q] = pte[q]
  BY <1>0, <1>4, <1>6, SetTable
<1>8. tf' \in Frames /\ tf'[p] = g1 /\ \A q \in Procs \ {p} : tf'[q] = tf[q]
  BY <1>0, <1>2, <1>4, Types DEF Frames
<1>9. TypeOK'
  <2>1. AfterTaking(2) \in Seq(Pages)
    BY <1>0, AfterTakingType
  <2>2. free' \in Seq(Pages)
    BY <2>1, <1>4, <1>5, ConcatProperties
  <2>3. word' \in [Pages -> Vals]
    BY <1>0, <1>4, FreeWordType, WordsIn
  <2>4. heap_top' \in [Procs -> 0..(NV * PG)]
    <3>1. PG \in 0..(NV * PG)
      <4>1. PG \in Nat \ {0} /\ NV \in Nat /\ 0 < NV
        BY PagesAssumption
      <4>2. PG * 0 + PG <= PG * NV
        BY <4>1, Multiples
      <4>3. PG * 0 = 0 /\ PG * NV = NV * PG /\ NV * PG \in Int
        BY <4>1
      <4> QED
        BY <4>1, <4>2, <4>3
    <3> QED
      BY <3>1, <1>0, <1>4, Types
  <2> QED
    BY <2>2, <2>3, <2>4, <1>0, <1>4, <1>7, <1>8, Types
<1>10. /\ \A q \in Procs \ {p}, a \in Places : At(pte', tf', q, a) = At(pte, tf, q, a)
       /\ At(pte', tf', p, TRAPFRAME) = g1 /\ At(pte', tf', p, 0) = g2
       /\ \A a \in VAs : a # 0 => At(pte', tf', p, a) = NULL
  <2>1. \A q \in Procs \ {p}, a \in Places : At(pte', tf', q, a) = At(pte, tf, q, a)
    BY <1>7, <1>8, OthersAt
  <2>2. At(pte', tf', p, TRAPFRAME) = g1
    BY <1>8 DEF At
  <2>3. At(pte', tf', p, 0) = g2
    BY <1>6, <1>7, AtOf, PlaceKinds
  <2>4. \A a \in VAs : a # 0 => At(pte', tf', p, a) = NULL
    BY <1>6, <1>7, AtOf
  <2> QED
    BY <2>1, <2>2, <2>3, <2>4
<1>11. Placed(Layout(pte, tf), free, 2, Layout(pte', tf'))
  <2>0. 1 \in 1..2 /\ 2 \in 1..2 /\ \A k \in 1..2 : k \in 1..Len(free) /\ (k = 1 \/ k = 2)
    BY <1>0
  <2>1. \A q \in Procs, a \in Places :
          At(pte', tf', q, a) \in {At(pte, tf, q, a), NULL} \/ \E k \in 1..2 : At(pte', tf', q, a) = free[k]
    BY <2>0, <1>1, <1>10, PlaceKinds
  <2>2. \A q \in Procs, a \in Places, k \in 1..2 :
          At(pte', tf', q, a) = free[k] => q = p /\ a = IF k = 1 THEN TRAPFRAME ELSE 0
    <3> SUFFICES ASSUME NEW q \in Procs, NEW a \in Places, NEW k \in 1..2, At(pte', tf', q, a) = free[k]
                 PROVE  q = p /\ a = IF k = 1 THEN TRAPFRAME ELSE 0
      OBVIOUS
    <3>1. q = p
      BY <2>0, <1>0, <1>10, OwnedFacts
    <3>2. free[k] = (IF k = 1 THEN g1 ELSE g2)
      BY <2>0, <1>1
    <3>3. a = TRAPFRAME \/ a = 0
      BY <3>1, <3>2, <1>2, <1>10, PlaceKinds
    <3> QED
      BY <3>1, <3>2, <3>3, <1>2, <1>10
  <2>3. \A q, s \in Procs, a, b \in Places, k \in 1..2 :
          At(pte', tf', q, a) = free[k] /\ At(pte', tf', s, b) = free[k] => q = s /\ a = b
    BY <2>2
  <2>4. pte \in Tables /\ tf \in Frames
    BY <1>0, Types
  <2> QED
    BY <2>1, <2>3, <2>4, <1>7, <1>8, PlacedIf
<1>12. Returned(Layout(pte, tf), free, 2, Layout(pte', tf'), r)
  <2>1. \A a \in Mapped(p) : At(pte', tf', p, a) # At(pte, tf, p, a)
    <3> SUFFICES ASSUME NEW a \in Mapped(p) PROVE At(pte', tf', p, a) # At(pte, tf, p, a)
      OBVIOUS
    <3>1. a \in VAs /\ a \in Places /\ At(pte, tf, p, a) # NULL /\ At(pte, tf, p, a) # free[2]
      BY <1>0, MappedFacts, OwnedFacts
    <3> QED
      BY <3>1, <1>1, <1>10
  <2> QED
    BY <2>1, <1>0, <1>5, <1>9, ReturnedIf
<1>13. Exclusive'
  BY <1>0, <1>4, <1>5, <1>9, <1>11, <1>12, MoveStep
<1>14. Good(p)'
  <2>1. heap_top'[p] = PG
    BY <1>0, <1>4, Types
  <2>2. PagesTo(PG) = 1
    BY PagesToSmall, PagesAssumption
  <2>3. Range0(p)' = 0..0
    BY <2>1, <2>2 DEF Range0, PagesTo
  <2>4. \A a \in 0..0 : a = 0
    OBVIOUS
  <2>5. \A a \in 0..0 : a \in VAs /\ pte'[p][a] # NULL
    BY <2>4, <1>6, <1>7, PlaceKinds
  <2> QED
    BY <2>3, <2>5, <1>2, <1>8 DEF Good, Mapped
<1>15. \A q \in Procs : SameFor(q) \/ Good(q)'
  <2>1. \A q \in Procs \ {p} : state'[q] = state[q] /\ heap_top'[q] = heap_top[q]
    BY <1>0, <1>4, Types
  <2> QED
    BY <2>1, <1>7, <1>8, <1>14 DEF SameFor
<1> QED
  BY <1>13, <1>15, IInvIf

LEMMA CowEntryIs ==
    ASSUME NEW e \in Entries, NEW g \in Pages
    PROVE  /\ CowEntry(e) \in Entries /\ CowEntry(e).pa = e.pa /\ CowEntry(e) # NULL
           /\ ChildEntry(e, g) \in Entries /\ ChildEntry(e, g).pa = g /\ ChildEntry(e, g) # NULL
<1>1. CowEntry(e) \in Entries /\ CowEntry(e).pa = e.pa
  BY DEF CowEntry, Entry, Entries
<1>2. \A d \in Entries : [d EXCEPT !.pa = g] \in Entries /\ [d EXCEPT !.pa = g].pa = g
  BY DEF Entries
<1> QED
  BY <1>1, <1>2, PlaceKinds DEF ChildEntry

\* What fork does, with the child's pages by address.
Forks(p, c, n) ==
    /\ state[p] = "live" /\ state[c] = "unused" /\ p # c
    /\ n = PagesTo(heap_top[p]) /\ n \in 0..NV /\ n + 1 \in 0..Len(free)
    /\ Range0(p) = 0..(n - 1)
    /\ \A a \in 0..(n - 1) : a \in VAs /\ a \in Mapped(p) /\ a + 2 \in 1..(n + 1)
    /\ free' = AfterTaking(n + 1)
    /\ tf' \in Frames /\ tf'[c] = free[1] /\ \A q \in Procs \ {c} : tf'[q] = tf[q]
    /\ pte' \in Tables
    /\ \A q \in Procs \ {p, c} : pte'[q] = pte[q]
    /\ \A q \in Procs \ {c}, x \in Places : At(pte', tf', q, x) = At(pte, tf, q, x)
    /\ At(pte', tf', c, TRAPFRAME) = free[1]
    /\ \A a \in VAs : At(pte', tf', c, a) = IF a \in 0..(n - 1) THEN free[a + 2] ELSE NULL
    /\ state' = [state EXCEPT ![c] = "live"]
    /\ heap_top' = [heap_top EXCEPT ![c] = heap_top[p]]

LEMMA ForkIs ==
    ASSUME IInv, NEW p \in Procs, NEW c \in Procs, Fork(p, c)
    PROVE  Forks(p, c, PagesTo(heap_top[p]))
<1>0. /\ Exclusive /\ TypeOK /\ Len(free) \in Nat /\ free \in Seq(Pages)
      /\ state[p] = "live" /\ state[c] = "unused" /\ p # c /\ Range0(p) \subseteq Mapped(p)
  BY IInvParts, Types, LenProperties DEF Exclusive, Fork
<1>1. PICK n : n = PagesTo(heap_top[p])
  OBVIOUS
<1>2. n \in 0..NV /\ NV \in Nat /\ VAs = 0..(NV - 1) /\ n \in Nat
  <2>1. heap_top[p] \in 0..(NV * PG)
    BY <1>0, Types
  <2> QED
    BY <2>1, <1>1, PagesToSmall, PagesAssumption DEF VAs
<1>3. Range0(p) = 0..(n - 1)
  BY <1>1 DEF Range0
<1>4. n + 1 \in 0..Len(free) /\ \A k \in 1..(n + 1) : k \in 1..Len(free)
  BY <1>0, <1>1, <1>2 DEF Fork
<1>5. \A a \in 0..(n - 1) : a \in VAs /\ a \in Mapped(p) /\ a + 2 \in 1..(n + 1)
  BY <1>0, <1>2, <1>3
<1>6. \A a \in VAs : a < n <=> a \in 0..(n - 1)
  BY <1>2
<1>7. PICK Tp, Tc :
        /\ Tp = [a \in VAs |-> IF a < n THEN CowEntry(pte[p][a]) ELSE pte[p][a]]
        /\ Tc = [a \in VAs |-> IF a < n THEN ChildEntry(pte[p][a], free[a + 2]) ELSE NULL]
  OBVIOUS
<1>8. /\ free' = AfterTaking(n + 1)
      /\ tf' = [tf EXCEPT ![c] = free[1]]
      /\ pte' = [pte EXCEPT ![p] = Tp, ![c] = Tc]
      /\ state' = [state EXCEPT ![c] = "live"]
      /\ heap_top' = [heap_top EXCEPT ![c] = heap_top[p]]
  BY <1>1, <1>7 DEF Fork
<1>9. \A k \in 1..(n + 1) : free[k] \in Pages
  BY <1>0, <1>4, OwnedFacts
<1>10. \A a \in 0..(n - 1) : pte[p][a] \in Entries /\ free[a + 2] \in Pages
  BY <1>0, <1>5, <1>9, MappedFacts
<1>11. \A a \in 0..(n - 1) :
         /\ Tp[a] \in Entries /\ Tp[a].pa = pte[p][a].pa /\ Tp[a] # NULL
         /\ Tc[a] \in Entries /\ Tc[a].pa = free[a + 2] /\ Tc[a] # NULL
  BY <1>5, <1>6, <1>7, <1>10, CowEntryIs
<1>12. \A a \in VAs : a \notin 0..(n - 1) => Tp[a] = pte[p][a] /\ Tc[a] = NULL
  BY <1>6, <1>7
<1>13. pte \in Tables /\ tf \in Frames
  BY <1>0, Types
<1>14. Tp \in [VAs -> Entries \cup {NULL}] /\ Tc \in [VAs -> Entries \cup {NULL}]
  <2>1. \A a \in VAs : Tp[a] \in Entries \cup {NULL} /\ Tc[a] \in Entries \cup {NULL}
    BY <1>11, <1>12, <1>13 DEF Tables
  <2>2. Tp = [a \in VAs |-> Tp[a]] /\ Tc = [a \in VAs |-> Tc[a]]
    BY <1>7
  <2> QED
    BY <2>1, <2>2
<1>15. /\ pte' \in Tables /\ pte'[p] = Tp /\ pte'[c] = Tc
       /\ \A q \in Procs \ {p, c} : pte'[q] = pte[q]
  BY <1>0, <1>8, <1>13, <1>14 DEF Tables
<1>16. tf' \in Frames /\ tf'[c] = free[1] /\ \A q \in Procs \ {c} : tf'[q] = tf[q]
  <2>1. free[1] \in Pages
    BY <1>2, <1>9
  <2> QED
    BY <2>1, <1>8, <1>13 DEF Frames
<1>17. \A q \in Procs \ {c}, x \in Places : At(pte', tf', q, x) = At(pte, tf, q, x)
  <2> SUFFICES ASSUME NEW q \in Procs \ {c}, NEW x \in Places PROVE At(pte', tf', q, x) = At(pte, tf, q, x)
    OBVIOUS
  <2>1. CASE q # p \/ x = TRAPFRAME
    BY <2>1, <1>15, <1>16 DEF At
  <2>2. CASE q = p /\ x \in VAs
    <3>1. CASE x \in 0..(n - 1)
      <4>1. pte[p][x] # NULL
        BY <3>1, <1>10, PlaceKinds
      <4>2. At(pte', tf', p, x) = pte[p][x].pa
        BY <2>2, <3>1, <1>11, <1>15, AtOf
      <4> QED
        BY <4>1, <4>2, <2>2, AtOf
    <3>2. CASE x \notin 0..(n - 1)
      <4>1. pte'[p][x] = pte[p][x] /\ tf'[p] = tf[p]
        BY <2>2, <3>2, <1>0, <1>12, <1>15, <1>16
      <4> QED
        BY <4>1, <2>2 DEF At
    <3> QED
      BY <3>1, <3>2
  <2> QED
    BY <2>1, <2>2, PlaceKinds
<1>18. At(pte', tf', c, TRAPFRAME) = free[1]
  BY <1>16 DEF At
<1>19. \A a \in VAs : At(pte', tf', c, a) = IF a \in 0..(n - 1) THEN free[a + 2] ELSE NULL
  <2> SUFFICES ASSUME NEW a \in VAs PROVE At(pte', tf', c, a) = IF a \in 0..(n - 1) THEN free[a + 2] ELSE NULL
    OBVIOUS
  <2> QED
    BY <1>11, <1>12, <1>15, AtOf
<1>20. Forks(p, c, n)
  BY <1>0, <1>1, <1>2, <1>3, <1>4, <1>5, <1>8, <1>15, <1>16, <1>17, <1>18, <1>19 DEF Forks
<1> QED
  BY <1>1, <1>20

\* The pages the child gets, by their position in the list.
LEMMA ForkPlaces ==
    ASSUME IInv, NEW p \in Procs, NEW c \in Procs, NEW n, Forks(p, c, n),
           NEW q \in Procs, NEW x \in Places, NEW k \in 1..(n + 1), At(pte', tf', q, x) = free[k]
    PROVE  q = c /\ x = IF k = 1 THEN TRAPFRAME ELSE k - 2
<1>0. Exclusive /\ Len(free) \in Nat /\ n \in Nat /\ NV \in Nat
  BY Types, LenProperties, PagesAssumption, SMTT(60) DEF IInv, Exclusive, Forks
<1>1. k \in 1..Len(free) /\ n + 1 \in 0..Len(free) /\ 1 \in 1..Len(free)
  BY <1>0 DEF Forks
<1>2. q = c
  BY <1>0, <1>1, OwnedFacts DEF Forks
<1>3. CASE x = TRAPFRAME
  <2>1. free[1] = free[k]
    BY <1>2, <1>3 DEF Forks
  <2>2. k = 1
    BY <2>1, <1>0, <1>1, OwnedFacts
  <2> QED
    BY <2>2, <1>2, <1>3
<1>4. CASE x \in VAs
  <2>1. x \in 0..(n - 1)
    <3>1. free[k] # NULL
      BY <1>0, <1>1, OwnedFacts
    <3> QED
      BY <3>1, <1>2, <1>4 DEF Forks
  <2>2. free[x + 2] = free[k] /\ x + 2 \in 1..(n + 1)
    BY <2>1, <1>2, <1>4 DEF Forks
  <2>3. x + 2 \in 1..Len(free)
    BY <2>2, <1>0, <1>1
  <2>4. x + 2 = k
    BY <2>2, <2>3, <1>0, <1>1, OwnedFacts
  <2>5. x = k - 2 /\ k # 1
    BY <2>1, <2>4, <1>0
  <2> QED
    BY <2>5, <1>2
<1> QED
  BY <1>3, <1>4, PlaceKinds

LEMMA ForkStep ==
    ASSUME IInv, NEW p \in Procs, NEW c \in Procs, Fork(p, c)
    PROVE  IInv'
<1>0. /\ Exclusive /\ TypeOK /\ Len(free) \in Nat /\ free \in Seq(Pages) /\ Good(p)
  BY IInvParts, Types, LenProperties DEF Exclusive
<1>1. PICK n : n = PagesTo(heap_top[p]) /\ Forks(p, c, n)
  BY ForkIs
<1>2. n \in Nat /\ NV \in Nat /\ n + 1 \in 0..Len(free)
  BY <1>1, PagesAssumption DEF Forks
<1>3. \A k \in 1..(n + 1) : k \in 1..Len(free) /\ free[k] \in Pages
  BY <1>0, <1>2, OwnedFacts
<1>4. TypeOK'
  <2>1. free' \in Seq(Pages)
    BY <1>0, <1>1, <1>2, AfterTakingType DEF Forks
  <2>2. word' \in [Pages -> Vals]
    <3>1. word \in [Pages -> Vals]
      BY <1>0, Types
    <3>2. \A a \in Range0(p) : Contents(p, a) \in Vals
      BY <3>1, <1>0, <1>1, MappedFacts DEF Forks, Contents
    <3>3. ASSUME NEW g \in Pages, \E a \in Range0(p) : g = free[a + 2]
          PROVE  Contents(p, CHOOSE a \in Range0(p) : g = free[a + 2]) \in Vals
      BY <3>2, <3>3
    <3>4. word' = [g \in Pages |->
             IF g = free[1] THEN KERNEL_SP
             ELSE IF \E a \in Range0(p) : g = free[a + 2]
             THEN Contents(p, CHOOSE a \in Range0(p) : g = free[a + 2])
             ELSE word[g]]
      BY DEF Fork
    <3> QED
      BY <3>1, <3>3, <3>4, WordsIn
  <2>3. heap_top' \in [Procs -> 0..(NV * PG)] /\ state' \in [Procs -> {"unused", "live", "panic"}]
    BY <1>0, <1>1, Types DEF Forks
  <2> QED
    BY <2>1, <2>2, <2>3, <1>1, Types DEF Forks
<1>5. Placed(Layout(pte, tf), free, n + 1, Layout(pte', tf'))
  <2>1. 1 \in 1..(n + 1) /\ \A a \in 0..(n - 1) : a + 2 \in 1..(n + 1)
    BY <1>1, <1>2 DEF Forks
  <2>2. \A q \in Procs, x \in Places :
          At(pte', tf', q, x) \in {At(pte, tf, q, x), NULL} \/ \E k \in 1..(n + 1) : At(pte', tf', q, x) = free[k]
    BY <2>1, <1>1, PlaceKinds DEF Forks
  <2>3. \A q, s \in Procs, x, y \in Places, k \in 1..(n + 1) :
          At(pte', tf', q, x) = free[k] /\ At(pte', tf', s, y) = free[k] => q = s /\ x = y
    BY <1>1, ForkPlaces
  <2>4. pte \in Tables /\ tf \in Frames /\ pte' \in Tables /\ tf' \in Frames
    BY <1>0, <1>4, Types
  <2> QED
    BY <2>2, <2>3, <2>4, PlacedIf
<1>6. Exclusive'
  BY <1>0, <1>1, <1>2, <1>4, <1>5, TakeStep DEF Forks
<1>7. heap_top'[c] = heap_top[p] /\ heap_top'[p] = heap_top[p] /\ state'[p] = state[p]
  BY <1>0, <1>1, Types DEF Forks
<1>8. \A a \in VAs : pte'[p][a] # NULL <=> pte[p][a] # NULL
  <2>1. \A a \in VAs : At(pte', tf', p, a) = At(pte, tf, p, a)
    BY <1>1, PlaceKinds DEF Forks
  <2>2. pte[p] \in [VAs -> Entries \cup {NULL}] /\ pte'[p] \in [VAs -> Entries \cup {NULL}]
    BY <1>0, <1>4, Types DEF Tables
  <2>3. \A e \in Entries : e.pa # NULL
    BY PlaceKinds DEF Entries
  <2> QED
    BY <2>1, <2>2, <2>3, AtOf
<1>9. Good(p)'
  BY <1>0, <1>1, <1>7, <1>8 DEF Good, Range0, Mapped, Forks
<1>10. Good(c)'
  <2>1. Range0(c)' = 0..(n - 1)
    BY <1>1, <1>7 DEF Range0, PagesTo
  <2>2. \A a \in 0..(n - 1) : a \in VAs /\ At(pte', tf', c, a) # NULL
    <3>1. \A a \in 0..(n - 1) : a \in VAs /\ a + 2 \in 1..(n + 1) /\ At(pte', tf', c, a) = free[a + 2]
      BY <1>1 DEF Forks
    <3> QED
      BY <3>1, <1>3, PlaceKinds
  <2>3. \A a \in 0..(n - 1) : a \in VAs /\ pte'[c][a] # NULL
    BY <2>2, AtOf
  <2>4. tf'[c] # NULL
    <3>1. 1 \in 1..(n + 1)
      BY <1>2
    <3> QED
      BY <3>1, <1>1, <1>3, PlaceKinds DEF Forks
  <2> QED
    BY <2>1, <2>3, <2>4 DEF Good, Mapped
<1>11. \A q \in Procs \ {p, c} : SameFor(q)
  BY <1>0, <1>1, Types DEF SameFor, Forks
<1> QED
  BY <1>6, <1>9, <1>10, <1>11, IInvIf

\* proc_make_first: the first process has the last two pages.
LEMMA InitInv == Init => IInv
<1> SUFFICES ASSUME Init PROVE IInv
  OBVIOUS
<1>1. PICK p \in Procs, v \in Vals :
        /\ state = [q \in Procs |-> IF q = p THEN "live" ELSE "unused"]
        /\ free = [k \in 1..(NPAGES - 2) |-> (NPAGES - 1) - k]
        /\ tf = [q \in Procs |-> IF q = p THEN NPAGES ELSE NULL]
        /\ pte = [q \in Procs |-> IF q = p THEN [NoTable EXCEPT ![0] = Entry(NPAGES - 1, TRUE, FALSE)] ELSE NoTable]
        /\ word = [g \in Pages |-> IF g = NPAGES THEN KERNEL_SP ELSE IF g = NPAGES - 1 THEN v ELSE GARBAGE]
        /\ heap_top = [q \in Procs |-> IF q = p THEN PG ELSE 0]
  BY DEF Init
<1>2. NPAGES \in Nat /\ NPAGES >= 2 /\ NPAGES \in Pages /\ NPAGES - 1 \in Pages /\ NPAGES # NPAGES - 1
  BY PagesAssumption DEF Pages
<1>3. PICK e : e = Entry(NPAGES - 1, TRUE, FALSE)
  OBVIOUS
<1>4. e \in Entries /\ e # NULL /\ e.pa = NPAGES - 1
  BY <1>2, <1>3, EntryIs
<1>5. /\ pte \in Tables
      /\ \A q \in Procs, a \in VAs : pte[q][a] = IF q = p /\ a = 0 THEN e ELSE NULL
  BY <1>1, <1>3, <1>4, PlaceKinds DEF Tables, NoTable
<1>6. tf \in Frames /\ \A q \in Procs : tf[q] = IF q = p THEN NPAGES ELSE NULL
  BY <1>1, <1>2 DEF Frames
<1>7. /\ free \in Seq(Pages)
      /\ DOMAIN free = 1..(NPAGES - 2)
      /\ \A k \in 1..(NPAGES - 2) : free[k] = (NPAGES - 1) - k
  <2>1. \A k \in 1..(NPAGES - 2) : (NPAGES - 1) - k \in Pages
    BY <1>2 DEF Pages
  <2>2. NPAGES - 2 \in Nat
    BY <1>2
  <2> QED
    BY <2>1, <2>2, <1>1
<1>8. TypeOK
  <2>1. word \in [Pages -> Vals]
    BY <1>1, WordsIn
  <2>2. PG \in 0..(NV * PG) /\ 0 \in 0..(NV * PG)
    <3>1. PG \in Nat \ {0} /\ NV \in Nat /\ 0 < NV
      BY PagesAssumption
    <3>2. PG * 0 + PG <= PG * NV
      BY <3>1, Multiples
    <3>3. PG * 0 = 0 /\ PG * NV = NV * PG /\ NV * PG \in Int
      BY <3>1
    <3> QED
      BY <3>1, <3>2, <3>3
  <2>3. heap_top \in [Procs -> 0..(NV * PG)]
    BY <2>2, <1>1
  <2>4. state \in [Procs -> {"unused", "live", "panic"}]
    BY <1>1
  <2> QED
    BY <2>1, <2>3, <2>4, <1>5, <1>6, <1>7, Types
<1>9. \A q \in Procs, x \in Places :
        At(pte, tf, q, x) = IF q = p /\ x = TRAPFRAME THEN NPAGES
                            ELSE IF q = p /\ x = 0 THEN NPAGES - 1 ELSE NULL
  <2> SUFFICES ASSUME NEW q \in Procs, NEW x \in Places
               PROVE  At(pte, tf, q, x) = IF q = p /\ x = TRAPFRAME THEN NPAGES
                                          ELSE IF q = p /\ x = 0 THEN NPAGES - 1 ELSE NULL
    OBVIOUS
  <2>1. CASE x = TRAPFRAME
    <3>1. At(pte, tf, q, x) = tf[q] /\ x # 0
      BY <2>1, PlaceKinds DEF At
    <3> QED
      BY <2>1, <3>1, <1>6
  <2>2. CASE x \in VAs
    <3>1. x # TRAPFRAME
      BY <2>2, PlaceKinds
    <3>2. CASE q = p /\ x = 0
      <4>1. pte[q][x] = e
        BY <2>2, <3>2, <1>5
      <4> QED
        BY <4>1, <2>2, <3>1, <3>2, <1>4, AtOf
    <3>3. CASE ~ (q = p /\ x = 0)
      <4>1. pte[q][x] = NULL
        BY <2>2, <3>3, <1>5
      <4> QED
        BY <4>1, <2>2, <3>1, <3>3, AtOf
    <3> QED
      BY <3>2, <3>3
  <2> QED
    BY <2>1, <2>2, PlaceKinds
<1>10. Owned(pte, tf, free)
  <2>1. IsInjective(free)
    BY <1>2, <1>7 DEF IsInjective
  <2>2. \A g \in Range(free) : g # NPAGES /\ g # NPAGES - 1 /\ g # NULL
    <3>1. \A k \in 1..(NPAGES - 2) : free[k] # NPAGES /\ free[k] # NPAGES - 1 /\ free[k] \in Pages
      BY <1>2, <1>7 DEF Pages
    <3> QED
      BY <3>1, <1>7, PlaceKinds DEF Range
  <2>3. \A q \in Procs, x \in Places : At(pte, tf, q, x) \notin Range(free)
    BY <2>2, <1>9
  <2>4. \A q, r \in Procs, x, y \in Places :
          At(pte, tf, q, x) # NULL /\ At(pte, tf, q, x) = At(pte, tf, r, y) => q = r /\ x = y
    BY <1>2, <1>9
  <2> QED
    BY <2>1, <2>3, <2>4 DEF Owned
<1>11. \A q \in Procs : Good(q)
  <2>1. \A q \in Procs : q # p => state[q] # "live"
    BY <1>1
  <2>2. Good(p)
    <3>1. heap_top[p] = PG
      BY <1>1
    <3>2. PagesTo(PG) = 1
      BY PagesToSmall, PagesAssumption
    <3>3. Range0(p) = 0..0
      BY <3>1, <3>2 DEF Range0
    <3>4. \A a \in 0..0 : a = 0
      OBVIOUS
    <3>5. \A a \in 0..0 : a \in VAs /\ pte[p][a] # NULL
      BY <3>4, <1>4, <1>5, PlaceKinds
    <3>6. tf[p] # NULL
      BY <1>2, <1>6, PlaceKinds
    <3> QED
      BY <3>3, <3>5, <3>6 DEF Good, Mapped
  <2> QED
    BY <2>1, <2>2 DEF Good
<1> QED
  BY <1>8, <1>10, <1>11, ExclusiveOwned, IInvParts

LEMMA NextInv == IInv /\ [Next]_vars => IInv'
<1> SUFFICES ASSUME IInv, [Next]_vars PROVE IInv'
  OBVIOUS
<1>1. CASE UNCHANGED vars
  BY <1>1 DEF vars, IInv, Exclusive, TypeOK, HeapMapped, PageAt, Range0, Mapped
<1>2. ASSUME NEW p \in Procs, NEW c \in Procs, Fork(p, c) \/ Fork_panic(p, c) PROVE IInv'
  BY <1>2, ForkStep, ForkPanicStep
<1>3. ASSUME NEW p \in Procs, proc_free(p) PROVE IInv'
  BY <1>3, FreeStep
<1>4. ASSUME NEW p \in Procs, NEW v \in Vals, proc_exec(p, v) \/ proc_exec_bad(p, v) PROVE IInv'
  BY <1>4, ExecStep, ExecBadStep
<1>5. ASSUME NEW p \in Procs, proc_exec_noent(p) \/ proc_exec_panic(p) PROVE IInv'
  BY <1>5, NoentStep, OutOfPagesStep DEF proc_exec_panic
<1>6. ASSUME NEW p \in Procs, NEW new \in 0..(NV * PG),
             brk_grow(p, new) \/ brk_panic(p, new) \/ brk_shrink(p, new) PROVE IInv'
  BY <1>6, GrowStep, BrkPanicStep, ShrinkStep
<1>7. ASSUME NEW p \in Procs, NEW a \in VAs, NEW v \in Vals, Store(p, a, v) \/ uvm_copyout(p, a, v) PROVE IInv'
  BY <1>7, PutWordStep, CopyoutStep DEF Store
<1>8. ASSUME NEW p \in Procs, NEW a \in VAs,
             handle_cow_own(p, a) \/ handle_cow_copy(p, a) \/ handle_cow_panic(p, a) PROVE IInv'
  BY <1>8, CowOwnStep, CowCopyStep, OutOfPagesStep DEF handle_cow_panic
<1>9. ASSUME NEW p \in Procs, NEW a \in VAs, handle_page_fault(p, a) \/ page_fault_panic(p, a) PROVE IInv'
  BY <1>9, FaultStep, FaultPanicStep
<1> QED
  BY <1>1, <1>2, <1>3, <1>4, <1>5, <1>6, <1>7, <1>8, <1>9 DEF Next

\* The invariant of pmem.c, uvm.c and the page faults: no page has two owners,
\* and a running process has its heap and a trapframe.
THEOREM Invariant == Spec => []IInv
BY InitInv, NextInv, PTL DEF Spec

\* The count inside a page is user data, and still pmem_free puts no page into
\* the list that a table or a trapframe uses, and pmem_alloc gives none away
\* twice.
THEOREM ExclusiveTheorem == Spec => []Exclusive
<1>1. IInv => Exclusive
  BY DEF IInv
<1> QED
  BY <1>1, Invariant, PTL

\* Between 0 and heap_top a running process has no hole, as copy_range and
\* vm_unmappages assert.
THEOREM HeapTheorem == Spec => []HeapMapped
<1>1. IInv => HeapMapped
  BY DEF IInv
<1> QED
  BY <1>1, Invariant, PTL

-----------------------------------------------------------------------------
(***************************************************************************)
(* What a process finds in its memory.                                     *)
(***************************************************************************)
\* The words that a step may change: of the first n pages of the list, and of
\* the pages at places X of process p.
Touches(p, X, n) ==
    \A g \in Pages : word'[g] # word[g] => \/ \E k \in 1..n : g = free[k]
                                           \/ \E x \in X : g = At(pte, tf, p, x)

\* An address with the same contents before and after the step.
KeptAt(q, a) == pte[q][a] # NULL /\ pte'[q][a] # NULL /\ word'[pte'[q][a].pa] = word[pte[q][a].pa]
NoneAt(q, a) == pte[q][a] = NULL /\ pte'[q][a] = NULL
Kept(q) == \A a \in VAs : KeptAt(q, a) \/ NoneAt(q, a)

LEMMA EntryAt ==
    ASSUME NEW e \in Tables, NEW t, NEW p \in Procs, NEW a \in VAs
    PROVE  /\ e[p][a] # NULL <=> At(e, t, p, a) # NULL
           /\ e[p][a] # NULL => e[p][a].pa = At(e, t, p, a) /\ e[p][a].pa \in Pages
<1>1. e[p][a] \in Entries \cup {NULL}
  BY DEF Tables
<1>2. \A d \in Entries : d.pa \in Pages /\ d.pa # NULL
  BY PlaceKinds DEF Entries
<1> QED
  BY <1>1, <1>2, AtOf

\* A page that stays at its place keeps its contents: the step touches pages
\* that nobody has, or that are elsewhere.
LEMMA Untouched ==
    ASSUME IInv, TypeOK', NEW p \in Procs, NEW X \in SUBSET Places, NEW n \in 0..Len(free), Touches(p, X, n),
           NEW q \in Procs, NEW a \in VAs, ~ (q = p /\ a \in X),
           At(pte', tf', q, a) = At(pte, tf, q, a)
    PROVE  KeptAt(q, a) \/ NoneAt(q, a)
<1>0. Exclusive /\ pte \in Tables /\ pte' \in Tables /\ a \in Places /\ Len(free) \in Nat
  BY Types, PlaceKinds, LenProperties DEF IInv, Exclusive
<1>1. CASE pte[q][a] = NULL
  <2>1. pte'[q][a] = NULL
    BY <1>0, <1>1, EntryAt
  <2> QED
    BY <2>1, <1>1 DEF NoneAt
<1>2. CASE pte[q][a] # NULL
  <2>1. PICK g : g = At(pte, tf, q, a)
    OBVIOUS
  <2>2. pte[q][a].pa = g /\ g \in Pages /\ g # NULL
    BY <2>1, <1>0, <1>2, EntryAt
  <2>3. pte'[q][a] # NULL /\ pte'[q][a].pa = g
    BY <2>1, <2>2, <1>0, EntryAt
  <2>4. \A k \in 1..n : g # free[k]
    <3>1. \A k \in 1..n : k \in 1..Len(free)
      BY <1>0
    <3> QED
      BY <3>1, <2>1, <1>0, OwnedFacts
  <2>5. \A x \in X : g # At(pte, tf, p, x)
    BY <2>1, <2>2, <1>0, OwnedFacts
  <2>6. word'[g] = word[g]
    BY <2>2, <2>4, <2>5 DEF Touches
  <2> QED
    BY <2>2, <2>3, <2>6, <1>2 DEF KeptAt
<1> QED
  BY <1>1, <1>2

\* Every other process keeps its memory.
Others(p) ==
    \A q \in Procs \ {p} : (state'[q] = "live" <=> state[q] = "live") /\ Kept(q)

LEMMA OthersIf ==
    ASSUME IInv, TypeOK', NEW p \in Procs, NEW X \in SUBSET Places, NEW n \in 0..Len(free), Touches(p, X, n),
           \A q \in Procs \ {p} : /\ state'[q] = "live" <=> state[q] = "live"
                                  /\ \A a \in VAs : At(pte', tf', q, a) = At(pte, tf, q, a)
    PROVE  Others(p)
BY Untouched DEF Others, Kept

\* The memory of one process, as the refinement sees it.
MemOf(q) == IF state[q] = "live" THEN [a \in Mapped(q) |-> Contents(q, a)] ELSE [a \in {} |-> Zero]

LEMMA ViewIs ==
    /\ memView = [q \in Procs |-> MemOf(q)]
    /\ memView' = [q \in Procs |-> MemOf(q)']
<1>1. memView = [q \in Procs |-> MemOf(q)]
  BY DEF memView, MemOf
<1>2. memView' = [q \in Procs |-> MemOf(q)']
  BY DEF memView, MemOf, Mapped, Contents
<1> QED
  BY <1>1, <1>2

LEMMA KeptMem ==
    ASSUME NEW q \in Procs, state'[q] = "live" <=> state[q] = "live", Kept(q)
    PROVE  MemOf(q)' = MemOf(q)
<1>1. Mapped(q)' = Mapped(q)
  BY DEF Mapped, Kept, KeptAt, NoneAt
<1>2. \A a \in Mapped(q) : Contents(q, a)' = Contents(q, a)
  BY DEF Mapped, Kept, KeptAt, NoneAt, Contents
<1>3. [a \in Mapped(q) |-> Contents(q, a)]' = [a \in Mapped(q) |-> Contents(q, a)]
  BY <1>1, <1>2
<1> QED
  BY <1>3 DEF MemOf

\* A step of one process, in the terms of PrivateMemory.
LEMMA BecomeIs ==
    ASSUME NEW p \in Procs, Others(p), NEW m, MemOf(p)' = m
    PROVE  Private!Become(p, m) /\ memView[p] = MemOf(p)
<1>1. \A q \in Procs \ {p} : MemOf(q)' = MemOf(q)
  BY KeptMem DEF Others
<1>2. memView' = [memView EXCEPT ![p] = m]
  BY <1>1, ViewIs
<1> QED
  BY <1>2, ViewIs DEF Private!Become

Alive == {p \in Procs : state[p] = "live"}

LEMMA AliveIs ==
    ASSUME NEW p \in Procs, Others(p)
    PROVE  /\ state[p] = "live" /\ state'[p] = "live" => Alive' = Alive
           /\ state[p] = "live" /\ state'[p] # "live" => Alive' = Alive \ {p}
           /\ state[p] # "live" /\ state'[p] = "live" => Alive' = Alive \cup {p}
BY DEF Alive, Others

\* ContentsKept, of one step.
KeepsContents ==
    \A p \in Procs : pte'[p] # pte[p] /\ tf'[p] = tf[p] =>
        \A a \in VAs : pte[p][a] # NULL /\ pte'[p][a] # NULL =>
            word'[pte'[p][a].pa] = word[pte[p][a].pa]

MemStep == KeepsContents /\ [Private!Next]_(Private!vars)

\* What the step has to say of the process that takes it.
LEMMA KeepsIf ==
    ASSUME NEW p \in Procs, Others(p),
           \/ pte'[p] = pte[p]
           \/ tf'[p] # tf[p]
           \/ \A a \in VAs : KeptAt(p, a) \/ pte[p][a] = NULL \/ pte'[p][a] = NULL
    PROVE  KeepsContents
<1>1. ASSUME NEW q \in Procs \ {p}, NEW a \in VAs, pte[q][a] # NULL, pte'[q][a] # NULL
      PROVE  word'[pte'[q][a].pa] = word[pte[q][a].pa]
  BY <1>1 DEF Others, Kept, KeptAt, NoneAt
<1>2. ASSUME pte'[p] # pte[p], tf'[p] = tf[p], NEW a \in VAs, pte[p][a] # NULL, pte'[p][a] # NULL
      PROVE  word'[pte'[p][a].pa] = word[pte[p][a].pa]
  BY <1>2 DEF KeptAt
<1> QED
  BY <1>1, <1>2 DEF KeepsContents

LEMMA StutterMem ==
    ASSUME \A q \in Procs : (state'[q] = "live" <=> state[q] = "live") /\ Kept(q)
    PROVE  MemStep
<1>1. \A q \in Procs : MemOf(q)' = MemOf(q)
  BY KeptMem
<1>2. memView' = memView
  BY <1>1, ViewIs
<1>3. Alive' = Alive
  BY DEF Alive
<1>4. UNCHANGED Private!vars
  BY <1>2, <1>3 DEF Private!vars, Alive
<1>5. KeepsContents
  BY DEF KeepsContents, Kept, KeptAt, NoneAt
<1> QED
  BY <1>4, <1>5 DEF MemStep

LEMMA EndMem ==
    ASSUME NEW p \in Procs, Others(p), state[p] = "live", state'[p] # "live",
           pte'[p] = pte[p] \/ tf'[p] # tf[p]
    PROVE  MemStep
<1>1. MemOf(p)' = Private!EmptyMem
  BY DEF MemOf, Private!EmptyMem
<1>2. Private!Become(p, Private!EmptyMem)
  BY <1>1, BecomeIs
<1>3. Alive' = Alive \ {p} /\ p \in Alive
  BY AliveIs DEF Alive
<1>4. Private!Next
  BY <1>2, <1>3 DEF Private!Next, Private!End, Alive
<1>5. KeepsContents
  BY KeepsIf
<1> QED
  BY <1>4, <1>5 DEF MemStep

LEMMA MapMem ==
    ASSUME NEW p \in Procs, Others(p), state[p] = "live", state'[p] = "live", NEW A \in SUBSET VAs,
           \A a \in A : pte[p][a] = NULL /\ pte'[p][a] # NULL /\ word'[pte'[p][a].pa] = Zero,
           \A a \in VAs \ A : KeptAt(p, a) \/ NoneAt(p, a)
    PROVE  MemStep
<1>1. PICK m, M : m = MemOf(p) /\ M = Mapped(p)
  OBVIOUS
<1>2. m = [a \in M |-> Contents(p, a)] /\ DOMAIN m = M /\ M \cap A = {}
  BY <1>1 DEF MemOf, Mapped
<1>3. Mapped(p)' = M \cup A
  BY <1>1 DEF Mapped, KeptAt, NoneAt
<1>4. \A a \in M \cup A : Contents(p, a)' = IF a \in A THEN Zero ELSE m[a]
  BY <1>1, <1>2 DEF Mapped, KeptAt, NoneAt, Contents
<1>5. MemOf(p)' = [a \in M \cup A |-> IF a \in A THEN Zero ELSE m[a]]
  <2>1. MemOf(p)' = [a \in Mapped(p)' |-> Contents(p, a)']
    BY DEF MemOf
  <2> QED
    BY <2>1, <1>3, <1>4
<1>6. memView[p] = m /\ Private!Become(p, [a \in DOMAIN m \cup A |-> IF a \in A THEN Zero ELSE m[a]])
  BY <1>1, <1>2, <1>5, BecomeIs
<1>7. Alive' = Alive /\ p \in Alive
  BY AliveIs DEF Alive
<1>8. Private!Map(p, A)
  BY <1>2, <1>6, <1>7 DEF Private!Map, Alive
<1>9. Private!Next
  BY <1>7, <1>8 DEF Private!Next, Alive
<1>10. KeepsContents
  BY KeepsIf DEF NoneAt
<1> QED
  BY <1>9, <1>10 DEF MemStep

LEMMA UnmapMem ==
    ASSUME NEW p \in Procs, Others(p), state[p] = "live", state'[p] = "live", NEW A \in SUBSET VAs,
           \A a \in A : pte'[p][a] = NULL,
           \A a \in VAs \ A : KeptAt(p, a) \/ NoneAt(p, a)
    PROVE  MemStep
<1>1. PICK m, M : m = MemOf(p) /\ M = Mapped(p)
  OBVIOUS
<1>2. m = [a \in M |-> Contents(p, a)] /\ DOMAIN m = M
  BY <1>1 DEF MemOf
<1>3. Mapped(p)' = M \ A
  BY <1>1 DEF Mapped, KeptAt, NoneAt
<1>4. \A a \in M \ A : Contents(p, a)' = m[a]
  BY <1>1, <1>2 DEF Mapped, KeptAt, NoneAt, Contents
<1>5. MemOf(p)' = [a \in M \ A |-> m[a]]
  <2>1. MemOf(p)' = [a \in Mapped(p)' |-> Contents(p, a)']
    BY DEF MemOf
  <2> QED
    BY <2>1, <1>3, <1>4
<1>6. memView[p] = m /\ Private!Become(p, [a \in DOMAIN m \ A |-> m[a]])
  BY <1>1, <1>2, <1>5, BecomeIs
<1>7. Alive' = Alive /\ p \in Alive
  BY AliveIs DEF Alive
<1>8. Private!Unmap(p, A)
  BY <1>6, <1>7 DEF Private!Unmap, Private!Restrict, Alive
<1>9. Private!Next
  BY <1>7, <1>8 DEF Private!Next, Alive
<1>10. KeepsContents
  BY KeepsIf DEF NoneAt
<1> QED
  BY <1>9, <1>10 DEF MemStep

LEMMA WriteMem ==
    ASSUME NEW p \in Procs, Others(p), state[p] = "live", state'[p] = "live", NEW a \in VAs, NEW v \in Vals,
           pte' = pte, pte[p][a] # NULL, word'[pte[p][a].pa] = v,
           \A b \in VAs \ {a} : KeptAt(p, b) \/ NoneAt(p, b)
    PROVE  MemStep
<1>1. PICK m, M : m = MemOf(p) /\ M = Mapped(p)
  OBVIOUS
<1>2. m = [b \in M |-> Contents(p, b)] /\ DOMAIN m = M /\ a \in M
  BY <1>1 DEF MemOf, Mapped
<1>3. Mapped(p)' = M
  BY <1>1 DEF Mapped
<1>4. \A b \in M : Contents(p, b)' = IF b = a THEN v ELSE m[b]
  BY <1>1, <1>2 DEF Mapped, KeptAt, NoneAt, Contents
<1>5. MemOf(p)' = [m EXCEPT ![a] = v]
  <2>1. MemOf(p)' = [b \in Mapped(p)' |-> Contents(p, b)']
    BY DEF MemOf
  <2> QED
    BY <2>1, <1>2, <1>3, <1>4
<1>6. memView[p] = m /\ Private!Become(p, [m EXCEPT ![a] = v])
  BY <1>1, <1>5, BecomeIs
<1>7. Alive' = Alive /\ p \in Alive
  BY AliveIs DEF Alive
<1>8. Private!Write(p, a, v)
  BY <1>2, <1>6, <1>7 DEF Private!Write, Alive
<1>9. Private!Next
  BY <1>7, <1>8 DEF Private!Next, Alive
<1>10. KeepsContents
  BY KeepsIf
<1> QED
  BY <1>9, <1>10 DEF MemStep

LEMMA LoadMem ==
    ASSUME NEW p \in Procs, Others(p), state[p] = "live", state'[p] = "live", tf'[p] # tf[p],
           NEW a \in VAs, NEW v \in Vals, pte'[p][a] # NULL, word'[pte'[p][a].pa] = v,
           \A b \in VAs \ {a} : pte'[p][b] = NULL
    PROVE  MemStep
<1>1. Mapped(p)' = {a} /\ Contents(p, a)' = v
  BY DEF Mapped, Contents
<1>2. MemOf(p)' = [b \in {a} |-> v]
  <2>1. MemOf(p)' = [b \in Mapped(p)' |-> Contents(p, b)']
    BY DEF MemOf
  <2> QED
    BY <2>1, <1>1
<1>3. Private!Become(p, [b \in {a} |-> v])
  BY <1>2, BecomeIs
<1>4. Alive' = Alive /\ p \in Alive
  BY AliveIs DEF Alive
<1>5. Private!Load(p, a, v)
  BY <1>3, <1>4 DEF Private!Load, Alive
<1>6. Private!Next
  BY <1>4, <1>5 DEF Private!Next, Alive
<1>7. KeepsContents
  BY KeepsIf
<1> QED
  BY <1>6, <1>7 DEF MemStep

LEMMA CopyMem ==
    ASSUME NEW p \in Procs, NEW c \in Procs, Others(c), state[p] = "live", p # c,
           state[c] # "live", state'[c] = "live", tf'[c] # tf[c], NEW A \in SUBSET Mapped(p),
           \A a \in A : pte'[c][a] # NULL /\ word'[pte'[c][a].pa] = Contents(p, a),
           \A a \in VAs \ A : pte'[c][a] = NULL
    PROVE  MemStep
<1>1. PICK m : m = MemOf(p)
  OBVIOUS
<1>2. m = [a \in Mapped(p) |-> Contents(p, a)] /\ DOMAIN m = Mapped(p) /\ A \in SUBSET VAs
  BY <1>1 DEF MemOf, Mapped
<1>3. Mapped(c)' = A /\ \A a \in A : Contents(c, a)' = m[a]
  BY <1>2 DEF Mapped, Contents
<1>4. MemOf(c)' = [a \in A |-> m[a]]
  <2>1. MemOf(c)' = [a \in Mapped(c)' |-> Contents(c, a)']
    BY DEF MemOf
  <2> QED
    BY <2>1, <1>3
<1>5. memView[p] = m /\ Private!Become(c, [a \in A |-> m[a]])
  BY <1>1, <1>4, BecomeIs, ViewIs
<1>6. Alive' = Alive \cup {c} /\ p \in Alive /\ c \notin Alive
  BY AliveIs DEF Alive
<1>7. Private!Fork(p, c)
  BY <1>2, <1>5, <1>6 DEF Private!Fork, Private!Restrict, Alive
<1>8. Private!Next
  BY <1>6, <1>7 DEF Private!Next, Alive
<1>9. KeepsContents
  BY KeepsIf
<1> QED
  BY <1>8, <1>9 DEF MemStep

\* The steps, one by one.
LEMMA PanicMem ==
    ASSUME IInv, IInv', NEW p \in Procs, state[p] = "live", state'[p] = "panic",
           \A q \in Procs \ {p} : state'[q] = "live" <=> state[q] = "live",
           UNCHANGED <<pte, tf>>, NEW n \in 0..Len(free), Touches(p, {}, n)
    PROVE  MemStep
<1>1. TypeOK' /\ {} \in SUBSET Places
  BY DEF IInv, Exclusive
<1>2. Others(p)
  BY <1>1, OthersIf
<1> QED
  BY <1>2, EndMem

LEMMA PanicOneMem ==
    ASSUME IInv, IInv', NEW p \in Procs, state[p] = "live", Panic(p), UNCHANGED <<word, pte, tf>>
    PROVE  MemStep
<1>1. state \in [Procs -> {"unused", "live", "panic"}] /\ Len(free) \in Nat
  BY Types, LenProperties DEF IInv, Exclusive
<1>2. state'[p] = "panic" /\ \A q \in Procs \ {p} : state'[q] = state[q]
  BY <1>1 DEF Panic
<1>3. 0 \in 0..Len(free) /\ Touches(p, {}, 0)
  BY <1>1 DEF Touches
<1> QED
  BY <1>2, <1>3, PanicMem

LEMMA ForkPanicMem ==
    ASSUME IInv, IInv', NEW p \in Procs, NEW c \in Procs, Fork_panic(p, c)
    PROVE  MemStep
<1>1. state \in [Procs -> {"unused", "live", "panic"}] /\ Len(free) \in Nat
  BY Types, LenProperties DEF IInv, Exclusive
<1>2. state[p] = "live" /\ state'[p] = "panic" /\ \A q \in Procs \ {p} : state'[q] = "live" <=> state[q] = "live"
  BY <1>1 DEF Fork_panic
<1>3. 0 \in 0..Len(free) /\ Touches(p, {}, 0)
  BY <1>1 DEF Touches, Fork_panic
<1> QED
  BY <1>2, <1>3, PanicMem DEF Fork_panic

LEMMA ExecBadMem ==
    ASSUME IInv, IInv', NEW p \in Procs, NEW v \in Vals, proc_exec_bad(p, v)
    PROVE  MemStep
<1>0. /\ state \in [Procs -> {"unused", "live", "panic"}] /\ Len(free) \in Nat /\ free \in Seq(Pages)
      /\ word \in [Pages -> Vals] /\ Len(free) >= 2
  BY Types, LenProperties DEF IInv, Exclusive, proc_exec_bad
<1>1. PICK g1, g2, w : g1 = free[1] /\ g2 = free[2] /\ w = (IF v = 1 THEN GARBAGE ELSE (v - 1) % WRAP)
  OBVIOUS
<1>2. Taken(2)[1] = g1 /\ Taken(2)[2] = g2
  BY <1>0, <1>1, ElementOfSeq DEF Taken
<1>3. word' = [word EXCEPT ![g1] = KERNEL_SP, ![g2] = w]
  BY <1>1, <1>2 DEF proc_exec_bad
<1>4. 2 \in 0..Len(free) /\ 1 \in 1..2 /\ 2 \in 1..2
  BY <1>0
<1>5. Touches(p, {}, 2)
  BY <1>0, <1>1, <1>3, <1>4 DEF Touches
<1>6. state[p] = "live" /\ state'[p] = "panic" /\ \A q \in Procs \ {p} : state'[q] = state[q]
  BY <1>0 DEF Panic, proc_exec_bad
<1> QED
  BY <1>4, <1>5, <1>6, PanicMem DEF proc_exec_bad

LEMMA NoentMem ==
    ASSUME IInv, IInv', NEW p \in Procs, proc_exec_noent(p)
    PROVE  MemStep
<1>0. /\ TypeOK' /\ Len(free) \in Nat /\ 1 \in 0..Len(free) /\ word \in [Pages -> Vals] /\ {} \in SUBSET Places
  BY Types, LenProperties DEF IInv, Exclusive, proc_exec_noent
<1>1. word' = [word EXCEPT ![free[1]] = KERNEL_SP] /\ UNCHANGED <<state, pte, tf>>
  BY DEF proc_exec_noent
<1>2. Touches(p, {}, 1)
  <2>1. 1 \in 1..1
    OBVIOUS
  <2> QED
    BY <2>1, <1>0, <1>1 DEF Touches
<1>3. \A q \in Procs, a \in VAs : KeptAt(q, a) \/ NoneAt(q, a)
  BY <1>0, <1>1, <1>2, Untouched
<1> QED
  BY <1>1, <1>3, StutterMem DEF Kept

LEMMA PutWordMem ==
    ASSUME IInv, IInv', NEW p \in Procs, NEW a \in VAs, NEW v \in Vals, state[p] = "live", a \in Mapped(p),
           PutWord(p, a, v)
    PROVE  MemStep
<1>0. /\ TypeOK /\ TypeOK' /\ Len(free) \in Nat /\ 0 \in 0..Len(free) /\ word \in [Pages -> Vals]
      /\ {a} \in SUBSET Places
  BY Types, LenProperties, PlaceKinds DEF IInv, Exclusive
<1>1. PICK g : g = pte[p][a].pa
  OBVIOUS
<1>2. word' = [word EXCEPT ![g] = v] /\ UNCHANGED <<state, pte, tf>>
  BY <1>1 DEF PutWord
<1>3. g = At(pte, tf, p, a) /\ g \in Pages /\ pte[p][a] # NULL
  BY <1>0, <1>1, MappedFacts
<1>4. Touches(p, {a}, 0)
  BY <1>0, <1>2, <1>3 DEF Touches
<1>5. Others(p)
  BY <1>0, <1>2, <1>4, OthersIf
<1>6. \A b \in VAs \ {a} : KeptAt(p, b) \/ NoneAt(p, b)
  BY <1>0, <1>2, <1>4, Untouched
<1>7. word'[g] = v
  BY <1>0, <1>2, <1>3
<1> QED
  BY <1>1, <1>2, <1>3, <1>5, <1>6, <1>7, WriteMem

LEMMA CopyoutMem ==
    ASSUME IInv, IInv', NEW p \in Procs, NEW a \in VAs, NEW v \in Vals, uvm_copyout(p, a, v)
    PROVE  MemStep
BY PutWordMem, PanicOneMem DEF uvm_copyout

\* A kept copy-on-write entry: its page is the same.
LEMMA CowOwnMem ==
    ASSUME IInv, IInv', NEW p \in Procs, NEW a \in VAs, handle_cow_own(p, a)
    PROVE  MemStep
<1>0. /\ TypeOK /\ TypeOK' /\ Len(free) \in Nat /\ 0 \in 0..Len(free) /\ {} \in SUBSET Places
      /\ a \in Mapped(p) /\ UNCHANGED <<state, word, tf>>
  BY Types, LenProperties DEF IInv, Exclusive, handle_cow_own
<1>1. PICK e : e = Entry(pte[p][a].pa, TRUE, FALSE)
  OBVIOUS
<1>2. e \in Entries /\ e.pa = At(pte, tf, p, a)
  BY <1>0, <1>1, MappedFacts, EntryIs
<1>3. SetEntry(p, a, e)
  BY <1>1 DEF handle_cow_own, SetEntry
<1>4. \A q \in Procs, x \in VAs : At(pte', tf', q, x) = At(pte, tf, q, x)
  BY <1>0, <1>2, <1>3, SetEntryIs, PlaceKinds
<1>5. Touches(p, {}, 0)
  BY <1>0 DEF Touches
<1>6. \A q \in Procs, x \in VAs : KeptAt(q, x) \/ NoneAt(q, x)
  BY <1>0, <1>4, <1>5, Untouched
<1> QED
  BY <1>0, <1>6, StutterMem DEF Kept

LEMMA CowCopyMem ==
    ASSUME IInv, IInv', NEW p \in Procs, NEW a \in VAs, handle_cow_copy(p, a)
    PROVE  MemStep
<1>0. /\ Exclusive /\ TypeOK /\ TypeOK' /\ Len(free) \in Nat /\ 1 \in 0..Len(free) /\ 1 \in 1..Len(free)
      /\ {a} \in SUBSET Places /\ a \in Mapped(p) /\ UNCHANGED <<state, tf>> /\ word \in [Pages -> Vals]
  BY Types, LenProperties, PlaceKinds DEF IInv, Exclusive, handle_cow_copy
<1>1. PICK old, g, e, w : /\ old = pte[p][a].pa /\ g = free[1] /\ e = Entry(free[1], TRUE, FALSE)
                          /\ w = FreeWord({old})
  OBVIOUS
<1>2. word' = [w EXCEPT ![g] = word[old]] /\ SetEntry(p, a, e)
  BY <1>1 DEF handle_cow_copy, CowWord, Contents, SetEntry
<1>3. g \in Pages /\ e \in Entries /\ e # NULL /\ e.pa = g
  BY <1>0, <1>1, OwnedFacts, EntryIs
<1>4. old = At(pte, tf, p, a) /\ old \in Pages /\ pte[p][a] # NULL
  BY <1>0, <1>1, MappedFacts
<1>5. w \in [Pages -> Vals] /\ \A h \in Pages \ {old} : w[h] = word[h]
  BY <1>0, <1>1, FreeWordType
<1>6. Touches(p, {a}, 1)
  <2>1. 1 \in 1..1
    OBVIOUS
  <2> QED
    BY <2>1, <1>1, <1>2, <1>3, <1>4, <1>5 DEF Touches
<1>7. /\ \A q \in Procs, x \in VAs : ~ (q = p /\ x \in {a}) => At(pte', tf', q, x) = At(pte, tf, q, x)
      /\ pte'[p][a] = e
  BY <1>0, <1>2, <1>3, SetEntryIs, PlaceKinds
<1>8. \A q \in Procs, x \in VAs : ~ (q = p /\ x \in {a}) => KeptAt(q, x) \/ NoneAt(q, x)
  BY <1>0, <1>6, <1>7, Untouched
<1>9. KeptAt(p, a)
  <2>1. word'[g] = word[old]
    BY <1>2, <1>3, <1>5
  <2> QED
    BY <2>1, <1>1, <1>3, <1>4, <1>7 DEF KeptAt
<1>10. \A q \in Procs, x \in VAs : KeptAt(q, x) \/ NoneAt(q, x)
  BY <1>8, <1>9
<1> QED
  BY <1>0, <1>10, StutterMem DEF Kept

LEMMA FaultMem ==
    ASSUME IInv, IInv', NEW p \in Procs, NEW a \in VAs, handle_page_fault(p, a)
    PROVE  MemStep
<1>0. /\ Exclusive /\ TypeOK /\ TypeOK' /\ Len(free) \in Nat /\ 1 \in 0..Len(free) /\ 1 \in 1..Len(free)
      /\ {} \in SUBSET Places /\ {a} \in SUBSET VAs /\ UNCHANGED <<state, tf>> /\ word \in [Pages -> Vals]
      /\ state[p] = "live" /\ pte[p][a] = NULL
  BY Types, LenProperties DEF IInv, Exclusive, handle_page_fault, Mapped
<1>1. PICK g, e : g = free[1] /\ e = Entry(free[1], TRUE, FALSE)
  OBVIOUS
<1>2. word' = [word EXCEPT ![g] = Zero] /\ SetEntry(p, a, e)
  BY <1>1 DEF handle_page_fault, Fresh, SetEntry
<1>3. g \in Pages /\ e \in Entries /\ e # NULL /\ e.pa = g
  BY <1>0, <1>1, OwnedFacts, EntryIs
<1>4. Touches(p, {}, 1)
  <2>1. 1 \in 1..1
    OBVIOUS
  <2> QED
    BY <2>1, <1>0, <1>1, <1>2 DEF Touches
<1>5. /\ \A q \in Procs, x \in VAs : ~ (q = p /\ x = a) => At(pte', tf', q, x) = At(pte, tf, q, x)
      /\ pte'[p][a] = e
  BY <1>0, <1>2, <1>3, SetEntryIs, PlaceKinds
<1>6. Others(p)
  BY <1>0, <1>4, <1>5, OthersIf
<1>7. \A x \in VAs \ {a} : KeptAt(p, x) \/ NoneAt(p, x)
  BY <1>0, <1>4, <1>5, Untouched
<1>8. \A x \in {a} : pte[p][x] = NULL /\ pte'[p][x] # NULL /\ word'[pte'[p][x].pa] = Zero
  BY <1>0, <1>2, <1>3, <1>5
<1> QED
  BY <1>0, <1>6, <1>7, <1>8, MapMem

LEMMA GrowMem ==
    ASSUME IInv, IInv', NEW p \in Procs, NEW new \in 0..(NV * PG), brk_grow(p, new)
    PROVE  MemStep
<1>0. /\ Exclusive /\ TypeOK /\ TypeOK' /\ Len(free) \in Nat /\ {} \in SUBSET Places
      /\ UNCHANGED <<state, tf>> /\ word \in [Pages -> Vals] /\ state[p] = "live"
  BY Types, LenProperties DEF IInv, Exclusive, brk_grow
<1>1. PICK x, y, n, A : x = PagesTo(heap_top[p]) /\ y = PagesTo(new) /\ n = y - x /\ A = GrowSet(p, new)
  OBVIOUS
<1>2. /\ new > heap_top[p] /\ A \cap Mapped(p) = {} /\ Len(free) >= n
      /\ word' = [g \in Pages |-> IF \E k \in 1..n : g = free[k] THEN Zero ELSE word[g]]
      /\ pte' = [pte EXCEPT ![p] = [a \in VAs |->
             IF a \in A THEN Entry(free[(a - x) + 1], TRUE, FALSE) ELSE pte[p][a]]]
  BY <1>1 DEF brk_grow, Fresh, GrowFails
<1>3. x \in 0..NV /\ y \in 0..NV /\ x <= y /\ NV \in Nat /\ VAs = 0..(NV - 1) /\ A = x..(y - 1)
  <2>1. heap_top[p] <= new
    BY <1>0, <1>2, Types, PagesAssumption
  <2> QED
    BY <2>1, <1>0, <1>1, BrkBounds DEF GrowSet
<1>4. n \in 0..Len(free) /\ n \in Nat /\ A \in SUBSET VAs
  BY <1>0, <1>1, <1>2, <1>3
<1>5. \A a \in A : (a - x) + 1 \in 1..n /\ (a - x) + 1 \in 1..Len(free)
  <2> SUFFICES ASSUME NEW a \in A
               PROVE  (a - x) + 1 \in 1..n /\ (a - x) + 1 \in 1..Len(free)
    OBVIOUS
  <2>1. a \in Int /\ x \in Int /\ y \in Int /\ x <= a /\ a <= y - 1
    BY <1>3
  <2>2. n = y - x /\ n <= Len(free) /\ Len(free) \in Nat
    BY <1>0, <1>1, <1>4
  <2> QED
    BY <2>1, <2>2
<1>6. \A a \in VAs : pte'[p][a] = IF a \in A THEN Entry(free[(a - x) + 1], TRUE, FALSE) ELSE pte[p][a]
  BY <1>0, <1>2, Types DEF Tables
<1>7. \A q \in Procs \ {p} : pte'[q] = pte[q]
  BY <1>0, <1>2, Types DEF Tables
<1>8. \A a \in A : pte[p][a] = NULL
  BY <1>2, <1>4 DEF Mapped
<1>9. \A a \in A : pte'[p][a] # NULL /\ word'[pte'[p][a].pa] = Zero
  <2> SUFFICES ASSUME NEW a \in A PROVE pte'[p][a] # NULL /\ word'[pte'[p][a].pa] = Zero
    OBVIOUS
  <2>1. PICK k \in 1..n : k = (a - x) + 1 /\ k \in 1..Len(free)
    BY <1>5
  <2>2. free[k] \in Pages
    BY <2>1, <1>0, OwnedFacts
  <2>3. pte'[p][a] # NULL /\ pte'[p][a].pa = free[k]
    BY <2>1, <2>2, <1>4, <1>6, EntryIs
  <2>4. word'[free[k]] = Zero
    BY <2>1, <2>2, <1>2
  <2> QED
    BY <2>3, <2>4
<1>10. Touches(p, {}, n)
  BY <1>2 DEF Touches
<1>11. Others(p)
  <2>1. \A q \in Procs \ {p}, a \in VAs : At(pte', tf', q, a) = At(pte, tf, q, a)
    BY <1>0, <1>7, OthersAt
  <2> QED
    BY <2>1, <1>0, <1>4, <1>10, OthersIf
<1>12. \A a \in VAs \ A : KeptAt(p, a) \/ NoneAt(p, a)
  <2>1. \A a \in VAs \ A : At(pte', tf', p, a) = At(pte, tf, p, a)
    BY <1>0, <1>6 DEF At
  <2> QED
    BY <2>1, <1>0, <1>4, <1>10, Untouched
<1> QED
  BY <1>0, <1>4, <1>8, <1>9, <1>11, <1>12, MapMem

\* The pages at addresses A of a process are where they are.
LEMMA PagesAtIs ==
    ASSUME TypeOK, NEW p \in Procs, NEW A \in SUBSET Mapped(p), NEW g \in PagesAt(p, A)
    PROVE  \E x \in A : g = At(pte, tf, p, x)
<1>1. PICK a \in A : g = pte[p][a].pa
  BY DEF PagesAt
<1>2. a \in VAs /\ a \in Mapped(p)
  BY DEF Mapped
<1>3. g = At(pte, tf, p, a)
  BY <1>1, <1>2, MappedFacts
<1> QED
  BY <1>3

LEMMA ShrinkMem ==
    ASSUME IInv, IInv', NEW p \in Procs, NEW new \in 0..(NV * PG), brk_shrink(p, new)
    PROVE  MemStep
<1>0. /\ Exclusive /\ TypeOK /\ TypeOK' /\ Len(free) \in Nat /\ 0 \in 0..Len(free) /\ Good(p)
      /\ UNCHANGED <<state, tf>> /\ word \in [Pages -> Vals] /\ state[p] = "live"
  BY IInvParts, Types, LenProperties DEF IInv, Exclusive, brk_shrink
<1>1. PICK x, y, A : x = PagesTo(heap_top[p]) /\ y = PagesTo(new) /\ A = UngrowSet(p, new)
  OBVIOUS
<1>2. /\ new <= heap_top[p]
      /\ word' = FreeWord(PagesAt(p, A))
      /\ pte' = [pte EXCEPT ![p] = [a \in VAs |-> IF a \in A THEN NULL ELSE pte[p][a]]]
  BY <1>1 DEF brk_shrink
<1>3. x \in 0..NV /\ y \in 0..NV /\ y <= x /\ NV \in Nat /\ VAs = 0..(NV - 1) /\ A = y..(x - 1)
  BY <1>0, <1>1, <1>2, BrkBounds DEF UngrowSet
<1>4. A \in SUBSET Mapped(p) /\ A \in SUBSET VAs /\ A \in SUBSET Places
  <2>1. Range0(p) = 0..(x - 1)
    BY <1>1 DEF Range0
  <2>2. A \subseteq Mapped(p)
    BY <2>1, <1>0, <1>3 DEF Good
  <2> QED
    BY <2>2, PlaceKinds DEF Mapped
<1>5. /\ \A a \in VAs : pte'[p][a] = IF a \in A THEN NULL ELSE pte[p][a]
      /\ \A q \in Procs \ {p} : pte'[q] = pte[q]
  BY <1>0, <1>2, Types DEF Tables
<1>6. Touches(p, A, 0)
  <2> SUFFICES ASSUME NEW g \in Pages, word'[g] # word[g] PROVE \E a \in A : g = At(pte, tf, p, a)
    BY DEF Touches
  <2>1. g \in PagesAt(p, A)
    BY <1>0, <1>2, FreeWordType
  <2> QED
    BY <2>1, <1>0, <1>4, PagesAtIs
<1>7. Others(p)
  <2>1. \A q \in Procs \ {p}, a \in VAs : At(pte', tf', q, a) = At(pte, tf, q, a)
    BY <1>0, <1>5, OthersAt
  <2> QED
    BY <2>1, <1>0, <1>4, <1>6, OthersIf
<1>8. \A a \in VAs \ A : KeptAt(p, a) \/ NoneAt(p, a)
  <2>1. \A a \in VAs \ A : At(pte', tf', p, a) = At(pte, tf, p, a)
    BY <1>0, <1>5 DEF At
  <2> QED
    BY <2>1, <1>0, <1>4, <1>6, Untouched
<1>9. \A a \in A : pte'[p][a] = NULL
  BY <1>4, <1>5
<1> QED
  BY <1>0, <1>4, <1>7, <1>8, <1>9, UnmapMem

LEMMA FreeMem ==
    ASSUME IInv, IInv', NEW p \in Procs, proc_free(p)
    PROVE  MemStep
<1>0. /\ Exclusive /\ TypeOK /\ TypeOK' /\ Len(free) \in Nat /\ 0 \in 0..Len(free)
      /\ state[p] = "live" /\ tf[p] # NULL /\ Mapped(p) \in SUBSET Mapped(p)
  BY IInvParts, Types, LenProperties DEF IInv, Exclusive, proc_free, Good
<1>1. PICK X : X = Mapped(p) \cup {TRAPFRAME}
  OBVIOUS
<1>2. X \in SUBSET Places /\ Mapped(p) \subseteq X /\ TRAPFRAME \in X
  BY <1>1, PlaceKinds DEF Mapped
<1>3. /\ state' = [state EXCEPT ![p] = "unused"]
      /\ word' = FreeWord(PagesAt(p, Mapped(p)) \cup {tf[p]})
      /\ pte' = [pte EXCEPT ![p] = NoTable]
      /\ tf' = [tf EXCEPT ![p] = NULL]
  BY DEF proc_free
<1>4. Touches(p, X, 0)
  <2> SUFFICES ASSUME NEW g \in Pages, word'[g] # word[g] PROVE \E x \in X : g = At(pte, tf, p, x)
    BY DEF Touches
  <2>1. g \in PagesAt(p, Mapped(p)) \cup {tf[p]}
    BY <1>0, <1>3, FreeWordType
  <2>2. CASE g = tf[p]
    BY <2>2, <1>2 DEF At
  <2>3. CASE g \in PagesAt(p, Mapped(p))
    BY <2>3, <1>0, <1>2, PagesAtIs
  <2> QED
    BY <2>1, <2>2, <2>3
<1>5. /\ \A q \in Procs \ {p} : pte'[q] = pte[q] /\ tf'[q] = tf[q] /\ state'[q] = state[q]
      /\ tf'[p] # tf[p] /\ state'[p] = "unused"
  BY <1>0, <1>3, Types DEF Tables, Frames
<1>6. Others(p)
  <2>1. \A q \in Procs \ {p}, a \in VAs : At(pte', tf', q, a) = At(pte, tf, q, a)
    BY <1>5, OthersAt
  <2> QED
    BY <2>1, <1>0, <1>2, <1>4, <1>5, OthersIf
<1> QED
  BY <1>0, <1>5, <1>6, EndMem

LEMMA ExecMem ==
    ASSUME IInv, IInv', NEW p \in Procs, NEW v \in Vals, proc_exec(p, v)
    PROVE  MemStep
<1>0. /\ Exclusive /\ TypeOK /\ TypeOK' /\ Len(free) \in Nat /\ free \in Seq(Pages)
      /\ 2 \in 0..Len(free) /\ 1 \in 1..Len(free) /\ 2 \in 1..Len(free) /\ 1 \in 1..2 /\ 2 \in 1..2
      /\ state[p] = "live" /\ state' = state /\ word \in [Pages -> Vals]
      /\ Mapped(p) \in SUBSET Mapped(p) /\ Mapped(p) \in SUBSET Places
  BY Types, LenProperties, PlaceKinds DEF IInv, Exclusive, proc_exec, Mapped
<1>1. PICK g1, g2, G, w : g1 = free[1] /\ g2 = free[2] /\ G = PagesAt(p, Mapped(p)) /\ w = FreeWord(G)
  OBVIOUS
<1>2. /\ Taken(2)[1] = g1 /\ Taken(2)[2] = g2 /\ g1 \in Pages /\ g2 \in Pages
      /\ g1 # tf[p]
  <2>1. Taken(2)[1] = g1 /\ Taken(2)[2] = g2
    BY <1>0, <1>1 DEF Taken
  <2>2. At(pte, tf, p, TRAPFRAME) = tf[p] /\ TRAPFRAME \in Places
    BY PlaceKinds DEF At
  <2> QED
    BY <2>1, <2>2, <1>0, <1>1, OwnedFacts
<1>3. /\ word' = [w EXCEPT ![g1] = KERNEL_SP, ![g2] = v]
      /\ pte' = [pte EXCEPT ![p] = [NoTable EXCEPT ![0] = Entry(g2, FALSE, FALSE)]]
      /\ tf' = [tf EXCEPT ![p] = g1]
  BY <1>1, <1>2 DEF proc_exec
<1>4. w \in [Pages -> Vals] /\ \A g \in Pages : w[g] # word[g] => \E x \in Mapped(p) : g = At(pte, tf, p, x)
  <2>1. w \in [Pages -> Vals]
    BY <1>0, <1>1, FreeWordType
  <2>2. ASSUME NEW g \in Pages, w[g] # word[g] PROVE \E x \in Mapped(p) : g = At(pte, tf, p, x)
    <3>1. g \in PagesAt(p, Mapped(p))
      BY <2>2, <1>0, <1>1, FreeWordType
    <3> QED
      BY <3>1, <1>0, PagesAtIs
  <2> QED
    BY <2>1, <2>2
<1>5. Touches(p, Mapped(p), 2)
  BY <1>0, <1>1, <1>2, <1>3, <1>4 DEF Touches
<1>6. /\ \A q \in Procs \ {p} : pte'[q] = pte[q] /\ tf'[q] = tf[q]
      /\ tf'[p] # tf[p]
  BY <1>0, <1>2, <1>3, Types DEF Tables, Frames
<1>7. Others(p)
  <2>1. \A q \in Procs \ {p}, a \in VAs : At(pte', tf', q, a) = At(pte, tf, q, a)
    BY <1>6, OthersAt
  <2> QED
    BY <2>1, <1>0, <1>5, <1>6, OthersIf
<1>8. pte'[p] = [NoTable EXCEPT ![0] = Entry(g2, FALSE, FALSE)]
  BY <1>0, <1>3, Types DEF Tables
<1>9. /\ 0 \in VAs /\ pte'[p][0] = Entry(g2, FALSE, FALSE)
      /\ \A a \in VAs \ {0} : pte'[p][a] = NULL
  BY <1>8, PlaceKinds DEF NoTable
<1>10. pte'[p][0] # NULL /\ pte'[p][0].pa = g2 /\ word'[g2] = v
  <2>1. pte'[p][0] # NULL /\ pte'[p][0].pa = g2
    BY <1>2, <1>9, EntryIs
  <2>2. word'[g2] = v
    BY <1>2, <1>3, <1>4
  <2> QED
    BY <2>1, <2>2
<1> QED
  BY <1>0, <1>6, <1>7, <1>9, <1>10, LoadMem

LEMMA ForkMem ==
    ASSUME IInv, IInv', NEW p \in Procs, NEW c \in Procs, Fork(p, c)
    PROVE  MemStep
<1>0. /\ Exclusive /\ TypeOK /\ TypeOK' /\ Len(free) \in Nat /\ word \in [Pages -> Vals] /\ {} \in SUBSET Places
  BY Types, LenProperties DEF IInv, Exclusive
<1>1. PICK n : n = PagesTo(heap_top[p]) /\ Forks(p, c, n)
  BY ForkIs
<1>2. n \in Nat /\ NV \in Nat /\ n + 1 \in 0..Len(free) /\ 1 \in 1..(n + 1)
  BY <1>1, PagesAssumption DEF Forks
<1>3. \A k \in 1..(n + 1) : k \in 1..Len(free) /\ free[k] \in Pages /\ free[k] # NULL
  BY <1>0, <1>2, OwnedFacts
<1>4. word' = [g \in Pages |->
         IF g = free[1] THEN KERNEL_SP
         ELSE IF \E a \in Range0(p) : g = free[a + 2]
         THEN Contents(p, CHOOSE a \in Range0(p) : g = free[a + 2])
         ELSE word[g]]
  BY DEF Fork
<1>5. /\ Range0(p) = 0..(n - 1)
      /\ \A a \in 0..(n - 1) : a \in VAs /\ a \in Mapped(p) /\ a + 2 \in 1..(n + 1)
  BY <1>1 DEF Forks
<1>6. Touches(c, {}, n + 1)
  BY <1>2, <1>4, <1>5 DEF Touches
<1>7. Others(c)
  <2>1. \A q \in Procs \ {c} : state'[q] = state[q]
    BY <1>0, <1>1, Types DEF Forks
  <2>2. \A q \in Procs \ {c}, a \in VAs : At(pte', tf', q, a) = At(pte, tf, q, a)
    BY <1>1, PlaceKinds DEF Forks
  <2> QED
    BY <2>1, <2>2, <1>0, <1>2, <1>6, OthersIf
<1>8. state[p] = "live" /\ state[c] # "live" /\ state'[c] = "live" /\ p # c
  BY <1>0, <1>1, Types DEF Forks
<1>9. tf'[c] # tf[c]
  <2>1. At(pte, tf, c, TRAPFRAME) = tf[c] /\ TRAPFRAME \in Places
    BY PlaceKinds DEF At
  <2>2. tf[c] # free[1]
    BY <2>1, <1>0, <1>2, <1>3, OwnedFacts
  <2> QED
    BY <2>2, <1>1 DEF Forks
<1>10. ASSUME NEW a \in 0..(n - 1)
       PROVE  pte'[c][a] # NULL /\ word'[pte'[c][a].pa] = Contents(p, a)
  <2>1. a \in VAs /\ a + 2 \in 1..(n + 1) /\ At(pte', tf', c, a) = free[a + 2]
    BY <1>1 DEF Forks
  <2>2. PICK g : g = free[a + 2] /\ g \in Pages /\ g # NULL
    BY <2>1, <1>3
  <2>3. pte'[c][a] # NULL /\ pte'[c][a].pa = g
    BY <2>1, <2>2, <1>0, Types, EntryAt
  <2>4. g # free[1]
    <3>1. a + 2 # 1 /\ a + 2 \in 1..Len(free) /\ 1 \in 1..Len(free)
      BY <2>1, <1>2, <1>3
    <3> QED
      BY <3>1, <2>2, <1>0, OwnedFacts
  <2>5. \A b \in Range0(p) : g = free[b + 2] => b = a
    <3> SUFFICES ASSUME NEW b \in 0..(n - 1), g = free[b + 2] PROVE b = a
      BY <1>5
    <3>1. b + 2 \in 1..Len(free) /\ a + 2 \in 1..Len(free)
      BY <1>3, <1>5
    <3>2. b + 2 = a + 2
      BY <3>1, <2>2, <1>0, OwnedFacts
    <3> QED
      BY <3>2
  <2>6. a \in Range0(p) /\ (CHOOSE b \in Range0(p) : g = free[b + 2]) = a
    BY <2>2, <2>5, <1>5
  <2>7. word'[g] = Contents(p, a)
    BY <2>2, <2>4, <2>6, <1>4
  <2> QED
    BY <2>3, <2>7
<1>11. \A a \in VAs \ (0..(n - 1)) : pte'[c][a] = NULL
  <2>1. \A a \in VAs \ (0..(n - 1)) : At(pte', tf', c, a) = NULL
    BY <1>1 DEF Forks
  <2> QED
    BY <2>1, <1>0, Types, EntryAt
<1>12. 0..(n - 1) \in SUBSET Mapped(p)
  BY <1>5
<1> QED
  BY <1>7, <1>8, <1>9, <1>10, <1>11, <1>12, CopyMem

LEMMA NextMem == IInv /\ IInv' /\ [Next]_vars => MemStep
<1> SUFFICES ASSUME IInv, IInv', [Next]_vars PROVE MemStep
  OBVIOUS
<1>1. CASE UNCHANGED vars
  <2>1. \A q \in Procs : (state'[q] = "live" <=> state[q] = "live") /\ Kept(q)
    BY <1>1 DEF vars, Kept, KeptAt, NoneAt
  <2> QED
    BY <2>1, StutterMem
<1>2. ASSUME NEW p \in Procs, NEW c \in Procs, Fork(p, c) \/ Fork_panic(p, c) PROVE MemStep
  BY <1>2, ForkMem, ForkPanicMem
<1>3. ASSUME NEW p \in Procs, proc_free(p) PROVE MemStep
  BY <1>3, FreeMem
<1>4. ASSUME NEW p \in Procs, NEW v \in Vals, proc_exec(p, v) \/ proc_exec_bad(p, v) PROVE MemStep
  BY <1>4, ExecMem, ExecBadMem
<1>5. ASSUME NEW p \in Procs, proc_exec_noent(p) \/ proc_exec_panic(p) PROVE MemStep
  BY <1>5, NoentMem, PanicOneMem DEF proc_exec_panic, OutOfPages
<1>6. ASSUME NEW p \in Procs, NEW new \in 0..(NV * PG),
             brk_grow(p, new) \/ brk_panic(p, new) \/ brk_shrink(p, new) PROVE MemStep
  BY <1>6, GrowMem, PanicOneMem, ShrinkMem DEF brk_panic
<1>7. ASSUME NEW p \in Procs, NEW a \in VAs, NEW v \in Vals, Store(p, a, v) \/ uvm_copyout(p, a, v) PROVE MemStep
  BY <1>7, PutWordMem, CopyoutMem DEF Store
<1>8. ASSUME NEW p \in Procs, NEW a \in VAs,
             handle_cow_own(p, a) \/ handle_cow_copy(p, a) \/ handle_cow_panic(p, a) PROVE MemStep
  BY <1>8, CowOwnMem, CowCopyMem, PanicOneMem DEF handle_cow_panic, OutOfPages
<1>9. ASSUME NEW p \in Procs, NEW a \in VAs, handle_page_fault(p, a) \/ page_fault_panic(p, a) PROVE MemStep
  BY <1>9, FaultMem, PanicOneMem DEF page_fault_panic, OutOfPages
<1> QED
  BY <1>1, <1>2, <1>3, <1>4, <1>5, <1>6, <1>7, <1>8, <1>9 DEF Next

\* handle_cow, copy_range and uvm_heap_grow and _ungrow change how a page is
\* mapped, never what the program finds at an address it keeps, whatever the
\* program has written over the count.
THEOREM ContentsTheorem == Spec => ContentsKept
<1>1. IInv /\ IInv' /\ [Next]_vars => [KeepsContents]_vars
  BY NextMem DEF MemStep
<1>2. Spec => [][KeepsContents]_vars
  BY <1>1, Invariant, PTL DEF Spec
<1>3. [][KeepsContents]_vars => ContentsKept
  BY DEF ContentsKept, KeepsContents
<1> QED
  BY <1>2, <1>3

LEMMA InitMem == Init => Private!Init
<1> SUFFICES ASSUME Init PROVE Private!Init
  OBVIOUS
<1>1. PICK p \in Procs, v \in Vals :
        /\ state = [q \in Procs |-> IF q = p THEN "live" ELSE "unused"]
        /\ pte = [q \in Procs |-> IF q = p THEN [NoTable EXCEPT ![0] = Entry(NPAGES - 1, TRUE, FALSE)] ELSE NoTable]
        /\ word = [g \in Pages |-> IF g = NPAGES THEN KERNEL_SP ELSE IF g = NPAGES - 1 THEN v ELSE GARBAGE]
  BY DEF Init
<1>2. NPAGES - 1 \in Pages /\ NPAGES # NPAGES - 1
  BY PagesAssumption DEF Pages
<1>3. PICK e : e = Entry(NPAGES - 1, TRUE, FALSE)
  OBVIOUS
<1>4. e # NULL /\ e.pa = NPAGES - 1
  BY <1>2, <1>3, EntryIs
<1>5. \A a \in VAs : pte[p][a] = IF a = 0 THEN e ELSE NULL
  BY <1>1, <1>3, PlaceKinds DEF NoTable
<1>6. Mapped(p) = {0} /\ Contents(p, 0) = v
  <2>1. Mapped(p) = {0}
    BY <1>4, <1>5, PlaceKinds DEF Mapped
  <2>2. word[NPAGES - 1] = v
    BY <1>1, <1>2
  <2> QED
    BY <2>1, <2>2, <1>4, <1>5, PlaceKinds DEF Contents
<1>7. MemOf(p) = [a \in {0} |-> v]
  BY <1>1, <1>6 DEF MemOf
<1>8. \A q \in Procs \ {p} : MemOf(q) = Private!EmptyMem
  BY <1>1 DEF MemOf, Private!EmptyMem
<1>9. memView = [q \in Procs |-> IF q = p THEN [a \in {0} |-> v] ELSE Private!EmptyMem]
  BY <1>7, <1>8, ViewIs
<1>10. Alive = {p}
  BY <1>1 DEF Alive
<1>11. {0} \in SUBSET VAs
  BY PlaceKinds
<1> QED
  BY <1>9, <1>10, <1>11 DEF Private!Init, Alive

\* Fork, exec, brk, page faults, copy on write and uvm_copyout, over pages
\* that pass from one process to another through the free list, give every
\* process a memory of its own.
THEOREM Refinement == Spec => PrivateSpec
<1>1. IInv /\ IInv' /\ [Next]_vars => [Private!Next]_(Private!vars)
  BY NextMem DEF MemStep
<1> QED
  BY <1>1, InitMem, Invariant, PTL DEF Spec, PrivateSpec, Private!Spec

=============================================================================
