--------------------------- MODULE BufCacheProofs ---------------------------
(***************************************************************************)
(* Theorems about BufCache, for any number of buffers, blocks and          *)
(* sessions: until a scan starts from a stale place, references are exact, *)
(* no used buffer is evicted, the used buffers come first, and memory and  *)
(* disk agree.                                                             *)
(***************************************************************************)
EXTENDS BufCache, FiniteSetTheorems, SequenceTheorems, WellFoundedInduction, TLAPS

-----------------------------------------------------------------------------
(***************************************************************************)
(* Least and greatest elements.                                            *)
(***************************************************************************)
LEMMA LeastNumber ==
    ASSUME NEW S \in SUBSET Nat, S # {}
    PROVE  \E x \in S : \A y \in S : x <= y
<1> DEFINE R == OpToRel(<, Nat)
<1>1. IsWellFoundedOn(R, Nat)
  BY NatLessThanWellFounded
<1> HIDE DEF R
<1>2. PICK x \in S : \A y \in S : ~ (<<y, x>> \in R)
  BY <1>1, WFMin, Zenon
<1>3. \A y \in Nat : y < x => <<y, x>> \in R
  BY DEF OpToRel, R
<1>4. \A y \in S : x \in Nat /\ y \in Nat /\ ~ (y < x)
  BY <1>2, <1>3
<1> QED
  BY <1>4

LEMMA MinIn ==
    ASSUME NEW S \in SUBSET Nat, S # {}
    PROVE  Min(S) \in S
BY LeastNumber DEF Min

LEMMA MaxIn ==
    ASSUME NEW n \in Nat, NEW S \in SUBSET (0..n), S # {}
    PROVE  Max(S) \in S /\ \A y \in S : y <= Max(S)
<1> DEFINE T == {m \in Nat : \A x \in S : x <= m}
<1>1. T \in SUBSET Nat /\ n \in T
  OBVIOUS
<1>2. PICK m \in T : \A y \in T : m <= y
  BY <1>1, LeastNumber
<1>3. m \in Nat /\ \A x \in S : x \in Nat /\ x <= m
  OBVIOUS
<1>4. m \in S
  <2> SUFFICES ASSUME m \notin S PROVE FALSE
    OBVIOUS
  <2>1. \A x \in S : x < m
    BY <1>3
  <2>2. PICK z \in S : z < m
    BY <2>1
  <2>3. m - 1 \in Nat
    BY <1>3, <2>2
  <2>4. m - 1 \in T
    BY <1>3, <2>1, <2>3
  <2> QED
    BY <2>4, <1>2, <1>3
<1> HIDE DEF T
<1>5. \E x \in S : \A y \in S : x >= y
  BY <1>3, <1>4
<1>6. Max(S) \in S /\ \A y \in S : Max(S) >= y
  BY <1>5 DEF Max
<1> QED
  BY <1>6

-----------------------------------------------------------------------------
(***************************************************************************)
(* insert_head: what is where after a node has moved.                      *)
(***************************************************************************)
LEMMA Removed ==
    ASSUME NEW S, NEW l \in Seq(S), NEW p \in 1..Len(l)
    PROVE  /\ RemoveAt(l, p) \in Seq(S)
           /\ Len(RemoveAt(l, p)) = Len(l) - 1
           /\ \A k \in 1..(Len(l) - 1) : RemoveAt(l, p)[k] = IF k < p THEN l[k] ELSE l[k + 1]
<1> DEFINE a == SubSeq(l, 1, p - 1)
           c == SubSeq(l, p + 1, Len(l))
<1>0. Len(l) \in Nat /\ p \in Nat /\ 1 <= p /\ p <= Len(l)
  BY LenProperties
<1>1. /\ a \in Seq(S) /\ Len(a) = p - 1
      /\ \A k \in 1..(p - 1) : a[k] = l[k]
  BY <1>0, SubSeqProperties
<1>2. /\ c \in Seq(S) /\ Len(c) = Len(l) - p
      /\ \A k \in 1..(Len(l) - p) : c[k] = l[p + k]
  BY <1>0, SubSeqProperties
<1>3. RemoveAt(l, p) = a \o c
  BY DEF RemoveAt
<1> HIDE DEF a, c
<1>4. a \o c \in Seq(S) /\ Len(a \o c) = Len(l) - 1
  <2>1. a \o c \in Seq(S) /\ Len(a \o c) = Len(a) + Len(c)
    BY <1>1, <1>2, ConcatProperties
  <2> QED
    BY <2>1, <1>0, <1>1, <1>2
<1>5. ASSUME NEW k \in 1..(Len(l) - 1)
      PROVE  (a \o c)[k] = IF k < p THEN l[k] ELSE l[k + 1]
  <2>1. (a \o c)[k] = IF k <= p - 1 THEN a[k] ELSE c[k - (p - 1)]
    BY <1>0, <1>1, <1>2, ConcatProperties
  <2>2. CASE k < p
    BY <2>1, <2>2, <1>0, <1>1
  <2>3. CASE ~ (k < p)
    <3>1. k - (p - 1) \in 1..(Len(l) - p) /\ p + (k - (p - 1)) = k + 1
      BY <2>3, <1>0
    <3>2. c[k - (p - 1)] = l[p + (k - (p - 1))]
      BY <3>1, <1>2
    <3> QED
      BY <2>1, <2>3, <3>1, <3>2, <1>0
  <2> QED
    BY <2>2, <2>3
<1> QED
  BY <1>3, <1>4, <1>5

LEMMA Joined ==
    ASSUME NEW s \in Seq(Bufs), NEW t \in Seq(Bufs), NEW m, m = s \o t
    PROVE  /\ m \in Seq(Bufs) /\ Len(m) = Len(s) + Len(t)
           /\ \A k \in 1..(Len(s) + Len(t)) : m[k] = IF k <= Len(s) THEN s[k] ELSE t[k - Len(s)]
BY ConcatProperties, Zenon

\* After insert_head(l[p], 1).
AtFront(m, l, p) ==
    /\ m \in Seq(Bufs) /\ Len(m) = Len(l)
    /\ m[1] = l[p]
    /\ \A k \in 2..p : m[k] = l[k - 1]
    /\ \A k \in (p + 1)..Len(l) : m[k] = l[k]

LEMMA MovedToFront ==
    ASSUME NEW l \in Seq(Bufs), NEW p \in 1..Len(l), NEW m,
           m = <<l[p]>> \o RemoveAt(l, p)
    PROVE  AtFront(m, l, p)
<1>0. Len(l) \in Nat /\ p \in Nat /\ 1 <= p /\ p <= Len(l) /\ l[p] \in Bufs
  BY LenProperties
<1> DEFINE r == RemoveAt(l, p)
           h == <<l[p]>>
<1>1. r \in Seq(Bufs) /\ Len(r) = Len(l) - 1
  BY Removed
<1>2. \A k \in 1..(Len(l) - 1) : r[k] = IF k < p THEN l[k] ELSE l[k + 1]
  BY Removed
<1>3. h \in Seq(Bufs) /\ Len(h) = 1 /\ h[1] = l[p]
  BY <1>0
<1>4. m = h \o r
  OBVIOUS
<1> HIDE DEF r, h
<1>5. m \in Seq(Bufs) /\ Len(m) = Len(h) + Len(r)
  BY <1>1, <1>3, <1>4, Joined
<1>6. Len(m) = Len(l)
  BY <1>0, <1>1, <1>3, <1>5
<1>7. ASSUME NEW k \in 1..Len(l)
      PROVE  m[k] = IF k = 1 THEN l[p] ELSE IF k <= p THEN l[k - 1] ELSE l[k]
  <2>0. \A x \in 1..(Len(h) + Len(r)) : m[x] = IF x <= Len(h) THEN h[x] ELSE r[x - Len(h)]
    BY <1>1, <1>3, <1>4, Joined
  <2>1. m[k] = IF k <= 1 THEN h[k] ELSE r[k - 1]
    <3>1. k \in 1..(Len(h) + Len(r))
      BY <1>0, <1>1, <1>3
    <3>2. m[k] = IF k <= Len(h) THEN h[k] ELSE r[k - Len(h)]
      BY <2>0, <3>1
    <3> QED
      BY <3>2, <1>3
  <2>2. CASE k = 1
    BY <2>1, <2>2, <1>3
  <2>3. CASE k # 1
    <3>1. k - 1 \in 1..(Len(l) - 1) /\ (k - 1) + 1 = k /\ ~ (k <= 1)
      BY <2>3, <1>0
    <3>2. r[k - 1] = IF k - 1 < p THEN l[k - 1] ELSE l[(k - 1) + 1]
      BY <3>1, <1>2
    <3>3. k - 1 < p <=> k <= p
      BY <1>0
    <3>4. m[k] = r[k - 1]
      BY <2>1, <3>1
    <3> QED
      BY <2>3, <3>1, <3>2, <3>3, <3>4
  <2> QED
    BY <2>2, <2>3
<1> QED
  BY <1>0, <1>5, <1>6, <1>7 DEF AtFront

\* After insert_head(l[p], 0).
AtBack(m, l, p) ==
    /\ m \in Seq(Bufs) /\ Len(m) = Len(l)
    /\ \A k \in 1..(p - 1) : m[k] = l[k]
    /\ \A k \in p..(Len(l) - 1) : m[k] = l[k + 1]
    /\ m[Len(l)] = l[p]

LEMMA MovedToBack ==
    ASSUME NEW l \in Seq(Bufs), NEW p \in 1..Len(l), NEW m,
           m = RemoveAt(l, p) \o <<l[p]>>
    PROVE  AtBack(m, l, p)
<1>0. Len(l) \in Nat /\ p \in Nat /\ 1 <= p /\ p <= Len(l) /\ l[p] \in Bufs
  BY LenProperties
<1> DEFINE r == RemoveAt(l, p)
           h == <<l[p]>>
<1>1. r \in Seq(Bufs) /\ Len(r) = Len(l) - 1
  BY Removed
<1>2. \A k \in 1..(Len(l) - 1) : r[k] = IF k < p THEN l[k] ELSE l[k + 1]
  BY Removed
<1>3. h \in Seq(Bufs) /\ Len(h) = 1 /\ h[1] = l[p]
  BY <1>0
<1>4. m = r \o h
  OBVIOUS
<1> HIDE DEF r, h
<1>5. m \in Seq(Bufs) /\ Len(m) = Len(r) + Len(h)
  BY <1>1, <1>3, <1>4, Joined
<1>6. Len(m) = Len(l)
  BY <1>0, <1>1, <1>3, <1>5
<1>7. ASSUME NEW k \in 1..Len(l)
      PROVE  m[k] = IF k = Len(l) THEN l[p] ELSE IF k < p THEN l[k] ELSE l[k + 1]
  <2>0. \A x \in 1..(Len(r) + Len(h)) : m[x] = IF x <= Len(r) THEN r[x] ELSE h[x - Len(r)]
    BY <1>1, <1>3, <1>4, Joined
  <2>1. m[k] = IF k <= Len(l) - 1 THEN r[k] ELSE h[k - (Len(l) - 1)]
    <3>1. k \in 1..(Len(r) + Len(h))
      BY <1>0, <1>1, <1>3
    <3>2. m[k] = IF k <= Len(r) THEN r[k] ELSE h[k - Len(r)]
      BY <2>0, <3>1
    <3> QED
      BY <3>2, <1>1
  <2>2. CASE k = Len(l)
    <3>1. k - (Len(l) - 1) = 1 /\ ~ (k <= Len(l) - 1)
      BY <2>2, <1>0
    <3> QED
      BY <3>1, <2>1, <2>2, <1>3
  <2>3. CASE k # Len(l)
    <3>1. k \in 1..(Len(l) - 1) /\ k <= Len(l) - 1
      BY <2>3, <1>0
    <3> QED
      BY <2>1, <2>3, <3>1, <1>2
  <2> QED
    BY <2>2, <2>3
<1> QED
  BY <1>0, <1>5, <1>6, <1>7 DEF AtBack

-----------------------------------------------------------------------------
(***************************************************************************)
(* The list of the cache.                                                  *)
(***************************************************************************)
\* l holds every buffer exactly once.
IsList(l) ==
    /\ l \in Seq(Bufs) /\ Len(l) = Cardinality(Bufs)
    /\ \A b \in Bufs : \E k \in 1..Len(l) : l[k] = b
    /\ \A j, k \in 1..Len(l) : l[j] = l[k] => j = k

\* The buffers with a reference in ref come before the others in l.
InOrder(l, ref) == \A j, k \in 1..Len(l) : j < k /\ ref[l[j]] = 0 => ref[l[k]] = 0

LEMMA ListFacts ==
    ASSUME TypeOK, ListInv
    PROVE  /\ IsList(list) /\ DOMAIN list = 1..Len(list) /\ Len(list) \in Nat \ {0}
           /\ LastBuf \in Bufs /\ Pos(LastBuf) = Len(list)
           /\ \A b \in Bufs : Pos(b) \in 1..Len(list) /\ list[Pos(b)] = b
<1>1. list \in Seq(Bufs) /\ Len(list) \in Nat /\ DOMAIN list = 1..Len(list)
  BY LenProperties DEF TypeOK
<1>2. \A b \in Bufs : \E k \in 1..Len(list) : list[k] = b
  BY <1>1 DEF TypeOK
<1>3. \A b \in Bufs : Pos(b) \in 1..Len(list) /\ list[Pos(b)] = b
  BY <1>1, <1>2 DEF Pos
<1>4. IsList(list)
  BY <1>1, <1>2 DEF IsList, TypeOK, ListInv
<1>5. Len(list) # 0
  BY <1>1, <1>2, BufAssumption
<1>6. LastBuf \in Bufs
  BY <1>1, <1>5 DEF LastBuf
<1>7. Pos(LastBuf) = Len(list)
  BY <1>1, <1>3, <1>4, <1>5, <1>6 DEF LastBuf, IsList
<1> QED
  BY <1>1, <1>3, <1>4, <1>5, <1>6, <1>7

\* Moving a node keeps the list.
LEMMA ListMoved ==
    ASSUME TypeOK, ListInv, NEW b \in Bufs
    PROVE  IsList(ToFront(b)) /\ IsList(ToBack(b))
<1> DEFINE n == Len(list)
<1>p. PICK p \in 1..n : p = Pos(b)
  BY ListFacts
<1>0. /\ IsList(list) /\ list \in Seq(Bufs) /\ n \in Nat \ {0}
      /\ p \in 1..n /\ list[p] = b
  BY <1>p, ListFacts DEF TypeOK
<1>1. PICK f : f = ToFront(b)
  OBVIOUS
<1>2. PICK g : g = ToBack(b)
  OBVIOUS
<1>3. f = <<list[p]>> \o RemoveAt(list, p) /\ g = RemoveAt(list, p) \o <<list[p]>>
  BY <1>p, <1>0, <1>1, <1>2 DEF ToFront, ToBack, Without
<1>4. /\ f \in Seq(Bufs) /\ Len(f) = n
      /\ f[1] = list[p]
      /\ \A k \in 2..p : f[k] = list[k - 1]
      /\ \A k \in (p + 1)..n : f[k] = list[k]
  <2>1. AtFront(f, list, p)
    BY <1>0, <1>3, MovedToFront
  <2> QED
    BY <2>1 DEF AtFront
<1>5. /\ g \in Seq(Bufs) /\ Len(g) = n
      /\ \A k \in 1..(p - 1) : g[k] = list[k]
      /\ \A k \in p..(n - 1) : g[k] = list[k + 1]
      /\ g[n] = list[p]
  <2>1. AtBack(g, list, p)
    BY <1>0, <1>3, MovedToBack
  <2> QED
    BY <2>1 DEF AtBack
<1> HIDE DEF n
<1>6. IsList(f)
  <2>1. ASSUME NEW c \in Bufs PROVE \E k \in 1..n : f[k] = c
    <3>1. PICK k \in 1..n : list[k] = c
      BY <1>0 DEF IsList, n
    <3>2. CASE k = p
      BY <3>1, <3>2, <1>0, <1>4, 1 \in 1..n
    <3>3. CASE k < p
      <4>1. k + 1 \in 1..n /\ f[k + 1] = list[k]
        BY <3>3, <1>0, <1>4
      <4> QED
        BY <3>1, <4>1
    <3>4. CASE k > p
      <4>1. f[k] = list[k]
        BY <3>4, <1>0, <1>4
      <4> QED
        BY <3>1, <4>1
    <3> QED
      BY <3>2, <3>3, <3>4, <1>0
  <2>2. ASSUME NEW j \in 1..n, NEW k \in 1..n, f[j] = f[k] PROVE j = k
    <3>1. \A x, y \in 1..n : list[x] = list[y] => x = y
      BY <1>0 DEF IsList, n
    <3> QED
      BY <2>2, <3>1, <1>0, <1>4
  <2> QED
    BY <2>1, <2>2, <1>0, <1>4 DEF IsList, n
<1>7. IsList(g)
  <2>1. ASSUME NEW c \in Bufs PROVE \E k \in 1..n : g[k] = c
    <3>1. PICK k \in 1..n : list[k] = c
      BY <1>0 DEF IsList, n
    <3>2. CASE k = p
      BY <3>1, <3>2, <1>0, <1>5, n \in 1..n
    <3>3. CASE k < p
      <4>1. g[k] = list[k]
        BY <3>3, <1>0, <1>5
      <4> QED
        BY <3>1, <4>1
    <3>4. CASE k > p
      <4>1. k - 1 \in 1..n /\ (k - 1) + 1 = k /\ g[k - 1] = list[(k - 1) + 1]
        BY <3>4, <1>0, <1>5
      <4> QED
        BY <3>1, <4>1
    <3> QED
      BY <3>2, <3>3, <3>4, <1>0
  <2>2. ASSUME NEW j \in 1..n, NEW k \in 1..n, g[j] = g[k] PROVE j = k
    <3>1. \A x, y \in 1..n : list[x] = list[y] => x = y
      BY <1>0 DEF IsList, n
    <3>2. PICK x \in 1..n : (x = IF j = n THEN p ELSE IF j < p THEN j ELSE j + 1) /\ g[j] = list[x]
      BY <1>0, <1>5
    <3>3. PICK y \in 1..n : (y = IF k = n THEN p ELSE IF k < p THEN k ELSE k + 1) /\ g[k] = list[y]
      BY <1>0, <1>5
    <3>4. x = y
      BY <2>2, <3>1, <3>2, <3>3
    <3> QED
      BY <3>2, <3>3, <3>4, <1>0
  <2> QED
    BY <2>1, <2>2, <1>0, <1>5 DEF IsList, n
<1> QED
  BY <1>1, <1>2, <1>6, <1>7

\* A buffer that is used goes to the front, and one that is not to the back,
\* when the others are in order.
LEMMA OrderMoved ==
    ASSUME TypeOK, ListInv, NEW b \in Bufs, NEW ref,
           InOrder(list, buf_ref), \A c \in Bufs : c # b => ref[c] = buf_ref[c]
    PROVE  /\ ref[b] # 0 => InOrder(ToFront(b), ref)
           /\ ref[b] = 0 => InOrder(ToBack(b), ref)
<1> DEFINE n == Len(list)
<1>p. PICK p \in 1..n : p = Pos(b)
  BY ListFacts
<1>0. /\ IsList(list) /\ list \in Seq(Bufs) /\ n \in Nat \ {0}
      /\ p \in 1..n /\ list[p] = b
  BY <1>p, ListFacts DEF TypeOK
<1>1. PICK f : f = ToFront(b)
  OBVIOUS
<1>2. PICK g : g = ToBack(b)
  OBVIOUS
<1>3. f = <<list[p]>> \o RemoveAt(list, p) /\ g = RemoveAt(list, p) \o <<list[p]>>
  BY <1>p, <1>0, <1>1, <1>2 DEF ToFront, ToBack, Without
<1>4. /\ Len(f) = n
      /\ f[1] = list[p]
      /\ \A k \in 2..p : f[k] = list[k - 1]
      /\ \A k \in (p + 1)..n : f[k] = list[k]
  <2>1. AtFront(f, list, p)
    BY <1>0, <1>3, MovedToFront
  <2> QED
    BY <2>1 DEF AtFront
<1>5. /\ Len(g) = n
      /\ \A k \in 1..(p - 1) : g[k] = list[k]
      /\ \A k \in p..(n - 1) : g[k] = list[k + 1]
      /\ g[n] = list[p]
  <2>1. AtBack(g, list, p)
    BY <1>0, <1>3, MovedToBack
  <2> QED
    BY <2>1 DEF AtBack
<1>6. \A j, k \in 1..n : j < k /\ buf_ref[list[j]] = 0 => buf_ref[list[k]] = 0
  BY DEF InOrder
<1>7. \A k \in 1..n : k # p => ref[list[k]] = buf_ref[list[k]]
  BY <1>0 DEF IsList
<1> HIDE DEF n
<1>8. ASSUME ref[b] # 0, NEW j \in 1..n, NEW k \in 1..n, j < k, ref[f[j]] = 0 PROVE ref[f[k]] = 0
  <2>1. j # 1 /\ k # 1
    BY <1>8, <1>0, <1>4
  <2>2. PICK x \in 1..n, y \in 1..n : x < y /\ x # p /\ y # p /\ f[j] = list[x] /\ f[k] = list[y]
    <3>1. PICK x \in 1..n : (x = IF j <= p THEN j - 1 ELSE j) /\ x # p /\ f[j] = list[x]
      BY <2>1, <1>0, <1>4
    <3>2. PICK y \in 1..n : (y = IF k <= p THEN k - 1 ELSE k) /\ y # p /\ f[k] = list[y]
      BY <2>1, <1>0, <1>4
    <3> QED
      BY <3>1, <3>2, <1>8, <1>0
  <2> QED
    BY <2>2, <1>6, <1>7, <1>8
<1>9. ASSUME ref[b] = 0, NEW j \in 1..n, NEW k \in 1..n, j < k, ref[g[j]] = 0 PROVE ref[g[k]] = 0
  <2>1. CASE k = n
    BY <2>1, <1>9, <1>0, <1>5
  <2>2. CASE k # n
    <3>1. j # n
      BY <1>9, <1>0
    <3>2. PICK x \in 1..n : (x = IF j < p THEN j ELSE j + 1) /\ x # p /\ g[j] = list[x]
      BY <3>1, <1>0, <1>5
    <3>3. PICK y \in 1..n : (y = IF k < p THEN k ELSE k + 1) /\ y # p /\ g[k] = list[y]
      BY <2>2, <1>0, <1>5
    <3>4. x < y
      BY <3>2, <3>3, <1>9, <1>0
    <3> QED
      BY <3>2, <3>3, <3>4, <1>6, <1>7, <1>9
  <2> QED
    BY <2>1, <2>2
<1> QED
  BY <1>1, <1>2, <1>4, <1>5, <1>8, <1>9 DEF InOrder

-----------------------------------------------------------------------------
(***************************************************************************)
(* The scan.                                                               *)
(***************************************************************************)
LEMMA ConstantFacts ==
    /\ NULL \notin Bufs /\ NULL \notin Blocks /\ NULL \notin Sessions
    /\ WRAP \in Nat \ {0} /\ 0 \in 0..(WRAP - 1)
<1>1. Cardinality(Sessions) \in Nat
  BY BufAssumption, FS_CardinalityType
<1> QED
  BY <1>1, BufAssumption

LEMMA UsersFinite ==
    ASSUME NEW S \in SUBSET Sessions
    PROVE  IsFiniteSet(S) /\ Cardinality(S) \in 0..(WRAP - 1)
<1>1. IsFiniteSet(S) /\ Cardinality(S) <= Cardinality(Sessions)
  BY BufAssumption, FS_Subset
<1>2. Cardinality(S) \in Nat /\ Cardinality(Sessions) \in Nat
  BY <1>1, BufAssumption, FS_CardinalityType
<1> QED
  BY <1>1, <1>2, BufAssumption

\* Where the walk stops: at a used buffer or at the head, with none in use
\* between there and its start.
LEMMA StopFacts ==
    ASSUME TypeOK, ListInv, NEW s \in Sessions, start[s] \in Bufs
    PROVE  /\ Stop(s) \in 0..Pos(start[s])
           /\ Stop(s) > 0 => buf_ref[list[Stop(s)]] > 0
           /\ \A k \in 1..Pos(start[s]) : buf_ref[list[k]] > 0 => k <= Stop(s)
<1> DEFINE n == Pos(start[s])
           S == {0} \cup {k \in 1..n : buf_ref[list[k]] > 0}
<1>1. n \in Nat
  BY ListFacts
<1> HIDE DEF n
<1>2. S \in SUBSET (0..n) /\ S # {}
  BY <1>1
<1>3. Stop(s) = Max(S)
  BY DEF Stop, n
<1>4. Stop(s) \in S /\ \A y \in S : y <= Stop(s)
  BY <1>1, <1>2, <1>3, MaxIn
<1>5. Stop(s) \in 0..n /\ (Stop(s) > 0 => buf_ref[list[Stop(s)]] > 0)
  BY <1>1, <1>4
<1>6. \A k \in 1..n : buf_ref[list[k]] > 0 => k <= Stop(s)
  BY <1>4
<1> QED
  BY <1>5, <1>6 DEF n

\* A hit is a buffer of the block that was asked for.
LEMMA HitFacts ==
    ASSUME TypeOK, ListInv, NEW s \in Sessions, start[s] \in Bufs, Near(s) \cup Far(s) # {},
           NEW b, b = list[IF Near(s) # {} THEN Max(Near(s)) ELSE Min(Far(s))]
    PROVE  b \in Bufs /\ block_num[b] = want[s]
<1>0. Pos(start[s]) \in 1..Len(list) /\ Len(list) \in Nat /\ list \in [1..Len(list) -> Bufs]
  <2>1. list \in [1..Len(list) -> Bufs]
    BY LenProperties DEF TypeOK
  <2> QED
    BY <2>1, ListFacts
<1>1. Stop(s) \in 0..Pos(start[s])
  BY StopFacts
<1>2. CASE Near(s) # {}
  <2>1. Near(s) \in SUBSET (0..Len(list))
    BY <1>0, <1>1 DEF Near
  <2>2. Max(Near(s)) \in Near(s)
    BY <1>0, <1>2, <2>1, MaxIn
  <2>3. Max(Near(s)) \in 1..Len(list) /\ block_num[list[Max(Near(s))]] = want[s]
    BY <1>0, <1>1, <2>2 DEF Near
  <2> QED
    BY <1>0, <1>2, <2>3
<1>3. CASE Near(s) = {}
  <2>1. Far(s) \in SUBSET Nat /\ Far(s) # {}
    BY <1>3 DEF Far
  <2>2. Min(Far(s)) \in Far(s)
    BY <2>1, MinIn
  <2>3. Min(Far(s)) \in 1..Len(list) /\ block_num[list[Min(Far(s))]] = want[s]
    BY <1>0, <1>1, <2>2 DEF Far
  <2> QED
    BY <1>0, <1>3, <2>3
<1> QED
  BY <1>2, <1>3

\* A miss from the end of the list: no buffer stands for the block, those up
\* to the stop are in use and the others are not.
LEMMA MissFacts ==
    ASSUME TypeOK, ListInv, InOrder(list, buf_ref), NEW s \in Sessions,
           start[s] = LastBuf, Near(s) \cup Far(s) = {}
    PROVE  /\ Stop(s) \in 0..Len(list)
           /\ \A c \in Bufs : block_num[c] # want[s]
           /\ \A k \in 1..Len(list) : buf_ref[list[k]] > 0 <=> k <= Stop(s)
<1>0. /\ IsList(list) /\ Len(list) \in Nat \ {0} /\ start[s] \in Bufs /\ Pos(start[s]) = Len(list)
      /\ list \in [1..Len(list) -> Bufs]
  <2>1. list \in [1..Len(list) -> Bufs]
    BY LenProperties DEF TypeOK
  <2> QED
    BY <2>1, ListFacts
<1>1. /\ Stop(s) \in 0..Len(list)
      /\ Stop(s) > 0 => buf_ref[list[Stop(s)]] > 0
      /\ \A k \in 1..Len(list) : buf_ref[list[k]] > 0 => k <= Stop(s)
  BY <1>0, StopFacts
<1>2. \A k \in 1..Len(list) : block_num[list[k]] # want[s]
  BY <1>0, <1>1 DEF Near, Far
<1>3. \A c \in Bufs : block_num[c] # want[s]
  BY <1>0, <1>2 DEF IsList
<1>4. ASSUME NEW k \in 1..Len(list), k <= Stop(s) PROVE buf_ref[list[k]] > 0
  <2>1. Stop(s) \in 1..Len(list) /\ buf_ref[list[Stop(s)]] # 0
    BY <1>0, <1>1, <1>4
  <2>2. buf_ref[list[k]] # 0
    BY <2>1, <1>4, <1>0 DEF InOrder
  <2>3. buf_ref[list[k]] \in Nat
    BY <1>0 DEF TypeOK
  <2> QED
    BY <2>2, <2>3
<1> QED
  BY <1>1, <1>3, <1>4

-----------------------------------------------------------------------------
(***************************************************************************)
(* The invariant is inductive: one lemma per action.                       *)
(***************************************************************************)
\* The parts of the invariant that hold until a scan has started from a stale
\* place.
Counted == \A b \in Bufs : buf_ref[b] = Cardinality(Users(b))
Unique == \A b, c \in Bufs : block_num[b] = block_num[c] /\ b # c => block_num[b] = NULL
PanicFull == (\E s \in Sessions : pc[s] = "panic") => \A b \in Bufs : buf_ref[b] > 0
Agree ==
    \A b \in Bufs :
        \/ block_num[b] = NULL
        \/ data[b] = disk[block_num[b]]
        \/ \E s \in Users(b) : pc[s] \in {"lock_fill", "fill", "dirty"}

LEMMA Unraced ==
    ASSUME TypeOK
    PROVE  IInv <=> /\ ListInv /\ SessionInv
                    /\ ~ raced => Counted /\ Unique /\ EvictsUnused
                                  /\ InOrder(list, buf_ref) /\ PanicFull /\ Agree
<1>1. DOMAIN list = 1..Len(list)
  BY LenProperties DEF TypeOK
<1> QED
  BY <1>1 DEF IInv, Owned, UsedFirst, Coherent, Counted, Unique, InOrder, PanicFull, Agree

LEMMA UnracedNext ==
    ASSUME TypeOK', ListInv', SessionInv',
           ~ raced' => Counted' /\ Unique' /\ EvictsUnused'
                       /\ InOrder(list', buf_ref') /\ PanicFull' /\ Agree'
    PROVE  IInv'
<1>1. DOMAIN list' = 1..Len(list')
  BY LenProperties DEF TypeOK
<1> QED
  BY <1>1 DEF IInv, Owned, UsedFirst, Coherent, Counted, Unique, InOrder, PanicFull, Agree

LEMMA TypeOfInv ==
    ASSUME IInv
    PROVE  /\ TypeOK /\ ListInv /\ SessionInv
           /\ ~ raced => Counted /\ Unique /\ EvictsUnused
                         /\ InOrder(list, buf_ref) /\ PanicFull /\ Agree
<1>1. TypeOK
  BY DEF IInv, Owned
<1> QED
  BY <1>1, Unraced

LEMMA InitInv == Init => IInv
<1> SUFFICES ASSUME Init PROVE IInv
  OBVIOUS
<1> USE ConstantFacts DEF Init
<1>0. Cardinality(Bufs) \in Nat
  BY BufAssumption, FS_CardinalityType
<1> DEFINE n == Cardinality(Bufs)
<1>1. list \in [1..n -> Bufs] /\ \A b \in Bufs : \E k \in 1..n : list[k] = b
  OBVIOUS
<1>2. list \in Seq(Bufs) /\ Len(list) = n
  <2>0. list \in UNION {[1..k -> Bufs] : k \in Nat}
    BY <1>0, <1>1
  <2>1. list \in Seq(Bufs)
    BY <2>0, SeqDef, Zenon
  <2>2. DOMAIN list = 1..Len(list) /\ DOMAIN list = 1..n /\ Len(list) \in Nat
    BY <2>1, <1>1, LenProperties
  <2> QED
    BY <2>1, <2>2, <1>0
<1>3. TypeOK
  BY <1>1, <1>2 DEF TypeOK, Labels
<1>4. ListInv
  <2>1. IsFiniteSet(1..n) /\ Cardinality(1..n) = n
    <3>1. 1 \in Int /\ n \in Int
      BY <1>0
    <3>2. IsFiniteSet(1..n) /\ Cardinality(1..n) = IF 1 > n THEN 0 ELSE n - 1 + 1
      BY <3>1, FS_Interval
    <3> QED
      BY <3>2, <1>0
  <2>2. list \in Surjection(1..n, Bufs)
    BY <1>1 DEF Surjection
  <2>3. list \in Injection(1..n, Bufs)
    BY <2>1, <2>2, BufAssumption, FS_SurjSameCardinalityImpliesInj
  <2> QED
    BY <2>3, <1>1 DEF Injection, IsInjective, ListInv
<1>5. SessionInv
  BY DEF SessionInv
<1>6. Counted
  <2>1. \A b \in Bufs : Users(b) = {}
    BY DEF Users
  <2> QED
    BY <2>1, FS_EmptySet DEF Counted
<1>7. Unique /\ EvictsUnused /\ PanicFull /\ Agree
  BY DEF Unique, EvictsUnused, PanicFull, Agree
<1>8. InOrder(list, buf_ref)
  BY <1>1, <1>2 DEF InOrder
<1> QED
  BY <1>3, <1>4, <1>5, <1>6, <1>7, <1>8, Unraced

\* A session between its scan and the end of buf_release has a buffer.
LEMMA HasTarget ==
    ASSUME TypeOK, SessionInv, NEW s \in Sessions, pc[s] \notin {"idle", "start", "panic"}
    PROVE  target[s] \in Bufs /\ block_num[target[s]] \in Blocks
<1>1. target[s] # NULL
  BY DEF SessionInv
<1>2. target[s] \in Bufs /\ block_num[target[s]] # NULL
  BY <1>1 DEF SessionInv, TypeOK
<1> QED
  BY <1>2 DEF TypeOK

\* Steps that leave the cache and the targets alone.
LEMMA SameCache ==
    ASSUME IInv, UNCHANGED <<cache, target>>, raced' = raced
    PROVE  /\ ListInv'
           /\ ~ raced' => Counted' /\ Unique' /\ InOrder(list', buf_ref')
<1>1. /\ ListInv
      /\ ~ raced => Counted /\ Unique /\ InOrder(list, buf_ref)
  BY TypeOfInv
<1>2. \A b \in Bufs : Users(b)' = Users(b)
  BY DEF Users
<1> QED
  BY <1>1, <1>2 DEF cache, ListInv, Counted, Unique

\* A session asks for a block and reads head_buf.prev.
LEMMA buf_read_Step ==
    ASSUME IInv, NEW s \in Sessions, NEW blk \in Blocks, buf_read(s, blk)
    PROVE  IInv'
<1> USE ConstantFacts DEF buf_read, Goto, cache
<1>0. /\ TypeOK /\ ListInv /\ SessionInv
      /\ ~ raced => EvictsUnused /\ PanicFull /\ Agree
  BY TypeOfInv
<1>1. LastBuf \in Bufs
  BY <1>0, ListFacts
<1>2. TypeOK'
  BY <1>0, <1>1 DEF TypeOK, Labels
<1>3. ListInv' /\ (~ raced' => Counted' /\ Unique' /\ InOrder(list', buf_ref'))
  BY SameCache
<1>4. SessionInv'
  BY <1>0, <1>1 DEF TypeOK, SessionInv
<1>5. EvictsUnused => EvictsUnused'
  BY <1>0 DEF TypeOK, SessionInv, EvictsUnused
<1>6. PanicFull => PanicFull'
  BY <1>0 DEF TypeOK, PanicFull
<1>7. Agree => Agree'
  <2>1. ASSUME NEW b \in Bufs, \E x \in Users(b) : pc[x] \in {"lock_fill", "fill", "dirty"}
        PROVE  \E x \in Users(b)' : pc'[x] \in {"lock_fill", "fill", "dirty"}
    BY <2>1, <1>0 DEF Users, TypeOK
  <2> QED
    BY <2>1 DEF Agree
<1> QED
  BY <1>0, <1>2, <1>3, <1>4, <1>5, <1>6, <1>7, UnracedNext

\* The walk finds the block: its buffer goes to the front with one more user.
LEMMA ScanHit_Step ==
    ASSUME IInv, NEW s \in Sessions, ScanHit(s)
    PROVE  IInv'
<1> USE ConstantFacts DEF Goto
<1>0. /\ TypeOK /\ ListInv /\ SessionInv
      /\ ~ raced => Counted /\ Unique /\ EvictsUnused /\ InOrder(list, buf_ref) /\ PanicFull /\ Agree
  BY TypeOfInv
<1>1. PICK b : b = list[IF Near(s) # {} THEN Max(Near(s)) ELSE Min(Far(s))]
  OBVIOUS
<1>2. /\ pc[s] = "start" /\ CacheLock
      /\ Near(s) \cup Far(s) # {}
      /\ target' = [target EXCEPT ![s] = b]
      /\ list' = ToFront(b)
      /\ buf_ref' = [buf_ref EXCEPT ![b] = (@ + 1) % WRAP]
      /\ raced' = (raced \/ start[s] # LastBuf)
      /\ start' = [start EXCEPT ![s] = NULL]
      /\ pc' = [pc EXCEPT ![s] = "lock"]
      /\ UNCHANGED <<block_num, slk, data, disk, want>>
  BY <1>1 DEF ScanHit, Scanned
<1>3. target[s] = NULL /\ start[s] \in Bufs /\ want[s] \in Blocks
  BY <1>0, <1>2 DEF SessionInv, TypeOK
<1>4. b \in Bufs /\ block_num[b] = want[s]
  BY <1>0, <1>1, <1>2, <1>3, HitFacts
<1>5. IsList(list')
  BY <1>0, <1>2, <1>4, ListMoved
<1>6. /\ list' \in Seq(Bufs) /\ Len(list') = Cardinality(Bufs) /\ DOMAIN list' = 1..Len(list')
      /\ ListInv'
  BY <1>5, LenProperties DEF IsList, ListInv
<1>7. buf_ref' \in [Bufs -> 0..(WRAP - 1)]
  BY <1>0, <1>2, <1>4 DEF TypeOK
<1>8. TypeOK'
  BY <1>0, <1>2, <1>4, <1>5, <1>6, <1>7 DEF TypeOK, Labels, IsList
<1>9. SessionInv'
  BY <1>0, <1>2, <1>3, <1>4 DEF TypeOK, SessionInv
<1>10. ASSUME ~ raced' PROVE Counted' /\ Unique' /\ EvictsUnused' /\ InOrder(list', buf_ref') /\ PanicFull' /\ Agree'
  <2>0. ~ raced /\ Counted /\ Unique /\ EvictsUnused /\ InOrder(list, buf_ref) /\ PanicFull /\ Agree
    BY <1>0, <1>2, <1>10
  <2>1. /\ Users(b)' = Users(b) \cup {s} /\ s \notin Users(b)
        /\ \A c \in Bufs : c # b => Users(c)' = Users(c)
    BY <1>0, <1>2, <1>3, <1>4 DEF Users, TypeOK
  <2>2. buf_ref[b] = Cardinality(Users(b)) /\ buf_ref'[b] = Cardinality(Users(b)) + 1
        /\ Cardinality(Users(b)') = Cardinality(Users(b)) + 1
    <3>1. Users(b) \in SUBSET Sessions /\ Users(b)' \in SUBSET Sessions
      BY DEF Users
    <3>2. /\ IsFiniteSet(Users(b)) /\ Cardinality(Users(b)) \in 0..(WRAP - 1)
          /\ Cardinality(Users(b)') \in 0..(WRAP - 1)
      BY <3>1, UsersFinite
    <3>3. Cardinality(Users(b)') = Cardinality(Users(b)) + 1
      BY <2>1, <3>2, FS_AddElement
    <3>4. buf_ref[b] = Cardinality(Users(b))
      BY <2>0, <1>4 DEF Counted
    <3>5. (buf_ref[b] + 1) % WRAP = buf_ref[b] + 1
      BY <3>2, <3>3, <3>4
    <3> QED
      BY <3>3, <3>4, <3>5, <1>0, <1>2, <1>4 DEF TypeOK
  <2>3. \A c \in Bufs : c # b => buf_ref'[c] = buf_ref[c]
    BY <1>0, <1>2, <1>4 DEF TypeOK
  <2>4. Counted'
    BY <2>0, <2>1, <2>2, <2>3 DEF Counted
  <2>5. Unique' /\ EvictsUnused'
    BY <2>0, <1>0, <1>2, <1>4 DEF Unique, EvictsUnused, TypeOK
  <2>6. InOrder(list', buf_ref')
    <3>1. buf_ref'[b] # 0
      <4>1. Cardinality(Users(b)) \in Nat
        BY UsersFinite, Users(b) \in SUBSET Sessions DEF Users
      <4> QED
        BY <4>1, <2>2
    <3>2. InOrder(ToFront(b), buf_ref')
      BY <3>1, <2>0, <2>3, <1>0, <1>4, OrderMoved
    <3> QED
      BY <3>2, <1>2
  <2>7. PanicFull'
    BY <1>0, <1>2 DEF PanicFull, CacheLock, TypeOK
  <2>8. Agree'
    <3>1. ASSUME NEW c \in Bufs, \E x \in Users(c) : pc[x] \in {"lock_fill", "fill", "dirty"}
          PROVE  \E x \in Users(c)' : pc'[x] \in {"lock_fill", "fill", "dirty"}
      BY <3>1, <1>0, <1>2, <1>3 DEF Users, TypeOK
    <3> QED
      BY <3>1, <2>0, <1>2 DEF Agree
  <2> QED
    BY <2>4, <2>5, <2>6, <2>7, <2>8
<1> QED
  BY <1>6, <1>8, <1>9, <1>10, UnracedNext

\* The walk does not find the block: when it started from the end of the list,
\* the buffer it renames has no user and no other buffer stands for the block.
LEMMA ScanMiss_Step ==
    ASSUME IInv, NEW s \in Sessions, ScanMiss(s)
    PROVE  IInv'
<1> USE ConstantFacts DEF Goto
<1>0. /\ TypeOK /\ ListInv /\ SessionInv
      /\ ~ raced => Counted /\ Unique /\ EvictsUnused /\ InOrder(list, buf_ref) /\ PanicFull /\ Agree
  BY TypeOfInv
<1>1. PICK b : b = list[Stop(s) + 1]
  OBVIOUS
<1>2. /\ pc[s] = "start" /\ CacheLock
      /\ Near(s) \cup Far(s) = {} /\ Stop(s) < Len(list)
      /\ target' = [target EXCEPT ![s] = b]
      /\ buf_ref' = [buf_ref EXCEPT ![b] = 1]
      /\ block_num' = [block_num EXCEPT ![b] = want[s]]
      /\ raced' = (raced \/ start[s] # LastBuf)
      /\ start' = [start EXCEPT ![s] = NULL]
      /\ pc' = [pc EXCEPT ![s] = "lock_fill"]
      /\ UNCHANGED <<list, slk, data, disk, want>>
  BY <1>1 DEF ScanMiss, Scanned
<1>3. target[s] = NULL /\ start[s] \in Bufs /\ want[s] \in Blocks
  BY <1>0, <1>2 DEF SessionInv, TypeOK
<1>4. Stop(s) \in Nat /\ Stop(s) + 1 \in 1..Len(list) /\ b \in Bufs /\ Len(list) \in Nat
  <2>1. Pos(start[s]) \in 1..Len(list) /\ Len(list) \in Nat /\ list \in [1..Len(list) -> Bufs]
    <3>1. list \in [1..Len(list) -> Bufs]
      BY <1>0, LenProperties DEF TypeOK
    <3> QED
      BY <3>1, <1>0, <1>3, ListFacts
  <2>2. Stop(s) \in 0..Pos(start[s])
    BY <1>0, <1>3, StopFacts
  <2> QED
    BY <2>1, <2>2, <1>1, <1>2
<1>5. ListInv'
  BY <1>0, <1>2 DEF ListInv
<1>6. 1 \in 0..(WRAP - 1)
  <2>1. Sessions \in SUBSET Sessions /\ {s} \in SUBSET Sessions /\ Cardinality({s}) = 1
    BY FS_Singleton
  <2> QED
    BY <2>1, UsersFinite
<1>7. TypeOK'
  BY <1>0, <1>2, <1>3, <1>4, <1>6 DEF TypeOK, Labels
<1>8. SessionInv'
  BY <1>0, <1>2, <1>3, <1>4 DEF TypeOK, SessionInv
<1>9. ASSUME ~ raced' PROVE Counted' /\ Unique' /\ EvictsUnused' /\ InOrder(list', buf_ref') /\ PanicFull' /\ Agree'
  <2>0. /\ ~ raced /\ Counted /\ Unique /\ EvictsUnused /\ InOrder(list, buf_ref) /\ PanicFull /\ Agree
        /\ start[s] = LastBuf
    BY <1>0, <1>2, <1>9
  <2>1. /\ \A c \in Bufs : block_num[c] # want[s]
        /\ \A k \in 1..Len(list) : buf_ref[list[k]] > 0 <=> k <= Stop(s)
    BY <2>0, <1>0, <1>2, MissFacts
  <2>2. buf_ref[b] = 0
    <3>1. ~ (buf_ref[b] > 0)
      BY <2>1, <1>1, <1>4
    <3> QED
      BY <3>1, <1>0, <1>4 DEF TypeOK
  <2>3. Users(b) = {}
    <3>1. IsFiniteSet(Users(b)) /\ Cardinality(Users(b)) = 0
      BY <2>0, <2>2, <1>4, UsersFinite, Users(b) \in SUBSET Sessions DEF Users, Counted
    <3> QED
      BY <3>1, FS_EmptySet
  <2>4. Users(b)' = {s} /\ \A c \in Bufs : c # b => Users(c)' = Users(c)
    BY <2>3, <1>0, <1>2, <1>3, <1>4 DEF Users, TypeOK
  <2>5. buf_ref'[b] = 1 /\ \A c \in Bufs : c # b => buf_ref'[c] = buf_ref[c]
    BY <1>0, <1>2, <1>4 DEF TypeOK
  <2>6. Counted'
    <3>1. Cardinality({s}) = 1
      BY FS_Singleton
    <3> QED
      BY <3>1, <2>0, <2>4, <2>5 DEF Counted
  <2>7. Unique'
    BY <2>0, <2>1, <1>0, <1>2, <1>4 DEF Unique, TypeOK
  <2>8. EvictsUnused'
    <3>1. \A x \in Sessions : x # s => target'[x] = target[x] /\ target[x] # b
      BY <2>3, <1>0, <1>2 DEF Users, TypeOK
    <3> QED
      BY <3>1, <2>0, <1>0, <1>2, <1>3, <1>4 DEF EvictsUnused, TypeOK
  <2>9. InOrder(list', buf_ref')
    <3>1. \A k \in 1..Len(list) : list[k] = b => k = Stop(s) + 1
      BY <1>0, <1>1, <1>4, ListFacts DEF IsList
    <3>2. \A k \in 1..Len(list) : list[k] \in Bufs
      BY <1>0, LenProperties DEF TypeOK
    <3>3. \A k \in 1..Len(list) : buf_ref'[list[k]] = 0 <=> k > Stop(s) + 1
      <4> TAKE k \in 1..Len(list)
      <4>1. CASE list[k] = b
        BY <4>1, <3>1, <2>5, <1>4
      <4>2. CASE list[k] # b
        <5>1. k # Stop(s) + 1
          BY <4>2, <1>1
        <5>2. buf_ref'[list[k]] = buf_ref[list[k]] /\ buf_ref[list[k]] \in Nat
          BY <4>2, <3>2, <2>5, <1>0 DEF TypeOK
        <5>3. buf_ref[list[k]] > 0 <=> k <= Stop(s)
          BY <2>1
        <5> QED
          BY <5>1, <5>2, <5>3, <1>4
      <4> QED
        BY <4>1, <4>2
    <3>4. list' = list
      BY <1>2
    <3> QED
      BY <3>3, <3>4, <1>4 DEF InOrder
  <2>10. PanicFull'
    BY <1>0, <1>2 DEF PanicFull, CacheLock, TypeOK
  <2>11. Agree'
    <3>1. ASSUME NEW c \in Bufs, \E x \in Users(c) : pc[x] \in {"lock_fill", "fill", "dirty"}
          PROVE  \E x \in Users(c)' : pc'[x] \in {"lock_fill", "fill", "dirty"}
      BY <3>1, <1>0, <1>2, <1>3 DEF Users, TypeOK
    <3>2. s \in Users(b)' /\ pc'[s] = "lock_fill"
      BY <2>4, <1>0, <1>2 DEF TypeOK
    <3>3. \A c \in Bufs : c # b => block_num'[c] = block_num[c]
      BY <1>0, <1>2, <1>4 DEF TypeOK
    <3> QED
      BY <3>1, <3>2, <3>3, <2>0, <1>2 DEF Agree
  <2> QED
    BY <2>6, <2>7, <2>8, <2>9, <2>10, <2>11
<1> QED
  BY <1>5, <1>7, <1>8, <1>9, UnracedNext

\* No buffer is left: when the walk started from the end of the list, every
\* buffer is in use.
LEMMA ScanPanic_Step ==
    ASSUME IInv, NEW s \in Sessions, ScanPanic(s)
    PROVE  IInv'
<1> USE ConstantFacts DEF Goto
<1>0. /\ TypeOK /\ ListInv /\ SessionInv
      /\ ~ raced => Counted /\ Unique /\ EvictsUnused /\ InOrder(list, buf_ref) /\ PanicFull /\ Agree
  BY TypeOfInv
<1>1. /\ pc[s] = "start"
      /\ Near(s) \cup Far(s) = {} /\ Stop(s) = Len(list)
      /\ raced' = (raced \/ start[s] # LastBuf)
      /\ start' = [start EXCEPT ![s] = NULL]
      /\ pc' = [pc EXCEPT ![s] = "panic"]
      /\ UNCHANGED <<list, buf_ref, block_num, slk, data, disk, want, target>>
  BY DEF ScanPanic, Scanned, cache
<1>2. target[s] = NULL
  BY <1>0, <1>1 DEF SessionInv, TypeOK
<1>3. TypeOK'
  BY <1>0, <1>1 DEF TypeOK, Labels
<1>4. ListInv'
  BY <1>0, <1>1 DEF ListInv
<1>5. SessionInv'
  BY <1>0, <1>1, <1>2 DEF TypeOK, SessionInv
<1>6. ASSUME ~ raced' PROVE Counted' /\ Unique' /\ EvictsUnused' /\ InOrder(list', buf_ref') /\ PanicFull' /\ Agree'
  <2>0. /\ Counted /\ Unique /\ EvictsUnused /\ InOrder(list, buf_ref) /\ Agree
        /\ start[s] = LastBuf
    BY <1>0, <1>1, <1>6
  <2>1. \A c \in Bufs : Users(c)' = Users(c)
    BY <1>1 DEF Users
  <2>2. Counted' /\ Unique' /\ EvictsUnused' /\ InOrder(list', buf_ref')
    BY <2>0, <2>1, <1>1 DEF Counted, Unique, EvictsUnused
  <2>3. PanicFull'
    <3>1. \A k \in 1..Len(list) : buf_ref[list[k]] > 0 <=> k <= Stop(s)
      BY <2>0, <1>0, <1>1, MissFacts
    <3>2. Len(list) \in Nat /\ \A b \in Bufs : \E k \in 1..Len(list) : list[k] = b
      BY <1>0, ListFacts DEF IsList
    <3>3. \A b \in Bufs : buf_ref[b] > 0
      BY <3>1, <3>2, <1>1
    <3> QED
      BY <3>3, <1>1 DEF PanicFull
  <2>4. Agree'
    <3>1. ASSUME NEW c \in Bufs, \E x \in Users(c) : pc[x] \in {"lock_fill", "fill", "dirty"}
          PROVE  \E x \in Users(c)' : pc'[x] \in {"lock_fill", "fill", "dirty"}
      BY <3>1, <2>1, <1>0, <1>1, <1>2 DEF Users, TypeOK
    <3> QED
      BY <3>1, <2>0, <1>1 DEF Agree
  <2> QED
    BY <2>2, <2>3, <2>4
<1> QED
  BY <1>3, <1>4, <1>5, <1>6, UnracedNext

\* The sleep lock of the buffer is taken.
LEMMA LockTarget_Step ==
    ASSUME IInv, NEW s \in Sessions, LockTarget(s)
    PROVE  IInv'
<1> USE ConstantFacts DEF LockTarget, Goto, cache, locals
<1>0. /\ TypeOK /\ ListInv /\ SessionInv
      /\ ~ raced => EvictsUnused /\ PanicFull /\ Agree
  BY TypeOfInv
<1>1. target[s] \in Bufs
  BY <1>0, HasTarget
<1>2. TypeOK'
  BY <1>0, <1>1 DEF TypeOK, Labels
<1>3. ListInv' /\ (~ raced' => Counted' /\ Unique' /\ InOrder(list', buf_ref'))
  BY SameCache
<1>4. SessionInv'
  BY <1>0, <1>1 DEF TypeOK, SessionInv
<1>5. EvictsUnused => EvictsUnused'
  BY DEF EvictsUnused
<1>6. PanicFull => PanicFull'
  BY <1>0 DEF TypeOK, PanicFull
<1>7. Agree => Agree'
  <2>1. ASSUME NEW b \in Bufs, \E x \in Users(b) : pc[x] \in {"lock_fill", "fill", "dirty"}
        PROVE  \E x \in Users(b)' : pc'[x] \in {"lock_fill", "fill", "dirty"}
    BY <2>1, <1>0 DEF Users, TypeOK
  <2> QED
    BY <2>1 DEF Agree
<1> QED
  BY <1>0, <1>2, <1>3, <1>4, <1>5, <1>6, <1>7, UnracedNext

\* The block is read: memory and disk agree on it.
LEMMA Fill_Step ==
    ASSUME IInv, NEW s \in Sessions, Fill(s)
    PROVE  IInv'
<1> USE ConstantFacts DEF Fill, Goto, cache, locals
<1>0. /\ TypeOK /\ ListInv /\ SessionInv
      /\ ~ raced => EvictsUnused /\ PanicFull /\ Agree
  BY TypeOfInv
<1>1. target[s] \in Bufs /\ block_num[target[s]] \in Blocks
  BY <1>0, HasTarget
<1>2. TypeOK'
  BY <1>0, <1>1 DEF TypeOK, Labels
<1>3. ListInv' /\ (~ raced' => Counted' /\ Unique' /\ InOrder(list', buf_ref'))
  BY SameCache
<1>4. SessionInv'
  BY <1>0, <1>1 DEF TypeOK, SessionInv
<1>5. EvictsUnused => EvictsUnused'
  BY DEF EvictsUnused
<1>6. PanicFull => PanicFull'
  BY <1>0 DEF TypeOK, PanicFull
<1>7. Agree => Agree'
  <2>1. ASSUME Agree, NEW b \in Bufs
        PROVE  \/ block_num[b] = NULL
               \/ data'[b] = disk[block_num[b]]
               \/ \E x \in Users(b)' : pc'[x] \in {"lock_fill", "fill", "dirty"}
    <3>1. CASE b = target[s]
      BY <3>1, <1>0 DEF TypeOK
    <3>2. CASE b # target[s]
      <4>1. data'[b] = data[b]
        BY <3>2, <1>0 DEF TypeOK
      <4>2. ASSUME NEW x \in Users(b), pc[x] \in {"lock_fill", "fill", "dirty"}
            PROVE  x \in Users(b)' /\ pc'[x] \in {"lock_fill", "fill", "dirty"}
        BY <4>2, <3>2, <1>0 DEF Users, TypeOK
      <4> QED
        BY <4>1, <4>2, <2>1 DEF Agree
    <3> QED
      BY <3>1, <3>2
  <2> QED
    BY <2>1 DEF Agree
<1> QED
  BY <1>0, <1>2, <1>3, <1>4, <1>5, <1>6, <1>7, UnracedNext

\* The holder of the sleep lock changes the data and has yet to write them.
LEMMA SetData_Step ==
    ASSUME IInv, NEW s \in Sessions, NEW v \in Vals, SetData(s, v)
    PROVE  IInv'
<1> USE ConstantFacts DEF SetData, Goto, cache, locals
<1>0. /\ TypeOK /\ ListInv /\ SessionInv
      /\ ~ raced => EvictsUnused /\ PanicFull /\ Agree
  BY TypeOfInv
<1>1. target[s] \in Bufs /\ block_num[target[s]] \in Blocks
  BY <1>0, HasTarget
<1>2. TypeOK'
  BY <1>0, <1>1 DEF TypeOK, Labels
<1>3. ListInv' /\ (~ raced' => Counted' /\ Unique' /\ InOrder(list', buf_ref'))
  BY SameCache
<1>4. SessionInv'
  BY <1>0, <1>1 DEF TypeOK, SessionInv
<1>5. EvictsUnused => EvictsUnused'
  BY DEF EvictsUnused
<1>6. PanicFull => PanicFull'
  BY <1>0 DEF TypeOK, PanicFull
<1>7. ASSUME Agree PROVE Agree'
  <2>1. ASSUME NEW b \in Bufs
        PROVE  \/ block_num[b] = NULL
               \/ data'[b] = disk[block_num[b]]
               \/ \E x \in Users(b)' : pc'[x] \in {"lock_fill", "fill", "dirty"}
    <3>1. CASE b = target[s]
      <4>1. s \in Users(b)' /\ pc'[s] = "dirty"
        BY <3>1, <1>0 DEF Users, TypeOK
      <4> QED
        BY <4>1
    <3>2. CASE b # target[s]
      <4>1. data'[b] = data[b]
        BY <3>2, <1>0 DEF TypeOK
      <4>2. ASSUME NEW x \in Users(b), pc[x] \in {"lock_fill", "fill", "dirty"}
            PROVE  x \in Users(b)' /\ pc'[x] \in {"lock_fill", "fill", "dirty"}
        BY <4>2, <3>2, <1>0 DEF Users, TypeOK
      <4> QED
        BY <4>1, <4>2, <1>7 DEF Agree
    <3> QED
      BY <3>1, <3>2
  <2> QED
    BY <2>1 DEF Agree
<1> QED
  BY <1>0, <1>2, <1>3, <1>4, <1>5, <1>6, <1>7, UnracedNext

\* The block is written through: no other buffer stands for it.
LEMMA buf_write_Step ==
    ASSUME IInv, NEW s \in Sessions, buf_write(s)
    PROVE  IInv'
<1> USE ConstantFacts DEF buf_write, Goto, cache, locals
<1>0. /\ TypeOK /\ ListInv /\ SessionInv
      /\ ~ raced => Unique /\ EvictsUnused /\ PanicFull /\ Agree
  BY TypeOfInv
<1>1. target[s] \in Bufs /\ block_num[target[s]] \in Blocks
  BY <1>0, HasTarget
<1>2. TypeOK'
  BY <1>0, <1>1 DEF TypeOK, Labels
<1>3. ListInv' /\ (~ raced' => Counted' /\ Unique' /\ InOrder(list', buf_ref'))
  BY SameCache
<1>4. SessionInv'
  BY <1>0, <1>1 DEF TypeOK, SessionInv
<1>5. EvictsUnused => EvictsUnused'
  BY DEF EvictsUnused
<1>7. PanicFull => PanicFull'
  BY <1>0 DEF TypeOK, PanicFull
<1>6. ASSUME Unique, Agree PROVE Agree'
  <2>2. ASSUME NEW b \in Bufs, block_num[b] # NULL, data[b] = disk[block_num[b]] \/ b = target[s]
        PROVE  data'[b] = disk'[block_num[b]]
    <3>1. CASE b = target[s]
      BY <3>1, <1>0, <1>1 DEF TypeOK
    <3>2. CASE b # target[s]
      <4>1. block_num[b] # block_num[target[s]] /\ block_num[b] \in Blocks
        BY <3>2, <2>2, <1>0, <1>1, <1>6 DEF Unique, TypeOK
      <4> QED
        BY <4>1, <3>2, <2>2, <1>0, <1>1 DEF TypeOK
    <3> QED
      BY <3>1, <3>2
  <2>3. ASSUME NEW b \in Bufs, b # target[s], NEW x \in Users(b), pc[x] \in {"lock_fill", "fill", "dirty"}
        PROVE  x \in Users(b)' /\ pc'[x] \in {"lock_fill", "fill", "dirty"}
    BY <2>3, <1>0 DEF Users, TypeOK
  <2>4. ASSUME NEW b \in Bufs
        PROVE  \/ block_num[b] = NULL
               \/ data'[b] = disk'[block_num[b]]
               \/ \E x \in Users(b)' : pc'[x] \in {"lock_fill", "fill", "dirty"}
    BY <2>2, <2>3, <1>6 DEF Agree
  <2> QED
    BY <2>4 DEF Agree
<1> QED
  BY <1>0, <1>2, <1>3, <1>4, <1>5, <1>6, <1>7, UnracedNext

\* The sleep lock of the buffer is given up.
LEMMA ReleaseTarget_Step ==
    ASSUME IInv, NEW s \in Sessions, ReleaseTarget(s)
    PROVE  IInv'
<1> USE ConstantFacts DEF ReleaseTarget, Goto, cache, locals
<1>0. /\ TypeOK /\ ListInv /\ SessionInv
      /\ ~ raced => EvictsUnused /\ PanicFull /\ Agree
  BY TypeOfInv
<1>1. target[s] \in Bufs
  BY <1>0, HasTarget
<1>2. TypeOK'
  BY <1>0, <1>1 DEF TypeOK, Labels
<1>3. ListInv' /\ (~ raced' => Counted' /\ Unique' /\ InOrder(list', buf_ref'))
  BY SameCache
<1>4. SessionInv'
  BY <1>0, <1>1 DEF TypeOK, SessionInv
<1>5. EvictsUnused => EvictsUnused'
  BY DEF EvictsUnused
<1>6. PanicFull => PanicFull'
  BY <1>0 DEF TypeOK, PanicFull
<1>7. Agree => Agree'
  <2>1. ASSUME NEW b \in Bufs, \E x \in Users(b) : pc[x] \in {"lock_fill", "fill", "dirty"}
        PROVE  \E x \in Users(b)' : pc'[x] \in {"lock_fill", "fill", "dirty"}
    BY <2>1, <1>0 DEF Users, TypeOK
  <2> QED
    BY <2>1 DEF Agree
<1> QED
  BY <1>0, <1>2, <1>3, <1>4, <1>5, <1>6, <1>7, UnracedNext

\* A user drops the buffer; the last one moves it to the end of the list.
LEMMA buf_release_Step ==
    ASSUME IInv, NEW s \in Sessions, buf_release(s)
    PROVE  IInv'
<1> USE ConstantFacts DEF Goto
<1>0. /\ TypeOK /\ ListInv /\ SessionInv
      /\ ~ raced => Counted /\ Unique /\ EvictsUnused /\ InOrder(list, buf_ref) /\ PanicFull /\ Agree
  BY TypeOfInv
<1>1. PICK b \in Bufs : b = target[s]
  BY <1>0, HasTarget DEF buf_release
<1>2. /\ pc[s] = "unref" /\ CacheLock
      /\ buf_ref' = [buf_ref EXCEPT ![b] = (@ + WRAP - 1) % WRAP]
      /\ list' = IF buf_ref[b] = 1 THEN ToBack(b) ELSE list
      /\ pc' = [pc EXCEPT ![s] = "idle"]
      /\ want' = [want EXCEPT ![s] = NULL]
      /\ target' = [target EXCEPT ![s] = NULL]
      /\ UNCHANGED <<block_num, slk, data, disk, start, raced>>
  BY <1>1 DEF buf_release
<1>3. IsList(list')
  BY <1>0, <1>1, <1>2, ListMoved, ListFacts
<1>4. /\ list' \in Seq(Bufs) /\ Len(list') = Cardinality(Bufs) /\ DOMAIN list' = 1..Len(list')
      /\ ListInv'
  BY <1>3, LenProperties DEF IsList, ListInv
<1>5. buf_ref' \in [Bufs -> 0..(WRAP - 1)]
  BY <1>0, <1>2 DEF TypeOK
<1>6. TypeOK'
  BY <1>0, <1>2, <1>3, <1>4, <1>5 DEF TypeOK, Labels, IsList
<1>7. SessionInv'
  BY <1>0, <1>1, <1>2 DEF TypeOK, SessionInv
<1>8. ASSUME ~ raced' PROVE Counted' /\ Unique' /\ EvictsUnused' /\ InOrder(list', buf_ref') /\ PanicFull' /\ Agree'
  <2>0. Counted /\ Unique /\ EvictsUnused /\ InOrder(list, buf_ref) /\ PanicFull /\ Agree
    BY <1>0, <1>2, <1>8
  <2>1. /\ Users(b)' = Users(b) \ {s} /\ s \in Users(b)
        /\ \A c \in Bufs : c # b => Users(c)' = Users(c)
    BY <1>0, <1>1, <1>2 DEF Users, TypeOK
  <2>2. /\ Cardinality(Users(b)) \in 0..(WRAP - 1) /\ IsFiniteSet(Users(b))
        /\ Cardinality(Users(b)') = Cardinality(Users(b)) - 1
        /\ Cardinality(Users(b)') \in Nat
    <3>1. Users(b) \in SUBSET Sessions /\ Users(b)' \in SUBSET Sessions
      BY DEF Users
    <3>2. /\ IsFiniteSet(Users(b)) /\ Cardinality(Users(b)) \in 0..(WRAP - 1)
          /\ Cardinality(Users(b)') \in 0..(WRAP - 1)
      BY <3>1, UsersFinite
    <3>3. Cardinality(Users(b) \ {s}) = Cardinality(Users(b)) - 1
      BY <3>2, <2>1, FS_RemoveElement
    <3> QED
      BY <3>2, <3>3, <2>1
  <2>3. buf_ref[b] = Cardinality(Users(b)) /\ buf_ref'[b] = buf_ref[b] - 1
    <3>1. buf_ref[b] = Cardinality(Users(b))
      BY <2>0 DEF Counted
    <3>2. buf_ref'[b] = (buf_ref[b] + WRAP - 1) % WRAP
      BY <1>0, <1>2 DEF TypeOK
    <3>3. (buf_ref[b] + WRAP - 1) % WRAP = buf_ref[b] - 1
      BY <3>1, <2>2, Z3
    <3> QED
      BY <3>1, <3>2, <3>3
  <2>4. \A c \in Bufs : c # b => buf_ref'[c] = buf_ref[c]
    BY <1>0, <1>2 DEF TypeOK
  <2>5. Counted'
    BY <2>0, <2>1, <2>2, <2>3, <2>4 DEF Counted
  <2>6. Unique' /\ EvictsUnused'
    BY <2>0, <1>0, <1>2 DEF Unique, EvictsUnused, TypeOK
  <2>7. InOrder(list', buf_ref')
    <3>1. CASE buf_ref[b] = 1
      <4>1. buf_ref'[b] = 0
        BY <3>1, <2>3
      <4>2. InOrder(ToBack(b), buf_ref')
        BY <4>1, <2>0, <2>4, <1>0, OrderMoved
      <4> QED
        BY <4>2, <3>1, <1>2
    <3>2. CASE buf_ref[b] # 1
      <4>1. buf_ref'[b] # 0 /\ buf_ref[b] # 0
        BY <3>2, <2>2, <2>3
      <4>2. \A c \in Bufs : buf_ref'[c] = 0 <=> buf_ref[c] = 0
        BY <4>1, <2>4
      <4>3. \A k \in 1..Len(list) : list[k] \in Bufs
        BY <1>0, LenProperties DEF TypeOK
      <4>4. list' = list
        BY <3>2, <1>2
      <4> QED
        BY <4>2, <4>3, <4>4, <2>0 DEF InOrder
    <3> QED
      BY <3>1, <3>2
  <2>8. PanicFull'
    BY <1>0, <1>2 DEF PanicFull, CacheLock, TypeOK
  <2>9. Agree'
    <3>1. ASSUME NEW c \in Bufs, \E x \in Users(c) : pc[x] \in {"lock_fill", "fill", "dirty"}
          PROVE  \E x \in Users(c)' : pc'[x] \in {"lock_fill", "fill", "dirty"}
      BY <3>1, <1>0, <1>2 DEF Users, TypeOK
    <3> QED
      BY <3>1, <2>0, <1>2 DEF Agree
  <2> QED
    BY <2>5, <2>6, <2>7, <2>8, <2>9
<1> QED
  BY <1>4, <1>6, <1>7, <1>8, UnracedNext

LEMMA NextInv == IInv /\ [Next]_vars => IInv'
<1> SUFFICES ASSUME IInv, [Next]_vars PROVE IInv'
  OBVIOUS
<1>1. CASE UNCHANGED vars
  <2>1. UNCHANGED <<cache, slk, data, disk, pc, locals, raced>>
    BY <1>1 DEF vars
  <2>2. \A b \in Bufs : Users(b)' = Users(b)
    BY <2>1 DEF Users, locals
  <2> QED
    BY <2>1, <2>2 DEF IInv, ListInv, SessionInv, Owned, TypeOK, EvictsUnused, UsedFirst, Coherent, cache, locals
<1>2. CASE Next
  BY <1>2, buf_read_Step, ScanHit_Step, ScanMiss_Step, ScanPanic_Step, LockTarget_Step,
     Fill_Step, SetData_Step, buf_write_Step, ReleaseTarget_Step, buf_release_Step DEF Next
<1> QED
  BY <1>1, <1>2

\* Every reachable state of the cache satisfies the inductive invariant.
THEOREM Invariant == Spec => []IInv
BY InitInv, NextInv, PTL DEF Spec

-----------------------------------------------------------------------------
(***************************************************************************)
(* The properties.                                                         *)
(***************************************************************************)
\* Until buf_read's unlocked look at head_buf.prev was outrun, buf_ref counts
\* the users, one buffer stands for a block, and buf_read renames none that
\* is in use, whatever the order of reads and releases.
THEOREM OwnedTheorem == Spec => []Owned
<1>1. IInv => Owned
  BY DEF IInv
<1> QED
  BY <1>1, Invariant, PTL

\* Until then the buffers in use come before the free ones in the list, as
\* both loops of buf_read and insert_head in buf_release take for granted,
\* and buf_read panics only when every buffer is in use.
THEOREM UsedFirstTheorem == Spec => []UsedFirst
<1>1. IInv => UsedFirst
  BY DEF IInv
<1> QED
  BY <1>1, Invariant, PTL

\* Until then a cached block is what the disk holds, except while the session
\* that renamed the buffer has yet to read it.
THEOREM CoherentTheorem == Spec => []Coherent
<1>1. IInv => Coherent
  BY DEF IInv
<1> QED
  BY <1>1, Invariant, PTL
=============================================================================
