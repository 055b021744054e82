----------------------------- MODULE MmapProofs -----------------------------
(***************************************************************************)
(* Theorems about Mmap, for any number of processes, pages and nodes: the  *)
(* list of free regions of a process is exact, no node is lost or freed    *)
(* twice, and mmap finds room if there is any.                             *)
(***************************************************************************)
EXTENDS Mmap, FiniteSetTheorems, SequenceTheorems, WellFoundedInduction, TLAPS

Regions == [begin : Area, npages : 0..NM]

\* Part of a region or of a mapping.
Within(a, r) == r.begin <= a /\ a < End(r)

-----------------------------------------------------------------------------
(***************************************************************************)
(* Lists: a stretch of a list is replaced by other regions.                *)
(***************************************************************************)
\* New is l with its elements i..j replaced by those of mid.
Spliced(new, l, i, j, mid) ==
    /\ Len(new) = Len(l) - (j - i + 1) + Len(mid)
    /\ \A x \in 1..(i - 1) : new[x] = l[x]
    /\ \A x \in 1..Len(mid) : new[i - 1 + x] = mid[x]
    /\ \A x \in (j + 1)..Len(l) : new[x - (j - i + 1) + Len(mid)] = l[x]

\* M is s followed by t.
Follows(m, s, t) ==
    /\ Len(m) = Len(s) + Len(t)
    /\ \A k \in 1..Len(s) : m[k] = s[k]
    /\ \A k \in 1..Len(t) : m[Len(s) + k] = t[k]

LEMMA Joined ==
    ASSUME NEW S, NEW s \in Seq(S), NEW t \in Seq(S), NEW m, m = s \o t
    PROVE  m \in Seq(S) /\ Follows(m, s, t)
<1>1. /\ m \in Seq(S)
      /\ Len(m) = Len(s) + Len(t)
      /\ \A k \in 1..(Len(s) + Len(t)) : m[k] = IF k <= Len(s) THEN s[k] ELSE t[k - Len(s)]
  BY ConcatProperties, Zenon
<1>2. Len(s) \in Nat /\ Len(t) \in Nat
  BY LenProperties
<1>3. ASSUME NEW k \in 1..Len(s) PROVE m[k] = s[k]
  BY <1>1, <1>2
<1>4. ASSUME NEW k \in 1..Len(t) PROVE m[Len(s) + k] = t[k]
  <2>1. Len(s) + k \in 1..(Len(s) + Len(t)) /\ ~ (Len(s) + k <= Len(s)) /\ (Len(s) + k) - Len(s) = k
    BY <1>2
  <2> QED
    BY <1>1, <2>1
<1> QED
  BY <1>1, <1>3, <1>4 DEF Follows

LEMMA Splicing ==
    ASSUME NEW l \in Seq(Regions), NEW mid \in Seq(Regions),
           NEW i \in Nat, NEW j \in Nat, 1 <= i, i <= j, j <= Len(l),
           NEW new, new = SubSeq(l, 1, i - 1) \o mid \o SubSeq(l, j + 1, Len(l))
    PROVE  new \in Seq(Regions) /\ Spliced(new, l, i, j, mid)
<1> DEFINE a == SubSeq(l, 1, i - 1)
           c == SubSeq(l, j + 1, Len(l))
<1>0. Len(l) \in Nat /\ Len(mid) \in Nat
  BY LenProperties
<1>1. /\ a \in Seq(Regions) /\ Len(a) = i - 1
      /\ \A k \in 1..(i - 1) : a[k] = l[k]
  BY <1>0, SubSeqProperties
<1>2. /\ c \in Seq(Regions) /\ Len(c) = Len(l) - j
      /\ \A k \in 1..(Len(l) - j) : c[k] = l[j + k]
  BY <1>0, SubSeqProperties
<1>3. PICK am : am = a \o mid /\ new = am \o c
  OBVIOUS
<1> HIDE DEF a, c
<1>4. am \in Seq(Regions) /\ Follows(am, a, mid)
  BY <1>1, <1>3, Joined
<1>5. new \in Seq(Regions) /\ Follows(new, am, c)
  BY <1>2, <1>3, <1>4, Joined
<1>6. /\ Len(am) = i - 1 + Len(mid)
      /\ \A k \in 1..(i - 1) : am[k] = l[k]
      /\ \A k \in 1..Len(mid) : am[i - 1 + k] = mid[k]
  BY <1>0, <1>1, <1>4 DEF Follows
<1>7. /\ new \in Seq(Regions) /\ Len(new) = Len(am) + Len(c)
      /\ \A k \in 1..Len(am) : new[k] = am[k]
      /\ \A k \in 1..Len(c) : new[Len(am) + k] = c[k]
  BY <1>5 DEF Follows
<1>8. Len(new) = Len(l) - (j - i + 1) + Len(mid)
  <2>1. Len(new) = (i - 1 + Len(mid)) + (Len(l) - j)
    BY <1>2, <1>6, <1>7, Zenon
  <2>2. \A x, y \in Nat : (i - 1 + y) + (x - j) = x - (j - i + 1) + y
    OBVIOUS
  <2> QED
    BY <2>1, <2>2, <1>0, Zenon
<1>9. ASSUME NEW x \in 1..(i - 1) PROVE new[x] = l[x]
  <2>1. x \in 1..Len(am)
    BY <1>0, <1>6
  <2> QED
    BY <2>1, <1>6, <1>7
<1>10. ASSUME NEW x \in 1..Len(mid) PROVE new[i - 1 + x] = mid[x]
  <2>1. i - 1 + x \in 1..Len(am)
    BY <1>0, <1>6
  <2> QED
    BY <2>1, <1>6, <1>7
<1>11. ASSUME NEW x \in (j + 1)..Len(l) PROVE new[x - (j - i + 1) + Len(mid)] = l[x]
  <2>1. x - j \in 1..Len(c) /\ Len(am) + (x - j) = x - (j - i + 1) + Len(mid) /\ j + (x - j) = x
    BY <1>0, <1>2, <1>6
  <2>2. new[Len(am) + (x - j)] = c[x - j]
    BY <2>1, <1>7
  <2>3. c[x - j] = l[j + (x - j)]
    BY <2>1, <1>2
  <2> QED
    BY <2>1, <2>2, <2>3
<1> QED
  BY <1>7, <1>8, <1>9, <1>10, <1>11 DEF Spliced

\* Every element of the new list is one of the old or of the new ones.
Origin(x, new, l, i, j, mid) ==
    \/ x < i /\ x \in 1..Len(l) /\ new[x] = l[x]
    \/ x >= i /\ x - i + 1 \in 1..Len(mid) /\ new[x] = mid[x - i + 1]
    \/ \E y \in (j + 1)..Len(l) : new[x] = l[y] /\ x = y - (j - i + 1) + Len(mid)

LEMMA SplicedIndex ==
    ASSUME NEW l, NEW new, NEW mid, Len(l) \in Nat, Len(mid) \in Nat,
           NEW i \in Nat, NEW j \in Nat, 1 <= i, i <= j, j <= Len(l),
           Spliced(new, l, i, j, mid),
           NEW x \in 1..Len(new)
    PROVE  Origin(x, new, l, i, j, mid)
<1>1. CASE x < i
  BY <1>1 DEF Spliced, Origin
<1>2. CASE x >= i /\ x - i + 1 <= Len(mid)
  <2>1. x - i + 1 \in 1..Len(mid) /\ i - 1 + (x - i + 1) = x
    BY <1>2
  <2> QED
    BY <2>1, <1>2 DEF Spliced, Origin
<1>3. CASE x - i + 1 > Len(mid) /\ x >= i
  <2> DEFINE y == x + (j - i + 1) - Len(mid)
  <2>1. y \in (j + 1)..Len(l) /\ x = y - (j - i + 1) + Len(mid)
    BY <1>3 DEF Spliced
  <2>2. new[y - (j - i + 1) + Len(mid)] = l[y]
    BY <2>1 DEF Spliced
  <2> QED
    BY <2>1, <2>2 DEF Origin
<1> QED
  BY <1>1, <1>2, <1>3

\* New regions in the place of old ones keep a list ordered if they are not
\* empty, in order, apart, and lie between the first and the last of the old;
\* the special node stays.
Fitting(l, i, j, mid) ==
    /\ \A x \in 1..Len(mid) : i + x > 2 =>
           mid[x].npages > 0 /\ End(mid[x]) <= End(l[j]) /\ (i >= 2 => l[i].begin <= mid[x].begin)
    /\ \A x, y \in 1..Len(mid) : x < y /\ i + x > 2 => End(mid[x]) < mid[y].begin
    /\ i = 1 => Len(mid) >= 1 /\ mid[1] = Region(0, 0)

LEMMA SplicedOrdered ==
    ASSUME NEW l \in Seq(Regions), NEW new \in Seq(Regions), NEW mid \in Seq(Regions),
           NEW i \in Nat, NEW j \in Nat, 1 <= i, i <= j, 2 <= j, j <= Len(l),
           Spliced(new, l, i, j, mid), Ordered(l), Fitting(l, i, j, mid)
    PROVE  Ordered(new)
<1>0. /\ Len(l) \in Nat /\ Len(mid) \in Nat /\ Len(new) \in Nat
      /\ \A x \in 1..Len(l) : l[x] \in Regions
      /\ \A x \in 1..Len(mid) : mid[x] \in Regions
  BY LenProperties, ElementOfSeq
<1>1. \A r \in Regions : r.begin \in Int /\ r.npages \in Int /\ End(r) \in Int /\ r.begin <= End(r)
  BY MmapAssumption DEF Regions, Area, End
<1>2. new # <<>> /\ new[1] = Region(0, 0)
  <2>1. CASE i = 1
    <3>1. new[i - 1 + 1] = mid[1] /\ Len(new) >= 1
      BY <2>1, <1>0 DEF Spliced, Fitting
    <3> QED
      BY <2>1, <3>1 DEF Fitting
  <2>2. CASE i # 1
    <3>1. new[1] = l[1] /\ Len(new) >= 1
      BY <2>2, <1>0 DEF Spliced
    <3> QED
      BY <3>1 DEF Ordered
  <2> QED
    BY <2>1, <2>2
<1>3. ASSUME NEW x \in 2..Len(new) PROVE new[x].npages > 0
  <2>1. x \in 1..Len(new)
    BY <1>0
  <2>2. Origin(x, new, l, i, j, mid)
    BY <1>0, <2>1, SplicedIndex
  <2>3. CASE x < i /\ x \in 1..Len(l) /\ new[x] = l[x]
    BY <2>3, <1>0 DEF Ordered
  <2>4. CASE x >= i /\ x - i + 1 \in 1..Len(mid) /\ new[x] = mid[x - i + 1]
    <3>1. i + (x - i + 1) > 2
      BY <1>0
    <3> QED
      BY <2>4, <3>1 DEF Fitting
  <2>5. CASE \E y \in (j + 1)..Len(l) : new[x] = l[y] /\ x = y - (j - i + 1) + Len(mid)
    <3>1. PICK y \in (j + 1)..Len(l) : new[x] = l[y]
      BY <2>5
    <3>2. y \in 2..Len(l)
      BY <1>0
    <3> QED
      BY <3>1, <3>2 DEF Ordered
  <2> QED
    BY <2>2, <2>3, <2>4, <2>5 DEF Origin
<1>4. ASSUME NEW x \in 2..Len(new), NEW y \in 2..Len(new), x < y
      PROVE  End(new[x]) < new[y].begin
  <2>1. x \in 1..Len(new) /\ y \in 1..Len(new)
    BY <1>0
  <2>2. Origin(x, new, l, i, j, mid)
    BY <1>0, <2>1, SplicedIndex
  <2>3. Origin(y, new, l, i, j, mid)
    BY <1>0, <2>1, SplicedIndex
  <2>4. \A u, v \in 2..Len(l) : u < v => End(l[u]) < l[v].begin
    BY DEF Ordered
  <2>5. CASE x < i /\ x \in 1..Len(l) /\ new[x] = l[x]
    <3>1. CASE y < i /\ y \in 1..Len(l) /\ new[y] = l[y]
      <4>1. x \in 2..Len(l) /\ y \in 2..Len(l)
        BY <3>1, <2>5, <1>0
      <4> QED
        BY <1>4, <4>1, <3>1, <2>5, <2>4
    <3>2. CASE y >= i /\ y - i + 1 \in 1..Len(mid) /\ new[y] = mid[y - i + 1]
      <4>1. x \in 2..Len(l) /\ i \in 2..Len(l) /\ i + (y - i + 1) > 2 /\ i >= 2
        BY <2>5, <1>0
      <4>2. End(l[x]) < l[i].begin
        BY <4>1, <2>4, <2>5
      <4>3. l[i].begin <= mid[y - i + 1].begin
        BY <4>1, <3>2 DEF Fitting
      <4>4. l[x] \in Regions /\ l[i] \in Regions /\ mid[y - i + 1] \in Regions
        BY <4>1, <3>2, <2>5, <1>0
      <4>5. End(l[x]) \in Int /\ l[i].begin \in Int /\ mid[y - i + 1].begin \in Int
        BY <4>4, <1>1
      <4>6. End(l[x]) < mid[y - i + 1].begin
        BY <4>2, <4>3, <4>5
      <4> QED
        BY <4>6, <3>2, <2>5
    <3>3. CASE \E v \in (j + 1)..Len(l) : new[y] = l[v] /\ y = v - (j - i + 1) + Len(mid)
      <4>1. PICK v \in (j + 1)..Len(l) : new[y] = l[v]
        BY <3>3
      <4>2. x \in 2..Len(l) /\ v \in 2..Len(l) /\ x < v
        BY <2>5, <1>0
      <4> QED
        BY <4>1, <4>2, <2>4, <2>5
    <3> QED
      BY <2>3, <3>1, <3>2, <3>3 DEF Origin
  <2>6. CASE x >= i /\ x - i + 1 \in 1..Len(mid) /\ new[x] = mid[x - i + 1]
    <3>0. i + (x - i + 1) > 2
      BY <1>0
    <3>2. CASE y >= i /\ y - i + 1 \in 1..Len(mid) /\ new[y] = mid[y - i + 1]
      <4>1. x - i + 1 < y - i + 1
        BY <1>4, <1>0
      <4> QED
        BY <4>1, <3>0, <3>2, <2>6 DEF Fitting
    <3>3. CASE \E v \in (j + 1)..Len(l) : new[y] = l[v] /\ y = v - (j - i + 1) + Len(mid)
      <4>1. PICK v \in (j + 1)..Len(l) : new[y] = l[v]
        BY <3>3
      <4>2. j \in 2..Len(l) /\ v \in 2..Len(l) /\ j < v
        BY <1>0
      <4>3. End(l[j]) < l[v].begin
        BY <4>2, <2>4
      <4>4. End(mid[x - i + 1]) <= End(l[j])
        BY <3>0, <2>6 DEF Fitting
      <4>5. l[v] \in Regions /\ l[j] \in Regions /\ mid[x - i + 1] \in Regions
        BY <4>2, <2>6, <1>0, SMTT(60)
      <4>6. End(l[j]) \in Int /\ l[v].begin \in Int /\ End(mid[x - i + 1]) \in Int
        BY <4>5, <1>1
      <4>7. End(mid[x - i + 1]) < l[v].begin
        BY <4>3, <4>4, <4>6
      <4> QED
        BY <4>1, <4>7, <2>6
    <3> QED
      BY <1>4, <2>3, <3>2, <3>3, <2>6, <1>0 DEF Origin
  <2>7. CASE \E u \in (j + 1)..Len(l) : new[x] = l[u] /\ x = u - (j - i + 1) + Len(mid)
    <3>1. PICK u \in (j + 1)..Len(l) : new[x] = l[u] /\ x = u - (j - i + 1) + Len(mid)
      BY <2>7
    <3>2. x > i - 1 + Len(mid)
      BY <3>1, <1>0
    <3>3. \E v \in (j + 1)..Len(l) : new[y] = l[v] /\ y = v - (j - i + 1) + Len(mid)
      <4>1. ~ (y < i) /\ ~ (y - i + 1 \in 1..Len(mid))
        BY <1>4, <3>2, <1>0
      <4> QED
        BY <4>1, <2>3 DEF Origin
    <3>4. PICK v \in (j + 1)..Len(l) : new[y] = l[v] /\ y = v - (j - i + 1) + Len(mid)
      BY <3>3
    <3>5. u \in 2..Len(l) /\ v \in 2..Len(l) /\ u < v
      BY <1>4, <3>1, <3>4, <1>0
    <3> QED
      BY <3>1, <3>4, <3>5, <2>4
  <2> QED
    BY <2>2, <2>5, <2>6, <2>7 DEF Origin
<1> QED
  BY <1>2, <1>3, <1>4 DEF Ordered

\* The pages in a list, by its regions.
LEMMA FreePages ==
    ASSUME NEW l \in Seq(Regions), NEW a
    PROVE  a \in Free(l) <=> a \in Int /\ \E x \in 1..Len(l) : Within(a, l[x])
<1>1. /\ DOMAIN l = 1..Len(l)
      /\ \A x \in 1..Len(l) : l[x] \in Regions
  BY LenProperties, ElementOfSeq
<1>2. \A r \in Regions : a \in Span(r.begin, r.npages) <=> a \in Int /\ Within(a, r)
  BY MmapAssumption DEF Regions, Area, Span, Within, End
<1>3. a \in Free(l) <=> \E x \in 1..Len(l) : a \in Span(l[x].begin, l[x].npages)
  BY <1>1 DEF Free
<1> QED
  BY <1>1, <1>2, <1>3

\* The pages of the new list: those of the regions that stay, and of the new
\* ones.
Covers(a, l, i, j, mid) ==
    \/ \E x \in 1..Len(l) : (x < i \/ x > j) /\ Within(a, l[x])
    \/ \E x \in 1..Len(mid) : Within(a, mid[x])

LEMMA SplicedFree ==
    ASSUME NEW l \in Seq(Regions), NEW new \in Seq(Regions), NEW mid \in Seq(Regions),
           NEW i \in Nat, NEW j \in Nat, 1 <= i, i <= j, j <= Len(l),
           Spliced(new, l, i, j, mid), NEW a \in Int
    PROVE  a \in Free(new) <=> Covers(a, l, i, j, mid)
<1>0. Len(l) \in Nat /\ Len(mid) \in Nat /\ Len(new) \in Nat
  BY LenProperties
<1>1. a \in Free(new) <=> \E x \in 1..Len(new) : Within(a, new[x])
  BY FreePages
<1>2. ASSUME NEW x \in 1..Len(new), Within(a, new[x])
      PROVE  \/ \E y \in 1..Len(l) : (y < i \/ y > j) /\ Within(a, l[y])
             \/ \E y \in 1..Len(mid) : Within(a, mid[y])
  <2>1. Origin(x, new, l, i, j, mid)
    BY <1>0, SplicedIndex
  <2>2. CASE \E y \in (j + 1)..Len(l) : new[x] = l[y] /\ x = y - (j - i + 1) + Len(mid)
    <3>1. PICK y \in (j + 1)..Len(l) : new[x] = l[y]
      BY <2>2
    <3>2. y \in 1..Len(l) /\ y > j
      BY <1>0
    <3> QED
      BY <3>1, <3>2, <1>2
  <2> QED
    BY <2>1, <2>2, <1>2 DEF Origin
<1>3. ASSUME NEW y \in 1..Len(l), y < i \/ y > j, Within(a, l[y])
      PROVE  \E x \in 1..Len(new) : Within(a, new[x])
  <2>1. CASE y < i
    <3>1. y \in 1..(i - 1) /\ y \in 1..Len(new)
      BY <2>1, <1>0 DEF Spliced
    <3>2. new[y] = l[y]
      BY <3>1 DEF Spliced
    <3> QED
      BY <3>1, <3>2, <1>3
  <2>2. CASE y > j
    <3> DEFINE x == y - (j - i + 1) + Len(mid)
    <3>1. y \in (j + 1)..Len(l) /\ x \in 1..Len(new)
      BY <2>2, <1>0 DEF Spliced
    <3>2. new[x] = l[y]
      BY <3>1 DEF Spliced
    <3> QED
      BY <3>1, <3>2, <1>3
  <2> QED
    BY <1>3, <2>1, <2>2
<1>4. ASSUME NEW y \in 1..Len(mid), Within(a, mid[y])
      PROVE  \E x \in 1..Len(new) : Within(a, new[x])
  <2>1. i - 1 + y \in 1..Len(new)
    BY <1>0 DEF Spliced
  <2>2. new[i - 1 + y] = mid[y]
    BY DEF Spliced
  <2> QED
    BY <2>1, <2>2, <1>4
<1> QED
  BY <1>1, <1>2, <1>3, <1>4 DEF Covers

\* The bound of the area holds for the new list.
LEMMA SplicedInside ==
    ASSUME NEW l \in Seq(Regions), NEW new \in Seq(Regions), NEW mid \in Seq(Regions),
           NEW i \in Nat, NEW j \in Nat, 1 <= i, i <= j, j <= Len(l),
           Spliced(new, l, i, j, mid),
           \A x \in 1..Len(l) : End(l[x]) <= NM,
           \A x \in 1..Len(mid) : End(mid[x]) <= NM
    PROVE  \A x \in 1..Len(new) : End(new[x]) <= NM
<1>0. Len(l) \in Nat /\ Len(mid) \in Nat /\ Len(new) \in Nat
  BY LenProperties
<1>1. SUFFICES ASSUME NEW x \in 1..Len(new) PROVE End(new[x]) <= NM
  OBVIOUS
<1>2. Origin(x, new, l, i, j, mid)
  BY <1>0, SplicedIndex
<1>3. \A y \in (j + 1)..Len(l) : y \in 1..Len(l)
  BY <1>0
<1> QED
  BY <1>2, <1>3 DEF Origin

-----------------------------------------------------------------------------
(***************************************************************************)
(* The parts of uvm_mmap and uvm_munmap.                                   *)
(***************************************************************************)
LEMMA RegionFacts ==
    ASSUME NEW r \in Regions
    PROVE  /\ r.begin \in 0..(NM - 1) /\ r.npages \in 0..NM
           /\ End(r) = r.begin + r.npages /\ End(r) \in Int /\ r.begin <= End(r)
BY MmapAssumption DEF Regions, Area, End

LEMMA RegionType ==
    ASSUME NEW b \in Int, NEW n \in Int, b >= 0, n > 0, b + n <= NM
    PROVE  /\ Region(b, n) \in Regions
           /\ Region(b, n).begin = b /\ Region(b, n).npages = n /\ End(Region(b, n)) = b + n
BY MmapAssumption DEF Regions, Region, Area, End

LEMMA ExceptRegion ==
    ASSUME NEW r \in Regions, NEW n
    PROVE  [r EXCEPT !.npages = n] = Region(r.begin, n)
BY DEF Regions, Region

\* What Rest leaves of a region: parts of it, in order and apart, that have
\* all its pages but the n at b.
IsRest(mid, r, b, n) ==
    /\ Len(mid) = 1 + (IF b > r.begin /\ b + n < End(r) THEN 1 ELSE 0)
                     - (IF b = r.begin /\ b + n = End(r) THEN 1 ELSE 0)
    /\ \A x \in 1..Len(mid) : mid[x].npages > 0 /\ End(mid[x]) <= End(r) /\ r.begin <= mid[x].begin
    /\ \A x, y \in 1..Len(mid) : x < y => End(mid[x]) < mid[y].begin
    /\ \A a \in Int : (\E x \in 1..Len(mid) : Within(a, mid[x]))
                          <=> Within(a, r) /\ ~ (b <= a /\ a < b + n)

LEMMA RestParts ==
    ASSUME NEW r \in Regions, NEW b \in Int, NEW n \in 1..NM,
           r.begin <= b, b + n <= End(r), End(r) <= NM,
           NEW mid, mid = Rest(r, b, n)
    PROVE  mid \in Seq(Regions) /\ IsRest(mid, r, b, n)
<1>0. /\ NM \in Nat /\ n \in Nat /\ n >= 1
      /\ r.begin \in Nat /\ r.npages \in Nat /\ End(r) = r.begin + r.npages /\ End(r) \in Int
  BY MmapAssumption, RegionFacts
<1> DEFINE A == Region(r.begin, b - r.begin)
           B == Region(b + n, End(r) - (b + n))
<1>1. b > r.begin => /\ A \in Regions /\ A.npages > 0 /\ A.begin = r.begin /\ End(A) = b
                     /\ \A a \in Int : Within(a, A) <=> r.begin <= a /\ a < b
  <2> SUFFICES ASSUME b > r.begin
               PROVE /\ A \in Regions /\ A.npages > 0 /\ A.begin = r.begin /\ End(A) = b
                     /\ \A a \in Int : Within(a, A) <=> r.begin <= a /\ a < b
    OBVIOUS
  <2>1. b - r.begin \in Int /\ b - r.begin > 0 /\ r.begin + (b - r.begin) = b /\ b <= NM
    BY <1>0
  <2>2. A \in Regions /\ A.begin = r.begin /\ A.npages = b - r.begin /\ End(A) = r.begin + (b - r.begin)
    BY <2>1, <1>0, RegionType
  <2> HIDE DEF A
  <2> QED
    BY <2>1, <2>2 DEF Within
<1>2. b + n < End(r) => /\ B \in Regions /\ B.npages > 0 /\ B.begin = b + n /\ End(B) = End(r)
                        /\ \A a \in Int : Within(a, B) <=> b + n <= a /\ a < End(r)
  <2> SUFFICES ASSUME b + n < End(r)
               PROVE /\ B \in Regions /\ B.npages > 0 /\ B.begin = b + n /\ End(B) = End(r)
                     /\ \A a \in Int : Within(a, B) <=> b + n <= a /\ a < End(r)
    OBVIOUS
  <2>1. b + n \in Int /\ b + n >= 0 /\ End(r) - (b + n) \in Int /\ End(r) - (b + n) > 0
        /\ (b + n) + (End(r) - (b + n)) = End(r)
    BY <1>0
  <2>2. B \in Regions /\ B.begin = b + n /\ B.npages = End(r) - (b + n) /\ End(B) = (b + n) + (End(r) - (b + n))
    BY <2>1, RegionType
  <2> HIDE DEF B
  <2> QED
    BY <2>1, <2>2 DEF Within
<1>3. PICK s : s = IF b > r.begin THEN <<A>> ELSE <<>>
  OBVIOUS
<1>4. PICK t : t = IF b + n < End(r) THEN <<B>> ELSE <<>>
  OBVIOUS
<1>5. mid = s \o t
  BY <1>3, <1>4, ExceptRegion DEF Rest
<1> HIDE DEF A, B
<1>6. s \in Seq(Regions) /\ t \in Seq(Regions)
  BY <1>1, <1>2, <1>3, <1>4
<1>7. mid \in Seq(Regions) /\ Follows(mid, s, t)
  BY <1>5, <1>6, Joined
<1>8. \A a \in Int : Within(a, r) <=> r.begin <= a /\ a < End(r)
  BY DEF Within
<1>9. CASE b > r.begin /\ b + n < End(r)
  <2>1. Len(s) = 1 /\ s[1] = A /\ Len(t) = 1 /\ t[1] = B
    BY <1>3, <1>4, <1>9
  <2>2. Len(mid) = 2 /\ mid[1] = A /\ mid[2] = B
    BY <2>1, <1>7 DEF Follows
  <2>3. \A x \in 1..Len(mid) : x = 1 \/ x = 2
    BY <2>2
  <2>4. \A a \in Int : (\E x \in 1..Len(mid) : Within(a, mid[x])) <=> Within(a, A) \/ Within(a, B)
    BY <2>2, <2>3
  <2>5. End(mid[1]) < mid[2].begin
    BY <2>2, <1>0, <1>1, <1>2, <1>9
  <2>6. \A x \in 1..Len(mid) : mid[x].npages > 0 /\ End(mid[x]) <= End(r) /\ r.begin <= mid[x].begin
    BY <2>2, <2>3, <1>0, <1>1, <1>2, <1>9
  <2>7. \A a \in Int : Within(a, A) \/ Within(a, B) <=> Within(a, r) /\ ~ (b <= a /\ a < b + n)
    BY <1>0, <1>1, <1>2, <1>8, <1>9
  <2> QED
    BY <2>2, <2>3, <2>4, <2>5, <2>6, <2>7, <1>0, <1>7, <1>9 DEF IsRest
<1>10. CASE b > r.begin /\ ~ (b + n < End(r))
  <2>1. Len(s) = 1 /\ s[1] = A /\ Len(t) = 0
    BY <1>3, <1>4, <1>10
  <2>2. Len(mid) = 1 /\ mid[1] = A
    BY <2>1, <1>7 DEF Follows
  <2>3. \A a \in Int : (\E x \in 1..Len(mid) : Within(a, mid[x])) <=> Within(a, A)
    BY <2>2
  <2>4. \A a \in Int : Within(a, A) <=> Within(a, r) /\ ~ (b <= a /\ a < b + n)
    BY <1>0, <1>1, <1>8, <1>10
  <2> QED
    BY <2>2, <2>3, <2>4, <1>0, <1>1, <1>7, <1>10 DEF IsRest
<1>11. CASE ~ (b > r.begin) /\ b + n < End(r)
  <2>1. Len(s) = 0 /\ Len(t) = 1 /\ t[1] = B
    BY <1>3, <1>4, <1>11
  <2>2. Len(mid) = 1 /\ mid[1] = B
    BY <2>1, <1>7 DEF Follows
  <2>3. \A a \in Int : (\E x \in 1..Len(mid) : Within(a, mid[x])) <=> Within(a, B)
    BY <2>2
  <2>4. \A a \in Int : Within(a, B) <=> Within(a, r) /\ ~ (b <= a /\ a < b + n)
    BY <1>0, <1>2, <1>8, <1>11
  <2> QED
    BY <2>2, <2>3, <2>4, <1>0, <1>2, <1>7, <1>11 DEF IsRest
<1>12. CASE ~ (b > r.begin) /\ ~ (b + n < End(r))
  <2>1. Len(s) = 0 /\ Len(t) = 0
    BY <1>3, <1>4, <1>12
  <2>2. Len(mid) = 0
    BY <2>1, <1>7 DEF Follows
  <2>3. b = r.begin /\ b + n = End(r)
    BY <1>0, <1>12
  <2>4. \A a \in Int : ~ (\E x \in 1..Len(mid) : Within(a, mid[x]))
    BY <2>2
  <2>5. \A a \in Int : ~ (Within(a, r) /\ ~ (b <= a /\ a < b + n))
    BY <2>3, <1>0, <1>8
  <2> QED
    BY <2>2, <2>3, <2>4, <2>5, <1>0, <1>7 DEF IsRest
<1> QED
  BY <1>9, <1>10, <1>11, <1>12

\* What Merged puts in the place of two neighbours: them and the new region,
\* apart, the first still special if it was.
IsMerged(mid, freed, prev, next, b, n) ==
    /\ freed \in 0..2 /\ Len(mid) = 3 - freed
    /\ \A x \in 1..Len(mid) : End(mid[x]) <= End(next)
    /\ \A x \in 1..Len(mid) : next.npages > 0 /\ (prev.npages > 0 \/ x > 1) => mid[x].npages > 0
    /\ \A x \in 1..Len(mid) : prev.npages > 0 => prev.begin <= mid[x].begin
    /\ \A x, y \in 1..Len(mid) : x < y /\ (prev.npages > 0 \/ x > 1) => End(mid[x]) < mid[y].begin
    /\ prev.npages = 0 => Len(mid) >= 2 /\ mid[1] = prev
    /\ \A a \in Int : (\E x \in 1..Len(mid) : Within(a, mid[x]))
                          <=> Within(a, prev) \/ Within(a, next) \/ (b <= a /\ a < b + n)

LEMMA MergedParts ==
    ASSUME NEW prev \in Regions, NEW next \in Regions, NEW b \in Int, NEW n \in 1..NM,
           End(prev) <= b, b + n <= next.begin, End(next) <= NM,
           NEW mid, mid = Merged(prev, next, Region(b, n)).regions,
           NEW freed, freed = Merged(prev, next, Region(b, n)).freed
    PROVE  mid \in Seq(Regions) /\ IsMerged(mid, freed, prev, next, b, n)
<1>0. /\ NM \in Nat /\ n \in Nat /\ n >= 1
      /\ prev.begin \in Nat /\ prev.npages \in Nat /\ End(prev) = prev.begin + prev.npages /\ End(prev) \in Int
      /\ next.begin \in Nat /\ next.npages \in Nat /\ End(next) = next.begin + next.npages /\ End(next) \in Int
  BY MmapAssumption, RegionFacts
<1> DEFINE N == Region(b, n)
<1>1. /\ N \in Regions /\ N.begin = b /\ N.npages = n /\ End(N) = b + n
      /\ \A a \in Int : Within(a, N) <=> b <= a /\ a < b + n
  <2>1. N \in Regions /\ N.begin = b /\ N.npages = n /\ End(N) = b + n
    BY <1>0, RegionType
  <2> HIDE DEF N
  <2> QED
    BY <2>1, <1>0 DEF Within
<1>2. /\ \A a \in Int : Within(a, prev) <=> prev.begin <= a /\ a < End(prev)
      /\ \A a \in Int : Within(a, next) <=> next.begin <= a /\ a < End(next)
  BY DEF Within
<1>3. CASE b = End(prev) /\ prev.npages # 0 /\ b + n = next.begin
  <2> DEFINE A == Region(prev.begin, prev.npages + n + next.npages)
  <2>1. mid = <<A>> /\ freed = 2
    BY <1>1, <1>3, ExceptRegion DEF Merged
  <2>2. prev.npages + n + next.npages \in Int /\ prev.npages + n + next.npages > 0
        /\ prev.begin + (prev.npages + n + next.npages) = End(next)
    BY <1>0, <1>3
  <2>3. A \in Regions /\ A.begin = prev.begin /\ A.npages > 0 /\ End(A) = End(next)
    BY <2>2, <1>0, RegionType
  <2> HIDE DEF A
  <2>4. mid \in Seq(Regions) /\ Len(mid) = 1 /\ mid[1] = A /\ freed = 2
    BY <2>1, <2>3
  <2>5. \A a \in Int : (\E x \in 1..Len(mid) : Within(a, mid[x])) <=> Within(a, A)
    BY <2>4
  <2>6. \A a \in Int : Within(a, A) <=> Within(a, prev) \/ Within(a, next) \/ (b <= a /\ a < b + n)
    BY <2>3, <1>0, <1>2, <1>3 DEF Within
  <2>7. \A a \in Int : (\E x \in 1..Len(mid) : Within(a, mid[x]))
                          <=> Within(a, prev) \/ Within(a, next) \/ (b <= a /\ a < b + n)
    BY <2>5, <2>6
  <2>11. \A x \in 1..Len(mid) : End(mid[x]) <= End(next)
    BY <2>3, <2>4, <1>0, <1>3, SMTT(60)
  <2>12. \A x \in 1..Len(mid) : next.npages > 0 /\ (prev.npages > 0 \/ x > 1) => mid[x].npages > 0
    BY <2>3, <2>4, <1>0, <1>3, SMTT(60)
  <2>13. \A x \in 1..Len(mid) : prev.npages > 0 => prev.begin <= mid[x].begin
    <3>1. prev.begin \in Int /\ prev.begin <= A.begin
      BY <2>3, <1>0
    <3>2. \A x \in 1..Len(mid) : mid[x] = A
      BY <2>4
    <3> QED
      BY <3>1, <3>2
  <2>14. \A x, y \in 1..Len(mid) : x < y /\ (prev.npages > 0 \/ x > 1) => End(mid[x]) < mid[y].begin
    BY <2>3, <2>4, <1>0, <1>3
  <2>15. prev.npages = 0 => Len(mid) >= 2 /\ mid[1] = prev
    BY <2>3, <2>4, <1>0, <1>3
  <2>16. freed \in 0..2 /\ Len(mid) = 3 - freed
    BY <2>3, <2>4
  <2> QED
    BY <2>11, <2>12, <2>13, <2>14, <2>15, <2>16, <2>7, <2>4 DEF IsMerged
<1>4. CASE b = End(prev) /\ prev.npages # 0 /\ b + n # next.begin
  <2> DEFINE A == Region(prev.begin, prev.npages + n)
  <2>1. mid = <<A, next>> /\ freed = 1
    BY <1>1, <1>4, ExceptRegion DEF Merged
  <2>2. prev.npages + n \in Int /\ prev.npages + n > 0 /\ prev.begin + (prev.npages + n) = b + n /\ b + n <= NM
    BY <1>0, <1>4
  <2>3. A \in Regions /\ A.begin = prev.begin /\ A.npages > 0 /\ End(A) = b + n
    BY <2>2, <1>0, RegionType
  <2> HIDE DEF A
  <2>4. mid \in Seq(Regions) /\ Len(mid) = 2 /\ mid[1] = A /\ mid[2] = next /\ freed = 1
    BY <2>1, <2>3
  <2>5. \A x \in 1..Len(mid) : x = 1 \/ x = 2
    BY <2>4
  <2>6. \A a \in Int : (\E x \in 1..Len(mid) : Within(a, mid[x])) <=> Within(a, A) \/ Within(a, next)
    BY <2>4, <2>5
  <2>7. \A a \in Int : Within(a, A) <=> Within(a, prev) \/ (b <= a /\ a < b + n)
    BY <2>3, <1>0, <1>2, <1>4 DEF Within
  <2>8. \A a \in Int : (\E x \in 1..Len(mid) : Within(a, mid[x]))
                          <=> Within(a, prev) \/ Within(a, next) \/ (b <= a /\ a < b + n)
    BY <2>6, <2>7
  <2>11. \A x \in 1..Len(mid) : End(mid[x]) <= End(next)
    <3>1. End(mid[1]) <= End(next) /\ End(mid[2]) <= End(next)
      BY <2>3, <2>4, <1>0, <1>4, SMTT(60)
    <3> QED
      BY <3>1, <2>5
  <2>12. \A x \in 1..Len(mid) : next.npages > 0 /\ (prev.npages > 0 \/ x > 1) => mid[x].npages > 0
    <3>1. next.npages > 0 => (prev.npages > 0 => mid[1].npages > 0) /\ mid[2].npages > 0
      BY <2>3, <2>4, <1>0, <1>4
    <3> QED
      BY <3>1, <2>5
  <2>13. \A x \in 1..Len(mid) : prev.npages > 0 => prev.begin <= mid[x].begin
    <3>1. prev.begin <= A.begin /\ prev.begin <= next.begin
      BY <2>3, <1>0, <1>4
    <3> QED
      BY <3>1, <2>4, <2>5, Zenon
  <2>14. \A x, y \in 1..Len(mid) : x < y /\ (prev.npages > 0 \/ x > 1) => End(mid[x]) < mid[y].begin
    <3>1. b + n < next.begin
      BY <1>0, <1>4
    <3>2. End(mid[1]) < mid[2].begin
      BY <3>1, <2>3, <2>4
    <3> QED
      BY <3>2, <2>5
  <2>15. prev.npages = 0 => Len(mid) >= 2 /\ mid[1] = prev
    BY <2>3, <2>4, <2>5, <1>0, <1>4
  <2>16. freed \in 0..2 /\ Len(mid) = 3 - freed
    BY <2>3, <2>4, <2>5
  <2> QED
    BY <2>11, <2>12, <2>13, <2>14, <2>15, <2>16, <2>8, <2>4 DEF IsMerged
<1>5. CASE ~ (b = End(prev) /\ prev.npages # 0) /\ b + n = next.begin
  <2> DEFINE B == Region(b, n + next.npages)
  <2>1. mid = <<prev, B>> /\ freed = 1
    BY <1>1, <1>5 DEF Merged
  <2>2. n + next.npages \in Int /\ n + next.npages > 0 /\ b + (n + next.npages) = End(next) /\ b >= 0
    BY <1>0, <1>5
  <2>3. B \in Regions /\ B.begin = b /\ B.npages > 0 /\ End(B) = End(next)
    BY <2>2, <1>0, RegionType
  <2> HIDE DEF B
  <2>4. mid \in Seq(Regions) /\ Len(mid) = 2 /\ mid[1] = prev /\ mid[2] = B /\ freed = 1
    BY <2>1, <2>3
  <2>5. \A x \in 1..Len(mid) : x = 1 \/ x = 2
    BY <2>4
  <2>6. \A a \in Int : (\E x \in 1..Len(mid) : Within(a, mid[x])) <=> Within(a, prev) \/ Within(a, B)
    BY <2>4, <2>5
  <2>7. \A a \in Int : Within(a, B) <=> Within(a, next) \/ (b <= a /\ a < b + n)
    BY <2>3, <1>0, <1>2, <1>5 DEF Within
  <2>8. \A a \in Int : (\E x \in 1..Len(mid) : Within(a, mid[x]))
                          <=> Within(a, prev) \/ Within(a, next) \/ (b <= a /\ a < b + n)
    BY <2>6, <2>7
  <2>11. \A x \in 1..Len(mid) : End(mid[x]) <= End(next)
    <3>1. End(mid[1]) <= End(next) /\ End(mid[2]) <= End(next)
      BY <2>3, <2>4, <1>0, <1>5
    <3> QED
      BY <3>1, <2>5
  <2>12. \A x \in 1..Len(mid) : next.npages > 0 /\ (prev.npages > 0 \/ x > 1) => mid[x].npages > 0
    <3>1. next.npages > 0 => (prev.npages > 0 => mid[1].npages > 0) /\ mid[2].npages > 0
      BY <2>3, <2>4, <1>0, <1>5
    <3> QED
      BY <3>1, <2>5
  <2>13. \A x \in 1..Len(mid) : prev.npages > 0 => prev.begin <= mid[x].begin
    <3>1. prev.begin <= mid[1].begin /\ prev.begin <= mid[2].begin
      BY <2>3, <2>4, <1>0, <1>5
    <3> QED
      BY <3>1, <2>5
  <2>14. \A x, y \in 1..Len(mid) : x < y /\ (prev.npages > 0 \/ x > 1) => End(mid[x]) < mid[y].begin
    <3>1. prev.npages > 0 => End(mid[1]) < mid[2].begin
      BY <2>3, <2>4, <1>0, <1>5
    <3> QED
      BY <3>1, <2>5
  <2>15. prev.npages = 0 => Len(mid) >= 2 /\ mid[1] = prev
    BY <2>3, <2>4, <2>5, <1>0, <1>5
  <2>16. freed \in 0..2 /\ Len(mid) = 3 - freed
    BY <2>3, <2>4, <2>5
  <2> QED
    BY <2>11, <2>12, <2>13, <2>14, <2>15, <2>16, <2>8, <2>4 DEF IsMerged
<1>6. CASE ~ (b = End(prev) /\ prev.npages # 0) /\ b + n # next.begin
  <2>1. mid = <<prev, N, next>> /\ freed = 0
    BY <1>1, <1>6 DEF Merged
  <2> HIDE DEF N
  <2>4. mid \in Seq(Regions) /\ Len(mid) = 3 /\ freed = 0
        /\ mid[1] = prev /\ mid[2] = N /\ mid[3] = next
    BY <2>1, <1>1
  <2>5. \A x \in 1..Len(mid) : x = 1 \/ x = 2 \/ x = 3
    BY <2>4
  <2>6. \A a \in Int : (\E x \in 1..Len(mid) : Within(a, mid[x]))
                          <=> Within(a, prev) \/ Within(a, N) \/ Within(a, next)
    BY <2>4, <2>5
  <2>7. \A a \in Int : (\E x \in 1..Len(mid) : Within(a, mid[x]))
                          <=> Within(a, prev) \/ Within(a, next) \/ (b <= a /\ a < b + n)
    BY <2>6, <1>1
  <2>8. /\ End(prev) <= End(next) /\ End(N) <= End(next) /\ prev.begin <= N.begin /\ prev.begin <= next.begin
        /\ End(N) < next.begin /\ (prev.npages > 0 => End(prev) < N.begin /\ End(prev) < next.begin)
        /\ N.npages > 0
    <3>1. N.begin = b /\ N.npages = n /\ End(N) = b + n
      BY <1>1
    <3> QED
      BY <3>1, <1>0, <1>6
  <2>11. \A x \in 1..Len(mid) : End(mid[x]) <= End(next)
    <3>1. End(mid[1]) <= End(next) /\ End(mid[2]) <= End(next) /\ End(mid[3]) <= End(next)
      BY <2>4, <2>8, <1>0
    <3> QED
      BY <3>1, <2>5
  <2>12. \A x \in 1..Len(mid) : next.npages > 0 /\ (prev.npages > 0 \/ x > 1) => mid[x].npages > 0
    <3>1. next.npages > 0 => (prev.npages > 0 => mid[1].npages > 0) /\ mid[2].npages > 0 /\ mid[3].npages > 0
      BY <2>4, <2>8, <1>0
    <3> QED
      BY <3>1, <2>5
  <2>13. \A x \in 1..Len(mid) : prev.npages > 0 => prev.begin <= mid[x].begin
    <3>1. prev.begin <= mid[1].begin /\ prev.begin <= mid[2].begin /\ prev.begin <= mid[3].begin
      BY <2>4, <2>8, <1>0
    <3> QED
      BY <3>1, <2>5
  <2>14. \A x, y \in 1..Len(mid) : x < y /\ (prev.npages > 0 \/ x > 1) => End(mid[x]) < mid[y].begin
    <3>1. (prev.npages > 0 => End(mid[1]) < mid[2].begin) /\ (prev.npages > 0 => End(mid[1]) < mid[3].begin) /\ End(mid[2]) < mid[3].begin
      BY <2>4, <2>8, <1>0
    <3> QED
      BY <3>1, <2>5
  <2>15. prev.npages = 0 => Len(mid) >= 2 /\ mid[1] = prev
    BY <2>4, <2>5, <2>8, <1>0
  <2>16. freed \in 0..2 /\ Len(mid) = 3 - freed
    BY <2>4, <2>5
  <2> QED
    BY <2>11, <2>12, <2>13, <2>14, <2>15, <2>16, <2>7, <2>4 DEF IsMerged
<1> QED
  BY <1>3, <1>4, <1>5, <1>6

-----------------------------------------------------------------------------
(***************************************************************************)
(* Counting nodes.                                                         *)
(***************************************************************************)
LinkedOf(L) == UNION {{p} \X DOMAIN L[p] : p \in Procs}

Count(L) == Cardinality(LinkedOf(L))

\* Nodes of the others.
Others(L, p) == UNION {{q} \X DOMAIN L[q] : q \in Procs \ {p}}

LEMMA OwnNodes ==
    ASSUME NEW S, NEW L \in [Procs -> Seq(S)], NEW p \in Procs, IsFiniteSet(Others(L, p))
    PROVE  /\ IsFiniteSet(LinkedOf(L))
           /\ Count(L) = Cardinality(Others(L, p)) + Len(L[p])
<1> DEFINE own == {p} \X DOMAIN L[p]
<1>1. LinkedOf(L) = Others(L, p) \cup own
  BY DEF LinkedOf, Others
<1>2. Others(L, p) \cap own = {}
  BY DEF Others
<1>3. DOMAIN L[p] = 1..Len(L[p]) /\ Len(L[p]) \in Nat
  BY LenProperties
<1>4. IsFiniteSet(1..Len(L[p])) /\ Cardinality(1..Len(L[p])) = Len(L[p])
  <2>1. \A n \in Nat : IsFiniteSet(1..n) /\ Cardinality(1..n) = n
    BY FS_Interval
  <2> QED
    BY <2>1, <1>3, Zenon
<1>5. IsFiniteSet({p}) /\ Cardinality({p}) = 1
  BY FS_Singleton
<1>6. IsFiniteSet(own) /\ Cardinality(own) = 1 * Len(L[p])
  <2>1. PICK S1, T1 : S1 = {p} /\ T1 = DOMAIN L[p]
    OBVIOUS
  <2>2. IsFiniteSet(S1) /\ Cardinality(S1) = 1 /\ IsFiniteSet(T1) /\ Cardinality(T1) = Len(L[p])
    BY <2>1, <1>3, <1>4, <1>5, Zenon
  <2>3. IsFiniteSet(S1 \X T1) /\ Cardinality(S1 \X T1) = Cardinality(S1) * Cardinality(T1)
    BY <2>2, FS_Product, Zenon
  <2> QED
    BY <2>1, <2>2, <2>3, Zenon
<1>7. Cardinality(own) = Len(L[p])
  <2>1. \A n \in Nat : 1 * n = n
    OBVIOUS
  <2> QED
    BY <2>1, <1>3, <1>6, Zenon
<1>8. Cardinality(Others(L, p)) \in Nat
  BY FS_CardinalityType
<1> HIDE DEF own
<1>9. /\ IsFiniteSet(Others(L, p) \cup own)
      /\ Cardinality(Others(L, p) \cup own)
            = Cardinality(Others(L, p)) + Cardinality(own) - Cardinality(Others(L, p) \cap own)
  BY <1>6, FS_Union
<1>10. Cardinality(Others(L, p) \cap own) = 0
  BY <1>2, FS_EmptySet
<1> QED
  BY <1>1, <1>3, <1>7, <1>8, <1>9, <1>10 DEF Count

\* One list is replaced by another: the count changes by what their lengths
\* differ.
Recounted(M, L, p, new) ==
    /\ IsFiniteSet(LinkedOf(M))
    /\ Count(L) \in Nat /\ Len(L[p]) \in Nat /\ Len(new) \in Nat
    /\ Len(L[p]) <= Count(L)
    /\ Count(M) = Count(L) - Len(L[p]) + Len(new)

LEMMA NodeCount ==
    ASSUME NEW L \in [Procs -> Seq(Regions)], NEW p \in Procs, NEW new \in Seq(Regions),
           IsFiniteSet(LinkedOf(L)), NEW M, M = [L EXCEPT ![p] = new]
    PROVE  Recounted(M, L, p, new)
<1>1. Others(M, p) = Others(L, p) /\ M \in [Procs -> Seq(Regions)] /\ M[p] = new
  BY DEF Others
<1>2. Others(L, p) \in SUBSET LinkedOf(L)
  BY DEF Others, LinkedOf
<1>3. IsFiniteSet(Others(L, p))
  BY <1>2, FS_Subset
<1>4. Cardinality(Others(L, p)) \in Nat
  BY <1>3, FS_CardinalityType
<1>5. Count(L) = Cardinality(Others(L, p)) + Len(L[p])
  BY <1>3, OwnNodes
<1>6. IsFiniteSet(LinkedOf(M)) /\ Count(M) = Cardinality(Others(L, p)) + Len(new)
  BY <1>1, <1>3, OwnNodes
<1>7. Len(L[p]) \in Nat /\ Len(new) \in Nat
  BY LenProperties
<1> QED
  BY <1>4, <1>5, <1>6, <1>7 DEF Recounted

-----------------------------------------------------------------------------
(***************************************************************************)
(* The invariant.                                                          *)
(***************************************************************************)
LEMMA TypeFacts ==
    ASSUME IInv, NEW p \in Procs
    PROVE  /\ list \in [Procs -> Seq(Regions)] /\ list[p] \in Seq(Regions)
           /\ Len(list[p]) \in Nat /\ DOMAIN list[p] = 1..Len(list[p])
           /\ \A k \in 1..Len(list[p]) : list[p][k] \in Regions /\ End(list[p][k]) <= NM
<1>1. list \in [Procs -> Seq(Regions)] /\ list[p] \in Seq(Regions)
  BY DEF IInv, TypeOK, Regions
<1>2. Len(list[p]) \in Nat /\ DOMAIN list[p] = 1..Len(list[p])
  BY <1>1, LenProperties
<1>3. \A k \in 1..Len(list[p]) : list[p][k] \in Regions
  BY <1>1, ElementOfSeq
<1> QED
  BY <1>1, <1>2, <1>3 DEF IInv, Inside

\* A process, or the child of a fork, gets a new list; the pool changes by
\* what it is longer or shorter.
LEMMA ListStep ==
    ASSUME IInv, ~corrupt, NEW p \in Procs, NEW new \in Seq(Regions),
           \A x \in 1..Len(new) : End(new[x]) <= NM,
           list' = [list EXCEPT ![p] = new],
           pool' = pool + Len(list[p]) - Len(new), pool' >= 0
    PROVE  /\ list' \in [Procs -> Seq(Regions)]
           /\ pool' \in 0..(N_MMAP - 1)
           /\ Inside'
           /\ NodesInv'
<1>1. list \in [Procs -> Seq(Regions)] /\ list' \in [Procs -> Seq(Regions)]
  BY TypeFacts
<1>2. Linked = LinkedOf(list) /\ Linked' = LinkedOf(list')
  BY DEF Linked, LinkedOf
<1>3. IsFiniteSet(LinkedOf(list)) /\ pool + Count(list) = N_MMAP - 1 /\ pool \in Nat /\ N_MMAP \in Nat
  BY <1>2, MmapAssumption DEF IInv, TypeOK, NodesInv, Count
<1>4. /\ IsFiniteSet(LinkedOf(list'))
      /\ Count(list) \in Nat /\ Len(list[p]) \in Nat /\ Len(new) \in Nat
      /\ Len(list[p]) <= Count(list)
      /\ Count(list') = Count(list) - Len(list[p]) + Len(new)
  <2>1. PICK M : M = [list EXCEPT ![p] = new]
    OBVIOUS
  <2>2. Recounted(M, list, p, new)
    BY <2>1, <1>1, <1>3, NodeCount
  <2> QED
    BY <2>1, <2>2 DEF Recounted
<1>5. pool' + Count(list') = N_MMAP - 1 /\ pool' \in 0..(N_MMAP - 1)
  <2>1. Count(list') \in Nat
    BY <1>4
  <2> QED
    BY <1>3, <1>4, <2>1, SMTT(60)
<1>6. NodesInv'
  BY <1>2, <1>4, <1>5 DEF NodesInv, Count
<1>7. Inside'
  <2> SUFFICES ASSUME NEW q \in Procs, NEW k \in DOMAIN list'[q]
               PROVE  End(list'[q][k]) <= NM
    BY DEF Inside, End
  <2>1. CASE q = p
    <3>1. list'[q] = new /\ DOMAIN new = 1..Len(new)
      BY <2>1, <1>1, LenProperties
    <3> QED
      BY <3>1
  <2>2. CASE q # p
    <3>1. list'[q] = list[q]
      BY <2>2, <1>1
    <3> QED
      BY <3>1 DEF IInv, Inside
  <2> QED
    BY <2>1, <2>2
<1> QED
  BY <1>1, <1>5, <1>6, <1>7

\* A step that changes what belongs to one process.
LEMMA ProcessStep ==
    ASSUME IInv, ~corrupt, NEW p \in Procs, NEW new \in Seq(Regions),
           \A x \in 1..Len(new) : End(new[x]) <= NM,
           list' = [list EXCEPT ![p] = new],
           pool' = pool + Len(list[p]) - Len(new), pool' >= 0,
           NEW v \in {"unused", "live", "panic", "exec", "exec2", "free"}, state' = [state EXCEPT ![p] = v],
           state[p] # "new", child' = child,
           NEW m \in SUBSET Area, mapped' = [mapped EXCEPT ![p] = m],
           strayed' \in SUBSET Procs, \A q \in Procs \ {p} : q \in strayed' <=> q \in strayed,
           list_lk' \in Procs \cup {NULL},
           corrupt' = corrupt,
           v = "live" => new # <<>>,
           v = "unused" => new = <<>>,
           v \in {"exec", "exec2"} => m = {},
           v = "exec2" => Len(new) = 1,
           v = "live" /\ p \notin strayed' => Ordered(new) /\ m = Area \ Free(new)
    PROVE  IInv'
<1>1. list' \in [Procs -> Seq(Regions)] /\ pool' \in 0..(N_MMAP - 1) /\ Inside' /\ NodesInv'
  BY ListStep
<1>2. TypeOK /\ corrupt = FALSE /\ v \in States
  BY DEF IInv, TypeOK, States
<1>3. TypeOK'
  BY <1>1, <1>2 DEF TypeOK, Regions
<1>4. list'[p] = new /\ state'[p] = v /\ mapped'[p] = m
  BY <1>2 DEF TypeOK
<1>5. \A q \in Procs \ {p} : list'[q] = list[q] /\ state'[q] = state[q] /\ mapped'[q] = mapped[q]
  BY <1>2 DEF TypeOK
<1>6. Slots' /\ Execs'
  <2>1. Slots /\ Execs
    BY DEF IInv
  <2> QED
    BY <2>1, <1>4, <1>5 DEF Slots, Execs
<1>8. Forks'
  <2>1. Forks
    BY DEF IInv
  <2>2. ASSUME NEW q \in Procs, state'[q] = "fork"
        PROVE  q # p /\ state[q] = "fork" /\ Forking(q) /\ child[q] \in Procs /\ child[q] # p
    BY <2>1, <2>2, <1>4, <1>5 DEF Forks, Forking
  <2>3. ASSUME NEW q \in Procs, state'[q] = "fork"
        PROVE  Forking(q)'
    <3>1. q # p /\ Forking(q) /\ child[q] \in Procs /\ child[q] # p
      BY <2>2, <2>3
    <3>2. PICK c \in Procs : c = child[q] /\ c # p
      BY <3>1
    <3>3. /\ list'[c] = list[c] /\ state'[c] = state[c] /\ mapped'[c] = mapped[c]
          /\ list'[q] = list[q] /\ mapped'[q] = mapped[q]
          /\ (c \in strayed' <=> c \in strayed) /\ (q \in strayed' <=> q \in strayed)
          /\ child'[q] = c
      BY <3>1, <3>2, <1>5
    <3> QED
      BY <3>1, <3>2, <3>3 DEF Forking
  <2> QED
    BY <2>1, <2>2, <2>3 DEF Forks
<1>7. ASSUME NEW q \in Procs, state'[q] \in {"live", "fork"}, q \notin strayed'
      PROVE  ExactFor(q)'
  <2>1. CASE q = p
    BY <2>1, <1>4, <1>7 DEF ExactFor
  <2>2. CASE q # p
    <3>1. ExactFor(q)
      BY <2>2, <1>5, <1>7 DEF IInv
    <3>2. list'[q] = list[q] /\ mapped'[q] = mapped[q]
      BY <2>2, <1>5
    <3> QED
      BY <3>1, <3>2 DEF ExactFor
  <2> QED
    BY <2>1, <2>2
<1> QED
  BY <1>1, <1>3, <1>6, <1>7, <1>8 DEF IInv

\* Pages of a region of an ordered list are in no other region.
LEMMA OrderedApart ==
    ASSUME NEW l \in Seq(Regions), Ordered(l), NEW a \in Int,
           NEW x \in 1..Len(l), NEW y \in 1..Len(l), Within(a, l[x]), Within(a, l[y])
    PROVE  x = y
<1>0. Len(l) \in Nat /\ \A k \in 1..Len(l) : l[k] \in Regions
  BY LenProperties, ElementOfSeq
<1>1. \A k \in 1..Len(l) : l[k].begin \in Int /\ End(l[k]) \in Int
  BY <1>0, RegionFacts
<1>2. End(l[1]) = 0 /\ l[1].begin = 0
  BY DEF Ordered, Region, End
<1>3. x # 1 /\ y # 1
  BY <1>2 DEF Within
<1>4. x \in 2..Len(l) /\ y \in 2..Len(l)
  BY <1>0, <1>3
<1>5. l[x].begin <= a /\ a < End(l[x]) /\ l[y].begin <= a /\ a < End(l[y])
  BY DEF Within
<1>6. ~ (x < y)
  <2> SUFFICES ASSUME x < y PROVE FALSE
    OBVIOUS
  <2>1. End(l[x]) < l[y].begin
    BY <1>4 DEF Ordered
  <2> QED
    BY <2>1, <1>1, <1>5
<1>7. ~ (y < x)
  <2> SUFFICES ASSUME y < x PROVE FALSE
    OBVIOUS
  <2>1. End(l[y]) < l[x].begin
    BY <1>4 DEF Ordered
  <2> QED
    BY <2>1, <1>1, <1>5
<1> QED
  BY <1>0, <1>6, <1>7

LEMMA MmapStep ==
    ASSUME IInv, NEW p \in Procs, NEW b0 \in Area \cup {NULL}, NEW n \in 1..NM, uvm_mmap(p, b0, n)
    PROVE  IInv'
<1>0. PICK k \in Found(p, b0, n) : \E r, b :
        /\ r = list[p][k] /\ b = (IF b0 = NULL THEN r.begin ELSE b0)
        /\ Running(p) /\ b + n <= End(r)
        /\ b > r.begin /\ b + n < End(r) => pool > 0
        /\ list' = [list EXCEPT ![p] = SubSeq(list[p], 1, k - 1) \o Rest(r, b, n) \o SubSeq(list[p], k + 1, Len(list[p]))]
        /\ pool' = IF b > r.begin /\ b + n < End(r) THEN pool - 1
                   ELSE IF b = r.begin /\ b + n = End(r) THEN pool + 1 ELSE pool
        /\ IF Span(b, n) \cap mapped[p] = {}
           THEN mapped' = [mapped EXCEPT ![p] = @ \cup Span(b, n)] /\ UNCHANGED state
           ELSE Panic(p) /\ UNCHANGED mapped
        /\ UNCHANGED <<child, list_lk, strayed, corrupt>>
  BY ZenonT(60) DEF uvm_mmap, SetList
<1>1. PICK r, b :
        /\ r = list[p][k] /\ b = (IF b0 = NULL THEN r.begin ELSE b0)
        /\ Running(p) /\ b + n <= End(r)
        /\ b > r.begin /\ b + n < End(r) => pool > 0
        /\ list' = [list EXCEPT ![p] = SubSeq(list[p], 1, k - 1) \o Rest(r, b, n) \o SubSeq(list[p], k + 1, Len(list[p]))]
        /\ pool' = IF b > r.begin /\ b + n < End(r) THEN pool - 1
                   ELSE IF b = r.begin /\ b + n = End(r) THEN pool + 1 ELSE pool
        /\ IF Span(b, n) \cap mapped[p] = {}
           THEN mapped' = [mapped EXCEPT ![p] = @ \cup Span(b, n)] /\ UNCHANGED state
           ELSE Panic(p) /\ UNCHANGED mapped
        /\ UNCHANGED <<child, list_lk, strayed, corrupt>>
  BY <1>0
<1>2. PICK l : l = list[p]
  OBVIOUS
<1>3. /\ l \in Seq(Regions) /\ Len(l) \in Nat
      /\ \A x \in 1..Len(l) : l[x] \in Regions /\ End(l[x]) <= NM
  BY <1>2, TypeFacts
<1>4. k \in 2..Len(l) /\ k \in Nat /\ 1 <= k /\ 2 <= k /\ k <= k /\ k <= Len(l) /\ k \in 1..Len(l) /\ Matches(r, b0, n)
  BY <1>1, <1>2, <1>3 DEF Found
<1>5. r \in Regions /\ r = l[k] /\ End(r) <= NM
  BY <1>1, <1>2, <1>3, <1>4
<1>6. NM \in Nat /\ r.begin \in 0..(NM - 1) /\ End(r) \in Int
  BY <1>5, RegionFacts, MmapAssumption
<1>7. b \in Int /\ r.begin <= b /\ b >= 0 /\ n \in Nat /\ n >= 1 /\ b + n <= End(r)
  <2>1. CASE b0 = NULL
    BY <2>1, <1>1, <1>6, SMTT(60)
  <2>2. CASE b0 # NULL
    BY <2>2, <1>1, <1>4, <1>6 DEF Area, Matches
  <2> QED
    BY <2>1, <2>2
<1>8. PICK mid : mid = Rest(r, b, n)
  OBVIOUS
<1>9. mid \in Seq(Regions) /\ IsRest(mid, r, b, n) /\ Len(mid) \in Nat
  BY <1>1, <1>5, <1>7, <1>8, RestParts, LenProperties
<1>10. PICK new : new = SubSeq(l, 1, k - 1) \o mid \o SubSeq(l, k + 1, Len(l))
  OBVIOUS
<1>11. new \in Seq(Regions) /\ Spliced(new, l, k, k, mid)
  BY <1>3, <1>4, <1>9, <1>10, Splicing
<1>12. list' = [list EXCEPT ![p] = new]
  BY <1>1, <1>2, <1>8, <1>10
<1>13. \A x \in 1..Len(new) : End(new[x]) <= NM
  <2>1. \A x \in 1..Len(mid) : End(mid[x]) <= NM
    <3>1. \A x \in 1..Len(mid) : mid[x] \in Regions /\ End(mid[x]) <= End(r)
      BY <1>9, ElementOfSeq DEF IsRest
    <3>2. \A x \in 1..Len(mid) : End(mid[x]) \in Int
      BY <3>1, RegionFacts
    <3> QED
      BY <3>1, <3>2, <1>5, <1>6
  <2>2. \A x \in 1..Len(l) : End(l[x]) <= NM
    BY <1>3
  <2> QED
    BY <2>1, <2>2, <1>3, <1>4, <1>9, <1>11, SplicedInside
<1>14. /\ Len(new) = Len(l) - 1 + Len(mid) /\ Len(new) >= 1
       /\ Len(mid) = 1 + (IF b > r.begin /\ b + n < End(r) THEN 1 ELSE 0)
                       - (IF b = r.begin /\ b + n = End(r) THEN 1 ELSE 0)
  <2>1. Len(new) = Len(l) - (k - k + 1) + Len(mid)
    BY <1>11 DEF Spliced
  <2> QED
    BY <2>1, <1>3, <1>4, <1>9 DEF IsRest
<1>15. pool' = pool + Len(list[p]) - Len(new) /\ pool' >= 0
  <2>1. pool \in Nat
    BY MmapAssumption DEF IInv, TypeOK
  <2>2. Len(list[p]) = Len(l)
    BY <1>2
  <2> QED
    BY <2>1, <2>2, <1>1, <1>3, <1>6, <1>7, <1>9, <1>14, SMTT(60)
<1>16. ~corrupt /\ state[p] = "live" /\ TypeOK
  BY <1>1 DEF Running, IInv
<1>17. \A a : a \in Span(b, n) <=> a \in Int /\ b <= a /\ a < b + n
  BY <1>7 DEF Span
<1>18. new # <<>>
  BY <1>14
<1>19. CASE Span(b, n) \cap mapped[p] = {}
  <2> DEFINE m == mapped[p] \cup Span(b, n)
  <2>1. state' = [state EXCEPT ![p] = "live"] /\ mapped' = [mapped EXCEPT ![p] = m]
    BY <1>1, <1>16, <1>19 DEF TypeOK
  <2>2. m \in SUBSET Area
    <3>1. mapped[p] \subseteq Area
      BY <1>16 DEF TypeOK
    <3>2. Span(b, n) \subseteq Area
      BY <1>17, <1>1, <1>5, <1>6, <1>7 DEF Area
    <3> QED
      BY <3>1, <3>2
  <2>3. ASSUME p \notin strayed
        PROVE  Ordered(new) /\ m = Area \ Free(new)
    <3>1. Ordered(l) /\ mapped[p] = Area \ Free(l)
      BY <2>3, <1>2, <1>16 DEF IInv, ExactFor
    <3>2. Fitting(l, k, k, mid)
      BY <1>4, <1>5, <1>9 DEF IsRest, Fitting
    <3>3. Ordered(new)
      BY <3>1, <3>2, <1>3, <1>4, <1>9, <1>11, SplicedOrdered
    <3>4. ASSUME NEW a \in Area
          PROVE  a \in Free(new) <=> a \in Free(l) /\ a \notin Span(b, n)
      <4>0. a \in Int
        BY DEF Area
      <4>1. a \in Free(new) <=>
               \/ \E x \in 1..Len(l) : (x < k \/ x > k) /\ Within(a, l[x])
               \/ \E x \in 1..Len(mid) : Within(a, mid[x])
        <5>1. a \in Free(new) <=> Covers(a, l, k, k, mid)
          BY <4>0, <1>3, <1>4, <1>9, <1>11, SplicedFree
        <5> QED
          BY <5>1 DEF Covers
      <4>2. (\E x \in 1..Len(mid) : Within(a, mid[x])) <=> Within(a, r) /\ a \notin Span(b, n)
        BY <4>0, <1>9, <1>17 DEF IsRest
      <4>3. a \in Free(l) <=> \E x \in 1..Len(l) : Within(a, l[x])
        BY <4>0, <1>3, FreePages
      <4>4. a \in Span(b, n) => Within(a, r)
        <5>1. r.begin \in Int
          BY <1>6
        <5> QED
          BY <5>1, <4>0, <1>17, <1>6, <1>7 DEF Within
      <4>5. ASSUME NEW x \in 1..Len(l), Within(a, l[x]), Within(a, l[k]) PROVE x = k
        BY <4>0, <4>5, <3>1, <1>3, <1>4, OrderedApart
      <4>6. \A x \in 1..Len(l) : x = k \/ x < k \/ x > k
        BY <1>3, <1>4
      <4> QED
        BY <4>1, <4>2, <4>3, <4>4, <4>5, <4>6, <1>4, <1>5
    <3>5. m = Area \ Free(new)
      <4>1. \A a \in Area : a \in m <=> a \notin Free(new)
        BY <3>1, <3>4
      <4> HIDE DEF m
      <4> QED
        BY <4>1, <2>2
    <3> QED
      BY <3>3, <3>5
  <2>4. /\ strayed' \in SUBSET Procs /\ strayed' = strayed /\ list_lk' = list_lk
        /\ list_lk' \in Procs \cup {NULL} /\ corrupt' = corrupt /\ child' = child /\ state[p] # "new"
    BY <1>1, <1>16 DEF TypeOK
  <2> HIDE DEF m
  <2> QED
    BY <2>1, <2>2, <2>3, <2>4, <1>11, <1>12, <1>13, <1>15, <1>16, <1>18, ProcessStep
<1>20. CASE Span(b, n) \cap mapped[p] # {}
  <2>1. state' = [state EXCEPT ![p] = "panic"] /\ mapped' = [mapped EXCEPT ![p] = mapped[p]]
    BY <1>1, <1>16, <1>20 DEF TypeOK, Panic
  <2>2. mapped[p] \in SUBSET Area
    BY <1>16 DEF TypeOK
  <2>4. /\ strayed' \in SUBSET Procs /\ strayed' = strayed /\ list_lk' = list_lk
        /\ list_lk' \in Procs \cup {NULL} /\ corrupt' = corrupt /\ child' = child /\ state[p] # "new"
    BY <1>1, <1>16 DEF TypeOK
  <2> QED
    BY <2>1, <2>2, <2>4, <1>11, <1>12, <1>13, <1>15, <1>16, <1>18, ProcessStep
<1> QED
  BY <1>19, <1>20

LEMMA MunmapBetweenStep ==
    ASSUME IInv, NEW p \in Procs, NEW b \in Area, NEW n \in 1..NM, munmap_between(p, b, n)
    PROVE  IInv'
<1>0. PICK k \in Between(p, b, n) : \E l, mid, freed :
        /\ l = list[p]
        /\ mid = Merged(l[k], l[k + 1], Region(b, n)).regions
        /\ freed = Merged(l[k], l[k + 1], Region(b, n)).freed
        /\ Running(p) /\ pool > 0
        /\ list' = [list EXCEPT ![p] = SubSeq(l, 1, k - 1) \o mid \o SubSeq(l, k + 2, Len(l))]
        /\ pool' = pool - 1 + freed
        /\ UnmapPages(p, b, n)
        /\ UNCHANGED <<child, list_lk, strayed, corrupt>>
  BY DEF munmap_between, SetList
<1>1. PICK l, mid, freed :
        /\ l = list[p]
        /\ mid = Merged(l[k], l[k + 1], Region(b, n)).regions
        /\ freed = Merged(l[k], l[k + 1], Region(b, n)).freed
        /\ Running(p) /\ pool > 0
        /\ list' = [list EXCEPT ![p] = SubSeq(l, 1, k - 1) \o mid \o SubSeq(l, k + 2, Len(l))]
        /\ pool' = pool - 1 + freed
        /\ UnmapPages(p, b, n)
        /\ UNCHANGED <<child, list_lk, strayed, corrupt>>
  BY <1>0
<1>2. /\ l \in Seq(Regions) /\ Len(l) \in Nat
      /\ \A x \in 1..Len(l) : l[x] \in Regions /\ End(l[x]) <= NM
  BY <1>1, TypeFacts
<1>3. /\ k \in Nat /\ k + 1 \in Nat /\ k \in 1..Len(l) /\ k + 1 \in 1..Len(l)
      /\ 1 <= k /\ k <= k + 1 /\ 2 <= k + 1 /\ k + 1 <= Len(l) /\ (k + 1) + 1 = k + 2
      /\ End(l[k]) <= b /\ b + n <= l[k + 1].begin
  BY <1>1, <1>2 DEF Between
<1>4. PICK prev, next : prev = l[k] /\ next = l[k + 1]
  OBVIOUS
<1>5. /\ prev \in Regions /\ next \in Regions /\ End(next) <= NM
      /\ End(prev) <= b /\ b + n <= next.begin
  BY <1>2, <1>3, <1>4
<1>6. b \in Int /\ b >= 0 /\ n \in Nat /\ n >= 1 /\ NM \in Nat
  BY MmapAssumption DEF Area
<1>7. mid \in Seq(Regions) /\ IsMerged(mid, freed, prev, next, b, n) /\ Len(mid) \in Nat
  <2>1. mid = Merged(prev, next, Region(b, n)).regions /\ freed = Merged(prev, next, Region(b, n)).freed
    BY <1>1, <1>4
  <2>2. mid \in Seq(Regions) /\ IsMerged(mid, freed, prev, next, b, n)
    BY <2>1, <1>5, <1>6, MergedParts
  <2> QED
    BY <2>2, LenProperties
<1>8. PICK new : new = SubSeq(l, 1, k - 1) \o mid \o SubSeq(l, (k + 1) + 1, Len(l))
  OBVIOUS
<1>9. new \in Seq(Regions) /\ Spliced(new, l, k, k + 1, mid)
  BY <1>2, <1>3, <1>7, <1>8, Splicing
<1>10. list' = [list EXCEPT ![p] = new]
  BY <1>1, <1>3, <1>8
<1>11. \A x \in 1..Len(new) : End(new[x]) <= NM
  <2>1. \A x \in 1..Len(mid) : End(mid[x]) <= NM
    <3>1. \A x \in 1..Len(mid) : mid[x] \in Regions /\ End(mid[x]) <= End(next)
      BY <1>7, ElementOfSeq DEF IsMerged
    <3>2. (\A x \in 1..Len(mid) : End(mid[x]) \in Int) /\ End(next) \in Int
      BY <3>1, <1>5, RegionFacts
    <3> QED
      BY <3>1, <3>2, <1>5, <1>6
  <2>2. \A x \in 1..Len(l) : End(l[x]) <= NM
    BY <1>2
  <2> QED
    BY <2>1, <2>2, <1>2, <1>3, <1>7, <1>9, SplicedInside
<1>12. Len(new) = Len(l) + 1 - freed /\ freed \in 0..2
  <2>1. Len(new) = Len(l) - ((k + 1) - k + 1) + Len(mid)
    BY <1>9 DEF Spliced
  <2>2. freed \in 0..2 /\ Len(mid) = 3 - freed
    BY <1>7 DEF IsMerged
  <2> QED
    BY <2>1, <2>2, <1>2, <1>3
<1>13. pool' = pool + Len(list[p]) - Len(new) /\ pool' >= 0
  <2>1. pool \in Nat /\ Len(list[p]) = Len(l)
    BY <1>1, MmapAssumption DEF IInv, TypeOK
  <2>2. pool > 0 /\ pool' = pool - 1 + freed
    BY <1>1
  <2> QED
    BY <2>1, <2>2, <1>2, <1>12
<1>14. ~corrupt /\ state[p] = "live" /\ TypeOK
  BY <1>1 DEF Running, IInv
<1>15. \A a : a \in Span(b, n) <=> a \in Int /\ b <= a /\ a < b + n
  BY <1>6 DEF Span
<1>16. new # <<>>
  BY <1>2, <1>3, <1>12
<1>17. /\ strayed' \in SUBSET Procs /\ strayed' = strayed /\ list_lk' = list_lk
       /\ list_lk' \in Procs \cup {NULL} /\ corrupt' = corrupt /\ child' = child /\ state[p] # "new"
  BY <1>1, <1>14 DEF TypeOK
<1>18. CASE Span(b, n) \subseteq mapped[p]
  <2> DEFINE m == mapped[p] \ Span(b, n)
  <2>1. state' = [state EXCEPT ![p] = "live"] /\ mapped' = [mapped EXCEPT ![p] = m]
    BY <1>1, <1>14, <1>18 DEF TypeOK, UnmapPages
  <2>2. m \in SUBSET Area
    BY <1>14 DEF TypeOK
  <2>3. ASSUME p \notin strayed
        PROVE  Ordered(new) /\ m = Area \ Free(new)
    <3>1. Ordered(l) /\ mapped[p] = Area \ Free(l)
      BY <2>3, <1>1, <1>14 DEF IInv, ExactFor
    <3>2. next.npages > 0 /\ (k >= 2 => prev.npages > 0) /\ (k = 1 => prev = Region(0, 0) /\ prev.npages = 0)
      <4>1. k + 1 \in 2..Len(l) /\ (k >= 2 => k \in 2..Len(l))
        BY <1>2, <1>3
      <4> QED
        BY <4>1, <3>1, <1>4 DEF Ordered, Region
    <3>3. Fitting(l, k, k + 1, mid)
      <4>1. ASSUME NEW x \in 1..Len(mid), k + x > 2
            PROVE  mid[x].npages > 0 /\ End(mid[x]) <= End(next) /\ (k >= 2 => prev.begin <= mid[x].begin)
        <5>1. prev.npages > 0 \/ x > 1
          BY <4>1, <3>2, <1>3
        <5> QED
          BY <5>1, <3>2, <1>7 DEF IsMerged
      <4>2. ASSUME NEW x \in 1..Len(mid), NEW y \in 1..Len(mid), x < y, k + x > 2
            PROVE  End(mid[x]) < mid[y].begin
        <5>1. prev.npages > 0 \/ x > 1
          BY <4>2, <3>2, <1>3
        <5> QED
          BY <4>2, <5>1, <1>7 DEF IsMerged
      <4>3. k = 1 => Len(mid) >= 1 /\ mid[1] = Region(0, 0)
        BY <3>2, <1>7 DEF IsMerged
      <4> QED
        BY <4>1, <4>2, <4>3, <1>4 DEF Fitting
    <3>4. Ordered(new)
      BY <3>1, <3>3, <1>2, <1>3, <1>7, <1>9, SplicedOrdered
    <3>5. ASSUME NEW a \in Area
          PROVE  a \in Free(new) <=> a \in Free(l) \/ a \in Span(b, n)
      <4>0. a \in Int
        BY DEF Area
      <4>1. a \in Free(new) <=>
               \/ \E x \in 1..Len(l) : (x < k \/ x > k + 1) /\ Within(a, l[x])
               \/ \E x \in 1..Len(mid) : Within(a, mid[x])
        <5>1. a \in Free(new) <=> Covers(a, l, k, k + 1, mid)
          BY <4>0, <1>2, <1>3, <1>7, <1>9, SplicedFree
        <5> QED
          BY <5>1 DEF Covers
      <4>2. (\E x \in 1..Len(mid) : Within(a, mid[x]))
               <=> Within(a, l[k]) \/ Within(a, l[k + 1]) \/ a \in Span(b, n)
        BY <4>0, <1>4, <1>7, <1>15 DEF IsMerged
      <4>3. a \in Free(l) <=> \E x \in 1..Len(l) : Within(a, l[x])
        BY <4>0, <1>2, FreePages
      <4>4. \A x \in 1..Len(l) : x = k \/ x = k + 1 \/ x < k \/ x > k + 1
        BY <1>2, <1>3
      <4> QED
        BY <4>1, <4>2, <4>3, <4>4, <1>3
    <3>6. m = Area \ Free(new)
      BY <3>1, <3>5
    <3> QED
      BY <3>4, <3>6
  <2> HIDE DEF m
  <2> QED
    BY <2>1, <2>2, <2>3, <1>9, <1>10, <1>11, <1>13, <1>14, <1>16, <1>17, ProcessStep
<1>19. CASE ~ (Span(b, n) \subseteq mapped[p])
  <2>1. state' = [state EXCEPT ![p] = "panic"] /\ mapped' = [mapped EXCEPT ![p] = mapped[p]]
    BY <1>1, <1>14, <1>19 DEF TypeOK, Panic, UnmapPages
  <2>2. mapped[p] \in SUBSET Area
    BY <1>14 DEF TypeOK
  <2> QED
    BY <2>1, <2>2, <1>9, <1>10, <1>11, <1>13, <1>14, <1>16, <1>17, ProcessStep
<1> QED
  BY <1>18, <1>19

LEMMA LeastNumber ==
    ASSUME NEW S \in SUBSET Nat, S # {}
    PROVE  \E x \in S : \A y \in S : x <= y
<1> DEFINE R == OpToRel(<, Nat)
<1>1. IsWellFoundedOn(R, Nat)
  BY NatLessThanWellFounded
<1> HIDE DEF R
<1>2. PICK x \in S : \A y \in S : ~ (<<y, x>> \in R)
  BY <1>1, WFMin, Zenon
<1>3. \A y \in Nat : y < x => <<y, x>> \in R
  BY DEF OpToRel, R
<1>4. \A y \in S : x \in Nat /\ y \in Nat /\ ~ (y < x)
  BY <1>2, <1>3
<1> QED
  BY <1>4

\* Where a page lies in a list: behind a region, and not behind the next.
LEMMA PlaceOf ==
    ASSUME NEW l \in Seq(Regions), Ordered(l), NEW a \in Nat
    PROVE  \E k \in 1..Len(l) : End(l[k]) <= a /\ (k = Len(l) \/ a < End(l[k + 1]))
<1>0. Len(l) \in Nat /\ \A k \in 1..Len(l) : l[k] \in Regions
  BY LenProperties, ElementOfSeq
<1>1. \A k \in 1..Len(l) : End(l[k]) \in Int
  BY <1>0, RegionFacts
<1>2. 1 \in 1..Len(l) /\ End(l[1]) <= a
  <2>1. Len(l) # 0
    BY EmptySeq DEF Ordered
  <2>2. l[1] = Region(0, 0)
    BY DEF Ordered
  <2> QED
    BY <2>1, <2>2, <1>0 DEF End, Region
<1> DEFINE S == {k \in 1..Len(l) : End(l[k]) > a}
<1>3. CASE S = {}
  <2>1. Len(l) \in 1..Len(l)
    BY <1>0, <1>2
  <2>2. End(l[Len(l)]) <= a
    BY <2>1, <1>1, <1>3
  <2> QED
    BY <2>1, <2>2
<1>4. CASE S # {}
  <2>1. S \in SUBSET Nat
    OBVIOUS
  <2>2. PICK y \in S : \A z \in S : y <= z
    BY <2>1, <1>4, LeastNumber
  <2>3. y # 1 /\ y \in 1..Len(l) /\ End(l[y]) > a
    BY <2>2, <1>1, <1>2
  <2>4. y - 1 \in 1..Len(l) /\ (y - 1) + 1 = y
    BY <2>3, <1>0
  <2>5. y - 1 \notin S
    BY <2>2, <2>3, <2>4, <1>0
  <2>6. End(l[y - 1]) <= a
    BY <2>4, <2>5, <1>1
  <2> QED
    BY <2>3, <2>4, <2>6
<1> QED
  BY <1>3, <1>4

\* A mapping that lies between no two regions, and is not adjacent to the
\* last one, lies behind all of them.
LEMMA BehindAll ==
    ASSUME NEW l \in Seq(Regions), Ordered(l), NEW b \in Nat, NEW n \in Nat, n >= 1,
           \A a \in b..(b + n - 1) : a \notin Free(l),
           \A k \in 1..(Len(l) - 1) : ~ (b >= End(l[k]) /\ b + n <= l[k + 1].begin),
           b # End(l[Len(l)])
    PROVE  \A k \in 2..Len(l) : End(l[k]) < b
<1>0. Len(l) \in Nat /\ \A k \in 1..Len(l) : l[k] \in Regions
  BY LenProperties, ElementOfSeq
<1>1. \A k \in 1..Len(l) : /\ End(l[k]) \in Int /\ l[k].begin \in Nat /\ l[k].npages \in Nat
                            /\ End(l[k]) = l[k].begin + l[k].npages
  BY <1>0, RegionFacts
<1>2. PICK k \in 1..Len(l) : End(l[k]) <= b /\ (k = Len(l) \/ b < End(l[k + 1]))
  BY PlaceOf
<1>3. k = Len(l)
  <2> SUFFICES ASSUME k # Len(l) PROVE FALSE
    OBVIOUS
  <2>1. k + 1 \in 2..Len(l) /\ k + 1 \in 1..Len(l) /\ k \in 1..(Len(l) - 1) /\ b < End(l[k + 1])
    BY <1>0, <1>2
  <2>2. l[k + 1].npages > 0
    BY <2>1 DEF Ordered
  <2>3. l[k + 1].begin < b + n /\ l[k + 1].begin \in Nat /\ End(l[k + 1]) \in Int
    <3>1. l[k + 1].begin \in Nat /\ End(l[k + 1]) \in Int
      BY <2>1, <1>1
    <3>2. ~ (b + n <= l[k + 1].begin)
      BY <2>1, <1>1, <1>2
    <3> QED
      BY <3>1, <3>2
  <2>4. PICK a \in b..(b + n - 1) : Within(a, l[k + 1])
    <3>1. CASE l[k + 1].begin <= b
      <4>1. b \in b..(b + n - 1) /\ Within(b, l[k + 1])
        BY <3>1, <2>1 DEF Within
      <4> QED
        BY <4>1
    <3>2. CASE ~ (l[k + 1].begin <= b)
      <4>1. l[k + 1].begin \in b..(b + n - 1)
        BY <3>2, <2>3
      <4>2. Within(l[k + 1].begin, l[k + 1])
        BY <2>1, <2>2, <1>1 DEF Within
      <4> QED
        BY <4>1, <4>2
    <3> QED
      BY <3>1, <3>2
  <2>5. a \in Free(l)
    BY <2>1, <2>4, FreePages
  <2> QED
    BY <2>4, <2>5
<1>4. End(l[Len(l)]) < b
  BY <1>1, <1>2, <1>3
<1>5. ASSUME NEW x \in 2..Len(l) PROVE End(l[x]) < b
  <2>1. CASE x = Len(l)
    BY <2>1, <1>4
  <2>2. CASE x # Len(l)
    <3>1. x \in 1..Len(l) /\ Len(l) \in 2..Len(l) /\ Len(l) \in 1..Len(l) /\ x < Len(l)
      BY <2>2, <1>0
    <3>2. End(l[x]) < l[Len(l)].begin
      BY <3>1 DEF Ordered
    <3>3. End(l[x]) \in Int /\ l[Len(l)].begin \in Nat /\ l[Len(l)].begin <= End(l[Len(l)]) /\ End(l[Len(l)]) \in Int
      <4>1. \A y \in 1..Len(l) : End(l[y]) \in Int /\ l[y].begin \in Nat /\ l[y].begin <= End(l[y])
        BY <1>1, SMTT(60)
      <4> QED
        BY <3>1, <4>1, Zenon
    <3> QED
      BY <3>2, <3>3, <1>4
  <2> QED
    BY <2>1, <2>2
<1> QED
  BY <1>5

\* A list with one more region behind all others.
LEMMA Appended ==
    ASSUME NEW l \in Seq(Regions), NEW r \in Regions, NEW new, new = l \o <<r>>
    PROVE  /\ new \in Seq(Regions) /\ Len(new) = Len(l) + 1
           /\ \A k \in 1..Len(l) : new[k] = l[k]
           /\ new[Len(l) + 1] = r
<1>1. PICK t : t = <<r>>
  OBVIOUS
<1>2. t \in Seq(Regions) /\ Len(t) = 1 /\ t[1] = r
  BY <1>1
<1>3. new \in Seq(Regions) /\ Follows(new, l, t)
  BY <1>1, <1>2, Joined
<1> QED
  BY <1>2, <1>3 DEF Follows

LEMMA AppendedOrdered ==
    ASSUME NEW l \in Seq(Regions), Ordered(l), NEW r \in Regions, r.npages > 0,
           \A k \in 2..Len(l) : End(l[k]) < r.begin,
           NEW new \in Seq(Regions), Len(new) = Len(l) + 1,
           \A k \in 1..Len(l) : new[k] = l[k], new[Len(l) + 1] = r
    PROVE  Ordered(new)
<1>0. Len(l) \in Nat /\ Len(l) >= 1
  <2>1. Len(l) \in Nat
    BY LenProperties
  <2>2. Len(l) # 0
    BY EmptySeq DEF Ordered
  <2> QED
    BY <2>1, <2>2
<1>1. new # <<>> /\ new[1] = Region(0, 0)
  BY <1>0 DEF Ordered
<1>2. \A k \in 2..Len(new) : (k \in 2..Len(l) /\ new[k] = l[k]) \/ (k = Len(l) + 1 /\ new[k] = r)
  BY <1>0
<1>3. \A k \in 2..Len(new) : new[k].npages > 0
  BY <1>2 DEF Ordered
<1>4. ASSUME NEW j \in 2..Len(new), NEW k \in 2..Len(new), j < k
      PROVE  End(new[j]) < new[k].begin
  <2>1. j \in 2..Len(l) /\ new[j] = l[j]
    BY <1>0, <1>2, <1>4
  <2>2. CASE k \in 2..Len(l) /\ new[k] = l[k]
    BY <2>1, <2>2, <1>4 DEF Ordered
  <2>3. CASE k = Len(l) + 1 /\ new[k] = r
    BY <2>1, <2>3
  <2> QED
    BY <1>2, <2>2, <2>3
<1> QED
  BY <1>1, <1>3, <1>4 DEF Ordered

LEMMA AppendedFree ==
    ASSUME NEW l \in Seq(Regions), NEW r \in Regions,
           NEW new \in Seq(Regions), Len(new) = Len(l) + 1,
           \A k \in 1..Len(l) : new[k] = l[k], new[Len(l) + 1] = r, NEW a \in Int
    PROVE  a \in Free(new) <=> a \in Free(l) \/ Within(a, r)
<1>0. Len(l) \in Nat
  BY LenProperties
<1>1. a \in Free(new) <=> \E x \in 1..Len(new) : Within(a, new[x])
  BY FreePages
<1>2. a \in Free(l) <=> \E x \in 1..Len(l) : Within(a, l[x])
  BY FreePages
<1>3. \A x \in 1..Len(new) : x \in 1..Len(l) \/ x = Len(l) + 1
  BY <1>0
<1>4. Len(l) + 1 \in 1..Len(new) /\ \A x \in 1..Len(l) : x \in 1..Len(new)
  BY <1>0
<1> QED
  BY <1>1, <1>2, <1>3, <1>4

LEMMA MunmapEndStep ==
    ASSUME IInv, NEW p \in Procs, NEW b \in Area, NEW n \in 1..NM, munmap_end(p, b, n)
    PROVE  IInv'
<1>1. PICK l, last :
        /\ l = list[p] /\ last = l[Len(l)]
        /\ Running(p) /\ list_lk = NULL /\ pool > 0 /\ b + n <= NM
        /\ Between(p, b, n) = {}
        /\ list' = [list EXCEPT ![p] = IF b = End(last) THEN l \o <<Region(last.begin, last.npages + n)>>
                                      ELSE l \o <<Region(b, n)>>]
        /\ pool' = IF b = End(last) THEN pool ELSE pool - 1
        /\ corrupt' = (b = End(last))
        /\ UnmapPages(p, b, n)
        /\ UNCHANGED <<child, list_lk, strayed>>
  BY DEF munmap_end, SetList
<1>2. /\ l \in Seq(Regions) /\ Len(l) \in Nat /\ list \in [Procs -> Seq(Regions)]
      /\ \A x \in 1..Len(l) : l[x] \in Regions /\ End(l[x]) <= NM
  BY <1>1, TypeFacts
<1>3. corrupt = FALSE /\ state[p] = "live" /\ TypeOK /\ Len(l) >= 1
  <2>1. corrupt = FALSE /\ state[p] = "live" /\ TypeOK /\ l # <<>>
    BY <1>1 DEF Running, IInv, Slots, TypeOK
  <2>2. Len(l) # 0
    BY <2>1, <1>2, EmptySeq
  <2> QED
    BY <2>1, <2>2, <1>2
<1>4. last \in Regions /\ End(last) <= NM
  <2>1. Len(l) \in 1..Len(l)
    BY <1>2, <1>3
  <2> QED
    BY <2>1, <1>1, <1>2
<1>5. b \in Nat /\ n \in Nat /\ n >= 1 /\ NM \in Nat /\ b + n <= NM
  BY <1>1, MmapAssumption DEF Area
<1>6. \A a : a \in Span(b, n) <=> a \in Int /\ b <= a /\ a < b + n
  BY <1>5 DEF Span
<1>7. /\ state' \in [Procs -> States] /\ child' \in [Procs -> Procs \cup {NULL}]
      /\ mapped' \in [Procs -> SUBSET Area]
      /\ list_lk' \in Procs \cup {NULL} /\ strayed' \in SUBSET Procs /\ corrupt' \in BOOLEAN
  <2>1. "panic" \in States
    BY DEF States
  <2> QED
    BY <2>1, <1>1, <1>3 DEF TypeOK, UnmapPages, Panic
<1>8. CASE b = End(last)
  <2>1. PICK r : r = Region(last.begin, last.npages + n)
    OBVIOUS
  <2>2. r \in Regions /\ End(r) = b + n
    <3>1. last.begin \in Nat /\ last.npages \in Nat /\ last.begin + (last.npages + n) = b + n
      BY <1>4, <1>5, <1>8, RegionFacts
    <3> QED
      BY <3>1, <2>1, <1>5, RegionType
  <2>3. PICK new : new = l \o <<r>>
    OBVIOUS
  <2>4. /\ new \in Seq(Regions) /\ Len(new) = Len(l) + 1
        /\ \A k \in 1..Len(l) : new[k] = l[k]
        /\ new[Len(l) + 1] = r
    BY <2>2, <2>3, <1>2, Appended
  <2>5. list' = [list EXCEPT ![p] = new] /\ pool' = pool /\ corrupt' = TRUE
    BY <1>1, <1>8, <2>1, <2>3
  <2>6. list' \in [Procs -> Seq(Regions)]
    BY <2>4, <2>5, <1>2
  <2>7. TypeOK'
    BY <2>5, <2>6, <1>3, <1>7 DEF TypeOK, Regions
  <2>8. Inside'
    <3> SUFFICES ASSUME NEW q \in Procs, NEW k \in DOMAIN list'[q]
                 PROVE  End(list'[q][k]) <= NM
      BY DEF Inside, End
    <3>1. CASE q = p
      <4>1. list'[q] = new /\ DOMAIN new = 1..Len(new)
        BY <3>1, <2>4, <2>5, <1>2, LenProperties
      <4>2. k \in 1..Len(l) \/ k = Len(l) + 1
        BY <4>1, <2>4, <1>2
      <4> QED
        BY <4>1, <4>2, <2>2, <2>4, <1>2, <1>5
    <3>2. CASE q # p
      <4>1. list'[q] = list[q]
        BY <3>2, <2>5, <1>2
      <4> QED
        BY <4>1 DEF IInv, Inside
    <3> QED
      BY <3>1, <3>2
  <2> QED
    BY <2>5, <2>7, <2>8 DEF IInv
<1>9. CASE b # End(last)
  <2>1. PICK r : r = Region(b, n)
    OBVIOUS
  <2>2. r \in Regions /\ End(r) = b + n /\ r.begin = b /\ r.npages = n
    BY <2>1, <1>5, RegionType
  <2>3. PICK new : new = l \o <<r>>
    OBVIOUS
  <2>4. /\ new \in Seq(Regions) /\ Len(new) = Len(l) + 1
        /\ \A k \in 1..Len(l) : new[k] = l[k]
        /\ new[Len(l) + 1] = r
    BY <2>2, <2>3, <1>2, Appended
  <2>5. list' = [list EXCEPT ![p] = new] /\ pool' = pool - 1 /\ pool > 0 /\ corrupt' = corrupt
    BY <1>1, <1>3, <1>9, <2>1, <2>3
  <2>6. \A k \in 1..Len(new) : End(new[k]) <= NM
    <3>1. \A k \in 1..Len(new) : k \in 1..Len(l) \/ k = Len(l) + 1
      BY <2>4, <1>2
    <3> QED
      BY <3>1, <2>2, <2>4, <1>2, <1>5
  <2>7. pool' = pool + Len(list[p]) - Len(new) /\ pool' >= 0
    <3>1. pool \in Nat /\ Len(list[p]) = Len(l)
      BY <1>1, MmapAssumption DEF IInv, TypeOK
    <3> QED
      BY <3>1, <2>4, <2>5, <1>2
  <2>8. new # <<>>
    BY <2>4, <1>2
  <2>9. /\ strayed' \in SUBSET Procs /\ strayed' = strayed /\ list_lk' = list_lk
        /\ list_lk' \in Procs \cup {NULL} /\ ~corrupt /\ child' = child /\ state[p] # "new"
    BY <1>1, <1>3, <1>7
  <2>10. CASE Span(b, n) \subseteq mapped[p]
    <3> DEFINE m == mapped[p] \ Span(b, n)
    <3>1. state' = [state EXCEPT ![p] = "live"] /\ mapped' = [mapped EXCEPT ![p] = m]
      BY <1>1, <1>3, <2>10 DEF TypeOK, UnmapPages
    <3>2. m \in SUBSET Area
      BY <1>3 DEF TypeOK
    <3>3. ASSUME p \notin strayed
          PROVE  Ordered(new) /\ m = Area \ Free(new)
      <4>1. Ordered(l) /\ mapped[p] = Area \ Free(l)
        BY <3>3, <1>1, <1>3 DEF IInv, ExactFor
      <4>2. \A a \in b..(b + n - 1) : a \notin Free(l)
        BY <4>1, <2>10 DEF Span
      <4>3. \A k \in 1..(Len(l) - 1) : ~ (b >= End(l[k]) /\ b + n <= l[k + 1].begin)
        BY <1>1 DEF Between
      <4>4. \A k \in 2..Len(l) : End(l[k]) < b
        BY <4>1, <4>2, <4>3, <1>1, <1>2, <1>5, <1>9, BehindAll
      <4>5. Ordered(new)
        <5>1. r.npages > 0 /\ \A k \in 2..Len(l) : End(l[k]) < r.begin
          BY <4>4, <2>2, <1>5
        <5>2. l \in Seq(Regions) /\ Ordered(l) /\ r \in Regions
          BY <4>1, <2>2, <1>2
        <5> QED
          BY <5>1, <5>2, <2>4, AppendedOrdered
      <4>6. ASSUME NEW a \in Area
            PROVE  a \in Free(new) <=> a \in Free(l) \/ a \in Span(b, n)
        <5>1. a \in Int
          BY DEF Area
        <5>2. a \in Free(new) <=> a \in Free(l) \/ Within(a, r)
          BY <5>1, <2>2, <2>4, <1>2, AppendedFree
        <5>3. Within(a, r) <=> a \in Span(b, n)
          BY <5>1, <2>2, <1>6 DEF Within
        <5> QED
          BY <5>2, <5>3
      <4> QED
        BY <4>1, <4>5, <4>6
    <3> HIDE DEF m
    <3> QED
      BY <3>1, <3>2, <3>3, <2>4, <2>5, <2>6, <2>7, <2>8, <2>9, ProcessStep
  <2>11. CASE ~ (Span(b, n) \subseteq mapped[p])
    <3>1. state' = [state EXCEPT ![p] = "panic"] /\ mapped' = [mapped EXCEPT ![p] = mapped[p]]
      BY <1>1, <1>3, <2>11 DEF TypeOK, UnmapPages, Panic
    <3>2. mapped[p] \in SUBSET Area
      BY <1>3 DEF TypeOK
    <3> QED
      BY <3>1, <3>2, <2>4, <2>5, <2>6, <2>7, <2>8, <2>9, ProcessStep
  <2> QED
    BY <2>10, <2>11
<1> QED
  BY <1>8, <1>9

\* A step of one process that leaves its list alone.
LEMMA KeepListStep ==
    ASSUME IInv, ~corrupt, NEW p \in Procs, state[p] # "new",
           NEW v \in {"unused", "live", "panic", "exec", "exec2", "free"}, state' = [state EXCEPT ![p] = v],
           NEW m \in SUBSET Area, mapped' = [mapped EXCEPT ![p] = m],
           strayed' \in SUBSET Procs, \A q \in Procs \ {p} : q \in strayed' <=> q \in strayed,
           list_lk' \in Procs \cup {NULL},
           UNCHANGED <<child, list, pool, corrupt>>,
           v = "live" => list[p] # <<>>,
           v = "unused" => list[p] = <<>>,
           v \in {"exec", "exec2"} => m = {},
           v = "exec2" => Len(list[p]) = 1,
           v = "live" /\ p \notin strayed' => Ordered(list[p]) /\ m = Area \ Free(list[p])
    PROVE  IInv'
<1>1. PICK new : new = list[p]
  OBVIOUS
<1>2. /\ new \in Seq(Regions) /\ Len(new) \in Nat
      /\ \A x \in 1..Len(new) : End(new[x]) <= NM
      /\ list' = [list EXCEPT ![p] = new]
  BY <1>1, TypeFacts
<1>3. pool' = pool + Len(list[p]) - Len(new) /\ pool' >= 0
  <2>1. pool \in Nat
    BY MmapAssumption DEF IInv, TypeOK
  <2> QED
    BY <2>1, <1>1, <1>2
<1> QED
  BY <1>1, <1>2, <1>3, ProcessStep

\* A panic that leaves the lists and the tables alone, with or without list_lk.
LEMMA PanicStep ==
    ASSUME IInv, ~corrupt, NEW p \in Procs, state[p] # "new", Panic(p),
           list_lk' = list_lk \/ list_lk' = p,
           UNCHANGED <<child, list, pool, mapped, strayed, corrupt>>
    PROVE  IInv'
<1>1. TypeOK
  BY DEF IInv
<1>2. PICK m : m = mapped[p]
  OBVIOUS
<1>3. m \in SUBSET Area /\ mapped' = [mapped EXCEPT ![p] = m]
  BY <1>1, <1>2 DEF TypeOK
<1>4. strayed' = strayed /\ strayed' \in SUBSET Procs /\ list_lk' \in Procs \cup {NULL}
  BY <1>1 DEF TypeOK
<1>5. state' = [state EXCEPT ![p] = "panic"]
  BY DEF Panic
<1> QED
  BY <1>1, <1>3, <1>4, <1>5, KeepListStep

\* The walk of uvm_copy_pgtbl meets every page that is in no region.
LEMMA GapsExact ==
    ASSUME IInv, NEW p \in Procs, Ordered(list[p]), NEW a \in Area, a \notin Free(list[p])
    PROVE  a \in Gaps(p)
<1>1. PICK l : l = list[p]
  OBVIOUS
<1>2. /\ l \in Seq(Regions) /\ Len(l) \in Nat /\ DOMAIN l = 1..Len(l)
      /\ \A x \in 1..Len(l) : l[x] \in Regions
  BY <1>1, TypeFacts
<1>3. a \in Nat /\ a <= NM - 1 /\ NM \in Nat
  BY MmapAssumption DEF Area
<1>4. PICK k \in 1..Len(l) : End(l[k]) <= a /\ (k = Len(l) \/ a < End(l[k + 1]))
  BY <1>1, <1>2, <1>3, PlaceOf
<1>5. End(l[k]) \in Int
  BY <1>2, RegionFacts
<1>6. CASE k = Len(l)
  <2>1. a \in End(l[k])..(IF k = Len(l) THEN NM - 1 ELSE l[k + 1].begin - 1)
    BY <1>3, <1>4, <1>5, <1>6
  <2> QED
    BY <2>1, <1>1, <1>2 DEF Gaps
<1>7. CASE k # Len(l)
  <2>0. a < End(l[k + 1])
    BY <1>4, <1>7
  <2>1. k + 1 \in 1..Len(l) /\ a < End(l[k + 1])
    <3>1. Len(l) \in Nat
      BY <1>2
    <3>2. k + 1 \in 1..Len(l)
      BY <3>1, <1>7
    <3> QED
      BY <2>0, <3>2
  <2>2. l[k + 1].begin \in Int
    BY <2>1, <1>2, RegionFacts
  <2>3. ~ Within(a, l[k + 1])
    BY <2>1, <1>1, <1>2, <1>3, FreePages
  <2>4. a < l[k + 1].begin
    BY <2>1, <2>2, <2>3, <1>3 DEF Within
  <2>5. a \in End(l[k])..(IF k = Len(l) THEN NM - 1 ELSE l[k + 1].begin - 1)
    BY <2>2, <2>4, <1>3, <1>4, <1>5, <1>7
  <2> QED
    BY <2>5, <1>1, <1>2 DEF Gaps
<1> QED
  BY <1>6, <1>7

\* The table of a process that did not stray is copied whole.
LEMMA ForkStep ==
    ASSUME IInv, NEW p \in Procs, NEW c \in Procs, Fork(p, c)
    PROVE  IInv'
<1>1. /\ Running(p) /\ state[c] = "unused"
      /\ Gaps(p) \subseteq mapped[p]
      /\ state' = [state EXCEPT ![p] = "fork", ![c] = "new"]
      /\ child' = [child EXCEPT ![p] = c]
      /\ mapped' = [mapped EXCEPT ![c] = Gaps(p)]
      /\ strayed' = IF p \in strayed THEN strayed \cup {c} ELSE strayed \ {c}
      /\ UNCHANGED <<list, pool, list_lk, corrupt>>
  BY DEF Fork
<1>2. corrupt = FALSE /\ state[p] = "live" /\ TypeOK /\ list[p] # <<>> /\ list[c] = <<>> /\ p # c
  BY <1>1 DEF Running, IInv, Slots, TypeOK
<1>3. Gaps(p) \in SUBSET Area
  BY <1>1, <1>2 DEF TypeOK
<1>4. /\ state'[p] = "fork" /\ state'[c] = "new" /\ child'[p] = c /\ mapped'[c] = Gaps(p)
      /\ \A q \in Procs \ {p, c} : state'[q] = state[q]
      /\ \A q \in Procs \ {p} : child'[q] = child[q]
      /\ \A q \in Procs \ {c} : mapped'[q] = mapped[q] /\ (q \in strayed' <=> q \in strayed)
      /\ p \in strayed' <=> c \in strayed'
  BY <1>1, <1>2 DEF TypeOK
<1>5. TypeOK'
  <2>1. "fork" \in States /\ "new" \in States
    BY DEF States
  <2>2. state' \in [Procs -> States] /\ child' \in [Procs -> Procs \cup {NULL}]
    BY <2>1, <1>1, <1>2 DEF TypeOK
  <2>3. mapped' \in [Procs -> SUBSET Area] /\ strayed' \in SUBSET Procs
    BY <1>1, <1>2, <1>3 DEF TypeOK
  <2> QED
    BY <2>2, <2>3, <1>1, <1>2 DEF TypeOK
<1>6. Inside' /\ NodesInv'
  BY <1>1, <1>2 DEF IInv, Inside, NodesInv, Linked, End
<1>7. Slots' /\ Execs'
  BY <1>1, <1>2, <1>4 DEF IInv, Slots, Execs
<1>8. p \notin strayed => ExactFor(p) /\ Gaps(p) = mapped[p]
  <2> SUFFICES ASSUME p \notin strayed PROVE ExactFor(p) /\ Gaps(p) = mapped[p]
    OBVIOUS
  <2>1. ExactFor(p) /\ Ordered(list[p]) /\ mapped[p] = Area \ Free(list[p])
    BY <1>2 DEF IInv, ExactFor
  <2>2. \A a \in Area : a \notin Free(list[p]) => a \in Gaps(p)
    BY <2>1, GapsExact
  <2> QED
    BY <2>1, <2>2, <1>1
<1>9. Forking(p)'
  <2>1. list'[c] = <<>> /\ Len(list'[c]) = 0 /\ Len(list'[p]) \in Nat
    BY <1>1, <1>2, TypeFacts
  <2>2. p \notin strayed' => mapped'[c] = mapped'[p]
    BY <1>2, <1>4, <1>8
  <2> QED
    BY <2>1, <2>2, <1>4 DEF Forking
<1>10. ASSUME NEW q \in Procs, q # p, state'[q] = "fork"
       PROVE  Forking(q)' /\ child'[q] # c
  <2>1. state[q] = "fork" /\ q # c
    BY <1>4, <1>10
  <2>2. Forking(q)
    BY <2>1, <1>2 DEF IInv, Forks
  <2>3. PICK d \in Procs : d = child[q] /\ state[d] = "new"
    BY <2>2 DEF Forking
  <2>4. d # c /\ d # p /\ child'[q] = d
    BY <2>3, <1>1, <1>2, <1>4, <1>10
  <2>5. /\ state'[d] = "new" /\ mapped'[d] = mapped[d] /\ mapped'[q] = mapped[q]
        /\ (d \in strayed' <=> d \in strayed) /\ (q \in strayed' <=> q \in strayed)
    BY <2>1, <2>3, <2>4, <1>4
  <2> QED
    BY <2>2, <2>3, <2>4, <2>5, <1>1 DEF Forking
<1>11. Forks'
  <2>1. \A q, r \in Procs : q # p /\ r # p /\ state'[q] = "fork" /\ state'[r] = "fork" /\ child'[q] = child'[r] => q = r
    <3>1. \A q \in Procs : q # p /\ state'[q] = "fork" => state[q] = "fork" /\ child'[q] = child[q]
      BY <1>4
    <3> QED
      BY <3>1, <1>2 DEF IInv, Forks
  <2> QED
    BY <2>1, <1>4, <1>9, <1>10 DEF Forks
<1>12. ASSUME NEW q \in Procs, state'[q] \in {"live", "fork"}, q \notin strayed'
       PROVE  ExactFor(q)'
  <2>1. q # c /\ state[q] \in {"live", "fork"} /\ q \notin strayed /\ mapped'[q] = mapped[q]
    BY <1>2, <1>4, <1>12
  <2>2. ExactFor(q)
    BY <2>1, <1>2 DEF IInv
  <2> QED
    BY <2>1, <2>2, <1>1 DEF ExactFor
<1> QED
  BY <1>1, <1>5, <1>6, <1>7, <1>11, <1>12 DEF IInv

\* The child gets one node more, the next of its parent's list.
LEMMA ForkNodeStep ==
    ASSUME IInv, NEW p \in Procs, Fork_node(p)
    PROVE  IInv'
<1>1. /\ state[p] = "fork" /\ ~corrupt
      /\ Len(list[child[p]]) + 1 <= Len(list[p])
      /\ pool > 0
      /\ list' = [list EXCEPT ![child[p]] = Append(list[child[p]], list[p][Len(list[child[p]]) + 1])]
      /\ pool' = pool - 1
      /\ UNCHANGED <<state, child, list_lk, mapped, strayed, corrupt>>
  BY DEF Fork_node, SetList
<1>2. TypeOK /\ Forking(p) /\ Forks /\ corrupt = FALSE
  BY <1>1 DEF IInv, Forks, TypeOK
<1>3. PICK c \in Procs : c = child[p] /\ state[c] = "new" /\ c # p
  BY <1>1, <1>2 DEF Forking
<1>4. /\ Len(list[c]) \in Nat /\ list[c] \in Seq(Regions)
      /\ \A k \in 1..Len(list[c]) : list[c][k] \in Regions /\ End(list[c][k]) <= NM
  BY TypeFacts
<1>5. /\ Len(list[p]) \in Nat /\ list[p] \in Seq(Regions)
      /\ \A k \in 1..Len(list[p]) : list[p][k] \in Regions /\ End(list[p][k]) <= NM
  BY TypeFacts
<1>6. PICK r : r = list[p][Len(list[c]) + 1]
  OBVIOUS
<1>7. r \in Regions /\ End(r) <= NM
  <2>1. Len(list[c]) + 1 \in 1..Len(list[p])
    BY <1>1, <1>3, <1>4, <1>5
  <2> QED
    BY <2>1, <1>5, <1>6
<1>8. PICK new : new = Append(list[c], r)
  OBVIOUS
<1>9. /\ new \in Seq(Regions) /\ Len(new) = Len(list[c]) + 1
      /\ \A k \in 1..Len(list[c]) : new[k] = list[c][k]
      /\ new[Len(list[c]) + 1] = r
  BY <1>4, <1>7, <1>8, AppendProperties
<1>10. \A k \in 1..Len(new) : new[k] = list[p][k] /\ End(new[k]) <= NM
  <2>1. \A k \in 1..Len(new) : k \in 1..Len(list[c]) \/ k = Len(list[c]) + 1
    BY <1>4, <1>9
  <2>2. \A k \in 1..Len(list[c]) : list[c][k] = list[p][k]
    BY <1>2, <1>3 DEF Forking
  <2> QED
    BY <2>1, <2>2, <1>4, <1>6, <1>7, <1>9
<1>11. list' = [list EXCEPT ![c] = new]
  BY <1>1, <1>3, <1>6, <1>8
<1>12. pool' = pool + Len(list[c]) - Len(new) /\ pool' >= 0
  <2>1. pool \in Nat
    BY <1>2, MmapAssumption DEF TypeOK
  <2> QED
    BY <2>1, <1>1, <1>4, <1>9
<1>13. list' \in [Procs -> Seq(Regions)] /\ pool' \in 0..(N_MMAP - 1) /\ Inside' /\ NodesInv'
  BY <1>1, <1>9, <1>10, <1>11, <1>12, ListStep
<1>14. TypeOK'
  BY <1>1, <1>2, <1>13 DEF TypeOK, Regions
<1>15. list'[c] = new /\ \A q \in Procs \ {c} : list'[q] = list[q]
  BY <1>2, <1>11 DEF TypeOK
<1>16. Slots' /\ Execs'
  <2>1. Slots /\ Execs
    BY <1>1 DEF IInv
  <2>2. \A q \in Procs : state'[q] # "new" => state'[q] = state[q] /\ list'[q] = list[q] /\ mapped'[q] = mapped[q]
    BY <1>1, <1>3, <1>15
  <2> QED
    BY <2>1, <2>2 DEF Slots, Execs
<1>17. Forking(p)'
  <2>1. Len(list'[c]) <= Len(list'[p]) /\ \A k \in 1..Len(list'[c]) : list'[c][k] = list'[p][k]
    BY <1>1, <1>3, <1>9, <1>10, <1>15
  <2> QED
    BY <2>1, <1>1, <1>2, <1>3 DEF Forking
<1>18. ASSUME NEW q \in Procs, q # p, state'[q] = "fork"
       PROVE  Forking(q)'
  <2>1. Forking(q) /\ state[q] = "fork" /\ q # c
    BY <1>1, <1>2, <1>3, <1>18 DEF Forks
  <2>2. PICK d \in Procs : d = child[q]
    BY <2>1 DEF Forking
  <2>3. d # c
    BY <2>1, <2>2, <1>1, <1>2, <1>3, <1>18 DEF Forks
  <2>4. list'[d] = list[d] /\ list'[q] = list[q] /\ child'[q] = d
    BY <2>1, <2>2, <2>3, <1>1, <1>15
  <2> QED
    BY <2>1, <2>2, <2>4, <1>1, ZenonT(60) DEF Forking
<1>19. Forks'
  BY <1>1, <1>2, <1>17, <1>18 DEF Forks
<1>20. ASSUME NEW q \in Procs, state'[q] \in {"live", "fork"}, q \notin strayed'
       PROVE  ExactFor(q)'
  <2>1. q # c /\ list'[q] = list[q] /\ mapped' = mapped /\ ExactFor(q)
    BY <1>1, <1>3, <1>15, <1>20 DEF IInv
  <2> QED
    BY <2>1 DEF ExactFor
<1> QED
  BY <1>1, <1>13, <1>14, <1>16, <1>19, <1>20 DEF IInv

\* The copy is complete.
LEMMA ForkEndStep ==
    ASSUME IInv, NEW p \in Procs, Fork_end(p)
    PROVE  IInv'
<1>1. /\ state[p] = "fork" /\ ~corrupt
      /\ Len(list[child[p]]) = Len(list[p])
      /\ state' = [state EXCEPT ![p] = "live", ![child[p]] = "live"]
      /\ child' = [child EXCEPT ![p] = NULL]
      /\ UNCHANGED <<list, pool, list_lk, mapped, strayed, corrupt>>
  BY DEF Fork_end
<1>2. TypeOK /\ Forking(p) /\ Forks /\ Slots /\ Execs /\ corrupt = FALSE
  BY <1>1 DEF IInv, Forks, TypeOK
<1>3. PICK c \in Procs : c = child[p] /\ state[c] = "new" /\ c # p
  BY <1>1, <1>2 DEF Forking
<1>4. list[c] \in Seq(Regions) /\ list[p] \in Seq(Regions)
  BY TypeFacts
<1>5. list[c] = list[p]
  <2>1. Len(list[c]) = Len(list[p]) /\ \A k \in 1..Len(list[c]) : list[c][k] = list[p][k]
    BY <1>1, <1>2, <1>3 DEF Forking
  <2> QED
    BY <2>1, <1>4, SeqEqual
<1>6. /\ state'[p] = "live" /\ state'[c] = "live"
      /\ \A q \in Procs \ {p, c} : state'[q] = state[q]
      /\ \A q \in Procs \ {p} : child'[q] = child[q]
  BY <1>1, <1>2, <1>3 DEF TypeOK
<1>7. TypeOK'
  <2>1. "live" \in States
    BY DEF States
  <2>2. state' \in [Procs -> States] /\ child' \in [Procs -> Procs \cup {NULL}]
    BY <2>1, <1>1, <1>2 DEF TypeOK
  <2> QED
    BY <2>2, <1>1, <1>2 DEF TypeOK
<1>8. Inside' /\ NodesInv'
  BY <1>1, <1>2 DEF IInv, Inside, NodesInv, Linked, End
<1>9. Slots' /\ Execs'
  <2>1. list[p] # <<>> /\ list[c] # <<>>
    BY <1>1, <1>2, <1>5 DEF Slots
  <2>2. Slots'
    BY <2>1, <1>1, <1>2, <1>6 DEF Slots
  <2>3. Execs'
    BY <1>1, <1>2, <1>6 DEF Execs
  <2> QED
    BY <2>2, <2>3
<1>10. ASSUME NEW q \in Procs, state'[q] = "fork"
       PROVE  Forking(q)' /\ state[q] = "fork" /\ child'[q] = child[q]
  <2>1. q # p /\ q # c /\ state[q] = "fork" /\ child'[q] = child[q]
    BY <1>6, <1>10
  <2>2. Forking(q)
    BY <2>1, <1>2 DEF Forks
  <2>3. PICK d \in Procs : d = child[q] /\ state[d] = "new"
    BY <2>2 DEF Forking
  <2>4. d # c /\ d # p
    BY <2>1, <2>3, <1>1, <1>2, <1>3 DEF Forks
  <2>5. state'[d] = "new"
    BY <2>3, <2>4, <1>6
  <2> QED
    BY <2>1, <2>2, <2>3, <2>5, <1>1 DEF Forking
<1>11. Forks'
  BY <1>2, <1>10 DEF Forks
<1>12. ASSUME NEW q \in Procs, state'[q] \in {"live", "fork"}, q \notin strayed'
       PROVE  ExactFor(q)'
  <2>1. \A r \in Procs : state[r] \in {"live", "fork"} /\ r \notin strayed => ExactFor(r)
    BY <1>1 DEF IInv
  <2>2. CASE q = c
    <3>1. p \notin strayed /\ mapped[c] = mapped[p]
      BY <2>2, <1>1, <1>2, <1>3, <1>12 DEF Forking
    <3>2. ExactFor(p)
      BY <3>1, <2>1, <1>1
    <3> QED
      BY <3>1, <3>2, <2>2, <1>1, <1>5 DEF ExactFor
  <2>3. CASE q # c
    <3>1. ExactFor(q)
      BY <2>1, <2>3, <1>1, <1>6, <1>12
    <3> QED
      BY <3>1, <1>1 DEF ExactFor
  <2> QED
    BY <2>2, <2>3
<1> QED
  BY <1>1, <1>7, <1>8, <1>9, <1>11, <1>12 DEF IInv

LEMMA FreshFacts ==
    /\ FreshList \in Seq(Regions) /\ Len(FreshList) = 2 /\ Ordered(FreshList)
    /\ \A k \in 1..Len(FreshList) : End(FreshList[k]) <= NM
    /\ Free(FreshList) = Area
<1>1. NM \in Nat /\ NM >= 1
  BY MmapAssumption
<1>2. PICK s, r : s = Region(0, 0) /\ r = Region(0, NM)
  OBVIOUS
<1>3. /\ s \in Regions /\ s.begin = 0 /\ s.npages = 0 /\ End(s) = 0
      /\ r \in Regions /\ r.begin = 0 /\ r.npages = NM /\ End(r) = NM
  BY <1>1, <1>2 DEF Regions, Region, Area, End
<1>4. PICK l : l = <<s, r>>
  OBVIOUS
<1>5. l \in Seq(Regions) /\ Len(l) = 2 /\ l[1] = s /\ l[2] = r
  BY <1>3, <1>4
<1>6. FreshList = l
  BY <1>2, <1>4 DEF FreshList
<1>7. Ordered(l)
  <2>1. l # <<>> /\ l[1] = Region(0, 0)
    <3>1. l[1] = Region(0, 0)
      BY <1>2, <1>5
    <3>2. l # <<>>
      BY <1>5, EmptySeq
    <3> QED
      BY <3>1, <3>2
  <2>2. \A k \in 2..Len(l) : k = 2
    BY <1>5
  <2>3. l[2].npages > 0
    BY <1>1, <1>3, <1>5
  <2>4. \A k \in 2..Len(l) : l[k].npages > 0
    BY <2>2, <2>3
  <2>5. \A j, k \in 2..Len(l) : ~ (j < k)
    BY <2>2
  <2> QED
    BY <2>1, <2>4, <2>5 DEF Ordered
<1>8. \A k \in 1..Len(l) : End(l[k]) <= NM
  BY <1>1, <1>3, <1>5
<1>9. ASSUME NEW a PROVE a \in Free(l) <=> a \in Area
  <2>1. a \in Free(l) <=> a \in Int /\ \E x \in 1..Len(l) : Within(a, l[x])
    BY <1>5, FreePages
  <2>2. \A x \in 1..Len(l) : x = 1 \/ x = 2
    BY <1>5
  <2>3. 1 \in 1..Len(l) /\ 2 \in 1..Len(l)
    BY <1>5
  <2>4. (\E x \in 1..Len(l) : Within(a, l[x])) <=> Within(a, s) \/ Within(a, r)
    BY <2>2, <2>3, <1>5
  <2> QED
    BY <2>1, <2>4, <1>1, <1>3 DEF Within, Area
<1> QED
  BY <1>5, <1>6, <1>7, <1>8, <1>9

\* proc_free begins and ends.
LEMMA FreeStep ==
    ASSUME IInv, NEW p \in Procs, proc_free(p) \/ proc_free_end(p)
    PROVE  IInv'
<1>1. ~corrupt /\ TypeOK
  BY DEF proc_free, proc_free_end, Running, IInv
<1>3. CASE proc_free(p)
  <2>1. /\ state[p] = "live" /\ state' = [state EXCEPT ![p] = "free"]
        /\ UNCHANGED <<child, list, pool, list_lk, mapped, strayed, corrupt>>
    BY <1>3 DEF proc_free, Running
  <2>2. PICK m : m = mapped[p]
    OBVIOUS
  <2>3. m \in SUBSET Area /\ mapped' = [mapped EXCEPT ![p] = m]
    BY <2>1, <2>2, <1>1 DEF TypeOK
  <2>4. strayed' = strayed /\ strayed' \in SUBSET Procs /\ list_lk' \in Procs \cup {NULL}
    BY <2>1, <1>1 DEF TypeOK
  <2> QED
    BY <2>1, <2>3, <2>4, <1>1, KeepListStep
<1>4. CASE proc_free_end(p)
  <2>1. /\ state[p] = "free" /\ list[p] = <<>> /\ state' = [state EXCEPT ![p] = "unused"]
        /\ mapped' = [mapped EXCEPT ![p] = {}] /\ strayed' = strayed \ {p}
        /\ UNCHANGED <<child, list, pool, list_lk, corrupt>>
    BY <1>4 DEF proc_free_end
  <2>2. PICK m : m = {}
    OBVIOUS
  <2>3. m \in SUBSET Area /\ mapped' = [mapped EXCEPT ![p] = m]
    BY <2>1, <2>2
  <2>4. /\ strayed' \in SUBSET Procs /\ \A q \in Procs \ {p} : q \in strayed' <=> q \in strayed
        /\ list_lk' \in Procs \cup {NULL}
    BY <2>1, <1>1 DEF TypeOK
  <2> QED
    BY <2>1, <2>3, <2>4, <1>1, KeepListStep
<1> QED
  BY <1>3, <1>4

\* exec destroys the old table.
LEMMA ExecStep ==
    ASSUME IInv, NEW p \in Procs, proc_exec(p)
    PROVE  IInv'
<1>1. /\ ~corrupt /\ state[p] = "live" /\ TypeOK
      /\ state' = [state EXCEPT ![p] = "exec"]
      /\ mapped' = [mapped EXCEPT ![p] = {}] /\ strayed' = strayed \ {p}
      /\ UNCHANGED <<child, list, pool, list_lk, corrupt>>
  BY DEF proc_exec, Running, IInv
<1>2. PICK m : m = {}
  OBVIOUS
<1>3. m \in SUBSET Area /\ mapped' = [mapped EXCEPT ![p] = m]
  BY <1>1, <1>2
<1>4. /\ strayed' \in SUBSET Procs /\ \A q \in Procs \ {p} : q \in strayed' <=> q \in strayed
      /\ list_lk' \in Procs \cup {NULL}
  BY <1>1 DEF TypeOK
<1> QED
  BY <1>1, <1>2, <1>3, <1>4, KeepListStep

\* One node goes back.
LEMMA RegionFreeStep ==
    ASSUME IInv, NEW p \in Procs, mmap_region_free(p)
    PROVE  IInv'
<1>1. /\ state[p] \in {"exec", "free"} /\ ~corrupt /\ list[p] # <<>>
      /\ list' = [list EXCEPT ![p] = Tail(list[p])]
      /\ pool' = pool + 1
      /\ UNCHANGED <<state, child, list_lk, mapped, strayed, corrupt>>
  BY DEF mmap_region_free, SetList
<1>2. TypeOK /\ Execs
  BY <1>1 DEF IInv
<1>3. /\ list[p] \in Seq(Regions) /\ Len(list[p]) \in Nat
      /\ \A k \in 1..Len(list[p]) : End(list[p][k]) <= NM
  BY TypeFacts
<1>4. PICK new : new = Tail(list[p])
  OBVIOUS
<1>5. /\ new \in Seq(Regions) /\ Len(new) = Len(list[p]) - 1 /\ Len(new) \in Nat
      /\ \A k \in 1..Len(new) : new[k] = list[p][k + 1]
  BY <1>1, <1>3, <1>4, HeadTailProperties
<1>6. \A k \in 1..Len(new) : End(new[k]) <= NM
  <2>1. \A k \in 1..Len(new) : k + 1 \in 1..Len(list[p])
    BY <1>3, <1>5
  <2> QED
    BY <2>1, <1>3, <1>5
<1>7. pool' = pool + Len(list[p]) - Len(new) /\ pool' >= 0
  <2>1. pool \in Nat
    BY <1>2, MmapAssumption DEF TypeOK
  <2> QED
    BY <2>1, <1>1, <1>3, <1>5
<1>8. PICK v, m : v = state[p] /\ m = mapped[p]
  OBVIOUS
<1>9. /\ v \in {"exec", "free"}
      /\ state' = [state EXCEPT ![p] = v]
      /\ m \in SUBSET Area /\ mapped' = [mapped EXCEPT ![p] = m]
      /\ v = "exec" => m = {}
  BY <1>1, <1>2, <1>8 DEF TypeOK, Execs
<1>10. strayed' = strayed /\ strayed' \in SUBSET Procs /\ list_lk' \in Procs \cup {NULL}
  BY <1>1, <1>2 DEF TypeOK
<1>11. list' = [list EXCEPT ![p] = new] /\ state[p] # "new"
  BY <1>1, <1>4
<1> QED
  BY <1>1, <1>5, <1>6, <1>7, <1>9, <1>10, <1>11, ProcessStep

\* The two nodes of the new list.
LEMMA ExecNodeStep ==
    ASSUME IInv, NEW p \in Procs, exec_first(p) \/ exec_second(p)
    PROVE  IInv'
<1>1. ~corrupt /\ TypeOK /\ Execs /\ state[p] \in {"exec", "exec2"}
  BY DEF exec_first, exec_second, IInv
<1>2. /\ pool > 0 /\ pool' = pool - 1 /\ pool \in Nat
      /\ UNCHANGED <<child, list_lk, mapped, strayed, corrupt>>
  BY <1>1, MmapAssumption DEF exec_first, exec_second, TypeOK
<1>3. PICK m : m = {}
  OBVIOUS
<1>4. /\ m \in SUBSET Area /\ mapped' = [mapped EXCEPT ![p] = m]
      /\ strayed' = strayed /\ strayed' \in SUBSET Procs /\ list_lk' \in Procs \cup {NULL}
  BY <1>1, <1>2, <1>3 DEF TypeOK, Execs
<1>5. CASE exec_first(p)
  <2>1. /\ state[p] = "exec" /\ list[p] = <<>>
        /\ list' = [list EXCEPT ![p] = <<Region(0, 0)>>]
        /\ state' = [state EXCEPT ![p] = "exec2"]
    BY <1>5 DEF exec_first, SetList
  <2>2. PICK new : new = <<Region(0, 0)>>
    OBVIOUS
  <2>3. Region(0, 0) \in Regions /\ End(Region(0, 0)) = 0
    BY MmapAssumption DEF Region, Regions, Area, End
  <2>4. new \in Seq(Regions) /\ Len(new) = 1 /\ new[1] = Region(0, 0)
    BY <2>2, <2>3
  <2>5. \A k \in 1..Len(new) : End(new[k]) <= NM
    BY <2>3, <2>4, MmapAssumption
  <2>6. pool' = pool + Len(list[p]) - Len(new) /\ pool' >= 0
    <3>1. Len(list[p]) = 0
      BY <2>1
    <3> QED
      BY <3>1, <2>4, <1>2
  <2>7. list' = [list EXCEPT ![p] = new] /\ state[p] # "new"
    BY <2>1, <2>2
  <2> QED
    BY <2>1, <2>4, <2>5, <2>6, <2>7, <1>1, <1>2, <1>3, <1>4, ProcessStep
<1>6. CASE exec_second(p)
  <2>1. /\ state[p] = "exec2" /\ Len(list[p]) = 1
        /\ list' = [list EXCEPT ![p] = FreshList]
        /\ state' = [state EXCEPT ![p] = "live"]
    BY <1>1, <1>6 DEF exec_second, SetList, Execs
  <2>2. PICK new : new = FreshList
    OBVIOUS
  <2>3. /\ new \in Seq(Regions) /\ Len(new) = 2 /\ Ordered(new) /\ Free(new) = Area
        /\ \A k \in 1..Len(new) : End(new[k]) <= NM
    BY <2>2, FreshFacts
  <2>4. new # <<>> /\ m = Area \ Free(new)
    BY <2>3, <1>3
  <2>5. pool' = pool + Len(list[p]) - Len(new) /\ pool' >= 0
    BY <2>1, <2>3, <1>2
  <2>6. list' = [list EXCEPT ![p] = new] /\ state[p] # "new"
    BY <2>1, <2>2
  <2>7. ~corrupt /\ child' = child /\ corrupt' = corrupt
    BY <1>1, <1>2
  <2>8. state' = [state EXCEPT ![p] = "live"]
    BY <2>1
  <2> QED
    BY <2>3, <2>4, <2>5, <2>6, <2>7, <2>8, <1>4, ProcessStep
<1> QED
  BY <1>5, <1>6

LEMMA FaultStep ==
    ASSUME IInv, NEW p \in Procs, NEW a \in Area, handle_page_fault(p, a)
    PROVE  IInv'
<1>1. /\ ~corrupt /\ TypeOK /\ state[p] = "live" /\ Slots
      /\ mapped' = [mapped EXCEPT ![p] = @ \cup {a}]
      /\ strayed' = strayed \cup {p}
      /\ UNCHANGED <<state, child, list, pool, list_lk, corrupt>>
  BY DEF handle_page_fault, Running, IInv
<1>2. PICK m : m = mapped[p] \cup {a}
  OBVIOUS
<1>3. m \in SUBSET Area /\ mapped' = [mapped EXCEPT ![p] = m]
  BY <1>1, <1>2 DEF TypeOK
<1>4. /\ strayed' \in SUBSET Procs /\ \A q \in Procs \ {p} : q \in strayed' <=> q \in strayed
      /\ list_lk' \in Procs \cup {NULL} /\ p \in strayed'
  BY <1>1 DEF TypeOK
<1>5. state' = [state EXCEPT ![p] = "live"] /\ list[p] # <<>>
  BY <1>1 DEF TypeOK, Slots
<1> QED
  BY <1>1, <1>3, <1>4, <1>5, KeepListStep

LEMMA InitInv == Init => IInv
<1> SUFFICES ASSUME Init PROVE IInv
  OBVIOUS
<1>1. PICK p \in Procs :
        /\ state = [q \in Procs |-> IF q = p THEN "live" ELSE "unused"]
        /\ list = [q \in Procs |-> IF q = p THEN FreshList ELSE <<>>]
  BY DEF Init
<1>2. /\ pool = N_MMAP - 3 /\ list_lk = NULL /\ strayed = {} /\ corrupt = FALSE
      /\ mapped = [q \in Procs |-> {}] /\ child = [q \in Procs |-> NULL]
  BY DEF Init
<1>3. list \in [Procs -> Seq(Regions)]
  BY <1>1, FreshFacts, EmptySeq
<1>4. TypeOK
  <2>1. /\ state \in [Procs -> States] /\ mapped \in [Procs -> SUBSET Area]
        /\ child \in [Procs -> Procs \cup {NULL}]
    BY <1>1, <1>2 DEF States
  <2>2. pool \in 0..(N_MMAP - 1)
    BY <1>2, MmapAssumption
  <2> QED
    BY <2>1, <2>2, <1>2, <1>3 DEF TypeOK, Regions
<1>5. list[p] = FreshList /\ \A q \in Procs \ {p} : list[q] = <<>>
  BY <1>1
<1>6. Inside
  <2> SUFFICES ASSUME NEW q \in Procs, NEW k \in DOMAIN list[q] PROVE End(list[q][k]) <= NM
    BY DEF Inside
  <2>1. list[q] \in Seq(Regions)
    BY <1>3
  <2>2. k \in 1..Len(list[q])
    BY <2>1, LenProperties
  <2>3. q = p
    BY <2>2, <1>5, EmptySeq
  <2> QED
    BY <2>2, <2>3, <1>5, FreshFacts
<1>7. Slots
  BY <1>1, <1>5, FreshFacts, EmptySeq DEF Slots
<1>8. NodesInv
  <2>1. Others(list, p) = {}
    <3>1. ASSUME NEW q \in Procs \ {p} PROVE DOMAIN list[q] = {}
      <4>1. list[q] \in Seq(Regions) /\ Len(list[q]) = 0
        BY <1>3, <1>5, EmptySeq
      <4>2. DOMAIN list[q] = 1..0
        BY <4>1, LenProperties
      <4> QED
        BY <4>2
    <3> QED
      BY <3>1 DEF Others
  <2>2. IsFiniteSet(Others(list, p)) /\ Cardinality(Others(list, p)) = 0
    BY <2>1, FS_EmptySet
  <2>3. IsFiniteSet(LinkedOf(list)) /\ Count(list) = Cardinality(Others(list, p)) + Len(list[p])
    BY <2>2, <1>3, OwnNodes
  <2>4. Count(list) = 2
    BY <2>2, <2>3, <1>5, FreshFacts
  <2>5. Linked = LinkedOf(list)
    BY DEF Linked, LinkedOf
  <2> QED
    BY <2>3, <2>4, <2>5, <1>2, MmapAssumption DEF NodesInv, Count
<1>9. ExactFor(p)
  BY <1>2, <1>5, FreshFacts DEF ExactFor
<1>10. \A q \in Procs : state[q] \in {"live", "unused"} /\ (state[q] = "live" => q = p)
  BY <1>1
<1>11. Forks /\ Execs
  BY <1>10 DEF Forks, Execs
<1> QED
  BY <1>4, <1>6, <1>7, <1>8, <1>9, <1>10, <1>11 DEF IInv

LEMMA NextInv == IInv /\ [Next]_vars => IInv'
<1> SUFFICES ASSUME IInv, [Next]_vars PROVE IInv'
  OBVIOUS
<1>1. CASE UNCHANGED vars
  <2>1. UNCHANGED <<state, child, list, pool, list_lk, mapped, strayed, corrupt>>
    BY <1>1 DEF vars
  <2>2. TypeOK' /\ Inside'
    BY <2>1 DEF IInv, TypeOK, Inside, End
  <2>3. ASSUME NEW p \in Procs PROVE Forking(p)' <=> Forking(p)
    BY <2>1 DEF Forking
  <2>4. ~corrupt => Slots' /\ Forks' /\ Execs'
    BY <2>1, <2>3 DEF IInv, Slots, Forks, Execs
  <2>5. ~corrupt => NodesInv'
    BY <2>1 DEF IInv, NodesInv, Linked
  <2>6. ASSUME NEW p \in Procs PROVE ExactFor(p)' <=> ExactFor(p)
    BY <2>1 DEF ExactFor
  <2> QED
    BY <2>1, <2>2, <2>4, <2>5, <2>6 DEF IInv
<1>2. CASE Next
  <2>1. PICK p \in Procs :
          \/ \E n \in 1..NM, b \in Area \cup {NULL} : uvm_mmap(p, b, n)
          \/ \E n \in 1..NM, b \in Area :
                 \/ uvm_mmap_panic(p, b, n) \/ uvm_mmap_nonode(p, b, n)
                 \/ munmap_between(p, b, n) \/ munmap_end(p, b, n) \/ munmap_panic(p, b, n)
          \/ \E c \in Procs : Fork(p, c) \/ Fork_panic(p, c)
          \/ Fork_node(p) \/ Fork_end(p)
          \/ proc_free(p) \/ proc_free_end(p)
          \/ proc_exec(p) \/ mmap_region_free(p) \/ exec_first(p) \/ exec_second(p)
          \/ mmap_region_alloc_panic(p)
          \/ \E a \in Area : handle_page_fault(p, a)
    BY <1>2 DEF Next
  <2>2. ASSUME NEW n \in 1..NM, NEW b \in Area \cup {NULL}, uvm_mmap(p, b, n) PROVE IInv'
    BY <2>2, MmapStep
  <2>3. ASSUME NEW n \in 1..NM, NEW b \in Area, uvm_mmap_panic(p, b, n) PROVE IInv'
    BY <2>3, PanicStep DEF uvm_mmap_panic, Running
  <2>4. ASSUME NEW n \in 1..NM, NEW b \in Area, uvm_mmap_nonode(p, b, n) PROVE IInv'
    BY <2>4, PanicStep DEF uvm_mmap_nonode, PoolEmpty, Running
  <2>5. ASSUME NEW n \in 1..NM, NEW b \in Area, munmap_between(p, b, n) PROVE IInv'
    BY <2>5, MunmapBetweenStep
  <2>6. ASSUME NEW n \in 1..NM, NEW b \in Area, munmap_end(p, b, n) PROVE IInv'
    BY <2>6, MunmapEndStep
  <2>7. ASSUME NEW n \in 1..NM, NEW b \in Area, munmap_panic(p, b, n) PROVE IInv'
    BY <2>7, PanicStep DEF munmap_panic, PoolEmpty, Running
  <2>8. ASSUME NEW c \in Procs, Fork(p, c) PROVE IInv'
    BY <2>8, ForkStep
  <2>9. ASSUME NEW c \in Procs, Fork_panic(p, c) PROVE IInv'
    BY <2>9, PanicStep DEF Fork_panic, Running
  <2>10. ASSUME proc_free(p) \/ proc_free_end(p) PROVE IInv'
    BY <2>10, FreeStep
  <2>11. ASSUME proc_exec(p) PROVE IInv'
    BY <2>11, ExecStep
  <2>12. ASSUME NEW a \in Area, handle_page_fault(p, a) PROVE IInv'
    BY <2>12, FaultStep
  <2>13. ASSUME Fork_node(p) PROVE IInv'
    BY <2>13, ForkNodeStep
  <2>14. ASSUME Fork_end(p) PROVE IInv'
    BY <2>14, ForkEndStep
  <2>15. ASSUME mmap_region_free(p) PROVE IInv'
    BY <2>15, RegionFreeStep
  <2>16. ASSUME exec_first(p) \/ exec_second(p) PROVE IInv'
    BY <2>16, ExecNodeStep
  <2>17. ASSUME mmap_region_alloc_panic(p) PROVE IInv'
    BY <2>17, PanicStep DEF mmap_region_alloc_panic, PoolEmpty
  <2> QED
    BY <2>1, <2>2, <2>3, <2>4, <2>5, <2>6, <2>7, <2>8, <2>9, <2>10, <2>11, <2>12, <2>13, <2>14, <2>15, <2>16, <2>17
<1> QED
  BY <1>1, <1>2

\* The inductive invariant: lists are inside the area and, for processes that
\* did not stray, ordered and exact, and all nodes are accounted for.
THEOREM Invariant == Spec => []IInv
BY InitInv, NextInv, PTL DEF Spec

-----------------------------------------------------------------------------
(***************************************************************************)
(* The properties.                                                         *)
(***************************************************************************)
\* uvm_mmap, uvm_munmap, fork and exec keep the list of free regions ordered,
\* apart and exact, for areas of any size: a page is mapped exactly when it
\* is in no region, so fork's walk copies every mapping.
THEOREM ListTheorem == Spec => []ListExact
<1>1. IInv => ListExact
  <2> SUFFICES ASSUME IInv PROVE ListExact
    OBVIOUS
  <2>1. ASSUME NEW p \in Procs PROVE Free(list[p]) \subseteq Area
    <3>1. /\ list[p] \in Seq(Regions) /\ Len(list[p]) \in Nat
          /\ \A k \in 1..Len(list[p]) : list[p][k] \in Regions /\ End(list[p][k]) <= NM
      BY TypeFacts
    <3> SUFFICES ASSUME NEW a \in Free(list[p]) PROVE a \in Area
      OBVIOUS
    <3>2. a \in Int /\ \E x \in 1..Len(list[p]) : Within(a, list[p][x])
      BY <3>1, FreePages
    <3>3. PICK x \in 1..Len(list[p]) : Within(a, list[p][x])
      BY <3>2
    <3>4. PICK r \in Regions : Within(a, r) /\ End(r) <= NM
      BY <3>1, <3>3
    <3>5. r.begin \in Nat /\ End(r) \in Int
      BY RegionFacts
    <3> QED
      BY <3>2, <3>4, <3>5, MmapAssumption DEF Within, Area
  <2> QED
    BY <2>1 DEF IInv, ListExact, ExactFor
<1> QED
  BY <1>1, Invariant, PTL

\* mmap_region_alloc and mmap_region_free lose no node and free none twice,
\* whatever the processes do and however the pool runs out.
THEOREM NodesTheorem == Spec => []NodesExact
<1>1. IInv => NodesExact
  BY DEF IInv, NodesInv, NodesExact
<1> QED
  BY <1>1, Invariant, PTL

\* The search of sys_mmap is complete: when no region has n pages, there are
\* no n consecutive pages that are not mapped.
THEOREM FitsTheorem == Spec => []FitsIfRoom
<1>1. IInv => FitsIfRoom
  <2> SUFFICES ASSUME IInv, ~corrupt, NEW p \in Procs, state[p] = "live", p \notin strayed,
                      NEW n \in 1..NM, Found(p, NULL, n) = {},
                      NEW b \in 0..(NM - n), Span(b, n) \cap mapped[p] = {}
               PROVE  FALSE
    BY DEF FitsIfRoom
  <2>1. PICK l : l = list[p]
    OBVIOUS
  <2>2. /\ l \in Seq(Regions) /\ Len(l) \in Nat
        /\ \A k \in 1..Len(l) : l[k] \in Regions /\ End(l[k]) <= NM
    BY <2>1, TypeFacts
  <2>3. Ordered(l) /\ mapped[p] = Area \ Free(l)
    BY <2>1 DEF IInv, ExactFor
  <2>4. NM \in Nat /\ n \in Nat /\ n >= 1 /\ b \in Nat /\ b + n <= NM
    BY MmapAssumption
  <2>5. \A a \in b..(b + n - 1) : a \in Area /\ a \in Free(l)
    <3>1. \A a \in b..(b + n - 1) : a \in Area /\ a \in Span(b, n)
      BY <2>4 DEF Area, Span
    <3> QED
      BY <3>1, <2>3
  <2>6. PICK k \in 1..Len(l) : Within(b, l[k])
    <3>1. b \in b..(b + n - 1)
      BY <2>4
    <3> QED
      BY <3>1, <2>2, <2>5, FreePages
  <2>7. l[k].begin \in Nat /\ l[k].npages \in Nat /\ End(l[k]) = l[k].begin + l[k].npages /\ End(l[k]) \in Int
    BY <2>2, RegionFacts
  <2>8. k # 1
    <3>1. l[1].npages = 0 /\ l[1].begin = 0
      BY <2>3 DEF Ordered, Region
    <3> QED
      BY <3>1, <2>6, <2>7, <2>4 DEF Within
  <2>9. k \in 2..Len(l) /\ l[k].npages < n
    <3>1. k \in 2..Len(l)
      BY <2>2, <2>8
    <3>2. ~ (l[k].npages >= n)
      BY <3>1, <2>1 DEF Found, Matches
    <3> QED
      BY <3>1, <3>2, <2>4, <2>7
  <2>10. PICK e \in Nat : e = End(l[k])
    BY <2>7
  <2>11. e \in b..(b + n - 1)
    <3>1. l[k].begin <= b /\ b < End(l[k])
      BY <2>6 DEF Within
    <3> QED
      BY <3>1, <2>4, <2>7, <2>9, <2>10
  <2>12. PICK j \in 1..Len(l) : Within(e, l[j])
    BY <2>2, <2>5, <2>10, <2>11, FreePages
  <2>13. l[j].begin \in Nat /\ End(l[j]) \in Int /\ l[j].begin <= e /\ e < End(l[j])
    BY <2>2, <2>12, RegionFacts DEF Within
  <2>14. j # 1
    <3>1. l[1] = Region(0, 0)
      BY <2>3 DEF Ordered
    <3>2. End(l[1]) = 0
      BY <3>1 DEF Region, End
    <3> QED
      BY <3>2, <2>10, <2>13
  <2>15. j \in 2..Len(l)
    BY <2>2, <2>14
  <2>16. j # k /\ ~ (k < j) /\ ~ (j < k)
    <3>1. j # k
      BY <2>10, <2>13
    <3>2. ~ (k < j)
      <4> SUFFICES ASSUME k < j PROVE FALSE
        OBVIOUS
      <4>1. End(l[k]) < l[j].begin
        BY <2>3, <2>9, <2>15 DEF Ordered
      <4> QED
        BY <4>1, <2>10, <2>13
    <3>3. ~ (j < k)
      <4> SUFFICES ASSUME j < k PROVE FALSE
        OBVIOUS
      <4>1. End(l[j]) < l[k].begin
        BY <2>3, <2>9, <2>15 DEF Ordered
      <4> QED
        BY <4>1, <2>7, <2>10, <2>13
    <3> QED
      BY <3>1, <3>2, <3>3
  <2> QED
    BY <2>16, <2>9, <2>15, <2>2
<1> QED
  BY <1>1, Invariant, PTL
=============================================================================
