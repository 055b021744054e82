-------------------------- MODULE VirtioDiskProofs --------------------------
(***************************************************************************)
(* Theorems about VirtioDisk, for any number of processes, descriptors and *)
(* any counter range: descriptors are accounted for, the rings never       *)
(* overflow, every request returns after its own transfer, and no wakeup   *)
(* is lost.                                                                *)
(***************************************************************************)
EXTENDS VirtioDisk, Integers, FiniteSetTheorems, WellFoundedInduction, TLAPS

-----------------------------------------------------------------------------
(***************************************************************************)
(* Remainders.                                                             *)
(***************************************************************************)
LEMMA ModRange ==
    ASSUME NEW x \in Nat, NEW m \in Nat \ {0}
    PROVE  x % m \in 0..(m - 1)
BY Z3

\* The remainder is the only number below the divisor that differs from x by
\* a multiple of it.
LEMMA ModUnique ==
    ASSUME NEW x \in Nat, NEW m \in Nat \ {0}, NEW q \in Int, NEW r \in 0..(m - 1),
           x = m * q + r
    PROVE  x % m = r
<1> DEFINE k == x \div m
           s == x % m
<1>1. x = m * k + s /\ k \in Int /\ s \in 0..(m - 1)
  BY Z3
<1> HIDE DEF k, s
<1>2. r - s = m * (k - q) /\ k - q \in Int
  BY <1>1
<1>3. ASSUME NEW d \in Int, r - s = m * d PROVE d = 0
  <2>1. ~ (d >= 1)
    <3> SUFFICES ASSUME d >= 1 PROVE FALSE
      OBVIOUS
    <3>1. m * d >= m
      OBVIOUS
    <3> QED
      BY <3>1, <1>1, <1>3
  <2>2. ~ (d <= -1)
    <3> SUFFICES ASSUME d <= -1 PROVE FALSE
      OBVIOUS
    <3>1. m * d <= -m
      OBVIOUS
    <3> QED
      BY <3>1, <1>1, <1>3
  <2> QED
    BY <2>1, <2>2
<1>4. r = s
  BY <1>2, <1>3, <1>1
<1> QED
  BY <1>4 DEF s

\* The next position of a ring.
LEMMA ModStep ==
    ASSUME NEW x \in Nat, NEW m \in Nat \ {0}
    PROVE  (x + 1) % m = IF x % m = m - 1 THEN 0 ELSE (x % m) + 1
<1>1. PICK q \in Int : x = m * q + (x % m)
  <2>1. x = m * (x \div m) + (x % m) /\ x \div m \in Int
    BY Z3
  <2> QED
    BY <2>1
<1>2. x % m \in 0..(m - 1)
  BY ModRange
<1>3. CASE x % m = m - 1
  <2>1. x + 1 = m * (q + 1) + 0
    BY <1>1, <1>3
  <2> QED
    BY <2>1, <1>3, ModUnique, q + 1 \in Int, x + 1 \in Nat, 0 \in 0..(m - 1)
<1>4. CASE x % m # m - 1
  <2>1. x + 1 = m * q + ((x % m) + 1) /\ (x % m) + 1 \in 0..(m - 1)
    BY <1>1, <1>2, <1>4
  <2> QED
    BY <2>1, <1>4, ModUnique, x + 1 \in Nat
<1> QED
  BY <1>3, <1>4

\* The counters run around at a multiple of the ring size, so a position is
\* the same before and after.
LEMMA ModWrap ==
    ASSUME NEW x \in Nat
    PROVE  (x % WRAP) % NUM = x % NUM
<1>0. NUM \in Nat \ {0} /\ WRAP \in Nat \ {0} /\ WRAP % NUM = 0
  BY VirtioAssumption
<1>1. PICK w \in Int : WRAP = NUM * w
  <2>1. WRAP = NUM * (WRAP \div NUM) + (WRAP % NUM) /\ WRAP \div NUM \in Int
    BY <1>0, Z3
  <2> QED
    BY <2>1, <1>0
<1>2. PICK q \in Int : x = WRAP * q + (x % WRAP)
  <2>1. x = WRAP * (x \div WRAP) + (x % WRAP) /\ x \div WRAP \in Int
    BY <1>0, Z3
  <2> QED
    BY <2>1
<1> DEFINE y == x % WRAP
<1>3. y \in Nat
  BY <1>0, ModRange
<1>4. PICK k \in Int : y = NUM * k + (y % NUM)
  <2>1. y = NUM * (y \div NUM) + (y % NUM) /\ y \div NUM \in Int
    BY <1>0, <1>3, Z3
  <2> QED
    BY <2>1
<1>5. y % NUM \in 0..(NUM - 1)
  BY <1>0, <1>3, ModRange
<1> HIDE DEF y
<1>6. x = (NUM * w) * q + (NUM * k + (y % NUM))
  BY <1>1, <1>2, <1>4 DEF y
<1>7. (NUM * w) * q = NUM * (w * q) /\ w * q \in Int
  BY <1>0
<1>8. x = NUM * (w * q + k) + (y % NUM) /\ w * q + k \in Int
  <2> DEFINE z == w * q
  <2>1. z \in Int /\ x = NUM * z + (NUM * k + (y % NUM))
    BY <1>6, <1>7
  <2> HIDE DEF z
  <2>2. x = NUM * (z + k) + (y % NUM)
    BY <2>1, <1>0, <1>5
  <2> QED
    BY <2>1, <2>2 DEF z
<1> QED
  BY <1>8, <1>5, <1>0, ModUnique DEF y

-----------------------------------------------------------------------------
(***************************************************************************)
(* A ring with its two positions.                                          *)
(***************************************************************************)
\* The position after x.
Succ(x) == IF x = NUM - 1 THEN 0 ELSE x + 1

\* A counter below WRAP, advanced: it stays below WRAP, and its position in
\* the ring is the next one.
LEMMA CounterStep ==
    ASSUME NEW x \in 0..(WRAP - 1)
    PROVE  /\ (x + 1) % WRAP = IF x = WRAP - 1 THEN 0 ELSE x + 1
           /\ (x + 1) % WRAP \in 0..(WRAP - 1)
           /\ x % NUM \in Descs
           /\ ((x + 1) % WRAP) % NUM = Succ(x % NUM)
<1>0. NUM \in Nat \ {0} /\ WRAP \in Nat \ {0}
  BY VirtioAssumption
<1>1. x \in Nat /\ x + 1 \in Nat
  BY <1>0
<1>2. x % WRAP = x
  BY <1>0, <1>1, ModUnique, x = WRAP * 0 + x, 0 \in Int
<1>3. (x + 1) % WRAP = IF x = WRAP - 1 THEN 0 ELSE x + 1
  BY <1>0, <1>1, <1>2, ModStep
<1>4. (x + 1) % WRAP \in 0..(WRAP - 1) /\ x % NUM \in Descs
  BY <1>0, <1>1, ModRange DEF Descs
<1>5. ((x + 1) % WRAP) % NUM = (x + 1) % NUM
  BY <1>1, ModWrap
<1>6. (x + 1) % NUM = Succ(x % NUM)
  BY <1>0, <1>1, ModStep DEF Succ
<1> QED
  BY <1>3, <1>4, <1>5, <1>6

\* A position of the ring, advanced.
LEMMA PositionStep ==
    ASSUME NEW d \in Descs
    PROVE  d % NUM = d /\ (d + 1) % NUM = Succ(d) /\ Succ(d) \in Descs
<1>0. NUM \in Nat \ {0}
  BY VirtioAssumption
<1>1. d \in Nat /\ d \in 0..(NUM - 1) /\ d = NUM * 0 + d
  BY <1>0 DEF Descs
<1>2. d % NUM = d
  BY <1>0, <1>1, ModUnique, 0 \in Int
<1>3. (d + 1) % NUM = Succ(d)
  BY <1>0, <1>1, <1>2, ModStep DEF Succ
<1>4. Succ(d) \in Descs
  BY <1>0, <1>1 DEF Succ, Descs
<1> QED
  BY <1>2, <1>3, <1>4

\* How far one counter is ahead of another, and the counters advanced.
LEMMA Distance ==
    ASSUME NEW a \in 0..(WRAP - 1), NEW b \in 0..(WRAP - 1)
    PROVE  (a + WRAP - b) % WRAP = IF a >= b THEN a - b ELSE (a + WRAP) - b
<1>0. WRAP \in Nat \ {0}
  BY VirtioAssumption
<1>1. a + WRAP - b \in Nat
  BY <1>0
<1>2. CASE a >= b
  <2>1. a + WRAP - b = WRAP * 1 + (a - b) /\ a - b \in 0..(WRAP - 1)
    BY <1>0, <1>2
  <2> QED
    BY <1>0, <1>1, <1>2, <2>1, ModUnique, 1 \in Int
<1>3. CASE ~ (a >= b)
  <2>1. a + WRAP - b = WRAP * 0 + ((a + WRAP) - b) /\ (a + WRAP) - b \in 0..(WRAP - 1)
    BY <1>0, <1>3
  <2> QED
    BY <1>0, <1>1, <1>3, <2>1, ModUnique, 0 \in Int
<1> QED
  BY <1>2, <1>3

\* A ring with another empty position than its end has room for one more.
LEMMA LiveRoom ==
    ASSUME NEW f \in [Descs -> Descs \cup {NULL}], NEW h \in Descs, NEW t \in Descs,
           Live(f, h, t),
           NEW e \in Descs, e # t, f[e] = NULL
    PROVE  Ahead(Succ(t), h) = Ahead(t, h) + 1
<1>0. NUM \in Nat /\ NUM >= 3 /\ NULL \notin Descs
  BY VirtioAssumption DEF Descs
<1>2. Ahead(e, h) >= Ahead(t, h)
  BY <1>0 DEF Live, Ahead, Descs
<1> QED
  BY <1>0, <1>2 DEF Ahead, Succ, Descs

\* An entry is written at the end of such a ring.
LEMMA LivePut ==
    ASSUME NEW f \in [Descs -> Descs \cup {NULL}], NEW h \in Descs, NEW t \in Descs, NEW i \in Descs,
           Live(f, h, t),
           NEW e \in Descs, e # t, f[e] = NULL
    PROVE  Live([f EXCEPT ![t] = i], h, Succ(t))
<1>0. NUM \in Nat /\ NUM >= 3 /\ NULL \notin Descs
  BY VirtioAssumption DEF Descs
<1>1. Ahead(Succ(t), h) = Ahead(t, h) + 1
  BY LiveRoom
<1>2. ASSUME NEW d \in Descs
      PROVE  [f EXCEPT ![t] = i][d] # NULL <=> Ahead(d, h) < Ahead(Succ(t), h)
  <2>1. CASE d = t
    BY <1>0, <1>1, <2>1 DEF Ahead, Descs
  <2>2. CASE d # t
    <3>1. [f EXCEPT ![t] = i][d] = f[d]
      BY <2>2
    <3>2. Ahead(d, h) # Ahead(t, h)
      BY <1>0, <2>2 DEF Ahead, Descs
    <3>3. Ahead(d, h) \in Int /\ Ahead(t, h) \in Int
      BY <1>0 DEF Ahead, Descs
    <3> QED
      BY <3>1, <3>2, <3>3, <1>1 DEF Live
  <2> QED
    BY <2>1, <2>2
<1> QED
  BY <1>2 DEF Live

\* The first entry of a ring that is not empty is taken.
LEMMA LiveTake ==
    ASSUME NEW f \in [Descs -> Descs \cup {NULL}], NEW h \in Descs, NEW t \in Descs, h # t,
           Live(f, h, t)
    PROVE  /\ f[h] # NULL
           /\ Live([f EXCEPT ![h] = NULL], Succ(h), t)
           /\ Ahead(t, Succ(h)) = Ahead(t, h) - 1
<1>0. NUM \in Nat /\ NUM >= 3 /\ NULL \notin Descs
  BY VirtioAssumption DEF Descs
<1>1. f[h] # NULL
  BY <1>0 DEF Live, Ahead, Descs
<1>2. Ahead(t, Succ(h)) = Ahead(t, h) - 1
  BY <1>0 DEF Ahead, Succ, Descs
<1>3. ASSUME NEW d \in Descs
      PROVE  [f EXCEPT ![h] = NULL][d] # NULL <=> Ahead(d, Succ(h)) < Ahead(t, Succ(h))
  <2>1. CASE d = h
    <3>1. Ahead(h, Succ(h)) >= Ahead(t, Succ(h))
      BY <1>0 DEF Ahead, Succ, Descs
    <3>2. Ahead(h, Succ(h)) \in Int /\ Ahead(t, Succ(h)) \in Int
      BY <1>0 DEF Ahead, Succ, Descs
    <3> QED
      BY <2>1, <3>1, <3>2
  <2>2. CASE d # h
    <3>1. [f EXCEPT ![h] = NULL][d] = f[d]
      BY <2>2
    <3>2. Ahead(d, Succ(h)) = Ahead(d, h) - 1
      BY <1>0, <2>2 DEF Ahead, Succ, Descs
    <3>3. Ahead(d, h) \in Int /\ Ahead(t, h) \in Int
      BY <1>0 DEF Ahead, Descs
    <3> QED
      BY <3>1, <3>2, <3>3, <1>2 DEF Live
  <2> QED
    BY <2>1, <2>2
<1> QED
  BY <1>1, <1>2, <1>3 DEF Live

\* A ring whose live entries are distinct and miss a descriptor is not full.
LEMMA RingNotFull ==
    ASSUME NEW f \in [Descs -> Descs \cup {NULL}], NEW e \in Descs,
           \A c, d \in Descs : f[c] # NULL /\ c # d => f[c] # f[d],
           \A c \in Descs : f[c] # e
    PROVE  \E d \in Descs : f[d] = NULL
<1> SUFFICES ASSUME \A d \in Descs : f[d] # NULL PROVE FALSE
  OBVIOUS
<1>0. IsFiniteSet(Descs)
  BY VirtioAssumption, FS_Interval, 0 \in Int, NUM - 1 \in Int DEF Descs
<1>1. f \in [Descs -> Descs \ {e}]
  BY Zenon
<1>2. f \in Injection(Descs, Descs \ {e})
  BY <1>1 DEF Injection, IsInjective
<1>3. IsFiniteSet(Descs \ {e}) /\ Cardinality(Descs \ {e}) = Cardinality(Descs) - 1
  BY <1>0, FS_RemoveElement
<1>4. Cardinality(Descs) <= Cardinality(Descs \ {e})
  BY <1>0, <1>2, <1>3, FS_Injection
<1>5. Cardinality(Descs) \in Nat
  BY <1>0, FS_CardinalityType
<1> QED
  BY <1>3, <1>4, <1>5

-----------------------------------------------------------------------------
(***************************************************************************)
(* Allocation takes three descriptors that are free.                       *)
(***************************************************************************)
LEMMA LeastNumber ==
    ASSUME NEW S \in SUBSET Nat, S # {}
    PROVE  \E x \in S : \A y \in S : x <= y
<1> DEFINE R == OpToRel(<, Nat)
<1>1. IsWellFoundedOn(R, Nat)
  BY NatLessThanWellFounded
<1> HIDE DEF R
<1>2. PICK x \in S : \A y \in S : ~ (<<y, x>> \in R)
  BY <1>1, WFMin, Zenon
<1>3. \A y \in Nat : y < x => <<y, x>> \in R
  BY DEF OpToRel, R
<1>4. \A y \in S : x \in Nat /\ y \in Nat /\ ~ (y < x)
  BY <1>2, <1>3
<1> QED
  BY <1>4

LEMMA MinIn ==
    ASSUME NEW S \in SUBSET Nat, S # {}
    PROVE  Min(S) \in S
BY LeastNumber DEF Min

LEMMA ConstantFacts ==
    /\ NULL \notin Descs /\ NULL \notin Procs /\ NULL # "free" /\ "free" \notin Procs
    /\ Descs \subseteq Nat /\ 0 \in Descs /\ IsFiniteSet(Descs)
    /\ NUM \in Nat \ {0} /\ WRAP \in Nat \ {0}
<1>1. NUM \in Nat /\ NUM >= 3 /\ 0 \in Int /\ NUM - 1 \in Int
  BY VirtioAssumption
<1>2. IsFiniteSet(Descs)
  BY <1>1, FS_Interval DEF Descs
<1> QED
  BY <1>1, <1>2, VirtioAssumption DEF Descs

\* alloc3_desc with three free descriptors: it takes three distinct ones.
LEMMA AllocThree ==
    ASSUME free \subseteq Descs, Cardinality(free) >= 3
    PROVE  /\ First \in free /\ Second \in free /\ Third \in free
           /\ First # Second /\ First # Third /\ Second # Third
<1>1. IsFiniteSet(free) /\ Cardinality(free) \in Nat /\ free \subseteq Nat
  BY ConstantFacts, FS_Subset, FS_CardinalityType
<1>2. First \in free
  <2>1. free # {}
    BY <1>1, FS_EmptySet
  <2> QED
    BY <2>1, <1>1, MinIn DEF First
<1>3. IsFiniteSet(free \ {First}) /\ Cardinality(free \ {First}) = Cardinality(free) - 1
  BY <1>1, <1>2, FS_RemoveElement
<1>4. Second \in free \ {First}
  <2>1. free \ {First} # {}
    BY <1>1, <1>3, FS_EmptySet
  <2> QED
    BY <2>1, <1>1, MinIn DEF Second
<1>5. (free \ {First}) \ {Second} = free \ {First, Second}
  OBVIOUS
<1>6. Cardinality((free \ {First}) \ {Second}) = Cardinality(free \ {First}) - 1
  BY <1>3, <1>4, FS_RemoveElement
<1>7. Third \in free \ {First, Second}
  <2>1. free \ {First, Second} # {}
    BY <1>1, <1>3, <1>5, <1>6, FS_EmptySet
  <2> QED
    BY <2>1, <1>1, MinIn DEF Third
<1> QED
  BY <1>2, <1>4, <1>7

-----------------------------------------------------------------------------
(***************************************************************************)
(* The invariant is inductive: one lemma per action.                       *)
(***************************************************************************)
LEMMA InitInv == Init => IInv
<1> SUFFICES ASSUME Init PROVE IInv
  OBVIOUS
<1> USE ConstantFacts DEF Init
<1>1. TypeOK
  <2>1. 0 \in 0..(WRAP - 1)
    OBVIOUS
  <2> QED
    BY <2>1 DEF TypeOK
<1>2. Heads = {}
  BY DEF Heads
<1>3. ChainInv /\ OwnerInv /\ PlaceInv
  BY <1>2 DEF ChainInv, OwnerInv, PlaceInv
<1>4. RingInv
  <2>1. (avail_id + WRAP - seen) % WRAP = 0
    BY Distance, avail_id \in 0..(WRAP - 1), seen \in 0..(WRAP - 1)
  <2>2. avail_id % NUM = 0
    BY PositionStep
  <2> QED
    BY <2>1, <2>2 DEF RingInv, Live, Ahead, Descs
<1>5. OwnTransfer /\ NoLostWakeup
  BY DEF OwnTransfer, NoLostWakeup
<1> QED
  BY <1>1, <1>3, <1>4, <1>5 DEF IInv

\* Steps that touch neither descriptors, rings nor requests.
LEMMA QuietStep ==
    ASSUME IInv, UNCHANGED <<dvars, used_idx, rings, device, disk>>,
           \A p \in Procs : pc'[p] = "wait" <=> pc[p] = "wait"
    PROVE  /\ ChainInv' /\ PlaceInv' /\ RingInv' /\ OwnTransfer'
           /\ (\A p \in Procs : chan'[p] \in {NULL, "free", p}) => OwnerInv'
<1> USE DEF IInv, dvars, rings, device
<1>0. Heads' = Heads
  BY DEF Heads
<1>1. ChainInv'
  BY <1>0 DEF ChainInv, Chain
<1>2. PlaceInv'
  BY <1>0 DEF PlaceInv
<1>3. RingInv'
  BY DEF RingInv, Live
<1>4. OwnTransfer'
  BY DEF OwnTransfer
<1>5. ASSUME \A p \in Procs : chan'[p] \in {NULL, "free", p} PROVE OwnerInv'
  <2>1. \A i \in Heads : info[i] \in Procs
    BY DEF TypeOK, Heads
  <2> QED
    BY <1>0, <1>5, <2>1 DEF OwnerInv
<1> QED
  BY <1>1, <1>2, <1>3, <1>4, <1>5

\* A process starts a transfer.
LEMMA virtio_disk_rw_Step ==
    ASSUME IInv, NEW p \in Procs, virtio_disk_rw(p)
    PROVE  IInv'
<1> USE DEF IInv, virtio_disk_rw, Goto, dvars, rings, device
<1>1. TypeOK'
  BY DEF TypeOK
<1>2. \A q \in Procs : pc'[q] = "wait" <=> pc[q] = "wait"
  BY DEF TypeOK
<1>3. \A q \in Procs : chan'[q] \in {NULL, "free", q}
  BY DEF OwnerInv
<1>4. NoLostWakeup'
  BY DEF NoLostWakeup
<1> QED
  BY <1>1, <1>2, <1>3, <1>4, QuietStep

\* A process finds too few descriptors and sleeps for them.
LEMMA AllocFail_Step ==
    ASSUME IInv, NEW p \in Procs, AllocFail(p)
    PROVE  IInv'
<1> USE ConstantFacts DEF IInv, AllocFail, dvars, rings, device
<1>1. TypeOK'
  BY DEF TypeOK, Woken
<1>2. \A q \in Procs : chan'[q] = IF q = p THEN "free" ELSE chan'[q]
  BY DEF TypeOK, Woken
<1>3. \A q \in Procs : q # p => chan'[q] \in {chan[q], NULL}
  BY DEF TypeOK, Woken
<1>4. \A q \in Procs : chan'[q] \in {NULL, "free", q}
  BY <1>2, <1>3 DEF OwnerInv
<1>5. NoLostWakeup'
  BY <1>2, <1>3 DEF NoLostWakeup, OwnerInv
<1> QED
  BY <1>1, <1>4, <1>5, QuietStep

\* The handler starts, finds no more completions, or acknowledges.
LEMMA HandlerQuiet_Step ==
    ASSUME IInv, IntrEnter \/ IntrLast \/ virtio_disk_intr
    PROVE  IInv'
<1> USE DEF IInv, IntrEnter, IntrLast, virtio_disk_intr, dvars, rings, device
<1>1. TypeOK'
  BY DEF TypeOK
<1>2. \A q \in Procs : chan'[q] \in {NULL, "free", q}
  BY DEF OwnerInv
<1>3. NoLostWakeup'
  BY DEF NoLostWakeup
<1> QED
  BY <1>1, <1>2, <1>3, QuietStep

\* A request is made: three free descriptors become a chain, and its head the
\* last entry of avail, which had room.
LEMMA Submit_Step ==
    ASSUME IInv, NEW p \in Procs, Submit(p)
    PROVE  IInv'
<1> USE ConstantFacts DEF IInv, Goto
<1>0. PICK i \in free, j \in free, k \in free :
        /\ i # j /\ i # k /\ j # k
        /\ i = First /\ j = Second /\ k = Third
  BY AllocThree DEF Submit, TypeOK
<1>f. free \subseteq Descs
  BY DEF TypeOK
<1>1. /\ free' = free \ {i, j, k}
      /\ next' = [next EXCEPT ![i] = j, ![j] = k, ![k] = NULL]
      /\ addr' = [addr EXCEPT ![j] = p]
      /\ info' = [info EXCEPT ![i] = p]
      /\ avail' = [avail EXCEPT ![avail_id % NUM] = i]
      /\ avail_id' = (avail_id + 1) % WRAP
      /\ disk' = [disk EXCEPT ![p] = TRUE]
      /\ chan' = [chan EXCEPT ![p] = p]
      /\ pc' = [pc EXCEPT ![p] = "wait"] /\ pc[p] = "alloc"
      /\ UNCHANGED <<used_idx, elems, used_id, irq, device, handler, missed>>
  BY <1>0 DEF Submit, AvailPut
<1> USE DEF device
<1>2. avail_id \in 0..(WRAP - 1) /\ avail_id % NUM \in Descs
      /\ (avail_id + 1) % WRAP \in 0..(WRAP - 1)
      /\ ((avail_id + 1) % WRAP) % NUM = Succ(avail_id % NUM)
      /\ (avail_id + 1) % WRAP = IF avail_id = WRAP - 1 THEN 0 ELSE avail_id + 1
  BY CounterStep DEF TypeOK
<1>3. TypeOK'
  BY <1>0, <1>f, <1>1, <1>2 DEF TypeOK
<1>4. Heads' = Heads \cup {i}
  BY <1>0, <1>f, <1>1 DEF Heads, TypeOK
<1>5. \A h \in Heads : h \in Descs /\ h \notin {i, j, k} /\ info'[h] = info[h] /\ info[h] \in Procs /\ info[h] # p
  BY <1>0, <1>f, <1>1 DEF Heads, TypeOK, ChainInv, Chain, OwnerInv
<1>6. \A h \in Heads : /\ next'[h] = next[h] /\ next'[next[h]] = next[next[h]]
                       /\ addr'[next[h]] = addr[next[h]]
                       /\ Chain(h)' = Chain(h)
  <2> TAKE h \in Heads
  <2>1. /\ h \in Descs /\ next[h] \in Descs
        /\ h \notin free /\ next[h] \notin free
    BY <1>5 DEF ChainInv, Chain
  <2> QED
    BY <2>1, <1>0, <1>f, <1>1 DEF TypeOK, Chain
<1>7. next'[i] = j /\ next'[j] = k /\ Chain(i)' = {i, j, k} /\ addr'[j] = p /\ info'[i] = p /\ i \in Descs
  BY <1>0, <1>f, <1>1 DEF TypeOK, Chain
<1>8. ChainInv'
  <2>1. ASSUME NEW h \in Heads'
        PROVE  /\ next'[h] \in Descs /\ next'[next'[h]] \in Descs
               /\ h # next'[h] /\ h # next'[next'[h]] /\ next'[h] # next'[next'[h]]
               /\ Chain(h)' \cap free' = {}
               /\ addr'[next'[h]] = info'[h]
    <3>1. CASE h = i
      BY <3>1, <1>0, <1>f, <1>1, <1>7
    <3>2. CASE h \in Heads
      <4>1. /\ next[h] \in Descs /\ next[next[h]] \in Descs
            /\ h # next[h] /\ h # next[next[h]] /\ next[h] # next[next[h]]
            /\ Chain(h) \cap free = {}
            /\ addr[next[h]] = info[h]
        BY <3>2 DEF ChainInv
      <4>2. Chain(h)' \cap free' = {}
        BY <3>2, <4>1, <1>1, <1>6
      <4> QED
        BY <3>2, <4>1, <4>2, <1>5, <1>6
    <3> QED
      BY <2>1, <3>1, <3>2, <1>4
  <2>2. ASSUME NEW g \in Heads', NEW h \in Heads', g # h PROVE Chain(g)' \cap Chain(h)' = {}
    <3>1. \A x \in Heads : Chain(x)' \cap {i, j, k} = {}
      BY <1>0, <1>f, <1>6 DEF ChainInv
    <3>2. CASE g \in Heads /\ h \in Heads
      BY <2>2, <3>2, <1>6 DEF ChainInv
    <3>3. CASE g = i /\ h \in Heads
      BY <3>1, <3>3, <1>7
    <3>4. CASE g \in Heads /\ h = i
      BY <3>1, <3>4, <1>7
    <3> QED
      BY <2>2, <3>2, <3>3, <3>4, <1>4
  <2>3. ASSUME NEW d \in Descs, d \notin free' PROVE \E h \in Heads' : d \in Chain(h)'
    <3>1. CASE d \in {i, j, k}
      BY <3>1, <1>4, <1>7
    <3>2. CASE d \notin free
      <4>1. PICK h \in Heads : d \in Chain(h)
        BY <3>2 DEF ChainInv
      <4> QED
        BY <4>1, <1>4, <1>6
    <3> QED
      BY <2>3, <3>1, <3>2, <1>1
  <2> QED
    BY <2>1, <2>2, <2>3 DEF ChainInv
<1>9. OwnerInv'
  <2>1. \A g, h \in Heads' : info'[g] = info'[h] => g = h
    BY <1>4, <1>5, <1>7 DEF OwnerInv
  <2>2. \A h \in Heads' : pc'[info'[h]] = "wait"
    BY <1>1, <1>4, <1>5, <1>7 DEF OwnerInv, TypeOK
  <2>3. \A q \in Procs : pc'[q] = "wait" => \E h \in Descs : info'[h] = q
    <3> TAKE q \in Procs
    <3>1. CASE q = p
      BY <3>1, <1>7
    <3>2. CASE q # p
      <4>1. pc'[q] = pc[q]
        BY <3>2, <1>1 DEF TypeOK
      <4>2. ASSUME NEW h \in Descs, info[h] = q PROVE info'[h] = q
        BY <4>2, <1>5 DEF Heads
      <4> QED
        BY <4>1, <4>2 DEF OwnerInv
    <3> QED
      BY <3>1, <3>2
  <2>4. \A q \in Procs : chan'[q] \in {NULL, "free", q}
    BY <1>1 DEF OwnerInv, TypeOK
  <2> QED
    BY <2>1, <2>2, <2>3, <2>4 DEF OwnerInv
<1>10. PlaceInv'
  <2>0. /\ i \notin working /\ i # NULL
        /\ \A c \in Descs : avail[c] # i /\ elems[c] # i
    BY <1>0, <1>f, <1>5 DEF PlaceInv
  <2>1. \A h \in Heads : disk[info[h]] => disk'[info'[h]]
    BY <1>1, <1>5 DEF TypeOK
  <2>2. ASSUME NEW d \in Descs, avail'[d] # NULL
        PROVE  /\ avail'[d] \in Heads' \ working
               /\ disk'[info'[avail'[d]]]
               /\ \A c \in Descs : elems[c] # avail'[d] /\ (c # d => avail'[c] # avail'[d])
    <3>1. CASE d = avail_id % NUM
      <4>1. avail'[d] = i /\ \A c \in Descs : c # d => avail'[c] = avail[c]
        BY <3>1, <1>1, <1>2 DEF TypeOK
      <4>2. disk'[info'[i]]
        BY <1>1, <1>7 DEF TypeOK
      <4> QED
        BY <4>1, <4>2, <2>0, <1>4
    <3>2. CASE d # avail_id % NUM
      <4>1. avail'[d] = avail[d] /\ \A c \in Descs : avail'[c] = avail[c] \/ avail'[c] = i
        BY <3>2, <1>1, <1>2 DEF TypeOK
      <4>2. avail[d] \in Heads \ working /\ disk[info[avail[d]]]
        BY <4>1, <2>2 DEF PlaceInv
      <4>3. \A c \in Descs : elems[c] # avail[d] /\ (c # d => avail[c] # avail[d])
        BY <4>1, <2>2 DEF PlaceInv
      <4> QED
        BY <4>1, <4>2, <4>3, <2>0, <2>1, <1>4
    <3> QED
      BY <3>1, <3>2
  <2>3. \A h \in working : h \in Heads' /\ disk'[info'[h]]
    BY <2>1, <1>4 DEF PlaceInv
  <2>4. \A d \in Descs : elems[d] # NULL =>
          /\ elems[d] \in Heads' \ working
          /\ disk'[info'[elems[d]]]
          /\ info'[elems[d]] \in moved
          /\ \A c \in Descs : c # d => elems[c] # elems[d]
    BY <2>1, <1>4, <1>5 DEF PlaceInv
  <2>5. elems' = elems /\ working' = working /\ moved' = moved
    BY <1>1
  <2> QED
    BY <2>2, <2>3, <2>4, <2>5 DEF PlaceInv
<1>11. RingInv'
  <2>1. \E e \in Descs : avail'[e] = NULL
    <3>1. avail' \in [Descs -> Descs \cup {NULL}]
      BY <1>3 DEF TypeOK
    <3>2. \A c, d \in Descs : avail'[c] # NULL /\ c # d => avail'[c] # avail'[d]
      BY <1>10 DEF PlaceInv
    <3>3. \A c \in Descs : avail'[c] # j
      <4>1. j \notin Heads' /\ j # NULL
        BY <1>0, <1>f, <1>4, <1>5
      <4> QED
        BY <4>1, <1>10 DEF PlaceInv
    <3>4. j \in Descs
      BY <1>0, <1>f
    <3> QED
      BY <3>1, <3>2, <3>3, <3>4, RingNotFull
  <2>2. seen \in 0..(WRAP - 1) /\ seen % NUM \in Descs
    BY CounterStep DEF TypeOK
  <2>3. /\ Live(avail', seen % NUM, Succ(avail_id % NUM))
        /\ Ahead(Succ(avail_id % NUM), seen % NUM) = Ahead(avail_id % NUM, seen % NUM) + 1
    <3>1. PICK e \in Descs : avail'[e] = NULL
      BY <2>1
    <3>2. Live(avail, seen % NUM, avail_id % NUM)
      BY DEF RingInv
    <3>3. avail \in [Descs -> Descs \cup {NULL}]
      BY DEF TypeOK
    <3>4. i \in Descs
      BY <1>0, <1>f
    <3>5. e # avail_id % NUM /\ avail[e] = NULL
      BY <3>1, <3>3, <3>4, <1>1, <1>2
    <3>6. avail_id % NUM \in Descs /\ seen % NUM \in Descs
      BY <2>2, <1>2
    <3>7. Live([avail EXCEPT ![avail_id % NUM] = i], seen % NUM, Succ(avail_id % NUM))
      BY <3>2, <3>3, <3>4, <3>5, <3>6, LivePut
    <3>8. Ahead(Succ(avail_id % NUM), seen % NUM) = Ahead(avail_id % NUM, seen % NUM) + 1
      BY <3>2, <3>3, <3>5, <3>6, LiveRoom
    <3> QED
      BY <3>7, <3>8, <1>1
  <2>4. (avail_id' + WRAP - seen) % WRAP = Ahead(avail_id % NUM, seen % NUM) + 1
    <3>1. (avail_id + WRAP - seen) % WRAP = Ahead(avail_id % NUM, seen % NUM)
      BY DEF RingInv
    <3>2. Ahead(Succ(avail_id % NUM), seen % NUM) < NUM /\ NUM <= WRAP
      <4>1. Succ(avail_id % NUM) \in Descs
        BY <1>2 DEF Succ, Descs
      <4>2. NUM <= WRAP
        <5> SUFFICES ASSUME WRAP < NUM PROVE FALSE
          OBVIOUS
        <5>1. WRAP % NUM = WRAP
          BY ModUnique, WRAP = NUM * 0 + WRAP, 0 \in Int, WRAP \in 0..(NUM - 1)
        <5> QED
          BY <5>1, VirtioAssumption
      <4> QED
        BY <2>2, <4>1, <4>2 DEF Ahead, Descs
    <3>3. Ahead(avail_id % NUM, seen % NUM) + 1 < WRAP
      <4>1. Ahead(avail_id % NUM, seen % NUM) \in Int
        BY <1>2, <2>2 DEF Ahead, Descs
      <4> QED
        BY <4>1, <3>2, <2>3
    <3>4. /\ (avail_id + WRAP - seen) % WRAP = IF avail_id >= seen THEN avail_id - seen ELSE (avail_id + WRAP) - seen
          /\ (avail_id' + WRAP - seen) % WRAP = IF avail_id' >= seen THEN avail_id' - seen ELSE (avail_id' + WRAP) - seen
      BY <1>1, <1>2, <2>2, Distance
    <3> QED
      BY <3>1, <3>3, <3>4, <2>2, <1>1, <1>2
  <2>5. Live(elems, used_idx, used_id % NUM)
    BY DEF RingInv
  <2> QED
    BY <2>3, <2>4, <2>5, <1>1, <1>2 DEF RingInv, Live
<1>12. OwnTransfer'
  BY <1>1 DEF OwnTransfer, TypeOK
<1>13. NoLostWakeup'
  <2>1. Cardinality(free') <= Cardinality(free) /\ Cardinality(free) \in Nat /\ Cardinality(free') \in Nat
    BY <1>0, <1>f, <1>1, FS_Subset, FS_CardinalityType
  <2> QED
    BY <2>1, <1>1 DEF NoLostWakeup, TypeOK
<1> QED
  BY <1>3, <1>8, <1>9, <1>10, <1>11, <1>12, <1>13

\* A request returns: it is in no ring any more, and its chain is freed.
LEMMA Finish_Step ==
    ASSUME IInv, NEW p \in Procs, Finish(p)
    PROVE  IInv'
<1> USE ConstantFacts DEF IInv, Goto
<1>0. PICK i \in Descs : i = CHOOSE x \in Descs : info[x] = p
  BY DEF Finish, OwnerInv
<1>1. info[i] = p /\ i \in Heads
  BY <1>0 DEF Finish, OwnerInv, Heads
<1>2. /\ free' = free \cup Chain(i)
      /\ addr' = [d \in Descs |-> IF d \in Chain(i) THEN NULL ELSE addr[d]]
      /\ next' = [d \in Descs |-> IF d \in Chain(i) THEN NULL ELSE next[d]]
      /\ info' = [info EXCEPT ![i] = NULL]
      /\ chan' = Woken("free")
      /\ moved' = moved \ {p}
      /\ pc' = [pc EXCEPT ![p] = "idle"] /\ pc[p] = "wait" /\ ~ disk[p]
      /\ UNCHANGED <<used_idx, rings, irq, seen, working, disk, handler, missed>>
  BY <1>0 DEF Finish
<1> USE DEF rings
<1>3. Chain(i) \subseteq Descs
  <2>1. next[i] \in Descs /\ next[next[i]] \in Descs
    BY <1>1 DEF ChainInv
  <2> QED
    BY <2>1 DEF Chain
<1>4. TypeOK'
  BY <1>1, <1>2, <1>3 DEF TypeOK, Woken
<1>5. Heads' = Heads \ {i}
  BY <1>1, <1>2 DEF Heads, TypeOK
<1>6. \A h \in Heads' : /\ h \in Heads /\ h \in Descs /\ Chain(h) \cap Chain(i) = {}
                        /\ info'[h] = info[h] /\ info[h] \in Procs /\ info[h] # p
  BY <1>1, <1>2, <1>5 DEF Heads, TypeOK, ChainInv, OwnerInv
<1>7. \A h \in Heads' : /\ next'[h] = next[h] /\ next'[next[h]] = next[next[h]]
                        /\ addr'[next[h]] = addr[next[h]]
                        /\ Chain(h)' = Chain(h)
  <2> TAKE h \in Heads'
  <2>1. h \in Descs /\ next[h] \in Descs /\ h \notin Chain(i) /\ next[h] \notin Chain(i)
    BY <1>6 DEF ChainInv, Chain
  <2> QED
    BY <2>1, <1>2 DEF Chain
<1>8. ChainInv'
  <2>1. ASSUME NEW h \in Heads'
        PROVE  /\ next'[h] \in Descs /\ next'[next'[h]] \in Descs
               /\ h # next'[h] /\ h # next'[next'[h]] /\ next'[h] # next'[next'[h]]
               /\ Chain(h)' \cap free' = {}
               /\ addr'[next'[h]] = info'[h]
    <3>1. /\ next[h] \in Descs /\ next[next[h]] \in Descs
          /\ h # next[h] /\ h # next[next[h]] /\ next[h] # next[next[h]]
          /\ Chain(h) \cap free = {}
          /\ addr[next[h]] = info[h]
      BY <1>6 DEF ChainInv
    <3>2. Chain(h)' \cap free' = {}
      BY <3>1, <1>2, <1>6, <1>7
    <3> QED
      BY <3>1, <3>2, <1>6, <1>7
  <2>2. \A g, h \in Heads' : g # h => Chain(g)' \cap Chain(h)' = {}
    BY <1>6, <1>7 DEF ChainInv
  <2>3. ASSUME NEW d \in Descs, d \notin free' PROVE \E h \in Heads' : d \in Chain(h)'
    <3>1. PICK h \in Heads : d \in Chain(h)
      BY <2>3, <1>2 DEF ChainInv
    <3>2. h \in Heads'
      BY <2>3, <3>1, <1>2, <1>5
    <3> QED
      BY <3>1, <3>2, <1>7
  <2> QED
    BY <2>1, <2>2, <2>3 DEF ChainInv
<1>9. \A q \in Procs : chan'[q] \in {chan[q], NULL} /\ chan'[q] # "free"
  BY <1>2 DEF Woken
<1>10. OwnerInv'
  <2>1. \A g, h \in Heads' : info'[g] = info'[h] => g = h
    BY <1>6 DEF OwnerInv
  <2>2. \A h \in Heads' : pc'[info'[h]] = "wait"
    BY <1>2, <1>6 DEF OwnerInv, TypeOK
  <2>3. ASSUME NEW q \in Procs, pc'[q] = "wait" PROVE \E h \in Descs : info'[h] = q
    <3>1. q # p /\ pc[q] = "wait"
      BY <2>3, <1>2 DEF TypeOK
    <3>2. PICK h \in Descs : info[h] = q
      BY <3>1 DEF OwnerInv
    <3> QED
      BY <3>1, <3>2, <1>1, <1>2 DEF TypeOK
  <2>4. \A q \in Procs : chan'[q] \in {NULL, "free", q}
    BY <1>9 DEF OwnerInv
  <2> QED
    BY <2>1, <2>2, <2>3, <2>4 DEF OwnerInv
<1>11. PlaceInv'
  <2>1. i \notin working /\ \A d \in Descs : avail[d] # i /\ elems[d] # i
    BY <1>1, <1>2 DEF PlaceInv
  <2>2. \A h \in Heads : h # i => h \in Heads' /\ info'[h] = info[h] /\ info[h] # p
    BY <1>5, <1>6
  <2>3. UNCHANGED <<avail, elems, working, disk>>
    BY <1>2
  <2>4. \A d \in Descs : avail[d] # NULL =>
          /\ avail[d] \in Heads' \ working
          /\ disk[info'[avail[d]]]
          /\ \A c \in Descs : elems[c] # avail[d] /\ (c # d => avail[c] # avail[d])
    BY <2>1, <2>2 DEF PlaceInv
  <2>5. \A h \in working : h \in Heads' /\ disk[info'[h]]
    BY <2>1, <2>2 DEF PlaceInv
  <2>6. \A d \in Descs : elems[d] # NULL =>
          /\ elems[d] \in Heads' \ working
          /\ disk[info'[elems[d]]]
          /\ info'[elems[d]] \in moved'
          /\ \A c \in Descs : c # d => elems[c] # elems[d]
    BY <2>1, <2>2, <1>2 DEF PlaceInv
  <2> QED
    BY <2>3, <2>4, <2>5, <2>6 DEF PlaceInv
<1>12. RingInv'
  BY <1>2 DEF RingInv, Live
<1>13. OwnTransfer'
  BY <1>2 DEF OwnTransfer, TypeOK
<1>14. NoLostWakeup'
  BY <1>2, <1>9 DEF NoLostWakeup
<1> QED
  BY <1>4, <1>8, <1>10, <1>11, <1>12, <1>13, <1>14

\* The disk takes the first entry of avail that it has not looked at.
LEMMA DeviceTake_Step ==
    ASSUME IInv, DeviceTake
    PROVE  IInv'
<1> USE ConstantFacts DEF IInv
<1> USE DEF dvars
<1>0. PICK h \in Descs, t \in Descs : h = seen % NUM /\ t = avail_id % NUM
  BY CounterStep DEF TypeOK
<1>1. /\ working' = working \cup {avail[h]}
      /\ seen' = (seen + 1) % WRAP
      /\ avail' = [avail EXCEPT ![h] = NULL]
      /\ UNCHANGED <<dvars, used_idx, avail_id, elems, used_id, irq, moved, disk, pc, chan, handler, missed>>
  BY <1>0 DEF DeviceTake
<1>2. /\ seen \in 0..(WRAP - 1) /\ avail_id \in 0..(WRAP - 1) /\ seen # avail_id
      /\ seen' \in 0..(WRAP - 1) /\ seen' % NUM = Succ(h)
      /\ seen' = IF seen = WRAP - 1 THEN 0 ELSE seen + 1
  <2>1. seen \in 0..(WRAP - 1) /\ avail_id \in 0..(WRAP - 1) /\ seen # avail_id
    BY DEF TypeOK, DeviceTake
  <2>2. /\ (seen + 1) % WRAP = IF seen = WRAP - 1 THEN 0 ELSE seen + 1
        /\ (seen + 1) % WRAP \in 0..(WRAP - 1)
        /\ ((seen + 1) % WRAP) % NUM = Succ(seen % NUM)
    BY <2>1, CounterStep
  <2> QED
    BY <2>1, <2>2, <1>0, <1>1
<1>3. /\ (avail_id + WRAP - seen) % WRAP = IF avail_id >= seen THEN avail_id - seen ELSE (avail_id + WRAP) - seen
      /\ (avail_id + WRAP - seen') % WRAP = IF avail_id >= seen' THEN avail_id - seen' ELSE (avail_id + WRAP) - seen'
  BY <1>2, Distance
<1>4. (avail_id + WRAP - seen) % WRAP = Ahead(t, h) /\ Live(avail, h, t)
  BY <1>0 DEF RingInv
<1>5. h # t
  <2> SUFFICES ASSUME h = t PROVE FALSE
    OBVIOUS
  <2>1. Ahead(t, h) = 0
    BY DEF Ahead, Descs
  <2> QED
    BY <2>1, <1>2, <1>3, <1>4
<1>6. /\ avail[h] # NULL
      /\ Live(avail', Succ(h), t)
      /\ Ahead(t, Succ(h)) = Ahead(t, h) - 1
  <2>1. avail \in [Descs -> Descs \cup {NULL}]
    BY DEF TypeOK
  <2>2. Live([avail EXCEPT ![h] = NULL], Succ(h), t) /\ avail[h] # NULL
    BY <2>1, <1>4, <1>5, LiveTake
  <2>3. Ahead(t, Succ(h)) = Ahead(t, h) - 1
    BY <2>1, <1>4, <1>5, LiveTake
  <2> QED
    BY <2>2, <2>3, <1>1
<1>7. avail[h] \in Heads /\ avail[h] \in Descs /\ disk[info[avail[h]]]
  BY <1>6 DEF PlaceInv, Heads
<1>8. TypeOK'
  BY <1>1, <1>2, <1>7 DEF TypeOK
<1>9. Heads' = Heads
  BY <1>1 DEF Heads
<1>10. ChainInv' /\ OwnerInv' /\ OwnTransfer' /\ NoLostWakeup'
  <2>1. \A i \in Heads : info[i] \in Procs
    BY DEF TypeOK, Heads
  <2>2. ChainInv'
    BY <1>1, <1>9 DEF ChainInv, Chain
  <2>3. OwnerInv'
    BY <1>1, <1>9, <2>1 DEF OwnerInv
  <2> QED
    BY <1>1, <2>2, <2>3 DEF OwnTransfer, NoLostWakeup
<1>11. PlaceInv'
  <2>1. \A d \in Descs : avail'[d] = IF d = h THEN NULL ELSE avail[d]
    BY <1>1 DEF TypeOK
  <2>2. \A d \in Descs : avail'[d] # NULL =>
          /\ avail'[d] \in Heads \ working'
          /\ disk[info[avail'[d]]]
          /\ \A c \in Descs : elems[c] # avail'[d] /\ (c # d => avail'[c] # avail'[d])
    BY <2>1, <1>1, <1>6 DEF PlaceInv
  <2>3. \A i \in working' : i \in Heads /\ disk[info[i]]
    BY <1>1, <1>7 DEF PlaceInv
  <2>4. \A d \in Descs : elems[d] # NULL =>
          /\ elems[d] \in Heads \ working'
          /\ disk[info[elems[d]]]
          /\ info[elems[d]] \in moved
          /\ \A c \in Descs : c # d => elems[c] # elems[d]
    BY <1>1, <1>6 DEF PlaceInv
  <2> QED
    BY <2>2, <2>3, <2>4, <1>1, <1>9 DEF PlaceInv
<1>12. RingInv'
  <2>1. (avail_id + WRAP - seen') % WRAP = Ahead(t, h) - 1
    BY <1>2, <1>3, <1>4
  <2>2. Live(elems, used_idx, used_id % NUM)
    BY DEF RingInv
  <2>3. elems' = elems /\ used_idx' = used_idx /\ used_id' = used_id /\ avail_id' = avail_id
    BY <1>1
  <2>4. avail_id' % NUM = t /\ seen' % NUM = Succ(h)
    BY <1>0, <1>2, <2>3
  <2> QED
    BY <2>1, <2>2, <2>3, <2>4, <1>6 DEF RingInv
<1> QED
  BY <1>8, <1>10, <1>11, <1>12

\* The disk finishes a transfer: the entry at the end of elems was free, and
\* the buffer that it moved is the one of the request.
LEMMA DeviceFinish_Step ==
    ASSUME IInv, NEW i \in Descs, DeviceFinish(i)
    PROVE  IInv'
<1> USE ConstantFacts DEF IInv
<1> USE DEF dvars
<1>0. PICK t \in Descs : t = used_id % NUM
  BY CounterStep DEF TypeOK
<1>1. /\ i \in working
      /\ working' = working \ {i}
      /\ moved' = IF next[i] = NULL THEN moved ELSE moved \cup ({addr[next[i]]} \ {NULL})
      /\ elems' = [elems EXCEPT ![t] = i]
      /\ used_id' = (used_id + 1) % WRAP
      /\ irq' = TRUE
      /\ missed' = (missed \/ handler = "ack")
      /\ UNCHANGED <<dvars, used_idx, avail, avail_id, seen, disk, pc, chan, handler>>
  BY <1>0 DEF DeviceFinish
<1>2. /\ i \in Heads /\ disk[info[i]] /\ info[i] \in Procs
      /\ next[i] \in Descs /\ addr[next[i]] = info[i]
      /\ next[i] \notin Heads
  <2>1. i \in Heads /\ disk[info[i]]
    BY <1>1 DEF PlaceInv
  <2>2. next[i] \in Descs /\ addr[next[i]] = info[i] /\ i # next[i]
    BY <2>1 DEF ChainInv
  <2>3. next[i] \notin Heads
    BY <2>1, <2>2 DEF ChainInv, Chain
  <2>4. info[i] \in Procs
    BY <2>1 DEF Heads, TypeOK
  <2> QED
    BY <2>1, <2>2, <2>3, <2>4
<1>3. moved' = moved \cup {info[i]}
  BY <1>1, <1>2
<1>4. used_id' \in 0..(WRAP - 1) /\ used_id' % NUM = Succ(t)
  <2>1. used_id \in 0..(WRAP - 1)
    BY DEF TypeOK
  <2>2. (used_id + 1) % WRAP \in 0..(WRAP - 1) /\ ((used_id + 1) % WRAP) % NUM = Succ(used_id % NUM)
    BY <2>1, CounterStep
  <2> QED
    BY <2>2, <1>0, <1>1
<1>5. TypeOK'
  BY <1>1, <1>2, <1>3, <1>4 DEF TypeOK
<1>6. Heads' = Heads
  BY <1>1 DEF Heads
<1>7. ChainInv' /\ OwnerInv' /\ OwnTransfer' /\ NoLostWakeup'
  <2>1. \A h \in Heads : info[h] \in Procs
    BY DEF TypeOK, Heads
  <2>2. ChainInv'
    BY <1>1, <1>6 DEF ChainInv, Chain
  <2>3. OwnerInv'
    BY <1>1, <1>6, <2>1 DEF OwnerInv
  <2> QED
    BY <1>1, <1>3, <2>2, <2>3 DEF OwnTransfer, NoLostWakeup
<1>8. PlaceInv'
  <2>1. \A d \in Descs : elems'[d] = IF d = t THEN i ELSE elems[d]
    BY <1>1 DEF TypeOK
  <2>2. \A c \in Descs : avail[c] # i /\ elems[c] # i
    BY <1>1 DEF PlaceInv
  <2>3. \A d \in Descs : avail[d] # NULL =>
          /\ avail[d] \in Heads \ working'
          /\ disk[info[avail[d]]]
          /\ \A c \in Descs : elems'[c] # avail[d] /\ (c # d => avail[c] # avail[d])
    BY <2>1, <2>2, <1>1 DEF PlaceInv
  <2>4. \A h \in working' : h \in Heads /\ disk[info[h]]
    BY <1>1 DEF PlaceInv
  <2>5. ASSUME NEW d \in Descs, elems'[d] # NULL
        PROVE  /\ elems'[d] \in Heads \ working'
               /\ disk[info[elems'[d]]]
               /\ info[elems'[d]] \in moved'
               /\ \A c \in Descs : c # d => elems'[c] # elems'[d]
    <3>1. CASE d = t
      BY <3>1, <2>1, <2>2, <1>1, <1>2, <1>3
    <3>2. CASE d # t
      BY <3>2, <2>1, <2>2, <2>5, <1>1, <1>3 DEF PlaceInv
    <3> QED
      BY <3>1, <3>2
  <2> QED
    BY <2>3, <2>4, <2>5, <1>1, <1>6 DEF PlaceInv
<1>9. RingInv'
  <2>1. elems \in [Descs -> Descs \cup {NULL}] /\ elems' \in [Descs -> Descs \cup {NULL}] /\ used_idx \in Descs
    BY <1>5 DEF TypeOK
  <2>2. PICK e \in Descs : elems'[e] = NULL
    <3>1. \A c, d \in Descs : elems'[c] # NULL /\ c # d => elems'[c] # elems'[d]
      BY <1>8 DEF PlaceInv
    <3>2. \A c \in Descs : elems'[c] # next[i]
      BY <1>2, <1>6, <1>8 DEF PlaceInv
    <3> QED
      BY <3>1, <3>2, <2>1, <1>2, RingNotFull
  <2>3. e # t /\ elems[e] = NULL
    BY <2>1, <2>2, <1>1
  <2>4. Live(elems, used_idx, t)
    BY <1>0 DEF RingInv
  <2>5. Live([elems EXCEPT ![t] = i], used_idx, Succ(t))
    BY <2>1, <2>3, <2>4, LivePut
  <2>6. Live(elems', used_idx', used_id' % NUM)
    BY <2>5, <1>1, <1>4
  <2> QED
    BY <2>6, <1>1 DEF RingInv, Live
<1> QED
  BY <1>5, <1>7, <1>8, <1>9

\* The handler reports a completion: the entry is a request that waits, its
\* transfer is done, and its process is woken.
LEMMA IntrDone_Step ==
    ASSUME IInv, IntrDone
    PROVE  IInv'
<1> USE ConstantFacts DEF IInv
<1> USE DEF dvars, device
<1>0. PICK h \in Descs, t \in Descs : h = used_idx /\ t = used_id % NUM
  BY CounterStep DEF TypeOK
<1>1. h # t /\ used_idx % NUM = h /\ (h + 1) % NUM = Succ(h) /\ Succ(h) \in Descs
  BY <1>0, PositionStep DEF IntrDone
<1>2. elems \in [Descs -> Descs \cup {NULL}] /\ Live(elems, h, t)
  BY <1>0 DEF TypeOK, RingInv
<1>3. elems[h] # NULL /\ Live([elems EXCEPT ![h] = NULL], Succ(h), t)
  BY <1>1, <1>2, LiveTake
<1>4. PICK i \in Descs : i = elems[h]
  BY <1>2, <1>3
<1>5. i \in Heads \ working /\ info[i] \in moved /\ disk[info[i]] /\ \A d \in Descs : avail[d] # i
  BY <1>3, <1>4 DEF PlaceInv
<1>6. PICK b \in Procs : b = info[i]
  BY <1>5 DEF TypeOK, Heads
<1>7. /\ disk' = [p \in Procs |-> IF p = b THEN FALSE ELSE disk[p]]
      /\ chan' = Woken(b)
      /\ elems' = [elems EXCEPT ![h] = NULL]
      /\ used_idx' = Succ(h)
      /\ UNCHANGED <<dvars, avail, avail_id, used_id, irq, device, pc, handler, missed>>
  BY <1>0, <1>1, <1>4, <1>6 DEF IntrDone
<1>8. TypeOK'
  BY <1>1, <1>7 DEF TypeOK, Woken
<1>9. Heads' = Heads /\ \A g \in Heads : info[g] \in Procs /\ (g # i => info[g] # b)
  BY <1>5, <1>6, <1>7 DEF Heads, TypeOK, OwnerInv
<1>10. \A q \in Procs : /\ chan'[q] \in {chan[q], NULL}
                        /\ chan'[q] # b
                        /\ disk'[q] = (disk[q] /\ q # b)
  BY <1>7 DEF Woken, TypeOK
<1>11. ChainInv'
  BY <1>7, <1>9 DEF ChainInv, Chain
<1>12. OwnerInv'
  BY <1>7, <1>9, <1>10 DEF OwnerInv
<1>13. PlaceInv'
  <2>1. \A g \in Heads : g # i /\ disk[info[g]] => disk'[info[g]]
    BY <1>9, <1>10
  <2>2. \A d \in Descs : avail[d] # NULL =>
          /\ avail[d] \in Heads \ working
          /\ disk'[info[avail[d]]]
          /\ \A c \in Descs : elems'[c] # avail[d] /\ (c # d => avail[c] # avail[d])
    BY <2>1, <1>5, <1>7 DEF PlaceInv, TypeOK
  <2>3. \A g \in working : g \in Heads /\ disk'[info[g]]
    BY <2>1, <1>5 DEF PlaceInv
  <2>4. \A d \in Descs : elems'[d] = IF d = h THEN NULL ELSE elems[d]
    BY <1>2, <1>7
  <2>5. \A d \in Descs : elems'[d] # NULL =>
          /\ elems'[d] \in Heads \ working
          /\ disk'[info[elems'[d]]]
          /\ info[elems'[d]] \in moved
          /\ \A c \in Descs : c # d => elems'[c] # elems'[d]
    BY <2>1, <2>4, <1>3, <1>4 DEF PlaceInv
  <2> QED
    BY <2>2, <2>3, <2>5, <1>7, <1>9 DEF PlaceInv
<1>14. RingInv'
  <2>1. Live(elems', used_idx', used_id' % NUM)
    BY <1>0, <1>3, <1>7
  <2> QED
    BY <2>1, <1>7 DEF RingInv, Live
<1>15. OwnTransfer'
  BY <1>5, <1>6, <1>7, <1>10 DEF OwnTransfer
<1>16. NoLostWakeup'
  BY <1>7, <1>10 DEF NoLostWakeup
<1> QED
  BY <1>8, <1>11, <1>12, <1>13, <1>14, <1>15, <1>16

LEMMA NextInv == IInv /\ [Next]_vars => IInv'
<1> SUFFICES ASSUME IInv, [Next]_vars PROVE IInv'
  OBVIOUS
<1>1. CASE UNCHANGED vars
  <2>1. UNCHANGED <<dvars, used_idx, rings, irq, device, disk, pc, chan, handler, missed>>
    BY <1>1 DEF vars
  <2>2. TypeOK' /\ NoLostWakeup'
    BY <2>1 DEF IInv, TypeOK, NoLostWakeup, dvars, rings, device
  <2>3. \A q \in Procs : chan'[q] \in {NULL, "free", q}
    BY <2>1 DEF IInv, OwnerInv
  <2> QED
    BY <2>1, <2>2, <2>3, QuietStep DEF IInv
<1>2. CASE \E p \in Procs : virtio_disk_rw(p) \/ Kernel(p)
  BY <1>2, virtio_disk_rw_Step, AllocFail_Step, Submit_Step, Finish_Step DEF Kernel
<1>3. CASE Disk
  BY <1>3, DeviceTake_Step, DeviceFinish_Step DEF Disk
<1>4. CASE Handler
  BY <1>4, HandlerQuiet_Step, IntrDone_Step DEF Handler
<1> QED
  BY <1>1, <1>2, <1>3, <1>4 DEF Next

\* Every reachable state of the driver, the disk and the handler satisfies the
\* inductive invariant.
THEOREM Invariant == Spec => []IInv
BY InitInv, NextInv, PTL DEF Spec

-----------------------------------------------------------------------------
(***************************************************************************)
(* The properties.                                                         *)
(***************************************************************************)
LEMMA ThreeElements ==
    ASSUME NEW a, NEW b, NEW c, a # b, a # c, b # c
    PROVE  Cardinality({a, b, c}) = 3
<1>1. IsFiniteSet({a}) /\ Cardinality({a}) = 1
  BY FS_Singleton
<1>2. IsFiniteSet({a} \cup {b}) /\ Cardinality({a} \cup {b}) = 2
  BY <1>1, FS_AddElement
<1>3. Cardinality(({a} \cup {b}) \cup {c}) = 3
  BY <1>2, FS_AddElement
<1>4. ({a} \cup {b}) \cup {c} = {a, b, c}
  OBVIOUS
<1> QED
  BY <1>3, <1>4

LEMMA InvAccounted == IInv => DescsAccounted
<1> SUFFICES ASSUME IInv PROVE DescsAccounted
  OBVIOUS
<1>1. ASSUME NEW i \in Heads PROVE Cardinality(Chain(i)) = 3 /\ Chain(i) \subseteq Descs \ free
  <2>1. /\ next[i] \in Descs /\ next[next[i]] \in Descs /\ i \in Descs
        /\ i # next[i] /\ i # next[next[i]] /\ next[i] # next[next[i]]
        /\ Chain(i) \cap free = {}
    BY DEF IInv, ChainInv, Heads
  <2>2. Cardinality(Chain(i)) = 3
    BY <2>1, ThreeElements DEF Chain
  <2>3. Chain(i) \subseteq Descs
    BY <2>1 DEF Chain
  <2> QED
    BY <2>1, <2>2, <2>3
<1> QED
  BY <1>1 DEF IInv, ChainInv, DescsAccounted

\* A counter less than a ring ahead of another is as far ahead in the ring.
LEMMA AheadInRing ==
    ASSUME NEW x \in 0..(WRAP - 1), NEW y \in 0..(WRAP - 1), (x + WRAP - y) % WRAP < NUM
    PROVE  Ahead(x % NUM, y % NUM) = (x + WRAP - y) % WRAP
<1> USE ConstantFacts
<1> DEFINE n == (x + WRAP - y) % WRAP
           r == y % NUM
<1>1. n = IF x >= y THEN x - y ELSE (x + WRAP) - y
  BY Distance
<1>2. n \in Nat /\ x = (y + n) % WRAP
  <2>1. n \in Nat /\ (y + n = x \/ y + n = x + WRAP)
    BY <1>1
  <2>2. x = WRAP * 0 + x /\ x + WRAP = WRAP * 1 + x /\ x \in Nat /\ x + WRAP \in Nat
    OBVIOUS
  <2>3. x % WRAP = x /\ (x + WRAP) % WRAP = x
    BY <2>2, ModUnique, 0 \in Int, 1 \in Int
  <2> QED
    BY <2>1, <2>3
<1>3. x % NUM = (y + n) % NUM
  BY <1>2, ModWrap, y + n \in Nat
<1>4. PICK q \in Int : y = NUM * q + r
  <2>1. y = NUM * (y \div NUM) + (y % NUM) /\ y \div NUM \in Int
    BY y \in Nat, Z3
  <2> QED
    BY <2>1
<1>5. r \in 0..(NUM - 1)
  BY y \in Nat, ModRange
<1>6. n < NUM
  OBVIOUS
<1> HIDE DEF n, r
<1>7. CASE r + n < NUM
  <2>1. y + n = NUM * q + (r + n) /\ r + n \in 0..(NUM - 1) /\ y + n \in Nat
    BY <1>2, <1>4, <1>5, <1>7
  <2>2. x % NUM = r + n
    BY <2>1, <1>3, ModUnique
  <2> QED
    BY <2>2, <1>2, <1>5 DEF Ahead, n, r
<1>8. CASE r + n >= NUM
  <2>1. y + n = NUM * (q + 1) + ((r + n) - NUM) /\ (r + n) - NUM \in 0..(NUM - 1) /\ y + n \in Nat /\ q + 1 \in Int
    BY <1>2, <1>4, <1>5, <1>6, <1>8
  <2>2. x % NUM = (r + n) - NUM
    BY <2>1, <1>3, ModUnique
  <2>3. Ahead(x % NUM, r) = n
    BY <2>2, <1>2, <1>5, <1>6 DEF Ahead
  <2> QED
    BY <2>3 DEF n, r
<1> QED
  BY <1>2, <1>5, <1>7, <1>8

LEMMA InvRings == IInv => RingsLive
<1> SUFFICES ASSUME IInv PROVE RingsLive
  OBVIOUS
<1> USE ConstantFacts
<1>0. /\ avail_id \in 0..(WRAP - 1) /\ seen \in 0..(WRAP - 1)
      /\ avail_id % NUM \in Descs /\ seen % NUM \in Descs /\ used_id % NUM \in Descs /\ used_idx \in Descs
  BY CounterStep DEF IInv, TypeOK
<1>1. ASSUME NEW k \in Between(seen, avail_id) PROVE avail[k % NUM] \in Heads
  <2>1. k \in 0..(WRAP - 1) /\ (k + WRAP - seen) % WRAP < (avail_id + WRAP - seen) % WRAP
    BY DEF Between
  <2>2. (avail_id + WRAP - seen) % WRAP = Ahead(avail_id % NUM, seen % NUM)
    BY DEF IInv, RingInv
  <2>3. Ahead(avail_id % NUM, seen % NUM) \in 0..(NUM - 1)
    BY <1>0 DEF Ahead, Descs
  <2>4. (k + WRAP - seen) % WRAP \in Nat
    BY <2>1, <1>0, Distance
  <2>5. Ahead(k % NUM, seen % NUM) = (k + WRAP - seen) % WRAP
    <3>1. (k + WRAP - seen) % WRAP < NUM
      BY <2>1, <2>2, <2>3, <2>4
    <3> QED
      BY <3>1, <2>1, <1>0, AheadInRing
  <2>6. Ahead(k % NUM, seen % NUM) < Ahead(avail_id % NUM, seen % NUM) /\ k % NUM \in Descs
    BY <2>1, <2>2, <2>5, CounterStep
  <2>7. avail[k % NUM] # NULL
    BY <2>6 DEF IInv, RingInv, Live
  <2> QED
    BY <2>6, <2>7 DEF IInv, PlaceInv
<1>2. working \subseteq Heads
  BY DEF IInv, PlaceInv
<1>3. ASSUME used_idx # used_id % NUM PROVE elems[used_idx] \in Heads
  <2>1. elems \in [Descs -> Descs \cup {NULL}] /\ Live(elems, used_idx, used_id % NUM)
    BY DEF IInv, TypeOK, RingInv
  <2>2. elems[used_idx] # NULL
    BY <2>1, <1>0, <1>3, LiveTake
  <2> QED
    BY <2>2, <1>0 DEF IInv, PlaceInv
<1> QED
  BY <1>1, <1>2, <1>3 DEF RingsLive

\* Every descriptor is free or in exactly one chain of three, whatever the
\* order of allocations, failed allocations and completions: alloc_desc,
\* free_desc and free_chain lose none and free none twice.
THEOREM AccountedTheorem == Spec => []DescsAccounted
BY Invariant, InvAccounted, PTL

\* Whatever the disk takes from avail and the handler from elems is a request
\* that is still waited for: though virtio_disk_rw, the disk and the handler
\* never check for room, no ring overflows and info[id].b is never null.
THEOREM RingsTheorem == Spec => []RingsLive
BY Invariant, InvRings, PTL

\* virtio_disk_rw returns after its own buffer was transferred.
THEOREM TransferTheorem == Spec => []OwnTransfer
<1>1. IInv => OwnTransfer
  BY DEF IInv
<1> QED
  BY <1>1, Invariant, PTL

\* No process sleeps for descriptors that are there, or for a transfer that
\* virtio_disk_intr has reported.
THEOREM WakeupTheorem == Spec => []NoLostWakeup
<1>1. IInv => NoLostWakeup
  BY DEF IInv
<1> QED
  BY <1>1, Invariant, PTL
=============================================================================
