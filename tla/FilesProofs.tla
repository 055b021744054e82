---------------------------- MODULE FilesProofs ----------------------------
(***************************************************************************)
(* Theorems about Files, for any number of processes, descriptors, entries *)
(* of the table, inodes and pipes: until a descriptor is left that names a *)
(* closed file, the references to files and inodes are exact, and a pipe's *)
(* ends are open exactly as long as somebody can use them.                 *)
(***************************************************************************)
EXTENDS Files, FileData, FiniteSetTheorems, WellFoundedInduction, TLAPS

-----------------------------------------------------------------------------
(***************************************************************************)
(* Numbers and finite sets.                                                *)
(***************************************************************************)
LEMMA LeastNumber ==
    ASSUME NEW S \in SUBSET Nat, S # {}
    PROVE  \E x \in S : \A y \in S : x <= y
<1> DEFINE R == OpToRel(<, Nat)
<1>1. IsWellFoundedOn(R, Nat)
  BY NatLessThanWellFounded
<1> HIDE DEF R
<1>2. PICK x \in S : \A y \in S : ~ (<<y, x>> \in R)
  BY <1>1, WFMin, Zenon
<1>3. \A y \in Nat : y < x => <<y, x>> \in R
  BY DEF OpToRel, R
<1>4. \A y \in S : x \in Nat /\ y \in Nat /\ ~ (y < x)
  BY <1>2, <1>3
<1> QED
  BY <1>4

LEMMA MinIn ==
    ASSUME NEW S \in SUBSET Nat, S # {}
    PROVE  Min(S) \in S
BY LeastNumber DEF Min

LEMMA ModRange ==
    ASSUME NEW m \in Nat \ {0}, NEW x \in Nat
    PROVE  (x % m) \in 0..(m - 1)
BY Z3

\* A count that has not wrapped, or has wrapped once.
LEMMA ModOnce ==
    ASSUME NEW m \in Nat, NEW x \in Nat, x < m
    PROVE  (x % m) = x /\ ((x + m) % m) = x
OBVIOUS

Bit(b) == IF b THEN 1 ELSE 0

\* Sets that differ in one element at most.
LEMMA OneApart ==
    ASSUME NEW S, NEW T, NEW x, IsFiniteSet(S),
           \A y : y # x => (y \in S <=> y \in T)
    PROVE  /\ IsFiniteSet(T)
           /\ Cardinality(S) \in Nat /\ Cardinality(T) \in Nat
           /\ Cardinality(T) + Bit(x \in S) = Cardinality(S) + Bit(x \in T)
<1>0. Cardinality(S) \in Nat
  BY FS_CardinalityType
<1>1. CASE x \in S /\ x \in T
  <2>1. S = T
    BY <1>1
  <2> QED
    BY <1>0, <1>1, <2>1
<1>2. CASE x \notin S /\ x \notin T
  <2>1. S = T
    BY <1>2
  <2> QED
    BY <1>0, <1>2, <2>1
<1>3. CASE x \in S /\ x \notin T
  <2>1. T = S \ {x}
    BY <1>3
  <2>2. IsFiniteSet(T) /\ Cardinality(T) = Cardinality(S) - 1
    BY <1>3, <2>1, FS_RemoveElement
  <2>3. Cardinality(T) \in Nat
    BY <2>2, FS_CardinalityType
  <2> QED
    BY <1>0, <1>3, <2>2, <2>3 DEF Bit
<1>4. CASE x \notin S /\ x \in T
  <2>1. T = S \cup {x}
    BY <1>4
  <2>2. IsFiniteSet(T) /\ Cardinality(T) = Cardinality(S) + 1
    BY <1>4, <2>1, FS_AddElement
  <2>3. Cardinality(T) \in Nat
    BY <2>2, FS_CardinalityType
  <2> QED
    BY <1>0, <1>4, <2>2, <2>3 DEF Bit
<1> QED
  BY <1>1, <1>2, <1>3, <1>4

-----------------------------------------------------------------------------
(***************************************************************************)
(* How often a table of descriptors names a file.                          *)
(***************************************************************************)
Rows == [FDs -> Table \cup {NULL}]
Row(h, f) == {d \in FDs : h[d] = f}
Num(h, f) == Cardinality(Row(h, f))
At(t, U, f) == {x \in Procs \X FDs : x[1] \in U /\ t[x[1]][x[2]] = f}

LEMMA Constants ==
    /\ N_FILE \in Nat /\ FILE_PER_PROC \in Nat /\ 0 \in FDs /\ 1 \in FDs
    /\ IsFiniteSet(FDs) /\ FDs \in SUBSET Nat /\ IsFiniteSet(Procs) /\ IsFiniteSet(Table)
    /\ Cardinality(Table) = N_FILE /\ Table \in SUBSET Nat /\ NULL \notin Table
    /\ IsFiniteSet(Procs \X FDs)
<1>1. N_FILE \in Nat /\ FILE_PER_PROC \in Nat /\ 0 \in FDs /\ 1 \in FDs /\ IsFiniteSet(Procs)
  BY FilesAssumption DEF FDs
<1>2. IsFiniteSet(FDs) /\ FDs \in SUBSET Nat
  BY <1>1, FS_Interval DEF FDs
<1>3. IsFiniteSet(Table) /\ Cardinality(Table) = N_FILE /\ Table \in SUBSET Nat
  BY <1>1, FS_Interval DEF Table
<1>4. NULL \notin Table
  BY FilesAssumption DEF Table
<1>5. IsFiniteSet(Procs \X FDs)
  BY <1>1, <1>2, FS_Product
<1> QED
  BY <1>1, <1>2, <1>3, <1>4, <1>5

LEMMA NumNat ==
    ASSUME NEW h, NEW f
    PROVE  IsFiniteSet(Row(h, f)) /\ Num(h, f) \in Nat
<1>1. Row(h, f) \in SUBSET FDs
  BY DEF Row
<1>2. IsFiniteSet(Row(h, f))
  BY <1>1, Constants, FS_Subset
<1> QED
  BY <1>2, FS_CardinalityType DEF Num

LEMMA NumNone ==
    ASSUME NEW f \in Table
    PROVE  Num(None, f) = 0
<1>1. Row(None, f) = {}
  BY Constants DEF Row, None
<1> QED
  BY <1>1, FS_EmptySet DEF Num

LEMMA RowsEqual ==
    ASSUME NEW h \in Rows, NEW k \in Rows, \A d \in FDs : h[d] = k[d]
    PROVE  h = k
BY DEF Rows

\* One descriptor is set that was free.
Sets(k, h, d, g) == h[d] = NULL /\ k[d] = g /\ \A x \in FDs \ {d} : k[x] = h[x]

LEMMA NumSets ==
    ASSUME NEW h \in Rows, NEW k \in Rows, NEW d \in FDs, NEW g \in Table, NEW f \in Table, Sets(k, h, d, g)
    PROVE  Num(k, f) = Num(h, f) + Bit(f = g)
<1>1. \A y : y # d => (y \in Row(h, f) <=> y \in Row(k, f))
  BY DEF Row, Sets
<1>2. d \notin Row(h, f) /\ (d \in Row(k, f) <=> f = g)
  BY Constants DEF Row, Sets
<1>3. IsFiniteSet(Row(h, f))
  BY NumNat
<1>4. Num(k, f) \in Nat /\ Num(h, f) \in Nat /\ Num(k, f) + Bit(d \in Row(h, f)) = Num(h, f) + Bit(d \in Row(k, f))
  BY <1>1, <1>3, OneApart DEF Num
<1> QED
  BY <1>2, <1>4 DEF Bit

LEMMA NumPut ==
    ASSUME NEW h \in Rows, NEW k \in Rows, NEW d \in FDs, NEW g \in Table, NEW f \in Table,
           h[d] = NULL, k = [h EXCEPT ![d] = g]
    PROVE  Num(k, f) = Num(h, f) + Bit(f = g)
<1>1. Sets(k, h, d, g)
  BY DEF Sets, Rows
<1> QED
  BY <1>1, NumSets

LEMMA NumOnly ==
    ASSUME NEW h \in Rows, OnlyFirst(h), NEW f \in Table
    PROVE  h[0] \in Table /\ Num(h, f) = Bit(f = h[0])
<1>1. None \in Rows /\ h[0] \in Table /\ None[0] = NULL
  BY Constants DEF None, Rows, OnlyFirst
<1> DEFINE k == [None EXCEPT ![0] = h[0]]
<1>2. k \in Rows /\ \A d \in FDs : k[d] = IF d = 0 THEN h[0] ELSE NULL
  BY <1>1 DEF None, Rows
<1> HIDE DEF k
<1>4. h = k
  BY <1>2, RowsEqual DEF OnlyFirst
<1> USE DEF k
<1>3. Num(h, f) = Num(None, f) + Bit(f = h[0])
  BY <1>1, <1>4, NumPut, Constants
<1> QED
  BY <1>1, <1>3, NumNone DEF Bit

LEMMA NumBoth ==
    ASSUME NEW h \in Rows, BothFirst(h), NEW f \in Table
    PROVE  h[0] \in Table /\ h[1] \in Table /\ Num(h, f) = Bit(f = h[0]) + Bit(f = h[1])
<1> DEFINE k == [None EXCEPT ![0] = h[0]]
<1>1. None \in Rows /\ h[0] \in Table /\ h[1] \in Table /\ None[0] = NULL
  BY Constants DEF None, Rows, BothFirst
<1>2. k \in Rows /\ k[1] = NULL
  BY Constants, <1>1 DEF None, Rows
<1> DEFINE l == [k EXCEPT ![1] = h[1]]
<1>6. l \in Rows /\ \A d \in FDs : l[d] = IF d = 1 THEN h[1] ELSE IF d = 0 THEN h[0] ELSE NULL
  BY <1>1 DEF None, Rows
<1> HIDE DEF l
<1>7. h = l
  BY <1>6, RowsEqual DEF BothFirst
<1> USE DEF l
<1>3. h = [k EXCEPT ![1] = h[1]]
  BY <1>7
<1>4. Num(k, f) = Num(None, f) + Bit(f = h[0])
  BY <1>1, <1>2, NumPut, Constants
<1> HIDE DEF k
<1>5. Num(h, f) = Num(k, f) + Bit(f = h[1])
  BY <1>1, <1>2, <1>3, NumPut, Constants
<1> QED
  BY <1>1, <1>4, <1>5, NumNone DEF Bit

LEMMA AtFinite ==
    ASSUME NEW t, NEW U, NEW f
    PROVE  IsFiniteSet(At(t, U, f)) /\ Cardinality(At(t, U, f)) \in Nat
<1>1. At(t, U, f) \in SUBSET (Procs \X FDs)
  BY DEF At
<1>2. IsFiniteSet(At(t, U, f))
  BY <1>1, Constants, FS_Subset
<1> QED
  BY <1>2, FS_CardinalityType

\* The part of one process, and the part of the others.
LEMMA AtSplit ==
    ASSUME NEW t, NEW U, NEW f, NEW p \in Procs, p \in U
    PROVE  Cardinality(At(t, U, f)) = Cardinality(At(t, U \ {p}, f)) + Num(t[p], f)
<1> DEFINE A == At(t, U \ {p}, f)
           B == {x \in {p} \X FDs : t[p][x[2]] = f}
<1>1. At(t, U, f) = A \cup B /\ A \cap B = {}
  BY DEF At
<1>2. IsFiniteSet(A) /\ IsFiniteSet(Row(t[p], f))
  BY AtFinite, NumNat
<1>3. IsFiniteSet(B) /\ Cardinality(B) = Num(t[p], f)
  <2> DEFINE R == Row(t[p], f)
             m == [d \in R |-> <<p, d>>]
  <2>1. m \in [R -> B]
    BY DEF Row
  <2>2. \A x \in B : x[2] \in R /\ m[x[2]] = x
    BY DEF Row
  <2>3. m \in Surjection(R, B)
    BY <2>1, <2>2 DEF Surjection
  <2>7. \A a, b \in R : m[a] = m[b] => a = b
    OBVIOUS
  <2>4. m \in Injection(R, B)
    BY <2>1, <2>7 DEF Injection, IsInjective
  <2>5. m \in Bijection(R, B)
    BY <2>3, <2>4 DEF Bijection
  <2>6. IsFiniteSet(B) /\ Cardinality(B) = Cardinality(R)
    BY <2>5, <1>2, FS_Bijection DEF ExistsBijection
  <2> QED
    BY <2>6 DEF Num
<1>4. Cardinality(A \cup B) = Cardinality(A) + Cardinality(B) - Cardinality(A \cap B)
  BY <1>2, <1>3, FS_Union
<1>5. Cardinality(A \cap B) = 0
  BY <1>1, FS_EmptySet
<1>6. Cardinality(A) \in Nat /\ Cardinality(B) \in Nat
  BY <1>2, <1>3, FS_CardinalityType
<1> HIDE DEF A, B
<1>7. Cardinality(At(t, U, f)) = Cardinality(A) + Num(t[p], f)
  BY <1>1, <1>3, <1>4, <1>5, <1>6
<1> QED
  BY <1>7 DEF A

-----------------------------------------------------------------------------
(***************************************************************************)
(* Types, locals and objects.                                              *)
(***************************************************************************)
Base == TypeOK /\ LocalsInv /\ ObjInv

\* A step that changes the locals of one process.
LEMMA LocalsStep ==
    ASSUME LocalsInv, NEW p \in Procs, LocalsOf(p)',
           \A q \in Procs \ {p} : /\ pc'[q] = pc[q] /\ inhand'[q] = inhand[q] /\ saved'[q] = saved[q]
                                  /\ q \in dying' <=> q \in dying
    PROVE  LocalsInv'
<1>1. ASSUME NEW q \in Procs, q # p PROVE LocalsOf(q)'
  <2>1. LocalsOf(q)
    BY DEF LocalsInv
  <2>2. pc'[q] = pc[q] /\ inhand'[q] = inhand[q] /\ saved'[q] = saved[q] /\ (q \in dying' <=> q \in dying)
    BY <1>1
  <2>3. InHand(q)' = InHand(q)
    BY <2>2 DEF InHand
  <2> QED
    BY <2>1, <2>2, <2>3 DEF LocalsOf
<1> QED
  BY <1>1 DEF LocalsInv

LEMMA FirstFreeFree ==
    ASSUME TypeOK, FreeFiles # {}
    PROVE  FirstFree \in Table /\ ref[FirstFree] = 0
<1>1. FreeFiles \in SUBSET Nat
  BY Constants DEF FreeFiles
<1> QED
  BY <1>1, MinIn DEF FirstFree, FreeFiles

LEMMA NoneRow == None \in Rows
BY DEF None, Rows

LEMMA Disjoint ==
    /\ \A o \in Inodes : o \notin Ends /\ o # NULL /\ o \in Objects
    /\ \A o \in Ends : o \notin Inodes /\ o # NULL /\ o \in Objects
    /\ NULL \notin Objects /\ NULL \notin Inodes /\ NULL \notin Ends
BY FilesAssumption DEF Ends, Objects

LEMMA OpenInodeBase ==
    ASSUME Base, NEW p \in Procs, NEW i \in Inodes, open_inode(p, i)
    PROVE  Base'
<1>0. TypeOK /\ LocalsOf(p) /\ ObjInv /\ LocalsInv
  BY DEF Base, LocalsInv
<1>1. TypeOK'
  <2>1. WRAP \in Nat /\ WRAP # 0 /\ iref[i] + 1 \in Nat
    BY <1>0, FilesAssumption, FS_CardinalityType DEF TypeOK
  <2>2. ((iref[i] + 1) % WRAP) \in 0..(WRAP - 1)
    BY <2>1, ModRange
  <2>3. iref' \in [Inodes -> 0..(WRAP - 1)]
    BY <1>0, <2>2 DEF open_inode, TypeOK
  <2> QED
    BY <1>0, <2>3 DEF TypeOK, open_inode, table, history, Goto, Labels, Objects
<1>2. LocalsInv'
  <2>1. LocalsOf(p)'
    BY <1>0 DEF TypeOK, LocalsOf, open_inode, Goto, Labels
  <2> QED
    BY <1>0, <2>1, LocalsStep DEF TypeOK, open_inode, Goto
<1>3. ObjInv'
  BY <1>0 DEF ObjInv, open_inode, table
<1> QED
  BY <1>1, <1>2, <1>3 DEF Base

\* What file_alloc does, for the entry n it takes.
Allocated(n, p, d, o) ==
    /\ n \in Table /\ ref[n] = 0
    /\ ref' = [ref EXCEPT ![n] = 1]
    /\ obj' = [obj EXCEPT ![n] = o]
    /\ inhand' = [inhand EXCEPT ![p][d] = n]

LEMMA AllocatedFirst ==
    ASSUME TypeOK, NEW p \in Procs, NEW d \in FDs, NEW o, file_alloc(p, d, o)
    PROVE  \E n : Allocated(n, p, d, o)
<1>1. PICK n : n = FirstFree
  OBVIOUS
<1>2. n \in Table /\ ref[n] = 0
  BY <1>1, FirstFreeFree DEF file_alloc
<1>3. Allocated(n, p, d, o)
  BY <1>1, <1>2 DEF Allocated, file_alloc
<1> QED
  BY <1>3

LEMMA AllocatedTypes ==
    ASSUME TypeOK, ObjInv, NEW n, NEW p \in Procs, NEW d \in FDs, NEW o \in Objects, Allocated(n, p, d, o)
    PROVE  /\ ref' \in [Table -> Nat] /\ obj' \in [Table -> Objects \cup {NULL}]
           /\ inhand' \in [Procs -> [FDs -> Table \cup {NULL}]]
           /\ \A q \in Procs \ {p} : inhand'[q] = inhand[q]
           /\ inhand'[p] = [inhand[p] EXCEPT ![d] = n]
           /\ \A f \in Table : f # n => ref'[f] = ref[f] /\ obj'[f] = obj[f]
           /\ ref'[n] = 1 /\ obj'[n] = o
           /\ ObjInv'
<1>1. n \in Table /\ ref[n] = 0
  BY DEF Allocated
<1>2. /\ ref' \in [Table -> Nat] /\ obj' \in [Table -> Objects \cup {NULL}]
      /\ \A f \in Table : f # n => ref'[f] = ref[f] /\ obj'[f] = obj[f]
      /\ ref'[n] = 1 /\ obj'[n] = o
  BY <1>1 DEF TypeOK, Allocated
<1>3. /\ inhand' \in [Procs -> [FDs -> Table \cup {NULL}]]
      /\ \A q \in Procs \ {p} : inhand'[q] = inhand[q]
      /\ inhand'[p] = [inhand[p] EXCEPT ![d] = n]
  BY <1>1 DEF TypeOK, Allocated
<1>4. ObjInv'
  BY <1>1, <1>2 DEF ObjInv
<1> QED
  BY <1>2, <1>3, <1>4

LEMMA OpenFileBase ==
    ASSUME Base, NEW p \in Procs, open_file(p)
    PROVE  Base'
<1>0. TypeOK /\ LocalsOf(p) /\ ObjInv /\ LocalsInv /\ saved[p] \in Objects
  BY DEF Base, LocalsInv, LocalsOf, open_file, Objects
<1>1. PICK o : o = saved[p]
  OBVIOUS
<1>2. PICK n : Allocated(n, p, 0, o)
  BY <1>0, <1>1, AllocatedFirst, Constants DEF open_file
<1>3. /\ ref' \in [Table -> Nat] /\ obj' \in [Table -> Objects \cup {NULL}]
      /\ inhand' \in [Procs -> [FDs -> Table \cup {NULL}]]
      /\ \A q \in Procs \ {p} : inhand'[q] = inhand[q]
      /\ inhand'[p] = [inhand[p] EXCEPT ![0] = n]
      /\ ObjInv' /\ n \in Table
  BY <1>0, <1>1, <1>2, AllocatedTypes, Constants DEF Allocated
<1>4. TypeOK'
  BY <1>0, <1>3 DEF TypeOK, open_file, Goto, Labels, objects, history
<1>5. LocalsInv'
  <2>1. OnlyFirst(inhand'[p])
    BY <1>0, <1>3, Constants DEF LocalsOf, open_file, OnlyFirst, None
  <2>2. LocalsOf(p)'
    BY <1>0, <2>1 DEF TypeOK, LocalsOf, open_file, Goto, Labels
  <2> QED
    BY <1>0, <1>3, <2>2, LocalsStep DEF TypeOK, open_file, Goto
<1> QED
  BY <1>3, <1>4, <1>5 DEF Base

LEMMA FreeFdMin ==
    ASSUME NEW p, FreeFds(p) # {}
    PROVE  Min(FreeFds(p)) \in FDs /\ filelist[p][Min(FreeFds(p))] = NULL
<1>1. FreeFds(p) \in SUBSET Nat
  BY Constants DEF FreeFds
<1> QED
  BY <1>1, MinIn DEF FreeFds

LEMMA OpenFdBase ==
    ASSUME Base, NEW p \in Procs, open_fd(p)
    PROVE  Base'
<1>0. TypeOK /\ LocalsOf(p) /\ ObjInv /\ LocalsInv
  BY DEF Base, LocalsInv
<1>1. OnlyFirst(inhand[p]) /\ inhand[p][0] \in Table
  BY <1>0, Constants DEF LocalsOf, open_fd, OnlyFirst, TypeOK
<1>2. TypeOK'
  <2>1. CASE FreeFds(p) # {}
    <3>1. PICK m : m = Min(FreeFds(p)) /\ m \in FDs
      BY <2>1, FreeFdMin
    <3>2. filelist' = [filelist EXCEPT ![p][m] = inhand[p][0]] /\ inhand' = [inhand EXCEPT ![p] = None] /\ Goto(p, "idle")
      BY <2>1, <3>1 DEF open_fd
    <3>3. filelist' \in [Procs -> [FDs -> Table \cup {NULL}]] /\ inhand' \in [Procs -> [FDs -> Table \cup {NULL}]]
      BY <1>0, <1>1, <3>1, <3>2, NoneRow DEF TypeOK, Rows
    <3> QED
      BY <1>0, <3>2, <3>3 DEF TypeOK, open_fd, Goto, Labels, table, objects, history
  <2>2. CASE FreeFds(p) = {}
    BY <1>0, <2>2 DEF TypeOK, open_fd, Goto, Labels, table, objects, history
  <2> QED
    BY <2>1, <2>2
<1>3. LocalsInv'
  <2>1. CASE FreeFds(p) # {}
    <3>1. inhand' = [inhand EXCEPT ![p] = None] /\ Goto(p, "idle") /\ saved' = saved /\ dying' = dying
      BY <2>1 DEF open_fd
    <3>2. LocalsOf(p)'
      BY <1>0, <3>1 DEF TypeOK, LocalsOf, Goto, open_fd
    <3> QED
      BY <1>0, <3>1, <3>2, LocalsStep DEF TypeOK, Goto
  <2>2. CASE FreeFds(p) = {}
    <3>1. inhand' = inhand /\ Goto(p, "closing") /\ saved' = saved /\ dying' = dying
      BY <2>2 DEF open_fd
    <3>2. InHand(p)' # {}
      BY <1>1, <3>1, Constants DEF InHand
    <3>3. LocalsOf(p)'
      BY <1>0, <3>1, <3>2 DEF TypeOK, LocalsOf, Goto, open_fd
    <3> QED
      BY <1>0, <3>1, <3>3, LocalsStep DEF TypeOK, Goto
  <2> QED
    BY <2>1, <2>2
<1>4. ObjInv'
  BY <1>0 DEF ObjInv, open_fd, table
<1> QED
  BY <1>2, <1>3, <1>4 DEF Base

\* A process stops in a panic.
LEMMA PanicBase ==
    ASSUME Base, NEW p \in Procs, Goto(p, "panic"), stuck' \in BOOLEAN,
           UNCHANGED <<table, objects, filelist, locals, history>>
    PROVE  Base'
<1>0. TypeOK /\ LocalsOf(p) /\ ObjInv /\ LocalsInv
  BY DEF Base, LocalsInv
<1>1. TypeOK'
  BY <1>0 DEF TypeOK, Goto, Labels, table, objects, locals, history
<1>2. LocalsOf(p)'
  BY <1>0 DEF TypeOK, LocalsOf, Goto, locals
<1>3. LocalsInv'
  BY <1>0, <1>2, LocalsStep DEF TypeOK, Goto, locals
<1>4. ObjInv'
  BY <1>0 DEF ObjInv, table
<1> QED
  BY <1>1, <1>3, <1>4 DEF Base

LEMMA PipeNewBase ==
    ASSUME Base, NEW p \in Procs, NEW x \in Pipes, pipe_new(p, x)
    PROVE  Base'
<1>0. TypeOK /\ LocalsOf(p) /\ ObjInv /\ LocalsInv
  BY DEF Base, LocalsInv
<1>1. PICK e : e = [pipe |-> x, writable |-> FALSE]
  OBVIOUS
<1>2. e \in Ends /\ e.writable = FALSE /\ e \in Objects
  BY <1>1 DEF Ends, Objects
<1>3. saved' = [saved EXCEPT ![p] = e] /\ Goto(p, "pipe") /\ inhand' = inhand /\ dying' = dying
  BY <1>1 DEF pipe_new
<1>4. popen' \in SUBSET Ends
  BY <1>0 DEF TypeOK, pipe_new
<1>5. TypeOK'
  BY <1>0, <1>2, <1>3, <1>4 DEF TypeOK, pipe_new, Goto, Labels, table, history
<1>6. LocalsOf(p)'
  BY <1>0, <1>2, <1>3 DEF TypeOK, LocalsOf, Goto, pipe_new
<1>7. LocalsInv'
  BY <1>0, <1>3, <1>6, LocalsStep DEF TypeOK, Goto
<1>8. ObjInv'
  BY <1>0 DEF ObjInv, pipe_new, table
<1> QED
  BY <1>5, <1>7, <1>8 DEF Base

LEMMA PipeFileBase ==
    ASSUME Base, NEW p \in Procs, pipe_file(p)
    PROVE  Base'
<1>0. TypeOK /\ LocalsOf(p) /\ ObjInv /\ LocalsInv /\ saved[p] \in Ends
  BY DEF Base, LocalsInv, LocalsOf, pipe_file
<1>1. PICK o : o = saved[p]
  OBVIOUS
<1>2. PICK w : w = [o EXCEPT !.writable = TRUE]
  OBVIOUS
<1>3. w \in Ends /\ w.writable = TRUE /\ o \in Objects /\ w \in Objects
  BY <1>0, <1>1, <1>2 DEF Ends, Objects
<1>4. PICK n : Allocated(n, p, 0, o)
  BY <1>0, <1>1, AllocatedFirst, Constants DEF pipe_file
<1>5. /\ ref' \in [Table -> Nat] /\ obj' \in [Table -> Objects \cup {NULL}]
      /\ inhand' \in [Procs -> [FDs -> Table \cup {NULL}]]
      /\ \A q \in Procs \ {p} : inhand'[q] = inhand[q]
      /\ inhand'[p] = [inhand[p] EXCEPT ![0] = n]
      /\ ObjInv' /\ n \in Table
  BY <1>0, <1>3, <1>4, AllocatedTypes, Constants DEF Allocated
<1>6. saved' = [saved EXCEPT ![p] = w] /\ Goto(p, "pipe2") /\ dying' = dying
  BY <1>0, <1>1, <1>2 DEF pipe_file, TypeOK
<1>11. saved' \in [Procs -> Objects \cup {NULL}] /\ pc' \in [Procs -> Labels]
  BY <1>0, <1>3, <1>6 DEF TypeOK, Goto, Labels
<1>12. UNCHANGED <<objects, stuck, filelist, dying, history>>
  BY DEF pipe_file
<1>7. TypeOK'
  BY <1>0, <1>5, <1>11, <1>12 DEF TypeOK, objects, history
<1>8. OnlyFirst(inhand'[p])
  BY <1>0, <1>5, Constants DEF LocalsOf, pipe_file, OnlyFirst, None
<1>9. LocalsOf(p)'
  BY <1>0, <1>3, <1>6, <1>8 DEF TypeOK, LocalsOf, pipe_file, Goto
<1>10. LocalsInv'
  BY <1>0, <1>5, <1>6, <1>9, LocalsStep DEF TypeOK, Goto
<1> QED
  BY <1>5, <1>7, <1>10 DEF Base

LEMMA PipeFile2Base ==
    ASSUME Base, NEW p \in Procs, pipe_file2(p)
    PROVE  Base'
<1>0. TypeOK /\ LocalsOf(p) /\ ObjInv /\ LocalsInv /\ saved[p] \in Objects
  BY DEF Base, LocalsInv, LocalsOf, pipe_file2, Objects
<1>1. PICK o : o = saved[p]
  OBVIOUS
<1>2. PICK n : Allocated(n, p, 1, o)
  BY <1>0, <1>1, AllocatedFirst, Constants DEF pipe_file2
<1>3. /\ ref' \in [Table -> Nat] /\ obj' \in [Table -> Objects \cup {NULL}]
      /\ inhand' \in [Procs -> [FDs -> Table \cup {NULL}]]
      /\ \A q \in Procs \ {p} : inhand'[q] = inhand[q]
      /\ inhand'[p] = [inhand[p] EXCEPT ![1] = n]
      /\ ObjInv' /\ n \in Table
  BY <1>0, <1>1, <1>2, AllocatedTypes, Constants DEF Allocated
<1>4. TypeOK'
  BY <1>0, <1>3 DEF TypeOK, pipe_file2, Goto, Labels, objects, history
<1>5. BothFirst(inhand'[p])
  BY <1>0, <1>3, Constants DEF LocalsOf, pipe_file2, OnlyFirst, BothFirst, TypeOK
<1>6. LocalsOf(p)'
  BY <1>0, <1>5 DEF TypeOK, LocalsOf, pipe_file2, Goto
<1>7. LocalsInv'
  BY <1>0, <1>3, <1>6, LocalsStep DEF TypeOK, pipe_file2, Goto
<1> QED
  BY <1>3, <1>4, <1>7 DEF Base

\* The descriptors pipe_fd takes.
TwoFree(p, d, e) ==
    /\ d \in FreeFds(p) /\ e \in FreeFds(p) /\ d # e
    /\ filelist' = [filelist EXCEPT ![p][d] = inhand[p][0], ![p][e] = inhand[p][1]]

LEMMA PipeFdTwo ==
    ASSUME NEW p \in Procs, pipe_fd(p)
    PROVE  \E d, e : TwoFree(p, d, e)
<1>1. PICK d \in FreeFds(p), e \in FreeFds(p) :
          /\ d < e
          /\ filelist' = [filelist EXCEPT ![p][d] = inhand[p][0], ![p][e] = inhand[p][1]]
  BY DEF pipe_fd
<1>2. d \in Nat /\ e \in Nat
  BY Constants DEF FreeFds
<1>3. d # e
  BY <1>1, <1>2
<1>4. TwoFree(p, d, e)
  BY <1>1, <1>3 DEF TwoFree
<1> QED
  BY <1>4

LEMMA PipeFdBase ==
    ASSUME Base, NEW p \in Procs, pipe_fd(p)
    PROVE  Base'
<1>0. TypeOK /\ LocalsOf(p) /\ ObjInv /\ LocalsInv
  BY DEF Base, LocalsInv
<1>1. inhand[p][0] \in Table /\ inhand[p][1] \in Table
  BY <1>0, Constants DEF LocalsOf, pipe_fd, BothFirst, TypeOK
<1>2. PICK d, e : TwoFree(p, d, e)
  BY PipeFdTwo
<1>3. filelist' \in [Procs -> [FDs -> Table \cup {NULL}]]
  BY <1>0, <1>1, <1>2 DEF TwoFree, FreeFds, TypeOK
<1>4. inhand' = [inhand EXCEPT ![p] = None] /\ Goto(p, "idle") /\ UNCHANGED <<table, objects, stuck, saved, dying, history>>
  BY DEF pipe_fd
<1>5. inhand' \in [Procs -> [FDs -> Table \cup {NULL}]]
  BY <1>0, <1>4, NoneRow DEF TypeOK, Rows
<1>6. TypeOK'
  BY <1>0, <1>3, <1>4, <1>5 DEF TypeOK, Goto, Labels, table, objects, history
<1>7. LocalsOf(p)'
  BY <1>0, <1>4 DEF TypeOK, LocalsOf, Goto, pipe_fd
<1>8. LocalsInv'
  BY <1>0, <1>4, <1>7, LocalsStep DEF TypeOK, Goto
<1>9. ObjInv'
  BY <1>0, <1>4 DEF ObjInv, table
<1> QED
  BY <1>6, <1>8, <1>9 DEF Base

LEMMA PipeFdFailBase ==
    ASSUME Base, NEW p \in Procs, pipe_fd_fail(p)
    PROVE  Base'
<1>0. TypeOK /\ LocalsOf(p) /\ ObjInv /\ LocalsInv
  BY DEF Base, LocalsInv
<1>1. inhand[p][0] \in Table
  BY <1>0, Constants DEF LocalsOf, pipe_fd_fail, BothFirst, TypeOK
<1>3. filelist' \in [Procs -> [FDs -> Table \cup {NULL}]]
  BY <1>0, <1>1 DEF pipe_fd_fail, TypeOK
<1>4. Goto(p, "closing") /\ UNCHANGED <<table, objects, stuck, inhand, saved, dying, leaked>> /\ dangled' \in BOOLEAN
  BY <1>0 DEF pipe_fd_fail, TypeOK
<1>6. TypeOK'
  BY <1>0, <1>3, <1>4 DEF TypeOK, Goto, Labels, table, objects
<1>2. InHand(p)' # {}
  BY <1>1, <1>4, Constants DEF InHand
<1>7. LocalsOf(p)'
  BY <1>0, <1>2, <1>4 DEF TypeOK, LocalsOf, Goto, pipe_fd_fail
<1>8. LocalsInv'
  BY <1>0, <1>4, <1>7, LocalsStep DEF TypeOK, Goto
<1>9. ObjInv'
  BY <1>0, <1>4 DEF ObjInv, table
<1> QED
  BY <1>6, <1>8, <1>9 DEF Base

LEMMA SysDupBase ==
    ASSUME Base, NEW p \in Procs, NEW d \in FDs, sys_dup(p, d)
    PROVE  Base'
<1>0. TypeOK /\ ObjInv /\ LocalsInv
  BY DEF Base
<1>1. PICK f : f = filelist[p][d]
  OBVIOUS
<1>2. /\ f \in Table /\ ref[f] > 0 /\ ref' = [ref EXCEPT ![f] = @ + 1]
      /\ UNCHANGED <<obj, objects, stuck, pc, locals, dangled>>
  BY <1>0, <1>1 DEF sys_dup, Dup, Open, TypeOK
<1>3. filelist' \in [Procs -> [FDs -> Table \cup {NULL}]] /\ leaked' \in [Table -> Nat]
  <2>1. CASE FreeFds(p) # {}
    <3>1. PICK m : m = Min(FreeFds(p)) /\ m \in FDs
      BY <2>1, FreeFdMin
    <3>2. filelist' = [filelist EXCEPT ![p][m] = f] /\ leaked' = leaked
      BY <1>1, <2>1, <3>1 DEF sys_dup
    <3> QED
      BY <1>0, <1>2, <3>1, <3>2 DEF TypeOK
  <2>2. CASE FreeFds(p) = {}
    <3>1. filelist' = filelist /\ leaked' = [leaked EXCEPT ![f] = @ + 1]
      BY <1>1, <2>2 DEF sys_dup
    <3> QED
      BY <1>0, <1>2, <3>1 DEF TypeOK
  <2> QED
    BY <2>1, <2>2
<1>4. ref' \in [Table -> Nat]
  BY <1>0, <1>2 DEF TypeOK
<1>5. TypeOK'
  BY <1>0, <1>2, <1>3, <1>4 DEF TypeOK, objects, locals
<1>6. LocalsInv'
  BY <1>0, <1>2 DEF LocalsInv, LocalsOf, InHand, locals
<1>7. ObjInv'
  BY <1>0, <1>2 DEF ObjInv, TypeOK
<1> QED
  BY <1>5, <1>6, <1>7 DEF Base

LEMMA SysCloseBase ==
    ASSUME Base, NEW p \in Procs, NEW d \in FDs, sys_close(p, d)
    PROVE  Base'
<1>0. TypeOK /\ LocalsOf(p) /\ ObjInv /\ LocalsInv
  BY DEF Base, LocalsInv
<1>1. PICK f : f = filelist[p][d]
  OBVIOUS
<1>2. /\ f \in Table
      /\ filelist' = [filelist EXCEPT ![p][d] = NULL]
      /\ inhand' = [inhand EXCEPT ![p][0] = f]
      /\ Goto(p, "closing")
      /\ UNCHANGED <<table, objects, stuck, saved, dying, history>>
  BY <1>0, <1>1 DEF sys_close, Open, TypeOK
<1>3. /\ filelist' \in [Procs -> [FDs -> Table \cup {NULL}]]
      /\ inhand' \in [Procs -> [FDs -> Table \cup {NULL}]]
      /\ inhand'[p][0] = f
  BY <1>0, <1>2, Constants DEF TypeOK
<1>4. TypeOK'
  BY <1>0, <1>2, <1>3 DEF TypeOK, Goto, Labels, table, objects, history
<1>5. InHand(p)' # {}
  BY <1>2, <1>3, Constants DEF InHand
<1>6. LocalsOf(p)'
  BY <1>0, <1>2, <1>5 DEF TypeOK, LocalsOf, Goto, sys_close
<1>7. LocalsInv'
  BY <1>0, <1>2, <1>6, LocalsStep DEF TypeOK, Goto
<1>8. ObjInv'
  BY <1>0, <1>2 DEF ObjInv, table
<1> QED
  BY <1>4, <1>7, <1>8 DEF Base

\* What file_close does to the file f at place d.
Closes(p, d, f, rest) ==
    /\ d \in FDs /\ f \in Table /\ inhand[p][d] = f
    /\ rest = [inhand[p] EXCEPT ![d] = NULL]
    /\ pc[p] = "closing" /\ saved[p] = NULL
    /\ ref[f] > 0
    /\ ref' = [ref EXCEPT ![f] = @ - 1]
    /\ inhand' = [inhand EXCEPT ![p] = rest]
    /\ UNCHANGED <<objects, stuck, filelist, history>>

ClosesLast(p, f) ==
    /\ obj' = [obj EXCEPT ![f] = NULL]
    /\ saved' = [saved EXCEPT ![p] = obj[f]]
    /\ Goto(p, "release")
    /\ UNCHANGED dying

LEMMA FileCloseParts ==
    ASSUME Base, NEW p \in Procs, file_close(p)
    PROVE  \E d, f, rest : /\ Closes(p, d, f, rest)
                           /\ ref[f] = 1 => ClosesLast(p, f)
                           /\ ref[f] # 1 => AfterClose(p, rest) /\ UNCHANGED <<obj, saved>>
<1>0. TypeOK /\ LocalsOf(p)
  BY DEF Base, LocalsInv
<1>1. pc[p] = "closing" /\ saved[p] = NULL /\ InHand(p) # {}
  BY <1>0 DEF LocalsOf, file_close
<1>2. PICK d : d = Min(InHand(p))
  OBVIOUS
<1>3. d \in InHand(p)
  <2>1. InHand(p) \in SUBSET Nat
    BY Constants DEF InHand
  <2> QED
    BY <1>1, <1>2, <2>1, MinIn
<1>4. PICK f : f = inhand[p][d]
  OBVIOUS
<1>5. PICK rest : rest = [inhand[p] EXCEPT ![d] = NULL]
  OBVIOUS
<1>6. d \in FDs /\ f \in Table
  BY <1>0, <1>3, <1>4 DEF InHand, TypeOK
<1>7. Closes(p, d, f, rest)
  BY <1>1, <1>2, <1>4, <1>5, <1>6 DEF Closes, file_close
<1>8. ref[f] = 1 => ClosesLast(p, f)
  BY <1>2, <1>4, <1>5 DEF file_close, ClosesLast, ReadFields
<1>9. ref[f] # 1 => AfterClose(p, rest) /\ UNCHANGED <<obj, saved>>
  BY <1>2, <1>4, <1>5 DEF file_close
<1> QED
  BY <1>7, <1>8, <1>9

\* What a process has when it is done with a file.
LEMMA AfterCloseBase ==
    ASSUME TypeOK, LocalsInv, NEW p \in Procs, NEW h \in Rows,
           pc[p] \in {"closing", "release"}, AfterClose(p, h),
           inhand' = [inhand EXCEPT ![p] = h], saved' \in [Procs -> Objects \cup {NULL}], saved'[p] = NULL,
           \A q \in Procs \ {p} : saved'[q] = saved[q]
    PROVE  LocalsInv' /\ pc' \in [Procs -> Labels] /\ dying' \in SUBSET Procs
<1>1. pc' \in [Procs -> Labels] /\ dying' \in SUBSET Procs
  BY DEF AfterClose, Labels, TypeOK
<1>2. \A q \in Procs \ {p} : /\ pc'[q] = pc[q] /\ inhand'[q] = inhand[q]
                             /\ q \in dying' <=> q \in dying
  BY DEF AfterClose, TypeOK
<1>3. inhand'[p] = h
  BY DEF TypeOK
<1>4. CASE h # None
  <2>1. pc'[p] = "closing"
    BY <1>4 DEF AfterClose, TypeOK
  <2>2. PICK d \in FDs : h[d] # NULL
    BY <1>4, RowsEqual, NoneRow DEF None
  <2>3. InHand(p)' # {}
    BY <1>3, <2>2 DEF InHand
  <2>4. LocalsOf(p)'
    BY <2>1, <2>3 DEF LocalsOf
  <2> QED
    BY <1>1, <1>2, <2>4, LocalsStep
<1>5. CASE h = None
  <2>1. pc'[p] \in {"unused", "idle"} /\ p \notin dying'
    BY <1>5 DEF AfterClose, TypeOK
  <2>2. LocalsOf(p)'
    BY <1>3, <1>5, <2>1 DEF LocalsOf
  <2> QED
    BY <1>1, <1>2, <2>2, LocalsStep
<1> QED
  BY <1>4, <1>5

LEMMA FileCloseBase ==
    ASSUME Base, NEW p \in Procs, file_close(p)
    PROVE  Base'
<1>0. TypeOK /\ LocalsOf(p) /\ ObjInv /\ LocalsInv
  BY DEF Base, LocalsInv
<1>1. PICK d, f, rest : /\ Closes(p, d, f, rest)
                        /\ ref[f] = 1 => ClosesLast(p, f)
                        /\ ref[f] # 1 => AfterClose(p, rest) /\ UNCHANGED <<obj, saved>>
  BY FileCloseParts
<1>2. d \in FDs /\ f \in Table /\ inhand[p][d] = f /\ rest \in Rows
  BY <1>0, <1>1 DEF Closes, Rows, TypeOK
<1>3. ref' \in [Table -> Nat] /\ inhand' \in [Procs -> [FDs -> Table \cup {NULL}]] /\ inhand'[p] = rest
  BY <1>0, <1>1, <1>2 DEF Closes, TypeOK, Rows
<1>4. UNCHANGED <<objects, stuck, filelist, history>>
  BY <1>1 DEF Closes
<1>5. CASE ref[f] = 1
  <2>1. ClosesLast(p, f) /\ obj[f] \in Objects
    BY <1>0, <1>1, <1>2, <1>5 DEF ObjInv
  <2>2. TypeOK'
    BY <1>0, <1>2, <1>3, <1>4, <2>1 DEF TypeOK, ClosesLast, Goto, Labels, objects, history
  <2>3. LocalsOf(p)'
    BY <1>0, <1>1, <2>1 DEF TypeOK, LocalsOf, ClosesLast, Closes, Goto
  <2>4. LocalsInv'
    BY <1>0, <1>1, <2>1, <2>3, LocalsStep DEF TypeOK, ClosesLast, Closes, Goto
  <2>5. ObjInv'
    BY <1>0, <1>1, <1>2, <1>5, <2>1 DEF TypeOK, ObjInv, ClosesLast, Closes
  <2> QED
    BY <2>2, <2>4, <2>5 DEF Base
<1>6. CASE ref[f] # 1
  <2>1. AfterClose(p, rest) /\ UNCHANGED <<obj, saved>>
    BY <1>1, <1>6
  <2>2. LocalsInv' /\ pc' \in [Procs -> Labels] /\ dying' \in SUBSET Procs
    BY <1>0, <1>1, <1>2, <2>1, AfterCloseBase DEF Closes, TypeOK
  <2>3. TypeOK'
    BY <1>0, <1>3, <1>4, <2>1, <2>2 DEF TypeOK, objects, history
  <2>4. ObjInv'
    BY <1>0, <1>1, <1>2, <1>6, <2>1 DEF TypeOK, ObjInv, Closes
  <2> QED
    BY <2>2, <2>3, <2>4 DEF Base
<1> QED
  BY <1>5, <1>6

LEMMA FileReleaseBase ==
    ASSUME Base, NEW p \in Procs, file_release(p)
    PROVE  Base'
<1>0. TypeOK /\ LocalsOf(p) /\ ObjInv /\ LocalsInv
  BY DEF Base, LocalsInv
<1>1. PICK h : h = inhand[p]
  OBVIOUS
<1>2. h \in Rows /\ inhand' = [inhand EXCEPT ![p] = h]
  BY <1>0, <1>1 DEF file_release, TypeOK, Rows
<1>3. AfterClose(p, h) /\ pc[p] = "release" /\ UNCHANGED <<table, stuck, filelist, inhand, history>>
  BY <1>1 DEF file_release
<1>4. saved' \in [Procs -> Objects \cup {NULL}] /\ saved'[p] = NULL /\ \A q \in Procs \ {p} : saved'[q] = saved[q]
  BY <1>0 DEF file_release, TypeOK
<1>5. LocalsInv' /\ pc' \in [Procs -> Labels] /\ dying' \in SUBSET Procs
  BY <1>0, <1>2, <1>3, <1>4, AfterCloseBase
<1>6. iref' \in [Inodes -> 0..(WRAP - 1)]
  <2>1. CASE saved[p] \in Inodes
    <3>1. PICK i : i = saved[p]
      OBVIOUS
    <3>2. iref' = [iref EXCEPT ![i] = Dropped(i)]
      BY <2>1, <3>1 DEF file_release, Released
    <3>3. WRAP \in Nat \ {0} /\ iref[i] \in Nat
      BY <1>0, <2>1, <3>1, FilesAssumption, FS_CardinalityType DEF TypeOK
    <3>5. iref[i] + WRAP - 1 \in Nat
      BY <3>3
    <3>6. Dropped(i) \in 0..(WRAP - 1)
      BY <3>3, <3>5, ModRange DEF Dropped
    <3> QED
      BY <1>0, <3>2, <3>6 DEF TypeOK
  <2>2. CASE saved[p] \notin Inodes
    BY <1>0, <2>2 DEF file_release, Released, TypeOK
  <2> QED
    BY <2>1, <2>2
<1>7. popen' \in SUBSET Ends
  BY <1>0 DEF file_release, TypeOK
<1>8. TypeOK'
  BY <1>0, <1>3, <1>4, <1>5, <1>6, <1>7 DEF TypeOK, table, history
<1>9. ObjInv'
  BY <1>0, <1>3 DEF ObjInv, table
<1> QED
  BY <1>5, <1>8, <1>9 DEF Base

\* What the panic of proc_free leaves.
Stops(p, o) ==
    /\ o = saved[p] /\ pc[p] = "release" /\ p \in dying
    /\ popen' = popen \ {o}
    /\ saved' = [saved EXCEPT ![p] = IF o \in Ends THEN NULL ELSE o]
    /\ pc' = [pc EXCEPT ![p] = "panic"]
    /\ UNCHANGED <<ref, obj, iref, stuck, filelist, inhand, dying, leaked, dangled>>

LEMMA ReleasePanicIs ==
    ASSUME TypeOK, NEW p \in Procs, file_release_panic(p)
    PROVE  Stops(p, saved[p])
BY DEF file_release_panic, Released, Stops, Goto, table, history, TypeOK

LEMMA ReleasePanicBase ==
    ASSUME Base, NEW p \in Procs, NEW o, Stops(p, o)
    PROVE  Base'
<1> USE DEF Stops
<1>0. TypeOK /\ LocalsOf(p) /\ ObjInv /\ LocalsInv
  BY DEF Base, LocalsInv
<1>1. saved' \in [Procs -> Objects \cup {NULL}] /\ pc' \in [Procs -> Labels]
  BY <1>0 DEF TypeOK, Labels
<1>2. TypeOK'
  BY <1>0, <1>1 DEF TypeOK
<1>3. LocalsOf(p)'
  BY <1>0 DEF LocalsOf, TypeOK
<1>4. LocalsInv'
  BY <1>0, <1>1, <1>3, LocalsStep DEF TypeOK
<1>5. ObjInv'
  BY <1>0 DEF ObjInv
<1> QED
  BY <1>2, <1>4, <1>5 DEF Base

LEMMA ForkBase ==
    ASSUME Base, NEW p \in Procs, NEW c \in Procs, proc_fork(p, c)
    PROVE  Base'
<1>0. TypeOK /\ LocalsOf(c) /\ ObjInv /\ LocalsInv
  BY DEF Base, LocalsInv
<1>1. \A f \in Table : {d \in Open(p) : filelist[p][d] = f} = Row(filelist[p], f)
  BY Constants DEF Open, Row
<1>2. \A f \in Table : ref'[f] = ref[f] + Num(filelist[p], f)
  BY <1>1 DEF proc_fork, Num
<1>3. ref' \in [Table -> Nat]
  <2>1. \A f \in Table : ref[f] \in Nat /\ Num(filelist[p], f) \in Nat
    BY <1>0, NumNat DEF TypeOK
  <2>2. ref' = [f \in Table |-> ref[f] + Num(filelist[p], f)]
    BY <1>1 DEF proc_fork, Num
  <2> QED
    BY <2>1, <2>2
<1>4. Inherited(p, c) \in [FDs -> Table \cup {NULL}]
  BY <1>0 DEF Inherited, TypeOK
<1>5. filelist' \in [Procs -> [FDs -> Table \cup {NULL}]]
  BY <1>0, <1>4 DEF proc_fork, TypeOK
<1>6. Goto(c, "idle") /\ UNCHANGED <<obj, objects, stuck, locals, leaked>> /\ dangled' \in BOOLEAN
  BY <1>0 DEF proc_fork, TypeOK
<1>7. TypeOK'
  BY <1>0, <1>3, <1>5, <1>6 DEF TypeOK, Goto, Labels, objects, locals
<1>8. LocalsOf(c)'
  BY <1>0, <1>6 DEF TypeOK, LocalsOf, Goto, locals, proc_fork
<1>9. LocalsInv'
  BY <1>0, <1>6, <1>8, LocalsStep DEF TypeOK, Goto, locals
<1>10. ObjInv'
  <2> SUFFICES ASSUME NEW f \in Table, ref'[f] > 0 PROVE obj'[f] \in Objects
    BY DEF ObjInv
  <2>1. CASE ref[f] > 0
    BY <1>0, <1>6, <2>1 DEF ObjInv
  <2>2. CASE ~ (ref[f] > 0)
    <3>1. Row(filelist[p], f) = {}
      BY <2>2, Constants DEF Row, proc_fork, Open
    <3>2. Num(filelist[p], f) = 0
      BY <3>1, FS_EmptySet DEF Num
    <3> QED
      BY <1>0, <1>2, <2>2, <3>2 DEF TypeOK
  <2> QED
    BY <2>1, <2>2
<1> QED
  BY <1>7, <1>9, <1>10 DEF Base

LEMMA FreeBase ==
    ASSUME Base, NEW p \in Procs, proc_free(p)
    PROVE  Base'
<1>0. TypeOK /\ LocalsOf(p) /\ ObjInv /\ LocalsInv
  BY DEF Base, LocalsInv
<1>1. inhand' = [inhand EXCEPT ![p] = filelist[p]] /\ UNCHANGED <<table, objects, stuck, filelist, saved, history>>
  BY DEF proc_free
<1>2. inhand' \in [Procs -> [FDs -> Table \cup {NULL}]] /\ inhand'[p] = filelist[p]
  BY <1>0, <1>1 DEF TypeOK
<1>3. CASE Open(p) # {}
  <2>1. Goto(p, "closing") /\ dying' = dying \cup {p}
    BY <1>3 DEF proc_free
  <2>2. InHand(p)' # {}
    BY <1>2, <1>3 DEF InHand, Open
  <2>3. TypeOK'
    BY <1>0, <1>1, <1>2, <2>1 DEF TypeOK, Goto, Labels, table, objects, history
  <2>4. LocalsOf(p)'
    BY <1>0, <1>1, <2>1, <2>2 DEF TypeOK, LocalsOf, Goto, proc_free
  <2>5. LocalsInv'
    BY <1>0, <1>1, <2>1, <2>4, LocalsStep DEF TypeOK, Goto
  <2>6. ObjInv'
    BY <1>0, <1>1 DEF ObjInv, table
  <2> QED
    BY <2>3, <2>5, <2>6 DEF Base
<1>4. CASE Open(p) = {}
  <2>1. Goto(p, "unused") /\ dying' = dying
    BY <1>4 DEF proc_free
  <2>2. inhand'[p] = None
    <3>1. \A d \in FDs : filelist[p][d] = None[d]
      BY <1>4 DEF Open, None
    <3>2. filelist[p] \in Rows
      BY <1>0 DEF TypeOK, Rows
    <3> QED
      BY <1>2, <3>1, <3>2, NoneRow, RowsEqual
  <2>3. TypeOK'
    BY <1>0, <1>1, <1>2, <2>1 DEF TypeOK, Goto, Labels, table, objects, history
  <2>4. LocalsOf(p)'
    BY <1>0, <1>1, <2>1, <2>2 DEF TypeOK, LocalsOf, Goto, proc_free
  <2>5. LocalsInv'
    BY <1>0, <1>1, <2>1, <2>4, LocalsStep DEF TypeOK, Goto
  <2>6. ObjInv'
    BY <1>0, <1>1 DEF ObjInv, table
  <2> QED
    BY <2>3, <2>5, <2>6 DEF Base
<1> QED
  BY <1>3, <1>4

-----------------------------------------------------------------------------
(***************************************************************************)
(* References to files: what one process has, and what the others have.    *)
(***************************************************************************)
Users == {q \in Procs : Uses(q)}
ShareIn(t, U, h, p, f) == (IF p \in U THEN Num(t[p], f) ELSE 0) + Num(h[p], f)
OthersIn(t, U, h, p, f) == Cardinality(At(t, U \ {p}, f)) + Cardinality(At(h, Procs \ {p}, f))
Share(p, f) == ShareIn(filelist, Users, inhand, p, f)
Others(p, f) == OthersIn(filelist, Users, inhand, p, f)

LEMMA ShareInNat ==
    ASSUME NEW t, NEW U, NEW h, NEW p, NEW f
    PROVE  ShareIn(t, U, h, p, f) \in Nat /\ OthersIn(t, U, h, p, f) \in Nat
<1>1. Num(t[p], f) \in Nat /\ Num(h[p], f) \in Nat
  BY NumNat
<1>2. Cardinality(At(t, U \ {p}, f)) \in Nat /\ Cardinality(At(h, Procs \ {p}, f)) \in Nat
  BY AtFinite
<1> QED
  BY <1>1, <1>2 DEF ShareIn, OthersIn

LEMMA ShareNat ==
    ASSUME NEW p, NEW f
    PROVE  Share(p, f) \in Nat /\ Others(p, f) \in Nat
BY ShareInNat DEF Share, Others

LEMMA PartsIn ==
    ASSUME NEW t, NEW U, NEW h, NEW p \in Procs, NEW f
    PROVE  Cardinality(At(t, U, f)) + Cardinality(At(h, Procs, f)) = OthersIn(t, U, h, p, f) + ShareIn(t, U, h, p, f)
<1>2. Cardinality(At(h, Procs, f)) = Cardinality(At(h, Procs \ {p}, f)) + Num(h[p], f)
  BY AtSplit
<1>3. /\ Cardinality(At(t, U \ {p}, f)) \in Nat /\ Cardinality(At(h, Procs \ {p}, f)) \in Nat
      /\ Num(t[p], f) \in Nat /\ Num(h[p], f) \in Nat
  BY AtFinite, NumNat
<1>4. CASE p \in U
  <2>1. Cardinality(At(t, U, f)) = Cardinality(At(t, U \ {p}, f)) + Num(t[p], f)
    BY <1>4, AtSplit
  <2>2. ShareIn(t, U, h, p, f) = Num(t[p], f) + Num(h[p], f)
    BY <1>4 DEF ShareIn
  <2> QED
    BY <1>2, <1>3, <2>1, <2>2 DEF OthersIn
<1>5. CASE p \notin U
  <2>1. U \ {p} = U
    BY <1>5
  <2>2. ShareIn(t, U, h, p, f) = Num(h[p], f)
    BY <1>3, <1>5 DEF ShareIn
  <2> QED
    BY <1>2, <1>3, <2>1, <2>2 DEF OthersIn
<1> QED
  BY <1>4, <1>5

LEMMA Parts ==
    ASSUME NEW p \in Procs, NEW f
    PROVE  Cardinality(Named(f)) + Cardinality(Held(f)) = Others(p, f) + Share(p, f)
<1>1. Named(f) = At(filelist, Users, f) /\ Held(f) = At(inhand, Procs, f)
  BY DEF Named, Held, At, Users
<1> QED
  BY <1>1, PartsIn DEF Share, Others

\* A step that changes the files of one process only.
Alone(p) ==
    \A q \in Procs \ {p} :
        filelist'[q] = filelist[q] /\ inhand'[q] = inhand[q] /\ (Uses(q)' <=> Uses(q))

LEMMA OthersSame ==
    ASSUME NEW p \in Procs, NEW f, Alone(p)
    PROVE  Others(p, f)' = Others(p, f)
<1>1. \A q \in Procs \ {p} : q \in Users' <=> q \in Users
  BY DEF Alone, Users
<1>2. At(filelist, Users \ {p}, f)' = At(filelist, Users \ {p}, f)
  BY <1>1 DEF At, Alone
<1>3. At(inhand, Procs \ {p}, f)' = At(inhand, Procs \ {p}, f)
  BY DEF At, Alone
<1> QED
  BY <1>2, <1>3 DEF Others, OthersIn

Balanced(p) ==
    \A f \in Table : ref'[f] + (Share(p, f) + leaked[f]) = ref[f] + (Share(p, f)' + leaked'[f])

LEMMA RefStep ==
    ASSUME RefExact, TypeOK', NEW p \in Procs, Alone(p),
           ~dangled' => ~dangled /\ Balanced(p)
    PROVE  RefExact'
<1> SUFFICES ASSUME ~dangled', NEW f \in Table
             PROVE  ref'[f] = Cardinality(Named(f)') + Cardinality(Held(f)') + leaked'[f]
  BY DEF RefExact
<1>1. ref[f] = Cardinality(Named(f)) + Cardinality(Held(f)) + leaked[f]
  BY DEF RefExact
<1>2. Cardinality(Named(f)) + Cardinality(Held(f)) = Others(p, f) + Share(p, f)
  BY Parts
<1>10. Named(f)' = At(filelist', Users', f) /\ Held(f)' = At(inhand', Procs, f)
  BY DEF Named, Held, At, Users
<1>3. Cardinality(Named(f)') + Cardinality(Held(f)') = Others(p, f)' + Share(p, f)'
  BY <1>10, PartsIn DEF Share, Others
<1>4. Others(p, f)' = Others(p, f)
  BY OthersSame
<1>5. ref'[f] + (Share(p, f) + leaked[f]) = ref[f] + (Share(p, f)' + leaked'[f])
  BY DEF Balanced
<1>6. Share(p, f) \in Nat /\ Others(p, f) \in Nat
  BY ShareNat
<1>7. Share(p, f)' \in Nat /\ Others(p, f)' \in Nat
  BY ShareInNat DEF Share, Others
<1>8. ref[f] \in Nat /\ leaked[f] \in Nat /\ ref'[f] \in Nat /\ leaked'[f] \in Nat
  BY DEF RefExact, TypeOK
<1>9. ref'[f] = Others(p, f)' + Share(p, f)' + leaked'[f]
  <2>1. ref[f] = Others(p, f) + Share(p, f) + leaked[f]
    BY <1>1, <1>2
  <2>2. PICK o, s, t : o = Others(p, f) /\ s = Share(p, f) /\ t = Share(p, f)'
    OBVIOUS
  <2>3. o \in Nat /\ s \in Nat /\ t \in Nat
    BY <1>6, <1>7, <2>2
  <2>4. ref'[f] + (s + leaked[f]) = ref[f] + (t + leaked'[f])
    BY <1>5, <2>2
  <2>5. ref[f] = o + s + leaked[f]
    BY <2>1, <2>2
  <2>6. PICK k, l, r, n : k = leaked[f] /\ l = leaked'[f] /\ r = ref[f] /\ n = ref'[f]
    OBVIOUS
  <2>7. k \in Nat /\ l \in Nat /\ r \in Nat /\ n \in Nat
    BY <1>8, <2>6
  <2>8. r = o + s + k /\ n + (s + k) = r + (t + l)
    BY <2>4, <2>5, <2>6
  <2>9. n = o + t + l
    BY <2>3, <2>7, <2>8
  <2> QED
    BY <2>2, <2>6, <2>9, <1>4
<1> QED
  BY <1>3, <1>9

\* A file without references is in nobody's hands.
LEMMA FreeUnused ==
    ASSUME RefExact, ~dangled, NEW f \in Table, NEW p \in Procs, NEW d \in FDs, inhand[p][d] = f
    PROVE  ref[f] > 0
<1>1. ref[f] = Cardinality(Named(f)) + Cardinality(Held(f)) + leaked[f]
  BY DEF RefExact
<1>2. Cardinality(Named(f)) + Cardinality(Held(f)) = Others(p, f) + Share(p, f)
  BY Parts
<1>3. d \in Row(inhand[p], f) /\ IsFiniteSet(Row(inhand[p], f))
  BY NumNat DEF Row
<1>4. Num(inhand[p], f) # 0 /\ Num(inhand[p], f) \in Nat /\ Num(filelist[p], f) \in Nat
  BY <1>3, NumNat, FS_EmptySet DEF Num
<1>5. Others(p, f) \in Nat /\ Share(p, f) \in Nat /\ leaked[f] \in Nat
  BY ShareNat DEF RefExact, TypeOK
<1>6. Share(p, f) > 0
  BY <1>4 DEF Share, ShareIn
<1> QED
  BY <1>1, <1>2, <1>5, <1>6

\* A file in the hands of two processes has two references.
LEMMA TwoHands ==
    ASSUME RefExact, ~dangled, NEW f \in Table,
           NEW p \in Procs, NEW d \in FDs, inhand[p][d] = f,
           NEW q \in Procs, NEW e \in FDs, inhand[q][e] = f, p # q
    PROVE  ref[f] > 1
<1>1. ref[f] = Cardinality(Named(f)) + Cardinality(Held(f)) + leaked[f]
  BY DEF RefExact
<1>2. Held(f) = At(inhand, Procs, f) /\ Named(f) = At(filelist, Users, f)
  BY DEF Held, Named, At, Users
<1>3. Cardinality(Held(f)) = Cardinality(At(inhand, Procs \ {p}, f)) + Num(inhand[p], f)
  BY <1>2, AtSplit
<1>4. <<q, e>> \in At(inhand, Procs \ {p}, f) /\ IsFiniteSet(At(inhand, Procs \ {p}, f))
  <2>1. PICK x : x = <<q, e>>
    OBVIOUS
  <2>2. x \in Procs \X FDs /\ x[1] = q /\ x[2] = e
    BY <2>1
  <2>3. x \in At(inhand, Procs \ {p}, f)
    BY <2>2 DEF At
  <2> QED
    BY <2>1, <2>3, AtFinite
<1>5. d \in Row(inhand[p], f) /\ IsFiniteSet(Row(inhand[p], f))
  BY NumNat DEF Row
<1>6. Num(inhand[p], f) # 0 /\ Num(inhand[p], f) \in Nat
  BY <1>5, NumNat, FS_EmptySet DEF Num
<1>7. Cardinality(At(inhand, Procs \ {p}, f)) # 0 /\ Cardinality(At(inhand, Procs \ {p}, f)) \in Nat
  BY <1>4, AtFinite, FS_EmptySet
<1>8. Cardinality(Named(f)) \in Nat /\ leaked[f] \in Nat
  BY <1>2, AtFinite DEF RefExact, TypeOK
<1> QED
  BY <1>1, <1>3, <1>6, <1>7, <1>8

\* Steps that leave the files and who has them alone.
LEMMA RefSame ==
    ASSUME RefExact, TypeOK', UNCHANGED <<ref, filelist, inhand, history>>,
           \A q \in Procs : Uses(q)' <=> Uses(q)
    PROVE  RefExact'
<1>1. \A f \in Table : Named(f)' = Named(f) /\ Held(f)' = Held(f)
  BY DEF Named, Held
<1> QED
  BY <1>1 DEF RefExact, history

LEMMA StillUses ==
    ASSUME TypeOK, LocalsInv, NEW p \in Procs, NEW l \in Labels, l # "unused", pc[p] # "unused", Goto(p, l), dying' = dying
    PROVE  \A q \in Procs : Uses(q)' <=> Uses(q)
BY DEF Goto, Uses, TypeOK

\* A process that has a file for a new entry.
LEMMA AllocatedRef ==
    ASSUME Base, Base', RefExact, NEW n, NEW p \in Procs, NEW d \in FDs, NEW o \in Objects,
           Allocated(n, p, d, o), inhand[p][d] = NULL, NEW l \in Labels,
           pc[p] # "unused", l # "unused", Goto(p, l),
           UNCHANGED <<filelist, dying, history>>
    PROVE  RefExact'
<1>0. TypeOK /\ TypeOK' /\ LocalsInv /\ ObjInv
  BY DEF Base
<1>1. \A q \in Procs : Uses(q)' <=> Uses(q)
  BY <1>0, StillUses
<1>2. /\ \A q \in Procs \ {p} : inhand'[q] = inhand[q]
      /\ inhand'[p] = [inhand[p] EXCEPT ![d] = n]
      /\ \A f \in Table : f # n => ref'[f] = ref[f]
      /\ ref'[n] = 1 /\ ref[n] = 0 /\ n \in Table
  BY <1>0, AllocatedTypes DEF Allocated
<1>3. Alone(p)
  BY <1>1, <1>2 DEF Alone
<1>4. Balanced(p)
  <2> SUFFICES ASSUME NEW f \in Table
               PROVE  ref'[f] + (Share(p, f) + leaked[f]) = ref[f] + (Share(p, f)' + leaked'[f])
    BY DEF Balanced
  <2>1. inhand[p] \in Rows /\ inhand'[p] \in Rows
    BY <1>0 DEF TypeOK, Rows
  <2>2. Num(inhand'[p], f) = Num(inhand[p], f) + Bit(f = n)
    BY <1>2, <2>1, NumPut
  <2>3. Num(inhand[p], f) \in Nat /\ Num(filelist[p], f) \in Nat
    BY NumNat
  <2>4. ref'[f] = ref[f] + Bit(f = n)
    BY <1>0, <1>2 DEF Bit, TypeOK
  <2>5. Share(p, f)' = Share(p, f) + Bit(f = n) /\ Share(p, f) \in Nat
    BY <1>1, <2>2, <2>3 DEF Share, ShareIn, Users, Bit
  <2>6. leaked'[f] = leaked[f] /\ leaked[f] \in Nat /\ ref[f] \in Nat /\ Bit(f = n) \in Nat
    BY <1>0 DEF history, TypeOK, Bit
  <2> QED
    BY <2>4, <2>5, <2>6
<1> QED
  BY <1>0, <1>3, <1>4, RefStep DEF history

LEMMA OpenInodeRef ==
    ASSUME Base, Base', RefExact, NEW p \in Procs, NEW i \in Inodes, open_inode(p, i)
    PROVE  RefExact'
<1>0. TypeOK /\ LocalsInv /\ TypeOK'
  BY DEF Base
<1>1. pc[p] = "idle" /\ Goto(p, "open") /\ UNCHANGED <<ref, filelist, inhand, history>> /\ dying' = dying
  BY DEF open_inode, table
<1>2. \A q \in Procs : Uses(q)' <=> Uses(q)
  BY <1>0, <1>1, StillUses DEF Labels
<1> QED
  BY <1>0, <1>1, <1>2, RefSame

LEMMA PipeNewRef ==
    ASSUME Base, Base', RefExact, NEW p \in Procs, NEW x \in Pipes, pipe_new(p, x)
    PROVE  RefExact'
<1>0. TypeOK /\ LocalsInv /\ TypeOK'
  BY DEF Base
<1>1. pc[p] = "idle" /\ Goto(p, "pipe") /\ UNCHANGED <<ref, filelist, inhand, history>> /\ dying' = dying
  BY DEF pipe_new, table
<1>2. \A q \in Procs : Uses(q)' <=> Uses(q)
  BY <1>0, <1>1, StillUses DEF Labels
<1> QED
  BY <1>0, <1>1, <1>2, RefSame

LEMMA PanicRef ==
    ASSUME Base, Base', RefExact, NEW p \in Procs, pc[p] # "unused", Goto(p, "panic"),
           UNCHANGED <<table, objects, filelist, locals, history>>
    PROVE  RefExact'
<1>0. TypeOK /\ LocalsInv /\ TypeOK'
  BY DEF Base
<1>1. UNCHANGED <<ref, filelist, inhand, history>> /\ dying' = dying
  BY DEF table, locals
<1>2. \A q \in Procs : Uses(q)' <=> Uses(q)
  BY <1>0, <1>1, StillUses DEF Labels
<1> QED
  BY <1>0, <1>1, <1>2, RefSame

LEMMA OpenFileRef ==
    ASSUME Base, Base', RefExact, NEW p \in Procs, open_file(p)
    PROVE  RefExact'
<1>0. TypeOK /\ LocalsOf(p)
  BY DEF Base, LocalsInv
<1>1. PICK o : o = saved[p]
  OBVIOUS
<1>2. o \in Objects /\ inhand[p][0] = NULL
  BY <1>0, <1>1, Constants DEF LocalsOf, open_file, Objects, None
<1>3. PICK n : Allocated(n, p, 0, o)
  BY <1>0, <1>1, AllocatedFirst, Constants DEF open_file
<1>4. pc[p] = "open" /\ Goto(p, "fd") /\ UNCHANGED <<filelist, dying, history>>
  BY DEF open_file
<1> QED
  BY <1>2, <1>3, <1>4, AllocatedRef, Constants DEF Labels

LEMMA PipeFileRef ==
    ASSUME Base, Base', RefExact, NEW p \in Procs, pipe_file(p)
    PROVE  RefExact'
<1>0. TypeOK /\ LocalsOf(p)
  BY DEF Base, LocalsInv
<1>1. PICK o : o = saved[p]
  OBVIOUS
<1>2. o \in Objects /\ inhand[p][0] = NULL
  BY <1>0, <1>1, Constants DEF LocalsOf, pipe_file, Objects, None
<1>3. PICK n : Allocated(n, p, 0, o)
  BY <1>0, <1>1, AllocatedFirst, Constants DEF pipe_file
<1>4. pc[p] = "pipe" /\ Goto(p, "pipe2") /\ UNCHANGED <<filelist, dying, history>>
  BY DEF pipe_file
<1> QED
  BY <1>2, <1>3, <1>4, AllocatedRef, Constants DEF Labels

LEMMA PipeFile2Ref ==
    ASSUME Base, Base', RefExact, NEW p \in Procs, pipe_file2(p)
    PROVE  RefExact'
<1>0. TypeOK /\ LocalsOf(p)
  BY DEF Base, LocalsInv
<1>1. PICK o : o = saved[p]
  OBVIOUS
<1>2. o \in Objects /\ inhand[p][1] = NULL
  BY <1>0, <1>1, Constants DEF LocalsOf, pipe_file2, Objects, OnlyFirst
<1>3. PICK n : Allocated(n, p, 1, o)
  BY <1>0, <1>1, AllocatedFirst, Constants DEF pipe_file2
<1>4. pc[p] = "pipe2" /\ Goto(p, "pipefd") /\ UNCHANGED <<filelist, dying, history>>
  BY DEF pipe_file2
<1> QED
  BY <1>2, <1>3, <1>4, AllocatedRef, Constants DEF Labels

\* A process that uses its descriptors before and after.
LEMMA Swap ==
    ASSUME Base, Base', RefExact, NEW p \in Procs,
           \A q \in Procs : Uses(q)' <=> Uses(q), Uses(p),
           \A q \in Procs \ {p} : filelist'[q] = filelist[q] /\ inhand'[q] = inhand[q],
           UNCHANGED <<ref, history>>,
           \A f \in Table : Num(filelist'[p], f) + Num(inhand'[p], f) = Num(filelist[p], f) + Num(inhand[p], f)
    PROVE  RefExact'
<1>0. TypeOK'
  BY DEF Base
<1>1. Alone(p)
  BY DEF Alone
<1>2. Balanced(p)
  <2>1. p \in Users /\ p \in Users'
    BY DEF Users
  <2>2. \A f \in Table : Share(p, f)' = Share(p, f)
    BY <2>1 DEF Share, ShareIn
  <2> QED
    BY <2>2 DEF Balanced, history
<1> QED
  BY <1>0, <1>1, <1>2, RefStep DEF history

LEMMA OpenFdRef ==
    ASSUME Base, Base', RefExact, NEW p \in Procs, open_fd(p)
    PROVE  RefExact'
<1>0. TypeOK /\ LocalsInv /\ TypeOK' /\ LocalsOf(p)
  BY DEF Base, LocalsInv
<1>1. pc[p] = "fd" /\ dying' = dying /\ UNCHANGED <<ref, history>>
  BY DEF open_fd, table
<1>2. CASE FreeFds(p) # {}
  <2>1. PICK m : m = Min(FreeFds(p)) /\ m \in FDs /\ filelist[p][m] = NULL
    BY <1>2, FreeFdMin
  <2>2. filelist' = [filelist EXCEPT ![p][m] = inhand[p][0]] /\ inhand' = [inhand EXCEPT ![p] = None] /\ Goto(p, "idle")
    BY <1>2, <2>1 DEF open_fd
  <2>3. \A q \in Procs : Uses(q)' <=> Uses(q)
    BY <1>0, <1>1, <2>2, StillUses DEF Labels
  <2>4. Uses(p)
    BY <1>0, <1>1 DEF Uses, LocalsOf
  <2>5. \A q \in Procs \ {p} : filelist'[q] = filelist[q] /\ inhand'[q] = inhand[q]
    BY <1>0, <2>2 DEF TypeOK
  <2>6. ASSUME NEW f \in Table
        PROVE  Num(filelist'[p], f) + Num(inhand'[p], f) = Num(filelist[p], f) + Num(inhand[p], f)
    <3>1. inhand[p] \in Rows /\ filelist[p] \in Rows /\ filelist'[p] \in Rows /\ OnlyFirst(inhand[p])
      BY <1>0, <1>1 DEF TypeOK, Rows, LocalsOf
    <3>2. PICK g : g = inhand[p][0]
      OBVIOUS
    <3>3. g \in Table /\ Num(inhand[p], f) = Bit(f = g)
      BY <3>1, <3>2, NumOnly
    <3>4. filelist'[p] = [filelist[p] EXCEPT ![m] = g] /\ inhand'[p] = None
      BY <1>0, <2>2, <3>2 DEF TypeOK
    <3>5. Num(filelist'[p], f) = Num(filelist[p], f) + Bit(f = g)
      BY <2>1, <3>1, <3>3, <3>4, NumPut
    <3>6. Num(inhand'[p], f) = 0
      BY <3>4, NumNone
    <3>7. Num(filelist[p], f) \in Nat /\ Bit(f = g) \in Nat
      BY NumNat DEF Bit
    <3> QED
      BY <3>3, <3>5, <3>6, <3>7
  <2> QED
    BY <1>1, <2>3, <2>4, <2>5, <2>6, Swap
<1>3. CASE FreeFds(p) = {}
  <2>1. Goto(p, "closing") /\ UNCHANGED <<filelist, inhand>>
    BY <1>3 DEF open_fd
  <2>2. \A q \in Procs : Uses(q)' <=> Uses(q)
    BY <1>0, <1>1, <2>1, StillUses DEF Labels
  <2> QED
    BY <1>0, <1>1, <2>1, <2>2, RefSame
<1> QED
  BY <1>2, <1>3

LEMMA PipeFdRef ==
    ASSUME Base, Base', RefExact, NEW p \in Procs, pipe_fd(p)
    PROVE  RefExact'
<1>0. TypeOK /\ LocalsInv /\ TypeOK' /\ LocalsOf(p)
  BY DEF Base, LocalsInv
<1>1. pc[p] = "pipefd" /\ dying' = dying /\ UNCHANGED <<ref, history>> /\ Goto(p, "idle") /\ inhand' = [inhand EXCEPT ![p] = None]
  BY DEF pipe_fd, table
<1>2. PICK d, e : TwoFree(p, d, e)
  BY PipeFdTwo
<1>3. /\ d \in FDs /\ e \in FDs /\ d # e /\ filelist[p][d] = NULL /\ filelist[p][e] = NULL
      /\ filelist' = [filelist EXCEPT ![p][d] = inhand[p][0], ![p][e] = inhand[p][1]]
  BY <1>2 DEF TwoFree, FreeFds
<1>4. \A q \in Procs : Uses(q)' <=> Uses(q)
  BY <1>0, <1>1, StillUses DEF Labels
<1>5. Uses(p)
  BY <1>0, <1>1 DEF Uses, LocalsOf
<1>6. \A q \in Procs \ {p} : filelist'[q] = filelist[q] /\ inhand'[q] = inhand[q]
  BY <1>0, <1>1, <1>3 DEF TypeOK
<1>7. ASSUME NEW f \in Table
      PROVE  Num(filelist'[p], f) + Num(inhand'[p], f) = Num(filelist[p], f) + Num(inhand[p], f)
  <2>1. inhand[p] \in Rows /\ filelist[p] \in Rows /\ filelist'[p] \in Rows /\ BothFirst(inhand[p])
    BY <1>0, <1>1 DEF TypeOK, Rows, LocalsOf
  <2>2. PICK g, h : g = inhand[p][0] /\ h = inhand[p][1]
    OBVIOUS
  <2>3. g \in Table /\ h \in Table /\ Num(inhand[p], f) = Bit(f = g) + Bit(f = h)
    BY <2>1, <2>2, NumBoth
  <2>4. PICK k : k = [filelist[p] EXCEPT ![d] = g]
    OBVIOUS
  <2>5. k \in Rows /\ k[e] = NULL
    BY <1>3, <2>1, <2>3, <2>4 DEF Rows
  <2>6. filelist'[p] = [k EXCEPT ![e] = h] /\ inhand'[p] = None
    BY <1>0, <1>1, <1>3, <2>2, <2>4 DEF TypeOK
  <2>7. Num(k, f) = Num(filelist[p], f) + Bit(f = g)
    BY <1>3, <2>1, <2>3, <2>4, <2>5, NumPut
  <2>8. Num(filelist'[p], f) = Num(k, f) + Bit(f = h)
    BY <1>3, <2>1, <2>3, <2>5, <2>6, NumPut
  <2>9. Num(inhand'[p], f) = 0
    BY <2>6, NumNone
  <2>10. Num(filelist[p], f) \in Nat /\ Bit(f = g) \in Nat /\ Bit(f = h) \in Nat
    BY NumNat DEF Bit
  <2> QED
    BY <2>3, <2>7, <2>8, <2>9, <2>10
<1> QED
  BY <1>1, <1>4, <1>5, <1>6, <1>7, Swap

LEMMA PipeFdFailRef ==
    ASSUME Base, Base', RefExact, NEW p \in Procs, pipe_fd_fail(p)
    PROVE  RefExact'
<1>0. TypeOK /\ LocalsInv /\ TypeOK'
  BY DEF Base
<1>1. /\ pc[p] = "pipefd" /\ dying' = dying /\ Goto(p, "closing")
      /\ UNCHANGED <<ref, inhand, leaked>>
      /\ dangled' = (dangled \/ FreeFds(p) # {})
  BY DEF pipe_fd_fail, table
<1>2. CASE dangled'
  BY <1>0, <1>2 DEF RefExact
<1>3. CASE ~dangled'
  <2>1. FreeFds(p) = {} /\ ~dangled
    BY <1>1, <1>3
  <2>2. \A d \in FDs : filelist[p][d] # NULL
    BY <2>1 DEF FreeFds
  <2>3. filelist' = [filelist EXCEPT ![p] = [d \in FDs |-> IF @[d] = NULL THEN inhand[p][0] ELSE @[d]]]
    BY DEF pipe_fd_fail
  <2>4. \A q \in Procs : filelist'[q] = filelist[q]
    BY <1>0, <2>2, <2>3 DEF TypeOK
  <2>5. filelist' = filelist
    BY <1>0, <2>4 DEF TypeOK
  <2>6. \A q \in Procs : Uses(q)' <=> Uses(q)
    BY <1>0, <1>1, StillUses DEF Labels
  <2>7. dangled' = dangled
    BY <1>0, <1>1, <2>1 DEF TypeOK
  <2> QED
    BY <1>0, <1>1, <2>5, <2>6, <2>7, RefSame DEF history
<1> QED
  BY <1>2, <1>3

LEMMA SysDupRef ==
    ASSUME Base, Base', RefExact, NEW p \in Procs, NEW d \in FDs, sys_dup(p, d)
    PROVE  RefExact'
<1>0. TypeOK /\ LocalsInv /\ TypeOK' /\ LocalsOf(p)
  BY DEF Base, LocalsInv
<1>1. PICK g : g = filelist[p][d]
  OBVIOUS
<1>2. /\ g \in Table /\ ref' = [ref EXCEPT ![g] = @ + 1]
      /\ UNCHANGED <<pc, inhand, dying, dangled>> /\ pc[p] = "idle"
  BY <1>0, <1>1 DEF sys_dup, Dup, Open, TypeOK, locals
<1>3. (\A q \in Procs : Uses(q)' <=> Uses(q)) /\ Uses(p) /\ p \in Users /\ p \in Users'
  BY <1>0, <1>2 DEF Uses, LocalsOf, Users
<1>4. /\ \A q \in Procs \ {p} : filelist'[q] = filelist[q]
      /\ \A f \in Table : Num(filelist'[p], f) + leaked'[f] = (Num(filelist[p], f) + leaked[f]) + Bit(f = g)
  <2>1. CASE FreeFds(p) # {}
    <3>1. PICK m : m = Min(FreeFds(p)) /\ m \in FDs /\ filelist[p][m] = NULL
      BY <2>1, FreeFdMin
    <3>2. filelist' = [filelist EXCEPT ![p][m] = g] /\ leaked' = leaked
      BY <1>1, <2>1, <3>1 DEF sys_dup
    <3>3. (\A q \in Procs \ {p} : filelist'[q] = filelist[q]) /\ filelist'[p] = [filelist[p] EXCEPT ![m] = g]
      BY <1>0, <3>2 DEF TypeOK
    <3>4. filelist[p] \in Rows /\ filelist'[p] \in Rows
      BY <1>0 DEF TypeOK, Rows
    <3>5. ASSUME NEW f \in Table
          PROVE  Num(filelist'[p], f) + leaked'[f] = (Num(filelist[p], f) + leaked[f]) + Bit(f = g)
      <4>1. Num(filelist'[p], f) = Num(filelist[p], f) + Bit(f = g)
        BY <1>2, <3>1, <3>3, <3>4, NumPut
      <4>2. Num(filelist[p], f) \in Nat /\ Bit(f = g) \in Nat /\ leaked[f] \in Nat /\ leaked'[f] = leaked[f]
        BY <1>0, <3>2, NumNat DEF Bit, TypeOK
      <4> QED
        BY <4>1, <4>2
    <3> QED
      BY <3>3, <3>5
  <2>2. CASE FreeFds(p) = {}
    <3>1. filelist' = filelist /\ leaked' = [leaked EXCEPT ![g] = @ + 1]
      BY <1>1, <2>2 DEF sys_dup
    <3>2. ASSUME NEW f \in Table
          PROVE  Num(filelist'[p], f) + leaked'[f] = (Num(filelist[p], f) + leaked[f]) + Bit(f = g)
      <4>1. leaked'[f] = leaked[f] + Bit(f = g) /\ leaked[f] \in Nat
        BY <1>0, <1>2, <3>1 DEF TypeOK, Bit
      <4>2. Num(filelist[p], f) \in Nat /\ Bit(f = g) \in Nat /\ Num(filelist'[p], f) = Num(filelist[p], f)
        BY <3>1, NumNat DEF Bit
      <4> QED
        BY <4>1, <4>2
    <3> QED
      BY <3>1, <3>2
  <2> QED
    BY <2>1, <2>2
<1>5. Alone(p)
  BY <1>2, <1>3, <1>4 DEF Alone
<1>6. Balanced(p)
  <2> SUFFICES ASSUME NEW f \in Table
               PROVE  ref'[f] + (Share(p, f) + leaked[f]) = ref[f] + (Share(p, f)' + leaked'[f])
    BY DEF Balanced
  <2>1. ref'[f] = ref[f] + Bit(f = g) /\ ref[f] \in Nat /\ leaked[f] \in Nat /\ leaked'[f] \in Nat
    BY <1>0, <1>2 DEF TypeOK, Bit
  <2>2. Share(p, f) = Num(filelist[p], f) + Num(inhand[p], f) /\ Share(p, f)' = Num(filelist'[p], f) + Num(inhand[p], f)
    BY <1>2, <1>3 DEF Share, ShareIn
  <2>3. PICK a, b, c, x : a = Num(filelist[p], f) /\ b = Num(filelist'[p], f) /\ c = Num(inhand[p], f) /\ x = Bit(f = g)
    OBVIOUS
  <2>4. a \in Nat /\ b \in Nat /\ c \in Nat /\ x \in Nat
    BY <2>3, NumNat DEF Bit
  <2>5. b + leaked'[f] = (a + leaked[f]) + x
    BY <1>4, <2>3
  <2>6. (ref[f] + x) + ((a + c) + leaked[f]) = ref[f] + ((b + c) + leaked'[f])
    BY <2>1, <2>4, <2>5
  <2> QED
    BY <2>1, <2>2, <2>3, <2>6
<1> QED
  BY <1>0, <1>2, <1>5, <1>6, RefStep

LEMMA SysCloseRef ==
    ASSUME Base, Base', RefExact, NEW p \in Procs, NEW d \in FDs, sys_close(p, d)
    PROVE  RefExact'
<1>0. TypeOK /\ LocalsInv /\ TypeOK' /\ LocalsOf(p)
  BY DEF Base, LocalsInv
<1>1. PICK g : g = filelist[p][d]
  OBVIOUS
<1>2. /\ g \in Table /\ pc[p] = "idle" /\ Goto(p, "closing")
      /\ filelist' = [filelist EXCEPT ![p][d] = NULL]
      /\ inhand' = [inhand EXCEPT ![p][0] = g]
      /\ UNCHANGED <<ref, dying, history>>
  BY <1>0, <1>1 DEF sys_close, Open, TypeOK, table
<1>3. \A q \in Procs : Uses(q)' <=> Uses(q)
  BY <1>0, <1>2, StillUses DEF Labels
<1>4. Uses(p)
  BY <1>0, <1>2 DEF Uses, LocalsOf
<1>5. \A q \in Procs \ {p} : filelist'[q] = filelist[q] /\ inhand'[q] = inhand[q]
  BY <1>0, <1>2 DEF TypeOK
<1>6. ASSUME NEW f \in Table
      PROVE  Num(filelist'[p], f) + Num(inhand'[p], f) = Num(filelist[p], f) + Num(inhand[p], f)
  <2>1. filelist[p] \in Rows /\ filelist'[p] \in Rows /\ inhand'[p] \in Rows /\ inhand[p] = None
    BY <1>0, <1>2 DEF TypeOK, Rows, LocalsOf
  <2>2. filelist'[p] = [filelist[p] EXCEPT ![d] = NULL] /\ inhand'[p] = [None EXCEPT ![0] = g]
    BY <1>0, <1>2, <2>1 DEF TypeOK
  <2>3. Sets(filelist[p], filelist'[p], d, g)
    BY <1>1, <2>1, <2>2 DEF Rows, Sets
  <2>4. Num(filelist[p], f) = Num(filelist'[p], f) + Bit(f = g)
    BY <1>2, <2>1, <2>3, NumSets
  <2>5. Num(inhand'[p], f) = Num(None, f) + Bit(f = g)
    BY <1>2, <2>1, <2>2, NumPut, NoneRow, Constants DEF None
  <2>6. Num(inhand[p], f) = 0 /\ Num(None, f) = 0 /\ Num(filelist'[p], f) \in Nat /\ Bit(f = g) \in Nat
    BY <2>1, NumNone, NumNat DEF Bit
  <2> QED
    BY <2>4, <2>5, <2>6
<1> QED
  BY <1>2, <1>3, <1>4, <1>5, <1>6, Swap

LEMMA AfterCloseUses ==
    ASSUME TypeOK, NEW p \in Procs, NEW h, pc[p] \in {"closing", "release"}, AfterClose(p, h)
    PROVE  \A q \in Procs : Uses(q)' <=> Uses(q)
<1>1. \A q \in Procs \ {p} : pc'[q] = pc[q] /\ (q \in dying' <=> q \in dying)
  BY DEF AfterClose, TypeOK
<1>2. CASE h # None
  <2>1. pc'[p] = "closing" /\ dying' = dying
    BY <1>2 DEF AfterClose, TypeOK
  <2> QED
    BY <1>1, <2>1 DEF Uses
<1>3. CASE h = None
  <2>1. pc'[p] = (IF p \in dying THEN "unused" ELSE "idle") /\ p \notin dying'
    BY <1>3 DEF AfterClose, TypeOK
  <2> QED
    BY <1>1, <2>1 DEF Uses
<1> QED
  BY <1>2, <1>3

LEMMA FileCloseRef ==
    ASSUME Base, Base', RefExact, NEW p \in Procs, file_close(p)
    PROVE  RefExact'
<1>0. TypeOK /\ LocalsInv /\ TypeOK'
  BY DEF Base
<1>1. PICK d, g, rest : /\ Closes(p, d, g, rest)
                        /\ ref[g] = 1 => ClosesLast(p, g)
                        /\ ref[g] # 1 => AfterClose(p, rest) /\ UNCHANGED <<obj, saved>>
  BY FileCloseParts
<1>2. \A q \in Procs : Uses(q)' <=> Uses(q)
  <2>1. CASE ref[g] = 1
    BY <1>0, <1>1, <2>1, StillUses DEF ClosesLast, Closes, Labels
  <2>2. CASE ref[g] # 1
    BY <1>0, <1>1, <2>2, AfterCloseUses DEF Closes
  <2> QED
    BY <2>1, <2>2
<1>3. /\ d \in FDs /\ g \in Table /\ inhand[p][d] = g /\ ref[g] > 0
      /\ rest = [inhand[p] EXCEPT ![d] = NULL]
      /\ ref' = [ref EXCEPT ![g] = @ - 1]
      /\ inhand' = [inhand EXCEPT ![p] = rest]
      /\ UNCHANGED <<filelist, history>>
  BY <1>1 DEF Closes
<1>4. Alone(p)
  BY <1>0, <1>2, <1>3 DEF Alone, TypeOK
<1>5. Balanced(p)
  <2> SUFFICES ASSUME NEW f \in Table
               PROVE  ref'[f] + (Share(p, f) + leaked[f]) = ref[f] + (Share(p, f)' + leaked'[f])
    BY DEF Balanced
  <2>1. inhand[p] \in Rows /\ inhand'[p] = rest /\ rest \in Rows /\ rest[d] = NULL
    BY <1>0, <1>3 DEF TypeOK, Rows
  <2>2. Sets(inhand[p], rest, d, g)
    BY <1>3, <2>1 DEF Rows, Sets
  <2>3. Num(inhand[p], f) = Num(rest, f) + Bit(f = g)
    BY <1>3, <2>1, <2>2, NumSets
  <2>4. ref[f] = ref'[f] + Bit(f = g) /\ ref'[f] \in Nat /\ leaked'[f] = leaked[f] /\ leaked[f] \in Nat
    BY <1>0, <1>3 DEF TypeOK, Bit, history
  <2>5. PICK s : s = IF Uses(p) THEN Num(filelist[p], f) ELSE 0
    OBVIOUS
  <2>6. s \in Nat /\ Num(rest, f) \in Nat /\ Bit(f = g) \in Nat
    BY <2>5, NumNat DEF Bit
  <2>7. Share(p, f) = s + Num(inhand[p], f)
    BY <2>5 DEF Share, ShareIn, Users
  <2>8. Share(p, f)' = s + Num(rest, f)
    BY <1>2, <1>3, <2>1, <2>5 DEF Share, ShareIn, Users
  <2> QED
    BY <2>3, <2>4, <2>6, <2>7, <2>8
<1> QED
  BY <1>0, <1>3, <1>4, <1>5, RefStep DEF history

LEMMA FileReleaseRef ==
    ASSUME Base, Base', RefExact, NEW p \in Procs, file_release(p)
    PROVE  RefExact'
<1>0. TypeOK /\ TypeOK'
  BY DEF Base
<1>1. pc[p] = "release" /\ AfterClose(p, inhand[p]) /\ UNCHANGED <<ref, filelist, inhand, history>>
  BY DEF file_release, table
<1>2. \A q \in Procs : Uses(q)' <=> Uses(q)
  BY <1>0, <1>1, AfterCloseUses
<1> QED
  BY <1>0, <1>1, <1>2, RefSame

LEMMA ReleasePanicRef ==
    ASSUME Base, Base', RefExact, NEW p \in Procs, NEW o, Stops(p, o)
    PROVE  RefExact'
<1>0. TypeOK /\ TypeOK'
  BY DEF Base
<1>1. \A q \in Procs : Uses(q)' <=> Uses(q)
  BY <1>0 DEF Uses, Stops, TypeOK
<1> QED
  BY <1>0, <1>1, RefSame DEF Stops, history

LEMMA ForkRef ==
    ASSUME Base, Base', RefExact, NEW p \in Procs, NEW c \in Procs, proc_fork(p, c)
    PROVE  RefExact'
<1>0. TypeOK /\ LocalsInv /\ TypeOK' /\ LocalsOf(c)
  BY DEF Base, LocalsInv
<1>1. /\ pc[p] = "idle" /\ pc[c] = "unused" /\ Goto(c, "idle")
      /\ filelist' = [filelist EXCEPT ![c] = Inherited(p, c)]
      /\ dangled' = (dangled \/ \E d \in Open(c) : filelist[p][d] = NULL)
      /\ UNCHANGED <<inhand, dying, leaked>>
  BY DEF proc_fork, locals
<1>2. Alone(c)
  BY <1>0, <1>1 DEF Alone, TypeOK, Goto, Uses
<1>3. ~Uses(c) /\ Uses(c)'
  BY <1>0, <1>1 DEF Uses, LocalsOf, TypeOK, Goto
<1>4. ASSUME ~dangled' PROVE ~dangled /\ Balanced(c)
  <2>1. ~dangled /\ \A d \in FDs : filelist[p][d] = NULL => filelist[c][d] = NULL
    BY <1>1, <1>4 DEF Open
  <2>2. filelist'[c] = filelist[p]
    <3>1. PICK h : h = Inherited(p, c)
      OBVIOUS
    <3>2. h \in Rows /\ filelist[p] \in Rows /\ filelist'[c] = h
      BY <1>0, <1>1, <3>1 DEF Inherited, TypeOK, Rows
    <3>3. \A d \in FDs : h[d] = filelist[p][d]
      BY <2>1, <3>1 DEF Inherited
    <3> QED
      BY <3>2, <3>3, RowsEqual
  <2>3. ASSUME NEW f \in Table
        PROVE  ref'[f] + (Share(c, f) + leaked[f]) = ref[f] + (Share(c, f)' + leaked'[f])
    <3>1. {d \in Open(p) : filelist[p][d] = f} = Row(filelist[p], f)
      BY Constants DEF Open, Row
    <3>2. ref'[f] = ref[f] + Num(filelist[p], f)
      BY <3>1 DEF proc_fork, Num
    <3>3. Num(filelist[p], f) \in Nat /\ Num(inhand[c], f) \in Nat /\ ref[f] \in Nat /\ leaked[f] \in Nat /\ leaked'[f] = leaked[f]
      BY <1>0, <1>1, NumNat DEF TypeOK
    <3>4. Share(c, f) = Num(inhand[c], f)
      BY <1>3, <3>3 DEF Share, ShareIn, Users
    <3>5. Share(c, f)' = Num(filelist[p], f) + Num(inhand[c], f)
      BY <1>1, <1>3, <2>2 DEF Share, ShareIn, Users
    <3> QED
      BY <3>2, <3>3, <3>4, <3>5
  <2> QED
    BY <2>1, <2>3 DEF Balanced
<1> QED
  BY <1>0, <1>2, <1>4, RefStep

LEMMA FreeRef ==
    ASSUME Base, Base', RefExact, NEW p \in Procs, proc_free(p)
    PROVE  RefExact'
<1>0. TypeOK /\ LocalsInv /\ TypeOK' /\ LocalsOf(p)
  BY DEF Base, LocalsInv
<1>1. /\ pc[p] = "idle" /\ inhand' = [inhand EXCEPT ![p] = filelist[p]]
      /\ UNCHANGED <<ref, filelist, history>>
      /\ dying' = IF Open(p) # {} THEN dying \cup {p} ELSE dying
      /\ Goto(p, IF Open(p) # {} THEN "closing" ELSE "unused")
  BY DEF proc_free, table
<1>2. Alone(p)
  BY <1>0, <1>1 DEF Alone, TypeOK, Goto, Uses
<1>3. Uses(p) /\ ~Uses(p)'
  BY <1>0, <1>1 DEF Uses, LocalsOf, TypeOK, Goto
<1>4. Balanced(p)
  <2> SUFFICES ASSUME NEW f \in Table
               PROVE  ref'[f] + (Share(p, f) + leaked[f]) = ref[f] + (Share(p, f)' + leaked'[f])
    BY DEF Balanced
  <2>1. inhand[p] = None /\ inhand'[p] = filelist[p]
    BY <1>0, <1>1 DEF LocalsOf, TypeOK
  <2>2. Num(inhand[p], f) = 0 /\ Num(filelist[p], f) \in Nat
    BY <2>1, NumNone, NumNat
  <2>3. Share(p, f) = Num(filelist[p], f)
    BY <1>3, <2>2 DEF Share, ShareIn, Users
  <2>4. Share(p, f)' = Num(filelist[p], f)
    BY <1>3, <2>1, <2>2 DEF Share, ShareIn, Users
  <2> QED
    BY <1>1, <2>3, <2>4 DEF history
<1> QED
  BY <1>0, <1>1, <1>2, <1>4, RefStep DEF history

-----------------------------------------------------------------------------
(***************************************************************************)
(* References to inodes.                                                   *)
(***************************************************************************)
Debt(i) == IF i = Console THEN WRAP - 1 ELSE 0

LEMMA Bounded ==
    ASSUME NEW S \in SUBSET Table, NEW B \in SUBSET Procs
    PROVE  /\ IsFiniteSet(S) /\ IsFiniteSet(B)
           /\ Cardinality(S) \in Nat /\ Cardinality(B) \in Nat
           /\ Cardinality(S) + Cardinality(B) < WRAP
<1>1. IsFiniteSet(S) /\ Cardinality(S) <= Cardinality(Table)
  BY Constants, FS_Subset
<1>2. IsFiniteSet(B) /\ Cardinality(B) <= Cardinality(Procs)
  BY Constants, FS_Subset
<1>3. Cardinality(S) \in Nat /\ Cardinality(B) \in Nat /\ Cardinality(Procs) \in Nat
  BY <1>1, <1>2, Constants, FS_CardinalityType
<1>4. Cardinality(Table) = N_FILE /\ N_FILE \in Nat /\ WRAP \in Nat /\ WRAP > N_FILE + Cardinality(Procs)
  BY Constants, FilesAssumption
<1> QED
  BY <1>1, <1>2, <1>3, <1>4

\* inode_get and inode_free on a count that may be one short.
LEMMA CountUp ==
    ASSUME NEW w \in Nat, NEW n \in Nat, n + 1 < w, NEW m \in {0, w - 1}
    PROVE  ((((n + m) % w) + 1) % w) = ((n + 1 + m) % w)
<1>1. CASE m = 0
  <2>1. (n % w) = n
    BY ModOnce
  <2> QED
    BY <1>1, <2>1
<1>2. CASE m = w - 1
  <2>1. n + 1 + m = n + w /\ ((n + w) % w) = n
    BY <1>2, ModOnce
  <2>2. CASE n = 0
    <3>1. ((w - 1) % w) = w - 1 /\ ((0 + w) % w) = 0
      BY ModOnce
    <3> QED
      BY <1>2, <2>1, <2>2, <3>1
  <2>3. CASE n > 0
    <3>1. n - 1 \in Nat /\ n + m = (n - 1) + w /\ n - 1 < w
      BY <1>2, <2>3
    <3>2. (((n - 1) + w) % w) = n - 1 /\ (n % w) = n
      BY <3>1, ModOnce
    <3> QED
      BY <2>1, <3>1, <3>2
  <2> QED
    BY <2>2, <2>3
<1> QED
  BY <1>1, <1>2

LEMMA CountDown ==
    ASSUME NEW w \in Nat, NEW n \in Nat, n + 1 < w, NEW m \in {0, w - 1}
    PROVE  ((((n + 1 + m) % w) + w - 1) % w) = ((n + m) % w)
<1>1. CASE m = 0
  <2>1. ((n + 1) % w) = n + 1 /\ ((n + w) % w) = n /\ (n % w) = n
    BY ModOnce
  <2> QED
    BY <1>1, <2>1
<1>2. CASE m = w - 1
  <2>1. n + 1 + m = n + w /\ ((n + w) % w) = n
    BY <1>2, ModOnce
  <2>2. n + m = n + w - 1
    BY <1>2
  <2> QED
    BY <2>1, <2>2
<1> QED
  BY <1>1, <1>2

LEMMA DebtRange ==
    ASSUME NEW i
    PROVE  WRAP \in Nat /\ Debt(i) \in {0, WRAP - 1}
BY FilesAssumption DEF Debt

LEMMA InodesSame ==
    ASSUME InodeRefs, ~dangled' => ~dangled, iref' = iref,
           \A i \in Inodes : StandsFor(i)' = StandsFor(i) /\ Busy(i)' = Busy(i)
    PROVE  InodeRefs'
BY DEF InodeRefs

LEMMA OpenInodeInodes ==
    ASSUME Base, InodeRefs, NEW p \in Procs, NEW i \in Inodes, open_inode(p, i)
    PROVE  InodeRefs'
<1>0. TypeOK /\ LocalsOf(p)
  BY DEF Base, LocalsInv
<1> SUFFICES ASSUME ~dangled', NEW j \in Inodes
             PROVE  iref'[j] = ((Cardinality(StandsFor(j)') + Cardinality(Busy(j)') + Debt(j)) % WRAP)
  BY DEF InodeRefs, Debt
<1>1. iref[j] = ((Cardinality(StandsFor(j)) + Cardinality(Busy(j)) + Debt(j)) % WRAP)
  BY DEF InodeRefs, open_inode, history, Debt
<1>2. StandsFor(j)' = StandsFor(j)
  BY DEF StandsFor, open_inode, table
<1>3. CASE j # i
  <2>1. Busy(j)' = Busy(j)
    BY <1>0, <1>3, Disjoint DEF Busy, open_inode, TypeOK, LocalsOf
  <2>2. iref'[j] = iref[j]
    BY <1>0, <1>3 DEF open_inode, TypeOK
  <2> QED
    BY <1>1, <1>2, <2>1, <2>2
<1>4. CASE j = i
  <2>1. Busy(j)' = Busy(j) \cup {p} /\ p \notin Busy(j)
    BY <1>0, <1>4, Disjoint DEF Busy, open_inode, TypeOK, LocalsOf
  <2>2. PICK S, B, C : S = StandsFor(j) /\ B = Busy(j) /\ C = Busy(j)'
    OBVIOUS
  <2>3. S \in SUBSET Table /\ B \in SUBSET Procs /\ C \in SUBSET Procs
    BY <2>2 DEF StandsFor, Busy
  <2>4. IsFiniteSet(B) /\ Cardinality(B) \in Nat /\ Cardinality(S) \in Nat /\ Cardinality(S) + Cardinality(C) < WRAP
    BY <2>3, Bounded
  <2>5. Cardinality(C) = Cardinality(B) + 1
    BY <2>1, <2>2, <2>4, FS_AddElement
  <2>6. PICK n : n = Cardinality(S) + Cardinality(B)
    OBVIOUS
  <2>7. n \in Nat /\ n + 1 < WRAP /\ Cardinality(S) + Cardinality(C) = n + 1
    BY <2>4, <2>5, <2>6
  <2>8. ((((n + Debt(j)) % WRAP) + 1) % WRAP) = ((n + 1 + Debt(j)) % WRAP)
    BY <2>7, CountUp, DebtRange
  <2>9. iref'[j] = ((iref[j] + 1) % WRAP)
    BY <1>0, <1>4 DEF open_inode, TypeOK
  <2>10. iref[j] = ((n + Debt(j)) % WRAP)
    BY <1>1, <2>2, <2>6
  <2> QED
    BY <1>2, <2>2, <2>7, <2>8, <2>9, <2>10
<1> QED
  BY <1>3, <1>4

\* A file takes the reference of an open over, or a close that of a file.
Handed(f, p, i) ==
    /\ \A g \in Table \ {f} : g \in StandsFor(i)' <=> g \in StandsFor(i)
    /\ \A q \in Procs \ {p} : q \in Busy(i)' <=> q \in Busy(i)
    /\ Bit(f \in StandsFor(i)') + Bit(p \in Busy(i)') = Bit(f \in StandsFor(i)) + Bit(p \in Busy(i))

LEMMA InodesHanded ==
    ASSUME InodeRefs, ~dangled' => ~dangled, iref' = iref, NEW f \in Table, NEW p \in Procs,
           \A i \in Inodes : Handed(f, p, i)
    PROVE  InodeRefs'
<1>1. ASSUME NEW i \in Inodes
      PROVE  Cardinality(StandsFor(i)') + Cardinality(Busy(i)') = Cardinality(StandsFor(i)) + Cardinality(Busy(i))
  <2>1. PICK S, T, B, C : S = StandsFor(i) /\ T = StandsFor(i)' /\ B = Busy(i) /\ C = Busy(i)'
    OBVIOUS
  <2>2. S \in SUBSET Table /\ T \in SUBSET Table /\ B \in SUBSET Procs /\ C \in SUBSET Procs
    BY <2>1 DEF StandsFor, Busy
  <2>3. IsFiniteSet(S) /\ IsFiniteSet(B)
    BY <2>2, Bounded
  <2>4. (\A g \in Table \ {f} : g \in T <=> g \in S) /\ (\A q \in Procs \ {p} : q \in C <=> q \in B)
    BY <2>1 DEF Handed
  <2>5. (\A y : y # f => (y \in S <=> y \in T)) /\ (\A y : y # p => (y \in B <=> y \in C))
    BY <2>2, <2>4
  <2>6. Cardinality(S) \in Nat /\ Cardinality(T) \in Nat /\ Cardinality(T) + Bit(f \in S) = Cardinality(S) + Bit(f \in T)
    BY <2>3, <2>5, OneApart
  <2>7. Cardinality(B) \in Nat /\ Cardinality(C) \in Nat /\ Cardinality(C) + Bit(p \in B) = Cardinality(B) + Bit(p \in C)
    BY <2>3, <2>5, OneApart
  <2>8. Bit(f \in T) + Bit(p \in C) = Bit(f \in S) + Bit(p \in B)
    BY <2>1 DEF Handed
  <2>9. Bit(f \in T) \in Nat /\ Bit(p \in C) \in Nat /\ Bit(f \in S) \in Nat /\ Bit(p \in B) \in Nat
    BY DEF Bit
  <2>10. Cardinality(T) + Cardinality(C) = Cardinality(S) + Cardinality(B)
    BY <2>6, <2>7, <2>8, <2>9
  <2> QED
    BY <2>1, <2>10
<1> QED
  BY <1>1 DEF InodeRefs

LEMMA OpenFileInodes ==
    ASSUME Base, InodeRefs, NEW p \in Procs, open_file(p)
    PROVE  InodeRefs'
<1>0. TypeOK /\ LocalsOf(p) /\ ObjInv
  BY DEF Base, LocalsInv
<1>1. PICK o : o = saved[p]
  OBVIOUS
<1>2. o \in Inodes /\ o \in Objects
  BY <1>0, <1>1 DEF LocalsOf, open_file, Objects
<1>3. PICK n : Allocated(n, p, 0, o)
  BY <1>0, <1>1, AllocatedFirst, Constants DEF open_file
<1>4. /\ n \in Table /\ ref[n] = 0 /\ ref'[n] = 1 /\ obj'[n] = o
      /\ \A f \in Table : f # n => ref'[f] = ref[f] /\ obj'[f] = obj[f]
  BY <1>0, <1>2, <1>3, AllocatedTypes, Constants DEF Allocated
<1>5. saved' = [saved EXCEPT ![p] = NULL] /\ iref' = iref /\ dangled' = dangled
  BY DEF open_file, objects, history
<1>6. ASSUME NEW i \in Inodes PROVE Handed(n, p, i)
  <2>1. n \notin StandsFor(i) /\ (n \in StandsFor(i)' <=> i = o)
    BY <1>4 DEF StandsFor
  <2>2. p \notin Busy(i)' /\ (p \in Busy(i) <=> i = o)
    BY <1>0, <1>1, <1>5, Disjoint DEF Busy, TypeOK
  <2>3. \A g \in Table \ {n} : g \in StandsFor(i)' <=> g \in StandsFor(i)
    BY <1>4 DEF StandsFor
  <2>4. \A q \in Procs \ {p} : q \in Busy(i)' <=> q \in Busy(i)
    BY <1>0, <1>5 DEF Busy, TypeOK
  <2>5. Bit(n \in StandsFor(i)') + Bit(p \in Busy(i)') = Bit(n \in StandsFor(i)) + Bit(p \in Busy(i))
    BY <2>1, <2>2 DEF Bit
  <2> QED
    BY <2>3, <2>4, <2>5 DEF Handed
<1> QED
  BY <1>4, <1>5, <1>6, InodesHanded

\* The last close of a file.
LEMMA CloseLastInodes ==
    ASSUME Base, InodeRefs, NEW p \in Procs, NEW d, NEW f, NEW rest, Closes(p, d, f, rest), ref[f] = 1, ClosesLast(p, f)
    PROVE  InodeRefs'
<1>0. TypeOK
  BY DEF Base
<1>1. /\ f \in Table /\ ref' = [ref EXCEPT ![f] = @ - 1] /\ saved[p] = NULL /\ iref' = iref /\ dangled' = dangled
      /\ obj' = [obj EXCEPT ![f] = NULL] /\ saved' = [saved EXCEPT ![p] = obj[f]]
  BY DEF Closes, ClosesLast, objects, history
<1>2. ref'[f] = 0
  BY <1>0, <1>1 DEF TypeOK
<1>3. ASSUME NEW i \in Inodes PROVE Handed(f, p, i)
  <2>1. f \notin StandsFor(i)' /\ (f \in StandsFor(i) <=> i = obj[f])
    BY <1>1, <1>2 DEF StandsFor
  <2>2. p \notin Busy(i) /\ (p \in Busy(i)' <=> i = obj[f])
    BY <1>0, <1>1, Disjoint DEF Busy, TypeOK
  <2>3. \A g \in Table \ {f} : g \in StandsFor(i)' <=> g \in StandsFor(i)
    BY <1>0, <1>1 DEF StandsFor, TypeOK
  <2>4. \A q \in Procs \ {p} : q \in Busy(i)' <=> q \in Busy(i)
    BY <1>0, <1>1 DEF Busy, TypeOK
  <2>5. Bit(f \in StandsFor(i)') + Bit(p \in Busy(i)') = Bit(f \in StandsFor(i)) + Bit(p \in Busy(i))
    BY <2>1, <2>2 DEF Bit
  <2> QED
    BY <2>3, <2>4, <2>5 DEF Handed
<1> QED
  BY <1>1, <1>3, InodesHanded

LEMMA ReleaseInodes ==
    ASSUME Base, InodeRefs, NEW p \in Procs, file_release(p)
    PROVE  InodeRefs'
<1>0. TypeOK /\ LocalsOf(p)
  BY DEF Base, LocalsInv
<1> SUFFICES ASSUME ~dangled', NEW j \in Inodes
             PROVE  iref'[j] = ((Cardinality(StandsFor(j)') + Cardinality(Busy(j)') + Debt(j)) % WRAP)
  BY DEF InodeRefs, Debt
<1>1. iref[j] = ((Cardinality(StandsFor(j)) + Cardinality(Busy(j)) + Debt(j)) % WRAP)
  BY DEF InodeRefs, file_release, history, Debt
<1>2. StandsFor(j)' = StandsFor(j)
  BY DEF StandsFor, file_release, table
<1>3. saved' = [saved EXCEPT ![p] = NULL]
  BY DEF file_release
<1>4. CASE j # saved[p]
  <2>1. Busy(j)' = Busy(j)
    BY <1>0, <1>3, <1>4, Disjoint DEF Busy, TypeOK
  <2>2. iref'[j] = iref[j]
    BY <1>0, <1>4 DEF file_release, Released, TypeOK
  <2> QED
    BY <1>1, <1>2, <2>1, <2>2
<1>5. CASE j = saved[p]
  <2>1. Busy(j)' = Busy(j) \ {p} /\ p \in Busy(j)
    BY <1>0, <1>3, <1>5, Disjoint DEF Busy, TypeOK
  <2>2. PICK S, B, C : S = StandsFor(j) /\ B = Busy(j) /\ C = Busy(j)'
    OBVIOUS
  <2>3. S \in SUBSET Table /\ B \in SUBSET Procs /\ C \in SUBSET Procs
    BY <2>2 DEF StandsFor, Busy
  <2>4. IsFiniteSet(B) /\ Cardinality(B) \in Nat /\ Cardinality(S) \in Nat /\ Cardinality(S) + Cardinality(B) < WRAP
    BY <2>3, Bounded
  <2>5. Cardinality(C) = Cardinality(B) - 1 /\ Cardinality(C) \in Nat
    BY <2>1, <2>2, <2>3, <2>4, FS_RemoveElement, Bounded
  <2>6. PICK n : n = Cardinality(S) + Cardinality(C)
    OBVIOUS
  <2>7. n \in Nat /\ n + 1 < WRAP /\ Cardinality(S) + Cardinality(B) = n + 1
    BY <2>4, <2>5, <2>6
  <2>8. ((((n + 1 + Debt(j)) % WRAP) + WRAP - 1) % WRAP) = ((n + Debt(j)) % WRAP)
    BY <2>7, CountDown, DebtRange
  <2>9. iref'[j] = ((iref[j] + WRAP - 1) % WRAP)
    <3>1. iref' = [iref EXCEPT ![j] = Dropped(j)]
      BY <1>5 DEF file_release, Released
    <3> QED
      BY <1>0, <3>1 DEF TypeOK, Dropped
  <2>10. iref[j] = ((n + 1 + Debt(j)) % WRAP)
    BY <1>1, <2>2, <2>7
  <2> QED
    BY <1>2, <2>2, <2>6, <2>8, <2>9, <2>10
<1> QED
  BY <1>4, <1>5

LEMMA ReleasePanicInodes ==
    ASSUME Base, InodeRefs, NEW p \in Procs, NEW o, Stops(p, o)
    PROVE  InodeRefs'
<1>0. TypeOK /\ LocalsOf(p)
  BY DEF Base, LocalsInv
<1> SUFFICES ASSUME ~dangled', NEW j \in Inodes
             PROVE  iref'[j] = ((Cardinality(StandsFor(j)') + Cardinality(Busy(j)') + Debt(j)) % WRAP)
  BY DEF InodeRefs, Debt
<1>1. iref[j] = ((Cardinality(StandsFor(j)) + Cardinality(Busy(j)) + Debt(j)) % WRAP)
  BY DEF InodeRefs, Stops, Debt
<1>2. StandsFor(j)' = StandsFor(j)
  BY DEF StandsFor, Stops
<1>3. Busy(j)' = Busy(j)
  <2>1. \A q \in Procs : saved'[q] = j <=> saved[q] = j
    BY <1>0, Disjoint DEF Stops, TypeOK
  <2> QED
    BY <2>1 DEF Busy
<1> QED
  BY <1>1, <1>2, <1>3 DEF Stops

-----------------------------------------------------------------------------
(***************************************************************************)
(* The ends of pipes.                                                      *)
(***************************************************************************)
EndOK(e) ==
    /\ \A f, g \in Table : FileFor(f, e) /\ FileFor(g, e) => f = g
    /\ \A p, q \in Procs : Closing(p, e) /\ Closing(q, e) => p = q
    /\ \A p \in Procs, f \in Table : ~ (Closing(p, e) /\ FileFor(f, e))
    /\ \A p, q \in Procs : ~ (Making(p, e) /\ Closing(q, e))
    /\ \A p, q \in Procs : Making(p, e) /\ Making(q, e) => p = q
    /\ \A p \in Procs, f \in Table : Making(p, e) /\ FileFor(f, e) => ~e.writable /\ f = inhand[p][0]
    /\ \A p \in Procs : pc[p] = "pipe2" /\ Making(p, e) /\ ~e.writable => FileFor(inhand[p][0], e)
    /\ e \in popen <=>
           \/ \E f \in Table : FileFor(f, e)
           \/ \E p \in Procs : Closing(p, e)
           \/ \E p \in Procs : Making(p, e)

EndsInv == ~dangled => \A e \in Ends : EndOK(e)

LEMMA EndsInvIs == EndsInv <=> EndsApart /\ EndsOpen
BY DEF EndsInv, EndOK, EndsApart, EndsOpen

\* A step after which an end is open for the same reasons.
SameFor(e) ==
    /\ \A f \in Table : FileFor(f, e)' <=> FileFor(f, e)
    /\ \A p \in Procs : Closing(p, e)' <=> Closing(p, e)
    /\ \A p \in Procs : Making(p, e)' <=> Making(p, e)
    /\ \A p \in Procs : Making(p, e) => inhand'[p][0] = inhand[p][0]
    /\ \A p \in Procs : Making(p, e) /\ pc'[p] = "pipe2" => pc[p] = "pipe2" /\ inhand[p][0] \in Table
    /\ e \in popen' <=> e \in popen

LEMMA EndSame ==
    ASSUME NEW e \in Ends, EndOK(e), SameFor(e)
    PROVE  EndOK(e)'
<1>1. e \in popen' <=>
           \/ \E f \in Table : FileFor(f, e)'
           \/ \E p \in Procs : Closing(p, e)'
           \/ \E p \in Procs : Making(p, e)'
  BY DEF EndOK, SameFor
<1>2. /\ \A f, g \in Table : FileFor(f, e)' /\ FileFor(g, e)' => f = g
      /\ \A p, q \in Procs : Closing(p, e)' /\ Closing(q, e)' => p = q
      /\ \A p \in Procs, f \in Table : ~ (Closing(p, e)' /\ FileFor(f, e)')
      /\ \A p, q \in Procs : ~ (Making(p, e)' /\ Closing(q, e)')
      /\ \A p, q \in Procs : Making(p, e)' /\ Making(q, e)' => p = q
  BY DEF EndOK, SameFor
<1>3. ASSUME NEW p \in Procs, NEW f \in Table, Making(p, e)', FileFor(f, e)'
      PROVE  ~e.writable /\ f = inhand'[p][0]
  BY <1>3 DEF EndOK, SameFor
<1>4. ASSUME NEW p \in Procs, pc'[p] = "pipe2", Making(p, e)', ~e.writable
      PROVE  FileFor(inhand[p][0], e)'
  <2>1. pc[p] = "pipe2" /\ Making(p, e) /\ inhand'[p][0] = inhand[p][0] /\ inhand[p][0] \in Table
    BY <1>4 DEF SameFor
  <2>2. FileFor(inhand[p][0], e)
    BY <1>4, <2>1 DEF EndOK
  <2>3. PICK f \in Table : f = inhand[p][0] /\ FileFor(f, e)
    BY <2>1, <2>2
  <2>4. FileFor(f, e)'
    BY <2>3 DEF SameFor
  <2> QED
    BY <2>1, <2>3, <2>4 DEF FileFor
<1> QED
  BY <1>1, <1>2, <1>3, <1>4 DEF EndOK

LEMMA EndsSame ==
    ASSUME EndsInv, \A e \in Ends : SameFor(e), ~dangled' => ~dangled
    PROVE  EndsInv'
BY EndSame DEF EndsInv

LEMMA Pipe2Hand ==
    ASSUME Base
    PROVE  \A p \in Procs : pc[p] = "pipe2" => inhand[p][0] \in Table
BY Constants DEF Base, LocalsInv, LocalsOf, OnlyFirst, TypeOK

\* A step that leaves the objects alone.
Plain ==
    /\ \A f \in Table : ref'[f] > 0 <=> ref[f] > 0
    /\ \A f \in Table : ref[f] > 0 => obj'[f] = obj[f]
    /\ UNCHANGED <<objects, saved>>
    /\ ~dangled' => ~dangled
    /\ \A p \in Procs : /\ pc'[p] = "release" <=> pc[p] = "release"
                        /\ pc'[p] = "pipe2" => pc[p] = "pipe2"
                        /\ saved[p] \in Ends => inhand'[p][0] = inhand[p][0]

LEMMA PlainStep ==
    ASSUME Base, InodeRefs, EndsInv, Plain
    PROVE  InodeRefs' /\ EndsInv'
<1>1. iref' = iref /\ popen' = popen /\ saved' = saved /\ (~dangled' => ~dangled)
  BY DEF Plain, objects
<1>2. \A i \in Inodes : StandsFor(i)' = StandsFor(i) /\ Busy(i)' = Busy(i)
  BY <1>1 DEF StandsFor, Busy, Plain
<1>3. ASSUME NEW e \in Ends PROVE SameFor(e)
  <2>1. \A f \in Table : FileFor(f, e)' <=> FileFor(f, e)
    BY DEF FileFor, Plain
  <2>2. \A p \in Procs : Closing(p, e)' <=> Closing(p, e)
    BY <1>1 DEF Closing, Plain
  <2>3. \A p \in Procs : Making(p, e)' <=> Making(p, e)
    BY <1>1 DEF Making, Plain
  <2>4. \A p \in Procs : Making(p, e) => inhand'[p][0] = inhand[p][0]
    BY DEF Making, Plain
  <2>5. \A p \in Procs : pc'[p] = "pipe2" => pc[p] = "pipe2" /\ inhand[p][0] \in Table
    BY Pipe2Hand DEF Plain
  <2> QED
    BY <1>1, <2>1, <2>2, <2>3, <2>4, <2>5 DEF SameFor
<1> QED
  BY <1>1, <1>2, <1>3, InodesSame, EndsSame

LEMMA OpenInodeEnds ==
    ASSUME Base, EndsInv, NEW p \in Procs, NEW i \in Inodes, open_inode(p, i)
    PROVE  EndsInv'
<1>0. TypeOK /\ LocalsOf(p)
  BY DEF Base, LocalsInv
<1>1. /\ pc[p] = "idle" /\ saved[p] = NULL /\ saved' = [saved EXCEPT ![p] = i] /\ pc' = [pc EXCEPT ![p] = "open"]
      /\ UNCHANGED <<ref, obj, popen, inhand, dangled>>
  BY <1>0 DEF open_inode, Goto, LocalsOf, table, history
<1>2. i \notin Ends /\ NULL \notin Ends
  BY Disjoint
<1>3. /\ \A q \in Procs \ {p} : saved'[q] = saved[q] /\ pc'[q] = pc[q]
      /\ saved'[p] = i /\ pc'[p] = "open"
  BY <1>0, <1>1 DEF TypeOK
<1>4. ASSUME NEW e \in Ends PROVE SameFor(e)
  <2>1. \A f \in Table : FileFor(f, e)' <=> FileFor(f, e)
    BY <1>1 DEF FileFor
  <2>2. \A q \in Procs : Closing(q, e)' <=> Closing(q, e)
    BY <1>1, <1>2, <1>3 DEF Closing
  <2>3. \A q \in Procs : Making(q, e)' <=> Making(q, e)
    BY <1>1, <1>2, <1>3 DEF Making
  <2>4. \A q \in Procs : pc'[q] = "pipe2" => pc[q] = "pipe2" /\ inhand[q][0] \in Table
    BY <1>3, Pipe2Hand
  <2> QED
    BY <1>1, <2>1, <2>2, <2>3, <2>4 DEF SameFor
<1> QED
  BY <1>1, <1>4, EndsSame

LEMMA OpenFileEnds ==
    ASSUME Base, EndsInv, NEW p \in Procs, open_file(p)
    PROVE  EndsInv'
<1>0. TypeOK /\ LocalsOf(p) /\ ObjInv
  BY DEF Base, LocalsInv
<1>1. PICK o : o = saved[p]
  OBVIOUS
<1>2. o \in Inodes /\ o \in Objects /\ o \notin Ends /\ NULL \notin Ends
  BY <1>0, <1>1, Disjoint DEF LocalsOf, open_file
<1>3. PICK n : Allocated(n, p, 0, o)
  BY <1>0, <1>1, AllocatedFirst, Constants DEF open_file
<1>4. /\ n \in Table /\ ref[n] = 0 /\ ref'[n] = 1 /\ obj'[n] = o
      /\ \A f \in Table : f # n => ref'[f] = ref[f] /\ obj'[f] = obj[f]
      /\ \A q \in Procs \ {p} : inhand'[q] = inhand[q]
  BY <1>0, <1>2, <1>3, AllocatedTypes, Constants DEF Allocated
<1>5. saved' = [saved EXCEPT ![p] = NULL] /\ popen' = popen /\ dangled' = dangled /\ pc' = [pc EXCEPT ![p] = "fd"] /\ pc[p] = "open"
  BY DEF open_file, objects, history, Goto
<1>6. /\ \A q \in Procs \ {p} : saved'[q] = saved[q] /\ pc'[q] = pc[q]
      /\ saved'[p] = NULL /\ pc'[p] = "fd"
  BY <1>0, <1>5 DEF TypeOK
<1>7. ASSUME NEW e \in Ends PROVE SameFor(e)
  <2>1. \A f \in Table : FileFor(f, e)' <=> FileFor(f, e)
    BY <1>2, <1>4 DEF FileFor
  <2>2. \A q \in Procs : Closing(q, e)' <=> Closing(q, e)
    BY <1>5, <1>6 DEF Closing
  <2>3. \A q \in Procs : (Making(q, e)' <=> Making(q, e)) /\ (Making(q, e) => q # p)
    BY <1>1, <1>2, <1>6 DEF Making
  <2>4. \A q \in Procs : pc'[q] = "pipe2" => pc[q] = "pipe2" /\ inhand[q][0] \in Table
    BY <1>6, Pipe2Hand
  <2>5. \A q \in Procs : Making(q, e) => inhand'[q][0] = inhand[q][0]
    BY <1>4, <2>3
  <2> QED
    BY <1>5, <2>1, <2>2, <2>3, <2>4, <2>5 DEF SameFor
<1> QED
  BY <1>5, <1>7, EndsSame

LEMMA EndEqual ==
    ASSUME NEW e \in Ends, NEW g \in Ends, e.pipe = g.pipe, e.writable = g.writable
    PROVE  e = g
BY DEF Ends

LEMMA PipeNewEnds ==
    ASSUME Base, InodeRefs, EndsInv, NEW p \in Procs, NEW x \in Pipes, pipe_new(p, x)
    PROVE  InodeRefs' /\ EndsInv'
<1>0. TypeOK /\ LocalsOf(p)
  BY DEF Base, LocalsInv
<1>1. PICK o : o = [pipe |-> x, writable |-> FALSE]
  OBVIOUS
<1>2. o \in Ends /\ o.pipe = x /\ o \notin Inodes /\ NULL \notin Inodes /\ NULL \notin Ends
  BY <1>1, Disjoint DEF Ends
<1>3. /\ pc[p] = "idle" /\ saved[p] = NULL /\ saved' = [saved EXCEPT ![p] = o] /\ pc' = [pc EXCEPT ![p] = "pipe"]
      /\ UNCHANGED <<ref, obj, iref, inhand, dangled>> /\ ~dangled
      /\ popen' = popen \cup {e \in Ends : e.pipe = x}
      /\ \A e \in Ends : e.pipe = x => e \notin popen
  BY <1>0, <1>1 DEF pipe_new, Goto, LocalsOf, table, history, MayOpen
<1>4. /\ \A q \in Procs \ {p} : saved'[q] = saved[q] /\ pc'[q] = pc[q]
      /\ saved'[p] = o /\ pc'[p] = "pipe"
  BY <1>0, <1>3 DEF TypeOK
<1>5. InodeRefs'
  <2>1. \A i \in Inodes : StandsFor(i)' = StandsFor(i) /\ Busy(i)' = Busy(i)
    BY <1>2, <1>3, <1>4 DEF StandsFor, Busy
  <2> QED
    BY <1>3, <2>1, InodesSame
<1>6. ASSUME NEW e \in Ends, NEW f \in Table PROVE FileFor(f, e)' <=> FileFor(f, e)
  BY <1>3 DEF FileFor
<1>7. ASSUME NEW e \in Ends, NEW q \in Procs PROVE Closing(q, e)' <=> Closing(q, e)
  BY <1>3, <1>4 DEF Closing
<1>8. ASSUME NEW e \in Ends, e.pipe # x PROVE EndOK(e)'
  <2>1. \A q \in Procs : Making(q, e)' <=> Making(q, e)
    BY <1>2, <1>3, <1>4, <1>8 DEF Making
  <2>2. \A q \in Procs : pc'[q] = "pipe2" => pc[q] = "pipe2" /\ inhand[q][0] \in Table
    BY <1>4, Pipe2Hand
  <2>3. e \in popen' <=> e \in popen
    BY <1>3, <1>8
  <2>4. SameFor(e)
    BY <1>3, <1>6, <1>7, <2>1, <2>2, <2>3 DEF SameFor
  <2> QED
    BY <1>3, <2>4, EndSame DEF EndsInv
<1>9. ASSUME NEW e \in Ends, e.pipe = x PROVE EndOK(e)'
  <2>1. EndOK(e) /\ e \notin popen
    BY <1>3, <1>9 DEF EndsInv
  <2>2. /\ \A f \in Table : ~FileFor(f, e)'
        /\ \A q \in Procs : ~Closing(q, e)'
    BY <1>6, <1>7, <2>1 DEF EndOK
  <2>3. \A q \in Procs : Making(q, e)' <=> q = p
    <3>1. \A q \in Procs : ~Making(q, e)
      BY <2>1 DEF EndOK
    <3> QED
      BY <1>2, <1>4, <1>9, <3>1 DEF Making
  <2>4. e \in popen'
    BY <1>3, <1>9
  <2> QED
    BY <1>4, <2>2, <2>3, <2>4 DEF EndOK
<1> QED
  BY <1>5, <1>8, <1>9 DEF EndsInv

LEMMA PipeFileEnds ==
    ASSUME Base, InodeRefs, EndsInv, NEW p \in Procs, pipe_file(p)
    PROVE  InodeRefs' /\ EndsInv'
<1>0. TypeOK /\ LocalsOf(p) /\ ObjInv /\ saved[p] \in Ends /\ saved[p].writable = FALSE /\ inhand[p][0] = NULL
  BY Constants DEF Base, LocalsInv, LocalsOf, pipe_file, None
<1>1. PICK o : o = saved[p]
  OBVIOUS
<1>2. PICK w : w = [o EXCEPT !.writable = TRUE]
  OBVIOUS
<1>3. PICK x : x = o.pipe
  OBVIOUS
<1>4. o \in Ends /\ o \in Objects /\ o \notin Inodes /\ w \in Ends /\ w \notin Inodes /\ w.pipe = x /\ o.writable = FALSE
  <2>1. w \in Ends /\ w.pipe = x
    BY <1>0, <1>1, <1>2, <1>3 DEF Ends
  <2> QED
    BY <1>0, <1>1, <2>1, Disjoint
<1>5. PICK n : Allocated(n, p, 0, o)
  BY <1>0, <1>1, AllocatedFirst, Constants DEF pipe_file
<1>6. /\ n \in Table /\ ref[n] = 0 /\ ref'[n] = 1 /\ obj'[n] = o
      /\ \A f \in Table : f # n => ref'[f] = ref[f] /\ obj'[f] = obj[f]
      /\ \A q \in Procs \ {p} : inhand'[q] = inhand[q]
      /\ inhand'[p] = [inhand[p] EXCEPT ![0] = n]
  BY <1>0, <1>4, <1>5, AllocatedTypes, Constants DEF Allocated
<1>7. inhand'[p][0] = n
  BY <1>0, <1>6, Constants DEF TypeOK
<1>8. saved' = [saved EXCEPT ![p] = w] /\ UNCHANGED <<iref, popen, dangled>> /\ pc' = [pc EXCEPT ![p] = "pipe2"] /\ pc[p] = "pipe"
  BY <1>0, <1>1, <1>2 DEF pipe_file, TypeOK, objects, history, Goto
<1>9. /\ \A q \in Procs \ {p} : saved'[q] = saved[q] /\ pc'[q] = pc[q]
      /\ saved'[p] = w /\ pc'[p] = "pipe2"
  BY <1>0, <1>8 DEF TypeOK
<1>10. InodeRefs'
  <2>1. \A i \in Inodes : StandsFor(i)' = StandsFor(i)
    BY <1>4, <1>6 DEF StandsFor
  <2>2. \A i \in Inodes : Busy(i)' = Busy(i)
    BY <1>1, <1>4, <1>9 DEF Busy
  <2> QED
    BY <1>8, <2>1, <2>2, InodesSame
<1>11. ASSUME NEW e \in Ends, NEW q \in Procs
       PROVE  (Closing(q, e)' <=> Closing(q, e)) /\ (Making(q, e)' <=> Making(q, e))
  BY <1>1, <1>3, <1>4, <1>8, <1>9 DEF Closing, Making
<1>12. ASSUME NEW e \in Ends, NEW f \in Table
       PROVE  FileFor(f, e)' <=> FileFor(f, e) \/ (f = n /\ e = o)
  BY <1>6 DEF FileFor
<1>13. ASSUME ~dangled', NEW e \in Ends, e.pipe # x PROVE EndOK(e)'
  <2>1. e # o /\ ~Making(p, e)
    BY <1>1, <1>3, <1>13 DEF Making
  <2>2. \A q \in Procs : Making(q, e) => inhand'[q][0] = inhand[q][0]
    BY <1>6, <2>1
  <2>3. \A q \in Procs : Making(q, e) /\ pc'[q] = "pipe2" => pc[q] = "pipe2" /\ inhand[q][0] \in Table
    BY <1>9, <2>1, Pipe2Hand
  <2>4. SameFor(e)
    BY <1>8, <1>11, <1>12, <2>1, <2>2, <2>3 DEF SameFor
  <2>5. EndOK(e)
    BY <1>8, <1>13 DEF EndsInv
  <2> QED
    BY <2>4, <2>5, EndSame
<1>14. ASSUME ~dangled', NEW e \in Ends, e.pipe = x PROVE EndOK(e)'
  <2>1. EndOK(e)
    BY <1>8, <1>14 DEF EndsInv
  <2>2. Making(p, e)
    BY <1>1, <1>3, <1>4, <1>8, <1>14 DEF Making
  <2>3. /\ \A q \in Procs : ~Closing(q, e)
        /\ \A q \in Procs : Making(q, e) => q = p
        /\ e \in popen
    BY <2>1, <2>2 DEF EndOK
  <2>4. \A f \in Table : ~FileFor(f, e)
    BY <1>0, <2>1, <2>2, Constants DEF EndOK
  <2>5. ~e.writable => e = o
    <3>1. e.writable \in BOOLEAN
      BY DEF Ends
    <3> QED
      BY <1>3, <1>4, <1>14, <3>1, EndEqual
  <2>6. \A f \in Table : FileFor(f, e)' <=> f = n /\ e = o
    BY <1>12, <2>4
  <2>7. /\ \A q \in Procs : ~Closing(q, e)'
        /\ \A q \in Procs : Making(q, e)' <=> q = p
        /\ e \in popen'
    BY <1>8, <1>11, <2>2, <2>3
  <2>8. ~e.writable => FileFor(inhand[p][0], e)'
    <3>1. ~e.writable => FileFor(n, e)'
      BY <1>6, <2>5, <2>6
    <3> QED
      BY <1>7, <3>1 DEF FileFor
  <2>9. e = o => ~e.writable
    BY <1>4
  <2> QED
    BY <1>7, <2>6, <2>7, <2>8, <2>9 DEF EndOK
<1>15. EndsInv'
  BY <1>13, <1>14 DEF EndsInv
<1> QED
  BY <1>10, <1>15

LEMMA PipeFile2Ends ==
    ASSUME Base, InodeRefs, EndsInv, NEW p \in Procs, pipe_file2(p)
    PROVE  InodeRefs' /\ EndsInv'
<1>0. TypeOK /\ LocalsOf(p) /\ ObjInv /\ saved[p] \in Ends /\ saved[p].writable = TRUE /\ inhand[p][0] \in Table
  <2>1. TypeOK /\ LocalsOf(p) /\ ObjInv /\ pc[p] = "pipe2"
    BY DEF Base, LocalsInv, pipe_file2
  <2>2. saved[p] \in Ends /\ saved[p].writable = TRUE
    BY <2>1 DEF LocalsOf
  <2>3. inhand[p][0] \in Table
    BY <2>1, Constants DEF LocalsOf, OnlyFirst, TypeOK
  <2> QED
    BY <2>1, <2>2, <2>3
<1>1. PICK o : o = saved[p]
  OBVIOUS
<1>2. PICK x : x = o.pipe
  OBVIOUS
<1>3. PICK h : h = inhand[p][0]
  OBVIOUS
<1>4. o \in Ends /\ o \in Objects /\ o \notin Inodes /\ NULL \notin Inodes /\ NULL \notin Ends /\ o.writable = TRUE /\ h \in Table
  BY <1>0, <1>1, <1>3, Disjoint
<1>5. PICK n : Allocated(n, p, 1, o)
  BY <1>0, <1>1, AllocatedFirst, Constants DEF pipe_file2
<1>6. /\ n \in Table /\ ref[n] = 0 /\ ref'[n] = 1 /\ obj'[n] = o
      /\ \A f \in Table : f # n => ref'[f] = ref[f] /\ obj'[f] = obj[f]
      /\ \A q \in Procs \ {p} : inhand'[q] = inhand[q]
  <2>1. TypeOK /\ ObjInv /\ 1 \in FDs /\ o \in Objects
    BY <1>0, <1>4, Constants
  <2> QED
    BY <1>5, <2>1, AllocatedTypes DEF Allocated
<1>8. saved' = [saved EXCEPT ![p] = NULL] /\ UNCHANGED <<iref, popen, dangled>> /\ pc' = [pc EXCEPT ![p] = "pipefd"] /\ pc[p] = "pipe2"
  BY DEF pipe_file2, objects, history, Goto
<1>9. /\ \A q \in Procs \ {p} : saved'[q] = saved[q] /\ pc'[q] = pc[q]
      /\ saved'[p] = NULL /\ pc'[p] = "pipefd"
  BY <1>0, <1>8 DEF TypeOK
<1>10. InodeRefs'
  <2>1. \A i \in Inodes : StandsFor(i)' = StandsFor(i)
    BY <1>4, <1>6 DEF StandsFor
  <2>2. \A i \in Inodes : Busy(i)' = Busy(i)
    BY <1>1, <1>4, <1>9 DEF Busy
  <2> QED
    BY <1>8, <2>1, <2>2, InodesSame
<1>11. ASSUME NEW e \in Ends, NEW q \in Procs
       PROVE  (Closing(q, e)' <=> Closing(q, e)) /\ (Making(q, e)' <=> Making(q, e) /\ q # p)
  BY <1>1, <1>4, <1>8, <1>9 DEF Closing, Making
<1>12. ASSUME NEW e \in Ends, NEW f \in Table
       PROVE  FileFor(f, e)' <=> FileFor(f, e) \/ (f = n /\ e = o)
  BY <1>6 DEF FileFor
<1>13. ASSUME ~dangled', NEW e \in Ends, e.pipe # x PROVE EndOK(e)'
  <2>1. e # o /\ ~Making(p, e)
    BY <1>1, <1>2, <1>13 DEF Making
  <2>2. \A q \in Procs : Making(q, e) => inhand'[q][0] = inhand[q][0]
    BY <1>6, <2>1
  <2>3. \A q \in Procs : Making(q, e) /\ pc'[q] = "pipe2" => pc[q] = "pipe2" /\ inhand[q][0] \in Table
    BY <1>9, <2>1, Pipe2Hand
  <2>6. \A q \in Procs : Making(q, e)' <=> Making(q, e)
    BY <1>11, <2>1
  <2>4. SameFor(e)
    BY <1>8, <1>11, <1>12, <2>1, <2>2, <2>3, <2>6 DEF SameFor
  <2>5. EndOK(e)
    BY <1>8, <1>13 DEF EndsInv
  <2> QED
    BY <2>4, <2>5, EndSame
<1>14. ASSUME ~dangled', NEW e \in Ends, e.pipe = x PROVE EndOK(e)'
  <2>1. EndOK(e)
    BY <1>8, <1>14 DEF EndsInv
  <2>2. Making(p, e)
    BY <1>1, <1>2, <1>4, <1>8, <1>14 DEF Making
  <2>3. /\ \A q \in Procs : ~Closing(q, e)
        /\ \A q \in Procs : Making(q, e) => q = p
        /\ e \in popen
    BY <2>1, <2>2 DEF EndOK
  <2>4. \A f \in Table : FileFor(f, e) => ~e.writable /\ f = h
    BY <1>3, <2>1, <2>2 DEF EndOK
  <2>5. ~e.writable => FileFor(h, e)
    BY <1>3, <1>8, <2>1, <2>2 DEF EndOK
  <2>6. e.writable <=> e = o
    <3>1. e.writable \in BOOLEAN
      BY DEF Ends
    <3> QED
      BY <1>2, <1>4, <1>14, <3>1, EndEqual
  <2>7. PICK g \in Table : \A f \in Table : FileFor(f, e)' <=> f = g
    <3>1. CASE e = o
      <4>1. \A f \in Table : FileFor(f, e)' <=> f = n
        BY <1>12, <2>4, <2>6, <3>1
      <4> QED
        BY <4>1, <1>6
    <3>2. CASE e # o
      <4>1. \A f \in Table : FileFor(f, e)' <=> f = h
        BY <1>12, <2>4, <2>5, <2>6, <3>2
      <4> QED
        BY <4>1, <1>4
    <3> QED
      BY <3>1, <3>2
  <2>8. /\ \A q \in Procs : ~Closing(q, e)'
        /\ \A q \in Procs : ~Making(q, e)'
        /\ e \in popen'
    BY <1>8, <1>11, <2>3
  <2> QED
    BY <2>7, <2>8 DEF EndOK
<1>15. EndsInv'
  BY <1>13, <1>14 DEF EndsInv
<1> QED
  BY <1>10, <1>15

LEMMA CloseLastEnds ==
    ASSUME Base, RefExact, EndsInv, NEW p \in Procs, NEW d, NEW f, NEW rest, Closes(p, d, f, rest), ref[f] = 1, ClosesLast(p, f)
    PROVE  EndsInv'
<1>0. TypeOK
  BY DEF Base
<1>1. PICK o : o = obj[f]
  OBVIOUS
<1>2. /\ f \in Table /\ d \in FDs /\ inhand[p][d] = f /\ saved[p] = NULL /\ pc[p] = "closing"
      /\ ref' = [ref EXCEPT ![f] = @ - 1]
      /\ obj' = [obj EXCEPT ![f] = NULL] /\ saved' = [saved EXCEPT ![p] = o]
      /\ inhand' = [inhand EXCEPT ![p] = rest]
      /\ pc' = [pc EXCEPT ![p] = "release"]
      /\ UNCHANGED <<popen, dangled>>
  BY <1>1 DEF Closes, ClosesLast, objects, history, Goto
<1>3. /\ ref'[f] = 0
      /\ \A g \in Table \ {f} : ref'[g] = ref[g] /\ obj'[g] = obj[g]
      /\ \A q \in Procs \ {p} : saved'[q] = saved[q] /\ pc'[q] = pc[q] /\ inhand'[q] = inhand[q]
      /\ saved'[p] = o /\ pc'[p] = "release"
  BY <1>0, <1>2 DEF TypeOK
<1>4. ASSUME NEW e \in Ends
      PROVE  /\ \A g \in Table : FileFor(g, e)' <=> FileFor(g, e) /\ g # f
             /\ \A q \in Procs : Closing(q, e)' <=> Closing(q, e) \/ (q = p /\ e = o)
             /\ \A q \in Procs : Making(q, e)' <=> Making(q, e)
             /\ ~Making(p, e)
  <2>1. \A g \in Table : FileFor(g, e)' <=> FileFor(g, e) /\ g # f
    BY <1>3 DEF FileFor
  <2>2. \A q \in Procs : Closing(q, e)' <=> Closing(q, e) \/ (q = p /\ e = o)
    BY <1>2, <1>3 DEF Closing
  <2>3. (\A q \in Procs : Making(q, e)' <=> Making(q, e)) /\ ~Making(p, e)
    BY <1>2, <1>3, Disjoint DEF Making
  <2> QED
    BY <2>1, <2>2, <2>3
<1>5. ASSUME ~dangled', NEW e \in Ends, e # o PROVE EndOK(e)'
  <2>1. ~FileFor(f, e)
    BY <1>1, <1>5 DEF FileFor
  <2>2. \A q \in Procs : Making(q, e) => inhand'[q][0] = inhand[q][0]
    BY <1>3, <1>4
  <2>3. \A q \in Procs : Making(q, e) /\ pc'[q] = "pipe2" => pc[q] = "pipe2" /\ inhand[q][0] \in Table
    BY <1>3, <1>4, Pipe2Hand
  <2>4. /\ \A g \in Table : FileFor(g, e)' <=> FileFor(g, e)
        /\ \A q \in Procs : Closing(q, e)' <=> Closing(q, e)
    BY <1>4, <1>5, <2>1
  <2>5. SameFor(e)
    BY <1>2, <1>4, <2>2, <2>3, <2>4 DEF SameFor
  <2>6. EndOK(e)
    BY <1>2, <1>5 DEF EndsInv
  <2> QED
    BY <2>5, <2>6, EndSame
<1>6. ASSUME ~dangled', NEW e \in Ends, e = o PROVE EndOK(e)'
  <2>1. EndOK(e) /\ ~dangled
    BY <1>2, <1>6 DEF EndsInv
  <2>2. FileFor(f, e)
    BY <1>1, <1>2, <1>6 DEF FileFor
  <2>3. /\ \A g \in Table : FileFor(g, e) => g = f
        /\ \A q \in Procs : ~Closing(q, e)
        /\ \A q \in Procs : Making(q, e) => f = inhand[q][0]
        /\ e \in popen
    BY <1>2, <2>1, <2>2 DEF EndOK
  <2>4. \A q \in Procs : ~Making(q, e)
    <3> SUFFICES ASSUME NEW q \in Procs, Making(q, e) PROVE FALSE
      OBVIOUS
    <3>1. q # p /\ inhand[q][0] = f
      BY <1>4, <2>3
    <3>2. ref[f] > 1
      BY <1>2, <2>1, <3>1, TwoHands, Constants
    <3> QED
      BY <3>2
  <2>5. /\ \A g \in Table : ~FileFor(g, e)'
        /\ \A q \in Procs : Closing(q, e)' <=> q = p
        /\ \A q \in Procs : ~Making(q, e)'
        /\ e \in popen'
    BY <1>2, <1>4, <1>6, <2>3, <2>4
  <2> QED
    BY <2>5 DEF EndOK
<1> QED
  BY <1>5, <1>6 DEF EndsInv

LEMMA ReleaseEnds ==
    ASSUME Base, EndsInv, NEW p \in Procs, file_release(p)
    PROVE  EndsInv'
<1>0. TypeOK
  BY DEF Base
<1>1. PICK o : o = saved[p]
  OBVIOUS
<1>2. /\ saved' = [saved EXCEPT ![p] = NULL] /\ popen' = popen \ {o} /\ pc[p] = "release"
      /\ UNCHANGED <<ref, obj, inhand, dangled>> /\ AfterClose(p, inhand[p])
  BY <1>1 DEF file_release, Released, table, history
<1>3. /\ \A q \in Procs \ {p} : saved'[q] = saved[q] /\ pc'[q] = pc[q]
      /\ saved'[p] = NULL /\ pc'[p] \in {"closing", "unused", "idle"}
  BY <1>0, <1>2 DEF TypeOK, AfterClose
<1>4. ASSUME NEW e \in Ends
      PROVE  /\ \A g \in Table : FileFor(g, e)' <=> FileFor(g, e)
             /\ \A q \in Procs : Closing(q, e)' <=> Closing(q, e) /\ q # p
             /\ \A q \in Procs : Making(q, e)' <=> Making(q, e)
  <2>1. \A g \in Table : FileFor(g, e)' <=> FileFor(g, e)
    BY <1>2 DEF FileFor
  <2>2. \A q \in Procs : Closing(q, e)' <=> Closing(q, e) /\ q # p
    BY <1>3 DEF Closing
  <2>3. \A q \in Procs : Making(q, e)' <=> Making(q, e)
    BY <1>2, <1>3, Disjoint DEF Making
  <2> QED
    BY <2>1, <2>2, <2>3
<1>5. ASSUME ~dangled', NEW e \in Ends, e # o PROVE EndOK(e)'
  <2>1. ~Closing(p, e)
    BY <1>1, <1>5 DEF Closing
  <2>2. \A q \in Procs : pc'[q] = "pipe2" => pc[q] = "pipe2" /\ inhand[q][0] \in Table
    BY <1>3, Pipe2Hand
  <2>3. \A q \in Procs : Closing(q, e)' <=> Closing(q, e)
    BY <1>4, <2>1
  <2>4. e \in popen' <=> e \in popen
    BY <1>2, <1>5
  <2>5. SameFor(e)
    BY <1>2, <1>4, <2>2, <2>3, <2>4 DEF SameFor
  <2>6. EndOK(e)
    BY <1>2, <1>5 DEF EndsInv
  <2> QED
    BY <2>5, <2>6, EndSame
<1>6. ASSUME ~dangled', NEW e \in Ends, e = o PROVE EndOK(e)'
  <2>1. EndOK(e) /\ Closing(p, e)
    BY <1>1, <1>2, <1>6 DEF EndsInv, Closing
  <2>2. /\ \A g \in Table : ~FileFor(g, e)
        /\ \A q \in Procs : Closing(q, e) => q = p
        /\ \A q \in Procs : ~Making(q, e)
    BY <2>1 DEF EndOK
  <2>3. /\ \A g \in Table : ~FileFor(g, e)'
        /\ \A q \in Procs : ~Closing(q, e)'
        /\ \A q \in Procs : ~Making(q, e)'
        /\ e \notin popen'
    BY <1>2, <1>4, <1>6, <2>2
  <2> QED
    BY <2>3 DEF EndOK
<1> QED
  BY <1>5, <1>6 DEF EndsInv

LEMMA ReleasePanicEnds ==
    ASSUME Base, EndsInv, NEW p \in Procs, NEW o, Stops(p, o)
    PROVE  EndsInv'
<1>0. TypeOK
  BY DEF Base
<1>1. o = saved[p]
  BY DEF Stops
<1>2. /\ popen' = popen \ {o} /\ pc[p] = "release"
      /\ UNCHANGED <<ref, obj, inhand, dangled>>
  BY DEF Stops
<1>3. /\ \A q \in Procs \ {p} : saved'[q] = saved[q] /\ pc'[q] = pc[q]
      /\ saved'[p] \notin Ends /\ pc'[p] = "panic"
  BY <1>0, Disjoint DEF TypeOK, Stops
<1>4. ASSUME NEW e \in Ends
      PROVE  /\ \A g \in Table : FileFor(g, e)' <=> FileFor(g, e)
             /\ \A q \in Procs : Closing(q, e)' <=> Closing(q, e) /\ q # p
             /\ \A q \in Procs : Making(q, e)' <=> Making(q, e)
  <2>1. \A g \in Table : FileFor(g, e)' <=> FileFor(g, e)
    BY <1>2 DEF FileFor
  <2>2. \A q \in Procs : Closing(q, e)' <=> Closing(q, e) /\ q # p
    BY <1>3 DEF Closing
  <2>3. \A q \in Procs : Making(q, e)' <=> Making(q, e)
    BY <1>2, <1>3, Disjoint DEF Making
  <2> QED
    BY <2>1, <2>2, <2>3
<1>5. ASSUME ~dangled', NEW e \in Ends, e # o PROVE EndOK(e)'
  <2>1. ~Closing(p, e)
    BY <1>1, <1>5 DEF Closing
  <2>2. \A q \in Procs : pc'[q] = "pipe2" => pc[q] = "pipe2" /\ inhand[q][0] \in Table
    BY <1>3, Pipe2Hand
  <2>3. \A q \in Procs : Closing(q, e)' <=> Closing(q, e)
    BY <1>4, <2>1
  <2>4. e \in popen' <=> e \in popen
    BY <1>2, <1>5
  <2>5. SameFor(e)
    BY <1>2, <1>4, <2>2, <2>3, <2>4 DEF SameFor
  <2>6. EndOK(e)
    BY <1>2, <1>5 DEF EndsInv
  <2> QED
    BY <2>5, <2>6, EndSame
<1>6. ASSUME ~dangled', NEW e \in Ends, e = o PROVE EndOK(e)'
  <2>1. EndOK(e) /\ Closing(p, e)
    BY <1>1, <1>2, <1>6 DEF EndsInv, Closing
  <2>2. /\ \A g \in Table : ~FileFor(g, e)
        /\ \A q \in Procs : Closing(q, e) => q = p
        /\ \A q \in Procs : ~Making(q, e)
    BY <2>1 DEF EndOK
  <2>3. /\ \A g \in Table : ~FileFor(g, e)'
        /\ \A q \in Procs : ~Closing(q, e)'
        /\ \A q \in Procs : ~Making(q, e)'
        /\ e \notin popen'
    BY <1>2, <1>4, <1>6, <2>2
  <2> QED
    BY <2>3 DEF EndOK
<1> QED
  BY <1>5, <1>6 DEF EndsInv

-----------------------------------------------------------------------------
(***************************************************************************)
(* The steps that leave the objects alone.                                 *)
(***************************************************************************)
\* A process that makes no pipe.
LEMMA LeaveObjects ==
    ASSUME Base, NEW p \in Procs, saved[p] = NULL, pc[p] # "release",
           \A f \in Table : ref'[f] > 0 <=> ref[f] > 0,
           \A f \in Table : ref[f] > 0 => obj'[f] = obj[f],
           UNCHANGED <<objects, saved>>, ~dangled' => ~dangled,
           pc'[p] \notin {"release", "pipe2"},
           \A q \in Procs \ {p} : pc'[q] = pc[q] /\ inhand'[q] = inhand[q]
    PROVE  Plain
<1>1. ASSUME NEW q \in Procs
      PROVE  /\ pc'[q] = "release" <=> pc[q] = "release"
             /\ pc'[q] = "pipe2" => pc[q] = "pipe2"
             /\ saved[q] \in Ends => inhand'[q][0] = inhand[q][0]
  <2>1. CASE q = p
    BY <2>1, Disjoint
  <2>2. CASE q # p
    BY <2>2
  <2> QED
    BY <2>1, <2>2
<1> QED
  BY <1>1 DEF Plain

LEMMA PanicPlain ==
    ASSUME Base, NEW p \in Procs, pc[p] # "release", Goto(p, "panic"),
           UNCHANGED <<table, objects, filelist, locals, history>>
    PROVE  Plain
<1>1. TypeOK /\ UNCHANGED <<ref, obj, objects, saved, inhand, dangled>>
  BY DEF Base, table, locals, history
<1>2. \A q \in Procs : (pc'[q] = "release" <=> pc[q] = "release") /\ (pc'[q] = "pipe2" => pc[q] = "pipe2")
  BY <1>1 DEF TypeOK, Goto
<1> QED
  BY <1>1, <1>2 DEF Plain

LEMMA OpenFdPlain ==
    ASSUME Base, NEW p \in Procs, open_fd(p)
    PROVE  Plain
<1>0. TypeOK /\ LocalsOf(p)
  BY DEF Base, LocalsInv
<1>1. pc[p] = "fd" /\ saved[p] = NULL /\ UNCHANGED <<ref, obj, objects, saved, dangled>>
  BY <1>0 DEF open_fd, LocalsOf, table, history
<1>2. /\ pc'[p] \in {"idle", "closing"}
      /\ \A q \in Procs \ {p} : pc'[q] = pc[q] /\ inhand'[q] = inhand[q]
  <2>1. CASE FreeFds(p) # {}
    <3>1. inhand' = [inhand EXCEPT ![p] = None] /\ Goto(p, "idle")
      BY <2>1 DEF open_fd
    <3> QED
      BY <1>0, <3>1 DEF Goto, TypeOK
  <2>2. CASE FreeFds(p) = {}
    <3>1. inhand' = inhand /\ Goto(p, "closing")
      BY <2>2 DEF open_fd
    <3> QED
      BY <1>0, <3>1 DEF Goto, TypeOK
  <2> QED
    BY <2>1, <2>2
<1> QED
  BY <1>1, <1>2, LeaveObjects

LEMMA PipeFdPlain ==
    ASSUME Base, NEW p \in Procs, pipe_fd(p)
    PROVE  Plain
<1>0. TypeOK /\ LocalsOf(p)
  BY DEF Base, LocalsInv
<1>1. /\ pc[p] = "pipefd" /\ saved[p] = NULL /\ UNCHANGED <<ref, obj, objects, saved, dangled>>
      /\ inhand' = [inhand EXCEPT ![p] = None] /\ Goto(p, "idle")
  BY <1>0 DEF pipe_fd, LocalsOf, table, history
<1>2. pc'[p] = "idle" /\ \A q \in Procs \ {p} : pc'[q] = pc[q] /\ inhand'[q] = inhand[q]
  BY <1>0, <1>1 DEF Goto, TypeOK
<1> QED
  BY <1>1, <1>2, LeaveObjects

LEMMA PipeFdFailPlain ==
    ASSUME Base, NEW p \in Procs, pipe_fd_fail(p)
    PROVE  Plain
<1>0. TypeOK /\ LocalsOf(p)
  BY DEF Base, LocalsInv
<1>1. /\ pc[p] = "pipefd" /\ saved[p] = NULL /\ UNCHANGED <<ref, obj, objects, saved, inhand>>
      /\ (~dangled' => ~dangled) /\ Goto(p, "closing")
  BY <1>0 DEF pipe_fd_fail, LocalsOf, table
<1>2. pc'[p] = "closing" /\ \A q \in Procs \ {p} : pc'[q] = pc[q] /\ inhand'[q] = inhand[q]
  BY <1>0, <1>1 DEF Goto, TypeOK
<1> QED
  BY <1>1, <1>2, LeaveObjects

LEMMA SysDupPlain ==
    ASSUME Base, NEW p \in Procs, NEW d \in FDs, sys_dup(p, d)
    PROVE  Plain
<1>0. TypeOK /\ LocalsOf(p)
  BY DEF Base, LocalsInv
<1>1. PICK g : g = filelist[p][d]
  OBVIOUS
<1>2. /\ pc[p] = "idle" /\ saved[p] = NULL /\ g \in Table /\ ref[g] > 0 /\ ref' = [ref EXCEPT ![g] = @ + 1]
      /\ UNCHANGED <<obj, objects, pc, saved, inhand, dangled>>
  BY <1>0, <1>1 DEF sys_dup, Dup, Open, LocalsOf, TypeOK, locals
<1>3. \A f \in Table : ref'[f] > 0 <=> ref[f] > 0
  BY <1>0, <1>2 DEF TypeOK
<1> QED
  BY <1>2, <1>3, LeaveObjects

LEMMA SysClosePlain ==
    ASSUME Base, NEW p \in Procs, NEW d \in FDs, sys_close(p, d)
    PROVE  Plain
<1>0. TypeOK /\ LocalsOf(p)
  BY DEF Base, LocalsInv
<1>1. PICK g : g = filelist[p][d]
  OBVIOUS
<1>2. /\ pc[p] = "idle" /\ saved[p] = NULL
      /\ UNCHANGED <<ref, obj, objects, saved, dangled>>
      /\ inhand' = [inhand EXCEPT ![p][0] = g] /\ Goto(p, "closing")
  BY <1>0, <1>1 DEF sys_close, LocalsOf, table, history
<1>3. pc'[p] = "closing" /\ \A q \in Procs \ {p} : pc'[q] = pc[q] /\ inhand'[q] = inhand[q]
  BY <1>0, <1>2 DEF Goto, TypeOK
<1> QED
  BY <1>2, <1>3, LeaveObjects

LEMMA CloseMorePlain ==
    ASSUME Base, NEW p \in Procs, NEW d, NEW f, NEW rest, Closes(p, d, f, rest),
           ref[f] # 1, AfterClose(p, rest), UNCHANGED <<obj, saved>>
    PROVE  Plain
<1>0. TypeOK
  BY DEF Base
<1>1. /\ f \in Table /\ ref[f] > 0 /\ pc[p] = "closing" /\ saved[p] = NULL
      /\ ref' = [ref EXCEPT ![f] = @ - 1]
      /\ inhand' = [inhand EXCEPT ![p] = rest]
      /\ UNCHANGED <<objects, dangled>>
  BY DEF Closes, history
<1>2. \A g \in Table : ref'[g] > 0 <=> ref[g] > 0
  BY <1>0, <1>1 DEF TypeOK
<1>3. pc'[p] \in {"closing", "unused", "idle"} /\ \A q \in Procs \ {p} : pc'[q] = pc[q] /\ inhand'[q] = inhand[q]
  BY <1>0, <1>1 DEF AfterClose, TypeOK
<1> QED
  BY <1>1, <1>2, <1>3, LeaveObjects

LEMMA ForkPlain ==
    ASSUME Base, Base', NEW p \in Procs, NEW c \in Procs, proc_fork(p, c)
    PROVE  Plain
<1>0. TypeOK /\ LocalsOf(c)
  BY DEF Base, LocalsInv
<1>1. /\ pc[c] = "unused" /\ saved[c] = NULL /\ Goto(c, "idle")
      /\ UNCHANGED <<obj, objects, saved, inhand>> /\ (~dangled' => ~dangled)
  BY <1>0 DEF proc_fork, LocalsOf, locals
<1>2. ASSUME NEW f \in Table PROVE ref'[f] > 0 <=> ref[f] > 0
  <2>1. {d \in Open(p) : filelist[p][d] = f} = Row(filelist[p], f)
    BY Constants DEF Open, Row
  <2>2. ref'[f] = ref[f] + Num(filelist[p], f)
    BY <2>1 DEF proc_fork, Num
  <2>3. ref[f] \in Nat /\ Num(filelist[p], f) \in Nat
    BY <1>0, NumNat DEF TypeOK
  <2>4. CASE ref[f] > 0
    BY <2>2, <2>3, <2>4
  <2>5. CASE ~ (ref[f] > 0)
    <3>1. Row(filelist[p], f) = {}
      BY <2>5, Constants DEF Row, proc_fork, Open
    <3>2. Num(filelist[p], f) = 0
      BY <3>1, FS_EmptySet DEF Num
    <3> QED
      BY <2>2, <2>3, <2>5, <3>2
  <2> QED
    BY <2>4, <2>5
<1>3. pc'[c] = "idle" /\ \A q \in Procs \ {c} : pc'[q] = pc[q] /\ inhand'[q] = inhand[q]
  BY <1>0, <1>1 DEF Goto, TypeOK
<1> QED
  BY <1>1, <1>2, <1>3, LeaveObjects

LEMMA FreePlain ==
    ASSUME Base, NEW p \in Procs, proc_free(p)
    PROVE  Plain
<1>0. TypeOK /\ LocalsOf(p)
  BY DEF Base, LocalsInv
<1>1. /\ pc[p] = "idle" /\ saved[p] = NULL /\ UNCHANGED <<ref, obj, objects, saved, dangled>>
      /\ inhand' = [inhand EXCEPT ![p] = filelist[p]]
      /\ Goto(p, IF Open(p) # {} THEN "closing" ELSE "unused")
  BY <1>0 DEF proc_free, LocalsOf, table, history
<1>2. pc'[p] \in {"closing", "unused"} /\ \A q \in Procs \ {p} : pc'[q] = pc[q] /\ inhand'[q] = inhand[q]
  BY <1>0, <1>1 DEF Goto, TypeOK
<1> QED
  BY <1>1, <1>2, LeaveObjects

-----------------------------------------------------------------------------
(***************************************************************************)
(* The invariant.                                                          *)
(***************************************************************************)
Core == Base /\ RefExact /\ InodeRefs /\ EndsInv

LEMMA CoreIs == IInv <=> Core
BY EndsInvIs DEF IInv, Core, Base, RefExact

LEMMA PlainCore ==
    ASSUME Core, Base', RefExact', Plain
    PROVE  Core'
<1>1. InodeRefs' /\ EndsInv'
  BY PlainStep DEF Core
<1> QED
  BY <1>1 DEF Core

LEMMA FileCloseCore ==
    ASSUME Core, NEW p \in Procs, file_close(p)
    PROVE  Core'
<1>0. Base /\ RefExact /\ InodeRefs /\ EndsInv
  BY DEF Core
<1>1. Base'
  BY <1>0, FileCloseBase
<1>2. RefExact'
  BY <1>0, <1>1, FileCloseRef
<1>3. PICK d, f, rest : /\ Closes(p, d, f, rest)
                        /\ ref[f] = 1 => ClosesLast(p, f)
                        /\ ref[f] # 1 => AfterClose(p, rest) /\ UNCHANGED <<obj, saved>>
  BY <1>0, FileCloseParts
<1>4. CASE ref[f] = 1
  <2>1. InodeRefs' /\ EndsInv'
    BY <1>0, <1>3, <1>4, CloseLastInodes, CloseLastEnds
  <2> QED
    BY <1>1, <1>2, <2>1 DEF Core
<1>5. CASE ref[f] # 1
  <2>1. Plain
    BY <1>0, <1>3, <1>5, CloseMorePlain
  <2> QED
    BY <1>1, <1>2, <2>1, PlainCore
<1> QED
  BY <1>4, <1>5

LEMMA PanicCore ==
    ASSUME Core, NEW p \in Procs, pc[p] \notin {"unused", "release"}, Goto(p, "panic"), stuck' \in BOOLEAN,
           UNCHANGED <<table, objects, filelist, locals, history>>
    PROVE  Core'
<1>0. Base /\ RefExact
  BY DEF Core
<1>1. Base'
  BY <1>0, PanicBase
<1>2. RefExact'
  BY <1>0, <1>1, PanicRef
<1>3. Plain
  BY <1>0, PanicPlain
<1> QED
  BY <1>1, <1>2, <1>3, PlainCore

\* What the kernel does in one step, from a state where all counts are exact.
LEMMA StepCore ==
    ASSUME Core, Next
    PROVE  Core'
<1>0. Base /\ RefExact /\ InodeRefs /\ EndsInv /\ TypeOK
  BY DEF Core, Base
<1>1. ASSUME NEW p \in Procs, NEW i \in Inodes, open_inode(p, i) PROVE Core'
  BY <1>0, <1>1, OpenInodeBase, OpenInodeRef, OpenInodeInodes, OpenInodeEnds DEF Core
<1>2. ASSUME NEW p \in Procs, open_file(p) PROVE Core'
  BY <1>0, <1>2, OpenFileBase, OpenFileRef, OpenFileInodes, OpenFileEnds DEF Core
<1>3. ASSUME NEW p \in Procs, open_fd(p) PROVE Core'
  BY <1>0, <1>3, OpenFdBase, OpenFdRef, OpenFdPlain, PlainCore
<1>4. ASSUME NEW p \in Procs, file_alloc_panic(p) PROVE Core'
  <2>1. /\ pc[p] \notin {"unused", "release"} /\ Goto(p, "panic") /\ stuck' \in BOOLEAN
        /\ UNCHANGED <<table, objects, filelist, locals, history>>
    BY <1>0, <1>4 DEF file_alloc_panic, TypeOK
  <2> QED
    BY <2>1, PanicCore
<1>5. ASSUME NEW p \in Procs, NEW x \in Pipes, pipe_new(p, x) PROVE Core'
  BY <1>0, <1>5, PipeNewBase, PipeNewRef, PipeNewEnds DEF Core
<1>6. ASSUME NEW p \in Procs, pipe_file(p) PROVE Core'
  BY <1>0, <1>6, PipeFileBase, PipeFileRef, PipeFileEnds DEF Core
<1>7. ASSUME NEW p \in Procs, pipe_file2(p) PROVE Core'
  BY <1>0, <1>7, PipeFile2Base, PipeFile2Ref, PipeFile2Ends DEF Core
<1>8. ASSUME NEW p \in Procs, pipe_fd(p) PROVE Core'
  BY <1>0, <1>8, PipeFdBase, PipeFdRef, PipeFdPlain, PlainCore
<1>9. ASSUME NEW p \in Procs, pipe_fd_fail(p) PROVE Core'
  BY <1>0, <1>9, PipeFdFailBase, PipeFdFailRef, PipeFdFailPlain, PlainCore
<1>10. ASSUME NEW p \in Procs, NEW d \in FDs, sys_dup(p, d) PROVE Core'
  BY <1>0, <1>10, SysDupBase, SysDupRef, SysDupPlain, PlainCore
<1>11. ASSUME NEW p \in Procs, NEW d \in FDs, sys_dup_panic(p, d) PROVE Core'
  <2>1. /\ pc[p] \notin {"unused", "release"} /\ Goto(p, "panic") /\ stuck' \in BOOLEAN
        /\ UNCHANGED <<table, objects, filelist, locals, history>>
    BY <1>11 DEF sys_dup_panic
  <2> QED
    BY <2>1, PanicCore
<1>12. ASSUME NEW p \in Procs, NEW d \in FDs, sys_close(p, d) PROVE Core'
  BY <1>0, <1>12, SysCloseBase, SysCloseRef, SysClosePlain, PlainCore
<1>13. ASSUME NEW p \in Procs, file_close(p) PROVE Core'
  BY <1>13, FileCloseCore
<1>14. ASSUME NEW p \in Procs, file_close_panic(p) PROVE Core'
  <2>1. /\ pc[p] \notin {"unused", "release"} /\ Goto(p, "panic") /\ stuck' \in BOOLEAN
        /\ UNCHANGED <<table, objects, filelist, locals, history>>
    BY <1>14 DEF file_close_panic
  <2> QED
    BY <2>1, PanicCore
<1>15. ASSUME NEW p \in Procs, file_release(p) PROVE Core'
  BY <1>0, <1>15, FileReleaseBase, FileReleaseRef, ReleaseInodes, ReleaseEnds DEF Core
<1>15a. ASSUME NEW p \in Procs, file_release_panic(p) PROVE Core'
  <2>1. Stops(p, saved[p])
    BY <1>0, <1>15a, ReleasePanicIs
  <2> QED
    BY <1>0, <2>1, ReleasePanicBase, ReleasePanicRef, ReleasePanicInodes, ReleasePanicEnds DEF Core
<1>16. ASSUME NEW p \in Procs, NEW c \in Procs, proc_fork(p, c) PROVE Core'
  BY <1>0, <1>16, ForkBase, ForkRef, ForkPlain, PlainCore
<1>17. ASSUME NEW p \in Procs, NEW c \in Procs, proc_fork_panic(p, c) PROVE Core'
  <2>1. /\ pc[p] \notin {"unused", "release"} /\ Goto(p, "panic") /\ stuck' \in BOOLEAN
        /\ UNCHANGED <<table, objects, filelist, locals, history>>
    BY <1>17 DEF proc_fork_panic
  <2> QED
    BY <2>1, PanicCore
<1>18. ASSUME NEW p \in Procs, proc_free(p) PROVE Core'
  BY <1>0, <1>18, FreeBase, FreeRef, FreePlain, PlainCore
<1> QED
  BY <1>1, <1>2, <1>3, <1>4, <1>5, <1>6, <1>7, <1>8, <1>9, <1>10, <1>11, <1>12, <1>13, <1>14,
     <1>15, <1>15a, <1>16, <1>17, <1>18 DEF Next

LEMMA StutterCore ==
    ASSUME Core, UNCHANGED vars
    PROVE  Core'
<1>0. Base /\ RefExact /\ InodeRefs /\ EndsInv /\ TypeOK /\ LocalsInv /\ ObjInv
  BY DEF Core, Base
<1>1. UNCHANGED <<ref, obj, iref, popen, stuck, filelist, pc, inhand, saved, dying, leaked, dangled>>
  BY DEF vars, table, objects, locals, history
<1>2. TypeOK'
  BY <1>0, <1>1 DEF TypeOK
<1>3. LocalsInv'
  BY <1>0, <1>1 DEF LocalsInv, LocalsOf, InHand
<1>4. Base'
  BY <1>0, <1>1, <1>2, <1>3 DEF Base, ObjInv
<1>5. RefExact'
  BY <1>0, <1>1, <1>2, RefSame DEF Uses, history
<1>6. Plain
  BY <1>1 DEF Plain, objects
<1> QED
  BY <1>4, <1>5, <1>6, PlainCore

LEMMA InitCore ==
    ASSUME Init
    PROVE  Core
<1>1. PICK p \in Procs :
           /\ filelist = [q \in Procs |-> [d \in FDs |-> IF q = p /\ d < 2 THEN 1 ELSE NULL]]
           /\ pc = [q \in Procs |-> IF q = p THEN "idle" ELSE "unused"]
  BY DEF Init
<1>2. 1 \in Table /\ WRAP \in Nat /\ WRAP > 1 /\ Console \in Inodes /\ Console \in Objects
  <2>1. Cardinality(Procs) \in Nat
    BY Constants, FS_CardinalityType
  <2> QED
    BY <2>1, FilesAssumption DEF Table, Objects
<1>3. TypeOK
  <2>1. filelist \in [Procs -> [FDs -> Table \cup {NULL}]] /\ pc \in [Procs -> Labels]
    BY <1>1, <1>2 DEF Labels
  <2>2. inhand \in [Procs -> [FDs -> Table \cup {NULL}]]
    BY NoneRow DEF Init, Rows
  <2>3. ref \in [Table -> Nat] /\ obj \in [Table -> Objects \cup {NULL}] /\ iref \in [Inodes -> 0..(WRAP - 1)]
    BY <1>2 DEF Init
  <2> QED
    BY <2>1, <2>2, <2>3 DEF Init, TypeOK
<1>4. LocalsInv
  BY <1>1 DEF Init, LocalsInv, LocalsOf
<1>5. ObjInv
  BY <1>2 DEF Init, ObjInv
<1>6. RefExact
  <2> SUFFICES ASSUME NEW f \in Table
               PROVE  ref[f] = Cardinality(Named(f)) + Cardinality(Held(f)) + leaked[f]
    BY <1>3 DEF RefExact
  <2>1. Held(f) = {}
    BY Constants DEF Held, Init, None
  <2>2. CASE f = 1
    <3>1. Named(f) = {<<p, 0>>} \cup {<<p, 1>>}
      <4>1. \A d \in FDs : d < 2 <=> d = 0 \/ d = 1
        BY DEF FDs
      <4>2. \A q \in Procs, d \in FDs : filelist[q][d] = f <=> q = p /\ (d = 0 \/ d = 1)
        BY <1>1, <2>2, <4>1, Constants
      <4>3. \A q \in Procs : q = p => Uses(q)
        BY <1>1 DEF Uses, Init
      <4>4. ASSUME NEW x \in Procs \X FDs
            PROVE  x \in Named(f) <=> x = <<p, 0>> \/ x = <<p, 1>>
        <5>1. x \in Named(f) <=> x[1] = p /\ (x[2] = 0 \/ x[2] = 1)
          BY <4>2, <4>3 DEF Named
        <5> QED
          BY <5>1
      <4>5. Named(f) \in SUBSET (Procs \X FDs) /\ <<p, 0>> \in Procs \X FDs /\ <<p, 1>> \in Procs \X FDs
        BY Constants DEF Named
      <4> QED
        BY <4>4, <4>5
    <3>4. <<p, 1>> \notin {<<p, 0>>}
      OBVIOUS
    <3>2. IsFiniteSet({<<p, 0>>}) /\ Cardinality({<<p, 0>>}) = 1
      BY FS_Singleton
    <3>3. Cardinality(Named(f)) = 1 + 1
      BY <3>1, <3>2, <3>4, FS_AddElement
    <3> QED
      BY <2>1, <2>2, <3>3, FS_EmptySet DEF Init
  <2>3. CASE f # 1
    <3>1. Named(f) = {}
      BY <1>1, <2>3, Constants DEF Named
    <3> QED
      BY <2>1, <2>3, <3>1, FS_EmptySet DEF Init
  <2> QED
    BY <2>2, <2>3
<1>7. InodeRefs
  <2> SUFFICES ASSUME NEW i \in Inodes
               PROVE  iref[i] = ((Cardinality(StandsFor(i)) + Cardinality(Busy(i)) + Debt(i)) % WRAP)
    BY DEF InodeRefs, Debt
  <2>1. Busy(i) = {} /\ iref[i] = 0
    BY Disjoint DEF Busy, Init
  <2>2. CASE i = Console
    <3>1. StandsFor(i) = {1}
      BY <1>2, <2>2, Disjoint DEF StandsFor, Init
    <3>2. Cardinality(StandsFor(i)) = 1 /\ Cardinality(Busy(i)) = 0
      BY <2>1, <3>1, FS_Singleton, FS_EmptySet
    <3>3. ((0 + WRAP) % WRAP) = 0 /\ 1 + 0 + (WRAP - 1) = 0 + WRAP
      BY <1>2, ModOnce
    <3> QED
      BY <2>1, <2>2, <3>2, <3>3 DEF Debt
  <2>3. CASE i # Console
    <3>1. StandsFor(i) = {}
      BY <2>3, Disjoint DEF StandsFor, Init
    <3>2. Cardinality(StandsFor(i)) = 0 /\ Cardinality(Busy(i)) = 0
      BY <2>1, <3>1, FS_EmptySet
    <3>3. (0 % WRAP) = 0
      BY <1>2, ModOnce
    <3> QED
      BY <2>1, <2>3, <3>2, <3>3 DEF Debt
  <2> QED
    BY <2>2, <2>3
<1>8. EndsInv
  <2> SUFFICES ASSUME NEW e \in Ends PROVE EndOK(e)
    BY DEF EndsInv
  <2>1. \A f \in Table : ~FileFor(f, e)
    BY <1>2, Disjoint DEF FileFor, Init
  <2>2. \A q \in Procs : ~Closing(q, e) /\ ~Making(q, e)
    BY Disjoint DEF Closing, Making, Init
  <2>3. e \notin popen
    BY DEF Init
  <2> QED
    BY <2>1, <2>2, <2>3 DEF EndOK
<1> QED
  BY <1>3, <1>4, <1>5, <1>6, <1>7, <1>8 DEF Core, Base

\* Every state the file table, the descriptors and the files in hand can
\* reach, through any interleaving of open, pipe, dup, close, fork and exit,
\* satisfies the inductive invariant.
THEOREM Invariant == Spec => []IInv
<1>1. Init => IInv
  BY InitCore, CoreIs
<1>2. IInv /\ [Next]_vars => IInv'
  <2> SUFFICES ASSUME IInv, [Next]_vars PROVE IInv'
    OBVIOUS
  <2>2. Core
    BY CoreIs
  <2>3. Core'
    BY <2>2, StepCore, StutterCore
  <2>4. EndsInv' <=> (EndsApart /\ EndsOpen)'
    BY DEF EndsInv, EndOK, EndsApart, EndsOpen
  <2> QED
    BY <2>3, <2>4 DEF IInv, Core, Base
<1> QED
  BY <1>1, <1>2, PTL DEF Spec

\* ref of an open file is the number of its descriptors and of the opens,
\* pipes and closes that have it in hand, until sys_pipe or proc_fork leaves a
\* descriptor of a closed file: file_dup and file_close never lose a reference.
THEOREM RefTheorem == Spec => []RefExact
<1>1. IInv => RefExact
  BY DEF IInv
<1> QED
  BY <1>1, Invariant, PTL

\* inode_free is called exactly once for each reference that an open took,
\* between the two halves of file_close included.
THEOREM InodesTheorem == Spec => []InodeRefs
<1>1. IInv => InodeRefs
  BY DEF IInv
<1> QED
  BY <1>1, Invariant, PTL

\* The end of a pipe is open exactly as long as a file stands for it, or a
\* sys_pipe or a file_close is on its way to make or to close it.
THEOREM EndsTheorem == Spec => []EndsOpen
<1>1. IInv => EndsOpen
  BY DEF IInv
<1> QED
  BY <1>1, Invariant, PTL
-----------------------------------------------------------------------------
(***************************************************************************)
(* The blocks of files.                                                    *)
(*                                                                         *)
(* As long as none of the defects that FileData names has struck, every    *)
(* block stands in one place of one file, and a file reads as what was     *)
(* written to it: for any number of files and blocks, tables of any size   *)
(* and calls of any length.                                                *)
(***************************************************************************)
LEMMA FreeBlock ==
    ASSUME NEW S \in SUBSET Blocks, S # {}
    PROVE  Min(S) \in S
<1>1. S \in SUBSET Nat
  BY FileDataAssumption DEF Blocks
<1>2. PICK x \in S : \A y \in S : x <= y
  BY <1>1, LeastNumber
<1> QED
  BY <1>2 DEF Min

\* The sizes of the instance.
LEMMA Sizes ==
    /\ E \in Nat \ {0} /\ NB \in Nat
    /\ N_ADDRS_1 \in Nat /\ N_ADDRS_2 \in Nat /\ N_ADDRS_3 \in Nat /\ N_ADDRS_3 <= E
    /\ N_ADDRS_2 * E \in Nat /\ N_ADDRS_3 * E * E \in Nat
    /\ MAX_FILE_SIZE \in Nat
    /\ 0 \notin Blocks /\ End \notin Words /\ 0 \in Words
    /\ Blocks \subseteq Nat /\ Words \subseteq Nat /\ Slots \subseteq Nat
    /\ NoAddrs \in [Slots -> Nat]
<1>1. /\ E \in Nat \ {0} /\ NB \in Nat
      /\ N_ADDRS_1 \in Nat /\ N_ADDRS_2 \in Nat /\ N_ADDRS_3 \in Nat /\ N_ADDRS_3 <= E
  BY FileDataAssumption DEF E
<1>2. N_ADDRS_2 * E \in Nat /\ N_ADDRS_3 * E * E \in Nat
  BY <1>1
<1>3. MAX_FILE_SIZE \in Nat
  BY <1>1, <1>2 DEF MAX_FILE_SIZE
<1> QED
  BY <1>1, <1>2, <1>3 DEF Blocks, End, Words, Slots, N_ADDRS, NoAddrs

-----------------------------------------------------------------------------
(***************************************************************************)
(* Types.                                                                  *)
(***************************************************************************)
WalkType ==
    [addrs : [Slots -> Nat], content : [Blocks -> [Words -> Nat]], used : SUBSET Blocks,
     blk : Nat, fresh : BOOLEAN, dirty : BOOLEAN, bad : BOOLEAN, why : Outcomes]

\* The search of the bitmap sets one clear bit and changes nothing else.
LEMMA AllocIs ==
    ASSUME NEW s \in WalkType
    PROVE  /\ Alloc(s) \in WalkType
           /\ Alloc(s).addrs = s.addrs /\ Alloc(s).content = s.content /\ Alloc(s).dirty = s.dirty
           /\ s.bad => Alloc(s).bad
           /\ ~Alloc(s).bad => /\ Alloc(s).blk \in Blocks \ s.used
                               /\ Alloc(s).used = s.used \cup {Alloc(s).blk}
                               /\ Alloc(s).fresh = TRUE
<1>1. CASE Free(s) = {}
  BY <1>1 DEF Alloc, WalkType, Outcomes
<1>2. CASE Free(s) # {}
  <2>1. Free(s) \in SUBSET Blocks /\ Free(s) \cap s.used = {}
    BY DEF Free
  <2>2. PICK b : b = Min(Free(s)) /\ b \in Blocks /\ b \notin s.used
    BY <1>2, <2>1, FreeBlock
  <2>3. Alloc(s) = [s EXCEPT !.used = @ \cup {b}, !.blk = b, !.fresh = TRUE]
    BY <1>2, <2>2 DEF Alloc
  <2>4. b \in Nat
    BY <2>2, Sizes
  <2>5a. s.used \cup {b} \in SUBSET Blocks
    BY <2>2 DEF WalkType
  <2>5. PICK u : u = s.used \cup {b} /\ u \in SUBSET Blocks
    BY <2>5a
  <2>6. Alloc(s) = [s EXCEPT !.used = u, !.blk = b, !.fresh = TRUE]
    BY <2>3, <2>5
  <2>7. Alloc(s) \in WalkType
    BY <2>4, <2>5, <2>6 DEF WalkType
  <2>8. /\ Alloc(s).addrs = s.addrs /\ Alloc(s).content = s.content /\ Alloc(s).dirty = s.dirty
        /\ Alloc(s).bad = s.bad /\ Alloc(s).blk = b /\ Alloc(s).used = u /\ Alloc(s).fresh = TRUE
    BY <2>6 DEF WalkType
  <2> QED
    BY <2>2, <2>5, <2>7, <2>8
<1> QED
  BY <1>1, <1>2

\* A walk that goes astray keeps its place.
LEMMA AstrayIs ==
    ASSUME NEW s \in WalkType, NEW how \in Outcomes, NEW r, r = Astray(s, how)
    PROVE  /\ r \in WalkType /\ r.bad
           /\ r.addrs = s.addrs /\ r.content = s.content /\ r.used = s.used /\ r.dirty = s.dirty
<1>1. PICK w \in Outcomes : r = [s EXCEPT !.bad = TRUE, !.why = w]
  BY DEF Astray, WalkType
<1> QED
  BY <1>1 DEF WalkType

LEMMA RootIs ==
    ASSUME NEW s \in WalkType, NEW i \in Nat
    PROVE  /\ Root(s, i) \in WalkType
           /\ s.bad => Root(s, i).bad
           /\ Root(s, i).dirty = s.dirty /\ Root(s, i).content = s.content
           /\ ~Root(s, i).bad =>
                /\ i \in Slots
                /\ Root(s, i).addrs[i] = Root(s, i).blk /\ Root(s, i).blk # 0
                /\ \/ /\ s.addrs[i] # 0 /\ Root(s, i).addrs = s.addrs /\ Root(s, i).used = s.used
                      /\ Root(s, i).fresh = s.fresh
                   \/ /\ s.addrs[i] = 0 /\ Root(s, i).blk \in Blocks \ s.used
                      /\ Root(s, i).addrs = [s.addrs EXCEPT ![i] = Root(s, i).blk]
                      /\ Root(s, i).used = s.used \cup {Root(s, i).blk} /\ Root(s, i).fresh = TRUE
<1>1. CASE i \notin Slots
  <2>1. Root(s, i) = Astray(s, "addrs") /\ "addrs" \in Outcomes
    BY <1>1 DEF Root, Outcomes
  <2> QED
    BY <2>1, AstrayIs
<1>2. CASE i \in Slots /\ s.addrs[i] # 0
  BY <1>2 DEF Root, WalkType
<1>3. CASE i \in Slots /\ s.addrs[i] = 0
  <2>1. PICK n : n = Alloc(s)
    OBVIOUS
  <2>2. Root(s, i) = IF n.bad THEN n ELSE [n EXCEPT !.addrs[i] = n.blk]
    BY <1>3, <2>1 DEF Root
  <2>3. /\ n \in WalkType /\ n.addrs = s.addrs /\ n.content = s.content /\ n.dirty = s.dirty
        /\ s.bad => n.bad
        /\ ~n.bad => n.blk \in Blocks \ s.used /\ n.used = s.used \cup {n.blk} /\ n.fresh = TRUE
    BY <2>1, AllocIs
  <2>4. CASE n.bad
    BY <2>2, <2>3, <2>4
  <2>5. CASE ~n.bad
    <3>1. Root(s, i) = [n EXCEPT !.addrs = [n.addrs EXCEPT ![i] = n.blk]]
      BY <2>2, <2>5
    <3>2. n.blk \in Nat /\ n.blk # 0
      BY <2>3, <2>5, Sizes
    <3>3. [n.addrs EXCEPT ![i] = n.blk] \in [Slots -> Nat]
      BY <3>2, <2>3 DEF WalkType
    <3> QED
      BY <1>3, <2>3, <2>5, <3>1, <3>2, <3>3 DEF WalkType
  <2> QED
    BY <2>4, <2>5
<1> QED
  BY <1>1, <1>2, <1>3

ChildStep(s, j, r) ==
    /\ r \in WalkType
    /\ s.bad => r.bad
    /\ r.addrs = s.addrs
    /\ ~r.bad => /\ s.dirty => r.dirty
                 /\ s.blk \in Blocks
                 /\ ~r.dirty /\ s.fresh => \A w \in Words : s.content[s.blk][w] = 0
                 /\ \/ /\ s.content[s.blk][j] # 0 /\ r.blk = s.content[s.blk][j]
                       /\ r.content = s.content /\ r.used = s.used /\ r.fresh = FALSE
                    \/ /\ s.content[s.blk][j] = 0 /\ r.blk \in Blocks \ s.used
                       /\ r.content = [s.content EXCEPT ![s.blk][j] = r.blk]
                       /\ r.used = s.used \cup {r.blk} /\ r.fresh = TRUE

LEMMA ChildIs ==
    ASSUME NEW s \in WalkType, NEW j, s.bad \/ j \in Words, NEW r, r = Child(s, j)
    PROVE  ChildStep(s, j, r)
<1> USE DEF ChildStep
<1>1. CASE s.bad \/ s.blk \notin Blocks
  <2>1. r = Astray(s, "block") /\ "block" \in Outcomes
    BY <1>1 DEF Child, Outcomes
  <2> QED
    BY <2>1, AstrayIs
<1>2. CASE ~s.bad /\ s.blk \in Blocks
  <2>1. PICK t : t = Marked(s)
    OBVIOUS
  <2>2. PICK d : d = t.dirty
    OBVIOUS
  <2>3. /\ t \in WalkType /\ t.addrs = s.addrs /\ t.content = s.content /\ t.used = s.used
        /\ t.blk = s.blk /\ t.fresh = s.fresh /\ t.bad = s.bad /\ t.dirty = d /\ d \in BOOLEAN
        /\ d <=> (s.dirty \/ (s.fresh /\ \E w \in Words : s.content[s.blk][w] # 0))
    BY <2>1, <2>2 DEF WalkType, Marked
  <2>4. r = IF t.content[t.blk][j] # 0
            THEN [t EXCEPT !.blk = t.content[t.blk][j], !.fresh = FALSE]
            ELSE LET n == Alloc(t) IN
                 IF n.bad THEN Astray(n, "block") ELSE [n EXCEPT !.content[t.blk][j] = n.blk]
    BY <1>2, <2>1, Zenon DEF Child
  <2>5. ~d => (s.fresh => \A w \in Words : s.content[s.blk][w] = 0)
    BY <2>3
  <2>6. s.dirty => d
    BY <2>3
  <2>7. CASE s.content[s.blk][j] # 0
    <3>1. r = [t EXCEPT !.blk = t.content[t.blk][j], !.fresh = FALSE]
      BY <2>3, <2>4, <2>7
    <3>2. t.content[t.blk][j] \in Nat
      BY <1>2, <2>3, <2>7 DEF WalkType
    <3>3. r \in WalkType
      BY <2>3, <3>1, <3>2 DEF WalkType
    <3>4. /\ r.addrs = t.addrs /\ r.content = t.content /\ r.used = t.used /\ r.blk = t.content[t.blk][j]
          /\ r.fresh = FALSE /\ r.dirty = d
      BY <2>3, <3>1 DEF WalkType
    <3> QED
      BY <1>2, <2>3, <2>5, <2>6, <2>7, <3>3, <3>4
  <2>8. CASE s.content[s.blk][j] = 0
    <3>1. PICK n : n = Alloc(t)
      OBVIOUS
    <3>2. /\ n \in WalkType /\ n.addrs = t.addrs /\ n.content = t.content /\ n.dirty = t.dirty
          /\ ~n.bad => n.blk \in Blocks \ t.used /\ n.used = t.used \cup {n.blk} /\ n.fresh = TRUE
      BY <2>3, <3>1, AllocIs
    <3>3. r = IF n.bad THEN Astray(n, "block") ELSE [n EXCEPT !.content[t.blk][j] = n.blk]
      BY <2>3, <2>4, <2>8, <3>1
    <3>4. CASE n.bad
      <4>1. r = Astray(n, "block") /\ "block" \in Outcomes
        BY <3>3, <3>4 DEF Outcomes
      <4>2. r \in WalkType /\ r.bad /\ r.addrs = n.addrs
        BY <3>2, <4>1, AstrayIs
      <4> QED
        BY <1>2, <2>3, <3>2, <4>2
    <3>5. CASE ~n.bad
      <4>1. PICK c : c = [s.content EXCEPT ![s.blk][j] = n.blk]
        OBVIOUS
      <4>2. r = [n EXCEPT !.content = c]
        BY <3>3, <3>5, <2>3, <3>2, <4>1
      <4>3. n.blk \in Nat
        BY <3>2, <3>5, Sizes
      <4>4. c \in [Blocks -> [Words -> Nat]]
        BY <4>1, <4>3, <1>2 DEF WalkType
      <4>5. r \in WalkType
        BY <4>2, <4>4, <3>2 DEF WalkType
      <4>6. /\ r.addrs = n.addrs /\ r.content = c /\ r.used = n.used /\ r.blk = n.blk
            /\ r.fresh = n.fresh /\ r.dirty = n.dirty /\ r.bad = n.bad
        BY <3>2, <4>2 DEF WalkType
      <4> QED
        BY <1>2, <2>3, <2>5, <2>6, <2>8, <3>2, <3>5, <4>1, <4>5, <4>6
    <3> QED
      BY <3>4, <3>5
  <2> QED
    BY <2>7, <2>8
<1> QED
  BY <1>1, <1>2

-----------------------------------------------------------------------------
(***************************************************************************)
(* Positions: where inode_locate_block looks for block n of a file.        *)
(***************************************************************************)
Pos(n) ==
    IF n < N_ADDRS_1 THEN <<n, End, End>>
    ELSE IF n < N_ADDRS_1 + N_ADDRS_2 * E
    THEN <<(n - N_ADDRS_1) \div E + N_ADDRS_1, (n - N_ADDRS_1) % E, End>>
    ELSE LET m == n - N_ADDRS_1 - N_ADDRS_2 * E IN
         <<(m \div E) * E + N_ADDRS_1 + N_ADDRS_2, m \div E, m % E>>

LEMMA Division ==
    ASSUME NEW m \in Nat \ {0}, NEW x \in Nat
    PROVE  /\ x \div m \in Nat /\ x % m \in 0..(m - 1)
           /\ x = m * (x \div m) + (x % m)
BY Z3

\* A product is at least a factor, if the other is not 0.
LEMMA ProductAtLeast ==
    ASSUME NEW a \in Nat \ {0}, NEW b \in Nat
    PROVE  a * b >= b /\ a * b \in Nat
BY Z3

LEMMA ProductBelow ==
    ASSUME NEW a \in Nat, NEW b \in Nat, NEW c \in Nat \ {0}, c * a < b * c
    PROVE  a < b
<1>1. SUFFICES ASSUME b <= a PROVE FALSE
  OBVIOUS
<1>2. PICK d \in Nat : a = b + d
  BY <1>1, a - b \in Nat
<1>3. c * a = c * b + c * d /\ c * d >= 0 /\ c * b = b * c
  BY <1>2, Z3
<1>4. c * a \in Int /\ c * b \in Int /\ b * c \in Int /\ c * d \in Int
  OBVIOUS
<1> QED
  BY <1>3, <1>4

Direct(n, s) == n < N_ADDRS_1 /\ Pos(n) = <<n, End, End>> /\ Locate(s, n) = Root(s, n)
Indirect(n, i, j, s) ==
    /\ i \in Nat /\ j \in Words /\ N_ADDRS_1 <= i /\ i < N_ADDRS_1 + N_ADDRS_2
    /\ n = N_ADDRS_1 + (E * (i - N_ADDRS_1) + j)
    /\ Pos(n) = <<i, j, End>> /\ Locate(s, n) = Child(Root(s, i), j)
Double(n, i, j, k, s) ==
    /\ i \in Nat /\ k \in Words /\ N_ADDRS_1 + N_ADDRS_2 <= i
    /\ i \in Slots => j = 0 /\ i = N_ADDRS_1 + N_ADDRS_2 /\ n = (N_ADDRS_1 + N_ADDRS_2 * E) + k
    /\ Pos(n) = <<i, j, k>> /\ Locate(s, n) = Child(Child(Root(s, i), j), k)

LEMMA PosForm ==
    ASSUME NEW n \in Nat, NEW s
    PROVE  \/ Direct(n, s)
           \/ \E i, j : Indirect(n, i, j, s)
           \/ \E i, j, k : Double(n, i, j, k, s)
<1>1. CASE n < N_ADDRS_1
  BY <1>1 DEF Direct, Pos, Locate
<1>2. CASE ~(n < N_ADDRS_1) /\ n < N_ADDRS_1 + N_ADDRS_2 * E
  <2>1. PICK x : x = n - N_ADDRS_1 /\ x \in Nat /\ x < N_ADDRS_2 * E
    BY <1>2, Sizes
  <2>2. PICK q, j : q = x \div E /\ j = x % E
    OBVIOUS
  <2>3. q \in Nat /\ j \in Words /\ x = E * q + j
    BY <2>1, <2>2, Division, Sizes DEF Words
  <2>4. q < N_ADDRS_2
    <3>1. E * q \in Nat /\ j \in Nat
      BY <2>3, Sizes
    <3>2. E * q < N_ADDRS_2 * E
      BY <2>1, <2>3, <3>1, Sizes
    <3> QED
      BY <3>2, <2>3, Sizes, ProductBelow
  <2>5. Pos(n) = <<q + N_ADDRS_1, j, End>> /\ Locate(s, n) = Child(Root(s, q + N_ADDRS_1), j)
    BY <1>2, <2>1, <2>2 DEF Pos, Locate
  <2>6. (q + N_ADDRS_1) - N_ADDRS_1 = q /\ n = N_ADDRS_1 + x
    BY <2>1, <2>3, Sizes
  <2>7. n = N_ADDRS_1 + (E * ((q + N_ADDRS_1) - N_ADDRS_1) + j)
    BY <2>3, <2>6
  <2>8. q + N_ADDRS_1 \in Nat /\ N_ADDRS_1 <= q + N_ADDRS_1 /\ q + N_ADDRS_1 < N_ADDRS_1 + N_ADDRS_2
    BY <2>3, <2>4, Sizes
  <2>9. Indirect(n, q + N_ADDRS_1, j, s)
    BY <2>3, <2>5, <2>7, <2>8 DEF Indirect
  <2> QED
    BY <2>9
<1>3. CASE ~(n < N_ADDRS_1) /\ ~(n < N_ADDRS_1 + N_ADDRS_2 * E)
  <2>1. PICK x : x = n - N_ADDRS_1 - N_ADDRS_2 * E
    OBVIOUS
  <2>1a. x \in Nat /\ n = (N_ADDRS_1 + N_ADDRS_2 * E) + x
    BY <1>3, <2>1, Sizes
  <2>2. PICK q, k : q = x \div E /\ k = x % E
    OBVIOUS
  <2>3. q \in Nat /\ k \in Words /\ x = E * q + k
    BY <2>1a, <2>2, Division, Sizes DEF Words
  <2>4. PICK i : i = q * E + N_ADDRS_1 + N_ADDRS_2
    OBVIOUS
  <2>5. Pos(n) = <<i, q, k>> /\ Locate(s, n) = Child(Child(Root(s, i), q), k)
    BY <1>3, <2>1, <2>2, <2>4 DEF Pos, Locate
  <2>6. q * E \in Nat /\ i \in Nat /\ N_ADDRS_1 + N_ADDRS_2 <= i
    BY <2>3, <2>4, Sizes
  <2>7. ASSUME i \in Slots PROVE q = 0
    <3>1. q * E < E
      BY <2>4, <2>6, <2>7, Sizes DEF Slots, N_ADDRS
    <3> QED
      BY <3>1, <2>3, Sizes, ProductAtLeast
  <2>8. ASSUME i \in Slots PROVE i = N_ADDRS_1 + N_ADDRS_2 /\ x = k
    <3>1. q = 0
      BY <2>7, <2>8
    <3>2. q * E = 0 /\ E * q = 0
      BY <3>1, Sizes
    <3> QED
      BY <3>2, <2>3, <2>4, Sizes
  <2>9. Double(n, i, q, k, s)
    BY <2>1a, <2>3, <2>5, <2>6, <2>7, <2>8 DEF Double
  <2> QED
    BY <2>9
<1> QED
  BY <1>1, <1>2, <1>3

\* The three kinds of places.
Top(x, i) == x = <<i, End, End>> /\ i \in Slots
Mid(x, i, j) == x = <<i, j, End>> /\ i \in Slots /\ j \in Words /\ i >= N_ADDRS_1
Low(x, i, j, k) ==
    x = <<i, j, k>> /\ i \in Slots /\ j \in Words /\ k \in Words /\ i >= N_ADDRS_1 + N_ADDRS_2

LEMMA PlaceCases ==
    ASSUME NEW x \in Places
    PROVE  (\E i : Top(x, i)) \/ (\E i, j : Mid(x, i, j)) \/ (\E i, j, k : Low(x, i, j, k))
<1>1. PICK i, j, k : x = <<i, j, k>> /\ i \in Slots /\ j \in Words \cup {End} /\ k \in Words \cup {End}
  BY DEF Places
<1>2. (j # End => i >= N_ADDRS_1) /\ (k # End => j # End /\ i >= N_ADDRS_1 + N_ADDRS_2)
  BY <1>1 DEF Places
<1> QED
  BY <1>1, <1>2 DEF Top, Mid, Low

LEMMA PlaceKinds ==
    /\ \A x, i : Top(x, i) => x \in Places
    /\ \A x, i, j : Mid(x, i, j) => x \in Places
    /\ \A x, i, j, k : Low(x, i, j, k) => x \in Places
<1>1. ASSUME NEW x, NEW i, Top(x, i) PROVE x \in Places
  BY <1>1, Sizes DEF Top, Places
<1>2. ASSUME NEW x, NEW i, NEW j, Mid(x, i, j) PROVE x \in Places
  BY <1>2, Sizes DEF Mid, Places
<1>3. ASSUME NEW x, NEW i, NEW j, NEW k, Low(x, i, j, k) PROVE x \in Places
  BY <1>3, Sizes DEF Low, Places
<1> QED
  BY <1>1, <1>2, <1>3

\* A place whose block is never a table.
Leaf(x) == x[3] # End \/ (x[2] # End /\ x[1] < N_ADDRS_1 + N_ADDRS_2) \/ x[1] < N_ADDRS_1

LEMMA PosLeaf ==
    ASSUME NEW n \in Nat, Pos(n)[1] \in Slots
    PROVE  Pos(n) \in Places /\ Leaf(Pos(n))
<1>1. CASE Direct(n, 0)
  <2>1. Top(Pos(n), n) /\ Pos(n)[1] < N_ADDRS_1
    BY <1>1 DEF Direct, Top
  <2> QED
    BY <2>1, PlaceKinds DEF Leaf
<1>2. ASSUME NEW i, NEW j, Indirect(n, i, j, 0) PROVE Pos(n) \in Places /\ Leaf(Pos(n))
  <2>1. Mid(Pos(n), i, j)
    BY <1>2 DEF Indirect, Mid
  <2>2. Leaf(Pos(n))
    BY <1>2, Sizes DEF Indirect, Leaf
  <2> QED
    BY <2>1, <2>2, PlaceKinds
<1>3. ASSUME NEW i, NEW j, NEW k, Double(n, i, j, k, 0) PROVE Pos(n) \in Places /\ Leaf(Pos(n))
  <2>1. Low(Pos(n), i, j, k)
    BY <1>3, Sizes DEF Double, Low
  <2>2. Leaf(Pos(n))
    BY <1>3, Sizes DEF Double, Leaf
  <2> QED
    BY <2>1, <2>2, PlaceKinds
<1> QED
  BY <1>1, <1>2, <1>3, PosForm

\* Two blocks of a file are never looked for at one place.
LEMMA PosInjective ==
    ASSUME NEW n \in Nat, NEW m \in Nat, Pos(n)[1] \in Slots, Pos(n) = Pos(m)
    PROVE  n = m
<1>0. Pos(n)[1] = Pos(m)[1] /\ Pos(n)[2] = Pos(m)[2] /\ Pos(n)[3] = Pos(m)[3]
  OBVIOUS
<1>1. ASSUME NEW a \in Nat
      PROVE  \/ Pos(a)[1] = a /\ Pos(a)[2] = End
             \/ Pos(a)[2] # End /\ Pos(a)[3] = End /\ a = N_ADDRS_1 + (E * (Pos(a)[1] - N_ADDRS_1) + Pos(a)[2])
             \/ Pos(a)[3] # End /\ (Pos(a)[1] \in Slots => Pos(a)[2] # End /\ a = (N_ADDRS_1 + N_ADDRS_2 * E) + Pos(a)[3])
  <2>1. CASE Direct(a, 0)
    BY <2>1 DEF Direct
  <2>2. ASSUME NEW i, NEW j, Indirect(a, i, j, 0)
        PROVE  Pos(a)[2] # End /\ Pos(a)[3] = End /\ a = N_ADDRS_1 + (E * (Pos(a)[1] - N_ADDRS_1) + Pos(a)[2])
    BY <2>2, Sizes DEF Indirect
  <2>3. ASSUME NEW i, NEW j, NEW k, Double(a, i, j, k, 0)
        PROVE  Pos(a)[3] # End /\ (Pos(a)[1] \in Slots => Pos(a)[2] # End /\ a = (N_ADDRS_1 + N_ADDRS_2 * E) + Pos(a)[3])
    BY <2>3, Sizes DEF Double
  <2> QED
    BY <2>1, <2>2, <2>3, PosForm
<1>2. PICK i, j, k : i = Pos(n)[1] /\ j = Pos(n)[2] /\ k = Pos(n)[3] /\ i \in Slots
  OBVIOUS
<1>3. \/ i = n /\ j = End
      \/ j # End /\ k = End /\ n = N_ADDRS_1 + (E * (i - N_ADDRS_1) + j)
      \/ k # End /\ j # End /\ n = (N_ADDRS_1 + N_ADDRS_2 * E) + k
  BY <1>1, <1>2
<1>4. \/ i = m /\ j = End
      \/ j # End /\ k = End /\ m = N_ADDRS_1 + (E * (i - N_ADDRS_1) + j)
      \/ k # End /\ j # End /\ m = (N_ADDRS_1 + N_ADDRS_2 * E) + k
  BY <1>0, <1>1, <1>2
<1> QED
  BY <1>3, <1>4

-----------------------------------------------------------------------------
(***************************************************************************)
(* What a walk of file f keeps.  The other files are as in mem; s holds    *)
(* the walk's own addrs, the contents and the bitmap.                      *)
(***************************************************************************)
AddrsOf(f, s, g) == IF g = f THEN s.addrs ELSE mem[g].addrs
PlaceAt(f, s, g, x) == BlockAt(AddrsOf(f, s, g), s.content, x)

\* Every block stands in one place of one file, and its bit is set.
Apart(f, s) ==
    \A g, h \in exists : \A x, y \in Places :
        /\ PlaceAt(f, s, g, x) # 0 /\ PlaceAt(f, s, g, x) = PlaceAt(f, s, h, y) => g = h /\ x = y
        /\ PlaceAt(f, s, g, x) # 0 => PlaceAt(f, s, g, x) \in s.used

\* Block n of file g is there and holds v.
Holds(f, s, g, n, v) ==
    /\ Pos(n)[1] \in Slots /\ PlaceAt(f, s, g, Pos(n)) # 0
    /\ s.content[PlaceAt(f, s, g, Pos(n))] = [w \in Words |-> v]

LEMMA BlockAtTop ==
    ASSUME NEW a, NEW c, NEW x, NEW i, Top(x, i)
    PROVE  BlockAt(a, c, x) = a[i]
BY DEF Top, BlockAt

LEMMA BlockAtMid ==
    ASSUME NEW a, NEW c, NEW x, NEW i, NEW j, Mid(x, i, j)
    PROVE  BlockAt(a, c, x) = Word(c, a[i], j)
BY Sizes DEF Mid, BlockAt

LEMMA BlockAtLow ==
    ASSUME NEW a, NEW c, NEW x, NEW i, NEW j, NEW k, Low(x, i, j, k)
    PROVE  BlockAt(a, c, x) = Word(c, Word(c, a[i], j), k)
BY Sizes DEF Low, BlockAt

\* Place y is word j of the table at place x.
Under(x, y, j) == \/ x[2] = End /\ y = <<x[1], j, End>> 
                  \/ x[2] # End /\ x[3] = End /\ y = <<x[1], x[2], j>>

LEMMA UnderIs ==
    ASSUME NEW x \in Places, NEW y \in Places, NEW j \in Words, Under(x, y, j)
    PROVE  /\ ~Leaf(x) /\ \A a, c : BlockAt(a, c, y) = Word(c, BlockAt(a, c, x), j)
<1>1. ASSUME NEW i, Top(x, i) PROVE ~Leaf(x) /\ \A a, c : BlockAt(a, c, y) = Word(c, BlockAt(a, c, x), j)
  <2>1. y = <<i, j, End>>
    BY <1>1, Sizes DEF Top, Under
  <2>2. i >= N_ADDRS_1 /\ i \in Slots
    BY <2>1, <1>1, Sizes DEF Places, Top
  <2>3. Mid(y, i, j)
    BY <2>1, <2>2 DEF Mid
  <2>4. ~Leaf(x)
    BY <1>1, <2>2, Sizes DEF Leaf, Top
  <2>5. ASSUME NEW a, NEW c PROVE BlockAt(a, c, y) = Word(c, BlockAt(a, c, x), j)
    <3>1. BlockAt(a, c, y) = Word(c, a[i], j)
      BY <2>3, BlockAtMid
    <3>2. BlockAt(a, c, x) = a[i]
      BY <1>1, BlockAtTop
    <3> QED
      BY <3>1, <3>2
  <2> QED
    BY <2>4, <2>5
<1>2. ASSUME NEW i, NEW k, Mid(x, i, k) PROVE ~Leaf(x) /\ \A a, c : BlockAt(a, c, y) = Word(c, BlockAt(a, c, x), j)
  <2>1. y = <<i, k, j>>
    BY <1>2, Sizes DEF Mid, Under
  <2>2. i >= N_ADDRS_1 + N_ADDRS_2 /\ i \in Slots
    BY <2>1, <1>2, Sizes DEF Places, Mid
  <2>3. Low(y, i, k, j)
    BY <2>1, <2>2, <1>2 DEF Low, Mid
  <2>4. ~Leaf(x)
    BY <1>2, <2>2, Sizes DEF Leaf, Mid
  <2>5. ASSUME NEW a, NEW c PROVE BlockAt(a, c, y) = Word(c, BlockAt(a, c, x), j)
    <3>1. BlockAt(a, c, y) = Word(c, Word(c, a[i], k), j)
      BY <2>3, BlockAtLow
    <3>2. BlockAt(a, c, x) = Word(c, a[i], k)
      BY <1>2, BlockAtMid
    <3> QED
      BY <3>1, <3>2
  <2> QED
    BY <2>4, <2>5
<1>3. ASSUME NEW i, NEW k, NEW l, Low(x, i, k, l) PROVE FALSE
  BY <1>3, Sizes DEF Low, Under
<1> QED
  BY <1>1, <1>2, <1>3, PlaceCases

\* A clear block put where there was none keeps the blocks apart.
LEMMA Grow ==
    ASSUME NEW f \in exists, NEW s, NEW t, NEW b, NEW P \in Places, Apart(f, s),
           b \notin s.used, t.used = s.used \cup {b}, PlaceAt(f, s, f, P) = 0,
           \A g \in exists, x \in Places : PlaceAt(f, t, g, x) = IF g = f /\ x = P THEN b ELSE PlaceAt(f, s, g, x)
    PROVE  Apart(f, t)
<1> SUFFICES ASSUME NEW g \in exists, NEW h \in exists, NEW x \in Places, NEW y \in Places
             PROVE  /\ PlaceAt(f, t, g, x) # 0 /\ PlaceAt(f, t, g, x) = PlaceAt(f, t, h, y) => g = h /\ x = y
                    /\ PlaceAt(f, t, g, x) # 0 => PlaceAt(f, t, g, x) \in t.used
  BY DEF Apart
<1>1. /\ PlaceAt(f, s, g, x) # 0 /\ PlaceAt(f, s, g, x) = PlaceAt(f, s, h, y) => g = h /\ x = y
      /\ PlaceAt(f, s, g, x) # 0 => PlaceAt(f, s, g, x) \in s.used
      /\ PlaceAt(f, s, h, y) # 0 => PlaceAt(f, s, h, y) \in s.used
  BY DEF Apart
<1>2. /\ PlaceAt(f, t, g, x) = IF g = f /\ x = P THEN b ELSE PlaceAt(f, s, g, x)
      /\ PlaceAt(f, t, h, y) = IF h = f /\ y = P THEN b ELSE PlaceAt(f, s, h, y)
  OBVIOUS
<1> QED
  BY <1>1, <1>2

Clean(c, b) == \A w \in Words : c[b][w] = 0

LEMMA RootGrows ==
    ASSUME NEW f \in exists, NEW s \in WalkType, NEW t \in WalkType, NEW i \in Slots, NEW b \in Blocks,
           NEW P, P = <<i, End, End>>,
           s.addrs[i] = 0, t.addrs = [s.addrs EXCEPT ![i] = b], t.content = s.content,
           Leaf(P) \/ Clean(s.content, b),
           NEW g \in exists, NEW x \in Places
    PROVE  PlaceAt(f, t, g, x) = IF g = f /\ x = P THEN b ELSE PlaceAt(f, s, g, x)
<1>0. Top(P, i)
  BY DEF Top
<1>1. CASE g # f
  BY <1>1 DEF PlaceAt, AddrsOf
<1>2. CASE g = f
  <2>a. PICK c, aa, ab : c = s.content /\ aa = s.addrs /\ ab = t.addrs
    OBVIOUS
  <2>0. PlaceAt(f, t, g, x) = BlockAt(ab, c, x) /\ PlaceAt(f, s, g, x) = BlockAt(aa, c, x)
    BY <1>2, <2>a DEF PlaceAt, AddrsOf
  <2>1. /\ aa[i] = 0
        /\ \A l \in Slots : ab[l] = IF l = i THEN b ELSE aa[l]
    BY <2>a DEF WalkType
  <2>2. i \notin 0..(N_ADDRS_1 - 1) => \A w \in Words : Word(c, b, w) = 0
    BY <2>a, Sizes DEF Leaf, Clean, Word
  <2>2a. \A w : Word(c, 0, w) = 0
    BY Sizes DEF Word
  <2>3. ASSUME NEW l, Top(x, l) PROVE PlaceAt(f, t, g, x) = IF g = f /\ x = P THEN b ELSE PlaceAt(f, s, g, x)
    <3>1. PlaceAt(f, t, g, x) = ab[l] /\ PlaceAt(f, s, g, x) = aa[l] /\ l \in Slots
      <4>1. BlockAt(ab, c, x) = ab[l]
        BY <2>3 DEF Top, BlockAt
      <4>2. BlockAt(aa, c, x) = aa[l]
        BY <2>3 DEF Top, BlockAt
      <4> QED
        BY <4>1, <4>2, <2>0, <2>3 DEF Top
    <3>2. (x = P) <=> (l = i)
      BY <2>3 DEF Top
    <3> QED
      BY <1>2, <2>1, <3>1, <3>2
  <2>4. ASSUME NEW l, NEW j, Mid(x, l, j) PROVE PlaceAt(f, t, g, x) = IF g = f /\ x = P THEN b ELSE PlaceAt(f, s, g, x)
    <3>1. PlaceAt(f, t, g, x) = Word(c, ab[l], j) /\ PlaceAt(f, s, g, x) = Word(c, aa[l], j)
      <4>1. BlockAt(ab, c, x) = Word(c, ab[l], j)
        BY <2>4, BlockAtMid
      <4>2. BlockAt(aa, c, x) = Word(c, aa[l], j)
        BY <2>4, BlockAtMid
      <4> QED
        BY <4>1, <4>2, <2>0
    <3>2. l \in Slots /\ j \in Words /\ x # P /\ (l = i => i \notin 0..(N_ADDRS_1 - 1))
      BY <2>4, Sizes DEF Mid
    <3> QED
      BY <2>1, <2>2, <2>2a, <3>1, <3>2
  <2>5. ASSUME NEW l, NEW j, NEW k, Low(x, l, j, k)
        PROVE PlaceAt(f, t, g, x) = IF g = f /\ x = P THEN b ELSE PlaceAt(f, s, g, x)
    <3>1. /\ PlaceAt(f, t, g, x) = Word(c, Word(c, ab[l], j), k)
          /\ PlaceAt(f, s, g, x) = Word(c, Word(c, aa[l], j), k)
      <4>1. BlockAt(ab, c, x) = Word(c, Word(c, ab[l], j), k)
        BY <2>5, BlockAtLow
      <4>2. BlockAt(aa, c, x) = Word(c, Word(c, aa[l], j), k)
        BY <2>5, BlockAtLow
      <4> QED
        BY <4>1, <4>2, <2>0
    <3>2. l \in Slots /\ j \in Words /\ x # P /\ (l = i => i \notin 0..(N_ADDRS_1 - 1))
      BY <2>5, Sizes DEF Low
    <3> QED
      BY <2>1, <2>2, <2>2a, <3>1, <3>2
  <2> QED
    BY <2>3, <2>4, <2>5, PlaceCases
<1> QED
  BY <1>1, <1>2

\* Blocks that are not tables keep their place when the words of tables change.
LEMMA ChildGrows ==
    ASSUME NEW f \in exists, NEW s \in WalkType, NEW t \in WalkType, Apart(f, s),
           NEW P \in Places, NEW Q \in Places, NEW j \in Words, Under(P, Q, j),
           NEW d, d = PlaceAt(f, s, f, P), d \in Blocks,
           NEW b \in Blocks, b \notin s.used,
           s.content[d][j] = 0, t.addrs = s.addrs, t.content = [s.content EXCEPT ![d][j] = b],
           Leaf(Q) \/ Clean(s.content, b),
           NEW g \in exists, NEW x \in Places
    PROVE  PlaceAt(f, t, g, x) = IF g = f /\ x = Q THEN b ELSE PlaceAt(f, s, g, x)
<1>a. PICK c, e, a : c = s.content /\ e = t.content /\ a = AddrsOf(f, s, g)
  OBVIOUS
<1>0. AddrsOf(f, t, g) = a
  BY <1>a DEF AddrsOf
<1>1. PlaceAt(f, t, g, x) = BlockAt(a, e, x) /\ PlaceAt(f, s, g, x) = BlockAt(a, c, x)
  BY <1>0, <1>a DEF PlaceAt
<1>2. d # 0 /\ d \in s.used /\ d # b
  BY Sizes DEF Apart
<1>3. \A y \in Places : BlockAt(a, c, y) = d => g = f /\ y = P
  <2> SUFFICES ASSUME NEW y \in Places, BlockAt(a, c, y) = d PROVE g = f /\ y = P
    OBVIOUS
  <2>1. PlaceAt(f, s, g, y) = d
    BY <1>a DEF PlaceAt
  <2> QED
    BY <1>2, <2>1 DEF Apart
<1>4. \A u, w : u \in Blocks /\ w \in Words => Word(e, u, w) = IF u = d /\ w = j THEN b ELSE Word(c, u, w)
  BY <1>a DEF Word, WalkType
<1>4a. \A u, w : u \notin Blocks => Word(e, u, w) = 0 /\ Word(c, u, w) = 0
  BY DEF Word
<1>5. Word(c, d, j) = 0
  BY <1>a DEF Word
<1>6. ~Leaf(Q) => \A w \in Words : Word(c, b, w) = 0
  BY <1>a DEF Word, Clean
<1>7. \A w : Word(c, 0, w) = 0
  BY Sizes DEF Word
<1>8. ASSUME NEW i, Top(x, i) PROVE PlaceAt(f, t, g, x) = IF g = f /\ x = Q THEN b ELSE PlaceAt(f, s, g, x)
  <2>1. PlaceAt(f, t, g, x) = a[i] /\ PlaceAt(f, s, g, x) = a[i]
    BY <1>1, <1>8, BlockAtTop
  <2>2. x # Q
    BY <1>8, Sizes DEF Top, Under
  <2> QED
    BY <2>1, <2>2
\* The value of a word in the middle, before and after.
<1>9. ASSUME NEW y \in Places, NEW i, NEW l, Mid(y, i, l)
      PROVE  BlockAt(a, e, y) = IF g = f /\ y = Q THEN b ELSE BlockAt(a, c, y)
  <2>1. BlockAt(a, e, y) = Word(e, a[i], l) /\ BlockAt(a, c, y) = Word(c, a[i], l) /\ l \in Words
    BY <1>9, BlockAtMid DEF Mid
  <2>2. PICK z : Top(z, i) /\ z \in Places
    BY <1>9, PlaceKinds DEF Top, Mid
  <2>3. BlockAt(a, c, z) = a[i]
    BY <2>2 DEF Top, BlockAt
  <2>4. a[i] = d => g = f /\ z = P
    BY <1>3, <2>2, <2>3
  <2>5. CASE a[i] = d
    <3>1. g = f /\ P = <<i, End, End>>
      BY <2>2, <2>4, <2>5 DEF Top
    <3>2. Q = <<i, j, End>>
      BY <3>1, Sizes DEF Under
    <3>3. (y = Q) <=> (l = j)
      BY <3>2, <1>9 DEF Mid
    <3> QED
      BY <1>4, <2>1, <2>5, <3>1, <3>3
  <2>6. CASE a[i] # d
    <3>1. ~(g = f /\ y = Q)
      <4>1. SUFFICES ASSUME g = f, y = Q PROVE FALSE
        OBVIOUS
      <4>2. Q = <<i, l, End>> /\ l # End
        BY <4>1, <1>9, Sizes DEF Mid
      <4>3. P[1] = i /\ P[2] = End
        BY <4>2, Sizes DEF Under
      <4>4. P = z
        <5>1. \A m : Top(P, m) => m = i
          BY <4>3 DEF Top
        <5>2. ~ \E m, n : Mid(P, m, n)
          BY <4>3, Sizes DEF Mid
        <5>3. ~ \E m, n, o : Low(P, m, n, o)
          BY <4>3, Sizes DEF Low
        <5>4. Top(P, i)
          BY <5>1, <5>2, <5>3, PlaceCases
        <5> QED
          BY <5>4, <2>2 DEF Top
      <4>5. PlaceAt(f, s, f, P) = a[i]
        BY <4>1, <4>4, <2>3, <1>a DEF PlaceAt
      <4> QED
        BY <4>5, <2>6
    <3>2. Word(e, a[i], l) = Word(c, a[i], l)
      BY <1>4, <1>4a, <2>1, <2>6
    <3> QED
      BY <2>1, <3>1, <3>2
  <2> QED
    BY <2>5, <2>6
<1>10. ASSUME NEW i, NEW l, Mid(x, i, l) PROVE PlaceAt(f, t, g, x) = IF g = f /\ x = Q THEN b ELSE PlaceAt(f, s, g, x)
  BY <1>1, <1>9, <1>10
<1>11. ASSUME NEW i, NEW l, NEW k, Low(x, i, l, k)
       PROVE  PlaceAt(f, t, g, x) = IF g = f /\ x = Q THEN b ELSE PlaceAt(f, s, g, x)
  <2>0. Mid(<<i, l, End>>, i, l)
    BY <1>11, Sizes DEF Low, Mid
  <2>1. PICK z : Mid(z, i, l) /\ z \in Places
    BY <2>0, PlaceKinds
  <2>2. PICK u, v : u = Word(c, a[i], l) /\ v = Word(e, a[i], l)
    OBVIOUS
  <2>3. u = BlockAt(a, c, z) /\ v = BlockAt(a, e, z)
    BY <2>1, <2>2, BlockAtMid
  <2>4. v = IF g = f /\ z = Q THEN b ELSE u
    BY <2>1, <2>3, <1>9
  <2>5. PlaceAt(f, t, g, x) = Word(e, v, k) /\ PlaceAt(f, s, g, x) = Word(c, u, k) /\ k \in Words
    BY <1>1, <1>11, <2>2, BlockAtLow DEF Low
  <2>6. CASE g = f /\ z = Q
    <3>1. ~Leaf(Q) /\ x # Q
      BY <2>6, <2>1, <1>11, Sizes DEF Mid, Low, Leaf
    <3>2. v = b /\ Word(e, b, k) = 0
      BY <2>4, <2>5, <2>6, <3>1, <1>2, <1>4, <1>6
    <3>3. u = 0
      <4>1. Q = <<i, l, End>> /\ l # End
        BY <2>6, <2>1, Sizes DEF Mid
      <4>2. u = Word(c, d, j)
        BY <2>3, <2>6, UnderIs, <1>a DEF PlaceAt
      <4> QED
        BY <4>2, <1>5
    <3> QED
      BY <2>5, <3>1, <3>2, <3>3, <1>7
  <2>7. CASE ~(g = f /\ z = Q) /\ u = d
    <3>1. g = f /\ z = P
      BY <2>7, <2>1, <2>3, <1>3
    <3>2. Q = <<i, l, j>>
      BY <3>1, <2>1, Sizes DEF Mid, Under
    <3>3. (x = Q) <=> (k = j)
      BY <3>2, <1>11 DEF Low
    <3> QED
      BY <2>4, <2>5, <2>7, <3>1, <3>3, <1>4
  <2>8. CASE ~(g = f /\ z = Q) /\ u # d
    <3>1. ~(g = f /\ x = Q)
      <4>1. SUFFICES ASSUME g = f, x = Q PROVE FALSE
        OBVIOUS
      <4>2. Q = <<i, l, k>> /\ k # End
        BY <4>1, <1>11, Sizes DEF Low
      <4>3. P[1] = i /\ P[2] = l /\ P[3] = End /\ l # End
        BY <4>2, <1>11, Sizes DEF Under, Low
      <4>4. P = z
        <5>1. ~ \E m : Top(P, m)
          BY <4>3 DEF Top
        <5>2. \A m, n : Mid(P, m, n) => m = i /\ n = l
          BY <4>3 DEF Mid
        <5>3. ~ \E m, n, o : Low(P, m, n, o)
          BY <4>3, Sizes DEF Low
        <5>4. Mid(P, i, l)
          BY <5>1, <5>2, <5>3, PlaceCases
        <5> QED
          BY <5>4, <2>1 DEF Mid
      <4>5. PlaceAt(f, s, f, P) = u
        BY <4>1, <4>4, <2>3, <1>a DEF PlaceAt
      <4> QED
        BY <4>5, <2>8
    <3>2. Word(e, u, k) = Word(c, u, k)
      BY <1>4, <1>4a, <2>5, <2>8
    <3> QED
      BY <2>4, <2>5, <2>8, <3>1, <3>2
  <2> QED
    BY <2>6, <2>7, <2>8
<1> QED
  BY <1>8, <1>10, <1>11, PlaceCases

\* Data stays where it is while block numbers are added and tables change.
LEMMA HoldsKept ==
    ASSUME NEW f \in exists, NEW s, NEW t, Apart(f, s), NEW g \in exists, NEW n \in Nat, NEW v,
           \A x \in Places : PlaceAt(f, s, g, x) # 0 => PlaceAt(f, t, g, x) = PlaceAt(f, s, g, x),
           \A e : \/ t.content[e] = s.content[e]
                  \/ \E P \in Places : ~Leaf(P) /\ e = PlaceAt(f, s, f, P),
           Holds(f, s, g, n, v)
    PROVE  Holds(f, t, g, n, v)
<1>1. PICK x, e : x = Pos(n) /\ e = PlaceAt(f, s, g, x)
  OBVIOUS
<1>2. x \in Places /\ Leaf(x) /\ e # 0 /\ s.content[e] = [w \in Words |-> v] /\ x[1] \in Slots
  BY <1>1, PosLeaf DEF Holds
<1>3. PlaceAt(f, t, g, x) = e
  BY <1>1, <1>2
<1>4. t.content[e] = s.content[e]
  <2>1. SUFFICES ASSUME NEW P \in Places, ~Leaf(P), e = PlaceAt(f, s, f, P) PROVE FALSE
    OBVIOUS
  <2>2. PlaceAt(f, s, g, x) # 0 /\ PlaceAt(f, s, g, x) = PlaceAt(f, s, f, P)
    BY <2>1, <1>1, <1>2
  <2>3. x = P
    BY <2>2, <1>2 DEF Apart
  <2> QED
    BY <2>1, <2>3, <1>2
<1> QED
  BY <1>1, <1>2, <1>3, <1>4 DEF Holds

\* What was true of the blocks and the data of all files is so after a step
\* of the walk, and the walk found the block at place P.
Kept(f, s, t, P) ==
    /\ t \in WalkType /\ Apart(f, t)
    /\ t.blk = PlaceAt(f, t, f, P) /\ t.blk \in Blocks
    /\ \A g \in exists, n \in Nat, v \in Nat : Holds(f, s, g, n, v) => Holds(f, t, g, n, v)

LEMMA RootKeeps ==
    ASSUME NEW f \in exists, NEW s \in WalkType, Apart(f, s), NEW i \in Nat, NEW t, t = Root(s, i), ~t.bad,
           NEW P, P = <<i, End, End>>,
           Leaf(P) \/ (t.fresh => Clean(t.content, t.blk)), ~s.fresh
    PROVE  P \in Places /\ Kept(f, s, t, P)
<1>1. /\ t \in WalkType /\ i \in Slots /\ t.content = s.content
      /\ t.addrs[i] = t.blk /\ t.blk # 0
      /\ \/ s.addrs[i] # 0 /\ t.addrs = s.addrs /\ t.used = s.used
         \/ /\ s.addrs[i] = 0 /\ t.blk \in Blocks \ s.used
            /\ t.addrs = [s.addrs EXCEPT ![i] = t.blk] /\ t.used = s.used \cup {t.blk} /\ t.fresh = TRUE
  BY RootIs
<1>2. Top(P, i) /\ P \in Places
  BY <1>1, PlaceKinds DEF Top
<1>3. PlaceAt(f, t, f, P) = t.addrs[i] /\ PlaceAt(f, s, f, P) = s.addrs[i]
  BY <1>2 DEF Top, BlockAt, PlaceAt, AddrsOf
<1>4. CASE s.addrs[i] # 0
  <2>1. t.addrs = s.addrs /\ t.used = s.used
    BY <1>1, <1>4
  <2>2. ASSUME NEW g, NEW x PROVE PlaceAt(f, t, g, x) = PlaceAt(f, s, g, x)
    BY <1>1, <2>1 DEF PlaceAt, AddrsOf
  <2>3. Apart(f, t)
    BY <2>1, <2>2 DEF Apart
  <2>4. t.blk \in Blocks
    BY <1>1, <1>2, <1>3, <2>3 DEF Apart, WalkType
  <2>5. ASSUME NEW g \in exists, NEW n \in Nat, NEW v \in Nat, Holds(f, s, g, n, v) PROVE Holds(f, t, g, n, v)
    BY <2>2, <2>5, <1>1 DEF Holds
  <2> QED
    BY <1>1, <1>2, <1>3, <2>3, <2>4, <2>5 DEF Kept
<1>5. CASE s.addrs[i] = 0
  <2>1. PICK b : b = t.blk
    OBVIOUS
  <2>2. /\ b \in Blocks /\ b \notin s.used /\ t.addrs = [s.addrs EXCEPT ![i] = b]
        /\ t.used = s.used \cup {b} /\ t.fresh = TRUE /\ b # 0
    BY <1>1, <1>5, <2>1
  <2>3. Leaf(P) \/ Clean(s.content, b)
    BY <1>1, <2>1, <2>2
  <2>4. ASSUME NEW g \in exists, NEW x \in Places
        PROVE  PlaceAt(f, t, g, x) = IF g = f /\ x = P THEN b ELSE PlaceAt(f, s, g, x)
    BY <1>1, <1>5, <2>2, <2>3, RootGrows
  <2>5. Apart(f, t)
    BY <1>2, <1>3, <1>5, <2>2, <2>4, Grow
  <2>6. ASSUME NEW g \in exists, NEW n \in Nat, NEW v \in Nat, Holds(f, s, g, n, v) PROVE Holds(f, t, g, n, v)
    <3>1. \A x \in Places : PlaceAt(f, s, g, x) # 0 => PlaceAt(f, t, g, x) = PlaceAt(f, s, g, x)
      BY <2>4, <1>3, <1>5
    <3>2. \A e : t.content[e] = s.content[e]
      BY <1>1
    <3> QED
      BY <3>1, <3>2, <2>6, HoldsKept
  <2> QED
    BY <1>1, <1>2, <1>3, <2>1, <2>2, <2>5, <2>6 DEF Kept
<1> QED
  BY <1>4, <1>5

LEMMA ChildKeeps ==
    ASSUME NEW f \in exists, NEW s \in WalkType, Apart(f, s), NEW j \in Words, NEW t, t = Child(s, j), ~t.bad,
           NEW P \in Places, NEW Q \in Places, Under(P, Q, j), s.blk = PlaceAt(f, s, f, P),
           Leaf(Q) \/ (t.fresh => Clean(t.content, t.blk))
    PROVE  Kept(f, s, t, Q)
<1>0. PICK d, b : d = s.blk /\ b = t.blk
  OBVIOUS
<1>1. /\ t \in WalkType /\ t.addrs = s.addrs /\ d \in Blocks
      /\ \/ /\ s.content[d][j] # 0 /\ b = s.content[d][j]
            /\ t.content = s.content /\ t.used = s.used
         \/ /\ s.content[d][j] = 0 /\ b \in Blocks \ s.used
            /\ t.content = [s.content EXCEPT ![d][j] = b]
            /\ t.used = s.used \cup {b} /\ t.fresh = TRUE
  <2>1. s.bad \/ j \in Words
    OBVIOUS
  <2>2. /\ t \in WalkType /\ t.addrs = s.addrs /\ s.blk \in Blocks
        /\ \/ /\ s.content[s.blk][j] # 0 /\ t.blk = s.content[s.blk][j]
              /\ t.content = s.content /\ t.used = s.used
           \/ /\ s.content[s.blk][j] = 0 /\ t.blk \in Blocks \ s.used
              /\ t.content = [s.content EXCEPT ![s.blk][j] = t.blk]
              /\ t.used = s.used \cup {t.blk} /\ t.fresh = TRUE
    <3>1. ChildStep(s, j, t)
      BY <2>1, ChildIs, Zenon
    <3> QED
      BY <3>1 DEF ChildStep
  <2> QED
    BY <1>0, <2>2
<1>2. ~Leaf(P) /\ PlaceAt(f, s, f, Q) = Word(s.content, d, j) /\ PlaceAt(f, s, f, Q) = s.content[d][j]
  BY <1>0, <1>1, UnderIs DEF PlaceAt, Word
<1>3. d # 0 /\ d \in s.used
  BY <1>0, <1>1, Sizes DEF Apart
<1>4. CASE s.content[d][j] # 0
  <2>1. t.content = s.content /\ t.used = s.used /\ b = s.content[d][j] /\ b # 0
    BY <1>1, <1>4
  <2>2. ASSUME NEW g, NEW x PROVE PlaceAt(f, t, g, x) = PlaceAt(f, s, g, x)
    BY <1>1, <2>1 DEF PlaceAt, AddrsOf
  <2>3. Apart(f, t)
    BY <2>1, <2>2 DEF Apart
  <2>4. b = PlaceAt(f, t, f, Q)
    BY <1>2, <2>1, <2>2
  <2>5. b \in Blocks
    BY <1>1, <2>1, <2>3, <2>4 DEF Apart, WalkType
  <2>6. ASSUME NEW g \in exists, NEW n \in Nat, NEW v \in Nat, Holds(f, s, g, n, v) PROVE Holds(f, t, g, n, v)
    BY <2>2, <2>6, <2>1 DEF Holds
  <2> QED
    BY <1>0, <1>1, <2>3, <2>4, <2>5, <2>6 DEF Kept
<1>5. CASE s.content[d][j] = 0
  <2>1. /\ b \in Blocks /\ b \notin s.used /\ t.content = [s.content EXCEPT ![d][j] = b]
        /\ t.used = s.used \cup {b} /\ t.fresh = TRUE
    BY <1>1, <1>5
  <2>2. \A e : e # d => t.content[e] = s.content[e]
    BY <2>1, <1>1 DEF WalkType
  <2>3. Leaf(Q) \/ Clean(s.content, b)
    BY <1>0, <1>3, <2>1, <2>2 DEF Clean
  <2>4. ASSUME NEW g \in exists, NEW x \in Places
        PROVE  PlaceAt(f, t, g, x) = IF g = f /\ x = Q THEN b ELSE PlaceAt(f, s, g, x)
    BY <1>0, <1>1, <1>5, <2>1, <2>3, ChildGrows
  <2>5. PlaceAt(f, s, f, Q) = 0
    BY <1>2, <1>5
  <2>6. Apart(f, t)
    BY <2>1, <2>4, <2>5, Grow
  <2>7. ASSUME NEW g \in exists, NEW n \in Nat, NEW v \in Nat, Holds(f, s, g, n, v) PROVE Holds(f, t, g, n, v)
    <3>1. \A x \in Places : PlaceAt(f, s, g, x) # 0 => PlaceAt(f, t, g, x) = PlaceAt(f, s, g, x)
      BY <2>4, <2>5
    <3>2. \A e : t.content[e] = s.content[e] \/ \E R \in Places : ~Leaf(R) /\ e = PlaceAt(f, s, f, R)
      BY <1>0, <1>2, <2>2
    <3> QED
      BY <3>1, <3>2, <2>7, HoldsKept
  <2>8. b = PlaceAt(f, t, f, Q)
    BY <2>4
  <2> QED
    BY <1>0, <1>1, <2>1, <2>6, <2>7, <2>8 DEF Kept
<1> QED
  BY <1>4, <1>5

\* Panics and dirty tables are not forgotten, and a number in addrs stays.
OnWalk(s, t) ==
    /\ t \in WalkType
    /\ s.bad => t.bad
    /\ ~t.bad => /\ s.dirty => t.dirty
                 /\ \A l \in Slots : s.addrs[l] # 0 => t.addrs[l] = s.addrs[l]

LEMMA OnRoot ==
    ASSUME NEW s \in WalkType, NEW i \in Nat, NEW r, r = Root(s, i)
    PROVE  OnWalk(s, r)
<1>1. r \in WalkType /\ (s.bad => r.bad) /\ r.dirty = s.dirty
  BY RootIs
<1>2. CASE ~r.bad
  <2>1. \/ r.addrs = s.addrs
        \/ s.addrs[i] = 0 /\ r.addrs = [s.addrs EXCEPT ![i] = r.blk]
    BY <1>2, RootIs
  <2>2. \A l \in Slots : s.addrs[l] # 0 => r.addrs[l] = s.addrs[l]
    BY <2>1 DEF WalkType
  <2> QED
    BY <1>1, <1>2, <2>2 DEF OnWalk
<1> QED
  BY <1>1, <1>2 DEF OnWalk

LEMMA OnChild ==
    ASSUME NEW s, NEW r, NEW j, NEW t, OnWalk(s, r), ChildStep(r, j, t)
    PROVE  OnWalk(s, t)
BY DEF OnWalk, ChildStep

LEMMA LocateType ==
    ASSUME NEW s \in WalkType, NEW n \in Nat
    PROVE  OnWalk(s, Locate(s, n))
<1>1. CASE Direct(n, s)
  BY <1>1, OnRoot DEF Direct
<1>2. ASSUME NEW i, NEW j, Indirect(n, i, j, s) PROVE OnWalk(s, Locate(s, n))
  <2>1. PICK r, t : r = Root(s, i) /\ t = Child(r, j)
    OBVIOUS
  <2>2. OnWalk(s, r)
    BY <1>2, <2>1, OnRoot DEF Indirect
  <2>3. ChildStep(r, j, t)
    BY <1>2, <2>1, <2>2, ChildIs DEF Indirect, OnWalk
  <2> QED
    BY <2>1, <2>2, <2>3, <1>2, OnChild DEF Indirect
<1>3. ASSUME NEW i, NEW j, NEW k, Double(n, i, j, k, s) PROVE OnWalk(s, Locate(s, n))
  <2>1. PICK r, t, u : r = Root(s, i) /\ t = Child(r, j) /\ u = Child(t, k)
    OBVIOUS
  <2>2. OnWalk(s, r)
    BY <1>3, <2>1, OnRoot DEF Double
  <2>2a. r.bad \/ j \in Words
    <3>1. ~r.bad => i \in Slots
      BY <1>3, <2>1, RootIs DEF Double
    <3> QED
      BY <3>1, <1>3, Sizes DEF Double
  <2>3. ChildStep(r, j, t)
    BY <2>1, <2>2, <2>2a, ChildIs DEF OnWalk
  <2>4. OnWalk(s, t)
    BY <2>2, <2>3, OnChild
  <2>5. t.bad \/ k \in Words
    BY <1>3 DEF Double
  <2>6. ChildStep(t, k, u)
    BY <2>1, <2>4, <2>5, ChildIs DEF OnWalk
  <2>7. OnWalk(s, u)
    BY <2>4, <2>6, OnChild
  <2> QED
    BY <2>1, <2>7, <1>3 DEF Double
<1> QED
  BY <1>1, <1>2, <1>3, PosForm

LEMMA KeptAgain ==
    ASSUME NEW f, NEW s, NEW t, NEW u, NEW P, NEW Q, Kept(f, s, t, P), Kept(f, t, u, Q)
    PROVE  Kept(f, s, u, Q)
BY DEF Kept

\* inode_locate_block keeps the blocks apart and all data in place, unless a
\* block with old contents became a table.
LEMMA LocateKeeps ==
    ASSUME NEW f \in exists, NEW s \in WalkType, Apart(f, s), ~s.fresh, NEW n \in Nat,
           NEW t, t = Locate(s, n), ~t.bad, ~t.dirty
    PROVE  Pos(n)[1] \in Slots /\ Kept(f, s, t, Pos(n))
<1>1. CASE Direct(n, s)
  <2>1. Pos(n) = <<n, End, End>> /\ t = Root(s, n) /\ Leaf(Pos(n))
    BY <1>1 DEF Direct, Leaf
  <2>2. Pos(n) \in Places /\ Kept(f, s, t, Pos(n))
    BY <2>1, RootKeeps
  <2> QED
    BY <2>2 DEF Places
<1>2. ASSUME NEW i, NEW j, Indirect(n, i, j, s) PROVE Pos(n)[1] \in Slots /\ Kept(f, s, t, Pos(n))
  <2>1. PICK r, P, Q : r = Root(s, i) /\ P = <<i, End, End>> /\ Q = <<i, j, End>>
    OBVIOUS
  <2>2. t = Child(r, j) /\ i \in Nat /\ j \in Words /\ Q = Pos(n)
    BY <1>2, <2>1 DEF Indirect
  <2>3. r \in WalkType
    BY <2>1, <2>2, RootIs
  <2>4. ChildStep(r, j, t)
    BY <2>2, <2>3, ChildIs
  <2>5. ~r.bad /\ (r.fresh => Clean(r.content, r.blk))
    BY <2>4 DEF ChildStep, Clean
  <2>6. P \in Places /\ Kept(f, s, r, P)
    BY <2>1, <2>2, <2>5, RootKeeps
  <2>7. i \in Slots
    BY <2>1, <2>6 DEF Places
  <2>8. Q \in Places /\ Leaf(Q)
    BY <2>1, <2>2, <2>7, PosLeaf
  <2>9. Under(P, Q, j)
    BY <2>1 DEF Under
  <2>10. Kept(f, r, t, Q)
    BY <2>2, <2>3, <2>5, <2>6, <2>8, <2>9, ChildKeeps DEF Kept
  <2> QED
    BY <2>1, <2>2, <2>6, <2>7, <2>10, KeptAgain
<1>3. ASSUME NEW i, NEW j, NEW k, Double(n, i, j, k, s) PROVE Pos(n)[1] \in Slots /\ Kept(f, s, t, Pos(n))
  <2>1. PICK r, q, P, Q, R : /\ r = Root(s, i) /\ q = Child(r, j)
                             /\ P = <<i, End, End>> /\ Q = <<i, j, End>> /\ R = <<i, j, k>>
    OBVIOUS
  <2>2. t = Child(q, k) /\ i \in Nat /\ k \in Words /\ R = Pos(n) /\ i >= N_ADDRS_1 + N_ADDRS_2
    BY <1>3, <2>1, Sizes DEF Double
  <2>3. r \in WalkType /\ (~r.bad => i \in Slots)
    BY <2>1, <2>2, RootIs
  <2>3a. r.bad \/ j \in Words
    BY <1>3, <2>3, Sizes DEF Double
  <2>4. ChildStep(r, j, q)
    BY <2>1, <2>3, <2>3a, ChildIs
  <2>5. q \in WalkType
    BY <2>4 DEF ChildStep
  <2>6. ChildStep(q, k, t)
    BY <2>2, <2>5, ChildIs
  <2>7. ~q.bad /\ ~q.dirty /\ (q.fresh => Clean(q.content, q.blk))
    BY <2>6 DEF ChildStep, Clean
  <2>8. ~r.bad /\ ~r.dirty /\ (r.fresh => Clean(r.content, r.blk))
    BY <2>4, <2>7 DEF ChildStep, Clean
  <2>9. i \in Slots /\ j \in Words
    BY <2>3, <2>3a, <2>8
  <2>10. P \in Places /\ Kept(f, s, r, P)
    BY <2>1, <2>2, <2>8, RootKeeps
  <2>11. Q \in Places /\ R \in Places /\ Leaf(R)
    <3>1. Mid(Q, i, j)
      BY <2>1, <2>2, <2>9, Sizes DEF Mid
    <3> QED
      BY <3>1, <2>1, <2>2, <2>9, PosLeaf, PlaceKinds
  <2>12. Under(P, Q, j) /\ Under(Q, R, k)
    BY <2>1, <2>9, Sizes DEF Under
  <2>13. Kept(f, r, q, Q)
    BY <2>1, <2>3, <2>7, <2>8, <2>9, <2>10, <2>11, <2>12, ChildKeeps DEF Kept
  <2>14. Kept(f, q, t, R)
    BY <2>2, <2>5, <2>11, <2>12, <2>13, ChildKeeps DEF Kept
  <2>15. Kept(f, s, q, Q)
    BY <2>10, <2>13, KeptAgain
  <2>16. Kept(f, s, t, R)
    BY <2>14, <2>15, KeptAgain
  <2> QED
    BY <2>1, <2>2, <2>9, <2>16
<1> QED
  BY <1>1, <1>2, <1>3, PosForm

\* Writing a block of data moves no block number.
LEMMA DataMovesNothing ==
    ASSUME NEW f \in exists, NEW s \in WalkType, Apart(f, s), NEW L \in Places, Leaf(L),
           NEW d, d = PlaceAt(f, s, f, L), d # 0,
           NEW t, t.addrs = s.addrs, \A e : e # d => t.content[e] = s.content[e],
           NEW g \in exists, NEW x \in Places
    PROVE  PlaceAt(f, t, g, x) = PlaceAt(f, s, g, x)
<1>a. PICK c, e, a : c = s.content /\ e = t.content /\ a = AddrsOf(f, s, g)
  OBVIOUS
<1>0. AddrsOf(f, t, g) = a
  BY <1>a DEF AddrsOf
<1>1. PlaceAt(f, t, g, x) = BlockAt(a, e, x) /\ PlaceAt(f, s, g, x) = BlockAt(a, c, x)
  BY <1>0, <1>a DEF PlaceAt
<1>2. ASSUME NEW y \in Places, ~Leaf(y) PROVE BlockAt(a, c, y) # d
  <2>1. PlaceAt(f, s, g, y) = BlockAt(a, c, y)
    BY <1>a DEF PlaceAt
  <2>2. PlaceAt(f, s, g, y) = PlaceAt(f, s, f, L) /\ PlaceAt(f, s, g, y) # 0 => y = L
    BY DEF Apart
  <2> QED
    BY <1>2, <2>1, <2>2
<1>3. \A u, w : u # d => Word(e, u, w) = Word(c, u, w)
  BY <1>a DEF Word
<1>4. ASSUME NEW i, Top(x, i) PROVE BlockAt(a, e, x) = BlockAt(a, c, x)
  BY <1>4 DEF Top, BlockAt
<1>5. ASSUME NEW y \in Places, NEW i, NEW j, Mid(y, i, j)
      PROVE  /\ BlockAt(a, e, y) = BlockAt(a, c, y)
             /\ BlockAt(a, e, y) = Word(e, a[i], j) /\ BlockAt(a, c, y) = Word(c, a[i], j)
  <2>0. Top(<<i, End, End>>, i)
    BY <1>5 DEF Mid, Top
  <2>1. PICK z : Top(z, i) /\ z \in Places
    BY <2>0, PlaceKinds
  <2>2. ~Leaf(z)
    BY <2>1, <1>5, Sizes DEF Mid, Top, Leaf
  <2>3. BlockAt(a, c, z) = a[i]
    BY <2>1 DEF Top, BlockAt
  <2>4. a[i] # d
    BY <2>1, <2>2, <2>3, <1>2
  <2>5. BlockAt(a, e, y) = Word(e, a[i], j)
    BY <1>5, BlockAtMid
  <2>6. BlockAt(a, c, y) = Word(c, a[i], j)
    BY <1>5, BlockAtMid
  <2> QED
    BY <2>4, <2>5, <2>6, <1>3
<1>6. ASSUME NEW i, NEW j, NEW k, Low(x, i, j, k) PROVE BlockAt(a, e, x) = BlockAt(a, c, x)
  <2>0. Mid(<<i, j, End>>, i, j)
    BY <1>6, Sizes DEF Low, Mid
  <2>1. PICK z : Mid(z, i, j) /\ z \in Places
    BY <2>0, PlaceKinds
  <2>2. ~Leaf(z)
    BY <2>1, <1>6, Sizes DEF Mid, Low, Leaf
  <2>3. PICK u : u = BlockAt(a, c, z)
    OBVIOUS
  <2>4. u # d
    BY <2>1, <2>2, <2>3, <1>2
  <2>5. u = Word(e, a[i], j) /\ u = Word(c, a[i], j)
    BY <2>1, <2>3, <1>5
  <2>6. BlockAt(a, e, x) = Word(e, Word(e, a[i], j), k)
    BY <1>6, BlockAtLow
  <2>7. BlockAt(a, c, x) = Word(c, Word(c, a[i], j), k)
    BY <1>6, BlockAtLow
  <2> QED
    BY <2>4, <2>5, <2>6, <2>7, <1>3
<1> QED
  BY <1>1, <1>4, <1>5, <1>6, PlaceCases

-----------------------------------------------------------------------------
(***************************************************************************)
(* One round of the loops of inode_read_data and inode_write_data, and the *)
(* whole loop.                                                             *)
(***************************************************************************)
LEMMA StepType ==
    ASSUME NEW s \in WalkType, NEW n \in Nat, NEW v \in Nat, NEW t, t = Step(s, n, v)
    PROVE  OnWalk(s, t)
<1>0. CASE s.bad
  <2>1. t = s
    BY <1>0 DEF Step
  <2> QED
    BY <1>0, <2>1 DEF OnWalk
<1>1. PICK o : o = [s EXCEPT !.fresh = FALSE]
  OBVIOUS
<1>2. o \in WalkType /\ o.bad = s.bad /\ o.dirty = s.dirty /\ o.addrs = s.addrs
  BY <1>1 DEF WalkType
<1>3. PICK r : r = Locate(o, n)
  OBVIOUS
<1>4. OnWalk(s, r) /\ r \in WalkType
  <2>1. o \in WalkType
    BY <1>2
  <2>2. OnWalk(o, r)
    BY <2>1, <1>3, LocateType
  <2> QED
    BY <1>2, <2>2 DEF OnWalk
<1>5. ~s.bad => t = Use(r, v)
  BY <1>1, <1>3 DEF Step
<1>6. CASE ~s.bad /\ (r.bad \/ r.blk \notin Blocks)
  <2>1. (t = r /\ r.bad) \/ (t = Astray(r, "block") /\ "block" \in Outcomes)
    BY <1>5, <1>6 DEF Use, Outcomes
  <2>2. t \in WalkType /\ t.bad
    BY <2>1, <1>4, AstrayIs
  <2> QED
    BY <2>2 DEF OnWalk
<1>7. CASE ~s.bad /\ ~(r.bad \/ r.blk \notin Blocks) /\ v = 0
  BY <1>4, <1>5, <1>7 DEF Use
<1>8. CASE ~s.bad /\ ~(r.bad \/ r.blk \notin Blocks) /\ v # 0
  <2>1. PICK c : c = [r.content EXCEPT ![r.blk] = [w \in Words |-> v]]
    OBVIOUS
  <2>2. t = [r EXCEPT !.content = c]
    BY <1>5, <1>8, <2>1 DEF Use
  <2>3. c \in [Blocks -> [Words -> Nat]]
    BY <2>1, <1>4 DEF WalkType
  <2>4. t \in WalkType /\ t.bad = r.bad /\ t.dirty = r.dirty /\ t.addrs = r.addrs
    BY <2>2, <2>3, <1>4 DEF WalkType
  <2> QED
    BY <2>4, <1>4 DEF OnWalk
<1> QED
  BY <1>0, <1>6, <1>7, <1>8

\* After the round block n of f holds what was written, and the rest what it
\* held before.
StepKept(f, s, t, n, v) ==
    /\ t \in WalkType /\ Apart(f, t)
    /\ v # 0 => Holds(f, t, f, n, v)
    /\ \A g \in exists, m \in Nat, u \in Nat :
           Holds(f, s, g, m, u) /\ ~(v # 0 /\ g = f /\ m = n) => Holds(f, t, g, m, u)

LEMMA StepKeeps ==
    ASSUME NEW f \in exists, NEW s \in WalkType, Apart(f, s), NEW n \in Nat, NEW v \in Nat,
           NEW t, t = Step(s, n, v), ~t.bad, ~t.dirty
    PROVE  StepKept(f, s, t, n, v)
<1>1. PICK o : o = [s EXCEPT !.fresh = FALSE]
  OBVIOUS
<1>2. /\ o \in WalkType /\ ~o.fresh /\ o.addrs = s.addrs /\ o.content = s.content /\ o.used = s.used
  BY <1>1 DEF WalkType
<1>3. ASSUME NEW g, NEW x PROVE PlaceAt(f, o, g, x) = PlaceAt(f, s, g, x)
  BY <1>2 DEF PlaceAt, AddrsOf
<1>4. Apart(f, o)
  BY <1>2, <1>3 DEF Apart
<1>5. ASSUME NEW g, NEW m, NEW u, Holds(f, s, g, m, u) PROVE Holds(f, o, g, m, u)
  BY <1>2, <1>3, <1>5 DEF Holds
<1>6. PICK r : r = Locate(o, n)
  OBVIOUS
<1>6a. r \in WalkType
  BY <1>2, <1>6, LocateType DEF OnWalk
<1>6b. ~s.bad
  BY DEF Step
<1>7. t = Use(r, v) /\ r \in WalkType
  BY <1>1, <1>6, <1>6a, <1>6b DEF Step
<1>8. ~r.bad /\ r.blk \in Blocks
  <2>1. ~r.bad
    BY <1>7 DEF Use
  <2>2. ASSUME r.blk \notin Blocks PROVE FALSE
    <3>1. t = Astray(r, "block") /\ "block" \in Outcomes
      BY <1>7, <2>1, <2>2 DEF Use, Outcomes
    <3> QED
      BY <1>7, <3>1, AstrayIs
  <2> QED
    BY <2>1, <2>2
<1>9. ~r.dirty
  BY <1>7, <1>8 DEF Use, WalkType
<1>10. Pos(n)[1] \in Slots /\ Kept(f, o, r, Pos(n))
  BY <1>2, <1>4, <1>6, <1>8, <1>9, LocateKeeps
<1>11. PICK L : L = Pos(n) /\ L \in Places /\ Leaf(L)
  BY <1>10, PosLeaf
<1>12. CASE v = 0
  <2>1. t = r
    BY <1>7, <1>8, <1>12 DEF Use
  <2> QED
    BY <2>1, <1>5, <1>10, <1>12 DEF Kept, StepKept
<1>13. CASE v # 0
  <2>1. PICK c, d : d = r.blk /\ c = [r.content EXCEPT ![d] = [w \in Words |-> v]]
    OBVIOUS
  <2>2. t = [r EXCEPT !.content = c]
    BY <1>7, <1>8, <1>13, <2>1 DEF Use
  <2>3. t.addrs = r.addrs /\ t.content = c /\ t.used = r.used
    BY <2>2, <1>7 DEF WalkType
  <2>4. d \in Blocks /\ d # 0 /\ d = PlaceAt(f, r, f, L) /\ Apart(f, r)
    BY <1>8, <1>10, <1>11, <2>1, Sizes DEF Kept
  <2>5. \A e : e # d => t.content[e] = r.content[e]
    BY <1>7, <2>1, <2>3, <2>4 DEF WalkType
  <2>6. t.content[d] = [w \in Words |-> v]
    BY <1>7, <2>1, <2>3, <2>4 DEF WalkType
  <2>7. ASSUME NEW g \in exists, NEW x \in Places PROVE PlaceAt(f, t, g, x) = PlaceAt(f, r, g, x)
    BY <1>7, <1>11, <2>3, <2>4, <2>5, DataMovesNothing
  <2>8. Apart(f, t)
    BY <2>3, <2>4, <2>7 DEF Apart
  <2>9. Holds(f, t, f, n, v)
    BY <1>10, <1>11, <2>4, <2>6, <2>7 DEF Holds
  <2>10. ASSUME NEW g \in exists, NEW m \in Nat, NEW u \in Nat, Holds(f, s, g, m, u), ~(g = f /\ m = n)
         PROVE  Holds(f, t, g, m, u)
    <3>1. Holds(f, r, g, m, u)
      BY <1>5, <1>10, <2>10 DEF Kept
    <3>2. PICK y, e : y = Pos(m) /\ e = PlaceAt(f, r, g, y)
      OBVIOUS
    <3>3. y[1] \in Slots /\ y \in Places /\ e # 0 /\ r.content[e] = [w \in Words |-> u]
      BY <3>1, <3>2, PosLeaf DEF Holds
    <3>4. ~(g = f /\ y = L)
      BY <2>10, <1>10, <1>11, <3>2, PosInjective
    <3>5. e # d
      BY <3>2, <3>3, <3>4, <2>4, <1>11 DEF Apart
    <3> QED
      BY <3>2, <3>3, <3>5, <2>5, <2>7 DEF Holds
  <2>11. t \in WalkType
    BY StepType DEF OnWalk
  <2>12. \A g \in exists, m \in Nat, u \in Nat :
             Holds(f, s, g, m, u) /\ ~(v # 0 /\ g = f /\ m = n) => Holds(f, t, g, m, u)
    BY <1>13, <2>10
  <2> QED
    BY <2>8, <2>9, <2>11, <2>12 DEF StepKept
<1> QED
  BY <1>12, <1>13

IsRun(q, a, bn, n, v) ==
    q = [k \in 0..n |-> IF k = 0 THEN Walk(a, content, used) ELSE Step(q[k - 1], bn + (k - 1), v)]

LEMMA RunExists ==
    ASSUME NEW a, NEW bn \in Nat, NEW n \in Nat, NEW v
    PROVE  \E q : IsRun(q, a, bn, n, v)
<1> DEFINE Bad == {m \in Nat : ~ \E q : IsRun(q, a, bn, m, v)}
<1>1. SUFFICES ASSUME Bad # {} PROVE FALSE
  OBVIOUS
<1>2. PICK m \in Bad : \A k \in Bad : m <= k
  BY <1>1, LeastNumber
<1>3. CASE m = 0
  <2>1. IsRun([k \in 0..0 |-> Walk(a, content, used)], a, bn, 0, v)
    BY DEF IsRun
  <2> QED
    BY <2>1, <1>2, <1>3
<1>4. CASE m # 0
  <2>1. m - 1 \in Nat /\ m \in Nat /\ ~(m <= m - 1)
    BY <1>4
  <2>2. PICK q : IsRun(q, a, bn, m - 1, v)
    BY <2>1, <1>2
  <2>3. PICK r : r = [k \in 0..m |-> IF k = m THEN Step(q[m - 1], bn + (m - 1), v) ELSE q[k]]
    OBVIOUS
  <2>4. ASSUME NEW k \in 0..m
        PROVE  r[k] = IF k = 0 THEN Walk(a, content, used) ELSE Step(r[k - 1], bn + (k - 1), v)
    <3>1. CASE k = m
      BY <2>1, <2>3, <3>1
    <3>2. CASE k # m
      <4>1. k \in 0..(m - 1) /\ (k # 0 => k - 1 \in 0..m /\ k - 1 # m)
        BY <2>1, <3>2
      <4>2. r[k] = q[k] /\ (k # 0 => r[k - 1] = q[k - 1])
        BY <4>1, <2>3, <3>2
      <4>3. q[k] = IF k = 0 THEN Walk(a, content, used) ELSE Step(q[k - 1], bn + (k - 1), v)
        BY <4>1, <2>2 DEF IsRun
      <4> QED
        BY <4>2, <4>3
    <3> QED
      BY <3>1, <3>2
  <2>5. IsRun(r, a, bn, m, v)
    BY <2>3, <2>4 DEF IsRun
  <2> QED
    BY <2>5, <1>2
<1> QED
  BY <1>3, <1>4

LEMMA LocateAllIs ==
    ASSUME NEW a, NEW bn \in Nat, NEW n \in Nat, NEW v
    PROVE  \E q : IsRun(q, a, bn, n, v) /\ LocateAll(a, bn, n, v) = q[n]
<1>1. PICK q : q = CHOOSE s : IsRun(s, a, bn, n, v)
  OBVIOUS
<1>2. IsRun(q, a, bn, n, v)
  BY <1>1, RunExists
<1>3. LocateAll(a, bn, n, v) = q[n]
  BY <1>1 DEF LocateAll, IsRun
<1> QED
  BY <1>2, <1>3

\* The whole loop: blocks bn to bn + n - 1 hold what was written.
LoopKept(f, s, t, bn, n, v) ==
    /\ t \in WalkType /\ Apart(f, t)
    /\ v # 0 => \A m \in bn..(bn + (n - 1)) : Holds(f, t, f, m, v)
    /\ \A g \in exists, m \in Nat, u \in Nat :
           Holds(f, s, g, m, u) /\ ~(v # 0 /\ g = f /\ m \in bn..(bn + (n - 1))) => Holds(f, t, g, m, u)

LEMMA LoopStep ==
    ASSUME NEW f \in exists, NEW s, NEW t, NEW r, NEW bn \in Nat, NEW n \in Nat, NEW v \in Nat,
           LoopKept(f, s, t, bn, n, v), StepKept(f, t, r, bn + n, v)
    PROVE  LoopKept(f, s, r, bn, n + 1, v)
<1>0. \A m : m \in bn..(bn + ((n + 1) - 1)) <=> m \in bn..(bn + (n - 1)) \/ m = bn + n
  OBVIOUS
<1>1. ASSUME v # 0, NEW m \in bn..(bn + ((n + 1) - 1)) PROVE Holds(f, r, f, m, v)
  <2>1. CASE m = bn + n
    BY <1>1, <2>1 DEF StepKept
  <2>2. CASE m # bn + n
    <3>1. m \in bn..(bn + (n - 1)) /\ m \in Nat
      BY <1>0, <1>1, <2>2
    <3>2. Holds(f, t, f, m, v)
      BY <1>1, <3>1 DEF LoopKept
    <3> QED
      BY <2>2, <3>1, <3>2 DEF StepKept
  <2> QED
    BY <2>1, <2>2
<1>2. ASSUME NEW g \in exists, NEW m \in Nat, NEW u \in Nat, Holds(f, s, g, m, u),
             ~(v # 0 /\ g = f /\ m \in bn..(bn + ((n + 1) - 1)))
      PROVE  Holds(f, r, g, m, u)
  <2>1. Holds(f, t, g, m, u)
    BY <1>0, <1>2 DEF LoopKept
  <2>2. ~(v # 0 /\ g = f /\ m = bn + n)
    BY <1>0, <1>2
  <2> QED
    BY <2>1, <2>2 DEF StepKept
<1>3. r \in WalkType /\ Apart(f, r)
  BY DEF StepKept
<1> QED
  BY <1>1, <1>2, <1>3 DEF LoopKept

LEMMA Loop ==
    ASSUME DataTypeOK, NEW a \in [Slots -> Nat], NEW bn \in Nat, NEW n \in Nat, NEW v \in Nat,
           NEW s, s = Walk(a, content, used), NEW t, t = LocateAll(a, bn, n, v)
    PROVE  /\ OnWalk(s, t)
           /\ \A f \in exists : Apart(f, s) /\ ~t.bad /\ ~t.dirty => LoopKept(f, s, t, bn, n, v)
<1>1. PICK q : IsRun(q, a, bn, n, v) /\ t = q[n]
  BY LocateAllIs
<1>2. s \in WalkType
  BY Sizes DEF Walk, WalkType, DataTypeOK, Outcomes
<1>3. q[0] = s
  BY <1>1 DEF IsRun
<1>4. \A k \in 0..n : k # 0 => q[k] = Step(q[k - 1], bn + (k - 1), v)
  BY <1>1 DEF IsRun
<1> DEFINE Good(k) ==
        /\ OnWalk(s, q[k])
        /\ \A f \in exists : Apart(f, s) /\ ~q[k].bad /\ ~q[k].dirty => LoopKept(f, s, q[k], bn, k, v)
    Bad == {k \in 0..n : ~Good(k)}
<1>5. Good(0)
  <2>1. OnWalk(s, s)
    BY <1>2 DEF OnWalk
  <2>2. ASSUME NEW f \in exists, Apart(f, s) PROVE LoopKept(f, s, s, bn, 0, v)
    BY <1>2, <2>2 DEF LoopKept
  <2> QED
    BY <1>3, <2>1, <2>2
<1>6. ASSUME NEW k \in 0..n, k # 0, Good(k - 1) PROVE Good(k)
  <2>1. PICK r, w, m : r = q[k - 1] /\ w = q[k] /\ m = k - 1
    OBVIOUS
  <2>2. m \in Nat /\ k = m + 1 /\ w = Step(r, bn + m, v) /\ OnWalk(s, r) /\ bn + m \in Nat
    BY <1>4, <1>6, <2>1
  <2>2a. r \in WalkType
    BY <2>2 DEF OnWalk
  <2>3. OnWalk(r, w)
    BY <2>2, <2>2a, StepType
  <2>4. OnWalk(s, w)
    BY <2>2, <2>3 DEF OnWalk
  <2>5. ASSUME NEW f \in exists, Apart(f, s), ~w.bad, ~w.dirty PROVE LoopKept(f, s, w, bn, k, v)
    <3>1. ~r.bad /\ ~r.dirty
      BY <2>3, <2>5 DEF OnWalk
    <3>2. LoopKept(f, s, r, bn, m, v)
      BY <3>1, <1>6, <2>1, <2>5
    <3>3. StepKept(f, r, w, bn + m, v)
      BY <3>2, <2>2, <2>5, StepKeeps DEF LoopKept
    <3> QED
      BY <3>2, <3>3, <2>2, LoopStep
  <2> QED
    BY <2>1, <2>4, <2>5
<1>7. Bad = {}
  <2>1. SUFFICES ASSUME Bad # {} PROVE FALSE
    OBVIOUS
  <2>2. PICK k \in Bad : \A l \in Bad : k <= l
    <3>1. Bad \in SUBSET Nat
      OBVIOUS
    <3> HIDE DEF Bad
    <3> QED
      BY <2>1, <3>1, LeastNumber
  <2>3. k \in 0..n /\ ~Good(k)
    BY <2>2
  <2> HIDE DEF Good
  <2>4. k # 0
    BY <2>3, <1>5
  <2>5. k - 1 \in 0..n /\ ~(k <= k - 1)
    BY <2>3, <2>4
  <2>6. Good(k - 1)
    BY <2>2, <2>5
  <2> QED
    BY <2>3, <2>4, <2>6, <1>6
<1>8. Good(n)
  BY <1>7
<1> QED
  BY <1>1, <1>8

-----------------------------------------------------------------------------
(***************************************************************************)
(* The inductive invariant.                                                *)
(***************************************************************************)
Block(g, x) == BlockAt(mem[g].addrs, content, x)

BlocksApart ==
    \A g, h \in exists : \A x, y \in Places :
        /\ Block(g, x) # 0 /\ Block(g, x) = Block(h, y) => g = h /\ x = y
        /\ Block(g, x) # 0 => Block(g, x) \in used

DiskBehind == \A g \in exists : \A i \in Slots : disk[g].addrs[i] \in {0, mem[g].addrs[i]}

DataInPlace ==
    \A g \in exists \ lost : \A n \in 0..(MAX_FILE_SIZE - 1) :
        written[g][n] # 0 =>
            /\ Pos(n)[1] \in Slots /\ Block(g, Pos(n)) # 0
            /\ content[Block(g, Pos(n))] = [w \in Words |-> written[g][n]]

FileInv ==
    /\ DataTypeOK
    /\ \A g \in Files \ exists : \A n \in 0..(MAX_FILE_SIZE - 1) : written[g][n] = 0
    /\ Intact => BlocksApart /\ DiskBehind /\ DataInPlace

\* The blocks of a file are numbers.
LEMMA BlockAtType ==
    ASSUME NEW a \in [Slots -> Nat], NEW c \in [Blocks -> [Words -> Nat]], NEW x \in Places
    PROVE  BlockAt(a, c, x) \in Nat
<1>1. \A t : \A j \in Words : Word(c, t, j) \in Nat
  BY DEF Word
<1>2. x[1] \in Slots /\ x[2] \in Words \cup {End} /\ x[3] \in Words \cup {End} /\ (x[3] # End => x[2] # End)
  BY DEF Places
<1> QED
  BY <1>1, <1>2 DEF BlockAt

LEMMA NoBlocks ==
    ASSUME NEW c, NEW x \in Places
    PROVE  BlockAt(NoAddrs, c, x) = 0
<1>1. \A w : Word(c, 0, w) = 0
  BY Sizes DEF Word
<1>2. \A i \in Slots : NoAddrs[i] = 0
  BY DEF NoAddrs
<1> QED
  BY <1>1, <1>2 DEF BlockAt, Places

\* A path from the disk leads where that of the cached inode does, or nowhere.
LEMMA PathBehind ==
    ASSUME NEW a, NEW b, NEW c, \A i \in Slots : a[i] \in {0, b[i]}, NEW x \in Places
    PROVE  BlockAt(a, c, x) \in {0, BlockAt(b, c, x)}
<1>1. \A w : Word(c, 0, w) = 0
  BY Sizes DEF Word
<1>2. x[1] \in Slots
  BY DEF Places
<1>3. CASE a[x[1]] = 0
  BY <1>1, <1>3 DEF BlockAt
<1>4. CASE a[x[1]] = b[x[1]]
  BY <1>4 DEF BlockAt
<1> QED
  BY <1>2, <1>3, <1>4

\* The state of file f as the start of a walk.
LEMMA WalkOf ==
    ASSUME NEW f \in exists, NEW a, NEW s, s = Walk(a, content, used), BlocksApart,
           \A i \in Slots : a[i] \in {0, mem[f].addrs[i]}
    PROVE  /\ Apart(f, s)
           /\ \A g, x : g # f \/ a = mem[f].addrs => PlaceAt(f, s, g, x) = Block(g, x)
<1>1. s.addrs = a /\ s.content = content /\ s.used = used
  BY DEF Walk
<1>2. \A g, x : g # f \/ a = mem[f].addrs => PlaceAt(f, s, g, x) = Block(g, x)
  BY <1>1 DEF PlaceAt, AddrsOf, Block
<1>3. ASSUME NEW x \in Places PROVE PlaceAt(f, s, f, x) \in {0, Block(f, x)}
  BY <1>1, PathBehind DEF PlaceAt, AddrsOf, Block
<1>4. ASSUME NEW g \in exists, NEW x \in Places PROVE PlaceAt(f, s, g, x) \in {0, Block(g, x)}
  BY <1>2, <1>3
<1>5. Apart(f, s)
  <2> SUFFICES ASSUME NEW g \in exists, NEW h \in exists, NEW x \in Places, NEW y \in Places
               PROVE  /\ PlaceAt(f, s, g, x) # 0 /\ PlaceAt(f, s, g, x) = PlaceAt(f, s, h, y) => g = h /\ x = y
                      /\ PlaceAt(f, s, g, x) # 0 => PlaceAt(f, s, g, x) \in s.used
    BY DEF Apart
  <2>1. PlaceAt(f, s, g, x) \in {0, Block(g, x)} /\ PlaceAt(f, s, h, y) \in {0, Block(h, y)}
    BY <1>4
  <2>2. /\ Block(g, x) # 0 /\ Block(g, x) = Block(h, y) => g = h /\ x = y
        /\ Block(g, x) # 0 => Block(g, x) \in used
    BY DEF BlocksApart
  <2> QED
    BY <1>1, <2>1, <2>2
<1> QED
  BY <1>2, <1>5

LEMMA EmptyIs == EmptyInode \in Inode /\ EmptyInode.addrs = NoAddrs
<1>1. 0 \in 0..MAX_FILE_SIZE
  BY Sizes
<1> QED
  BY <1>1, Sizes DEF EmptyInode, Inode

LEMMA InitInv == DataInit => FileInv
<1> SUFFICES ASSUME DataInit PROVE FileInv
  OBVIOUS
<1>1. DataTypeOK
  <2>1. mem \in [Files -> Inode] /\ disk \in [Files -> Inode]
    BY EmptyIs DEF DataInit
  <2>2. content \in [Blocks -> [Words -> Nat]]
    BY DEF DataInit
  <2>3. written \in [Files -> [0..(MAX_FILE_SIZE - 1) -> Vals \cup {0}]]
    BY DEF DataInit
  <2> QED
    BY <2>1, <2>2, <2>3 DEF DataInit, DataTypeOK, Outcomes
<1>2. BlocksApart /\ DiskBehind /\ DataInPlace
  BY DEF DataInit, BlocksApart, DiskBehind, DataInPlace
<1> QED
  BY <1>1, <1>2 DEF DataInit, FileInv

LEMMA MaxOfTwo ==
    ASSUME NEW a \in Nat, NEW b \in Nat
    PROVE  Max({a, b}) \in {a, b}
<1>1. \E x \in {a, b} : \A y \in {a, b} : x >= y
  OBVIOUS
<1> QED
  BY <1>1 DEF Max

LEMMA MinOfTwo ==
    ASSUME NEW a \in Nat, NEW b \in Nat
    PROVE  Min({a, b}) \in {a, b}
<1>1. \E x \in {a, b} : \A y \in {a, b} : x <= y
  OBVIOUS
<1> QED
  BY <1>1 DEF Min

\* The three parts after an operation on f that keeps what files exist.
LEMMA AfterWalk ==
    ASSUME FileInv, NEW f \in exists, NEW t \in WalkType, Apart(f, t), exists' = exists,
           \A g \in exists : mem'[g].addrs = AddrsOf(f, t, g),
           content' = t.content, used' = t.used
    PROVE  BlocksApart' /\ \A g \in exists : \A x : Block(g, x)' = PlaceAt(f, t, g, x)
<1>1. \A g \in exists : \A x : Block(g, x)' = PlaceAt(f, t, g, x)
  BY DEF Block, PlaceAt
<1>2. BlocksApart'
  BY <1>1 DEF BlocksApart, Apart
<1> QED
  BY <1>1, <1>2

-----------------------------------------------------------------------------
(***************************************************************************)
(* The steps.                                                              *)
(***************************************************************************)
LEMMA HaltKeeps ==
    ASSUME FileInv, Intact, NEW t \in WalkType, Halt(t)
    PROVE  FileInv'
<1>1. DataTypeOK'
  BY DEF FileInv, DataTypeOK, Halt, WalkType
<1>2. (BlocksApart /\ DiskBehind /\ DataInPlace)'
  BY DEF FileInv, Halt, BlocksApart, DiskBehind, DataInPlace, Block
<1> QED
  BY <1>1, <1>2 DEF FileInv, Halt

LEMMA CreateKeeps ==
    ASSUME FileInv, NEW f \in Files, inode_create(f)
    PROVE  FileInv'
<1> USE DEF inode_create
<1>1. DataTypeOK'
  BY EmptyIs DEF FileInv, DataTypeOK
<1>2. \A g \in Files' \ exists' : \A n \in 0..(MAX_FILE_SIZE - 1) : written'[g][n] = 0
  BY DEF FileInv
<1>3. BlocksApart /\ DiskBehind /\ DataInPlace
  BY DEF FileInv, Intact
<1>4. ASSUME NEW g \in exists', NEW x \in Places PROVE Block(g, x)' = IF g = f THEN 0 ELSE Block(g, x)
  <2>1. CASE g = f
    <3>1. mem'[f].addrs = NoAddrs
      BY EmptyIs DEF FileInv, DataTypeOK
    <3> QED
      BY <2>1, <3>1, NoBlocks DEF Block
  <2>2. CASE g # f
    BY <2>2 DEF FileInv, DataTypeOK, Block
  <2> QED
    BY <2>1, <2>2
<1>5. BlocksApart'
  <2> SUFFICES ASSUME NEW g \in exists', NEW h \in exists', NEW x \in Places, NEW y \in Places
               PROVE  /\ Block(g, x)' # 0 /\ Block(g, x)' = Block(h, y)' => g = h /\ x = y
                      /\ Block(g, x)' # 0 => Block(g, x)' \in used'
    BY DEF BlocksApart
  <2>1. Block(g, x)' = (IF g = f THEN 0 ELSE Block(g, x)) /\ Block(h, y)' = (IF h = f THEN 0 ELSE Block(h, y))
    BY <1>4
  <2> QED
    BY <2>1, <1>3 DEF BlocksApart
<1>6. DiskBehind'
  <2> SUFFICES ASSUME NEW g \in exists', NEW i \in Slots PROVE disk'[g].addrs[i] \in {0, mem'[g].addrs[i]}
    BY DEF DiskBehind
  <2>1. CASE g = f
    BY <2>1 DEF FileInv, DataTypeOK
  <2>2. CASE g # f
    BY <2>2, <1>3 DEF FileInv, DataTypeOK, DiskBehind
  <2> QED
    BY <2>1, <2>2
<1>7. DataInPlace'
  <2> SUFFICES ASSUME NEW g \in exists' \ lost', NEW n \in 0..(MAX_FILE_SIZE - 1), written'[g][n] # 0
               PROVE  /\ Pos(n)[1] \in Slots /\ Block(g, Pos(n))' # 0
                      /\ content'[Block(g, Pos(n))'] = [w \in Words |-> written'[g][n]]
    BY DEF DataInPlace
  <2>1. g # f /\ g \in exists \ lost
    BY DEF FileInv
  <2>2. /\ Pos(n)[1] \in Slots /\ Block(g, Pos(n)) # 0
        /\ content[Block(g, Pos(n))] = [w \in Words |-> written[g][n]]
    BY <2>1, <1>3 DEF DataInPlace
  <2>3. Pos(n) \in Places
    BY <2>2, PosLeaf
  <2> QED
    BY <2>1, <2>2, <2>3, <1>4
<1> QED
  BY <1>1, <1>2, <1>5, <1>6, <1>7 DEF FileInv

LEMMA DestroyKeeps ==
    ASSUME FileInv, NEW f \in Files, inode_destroy(f)
    PROVE  FileInv'
<1>1. /\ Intact /\ f \in exists /\ exists' = exists \ {f}
      /\ mem' = [mem EXCEPT ![f].addrs = NoAddrs] /\ disk' = [disk EXCEPT ![f] = mem'[f]]
      /\ todo' = [todo EXCEPT ![f] = Reclaimed(mem[f].addrs)] /\ used' = used /\ misfreed' = misfreed
      /\ written' = [written EXCEPT ![f] = [k \in DOMAIN @ |-> 0]]
      /\ lost' = lost \ {f} /\ content' = content /\ halted' = halted /\ dirty' = dirty
  BY DEF inode_destroy
<1>1a. DataTypeOK
  BY DEF FileInv
<1>2. DataTypeOK'
  <2>1. mem[f] \in Inode /\ mem'[f] = [mem[f] EXCEPT !.addrs = NoAddrs]
    BY <1>1, <1>1a DEF DataTypeOK
  <2>2. mem'[f] \in Inode
    BY <2>1, Sizes DEF Inode
  <2>3. mem' = [mem EXCEPT ![f] = mem'[f]]
    BY <1>1, <1>1a, <2>1 DEF DataTypeOK
  <2>4. mem' \in [Files -> Inode] /\ disk' \in [Files -> Inode]
    BY <1>1, <1>1a, <2>2, <2>3 DEF DataTypeOK
  <2>5. written' \in [Files -> [0..(MAX_FILE_SIZE - 1) -> Vals \cup {0}]]
    BY <1>1, <1>1a DEF DataTypeOK
  <2>6. exists' \in SUBSET Files /\ used' \in SUBSET Blocks /\ lost' \in SUBSET Files
    BY <1>1, <1>1a DEF DataTypeOK
  <2>7. Reclaimed(mem[f].addrs) \in SUBSET Nat
    <3>1. mem[f].addrs \in [Slots -> Nat] /\ content \in [Blocks -> [Words -> Nat]]
      BY <1>1a, <2>1 DEF DataTypeOK, Inode
    <3> QED
      BY <3>1, BlockAtType DEF Reclaimed
  <2>8. todo' \in [Files -> SUBSET Nat]
    BY <1>1, <1>1a, <2>7 DEF DataTypeOK
  <2> QED
    BY <1>1, <1>1a, <2>4, <2>5, <2>6, <2>8 DEF DataTypeOK
<1>3. \A g \in Files' \ exists' : \A n \in 0..(MAX_FILE_SIZE - 1) : written'[g][n] = 0
  <2> SUFFICES ASSUME NEW g \in Files \ exists', NEW n \in 0..(MAX_FILE_SIZE - 1) PROVE written'[g][n] = 0
    OBVIOUS
  <2>1. CASE g = f
    BY <2>1, <1>1, <1>1a DEF DataTypeOK
  <2>2. CASE g # f
    BY <2>2, <1>1, <1>1a DEF DataTypeOK, FileInv
  <2> QED
    BY <2>1, <2>2
<1>4. BlocksApart' /\ DiskBehind' /\ DataInPlace'
  <2>1. BlocksApart /\ DiskBehind /\ DataInPlace
    BY <1>1 DEF FileInv, Intact
  <2>2. ASSUME NEW g \in exists'
        PROVE  g # f /\ g \in exists /\ g \in Files /\ mem'[g] = mem[g] /\ disk'[g] = disk[g] /\ written'[g] = written[g]
    BY <1>1, <1>1a, <2>2 DEF DataTypeOK
  <2>3. ASSUME NEW g \in exists', NEW x PROVE Block(g, x)' = Block(g, x)
    BY <1>1, <2>2 DEF Block
  <2>5. BlocksApart'
    <3> SUFFICES ASSUME NEW g \in exists', NEW h \in exists', NEW x \in Places, NEW y \in Places
                 PROVE  /\ Block(g, x)' # 0 /\ Block(g, x)' = Block(h, y)' => g = h /\ x = y
                        /\ Block(g, x)' # 0 => Block(g, x)' \in used'
      BY DEF BlocksApart
    <3>1. g \in exists /\ h \in exists /\ Block(g, x)' = Block(g, x) /\ Block(h, y)' = Block(h, y)
      BY <2>2, <2>3
    <3> QED
      BY <3>1, <2>1, <1>1 DEF BlocksApart
  <2>6. DiskBehind'
    BY <2>1, <2>2 DEF DiskBehind
  <2>7. DataInPlace'
    <3> SUFFICES ASSUME NEW g \in exists' \ lost', NEW n \in 0..(MAX_FILE_SIZE - 1), written'[g][n] # 0
                 PROVE  /\ Pos(n)[1] \in Slots /\ Block(g, Pos(n))' # 0
                        /\ content'[Block(g, Pos(n))'] = [w \in Words |-> written'[g][n]]
      BY DEF DataInPlace
    <3>1. g # f /\ g \in exists \ lost /\ written'[g] = written[g] /\ Block(g, Pos(n))' = Block(g, Pos(n))
      BY <1>1, <2>2, <2>3
    <3>2. /\ Pos(n)[1] \in Slots /\ Block(g, Pos(n)) # 0
          /\ content[Block(g, Pos(n))] = [w \in Words |-> written[g][n]]
      BY <3>1, <2>1 DEF DataInPlace
    <3> QED
      BY <3>1, <3>2, <1>1
  <2> QED
    BY <2>5, <2>6, <2>7
<1> QED
  BY <1>2, <1>3, <1>4 DEF FileInv

\* A bit cleared by data_free is no bit of a block in use, or misfreed says so.
LEMMA FreeKeeps ==
    ASSUME FileInv, NEW f \in Files, NEW b, data_free(f, b)
    PROVE  FileInv'
<1>1. /\ Intact /\ todo' = [todo EXCEPT ![f] = @ \ {b}] /\ used' = used \ Unset(b)
      /\ misfreed' <=> (\E g \in exists : (Below(mem[g].addrs) \cup Below(disk[g].addrs)) \cap Unset(b) # {})
      /\ misfreed' \in BOOLEAN
      /\ UNCHANGED <<exists, mem, disk, content, halted, written, lost, dirty>>
  BY DEF data_free
<1>1a. DataTypeOK /\ BlocksApart /\ DiskBehind /\ DataInPlace
  BY <1>1 DEF FileInv
<1>2. DataTypeOK'
  <2>1. todo' \in [Files -> SUBSET Nat] /\ used' \in SUBSET Blocks
    BY <1>1, <1>1a DEF DataTypeOK
  <2> QED
    BY <1>1, <1>1a, <2>1 DEF DataTypeOK
<1>3. \A g, x : Block(g, x)' = Block(g, x)
  BY <1>1 DEF Block
<1>4. ASSUME Intact' PROVE BlocksApart'
  <2>1. ASSUME NEW g \in exists, NEW x \in Places, Block(g, x) # 0 PROVE Block(g, x) \in used'
    <3>1. Block(g, x) \in Below(mem[g].addrs)
      BY <2>1 DEF Below, Block
    <3>2. Block(g, x) \notin Unset(b)
      BY <3>1, <1>1, <1>4 DEF Intact
    <3>3. Block(g, x) \in used
      BY <1>1a, <2>1 DEF BlocksApart
    <3> QED
      BY <3>2, <3>3, <1>1
  <2> QED
    BY <2>1, <1>1, <1>1a, <1>3 DEF BlocksApart
<1>5. DiskBehind' /\ DataInPlace'
  BY <1>1, <1>1a, <1>3 DEF DiskBehind, DataInPlace
<1> QED
  BY <1>1, <1>2, <1>4, <1>5 DEF FileInv

\* Written back, the disk knows what the cached inode knows.
LEMMA BackKeeps ==
    ASSUME FileInv, NEW f \in Files, inode_rw(f)
    PROVE  FileInv'
<1>1. /\ Intact /\ f \in exists /\ disk' = [disk EXCEPT ![f] = mem[f]]
      /\ UNCHANGED <<exists, mem, used, content, todo, halted, written, lost, misfreed, dirty>>
  BY DEF inode_rw
<1>2. DataTypeOK /\ BlocksApart /\ DiskBehind /\ DataInPlace
  BY <1>1 DEF FileInv
<1>3. DataTypeOK'
  BY <1>1, <1>2 DEF DataTypeOK
<1>4. \A g, x : Block(g, x)' = Block(g, x)
  BY <1>1 DEF Block
<1>5. BlocksApart' /\ DataInPlace'
  BY <1>1, <1>2, <1>4 DEF BlocksApart, DataInPlace
<1>6. DiskBehind'
  <2> SUFFICES ASSUME NEW g \in exists, NEW i \in Slots PROVE disk'[g].addrs[i] \in {0, mem[g].addrs[i]}
    BY <1>1 DEF DiskBehind
  <2>1. CASE g = f
    BY <2>1, <1>1, <1>2 DEF DataTypeOK
  <2>2. CASE g # f
    BY <2>2, <1>1, <1>2 DEF DataTypeOK, DiskBehind
  <2> QED
    BY <2>1, <2>2
<1> QED
  BY <1>1, <1>3, <1>5, <1>6 DEF FileInv

\* What reading, writing and rereading have in common: the cached inode of f
\* is that at the end of a walk which began with addrs a.
Walked(f, a, t, bn, n, v) ==
    /\ exists' = exists /\ misfreed' \in BOOLEAN /\ halted' = halted /\ todo' = todo
    /\ mem' \in [Files -> Inode] /\ disk' \in [Files -> Inode]
    /\ \A g \in Files : g # f => mem'[g] = mem[g] /\ disk'[g] = disk[g] /\ written'[g] = written[g]
    /\ mem'[f].addrs = t.addrs
    /\ \A i \in Slots : disk'[f].addrs[i] \in {0, t.addrs[i]}
    /\ content' = t.content /\ used' = t.used
    /\ dirty' \in BOOLEAN /\ (~dirty' => ~t.dirty)
    /\ written' \in [Files -> [0..(MAX_FILE_SIZE - 1) -> Vals \cup {0}]]
    /\ \A m \in 0..(MAX_FILE_SIZE - 1) :
           written'[f][m] = IF v # 0 /\ m \in bn..(bn + (n - 1)) THEN v ELSE written[f][m]
    /\ lost' \in SUBSET Files /\ lost \subseteq lost'
    /\ f \in lost' \/ a = mem[f].addrs

LEMMA WalkedKeeps ==
    ASSUME FileInv, Intact, NEW f \in exists, NEW a, \A i \in Slots : a[i] \in {0, mem[f].addrs[i]},
           NEW t \in WalkType, NEW s, s = Walk(a, content, used),
           NEW bn \in Nat, NEW n \in Nat, NEW v \in Nat,
           ~t.dirty => LoopKept(f, s, t, bn, n, v),
           Walked(f, a, t, bn, n, v)
    PROVE  FileInv'
<1>0. DataTypeOK /\ f \in Files
  BY DEF FileInv, DataTypeOK
<1>1. DataTypeOK'
  BY <1>0 DEF DataTypeOK, Walked, WalkType
<1>2. \A g \in Files' \ exists' : \A k \in 0..(MAX_FILE_SIZE - 1) : written'[g][k] = 0
  BY <1>0 DEF FileInv, Walked
<1>3. ASSUME ~dirty' PROVE BlocksApart' /\ DiskBehind' /\ DataInPlace'
  <2>1. BlocksApart /\ DiskBehind /\ DataInPlace
    BY DEF FileInv, Intact
  <2>2. LoopKept(f, s, t, bn, n, v)
    BY <1>3 DEF Walked
  <2>3. /\ Apart(f, s)
        /\ \A g, x : g # f \/ a = mem[f].addrs => PlaceAt(f, s, g, x) = Block(g, x)
    BY <2>1, WalkOf
  <2>4. \A g \in exists : mem'[g].addrs = AddrsOf(f, t, g)
    BY <1>0 DEF Walked, AddrsOf, DataTypeOK
  <2>5. exists' = exists /\ content' = t.content /\ used' = t.used
    BY DEF Walked
  <2>6. BlocksApart' /\ \A g \in exists : \A x : Block(g, x)' = PlaceAt(f, t, g, x)
    BY <2>2, <2>4, <2>5, AfterWalk DEF LoopKept
  <2>7. DiskBehind'
    <3> SUFFICES ASSUME NEW g \in exists, NEW i \in Slots PROVE disk'[g].addrs[i] \in {0, mem'[g].addrs[i]}
      BY <2>5 DEF DiskBehind
    <3>1. CASE g = f
      BY <3>1 DEF Walked
    <3>2. CASE g # f
      BY <3>2, <1>0, <2>1 DEF Walked, DiskBehind, DataTypeOK
    <3> QED
      BY <3>1, <3>2
  <2>8. DataInPlace'
    <3> SUFFICES ASSUME NEW g \in exists \ lost', NEW m \in 0..(MAX_FILE_SIZE - 1), written'[g][m] # 0
                 PROVE  /\ Pos(m)[1] \in Slots /\ Block(g, Pos(m))' # 0
                        /\ content'[Block(g, Pos(m))'] = [w \in Words |-> written'[g][m]]
      BY <2>5 DEF DataInPlace
    <3>0. m \in Nat /\ g \in Files /\ g \notin lost
      BY <1>0 DEF DataTypeOK, Walked
    <3>1. PICK u : u = written'[g][m]
      OBVIOUS
    <3>1a. u \in Vals \cup {0}
      BY <3>0, <3>1 DEF Walked
    <3>1b. u \in Nat /\ u # 0
      BY <3>1, <3>1a, FileDataAssumption
    <3>2. Holds(f, t, g, m, u)
      <4>1. CASE g = f /\ v # 0 /\ m \in bn..(bn + (n - 1))
        <5>1. u = v
          BY <3>1, <4>1 DEF Walked
        <5> QED
          BY <4>1, <5>1, <2>2 DEF LoopKept
      <4>2. CASE ~(v # 0 /\ g = f /\ m \in bn..(bn + (n - 1)))
        <5>1. written[g][m] = u
          BY <3>0, <3>1, <4>2 DEF Walked
        <5>2. /\ Pos(m)[1] \in Slots /\ Block(g, Pos(m)) # 0
              /\ content[Block(g, Pos(m))] = [w \in Words |-> u]
          <6>1. g \in exists \ lost /\ written[g][m] # 0
            BY <3>0, <3>1b, <5>1
          <6>2. /\ Pos(m)[1] \in Slots /\ Block(g, Pos(m)) # 0
                /\ content[Block(g, Pos(m))] = [w \in Words |-> written[g][m]]
            BY <6>1, <2>1 DEF DataInPlace
          <6> QED
            BY <6>2, <5>1
        <5>3. g # f \/ a = mem[f].addrs
          BY DEF Walked
        <5>4. PlaceAt(f, s, g, Pos(m)) = Block(g, Pos(m)) /\ s.content = content
          BY <5>3, <2>3 DEF Walk
        <5>5. Holds(f, s, g, m, u)
          BY <5>2, <5>4 DEF Holds
        <5> QED
          BY <5>5, <4>2, <3>0, <3>1b, <2>2 DEF LoopKept
      <4> QED
        BY <4>1, <4>2
    <3>3. Block(g, Pos(m))' = PlaceAt(f, t, g, Pos(m))
      BY <2>6
    <3> QED
      BY <3>1, <3>2, <3>3, <2>5 DEF Holds
  <2> QED
    BY <2>6, <2>7, <2>8
<1> QED
  BY <1>1, <1>2, <1>3 DEF FileInv, Intact

\* The walk of no block.
LEMMA NoWalk ==
    ASSUME DataTypeOK, NEW f \in exists, NEW a \in [Slots -> Nat], NEW s, s = Walk(a, content, used), Apart(f, s),
           NEW bn \in Nat
    PROVE  s \in WalkType /\ LoopKept(f, s, s, bn, 0, 0)
<1>1. s \in WalkType
  BY Sizes DEF Walk, WalkType, DataTypeOK, Outcomes
<1> QED
  BY <1>1 DEF LoopKept

LEMMA LockKeeps ==
    ASSUME FileInv, NEW f \in Files, Intact, f \in exists, Reread(f),
           mem' = [mem EXCEPT ![f] = disk[f]],
           UNCHANGED <<exists, disk, used, content, todo, halted, written, misfreed, dirty>>
    PROVE  FileInv'
<1>1. DataTypeOK /\ BlocksApart /\ DiskBehind
  BY DEF FileInv, Intact
<1>2. PICK a, s : a = disk[f].addrs /\ s = Walk(a, content, used)
  OBVIOUS
<1>3. a \in [Slots -> Nat] /\ \A i \in Slots : a[i] \in {0, mem[f].addrs[i]}
  BY <1>1, <1>2 DEF DataTypeOK, Inode, DiskBehind
<1>4. Apart(f, s)
  BY <1>1, <1>2, <1>3, WalkOf
<1>5. s \in WalkType /\ LoopKept(f, s, s, 0, 0, 0)
  BY <1>1, <1>2, <1>3, <1>4, NoWalk
<1>6. s.addrs = a /\ s.content = content /\ s.used = used /\ s.dirty = FALSE
  BY <1>2 DEF Walk
<1>7. mem' \in [Files -> Inode] /\ mem'[f] = disk[f]
  BY <1>1 DEF DataTypeOK
<1>8. lost' \in SUBSET Files /\ lost \subseteq lost' /\ (f \in lost' \/ a = mem[f].addrs)
  BY <1>1, <1>2 DEF Reread, DataTypeOK
<1>9. Walked(f, a, s, 0, 0, 0)
  BY <1>1, <1>2, <1>6, <1>7, <1>8 DEF Walked, DataTypeOK
<1> QED
  BY <1>2, <1>3, <1>5, <1>9, WalkedKeeps

LEMMA ReadKeeps ==
    ASSUME FileInv, NEW f \in Files, NEW bn \in Nat, NEW n \in Nat, inode_read_data(f, bn, n)
    PROVE  FileInv'
<1>0. Intact /\ f \in exists /\ Reread(f) /\ UNCHANGED <<exists, disk, todo, halted, written>>
  BY DEF inode_read_data
<1>1. DataTypeOK /\ BlocksApart /\ DiskBehind
  BY <1>0 DEF FileInv, Intact
<1>2. CASE bn > disk[f].size
  <2>1. mem' = [mem EXCEPT ![f] = disk[f]] /\ UNCHANGED <<used, content, misfreed, dirty>>
    BY <1>2 DEF inode_read_data
  <2> QED
    BY <1>0, <2>1, LockKeeps
<1>3. CASE ~(bn > disk[f].size)
  <2>1. PICK l, a, s, t : /\ l = ReadLen(f, bn, n) /\ a = disk[f].addrs
                          /\ s = Walk(a, content, used) /\ t = LocateAll(a, bn, l, 0)
    OBVIOUS
  <2>2. /\ ~t.bad /\ mem' = [mem EXCEPT ![f] = [disk[f] EXCEPT !.addrs = t.addrs]]
        /\ used' = t.used /\ content' = t.content /\ (dirty' <=> dirty \/ t.dirty) /\ dirty' \in BOOLEAN
        /\ misfreed' \in BOOLEAN
    BY <1>3, <2>1 DEF inode_read_data, Overtakes
  <2>3. l \in Nat
    <3>1. PICK z : z = disk[f].size /\ z \in Nat /\ bn <= z /\ z - bn \in Nat
      BY <1>1, <1>3 DEF DataTypeOK, Inode
    <3>2. l \in {n, z - bn}
      BY <2>1, <3>1, MinOfTwo DEF ReadLen
    <3> QED
      BY <3>1, <3>2
  <2>4. a \in [Slots -> Nat] /\ \A i \in Slots : a[i] \in {0, mem[f].addrs[i]}
    BY <1>0, <1>1, <2>1 DEF DataTypeOK, Inode, DiskBehind
  <2>5. Apart(f, s)
    BY <1>0, <1>1, <2>1, <2>4, WalkOf
  <2>6. /\ OnWalk(s, t)
        /\ \A h \in exists : Apart(h, s) /\ ~t.bad /\ ~t.dirty => LoopKept(h, s, t, bn, l, 0)
    BY <1>1, <2>1, <2>3, <2>4, Loop
  <2>7. t \in WalkType /\ (~t.dirty => LoopKept(f, s, t, bn, l, 0))
    BY <1>0, <2>2, <2>5, <2>6 DEF OnWalk
  <2>8. \A i \in Slots : a[i] # 0 => t.addrs[i] = a[i]
    BY <2>1, <2>2, <2>6 DEF OnWalk, Walk
  <2>9. mem' \in [Files -> Inode] /\ mem'[f].addrs = t.addrs /\ \A g \in Files : g # f => mem'[g] = mem[g]
    BY <1>1, <2>2, <2>7 DEF DataTypeOK, Inode, WalkType
  <2>10. lost' \in SUBSET Files /\ lost \subseteq lost' /\ (f \in lost' \/ a = mem[f].addrs)
    BY <1>0, <1>1, <2>1 DEF Reread, DataTypeOK
  <2>11. Walked(f, a, t, bn, l, 0)
    <3>1. \A i \in Slots : disk'[f].addrs[i] \in {0, t.addrs[i]}
      BY <1>0, <2>1, <2>8
    <3>2. ~dirty' => ~t.dirty
      BY <2>2
    <3> QED
      BY <1>0, <1>1, <2>2, <2>9, <2>10, <3>1, <3>2 DEF Walked, DataTypeOK
  <2> QED
    BY <1>0, <2>1, <2>3, <2>4, <2>7, <2>11, WalkedKeeps
<1> QED
  BY <1>2, <1>3

LEMMA WriteKeeps ==
    ASSUME FileInv, NEW f \in Files, NEW bn \in Nat, NEW n \in Nat, NEW v \in Vals, inode_write_data(f, bn, n, v)
    PROVE  FileInv'
<1>0. Intact /\ f \in exists /\ bn + n <= MAX_FILE_SIZE /\ UNCHANGED <<exists, todo, halted, lost>>
  BY DEF inode_write_data
<1>0a. v \in Nat /\ v # 0
  BY FileDataAssumption
<1>1. DataTypeOK /\ BlocksApart /\ DiskBehind
  BY <1>0 DEF FileInv, Intact
<1>2. PICK a, s, t : /\ a = mem[f].addrs
                     /\ s = Walk(a, content, used) /\ t = LocateAll(a, bn, n, v)
  OBVIOUS
<1>3. PICK z : z = Max({mem[f].size, bn + n})
  OBVIOUS
<1>4. /\ ~t.bad /\ mem' = [mem EXCEPT ![f] = [addrs |-> t.addrs, size |-> z]]
      /\ disk' = [disk EXCEPT ![f] = WrittenBack(disk[f], t.addrs, bn + n)]
      /\ used' = t.used /\ content' = t.content /\ (dirty' <=> dirty \/ t.dirty) /\ dirty' \in BOOLEAN
      /\ written' = [written EXCEPT ![f] = [k \in DOMAIN @ |-> IF k \in bn..(bn + n - 1) THEN v ELSE @[k]]]
      /\ misfreed' \in BOOLEAN
  BY <1>2, <1>3 DEF inode_write_data, Overtakes
<1>5. a \in [Slots -> Nat] /\ \A i \in Slots : a[i] \in {0, mem[f].addrs[i]}
  BY <1>0, <1>1, <1>2 DEF DataTypeOK, Inode
<1>6. Apart(f, s)
  BY <1>0, <1>1, <1>2, <1>5, WalkOf
<1>7. /\ OnWalk(s, t)
      /\ \A h \in exists : Apart(h, s) /\ ~t.bad /\ ~t.dirty => LoopKept(h, s, t, bn, n, v)
  BY <1>0a, <1>1, <1>2, <1>5, Loop
<1>8. t \in WalkType /\ (~t.dirty => LoopKept(f, s, t, bn, n, v))
  BY <1>0, <1>4, <1>6, <1>7 DEF OnWalk
<1>9. \A i \in Slots : a[i] # 0 => t.addrs[i] = a[i]
  BY <1>2, <1>4, <1>7 DEF OnWalk, Walk
<1>10. z \in 0..MAX_FILE_SIZE
  <2>1. PICK y : y = mem[f].size /\ y \in 0..MAX_FILE_SIZE
    BY <1>1 DEF DataTypeOK, Inode
  <2>2. y \in Nat /\ bn + n \in Nat
    BY <2>1
  <2>3. z \in {y, bn + n}
    BY <1>3, <2>1, <2>2, MaxOfTwo
  <2> QED
    BY <2>1, <2>2, <2>3, <1>0, Sizes
<1>11. [addrs |-> t.addrs, size |-> z] \in Inode
  BY <1>8, <1>10 DEF Inode, WalkType
<1>12. mem' \in [Files -> Inode] /\ mem'[f].addrs = t.addrs /\ \A g \in Files : g # f => mem'[g] = mem[g]
  BY <1>1, <1>4, <1>11 DEF DataTypeOK
<1>13. PICK o : o = WrittenBack(disk[f], t.addrs, bn + n)
  OBVIOUS
<1>14. o \in Inode /\ (o.addrs = t.addrs \/ o = disk[f])
  <2>1. bn + n \in 0..MAX_FILE_SIZE
    BY <1>0, Sizes
  <2> QED
    BY <1>1, <1>8, <1>13, <2>1 DEF WrittenBack, Inode, WalkType, DataTypeOK
<1>15. disk' \in [Files -> Inode] /\ disk'[f] = o /\ \A g \in Files : g # f => disk'[g] = disk[g]
  BY <1>1, <1>4, <1>13, <1>14 DEF DataTypeOK
<1>16. \A i \in Slots : disk'[f].addrs[i] \in {0, t.addrs[i]}
  <2>1. CASE o.addrs = t.addrs
    BY <2>1, <1>15
  <2>2. CASE o = disk[f]
    <3>1. \A i \in Slots : disk[f].addrs[i] \in {0, a[i]}
      BY <1>0, <1>1, <1>2 DEF DiskBehind
    <3> QED
      BY <2>2, <3>1, <1>9, <1>15
  <2> QED
    BY <2>1, <2>2, <1>14
<1>17. /\ written' \in [Files -> [0..(MAX_FILE_SIZE - 1) -> Vals \cup {0}]]
       /\ \A g \in Files : g # f => written'[g] = written[g]
       /\ \A m \in 0..(MAX_FILE_SIZE - 1) :
              written'[f][m] = IF v # 0 /\ m \in bn..(bn + (n - 1)) THEN v ELSE written[f][m]
  <2>1. bn + n - 1 = bn + (n - 1)
    OBVIOUS
  <2>2. PICK y : y = [k \in 0..(MAX_FILE_SIZE - 1) |-> IF k \in bn..(bn + (n - 1)) THEN v ELSE written[f][k]]
    OBVIOUS
  <2>3. y \in [0..(MAX_FILE_SIZE - 1) -> Vals \cup {0}]
    <3> DEFINE K == 0..(MAX_FILE_SIZE - 1)
               J == bn..(bn + (n - 1))
               V == Vals \cup {0}
    <3>1. written[f] \in [K -> V] /\ v \in V
      BY <1>1 DEF DataTypeOK
    <3>2. y = [k \in K |-> IF k \in J THEN v ELSE written[f][k]]
      BY <2>2
    <3> HIDE DEF K, J, V
    <3>3. y \in [K -> V]
      BY <3>1, <3>2
    <3> QED
      BY <3>3 DEF K, V
  <2>4. written' = [written EXCEPT ![f] = y]
    BY <1>1, <1>4, <2>1, <2>2 DEF DataTypeOK
  <2>5. written'[f] = y
    BY <1>1, <2>4 DEF DataTypeOK
  <2>6. \A m \in 0..(MAX_FILE_SIZE - 1) :
            written'[f][m] = IF v # 0 /\ m \in bn..(bn + (n - 1)) THEN v ELSE written[f][m]
    BY <1>0a, <2>2, <2>5
  <2> QED
    BY <1>1, <2>3, <2>4, <2>6 DEF DataTypeOK
<1>18. Walked(f, a, t, bn, n, v)
  <2>1. ~dirty' => ~t.dirty
    BY <1>4
  <2> QED
    BY <1>0, <1>1, <1>2, <1>4, <1>12, <1>15, <1>16, <1>17, <2>1 DEF Walked, DataTypeOK
<1> QED
  BY <1>0, <1>0a, <1>2, <1>5, <1>8, <1>18, WalkedKeeps

\* A read or a write that does not come to its end changes nothing else.
LEMMA ReadHaltKeeps ==
    ASSUME FileInv, NEW f \in Files, NEW bn \in Nat, NEW n \in Nat, inode_read_halt(f, bn, n)
    PROVE  FileInv'
<1>1. PICK l, a, t : /\ l = ReadLen(f, bn, n) /\ a = disk[f].addrs /\ t = LocateAll(a, bn, l, 0)
  OBVIOUS
<1>2. Intact /\ bn <= disk[f].size /\ Halt(t)
  BY <1>1 DEF inode_read_halt
<1>3. DataTypeOK
  BY DEF FileInv
<1>4. l \in Nat
  <2>1. PICK z : z = disk[f].size /\ z \in Nat /\ bn <= z /\ z - bn \in Nat
    BY <1>2, <1>3 DEF DataTypeOK, Inode
  <2>2. l \in {n, z - bn}
    BY <1>1, <2>1, MinOfTwo DEF ReadLen
  <2> QED
    BY <2>1, <2>2
<1>5. a \in [Slots -> Nat]
  BY <1>1, <1>3 DEF DataTypeOK, Inode
<1>6. t \in WalkType
  BY <1>1, <1>3, <1>4, <1>5, Loop DEF OnWalk
<1> QED
  BY <1>2, <1>6, HaltKeeps

LEMMA WriteHaltKeeps ==
    ASSUME FileInv, NEW f \in Files, NEW bn \in Nat, NEW n \in Nat, NEW v \in Vals, inode_write_halt(f, bn, n, v)
    PROVE  FileInv'
<1>1. PICK a, t : a = mem[f].addrs /\ t = LocateAll(a, bn, n, v)
  OBVIOUS
<1>2. Intact /\ Halt(t)
  BY <1>1 DEF inode_write_halt
<1>3. DataTypeOK /\ v \in Nat
  BY FileDataAssumption DEF FileInv
<1>4. a \in [Slots -> Nat]
  BY <1>1, <1>3 DEF DataTypeOK, Inode
<1>5. t \in WalkType
  BY <1>1, <1>3, <1>4, Loop DEF OnWalk
<1> QED
  BY <1>2, <1>5, HaltKeeps

LEMMA StutterKeeps ==
    ASSUME FileInv, UNCHANGED datavars
    PROVE  FileInv'
<1>1. DataTypeOK'
  BY DEF FileInv, DataTypeOK, datavars
<1>2. BlocksApart /\ DiskBehind /\ DataInPlace => (BlocksApart /\ DiskBehind /\ DataInPlace)'
  BY DEF datavars, BlocksApart, DiskBehind, DataInPlace, Block
<1> QED
  BY <1>1, <1>2 DEF FileInv, Intact, datavars

LEMMA NextKeeps ==
    ASSUME FileInv, [DataNext]_datavars
    PROVE  FileInv'
<1>1. CASE UNCHANGED datavars
  BY <1>1, StutterKeeps
<1>2. CASE DataNext
  <2>1. PICK f \in Files :
            \/ inode_create(f) \/ inode_lock(f) \/ inode_rw(f) \/ inode_destroy(f)
            \/ \E b \in todo[f] : data_free(f, b)
            \/ \E bn \in Offsets, n \in 1..MAX_LEN :
                   \/ inode_read_data(f, bn, n) \/ inode_read_halt(f, bn, n)
                   \/ \E v \in Vals : inode_write_data(f, bn, n, v) \/ inode_write_halt(f, bn, n, v)
    BY <1>2 DEF DataNext
  <2>2. CASE inode_create(f)
    BY <2>2, CreateKeeps
  <2>3. CASE inode_lock(f)
    BY <2>3, LockKeeps DEF inode_lock
  <2>4. CASE inode_destroy(f)
    BY <2>4, DestroyKeeps
  <2>4a. CASE inode_rw(f)
    BY <2>4a, BackKeeps
  <2>4b. ASSUME NEW b \in todo[f], data_free(f, b) PROVE FileInv'
    BY <2>4b, FreeKeeps
  <2>5. ASSUME NEW bn \in Offsets, NEW n \in 1..MAX_LEN,
               \/ inode_read_data(f, bn, n) \/ inode_read_halt(f, bn, n)
               \/ \E v \in Vals : inode_write_data(f, bn, n, v) \/ inode_write_halt(f, bn, n, v)
        PROVE  FileInv'
    <3>0. bn \in Nat /\ n \in Nat
      BY FileDataAssumption
    <3>1. CASE inode_read_data(f, bn, n)
      BY <3>0, <3>1, ReadKeeps
    <3>2. CASE inode_read_halt(f, bn, n)
      BY <3>0, <3>2, ReadHaltKeeps
    <3>3. ASSUME NEW v \in Vals, inode_write_data(f, bn, n, v) PROVE FileInv'
      BY <3>0, <3>3, WriteKeeps
    <3>4. ASSUME NEW v \in Vals, inode_write_halt(f, bn, n, v) PROVE FileInv'
      BY <3>0, <3>4, WriteHaltKeeps
    <3> QED
      BY <2>5, <3>1, <3>2, <3>3, <3>4
  <2> QED
    BY <2>1, <2>2, <2>3, <2>4, <2>4a, <2>4b, <2>5
<1> QED
  BY <1>1, <1>2

LEMMA FileInvHolds == DataSpec => []FileInv
<1>1. DataInit => FileInv
  BY InitInv
<1>2. FileInv /\ [DataNext]_datavars => FileInv'
  BY NextKeeps
<1> QED
  BY <1>1, <1>2, PTL DEF DataSpec

\* However reads, writes behind the end, rereads of the inode and the ends of
\* files interleave, a block stands in one place of one file, its bit is set,
\* and the disk knows no block that the cached inode does not: up to the first
\* access of inode_locate_block outside addrs or to no block, the first cleared
\* bit of a block in use and the first table made of a block with contents.
THEOREM FileBlocksExclusive == DataSpec => []Exclusive
<1>1. FileInv => Exclusive
  <2> SUFFICES ASSUME FileInv PROVE Exclusive
    OBVIOUS
  <2>1. DataTypeOK
    BY DEF FileInv
  <2>2. ASSUME Intact, NEW f \in exists, NEW g \in exists, NEW x \in Places, NEW y \in Places
        PROVE  /\ Block(f, x) # 0 /\ Block(f, x) = Block(g, y) => f = g /\ x = y
               /\ Block(f, x) \in used \cup {0}
               /\ BlockAt(disk[f].addrs, content, x) \in {0, Block(f, x)}
    <3>1. BlocksApart /\ DiskBehind
      BY <2>2 DEF FileInv
    <3>2. \A i \in Slots : disk[f].addrs[i] \in {0, mem[f].addrs[i]}
      BY <3>1 DEF DiskBehind
    <3>3. BlockAt(disk[f].addrs, content, x) \in {0, Block(f, x)}
      BY <3>2, PathBehind DEF Block
    <3> QED
      BY <3>1, <3>3 DEF BlocksApart
  <2> QED
    BY <2>1, <2>2 DEF Exclusive, Block
<1> QED
  BY <1>1, FileInvHolds, PTL

\* A block that is there is found, and nothing is allocated on the way.
LEMMA FindsIt ==
    ASSUME DataTypeOK, NEW a \in [Slots -> Nat], NEW n \in Nat, NEW x, x = Pos(n), x[1] \in Slots,
           BlockAt(a, content, x) # 0, NEW t, t = Locate(Walk(a, content, used), n)
    PROVE  ~t.bad /\ t.used = used /\ t.blk = BlockAt(a, content, x)
<1> DEFINE Stands(r, b) == /\ r \in WalkType /\ r.addrs = a /\ r.content = content /\ r.used = used
                           /\ r.blk = b /\ ~r.fresh /\ ~r.bad
<1>0. PICK s : s = Walk(a, content, used)
  OBVIOUS
<1>1. Stands(s, 0)
  <2>1. s \in WalkType
    BY <1>0, Sizes DEF Walk, WalkType, DataTypeOK, Outcomes
  <2> QED
    BY <1>0, <2>1 DEF Walk
<1>2. ASSUME NEW i \in Slots, a[i] # 0 PROVE Stands(Root(s, i), a[i])
  <2>1. Root(s, i) = [s EXCEPT !.blk = a[i]] /\ a[i] \in Nat
    BY <1>1, <1>2 DEF Root
  <2> QED
    BY <1>1, <2>1 DEF WalkType
<1>3. ASSUME NEW b \in Blocks, NEW j \in Words, content[b][j] # 0, NEW r, Stands(r, b)
      PROVE  Stands(Child(r, j), content[b][j])
  <2>1. PICK d : d = Marked(r)
    OBVIOUS
  <2>2. /\ d \in WalkType /\ d.addrs = r.addrs /\ d.content = r.content /\ d.used = r.used
        /\ d.blk = r.blk /\ d.bad = r.bad
    BY <1>3, <2>1 DEF Marked, WalkType
  <2>3. Child(r, j) = [d EXCEPT !.blk = content[b][j], !.fresh = FALSE]
    BY <1>3, <2>1, <2>2 DEF Child
  <2>4. content[b][j] \in Nat
    BY <1>3 DEF DataTypeOK
  <2> QED
    BY <1>3, <2>2, <2>3, <2>4 DEF WalkType
<1>4. \A b, j : Word(content, b, j) # 0 => b \in Blocks /\ Word(content, b, j) = content[b][j]
  BY DEF Word
<1>5. CASE Direct(n, s)
  <2>1. x = <<n, End, End>> /\ t = Root(s, n) /\ n \in Slots
    BY <1>0, <1>5 DEF Direct
  <2>2. BlockAt(a, content, x) = a[n]
    BY <2>1 DEF BlockAt
  <2> QED
    BY <2>1, <2>2, <1>2
<1>6. ASSUME NEW i, NEW j, Indirect(n, i, j, s) PROVE ~t.bad /\ t.used = used /\ t.blk = BlockAt(a, content, x)
  <2>1. x = <<i, j, End>> /\ t = Child(Root(s, i), j) /\ i \in Slots /\ j # End /\ j \in Words
    BY <1>0, <1>6, Sizes DEF Indirect
  <2>2. BlockAt(a, content, x) = Word(content, a[i], j)
    BY <2>1 DEF BlockAt
  <2>3. a[i] \in Blocks /\ content[a[i]][j] # 0 /\ Word(content, a[i], j) = content[a[i]][j]
    BY <2>2, <1>4
  <2>4. Stands(Root(s, i), a[i])
    BY <2>1, <2>3, <1>2, Sizes
  <2>5. Stands(t, content[a[i]][j])
    BY <2>1, <2>3, <2>4, <1>3
  <2> QED
    BY <2>2, <2>3, <2>5
<1>7. ASSUME NEW i, NEW j, NEW k, Double(n, i, j, k, s) PROVE ~t.bad /\ t.used = used /\ t.blk = BlockAt(a, content, x)
  <2>1. x = <<i, j, k>> /\ t = Child(Child(Root(s, i), j), k) /\ i \in Slots /\ j # End /\ k # End /\ j \in Words /\ k \in Words
    BY <1>0, <1>7, Sizes DEF Double
  <2>2. PICK u : u = Word(content, a[i], j) /\ BlockAt(a, content, x) = Word(content, u, k)
    BY <2>1 DEF BlockAt
  <2>3. u \in Blocks /\ content[u][k] # 0 /\ Word(content, u, k) = content[u][k]
    BY <2>2, <1>4
  <2>4. a[i] \in Blocks /\ content[a[i]][j] # 0 /\ u = content[a[i]][j]
    BY <2>2, <2>3, <1>4, Sizes
  <2>5. Stands(Root(s, i), a[i])
    BY <2>1, <2>4, <1>2, Sizes
  <2>6. Stands(Child(Root(s, i), j), u)
    BY <2>1, <2>4, <2>5, <1>3
  <2>7. Stands(t, content[u][k])
    BY <2>1, <2>3, <2>6, <1>3
  <2> QED
    BY <2>2, <2>3, <2>7
<1> QED
  BY <1>5, <1>6, <1>7, PosForm

\* What a program wrote to a block of a file is what the walk of a later read
\* comes to, up to the first of these defects, in a file for which no reread of
\* the inode dropped new block numbers.
THEOREM FilesReadBack == DataSpec => []ReadsBack
<1>1. FileInv => ReadsBack
  <2> DEFINE S(f, n) == Locate(Walk(mem[f].addrs, content, used), n)
  <2>0. SUFFICES ASSUME FileInv, Intact, NEW f \in exists \ lost, NEW n \in DOMAIN written[f],
                        written[f][n] # 0
                 PROVE  Readable(f, n)
    BY DEF ReadsBack
  <2>1. DataTypeOK /\ BlocksApart /\ DataInPlace
    BY <2>0 DEF FileInv
  <2>2a. f \in Files
    BY <2>1 DEF DataTypeOK
  <2>2b. DOMAIN written[f] = 0..(MAX_FILE_SIZE - 1)
    BY <2>1, <2>2a DEF DataTypeOK
  <2>2. n \in 0..(MAX_FILE_SIZE - 1) /\ n \in Nat
    BY <2>2b
  <2>2c. mem[f].addrs \in [Slots -> Nat]
    BY <2>1, <2>2a DEF DataTypeOK, Inode
  <2>s. PICK s : s = S(f, n)
    OBVIOUS
  <2>3. /\ Pos(n)[1] \in Slots /\ Block(f, Pos(n)) # 0
        /\ content[Block(f, Pos(n))] = [w \in Words |-> written[f][n]]
    BY <2>0, <2>1, <2>2 DEF DataInPlace
  <2>4. Pos(n) \in Places
    BY <2>2, <2>3, PosLeaf
  <2>5. Block(f, Pos(n)) \in Blocks
    BY <2>1, <2>3, <2>4 DEF BlocksApart, DataTypeOK
  <2>6. ~s.bad /\ s.used = used /\ s.blk = Block(f, Pos(n))
    BY <2>1, <2>2, <2>2c, <2>3, <2>s, FindsIt DEF Block
  <2> QED
    BY <2>3, <2>5, <2>6, <2>s DEF Readable
<1> QED
  BY <1>1, FileInvHolds, PTL

=============================================================================
