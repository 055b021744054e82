----------------------------- MODULE DirProofs -----------------------------
(***************************************************************************)
(* Theorems about Dir, for any number of processes, slots, inodes, names   *)
(* and system calls: the slots of the inode cache count the references to  *)
(* them, an inode has one slot at most, its links are counted exactly, and *)
(* none stays behind that has neither a link nor a reference.              *)
(*                                                                         *)
(* RefInv is the invariant.  A slot with a number counts exactly its       *)
(* references; one numbered UNUSED counts at least them, since link and    *)
(* chdir of a missing name forget theirs, and the processes that have      *)
(* still to count it down; and which references can be to a slot numbered  *)
(* UNUSED follows from where in its system call a process stands.  A step  *)
(* makes up to seven calls of inode.c, each a function of the file system, *)
(* and is followed call by call through states that no process ever sees.  *)
(*                                                                         *)
(* LinkInv adds the link counts.  The number of links of an inode, on disk *)
(* and in its slot, is that of the entries naming it, its subdirectories   *)
(* and what path_link owes; an inode with none has a slot whose last       *)
(* inode_free ends it; and the entry a path was read from is still there   *)
(* while its directory is locked.                                          *)
(***************************************************************************)
EXTENDS Dir, FiniteSetTheorems, WellFoundedInduction, TLAPS

U == INODE_NUM_UNUSED
FS == [slot : [Slots -> Slot], inode : [Inums -> DiskInode], bits : SUBSET Bits,
       entry : [Inums -> [Names -> Inums \cup {INODE_NUM_UNUSED}]]]

LEMMA Sizes ==
    /\ U \notin Inums /\ U \in Nat /\ Inums \subseteq Nat /\ ROOT \in Inums
    /\ NoSlot \notin Slots /\ 1 \in Slots /\ Slots \subseteq Nat
    /\ \A b \in Bits : b + inode_start \in Inums
    /\ U = INODE_NUM_UNUSED
BY DirAssumption DEF U, INODE_NUM_UNUSED, Inums, ROOT, inode_start, NoSlot, Slots, Bits

LEMMA LeastNumber ==
    ASSUME NEW S \in SUBSET Nat, S # {}
    PROVE  Min(S) \in S
<1> DEFINE R == OpToRel(<, Nat)
<1>1. IsWellFoundedOn(R, Nat)
  BY NatLessThanWellFounded
<1> HIDE DEF R
<1>2. PICK x \in S : \A y \in S : ~ (<<y, x>> \in R)
  BY <1>1, WFMin, Zenon
<1>3. \A y \in Nat : y < x => <<y, x>> \in R
  BY DEF OpToRel, R
<1>4. \A y \in S : x \in Nat /\ y \in Nat /\ ~ (y < x)
  BY <1>2, <1>3
<1>5. x \in S /\ \A y \in S : x <= y
  BY <1>4
<1> QED
  BY <1>5 DEF Min

-----------------------------------------------------------------------------
(***************************************************************************)
(* What the calls of inode.c do to the slots and leave alone.              *)
(***************************************************************************)
\* Everything but the slots.
SameDisk(f, g) == g.inode = f.inode /\ g.bits = f.bits /\ g.entry = f.entry

\* Only slot s differs.
Only(f, g, s) == \A t \in Slots : t # s => g.slot[t] = f.slot[t]

\* A slot is overwritten.
Put(f, s, r) == [f EXCEPT !.slot = [f.slot EXCEPT ![s] = r]]
PutRes(f, s, r, g) == g \in FS /\ SameDisk(f, g) /\ Only(f, g, s) /\ g.slot[s] = r

LEMMA PutSlot ==
    ASSUME NEW f \in FS, NEW s \in Slots, NEW r \in Slot
    PROVE  PutRes(f, s, r, Put(f, s, r))
<1>0. PICK g : g = Put(f, s, r)
  OBVIOUS
<1>1. g.slot = [f.slot EXCEPT ![s] = r] /\ g.inode = f.inode /\ g.bits = f.bits /\ g.entry = f.entry
  BY <1>0 DEF FS, Put
<1>2. f.slot \in [Slots -> Slot]
  BY DEF FS
<1>3. g.slot \in [Slots -> Slot]
  BY <1>1, <1>2
<1>4. g \in FS
  BY <1>0, <1>1, <1>3 DEF FS, Put
<1>5. SameDisk(f, g) /\ Only(f, g, s) /\ g.slot[s] = r
  BY <1>1, <1>2 DEF SameDisk, Only
<1> QED
  BY <1>0, <1>4, <1>5 DEF PutRes

LEMMA GotSlotFacts ==
    ASSUME NEW f \in FS, NEW n, CanGet(f, n)
    PROVE  /\ GotSlot(f, n) \in Slots
           /\ Hits(f, n) # {} => f.slot[GotSlot(f, n)].num = n /\ f.slot[GotSlot(f, n)].ref > 0
           /\ Hits(f, n) = {} => f.slot[GotSlot(f, n)].num = U
<1>1. Slots \subseteq Nat
  BY Sizes
<1>2. Hits(f, n) \in SUBSET Nat /\ Empty(f) \in SUBSET Nat
  BY <1>1 DEF Hits, Empty
<1>3. CASE Hits(f, n) # {}
  <2>1. GotSlot(f, n) \in Hits(f, n)
    BY <1>2, <1>3, LeastNumber DEF GotSlot
  <2> QED
    BY <1>3, <2>1 DEF Hits
<1>4. CASE Hits(f, n) = {}
  <2>1. GotSlot(f, n) \in Empty(f)
    BY <1>2, <1>4, LeastNumber DEF GotSlot, CanGet
  <2> QED
    BY <1>4, <2>1 DEF Empty, U
<1> QED
  BY <1>3, <1>4

GotRes(f, n, g) ==
    LET s == GotSlot(f, n) IN
    /\ g \in FS /\ SameDisk(f, g) /\ Only(f, g, s)
    /\ Hits(f, n) # {} =>
          /\ g.slot[s].num = n /\ g.slot[s].num = f.slot[s].num /\ g.slot[s].ref = f.slot[s].ref + 1
          /\ g.slot[s].valid = f.slot[s].valid /\ g.slot[s].type = f.slot[s].type
          /\ g.slot[s].nlink = f.slot[s].nlink
    /\ Hits(f, n) = {} =>
          f.slot[s].num = U /\ g.slot[s].num = n /\ g.slot[s].ref = 1 /\ g.slot[s].valid = FALSE

LEMMA GotFacts ==
    ASSUME NEW f \in FS, NEW n \in Inums \cup {U}, CanGet(f, n)
    PROVE  GotRes(f, n, Got(f, n))
<1> DEFINE g == Got(f, n)
           s == GotSlot(f, n)
<1>1. s \in Slots /\ (Hits(f, n) # {} => f.slot[s].num = n) /\ (Hits(f, n) = {} => f.slot[s].num = U)
  BY GotSlotFacts
<1>2. f.slot \in [Slots -> Slot] /\ f.slot[s] \in Slot /\ U = INODE_NUM_UNUSED
  BY <1>1, Sizes DEF FS
<1>3. CASE Hits(f, n) # {}
  <2>1. PICK r : r = [f.slot[s] EXCEPT !.ref = @ + 1]
    OBVIOUS
  <2>2. r \in Slot /\ r.num = f.slot[s].num /\ r.ref = f.slot[s].ref + 1
        /\ r.valid = f.slot[s].valid /\ r.type = f.slot[s].type /\ r.nlink = f.slot[s].nlink
    BY <1>2, <2>1 DEF Slot
  <2>3. g = Put(f, s, r)
    BY <1>3, <2>1 DEF Got, Put
  <2>4. g \in FS /\ SameDisk(f, g) /\ Only(f, g, s) /\ g.slot[s] = r
    BY <1>1, <2>2, <2>3, PutSlot DEF PutRes
  <2> QED
    BY <1>1, <1>3, <2>2, <2>4 DEF GotRes
<1>4. CASE Hits(f, n) = {}
  <2>1. PICK r : r = [num |-> n, ref |-> 1, valid |-> FALSE, type |-> "UNUSED", nlink |-> 0]
    OBVIOUS
  <2>2. r \in Slot /\ r.num = n /\ r.ref = 1 /\ r.valid = FALSE
    BY <1>2, <2>1 DEF Slot, Types
  <2>3. g = Put(f, s, r)
    BY <1>4, <2>1 DEF Got, Put
  <2>4. g \in FS /\ SameDisk(f, g) /\ Only(f, g, s) /\ g.slot[s] = r
    BY <1>1, <2>2, <2>3, PutSlot DEF PutRes
  <2> QED
    BY <1>1, <1>4, <2>2, <2>4 DEF GotRes
<1> QED
  BY <1>3, <1>4

\* inode_lock reads the inode into the slot if it was not read.
LockedRes(f, s, g) ==
    /\ g \in FS /\ SameDisk(f, g) /\ Only(f, g, s)
    /\ g.slot[s].num = f.slot[s].num /\ g.slot[s].ref = f.slot[s].ref
    /\ g.slot[s].valid = TRUE
    /\ f.slot[s].valid => g = f
    /\ ~f.slot[s].valid => /\ g.slot[s].type = f.inode[f.slot[s].num].type
                           /\ g.slot[s].nlink = f.inode[f.slot[s].num].nlink

LEMMA LockedFacts ==
    ASSUME NEW f \in FS, NEW s \in Slots, ~BadInode(f, s)
    PROVE  LockedRes(f, s, Locked(f, s))
<1> DEFINE g == Locked(f, s)
<1>1. f.slot \in [Slots -> Slot] /\ f.slot[s] \in Slot /\ f.slot[s].valid \in BOOLEAN
  BY DEF FS, Slot
<1>2. CASE f.slot[s].valid
  <2>1. g = f
    BY <1>2 DEF Locked
  <2> QED
    BY <1>1, <1>2, <2>1 DEF LockedRes, SameDisk, Only
<1>3. CASE ~f.slot[s].valid
  <2>1. PICK i : i = f.inode[f.slot[s].num]
    OBVIOUS
  <2>2. f.slot[s].num \in Inums /\ i \in DiskInode
    BY <1>3, <2>1 DEF BadInode, FS
  <2>3. PICK r : r = [f.slot[s] EXCEPT !.valid = TRUE, !.type = i.type, !.nlink = i.nlink]
    OBVIOUS
  <2>4. r \in Slot /\ r.num = f.slot[s].num /\ r.ref = f.slot[s].ref
        /\ r.valid = TRUE /\ r.type = i.type /\ r.nlink = i.nlink
    BY <1>1, <2>2, <2>3 DEF Slot, DiskInode
  <2>5. g = Put(f, s, r)
    BY <1>1, <1>3, <2>1, <2>3, ZenonT(40) DEF Locked, FS, Put
  <2>6. g \in FS /\ SameDisk(f, g) /\ Only(f, g, s) /\ g.slot[s] = r
    BY <2>4, <2>5, PutSlot DEF PutRes
  <2> QED
    BY <1>3, <2>1, <2>4, <2>6 DEF LockedRes
<1> QED
  BY <1>2, <1>3
\* inode_free: the last reference to an unlinked inode destroys it.
FreedRes(f, s, g) ==
    /\ g \in FS /\ Only(f, g, s)
    /\ ~LastRef(f, s) =>
          /\ SameDisk(f, g)
          /\ g.slot[s].num = f.slot[s].num /\ g.slot[s].ref = f.slot[s].ref - 1
          /\ g.slot[s].valid = f.slot[s].valid /\ g.slot[s].type = f.slot[s].type
          /\ g.slot[s].nlink = f.slot[s].nlink
    /\ LastRef(f, s) =>
          /\ g.slot[s].num = U /\ g.slot[s].ref = f.slot[s].ref /\ g.slot[s].valid = FALSE
          /\ g.inode = [f.inode EXCEPT ![f.slot[s].num] = [type |-> "UNUSED", nlink |-> 0]]
          /\ g.entry = [f.entry EXCEPT ![f.slot[s].num] = NoEntries]

LEMMA FreedFacts ==
    ASSUME NEW f \in FS, NEW s \in Slots, f.slot[s].ref >= 1
    PROVE  FreedRes(f, s, Freed(f, s))
<1> DEFINE g == Freed(f, s)
<1>1. f.slot \in [Slots -> Slot] /\ f.slot[s] \in Slot
  BY DEF FS
<1>2. CASE ~LastRef(f, s)
  <2>1. PICK r : r = [f.slot[s] EXCEPT !.ref = @ - 1]
    OBVIOUS
  <2>2. r \in Slot /\ r.num = f.slot[s].num /\ r.ref = f.slot[s].ref - 1
        /\ r.valid = f.slot[s].valid /\ r.type = f.slot[s].type /\ r.nlink = f.slot[s].nlink
    BY <1>1, <2>1 DEF Slot
  <2>3. g = Put(f, s, r)
    BY <1>2, <2>1 DEF Freed, Put
  <2>4. g \in FS /\ SameDisk(f, g) /\ Only(f, g, s) /\ g.slot[s] = r
    BY <2>2, <2>3, PutSlot DEF PutRes
  <2> QED
    BY <1>2, <2>2, <2>4 DEF FreedRes
<1>3. CASE LastRef(f, s)
  <2>1. PICK n : n = f.slot[s].num
    OBVIOUS
  <2>2. PICK r : r = [f.slot[s] EXCEPT !.num = INODE_NUM_UNUSED, !.valid = FALSE, !.type = "UNUSED"]
    OBVIOUS
  <2>3. r \in Slot /\ r.num = U /\ r.ref = f.slot[s].ref /\ r.valid = FALSE
    BY <1>1, <2>2 DEF Slot, Types, U
  <2>4. PICK iu : iu = [f.inode EXCEPT ![n] = [type |-> "UNUSED", nlink |-> 0]]
    OBVIOUS
  <2>5. PICK en : en = [f.entry EXCEPT ![n] = NoEntries]
    OBVIOUS
  <2>6. PICK bi : bi = f.bits \ {n - inode_bitmap_start}
    OBVIOUS
  <2>7. g = [f EXCEPT !.bits = bi, !.inode = iu, !.entry = en, !.slot = [f.slot EXCEPT ![s] = r]]
    BY <1>3, <2>1, <2>2, <2>4, <2>5, <2>6 DEF Freed
  <2>8. g.slot = [f.slot EXCEPT ![s] = r] /\ g.inode = iu /\ g.entry = en /\ g.bits = bi
    BY <2>7 DEF FS
  <2>9. [type |-> "UNUSED", nlink |-> 0] \in DiskInode
    BY DEF DiskInode, Types
  <2>10. iu \in [Inums -> DiskInode]
    BY <2>4, <2>9 DEF FS
  <2>11. NoEntries \in [Names -> Inums \cup {INODE_NUM_UNUSED}]
    BY DEF NoEntries
  <2>12. en \in [Inums -> [Names -> Inums \cup {INODE_NUM_UNUSED}]]
    BY <2>5, <2>11 DEF FS
  <2>13. bi \in SUBSET Bits
    BY <2>6 DEF FS
  <2>14. g.slot \in [Slots -> Slot] /\ g.slot[s] = r /\ Only(f, g, s)
    BY <1>1, <2>3, <2>8 DEF Only
  <2>15. g \in FS
    <3>1. g = [slot |-> g.slot, inode |-> iu, bits |-> bi, entry |-> en]
      BY <2>7, <2>8 DEF FS
    <3> HIDE DEF g
    <3> QED
      BY <3>1, <2>10, <2>12, <2>13, <2>14 DEF FS
  <2> QED
    BY <1>3, <2>1, <2>3, <2>4, <2>5, <2>8, <2>14, <2>15 DEF FreedRes
<1> QED
  BY <1>2, <1>3

\* A slot keeps its number, its count and whether it was read.
Kept(f, g) ==
    \A t \in Slots :
        g.slot[t].num = f.slot[t].num /\ g.slot[t].ref = f.slot[t].ref /\ g.slot[t].valid = f.slot[t].valid

\* A link more or less in the cache, and the inode written to the disk.
LinkedRes(f, s, k, g) ==
    /\ g \in FS /\ SameDisk(f, g) /\ Only(f, g, s) /\ Kept(f, g)
    /\ g.slot[s].type = f.slot[s].type /\ g.slot[s].nlink = f.slot[s].nlink + k

LEMMA LinkedFacts ==
    ASSUME NEW f \in FS, NEW s \in Slots, NEW k \in Int
    PROVE  LinkedRes(f, s, k, Linked(f, s, k))
<1> DEFINE g == Linked(f, s, k)
<1>1. f.slot \in [Slots -> Slot] /\ f.slot[s] \in Slot
  BY DEF FS
<1>2. PICK r : r = [f.slot[s] EXCEPT !.nlink = @ + k]
  OBVIOUS
<1>3. r \in Slot /\ r.num = f.slot[s].num /\ r.ref = f.slot[s].ref
      /\ r.valid = f.slot[s].valid /\ r.type = f.slot[s].type /\ r.nlink = f.slot[s].nlink + k
  BY <1>1, <1>2 DEF Slot
<1>4. g = Put(f, s, r)
  BY <1>2 DEF Linked, Put
<1>5. g \in FS /\ SameDisk(f, g) /\ Only(f, g, s) /\ g.slot[s] = r
  BY <1>3, <1>4, PutSlot DEF PutRes
<1>6. Kept(f, g)
  <2> SUFFICES ASSUME NEW t \in Slots
               PROVE  g.slot[t].num = f.slot[t].num /\ g.slot[t].ref = f.slot[t].ref
                      /\ g.slot[t].valid = f.slot[t].valid
    BY DEF Kept
  <2> HIDE DEF g
  <2> QED
    BY <1>3, <1>5 DEF Only
<1> QED
  BY <1>3, <1>5, <1>6 DEF LinkedRes

WrittenRes(f, s, g) ==
    /\ g \in FS /\ g.slot = f.slot /\ g.bits = f.bits /\ g.entry = f.entry
    /\ g.inode = [f.inode EXCEPT ![f.slot[s].num] = [type |-> f.slot[s].type, nlink |-> f.slot[s].nlink]]

LEMMA WrittenFacts ==
    ASSUME NEW f \in FS, NEW s \in Slots
    PROVE  WrittenRes(f, s, Written(f, s))
<1> DEFINE g == Written(f, s)
<1>1. PICK i : i = [type |-> f.slot[s].type, nlink |-> f.slot[s].nlink]
  OBVIOUS
<1>2. i \in DiskInode
  BY <1>1 DEF FS, Slot, DiskInode
<1>3. PICK iu : iu = [f.inode EXCEPT ![f.slot[s].num] = i]
  OBVIOUS
<1>4. iu \in [Inums -> DiskInode]
  BY <1>2, <1>3 DEF FS
<1>5. g = [f EXCEPT !.inode = iu]
  BY <1>1, <1>3 DEF Written
<1>6. g.slot = f.slot /\ g.inode = iu /\ g.bits = f.bits /\ g.entry = f.entry
  BY <1>5 DEF FS
<1>7. g \in FS
  BY <1>4, <1>5 DEF FS
<1> QED
  BY <1>1, <1>3, <1>6, <1>7 DEF WrittenRes

\* An entry is set or cleared.
SetEntry(f, d, x, n) == [f EXCEPT !.entry[d][x] = n]

SetRes(f, d, x, n, g) ==
    /\ g \in FS /\ g.slot = f.slot /\ g.inode = f.inode /\ g.bits = f.bits
    /\ \A e \in Inums, y \in Names :
          g.entry[e][y] = IF e = d /\ y = x THEN n ELSE f.entry[e][y]

LEMMA SetEntryFacts ==
    ASSUME NEW f \in FS, NEW d \in Inums, NEW x \in Names, NEW n \in Inums \cup {U}
    PROVE  SetRes(f, d, x, n, SetEntry(f, d, x, n))
<1> DEFINE g == SetEntry(f, d, x, n)
<1>1. f.entry \in [Inums -> [Names -> Inums \cup {U}]] /\ f.entry[d] \in [Names -> Inums \cup {U}]
  BY DEF FS, U
<1>2. PICK v : v = [f.entry[d] EXCEPT ![x] = n]
  OBVIOUS
<1>3. v \in [Names -> Inums \cup {U}]
  BY <1>1, <1>2
<1>4. PICK en : en = [f.entry EXCEPT ![d] = v]
  OBVIOUS
<1>5. en \in [Inums -> [Names -> Inums \cup {INODE_NUM_UNUSED}]]
  BY <1>1, <1>3, <1>4 DEF U
<1>6. g = [f EXCEPT !.entry = en]
  BY <1>2, <1>4 DEF SetEntry
<1>7. g.slot = f.slot /\ g.inode = f.inode /\ g.bits = f.bits /\ g.entry = en
  BY <1>6 DEF FS
<1>8. g \in FS
  BY <1>5, <1>6 DEF FS
<1>9. \A e \in Inums, y \in Names : en[e][y] = IF e = d /\ y = x THEN n ELSE f.entry[e][y]
  BY <1>1, <1>2, <1>4
<1> QED
  BY <1>7, <1>8, <1>9 DEF SetRes

-----------------------------------------------------------------------------
(***************************************************************************)
(* Counting references, of processes with files F and jobs J.              *)
(***************************************************************************)
One(b) == IF b THEN 1 ELSE 0

HoldersOf(F, J, s) ==
    Cardinality({p \in Procs : F[p] = s}) + Cardinality({p \in Procs : J[p].ip = s})
    + Cardinality({p \in Procs : J[p].dp = s}) + Cardinality({p \in Procs : J[p].old = s})
    + (IF s = 1 THEN Cardinality(Procs) ELSE 0)
Drops(J, s) == Cardinality({p \in Procs : J[p].drop = s})

\* The references that a process with file x and job j has to slot s.
Mine(x, j, s) == One(x = s) + One(j.ip = s) + One(j.dp = s) + One(j.old = s)

\* Two sets of processes that differ in p at most.
LEMMA OneDiffers ==
    ASSUME NEW S \in SUBSET Procs, NEW T \in SUBSET Procs, NEW p \in Procs,
           \A q \in Procs : q # p => (q \in S <=> q \in T)
    PROVE  /\ Cardinality(S) \in Nat /\ Cardinality(T) \in Nat
           /\ Cardinality(T) + One(p \in S) = Cardinality(S) + One(p \in T)
           /\ p \in S => Cardinality(S) >= 1
<1>1. IsFiniteSet(S) /\ IsFiniteSet(T) /\ IsFiniteSet(S \ {p})
  BY DirAssumption, FS_Subset
<1>2. PICK k : k = Cardinality(S \ {p}) /\ k \in Nat
  BY <1>1, FS_CardinalityType
<1>3. S \ {p} = T \ {p}
  OBVIOUS
<1>4. Cardinality(S) = k + One(p \in S)
  <2>1. CASE p \in S
    <3>1. Cardinality(S) \in Nat /\ Cardinality(S \ {p}) = Cardinality(S) - 1
      BY <1>1, <2>1, FS_RemoveElement, FS_CardinalityType
    <3> QED
      BY <3>1, <1>2, <2>1 DEF One
  <2>2. CASE p \notin S
    <3>1. S \ {p} = S
      BY <2>2
    <3> QED
      BY <3>1, <1>2, <2>2 DEF One
  <2> QED
    BY <2>1, <2>2
<1>5. Cardinality(T) = k + One(p \in T)
  <2>1. CASE p \in T
    <3>1. Cardinality(T) \in Nat /\ Cardinality(T \ {p}) = Cardinality(T) - 1
      BY <1>1, <2>1, FS_RemoveElement, FS_CardinalityType
    <3> QED
      BY <3>1, <1>2, <1>3, <2>1 DEF One
  <2>2. CASE p \notin T
    <3>1. T = S \ {p}
      BY <1>3, <2>2
    <3> QED
      BY <3>1, <1>2, <2>2 DEF One
  <2> QED
    BY <2>1, <2>2
<1> QED
  BY <1>2, <1>4, <1>5 DEF One

\* Nothing but the file and the job of p differs.
OnlyProc(F, J, F2, J2, p) ==
    \A q \in Procs : q # p => F2[q] = F[q] /\ J2[q] = J[q]

LEMMA HoldersType ==
    ASSUME NEW F, NEW J, NEW s
    PROVE  HoldersOf(F, J, s) \in Nat /\ Drops(J, s) \in Nat
<1>1. \A S \in SUBSET Procs : Cardinality(S) \in Nat
  BY DirAssumption, FS_Subset, FS_CardinalityType
<1>2. /\ Cardinality({p \in Procs : F[p] = s}) \in Nat
      /\ Cardinality({p \in Procs : J[p].ip = s}) \in Nat
      /\ Cardinality({p \in Procs : J[p].dp = s}) \in Nat
      /\ Cardinality({p \in Procs : J[p].old = s}) \in Nat
      /\ Cardinality({p \in Procs : J[p].drop = s}) \in Nat
      /\ Cardinality(Procs) \in Nat
  BY <1>1
<1> QED
  BY <1>2 DEF HoldersOf, Drops

LEMMA HoldersChange ==
    ASSUME NEW F, NEW J, NEW F2, NEW J2, NEW p \in Procs, OnlyProc(F, J, F2, J2, p), NEW s
    PROVE  HoldersOf(F2, J2, s) + Mine(F[p], J[p], s) = HoldersOf(F, J, s) + Mine(F2[p], J2[p], s)
<1>1. /\ Cardinality({q \in Procs : F[q] = s}) \in Nat /\ Cardinality({q \in Procs : F2[q] = s}) \in Nat
      /\ Cardinality({q \in Procs : F2[q] = s}) + One(F[p] = s) = Cardinality({q \in Procs : F[q] = s}) + One(F2[p] = s)
  <2> DEFINE S == {q \in Procs : F[q] = s}
             T == {q \in Procs : F2[q] = s}
  <2>1. (p \in S <=> F[p] = s) /\ (p \in T <=> F2[p] = s)
    OBVIOUS
  <2>2. \A q \in Procs : q # p => (q \in S <=> q \in T)
    BY DEF OnlyProc
  <2>3. S \in SUBSET Procs /\ T \in SUBSET Procs
    OBVIOUS
  <2> HIDE DEF S, T
  <2>4. Cardinality(S) \in Nat /\ Cardinality(T) \in Nat /\ Cardinality(T) + One(p \in S) = Cardinality(S) + One(p \in T)
    BY <2>2, <2>3, OneDiffers
  <2> QED
    BY <2>1, <2>4 DEF One, S, T
<1>2. /\ Cardinality({q \in Procs : J[q].ip = s}) \in Nat /\ Cardinality({q \in Procs : J2[q].ip = s}) \in Nat
      /\ Cardinality({q \in Procs : J2[q].ip = s}) + One(J[p].ip = s) = Cardinality({q \in Procs : J[q].ip = s}) + One(J2[p].ip = s)
  <2> DEFINE S == {q \in Procs : J[q].ip = s}
             T == {q \in Procs : J2[q].ip = s}
  <2>1. (p \in S <=> J[p].ip = s) /\ (p \in T <=> J2[p].ip = s)
    OBVIOUS
  <2>2. \A q \in Procs : q # p => (q \in S <=> q \in T)
    BY DEF OnlyProc
  <2>3. S \in SUBSET Procs /\ T \in SUBSET Procs
    OBVIOUS
  <2> HIDE DEF S, T
  <2>4. Cardinality(S) \in Nat /\ Cardinality(T) \in Nat /\ Cardinality(T) + One(p \in S) = Cardinality(S) + One(p \in T)
    BY <2>2, <2>3, OneDiffers
  <2> QED
    BY <2>1, <2>4 DEF One, S, T
<1>3. /\ Cardinality({q \in Procs : J[q].dp = s}) \in Nat /\ Cardinality({q \in Procs : J2[q].dp = s}) \in Nat
      /\ Cardinality({q \in Procs : J2[q].dp = s}) + One(J[p].dp = s) = Cardinality({q \in Procs : J[q].dp = s}) + One(J2[p].dp = s)
  <2> DEFINE S == {q \in Procs : J[q].dp = s}
             T == {q \in Procs : J2[q].dp = s}
  <2>1. (p \in S <=> J[p].dp = s) /\ (p \in T <=> J2[p].dp = s)
    OBVIOUS
  <2>2. \A q \in Procs : q # p => (q \in S <=> q \in T)
    BY DEF OnlyProc
  <2>3. S \in SUBSET Procs /\ T \in SUBSET Procs
    OBVIOUS
  <2> HIDE DEF S, T
  <2>4. Cardinality(S) \in Nat /\ Cardinality(T) \in Nat /\ Cardinality(T) + One(p \in S) = Cardinality(S) + One(p \in T)
    BY <2>2, <2>3, OneDiffers
  <2> QED
    BY <2>1, <2>4 DEF One, S, T
<1>4. /\ Cardinality({q \in Procs : J[q].old = s}) \in Nat /\ Cardinality({q \in Procs : J2[q].old = s}) \in Nat
      /\ Cardinality({q \in Procs : J2[q].old = s}) + One(J[p].old = s) = Cardinality({q \in Procs : J[q].old = s}) + One(J2[p].old = s)
  <2> DEFINE S == {q \in Procs : J[q].old = s}
             T == {q \in Procs : J2[q].old = s}
  <2>1. (p \in S <=> J[p].old = s) /\ (p \in T <=> J2[p].old = s)
    OBVIOUS
  <2>2. \A q \in Procs : q # p => (q \in S <=> q \in T)
    BY DEF OnlyProc
  <2>3. S \in SUBSET Procs /\ T \in SUBSET Procs
    OBVIOUS
  <2> HIDE DEF S, T
  <2>4. Cardinality(S) \in Nat /\ Cardinality(T) \in Nat /\ Cardinality(T) + One(p \in S) = Cardinality(S) + One(p \in T)
    BY <2>2, <2>3, OneDiffers
  <2> QED
    BY <2>1, <2>4 DEF One, S, T
<1>5. PICK r : r = (IF s = 1 THEN Cardinality(Procs) ELSE 0) /\ r \in Nat
  BY DirAssumption, FS_CardinalityType
<1>6. PICK a1, b1, a2, b2, a3, b3, a4, b4 :
          /\ a1 = Cardinality({q \in Procs : F[q] = s}) /\ b1 = Cardinality({q \in Procs : F2[q] = s})
          /\ a2 = Cardinality({q \in Procs : J[q].ip = s}) /\ b2 = Cardinality({q \in Procs : J2[q].ip = s})
          /\ a3 = Cardinality({q \in Procs : J[q].dp = s}) /\ b3 = Cardinality({q \in Procs : J2[q].dp = s})
          /\ a4 = Cardinality({q \in Procs : J[q].old = s}) /\ b4 = Cardinality({q \in Procs : J2[q].old = s})
  OBVIOUS
<1>7. HoldersOf(F, J, s) = a1 + a2 + a3 + a4 + r /\ HoldersOf(F2, J2, s) = b1 + b2 + b3 + b4 + r
  BY <1>5, <1>6 DEF HoldersOf
<1>8. PICK x1, y1, x2, y2, x3, y3, x4, y4 :
          /\ x1 = One(F[p] = s) /\ y1 = One(F2[p] = s) /\ x2 = One(J[p].ip = s) /\ y2 = One(J2[p].ip = s)
          /\ x3 = One(J[p].dp = s) /\ y3 = One(J2[p].dp = s) /\ x4 = One(J[p].old = s) /\ y4 = One(J2[p].old = s)
  OBVIOUS
<1>9. /\ x1 \in Nat /\ y1 \in Nat /\ x2 \in Nat /\ y2 \in Nat
      /\ x3 \in Nat /\ y3 \in Nat /\ x4 \in Nat /\ y4 \in Nat
  BY <1>8 DEF One
<1>10. Mine(F[p], J[p], s) = x1 + x2 + x3 + x4 /\ Mine(F2[p], J2[p], s) = y1 + y2 + y3 + y4
  BY <1>8 DEF Mine
<1>11. a1 \in Nat /\ b1 \in Nat /\ b1 + x1 = a1 + y1
  BY <1>1, <1>6, <1>8
<1>12. a2 \in Nat /\ b2 \in Nat /\ b2 + x2 = a2 + y2
  BY <1>2, <1>6, <1>8
<1>13. a3 \in Nat /\ b3 \in Nat /\ b3 + x3 = a3 + y3
  BY <1>3, <1>6, <1>8
<1>14. a4 \in Nat /\ b4 \in Nat /\ b4 + x4 = a4 + y4
  BY <1>4, <1>6, <1>8
<1>15. (b1 + b2 + b3 + b4 + r) + (x1 + x2 + x3 + x4) = (a1 + a2 + a3 + a4 + r) + (y1 + y2 + y3 + y4)
  BY <1>5, <1>9, <1>11, <1>12, <1>13, <1>14
<1> QED
  BY <1>7, <1>10, <1>15

LEMMA DropsChange ==
    ASSUME NEW F, NEW J, NEW F2, NEW J2, NEW p \in Procs, OnlyProc(F, J, F2, J2, p), NEW s
    PROVE  Drops(J2, s) + One(J[p].drop = s) = Drops(J, s) + One(J2[p].drop = s)
<1> DEFINE S == {q \in Procs : J[q].drop = s}
           T == {q \in Procs : J2[q].drop = s}
<1>1. (p \in S <=> J[p].drop = s) /\ (p \in T <=> J2[p].drop = s)
  OBVIOUS
<1>2. \A q \in Procs : q # p => (q \in S <=> q \in T)
  BY DEF OnlyProc
<1>3. S \in SUBSET Procs /\ T \in SUBSET Procs
  OBVIOUS
<1> HIDE DEF S, T
<1>4. Cardinality(T) + One(p \in S) = Cardinality(S) + One(p \in T)
  BY <1>2, <1>3, OneDiffers
<1> QED
  BY <1>1, <1>4 DEF One, S, T, Drops

\* What a process holds is part of the count, and of the root's slot there is
\* more.
LEMMA HoldersMine ==
    ASSUME NEW F, NEW J, NEW p \in Procs, NEW s \in Slots
    PROVE  /\ Mine(F[p], J[p], s) \in Nat
           /\ HoldersOf(F, J, s) >= Mine(F[p], J[p], s)
           /\ s = 1 => HoldersOf(F, J, s) >= Mine(F[p], J[p], s) + 1
<1>1. PICK F2, J2 : F2 = [q \in Procs |-> IF q = p THEN NoSlot ELSE F[q]]
                    /\ J2 = [q \in Procs |-> IF q = p THEN Idle ELSE J[q]]
  OBVIOUS
<1>2. OnlyProc(F, J, F2, J2, p) /\ F2[p] = NoSlot /\ J2[p] = Idle
  BY <1>1 DEF OnlyProc
<1>3. Mine(F2[p], J2[p], s) = 0
  BY <1>2, Sizes DEF Mine, Idle, One
<1>4. HoldersOf(F2, J2, s) \in Nat /\ HoldersOf(F, J, s) \in Nat
  BY HoldersType
<1>5. Mine(F[p], J[p], s) \in Nat
  BY DEF Mine, One
<1>6. HoldersOf(F2, J2, s) + Mine(F[p], J[p], s) = HoldersOf(F, J, s) + 0
  BY <1>2, <1>3, HoldersChange
<1>7. s = 1 => HoldersOf(F2, J2, s) >= 1
  <2>1. Cardinality(Procs) \in Nat /\ Cardinality(Procs) # 0
    BY DirAssumption, FS_CardinalityType, FS_EmptySet
  <2>2. \A S \in SUBSET Procs : Cardinality(S) \in Nat
    BY DirAssumption, FS_Subset, FS_CardinalityType
  <2>3. /\ Cardinality({q \in Procs : F2[q] = s}) \in Nat
        /\ Cardinality({q \in Procs : J2[q].ip = s}) \in Nat
        /\ Cardinality({q \in Procs : J2[q].dp = s}) \in Nat
        /\ Cardinality({q \in Procs : J2[q].old = s}) \in Nat
    BY <2>2
  <2> QED
    BY <2>1, <2>3 DEF HoldersOf
<1> QED
  BY <1>4, <1>5, <1>6, <1>7

\* A slot two processes hold has the references of both.
LEMMA HoldersTwo ==
    ASSUME NEW F, NEW J, NEW p \in Procs, NEW q \in Procs, p # q, NEW s \in Slots
    PROVE  HoldersOf(F, J, s) >= Mine(F[p], J[p], s) + Mine(F[q], J[q], s)
<1>1. PICK F2, J2 : F2 = [r \in Procs |-> IF r = p THEN NoSlot ELSE F[r]]
                    /\ J2 = [r \in Procs |-> IF r = p THEN Idle ELSE J[r]]
  OBVIOUS
<1>2. OnlyProc(F, J, F2, J2, p) /\ F2[p] = NoSlot /\ J2[p] = Idle /\ F2[q] = F[q] /\ J2[q] = J[q]
  BY <1>1 DEF OnlyProc
<1>3. Mine(F2[p], J2[p], s) = 0
  BY <1>2, Sizes DEF Mine, Idle, One
<1>4. HoldersOf(F2, J2, s) \in Nat /\ HoldersOf(F, J, s) \in Nat
  BY HoldersType
<1>5. Mine(F[p], J[p], s) \in Nat
  BY DEF Mine, One
<1>6. HoldersOf(F2, J2, s) + Mine(F[p], J[p], s) = HoldersOf(F, J, s) + 0
  BY <1>2, <1>3, HoldersChange
<1>7. HoldersOf(F2, J2, s) >= Mine(F[q], J[q], s) /\ Mine(F[q], J[q], s) \in Nat
  BY <1>2, HoldersMine
<1> QED
  BY <1>4, <1>5, <1>6, <1>7

LEMMA DropsMine ==
    ASSUME NEW J, NEW s, Drops(J, s) = 0, NEW p \in Procs
    PROVE  J[p].drop # s
<1> DEFINE S == {q \in Procs : J[q].drop = s}
<1>1. IsFiniteSet(S)
  BY DirAssumption, FS_Subset
<1>2. S = {}
  BY <1>1, FS_EmptySet DEF Drops
<1> QED
  BY <1>2

-----------------------------------------------------------------------------
(***************************************************************************)
(* Slots and references agree.                                             *)
(***************************************************************************)
\* A numbered slot counts its references; one numbered UNUSED counts at least
\* its references and the processes that have still to count it down.
SlotOK(r, h, d) ==
    IF r.num # U THEN r.ref = h /\ d = 0 ELSE r.ref >= h + d /\ ~r.valid

\* The references of a process that are never to a slot numbered UNUSED.
Solid(x, j, s) ==
    x = s \/ j.dp = s \/ j.old = s \/ (j.ip = s /\ j.at \in {"parent", "exists", "remove"})

RefOK(f, F, J) ==
    /\ f.slot[1].num = ROOT
    /\ \A s \in Slots : SlotOK(f.slot[s], HoldersOf(F, J, s), Drops(J, s))
    /\ \A s \in Slots, p \in Procs : Solid(F[p], J[p], s) => f.slot[s].num # U

LEMMA SolidMine ==
    ASSUME NEW x, NEW j, NEW s, Solid(x, j, s)
    PROVE  Mine(x, j, s) \in Nat /\ Mine(x, j, s) >= 1
BY DEF Solid, Mine, One

\* A slot somebody holds is counted.
LEMMA HeldRef ==
    ASSUME NEW f \in FS, NEW F, NEW J, RefOK(f, F, J), NEW p \in Procs, NEW s \in Slots,
           Mine(F[p], J[p], s) >= 1
    PROVE  f.slot[s].ref >= Mine(F[p], J[p], s) /\ f.slot[s].ref >= 1
<1>1. SlotOK(f.slot[s], HoldersOf(F, J, s), Drops(J, s))
  BY DEF RefOK
<1>2. HoldersOf(F, J, s) \in Nat /\ Drops(J, s) \in Nat
  BY HoldersType
<1>3. Mine(F[p], J[p], s) \in Nat /\ HoldersOf(F, J, s) >= Mine(F[p], J[p], s)
  BY HoldersMine
<1>4. f.slot[s].ref \in Nat
  BY DEF FS, Slot
<1> QED
  BY <1>1, <1>2, <1>3, <1>4 DEF SlotOK

\* The counts are as they were, and only a numbered slot was read.
SameRefs(f, g) ==
    \A t \in Slots :
        /\ g.slot[t].num = f.slot[t].num /\ g.slot[t].ref = f.slot[t].ref
        /\ g.slot[t].valid => f.slot[t].valid \/ f.slot[t].num # U

LEMMA SameRef ==
    ASSUME NEW f, NEW g, NEW F, NEW J, RefOK(f, F, J), SameRefs(f, g)
    PROVE  RefOK(g, F, J)
<1>1. g.slot[1].num = ROOT
  BY Sizes DEF RefOK, SameRefs
<1>2. ASSUME NEW s \in Slots PROVE SlotOK(g.slot[s], HoldersOf(F, J, s), Drops(J, s))
  <2>1. SlotOK(f.slot[s], HoldersOf(F, J, s), Drops(J, s))
    BY DEF RefOK
  <2> QED
    BY <2>1 DEF SameRefs, SlotOK
<1>3. ASSUME NEW s \in Slots, NEW p \in Procs, Solid(F[p], J[p], s) PROVE g.slot[s].num # U
  BY <1>3 DEF RefOK, SameRefs
<1> QED
  BY <1>1, <1>2, <1>3 DEF RefOK

LEMMA KeptRefs ==
    ASSUME NEW f, NEW g, Kept(f, g)
    PROVE  SameRefs(f, g)
BY DEF Kept, SameRefs

LEMMA LockedRefs ==
    ASSUME NEW f \in FS, NEW s \in Slots, ~BadInode(f, s), NEW g, g = Locked(f, s)
    PROVE  SameRefs(f, g)
<1>1. LockedRes(f, s, g)
  BY LockedFacts
<1>2. ~f.slot[s].valid => f.slot[s].num \in Inums
  BY DEF BadInode
<1> QED
  BY <1>1, <1>2, Sizes DEF LockedRes, Only, SameRefs

\* References move between the fields of a process, and those to a slot
\* numbered UNUSED may be forgotten.
LEMMA MoveRef ==
    ASSUME NEW f \in FS, NEW F, NEW J, RefOK(f, F, J), NEW p \in Procs, NEW F2, NEW J2,
           OnlyProc(F, J, F2, J2, p), J2[p].drop \in {J[p].drop, NoSlot},
           \A t \in Slots :
               /\ Mine(F2[p], J2[p], t) <= Mine(F[p], J[p], t)
               /\ f.slot[t].num # U => Mine(F2[p], J2[p], t) = Mine(F[p], J[p], t)
               /\ Solid(F2[p], J2[p], t) => f.slot[t].num # U
    PROVE  RefOK(f, F2, J2)
<1>1. ASSUME NEW t \in Slots PROVE SlotOK(f.slot[t], HoldersOf(F2, J2, t), Drops(J2, t))
  <2>1. SlotOK(f.slot[t], HoldersOf(F, J, t), Drops(J, t))
    BY DEF RefOK
  <2>2. /\ HoldersOf(F, J, t) \in Nat /\ Drops(J, t) \in Nat
        /\ HoldersOf(F2, J2, t) \in Nat /\ Drops(J2, t) \in Nat
    BY HoldersType
  <2>3. Mine(F[p], J[p], t) \in Nat /\ Mine(F2[p], J2[p], t) \in Nat
    BY HoldersMine
  <2>4. HoldersOf(F2, J2, t) + Mine(F[p], J[p], t) = HoldersOf(F, J, t) + Mine(F2[p], J2[p], t)
    BY HoldersChange
  <2>5. Drops(J2, t) <= Drops(J, t)
    <3>1. Drops(J2, t) + One(J[p].drop = t) = Drops(J, t) + One(J2[p].drop = t)
      BY DropsChange
    <3> QED
      BY <3>1, <2>2, Sizes DEF One
  <2>6. f.slot[t].ref \in Nat
    BY DEF FS, Slot
  <2>7. HoldersOf(F2, J2, t) <= HoldersOf(F, J, t)
    BY <2>2, <2>3, <2>4
  <2>8. f.slot[t].num # U => HoldersOf(F2, J2, t) = HoldersOf(F, J, t)
    BY <2>2, <2>3, <2>4
  <2> QED
    BY <2>1, <2>2, <2>5, <2>6, <2>7, <2>8 DEF SlotOK
<1>2. ASSUME NEW s \in Slots, NEW q \in Procs, Solid(F2[q], J2[q], s) PROVE f.slot[s].num # U
  BY <1>2 DEF RefOK, OnlyProc
<1> QED
  BY <1>1, <1>2 DEF RefOK

\* inode_get: a slot that changes its number must have been nobody's.
LEMMA GetRef ==
    ASSUME NEW f \in FS, NEW F, NEW J, RefOK(f, F, J), NEW p \in Procs, NEW F2, NEW J2,
           OnlyProc(F, J, F2, J2, p), J2[p].drop = J[p].drop,
           NEW n \in Inums \cup {U}, CanGet(f, n), NEW s, s = GotSlot(f, n),
           n # U /\ Hits(f, n) = {} => HoldersOf(F, J, s) = 0 /\ Drops(J, s) = 0,
           NEW g, g = Got(f, n),
           \A t \in Slots :
               /\ Mine(F2[p], J2[p], t) = Mine(F[p], J[p], t) + One(t = s)
               /\ Solid(F2[p], J2[p], t) => g.slot[t].num # U
    PROVE  RefOK(g, F2, J2)
<1>1. GotRes(f, n, g) /\ s \in Slots
  BY GotFacts, GotSlotFacts
<1>2. ASSUME NEW t \in Slots PROVE SlotOK(g.slot[t], HoldersOf(F2, J2, t), Drops(J2, t))
  <2>1. SlotOK(f.slot[t], HoldersOf(F, J, t), Drops(J, t))
    BY DEF RefOK
  <2>2. /\ HoldersOf(F, J, t) \in Nat /\ Drops(J, t) \in Nat
        /\ HoldersOf(F2, J2, t) \in Nat /\ Drops(J2, t) \in Nat
    BY HoldersType
  <2>3. Mine(F[p], J[p], t) \in Nat /\ Mine(F2[p], J2[p], t) \in Nat
    BY HoldersMine
  <2>4. HoldersOf(F2, J2, t) + Mine(F[p], J[p], t) = HoldersOf(F, J, t) + Mine(F2[p], J2[p], t)
    BY HoldersChange
  <2>5. Drops(J2, t) = Drops(J, t)
    <3>1. Drops(J2, t) + One(J[p].drop = t) = Drops(J, t) + One(J2[p].drop = t)
      BY DropsChange
    <3> QED
      BY <3>1, <2>2 DEF One
  <2>6. f.slot[t].ref \in Nat
    BY DEF FS, Slot
  <2>7. CASE t # s
    <3>1. g.slot[t] = f.slot[t]
      BY <1>1, <2>7 DEF GotRes, Only
    <3>2. HoldersOf(F2, J2, t) = HoldersOf(F, J, t)
      BY <2>2, <2>3, <2>4, <2>7 DEF One
    <3> QED
      BY <3>1, <3>2, <2>1, <2>5
  <2>8. CASE t = s
    <3>1. HoldersOf(F2, J2, t) = HoldersOf(F, J, t) + 1
      BY <2>2, <2>3, <2>4, <2>8 DEF One
    <3>2. CASE Hits(f, n) # {}
      <4>1. g.slot[t].num = f.slot[t].num /\ g.slot[t].ref = f.slot[t].ref + 1 /\ g.slot[t].valid = f.slot[t].valid
        BY <1>1, <2>8, <3>2 DEF GotRes
      <4> QED
        BY <4>1, <3>1, <2>1, <2>2, <2>5, <2>6 DEF SlotOK
    <3>3. CASE Hits(f, n) = {}
      <4>1. f.slot[t].num = U /\ g.slot[t].num = n /\ g.slot[t].ref = 1 /\ g.slot[t].valid = FALSE
        BY <1>1, <2>8, <3>3 DEF GotRes
      <4>2. CASE n # U
        BY <4>1, <4>2, <3>1, <3>3, <2>5, <2>8 DEF SlotOK
      <4>3. CASE n = U
        <5>1. f.slot[t].ref = 0
          BY <4>1, <4>3, <3>3, <2>6 DEF Hits
        <5>2. HoldersOf(F, J, t) = 0 /\ Drops(J, t) = 0
          BY <5>1, <4>1, <2>1, <2>2 DEF SlotOK
        <5> QED
          BY <5>2, <4>1, <4>3, <3>1, <2>5 DEF SlotOK
      <4> QED
        BY <4>2, <4>3
    <3> QED
      BY <3>2, <3>3
  <2> QED
    BY <2>7, <2>8
<1>3. ASSUME NEW t \in Slots, f.slot[t].num # U PROVE g.slot[t].num = f.slot[t].num
  <2>1. CASE t # s
    BY <1>1, <2>1 DEF GotRes, Only
  <2>2. CASE t = s
    BY <1>1, <1>3, <2>2 DEF GotRes
  <2> QED
    BY <2>1, <2>2
<1>4. ASSUME NEW t \in Slots, NEW q \in Procs, Solid(F2[q], J2[q], t) PROVE g.slot[t].num # U
  <2>1. CASE q = p
    BY <1>4, <2>1
  <2>2. CASE q # p
    BY <1>3, <1>4, <2>2 DEF RefOK, OnlyProc
  <2> QED
    BY <2>1, <2>2
<1>5. g.slot[1].num = ROOT
  BY <1>3, Sizes DEF RefOK
<1> QED
  BY <1>2, <1>4, <1>5 DEF RefOK

\* inode_free of a slot the process holds; when it was the last reference to
\* an unlinked inode, the slot may have still to be counted down.
LEMMA FreeRef ==
    ASSUME NEW f \in FS, NEW F, NEW J, RefOK(f, F, J), NEW p \in Procs, NEW F2, NEW J2,
           OnlyProc(F, J, F2, J2, p), NEW b \in Slots,
           J2[p].drop \in {J[p].drop, NoSlot} \/ (LastRef(f, b) /\ J2[p].drop = b),
           NEW g, g = Freed(f, b),
           \A t \in Slots :
               /\ Mine(F[p], J[p], t) = Mine(F2[p], J2[p], t) + One(t = b)
               /\ Solid(F2[p], J2[p], t) => f.slot[t].num # U
    PROVE  RefOK(g, F2, J2)
<1>1. \A t \in Slots : Mine(F[p], J[p], t) \in Nat /\ Mine(F2[p], J2[p], t) \in Nat
  BY HoldersMine
<1>2. Mine(F[p], J[p], b) >= 1
  BY <1>1 DEF One
<1>3. f.slot[b].ref >= 1
  BY <1>2, HeldRef
<1>4. FreedRes(f, b, g)
  BY <1>3, FreedFacts
<1>5. ASSUME NEW t \in Slots
      PROVE  /\ SlotOK(g.slot[t], HoldersOf(F2, J2, t), Drops(J2, t))
             /\ LastRef(f, b) /\ t = b => HoldersOf(F2, J2, t) = 0 /\ t # 1
  <2>1. SlotOK(f.slot[t], HoldersOf(F, J, t), Drops(J, t))
    BY DEF RefOK
  <2>2. /\ HoldersOf(F, J, t) \in Nat /\ Drops(J, t) \in Nat
        /\ HoldersOf(F2, J2, t) \in Nat /\ Drops(J2, t) \in Nat
    BY HoldersType
  <2>3. Mine(F[p], J[p], t) \in Nat /\ Mine(F2[p], J2[p], t) \in Nat
    BY <1>1
  <2>4. HoldersOf(F2, J2, t) + Mine(F[p], J[p], t) = HoldersOf(F, J, t) + Mine(F2[p], J2[p], t)
    BY HoldersChange
  <2>5. Drops(J2, t) + One(J[p].drop = t) = Drops(J, t) + One(J2[p].drop = t)
    BY DropsChange
  <2>6. f.slot[t].ref \in Nat
    BY DEF FS, Slot
  <2>7. CASE t # b
    <3>1. g.slot[t] = f.slot[t]
      BY <1>4, <2>7 DEF FreedRes, Only
    <3>2. HoldersOf(F2, J2, t) = HoldersOf(F, J, t)
      BY <2>2, <2>3, <2>4, <2>7 DEF One
    <3>3. Drops(J2, t) <= Drops(J, t)
      BY <2>2, <2>5, <2>7, Sizes DEF One
    <3> QED
      BY <3>1, <3>2, <3>3, <2>1, <2>2, <2>6, <2>7 DEF SlotOK
  <2>8. CASE t = b
    <3>1. HoldersOf(F, J, t) = HoldersOf(F2, J2, t) + 1
      BY <2>2, <2>3, <2>4, <2>8 DEF One
    <3>2. CASE ~LastRef(f, b)
      <4>1. g.slot[t].num = f.slot[t].num /\ g.slot[t].ref = f.slot[t].ref - 1 /\ g.slot[t].valid = f.slot[t].valid
        BY <1>4, <2>8, <3>2 DEF FreedRes
      <4>2. Drops(J2, t) <= Drops(J, t)
        BY <2>2, <2>5, <3>2, Sizes DEF One
      <4> QED
        BY <4>1, <4>2, <3>1, <3>2, <2>1, <2>2, <2>6 DEF SlotOK
    <3>3. CASE LastRef(f, b)
      <4>1. g.slot[t].num = U /\ g.slot[t].ref = 1 /\ g.slot[t].valid = FALSE
        BY <1>4, <2>8, <3>3 DEF FreedRes, LastRef
      <4>2. f.slot[t].num # U /\ f.slot[t].ref = 1
        BY <2>1, <2>8, <3>3 DEF SlotOK, LastRef
      <4>3. HoldersOf(F2, J2, t) = 0 /\ Drops(J, t) = 0
        BY <4>2, <3>1, <2>1, <2>2 DEF SlotOK
      <4>4. Drops(J2, t) <= 1
        BY <4>3, <2>2, <2>5 DEF One
      <4>5. t # 1
        <5>1. t = 1 => HoldersOf(F, J, t) >= Mine(F[p], J[p], t) + 1
          BY HoldersMine
        <5> QED
          BY <5>1, <4>3, <3>1, <1>2, <2>3, <2>8
      <4> QED
        BY <4>1, <4>3, <4>4, <4>5, <2>2 DEF SlotOK
    <3> QED
      BY <3>2, <3>3
  <2> QED
    BY <2>7, <2>8
<1>6. ASSUME NEW t \in Slots, ~(LastRef(f, b) /\ t = b) PROVE g.slot[t].num = f.slot[t].num
  <2>1. CASE t # b
    BY <1>4, <2>1 DEF FreedRes, Only
  <2>2. CASE ~LastRef(f, b) /\ t = b
    BY <1>4, <2>2 DEF FreedRes
  <2> QED
    BY <1>6, <2>1, <2>2
<1>7. ASSUME NEW t \in Slots, NEW q \in Procs, Solid(F2[q], J2[q], t) PROVE g.slot[t].num # U
  <2>1. f.slot[t].num # U
    BY <1>7 DEF RefOK, OnlyProc
  <2>2. CASE LastRef(f, b) /\ t = b
    <3>1. HoldersOf(F2, J2, t) = 0
      BY <1>5, <2>2
    <3>2. Mine(F2[q], J2[q], t) >= 1 /\ Mine(F2[q], J2[q], t) \in Nat
      BY <1>7, SolidMine
    <3>3. HoldersOf(F2, J2, t) >= Mine(F2[q], J2[q], t)
      BY HoldersMine
    <3> QED
      BY <3>1, <3>2, <3>3
  <2> QED
    BY <1>6, <2>1, <2>2
<1>8. g.slot[1].num = ROOT
  <2>1. 1 \in Slots
    BY Sizes
  <2>2. ~(LastRef(f, b) /\ 1 = b)
    BY <1>5, <2>1
  <2> QED
    BY <1>6, <2>1, <2>2 DEF RefOK
<1>9. \A t \in Slots : SlotOK(g.slot[t], HoldersOf(F2, J2, t), Drops(J2, t))
  BY <1>5
<1> QED
  BY <1>7, <1>8, <1>9 DEF RefOK

\* A slot to which nobody refers.
LEMMA NoHolders ==
    ASSUME NEW F, NEW J, NEW s, s # 1,
           \A q \in Procs : F[q] # s /\ J[q].ip # s /\ J[q].dp # s /\ J[q].old # s /\ J[q].drop # s
    PROVE  HoldersOf(F, J, s) = 0 /\ Drops(J, s) = 0
<1>1. /\ {q \in Procs : F[q] = s} = {} /\ {q \in Procs : J[q].ip = s} = {}
      /\ {q \in Procs : J[q].dp = s} = {} /\ {q \in Procs : J[q].old = s} = {}
      /\ {q \in Procs : J[q].drop = s} = {}
  OBVIOUS
<1>2. Cardinality({}) = 0
  BY FS_EmptySet
<1>3. /\ Cardinality({q \in Procs : F[q] = s}) = 0 /\ Cardinality({q \in Procs : J[q].ip = s}) = 0
      /\ Cardinality({q \in Procs : J[q].dp = s}) = 0 /\ Cardinality({q \in Procs : J[q].old = s}) = 0
      /\ Cardinality({q \in Procs : J[q].drop = s}) = 0
  BY <1>1, <1>2, Zenon
<1> QED
  BY <1>3 DEF HoldersOf, Drops

\* The slot for number n is one that another process is about to look at or
\* to count down.
Robbed(f, J, p, n) ==
    /\ n # U /\ Hits(f, n) = {}
    /\ \E q \in Procs \ {p} : GotSlot(f, n) \in {J[q].ip, J[q].drop}

\* inode_get by a process that stands nowhere puts it at the slot.
LEMMA TakeRef ==
    ASSUME NEW f \in FS, NEW F, NEW J, RefOK(f, F, J), NEW p \in Procs, NEW J2,
           OnlyProc(F, J, F, J2, p), J[p].ip = NoSlot, J[p].drop = NoSlot,
           NEW n \in Inums \cup {U}, CanGet(f, n), ~Robbed(f, J, p, n),
           J2[p].ip = GotSlot(f, n), J2[p].dp = J[p].dp, J2[p].old = J[p].old, J2[p].drop = NoSlot,
           J2[p].at \in {"parent", "exists", "remove"} => n # U,
           NEW g, g = Got(f, n)
    PROVE  RefOK(g, F, J2)
<1>1. PICK s : s = GotSlot(f, n)
  OBVIOUS
<1>2. GotRes(f, n, g) /\ s \in Slots
  BY <1>1, GotFacts, GotSlotFacts
<1>3. ASSUME n # U, Hits(f, n) = {} PROVE HoldersOf(F, J, s) = 0 /\ Drops(J, s) = 0
  <2>1. f.slot[s].num = U
    BY <1>1, <1>3, GotSlotFacts
  <2>2. s # 1
    BY <2>1, Sizes DEF RefOK
  <2>3. ASSUME NEW q \in Procs
        PROVE  F[q] # s /\ J[q].ip # s /\ J[q].dp # s /\ J[q].old # s /\ J[q].drop # s
    <3>1. ~Solid(F[q], J[q], s)
      BY <1>2, <2>1 DEF RefOK
    <3>2. F[q] # s /\ J[q].dp # s /\ J[q].old # s
      BY <3>1 DEF Solid
    <3>3. J[q].ip # s /\ J[q].drop # s
      <4>1. CASE q = p
        BY <4>1, <1>2, Sizes
      <4>2. CASE q # p
        BY <4>2, <1>1, <1>3 DEF Robbed
      <4> QED
        BY <4>1, <4>2
    <3> QED
      BY <3>2, <3>3
  <2> QED
    BY <2>2, <2>3, NoHolders
<1>4. ASSUME NEW t \in Slots
      PROVE  Mine(F[p], J2[p], t) = Mine(F[p], J[p], t) + One(t = s)
  BY <1>1, Sizes DEF Mine, One
<1>5. ASSUME NEW t \in Slots, f.slot[t].num # U PROVE g.slot[t].num # U
  <2>1. CASE t # s
    BY <1>1, <1>2, <1>5, <2>1 DEF GotRes, Only
  <2>2. CASE t = s
    BY <1>1, <1>2, <1>5, <2>2 DEF GotRes
  <2> QED
    BY <2>1, <2>2
<1>6. ASSUME NEW t \in Slots, Solid(F[p], J2[p], t) PROVE g.slot[t].num # U
  <2>1. CASE F[p] = t \/ J2[p].dp = t \/ J2[p].old = t
    <3>1. Solid(F[p], J[p], t)
      BY <2>1 DEF Solid
    <3> QED
      BY <3>1, <1>5 DEF RefOK
  <2>2. CASE J2[p].ip = t /\ J2[p].at \in {"parent", "exists", "remove"}
    BY <2>2, <1>1, <1>2 DEF GotRes
  <2> QED
    BY <1>6, <2>1, <2>2 DEF Solid
<1>7. J2[p].drop = J[p].drop
  OBVIOUS
<1> QED
  BY <1>1, <1>3, <1>4, <1>6, <1>7, GetRef

\* A reference more to a slot that is there, whoever else refers to it: the
\* inode_dup of the current directory.
Bumped(f, s) == [f EXCEPT !.slot[s].ref = @ + 1]
BumpRes(f, s, g) ==
    /\ g \in FS /\ SameDisk(f, g) /\ Only(f, g, s)
    /\ g.slot[s].num = f.slot[s].num /\ g.slot[s].ref = f.slot[s].ref + 1
    /\ g.slot[s].valid = f.slot[s].valid /\ g.slot[s].type = f.slot[s].type
    /\ g.slot[s].nlink = f.slot[s].nlink

LEMMA BumpedFacts ==
    ASSUME NEW f \in FS, NEW s \in Slots
    PROVE  BumpRes(f, s, Bumped(f, s))
<1> DEFINE g == Bumped(f, s)
<1>1. f.slot \in [Slots -> Slot] /\ f.slot[s] \in Slot
  BY DEF FS
<1>2. PICK r : r = [f.slot[s] EXCEPT !.ref = @ + 1]
  OBVIOUS
<1>3. r \in Slot /\ r.num = f.slot[s].num /\ r.ref = f.slot[s].ref + 1
      /\ r.valid = f.slot[s].valid /\ r.type = f.slot[s].type /\ r.nlink = f.slot[s].nlink
  BY <1>1, <1>2 DEF Slot
<1>4. g = Put(f, s, r)
  BY <1>2 DEF Bumped, Put
<1>5. g \in FS /\ SameDisk(f, g) /\ Only(f, g, s) /\ g.slot[s] = r
  BY <1>3, <1>4, PutSlot DEF PutRes
<1> QED
  BY <1>3, <1>5 DEF BumpRes

LEMMA BumpRef ==
    ASSUME NEW f \in FS, NEW F, NEW J, RefOK(f, F, J), NEW p \in Procs, NEW J2,
           OnlyProc(F, J, F, J2, p), J[p].ip = NoSlot, NEW s \in Slots,
           J2[p].ip = s, J2[p].dp = J[p].dp, J2[p].old = J[p].old, J2[p].drop = J[p].drop,
           J2[p].at \notin {"parent", "exists", "remove"},
           NEW g, BumpRes(f, s, g)
    PROVE  RefOK(g, F, J2)
<1>1. ASSUME NEW t \in Slots PROVE SlotOK(g.slot[t], HoldersOf(F, J2, t), Drops(J2, t))
  <2>1. SlotOK(f.slot[t], HoldersOf(F, J, t), Drops(J, t))
    BY DEF RefOK
  <2>2. /\ HoldersOf(F, J, t) \in Nat /\ Drops(J, t) \in Nat
        /\ HoldersOf(F, J2, t) \in Nat /\ Drops(J2, t) \in Nat
    BY HoldersType
  <2>3. Mine(F[p], J[p], t) \in Nat /\ Mine(F[p], J2[p], t) \in Nat
    BY HoldersMine
  <2>4. HoldersOf(F, J2, t) + Mine(F[p], J[p], t) = HoldersOf(F, J, t) + Mine(F[p], J2[p], t)
    BY HoldersChange
  <2>5. Drops(J2, t) = Drops(J, t)
    <3>1. Drops(J2, t) + One(J[p].drop = t) = Drops(J, t) + One(J2[p].drop = t)
      BY DropsChange
    <3> QED
      BY <3>1, <2>2 DEF One
  <2>6. f.slot[t].ref \in Nat
    BY DEF FS, Slot
  <2>7. Mine(F[p], J2[p], t) = Mine(F[p], J[p], t) + One(t = s)
    BY Sizes DEF Mine, One
  <2>8. HoldersOf(F, J2, t) = HoldersOf(F, J, t) + One(t = s)
    BY <2>2, <2>3, <2>4, <2>7 DEF One
  <2>9. g.slot[t].num = f.slot[t].num /\ g.slot[t].valid = f.slot[t].valid
        /\ g.slot[t].ref = f.slot[t].ref + One(t = s)
    BY <2>6 DEF BumpRes, Only, One
  <2> QED
    BY <2>1, <2>2, <2>5, <2>6, <2>8, <2>9 DEF SlotOK, One
<1>2. \A t \in Slots : g.slot[t].num = f.slot[t].num
  BY DEF BumpRes, Only
<1>3. ASSUME NEW t \in Slots, NEW q \in Procs, Solid(F[q], J2[q], t) PROVE g.slot[t].num # U
  <2>1. Solid(F[q], J[q], t)
    BY <1>3 DEF Solid, OnlyProc
  <2> QED
    BY <2>1, <1>2 DEF RefOK
<1> QED
  BY <1>1, <1>2, <1>3, Sizes DEF RefOK

\* The end of inode_free after it destroyed the inode.
Ended(f, s) == [f EXCEPT !.slot[s].ref = @ - 1]
EndRes(f, s, g) ==
    /\ g \in FS /\ SameDisk(f, g) /\ Only(f, g, s)
    /\ g.slot[s].num = f.slot[s].num /\ g.slot[s].ref = f.slot[s].ref - 1
    /\ g.slot[s].valid = f.slot[s].valid

LEMMA EndFacts ==
    ASSUME NEW f \in FS, NEW s \in Slots, f.slot[s].ref >= 1
    PROVE  EndRes(f, s, Ended(f, s))
<1> DEFINE g == Ended(f, s)
<1>1. f.slot \in [Slots -> Slot] /\ f.slot[s] \in Slot
  BY DEF FS
<1>2. PICK r : r = [f.slot[s] EXCEPT !.ref = @ - 1]
  OBVIOUS
<1>3. r \in Slot /\ r.num = f.slot[s].num /\ r.ref = f.slot[s].ref - 1 /\ r.valid = f.slot[s].valid
  BY <1>1, <1>2 DEF Slot
<1>4. g = Put(f, s, r)
  BY <1>2 DEF Ended, Put
<1>5. g \in FS /\ SameDisk(f, g) /\ Only(f, g, s) /\ g.slot[s] = r
  BY <1>3, <1>4, PutSlot DEF PutRes
<1> QED
  BY <1>3, <1>5 DEF EndRes

LEMMA DropFacts ==
    ASSUME NEW f \in FS, NEW F, NEW J, RefOK(f, F, J), NEW p \in Procs, NEW s \in Slots, J[p].drop = s
    PROVE  f.slot[s].num = U /\ f.slot[s].ref >= 1
<1>1. SlotOK(f.slot[s], HoldersOf(F, J, s), Drops(J, s))
  BY DEF RefOK
<1>2. HoldersOf(F, J, s) \in Nat /\ Drops(J, s) \in Nat
  BY HoldersType
<1>3. Drops(J, s) # 0
  BY DropsMine
<1>4. f.slot[s].ref \in Nat
  BY DEF FS, Slot
<1> QED
  BY <1>1, <1>2, <1>3, <1>4 DEF SlotOK

LEMMA EndRef ==
    ASSUME NEW f \in FS, NEW F, NEW J, RefOK(f, F, J), NEW p \in Procs, NEW J2,
           OnlyProc(F, J, F, J2, p), NEW s \in Slots, J[p].drop = s,
           J2[p].drop = NoSlot, J2[p].ip = J[p].ip, J2[p].dp = J[p].dp, J2[p].old = J[p].old, J2[p].at = J[p].at,
           NEW g, EndRes(f, s, g)
    PROVE  RefOK(g, F, J2)
<1>1. f.slot[s].num = U /\ f.slot[s].ref >= 1
  BY DropFacts
<1>5. ASSUME NEW t \in Slots PROVE SlotOK(g.slot[t], HoldersOf(F, J2, t), Drops(J2, t))
  <2>1. SlotOK(f.slot[t], HoldersOf(F, J, t), Drops(J, t))
    BY DEF RefOK
  <2>2. /\ HoldersOf(F, J, t) \in Nat /\ Drops(J, t) \in Nat
        /\ HoldersOf(F, J2, t) \in Nat /\ Drops(J2, t) \in Nat
    BY HoldersType
  <2>3. Mine(F[p], J[p], t) \in Nat /\ Mine(F[p], J2[p], t) \in Nat
    BY HoldersMine
  <2>4. HoldersOf(F, J2, t) + Mine(F[p], J[p], t) = HoldersOf(F, J, t) + Mine(F[p], J2[p], t)
    BY HoldersChange
  <2>5. Drops(J2, t) + One(J[p].drop = t) = Drops(J, t) + One(J2[p].drop = t)
    BY DropsChange
  <2>6. f.slot[t].ref \in Nat
    BY DEF FS, Slot
  <2>7. Mine(F[p], J2[p], t) = Mine(F[p], J[p], t)
    BY DEF Mine
  <2>8. HoldersOf(F, J2, t) = HoldersOf(F, J, t)
    BY <2>2, <2>3, <2>4, <2>7
  <2>9. Drops(J2, t) + One(t = s) = Drops(J, t)
    BY <2>2, <2>5, Sizes DEF One
  <2>10. g.slot[t].num = f.slot[t].num /\ g.slot[t].valid = f.slot[t].valid
         /\ g.slot[t].ref = f.slot[t].ref - One(t = s)
    BY <2>6 DEF EndRes, Only, One
  <2> QED
    BY <1>1, <2>1, <2>2, <2>6, <2>8, <2>9, <2>10 DEF SlotOK, One
<1>6. \A t \in Slots : g.slot[t].num = f.slot[t].num
  BY DEF EndRes, Only
<1>7. ASSUME NEW t \in Slots, NEW q \in Procs, Solid(F[q], J2[q], t) PROVE g.slot[t].num # U
  <2>1. Solid(F[q], J[q], t)
    BY <1>7 DEF Solid, OnlyProc
  <2> QED
    BY <2>1, <1>6 DEF RefOK
<1> QED
  BY <1>5, <1>6, <1>7, Sizes DEF RefOK

-----------------------------------------------------------------------------
(***************************************************************************)
(* One slot for an inode.                                                  *)
(***************************************************************************)
LiveIn(f, s) == f.slot[s].num # U /\ f.slot[s].ref > 0
OneOK(f) ==
    \A s, t \in Slots : LiveIn(f, s) /\ LiveIn(f, t) /\ f.slot[s].num = f.slot[t].num => s = t

LEMMA OneFewer ==
    ASSUME NEW f, NEW g, OneOK(f), \A t \in Slots : LiveIn(g, t) => LiveIn(f, t) /\ g.slot[t].num = f.slot[t].num
    PROVE  OneOK(g)
<1> SUFFICES ASSUME NEW s \in Slots, NEW t \in Slots, LiveIn(g, s), LiveIn(g, t), g.slot[s].num = g.slot[t].num
             PROVE  s = t
  BY DEF OneOK
<1>1. LiveIn(f, s) /\ LiveIn(f, t) /\ f.slot[s].num = f.slot[t].num
  OBVIOUS
<1> QED
  BY <1>1 DEF OneOK

LEMMA OneGot ==
    ASSUME NEW f \in FS, OneOK(f), NEW n \in Inums \cup {U}, CanGet(f, n), NEW g, g = Got(f, n)
    PROVE  OneOK(g)
<1>1. PICK s : s = GotSlot(f, n)
  OBVIOUS
<1>2. GotRes(f, n, g) /\ s \in Slots
  BY <1>1, GotFacts, GotSlotFacts
<1>3. CASE Hits(f, n) # {}
  <2>1. f.slot[s].num = n /\ f.slot[s].ref > 0
    BY <1>1, <1>3, GotSlotFacts
  <2>2. g.slot[s].num = f.slot[s].num /\ \A t \in Slots : t # s => g.slot[t] = f.slot[t]
    BY <1>1, <1>2, <1>3 DEF GotRes, Only
  <2>3. \A t \in Slots : LiveIn(g, t) => LiveIn(f, t) /\ g.slot[t].num = f.slot[t].num
    BY <2>1, <2>2 DEF LiveIn
  <2> QED
    BY <2>3, OneFewer
<1>4. CASE Hits(f, n) = {}
  <2>1. g.slot[s].num = n /\ \A t \in Slots : t # s => g.slot[t] = f.slot[t]
    BY <1>1, <1>2, <1>4 DEF GotRes, Only
  <2>2. \A t \in Slots : ~(f.slot[t].num = n /\ f.slot[t].ref > 0)
    BY <1>4 DEF Hits
  <2>3. \A t \in Slots : t # s /\ LiveIn(g, t) => LiveIn(f, t) /\ g.slot[t].num = f.slot[t].num /\ g.slot[t].num # n
    BY <2>1, <2>2 DEF LiveIn
  <2> QED
    BY <2>1, <2>3 DEF OneOK
<1> QED
  BY <1>3, <1>4

LEMMA OneFreed ==
    ASSUME NEW f \in FS, OneOK(f), NEW s \in Slots, f.slot[s].ref >= 1, NEW g, g = Freed(f, s)
    PROVE  OneOK(g)
<1>1. FreedRes(f, s, g)
  BY FreedFacts
<1>2. f.slot[s].ref \in Nat
  BY DEF FS, Slot
<1>3. \A t \in Slots : LiveIn(g, t) => LiveIn(f, t) /\ g.slot[t].num = f.slot[t].num
  <2> SUFFICES ASSUME NEW t \in Slots, LiveIn(g, t) PROVE LiveIn(f, t) /\ g.slot[t].num = f.slot[t].num
    OBVIOUS
  <2>1. CASE t # s
    BY <1>1, <2>1 DEF FreedRes, Only, LiveIn
  <2>2. CASE t = s /\ ~LastRef(f, s)
    BY <1>1, <1>2, <2>2 DEF FreedRes, LiveIn
  <2>3. CASE t = s /\ LastRef(f, s)
    BY <1>1, <1>2, <2>3 DEF FreedRes, LiveIn
  <2> QED
    BY <2>1, <2>2, <2>3
<1> QED
  BY <1>3, OneFewer

\* The root's slot is held by the first current directories.
LEMMA RootLive ==
    ASSUME NEW f \in FS, NEW F, NEW J, RefOK(f, F, J), NEW p \in Procs
    PROVE  f.slot[1].num = ROOT /\ f.slot[1].ref >= 1 /\ LiveIn(f, 1) /\ Hits(f, ROOT) # {}
<1>1. 1 \in Slots /\ ROOT # U
  BY Sizes
<1>2. SlotOK(f.slot[1], HoldersOf(F, J, 1), Drops(J, 1)) /\ f.slot[1].num = ROOT
  BY <1>1 DEF RefOK
<1>3. HoldersOf(F, J, 1) >= Mine(F[p], J[p], 1) + 1 /\ Mine(F[p], J[p], 1) \in Nat
  BY <1>1, HoldersMine
<1>4. HoldersOf(F, J, 1) \in Nat
  BY HoldersType
<1>5. f.slot[1].ref >= 1
  BY <1>1, <1>2, <1>3, <1>4 DEF SlotOK
<1>6. f.slot[1].ref > 0
  BY <1>1, <1>5 DEF FS, Slot
<1>7. 1 \in Hits(f, ROOT)
  BY <1>1, <1>2, <1>6 DEF Hits
<1> QED
  BY <1>1, <1>2, <1>5, <1>6, <1>7 DEF LiveIn

-----------------------------------------------------------------------------
(***************************************************************************)
(* Both, as far as nobody was robbed (c) and no current directory is       *)
(* without a reference (b).                                                *)
(***************************************************************************)
Good(c, b, f, F, J) == f \in FS /\ (c => RefOK(f, F, J)) /\ (b => OneOK(f))

LEMMA GoodSame ==
    ASSUME NEW c, NEW b, NEW f, NEW F, NEW J, Good(c, b, f, F, J), NEW g \in FS, SameRefs(f, g)
    PROVE  Good(c, b, g, F, J)
<1>1. c => RefOK(g, F, J)
  BY SameRef DEF Good
<1>2. b => OneOK(g)
  <2>1. \A t \in Slots : LiveIn(g, t) => LiveIn(f, t) /\ g.slot[t].num = f.slot[t].num
    BY DEF SameRefs, LiveIn
  <2> QED
    BY <2>1, OneFewer DEF Good
<1> QED
  BY <1>1, <1>2 DEF Good

LEMMA GoodMove ==
    ASSUME NEW c, NEW b, NEW f, NEW F, NEW J, Good(c, b, f, F, J), NEW p \in Procs, NEW F2, NEW J2,
           OnlyProc(F, J, F2, J2, p), J2[p].drop \in {J[p].drop, NoSlot},
           \A t \in Slots :
               /\ Mine(F2[p], J2[p], t) <= Mine(F[p], J[p], t)
               /\ f.slot[t].num # U => Mine(F2[p], J2[p], t) = Mine(F[p], J[p], t)
               /\ Solid(F2[p], J2[p], t) => f.slot[t].num # U
    PROVE  Good(c, b, f, F2, J2)
<1>1. ASSUME c PROVE RefOK(f, F2, J2)
  BY <1>1, MoveRef DEF Good
<1> QED
  BY <1>1 DEF Good

LEMMA GoodTake ==
    ASSUME NEW c, NEW b, NEW f, NEW F, NEW J, Good(c, b, f, F, J), NEW p \in Procs, NEW J2,
           OnlyProc(F, J, F, J2, p), J[p].ip = NoSlot, J[p].drop = NoSlot,
           NEW n \in Inums \cup {U}, CanGet(f, n), c => ~Robbed(f, J, p, n),
           J2[p].ip = GotSlot(f, n), J2[p].dp = J[p].dp, J2[p].old = J[p].old, J2[p].drop = NoSlot,
           J2[p].at \in {"parent", "exists", "remove"} => n # U,
           NEW g, g = Got(f, n)
    PROVE  Good(c, b, g, F, J2) /\ GotRes(f, n, g) /\ GotSlot(f, n) \in Slots
<1>1. GotRes(f, n, g) /\ GotSlot(f, n) \in Slots
  BY GotFacts, GotSlotFacts DEF Good
<1>2. ASSUME c PROVE RefOK(g, F, J2)
  BY <1>2, TakeRef DEF Good
<1>3. ASSUME b PROVE OneOK(g)
  BY <1>3, OneGot DEF Good
<1> QED
  BY <1>1, <1>2, <1>3 DEF Good, GotRes

LEMMA GoodFree ==
    ASSUME NEW c, NEW b, NEW f, NEW F, NEW J, Good(c, b, f, F, J), NEW p \in Procs, NEW F2, NEW J2,
           OnlyProc(F, J, F2, J2, p), NEW s \in Slots, f.slot[s].ref >= 1,
           J2[p].drop \in {J[p].drop, NoSlot} \/ J2[p].drop = Dropping(f, s),
           NEW g, g = Freed(f, s),
           \A t \in Slots :
               /\ Mine(F[p], J[p], t) = Mine(F2[p], J2[p], t) + One(t = s)
               /\ Solid(F2[p], J2[p], t) => Solid(F[p], J[p], t) \/ f.slot[t].num # U
    PROVE  Good(c, b, g, F2, J2) /\ FreedRes(f, s, g)
<1>1. FreedRes(f, s, g)
  BY FreedFacts DEF Good
<1>2. ASSUME c PROVE RefOK(g, F2, J2)
  <2>1. f \in FS /\ RefOK(f, F, J)
    BY <1>2 DEF Good
  <2>2. J2[p].drop \in {J[p].drop, NoSlot} \/ (LastRef(f, s) /\ J2[p].drop = s)
    BY DEF Dropping
  <2>3. \A t \in Slots : Solid(F2[p], J2[p], t) => f.slot[t].num # U
    BY <2>1 DEF RefOK
  <2>4. \A t \in Slots : Mine(F[p], J[p], t) = Mine(F2[p], J2[p], t) + One(t = s)
    OBVIOUS
  <2> QED
    BY <2>1, <2>2, <2>3, <2>4, FreeRef
<1>3. ASSUME b PROVE OneOK(g)
  BY <1>3, OneFreed DEF Good
<1> QED
  BY <1>1, <1>2, <1>3 DEF Good, FreedRes

-----------------------------------------------------------------------------
(***************************************************************************)
(* The inductive invariant behind RefExact and OneSlot.                    *)
(***************************************************************************)
\* Which fields a system call has set, step by step; x is the open file.
Shape(x, j) ==
    /\ j.at = "idle" => j.ip = NoSlot /\ j.dp = NoSlot /\ j.old = NoSlot
    /\ j.at \in {"walk", "found", "parent", "exists"} => j.ip # NoSlot /\ j.dp = NoSlot
    /\ j.at \in {"check", "remove"} => j.ip # NoSlot /\ j.dp # NoSlot /\ j.path # <<>>
    /\ j.at \in {"found", "check", "exists", "remove"} => j.old = NoSlot
    /\ j.at \in {"undo", "undo_write"} => j.ip = NoSlot /\ j.dp = NoSlot /\ j.old # NoSlot
    /\ j.at = "parent" => j.path # <<>> /\ ForParent(j)
    /\ j.at \in {"walk", "parent"} /\ j.old # NoSlot => j.call = "link"
    /\ j.at = "check" => j.call \in {"create", "mkdir"}
    /\ j.at \in {"walk", "found", "parent", "check", "exists"} /\ j.call \in {"open", "create"} => x = NoSlot

Rest ==
    /\ lock \in [Slots -> Procs \cup {None}]
    /\ cwd \in [Procs -> Slots] /\ calls \in 0..MAX_CALLS
    /\ {halted, stolen, doubled, orphaned, uncounted} \subseteq BOOLEAN
    /\ unwritten \subseteq Inums

MaybeSlots == Slots \cup {NoSlot}
RefInv ==
    /\ Good(Intact, ~uncounted, fs, file, job)
    /\ file \in [Procs -> MaybeSlots] /\ job \in [Procs -> Job]
    /\ Intact => \A p \in Procs : Shape(file[p], job[p])
    /\ ~uncounted => \A p \in Procs : cwd[p] = 1
    /\ Rest

LEMMA RefInvType ==
    ASSUME RefInv
    PROVE  TypeOK
BY DEF RefInv, TypeOK, Rest, Good, FS, MaybeSlots

\* The step of process p, with file x and job j after it, keeps the invariant.
LEMMA StepInv ==
    ASSUME RefInv, Intact, NEW p \in Procs, NEW x \in MaybeSlots, NEW j \in Job, Shape(x, j),
           Good(Intact', ~uncounted', fs', file', job'),
           file' = [file EXCEPT ![p] = x], job' = [job EXCEPT ![p] = j],
           ~uncounted' => \A q \in Procs : cwd'[q] = 1, Rest'
    PROVE  RefInv'
<1>1. file' \in [Procs -> MaybeSlots] /\ job' \in [Procs -> Job]
  BY DEF RefInv
<1>2. ASSUME NEW q \in Procs PROVE Shape(file'[q], job'[q])
  BY DEF RefInv
<1> QED
  BY <1>1, <1>2 DEF RefInv

\* What process p has before its step.
Mid(p, F, J, x, j) ==
    /\ F = [file EXCEPT ![p] = x] /\ J = [job EXCEPT ![p] = j]

LEMMA MidFacts ==
    ASSUME RefInv, NEW p \in Procs, NEW F, NEW J, NEW x, NEW j, Mid(p, F, J, x, j)
    PROVE  F[p] = x /\ J[p] = j /\ \A q \in Procs : q # p => F[q] = file[q] /\ J[q] = job[q]
BY DEF Mid, RefInv

LEMMA MidOnly ==
    ASSUME RefInv, NEW p \in Procs, NEW F, NEW J, NEW x, NEW j, Mid(p, F, J, x, j),
           NEW F2, NEW J2, NEW x2, NEW j2, Mid(p, F2, J2, x2, j2)
    PROVE  OnlyProc(F, J, F2, J2, p)
BY MidFacts DEF OnlyProc

LEMMA MidNow ==
    ASSUME RefInv, NEW p \in Procs
    PROVE  Mid(p, file, job, file[p], job[p])
BY DEF Mid, RefInv

\* The slot of an inode that inode_lock accepts has a number.
LEMMA GoodNum ==
    ASSUME NEW f \in FS, NEW F, NEW J, RefOK(f, F, J), NEW s \in Slots, ~BadInode(f, s)
    PROVE  f.slot[s].num \in Inums /\ f.slot[s].num # U /\ f.slot[s].ref >= 1
<1>1. f.slot[s].num \in Inums \cup {U} /\ f.slot[s].ref \in Nat
  BY Sizes DEF FS, Slot
<1>2. SlotOK(f.slot[s], HoldersOf(F, J, s), Drops(J, s))
  BY DEF RefOK
<1>3. f.slot[s].num # U
  BY <1>2, Sizes DEF SlotOK, BadInode
<1> QED
  BY <1>1, <1>3 DEF BadInode

LEMMA GoodLock ==
    ASSUME NEW c, NEW b, NEW f, NEW F, NEW J, Good(c, b, f, F, J), NEW s \in Slots, ~BadInode(f, s),
           NEW g, g = Locked(f, s)
    PROVE  Good(c, b, g, F, J) /\ LockedRes(f, s, g)
<1>1. LockedRes(f, s, g) /\ SameRefs(f, g)
  BY LockedFacts, LockedRefs DEF Good
<1> QED
  BY <1>1, GoodSame DEF LockedRes

\* The end of a system call.
LEMMA IdleFacts ==
    ASSUME NEW d \in MaybeSlots
    PROVE  LET j == [Idle EXCEPT !.drop = d] IN
           /\ j \in Job /\ j.at = "idle" /\ j.ip = NoSlot /\ j.dp = NoSlot /\ j.old = NoSlot /\ j.drop = d
           /\ \A x : Shape(x, j)
<1>1. <<>> \in Seq(Names)
  OBVIOUS
<1> QED
  BY <1>1, Sizes DEF Idle, Job, Labels, Calls, MaybeSlots, Shape

UndoJob(a, o, d) == [Idle EXCEPT !.at = a, !.old = o, !.drop = d]

LEMMA UndoFacts ==
    ASSUME NEW d \in MaybeSlots, NEW o \in Slots, NEW a, a = "undo" \/ a = "undo_write",
           NEW j, j = UndoJob(a, o, d)
    PROVE  /\ j \in Job /\ j.at = a /\ j.ip = NoSlot /\ j.dp = NoSlot /\ j.old = o /\ j.drop = d
           /\ \A x : Shape(x, j)
<1>1. <<>> \in Seq(Names)
  OBVIOUS
<1> QED
  BY <1>1, Sizes DEF UndoJob, Idle, Job, Labels, Calls, MaybeSlots, Shape

-----------------------------------------------------------------------------
(***************************************************************************)
(* The steps.                                                              *)
(***************************************************************************)
LEMMA Now ==
    ASSUME RefInv, Intact, NEW p \in Procs
    PROVE  /\ job[p] \in Job /\ file[p] \in MaybeSlots /\ Shape(file[p], job[p])
           /\ RefOK(fs, file, job) /\ fs \in FS /\ Good(TRUE, ~uncounted, fs, file, job)
           /\ job[p].ip \in MaybeSlots /\ job[p].dp \in MaybeSlots /\ job[p].old \in MaybeSlots
           /\ job[p].drop \in MaybeSlots
BY DEF RefInv, Good, Job, MaybeSlots

LEMMA DroppingType ==
    ASSUME NEW f, NEW s \in Slots
    PROVE  Dropping(f, s) \in MaybeSlots
BY DEF Dropping, MaybeSlots

\* The walk ends with nothing.
NullRes(p, d, j2) ==
    /\ j2 \in Job /\ Shape(file[p], j2) /\ job' = [job EXCEPT ![p] = j2]
    /\ j2.ip = NoSlot /\ j2.dp = NoSlot /\ j2.old = job[p].old /\ j2.drop = d

LEMMA ReturnFacts ==
    ASSUME RefInv, Intact, NEW p \in Procs, NEW d \in MaybeSlots, Return(p, d), job[p].old = NoSlot
    PROVE  \E j2 : NullRes(p, d, j2)
<1>1. PICK j2 : j2 = [Idle EXCEPT !.drop = d]
  OBVIOUS
<1>2. j2 \in Job /\ j2.ip = NoSlot /\ j2.dp = NoSlot /\ j2.old = NoSlot /\ j2.drop = d /\ Shape(file[p], j2)
  BY <1>1, IdleFacts
<1>3. job' = [job EXCEPT ![p] = j2]
  BY <1>1 DEF Return
<1> QED
  BY <1>2, <1>3 DEF NullRes

LEMMA ReturnNullFacts ==
    ASSUME RefInv, Intact, NEW p \in Procs, NEW d \in MaybeSlots, ReturnNull(p, d)
    PROVE  \E j2 : NullRes(p, d, j2)
<1>1. CASE job[p].old = NoSlot
  BY <1>1, ReturnFacts DEF ReturnNull
<1>2. CASE job[p].old # NoSlot
  <2>1. job[p].old \in Slots
    BY <1>2, Now DEF MaybeSlots
  <2>2. PICK o : o = job[p].old
    OBVIOUS
  <2>3. PICK j2 : j2 = UndoJob("undo_write", o, d)
    OBVIOUS
  <2>4. j2 \in Job /\ j2.ip = NoSlot /\ j2.dp = NoSlot /\ j2.old = o /\ j2.drop = d /\ Shape(file[p], j2)
    BY <2>1, <2>2, <2>3, UndoFacts
  <2>5. job' = [job EXCEPT ![p] = j2]
    BY <1>2, <2>2, <2>3 DEF ReturnNull, UndoJob
  <2> QED
    BY <2>2, <2>4, <2>5 DEF NullRes
<1> QED
  BY <1>1, <1>2

\* inode_free where the process stands.
LEMMA FreeHere ==
    ASSUME RefInv, Intact, NEW p \in Procs, NEW b, NEW f, Good(TRUE, b, f, file, job), NEW s \in Slots,
           job[p].ip = s, job[p].dp = NoSlot, NEW g, g = Freed(f, s), NEW d, d = Dropping(f, s),
           NEW j2, NullRes(p, d, j2)
    PROVE  Good(TRUE, b, g, file, job') /\ FreedRes(f, s, g)
<1>1. PICK J2 : J2 = job'
  OBVIOUS
<1>2. Mid(p, file, J2, file[p], j2)
  BY <1>1, MidNow DEF Mid, NullRes
<1>3. OnlyProc(file, job, file, J2, p) /\ J2[p] = j2
  BY <1>2, MidNow, MidOnly, MidFacts
<1>4. Mine(file[p], job[p], s) >= 1 /\ Mine(file[p], job[p], s) \in Nat
  BY DEF Mine, One
<1>5. f.slot[s].ref >= 1
  BY <1>4, HeldRef DEF Good
<1>6. ASSUME NEW t \in Slots
      PROVE  /\ Mine(file[p], job[p], t) = Mine(file[p], J2[p], t) + One(t = s)
             /\ Solid(file[p], J2[p], t) => Solid(file[p], job[p], t) \/ f.slot[t].num # U
  <2>1. J2[p].ip = NoSlot /\ J2[p].dp = NoSlot /\ J2[p].old = job[p].old
    BY <1>3 DEF NullRes
  <2>2. NoSlot # t
    BY Sizes
  <2> QED
    BY <2>1, <2>2 DEF Mine, One, Solid
<1>7. J2[p].drop = Dropping(f, s)
  BY <1>3 DEF NullRes
<1>8. Good(TRUE, b, g, file, J2) /\ FreedRes(f, s, g)
  <2>1. PICK F, J, c : F = file /\ J = job /\ c = TRUE
    OBVIOUS
  <2>2. Good(c, b, f, F, J) /\ OnlyProc(F, J, F, J2, p) /\ J2[p].drop = Dropping(f, s)
    BY <1>3, <1>7, <2>1
  <2>3. \A t \in Slots :
               /\ Mine(F[p], J[p], t) = Mine(F[p], J2[p], t) + One(t = s)
               /\ Solid(F[p], J2[p], t) => Solid(F[p], J[p], t) \/ f.slot[t].num # U
    BY <1>6, <2>1
  <2>4. Good(c, b, g, F, J2) /\ FreedRes(f, s, g)
    BY <1>5, <2>2, <2>3, GoodFree
  <2> QED
    BY <2>1, <2>4
<1> QED
  BY <1>1, <1>8

\* A step that leaves the file and all but p's job alone.
LEMMA NullInv ==
    ASSUME RefInv, Intact, NEW p \in Procs, NEW d, NEW j2, NullRes(p, d, j2),
           Good(TRUE, ~uncounted, fs', file, job'), uncounted' = uncounted, file' = file, cwd' = cwd, Rest'
    PROVE  RefInv'
<1>1. file' = [file EXCEPT ![p] = file[p]] /\ file[p] \in MaybeSlots
  BY DEF RefInv
<1>2. Good(Intact', ~uncounted', fs', file', job')
  BY DEF Good
<1>3. ~uncounted' => \A q \in Procs : cwd'[q] = 1
  BY DEF RefInv
<1> QED
  BY <1>1, <1>2, <1>3, StepInv DEF NullRes

LEMMA StandsSlot ==
    ASSUME RefInv, Intact, NEW p \in Procs, job[p].at \in {"walk", "found", "parent", "check", "exists", "remove"}
    PROVE  job[p].ip \in Slots
BY Now DEF Shape, MaybeSlots

LEMMA search_notdir_step ==
    ASSUME RefInv, NEW p \in Procs, search_notdir(p)
    PROVE  RefInv'
<1>1. PICK s : s = job[p].ip
  OBVIOUS
<1>2. PICK f : f = Locked(fs, s)
  OBVIOUS
<1>3. Intact /\ job[p].at = "walk" /\ ~BadInode(fs, s) /\ fs' = Freed(f, s) /\ ReturnNull(p, Dropping(f, s))
      /\ UNCHANGED <<lock, cwd, file, calls, flags>>
  BY <1>1, <1>2 DEF search_notdir, CanLock, Ready
<1>4. s \in Slots /\ job[p].dp = NoSlot
  BY <1>1, <1>3, StandsSlot, Now DEF Shape
<1>5. Good(TRUE, ~uncounted, f, file, job)
  BY <1>2, <1>3, <1>4, GoodLock, Now
<1>6. PICK d : d = Dropping(f, s) /\ d \in MaybeSlots
  BY <1>4, DroppingType
<1>7. PICK j2 : NullRes(p, d, j2)
  BY <1>3, <1>6, ReturnNullFacts
<1>8. Good(TRUE, ~uncounted, fs', file, job')
  BY <1>1, <1>3, <1>4, <1>5, <1>6, <1>7, FreeHere
<1>9. Rest'
  BY <1>3 DEF RefInv, Rest, flags
<1> QED
  BY <1>3, <1>7, <1>8, <1>9, NullInv DEF flags

\* A process with the fields that count, in a state between two calls.
Stub(i, d, o) == [at |-> "walk", ip |-> i, dp |-> d, old |-> o, drop |-> NoSlot]

StubRes(F, J, p, i, d, o, J1) ==
    /\ OnlyProc(F, J, F, J1, p)
    /\ J1[p].at = "walk" /\ J1[p].ip = i /\ J1[p].dp = d /\ J1[p].old = o /\ J1[p].drop = NoSlot
    /\ \A J2 : OnlyProc(F, J, F, J2, p) => OnlyProc(F, J1, F, J2, p)
    /\ \A q \in Procs : q # p => J1[q] = J[q]

LEMMA StubFacts ==
    ASSUME NEW F, NEW J, NEW p \in Procs, NEW i, NEW d, NEW o
    PROVE  \E J1 : StubRes(F, J, p, i, d, o, J1)
<1>1. PICK J1 : J1 = [q \in Procs |-> IF q = p THEN Stub(i, d, o) ELSE J[q]]
  OBVIOUS
<1>2. J1[p] = Stub(i, d, o) /\ \A q \in Procs : q # p => J1[q] = J[q]
  BY <1>1
<1> QED
  BY <1>2 DEF OnlyProc, Stub, StubRes

\* A step within a system call that gives up nothing and takes nothing.
LEMMA GoodStay ==
    ASSUME NEW c, NEW b, NEW f, NEW F, NEW J, Good(c, b, f, F, J), NEW p \in Procs, NEW J2,
           OnlyProc(F, J, F, J2, p), c => RefOK(f, F, J),
           J2[p].ip = J[p].ip, J2[p].dp = J[p].dp, J2[p].old = J[p].old, J2[p].drop = J[p].drop,
           J2[p].at \in {"parent", "exists", "remove"} => f.slot[J2[p].ip].num # U
    PROVE  Good(c, b, f, F, J2)
<1>1. ASSUME c PROVE RefOK(f, F, J2)
  <2>1. RefOK(f, F, J) /\ f \in FS
    BY <1>1 DEF Good
  <2>2. ASSUME NEW t \in Slots
        PROVE  /\ Mine(F[p], J2[p], t) = Mine(F[p], J[p], t)
               /\ Mine(F[p], J2[p], t) <= Mine(F[p], J[p], t)
               /\ Solid(F[p], J2[p], t) => f.slot[t].num # U
    <3>1. Mine(F[p], J2[p], t) = Mine(F[p], J[p], t) /\ Mine(F[p], J2[p], t) \in Nat
      BY DEF Mine, One
    <3>2. F[p] = t \/ J2[p].dp = t \/ J2[p].old = t => Solid(F[p], J[p], t)
      BY DEF Solid
    <3>3. Solid(F[p], J2[p], t) => f.slot[t].num # U
      BY <2>1, <3>2 DEF Solid, RefOK
    <3> QED
      BY <3>1, <3>3
  <2> QED
    BY <2>1, <2>2, MoveRef
<1> QED
  BY <1>1 DEF Good

\* The process stands at a numbered slot s, keeps it as dp, and gets another.
LEMMA GoodStep ==
    ASSUME NEW c, NEW b, NEW f, NEW F, NEW J, Good(c, b, f, F, J), NEW p \in Procs, NEW J2,
           OnlyProc(F, J, F, J2, p), NEW s \in Slots, J[p].ip = s, J[p].dp = NoSlot, J[p].drop = NoSlot,
           f.slot[s].num # U,
           NEW n \in Inums \cup {U}, CanGet(f, n), c => ~Robbed(f, J, p, n), NEW g, g = Got(f, n),
           J2[p].ip = GotSlot(f, n), J2[p].dp = s, J2[p].old = J[p].old, J2[p].drop = NoSlot,
           J2[p].at \in {"parent", "exists", "remove"} => n # U
    PROVE  Good(c, b, g, F, J2) /\ GotRes(f, n, g) /\ GotSlot(f, n) \in Slots
<1>0. PICK J1 : StubRes(F, J, p, NoSlot, s, J[p].old, J1)
  BY StubFacts
<1>1. /\ OnlyProc(F, J, F, J1, p)
      /\ J1[p].at = "walk" /\ J1[p].ip = NoSlot /\ J1[p].dp = s /\ J1[p].old = J[p].old /\ J1[p].drop = NoSlot
      /\ \A J3 : OnlyProc(F, J, F, J3, p) => OnlyProc(F, J1, F, J3, p)
      /\ \A q \in Procs : q # p => J1[q] = J[q]
  BY <1>0 DEF StubRes
<1>2. ASSUME NEW t \in Slots
      PROVE  /\ Mine(F[p], J1[p], t) <= Mine(F[p], J[p], t)
             /\ f.slot[t].num # U => Mine(F[p], J1[p], t) = Mine(F[p], J[p], t)
  BY <1>1, Sizes DEF Mine, One
<1>3. ASSUME c, NEW t \in Slots, Solid(F[p], J1[p], t)
      PROVE  f.slot[t].num # U
  <2>1. t = s \/ Solid(F[p], J[p], t)
    BY <1>1, <1>3 DEF Solid
  <2> QED
    BY <1>3, <2>1 DEF Good, RefOK
<1>4. Good(c, b, f, F, J1)
  <2>1. ASSUME c PROVE RefOK(f, F, J1)
    <3>1. RefOK(f, F, J) /\ f \in FS
      BY <2>1 DEF Good
    <3> QED
      BY <1>1, <1>2, <1>3, <2>1, <3>1, MoveRef
  <2> QED
    BY <2>1 DEF Good
<1>5. c => ~Robbed(f, J1, p, n)
  BY <1>1 DEF Robbed
<1>6. OnlyProc(F, J1, F, J2, p) /\ J2[p].dp = J1[p].dp /\ J2[p].old = J1[p].old
  BY <1>1
<1> QED
  BY <1>1, <1>4, <1>5, <1>6, GoodTake

\* search_inode goes on to the entry it found.
LEMMA GoodNext ==
    ASSUME NEW c, NEW b, NEW f, NEW F, NEW J, Good(c, b, f, F, J), NEW p \in Procs, NEW J2,
           OnlyProc(F, J, F, J2, p), NEW s \in Slots, J[p].ip = s, J[p].dp = NoSlot, J[p].drop = NoSlot,
           f.slot[s].num # U, f.slot[s].ref >= 1,
           NEW n \in Inums \cup {U}, CanGet(f, n), c => ~Robbed(f, J, p, n), NEW g, g = Got(f, n),
           J2[p].ip = GotSlot(f, n), J2[p].dp = NoSlot, J2[p].old = J[p].old, J2[p].drop = Dropping(g, s),
           J2[p].at \notin {"parent", "exists", "remove"}, NEW h, h = Freed(g, s)
    PROVE  Good(c, b, h, F, J2) /\ GotRes(f, n, g) /\ GotSlot(f, n) \in Slots /\ FreedRes(g, s, h)
<1>0. PICK J1 : StubRes(F, J, p, GotSlot(f, n), s, J[p].old, J1)
  BY StubFacts
<1>1. /\ OnlyProc(F, J, F, J1, p)
      /\ J1[p].at = "walk" /\ J1[p].ip = GotSlot(f, n) /\ J1[p].dp = s /\ J1[p].old = J[p].old
      /\ J1[p].drop = NoSlot
      /\ \A J3 : OnlyProc(F, J, F, J3, p) => OnlyProc(F, J1, F, J3, p)
      /\ \A q \in Procs : q # p => J1[q] = J[q]
  BY <1>0 DEF StubRes
<1>2. Good(c, b, g, F, J1) /\ GotRes(f, n, g) /\ GotSlot(f, n) \in Slots
  BY <1>1, GoodStep
<1>3. g.slot[s].ref >= 1
  <2>1. f.slot[s].ref \in Nat
    BY DEF Good, FS, Slot
  <2> QED
    BY <1>2, <2>1 DEF GotRes, Only
<1>4. ASSUME NEW t \in Slots
      PROVE  /\ Mine(F[p], J1[p], t) = Mine(F[p], J2[p], t) + One(t = s)
             /\ Solid(F[p], J2[p], t) => Solid(F[p], J1[p], t) \/ g.slot[t].num # U
  BY <1>1, Sizes DEF Mine, One, Solid
<1>5. OnlyProc(F, J1, F, J2, p)
  BY <1>1
<1>6. Good(c, b, h, F, J2) /\ FreedRes(g, s, h)
  BY <1>2, <1>3, <1>4, <1>5, GoodFree
<1> QED
  BY <1>2, <1>6

\* A step that leaves the files alone.
LEMMA JobInv ==
    ASSUME RefInv, Intact, NEW p \in Procs, NEW j2 \in Job, Shape(file[p], j2), job' = [job EXCEPT ![p] = j2],
           NEW c, Intact' => c, Good(c, ~uncounted, fs', file, job'), uncounted' = uncounted, file' = file, cwd' = cwd, Rest'
    PROVE  RefInv'
<1>1. file' = [file EXCEPT ![p] = file[p]] /\ file[p] \in MaybeSlots
  BY DEF RefInv
<1>2. Good(Intact', ~uncounted', fs', file', job')
  BY DEF Good
<1>3. ~uncounted' => \A q \in Procs : cwd'[q] = 1
  BY DEF RefInv
<1> QED
  BY <1>1, <1>2, <1>3, StepInv

LEMMA JobOnly ==
    ASSUME RefInv, NEW p \in Procs, NEW j2, NEW J2, J2 = [job EXCEPT ![p] = j2]
    PROVE  OnlyProc(file, job, file, J2, p) /\ J2[p] = j2
BY DEF RefInv, OnlyProc

\* inode_lock where a process stands, at a step of its system call.
LockStep(p, s, f) ==
    /\ s \in Slots /\ f \in FS /\ LockedRes(fs, s, f) /\ Good(TRUE, ~uncounted, f, file, job)
    /\ f.slot[s].num \in Inums /\ f.slot[s].num # U /\ f.slot[s].ref >= 1
    /\ f.slot[s].num = fs.slot[s].num

LEMMA LockFacts ==
    ASSUME RefInv, Intact, NEW p \in Procs, NEW s \in Slots, ~BadInode(fs, s), NEW f, f = Locked(fs, s)
    PROVE  LockStep(p, s, f)
<1>1. Good(TRUE, ~uncounted, f, file, job) /\ LockedRes(fs, s, f)
  BY Now, GoodLock
<1>2. fs.slot[s].num \in Inums /\ fs.slot[s].num # U /\ fs.slot[s].ref >= 1
  BY Now, GoodNum
<1> QED
  BY <1>1, <1>2 DEF LockStep, LockedRes

LEMMA search_parent_step ==
    ASSUME RefInv, NEW p \in Procs, search_parent(p)
    PROVE  RefInv'
<1>1. PICK s : s = job[p].ip
  OBVIOUS
<1>2. PICK f : f = Locked(fs, s)
  OBVIOUS
<1>3. Intact /\ job[p].at = "walk" /\ job[p].drop = NoSlot /\ ~BadInode(fs, s) /\ fs' = f
      /\ ForParent(job[p]) /\ Len(job[p].path) = 1
      /\ job' = [job EXCEPT ![p].at = "parent"] /\ UNCHANGED <<lock, cwd, file, calls, flags>>
  BY <1>1, <1>2 DEF search_parent, CanLock, Ready
<1>4. s \in Slots /\ job[p].dp = NoSlot /\ job[p] \in Job /\ Shape(file[p], job[p])
  BY <1>1, <1>3, StandsSlot, Now DEF Shape
<1>5. LockStep(p, s, f)
  BY <1>2, <1>3, <1>4, LockFacts
<1>6. PICK j2 : j2 = [job[p] EXCEPT !.at = "parent"]
  OBVIOUS
<1>7. j2 \in Job /\ j2.at = "parent" /\ j2.ip = s /\ j2.dp = NoSlot /\ j2.old = job[p].old /\ j2.drop = NoSlot
      /\ j2.call = job[p].call /\ j2.path = job[p].path
  BY <1>1, <1>3, <1>4, <1>6 DEF Job, Labels
<1>8. job' = [job EXCEPT ![p] = j2]
  BY <1>3, <1>6
<1>9. Shape(file[p], j2)
  <2>1. job[p].path # <<>>
    BY <1>3
  <2> QED
    BY <1>1, <1>3, <1>4, <1>7, <2>1, Sizes DEF Shape, ForParent
<1>10. Good(TRUE, ~uncounted, fs', file, job')
  <2>1. PICK F, J, c, J2, b : F = file /\ J = job /\ c = TRUE /\ J2 = job' /\ b = ~uncounted
    OBVIOUS
  <2>2. Good(c, b, f, F, J) /\ (c => RefOK(f, F, J))
    BY <1>5, <2>1 DEF LockStep, Good
  <2>3. OnlyProc(F, J, F, J2, p) /\ J2[p] = j2
    BY <1>8, <2>1, JobOnly
  <2>4. J2[p].ip = J[p].ip /\ J2[p].dp = J[p].dp /\ J2[p].old = J[p].old /\ J2[p].drop = J[p].drop /\ J2[p].ip = s
    BY <1>1, <1>3, <1>4, <1>7, <2>1, <2>3
  <2>5. f.slot[J2[p].ip].num # U
    BY <1>5, <2>4 DEF LockStep
  <2>6. Good(c, b, f, F, J2)
    BY <2>2, <2>3, <2>4, <2>5, GoodStay
  <2> QED
    BY <1>3, <2>1, <2>6
<1>11. Rest'
  BY <1>3 DEF RefInv, Rest, flags
<1> QED
  BY <1>3, <1>7, <1>8, <1>9, <1>10, <1>11, JobInv DEF flags

LEMMA NameHead ==
    ASSUME NEW j \in Job, j.path # <<>>
    PROVE  Head(j.path) \in Names /\ Tail(j.path) \in Seq(Names)
BY DEF Job

LEMMA EntryType ==
    ASSUME NEW f \in FS, NEW s, f.slot[s].num \in Inums, NEW x \in Names
    PROVE  Entry(f, s, x) \in Inums \cup {U}
<1>1. f.entry[f.slot[s].num] \in [Names -> Inums \cup {U}]
  BY DEF FS, U
<1> QED
  BY <1>1 DEF Entry

LEMMA search_next_step ==
    ASSUME RefInv, NEW p \in Procs, search_next(p)
    PROVE  RefInv'
<1>1. PICK s : s = job[p].ip
  OBVIOUS
<1>2. PICK f : f = Locked(fs, s)
  OBVIOUS
<1>a. PICK n : n = Entry(f, s, Head(job[p].path))
  OBVIOUS
<1>b. PICK g : g = Got(f, n)
  OBVIOUS
<1>3. /\ Intact /\ job[p].at = "walk" /\ job[p].drop = NoSlot /\ ~BadInode(fs, s) /\ fs' = Freed(g, s)
      /\ job[p].path # <<>> /\ CanGet(f, n) /\ stolen' = Robs(p, f, n)
      /\ job' = [job EXCEPT ![p].ip = GotSlot(f, n), ![p].path = Tail(@), ![p].drop = Dropping(g, s)]
      /\ UNCHANGED <<lock, cwd, file, calls, halted, doubled, orphaned, uncounted, unwritten>>
  BY <1>1, <1>2, <1>a, <1>b DEF search_next, CanLock, Ready
<1>4. s \in Slots /\ job[p].dp = NoSlot /\ job[p] \in Job /\ Shape(file[p], job[p])
  BY <1>1, <1>3, StandsSlot, Now DEF Shape
<1>5. LockStep(p, s, f)
  BY <1>2, <1>3, <1>4, LockFacts
<1>6. n \in Inums \cup {U} /\ Head(job[p].path) \in Names /\ Tail(job[p].path) \in Seq(Names)
  BY <1>a, <1>3, <1>4, <1>5, NameHead, EntryType DEF LockStep
<1>7. PICK i, d : i = GotSlot(f, n) /\ d = Dropping(g, s) /\ i \in Slots /\ d \in MaybeSlots
  BY <1>3, <1>4, <1>5, GotSlotFacts, DroppingType DEF LockStep
<1>8. PICK j2 : j2 = [job[p] EXCEPT !.ip = i, !.path = Tail(@), !.drop = d]
  OBVIOUS
<1>9. j2 \in Job /\ j2.at = "walk" /\ j2.ip = i /\ j2.dp = NoSlot /\ j2.old = job[p].old /\ j2.drop = d
      /\ j2.call = job[p].call
  BY <1>3, <1>4, <1>6, <1>7, <1>8 DEF Job, MaybeSlots
<1>10. job' = [job EXCEPT ![p] = j2]
  BY <1>3, <1>7, <1>8
<1>11. Shape(file[p], j2)
  BY <1>3, <1>4, <1>7, <1>9, Sizes DEF Shape
<1>12. Good(~stolen', ~uncounted, fs', file, job')
  <2>1. PICK F, J, c, J2, b, h : F = file /\ J = job /\ c = ~stolen' /\ J2 = job' /\ b = ~uncounted /\ h = Freed(g, s)
    OBVIOUS
  <2>2. Good(c, b, f, F, J)
    BY <1>5, <2>1 DEF LockStep, Good
  <2>3. OnlyProc(F, J, F, J2, p) /\ J2[p] = j2
    BY <1>10, <2>1, JobOnly
  <2>4. c => ~Robbed(f, J, p, n)
    BY <1>3, <2>1, Sizes DEF Robbed, Robs
  <2>5. Good(c, b, h, F, J2)
    <3>1. J[p].ip = s /\ J[p].dp = NoSlot /\ J[p].drop = NoSlot
      BY <1>1, <1>3, <1>4, <2>1
    <3>2. J2[p].ip = GotSlot(f, n) /\ J2[p].dp = NoSlot /\ J2[p].old = J[p].old /\ J2[p].drop = Dropping(g, s)
          /\ J2[p].at \notin {"parent", "exists", "remove"}
      BY <1>7, <1>9, <2>1, <2>3
    <3>3. f.slot[s].num # U /\ f.slot[s].ref >= 1 /\ CanGet(f, n) /\ h = Freed(g, s)
      BY <1>3, <1>5, <2>1 DEF LockStep
    <3>4. s \in Slots /\ n \in Inums \cup {U} /\ OnlyProc(F, J, F, J2, p)
      BY <1>4, <1>6, <2>3
    <3> QED
      BY <1>b, <2>2, <2>4, <3>1, <3>2, <3>3, <3>4, GoodNext
  <2> QED
    BY <1>3, <2>1, <2>5
<1>13. Rest'
  <2>1. stolen' \in BOOLEAN
    BY <1>3 DEF Robs
  <2> QED
    BY <1>3, <2>1 DEF RefInv, Rest
<1>14. Intact' => ~stolen'
  BY DEF Intact
<1> QED
  BY <1>3, <1>9, <1>10, <1>11, <1>12, <1>13, <1>14, JobInv

LEMMA search_end_step ==
    ASSUME RefInv, NEW p \in Procs, search_end(p)
    PROVE  RefInv'
<1>1. PICK s : s = job[p].ip
  OBVIOUS
<1>2. Intact /\ job[p].at = "walk" /\ job[p].drop = NoSlot /\ UNCHANGED <<lock, cwd, file, calls, flags>>
  BY DEF search_end, Ready
<1>3. s \in Slots /\ job[p].dp = NoSlot /\ job[p] \in Job /\ Shape(file[p], job[p])
      /\ Good(TRUE, ~uncounted, fs, file, job)
  BY <1>1, <1>2, StandsSlot, Now DEF Shape
<1>4. Rest'
  BY <1>2 DEF RefInv, Rest, flags
<1>5. CASE ForParent(job[p])
  <2>1. fs' = Freed(fs, s) /\ ReturnNull(p, Dropping(fs, s))
    BY <1>1, <1>5 DEF search_end
  <2>2. PICK d : d = Dropping(fs, s) /\ d \in MaybeSlots
    BY <1>3, DroppingType
  <2>3. PICK j2 : NullRes(p, d, j2)
    BY <1>2, <2>1, <2>2, ReturnNullFacts
  <2>4. PICK f : f = fs
    OBVIOUS
  <2>5. Good(TRUE, ~uncounted, fs', file, job')
    BY <1>1, <1>2, <1>3, <2>1, <2>2, <2>3, <2>4, FreeHere
  <2> QED
    BY <1>2, <1>4, <2>3, <2>5, NullInv DEF flags
<1>6. CASE ~ForParent(job[p])
  <2>1. fs' = fs /\ job' = [job EXCEPT ![p].at = "found"]
    BY <1>6 DEF search_end
  <2>2. PICK j2 : j2 = [job[p] EXCEPT !.at = "found"]
    OBVIOUS
  <2>3. j2 \in Job /\ j2.at = "found" /\ j2.ip = s /\ j2.dp = NoSlot /\ j2.old = job[p].old /\ j2.drop = NoSlot
        /\ j2.call = job[p].call
    BY <1>1, <1>2, <1>3, <2>2 DEF Job, Labels
  <2>4. job' = [job EXCEPT ![p] = j2]
    BY <2>1, <2>2
  <2>5. Shape(file[p], j2)
    BY <1>2, <1>3, <1>6, <2>3, Sizes DEF Shape, ForParent
  <2>6. Good(TRUE, ~uncounted, fs', file, job')
    <3>1. PICK F, J, c, J2, b, f : F = file /\ J = job /\ c = TRUE /\ J2 = job' /\ b = ~uncounted /\ f = fs
      OBVIOUS
    <3>2. Good(c, b, f, F, J) /\ (c => RefOK(f, F, J))
      BY <1>3, <3>1 DEF Good
    <3>3. OnlyProc(F, J, F, J2, p) /\ J2[p] = j2
      BY <2>4, <3>1, JobOnly
    <3>4. /\ J2[p].ip = J[p].ip /\ J2[p].dp = J[p].dp /\ J2[p].old = J[p].old /\ J2[p].drop = J[p].drop
          /\ J2[p].at \notin {"parent", "exists", "remove"}
      BY <1>1, <1>2, <1>3, <2>3, <3>1, <3>3
    <3>5. Good(c, b, f, F, J2)
      BY <3>2, <3>3, <3>4, GoodStay
    <3> QED
      BY <2>1, <3>1, <3>5
  <2> QED
    BY <1>2, <1>4, <2>3, <2>4, <2>5, <2>6, JobInv DEF flags
<1> QED
  BY <1>5, <1>6

\* The reference of a step goes to a slot numbered UNUSED, and is forgotten.
LEMMA GoodForget ==
    ASSUME NEW c, NEW b, NEW f, NEW F, NEW J, Good(c, b, f, F, J), NEW p \in Procs, NEW J2,
           OnlyProc(F, J, F, J2, p), NEW s \in Slots, J[p].ip = s, f.slot[s].num = U,
           J2[p].ip = NoSlot, J2[p].dp = J[p].dp, J2[p].old = J[p].old, J2[p].drop = NoSlot
    PROVE  Good(c, b, f, F, J2)
<1>1. ASSUME c PROVE RefOK(f, F, J2)
  <2>1. RefOK(f, F, J) /\ f \in FS
    BY <1>1 DEF Good
  <2>2. ASSUME NEW t \in Slots
        PROVE  /\ Mine(F[p], J2[p], t) <= Mine(F[p], J[p], t)
               /\ f.slot[t].num # U => Mine(F[p], J2[p], t) = Mine(F[p], J[p], t)
    BY Sizes DEF Mine, One
  <2>3. ASSUME NEW t \in Slots, Solid(F[p], J2[p], t) PROVE f.slot[t].num # U
    <3>1. Solid(F[p], J[p], t)
      BY <2>3, Sizes DEF Solid
    <3> QED
      BY <2>1, <3>1 DEF RefOK
  <2>4. J2[p].drop \in {J[p].drop, NoSlot}
    OBVIOUS
  <2> QED
    BY <2>1, <2>2, <2>3, <2>4, MoveRef
<1> QED
  BY <1>1 DEF Good

LEMMA path_missing_step ==
    ASSUME RefInv, NEW p \in Procs, path_missing(p)
    PROVE  RefInv'
<1>1. PICK s : s = job[p].ip
  OBVIOUS
<1>2. Intact /\ job[p].at = "found" /\ job[p].drop = NoSlot /\ UNCHANGED <<fs, lock, cwd, file, calls, flags>>
      /\ Return(p, NoSlot) /\ fs.slot[s].num = U
  BY <1>1, Sizes DEF path_missing, Ready
<1>3. s \in Slots /\ job[p].dp = NoSlot /\ job[p].old = NoSlot /\ Good(TRUE, ~uncounted, fs, file, job)
  BY <1>1, <1>2, StandsSlot, Now DEF Shape
<1>4. Rest'
  BY <1>2 DEF RefInv, Rest, flags
<1>5. NoSlot \in MaybeSlots
  BY DEF MaybeSlots
<1>6. PICK j2 : NullRes(p, NoSlot, j2)
  BY <1>2, <1>3, <1>5, ReturnFacts
<1>7. Good(TRUE, ~uncounted, fs', file, job')
  <2>1. PICK F, J, c, J2, b, f : F = file /\ J = job /\ c = TRUE /\ J2 = job' /\ b = ~uncounted /\ f = fs
    OBVIOUS
  <2>2. Good(c, b, f, F, J)
    BY <1>3, <2>1
  <2>3. OnlyProc(F, J, F, J2, p) /\ J2[p] = j2
    BY <1>6, <2>1, JobOnly DEF NullRes
  <2>4. J[p].ip = s /\ f.slot[s].num = U /\ s \in Slots
    BY <1>1, <1>2, <1>3, <2>1
  <2>5. J2[p].ip = NoSlot /\ J2[p].dp = J[p].dp /\ J2[p].old = J[p].old /\ J2[p].drop = NoSlot
    BY <1>3, <1>6, <2>1, <2>3 DEF NullRes
  <2>6. Good(c, b, f, F, J2)
    BY <2>2, <2>3, <2>4, <2>5, GoodForget
  <2> QED
    BY <1>2, <2>1, <2>6
<1> QED
  BY <1>2, <1>4, <1>6, <1>7, NullInv DEF flags

\* The reference of a step becomes that of an open file.
LEMMA GoodOpen ==
    ASSUME NEW c, NEW b, NEW f, NEW F, NEW J, Good(c, b, f, F, J), NEW p \in Procs, NEW F2, NEW J2,
           OnlyProc(F, J, F2, J2, p), NEW s \in Slots, f.slot[s].num # U,
           J[p].ip = s, J[p].dp = NoSlot, J[p].old = NoSlot, F[p] = NoSlot, F2[p] = s,
           J2[p].ip = NoSlot, J2[p].dp = NoSlot, J2[p].old = NoSlot, J2[p].drop \in {J[p].drop, NoSlot}
    PROVE  Good(c, b, f, F2, J2)
<1>1. ASSUME c PROVE RefOK(f, F2, J2)
  <2>1. RefOK(f, F, J) /\ f \in FS
    BY <1>1 DEF Good
  <2>2. ASSUME NEW t \in Slots
        PROVE  /\ Mine(F2[p], J2[p], t) <= Mine(F[p], J[p], t)
               /\ f.slot[t].num # U => Mine(F2[p], J2[p], t) = Mine(F[p], J[p], t)
               /\ Solid(F2[p], J2[p], t) => f.slot[t].num # U
    BY Sizes DEF Mine, One, Solid
  <2> QED
    BY <2>1, <2>2, MoveRef
<1> QED
  BY <1>1 DEF Good

\* The same as a step of a system call that ends with it.
LEMMA OpenInv ==
    ASSUME RefInv, Intact, NEW p \in Procs, job[p].at \in {"found", "exists"}, job[p].call \in {"open", "create"},
           NEW s, s = job[p].ip, ~BadInode(fs, s), fs' = Locked(fs, s), file' = [file EXCEPT ![p] = s],
           Return(p, NoSlot), UNCHANGED <<lock, cwd, calls, flags>>
    PROVE  RefInv'
<1>1. s \in Slots /\ job[p].dp = NoSlot /\ job[p].old = NoSlot /\ file[p] = NoSlot
  BY StandsSlot, Now DEF Shape
<1>2. PICK f : f = Locked(fs, s)
  OBVIOUS
<1>3. LockStep(p, s, f)
  BY <1>1, <1>2, LockFacts
<1>4. NoSlot \in MaybeSlots /\ s \in MaybeSlots
  BY <1>1 DEF MaybeSlots
<1>5. PICK j2 : j2 = [Idle EXCEPT !.drop = NoSlot]
  OBVIOUS
<1>6. j2 \in Job /\ j2.ip = NoSlot /\ j2.dp = NoSlot /\ j2.old = NoSlot /\ j2.drop = NoSlot /\ Shape(s, j2)
      /\ job' = [job EXCEPT ![p] = j2]
  BY <1>4, <1>5, IdleFacts DEF Return
<1>7. Good(TRUE, ~uncounted, fs', file', job')
  <2>1. PICK F, J, c, J2, b, F2 : F = file /\ J = job /\ c = TRUE /\ J2 = job' /\ b = ~uncounted /\ F2 = file'
    OBVIOUS
  <2>2. Good(c, b, f, F, J) /\ f.slot[s].num # U
    BY <1>3, <2>1 DEF LockStep
  <2>3. OnlyProc(F, J, F2, J2, p) /\ J2[p] = j2 /\ F2[p] = s
    BY <1>6, <2>1 DEF RefInv, OnlyProc
  <2>4. J[p].ip = s /\ J[p].dp = NoSlot /\ J[p].old = NoSlot /\ F[p] = NoSlot
    BY <1>1, <2>1
  <2>5. J2[p].ip = NoSlot /\ J2[p].dp = NoSlot /\ J2[p].old = NoSlot /\ J2[p].drop \in {J[p].drop, NoSlot}
    BY <1>6, <2>3
  <2>6. Good(c, b, f, F2, J2)
    BY <1>1, <2>2, <2>3, <2>4, <2>5, GoodOpen
  <2> QED
    BY <1>2, <2>1, <2>6
<1>8. Rest' /\ (~uncounted' => \A q \in Procs : cwd'[q] = 1)
  BY DEF RefInv, Rest, flags
<1>9. Good(Intact', ~uncounted', fs', file', job')
  BY <1>7 DEF Good, flags
<1> QED
  BY <1>4, <1>6, <1>8, <1>9, StepInv

LEMMA file_open_step ==
    ASSUME RefInv, NEW p \in Procs, file_open(p)
    PROVE  RefInv'
BY OpenInv DEF file_open, CanLock, Ready

LEMMA dir_change_step ==
    ASSUME RefInv, NEW p \in Procs, dir_change(p)
    PROVE  RefInv'
<1>1. PICK s : s = job[p].ip
  OBVIOUS
<1>2. PICK f : f = Locked(fs, s)
  OBVIOUS
<1>3. /\ Intact /\ job[p].at = "found" /\ ~BadInode(fs, s) /\ fs' = Freed(f, s) /\ Return(p, Dropping(f, s))
      /\ cwd' = IF Type(f, s) = "DIR" THEN [cwd EXCEPT ![p] = s] ELSE cwd
      /\ uncounted' = (uncounted \/ (cwd'[p] = s /\ f.slot[s].num # ROOT))
      /\ UNCHANGED <<lock, file, calls, halted, stolen, doubled, orphaned, unwritten>>
  BY <1>1, <1>2 DEF dir_change, CanLock, Ready
<1>4. s \in Slots /\ job[p].dp = NoSlot /\ job[p].old = NoSlot
  BY <1>1, <1>3, StandsSlot, Now DEF Shape
<1>5. LockStep(p, s, f)
  BY <1>2, <1>3, <1>4, LockFacts
<1>6. PICK d : d = Dropping(f, s) /\ d \in MaybeSlots
  BY <1>4, DroppingType
<1>7. PICK j2 : NullRes(p, d, j2)
  BY <1>3, <1>4, <1>6, ReturnFacts
<1>8. Good(TRUE, ~uncounted, fs', file, job')
  BY <1>1, <1>3, <1>4, <1>5, <1>6, <1>7, FreeHere DEF LockStep
<1>9. Good(Intact', ~uncounted', fs', file', job')
  BY <1>3, <1>8 DEF Good
<1>10. cwd' \in [Procs -> Slots] /\ uncounted' \in BOOLEAN
  BY <1>3, <1>4 DEF RefInv, Rest
<1>11. Rest'
  BY <1>3, <1>10 DEF RefInv, Rest
<1>12. ASSUME ~uncounted', NEW q \in Procs PROVE cwd'[q] = 1
  <2>1. ~uncounted /\ cwd[q] = 1 /\ cwd \in [Procs -> Slots]
    BY <1>3, <1>12 DEF RefInv, Rest
  <2>2. CASE Type(f, s) = "DIR" /\ q = p
    <3>1. cwd'[p] = s /\ f.slot[s].num = ROOT
      BY <1>3, <1>12, <2>1, <2>2
    <3>2. f \in FS /\ RefOK(f, file, job) /\ OneOK(f)
      BY <1>5, <2>1 DEF LockStep, Good
    <3>3. f.slot[1].num = ROOT /\ LiveIn(f, 1) /\ 1 \in Slots
      BY <3>2, RootLive, Sizes
    <3>4. LiveIn(f, s)
      BY <1>5 DEF LockStep, LiveIn, FS, Slot
    <3>5. s = 1
      BY <1>4, <3>1, <3>2, <3>3, <3>4 DEF OneOK
    <3> QED
      BY <2>2, <3>1, <3>5
  <2>3. CASE ~(Type(f, s) = "DIR" /\ q = p)
    BY <1>3, <2>1, <2>3
  <2> QED
    BY <2>2, <2>3
<1>13. file' = [file EXCEPT ![p] = file[p]] /\ file[p] \in MaybeSlots
  BY <1>3 DEF RefInv
<1> QED
  BY <1>3, <1>7, <1>9, <1>11, <1>12, <1>13, StepInv DEF NullRes

\* A link more or less in the cache and on the disk.
RelinkedRes(f, s, k, g) ==
    /\ g \in FS /\ Only(f, g, s) /\ Kept(f, g) /\ g.entry = f.entry /\ g.bits = f.bits
    /\ g.slot[s].type = f.slot[s].type /\ g.slot[s].nlink = f.slot[s].nlink + k
    /\ g.inode = [f.inode EXCEPT ![f.slot[s].num] = [type |-> f.slot[s].type, nlink |-> f.slot[s].nlink + k]]

LEMMA RelinkedFacts ==
    ASSUME NEW f \in FS, NEW s \in Slots, NEW k \in Int, NEW g, g = Relinked(f, s, k)
    PROVE  RelinkedRes(f, s, k, g) /\ SameRefs(f, g)
<1>1. PICK h : h = Linked(f, s, k)
  OBVIOUS
<1>2. LinkedRes(f, s, k, h)
  BY <1>1, LinkedFacts
<1>3. h \in FS
  BY <1>2 DEF LinkedRes
<1>4. WrittenRes(h, s, g)
  BY <1>1, <1>3, WrittenFacts DEF Relinked
<1>5. h.slot[s].num = f.slot[s].num
  BY <1>2 DEF LinkedRes, Kept
<1>6. g.slot = h.slot /\ g.entry = h.entry /\ g.bits = h.bits /\ g \in FS
      /\ g.inode = [h.inode EXCEPT ![h.slot[s].num] = [type |-> h.slot[s].type, nlink |-> h.slot[s].nlink]]
  BY <1>4 DEF WrittenRes
<1>7. /\ Only(f, h, s) /\ Kept(f, h) /\ h.inode = f.inode /\ h.entry = f.entry /\ h.bits = f.bits
      /\ h.slot[s].type = f.slot[s].type /\ h.slot[s].nlink = f.slot[s].nlink + k
  BY <1>2 DEF LinkedRes, SameDisk
<1>8. Only(f, g, s) /\ Kept(f, g)
  BY <1>6, <1>7 DEF Only, Kept
<1>9. RelinkedRes(f, s, k, g)
  BY <1>5, <1>6, <1>7, <1>8 DEF RelinkedRes
<1> QED
  BY <1>8, <1>9, KeptRefs

\* The start of a walk counts a reference on the slot it starts at.
LEMMA GoodStart ==
    ASSUME NEW b, NEW f, NEW F, NEW J, Good(TRUE, b, f, F, J), NEW p \in Procs, NEW J2,
           OnlyProc(F, J, F, J2, p), J[p].ip = NoSlot, NEW abs, cwd[p] \in Slots, b => cwd[p] = 1,
           J2[p].ip = StartSlot(p, f, abs), J2[p].dp = J[p].dp, J2[p].old = J[p].old, J2[p].drop = J[p].drop,
           J2[p].at = "walk", NEW g, g = Started(p, f, abs)
    PROVE  Good(TRUE, b, g, F, J2) /\ StartSlot(p, f, abs) \in Slots /\ BumpRes(f, StartSlot(p, f, abs), g)
<1>1. PICK s : s = StartSlot(p, f, abs)
  OBVIOUS
<1>2. f \in FS /\ RefOK(f, F, J)
  BY DEF Good
<1>3. Hits(f, ROOT) # {} /\ CanGet(f, ROOT) /\ LiveIn(f, 1)
  BY <1>2, RootLive DEF CanGet
<1>4. s \in Slots /\ (b => LiveIn(f, s)) /\ g = Bumped(f, s)
  <2>1. CASE abs
    <3>1. s = GotSlot(f, ROOT)
      BY <1>1, <2>1 DEF StartSlot
    <3>2. s \in Slots /\ f.slot[s].num = ROOT /\ f.slot[s].ref > 0
      BY <1>2, <1>3, <3>1, GotSlotFacts
    <3>3. g = Bumped(f, s)
      BY <1>3, <2>1, <3>1 DEF Started, Got, Bumped
    <3> QED
      BY <3>2, <3>3, Sizes DEF LiveIn
  <2>2. CASE ~abs
    <3>1. s = cwd[p]
      BY <1>1, <2>2 DEF StartSlot
    <3>2. g = Bumped(f, s)
      BY <2>2, <3>1 DEF Started, Bumped
    <3> QED
      BY <1>3, <3>1, <3>2
  <2> QED
    BY <2>1, <2>2
<1>5. BumpRes(f, s, g)
  BY <1>2, <1>4, BumpedFacts
<1>6. J2[p].at \notin {"parent", "exists", "remove"} /\ J2[p].ip = s
  BY <1>1
<1>7. RefOK(g, F, J2)
  BY <1>2, <1>4, <1>5, <1>6, BumpRef
<1>8. ASSUME b PROVE OneOK(g)
  <2>1. OneOK(f) /\ LiveIn(f, s)
    BY <1>4, <1>8 DEF Good
  <2>2. \A t \in Slots : LiveIn(g, t) => LiveIn(f, t) /\ g.slot[t].num = f.slot[t].num
    BY <1>5, <2>1 DEF BumpRes, Only, LiveIn
  <2> QED
    BY <2>1, <2>2, OneFewer
<1> QED
  BY <1>1, <1>4, <1>5, <1>7, <1>8 DEF Good, BumpRes

\* The job of a walk that starts.
WalkJob(call, path, next, i) ==
    [Idle EXCEPT !.at = "walk", !.call = call, !.path = path, !.next = next, !.ip = i]

LEMMA WalkFacts ==
    ASSUME NEW call \in Calls, NEW path \in Seq(Names), NEW next \in Seq(Names), NEW i \in Slots,
           NEW j, j = WalkJob(call, path, next, i)
    PROVE  /\ j \in Job /\ j.at = "walk" /\ j.ip = i /\ j.dp = NoSlot /\ j.old = NoSlot /\ j.drop = NoSlot
           /\ j.call = call /\ j.path = path
BY DEF WalkJob, Idle, Job, Labels, Calls

LEMMA Call_step ==
    ASSUME RefInv, NEW p \in Procs, NEW call \in Calls, NEW path \in Paths, NEW next \in Paths, NEW abs \in BOOLEAN,
           Call(p, call, path, next, abs)
    PROVE  RefInv'
<1>1. PICK i : i = StartSlot(p, fs, abs)
  OBVIOUS
<1>2. PICK nx : nx = IF call = "link" THEN next ELSE <<>>
  OBVIOUS
<1>3. PICK j2 : j2 = WalkJob(call, path, nx, i)
  OBVIOUS
<1>4. /\ Intact /\ job[p].at = "idle" /\ job[p].drop = NoSlot /\ calls < MAX_CALLS
      /\ (call \in {"open", "create"} => file[p] = NoSlot) /\ calls' = calls + 1
      /\ fs' = Started(p, fs, abs) /\ UNCHANGED <<lock, cwd, file, flags>>
  BY DEF Call, Ready
<1>5. job' = [job EXCEPT ![p] = j2]
  BY <1>1, <1>2, <1>3 DEF Call, WalkJob
<1>6. /\ job[p].ip = NoSlot /\ job[p].dp = NoSlot /\ job[p].old = NoSlot /\ Good(TRUE, ~uncounted, fs, file, job)
      /\ cwd[p] \in Slots /\ (~uncounted => cwd[p] = 1)
  BY <1>4, Now DEF Shape, RefInv, Rest
<1>7. fs \in FS /\ Hits(fs, ROOT) # {}
  BY <1>4, Now, RootLive
<1>8. i \in Slots
  BY <1>1, <1>6, <1>7, GotSlotFacts DEF StartSlot, CanGet
<1>9. path \in Seq(Names) /\ nx \in Seq(Names)
  BY <1>2, DirAssumption
<1>10. /\ j2 \in Job /\ j2.at = "walk" /\ j2.ip = i /\ j2.dp = NoSlot /\ j2.old = NoSlot /\ j2.drop = NoSlot
       /\ j2.call = call /\ j2.path = path
  BY <1>3, <1>8, <1>9, WalkFacts
<1>11. Shape(file[p], j2)
  BY <1>4, <1>8, <1>10, Sizes DEF Shape
<1>12. Good(TRUE, ~uncounted, fs', file, job')
  <2>1. PICK F, J, J2, b, f, g : F = file /\ J = job /\ J2 = job' /\ b = ~uncounted /\ f = fs /\ g = fs'
    OBVIOUS
  <2>2. Good(TRUE, b, f, F, J) /\ (b => cwd[p] = 1) /\ cwd[p] \in Slots
    BY <1>6, <2>1
  <2>3. OnlyProc(F, J, F, J2, p) /\ J2[p] = j2
    BY <1>5, <2>1, JobOnly
  <2>4. J[p].ip = NoSlot /\ J[p].dp = NoSlot /\ J[p].old = NoSlot /\ J[p].drop = NoSlot
    BY <1>4, <1>6, <2>1
  <2>5. J2[p].ip = StartSlot(p, f, abs) /\ J2[p].dp = J[p].dp /\ J2[p].old = J[p].old /\ J2[p].drop = J[p].drop
        /\ J2[p].at = "walk"
    BY <1>1, <1>10, <2>1, <2>3, <2>4
  <2>6. g = Started(p, f, abs)
    BY <1>4, <2>1
  <2>7. Good(TRUE, b, g, F, J2)
    BY <2>2, <2>3, <2>4, <2>5, <2>6, GoodStart
  <2> QED
    BY <2>1, <2>7
<1>13. Rest'
  <2>1. calls' \in 0..MAX_CALLS
    BY <1>4, DirAssumption DEF RefInv, Rest
  <2> QED
    BY <1>4, <2>1 DEF RefInv, Rest, flags
<1> QED
  BY <1>4, <1>5, <1>10, <1>11, <1>12, <1>13, JobInv DEF flags

\* The reference of a step to a numbered slot is kept as the inode that link
\* goes on with.
LEMMA GoodKeep ==
    ASSUME NEW c, NEW b, NEW f, NEW F, NEW J, Good(c, b, f, F, J), NEW p \in Procs, NEW J2,
           OnlyProc(F, J, F, J2, p), NEW s \in Slots, f.slot[s].num # U,
           J[p].ip = s, J[p].dp = NoSlot, J[p].old = NoSlot,
           J2[p].ip = NoSlot, J2[p].dp = NoSlot, J2[p].old = s, J2[p].drop \in {J[p].drop, NoSlot}
    PROVE  Good(c, b, f, F, J2)
<1>1. ASSUME c PROVE RefOK(f, F, J2)
  <2>1. RefOK(f, F, J) /\ f \in FS
    BY <1>1 DEF Good
  <2>2. ASSUME NEW t \in Slots
        PROVE  /\ Mine(F[p], J2[p], t) <= Mine(F[p], J[p], t)
               /\ f.slot[t].num # U => Mine(F[p], J2[p], t) = Mine(F[p], J[p], t)
    BY Sizes DEF Mine, One
  <2>3. ASSUME NEW t \in Slots, Solid(F[p], J2[p], t) PROVE f.slot[t].num # U
    <3>1. t = s \/ Solid(F[p], J[p], t)
      BY <2>3, Sizes DEF Solid
    <3> QED
      BY <2>1, <3>1 DEF RefOK
  <2> QED
    BY <2>1, <2>2, <2>3, MoveRef
<1> QED
  BY <1>1 DEF Good

\* A step that frees what the process stands at, and returns.
LEMMA FreeInv ==
    ASSUME RefInv, Intact, NEW p \in Procs, job[p].at \in {"walk", "found", "parent", "exists"},
           NEW s, s = job[p].ip, job[p].old = NoSlot, ~BadInode(fs, s), NEW f, f = Locked(fs, s),
           fs' = Freed(f, s), Return(p, Dropping(f, s)), file' = file, cwd' = cwd, uncounted' = uncounted, Rest'
    PROVE  RefInv'
<1>1. s \in Slots /\ job[p].dp = NoSlot
  BY StandsSlot, Now DEF Shape
<1>2. LockStep(p, s, f)
  BY <1>1, LockFacts
<1>3. PICK d : d = Dropping(f, s) /\ d \in MaybeSlots
  BY <1>1, DroppingType
<1>4. PICK j2 : NullRes(p, d, j2)
  BY <1>3, ReturnFacts
<1>5. Good(TRUE, ~uncounted, fs', file, job')
  BY <1>1, <1>2, <1>3, <1>4, FreeHere DEF LockStep
<1> QED
  BY <1>4, <1>5, NullInv

LEMMA path_link_begin_step ==
    ASSUME RefInv, NEW p \in Procs, NEW abs \in BOOLEAN, path_link_begin(p, abs)
    PROVE  RefInv'
<1>1. PICK s : s = job[p].ip
  OBVIOUS
<1>2. PICK f : f = Locked(fs, s)
  OBVIOUS
<1>3. Intact /\ job[p].at = "found" /\ job[p].drop = NoSlot /\ ~BadInode(fs, s) /\ job[p].call = "link"
      /\ UNCHANGED <<lock, cwd, file, calls, flags>>
  BY <1>1, <1>2 DEF path_link_begin, CanLock, Ready
<1>4. s \in Slots /\ job[p].dp = NoSlot /\ job[p].old = NoSlot /\ job[p] \in Job
  BY <1>1, <1>3, StandsSlot, Now DEF Shape
<1>5. Rest'
  BY <1>3 DEF RefInv, Rest, flags
<1>6. CASE fs' = Freed(f, s) /\ Return(p, Dropping(f, s))
  <2>1. job[p].at \in {"walk", "found", "parent", "exists"}
    BY <1>3
  <2> QED
    BY <1>1, <1>2, <1>3, <1>4, <1>5, <1>6, <2>1, FreeInv DEF flags
<1>7. CASE ~(fs' = Freed(f, s) /\ Return(p, Dropping(f, s)))
  <2>1. PICK g : g = Relinked(f, s, 1)
    OBVIOUS
  <2>2. PICK i : i = StartSlot(p, g, abs)
    OBVIOUS
  <2>3. PICK j2 : j2 = [job[p] EXCEPT !.at = "walk", !.path = job[p].next, !.next = <<>>, !.old = s, !.ip = i]
    OBVIOUS
  <2>4. fs' = Started(p, g, abs) /\ job' = [job EXCEPT ![p] = j2]
    BY <1>1, <1>2, <1>7, <2>1, <2>2, <2>3 DEF path_link_begin
  <2>5. LockStep(p, s, f)
    BY <1>2, <1>3, <1>4, LockFacts
  <2>6. f \in FS /\ RelinkedRes(f, s, 1, g) /\ SameRefs(f, g)
    BY <1>4, <2>1, <2>5, RelinkedFacts DEF LockStep
  <2>7. Good(TRUE, ~uncounted, g, file, job) /\ g \in FS /\ g.slot[s].num # U
    BY <1>4, <2>5, <2>6, GoodSame DEF LockStep, RelinkedRes, Kept
  <2>8. cwd[p] \in Slots /\ (~uncounted => cwd[p] = 1)
    BY DEF RefInv, Rest
  <2>9. i \in Slots
    <3>1. RefOK(g, file, job)
      BY <2>7 DEF Good
    <3>2. Hits(g, ROOT) # {}
      BY <2>7, <3>1, RootLive
    <3> QED
      BY <2>2, <2>7, <2>8, <3>2, GotSlotFacts DEF StartSlot, CanGet
  <2>10. /\ j2 \in Job /\ j2.at = "walk" /\ j2.ip = i /\ j2.dp = NoSlot /\ j2.old = s /\ j2.drop = NoSlot
         /\ j2.call = "link"
    <3>1. <<>> \in Seq(Names)
      OBVIOUS
    <3> QED
      BY <1>3, <1>4, <2>3, <2>9, <3>1 DEF Job, Labels
  <2>11. Shape(file[p], j2)
    BY <2>9, <2>10, Sizes DEF Shape
  <2>12. Good(TRUE, ~uncounted, fs', file, job')
    <3>1. PICK F, J, J2, b, c, h : F = file /\ J = job /\ J2 = job' /\ b = ~uncounted /\ c = TRUE /\ h = fs'
      OBVIOUS
    <3>2. Good(c, b, g, F, J) /\ (b => cwd[p] = 1) /\ cwd[p] \in Slots
      BY <2>7, <2>8, <3>1
    <3>3. OnlyProc(F, J, F, J2, p) /\ J2[p] = j2
      BY <2>4, <3>1, JobOnly
    <3>4. J[p].ip = s /\ J[p].dp = NoSlot /\ J[p].old = NoSlot /\ J[p].drop = NoSlot
      BY <1>1, <1>3, <1>4, <3>1
    <3>5. PICK J1 : StubRes(F, J, p, NoSlot, NoSlot, s, J1)
      BY StubFacts
    <3>6. /\ OnlyProc(F, J, F, J1, p) /\ OnlyProc(F, J1, F, J2, p)
          /\ J1[p].ip = NoSlot /\ J1[p].dp = NoSlot /\ J1[p].old = s /\ J1[p].drop = NoSlot
      BY <3>3, <3>5 DEF StubRes
    <3>7. Good(c, b, g, F, J1)
      <4>1. J1[p].drop \in {J[p].drop, NoSlot}
        BY <3>6
      <4> QED
        BY <1>4, <2>7, <3>2, <3>4, <3>6, <4>1, GoodKeep
    <3>8. /\ J2[p].ip = StartSlot(p, g, abs) /\ J2[p].dp = J1[p].dp /\ J2[p].old = J1[p].old /\ J2[p].drop = J1[p].drop
          /\ J2[p].at = "walk"
      BY <2>2, <2>10, <3>3, <3>6
    <3>9. h = Started(p, g, abs) /\ Good(TRUE, b, g, F, J1)
      BY <2>4, <3>1, <3>7
    <3>10. Good(TRUE, b, h, F, J2)
      BY <3>2, <3>6, <3>8, <3>9, GoodStart
    <3> QED
      BY <3>1, <3>10
  <2> QED
    BY <1>3, <1>5, <2>4, <2>10, <2>11, <2>12, JobInv DEF flags
<1> QED
  BY <1>6, <1>7

\* Such a process may also have to count a slot down.
StubDropRes(F, J, p, i, d, o, k, J1) ==
    /\ OnlyProc(F, J, F, J1, p)
    /\ J1[p].at = "walk" /\ J1[p].ip = i /\ J1[p].dp = d /\ J1[p].old = o /\ J1[p].drop = k
    /\ \A F2, J2 : OnlyProc(F, J, F2, J2, p) => OnlyProc(F, J1, F2, J2, p)
    /\ \A q \in Procs : q # p => J1[q] = J[q]

LEMMA StubDropFacts ==
    ASSUME NEW F, NEW J, NEW p \in Procs, NEW i, NEW d, NEW o, NEW k
    PROVE  \E J1 : StubDropRes(F, J, p, i, d, o, k, J1)
<1>1. PICK j1 : j1 = [at |-> "walk", ip |-> i, dp |-> d, old |-> o, drop |-> k]
  OBVIOUS
<1>2. PICK J1 : J1 = [q \in Procs |-> IF q = p THEN j1 ELSE J[q]]
  OBVIOUS
<1>3. J1[p] = j1 /\ \A q \in Procs : q # p => J1[q] = J[q]
  BY <1>2
<1> QED
  BY <1>1, <1>3 DEF OnlyProc, StubDropRes

\* A new entry, and the directory's inode written.
AddRes(f, s, x, n, g) ==
    /\ g \in FS /\ g.slot = f.slot /\ g.bits = f.bits
    /\ g.inode = [f.inode EXCEPT ![f.slot[s].num] = [type |-> f.slot[s].type, nlink |-> f.slot[s].nlink]]
    /\ \A e \in Inums, y \in Names :
          g.entry[e][y] = IF e = f.slot[s].num /\ y = x THEN n ELSE f.entry[e][y]

LEMMA AddFacts ==
    ASSUME NEW f \in FS, NEW s \in Slots, f.slot[s].num \in Inums, NEW x \in Names, NEW n \in Inums \cup {U},
           NEW g, g = dir_add_entry(f, s, x, n)
    PROVE  AddRes(f, s, x, n, g) /\ SameRefs(f, g)
<1>1. PICK d \in Inums : d = f.slot[s].num
  OBVIOUS
<1>2. PICK h : h = SetEntry(f, d, x, n)
  OBVIOUS
<1>3. /\ h \in FS /\ h.slot = f.slot /\ h.inode = f.inode /\ h.bits = f.bits
      /\ \A e \in Inums, y \in Names : h.entry[e][y] = IF e = d /\ y = x THEN n ELSE f.entry[e][y]
  <2>1. SetRes(f, d, x, n, h)
    BY <1>2, SetEntryFacts
  <2> QED
    BY <2>1 DEF SetRes
<1>4. g = Written(h, s)
  BY <1>1, <1>2 DEF dir_add_entry, SetEntry
<1>5. WrittenRes(h, s, g)
  BY <1>3, <1>4, WrittenFacts
<1>6. AddRes(f, s, x, n, g)
  BY <1>1, <1>3, <1>5 DEF AddRes, WrittenRes
<1> QED
  BY <1>6 DEF AddRes, SameRefs

LEMMA DelFacts ==
    ASSUME NEW f \in FS, NEW s \in Slots, f.slot[s].num \in Inums, NEW x \in Names,
           NEW g, g = dir_delete_entry(f, s, x)
    PROVE  /\ g \in FS /\ g.slot = f.slot /\ g.bits = f.bits /\ g.inode = f.inode
           /\ \A e \in Inums, y \in Names :
                 g.entry[e][y] = IF e = f.slot[s].num /\ y = x THEN U ELSE f.entry[e][y]
           /\ SameRefs(f, g)
<1>1. PICK d : d = f.slot[s].num
  OBVIOUS
<1>2. g = SetEntry(f, d, x, U)
  BY <1>1, Sizes DEF dir_delete_entry, SetEntry
<1>3. U \in Inums \cup {U}
  OBVIOUS
<1>4. /\ g \in FS /\ g.slot = f.slot /\ g.inode = f.inode /\ g.bits = f.bits
      /\ \A e \in Inums, y \in Names : g.entry[e][y] = IF e = d /\ y = x THEN U ELSE f.entry[e][y]
  BY <1>1, <1>2, <1>3, SetEntryFacts DEF SetRes
<1> QED
  BY <1>1, <1>4 DEF SameRefs

\* inode_free of two slots in turn, the second without a trace of the first.
LEMMA GoodFreeTwo ==
    ASSUME NEW b, NEW f, NEW F, NEW J, Good(TRUE, b, f, F, J), NEW p \in Procs, NEW J2,
           OnlyProc(F, J, F, J2, p), NEW s \in Slots, NEW o \in Slots, J[p].ip = s, J[p].dp = NoSlot, J[p].old = o,
           J[p].drop = NoSlot, NEW g, g = Freed(f, s), NEW h, h = Freed(g, o),
           J2[p].ip = NoSlot, J2[p].dp = NoSlot, J2[p].old = NoSlot, J2[p].drop = Dropping(f, s)
    PROVE  Good(TRUE, b, h, F, J2) /\ FreedRes(f, s, g) /\ FreedRes(g, o, h)
<1>1. PICK c, d : c = TRUE /\ d = Dropping(f, s)
  OBVIOUS
<1>2. PICK J1 : StubDropRes(F, J, p, NoSlot, NoSlot, o, d, J1)
  BY StubDropFacts
<1>3. /\ OnlyProc(F, J, F, J1, p) /\ OnlyProc(F, J1, F, J2, p)
      /\ J1[p].ip = NoSlot /\ J1[p].dp = NoSlot /\ J1[p].old = o /\ J1[p].drop = d
  BY <1>2 DEF StubDropRes
<1>4. f.slot[s].ref >= 1
  <2>1. Mine(F[p], J[p], s) >= 1 /\ Mine(F[p], J[p], s) \in Nat
    BY DEF Mine, One
  <2> QED
    BY <2>1, HeldRef DEF Good
<1>5. ASSUME NEW t \in Slots
      PROVE  /\ Mine(F[p], J[p], t) = Mine(F[p], J1[p], t) + One(t = s)
             /\ Solid(F[p], J1[p], t) => Solid(F[p], J[p], t) \/ f.slot[t].num # U
  BY <1>3, Sizes DEF Mine, One, Solid
<1>6. Good(c, b, g, F, J1) /\ FreedRes(f, s, g)
  <2>1. Good(c, b, f, F, J) /\ J1[p].drop = Dropping(f, s)
    BY <1>1, <1>3
  <2> QED
    BY <1>3, <1>4, <1>5, <2>1, GoodFree
<1>7. g.slot[o].ref >= 1
  <2>1. Mine(F[p], J1[p], o) >= 1 /\ Mine(F[p], J1[p], o) \in Nat
    BY <1>3 DEF Mine, One
  <2> QED
    BY <1>1, <1>6, <2>1, HeldRef DEF Good
<1>8. ASSUME NEW t \in Slots
      PROVE  /\ Mine(F[p], J1[p], t) = Mine(F[p], J2[p], t) + One(t = o)
             /\ Solid(F[p], J2[p], t) => Solid(F[p], J1[p], t) \/ g.slot[t].num # U
  BY <1>3, Sizes DEF Mine, One, Solid
<1>9. Good(c, b, h, F, J2) /\ FreedRes(g, o, h)
  <2>1. J2[p].drop \in {J1[p].drop, NoSlot}
    BY <1>1, <1>3
  <2> QED
    BY <1>3, <1>6, <1>7, <1>8, <2>1, GoodFree
<1> QED
  BY <1>1, <1>6, <1>9

LEMMA path_link_end_step ==
    ASSUME RefInv, NEW p \in Procs, path_link_end(p)
    PROVE  RefInv'
<1>1. PICK s, o : s = job[p].ip /\ o = job[p].old
  OBVIOUS
<1>2. PICK f : f = Locked(fs, s)
  OBVIOUS
<1>3. PICK x : x = Head(job[p].path)
  OBVIOUS
<1>4. PICK g : g = dir_add_entry(f, s, x, f.slot[o].num)
  OBVIOUS
<1>5. /\ Intact /\ job[p].at = "parent" /\ job[p].drop = NoSlot /\ ~BadInode(fs, s) /\ job[p].call = "link"
      /\ UNCHANGED <<lock, cwd, file, calls, halted, stolen, doubled, uncounted, unwritten>>
  BY <1>1, <1>2 DEF path_link_end, CanLock, Ready
<1>6. s \in Slots /\ job[p].dp = NoSlot /\ job[p] \in Job /\ o \in Slots /\ job[p].path # <<>>
  BY <1>1, <1>5, StandsSlot, Now DEF Shape, ForParent, MaybeSlots
<1>7. LockStep(p, s, f)
  BY <1>2, <1>5, <1>6, LockFacts
<1>8. CASE /\ fs' = Freed(f, s)
           /\ job' = [job EXCEPT ![p] = [Idle EXCEPT !.at = "undo", !.old = o, !.drop = Dropping(f, s)]]
           /\ orphaned' = orphaned
  <2>1. PICK d : d = Dropping(f, s) /\ d \in MaybeSlots
    BY <1>6, DroppingType
  <2>2. PICK j2 : j2 = UndoJob("undo", o, d)
    OBVIOUS
  <2>3. j2 \in Job /\ j2.ip = NoSlot /\ j2.dp = NoSlot /\ j2.old = o /\ j2.drop = d /\ Shape(file[p], j2)
    BY <1>6, <2>1, <2>2, UndoFacts
  <2>4. job' = [job EXCEPT ![p] = j2]
    BY <1>8, <2>1, <2>2 DEF UndoJob
  <2>5. NullRes(p, d, j2)
    BY <1>1, <2>3, <2>4 DEF NullRes
  <2>6. Good(TRUE, ~uncounted, fs', file, job')
    BY <1>1, <1>5, <1>6, <1>7, <1>8, <2>1, <2>5, FreeHere DEF LockStep
  <2>7. Rest'
    BY <1>5, <1>8 DEF RefInv, Rest
  <2> QED
    BY <1>5, <2>5, <2>6, <2>7, NullInv
<1>9. CASE fs' = Freed(Freed(g, s), o) /\ Return(p, Dropping(g, s)) /\ orphaned' = (f.slot[s].nlink = 0)
  <2>1. f \in FS /\ f.slot[s].num \in Inums /\ x \in Names /\ f.slot[o].num \in Inums \cup {U}
    BY <1>3, <1>6, <1>7, NameHead, Sizes DEF LockStep, FS, Slot
  <2>2. AddRes(f, s, x, f.slot[o].num, g) /\ SameRefs(f, g)
    BY <1>4, <1>6, <2>1, AddFacts
  <2>3. Good(TRUE, ~uncounted, g, file, job)
    BY <1>7, <2>2, GoodSame DEF LockStep, AddRes
  <2>4. PICK d : d = Dropping(g, s) /\ d \in MaybeSlots
    BY <1>6, DroppingType
  <2>5. PICK j2 : j2 = [Idle EXCEPT !.drop = d]
    OBVIOUS
  <2>6. j2 \in Job /\ j2.ip = NoSlot /\ j2.dp = NoSlot /\ j2.old = NoSlot /\ j2.drop = d /\ Shape(file[p], j2)
    BY <2>4, <2>5, IdleFacts
  <2>7. job' = [job EXCEPT ![p] = j2]
    BY <1>9, <2>4, <2>5 DEF Return
  <2>8. Good(TRUE, ~uncounted, fs', file, job')
    <3>1. PICK F, J, J2, b, e, h : F = file /\ J = job /\ J2 = job' /\ b = ~uncounted /\ e = Freed(g, s) /\ h = fs'
      OBVIOUS
    <3>2. Good(TRUE, b, g, F, J)
      BY <2>3, <3>1
    <3>3. OnlyProc(F, J, F, J2, p) /\ J2[p] = j2
      BY <2>7, <3>1, JobOnly
    <3>4. J[p].ip = s /\ J[p].dp = NoSlot /\ J[p].old = o /\ J[p].drop = NoSlot
      BY <1>1, <1>5, <1>6, <3>1
    <3>5. J2[p].ip = NoSlot /\ J2[p].dp = NoSlot /\ J2[p].old = NoSlot /\ J2[p].drop = Dropping(g, s)
      BY <2>4, <2>6, <3>3
    <3>6. e = Freed(g, s) /\ h = Freed(e, o) /\ s \in Slots /\ o \in Slots
      BY <1>6, <1>9, <3>1
    <3>7. Good(TRUE, b, h, F, J2)
      BY <3>2, <3>3, <3>4, <3>5, <3>6, GoodFreeTwo
    <3> QED
      BY <3>1, <3>7
  <2>9. Rest'
    BY <1>5, <1>9 DEF RefInv, Rest
  <2> QED
    BY <1>5, <2>6, <2>7, <2>8, <2>9, JobInv
<1>10. \/ /\ fs' = Freed(f, s)
          /\ job' = [job EXCEPT ![p] = [Idle EXCEPT !.at = "undo", !.old = o, !.drop = Dropping(f, s)]]
          /\ orphaned' = orphaned
       \/ fs' = Freed(Freed(g, s), o) /\ Return(p, Dropping(g, s)) /\ orphaned' = (f.slot[s].nlink = 0)
  BY <1>1, <1>2, <1>3, <1>4 DEF path_link_end
<1> QED
  BY <1>8, <1>9, <1>10

\* inode_free of the inode link went on with, at the end of the call.
LEMMA FreeOld ==
    ASSUME NEW b, NEW f, NEW F, NEW J, Good(TRUE, b, f, F, J), NEW p \in Procs, NEW J2,
           OnlyProc(F, J, F, J2, p), NEW s \in Slots, J[p].ip = NoSlot, J[p].dp = NoSlot, J[p].old = s,
           NEW g, g = Freed(f, s),
           J2[p].ip = NoSlot, J2[p].dp = NoSlot, J2[p].old = NoSlot, J2[p].drop = Dropping(f, s)
    PROVE  Good(TRUE, b, g, F, J2) /\ FreedRes(f, s, g)
<1>1. PICK c : c = TRUE
  OBVIOUS
<1>2. f.slot[s].ref >= 1
  <2>1. Mine(F[p], J[p], s) >= 1 /\ Mine(F[p], J[p], s) \in Nat
    BY DEF Mine, One
  <2> QED
    BY <2>1, HeldRef DEF Good
<1>3. ASSUME NEW t \in Slots
      PROVE  /\ Mine(F[p], J[p], t) = Mine(F[p], J2[p], t) + One(t = s)
             /\ Solid(F[p], J2[p], t) => Solid(F[p], J[p], t) \/ f.slot[t].num # U
  BY Sizes DEF Mine, One, Solid
<1>4. Good(c, b, f, F, J)
  BY <1>1
<1>5. Good(c, b, g, F, J2) /\ FreedRes(f, s, g)
  BY <1>2, <1>3, <1>4, GoodFree
<1> QED
  BY <1>1, <1>5

LEMMA path_link_undo_step ==
    ASSUME RefInv, NEW p \in Procs, NEW at, at \in {"undo", "undo_write"}, path_link_undo(p, at)
    PROVE  RefInv'
<1>1. PICK s : s = job[p].old
  OBVIOUS
<1>2. PICK f : f = Locked(fs, s)
  OBVIOUS
<1>3. PICK g : g = IF at = "undo" THEN Linked(f, s, -1) ELSE Relinked(f, s, -1)
  OBVIOUS
<1>4. /\ Intact /\ job[p].at = at /\ job[p].drop = NoSlot /\ ~BadInode(fs, s)
      /\ fs' = Freed(g, s) /\ Return(p, Dropping(g, s))
      /\ unwritten' = unwritten \cup {n \in {f.slot[s].num} : at = "undo"}
      /\ UNCHANGED <<lock, cwd, file, calls, halted, stolen, doubled, orphaned, uncounted>>
  BY <1>1, <1>2, <1>3 DEF path_link_undo, CanLock, Ready
<1>5. s \in Slots /\ job[p].dp = NoSlot /\ job[p].ip = NoSlot
  BY <1>1, <1>4, Now DEF Shape, MaybeSlots
<1>6. LockStep(p, s, f)
  BY <1>2, <1>4, <1>5, LockFacts
<1>7. g \in FS /\ SameRefs(f, g)
  <2>1. f \in FS /\ -1 \in Int
    BY <1>6 DEF LockStep
  <2>2. CASE at = "undo"
    BY <1>3, <1>5, <2>1, <2>2, LinkedFacts, KeptRefs DEF LinkedRes
  <2>3. CASE at # "undo"
    BY <1>3, <1>5, <2>1, <2>3, RelinkedFacts DEF RelinkedRes
  <2> QED
    BY <2>2, <2>3
<1>8. Good(TRUE, ~uncounted, g, file, job)
  BY <1>6, <1>7, GoodSame DEF LockStep
<1>9. PICK d : d = Dropping(g, s) /\ d \in MaybeSlots
  BY <1>5, DroppingType
<1>10. PICK j2 : j2 = [Idle EXCEPT !.drop = d]
  OBVIOUS
<1>11. j2 \in Job /\ j2.ip = NoSlot /\ j2.dp = NoSlot /\ j2.old = NoSlot /\ j2.drop = d /\ Shape(file[p], j2)
  BY <1>9, <1>10, IdleFacts
<1>12. job' = [job EXCEPT ![p] = j2]
  BY <1>4, <1>9, <1>10 DEF Return
<1>13. Good(TRUE, ~uncounted, fs', file, job')
  <2>1. PICK F, J, J2, b, h : F = file /\ J = job /\ J2 = job' /\ b = ~uncounted /\ h = fs'
    OBVIOUS
  <2>2. Good(TRUE, b, g, F, J) /\ h = Freed(g, s)
    BY <1>4, <1>8, <2>1
  <2>3. OnlyProc(F, J, F, J2, p) /\ J2[p] = j2
    BY <1>12, <2>1, JobOnly
  <2>4. J[p].ip = NoSlot /\ J[p].dp = NoSlot /\ J[p].old = s
    BY <1>1, <1>5, <2>1
  <2>5. J2[p].ip = NoSlot /\ J2[p].dp = NoSlot /\ J2[p].old = NoSlot /\ J2[p].drop = Dropping(g, s)
    BY <1>9, <1>11, <2>3
  <2>6. Good(TRUE, b, h, F, J2)
    BY <1>5, <2>2, <2>3, <2>4, <2>5, FreeOld
  <2> QED
    BY <2>1, <2>6
<1>14. Rest'
  <2>1. unwritten' \subseteq Inums
    BY <1>4, <1>6 DEF RefInv, Rest, LockStep
  <2> QED
    BY <1>4, <2>1 DEF RefInv, Rest
<1> QED
  BY <1>4, <1>11, <1>12, <1>13, <1>14, JobInv

\* The inode_get of create and unlink, with the lock of the parent kept.
GetStep(p, a, s, f, n, j2) ==
    /\ job[p].at = "parent" /\ job[p].drop = NoSlot /\ job[p].call \in {"create", "mkdir", "unlink"}
    /\ (a = "check" /\ job[p].call \in {"create", "mkdir"}) \/ (a = "remove" /\ n # U)
    /\ s = job[p].ip /\ ~BadInode(fs, s) /\ f = Locked(fs, s) /\ n = Entry(f, s, Head(job[p].path))
    /\ CanGet(f, n) /\ fs' = Got(f, n) /\ lock' = [lock EXCEPT ![s] = p] /\ stolen' = Robs(p, f, n)
    /\ j2 = [job[p] EXCEPT !.at = a, !.dp = s, !.ip = GotSlot(f, n)] /\ job' = [job EXCEPT ![p] = j2]
    /\ UNCHANGED <<cwd, file, calls, halted, doubled, orphaned, uncounted, unwritten>>

LEMMA GetInv ==
    ASSUME RefInv, Intact, NEW p \in Procs, NEW a, NEW s, NEW f, NEW n, NEW j2, GetStep(p, a, s, f, n, j2)
    PROVE  RefInv'
<1>0. /\ job[p].at = "parent" /\ job[p].drop = NoSlot /\ job[p].call \in {"create", "mkdir", "unlink"}
      /\ (a = "check" /\ job[p].call \in {"create", "mkdir"}) \/ (a = "remove" /\ n # U)
      /\ s = job[p].ip /\ ~BadInode(fs, s) /\ f = Locked(fs, s) /\ n = Entry(f, s, Head(job[p].path)) /\ CanGet(f, n)
  BY DEF GetStep
<1>1. s \in Slots /\ job[p].dp = NoSlot /\ job[p].old = NoSlot /\ job[p] \in Job /\ job[p].path # <<>>
      /\ (job[p].call = "create" => file[p] = NoSlot)
  BY <1>0, StandsSlot, Now DEF Shape
<1>2. LockStep(p, s, f)
  BY <1>0, <1>1, LockFacts
<1>3. n \in Inums \cup {U} /\ f \in FS
  BY <1>0, <1>1, <1>2, NameHead, EntryType DEF LockStep
<1>4. PICK i : i = GotSlot(f, n) /\ i \in Slots
  BY <1>0, <1>3, GotSlotFacts
<1>5. j2 = [job[p] EXCEPT !.at = a, !.dp = s, !.ip = i]
  BY <1>4 DEF GetStep
<1>6. /\ j2 \in Job /\ j2.at = a /\ j2.ip = i /\ j2.dp = s /\ j2.old = NoSlot /\ j2.drop = NoSlot
      /\ j2.call = job[p].call /\ j2.path = job[p].path
  BY <1>0, <1>1, <1>4, <1>5, ZenonT(40) DEF Job, Labels
<1>7. job' = [job EXCEPT ![p] = j2] /\ fs' = Got(f, n) /\ stolen' = Robs(p, f, n)
  BY DEF GetStep
<1>8. Shape(file[p], j2)
  BY <1>0, <1>1, <1>4, <1>6, Sizes DEF Shape
<1>9. Good(~stolen', ~uncounted, fs', file, job')
  <2>1. PICK F, J, c, J2, b, g : F = file /\ J = job /\ c = ~stolen' /\ J2 = job' /\ b = ~uncounted /\ g = fs'
    OBVIOUS
  <2>2. Good(c, b, f, F, J) /\ f.slot[s].num # U /\ g = Got(f, n)
    BY <1>2, <1>7, <2>1 DEF LockStep, Good
  <2>3. OnlyProc(F, J, F, J2, p) /\ J2[p] = j2
    BY <1>7, <2>1, JobOnly
  <2>4. c => ~Robbed(f, J, p, n)
    BY <1>7, <2>1, Sizes DEF Robbed, Robs
  <2>5. J[p].ip = s /\ J[p].dp = NoSlot /\ J[p].drop = NoSlot /\ CanGet(f, n)
    BY <1>0, <1>1, <2>1
  <2>6. /\ J2[p].ip = GotSlot(f, n) /\ J2[p].dp = s /\ J2[p].old = J[p].old /\ J2[p].drop = NoSlot
        /\ (J2[p].at \in {"parent", "exists", "remove"} => n # U)
    BY <1>0, <1>1, <1>4, <1>6, <2>1, <2>3
  <2>7. Good(c, b, g, F, J2)
    BY <1>1, <1>3, <2>2, <2>3, <2>4, <2>5, <2>6, GoodStep
  <2> QED
    BY <2>1, <2>7
<1>10. Rest'
  <2>1. stolen' \in BOOLEAN
    BY <1>7 DEF Robs
  <2>2. lock' \in [Slots -> Procs \cup {None}]
    BY DEF RefInv, Rest, GetStep
  <2> QED
    BY <2>1, <2>2 DEF RefInv, Rest, GetStep
<1>11. Intact' => ~stolen'
  BY DEF Intact
<1>12. file' = file /\ cwd' = cwd /\ uncounted' = uncounted
  BY DEF GetStep
<1> QED
  BY <1>6, <1>7, <1>8, <1>9, <1>10, <1>11, <1>12, JobInv

LEMMA path_create_get_step ==
    ASSUME RefInv, NEW p \in Procs, path_create_get(p)
    PROVE  RefInv'
<1>1. PICK s : s = job[p].ip
  OBVIOUS
<1>2. PICK f : f = Locked(fs, s)
  OBVIOUS
<1>3. PICK n : n = Entry(f, s, Head(job[p].path))
  OBVIOUS
<1>4. PICK a : a = "check"
  OBVIOUS
<1>5. /\ Intact /\ job[p].at = "parent" /\ job[p].drop = NoSlot /\ ~BadInode(fs, s)
      /\ job[p].call \in {"create", "mkdir"} /\ CanGet(f, n) /\ fs' = Got(f, n)
      /\ lock' = [lock EXCEPT ![s] = p] /\ stolen' = Robs(p, f, n)
      /\ UNCHANGED <<cwd, file, calls, halted, doubled, orphaned, uncounted, unwritten>>
  BY <1>1, <1>2, <1>3, <1>4 DEF path_create_get, CanLock, Ready
<1>6. a \in {"check", "remove"} /\ a # "remove" /\ job[p].call \in {"create", "mkdir", "unlink"}
  BY <1>4, <1>5
<1>7. PICK j2 : j2 = [job[p] EXCEPT !.at = a, !.dp = s, !.ip = GotSlot(f, n)]
  OBVIOUS
<1>8. job' = [job EXCEPT ![p] = j2]
  BY <1>1, <1>2, <1>3, <1>4, <1>7 DEF path_create_get
<1>9. GetStep(p, a, s, f, n, j2)
  <2>1. (a = "check" /\ job[p].call \in {"create", "mkdir"}) \/ (a = "remove" /\ n # U)
    BY <1>4, <1>5
  <2>2. /\ job[p].at = "parent" /\ job[p].drop = NoSlot /\ job[p].call \in {"create", "mkdir", "unlink"}
        /\ ~BadInode(fs, s) /\ CanGet(f, n) /\ fs' = Got(f, n) /\ lock' = [lock EXCEPT ![s] = p]
        /\ stolen' = Robs(p, f, n)
        /\ UNCHANGED <<cwd, file, calls, halted, doubled, orphaned, uncounted, unwritten>>
    BY <1>5, <1>6
  <2> QED
    BY <1>1, <1>2, <1>3, <1>7, <1>8, <2>1, <2>2 DEF GetStep
<1> QED
  BY <1>5, <1>9, GetInv

LEMMA path_unlink_get_step ==
    ASSUME RefInv, NEW p \in Procs, path_unlink_get(p)
    PROVE  RefInv'
<1>1. PICK s : s = job[p].ip
  OBVIOUS
<1>2. PICK f : f = Locked(fs, s)
  OBVIOUS
<1>3. PICK n : n = Entry(f, s, Head(job[p].path))
  OBVIOUS
<1>4. PICK a : a = "remove"
  OBVIOUS
<1>5. /\ Intact /\ job[p].at = "parent" /\ job[p].drop = NoSlot /\ ~BadInode(fs, s) /\ job[p].call = "unlink"
      /\ UNCHANGED <<cwd, file, calls, halted, doubled, orphaned, uncounted, unwritten>>
  BY <1>1 DEF path_unlink_get, CanLock, Ready
<1>6. CASE fs' = Freed(f, s) /\ Return(p, Dropping(f, s)) /\ UNCHANGED <<lock, stolen>>
  <2>1. Rest'
    BY <1>5, <1>6 DEF RefInv, Rest
  <2>2. job[p].at \in {"walk", "found", "parent", "exists"}
    BY <1>5
  <2>3. job[p].old = NoSlot
    BY <1>5, Now DEF Shape
  <2> QED
    BY <1>1, <1>2, <1>5, <1>6, <2>1, <2>2, <2>3, FreeInv
<1>7. CASE /\ n # INODE_NUM_UNUSED /\ CanGet(f, n) /\ fs' = Got(f, n)
           /\ lock' = [lock EXCEPT ![s] = p] /\ stolen' = Robs(p, f, n)
           /\ job' = [job EXCEPT ![p].at = a, ![p].dp = s, ![p].ip = GotSlot(f, n)]
  <2>1. a \in {"check", "remove"} /\ a # "check" /\ job[p].call \in {"create", "mkdir", "unlink"} /\ n # U
    BY <1>4, <1>5, <1>7, Sizes
  <2>2. PICK j2 : j2 = [job[p] EXCEPT !.at = a, !.dp = s, !.ip = GotSlot(f, n)]
    OBVIOUS
  <2>3. job' = [job EXCEPT ![p] = j2]
    BY <1>7, <2>2
  <2>4. GetStep(p, a, s, f, n, j2)
    BY <1>1, <1>2, <1>3, <1>4, <1>5, <1>7, <2>1, <2>2, <2>3 DEF GetStep
  <2> QED
    BY <1>5, <2>4, GetInv
<1>8. \/ fs' = Freed(f, s) /\ Return(p, Dropping(f, s)) /\ UNCHANGED <<lock, stolen>>
      \/ /\ n # INODE_NUM_UNUSED /\ CanGet(f, n) /\ fs' = Got(f, n)
         /\ lock' = [lock EXCEPT ![s] = p] /\ stolen' = Robs(p, f, n)
         /\ job' = [job EXCEPT ![p].at = a, ![p].dp = s, ![p].ip = GotSlot(f, n)]
  BY <1>1, <1>2, <1>3, <1>4 DEF path_unlink_get
<1> QED
  BY <1>6, <1>7, <1>8

\* inode_free of the directory that is locked.
LEMMA FreeDir ==
    ASSUME NEW c, NEW b, NEW f, NEW F, NEW J, Good(c, b, f, F, J), NEW p \in Procs, NEW J2,
           OnlyProc(F, J, F, J2, p), NEW s \in Slots, J[p].dp = s, f.slot[s].ref >= 1,
           J2[p].at \in {"parent", "exists", "remove"} => f.slot[J2[p].ip].num # U,
           NEW g, g = Freed(f, s),
           J2[p].ip = J[p].ip, J2[p].dp = NoSlot, J2[p].old = J[p].old,
           J2[p].drop \in {J[p].drop, NoSlot} \/ J2[p].drop = Dropping(f, s)
    PROVE  Good(c, b, g, F, J2) /\ FreedRes(f, s, g)
<1>1. ASSUME NEW t \in Slots
      PROVE  /\ Mine(F[p], J[p], t) = Mine(F[p], J2[p], t) + One(t = s)
             /\ Solid(F[p], J2[p], t) => Solid(F[p], J[p], t) \/ f.slot[t].num # U
  BY Sizes DEF Mine, One, Solid
<1> QED
  BY <1>1, GoodFree

LEMMA DirFacts ==
    ASSUME RefInv, Intact, NEW p \in Procs, job[p].at \in {"check", "remove"}
    PROVE  /\ job[p].ip \in Slots /\ job[p].dp \in Slots /\ job[p].old = NoSlot /\ job[p].path # <<>>
           /\ fs.slot[job[p].dp].num \in Inums /\ fs.slot[job[p].dp].num # U
           /\ fs.slot[job[p].dp].ref >= 1 /\ fs.slot[job[p].ip].ref >= 1
<1>1. job[p].ip \in Slots /\ job[p].dp \in Slots /\ job[p].old = NoSlot /\ job[p].path # <<>>
  BY Now DEF Shape, MaybeSlots
<1>2. PICK s, i : s = job[p].dp /\ i = job[p].ip
  OBVIOUS
<1>3. RefOK(fs, file, job) /\ fs \in FS
  BY Now
<1>4. Solid(file[p], job[p], s)
  BY <1>2 DEF Solid
<1>5. fs.slot[s].num # U
  BY <1>1, <1>2, <1>3, <1>4 DEF RefOK
<1>6. fs.slot[s].num \in Inums
  BY <1>1, <1>2, <1>3, <1>5, Sizes DEF FS, Slot
<1>7. Mine(file[p], job[p], s) >= 1 /\ Mine(file[p], job[p], i) >= 1
  BY <1>2 DEF Mine, One
<1>8. fs.slot[s].ref >= 1 /\ fs.slot[i].ref >= 1
  BY <1>1, <1>2, <1>3, <1>7, HeldRef
<1> QED
  BY <1>1, <1>2, <1>5, <1>6, <1>8

LEMMA path_create_found_step ==
    ASSUME RefInv, NEW p \in Procs, path_create_found(p)
    PROVE  RefInv'
<1>1. PICK s, i : s = job[p].dp /\ i = job[p].ip
  OBVIOUS
<1>2. PICK d : d = Dropping(fs, s)
  OBVIOUS
<1>3. /\ Intact /\ job[p].at = "check" /\ job[p].drop = NoSlot /\ fs.slot[i].num # U /\ fs' = Freed(fs, s)
      /\ lock' = [lock EXCEPT ![s] = None] /\ UNCHANGED <<cwd, file, calls, flags>>
  BY <1>1, Sizes DEF path_create_found, Ready
<1>4. /\ s \in Slots /\ i \in Slots /\ job[p].old = NoSlot /\ fs.slot[s].ref >= 1 /\ job[p] \in Job
      /\ job[p].call \in {"create", "mkdir"} /\ (job[p].call = "create" => file[p] = NoSlot)
  BY <1>1, <1>3, DirFacts, Now DEF Shape
<1>5. d \in MaybeSlots
  BY <1>2, <1>4, DroppingType
<1>6. PICK j2 : j2 = [job[p] EXCEPT !.at = "exists", !.dp = NoSlot, !.drop = d]
  OBVIOUS
<1>7. /\ j2 \in Job /\ j2.at = "exists" /\ j2.ip = i /\ j2.dp = NoSlot /\ j2.old = NoSlot /\ j2.drop = d
      /\ j2.call = job[p].call
  BY <1>1, <1>4, <1>5, <1>6 DEF Job, Labels, MaybeSlots
<1>8. job' = [job EXCEPT ![p] = j2]
  BY <1>1, <1>2, <1>6 DEF path_create_found
<1>9. Shape(file[p], j2)
  BY <1>4, <1>7, Sizes DEF Shape
<1>10. Good(TRUE, ~uncounted, fs', file, job')
  <2>1. PICK F, J, J2, b, c, f, g : F = file /\ J = job /\ J2 = job' /\ b = ~uncounted /\ c = TRUE /\ f = fs /\ g = fs'
    OBVIOUS
  <2>2. Good(c, b, f, F, J) /\ g = Freed(f, s) /\ f.slot[s].ref >= 1 /\ s \in Slots
    BY <1>3, <1>4, <2>1, Now
  <2>3. OnlyProc(F, J, F, J2, p) /\ J2[p] = j2
    BY <1>8, <2>1, JobOnly
  <2>4. J[p].dp = s /\ J2[p].ip = J[p].ip /\ J2[p].dp = NoSlot /\ J2[p].old = J[p].old
        /\ J2[p].drop = Dropping(f, s) /\ f.slot[J2[p].ip].num # U
    BY <1>1, <1>2, <1>3, <1>4, <1>7, <2>1, <2>3
  <2>5. Good(c, b, g, F, J2)
    BY <2>2, <2>3, <2>4, FreeDir
  <2> QED
    BY <2>1, <2>5
<1>11. Rest'
  <2>1. lock' \in [Slots -> Procs \cup {None}]
    BY <1>3 DEF RefInv, Rest
  <2> QED
    BY <1>3, <2>1 DEF RefInv, Rest, flags
<1> QED
  BY <1>3, <1>7, <1>8, <1>9, <1>10, <1>11, JobInv DEF flags

LEMMA path_create_old_step ==
    ASSUME RefInv, NEW p \in Procs, path_create_old(p)
    PROVE  RefInv'
<1>1. PICK s : s = job[p].ip
  OBVIOUS
<1>2. PICK f : f = Locked(fs, s)
  OBVIOUS
<1>3. Intact /\ job[p].at = "exists" /\ ~BadInode(fs, s) /\ job[p].call = "create"
      /\ UNCHANGED <<lock, cwd, calls, flags>>
  BY <1>1 DEF path_create_old, CanLock, Ready
<1>4. CASE fs' = f /\ file' = [file EXCEPT ![p] = s] /\ Return(p, NoSlot)
  <2>1. job[p].at \in {"found", "exists"} /\ job[p].call \in {"open", "create"}
    BY <1>3
  <2> QED
    BY <1>1, <1>2, <1>3, <1>4, <2>1, OpenInv
<1>5. CASE fs' = Freed(f, s) /\ file' = file /\ Return(p, Dropping(f, s))
  <2>1. job[p].at \in {"walk", "found", "parent", "exists"} /\ job[p].old = NoSlot
    BY <1>3, Now DEF Shape
  <2>2. Rest' /\ cwd' = cwd /\ uncounted' = uncounted
    BY <1>3, <1>5 DEF RefInv, Rest, flags
  <2> QED
    BY <1>1, <1>2, <1>3, <1>5, <2>1, <2>2, FreeInv
<1>6. \/ fs' = f /\ file' = [file EXCEPT ![p] = s] /\ Return(p, NoSlot)
      \/ fs' = Freed(f, s) /\ file' = file /\ Return(p, Dropping(f, s))
  BY <1>1, <1>2 DEF path_create_old
<1> QED
  BY <1>4, <1>5, <1>6

LEMMA SameRefsTrans ==
    ASSUME NEW f, NEW g, NEW h, SameRefs(f, g), SameRefs(g, h)
    PROVE  SameRefs(f, h)
<1> SUFFICES ASSUME NEW t \in Slots
             PROVE  /\ h.slot[t].num = f.slot[t].num /\ h.slot[t].ref = f.slot[t].ref
                    /\ h.slot[t].valid => f.slot[t].valid \/ f.slot[t].num # U
  BY DEF SameRefs
<1> QED
  BY DEF SameRefs

\* inode_create on the disk.
Fresh(f, b, n, type) ==
    [f EXCEPT !.bits = @ \cup {b}, !.inode[n] = [type |-> type, nlink |-> 0], !.entry[n] = NoEntries]
FreshRes(f, b, n, type, g) ==
    /\ g \in FS /\ g.slot = f.slot /\ g.bits = f.bits \cup {b}
    /\ g.inode = [f.inode EXCEPT ![n] = [type |-> type, nlink |-> 0]]
    /\ g.entry = [f.entry EXCEPT ![n] = NoEntries]

LEMMA FreshFacts ==
    ASSUME NEW f \in FS, NEW b \in Bits, NEW n \in Inums, NEW type \in Types
    PROVE  FreshRes(f, b, n, type, Fresh(f, b, n, type))
<1> DEFINE g == Fresh(f, b, n, type)
<1>1. PICK iu : iu = [f.inode EXCEPT ![n] = [type |-> type, nlink |-> 0]]
  OBVIOUS
<1>2. PICK en : en = [f.entry EXCEPT ![n] = NoEntries]
  OBVIOUS
<1>3. PICK bi : bi = f.bits \cup {b}
  OBVIOUS
<1>4. g = [f EXCEPT !.bits = bi, !.inode = iu, !.entry = en]
  BY <1>1, <1>2, <1>3 DEF Fresh
<1>5. [type |-> type, nlink |-> 0] \in DiskInode /\ NoEntries \in [Names -> Inums \cup {INODE_NUM_UNUSED}]
  BY DEF DiskInode, NoEntries
<1>6. iu \in [Inums -> DiskInode]
  BY <1>1, <1>5 DEF FS
<1>7. en \in [Inums -> [Names -> Inums \cup {INODE_NUM_UNUSED}]]
  BY <1>2, <1>5 DEF FS
<1>8. bi \in SUBSET Bits
  BY <1>3 DEF FS
<1>9. g.slot = f.slot /\ g.bits = bi /\ g.inode = iu /\ g.entry = en
  BY <1>4 DEF FS
<1>10. g \in FS
  BY <1>4, <1>6, <1>7, <1>8 DEF FS
<1> QED
  BY <1>1, <1>2, <1>3, <1>9, <1>10 DEF FreshRes

\* What path_create_inode does to the file system, call by call.
Made(f, n, type, s, k, x, f1, f2, f3, f4, f5, f6) ==
    /\ f1 = f /\ s = GotSlot(f1, n) /\ f2 = Got(f1, n) /\ f3 = Locked(f2, s) /\ f4 = Relinked(f3, s, 1)
    /\ f5 = (IF type = "DIR" THEN Relinked(f4, k, 1) ELSE f4)
    /\ f6 = dir_add_entry(f5, k, x, n)

MadeRes(c, b, f, F, J2, n, type, s, k, x, f2, f3, f4, f5, f6) ==
    /\ Good(c, b, f6, F, J2) /\ s \in Slots /\ f6.slot[s].num = n /\ f6.slot[s].ref >= 1
    /\ f6.slot[k].num = f.slot[k].num /\ f6.slot[k].ref >= 1
    /\ s = k => f6.slot[s].ref >= 2
    /\ GotRes(f, n, f2) /\ LockedRes(f2, s, f3) /\ RelinkedRes(f3, s, 1, f4)
    /\ f5.slot[k].num = f.slot[k].num /\ f5 \in FS /\ SameRefs(f4, f5)
    /\ (IF type = "DIR" THEN RelinkedRes(f4, k, 1, f5) ELSE f5 = f4) /\ AddRes(f5, k, x, n, f6)

LEMMA MadeGood ==
    ASSUME NEW c, NEW b, NEW f, NEW F, NEW J, Good(c, b, f, F, J), NEW p \in Procs, NEW J2,
           OnlyProc(F, J, F, J2, p), NEW k \in Slots, J[p].ip = NoSlot, J[p].dp = k, J[p].old = NoSlot,
           J[p].drop = NoSlot, f.slot[k].num \in Inums, f.slot[k].ref >= 1,
           NEW n \in Inums, CanGet(f, n), c => ~Robbed(f, J, p, n), NEW type, f.inode[n].type # "UNUSED",
           NEW x \in Names, NEW s, NEW f2, NEW f3, NEW f4, NEW f5, NEW f6,
           Made(f, n, type, s, k, x, f, f2, f3, f4, f5, f6),
           J2[p].at = "walk", J2[p].ip = s, J2[p].dp = k, J2[p].old = NoSlot, J2[p].drop = NoSlot
    PROVE  MadeRes(c, b, f, F, J2, n, type, s, k, x, f2, f3, f4, f5, f6)
<1>1. f \in FS /\ f.slot[k].ref \in Nat /\ U \notin Inums /\ f.slot[k].num # U /\ n # U
  BY Sizes DEF Good, FS, Slot
<1>2. s = GotSlot(f, n) /\ f2 = Got(f, n) /\ f3 = Locked(f2, s) /\ f4 = Relinked(f3, s, 1)
      /\ f5 = (IF type = "DIR" THEN Relinked(f4, k, 1) ELSE f4) /\ f6 = dir_add_entry(f5, k, x, n)
  BY DEF Made
<1>3. Good(c, b, f2, F, J2) /\ GotRes(f, n, f2) /\ s \in Slots
  <2>1. J2[p].ip = GotSlot(f, n) /\ J2[p].dp = J[p].dp /\ J2[p].old = J[p].old /\ n \in Inums \cup {U}
        /\ J2[p].at \notin {"parent", "exists", "remove"}
    BY <1>2
  <2> QED
    BY <1>2, <2>1, GoodTake
<1>4. f2.slot[s].num = n /\ f2.slot[s].ref >= 1 /\ (s = k => f2.slot[s].ref >= 2)
      /\ f2.slot[k].num = f.slot[k].num /\ f2.slot[k].ref >= 1 /\ f2.inode = f.inode /\ f2 \in FS
  <2>1. f.slot[s].ref \in Nat
    BY <1>1, <1>3 DEF FS, Slot
  <2>2. CASE Hits(f, n) # {}
    <3>1. f2.slot[s].num = n /\ f2.slot[s].ref = f.slot[s].ref + 1 /\ f2.slot[s].num = f.slot[s].num /\ f.slot[s].ref > 0
          /\ (s # k => f2.slot[k] = f.slot[k]) /\ f2.inode = f.inode /\ f2 \in FS
      BY <1>1, <1>2, <1>3, <2>2, GotSlotFacts DEF GotRes, Only, SameDisk
    <3> QED
      BY <1>1, <2>1, <3>1
  <2>3. CASE Hits(f, n) = {}
    <3>1. f2.slot[s].num = n /\ f2.slot[s].ref = 1 /\ f.slot[s].num = U
          /\ (s # k => f2.slot[k] = f.slot[k]) /\ f2.inode = f.inode /\ f2 \in FS
      BY <1>2, <1>3, <2>3 DEF GotRes, Only, SameDisk
    <3> QED
      BY <1>1, <2>1, <3>1
  <2> QED
    BY <2>2, <2>3
<1>5. ~BadInode(f2, s)
  <2>1. f2.slot[s].ref \in Nat
    BY <1>3, <1>4 DEF FS, Slot
  <2> QED
    BY <1>4, <2>1 DEF BadInode
<1>6. LockedRes(f2, s, f3) /\ SameRefs(f2, f3) /\ f3 \in FS
  BY <1>2, <1>3, <1>4, <1>5, LockedFacts, LockedRefs, ZenonT(40) DEF LockedRes
<1>7. RelinkedRes(f3, s, 1, f4) /\ SameRefs(f3, f4) /\ f4 \in FS
  BY <1>2, <1>3, <1>6, RelinkedFacts DEF RelinkedRes
<1>8. (IF type = "DIR" THEN RelinkedRes(f4, k, 1, f5) ELSE f5 = f4) /\ SameRefs(f4, f5) /\ f5 \in FS
  <2>1. CASE type = "DIR"
    BY <1>2, <1>7, <2>1, RelinkedFacts DEF RelinkedRes
  <2>2. CASE type # "DIR"
    BY <1>2, <1>7, <2>2 DEF SameRefs
  <2> QED
    BY <2>1, <2>2
<1>9. SameRefs(f2, f5)
  BY <1>6, <1>7, <1>8, SameRefsTrans
<1>10. f5.slot[k].num \in Inums /\ f5.slot[k].num = f.slot[k].num
  BY <1>4, <1>9 DEF SameRefs
<1>11. AddRes(f5, k, x, n, f6) /\ SameRefs(f5, f6) /\ f6 \in FS
  <2>1. /\ n \in Inums \cup {U} /\ f5 \in FS /\ k \in Slots /\ x \in Names /\ f5.slot[k].num \in Inums
        /\ f6 = dir_add_entry(f5, k, x, n)
    BY <1>2, <1>8, <1>10
  <2>2. AddRes(f5, k, x, n, f6) /\ SameRefs(f5, f6)
    BY <2>1, AddFacts
  <2> QED
    BY <2>2 DEF AddRes
<1>12. SameRefs(f2, f6)
  BY <1>9, <1>11, SameRefsTrans
<1>13. Good(c, b, f6, F, J2)
  BY <1>3, <1>11, <1>12, GoodSame
<1>14. /\ f6.slot[s].num = n /\ f6.slot[s].ref >= 1 /\ f6.slot[k].num = f.slot[k].num /\ f6.slot[k].ref >= 1
       /\ s = k => f6.slot[s].ref >= 2
  BY <1>3, <1>4, <1>12 DEF SameRefs
<1> QED
  BY <1>3, <1>6, <1>7, <1>8, <1>10, <1>11, <1>13, <1>14 DEF MadeRes

\* A free bit and the number of its inode.
LEMMA FreeBit ==
    ASSUME RefInv, ClearBits # {}
    PROVE  Min(ClearBits) \in Bits /\ Min(ClearBits) \notin fs.bits /\ Min(ClearBits) + inode_start \in Inums
<1>1. ClearBits \in SUBSET Nat
  BY DirAssumption DEF ClearBits, Bits
<1>2. Min(ClearBits) \in ClearBits
  BY <1>1, LeastNumber
<1> QED
  BY <1>2, Sizes DEF ClearBits

\* The parts of path_create_new.
NewStep(p, b, n, type, k, x, s, f, f2, f3, f4, f5, h, e) ==
    /\ Intact /\ job[p].at = "check" /\ job[p].drop = NoSlot /\ fs.slot[job[p].ip].num = U /\ ClearBits # {}
    /\ b = Min(ClearBits) /\ n = b + inode_start /\ type = (IF job[p].call = "mkdir" THEN "DIR" ELSE "FILE")
    /\ k = job[p].dp /\ x = Head(job[p].path) /\ f = Fresh(fs, b, n, type)
    /\ Made(f, n, type, s, k, x, f, f2, f3, f4, f5, h) /\ e = Freed(h, k)

NewEffect(p, n, k, s, f, h, e) ==
    /\ fs' = IF job[p].call = "mkdir" THEN Freed(e, s) ELSE e
    /\ file' = IF job[p].call = "mkdir" THEN file ELSE [file EXCEPT ![p] = s]
    /\ lock' = [lock EXCEPT ![k] = None]
    /\ Return(p, Dropping(h, k))
    /\ stolen' = Robs(p, f, n) /\ doubled' = (fs.inode[n].type # "UNUSED")
    /\ orphaned' = (fs.slot[k].nlink = 0)
    /\ UNCHANGED <<cwd, calls, halted, uncounted, unwritten>>

LEMMA NewStepFacts ==
    ASSUME NEW p \in Procs, path_create_new(p)
    PROVE  \E b, n, type, k, x, s, f, f2, f3, f4, f5, h, e :
              /\ NewStep(p, b, n, type, k, x, s, f, f2, f3, f4, f5, h, e)
              /\ NewEffect(p, n, k, s, f, h, e)
              /\ fs.inode[n].type = "UNUSED" => lock[s] = None
<1> DEFINE b == Min(ClearBits)
           n == b + inode_start
           type == IF job[p].call = "mkdir" THEN "DIR" ELSE "FILE"
           k == job[p].dp
           x == Head(job[p].path)
           f == [fs EXCEPT !.bits = @ \cup {b}, !.inode[n] = [type |-> type, nlink |-> 0], !.entry[n] = NoEntries]
           s == GotSlot(f, n)
           f2 == Got(f, n)
           f3 == Locked(f2, s)
           f4 == Relinked(f3, s, 1)
           f5 == IF job[p].call = "mkdir" THEN Relinked(f4, k, 1) ELSE f4
           h == dir_add_entry(f5, k, x, n)
           e == Freed(h, k)
<1>1. NewEffect(p, n, k, s, f, h, e) /\ (fs.inode[n].type = "UNUSED" => lock[s] = None)
  BY Zenon DEF path_create_new, NewEffect
<1>2. /\ Intact /\ job[p].at = "check" /\ job[p].drop = NoSlot /\ fs.slot[job[p].ip].num = U /\ ClearBits # {}
  BY Sizes DEF path_create_new, Ready
<1>3. f = Fresh(fs, b, n, type)
  BY DEF Fresh
<1>4. type = "DIR" <=> job[p].call = "mkdir"
  OBVIOUS
<1>5. f5 = (IF type = "DIR" THEN Relinked(f4, k, 1) ELSE f4)
  <2> HIDE DEF f4, k, type
  <2> QED
    BY <1>4
<1>6. Made(f, n, type, s, k, x, f, f2, f3, f4, f5, h)
  <2>1. s = GotSlot(f, n) /\ f2 = Got(f, n) /\ f3 = Locked(f2, s) /\ f4 = Relinked(f3, s, 1) /\ h = dir_add_entry(f5, k, x, n)
    OBVIOUS
  <2> HIDE DEF f, n, type, s, k, x, f2, f3, f4, f5, h
  <2> QED
    BY <1>5, <2>1 DEF Made
<1>7. b = Min(ClearBits) /\ n = b + inode_start /\ type = (IF job[p].call = "mkdir" THEN "DIR" ELSE "FILE")
      /\ k = job[p].dp /\ x = Head(job[p].path) /\ e = Freed(h, k)
  OBVIOUS
<1> HIDE DEF b, n, type, k, x, s, f, f2, f3, f4, f5, h, e
<1>8. NewStep(p, b, n, type, k, x, s, f, f2, f3, f4, f5, h, e)
  BY <1>2, <1>3, <1>6, <1>7 DEF NewStep
<1> QED
  BY <1>1, <1>8

\* What the parts do, with the references of process p as the counts see it.
NewRes(p, c, bb, b, n, type, k, x, s, f, f2, f3, f4, f5, h, e, J2) ==
    /\ b \in Bits /\ b \notin fs.bits /\ n \in Inums /\ k \in Slots /\ s \in Slots /\ x \in Names
    /\ type \in {"DIR", "FILE"} /\ fs.slot[k].num \in Inums
    /\ FreshRes(fs, b, n, type, f) /\ CanGet(f, n) /\ s = GotSlot(f, n)
    /\ GotRes(f, n, f2) /\ LockedRes(f2, s, f3) /\ RelinkedRes(f3, s, 1, f4)
    /\ f5 \in FS /\ f5.slot[k].num = fs.slot[k].num
    /\ (IF type = "DIR" THEN RelinkedRes(f4, k, 1, f5) ELSE f5 = f4) /\ AddRes(f5, k, x, n, h)
    /\ FreedRes(h, k, e) /\ e.slot[s].num = n /\ e.slot[s].ref >= 1
    /\ h.slot[s].num = n /\ h.slot[k].num = fs.slot[k].num /\ h.slot[k].ref >= 1
    /\ Good(c, bb, e, file, J2)
    /\ OnlyProc(file, job, file, J2, p)
    /\ J2[p].ip = s /\ J2[p].dp = NoSlot /\ J2[p].old = NoSlot /\ J2[p].drop = Dropping(h, k)

LEMMA NewFacts ==
    ASSUME RefInv, NEW p \in Procs, NEW c, NEW b, NEW n, NEW type, NEW k, NEW x, NEW s, NEW f, NEW f2, NEW f3,
           NEW f4, NEW f5, NEW h, NEW e, NewStep(p, b, n, type, k, x, s, f, f2, f3, f4, f5, h, e),
           c => ~Robs(p, f, n)
    PROVE  \E J2 : NewRes(p, c, ~uncounted, b, n, type, k, x, s, f, f2, f3, f4, f5, h, e, J2)
<1>1. /\ Intact /\ job[p].at = "check" /\ job[p].drop = NoSlot /\ fs.slot[job[p].ip].num = U
      /\ b = Min(ClearBits) /\ n = b + inode_start /\ type = (IF job[p].call = "mkdir" THEN "DIR" ELSE "FILE")
      /\ k = job[p].dp /\ x = Head(job[p].path) /\ f = Fresh(fs, b, n, type) /\ ClearBits # {}
      /\ Made(f, n, type, s, k, x, f, f2, f3, f4, f5, h) /\ e = Freed(h, k)
  BY DEF NewStep
<1>2. /\ b \in Bits /\ b \notin fs.bits /\ n \in Inums /\ type \in {"DIR", "FILE"} /\ type \in Types
  BY <1>1, FreeBit DEF Types
<1>3. /\ k \in Slots /\ x \in Names /\ job[p].ip \in Slots /\ job[p].old = NoSlot /\ fs.slot[k].num \in Inums
      /\ fs.slot[k].ref >= 1 /\ fs \in FS
  BY <1>1, DirFacts, Now, NameHead
<1>4. FreshRes(fs, b, n, type, f)
  BY <1>1, <1>2, <1>3, FreshFacts
<1>5. /\ f \in FS /\ f.slot = fs.slot /\ f.inode[n].type = type /\ SameRefs(fs, f)
  <2>1. f \in FS /\ f.slot = fs.slot /\ f.inode = [fs.inode EXCEPT ![n] = [type |-> type, nlink |-> 0]]
    BY <1>4 DEF FreshRes
  <2>2. f.inode[n].type = type
    BY <1>2, <1>3, <2>1 DEF FS
  <2> QED
    BY <2>1, <2>2 DEF SameRefs
<1>6. CanGet(f, n)
  <2>1. job[p].ip \in Empty(f)
    BY <1>1, <1>3, <1>5, Sizes DEF Empty
  <2> QED
    BY <2>1 DEF CanGet
<1>7. PICK F, J, bb, i : F = file /\ J = job /\ bb = ~uncounted /\ i = job[p].ip
  OBVIOUS
<1>8. Good(c, bb, f, F, J)
  <2>1. Good(TRUE, ~uncounted, f, file, job)
    BY <1>1, <1>5, Now, GoodSame
  <2> QED
    BY <1>7, <2>1 DEF Good
<1>9. PICK J1 : StubRes(F, J, p, NoSlot, k, NoSlot, J1)
  BY StubFacts
<1>10. PICK J3 : StubRes(F, J, p, s, k, NoSlot, J3)
  BY StubFacts
<1>11. PICK d : d = Dropping(h, k)
  OBVIOUS
<1>12. PICK J2 : StubDropRes(F, J, p, s, NoSlot, NoSlot, d, J2)
  BY StubDropFacts
<1>13. /\ OnlyProc(F, J, F, J1, p) /\ OnlyProc(F, J1, F, J3, p) /\ OnlyProc(F, J3, F, J2, p) /\ OnlyProc(F, J, F, J2, p)
       /\ J1[p].ip = NoSlot /\ J1[p].dp = k /\ J1[p].old = NoSlot /\ J1[p].drop = NoSlot
       /\ J3[p].ip = s /\ J3[p].dp = k /\ J3[p].old = NoSlot /\ J3[p].drop = NoSlot /\ J3[p].at = "walk"
       /\ J2[p].ip = s /\ J2[p].dp = NoSlot /\ J2[p].old = NoSlot /\ J2[p].drop = d /\ J2[p].at = "walk"
       /\ \A q \in Procs : q # p => J1[q] = J[q]
  BY <1>9, <1>10, <1>12 DEF StubRes, StubDropRes
<1>14. Good(c, bb, f, F, J1)
  <2>1. J[p].ip = i /\ i \in Slots /\ f.slot[i].num = U /\ J1[p].dp = J[p].dp /\ J1[p].old = J[p].old
    BY <1>1, <1>3, <1>5, <1>7, <1>13
  <2> QED
    BY <1>8, <1>13, <2>1, GoodForget
<1>15. c => ~Robbed(f, J1, p, n)
  BY <1>7, <1>13, Sizes DEF Robbed, Robs
<1>16. /\ Good(c, bb, h, F, J3) /\ s \in Slots /\ h.slot[s].num = n /\ h.slot[s].ref >= 1
       /\ h.slot[k].num = f.slot[k].num /\ h.slot[k].ref >= 1
       /\ s = k => h.slot[s].ref >= 2
       /\ GotRes(f, n, f2) /\ LockedRes(f2, s, f3) /\ RelinkedRes(f3, s, 1, f4)
       /\ f5.slot[k].num = f.slot[k].num /\ f5 \in FS
       /\ (IF type = "DIR" THEN RelinkedRes(f4, k, 1, f5) ELSE f5 = f4) /\ AddRes(f5, k, x, n, h)
  <2>1. f.slot[k].num \in Inums /\ f.slot[k].ref >= 1 /\ f.inode[n].type # "UNUSED" /\ n \in Inums /\ x \in Names /\ k \in Slots
    BY <1>2, <1>3, <1>5
  <2>2. Made(f, n, type, s, k, x, f, f2, f3, f4, f5, h)
    BY <1>1
  <2>3. MadeRes(c, bb, f, F, J3, n, type, s, k, x, f2, f3, f4, f5, h)
    BY <1>6, <1>13, <1>14, <1>15, <2>1, <2>2, MadeGood
  <2> QED
    BY <2>3 DEF MadeRes
<1>17. Good(c, bb, e, F, J2) /\ FreedRes(h, k, e)
  <2>1. J2[p].at \notin {"parent", "exists", "remove"} /\ J2[p].ip = J3[p].ip /\ J2[p].old = J3[p].old
        /\ J2[p].drop = Dropping(h, k) /\ e = Freed(h, k) /\ J2[p].dp = NoSlot
    BY <1>1, <1>11, <1>13
  <2> QED
    BY <1>3, <1>13, <1>16, <2>1, FreeDir
<1>18. e.slot[s].num = n /\ e.slot[s].ref >= 1
  <2>1. h.slot[s].ref \in Nat
    BY <1>16 DEF Good, FS, Slot
  <2>2. CASE s # k
    BY <1>16, <1>17, <2>2 DEF FreedRes, Only
  <2>3. CASE s = k
    <3>1. ~LastRef(h, k)
      BY <1>16, <2>1, <2>3 DEF LastRef
    <3> QED
      BY <1>16, <1>17, <2>1, <2>3, <3>1 DEF FreedRes
  <2> QED
    BY <2>2, <2>3
<1>19. /\ b \in Bits /\ b \notin fs.bits /\ n \in Inums /\ k \in Slots /\ s \in Slots /\ x \in Names
       /\ type \in {"DIR", "FILE"} /\ fs.slot[k].num \in Inums /\ s = GotSlot(f, n)
  BY <1>1, <1>2, <1>3, <1>16 DEF Made
<1>20. /\ Good(c, ~uncounted, e, file, J2) /\ OnlyProc(file, job, file, J2, p)
       /\ J2[p].ip = s /\ J2[p].dp = NoSlot /\ J2[p].old = NoSlot /\ J2[p].drop = Dropping(h, k)
  BY <1>7, <1>11, <1>13, <1>17
<1>21. NewRes(p, c, ~uncounted, b, n, type, k, x, s, f, f2, f3, f4, f5, h, e, J2)
  BY <1>4, <1>5, <1>6, <1>16, <1>17, <1>18, <1>19, <1>20 DEF NewRes
<1> QED
  BY <1>21

LEMMA path_create_new_step ==
    ASSUME RefInv, NEW p \in Procs, path_create_new(p)
    PROVE  RefInv'
<1>1. PICK b, n, type, k, x, s, f, f2, f3, f4, f5, h, e :
              /\ NewStep(p, b, n, type, k, x, s, f, f2, f3, f4, f5, h, e)
              /\ NewEffect(p, n, k, s, f, h, e)
  BY NewStepFacts
<1>2. PICK c : c = ~stolen'
  OBVIOUS
<1>3. stolen' = Robs(p, f, n) /\ stolen' \in BOOLEAN /\ doubled' \in BOOLEAN /\ orphaned' \in BOOLEAN
  BY <1>1 DEF NewEffect, Robs
<1>4. PICK J1 : NewRes(p, c, ~uncounted, b, n, type, k, x, s, f, f2, f3, f4, f5, h, e, J1)
  BY <1>1, <1>2, <1>3, NewFacts
<1>5. Intact /\ job[p].at = "check" /\ job[p].old = NoSlot /\ (job[p].call = "create" => file[p] = NoSlot)
      /\ job[p].call \in {"create", "mkdir"}
  BY <1>1, DirFacts, Now DEF NewStep, Shape
<1>6. PICK d : d = Dropping(h, k) /\ d \in MaybeSlots
  BY <1>4, DroppingType DEF NewRes
<1>7. PICK j2 : j2 = [Idle EXCEPT !.drop = d]
  OBVIOUS
<1>8. j2 \in Job /\ j2.ip = NoSlot /\ j2.dp = NoSlot /\ j2.old = NoSlot /\ j2.drop = d /\ \A xx : Shape(xx, j2)
  BY <1>6, <1>7, IdleFacts
<1>9. job' = [job EXCEPT ![p] = j2]
  BY <1>1, <1>6, <1>7 DEF NewEffect, Return
<1>10. lock' \in [Slots -> Procs \cup {None}] /\ UNCHANGED <<cwd, calls, halted, uncounted, unwritten>>
  BY <1>1 DEF RefInv, Rest, NewEffect
<1>11. Rest'
  BY <1>3, <1>10 DEF RefInv, Rest
<1>12. PICK F, J, J2, bb, g, F2 : F = file /\ J = job /\ J2 = job' /\ bb = ~uncounted /\ g = fs' /\ F2 = file'
  OBVIOUS
<1>13. /\ OnlyProc(F, J, F, J2, p) /\ J2[p] = j2 /\ OnlyProc(F, J, F, J1, p) /\ Good(c, bb, e, F, J1)
       /\ J1[p].ip = s /\ J1[p].dp = NoSlot /\ J1[p].old = NoSlot /\ J1[p].drop = d
       /\ e.slot[s].num # U /\ e.slot[s].ref >= 1 /\ s \in Slots
  <2>1. OnlyProc(F, J, F, J2, p) /\ J2[p] = j2
    BY <1>9, <1>12, JobOnly
  <2>2. OnlyProc(F, J, F, J1, p) /\ Good(c, bb, e, F, J1)
    BY <1>4, <1>12 DEF NewRes
  <2> QED
    BY <1>4, <1>6, <2>1, <2>2, Sizes DEF NewRes
<1>14. CASE job[p].call = "mkdir"
  <2>1. g = Freed(e, s) /\ file' = file
    BY <1>1, <1>12, <1>14 DEF NewEffect
  <2>2. OnlyProc(F, J1, F, J2, p)
    BY <1>13 DEF OnlyProc
  <2>3. ASSUME NEW t \in Slots
        PROVE  /\ Mine(F[p], J1[p], t) = Mine(F[p], J2[p], t) + One(t = s)
               /\ Solid(F[p], J2[p], t) => Solid(F[p], J1[p], t) \/ e.slot[t].num # U
    BY <1>8, <1>13, Sizes DEF Mine, One, Solid
  <2>4. J2[p].drop \in {J1[p].drop, NoSlot}
    BY <1>8, <1>13
  <2>5. Good(c, bb, g, F, J2)
    BY <1>13, <2>1, <2>2, <2>3, <2>4, GoodFree
  <2>6. Intact' => c
    BY <1>2 DEF Intact
  <2>7. Good(c, ~uncounted, fs', file, job')
    BY <1>12, <2>5
  <2> QED
    BY <1>5, <1>8, <1>9, <1>10, <1>11, <2>1, <2>6, <2>7, JobInv
<1>15. CASE job[p].call # "mkdir"
  <2>1. g = e /\ file' = [file EXCEPT ![p] = s] /\ file[p] = NoSlot
    BY <1>1, <1>5, <1>12, <1>15 DEF NewEffect
  <2>2. OnlyProc(F, J1, F2, J2, p) /\ F2[p] = s /\ F[p] = NoSlot
    BY <1>12, <1>13, <2>1 DEF OnlyProc, RefInv
  <2>3. J2[p].ip = NoSlot /\ J2[p].dp = NoSlot /\ J2[p].old = NoSlot /\ J2[p].drop \in {J1[p].drop, NoSlot}
    BY <1>8, <1>13
  <2>4. Good(c, bb, e, F2, J2)
    BY <1>13, <2>2, <2>3, GoodOpen
  <2>5. Good(Intact', ~uncounted', fs', file', job')
    BY <1>2, <1>10, <1>12, <2>1, <2>4 DEF Good, Intact
  <2>6. s \in MaybeSlots
    BY <1>13 DEF MaybeSlots
  <2>7. ~uncounted' => \A q \in Procs : cwd'[q] = 1
    BY <1>10 DEF RefInv
  <2> QED
    BY <1>5, <1>8, <1>9, <1>11, <2>1, <2>5, <2>6, <2>7, StepInv
<1> QED
  BY <1>14, <1>15

\* The parts of path_unlink: the inode is locked; a full directory lets both
\* go; otherwise the entry goes, the directory is let go, then the inode.
UnlinkStep(p, s, k, x, f, g, g2, h, e) ==
    /\ Intact /\ job[p].at = "remove" /\ job[p].drop = NoSlot /\ ~BadInode(fs, s) /\ lock[s] = None
    /\ s = job[p].ip /\ k = job[p].dp /\ x = Head(job[p].path)
    /\ f = Locked(fs, s) /\ f.slot[s].nlink >= 1 /\ g = dir_delete_entry(f, k, x)
    /\ g2 = (IF Type(f, s) = "DIR" THEN Relinked(g, k, -1) ELSE g) /\ h = Freed(g2, k)
    /\ e = Relinked(h, s, -1)
    /\ lock' = [lock EXCEPT ![k] = None] /\ UNCHANGED <<cwd, file, calls, flags>>
    /\ \/ /\ Type(f, s) = "DIR" /\ ~check_unlink(f, s)
          /\ fs' = Freed(Freed(f, s), k) /\ Return(p, NoSlot)
       \/ /\ ~(Type(f, s) = "DIR" /\ ~check_unlink(f, s))
          /\ fs' = Freed(e, s) /\ Return(p, Dropping(e, s))

LEMMA UnlinkStepFacts ==
    ASSUME NEW p \in Procs, path_unlink(p)
    PROVE  \E s, k, x, f, g, g2, h, e : UnlinkStep(p, s, k, x, f, g, g2, h, e)
<1> DEFINE s == job[p].ip
           k == job[p].dp
           x == Head(job[p].path)
           f == Locked(fs, s)
           g == dir_delete_entry(f, k, x)
           g2 == IF Type(f, s) = "DIR" THEN Relinked(g, k, -1) ELSE g
           h == Freed(g2, k)
           e == Relinked(h, s, -1)
<1>1. UnlinkStep(p, s, k, x, f, g, g2, h, e)
  BY Zenon DEF path_unlink, UnlinkStep, CanLock, Ready
<1> HIDE DEF s, k, x, f, g, g2, h, e
<1> QED
  BY <1>1

\* What the parts do on the way of an entry that goes.
GoneRes(p, s, k, x, f, g, g2, h, e) ==
    /\ s \in Slots /\ k \in Slots /\ x \in Names /\ LockStep(p, s, f)
    /\ f.slot[k].num \in Inums /\ f.slot[k].num = fs.slot[k].num
    /\ g \in FS /\ g.slot = f.slot /\ g.bits = f.bits /\ g.inode = f.inode
    /\ \A d \in Inums, y \in Names : g.entry[d][y] = IF d = f.slot[k].num /\ y = x THEN U ELSE f.entry[d][y]
    /\ (IF Type(f, s) = "DIR" THEN RelinkedRes(g, k, -1, g2) ELSE g2 = g)
    /\ SameRefs(f, g2) /\ g2 \in FS /\ Good(TRUE, ~uncounted, g2, file, job)

LEMMA GoneFacts ==
    ASSUME RefInv, NEW p \in Procs, NEW s, NEW k, NEW x, NEW f, NEW g, NEW g2, NEW h, NEW e,
           UnlinkStep(p, s, k, x, f, g, g2, h, e)
    PROVE  GoneRes(p, s, k, x, f, g, g2, h, e)
<1>1. /\ Intact /\ job[p].at = "remove" /\ job[p].drop = NoSlot /\ ~BadInode(fs, s)
      /\ s = job[p].ip /\ k = job[p].dp /\ x = Head(job[p].path)
      /\ f = Locked(fs, s) /\ g = dir_delete_entry(f, k, x)
      /\ g2 = (IF Type(f, s) = "DIR" THEN Relinked(g, k, -1) ELSE g)
  BY DEF UnlinkStep
<1>2. s \in Slots /\ k \in Slots /\ x \in Names /\ fs.slot[k].num \in Inums
  BY <1>1, DirFacts, Now, NameHead
<1>3. LockStep(p, s, f)
  BY <1>1, <1>2, LockFacts
<1>4. f.slot[k].num = fs.slot[k].num /\ f \in FS
  BY <1>2, <1>3 DEF LockStep, LockedRes, Only
<1>5. /\ g \in FS /\ g.slot = f.slot /\ g.bits = f.bits /\ g.inode = f.inode /\ SameRefs(f, g)
      /\ \A d \in Inums, y \in Names : g.entry[d][y] = IF d = f.slot[k].num /\ y = x THEN U ELSE f.entry[d][y]
  BY <1>1, <1>2, <1>4, DelFacts
<1>6. (IF Type(f, s) = "DIR" THEN RelinkedRes(g, k, -1, g2) ELSE g2 = g) /\ SameRefs(g, g2) /\ g2 \in FS
  <2>1. CASE Type(f, s) = "DIR"
    <3>1. g2 = Relinked(g, k, -1) /\ -1 \in Int
      BY <1>1, <2>1
    <3> QED
      BY <1>2, <1>5, <2>1, <3>1, RelinkedFacts DEF RelinkedRes
  <2>2. CASE Type(f, s) # "DIR"
    BY <1>1, <1>5, <2>2 DEF SameRefs
  <2> QED
    BY <2>1, <2>2
<1>7. SameRefs(f, g2)
  BY <1>5, <1>6, SameRefsTrans
<1>8. Good(TRUE, ~uncounted, g2, file, job)
  BY <1>3, <1>6, <1>7, GoodSame DEF LockStep
<1> QED
  BY <1>2, <1>3, <1>4, <1>5, <1>6, <1>7, <1>8 DEF GoneRes

\* Both let go, the directory first.
LEMMA GoneGood ==
    ASSUME NEW b, NEW g2, NEW F, NEW J, Good(TRUE, b, g2, F, J), NEW p \in Procs, NEW J2, OnlyProc(F, J, F, J2, p),
           NEW s \in Slots, NEW k \in Slots, J[p].ip = s, J[p].dp = k, J[p].old = NoSlot, J[p].drop = NoSlot,
           NEW h, h = Freed(g2, k), NEW e, e = Relinked(h, s, -1), NEW r, r = Freed(e, s),
           J2[p].ip = NoSlot, J2[p].dp = NoSlot, J2[p].old = NoSlot, J2[p].drop = Dropping(e, s)
    PROVE  /\ Good(TRUE, b, r, F, J2) /\ FreedRes(g2, k, h) /\ RelinkedRes(h, s, -1, e) /\ FreedRes(e, s, r)
           /\ g2.slot[k].ref >= 1 /\ h.slot[s].ref >= 1 /\ e.slot[s].ref >= 1
<1>1. PICK c : c = TRUE
  OBVIOUS
<1>2. Good(c, b, g2, F, J) /\ RefOK(g2, F, J) /\ g2 \in FS
  BY <1>1 DEF Good
<1>3. PICK J1 : StubRes(F, J, p, s, NoSlot, NoSlot, J1)
  BY StubFacts
<1>4. /\ OnlyProc(F, J, F, J1, p) /\ OnlyProc(F, J1, F, J2, p) /\ J1[p].at = "walk"
      /\ J1[p].ip = s /\ J1[p].dp = NoSlot /\ J1[p].old = NoSlot /\ J1[p].drop = NoSlot
  BY <1>3 DEF StubRes
<1>5. g2.slot[k].ref >= 1
  <2>1. Mine(F[p], J[p], k) >= 1
    BY DEF Mine, One
  <2> QED
    BY <1>2, <2>1, HeldRef
<1>6. Good(c, b, h, F, J1) /\ FreedRes(g2, k, h)
  <2>1. J1[p].at \notin {"parent", "exists", "remove"} /\ J1[p].ip = J[p].ip /\ J1[p].old = J[p].old
        /\ J1[p].drop \in {J[p].drop, NoSlot}
    BY <1>4
  <2> QED
    BY <1>2, <1>4, <1>5, <2>1, FreeDir
<1>7. h \in FS /\ RefOK(h, F, J1) /\ -1 \in Int
  BY <1>1, <1>6 DEF Good
<1>8. RelinkedRes(h, s, -1, e) /\ SameRefs(h, e) /\ e \in FS
  BY <1>7, RelinkedFacts DEF RelinkedRes
<1>9. Good(c, b, e, F, J1)
  BY <1>6, <1>8, GoodSame
<1>10. h.slot[s].ref >= 1
  <2>1. Mine(F[p], J1[p], s) >= 1
    BY <1>4 DEF Mine, One
  <2> QED
    BY <1>7, <2>1, HeldRef
<1>11. e.slot[s].ref >= 1
  BY <1>8, <1>10 DEF SameRefs
<1>12. ASSUME NEW t \in Slots
      PROVE  /\ Mine(F[p], J1[p], t) = Mine(F[p], J2[p], t) + One(t = s)
             /\ Solid(F[p], J2[p], t) => Solid(F[p], J1[p], t) \/ e.slot[t].num # U
  BY <1>4, Sizes DEF Mine, One, Solid
<1>13. Good(c, b, r, F, J2) /\ FreedRes(e, s, r)
  BY <1>4, <1>9, <1>11, <1>12, GoodFree
<1> QED
  BY <1>1, <1>5, <1>6, <1>8, <1>10, <1>11, <1>13

\* Both let go, the inode first, with nothing left to count down.
LEMMA FullGood ==
    ASSUME NEW b, NEW f, NEW F, NEW J, Good(TRUE, b, f, F, J), NEW p \in Procs, NEW J2, OnlyProc(F, J, F, J2, p),
           NEW s \in Slots, NEW k \in Slots, J[p].ip = s, J[p].dp = k, J[p].old = NoSlot, J[p].drop = NoSlot,
           NEW h, h = Freed(f, s), NEW r, r = Freed(h, k),
           J2[p].ip = NoSlot, J2[p].dp = NoSlot, J2[p].old = NoSlot, J2[p].drop = NoSlot
    PROVE  /\ Good(TRUE, b, r, F, J2) /\ FreedRes(f, s, h) /\ FreedRes(h, k, r)
           /\ f.slot[s].ref >= 1 /\ h.slot[k].ref >= 1
<1>1. PICK c : c = TRUE
  OBVIOUS
<1>2. Good(c, b, f, F, J) /\ RefOK(f, F, J) /\ f \in FS
  BY <1>1 DEF Good
<1>3. PICK J1 : StubRes(F, J, p, NoSlot, k, NoSlot, J1)
  BY StubFacts
<1>4. /\ OnlyProc(F, J, F, J1, p) /\ OnlyProc(F, J1, F, J2, p) /\ J1[p].at = "walk"
      /\ J1[p].ip = NoSlot /\ J1[p].dp = k /\ J1[p].old = NoSlot /\ J1[p].drop = NoSlot
  BY <1>3 DEF StubRes
<1>5. f.slot[s].ref >= 1
  <2>1. Mine(F[p], J[p], s) >= 1
    BY DEF Mine, One
  <2> QED
    BY <1>2, <2>1, HeldRef
<1>6. ASSUME NEW t \in Slots
      PROVE  /\ Mine(F[p], J[p], t) = Mine(F[p], J1[p], t) + One(t = s)
             /\ Solid(F[p], J1[p], t) => Solid(F[p], J[p], t) \/ f.slot[t].num # U
  BY <1>4, Sizes DEF Mine, One, Solid
<1>7. J1[p].drop \in {J[p].drop, NoSlot}
  BY <1>4
<1>8. Good(c, b, h, F, J1) /\ FreedRes(f, s, h)
  BY <1>2, <1>4, <1>5, <1>6, <1>7, GoodFree
<1>9. h.slot[k].ref >= 1
  <2>1. Mine(F[p], J1[p], k) >= 1
    BY <1>4 DEF Mine, One
  <2> QED
    BY <1>1, <1>8, <2>1, HeldRef DEF Good
<1>10. ASSUME NEW t \in Slots
       PROVE  /\ Mine(F[p], J1[p], t) = Mine(F[p], J2[p], t) + One(t = k)
              /\ Solid(F[p], J2[p], t) => Solid(F[p], J1[p], t) \/ h.slot[t].num # U
  BY <1>4, Sizes DEF Mine, One, Solid
<1>11. J2[p].drop \in {J1[p].drop, NoSlot}
  BY <1>4
<1>12. Good(c, b, r, F, J2) /\ FreedRes(h, k, r)
  BY <1>4, <1>8, <1>9, <1>10, <1>11, GoodFree
<1> QED
  BY <1>1, <1>5, <1>8, <1>9, <1>12

LEMMA path_unlink_step ==
    ASSUME RefInv, NEW p \in Procs, path_unlink(p)
    PROVE  RefInv'
<1>1. PICK s, k, x, f, g, g2, h, e : UnlinkStep(p, s, k, x, f, g, g2, h, e)
  BY UnlinkStepFacts
<1>2. /\ Intact /\ job[p].at = "remove" /\ job[p].drop = NoSlot /\ s = job[p].ip /\ k = job[p].dp
      /\ h = Freed(g2, k) /\ e = Relinked(h, s, -1)
      /\ lock' = [lock EXCEPT ![k] = None] /\ UNCHANGED <<cwd, file, calls, flags>>
      /\ \/ fs' = Freed(Freed(f, s), k) /\ Return(p, NoSlot)
         \/ fs' = Freed(e, s) /\ Return(p, Dropping(e, s))
  BY <1>1 DEF UnlinkStep
<1>3. GoneRes(p, s, k, x, f, g, g2, h, e)
  BY <1>1, GoneFacts
<1>4. s \in Slots /\ k \in Slots /\ job[p].old = NoSlot /\ Good(TRUE, ~uncounted, f, file, job)
      /\ Good(TRUE, ~uncounted, g2, file, job)
  BY <1>2, <1>3, DirFacts DEF GoneRes, LockStep
<1>5. Rest'
  <2>1. lock' \in [Slots -> Procs \cup {None}]
    BY <1>2 DEF RefInv, Rest
  <2> QED
    BY <1>2, <2>1 DEF RefInv, Rest, flags
<1>6. PICK d : d \in MaybeSlots /\ Return(p, d)
               /\ ((fs' = Freed(Freed(f, s), k) /\ d = NoSlot) \/ (fs' = Freed(e, s) /\ d = Dropping(e, s)))
  <2>1. NoSlot \in MaybeSlots /\ Dropping(e, s) \in MaybeSlots
    BY <1>4, DroppingType DEF MaybeSlots
  <2> QED
    BY <1>2, <2>1
<1>7. PICK j2 : NullRes(p, d, j2)
  BY <1>2, <1>4, <1>6, ReturnFacts
<1>8. Good(TRUE, ~uncounted, fs', file, job')
  <2>1. PICK F, J, J2, b, r : F = file /\ J = job /\ J2 = job' /\ b = ~uncounted /\ r = fs'
    OBVIOUS
  <2>2. Good(TRUE, b, f, F, J) /\ Good(TRUE, b, g2, F, J)
    BY <1>4, <2>1
  <2>3. OnlyProc(F, J, F, J2, p) /\ J2[p] = j2
    BY <1>7, <2>1, JobOnly DEF NullRes
  <2>4. J[p].ip = s /\ J[p].dp = k /\ J[p].old = NoSlot /\ J[p].drop = NoSlot
    BY <1>2, <1>4, <2>1
  <2>5. J2[p].ip = NoSlot /\ J2[p].dp = NoSlot /\ J2[p].old = NoSlot /\ J2[p].drop = d
    BY <1>4, <1>7, <2>3 DEF NullRes
  <2>6. CASE fs' = Freed(Freed(f, s), k) /\ d = NoSlot
    <3>1. PICK m : m = Freed(f, s)
      OBVIOUS
    <3>2. r = Freed(m, k)
      BY <2>1, <2>6, <3>1
    <3>3. Good(TRUE, b, r, F, J2)
      BY <1>4, <2>2, <2>3, <2>4, <2>5, <2>6, <3>1, <3>2, FullGood
    <3> QED
      BY <2>1, <3>3
  <2>7. CASE fs' = Freed(e, s) /\ d = Dropping(e, s)
    <3>1. h = Freed(g2, k) /\ e = Relinked(h, s, -1) /\ r = Freed(e, s)
      BY <1>2, <2>1, <2>7
    <3>2. Good(TRUE, b, r, F, J2)
      BY <1>4, <2>2, <2>3, <2>4, <2>5, <2>7, <3>1, GoneGood
    <3> QED
      BY <2>1, <3>2
  <2> QED
    BY <1>6, <2>6, <2>7
<1> QED
  BY <1>2, <1>5, <1>7, <1>8, NullInv DEF flags

LEMMA file_close_step ==
    ASSUME RefInv, NEW p \in Procs, file_close(p)
    PROVE  RefInv'
<1>1. PICK s : s = file[p]
  OBVIOUS
<1>2. Intact /\ job[p].at = "idle" /\ job[p].drop = NoSlot /\ s # NoSlot /\ fs' = Freed(fs, s)
      /\ Return(p, Dropping(fs, s)) /\ file' = [file EXCEPT ![p] = NoSlot] /\ UNCHANGED <<lock, cwd, calls, flags>>
  BY <1>1 DEF file_close, Ready
<1>3. s \in Slots /\ job[p].ip = NoSlot /\ job[p].dp = NoSlot /\ job[p].old = NoSlot
      /\ Good(TRUE, ~uncounted, fs, file, job)
  BY <1>1, <1>2, Now DEF Shape, MaybeSlots
<1>4. PICK d : d = Dropping(fs, s) /\ d \in MaybeSlots
  BY <1>3, DroppingType
<1>5. PICK j2 : j2 = [Idle EXCEPT !.drop = d]
  OBVIOUS
<1>6. j2 \in Job /\ j2.ip = NoSlot /\ j2.dp = NoSlot /\ j2.old = NoSlot /\ j2.drop = d /\ Shape(NoSlot, j2)
      /\ job' = [job EXCEPT ![p] = j2] /\ NoSlot \in MaybeSlots
  BY <1>2, <1>4, <1>5, IdleFacts DEF Return, MaybeSlots
<1>7. Good(TRUE, ~uncounted, fs', file', job')
  <2>1. PICK F, J, c, J2, b, F2, f, g : /\ F = file /\ J = job /\ c = TRUE /\ J2 = job' /\ b = ~uncounted
                                        /\ F2 = file' /\ f = fs /\ g = fs'
    OBVIOUS
  <2>2. Good(c, b, f, F, J) /\ g = Freed(f, s) /\ RefOK(f, F, J) /\ f \in FS
    BY <1>2, <1>3, <2>1 DEF Good
  <2>3. OnlyProc(F, J, F2, J2, p) /\ J2[p] = j2 /\ F2[p] = NoSlot
    BY <1>2, <1>6, <2>1 DEF RefInv, OnlyProc
  <2>4. J[p].ip = NoSlot /\ J[p].dp = NoSlot /\ J[p].old = NoSlot /\ F[p] = s
    BY <1>1, <1>3, <2>1
  <2>5. J2[p].ip = NoSlot /\ J2[p].dp = NoSlot /\ J2[p].old = NoSlot /\ J2[p].drop = Dropping(f, s)
    BY <1>4, <1>6, <2>1, <2>3
  <2>6. Mine(F[p], J[p], s) >= 1
    BY <2>4 DEF Mine, One
  <2>7. f.slot[s].ref >= 1
    BY <1>3, <2>2, <2>6, HeldRef
  <2>8. ASSUME NEW t \in Slots
        PROVE  /\ Mine(F[p], J[p], t) = Mine(F2[p], J2[p], t) + One(t = s)
               /\ Solid(F2[p], J2[p], t) => Solid(F[p], J[p], t) \/ f.slot[t].num # U
    BY <2>3, <2>4, <2>5, Sizes DEF Mine, One, Solid
  <2>9. Good(c, b, g, F2, J2)
    BY <1>3, <2>2, <2>3, <2>5, <2>7, <2>8, GoodFree
  <2> QED
    BY <2>1, <2>9
<1>8. Rest' /\ (~uncounted' => \A q \in Procs : cwd'[q] = 1)
  BY <1>2 DEF RefInv, Rest, flags
<1>9. Good(Intact', ~uncounted', fs', file', job')
  BY <1>2, <1>7 DEF Good, flags
<1> QED
  BY <1>2, <1>6, <1>8, <1>9, StepInv

LEMMA inode_free_end_step ==
    ASSUME RefInv, NEW p \in Procs, inode_free_end(p)
    PROVE  RefInv'
<1>1. PICK s : s = job[p].drop
  OBVIOUS
<1>2. Intact /\ s # NoSlot /\ fs' = Ended(fs, s) /\ job' = [job EXCEPT ![p].drop = NoSlot]
      /\ UNCHANGED <<lock, cwd, file, calls, flags>>
  BY <1>1 DEF inode_free_end, Ended
<1>3. s \in Slots /\ Good(TRUE, ~uncounted, fs, file, job) /\ job[p] \in Job /\ Shape(file[p], job[p])
  BY <1>1, <1>2, Now DEF MaybeSlots
<1>4. PICK j2 : j2 = [job[p] EXCEPT !.drop = NoSlot]
  OBVIOUS
<1>5. j2 \in Job /\ j2.at = job[p].at /\ j2.ip = job[p].ip /\ j2.dp = job[p].dp /\ j2.old = job[p].old
      /\ j2.drop = NoSlot /\ j2.call = job[p].call /\ j2.path = job[p].path
  BY <1>3, <1>4 DEF Job
<1>6. job' = [job EXCEPT ![p] = j2]
  BY <1>2, <1>4
<1>7. Shape(file[p], j2)
  BY <1>3, <1>5 DEF Shape, ForParent
<1>8. Good(TRUE, ~uncounted, fs', file, job')
  <2>1. PICK F, J, J2, b, f, g : /\ F = file /\ J = job /\ J2 = job' /\ b = ~uncounted
                                 /\ f = fs /\ g = fs'
    OBVIOUS
  <2>2. RefOK(f, F, J) /\ f \in FS /\ (b => OneOK(f)) /\ g = Ended(f, s)
    BY <1>2, <1>3, <2>1 DEF Good
  <2>3. OnlyProc(F, J, F, J2, p) /\ J2[p] = j2 /\ J[p].drop = s
    BY <1>1, <1>6, <2>1, JobOnly
  <2>4. f.slot[s].num = U /\ f.slot[s].ref >= 1
    BY <1>3, <2>2, <2>3, DropFacts
  <2>5. EndRes(f, s, g)
    BY <1>3, <2>2, <2>4, EndFacts
  <2>6. J2[p].drop = NoSlot /\ J2[p].ip = J[p].ip /\ J2[p].dp = J[p].dp /\ J2[p].old = J[p].old /\ J2[p].at = J[p].at
    BY <1>5, <2>1, <2>3
  <2>7. RefOK(g, F, J2)
    BY <1>3, <2>2, <2>3, <2>5, <2>6, EndRef
  <2>8. \A t \in Slots : LiveIn(g, t) => LiveIn(f, t) /\ g.slot[t].num = f.slot[t].num
    BY <2>4, <2>5 DEF EndRes, Only, LiveIn
  <2>9. b => OneOK(g)
    BY <2>2, <2>8, OneFewer
  <2>10. Good(TRUE, b, g, F, J2)
    BY <2>5, <2>7, <2>9 DEF Good, EndRes
  <2> QED
    BY <2>1, <2>10
<1>9. Rest'
  BY <1>2 DEF RefInv, Rest, flags
<1> QED
  BY <1>2, <1>5, <1>6, <1>7, <1>8, <1>9, JobInv DEF flags

\* After a panic nothing more is claimed of the references.
LEMMA HaltInv ==
    ASSUME RefInv, Halt
    PROVE  RefInv'
<1>1. ~Intact'
  BY DEF Halt, Intact
<1>2. Rest'
  BY DEF Halt, RefInv, Rest
<1>3. Good(Intact', ~uncounted', fs', file', job')
  BY <1>1 DEF Halt, RefInv, Good
<1> QED
  BY <1>1, <1>2, <1>3 DEF Halt, RefInv

LEMMA StutterInv ==
    ASSUME RefInv, UNCHANGED vars
    PROVE  RefInv'
<1>1. Good(Intact', ~uncounted', fs', file', job') /\ Rest'
  BY DEF vars, RefInv, Rest, Intact
<1> QED
  BY <1>1 DEF vars, RefInv, Intact

LEMMA NextInv ==
    ASSUME RefInv, Next
    PROVE  RefInv'
<1>1. CASE Over
  BY <1>1, StutterInv DEF Over
<1>2. ASSUME NEW p \in Procs, NEW call \in Calls, NEW path \in Paths, NEW next \in Paths, NEW abs \in BOOLEAN,
             Call(p, call, path, next, abs)
      PROVE  RefInv'
  BY <1>2, Call_step
<1>3. ASSUME NEW p \in Procs, NEW abs \in BOOLEAN, path_link_begin(p, abs) PROVE RefInv'
  BY <1>3, path_link_begin_step
<1>4. ASSUME NEW p \in Procs, path_link_undo(p, "undo") \/ path_link_undo(p, "undo_write") PROVE RefInv'
  BY <1>4, path_link_undo_step
<1>5. ASSUME NEW p \in Procs, inode_lock_panic(p) \/ inode_get_panic(p) \/ mkdir_panic(p) \/ path_create_full(p)
      PROVE  RefInv'
  BY <1>5, HaltInv DEF inode_lock_panic, inode_get_panic, mkdir_panic, path_create_full
<1>6. ASSUME NEW p \in Procs,
             \/ search_notdir(p) \/ search_parent(p) \/ search_next(p) \/ search_end(p)
             \/ path_missing(p) \/ file_open(p) \/ dir_change(p) \/ path_link_end(p)
      PROVE  RefInv'
  BY <1>6, search_notdir_step, search_parent_step, search_next_step, search_end_step, path_missing_step,
     file_open_step, dir_change_step, path_link_end_step
<1>7. ASSUME NEW p \in Procs,
             \/ path_create_get(p) \/ path_create_found(p) \/ path_create_old(p) \/ path_create_new(p)
             \/ path_unlink_get(p) \/ path_unlink(p)
             \/ file_close(p) \/ inode_free_end(p)
      PROVE  RefInv'
  BY <1>7, path_create_get_step, path_create_found_step, path_create_old_step, path_create_new_step,
     path_unlink_get_step, path_unlink_step, file_close_step, inode_free_end_step
<1> QED
  BY <1>1, <1>2, <1>3, <1>4, <1>5, <1>6, <1>7 DEF Next

-----------------------------------------------------------------------------
(***************************************************************************)
(* The start.                                                              *)
(***************************************************************************)
\* The slots and the disk at the start.
FirstSlot(i) ==
    [num |-> IF i = 1 THEN ROOT ELSE INODE_NUM_UNUSED, ref |-> IF i = 1 THEN Cardinality(Procs) ELSE 0,
     valid |-> FALSE, type |-> "UNUSED", nlink |-> 0]
Here == {x \in Names : Tree[x].type # "UNUSED"}
At(n) == {x \in Here : Tree[x].num = n}
FirstNum(x) == IF Tree[x].type = "UNUSED" THEN INODE_NUM_UNUSED ELSE Tree[x].num
FirstInode(n) ==
    IF n = ROOT THEN [type |-> "DIR", nlink |-> 1 + Cardinality({x \in Here : Tree[x].type = "DIR"})]
    ELSE [type |-> IF At(n) = {} THEN "UNUSED" ELSE Tree[CHOOSE x \in At(n) : TRUE].type,
          nlink |-> Cardinality(At(n))]
FirstFS ==
    [slot |-> [i \in Slots |-> FirstSlot(i)], inode |-> [n \in Inums |-> FirstInode(n)],
     bits |-> {ROOT} \cup {Tree[x].bit : x \in Here},
     entry |-> [n \in Inums |-> IF n = ROOT THEN [x \in Names |-> FirstNum(x)] ELSE NoEntries]]

LEMMA FirstStart ==
    ASSUME Init
    PROVE  fs = FirstFS
BY Zenon DEF Init, FirstFS, FirstSlot, FirstInode, FirstNum, Here, At

LEMMA FirstType == FirstFS \in FS
<1>1. \A S \in SUBSET Names : Cardinality(S) \in Nat
  BY DirAssumption, FS_Subset, FS_CardinalityType
<1>2. Cardinality(Procs) \in Nat
  BY DirAssumption, FS_CardinalityType
<1>3. \A x \in Names : Tree[x].type \in Types /\ Tree[x].num \in Inums /\ Tree[x].bit \in Bits
  BY DirAssumption
<1>4. ASSUME NEW i \in Slots PROVE FirstSlot(i) \in Slot
  BY <1>2, Sizes DEF FirstSlot, Slot, Types
<1>5. ASSUME NEW n \in Inums PROVE FirstInode(n) \in DiskInode
  <2>1. CASE n = ROOT
    <3>1. Cardinality({x \in Here : Tree[x].type = "DIR"}) \in Nat
      BY <1>1 DEF Here
    <3> QED
      BY <2>1, <3>1 DEF FirstInode, DiskInode, Types
  <2>2. CASE n # ROOT
    <3>1. Cardinality(At(n)) \in Nat /\ At(n) \subseteq Names
      BY <1>1 DEF At, Here
    <3>2. At(n) # {} => (CHOOSE x \in At(n) : TRUE) \in At(n)
      OBVIOUS
    <3>3. PICK c : c = CHOOSE x \in At(n) : TRUE
      OBVIOUS
    <3>4. At(n) # {} => Tree[c].type \in Types
      BY <1>3, <3>1, <3>2, <3>3
    <3>5. PICK t : t = IF At(n) = {} THEN "UNUSED" ELSE Tree[c].type
      OBVIOUS
    <3>6. t \in Types
      BY <3>4, <3>5 DEF Types
    <3>7. FirstInode(n) = [type |-> t, nlink |-> Cardinality(At(n))]
      BY <2>2, <3>3, <3>5 DEF FirstInode
    <3> QED
      BY <3>1, <3>6, <3>7 DEF DiskInode
  <2> QED
    BY <2>1, <2>2
<1>6. {ROOT} \cup {Tree[x].bit : x \in Here} \in SUBSET Bits
  BY <1>3, DirAssumption DEF Here, ROOT, Bits
<1>7. ASSUME NEW n \in Inums
      PROVE  (IF n = ROOT THEN [x \in Names |-> FirstNum(x)] ELSE NoEntries) \in [Names -> Inums \cup {INODE_NUM_UNUSED}]
  BY <1>3 DEF FirstNum, NoEntries
<1>8. [i \in Slots |-> FirstSlot(i)] \in [Slots -> Slot] /\ [n \in Inums |-> FirstInode(n)] \in [Inums -> DiskInode]
  BY <1>4, <1>5
<1>9. [n \in Inums |-> IF n = ROOT THEN [x \in Names |-> FirstNum(x)] ELSE NoEntries]
      \in [Inums -> [Names -> Inums \cup {INODE_NUM_UNUSED}]]
  BY <1>7
<1> QED
  BY <1>6, <1>8, <1>9, Zenon DEF FirstFS, FS

LEMMA FirstRef ==
    ASSUME NEW F, NEW J, F = [p \in Procs |-> NoSlot], J = [p \in Procs |-> Idle]
    PROVE  RefOK(FirstFS, F, J) /\ OneOK(FirstFS)
<1>1. ASSUME NEW s \in Slots
      PROVE  /\ FirstFS.slot[s].num = (IF s = 1 THEN ROOT ELSE U) /\ ~FirstFS.slot[s].valid
             /\ FirstFS.slot[s].ref = (IF s = 1 THEN Cardinality(Procs) ELSE 0)
  <2>1. FirstFS.slot[s] = FirstSlot(s)
    BY DEF FirstFS
  <2>2. PICK n, r : n = (IF s = 1 THEN ROOT ELSE U) /\ r = (IF s = 1 THEN Cardinality(Procs) ELSE 0)
    OBVIOUS
  <2>3. FirstFS.slot[s] = [num |-> n, ref |-> r, valid |-> FALSE, type |-> "UNUSED", nlink |-> 0]
    BY <2>1, <2>2, Zenon DEF FirstSlot, U
  <2> QED
    BY <2>2, <2>3
<1>2. ASSUME NEW s \in Slots
      PROVE  HoldersOf(F, J, s) = (IF s = 1 THEN Cardinality(Procs) ELSE 0) /\ Drops(J, s) = 0
  <2>1. \A q \in Procs : F[q] # s /\ J[q].ip # s /\ J[q].dp # s /\ J[q].old # s /\ J[q].drop # s
    BY Sizes DEF Idle
  <2>2. /\ {q \in Procs : F[q] = s} = {} /\ {q \in Procs : J[q].ip = s} = {}
        /\ {q \in Procs : J[q].dp = s} = {} /\ {q \in Procs : J[q].old = s} = {}
        /\ {q \in Procs : J[q].drop = s} = {}
    BY <2>1
  <2>3. Cardinality({}) = 0
    BY FS_EmptySet
  <2>4. Cardinality(Procs) \in Nat
    BY DirAssumption, FS_CardinalityType
  <2>5. /\ Cardinality({q \in Procs : F[q] = s}) = 0 /\ Cardinality({q \in Procs : J[q].ip = s}) = 0
        /\ Cardinality({q \in Procs : J[q].dp = s}) = 0 /\ Cardinality({q \in Procs : J[q].old = s}) = 0
        /\ Cardinality({q \in Procs : J[q].drop = s}) = 0
    BY <2>2, <2>3, Zenon
  <2> QED
    BY <2>4, <2>5 DEF HoldersOf, Drops
<1>3. ASSUME NEW s \in Slots PROVE SlotOK(FirstFS.slot[s], HoldersOf(F, J, s), Drops(J, s))
  <2>1. Cardinality(Procs) \in Nat /\ ROOT # U
    BY DirAssumption, FS_CardinalityType, Sizes
  <2> QED
    BY <1>1, <1>2, <2>1 DEF SlotOK
<1>4. ASSUME NEW s \in Slots, NEW p \in Procs PROVE ~Solid(F[p], J[p], s)
  BY Sizes DEF Solid, Idle
<1>5. FirstFS.slot[1].num = ROOT
  <2>1. 1 \in Slots
    BY Sizes
  <2> QED
    BY <1>1, <2>1
<1>6. \A s \in Slots : LiveIn(FirstFS, s) => s = 1
  BY <1>1 DEF LiveIn
<1> QED
  BY <1>3, <1>4, <1>5, <1>6 DEF RefOK, OneOK

LEMMA InitInv ==
    ASSUME Init
    PROVE  RefInv
<1>1. /\ lock = [i \in Slots |-> None] /\ job = [p \in Procs |-> Idle]
      /\ cwd = [p \in Procs |-> 1] /\ file = [p \in Procs |-> NoSlot]
      /\ calls = 0 /\ unwritten = {}
      /\ halted = FALSE /\ stolen = FALSE /\ doubled = FALSE /\ orphaned = FALSE /\ uncounted = FALSE
  BY Zenon DEF Init
<1>2. Good(Intact, ~uncounted, fs, file, job)
  BY <1>1, FirstStart, FirstType, FirstRef DEF Good
<1>3. Idle \in Job /\ \A x : Shape(x, Idle)
  <2>1. NoSlot \in MaybeSlots /\ [Idle EXCEPT !.drop = NoSlot] = Idle
    BY DEF MaybeSlots, Idle
  <2> QED
    BY <2>1, IdleFacts
<1>4. Rest
  <2>1. calls \in 0..MAX_CALLS
    BY <1>1, DirAssumption
  <2>2. 1 \in Slots
    BY Sizes
  <2>3. lock \in [Slots -> Procs \cup {None}] /\ cwd \in [Procs -> Slots] /\ unwritten \subseteq Inums
    BY <1>1, <2>2
  <2>4. {halted, stolen, doubled, orphaned, uncounted} \subseteq BOOLEAN
    BY <1>1
  <2> QED
    BY <2>1, <2>3, <2>4 DEF Rest
<1>5. file \in [Procs -> MaybeSlots] /\ job \in [Procs -> Job] /\ \A p \in Procs : Shape(file[p], job[p])
  BY <1>1, <1>3 DEF MaybeSlots
<1> QED
  BY <1>1, <1>2, <1>4, <1>5 DEF RefInv

-----------------------------------------------------------------------------
LEMMA Invariant == Spec => []RefInv
<1>1. Init => RefInv
  BY InitInv
<1>2. RefInv /\ [Next]_vars => RefInv'
  BY NextInv, StutterInv
<1> QED
  BY <1>1, <1>2, PTL DEF Spec

\* Every slot that holds an inode counts exactly the references to it: the
\* open files, the places where system calls stand, and the root's current
\* directories (inode_get, inode_dup, inode_free).
THEOREM RefExactTheorem == Spec => []RefExact
<1>1. RefInv => RefExact
  <2> SUFFICES ASSUME RefInv, Intact, NEW s \in Slots, fs.slot[s].num # INODE_NUM_UNUSED
               PROVE  fs.slot[s].ref = Holders(s)
    BY DEF RefExact
  <2>1. RefOK(fs, file, job)
    BY DEF RefInv, Good
  <2>2. SlotOK(fs.slot[s], HoldersOf(file, job, s), Drops(job, s))
    BY <2>1 DEF RefOK
  <2>3. Holders(s) = HoldersOf(file, job, s)
    BY DEF Holders, HoldersOf
  <2> QED
    BY <2>2, <2>3, Zenon DEF SlotOK, U
<1> QED
  BY <1>1, Invariant, PTL

\* inode_get gives every process that asks for an inode the same slot, and
\* with it the same lock and the same copy, whatever else runs between.
THEOREM OneSlotTheorem == Spec => []OneSlot
<1>1. RefInv => OneSlot
  <2> SUFFICES ASSUME RefInv PROVE OneSlot
    OBVIOUS
  <2>1. TypeOK
    BY RefInvType
  <2>2. ASSUME ~uncounted, NEW n \in Inums PROVE Cardinality(Live(n)) <= 1
    <3>1. OneOK(fs)
      BY <2>2 DEF RefInv, Good
    <3>2. n # U
      BY Sizes
    <3>3. \A s, t \in Live(n) : s = t
      BY <3>1, <3>2 DEF Live, OneOK, LiveIn
    <3>4. CASE Live(n) = {}
      BY <3>4, FS_EmptySet
    <3>5. CASE Live(n) # {}
      <4>1. PICK s : s \in Live(n)
        BY <3>5
      <4>2. Live(n) = {s}
        BY <3>3, <4>1
      <4>3. Cardinality({s}) = 1
        BY FS_Singleton
      <4> QED
        BY <4>2, <4>3
    <3> QED
      BY <3>4, <3>5
  <2> QED
    BY <2>1, <2>2 DEF OneSlot
<1> QED
  BY <1>1, Invariant, PTL

-----------------------------------------------------------------------------
(***************************************************************************)
(* Counting links.                                                         *)
(***************************************************************************)
TypeOf(f, n) == f.inode[n].type
NamedIn(f, n) == {e \in Inums \X Names : f.entry[e[1]][e[2]] = n}
SubsIn(f, n) == {x \in Names : f.entry[n][x] \in Inums /\ f.inode[f.entry[n][x]].type = "DIR"}
LinksIn(f, n) == Cardinality(NamedIn(f, n)) + One(n = ROOT) + Cardinality(SubsIn(f, n))

\* k is the number of links of inode n, where m[n] links are owed: those of
\* entries yet to be made, or already gone.  A file whose count was lowered
\* in the cache only may have more.
LinkOK(f, m, W, k, n) ==
    IF n \in W /\ TypeOf(f, n) = "FILE" THEN k >= LinksIn(f, n) + m[n] ELSE k = LinksIn(f, n) + m[n]

SlotLinks(f, m, W, s) ==
    /\ f.slot[s].num = U => ~f.slot[s].valid
    /\ LiveIn(f, s) =>
        /\ TypeOf(f, f.slot[s].num) # "UNUSED"
        /\ f.slot[s].valid =>
              /\ f.slot[s].type = TypeOf(f, f.slot[s].num)
              /\ LinkOK(f, m, W, f.slot[s].nlink, f.slot[s].num)

\* A slot that will end inode n when it is freed.
Doomed(f, n, s) == LiveIn(f, s) /\ f.slot[s].num = n /\ f.slot[s].valid /\ f.slot[s].nlink = 0

InodeLinks(f, m, W, Z, n) ==
    /\ TypeOf(f, n) = "UNUSED" => NamedIn(f, n) = {}
    /\ TypeOf(f, n) # "UNUSED" => LinkOK(f, m, W, f.inode[n].nlink, n)
    /\ TypeOf(f, n) # "DIR" => f.entry[n] = NoEntries
    /\ TypeOf(f, n) = "DIR" /\ n # ROOT /\ NamedIn(f, n) = {} => f.entry[n] = NoEntries
    /\ TypeOf(f, n) # "UNUSED" /\ f.inode[n].nlink = 0 /\ n \notin Z => \E s \in Slots : Doomed(f, n, s)

\* Z are inodes that were just created.
LinkOn(f, m, W, Z) ==
    /\ f \in FS /\ OneOK(f) /\ m \in [Inums -> Int] /\ TypeOf(f, ROOT) = "DIR"
    /\ \A s \in Slots : SlotLinks(f, m, W, s)
    /\ \A n \in Inums : InodeLinks(f, m, W, Z, n)

LEMMA LinksType ==
    ASSUME NEW f, NEW n
    PROVE  /\ IsFiniteSet(NamedIn(f, n)) /\ IsFiniteSet(SubsIn(f, n)) /\ LinksIn(f, n) \in Nat
           /\ Cardinality(NamedIn(f, n)) \in Nat /\ Cardinality(SubsIn(f, n)) \in Nat
<1>1. IsFiniteSet(Names)
  BY DirAssumption
<1>2. IsFiniteSet(Inums)
  <2>1. 0 \in Int /\ NI + inode_start \in Int
    BY DirAssumption DEF inode_start
  <2> QED
    BY <2>1, FS_Interval DEF Inums
<1>3. IsFiniteSet(Inums \X Names)
  BY <1>1, <1>2, FS_Product
<1>4. IsFiniteSet(NamedIn(f, n)) /\ IsFiniteSet(SubsIn(f, n))
  BY <1>1, <1>3, FS_Subset DEF NamedIn, SubsIn
<1>5. Cardinality(NamedIn(f, n)) \in Nat /\ Cardinality(SubsIn(f, n)) \in Nat
  BY <1>4, FS_CardinalityType
<1> QED
  BY <1>4, <1>5 DEF LinksIn, One

\* Links depend on the entries and on the types of inodes only.
LEMMA LinksSame ==
    ASSUME NEW f \in FS, NEW g \in FS, g.entry = f.entry, \A n \in Inums : TypeOf(g, n) = TypeOf(f, n), NEW n \in Inums
    PROVE  NamedIn(g, n) = NamedIn(f, n) /\ SubsIn(g, n) = SubsIn(f, n) /\ LinksIn(g, n) = LinksIn(f, n)
<1>1. NamedIn(g, n) = NamedIn(f, n)
  BY DEF NamedIn
<1>2. SubsIn(g, n) = SubsIn(f, n)
  BY DEF SubsIn, TypeOf
<1> QED
  BY <1>1, <1>2 DEF LinksIn

\* The slots change in a way that the links do not notice.
SlotsMove(f, g) ==
    \A t \in Slots :
        /\ g.slot[t].num = U => ~g.slot[t].valid
        /\ LiveIn(g, t) =>
              /\ TypeOf(f, g.slot[t].num) # "UNUSED"
              /\ g.slot[t].valid =>
                    \/ /\ LiveIn(f, t) /\ f.slot[t].valid /\ g.slot[t].num = f.slot[t].num
                       /\ g.slot[t].type = f.slot[t].type /\ g.slot[t].nlink = f.slot[t].nlink
                    \/ /\ g.slot[t].type = f.inode[g.slot[t].num].type
                       /\ g.slot[t].nlink = f.inode[g.slot[t].num].nlink
        /\ \A n \in Inums : Doomed(f, n, t) => Doomed(g, n, t)

LEMMA LiveNum ==
    ASSUME NEW f \in FS, NEW s \in Slots, LiveIn(f, s)
    PROVE  f.slot[s].num \in Inums
BY Sizes DEF FS, Slot, LiveIn, U

LEMMA MoveLinks ==
    ASSUME NEW f, NEW m, NEW W, NEW Z, LinkOn(f, m, W, Z), NEW g \in FS, OneOK(g),
           g.inode = f.inode, g.entry = f.entry, SlotsMove(f, g)
    PROVE  LinkOn(g, m, W, Z)
<1>1. f \in FS /\ m \in [Inums -> Int] /\ TypeOf(f, ROOT) = "DIR"
  BY DEF LinkOn
<1>2. \A n : TypeOf(g, n) = TypeOf(f, n)
  BY DEF TypeOf
<1>3. \A n : NamedIn(g, n) = NamedIn(f, n)
  BY DEF NamedIn
<1>4. \A n : LinksIn(g, n) = LinksIn(f, n)
  BY <1>3 DEF LinksIn, SubsIn
<1>5. \A k, n : LinkOK(g, m, W, k, n) = LinkOK(f, m, W, k, n)
  BY <1>2, <1>4 DEF LinkOK
<1>6. ASSUME NEW t \in Slots PROVE SlotLinks(g, m, W, t)
  <2> SUFFICES ASSUME LiveIn(g, t)
               PROVE  /\ TypeOf(g, g.slot[t].num) # "UNUSED"
                      /\ g.slot[t].valid =>
                            /\ g.slot[t].type = TypeOf(g, g.slot[t].num)
                            /\ LinkOK(g, m, W, g.slot[t].nlink, g.slot[t].num)
    BY DEF SlotLinks, SlotsMove
  <2>1. PICK n \in Inums : n = g.slot[t].num
    BY LiveNum
  <2>2. TypeOf(f, n) # "UNUSED"
    BY <2>1 DEF SlotsMove
  <2>3. CASE /\ LiveIn(f, t) /\ f.slot[t].valid /\ g.slot[t].num = f.slot[t].num
             /\ g.slot[t].type = f.slot[t].type /\ g.slot[t].nlink = f.slot[t].nlink
    <3>1. SlotLinks(f, m, W, t)
      BY DEF LinkOn
    <3>2. f.slot[t].type = TypeOf(f, n) /\ LinkOK(f, m, W, f.slot[t].nlink, n)
      BY <2>1, <2>3, <3>1 DEF SlotLinks
    <3> QED
      BY <1>2, <1>5, <2>1, <2>2, <2>3, <3>2
  <2>4. CASE g.slot[t].type = f.inode[n].type /\ g.slot[t].nlink = f.inode[n].nlink
    <3>1. LinkOK(f, m, W, f.inode[n].nlink, n)
      BY <2>2 DEF LinkOn, InodeLinks
    <3> QED
      BY <1>2, <1>5, <2>1, <2>2, <2>4, <3>1 DEF TypeOf
  <2> QED
    BY <1>2, <2>1, <2>2, <2>3, <2>4 DEF SlotsMove
<1>7. ASSUME NEW n \in Inums PROVE InodeLinks(g, m, W, Z, n)
  <2>1. InodeLinks(f, m, W, Z, n)
    BY DEF LinkOn
  <2>2. \A s \in Slots : Doomed(f, n, s) => Doomed(g, n, s)
    BY DEF SlotsMove
  <2> QED
    BY <1>2, <1>3, <1>5, <2>1, <2>2 DEF InodeLinks
<1> QED
  BY <1>1, <1>2, <1>6, <1>7 DEF LinkOn

\* The slots and inodes that others rely on: before the first inode_free of a
\* step nothing is lost, and only the entries of the directories D and slots
\* outside Q are put to use; after it slots and inodes can only go.
Up(f, g, Q, D) ==
    /\ \A t \in Slots :
        /\ f.slot[t].num # U =>
              /\ g.slot[t].num = f.slot[t].num
              /\ f.slot[t].valid => g.slot[t].valid /\ g.slot[t].type = f.slot[t].type
        /\ t \in Q /\ f.slot[t].num = U => g.slot[t].num = U
    /\ \A n \in Inums : TypeOf(f, n) # "UNUSED" => TypeOf(g, n) = TypeOf(f, n)
    /\ \A n \in Inums : n \notin D => g.entry[n] = f.entry[n]

Down(f, g) ==
    /\ \A t \in Slots :
        /\ g.slot[t].num # U =>
              /\ g.slot[t].num = f.slot[t].num
              /\ f.slot[t].valid => g.slot[t].valid /\ g.slot[t].type = f.slot[t].type
        /\ f.slot[t].num # U /\ g.slot[t].num = U => NamedIn(f, f.slot[t].num) = {}
    /\ \A n \in Inums : TypeOf(g, n) = TypeOf(f, n) \/ TypeOf(g, n) = "UNUSED"
    /\ g.entry = f.entry

LEMMA UpSame ==
    ASSUME NEW f, NEW Q, NEW D
    PROVE  Up(f, f, Q, D)
BY DEF Up

LEMMA UpTrans ==
    ASSUME NEW f, NEW g, NEW h, NEW Q, NEW D, Up(f, g, Q, D), Up(g, h, Q, D)
    PROVE  Up(f, h, Q, D)
BY DEF Up

LEMMA DownSame ==
    ASSUME NEW f
    PROVE  Down(f, f)
BY DEF Down

LEMMA DownTrans ==
    ASSUME NEW f, NEW g, NEW h, Down(f, g), Down(g, h)
    PROVE  Down(f, h)
<1>1. \A n : NamedIn(g, n) = NamedIn(f, n)
  BY DEF Down, NamedIn
<1>2. ASSUME NEW t \in Slots
      PROVE  /\ h.slot[t].num # U =>
                /\ h.slot[t].num = f.slot[t].num
                /\ f.slot[t].valid => h.slot[t].valid /\ h.slot[t].type = f.slot[t].type
             /\ f.slot[t].num # U /\ h.slot[t].num = U => NamedIn(f, f.slot[t].num) = {}
  BY <1>1 DEF Down
<1>3. \A n \in Inums : TypeOf(h, n) = TypeOf(f, n) \/ TypeOf(h, n) = "UNUSED"
  BY DEF Down
<1>4. h.entry = f.entry
  BY DEF Down
<1> QED
  BY <1>2, <1>3, <1>4 DEF Down

-----------------------------------------------------------------------------
(***************************************************************************)
(* What each call does to the links.                                       *)
(***************************************************************************)
\* inode_lock reads an inode with its links.
LEMMA LockLink ==
    ASSUME NEW f, NEW m, NEW W, NEW Z, LinkOn(f, m, W, Z), NEW s \in Slots, ~BadInode(f, s), NEW g, g = Locked(f, s),
           NEW Q, NEW D
    PROVE  /\ LinkOn(g, m, W, Z) /\ Up(f, g, Q, D) /\ LiveIn(f, s) /\ LiveIn(g, s) /\ g.slot[s].valid
           /\ g.slot[s].num \in Inums /\ g.slot[s].num = f.slot[s].num /\ g.inode = f.inode /\ g.entry = f.entry
           /\ g.slot[s].type = TypeOf(g, g.slot[s].num)
<1>1. f \in FS /\ OneOK(f) /\ SlotLinks(f, m, W, s)
  BY DEF LinkOn
<1>2. LockedRes(f, s, g) /\ SameRefs(f, g)
  BY <1>1, LockedFacts, LockedRefs
<1>3. f.slot[s].ref \in Nat /\ f.slot[s].num \in Inums \cup {U}
  BY <1>1, Sizes DEF FS, Slot
<1>4. f.slot[s].num \in Inums /\ f.slot[s].ref > 0
  BY <1>1, <1>3, Sizes DEF SlotLinks, BadInode
<1>5. LiveIn(f, s) /\ LiveIn(g, s) /\ g.slot[s].num = f.slot[s].num /\ g.slot[s].valid /\ g \in FS
      /\ g.inode = f.inode /\ g.entry = f.entry
  BY <1>2, <1>4, Sizes DEF LiveIn, LockedRes, SameDisk
<1>6. OneOK(g)
  <2>1. \A t \in Slots : LiveIn(g, t) => LiveIn(f, t) /\ g.slot[t].num = f.slot[t].num
    BY <1>2 DEF SameRefs, LiveIn
  <2> QED
    BY <1>1, <2>1, OneFewer
<1>7. SlotsMove(f, g)
  <2> SUFFICES ASSUME NEW t \in Slots
               PROVE  /\ g.slot[t].num = U => ~g.slot[t].valid
                      /\ LiveIn(g, t) =>
                            /\ TypeOf(f, g.slot[t].num) # "UNUSED"
                            /\ g.slot[t].valid =>
                                  \/ /\ LiveIn(f, t) /\ f.slot[t].valid /\ g.slot[t].num = f.slot[t].num
                                     /\ g.slot[t].type = f.slot[t].type /\ g.slot[t].nlink = f.slot[t].nlink
                                  \/ /\ g.slot[t].type = f.inode[g.slot[t].num].type
                                     /\ g.slot[t].nlink = f.inode[g.slot[t].num].nlink
                      /\ \A n \in Inums : Doomed(f, n, t) => Doomed(g, n, t)
    BY DEF SlotsMove
  <2>1. SlotLinks(f, m, W, t)
    BY DEF LinkOn
  <2>2. CASE g.slot[t] = f.slot[t]
    BY <2>1, <2>2 DEF SlotLinks, LiveIn, Doomed
  <2>3. CASE t = s /\ ~f.slot[s].valid
    BY <1>2, <1>4, <1>5, <2>1, <2>3, Sizes DEF LockedRes, SlotLinks, Doomed
  <2> QED
    BY <1>2, <2>2, <2>3 DEF LockedRes, Only
<1>8. LinkOn(g, m, W, Z)
  BY <1>5, <1>6, <1>7, MoveLinks
<1>9. Up(f, g, Q, D)
  <2>1. \A t \in Slots : g.slot[t].num = f.slot[t].num
    BY <1>2 DEF SameRefs
  <2>2. \A t \in Slots : f.slot[t].valid => g.slot[t] = f.slot[t]
    BY <1>2 DEF LockedRes, Only
  <2> QED
    BY <1>5, <2>1, <2>2 DEF Up, TypeOf
<1>10. g.slot[s].type = TypeOf(g, g.slot[s].num)
  BY <1>5, <1>8 DEF LinkOn, SlotLinks
<1> QED
  BY <1>4, <1>5, <1>8, <1>9, <1>10

\* The parts of SlotsMove for slot t.
SlotMove(f, g, t) ==
    /\ g.slot[t].num = U => ~g.slot[t].valid
    /\ LiveIn(g, t) =>
          /\ TypeOf(f, g.slot[t].num) # "UNUSED"
          /\ g.slot[t].valid =>
                /\ LiveIn(f, t) /\ f.slot[t].valid /\ g.slot[t].num = f.slot[t].num
                /\ g.slot[t].type = f.slot[t].type /\ g.slot[t].nlink = f.slot[t].nlink
    /\ \A n \in Inums : Doomed(f, n, t) => Doomed(g, n, t)

LEMMA MoveAll ==
    ASSUME NEW f, NEW g, \A t \in Slots : SlotMove(f, g, t)
    PROVE  SlotsMove(f, g)
BY DEF SlotsMove, SlotMove

LEMMA MoveSame ==
    ASSUME NEW f, NEW m, NEW W, NEW Z, LinkOn(f, m, W, Z), NEW g, NEW t \in Slots, g.slot[t] = f.slot[t]
    PROVE  SlotMove(f, g, t)
BY DEF LinkOn, SlotLinks, SlotMove, LiveIn, Doomed

\* inode_get of an inode that is there, or of the number for none.
LEMMA GotLink ==
    ASSUME NEW f, NEW m, NEW W, NEW Z, LinkOn(f, m, W, Z), NEW n \in Inums \cup {U}, CanGet(f, n),
           n # U => TypeOf(f, n) # "UNUSED", NEW g, g = Got(f, n),
           NEW Q, n # U /\ Hits(f, n) = {} => GotSlot(f, n) \notin Q, NEW D
    PROVE  LinkOn(g, m, W, Z) /\ Up(f, g, Q, D) /\ GotRes(f, n, g) /\ GotSlot(f, n) \in Slots
<1>1. f \in FS /\ OneOK(f)
  BY DEF LinkOn
<1>2. PICK s : s = GotSlot(f, n)
  OBVIOUS
<1>3. GotRes(f, n, g) /\ s \in Slots /\ OneOK(g)
  BY <1>1, <1>2, GotFacts, GotSlotFacts, OneGot
<1>4. g \in FS /\ g.inode = f.inode /\ g.entry = f.entry /\ \A t \in Slots : t # s => g.slot[t] = f.slot[t]
  BY <1>2, <1>3 DEF GotRes, SameDisk, Only
<1>5. f.slot[s].ref \in Nat /\ SlotLinks(f, m, W, s)
  BY <1>1, <1>3 DEF FS, Slot, LinkOn
<1>6. SlotMove(f, g, s)
  <2>1. CASE Hits(f, n) # {}
    <3>1. /\ g.slot[s].num = f.slot[s].num /\ g.slot[s].ref = f.slot[s].ref + 1 /\ f.slot[s].ref > 0
          /\ g.slot[s].valid = f.slot[s].valid /\ g.slot[s].type = f.slot[s].type
          /\ g.slot[s].nlink = f.slot[s].nlink
      BY <1>1, <1>2, <1>3, <2>1, GotSlotFacts DEF GotRes
    <3>2. LiveIn(g, s) <=> LiveIn(f, s)
      BY <1>5, <3>1 DEF LiveIn
    <3> QED
      BY <1>5, <3>1, <3>2 DEF SlotMove, SlotLinks, Doomed
  <2>2. CASE Hits(f, n) = {}
    <3>1. f.slot[s].num = U /\ g.slot[s].num = n /\ g.slot[s].valid = FALSE
      BY <1>2, <1>3, <2>2 DEF GotRes
    <3>2. LiveIn(g, s) => n # U
      BY <3>1 DEF LiveIn
    <3>3. ~LiveIn(f, s)
      BY <3>1 DEF LiveIn
    <3> QED
      BY <3>1, <3>2, <3>3 DEF SlotMove, Doomed
  <2> QED
    BY <2>1, <2>2
<1>7. LinkOn(g, m, W, Z)
  <2>1. \A t \in Slots : SlotMove(f, g, t)
    BY <1>4, <1>6, MoveSame
  <2> QED
    BY <1>3, <1>4, <2>1, MoveAll, MoveLinks
<1>8. Up(f, g, Q, D)
  <2>1. ASSUME f.slot[s].num # U
        PROVE  g.slot[s].num = f.slot[s].num /\ (f.slot[s].valid => g.slot[s].valid /\ g.slot[s].type = f.slot[s].type)
    BY <1>2, <1>3, <2>1 DEF GotRes
  <2>2. ASSUME s \in Q, f.slot[s].num = U PROVE g.slot[s].num = U
    BY <1>2, <1>3, <2>2 DEF GotRes
  <2> QED
    BY <1>4, <2>1, <2>2 DEF Up, TypeOf
<1> QED
  BY <1>2, <1>3, <1>7, <1>8

\* A reference more to an inode that is in use.
LEMMA BumpLink ==
    ASSUME NEW f, NEW m, NEW W, NEW Z, LinkOn(f, m, W, Z), NEW s \in Slots, NEW g, BumpRes(f, s, g), LiveIn(f, s), NEW Q, NEW D
    PROVE  LinkOn(g, m, W, Z) /\ Up(f, g, Q, D)
<1>1. f \in FS /\ OneOK(f) /\ f.slot[s].ref \in Nat /\ SlotLinks(f, m, W, s)
  BY DEF LinkOn, FS, Slot
<1>2. /\ g \in FS /\ g.inode = f.inode /\ g.entry = f.entry /\ \A t \in Slots : t # s => g.slot[t] = f.slot[t]
      /\ g.slot[s].num = f.slot[s].num /\ g.slot[s].ref = f.slot[s].ref + 1
      /\ g.slot[s].valid = f.slot[s].valid /\ g.slot[s].type = f.slot[s].type
      /\ g.slot[s].nlink = f.slot[s].nlink
  BY DEF BumpRes, SameDisk, Only
<1>3. LiveIn(g, s)
  BY <1>1, <1>2 DEF LiveIn
<1>4. SlotMove(f, g, s)
  BY <1>1, <1>2, <1>3 DEF SlotMove, SlotLinks, Doomed
<1>5. OneOK(g)
  <2>1. \A t \in Slots : LiveIn(g, t) => LiveIn(f, t) /\ g.slot[t].num = f.slot[t].num
    BY <1>2 DEF LiveIn
  <2> QED
    BY <1>1, <2>1, OneFewer
<1>6. \A t \in Slots : SlotMove(f, g, t)
  BY <1>2, <1>4, MoveSame
<1>7. LinkOn(g, m, W, Z)
  BY <1>2, <1>5, <1>6, MoveAll, MoveLinks
<1> QED
  BY <1>2, <1>7 DEF Up, TypeOf

\* The end of inode_free, on a slot that has no inode any more.
LEMMA EndLink ==
    ASSUME NEW f, NEW m, NEW W, NEW Z, LinkOn(f, m, W, Z), NEW s \in Slots, NEW g, EndRes(f, s, g), f.slot[s].num = U, NEW Q, NEW D
    PROVE  LinkOn(g, m, W, Z) /\ Up(f, g, Q, D)
<1>1. f \in FS /\ OneOK(f) /\ SlotLinks(f, m, W, s)
  BY DEF LinkOn
<1>2. /\ g \in FS /\ g.inode = f.inode /\ g.entry = f.entry /\ \A t \in Slots : t # s => g.slot[t] = f.slot[t]
      /\ g.slot[s].num = U /\ g.slot[s].valid = f.slot[s].valid
  BY DEF EndRes, SameDisk, Only
<1>3. ~LiveIn(g, s) /\ ~LiveIn(f, s)
  BY <1>2 DEF LiveIn
<1>4. SlotMove(f, g, s)
  BY <1>1, <1>2, <1>3 DEF SlotMove, SlotLinks, Doomed
<1>5. OneOK(g)
  <2>1. \A t \in Slots : LiveIn(g, t) => LiveIn(f, t) /\ g.slot[t].num = f.slot[t].num
    BY <1>2, <1>3 DEF LiveIn
  <2> QED
    BY <1>1, <2>1, OneFewer
<1>6. \A t \in Slots : SlotMove(f, g, t)
  BY <1>2, <1>4, MoveSame
<1>7. LinkOn(g, m, W, Z)
  BY <1>2, <1>5, <1>6, MoveAll, MoveLinks
<1> QED
  BY <1>2, <1>7 DEF Up, TypeOf

\* An inode without links and without any owed has no name, and no entries.
LEMMA NoLinks ==
    ASSUME NEW f, NEW m, NEW W, NEW Z, LinkOn(f, m, W, Z), NEW n \in Inums, TypeOf(f, n) # "UNUSED",
           m[n] >= 0, LinkOK(f, m, W, 0, n)
    PROVE  NamedIn(f, n) = {} /\ n # ROOT /\ f.entry[n] = NoEntries
<1>1. m[n] \in Int /\ LinksIn(f, n) \in Nat
  BY LinksType DEF LinkOn
<1>2. LinksIn(f, n) = 0
  BY <1>1 DEF LinkOK
<1>3. Cardinality(NamedIn(f, n)) \in Nat /\ Cardinality(SubsIn(f, n)) \in Nat /\ IsFiniteSet(NamedIn(f, n))
  BY LinksType
<1>4. Cardinality(NamedIn(f, n)) = 0 /\ n # ROOT
  BY <1>2, <1>3 DEF LinksIn, One
<1>5. NamedIn(f, n) = {}
  BY <1>3, <1>4, FS_EmptySet
<1> QED
  BY <1>4, <1>5 DEF LinkOn, InodeLinks

\* inode_destroy of an inode that no entry names.
LEMMA GoneLink ==
    ASSUME NEW f, NEW m, NEW W, NEW Z, LinkOn(f, m, W, Z), NEW s \in Slots, NEW n \in Inums, n = f.slot[s].num,
           LiveIn(f, s), NamedIn(f, n) = {}, n # ROOT, f.entry[n] = NoEntries, NEW g \in FS, Only(f, g, s),
           g.slot[s].num = U, g.slot[s].valid = FALSE,
           g.inode = [f.inode EXCEPT ![n] = [type |-> "UNUSED", nlink |-> 0]],
           g.entry = [f.entry EXCEPT ![n] = NoEntries]
    PROVE  LinkOn(g, m, W, Z) /\ Down(f, g)
<1>1. f \in FS /\ OneOK(f) /\ m \in [Inums -> Int] /\ TypeOf(f, ROOT) = "DIR"
  BY DEF LinkOn
<1>2. g.entry = f.entry
  BY <1>1 DEF FS
<1>3. \A k \in Inums : k # n => g.inode[k] = f.inode[k]
  BY <1>1 DEF FS
<1>4. TypeOf(g, n) = "UNUSED" /\ \A k \in Inums : k # n => TypeOf(g, k) = TypeOf(f, k)
  BY <1>1, <1>3 DEF TypeOf, FS
<1>5. \A k : NamedIn(g, k) = NamedIn(f, k)
  BY <1>2 DEF NamedIn
<1>6. ASSUME NEW k \in Inums, NEW x \in Names PROVE f.entry[k][x] # n
  <2>1. <<k, x>> \notin NamedIn(f, n)
    OBVIOUS
  <2> QED
    BY <2>1 DEF NamedIn
<1>7. ASSUME NEW k \in Inums PROVE SubsIn(g, k) = SubsIn(f, k)
  BY <1>2, <1>3, <1>6 DEF SubsIn
<1>8. \A k \in Inums : LinksIn(g, k) = LinksIn(f, k)
  BY <1>5, <1>7 DEF LinksIn
<1>9. ASSUME NEW k \in Inums, k # n, NEW c PROVE LinkOK(g, m, W, c, k) = LinkOK(f, m, W, c, k)
  BY <1>4, <1>8, <1>9 DEF LinkOK
<1>10. \A t \in Slots : t # s => g.slot[t] = f.slot[t]
  BY DEF Only
<1>11. ~LiveIn(g, s) /\ \A t \in Slots : t # s => (LiveIn(g, t) <=> LiveIn(f, t))
  BY <1>10 DEF LiveIn
<1>12. \A t \in Slots : t # s /\ LiveIn(f, t) => f.slot[t].num \in Inums /\ f.slot[t].num # n
  BY <1>1, LiveNum DEF OneOK
<1>13. ASSUME NEW t \in Slots PROVE SlotLinks(g, m, W, t)
  <2>1. CASE t = s
    BY <1>11, <2>1 DEF SlotLinks
  <2>2. CASE t # s
    <3>1. SlotLinks(f, m, W, t) /\ g.slot[t] = f.slot[t]
      BY <1>10, <2>2 DEF LinkOn
    <3>2. CASE LiveIn(f, t)
      <4>1. PICK k \in Inums : k = f.slot[t].num /\ k # n
        BY <1>12, <2>2, <3>2
      <4>2. TypeOf(g, k) = TypeOf(f, k) /\ \A c : LinkOK(g, m, W, c, k) = LinkOK(f, m, W, c, k)
        BY <1>4, <1>9, <4>1
      <4> QED
        BY <3>1, <3>2, <4>1, <4>2 DEF SlotLinks
    <3>3. CASE ~LiveIn(f, t)
      BY <1>11, <2>2, <3>1, <3>3 DEF SlotLinks
    <3> QED
      BY <3>2, <3>3
  <2> QED
    BY <2>1, <2>2
<1>14. ASSUME NEW k \in Inums PROVE InodeLinks(g, m, W, Z, k)
  <2>1. InodeLinks(f, m, W, Z, k)
    BY DEF LinkOn
  <2>2. CASE k = n
    BY <1>2, <1>4, <1>5, <2>2 DEF InodeLinks
  <2>3. CASE k # n
    <3>1. ASSUME NEW t \in Slots, Doomed(f, k, t) PROVE Doomed(g, k, t)
      <4>1. t # s
        BY <2>3, <3>1 DEF Doomed
      <4> QED
        BY <1>10, <1>11, <3>1, <4>1 DEF Doomed
    <3>2. TypeOf(g, k) = TypeOf(f, k) /\ g.inode[k] = f.inode[k] /\ g.entry = f.entry /\ NamedIn(g, k) = NamedIn(f, k)
          /\ \A c : LinkOK(g, m, W, c, k) = LinkOK(f, m, W, c, k)
      BY <1>2, <1>3, <1>4, <1>5, <1>9, <2>3
    <3> QED
      BY <2>1, <3>1, <3>2 DEF InodeLinks
  <2> QED
    BY <2>2, <2>3
<1>15. OneOK(g)
  <2>1. \A t \in Slots : LiveIn(g, t) => LiveIn(f, t) /\ g.slot[t].num = f.slot[t].num
    BY <1>10, <1>11
  <2> QED
    BY <1>1, <2>1, OneFewer
<1>16. TypeOf(g, ROOT) = "DIR"
  BY <1>1, <1>4, Sizes
<1>17. LinkOn(g, m, W, Z)
  BY <1>1, <1>13, <1>14, <1>15, <1>16 DEF LinkOn
<1>18. Down(f, g)
  BY <1>2, <1>4, <1>10 DEF Down
<1> QED
  BY <1>17, <1>18

\* inode_free.
LEMMA FreeLink ==
    ASSUME NEW f, NEW m, NEW W, NEW Z, LinkOn(f, m, W, Z), NEW s \in Slots, NEW g, FreedRes(f, s, g),
           f.slot[s].num \in Inums => m[f.slot[s].num] >= 0
    PROVE  LinkOn(g, m, W, Z) /\ Down(f, g)
<1>1. f \in FS /\ OneOK(f) /\ f.slot[s].ref \in Nat /\ SlotLinks(f, m, W, s) /\ f.slot[s].nlink \in Int
  BY DEF LinkOn, FS, Slot
<1>2. g \in FS /\ \A t \in Slots : t # s => g.slot[t] = f.slot[t]
  BY DEF FreedRes, Only
<1>3. CASE ~LastRef(f, s)
  <2>1. /\ g.inode = f.inode /\ g.entry = f.entry
        /\ g.slot[s].num = f.slot[s].num /\ g.slot[s].ref = f.slot[s].ref - 1
        /\ g.slot[s].valid = f.slot[s].valid /\ g.slot[s].type = f.slot[s].type
        /\ g.slot[s].nlink = f.slot[s].nlink
    BY <1>3 DEF FreedRes, SameDisk
  <2>2. LiveIn(g, s) => LiveIn(f, s)
    BY <1>1, <2>1 DEF LiveIn
  <2>3. ASSUME NEW n \in Inums, Doomed(f, n, s) PROVE Doomed(g, n, s)
    <3>1. f.slot[s].ref > 1
      BY <1>1, <1>3, <2>3 DEF LastRef, Doomed, LiveIn
    <3> QED
      BY <1>1, <2>1, <2>3, <3>1 DEF Doomed, LiveIn
  <2>4. SlotMove(f, g, s)
    BY <1>1, <2>1, <2>2, <2>3 DEF SlotMove, SlotLinks
  <2>5. \A t \in Slots : SlotMove(f, g, t)
    BY <1>2, <2>4, MoveSame
  <2>6. OneOK(g)
    <3>1. \A t \in Slots : LiveIn(g, t) => LiveIn(f, t) /\ g.slot[t].num = f.slot[t].num
      BY <1>2, <2>1, <2>2 DEF LiveIn
    <3> QED
      BY <1>1, <3>1, OneFewer
  <2>7. LinkOn(g, m, W, Z)
    BY <1>2, <2>1, <2>5, <2>6, MoveAll, MoveLinks
  <2>8. Down(f, g)
    BY <1>2, <2>1 DEF Down, TypeOf
  <2> QED
    BY <2>7, <2>8
<1>4. CASE LastRef(f, s)
  <2>1. f.slot[s].valid /\ f.slot[s].nlink = 0 /\ f.slot[s].ref = 1
    BY <1>4 DEF LastRef
  <2>2. LiveIn(f, s)
    BY <1>1, <2>1 DEF LiveIn, SlotLinks
  <2>3. PICK n \in Inums : n = f.slot[s].num
    BY <1>1, <2>2, LiveNum
  <2>4. TypeOf(f, n) # "UNUSED" /\ LinkOK(f, m, W, 0, n)
    BY <1>1, <2>1, <2>2, <2>3 DEF SlotLinks
  <2>5. NamedIn(f, n) = {} /\ n # ROOT /\ f.entry[n] = NoEntries
    BY <2>3, <2>4, NoLinks
  <2>6. /\ Only(f, g, s) /\ g.slot[s].num = U /\ g.slot[s].valid = FALSE
        /\ g.inode = [f.inode EXCEPT ![n] = [type |-> "UNUSED", nlink |-> 0]]
        /\ g.entry = [f.entry EXCEPT ![n] = NoEntries]
    BY <1>4, <2>3 DEF FreedRes
  <2> QED
    BY <1>2, <2>2, <2>3, <2>5, <2>6, GoneLink
<1> QED
  BY <1>3, <1>4

\* k links more are owed to inode n.
Owe(m, n, k) == [i \in Inums |-> IF i = n THEN m[i] + k ELSE m[i]]

LEMMA OweFacts ==
    ASSUME NEW m \in [Inums -> Int], NEW n \in Inums, NEW k \in Int
    PROVE  /\ Owe(m, n, k) \in [Inums -> Int] /\ Owe(m, n, k)[n] = m[n] + k
           /\ \A i \in Inums : i # n => Owe(m, n, k)[i] = m[i]
BY DEF Owe

LEMMA OweNone ==
    ASSUME NEW m \in [Inums -> Int], NEW n \in Inums
    PROVE  Owe(m, n, 0) = m
<1>1. \A i \in Inums : Owe(m, n, 0)[i] = m[i] /\ Owe(m, n, 0) \in [Inums -> Int]
  BY DEF Owe
<1> QED
  BY <1>1

\* Nothing but slot s and its inode n differ, and the links of n.
Other(f, m, W, Z, s, n, g, m2, W2, Z2) ==
    /\ s \in Slots /\ n \in Inums /\ n = f.slot[s].num /\ LiveIn(f, s)
    /\ g \in FS /\ Only(f, g, s) /\ Kept(f, g) /\ g.entry = f.entry
    /\ \A i \in Inums : TypeOf(g, i) = TypeOf(f, i)
    /\ \A i \in Inums : i # n => g.inode[i] = f.inode[i] /\ m2[i] = m[i] /\ (i \in W2 <=> i \in W) /\ (i \in Z2 <=> i \in Z)
    /\ m2 \in [Inums -> Int] /\ g.slot[s].type = f.slot[s].type
    /\ SlotLinks(g, m2, W2, s) /\ InodeLinks(g, m2, W2, Z2, n)

LEMMA OtherLinks ==
    ASSUME NEW f, NEW m, NEW W, NEW Z, LinkOn(f, m, W, Z), NEW s, NEW n, NEW g, NEW m2, NEW W2, NEW Z2,
           Other(f, m, W, Z, s, n, g, m2, W2, Z2), NEW Q, NEW D
    PROVE  LinkOn(g, m2, W2, Z2) /\ Up(f, g, Q, D) /\ Down(f, g)
<1> USE DEF Other
<1>1. f \in FS /\ OneOK(f) /\ TypeOf(f, ROOT) = "DIR"
  BY DEF LinkOn
<1>2. \A k \in Inums : NamedIn(g, k) = NamedIn(f, k) /\ LinksIn(g, k) = LinksIn(f, k)
  BY <1>1, LinksSame
<1>3. \A i \in Inums : i # n => \A c : LinkOK(g, m2, W2, c, i) = LinkOK(f, m, W, c, i)
  BY <1>2 DEF LinkOK
<1>4. \A t \in Slots : t # s => g.slot[t] = f.slot[t]
  BY DEF Only
<1>5. \A t \in Slots : LiveIn(g, t) <=> LiveIn(f, t)
  BY DEF Kept, LiveIn
<1>6. \A t \in Slots : t # s /\ LiveIn(f, t) => f.slot[t].num \in Inums /\ f.slot[t].num # n
  BY <1>1, LiveNum DEF OneOK
<1>7. ASSUME NEW t \in Slots PROVE SlotLinks(g, m2, W2, t)
  <2>1. CASE t = s
    BY <2>1
  <2>2. CASE t # s
    <3>1. SlotLinks(f, m, W, t) /\ g.slot[t] = f.slot[t]
      BY <1>4, <2>2 DEF LinkOn
    <3>2. CASE LiveIn(f, t)
      <4>1. PICK k \in Inums : k = f.slot[t].num /\ k # n
        BY <1>6, <2>2, <3>2
      <4>2. TypeOf(g, k) = TypeOf(f, k) /\ \A c : LinkOK(g, m2, W2, c, k) = LinkOK(f, m, W, c, k)
        BY <1>3, <4>1
      <4> QED
        BY <3>1, <3>2, <4>1, <4>2 DEF SlotLinks
    <3>3. CASE ~LiveIn(f, t)
      BY <1>5, <3>1, <3>3 DEF SlotLinks
    <3> QED
      BY <3>2, <3>3
  <2> QED
    BY <2>1, <2>2
<1>8. ASSUME NEW k \in Inums PROVE InodeLinks(g, m2, W2, Z2, k)
  <2>1. CASE k = n
    BY <2>1
  <2>2. CASE k # n
    <3>1. InodeLinks(f, m, W, Z, k)
      BY DEF LinkOn
    <3>2. ASSUME NEW t \in Slots, Doomed(f, k, t) PROVE Doomed(g, k, t)
      <4>1. t # s
        BY <2>2, <3>2 DEF Doomed
      <4> QED
        BY <1>4, <1>5, <3>2, <4>1 DEF Doomed
    <3>3. TypeOf(g, k) = TypeOf(f, k) /\ g.inode[k] = f.inode[k] /\ NamedIn(g, k) = NamedIn(f, k)
          /\ (k \in Z2 <=> k \in Z) /\ \A c : LinkOK(g, m2, W2, c, k) = LinkOK(f, m, W, c, k)
      BY <1>2, <1>3, <2>2
    <3> QED
      BY <3>1, <3>2, <3>3 DEF InodeLinks
  <2> QED
    BY <2>1, <2>2
<1>9. OneOK(g)
  <2>1. \A t \in Slots : LiveIn(g, t) => LiveIn(f, t) /\ g.slot[t].num = f.slot[t].num
    BY <1>5 DEF Kept
  <2> QED
    BY <1>1, <2>1, OneFewer
<1>10. TypeOf(g, ROOT) = "DIR"
  BY <1>1, Sizes
<1>11. \A t \in Slots : g.slot[t].num = f.slot[t].num /\ g.slot[t].valid = f.slot[t].valid /\ g.slot[t].type = f.slot[t].type
  BY <1>4 DEF Kept
<1> QED
  BY <1>7, <1>8, <1>9, <1>10, <1>11 DEF LinkOn, Up, Down

\* A link more or less in the cache and on the disk; k may be 0.
LEMMA RelinkLink ==
    ASSUME NEW f, NEW m, NEW W, NEW Z, LinkOn(f, m, W, Z), NEW s \in Slots, NEW n \in Inums, n = f.slot[s].num,
           LiveIn(f, s), f.slot[s].valid, NEW k \in Int, NEW g, RelinkedRes(f, s, k, g), NEW Q, NEW D
    PROVE  LinkOn(g, Owe(m, n, k), W, Z \ {n}) /\ Up(f, g, Q, D) /\ Down(f, g)
<1>1. f \in FS /\ m \in [Inums -> Int] /\ m[n] \in Int
  BY DEF LinkOn
<1>2. /\ g \in FS /\ Only(f, g, s) /\ Kept(f, g) /\ g.entry = f.entry
      /\ g.slot[s].type = f.slot[s].type /\ g.slot[s].nlink = f.slot[s].nlink + k
      /\ g.inode = [f.inode EXCEPT ![n] = [type |-> f.slot[s].type, nlink |-> f.slot[s].nlink + k]]
  BY DEF RelinkedRes
<1>3. g.inode[n].type = f.slot[s].type /\ g.inode[n].nlink = f.slot[s].nlink + k
      /\ \A i \in Inums : i # n => g.inode[i] = f.inode[i]
  BY <1>1, <1>2 DEF FS
<1>4. SlotLinks(f, m, W, s) /\ InodeLinks(f, m, W, Z, n)
  BY DEF LinkOn
<1>5. TypeOf(f, n) # "UNUSED" /\ f.slot[s].type = TypeOf(f, n) /\ LinkOK(f, m, W, f.slot[s].nlink, n)
  BY <1>4 DEF SlotLinks
<1>6. \A i \in Inums : TypeOf(g, i) = TypeOf(f, i)
  BY <1>3, <1>5 DEF TypeOf
<1>7. PICK m2 : m2 = Owe(m, n, k)
  OBVIOUS
<1>8. m2 \in [Inums -> Int] /\ m2[n] = m[n] + k /\ \A i \in Inums : i # n => m2[i] = m[i]
  BY <1>1, <1>7 DEF Owe
<1>9. NamedIn(g, n) = NamedIn(f, n) /\ LinksIn(g, n) = LinksIn(f, n) /\ LinksIn(f, n) \in Nat
  BY <1>1, <1>2, <1>6, LinksSame, LinksType
<1>10. f.slot[s].nlink \in Int
  BY <1>1 DEF FS, Slot
<1>11. LinkOK(g, m2, W, f.slot[s].nlink + k, n)
  BY <1>1, <1>5, <1>6, <1>8, <1>9, <1>10 DEF LinkOK
<1>12. g.slot[s].num = n /\ g.slot[s].valid /\ LiveIn(g, s)
  BY <1>2 DEF Kept, LiveIn
<1>13. SlotLinks(g, m2, W, s)
  BY <1>2, <1>5, <1>6, <1>11, <1>12 DEF SlotLinks, LiveIn
<1>14. InodeLinks(g, m2, W, Z \ {n}, n)
  <2>1. g.inode[n].nlink = 0 => Doomed(g, n, s)
    BY <1>2, <1>3, <1>12 DEF Doomed
  <2> QED
    BY <1>2, <1>3, <1>4, <1>5, <1>6, <1>9, <1>11, <2>1 DEF InodeLinks
<1>15. Other(f, m, W, Z, s, n, g, m2, W, Z \ {n})
  BY <1>2, <1>3, <1>6, <1>8, <1>13, <1>14 DEF Other
<1>16. LinkOn(g, m2, W, Z \ {n}) /\ Up(f, g, Q, D) /\ Down(f, g)
  BY <1>15, OtherLinks
<1> QED
  BY <1>7, <1>16

\* A link less in the cache only.
LEMMA UnwriteLink ==
    ASSUME NEW f, NEW m, NEW W, NEW Z, LinkOn(f, m, W, Z), NEW s \in Slots, NEW n \in Inums, n = f.slot[s].num,
           LiveIn(f, s), f.slot[s].valid, TypeOf(f, n) = "FILE", m[n] >= 1, NEW g, LinkedRes(f, s, -1, g), NEW Q, NEW D
    PROVE  LinkOn(g, Owe(m, n, -1), W \cup {n}, Z) /\ Up(f, g, Q, D) /\ Down(f, g)
<1>1. f \in FS /\ m \in [Inums -> Int] /\ m[n] \in Int /\ -1 \in Int
  BY DEF LinkOn
<1>2. /\ g \in FS /\ Only(f, g, s) /\ Kept(f, g) /\ g.entry = f.entry /\ g.inode = f.inode
      /\ g.slot[s].type = f.slot[s].type /\ g.slot[s].nlink = f.slot[s].nlink + (-1)
  BY DEF LinkedRes, SameDisk
<1>3. SlotLinks(f, m, W, s) /\ InodeLinks(f, m, W, Z, n)
  BY DEF LinkOn
<1>4. f.slot[s].type = TypeOf(f, n) /\ LinkOK(f, m, W, f.slot[s].nlink, n)
  BY <1>3 DEF SlotLinks
<1>5. \A i \in Inums : TypeOf(g, i) = TypeOf(f, i)
  BY <1>2 DEF TypeOf
<1>6. PICK m2 : m2 = Owe(m, n, -1)
  OBVIOUS
<1>7. m2 \in [Inums -> Int] /\ m2[n] = m[n] + (-1) /\ \A i \in Inums : i # n => m2[i] = m[i]
  BY <1>1, <1>6 DEF Owe
<1>8. NamedIn(g, n) = NamedIn(f, n) /\ LinksIn(g, n) = LinksIn(f, n) /\ LinksIn(f, n) \in Nat
  BY <1>1, <1>2, <1>5, LinksSame, LinksType
<1>9. f.slot[s].nlink \in Int /\ f.inode[n].nlink \in Int
  BY <1>1 DEF FS, Slot, DiskInode
<1>10. PICK W2 : W2 = W \cup {n}
  OBVIOUS
<1>11. LinkOK(g, m2, W2, f.slot[s].nlink + (-1), n)
  <2>1. f.slot[s].nlink >= LinksIn(f, n) + m[n]
    BY <1>1, <1>4, <1>8, <1>9 DEF LinkOK
  <2>2. f.slot[s].nlink + (-1) >= LinksIn(g, n) + m2[n]
    BY <1>1, <1>7, <1>8, <1>9, <2>1
  <2> QED
    BY <1>5, <1>10, <2>2 DEF LinkOK
<1>12. g.slot[s].num = n /\ g.slot[s].valid /\ LiveIn(g, s)
  BY <1>2 DEF Kept, LiveIn
<1>13. SlotLinks(g, m2, W2, s)
  BY <1>2, <1>4, <1>5, <1>11, <1>12 DEF SlotLinks, LiveIn
<1>14. InodeLinks(g, m2, W2, Z, n)
  <2>1. LinkOK(f, m, W, f.inode[n].nlink, n)
    BY <1>3 DEF InodeLinks
  <2>2. f.inode[n].nlink >= LinksIn(f, n) + m[n]
    BY <1>1, <1>8, <1>9, <2>1 DEF LinkOK
  <2>3. f.inode[n].nlink >= LinksIn(g, n) + m2[n] /\ f.inode[n].nlink # 0
    BY <1>1, <1>7, <1>8, <1>9, <2>2
  <2>4. LinkOK(g, m2, W2, g.inode[n].nlink, n)
    BY <1>2, <1>5, <1>10, <2>3 DEF LinkOK
  <2> QED
    BY <1>2, <1>3, <1>5, <1>8, <2>3, <2>4 DEF InodeLinks
<1>15. Other(f, m, W, Z, s, n, g, m2, W2, Z)
  BY <1>2, <1>5, <1>7, <1>10, <1>13, <1>14 DEF Other
<1>16. LinkOn(g, m2, W2, Z) /\ Up(f, g, Q, D) /\ Down(f, g)
  BY <1>15, OtherLinks
<1> QED
  BY <1>6, <1>10, <1>16

-----------------------------------------------------------------------------
(***************************************************************************)
(* Entries that come and go.                                               *)
(***************************************************************************)
LEMMA OneMore ==
    ASSUME NEW S, IsFiniteSet(S), NEW x, x \notin S
    PROVE  Cardinality(S \cup {x}) = Cardinality(S) + 1
BY FS_AddElement

\* The links that an entry for inode n in directory d makes.
Linking(f, d, n, k) == One(k = n) + One(k = d /\ TypeOf(f, n) = "DIR")

Counted(f, d, n, g) ==
    \A k \in Inums :
        /\ LinksIn(g, k) = LinksIn(f, k) + Linking(f, d, n, k)
        /\ k # n => NamedIn(g, k) = NamedIn(f, k)
        /\ NamedIn(f, k) \subseteq NamedIn(g, k)

\* An entry for inode n in a directory d is a link of n and, for a directory
\* n, one of d.
LEMMA AddCount ==
    ASSUME NEW f, f \in FS, NEW g, NEW d \in Inums, NEW x \in Names, NEW n \in Inums, SetRes(f, d, x, n, g),
           f.entry[d][x] = U
    PROVE  Counted(f, d, n, g)
<1> SUFFICES ASSUME NEW k \in Inums
             PROVE  /\ LinksIn(g, k) = LinksIn(f, k) + Linking(f, d, n, k)
                    /\ k # n => NamedIn(g, k) = NamedIn(f, k)
                    /\ NamedIn(f, k) \subseteq NamedIn(g, k)
  BY DEF Counted
<1>1. g \in FS /\ g.inode = f.inode
      /\ \A e \in Inums, y \in Names : g.entry[e][y] = IF e = d /\ y = x THEN n ELSE f.entry[e][y]
  BY DEF SetRes
<1>2. \A c : Cardinality(NamedIn(f, c)) \in Nat /\ Cardinality(SubsIn(f, c)) \in Nat
             /\ IsFiniteSet(NamedIn(f, c)) /\ IsFiniteSet(SubsIn(f, c))
  BY LinksType
<1>3. U \notin Inums
  BY Sizes
<1>4. k # n => NamedIn(g, k) = NamedIn(f, k)
  BY <1>1, <1>3 DEF NamedIn
<1>5. NamedIn(g, n) = NamedIn(f, n) \cup {<<d, x>>} /\ <<d, x>> \notin NamedIn(f, n)
  BY <1>1, <1>3 DEF NamedIn
<1>6. Cardinality(NamedIn(g, k)) = Cardinality(NamedIn(f, k)) + One(k = n)
  <2>1. CASE k = n
    BY <1>2, <1>5, <2>1, OneMore DEF One
  <2>2. CASE k # n
    BY <1>2, <1>4, <2>2 DEF One
  <2> QED
    BY <2>1, <2>2
<1>7. Cardinality(SubsIn(g, k)) = Cardinality(SubsIn(f, k)) + One(k = d /\ TypeOf(f, n) = "DIR")
  <2>1. CASE k = d /\ TypeOf(f, n) = "DIR"
    <3>1. SubsIn(g, k) = SubsIn(f, k) \cup {x} /\ x \notin SubsIn(f, k)
      BY <1>1, <1>3, <2>1 DEF SubsIn, TypeOf
    <3> QED
      BY <1>2, <2>1, <3>1, OneMore DEF One
  <2>2. CASE ~(k = d /\ TypeOf(f, n) = "DIR")
    <3>1. SubsIn(g, k) = SubsIn(f, k)
      BY <1>1, <1>3, <2>2 DEF SubsIn, TypeOf
    <3> QED
      BY <1>2, <2>2, <3>1 DEF One
  <2> QED
    BY <2>1, <2>2
<1>8. One(k = n) \in Nat /\ One(k = ROOT) \in Nat /\ One(k = d /\ TypeOf(f, n) = "DIR") \in Nat
  BY DEF One
<1>9. LinksIn(g, k) = LinksIn(f, k) + Linking(f, d, n, k)
  BY <1>2, <1>6, <1>7, <1>8 DEF LinksIn, Linking
<1> QED
  BY <1>1, <1>4, <1>5, <1>9

\* Entries change, and the links that are owed with them.
Moved(f, m, d, g, m2) ==
    /\ g \in FS /\ g.slot = f.slot /\ g.inode = f.inode /\ m2 \in [Inums -> Int]
    /\ \A k \in Inums : LinksIn(g, k) + m2[k] = LinksIn(f, k) + m[k]
    /\ \A k \in Inums : k # d => g.entry[k] = f.entry[k]
    /\ \A k \in Inums : TypeOf(f, k) = "UNUSED" => NamedIn(g, k) = {}
    /\ TypeOf(f, d) = "DIR"
    /\ \A k \in Inums : TypeOf(f, k) = "DIR" /\ k # ROOT /\ NamedIn(g, k) = {} => g.entry[k] = NoEntries

LEMMA MovedLinks ==
    ASSUME NEW f, NEW m, NEW W, NEW Z, LinkOn(f, m, W, Z), NEW d, NEW g, NEW m2, Moved(f, m, d, g, m2), NEW Q
    PROVE  LinkOn(g, m2, W, Z) /\ Up(f, g, Q, {d})
<1>1. f \in FS /\ OneOK(f) /\ m \in [Inums -> Int] /\ TypeOf(f, ROOT) = "DIR"
  BY DEF LinkOn
<1>2. g \in FS /\ g.slot = f.slot /\ g.inode = f.inode /\ m2 \in [Inums -> Int] /\ \A i : TypeOf(g, i) = TypeOf(f, i)
  BY DEF Moved, TypeOf
<1>3. ASSUME NEW k \in Inums, NEW c \in Int PROVE LinkOK(g, m2, W, c, k) = LinkOK(f, m, W, c, k)
  <2>1. LinksIn(g, k) + m2[k] = LinksIn(f, k) + m[k]
    BY DEF Moved
  <2> QED
    BY <1>2, <2>1 DEF LinkOK
<1>4. ASSUME NEW t \in Slots PROVE SlotLinks(g, m2, W, t)
  <2>1. SlotLinks(f, m, W, t) /\ f.slot[t].nlink \in Int
    BY <1>1 DEF LinkOn, FS, Slot
  <2>2. LiveIn(g, t) <=> LiveIn(f, t)
    BY <1>2 DEF LiveIn
  <2>3. LiveIn(f, t) => f.slot[t].num \in Inums
    BY <1>1, LiveNum
  <2>4. LiveIn(f, t) => LinkOK(g, m2, W, f.slot[t].nlink, f.slot[t].num) = LinkOK(f, m, W, f.slot[t].nlink, f.slot[t].num)
    BY <1>3, <2>1, <2>3
  <2> QED
    BY <1>2, <2>1, <2>2, <2>4 DEF SlotLinks
<1>5. ASSUME NEW k \in Inums PROVE InodeLinks(g, m2, W, Z, k)
  <2>1. InodeLinks(f, m, W, Z, k) /\ f.inode[k].nlink \in Int
    BY <1>1 DEF LinkOn, FS, DiskInode
  <2>2. LinkOK(g, m2, W, f.inode[k].nlink, k) = LinkOK(f, m, W, f.inode[k].nlink, k)
    BY <1>3, <2>1
  <2>3. \A s \in Slots : Doomed(f, k, s) => Doomed(g, k, s)
    BY <1>2 DEF Doomed, LiveIn
  <2>4. TypeOf(g, k) # "DIR" => g.entry[k] = NoEntries
    BY <1>2, <2>1 DEF Moved, InodeLinks
  <2>5. TypeOf(g, k) = "UNUSED" => NamedIn(g, k) = {}
    BY <1>2 DEF Moved
  <2>6. TypeOf(g, k) = "DIR" /\ k # ROOT /\ NamedIn(g, k) = {} => g.entry[k] = NoEntries
    BY <1>2 DEF Moved
  <2> QED
    BY <1>2, <2>1, <2>2, <2>3, <2>4, <2>5, <2>6 DEF InodeLinks
<1>6. OneOK(g)
  BY <1>1, <1>2 DEF OneOK, LiveIn
<1>7. Up(f, g, Q, {d})
  BY <1>2 DEF Up, Moved
<1> QED
  BY <1>1, <1>2, <1>4, <1>5, <1>6, <1>7 DEF LinkOn

\* The links of an entry are no longer owed when it is made, and are owed
\* when it is gone.
Pay(f, m, d, n) == [k \in Inums |-> m[k] - Linking(f, d, n, k)]
Borrow(f, m, d, n) == [k \in Inums |-> m[k] + Linking(f, d, n, k)]

LEMMA LinkingType ==
    ASSUME NEW f, NEW d, NEW n, NEW k
    PROVE  Linking(f, d, n, k) \in Nat
BY DEF Linking, One

\* An entry x for inode n comes into directory d.
Setting(f, d, x, n, g) ==
    /\ d \in Inums /\ x \in Names /\ n \in Inums /\ SetRes(f, d, x, n, g) /\ f.entry[d][x] = U
    /\ TypeOf(f, d) = "DIR" /\ TypeOf(f, n) # "UNUSED" /\ (d = ROOT \/ NamedIn(f, d) # {})

LEMMA SetLink ==
    ASSUME NEW f, NEW m, NEW W, NEW Z, LinkOn(f, m, W, Z), NEW d, NEW x, NEW n, NEW g, Setting(f, d, x, n, g), NEW Q
    PROVE  LinkOn(g, Pay(f, m, d, n), W, Z) /\ Up(f, g, Q, {d})
<1> USE DEF Setting
<1>1. f \in FS /\ m \in [Inums -> Int]
  BY DEF LinkOn
<1>2. g \in FS /\ g.slot = f.slot /\ g.inode = f.inode
      /\ \A e \in Inums, y \in Names : g.entry[e][y] = IF e = d /\ y = x THEN n ELSE f.entry[e][y]
  BY DEF SetRes
<1>3. PICK m2 : m2 = Pay(f, m, d, n)
  OBVIOUS
<1>4. m2 \in [Inums -> Int] /\ \A k \in Inums : m2[k] = m[k] - Linking(f, d, n, k)
  BY <1>1, <1>3, LinkingType DEF Pay
<1>5. ASSUME NEW k \in Inums
      PROVE  /\ LinksIn(g, k) + m2[k] = LinksIn(f, k) + m[k]
             /\ k # n => NamedIn(g, k) = NamedIn(f, k)
             /\ NamedIn(f, k) \subseteq NamedIn(g, k)
  <2>1. LinksIn(g, k) = LinksIn(f, k) + Linking(f, d, n, k)
        /\ (k # n => NamedIn(g, k) = NamedIn(f, k)) /\ NamedIn(f, k) \subseteq NamedIn(g, k)
    <3>1. Counted(f, d, n, g)
      BY <1>1, AddCount
    <3> QED
      BY <3>1 DEF Counted
  <2>2. LinksIn(f, k) \in Nat /\ m[k] \in Int /\ Linking(f, d, n, k) \in Nat
    BY <1>1, LinksType, LinkingType
  <2>3. m2[k] = m[k] - Linking(f, d, n, k)
    BY <1>4
  <2> QED
    BY <2>1, <2>2, <2>3
<1>6. ASSUME NEW k \in Inums, k # d PROVE g.entry[k] = f.entry[k]
  BY <1>1, <1>2, <1>6 DEF FS
<1>7. ASSUME NEW k \in Inums, TypeOf(f, k) = "UNUSED" PROVE NamedIn(g, k) = {}
  <2>1. InodeLinks(f, m, W, Z, k)
    BY DEF LinkOn
  <2> QED
    BY <1>5, <1>7, <2>1 DEF InodeLinks
<1>8. ASSUME NEW k \in Inums, TypeOf(f, k) = "DIR", k # ROOT, NamedIn(g, k) = {} PROVE g.entry[k] = NoEntries
  <2>1. InodeLinks(f, m, W, Z, k)
    BY DEF LinkOn
  <2>2. NamedIn(f, k) = {}
    BY <1>5, <1>8
  <2>3. k # d
    BY <1>8, <2>2
  <2> QED
    BY <1>6, <1>8, <2>1, <2>2, <2>3 DEF InodeLinks
<1>9. Moved(f, m, d, g, m2)
  BY <1>2, <1>4, <1>5, <1>6, <1>7, <1>8 DEF Moved
<1> QED
  BY <1>3, <1>9, MovedLinks

\* dir_delete_entry.
ClearPart(f, m, W, Z, d, x, n, g) ==
    /\ LinkOn(f, m, W, Z) /\ d \in Inums /\ x \in Names /\ n \in Inums /\ SetRes(f, d, x, U, g)
    /\ f.entry[d][x] = n /\ TypeOf(f, d) = "DIR" /\ (TypeOf(f, n) = "DIR" => f.entry[n] = NoEntries)

LEMMA ClearLink ==
    ASSUME NEW f, NEW m, NEW W, NEW Z, NEW d, NEW x, NEW n, NEW g, ClearPart(f, m, W, Z, d, x, n, g), NEW Q
    PROVE  LinkOn(g, Borrow(f, m, d, n), W, Z) /\ Up(f, g, Q, {d}) /\ n # d
<1> SUFFICES ASSUME LinkOn(f, m, W, Z), d \in Inums, x \in Names, n \in Inums, SetRes(f, d, x, U, g),
                    f.entry[d][x] = n, TypeOf(f, d) = "DIR", TypeOf(f, n) = "DIR" => f.entry[n] = NoEntries
             PROVE  LinkOn(g, Borrow(f, m, d, n), W, Z) /\ Up(f, g, Q, {d}) /\ n # d
  BY DEF ClearPart
<1>1. f \in FS /\ m \in [Inums -> Int] /\ U \notin Inums
  BY Sizes DEF LinkOn
<1>2. g \in FS /\ g.slot = f.slot /\ g.inode = f.inode /\ g.bits = f.bits
      /\ \A e \in Inums, y \in Names : g.entry[e][y] = IF e = d /\ y = x THEN U ELSE f.entry[e][y]
  BY DEF SetRes
<1>3. SetRes(g, d, x, n, f) /\ g.entry[d][x] = U
  <2>1. \A e \in Inums, y \in Names : f.entry[e][y] = IF e = d /\ y = x THEN n ELSE g.entry[e][y]
    BY <1>2
  <2> QED
    BY <1>1, <1>2, <2>1 DEF SetRes
<1>4. PICK m2 : m2 = Borrow(f, m, d, n)
  OBVIOUS
<1>5. m2 \in [Inums -> Int] /\ \A k \in Inums : m2[k] = m[k] + Linking(f, d, n, k)
  BY <1>1, <1>4, LinkingType DEF Borrow
<1>6. ASSUME NEW k \in Inums
      PROVE  /\ LinksIn(g, k) + m2[k] = LinksIn(f, k) + m[k]
             /\ k # n => NamedIn(g, k) = NamedIn(f, k)
             /\ NamedIn(g, k) \subseteq NamedIn(f, k)
  <2>1. LinksIn(f, k) = LinksIn(g, k) + Linking(g, d, n, k)
        /\ (k # n => NamedIn(f, k) = NamedIn(g, k)) /\ NamedIn(g, k) \subseteq NamedIn(f, k)
    <3>1. Counted(g, d, n, f)
      BY <1>2, <1>3, AddCount
    <3> QED
      BY <3>1 DEF Counted
  <2>2. LinksIn(g, k) \in Nat /\ m[k] \in Int /\ Linking(f, d, n, k) \in Nat
    BY <1>1, LinksType, LinkingType
  <2>3. m2[k] = m[k] + Linking(f, d, n, k)
    BY <1>5
  <2>4. Linking(g, d, n, k) = Linking(f, d, n, k)
    BY <1>2 DEF Linking, TypeOf
  <2> QED
    BY <2>1, <2>2, <2>3, <2>4
<1>7. ASSUME NEW k \in Inums, k # d PROVE g.entry[k] = f.entry[k]
  BY <1>1, <1>2, <1>7 DEF FS
<1>8. ASSUME NEW k \in Inums, TypeOf(f, k) = "UNUSED" PROVE NamedIn(g, k) = {}
  <2>1. InodeLinks(f, m, W, Z, k)
    BY DEF LinkOn
  <2> QED
    BY <1>6, <1>8, <2>1 DEF InodeLinks
<1>9. f.entry[d] # NoEntries /\ (TypeOf(f, n) = "DIR" => n # d)
  BY <1>1, Sizes DEF NoEntries
<1>10. ASSUME NEW k \in Inums, TypeOf(f, k) = "DIR", k # ROOT, NamedIn(g, k) = {} PROVE g.entry[k] = NoEntries
  <2>1. InodeLinks(f, m, W, Z, k)
    BY DEF LinkOn
  <2>2. CASE k = n
    BY <1>7, <1>9, <1>10, <2>2
  <2>3. CASE k # n
    <3>1. f.entry[k] = NoEntries
      BY <1>6, <1>10, <2>1, <2>3 DEF InodeLinks
    <3> QED
      BY <1>7, <1>9, <3>1
  <2> QED
    BY <2>2, <2>3
<1>11. Moved(f, m, d, g, m2)
  BY <1>2, <1>5, <1>6, <1>7, <1>8, <1>10 DEF Moved
<1> QED
  BY <1>4, <1>9, <1>11, MovedLinks

LEMMA RelinkOld ==
    ASSUME NEW f, NEW m, NEW W, LinkOn(f, m, W, {}), NEW s \in Slots, NEW n \in Inums, n = f.slot[s].num,
           LiveIn(f, s), f.slot[s].valid, NEW k \in Int, NEW g, RelinkedRes(f, s, k, g), NEW Q, NEW D
    PROVE  LinkOn(g, Owe(m, n, k), W, {}) /\ Up(f, g, Q, D) /\ Down(f, g)
<1>1. PICK Z : Z = {}
  OBVIOUS
<1>2. Z \ {n} = Z /\ LinkOn(f, m, W, Z)
  BY <1>1
<1>3. LinkOn(g, Owe(m, n, k), W, Z \ {n}) /\ Up(f, g, Q, D) /\ Down(f, g)
  BY <1>2, RelinkLink
<1> QED
  BY <1>1, <1>2, <1>3

\* dir_add_entry.
LEMMA AddLink ==
    ASSUME NEW f, NEW m, NEW W, LinkOn(f, m, W, {}), NEW s \in Slots, NEW d \in Inums, d = f.slot[s].num,
           LiveIn(f, s), f.slot[s].valid, f.slot[s].type = "DIR", NEW x \in Names, NEW n \in Inums,
           NEW g, AddRes(f, s, x, n, g), f.entry[d][x] = U, TypeOf(f, n) # "UNUSED",
           d = ROOT \/ NamedIn(f, d) # {}, NEW Q
    PROVE  LinkOn(g, Pay(f, m, d, n), W, {}) /\ Up(f, g, Q, {d})
<1>1. f \in FS /\ m \in [Inums -> Int] /\ f.slot[s].nlink \in Int /\ SlotLinks(f, m, W, s)
  BY DEF LinkOn, FS, Slot
<1>2. PICK f1 : WrittenRes(f, s, f1)
  BY <1>1, WrittenFacts
<1>3. /\ f1 \in FS /\ f1.slot = f.slot /\ f1.bits = f.bits /\ f1.entry = f.entry
      /\ f1.inode = [f.inode EXCEPT ![f.slot[s].num] = [type |-> f.slot[s].type, nlink |-> f.slot[s].nlink]]
  BY <1>2 DEF WrittenRes
<1>4. RelinkedRes(f, s, 0, f1)
  <2>1. f.slot[s].nlink + 0 = f.slot[s].nlink
    BY <1>1
  <2> QED
    BY <1>3, <2>1 DEF RelinkedRes, Only, Kept
<1>5. LinkOn(f1, m, W, {}) /\ Up(f, f1, Q, {d})
  <2>1. 0 \in Int /\ Owe(m, d, 0) = m
    BY <1>1, OweNone
  <2> QED
    BY <1>4, <2>1, RelinkOld
<1>6. SetRes(f1, d, x, n, g)
  BY <1>3 DEF SetRes, AddRes
<1>7. TypeOf(f, d) = "DIR"
  BY <1>1 DEF SlotLinks
<1>8. \A i \in Inums : TypeOf(f1, i) = TypeOf(f, i)
  <2>1. f1.inode[d].type = "DIR" /\ \A i \in Inums : i # d => f1.inode[i] = f.inode[i]
    BY <1>1, <1>3 DEF FS
  <2> QED
    BY <1>7, <2>1 DEF TypeOf
<1>9. NamedIn(f1, d) = NamedIn(f, d) /\ f1.entry[d][x] = U
  BY <1>3 DEF NamedIn
<1>10. Pay(f1, m, d, n) = Pay(f, m, d, n)
  <2>1. TypeOf(f1, n) = TypeOf(f, n)
    BY <1>8
  <2>2. \A k : Linking(f1, d, n, k) = Linking(f, d, n, k)
    BY <2>1 DEF Linking
  <2> QED
    BY <2>2 DEF Pay
<1>11. LinkOn(g, Pay(f1, m, d, n), W, {}) /\ Up(f1, g, Q, {d})
  <2>1. TypeOf(f1, d) = "DIR" /\ TypeOf(f1, n) # "UNUSED" /\ (d = ROOT \/ NamedIn(f1, d) # {})
    BY <1>7, <1>8, <1>9
  <2>2. Setting(f1, d, x, n, g)
    BY <1>6, <1>9, <2>1 DEF Setting
  <2> QED
    BY <1>5, <2>2, SetLink
<1> QED
  BY <1>5, <1>10, <1>11, UpTrans

\* A directory that has links, and none owed, is the root or has a name.
LEMMA LinkedDir ==
    ASSUME NEW f, NEW m, NEW W, NEW Z, LinkOn(f, m, W, Z), NEW s \in Slots, NEW d \in Inums, d = f.slot[s].num,
           LiveIn(f, s), f.slot[s].valid, f.slot[s].type = "DIR", f.slot[s].nlink # 0, m[d] = 0
    PROVE  d = ROOT \/ NamedIn(f, d) # {}
<1> SUFFICES ASSUME d # ROOT, NamedIn(f, d) = {}
             PROVE  FALSE
  OBVIOUS
<1>1. SlotLinks(f, m, W, s) /\ InodeLinks(f, m, W, Z, d) /\ U \notin Inums
  BY Sizes DEF LinkOn
<1>2. TypeOf(f, d) = "DIR" /\ LinkOK(f, m, W, f.slot[s].nlink, d)
  BY <1>1 DEF SlotLinks
<1>3. f.entry[d] = NoEntries
  BY <1>1, <1>2 DEF InodeLinks
<1>4. SubsIn(f, d) = {}
  BY <1>1, <1>3, Sizes DEF SubsIn, NoEntries
<1>5. LinksIn(f, d) = 0
  <2>1. Cardinality({}) = 0
    BY FS_EmptySet
  <2> QED
    BY <1>4, <2>1 DEF LinksIn, One
<1> QED
  BY <1>2, <1>5 DEF LinkOK

\* inode_create on the disk.
LEMMA FreshLink ==
    ASSUME NEW f, NEW m, NEW W, LinkOn(f, m, W, {}), NEW n \in Inums, NEW b, NEW type, type \in {"DIR", "FILE"},
           NEW g, FreshRes(f, b, n, type, g), TypeOf(f, n) = "UNUSED", m[n] = 0, NEW Q, NEW D
    PROVE  /\ LinkOn(g, m, W, {n}) /\ Up(f, g, Q, D) /\ TypeOf(g, n) = type
           /\ \A k : NamedIn(g, k) = NamedIn(f, k)
<1>1. f \in FS /\ OneOK(f) /\ m \in [Inums -> Int] /\ TypeOf(f, ROOT) = "DIR" /\ InodeLinks(f, m, W, {}, n)
  BY DEF LinkOn
<1>2. g \in FS /\ g.slot = f.slot /\ g.inode = [f.inode EXCEPT ![n] = [type |-> type, nlink |-> 0]]
      /\ g.entry = [f.entry EXCEPT ![n] = NoEntries]
  BY DEF FreshRes
<1>3. NamedIn(f, n) = {} /\ f.entry[n] = NoEntries /\ n # ROOT
  BY <1>1 DEF InodeLinks
<1>4. g.entry = f.entry
  BY <1>1, <1>2, <1>3 DEF FS
<1>5. g.inode[n].type = type /\ g.inode[n].nlink = 0 /\ \A k \in Inums : k # n => g.inode[k] = f.inode[k]
  BY <1>1, <1>2 DEF FS
<1>6. TypeOf(g, n) = type /\ \A k \in Inums : k # n => TypeOf(g, k) = TypeOf(f, k)
  BY <1>5 DEF TypeOf
<1>7. \A k : NamedIn(g, k) = NamedIn(f, k)
  BY <1>4 DEF NamedIn
<1>8. ASSUME NEW k \in Inums, NEW x \in Names PROVE f.entry[k][x] # n
  <2>1. <<k, x>> \notin NamedIn(f, n)
    BY <1>3
  <2> QED
    BY <2>1 DEF NamedIn
<1>9. ASSUME NEW k \in Inums PROVE SubsIn(g, k) = SubsIn(f, k)
  BY <1>4, <1>5, <1>8 DEF SubsIn
<1>10. \A k \in Inums : LinksIn(g, k) = LinksIn(f, k)
  BY <1>7, <1>9 DEF LinksIn
<1>11. ASSUME NEW k \in Inums, k # n, NEW c PROVE LinkOK(g, m, W, c, k) = LinkOK(f, m, W, c, k)
  BY <1>6, <1>10, <1>11 DEF LinkOK
<1>12. ASSUME NEW t \in Slots PROVE SlotLinks(g, m, W, t)
  <2>1. SlotLinks(f, m, W, t) /\ g.slot[t] = f.slot[t] /\ (LiveIn(g, t) <=> LiveIn(f, t))
    BY <1>2 DEF LinkOn, LiveIn
  <2>2. CASE LiveIn(f, t)
    <3>1. PICK k \in Inums : k = f.slot[t].num
      BY <1>1, <2>2, LiveNum
    <3>2. k # n
      BY <2>1, <2>2, <3>1 DEF SlotLinks
    <3>3. TypeOf(g, k) = TypeOf(f, k) /\ \A c : LinkOK(g, m, W, c, k) = LinkOK(f, m, W, c, k)
      BY <1>6, <1>11, <3>2
    <3> QED
      BY <2>1, <2>2, <3>1, <3>3 DEF SlotLinks
  <2>3. CASE ~LiveIn(f, t)
    BY <2>1, <2>3 DEF SlotLinks
  <2> QED
    BY <2>2, <2>3
<1>13. ASSUME NEW k \in Inums PROVE InodeLinks(g, m, W, {n}, k)
  <2>1. CASE k = n
    <3>1. SubsIn(f, n) = {}
      BY <1>3, Sizes DEF SubsIn, NoEntries
    <3>2. LinksIn(g, n) = 0
      <4>1. Cardinality({}) = 0
        BY FS_EmptySet
      <4> QED
        BY <1>3, <1>10, <3>1, <4>1 DEF LinksIn, One
    <3>3. LinkOK(g, m, W, 0, n)
      BY <3>2 DEF LinkOK
    <3> QED
      BY <1>3, <1>4, <1>5, <1>6, <2>1, <3>3 DEF InodeLinks
  <2>2. CASE k # n
    <3>1. InodeLinks(f, m, W, {}, k)
      BY DEF LinkOn
    <3>2. \A s \in Slots : Doomed(f, k, s) => Doomed(g, k, s)
      BY <1>2 DEF Doomed, LiveIn
    <3>3. TypeOf(g, k) = TypeOf(f, k) /\ g.inode[k] = f.inode[k] /\ g.entry = f.entry /\ NamedIn(g, k) = NamedIn(f, k)
          /\ \A c : LinkOK(g, m, W, c, k) = LinkOK(f, m, W, c, k)
      BY <1>4, <1>5, <1>6, <1>7, <1>11, <2>2
    <3> QED
      BY <2>2, <3>1, <3>2, <3>3 DEF InodeLinks
  <2> QED
    BY <2>1, <2>2
<1>14. OneOK(g) /\ TypeOf(g, ROOT) = "DIR"
  BY <1>1, <1>2, <1>3, <1>6, Sizes DEF OneOK, LiveIn
<1>15. Up(f, g, Q, D)
  BY <1>2, <1>4, <1>6 DEF Up
<1> QED
  BY <1>1, <1>2, <1>6, <1>7, <1>12, <1>13, <1>14, <1>15 DEF LinkOn

-----------------------------------------------------------------------------
(***************************************************************************)
(* The inductive invariant behind LinksExact and Reclaimed.                *)
(***************************************************************************)
\* The links that path_link has counted and not yet made.
OldAt(f, J, n) == {q \in Procs : J[q].old # NoSlot /\ f.slot[J[q].old].num = n}
OwedIn(f, J) == [n \in Inums |-> Cardinality(OldAt(f, J, n))]

\* What a process relies on between two steps of its system call: link goes
\* on with a file, a parent is a directory, and one that is locked has the
\* entry that was read.
OldFile(f, j) == j.old # NoSlot => TypeOf(f, f.slot[j.old].num) = "FILE"
Placed(f, L, j, q) ==
    /\ j.at = "parent" => f.slot[j.ip].valid /\ f.slot[j.ip].type = "DIR"
    /\ j.at \in {"check", "remove"} =>
          /\ L[j.dp] = q /\ f.slot[j.dp].valid /\ f.slot[j.dp].type = "DIR"
          /\ f.entry[f.slot[j.dp].num][Head(j.path)] = f.slot[j.ip].num

LinkState(f, L, J, W) ==
    /\ LinkOn(f, OwedIn(f, J), W, {})
    /\ \A q \in Procs : OldFile(f, J[q]) /\ Placed(f, L, J[q], q)

LinkInv == Intact /\ ~uncounted => LinkState(fs, lock, job, unwritten)

Others(J, p) == {J[q].ip : q \in Procs \ {p}}

\* A step of process p from f to h by way of g, where the entries of D change.
Passed(f, F, J, L, g, D, h, F2, J2, L2, p) ==
    /\ f \in FS /\ h \in FS /\ RefOK(f, F, J) /\ RefOK(h, F2, J2) /\ OnlyProc(F, J, F2, J2, p)
    /\ \A q \in Procs : J[q] \in Job /\ J2[q] \in Job /\ Shape(F[q], J[q])
    /\ Up(f, g, Others(J, p), D) /\ Down(g, h)
    /\ \A q \in Procs, s \in Slots : q # p /\ L[s] = q => L2[s] = q
    /\ \A q \in Procs : q # p /\ J[q].at \in {"check", "remove"} => f.slot[J[q].dp].num \notin D

LEMMA OwedType ==
    ASSUME NEW f, NEW J
    PROVE  /\ OwedIn(f, J) \in [Inums -> Int]
           /\ \A n \in Inums : OwedIn(f, J)[n] = Cardinality(OldAt(f, J, n)) /\ OwedIn(f, J)[n] >= 0
<1>1. ASSUME NEW n PROVE Cardinality(OldAt(f, J, n)) \in Nat
  <2>1. IsFiniteSet(OldAt(f, J, n))
    BY DirAssumption, FS_Subset DEF OldAt
  <2> QED
    BY <2>1, FS_CardinalityType
<1> QED
  BY <1>1 DEF OwedIn

\* An inode that is not a file owes nothing.
LEMMA OwedNone ==
    ASSUME NEW f, NEW J, \A q \in Procs : OldFile(f, J[q]), NEW n \in Inums, TypeOf(f, n) # "FILE"
    PROVE  OwedIn(f, J)[n] = 0
<1>1. OldAt(f, J, n) = {}
  BY DEF OldAt, OldFile
<1> QED
  BY <1>1, FS_EmptySet, OwedType

\* A reference that counts keeps its number.
LEMMA PassedSolid ==
    ASSUME NEW f, NEW F, NEW J, NEW L, NEW g, NEW D, NEW h, NEW F2, NEW J2, NEW L2, NEW p,
           Passed(f, F, J, L, g, D, h, F2, J2, L2, p), NEW q \in Procs, NEW s \in Slots,
           Solid(F[q], J[q], s), Solid(F2[q], J2[q], s)
    PROVE  /\ f.slot[s].num \in Inums /\ g.slot[s].num = f.slot[s].num /\ h.slot[s].num = f.slot[s].num
           /\ LiveIn(h, s) /\ LiveIn(f, s)
           /\ f.slot[s].valid => h.slot[s].valid /\ h.slot[s].type = f.slot[s].type
<1>1. f \in FS /\ h \in FS /\ RefOK(f, F, J) /\ RefOK(h, F2, J2)
  BY DEF Passed
<1>2. f.slot[s].num # U /\ h.slot[s].num # U /\ f.slot[s].num \in Inums
  BY <1>1, Sizes DEF RefOK, FS, Slot
<1>3. h.slot[s].ref >= 1 /\ f.slot[s].ref >= 1
  BY <1>1, SolidMine, HeldRef
<1>4. LiveIn(h, s) /\ LiveIn(f, s)
  BY <1>1, <1>2, <1>3 DEF LiveIn, FS, Slot
<1> QED
  BY <1>2, <1>4 DEF Passed, Up, Down

\* The inode link goes on with stays a file.
LEMMA PassedOld ==
    ASSUME NEW f, NEW F, NEW J, NEW L, NEW g, NEW D, NEW h, NEW F2, NEW J2, NEW L2, NEW p,
           Passed(f, F, J, L, g, D, h, F2, J2, L2, p), NEW q \in Procs, J2[q].old = J[q].old, J[q].old # NoSlot,
           OldFile(f, J[q]), NEW m, NEW W, LinkOn(h, m, W, {})
    PROVE  h.slot[J[q].old].num = f.slot[J[q].old].num /\ OldFile(h, J2[q])
<1>1. PICK s \in Slots : s = J[q].old
  BY DEF Passed, Job
<1>2. Solid(F[q], J[q], s) /\ Solid(F2[q], J2[q], s)
  BY <1>1 DEF Solid
<1>3. /\ f.slot[s].num \in Inums /\ g.slot[s].num = f.slot[s].num /\ h.slot[s].num = f.slot[s].num
      /\ LiveIn(h, s)
  BY <1>2, PassedSolid
<1>4. TypeOf(f, f.slot[s].num) = "FILE"
  BY <1>1 DEF OldFile
<1>5. TypeOf(h, f.slot[s].num) # "UNUSED"
  BY <1>3 DEF LinkOn, SlotLinks
<1>6. TypeOf(h, f.slot[s].num) = "FILE"
  BY <1>3, <1>4, <1>5 DEF Passed, Up, Down
<1> QED
  BY <1>1, <1>3, <1>6 DEF OldFile

\* Others stand where they stood.
LEMMA PassedPlace ==
    ASSUME NEW f, NEW F, NEW J, NEW L, NEW g, NEW D, NEW h, NEW F2, NEW J2, NEW L2, NEW p,
           Passed(f, F, J, L, g, D, h, F2, J2, L2, p), NEW q \in Procs, q # p, Placed(f, L, J[q], q)
    PROVE  Placed(h, L2, J2[q], q)
<1>1. J2[q] = J[q] /\ F2[q] = F[q] /\ J[q] \in Job /\ Shape(F[q], J[q])
  BY DEF Passed, OnlyProc
<1>2. ASSUME J[q].at = "parent"
      PROVE  h.slot[J[q].ip].valid /\ h.slot[J[q].ip].type = "DIR"
  <2>1. PICK s \in Slots : s = J[q].ip
    BY <1>1, <1>2 DEF Job, Shape
  <2>2. Solid(F[q], J[q], s) /\ Solid(F2[q], J2[q], s)
    BY <1>1, <1>2, <2>1 DEF Solid
  <2>3. f.slot[s].valid /\ f.slot[s].type = "DIR"
    BY <1>2, <2>1 DEF Placed
  <2> QED
    BY <2>1, <2>2, <2>3, PassedSolid
<1>3. ASSUME J[q].at \in {"check", "remove"}
      PROVE  /\ L2[J[q].dp] = q /\ h.slot[J[q].dp].valid /\ h.slot[J[q].dp].type = "DIR"
             /\ h.entry[h.slot[J[q].dp].num][Head(J[q].path)] = h.slot[J[q].ip].num
  <2>1. PICK s \in Slots, t \in Slots : s = J[q].dp /\ t = J[q].ip
    BY <1>1, <1>3 DEF Job, Shape
  <2>2. Solid(F[q], J[q], s) /\ Solid(F2[q], J2[q], s)
    BY <1>1, <1>3, <2>1 DEF Solid
  <2>3. /\ L[s] = q /\ f.slot[s].valid /\ f.slot[s].type = "DIR"
        /\ f.entry[f.slot[s].num][Head(J[q].path)] = f.slot[t].num
    BY <1>3, <2>1 DEF Placed
  <2>4. PICK d \in Inums : d = f.slot[s].num /\ h.slot[s].num = d /\ h.slot[s].valid /\ h.slot[s].type = "DIR"
    BY <2>2, <2>3, PassedSolid
  <2>5. L2[s] = q /\ d \notin D
    BY <1>3, <2>1, <2>3, <2>4 DEF Passed
  <2>6. g.entry[d] = f.entry[d] /\ h.entry = g.entry
    BY <2>5 DEF Passed, Up, Down
  <2>7. PICK x \in Names : x = Head(J[q].path)
    BY <1>1, <1>3, NameHead DEF Shape
  <2>8. g.entry[d][x] = f.slot[t].num /\ h.entry[d][x] = f.slot[t].num
    BY <2>3, <2>4, <2>6, <2>7
  <2>9. h.slot[t].num = f.slot[t].num
    <3>1. CASE f.slot[t].num = U
      <4>1. t \in Others(J, p)
        BY <2>1 DEF Others
      <4>2. g.slot[t].num = U
        BY <3>1, <4>1 DEF Passed, Up
      <4> QED
        BY <3>1, <4>2 DEF Passed, Down
    <3>2. CASE f.slot[t].num # U
      <4>1. g.slot[t].num = f.slot[t].num
        BY <3>2 DEF Passed, Up
      <4>2. <<d, x>> \in NamedIn(g, g.slot[t].num)
        BY <2>8, <4>1 DEF NamedIn
      <4>3. h.slot[t].num # U
        BY <3>2, <4>1, <4>2 DEF Passed, Down
      <4> QED
        BY <4>1, <4>3 DEF Passed, Down
    <3> QED
      BY <3>1, <3>2
  <2> QED
    BY <2>1, <2>4, <2>5, <2>7, <2>8, <2>9
<1> QED
  BY <1>1, <1>2, <1>3 DEF Placed

\* Only process p changes what is owed.
LEMMA PassedOwed ==
    ASSUME NEW f, NEW F, NEW J, NEW L, NEW g, NEW D, NEW h, NEW F2, NEW J2, NEW L2, NEW p \in Procs,
           Passed(f, F, J, L, g, D, h, F2, J2, L2, p), \A q \in Procs : OldFile(f, J[q]),
           NEW m, NEW W, LinkOn(h, m, W, {}), NEW n \in Inums
    PROVE  OwedIn(h, J2)[n] + One(p \in OldAt(f, J, n)) = OwedIn(f, J)[n] + One(p \in OldAt(h, J2, n))
<1>1. ASSUME NEW q \in Procs, q # p PROVE q \in OldAt(f, J, n) <=> q \in OldAt(h, J2, n)
  <2>1. J2[q] = J[q]
    BY <1>1 DEF Passed, OnlyProc
  <2>2. J[q].old # NoSlot => h.slot[J[q].old].num = f.slot[J[q].old].num
    BY <2>1, PassedOld
  <2> QED
    BY <2>1, <2>2 DEF OldAt
<1>2. OldAt(f, J, n) \in SUBSET Procs /\ OldAt(h, J2, n) \in SUBSET Procs
  BY DEF OldAt
<1>3. PICK S, T : S = OldAt(f, J, n) /\ T = OldAt(h, J2, n)
  OBVIOUS
<1>4. Cardinality(T) + One(p \in S) = Cardinality(S) + One(p \in T)
  BY <1>1, <1>2, <1>3, OneDiffers
<1> QED
  BY <1>3, <1>4, OwedType

LEMMA PassedState ==
    ASSUME NEW f, NEW F, NEW J, NEW L, NEW g, NEW D, NEW h, NEW F2, NEW J2, NEW L2, NEW p \in Procs,
           Passed(f, F, J, L, g, D, h, F2, J2, L2, p), NEW W, LinkState(f, L, J, W), J2[p].old = J[p].old,
           NEW W2, LinkOn(h, OwedIn(f, J), W2, {}), Placed(h, L2, J2[p], p)
    PROVE  LinkState(h, L2, J2, W2)
<1>1. \A q \in Procs : OldFile(f, J[q]) /\ Placed(f, L, J[q], q)
  BY DEF LinkState
<1>2. \A q \in Procs : J2[q].old = J[q].old
  BY DEF Passed, OnlyProc
<1>3. ASSUME NEW q \in Procs
      PROVE  OldFile(h, J2[q]) /\ (J[q].old # NoSlot => h.slot[J[q].old].num = f.slot[J[q].old].num)
  <2>1. CASE J[q].old = NoSlot
    BY <1>2, <2>1 DEF OldFile
  <2>2. CASE J[q].old # NoSlot
    BY <1>1, <1>2, <2>2, PassedOld
  <2> QED
    BY <2>1, <2>2
<1>4. \A n : OldAt(h, J2, n) = OldAt(f, J, n)
  BY <1>2, <1>3 DEF OldAt
<1>5. OwedIn(h, J2) = OwedIn(f, J)
  BY <1>4 DEF OwedIn
<1>6. ASSUME NEW q \in Procs PROVE Placed(h, L2, J2[q], q)
  BY <1>1, PassedPlace
<1> QED
  BY <1>3, <1>5, <1>6 DEF LinkState

-----------------------------------------------------------------------------
(***************************************************************************)
(* The steps.                                                              *)
(***************************************************************************)
LEMMA LinkNow ==
    ASSUME RefInv, LinkInv, Intact, ~uncounted
    PROVE  /\ LinkState(fs, lock, job, unwritten) /\ LinkOn(fs, OwedIn(fs, job), unwritten, {})
           /\ \A q \in Procs : OldFile(fs, job[q]) /\ Placed(fs, lock, job[q], q)
           /\ OwedIn(fs, job) \in [Inums -> Int] /\ \A n \in Inums : OwedIn(fs, job)[n] >= 0
           /\ OneOK(fs)
BY OwedType DEF LinkInv, LinkState, LinkOn

\* The step of process p by way of g.
Via(p, g, D) ==
    /\ Up(fs, g, Others(job, p), D) /\ Down(g, fs')
    /\ \A q \in Procs, s \in Slots : q # p /\ lock[s] = q => lock'[s] = q
    /\ \A q \in Procs : q # p /\ job[q].at \in {"check", "remove"} => fs.slot[job[q].dp].num \notin D

LEMMA PassedNow ==
    ASSUME RefInv, RefInv', Intact, Intact', NEW p \in Procs, NEW j2, job' = [job EXCEPT ![p] = j2],
           \A q \in Procs : q # p => file'[q] = file[q], NEW g, NEW D, Via(p, g, D)
    PROVE  Passed(fs, file, job, lock, g, D, fs', file', job', lock', p)
<1>1. fs \in FS /\ RefOK(fs, file, job) /\ job \in [Procs -> Job] /\ \A q \in Procs : Shape(file[q], job[q])
  BY DEF RefInv, Good
<1>2. fs' \in FS /\ RefOK(fs', file', job') /\ job' \in [Procs -> Job]
  BY DEF RefInv, Good
<1>3. OnlyProc(file, job, file', job', p)
  BY <1>1 DEF OnlyProc
<1> QED
  BY <1>1, <1>2, <1>3 DEF Passed, Via

\* A step that does not change what process p owes.
Quiet(p, j2) ==
    /\ \E g, D : Via(p, g, D)
    /\ LinkOn(fs', OwedIn(fs, job), unwritten', {}) /\ Placed(fs', lock', j2, p)

LEMMA QuietInv ==
    ASSUME RefInv, RefInv', LinkInv, Intact, NEW p \in Procs, NEW j2, job' = [job EXCEPT ![p] = j2],
           j2.old = job[p].old, \A q \in Procs : q # p => file'[q] = file[q], uncounted => uncounted',
           Intact' /\ ~uncounted' => Quiet(p, j2)
    PROVE  LinkInv'
<1> SUFFICES ASSUME Intact', ~uncounted'
             PROVE  LinkState(fs', lock', job', unwritten')
  BY DEF LinkInv
<1>1. LinkState(fs, lock, job, unwritten)
  BY LinkNow
<1>2. Quiet(p, j2)
  OBVIOUS
<1>3. PICK g, D : Via(p, g, D)
  BY <1>2 DEF Quiet
<1>4. Passed(fs, file, job, lock, g, D, fs', file', job', lock', p)
  BY <1>3, PassedNow
<1>5. job'[p] = j2
  BY DEF RefInv
<1>6. LinkOn(fs', OwedIn(fs, job), unwritten', {}) /\ Placed(fs', lock', j2, p)
  BY <1>2 DEF Quiet
<1>7. PICK f, F, J, L, h, F2, J2, L2, W, W2 :
          /\ f = fs /\ F = file /\ J = job /\ L = lock /\ W = unwritten
          /\ h = fs' /\ F2 = file' /\ J2 = job' /\ L2 = lock' /\ W2 = unwritten'
  OBVIOUS
<1>8. /\ Passed(f, F, J, L, g, D, h, F2, J2, L2, p) /\ LinkState(f, L, J, W) /\ J2[p].old = J[p].old
      /\ LinkOn(h, OwedIn(f, J), W2, {}) /\ Placed(h, L2, J2[p], p)
  BY <1>1, <1>4, <1>5, <1>6, <1>7
<1>9. LinkState(h, L2, J2, W2)
  BY <1>8, PassedState
<1> QED
  BY <1>7, <1>9

\* A process that stands nowhere.
LEMMA NullPlaced ==
    ASSUME NEW f, NEW L, NEW x, NEW j, Shape(x, j), j.ip = NoSlot, NEW q
    PROVE  Placed(f, L, j, q)
BY DEF Placed, Shape

\* inode_free with nothing owed to others.
LEMMA FreeCall ==
    ASSUME NEW f, NEW m, NEW W, LinkOn(f, m, W, {}), NEW s \in Slots, f.slot[s].ref >= 1,
           \A n \in Inums : m[n] >= 0, NEW g, g = Freed(f, s)
    PROVE  LinkOn(g, m, W, {}) /\ Down(f, g)
<1>1. f \in FS
  BY DEF LinkOn
<1>2. FreedRes(f, s, g)
  BY <1>1, FreedFacts
<1>3. PICK Z : Z = {}
  OBVIOUS
<1>4. LinkOn(f, m, W, Z) /\ (f.slot[s].num \in Inums => m[f.slot[s].num] >= 0)
  BY <1>3
<1>5. LinkOn(g, m, W, Z) /\ Down(f, g)
  BY <1>2, <1>4, FreeLink
<1> QED
  BY <1>3, <1>5

\* inode_lock and inode_free.
LEMMA LockFree ==
    ASSUME NEW f, NEW m, NEW W, LinkOn(f, m, W, {}), NEW s \in Slots, ~BadInode(f, s),
           \A n \in Inums : m[n] >= 0, NEW g, g = Locked(f, s), NEW h, h = Freed(g, s), NEW Q, NEW D
    PROVE  LinkOn(g, m, W, {}) /\ Up(f, g, Q, D) /\ LinkOn(h, m, W, {}) /\ Down(g, h)
<1>1. LinkOn(g, m, W, {}) /\ Up(f, g, Q, D) /\ LiveIn(g, s)
  BY LockLink
<1>2. g.slot[s].ref \in Nat
  BY <1>1 DEF LinkOn, FS, Slot
<1>3. g.slot[s].ref >= 1
  BY <1>1, <1>2 DEF LiveIn
<1> QED
  BY <1>1, <1>3, FreeCall

\* A step that changes no entry and leaves the locks of others alone.
LEMMA ViaFacts ==
    ASSUME NEW p \in Procs, NEW g, Up(fs, g, Others(job, p), {}), Down(g, fs'),
           \A q \in Procs, s \in Slots : q # p /\ lock[s] = q => lock'[s] = q
    PROVE  \E h, D : Via(p, h, D)
<1>1. Via(p, g, {})
  BY DEF Via
<1> QED
  BY <1>1

\* inode_lock, inode_free and the return.
LEMMA LockFreeInv ==
    ASSUME RefInv, RefInv', LinkInv, Intact, NEW p \in Procs, NEW s \in Slots, ~BadInode(fs, s),
           NEW f, f = Locked(fs, s), fs' = Freed(f, s), NEW d, NEW j2, NullRes(p, d, j2), file' = file, lock' = lock,
           unwritten' = unwritten, uncounted => uncounted'
    PROVE  LinkInv'
<1>1. job' = [job EXCEPT ![p] = j2] /\ j2.old = job[p].old /\ Shape(file[p], j2) /\ j2.ip = NoSlot
  BY DEF NullRes
<1>2. ASSUME ~uncounted PROVE Quiet(p, j2)
  <2>1. LinkOn(fs, OwedIn(fs, job), unwritten, {}) /\ \A n \in Inums : OwedIn(fs, job)[n] >= 0
    BY <1>2, LinkNow
  <2>2. PICK c, h, m, W : c = fs /\ h = fs' /\ m = OwedIn(fs, job) /\ W = unwritten
    OBVIOUS
  <2>3. /\ LinkOn(c, m, W, {}) /\ ~BadInode(c, s) /\ f = Locked(c, s) /\ h = Freed(f, s)
        /\ \A n \in Inums : m[n] >= 0
    BY <2>1, <2>2
  <2>4. Up(c, f, Others(job, p), {}) /\ LinkOn(h, m, W, {}) /\ Down(f, h)
    BY <2>3, LockFree
  <2>5. \E g, D : Via(p, g, D)
    BY <2>2, <2>4, ViaFacts
  <2>6. Placed(fs', lock', j2, p)
    BY <1>1, NullPlaced
  <2> QED
    BY <2>2, <2>4, <2>5, <2>6 DEF Quiet
<1> QED
  BY <1>1, <1>2, QuietInv

\* inode_free and the return.
LEMMA FreeNowInv ==
    ASSUME RefInv, RefInv', LinkInv, Intact, NEW p \in Procs, NEW s \in Slots, fs.slot[s].ref >= 1,
           fs' = Freed(fs, s), NEW d, NEW j2, NullRes(p, d, j2), \A q \in Procs : q # p => file'[q] = file[q],
           lock' = lock, unwritten' = unwritten, uncounted' = uncounted
    PROVE  LinkInv'
<1>1. job' = [job EXCEPT ![p] = j2] /\ j2.old = job[p].old /\ Shape(file[p], j2) /\ j2.ip = NoSlot
  BY DEF NullRes
<1>2. ASSUME ~uncounted PROVE Quiet(p, j2)
  <2>1. LinkOn(fs, OwedIn(fs, job), unwritten, {}) /\ \A n \in Inums : OwedIn(fs, job)[n] >= 0
    BY <1>2, LinkNow
  <2>2. PICK c, h, m, W : c = fs /\ h = fs' /\ m = OwedIn(fs, job) /\ W = unwritten
    OBVIOUS
  <2>3. /\ LinkOn(c, m, W, {}) /\ c.slot[s].ref >= 1 /\ h = Freed(c, s)
        /\ \A n \in Inums : m[n] >= 0
    BY <2>1, <2>2
  <2>4. LinkOn(h, m, W, {}) /\ Down(c, h) /\ Up(c, c, Others(job, p), {})
    BY <2>3, FreeCall, UpSame
  <2>5. \E g, D : Via(p, g, D)
    BY <2>2, <2>4, ViaFacts
  <2>6. Placed(fs', lock', j2, p)
    BY <1>1, NullPlaced
  <2> QED
    BY <2>2, <2>4, <2>5, <2>6 DEF Quiet
<1> QED
  BY <1>1, <1>2, QuietInv

\* inode_lock only.
LEMMA LockInv ==
    ASSUME RefInv, RefInv', LinkInv, Intact, NEW p \in Procs, NEW s \in Slots, ~BadInode(fs, s),
           fs' = Locked(fs, s), NEW j2, job' = [job EXCEPT ![p] = j2], j2.old = job[p].old,
           \A q \in Procs : q # p => file'[q] = file[q], lock' = lock,
           unwritten' = unwritten, uncounted' = uncounted, j2.at \notin {"check", "remove"},
           j2.at = "parent" => j2.ip = s /\ Type(fs', s) = "DIR"
    PROVE  LinkInv'
<1>1. ASSUME ~uncounted PROVE Quiet(p, j2)
  <2>1. LinkOn(fs, OwedIn(fs, job), unwritten, {})
    BY <1>1, LinkNow
  <2>2. PICK c, h, m, W, Z : c = fs /\ h = fs' /\ m = OwedIn(fs, job) /\ W = unwritten /\ Z = {}
    OBVIOUS
  <2>3. LinkOn(c, m, W, Z) /\ ~BadInode(c, s) /\ h = Locked(c, s)
    BY <2>1, <2>2
  <2>4. LinkOn(h, m, W, Z) /\ Up(c, h, Others(job, p), {}) /\ h.slot[s].valid
    BY <2>3, LockLink
  <2>5. Down(h, h)
    BY DownSame
  <2>6. \E g, D : Via(p, g, D)
    BY <2>2, <2>4, <2>5, ViaFacts
  <2>7. Placed(fs', lock', j2, p)
    BY <2>2, <2>4 DEF Placed, Type
  <2> QED
    BY <2>2, <2>4, <2>6, <2>7 DEF Quiet
<1> QED
  BY <1>1, QuietInv

\* A step that changes nothing but the job of process p.
LEMMA StillInv ==
    ASSUME RefInv, RefInv', LinkInv, Intact, NEW p \in Procs, fs' = fs, NEW j2, job' = [job EXCEPT ![p] = j2],
           j2.old = job[p].old, \A q \in Procs : q # p => file'[q] = file[q], lock' = lock,
           unwritten' = unwritten, uncounted' = uncounted, j2.at \notin {"parent", "check", "remove"}
    PROVE  LinkInv'
<1>1. ASSUME ~uncounted PROVE Quiet(p, j2)
  <2>1. LinkOn(fs, OwedIn(fs, job), unwritten, {})
    BY <1>1, LinkNow
  <2>2. \E g, D : Via(p, g, D)
    BY UpSame, DownSame, ViaFacts
  <2>3. Placed(fs', lock', j2, p)
    BY DEF Placed
  <2> QED
    BY <2>1, <2>2, <2>3 DEF Quiet
<1> QED
  BY <1>1, QuietInv

LEMMA search_notdir_link ==
    ASSUME RefInv, RefInv', LinkInv, NEW p \in Procs, search_notdir(p)
    PROVE  LinkInv'
<1>1. PICK s, f : s = job[p].ip /\ f = Locked(fs, s)
  OBVIOUS
<1>2. Intact /\ job[p].at = "walk" /\ ~BadInode(fs, s) /\ fs' = Freed(f, s) /\ ReturnNull(p, Dropping(f, s))
      /\ UNCHANGED <<lock, cwd, file, calls, flags>>
  BY <1>1 DEF search_notdir, CanLock, Ready
<1>3. s \in Slots
  BY <1>1, <1>2, StandsSlot
<1>4. PICK d : d = Dropping(f, s) /\ d \in MaybeSlots
  BY <1>3, DroppingType
<1>5. PICK j2 : NullRes(p, d, j2)
  BY <1>2, <1>4, ReturnNullFacts
<1> QED
  BY <1>1, <1>2, <1>3, <1>5, LockFreeInv DEF flags

LEMMA search_parent_link ==
    ASSUME RefInv, RefInv', LinkInv, NEW p \in Procs, search_parent(p)
    PROVE  LinkInv'
<1>1. PICK s, j2 : s = job[p].ip /\ j2 = [job[p] EXCEPT !.at = "parent"]
  OBVIOUS
<1>2. Intact /\ job[p].at = "walk" /\ ~BadInode(fs, s) /\ fs' = Locked(fs, s) /\ Type(fs', s) = "DIR"
      /\ job' = [job EXCEPT ![p].at = "parent"] /\ UNCHANGED <<lock, cwd, file, calls, flags>>
  BY <1>1 DEF search_parent, CanLock, Ready
<1>3. s \in Slots
  BY <1>1, <1>2, StandsSlot
<1>4. job[p] \in Job
  BY <1>2, Now
<1>5. job' = [job EXCEPT ![p] = j2] /\ j2.old = job[p].old /\ j2.at = "parent" /\ j2.ip = s
  BY <1>1, <1>2, <1>4 DEF Job
<1> QED
  BY <1>2, <1>3, <1>5, LockInv, ZenonT(40) DEF flags

LEMMA search_end_link ==
    ASSUME RefInv, RefInv', LinkInv, NEW p \in Procs, search_end(p)
    PROVE  LinkInv'
<1>1. PICK s : s = job[p].ip
  OBVIOUS
<1>2. Intact /\ job[p].at = "walk" /\ UNCHANGED <<lock, cwd, file, calls, flags>>
  BY DEF search_end, Ready
<1>3. s \in Slots
  BY <1>1, <1>2, StandsSlot
<1>4. CASE ForParent(job[p])
  <2>1. fs' = Freed(fs, s) /\ ReturnNull(p, Dropping(fs, s))
    BY <1>1, <1>4 DEF search_end
  <2>2. PICK d : d = Dropping(fs, s) /\ d \in MaybeSlots
    BY <1>3, DroppingType
  <2>3. PICK j2 : NullRes(p, d, j2)
    BY <1>2, <2>1, <2>2, ReturnNullFacts
  <2>4. fs.slot[s].ref >= 1
    <3>1. RefOK(fs, file, job) /\ fs \in FS
      BY <1>2, Now
    <3>2. Mine(file[p], job[p], s) >= 1
      BY <1>1 DEF Mine, One
    <3>3. PICK f, F, J : f = fs /\ F = file /\ J = job
      OBVIOUS
    <3>4. f \in FS /\ RefOK(f, F, J) /\ Mine(F[p], J[p], s) >= 1
      BY <3>1, <3>2, <3>3
    <3>5. f.slot[s].ref >= 1
      BY <1>3, <3>4, HeldRef
    <3> QED
      BY <3>3, <3>5
  <2> QED
    BY <1>2, <1>3, <2>1, <2>3, <2>4, FreeNowInv DEF flags
<1>5. CASE ~ForParent(job[p])
  <2>1. fs' = fs /\ job' = [job EXCEPT ![p].at = "found"]
    BY <1>5 DEF search_end
  <2>2. job[p] \in Job
    BY <1>2, Now
  <2>3. PICK j2 : j2 = [job[p] EXCEPT !.at = "found"]
    OBVIOUS
  <2>4. job' = [job EXCEPT ![p] = j2] /\ j2.old = job[p].old /\ j2.at = "found"
    BY <2>1, <2>2, <2>3 DEF Job
  <2> QED
    BY <1>2, <2>1, <2>4, StillInv DEF flags
<1> QED
  BY <1>4, <1>5

LEMMA path_missing_link ==
    ASSUME RefInv, RefInv', LinkInv, NEW p \in Procs, path_missing(p)
    PROVE  LinkInv'
<1>1. Intact /\ job[p].at = "found" /\ UNCHANGED <<fs, lock, cwd, file, calls, flags>> /\ Return(p, NoSlot)
  BY DEF path_missing, Ready
<1>2. job[p].old = NoSlot /\ NoSlot \in MaybeSlots
  BY <1>1, Now DEF Shape, MaybeSlots
<1>3. PICK j2 : NullRes(p, NoSlot, j2)
  BY <1>1, <1>2, ReturnFacts
<1>4. job' = [job EXCEPT ![p] = j2] /\ j2.old = job[p].old /\ j2.at \notin {"parent", "check", "remove"}
  BY <1>3 DEF NullRes, Shape
<1> QED
  BY <1>1, <1>4, StillInv DEF flags

\* inode_lock of what becomes the open file.
LEMMA OpenLink ==
    ASSUME RefInv, RefInv', LinkInv, Intact, NEW p \in Procs, job[p].at \in {"found", "exists"},
           NEW s, s = job[p].ip, ~BadInode(fs, s), fs' = Locked(fs, s), file' = [file EXCEPT ![p] = s],
           Return(p, NoSlot), UNCHANGED <<lock, cwd, calls, flags>>
    PROVE  LinkInv'
<1>1. s \in Slots /\ job[p].old = NoSlot /\ NoSlot \in MaybeSlots
  BY StandsSlot, Now DEF Shape, MaybeSlots
<1>2. PICK j2 : NullRes(p, NoSlot, j2)
  BY <1>1, ReturnFacts
<1>3. job' = [job EXCEPT ![p] = j2] /\ j2.old = job[p].old /\ j2.at \notin {"parent", "check", "remove"}
  BY <1>2 DEF NullRes, Shape
<1>4. \A q \in Procs : q # p => file'[q] = file[q]
  BY DEF RefInv
<1> QED
  BY <1>1, <1>3, <1>4, LockInv DEF flags

LEMMA file_open_link ==
    ASSUME RefInv, RefInv', LinkInv, NEW p \in Procs, file_open(p)
    PROVE  LinkInv'
<1>1. PICK s : s = job[p].ip
  OBVIOUS
<1>2. /\ Intact /\ job[p].at \in {"found", "exists"} /\ ~BadInode(fs, s) /\ fs' = Locked(fs, s)
      /\ file' = [file EXCEPT ![p] = s] /\ Return(p, NoSlot) /\ UNCHANGED <<lock, cwd, calls, flags>>
  BY <1>1 DEF file_open, CanLock, Ready
<1> QED
  BY <1>1, <1>2, OpenLink

LEMMA dir_change_link ==
    ASSUME RefInv, RefInv', LinkInv, NEW p \in Procs, dir_change(p)
    PROVE  LinkInv'
<1>1. PICK s, f : s = job[p].ip /\ f = Locked(fs, s)
  OBVIOUS
<1>2. /\ Intact /\ job[p].at = "found" /\ ~BadInode(fs, s) /\ fs' = Freed(f, s) /\ Return(p, Dropping(f, s))
      /\ uncounted' = (uncounted \/ (cwd'[p] = s /\ f.slot[s].num # ROOT))
      /\ UNCHANGED <<lock, file, calls, halted, stolen, doubled, orphaned, unwritten>>
  BY <1>1 DEF dir_change, CanLock, Ready
<1>3. s \in Slots /\ job[p].old = NoSlot
  BY <1>1, <1>2, StandsSlot, Now DEF Shape
<1>4. PICK d : d = Dropping(f, s) /\ d \in MaybeSlots
  BY <1>3, DroppingType
<1>5. PICK j2 : NullRes(p, d, j2)
  BY <1>2, <1>3, <1>4, ReturnFacts
<1> QED
  BY <1>1, <1>2, <1>3, <1>5, LockFreeInv

\* inode_lock and inode_free where a process stands, and the return.
LEMMA FreeHereLink ==
    ASSUME RefInv, RefInv', LinkInv, Intact, NEW p \in Procs, job[p].at \in {"walk", "found", "parent", "exists"},
           NEW s, s = job[p].ip, job[p].old = NoSlot, ~BadInode(fs, s), NEW f, f = Locked(fs, s),
           fs' = Freed(f, s), Return(p, Dropping(f, s)), file' = file, lock' = lock, uncounted' = uncounted,
           unwritten' = unwritten
    PROVE  LinkInv'
<1>1. s \in Slots
  BY StandsSlot
<1>2. PICK d : d = Dropping(f, s) /\ d \in MaybeSlots
  BY <1>1, DroppingType
<1>3. PICK j2 : NullRes(p, d, j2)
  BY <1>2, ReturnFacts
<1> QED
  BY <1>1, <1>3, LockFreeInv

LEMMA path_create_old_link ==
    ASSUME RefInv, RefInv', LinkInv, NEW p \in Procs, path_create_old(p)
    PROVE  LinkInv'
<1>1. PICK s, f : s = job[p].ip /\ f = Locked(fs, s)
  OBVIOUS
<1>2. Intact /\ job[p].at = "exists" /\ ~BadInode(fs, s) /\ UNCHANGED <<lock, cwd, calls, flags>>
  BY <1>1 DEF path_create_old, CanLock, Ready
<1>3. CASE fs' = f /\ file' = [file EXCEPT ![p] = s] /\ Return(p, NoSlot)
  <2>1. job[p].at \in {"found", "exists"}
    BY <1>2
  <2> QED
    BY <1>1, <1>2, <1>3, <2>1, OpenLink
<1>4. CASE fs' = Freed(f, s) /\ file' = file /\ Return(p, Dropping(f, s))
  <2>1. job[p].at \in {"walk", "found", "parent", "exists"} /\ job[p].old = NoSlot
    BY <1>2, Now DEF Shape
  <2> QED
    BY <1>1, <1>2, <1>4, <2>1, FreeHereLink DEF flags
<1>5. \/ fs' = f /\ file' = [file EXCEPT ![p] = s] /\ Return(p, NoSlot)
      \/ fs' = Freed(f, s) /\ file' = file /\ Return(p, Dropping(f, s))
  BY <1>1 DEF path_create_old
<1> QED
  BY <1>3, <1>4, <1>5

\* A process counts what it holds.
LEMMA HeldNow ==
    ASSUME RefInv, Intact, NEW p \in Procs, NEW s \in Slots, s \in {file[p], job[p].ip, job[p].dp, job[p].old}
    PROVE  fs.slot[s].ref >= 1
<1>1. RefOK(fs, file, job) /\ fs \in FS
  BY Now
<1>2. Mine(file[p], job[p], s) >= 1
  BY DEF Mine, One
<1>3. PICK f, F, J : f = fs /\ F = file /\ J = job
  OBVIOUS
<1>4. f \in FS /\ RefOK(f, F, J) /\ Mine(F[p], J[p], s) >= 1
  BY <1>1, <1>2, <1>3
<1>5. f.slot[s].ref >= 1
  BY <1>4, HeldRef
<1> QED
  BY <1>3, <1>5

LEMMA file_close_link ==
    ASSUME RefInv, RefInv', LinkInv, NEW p \in Procs, file_close(p)
    PROVE  LinkInv'
<1>1. PICK s : s = file[p]
  OBVIOUS
<1>2. Intact /\ job[p].at = "idle" /\ s # NoSlot /\ fs' = Freed(fs, s)
      /\ Return(p, Dropping(fs, s)) /\ file' = [file EXCEPT ![p] = NoSlot] /\ UNCHANGED <<lock, cwd, calls, flags>>
  BY <1>1 DEF file_close, Ready
<1>3. s \in Slots /\ job[p].old = NoSlot
  BY <1>1, <1>2, Now DEF Shape, MaybeSlots
<1>4. PICK d : d = Dropping(fs, s) /\ d \in MaybeSlots
  BY <1>3, DroppingType
<1>5. PICK j2 : NullRes(p, d, j2)
  BY <1>2, <1>3, <1>4, ReturnFacts
<1>6. fs.slot[s].ref >= 1
  BY <1>1, <1>2, <1>3, HeldNow
<1>7. \A q \in Procs : q # p => file'[q] = file[q]
  BY <1>2 DEF RefInv
<1> QED
  BY <1>2, <1>3, <1>5, <1>6, <1>7, FreeNowInv DEF flags

LEMMA inode_free_end_link ==
    ASSUME RefInv, RefInv', LinkInv, NEW p \in Procs, inode_free_end(p)
    PROVE  LinkInv'
<1>1. PICK s : s = job[p].drop
  OBVIOUS
<1>2. Intact /\ s # NoSlot /\ fs' = Ended(fs, s) /\ job' = [job EXCEPT ![p].drop = NoSlot]
      /\ UNCHANGED <<lock, cwd, file, calls, flags>>
  BY <1>1 DEF inode_free_end, Ended
<1>3. s \in Slots /\ fs \in FS /\ RefOK(fs, file, job) /\ job[p] \in Job /\ Shape(file[p], job[p])
  BY <1>1, <1>2, Now DEF MaybeSlots
<1>4. PICK j2 : j2 = [job[p] EXCEPT !.drop = NoSlot]
  OBVIOUS
<1>5. j2.at = job[p].at /\ j2.ip = job[p].ip /\ j2.dp = job[p].dp /\ j2.old = job[p].old /\ j2.path = job[p].path
      /\ job' = [job EXCEPT ![p] = j2]
  BY <1>2, <1>3, <1>4 DEF Job
<1>6. fs.slot[s].num = U /\ fs.slot[s].ref >= 1
  <2>1. PICK f, F, J : f = fs /\ F = file /\ J = job
    OBVIOUS
  <2>2. f \in FS /\ RefOK(f, F, J) /\ J[p].drop = s
    BY <1>1, <1>3, <2>1
  <2> QED
    BY <1>3, <2>1, <2>2, DropFacts
<1>7. ASSUME ~uncounted PROVE Quiet(p, j2)
  <2>1. LinkOn(fs, OwedIn(fs, job), unwritten, {}) /\ Placed(fs, lock, job[p], p)
    BY <1>2, <1>7, LinkNow
  <2>2. PICK f, h, m, W, Z : f = fs /\ h = fs' /\ m = OwedIn(fs, job) /\ W = unwritten /\ Z = {}
    OBVIOUS
  <2>3. LinkOn(f, m, W, Z) /\ EndRes(f, s, h) /\ f.slot[s].num = U
    BY <1>2, <1>3, <1>6, <2>1, <2>2, EndFacts
  <2>4. LinkOn(h, m, W, Z) /\ Up(f, h, Others(job, p), {}) /\ Down(h, h)
    BY <1>3, <2>3, EndLink, DownSame
  <2>5. \E g, D : Via(p, g, D)
    BY <1>2, <2>2, <2>4, ViaFacts
  <2>6. ~f.slot[s].valid
    BY <1>3, <2>3 DEF LinkOn, SlotLinks
  <2>7. h.entry = f.entry /\ (\A t \in Slots : h.slot[t].num = f.slot[t].num)
        /\ \A t \in Slots : f.slot[t].valid => h.slot[t].valid /\ h.slot[t].type = f.slot[t].type
    BY <2>3, <2>6 DEF EndRes, SameDisk, Only
  <2>8. job[p].at = "parent" => job[p].ip \in Slots
    BY <1>3 DEF Shape, Job
  <2>9. job[p].at \in {"check", "remove"} => job[p].ip \in Slots /\ job[p].dp \in Slots
    BY <1>3 DEF Shape, Job
  <2>10. Placed(h, lock', j2, p)
    <3>1. PICK L, j : L = lock /\ lock' = L /\ j = job[p]
      BY <1>2
    <3>2. Placed(f, L, j, p)
      BY <2>1, <2>2, <3>1
    <3>3. j.at = "parent" => h.slot[j.ip].valid /\ h.slot[j.ip].type = "DIR"
      BY <2>7, <2>8, <3>1, <3>2 DEF Placed
    <3>4. ASSUME j.at \in {"check", "remove"}
          PROVE  /\ L[j.dp] = p /\ h.slot[j.dp].valid /\ h.slot[j.dp].type = "DIR"
                 /\ h.entry[h.slot[j.dp].num][Head(j.path)] = h.slot[j.ip].num
      BY <2>7, <2>9, <3>1, <3>2, <3>4 DEF Placed
    <3>5. Placed(h, L, j2, p)
      BY <1>5, <3>1, <3>3, <3>4 DEF Placed
    <3> QED
      BY <3>1, <3>5
  <2> QED
    BY <1>2, <2>2, <2>4, <2>5, <2>10 DEF Quiet, flags
<1> QED
  BY <1>2, <1>5, <1>7, QuietInv DEF flags

\* The lock of the directory that p holds goes.
LEMMA UnlockFacts ==
    ASSUME RefInv, LinkInv, Intact, ~uncounted, NEW p \in Procs, job[p].at \in {"check", "remove"},
           NEW s, s = job[p].dp, lock' = [lock EXCEPT ![s] = None]
    PROVE  \A q \in Procs, t \in Slots : q # p /\ lock[t] = q => lock'[t] = q
<1>1. Placed(fs, lock, job[p], p)
  BY LinkNow
<1>2. lock[s] = p /\ lock \in [Slots -> Procs \cup {None}]
  BY <1>1 DEF Placed, RefInv, Rest
<1> QED
  BY <1>2

LEMMA path_create_found_link ==
    ASSUME RefInv, RefInv', LinkInv, NEW p \in Procs, path_create_found(p)
    PROVE  LinkInv'
<1>1. PICK s, d : s = job[p].dp /\ d = Dropping(fs, s)
  OBVIOUS
<1>2. /\ Intact /\ job[p].at = "check" /\ fs' = Freed(fs, s)
      /\ lock' = [lock EXCEPT ![s] = None] /\ UNCHANGED <<cwd, file, calls, flags>>
  BY <1>1, Sizes DEF path_create_found, Ready
<1>3. s \in Slots /\ fs.slot[s].ref >= 1 /\ job[p] \in Job
  BY <1>1, <1>2, DirFacts, Now
<1>4. PICK j2 : j2 = [job[p] EXCEPT !.at = "exists", !.dp = NoSlot, !.drop = d]
  OBVIOUS
<1>5. j2.at = "exists" /\ j2.old = job[p].old
  BY <1>3, <1>4 DEF Job
<1>6. job' = [job EXCEPT ![p] = j2]
  BY <1>1, <1>4 DEF path_create_found
<1>7. ASSUME ~uncounted PROVE Quiet(p, j2)
  <2>1. LinkOn(fs, OwedIn(fs, job), unwritten, {}) /\ \A n \in Inums : OwedIn(fs, job)[n] >= 0
    BY <1>2, <1>7, LinkNow
  <2>2. PICK c, h, m, W : c = fs /\ h = fs' /\ m = OwedIn(fs, job) /\ W = unwritten
    OBVIOUS
  <2>3. /\ LinkOn(c, m, W, {}) /\ c.slot[s].ref >= 1 /\ h = Freed(c, s)
        /\ \A n \in Inums : m[n] >= 0
    BY <1>2, <1>3, <2>1, <2>2
  <2>4. LinkOn(h, m, W, {}) /\ Down(c, h) /\ Up(c, c, Others(job, p), {})
    BY <1>3, <2>3, FreeCall, UpSame
  <2>5. \A q \in Procs, t \in Slots : q # p /\ lock[t] = q => lock'[t] = q
    BY <1>1, <1>2, <1>7, UnlockFacts
  <2>6. \E g, D : Via(p, g, D)
    BY <2>2, <2>4, <2>5, ViaFacts
  <2>7. Placed(fs', lock', j2, p)
    BY <1>5 DEF Placed
  <2> QED
    BY <1>2, <2>2, <2>4, <2>6, <2>7 DEF Quiet, flags
<1> QED
  BY <1>2, <1>5, <1>6, <1>7, QuietInv DEF flags

\* No entry names an inode that is gone.
LEMMA EntryTyped ==
    ASSUME NEW f, NEW m, NEW W, NEW Z, LinkOn(f, m, W, Z), NEW d \in Inums, NEW x \in Names, NEW n \in Inums,
           f.entry[d][x] = n
    PROVE  TypeOf(f, n) # "UNUSED"
<1>1. <<d, x>> \in NamedIn(f, n)
  BY DEF NamedIn
<1> QED
  BY <1>1 DEF LinkOn, InodeLinks

\* inode_get of what an entry names, or of the number for none; the process
\* holds slot s meanwhile.
LEMMA GetEntry ==
    ASSUME NEW f, NEW m, NEW W, LinkOn(f, m, W, {}), NEW s \in Slots, LiveIn(f, s),
           NEW n \in Inums \cup {U}, n # U => TypeOf(f, n) # "UNUSED", CanGet(f, n), NEW J, NEW p \in Procs, ~Robbed(f, J, p, n),
           NEW g, g = Got(f, n), NEW D
    PROVE  /\ LinkOn(g, m, W, {}) /\ Up(f, g, Others(J, p), D) /\ GotSlot(f, n) \in Slots
           /\ g.slot[GotSlot(f, n)].num = n /\ g.slot[s].ref >= 1 /\ g.slot[s].num = f.slot[s].num /\ g.entry = f.entry
           /\ g.inode = f.inode /\ g.slot[s].valid = f.slot[s].valid /\ g.slot[s].type = f.slot[s].type
           /\ g.slot[s].nlink = f.slot[s].nlink
<1>1. f \in FS
  BY DEF LinkOn
<1>2. PICK Z, Q : Z = {} /\ Q = Others(J, p)
  OBVIOUS
<1>3. n # U /\ Hits(f, n) = {} => GotSlot(f, n) \notin Q
  BY <1>2 DEF Robbed, Others
<1>4. LinkOn(f, m, W, Z)
  BY <1>2
<1>5. LinkOn(g, m, W, Z) /\ Up(f, g, Q, D) /\ GotRes(f, n, g) /\ GotSlot(f, n) \in Slots
  BY <1>3, <1>4, GotLink
<1>6. g.slot[GotSlot(f, n)].num = n /\ g.entry = f.entry /\ g.inode = f.inode
  BY <1>5 DEF GotRes, SameDisk
<1>7. f.slot[s].num # U /\ f.slot[s].ref >= 1
  BY <1>1 DEF LiveIn, FS, Slot
<1>8. /\ g.slot[s].ref >= 1 /\ g.slot[s].num = f.slot[s].num /\ g.slot[s].valid = f.slot[s].valid
      /\ g.slot[s].type = f.slot[s].type /\ g.slot[s].nlink = f.slot[s].nlink
  <2>1. CASE s # GotSlot(f, n)
    BY <1>5, <1>7, <2>1 DEF GotRes, Only
  <2>2. CASE s = GotSlot(f, n)
    <3>1. f.slot[s].ref \in Nat
      BY <1>1 DEF FS, Slot
    <3> QED
      BY <1>5, <1>7, <2>2, <3>1 DEF GotRes
  <2> QED
    BY <2>1, <2>2
<1> QED
  BY <1>2, <1>5, <1>6, <1>8

\* The start of a walk, at the root's slot.
LEMMA StartLink ==
    ASSUME NEW f, NEW m, NEW W, LinkOn(f, m, W, {}), LiveIn(f, 1), f.slot[1].num = ROOT, NEW p \in Procs, cwd[p] = 1,
           NEW abs, NEW g, g = Started(p, f, abs), NEW Q, NEW D
    PROVE  LinkOn(g, m, W, {}) /\ Up(f, g, Q, D)
<1>1. f \in FS /\ 1 \in Slots /\ ROOT \in Inums /\ TypeOf(f, ROOT) = "DIR"
  BY Sizes DEF LinkOn
<1>2. PICK Z : Z = {}
  OBVIOUS
<1>3. LinkOn(f, m, W, Z)
  BY <1>2
<1>4. CASE abs
  <2>1. 1 \in Hits(f, ROOT)
    BY <1>1 DEF Hits, LiveIn
  <2>2. CanGet(f, ROOT) /\ Hits(f, ROOT) # {}
    BY <2>1 DEF CanGet
  <2>3. g = Got(f, ROOT)
    BY <1>4 DEF Started
  <2>4. LinkOn(g, m, W, Z) /\ Up(f, g, Q, D)
    BY <1>1, <1>3, <2>2, <2>3, GotLink
  <2> QED
    BY <1>2, <2>4
<1>5. CASE ~abs
  <2>1. g = Bumped(f, 1)
    BY <1>5 DEF Started, Bumped
  <2>2. BumpRes(f, 1, g)
    BY <1>1, <2>1, BumpedFacts
  <2>3. LinkOn(g, m, W, Z) /\ Up(f, g, Q, D)
    BY <1>1, <1>3, <2>2, BumpLink
  <2> QED
    BY <1>2, <2>3
<1> QED
  BY <1>4, <1>5

LEMMA Call_link ==
    ASSUME RefInv, RefInv', LinkInv, NEW p \in Procs, NEW call \in Calls, NEW path \in Paths, NEW next \in Paths,
           NEW abs \in BOOLEAN, Call(p, call, path, next, abs)
    PROVE  LinkInv'
<1>1. PICK i, nx : i = StartSlot(p, fs, abs) /\ nx = IF call = "link" THEN next ELSE <<>>
  OBVIOUS
<1>2. PICK j2 : j2 = WalkJob(call, path, nx, i)
  OBVIOUS
<1>3. /\ Intact /\ job[p].at = "idle" /\ fs' = Started(p, fs, abs) /\ UNCHANGED <<lock, cwd, file, flags>>
  BY DEF Call, Ready
<1>4. job' = [job EXCEPT ![p] = j2]
  BY <1>1, <1>2 DEF Call, WalkJob
<1>5. job[p].old = NoSlot /\ RefOK(fs, file, job) /\ fs \in FS
  BY <1>3, Now DEF Shape
<1>6. j2.at = "walk" /\ j2.old = NoSlot
  BY <1>2 DEF WalkJob, Idle
<1>7. ASSUME ~uncounted PROVE Quiet(p, j2)
  <2>1. LinkOn(fs, OwedIn(fs, job), unwritten, {}) /\ cwd[p] = 1
    BY <1>3, <1>7, LinkNow DEF RefInv
  <2>2. LiveIn(fs, 1) /\ fs.slot[1].num = ROOT
    BY <1>5, RootLive
  <2>3. PICK f, h, m, W : f = fs /\ h = fs' /\ m = OwedIn(fs, job) /\ W = unwritten
    OBVIOUS
  <2>4. LinkOn(f, m, W, {}) /\ LiveIn(f, 1) /\ f.slot[1].num = ROOT /\ h = Started(p, f, abs)
    BY <1>3, <2>1, <2>2, <2>3
  <2>5. LinkOn(h, m, W, {}) /\ Up(f, h, Others(job, p), {}) /\ Down(h, h)
    BY <2>1, <2>4, StartLink, DownSame
  <2>6. \E g, D : Via(p, g, D)
    BY <1>3, <2>3, <2>5, ViaFacts
  <2>7. Placed(fs', lock', j2, p)
    BY <1>6 DEF Placed
  <2> QED
    BY <1>3, <2>3, <2>5, <2>6, <2>7 DEF Quiet, flags
<1> QED
  BY <1>3, <1>4, <1>5, <1>6, <1>7, QuietInv DEF flags

LEMMA search_next_link ==
    ASSUME RefInv, RefInv', LinkInv, NEW p \in Procs, search_next(p)
    PROVE  LinkInv'
<1>1. PICK s : s = job[p].ip
  OBVIOUS
<1>2. PICK f : f = Locked(fs, s)
  OBVIOUS
<1>3. PICK n : n = Entry(f, s, Head(job[p].path))
  OBVIOUS
<1>4. PICK g : g = Got(f, n)
  OBVIOUS
<1>5. /\ Intact /\ job[p].at = "walk" /\ ~BadInode(fs, s) /\ fs' = Freed(g, s)
      /\ job[p].path # <<>> /\ CanGet(f, n) /\ stolen' = Robs(p, f, n)
      /\ job' = [job EXCEPT ![p].ip = GotSlot(f, n), ![p].path = Tail(@), ![p].drop = Dropping(g, s)]
      /\ UNCHANGED <<lock, cwd, file, calls, halted, doubled, orphaned, uncounted, unwritten>>
  BY <1>1, <1>2, <1>3, <1>4 DEF search_next, CanLock, Ready
<1>6. s \in Slots /\ job[p] \in Job
  BY <1>1, <1>5, StandsSlot, Now
<1>7. LockStep(p, s, f)
  BY <1>2, <1>5, <1>6, LockFacts
<1>8. PICK x : x = Head(job[p].path) /\ x \in Names
  BY <1>5, <1>6, NameHead
<1>9. n \in Inums \cup {U}
  BY <1>3, <1>7, <1>8, EntryType DEF LockStep
<1>10. PICK j2 : j2 = [job[p] EXCEPT !.ip = GotSlot(f, n), !.path = Tail(@), !.drop = Dropping(g, s)]
  OBVIOUS
<1>11. j2.at = "walk" /\ j2.old = job[p].old /\ job' = [job EXCEPT ![p] = j2]
  BY <1>5, <1>6, <1>10 DEF Job
<1>12. ASSUME Intact', ~uncounted PROVE Quiet(p, j2)
  <2>1. LinkOn(fs, OwedIn(fs, job), unwritten, {}) /\ \A i \in Inums : OwedIn(fs, job)[i] >= 0
    BY <1>5, <1>12, LinkNow
  <2>2. PICK c, h, m, W, J, Q : c = fs /\ h = fs' /\ m = OwedIn(fs, job) /\ W = unwritten /\ J = job /\ Q = Others(job, p)
    OBVIOUS
  <2>3. LinkOn(c, m, W, {}) /\ ~BadInode(c, s) /\ f = Locked(c, s) /\ h = Freed(g, s) /\ \A i \in Inums : m[i] >= 0
    BY <1>2, <1>5, <2>1, <2>2
  <2>4. LinkOn(f, m, W, {}) /\ Up(c, f, Q, {}) /\ LiveIn(f, s) /\ f.slot[s].num \in Inums
    BY <1>6, <2>3, LockLink
  <2>5. n # U => TypeOf(f, n) # "UNUSED"
    BY <1>3, <1>8, <1>9, <2>4, EntryTyped DEF Entry
  <2>6. ~Robbed(f, J, p, n)
    BY <1>5, <1>12, <2>2, Sizes DEF Robbed, Robs, Intact
  <2>7. LinkOn(g, m, W, {}) /\ Up(f, g, Q, {}) /\ g.slot[s].ref >= 1
    BY <1>4, <1>5, <1>6, <1>9, <2>2, <2>4, <2>5, <2>6, GetEntry
  <2>8. LinkOn(h, m, W, {}) /\ Down(g, h)
    BY <1>6, <2>3, <2>7, FreeCall
  <2>9. Up(c, g, Q, {})
    BY <2>4, <2>7, UpTrans
  <2>10. \E e, D : Via(p, e, D)
    BY <1>5, <2>2, <2>8, <2>9, ViaFacts
  <2>11. Placed(fs', lock', j2, p)
    BY <1>11 DEF Placed
  <2> QED
    BY <1>5, <2>2, <2>8, <2>10, <2>11 DEF Quiet
<1> QED
  BY <1>5, <1>11, <1>12, QuietInv

\* The inode_get of create and unlink: the entry that was read stays, because
\* the directory is locked.
LEMMA GetLink ==
    ASSUME RefInv, RefInv', LinkInv, Intact, NEW p \in Procs, NEW a, NEW s, NEW f, NEW n, NEW j2,
           GetStep(p, a, s, f, n, j2), lock[s] = None
    PROVE  LinkInv'
<1>1. /\ job[p].at = "parent" /\ s = job[p].ip /\ ~BadInode(fs, s) /\ f = Locked(fs, s) /\ a \in {"check", "remove"}
      /\ n = Entry(f, s, Head(job[p].path)) /\ CanGet(f, n) /\ fs' = Got(f, n) /\ lock' = [lock EXCEPT ![s] = p]
      /\ stolen' = Robs(p, f, n) /\ j2 = [job[p] EXCEPT !.at = a, !.dp = s, !.ip = GotSlot(f, n)]
      /\ job' = [job EXCEPT ![p] = j2] /\ file' = file /\ uncounted' = uncounted /\ unwritten' = unwritten
  BY DEF GetStep
<1>2. s \in Slots /\ job[p] \in Job /\ job[p].path # <<>>
  BY <1>1, StandsSlot, Now DEF Shape
<1>3. LockStep(p, s, f)
  BY <1>1, <1>2, LockFacts
<1>4. PICK x : x = Head(job[p].path) /\ x \in Names
  BY <1>2, NameHead
<1>5. n \in Inums \cup {U}
  BY <1>1, <1>3, <1>4, EntryType DEF LockStep
<1>6. j2.at = a /\ j2.dp = s /\ j2.ip = GotSlot(f, n) /\ j2.old = job[p].old /\ j2.path = job[p].path
  BY <1>1, <1>2 DEF Job
<1>7. ASSUME Intact', ~uncounted PROVE Quiet(p, j2)
  <2>1. LinkOn(fs, OwedIn(fs, job), unwritten, {}) /\ Placed(fs, lock, job[p], p)
    BY <1>7, LinkNow
  <2>2. PICK c, h, m, W, J, Q : c = fs /\ h = fs' /\ m = OwedIn(fs, job) /\ W = unwritten /\ J = job /\ Q = Others(job, p)
    OBVIOUS
  <2>3. LinkOn(c, m, W, {}) /\ ~BadInode(c, s) /\ f = Locked(c, s) /\ h = Got(f, n)
    BY <1>1, <2>1, <2>2
  <2>4. LinkOn(f, m, W, {}) /\ Up(c, f, Q, {}) /\ LiveIn(f, s) /\ f.slot[s].num \in Inums
    BY <1>2, <2>3, LockLink
  <2>5. n # U => TypeOf(f, n) # "UNUSED"
    BY <1>1, <1>4, <1>5, <2>4, EntryTyped, ZenonT(40) DEF Entry
  <2>6. ~Robbed(f, J, p, n)
    BY <1>1, <1>7, <2>2, Sizes DEF Robbed, Robs, Intact
  <2>7. /\ LinkOn(h, m, W, {}) /\ Up(f, h, Q, {}) /\ h.slot[GotSlot(f, n)].num = n /\ h.entry = f.entry
        /\ h.slot[s].num = f.slot[s].num /\ h.slot[s].valid = f.slot[s].valid /\ h.slot[s].type = f.slot[s].type
    <3>1. CanGet(f, n) /\ h = Got(f, n) /\ LinkOn(f, m, W, {}) /\ LiveIn(f, s) /\ Q = Others(J, p)
      BY <1>1, <2>2, <2>3, <2>4
    <3> QED
      BY <1>2, <1>5, <2>5, <2>6, <3>1, GetEntry
  <2>8. Up(c, h, Q, {}) /\ Down(h, h)
    BY <2>4, <2>7, UpTrans, DownSame
  <2>9. \A q \in Procs, t \in Slots : q # p /\ lock[t] = q => lock'[t] = q
    BY <1>1, <1>2, DirAssumption DEF RefInv, Rest
  <2>10. \E e, D : Via(p, e, D)
    BY <2>2, <2>8, <2>9, ViaFacts
  <2>11. Placed(fs', lock', j2, p)
    <3>1. c.slot[s].valid /\ c.slot[s].type = "DIR"
      BY <1>1, <2>1, <2>2 DEF Placed
    <3>2. f.slot[s].valid /\ f.slot[s].type = "DIR"
      BY <2>3, <3>1 DEF Locked
    <3>3. lock'[s] = p
      BY <1>1, <1>2 DEF RefInv, Rest
    <3>4. h.entry[h.slot[s].num][x] = n
      BY <1>1, <1>4, <2>7 DEF Entry
    <3>5. PICK L : L = lock'
      OBVIOUS
    <3>6. Placed(h, L, j2, p)
      <4>1. j2.at # "parent" /\ j2.dp = s /\ Head(j2.path) = x /\ L[s] = p /\ h.slot[j2.ip].num = n
        BY <1>1, <1>4, <1>6, <2>7, <3>3, <3>5
      <4>2. h.slot[s].valid /\ h.slot[s].type = "DIR"
        BY <2>7, <3>2
      <4> QED
        BY <3>4, <4>1, <4>2 DEF Placed
    <3> QED
      BY <2>2, <3>5, <3>6
  <2> QED
    BY <1>1, <2>2, <2>7, <2>10, <2>11 DEF Quiet
<1> QED
  BY <1>1, <1>6, <1>7, QuietInv

LEMMA path_create_get_link ==
    ASSUME RefInv, RefInv', LinkInv, NEW p \in Procs, path_create_get(p)
    PROVE  LinkInv'
<1>1. PICK s : s = job[p].ip
  OBVIOUS
<1>2. PICK f : f = Locked(fs, s)
  OBVIOUS
<1>3. PICK n : n = Entry(f, s, Head(job[p].path))
  OBVIOUS
<1>4. PICK a : a = "check"
  OBVIOUS
<1>5. /\ Intact /\ job[p].at = "parent" /\ job[p].drop = NoSlot /\ ~BadInode(fs, s) /\ lock[s] = None
      /\ job[p].call \in {"create", "mkdir"} /\ CanGet(f, n) /\ fs' = Got(f, n)
      /\ lock' = [lock EXCEPT ![s] = p] /\ stolen' = Robs(p, f, n)
      /\ UNCHANGED <<cwd, file, calls, halted, doubled, orphaned, uncounted, unwritten>>
  BY <1>1, <1>2, <1>3, <1>4 DEF path_create_get, CanLock, Ready
<1>6. job[p].call \in {"create", "mkdir", "unlink"}
  BY <1>5
<1>7. PICK j2 : j2 = [job[p] EXCEPT !.at = a, !.dp = s, !.ip = GotSlot(f, n)]
  OBVIOUS
<1>8. job' = [job EXCEPT ![p] = j2]
  BY <1>1, <1>2, <1>3, <1>4, <1>7 DEF path_create_get
<1>9. GetStep(p, a, s, f, n, j2)
  <2>1. (a = "check" /\ job[p].call \in {"create", "mkdir"}) \/ (a = "remove" /\ n # U)
    BY <1>4, <1>5
  <2>2. /\ job[p].at = "parent" /\ job[p].drop = NoSlot /\ job[p].call \in {"create", "mkdir", "unlink"}
        /\ ~BadInode(fs, s) /\ CanGet(f, n) /\ fs' = Got(f, n) /\ lock' = [lock EXCEPT ![s] = p]
        /\ stolen' = Robs(p, f, n)
        /\ UNCHANGED <<cwd, file, calls, halted, doubled, orphaned, uncounted, unwritten>>
    BY <1>5, <1>6
  <2> QED
    BY <1>1, <1>2, <1>3, <1>7, <1>8, <2>1, <2>2 DEF GetStep
<1> QED
  BY <1>5, <1>9, GetLink

LEMMA path_unlink_get_link ==
    ASSUME RefInv, RefInv', LinkInv, NEW p \in Procs, path_unlink_get(p)
    PROVE  LinkInv'
<1>1. PICK s : s = job[p].ip
  OBVIOUS
<1>2. PICK f : f = Locked(fs, s)
  OBVIOUS
<1>3. PICK n : n = Entry(f, s, Head(job[p].path))
  OBVIOUS
<1>4. PICK a : a = "remove"
  OBVIOUS
<1>5. /\ Intact /\ job[p].at = "parent" /\ job[p].drop = NoSlot /\ ~BadInode(fs, s) /\ job[p].call = "unlink"
      /\ lock[s] = None /\ UNCHANGED <<cwd, file, calls, halted, doubled, orphaned, uncounted, unwritten>>
  BY <1>1 DEF path_unlink_get, CanLock, Ready
<1>6. CASE fs' = Freed(f, s) /\ Return(p, Dropping(f, s)) /\ UNCHANGED <<lock, stolen>>
  <2>1. job[p].at \in {"walk", "found", "parent", "exists"}
    BY <1>5
  <2>2. job[p].old = NoSlot
    BY <1>5, Now DEF Shape
  <2> QED
    BY <1>1, <1>2, <1>5, <1>6, <2>1, <2>2, FreeHereLink
<1>7. CASE /\ n # INODE_NUM_UNUSED /\ CanGet(f, n) /\ fs' = Got(f, n)
           /\ lock' = [lock EXCEPT ![s] = p] /\ stolen' = Robs(p, f, n)
           /\ job' = [job EXCEPT ![p].at = a, ![p].dp = s, ![p].ip = GotSlot(f, n)]
  <2>1. a # "check" /\ job[p].call \in {"create", "mkdir", "unlink"} /\ n # U
    BY <1>4, <1>5, <1>7, Sizes
  <2>2. PICK j2 : j2 = [job[p] EXCEPT !.at = a, !.dp = s, !.ip = GotSlot(f, n)]
    OBVIOUS
  <2>3. job' = [job EXCEPT ![p] = j2]
    BY <1>7, <2>2
  <2>4. GetStep(p, a, s, f, n, j2)
    BY <1>1, <1>2, <1>3, <1>4, <1>5, <1>7, <2>1, <2>2, <2>3 DEF GetStep
  <2> QED
    BY <1>5, <2>4, GetLink
<1>8. \/ fs' = Freed(f, s) /\ Return(p, Dropping(f, s)) /\ UNCHANGED <<lock, stolen>>
      \/ /\ n # INODE_NUM_UNUSED /\ CanGet(f, n) /\ fs' = Got(f, n)
         /\ lock' = [lock EXCEPT ![s] = p] /\ stolen' = Robs(p, f, n)
         /\ job' = [job EXCEPT ![p].at = a, ![p].dp = s, ![p].ip = GotSlot(f, n)]
  BY <1>1, <1>2, <1>3, <1>4 DEF path_unlink_get
<1> QED
  BY <1>6, <1>7, <1>8

\* A step after which m2 is owed.
Changed(p, j2, m2) ==
    /\ \E g, D : Via(p, g, D)
    /\ LinkOn(fs', m2, unwritten', {}) /\ OldFile(fs', j2) /\ Placed(fs', lock', j2, p)
    /\ \A n \in Inums : m2[n] + One(p \in OldAt(fs, job, n)) = OwedIn(fs, job)[n] + One(p \in OldAt(fs', job', n))

LEMMA ChangeInv ==
    ASSUME RefInv, RefInv', LinkInv, Intact, NEW p \in Procs, NEW j2, job' = [job EXCEPT ![p] = j2],
           \A q \in Procs : q # p => file'[q] = file[q], uncounted => uncounted', NEW m2,
           Intact' /\ ~uncounted' => Changed(p, j2, m2)
    PROVE  LinkInv'
<1> SUFFICES ASSUME Intact', ~uncounted'
             PROVE  LinkState(fs', lock', job', unwritten')
  BY DEF LinkInv
<1>1. LinkState(fs, lock, job, unwritten)
  BY LinkNow
<1>2. Changed(p, j2, m2)
  OBVIOUS
<1>3. PICK g, D : Via(p, g, D)
  BY <1>2 DEF Changed
<1>4. Passed(fs, file, job, lock, g, D, fs', file', job', lock', p)
  BY <1>3, PassedNow
<1>5. job'[p] = j2
  BY DEF RefInv
<1>6. /\ LinkOn(fs', m2, unwritten', {}) /\ OldFile(fs', j2) /\ Placed(fs', lock', j2, p)
      /\ \A n \in Inums : m2[n] + One(p \in OldAt(fs, job, n)) = OwedIn(fs, job)[n] + One(p \in OldAt(fs', job', n))
  BY <1>2 DEF Changed
<1>7. PICK f, F, J, L, h, F2, J2, L2, W, W2 :
          /\ f = fs /\ F = file /\ J = job /\ L = lock /\ W = unwritten
          /\ h = fs' /\ F2 = file' /\ J2 = job' /\ L2 = lock' /\ W2 = unwritten'
  OBVIOUS
<1>8. /\ Passed(f, F, J, L, g, D, h, F2, J2, L2, p) /\ LinkState(f, L, J, W)
      /\ LinkOn(h, m2, W2, {}) /\ OldFile(h, J2[p]) /\ Placed(h, L2, J2[p], p)
  BY <1>1, <1>4, <1>5, <1>6, <1>7
<1>9. \A n \in Inums : m2[n] + One(p \in OldAt(f, J, n)) = OwedIn(f, J)[n] + One(p \in OldAt(h, J2, n))
  BY <1>6, <1>7
<1>10. \A q \in Procs : OldFile(f, J[q]) /\ Placed(f, L, J[q], q)
  BY <1>8 DEF LinkState
<1>11. OwedIn(h, J2) = m2
  <2>1. m2 \in [Inums -> Int] /\ OwedIn(h, J2) \in [Inums -> Int] /\ OwedIn(f, J) \in [Inums -> Int]
    BY <1>8, OwedType DEF LinkOn
  <2>2. ASSUME NEW n \in Inums PROVE OwedIn(h, J2)[n] = m2[n]
    <3>1. OwedIn(h, J2)[n] + One(p \in OldAt(f, J, n)) = OwedIn(f, J)[n] + One(p \in OldAt(h, J2, n))
      BY <1>8, <1>10, PassedOwed
    <3>2. One(p \in OldAt(f, J, n)) \in Int /\ One(p \in OldAt(h, J2, n)) \in Int
      BY DEF One
    <3> QED
      BY <1>9, <2>1, <3>1, <3>2
  <2> QED
    BY <2>1, <2>2
<1>12. ASSUME NEW q \in Procs PROVE OldFile(h, J2[q]) /\ Placed(h, L2, J2[q], q)
  <2>1. CASE q = p
    BY <1>8, <2>1
  <2>2. CASE q # p
    <3>1. J2[q] = J[q]
      BY <1>8, <2>2 DEF Passed, OnlyProc
    <3>2. OldFile(h, J2[q])
      <4>1. CASE J[q].old = NoSlot
        BY <3>1, <4>1 DEF OldFile
      <4>2. CASE J[q].old # NoSlot
        BY <1>8, <1>10, <3>1, <4>2, PassedOld
      <4> QED
        BY <4>1, <4>2
    <3> QED
      BY <1>8, <1>10, <2>2, <3>2, PassedPlace
  <2> QED
    BY <2>1, <2>2
<1>13. LinkState(h, L2, J2, W2)
  BY <1>8, <1>11, <1>12 DEF LinkState
<1> QED
  BY <1>7, <1>13

\* The link is counted before the walk to its parent.
LEMMA path_link_begin_link ==
    ASSUME RefInv, RefInv', LinkInv, NEW p \in Procs, NEW abs \in BOOLEAN, path_link_begin(p, abs)
    PROVE  LinkInv'
<1>1. PICK s : s = job[p].ip
  OBVIOUS
<1>2. PICK f : f = Locked(fs, s)
  OBVIOUS
<1>3. Intact /\ job[p].at = "found" /\ job[p].drop = NoSlot /\ ~BadInode(fs, s) /\ job[p].call = "link"
      /\ UNCHANGED <<lock, cwd, file, calls, flags>>
  BY <1>1, <1>2 DEF path_link_begin, CanLock, Ready
<1>4. s \in Slots /\ job[p].dp = NoSlot /\ job[p].old = NoSlot /\ job[p] \in Job
  BY <1>1, <1>3, StandsSlot, Now DEF Shape
<1>5. CASE fs' = Freed(f, s) /\ Return(p, Dropping(f, s))
  <2>1. job[p].at \in {"walk", "found", "parent", "exists"}
    BY <1>3
  <2> QED
    BY <1>1, <1>2, <1>3, <1>4, <1>5, <2>1, FreeHereLink DEF flags
<1>6. CASE ~(fs' = Freed(f, s) /\ Return(p, Dropping(f, s)))
  <2>1. PICK g : g = Relinked(f, s, 1)
    OBVIOUS
  <2>2. PICK i : i = StartSlot(p, g, abs)
    OBVIOUS
  <2>3. PICK j2 : j2 = [job[p] EXCEPT !.at = "walk", !.path = job[p].next, !.next = <<>>, !.old = s, !.ip = i]
    OBVIOUS
  <2>4. fs' = Started(p, g, abs) /\ job' = [job EXCEPT ![p] = j2] /\ Type(f, s) # "DIR"
    BY <1>1, <1>2, <1>6, <2>1, <2>2, <2>3 DEF path_link_begin
  <2>5. LockStep(p, s, f)
    BY <1>2, <1>3, <1>4, LockFacts
  <2>6. f \in FS /\ RelinkedRes(f, s, 1, g) /\ SameRefs(f, g)
    BY <1>4, <2>1, <2>5, RelinkedFacts DEF LockStep
  <2>7. Good(TRUE, ~uncounted, g, file, job) /\ g \in FS
    BY <1>4, <2>5, <2>6, GoodSame DEF LockStep, RelinkedRes
  <2>8. LiveIn(g, 1) /\ g.slot[1].num = ROOT
    <3>1. RefOK(g, file, job)
      BY <2>7 DEF Good
    <3> QED
      BY <2>7, <3>1, RootLive
  <2>9. j2.at = "walk" /\ j2.old = s
    BY <1>4, <2>3 DEF Job
  <2>10. PICK n : n = f.slot[s].num /\ n \in Inums
    BY <2>5 DEF LockStep
  <2>11. PICK m2 : m2 = Owe(OwedIn(fs, job), n, 1)
    OBVIOUS
  <2>12. ASSUME ~uncounted PROVE Changed(p, j2, m2)
    <3>1. LinkOn(fs, OwedIn(fs, job), unwritten, {}) /\ cwd[p] = 1
      BY <1>3, <2>12, LinkNow DEF RefInv
    <3>2. PICK c, h, m, W, Q, Z : c = fs /\ h = fs' /\ m = OwedIn(fs, job) /\ W = unwritten /\ Q = Others(job, p) /\ Z = {}
      OBVIOUS
    <3>3. LinkOn(c, m, W, Z) /\ ~BadInode(c, s) /\ f = Locked(c, s) /\ h = Started(p, g, abs)
      BY <1>2, <1>3, <2>4, <3>1, <3>2
    <3>4. /\ LinkOn(f, m, W, Z) /\ Up(c, f, Q, {}) /\ LiveIn(f, s) /\ f.slot[s].valid /\ c.slot[s].num = n
          /\ f.slot[s].type = TypeOf(f, n) /\ f.inode = c.inode
      BY <1>4, <2>10, <3>3, LockLink
    <3>5. TypeOf(c, n) = "FILE"
      <4>1. TypeOf(f, n) # "UNUSED"
        BY <1>4, <2>10, <3>4 DEF LinkOn, SlotLinks
      <4>2. TypeOf(f, n) # "DIR" /\ TypeOf(c, n) = TypeOf(f, n)
        BY <2>4, <3>4 DEF Type, TypeOf
      <4>3. TypeOf(f, n) \in Types
        BY <2>6, <2>10 DEF FS, DiskInode, TypeOf
      <4> QED
        BY <4>1, <4>2, <4>3 DEF Types
    <3>6. LinkOn(g, m2, W, {}) /\ Up(f, g, Q, {})
      <4>1. LinkOn(f, m, W, {}) /\ m2 = Owe(m, n, 1) /\ 1 \in Int
        BY <2>11, <3>2, <3>4
      <4> QED
        BY <1>4, <2>6, <2>10, <3>4, <4>1, RelinkOld
    <3>7. LinkOn(h, m2, W, {}) /\ Up(g, h, Q, {})
      BY <2>8, <3>1, <3>3, <3>6, StartLink
    <3>8. Up(c, h, Q, {}) /\ Down(h, h)
      BY <3>4, <3>6, <3>7, UpTrans, DownSame
    <3>9. \E e, D : Via(p, e, D)
      BY <1>3, <3>2, <3>8, ViaFacts
    <3>10. Placed(fs', lock', j2, p)
      BY <2>9 DEF Placed
    <3>11. h.slot[s].num = n /\ TypeOf(h, n) = "FILE"
      BY <1>4, <2>10, <3>4, <3>5, <3>8, Sizes DEF Up
    <3>12. OldFile(fs', j2)
      BY <2>9, <3>2, <3>11 DEF OldFile
    <3>13. job'[p] = j2
      BY <2>4 DEF RefInv
    <3>14. ASSUME NEW k \in Inums
           PROVE  m2[k] + One(p \in OldAt(fs, job, k)) = OwedIn(fs, job)[k] + One(p \in OldAt(fs', job', k))
      <4>1. p \notin OldAt(fs, job, k)
        BY <1>4 DEF OldAt
      <4>2. p \in OldAt(fs', job', k) <=> k = n
        <5>1. s # NoSlot
          BY <1>4, Sizes
        <5> QED
          BY <2>9, <3>2, <3>11, <3>13, <5>1 DEF OldAt
      <4>3. m \in [Inums -> Int] /\ m2[n] = m[n] + 1 /\ (k # n => m2[k] = m[k])
        <5>1. m \in [Inums -> Int] /\ m2 = Owe(m, n, 1) /\ 1 \in Int
          BY <2>11, <3>2, OwedType
        <5> QED
          BY <2>10, <5>1 DEF Owe
      <4> QED
        BY <3>2, <4>1, <4>2, <4>3 DEF One
    <3> QED
      BY <1>3, <3>2, <3>7, <3>9, <3>10, <3>12, <3>14 DEF Changed, flags
  <2> QED
    BY <1>3, <2>4, <2>12, ChangeInv DEF flags
<1> QED
  BY <1>5, <1>6

\* The last link a process owes is one.
LEMMA OwesOne ==
    ASSUME NEW f, NEW J, NEW n \in Inums, NEW p \in Procs, p \in OldAt(f, J, n)
    PROVE  OwedIn(f, J)[n] >= 1
<1>1. IsFiniteSet(OldAt(f, J, n))
  BY DirAssumption, FS_Subset DEF OldAt
<1>2. Cardinality(OldAt(f, J, n)) \in Nat /\ Cardinality(OldAt(f, J, n)) # 0
  BY <1>1, FS_CardinalityType, FS_EmptySet
<1> QED
  BY <1>2, OwedType

\* What the return of path_link does to what is owed.
Repaid(f, J, h, J2, m2, p) ==
    /\ \A k \in Inums : m2[k] >= 0
    /\ \A k \in Inums : m2[k] + One(p \in OldAt(f, J, k)) = OwedIn(f, J)[k] + One(p \in OldAt(h, J2, k))

LEMMA OwesLess ==
    ASSUME NEW f, NEW J, NEW h, NEW J2, NEW n \in Inums, NEW p \in Procs, J[p].old # NoSlot, f.slot[J[p].old].num = n,
           J2[p].old = NoSlot, NEW m2, m2 = Owe(OwedIn(f, J), n, -1)
    PROVE  Repaid(f, J, h, J2, m2, p)
<1>1. PICK m : m = OwedIn(f, J)
  OBVIOUS
<1>2. m \in [Inums -> Int] /\ (\A k \in Inums : m[k] >= 0) /\ m2 = Owe(m, n, -1) /\ -1 \in Int
  BY <1>1, OwedType
<1>3. m2[n] = m[n] + (-1) /\ (\A k \in Inums : k # n => m2[k] = m[k])
  BY <1>2 DEF Owe
<1>4. m[n] >= 1
  BY <1>1, OwesOne DEF OldAt
<1>5. ASSUME NEW k \in Inums PROVE p \notin OldAt(h, J2, k) /\ (p \in OldAt(f, J, k) <=> k = n)
  BY DEF OldAt
<1> QED
  BY <1>1, <1>2, <1>3, <1>4, <1>5 DEF One, Repaid

LEMMA path_link_undo_link ==
    ASSUME RefInv, RefInv', LinkInv, NEW p \in Procs, NEW at, at \in {"undo", "undo_write"}, path_link_undo(p, at)
    PROVE  LinkInv'
<1>1. PICK s : s = job[p].old
  OBVIOUS
<1>2. PICK f : f = Locked(fs, s)
  OBVIOUS
<1>3. PICK g : g = IF at = "undo" THEN Linked(f, s, -1) ELSE Relinked(f, s, -1)
  OBVIOUS
<1>4. /\ Intact /\ job[p].at = at /\ job[p].drop = NoSlot /\ ~BadInode(fs, s)
      /\ fs' = Freed(g, s) /\ Return(p, Dropping(g, s))
      /\ unwritten' = unwritten \cup {n \in {f.slot[s].num} : at = "undo"}
      /\ UNCHANGED <<lock, cwd, file, calls, halted, stolen, doubled, orphaned, uncounted>>
  BY <1>1, <1>2, <1>3 DEF path_link_undo, CanLock, Ready
<1>5. s \in Slots /\ s # NoSlot
  BY <1>1, <1>4, Now DEF Shape, MaybeSlots
<1>6. LockStep(p, s, f)
  BY <1>2, <1>4, <1>5, LockFacts
<1>7. PICK n : n = f.slot[s].num /\ n \in Inums
  BY <1>6 DEF LockStep
<1>8. PICK d : d = Dropping(g, s) /\ d \in MaybeSlots
  BY <1>5, DroppingType
<1>9. PICK j2 : j2 = [Idle EXCEPT !.drop = d]
  OBVIOUS
<1>10. j2.ip = NoSlot /\ j2.old = NoSlot /\ Shape(file[p], j2)
  BY <1>8, <1>9, IdleFacts
<1>11. job' = [job EXCEPT ![p] = j2]
  BY <1>4, <1>8, <1>9 DEF Return
<1>12. PICK m2 : m2 = Owe(OwedIn(fs, job), n, -1)
  OBVIOUS
<1>13. ASSUME ~uncounted PROVE Changed(p, j2, m2)
  <2>1. LinkOn(fs, OwedIn(fs, job), unwritten, {}) /\ OldFile(fs, job[p])
    BY <1>4, <1>13, LinkNow
  <2>2. PICK c, h, m, W, W2, Q, Z, J, J2 : /\ c = fs /\ h = fs' /\ m = OwedIn(fs, job) /\ W = unwritten /\ W2 = unwritten'
                                    /\ Q = Others(job, p) /\ Z = {} /\ J = job /\ J2 = job'
    OBVIOUS
  <2>3. LinkOn(c, m, W, Z) /\ ~BadInode(c, s) /\ f = Locked(c, s) /\ h = Freed(g, s)
    BY <1>2, <1>4, <2>1, <2>2
  <2>4. /\ LinkOn(f, m, W, Z) /\ Up(c, f, Q, {}) /\ LiveIn(f, s) /\ f.slot[s].valid /\ c.slot[s].num = n
        /\ f.inode = c.inode
    BY <1>5, <1>7, <2>3, LockLink
  <2>5. TypeOf(f, n) = "FILE"
    <3>1. TypeOf(c, n) = "FILE"
      BY <1>1, <1>5, <2>1, <2>2, <2>4 DEF OldFile
    <3> QED
      BY <2>4, <3>1 DEF TypeOf
  <2>6. J2[p] = j2 /\ J2[p].old = NoSlot
    BY <1>10, <1>11, <2>2 DEF RefInv
  <2>7. /\ m2 = Owe(m, n, -1) /\ (\A k \in Inums : m2[k] >= 0) /\ m[n] >= 1
        /\ \A k \in Inums : m2[k] + One(p \in OldAt(c, J, k)) = OwedIn(c, J)[k] + One(p \in OldAt(h, J2, k))
    <3>1. J[p].old = s /\ m = OwedIn(c, J) /\ m2 = Owe(OwedIn(c, J), n, -1)
      BY <1>1, <1>12, <2>2
    <3>2. J[p].old # NoSlot /\ c.slot[J[p].old].num = n
      BY <1>5, <2>4, <3>1
    <3>3. m[n] >= 1
      BY <1>7, <3>1, <3>2, OwesOne DEF OldAt
    <3>4. Repaid(c, J, h, J2, m2, p)
      <4>1. J[p].old # NoSlot /\ c.slot[J[p].old].num = n /\ J2[p].old = NoSlot /\ m2 = Owe(OwedIn(c, J), n, -1)
        BY <2>6, <3>1, <3>2
      <4> QED
        BY <1>7, <4>1, OwesLess
    <3> QED
      BY <3>1, <3>3, <3>4 DEF Repaid
  <2>8. f \in FS /\ -1 \in Int
    BY <1>6 DEF LockStep
  <2>9. LinkOn(g, m2, W2, {}) /\ Up(f, g, Q, {}) /\ g.slot[s].ref >= 1
    <3>1. CASE at = "undo"
      <4>1. LinkedRes(f, s, -1, g)
        BY <1>3, <1>5, <2>8, <3>1, LinkedFacts
      <4>2. LinkOn(g, m2, W \cup {n}, Z) /\ Up(f, g, Q, {})
        BY <1>5, <1>7, <2>4, <2>5, <2>7, <4>1, UnwriteLink
      <4>3. W2 = W \cup {n}
        BY <1>4, <1>7, <2>2, <3>1
      <4>4. g.slot[s].ref >= 1
        BY <1>5, <1>6, <4>1 DEF LinkedRes, Kept, LockStep
      <4> QED
        BY <2>2, <4>2, <4>3, <4>4
    <3>2. CASE at # "undo"
      <4>1. RelinkedRes(f, s, -1, g)
        BY <1>3, <1>5, <2>8, <3>2, RelinkedFacts
      <4>2. LinkOn(f, m, W, {})
        BY <2>2, <2>4
      <4>3. LinkOn(g, m2, W, {}) /\ Up(f, g, Q, {})
        BY <1>5, <1>7, <2>4, <2>7, <2>8, <4>1, <4>2, RelinkOld
      <4>4. W2 = W
        BY <1>4, <2>2, <3>2
      <4>5. g.slot[s].ref >= 1
        BY <1>5, <1>6, <4>1 DEF RelinkedRes, Kept, LockStep
      <4> QED
        BY <4>3, <4>4, <4>5
    <3> QED
      BY <3>1, <3>2
  <2>10. LinkOn(h, m2, W2, {}) /\ Down(g, h)
    BY <1>5, <2>3, <2>7, <2>9, FreeCall
  <2>11. Up(c, g, Q, {})
    BY <2>4, <2>9, UpTrans
  <2>12. \E e, D : Via(p, e, D)
    BY <1>4, <2>2, <2>10, <2>11, ViaFacts
  <2>13. Placed(fs', lock', j2, p) /\ OldFile(fs', j2)
    BY <1>10, NullPlaced DEF OldFile
  <2> QED
    BY <2>2, <2>7, <2>10, <2>12, <2>13 DEF Changed
<1> QED
  BY <1>4, <1>11, <1>13, ChangeInv

\* Nobody else has locked the directory of a slot that nobody else has locked.
LEMMA LockedElse ==
    ASSUME RefInv, LinkInv, Intact, ~uncounted, NEW p \in Procs, NEW s \in Slots, LiveIn(fs, s), lock[s] \in {p, None},
           NEW q \in Procs, q # p, job[q].at \in {"check", "remove"}
    PROVE  fs.slot[job[q].dp].num # fs.slot[s].num
<1>1. PICK t \in Slots : t = job[q].dp
  BY DirFacts
<1>2. lock[t] = q /\ OneOK(fs)
  BY <1>1, LinkNow DEF Placed
<1>3. LiveIn(fs, t)
  <2>1. fs.slot[t].num # U /\ fs.slot[t].ref >= 1 /\ fs \in FS
    BY <1>1, DirFacts, Now
  <2> QED
    BY <2>1 DEF LiveIn, FS, Slot
<1>4. t # s
  BY <1>2, DirAssumption
<1> QED
  BY <1>1, <1>2, <1>3, <1>4 DEF OneOK

\* A step that changes the entries of the directory in a slot that nobody
\* else has locked.
LEMMA ViaDir ==
    ASSUME RefInv, LinkInv, Intact, ~uncounted, NEW p \in Procs, NEW s \in Slots, LiveIn(fs, s), lock[s] \in {p, None},
           NEW d, d = fs.slot[s].num, NEW g, Up(fs, g, Others(job, p), {d}), Down(g, fs'),
           \A q \in Procs, t \in Slots : q # p /\ lock[t] = q => lock'[t] = q
    PROVE  \E h, D : Via(p, h, D)
<1>1. \A q \in Procs : q # p /\ job[q].at \in {"check", "remove"} => fs.slot[job[q].dp].num \notin {d}
  BY LockedElse
<1>2. Via(p, g, {d})
  BY <1>1 DEF Via
<1> QED
  BY <1>2

\* The entry of a file pays for one link.
LEMMA PayFile ==
    ASSUME NEW f, NEW m \in [Inums -> Int], NEW d \in Inums, NEW n \in Inums, TypeOf(f, n) = "FILE"
    PROVE  Pay(f, m, d, n) = Owe(m, n, -1)
<1>1. ASSUME NEW k \in Inums PROVE m[k] - Linking(f, d, n, k) = IF k = n THEN m[k] + (-1) ELSE m[k]
  <2>1. Linking(f, d, n, k) = One(k = n) + 0
    BY DEF Linking, One
  <2> QED
    BY <2>1 DEF One
<1> QED
  BY <1>1 DEF Pay, Owe

\* Where the parent of a link is a directory that is linked itself.
LEMMA LinkEnd ==
    ASSUME NEW c, NEW m, NEW W, LinkOn(c, m, W, {}), NEW s \in Slots, ~BadInode(c, s), NEW f, f = Locked(c, s),
           c.slot[s].valid, c.slot[s].type = "DIR", NEW d \in Inums, d = f.slot[s].num, f.slot[s].nlink # 0, m[d] = 0,
           NEW x \in Names, f.entry[d][x] = U, NEW n \in Inums, TypeOf(f, n) = "FILE",
           NEW g, AddRes(f, s, x, n, g), NEW m2, m2 = Owe(m, n, -1), NEW Q
    PROVE  LinkOn(g, m2, W, {}) /\ Up(c, g, Q, {d})
<1>1. PICK Z : Z = {}
  OBVIOUS
<1>2. LinkOn(c, m, W, Z)
  BY <1>1
<1>3. LinkOn(f, m, W, Z) /\ Up(c, f, Q, {d}) /\ LiveIn(f, s) /\ f.slot[s].valid
  BY <1>2, LockLink
<1>4. f.slot[s].type = "DIR" /\ m \in [Inums -> Int]
  BY <1>2 DEF Locked, LinkOn
<1>5. d = ROOT \/ NamedIn(f, d) # {}
  BY <1>3, <1>4, LinkedDir
<1>6. LinkOn(f, m, W, {})
  BY <1>1, <1>3
<1>7. LinkOn(g, Pay(f, m, d, n), W, {}) /\ Up(f, g, Q, {d})
  BY <1>3, <1>4, <1>5, <1>6, AddLink
<1> QED
  BY <1>3, <1>4, <1>7, PayFile, UpTrans

\* Two calls of inode_free with nothing owed to others.
LEMMA FreeTwice ==
    ASSUME NEW g, NEW m, NEW W, LinkOn(g, m, W, {}), \A n \in Inums : m[n] >= 0, NEW s \in Slots, NEW o \in Slots,
           NEW e, FreedRes(g, s, e), NEW h, FreedRes(e, o, h)
    PROVE  LinkOn(h, m, W, {}) /\ Down(g, h)
<1>1. PICK Z : Z = {}
  OBVIOUS
<1>2. LinkOn(g, m, W, Z)
  BY <1>1
<1>3. LinkOn(e, m, W, Z) /\ Down(g, e)
  BY <1>2, FreeLink
<1>4. LinkOn(h, m, W, Z) /\ Down(e, h)
  BY <1>3, FreeLink
<1> QED
  BY <1>1, <1>3, <1>4, DownTrans

LEMMA path_link_end_link ==
    ASSUME RefInv, RefInv', LinkInv, NEW p \in Procs, path_link_end(p)
    PROVE  LinkInv'
<1>1. PICK s, o : s = job[p].ip /\ o = job[p].old
  OBVIOUS
<1>2. PICK f : f = Locked(fs, s)
  OBVIOUS
<1>3. PICK x : x = Head(job[p].path)
  OBVIOUS
<1>4. PICK g : g = dir_add_entry(f, s, x, f.slot[o].num)
  OBVIOUS
<1>5. /\ Intact /\ job[p].at = "parent" /\ job[p].drop = NoSlot /\ ~BadInode(fs, s) /\ job[p].call = "link"
      /\ lock[s] = None
      /\ UNCHANGED <<lock, cwd, file, calls, halted, stolen, doubled, uncounted, unwritten>>
  BY <1>1, <1>2 DEF path_link_end, CanLock, Ready
<1>6. s \in Slots /\ job[p].dp = NoSlot /\ job[p] \in Job /\ o \in Slots /\ job[p].path # <<>>
  BY <1>1, <1>5, StandsSlot, Now DEF Shape, ForParent, MaybeSlots
<1>7. LockStep(p, s, f)
  BY <1>2, <1>5, <1>6, LockFacts
<1>8. CASE /\ fs' = Freed(f, s)
           /\ job' = [job EXCEPT ![p] = [Idle EXCEPT !.at = "undo", !.old = o, !.drop = Dropping(f, s)]]
           /\ orphaned' = orphaned
  <2>1. PICK d : d = Dropping(f, s) /\ d \in MaybeSlots
    BY <1>6, DroppingType
  <2>2. PICK j2 : j2 = UndoJob("undo", o, d)
    OBVIOUS
  <2>3. j2 \in Job /\ j2.ip = NoSlot /\ j2.dp = NoSlot /\ j2.old = o /\ j2.drop = d /\ Shape(file[p], j2)
    BY <1>6, <2>1, <2>2, UndoFacts
  <2>4. job' = [job EXCEPT ![p] = j2]
    BY <1>8, <2>1, <2>2 DEF UndoJob
  <2>5. NullRes(p, d, j2)
    BY <1>1, <2>3, <2>4 DEF NullRes
  <2> QED
    BY <1>2, <1>5, <1>6, <1>8, <2>5, LockFreeInv
<1>9. CASE /\ Entry(f, s, x) = INODE_NUM_UNUSED /\ fs' = Freed(Freed(g, s), o) /\ Return(p, Dropping(g, s))
           /\ orphaned' = (f.slot[s].nlink = 0)
  <2>1. f \in FS /\ f.slot[s].num \in Inums /\ x \in Names /\ f.slot[o].num \in Inums \cup {U}
    BY <1>3, <1>6, <1>7, NameHead, Sizes DEF LockStep, FS, Slot
  <2>2. AddRes(f, s, x, f.slot[o].num, g) /\ SameRefs(f, g)
    BY <1>4, <1>6, <2>1, AddFacts
  <2>3. Good(TRUE, ~uncounted, g, file, job)
    BY <1>7, <2>2, GoodSame DEF LockStep, AddRes
  <2>4. PICK r : r = Dropping(g, s) /\ r \in MaybeSlots
    BY <1>6, DroppingType
  <2>5. PICK j2 : j2 = [Idle EXCEPT !.drop = r]
    OBVIOUS
  <2>6. j2.ip = NoSlot /\ j2.dp = NoSlot /\ j2.old = NoSlot /\ j2.drop = r /\ Shape(file[p], j2)
    BY <2>4, <2>5, IdleFacts
  <2>7. job' = [job EXCEPT ![p] = j2]
    BY <1>9, <2>4, <2>5 DEF Return
  <2>8. PICK n : n = f.slot[o].num /\ n \in Inums
    <3>1. Solid(file[p], job[p], o)
      BY <1>1 DEF Solid
    <3>2. fs.slot[o].num # U /\ fs \in FS
      BY <1>5, <1>6, <3>1, Now DEF RefOK
    <3>3. f.slot[o].num = fs.slot[o].num
      BY <1>6, <1>7 DEF LockStep, LockedRes, Only
    <3> QED
      BY <2>1, <3>2, <3>3
  <2>9. PICK d : d = f.slot[s].num /\ d \in Inums /\ d = fs.slot[s].num
    BY <1>7 DEF LockStep
  <2>10. PICK F, J, J2, b, c, e, h : /\ F = file /\ J = job /\ J2 = job' /\ b = ~uncounted /\ c = fs
                                     /\ e = Freed(g, s) /\ h = fs'
    OBVIOUS
  <2>11. FreedRes(g, s, e) /\ FreedRes(e, o, h) /\ J2[p].old = NoSlot
    <3>1. Good(TRUE, b, g, F, J)
      BY <2>3, <2>10
    <3>2. OnlyProc(F, J, F, J2, p) /\ J2[p] = j2
      BY <2>7, <2>10, JobOnly
    <3>3. J[p].ip = s /\ J[p].dp = NoSlot /\ J[p].old = o /\ J[p].drop = NoSlot
      BY <1>1, <1>5, <1>6, <2>10
    <3>4. J2[p].ip = NoSlot /\ J2[p].dp = NoSlot /\ J2[p].old = NoSlot /\ J2[p].drop = Dropping(g, s)
      BY <2>4, <2>6, <3>2
    <3>5. e = Freed(g, s) /\ h = Freed(e, o) /\ s \in Slots /\ o \in Slots
      BY <1>6, <1>9, <2>10
    <3>6. FreedRes(g, s, e) /\ FreedRes(e, o, h)
      BY <3>1, <3>2, <3>3, <3>4, <3>5, GoodFreeTwo
    <3> QED
      BY <3>4, <3>6
  <2>12. PICK m2 : m2 = Owe(OwedIn(fs, job), n, -1)
    OBVIOUS
  <2>13. ASSUME Intact', ~uncounted PROVE Changed(p, j2, m2)
    <3>1. LinkOn(fs, OwedIn(fs, job), unwritten, {}) /\ (\A q \in Procs : OldFile(fs, job[q])) /\ Placed(fs, lock, job[p], p)
      BY <1>5, <2>13, LinkNow
    <3>2. PICK m, W, Q : m = OwedIn(fs, job) /\ W = unwritten /\ Q = Others(job, p)
      OBVIOUS
    <3>3. LinkOn(c, m, W, {}) /\ ~BadInode(c, s) /\ f = Locked(c, s) /\ c.slot[s].valid /\ c.slot[s].type = "DIR"
      BY <1>1, <1>2, <1>5, <2>10, <3>1, <3>2 DEF Placed
    <3>4. LiveIn(c, s) /\ TypeOf(c, d) = "DIR" /\ c.slot[o].num = n /\ f.inode = c.inode
      <4>1. PICK Z : Z = {}
        OBVIOUS
      <4>2. LinkOn(c, m, W, Z)
        BY <3>3, <4>1
      <4>3. Up(c, f, Q, {}) /\ LiveIn(c, s) /\ f.inode = c.inode /\ f.slot[s].type = TypeOf(f, d)
        <5>1. ~BadInode(c, s) /\ f = Locked(c, s)
          BY <3>3
        <5>2. Up(c, f, Q, {}) /\ LiveIn(c, s) /\ f.inode = c.inode /\ f.slot[s].type = TypeOf(f, f.slot[s].num)
          BY <1>6, <4>2, <5>1, LockLink
        <5> QED
          BY <2>9, <5>2
      <4>4. f.slot[s].type = "DIR"
        BY <3>3 DEF Locked
      <4>5. c.slot[o].num = n
        BY <1>6, <1>7, <2>8, <2>10 DEF LockStep, LockedRes, Only
      <4> QED
        BY <4>3, <4>4, <4>5 DEF TypeOf
    <3>5. m[d] = 0
      <4>1. TypeOf(c, d) # "FILE" /\ m = OwedIn(c, J) /\ \A q \in Procs : OldFile(c, J[q])
        BY <2>10, <3>1, <3>2, <3>4
      <4> QED
        BY <2>9, <4>1, OwedNone
    <3>6. TypeOf(f, n) = "FILE"
      <4>1. TypeOf(c, n) = "FILE"
        BY <1>1, <1>6, <2>10, <3>1, <3>4, Sizes DEF OldFile
      <4> QED
        BY <3>4, <4>1 DEF TypeOf
    <3>7. f.slot[s].nlink # 0 /\ f.entry[d][x] = U /\ AddRes(f, s, x, n, g) /\ m2 = Owe(m, n, -1)
      BY <1>9, <2>2, <2>8, <2>9, <2>12, <2>13, <3>2, Sizes DEF Intact, Entry
    <3>8. LinkOn(g, m2, W, {}) /\ Up(c, g, Q, {d})
      BY <1>6, <2>1, <2>8, <2>9, <3>3, <3>5, <3>6, <3>7, LinkEnd, ZenonT(40)
    <3>9. Repaid(c, J, h, J2, m2, p)
      <4>1. J[p].old # NoSlot /\ c.slot[J[p].old].num = n /\ J2[p].old = NoSlot /\ m2 = Owe(OwedIn(c, J), n, -1)
        BY <1>1, <1>6, <2>10, <2>11, <2>12, <3>4, Sizes
      <4> QED
        BY <2>8, <4>1, OwesLess
    <3>10. LinkOn(h, m2, W, {}) /\ Down(g, h)
      <4>1. \A k \in Inums : m2[k] >= 0
        BY <3>9 DEF Repaid
      <4> QED
        BY <1>6, <2>11, <3>8, <4>1, FreeTwice
    <3>11. \E i, D : Via(p, i, D)
      <4>1. Up(fs, g, Others(job, p), {d}) /\ Down(g, fs') /\ LiveIn(fs, s) /\ d = fs.slot[s].num /\ lock[s] \in {p, None}
        BY <1>5, <2>9, <2>10, <3>2, <3>4, <3>8, <3>10
      <4> QED
        BY <1>5, <1>6, <2>13, <4>1, ViaDir
    <3>12. Placed(fs', lock', j2, p) /\ OldFile(fs', j2)
      BY <2>6, NullPlaced DEF OldFile
    <3>13. \A k \in Inums : m2[k] + One(p \in OldAt(fs, job, k)) = OwedIn(fs, job)[k] + One(p \in OldAt(fs', job', k))
      BY <2>10, <3>9 DEF Repaid
    <3> QED
      BY <1>5, <2>10, <3>2, <3>10, <3>11, <3>12, <3>13 DEF Changed
  <2> QED
    BY <1>5, <2>7, <2>13, ChangeInv
<1>10. \/ /\ fs' = Freed(f, s)
          /\ job' = [job EXCEPT ![p] = [Idle EXCEPT !.at = "undo", !.old = o, !.drop = Dropping(f, s)]]
          /\ orphaned' = orphaned
       \/ /\ Entry(f, s, x) = INODE_NUM_UNUSED /\ fs' = Freed(Freed(g, s), o) /\ Return(p, Dropping(g, s))
          /\ orphaned' = (f.slot[s].nlink = 0)
  BY <1>1, <1>2, <1>3, <1>4 DEF path_link_end
<1> QED
  BY <1>8, <1>9, <1>10

\* A new inode that is locked and has its first link.
MadeLink(c, m, W, n, type, k, d, f4, Q) ==
    /\ LinkOn(f4, Owe(m, n, 1), W, {}) /\ Up(c, f4, Q, {d}) /\ f4.slot[k] = c.slot[k] /\ TypeOf(f4, n) = type
    /\ f4.entry[d] = c.entry[d] /\ NamedIn(f4, d) = NamedIn(c, d) /\ n # d

InodePart(c, m, W, n, b, type, f, k, d, s, f2, f3, f4, Q) ==
    /\ LinkOn(c, m, W, {}) /\ n \in Inums /\ type \in {"DIR", "FILE"} /\ k \in Slots /\ d \in Inums
    /\ FreshRes(c, b, n, type, f) /\ TypeOf(c, n) = "UNUSED" /\ m[n] = 0 /\ d = c.slot[k].num /\ LiveIn(c, k)
    /\ s = GotSlot(f, n) /\ CanGet(f, n) /\ f2 = Got(f, n) /\ f3 = Locked(f2, s) /\ RelinkedRes(f3, s, 1, f4)
    /\ (n # U /\ Hits(f, n) = {} => GotSlot(f, n) \notin Q)

LEMMA MadeInode ==
    ASSUME NEW c, NEW m, NEW W, NEW n, NEW b, NEW type, NEW f, NEW k, NEW d, NEW s, NEW f2, NEW f3, NEW f4, NEW Q,
           InodePart(c, m, W, n, b, type, f, k, d, s, f2, f3, f4, Q)
    PROVE  MadeLink(c, m, W, n, type, k, d, f4, Q)
<1> SUFFICES ASSUME LinkOn(c, m, W, {}), n \in Inums, type \in {"DIR", "FILE"}, k \in Slots, d \in Inums,
                    FreshRes(c, b, n, type, f), TypeOf(c, n) = "UNUSED", m[n] = 0, d = c.slot[k].num, LiveIn(c, k),
                    s = GotSlot(f, n), CanGet(f, n), f2 = Got(f, n), f3 = Locked(f2, s), RelinkedRes(f3, s, 1, f4),
                    n # U /\ Hits(f, n) = {} => GotSlot(f, n) \notin Q
             PROVE  MadeLink(c, m, W, n, type, k, d, f4, Q)
  BY DEF InodePart
<1>1. LinkOn(f, m, W, {n}) /\ Up(c, f, Q, {d}) /\ TypeOf(f, n) = type /\ \A i : NamedIn(f, i) = NamedIn(c, i)
  BY FreshLink
<1>2. n # d
  <2>1. SlotLinks(c, m, W, k)
    BY DEF LinkOn
  <2> QED
    BY <2>1 DEF SlotLinks
<1>3. c \in FS /\ f.slot = c.slot /\ f.entry[d] = c.entry[d]
  BY <1>2 DEF LinkOn, FreshRes, FS
<1>4. PICK Z : Z = {n}
  OBVIOUS
<1>5. LinkOn(f, m, W, Z) /\ n \in Inums \cup {U} /\ (n # U => TypeOf(f, n) # "UNUSED")
  BY <1>1, <1>4
<1>6. LinkOn(f2, m, W, Z) /\ Up(f, f2, Q, {d}) /\ GotRes(f, n, f2) /\ s \in Slots
  BY <1>5, GotLink
<1>7. f2.slot[s].num = n /\ Only(f, f2, s) /\ f2.inode = f.inode /\ f2.entry = f.entry
  BY <1>6 DEF GotRes, SameDisk
<1>8. k # s
  <2>1. f.slot[k].num = d /\ d # U
    BY <1>3, Sizes
  <2>2. f2.slot[k].num = d
    BY <1>6, <2>1 DEF Up
  <2> QED
    BY <1>2, <1>7, <2>2
<1>9. f2.slot[k] = c.slot[k] /\ f2.slot[s].ref >= 1
  <2>1. f.slot[s].ref \in Nat
    BY <1>3, <1>6 DEF FS, Slot
  <2> QED
    BY <1>3, <1>6, <1>7, <1>8, <2>1 DEF GotRes, Only
<1>10. ~BadInode(f2, s)
  <2>1. f2.slot[s].num = n /\ f2.inode[n].type # "UNUSED" /\ f2.slot[s].ref \in Nat
    BY <1>1, <1>6, <1>7 DEF TypeOf, LinkOn, FS, Slot
  <2> QED
    BY <1>9, <2>1 DEF BadInode
<1>11. /\ LinkOn(f3, m, W, Z) /\ Up(f2, f3, Q, {d}) /\ LiveIn(f3, s) /\ f3.slot[s].valid /\ f3.slot[s].num = n
       /\ f3.inode = f2.inode /\ f3.entry = f2.entry
  <2>1. /\ LinkOn(f3, m, W, Z) /\ Up(f2, f3, Q, {d}) /\ LiveIn(f3, s) /\ f3.slot[s].valid
        /\ f3.slot[s].num = f2.slot[s].num /\ f3.inode = f2.inode /\ f3.entry = f2.entry
    BY <1>6, <1>10, LockLink
  <2> QED
    BY <1>7, <2>1
<1>12. f3.slot[k] = c.slot[k]
  <2>1. f2 \in FS
    BY <1>6 DEF LinkOn
  <2>2. LockedRes(f2, s, f3)
    BY <1>6, <1>10, <2>1, LockedFacts
  <2> QED
    BY <1>8, <1>9, <2>2 DEF LockedRes, Only
<1>13. LinkOn(f4, Owe(m, n, 1), W, Z \ {n}) /\ Up(f3, f4, Q, {d})
  <2>1. 1 \in Int
    OBVIOUS
  <2> QED
    BY <1>6, <1>11, <2>1, RelinkLink
<1>14. Z \ {n} = {}
  BY <1>4
<1>15. f4.slot[k] = c.slot[k] /\ f4.entry = f.entry
  BY <1>7, <1>8, <1>11, <1>12 DEF RelinkedRes, Only
<1>16. NamedIn(f4, d) = NamedIn(c, d)
  BY <1>1, <1>15 DEF NamedIn
<1>17. Up(f, f4, Q, {d})
  BY <1>6, <1>11, <1>13, UpTrans
<1>18. TypeOf(f4, n) = type
  BY <1>1, <1>17 DEF Up
<1>19. Up(c, f4, Q, {d})
  BY <1>1, <1>17, UpTrans
<1> QED
  BY <1>2, <1>3, <1>13, <1>14, <1>15, <1>16, <1>18, <1>19 DEF MadeLink

\* The links of the new inode and of its directory are those that were counted.
NewOwed(f, m, d, n, m5) == IF TypeOf(f, n) = "DIR" THEN m5 = Owe(Owe(m, n, 1), d, 1) ELSE m5 = Owe(m, n, 1)
LEMMA PayNew ==
    ASSUME NEW f, NEW m \in [Inums -> Int], NEW d \in Inums, NEW n \in Inums, n # d, NEW m5 \in [Inums -> Int],
           NewOwed(f, m, d, n, m5)
    PROVE  Pay(f, m5, d, n) = m
<1>1. PICK m4 : m4 = Owe(m, n, 1)
  OBVIOUS
<1>2. m4 \in [Inums -> Int] /\ m4[n] = m[n] + 1 /\ \A i \in Inums : i # n => m4[i] = m[i]
  BY <1>1 DEF Owe
<1>3. ASSUME NEW i \in Inums PROVE m5[i] - Linking(f, d, n, i) = m[i]
  <2>1. CASE TypeOf(f, n) = "DIR"
    <3>1. m5 = Owe(m4, d, 1)
      BY <1>1, <2>1 DEF NewOwed
    <3>2. m5[d] = m4[d] + 1 /\ (i # d => m5[i] = m4[i])
      <4>1. 1 \in Int
        OBVIOUS
      <4> QED
        BY <1>2, <3>1, <4>1, OweFacts
    <3>3. Linking(f, d, n, i) = One(i = n) + One(i = d)
      BY <2>1 DEF Linking
    <3> QED
      BY <1>2, <3>2, <3>3 DEF One
  <2>2. CASE TypeOf(f, n) # "DIR"
    <3>1. m5 = m4
      BY <1>1, <2>2 DEF NewOwed
    <3>2. Linking(f, d, n, i) = One(i = n) + 0
      BY <2>2 DEF Linking, One
    <3> QED
      BY <1>2, <3>1, <3>2 DEF One
  <2> QED
    BY <2>1, <2>2
<1>4. Pay(f, m5, d, n) = [i \in Inums |-> m[i]]
  BY <1>3 DEF Pay
<1> QED
  BY <1>4

\* The entry of the new inode.
EntryPart(c, m, W, n, type, k, d, x, f4, Q, f5, h) ==
    /\ LinkOn(c, m, W, {}) /\ n \in Inums /\ type \in {"DIR", "FILE"} /\ k \in Slots /\ d \in Inums /\ x \in Names
    /\ d = c.slot[k].num /\ LiveIn(c, k) /\ c.slot[k].valid /\ c.slot[k].type = "DIR" /\ c.slot[k].nlink # 0
    /\ m[d] = 0 /\ c.entry[d][x] = U /\ MadeLink(c, m, W, n, type, k, d, f4, Q)
    /\ (IF type = "DIR" THEN RelinkedRes(f4, k, 1, f5) ELSE f5 = f4) /\ AddRes(f5, k, x, n, h)

LEMMA MadeEntry ==
    ASSUME NEW c, NEW m, NEW W, NEW n, NEW type, NEW k, NEW d, NEW x, NEW f4, NEW Q, NEW f5, NEW h,
           EntryPart(c, m, W, n, type, k, d, x, f4, Q, f5, h)
    PROVE  LinkOn(h, m, W, {}) /\ Up(c, h, Q, {d})
<1> SUFFICES ASSUME LinkOn(c, m, W, {}), n \in Inums, type \in {"DIR", "FILE"}, k \in Slots, d \in Inums, x \in Names,
                    d = c.slot[k].num, LiveIn(c, k), c.slot[k].valid, c.slot[k].type = "DIR", c.slot[k].nlink # 0,
                    m[d] = 0, c.entry[d][x] = U, MadeLink(c, m, W, n, type, k, d, f4, Q),
                    IF type = "DIR" THEN RelinkedRes(f4, k, 1, f5) ELSE f5 = f4, AddRes(f5, k, x, n, h)
             PROVE  LinkOn(h, m, W, {}) /\ Up(c, h, Q, {d})
  BY DEF EntryPart
<1>1. /\ LinkOn(f4, Owe(m, n, 1), W, {}) /\ Up(c, f4, Q, {d}) /\ f4.slot[k] = c.slot[k] /\ TypeOf(f4, n) = type
      /\ f4.entry[d] = c.entry[d] /\ NamedIn(f4, d) = NamedIn(c, d) /\ n # d
  BY DEF MadeLink
<1>2. d = ROOT \/ NamedIn(c, d) # {}
  <2>1. PICK Z : Z = {}
    OBVIOUS
  <2>2. LinkOn(c, m, W, Z)
    BY <2>1
  <2> QED
    BY <2>2, LinkedDir
<1>3. LiveIn(f4, k) /\ f4.slot[k].valid /\ d = f4.slot[k].num /\ f4.slot[k].type = "DIR"
  BY <1>1 DEF LiveIn
<1>4. PICK m4 : m4 = Owe(m, n, 1)
  OBVIOUS
<1>5. PICK m5 : IF type = "DIR" THEN m5 = Owe(m4, d, 1) ELSE m5 = m4
  OBVIOUS
<1>6. /\ LinkOn(f5, m5, W, {}) /\ Up(f4, f5, Q, {d}) /\ LiveIn(f5, k) /\ f5.slot[k].valid /\ d = f5.slot[k].num
      /\ f5.slot[k].type = "DIR" /\ f5.entry = f4.entry
  <2>1. LinkOn(f4, m4, W, {})
    BY <1>1, <1>4
  <2>2. CASE type = "DIR"
    <3>1. m5 = Owe(m4, d, 1) /\ RelinkedRes(f4, k, 1, f5) /\ 1 \in Int
      BY <1>5, <2>2
    <3>2. LinkOn(f5, m5, W, {}) /\ Up(f4, f5, Q, {d})
      BY <1>3, <2>1, <3>1, RelinkOld
    <3> QED
      BY <1>3, <3>1, <3>2 DEF RelinkedRes, Kept, LiveIn
  <2>3. CASE type # "DIR"
    BY <1>3, <1>5, <2>1, <2>3, UpSame
  <2> QED
    BY <2>2, <2>3
<1>7. TypeOf(f5, n) = type
  BY <1>1, <1>6 DEF Up
<1>8. f5.entry[d][x] = U /\ TypeOf(f5, n) # "UNUSED" /\ NamedIn(f5, d) = NamedIn(c, d)
  BY <1>1, <1>6, <1>7 DEF NamedIn
<1>9. LinkOn(h, Pay(f5, m5, d, n), W, {}) /\ Up(f5, h, Q, {d})
  BY <1>2, <1>6, <1>8, AddLink
<1>10. Pay(f5, m5, d, n) = m
  <2>1. m \in [Inums -> Int] /\ m5 \in [Inums -> Int]
    BY <1>6 DEF LinkOn
  <2>2. NewOwed(f5, m, d, n, m5)
    BY <1>4, <1>5, <1>7 DEF NewOwed
  <2> QED
    BY <1>1, <2>1, <2>2, PayNew
<1>11. Up(c, h, Q, {d})
  BY <1>1, <1>6, <1>9, UpTrans
<1> QED
  BY <1>9, <1>10, <1>11

\* The parts of path_create_new up to the first inode_free.
LEMMA NewLink ==
    ASSUME RefInv, LinkInv, ~uncounted, NEW p \in Procs, NEW b, NEW n, NEW type, NEW k, NEW x, NEW s, NEW f, NEW f2,
           NEW f3, NEW f4, NEW f5, NEW h, NEW e, NewStep(p, b, n, type, k, x, s, f, f2, f3, f4, f5, h, e),
           ~Robs(p, f, n), fs.inode[n].type = "UNUSED", fs.slot[k].nlink # 0, NEW J2,
           NewRes(p, TRUE, ~uncounted, b, n, type, k, x, s, f, f2, f3, f4, f5, h, e, J2)
    PROVE  /\ LinkOn(h, OwedIn(fs, job), unwritten, {}) /\ Up(fs, h, Others(job, p), {fs.slot[k].num})
           /\ LiveIn(fs, k) /\ lock[k] = p
<1>1. Intact /\ job[p].at = "check" /\ fs.slot[job[p].ip].num = U /\ k = job[p].dp /\ x = Head(job[p].path)
  BY DEF NewStep
<1>2. s = GotSlot(f, n) /\ f2 = Got(f, n) /\ f3 = Locked(f2, s)
  BY DEF NewStep, Made
<1>3. /\ n \in Inums /\ k \in Slots /\ s \in Slots /\ x \in Names /\ type \in {"DIR", "FILE"}
      /\ FreshRes(fs, b, n, type, f) /\ CanGet(f, n) /\ RelinkedRes(f3, s, 1, f4)
      /\ (IF type = "DIR" THEN RelinkedRes(f4, k, 1, f5) ELSE f5 = f4) /\ AddRes(f5, k, x, n, h)
  BY DEF NewRes
<1>4. LinkOn(fs, OwedIn(fs, job), unwritten, {}) /\ (\A q \in Procs : OldFile(fs, job[q])) /\ Placed(fs, lock, job[p], p)
  BY <1>1, LinkNow
<1>5. fs.slot[k].ref >= 1 /\ fs.slot[k].num # U /\ fs.slot[k].num \in Inums /\ fs \in FS
  BY <1>1, DirFacts, Now
<1>6. PICK c, m, W, J, Q : c = fs /\ m = OwedIn(fs, job) /\ W = unwritten /\ J = job /\ Q = Others(job, p)
  OBVIOUS
<1>7. PICK d \in Inums : d = c.slot[k].num
  BY <1>5, <1>6
<1>8. LinkOn(c, m, W, {}) /\ m = OwedIn(c, J) /\ \A q \in Procs : OldFile(c, J[q])
  BY <1>4, <1>6
<1>9. lock[k] = p /\ c.slot[k].valid /\ c.slot[k].type = "DIR" /\ c.entry[d][x] = U /\ LiveIn(c, k)
  <2>1. c.slot[k].ref \in Nat
    BY <1>3, <1>5, <1>6 DEF FS, Slot
  <2>2. lock[k] = p /\ fs.slot[k].valid /\ fs.slot[k].type = "DIR"
        /\ fs.entry[fs.slot[k].num][x] = fs.slot[job[p].ip].num
    BY <1>1, <1>4 DEF Placed
  <2>3. LiveIn(c, k)
    BY <1>5, <1>6, <2>1 DEF LiveIn
  <2> QED
    BY <1>1, <1>6, <1>7, <2>2, <2>3
<1>10. TypeOf(c, d) = "DIR"
  <2>1. SlotLinks(c, m, W, k)
    BY <1>3, <1>8 DEF LinkOn
  <2> QED
    BY <1>7, <1>9, <2>1 DEF SlotLinks
<1>11. TypeOf(c, n) = "UNUSED" /\ c.slot[k].nlink # 0
  BY <1>6 DEF TypeOf
<1>12. m[d] = 0 /\ m[n] = 0
  BY <1>3, <1>8, <1>10, <1>11, OwedNone
<1>13. n # U /\ Hits(f, n) = {} => GotSlot(f, n) \notin Q
  BY <1>6, Sizes DEF Robs, Others
<1>14. FreshRes(c, b, n, type, f)
  BY <1>3, <1>6
<1>15. MadeLink(c, m, W, n, type, k, d, f4, Q)
  <2>1. InodePart(c, m, W, n, b, type, f, k, d, s, f2, f3, f4, Q)
    BY <1>2, <1>3, <1>7, <1>8, <1>9, <1>11, <1>12, <1>13, <1>14 DEF InodePart
  <2> QED
    BY <2>1, MadeInode
<1>16. LinkOn(h, m, W, {}) /\ Up(c, h, Q, {d})
  <2>1. EntryPart(c, m, W, n, type, k, d, x, f4, Q, f5, h)
    BY <1>3, <1>7, <1>8, <1>9, <1>11, <1>12, <1>15 DEF EntryPart
  <2> QED
    BY <2>1, MadeEntry
<1> QED
  BY <1>6, <1>7, <1>9, <1>16

LEMMA path_create_new_link ==
    ASSUME RefInv, RefInv', LinkInv, NEW p \in Procs, path_create_new(p)
    PROVE  LinkInv'
<1>1. PICK b, n, type, k, x, s, f, f2, f3, f4, f5, h, e :
              /\ NewStep(p, b, n, type, k, x, s, f, f2, f3, f4, f5, h, e)
              /\ NewEffect(p, n, k, s, f, h, e)
  BY NewStepFacts
<1>2. /\ fs' = (IF job[p].call = "mkdir" THEN Freed(e, s) ELSE e)
      /\ file' = (IF job[p].call = "mkdir" THEN file ELSE [file EXCEPT ![p] = s])
      /\ lock' = [lock EXCEPT ![k] = None] /\ Return(p, Dropping(h, k))
      /\ stolen' = Robs(p, f, n) /\ doubled' = (fs.inode[n].type # "UNUSED")
      /\ orphaned' = (fs.slot[k].nlink = 0)
      /\ UNCHANGED <<cwd, calls, halted, uncounted, unwritten>>
  BY <1>1 DEF NewEffect
<1>3. Intact /\ job[p].at = "check" /\ job[p].old = NoSlot /\ k = job[p].dp /\ k \in Slots
  BY <1>1, DirFacts DEF NewStep
<1>4. PICK d : d = Dropping(h, k) /\ d \in MaybeSlots
  BY <1>3, DroppingType
<1>5. PICK j2 : NullRes(p, d, j2)
  BY <1>2, <1>3, <1>4, ReturnFacts
<1>6. job' = [job EXCEPT ![p] = j2] /\ j2.old = job[p].old /\ Shape(file[p], j2) /\ j2.ip = NoSlot
  BY <1>5 DEF NullRes
<1>7. \A q \in Procs : q # p => file'[q] = file[q]
  BY <1>2 DEF RefInv
<1>8. ASSUME Intact', ~uncounted PROVE Quiet(p, j2)
  <2>1. ~Robs(p, f, n) /\ fs.inode[n].type = "UNUSED" /\ fs.slot[k].nlink # 0
    BY <1>2, <1>8 DEF Intact
  <2>2. PICK J2 : NewRes(p, TRUE, ~uncounted, b, n, type, k, x, s, f, f2, f3, f4, f5, h, e, J2)
    BY <1>1, <2>1, NewFacts
  <2>3. /\ LinkOn(h, OwedIn(fs, job), unwritten, {}) /\ Up(fs, h, Others(job, p), {fs.slot[k].num})
        /\ LiveIn(fs, k) /\ lock[k] = p
    BY <1>1, <1>8, <2>1, <2>2, NewLink
  <2>4. s \in Slots /\ FreedRes(h, k, e) /\ e.slot[s].ref >= 1
    BY <2>2 DEF NewRes
  <2>5. PICK m, W, r, Z : m = OwedIn(fs, job) /\ W = unwritten /\ r = fs' /\ Z = {}
    OBVIOUS
  <2>6. LinkOn(h, m, W, Z) /\ \A i \in Inums : m[i] >= 0
    BY <2>3, <2>5, OwedType
  <2>7. LinkOn(e, m, W, Z) /\ Down(h, e)
    BY <1>3, <2>4, <2>6, FreeLink
  <2>8. LinkOn(r, m, W, {}) /\ Down(h, r)
    <3>1. CASE job[p].call = "mkdir"
      <4>1. LinkOn(e, m, W, {}) /\ r = Freed(e, s)
        BY <1>2, <2>5, <2>7, <3>1
      <4>2. LinkOn(r, m, W, {}) /\ Down(e, r)
        BY <2>4, <2>6, <4>1, FreeCall
      <4> QED
        BY <2>7, <4>2, DownTrans
    <3>2. CASE job[p].call # "mkdir"
      BY <1>2, <2>5, <2>7, <3>2
    <3> QED
      BY <3>1, <3>2
  <2>9. \A q \in Procs, t \in Slots : q # p /\ lock[t] = q => lock'[t] = q
    BY <1>2, <1>3, <1>8, UnlockFacts
  <2>10. \E i, D : Via(p, i, D)
    <3>1. PICK dd : dd = fs.slot[k].num
      OBVIOUS
    <3>2. Up(fs, h, Others(job, p), {dd}) /\ Down(h, fs') /\ lock[k] \in {p, None}
      BY <2>3, <2>5, <2>8, <3>1
    <3> QED
      BY <1>3, <1>8, <2>3, <2>9, <3>1, <3>2, ViaDir
  <2>11. Placed(fs', lock', j2, p)
    BY <1>6, NullPlaced
  <2> QED
    BY <1>2, <2>5, <2>8, <2>10, <2>11 DEF Quiet
<1> QED
  BY <1>2, <1>3, <1>6, <1>7, <1>8, QuietInv

\* The entry of an inode that goes leaves one link to take back.
NewGone(f, m, d, n, m2) ==
    IF TypeOf(f, n) = "DIR" THEN m2 = Owe(Borrow(f, m, d, n), d, -1) ELSE m2 = Borrow(f, m, d, n)

LEMMA BorrowGone ==
    ASSUME NEW f, NEW m \in [Inums -> Int], NEW d \in Inums, NEW n \in Inums, n # d, NEW m2, NewGone(f, m, d, n, m2)
    PROVE  m2 = Owe(m, n, 1) /\ Owe(m2, n, -1) = m
<1>1. PICK m1 : m1 = Borrow(f, m, d, n)
  OBVIOUS
<1>2. ASSUME NEW i \in Inums PROVE m1[i] = m[i] + Linking(f, d, n, i) /\ m1[i] \in Int
  BY <1>1, LinkingType DEF Borrow
<1>3. ASSUME NEW i \in Inums PROVE m2[i] = (IF i = n THEN m[i] + 1 ELSE m[i])
  <2>1. CASE TypeOf(f, n) = "DIR"
    <3>1. m2[i] = IF i = d THEN m1[i] + (-1) ELSE m1[i]
      BY <1>1, <2>1 DEF NewGone, Owe
    <3>2. Linking(f, d, n, i) = One(i = n) + One(i = d)
      BY <2>1 DEF Linking
    <3> QED
      BY <1>2, <3>1, <3>2 DEF One
  <2>2. CASE TypeOf(f, n) # "DIR"
    <3>1. m2 = m1
      BY <1>1, <2>2 DEF NewGone
    <3>2. Linking(f, d, n, i) = One(i = n) + 0
      BY <2>2 DEF Linking, One
    <3> QED
      BY <1>2, <3>1, <3>2 DEF One
  <2> QED
    BY <2>1, <2>2
<1>4. m2 = [i \in Inums |-> m2[i]]
  BY DEF NewGone, Owe, Borrow
<1>5. m2 = Owe(m, n, 1)
  BY <1>3, <1>4 DEF Owe
<1>6. Owe(m2, n, -1) = [i \in Inums |-> m[i]]
  <2>1. \A i \in Inums : (IF i = n THEN m2[i] + (-1) ELSE m2[i]) = m[i]
    BY <1>3
  <2> QED
    BY <2>1 DEF Owe
<1> QED
  BY <1>5, <1>6

\* path_unlink of an inode that is not a full directory.
UnlinkPart(c, m, W, s, k, f, n, d, x, g, g2, h, e, r) ==
    /\ LinkOn(c, m, W, {}) /\ (\A i \in Inums : m[i] >= 0) /\ s \in Slots /\ k \in Slots /\ n \in Inums /\ d \in Inums
    /\ x \in Names /\ ~BadInode(c, s) /\ f = Locked(c, s) /\ n = f.slot[s].num
    /\ d = c.slot[k].num /\ LiveIn(c, k) /\ c.slot[k].valid /\ c.slot[k].type = "DIR" /\ c.entry[d][x] = n
    /\ (Type(f, s) = "DIR" => f.entry[n] = NoEntries) /\ SetRes(f, d, x, U, g)
    /\ (IF Type(f, s) = "DIR" THEN RelinkedRes(g, k, -1, g2) ELSE g2 = g)
    /\ FreedRes(g2, k, h) /\ RelinkedRes(h, s, -1, e) /\ FreedRes(e, s, r)

LEMMA UnlinkLink ==
    ASSUME NEW c, NEW m, NEW W, NEW s, NEW k, NEW f, NEW n, NEW d, NEW x, NEW g, NEW g2, NEW h, NEW e, NEW r,
           UnlinkPart(c, m, W, s, k, f, n, d, x, g, g2, h, e, r), NEW Q
    PROVE  LinkOn(r, m, W, {}) /\ Up(c, g2, Q, {d}) /\ Down(g2, r)
<1> SUFFICES ASSUME LinkOn(c, m, W, {}), \A i \in Inums : m[i] >= 0, s \in Slots, k \in Slots, n \in Inums, d \in Inums,
                    x \in Names, ~BadInode(c, s), f = Locked(c, s), n = f.slot[s].num,
                    d = c.slot[k].num, LiveIn(c, k), c.slot[k].valid, c.slot[k].type = "DIR", c.entry[d][x] = n,
                    Type(f, s) = "DIR" => f.entry[n] = NoEntries, SetRes(f, d, x, U, g),
                    IF Type(f, s) = "DIR" THEN RelinkedRes(g, k, -1, g2) ELSE g2 = g,
                    FreedRes(g2, k, h), RelinkedRes(h, s, -1, e), FreedRes(e, s, r)
             PROVE  LinkOn(r, m, W, {}) /\ Up(c, g2, Q, {d}) /\ Down(g2, r)
  BY DEF UnlinkPart
<1>1. PICK Z : Z = {}
  OBVIOUS
<1>2. LinkOn(c, m, W, Z) /\ c \in FS /\ m \in [Inums -> Int]
  BY <1>1 DEF LinkOn
<1>3. /\ LinkOn(f, m, W, Z) /\ Up(c, f, Q, {d}) /\ LiveIn(f, s) /\ f.slot[s].valid
      /\ f.slot[s].type = TypeOf(f, f.slot[s].num) /\ f.entry = c.entry
  BY <1>2, LockLink
<1>4. Type(f, s) = TypeOf(f, n)
  BY <1>3 DEF Type
<1>5. f.slot[k].num = d /\ LiveIn(f, k) /\ f.slot[k].valid /\ f.slot[k].type = "DIR" /\ d # U
  <2>1. d # U
    BY Sizes
  <2>2. f.slot[k].num = d /\ f.slot[k].valid /\ f.slot[k].type = "DIR"
    BY <1>3, <2>1 DEF Up
  <2>3. SameRefs(c, f)
    BY <1>2, LockedRefs
  <2> QED
    BY <2>1, <2>2, <2>3 DEF SameRefs, LiveIn
<1>6. TypeOf(f, d) = "DIR"
  <2>1. SlotLinks(f, m, W, k)
    BY <1>3 DEF LinkOn
  <2> QED
    BY <1>5, <2>1 DEF SlotLinks
<1>7. PICK m1 : m1 = Borrow(f, m, d, n)
  OBVIOUS
<1>8. LinkOn(g, m1, W, Z) /\ Up(f, g, Q, {d}) /\ n # d
  <2>1. f.entry[d][x] = n /\ (TypeOf(f, n) = "DIR" => f.entry[n] = NoEntries)
    BY <1>3, <1>4
  <2>2. ClearPart(f, m, W, Z, d, x, n, g)
    BY <1>3, <1>6, <2>1 DEF ClearPart
  <2> QED
    BY <1>7, <2>2, ClearLink
<1>9. s # k /\ g.slot = f.slot
  BY <1>5, <1>8 DEF SetRes
<1>10. PICK m2 : NewGone(f, m, d, n, m2)
  BY DEF NewGone
<1>11. m2 = Owe(m, n, 1) /\ Owe(m2, n, -1) = m
  BY <1>2, <1>8, <1>10, BorrowGone
<1>12. LinkOn(g2, m2, W, {}) /\ Up(g, g2, Q, {d}) /\ g2.slot[s] = f.slot[s]
  <2>1. LinkOn(g, m1, W, {})
    BY <1>1, <1>8
  <2>2. CASE TypeOf(f, n) = "DIR"
    <3>1. m2 = Owe(m1, d, -1) /\ RelinkedRes(g, k, -1, g2) /\ -1 \in Int
      BY <1>4, <1>7, <1>10, <2>2 DEF NewGone
    <3>2. d = g.slot[k].num /\ LiveIn(g, k) /\ g.slot[k].valid
      BY <1>5, <1>9 DEF LiveIn
    <3>3. LinkOn(g2, m2, W, {}) /\ Up(g, g2, Q, {d})
      BY <2>1, <3>1, <3>2, RelinkOld
    <3> QED
      BY <1>9, <3>1, <3>3 DEF RelinkedRes, Only
  <2>3. CASE TypeOf(f, n) # "DIR"
    <3>1. g2 = g /\ m2 = m1
      BY <1>4, <1>7, <1>10, <2>3 DEF NewGone
    <3> QED
      BY <1>9, <2>1, <3>1, UpSame
  <2> QED
    BY <2>2, <2>3
<1>13. \A i \in Inums : m2[i] >= 0
  BY <1>2, <1>11 DEF Owe
<1>14. LinkOn(g2, m2, W, Z) /\ (g2.slot[k].num \in Inums => m2[g2.slot[k].num] >= 0)
  BY <1>1, <1>12, <1>13
<1>15. LinkOn(h, m2, W, Z) /\ Down(g2, h)
  BY <1>14, FreeLink
<1>16. n = h.slot[s].num /\ LiveIn(h, s) /\ h.slot[s].valid
  BY <1>3, <1>9, <1>12 DEF FreedRes, Only, LiveIn
<1>17. LinkOn(e, m, W, {}) /\ Down(h, e)
  <2>1. LinkOn(h, m2, W, {}) /\ -1 \in Int
    BY <1>1, <1>15
  <2>2. LinkOn(e, Owe(m2, n, -1), W, {}) /\ Up(h, e, Q, {d}) /\ Down(h, e)
    BY <1>16, <2>1, RelinkOld
  <2> QED
    BY <1>11, <2>2
<1>18. LinkOn(r, m, W, Z) /\ Down(e, r)
  <2>1. LinkOn(e, m, W, Z) /\ (e.slot[s].num \in Inums => m[e.slot[s].num] >= 0)
    BY <1>1, <1>17
  <2> QED
    BY <2>1, FreeLink
<1>19. Up(c, g2, Q, {d})
  BY <1>3, <1>8, <1>12, UpTrans
<1>20. Down(g2, r)
  BY <1>15, <1>17, <1>18, DownTrans
<1> QED
  BY <1>1, <1>18, <1>19, <1>20

\* The calls with which path_unlink lets both go.
BothGone(g2, k, h, s, e, r) == FreedRes(g2, k, h) /\ RelinkedRes(h, s, -1, e) /\ FreedRes(e, s, r)

LEMMA GoneBoth ==
    ASSUME NEW b, NEW g2, NEW F, NEW J, Good(TRUE, b, g2, F, J), NEW p \in Procs, NEW J2, OnlyProc(F, J, F, J2, p),
           NEW s \in Slots, NEW k \in Slots, J[p].ip = s, J[p].dp = k, J[p].old = NoSlot, J[p].drop = NoSlot,
           NEW h, h = Freed(g2, k), NEW e, e = Relinked(h, s, -1), NEW r, r = Freed(e, s),
           J2[p].ip = NoSlot, J2[p].dp = NoSlot, J2[p].old = NoSlot, J2[p].drop = Dropping(e, s)
    PROVE  BothGone(g2, k, h, s, e, r)
<1>1. FreedRes(g2, k, h) /\ RelinkedRes(h, s, -1, e) /\ FreedRes(e, s, r)
  BY GoneGood, ZenonT(40)
<1> QED
  BY <1>1 DEF BothGone

LEMMA path_unlink_link ==
    ASSUME RefInv, RefInv', LinkInv, NEW p \in Procs, path_unlink(p)
    PROVE  LinkInv'
<1>1. PICK s, k, x, f, g, g2, h, e : UnlinkStep(p, s, k, x, f, g, g2, h, e)
  BY UnlinkStepFacts
<1>2. /\ Intact /\ job[p].at = "remove" /\ job[p].drop = NoSlot /\ s = job[p].ip /\ k = job[p].dp
      /\ x = Head(job[p].path) /\ ~BadInode(fs, s) /\ f = Locked(fs, s)
      /\ h = Freed(g2, k) /\ e = Relinked(h, s, -1)
      /\ lock' = [lock EXCEPT ![k] = None] /\ UNCHANGED <<cwd, file, calls, flags>>
      /\ \/ fs' = Freed(Freed(f, s), k) /\ Return(p, NoSlot)
         \/ /\ ~(Type(f, s) = "DIR" /\ ~check_unlink(f, s))
            /\ fs' = Freed(e, s) /\ Return(p, Dropping(e, s))
  BY <1>1 DEF UnlinkStep
<1>3. GoneRes(p, s, k, x, f, g, g2, h, e)
  BY <1>1, GoneFacts
<1>4. /\ s \in Slots /\ k \in Slots /\ x \in Names /\ job[p].old = NoSlot /\ Good(TRUE, ~uncounted, f, file, job)
      /\ Good(TRUE, ~uncounted, g2, file, job) /\ f.slot[s].num \in Inums /\ f.slot[s].num = fs.slot[s].num
      /\ fs.slot[k].num \in Inums /\ f.slot[k].num = fs.slot[k].num
      /\ (IF Type(f, s) = "DIR" THEN RelinkedRes(g, k, -1, g2) ELSE g2 = g)
  BY <1>2, <1>3, DirFacts DEF GoneRes, LockStep
<1>5. SetRes(f, f.slot[k].num, x, U, g)
  BY <1>3 DEF GoneRes, SetRes
<1>6. PICK d : d \in MaybeSlots /\ Return(p, d)
               /\ \/ fs' = Freed(Freed(f, s), k) /\ d = NoSlot
                  \/ /\ ~(Type(f, s) = "DIR" /\ ~check_unlink(f, s))
                     /\ fs' = Freed(e, s) /\ d = Dropping(e, s)
  <2>1. NoSlot \in MaybeSlots /\ Dropping(e, s) \in MaybeSlots
    BY <1>4, DroppingType DEF MaybeSlots
  <2> QED
    BY <1>2, <2>1
<1>7. PICK j2 : NullRes(p, d, j2)
  BY <1>2, <1>4, <1>6, ReturnFacts
<1>8. job' = [job EXCEPT ![p] = j2] /\ j2.old = job[p].old /\ Shape(file[p], j2) /\ j2.ip = NoSlot
  BY <1>7 DEF NullRes
<1>9. PICK F, J, J2, b, c, r, t : /\ F = file /\ J = job /\ J2 = job' /\ b = ~uncounted /\ c = fs /\ r = fs'
                                  /\ t = Freed(f, s)
  OBVIOUS
<1>10. /\ OnlyProc(F, J, F, J2, p) /\ J[p].ip = s /\ J[p].dp = k /\ J[p].old = NoSlot /\ J[p].drop = NoSlot
       /\ J2[p].ip = NoSlot /\ J2[p].dp = NoSlot /\ J2[p].old = NoSlot /\ J2[p].drop = d
       /\ Good(TRUE, b, f, F, J) /\ Good(TRUE, b, g2, F, J)
  <2>1. OnlyProc(F, J, F, J2, p) /\ J2[p] = j2
    BY <1>7, <1>9, JobOnly DEF NullRes
  <2> QED
    BY <1>2, <1>4, <1>7, <1>9, <2>1 DEF NullRes
<1>11. ASSUME ~uncounted PROVE Quiet(p, j2)
  <2>1. /\ LinkOn(fs, OwedIn(fs, job), unwritten, {}) /\ (\A i \in Inums : OwedIn(fs, job)[i] >= 0)
        /\ Placed(fs, lock, job[p], p)
    BY <1>2, <1>11, LinkNow
  <2>2. PICK m, W, Q, n, dd, Z : /\ m = OwedIn(fs, job) /\ W = unwritten /\ Q = Others(job, p) /\ n = f.slot[s].num
                                 /\ dd = fs.slot[k].num /\ Z = {}
    OBVIOUS
  <2>3. LinkOn(c, m, W, {}) /\ (\A i \in Inums : m[i] >= 0) /\ ~BadInode(c, s) /\ f = Locked(c, s)
        /\ n \in Inums /\ dd \in Inums /\ dd = c.slot[k].num /\ n = f.slot[s].num
    BY <1>2, <1>4, <1>9, <2>1, <2>2
  <2>4. lock[k] = p /\ c.slot[k].valid /\ c.slot[k].type = "DIR" /\ c.entry[dd][x] = n /\ LiveIn(c, k)
    <3>1. fs.slot[k].ref >= 1 /\ fs.slot[k].num # U /\ fs \in FS
      BY <1>2, DirFacts, Now
    <3>2. LiveIn(fs, k)
      BY <1>4, <3>1 DEF LiveIn, FS, Slot
    <3>3. lock[k] = p /\ fs.slot[k].valid /\ fs.slot[k].type = "DIR" /\ fs.entry[fs.slot[k].num][x] = fs.slot[s].num
      BY <1>2, <2>1 DEF Placed
    <3> QED
      BY <1>4, <1>9, <2>2, <3>2, <3>3
  <2>5. \E a : LinkOn(r, m, W, {}) /\ Up(c, a, Q, {dd}) /\ Down(a, r)
    <3>1. CASE fs' = Freed(Freed(f, s), k) /\ d = NoSlot
      <4>1. t = Freed(f, s) /\ r = Freed(t, k) /\ J2[p].drop = NoSlot
        BY <1>9, <1>10, <3>1
      <4>2. FreedRes(f, s, t) /\ FreedRes(t, k, r)
        BY <1>4, <1>10, <4>1, FullGood, ZenonT(40)
      <4>3. LinkOn(c, m, W, Z)
        BY <2>2, <2>3
      <4>4. LinkOn(f, m, W, Z) /\ Up(c, f, Q, {dd})
        BY <1>4, <2>3, <4>3, LockLink
      <4>5. LinkOn(f, m, W, {})
        BY <2>2, <4>4
      <4>6. LinkOn(r, m, W, {}) /\ Down(f, r)
        BY <1>4, <2>3, <4>2, <4>5, FreeTwice
      <4> QED
        BY <4>4, <4>6
    <3>2. CASE /\ ~(Type(f, s) = "DIR" /\ ~check_unlink(f, s))
               /\ fs' = Freed(e, s) /\ d = Dropping(e, s)
      <4>1. h = Freed(g2, k) /\ e = Relinked(h, s, -1) /\ r = Freed(e, s) /\ J2[p].drop = Dropping(e, s)
        BY <1>2, <1>9, <1>10, <3>2
      <4>2. FreedRes(g2, k, h) /\ RelinkedRes(h, s, -1, e) /\ FreedRes(e, s, r)
        <5>1. /\ s \in Slots /\ k \in Slots /\ OnlyProc(F, J, F, J2, p) /\ J[p].ip = s /\ J[p].dp = k
              /\ J[p].old = NoSlot /\ J[p].drop = NoSlot /\ Good(TRUE, b, g2, F, J)
              /\ J2[p].ip = NoSlot /\ J2[p].dp = NoSlot /\ J2[p].old = NoSlot /\ J2[p].drop = Dropping(e, s)
          BY <1>4, <1>10, <4>1
        <5>2. h = Freed(g2, k) /\ e = Relinked(h, s, -1) /\ r = Freed(e, s)
          BY <4>1
        <5>3. BothGone(g2, k, h, s, e, r)
          BY <5>1, <5>2, GoneBoth
        <5> QED
          BY <5>3 DEF BothGone
      <4>3. SetRes(f, dd, x, U, g)
        BY <1>4, <1>5, <2>2
      <4>4. Type(f, s) = "DIR" => f.entry[n] = NoEntries
        BY <2>2, <3>2 DEF check_unlink
      <4>5. IF Type(f, s) = "DIR" THEN RelinkedRes(g, k, -1, g2) ELSE g2 = g
        BY <1>4
      <4>6. LinkOn(r, m, W, {}) /\ Up(c, g2, Q, {dd}) /\ Down(g2, r)
        <5>1. s \in Slots /\ k \in Slots /\ x \in Names
          BY <1>4
        <5>2. UnlinkPart(c, m, W, s, k, f, n, dd, x, g, g2, h, e, r)
          BY <2>3, <2>4, <4>2, <4>3, <4>4, <4>5, <5>1 DEF UnlinkPart
        <5> QED
          BY <5>2, UnlinkLink
      <4> QED
        BY <4>6
    <3> QED
      BY <1>6, <3>1, <3>2
  <2>6. PICK a : LinkOn(r, m, W, {}) /\ Up(c, a, Q, {dd}) /\ Down(a, r)
    BY <2>5
  <2>7. \A q \in Procs, i \in Slots : q # p /\ lock[i] = q => lock'[i] = q
    BY <1>2, <1>11, UnlockFacts
  <2>8. \E i, D : Via(p, i, D)
    <3>1. Up(fs, a, Others(job, p), {dd}) /\ Down(a, fs') /\ lock[k] \in {p, None} /\ LiveIn(fs, k) /\ dd = fs.slot[k].num
      BY <1>9, <2>2, <2>4, <2>6
    <3> QED
      BY <1>2, <1>4, <1>11, <2>7, <3>1, ViaDir
  <2>9. Placed(fs', lock', j2, p)
    BY <1>8, NullPlaced
  <2> QED
    BY <1>2, <1>9, <2>2, <2>6, <2>8, <2>9 DEF Quiet, flags
<1> QED
  BY <1>2, <1>8, <1>11, QuietInv DEF flags

LEMMA NextLink ==
    ASSUME RefInv, RefInv', LinkInv, Next
    PROVE  LinkInv'
<1>1. CASE Over
  BY <1>1 DEF Over, vars, LinkInv, Intact
<1>2. ASSUME NEW p \in Procs, NEW call \in Calls, NEW path \in Paths, NEW next \in Paths, NEW abs \in BOOLEAN,
             Call(p, call, path, next, abs)
      PROVE  LinkInv'
  BY <1>2, Call_link
<1>3. ASSUME NEW p \in Procs, NEW abs \in BOOLEAN, path_link_begin(p, abs) PROVE LinkInv'
  BY <1>3, path_link_begin_link
<1>4. ASSUME NEW p \in Procs, path_link_undo(p, "undo") \/ path_link_undo(p, "undo_write") PROVE LinkInv'
  BY <1>4, path_link_undo_link
<1>5. ASSUME NEW p \in Procs, inode_lock_panic(p) \/ inode_get_panic(p) \/ mkdir_panic(p) \/ path_create_full(p)
      PROVE  LinkInv'
  <2>1. halted' = TRUE
    BY <1>5 DEF inode_lock_panic, inode_get_panic, mkdir_panic, path_create_full, Halt
  <2> QED
    BY <2>1 DEF LinkInv, Intact
<1>6. ASSUME NEW p \in Procs,
             \/ search_notdir(p) \/ search_parent(p) \/ search_next(p) \/ search_end(p)
             \/ path_missing(p) \/ file_open(p) \/ dir_change(p) \/ path_link_end(p)
      PROVE  LinkInv'
  BY <1>6, search_notdir_link, search_parent_link, search_next_link, search_end_link, path_missing_link,
     file_open_link, dir_change_link, path_link_end_link
<1>7. ASSUME NEW p \in Procs,
             \/ path_create_get(p) \/ path_create_found(p) \/ path_create_old(p) \/ path_create_new(p)
             \/ path_unlink_get(p) \/ path_unlink(p)
             \/ file_close(p) \/ inode_free_end(p)
      PROVE  LinkInv'
  BY <1>7, path_create_get_link, path_create_found_link, path_create_old_link, path_create_new_link,
     path_unlink_get_link, path_unlink_link, file_close_link, inode_free_end_link
<1> QED
  BY <1>1, <1>2, <1>3, <1>4, <1>5, <1>6, <1>7 DEF Next

-----------------------------------------------------------------------------
(***************************************************************************)
(* The links at the start.                                                 *)
(***************************************************************************)
\* What mkfs, or an earlier create, left of an inode that is not the root.
LEMMA FirstOther ==
    ASSUME NEW n \in Inums, n # ROOT
    PROVE  /\ FirstFS.inode[n].nlink = Cardinality(At(n))
           /\ At(n) = {} => TypeOf(FirstFS, n) = "UNUSED"
           /\ \A x \in At(n) : TypeOf(FirstFS, n) = Tree[x].type /\ Tree[x].type # "UNUSED"
           /\ FirstFS.entry[n] = NoEntries
<1>1. PICK c : c = CHOOSE x \in At(n) : TRUE
  OBVIOUS
<1>2. PICK t : t = IF At(n) = {} THEN "UNUSED" ELSE Tree[c].type
  OBVIOUS
<1>3. FirstFS.inode[n] = [type |-> t, nlink |-> Cardinality(At(n))]
  <2>1. FirstFS.inode[n] = FirstInode(n)
    BY DEF FirstFS
  <2> QED
    BY <1>1, <1>2, <2>1 DEF FirstInode
<1>4. ASSUME NEW x \in At(n) PROVE t = Tree[x].type /\ Tree[x].type # "UNUSED"
  <2>1. c \in At(n)
    BY <1>1
  <2>2. x \in Names /\ c \in Names /\ Tree[x].num = n /\ Tree[c].num = n /\ Tree[x].type # "UNUSED"
    BY <2>1 DEF At, Here
  <2>3. Tree[c].type = Tree[x].type
    BY <2>2, DirAssumption
  <2> QED
    BY <1>2, <2>2, <2>3
<1>5. FirstFS.entry[n] = NoEntries
  BY DEF FirstFS
<1> QED
  BY <1>2, <1>3, <1>4, <1>5 DEF TypeOf

LEMMA FirstRoot ==
    /\ TypeOf(FirstFS, ROOT) = "DIR"
    /\ FirstFS.inode[ROOT].nlink = 1 + Cardinality({x \in Here : Tree[x].type = "DIR"})
    /\ \A x \in Names : FirstFS.entry[ROOT][x] = FirstNum(x)
<1>1. ROOT \in Inums
  BY Sizes
<1>2. PICK k : k = 1 + Cardinality({x \in Here : Tree[x].type = "DIR"})
  OBVIOUS
<1>3. FirstFS.inode[ROOT] = [type |-> "DIR", nlink |-> k]
  BY <1>1, <1>2 DEF FirstFS, FirstInode
<1>4. FirstFS.entry[ROOT] = [x \in Names |-> FirstNum(x)]
  BY <1>1 DEF FirstFS
<1> QED
  BY <1>2, <1>3, <1>4 DEF TypeOf

\* The names of an inode are those in the root directory.
LEMMA FirstNamed ==
    ASSUME NEW n \in Inums
    PROVE  NamedIn(FirstFS, n) = {ROOT} \X At(n)
<1>1. ROOT \in Inums /\ U \notin Inums /\ INODE_NUM_UNUSED = U
  BY Sizes DEF U
<1>2. ASSUME NEW d \in Inums, NEW x \in Names
      PROVE  FirstFS.entry[d][x] = n <=> d = ROOT /\ x \in At(n)
  <2>1. CASE d = ROOT
    <3>1. FirstFS.entry[d][x] = FirstNum(x)
      BY <2>1, FirstRoot
    <3> QED
      BY <1>1, <2>1, <3>1 DEF FirstNum, At, Here
  <2>2. CASE d # ROOT
    <3>1. FirstFS.entry[d][x] = INODE_NUM_UNUSED
      BY <2>2, FirstOther DEF NoEntries
    <3> QED
      BY <1>1, <2>2, <3>1
  <2> QED
    BY <2>1, <2>2
<1>3. At(n) \subseteq Names
  BY DEF At, Here
<1> QED
  BY <1>1, <1>2, <1>3 DEF NamedIn

LEMMA FirstLinks ==
    ASSUME NEW n \in Inums
    PROVE  /\ LinksIn(FirstFS, n) = FirstFS.inode[n].nlink
           /\ (NamedIn(FirstFS, n) = {}) <=> (At(n) = {})
<1>1. NamedIn(FirstFS, n) = {ROOT} \X At(n)
  BY FirstNamed
<1>2. IsFiniteSet(At(n)) /\ IsFiniteSet(Here) /\ Cardinality(At(n)) \in Nat
  <2>1. IsFiniteSet(Names) /\ At(n) \subseteq Names /\ Here \subseteq Names
    BY DirAssumption DEF At, Here
  <2> QED
    BY <2>1, FS_Subset, FS_CardinalityType
<1>3. Cardinality(NamedIn(FirstFS, n)) = Cardinality(At(n))
  <2>1. IsFiniteSet({ROOT}) /\ Cardinality({ROOT}) = 1
    BY FS_Singleton
  <2>2. Cardinality({ROOT} \X At(n)) = Cardinality({ROOT}) * Cardinality(At(n))
    BY <1>2, <2>1, FS_Product
  <2> QED
    BY <1>1, <1>2, <2>1, <2>2
<1>4. (NamedIn(FirstFS, n) = {}) <=> (At(n) = {})
  <2>1. ASSUME NEW x \in At(n) PROVE <<ROOT, x>> \in NamedIn(FirstFS, n)
    BY <1>1
  <2>2. At(n) = {} => NamedIn(FirstFS, n) = {}
    BY <1>1
  <2> QED
    BY <2>1, <2>2
<1>5. U \notin Inums /\ INODE_NUM_UNUSED = U
  BY Sizes DEF U
<1>6. CASE n = ROOT
  <2>1. At(n) = {}
    BY <1>6, DirAssumption DEF At, Here
  <2>2. ASSUME NEW x \in Names
        PROVE  (FirstFS.entry[n][x] \in Inums /\ FirstFS.inode[FirstFS.entry[n][x]].type = "DIR")
                 <=> (x \in Here /\ Tree[x].type = "DIR")
    <3>1. FirstFS.entry[n][x] = FirstNum(x)
      BY <1>6, FirstRoot
    <3>2. CASE Tree[x].type = "UNUSED"
      BY <1>5, <3>1, <3>2 DEF FirstNum
    <3>3. CASE Tree[x].type # "UNUSED"
      <4>1. PICK i : i = Tree[x].num
        OBVIOUS
      <4>2. i \in Inums /\ i # ROOT /\ x \in Here /\ x \in At(i) /\ FirstFS.entry[n][x] = i
        BY <3>1, <3>3, <4>1, DirAssumption DEF FirstNum, At, Here
      <4>3. TypeOf(FirstFS, i) = Tree[x].type
        BY <4>2, FirstOther
      <4> QED
        BY <4>2, <4>3 DEF TypeOf
    <3> QED
      BY <3>2, <3>3
  <2>3. SubsIn(FirstFS, n) = {x \in Here : Tree[x].type = "DIR"}
    <3>1. Here \subseteq Names
      BY DEF Here
    <3> QED
      BY <2>2, <3>1 DEF SubsIn
  <2>4. Cardinality(SubsIn(FirstFS, n)) \in Nat
    BY LinksType
  <2>5. Cardinality(At(n)) = 0 /\ One(n = ROOT) = 1
    BY <1>6, <2>1, FS_EmptySet DEF One
  <2>6. FirstFS.inode[n].nlink = 1 + Cardinality(SubsIn(FirstFS, n))
    BY <1>6, <2>3, FirstRoot
  <2> QED
    BY <1>3, <1>4, <2>4, <2>5, <2>6 DEF LinksIn
<1>7. CASE n # ROOT
  <2>1. SubsIn(FirstFS, n) = {}
    BY <1>5, <1>7, FirstOther DEF SubsIn, NoEntries
  <2>2. Cardinality(SubsIn(FirstFS, n)) = 0 /\ One(n = ROOT) = 0
    BY <1>7, <2>1, FS_EmptySet DEF One
  <2>3. FirstFS.inode[n].nlink = Cardinality(At(n))
    BY <1>7, FirstOther
  <2> QED
    BY <1>2, <1>3, <1>4, <2>2, <2>3 DEF LinksIn
<1> QED
  BY <1>6, <1>7

LEMMA FirstOn ==
    ASSUME NEW m, m \in [Inums -> Int], \A n \in Inums : m[n] = 0
    PROVE  LinkOn(FirstFS, m, {}, {})
<1>1. FirstFS \in FS /\ OneOK(FirstFS)
  BY FirstType, FirstRef
<1>2. PICK f : f = FirstFS
  OBVIOUS
<1>3. ASSUME NEW s \in Slots
      PROVE  f.slot[s].num = (IF s = 1 THEN ROOT ELSE U) /\ ~f.slot[s].valid
  <2>1. FirstFS.slot[s] = FirstSlot(s)
    BY DEF FirstFS
  <2>2. PICK n, r : n = (IF s = 1 THEN ROOT ELSE U) /\ r = (IF s = 1 THEN Cardinality(Procs) ELSE 0)
    OBVIOUS
  <2>3. FirstFS.slot[s] = [num |-> n, ref |-> r, valid |-> FALSE, type |-> "UNUSED", nlink |-> 0]
    BY <2>1, <2>2, Zenon DEF FirstSlot, U
  <2> QED
    BY <1>2, <2>2, <2>3
<1>4. ASSUME NEW s \in Slots PROVE SlotLinks(f, m, {}, s)
  <2>1. LiveIn(f, s) => TypeOf(f, f.slot[s].num) # "UNUSED"
    BY <1>2, <1>3, FirstRoot DEF LiveIn
  <2> QED
    BY <1>3, <2>1 DEF SlotLinks
<1>5. ASSUME NEW n \in Inums PROVE InodeLinks(f, m, {}, {}, n)
  <2>1. LinksIn(f, n) = f.inode[n].nlink /\ ((NamedIn(f, n) = {}) <=> (At(n) = {})) /\ LinksIn(f, n) \in Nat
    BY <1>2, FirstLinks, LinksType
  <2>2. LinkOK(f, m, {}, f.inode[n].nlink, n)
    BY <2>1 DEF LinkOK
  <2>3. CASE n = ROOT
    <3>1. TypeOf(f, n) = "DIR"
      BY <1>2, <2>3, FirstRoot
    <3>2. f.inode[n].nlink # 0
      <4>1. Cardinality(NamedIn(f, n)) \in Nat /\ Cardinality(SubsIn(f, n)) \in Nat
        BY LinksType
      <4> QED
        BY <2>1, <2>3, <4>1 DEF LinksIn, One
    <3> QED
      BY <2>2, <2>3, <3>1, <3>2 DEF InodeLinks
  <2>4. CASE n # ROOT
    <3>1. /\ f.inode[n].nlink = Cardinality(At(n)) /\ (At(n) = {} => TypeOf(f, n) = "UNUSED")
          /\ (\A x \in At(n) : TypeOf(f, n) # "UNUSED") /\ f.entry[n] = NoEntries
      BY <1>2, <2>4, FirstOther
    <3>2. TypeOf(f, n) # "UNUSED" => f.inode[n].nlink # 0
      <4>1. IsFiniteSet(At(n))
        BY DirAssumption, FS_Subset DEF At, Here
      <4>2. At(n) # {} => Cardinality(At(n)) # 0
        BY <4>1, FS_EmptySet
      <4> QED
        BY <3>1, <4>2
    <3>3. TypeOf(f, n) = "UNUSED" => NamedIn(f, n) = {}
      BY <2>1, <3>1
    <3> QED
      BY <2>2, <3>1, <3>2, <3>3 DEF InodeLinks
  <2> QED
    BY <2>3, <2>4
<1>6. TypeOf(f, ROOT) = "DIR"
  BY <1>2, FirstRoot
<1> QED
  BY <1>1, <1>2, <1>4, <1>5, <1>6 DEF LinkOn

LEMMA InitLink ==
    ASSUME Init
    PROVE  LinkInv
<1>1. job = [p \in Procs |-> Idle] /\ unwritten = {}
  BY Zenon DEF Init
<1>2. fs = FirstFS
  BY FirstStart
<1>3. PICK f, J, m : f = fs /\ J = job /\ m = OwedIn(fs, job)
  OBVIOUS
<1>4. \A q \in Procs : J[q].at = "idle" /\ J[q].old = NoSlot
  BY <1>1, <1>3 DEF Idle
<1>5. \A q \in Procs : OldFile(f, J[q]) /\ Placed(f, lock, J[q], q)
  BY <1>4 DEF OldFile, Placed
<1>6. m \in [Inums -> Int] /\ \A n \in Inums : m[n] = 0
  <2>1. \A n \in Inums : OldAt(f, J, n) = {}
    BY <1>4 DEF OldAt
  <2>2. Cardinality({}) = 0
    BY FS_EmptySet
  <2>3. m \in [Inums -> Int] /\ \A n \in Inums : m[n] = Cardinality(OldAt(f, J, n))
    BY <1>3, OwedType
  <2> QED
    BY <2>1, <2>2, <2>3
<1>7. LinkOn(fs, OwedIn(fs, job), unwritten, {})
  BY <1>1, <1>2, <1>3, <1>6, FirstOn
<1> QED
  BY <1>3, <1>5, <1>7 DEF LinkInv, LinkState

-----------------------------------------------------------------------------
LEMMA LinkInvariant == Spec => [](RefInv /\ LinkInv)
<1>1. Init => RefInv /\ LinkInv
  BY InitInv, InitLink
<1>2. RefInv /\ LinkInv /\ [Next]_vars => (RefInv /\ LinkInv)'
  <2>1. ASSUME RefInv, LinkInv, Next PROVE RefInv' /\ LinkInv'
    BY <2>1, NextInv, NextLink
  <2>2. ASSUME RefInv, LinkInv, UNCHANGED vars PROVE RefInv' /\ LinkInv'
    <3>1. RefInv'
      BY <2>2, StutterInv
    <3>2. LinkInv'
      BY <2>2 DEF vars, LinkInv, Intact
    <3> QED
      BY <3>1, <3>2
  <2> QED
    BY <2>1, <2>2
<1> QED
  BY <1>1, <1>2, PTL DEF Spec

\* What Dir counts is what the invariant counts.
LEMMA LinksNow ==
    ASSUME NEW n \in Inums
    PROVE  /\ NamedBy(n) = NamedIn(fs, n) /\ Links(n) = LinksIn(fs, n) + OwedIn(fs, job)[n]
           /\ \A s \in Slots : s \in Live(n) <=> LiveIn(fs, s) /\ fs.slot[s].num = n
<1>1. NamedBy(n) = NamedIn(fs, n)
  BY DEF NamedBy, NamedIn
<1>2. Links(n) = Cardinality(NamedIn(fs, n)) + One(n = ROOT) + Cardinality(OldAt(fs, job, n)) + Cardinality(SubsIn(fs, n))
  BY <1>1, Zenon DEF Links, OldAt, SubsIn, One
<1>3. Cardinality(NamedIn(fs, n)) \in Nat /\ Cardinality(SubsIn(fs, n)) \in Nat /\ One(n = ROOT) \in Nat
  BY LinksType DEF One
<1>4. OwedIn(fs, job)[n] = Cardinality(OldAt(fs, job, n)) /\ OwedIn(fs, job)[n] \in Int
  BY OwedType
<1>5. Links(n) = LinksIn(fs, n) + OwedIn(fs, job)[n]
  BY <1>2, <1>3, <1>4 DEF LinksIn
<1>6. n # U
  BY Sizes
<1> QED
  BY <1>1, <1>5, <1>6 DEF Live, LiveIn

\* Whatever system calls run at once, the nlink of an inode, on the disk and
\* in the cache, is the number of entries that name it with the links that
\* path_link has counted ahead and the subdirectories of a directory; no entry
\* names an inode that inode_free destroyed.
THEOREM LinksExactTheorem == Spec => []LinksExact
<1>1. RefInv /\ LinkInv => LinksExact
  <2> SUFFICES ASSUME RefInv, LinkInv, Intact, ~uncounted, NEW n \in Inums
               PROVE  /\ fs.inode[n].type = "UNUSED" => NamedBy(n) = {}
                      /\ fs.inode[n].type # "UNUSED" /\ n \notin unwritten =>
                             /\ fs.inode[n].nlink = Links(n)
                             /\ \A s \in Live(n) : fs.slot[s].valid => fs.slot[s].nlink = Links(n)
    BY DEF LinksExact
  <2>1. PICK m : m = OwedIn(fs, job)
    OBVIOUS
  <2>2. InodeLinks(fs, m, unwritten, {}, n) /\ \A s \in Slots : SlotLinks(fs, m, unwritten, s)
    BY <2>1, LinkNow DEF LinkOn
  <2>3. /\ NamedBy(n) = NamedIn(fs, n) /\ Links(n) = LinksIn(fs, n) + m[n]
        /\ \A s \in Slots : s \in Live(n) <=> LiveIn(fs, s) /\ fs.slot[s].num = n
    BY <2>1, LinksNow
  <2>4. fs.inode[n].type = "UNUSED" => NamedBy(n) = {}
    BY <2>2, <2>3 DEF InodeLinks, TypeOf
  <2>5. ASSUME fs.inode[n].type # "UNUSED", n \notin unwritten
        PROVE  fs.inode[n].nlink = Links(n) /\ \A s \in Live(n) : fs.slot[s].valid => fs.slot[s].nlink = Links(n)
    <3>1. \A k : LinkOK(fs, m, unwritten, k, n) => k = Links(n)
      BY <2>3, <2>5 DEF LinkOK
    <3>2. fs.inode[n].nlink = Links(n)
      BY <2>2, <2>5, <3>1 DEF InodeLinks, TypeOf
    <3>3. ASSUME NEW s \in Live(n), fs.slot[s].valid PROVE fs.slot[s].nlink = Links(n)
      <4>1. s \in Slots
        BY DEF Live
      <4>2. LiveIn(fs, s) /\ fs.slot[s].num = n
        BY <2>3, <4>1
      <4> QED
        BY <2>2, <3>1, <3>3, <4>1, <4>2 DEF SlotLinks
    <3> QED
      BY <3>2, <3>3
  <2> QED
    BY <2>4, <2>5
<1> QED
  BY <1>1, LinkInvariant, PTL

\* inode_free leaves no inode behind that has neither a link nor a reference:
\* whoever takes the last link away still holds the inode, or destroys it.
THEOREM ReclaimedTheorem == Spec => []Reclaimed
<1>1. RefInv /\ LinkInv => Reclaimed
  <2> SUFFICES ASSUME RefInv, LinkInv, Intact, ~uncounted, NEW n \in Inums,
                      fs.inode[n].type # "UNUSED", fs.inode[n].nlink = 0
               PROVE  Live(n) # {}
    BY DEF Reclaimed
  <2>1. InodeLinks(fs, OwedIn(fs, job), unwritten, {}, n)
    BY LinkNow DEF LinkOn
  <2>2. PICK s \in Slots : Doomed(fs, n, s)
    BY <2>1 DEF InodeLinks, TypeOf
  <2>3. s \in Live(n)
    BY <2>2 DEF Doomed, LiveIn, Live
  <2> QED
    BY <2>3
<1> QED
  BY <1>1, LinkInvariant, PTL

=============================================================================
