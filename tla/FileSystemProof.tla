--------------------------- MODULE FileSystemProof ---------------------------
(***************************************************************************)
(* Theorems about the file system for disks, blocks and tables of every    *)
(* size, whatever the memory around FAT holds.  The first ones hold for    *)
(* clients that keep to no rule where one block holds the FAT; from        *)
(* OpenNotDeletedThm on each names the rules it needs, and for clients     *)
(* that keep to all of them the file system is the store of FileStore.     *)
(***************************************************************************)
EXTENDS FileSystemProperties, SequenceTheorems, FiniteSetTheorems,
        WellFoundedInduction, TLAPS

-----------------------------------------------------------------------------
(* Lemmas about the operators of the model.                                *)

(* First picks the least element of a set of naturals.                     *)
LEMMA FirstIsLeast ==
  ASSUME NEW S \in SUBSET Nat, S # {}
  PROVE  First(S) \in S /\ \A y \in S : First(S) <= y
<1>1. IsWellFoundedOn(OpToRel(<, Nat), Nat)
  BY NatLessThanWellFounded, Zenon
<1>2. PICK x \in S : \A y \in S : ~(<<y, x>> \in OpToRel(<, Nat))
  BY <1>1, WFMin, Zenon
<1>3. \A y \in S : x <= y
  <2>1. SUFFICES ASSUME NEW y \in S, ~(x <= y) PROVE FALSE
    OBVIOUS
  <2>2. y < x /\ x \in Nat /\ y \in Nat
    BY <2>1
  <2>3. <<y, x>> \in OpToRel(<, Nat)
    BY <2>2, Zenon DEF OpToRel
  <2>. QED
    BY <1>2, <2>3
<1>. QED
  BY <1>3 DEF First

(* The sequence that Path describes exists: a walk of n steps can be       *)
(* continued by one.                                                       *)
IsPath(p, f, b, n) == p = [i \in 0..n |-> IF i = 0 THEN b ELSE f[p[i - 1]]]

LEMMA PathExists ==
  ASSUME NEW f, NEW b, NEW n \in Nat
  PROVE  \E p : IsPath(p, f, b, n)
<1>. DEFINE Bad == {m \in Nat : ~ \E p : IsPath(p, f, b, m)}
<1>1. SUFFICES ASSUME Bad # {} PROVE FALSE
  OBVIOUS
<1>. DEFINE m == First(Bad)
<1>2. m \in Bad /\ \A k \in Bad : m <= k
  <2>. HIDE DEF Bad
  <2>1. Bad \in SUBSET Nat
    BY DEF Bad
  <2>. QED
    BY <1>1, <2>1, FirstIsLeast
<1>. HIDE DEF m
<1>3. m # 0
  <2>. DEFINE p == [i \in 0..0 |-> b]
  <2>1. p = [i \in 0..0 |-> IF i = 0 THEN b ELSE f[p[i - 1]]]
    OBVIOUS
  <2>. QED
    BY <1>2, <2>1 DEF IsPath
<1>4. m \in Nat /\ m - 1 \in Nat /\ m - 1 \notin Bad
  BY <1>2, <1>3
<1>5. PICK p : IsPath(p, f, b, m - 1)
  BY <1>4
<1>. DEFINE q == [i \in 0..m |-> IF i = m THEN f[p[m - 1]] ELSE p[i]]
<1>6. ASSUME NEW i \in 0..m
      PROVE  q[i] = IF i = 0 THEN b ELSE f[q[i - 1]]
  <2>1. p = [j \in 0..(m - 1) |-> IF j = 0 THEN b ELSE f[p[j - 1]]]
    BY <1>5 DEF IsPath
  <2>2. CASE i = m
    <3>1. m - 1 \in 0..m /\ m - 1 # m
      BY <1>4
    <3>2. q[m - 1] = p[m - 1]
      BY <3>1
    <3>. QED
      BY <3>2, <2>2, <1>3, <1>4
  <2>3. CASE i # m
    <3>1. i \in 0..(m - 1)
      BY <2>3, <1>4
    <3>2. p[i] = IF i = 0 THEN b ELSE f[p[i - 1]]
      BY <2>1, <3>1
    <3>3. ASSUME i # 0 PROVE q[i - 1] = p[i - 1]
      <4>1. i - 1 \in 0..m /\ i - 1 # m
        BY <1>4, <3>1, <3>3
      <4>. QED
        BY <4>1
    <3>. QED
      BY <3>2, <3>3, <2>3
  <2>. QED
    BY <2>2, <2>3
<1>7. IsPath(q, f, b, m)
  <2>1. q = [i \in 0..m |-> q[i]]
    OBVIOUS
  <2>. HIDE DEF q
  <2>. QED
    BY <1>6, <2>1 DEF IsPath
<1>. QED
  BY <1>2, <1>7

(* A walk from a block in S along an f that stays in S stays in S.         *)
LEMMA PathStays ==
  ASSUME NEW f, NEW S, NEW b \in S, NEW n \in Nat, \A j \in S : f[j] \in S
  PROVE  \A i \in 0..n : Path(f, b, n)[i] \in S
<1>. DEFINE p == Path(f, b, n)
<1>. HIDE DEF p
<1>1. p = [i \in 0..n |-> IF i = 0 THEN b ELSE f[p[i - 1]]]
  <2>1. PICK q : IsPath(q, f, b, n)
    BY PathExists
  <2>2. IsPath(p, f, b, n)
    BY <2>1 DEF Path, p, IsPath
  <2>. QED
    BY <2>2 DEF IsPath
<1>. DEFINE Out == {i \in 0..n : p[i] \notin S}
<1>2. SUFFICES ASSUME Out # {} PROVE FALSE
  BY DEF p
<1>. DEFINE m == First(Out)
<1>3. m \in Out /\ \A k \in Out : m <= k
  <2>. HIDE DEF Out
  <2>1. Out \in SUBSET Nat
    BY DEF Out
  <2>. QED
    BY <1>2, <2>1, FirstIsLeast
<1>. HIDE DEF m
<1>4. m # 0
  BY <1>1, <1>3
<1>5. m - 1 \in 0..n /\ m - 1 \notin Out
  BY <1>3, <1>4
<1>6. p[m - 1] \in S /\ p[m] = f[p[m - 1]]
  BY <1>1, <1>3, <1>4, <1>5
<1>. QED
  BY <1>3, <1>6

(* So does everything that Reach collects.                                 *)
LEMMA ReachStays ==
  ASSUME NEW f, NEW S \in SUBSET DOMAIN f, NEW b \in S, NEW stop, \A j \in S : f[j] \in S
  PROVE  Reach(f, b, stop) \subseteq S
<1>. DEFINE room == {b} \cup {f[i] : i \in DOMAIN f}
<1>1. SUFFICES ASSUME NEW i \in Reach(f, b, stop) PROVE i \in S
  OBVIOUS
<1>2. \A T \in SUBSET room : (b \in T /\ \A j \in T \ stop : f[j] \in T) => i \in T
  BY <1>1 DEF Reach
<1>3. S \cap room \in SUBSET room /\ b \in S \cap room
  OBVIOUS
<1>4. \A j \in (S \cap room) \ stop : f[j] \in S \cap room
  OBVIOUS
<1>. QED
  BY <1>2, <1>3, <1>4

LEMMA SequencesOf ==
  ASSUME NEW S
  PROVE  /\ <<>> \in Seq(S)
         /\ \A x \in S : <<x>> \in Seq(S)
         /\ \A n \in Nat : \A f \in [1..n -> S] : f \in Seq(S)
         /\ \A s, t \in Seq(S) : s \o t \in Seq(S)
  OBVIOUS

LEMMA Division ==
  ASSUME NEW n \in Nat, NEW d \in Nat \ {0}
  PROVE  /\ n \div d \in Nat /\ n % d \in 0..(d - 1)
         /\ n = d * (n \div d) + (n % d)
  OBVIOUS

LEMMA Times ==
  ASSUME NEW n \in Nat, NEW d \in Nat \ {0}
  PROVE  n * d \in Nat /\ (n >= 1 => n * d >= d) /\ n * d >= n
  OBVIOUS

(* Up to d units, but some, take one block of d.                           *)
LEMMA BlocksOfUpto ==
  ASSUME NEW d \in Nat \ {0}, NEW n \in 1..d
  PROVE  (n + d - 1) \div d = 1
  OBVIOUS

(* A block number is split into a table block and a place in it.           *)
LEMMA Places ==
  ASSUME NEW b \in Nat, NEW n \in Nat, NEW d \in Nat \ {0}, b < n * d
  PROVE  /\ b \div d \in 0..(n - 1) /\ b % d \in 0..(d - 1)
         /\ b < d => b \div d = 0 /\ b % d = b
         /\ b >= d => b \div d >= 1
<1>1. /\ b \div d \in Nat /\ b % d \in 0..(d - 1)
      /\ b = d * (b \div d) + (b % d)
  BY Division
<1>2. b \div d < n
  <2>. DEFINE q == b \div d
  <2>. HIDE DEF q
  <2>1. SUFFICES ASSUME q >= n PROVE FALSE
    BY <1>1 DEF q
  <2>2. d * q >= n * d
    BY <2>1, <1>1 DEF q
  <2>. QED
    BY <1>1, <2>2 DEF q
<1>3. b < d => b \div d = 0 /\ b % d = b
  OBVIOUS
<1>4. b >= d => b \div d >= 1
  BY <1>1
<1>. QED
  BY <1>1, <1>2, <1>3, <1>4

(* Where the tables are.                                                   *)
LEMMA Layout ==
  /\ fat_len \in Nat \ {0} /\ dir_idx = fat_len + 1 /\ Reserved = fat_len + 2
  /\ Reserved <= EntriesPerBlock /\ EntriesPerBlock <= DISK_BLOCKS
  /\ 0..(dir_idx) \subseteq Blocks
<1>. DEFINE d == EntriesPerBlock
            n == fat_len
<1>1. n \in Nat
  <2>1. DISK_BLOCKS + EntriesPerBlock - 1 \in Nat
    BY FSAssumption
  <2>. QED
    BY <2>1, Division, FSAssumption DEF fat_len
<1>2. DISK_BLOCKS = n * d /\ DISK_BLOCKS \in Nat \ {0} /\ d \in Nat \ {0}
  BY FSAssumption
<1>3. dir_idx = n + 1 /\ Reserved = n + 2 /\ Reserved <= d
  BY <1>1, FSAssumption DEF dir_idx, Reserved, fat_idx
<1>. HIDE DEF d, n
<1>4. n # 0
  BY <1>2
<1>5. d <= n * d
  BY <1>1, <1>2, <1>4, Times
<1>. QED
  BY <1>1, <1>2, <1>3, <1>4, <1>5 DEF Blocks, d, n

-----------------------------------------------------------------------------
(* The inductive invariant.                                                *)

(* The data blocks that the first block of the FAT describes.              *)
Home == Reserved..(EntriesPerBlock - 1)

(* These, block 0 and the marks: what a chain may lead to.  umount_fs and  *)
(* make_fs fill the other blocks of the FAT with entries of other blocks   *)
(* and of the memory behind FAT, so nothing is known of those.             *)
Good == Marks \cup {0} \cup Home

(* Chains never lead into the tables, whose blocks are not free.  This is  *)
(* so whether a file system is mounted or not.                             *)
ChainsOK(f) ==
  /\ DOMAIN f = Index
  /\ \A b \in Good : f[b] \in Good
  /\ \A b \in 1..dir_idx : f[b] # FREE

Entries == [name : Names \cup {Empty}, used : BOOLEAN, size : Nat, head : Good, ref_cnt : Int]
DirOK(d) == d \in [Slots -> Entries] /\ WellNamed(d)

FdsOK == fildes \in [Fildes -> [used : BOOLEAN, file : Slots, offset : Nat]]

(* The tables on the disk are the image of such a FAT and directory: in    *)
(* the first block of the FAT the entries of the tables are not free, and  *)
(* all others lead to data blocks.                                         *)
EntryOK(j, x)    == IF j \in 1..dir_idx THEN x # FREE ELSE x \in Good
FatBlockOK(b, c) == /\ c.kind = "fat"
                    /\ b = fat_idx => \A j \in 0..(EntriesPerBlock - 1) : EntryOK(j, c.fat[j])
DirBlockOK(c)    == c.kind = "dir" /\ DirOK(c.dir)
DiskOK(d) ==
  /\ DOMAIN d = Blocks
  /\ d[0] = Super => /\ \A b \in fat_idx..(dir_idx - 1) : FatBlockOK(b, d[b])
                     /\ DirBlockOK(d[dir_idx])

Inv == ChainsOK(FAT) /\ DirOK(DIR) /\ FdsOK /\ DiskOK(disk)

LEMMA IndexHas ==
  /\ Index \subseteq Int /\ Blocks \subseteq Index /\ Marks \subseteq Index
  /\ {LAZY, END, FREE} = Marks /\ Marks \cap Nat = {} /\ Blocks \subseteq Nat
  /\ Blocks = 0..(DISK_BLOCKS - 1) /\ LAZY # END /\ LAZY # FREE /\ END # FREE
  BY FSAssumption DEF Blocks, Marks, LAZY, END, FREE

LEMMA MarksAreGood ==
  /\ {LAZY, END, FREE, 0} \subseteq Good /\ Good \subseteq Index
  /\ 1..dir_idx \subseteq Index /\ (1..dir_idx) \cap Good = {}
  /\ \A b \in 0..(EntriesPerBlock - 1) : b \in Blocks /\ (b \in Good <=> b \notin 1..dir_idx)
  /\ \A b \in Good : b \in Marks \/ b \in 0..(EntriesPerBlock - 1)
<1>1. dir_idx \in Nat /\ Reserved = dir_idx + 1 /\ Reserved <= EntriesPerBlock
      /\ EntriesPerBlock <= DISK_BLOCKS /\ EntriesPerBlock \in Nat /\ DISK_BLOCKS \in Nat
  BY Layout, FSAssumption
<1>. HIDE DEF dir_idx, Reserved
<1>2. Home \subseteq 0..(EntriesPerBlock - 1) /\ Home \cap 0..dir_idx = {}
      /\ 0..dir_idx \subseteq 0..(EntriesPerBlock - 1)
      /\ 0..(EntriesPerBlock - 1) = 0..dir_idx \cup Home
      /\ 0..(EntriesPerBlock - 1) \subseteq Blocks
  BY <1>1, IndexHas DEF Home
<1>3. Good = Marks \cup {0} \cup Home
  BY DEF Good
<1>4. 0..dir_idx = {0} \cup 1..dir_idx /\ 0 \notin 1..dir_idx /\ 1..dir_idx \subseteq Nat
      /\ 0..(EntriesPerBlock - 1) \subseteq Nat
  BY <1>1
<1>. QED
  BY <1>2, <1>3, <1>4, IndexHas

(* A block that the rules or the size of the disk allow is a good one.     *)
LEMMA LowIsGood ==
  ASSUME NEW f, ChainsOK(f), NEW b \in 0..(EntriesPerBlock - 1), f[b] = FREE
  PROVE  b \in Good
  BY MarksAreGood DEF ChainsOK

LEMMA FreshChains == ChainsOK(NoMemory) /\ \A m \in Around : ChainsOK(NewFAT(m))
<1>1. DOMAIN NoMemory = Index /\ \A b \in Index : NoMemory[b] = 0
  BY DEF NoMemory
<1>2. ChainsOK(NoMemory)
  BY <1>1, MarksAreGood DEF ChainsOK, FREE
<1>3. ASSUME NEW m \in Around PROVE ChainsOK(NewFAT(m))
  <2>1. DOMAIN NewFAT(m) = Index
    BY DEF NewFAT
  <2>2. ASSUME NEW b \in Good PROVE NewFAT(m)[b] \in {0, FREE, END}
    <3>1. b \in Index
      BY MarksAreGood
    <3>2. CASE b \in Marks
      BY <3>1, <3>2 DEF NewFAT
    <3>3. CASE b = 0
      BY <3>1, <3>3, IndexHas, MarksAreGood, Layout DEF NewFAT
    <3>4. CASE b \in Home
      <4>1. b \in Blocks /\ b \notin Marks /\ b >= Reserved
        BY <3>4, MarksAreGood, IndexHas, Layout, FSAssumption DEF Home
      <4>. QED
        BY <3>1, <4>1 DEF NewFAT
    <3>. QED
      BY <3>2, <3>3, <3>4 DEF Good
  <2>3. ASSUME NEW b \in 1..dir_idx PROVE NewFAT(m)[b] # FREE
    <3>1. b \in Index /\ b \in Blocks /\ b \notin Marks /\ ~(b >= Reserved) /\ b \in Nat
      BY Layout, MarksAreGood, IndexHas
    <3>2. NewFAT(m)[b] \in {END, b + 1}
      BY <3>1 DEF NewFAT
    <3>. QED
      BY <3>1, <3>2 DEF FREE, END
  <2>. QED
    BY <2>1, <2>2, <2>3, MarksAreGood DEF ChainsOK
<1>. QED
  BY <1>2, <1>3

LEMMA FreshDir == DirOK(NewDIR)
  BY MarksAreGood DEF DirOK, NewDIR, NewEntry, WellNamed, Entries

-----------------------------------------------------------------------------
(* The tables on their way to the disk and back.                           *)

(* The first block of the FAT is copied from where it is.                  *)
LEMMA ImageOK ==
  ASSUME NEW f, ChainsOK(f), NEW i \in Nat, NEW m
  PROVE  FatBlockOK(fat_idx + i, Image(f, i, m))
<1>1. Image(f, i, m).kind = "fat"
  BY DEF Image
<1>2. SUFFICES ASSUME fat_idx + i = fat_idx, NEW j \in 0..(EntriesPerBlock - 1)
               PROVE  EntryOK(j, Image(f, i, m).fat[j])
  BY <1>1 DEF FatBlockOK
<1>3. i = 0
  BY <1>2 DEF fat_idx
<1>4. 2 * i * EntriesPerBlock + j = j /\ j < DISK_BLOCKS
  BY <1>3, Layout, FSAssumption
<1>5. Image(f, i, m).fat[j] = f[j]
  BY <1>4 DEF Image
<1>. QED
  BY <1>5, MarksAreGood DEF EntryOK, ChainsOK

LEMMA KindsDiffer ==
  /\ \A u : File(u) # Super
  /\ \A f, i, m : Image(f, i, m) # Super
  /\ \A d : Table(d) # Super
  /\ Absent # Super
<1>1. Super.kind = "super" /\ Absent.kind = "absent"
  BY DEF Super, Absent
<1>2. /\ \A u : File(u).kind = "file"
      /\ \A f, i, m : Image(f, i, m).kind = "fat"
      /\ \A d : Table(d).kind = "dir"
  BY DEF File, Image, Table
<1>. QED
  BY <1>1, <1>2

(* However many of the writes of make_fs or umount_fs get through.         *)
LEMMA TablesOK ==
  ASSUME NEW old, DiskOK(old), NEW f, ChainsOK(f), NEW d, DirOK(d), NEW m, NEW n \in Nat
  PROVE  DiskOK(Tables(old, f, d, m, n))
<1>. DEFINE t == Tables(old, f, d, m, n)
<1>1. DOMAIN t = Blocks
  BY DEF Tables
<1>2. SUFFICES ASSUME t[0] = Super
               PROVE  /\ \A b \in fat_idx..(dir_idx - 1) : FatBlockOK(b, t[b])
                      /\ DirBlockOK(t[dir_idx])
  BY <1>1 DEF DiskOK
<1>3. 0 \in Blocks /\ dir_idx \in Blocks /\ fat_idx..(dir_idx - 1) \subseteq Blocks
      /\ fat_idx = 1 /\ dir_idx \in Nat \ {0} /\ fat_len \in Nat \ {0} /\ dir_idx = fat_len + 1
  BY Layout DEF fat_idx
<1>4. fat_len + 1 < n \/ old[0] = Super
  BY <1>2, <1>3 DEF Tables
<1>5. ASSUME NEW b \in fat_idx..(dir_idx - 1) PROVE FatBlockOK(b, t[b])
  <2>1. b \in Blocks /\ b - fat_idx \in Nat /\ b = fat_idx + (b - fat_idx) /\ b - fat_idx < fat_len
    BY <1>3
  <2>2. CASE b - fat_idx < n
    <3>1. t[b] = Image(f, b - fat_idx, m)
      BY <2>1, <2>2 DEF Tables
    <3>. QED
      BY <3>1, <2>1, ImageOK
  <2>3. CASE ~(b - fat_idx < n)
    <3>1. old[0] = Super /\ t[b] = old[b]
      BY <1>3, <1>4, <2>1, <2>3 DEF Tables
    <3>. QED
      BY <3>1 DEF DiskOK
  <2>. QED
    BY <2>2, <2>3
<1>6. DirBlockOK(t[dir_idx])
  <2>1. CASE fat_len < n
    <3>1. t[dir_idx] = Table(d)
      BY <1>3, <2>1 DEF Tables
    <3>. QED
      BY <3>1 DEF Table, DirBlockOK
  <2>2. CASE ~(fat_len < n)
    <3>1. old[0] = Super /\ t[dir_idx] = old[dir_idx]
      BY <1>3, <1>4, <2>2 DEF Tables
    <3>. QED
      BY <3>1 DEF DiskOK
  <2>. QED
    BY <2>1, <2>2
<1>. QED
  BY <1>5, <1>6

LEMMA ErasedOK == DiskOK([b \in Blocks |-> Erased])
  BY Layout, KindsDiffer DEF DiskOK, Erased

LEMMA BeforeIsNat ==
  ASSUME NEW op \in DOMAIN Faults, NEW k \in Failing(op)
  PROVE  Before(k) \in Nat
  BY FSAssumption, Layout DEF Before, Failing, AllTables

(* What mount_fs loads, be it all of the FAT or some blocks of it.         *)
LEMMA LoadedOK ==
  ASSUME ChainsOK(FAT), DiskOK(disk), disk[0] = Super, NEW n \in Nat, NEW m
  PROVE  ChainsOK(LoadedFAT(n, m))
<1>1. DOMAIN LoadedFAT(n, m) = Index
  BY DEF LoadedFAT
<1>2. ASSUME NEW b \in Marks
      PROVE  LoadedFAT(n, m)[b] = FAT[b]
  <2>1. b \in Index /\ b \notin Nat
    BY IndexHas
  <2>. QED
    BY <2>1 DEF LoadedFAT
<1>3. ASSUME NEW b \in 0..(EntriesPerBlock - 1)
      PROVE  LoadedFAT(n, m)[b] = FAT[b] \/ EntryOK(b, LoadedFAT(n, m)[b])
  <2>1. b \in Index /\ b \in Blocks /\ b \in Nat /\ b < EntriesPerBlock
    BY MarksAreGood, IndexHas, FSAssumption
  <2>2. CASE b \in 0..(n * EntriesPerBlock - 1)
    <3>1. b \div EntriesPerBlock = 0 /\ b % EntriesPerBlock = b
      BY <2>1, FSAssumption
    <3>2. LoadedFAT(n, m)[b] = disk[fat_idx + b \div EntriesPerBlock].fat[b % EntriesPerBlock]
      BY <2>1, <2>2 DEF LoadedFAT
    <3>3. fat_idx + 0 = fat_idx /\ fat_idx \in fat_idx..(dir_idx - 1)
      BY Layout DEF fat_idx
    <3>. QED
      BY <3>1, <3>2, <3>3 DEF DiskOK, FatBlockOK
  <2>3. CASE b \notin 0..(n * EntriesPerBlock - 1)
    BY <2>1, <2>3 DEF LoadedFAT
  <2>. QED
    BY <2>2, <2>3
<1>4. ASSUME NEW b \in Good PROVE LoadedFAT(n, m)[b] \in Good
  <2>1. CASE b \in Marks
    BY <1>2, <2>1 DEF ChainsOK
  <2>2. CASE b \in 0..(EntriesPerBlock - 1)
    BY <1>3, <2>2, MarksAreGood DEF ChainsOK, EntryOK
  <2>. QED
    BY <2>1, <2>2, MarksAreGood
<1>5. ASSUME NEW b \in 1..dir_idx PROVE LoadedFAT(n, m)[b] # FREE
  <2>1. b \in 0..(EntriesPerBlock - 1)
    BY Layout, FSAssumption
  <2>. QED
    BY <1>3, <2>1 DEF ChainsOK, EntryOK
<1>. QED
  BY <1>1, <1>4, <1>5 DEF ChainsOK

-----------------------------------------------------------------------------
(* Chains: walking, freeing and linking.                                   *)

LEMMA FreedOK ==
  ASSUME NEW f, ChainsOK(f), NEW S, S \subseteq Good
  PROVE  ChainsOK(Freed(f, S))
  BY MarksAreGood DEF ChainsOK, Freed

LEMMA GoodReach ==
  ASSUME NEW f, ChainsOK(f), NEW b \in Good
  PROVE  Reach(f, b, {END}) \subseteq Good
<1>1. Good \in SUBSET DOMAIN f /\ \A j \in Good : f[j] \in Good
  BY MarksAreGood DEF ChainsOK
<1>. QED
  BY <1>1, ReachStays

LEMMA FreeChainOK ==
  ASSUME NEW f, ChainsOK(f), NEW b \in Good
  PROVE  ChainsOK(FreeChain(f, b).fat)
<1>. DEFINE way   == Reach(f, b, {END})
            way2  == Reach(Freed(f, way), FREE, {END})
            freed == (IF END \in way THEN way ELSE way \cup way2) \ {END}
<1>1. way \subseteq Good /\ ChainsOK(Freed(f, way))
  BY GoodReach, FreedOK
<1>2. way2 \subseteq Good
  <2>. HIDE DEF way
  <2>1. FREE \in Good
    BY MarksAreGood
  <2>. QED
    BY <1>1, <2>1, GoodReach
<1>3. freed \subseteq Good
  BY <1>1, <1>2
<1>4. FreeChain(f, b).fat = Freed(f, freed)
  BY DEF FreeChain
<1>. QED
  BY <1>3, <1>4, FreedOK

LEMMA ReleaseOK ==
  ASSUME ChainsOK(FAT), NEW b \in Good, ReleaseFrom(b)
  PROVE  ChainsOK(FAT')
<1>. DEFINE f == FreeChain(FAT, b).fat
<1>1. ChainsOK(f)
  BY FreeChainOK
<1>2. FAT' = f \/ FAT' = [f EXCEPT ![END] = FREE]
  BY DEF ReleaseFrom
<1>. HIDE DEF f
<1>3. ChainsOK([f EXCEPT ![END] = FREE])
  BY <1>1, MarksAreGood DEF ChainsOK
<1>. QED
  BY <1>1, <1>2, <1>3 DEF ChainsOK

(* What is free is no table block.                                         *)
LEMMA FreeIsGood ==
  ASSUME ChainsOK(FAT)
  PROVE  /\ FreeBlocks \subseteq Nat /\ IsFiniteSet(FreeBlocks) /\ FreeBlocks \subseteq Index
         /\ FreeBlocks \cap 0..(EntriesPerBlock - 1) \subseteq Good
<1>1. IsFiniteSet(Blocks)
  BY FS_Interval, FSAssumption DEF Blocks
<1>2. IsFiniteSet(FreeBlocks)
  BY <1>1, FS_Subset DEF FreeBlocks
<1>3. FreeBlocks \subseteq Blocks /\ \A b \in FreeBlocks : FAT[b] = FREE
  BY DEF FreeBlocks
<1>4. FreeBlocks \cap 0..(EntriesPerBlock - 1) \subseteq Good
  BY <1>3, LowIsGood
<1>. QED
  BY <1>2, <1>3, <1>4, IndexHas

LEMMA LinkedOK ==
  ASSUME ChainsOK(FAT), NEW S \in SUBSET FreeBlocks, S \subseteq Good, NEW last \in Good
  PROVE  ChainsOK(Linked(S, last))
<1>1. DOMAIN Linked(S, last) = Index
  BY DEF Linked
<1>2. ASSUME NEW b \in Index, b \notin S PROVE Linked(S, last)[b] = FAT[b]
  BY <1>2 DEF Linked
<1>3. ASSUME NEW b \in S PROVE Linked(S, last)[b] \in Good
  <2>1. b \in Index /\ S \subseteq Nat /\ S \subseteq Good
    BY FreeIsGood, MarksAreGood
  <2>2. CASE \A c \in S : c <= b
    BY <2>1, <2>2 DEF Linked
  <2>3. CASE ~ \A c \in S : c <= b
    <3>. DEFINE T == {c \in S : c > b}
    <3>1. PICK c \in S : ~(c <= b)
      BY <2>3
    <3>2. c > b
      <4>1. b \in Nat /\ c \in Nat
        BY <2>1
      <4>. QED
        BY <4>1, <3>1
    <3>3. T # {} /\ T \in SUBSET Nat
      BY <2>1, <3>2
    <3>4. First(T) \in T
      <4>. HIDE DEF T
      <4>. QED
        BY <3>3, FirstIsLeast
    <3>5. Linked(S, last)[b] = First(T)
      BY <2>1, <2>3 DEF Linked
    <3>. QED
      BY <2>1, <3>4, <3>5
  <2>. QED
    BY <2>2, <2>3
<1>. QED
  BY <1>1, <1>2, <1>3, MarksAreGood DEF ChainsOK

(* Of a finite set there is an n-th element for every n up to its size.    *)
LEMMA NthExists ==
  ASSUME NEW S \in SUBSET Nat, IsFiniteSet(S)
  PROVE  \A n \in 1..Cardinality(S) : \E b \in S : Cardinality({c \in S : c <= b}) = n
<1>. DEFINE Below(b) == {c \in S : c <= b}
            Bad == {n \in 1..Cardinality(S) : \A b \in S : Cardinality(Below(b)) # n}
            m == First(Bad)
<1>1. Cardinality(S) \in Nat
  BY FS_CardinalityType
<1>2. SUFFICES ASSUME Bad # {} PROVE FALSE
  OBVIOUS
<1>3. m \in Bad /\ \A k \in Bad : m <= k
  <2>1. Bad \in SUBSET Nat
    BY <1>1
  <2>. HIDE DEF Bad
  <2>. QED
    BY <1>2, <2>1, FirstIsLeast
<1>. HIDE DEF m
<1>4. m \in Nat \ {0} /\ m <= Cardinality(S)
  BY <1>1, <1>3
(* The elements before the n-th: none, or those up to the one before.      *)
<1>5. \E U \in SUBSET S : Cardinality(U) = m - 1 /\ \A c \in U : \A b \in S \ U : c < b
  <2>1. CASE m = 1
    <3>1. {} \in SUBSET S /\ Cardinality({}) = m - 1
      BY <2>1, FS_EmptySet
    <3>. QED
      BY <3>1
  <2>2. CASE m # 1
    <3>1. m - 1 \in 1..Cardinality(S) /\ ~(m <= m - 1)
      BY <2>2, <1>1, <1>4
    <3>2. m - 1 \notin Bad
      BY <1>3, <3>1
    <3>3. PICK a \in S : Cardinality(Below(a)) = m - 1
      BY <3>1, <3>2
    <3>4. \A c \in Below(a) : \A b \in S \ Below(a) : c < b
      OBVIOUS
    <3>5. Below(a) \in SUBSET S
      OBVIOUS
    <3>. QED
      BY <3>3, <3>4, <3>5
  <2>. QED
    BY <2>1, <2>2
<1>6. PICK U \in SUBSET S : Cardinality(U) = m - 1 /\ \A c \in U : \A b \in S \ U : c < b
  BY <1>5
<1>7. S \ U # {}
  <2>1. SUFFICES ASSUME U = S PROVE FALSE
    BY <1>6
  <2>2. Cardinality(S) = m - 1
    BY <1>6, <2>1
  <2>. QED
    BY <2>2, <1>1, <1>4
<1>. DEFINE b == First(S \ U)
<1>8. b \in S \ U /\ \A c \in S \ U : b <= c
  BY <1>7, FirstIsLeast
<1>. HIDE DEF b
<1>9. Below(b) = U \cup {b}
  <2>1. ASSUME NEW c \in S PROVE c <= b <=> c \in U \/ c = b
    <3>1. CASE c \in U
      <4>1. c < b /\ c \in Nat /\ b \in Nat
        BY <1>6, <1>8, <3>1
      <4>. QED
        BY <4>1, <3>1
    <3>2. CASE c \notin U
      <4>1. b <= c /\ c \in Nat /\ b \in Nat
        BY <1>8, <3>2
      <4>. QED
        BY <4>1, <3>2
    <3>. QED
      BY <3>1, <3>2
  <2>. QED
    BY <2>1, <1>8
<1>10. IsFiniteSet(U)
  BY FS_Subset
<1>11. Cardinality(U \cup {b}) = m
  <2>1. Cardinality(U \cup {b}) = Cardinality(U) + 1
    BY <1>8, <1>10, FS_AddElement
  <2>. QED
    BY <2>1, <1>4, <1>6
<1>. QED
  BY <1>3, <1>8, <1>9, <1>11

LEMMA NthFreeOK ==
  ASSUME ChainsOK(FAT), NEW n \in 1..Cardinality(FreeBlocks)
  PROVE  NthFree(n) \in FreeBlocks
<1>1. FreeBlocks \in SUBSET Nat /\ IsFiniteSet(FreeBlocks)
  BY FreeIsGood
<1>2. \E b \in FreeBlocks : Cardinality({c \in FreeBlocks : c <= b}) = n
  BY <1>1, NthExists
<1>. QED
  BY <1>2 DEF NthFree

-----------------------------------------------------------------------------
(* Writing.                                                                *)

(* Pieces for blocks outside the tables leave the tables alone.            *)
LEMMA TablesUntouched ==
  ASSUME NEW pieces, NEW n, NEW buf, \A i \in 1..n : pieces[i].block \in Good
  PROVE  /\ \A b \in 1..dir_idx : DiskWith(pieces, n, buf)[b] = disk[b]
         /\ DiskWith(pieces, n, buf)[0] = Super => disk[0] = Super
<1>. DEFINE d == DiskWith(pieces, n, buf)
            to(b) == {i \in 1..n : pieces[i].block = b}
<1>1. \A b \in Blocks : to(b) = {} => d[b] = disk[b]
  BY DEF DiskWith
<1>2. \A b \in Blocks : to(b) # {} => \E u : d[b] = File(u)
  BY DEF DiskWith, Merged
<1>3. \A b \in 1..dir_idx : b \in Blocks /\ to(b) = {}
  BY Layout, MarksAreGood
<1>. HIDE DEF d
<1>4. d[0] = Super => disk[0] = Super
  BY <1>1, <1>2, Layout, KindsDiffer
<1>. QED
  BY <1>1, <1>3, <1>4 DEF d

LEMMA DiskWithOK ==
  ASSUME DiskOK(disk), NEW pieces, NEW n, NEW buf,
         \A i \in 1..n : pieces[i].block \in Good
  PROVE  DiskOK(DiskWith(pieces, n, buf))
<1>. DEFINE d == DiskWith(pieces, n, buf)
<1>1. DOMAIN d = Blocks
  BY DEF DiskWith
<1>. HIDE DEF d
<1>2. /\ \A b \in 1..dir_idx : d[b] = disk[b]
      /\ d[0] = Super => disk[0] = Super
  BY TablesUntouched DEF d
<1>3. fat_idx..(dir_idx - 1) \subseteq 1..dir_idx /\ dir_idx \in 1..dir_idx
  BY Layout DEF fat_idx
<1>. QED
  BY <1>1, <1>2, <1>3 DEF DiskOK, d

(* Pieces up to the first that fails.                                      *)
LEMMA WrittenType ==
  ASSUME NEW pieces, Len(pieces) \in Nat, NEW k
  PROVE  Written(pieces, k) \in 0..Len(pieces)
<1>. DEFINE S == {Len(pieces) + 1} \cup
                 {i \in 1..Len(pieces) : i = k \/ ~BlockWorks(pieces[i].block)}
<1>1. (\A s \in S : s \in Nat /\ s - 1 \in 0..Len(pieces)) /\ S # {}
  OBVIOUS
<1>2. First(S) \in S
  <2>. HIDE DEF S
  <2>. QED
    BY <1>1, FirstIsLeast
<1>3. Written(pieces, k) = First(S) - 1
  BY DEF Written
<1>. HIDE DEF S
<1>. QED
  BY <1>1, <1>2, <1>3

LEMMA BufferType ==
  ASSUME NEW buf \in Buffers
  PROVE  Len(buf) \in Nat \ {0}
<1>1. buf \in Seq(Data) /\ buf # <<>>
  BY FSAssumption
<1>. QED
  BY <1>1

(* The pieces of a first write are for free blocks.                        *)
LEMMA ChunksOK ==
  ASSUME ChainsOK(FAT), NEW buf \in Buffers
  PROVE  /\ Len(Chunks(buf)) \in Nat
         /\ \A i \in 1..Len(Chunks(buf)) : /\ BlockOf(i) \in 1..Cardinality(FreeBlocks)
                                           /\ Chunks(buf)[i].block = NthFree(BlockOf(i))
                                           /\ Chunks(buf)[i].block \in FreeBlocks
<1>. DEFINE l == (Len(buf) + BLOCK_SIZE - 1) \div BLOCK_SIZE
            free == Cardinality(FreeBlocks)
            n == Minimum(l, 2 * free)
<1>1. l \in Nat /\ free \in Nat
  <2>1. Len(buf) + BLOCK_SIZE - 1 \in Nat /\ BLOCK_SIZE \in Nat \ {0}
    BY BufferType, FSAssumption
  <2>. QED
    BY <2>1, Division, FreeIsGood, FS_CardinalityType
<1>2. n \in Nat /\ n <= 2 * free
  <2>. HIDE DEF l, free
  <2>. QED
    BY <1>1 DEF Minimum
<1>3. Len(Chunks(buf)) = n /\ \A i \in 1..n : Chunks(buf)[i].block = NthFree(BlockOf(i))
  <2>. HIDE DEF n
  <2>1. Chunks(buf) = [i \in 1..n |->
          Piece(NthFree(BlockOf(i)), 0, (i - 1) * BLOCK_SIZE,
                Minimum(BLOCK_SIZE, Len(buf) - (i - 1) * BLOCK_SIZE), Uninitialised)]
    BY DEF Chunks, n
  <2>. QED
    BY <1>2, <2>1 DEF Piece
<1>4. ASSUME NEW i \in 1..n PROVE BlockOf(i) \in 1..free
  <2>. HIDE DEF n, free
  <2>. QED
    BY <1>1, <1>2 DEF BlockOf
<1>. HIDE DEF n
<1>. QED
  BY <1>2, <1>3, <1>4, NthFreeOK

(* A piece takes units that the buffer has, and the rest from a block or   *)
(* from memory that nobody has set.                                        *)
PieceFits(p, buf) ==
  /\ \A u \in (p.at + 1)..(p.at + p.len) : p.from + u - p.at \in 1..Len(buf)
  /\ p.base = Uninitialised \/ \E b \in Good : p.base = UnitsOf(b)

LEMMA ChunksFit ==
  ASSUME ChainsOK(FAT), NEW buf \in Buffers, NEW i \in 1..Len(Chunks(buf))
  PROVE  PieceFits(Chunks(buf)[i], buf)
<1>. DEFINE from == (i - 1) * BLOCK_SIZE
            len == Minimum(BLOCK_SIZE, Len(buf) - from)
<1>1. Len(buf) \in Nat /\ BLOCK_SIZE \in Nat
  BY BufferType, FSAssumption
<1>2. i - 1 \in Nat
  <2>1. Len(Chunks(buf)) \in Nat
    BY ChunksOK
  <2>. QED
    BY <2>1
<1>3. from \in Nat
  BY <1>2, Times, FSAssumption
<1>4. /\ Chunks(buf)[i].at = 0 /\ Chunks(buf)[i].from = from
      /\ Chunks(buf)[i].len = len /\ Chunks(buf)[i].base = Uninitialised
  <2>. DEFINE n == Minimum((Len(buf) + BLOCK_SIZE - 1) \div BLOCK_SIZE,
                           2 * Cardinality(FreeBlocks))
  <2>1. Chunks(buf) = [j \in 1..n |->
          Piece(NthFree(BlockOf(j)), 0, (j - 1) * BLOCK_SIZE,
                Minimum(BLOCK_SIZE, Len(buf) - (j - 1) * BLOCK_SIZE), Uninitialised)]
    BY DEF Chunks
  <2>2. n \in Nat
    <3>1. (Len(buf) + BLOCK_SIZE - 1) \div BLOCK_SIZE \in Nat
      <4>1. Len(buf) + BLOCK_SIZE - 1 \in Nat
        BY BufferType, FSAssumption
      <4>. QED
        BY <4>1, Division, FSAssumption
    <3>2. Cardinality(FreeBlocks) \in Nat
      BY FreeIsGood, FS_CardinalityType
    <3>. QED
      BY <3>1, <3>2 DEF Minimum
  <2>. HIDE DEF n
  <2>3. Len(Chunks(buf)) = n
    BY <2>1, <2>2
  <2>4. i \in 1..n
    BY <2>3
  <2>. QED
    BY <2>1, <2>4 DEF Piece
<1>. HIDE DEF from
<1>5. \A u \in (0 + 1)..(0 + len) : from + u - 0 \in 1..Len(buf)
  BY <1>1, <1>3 DEF Minimum
<1>. HIDE DEF len
<1>. QED
  BY <1>4, <1>5 DEF PieceFits

(* Those of a later write are for blocks of the file's chain.              *)
LEMMA OverwritingOK ==
  ASSUME ChainsOK(FAT), NEW fd, NEW buf \in Buffers,
         fildes[fd].offset \in Nat, Entry(fd).head \in Good
  PROVE  LET pieces == Overwriting(fd, buf).pieces
         IN  /\ Len(pieces) \in Nat
             /\ \A i \in 1..Len(pieces) : /\ pieces[i].block \in Good
                                           /\ PieceFits(pieces[i], buf)
<1>. DEFINE o     == fildes[fd].offset
            n     == Len(buf)
            at    == o % BLOCK_SIZE
            q     == o \div BLOCK_SIZE
            way   == Path(FAT, Entry(fd).head, q + n + 1)
            W(i)  == way[q + i]
            part  == IF at = 0 THEN 0 ELSE Minimum(BLOCK_SIZE - at, n)
            T     == {i \in 0..n : FAT[W(i + 1)] = END \/ part + (i + 1) * BLOCK_SIZE > n}
            whole == IF part = n THEN 0 ELSE First(T)
            rest  == n - part - whole * BLOCK_SIZE
            A == IF part = 0 THEN <<>> ELSE <<Piece(W(0), at, 0, part, UnitsOf(W(0)))>>
            B == [i \in 1..whole |-> Piece(W(i), 0, part + (i - 1) * BLOCK_SIZE,
                                            BLOCK_SIZE, Uninitialised)]
            C == IF rest = 0 THEN <<>>
                 ELSE <<Piece(W(whole + 1), 0, n - rest, Minimum(rest, BLOCK_SIZE),
                              UnitsOf(W(whole + 1)))>>
            Bases == {UnitsOf(b) : b \in Good} \cup {Uninitialised}
            X == {p \in [block : Good, at : Int, from : Int, len : Int, base : Bases] :
                    PieceFits(p, buf)}
<1>1. n \in Nat \ {0} /\ BLOCK_SIZE \in Nat \ {0}
  BY BufferType, FSAssumption
<1>2. q \in Nat /\ at \in 0..(BLOCK_SIZE - 1)
  BY <1>1, Division
<1>3. \A i \in 0..(n + 1) : W(i) \in Good
  <2>. HIDE DEF q, n
  <2>1. q + n + 1 \in Nat
    BY <1>1, <1>2
  <2>2. \A i \in 0..(q + n + 1) : way[i] \in Good
    BY <2>1, PathStays DEF ChainsOK
  <2>. QED
    BY <1>1, <1>2, <2>2
<1>. HIDE DEF q, way, at
<1>4. part \in 0..n
  <2>. HIDE DEF n
  <2>. QED
    BY <1>1, <1>2 DEF Minimum
<1>. HIDE DEF part
<1>5. whole \in 0..n /\ part + whole * BLOCK_SIZE <= n
  <2>. HIDE DEF n
  <2>1. (n + 1) * BLOCK_SIZE \in Nat /\ (n + 1) * BLOCK_SIZE >= n + 1
    <3>1. n + 1 \in Nat
      BY <1>1
    <3>. QED
      BY <1>1, <3>1, Times
  <2>2. part + (n + 1) * BLOCK_SIZE > n
    BY <1>1, <1>4, <2>1
  <2>3. n \in T
    BY <1>1, <2>2
  <2>4. T \in SUBSET Nat /\ \A i \in T : i \in 0..n
    BY <1>1
  <2>5. First(T) \in T /\ \A i \in T : First(T) <= i
    <3>. HIDE DEF T
    <3>. QED
      BY <2>3, <2>4, FirstIsLeast
  <2>6. CASE part = n
    BY <1>1, <2>6
  <2>7. CASE part # n
    <3>1. whole = First(T) /\ whole \in 0..n
      BY <2>4, <2>5, <2>7
    <3>2. \A i \in 0..n : i < whole => part + (i + 1) * BLOCK_SIZE <= n
      <4>1. ASSUME NEW i \in 0..n, i < whole PROVE i \notin T
        <5>. HIDE DEF T, whole
        <5>. QED
          BY <1>1, <2>5, <3>1, <4>1
      <4>2. ASSUME NEW i \in 0..n, i < whole PROVE (i + 1) * BLOCK_SIZE \in Nat
        BY <1>1
      <4>. HIDE DEF whole
      <4>. QED
        BY <1>1, <1>4, <4>1, <4>2
    <3>. HIDE DEF whole, T
    <3>3. CASE whole = 0
      BY <1>1, <1>4, <3>3
    <3>4. CASE whole # 0
      <4>1. whole - 1 \in 0..n /\ whole - 1 < whole /\ (whole - 1) + 1 = whole
        BY <1>1, <3>1, <3>4
      <4>2. part + ((whole - 1) + 1) * BLOCK_SIZE <= n
        BY <3>2, <4>1
      <4>. QED
        BY <3>1, <4>1, <4>2
    <3>. QED
      BY <3>1, <3>3, <3>4
  <2>. QED
    BY <2>6, <2>7
<1>. HIDE DEF whole, n
<1>6. rest \in Nat /\ rest <= n /\ \A i \in 1..whole : part + (i - 1) * BLOCK_SIZE \in Nat
                                     /\ part + (i - 1) * BLOCK_SIZE + BLOCK_SIZE <= n
  <2>1. whole * BLOCK_SIZE \in Nat
    BY <1>1, <1>5
  <2>2. rest \in Nat /\ rest <= n
    BY <1>1, <1>4, <1>5, <2>1
  <2>3. ASSUME NEW i \in 1..whole
        PROVE  /\ part + (i - 1) * BLOCK_SIZE \in Nat
               /\ part + (i - 1) * BLOCK_SIZE + BLOCK_SIZE <= n
    <3>. DEFINE k == i - 1
                l == whole - i
    <3>1. k \in Nat /\ l \in Nat /\ whole = k + l + 1
      BY <1>1, <1>5
    <3>. HIDE DEF k, l
    <3>2. /\ whole * BLOCK_SIZE = k * BLOCK_SIZE + l * BLOCK_SIZE + BLOCK_SIZE
          /\ k * BLOCK_SIZE \in Nat /\ l * BLOCK_SIZE \in Nat
      BY <1>1, <3>1
    <3>3. part + k * BLOCK_SIZE \in Nat /\ part + k * BLOCK_SIZE + BLOCK_SIZE <= n
      BY <1>1, <1>4, <1>5, <3>2
    <3>. QED
      BY <3>3 DEF k
  <2>. QED
    BY <2>2, <2>3
<1>. HIDE DEF rest
<1>7. A \in Seq(X)
  <2>. DEFINE p == Piece(W(0), at, 0, part, UnitsOf(W(0)))
  <2>1. p \in [block : Good, at : Int, from : Int, len : Int, base : Bases]
    BY <1>1, <1>2, <1>3, <1>4 DEF Piece
  <2>2. p.at = at /\ p.from = 0 /\ p.len = part /\ p.base = UnitsOf(W(0)) /\ W(0) \in Good
    BY <1>1, <1>3 DEF Piece
  <2>. HIDE DEF p
  <2>3. \A u \in (at + 1)..(at + part) : 0 + u - at \in 1..Len(buf)
    BY <1>1, <1>2, <1>4 DEF n
  <2>4. PieceFits(p, buf)
    BY <2>2, <2>3 DEF PieceFits
  <2>5. p \in X
    BY <2>1, <2>4
  <2>. HIDE DEF X
  <2>. QED
    BY <2>5, SequencesOf DEF p
<1>8. B \in Seq(X)
  <2>1. ASSUME NEW i \in 1..whole
        PROVE  Piece(W(i), 0, part + (i - 1) * BLOCK_SIZE, BLOCK_SIZE, Uninitialised) \in X
    <3>. DEFINE from == part + (i - 1) * BLOCK_SIZE
                p    == Piece(W(i), 0, from, BLOCK_SIZE, Uninitialised)
    <3>1. W(i) \in Good
      BY <1>1, <1>3, <1>5
    <3>2. from \in Nat /\ from + BLOCK_SIZE <= n
      BY <1>6
    <3>. HIDE DEF from
    <3>3. p \in [block : Good, at : Int, from : Int, len : Int, base : Bases]
      BY <3>1, <1>1, <3>2 DEF Piece
    <3>4. p.at = 0 /\ p.from = from /\ p.len = BLOCK_SIZE /\ p.base = Uninitialised
      BY DEF Piece
    <3>. HIDE DEF p
    <3>5. \A u \in (0 + 1)..(0 + BLOCK_SIZE) : from + u - 0 \in 1..Len(buf)
      BY <1>1, <3>2 DEF n
    <3>6. PieceFits(p, buf)
      BY <3>4, <3>5 DEF PieceFits
    <3>7. p \in X
      BY <3>3, <3>6
    <3>. QED
      BY <3>7 DEF p, from
  <2>2. B \in [1..whole -> X]
    BY <2>1
  <2>3. whole \in Nat
    BY <1>1, <1>5
  <2>. HIDE DEF X, B
  <2>. QED
    BY <2>2, <2>3, SequencesOf
<1>9. C \in Seq(X)
  <2>1. Piece(W(whole + 1), 0, n - rest, Minimum(rest, BLOCK_SIZE), UnitsOf(W(whole + 1))) \in X
    <3>. DEFINE b   == W(whole + 1)
                len == Minimum(rest, BLOCK_SIZE)
                p   == Piece(b, 0, n - rest, len, UnitsOf(b))
    <3>1. b \in Good
      BY <1>1, <1>3, <1>5
    <3>2. n - rest \in Nat /\ len \in Int /\ len <= rest
      BY <1>1, <1>6 DEF Minimum
    <3>. HIDE DEF len, b
    <3>3. p \in [block : Good, at : Int, from : Int, len : Int, base : Bases]
      BY <3>1, <3>2 DEF Piece
    <3>4. p.at = 0 /\ p.from = n - rest /\ p.len = len /\ p.base = UnitsOf(b)
      BY DEF Piece
    <3>. HIDE DEF p
    <3>5. \A u \in (0 + 1)..(0 + len) : n - rest + u - 0 \in 1..Len(buf)
      BY <1>1, <1>6, <3>2 DEF n
    <3>6. PieceFits(p, buf)
      BY <3>1, <3>4, <3>5 DEF PieceFits
    <3>7. p \in X
      BY <3>3, <3>6
    <3>. QED
      BY <3>7 DEF p, len, b
  <2>. HIDE DEF X
  <2>. QED
    BY <2>1, SequencesOf
<1>10. Overwriting(fd, buf).pieces = A \o B \o C
  BY DEF Overwriting, o, n, at, q, way, part, whole, rest
<1>. HIDE DEF A, B, C, X
<1>11. A \o B \o C \in Seq(X)
  BY <1>7, <1>8, <1>9
<1>12. \A x \in X : x.block \in Good /\ PieceFits(x, buf)
  BY DEF X
<1>. QED
  BY <1>10, <1>11, <1>12

-----------------------------------------------------------------------------
(* The invariant holds at first and is kept by every call.                 *)
USE DEF vars, memVars, diskVars

LEMMA InitInv == Init => Inv
<1>1. SUFFICES ASSUME Init PROVE Inv
  OBVIOUS
<1>2. ChainsOK(FAT) /\ DirOK(DIR)
  BY <1>1, FreshChains, FreshDir DEF Init, NewDIR
<1>3. FdsOK
  BY <1>1, FSAssumption DEF Init, FdsOK, NewFd, Slots
<1>4. DiskOK(disk)
  BY <1>1, Layout, KindsDiffer DEF Init, DiskOK
<1>. QED
  BY <1>2, <1>3, <1>4 DEF Inv

LEMMA SameInv ==
  ASSUME Inv, UNCHANGED <<FAT, DIR, fildes, disk>>
  PROVE  Inv'
  BY DEF Inv, ChainsOK, DirOK, WellNamed, FdsOK, DiskOK, FatBlockOK, DirBlockOK

(* A call that changes no name and no use of a slot keeps the directory    *)
(* sound.                                                                  *)
LEMMA SameNames ==
  ASSUME NEW d, DirOK(d), NEW i \in Slots, NEW e \in Entries,
         e.used = d[i].used, e.name = d[i].name
  PROVE  DirOK([d EXCEPT ![i] = e])
<1>. DEFINE c == [d EXCEPT ![i] = e]
<1>1. c \in [Slots -> Entries]
  BY DEF DirOK
<1>2. \A j \in Slots : c[j].used = d[j].used /\ c[j].name = d[j].name
  BY DEF DirOK
<1>. HIDE DEF c
<1>3. WellNamed(c)
  BY <1>2 DEF DirOK, WellNamed
<1>. QED
  BY <1>1, <1>3 DEF DirOK, c

LEMMA NewFdsOK == [i \in Fildes |-> NewFd] \in [Fildes -> [used : BOOLEAN, file : Slots, offset : Nat]]
  BY FSAssumption DEF NewFd, Slots

LEMMA MountCallInv ==
  ASSUME Inv, MountCall
  PROVE  Inv'
<1>1. CASE make_fs
  <2>1. PICK m \in Around, k \in Failing("make") :
          /\ FAT' = NewFAT(m) /\ DIR' = NewDIR /\ UNCHANGED fildes
          /\ disk' = Tables([b \in Blocks |-> Erased], NewFAT(m), NewDIR, m, Before(k))
    BY <1>1 DEF make_fs
  <2>2. Before(k) \in Nat
    BY BeforeIsNat, FSAssumption
  <2>3. DiskOK(disk')
    BY <2>1, <2>2, TablesOK, ErasedOK, FreshChains, FreshDir
  <2>. QED
    BY <2>1, <2>3, FreshChains, FreshDir DEF Inv, FdsOK, DiskOK
<1>2. CASE make_fs_Busy
  <2>1. DiskOK(disk') /\ UNCHANGED <<FAT, DIR, fildes>>
    BY <1>2, ErasedOK DEF make_fs_Busy, make_disk
  <2>. QED
    BY <2>1 DEF Inv, ChainsOK, DirOK, WellNamed, FdsOK
<1>3. CASE mount_fs
  <2>1. ChainsOK(FAT') /\ DirOK(DIR')
    <3>1. PICK m \in Around : FAT' = LoadedFAT(fat_len, m) /\ DIR' = disk[dir_idx].dir /\ disk[0] = Super
      BY <1>3 DEF mount_fs
    <3>. QED
      BY <3>1, LoadedOK, Layout DEF Inv, DiskOK, DirBlockOK
  <2>2. fildes' \in [Fildes -> [used : BOOLEAN, file : Slots, offset : Nat]] /\ UNCHANGED disk
    BY <1>3, NewFdsOK DEF mount_fs
  <2>. QED
    BY <2>1, <2>2 DEF Inv, FdsOK, DiskOK
<1>4. CASE mount_fs_Overrun
  <2>1. ChainsOK(FAT') /\ DirOK(DIR') /\ UNCHANGED disk
    BY <1>4, FreshChains, FreshDir DEF mount_fs_Overrun
  <2>2. fildes' \in [Fildes -> [used : BOOLEAN, file : Slots, offset : Nat]]
    BY <1>4, NewFdsOK DEF mount_fs_Overrun
  <2>. QED
    BY <2>1, <2>2 DEF Inv, FdsOK, DiskOK
<1>5. CASE umount_fs
  <2>1. PICK m \in Around, k \in Failing("umount") :
          UNCHANGED <<FAT, DIR, fildes>> /\ disk' = Tables(disk, FAT, DIR, m, Before(k))
    BY <1>5 DEF umount_fs
  <2>2. Before(k) \in Nat
    BY BeforeIsNat, FSAssumption
  <2>3. DiskOK(disk')
    BY <2>1, <2>2, TablesOK DEF Inv
  <2>. QED
    BY <2>1, <2>3 DEF Inv, ChainsOK, DirOK, WellNamed, FdsOK
<1>6. CASE mounting_Refused \/ mount_fs_Abort \/ mount_fs_NoSuper
  BY <1>6, SameInv DEF mounting_Refused, Refused, mount_fs_Abort, mount_fs_NoSuper
<1>7. CASE mount_fs_Fails
  <2>1. PICK m \in Around, k \in Faults["mount"] \cap 2..AllTables :
          /\ FAT' = LoadedFAT(k - 2, m) /\ disk[0] = Super
          /\ UNCHANGED <<DIR, fildes, disk>>
    BY <1>7 DEF mount_fs_Fails
  <2>2. k - 2 \in Nat
    BY <2>1, Layout DEF AllTables
  <2>3. ChainsOK(FAT')
    BY <2>1, <2>2, LoadedOK DEF Inv
  <2>. QED
    BY <2>1, <2>3 DEF Inv, DirOK, WellNamed, FdsOK, DiskOK, FatBlockOK, DirBlockOK
<1>. QED
  BY <1>1, <1>2, <1>3, <1>4, <1>5, <1>6, <1>7 DEF MountCall

LEMMA NameCallInv ==
  ASSUME Inv, NEW n \in Names, NameCall(n)
  PROVE  Inv'
<1>1. CASE fs_create(n)
  <2>. DEFINE i == First(Unused)
              e == [name |-> n, used |-> TRUE, size |-> 0, head |-> LAZY, ref_cnt |-> 0]
  <2>1. DIR' = [DIR EXCEPT ![i] = e] /\ Named(n) = {} /\ Unused # {}
        /\ UNCHANGED <<FAT, fildes, disk>>
    BY <1>1 DEF fs_create, Creatable
  <2>2. e \in Entries
    BY MarksAreGood DEF Entries
  <2>3. n # Empty
    BY <2>1 DEF Inv, DirOK, WellNamed, Named, Unused
  <2>. HIDE DEF i
  <2>4. DIR' \in [Slots -> Entries]
    BY <2>1, <2>2 DEF Inv, DirOK
  <2>5. WellNamed(DIR)'
    BY <2>1, <2>3 DEF Inv, DirOK, WellNamed, Named
  <2>. QED
    BY <2>1, <2>4, <2>5 DEF Inv, ChainsOK, DirOK, WellNamed, FdsOK, DiskOK
<1>2. CASE fs_open(n)
  <2>. DEFINE i == First(ClosedFds)
              e == [DIR[i] EXCEPT !.ref_cnt = IF @ > 0 THEN @ + 1 ELSE 1]
  <2>1. /\ ClosedFds # {}
        /\ fildes' = [fildes EXCEPT ![i] = [used |-> TRUE, file |-> i, offset |-> 0]]
        /\ DIR' = [DIR EXCEPT ![i] = e] /\ UNCHANGED <<FAT, disk>>
    BY <1>2 DEF fs_open, Openable
  <2>2. i \in Fildes /\ i \in Slots
    <3>1. ClosedFds \in SUBSET Nat /\ ClosedFds \subseteq Fildes /\ Fildes \subseteq Slots
      BY FSAssumption DEF ClosedFds, Fildes, Slots
    <3>. QED
      BY <2>1, <3>1, FirstIsLeast
  <2>. HIDE DEF i
  <2>3. e \in Entries /\ e.used = DIR[i].used /\ e.name = DIR[i].name
    BY <2>2 DEF Inv, DirOK, Entries
  <2>4. DirOK(DIR')
    BY <2>1, <2>2, <2>3, SameNames DEF Inv
  <2>5. FdsOK'
    BY <2>1, <2>2 DEF Inv, FdsOK
  <2>. QED
    BY <2>1, <2>4, <2>5 DEF Inv, ChainsOK, DiskOK
<1>3. CASE fs_delete(n)
  <2>. DEFINE i == First(Named(n))
  <2>1. /\ Named(n) # {} /\ DIR' = Forgotten(i) /\ UNCHANGED <<fildes, disk>>
        /\ UNCHANGED FAT \/ ReleaseFrom(DIR[i].head)
    BY <1>3 DEF fs_delete, Deletable
  <2>2. i \in Slots
    <3>1. Named(n) \in SUBSET Nat /\ Named(n) \subseteq Slots
      BY FSAssumption DEF Named, Slots
    <3>. QED
      BY <2>1, <3>1, FirstIsLeast
  <2>. HIDE DEF i
  <2>3. DIR[i].head \in Good
    BY <2>2 DEF Inv, DirOK, Entries
  <2>4. ChainsOK(FAT')
    BY <2>1, <2>3, ReleaseOK DEF Inv
  <2>5. DIR' \in [Slots -> Entries]
    BY <2>1, <2>2 DEF Inv, DirOK, Entries, Forgotten
  <2>6. /\ ~DIR'[i].used /\ DIR'[i].name = Empty
        /\ \A j \in Slots \ {i} : DIR'[j] = DIR[j]
    BY <2>1, <2>2 DEF Inv, DirOK, Entries, Forgotten
  <2>7. WellNamed(DIR')
    BY <2>2, <2>6 DEF Inv, DirOK, WellNamed
  <2>. QED
    BY <2>1, <2>4, <2>5, <2>7 DEF Inv, DirOK, FdsOK, DiskOK
<1>4. CASE fs_create_Refused(n) \/ fs_open_Refused(n) \/ fs_delete_Refused(n)
  BY <1>4, SameInv DEF fs_create_Refused, fs_open_Refused, fs_delete_Refused, Refused
<1>. QED
  BY <1>1, <1>2, <1>3, <1>4 DEF NameCall

(* What the calls on a descriptor find.                                    *)
LEMMA UsableFacts ==
  ASSUME Inv, NEW fd, Usable(fd)
  PROVE  /\ fd \in Fildes /\ fildes[fd] \in [used : BOOLEAN, file : Slots, offset : Nat]
         /\ Entry(fd) = DIR[fildes[fd].file] /\ Entry(fd) \in Entries
  BY DEF Usable, Inv, FdsOK, DirOK, Entry

(* A first write takes only blocks whose entries the first block of the    *)
(* FAT holds: the others may be blocks of the tables, or of no disk, once  *)
(* the file system has been mounted again.                                 *)
Few(buf) == Taken(Len(Chunks(buf))) \subseteq 0..(EntriesPerBlock - 1)
WritesFew == \A fd \in Fildes : \A buf \in Buffers :
  Usable(fd) /\ Entry(fd).head = LAZY /\ FreeBlocks # {}
    /\ Keeping("oneblock", OneBlock(fd, buf)) /\ Keeping("few", Few(buf)) => Few(buf)

(* So it is where the FAT is one block, or when clients see to it.         *)
FewBlocks == fat_len = 1 \/ "few" \in Rules

LEMMA FewBlocksFew == FewBlocks => WritesFew
<1>1. CASE "few" \in Rules
  BY <1>1 DEF WritesFew, Keeping
<1>2. CASE fat_len = 1
  <2>1. Blocks = 0..(EntriesPerBlock - 1)
    BY <1>2, FSAssumption DEF Blocks
  <2>2. \A buf : Few(buf)
    BY <2>1 DEF Few, Taken, FreeBlocks
  <2>. QED
    BY <2>2 DEF WritesFew
<1>. QED
  BY <1>1, <1>2 DEF FewBlocks

LEMMA ChunksTaken ==
  ASSUME ChainsOK(FAT), NEW buf \in Buffers, Few(buf)
  PROVE  /\ \A i \in 1..Len(Chunks(buf)) : NthFree(BlockOf(i)) \in Good /\ Taken(i) \subseteq Good
         /\ FreeBlocks # {} => Len(Chunks(buf)) >= 1
<1>. DEFINE n == Len(Chunks(buf))
<1>1. n \in Nat /\ \A i \in 1..n : BlockOf(i) \in 1..Cardinality(FreeBlocks)
  BY ChunksOK
<1>2. Taken(n) \subseteq Good
  BY FreeIsGood DEF Few, Taken
<1>3. ASSUME NEW i \in 1..n PROVE NthFree(BlockOf(i)) \in Good /\ Taken(i) \subseteq Good
  <2>1. BlockOf(i) <= BlockOf(n) /\ BlockOf(i) \in Nat /\ BlockOf(n) \in Nat
    <3>. HIDE DEF n
    <3>. QED
      BY <1>1 DEF BlockOf
  <2>2. Taken(i) \subseteq Taken(n)
    <3>1. \A c \in FreeBlocks : Cardinality({d \in FreeBlocks : d <= c}) \in Nat
      BY FreeIsGood, FS_Subset, FS_CardinalityType
    <3>. HIDE DEF n
    <3>. QED
      BY <2>1, <3>1 DEF Taken
  <2>3. NthFree(BlockOf(i)) \in Taken(i)
    <3>. DEFINE k == BlockOf(i)
    <3>1. \E b \in FreeBlocks : Cardinality({c \in FreeBlocks : c <= b}) = k
      BY <1>1, FreeIsGood, NthExists
    <3>. HIDE DEF k
    <3>2. NthFree(k) \in FreeBlocks /\ Cardinality({c \in FreeBlocks : c <= NthFree(k)}) = k
      BY <3>1 DEF NthFree
    <3>3. k \in Nat
      BY <2>1 DEF k
    <3>. QED
      BY <3>2, <3>3 DEF Taken, k
  <2>. QED
    BY <1>2, <2>2, <2>3
<1>4. ASSUME FreeBlocks # {} PROVE n >= 1
  <2>. DEFINE l == (Len(buf) + BLOCK_SIZE - 1) \div BLOCK_SIZE
              free == Cardinality(FreeBlocks)
              m == Minimum(l, 2 * free)
  <2>1. free \in Nat \ {0}
    BY <1>4, FreeIsGood, FS_CardinalityType, FS_EmptySet
  <2>2. l \in Nat \ {0}
    <3>1. Len(buf) \in Nat \ {0} /\ BLOCK_SIZE \in Nat \ {0}
      BY BufferType, FSAssumption
    <3>2. l \in Nat /\ Len(buf) + BLOCK_SIZE - 1 < BLOCK_SIZE * l + BLOCK_SIZE
      <4>. DEFINE t == Len(buf) + BLOCK_SIZE - 1
      <4>1. t \in Nat
        BY <3>1
      <4>. HIDE DEF t
      <4>2. t \div BLOCK_SIZE \in Nat /\ t % BLOCK_SIZE \in 0..(BLOCK_SIZE - 1)
            /\ t = BLOCK_SIZE * (t \div BLOCK_SIZE) + (t % BLOCK_SIZE)
        BY <4>1, <3>1, Division
      <4>. DEFINE p == BLOCK_SIZE * (t \div BLOCK_SIZE)
                  r == t % BLOCK_SIZE
      <4>3. p \in Nat
        <5>. DEFINE q == t \div BLOCK_SIZE
        <5>. HIDE DEF q
        <5>0. q \in Nat
          BY <4>2 DEF q
        <5>1. q * BLOCK_SIZE \in Nat
          BY <5>0, <3>1, Times
        <5>2. BLOCK_SIZE * q = q * BLOCK_SIZE
          BY <5>0, <3>1
        <5>. QED
          BY <5>1, <5>2 DEF q
      <4>4. t < p + BLOCK_SIZE
        <5>1. t = p + r /\ r \in 0..(BLOCK_SIZE - 1)
          BY <4>2
        <5>. HIDE DEF p, r
        <5>. QED
          BY <5>1, <4>3, <3>1
      <4>5. p = BLOCK_SIZE * l /\ t = Len(buf) + BLOCK_SIZE - 1 /\ l \in Nat
        BY <4>2 DEF t
      <4>. HIDE DEF p, l
      <4>. QED
        BY <4>4, <4>5
    <3>. HIDE DEF l
    <3>3. l = 0 => BLOCK_SIZE * l = 0
      BY <3>1
    <3>. QED
      BY <3>1, <3>2, <3>3
  <2>3. m \in Nat \ {0}
    <3>. HIDE DEF l, free
    <3>. QED
      BY <2>1, <2>2 DEF Minimum
  <2>4. Chunks(buf) = [j \in 1..m |->
          Piece(NthFree(BlockOf(j)), 0, (j - 1) * BLOCK_SIZE,
                Minimum(BLOCK_SIZE, Len(buf) - (j - 1) * BLOCK_SIZE), Uninitialised)]
    BY DEF Chunks
  <2>. HIDE DEF m
  <2>5. Len(Chunks(buf)) = m
    BY <2>3, <2>4
  <2>. QED
    BY <2>3, <2>5
<1>. QED
  BY <1>3, <1>4

LEMMA FirstWriteInv ==
  ASSUME Inv, NEW fd, Usable(fd), NEW buf \in Buffers, Few(buf), FirstWrite(fd, buf)
  PROVE  Inv'
<1>. DEFINE f      == fildes[fd].file
            pieces == Chunks(buf)
            bytes  == Minimum(Len(buf), Len(pieces) * BLOCK_SIZE)
            free   == Cardinality(FreeBlocks)
<1>1. PICK k \in Failing("first") : LET n == Written(pieces, k) IN
  /\ FreeBlocks # {}
  /\ disk' = DiskWith(pieces, n, buf)
  /\ IF n = Len(pieces)
       THEN /\ FAT' = Linked(Taken(n), END)
            /\ fildes' = [fildes EXCEPT ![fd].offset = @ + bytes]
            /\ DIR' = [DIR EXCEPT ![f].head = NthFree(1), ![f].size = fildes'[fd].offset]
       ELSE /\ FAT' = Rollback(n + 1).fat
            /\ DIR' = [DIR EXCEPT ![f].head = NthFree(1)]
            /\ UNCHANGED fildes
  BY DEF FirstWrite
<1>. DEFINE n == Written(pieces, k)
<1>2. /\ Len(pieces) \in Nat /\ n \in 0..Len(pieces)
      /\ \A i \in 1..Len(pieces) : BlockOf(i) \in 1..free /\ pieces[i].block \in FreeBlocks
  BY ChunksOK, WrittenType DEF Inv
<1>3. f \in Slots /\ fd \in Fildes
  BY UsableFacts
<1>4. /\ \A i \in 1..Len(pieces) : NthFree(BlockOf(i)) \in Good /\ Taken(i) \subseteq Good
                                   /\ pieces[i].block \in Good
      /\ NthFree(1) \in Good
  <2>1. /\ \A i \in 1..Len(pieces) : NthFree(BlockOf(i)) \in Good /\ Taken(i) \subseteq Good
        /\ Len(pieces) >= 1
    BY <1>1, ChunksTaken DEF Inv
  <2>2. ASSUME NEW i \in 1..Len(pieces) PROVE pieces[i].block = NthFree(BlockOf(i))
    BY <2>2, ChunksOK DEF Inv
  <2>3. BlockOf(1) = 1 /\ 1 \in 1..Len(pieces)
    BY <1>2, <2>1 DEF BlockOf
  <2>. HIDE DEF pieces
  <2>4. NthFree(1) \in Good
    BY <2>1, <2>3
  <2>. QED
    BY <2>1, <2>2, <2>4
<1>5. DiskOK(disk')
  <2>. HIDE DEF pieces, n
  <2>1. \A i \in 1..n : pieces[i].block \in Good
    BY <1>2, <1>4
  <2>. QED
    BY <1>1, <2>1, DiskWithOK DEF Inv, n
<1>6. bytes \in Nat
  <2>1. Len(pieces) * BLOCK_SIZE \in Nat /\ Len(buf) \in Nat
    BY <1>2, Times, BufferType, FSAssumption
  <2>. QED
    BY <2>1 DEF Minimum
<1>. HIDE DEF pieces, bytes, f
<1>7. CASE n = Len(pieces)
  <2>1. /\ FAT' = Linked(Taken(n), END)
        /\ fildes' = [fildes EXCEPT ![fd].offset = @ + bytes]
        /\ DIR' = [DIR EXCEPT ![f].head = NthFree(1), ![f].size = fildes'[fd].offset]
    BY <1>1, <1>7
  <2>2. ChainsOK(FAT')
    <3>1. Taken(n) \in SUBSET FreeBlocks /\ Taken(n) \subseteq Good /\ END \in Good
      <4>1. Taken(n) \in SUBSET FreeBlocks
        BY DEF Taken
      <4>2. n \in 1..Len(pieces)
        BY <1>2, <1>7, <1>1, ChunksTaken DEF Inv, pieces
      <4>. QED
        BY <4>1, <4>2, <1>4, MarksAreGood
    <3>. QED
      BY <2>1, <3>1, LinkedOK DEF Inv
  <2>3. FdsOK' /\ fildes'[fd].offset \in Nat
    BY <2>1, <1>3, <1>6 DEF Inv, FdsOK
  <2>. DEFINE h == NthFree(1)
              o == fildes'[fd].offset
              e == [DIR[f] EXCEPT !.head = h, !.size = o]
  <2>4. DIR' = [DIR EXCEPT ![f] = e] /\ e \in Entries /\ e.used = DIR[f].used /\ e.name = DIR[f].name
    <3>1. h \in Good /\ o \in Nat /\ DIR' = [DIR EXCEPT ![f].head = h, ![f].size = o]
      BY <2>1, <2>3, <1>4
    <3>. HIDE DEF h, o
    <3>2. DIR[f] \in Entries /\ DIR \in [Slots -> Entries]
      BY <1>3 DEF Inv, DirOK
    <3>3. e \in Entries /\ e.used = DIR[f].used /\ e.name = DIR[f].name
      BY <3>1, <3>2 DEF Entries
    <3>4. DIR' = [DIR EXCEPT ![f] = e]
      BY <3>1, <3>2, <1>3
    <3>. QED
      BY <3>3, <3>4
  <2>5. DirOK(DIR')
    <3>. HIDE DEF e
    <3>. QED
      BY <2>4, <1>3, SameNames DEF Inv
  <2>. QED
    BY <1>5, <2>2, <2>3, <2>5 DEF Inv
<1>8. CASE n # Len(pieces)
  <2>1. FAT' = Rollback(n + 1).fat /\ DIR' = [DIR EXCEPT ![f].head = NthFree(1)] /\ UNCHANGED fildes
    BY <1>1, <1>8
  <2>2. ChainsOK(FAT')
    <3>. DEFINE last == IF (n + 1) % 2 = 1 THEN FREE ELSE NthFree(BlockOf(n + 1))
    <3>1. n + 1 \in 1..Len(pieces)
      BY <1>2, <1>8
    <3>2. BlockOf(n + 1) \in 1..free
      BY <1>2, <3>1
    <3>3. last \in Good /\ Taken(n + 1) \in SUBSET FreeBlocks /\ Taken(n + 1) \subseteq Good
      BY <3>1, <1>4, MarksAreGood DEF Taken
    <3>. HIDE DEF last
    <3>4. ChainsOK(Linked(Taken(n + 1), last))
      BY <3>3, LinkedOK DEF Inv
    <3>5. Rollback(n + 1) = FreeChain(Linked(Taken(n + 1), last), NthFree(1))
      BY DEF Rollback, last
    <3>. QED
      BY <2>1, <3>4, <3>5, <1>4, FreeChainOK
  <2>. DEFINE e == [DIR[f] EXCEPT !.head = NthFree(1)]
  <2>3. DIR' = [DIR EXCEPT ![f] = e] /\ e \in Entries /\ e.used = DIR[f].used /\ e.name = DIR[f].name
    BY <2>1, <1>3, <1>4 DEF Inv, DirOK, Entries
  <2>4. DirOK(DIR')
    <3>. HIDE DEF e
    <3>. QED
      BY <2>3, <1>3, SameNames DEF Inv
  <2>. QED
    BY <2>1, <1>5, <2>2, <2>4 DEF Inv, FdsOK
<1>. QED
  BY <1>7, <1>8

LEMMA WriteInv ==
  ASSUME Inv, WritesFew, NEW fd, NEW buf \in Buffers, fs_write(fd, buf)
  PROVE  Inv'
<1>. DEFINE f      == fildes[fd].file
            pieces == Overwriting(fd, buf).pieces
<1>1. Usable(fd)
  BY DEF fs_write
<1>2. /\ fd \in Fildes /\ f \in Slots /\ Entry(fd) = DIR[f]
      /\ fildes[fd].offset \in Nat /\ Entry(fd).head \in Good
  BY <1>1, UsableFacts DEF Entries
<1>3. Len(pieces) \in Nat /\ \A i \in 1..Len(pieces) : pieces[i].block \in Good
  BY <1>2, OverwritingOK DEF Inv
<1>4. CASE FirstWrite(fd, buf)
  <2>1. Few(buf)
    BY <1>1, <1>2, <1>4 DEF WritesFew, fs_write, FirstWrite, Few, Keeping
  <2>. QED
    BY <1>1, <1>4, <2>1, FirstWriteInv
<1>5. CASE FirstWrite_Full(fd)
  <2>. DEFINE e == [DIR[f] EXCEPT !.head = -1]
  <2>1. DIR' = [DIR EXCEPT ![f] = e] /\ UNCHANGED <<FAT, fildes, disk>>
    BY <1>5 DEF FirstWrite_Full
  <2>2. e \in Entries /\ e.used = DIR[f].used /\ e.name = DIR[f].name
    BY <1>2, MarksAreGood DEF Inv, DirOK, Entries, FREE
  <2>3. DirOK(DIR')
    BY <2>1, <2>2, <1>2, SameNames DEF Inv
  <2>. QED
    BY <2>1, <2>3 DEF Inv, ChainsOK, FdsOK, DiskOK
<1>6. CASE Overwrite(fd, buf)
  <2>. DEFINE w     == Overwriting(fd, buf)
              moved == IF w.last THEN 2 * Len(buf) ELSE Len(buf)
              end   == fildes[fd].offset + moved
  <2>1. PICK k \in Failing("again") :
          /\ disk' = DiskWith(pieces, Written(pieces, k), buf)
          /\ \/ /\ fildes' = [fildes EXCEPT ![fd].offset = end]
                /\ DIR' = [DIR EXCEPT ![f].size = IF end > @ THEN end ELSE @]
             \/ UNCHANGED <<fildes, DIR>>
          /\ UNCHANGED FAT
    BY <1>6 DEF Overwrite
  <2>2. DiskOK(disk')
    <3>. HIDE DEF pieces
    <3>1. Written(pieces, k) \in 0..Len(pieces)
      BY <1>3, WrittenType
    <3>2. \A i \in 1..Written(pieces, k) : pieces[i].block \in Good
      BY <1>3, <3>1
    <3>. QED
      BY <2>1, <3>2, DiskWithOK DEF Inv
  <2>3. end \in Nat
    BY <1>2, BufferType
  <2>. HIDE DEF end, w
  <2>4. FdsOK'
    BY <2>1, <2>3, <1>2 DEF Inv, FdsOK
  <2>5. DirOK(DIR')
    <3>1. CASE UNCHANGED DIR
      BY <3>1 DEF Inv, DirOK, WellNamed
    <3>2. CASE DIR' = [DIR EXCEPT ![f].size = IF end > @ THEN end ELSE @]
      <4>. DEFINE e == [DIR[f] EXCEPT !.size = IF end > @ THEN end ELSE @]
      <4>1. DIR' = [DIR EXCEPT ![f] = e]
        BY <3>2
      <4>2. e \in Entries /\ e.used = DIR[f].used /\ e.name = DIR[f].name
        BY <1>2, <2>3 DEF Inv, DirOK, Entries
      <4>. QED
        BY <4>1, <4>2, <1>2, SameNames DEF Inv
    <3>. QED
      BY <2>1, <3>1, <3>2
  <2>. QED
    BY <2>1, <2>2, <2>4, <2>5 DEF Inv, ChainsOK
<1>7. CASE Overwrite_Overrun(fd, buf)
  <2>1. disk' = DiskWith(pieces, Len(pieces) - 1, buf) /\ UNCHANGED <<FAT, DIR, fildes>>
    BY <1>7 DEF Overwrite_Overrun
  <2>2. DiskOK(disk')
    <3>. HIDE DEF pieces
    <3>1. \A i \in 1..(Len(pieces) - 1) : pieces[i].block \in Good
      BY <1>3
    <3>. QED
      BY <2>1, <3>1, DiskWithOK DEF Inv
  <2>. QED
    BY <2>1, <2>2 DEF Inv, ChainsOK, DirOK, WellNamed, FdsOK
<1>. QED
  BY <1>4, <1>5, <1>6, <1>7 DEF fs_write

LEMMA TruncateInv ==
  ASSUME Inv, NEW fd, NEW length \in Offsets, fs_truncate(fd, length)
  PROVE  Inv'
<1>. DEFINE f == fildes[fd].file
            b == Path(FAT, Entry(fd).head, Kept(length))[Kept(length)]
            e == [DIR[f] EXCEPT !.size = length]
<1>1. /\ Usable(fd) /\ ReleaseFrom(b) /\ UNCHANGED <<fildes, disk>>
      /\ UNCHANGED DIR \/ DIR' = [DIR EXCEPT ![f].size = length]
  BY DEF fs_truncate
<1>2. f \in Slots /\ Entry(fd) = DIR[f] /\ Entry(fd).head \in Good
  BY <1>1, UsableFacts DEF Entries
<1>3. b \in Good
  <2>1. length + BLOCK_SIZE - 1 \in Nat
    BY FSAssumption
  <2>2. Kept(length) \in Nat
    BY <2>1, Division, FSAssumption DEF Kept
  <2>3. \A i \in 0..Kept(length) : Path(FAT, Entry(fd).head, Kept(length))[i] \in Good
    BY <1>2, <2>2, PathStays DEF Inv, ChainsOK
  <2>. QED
    BY <2>2, <2>3
<1>. HIDE DEF b
<1>4. ChainsOK(FAT')
  BY <1>1, <1>3, ReleaseOK DEF Inv
<1>5. DirOK(DIR')
  <2>1. CASE UNCHANGED DIR
    BY <2>1 DEF Inv, DirOK, WellNamed
  <2>2. CASE DIR' = [DIR EXCEPT ![f].size = length]
    <3>1. DIR' = [DIR EXCEPT ![f] = e]
      BY <2>2
    <3>2. DIR[f] \in Entries
      BY <1>2 DEF Inv, DirOK
    <3>3. length \in Nat
      BY FSAssumption
    <3>4. e \in Entries /\ e.used = DIR[f].used /\ e.name = DIR[f].name
      BY <3>2, <3>3 DEF Entries
    <3>. QED
      BY <3>1, <3>4, <1>2, SameNames DEF Inv
  <2>. QED
    BY <1>1, <2>1, <2>2
<1>. QED
  BY <1>1, <1>4, <1>5 DEF Inv, FdsOK, DiskOK

LEMMA FdCallInv ==
  ASSUME Inv, WritesFew, NEW fd, FdCall(fd)
  PROVE  Inv'
<1>1. CASE fs_close(fd)
  <2>. DEFINE f == fildes[fd].file
              e == [DIR[f] EXCEPT !.ref_cnt = @ - 1]
  <2>1. /\ Usable(fd) /\ UNCHANGED <<FAT, disk>>
        /\ DIR' = [DIR EXCEPT ![f] = e]
        /\ fildes' = [fildes EXCEPT ![fd].used = (Entry(fd).ref_cnt - 1 # 0)]
    BY <1>1 DEF fs_close
  <2>2. f \in Slots /\ fd \in Fildes
    BY <2>1, UsableFacts
  <2>3. e \in Entries /\ e.used = DIR[f].used /\ e.name = DIR[f].name
    BY <2>2 DEF Inv, DirOK, Entries
  <2>4. DirOK(DIR')
    BY <2>1, <2>2, <2>3, SameNames DEF Inv
  <2>5. FdsOK'
    BY <2>1, <2>2 DEF Inv, FdsOK
  <2>. QED
    BY <2>1, <2>4, <2>5 DEF Inv, ChainsOK, DiskOK
<1>2. ASSUME NEW o \in Offsets, fs_lseek(fd, o) PROVE Inv'
  <2>1. fd \in Fildes /\ fildes' = [fildes EXCEPT ![fd].offset = o] /\ UNCHANGED <<FAT, DIR, disk>>
    BY <1>2 DEF fs_lseek, Usable
  <2>2. FdsOK'
    BY <2>1, FSAssumption DEF Inv, FdsOK
  <2>. QED
    BY <2>1, <2>2 DEF Inv, ChainsOK, DirOK, WellNamed, DiskOK
<1>3. ASSUME NEW nbyte \in Lengths, fs_read(fd, nbyte) PROVE Inv'
  <2>. DEFINE n == Minimum(nbyte, Entry(fd).size - fildes[fd].offset)
  <2>1. /\ Usable(fd) /\ n > 0 /\ UNCHANGED <<FAT, DIR, disk>>
        /\ UNCHANGED fildes \/ fildes' = [fildes EXCEPT ![fd].offset = @ + n]
    BY <1>3 DEF fs_read
  <2>2. n \in Nat /\ fd \in Fildes
    BY <2>1, UsableFacts, FSAssumption DEF Entries, Minimum
  <2>. HIDE DEF n
  <2>3. FdsOK'
    BY <2>1, <2>2 DEF Inv, FdsOK
  <2>. QED
    BY <2>1, <2>3 DEF Inv, ChainsOK, DirOK, WellNamed, DiskOK
<1>4. CASE \E o \in Offsets : fs_truncate(fd, o)
  BY <1>4, TruncateInv
<1>5. CASE \E buf \in Buffers : fs_write(fd, buf)
  BY <1>5, WriteInv
<1>6. CASE \/ fs_get_filesize(fd) \/ fd_Refused(fd) \/ fs_access_Past(fd)
           \/ \E o \in Offsets : fs_lseek_Refused(fd, o)
           \/ \E n \in Lengths : fs_read_Nothing(fd, n)
  BY <1>6, SameInv DEF fs_get_filesize, fd_Refused, fs_access_Past, fs_lseek_Refused,
       fs_read_Nothing, Refused
<1>. QED
  BY <1>1, <1>2, <1>3, <1>4, <1>5, <1>6 DEF FdCall

LEMMA NextInv ==
  ASSUME Inv, WritesFew, [Next]_vars
  PROVE  Inv'
<1>1. CASE Up /\ MountCall
  BY <1>1, MountCallInv
<1>2. CASE \E n \in Names : Up /\ NameCall(n)
  BY <1>2, NameCallInv
<1>3. CASE \E fd \in -1..MAX_FILDES : Up /\ FdCall(fd)
  BY <1>3, FdCallInv
<1>4. CASE Up /\ (fs_listfiles \/ fs_listfiles_Null)
  BY <1>4, SameInv DEF fs_listfiles, fs_listfiles_Null
<1>5. CASE Exit
  <2>1. ChainsOK(FAT') /\ DirOK(DIR') /\ UNCHANGED disk
    BY <1>5, FreshChains, FreshDir DEF Exit
  <2>2. FdsOK'
    BY <1>5, NewFdsOK DEF Exit, FdsOK
  <2>. QED
    BY <2>1, <2>2 DEF Inv, DiskOK
<1>6. CASE UNCHANGED vars
  BY <1>6, SameInv
<1>. QED
  BY <1>1, <1>2, <1>3, <1>4, <1>5, <1>6 DEF Next

-----------------------------------------------------------------------------
(* Whatever clients do that use no more blocks than the first block of the *)
(* FAT describes, and wherever devices fail and processes end, calls of    *)
(* fs_write never touch the FAT and the directory on the disk, nor does    *)
(* next_free_block ever find their blocks free.                            *)
THEOREM TablesKeptThm == FewBlocks => (Spec => []TablesKept)
<1>1. SUFFICES ASSUME FewBlocks PROVE Spec => []TablesKept
  OBVIOUS
<1>2. Inv /\ [Next]_vars => Inv'
  BY <1>1, FewBlocksFew, NextInv
<1>3. Inv => TablesKept
  BY DEF Inv, ChainsOK, DiskOK, FatBlockOK, DirBlockOK, TablesKept
<1>. QED
  BY <1>2, <1>3, InitInv, PTL DEF Spec

(* A slot is in use if and only if it has a name, and no name occurs twice,*)
(* in memory and on the disk.                                              *)
THEOREM NamesSoundThm == FewBlocks => (Spec => []NamesSound)
<1>1. SUFFICES ASSUME FewBlocks PROVE Spec => []NamesSound
  OBVIOUS
<1>2. Inv /\ [Next]_vars => Inv'
  BY <1>1, FewBlocksFew, NextInv
<1>3. Inv => NamesSound
  BY DEF Inv, DirOK, DiskOK, DirBlockOK, NamesSound
<1>. QED
  BY <1>2, <1>3, InitInv, PTL DEF Spec


-----------------------------------------------------------------------------
(* Clients that close their files before umount_fs and open a file only    *)
(* when the free descriptor has the number of its slot.                    *)

(* A descriptor in use is that of a file that has been counted.            *)
Matched == \A fd \in Fildes : fildes[fd].used =>
  /\ mounted /\ fildes[fd].file = fd
  /\ DIR[fd].used /\ DIR[fd].ref_cnt > 0

(* Nothing that Matched speaks of has changed.                             *)
LEMMA MatchedSame ==
  ASSUME Matched, mounted' = mounted,
         \A fd \in Fildes : fildes'[fd].used => fildes[fd].used /\ fildes'[fd].file = fildes[fd].file,
         \A i \in Slots : DIR'[i].used = DIR[i].used /\ DIR'[i].ref_cnt = DIR[i].ref_cnt
  PROVE  Matched'
<1>1. Fildes \subseteq Slots
  BY FSAssumption DEF Fildes, Slots
<1>. QED
  BY <1>1 DEF Matched

LEMMA MatchedMount ==
  ASSUME Inv, Matched, "close" \in Rules, MountCall
  PROVE  Matched'
<1>1. ASSUME ~mounted \/ (\A i \in Fildes : ~fildes[i].used), UNCHANGED fildes PROVE Matched'
  BY <1>1 DEF Matched
<1>2. CASE make_fs
  BY <1>1, <1>2 DEF make_fs
<1>3. CASE umount_fs
  BY <1>1, <1>3 DEF umount_fs, Keeping
<1>4. CASE mount_fs \/ mount_fs_Overrun
  <2>1. fildes' = [i \in Fildes |-> NewFd] /\ NewFd.used = FALSE
    BY <1>4 DEF mount_fs, mount_fs_Overrun, NewFd
  <2>2. \A fd \in Fildes : ~fildes'[fd].used
    BY <2>1
  <2>. QED
    BY <2>2 DEF Matched
<1>5. CASE \/ make_fs_Busy \/ mounting_Refused
           \/ mount_fs_Abort \/ mount_fs_NoSuper \/ mount_fs_Fails
  BY <1>5 DEF make_fs_Busy, mounting_Refused, Refused, mount_fs_Abort, mount_fs_NoSuper,
       mount_fs_Fails, Matched
<1>. QED
  BY <1>2, <1>3, <1>4, <1>5 DEF MountCall

LEMMA FirstSlot ==
  /\ \A n : Named(n) # {} => First(Named(n)) \in Slots /\ DIR[First(Named(n))].name = n
  /\ Unused # {} => First(Unused) \in Slots /\ ~DIR[First(Unused)].used
  /\ ClosedFds # {} => First(ClosedFds) \in Fildes /\ First(ClosedFds) \in Slots
<1>1. /\ \A n : Named(n) \in SUBSET Nat /\ Named(n) \subseteq Slots
      /\ Unused \in SUBSET Nat /\ ClosedFds \in SUBSET Nat /\ Fildes \subseteq Slots
  BY FSAssumption DEF Named, Unused, ClosedFds, Slots, Fildes
<1>2. \A n : Named(n) # {} => First(Named(n)) \in Named(n)
  BY <1>1, FirstIsLeast
<1>3. (Unused # {} => First(Unused) \in Unused) /\ (ClosedFds # {} => First(ClosedFds) \in ClosedFds)
  BY <1>1, FirstIsLeast
<1>. QED
  BY <1>1, <1>2, <1>3 DEF Named, Unused, ClosedFds

LEMMA MatchedName ==
  ASSUME Inv, Matched, "match" \in Rules, NEW n \in Names, NameCall(n)
  PROVE  Matched'
<1>0. /\ DIR \in [Slots -> Entries] /\ WellNamed(DIR) /\ Fildes \subseteq Slots
      /\ fildes \in [Fildes -> [used : BOOLEAN, file : Slots, offset : Nat]]
  BY FSAssumption DEF Inv, DirOK, FdsOK, Fildes, Slots
<1>1. CASE fs_create(n)
  <2>. DEFINE i == First(Unused)
              e == [name |-> n, used |-> TRUE, size |-> 0, head |-> LAZY, ref_cnt |-> 0]
  <2>1. /\ i \in Slots /\ ~DIR[i].used /\ UNCHANGED <<mounted, fildes>>
        /\ DIR' = [DIR EXCEPT ![i] = e]
    BY <1>1, FirstSlot DEF fs_create, Creatable
  <2>. HIDE DEF i, e
  <2>2. \A j \in Slots : j # i => DIR'[j] = DIR[j]
    BY <2>1, <1>0
  <2>. QED
    BY <2>1, <2>2, <1>0 DEF Matched
<1>2. CASE fs_open(n)
  <2>. DEFINE i == First(ClosedFds)
              e == [DIR[i] EXCEPT !.ref_cnt = IF @ > 0 THEN @ + 1 ELSE 1]
  <2>1. /\ i \in Fildes /\ i \in Slots /\ DIR[i].name = n /\ n # Empty /\ mounted
        /\ fildes' = [fildes EXCEPT ![i] = [used |-> TRUE, file |-> i, offset |-> 0]]
        /\ DIR' = [DIR EXCEPT ![i] = e]
        /\ UNCHANGED mounted
    BY <1>2, FirstSlot DEF fs_open, Openable, Keeping
  <2>2. DIR[i].used /\ DIR[i] \in Entries
    BY <1>0, <2>1 DEF WellNamed
  <2>3. e.used = DIR[i].used /\ e.ref_cnt > 0
    <3>1. /\ DIR[i].ref_cnt \in Int /\ e.used = DIR[i].used
          /\ e.ref_cnt = IF DIR[i].ref_cnt > 0 THEN DIR[i].ref_cnt + 1 ELSE 1
      BY <2>2 DEF Entries
    <3>. HIDE DEF e, i
    <3>. QED
      BY <3>1
  <2>. HIDE DEF i, e
  <2>4. /\ DIR'[i] = e /\ fildes'[i] = [used |-> TRUE, file |-> i, offset |-> 0]
        /\ \A j \in Fildes : j # i => DIR'[j] = DIR[j] /\ fildes'[j] = fildes[j]
    BY <2>1, <1>0
  <2>5. fildes'[i].file = i
    BY <2>4
  <2>. QED
    BY <2>1, <2>2, <2>3, <2>4, <2>5 DEF Matched
<1>3. CASE fs_delete(n)
  <2>. DEFINE i == First(Named(n))
  <2>1. /\ i \in Slots /\ DIR[i].ref_cnt <= 0 /\ UNCHANGED <<mounted, fildes>>
        /\ DIR' = Forgotten(i)
    BY <1>3, FirstSlot DEF fs_delete, Deletable
  <2>. HIDE DEF i
  <2>2. \A j \in Slots : j # i => DIR'[j] = DIR[j]
    BY <2>1, <1>0 DEF Forgotten
  <2>3. DIR[i].ref_cnt \in Int
    BY <2>1, <1>0 DEF Entries
  <2>4. \A fd \in Fildes : fildes[fd].used => fd # i
    BY <2>1, <2>3 DEF Matched
  <2>. QED
    BY <2>1, <2>2, <2>4, <1>0 DEF Matched
<1>4. CASE fs_create_Refused(n) \/ fs_open_Refused(n) \/ fs_delete_Refused(n)
  BY <1>4 DEF fs_create_Refused, fs_open_Refused, fs_delete_Refused, Refused, Matched
<1>. QED
  BY <1>1, <1>2, <1>3, <1>4 DEF NameCall

(* What calls on a descriptor do to a directory entry and to descriptors:  *)
(* fs_close counts, the others do not.                                     *)
LEMMA FdCallEntries ==
  ASSUME Inv, NEW fd, FdCall(fd), ~fs_close(fd)
  PROVE  /\ UNCHANGED mounted
         /\ \A i \in Fildes : fildes'[i].used = fildes[i].used /\ fildes'[i].file = fildes[i].file
         /\ \A i \in Slots : /\ DIR'[i].used = DIR[i].used /\ DIR'[i].name = DIR[i].name
                             /\ DIR'[i].ref_cnt = DIR[i].ref_cnt
<1>0. /\ DIR \in [Slots -> Entries]
      /\ fildes \in [Fildes -> [used : BOOLEAN, file : Slots, offset : Nat]]
  BY DEF Inv, DirOK, FdsOK
<1>. DEFINE Same == /\ \A i \in Slots : /\ DIR'[i].used = DIR[i].used /\ DIR'[i].name = DIR[i].name
                                        /\ DIR'[i].ref_cnt = DIR[i].ref_cnt
            SameFds == \A i \in Fildes : /\ fildes'[i].used = fildes[i].used
                                         /\ fildes'[i].file = fildes[i].file
            f == fildes[fd].file
<1>1. ASSUME NEW h, NEW s, \/ DIR' = [DIR EXCEPT ![f].head = h, ![f].size = s]
                           \/ DIR' = [DIR EXCEPT ![f].head = h]
                           \/ DIR' = [DIR EXCEPT ![f].size = s]
                           \/ DIR' = DIR
      PROVE  Same
  BY <1>0, <1>1 DEF Entries
<1>2. ASSUME NEW o, fildes' = [fildes EXCEPT ![fd].offset = o] \/ fildes' = fildes
      PROVE  SameFds
  BY <1>0, <1>2
<1>3. CASE \E o \in Offsets : fs_lseek(fd, o)
  BY <1>1, <1>2, <1>3 DEF fs_lseek
<1>4. CASE \E n \in Lengths : fs_read(fd, n)
  <2>1. UNCHANGED <<mounted, DIR>>
        /\ \E o : fildes' = [fildes EXCEPT ![fd].offset = o] \/ fildes' = fildes
    BY <1>4 DEF fs_read
  <2>. QED
    BY <1>1, <1>2, <2>1
<1>5. CASE \E o \in Offsets : fs_truncate(fd, o)
  <2>1. UNCHANGED <<mounted, fildes>>
        /\ \E s : DIR' = [DIR EXCEPT ![f].size = s] \/ DIR' = DIR
    BY <1>5 DEF fs_truncate
  <2>. QED
    BY <1>1, <2>1
<1>6. CASE \E buf \in Buffers : fs_write(fd, buf)
  <2>1. UNCHANGED mounted
    BY <1>6 DEF fs_write
  <2>2. /\ \E o : fildes' = [fildes EXCEPT ![fd].offset = o] \/ fildes' = fildes
        /\ \E h, s : \/ DIR' = [DIR EXCEPT ![f].head = h, ![f].size = s]
                     \/ DIR' = [DIR EXCEPT ![f].head = h]
                     \/ DIR' = [DIR EXCEPT ![f].size = s]
                     \/ DIR' = DIR
    <3>1. PICK buf \in Buffers : fs_write(fd, buf)
      BY <1>6
    <3>2. CASE FirstWrite(fd, buf)
      BY <3>2 DEF FirstWrite
    <3>3. CASE FirstWrite_Full(fd)
      BY <3>3 DEF FirstWrite_Full
    <3>4. CASE Overwrite(fd, buf)
      BY <3>4 DEF Overwrite
    <3>5. CASE Overwrite_Overrun(fd, buf)
      BY <3>5 DEF Overwrite_Overrun
    <3>. QED
      BY <3>1, <3>2, <3>3, <3>4, <3>5 DEF fs_write
  <2>. QED
    BY <1>1, <1>2, <2>1, <2>2
<1>7. CASE \/ fs_get_filesize(fd) \/ fd_Refused(fd) \/ fs_access_Past(fd)
           \/ \E o \in Offsets : fs_lseek_Refused(fd, o)
           \/ \E n \in Lengths : fs_read_Nothing(fd, n)
  BY <1>7 DEF fs_get_filesize, fd_Refused, fs_access_Past, fs_lseek_Refused,
       fs_read_Nothing, Refused
<1>. QED
  BY <1>3, <1>4, <1>5, <1>6, <1>7 DEF FdCall

LEMMA MatchedStep ==
  ASSUME Inv, Matched, {"close", "match"} \subseteq Rules, [Next]_vars
  PROVE  Matched'
<1>1. CASE Up /\ MountCall
  BY <1>1, MatchedMount
<1>2. CASE \E n \in Names : Up /\ NameCall(n)
  BY <1>2, MatchedName
<1>3. ASSUME NEW fd, fs_close(fd) PROVE Matched'
  <2>. DEFINE e == [DIR[fd] EXCEPT !.ref_cnt = @ - 1]
  <2>1. /\ Usable(fd) /\ UNCHANGED mounted
        /\ DIR' = [DIR EXCEPT ![fildes[fd].file].ref_cnt = @ - 1]
        /\ fildes' = [fildes EXCEPT ![fd].used = (Entry(fd).ref_cnt - 1 # 0)]
    BY <1>3 DEF fs_close
  <2>2. /\ fd \in Fildes /\ fd \in Slots /\ fildes[fd].file = fd /\ Entry(fd) = DIR[fd]
        /\ DIR[fd] \in Entries /\ DIR[fd].ref_cnt > 0 /\ DIR[fd].used /\ mounted
        /\ fildes[fd] \in [used : BOOLEAN, file : Slots, offset : Nat]
    BY <2>1, UsableFacts DEF Matched, Usable
  <2>3. /\ \A i \in Fildes : i # fd => fildes'[i] = fildes[i]
        /\ fildes'[fd].used = (DIR[fd].ref_cnt - 1 # 0) /\ fildes'[fd].file = fd
    BY <2>1, <2>2 DEF Inv, FdsOK
  <2>4. /\ \A i \in Slots : i # fd => DIR'[i] = DIR[i]
        /\ DIR'[fd].used = DIR[fd].used /\ DIR'[fd].ref_cnt = DIR[fd].ref_cnt - 1
    BY <2>1, <2>2 DEF Inv, DirOK, Entries
  <2>5. DIR[fd].ref_cnt \in Int /\ Fildes \subseteq Slots
    BY <2>2, FSAssumption DEF Entries, Fildes, Slots
  <2>6. DIR'[fd].ref_cnt # 0 => DIR'[fd].ref_cnt > 0
    BY <2>2, <2>4, <2>5
  <2>7. SUFFICES ASSUME NEW j \in Fildes, fildes'[j].used
                 PROVE  /\ mounted' /\ fildes'[j].file = j
                        /\ DIR'[j].used /\ DIR'[j].ref_cnt > 0
    BY DEF Matched
  <2>8. CASE j = fd
    BY <2>1, <2>2, <2>3, <2>4, <2>6, <2>7, <2>8
  <2>9. CASE j # fd
    BY <2>1, <2>2, <2>3, <2>4, <2>5, <2>7, <2>9 DEF Matched
  <2>. QED
    BY <2>8, <2>9
<1>4. ASSUME NEW fd, FdCall(fd), ~fs_close(fd) PROVE Matched'
  BY <1>4, FdCallEntries, MatchedSame
<1>5. CASE Up /\ (fs_listfiles \/ fs_listfiles_Null)
  BY <1>5 DEF fs_listfiles, fs_listfiles_Null, Matched
<1>6. CASE Exit
  BY <1>6 DEF Exit, Matched, NewFd
<1>7. CASE UNCHANGED vars
  BY <1>7 DEF Matched
<1>. QED
  BY <1>1, <1>2, <1>3, <1>4, <1>5, <1>6, <1>7 DEF Next

(* Then fs_delete, whose test is the count of the wrong file otherwise,    *)
(* never deletes an open file (fs.c:20 and 548).                           *)
THEOREM OpenNotDeletedThm ==
  {"close", "match"} \subseteq Rules /\ FewBlocks => (Spec => []OpenNotDeleted)
<1>1. SUFFICES ASSUME {"close", "match"} \subseteq Rules, FewBlocks PROVE Spec => []OpenNotDeleted
  OBVIOUS
<1>2. Init => Matched
  BY DEF Init, Matched, NewFd
<1>3. Inv /\ Matched /\ [Next]_vars => Matched'
  BY <1>1, MatchedStep
<1>4. Matched => OpenNotDeleted
  BY DEF Matched, OpenNotDeleted, Entry
<1>5. Inv /\ [Next]_vars => Inv'
  BY <1>1, FewBlocksFew, NextInv
<1>. QED
  BY <1>2, <1>3, <1>4, <1>5, InitInv, PTL DEF Spec


-----------------------------------------------------------------------------
(* Blocks, for clients that keep to all rules, a device that does not fail *)
(* first writes nor umount_fs between the FAT and the directory, and a     *)
(* disk with room for a block of every file.                               *)
ProperClients == {"close", "match", "keep", "oneblock"} \subseteq Rules /\ Empty \notin Names
WholeTables   == Faults["first"] = {} /\ Faults["umount"] \cap (2..(fat_len + 1)) = {}
Room          == MAX_FILES <= EntriesPerBlock - Reserved

(* The file e has no block or one.                                         *)
EntrySound(f, e) ==
  \/ e.head = LAZY /\ e.size = 0
  \/ e.head \in Home /\ f[e.head] = END /\ e.size <= BLOCK_SIZE

(* The FAT f and the directory d agree on who has which block.             *)
Owned(f, d) ==
  /\ f[0] # FREE
  /\ \A i \in Slots : d[i].used => EntrySound(f, d[i])
  /\ \A i, j \in Slots :
       d[i].used /\ d[j].used /\ d[i].head = d[j].head /\ d[i].head \in Home => i = j
  /\ \A b \in Home : f[b] # FREE => \E i \in Slots : d[i].used /\ d[i].head = b

(* What is saved agrees, and what is mounted; and nothing has been stored  *)
(* in front of FAT but the FREE that fs_delete and fs_truncate put there.  *)
SavedOwned(d) == d[0] = Super => Owned(d[fat_idx].fat, d[dir_idx].dir)
Header ==
  /\ FAT[FREE] = 0 /\ FAT[END] \in {0, FREE}
  /\ status # "ok" => status = "wild" /\ ~mounted /\ (loaded => FAT[END] = FREE)
OwnInv ==
  /\ mounted => status = "ok" /\ active /\ loaded /\ Owned(FAT, DIR)
  /\ SavedOwned(disk)
  /\ Header

LEMMA HomeIsData ==
  /\ Home \subseteq Blocks /\ Home \subseteq Good /\ Home \subseteq Nat /\ Home \subseteq Index
  /\ Home \subseteq 0..(EntriesPerBlock - 1) /\ 0 \in 0..(EntriesPerBlock - 1)
  /\ LAZY \notin Home /\ END \notin Home /\ FREE \notin Home /\ 0 \notin Home
  /\ 0..(EntriesPerBlock - 1) \subseteq Blocks
<1>1. Home \subseteq 0..(EntriesPerBlock - 1) /\ 0 \notin Home /\ EntriesPerBlock \in Nat \ {0}
  BY Layout, FSAssumption DEF Home
<1>2. Home \subseteq Good
  BY DEF Good
<1>. QED
  BY <1>1, <1>2, MarksAreGood, IndexHas

(* Only the first block of the FAT matters.                                *)
LEMMA OwnedFirst ==
  ASSUME NEW f, NEW g, NEW d, Owned(f, d), \A b \in 0..(EntriesPerBlock - 1) : g[b] = f[b]
  PROVE  Owned(g, d)
  BY HomeIsData DEF Owned, EntrySound

(* Only names, places and sizes of files in use matter.                    *)
LEMMA OwnedEntries ==
  ASSUME NEW f, NEW d, Owned(f, d), NEW c,
         \A i \in Slots : c[i].used = d[i].used /\ (d[i].used => c[i].head = d[i].head /\ c[i].size = d[i].size)
  PROVE  Owned(f, c)
<1>1. \A i \in Slots : c[i].used => EntrySound(f, c[i])
  BY DEF Owned, EntrySound
<1>. QED
  BY <1>1 DEF Owned

LEMMA FreshOwned == \A m \in Around : Owned(NewFAT(m), NewDIR)
<1>. SUFFICES ASSUME NEW m \in Around PROVE Owned(NewFAT(m), NewDIR)
  OBVIOUS
<1>1. \A b \in Home : NewFAT(m)[b] = FREE
  <2>1. \A b \in Home : b >= Reserved
    BY Layout, FSAssumption DEF Home
  <2>. QED
    BY <2>1, HomeIsData, IndexHas DEF NewFAT
<1>2. NewFAT(m)[0] = END
  <2>1. 0 \in Index /\ 0 \in Blocks /\ 0 \notin Marks /\ ~(0 >= Reserved)
    BY Layout, IndexHas
  <2>. QED
    BY <2>1 DEF NewFAT
<1>3. \A i \in Slots : ~NewDIR[i].used
  BY DEF NewDIR, NewEntry
<1>. QED
  BY <1>1, <1>2, <1>3 DEF Owned, FREE, END

(* The tables on disk when all of them, or none, have been written.        *)
LEMMA TablesOwned ==
  ASSUME NEW old, SavedOwned(old), NEW f, NEW d, Owned(f, d), NEW m, NEW n \in Nat,
         old[0] = Super => n \notin 1..fat_len
  PROVE  SavedOwned(Tables(old, f, d, m, n))
<1>. DEFINE t == Tables(old, f, d, m, n)
<1>1. /\ 0 \in Blocks /\ dir_idx \in Blocks /\ fat_idx \in Blocks /\ fat_idx = 1
      /\ dir_idx \in Nat /\ fat_len \in Nat \ {0} /\ dir_idx = fat_len + 1
  BY Layout DEF fat_idx
<1>2. /\ t[0] = IF fat_len + 1 < n THEN Super ELSE old[0]
      /\ t[fat_idx] = IF 0 < n THEN Image(f, 0, m) ELSE old[fat_idx]
      /\ t[dir_idx] = IF fat_len < n THEN Table(d) ELSE old[dir_idx]
  BY <1>1 DEF Tables
<1>3. SUFFICES ASSUME t[0] = Super PROVE Owned(t[fat_idx].fat, t[dir_idx].dir)
  BY DEF SavedOwned
<1>4. CASE fat_len < n
  <2>1. t[fat_idx].fat = Image(f, 0, m).fat /\ t[dir_idx].dir = d
    BY <1>1, <1>2, <1>4 DEF Table
  <2>2. ASSUME NEW b \in 0..(EntriesPerBlock - 1) PROVE Image(f, 0, m).fat[b] = f[b]
    <3>1. 2 * 0 * EntriesPerBlock + b = b /\ b < DISK_BLOCKS
      BY Layout, FSAssumption
    <3>. QED
      BY <3>1 DEF Image
  <2>. QED
    BY <2>1, <2>2, OwnedFirst
<1>5. CASE ~(fat_len < n)
  <2>1. old[0] = Super /\ n = 0
    BY <1>1, <1>2, <1>3, <1>5
  <2>. QED
    BY <1>1, <1>2, <2>1 DEF SavedOwned
<1>. QED
  BY <1>4, <1>5

(* What mount_fs finds is what was saved.                                  *)
LEMMA LoadedOwned ==
  ASSUME SavedOwned(disk), disk[0] = Super
  PROVE  \A m \in Around : Owned(LoadedFAT(fat_len, m), disk[dir_idx].dir)
<1>. SUFFICES ASSUME NEW m \in Around PROVE Owned(LoadedFAT(fat_len, m), disk[dir_idx].dir)
  OBVIOUS
<1>1. ASSUME NEW b \in 0..(EntriesPerBlock - 1)
      PROVE  LoadedFAT(fat_len, m)[b] = disk[fat_idx].fat[b]
  <2>1. b \div EntriesPerBlock = 0 /\ b % EntriesPerBlock = b /\ b \in Blocks /\ b \in Index
        /\ b \in 0..(fat_len * EntriesPerBlock - 1)
    <3>1. b \in Blocks /\ b \in Index /\ Blocks = 0..(fat_len * EntriesPerBlock - 1)
      BY FSAssumption, HomeIsData, IndexHas
    <3>. QED
      BY <3>1, FSAssumption
  <2>2. fat_idx + 0 = fat_idx
    BY DEF fat_idx
  <2>. QED
    BY <2>1, <2>2 DEF LoadedFAT
<1>. QED
  BY <1>1, OwnedFirst DEF SavedOwned

(* Writing to data blocks leaves what is saved alone.                      *)
LEMMA DataOwned ==
  ASSUME SavedOwned(disk), NEW pieces, NEW n, NEW buf,
         \A i \in 1..n : pieces[i].block \in Good
  PROVE  SavedOwned(DiskWith(pieces, n, buf))
<1>1. fat_idx \in 1..dir_idx /\ dir_idx \in 1..dir_idx
  BY Layout DEF fat_idx
<1>. QED
  BY <1>1, TablesUntouched DEF SavedOwned

-----------------------------------------------------------------------------
(* Chains of one block.                                                    *)

LEMMA ReachEnd ==
  ASSUME NEW f
  PROVE  Reach(f, END, {END}) = {END}
<1>. DEFINE room == {END} \cup {f[i] : i \in DOMAIN f}
<1>1. {END} \in SUBSET room /\ END \in {END} /\ {END} \ {END} = {}
  OBVIOUS
<1>2. \A i \in Reach(f, END, {END}) : i \in {END}
  BY <1>1 DEF Reach
<1>3. END \in Reach(f, END, {END})
  BY DEF Reach
<1>. QED
  BY <1>2, <1>3

LEMMA ReachShort ==
  ASSUME NEW f, NEW b \in DOMAIN f, b # END, f[b] = END
  PROVE  Reach(f, b, {END}) = {b, END}
<1>. DEFINE room == {b} \cup {f[i] : i \in DOMAIN f}
            Closed(S) == b \in S /\ \A j \in S \ {END} : f[j] \in S
<1>1. {b, END} \in SUBSET room /\ Closed({b, END})
  OBVIOUS
<1>2. Reach(f, b, {END}) = {i \in room : \A S \in SUBSET room : Closed(S) => i \in S}
  BY DEF Reach
<1>3. \A S \in SUBSET room : Closed(S) => b \in S /\ END \in S
  OBVIOUS
<1>. HIDE DEF Closed
<1>. QED
  BY <1>1, <1>2, <1>3

(* Releasing such a chain frees its block, and releasing none frees none.  *)
LEMMA ReleaseShort ==
  ASSUME ChainsOK(FAT), status = "ok", NEW h \in Home, FAT[h] = END, ReleaseFrom(h)
  PROVE  /\ UNCHANGED status /\ FAT'[FREE] = FAT[FREE] /\ FAT'[END] = FREE
         /\ \A b \in 0..(EntriesPerBlock - 1) : FAT'[b] = IF b = h THEN FREE ELSE FAT[b]
<1>1. h \in DOMAIN FAT /\ h # END /\ h \in Blocks
  BY HomeIsData DEF ChainsOK
<1>2. Reach(FAT, h, {END}) = {h, END}
  BY <1>1, ReachShort
<1>3. {h, END} \ {END} = {h}
  BY <1>1
<1>4. FreeChain(FAT, h).ends = "ok" /\ FreeChain(FAT, h).fat = Freed(FAT, {h})
  BY <1>1, <1>2, <1>3 DEF FreeChain
<1>5. UNCHANGED status /\ FAT' = [Freed(FAT, {h}) EXCEPT ![END] = FREE]
  BY <1>4 DEF ReleaseFrom, Ends
<1>6. /\ \A b \in 0..(EntriesPerBlock - 1) : b \in Index /\ b # END
      /\ FREE \in Index /\ FREE # END /\ END \in Index /\ h # FREE
  BY HomeIsData, IndexHas
<1>7. \A b \in Index : FAT'[b] = IF b = END THEN FREE ELSE IF b = h THEN FREE ELSE FAT[b]
  BY <1>5 DEF Freed, ChainsOK
<1>. QED
  BY <1>5, <1>6, <1>7

LEMMA ReleaseNone ==
  ASSUME ChainsOK(FAT), status = "ok", ReleaseFrom(END)
  PROVE  /\ UNCHANGED status /\ FAT'[FREE] = FAT[FREE] /\ FAT'[END] = FREE
         /\ \A b \in 0..(EntriesPerBlock - 1) : FAT'[b] = FAT[b]
<1>1. {END} \ {END} = {}
  OBVIOUS
<1>2. FreeChain(FAT, END).ends = "ok" /\ FreeChain(FAT, END).fat = Freed(FAT, {})
  BY <1>1, ReachEnd DEF FreeChain
<1>3. UNCHANGED status /\ FAT' = [Freed(FAT, {}) EXCEPT ![END] = FREE]
  BY <1>2 DEF ReleaseFrom, Ends
<1>4. /\ \A b \in 0..(EntriesPerBlock - 1) : b \in Index /\ b # END
      /\ FREE \in Index /\ FREE # END /\ END \in Index
  BY HomeIsData, IndexHas
<1>5. \A b \in Index : FAT'[b] = IF b = END THEN FREE ELSE FAT[b]
  BY <1>3 DEF Freed, ChainsOK
<1>. QED
  BY <1>3, <1>4, <1>5

(* The walk of no step and that of one.                                    *)
LEMMA PathShort ==
  ASSUME NEW f, NEW b, NEW n \in Nat
  PROVE  /\ Path(f, b, n)[0] = b
         /\ n >= 1 => Path(f, b, n)[1] = f[b]
<1>. DEFINE p == Path(f, b, n)
<1>. HIDE DEF p
<1>1. p = [i \in 0..n |-> IF i = 0 THEN b ELSE f[p[i - 1]]]
  <2>1. PICK q : IsPath(q, f, b, n)
    BY PathExists
  <2>2. IsPath(p, f, b, n)
    BY <2>1 DEF Path, p, IsPath
  <2>. QED
    BY <2>2 DEF IsPath
<1>2. p[0] = b
  BY <1>1
<1>3. ASSUME n >= 1 PROVE p[1] = f[b]
  <2>1. 1 \in 0..n /\ 1 # 0 /\ 1 - 1 = 0
    BY <1>3
  <2>2. p[1] = f[p[1 - 1]]
    BY <1>1, <2>1
  <2>. QED
    BY <1>2, <2>1, <2>2
<1>. QED
  BY <1>2, <1>3 DEF p

-----------------------------------------------------------------------------
(* Free blocks.                                                            *)

(* A file without a block leaves one for itself.                           *)
LEMMA RoomLeft ==
  ASSUME Room, Owned(FAT, DIR), NEW i \in Slots, DIR[i].head = LAZY
  PROVE  \E b \in Home : FAT[b] = FREE
<1>1. SUFFICES ASSUME \A b \in Home : FAT[b] # FREE PROVE FALSE
  OBVIOUS
<1>. DEFINE others == Slots \ {i}
            owner == [b \in Home |-> CHOOSE j \in others : DIR[j].head = b]
<1>2. \A b \in Home : \E j \in others : DIR[j].head = b
  BY <1>1, HomeIsData DEF Owned
<1>3. \A b \in Home : owner[b] \in others /\ DIR[owner[b]].head = b
  BY <1>2
<1>4. owner \in [Home -> others]
  BY <1>3
<1>5. IsFiniteSet(Home) /\ Cardinality(Home) = EntriesPerBlock - Reserved
  <2>1. Reserved \in Int /\ EntriesPerBlock - 1 \in Int /\ Reserved <= EntriesPerBlock
    BY Layout, FSAssumption
  <2>2. /\ IsFiniteSet(Reserved..(EntriesPerBlock - 1))
        /\ Cardinality(Reserved..(EntriesPerBlock - 1)) =
             IF Reserved > EntriesPerBlock - 1 THEN 0 ELSE EntriesPerBlock - 1 - Reserved + 1
    BY <2>1, FS_Interval, Zenon
  <2>. HIDE DEF Reserved
  <2>3. (IF Reserved > EntriesPerBlock - 1 THEN 0 ELSE EntriesPerBlock - 1 - Reserved + 1)
          = EntriesPerBlock - Reserved
    BY <2>1, FSAssumption
  <2>. QED
    BY <2>2, <2>3 DEF Home
<1>6. IsFiniteSet(others) /\ Cardinality(others) = MAX_FILES - 1
  <2>1. IsFiniteSet(Slots) /\ Cardinality(Slots) = MAX_FILES
    <3>1. 0 \in Int /\ MAX_FILES - 1 \in Int
      BY FSAssumption
    <3>2. /\ IsFiniteSet(0..(MAX_FILES - 1))
          /\ Cardinality(0..(MAX_FILES - 1)) =
               IF 0 > MAX_FILES - 1 THEN 0 ELSE MAX_FILES - 1 - 0 + 1
      BY <3>1, FS_Interval, Zenon
    <3>3. (IF 0 > MAX_FILES - 1 THEN 0 ELSE MAX_FILES - 1 - 0 + 1) = MAX_FILES
      BY FSAssumption
    <3>. QED
      BY <3>2, <3>3 DEF Slots
  <2>. QED
    BY <2>1, FS_RemoveElement
<1>. HIDE DEF owner, others
<1>7. Cardinality(others) < Cardinality(Home)
  BY <1>5, <1>6, FSAssumption, Layout DEF Room
<1>8. PICK b \in Home, c \in Home : b # c /\ owner[b] = owner[c]
  BY <1>4, <1>5, <1>6, <1>7, FS_PigeonHole
<1>. QED
  BY <1>3, <1>8

(* The block that next_free_block finds then is one of those, and alone is *)
(* taken.                                                                  *)
LEMMA FirstFree ==
  ASSUME ChainsOK(FAT), FAT[0] # FREE, \E b \in Home : FAT[b] = FREE
  PROVE  /\ NthFree(1) \in Home /\ FAT[NthFree(1)] = FREE /\ FreeBlocks # {}
         /\ Taken(1) = {NthFree(1)}
         /\ Cardinality(FreeBlocks) \in Nat \ {0}
<1>. DEFINE b == NthFree(1)
            Upto(x) == {c \in FreeBlocks : c <= x}
<1>1. FreeBlocks \in SUBSET Nat /\ IsFiniteSet(FreeBlocks) /\ FreeBlocks # {}
  BY FreeIsGood, HomeIsData DEF FreeBlocks
<1>2. Cardinality(FreeBlocks) \in Nat \ {0}
  BY <1>1, FS_CardinalityType, FS_EmptySet
<1>3. b \in FreeBlocks /\ Cardinality(Upto(b)) = 1
  <2>1. \E x \in FreeBlocks : Cardinality(Upto(x)) = 1
    BY <1>1, <1>2, NthExists
  <2>. QED
    BY <2>1 DEF NthFree
<1>. HIDE DEF b
<1>4. \A x : IsFiniteSet(Upto(x))
  BY <1>1, FS_Subset
<1>5. Upto(b) = {b}
  <2>1. PICK x : Upto(b) = {x}
    <3>. HIDE DEF Upto
    <3>. QED
      BY <1>3, <1>4, FS_Singleton, Zenon
  <2>2. b \in Upto(b)
    BY <1>1, <1>3
  <2>. QED
    BY <2>1, <2>2
<1>6. \A c \in FreeBlocks : b <= c
  BY <1>1, <1>3, <1>5
<1>7. b \in Home
  <2>1. b \notin 0..dir_idx /\ b \in Nat
    BY <1>1, <1>3, Layout DEF FreeBlocks, ChainsOK
  <2>2. \E c \in FreeBlocks : c < EntriesPerBlock
    BY HomeIsData, FSAssumption DEF FreeBlocks, Home
  <2>3. b < EntriesPerBlock
    BY <1>1, <1>6, <2>1, <2>2, FSAssumption
  <2>. QED
    BY <2>1, <2>3, Layout, FSAssumption DEF Home
<1>8. ASSUME NEW x \in FreeBlocks, Cardinality(Upto(x)) <= 1 PROVE x = b
  <2>1. SUFFICES ASSUME x # b PROVE FALSE
    OBVIOUS
  <2>2. {b, x} \in SUBSET Upto(x)
    BY <1>1, <1>3, <1>6
  <2>3. Cardinality({b, x}) = 2
    <3>1. IsFiniteSet({b}) /\ Cardinality({b}) = 1
      BY FS_Singleton
    <3>2. Cardinality({b} \cup {x}) = Cardinality({b}) + 1
      BY <2>1, <3>1, FS_AddElement
    <3>3. {b} \cup {x} = {b, x}
      OBVIOUS
    <3>. QED
      BY <3>1, <3>2, <3>3
  <2>4. Cardinality({b, x}) <= Cardinality(Upto(x)) /\ Cardinality(Upto(x)) \in Nat
    <3>. HIDE DEF Upto
    <3>. QED
      BY <2>2, <1>4, FS_Subset, FS_CardinalityType
  <2>. QED
    BY <1>8, <2>3, <2>4
<1>9. BlockOf(1) = 1
  BY DEF BlockOf
<1>10. Taken(1) = {b}
  <2>1. Taken(1) = {x \in FreeBlocks : Cardinality(Upto(x)) <= 1}
    BY <1>9 DEF Taken
  <2>2. Cardinality(Upto(b)) <= 1
    <3>. HIDE DEF Upto
    <3>. QED
      BY <1>3
  <2>. HIDE DEF Upto
  <2>. QED
    BY <2>1, <2>2, <1>3, <1>8
<1>. QED
  BY <1>1, <1>2, <1>3, <1>7, <1>10 DEF b, FreeBlocks

-----------------------------------------------------------------------------
(* Writing within one block.                                               *)

LEMMA WrittenAll ==
  ASSUME NEW pieces, Len(pieces) \in Nat,
         \A i \in 1..Len(pieces) : BlockWorks(pieces[i].block)
  PROVE  Written(pieces, 0) = Len(pieces)
<1>. DEFINE l == Len(pieces)
            S == {l + 1} \cup {i \in 1..l : i = 0 \/ ~BlockWorks(pieces[i].block)}
<1>1. S = {l + 1}
  OBVIOUS
<1>2. First(S) \in S
  <2>1. S \in SUBSET Nat /\ S # {}
    BY <1>1
  <2>. HIDE DEF S
  <2>. QED
    BY <2>1, FirstIsLeast
<1>3. Written(pieces, 0) = First(S) - 1
  BY DEF Written
<1>. HIDE DEF S
<1>. QED
  BY <1>1, <1>2, <1>3

LEMMA WrittenNone ==
  ASSUME NEW pieces, Len(pieces) \in Nat \ {0}, ~BlockWorks(pieces[1].block), NEW k
  PROVE  Written(pieces, k) = 0
<1>. DEFINE l == Len(pieces)
            S == {l + 1} \cup {i \in 1..l : i = k \/ ~BlockWorks(pieces[i].block)}
<1>1. S \in SUBSET Nat /\ 1 \in S /\ \A s \in S : 1 <= s
  OBVIOUS
<1>2. First(S) \in S /\ \A s \in S : First(S) <= s
  <2>. HIDE DEF S
  <2>. QED
    BY <1>1, FirstIsLeast
<1>3. Written(pieces, k) = First(S) - 1
  BY DEF Written
<1>. HIDE DEF S
<1>4. First(S) = 1
  <2>1. First(S) \in Nat /\ 1 <= First(S) /\ First(S) <= 1
    BY <1>1, <1>2
  <2>. QED
    BY <2>1
<1>. QED
  BY <1>3, <1>4

(* One piece, for the first free block.                                    *)
LEMMA ChunksShort ==
  ASSUME NEW buf \in Buffers, Len(buf) <= BLOCK_SIZE, Cardinality(FreeBlocks) \in Nat \ {0}
  PROVE  /\ Len(Chunks(buf)) = 1 /\ Chunks(buf)[1].block = NthFree(1)
         /\ Chunks(buf)[1] = Piece(NthFree(1), 0, 0, Len(buf), Uninitialised)
<1>. DEFINE n == Len(buf)
            l == Minimum((n + BLOCK_SIZE - 1) \div BLOCK_SIZE, 2 * Cardinality(FreeBlocks))
<1>1. n \in 1..BLOCK_SIZE /\ BLOCK_SIZE \in Nat \ {0}
  BY BufferType, FSAssumption
<1>2. l = 1
  <2>1. (n + BLOCK_SIZE - 1) \div BLOCK_SIZE = 1
    <3>. HIDE DEF n
    <3>. QED
      BY <1>1, BlocksOfUpto
  <2>. DEFINE free == Cardinality(FreeBlocks)
  <2>2. free \in Nat \ {0}
    OBVIOUS
  <2>3. l = Minimum(1, 2 * free)
    BY <2>1
  <2>. HIDE DEF free, l
  <2>. QED
    BY <2>2, <2>3 DEF Minimum
<1>3. Chunks(buf) = [i \in 1..l |->
          Piece(NthFree(BlockOf(i)), 0, (i - 1) * BLOCK_SIZE,
                Minimum(BLOCK_SIZE, n - (i - 1) * BLOCK_SIZE), Uninitialised)]
  BY DEF Chunks
<1>. HIDE DEF l
<1>4. BlockOf(1) = 1
  BY DEF BlockOf
<1>5. (1 - 1) * BLOCK_SIZE = 0 /\ Minimum(BLOCK_SIZE, n - 0) = n
  <2>. HIDE DEF n
  <2>. QED
    BY <1>1 DEF Minimum
<1>6. Chunks(buf)[1] = Piece(NthFree(BlockOf(1)), 0, (1 - 1) * BLOCK_SIZE,
                             Minimum(BLOCK_SIZE, n - (1 - 1) * BLOCK_SIZE), Uninitialised)
  BY <1>2, <1>3
<1>7. Len(Chunks(buf)) = 1
  BY <1>2, <1>3
<1>8. Chunks(buf)[1] = Piece(NthFree(1), 0, 0, n, Uninitialised)
  BY <1>4, <1>5, <1>6
<1>. QED
  BY <1>7, <1>8 DEF Piece

(* A write behind the start of a file of one block goes to that block,     *)
(* advancing the offset once; one at the start goes behind the end of the  *)
(* chain and fails.                                                        *)
LEMMA OverwritingShort ==
  ASSUME NEW fd, NEW buf \in Buffers, active,
         fildes[fd].offset \in Nat, OneBlock(fd, buf), FAT[Entry(fd).head] = END
  PROVE  LET w == Overwriting(fd, buf)
         IN  /\ ~w.over
             /\ fildes[fd].offset # 0 => ~w.last
             /\ fildes[fd].offset = 0 =>
                  \A k : Written(w.pieces, k) = 0 /\ Written(w.pieces, k) # Len(w.pieces)
<1>. DEFINE o     == fildes[fd].offset
            n     == Len(buf)
            at    == o % BLOCK_SIZE
            q     == o \div BLOCK_SIZE
            way   == Path(FAT, Entry(fd).head, q + n + 1)
            W(i)  == way[q + i]
            part  == IF at = 0 THEN 0 ELSE Minimum(BLOCK_SIZE - at, n)
            T     == {i \in 0..n : FAT[W(i + 1)] = END \/ part + (i + 1) * BLOCK_SIZE > n}
            whole == IF part = n THEN 0 ELSE First(T)
            rest  == n - part - whole * BLOCK_SIZE
            A == IF part = 0 THEN <<>> ELSE <<Piece(W(0), at, 0, part, UnitsOf(W(0)))>>
            B == [i \in 1..whole |-> Piece(W(i), 0, part + (i - 1) * BLOCK_SIZE,
                                            BLOCK_SIZE, Uninitialised)]
            C == IF rest = 0 THEN <<>>
                 ELSE <<Piece(W(whole + 1), 0, n - rest, Minimum(rest, BLOCK_SIZE),
                              UnitsOf(W(whole + 1)))>>
<1>1. /\ n \in Nat \ {0} /\ BLOCK_SIZE \in Nat \ {0} /\ o \in Nat /\ o + n <= BLOCK_SIZE
  BY BufferType, FSAssumption DEF OneBlock
<1>2. q = 0 /\ at = o
  <2>. HIDE DEF o, n
  <2>. QED
    BY <1>1
<1>3. W(1) = END
  <2>. HIDE DEF n, q
  <2>1. q + n + 1 \in Nat /\ q + n + 1 >= 1 /\ q + 1 = 1
    BY <1>1, <1>2
  <2>. QED
    BY <2>1, PathShort
<1>4. Overwriting(fd, buf).pieces = A \o B \o C
  BY DEF Overwriting, o, n, at, q, way, part, whole, rest
<1>5. Overwriting(fd, buf).last = (rest > 0) /\ Overwriting(fd, buf).over = (rest > BLOCK_SIZE)
  BY DEF Overwriting, o, n, at, q, way, part, whole, rest
<1>. HIDE DEF o, n, q, way, at
<1>6. part = IF o = 0 THEN 0 ELSE n
  BY <1>1, <1>2 DEF Minimum
<1>. HIDE DEF part
<1>7. CASE o # 0
  <2>1. whole = 0 /\ rest = 0
    BY <1>1, <1>6, <1>7
  <2>. HIDE DEF whole, rest
  <2>2. ~(rest > 0) /\ ~(rest > BLOCK_SIZE)
    BY <2>1, <1>1
  <2>. QED
    BY <2>2, <1>5, <1>7 DEF o
<1>8. CASE o = 0
  <2>1. part = 0 /\ part # n
    BY <1>1, <1>6, <1>8
  <2>2. T \in SUBSET Nat /\ 1 \in T /\ (0 \notin T => n >= BLOCK_SIZE)
    BY <1>1, <2>1
  <2>3. whole \in T /\ whole <= 1
    <3>1. whole = First(T)
      BY <2>1
    <3>. HIDE DEF T, whole
    <3>. QED
      BY <3>1, <2>2, FirstIsLeast
  <2>. HIDE DEF T, whole
  <2>4. whole = 0 \/ (whole = 1 /\ n = BLOCK_SIZE)
    <3>1. whole \in Nat /\ (whole = 0 \/ whole = 1)
      BY <2>2, <2>3
    <3>2. whole = 1 => 0 \notin T
      BY <2>1, <2>2, <2>3, FirstIsLeast DEF whole
    <3>3. n >= BLOCK_SIZE => n = BLOCK_SIZE
      BY <1>1, <1>8
    <3>4. whole = 1 => n >= BLOCK_SIZE
      BY <3>2, <2>2, Zenon
    <3>. QED
      BY <3>1, <3>3, <3>4, Zenon
  <2>5. rest = IF whole = 0 THEN n ELSE 0
    BY <2>1, <2>4, <1>1
  <2>. HIDE DEF rest
  <2>6. A = <<>>
    BY <2>1
  <2>7. A \o B \o C = IF whole = 0 THEN C ELSE B
    <3>1. CASE whole = 0
      <4>1. B = <<>>
        BY <3>1
      <4>2. C = <<Piece(W(1), 0, n - rest, Minimum(rest, BLOCK_SIZE), UnitsOf(W(1)))>>
        BY <3>1, <2>5, <1>1
      <4>3. C \in Seq({Piece(W(1), 0, n - rest, Minimum(rest, BLOCK_SIZE), UnitsOf(W(1)))})
        <5>. HIDE DEF C
        <5>. QED
          BY <4>2
      <4>. HIDE DEF A, B, C
      <4>. QED
        BY <2>6, <3>1, <4>1, <4>3
    <3>2. CASE whole = 1
      <4>1. C = <<>>
        BY <3>2, <2>5
      <4>2. B \in Seq({Piece(W(1), 0, part + (1 - 1) * BLOCK_SIZE, BLOCK_SIZE, Uninitialised)})
        BY <3>2
      <4>. HIDE DEF A, B, C
      <4>. QED
        BY <2>6, <3>2, <4>1, <4>2
    <3>. QED
      BY <2>4, <3>1, <3>2
  <2>8. Len(A \o B \o C) = 1 /\ (A \o B \o C)[1].block = END
    <3>1. CASE whole = 0
      <4>1. C = <<Piece(W(1), 0, n - rest, Minimum(rest, BLOCK_SIZE), UnitsOf(W(1)))>>
        BY <3>1, <2>5, <1>1
      <4>. HIDE DEF A, B, C
      <4>. QED
        BY <2>7, <3>1, <4>1, <1>3 DEF Piece
    <3>2. CASE whole = 1
      <4>1. B = [i \in 1..1 |-> Piece(W(i), 0, part + (i - 1) * BLOCK_SIZE,
                                      BLOCK_SIZE, Uninitialised)]
        BY <3>2
      <4>2. Len(B) = 1 /\ B[1].block = END
        <5>. HIDE DEF B
        <5>. QED
          BY <4>1, <1>3 DEF Piece
      <4>3. A \o B \o C = B
        <5>. HIDE DEF A, B, C
        <5>. QED
          BY <2>7, <3>2
      <4>. QED
        BY <4>2, <4>3, Zenon
    <3>. QED
      BY <2>4, <3>1, <3>2
  <2>9. ~BlockWorks(END)
    BY DEF BlockWorks, Blocks, END
  <2>. DEFINE p == A \o B \o C
  <2>. HIDE DEF p
  <2>10. Len(p) = 1 /\ p[1].block = END
    BY <2>8 DEF p
  <2>11. \A k : Written(p, k) = 0 /\ Written(p, k) # Len(p)
    BY <2>9, <2>10, WrittenNone
  <2>12. ~Overwriting(fd, buf).over
    <3>1. ~(rest > BLOCK_SIZE)
      BY <1>1, <1>8, <2>5
    <3>. QED
      BY <1>5, <3>1
  <2>. QED
    BY <1>4, <1>8, <2>11, <2>12 DEF o, p
<1>. QED
  BY <1>7, <1>8

-----------------------------------------------------------------------------
(* The calls keep the agreement.                                           *)

LEMMA OwnSame ==
  ASSUME OwnInv, UNCHANGED <<status, mounted, active, loaded>>,
         FAT'[FREE] = FAT[FREE], FAT'[END] \in {FAT[END], FREE},
         mounted => Owned(FAT', DIR'), SavedOwned(disk')
  PROVE  OwnInv'
<1>1. Header'
  BY DEF OwnInv, Header
<1>. QED
  BY <1>1 DEF OwnInv

(* New and loaded FATs, and the memory just in front of them.              *)
LEMMA HeaderFresh ==
  /\ \A m \in Around : NewFAT(m)[FREE] = 0 /\ NewFAT(m)[END] = 0
  /\ NoMemory[FREE] = 0 /\ NoMemory[END] = 0
  /\ \A n, m : LoadedFAT(n, m)[FREE] = FAT[FREE] /\ LoadedFAT(n, m)[END] = FAT[END]
<1>1. /\ FREE \in Index /\ FREE \in Marks /\ FREE \notin Nat
      /\ END \in Index /\ END \in Marks /\ END \notin Nat
  BY IndexHas
<1>. QED
  BY <1>1 DEF NewFAT, NoMemory, LoadedFAT

LEMMA OwnedMount ==
  ASSUME Inv, OwnInv, Up, WholeTables, MountCall
  PROVE  OwnInv'
<1>1. CASE make_fs
  <2>1. PICK m \in Around, k \in Failing("make") :
          /\ FAT' = NewFAT(m) /\ DIR' = NewDIR /\ loaded' = TRUE /\ UNCHANGED status
          /\ mounted' = (k # 0) /\ active' = (k # 0)
          /\ disk' = Tables([b \in Blocks |-> Erased], NewFAT(m), NewDIR, m, Before(k))
    BY <1>1 DEF make_fs, StillOpen
  <2>2. Before(k) \in Nat
    BY BeforeIsNat, FSAssumption
  <2>. DEFINE old == [b \in Blocks |-> Erased]
  <2>3. old[0] # Super
    BY Layout, KindsDiffer DEF Erased
  <2>. HIDE DEF old
  <2>4. SavedOwned(Tables(old, NewFAT(m), NewDIR, m, Before(k)))
    <3>. DEFINE f == NewFAT(m)
    <3>1. Owned(f, NewDIR)
      BY FreshOwned
    <3>. HIDE DEF f
    <3>2. SavedOwned(Tables(old, f, NewDIR, m, Before(k)))
      BY <2>2, <2>3, <3>1, TablesOwned DEF SavedOwned
    <3>. QED
      BY <3>2 DEF f
  <2>5. SavedOwned(disk')
    BY <2>1, <2>4 DEF old
  <2>6. Header'
    BY <2>1, HeaderFresh DEF Header, Up
  <2>. QED
    BY <2>1, <2>5, <2>6, FreshOwned DEF OwnInv, Up
<1>2. CASE make_fs_Busy
  <2>1. /\ ~mounted /\ UNCHANGED <<status, mounted, loaded, FAT>>
        /\ disk' = [b \in Blocks |-> Erased]
    BY <1>2 DEF make_fs_Busy, make_disk
  <2>2. SavedOwned(disk')
    BY <2>1, Layout, KindsDiffer DEF SavedOwned, Erased
  <2>. QED
    BY <2>1, <2>2 DEF OwnInv, Header
<1>3. CASE mount_fs
  <2>1. PICK m \in Around :
          /\ disk[0] = Super /\ mounted' /\ active' /\ loaded' /\ UNCHANGED <<status, disk>>
          /\ FAT' = LoadedFAT(fat_len, m) /\ DIR' = disk[dir_idx].dir
    BY <1>3 DEF mount_fs
  <2>2. Owned(FAT', DIR')
    BY <2>1, LoadedOwned DEF OwnInv
  <2>3. Header'
    BY <2>1, HeaderFresh DEF Header, OwnInv, Up
  <2>. QED
    BY <2>1, <2>2, <2>3 DEF OwnInv, Up
<1>4. CASE umount_fs
  <2>1. PICK m \in Around, k \in Failing("umount") :
          /\ UNCHANGED <<status, FAT, DIR, loaded>>
          /\ mounted /\ mounted' = (k # 0) /\ active' = (k # 0)
          /\ disk' = Tables(disk, FAT, DIR, m, Before(k))
    BY <1>4 DEF umount_fs, StillOpen
  <2>2. Before(k) \in Nat
    BY BeforeIsNat, FSAssumption
  <2>3. Before(k) \notin 1..fat_len
    <3>1. k = 0 \/ (k \in Nat /\ k # 0 /\ k \notin 2..(fat_len + 1))
      BY <2>1, FSAssumption DEF Failing, WholeTables
    <3>. QED
      BY <3>1, Layout DEF Before, AllTables
  <2>4. SavedOwned(disk')
    BY <2>1, <2>2, <2>3, TablesOwned DEF OwnInv
  <2>5. Header'
    BY <2>1 DEF OwnInv, Header
  <2>. QED
    BY <2>1, <2>4, <2>5 DEF OwnInv
<1>5. CASE mount_fs_Abort
  <2>1. ~mounted /\ UNCHANGED <<mounted, loaded, FAT, disk>> /\ status' = "wild" /\ ~HeaderSound
    BY <1>5 DEF mount_fs_Abort
  <2>2. loaded /\ FAT[END] = FREE
    BY <2>1 DEF OwnInv, Header, HeaderSound
  <2>3. Header'
    BY <2>1, <2>2 DEF OwnInv, Header
  <2>. QED
    BY <2>1, <2>3 DEF OwnInv
<1>6. CASE mount_fs_Fails \/ mount_fs_NoSuper \/ mount_fs_Overrun
  <2>1. ~mounted /\ UNCHANGED <<status, mounted, disk>>
    BY <1>6 DEF mount_fs_Fails, mount_fs_NoSuper, mount_fs_Overrun
  <2>2. FAT'[FREE] = 0 /\ FAT'[END] \in {0, FREE}
    <3>1. CASE mount_fs_Fails
      BY <3>1, HeaderFresh DEF mount_fs_Fails, OwnInv, Header
    <3>2. CASE mount_fs_NoSuper
      BY <3>2 DEF mount_fs_NoSuper, OwnInv, Header
    <3>3. CASE mount_fs_Overrun
      BY <3>3, HeaderFresh DEF mount_fs_Overrun
    <3>. QED
      BY <1>6, <3>1, <3>2, <3>3
  <2>3. Header'
    BY <2>1, <2>2 DEF Header, Up
  <2>. QED
    BY <2>1, <2>3 DEF OwnInv
<1>7. CASE mounting_Refused
  BY <1>7 DEF mounting_Refused, Refused, OwnInv, Header
<1>. QED
  BY <1>1, <1>2, <1>3, <1>4, <1>5, <1>6, <1>7 DEF MountCall

LEMMA OwnedName ==
  ASSUME Inv, OwnInv, Empty \notin Names, NEW n \in Names, NameCall(n)
  PROVE  OwnInv'
<1>0. DIR \in [Slots -> Entries] /\ WellNamed(DIR) /\ ChainsOK(FAT)
  BY DEF Inv, DirOK
<1>1. CASE fs_create(n)
  <2>. DEFINE i == First(Unused)
              e == [name |-> n, used |-> TRUE, size |-> 0, head |-> LAZY, ref_cnt |-> 0]
  <2>1. /\ mounted /\ i \in Slots /\ ~DIR[i].used /\ DIR' = [DIR EXCEPT ![i] = e]
        /\ UNCHANGED <<status, mounted, loaded, FAT, active, disk>>
    BY <1>1, FirstSlot DEF fs_create, Creatable
  <2>2. e.used /\ e.head = LAZY /\ e.size = 0
    OBVIOUS
  <2>. HIDE DEF i, e
  <2>3. DIR'[i] = e /\ \A j \in Slots : j # i => DIR'[j] = DIR[j]
    BY <2>1, <1>0
  <2>4. Owned(FAT, DIR)
    BY <2>1 DEF OwnInv
  <2>5. \A j \in Slots : DIR'[j].used => EntrySound(FAT, DIR'[j])
    BY <2>2, <2>3, <2>4 DEF Owned, EntrySound
  <2>6. \A j, k \in Slots : DIR'[j].used /\ DIR'[k].used /\ DIR'[j].head = DIR'[k].head
                             /\ DIR'[j].head \in Home => j = k
    BY <2>2, <2>3, <2>4, HomeIsData DEF Owned
  <2>7. \A b \in Home : FAT[b] # FREE => \E j \in Slots : DIR'[j].used /\ DIR'[j].head = b
    BY <2>1, <2>3, <2>4 DEF Owned
  <2>8. Owned(FAT', DIR')
    BY <2>1, <2>4, <2>5, <2>6, <2>7 DEF Owned
  <2>. QED
    BY <2>1, <2>8, OwnSame DEF OwnInv
<1>2. CASE fs_open(n)
  <2>. DEFINE i == First(ClosedFds)
              e == [DIR[i] EXCEPT !.ref_cnt = IF @ > 0 THEN @ + 1 ELSE 1]
  <2>1. /\ i \in Slots /\ DIR' = [DIR EXCEPT ![i] = e]
        /\ UNCHANGED <<status, mounted, loaded, FAT, active, disk>>
    BY <1>2, FirstSlot DEF fs_open, Openable
  <2>2. e.used = DIR[i].used /\ e.head = DIR[i].head /\ e.size = DIR[i].size
    BY <1>0, <2>1 DEF Entries
  <2>. HIDE DEF i, e
  <2>3. \A j \in Slots : /\ DIR'[j].used = DIR[j].used
                         /\ DIR'[j].head = DIR[j].head /\ DIR'[j].size = DIR[j].size
    BY <2>1, <2>2, <1>0
  <2>4. ASSUME mounted PROVE Owned(FAT', DIR')
    <3>1. Owned(FAT, DIR)
      BY <2>4 DEF OwnInv
    <3>2. Owned(FAT, DIR')
      BY <2>3, <3>1, OwnedEntries
    <3>. QED
      BY <2>1, <3>2
  <2>. QED
    BY <2>1, <2>4, OwnSame DEF OwnInv
<1>3. CASE fs_delete(n)
  <2>. DEFINE i == First(Named(n))
              h == DIR[i].head
  <2>1. /\ mounted /\ i \in Slots /\ DIR[i].name = n /\ DIR' = Forgotten(i)
        /\ UNCHANGED <<mounted, loaded, active, disk>>
        /\ IF h = LAZY THEN UNCHANGED <<status, FAT>> ELSE ReleaseFrom(h)
    BY <1>3, FirstSlot DEF fs_delete, Deletable
  <2>. HIDE DEF i
  <2>2. ~DIR'[i].used /\ \A j \in Slots : j # i => DIR'[j] = DIR[j]
    BY <2>1, <1>0 DEF Forgotten, Entries
  <2>3. Owned(FAT, DIR) /\ DIR[i].used
    BY <2>1, <1>0 DEF OwnInv, WellNamed
  <2>4. /\ UNCHANGED status /\ FAT'[FREE] = FAT[FREE] /\ FAT'[END] \in {FAT[END], FREE}
        /\ \A b \in 0..(EntriesPerBlock - 1) : FAT'[b] = IF b = h THEN FREE ELSE FAT[b]
    <3>1. CASE h = LAZY
      BY <2>1, <3>1, HomeIsData DEF LAZY
    <3>2. CASE h # LAZY
      <4>1. h \in Home /\ FAT[h] = END /\ status = "ok"
        BY <2>1, <2>3, <3>2 DEF Owned, EntrySound, OwnInv
      <4>. QED
        BY <2>1, <3>2, <4>1, <1>0, ReleaseShort
    <3>. QED
      BY <3>1, <3>2
  <2>5. h = LAZY \/ h \in Home
    BY <2>1, <2>3 DEF Owned, EntrySound
  <2>6. FAT'[0] # FREE
    BY <2>3, <2>4, <2>5, HomeIsData DEF Owned, LAZY
  <2>7. \A j \in Slots : DIR'[j].used => EntrySound(FAT', DIR'[j])
    <3>1. SUFFICES ASSUME NEW j \in Slots, DIR'[j].used PROVE EntrySound(FAT', DIR[j]) /\ j # i
      BY <2>2
    <3>2. j # i /\ DIR[j].used
      BY <2>2, <3>1
    <3>3. EntrySound(FAT, DIR[j]) /\ (DIR[j].head \in Home => DIR[j].head # h)
      BY <2>1, <2>3, <3>2 DEF Owned
    <3>. QED
      BY <3>2, <3>3, <2>4, HomeIsData DEF EntrySound
  <2>8. \A j, k \in Slots : DIR'[j].used /\ DIR'[k].used /\ DIR'[j].head = DIR'[k].head
                             /\ DIR'[j].head \in Home => j = k
    BY <2>2, <2>3 DEF Owned
  <2>9. \A b \in Home : FAT'[b] # FREE => \E j \in Slots : DIR'[j].used /\ DIR'[j].head = b
    <3>1. SUFFICES ASSUME NEW b \in Home, FAT'[b] # FREE
                   PROVE  \E j \in Slots : DIR'[j].used /\ DIR'[j].head = b
      OBVIOUS
    <3>2. b # h /\ FAT[b] # FREE
      BY <2>4, <3>1, HomeIsData
    <3>3. PICK j \in Slots : DIR[j].used /\ DIR[j].head = b
      BY <2>3, <3>2 DEF Owned
    <3>. QED
      BY <2>2, <3>2, <3>3
  <2>10. Owned(FAT', DIR')
    BY <2>6, <2>7, <2>8, <2>9 DEF Owned
  <2>. QED
    BY <2>1, <2>4, <2>10, OwnSame DEF OwnInv
<1>4. CASE fs_create_Refused(n) \/ fs_open_Refused(n) \/ fs_delete_Refused(n)
  BY <1>4, OwnSame DEF fs_create_Refused, fs_open_Refused, fs_delete_Refused, Refused, OwnInv
<1>. QED
  BY <1>1, <1>2, <1>3, <1>4 DEF NameCall

LEMMA OwnedTruncate ==
  ASSUME Inv, Matched, OwnInv, "keep" \in Rules, NEW fd, NEW length \in Offsets,
         fs_truncate(fd, length)
  PROVE  OwnInv'
<1>. DEFINE h == Entry(fd).head
            b == Path(FAT, h, Kept(length))[Kept(length)]
<1>1. /\ Usable(fd) /\ length <= Entry(fd).size /\ length > 0 /\ ReleaseFrom(b)
      /\ DIR' = IF status' # "ok" THEN DIR ELSE [DIR EXCEPT ![fildes[fd].file].size = length]
      /\ UNCHANGED <<mounted, loaded, active, disk>>
  BY DEF fs_truncate, Keeping
<1>2. /\ fd \in Slots /\ fildes[fd].file = fd /\ Entry(fd) = DIR[fd] /\ DIR[fd].used
      /\ DIR \in [Slots -> Entries] /\ ChainsOK(FAT)
  BY <1>1, UsableFacts, FSAssumption DEF Usable, Matched, Inv, DirOK, Fildes, Slots
<1>3. status = "ok" /\ mounted /\ Owned(FAT, DIR) /\ SavedOwned(disk)
  BY <1>1 DEF Usable, OwnInv
<1>4. h \in Home /\ FAT[h] = END /\ length \in 1..BLOCK_SIZE
  <2>1. EntrySound(FAT, DIR[fd])
    BY <1>2, <1>3 DEF Owned
  <2>2. length \in Nat /\ DIR[fd].size \in Nat /\ BLOCK_SIZE \in Nat
    BY <1>2, FSAssumption DEF Entries
  <2>3. DIR[fd].size # 0
    BY <1>1, <1>2, <2>2
  <2>4. h \in Home /\ FAT[h] = END /\ DIR[fd].size <= BLOCK_SIZE
    BY <1>2, <2>1, <2>3 DEF EntrySound
  <2>. QED
    BY <1>1, <1>2, <2>2, <2>4
<1>5. b = END
  <2>1. Kept(length) = 1
    BY <1>4, FSAssumption, BlocksOfUpto DEF Kept
  <2>. QED
    BY <1>4, <2>1, PathShort
<1>. HIDE DEF h, b
<1>6. /\ UNCHANGED status /\ FAT'[FREE] = FAT[FREE] /\ FAT'[END] = FREE
      /\ \A c \in 0..(EntriesPerBlock - 1) : FAT'[c] = FAT[c]
  BY <1>1, <1>2, <1>3, <1>5, ReleaseNone
<1>7. DIR' = [DIR EXCEPT ![fd].size = length]
  BY <1>1, <1>2, <1>3, <1>6
<1>8. /\ DIR'[fd].used = DIR[fd].used /\ DIR'[fd].head = DIR[fd].head /\ DIR'[fd].size = length
      /\ \A i \in Slots : i # fd => DIR'[i] = DIR[i]
  BY <1>2, <1>7 DEF Entries
<1>9. Owned(FAT', DIR)
  BY <1>3, <1>6, OwnedFirst
<1>10. Owned(FAT', DIR')
  <2>1. \A i \in Slots : DIR'[i].used => EntrySound(FAT', DIR'[i])
    <3>1. EntrySound(FAT', DIR'[fd])
      <4>1. DIR'[fd].head = h /\ DIR'[fd].size <= BLOCK_SIZE
        BY <1>2, <1>4, <1>8, FSAssumption DEF h
      <4>2. FAT'[h] = END
        BY <1>4, <1>6, HomeIsData
      <4>. QED
        BY <1>4, <4>1, <4>2 DEF EntrySound
    <3>. QED
      BY <3>1, <1>8, <1>9 DEF Owned
  <2>2. \A i \in Slots : DIR'[i].used = DIR[i].used /\ DIR'[i].head = DIR[i].head
    BY <1>8
  <2>. QED
    BY <1>9, <2>1, <2>2 DEF Owned
<1>. QED
  BY <1>1, <1>3, <1>6, <1>10, OwnSame

(* The first write to a file gives it a block that nobody has.             *)
LEMMA OwnedLinked ==
  ASSUME NEW f, NEW d \in [Slots -> Entries], Owned(f, d), NEW i \in Slots, d[i].used,
         d[i].head = LAZY, NEW b \in Home, f[b] = FREE, NEW s \in Nat, s <= BLOCK_SIZE,
         NEW g, \A c \in 0..(EntriesPerBlock - 1) : g[c] = IF c = b THEN END ELSE f[c]
  PROVE  Owned(g, [d EXCEPT ![i].head = b, ![i].size = s])
<1>. DEFINE c == [d EXCEPT ![i].head = b, ![i].size = s]
<1>1. /\ c[i].used /\ c[i].head = b /\ c[i].size = s
      /\ \A j \in Slots : j # i => c[j] = d[j]
  BY DEF Entries
<1>. HIDE DEF c
<1>2. \A j \in Slots : d[j].used => EntrySound(f, d[j])
  BY DEF Owned
<1>3. \A j \in Slots : d[j].used => d[j].head # b
  <2>1. END # FREE
    BY DEF END, FREE
  <2>. QED
    BY <1>2, <2>1, HomeIsData DEF EntrySound
<1>4. g[0] # FREE
  BY HomeIsData DEF Owned
<1>5. \A j \in Slots : c[j].used => EntrySound(g, c[j])
  <2>1. EntrySound(g, c[i])
    BY <1>1, HomeIsData DEF EntrySound
  <2>2. ASSUME NEW j \in Slots, j # i, c[j].used PROVE EntrySound(g, c[j])
    <3>1. /\ c[j] = d[j] /\ EntrySound(f, d[j]) /\ d[j].head # b
          /\ \A x \in Home : x # b => g[x] = f[x]
      BY <1>1, <1>2, <1>3, <2>2, HomeIsData
    <3>. QED
      BY <3>1 DEF EntrySound
  <2>. QED
    BY <2>1, <2>2
<1>6. \A j, k \in Slots : c[j].used /\ c[k].used /\ c[j].head = c[k].head
                           /\ c[j].head \in Home => j = k
  <2>1. SUFFICES ASSUME NEW j \in Slots, NEW k \in Slots, c[j].used, c[k].used,
                        c[j].head = c[k].head, c[j].head \in Home
                 PROVE  j = k
    BY Zenon
  <2>2. j # i /\ k # i => j = k
    BY <1>1, <2>1 DEF Owned
  <2>. QED
    BY <1>1, <1>3, <2>1, <2>2
<1>7. \A x \in Home : g[x] # FREE => \E j \in Slots : c[j].used /\ c[j].head = x
  <2>1. SUFFICES ASSUME NEW x \in Home, g[x] # FREE, x # b
                 PROVE  \E j \in Slots : c[j].used /\ c[j].head = x
    BY <1>1
  <2>2. PICK j \in Slots : d[j].used /\ d[j].head = x
    BY <2>1, HomeIsData DEF Owned
  <2>. QED
    BY <1>1, <2>1, <2>2, HomeIsData
<1>. QED
  BY <1>4, <1>5, <1>6, <1>7 DEF Owned, c

LEMMA OwnedFirstWrite ==
  ASSUME Inv, Matched, OwnInv, WholeTables, Room, NEW fd, NEW buf \in Buffers,
         Usable(fd), ~Past(fd), OneBlock(fd, buf), Entry(fd).head = LAZY,
         FirstWrite(fd, buf), UNCHANGED <<mounted, loaded, active>>
  PROVE  OwnInv'
<1>. DEFINE pieces == Chunks(buf)
            b == NthFree(1)
            bytes == Minimum(Len(buf), Len(pieces) * BLOCK_SIZE)
<1>1. /\ fd \in Fildes /\ fd \in Slots /\ fildes[fd].file = fd /\ Entry(fd) = DIR[fd]
      /\ DIR[fd].used /\ DIR \in [Slots -> Entries] /\ ChainsOK(FAT)
      /\ fildes \in [Fildes -> [used : BOOLEAN, file : Slots, offset : Nat]]
  BY UsableFacts, FSAssumption DEF Usable, Matched, Inv, DirOK, FdsOK, Fildes, Slots
<1>2. mounted /\ active /\ Owned(FAT, DIR) /\ SavedOwned(disk)
  BY DEF Usable, OwnInv
<1>3. fildes[fd].offset = 0 /\ Len(buf) \in 1..BLOCK_SIZE
  <2>1. DIR[fd].size = 0
    BY <1>1, <1>2, HomeIsData DEF Owned, EntrySound
  <2>2. fildes[fd].offset \in Nat /\ ~(fildes[fd].offset > 0)
    BY <1>1, <2>1 DEF Past
  <2>. QED
    BY <2>2, BufferType, FSAssumption DEF OneBlock
<1>4. /\ b \in Home /\ FAT[b] = FREE /\ FreeBlocks # {} /\ Taken(1) = {b}
      /\ Cardinality(FreeBlocks) \in Nat \ {0}
  BY <1>1, <1>2, RoomLeft, FirstFree DEF Owned
<1>5. Len(pieces) = 1 /\ pieces[1].block = b
  BY <1>3, <1>4, ChunksShort
<1>6. bytes = Len(buf)
  <2>. HIDE DEF pieces
  <2>. QED
    BY <1>3, <1>5, FSAssumption DEF Minimum
<1>7. Written(pieces, 0) = 1
  <2>1. BlockWorks(b)
    BY <1>2, <1>4, HomeIsData DEF BlockWorks
  <2>. HIDE DEF pieces
  <2>2. Len(pieces) \in Nat /\ \A i \in 1..Len(pieces) : BlockWorks(pieces[i].block)
    BY <1>5, <2>1
  <2>. QED
    BY <1>5, <2>2, WrittenAll
<1>. HIDE DEF pieces, bytes, b
<1>8. Failing("first") = {0}
  BY DEF Failing, WholeTables
<1>9. /\ disk' = DiskWith(pieces, 1, buf) /\ UNCHANGED status
      /\ FAT' = Linked(Taken(1), END)
      /\ fildes' = [fildes EXCEPT ![fd].offset = @ + bytes]
      /\ DIR' = [DIR EXCEPT ![fd].head = b, ![fd].size = fildes'[fd].offset]
  <2>1. PICK k \in Failing("first") :
          /\ disk' = DiskWith(pieces, Written(pieces, k), buf)
          /\ Written(pieces, k) = Len(pieces) =>
               /\ FAT' = Linked(Taken(Written(pieces, k)), END)
               /\ fildes' = [fildes EXCEPT ![fd].offset = @ + bytes]
               /\ DIR' = [DIR EXCEPT ![fildes[fd].file].head = b,
                                     ![fildes[fd].file].size = fildes'[fd].offset]
               /\ UNCHANGED status
    BY DEF FirstWrite, pieces, b, bytes
  <2>2. k = 0
    BY <1>8
  <2>. QED
    BY <2>1, <2>2, <1>1, <1>5, <1>7
<1>10. fildes'[fd].offset = Len(buf)
  BY <1>1, <1>3, <1>6, <1>9
<1>11. /\ \A c \in 0..(EntriesPerBlock - 1) : FAT'[c] = IF c = b THEN END ELSE FAT[c]
       /\ FAT'[FREE] = FAT[FREE] /\ FAT'[END] = FAT[END]
  <2>1. /\ \A c \in 0..(EntriesPerBlock - 1) : c \in Index
        /\ FREE \in Index /\ END \in Index
    BY HomeIsData, IndexHas
  <2>2. b \in Nat /\ FREE # b /\ END # b
    BY <1>4, HomeIsData
  <2>3. FAT' = Linked({b}, END)
    BY <1>4, <1>9
  <2>4. \A c \in Index : Linked({b}, END)[c] = IF c = b THEN END ELSE FAT[c]
    BY <2>2 DEF Linked
  <2>. QED
    BY <2>1, <2>2, <2>3, <2>4
<1>12. Owned(FAT', DIR')
  <2>1. Len(buf) \in Nat /\ Len(buf) <= BLOCK_SIZE /\ DIR[fd].head = LAZY
    BY <1>1, <1>3, FSAssumption
  <2>2. DIR' = [DIR EXCEPT ![fd].head = b, ![fd].size = Len(buf)]
    BY <1>9, <1>10
  <2>. DEFINE s == Len(buf)
  <2>3. s \in Nat /\ s <= BLOCK_SIZE
    BY <2>1
  <2>. HIDE DEF s
  <2>4. Owned(FAT', [DIR EXCEPT ![fd].head = b, ![fd].size = s])
    <3>. DEFINE g == FAT'
    <3>1. /\ DIR \in [Slots -> Entries] /\ Owned(FAT, DIR) /\ fd \in Slots /\ DIR[fd].used
          /\ DIR[fd].head = LAZY /\ b \in Home /\ FAT[b] = FREE /\ s \in Nat /\ s <= BLOCK_SIZE
      BY <1>1, <1>2, <1>4, <2>1, <2>3
    <3>2. \A c \in 0..(EntriesPerBlock - 1) : g[c] = IF c = b THEN END ELSE FAT[c]
      BY <1>11
    <3>. HIDE DEF g
    <3>3. Owned(g, [DIR EXCEPT ![fd].head = b, ![fd].size = s])
      BY <3>1, <3>2, OwnedLinked, Zenon
    <3>. QED
      BY <3>3, Zenon DEF g
  <2>. QED
    BY <2>2, <2>4 DEF s
<1>13. SavedOwned(disk')
  <2>1. \A i \in 1..1 : pieces[i].block \in Good
    BY <1>4, <1>5, HomeIsData
  <2>. QED
    BY <1>2, <1>9, <2>1, DataOwned
<1>. QED
  BY <1>9, <1>11, <1>12, <1>13, OwnSame

LEMMA OwnedWrite ==
  ASSUME Inv, Matched, OwnInv, "oneblock" \in Rules, WholeTables, Room,
         NEW fd, NEW buf \in Buffers, fs_write(fd, buf)
  PROVE  OwnInv'
<1>. DEFINE o == fildes[fd].offset
            w == Overwriting(fd, buf)
            pieces == w.pieces
<1>1. /\ Usable(fd) /\ ~Past(fd) /\ OneBlock(fd, buf) /\ UNCHANGED <<mounted, loaded, active>>
      /\ \/ FirstWrite(fd, buf) \/ FirstWrite_Full(fd)
         \/ Overwrite(fd, buf) \/ Overwrite_Overrun(fd, buf)
  BY DEF fs_write, Keeping
<1>2. /\ fd \in Fildes /\ fd \in Slots /\ fildes[fd].file = fd /\ Entry(fd) = DIR[fd]
      /\ DIR[fd].used /\ DIR \in [Slots -> Entries] /\ ChainsOK(FAT) /\ DIR[fd] \in Entries
      /\ o \in Nat
  BY <1>1, UsableFacts, FSAssumption DEF Usable, Matched, Inv, DirOK, FdsOK, Fildes, Slots
<1>3. mounted /\ active /\ Owned(FAT, DIR) /\ SavedOwned(disk)
  BY <1>1 DEF Usable, OwnInv
<1>4. CASE Entry(fd).head = LAZY
  <2>1. ~FirstWrite_Full(fd) /\ ~Overwrite(fd, buf) /\ ~Overwrite_Overrun(fd, buf)
    <3>1. FreeBlocks # {}
      BY <1>2, <1>3, <1>4, RoomLeft, FirstFree DEF Owned
    <3>. QED
      BY <1>4, <3>1 DEF FirstWrite_Full, Overwrite, Overwrite_Overrun
  <2>. QED
    BY <1>1, <1>4, <2>1, OwnedFirstWrite
<1>5. CASE Entry(fd).head # LAZY
  <2>1. /\ EntrySound(FAT, DIR[fd]) /\ FAT[Entry(fd).head] = END /\ DIR[fd].size <= BLOCK_SIZE
        /\ Entry(fd).head \in Good
    BY <1>2, <1>3, <1>5, HomeIsData DEF Owned, EntrySound
  <2>2. /\ ~w.over /\ (o # 0 => ~w.last)
        /\ o = 0 => \A k : Written(pieces, k) # Len(pieces)
    BY <1>1, <1>2, <1>3, <2>1, OverwritingShort
  <2>3. Len(pieces) \in Nat /\ \A i \in 1..Len(pieces) : pieces[i].block \in Good
    BY <1>2, <2>1, OverwritingOK
  <2>4. Overwrite(fd, buf)
    BY <1>1, <1>5, <2>2 DEF FirstWrite, FirstWrite_Full, Overwrite_Overrun
  <2>. DEFINE moved == IF w.last THEN 2 * Len(buf) ELSE Len(buf)
              end   == o + moved
  <2>5. PICK k \in Failing("again") :
          /\ disk' = DiskWith(pieces, Written(pieces, k), buf)
          /\ IF Written(pieces, k) = Len(pieces)
               THEN DIR' = [DIR EXCEPT ![fildes[fd].file].size = IF end > @ THEN end ELSE @]
               ELSE UNCHANGED DIR
          /\ UNCHANGED <<status, FAT>>
    BY <2>4 DEF Overwrite
  <2>6. SavedOwned(disk')
    <3>. DEFINE n == Written(pieces, k)
    <3>. HIDE DEF pieces
    <3>1. n \in 0..Len(pieces)
      BY <2>3, WrittenType
    <3>. HIDE DEF n
    <3>2. \A i \in 1..n : pieces[i].block \in Good
      BY <2>3, <3>1
    <3>3. SavedOwned(DiskWith(pieces, n, buf))
      BY <1>3, <3>2, DataOwned
    <3>. QED
      BY <2>5, <3>3 DEF n
  <2>7. Owned(FAT', DIR')
    <3>1. CASE Written(pieces, k) # Len(pieces)
      BY <1>3, <2>5, <3>1
    <3>2. CASE Written(pieces, k) = Len(pieces)
      <4>1. o # 0 /\ end \in Nat /\ end <= BLOCK_SIZE
        <5>1. o # 0 /\ ~w.last /\ Len(buf) \in Nat /\ o + Len(buf) <= BLOCK_SIZE
          BY <1>1, <2>2, <3>2, BufferType DEF OneBlock
        <5>. HIDE DEF w, o
        <5>. QED
          BY <1>2, <5>1
      <4>. HIDE DEF end, w, o, pieces
      <4>. DEFINE s == IF end > DIR[fd].size THEN end ELSE DIR[fd].size
      <4>2. DIR' = [DIR EXCEPT ![fd].size = s] /\ FAT' = FAT
        BY <1>2, <2>5, <3>2
      <4>3. s \in Nat /\ s <= BLOCK_SIZE
        BY <1>2, <2>1, <4>1 DEF Entries
      <4>. HIDE DEF s
      <4>4. /\ DIR'[fd].used = DIR[fd].used /\ DIR'[fd].head = DIR[fd].head /\ DIR'[fd].size = s
            /\ \A i \in Slots : i # fd => DIR'[i] = DIR[i]
        BY <1>2, <4>2 DEF Entries
      <4>5. EntrySound(FAT, DIR'[fd])
        BY <1>2, <1>5, <2>1, <4>3, <4>4 DEF EntrySound
      <4>6. \A i \in Slots : DIR'[i].used => EntrySound(FAT, DIR'[i])
        BY <1>3, <4>4, <4>5 DEF Owned
      <4>7. \A i \in Slots : DIR'[i].used = DIR[i].used /\ DIR'[i].head = DIR[i].head
        BY <4>4
      <4>. QED
        BY <1>3, <4>2, <4>6, <4>7 DEF Owned
    <3>. QED
      BY <3>1, <3>2
  <2>. QED
    BY <1>1, <2>5, <2>6, <2>7, OwnSame
<1>. QED
  BY <1>4, <1>5

LEMMA OwnedFd ==
  ASSUME Inv, Matched, OwnInv, {"keep", "oneblock"} \subseteq Rules, WholeTables, Room,
         NEW fd, FdCall(fd)
  PROVE  OwnInv'
<1>1. CASE \E o \in Offsets : fs_truncate(fd, o)
  BY <1>1, OwnedTruncate
<1>2. CASE \E buf \in Buffers : fs_write(fd, buf)
  BY <1>2, OwnedWrite
<1>3. ASSUME UNCHANGED <<status, mounted, loaded, FAT, active, disk>>,
             \A i \in Slots : /\ DIR'[i].used = DIR[i].used
                              /\ DIR'[i].head = DIR[i].head /\ DIR'[i].size = DIR[i].size
      PROVE  OwnInv'
  <2>1. ASSUME mounted PROVE Owned(FAT', DIR')
    <3>1. Owned(FAT, DIR)
      BY <2>1 DEF OwnInv
    <3>2. Owned(FAT, DIR')
      BY <1>3, <3>1, OwnedEntries
    <3>. QED
      BY <1>3, <3>2
  <2>. QED
    BY <1>3, <2>1, OwnSame DEF OwnInv
<1>4. CASE fs_close(fd)
  <2>. DEFINE f == fildes[fd].file
              e == [DIR[f] EXCEPT !.ref_cnt = @ - 1]
  <2>1. /\ Usable(fd) /\ DIR' = [DIR EXCEPT ![f] = e]
        /\ UNCHANGED <<status, mounted, loaded, FAT, active, disk>>
    BY <1>4 DEF fs_close
  <2>2. f \in Slots /\ DIR \in [Slots -> Entries]
    BY <2>1, UsableFacts DEF Inv, DirOK
  <2>3. e.used = DIR[f].used /\ e.head = DIR[f].head /\ e.size = DIR[f].size
    BY <2>2 DEF Entries
  <2>. HIDE DEF f, e
  <2>4. \A i \in Slots : /\ DIR'[i].used = DIR[i].used
                         /\ DIR'[i].head = DIR[i].head /\ DIR'[i].size = DIR[i].size
    BY <2>1, <2>2, <2>3
  <2>. QED
    BY <1>3, <2>1, <2>4
<1>5. CASE (\E o \in Offsets : fs_lseek(fd, o)) \/ (\E n \in Lengths : fs_read(fd, n))
  <2>1. UNCHANGED <<status, mounted, loaded, FAT, DIR, active, disk>>
    BY <1>5 DEF fs_lseek, fs_read
  <2>. QED
    BY <1>3, <2>1
<1>6. CASE \/ fs_get_filesize(fd) \/ fd_Refused(fd) \/ fs_access_Past(fd)
           \/ \E o \in Offsets : fs_lseek_Refused(fd, o)
           \/ \E n \in Lengths : fs_read_Nothing(fd, n)
  <2>1. UNCHANGED <<status, mounted, loaded, FAT, DIR, active, disk>>
    BY <1>6 DEF fs_get_filesize, fd_Refused, fs_access_Past, fs_lseek_Refused,
         fs_read_Nothing, Refused
  <2>. QED
    BY <1>3, <2>1
<1>. QED
  BY <1>1, <1>2, <1>4, <1>5, <1>6 DEF FdCall

LEMMA OwnedStep ==
  ASSUME Inv, Matched, OwnInv, ProperClients, WholeTables, Room, [Next]_vars
  PROVE  OwnInv'
<1>1. CASE Up /\ MountCall
  BY <1>1, OwnedMount
<1>2. CASE \E n \in Names : Up /\ NameCall(n)
  BY <1>2, OwnedName DEF ProperClients
<1>3. CASE \E fd \in -1..MAX_FILDES : Up /\ FdCall(fd)
  BY <1>3, OwnedFd DEF ProperClients
<1>4. CASE Up /\ fs_listfiles
  BY <1>4, OwnSame DEF fs_listfiles, OwnInv
<1>7. CASE Up /\ fs_listfiles_Null
  <2>1. /\ ~loaded /\ ~mounted /\ status' = "wild"
        /\ UNCHANGED <<mounted, loaded, FAT, disk>>
    BY <1>7 DEF fs_listfiles_Null, OwnInv
  <2>2. Header'
    BY <2>1 DEF OwnInv, Header
  <2>. QED
    BY <2>1, <2>2 DEF OwnInv
<1>5. CASE Exit
  <2>1. FAT' = NoMemory /\ status' = "ok" /\ ~mounted' /\ UNCHANGED disk
    BY <1>5 DEF Exit
  <2>2. Header'
    BY <2>1, HeaderFresh DEF Header
  <2>. QED
    BY <2>1, <2>2 DEF OwnInv
<1>6. CASE UNCHANGED vars
  BY <1>6, OwnSame DEF OwnInv
<1>. QED
  BY <1>1, <1>2, <1>3, <1>4, <1>5, <1>6, <1>7 DEF Next

(* Such clients take few blocks: one, and it is in Home.                   *)
LEMMA OwnedFew ==
  ASSUME Inv, Matched, OwnInv, ProperClients, Room
  PROVE  WritesFew
<1>1. SUFFICES ASSUME NEW fd \in Fildes, NEW buf \in Buffers, Usable(fd),
                      Entry(fd).head = LAZY, FreeBlocks # {}, OneBlock(fd, buf)
               PROVE  Few(buf)
  BY DEF WritesFew, ProperClients, Keeping
<1>2. /\ fd \in Slots /\ Entry(fd) = DIR[fd] /\ ChainsOK(FAT)
      /\ fildes[fd].offset \in Nat
  BY <1>1, UsableFacts, FSAssumption DEF Usable, Matched, Inv, Fildes, Slots
<1>3. Owned(FAT, DIR)
  BY <1>1 DEF Usable, OwnInv
<1>4. /\ NthFree(1) \in Home /\ Taken(1) = {NthFree(1)}
      /\ Cardinality(FreeBlocks) \in Nat \ {0}
  BY <1>1, <1>2, <1>3, RoomLeft, FirstFree DEF Owned
<1>5. Len(buf) \in 1..BLOCK_SIZE
  BY <1>1, <1>2, BufferType, FSAssumption DEF OneBlock
<1>6. Len(Chunks(buf)) = 1
  BY <1>4, <1>5, ChunksShort
<1>7. Few(buf) <=> Taken(1) \subseteq 0..(EntriesPerBlock - 1)
  BY <1>6, Zenon DEF Few
<1>. QED
  BY <1>4, <1>7, HomeIsData

LEMMA OwnedAlways ==
  ASSUME ProperClients, WholeTables, Room
  PROVE  Spec => []OwnInv
<1>1. Init => Matched /\ OwnInv
  BY Layout, KindsDiffer, HeaderFresh DEF Init, Matched, NewFd, OwnInv, SavedOwned, Header
<1>2. Inv /\ Matched /\ OwnInv /\ [Next]_vars => Inv' /\ Matched' /\ OwnInv'
  BY MatchedStep, OwnedStep, OwnedFew, NextInv DEF ProperClients
<1>. QED
  BY <1>1, <1>2, InitInv, PTL DEF Spec

(* For clients that keep to the rules, whose device fails neither first    *)
(* writes nor umount_fs between the FAT and the directory, on a disk with  *)
(* room for a block of every file: no block leaks and none is shared, after*)
(* umount_fs and mount_fs and the end of processes, too.                   *)
THEOREM BlocksOwnedThm ==
  ProperClients /\ WholeTables /\ Room => (Spec => []BlocksOwned)
<1>1. SUFFICES ASSUME ProperClients, WholeTables, Room PROVE Spec => []BlocksOwned
  OBVIOUS
<1>2. OwnInv => BlocksOwned
  <2>1. SUFFICES ASSUME OwnInv, mounted, NEW b \in Home
                 PROVE  Cardinality({i \in Slots : DIR[i].used /\ DIR[i].head = b})
                          = (IF FAT[b] = FREE THEN 0 ELSE 1)
    BY DEF BlocksOwned, Home
  <2>. DEFINE owners == {i \in Slots : DIR[i].used /\ DIR[i].head = b}
  <2>2. Owned(FAT, DIR) /\ b # LAZY
    BY <2>1, HomeIsData DEF OwnInv
  <2>3. CASE FAT[b] = FREE
    <3>1. END # FREE
      BY DEF END, FREE
    <3>2. owners = {}
      BY <2>2, <2>3, <3>1 DEF Owned, EntrySound
    <3>. QED
      BY <3>2, <2>3, FS_EmptySet, Zenon
  <2>4. CASE FAT[b] # FREE
    <3>1. PICK i \in Slots : DIR[i].used /\ DIR[i].head = b
      BY <2>2, <2>4 DEF Owned
    <3>2. owners = {i}
      BY <2>2, <3>1 DEF Owned
    <3>. QED
      BY <3>2, <2>4, FS_Singleton, Zenon
  <2>. QED
    BY <2>3, <2>4
<1>. QED
  BY <1>1, <1>2, OwnedAlways, PTL

(* And no call hangs, and none kills the process but mount_fs when the     *)
(* process has freed a chain before, and fs_listfiles before there is a    *)
(* DIR: never a call between mount_fs and umount_fs.                       *)
THEOREM SessionsEndThm ==
  ProperClients /\ WholeTables /\ Room => (Spec => []SessionsEnd)
<1>1. SUFFICES ASSUME ProperClients, WholeTables, Room PROVE Spec => []SessionsEnd
  OBVIOUS
<1>2. OwnInv => SessionsEnd
  BY DEF OwnInv, Header, SessionsEnd
<1>. QED
  BY <1>1, <1>2, OwnedAlways, PTL

-----------------------------------------------------------------------------
(* Types.                                                                  *)

(* The bounds are no smaller than what a single call needs.                *)
Bounds ==
  /\ MaxRefs \in Nat \ {0} /\ MaxSize \in Nat
  /\ \A buf \in Buffers : Len(buf) <= MaxSize

UnitArrays == [1..BLOCK_SIZE -> Units]

(* Entries within the bounds.  A file without a block is empty.            *)
Bounded(d) == \A i \in Slots :
  /\ d[i].size <= MaxSize /\ d[i].ref_cnt \in -MaxRefs..MaxRefs
  /\ d[i].head = LAZY => d[i].size = 0

SoundContent(c) ==
  \/ c \in {Absent, Super}
  \/ c.kind = "file" /\ c.units \in UnitArrays
  \/ c.kind = "dir" /\ c.dir \in [Slots -> Entries] /\ Bounded(c.dir)
  \/ c.kind = "fat" /\ c.fat \in [0..(EntriesPerBlock - 1) -> Index]

DataOK(d) == \A b \in Blocks : SoundContent(d[b])

TypedFds == fildes \in [Fildes -> [used : BOOLEAN, file : Slots, offset : 0..MaxSize]]

Typed ==
  /\ status \in {"ok", "hung", "wild"}
  /\ mounted \in BOOLEAN /\ loaded \in BOOLEAN /\ active \in BOOLEAN
  /\ mounted => active /\ loaded
  /\ FAT \in [Index -> Index] /\ Bounded(DIR)
  /\ TypedFds /\ DataOK(disk)
  /\ touched \subseteq Names \cup {Empty}

LEMMA KindOf ==
  ASSUME NEW c, SoundContent(c)
  PROVE  /\ c.kind = "file" => c.units \in UnitArrays
         /\ c.kind = "dir" => c.dir \in [Slots -> Entries] /\ Bounded(c.dir)
         /\ c.kind = "fat" => c.fat \in [0..(EntriesPerBlock - 1) -> Index]
<1>1. Super.kind = "super" /\ Absent.kind = "absent"
  BY DEF Super, Absent
<1>. QED
  BY <1>1 DEF SoundContent

LEMMA TypedIsType == Inv /\ Typed => TypeOK
<1>. SUFFICES ASSUME Inv, Typed PROVE TypeOK
  OBVIOUS
<1>1. ASSUME NEW d \in [Slots -> Entries], Bounded(d) PROVE IsDir(d)
  <2>1. ASSUME NEW i \in Slots PROVE IsEntry(d[i])
    <3>1. d[i] \in Entries
      OBVIOUS
    <3>2. DOMAIN d[i] = DOMAIN NewEntry
      BY <3>1 DEF Entries, NewEntry
    <3>3. d[i].name \in Names \cup {Empty} /\ d[i].used \in BOOLEAN /\ d[i].head \in Index
      BY <3>1, MarksAreGood DEF Entries
    <3>4. d[i].size \in 0..MaxSize /\ d[i].ref_cnt \in -MaxRefs..MaxRefs
      <4>1. d[i].size \in Nat
        BY <3>1 DEF Entries
      <4>. QED
        BY <1>1, <4>1 DEF Bounded
    <3>. QED
      BY <3>2, <3>3, <3>4 DEF IsEntry
  <2>. QED
    BY <2>1 DEF IsDir
<1>2. IsDir(DIR)
  BY <1>1 DEF Inv, DirOK, Typed
<1>3. \A b \in Blocks : IsContent(disk[b])
  BY <1>1 DEF Typed, DataOK, SoundContent, IsContent, UnitArrays
<1>4. FAT \in [Index -> Index \cup {0}]
  BY DEF Typed
<1>5. DOMAIN disk = Blocks
  BY DEF Inv, DiskOK
<1>. QED
  BY <1>2, <1>3, <1>4, <1>5 DEF TypeOK, Typed, TypedFds

(* Data.                                                                   *)
LEMMA UnitsOfType ==
  ASSUME DataOK(disk), NEW b
  PROVE  UnitsOf(b) \in UnitArrays /\ Uninitialised \in UnitArrays
<1>1. Uninitialised \in UnitArrays
  BY DEF Uninitialised, UnitArrays, Units
<1>. QED
  BY <1>1, KindOf DEF UnitsOf, DataOK

LEMMA MergedType ==
  ASSUME DataOK(disk), NEW buf \in Buffers, NEW p, PieceFits(p, buf)
  PROVE  \E units \in UnitArrays : Merged(p, buf) = File(units)
<1>. DEFINE units == [u \in 1..BLOCK_SIZE |->
       IF u \in (p.at + 1)..(p.at + p.len) THEN buf[p.from + u - p.at] ELSE p.base[u]]
<1>1. p.base \in UnitArrays
  BY UnitsOfType DEF PieceFits
<1>2. \A i \in 1..Len(buf) : buf[i] \in Units
  <2>1. buf \in Seq(Data)
    BY FSAssumption
  <2>. QED
    BY <2>1 DEF Units
<1>3. units \in UnitArrays
  BY <1>1, <1>2 DEF PieceFits, UnitArrays
<1>. QED
  BY <1>3 DEF Merged

LEMMA LastIsIn ==
  ASSUME NEW n \in Nat, NEW S \in SUBSET (1..n), S # {}
  PROVE  (CHOOSE i \in S : \A j \in S : j <= i) \in S
<1>. DEFINE T == {n - i : i \in S}
<1>1. T \in SUBSET Nat /\ T # {}
  OBVIOUS
<1>2. First(T) \in T /\ \A t \in T : First(T) <= t
  <2>. HIDE DEF T
  <2>. QED
    BY <1>1, FirstIsLeast
<1>3. PICK i \in S : First(T) = n - i
  BY <1>2
<1>4. \A j \in S : n - i <= n - j
  BY <1>2, <1>3
<1>5. \A j \in S : j <= i
  BY <1>4
<1>. QED
  BY <1>5

LEMMA DiskWithData ==
  ASSUME DataOK(disk), NEW pieces, NEW n \in Nat, NEW buf \in Buffers,
         \A i \in 1..n : PieceFits(pieces[i], buf)
  PROVE  DataOK(DiskWith(pieces, n, buf))
<1>. SUFFICES ASSUME NEW b \in Blocks PROVE SoundContent(DiskWith(pieces, n, buf)[b])
  BY DEF DataOK
<1>. DEFINE to   == {i \in 1..n : pieces[i].block = b}
            last == CHOOSE i \in to : \A j \in to : j <= i
<1>1. CASE to = {}
  BY <1>1 DEF DiskWith, DataOK
<1>2. CASE to # {}
  <2>1. DiskWith(pieces, n, buf)[b] = Merged(pieces[last], buf)
    BY <1>2 DEF DiskWith
  <2>2. last \in to
    BY <1>2, LastIsIn
  <2>3. PieceFits(pieces[last], buf)
    BY <2>2
  <2>4. PICK units \in UnitArrays : Merged(pieces[last], buf) = File(units)
    BY <2>3, MergedType
  <2>. QED
    BY <2>1, <2>4 DEF SoundContent, File
<1>. QED
  BY <1>1, <1>2

LEMMA ErasedData == DataOK([b \in Blocks |-> Erased])
<1>1. [u \in 1..BLOCK_SIZE |-> Zero] \in UnitArrays
  BY DEF UnitArrays, Units
<1>. QED
  BY <1>1 DEF DataOK, SoundContent, Erased, File

LEMMA TablesData ==
  ASSUME NEW old, DataOK(old), NEW f \in [Index -> Index], NEW d \in [Slots -> Entries],
         Bounded(d), NEW m \in Around, NEW n
  PROVE  DataOK(Tables(old, f, d, m, n))
<1>1. ASSUME NEW i \in 0..(fat_len - 1) PROVE SoundContent(Image(f, i, m))
  <2>1. ASSUME NEW j \in 0..(EntriesPerBlock - 1) PROVE Image(f, i, m).fat[j] \in Index
    <3>. DEFINE a == 2 * i * EntriesPerBlock + j
    <3>1. a \in Nat /\ a < 2 * DISK_BLOCKS
      <4>. DEFINE k == fat_len
      <4>1. k \in Nat \ {0} /\ DISK_BLOCKS = k * EntriesPerBlock /\ EntriesPerBlock \in Nat \ {0}
        BY Layout, FSAssumption
      <4>. HIDE DEF k
      <4>2. i \in 0..(k - 1)
        BY DEF k
      <4>3. i * EntriesPerBlock \in Nat /\ (k - 1 - i) * EntriesPerBlock \in Nat
        BY <4>1, <4>2, Times
      <4>4. k * EntriesPerBlock = i * EntriesPerBlock + (k - 1 - i) * EntriesPerBlock + EntriesPerBlock
        BY <4>1, <4>2
      <4>5. 2 * i * EntriesPerBlock = 2 * (i * EntriesPerBlock)
        BY <4>1, <4>2
      <4>. DEFINE p == i * EntriesPerBlock
                  q == (k - 1 - i) * EntriesPerBlock
      <4>6. a = 2 * p + j /\ DISK_BLOCKS = p + q + EntriesPerBlock /\ p \in Nat /\ q \in Nat
        BY <4>1, <4>3, <4>4, <4>5
      <4>. HIDE DEF p, q, a
      <4>. QED
        BY <4>1, <4>6
    <3>. HIDE DEF a
    <3>2. a \in Index
      BY <3>1, FSAssumption
    <3>3. f[a] \in Index /\ m[a] \in Index
      BY <3>2, FSAssumption
    <3>4. Image(f, i, m).fat[j] = IF a < DISK_BLOCKS THEN f[a] ELSE m[a]
      BY DEF Image, a
    <3>. QED
      BY <3>3, <3>4
  <2>2. Image(f, i, m).kind = "fat" /\ DOMAIN Image(f, i, m).fat = 0..(EntriesPerBlock - 1)
        /\ Image(f, i, m).fat = [j \in 0..(EntriesPerBlock - 1) |-> Image(f, i, m).fat[j]]
    BY DEF Image
  <2>. QED
    BY <2>1, <2>2 DEF SoundContent
<1>2. SoundContent(Table(d)) /\ SoundContent(Super)
  BY DEF SoundContent, Table
<1>3. \A b \in fat_idx..(dir_idx - 1) : b - fat_idx \in 0..(fat_len - 1)
  BY Layout DEF fat_idx
<1>. QED
  BY <1>1, <1>2, <1>3 DEF DataOK, Tables


(* The FAT.                                                                *)
LEMMA FreshIndex ==
  NoMemory \in [Index -> Index] /\ \A m \in Around : NewFAT(m) \in [Index -> Index]
<1>1. ASSUME NEW m \in Around, NEW b \in Index PROVE NewFAT(m)[b] \in Index
  <2>1. m[b] \in Index /\ {0, FREE, END} \subseteq Index
    BY FSAssumption, MarksAreGood
  <2>2. b \in Blocks => b \in Nat /\ (~(b >= Reserved) => b \in 0..dir_idx)
    BY Layout, IndexHas
  <2>3. ASSUME b \in 0..dir_idx, b # dir_idx PROVE b + 1 \in Index
    <3>1. b + 1 \in 1..dir_idx
      BY <2>3, Layout
    <3>. QED
      BY <3>1, MarksAreGood
  <2>. QED
    BY <2>1, <2>2, <2>3 DEF NewFAT
<1>2. NoMemory \in [Index -> Index]
  BY MarksAreGood DEF NoMemory
<1>. QED
  BY <1>1, <1>2 DEF NewFAT

LEMMA LoadedIndex ==
  ASSUME FAT \in [Index -> Index], DiskOK(disk), DataOK(disk), disk[0] = Super,
         NEW n \in 0..fat_len, NEW m \in Around
  PROVE  LoadedFAT(n, m) \in [Index -> Index]
<1>1. ASSUME NEW b \in Index, b \in 0..(n * EntriesPerBlock - 1)
      PROVE  LoadedFAT(n, m)[b] \in Index
  <2>. DEFINE i == b \div EntriesPerBlock
              j == b % EntriesPerBlock
  <2>0. n \in Nat /\ EntriesPerBlock \in Nat \ {0}
    BY Layout, FSAssumption
  <2>1. b \in Nat /\ b < n * EntriesPerBlock
    <3>1. n * EntriesPerBlock \in Nat
      BY <2>0, Times
    <3>. QED
      BY <3>1, <1>1
  <2>2. i \in 0..(n - 1) /\ j \in 0..(EntriesPerBlock - 1)
    BY <2>0, <2>1, Places
  <2>3. LoadedFAT(n, m)[b] = disk[fat_idx + i].fat[j]
    BY <1>1 DEF LoadedFAT
  <2>. HIDE DEF i, j
  <2>4. fat_idx + i \in fat_idx..(dir_idx - 1) /\ fat_idx + i \in Blocks
    BY <2>0, <2>2, Layout DEF fat_idx
  <2>5. disk[fat_idx + i].kind = "fat"
    BY <2>4 DEF DiskOK, FatBlockOK
  <2>6. disk[fat_idx + i].fat \in [0..(EntriesPerBlock - 1) -> Index]
    BY <2>4, <2>5, KindOf DEF DataOK
  <2>. QED
    BY <2>2, <2>3, <2>6
<1>2. ASSUME NEW b \in Index, b \notin 0..(n * EntriesPerBlock - 1)
      PROVE  LoadedFAT(n, m)[b] \in Index
  <2>1. m[b] \in Index
    BY FSAssumption
  <2>. QED
    BY <1>2, <2>1 DEF LoadedFAT
<1>. QED
  BY <1>1, <1>2 DEF LoadedFAT

LEMMA FreeChainIndex ==
  ASSUME NEW f \in [Index -> Index], NEW b
  PROVE  /\ FreeChain(f, b).fat \in [Index -> Index]
         /\ FreeChain(f, b).ends \in {"ok", "hung", "wild"}
<1>. DEFINE way   == Reach(f, b, {END})
            way2  == Reach(Freed(f, way), FREE, {END})
            freed == (IF END \in way THEN way ELSE way \cup way2) \ {END}
<1>1. FreeChain(f, b).fat = Freed(f, freed)
  BY DEF FreeChain
<1>2. FreeChain(f, b).ends \in {"ok", "hung", "wild"}
  BY DEF FreeChain
<1>. HIDE DEF freed
<1>3. Freed(f, freed) \in [Index -> Index]
  BY MarksAreGood DEF Freed
<1>. QED
  BY <1>1, <1>2, <1>3

LEMMA ReleaseIndex ==
  ASSUME FAT \in [Index -> Index], NEW b, ReleaseFrom(b)
  PROVE  FAT' \in [Index -> Index] /\ status' \in {"ok", "hung", "wild"}
<1>. DEFINE f == FreeChain(FAT, b).fat
<1>1. f \in [Index -> Index] /\ FreeChain(FAT, b).ends \in {"ok", "hung", "wild"}
  BY FreeChainIndex
<1>2. FAT' = f \/ FAT' = [f EXCEPT ![END] = FREE]
  BY DEF ReleaseFrom
<1>3. status' = FreeChain(FAT, b).ends
  BY DEF ReleaseFrom, Ends
<1>. HIDE DEF f
<1>. QED
  BY <1>1, <1>2, <1>3, MarksAreGood

LEMMA LinkedIndex ==
  ASSUME ChainsOK(FAT), FAT \in [Index -> Index], NEW S \in SUBSET FreeBlocks, NEW last \in Index
  PROVE  Linked(S, last) \in [Index -> Index]
<1>1. ASSUME NEW b \in S, ~\A c \in S : c <= b PROVE First({c \in S : c > b}) \in Index
  <2>. DEFINE T == {c \in S : c > b}
  <2>1. S \subseteq Nat /\ S \subseteq Index
    BY FreeIsGood
  <2>2. PICK c \in S : ~(c <= b)
    BY <1>1
  <2>3. c \in T /\ T \in SUBSET Nat
    <3>1. b \in Nat /\ c \in Nat
      BY <2>1
    <3>2. c > b
      BY <2>2, <3>1
    <3>3. T \subseteq S
      OBVIOUS
    <3>. QED
      BY <2>1, <3>2, <3>3
  <2>4. First(T) \in T
    <3>. HIDE DEF T
    <3>. QED
      BY <2>3, FirstIsLeast
  <2>. QED
    BY <2>1, <2>4
<1>. QED
  BY <1>1 DEF Linked

(* Nothing that Typed speaks of has changed.                               *)
LEMMA TypedSame ==
  ASSUME Typed, UNCHANGED vars
  PROVE  Typed'
  BY DEF Typed, TypedFds, DataOK, Bounded, SoundContent

LEMMA TypedInit == Init /\ Bounds => Typed
<1>. SUFFICES ASSUME Init, Bounds PROVE Typed
  OBVIOUS
<1>1. FAT \in [Index -> Index]
  BY FreshIndex DEF Init
<1>2. Bounded(DIR) /\ TypedFds
  BY FSAssumption DEF Init, Bounds, Bounded, NewEntry, TypedFds, NewFd, Slots, LAZY
<1>3. DataOK(disk)
  BY DEF Init, DataOK, SoundContent
<1>. QED
  BY <1>1, <1>2, <1>3 DEF Init, Typed

LEMMA FreshBounded == Bounds => Bounded(NewDIR) /\ NewDIR \in [Slots -> Entries]
<1>1. NewDIR \in [Slots -> Entries]
  BY FreshDir DEF DirOK
<1>2. \A i \in Slots : NewDIR[i].size = 0 /\ NewDIR[i].ref_cnt = 0
  BY DEF NewDIR, NewEntry
<1>3. Bounds => 0 <= MaxSize /\ 0 \in -MaxRefs..MaxRefs
  BY DEF Bounds
<1>. QED
  BY <1>1, <1>2, <1>3 DEF Bounded

LEMMA FreshFds == Bounds => [i \in Fildes |-> NewFd] \in [Fildes -> [used : BOOLEAN, file : Slots, offset : 0..MaxSize]]
  BY FSAssumption DEF Bounds, NewFd, Slots

LEMMA TypedMount ==
  ASSUME Inv, Typed, Bounds, Up, MountCall
  PROVE  Typed'
<1>1. CASE make_fs
  <2>1. PICK m \in Around, k \in Failing("make") :
          /\ FAT' = NewFAT(m) /\ DIR' = NewDIR /\ loaded' = TRUE /\ UNCHANGED <<status, fildes>>
          /\ mounted' = (k # 0) /\ active' = (k # 0) /\ touched' = {}
          /\ disk' = Tables([b \in Blocks |-> Erased], NewFAT(m), NewDIR, m, Before(k))
    BY <1>1 DEF make_fs, StillOpen
  <2>2. DataOK(disk')
    BY <2>1, TablesData, ErasedData, FreshIndex, FreshBounded
  <2>. QED
    BY <2>1, <2>2, FreshIndex, FreshBounded DEF Typed, TypedFds, DataOK, Bounded
<1>2. CASE make_fs_Busy
  <2>1. DataOK(disk') /\ touched' = {} /\ UNCHANGED <<status, memVars, active>>
    BY <1>2, ErasedData DEF make_fs_Busy, make_disk
  <2>. QED
    BY <2>1 DEF Typed, TypedFds, DataOK, Bounded
<1>3. CASE mount_fs
  <2>1. PICK m \in Around :
          /\ disk[0] = Super /\ mounted' = TRUE /\ active' = TRUE /\ loaded' = TRUE
          /\ FAT' = LoadedFAT(fat_len, m) /\ DIR' = disk[dir_idx].dir
          /\ fildes' = [i \in Fildes |-> NewFd] /\ UNCHANGED <<status, disk, touched>>
    BY <1>3 DEF mount_fs
  <2>2. FAT' \in [Index -> Index]
    <3>1. fat_len \in 0..fat_len
      BY Layout
    <3>. QED
      BY <2>1, <3>1, LoadedIndex DEF Inv, Typed
  <2>3. Bounded(DIR')
    <3>1. dir_idx \in Blocks /\ disk[dir_idx].kind = "dir"
      BY <2>1, Layout DEF Inv, DiskOK, DirBlockOK
    <3>. QED
      BY <2>1, <3>1, KindOf DEF Typed, DataOK
  <2>4. TypedFds'
    BY <2>1, FreshFds DEF TypedFds
  <2>5. DataOK(disk')
    BY <2>1 DEF Typed
  <2>. QED
    BY <2>1, <2>2, <2>3, <2>4, <2>5 DEF Typed
<1>4. CASE mount_fs_Overrun
  <2>1. /\ ~mounted /\ loaded' = FALSE /\ active' = FALSE /\ UNCHANGED <<status, mounted, disk, touched>>
        /\ FAT' = NoMemory /\ DIR' = NewDIR /\ fildes' = [i \in Fildes |-> NewFd]
    BY <1>4 DEF mount_fs_Overrun
  <2>2. TypedFds' /\ DataOK(disk') /\ Bounded(DIR') /\ FAT' \in [Index -> Index]
    BY <2>1, FreshFds, FreshIndex, FreshBounded DEF TypedFds, Typed
  <2>. QED
    BY <2>1, <2>2 DEF Typed
<1>5. CASE umount_fs
  <2>1. PICK m \in Around, k \in Failing("umount") :
          /\ mounted /\ mounted' = (k # 0) /\ active' = (k # 0)
          /\ touched' = IF k = 0 THEN {} ELSE touched
          /\ UNCHANGED <<status, loaded, FAT, DIR, fildes>>
          /\ disk' = Tables(disk, FAT, DIR, m, Before(k))
    BY <1>5 DEF umount_fs, StillOpen
  <2>2. DataOK(disk')
    BY <2>1, TablesData DEF Typed, Inv, DirOK
  <2>. QED
    BY <2>1, <2>2 DEF Typed, TypedFds, DataOK, Bounded
<1>6. CASE mounting_Refused
  BY <1>6, TypedSame DEF mounting_Refused, Refused, Typed, TypedFds
<1>7. CASE mount_fs_Abort \/ mount_fs_NoSuper
  <2>1. /\ UNCHANGED <<memVars, disk, touched>> /\ status' \in {"ok", "wild"} /\ active' \in BOOLEAN
        /\ ~mounted
    BY <1>7 DEF mount_fs_Abort, mount_fs_NoSuper, Up, Typed
  <2>2. FAT' \in [Index -> Index] /\ Bounded(DIR') /\ TypedFds' /\ DataOK(disk')
    BY <2>1 DEF Typed, TypedFds
  <2>. QED
    BY <2>1, <2>2 DEF Typed
<1>8. CASE mount_fs_Fails
  <2>1. PICK m \in Around, k \in Faults["mount"] \cap 2..AllTables :
          /\ ~mounted /\ disk[0] = Super /\ active' = TRUE
          /\ loaded' = (loaded \/ k = AllTables) /\ FAT' = LoadedFAT(k - 2, m)
          /\ UNCHANGED <<status, mounted, DIR, fildes, disk, touched>>
    BY <1>8 DEF mount_fs_Fails
  <2>2. k - 2 \in 0..fat_len
    BY Layout DEF AllTables
  <2>3. FAT' \in [Index -> Index]
    BY <2>1, <2>2, LoadedIndex DEF Inv, Typed
  <2>4. Bounded(DIR') /\ TypedFds' /\ DataOK(disk')
    BY <2>1 DEF Typed, TypedFds
  <2>. QED
    BY <2>1, <2>3, <2>4 DEF Typed
<1>. QED
  BY <1>1, <1>2, <1>3, <1>4, <1>5, <1>6, <1>7, <1>8 DEF MountCall


LEMMA TypedName ==
  ASSUME Inv, Typed, Bounds, Up, NEW n \in Names, NameCall(n)
  PROVE  Typed'
<1>1. CASE fs_create(n)
  <2>. DEFINE i == First(Unused)
              e == [name |-> n, used |-> TRUE, size |-> 0, head |-> LAZY, ref_cnt |-> 0]
  <2>1. /\ DIR' = [DIR EXCEPT ![i] = e] /\ touched' = touched \cup {n}
        /\ UNCHANGED <<status, mounted, loaded, FAT, fildes, active, disk>>
    BY <1>1 DEF fs_create
  <2>2. e.size = 0 /\ e.ref_cnt = 0 /\ 0 <= MaxSize /\ 0 \in -MaxRefs..MaxRefs
    BY DEF Bounds
  <2>. HIDE DEF i, e
  <2>3. Bounded(DIR')
    BY <2>1, <2>2 DEF Typed, Inv, DirOK, Bounded
  <2>. QED
    BY <2>1, <2>3 DEF Typed, TypedFds, DataOK
<1>2. CASE fs_open(n)
  <2>. DEFINE i == First(ClosedFds)
  <2>1. /\ ClosedFds # {} /\ DIR[i].ref_cnt < MaxRefs
        /\ fildes' = [fildes EXCEPT ![i] = [used |-> TRUE, file |-> i, offset |-> 0]]
        /\ DIR' = [DIR EXCEPT ![i].ref_cnt = IF @ > 0 THEN @ + 1 ELSE 1]
        /\ UNCHANGED <<status, mounted, loaded, FAT, active, disk, touched>>
    BY <1>2 DEF fs_open, Openable
  <2>2. i \in Fildes /\ i \in Slots
    BY <2>1, FirstSlot
  <2>. HIDE DEF i
  <2>3. DIR[i] \in Entries /\ DIR[i].ref_cnt \in -MaxRefs..MaxRefs
    BY <2>2 DEF Inv, DirOK, Typed, Bounded
  <2>4. /\ DIR'[i].ref_cnt = IF DIR[i].ref_cnt > 0 THEN DIR[i].ref_cnt + 1 ELSE 1
        /\ DIR'[i].size = DIR[i].size /\ DIR'[i].head = DIR[i].head
        /\ \A j \in Slots \ {i} : DIR'[j] = DIR[j]
    BY <2>1, <2>2, <2>3 DEF Inv, DirOK, Entries
  <2>5. DIR'[i].ref_cnt \in -MaxRefs..MaxRefs
    BY <2>1, <2>3, <2>4 DEF Bounds
  <2>6. Bounded(DIR')
    BY <2>4, <2>5 DEF Typed, Bounded
  <2>7. TypedFds'
    BY <2>1, <2>2 DEF Typed, TypedFds, Bounds
  <2>. QED
    BY <2>1, <2>6, <2>7 DEF Typed, DataOK
<1>3. CASE fs_delete(n)
  <2>. DEFINE i == First(Named(n))
  <2>1. /\ DIR' = Forgotten(i) /\ touched' = touched \cup {n}
        /\ UNCHANGED <<mounted, loaded, fildes, active, disk>>
        /\ UNCHANGED <<status, FAT>> \/ ReleaseFrom(DIR[i].head)
    BY <1>3 DEF fs_delete
  <2>. HIDE DEF i
  <2>2. FAT' \in [Index -> Index] /\ status' \in {"ok", "hung", "wild"}
    BY <2>1, ReleaseIndex DEF Typed
  <2>3. \A j \in Slots : /\ DIR'[j].size = DIR[j].size /\ DIR'[j].head = DIR[j].head
                         /\ DIR'[j].ref_cnt = DIR[j].ref_cnt
    BY <2>1 DEF Forgotten, Inv, DirOK, Entries
  <2>4. Bounded(DIR')
    BY <2>3 DEF Typed, Bounded
  <2>. QED
    BY <2>1, <2>2, <2>4 DEF Typed, TypedFds, DataOK
<1>4. CASE fs_create_Refused(n) \/ fs_open_Refused(n) \/ fs_delete_Refused(n)
  <2>1. UNCHANGED <<status, memVars, diskVars, touched>>
    BY <1>4 DEF fs_create_Refused, fs_open_Refused, fs_delete_Refused, Refused
  <2>. QED
    BY <2>1 DEF Typed, TypedFds, DataOK, Bounded
<1>. QED
  BY <1>1, <1>2, <1>3, <1>4 DEF NameCall

(* One entry has got a new head or size.                                   *)
LEMMA BoundedNew ==
  ASSUME NEW d \in [Slots -> Entries], Bounded(d), NEW i \in Slots, NEW c,
         c[i].size <= MaxSize, c[i].ref_cnt = d[i].ref_cnt, c[i].head = LAZY => c[i].size = 0,
         \A j \in Slots \ {i} : c[j] = d[j]
  PROVE  Bounded(c)
  BY DEF Bounded

LEMMA TypedFirstWrite ==
  ASSUME Inv, Typed, Bounds, Up, NEW fd, Usable(fd), ~Past(fd), NEW buf \in Buffers,
         FirstWrite(fd, buf), Touching(fd), UNCHANGED <<mounted, loaded, active>>
  PROVE  Typed'
<1>. DEFINE f      == fildes[fd].file
            pieces == Chunks(buf)
            bytes  == Minimum(Len(buf), Len(pieces) * BLOCK_SIZE)
            free   == Cardinality(FreeBlocks)
            h      == NthFree(1)
<1>1. PICK k \in Failing("first") : LET n == Written(pieces, k) IN
  /\ Entry(fd).head = LAZY
  /\ FreeBlocks # {}
  /\ disk' = DiskWith(pieces, n, buf)
  /\ IF n = Len(pieces)
       THEN /\ FAT' = Linked(Taken(n), END)
            /\ fildes' = [fildes EXCEPT ![fd].offset = @ + bytes]
            /\ DIR' = [DIR EXCEPT ![f].head = NthFree(1), ![f].size = fildes'[fd].offset]
            /\ UNCHANGED status
       ELSE /\ FAT' = Rollback(n + 1).fat
            /\ DIR' = [DIR EXCEPT ![f].head = NthFree(1)]
            /\ status' = Rollback(n + 1).ends
            /\ UNCHANGED fildes
  BY DEF FirstWrite, Ends
<1>. DEFINE n == Written(pieces, k)
<1>2. /\ Len(pieces) \in Nat /\ n \in 0..Len(pieces)
      /\ \A i \in 1..Len(pieces) : BlockOf(i) \in 1..free
  BY ChunksOK, WrittenType DEF Inv
<1>3. f \in Slots /\ fd \in Fildes /\ DIR[f] \in Entries /\ Entry(fd) = DIR[f]
  BY UsableFacts
<1>4. h \in Index /\ h # LAZY
  <2>1. free \in Nat /\ free # 0
    BY <1>1, FreeIsGood, FS_CardinalityType, FS_EmptySet DEF Inv
  <2>2. h \in FreeBlocks
    BY <2>1, NthFreeOK DEF Inv
  <2>. QED
    BY <2>2, FreeIsGood DEF Inv, LAZY
<1>5. DataOK(disk')
  <2>. HIDE DEF pieces, n
  <2>1. n \in Nat /\ \A i \in 1..n : i \in 1..Len(pieces)
    BY <1>2
  <2>2. \A i \in 1..n : PieceFits(pieces[i], buf)
    BY <2>1, ChunksFit DEF Inv, pieces
  <2>. QED
    BY <1>1, <2>1, <2>2, DiskWithData DEF Typed, n
<1>6. fildes[fd].offset = 0 /\ bytes \in 0..MaxSize
  <2>1. DIR[f].size = 0 /\ fildes[fd].offset \in Nat
    BY <1>1, <1>3, UsableFacts DEF Typed, Bounded
  <2>2. Len(pieces) * BLOCK_SIZE \in Nat /\ Len(buf) \in Nat /\ Len(buf) <= MaxSize
    BY <1>2, Times, BufferType, FSAssumption DEF Bounds
  <2>. HIDE DEF pieces
  <2>3. bytes \in 0..MaxSize
    BY <2>2 DEF Minimum, Bounds
  <2>. QED
    BY <1>3, <2>1, <2>3 DEF Past
<1>7. touched' \subseteq Names \cup {Empty}
  BY <1>3 DEF Touching, Typed, Entries
<1>. HIDE DEF pieces, bytes, f, h
<1>8. CASE n = Len(pieces)
  <2>1. /\ FAT' = Linked(Taken(n), END) /\ UNCHANGED status
        /\ fildes' = [fildes EXCEPT ![fd].offset = @ + bytes]
        /\ DIR' = [DIR EXCEPT ![f].head = h, ![f].size = fildes'[fd].offset]
    BY <1>1, <1>8 DEF h
  <2>2. FAT' \in [Index -> Index]
    <3>1. Taken(n) \in SUBSET FreeBlocks /\ END \in Index
      BY MarksAreGood DEF Taken
    <3>. QED
      BY <2>1, <3>1, LinkedIndex DEF Inv, Typed
  <2>3. fildes'[fd].offset = bytes /\ TypedFds'
    BY <2>1, <1>3, <1>6 DEF Typed, TypedFds
  <2>4. Bounded(DIR')
    <3>. DEFINE o == fildes'[fd].offset
    <3>1. o \in 0..MaxSize
      BY <2>3, <1>6
    <3>. HIDE DEF o
    <3>2. DIR' = [DIR EXCEPT ![f].head = h, ![f].size = o]
      BY <2>1 DEF o
    <3>3. /\ DIR'[f].head = h /\ DIR'[f].size = o /\ DIR'[f].ref_cnt = DIR[f].ref_cnt
          /\ \A j \in Slots \ {f} : DIR'[j] = DIR[j]
      BY <3>2, <1>3 DEF Inv, DirOK, Entries
    <3>. QED
      BY <3>1, <3>3, <1>3, <1>4, BoundedNew DEF Typed, Inv, DirOK, Bounds
  <2>. QED
    BY <1>5, <1>7, <2>1, <2>2, <2>3, <2>4 DEF Typed
<1>9. CASE n # Len(pieces)
  <2>1. /\ FAT' = Rollback(n + 1).fat /\ DIR' = [DIR EXCEPT ![f].head = h] /\ UNCHANGED fildes
        /\ status' = Rollback(n + 1).ends
    BY <1>1, <1>9 DEF h
  <2>2. FAT' \in [Index -> Index] /\ status' \in {"ok", "hung", "wild"}
    <3>. DEFINE last == IF (n + 1) % 2 = 1 THEN FREE ELSE NthFree(BlockOf(n + 1))
    <3>1. n + 1 \in 1..Len(pieces)
      BY <1>2, <1>9
    <3>2. BlockOf(n + 1) \in 1..free
      BY <1>2, <3>1
    <3>3. last \in Index /\ Taken(n + 1) \in SUBSET FreeBlocks
      <4>1. NthFree(BlockOf(n + 1)) \in Index /\ FREE \in Index
        BY <3>2, FreeIsGood, NthFreeOK, MarksAreGood DEF Inv
      <4>. QED
        BY <4>1 DEF Taken
    <3>. HIDE DEF last
    <3>4. Linked(Taken(n + 1), last) \in [Index -> Index]
      BY <3>3, LinkedIndex DEF Inv, Typed
    <3>5. Rollback(n + 1) = FreeChain(Linked(Taken(n + 1), last), h)
      BY DEF Rollback, last, h
    <3>. QED
      BY <2>1, <3>4, <3>5, FreeChainIndex
  <2>3. /\ DIR'[f].head = h /\ DIR'[f].size = DIR[f].size /\ DIR'[f].ref_cnt = DIR[f].ref_cnt
        /\ \A j \in Slots \ {f} : DIR'[j] = DIR[j]
    BY <2>1, <1>3 DEF Inv, DirOK, Entries
  <2>4. Bounded(DIR')
    BY <2>3, <1>3, <1>4, BoundedNew DEF Typed, Inv, DirOK, Bounded
  <2>. QED
    BY <1>5, <1>7, <2>1, <2>2, <2>4 DEF Typed, TypedFds
<1>. QED
  BY <1>8, <1>9


LEMMA TypedWrite ==
  ASSUME Inv, Typed, Bounds, Up, NEW fd, NEW buf \in Buffers, fs_write(fd, buf)
  PROVE  Typed'
<1>. DEFINE f      == fildes[fd].file
            pieces == Overwriting(fd, buf).pieces
<1>1. Usable(fd) /\ ~Past(fd) /\ Touching(fd) /\ UNCHANGED <<mounted, loaded, active>>
  BY DEF fs_write
<1>2. /\ fd \in Fildes /\ f \in Slots /\ Entry(fd) = DIR[f] /\ DIR[f] \in Entries
      /\ fildes[fd].offset \in Nat /\ Entry(fd).head \in Good
  BY <1>1, UsableFacts DEF Entries
<1>3. Len(pieces) \in Nat /\ \A i \in 1..Len(pieces) : PieceFits(pieces[i], buf)
  BY <1>2, OverwritingOK DEF Inv
<1>4. touched' \subseteq Names \cup {Empty}
  BY <1>1, <1>2 DEF Touching, Typed, Entries
<1>5. CASE FirstWrite(fd, buf)
  BY <1>1, <1>5, TypedFirstWrite
<1>6. CASE FirstWrite_Full(fd)
  <2>1. /\ Entry(fd).head = LAZY /\ DIR' = [DIR EXCEPT ![f].head = -1]
        /\ UNCHANGED <<status, FAT, fildes, disk>>
    BY <1>6 DEF FirstWrite_Full
  <2>2. /\ DIR'[f].head = -1 /\ DIR'[f].size = DIR[f].size /\ DIR'[f].ref_cnt = DIR[f].ref_cnt
        /\ \A j \in Slots \ {f} : DIR'[j] = DIR[j]
    BY <1>2, <2>1 DEF Inv, DirOK, Entries
  <2>3. Bounded(DIR')
    BY <1>2, <2>2, BoundedNew DEF Typed, Inv, DirOK, Bounded, LAZY
  <2>. QED
    BY <1>1, <1>4, <2>1, <2>3 DEF Typed, TypedFds, DataOK
<1>7. CASE Overwrite(fd, buf)
  <2>. DEFINE moved == IF Overwriting(fd, buf).last THEN 2 * Len(buf) ELSE Len(buf)
              end   == fildes[fd].offset + moved
  <2>1. PICK k \in Failing("again") :
          /\ Entry(fd).head # LAZY
          /\ disk' = DiskWith(pieces, Written(pieces, k), buf)
          /\ \/ /\ end <= MaxSize
                /\ fildes' = [fildes EXCEPT ![fd].offset = end]
                /\ DIR' = [DIR EXCEPT ![f].size = IF end > @ THEN end ELSE @]
             \/ UNCHANGED <<fildes, DIR>>
          /\ UNCHANGED <<status, FAT>>
    BY <1>7 DEF Overwrite
  <2>2. DataOK(disk')
    <3>. HIDE DEF pieces
    <3>1. Written(pieces, k) \in 0..Len(pieces)
      BY <1>3, WrittenType
    <3>2. Written(pieces, k) \in Nat /\ \A i \in 1..Written(pieces, k) : PieceFits(pieces[i], buf)
      BY <1>3, <3>1
    <3>. QED
      BY <2>1, <3>2, DiskWithData DEF Typed
  <2>3. end \in Nat
    BY <1>2, BufferType
  <2>. HIDE DEF end, moved
  <2>4. Bounded(DIR') /\ TypedFds'
    <3>1. CASE UNCHANGED <<fildes, DIR>>
      BY <3>1 DEF Typed, TypedFds, Bounded
    <3>2. CASE /\ end <= MaxSize
               /\ fildes' = [fildes EXCEPT ![fd].offset = end]
               /\ DIR' = [DIR EXCEPT ![f].size = IF end > @ THEN end ELSE @]
      <4>1. TypedFds'
        BY <1>2, <2>3, <3>2 DEF Typed, TypedFds, Bounds
      <4>2. /\ DIR'[f].size \in {end, DIR[f].size} /\ DIR'[f].head = DIR[f].head
            /\ DIR'[f].ref_cnt = DIR[f].ref_cnt
            /\ \A j \in Slots \ {f} : DIR'[j] = DIR[j]
        BY <1>2, <3>2 DEF Inv, DirOK, Entries
      <4>3. DIR'[f].size <= MaxSize /\ DIR'[f].head # LAZY
        BY <1>2, <2>1, <3>2, <4>2 DEF Typed, Bounded
      <4>4. Bounded(DIR')
        BY <1>2, <4>2, <4>3, BoundedNew DEF Typed, Inv, DirOK
      <4>. QED
        BY <4>1, <4>4
    <3>. QED
      BY <2>1, <3>1, <3>2
  <2>. QED
    BY <1>1, <1>4, <2>1, <2>2, <2>4 DEF Typed
<1>8. CASE Overwrite_Overrun(fd, buf)
  <2>1. /\ disk' = DiskWith(pieces, Len(pieces) - 1, buf) /\ status' = "wild"
        /\ UNCHANGED <<FAT, DIR, fildes>> /\ Overwriting(fd, buf).over
    BY <1>8 DEF Overwrite_Overrun
  <2>2. DataOK(disk')
    <3>. HIDE DEF pieces
    <3>1. CASE Len(pieces) = 0
      <4>1. \A b \in Blocks : disk'[b] = disk[b]
        BY <2>1, <3>1 DEF DiskWith
      <4>. QED
        BY <4>1 DEF Typed, DataOK
    <3>2. CASE Len(pieces) # 0
      <4>1. Len(pieces) - 1 \in Nat /\ \A i \in 1..(Len(pieces) - 1) : PieceFits(pieces[i], buf)
        BY <1>3, <3>2
      <4>. QED
        BY <2>1, <4>1, DiskWithData DEF Typed
    <3>. QED
      BY <3>1, <3>2
  <2>. QED
    BY <1>1, <1>4, <2>1, <2>2 DEF Typed, TypedFds, Bounded
<1>. QED
  BY <1>5, <1>6, <1>7, <1>8 DEF fs_write

LEMMA TypedFd ==
  ASSUME Inv, Typed, Bounds, Up, NEW fd, FdCall(fd)
  PROVE  Typed'
<1>. DEFINE f == fildes[fd].file
<1>1. Usable(fd) => /\ fd \in Fildes /\ f \in Slots /\ Entry(fd) = DIR[f]
                    /\ DIR[f] \in Entries /\ fildes[fd].offset \in Nat
                    /\ DIR[f].size <= MaxSize /\ DIR[f].ref_cnt \in -MaxRefs..MaxRefs
  BY UsableFacts DEF Typed, Bounded
<1>2. CASE fs_close(fd)
  <2>1. /\ Usable(fd) /\ Entry(fd).ref_cnt > -MaxRefs
        /\ DIR' = [DIR EXCEPT ![f].ref_cnt = @ - 1]
        /\ fildes' = [fildes EXCEPT ![fd].used = (Entry(fd).ref_cnt - 1 # 0)]
        /\ UNCHANGED <<status, mounted, loaded, FAT, active, disk, touched>>
    BY <1>2 DEF fs_close
  <2>2. /\ DIR'[f].ref_cnt = DIR[f].ref_cnt - 1 /\ DIR'[f].size = DIR[f].size
        /\ DIR'[f].head = DIR[f].head
        /\ \A j \in Slots \ {f} : DIR'[j] = DIR[j]
    BY <1>1, <2>1 DEF Inv, DirOK, Entries
  <2>3. DIR'[f].ref_cnt \in -MaxRefs..MaxRefs
    BY <1>1, <2>1, <2>2 DEF Bounds
  <2>4. Bounded(DIR')
    BY <2>2, <2>3 DEF Typed, Bounded
  <2>5. TypedFds'
    BY <1>1, <2>1 DEF Typed, TypedFds
  <2>. QED
    BY <2>1, <2>4, <2>5 DEF Typed, DataOK
<1>3. ASSUME NEW o \in Offsets, fs_lseek(fd, o) PROVE Typed'
  <2>1. /\ Usable(fd) /\ o <= DIR[f].size /\ fildes' = [fildes EXCEPT ![fd].offset = o]
        /\ UNCHANGED <<status, mounted, loaded, FAT, DIR, active, disk, touched>>
    BY <1>3 DEF fs_lseek, Entry
  <2>2. o \in 0..MaxSize
    <3>1. o \in Nat /\ DIR[f].size \in Nat /\ DIR[f].size <= MaxSize /\ MaxSize \in Nat
      BY <1>1, <2>1, FSAssumption DEF Entries, Bounds
    <3>. QED
      BY <2>1, <3>1
  <2>3. TypedFds'
    BY <1>1, <2>1, <2>2 DEF Typed, TypedFds
  <2>. QED
    BY <2>1, <2>3 DEF Typed, DataOK, Bounded
<1>4. ASSUME NEW nbyte \in Lengths, fs_read(fd, nbyte) PROVE Typed'
  <2>. DEFINE n == Minimum(nbyte, Entry(fd).size - fildes[fd].offset)
  <2>1. /\ Usable(fd) /\ n > 0 /\ UNCHANGED <<status, mounted, loaded, FAT, DIR, active, disk, touched>>
        /\ UNCHANGED fildes \/ fildes' = [fildes EXCEPT ![fd].offset = @ + n]
    BY <1>4 DEF fs_read
  <2>2. n \in Nat /\ fildes[fd].offset + n \in 0..MaxSize
    <3>1. nbyte \in Nat /\ DIR[f].size \in Nat
      BY <1>1, <2>1, FSAssumption DEF Entries
    <3>2. n <= DIR[f].size - fildes[fd].offset /\ n \in Int
      BY <1>1, <2>1, <3>1 DEF Minimum
    <3>. HIDE DEF n
    <3>. QED
      BY <1>1, <2>1, <3>1, <3>2 DEF Bounds
  <2>. HIDE DEF n
  <2>3. TypedFds'
    BY <1>1, <2>1, <2>2 DEF Typed, TypedFds
  <2>. QED
    BY <2>1, <2>3 DEF Typed, DataOK, Bounded
<1>5. ASSUME NEW length \in Offsets, fs_truncate(fd, length) PROVE Typed'
  <2>1. /\ Usable(fd) /\ length <= DIR[f].size /\ Touching(fd)
        /\ \E b : ReleaseFrom(b)
        /\ UNCHANGED DIR \/ DIR' = [DIR EXCEPT ![f].size = length]
        /\ UNCHANGED <<mounted, loaded, fildes, active, disk>>
    BY <1>5 DEF fs_truncate, Entry
  <2>2. FAT' \in [Index -> Index] /\ status' \in {"ok", "hung", "wild"}
    BY <2>1, ReleaseIndex DEF Typed
  <2>3. touched' \subseteq Names \cup {Empty}
    BY <1>1, <2>1 DEF Touching, Typed, Entries
  <2>4. Bounded(DIR')
    <3>1. CASE UNCHANGED DIR
      BY <3>1 DEF Typed, Bounded
    <3>2. CASE DIR' = [DIR EXCEPT ![f].size = length]
      <4>1. /\ DIR'[f].size = length /\ DIR'[f].head = DIR[f].head
            /\ DIR'[f].ref_cnt = DIR[f].ref_cnt
            /\ \A j \in Slots \ {f} : DIR'[j] = DIR[j]
        BY <1>1, <2>1, <3>2 DEF Inv, DirOK, Entries
      <4>2. length \in Nat /\ DIR[f].size \in Nat /\ MaxSize \in Nat
        BY <1>1, <2>1, FSAssumption DEF Entries, Bounds
      <4>3. length <= MaxSize /\ (DIR[f].size = 0 => length = 0)
        BY <1>1, <2>1, <4>2
      <4>4. DIR[f].head = LAZY => DIR[f].size = 0
        BY <1>1, <2>1 DEF Typed, Bounded
      <4>. QED
        BY <1>1, <2>1, <4>1, <4>3, <4>4, BoundedNew DEF Typed, Inv, DirOK
    <3>. QED
      BY <2>1, <3>1, <3>2
  <2>. QED
    BY <2>1, <2>2, <2>3, <2>4 DEF Typed, TypedFds, DataOK
<1>6. CASE \E buf \in Buffers : fs_write(fd, buf)
  BY <1>6, TypedWrite
<1>7. CASE \/ fs_get_filesize(fd) \/ fd_Refused(fd) \/ fs_access_Past(fd)
           \/ \E o \in Offsets : fs_lseek_Refused(fd, o)
           \/ \E n \in Lengths : fs_read_Nothing(fd, n)
  <2>1. UNCHANGED <<status, memVars, diskVars, touched>>
    BY <1>7 DEF fs_get_filesize, fd_Refused, fs_access_Past, fs_lseek_Refused,
       fs_read_Nothing, Refused
  <2>. QED
    BY <2>1 DEF Typed, TypedFds, DataOK, Bounded
<1>. QED
  BY <1>2, <1>3, <1>4, <1>5, <1>6, <1>7 DEF FdCall

LEMMA TypedStep ==
  ASSUME Inv, Typed, Bounds, [Next]_vars
  PROVE  Typed'
<1>1. CASE Up /\ MountCall
  BY <1>1, TypedMount
<1>2. CASE \E n \in Names : Up /\ NameCall(n)
  BY <1>2, TypedName
<1>3. CASE \E fd \in -1..MAX_FILDES : Up /\ FdCall(fd)
  BY <1>3, TypedFd
<1>4. CASE Up /\ (fs_listfiles \/ fs_listfiles_Null)
  <2>1. UNCHANGED <<memVars, diskVars, touched>> /\ status' \in {"ok", "wild"}
    BY <1>4 DEF fs_listfiles, fs_listfiles_Null, Up
  <2>. QED
    BY <2>1 DEF Typed, TypedFds, DataOK, Bounded
<1>5. CASE Exit
  <2>1. /\ status' = "ok" /\ mounted' = FALSE /\ loaded' = FALSE /\ active' = FALSE /\ touched' = {}
        /\ FAT' = NoMemory /\ DIR' = NewDIR /\ fildes' = [i \in Fildes |-> NewFd] /\ UNCHANGED disk
    BY <1>5 DEF Exit
  <2>2. TypedFds' /\ DataOK(disk') /\ Bounded(DIR') /\ FAT' \in [Index -> Index]
    BY <2>1, FreshFds, FreshIndex, FreshBounded DEF TypedFds, Typed
  <2>. QED
    BY <2>1, <2>2 DEF Typed
<1>6. CASE UNCHANGED vars
  BY <1>6, TypedSame
<1>. QED
  BY <1>1, <1>2, <1>3, <1>4, <1>5, <1>6 DEF Next

(* Every variable has its type, whatever the device fails and the memory   *)
(* around FAT holds, if the bounds on sizes and counts are no smaller than *)
(* what one call needs, and no write takes a block that only a later block *)
(* of the FAT describes: no piece of a write takes a unit from outside the *)
(* buffer, and what mount_fs loads as FAT and as directory are tables.     *)
THEOREM TypesThm == Bounds /\ FewBlocks => (Spec => []TypeOK)
<1>. SUFFICES ASSUME Bounds, FewBlocks PROVE Spec => []TypeOK
  OBVIOUS
<1>1. Init => Inv /\ Typed
  BY InitInv, TypedInit
<1>2. Inv /\ Typed /\ [Next]_vars => Inv' /\ Typed'
  BY NextInv, TypedStep, FewBlocksFew
<1>3. Inv /\ Typed => TypeOK
  BY TypedIsType
<1>. QED
  BY <1>1, <1>2, <1>3, PTL DEF Spec

-----------------------------------------------------------------------------
(* The file system is a store of files.                                    *)

(* The files of directory d on disk dk, and the open ones among them, in   *)
(* terms of which FileSystemProperties reads the state.                    *)
UnitsIn(dk, b) ==
  IF b \in Blocks /\ dk[b].kind = "file" THEN dk[b].units ELSE Uninitialised
ContentIn(dk, e) == IF e.size = 0 THEN <<>> ELSE SubSeq(UnitsIn(dk, e.head), 1, e.size)
FilesIn(dk, d) == LET used == {i \in Slots : d[i].used} IN
  [n \in {d[i].name : i \in used} |->
     ContentIn(dk, d[First({i \in used : d[i].name = n})])]
OpenIn(d, fds) == [fd \in {i \in Fildes : fds[i].used} |->
  [name |-> d[fds[fd].file].name, offset |-> fds[fd].offset]]

LEMMA StoreView ==
  /\ Files = IF mounted THEN FilesIn(disk, DIR) ELSE Store!None
  /\ Saved = IF Formatted THEN FilesIn(disk, disk[dir_idx].dir) ELSE Store!None
  /\ mounted => Opened = OpenIn(DIR, fildes)
  /\ ~mounted => Opened = Store!None
  BY DEF Files, Saved, Stored, UnitsOf, NoFiles, FilesIn, ContentIn, UnitsIn, OpenIn,
     Opened, Entry, Store!None

LEMMA StoreViewNext ==
  /\ Files' = IF mounted' THEN FilesIn(disk', DIR') ELSE Store!None
  /\ Saved' = IF Formatted' THEN FilesIn(disk', disk'[dir_idx].dir) ELSE Store!None
  /\ mounted' => Opened' = OpenIn(DIR', fildes')
  /\ ~mounted' => Opened' = Store!None
  BY DEF Files, Saved, Stored, UnitsOf, NoFiles, FilesIn, ContentIn, UnitsIn, OpenIn,
     Opened, Entry, Store!None

(* What the files are, without the search for their slots.                 *)
LEMMA FilesAre ==
  ASSUME NEW dk, NEW d, WellNamed(d)
  PROVE  /\ FilesIn(dk, d) = [n \in DOMAIN FilesIn(dk, d) |-> FilesIn(dk, d)[n]]
         /\ \A n \in DOMAIN FilesIn(dk, d) : \E i \in Slots : d[i].used /\ d[i].name = n
         /\ \A i \in Slots : d[i].used =>
              /\ d[i].name \in DOMAIN FilesIn(dk, d)
              /\ FilesIn(dk, d)[d[i].name] = ContentIn(dk, d[i])
<1>. DEFINE used == {i \in Slots : d[i].used}
<1>1. ASSUME NEW i \in Slots, d[i].used
      PROVE  First({j \in used : d[j].name = d[i].name}) = i
  <2>1. {j \in used : d[j].name = d[i].name} = {i}
    BY <1>1 DEF WellNamed
  <2>2. i \in Nat
    BY DEF Slots
  <2>. QED
    BY <2>1, <2>2, FirstIsLeast
<1>. QED
  BY <1>1 DEF FilesIn

LEMMA FilesEqual ==
  ASSUME NEW dk, NEW d, WellNamed(d), NEW g,
         g = [n \in DOMAIN g |-> g[n]],
         \A n \in DOMAIN g : \E i \in Slots : d[i].used /\ d[i].name = n,
         \A i \in Slots : d[i].used => /\ d[i].name \in DOMAIN g
                                       /\ g[d[i].name] = ContentIn(dk, d[i])
  PROVE  FilesIn(dk, d) = g
<1>. DEFINE f == FilesIn(dk, d)
<1>1. /\ f = [n \in DOMAIN f |-> f[n]]
      /\ \A n \in DOMAIN f : \E i \in Slots : d[i].used /\ d[i].name = n
      /\ \A i \in Slots : d[i].used => /\ d[i].name \in DOMAIN f
                                       /\ f[d[i].name] = ContentIn(dk, d[i])
  BY FilesAre
<1>. HIDE DEF f
<1>2. DOMAIN f = DOMAIN g
  BY <1>1
<1>3. \A n \in DOMAIN f : f[n] = g[n]
  BY <1>1, <1>2
<1>. QED
  BY <1>1, <1>2, <1>3 DEF f

(* Only the slots in use matter, and their contents.                       *)
LEMMA SameFiles ==
  ASSUME NEW dk, NEW d, NEW dk2, NEW d2, WellNamed(d), WellNamed(d2),
         \A i \in Slots : d2[i].used = d[i].used,
         \A i \in Slots : d[i].used =>
           d2[i].name = d[i].name /\ ContentIn(dk2, d2[i]) = ContentIn(dk, d[i])
  PROVE  FilesIn(dk2, d2) = FilesIn(dk, d)
<1>. DEFINE g == FilesIn(dk, d)
<1>1. /\ g = [n \in DOMAIN g |-> g[n]]
      /\ \A n \in DOMAIN g : \E i \in Slots : d[i].used /\ d[i].name = n
      /\ \A i \in Slots : d[i].used => /\ d[i].name \in DOMAIN g
                                       /\ g[d[i].name] = ContentIn(dk, d[i])
  BY FilesAre
<1>. HIDE DEF g
<1>2. \A n \in DOMAIN g : \E i \in Slots : d2[i].used /\ d2[i].name = n
  BY <1>1
<1>3. \A i \in Slots : d2[i].used => /\ d2[i].name \in DOMAIN g
                                     /\ g[d2[i].name] = ContentIn(dk2, d2[i])
  BY <1>1
<1>4. FilesIn(dk2, d2) = g
  BY <1>1, <1>2, <1>3, FilesEqual
<1>. QED
  BY <1>4 DEF g

(* A content of n units is as long as that, and is what the block holds.   *)
LEMMA ContentIs ==
  ASSUME NEW dk, DataOK(dk), NEW e, e.size \in 0..BLOCK_SIZE
  PROVE  /\ UnitsIn(dk, e.head) \in UnitArrays
         /\ ContentIn(dk, e) \in Seq(Units) /\ Len(ContentIn(dk, e)) = e.size
         /\ \A i \in 1..e.size : ContentIn(dk, e)[i] = UnitsIn(dk, e.head)[i]
<1>. DEFINE u == UnitsIn(dk, e.head)
            s == e.size
<1>1. u \in UnitArrays
  <2>1. Uninitialised \in UnitArrays
    BY DEF Uninitialised, UnitArrays, Units
  <2>. QED
    BY <2>1, KindOf DEF DataOK, UnitsIn
<1>2. ContentIn(dk, e) = SubSeq(u, 1, s)
  <2>. HIDE DEF u
  <2>1. s = 0 => SubSeq(u, 1, s) = <<>>
    BY SubSeqEmpty
  <2>. QED
    BY <2>1 DEF ContentIn, u
<1>. HIDE DEF u
<1>3. \A i \in 1..s : u[i] \in Units
  BY <1>1, FSAssumption DEF UnitArrays
<1>. HIDE DEF s
<1>4. s \in 0..BLOCK_SIZE /\ BLOCK_SIZE \in Nat
  BY FSAssumption DEF s
<1>5. /\ SubSeq(u, 1, s) \in Seq(Units)
      /\ Len(SubSeq(u, 1, s)) = IF 1 <= s THEN s - 1 + 1 ELSE 0
      /\ \A i \in 1..(s - 1 + 1) : SubSeq(u, 1, s)[i] = u[1 + i - 1]
  BY <1>3, <1>4, SubSeqProperties
<1>6. (IF 1 <= s THEN s - 1 + 1 ELSE 0) = s /\ s - 1 + 1 = s /\ \A i \in 1..s : 1 + i - 1 = i
  BY <1>4
<1>. QED
  BY <1>1, <1>2, <1>5, <1>6 DEF s, u

-----------------------------------------------------------------------------
(* What a proper write does: one block takes it as a whole, or it fails.   *)

LEMMA OverwritingOne ==
  ASSUME NEW fd, NEW buf \in Buffers, fildes[fd].offset \in Nat \ {0}, OneBlock(fd, buf)
  PROVE  LET w == Overwriting(fd, buf)
             h == Entry(fd).head
         IN  /\ w.pieces = <<Piece(h, fildes[fd].offset, 0, Len(buf), UnitsOf(h))>>
             /\ ~w.last /\ ~w.over
<1>. DEFINE o     == fildes[fd].offset
            n     == Len(buf)
            at    == o % BLOCK_SIZE
            q     == o \div BLOCK_SIZE
            way   == Path(FAT, Entry(fd).head, q + n + 1)
            W(i)  == way[q + i]
            part  == IF at = 0 THEN 0 ELSE Minimum(BLOCK_SIZE - at, n)
            whole == IF part = n THEN 0
                     ELSE First({i \in 0..n : \/ FAT[W(i + 1)] = END
                                              \/ part + (i + 1) * BLOCK_SIZE > n})
            rest  == n - part - whole * BLOCK_SIZE
            A == IF part = 0 THEN <<>> ELSE <<Piece(W(0), at, 0, part, UnitsOf(W(0)))>>
            B == [i \in 1..whole |-> Piece(W(i), 0, part + (i - 1) * BLOCK_SIZE,
                                            BLOCK_SIZE, Uninitialised)]
            C == IF rest = 0 THEN <<>>
                 ELSE <<Piece(W(whole + 1), 0, n - rest, Minimum(rest, BLOCK_SIZE),
                              UnitsOf(W(whole + 1)))>>
<1>1. n \in Nat \ {0} /\ BLOCK_SIZE \in Nat \ {0} /\ o \in Nat \ {0} /\ o + n <= BLOCK_SIZE
  BY BufferType, FSAssumption DEF OneBlock
<1>2. q = 0 /\ at = o
  <2>. HIDE DEF o, n
  <2>. QED
    BY <1>1
<1>3. W(0) = Entry(fd).head
  <2>. HIDE DEF n, q
  <2>1. q + n + 1 \in Nat /\ q + 0 = 0
    BY <1>1, <1>2
  <2>. QED
    BY <2>1, PathShort
<1>4. Overwriting(fd, buf).pieces = A \o B \o C
  BY DEF Overwriting, o, n, at, q, way, part, whole, rest
<1>5. Overwriting(fd, buf).last = (rest > 0) /\ Overwriting(fd, buf).over = (rest > BLOCK_SIZE)
  BY DEF Overwriting, o, n, at, q, way, part, whole, rest
<1>. HIDE DEF o, n, q, way, at
<1>6. part = n
  BY <1>1, <1>2 DEF Minimum
<1>. HIDE DEF part
<1>7. whole = 0 /\ rest = 0
  BY <1>1, <1>6
<1>. HIDE DEF whole, rest
<1>8. ~(rest > 0) /\ ~(rest > BLOCK_SIZE)
  BY <1>1, <1>7
<1>9. A = <<Piece(Entry(fd).head, o, 0, n, UnitsOf(Entry(fd).head))>>
  BY <1>1, <1>2, <1>3, <1>6
<1>10. B = <<>> /\ C = <<>>
  BY <1>7
<1>11. A \in Seq({Piece(Entry(fd).head, o, 0, n, UnitsOf(Entry(fd).head))})
  BY <1>9, SequencesOf
<1>. HIDE DEF A, B, C
<1>12. A \o B \o C = A
  BY <1>10, <1>11, ConcatEmptySeq
<1>. QED
  BY <1>4, <1>5, <1>8, <1>9, <1>12 DEF o, n

LEMMA DiskWithOne ==
  ASSUME NEW pieces, NEW buf, NEW b \in Blocks
  PROVE  /\ DiskWith(pieces, 0, buf)[b] = disk[b]
         /\ DiskWith(pieces, 1, buf)[b] =
              IF pieces[1].block = b THEN Merged(pieces[1], buf) ELSE disk[b]
<1>1. DiskWith(pieces, 0, buf)[b] = disk[b]
  BY DEF DiskWith
<1>2. CASE pieces[1].block = b
  <2>1. {i \in 1..1 : pieces[i].block = b} = {1}
    BY <1>2
  <2>2. (CHOOSE i \in {1} : \A j \in {1} : j <= i) = 1
    OBVIOUS
  <2>. QED
    BY <1>1, <1>2, <2>1, <2>2 DEF DiskWith
<1>3. CASE pieces[1].block # b
  <2>1. {i \in 1..1 : pieces[i].block = b} = {}
    BY <1>3
  <2>. QED
    BY <1>1, <1>3, <2>1 DEF DiskWith
<1>. QED
  BY <1>2, <1>3

(* A block with buf in it from place o on.                                 *)
Patched(base, o, buf) == [u \in 1..BLOCK_SIZE |->
  IF u \in (o + 1)..(o + Len(buf)) THEN buf[u - o] ELSE base[u]]
Larger(m, n) == IF m > n THEN m ELSE n

(* Block h takes buf and is the file's block: its block before, if the     *)
(* file had units in it.  No other file has it.                            *)
Wrote(fd, buf, h, base) == LET o == fildes[fd].offset IN
  /\ h \in Home /\ base \in UnitArrays
  /\ DIR[fd].size # 0 => h = DIR[fd].head /\ base = UnitsOf(h)
  /\ \A i \in Slots : i # fd /\ DIR[i].used => DIR[i].head # h
  /\ \A b \in Blocks : disk'[b] = IF b = h THEN File(Patched(base, o, buf)) ELSE disk[b]
  /\ DIR'[fd].head = h /\ DIR'[fd].size = Larger(DIR[fd].size, o + Len(buf))
  /\ \A i \in Slots : i # fd => DIR'[i] = DIR[i]
  /\ fildes' = [fildes EXCEPT ![fd].offset = o + Len(buf)]
  /\ Returns(Len(buf))

(* The device refuses, before anything is written.                         *)
WroteNothing == Returns(-1) /\ (\A b \in Blocks : disk'[b] = disk[b]) /\ UNCHANGED <<DIR, fildes>>

LEMMA FirstWrote ==
  ASSUME Inv, Matched, OwnInv, Typed, Faults["first"] = {}, Room, NEW fd, NEW buf \in Buffers,
         Usable(fd), ~Past(fd), OneBlock(fd, buf), Entry(fd).head = LAZY, FirstWrite(fd, buf)
  PROVE  Wrote(fd, buf, NthFree(1), Uninitialised)
<1>. DEFINE pieces == Chunks(buf)
            b == NthFree(1)
            n == Len(buf)
            bytes == Minimum(n, Len(pieces) * BLOCK_SIZE)
<1>1. /\ fd \in Fildes /\ fd \in Slots /\ fildes[fd].file = fd /\ Entry(fd) = DIR[fd]
      /\ DIR[fd].used /\ DIR \in [Slots -> Entries] /\ ChainsOK(FAT)
      /\ fildes \in [Fildes -> [used : BOOLEAN, file : Slots, offset : Nat]]
  BY UsableFacts, FSAssumption DEF Usable, Matched, Inv, DirOK, FdsOK, Fildes, Slots
<1>2. mounted /\ active /\ Owned(FAT, DIR)
  BY DEF Usable, OwnInv
<1>3. fildes[fd].offset = 0 /\ DIR[fd].size = 0 /\ n \in 1..BLOCK_SIZE
  <2>1. DIR[fd].size = 0
    BY <1>1, <1>2, HomeIsData DEF Owned, EntrySound
  <2>2. fildes[fd].offset \in Nat /\ ~(fildes[fd].offset > 0)
    BY <1>1, <2>1 DEF Past
  <2>. QED
    BY <2>1, <2>2, BufferType, FSAssumption DEF OneBlock
<1>4. /\ b \in Home /\ FAT[b] = FREE /\ FreeBlocks # {}
      /\ Cardinality(FreeBlocks) \in Nat \ {0}
  BY <1>1, <1>2, RoomLeft, FirstFree DEF Owned
<1>5. Len(pieces) = 1 /\ pieces[1] = Piece(b, 0, 0, n, Uninitialised) /\ pieces[1].block = b
  <2>1. n <= BLOCK_SIZE
    BY <1>3, FSAssumption
  <2>. QED
    BY <2>1, <1>4, ChunksShort
<1>6. bytes = n
  <2>. HIDE DEF pieces
  <2>. QED
    BY <1>3, <1>5, FSAssumption DEF Minimum
<1>7. Written(pieces, 0) = 1
  <2>1. BlockWorks(b)
    BY <1>2, <1>4, HomeIsData DEF BlockWorks
  <2>. HIDE DEF pieces
  <2>2. Len(pieces) \in Nat /\ \A i \in 1..Len(pieces) : BlockWorks(pieces[i].block)
    BY <1>5, <2>1
  <2>. QED
    BY <1>5, <2>2, WrittenAll
<1>. HIDE DEF pieces, bytes, b
<1>8. Failing("first") = {0}
  BY DEF Failing
<1>9. /\ disk' = DiskWith(pieces, 1, buf)
      /\ fildes' = [fildes EXCEPT ![fd].offset = @ + n]
      /\ DIR' = [DIR EXCEPT ![fd].head = b, ![fd].size = fildes'[fd].offset]
      /\ Returns(n)
  <2>1. PICK k \in Failing("first") :
          /\ disk' = DiskWith(pieces, Written(pieces, k), buf)
          /\ Written(pieces, k) = Len(pieces) =>
               /\ fildes' = [fildes EXCEPT ![fd].offset = @ + bytes]
               /\ DIR' = [DIR EXCEPT ![fildes[fd].file].head = b,
                                     ![fildes[fd].file].size = fildes'[fd].offset]
               /\ Returns(bytes)
    BY DEF FirstWrite, pieces, b, bytes, n
  <2>2. k = 0
    BY <1>8
  <2>. QED
    BY <2>1, <2>2, <1>1, <1>5, <1>6, <1>7
<1>10. fildes'[fd].offset = 0 + n
  BY <1>1, <1>3, <1>9
<1>11. /\ DIR'[fd].head = b /\ DIR'[fd].size = 0 + n
       /\ \A i \in Slots : i # fd => DIR'[i] = DIR[i]
  BY <1>1, <1>9, <1>10 DEF Entries
<1>12. ASSUME NEW c \in Blocks
       PROVE  disk'[c] = IF c = b THEN File(Patched(Uninitialised, 0, buf)) ELSE disk[c]
  <2>1. disk'[c] = IF b = c THEN Merged(pieces[1], buf) ELSE disk[c]
    BY <1>5, <1>9, DiskWithOne
  <2>2. Merged(Piece(b, 0, 0, n, Uninitialised), buf) = File(Patched(Uninitialised, 0, buf))
    BY DEF Merged, Piece, Patched
  <2>. QED
    BY <1>5, <2>1, <2>2
<1>13. \A i \in Slots : DIR[i].used => DIR[i].head # b
  <2>1. END # FREE
    BY DEF END, FREE
  <2>. QED
    BY <1>2, <1>4, <2>1, HomeIsData DEF Owned, EntrySound
<1>14. n = Larger(0, 0 + n)
  <2>. HIDE DEF n
  <2>. QED
    BY <1>3 DEF Larger
<1>15. Uninitialised \in UnitArrays
  BY UnitsOfType DEF Typed
<1>16. fildes' = [fildes EXCEPT ![fd].offset = 0 + n]
  BY <1>1, <1>3, <1>9
<1>17. DIR'[fd].size = Larger(DIR[fd].size, 0 + n)
  <2>1. 0 + n = n
    <3>. HIDE DEF n
    <3>. QED
      BY <1>3
  <2>. QED
    BY <1>3, <1>11, <1>14, <2>1
<1>. HIDE DEF n
<1>. QED
  BY <1>3, <1>4, <1>9, <1>11, <1>12, <1>13, <1>15, <1>16, <1>17 DEF Wrote, b, n

LEMMA Overwrote ==
  ASSUME Inv, Matched, OwnInv, Typed, NEW fd, NEW buf \in Buffers,
         Usable(fd), ~Past(fd), OneBlock(fd, buf), Entry(fd).head # LAZY, Overwrite(fd, buf)
  PROVE  WroteNothing \/ Wrote(fd, buf, DIR[fd].head, UnitsOf(DIR[fd].head))
<1>. DEFINE o == fildes[fd].offset
            w == Overwriting(fd, buf)
            pieces == w.pieces
            h == DIR[fd].head
            n == Len(buf)
            moved == IF w.last THEN 2 * Len(buf) ELSE Len(buf)
            end   == o + moved
<1>0. Fildes \subseteq Slots
  BY FSAssumption DEF Fildes, Slots
<1>1. /\ fd \in Fildes /\ fd \in Slots /\ fildes[fd].file = fd /\ Entry(fd) = DIR[fd]
      /\ DIR[fd].used /\ DIR \in [Slots -> Entries] /\ ChainsOK(FAT) /\ DIR[fd] \in Entries
      /\ fildes \in [Fildes -> [used : BOOLEAN, file : Slots, offset : Nat]]
      /\ o \in Nat
  BY <1>0, UsableFacts DEF Usable, Matched, Inv, DirOK, FdsOK
<1>2. mounted /\ active /\ Owned(FAT, DIR)
  BY DEF Usable, OwnInv
<1>3. h \in Home /\ FAT[h] = END /\ h \in Good
  BY <1>1, <1>2, HomeIsData DEF Owned, EntrySound
<1>4. PICK k \in Failing("again") :
        /\ disk' = DiskWith(pieces, Written(pieces, k), buf)
        /\ IF Written(pieces, k) = Len(pieces)
             THEN /\ fildes' = [fildes EXCEPT ![fd].offset = end]
                  /\ DIR' = [DIR EXCEPT ![fildes[fd].file].size = IF end > @ THEN end ELSE @]
                  /\ Returns(n)
             ELSE Returns(-1) /\ UNCHANGED <<fildes, DIR>>
  BY DEF Overwrite
<1>5. Len(pieces) \in Nat
  BY <1>1, <1>3, OverwritingOK
<1>6. ASSUME Written(pieces, k) = 0, Written(pieces, k) # Len(pieces) PROVE WroteNothing
  <2>1. disk' = DiskWith(pieces, 0, buf) /\ Returns(-1) /\ UNCHANGED <<fildes, DIR>>
    BY <1>4, <1>6
  <2>. HIDE DEF pieces
  <2>. QED
    BY <2>1, DiskWithOne DEF WroteNothing
<1>7. CASE o # 0
  <2>1. pieces = <<Piece(h, o, 0, n, UnitsOf(h))>> /\ ~w.last
    BY <1>1, <1>7, OverwritingOne
  <2>. DEFINE m == Written(pieces, k)
  <2>2. Len(pieces) = 1 /\ pieces[1] = Piece(h, o, 0, n, UnitsOf(h)) /\ pieces[1].block = h
    <3>. HIDE DEF pieces, h, o, n
    <3>. QED
      BY <2>1 DEF Piece
  <2>3. m = 0 \/ m = 1
    <3>1. m \in 0..Len(pieces)
      BY <1>5, WrittenType
    <3>. HIDE DEF m, pieces
    <3>. QED
      BY <2>2, <3>1
  <2>4. CASE m = 0
    <3>. HIDE DEF pieces
    <3>. QED
      BY <1>6, <2>2, <2>4
  <2>5. CASE m = 1
    <3>1. end = o + n
      BY <2>1
    <3>2. /\ disk' = DiskWith(pieces, 1, buf) /\ Returns(n)
          /\ fildes' = [fildes EXCEPT ![fd].offset = end]
          /\ DIR' = [DIR EXCEPT ![fildes[fd].file].size = IF end > @ THEN end ELSE @]
      <4>. HIDE DEF pieces, end, n
      <4>. QED
        BY <1>4, <2>2, <2>5
    <3>3. ASSUME NEW c \in Blocks
          PROVE  disk'[c] = IF c = h THEN File(Patched(UnitsOf(h), o, buf)) ELSE disk[c]
      <4>. HIDE DEF pieces, o, h
      <4>1. disk'[c] = IF h = c THEN Merged(pieces[1], buf) ELSE disk[c]
        BY <2>2, <3>2, DiskWithOne
      <4>2. Merged(Piece(h, o, 0, n, UnitsOf(h)), buf) = File(Patched(UnitsOf(h), o, buf))
        <5>1. \A u \in 1..BLOCK_SIZE : 0 + u - o = u - o
          BY <1>1, FSAssumption
        <5>2. Merged(Piece(h, o, 0, n, UnitsOf(h)), buf) = File([u \in 1..BLOCK_SIZE |->
                IF u \in (o + 1)..(o + n) THEN buf[0 + u - o] ELSE UnitsOf(h)[u]])
          BY DEF Merged, Piece
        <5>. HIDE DEF n
        <5>3. [u \in 1..BLOCK_SIZE |->
                 IF u \in (o + 1)..(o + n) THEN buf[0 + u - o] ELSE UnitsOf(h)[u]]
              = [u \in 1..BLOCK_SIZE |->
                 IF u \in (o + 1)..(o + n) THEN buf[u - o] ELSE UnitsOf(h)[u]]
          BY <5>1
        <5>. QED
          BY <5>2, <5>3 DEF Patched, n
      <4>. QED
        BY <2>2, <4>1, <4>2
    <3>4. n \in Nat /\ DIR[fd].size \in Nat
      BY <1>1, BufferType DEF Entries
    <3>5. /\ DIR'[fd].head = h /\ \A i \in Slots : i # fd => DIR'[i] = DIR[i]
          /\ DIR'[fd].size = IF end > DIR[fd].size THEN end ELSE DIR[fd].size
      <4>. HIDE DEF end
      <4>. QED
        BY <1>1, <3>2 DEF Entries
    <3>6. DIR'[fd].size = Larger(DIR[fd].size, o + n)
      <4>. DEFINE s == DIR[fd].size
                  e == o + n
      <4>1. s \in Nat /\ e \in Nat
        <5>. HIDE DEF o, n
        <5>. QED
          BY <1>1, <3>4
      <4>2. DIR'[fd].size = IF e > s THEN e ELSE s
        BY <3>1, <3>5
      <4>. HIDE DEF s, e
      <4>3. DIR'[fd].size = Larger(s, e)
        BY <4>1, <4>2 DEF Larger
      <4>. QED
        BY <4>3 DEF s, e
    <3>7. \A i \in Slots : i # fd /\ DIR[i].used => DIR[i].head # h
      BY <1>1, <1>2, <1>3 DEF Owned
    <3>8. UnitsOf(h) \in UnitArrays
      BY UnitsOfType DEF Typed
    <3>. HIDE DEF n, pieces, end
    <3>. QED
      BY <1>3, <3>1, <3>2, <3>3, <3>5, <3>6, <3>7, <3>8 DEF Wrote, n
  <2>. QED
    BY <2>3, <2>4, <2>5
<1>8. CASE o = 0
  <2>1. \A j : Written(pieces, j) = 0 /\ Written(pieces, j) # Len(pieces)
    BY <1>1, <1>2, <1>3, <1>8, OverwritingShort
  <2>2. Written(pieces, k) = 0 /\ Written(pieces, k) # Len(pieces)
    <3>. HIDE DEF pieces
    <3>. QED
      BY <2>1
  <2>. QED
    BY <1>6, <2>2
<1>. QED
  BY <1>7, <1>8

(* The device fails neither make_fs nor a first write, and umount_fs at    *)
(* its first access only.                                                  *)
SafeFaults == Faults["make"] = {} /\ Faults["first"] = {} /\ Faults["umount"] \subseteq {1}

LEMMA ProperWrite ==
  ASSUME Inv, Matched, OwnInv, Typed, "oneblock" \in Rules, SafeFaults, Room,
         NEW fd, NEW buf \in Buffers, fs_write(fd, buf)
  PROVE  /\ Usable(fd) /\ ~Past(fd) /\ OneBlock(fd, buf) /\ Touching(fd)
         /\ UNCHANGED mounted
         /\ WroteNothing \/ \E h, base : Wrote(fd, buf, h, base)
<1>1. /\ Usable(fd) /\ ~Past(fd) /\ OneBlock(fd, buf) /\ UNCHANGED mounted /\ Touching(fd)
      /\ \/ FirstWrite(fd, buf) \/ FirstWrite_Full(fd)
         \/ Overwrite(fd, buf) \/ Overwrite_Overrun(fd, buf)
  BY DEF fs_write, Keeping
<1>2. /\ fd \in Slots /\ Entry(fd) = DIR[fd] /\ DIR[fd].used /\ ChainsOK(FAT)
      /\ fildes[fd].offset \in Nat
  BY <1>1, UsableFacts, FSAssumption DEF Usable, Matched, Inv, FdsOK, Fildes, Slots
<1>3. mounted /\ active /\ Owned(FAT, DIR)
  BY <1>1 DEF Usable, OwnInv
<1>4. CASE Entry(fd).head = LAZY
  <2>1. FreeBlocks # {}
    BY <1>2, <1>3, <1>4, RoomLeft, FirstFree DEF Owned
  <2>2. FirstWrite(fd, buf)
    BY <1>1, <1>4, <2>1 DEF FirstWrite_Full, Overwrite, Overwrite_Overrun
  <2>. QED
    BY <1>1, <1>4, <2>2, FirstWrote DEF SafeFaults
<1>5. CASE Entry(fd).head # LAZY
  <2>1. FAT[Entry(fd).head] = END
    BY <1>2, <1>3, <1>5, HomeIsData DEF Owned, EntrySound
  <2>2. ~Overwriting(fd, buf).over
    BY <1>1, <1>2, <1>3, <2>1, OverwritingShort
  <2>3. Overwrite(fd, buf)
    BY <1>1, <1>5, <2>2 DEF FirstWrite, FirstWrite_Full, Overwrite_Overrun
  <2>. QED
    BY <1>1, <1>5, <2>3, Overwrote
<1>. QED
  BY <1>4, <1>5

(* make_fs and umount_fs write all tables or none.                         *)
LEMMA TablesAll ==
  ASSUME NEW old, NEW f, NEW d, NEW m
  PROVE  LET t == Tables(old, f, d, m, AllTables) IN
         /\ t[0] = Super /\ t[dir_idx].dir = d
         /\ \A b \in Blocks \ (0..dir_idx) : t[b] = old[b]
<1>1. /\ 0 \in Blocks /\ dir_idx \in Blocks /\ dir_idx = fat_len + 1 /\ fat_len \in Nat \ {0}
      /\ AllTables = fat_len + 2 /\ fat_idx = 1
  BY Layout DEF fat_idx, AllTables
<1>2. Tables(old, f, d, m, AllTables)[dir_idx] = Table(d)
  BY <1>1 DEF Tables
<1>. QED
  BY <1>1, <1>2 DEF Tables, Table

LEMMA TablesNone ==
  ASSUME NEW old, NEW f, NEW d, NEW m, NEW b \in Blocks
  PROVE  Tables(old, f, d, m, 0)[b] = old[b]
<1>1. fat_len \in Nat \ {0} /\ fat_idx = 1 /\ dir_idx \in Nat
  BY Layout DEF fat_idx
<1>. QED
  BY <1>1 DEF Tables, Blocks

LEMMA MakeEffect ==
  ASSUME SafeFaults, make_fs
  PROVE  /\ ~mounted /\ ~mounted' /\ Returns(0) /\ touched' = {}
         /\ Formatted' /\ disk'[dir_idx].dir = NewDIR
<1>1. PICK m \in Around, k \in Failing("make") :
        /\ ~mounted /\ mounted' = (k # 0) /\ touched' = {} /\ Returns(IF k = 0 THEN 0 ELSE -1)
        /\ disk' = Tables([b \in Blocks |-> Erased], NewFAT(m), NewDIR, m, Before(k))
  BY DEF make_fs, StillOpen
<1>2. k = 0
  BY DEF Failing, SafeFaults
<1>. DEFINE t == Tables([b \in Blocks |-> Erased], NewFAT(m), NewDIR, m, AllTables)
<1>3. disk' = t
  BY <1>1, <1>2 DEF Before
<1>4. t[0] = Super /\ t[dir_idx].dir = NewDIR
  BY TablesAll
<1>. HIDE DEF t
<1>5. Formatted' /\ disk'[dir_idx].dir = NewDIR
  BY <1>3, <1>4 DEF Formatted
<1>. QED
  BY <1>1, <1>2, <1>5

LEMMA UmountEffect ==
  ASSUME SafeFaults, "close" \in Rules, umount_fs
  PROVE  /\ mounted /\ UNCHANGED <<DIR, fildes>> /\ \A fd \in Fildes : ~fildes[fd].used
         /\ \/ /\ ~mounted' /\ Returns(0) /\ touched' = {}
               /\ Formatted' /\ disk'[dir_idx].dir = DIR
               /\ \A b \in Blocks \ (0..dir_idx) : disk'[b] = disk[b]
            \/ /\ mounted' /\ Returns(-1) /\ touched' = touched
               /\ \A b \in Blocks : disk'[b] = disk[b]
<1>1. PICK m \in Around, k \in Failing("umount") :
        /\ mounted /\ mounted' = (k # 0) /\ touched' = (IF k = 0 THEN {} ELSE touched)
        /\ Returns(IF k = 0 THEN 0 ELSE -1)
        /\ UNCHANGED <<DIR, fildes>> /\ \A fd \in Fildes : ~fildes[fd].used
        /\ disk' = Tables(disk, FAT, DIR, m, Before(k))
  BY DEF umount_fs, StillOpen, Keeping
<1>2. CASE k = 0
  <2>. DEFINE t == Tables(disk, FAT, DIR, m, AllTables)
  <2>1. disk' = t
    BY <1>1, <1>2 DEF Before
  <2>2. t[0] = Super /\ t[dir_idx].dir = DIR /\ \A b \in Blocks \ (0..dir_idx) : t[b] = disk[b]
    BY TablesAll
  <2>. HIDE DEF t
  <2>3. /\ Formatted' /\ disk'[dir_idx].dir = DIR
        /\ \A b \in Blocks \ (0..dir_idx) : disk'[b] = disk[b]
    BY <2>1, <2>2 DEF Formatted
  <2>. QED
    BY <1>1, <1>2, <2>3
<1>3. CASE k = 1
  <2>. DEFINE t == Tables(disk, FAT, DIR, m, 0)
  <2>1. disk' = t
    BY <1>1, <1>3 DEF Before
  <2>2. \A b \in Blocks : t[b] = disk[b]
    BY TablesNone
  <2>. HIDE DEF t
  <2>3. \A b \in Blocks : disk'[b] = disk[b]
    BY <2>1, <2>2
  <2>4. mounted' /\ touched' = touched
    <3>1. k # 0
      BY <1>3
    <3>. QED
      BY <1>1, <3>1, Zenon
  <2>5. Returns(-1)
    <3>1. (IF k = 0 THEN 0 ELSE -1) = -1
      BY <1>3
    <3>. QED
      BY <1>1, <3>1
  <2>. QED
    BY <1>1, <2>3, <2>4, <2>5
<1>. QED
  BY <1>1, <1>2, <1>3 DEF Failing, SafeFaults

-----------------------------------------------------------------------------
(* What else the store needs to know: counts, and what is saved.           *)

(* A file is open once at most.                                            *)
Counted ==
  /\ mounted => \A fd \in Fildes :
       IF fildes[fd].used THEN DIR[fd].ref_cnt = 1 ELSE DIR[fd].ref_cnt <= 0
  /\ Formatted => \A fd \in Fildes : disk[dir_idx].dir[fd].ref_cnt <= 0

(* A saved file whose name nobody has touched is where it was, so that its *)
(* block is not given to another.                                          *)
SavedKept == mounted =>
  /\ Formatted
  /\ \A i \in Slots : LET e == disk[dir_idx].dir[i] IN
       e.used /\ e.name \notin touched =>
         DIR[i].used /\ DIR[i].name = e.name /\ DIR[i].head = e.head

(* All of it, inductive for clients that keep to the rules.                *)
StoreInv == Inv /\ Matched /\ OwnInv /\ Typed /\ Counted /\ SavedKept

LEMMA TablesStay ==
  ASSUME NEW h \in Home, \A b \in Blocks : b # h => disk'[b] = disk[b]
  PROVE  Formatted' = Formatted /\ disk'[dir_idx] = disk[dir_idx]
<1>1. 0 \in Blocks /\ dir_idx \in Blocks /\ 0 # h /\ dir_idx # h
  BY Layout, HomeIsData DEF Home, Reserved
<1>. QED
  BY <1>1 DEF Formatted

LEMMA FdCallSaved ==
  ASSUME StoreInv, ProperClients, SafeFaults, Room, NEW fd, FdCall(fd)
  PROVE  /\ UNCHANGED mounted /\ touched \subseteq touched'
         /\ Formatted' = Formatted /\ disk'[dir_idx] = disk[dir_idx]
         /\ \A i \in Slots : /\ DIR'[i].used = DIR[i].used /\ DIR'[i].name = DIR[i].name
                             /\ DIR[i].name \in touched' \/ DIR'[i].head = DIR[i].head
<1>0. /\ DIR \in [Slots -> Entries] /\ Fildes \subseteq Slots
      /\ fildes \in [Fildes -> [used : BOOLEAN, file : Slots, offset : Nat]]
  BY FSAssumption DEF StoreInv, Inv, DirOK, FdsOK, Fildes, Slots
<1>1. CASE fs_close(fd)
  <2>. DEFINE f == fildes[fd].file
              e == [DIR[f] EXCEPT !.ref_cnt = @ - 1]
  <2>1. /\ Usable(fd) /\ DIR' = [DIR EXCEPT ![f] = e]
        /\ UNCHANGED <<mounted, disk, touched>>
    BY <1>1 DEF fs_close, diskVars
  <2>2. f \in Slots
    BY <2>1, UsableFacts DEF StoreInv, Inv
  <2>3. e.used = DIR[f].used /\ e.head = DIR[f].head /\ e.name = DIR[f].name
    BY <1>0, <2>2 DEF Entries
  <2>. HIDE DEF e, f
  <2>4. \A i \in Slots : /\ DIR'[i].used = DIR[i].used /\ DIR'[i].name = DIR[i].name
                         /\ DIR'[i].head = DIR[i].head
    BY <1>0, <2>1, <2>2, <2>3
  <2>. QED
    BY <2>1, <2>4 DEF Formatted
<1>2. CASE ~fs_close(fd)
  <2>1. UNCHANGED mounted
        /\ \A i \in Slots : DIR'[i].used = DIR[i].used /\ DIR'[i].name = DIR[i].name
    BY <1>2, FdCallEntries DEF StoreInv
  <2>2. ASSUME UNCHANGED disk, touched \subseteq touched', NEW f, NEW s,
               DIR' = [DIR EXCEPT ![f].size = s] \/ DIR' = DIR
        PROVE  /\ touched \subseteq touched'
               /\ Formatted' = Formatted /\ disk'[dir_idx] = disk[dir_idx]
               /\ \A i \in Slots : DIR[i].name \in touched' \/ DIR'[i].head = DIR[i].head
    <3>1. \A i \in Slots : DIR'[i].head = DIR[i].head
      BY <1>0, <2>2 DEF Entries
    <3>. QED
      BY <2>2, <3>1 DEF Formatted
  <2>3. CASE \E o \in Offsets : fs_truncate(fd, o)
    <3>1. UNCHANGED disk /\ touched \subseteq touched'
          /\ \E f, s : DIR' = [DIR EXCEPT ![f].size = s] \/ DIR' = DIR
      BY <2>3 DEF fs_truncate, diskVars, Touching
    <3>. QED
      BY <2>1, <2>2, <3>1
  <2>4. CASE \E buf \in Buffers : fs_write(fd, buf)
    <3>1. PICK buf \in Buffers : fs_write(fd, buf)
      BY <2>4
    <3>2. Usable(fd) /\ Touching(fd) /\ (WroteNothing \/ \E h, base : Wrote(fd, buf, h, base))
      BY <3>1, ProperWrite DEF StoreInv, ProperClients
    <3>3. touched \subseteq touched' /\ DIR[fd].name \in touched'
      BY <3>2 DEF Usable, Touching, Entry, Matched, StoreInv
    <3>4. CASE WroteNothing
      <4>1. 0 \in Blocks /\ dir_idx \in Blocks
        BY Layout
      <4>. QED
        BY <2>1, <3>3, <3>4, <4>1 DEF WroteNothing, Formatted
    <3>5. CASE \E h, base : Wrote(fd, buf, h, base)
      <4>1. PICK h, base : Wrote(fd, buf, h, base)
        BY <3>5
      <4>2. /\ h \in Home /\ \A b \in Blocks : b # h => disk'[b] = disk[b]
            /\ \A i \in Slots : i # fd => DIR'[i] = DIR[i]
        BY <4>1 DEF Wrote
      <4>. QED
        BY <2>1, <3>3, <4>2, TablesStay
    <3>. QED
      BY <3>2, <3>4, <3>5
  <2>5. CASE \/ \E o \in Offsets : fs_lseek(fd, o)
             \/ \E n \in Lengths : fs_read(fd, n)
             \/ fs_get_filesize(fd) \/ fd_Refused(fd) \/ fs_access_Past(fd)
             \/ \E o \in Offsets : fs_lseek_Refused(fd, o)
             \/ \E n \in Lengths : fs_read_Nothing(fd, n)
    <3>1. UNCHANGED <<disk, touched, DIR>>
      BY <2>5 DEF fs_lseek, fs_read, fs_get_filesize, fd_Refused, fs_access_Past,
           fs_lseek_Refused, fs_read_Nothing, Refused, memVars, diskVars
    <3>. QED
      BY <2>1, <2>2, <3>1
  <2>. QED
    BY <1>2, <2>3, <2>4, <2>5 DEF FdCall
<1>. QED
  BY <1>1, <1>2

LEMMA CountedSame ==
  ASSUME Counted, mounted' = mounted, Formatted' = Formatted, disk'[dir_idx] = disk[dir_idx],
         \A fd \in Fildes : fildes'[fd].used = fildes[fd].used /\ DIR'[fd].ref_cnt = DIR[fd].ref_cnt
  PROVE  Counted'
  BY DEF Counted

LEMMA ErasedDisk ==
  ASSUME disk' = [b \in Blocks |-> Erased]
  PROVE  ~Formatted'
  BY Layout, KindsDiffer DEF Formatted, Erased

(* mount_fs and what it is not.                                            *)
LEMMA MountEffect ==
  ASSUME mount_fs
  PROVE  /\ ~mounted /\ mounted' /\ Formatted /\ Formatted' /\ Returns(0)
         /\ DIR' = disk[dir_idx].dir /\ UNCHANGED <<disk, touched>>
         /\ \A fd \in Fildes : ~fildes'[fd].used
<1>1. fildes' = [i \in Fildes |-> NewFd] /\ NewFd.used = FALSE
  BY DEF mount_fs, NewFd
<1>. QED
  BY <1>1 DEF mount_fs, Formatted

LEMMA CountedMount ==
  ASSUME StoreInv, ProperClients, SafeFaults, MountCall
  PROVE  Counted'
<1>0. Counted /\ Fildes \subseteq Slots /\ 0 \in Blocks /\ dir_idx \in Blocks
  BY Layout, FSAssumption DEF StoreInv, Fildes, Slots
<1>1. CASE make_fs
  <2>1. ~mounted' /\ disk'[dir_idx].dir = NewDIR
    BY <1>1, MakeEffect
  <2>2. \A fd \in Fildes : NewDIR[fd].ref_cnt <= 0
    BY <1>0 DEF NewDIR, NewEntry
  <2>. QED
    BY <2>1, <2>2 DEF Counted
<1>2. CASE make_fs_Busy
  <2>1. ~mounted' /\ disk' = [b \in Blocks |-> Erased]
    BY <1>2 DEF make_fs_Busy, make_disk, memVars
  <2>. QED
    BY <2>1, ErasedDisk DEF Counted
<1>3. CASE mount_fs
  BY <1>0, <1>3, MountEffect DEF Counted
<1>4. CASE umount_fs
  <2>1. /\ mounted /\ UNCHANGED <<DIR, fildes>> /\ \A fd \in Fildes : ~fildes[fd].used
        /\ \/ ~mounted' /\ disk'[dir_idx].dir = DIR
           \/ mounted' /\ \A b \in Blocks : disk'[b] = disk[b]
    BY <1>4, UmountEffect DEF ProperClients
  <2>2. CASE ~mounted' /\ disk'[dir_idx].dir = DIR
    BY <1>0, <2>1, <2>2 DEF Counted
  <2>3. CASE mounted' /\ \A b \in Blocks : disk'[b] = disk[b]
    <3>1. Formatted' = Formatted /\ disk'[dir_idx] = disk[dir_idx]
      BY <1>0, <2>3 DEF Formatted
    <3>. QED
      BY <1>0, <2>1, <2>3, <3>1 DEF Counted
  <2>. QED
    BY <2>1, <2>2, <2>3
<1>5. CASE mount_fs_Abort \/ mount_fs_NoSuper \/ mount_fs_Fails \/ mount_fs_Overrun
  <2>1. ~mounted /\ UNCHANGED <<mounted, disk>>
    BY <1>5 DEF mount_fs_Abort, mount_fs_NoSuper, mount_fs_Fails, mount_fs_Overrun, memVars, diskVars
  <2>. QED
    BY <1>0, <2>1 DEF Counted, Formatted
<1>6. CASE mounting_Refused
  BY <1>0, <1>6 DEF mounting_Refused, Refused, Counted, Formatted, memVars, diskVars
<1>. QED
  BY <1>1, <1>2, <1>3, <1>4, <1>5, <1>6 DEF MountCall

LEMMA CountedName ==
  ASSUME StoreInv, ProperClients, NEW n \in Names, NameCall(n)
  PROVE  Counted'
<1>0. /\ DIR \in [Slots -> Entries] /\ Fildes \subseteq Slots /\ Counted
      /\ fildes \in [Fildes -> [used : BOOLEAN, file : Slots, offset : Nat]]
  BY FSAssumption DEF StoreInv, Inv, DirOK, FdsOK, Fildes, Slots
<1>1. CASE fs_create(n)
  <2>. DEFINE i == First(Unused)
              e == [name |-> n, used |-> TRUE, size |-> 0, head |-> LAZY, ref_cnt |-> 0]
  <2>1. /\ i \in Slots /\ ~DIR[i].used /\ UNCHANGED <<mounted, fildes, disk>>
        /\ DIR' = [DIR EXCEPT ![i] = e]
    BY <1>1, FirstSlot DEF fs_create, Creatable, diskVars
  <2>2. e.ref_cnt = 0
    OBVIOUS
  <2>. HIDE DEF i, e
  <2>3. DIR'[i] = e /\ \A j \in Slots : j # i => DIR'[j] = DIR[j]
    BY <1>0, <2>1
  <2>4. i \in Fildes => ~fildes[i].used
    BY <2>1 DEF Matched, StoreInv
  <2>. QED
    BY <1>0, <2>1, <2>2, <2>3, <2>4 DEF Counted, Formatted
<1>2. CASE fs_open(n)
  <2>. DEFINE i == First(ClosedFds)
              e == [DIR[i] EXCEPT !.ref_cnt = IF @ > 0 THEN @ + 1 ELSE 1]
  <2>1. /\ i \in Fildes /\ i \in Slots /\ mounted /\ ClosedFds # {}
        /\ fildes' = [fildes EXCEPT ![i] = [used |-> TRUE, file |-> i, offset |-> 0]]
        /\ DIR' = [DIR EXCEPT ![i] = e]
        /\ UNCHANGED <<mounted, disk>>
    BY <1>2, FirstSlot DEF fs_open, Openable, diskVars
  <2>2. ~fildes[i].used
    <3>1. ClosedFds \in SUBSET Nat
      BY DEF ClosedFds, Fildes
    <3>2. First(ClosedFds) \in ClosedFds
      BY <2>1, <3>1, FirstIsLeast
    <3>. QED
      BY <3>2 DEF ClosedFds
  <2>3. e.ref_cnt = 1
    <3>1. DIR[i].ref_cnt <= 0 /\ DIR[i].ref_cnt \in Int
      BY <1>0, <2>1, <2>2 DEF Counted, Entries
    <3>2. e.ref_cnt = IF DIR[i].ref_cnt > 0 THEN DIR[i].ref_cnt + 1 ELSE 1
      BY <1>0, <2>1 DEF Entries
    <3>. HIDE DEF e, i
    <3>. QED
      BY <3>1, <3>2
  <2>. HIDE DEF i, e
  <2>4. /\ DIR'[i] = e /\ fildes'[i].used
        /\ \A j \in Fildes : j # i => DIR'[j] = DIR[j] /\ fildes'[j] = fildes[j]
    BY <1>0, <2>1
  <2>. QED
    BY <1>0, <2>1, <2>3, <2>4 DEF Counted, Formatted
<1>3. CASE fs_delete(n)
  <2>. DEFINE i == First(Named(n))
  <2>1. i \in Slots /\ UNCHANGED <<mounted, fildes, disk>> /\ DIR' = Forgotten(i)
    BY <1>3, FirstSlot DEF fs_delete, Deletable, diskVars
  <2>. HIDE DEF i
  <2>2. \A j \in Slots : DIR'[j].ref_cnt = DIR[j].ref_cnt
    BY <1>0, <2>1 DEF Forgotten, Entries
  <2>. QED
    BY <1>0, <2>1, <2>2, CountedSame DEF Formatted
<1>4. CASE fs_create_Refused(n) \/ fs_open_Refused(n) \/ fs_delete_Refused(n)
  BY <1>0, <1>4 DEF fs_create_Refused, fs_open_Refused, fs_delete_Refused, Refused, Counted,
     Formatted, memVars, diskVars
<1>. QED
  BY <1>1, <1>2, <1>3, <1>4 DEF NameCall

LEMMA CountedFd ==
  ASSUME StoreInv, ProperClients, SafeFaults, Room, NEW fd, FdCall(fd)
  PROVE  Counted'
<1>0. /\ DIR \in [Slots -> Entries] /\ Fildes \subseteq Slots /\ Counted
      /\ fildes \in [Fildes -> [used : BOOLEAN, file : Slots, offset : Nat]]
  BY FSAssumption DEF StoreInv, Inv, DirOK, FdsOK, Fildes, Slots
<1>1. /\ UNCHANGED mounted /\ Formatted' = Formatted /\ disk'[dir_idx] = disk[dir_idx]
  BY FdCallSaved
<1>2. CASE fs_close(fd)
  <2>. DEFINE e == [DIR[fd] EXCEPT !.ref_cnt = @ - 1]
              g == [fildes[fd] EXCEPT !.used = (DIR[fd].ref_cnt - 1 # 0)]
  <2>1. /\ Usable(fd) /\ fd \in Fildes /\ mounted /\ Entry(fd) = DIR[fd]
        /\ DIR' = [DIR EXCEPT ![fd] = e] /\ fildes' = [fildes EXCEPT ![fd] = g]
    BY <1>2 DEF fs_close, Usable, Matched, StoreInv, Entry
  <2>2. DIR[fd].ref_cnt = 1
    BY <1>0, <2>1 DEF Usable, Counted
  <2>3. e.ref_cnt = 0 /\ g.used = FALSE
    <3>1. e.ref_cnt = DIR[fd].ref_cnt - 1
      BY <1>0, <2>1 DEF Entries
    <3>2. g.used = (DIR[fd].ref_cnt - 1 # 0)
      BY <1>0, <2>1
    <3>3. DIR[fd].ref_cnt - 1 = 0
      BY <2>2
    <3>. HIDE DEF e, g
    <3>. QED
      BY <3>1, <3>2, <3>3
  <2>. HIDE DEF e, g
  <2>4. /\ DIR'[fd] = e /\ fildes'[fd] = g
        /\ \A j \in Fildes : j # fd => DIR'[j] = DIR[j] /\ fildes'[j] = fildes[j]
    BY <1>0, <2>1
  <2>. QED
    BY <1>0, <1>1, <2>3, <2>4 DEF Counted
<1>3. CASE ~fs_close(fd)
  BY <1>0, <1>1, <1>3, FdCallEntries, CountedSame DEF StoreInv
<1>. QED
  BY <1>2, <1>3

LEMMA CountedStep ==
  ASSUME StoreInv, ProperClients, SafeFaults, Room, [Next]_vars
  PROVE  Counted'
<1>0. Counted
  BY DEF StoreInv
<1>1. CASE Up /\ MountCall
  BY <1>1, CountedMount
<1>2. CASE \E n \in Names : Up /\ NameCall(n)
  BY <1>2, CountedName
<1>3. CASE \E fd \in -1..MAX_FILDES : Up /\ FdCall(fd)
  BY <1>3, CountedFd
<1>4. CASE (Up /\ (fs_listfiles \/ fs_listfiles_Null)) \/ UNCHANGED vars
  <2>1. UNCHANGED <<memVars, diskVars>>
    BY <1>4 DEF fs_listfiles, fs_listfiles_Null, vars
  <2>. QED
    BY <1>0, <2>1 DEF Counted, Formatted, memVars, diskVars
<1>5. CASE Exit
  BY <1>0, <1>5 DEF Exit, Counted, Formatted
<1>. QED
  BY <1>1, <1>2, <1>3, <1>4, <1>5 DEF Next

LEMMA SavedKeptStep ==
  ASSUME StoreInv, ProperClients, SafeFaults, Room, [Next]_vars
  PROVE  SavedKept'
<1>0. /\ DIR \in [Slots -> Entries] /\ SavedKept /\ 0 \in Blocks /\ dir_idx \in Blocks
      /\ WellNamed(DIR)
  BY Layout DEF StoreInv, Inv, DirOK
<1>1. ASSUME UNCHANGED <<mounted, disk, touched, DIR>> PROVE SavedKept'
  BY <1>0, <1>1 DEF SavedKept, Formatted
<1>2. CASE Up /\ MountCall
  <2>1. CASE \/ make_fs \/ make_fs_Busy
             \/ mount_fs_Abort \/ mount_fs_NoSuper \/ mount_fs_Fails \/ mount_fs_Overrun
    <3>1. ~mounted'
      BY <2>1, MakeEffect DEF make_fs_Busy, mount_fs_Abort, mount_fs_NoSuper, mount_fs_Fails,
         mount_fs_Overrun, memVars
    <3>. QED
      BY <3>1 DEF SavedKept
  <2>2. CASE mount_fs
    BY <2>2, MountEffect DEF SavedKept
  <2>3. CASE umount_fs
    <3>1. CASE ~mounted'
      BY <3>1 DEF SavedKept
    <3>2. CASE mounted'
      <4>1. mounted /\ UNCHANGED DIR /\ touched' = touched /\ \A b \in Blocks : disk'[b] = disk[b]
        BY <2>3, <3>2, UmountEffect DEF ProperClients
      <4>2. Formatted' = Formatted /\ disk'[dir_idx] = disk[dir_idx]
        BY <1>0, <4>1 DEF Formatted
      <4>. QED
        BY <1>0, <3>2, <4>1, <4>2 DEF SavedKept
    <3>. QED
      BY <3>1, <3>2
  <2>4. CASE mounting_Refused
    BY <1>1, <2>4 DEF mounting_Refused, Refused, memVars, diskVars
  <2>. QED
    BY <1>2, <2>1, <2>2, <2>3, <2>4 DEF MountCall
<1>3. ASSUME NEW n \in Names, Up, NameCall(n) PROVE SavedKept'
  <2>1. CASE fs_create(n)
    <3>. DEFINE i == First(Unused)
    <3>1. /\ i \in Slots /\ ~DIR[i].used /\ UNCHANGED <<mounted, disk>> /\ touched \subseteq touched'
          /\ \E e : DIR' = [DIR EXCEPT ![i] = e]
      BY <2>1, FirstSlot DEF fs_create, Creatable, diskVars
    <3>. HIDE DEF i
    <3>2. \A j \in Slots : j # i => DIR'[j] = DIR[j]
      BY <1>0, <3>1
    <3>. QED
      BY <1>0, <3>1, <3>2 DEF SavedKept, Formatted
  <2>2. CASE fs_open(n)
    <3>. DEFINE i == First(ClosedFds)
                e == [DIR[i] EXCEPT !.ref_cnt = IF @ > 0 THEN @ + 1 ELSE 1]
    <3>1. /\ i \in Slots /\ DIR' = [DIR EXCEPT ![i] = e] /\ UNCHANGED <<mounted, disk, touched>>
      BY <2>2, FirstSlot DEF fs_open, Openable, diskVars
    <3>2. e.used = DIR[i].used /\ e.head = DIR[i].head /\ e.name = DIR[i].name
      BY <1>0, <3>1 DEF Entries
    <3>. HIDE DEF e, i
    <3>3. \A j \in Slots : /\ DIR'[j].used = DIR[j].used /\ DIR'[j].name = DIR[j].name
                           /\ DIR'[j].head = DIR[j].head
      BY <1>0, <3>1, <3>2
    <3>. QED
      BY <1>0, <3>1, <3>3 DEF SavedKept, Formatted
  <2>3. CASE fs_delete(n)
    <3>. DEFINE i == First(Named(n))
    <3>1. /\ i \in Slots /\ DIR[i].name = n /\ UNCHANGED <<mounted, disk>> /\ DIR' = Forgotten(i)
          /\ touched' = touched \cup {n}
      BY <2>3, FirstSlot DEF fs_delete, Deletable, diskVars
    <3>. HIDE DEF i
    <3>2. \A j \in Slots : j # i => DIR'[j] = DIR[j]
      BY <1>0, <3>1 DEF Forgotten
    <3>. QED
      BY <1>0, <3>1, <3>2 DEF SavedKept, Formatted
  <2>4. CASE fs_create_Refused(n) \/ fs_open_Refused(n) \/ fs_delete_Refused(n)
    BY <1>1, <2>4 DEF fs_create_Refused, fs_open_Refused, fs_delete_Refused, Refused,
       memVars, diskVars
  <2>. QED
    BY <1>3, <2>1, <2>2, <2>3, <2>4 DEF NameCall
<1>4. ASSUME NEW fd, FdCall(fd) PROVE SavedKept'
  BY <1>0, <1>4, FdCallSaved DEF SavedKept
<1>5. CASE (Up /\ (fs_listfiles \/ fs_listfiles_Null)) \/ UNCHANGED vars
  BY <1>1, <1>5 DEF fs_listfiles, fs_listfiles_Null, vars, memVars, diskVars
<1>6. CASE Exit
  BY <1>6 DEF Exit, SavedKept
<1>. QED
  BY <1>2, <1>3, <1>4, <1>5, <1>6 DEF Next

LEMMA StoreInvAlways ==
  ASSUME Bounds, ProperClients, SafeFaults, Room
  PROVE  Spec => []StoreInv
<1>1. WholeTables /\ {"close", "match"} \subseteq Rules
  BY Layout DEF SafeFaults, WholeTables, ProperClients
<1>2. Init => StoreInv
  <2>1. Init => Matched /\ OwnInv
    BY Layout, KindsDiffer, HeaderFresh DEF Init, Matched, NewFd, OwnInv, SavedOwned, Header
  <2>2. Init => Counted /\ SavedKept
    BY Layout, KindsDiffer DEF Init, Counted, SavedKept, Formatted
  <2>. QED
    BY <2>1, <2>2, InitInv, TypedInit DEF StoreInv
<1>3. StoreInv /\ [Next]_vars => StoreInv'
  <2>. SUFFICES ASSUME StoreInv, [Next]_vars PROVE StoreInv'
    OBVIOUS
  <2>1. Inv /\ Matched /\ OwnInv /\ Typed
    BY DEF StoreInv
  <2>2. Inv'
    BY <2>1, OwnedFew, NextInv
  <2>3. Matched'
    BY <2>1, <1>1, MatchedStep
  <2>4. OwnInv'
    BY <2>1, <1>1, OwnedStep
  <2>5. Typed'
    BY <2>1, TypedStep
  <2>6. Counted' /\ SavedKept'
    BY CountedStep, SavedKeptStep
  <2>. QED
    BY <2>2, <2>3, <2>4, <2>5, <2>6 DEF StoreInv
<1>. QED
  BY <1>2, <1>3, PTL DEF Spec

-----------------------------------------------------------------------------
(* Contents, as sequences.                                                 *)

LEMMA Contained ==
  ASSUME NEW C \in Seq(Units), NEW m \in Nat, NEW n \in Nat, m >= 1, n <= Len(C)
  PROVE  /\ SubSeq(C, m, n) \in Seq(Units)
         /\ Len(SubSeq(C, m, n)) = IF m <= n THEN n - m + 1 ELSE 0
         /\ \A i \in 1..(n - m + 1) : SubSeq(C, m, n)[i] = C[m + i - 1]
<1>1. \A i \in m..n : C[i] \in Units
  OBVIOUS
<1>. QED
  BY <1>1, SubSeqProperties

(* Block contents base begin with the file contents C, n units long.       *)
Holds(C, n, base) ==
  C \in Seq(Units) /\ Len(C) = n /\ \A i \in 1..n : C[i] = base[i]

(* The block with buf in it holds the file with buf in it.                 *)
LEMMA PatchedContent ==
  ASSUME NEW s \in 0..BLOCK_SIZE, NEW o \in 0..s, NEW buf \in Buffers,
         o + Len(buf) <= BLOCK_SIZE, NEW base,
         NEW C, Holds(C, s, base),
         NEW D, Holds(D, Larger(s, o + Len(buf)), Patched(base, o, buf))
  PROVE  D = Store!Overwritten(C, o, buf)
<1>0. /\ C \in Seq(Units) /\ Len(C) = s /\ \A i \in 1..s : C[i] = base[i]
      /\ D \in Seq(Units) /\ Len(D) = Larger(s, o + Len(buf))
      /\ \A i \in 1..Len(D) : D[i] = Patched(base, o, buf)[i]
  BY DEF Holds
<1>. DEFINE n == Len(buf)
            P == SubSeq(C, 1, o)
            Q == SubSeq(C, o + n + 1, s)
            l == Larger(s, o + n)
<1>1. n \in Nat \ {0} /\ BLOCK_SIZE \in Nat /\ o \in Nat /\ s \in Nat
  BY BufferType, FSAssumption
<1>2. buf \in Seq(Units)
  <2>1. buf \in Seq(Data) /\ Data \subseteq Units
    BY FSAssumption DEF Units
  <2>. QED
    BY <2>1
<1>3. /\ P \in Seq(Units) /\ Len(P) = o /\ \A i \in 1..o : P[i] = C[i]
  BY <1>0, <1>1, Contained
<1>4. /\ Q \in Seq(Units) /\ Len(Q) = IF o + n + 1 <= s THEN s - (o + n) ELSE 0
      /\ \A i \in 1..(s - (o + n)) : Q[i] = C[o + n + i]
  <2>. HIDE DEF n
  <2>1. o + n + 1 \in Nat /\ o + n + 1 >= 1 /\ s <= Len(C)
    BY <1>0, <1>1
  <2>2. /\ Q \in Seq(Units) /\ Len(Q) = IF o + n + 1 <= s THEN s - (o + n + 1) + 1 ELSE 0
        /\ \A i \in 1..(s - (o + n + 1) + 1) : Q[i] = C[o + n + 1 + i - 1]
    BY <1>0, <2>1, <1>1, Contained
  <2>. HIDE DEF Q
  <2>3. Len(Q) = IF o + n + 1 <= s THEN s - (o + n) ELSE 0
    BY <1>1, <2>2
  <2>4. ASSUME NEW i \in 1..(s - (o + n)) PROVE Q[i] = C[o + n + i]
    <3>1. i \in 1..(s - (o + n + 1) + 1) /\ o + n + 1 + i - 1 = o + n + i
      BY <1>1
    <3>2. Q[i] = C[o + n + 1 + i - 1]
      BY <2>2, <3>1
    <3>. QED
      BY <3>1, <3>2
  <2>. QED
    BY <2>2, <2>3, <2>4
<1>. HIDE DEF P, Q
<1>5. /\ P \o buf \in Seq(Units) /\ Len(P \o buf) = o + n
      /\ \A i \in 1..(o + n) : (P \o buf)[i] = IF i <= o THEN P[i] ELSE buf[i - o]
  BY <1>2, <1>3, ConcatProperties
<1>. DEFINE R == P \o buf
<1>. HIDE DEF R, n
<1>6. /\ R \o Q \in Seq(Units) /\ Len(R \o Q) = Len(R) + Len(Q)
      /\ \A i \in 1..(Len(R) + Len(Q)) :
           (R \o Q)[i] = IF i <= Len(R) THEN R[i] ELSE Q[i - Len(R)]
      /\ Len(R) = o + n
  <2>1. R \in Seq(Units) /\ Len(R) = o + n
    BY <1>5, Zenon DEF R
  <2>2. Q \in Seq(Units)
    BY <1>4
  <2>3. /\ R \o Q \in Seq(Units) /\ Len(R \o Q) = Len(R) + Len(Q)
        /\ \A i \in 1..(Len(R) + Len(Q)) :
             (R \o Q)[i] = IF i <= Len(R) THEN R[i] ELSE Q[i - Len(R)]
    BY <2>1, <2>2, ConcatProperties
  <2>. QED
    BY <2>1, <2>3, Zenon
<1>7. Len(R \o Q) = l /\ l \in 0..BLOCK_SIZE /\ Len(D) = l
  <2>1. Len(D) = l /\ o + n <= BLOCK_SIZE
    BY <1>0 DEF n
  <2>2. l = IF s > o + n THEN s ELSE o + n
    BY DEF Larger
  <2>. HIDE DEF l
  <2>3. Len(R \o Q) = o + n + Len(Q)
    BY <1>6
  <2>4. l \in 0..BLOCK_SIZE
    BY <1>1, <2>1, <2>2
  <2>5. l = o + n + Len(Q)
    BY <1>1, <1>4, <2>2
  <2>. QED
    BY <2>1, <2>3, <2>4, <2>5
<1>. HIDE DEF l
<1>8. ASSUME NEW i \in 1..l PROVE D[i] = (R \o Q)[i]
  <2>1. D[i] = IF i \in (o + 1)..(o + n) THEN buf[i - o] ELSE base[i]
    <3>1. i \in 1..BLOCK_SIZE /\ i \in 1..Len(D)
      BY <1>1, <1>7
    <3>2. D[i] = Patched(base, o, buf)[i]
      BY <1>0, <3>1
    <3>. QED
      BY <3>1, <3>2 DEF Patched, n
  <2>2. i \in 1..(Len(R) + Len(Q)) /\ Len(R) = o + n
    BY <1>6, <1>7
  <2>3. CASE i <= o
    <3>1. (R \o Q)[i] = R[i] /\ R[i] = P[i]
      BY <1>1, <1>5, <1>6, <2>2, <2>3 DEF R
    <3>2. P[i] = base[i] /\ D[i] = base[i]
      BY <1>0, <1>1, <1>3, <2>1, <2>3
    <3>. QED
      BY <3>1, <3>2
  <2>4. CASE i > o /\ i <= o + n
    <3>1. (R \o Q)[i] = R[i] /\ R[i] = buf[i - o]
      BY <1>1, <1>5, <1>6, <2>2, <2>4 DEF R
    <3>. QED
      BY <1>1, <2>1, <2>4, <3>1
  <2>5. CASE i > o + n
    <3>1. (R \o Q)[i] = Q[i - (o + n)]
      BY <1>1, <1>6, <2>2, <2>5
    <3>2. i <= s /\ i - (o + n) \in 1..(s - (o + n)) /\ o + n + (i - (o + n)) = i
      BY <1>1, <1>7, <2>5 DEF l, Larger
    <3>3. Q[i - (o + n)] = C[i]
      BY <1>4, <3>2
    <3>. QED
      BY <1>0, <1>1, <2>1, <2>5, <3>1, <3>2, <3>3
  <2>. QED
    <3>1. i \in Int /\ o \in Int /\ n \in Int
      BY <1>1, <1>7
    <3>2. i <= o \/ (i > o /\ i <= o + n) \/ i > o + n
      BY <3>1
    <3>. QED
      BY <2>3, <2>4, <2>5, <3>2, Zenon
<1>9. D = R \o Q
  BY <1>0, <1>6, <1>7, <1>8, SeqEqual
<1>. QED
  BY <1>0, <1>9 DEF Store!Overwritten, R, P, Q, n

-----------------------------------------------------------------------------
(* What the store shows of a state.                                        *)

LEMMA SameUnits ==
  ASSUME NEW dk, NEW dk2, \A b \in Blocks : dk2[b] = dk[b]
  PROVE  /\ \A e : ContentIn(dk2, e) = ContentIn(dk, e)
         /\ \A d : FilesIn(dk2, d) = FilesIn(dk, d)
<1>1. \A b : UnitsIn(dk2, b) = UnitsIn(dk, b)
  BY DEF UnitsIn
<1>2. \A e : ContentIn(dk2, e) = ContentIn(dk, e)
  BY <1>1 DEF ContentIn
<1>3. ASSUME NEW d PROVE FilesIn(dk2, d) = FilesIn(dk, d)
  BY <1>2 DEF FilesIn
<1>. QED
  BY <1>2, <1>3

(* The disk keeps what is saved.                                           *)
LEMMA SavedSame ==
  ASSUME \A b \in Blocks : disk'[b] = disk[b]
  PROVE  Saved' = Saved /\ Formatted' = Formatted
<1>1. Formatted' = Formatted /\ disk'[dir_idx] = disk[dir_idx]
  BY Layout DEF Formatted
<1>2. FilesIn(disk', disk[dir_idx].dir) = FilesIn(disk, disk[dir_idx].dir)
  BY SameUnits
<1>. QED
  BY <1>1, <1>2, StoreView, StoreViewNext

(* Nothing that matters has changed.                                       *)
LEMMA Quiet ==
  ASSUME UNCHANGED <<mounted, DIR, fildes>>, \A b \in Blocks : disk'[b] = disk[b]
  PROVE  Files' = Files /\ Opened' = Opened /\ Saved' = Saved /\ Formatted' = Formatted
<1>1. FilesIn(disk', DIR) = FilesIn(disk, DIR)
  BY SameUnits
<1>2. Files' = Files
  BY <1>1, StoreView, StoreViewNext
<1>3. Opened' = Opened
  BY StoreView, StoreViewNext
<1>. QED
  BY <1>2, <1>3, SavedSame

LEMMA Unmounted ==
  ASSUME ~mounted, ~mounted'
  PROVE  Files' = Files /\ Opened' = Opened
  BY StoreView, StoreViewNext

LEMMA RefuseStep ==
  ASSUME Returns(-1), UNCHANGED <<mounted, touched>>,
         Files' = Files, Opened' = Opened, Saved' = Saved, Formatted' = Formatted
  PROVE  Store!Refuse
  BY DEF Returns, Store!Refuse, Store!Returns, Store!memory

LEMMA RefusedStep ==
  ASSUME Refused
  PROVE  Store!Refuse
  BY Quiet, RefuseStep DEF Refused, memVars, diskVars

(* A used slot holds a file.                                               *)
LEMMA SlotFacts ==
  ASSUME StoreInv, mounted, NEW i \in Slots, DIR[i].used
  PROVE  /\ DIR[i].name # Empty /\ DIR[i].name \in Names
         /\ DIR[i].name \in DOMAIN Files /\ Files[DIR[i].name] = ContentIn(disk, DIR[i])
         /\ DIR[i].size \in 0..BLOCK_SIZE /\ (DIR[i].size # 0 => DIR[i].head \in Home)
         /\ ContentIn(disk, DIR[i]) \in Seq(Units) /\ Len(ContentIn(disk, DIR[i])) = DIR[i].size
         /\ \A j \in 1..DIR[i].size : ContentIn(disk, DIR[i])[j] = UnitsIn(disk, DIR[i].head)[j]
<1>1. /\ DIR \in [Slots -> Entries] /\ WellNamed(DIR) /\ Owned(FAT, DIR) /\ DataOK(disk)
      /\ DIR[i] \in Entries
  BY DEF StoreInv, Inv, DirOK, OwnInv, Typed
<1>2. DIR[i].name # Empty /\ DIR[i].name \in Names
  BY <1>1 DEF WellNamed, Entries
<1>3. DIR[i].name \in DOMAIN Files /\ Files[DIR[i].name] = ContentIn(disk, DIR[i])
  BY <1>1, FilesAre, StoreView
<1>4. DIR[i].size \in 0..BLOCK_SIZE /\ (DIR[i].size # 0 => DIR[i].head \in Home)
  <2>1. EntrySound(FAT, DIR[i]) /\ DIR[i].size \in Nat
    BY <1>1 DEF Owned, Entries
  <2>. QED
    BY <2>1, FSAssumption DEF EntrySound
<1>. QED
  BY <1>1, <1>2, <1>3, <1>4, ContentIs

LEMMA FdFacts ==
  ASSUME StoreInv, NEW fd, Usable(fd)
  PROVE  /\ fd \in Fildes /\ fd \in Slots /\ DIR[fd].used /\ Entry(fd) = DIR[fd]
         /\ fildes[fd].file = fd /\ mounted /\ fildes[fd].offset \in Nat
         /\ fd \in DOMAIN Opened /\ Opened[fd].name = DIR[fd].name
         /\ Opened[fd].offset = fildes[fd].offset
         /\ Store!Content(fd) = ContentIn(disk, DIR[fd])
<1>1. /\ fd \in Fildes /\ fd \in Slots /\ DIR[fd].used /\ Entry(fd) = DIR[fd]
      /\ fildes[fd].file = fd /\ mounted /\ fildes[fd].used
      /\ fildes[fd].offset \in Nat
  BY FSAssumption DEF Usable, Matched, StoreInv, Entry, Inv, FdsOK, Fildes, Slots
<1>2. fd \in DOMAIN Opened /\ Opened[fd] = [name |-> DIR[fd].name, offset |-> fildes[fd].offset]
  BY <1>1 DEF Opened
<1>3. Files[DIR[fd].name] = ContentIn(disk, DIR[fd])
  BY <1>1, SlotFacts
<1>. QED
  BY <1>1, <1>2, <1>3 DEF Store!Content

-----------------------------------------------------------------------------
(* Every call is a call of the store.                                      *)

LEMMA MakeImplements ==
  ASSUME StoreInv, SafeFaults, make_fs
  PROVE  Store!Format
<1>1. /\ ~mounted /\ ~mounted' /\ Returns(0) /\ touched' = {}
      /\ Formatted' /\ disk'[dir_idx].dir = NewDIR
  BY MakeEffect
<1>2. \A i \in Slots : ~NewDIR[i].used
  BY DEF NewDIR, NewEntry
<1>3. FilesIn(disk', NewDIR) = Store!None
  <2>1. {i \in Slots : NewDIR[i].used} = {}
    BY <1>2
  <2>. QED
    BY <2>1 DEF FilesIn, Store!None
<1>4. Saved' = Store!None
  BY <1>1, <1>3, StoreViewNext
<1>5. UNCHANGED mounted
  <2>1. mounted \in BOOLEAN /\ mounted' \in BOOLEAN
    BY DEF StoreInv, Typed, make_fs, StillOpen
  <2>. QED
    BY <1>1, <2>1
<1>. QED
  BY <1>1, <1>4, <1>5, Unmounted DEF Store!Format, Store!Returns, Returns, Store!memory

LEMMA BusyImplements ==
  ASSUME make_fs_Busy
  PROVE  Store!Format
<1>1. /\ ~mounted /\ UNCHANGED mounted /\ touched' = {} /\ Returns(-1)
      /\ disk' = [b \in Blocks |-> Erased]
  BY DEF make_fs_Busy, make_disk, memVars
<1>2. ~Formatted'
  BY <1>1, ErasedDisk
<1>3. Saved' = Store!None
  BY <1>2, StoreViewNext
<1>. QED
  BY <1>1, <1>2, <1>3, Unmounted DEF Store!Format, Store!Returns, Returns, Store!memory

LEMMA MountImplements ==
  ASSUME mount_fs
  PROVE  Store!Mount
<1>1. /\ ~mounted /\ mounted' /\ Formatted /\ Formatted' /\ Returns(0)
      /\ DIR' = disk[dir_idx].dir /\ UNCHANGED <<disk, touched>>
      /\ \A fd \in Fildes : ~fildes'[fd].used
  BY MountEffect
<1>2. mounted' = TRUE
  BY DEF mount_fs
<1>3. Saved' = Saved /\ Files' = Saved
  BY <1>1, StoreView, StoreViewNext
<1>4. Opened' = Store!None /\ Opened = Store!None
  <2>1. {i \in Fildes : fildes'[i].used} = {}
    BY <1>1
  <2>2. OpenIn(DIR', fildes') = Store!None
    BY <2>1 DEF OpenIn, Store!None
  <2>. QED
    BY <1>1, <2>2, StoreView, StoreViewNext
<1>5. Formatted' = Formatted
  BY <1>1 DEF Formatted
<1>. QED
  BY <1>1, <1>2, <1>3, <1>4, <1>5 DEF Store!Mount, Store!Returns, Returns

LEMMA UmountImplements ==
  ASSUME StoreInv, ProperClients, SafeFaults, umount_fs
  PROVE  Store!Umount \/ Store!Refuse
<1>1. /\ mounted /\ UNCHANGED <<DIR, fildes>> /\ \A fd \in Fildes : ~fildes[fd].used
      /\ \/ /\ ~mounted' /\ Returns(0) /\ touched' = {}
            /\ Formatted' /\ disk'[dir_idx].dir = DIR
            /\ \A b \in Blocks \ (0..dir_idx) : disk'[b] = disk[b]
         \/ /\ mounted' /\ Returns(-1) /\ touched' = touched
            /\ \A b \in Blocks : disk'[b] = disk[b]
  BY UmountEffect DEF ProperClients
<1>2. mounted = TRUE /\ mounted' \in BOOLEAN
  BY <1>1 DEF StoreInv, Typed, umount_fs, StillOpen
<1>3. CASE mounted'
  BY <1>1, <1>2, <1>3, Quiet, RefuseStep
<1>4. CASE ~mounted'
  <2>1. Opened = Store!None /\ Opened' = Store!None /\ Files' = Store!None
    <3>1. {i \in Fildes : fildes[i].used} = {}
      BY <1>1
    <3>2. OpenIn(DIR, fildes) = Store!None
      BY <3>1 DEF OpenIn, Store!None
    <3>. QED
      BY <1>1, <1>4, <3>2, StoreView, StoreViewNext
  <2>2. \A i \in Slots : DIR[i].used => ContentIn(disk', DIR[i]) = ContentIn(disk, DIR[i])
    <3>1. SUFFICES ASSUME NEW i \in Slots, DIR[i].used, DIR[i].size # 0
                   PROVE  UnitsIn(disk', DIR[i].head) = UnitsIn(disk, DIR[i].head)
      BY DEF ContentIn
    <3>2. DIR[i].head \in Home
      BY <1>1, <3>1, SlotFacts
    <3>3. DIR[i].head \in Blocks \ (0..dir_idx)
      BY <3>2, HomeIsData, Layout DEF Home, Reserved
    <3>. QED
      BY <1>1, <1>4, <3>3 DEF UnitsIn
  <2>3. FilesIn(disk', DIR) = FilesIn(disk, DIR)
    BY <2>2, SameFiles DEF StoreInv, Inv, DirOK
  <2>4. Saved' = Files
    BY <1>1, <1>4, <2>3, StoreView, StoreViewNext
  <2>5. Formatted' = Formatted
    BY <1>1, <1>4 DEF StoreInv, SavedKept, Formatted
  <2>6. mounted' = FALSE
    BY <1>2, <1>4
  <2>. QED
    BY <1>1, <1>2, <1>4, <2>1, <2>4, <2>5, <2>6 DEF Store!Umount, Store!Returns, Returns
<1>. QED
  BY <1>3, <1>4

LEMMA MountCallImplements ==
  ASSUME StoreInv, ProperClients, SafeFaults, MountCall
  PROVE  Store!Next \/ UNCHANGED Store!vars
<1>1. CASE make_fs \/ make_fs_Busy \/ mount_fs
  BY <1>1, MakeImplements, BusyImplements, MountImplements DEF Store!Next
<1>2. CASE umount_fs
  BY <1>2, UmountImplements DEF Store!Next
<1>3. CASE mounting_Refused
  BY <1>3, RefusedStep DEF mounting_Refused, Store!Next
<1>4. CASE mount_fs_NoSuper \/ mount_fs_Fails \/ mount_fs_Overrun
  <2>1. ~mounted /\ UNCHANGED <<mounted, disk, touched>> /\ Returns(-1)
    BY <1>4 DEF mount_fs_NoSuper, mount_fs_Fails, mount_fs_Overrun, memVars
  <2>2. Store!Refuse
    BY <2>1, Unmounted, SavedSame, RefuseStep
  <2>. QED
    BY <2>2 DEF Store!Next
<1>5. CASE mount_fs_Abort
  BY <1>5, Quiet DEF mount_fs_Abort, memVars, diskVars, Store!vars, Store!memory
<1>. QED
  BY <1>1, <1>2, <1>3, <1>4, <1>5 DEF MountCall

LEMMA CreateImplements ==
  ASSUME StoreInv, StoreInv', NEW n \in Names, fs_create(n)
  PROVE  Store!Create(n)
<1>. DEFINE i == First(Unused)
            e == [name |-> n, used |-> TRUE, size |-> 0, head |-> LAZY, ref_cnt |-> 0]
            g == Store!With(Files, n, <<>>)
<1>1. /\ i \in Slots /\ ~DIR[i].used /\ mounted /\ Named(n) = {}
      /\ UNCHANGED <<mounted, fildes, disk>> /\ DIR' = [DIR EXCEPT ![i] = e]
      /\ touched' = touched \cup {n} /\ Returns(0)
  BY FirstSlot DEF fs_create, Creatable, diskVars
<1>2. /\ DIR \in [Slots -> Entries] /\ WellNamed(DIR) /\ WellNamed(DIR')
  BY DEF StoreInv, Inv, DirOK
<1>3. e.used /\ e.name = n /\ ContentIn(disk, e) = <<>>
  BY DEF ContentIn
<1>. HIDE DEF i, e
<1>4. DIR'[i] = e /\ \A j \in Slots : j # i => DIR'[j] = DIR[j]
  BY <1>1, <1>2
<1>. DEFINE f == FilesIn(disk, DIR)
<1>5. /\ Files = f
      /\ f = [k \in DOMAIN f |-> f[k]]
      /\ \A k \in DOMAIN f : \E j \in Slots : DIR[j].used /\ DIR[j].name = k
      /\ \A j \in Slots : DIR[j].used => /\ DIR[j].name \in DOMAIN f
                                         /\ f[DIR[j].name] = ContentIn(disk, DIR[j])
  BY <1>1, <1>2, FilesAre, StoreView
<1>. HIDE DEF f
<1>6. n \notin DOMAIN f
  BY <1>1, <1>5 DEF Named
<1>7. g = [k \in DOMAIN f \cup {n} |-> IF k = n THEN <<>> ELSE f[k]]
  BY <1>5 DEF Store!With
<1>. HIDE DEF g
<1>8. \A k \in DOMAIN g : \E j \in Slots : DIR'[j].used /\ DIR'[j].name = k
  BY <1>1, <1>3, <1>4, <1>5, <1>7
<1>9. \A j \in Slots : DIR'[j].used => /\ DIR'[j].name \in DOMAIN g
                                       /\ g[DIR'[j].name] = ContentIn(disk, DIR'[j])
  BY <1>1, <1>3, <1>4, <1>5, <1>6, <1>7
<1>10. FilesIn(disk, DIR') = g
  <2>1. g = [k \in DOMAIN g |-> g[k]]
    BY <1>7
  <2>. QED
    BY <1>2, <1>8, <1>9, <2>1, FilesEqual
<1>11. Files' = g
  BY <1>1, <1>10, StoreViewNext
<1>12. Opened' = Opened
  <2>1. \A fd \in Fildes : fildes[fd].used => DIR'[fildes[fd].file] = DIR[fildes[fd].file]
    BY <1>1, <1>4, FSAssumption DEF StoreInv, Matched, Fildes, Slots
  <2>2. OpenIn(DIR', fildes) = OpenIn(DIR, fildes)
    BY <2>1 DEF OpenIn
  <2>. QED
    BY <1>1, <2>2, StoreView, StoreViewNext
<1>13. Saved' = Saved /\ Formatted' = Formatted
  BY <1>1, SavedSame
<1>14. n \notin DOMAIN Files
  BY <1>5, <1>6
<1>. QED
  BY <1>1, <1>11, <1>12, <1>13, <1>14 DEF Store!Create, Store!Returns, Returns, g

LEMMA DeleteImplements ==
  ASSUME StoreInv, StoreInv', ProperClients, NEW n \in Names, fs_delete(n)
  PROVE  Store!Delete(n)
<1>. DEFINE i == First(Named(n))
            f == FilesIn(disk, DIR)
            g == Store!Without(Files, n)
<1>1. /\ i \in Slots /\ DIR[i].name = n /\ mounted /\ DIR[i].ref_cnt <= 0
      /\ UNCHANGED <<mounted, fildes, disk>> /\ DIR' = Forgotten(i)
      /\ touched' = touched \cup {n}
  BY FirstSlot DEF fs_delete, Deletable, diskVars
<1>2. Returns(0)
  <2>1. status' = "ok"
    BY <1>1 DEF StoreInv, OwnInv
  <2>. QED
    BY <2>1 DEF fs_delete, ReleaseFrom, Ends
<1>3. /\ DIR \in [Slots -> Entries] /\ WellNamed(DIR) /\ WellNamed(DIR') /\ n # Empty
      /\ DIR[i].used
  BY <1>1 DEF StoreInv, Inv, DirOK, ProperClients, WellNamed
<1>. HIDE DEF i
<1>4. ~DIR'[i].used /\ \A j \in Slots : j # i => DIR'[j] = DIR[j]
  BY <1>1, <1>3 DEF Forgotten, Entries
<1>5. /\ Files = f
      /\ f = [k \in DOMAIN f |-> f[k]]
      /\ \A k \in DOMAIN f : \E j \in Slots : DIR[j].used /\ DIR[j].name = k
      /\ \A j \in Slots : DIR[j].used => /\ DIR[j].name \in DOMAIN f
                                         /\ f[DIR[j].name] = ContentIn(disk, DIR[j])
  BY <1>1, <1>3, FilesAre, StoreView
<1>. HIDE DEF f
<1>6. g = [k \in DOMAIN f \ {n} |-> f[k]]
  BY <1>5 DEF Store!Without, Store!Restrict
<1>. HIDE DEF g
<1>7. \A k \in DOMAIN g : \E j \in Slots : DIR'[j].used /\ DIR'[j].name = k
  BY <1>1, <1>4, <1>5, <1>6
<1>8. \A j \in Slots : DIR'[j].used => /\ DIR'[j].name \in DOMAIN g
                                       /\ g[DIR'[j].name] = ContentIn(disk, DIR'[j])
  BY <1>1, <1>3, <1>4, <1>5, <1>6 DEF WellNamed
<1>9. FilesIn(disk, DIR') = g
  <2>1. g = [k \in DOMAIN g |-> g[k]]
    BY <1>6
  <2>. QED
    BY <1>3, <1>7, <1>8, <2>1, FilesEqual
<1>10. Files' = g
  BY <1>1, <1>9, StoreViewNext
<1>11. \A fd \in Fildes : fildes[fd].used => fd # i
  <2>1. SUFFICES ASSUME NEW fd \in Fildes, fildes[fd].used, fd = i PROVE FALSE
    OBVIOUS
  <2>2. DIR[i].ref_cnt = 1
    BY <1>1, <2>1 DEF StoreInv, Counted
  <2>. QED
    BY <1>1, <2>2
<1>12. Opened' = Opened
  <2>1. \A fd \in Fildes : fildes[fd].used => DIR'[fildes[fd].file] = DIR[fildes[fd].file]
    BY <1>1, <1>4, <1>11, FSAssumption DEF StoreInv, Matched, Fildes, Slots
  <2>2. OpenIn(DIR', fildes) = OpenIn(DIR, fildes)
    BY <2>1 DEF OpenIn
  <2>. QED
    BY <1>1, <2>2, StoreView, StoreViewNext
<1>13. ~Store!IsOpen(n)
  <2>1. SUFFICES ASSUME NEW fd \in DOMAIN Opened, Opened[fd].name = n PROVE FALSE
    BY DEF Store!IsOpen
  <2>2. fd \in Fildes /\ fildes[fd].used /\ Opened[fd].name = DIR[fd].name
        /\ fd \in Slots /\ DIR[fd].used
    BY <1>1, <2>1, FSAssumption DEF Opened, Entry, StoreInv, Matched, Fildes, Slots
  <2>. QED
    BY <1>1, <1>3, <1>11, <2>1, <2>2 DEF WellNamed
<1>14. Saved' = Saved /\ Formatted' = Formatted
  BY <1>1, SavedSame
<1>15. n \in DOMAIN Files
  BY <1>1, <1>3, <1>5
<1>. QED
  BY <1>1, <1>2, <1>10, <1>12, <1>13, <1>14, <1>15 DEF Store!Delete, Store!Returns, Returns, g

LEMMA OpenImplements ==
  ASSUME StoreInv, StoreInv', ProperClients, NEW n \in Names, fs_open(n)
  PROVE  Store!Open(n)
<1>. DEFINE i == First(ClosedFds)
            e == [DIR[i] EXCEPT !.ref_cnt = IF @ > 0 THEN @ + 1 ELSE 1]
            v == [used |-> TRUE, file |-> i, offset |-> 0]
            g == Store!With(Opened, i, [name |-> n, offset |-> 0])
<1>1. /\ i \in Fildes /\ i \in Slots /\ i \in Nat /\ mounted /\ ClosedFds # {} /\ DIR[i].name = n
      /\ fildes' = [fildes EXCEPT ![i] = v]
      /\ DIR' = [DIR EXCEPT ![i] = e]
      /\ UNCHANGED <<mounted, disk, touched>>
      /\ out' = [ret |-> i, data |-> <<>>]
  BY FirstSlot DEF fs_open, Openable, diskVars, ProperClients, Keeping, Fildes, Returns
<1>2. ~fildes[i].used
  <2>1. ClosedFds \in SUBSET Nat
    BY DEF ClosedFds, Fildes
  <2>2. First(ClosedFds) \in ClosedFds
    BY <1>1, <2>1, FirstIsLeast
  <2>. QED
    BY <2>2 DEF ClosedFds
<1>3. /\ DIR \in [Slots -> Entries] /\ WellNamed(DIR) /\ WellNamed(DIR') /\ n # Empty
      /\ DIR[i].used /\ Fildes \subseteq Slots
      /\ fildes \in [Fildes -> [used : BOOLEAN, file : Slots, offset : Nat]]
  BY <1>1, FSAssumption DEF StoreInv, Inv, DirOK, FdsOK, ProperClients, WellNamed, Fildes, Slots
<1>4. /\ e.used = DIR[i].used /\ e.head = DIR[i].head /\ e.name = DIR[i].name /\ e.size = DIR[i].size
      /\ v.used /\ v.file = i /\ v.offset = 0
  BY <1>1, <1>3 DEF Entries
<1>. HIDE DEF i, e, v
<1>5. /\ DIR'[i] = e /\ \A j \in Slots : j # i => DIR'[j] = DIR[j]
      /\ fildes'[i] = v /\ \A j \in Fildes : j # i => fildes'[j] = fildes[j]
  BY <1>1, <1>3
<1>6. \A j \in Slots : /\ DIR'[j].used = DIR[j].used /\ DIR'[j].name = DIR[j].name
                       /\ ContentIn(disk, DIR'[j]) = ContentIn(disk, DIR[j])
  BY <1>4, <1>5 DEF ContentIn
<1>7. Files' = Files
  <2>1. FilesIn(disk, DIR') = FilesIn(disk, DIR)
    BY <1>3, <1>6, SameFiles
  <2>. QED
    BY <1>1, <2>1, StoreView, StoreViewNext
<1>8. Opened' = g
  <2>1. /\ Opened = OpenIn(DIR, fildes) /\ Opened' = OpenIn(DIR', fildes')
    BY <1>1, StoreView, StoreViewNext
  <2>. DEFINE S == {j \in Fildes : fildes[j].used}
              T == {j \in Fildes : fildes'[j].used}
  <2>2. T = S \cup {i}
    BY <1>1, <1>4, <1>5
  <2>3. i \notin S
    BY <1>2
  <2>4. \A j \in S : fildes[j].file = j /\ j # i /\ j \in Slots /\ j \in Fildes
    BY <1>2, <1>3 DEF StoreInv, Matched
  <2>5. ASSUME NEW j \in T
        PROVE  [name |-> DIR'[fildes'[j].file].name, offset |-> fildes'[j].offset]
               = IF j = i THEN [name |-> n, offset |-> 0]
                 ELSE [name |-> DIR[fildes[j].file].name, offset |-> fildes[j].offset]
    <3>1. CASE j = i
      BY <1>1, <1>4, <1>5, <3>1
    <3>2. CASE j # i
      BY <1>5, <2>2, <2>4, <3>2
    <3>. QED
      BY <3>1, <3>2
  <2>6. g = [j \in S \cup {i} |-> IF j = i THEN [name |-> n, offset |-> 0]
             ELSE [name |-> DIR[fildes[j].file].name, offset |-> fildes[j].offset]]
    BY <2>1, <2>3 DEF Store!With, OpenIn
  <2>7. OpenIn(DIR', fildes') =
          [j \in T |-> [name |-> DIR'[fildes'[j].file].name, offset |-> fildes'[j].offset]]
    BY DEF OpenIn
  <2>. HIDE DEF S, T
  <2>. QED
    BY <2>1, <2>2, <2>5, <2>6, <2>7
<1>9. i \notin DOMAIN Opened
  BY <1>2 DEF Opened
<1>10. Saved' = Saved /\ Formatted' = Formatted
  BY <1>1, SavedSame
<1>11. n \in DOMAIN Files
  BY <1>1, <1>3, SlotFacts
<1>12. out'.ret = i /\ out'.data = <<>> /\ i >= 0
  BY <1>1
<1>. QED
  BY <1>1, <1>7, <1>8, <1>9, <1>10, <1>11, <1>12 DEF Store!Open, g

LEMMA NameCallImplements ==
  ASSUME StoreInv, StoreInv', ProperClients, NEW n \in Names, NameCall(n)
  PROVE  Store!Next
<1>1. CASE fs_create(n)
  BY <1>1, CreateImplements DEF Store!Next
<1>2. CASE fs_delete(n)
  BY <1>2, DeleteImplements DEF Store!Next
<1>3. CASE fs_open(n)
  BY <1>3, OpenImplements DEF Store!Next
<1>4. CASE fs_create_Refused(n) \/ fs_open_Refused(n) \/ fs_delete_Refused(n)
  BY <1>4, RefusedStep DEF fs_create_Refused, fs_open_Refused, fs_delete_Refused, Store!Next
<1>. QED
  BY <1>1, <1>2, <1>3, <1>4 DEF NameCall

(* A descriptor moves.                                                     *)
LEMMA MovedOpen ==
  ASSUME StoreInv, NEW fd, Usable(fd), NEW o, UNCHANGED mounted,
         \A i \in Slots : DIR'[i].name = DIR[i].name,
         fildes' = [fildes EXCEPT ![fd].offset = o]
  PROVE  Store!Moved(fd, o)
<1>1. /\ fd \in Fildes /\ mounted /\ fildes[fd].file = fd
      /\ fildes \in [Fildes -> [used : BOOLEAN, file : Slots, offset : Nat]]
  BY FdFacts DEF StoreInv, Inv, FdsOK
<1>. DEFINE g == [fildes[fd] EXCEPT !.offset = o]
            S == {j \in Fildes : fildes[j].used}
            N(j) == DIR[fildes[j].file].name
            a == [name |-> N(fd), offset |-> o]
<1>2. g.used = fildes[fd].used /\ g.file = fildes[fd].file /\ g.offset = o
  BY <1>1
<1>3. fildes' = [fildes EXCEPT ![fd] = g]
  OBVIOUS
<1>. HIDE DEF g
<1>4. fildes'[fd] = g /\ \A j \in Fildes : j # fd => fildes'[j] = fildes[j]
  BY <1>1, <1>3
<1>5. {j \in Fildes : fildes'[j].used} = S
  BY <1>1, <1>2, <1>4
<1>6. \A j \in Fildes : DIR'[fildes'[j].file].name = N(j)
  BY <1>1, <1>2, <1>4
<1>7. Opened = OpenIn(DIR, fildes) /\ Opened' = OpenIn(DIR', fildes')
  BY <1>1, StoreView, StoreViewNext
<1>8. fd \in S /\ S \subseteq Fildes
  BY <1>1 DEF Usable
<1>9. /\ Opened = [j \in S |-> [name |-> N(j), offset |-> fildes[j].offset]]
      /\ Opened' = [j \in S |-> [name |-> N(j), offset |-> fildes'[j].offset]]
  <2>1. Opened' = [j \in S |-> [name |-> DIR'[fildes'[j].file].name, offset |-> fildes'[j].offset]]
    BY <1>5, <1>7 DEF OpenIn
  <2>2. Opened = [j \in S |-> [name |-> N(j), offset |-> fildes[j].offset]]
    BY <1>7 DEF OpenIn
  <2>. HIDE DEF S, N
  <2>. QED
    BY <1>6, <1>8, <2>1, <2>2
<1>. HIDE DEF S, N
<1>10. [Opened[fd] EXCEPT !.offset = o] = a
  BY <1>8, <1>9
<1>11. [Opened EXCEPT ![fd].offset = o] = [Opened EXCEPT ![fd] = a]
  BY <1>10
<1>12. Opened'[fd] = a
  BY <1>2, <1>4, <1>8, <1>9
<1>. HIDE DEF a
<1>13. \A j \in S : j # fd => Opened'[j] = Opened[j]
  BY <1>4, <1>8, <1>9
<1>14. Opened = [j \in S |-> Opened[j]] /\ Opened' = [j \in S |-> Opened'[j]]
  BY <1>9
<1>15. Opened' = [Opened EXCEPT ![fd] = a]
  BY <1>8, <1>12, <1>13, <1>14
<1>. QED
  BY <1>11, <1>15 DEF Store!Moved

(* A call on a descriptor that does nothing else.                          *)
LEMMA MovedStep ==
  ASSUME StoreInv, NEW fd, Usable(fd), NEW o, UNCHANGED <<mounted, DIR, disk>>,
         fildes' = [fildes EXCEPT ![fd].offset = o]
  PROVE  /\ Files' = Files /\ Saved' = Saved /\ Formatted' = Formatted
         /\ Store!Moved(fd, o)
<1>1. Files' = Files
  BY StoreView, StoreViewNext
<1>. QED
  BY <1>1, MovedOpen, SavedSame

LEMMA CloseImplements ==
  ASSUME StoreInv, StoreInv', NEW fd, fs_close(fd)
  PROVE  Store!Close(fd)
<1>. DEFINE e == [DIR[fd] EXCEPT !.ref_cnt = @ - 1]
            g == [fildes[fd] EXCEPT !.used = (DIR[fd].ref_cnt - 1 # 0)]
            S == {j \in Fildes : fildes[j].used}
<1>0. /\ DIR \in [Slots -> Entries] /\ WellNamed(DIR) /\ WellNamed(DIR') /\ Fildes \subseteq Slots
      /\ fildes \in [Fildes -> [used : BOOLEAN, file : Slots, offset : Nat]]
  BY FSAssumption DEF StoreInv, Inv, DirOK, FdsOK, Fildes, Slots
<1>1. /\ Usable(fd) /\ fd \in Fildes /\ mounted /\ Entry(fd) = DIR[fd] /\ fildes[fd].file = fd
      /\ DIR' = [DIR EXCEPT ![fd] = e] /\ fildes' = [fildes EXCEPT ![fd] = g]
      /\ UNCHANGED <<mounted, disk, touched>> /\ Returns(0)
  BY DEF fs_close, Usable, Matched, StoreInv, Entry, diskVars
<1>2. DIR[fd].ref_cnt = 1
  BY <1>1 DEF Usable, Counted, StoreInv
<1>3. ~g.used
  <2>1. g.used = (DIR[fd].ref_cnt - 1 # 0)
    BY <1>0, <1>1
  <2>2. DIR[fd].ref_cnt - 1 = 0
    BY <1>2
  <2>. HIDE DEF g
  <2>. QED
    BY <2>1, <2>2
<1>4. /\ e.used = DIR[fd].used /\ e.head = DIR[fd].head /\ e.name = DIR[fd].name
      /\ e.size = DIR[fd].size
  BY <1>0, <1>1 DEF Entries
<1>. HIDE DEF e, g
<1>5. /\ DIR'[fd] = e /\ fildes'[fd] = g /\ \A j \in Slots : j # fd => DIR'[j] = DIR[j]
      /\ \A j \in Fildes : j # fd => fildes'[j] = fildes[j]
  BY <1>0, <1>1
<1>6. Files' = Files
  <2>1. \A j \in Slots : /\ DIR'[j].used = DIR[j].used /\ DIR'[j].name = DIR[j].name
                         /\ ContentIn(disk, DIR'[j]) = ContentIn(disk, DIR[j])
    BY <1>4, <1>5 DEF ContentIn
  <2>2. FilesIn(disk, DIR') = FilesIn(disk, DIR)
    BY <1>0, <2>1, SameFiles
  <2>. QED
    BY <1>1, <2>2, StoreView, StoreViewNext
<1>7. Opened' = Store!Without(Opened, fd)
  <2>1. {j \in Fildes : fildes'[j].used} = S \ {fd}
    BY <1>1, <1>3, <1>5
  <2>2. \A j \in S \ {fd} : fildes'[j] = fildes[j] /\ DIR'[fildes[j].file] = DIR[fildes[j].file]
    BY <1>0, <1>5 DEF StoreInv, Matched
  <2>3. Opened = OpenIn(DIR, fildes) /\ Opened' = OpenIn(DIR', fildes')
    BY <1>1, StoreView, StoreViewNext
  <2>4. /\ Opened = [j \in S |-> [name |-> DIR[fildes[j].file].name, offset |-> fildes[j].offset]]
        /\ Opened' = [j \in S \ {fd} |->
             [name |-> DIR'[fildes'[j].file].name, offset |-> fildes'[j].offset]]
    BY <2>1, <2>3 DEF OpenIn
  <2>. HIDE DEF S
  <2>. QED
    BY <2>2, <2>4 DEF Store!Without, Store!Restrict
<1>. QED
  BY <1>1, <1>6, <1>7, SavedSame DEF Store!Close, Store!Returns, Returns

LEMMA SeekImplements ==
  ASSUME StoreInv, NEW fd, NEW o \in Offsets, fs_lseek(fd, o)
  PROVE  Store!Seek(fd)
<1>1. /\ Usable(fd) /\ o <= Entry(fd).size /\ fildes' = [fildes EXCEPT ![fd].offset = o]
      /\ Returns(0) /\ UNCHANGED <<mounted, DIR, disk, touched>>
  BY DEF fs_lseek, diskVars
<1>2. /\ Files' = Files /\ Saved' = Saved /\ Formatted' = Formatted /\ Store!Moved(fd, o)
  BY <1>1, MovedStep
<1>3. Len(Store!Content(fd)) = Entry(fd).size /\ Entry(fd).size \in Nat /\ o \in Nat
  BY <1>1, FdFacts, SlotFacts, FSAssumption
<1>4. o \in 0..Len(Store!Content(fd))
  BY <1>1, <1>3
<1>. QED
  BY <1>1, <1>2, <1>4 DEF Store!Seek, Store!Returns, Returns

LEMMA SizeImplements ==
  ASSUME StoreInv, NEW fd, fs_get_filesize(fd)
  PROVE  Store!Size(fd)
<1>1. Usable(fd) /\ Returns(Entry(fd).size) /\ UNCHANGED <<mounted, DIR, fildes, disk, touched>>
  BY DEF fs_get_filesize, memVars, diskVars
<1>2. Len(Store!Content(fd)) = Entry(fd).size
  BY <1>1, FdFacts, SlotFacts
<1>3. Files' = Files /\ Opened' = Opened /\ Saved' = Saved /\ Formatted' = Formatted
  BY <1>1, Quiet
<1>. QED
  BY <1>1, <1>2, <1>3 DEF Store!Size, Store!Returns, Returns, Store!memory

(* A part of a file, as read unit by unit.                                 *)
LEMMA PartIs ==
  ASSUME NEW C \in Seq(Units), NEW o \in Nat, NEW n \in Nat, o + n <= Len(C),
         NEW f, f = [i \in 1..n |-> f[i]], \A i \in 1..n : f[i] = C[o + i]
  PROVE  /\ SubSeq(C, o + 1, o + n) = f /\ Len(f) = n
<1>1. \A i \in 1..n : f[i] \in Units
  OBVIOUS
<1>2. f \in Seq(Units) /\ Len(f) = n
  <2>1. f \in [1..n -> Units]
    BY <1>1
  <2>2. f \in Seq(Units)
    BY <2>1, SequencesOf
  <2>. QED
    BY <2>1, <2>2
<1>. DEFINE a == o + 1
            b == o + n
            s == SubSeq(C, a, b)
<1>3. a \in Nat /\ b \in Nat /\ a >= 1 /\ b <= Len(C) /\ a = o + 1 /\ b = o + n
  OBVIOUS
<1>. HIDE DEF a, b
<1>4. /\ s \in Seq(Units) /\ Len(s) = IF a <= b THEN b - a + 1 ELSE 0
      /\ \A i \in 1..(b - a + 1) : s[i] = C[a + i - 1]
  BY <1>3, Contained
<1>. HIDE DEF s
<1>5. b - a + 1 = n /\ Len(s) = n /\ \A i \in 1..n : a + i - 1 = o + i
  <2>1. b - a + 1 = n /\ (a <= b <=> n > 0)
    BY <1>3
  <2>2. \A i \in 1..n : a + i - 1 = o + i
    BY <1>3
  <2>3. Len(s) = IF n > 0 THEN n ELSE 0
    BY <1>4, <2>1
  <2>. QED
    BY <2>1, <2>2, <2>3
<1>6. \A i \in 1..n : s[i] = C[o + i]
  BY <1>4, <1>5
<1>7. s = f
  BY <1>2, <1>4, <1>5, <1>6, SeqEqual
<1>. QED
  BY <1>2, <1>7 DEF s, a, b

LEMMA ReadImplements ==
  ASSUME StoreInv, NEW fd, NEW nbyte \in Lengths, fs_read(fd, nbyte)
  PROVE  Store!Read(fd) \/ Store!Refuse
<1>. DEFINE o == fildes[fd].offset
            s == DIR[fd].size
            n == Minimum(nbyte, s - o)
            way == Path(FAT, DIR[fd].head, (o + n - 1) \div BLOCK_SIZE)
            f == [i \in 1..n |-> UnitsOf(way[(o + i - 1) \div BLOCK_SIZE])
                                        [((o + i - 1) % BLOCK_SIZE) + 1]]
            C == Store!Content(fd)
<1>1. /\ Usable(fd) /\ ~Past(fd) /\ UNCHANGED <<mounted, DIR, disk, touched>>
  BY DEF fs_read, diskVars
<1>2. /\ fd \in Fildes /\ fd \in Slots /\ DIR[fd].used /\ Entry(fd) = DIR[fd] /\ mounted
      /\ o \in Nat /\ fd \in DOMAIN Opened /\ Opened[fd].offset = o /\ C = ContentIn(disk, DIR[fd])
  BY <1>1, FdFacts
<1>3. /\ s \in 0..BLOCK_SIZE /\ C \in Seq(Units) /\ Len(C) = s
      /\ \A j \in 1..s : C[j] = UnitsIn(disk, DIR[fd].head)[j]
  BY <1>2, SlotFacts
<1>4. o <= s /\ n > 0
  <2>1. n > 0
    BY <1>2 DEF fs_read
  <2>. HIDE DEF n
  <2>. QED
    BY <1>1, <1>2, <1>3, <2>1, FSAssumption DEF Past
<1>5. \/ Reads(f) /\ fildes' = [fildes EXCEPT ![fd].offset = @ + n]
      \/ Returns(-1) /\ UNCHANGED fildes
  BY <1>2 DEF fs_read
<1>6. n \in Nat /\ o + n <= s /\ BLOCK_SIZE \in Nat \ {0} /\ s <= BLOCK_SIZE /\ s \in Nat
  BY <1>2, <1>3, <1>4, FSAssumption DEF Minimum
<1>7. \A i \in 1..n : f[i] = C[o + i]
  <2>1. SUFFICES ASSUME NEW i \in 1..n PROVE f[i] = C[o + i]
    OBVIOUS
  <2>2. f[i] = UnitsOf(way[(o + i - 1) \div BLOCK_SIZE])[((o + i - 1) % BLOCK_SIZE) + 1]
    OBVIOUS
  <2>3. way[0] = DIR[fd].head
    <3>1. (o + n - 1) \div BLOCK_SIZE \in Nat
      <4>. HIDE DEF n, o
      <4>1. o + n - 1 \in Nat
        BY <1>2, <1>4, <1>6
      <4>. QED
        BY <1>6, <4>1
    <3>. HIDE DEF n, o
    <3>. QED
      BY <3>1, PathShort
  <2>. HIDE DEF f, way, n, o, s, C
  <2>4. (o + i - 1) \div BLOCK_SIZE = 0 /\ ((o + i - 1) % BLOCK_SIZE) + 1 = o + i
    <3>1. o + i - 1 \in 0..(BLOCK_SIZE - 1)
      BY <1>2, <1>6
    <3>2. \A x \in 0..(BLOCK_SIZE - 1) : x \div BLOCK_SIZE = 0 /\ x % BLOCK_SIZE = x
      BY <1>6
    <3>3. ((o + i - 1) % BLOCK_SIZE) + 1 = (o + i - 1) + 1 /\ (o + i - 1) \div BLOCK_SIZE = 0
      BY <3>1, <3>2
    <3>. QED
      BY <1>2, <3>3
  <2>5. f[i] = UnitsOf(DIR[fd].head)[o + i]
    BY <2>2, <2>3, <2>4
  <2>6. o + i \in 1..s
    BY <1>2, <1>6
  <2>7. UnitsOf(DIR[fd].head) = UnitsIn(disk, DIR[fd].head)
    BY DEF UnitsOf, UnitsIn
  <2>. QED
    BY <1>3, <2>5, <2>6, <2>7
<1>8. f = [i \in 1..n |-> f[i]]
  OBVIOUS
<1>. HIDE DEF f, C, n, o, s
<1>9. SubSeq(C, o + 1, o + n) = f /\ Len(f) = n
  BY <1>2, <1>3, <1>6, <1>7, <1>8, PartIs
<1>10. CASE Reads(f) /\ fildes' = [fildes EXCEPT ![fd].offset = @ + n]
  <2>1. fildes' = [fildes EXCEPT ![fd].offset = o + n]
    BY <1>10 DEF o
  <2>2. Files' = Files /\ Saved' = Saved /\ Formatted' = Formatted /\ Store!Moved(fd, o + n)
    BY <1>1, <2>1, MovedStep
  <2>3. o + n \in o..Len(C) /\ o <= Len(C)
    BY <1>2, <1>3, <1>4, <1>6
  <2>4. Store!Reads(SubSeq(C, o + 1, o + n))
    BY <1>9, <1>10 DEF Reads, Store!Reads
  <2>5. Opened[fd].offset <= Len(Store!Content(fd))
    BY <1>2, <2>3 DEF C
  <2>6. o + n \in Opened[fd].offset..Len(Store!Content(fd))
    BY <1>2, <2>3 DEF C
  <2>7. Store!Reads(SubSeq(Store!Content(fd), Opened[fd].offset + 1, o + n))
    BY <1>2, <2>4 DEF C
  <2>. QED
    BY <1>1, <2>2, <2>5, <2>6, <2>7 DEF Store!Read
<1>11. CASE Returns(-1) /\ UNCHANGED fildes
  BY <1>1, <1>11, Quiet, RefuseStep
<1>. QED
  BY <1>5, <1>10, <1>11

LEMMA NothingImplements ==
  ASSUME StoreInv, NEW fd, NEW nbyte \in Lengths, fs_read_Nothing(fd, nbyte)
  PROVE  Store!Read(fd)
<1>. DEFINE o == fildes[fd].offset
            C == Store!Content(fd)
<1>1. /\ Usable(fd) /\ ~Past(fd) /\ UNCHANGED <<mounted, DIR, fildes, disk, touched>> /\ Returns(0)
  BY DEF fs_read_Nothing, memVars, diskVars
<1>2. /\ Entry(fd) = DIR[fd] /\ o \in Nat /\ Opened[fd].offset = o /\ C = ContentIn(disk, DIR[fd])
      /\ DIR[fd].size \in Nat /\ C \in Seq(Units) /\ Len(C) = DIR[fd].size /\ fd \in DOMAIN Opened
  BY <1>1, FdFacts, SlotFacts, FSAssumption
<1>3. fildes' = [fildes EXCEPT ![fd].offset = o]
  <2>1. /\ fd \in Fildes /\ fildes \in [Fildes -> [used : BOOLEAN, file : Slots, offset : Nat]]
    BY <1>1, FdFacts DEF StoreInv, Inv, FdsOK
  <2>2. [fildes EXCEPT ![fd].offset = o] = fildes
    BY <2>1
  <2>. QED
    BY <1>1, <2>2
<1>4. Files' = Files /\ Saved' = Saved /\ Formatted' = Formatted /\ Store!Moved(fd, o)
  BY <1>1, <1>3, MovedStep
<1>. HIDE DEF o, C
<1>5. o <= Len(C)
  BY <1>1, <1>2 DEF Past, o
<1>6. SubSeq(C, o + 1, o) = <<>>
  BY <1>2, SubSeqEmpty
<1>7. Store!Reads(SubSeq(C, o + 1, o))
  <2>1. Len(<<>>) = 0
    OBVIOUS
  <2>. QED
    BY <1>1, <1>6, <2>1 DEF Returns, Store!Reads
<1>8. /\ Opened[fd].offset <= Len(Store!Content(fd)) /\ o \in Opened[fd].offset..Len(Store!Content(fd))
      /\ Store!Reads(SubSeq(Store!Content(fd), Opened[fd].offset + 1, o))
  BY <1>2, <1>5, <1>7 DEF C
<1>. QED
  BY <1>1, <1>4, <1>8 DEF Store!Read

-----------------------------------------------------------------------------
(* The calls that change a file.                                           *)

(* What the slot of an open file becomes is what the file becomes.         *)
LEMMA ChangedFiles ==
  ASSUME StoreInv, StoreInv', NEW fd, Usable(fd), UNCHANGED mounted,
         \A i \in Slots : DIR'[i].used = DIR[i].used /\ DIR'[i].name = DIR[i].name,
         \A i \in Slots : i # fd /\ DIR[i].used =>
           ContentIn(disk', DIR'[i]) = ContentIn(disk, DIR[i])
  PROVE  Files' = [Files EXCEPT ![DIR[fd].name] = ContentIn(disk', DIR'[fd])]
<1>. DEFINE f == FilesIn(disk, DIR)
            c == ContentIn(disk', DIR'[fd])
            g == [f EXCEPT ![DIR[fd].name] = c]
<1>1. /\ mounted /\ mounted' /\ WellNamed(DIR) /\ WellNamed(DIR') /\ fd \in Slots /\ DIR[fd].used
  BY FdFacts DEF StoreInv, Inv, DirOK
<1>2. /\ Files = f
      /\ f = [k \in DOMAIN f |-> f[k]]
      /\ \A k \in DOMAIN f : \E j \in Slots : DIR[j].used /\ DIR[j].name = k
      /\ \A j \in Slots : DIR[j].used => /\ DIR[j].name \in DOMAIN f
                                         /\ f[DIR[j].name] = ContentIn(disk, DIR[j])
  BY <1>1, FilesAre, StoreView
<1>. HIDE DEF f, c
<1>3. /\ DOMAIN g = DOMAIN f /\ g = [k \in DOMAIN g |-> g[k]] /\ g[DIR[fd].name] = c
      /\ \A k \in DOMAIN f : k # DIR[fd].name => g[k] = f[k]
  BY <1>1, <1>2
<1>. HIDE DEF g
<1>4. \A k \in DOMAIN g : \E j \in Slots : DIR'[j].used /\ DIR'[j].name = k
  BY <1>2, <1>3
<1>5. ASSUME NEW j \in Slots, DIR'[j].used
      PROVE  DIR'[j].name \in DOMAIN g /\ g[DIR'[j].name] = ContentIn(disk', DIR'[j])
  <2>1. DIR[j].used /\ DIR'[j].name = DIR[j].name /\ DIR[j].name \in DOMAIN f
        /\ f[DIR[j].name] = ContentIn(disk, DIR[j])
    BY <1>2, <1>5
  <2>2. CASE j = fd
    BY <1>3, <2>1, <2>2 DEF c
  <2>3. CASE j # fd
    <3>1. DIR[j].name # DIR[fd].name
      BY <1>1, <2>1, <2>3 DEF WellNamed
    <3>. QED
      BY <1>3, <2>1, <2>3, <3>1
  <2>. QED
    BY <2>2, <2>3
<1>6. FilesIn(disk', DIR') = g
  BY <1>1, <1>3, <1>4, <1>5, FilesEqual
<1>. QED
  BY <1>1, <1>2, <1>6, StoreViewNext DEF g, c

(* What is saved, when nobody writes it, is undamaged.                     *)
LEMMA NoDamage ==
  ASSUME \A b \in Blocks : disk'[b] = disk[b]
  PROVE  /\ \A S : Store!Damaged(S)
         /\ Formatted' = Formatted
  BY SavedSame DEF Store!Damaged

LEMMA TruncateImplements ==
  ASSUME StoreInv, StoreInv', ProperClients, NEW fd, NEW length \in Offsets,
         fs_truncate(fd, length)
  PROVE  Store!Truncate(fd)
<1>. DEFINE e == [DIR[fd] EXCEPT !.size = length]
            C == Store!Content(fd)
            m == DIR[fd].name
<1>0. /\ DIR \in [Slots -> Entries] /\ DataOK(disk)
  BY DEF StoreInv, Inv, DirOK, Typed
<1>1. /\ Usable(fd) /\ length <= Entry(fd).size /\ length > 0 /\ Touching(fd)
      /\ UNCHANGED <<mounted, fildes, disk>>
  BY DEF fs_truncate, Keeping, ProperClients, diskVars
<1>2. /\ fd \in Fildes /\ fd \in Slots /\ DIR[fd].used /\ Entry(fd) = DIR[fd] /\ mounted
      /\ fildes[fd].file = fd /\ Opened[fd].name = m /\ C = ContentIn(disk, DIR[fd])
  BY <1>1, FdFacts
<1>3. /\ DIR[fd].size \in 0..BLOCK_SIZE /\ length \in Nat /\ BLOCK_SIZE \in Nat
      /\ C \in Seq(Units) /\ Len(C) = DIR[fd].size
      /\ \A j \in 1..DIR[fd].size : C[j] = UnitsIn(disk, DIR[fd].head)[j]
  BY <1>2, SlotFacts, FSAssumption
<1>4. Returns(0) /\ DIR' = [DIR EXCEPT ![fd] = e]
  <2>1. status' = "ok"
    BY <1>1, <1>2 DEF StoreInv, OwnInv
  <2>. QED
    BY <1>2, <2>1 DEF fs_truncate, ReleaseFrom, Ends
<1>5. e.used = DIR[fd].used /\ e.head = DIR[fd].head /\ e.name = DIR[fd].name /\ e.size = length
  BY <1>0, <1>2 DEF Entries
<1>. HIDE DEF e, C, m
<1>6. DIR'[fd] = e /\ \A j \in Slots : j # fd => DIR'[j] = DIR[j]
  BY <1>0, <1>2, <1>4
<1>7. ContentIn(disk, e) = SubSeq(C, 1, length)
  <2>1. e.size \in 0..BLOCK_SIZE
    BY <1>1, <1>2, <1>3, <1>5
  <2>2. /\ ContentIn(disk, e) \in Seq(Units) /\ Len(ContentIn(disk, e)) = length
        /\ \A i \in 1..length : ContentIn(disk, e)[i] = UnitsIn(disk, DIR[fd].head)[i]
    BY <1>0, <1>5, <2>1, ContentIs
  <2>. DEFINE D == ContentIn(disk, e)
  <2>. HIDE DEF D
  <2>3. /\ D \in Seq(Units) /\ Len(D) = length
        /\ \A i \in 1..length : D[i] = UnitsIn(disk, DIR[fd].head)[i]
    BY <2>2 DEF D
  <2>4. D = [i \in 1..length |-> D[i]] /\ \A i \in 1..length : D[i] = C[0 + i]
    BY <1>1, <1>2, <1>3, <2>3
  <2>5. 0 + length <= Len(C) /\ 0 \in Nat /\ 0 + 1 = 1 /\ 0 + length = length
    BY <1>1, <1>2, <1>3
  <2>6. SubSeq(C, 0 + 1, 0 + length) = D
    BY <1>3, <2>4, <2>5, PartIs
  <2>. QED
    BY <2>5, <2>6 DEF D
<1>8. Files' = [Files EXCEPT ![m] = SubSeq(C, 1, length)]
  <2>1. \A i \in Slots : DIR'[i].used = DIR[i].used /\ DIR'[i].name = DIR[i].name
    BY <1>5, <1>6
  <2>2. \A i \in Slots : i # fd /\ DIR[i].used =>
          ContentIn(disk', DIR'[i]) = ContentIn(disk, DIR[i])
    BY <1>1, <1>6
  <2>3. Files' = [Files EXCEPT ![DIR[fd].name] = ContentIn(disk', DIR'[fd])]
    BY <1>1, <2>1, <2>2, ChangedFiles
  <2>. QED
    BY <1>1, <1>6, <1>7, <2>3 DEF m
<1>9. Opened' = Opened
  <2>1. \A j \in Fildes : fildes[j].used => DIR'[fildes[j].file].name = DIR[fildes[j].file].name
    BY <1>2, <1>5, <1>6, FSAssumption DEF StoreInv, Matched, Fildes, Slots
  <2>2. OpenIn(DIR', fildes) = OpenIn(DIR, fildes)
    BY <2>1 DEF OpenIn
  <2>. QED
    BY <1>1, <1>2, <2>2, StoreView, StoreViewNext
<1>10. touched' = touched \cup {m}
  BY <1>1, <1>2 DEF Touching, m
<1>11. Store!Changed(fd, SubSeq(C, 1, length))
  <2>1. Store!Damaged(touched') /\ Formatted' = Formatted
    BY <1>1, NoDamage
  <2>. QED
    BY <1>1, <1>2, <1>8, <1>10, <2>1 DEF Store!Changed
<1>12. length \in 0..Len(C)
  BY <1>1, <1>2, <1>3
<1>13. \E k \in 0..Len(Store!Content(fd)) : Store!Changed(fd, SubSeq(Store!Content(fd), 1, k))
  BY <1>11, <1>12 DEF C
<1>. QED
  BY <1>4, <1>9, <1>13 DEF Store!Truncate, Store!Returns, Returns

(* A file whose block is not written is what it was.                       *)
LEMMA ContentKept ==
  ASSUME NEW h, \A b \in Blocks : b # h => disk'[b] = disk[b],
         NEW e, e.size # 0 => e.head \in Home /\ e.head # h
  PROVE  ContentIn(disk', e) = ContentIn(disk, e)
<1>1. CASE e.size = 0
  BY <1>1 DEF ContentIn
<1>2. CASE e.size # 0
  <2>1. e.head \in Blocks /\ e.head # h
    BY <1>2, HomeIsData
  <2>2. UnitsIn(disk', e.head) = UnitsIn(disk, e.head)
    BY <2>1 DEF UnitsIn
  <2>. QED
    BY <1>2, <2>2 DEF ContentIn
<1>. QED
  BY <1>1, <1>2

(* A write damages a saved file only if its block has changed hands, and   *)
(* then its name is among those touched.                                   *)
LEMMA WriteDamage ==
  ASSUME StoreInv, StoreInv', NEW fd, NEW buf \in Buffers, NEW h, NEW base,
         Usable(fd), Touching(fd), Wrote(fd, buf, h, base), UNCHANGED mounted
  PROVE  Store!Damaged(touched') /\ Formatted' = Formatted
<1>. DEFINE d == disk[dir_idx].dir
            S == FilesIn(disk, d)
            T == FilesIn(disk', d)
<1>1. /\ h \in Home /\ \A b \in Blocks : b # h => disk'[b] = disk[b]
      /\ \A i \in Slots : i # fd /\ DIR[i].used => DIR[i].head # h
  BY DEF Wrote
<1>2. /\ mounted /\ fd \in Slots /\ Entry(fd) = DIR[fd] /\ touched' = touched \cup {DIR[fd].name}
  BY FdFacts DEF Touching
<1>3. Formatted /\ Formatted' = Formatted /\ disk'[dir_idx] = disk[dir_idx]
  BY <1>1, <1>2, TablesStay DEF StoreInv, SavedKept
<1>4. Saved = S /\ Saved' = T
  BY <1>3, StoreView, StoreViewNext
<1>5. WellNamed(d) /\ d \in [Slots -> Entries] /\ DataOK(disk) /\ DataOK(disk')
  BY <1>3 DEF StoreInv, Inv, DiskOK, DirBlockOK, DirOK, Formatted, Typed
<1>6. \A i \in Slots : d[i].used =>
        d[i].size \in 0..BLOCK_SIZE /\ (d[i].size # 0 => d[i].head \in Home)
  <2>1. SUFFICES ASSUME NEW i \in Slots, d[i].used
                 PROVE  d[i].size \in 0..BLOCK_SIZE /\ (d[i].size # 0 => d[i].head \in Home)
    OBVIOUS
  <2>2. EntrySound(disk[fat_idx].fat, d[i]) /\ d[i].size \in Nat
    BY <1>3, <1>5, <2>1 DEF StoreInv, OwnInv, SavedOwned, Owned, Formatted, Entries
  <2>. HIDE DEF d
  <2>. QED
    BY <2>2, FSAssumption DEF EntrySound
<1>7. \A i \in Slots : d[i].used /\ d[i].name \notin touched =>
        DIR[i].used /\ DIR[i].name = d[i].name /\ DIR[i].head = d[i].head
  BY <1>2 DEF StoreInv, SavedKept
<1>8. DOMAIN T = DOMAIN S
  BY DEF FilesIn
<1>. HIDE DEF d
<1>9. /\ \A n \in DOMAIN S : \E i \in Slots : d[i].used /\ d[i].name = n
      /\ \A i \in Slots : d[i].used => S[d[i].name] = ContentIn(disk, d[i])
      /\ \A i \in Slots : d[i].used => T[d[i].name] = ContentIn(disk', d[i])
  BY <1>5, FilesAre
<1>. HIDE DEF S, T
<1>10. ASSUME NEW n \in DOMAIN S
       PROVE  Len(T[n]) = Len(S[n]) /\ (n \notin touched' => T[n] = S[n])
  <2>1. PICK i \in Slots : d[i].used /\ d[i].name = n
    BY <1>9
  <2>2. S[n] = ContentIn(disk, d[i]) /\ T[n] = ContentIn(disk', d[i])
    BY <1>9, <2>1
  <2>3. Len(ContentIn(disk, d[i])) = d[i].size /\ Len(ContentIn(disk', d[i])) = d[i].size
    BY <1>5, <1>6, <2>1, ContentIs
  <2>4. ASSUME n \notin touched' PROVE ContentIn(disk', d[i]) = ContentIn(disk, d[i])
    <3>1. n \notin touched /\ n # DIR[fd].name
      BY <1>2, <2>4
    <3>2. DIR[i].used /\ DIR[i].name = n /\ DIR[i].head = d[i].head
      BY <1>7, <2>1, <3>1
    <3>3. i # fd /\ d[i].head # h
      BY <1>1, <3>1, <3>2
    <3>. QED
      BY <1>1, <1>6, <2>1, <3>3, ContentKept
  <2>. QED
    BY <2>2, <2>3, <2>4
<1>. QED
  BY <1>3, <1>4, <1>8, <1>10 DEF Store!Damaged

LEMMA WriteImplements ==
  ASSUME StoreInv, StoreInv', NEW fd, NEW buf \in Buffers, NEW h, NEW base,
         Usable(fd), ~Past(fd), OneBlock(fd, buf), Touching(fd), UNCHANGED mounted,
         \A i \in Slots : DIR'[i].used = DIR[i].used /\ DIR'[i].name = DIR[i].name,
         Wrote(fd, buf, h, base)
  PROVE  Store!Write(fd, buf)
<1>. DEFINE o == fildes[fd].offset
            n == Len(buf)
            s == DIR[fd].size
            C == Store!Content(fd)
            D == ContentIn(disk', DIR'[fd])
            m == DIR[fd].name
<1>1. /\ fd \in Fildes /\ fd \in Slots /\ DIR[fd].used /\ Entry(fd) = DIR[fd] /\ mounted
      /\ fildes[fd].file = fd /\ o \in Nat /\ fd \in DOMAIN Opened /\ Opened[fd].name = m
      /\ Opened[fd].offset = o /\ C = ContentIn(disk, DIR[fd])
      /\ fildes \in [Fildes -> [used : BOOLEAN, file : Slots, offset : Nat]]
  BY FdFacts DEF StoreInv, Inv, FdsOK
<1>2. /\ s \in 0..BLOCK_SIZE /\ (s # 0 => DIR[fd].head \in Home)
      /\ C \in Seq(Units) /\ Len(C) = s
      /\ \A j \in 1..s : C[j] = UnitsIn(disk, DIR[fd].head)[j]
  BY <1>1, SlotFacts
<1>3. /\ h \in Home /\ h \in Blocks
      /\ s # 0 => h = DIR[fd].head /\ base = UnitsOf(h)
      /\ \A i \in Slots : i # fd /\ DIR[i].used => DIR[i].head # h
      /\ \A b \in Blocks : b # h => disk'[b] = disk[b]
      /\ disk'[h] = File(Patched(base, o, buf))
      /\ DIR'[fd].head = h /\ DIR'[fd].size = Larger(s, o + n)
      /\ \A i \in Slots : i # fd => DIR'[i] = DIR[i]
      /\ fildes' = [fildes EXCEPT ![fd].offset = o + n]
      /\ Returns(n)
  BY HomeIsData DEF Wrote
<1>4. /\ o <= s /\ o + n <= BLOCK_SIZE /\ n \in Nat /\ BLOCK_SIZE \in Nat
      /\ Larger(s, o + n) \in 0..BLOCK_SIZE
  <2>1. o <= s /\ o + n <= BLOCK_SIZE /\ n \in Nat /\ BLOCK_SIZE \in Nat
    BY <1>1, <1>2, BufferType, FSAssumption DEF OneBlock, Past
  <2>. HIDE DEF o, s, n
  <2>. QED
    BY <1>1, <1>2, <2>1 DEF Larger
<1>5. /\ UnitsIn(disk', h) = Patched(base, o, buf)
      /\ s # 0 => base = UnitsIn(disk, DIR[fd].head)
  BY <1>3 DEF UnitsIn, UnitsOf, File
<1>6. /\ D \in Seq(Units) /\ Len(D) = Larger(s, o + n)
      /\ \A i \in 1..Len(D) : D[i] = Patched(base, o, buf)[i]
  <2>1. DIR'[fd].size \in 0..BLOCK_SIZE
    BY <1>3, <1>4
  <2>2. DataOK(disk')
    BY DEF StoreInv, Typed
  <2>3. /\ D \in Seq(Units) /\ Len(D) = DIR'[fd].size
        /\ \A i \in 1..DIR'[fd].size : D[i] = UnitsIn(disk', DIR'[fd].head)[i]
    BY <2>1, <2>2, ContentIs
  <2>. HIDE DEF D, o, n, s
  <2>. QED
    BY <1>3, <1>5, <2>3
<1>7. Files' = [Files EXCEPT ![m] = D]
  <2>1. \A i \in Slots : i # fd /\ DIR[i].used =>
          ContentIn(disk', DIR'[i]) = ContentIn(disk, DIR[i])
    <3>1. SUFFICES ASSUME NEW i \in Slots, i # fd, DIR[i].used
                   PROVE  ContentIn(disk', DIR'[i]) = ContentIn(disk, DIR[i])
      OBVIOUS
    <3>2. DIR'[i] = DIR[i] /\ DIR[i].head # h /\ (DIR[i].size # 0 => DIR[i].head \in Home)
      BY <1>1, <1>3, <3>1, SlotFacts
    <3>3. ContentIn(disk', DIR[i]) = ContentIn(disk, DIR[i])
      BY <1>3, <3>2, ContentKept
    <3>. QED
      BY <3>2, <3>3
  <2>. QED
    BY <2>1, ChangedFiles
<1>8. Store!Moved(fd, o + n)
  <2>. HIDE DEF o, n
  <2>. QED
    BY <1>3, MovedOpen
<1>9. Store!Damaged(touched') /\ Formatted' = Formatted
  BY WriteDamage
<1>10. touched' = touched \cup {m}
  BY <1>1 DEF Touching
<1>. HIDE DEF o, n, s, C, D, m
<1>11. D = Store!Overwritten(C, o, buf)
  <2>1. s \in 0..BLOCK_SIZE /\ o \in 0..s
    BY <1>1, <1>2, <1>4
  <2>2. Holds(C, s, base)
    BY <1>2, <1>5 DEF Holds
  <2>3. Holds(D, Larger(s, o + Len(buf)), Patched(base, o, buf))
    BY <1>6 DEF n, Holds
  <2>4. o + Len(buf) <= BLOCK_SIZE
    BY <1>4 DEF n
  <2>. QED
    BY <2>1, <2>2, <2>3, <2>4, PatchedContent
<1>12. /\ Store!Changed(fd, Store!Overwritten(Store!Content(fd), Opened[fd].offset, buf))
       /\ Opened[fd].offset <= Len(Store!Content(fd))
       /\ Store!Moved(fd, Opened[fd].offset + Len(buf))
       /\ Store!Returns(Len(buf))
  <2>1. Store!Changed(fd, D)
    BY <1>1, <1>7, <1>9, <1>10 DEF Store!Changed
  <2>2. o <= Len(C)
    BY <1>2, <1>4
  <2>3. Store!Returns(n)
    BY <1>3 DEF Returns, Store!Returns
  <2>. QED
    BY <1>1, <1>8, <1>11, <2>1, <2>2, <2>3 DEF C, n
<1>. QED
  BY <1>12 DEF Store!Write

LEMMA FailedWriteImplements ==
  ASSUME StoreInv, NEW fd, Usable(fd), Touching(fd), UNCHANGED mounted, WroteNothing
  PROVE  Store!Write_Fails(fd)
<1>1. Files' = Files /\ Opened' = Opened /\ Saved' = Saved /\ Formatted' = Formatted
  BY Quiet DEF WroteNothing
<1>2. touched' = touched \cup {Opened[fd].name}
  BY FdFacts DEF Touching
<1>3. Store!Returns(-1)
  BY DEF WroteNothing, Returns, Store!Returns
<1>. QED
  BY <1>1, <1>2, <1>3 DEF Store!Write_Fails, Store!memory

LEMMA FdCallImplements ==
  ASSUME StoreInv, StoreInv', ProperClients, SafeFaults, Room, NEW fd, FdCall(fd)
  PROVE  Store!Next
<1>1. CASE fd_Refused(fd) \/ fs_access_Past(fd) \/ \E o \in Offsets : fs_lseek_Refused(fd, o)
  BY <1>1, RefusedStep DEF fd_Refused, fs_access_Past, fs_lseek_Refused, Store!Next
<1>2. ASSUME Usable(fd),
             \/ Store!Close(fd) \/ Store!Seek(fd) \/ Store!Size(fd) \/ Store!Read(fd)
             \/ Store!Truncate(fd) \/ Store!Write_Fails(fd)
             \/ \E buf \in Buffers : Store!Write(fd, buf)
      PROVE  Store!Next
  <2>1. fd \in DOMAIN Opened /\ mounted
    BY <1>2, FdFacts
  <2>. QED
    BY <1>2, <2>1 DEF Store!Next
<1>3. CASE fs_close(fd)
  BY <1>2, <1>3, CloseImplements DEF fs_close
<1>4. CASE fs_get_filesize(fd)
  BY <1>2, <1>4, SizeImplements DEF fs_get_filesize
<1>5. CASE \E o \in Offsets : fs_lseek(fd, o)
  BY <1>2, <1>5, SeekImplements DEF fs_lseek
<1>6. CASE \E o \in Offsets : fs_truncate(fd, o)
  BY <1>2, <1>6, TruncateImplements DEF fs_truncate
<1>7. CASE \E n \in Lengths : fs_read_Nothing(fd, n)
  BY <1>2, <1>7, NothingImplements DEF fs_read_Nothing
<1>8. CASE \E n \in Lengths : fs_read(fd, n)
  <2>1. Usable(fd) /\ (Store!Read(fd) \/ Store!Refuse)
    BY <1>8, ReadImplements DEF fs_read
  <2>. QED
    BY <1>2, <2>1 DEF Store!Next
<1>9. CASE \E buf \in Buffers : fs_write(fd, buf)
  <2>1. PICK buf \in Buffers : fs_write(fd, buf)
    BY <1>9
  <2>2. /\ Usable(fd) /\ ~Past(fd) /\ OneBlock(fd, buf) /\ Touching(fd) /\ UNCHANGED mounted
        /\ WroteNothing \/ \E h, base : Wrote(fd, buf, h, base)
    BY <2>1, ProperWrite DEF StoreInv, ProperClients
  <2>3. \A i \in Slots : DIR'[i].used = DIR[i].used /\ DIR'[i].name = DIR[i].name
    BY FdCallSaved
  <2>4. Store!Write_Fails(fd) \/ Store!Write(fd, buf)
    BY <2>2, <2>3, WriteImplements, FailedWriteImplements
  <2>. QED
    BY <1>2, <2>2, <2>4
<1>. QED
  BY <1>1, <1>3, <1>4, <1>5, <1>6, <1>7, <1>8, <1>9 DEF FdCall

LEMMA ListImplements ==
  ASSUME StoreInv, ProperClients, fs_listfiles
  PROVE  Store!List
<1>1. /\ UNCHANGED <<mounted, DIR, fildes, disk, touched>>
      /\ out'.data = [i \in 1..MAX_FILES |-> IF DIR[i - 1].used THEN DIR[i - 1].name ELSE Empty]
  BY DEF fs_listfiles, memVars, diskVars
<1>2. Files' = Files /\ Opened' = Opened /\ Saved' = Saved /\ Formatted' = Formatted
  BY <1>1, Quiet
<1>3. ASSUME mounted PROVE Range(out'.data) \cap Names = DOMAIN Files
  <2>1. /\ \A n \in DOMAIN Files : \E i \in Slots : DIR[i].used /\ DIR[i].name = n
        /\ \A i \in Slots : DIR[i].used => DIR[i].name \in DOMAIN Files /\ DIR[i].name \in Names
    BY <1>3, FilesAre, StoreView, SlotFacts DEF StoreInv, Inv, DirOK
  <2>2. \A n : n \in Range(out'.data) <=>
               \E i \in 1..MAX_FILES : n = IF DIR[i - 1].used THEN DIR[i - 1].name ELSE Empty
    BY <1>1 DEF Range
  <2>3. /\ \A i \in 1..MAX_FILES : i - 1 \in Slots
        /\ \A i \in Slots : i + 1 \in 1..MAX_FILES /\ (i + 1) - 1 = i
    BY FSAssumption DEF Slots
  <2>4. Empty \notin Names
    BY DEF ProperClients
  <2>5. ASSUME NEW n \in Range(out'.data) \cap Names PROVE n \in DOMAIN Files
    BY <2>1, <2>2, <2>3, <2>4
  <2>6. ASSUME NEW n \in DOMAIN Files PROVE n \in Range(out'.data) \cap Names
    <3>1. PICK i \in Slots : DIR[i].used /\ DIR[i].name = n
      BY <2>1
    <3>2. i + 1 \in 1..MAX_FILES /\ n = IF DIR[(i + 1) - 1].used THEN DIR[(i + 1) - 1].name ELSE Empty
      BY <2>3, <3>1
    <3>. QED
      BY <2>1, <2>2, <3>1, <3>2
  <2>. QED
    BY <2>5, <2>6
<1>. QED
  BY <1>1, <1>2, <1>3 DEF Store!List, Store!memory, Store!Range, Range

LEMMA ExitImplements ==
  ASSUME Exit
  PROVE  Store!Exit
<1>1. Returns(0) /\ mounted' = FALSE /\ touched' = {} /\ disk' = disk
  BY DEF Exit
<1>2. Files' = Store!None /\ Opened' = Store!None
  BY <1>1, StoreViewNext
<1>. QED
  BY <1>1, <1>2, SavedSame DEF Store!Exit, Store!Returns, Returns

LEMMA StepImplements ==
  ASSUME StoreInv, StoreInv', ProperClients, SafeFaults, Room, [Next]_vars
  PROVE  [Store!Next]_(Store!vars)
<1>1. CASE Up /\ MountCall
  BY <1>1, MountCallImplements
<1>2. CASE \E n \in Names : Up /\ NameCall(n)
  BY <1>2, NameCallImplements
<1>3. CASE \E fd \in -1..MAX_FILDES : Up /\ FdCall(fd)
  BY <1>3, FdCallImplements
<1>4. CASE Up /\ fs_listfiles
  BY <1>4, ListImplements DEF Store!Next
<1>5. CASE (Up /\ fs_listfiles_Null) \/ UNCHANGED vars
  <2>1. UNCHANGED <<mounted, DIR, fildes, disk, touched, out>>
    BY <1>5 DEF fs_listfiles_Null, vars, memVars, diskVars
  <2>. QED
    BY <2>1, Quiet DEF Store!vars, Store!memory
<1>6. CASE Exit
  BY <1>6, ExitImplements DEF Store!Next
<1>. QED
  BY <1>1, <1>2, <1>3, <1>4, <1>5, <1>6 DEF Next

(* ImplementsFileStore, for every disk, directory and client that keeps to *)
(* the rules: a descriptor reads what was last written to its file, what   *)
(* umount_fs saved comes back, and a file that nobody changed since is     *)
(* there after the end of the process between any two calls.  make_fs and  *)
(* first writes are not failed by the device, and umount_fs only before its*)
(* first write: behind it the tables on the disk are of two states.        *)
THEOREM ImplementsFileStoreThm ==
  Bounds /\ ProperClients /\ SafeFaults /\ Room => (Spec => ImplementsFileStore)
<1>. SUFFICES ASSUME Bounds, ProperClients, SafeFaults, Room
              PROVE  Spec => ImplementsFileStore
  OBVIOUS
<1>1. Init => Store!Init
  <2>. SUFFICES ASSUME Init PROVE Store!Init
    OBVIOUS
  <2>1. /\ mounted = FALSE /\ touched = {} /\ out = [ret |-> 0, data |-> <<>>]
        /\ disk = [b \in Blocks |-> Absent]
    BY DEF Init
  <2>2. Formatted = FALSE
    BY <2>1, Layout, KindsDiffer DEF Formatted
  <2>3. Files = Store!None /\ Opened = Store!None /\ Saved = Store!None
    BY <2>1, <2>2, StoreView
  <2>. QED
    BY <2>1, <2>2, <2>3 DEF Store!Init
<1>2. StoreInv /\ StoreInv' /\ [Next]_vars => [Store!Next]_(Store!vars)
  BY StepImplements
<1>3. Spec => []StoreInv
  BY StoreInvAlways
<1>. QED
  BY <1>1, <1>2, <1>3, PTL DEF Spec, ImplementsFileStore, Store!Spec

=============================================================================
