----------------------------- MODULE FileSystem ------------------------------
(***************************************************************************)
(* "Take 5", fs.c: a file system with a file allocation table (FAT), one   *)
(* directory and a table of descriptors, on the disk of disk.c.  FAT and   *)
(* DIR live in memory between mount_fs and umount_fs; data goes to the     *)
(* disk at once.  One process at a time makes the calls; it may end        *)
(* anywhere (Exit), and then the disk is all that is left.                 *)
(*                                                                         *)
(* The code stores to and reads from FAT at indices below 0 (LAZY, END,    *)
(* FREE) and follows any short it finds in an entry: FAT is a function on  *)
(* those, too, the memory around it.                                       *)
(***************************************************************************)
EXTENDS VirtualDisk, Sequences, FiniteSets

CONSTANTS
  Names, Empty,       \* the names clients use, and the name of all zeros
  MAX_FILES, MAX_FILDES,
  EntriesPerBlock,    \* BLOCK_SIZE / sizeof(short)
  Data, Junk,         \* units clients write, and memory nobody has set
  Buffers,            \* the sequences clients pass to fs_write
  Lengths, Offsets,   \* what clients pass to fs_read, and to lseek and truncate
  Index,              \* the values of a short, as many as the instance needs
  Around,             \* what the memory around FAT may hold, read as entries
  Overruns,           \* may block 0, read into the small struct fs, reset active?
  Faults,             \* Faults[op]: which access of op the device may fail
  Rules,              \* the rules of use that clients keep to
  MaxSize, MaxRefs    \* bounds on a file's size, on a ref_cnt either side of 0

FREE == -1
END  == -2
LAZY == -5

(* Sizes and places of the tables, as make_fs computes them; the directory *)
(* fits in a block.                                                        *)
fat_idx  == 1
fat_len  == (DISK_BLOCKS + EntriesPerBlock - 1) \div EntriesPerBlock
dir_idx  == fat_idx + fat_len
Reserved == dir_idx + 1
Marks    == {LAZY, END, FREE}
Slots    == 0..(MAX_FILES - 1)
Fildes   == 0..(MAX_FILDES - 1)

ASSUME FSAssumption ==
  /\ DISK_BLOCKS \in Nat \ {0} /\ EntriesPerBlock \in Nat \ {0} /\ BLOCK_SIZE \in Nat \ {0}
  /\ DISK_BLOCKS = fat_len * EntriesPerBlock
  /\ Reserved <= EntriesPerBlock
  /\ MAX_FILES \in Nat \ {0} /\ MAX_FILDES \in 1..MAX_FILES
  /\ Index \subseteq Int /\ Marks \cup 0..(2 * DISK_BLOCKS - 1) \subseteq Index
  /\ Around \subseteq [Index -> Index] /\ Around # {}
  /\ Overruns \subseteq BOOLEAN
  /\ Faults \in [{"make", "mount", "umount", "first", "again", "read"} -> SUBSET (Nat \ {0})]
  /\ Buffers \subseteq Seq(Data) \ {<<>>}
  /\ Lengths \subseteq Nat /\ Offsets \subseteq Nat
  /\ Zero \notin Data /\ Junk \notin Data

VARIABLES
  status,       \* "ok", or "hung" or "wild": how the process came to grief
  mounted,
  loaded,       \* FAT and DIR are not NULL
  FAT,          \* FAT[b]: the block after b, END or FREE
  DIR,          \* the directory
  fildes,       \* the descriptors
  out,          \* what the last call returned
  touched       \* history: names whose file changed since the last umount_fs

memVars  == <<mounted, loaded, FAT, DIR, fildes>>
diskVars == <<active, disk>>
vars     == <<status, memVars, diskVars, out, touched>>

NewEntry == [name |-> Empty, used |-> FALSE, size |-> 0, head |-> 0, ref_cnt |-> 0]
NewFd    == [used |-> FALSE, file |-> 0, offset |-> 0]
NoMemory == [b \in Index |-> 0]

Returns(r)  == out' = [ret |-> r, data |-> <<>>]
Reads(data) == out' = [ret |-> Len(data), data |-> data]

Init ==
  /\ status = "ok" /\ mounted = FALSE /\ loaded = FALSE /\ active = FALSE
  /\ FAT = NoMemory
  /\ DIR = [i \in Slots |-> NewEntry]
  /\ fildes = [i \in Fildes |-> NewFd]
  /\ out = [ret |-> 0, data |-> <<>>]
  /\ disk = [b \in Blocks |-> Absent]
  /\ touched = {}

(* A call the library refuses.                                             *)
Refused == Returns(-1) /\ UNCHANGED <<status, memVars, diskVars, touched>>

(* The rules of use.  The code enforces none of them: a run that lists a   *)
(* rule is about the clients that keep to it.                              *)
Keeping(rule, condition) == rule \in Rules => condition

-----------------------------------------------------------------------------
(* The tables on disk.  umount_fs and make_fs copy block i of FAT from     *)
(* FAT + i * BLOCK_SIZE, a sum in units of short: the entries they write   *)
(* start at 2*i*EntriesPerBlock, and memory behind FAT, where DIR lies, is *)
(* read.  mount_fs puts the blocks back to back.                           *)
Super       == [kind |-> "super"]
Table(dir)  == [kind |-> "dir", dir |-> dir]
Image(fat, i, m) == [kind |-> "fat", fat |-> [j \in 0..(EntriesPerBlock - 1) |->
  LET a == 2 * i * EntriesPerBlock + j IN IF a < DISK_BLOCKS THEN fat[a] ELSE m[a]]]

(* The disk after the first n of the writes of make_fs or umount_fs to old.*)
Tables(old, fat, dir, m, n) == [b \in Blocks |->
  IF b \in fat_idx..(dir_idx - 1) /\ b - fat_idx < n THEN Image(fat, b - fat_idx, m)
  ELSE IF b = dir_idx /\ fat_len < n THEN Table(dir)
  ELSE IF b = 0 /\ fat_len + 1 < n THEN Super
  ELSE old[b]]
AllTables == fat_len + 2

(* The device fails access k of the operation, or (0) none.                *)
Failing(op) == Faults[op] \cup {0}
Before(k)   == IF k = 0 THEN AllTables ELSE k - 1

(* FAT as make_fs sets it up: the reserved blocks are marked, the rest is  *)
(* free.  The memory just in front of a new FAT is zero.                   *)
NewFAT_NoDir(m) == [b \in Index |->
  IF b \in Marks THEN 0
  ELSE IF b \notin Blocks THEN m[b]
  ELSE IF b >= dir_idx THEN FREE ELSE IF b = 0 THEN END ELSE b + 1]
NewFAT(m) == [b \in Index |->
  IF b \in Marks THEN 0
  ELSE IF b \notin Blocks THEN m[b]
  ELSE IF b >= Reserved THEN FREE
  ELSE IF b \in {0, dir_idx - 1, dir_idx} THEN END ELSE b + 1]
NewDIR == [i \in Slots |-> NewEntry]

StillOpen_Mounted(k) == mounted' = TRUE /\ active' = (k # 0)
StillOpen(k) == mounted' = (k # 0) /\ active' = (k # 0)

make_fs == \E m \in Around, k \in Failing("make") :
  /\ ~mounted /\ ~active
  /\ StillOpen(k)
  /\ loaded' = TRUE /\ FAT' = NewFAT(m) /\ DIR' = NewDIR
  /\ disk' = Tables([b \in Blocks |-> Erased], NewFAT(m), NewDIR, m, Before(k))
  /\ touched' = {}
  /\ Returns(IF k = 0 THEN 0 ELSE -1)
  /\ UNCHANGED <<status, fildes>>

(* A disk left open by a mount_fs that failed is erased and not made.      *)
make_fs_Busy ==
  /\ ~mounted /\ active
  /\ make_disk
  /\ touched' = {}
  /\ Returns(-1)
  /\ UNCHANGED <<status, memVars, active>>

(* realloc aborts when the header in front of FAT has been overwritten.    *)
HeaderSound == loaded => FAT[FREE] = 0 /\ FAT[END] = 0

(* FAT when n of its blocks have been read.                                *)
LoadedFAT(n, m) == [b \in Index |->
  IF b \in 0..(n * EntriesPerBlock - 1)
    THEN disk[fat_idx + b \div EntriesPerBlock].fat[b % EntriesPerBlock]
  ELSE IF b \in Marks \cup Blocks THEN FAT[b] ELSE m[b]]

mount_fs == \E m \in Around :
  /\ ~mounted /\ OpenWorks /\ disk[0] = Super /\ HeaderSound
  /\ mounted' = TRUE /\ active' = TRUE /\ loaded' = TRUE
  /\ FAT' = LoadedFAT(fat_len, m)
  /\ DIR' = disk[dir_idx].dir
  /\ fildes' = [i \in Fildes |-> NewFd]
  /\ Returns(0)
  /\ UNCHANGED <<status, disk, touched>>

mount_fs_Abort ==
  /\ ~mounted /\ OpenWorks /\ disk[0] = Super /\ ~HeaderSound
  /\ status' = "wild"
  /\ UNCHANGED <<memVars, diskVars, out, touched>>

(* A block cannot be read, or block 0 holds no super block: the disk stays *)
(* open.  Blocks 1 to k - 2 of FAT have been read, and there is a DIR when *)
(* only its block is missing.                                              *)
mount_fs_NoSuper ==
  /\ ~mounted /\ OpenWorks
  /\ disk[0] # Super \/ 1 \in Faults["mount"]
  /\ active' = TRUE
  /\ Returns(-1)
  /\ UNCHANGED <<status, memVars, disk, touched>>

mount_fs_Fails == \E m \in Around, k \in Faults["mount"] \cap 2..AllTables :
  /\ ~mounted /\ OpenWorks /\ disk[0] = Super /\ HeaderSound
  /\ active' = TRUE
  /\ loaded' = (loaded \/ k = AllTables)
  /\ FAT' = LoadedFAT(k - 2, m)
  /\ Returns(-1)
  /\ UNCHANGED <<status, mounted, DIR, fildes, disk, touched>>

(* Block 0 is read into struct fs, which is smaller: what lies behind it,  *)
(* in some builds FAT, DIR, fildes and disk.c's active, becomes zero.      *)
mount_fs_Overrun ==
  /\ ~mounted /\ OpenWorks /\ disk[0] = Super
  /\ TRUE \in Overruns
  /\ loaded' = FALSE /\ active' = FALSE
  /\ FAT' = NoMemory /\ DIR' = NewDIR /\ fildes' = [i \in Fildes |-> NewFd]
  /\ Returns(-1)
  /\ UNCHANGED <<status, mounted, disk, touched>>

umount_fs == \E m \in Around, k \in Failing("umount") :
  /\ mounted
  /\ Keeping("close", \A i \in Fildes : ~fildes[i].used)
  /\ disk' = Tables(disk, FAT, DIR, m, Before(k))
  /\ StillOpen(k)
  /\ touched' = IF k = 0 THEN {} ELSE touched
  /\ Returns(IF k = 0 THEN 0 ELSE -1)
  /\ UNCHANGED <<status, loaded, FAT, DIR, fildes>>

(* make_fs, mount_fs and umount_fs when it is not their turn.              *)
mounting_Refused ==
  /\ mounted \/ ~OpenWorks
  /\ Refused

-----------------------------------------------------------------------------
(* The directory.  A free slot has the name of all zeros, and strcmp finds *)
(* it under that name.                                                     *)
Named(n)  == {i \in Slots : DIR[i].name = n}
Unused    == {i \in Slots : ~DIR[i].used}
ClosedFds == {i \in Fildes : ~fildes[i].used}
First(S)  == CHOOSE i \in S : \A j \in S : i <= j

Creatable(n) == mounted /\ Named(n) = {} /\ Unused # {}

fs_create(n) ==
  /\ Creatable(n)
  /\ DIR' = [DIR EXCEPT ![First(Unused)] =
       [name |-> n, used |-> TRUE, size |-> 0, head |-> LAZY, ref_cnt |-> 0]]
  /\ touched' = touched \cup {n}
  /\ Returns(0)
  /\ UNCHANGED <<status, mounted, loaded, FAT, fildes, diskVars>>

fs_create_Refused(n) == ~Creatable(n) /\ Refused

Openable(n) == mounted /\ Named(n) # {} /\ ClosedFds # {}

(* The file found is forgotten: i is then the descriptor, which is stored  *)
(* as the file, and the entry of that number counts the reference.         *)
fs_open(n) == LET i == First(ClosedFds) IN
  /\ Openable(n)
  /\ Keeping("match", DIR[i].name = n /\ n # Empty)
  /\ DIR[i].ref_cnt < MaxRefs
  /\ fildes' = [fildes EXCEPT ![i] = [used |-> TRUE, file |-> i, offset |-> 0]]
  /\ DIR' = [DIR EXCEPT ![i].ref_cnt = IF @ > 0 THEN @ + 1 ELSE 1]
  /\ Returns(i)
  /\ UNCHANGED <<status, mounted, loaded, FAT, diskVars, touched>>

fs_open_Refused(n) == ~Openable(n) /\ Refused

(* The calls on a descriptor.                                              *)
Usable(fd) == mounted /\ fd \in Fildes /\ fildes[fd].used
Entry(fd)  == DIR[fildes[fd].file]
Past(fd)   == fildes[fd].offset > Entry(fd).size
Touching(fd) == touched' = touched \cup {Entry(fd).name}

fs_close(fd) ==
  /\ Usable(fd)
  /\ Entry(fd).ref_cnt > -MaxRefs
  /\ DIR' = [DIR EXCEPT ![fildes[fd].file].ref_cnt = @ - 1]
  /\ fildes' = [fildes EXCEPT ![fd].used = (Entry(fd).ref_cnt - 1 # 0)]
  /\ Returns(0)
  /\ UNCHANGED <<status, mounted, loaded, FAT, diskVars, touched>>

fs_lseek(fd, o) ==
  /\ Usable(fd) /\ o <= Entry(fd).size
  /\ fildes' = [fildes EXCEPT ![fd].offset = o]
  /\ Returns(0)
  /\ UNCHANGED <<status, mounted, loaded, FAT, DIR, diskVars, touched>>

fs_get_filesize(fd) ==
  /\ Usable(fd)
  /\ Returns(Entry(fd).size)
  /\ UNCHANGED <<status, memVars, diskVars, touched>>

fd_Refused(fd) == ~Usable(fd) /\ Refused

(* fs_listfiles does not ask whether a file system is mounted.             *)
fs_listfiles ==
  /\ loaded
  /\ out' = [ret |-> 0, data |->
       [i \in 1..MAX_FILES |-> IF DIR[i - 1].used THEN DIR[i - 1].name ELSE Empty]]
  /\ UNCHANGED <<status, memVars, diskVars, touched>>

fs_listfiles_Null ==
  /\ ~loaded
  /\ status' = "wild"
  /\ UNCHANGED <<memVars, diskVars, out, touched>>

-----------------------------------------------------------------------------
(* Chains.  Reach: the indices that a walk from b along f comes to, when   *)
(* it does not go on from those in stop.  Path: the first n of them.       *)
Reach(f, b, stop) ==
  LET room == {b} \cup {f[i] : i \in DOMAIN f}
  IN {i \in room : \A S \in SUBSET room :
        (b \in S /\ \A j \in S \ stop : f[j] \in S) => i \in S}
Path(f, b, n) ==
  LET p[i \in 0..n] == IF i = 0 THEN b ELSE f[p[i - 1]] IN p

(* while (b != END) { temp = FAT[b]; FAT[b] = FREE; b = temp; }            *)
(* A block met again has become FREE, that is -1, and the loop goes on     *)
(* from FAT[-1]: to an end at last, or over FAT[-1] = -1 for ever.         *)
Freed(f, S) == [i \in DOMAIN f |-> IF i \in S THEN FREE ELSE f[i]]
(* A store outside FAT and the memory just in front of it is wild.         *)
FreeChain(f, b) ==
  LET way   == Reach(f, b, {END})
      way2  == Reach(Freed(f, way), FREE, {END})
      freed == (IF END \in way THEN way ELSE way \cup way2) \ {END}
  IN [fat  |-> Freed(f, freed),
      ends |-> IF ~(freed \subseteq Marks \cup Blocks) THEN "wild"
               ELSE IF END \in way \/ (FREE \notin way /\ END \in way2) THEN "ok" ELSE "hung"]

(* How a loop over a chain ends, and what the call then returns.           *)
Ends(loop, ret) ==
  /\ status' = loop.ends
  /\ IF loop.ends = "ok" THEN Returns(ret) ELSE UNCHANGED out

(* The loop, the store to FAT[END] behind it, and the return of 0.         *)
ReleaseFrom(b) == LET loop == FreeChain(FAT, b) IN
  /\ FAT' = IF loop.ends = "ok" THEN [loop.fat EXCEPT ![END] = FREE] ELSE loop.fat
  /\ Ends(loop, 0)

Deletable_Open(n) == mounted /\ Named(n) # {}
Deletable(n) == mounted /\ Named(n) # {} /\ DIR[First(Named(n))].ref_cnt <= 0

Forgotten_Named(i) == [DIR EXCEPT ![i].used = FALSE]
Forgotten(i) == [DIR EXCEPT ![i].used = FALSE, ![i].name = Empty]

fs_delete(n) == LET i == First(Named(n)) IN
  /\ Deletable(n)
  /\ DIR' = Forgotten(i)
  /\ IF DIR[i].head = LAZY THEN Returns(0) /\ UNCHANGED <<status, FAT>>
                           ELSE ReleaseFrom(DIR[i].head)
  /\ touched' = touched \cup {n}
  /\ UNCHANGED <<mounted, loaded, fildes, diskVars>>

fs_delete_Refused(n) == ~Deletable(n) /\ Refused

Kept_Whole(length) == length \div BLOCK_SIZE
Kept(length) == (length + BLOCK_SIZE - 1) \div BLOCK_SIZE

(* The blocks of the new length are kept and what follows them is freed;   *)
(* the last block kept goes on pointing there.                             *)
fs_truncate(fd, length) ==
  LET head == Entry(fd).head
      b    == Path(FAT, head, Kept(length))[Kept(length)]
  IN /\ Usable(fd) /\ length <= Entry(fd).size
     /\ Keeping("keep", length > 0)
     /\ ReleaseFrom(b)
     /\ DIR' = IF status' # "ok" THEN DIR
               ELSE [DIR EXCEPT ![fildes[fd].file].size = length]
     /\ Touching(fd)
     /\ UNCHANGED <<mounted, loaded, fildes, diskVars>>

(* fs_lseek and fs_truncate past the end.                                  *)
fs_lseek_Refused(fd, o) == Usable(fd) /\ o > Entry(fd).size /\ Refused

-----------------------------------------------------------------------------
(* Reading and writing.  A write is a series of pieces: piece p puts       *)
(* len units, from place from of the buffer, at place at of its block; the *)
(* rest of the block is as in base.                                        *)
Minimum(m, n) == IF m < n THEN m ELSE n

Piece(b, at, from, len, base) ==
  [block |-> b, at |-> at, from |-> from, len |-> len, base |-> base]
Merged_Alone(p, buf) == File([u \in 1..BLOCK_SIZE |->
  IF u \in (p.at + 1)..(p.at + p.len) THEN buf[p.from + u - p.at] ELSE Junk])
Merged(p, buf) == File([u \in 1..BLOCK_SIZE |->
  IF u \in (p.at + 1)..(p.at + p.len) THEN buf[p.from + u - p.at] ELSE p.base[u]])

Uninitialised  == [u \in 1..BLOCK_SIZE |-> Junk]
UnitsOf(b) ==
  IF b \in Blocks /\ disk[b].kind = "file" THEN disk[b].units ELSE Uninitialised

(* The pieces written before the first one whose block does not exist or   *)
(* whose access, the k-th, the device fails.                               *)
Written(pieces, k) ==
  First({Len(pieces) + 1} \cup {i \in 1..Len(pieces) : i = k \/ ~BlockWorks(pieces[i].block)}) - 1

(* The disk with pieces 1..n written; no block is the block of two pieces  *)
(* that keep some of its base.                                             *)
DiskWith(pieces, n, buf) == [b \in Blocks |->
  LET to == {i \in 1..n : pieces[i].block = b}
  IN IF to = {} THEN disk[b]
     ELSE Merged(pieces[CHOOSE i \in to : \A j \in to : j <= i], buf)]

FreeBlocks == {b \in Blocks : FAT[b] = FREE}
NthFree(n) == CHOOSE b \in FreeBlocks : Cardinality({c \in FreeBlocks : c <= b}) = n

(* Blocks in S linked in their order, with last in the entry of the last.  *)
Linked_Unmarked(S, last) == [b \in Index |->
  IF b \notin S \/ \A c \in S : c <= b THEN FAT[b] ELSE First({c \in S : c > b})]
Linked(S, last) == [b \in Index |->
  IF b \notin S THEN FAT[b]
  ELSE IF \A c \in S : c <= b THEN last
  ELSE First({c \in S : c > b})]

(* write_file asks next_free_block for the next block before it has marked *)
(* the current one, and gets the current one again: two pieces of the      *)
(* buffer go to each block, the second over the first.                     *)
BlockOf(i) == (i + 1) \div 2
Chunks(buf) == [i \in 1..Minimum((Len(buf) + BLOCK_SIZE - 1) \div BLOCK_SIZE,
                                 2 * Cardinality(FreeBlocks)) |->
  Piece(NthFree(BlockOf(i)), 0, (i - 1) * BLOCK_SIZE,
        Minimum(BLOCK_SIZE, Len(buf) - (i - 1) * BLOCK_SIZE), Uninitialised)]
Taken(n) == {b \in FreeBlocks : Cardinality({c \in FreeBlocks : c <= b}) <= BlockOf(n)}

(* The rollback after piece i failed: its block is linked from the block   *)
(* before but not marked yet, or is its own successor.                     *)
Rollback(i) == FreeChain(
  Linked(Taken(i), IF i % 2 = 1 THEN FREE ELSE NthFree(BlockOf(i))), NthFree(1))

(* The first write to a file: write_file chains as many blocks as it gets. *)
FirstWrite(fd, buf) == \E k \in Failing("first") :
  LET f      == fildes[fd].file
      pieces == Chunks(buf)
      n      == Written(pieces, k)
      bytes  == Minimum(Len(buf), Len(pieces) * BLOCK_SIZE)
  IN /\ Entry(fd).head = LAZY
     /\ FreeBlocks # {}
     /\ Keeping("few", Taken(Len(pieces)) \subseteq 0..(EntriesPerBlock - 1))
     /\ disk' = DiskWith(pieces, n, buf)
     /\ IF n = Len(pieces)
          THEN /\ FAT' = Linked(Taken(n), END)
               /\ fildes' = [fildes EXCEPT ![fd].offset = @ + bytes]
               /\ DIR' = [DIR EXCEPT ![f].head = NthFree(1), ![f].size = fildes'[fd].offset]
               /\ Returns(bytes) /\ UNCHANGED status
          ELSE /\ FAT' = Rollback(n + 1).fat
               /\ DIR' = [DIR EXCEPT ![f].head = NthFree(1)]
               /\ Ends(Rollback(n + 1), -1)
               /\ UNCHANGED fildes

(* No block is free: next_free_block's -1 becomes the head.                *)
FirstWrite_Full(fd) ==
  /\ Entry(fd).head = LAZY
  /\ FreeBlocks = {}
  /\ DIR' = [DIR EXCEPT ![fildes[fd].file].head = -1]
  /\ Returns(-1)
  /\ UNCHANGED <<status, FAT, fildes, disk>>

(* A later write.  The block of the offset is written only if the offset   *)
(* is inside it; then whole blocks as long as the chain has another one    *)
(* behind; then all the rest into the block at hand.                       *)
Overwriting(fd, buf) ==
  LET o     == fildes[fd].offset
      n     == Len(buf)
      at    == o % BLOCK_SIZE
      head  == Entry(fd).head
      way   == Path(FAT, head, o \div BLOCK_SIZE + n + 1)
      W(i)  == way[o \div BLOCK_SIZE + i]
      part  == IF at = 0 THEN 0 ELSE Minimum(BLOCK_SIZE - at, n)
      whole == IF part = n THEN 0
               ELSE First({i \in 0..n : FAT[W(i + 1)] = END \/ part + (i + 1) * BLOCK_SIZE > n})
      rest  == n - part - whole * BLOCK_SIZE
  IN [way    |-> way,
      pieces |-> (IF part = 0 THEN <<>> ELSE <<Piece(W(0), at, 0, part, UnitsOf(W(0)))>>)
                 \o [i \in 1..whole |-> Piece(W(i), 0, part + (i - 1) * BLOCK_SIZE,
                                              BLOCK_SIZE, Uninitialised)]
                 \o (IF rest = 0 THEN <<>>
                     ELSE <<Piece(W(whole + 1), 0, n - rest, Minimum(rest, BLOCK_SIZE),
                                  UnitsOf(W(whole + 1)))>>),
      last   |-> rest > 0,
      over   |-> rest > BLOCK_SIZE]

(* Through the last block, offset and size are advanced twice; and there   *)
(* memcpy takes all that is left into a buffer of one block.               *)
Overwrite(fd, buf) == \E k \in Failing("again") :
  LET f      == fildes[fd].file
      w      == Overwriting(fd, buf)
      whole  == Written(w.pieces, k) = Len(w.pieces)
      moved  == IF w.last THEN 2 * Len(buf) ELSE Len(buf)
      end    == fildes[fd].offset + moved
  IN /\ Entry(fd).head # LAZY
     /\ ~(whole /\ w.over)
     /\ disk' = DiskWith(w.pieces, Written(w.pieces, k), buf)
     /\ IF whole
          THEN /\ end <= MaxSize
               /\ fildes' = [fildes EXCEPT ![fd].offset = end]
               /\ DIR' = [DIR EXCEPT ![f].size = IF end > @ THEN end ELSE @]
               /\ Returns(Len(buf))
          ELSE Returns(-1) /\ UNCHANGED <<fildes, DIR>>
     /\ UNCHANGED <<status, FAT>>

Overwrite_Overrun(fd, buf) == LET w == Overwriting(fd, buf) IN
  /\ Entry(fd).head # LAZY
  /\ w.over /\ Written(w.pieces, 0) = Len(w.pieces)
  /\ disk' = DiskWith(w.pieces, Len(w.pieces) - 1, buf)
  /\ status' = "wild"
  /\ UNCHANGED <<FAT, DIR, fildes, out>>

OneBlock(fd, buf) == fildes[fd].offset + Len(buf) <= BLOCK_SIZE

fs_write(fd, buf) ==
  /\ Usable(fd) /\ ~Past(fd)
  /\ Keeping("oneblock", OneBlock(fd, buf))
  /\ \/ FirstWrite(fd, buf)
     \/ FirstWrite_Full(fd)
     \/ Overwrite(fd, buf)
     \/ Overwrite_Overrun(fd, buf)
  /\ Touching(fd)
  /\ UNCHANGED <<mounted, loaded, active>>

(* From the descriptor's offset on, at most to the end of the file.  All   *)
(* blocks of the range are read, or the call fails.                        *)
fs_read(fd, nbyte) == \E k \in Failing("read") :
  LET o     == fildes[fd].offset
      n     == Minimum(nbyte, Entry(fd).size - o)
      first == o \div BLOCK_SIZE
      final == (o + n - 1) \div BLOCK_SIZE
      way   == Path(FAT, Entry(fd).head, final)
      works == \A b \in first..final : BlockWorks(way[b]) /\ k # b - first + 1
  IN /\ Usable(fd) /\ ~Past(fd) /\ n > 0
     /\ IF works
          THEN /\ Reads([i \in 1..n |-> UnitsOf(way[(o + i - 1) \div BLOCK_SIZE])
                                               [((o + i - 1) % BLOCK_SIZE) + 1]])
               /\ fildes' = [fildes EXCEPT ![fd].offset = @ + n]
          ELSE Returns(-1) /\ UNCHANGED fildes
     /\ UNCHANGED <<status, mounted, loaded, FAT, DIR, diskVars, touched>>

fs_read_Nothing(fd, nbyte) ==
  /\ Usable(fd) /\ ~Past(fd) /\ (nbyte = 0 \/ fildes[fd].offset = Entry(fd).size)
  /\ Returns(0)
  /\ UNCHANGED <<status, memVars, diskVars, touched>>

fs_access_Past(fd) == Usable(fd) /\ Past(fd) /\ Refused

-----------------------------------------------------------------------------
(* The process ends, with or without umount_fs, or dies of its errors; the *)
(* next one starts.                                                        *)
Exit ==
  /\ status' = "ok" /\ mounted' = FALSE /\ loaded' = FALSE /\ active' = FALSE
  /\ FAT' = NoMemory /\ DIR' = NewDIR /\ fildes' = [i \in Fildes |-> NewFd]
  /\ Returns(0)
  /\ touched' = {}
  /\ UNCHANGED disk

MountCall ==
  \/ make_fs \/ make_fs_Busy \/ mounting_Refused
  \/ mount_fs \/ mount_fs_Abort \/ mount_fs_NoSuper \/ mount_fs_Fails \/ mount_fs_Overrun
  \/ umount_fs

NameCall(n) ==
  \/ fs_create(n) \/ fs_create_Refused(n)
  \/ fs_open(n)   \/ fs_open_Refused(n)
  \/ fs_delete(n) \/ fs_delete_Refused(n)

FdCall(fd) ==
  \/ fs_close(fd) \/ fs_get_filesize(fd) \/ fd_Refused(fd) \/ fs_access_Past(fd)
  \/ \E o \in Offsets : fs_lseek(fd, o) \/ fs_lseek_Refused(fd, o) \/ fs_truncate(fd, o)
  \/ \E buf \in Buffers : fs_write(fd, buf)
  \/ \E n \in Lengths : fs_read(fd, n) \/ fs_read_Nothing(fd, n)

Up == status = "ok"
Next ==
  \/ Up /\ MountCall
  \/ \E n \in Names : Up /\ NameCall(n)
  \/ \E fd \in -1..MAX_FILDES : Up /\ FdCall(fd)
  \/ Up /\ (fs_listfiles \/ fs_listfiles_Null)
  \/ Exit

Spec == Init /\ [][Next]_vars

=============================================================================
