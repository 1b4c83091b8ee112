------------------------- MODULE FileSystemProperties -------------------------
(***************************************************************************)
(* What the file system is meant to guarantee.                             *)
(***************************************************************************)
EXTENDS FileSystem

Units == Data \cup {Zero, Junk}

IsEntry(e) ==
  /\ DOMAIN e = DOMAIN NewEntry
  /\ e.name \in Names \cup {Empty} /\ e.used \in BOOLEAN
  /\ e.size \in 0..MaxSize /\ e.head \in Index /\ e.ref_cnt \in -MaxRefs..MaxRefs
IsDir(d) == DOMAIN d = Slots /\ \A i \in Slots : IsEntry(d[i])

IsContent(c) ==
  \/ c \in {Absent, Super}
  \/ c.kind = "file" /\ c.units \in [1..BLOCK_SIZE -> Units]
  \/ c.kind = "dir" /\ IsDir(c.dir)
  \/ c.kind = "fat" /\ c.fat \in [0..(EntriesPerBlock - 1) -> Index]

(* Every variable has its type.                                            *)
TypeOK ==
  /\ status \in {"ok", "hung", "wild"}
  /\ mounted \in BOOLEAN /\ loaded \in BOOLEAN /\ active \in BOOLEAN
  /\ mounted => active /\ loaded
  /\ FAT \in [Index -> Index]
  /\ IsDir(DIR)
  /\ fildes \in [Fildes -> [used : BOOLEAN, file : Slots, offset : 0..MaxSize]]
  /\ DOMAIN disk = Blocks /\ \A b \in Blocks : IsContent(disk[b])
  /\ touched \subseteq Names \cup {Empty}

(* fs_write never touches the FAT and the directory on the disk, and their *)
(* blocks are never handed out.  Said of clients that keep to no rule, on  *)
(* a disk whose FAT is one block; on a larger one, of clients that write   *)
(* no more than that block's entries can hold (rule "few").                *)
TablesKept ==
  /\ mounted => \A b \in 1..dir_idx : FAT[b] # FREE
  /\ disk[0] = Super => /\ \A b \in fat_idx..(dir_idx - 1) : disk[b].kind = "fat"
                        /\ disk[dir_idx].kind = "dir"

(* In a directory, in memory or on the disk, a slot is in use if and only  *)
(* if it has a name, and no name occurs twice: what fs_delete, fs_create   *)
(* and the search by strcmp rely on.                                       *)
WellNamed(d) ==
  /\ \A i \in Slots : d[i].used <=> d[i].name # Empty
  /\ \A i, j \in Slots : d[i].used /\ d[j].used /\ d[i].name = d[j].name => i = j
NamesSound ==
  /\ mounted => WellNamed(DIR)
  /\ disk[0] = Super => WellNamed(disk[dir_idx].dir)

-----------------------------------------------------------------------------
(* The files, as clients know them, that directory d describes when its    *)
(* files are no longer than a block.                                       *)
Stored(d) == LET used == {i \in Slots : d[i].used} IN
  [n \in {d[i].name : i \in used} |->
     LET e == d[First({i \in used : d[i].name = n})]
     IN IF e.size = 0 THEN <<>> ELSE SubSeq(UnitsOf(e.head), 1, e.size)]
NoFiles == [n \in {} |-> <<>>]
Formatted == disk[0] = Super
Opened == [fd \in {i \in Fildes : mounted /\ fildes[i].used} |->
  [name |-> Entry(fd).name, offset |-> fildes[fd].offset]]
Files == IF mounted THEN Stored(DIR) ELSE NoFiles
Saved == IF Formatted THEN Stored(disk[dir_idx].dir) ELSE NoFiles

Store == INSTANCE FileStore WITH
  Data      <- Buffers,
  files     <- Files,
  open      <- Opened,
  formatted <- Formatted,
  saved     <- Saved

(* For clients that keep to the rules, the file system is the store of     *)
(* FileStore: a read returns what was last written, a file is itself again *)
(* after umount_fs and mount_fs, in this process or another, and one that  *)
(* nobody changed since the last umount_fs survives the end of the process *)
(* between any two calls, and in umount_fs before its first write.         *)
ImplementsFileStore == Store!Spec

(* No block leaks and none is shared: of the blocks that are saved, those  *)
(* not free are the heads of the files, each of one file.                  *)
BlocksOwned == mounted => \A b \in Reserved..(EntriesPerBlock - 1) :
  Cardinality({i \in Slots : DIR[i].used /\ DIR[i].head = b})
    = (IF FAT[b] = FREE THEN 0 ELSE 1)

(* No call hangs, and none dies but mount_fs of a process that has freed a *)
(* chain, where realloc finds what fs_delete and fs_truncate left in front *)
(* of FAT (fs.c:569), and fs_listfiles before there is a DIR.              *)
SessionsEnd == status # "ok" =>
  status = "wild" /\ ~mounted /\ (loaded => FAT[END] = FREE)

(* mount_fs reads FAT into memory (fs.c:226) in a process that has had the *)
(* file system mounted before, too.                                        *)
MountsAgain == loaded /\ ~mounted => status = "ok"

(* An open file is not deleted (fs.c:20 and 548).                          *)
OpenNotDeleted == \A fd \in Fildes :
  mounted /\ fildes[fd].used => Entry(fd).used

=============================================================================
