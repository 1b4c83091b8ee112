---------------------------- MODULE MCFileSystem -----------------------------
(***************************************************************************)
(* Small instances of the file system for TLC.                             *)
(***************************************************************************)
EXTENDS FileSystemProperties, TLC

CONSTANTS n1, n2, x, y

NoFaults == [op \in {"make", "mount", "umount", "first", "again", "read"} |-> {}]

ShortValues == {-5, -2, -1} \cup 0..(2 * DISK_BLOCKS - 1)

(* Memory behind FAT: zeros; or free marks, the numbers of table blocks    *)
(* and of blocks that do not exist, as the sizes, the names and the used   *)
(* flags of DIR are when read as entries.                                  *)
Zeros   == {[b \in Index |-> 0]}
Entries == {[b \in Index |->
  CASE b % 4 = 0 -> FREE [] b % 4 = 1 -> fat_idx [] b % 4 = 2 -> dir_idx
    [] b % 4 = 3 -> DISK_BLOCKS + 1]}

(* Clients that keep to the rules, on a disk of good blocks.               *)
AllRules     == {"close", "match", "keep", "oneblock"}
ShortBuffers == {<<x>>, <<x, y>>}
SomeFaults   == [NoFaults EXCEPT !["mount"] = {1, 3}, !["umount"] = {1}, !["read"] = {1}]

(* What decides how it goes on with them: closed descriptors and deleted   *)
(* entries are set anew before they are used.                              *)
Live(d) == [i \in Slots |-> IF d[i].used THEN d[i] ELSE NewEntry]
LiveState == <<status, mounted, loaded, FAT, Live(DIR), active, touched,
               [i \in Fildes |-> IF fildes[i].used THEN fildes[i] ELSE NewFd],
               [disk EXCEPT ![dir_idx] = IF @.kind = "dir" THEN Live(@.dir) ELSE @]>>

(* Clients that keep to none.                                              *)
AnyBuffers == {<<x>>, <<x, x, x>>}
AnyFaults  == [NoFaults EXCEPT !["make"] = {2}, !["mount"] = {2, 3}, !["umount"] = {2},
                               !["first"] = {1, 2}]

Symmetry == Permutations({n1, n2})

=============================================================================
