----------------------------- MODULE VirtualDisk -----------------------------
(***************************************************************************)
(* "Take 5", disk.c: a file of DISK_BLOCKS blocks that plays the disk.     *)
(* What a block holds is kept with a tag: bytes of a file, or one of the   *)
(* tables that fs.c copies to the disk as a whole.                         *)
(***************************************************************************)
EXTENDS Integers

CONSTANTS
  DISK_BLOCKS,  \* number of blocks on the disk
  BLOCK_SIZE,   \* units of data in a block
  Zero          \* a unit that make_disk has written

VARIABLES
  active,       \* is the virtual disk open (active)
  disk          \* disk[b]: the content of block b

Blocks == 0..(DISK_BLOCKS - 1)

File(units) == [kind |-> "file", units |-> units]
Erased == File([u \in 1..BLOCK_SIZE |-> Zero])

(* No make_disk has created the file yet.                                  *)
Absent == [kind |-> "absent"]
Exists == disk[0] # Absent

make_disk == disk' = [b \in Blocks |-> Erased]

OpenWorks == Exists /\ ~active

(* block_read and block_write return 0, unless the device itself fails.    *)
BlockWorks(b) == active /\ b \in Blocks

=============================================================================
