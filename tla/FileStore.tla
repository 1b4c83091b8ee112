------------------------------ MODULE FileStore ------------------------------
(***************************************************************************)
(* What a file system promises its clients, without blocks, tables and     *)
(* directory slots: files are sequences, a descriptor is a place in a      *)
(* file, and umount_fs saves everything.  When the process ends without    *)
(* it, the files come back as they were last saved; only those changed     *)
(* since then may have come to other data, of the same length.             *)
(*                                                                         *)
(* Any call may be refused (-1): then nothing has changed.                 *)
(***************************************************************************)
EXTENDS Integers, Sequences, Functions

CONSTANTS
  Names, Data

VARIABLES
  mounted,
  files,        \* files[n]: what the file n holds
  open,         \* open[fd]: [name, offset]
  formatted,    \* is there a file system on the disk
  saved,        \* its files
  touched,      \* names whose file changed since the last umount_fs
  out           \* what the last call returned, [ret, data]

memory == <<mounted, files, open>>
vars   == <<memory, formatted, saved, touched, out>>

None       == [n \in {} |-> <<>>]
Returns(r) == out' = [ret |-> r, data |-> <<>>]
Reads(s)   == out' = [ret |-> Len(s), data |-> s]
Without(f, k) == Restrict(f, DOMAIN f \ {k})
With(f, k, v) == [i \in DOMAIN f \cup {k} |-> IF i = k THEN v ELSE f[i]]

Init ==
  /\ mounted = FALSE /\ files = None /\ open = None /\ formatted = FALSE /\ saved = None
  /\ touched = {}
  /\ out = [ret |-> 0, data |-> <<>>]

Refuse == Returns(-1) /\ UNCHANGED <<memory, formatted, saved, touched>>

Format ==
  /\ ~mounted
  /\ saved' = None /\ touched' = {}
  /\ Returns(IF formatted' THEN 0 ELSE -1)
  /\ UNCHANGED memory

Mount ==
  /\ Returns(0)
  /\ ~mounted /\ formatted
  /\ mounted' = TRUE /\ files' = saved
  /\ UNCHANGED <<open, formatted, saved, touched>>

Umount ==
  /\ Returns(0)
  /\ mounted /\ open = None
  /\ mounted' = FALSE /\ files' = None /\ saved' = files /\ touched' = {}
  /\ UNCHANGED <<open, formatted>>

Create(n) ==
  /\ Returns(0)
  /\ mounted /\ n \notin DOMAIN files
  /\ files' = With(files, n, <<>>)
  /\ touched' = touched \cup {n}
  /\ UNCHANGED <<mounted, open, formatted, saved>>

IsOpen(n) == \E fd \in DOMAIN open : open[fd].name = n

Delete(n) ==
  /\ Returns(0)
  /\ mounted /\ n \in DOMAIN files /\ ~IsOpen(n)
  /\ files' = Without(files, n)
  /\ touched' = touched \cup {n}
  /\ UNCHANGED <<mounted, open, formatted, saved>>

Open(n) ==
  /\ mounted /\ n \in DOMAIN files
  /\ out'.ret \notin DOMAIN open /\ out'.ret >= 0 /\ out'.data = <<>>
  /\ open' = With(open, out'.ret, [name |-> n, offset |-> 0])
  /\ UNCHANGED <<mounted, files, formatted, saved, touched>>

Close(fd) ==
  /\ Returns(0)
  /\ open' = Without(open, fd)
  /\ UNCHANGED <<mounted, files, formatted, saved, touched>>

Content(fd) == files[open[fd].name]
Moved(fd, o) == open' = [open EXCEPT ![fd].offset = o]

Seek(fd) ==
  /\ Returns(0)
  /\ \E o \in 0..Len(Content(fd)) : Moved(fd, o)
  /\ UNCHANGED <<mounted, files, formatted, saved, touched>>

Size(fd) ==
  /\ Returns(Len(Content(fd)))
  /\ UNCHANGED <<memory, formatted, saved, touched>>

Read(fd) ==
  /\ open[fd].offset <= Len(Content(fd))
  /\ \E o \in open[fd].offset..Len(Content(fd)) :
       /\ Reads(SubSeq(Content(fd), open[fd].offset + 1, o))
       /\ Moved(fd, o)
  /\ UNCHANGED <<mounted, files, formatted, saved, touched>>

(* The saved files of the names in S may have come to other data.          *)
Damaged(S) ==
  /\ DOMAIN saved' = DOMAIN saved
  /\ \A n \in DOMAIN saved : /\ Len(saved'[n]) = Len(saved[n])
                             /\ n \notin S => saved'[n] = saved[n]

Changed(fd, content) ==
  /\ files' = [files EXCEPT ![open[fd].name] = content]
  /\ touched' = touched \cup {open[fd].name}
  /\ Damaged(touched')
  /\ UNCHANGED <<mounted, formatted>>

Truncate(fd) ==
  /\ Returns(0)
  /\ \E n \in 0..Len(Content(fd)) : Changed(fd, SubSeq(Content(fd), 1, n))
  /\ UNCHANGED open

(* The data go to the place of the descriptor, over what is there and past *)
(* the end; all of them, or the call is refused.                           *)
Overwritten(s, o, data) ==
  SubSeq(s, 1, o) \o data \o SubSeq(s, o + Len(data) + 1, Len(s))

Write(fd, data) ==
  /\ Returns(Len(data))
  /\ open[fd].offset <= Len(Content(fd))
  /\ Changed(fd, Overwritten(Content(fd), open[fd].offset, data))
  /\ Moved(fd, open[fd].offset + Len(data))

Write_Fails(fd) ==
  /\ Returns(-1)
  /\ touched' = touched \cup {open[fd].name}
  /\ UNCHANGED <<memory, formatted, saved>>

(* A listing says something only of a mounted file system.                 *)
List ==
  /\ mounted => Range(out'.data) \cap Names = DOMAIN files
  /\ UNCHANGED <<memory, formatted, saved, touched>>

Exit ==
  /\ Returns(0)
  /\ mounted' = FALSE /\ files' = None /\ open' = None /\ touched' = {}
  /\ UNCHANGED <<formatted, saved>>

(* data: any sequence that a client writes.                                *)
Next ==
  \/ Refuse \/ Format \/ Mount \/ Umount \/ Exit
  \/ \E n \in Names : Create(n) \/ Delete(n) \/ Open(n)
  \/ \E fd \in DOMAIN open : mounted /\
       (Close(fd) \/ Seek(fd) \/ Size(fd) \/ Read(fd) \/ Truncate(fd)
        \/ Write_Fails(fd) \/ \E data \in Data : Write(fd, data))
  \/ List

Spec == Init /\ [][Next]_vars

=============================================================================
