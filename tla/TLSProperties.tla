---------------------------- MODULE TLSProperties ----------------------------
(***************************************************************************)
(* What thread-local storage is meant to guarantee.                        *)
(***************************************************************************)
EXTENDS TLS

Nodes    == UNION {[size : {n}, pages : Arrays(n)] : n \in Sizes}
Calls    == {"none", "create", "write", "read", "destroy", "clone"}
Outcomes == [by : Threads \cup {None}, op : Calls, ret : {0, -1},
             got : UNION {Contents(n) : n \in 0..Word}]

(* Every variable has its type.                                            *)
TypeOK ==
  /\ status \in {"up", "exit1", "wild"}
  /\ tls \in [Threads -> Nodes \cup {None}]
  /\ mapped \subseteq Pages /\ lost \subseteq Pages
  /\ ref_count \in [Pages -> Nat]
  /\ bytes \in [Pages -> [Offsets -> Bytes]]
  /\ out \in Outcomes

(* The ref_count of a page is the number of threads that share it: one too *)
(* low and tls_write changes a page under another thread, or tls_destroy   *)
(* unmaps it; one too high and it is never unmapped.                       *)
RefCountsExact ==
  \A p \in mapped \ lost : ref_count[p] = Cardinality({t \in Threads : p \in Holds(t)})

(* The memory mapped is the memory some thread's storage consists of,      *)
(* except for the pages that a failed tls_create leaves behind.            *)
MappedIsHeld == mapped \ lost = UNION {Holds(t) : t \in Threads}

(* The bytes of a thread's storage: those in its pages; bytes that no page *)
(* has room for, which only a size close to 2^32 makes, were never written.*)
ByteAt(t, i) ==
  IF i \div PageSize \in DOMAIN tls[t].pages
    THEN bytes[tls[t].pages[i \div PageSize]][i % PageSize]
    ELSE Zero
Store == [t \in Threads |->
  IF Has(t) THEN [i \in 0..(tls[t].size - 1) |-> ByteAt(t, i)] ELSE None]

Private == INSTANCE PrivateStorage WITH store <- Store, MayRefuse <- MmapFails

(* Sharing pages and copying them on the first write cannot be told from   *)
(* private storage that tls_clone copies at once: every call returns what  *)
(* it would return there, or the process ends.                             *)
ImplementsPrivate == Private!Spec

(* tls_read returns 0 only for a range that ends within the storage, all   *)
(* of which it has copied to the buffer.                                   *)
ReadsInBounds ==
  [][\A t \in Threads, r \in Ranges :
       tls_read(t, r) => r.offset + r.length <= tls[t].size]_vars

=============================================================================
