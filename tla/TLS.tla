--------------------------------- MODULE TLS ---------------------------------
(***************************************************************************)
(* "Take 4", thread-local storage: a thread's storage is an array of pages,*)
(* tls_clone shares the pages of another thread and tls_write copies a     *)
(* shared page before it changes it.  Clients make one call at a time: the *)
(* library takes no lock.  Between two calls every page is PROT_NONE.      *)
(***************************************************************************)
EXTENDS Integers, FiniteSets, Functions

CONSTANTS
  Threads,      \* the threads
  Pages,        \* bound: the struct pages that can be in use at once
  PageSize,     \* getpagesize()
  Word,         \* unsigned int counts modulo Word
  Bytes, Zero,  \* the values of a byte, and the value of a byte fresh from mmap
  None,
  Sizes,        \* the sizes clients pass to tls_create
  Ranges,       \* the [offset, length] pairs clients pass to tls_write, tls_read
  MmapFails     \* may mmap fail?

ASSUME TLSAssumption ==
  /\ IsFiniteSet(Threads) /\ IsFiniteSet(Pages)
  /\ PageSize \in Nat \ {0} /\ Word \in Nat \ {0}
  /\ Zero \in Bytes
  /\ Sizes \subseteq 0..(Word - 1)
  /\ Ranges \subseteq [offset : 0..(Word - 1), length : 0..(Word - 1)]
  /\ MmapFails \in BOOLEAN

(* (size + page_size - 1) / page_size, unsigned.                           *)
PageCount(n) == ((n + PageSize - 1) % Word) \div PageSize

(* The page arrays of a storage of n bytes, and its possible contents.     *)
Arrays(n)   == [0..(PageCount(n) - 1) -> Pages]
Contents(n) == [0..(n - 1) -> Bytes]

ASSUME NoneAssumption == \A n \in Sizes :
  None \notin [size : {n}, pages : Arrays(n)] \cup Contents(n)

VARIABLES
  status,       \* "up", or how the process ended
  tls,          \* tls[t]: the size and pages of t's node of the list, or None
  mapped,       \* the pages whose memory is mapped
  ref_count,    \* ref_count[p]: threads that share p, as counted in struct page
  bytes,        \* bytes[p]: the memory of p
  lost,         \* history: pages a tls_create that failed has left mapped
  out           \* the outcome of the last call

memVars == <<mapped, ref_count, bytes, lost>>
vars    == <<status, tls, memVars, out>>

Offsets == 0..(PageSize - 1)
Blank   == [o \in Offsets |-> Zero]
Nothing == [i \in {} |-> Zero]

Init ==
  /\ status = "up"
  /\ tls = [t \in Threads |-> None]
  /\ mapped = {}
  /\ ref_count = [p \in Pages |-> 0]
  /\ bytes = [p \in Pages |-> Blank]
  /\ lost = {}
  /\ out = [by |-> None, op |-> "none", ret |-> 0, got |-> Nothing]

-----------------------------------------------------------------------------
Outcome(t, o, r, g) == out' = [by |-> t, op |-> o, ret |-> r, got |-> g]
Refused(t, o) ==
  /\ Outcome(t, o, -1, Nothing)
  /\ UNCHANGED <<status, tls, memVars>>

(* malloc and mmap: f gives every index a page of its own not in use.      *)
Fresh(indices) == Injection(indices, Pages \ mapped)

Has(t)   == tls[t] # None
Holds(t) == IF Has(t) THEN Range(tls[t].pages) ELSE {}

(* offset + length > size, and the bytes the loop visits: both unsigned.   *)
Stop(r)      == (r.offset + r.length) % Word
InBounds(t, r) == Has(t) /\ Stop(r) <= tls[t].size
Positions(r) == r.offset .. (Stop(r) - 1)
Touched(r)   == {i \div PageSize : i \in Positions(r)}
Buffers(r)   == [0..(r.length - 1) -> Bytes]

-----------------------------------------------------------------------------
tls_create(t, n) ==
  /\ ~Has(t)
  /\ \E pages \in Fresh(0..(PageCount(n) - 1)) :
       /\ tls' = [tls EXCEPT ![t] = [size |-> n, pages |-> pages]]
       /\ mapped' = mapped \cup Range(pages)
       /\ ref_count' = [p \in Pages |-> IF p \in Range(pages) THEN 1 ELSE ref_count[p]]
       /\ bytes' = [p \in Pages |-> IF p \in Range(pages) THEN Blank ELSE bytes[p]]
  /\ Outcome(t, "create", 0, Nothing)
  /\ UNCHANGED <<status, lost>>

(* mmap fails for page i: the node goes, the pages before it stay.         *)
tls_create_NoMemory(t, n) ==
  /\ MmapFails /\ ~Has(t)
  /\ \E i \in 0..(PageCount(n) - 1) : \E pages \in Fresh(0..(i - 1)) :
       /\ mapped' = mapped \cup Range(pages)
       /\ ref_count' = [p \in Pages |-> IF p \in Range(pages) THEN 1 ELSE ref_count[p]]
       /\ bytes' = [p \in Pages |-> IF p \in Range(pages) THEN Blank ELSE bytes[p]]
       /\ lost' = lost \cup Range(pages)
  /\ Outcome(t, "create", -1, Nothing)
  /\ UNCHANGED <<status, tls>>

tls_create_Exists(t) == Has(t) /\ Refused(t, "create")

-----------------------------------------------------------------------------
(* Slips of tls_write, tls_destroy and tls_clone.                          *)
Shared_Never(t, r) == {}                 \* writes the shared page
Left_Uncounted(t, r) == {}               \* p->ref_count-- forgotten

tls_destroy_TestsFirst(t) ==             \* ref_count == 0 before the decrement
  /\ Has(t)
  /\ ref_count' = [p \in Pages |-> IF p \in Holds(t) THEN ref_count[p] - 1 ELSE ref_count[p]]
  /\ tls' = [tls EXCEPT ![t] = None]
  /\ Outcome(t, "destroy", 0, Nothing)
  /\ UNCHANGED <<status, mapped, bytes, lost>>

tls_clone_Uncounted(t, u) ==             \* ref_count++ forgotten
  /\ ~Has(t) /\ Has(u)
  /\ tls' = [tls EXCEPT ![t] = tls[u]]
  /\ Outcome(t, "clone", 0, Nothing)
  /\ UNCHANGED <<status, memVars>>

-----------------------------------------------------------------------------
(* The pages tls_write is about to change and others share, by index, and  *)
(* the pages it leaves to the others.                                      *)
Shared(t, r) == {k \in Touched(r) : ref_count[tls[t].pages[k]] > 1}
Left(t, r)   == {tls[t].pages[k] : k \in Shared(t, r)}

(* The pages of t with copies in place of the shared ones, and what the    *)
(* loop leaves in page k.                                                  *)
NewPages(t, r, copy) ==
  [k \in DOMAIN tls[t].pages |-> IF k \in Shared(t, r) THEN copy[k] ELSE tls[t].pages[k]]
Written(t, r, buffer, k) ==
  [o \in Offsets |-> LET i == k * PageSize + o IN
     IF i \in Positions(r) THEN buffer[i - r.offset] ELSE bytes[tls[t].pages[k]][o]]

tls_write(t, r, buffer) ==
  /\ InBounds(t, r) /\ Touched(r) \subseteq DOMAIN tls[t].pages
  /\ \E copy \in Fresh(Shared(t, r)) :
       LET pages    == NewPages(t, r, copy)
           index(p) == CHOOSE k \in Touched(r) : pages[k] = p
       IN  /\ tls' = [tls EXCEPT ![t] = [size |-> tls[t].size, pages |-> pages]]
           /\ mapped' = mapped \cup Range(copy)
           /\ ref_count' = [p \in Pages |-> IF p \in Range(copy) THEN 1
                                            ELSE IF p \in Left(t, r) THEN ref_count[p] - 1
                                            ELSE ref_count[p]]
           /\ bytes' = [p \in Pages |-> IF \E k \in Touched(r) : pages[k] = p
                                        THEN Written(t, r, buffer, index(p)) ELSE bytes[p]]
  /\ Outcome(t, "write", 0, Nothing)
  /\ UNCHANGED <<status, lost>>

(* mmap fails for the copy: tls_unprotect of it exits the process.         *)
tls_write_NoMemory(t, r) ==
  /\ MmapFails
  /\ InBounds(t, r) /\ Touched(r) \subseteq DOMAIN tls[t].pages
  /\ Shared(t, r) # {}
  /\ status' = "exit1"
  /\ UNCHANGED <<tls, memVars, out>>

tls_read(t, r) ==
  /\ InBounds(t, r) /\ Touched(r) \subseteq DOMAIN tls[t].pages
  /\ Outcome(t, "read", 0,
       [j \in {i - r.offset : i \in Positions(r)} |->
          LET i == r.offset + j
          IN  bytes[tls[t].pages[i \div PageSize]][i % PageSize]])
  /\ UNCHANGED <<status, tls, memVars>>

tls_access_OutOfBounds(t, r) ==
  /\ ~InBounds(t, r)
  /\ \E o \in {"write", "read"} : Refused(t, o)

(* page_num wrapped round to fewer pages than size needs.                  *)
tls_access_Fault(t, r) ==
  /\ InBounds(t, r) /\ ~(Touched(r) \subseteq DOMAIN tls[t].pages)
  /\ status' = "wild"
  /\ UNCHANGED <<tls, memVars, out>>

-----------------------------------------------------------------------------
tls_destroy(t) ==
  /\ Has(t)
  /\ ref_count' = [p \in Pages |-> IF p \in Holds(t) THEN ref_count[p] - 1 ELSE ref_count[p]]
  /\ mapped' = mapped \ {p \in Holds(t) : ref_count[p] = 1}
  /\ tls' = [tls EXCEPT ![t] = None]
  /\ Outcome(t, "destroy", 0, Nothing)
  /\ UNCHANGED <<status, bytes, lost>>

tls_destroy_None(t) == ~Has(t) /\ Refused(t, "destroy")

tls_clone(t, u) ==
  /\ ~Has(t) /\ Has(u)
  /\ tls' = [tls EXCEPT ![t] = tls[u]]
  /\ ref_count' = [p \in Pages |-> IF p \in Holds(u) THEN ref_count[p] + 1 ELSE ref_count[p]]
  /\ Outcome(t, "clone", 0, Nothing)
  /\ UNCHANGED <<status, mapped, bytes, lost>>

tls_clone_Refused(t, u) == (Has(t) \/ ~Has(u)) /\ Refused(t, "clone")

-----------------------------------------------------------------------------
Access(t) == \E r \in Ranges :
  \/ \E buffer \in Buffers(r) : tls_write(t, r, buffer)
  \/ tls_write_NoMemory(t, r)
  \/ tls_read(t, r)
  \/ tls_access_OutOfBounds(t, r)
  \/ tls_access_Fault(t, r)

TlsCall(t) ==
  \/ \E n \in Sizes : tls_create(t, n) \/ tls_create_NoMemory(t, n)
  \/ tls_create_Exists(t)
  \/ Access(t)
  \/ tls_destroy(t) \/ tls_destroy_None(t)
  \/ \E u \in Threads : tls_clone(t, u) \/ tls_clone_Refused(t, u)

Next ==
  \/ status = "up" /\ \E t \in Threads : TlsCall(t)
  \/ status # "up" /\ UNCHANGED vars

Spec == Init /\ [][Next]_vars

=============================================================================
