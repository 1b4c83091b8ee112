---------------------------- MODULE PrivateStorage ---------------------------
(***************************************************************************)
(* What "Take 4" promises: every thread may have one private array of      *)
(* bytes, which only its own calls change.  A clone is a copy.             *)
(***************************************************************************)
EXTENDS Integers

CONSTANTS
  Threads, Bytes, Zero, None,
  Sizes,        \* the sizes clients ask for
  Ranges,       \* the [offset, length] pairs clients read and write
  MayRefuse     \* may Create fail for want of memory?

VARIABLES
  store,        \* store[t]: the bytes of t, a function on 0..size-1, or None
  out           \* the outcome of the last call

vars == <<store, out>>

Nothing == [i \in {} |-> Zero]
Outcome(t, o, r, g) == out' = [by |-> t, op |-> o, ret |-> r, got |-> g]
Done(t, o)   == Outcome(t, o, 0, Nothing)
Refused(t, o) == Outcome(t, o, -1, Nothing) /\ UNCHANGED store

Positions(r) == r.offset .. (r.offset + r.length - 1)
Within(t, r) == store[t] # None /\ 0 .. (r.offset + r.length - 1) \subseteq DOMAIN store[t]
Buffers(r)   == [0..(r.length - 1) -> Bytes]

Init ==
  /\ store = [t \in Threads |-> None]
  /\ out = [by |-> None, op |-> "none", ret |-> 0, got |-> Nothing]

Create(t) ==
  \/ /\ Done(t, "create")
     /\ store[t] = None
     /\ \E n \in Sizes : store' = [store EXCEPT ![t] = [i \in 0..(n-1) |-> Zero]]
  \/ Refused(t, "create") /\ (store[t] # None \/ MayRefuse)

Write(t, r, buffer) ==
  \/ /\ Done(t, "write")
     /\ Within(t, r)
     /\ store' = [store EXCEPT ![t] = [i \in DOMAIN @ |->
                    IF i \in Positions(r) THEN buffer[i - r.offset] ELSE @[i]]]
  \/ Refused(t, "write") /\ ~Within(t, r)

Read(t, r) ==
  \/ /\ out'.by = t /\ out'.op = "read"
     /\ Within(t, r)
     /\ Outcome(t, "read", 0, [j \in 0..(r.length - 1) |-> store[t][r.offset + j]])
     /\ UNCHANGED store
  \/ Refused(t, "read") /\ ~Within(t, r)

Destroy(t) ==
  \/ /\ Done(t, "destroy")
     /\ store[t] # None
     /\ store' = [store EXCEPT ![t] = None]
  \/ Refused(t, "destroy") /\ store[t] = None

Clone(t, u) ==
  \/ /\ Done(t, "clone")
     /\ store[t] = None /\ store[u] # None
     /\ store' = [store EXCEPT ![t] = store[u]]
  \/ Refused(t, "clone") /\ (store[t] # None \/ store[u] = None)

Next == \E t \in Threads :
  \/ Create(t) \/ Destroy(t)
  \/ \E u \in Threads : Clone(t, u)
  \/ \E r \in Ranges : Read(t, r) \/ \E buffer \in Buffers(r) : Write(t, r, buffer)

Spec == Init /\ [][Next]_vars

=============================================================================
