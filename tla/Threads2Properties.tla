------------------------- MODULE Threads2Properties --------------------------
(***************************************************************************)
(* What the threading library of "Take 2" is meant to guarantee.           *)
(***************************************************************************)
EXTENDS Threads2

(* Every variable has its type.                                            *)
TypeOK == CpuTypeOK /\ LibTypeOK

(* The threads created, from head along next; one that pthread_create is   *)
(* still working on does not count.                                        *)
Steps == 0..Cardinality(Threads)
RingNode[i \in Steps] ==
  IF i = 0 THEN head
  ELSE IF RingNode[i-1] \in Threads THEN next[RingNode[i-1]] ELSE RingNode[i-1]

InTheMaking == {obj[t] : t \in {u \in Threads : pc[u] \in CreatePoints \ {"c_context"}}}
Created     == {t \in Threads : state[t] # "ABSENT"} \ InTheMaking
Order       == [i \in 1..Cardinality(Created) |-> RingNode[i-1]]
Alive       == {t \in Created : state[t] # "TERMINATED"}

RR == INSTANCE RoundRobin WITH
        order   <- IF head = NULL THEN <<Main>> ELSE Order,
        alive   <- IF head = NULL THEN {Main} ELSE Alive,
        turn    <- IF head = NULL THEN Main ELSE running,
        ended   <- status,
        MayFail <- MallocFails

(* The ring, the tcbs' states and the search in schedule() implement turns *)
(* in the order of creation among the threads alive.                       *)
ImplementsRoundRobin == RR!Spec

(* A READY thread gets the CPU, however long the others compute.           *)
NoStarvation ==
  \A t \in Threads : state[t] = "READY" ~> (cpu = t /\ Depth = 0) \/ status # "up"

(* A thread that has called pthread_exit loops until the next tick and     *)
(* never gets the CPU again.                                               *)
ExitIsFinal ==
  [][\A t \in Threads : pc[t] = "x_spin" /\ cpu # t => cpu' # t]_coreVars

=============================================================================
