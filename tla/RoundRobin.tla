----------------------------- MODULE RoundRobin ------------------------------
(***************************************************************************)
(* What the scheduler promises: the threads alive take turns in the order  *)
(* of their creation, and the process ends by itself only without any.     *)
(***************************************************************************)
EXTENDS Integers, Sequences

CONSTANTS
  Threads, Main,
  MayFail       \* may the process come to grief while it creates a thread?

VARIABLES
  order,        \* the threads created, in the order of their creation
  alive,        \* those that have not exited
  turn,         \* whose turn it is
  ended         \* "up", or how the process ended

vars == <<order, alive, turn, ended>>

Init == order = <<Main>> /\ alive = {Main} /\ turn = Main /\ ended = "up"

(* The thread alive that comes next after the one whose turn it is: after  *)
(* a full round, the same one again.                                       *)
Place(t)    == CHOOSE i \in 1..Len(order) : order[i] = t
Distance(t) == 1 + ((Place(t) - Place(turn) - 1) % Len(order))
Follower    == CHOOSE t \in alive : \A u \in alive : Distance(t) <= Distance(u)

Create(t) ==
  /\ turn \in alive
  /\ \A i \in 1..Len(order) : order[i] # t
  /\ order' = Append(order, t)
  /\ alive' = alive \cup {t}
  /\ UNCHANGED <<turn, ended>>

(* Before another thread exists, exit may end in a fault instead: see End. *)
Exit ==
  /\ turn \in alive
  /\ alive' = alive \ {turn}
  /\ UNCHANGED <<order, turn, ended>>

Switch ==
  /\ alive # {}
  /\ turn' = Follower
  /\ UNCHANGED <<order, alive, ended>>

End ==
  /\ \/ ended' = "exit0" /\ alive = {}
     \/ ended' = "returned" /\ turn = Main /\ Main \in alive
     \/ ended' = "wild" /\ (MayFail \/ Len(order) = 1)
  /\ UNCHANGED <<order, alive, turn>>

Next == ended = "up" /\ (Exit \/ Switch \/ End \/ \E t \in Threads : Create(t))

Spec == Init /\ [][Next]_vars

=============================================================================
