-------------------------- MODULE ThreadsProperties -------------------------
(***************************************************************************)
(* What the threading library of "Take 3" is meant to guarantee.           *)
(***************************************************************************)
EXTENDS Threads

StackStates == {NULL, Junk, "live", "freed"}

SyncTypeOK ==
  /\ join \in [Threads -> Pointers]
  /\ exit_code \in [Threads -> Args \cup {NULL, Junk}]
  /\ next_in_queue \in [Threads -> Pointers]
  /\ stack \in [Threads -> StackStates]
  /\ sem \in [Sems -> {"none", "live", "freed"}]
  /\ value \in [Sems -> Int]
  /\ queue \in [Sems -> Pointers]
  /\ tmp \in [Threads -> Int]
  /\ joined \in [Threads -> Args \cup {NULL, Junk}]
  /\ posted \in [Sems -> Nat]
  /\ passed \in [Sems -> Nat]

(* Every variable has its type.                                            *)
TypeOK == CpuTypeOK /\ LibTypeOK /\ SyncTypeOK

-----------------------------------------------------------------------------
(* Dispatch.                                                               *)

(* Outside schedule(), running is the thread whose stack the CPU executes  *)
(* and pthread_self() is its tid: what every call of the library that says *)
(* "running" for "the caller" relies on.                                   *)
RunningIsCurrent ==
  status = "up" /\ head # NULL /\ Depth = 0
    => running = cpu /\ pthread_self = tid[cpu]

(* No thread is left RUNNING when the CPU has gone elsewhere; it would     *)
(* never be READY again and never be scheduled.                            *)
OneRunning ==
  status = "up" => \A t \in Threads :
    state[t] = "RUNNING" =>
      \/ t = running
      \/ Depth > 0 /\ Top.at = "install" /\ t = Top.ptr

(* schedule() saves "the context of the running thread" in that thread's   *)
(* tcb: no jmp_buf is of an activation on another thread's stack.          *)
SavesOwnContext == \A t \in Threads : context[t].owner \in {NULL, t}

(* A READY thread can be resumed: its jmp_buf is filled and belongs to an  *)
(* activation that is still on its own stack.  (Not yet for the thread     *)
(* that is just being put away or just being created.)                     *)
ReadyIsResumable ==
  status = "up" => \A t \in Threads :
    state[t] = "READY" =>
      \/ Resumable(t) /\ context[t].owner = t
      \/ Depth > 0 /\ Top.at = "save" /\ t = running
      \/ pc[cpu] \in CreatePoints /\ t = obj[cpu]

(* The ring: next and prev are inverse on the tcbs that are linked, and    *)
(* following next from head visits every created thread.                   *)
InRing == {t \in Threads : state[t] # "ABSENT"} \ {obj[t] : t \in {u \in Threads : pc[u] \in CreatePoints}}
RingSound ==
  status = "up" /\ head # NULL /\ pc[cpu] \notin CreatePoints =>
    /\ \A t \in InRing : next[t] \in Threads /\ prev[next[t]] = t
    /\ InRing = {RingNode[i] : i \in Steps}

(* Every thread has a pthread_t of its own.                                *)
TidsDistinct ==
  \A t, u \in Workers : handle[t] # NULL /\ handle[t] = handle[u] => t = u

(* schedule() gives up with exit(0) only when no thread could run.         *)
ExitsOnlyWhenStuck ==
  status = "exit0" => \A t \in Threads : state[t] \in {"ABSENT", "BLOCKED", "TERMINATED"}

(* A terminated thread never gets another state.                           *)
TerminatedIsFinal ==
  [][\A t \in Threads : state[t] = "TERMINATED" => state'[t] = "TERMINATED"]_vars

(* pthread_exit frees the stack it stands on; once the CPU has left that   *)
(* stack it never comes back to it.                                        *)
NoReturnToFreedStack ==
  [][\A t \in Threads : stack[t] = "freed" /\ cpu # t => cpu' # t]_vars

-----------------------------------------------------------------------------
(* Blocking and waking.                                                    *)

(* A BLOCKED thread is on record: in the join field of a thread that has   *)
(* not passed its wake-up in pthread_exit yet, or in the queue of a live   *)
(* semaphore.  (A thread on record in a queue may still never be woken: of *)
(* two waiters a second post in a row wakes neither.)                      *)
BlockedIsListed ==
  status = "up" => \A t \in Threads :
    state[t] = "BLOCKED" =>
      \/ \E u \in Threads : /\ join[u] = t
                            /\ \/ state[u] # "TERMINATED"
                               \/ u = cpu /\ pc[u] \in {"x_code", "x_wake"}
      \/ \E s \in Sems : sem[s] = "live" /\ t \in Queued(s)

(* A queue is a NULL-terminated list of BLOCKED threads, each in one queue.*)
QueueSound ==
  status = "up" => \A s \in Sems : sem[s] = "live" =>
    /\ NULL \in QueueRange(s)
    /\ \A t \in Queued(s) : state[t] = "BLOCKED"
    /\ \A r \in Sems \ {s} : sem[r] = "live" => Queued(r) \cap Queued(s) = {}

(* When pthread_join gets to read the exit code, the thread it joined has  *)
(* terminated and the code is the one it passed to pthread_exit.           *)
JoinSeesExit ==
  InBase("j_read") =>
    /\ state[obj[cpu]] = "TERMINATED"
    /\ exit_code[obj[cpu]] = obj[obj[cpu]]

(* The tokens of a semaphore are conserved: those posted are in value or   *)
(* were taken by a sem_wait that returned.                                 *)
TokensConserved ==
  \A s \in Sems : sem[s] = "live" =>
    value[s] + passed[s] = InitValue[s] + posted[s]

(* With several waiters a sem_wait can return without having taken a token *)
(* (TokensConserved fails), but no token posted is ever lost.              *)
TokensNotLost ==
  \A s \in Sems : sem[s] = "live" =>
    /\ value[s] >= 0
    /\ value[s] + passed[s] >= InitValue[s] + posted[s]

(* No waiter is left in the queue of a semaphore that has a token.         *)
NoStrandedWaiter ==
  \A s \in Sems : sem[s] = "live" /\ value[s] > 0 => Queued(s) = {}

(* A queue changes only by the caller joining its end or its first thread  *)
(* leaving: waiters are woken in the order they came.                      *)
QueueSeq(s) ==
  LET n == Cardinality(Queued(s)) IN [i \in 1..n |-> QueueNode(s)[i-1]]
WakesInOrder ==
  [][\A s \in Sems : sem[s] = "live" /\ QueueSeq(s)' # QueueSeq(s) =>
       \/ QueueSeq(s)' = Append(QueueSeq(s), running)
       \/ QueueSeq(s) # <<>> /\ QueueSeq(s)' = Tail(QueueSeq(s))]_vars

-----------------------------------------------------------------------------
(* Progress.                                                               *)

(* A client whose main joins its threads gets to the end of main.          *)
MainGetsDone == <>(status = "returned")

=============================================================================
