------------------------------ MODULE Threads2 ------------------------------
(***************************************************************************)
(* "Take 2", the first threading library: the core of ThreadCore and a     *)
(* pthread_exit that only marks the thread.  There is no lock(): SIGALRM   *)
(* is never masked.                                                        *)
(***************************************************************************)
EXTENDS ThreadCore, FiniteSetsExt

Init == CoreInit

(* No tcb, or memory that malloc left as it was, is used as one.           *)
pthread_create ==
  \/ \E w \in Workers : pthread_create_NoMemory(w) \/ \E u \in Uninit : pthread_create_Enter(w, u)
  \/ pthread_create_First \/ pthread_create_Tail \/ pthread_create_Append
  \/ pthread_create_Next \/ pthread_create_Prev \/ pthread_create_Fill \/ pthread_create_Ready
  \/ pthread_create_Context \/ pthread_create_Fault

(* running->state = TERMINATED; while(1){}.  There is no running thread    *)
(* before the first pthread_create.                                        *)
pthread_exit ==
  /\ Calling("exit", NULL)
  /\ running # NULL
  /\ state' = [state EXCEPT ![running] = "TERMINATED"]
  /\ NextCall
  /\ Goto("x_spin")
  /\ UNCHANGED <<status, masked, cpu, act, obj, tail, handle, libVars,
                 tid, next, prev, context>>

pthread_exit_Fault == Calling("exit", NULL) /\ running = NULL /\ Fault

(* Only a RUNNING thread's context is saved.                               *)
Saved == {"RUNNING"}

Library == pthread_create \/ pthread_exit \/ pthread_exit_Fault \/ schedule(Saved) \/ MainReturns

(* The process has ended.                                                  *)
Ended == status # "up" /\ UNCHANGED coreVars

Next == Library \/ Tick \/ Ended

Spec == Init /\ [][Next]_coreVars

(* The CPU never stops and the timer goes on firing.  A client need not get*)
(* to its next call: it may compute until the next tick, every time.       *)
FairSpec == Spec /\ WF_coreVars(Library) /\ WF_coreVars(Tick)

=============================================================================
