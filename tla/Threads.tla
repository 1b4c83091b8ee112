------------------------------ MODULE Threads -------------------------------
(***************************************************************************)
(* "Take 3", the threading library extension: the core of ThreadCore plus  *)
(* pthread_exit, pthread_join and counting semaphores.  lock() masks       *)
(* SIGALRM for the whole process and there is one CPU, so the code between *)
(* lock() and unlock() is one step.                                        *)
(***************************************************************************)
EXTENDS ThreadCore, FiniteSetsExt

CONSTANTS
  Sems,         \* the sem_t objects of the client
  InitValue     \* InitValue[s]: the value sem_init gives s

ASSUME SemAssumption ==
  /\ InitValue \in [Sems -> Int]
  /\ Sems \subseteq Args /\ {NULL, Junk} \cap Sems = {}

VARIABLES
  join, exit_code, next_in_queue, stack,  \* further fields of struct tcb
  sem,          \* sem[s]: "none", "live" or "freed": the struct my_sem_t
  value, queue, \* its fields
  tmp,          \* tmp[t]: the value loaded by t's value-- but not yet stored
  joined,       \* joined[t]: *value_ptr of t's last pthread_join
  posted, passed  \* history: sem_post and sem_wait calls that returned 0

tcb3Vars == <<join, exit_code, next_in_queue, stack>>
semVars  == <<sem, value, queue, tmp, posted, passed>>
syncVars == <<tcb3Vars, semVars, joined>>
vars     == <<coreVars, syncVars>>

Init ==
  /\ CoreInit
  /\ join = [t \in Threads |-> NULL]
  /\ exit_code = [t \in Threads |-> NULL]
  /\ next_in_queue = [t \in Threads |-> NULL]
  /\ stack = [t \in Threads |-> NULL]
  /\ sem = [s \in Sems |-> "none"]
  /\ value = [s \in Sems |-> 0]
  /\ queue = [s \in Sems |-> NULL]
  /\ tmp = [t \in Threads |-> 0]
  /\ joined = [t \in Threads |-> NULL]
  /\ posted = [s \in Sems |-> 0]
  /\ passed = [s \in Sems |-> 0]

-----------------------------------------------------------------------------
(* pthread_create, with the fields that only Take 3 has.                   *)
Fresh(f, t, u) == [f EXCEPT ![t] = u]

CreateEnter == \E w \in Workers, u \in Uninit :
  /\ pthread_create_Enter(w, u)
  /\ join' = Fresh(join, w, u)
  /\ exit_code' = Fresh(exit_code, w, u)
  /\ next_in_queue' = Fresh(next_in_queue, w, u)
  /\ stack' = Fresh(stack, w, u)
  /\ UNCHANGED <<semVars, joined>>

CreateFirst == \E u \in Uninit :
  /\ pthread_create_First
  /\ join' = [join EXCEPT ![Main] = NULL]
  /\ exit_code' = Fresh(exit_code, Main, u)
  /\ next_in_queue' = Fresh(next_in_queue, Main, u)
  /\ stack' = Fresh(stack, Main, u)
  /\ UNCHANGED <<semVars, joined>>

CreateFill ==
  /\ pthread_create_Fill
  /\ join' = [join EXCEPT ![obj[cpu]] = NULL]
  /\ UNCHANGED <<exit_code, next_in_queue, stack, semVars, joined>>

CreateContext ==
  /\ pthread_create_Context
  /\ stack' = [stack EXCEPT ![obj[cpu]] = "live"]
  /\ UNCHANGED <<join, exit_code, next_in_queue, semVars, joined>>

CreateOther ==
  /\ \/ \E w \in Workers : pthread_create_NoMemory(w)
     \/ pthread_create_Tail
     \/ pthread_create_Append
     \/ pthread_create_Next
     \/ pthread_create_Prev
     \/ pthread_create_Ready
     \/ pthread_create_Fault
  /\ UNCHANGED syncVars

pthread_create == CreateEnter \/ CreateFirst \/ CreateFill \/ CreateContext \/ CreateOther

-----------------------------------------------------------------------------
(* Slips in pthread_exit and pthread_join.                                 *)
pthread_exit_Enter_NotTerminated(v) ==   \* state = TERMINATED forgotten
  /\ Calling("exit", v) /\ running # NULL
  /\ obj' = [obj EXCEPT ![cpu] = v]
  /\ NextCall
  /\ Goto("x_code")
  /\ UNCHANGED <<status, masked, cpu, act, tail, handle, libVars, tcbVars, syncVars>>

pthread_exit_Wake_NoWake ==              \* the joiner is not made READY
  /\ InBase("x_wake") /\ join[running] # Junk
  /\ Goto("x_free")
  /\ UNCHANGED <<status, masked, cpu, act, ip, obj, tail, handle, libVars, tcbVars, syncVars>>

(* pthread_exit runs with SIGALRM open: a tick between its stores moves    *)
(* the CPU away from a thread that is TERMINATED already.                  *)
pthread_exit_Enter(v) ==
  /\ Calling("exit", v) /\ running # NULL
  /\ state' = [state EXCEPT ![running] = "TERMINATED"]
  /\ obj' = [obj EXCEPT ![cpu] = v]
  /\ NextCall
  /\ Goto("x_code")
  /\ UNCHANGED <<status, masked, cpu, act, tail, handle, libVars,
                 tid, next, prev, context, syncVars>>

pthread_exit_Code ==
  /\ InBase("x_code")
  /\ exit_code' = IF obj[cpu] = NULL THEN exit_code
                  ELSE [exit_code EXCEPT ![running] = obj[cpu]]
  /\ Goto("x_wake")
  /\ UNCHANGED <<status, masked, cpu, act, ip, obj, tail, handle, libVars, tcbVars,
                 join, next_in_queue, stack, semVars, joined>>

pthread_exit_Wake ==
  /\ InBase("x_wake") /\ join[running] # Junk
  /\ state' = IF join[running] = NULL THEN state
              ELSE [state EXCEPT ![join[running]] = "READY"]
  /\ Goto("x_free")
  /\ UNCHANGED <<status, masked, cpu, act, ip, obj, tail, handle, libVars,
                 tid, next, prev, context, syncVars>>

(* free() of the stack this very code is running on, then while(1){}.      *)
pthread_exit_Free ==
  /\ InBase("x_free") /\ stack[running] \in {"live", NULL}
  /\ stack' = IF stack[running] = NULL THEN stack
              ELSE [stack EXCEPT ![running] = "freed"]
  /\ Goto("x_spin")
  /\ UNCHANGED <<status, masked, cpu, act, ip, obj, tail, handle, libVars, tcbVars,
                 join, exit_code, next_in_queue, semVars, joined>>

pthread_exit == \/ \E v \in Args : pthread_exit_Enter(v)
                \/ pthread_exit_Code \/ pthread_exit_Wake \/ pthread_exit_Free

-----------------------------------------------------------------------------
(* The nodes schedule and pthread_join meet when they walk from head.      *)
Steps == 0..Cardinality(Threads)
RingNode[i \in Steps] ==
  IF i = 0 THEN head
  ELSE IF RingNode[i-1] \in Threads THEN next[RingNode[i-1]] ELSE RingNode[i-1]

RingHits(h) == {i \in Steps : RingNode[i] \in Threads /\ tid[RingNode[i]] = h}
RingEnds    == \E i \in Steps : RingNode[i] \notin Threads
FirstHit(h) == RingNode[Min(RingHits(h))]

(* The client joins a thread whose handle pthread_create has filled in.    *)
JoinsHandle(w) == Calling("join", w) /\ handle[w] # NULL

pthread_join_Call_NoBlock(w) ==          \* registers but does not block
  /\ JoinsHandle(w) /\ RingHits(handle[w]) # {}
  /\ LET p == FirstHit(handle[w]) IN
       /\ join' = IF state[p] # "TERMINATED" /\ join[p] = NULL
                  THEN [join EXCEPT ![p] = running] ELSE join
       /\ obj' = [obj EXCEPT ![cpu] = p]
  /\ masked' = FALSE
  /\ NextCall
  /\ Goto("j_call")
  /\ UNCHANGED <<status, cpu, act, tail, handle, libVars, tcbVars,
                 exit_code, next_in_queue, stack, semVars, joined>>

pthread_join_Call(w) ==
  /\ JoinsHandle(w) /\ RingHits(handle[w]) # {}
  /\ LET p == FirstHit(handle[w]) IN
       /\ IF state[p] # "TERMINATED" /\ join[p] = NULL
            THEN /\ state' = [state EXCEPT ![running] = "BLOCKED"]
                 /\ join' = [join EXCEPT ![p] = running]
            ELSE UNCHANGED <<state, join>>
       /\ obj' = [obj EXCEPT ![cpu] = p]
  /\ masked' = FALSE
  /\ NextCall
  /\ Goto("j_call")
  /\ UNCHANGED <<status, cpu, act, tail, handle, libVars, tid, next, prev, context,
                 exit_code, next_in_queue, stack, semVars, joined>>

(* No tcb has that tid: the walk goes round the ring forever, locked.      *)
pthread_join_Hang(w) ==
  /\ JoinsHandle(w) /\ RingHits(handle[w]) = {} /\ ~RingEnds
  /\ status' = "hung" /\ masked' = TRUE
  /\ UNCHANGED <<cpuVars, tail, handle, libVars, tcbVars, syncVars>>

pthread_join_Schedule ==
  /\ InBase("j_call")
  /\ Goto("j_read")
  /\ PushSchedule
  /\ UNCHANGED <<status, masked, cpu, ip, obj, tail, handle, libVars, tcbVars, syncVars>>

pthread_join_Read ==
  /\ InBase("j_read")
  /\ joined' = IF exit_code[obj[cpu]] = NULL THEN joined
               ELSE [joined EXCEPT ![cpu] = exit_code[obj[cpu]]]
  /\ Goto("user")
  /\ UNCHANGED <<status, masked, cpu, act, ip, obj, tail, handle, libVars, tcbVars,
                 tcb3Vars, semVars>>

pthread_join == \/ \E w \in Workers : pthread_join_Call(w) \/ pthread_join_Hang(w)
                \/ pthread_join_Schedule \/ pthread_join_Read

-----------------------------------------------------------------------------
(* sem_init and sem_destroy do not take the lock.  The client initialises  *)
(* a semaphore once; a zeroed sem_t counts as not initialised.             *)
sem_init(s) ==
  /\ Calling("init", s) /\ sem[s] = "none"
  /\ NextCall
  /\ sem' = [sem EXCEPT ![s] = "live"]
  /\ value' = [value EXCEPT ![s] = InitValue[s]]
  /\ queue' = [queue EXCEPT ![s] = NULL]
  /\ UNCHANGED <<status, masked, cpu, pc, act, obj, tail, handle, libVars, tcbVars,
                 tcb3Vars, tmp, posted, passed, joined>>

(* sem_init without memory, sem_destroy of a semaphore with waiters and    *)
(* every call on one that is not live return -1 and change nothing.        *)
sem_Error ==
  /\ \E s \in Sems : \/ Calling("init", s) /\ MallocFails
                     \/ Calling("destroy", s) /\ (sem[s] # "live" \/ queue[s] # NULL)
                     \/ Calling("wait", s) /\ sem[s] # "live"
                     \/ Calling("post", s) /\ sem[s] # "live"
  /\ NextCall
  /\ masked' = FALSE
  /\ UNCHANGED <<status, cpu, pc, act, obj, tail, handle, libVars, tcbVars, syncVars>>

sem_destroy(s) ==
  /\ Calling("destroy", s) /\ sem[s] = "live" /\ queue[s] = NULL
  /\ NextCall
  /\ sem' = [sem EXCEPT ![s] = "freed"]
  /\ UNCHANGED <<status, masked, cpu, pc, act, obj, tail, handle, libVars, tcbVars,
                 tcb3Vars, value, queue, tmp, posted, passed, joined>>

(* The nodes met when walking the queue of s.                              *)
QueueNode(s) ==
  LET node[i \in Steps] ==
        IF i = 0 THEN queue[s]
        ELSE IF node[i-1] \in Threads THEN next_in_queue[node[i-1]] ELSE node[i-1]
  IN  node
QueueRange(s) == {QueueNode(s)[i] : i \in Steps}
Queued(s)     == QueueRange(s) \cap Threads
QueueTail(s)  == CHOOSE t \in Queued(s) : next_in_queue[t] = NULL

(* Slips in sem_wait.                                                      *)
BlockWith(s, q, n) ==                    \* sem_wait_Block leaving queues q and n
  /\ Calling("wait", s) /\ sem[s] = "live" /\ value[s] = 0
  /\ running # NULL /\ NULL \in QueueRange(s)
  /\ NextCall
  /\ state' = [state EXCEPT ![running] = "BLOCKED"]
  /\ queue' = q /\ next_in_queue' = n
  /\ obj' = [obj EXCEPT ![cpu] = s]
  /\ masked' = FALSE
  /\ Goto("w_call")
  /\ UNCHANGED <<status, cpu, act, tail, handle, libVars, tid, next, prev, context,
                 join, exit_code, stack, sem, value, tmp, posted, passed, joined>>
sem_wait_Block_Replaces(s) ==
  BlockWith(s, [queue EXCEPT ![s] = running], next_in_queue)
sem_wait_Block_Lifo(s) ==
  BlockWith(s, [queue EXCEPT ![s] = running],
            [next_in_queue EXCEPT ![running] = queue[s]])

sem_wait_Check_Returns ==                \* back from schedule(), no value--
  /\ InBase("w_check") /\ sem[obj[cpu]] = "live"
  /\ Goto("user") /\ passed' = [passed EXCEPT ![obj[cpu]] = @ + 1]
  /\ UNCHANGED <<status, masked, cpu, act, ip, obj, tail, handle, libVars, tcbVars,
                 tcb3Vars, sem, value, queue, tmp, posted, joined>>

sem_wait_Check_Unchecked ==              \* value-- whatever value is
  /\ InBase("w_check") /\ sem[obj[cpu]] = "live"
  /\ Goto("w_load")
  /\ UNCHANGED <<status, masked, cpu, act, ip, obj, tail, handle, libVars, tcbVars,
                 syncVars>>

sem_wait_Take(s) ==
  /\ Calling("wait", s) /\ sem[s] = "live" /\ value[s] > 0
  /\ NextCall
  /\ value' = [value EXCEPT ![s] = @ - 1]
  /\ passed' = [passed EXCEPT ![s] = @ + 1]
  /\ masked' = FALSE
  /\ UNCHANGED <<status, cpu, pc, act, obj, tail, handle, libVars, tcbVars,
                 tcb3Vars, sem, queue, tmp, posted, joined>>

(* With a negative value neither branch is taken, nor unlock() reached.    *)
sem_wait_Negative(s) ==
  /\ Calling("wait", s) /\ sem[s] = "live" /\ value[s] < 0
  /\ NextCall
  /\ passed' = [passed EXCEPT ![s] = @ + 1]
  /\ masked' = TRUE
  /\ UNCHANGED <<status, cpu, pc, act, obj, tail, handle, libVars, tcbVars,
                 tcb3Vars, sem, value, queue, tmp, posted, joined>>

sem_wait_Block(s) ==
  /\ Calling("wait", s) /\ sem[s] = "live" /\ value[s] = 0
  /\ running # NULL /\ NULL \in QueueRange(s)
  /\ NextCall
  /\ state' = [state EXCEPT ![running] = "BLOCKED"]
  /\ IF queue[s] = NULL
       THEN queue' = [queue EXCEPT ![s] = running] /\ UNCHANGED next_in_queue
       ELSE /\ next_in_queue' = [next_in_queue EXCEPT ![QueueTail(s)] = running]
            /\ UNCHANGED queue
  /\ obj' = [obj EXCEPT ![cpu] = s]
  /\ masked' = FALSE
  /\ Goto("w_call")
  /\ UNCHANGED <<status, cpu, act, tail, handle, libVars, tid, next, prev, context,
                 join, exit_code, stack, sem, value, tmp, posted, passed, joined>>

sem_wait_Schedule ==
  /\ InBase("w_call")
  /\ Goto("w_check")
  /\ PushSchedule
  /\ UNCHANGED <<status, masked, cpu, ip, obj, tail, handle, libVars, tcbVars, syncVars>>

(* Back from schedule(), and without the lock: if (value > 0) value--.     *)
sem_wait_Check ==
  /\ InBase("w_check") /\ sem[obj[cpu]] = "live"
  /\ IF value[obj[cpu]] > 0
       THEN Goto("w_load") /\ UNCHANGED passed
       ELSE Goto("user") /\ passed' = [passed EXCEPT ![obj[cpu]] = @ + 1]
  /\ UNCHANGED <<status, masked, cpu, act, ip, obj, tail, handle, libVars, tcbVars,
                 tcb3Vars, sem, value, queue, tmp, posted, joined>>

sem_wait_Load ==
  /\ InBase("w_load") /\ sem[obj[cpu]] = "live"
  /\ tmp' = [tmp EXCEPT ![cpu] = value[obj[cpu]]]
  /\ Goto("w_store")
  /\ UNCHANGED <<status, masked, cpu, act, ip, obj, tail, handle, libVars, tcbVars,
                 tcb3Vars, sem, value, queue, posted, passed, joined>>

sem_wait_Store ==
  /\ InBase("w_store") /\ sem[obj[cpu]] = "live"
  /\ value' = [value EXCEPT ![obj[cpu]] = tmp[cpu] - 1]
  /\ passed' = [passed EXCEPT ![obj[cpu]] = @ + 1]
  /\ masked' = FALSE
  /\ Goto("user")
  /\ UNCHANGED <<status, cpu, act, ip, obj, tail, handle, libVars, tcbVars,
                 tcb3Vars, sem, queue, tmp, posted, joined>>

sem_wait == \/ \E s \in Sems : \/ sem_wait_Take(s)
                               \/ sem_wait_Negative(s)
                               \/ sem_wait_Block(s)
            \/ sem_wait_Schedule \/ sem_wait_Check \/ sem_wait_Load \/ sem_wait_Store

(* The first queued thread that is BLOCKED; those before it are dropped.   *)
Wakeable(s) == {i \in Steps : /\ QueueNode(s)[i] \in Threads
                             /\ state[QueueNode(s)[i]] = "BLOCKED"}
ToWake(s)   == QueueNode(s)[Min(Wakeable(s))]

(* Slips in sem_post: s gets its token, states become st and queues q.     *)
PostWith(s, st, q) ==
  /\ Calling("post", s) /\ sem[s] = "live"
  /\ NextCall
  /\ value' = [value EXCEPT ![s] = @ + 1]
  /\ state' = st /\ queue' = q
  /\ posted' = [posted EXCEPT ![s] = @ + 1]
  /\ masked' = FALSE
  /\ UNCHANGED <<status, cpu, pc, act, obj, tail, handle, libVars, tid, next, prev, context,
                 tcb3Vars, sem, tmp, passed, joined>>
sem_post_NoWake(s) == PostWith(s, state, queue)
sem_post_KeepsQueue(s) ==                \* the woken thread stays in the queue
  PostWith(s, IF value[s] = 0 /\ Wakeable(s) # {}
              THEN [state EXCEPT ![ToWake(s)] = "READY"] ELSE state, queue)

sem_post(s) ==
  /\ Calling("post", s) /\ sem[s] = "live"
  /\ value[s] = 0 => Wakeable(s) # {} \/ NULL \in QueueRange(s)
  /\ NextCall
  /\ value' = [value EXCEPT ![s] = @ + 1]
  /\ IF value[s] = 0 /\ Wakeable(s) # {}
       THEN /\ state' = [state EXCEPT ![ToWake(s)] = "READY"]
            /\ queue' = [queue EXCEPT ![s] = next_in_queue[ToWake(s)]]
            /\ next_in_queue' = [next_in_queue EXCEPT ![ToWake(s)] = NULL]
       ELSE UNCHANGED <<state, queue, next_in_queue>>
  /\ posted' = [posted EXCEPT ![s] = @ + 1]
  /\ masked' = FALSE
  /\ UNCHANGED <<status, cpu, pc, act, obj, tail, handle, libVars, tid, next, prev, context,
                 join, exit_code, stack, sem, tmp, passed, joined>>

semaphores == \/ \E s \in Sems : sem_init(s) \/ sem_destroy(s) \/ sem_post(s)
              \/ sem_Error \/ sem_wait

-----------------------------------------------------------------------------
(* Pointers that are NULL, uninitialised or freed when they are used.      *)
SyncFault ==
  /\ \/ \E v \in Args : Calling("exit", v) /\ running = NULL
     \/ InBase("x_wake") /\ join[running] = Junk
     \/ InBase("x_free") /\ stack[running] \in {"freed", Junk}
     \/ \E w \in Workers : JoinsHandle(w) /\ RingHits(handle[w]) = {} /\ RingEnds
     \/ \E s \in Sems : /\ Calling("wait", s) /\ sem[s] = "live" /\ value[s] = 0
                        /\ (running = NULL \/ Junk \in QueueRange(s))
     \/ \E s \in Sems : /\ Calling("post", s) /\ sem[s] = "live" /\ value[s] = 0
                        /\ Wakeable(s) = {} /\ Junk \in QueueRange(s)
     \/ \E p \in WaitPoints \ {"w_call"} : InBase(p) /\ sem[obj[cpu]] = "freed"
  /\ Fault

(* Take 2's schedule() saved the context of a RUNNING thread only.         *)
SavedInTake2 == {"RUNNING"}

(* schedule() of Take 3 saves the context of a BLOCKED thread too.         *)
Saved == {"RUNNING", "BLOCKED"}

Library ==
  \/ pthread_create \/ pthread_exit \/ pthread_join \/ semaphores
  \/ (schedule(Saved) \/ MainReturns \/ SyncFault) /\ UNCHANGED syncVars

Interrupt == Tick /\ UNCHANGED syncVars

(* The process has ended, or loops with the timer masked for ever.         *)
Ended == status # "up" /\ UNCHANGED vars

Next == Library \/ Interrupt \/ Ended

Spec == Init /\ [][Next]_vars

(* The CPU never stops, the timer goes on firing, and the 50 ms between    *)
(* two ticks are enough for a thread that was given the CPU to run some of *)
(* its own code before it loses it again.                                  *)
OwnCode(t) == Library /\ cpu = t /\ Depth = 0
FairSpec ==
  /\ Spec
  /\ WF_vars(Library) /\ WF_vars(Interrupt)
  /\ \A t \in Threads : SF_vars(OwnCode(t))

=============================================================================
