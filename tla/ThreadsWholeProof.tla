------------------------- MODULE ThreadsWholeProof --------------------------
(***************************************************************************)
(* Theorems about the stretches of the library that its authors write as   *)
(* if they were one step: the test and value-- at the end of sem_wait, and *)
(* pthread_create.  Where no tick lands in them, tokens are not lost,      *)
(* handles are distinct and READY threads can be resumed.                  *)
(* Then clients of two kinds are given exact counting and exit codes.      *)
(***************************************************************************)
EXTENDS ThreadsBlockingProof

USE CoreAssumption
USE DEF vars, coreVars, cpuVars, libVars, tcbVars, syncVars, tcb3Vars, semVars

-----------------------------------------------------------------------------
(* The tokens of a semaphore.                                              *)
Decrement == {"w_load", "w_store"}

(* After schedule(), a woken waiter tests value, loads and stores it in one *)
(* go: no tick between the test and the store.                             *)
WholeTakes == TickAt \cap Decrement = {}

(* sem_init is given no negative value.                                    *)
NaturalValues == InitValue \in [Sems -> Nat]

(* A thread in value-- is about to store the present value less one, and   *)
(* that is not negative.                                                   *)
Decrementing ==
  \A t \in Threads :
    /\ pc[t] \in Decrement => value[obj[t]] > 0
    /\ pc[t] = "w_store" => tmp[t] = value[obj[t]]

NoneYet == \A s \in Sems : sem[s] = "none" => posted[s] = 0

TokenInv == Whole(Decrement) /\ Decrementing /\ NoneYet /\ TokensNotLost

LEMMA TokenInit == Init => TokenInv
<1>. SUFFICES ASSUME Init PROVE TokenInv
  OBVIOUS
<1>1. Whole(Decrement)
  BY WholeInit DEF Decrement
<1>. QED
  BY <1>1 DEF TokenInv, Decrementing, Decrement, NoneYet, TokensNotLost,
     Init, CoreInit

(* A step that touches no semaphore's value and enters no value--.         *)
LEMMA TokenKept ==
  ASSUME TokenInv, Whole(Decrement)', UNCHANGED <<value, posted, passed, tmp>>,
         UNCHANGED sem \/ \E s \in Sems : sem' = [sem EXCEPT ![s] = "freed"],
         sem \in [Sems -> {"none", "live", "freed"}],
         \A t \in Threads : pc'[t] \in Decrement => pc'[t] = pc[t] /\ obj'[t] = obj[t]
  PROVE  TokenInv'
<1>1. Decrementing'
  BY DEF TokenInv, Decrementing, Decrement
<1>2. \A s \in Sems : sem'[s] \in {sem[s], "freed"}
  OBVIOUS
<1>3. NoneYet' /\ TokensNotLost'
  BY <1>2 DEF TokenInv, NoneYet, TokensNotLost
<1>. QED
  BY <1>1, <1>3 DEF TokenInv

(* Threads outside value-- while the caller is at user or past schedule(). *)
LEMMA OutsideDecrement ==
  ASSUME TypeInv, TokenInv, Depth = 0, pc[cpu] \notin Decrement
  PROVE  \A t \in Threads : pc[t] \notin Decrement
  BY DEF TokenInv, Whole

LEMMA TokenSem ==
  ASSUME TypeInv, NaturalValues, TokenInv, Whole(Decrement)', semaphores
  PROVE  TokenInv'
<1>. USE DEF TypeInv, TypeOK
<1>1. CASE \E s \in Sems : sem_init(s) \/ sem_post(s) \/ sem_wait_Take(s)
  <2>1. PICK s \in Sems : sem_init(s) \/ sem_post(s) \/ sem_wait_Take(s)
    BY <1>1
  <2>2. /\ Depth = 0 /\ pc[cpu] = "user" /\ UNCHANGED pc
    BY <2>1 DEF sem_init, sem_post, sem_wait_Take, Calling, InBase
  <2>3. Decrementing'
    BY <2>2, OutsideDecrement DEF Decrementing, Decrement
  <2>5. /\ \A x \in Sems \ {s} : /\ sem'[x] = sem[x] /\ value'[x] = value[x]
                                 /\ posted'[x] = posted[x] /\ passed'[x] = passed[x]
        /\ value[s] \in Int /\ posted[s] \in Nat /\ passed[s] \in Nat /\ InitValue[s] \in Nat
    BY <2>1 DEF sem_init, sem_post, sem_wait_Take, SyncTypeOK, NaturalValues
  <2>6. /\ sem'[s] = "live"
        /\ \/ /\ sem[s] = "none" /\ value'[s] = InitValue[s]
              /\ posted'[s] = posted[s] /\ passed'[s] = passed[s]
           \/ /\ sem[s] = "live" /\ value'[s] = value[s] + 1
              /\ posted'[s] = posted[s] + 1 /\ passed'[s] = passed[s]
           \/ /\ sem[s] = "live" /\ value[s] > 0 /\ value'[s] = value[s] - 1
              /\ posted'[s] = posted[s] /\ passed'[s] = passed[s] + 1
    BY <2>1 DEF sem_init, sem_post, sem_wait_Take, SyncTypeOK
  <2>7. NoneYet' /\ TokensNotLost'
    <3>1. SUFFICES ASSUME NEW x \in Sems
                   PROVE  /\ sem'[x] = "none" => posted'[x] = 0
                          /\ sem'[x] = "live" =>
                               /\ value'[x] >= 0
                               /\ value'[x] + passed'[x] >= InitValue[x] + posted'[x]
      BY <2>1 DEF NoneYet, TokensNotLost
    <3>2. CASE x = s
      <4>1. sem[s] = "none" => posted[s] = 0
        BY DEF TokenInv, NoneYet
      <4>2. sem[s] = "live" =>
              value[s] >= 0 /\ value[s] + passed[s] >= InitValue[s] + posted[s]
        BY DEF TokenInv, TokensNotLost
      <4>. QED
        BY <2>5, <2>6, <3>2, <4>1, <4>2
    <3>3. CASE x # s
      BY <2>5, <3>3 DEF TokenInv, NoneYet, TokensNotLost
    <3>. QED
      BY <3>2, <3>3
  <2>. QED
    BY <2>3, <2>7 DEF TokenInv
<1>2. CASE sem_Error \/ \E s \in Sems : sem_destroy(s) \/ sem_wait_Block(s)
  <2>1. /\ UNCHANGED <<value, posted, passed, tmp>>
        /\ UNCHANGED sem \/ \E s \in Sems : sem' = [sem EXCEPT ![s] = "freed"]
        /\ \/ UNCHANGED <<pc, obj>>
           \/ Goto("w_call") /\ \A t \in Threads \ {cpu} : obj'[t] = obj[t]
    BY <1>2 DEF sem_Error, sem_destroy, sem_wait_Block, CpuTypeOK
  <2>2. \A t \in Threads : pc'[t] \in Decrement => pc'[t] = pc[t] /\ obj'[t] = obj[t]
    BY <2>1 DEF Goto, CpuTypeOK, Decrement
  <2>. QED
    BY <2>1, <2>2, TokenKept DEF SyncTypeOK
<1>3. CASE \E s \in Sems : sem_wait_Negative(s)
  BY <1>3 DEF sem_wait_Negative, TokenInv, TokensNotLost, SyncTypeOK
<1>4. CASE sem_wait_Schedule
  <2>1. \A t \in Threads : pc'[t] \in Decrement => pc'[t] = pc[t] /\ obj'[t] = obj[t]
    BY <1>4 DEF sem_wait_Schedule, Goto, CpuTypeOK, Decrement
  <2>. QED
    BY <1>4, <2>1, TokenKept DEF sem_wait_Schedule, SyncTypeOK
<1>5. CASE sem_wait_Check
  <2>1. /\ Depth = 0 /\ pc[cpu] = "w_check" /\ cpu \in Threads
        /\ UNCHANGED <<obj, sem, value, tmp, posted>>
    BY <1>5 DEF sem_wait_Check, InBase, CpuTypeOK
  <2>2. PICK s \in Sems : s = obj[cpu]
    BY <2>1 DEF LocalsShape, WaitPoints
  <2>3. \A t \in Threads : pc[t] \notin Decrement
    BY <2>1, OutsideDecrement DEF Decrement
  <2>4. \/ value[s] > 0 /\ Goto("w_load") /\ UNCHANGED passed
        \/ Goto("user") /\ passed' = [passed EXCEPT ![s] = @ + 1]
    BY <1>5, <2>2 DEF sem_wait_Check
  <2>5. \A t \in Threads : pc'[t] \in Decrement => t = cpu /\ pc'[t] = "w_load" /\ value[s] > 0
    BY <2>1, <2>3, <2>4 DEF Goto, CpuTypeOK, Decrement
  <2>6. Decrementing'
    <3>1. ASSUME NEW t \in Threads, pc'[t] \in Decrement
          PROVE  value'[obj'[t]] > 0 /\ pc'[t] # "w_store"
      BY <2>1, <2>2, <2>5, <3>1
    <3>2. \A t \in Threads : pc'[t] = "w_store" => pc'[t] \in Decrement
      BY DEF Decrement
    <3>. QED
      BY <3>1, <3>2 DEF Decrementing
  <2>7. \A x \in Sems : passed'[x] \in Nat /\ passed[x] \in Nat /\ passed'[x] >= passed[x]
    <3>1. passed \in [Sems -> Nat]
      BY DEF SyncTypeOK
    <3>2. UNCHANGED passed \/ passed' = [passed EXCEPT ![s] = passed[s] + 1]
      BY <2>4
    <3>3. CASE UNCHANGED passed
      BY <3>1, <3>3
    <3>4. CASE passed' = [passed EXCEPT ![s] = passed[s] + 1]
      BY <3>1, <3>4
    <3>. QED
      BY <3>2, <3>3, <3>4
  <2>8. \A x \in Sems : value[x] \in Int /\ posted[x] \in Nat /\ InitValue[x] \in Nat
    BY DEF SyncTypeOK, NaturalValues
  <2>9. NoneYet' /\ TokensNotLost'
    BY <2>1, <2>7, <2>8 DEF TokenInv, NoneYet, TokensNotLost
  <2>. QED
    BY <2>6, <2>9 DEF TokenInv
<1>6. CASE sem_wait_Load
  <2>1. /\ Depth = 0 /\ pc[cpu] = "w_load" /\ cpu \in Threads /\ Goto("w_store")
        /\ UNCHANGED <<obj, sem, value, posted, passed>>
        /\ tmp' = [tmp EXCEPT ![cpu] = value[obj[cpu]]]
    BY <1>6 DEF sem_wait_Load, InBase, CpuTypeOK
  <2>2. \A t \in Threads : pc'[t] \in Decrement => t = cpu
    BY <2>1 DEF TokenInv, Whole, Goto, CpuTypeOK
  <2>3. value[obj[cpu]] > 0 /\ tmp'[cpu] = value[obj[cpu]]
    BY <2>1 DEF TokenInv, Decrementing, Decrement, SyncTypeOK
  <2>4. Decrementing'
    BY <2>1, <2>2, <2>3 DEF Decrementing, Decrement
  <2>5. NoneYet' /\ TokensNotLost'
    BY <2>1 DEF TokenInv, NoneYet, TokensNotLost
  <2>. QED
    BY <2>4, <2>5 DEF TokenInv
<1>7. CASE sem_wait_Store
  <2>1. /\ Depth = 0 /\ pc[cpu] = "w_store" /\ cpu \in Threads /\ Goto("user")
        /\ UNCHANGED <<obj, sem, tmp, posted>>
        /\ value' = [value EXCEPT ![obj[cpu]] = tmp[cpu] - 1]
        /\ passed' = [passed EXCEPT ![obj[cpu]] = @ + 1]
    BY <1>7 DEF sem_wait_Store, InBase, CpuTypeOK
  <2>2. PICK s \in Sems : s = obj[cpu]
    BY <2>1 DEF LocalsShape, WaitPoints
  <2>3. value[s] > 0 /\ tmp[cpu] = value[s]
    BY <2>1, <2>2 DEF TokenInv, Decrementing, Decrement
  <2>4. /\ value'[s] = value[s] - 1 /\ passed'[s] = passed[s] + 1
        /\ \A x \in Sems \ {s} : value'[x] = value[x] /\ passed'[x] = passed[x]
    BY <2>1, <2>2, <2>3 DEF SyncTypeOK
  <2>5. \A t \in Threads : pc'[t] \notin Decrement
    BY <2>1 DEF TokenInv, Whole, Goto, CpuTypeOK, Decrement
  <2>6. Decrementing'
    BY <2>5 DEF Decrementing, Decrement
  <2>7. /\ value[s] \in Int /\ posted[s] \in Nat /\ passed[s] \in Nat /\ InitValue[s] \in Nat
    BY DEF SyncTypeOK, NaturalValues
  <2>8. NoneYet' /\ TokensNotLost'
    BY <2>1, <2>3, <2>4, <2>7 DEF TokenInv, NoneYet, TokensNotLost
  <2>. QED
    BY <2>1, <2>6, <2>8 DEF TokenInv
<1>. QED
  BY <1>1, <1>2, <1>3, <1>4, <1>5, <1>6, <1>7 DEF semaphores, sem_wait

LEMMA TokenStep ==
  ASSUME TypeInv, WholeTakes, NaturalValues, TokenInv, [Next]_vars
  PROVE  TokenInv'
<1>. USE DEF TypeInv, TypeOK
<1>1. Whole(Decrement)'
  BY WholeStep DEF TokenInv, WholeTakes, Decrement
<1>2. CASE semaphores
  BY <1>1, <1>2, TokenSem
<1>3. CASE /\ UNCHANGED <<sem, value, posted, passed, tmp>>
           /\ \A t \in Threads : pc'[t] \in Decrement => pc'[t] = pc[t] /\ obj'[t] = obj[t]
  BY <1>1, <1>3, TokenKept DEF SyncTypeOK
<1>4. CASE /\ UNCHANGED <<sem, value, posted, passed, tmp>>
           /\ UNCHANGED pc \/ \E p \in BasePoints \ Decrement : Goto(p)
           /\ \A t \in Threads \ {cpu} : obj'[t] = obj[t]
           /\ UNCHANGED obj \/ Goto("c_head") \/ Goto("x_code") \/ Goto("j_call")
  <2>1. \A t \in Threads : pc'[t] \in Decrement => pc'[t] = pc[t] /\ obj'[t] = obj[t]
    BY <1>4 DEF Goto, CpuTypeOK, Decrement
  <2>. QED
    BY <1>3, <1>4, <2>1
<1>5. CASE pthread_create
  BY <1>4, <1>5 DEF pthread_create, CreateEnter, CreateFirst, CreateFill, CreateContext,
     CreateOther, Fault, BasePoints, CreatePoints, Decrement, CpuTypeOK,
     pthread_create_Enter, pthread_create_First, pthread_create_NoMemory,
     pthread_create_Tail, pthread_create_Append, pthread_create_Next, pthread_create_Prev, pthread_create_Fill,
     pthread_create_Ready, pthread_create_Context, pthread_create_Fault
<1>6. CASE pthread_exit
  BY <1>4, <1>6 DEF pthread_exit, BasePoints, ExitPoints, Decrement, CpuTypeOK,
     pthread_exit_Enter, pthread_exit_Code, pthread_exit_Wake, pthread_exit_Free
<1>7. CASE pthread_join
  BY <1>4, <1>7 DEF pthread_join, BasePoints, JoinPoints, Decrement, CpuTypeOK,
     pthread_join_Call, pthread_join_Hang, pthread_join_Schedule, pthread_join_Read
<1>8. CASE schedule(Saved) /\ UNCHANGED syncVars
  BY <1>4, <1>8 DEF schedule, schedule_Enter, schedule_Save, schedule_Look,
     schedule_Scan, schedule_Take, schedule_Install, schedule_Jump, schedule_Fault, Fault
<1>. QED
  BY <1>2, <1>4, <1>5, <1>6, <1>7, <1>8
  DEF Next, Library, Interrupt, Tick, Ended, MainReturns, SyncFault, Fault

(* Whatever the client does, and wherever else the timer ticks: if no tick *)
(* lands between a woken waiter's test of value and its store, no token of *)
(* a semaphore is lost, those in value and those taken are never fewer     *)
(* than those put in, and value >= 0.                                      *)
THEOREM TokensNotLostThm ==
  WholeTakes /\ NaturalValues => (Spec => []TokensNotLost)
<1>. SUFFICES ASSUME WholeTakes, NaturalValues PROVE Spec => []TokensNotLost
  OBVIOUS
<1>1. Init => TypeInv /\ TokenInv
  BY TypeInit, TokenInit
<1>2. TypeInv /\ TokenInv /\ [Next]_vars => TypeInv' /\ TokenInv'
  BY TypeStep, TokenStep
<1>3. TokenInv => TokensNotLost
  BY DEF TokenInv
<1>. QED
  BY <1>1, <1>2, <1>3, PTL DEF Spec

-----------------------------------------------------------------------------
(* The handles pthread_create gives out.                                   *)

(* No tick inside pthread_create.                                          *)
WholeCreates == TickAt \cap CreatePoints = {}

(* pthread_create before the store of *thread.                             *)
BeforeHandle == {"c_head", "c_tail", "c_next", "c_prev", "c_fill", "c_ready"}

HandlesBelow ==
  /\ \A w \in Workers : handle[w] # NULL => handle[w] <= id
  /\ \A t \in Threads : pc[t] \in BeforeHandle =>
       \A w \in Workers : handle[w] # NULL => handle[w] < id

HandleInv == Whole(CreatePoints) /\ HandlesBelow /\ TidsDistinct

LEMMA HandleInit == Init => HandleInv
<1>. SUFFICES ASSUME Init PROVE HandleInv
  OBVIOUS
<1>1. Whole(CreatePoints)
  BY WholeInit DEF CreatePoints
<1>. QED
  BY <1>1 DEF HandleInv, HandlesBelow, TidsDistinct, Init, CoreInit, BeforeHandle

(* A step that gives out no handle.                                        *)
LEMMA HandlesKept ==
  ASSUME TypeInv, HandleInv, Whole(CreatePoints)', UNCHANGED handle,
         \/ UNCHANGED id /\ \A t \in Threads : pc'[t] \in BeforeHandle => pc[t] \in BeforeHandle
         \/ id' = id + 1
  PROVE  HandleInv'
<1>1. /\ id \in Nat /\ \A w \in Workers : handle[w] # NULL => handle[w] \in Nat
  BY DEF TypeInv, TypeOK, LibTypeOK
<1>2. HandlesBelow'
  BY <1>1 DEF HandleInv, HandlesBelow
<1>. QED
  BY <1>2 DEF HandleInv, TidsDistinct

LEMMA HandleStep ==
  ASSUME TypeInv, WholeCreates, HandleInv, [Next]_vars
  PROVE  HandleInv'
<1>. USE DEF TypeInv, TypeOK
<1>1. Whole(CreatePoints)'
  BY WholeStep DEF HandleInv, WholeCreates, CreatePoints
<1>2. CASE UNCHANGED <<handle, id>> /\ (UNCHANGED pc \/ \E p \in BasePoints \ BeforeHandle : Goto(p))
  <2>1. \A t \in Threads : pc'[t] \in BeforeHandle => pc[t] \in BeforeHandle
    BY <1>2 DEF Goto, CpuTypeOK
  <2>. QED
    BY <1>1, <1>2, <2>1, HandlesKept
<1>3. CASE pthread_create
  <2>1. CASE CreateEnter \/ \E w \in Workers : pthread_create_NoMemory(w)
    <3>1. UNCHANGED handle /\ id' = id + 1
      BY <2>1 DEF CreateEnter, pthread_create_Enter, pthread_create_NoMemory
    <3>. QED
      BY <1>1, <3>1, HandlesKept
  <2>2. CASE CreateFirst \/ CreateFill \/ CreateContext \/ pthread_create_Tail \/ pthread_create_Append
             \/ pthread_create_Next \/ pthread_create_Prev \/ pthread_create_Fault
    <3>1. /\ UNCHANGED <<handle, id>>
          /\ UNCHANGED pc \/ \E p : Goto(p) /\ (p \in BeforeHandle => pc[cpu] \in BeforeHandle)
      BY <2>2 DEF CreateFirst, CreateFill, CreateContext, Fault, InBase, BeforeHandle,
         pthread_create_First, pthread_create_Tail, pthread_create_Append, pthread_create_Next, pthread_create_Prev,
         pthread_create_Fill, pthread_create_Context, pthread_create_Fault
    <3>2. \A t \in Threads : pc'[t] \in BeforeHandle => pc[t] \in BeforeHandle
      BY <3>1 DEF Goto, CpuTypeOK
    <3>. QED
      BY <1>1, <3>1, <3>2, HandlesKept
  <2>3. CASE pthread_create_Ready
    <3>1. /\ Depth = 0 /\ pc[cpu] = "c_ready" /\ cpu \in Threads /\ obj[cpu] \in Workers
          /\ handle' = [handle EXCEPT ![obj[cpu]] = id] /\ UNCHANGED id /\ Goto("c_context")
      BY <2>3 DEF pthread_create_Ready, InBase, CpuTypeOK, LocalsShape, CreatePoints
    <3>2. PICK v \in Workers : v = obj[cpu]
      BY <3>1
    <3>3. /\ handle'[v] = id /\ \A w \in Workers \ {v} : handle'[w] = handle[w]
          /\ id \in Nat /\ \A w \in Workers : handle[w] # NULL => handle[w] \in Nat
      BY <3>1, <3>2 DEF LibTypeOK
    <3>4. \A w \in Workers : handle[w] # NULL => handle[w] < id
      BY <3>1 DEF HandleInv, HandlesBelow, BeforeHandle
    <3>5. \A t \in Threads : pc'[t] \notin BeforeHandle
      <4>1. \A t \in Threads : pc'[t] \in CreatePoints => t = cpu
        BY <1>1, <2>3 DEF Whole, pthread_create_Ready
      <4>2. pc'[cpu] = "c_context"
        BY <3>1 DEF Goto, CpuTypeOK
      <4>. QED
        BY <4>1, <4>2 DEF BeforeHandle, CreatePoints
    <3>6. HandlesBelow'
      <4>1. \A w \in Workers : handle'[w] # NULL => handle'[w] <= id
        BY <3>3, <3>4
      <4>. QED
        BY <3>1, <3>5, <4>1 DEF HandlesBelow
    <3>7. TidsDistinct'
      <4>1. SUFFICES ASSUME NEW t \in Workers, NEW u \in Workers, handle'[t] # NULL,
                            handle'[t] = handle'[u]
                     PROVE  t = u
        BY DEF TidsDistinct
      <4>2. CASE t = v \/ u = v
        BY <3>3, <3>4, <4>1, <4>2
      <4>3. CASE t # v /\ u # v
        BY <3>3, <4>1, <4>3 DEF HandleInv, TidsDistinct
      <4>. QED
        BY <4>2, <4>3
    <3>. QED
      BY <1>1, <3>6, <3>7 DEF HandleInv
  <2>. QED
    BY <1>3, <2>1, <2>2, <2>3 DEF pthread_create, CreateOther
<1>4. CASE pthread_exit
  BY <1>2, <1>4 DEF pthread_exit, BasePoints, ExitPoints, BeforeHandle, CpuTypeOK,
     pthread_exit_Enter, pthread_exit_Code, pthread_exit_Wake, pthread_exit_Free
<1>5. CASE pthread_join
  BY <1>2, <1>5 DEF pthread_join, BasePoints, JoinPoints, BeforeHandle, CpuTypeOK,
     pthread_join_Call, pthread_join_Hang, pthread_join_Schedule, pthread_join_Read
<1>6. CASE semaphores
  BY <1>2, <1>6 DEF semaphores, sem_wait, BasePoints, WaitPoints, BeforeHandle, sem_init,
     sem_destroy, sem_post, sem_Error, sem_wait_Take, sem_wait_Negative, sem_wait_Block,
     sem_wait_Schedule, sem_wait_Check, sem_wait_Load, sem_wait_Store
<1>7. CASE schedule(Saved) /\ UNCHANGED syncVars
  BY <1>2, <1>7 DEF schedule, schedule_Enter, schedule_Save, schedule_Look,
     schedule_Scan, schedule_Take, schedule_Install, schedule_Jump, schedule_Fault, Fault
<1>. QED
  BY <1>2, <1>3, <1>4, <1>5, <1>6, <1>7
  DEF Next, Library, Interrupt, Tick, Ended, MainReturns, SyncFault, Fault

(* If no tick lands inside pthread_create, no two threads get the same     *)
(* pthread_t, whether or not malloc fails in some of the calls.            *)
THEOREM TidsDistinctThm == WholeCreates => (Spec => []TidsDistinct)
<1>. SUFFICES ASSUME WholeCreates PROVE Spec => []TidsDistinct
  OBVIOUS
<1>1. Init => TypeInv /\ HandleInv
  BY TypeInit, HandleInit
<1>2. TypeInv /\ HandleInv /\ [Next]_vars => TypeInv' /\ HandleInv'
  BY TypeStep, HandleStep
<1>3. HandleInv => TidsDistinct
  BY DEF HandleInv
<1>. QED
  BY <1>1, <1>2, <1>3, PTL DEF Spec

-----------------------------------------------------------------------------
(* Contexts that schedule() may jump to.                                   *)
Newborn(t) == \E u \in Threads : pc[u] \in CreatePoints /\ obj[u] = t
Live(t)    == state[t] \in {"READY", "RUNNING", "BLOCKED"}
OnCpu(t)   == t = cpu /\ Phase \in {"code", "enter", "save"}
Parked(t)  == context[t] = [owner |-> t, depth |-> 1] /\ Len(act[t]) = 1

(* A thread that is neither being created nor on the CPU stands in its own *)
(* call of schedule(), and its jmp_buf leads there.                        *)
Resume == \A t \in Threads : Live(t) /\ ~Newborn(t) /\ ~OnCpu(t) => Parked(t)

(* A thread that has not run stands in the schedule() its creator made up. *)
Unrun == \A w \in Workers : state[w] = "ABSENT" \/ Newborn(w) => Len(act[w]) = 1

ResumeInv == Resume /\ Unrun

LEMMA ResumeInit == Init => ResumeInv
  BY DEF Init, CoreInit, ResumeInv, Resume, Unrun, Live, Threads

LEMMA SameNewborns ==
  ASSUME \A u \in Threads : /\ pc'[u] \in CreatePoints <=> pc[u] \in CreatePoints
                            /\ pc[u] \in CreatePoints => obj'[u] = obj[u]
  PROVE  \A t \in Threads : Newborn(t)' <=> Newborn(t)
  BY DEF Newborn

(* A step of the running thread's own code.                                *)
LEMMA CodeResume ==
  ASSUME ResumeInv, Depth = 0, UNCHANGED <<cpu, act>>, Workers \subseteq Threads,
         \A t \in Threads \ {cpu} : Live(t)' /\ ~Newborn(t)' =>
           \/ Live(t) /\ ~Newborn(t) /\ context'[t] = context[t]
           \/ t \in Workers /\ Newborn(t) /\ context'[t] = [owner |-> t, depth |-> 1],
         \A w \in Workers : state'[w] = "ABSENT" \/ Newborn(w)' =>
                            state[w] = "ABSENT" \/ Newborn(w)
  PROVE  ResumeInv'
<1>1. Phase = "code" /\ Phase' = "code"
  BY DEF Phase, Depth
<1>2. ASSUME NEW t \in Threads, Live(t)', ~Newborn(t)', ~OnCpu(t)'
      PROVE  Parked(t)'
  <2>1. t # cpu /\ ~OnCpu(t)
    BY <1>1, <1>2 DEF OnCpu
  <2>2. CASE Live(t) /\ ~Newborn(t) /\ context'[t] = context[t]
    BY <2>1, <2>2 DEF ResumeInv, Resume, Parked
  <2>3. CASE t \in Workers /\ Newborn(t) /\ context'[t] = [owner |-> t, depth |-> 1]
    BY <2>3 DEF ResumeInv, Unrun, Parked
  <2>. QED
    BY <1>2, <2>1, <2>2, <2>3
<1>3. Unrun'
  BY DEF ResumeInv, Unrun
<1>. QED
  BY <1>2, <1>3 DEF ResumeInv, Resume

(* The CPU enters schedule().                                              *)
LEMMA PushResume ==
  ASSUME TypeInv, CurrentInv, ResumeInv, Depth = 0, PushSchedule,
         UNCHANGED <<cpu, obj, state, context>>,
         \A u \in Threads : pc'[u] \in CreatePoints <=> pc[u] \in CreatePoints
  PROVE  ResumeInv'
<1>1. cpu \in Threads /\ act \in [Threads -> Seq(Frames)] /\ act[cpu] = <<>>
      /\ Workers \subseteq Threads
  BY DEF TypeInv, TypeOK, CpuTypeOK, Depth, Threads
<1>2. /\ act'[cpu] = <<Frame("enter")>>
      /\ \A t \in Threads \ {cpu} : act'[t] = act[t]
  BY <1>1 DEF PushSchedule
<1>3. Phase = "code" /\ Phase' = "enter" /\ Len(act'[cpu]) = 1
  BY <1>2 DEF Phase, Depth, Top, Frame
<1>4. \A t \in Threads : Newborn(t)' <=> Newborn(t)
  BY SameNewborns
<1>5. Resume'
  BY <1>2, <1>3, <1>4 DEF ResumeInv, Resume, Live, OnCpu, Parked
<1>6. Unrun'
  BY <1>1, <1>2, <1>3, <1>4 DEF ResumeInv, Unrun
<1>. QED
  BY <1>5, <1>6 DEF ResumeInv

LEMMA CreateResume ==
  ASSUME TypeInv, CurrentInv, BlockInv, ResumeInv, pthread_create
  PROVE  ResumeInv'
<1>. USE DEF TypeInv, TypeOK
<1>0. cpu \in Threads /\ Workers \subseteq Threads /\ Main \in Threads
  BY DEF CpuTypeOK, Threads
<1>1. CASE CreateEnter
  <2>1. PICK w \in Workers, u \in Uninit : pthread_create_Enter(w, u)
    BY <1>1 DEF CreateEnter
  <2>2. /\ Depth = 0 /\ state[w] = "ABSENT" /\ pc[cpu] = "user"
        /\ state' = [state EXCEPT ![w] = FreshState(u)] /\ UNCHANGED <<cpu, act, context>>
        /\ pc' = [pc EXCEPT ![cpu] = "c_head"] /\ obj' = [obj EXCEPT ![cpu] = w]
    BY <2>1 DEF pthread_create_Enter, Calling, InBase, Goto
  <2>3. \A t \in Threads \ {w} : state'[t] = state[t]
    BY <1>0, <2>2 DEF LibTypeOK
  <2>4. \A t \in Threads : Newborn(t)' <=> Newborn(t) \/ t = w
    BY <1>0, <2>2 DEF CpuTypeOK, Newborn, CreatePoints
  <2>. QED
    BY <1>0, <2>2, <2>3, <2>4, CodeResume DEF Live
<1>2. CASE CreateFirst
  <2>1. /\ Depth = 0 /\ head = NULL /\ pc[cpu] = "c_head" /\ pc' = [pc EXCEPT ![cpu] = "c_fill"]
        /\ state' = [state EXCEPT ![Main] = "RUNNING"] /\ UNCHANGED <<cpu, act, obj, context>>
    BY <1>2 DEF CreateFirst, pthread_create_First, InBase, Goto
  <2>2. cpu = Main /\ \A t \in Threads \ {cpu} : state'[t] = state[t]
    BY <1>0, <2>1 DEF HeadShape, LibTypeOK
  <2>3. \A t \in Threads : Newborn(t)' <=> Newborn(t)
    BY <1>0, <2>1, SameNewborns DEF CpuTypeOK, CreatePoints
  <2>4. \A w \in Workers : w # cpu
    BY <2>2
  <2>. QED
    BY <1>0, <2>1, <2>2, <2>3, <2>4, CodeResume DEF Live
<1>3. CASE CreateOther /\ pthread_create_Ready
  <2>1. /\ Depth = 0 /\ pc[cpu] = "c_ready" /\ pc' = [pc EXCEPT ![cpu] = "c_context"]
        /\ state' = [state EXCEPT ![obj[cpu]] = "READY"] /\ UNCHANGED <<cpu, act, obj, context>>
    BY <1>3 DEF pthread_create_Ready, InBase, Goto
  <2>2. Newborn(obj[cpu]) /\ \A t \in Threads : t = obj[cpu] \/ state'[t] = state[t]
    BY <1>0, <2>1 DEF Newborn, CreatePoints, LibTypeOK
  <2>3. \A t \in Threads : Newborn(t)' <=> Newborn(t)
    BY <1>0, <2>1, SameNewborns DEF CpuTypeOK, CreatePoints
  <2>. QED
    BY <1>0, <2>1, <2>2, <2>3, CodeResume DEF Live
<1>4. CASE CreateContext
  <2>1. /\ Depth = 0 /\ pc[cpu] = "c_context" /\ pc' = [pc EXCEPT ![cpu] = "user"]
        /\ context' = [context EXCEPT ![obj[cpu]] = [owner |-> obj[cpu], depth |-> 1]]
        /\ UNCHANGED <<cpu, act, obj, state>>
    BY <1>4 DEF CreateContext, pthread_create_Context, InBase, Goto
  <2>2. PICK w \in Workers : w = obj[cpu]
    BY <1>0, <2>1 DEF LocalsShape, CreatePoints
  <2>3. /\ context'[w] = [owner |-> w, depth |-> 1] /\ w \in Threads
        /\ \A t \in Threads \ {w} : context'[t] = context[t]
    BY <1>0, <2>1, <2>2 DEF LibTypeOK
  <2>4. Newborn(w)
    BY <1>0, <2>1, <2>2 DEF Newborn, CreatePoints
  <2>5. \A t \in Threads \ {w} : Newborn(t)' <=> Newborn(t)
    BY <1>0, <2>1, <2>2 DEF CpuTypeOK, Newborn, CreatePoints
  <2>. QED
    BY <1>0, <2>1, <2>3, <2>4, <2>5, CodeResume DEF Live
<1>5. CASE \/ CreateFill \/ pthread_create_Tail \/ pthread_create_Append \/ pthread_create_Next
           \/ pthread_create_Prev
  <2>1. /\ Depth = 0 /\ pc[cpu] \in CreatePoints /\ UNCHANGED <<cpu, act, obj, state, context>>
        /\ \E p \in CreatePoints : pc' = [pc EXCEPT ![cpu] = p]
    BY <1>5 DEF CreateFill, InBase, Goto, CreatePoints,
       pthread_create_Tail, pthread_create_Append, pthread_create_Next, pthread_create_Prev, pthread_create_Fill
  <2>2. \A t \in Threads : Newborn(t)' <=> Newborn(t)
    BY <1>0, <2>1, SameNewborns DEF CpuTypeOK
  <2>. QED
    BY <1>0, <2>1, <2>2, CodeResume DEF Live
<1>6. CASE \/ \E w \in Workers : pthread_create_NoMemory(w)
           \/ pthread_create_Fault
  <2>1. Depth = 0 /\ UNCHANGED <<cpu, act, pc, obj, state, context>>
    BY <1>6 DEF pthread_create_NoMemory, pthread_create_Fault, Fault, Calling, InBase
  <2>2. \A t \in Threads : Newborn(t)' <=> Newborn(t)
    BY <2>1, SameNewborns
  <2>. QED
    BY <1>0, <2>1, <2>2, CodeResume DEF Live
<1>. QED
  BY <1>1, <1>2, <1>3, <1>4, <1>5, <1>6 DEF pthread_create, CreateOther

(* The calls that create nobody: they make a thread that is not on the CPU *)
(* READY only if it was BLOCKED.                                           *)
LEMMA CallResume ==
  ASSUME TypeInv, CurrentInv, BlockInv, ResumeInv, Depth = 0,
         UNCHANGED <<cpu, act, context>>,
         \A u \in Threads \ {cpu} : pc'[u] = pc[u] /\ obj'[u] = obj[u],
         pc[cpu] \notin CreatePoints /\ pc'[cpu] \notin CreatePoints,
         \A t \in Threads : \/ t = cpu /\ state'[t] # "ABSENT"
                            \/ state'[t] = state[t]
                            \/ state[t] = "BLOCKED" /\ state'[t] # "ABSENT"
  PROVE  ResumeInv'
<1>1. Workers \subseteq Threads /\ cpu \in Threads
  BY DEF TypeInv, TypeOK, CpuTypeOK, Threads
<1>2. \A t \in Threads : Newborn(t)' <=> Newborn(t)
  BY SameNewborns
<1>3. \A t \in Threads : state'[t] = "ABSENT" => state[t] = "ABSENT"
  BY DEF Live
<1>. QED
  BY <1>1, <1>2, <1>3, CodeResume DEF Live

LEMMA ExitJoinResume ==
  ASSUME TypeInv, CurrentInv, BlockInv, ResumeInv, pthread_exit \/ pthread_join
  PROVE  ResumeInv'
<1>. USE DEF TypeInv, TypeOK
<1>0. cpu \in Threads
  BY DEF CpuTypeOK
<1>1. CASE \E v \in Args : pthread_exit_Enter(v)
  <2>1. /\ Depth = 0 /\ pc[cpu] = "user" /\ running # NULL /\ pc'[cpu] = "x_code"
        /\ state' = [state EXCEPT ![running] = "TERMINATED"]
        /\ \A t \in Threads \ {cpu} : pc'[t] = pc[t] /\ obj'[t] = obj[t]
        /\ UNCHANGED <<cpu, act, context>>
    BY <1>1 DEF pthread_exit_Enter, Calling, InBase, Goto, CpuTypeOK
  <2>2. running = cpu
    BY <2>1, Awake DEF HeadShape
  <2>3. state'[cpu] = "TERMINATED" /\ \A t \in Threads \ {cpu} : state'[t] = state[t]
    BY <1>0, <2>1, <2>2 DEF LibTypeOK
  <2>. QED
    BY <2>1, <2>3, CallResume DEF CreatePoints
<1>2. CASE pthread_exit_Code \/ pthread_exit_Free \/ pthread_join_Read
  <2>1. /\ Depth = 0 /\ pc[cpu] \in {"x_code", "x_free", "j_read"}
        /\ pc'[cpu] \in {"x_wake", "x_spin", "user"}
        /\ \A t \in Threads \ {cpu} : pc'[t] = pc[t]
        /\ UNCHANGED <<cpu, act, obj, state, context>>
    BY <1>2 DEF pthread_exit_Code, pthread_exit_Free, pthread_join_Read, InBase, Goto, CpuTypeOK
  <2>. QED
    BY <2>1, CallResume DEF CreatePoints
<1>3. CASE pthread_exit_Wake
  <2>1. /\ Depth = 0 /\ pc[cpu] = "x_wake" /\ pc'[cpu] = "x_free"
        /\ join[running] # Junk
        /\ state' = IF join[running] = NULL THEN state
                    ELSE [state EXCEPT ![join[running]] = "READY"]
        /\ \A t \in Threads \ {cpu} : pc'[t] = pc[t]
        /\ UNCHANGED <<cpu, act, obj, context>>
    BY <1>3 DEF pthread_exit_Wake, InBase, Goto, CpuTypeOK
  <2>2. running = cpu
    BY <2>1, Awake
  <2>3. join[cpu] \in Threads => state[join[cpu]] = "BLOCKED"
    BY <1>0, <2>1 DEF BlockInv, Joined, Joining, Gone
  <2>4. join[cpu] \in Threads \/ UNCHANGED state
    BY <1>0, <2>1, <2>2 DEF SyncTypeOK, Pointers
  <2>5. \A t \in Threads : \/ state'[t] = state[t]
                           \/ state[t] = "BLOCKED" /\ state'[t] # "ABSENT"
    BY <2>1, <2>2, <2>3, <2>4 DEF LibTypeOK
  <2>. QED
    BY <2>1, <2>5, CallResume DEF CreatePoints
<1>4. CASE \E w \in Workers : pthread_join_Call(w)
  <2>1. PICK w \in Workers : pthread_join_Call(w)
    BY <1>4
  <2>2. /\ Depth = 0 /\ pc[cpu] = "user" /\ pc'[cpu] = "j_call"
        /\ state' = [state EXCEPT ![running] = "BLOCKED"] \/ UNCHANGED state
        /\ \A t \in Threads \ {cpu} : pc'[t] = pc[t] /\ obj'[t] = obj[t]
        /\ UNCHANGED <<cpu, act, head, context>> /\ handle[w] # NULL
    BY <2>1 DEF pthread_join_Call, JoinsHandle, Calling, InBase, Goto, CpuTypeOK
  <2>3. running = cpu
    BY <2>2, Awake DEF HeadShape
  <2>4. \A t \in Threads : (t = cpu /\ state'[t] # "ABSENT") \/ state'[t] = state[t]
    BY <2>2, <2>3 DEF LibTypeOK
  <2>. QED
    BY <2>2, <2>4, CallResume DEF CreatePoints
<1>5. CASE \E w \in Workers : pthread_join_Hang(w)
  <2>1. UNCHANGED <<cpu, act, pc, obj, state, context>>
        /\ Depth = 0 /\ pc[cpu] = "user"
    BY <1>5 DEF pthread_join_Hang, JoinsHandle, Calling, InBase
  <2>. QED
    BY <2>1, CallResume DEF CreatePoints
<1>6. CASE pthread_join_Schedule
  <2>1. /\ Depth = 0 /\ PushSchedule /\ UNCHANGED <<cpu, obj, state, context>>
        /\ pc[cpu] = "j_call" /\ Goto("j_read")
    BY <1>6 DEF pthread_join_Schedule, InBase
  <2>. QED
    BY <2>1, PushResume DEF Goto, CpuTypeOK, CreatePoints
<1>. QED
  BY <1>1, <1>2, <1>3, <1>4, <1>5, <1>6 DEF pthread_exit, pthread_join

LEMMA SemResume ==
  ASSUME TypeInv, CurrentInv, BlockInv, ResumeInv, semaphores
  PROVE  ResumeInv'
<1>. USE DEF TypeInv, TypeOK
<1>0. cpu \in Threads
  BY DEF CpuTypeOK
<1>1. CASE \E s \in Sems : sem_init(s) \/ sem_destroy(s) \/ sem_wait_Take(s)
                           \/ sem_wait_Negative(s)
  <2>1. /\ Depth = 0 /\ pc[cpu] = "user"
        /\ UNCHANGED <<cpu, act, pc, obj, state, context>>
    BY <1>1 DEF sem_init, sem_destroy, sem_wait_Take, sem_wait_Negative,
       Calling, InBase
  <2>. QED
    BY <2>1, CallResume DEF CreatePoints
<1>2. CASE \E s \in Sems : sem_post(s)
  <2>1. PICK s \in Sems : sem_post(s)
    BY <1>2
  <2>2. /\ Depth = 0 /\ pc[cpu] = "user" /\ UNCHANGED <<cpu, act, pc, obj, context>>
        /\ \/ UNCHANGED state
           \/ Wakeable(s) # {} /\ state' = [state EXCEPT ![ToWake(s)] = "READY"]
    BY <2>1 DEF sem_post, Calling, InBase
  <2>3. \A t \in Threads : \/ state'[t] = state[t]
                           \/ state[t] = "BLOCKED" /\ state'[t] # "ABSENT"
    BY <2>2, ToWakeType DEF LibTypeOK
  <2>. QED
    BY <2>2, <2>3, CallResume DEF CreatePoints
<1>3. CASE \E s \in Sems : sem_wait_Block(s)
  <2>1. /\ Depth = 0 /\ pc[cpu] = "user" /\ running # NULL /\ pc'[cpu] = "w_call"
        /\ state' = [state EXCEPT ![running] = "BLOCKED"]
        /\ \A t \in Threads \ {cpu} : pc'[t] = pc[t] /\ obj'[t] = obj[t]
        /\ UNCHANGED <<cpu, act, context>>
    BY <1>3 DEF sem_wait_Block, Calling, InBase, Goto, CpuTypeOK
  <2>2. running = cpu
    BY <2>1, Awake DEF HeadShape
  <2>3. \A t \in Threads : (t = cpu /\ state'[t] # "ABSENT") \/ state'[t] = state[t]
    BY <2>1, <2>2 DEF LibTypeOK
  <2>. QED
    BY <2>1, <2>3, CallResume DEF CreatePoints
<1>4. CASE sem_wait_Schedule
  <2>1. /\ Depth = 0 /\ PushSchedule /\ UNCHANGED <<cpu, obj, state, context>>
        /\ pc[cpu] = "w_call" /\ Goto("w_check")
    BY <1>4 DEF sem_wait_Schedule, InBase
  <2>. QED
    BY <2>1, PushResume DEF Goto, CpuTypeOK, CreatePoints
<1>5. CASE sem_wait_Check \/ sem_wait_Load \/ sem_wait_Store
  <2>1. /\ Depth = 0 /\ pc[cpu] \in {"w_check", "w_load", "w_store"}
        /\ pc'[cpu] \in {"w_load", "w_store", "user"}
        /\ \A t \in Threads \ {cpu} : pc'[t] = pc[t]
        /\ UNCHANGED <<cpu, act, obj, state, context>>
    BY <1>5 DEF sem_wait_Check, sem_wait_Load, sem_wait_Store, InBase, Goto, CpuTypeOK
  <2>. QED
    BY <2>1, CallResume DEF CreatePoints
<1>6. CASE sem_Error
  <2>1. /\ Depth = 0 /\ pc[cpu] = "user"
        /\ UNCHANGED <<cpu, act, pc, obj, state, context>>
    BY <1>6 DEF sem_Error, Calling, InBase
  <2>. QED
    BY <2>1, CallResume DEF CreatePoints
<1>. QED
  BY <1>1, <1>2, <1>3, <1>4, <1>5, <1>6 DEF semaphores, sem_wait

LEMMA ScheduleResume ==
  ASSUME TypeInv, CurrentInv, BlockInv, ResumeInv, schedule(Saved)
  PROVE  ResumeInv'
<1>. USE DEF TypeInv, TypeOK
<1>1. CASE schedule_Fault
  BY <1>1 DEF schedule_Fault, Fault, ResumeInv, Resume, Unrun, Live, Newborn, OnCpu, Parked,
     Phase, Depth, Top
<1>2. ASSUME NEW p, InSchedule(p)
      PROVE  /\ Depth > 0 /\ Phase = p /\ Top.at = p /\ head # NULL
             /\ running \in Threads /\ cpu \in Threads /\ Top \in Frames
             /\ Workers \subseteq Threads
  BY <1>2, TopType DEF InSchedule, Phase, Depth, HeadShape, LibTypeOK, CpuTypeOK, Threads
<1>3. \A t \in Threads : UNCHANGED <<pc, obj>> => (Newborn(t)' <=> Newborn(t))
  BY DEF Newborn
<1>4. ASSUME NEW f \in Frames, SetTop(f), Depth > 0, UNCHANGED <<cpu, pc, obj>>,
             Workers \subseteq Threads,
             \A t \in Threads : \/ state'[t] = state[t]
                                \/ state[t] \in {"READY", "RUNNING"} /\ state'[t] # "ABSENT",
             \A t \in Threads : Live(t)' /\ (t # cpu \/ f.at # "save") =>
               \/ ~OnCpu(t) /\ context'[t] = context[t]
               \/ context'[t] = [owner |-> t, depth |-> 1] /\ Len(act[t]) = 1
      PROVE  ResumeInv'
  <2>1. Phase' = f.at
    BY <1>4, SetTopPhase DEF CurrentInv
  <2>2. \A t \in Threads : Len(act'[t]) = Len(act[t])
    BY <1>4, SetTopType
  <2>3. \A t \in Threads : Live(t)' => Live(t)
    BY <1>4 DEF Live
  <2>4. ASSUME NEW t \in Threads, Live(t)', ~Newborn(t)', ~OnCpu(t)'
        PROVE  Parked(t)'
    <3>1. Live(t) /\ ~Newborn(t) /\ (t # cpu \/ f.at # "save")
      BY <1>3, <1>4, <2>1, <2>3, <2>4 DEF OnCpu
    <3>2. CASE ~OnCpu(t) /\ context'[t] = context[t]
      BY <2>2, <3>1, <3>2 DEF ResumeInv, Resume, Parked
    <3>3. CASE context'[t] = [owner |-> t, depth |-> 1] /\ Len(act[t]) = 1
      BY <2>2, <3>3 DEF Parked
    <3>. QED
      BY <1>4, <2>4, <3>1, <3>2, <3>3
  <2>5. Unrun'
    BY <1>3, <1>4, <2>2 DEF ResumeInv, Unrun
  <2>. QED
    BY <2>4, <2>5 DEF ResumeInv, Resume
<1>5. CASE schedule_Enter(Saved)
  <2>1. /\ Phase = "enter" /\ running = cpu /\ Depth > 0 /\ cpu \in Threads
        /\ UNCHANGED <<cpu, pc, obj, context>> /\ Workers \subseteq Threads
        /\ state[cpu] \in {"RUNNING", "BLOCKED", "TERMINATED"}
    BY <1>2, <1>5 DEF schedule_Enter, CurrentInv, Current, BlockInv, CpuState
  <2>2. /\ \A t \in Threads \ {cpu} : state'[t] = state[t]
        /\ state'[cpu] = state[cpu] \/ (state[cpu] = "RUNNING" /\ state'[cpu] = "READY")
    BY <1>5, <2>1 DEF schedule_Enter, LibTypeOK
  <2>3. PICK p \in {"save", "look"} : /\ SetTop(Frame(p))
                                      /\ p = "look" => state'[cpu] = "TERMINATED"
    BY <1>5, <2>1 DEF schedule_Enter, Saved
  <2>4. Frame(p) \in Frames /\ Frame(p).at = p
    BY FrameType DEF Frame, SchedulePoints
  <2>. QED
    BY <1>4, <2>1, <2>2, <2>3, <2>4 DEF Live, OnCpu
<1>6. CASE schedule_Save
  <2>0. /\ Phase = "save" /\ running = cpu /\ Depth > 0 /\ cpu \in Threads
        /\ Workers \subseteq Threads
    BY <1>2, <1>6 DEF schedule_Save, CurrentInv, Current
  <2>1. /\ Phase = "save" /\ running = cpu /\ Depth > 0 /\ cpu \in Threads
        /\ UNCHANGED <<cpu, pc, obj, state>> /\ Workers \subseteq Threads
        /\ SetTop(Frame("look"))
        /\ context' = [context EXCEPT ![cpu] = [owner |-> cpu, depth |-> Depth]]
    BY <1>6, <2>0 DEF schedule_Save
  <2>2. Depth = 1 /\ Len(act[cpu]) = 1
    BY <2>1 DEF CurrentInv, OneActivation, Depth, CpuTypeOK
  <2>3. /\ context'[cpu] = [owner |-> cpu, depth |-> 1]
        /\ \A t \in Threads \ {cpu} : context'[t] = context[t]
    BY <2>1, <2>2 DEF LibTypeOK
  <2>4. Frame("look") \in Frames
    BY FrameType DEF SchedulePoints
  <2>. QED
    BY <1>4, <2>1, <2>2, <2>3, <2>4 DEF OnCpu
<1>7. CASE schedule_Look \/ (schedule_Scan /\ UNCHANGED status)
           \/ schedule_Take \/ schedule_Install
  <2>1. /\ Phase \in {"look", "scan", "take", "install"} /\ Depth > 0
        /\ UNCHANGED <<cpu, pc, obj, context>> /\ Workers \subseteq Threads
        /\ Top \in Frames
    BY <1>2, <1>7 DEF schedule_Look, schedule_Scan, schedule_Take, schedule_Install
  <2>2. PICK f \in Frames : SetTop(f)
    <3>1. CASE schedule_Look
      BY <1>2, <3>1 DEF schedule_Look, Frames, SchedulePoints, LibTypeOK
    <3>2. CASE schedule_Scan /\ UNCHANGED status
      <4>1. /\ [Top EXCEPT !.at = "take"] \in Frames
            /\ [Top EXCEPT !.ptr = next[Top.ptr]] \in Frames
        BY <2>1, <3>2 DEF schedule_Scan, InSchedule, Frames, SchedulePoints, LibTypeOK
      <4>2. status # "exit0"
        BY <3>2 DEF schedule_Scan, InSchedule
      <4>. QED
        BY <3>2, <4>1, <4>2 DEF schedule_Scan
    <3>3. CASE schedule_Take \/ schedule_Install
      <4>1. \A p \in {"install", "jump"} :
              Top.at \in {"take", "install"} => [Top EXCEPT !.at = p] \in Frames
        BY <2>1 DEF Frames, SchedulePoints
      <4>. QED
        BY <3>3, <4>1 DEF schedule_Take, schedule_Install, InSchedule
    <3>. QED
      BY <1>7, <3>1, <3>2, <3>3
  <2>3. \A t \in Threads : \/ state'[t] = state[t]
                           \/ state[t] \in {"READY", "RUNNING"} /\ state'[t] # "ABSENT"
    <3>1. CASE schedule_Take \/ schedule_Install
      <4>1. /\ state' = [state EXCEPT ![Top.ptr] = "RUNNING"]
            /\ Phase \in {"take", "install"}
        BY <1>2, <3>1 DEF schedule_Take, schedule_Install
      <4>2. state[Top.ptr] \in {"READY", "RUNNING"}
        BY <4>1 DEF BlockInv, ChosenState
      <4>. QED
        BY <4>1, <4>2 DEF LibTypeOK
    <3>. QED
      BY <1>7, <3>1 DEF schedule_Look, schedule_Scan
  <2>4. \A t \in Threads : ~OnCpu(t)
    BY <2>1 DEF OnCpu
  <2>. QED
    BY <1>4, <2>1, <2>2, <2>3, <2>4
<1>8. CASE schedule_Scan /\ ~UNCHANGED status
  <2>1. UNCHANGED <<cpu, pc, obj, act, state, context>>
    BY <1>8 DEF schedule_Scan
  <2>. QED
    BY <2>1 DEF ResumeInv, Resume, Unrun, Live, Newborn, OnCpu, Parked, Phase, Depth, Top
<1>9. CASE schedule_Jump
  <2>. DEFINE c == context[Top.ptr]
  <2>1. /\ Phase = "jump" /\ running = Top.ptr /\ running \in Threads /\ cpu \in Threads
        /\ c.owner \in Threads /\ cpu' = c.owner
        /\ act' = [act EXCEPT ![c.owner] = SubSeq(@, 1, c.depth - 1)]
        /\ context' = [context EXCEPT ![running] = NoContext]
        /\ UNCHANGED <<pc, obj, state>> /\ Workers \subseteq Threads
    BY <1>2, <1>9, JumpClears DEF schedule_Jump, CurrentInv, Current, Resumable
  <2>2. c # NoContext
    BY <2>1 DEF NoContext, Threads
  <2>3. c = [owner |-> running, depth |-> 1]
    BY <2>1, <2>2 DEF CurrentInv, OwnContexts
  <2>4. cpu' = running /\ act' = [act EXCEPT ![running] = SubSeq(@, 1, 0)]
    BY <2>1, <2>3
  <2>5. SubSeq(act[running], 1, 0) = <<>>
    BY <2>1 DEF CpuTypeOK
  <2>6. act'[running] = <<>> /\ \A t \in Threads \ {running} : act'[t] = act[t]
    BY <2>1, <2>4, <2>5 DEF CpuTypeOK
  <2>7. Phase' = "code" /\ \A t \in Threads \ {running} : context'[t] = context[t]
    <3>1. Phase' = "code"
      BY <2>4, <2>6 DEF Phase, Depth
    <3>2. \A t \in Threads \ {running} : context'[t] = context[t]
      BY <2>1 DEF LibTypeOK
    <3>. QED
      BY <3>1, <3>2
  <2>8. Resume'
    <3>1. ASSUME NEW t \in Threads, Live(t)', ~Newborn(t)', ~OnCpu(t)' PROVE Parked(t)'
      <4>1. t # running /\ Live(t) /\ ~Newborn(t) /\ ~OnCpu(t)
        BY <1>3, <2>1, <2>4, <2>7, <3>1 DEF OnCpu, Live
      <4>. QED
        BY <2>6, <2>7, <4>1 DEF ResumeInv, Resume, Parked
    <3>. QED
      BY <3>1 DEF Resume
  <2>9. Unrun'
    <3>1. ASSUME NEW w \in Workers, state[w] = "ABSENT" \/ Newborn(w) PROVE w # running
      BY <2>1, <2>2, <3>1 DEF CurrentInv, Unborn, Newborns, Newborn
    <3>. QED
      BY <1>3, <2>1, <2>6, <3>1 DEF ResumeInv, Unrun
  <2>. QED
    BY <2>8, <2>9 DEF ResumeInv
<1>. QED
  BY <1>1, <1>5, <1>6, <1>7, <1>8, <1>9 DEF schedule

LEMMA ResumeStep ==
  ASSUME Unnested, TypeInv, CurrentInv, BlockInv, ResumeInv, [Next]_vars
  PROVE  ResumeInv'
<1>1. CASE pthread_create
  BY <1>1, CreateResume
<1>2. CASE pthread_exit \/ pthread_join
  BY <1>2, ExitJoinResume
<1>3. CASE semaphores
  BY <1>3, SemResume
<1>4. CASE schedule(Saved)
  BY <1>4, ScheduleResume
<1>5. CASE Interrupt
  BY <1>5, TickInCode, PushResume
<1>6. CASE UNCHANGED <<cpuVars, tail, handle, libVars, tcbVars>>
  BY <1>6 DEF ResumeInv, Resume, Unrun, Live, Newborn, OnCpu, Parked, Phase, Depth, Top
<1>. QED
  BY <1>1, <1>2, <1>3, <1>4, <1>5, <1>6
  DEF Next, Library, Ended, MainReturns, SyncFault, Fault

(* If no tick lands inside schedule() or pthread_create, the jmp_buf of    *)
(* every READY thread leads to a call of schedule() on the thread's own    *)
(* stack: longjmp never lands on a frame that is gone.                     *)
THEOREM ReadyIsResumableThm == Unnested /\ WholeCreates => (Spec => []ReadyIsResumable)
<1>. SUFFICES ASSUME Unnested, WholeCreates PROVE Spec => []ReadyIsResumable
  OBVIOUS
<1>1. Spec => [](TypeInv /\ CurrentInv /\ BlockInv /\ Queues)
  BY BlockAlways
<1>2. Init => ResumeInv /\ Whole(CreatePoints)
  BY ResumeInit, WholeInit DEF CreatePoints
<1>3. TypeInv /\ CurrentInv /\ BlockInv /\ ResumeInv /\ [Next]_vars => ResumeInv'
  BY ResumeStep
<1>4. TypeInv /\ Whole(CreatePoints) /\ [Next]_vars => Whole(CreatePoints)'
  BY WholeStep DEF WholeCreates, CreatePoints
<1>5. ASSUME TypeInv, CurrentInv, BlockInv, ResumeInv, Whole(CreatePoints)
      PROVE  ReadyIsResumable
  <2>1. SUFFICES ASSUME NEW t \in Threads, state[t] = "READY"
                 PROVE  \/ Resumable(t) /\ context[t].owner = t
                        \/ Depth > 0 /\ Top.at = "save" /\ t = running
                        \/ pc[cpu] \in CreatePoints /\ t = obj[cpu]
    BY DEF ReadyIsResumable
  <2>2. CASE Newborn(t)
    BY <1>5, <2>2 DEF Newborn, Whole
  <2>3. CASE OnCpu(t)
    <3>1. head # NULL
      BY <1>5, <2>1, <2>3 DEF TypeInv, HeadShape, BlockInv, CpuState, OnCpu
    <3>2. Phase = "save" /\ running = cpu
      BY <1>5, <2>1, <2>3, <3>1 DEF OnCpu, BlockInv, CpuState, CurrentInv, Current
    <3>3. Depth \in Nat
      BY <1>5 DEF TypeInv, TypeOK, CpuTypeOK, Depth
    <3>. QED
      BY <2>3, <3>2, <3>3 DEF Phase, OnCpu
  <2>4. CASE ~Newborn(t) /\ ~OnCpu(t)
    <3>1. Parked(t)
      BY <1>5, <2>1, <2>4 DEF ResumeInv, Resume, Live
    <3>2. /\ context[t].owner = t /\ context[t].depth = 1
          /\ Len(act[context[t].owner]) = 1
      BY <3>1 DEF Parked
    <3>. QED
      BY <3>2 DEF Resumable
  <2>. QED
    BY <2>2, <2>3, <2>4
<1>. QED
  BY <1>1, <1>2, <1>3, <1>4, <1>5, PTL DEF Spec

-----------------------------------------------------------------------------
(* What the library gives to clients of a certain form: exact counting to  *)
(* semaphores on which one thread waits, and the exit code to threads that *)
(* are joined by one thread.                                               *)

(* The program of t has such a call somewhere.                             *)
MayCall(t, o, a) ==
  \E i \in 1..Len(Program[t]) : [op |-> o, arg |-> a] \in Program[t][i]

(* At most one thread ever waits on a semaphore.                           *)
OneWaiter ==
  \A s \in Sems : \A t, u \in Threads :
    MayCall(t, "wait", s) /\ MayCall(u, "wait", s) => t = u

(* At most one thread ever joins a thread.                                 *)
OneJoiner ==
  \A w \in Workers : \A t, u \in Threads :
    MayCall(t, "join", w) /\ MayCall(u, "join", w) => t = u

Counted == \A t \in Threads : ip[t] \in Nat \ {0}

LEMMA CallingMay ==
  ASSUME TypeInv, Counted, NEW o, NEW a, Calling(o, a)
  PROVE  cpu \in Threads /\ MayCall(cpu, o, a)
<1>1. cpu \in Threads /\ ip[cpu] \in Nat \ {0}
  BY DEF TypeInv, TypeOK, CpuTypeOK, Counted
<1>2. Program[cpu] \in Seq(SUBSET Call)
  BY <1>1
<1>3. ip[cpu] \in 1..Len(Program[cpu])
  BY <1>1, <1>2 DEF Calling
<1>. QED
  BY <1>1, <1>3 DEF MayCall, Calling

LEMMA CountedStep ==
  ASSUME TypeInv, Counted, [Next]_vars
  PROVE  Counted'
<1>1. CASE UNCHANGED ip
  BY <1>1 DEF Counted
<1>2. CASE NextCall
  BY <1>2 DEF NextCall, Counted, TypeInv, TypeOK, CpuTypeOK
<1>3. CASE pthread_create \/ pthread_exit \/ pthread_join
  BY <1>1, <1>2, <1>3 DEF pthread_create, CreateEnter, CreateFirst, CreateFill, CreateContext,
     CreateOther, Fault,
     pthread_create_Enter, pthread_create_First, pthread_create_NoMemory,
     pthread_create_Tail, pthread_create_Append, pthread_create_Next, pthread_create_Prev, pthread_create_Fill,
     pthread_create_Ready, pthread_create_Context, pthread_create_Fault,
     pthread_exit, pthread_exit_Enter, pthread_exit_Code,
     pthread_exit_Wake, pthread_exit_Free, pthread_join,
     pthread_join_Call, pthread_join_Hang, pthread_join_Schedule, pthread_join_Read
<1>4. CASE semaphores
  BY <1>1, <1>2, <1>4 DEF semaphores, sem_wait, sem_init,
     sem_destroy, sem_post, sem_Error, sem_wait_Take, sem_wait_Negative, sem_wait_Block,
     sem_wait_Schedule, sem_wait_Check, sem_wait_Load, sem_wait_Store
<1>5. CASE schedule(Saved)
  BY <1>1, <1>5 DEF schedule, schedule_Enter, schedule_Save, schedule_Look, schedule_Scan,
     schedule_Take, schedule_Install, schedule_Jump, schedule_Fault, Fault
<1>. QED
  BY <1>1, <1>3, <1>4, <1>5
  DEF Next, Library, Interrupt, Tick, Ended, MainReturns, SyncFault, Fault

-----------------------------------------------------------------------------
(* Semaphores on which one thread waits.                                   *)
InWait(t) == pc[t] \in {"w_call", "w_check"}

(* A thread inside sem_wait has a semaphore it may wait for.               *)
WaitsAsked ==
  \A t \in Threads : pc[t] \in WaitPoints =>
    MayCall(t, "wait", obj[t]) /\ sem[obj[t]] # "none"

(* A waiter that has been woken finds the token it was woken for, and one  *)
(* that has not is not owed any.                                           *)
TokenForWoken ==
  \A t \in Threads : InWait(t) /\ sem[obj[t]] = "live" =>
    IF state[t] = "BLOCKED" THEN value[obj[t]] = 0 ELSE value[obj[t]] > 0

Unused == \A s \in Sems : sem[s] = "none" => passed[s] = 0

WaiterInv == Counted /\ WaitsAsked /\ TokenForWoken /\ Unused /\ TokensConserved

LEMMA WaiterInit == Init => WaiterInv
<1>. SUFFICES ASSUME Init PROVE WaiterInv
  OBVIOUS
<1>1. \A t \in Threads : pc[t] = "user" /\ ip[t] = 1
  BY DEF Init, CoreInit
<1>2. \A s \in Sems : sem[s] = "none" /\ passed[s] = 0
  BY DEF Init
<1>. QED
  BY <1>1, <1>2 DEF WaiterInv, Counted, WaitsAsked, TokenForWoken, InWait, Unused,
     TokensConserved, WaitPoints

(* A step that does not concern semaphores.                                *)
LEMMA WaiterKept ==
  ASSUME TypeInv, WaiterInv, Counted', UNCHANGED <<sem, value, posted, passed>>,
         \A t \in Threads : pc'[t] \in WaitPoints =>
           /\ pc'[t] = pc[t] \/ (InWait(t) /\ pc'[t] = "w_check")
           /\ obj'[t] = obj[t]
           /\ state'[t] = "BLOCKED" <=> state[t] = "BLOCKED"
  PROVE  WaiterInv'
<1>1. \A t \in Threads : pc'[t] \in WaitPoints => pc[t] \in WaitPoints
  BY DEF InWait, WaitPoints
<1>2. \A t \in Threads : pc'[t] \in {"w_call", "w_check"} => InWait(t) /\ pc'[t] \in WaitPoints
  BY DEF InWait, WaitPoints
<1>3. WaitsAsked'
  BY <1>1 DEF WaiterInv, WaitsAsked, MayCall
<1>4. TokenForWoken'
  BY <1>2 DEF WaiterInv, TokenForWoken, InWait
<1>. QED
  BY <1>3, <1>4 DEF WaiterInv, Unused, TokensConserved


LEMMA SoleWaiter ==
  ASSUME WaiterInv, OneWaiter, NEW s \in Sems, NEW t \in Threads, NEW u \in Threads,
         MayCall(t, "wait", s), pc[u] \in WaitPoints, obj[u] = s
  PROVE  u = t
BY DEF WaiterInv, WaitsAsked, OneWaiter

(* sem_post: the thread it wakes finds the token; if it wakes nobody then  *)
(* nobody waits.                                                           *)
LEMMA PostWaiter ==
  ASSUME TypeInv, BlockInv, Queues, TokenInv, WaiterInv, OneWaiter, Counted',
         NEW s \in Sems, sem_post(s)
  PROVE  WaiterInv'
<1>. USE DEF TypeInv, TypeOK
<1>1. /\ UNCHANGED <<pc, obj, sem, passed>> /\ sem[s] = "live"
      /\ value' = [value EXCEPT ![s] = @ + 1]
      /\ posted' = [posted EXCEPT ![s] = @ + 1]
  BY DEF sem_post
<1>2. /\ value[s] \in Nat /\ value'[s] = value[s] + 1
      /\ \A x \in Sems \ {s} : value'[x] = value[x] /\ posted'[x] = posted[x]
      /\ posted[s] \in Nat /\ posted'[s] = posted[s] + 1
      /\ passed[s] \in Nat /\ InitValue[s] \in Int
  <2>1. /\ value \in [Sems -> Int] /\ posted \in [Sems -> Nat] /\ passed \in [Sems -> Nat]
        /\ InitValue \in [Sems -> Int]
    BY SemAssumption DEF SyncTypeOK
  <2>2. value[s] >= 0
    BY <1>1 DEF TokenInv, TokensNotLost
  <2>. QED
    BY <1>1, <2>1, <2>2
<1>3. WaitsAsked'
  BY <1>1 DEF WaiterInv, WaitsAsked, MayCall
<1>4. TokensConserved'
  <2>1. SUFFICES ASSUME NEW x \in Sems, sem[x] = "live"
                 PROVE  value'[x] + passed[x] = InitValue[x] + posted'[x]
    BY <1>1 DEF TokensConserved
  <2>2. value[x] + passed[x] = InitValue[x] + posted[x]
    BY <2>1 DEF WaiterInv, TokensConserved
  <2>3. CASE x = s
    <3>1. value[s] + passed[s] = InitValue[s] + posted[s]
      BY <2>2, <2>3
    <3>2. value'[s] + passed[s] = InitValue[s] + posted'[s]
      <4>1. /\ value[s] \in Int /\ passed[s] \in Int /\ InitValue[s] \in Int
            /\ posted[s] \in Int
        BY <1>2
      <4>2. (value[s] + 1) + passed[s] = InitValue[s] + (posted[s] + 1)
        BY ONLY <3>1, <4>1
      <4>. QED
        BY <1>2, <4>2
    <3>. QED
      BY <2>3, <3>2
  <2>4. CASE x # s
    BY <1>2, <2>2, <2>4
  <2>. QED
    BY <2>3, <2>4
<1>5. Unused'
  BY <1>1 DEF WaiterInv, Unused
<1>6. TokenForWoken'
  <2>1. SUFFICES ASSUME NEW t \in Threads, InWait(t), sem[obj[t]] = "live"
                 PROVE  IF state'[t] = "BLOCKED" THEN value'[obj[t]] = 0
                        ELSE value'[obj[t]] > 0
    BY <1>1 DEF TokenForWoken, InWait
  <2>2. obj[t] \in Sems /\ pc[t] \in WaitPoints
    BY <2>1 DEF InWait, WaitPoints, LocalsShape
  <2>3. IF state[t] = "BLOCKED" THEN value[obj[t]] = 0 ELSE value[obj[t]] > 0
    BY <2>1 DEF WaiterInv, TokenForWoken
  <2>4. CASE value[s] = 0 /\ Wakeable(s) # {}
    <3>1. state' = [state EXCEPT ![ToWake(s)] = "READY"]
      BY <2>4 DEF sem_post
    <3>2. PICK v \in Threads : v = ToWake(s)
      BY <2>4, ToWakeType
    <3>3. Waits(v, s)
      BY <1>1, <2>4, <3>2, WokenWaits
    <3>4. state'[v] = "READY" /\ \A x \in Threads \ {v} : state'[x] = state[x]
      BY <3>1, <3>2 DEF LibTypeOK
    <3>5. CASE obj[t] = s
      <4>1. MayCall(v, "wait", s)
        BY <3>3 DEF WaiterInv, WaitsAsked, Waits, WaitPoints
      <4>2. t = v
        BY <2>2, <3>5, <4>1, SoleWaiter
      <4>. QED
        BY <1>2, <3>4, <3>5, <4>2
    <3>6. CASE obj[t] # s
      <4>1. t # v
        BY <3>3, <3>6 DEF Waits
      <4>. QED
        BY <1>2, <2>2, <2>3, <3>4, <3>6, <4>1
    <3>. QED
      BY <3>5, <3>6
  <2>5. CASE ~(value[s] = 0 /\ Wakeable(s) # {})
    <3>1. UNCHANGED state
      BY <2>5 DEF sem_post
    <3>2. ASSUME obj[t] = s, state[t] = "BLOCKED" PROVE FALSE
      <4>1. value[s] = 0 /\ Wakeable(s) = {}
        BY <2>3, <2>5, <3>2
      <4>2. Waits(t, s)
        BY <2>1, <3>2 DEF Waits, InWait
      <4>3. PICK q \in Seq(Threads) : IsQueue(s, q)
        BY <1>1 DEF Queues
      <4>4. q = <<>>
        BY <4>1, <4>3, QueueEnds
      <4>. QED
        BY <4>2, <4>3, <4>4 DEF IsQueue
    <3>. QED
      BY <1>2, <2>2, <2>3, <3>1, <3>2
  <2>. QED
    BY <2>4, <2>5
<1>. QED
  BY <1>3, <1>4, <1>5, <1>6 DEF WaiterInv


(* The other calls that concern semaphores.                                *)
LEMMA SemWaiter ==
  ASSUME TypeInv, CurrentInv, BlockInv, Queues, TokenInv, WaiterInv, OneWaiter, Counted',
         semaphores
  PROVE  WaiterInv'
<1>. USE DEF TypeInv, TypeOK
<1>1. CASE \E s \in Sems : sem_post(s)
  BY <1>1, PostWaiter
<1>2. CASE \E s \in Sems : sem_init(s)
  <2>1. PICK s \in Sems : sem_init(s)
    BY <1>2
  <2>2. /\ UNCHANGED <<pc, obj, state, posted, passed>> /\ sem[s] = "none" /\ sem'[s] = "live"
        /\ value'[s] = InitValue[s]
        /\ \A x \in Sems \ {s} : sem'[x] = sem[x] /\ value'[x] = value[x]
    BY <2>1 DEF sem_init, SyncTypeOK
  <2>3. ASSUME NEW t \in Threads, pc[t] \in WaitPoints
        PROVE  obj[t] \in Sems /\ obj[t] # s
    BY <2>2, <2>3 DEF WaiterInv, WaitsAsked, LocalsShape
  <2>4. WaitsAsked'
    BY <2>2, <2>3 DEF WaiterInv, WaitsAsked, MayCall
  <2>5. TokenForWoken'
    <3>1. \A t \in Threads : InWait(t) => pc[t] \in WaitPoints
      BY DEF InWait, WaitPoints
    <3>. QED
      BY <2>2, <2>3, <3>1 DEF WaiterInv, TokenForWoken, InWait
  <2>6. Unused'
    BY <2>2 DEF WaiterInv, Unused
  <2>7. passed[s] = 0 /\ posted[s] = 0 /\ InitValue[s] \in Int
    BY <2>2, SemAssumption DEF WaiterInv, Unused, TokenInv, NoneYet
  <2>8. TokensConserved'
    BY <2>2, <2>7 DEF WaiterInv, TokensConserved
  <2>. QED
    BY <2>4, <2>5, <2>6, <2>8 DEF WaiterInv
<1>3. CASE \E s \in Sems : sem_destroy(s)
  <2>1. PICK s \in Sems : sem_destroy(s)
    BY <1>3
  <2>2. /\ UNCHANGED <<pc, obj, state, value, posted, passed>> /\ sem[s] = "live"
        /\ sem'[s] = "freed" /\ \A x \in Sems \ {s} : sem'[x] = sem[x]
    BY <2>1 DEF sem_destroy, SyncTypeOK
  <2>3. \A x \in Sems : sem'[x] \in {"none", "live"} => sem[x] = sem'[x]
    BY <2>2
  <2>4. \A t \in Threads : pc[t] \in WaitPoints => obj[t] \in Sems
    BY DEF LocalsShape
  <2>5. WaitsAsked'
    BY <2>2, <2>3, <2>4 DEF WaiterInv, WaitsAsked, MayCall
  <2>6. TokenForWoken'
    <3>1. \A t \in Threads : InWait(t) => obj[t] \in Sems
      BY <2>4 DEF InWait, WaitPoints
    <3>. QED
      BY <2>2, <2>3, <3>1 DEF WaiterInv, TokenForWoken, InWait
  <2>7. Unused' /\ TokensConserved'
    BY <2>2, <2>3 DEF WaiterInv, Unused, TokensConserved
  <2>. QED
    BY <2>5, <2>6, <2>7 DEF WaiterInv
<1>4. CASE sem_Error
  <2>1. UNCHANGED <<pc, obj, state, sem, value, posted, passed>>
    BY <1>4 DEF sem_Error
  <2>. QED
    BY <2>1, WaiterKept
<1>5. CASE \E s \in Sems : sem_wait_Negative(s)
  <2>1. PICK s \in Sems : sem[s] = "live" /\ value[s] < 0
    BY <1>5 DEF sem_wait_Negative
  <2>. QED
    BY <2>1 DEF TokenInv, TokensNotLost, SyncTypeOK
<1>6. CASE \E s \in Sems : sem_wait_Take(s)
  <2>1. PICK s \in Sems : sem_wait_Take(s)
    BY <1>6
  <2>2. /\ UNCHANGED <<pc, obj, state, sem, posted>> /\ sem[s] = "live" /\ pc[cpu] = "user"
        /\ \A x \in Sems \ {s} : value'[x] = value[x] /\ passed'[x] = passed[x]
        /\ value[s] \in Int /\ value'[s] = value[s] - 1
        /\ passed[s] \in Nat /\ passed'[s] = passed[s] + 1 /\ posted[s] \in Nat
        /\ InitValue[s] \in Int
    BY <2>1, SemAssumption DEF sem_wait_Take, Calling, InBase, SyncTypeOK
  <2>3. cpu \in Threads /\ MayCall(cpu, "wait", s)
    BY <2>1, CallingMay DEF sem_wait_Take, WaiterInv
  <2>4. ASSUME NEW t \in Threads, InWait(t)
        PROVE  obj[t] \in Sems /\ obj[t] # s
    <3>1. pc[t] \in WaitPoints /\ pc[t] # "user"
      BY <2>4 DEF InWait, WaitPoints
    <3>2. obj[t] \in Sems
      BY <3>1 DEF LocalsShape
    <3>3. obj[t] = s => t = cpu
      BY <2>3, <3>1, SoleWaiter
    <3>. QED
      BY <2>2, <3>1, <3>2, <3>3
  <2>5. WaitsAsked'
    BY <2>2 DEF WaiterInv, WaitsAsked, MayCall
  <2>6. TokenForWoken'
    BY <2>2, <2>4 DEF WaiterInv, TokenForWoken, InWait
  <2>7. Unused'
    BY <2>2 DEF WaiterInv, Unused
  <2>8. TokensConserved'
    <3>1. value[s] + passed[s] = InitValue[s] + posted[s]
      BY <2>2 DEF WaiterInv, TokensConserved
    <3>2. value'[s] + passed'[s] = InitValue[s] + posted[s]
      <4>1. /\ value[s] \in Int /\ passed[s] \in Int /\ InitValue[s] \in Int
            /\ posted[s] \in Int
        BY <2>2
      <4>2. (value[s] - 1) + (passed[s] + 1) = value[s] + passed[s]
        BY ONLY <4>1
      <4>. QED
        BY <2>2, <3>1, <4>2
    <3>. QED
      BY <2>2, <3>2 DEF WaiterInv, TokensConserved
  <2>. QED
    BY <2>5, <2>6, <2>7, <2>8 DEF WaiterInv
<1>7. CASE \E s \in Sems : sem_wait_Block(s)
  <2>1. PICK s \in Sems : sem_wait_Block(s)
    BY <1>7
  <2>2. /\ UNCHANGED <<sem, value, posted, passed>> /\ sem[s] = "live" /\ value[s] = 0
        /\ Depth = 0 /\ pc[cpu] = "user" /\ running # NULL /\ head # NULL
        /\ state' = [state EXCEPT ![running] = "BLOCKED"]
        /\ obj' = [obj EXCEPT ![cpu] = s] /\ Goto("w_call")
    BY <2>1 DEF sem_wait_Block, Calling, InBase, HeadShape
  <2>3. cpu \in Threads /\ MayCall(cpu, "wait", s) /\ running = cpu
    BY <2>1, <2>2, CallingMay, Awake DEF sem_wait_Block, WaiterInv
  <2>4. /\ state'[cpu] = "BLOCKED" /\ obj'[cpu] = s /\ pc'[cpu] = "w_call"
        /\ \A t \in Threads \ {cpu} : state'[t] = state[t] /\ obj'[t] = obj[t] /\ pc'[t] = pc[t]
    BY <2>2, <2>3 DEF Goto, CpuTypeOK, LibTypeOK
  <2>5. WaitsAsked'
    BY <2>2, <2>3, <2>4 DEF WaiterInv, WaitsAsked, MayCall
  <2>6. TokenForWoken'
    BY <2>2, <2>3, <2>4 DEF WaiterInv, TokenForWoken, InWait
  <2>. QED
    BY <2>2, <2>5, <2>6 DEF WaiterInv, Unused, TokensConserved
<1>8. CASE sem_wait_Schedule
  <2>1. /\ UNCHANGED <<obj, state, sem, value, posted, passed>> /\ pc[cpu] = "w_call"
        /\ pc'[cpu] = "w_check" /\ \A t \in Threads \ {cpu} : pc'[t] = pc[t]
    BY <1>8 DEF sem_wait_Schedule, InBase, Goto, CpuTypeOK
  <2>. QED
    BY <2>1, WaiterKept DEF InWait
<1>9. CASE sem_wait_Check
  <2>1. /\ UNCHANGED <<obj, state, sem, value, posted>> /\ Depth = 0 /\ pc[cpu] = "w_check"
        /\ cpu \in Threads /\ sem[obj[cpu]] = "live"
    BY <1>9 DEF sem_wait_Check, InBase, CpuTypeOK
  <2>2. state[cpu] # "BLOCKED"
    BY <2>1, Awake DEF ExitPoints
  <2>3. value[obj[cpu]] > 0
    BY <2>1, <2>2 DEF WaiterInv, TokenForWoken, InWait
  <2>4. UNCHANGED passed /\ Goto("w_load")
    BY <1>9, <2>3 DEF sem_wait_Check
  <2>5. pc'[cpu] = "w_load" /\ \A t \in Threads \ {cpu} : pc'[t] = pc[t]
    BY <2>1, <2>4 DEF Goto, CpuTypeOK
  <2>6. WaitsAsked'
    BY <2>1, <2>5 DEF WaiterInv, WaitsAsked, MayCall, WaitPoints
  <2>7. TokenForWoken'
    BY <2>1, <2>5 DEF WaiterInv, TokenForWoken, InWait
  <2>. QED
    BY <2>1, <2>4, <2>6, <2>7 DEF WaiterInv, Unused, TokensConserved
<1>10. CASE sem_wait_Load
  <2>1. /\ UNCHANGED <<obj, state, sem, value, posted, passed>> /\ pc[cpu] = "w_load"
        /\ pc'[cpu] = "w_store" /\ \A t \in Threads \ {cpu} : pc'[t] = pc[t]
    BY <1>10 DEF sem_wait_Load, InBase, Goto, CpuTypeOK
  <2>2. WaitsAsked'
    BY <2>1 DEF WaiterInv, WaitsAsked, MayCall, WaitPoints
  <2>3. TokenForWoken'
    BY <2>1 DEF WaiterInv, TokenForWoken, InWait
  <2>. QED
    BY <2>1, <2>2, <2>3 DEF WaiterInv, Unused, TokensConserved
<1>11. CASE sem_wait_Store
  <2>1. /\ UNCHANGED <<obj, state, sem, posted>> /\ pc[cpu] = "w_store" /\ cpu \in Threads
        /\ pc'[cpu] = "user" /\ \A t \in Threads \ {cpu} : pc'[t] = pc[t]
        /\ sem[obj[cpu]] = "live"
    BY <1>11 DEF sem_wait_Store, InBase, Goto, CpuTypeOK
  <2>2. PICK s \in Sems : s = obj[cpu]
    BY <2>1 DEF LocalsShape, WaitPoints
  <2>3. value[s] > 0 /\ tmp[cpu] = value[s]
    BY <2>1, <2>2 DEF TokenInv, Decrementing, Decrement
  <2>4. /\ \A x \in Sems \ {s} : value'[x] = value[x] /\ passed'[x] = passed[x]
        /\ value[s] \in Int /\ value'[s] = value[s] - 1
        /\ passed[s] \in Nat /\ passed'[s] = passed[s] + 1 /\ posted[s] \in Nat
        /\ InitValue[s] \in Int
    BY <1>11, <2>2, <2>3, SemAssumption DEF sem_wait_Store, SyncTypeOK
  <2>5. MayCall(cpu, "wait", s)
    BY <2>1, <2>2 DEF WaiterInv, WaitsAsked, WaitPoints
  <2>6. ASSUME NEW t \in Threads, InWait(t)
        PROVE  obj[t] \in Sems /\ obj[t] # s
    <3>1. pc[t] \in WaitPoints /\ t # cpu
      BY <2>1, <2>6 DEF InWait, WaitPoints
    <3>2. obj[t] \in Sems
      BY <3>1 DEF LocalsShape
    <3>. QED
      BY <2>1, <2>5, <3>1, <3>2, SoleWaiter
  <2>7. WaitsAsked'
    BY <2>1 DEF WaiterInv, WaitsAsked, MayCall, WaitPoints
  <2>8. TokenForWoken'
    <3>1. ASSUME NEW t \in Threads, InWait(t)' PROVE InWait(t)
      BY <2>1, <3>1 DEF InWait
    <3>. QED
      BY <2>1, <2>4, <2>6, <3>1 DEF WaiterInv, TokenForWoken, InWait
  <2>9. Unused'
    BY <2>1, <2>2, <2>4 DEF WaiterInv, Unused
  <2>10. TokensConserved'
    <3>1. value[s] + passed[s] = InitValue[s] + posted[s]
      BY <2>1, <2>2 DEF WaiterInv, TokensConserved
    <3>2. value'[s] + passed'[s] = InitValue[s] + posted[s]
      BY <2>4, <3>1
    <3>. QED
      BY <2>1, <2>4, <3>2 DEF WaiterInv, TokensConserved
  <2>. QED
    BY <2>7, <2>8, <2>9, <2>10 DEF WaiterInv
<1>. QED
  BY <1>1, <1>2, <1>3, <1>4, <1>5, <1>6, <1>7, <1>8, <1>9, <1>10, <1>11
  DEF semaphores, sem_wait


LEMMA WaiterStep ==
  ASSUME Unnested, TypeInv, CurrentInv, BlockInv, Queues, TokenInv, WaiterInv, OneWaiter,
         [Next]_vars
  PROVE  WaiterInv'
<1>. USE DEF TypeInv, TypeOK
<1>1. Counted'
  BY CountedStep DEF WaiterInv
<1>2. CASE semaphores
  BY <1>1, <1>2, SemWaiter
<1>3. CASE UNCHANGED <<sem, value, posted, passed, pc, obj, state>>
  BY <1>1, <1>3, WaiterKept
<1>4. CASE pthread_create
  <2>1. Depth = 0 /\ pc[cpu] \in {"user"} \cup CreatePoints
    BY <1>4 DEF pthread_create, CreateEnter, CreateFirst, CreateFill, CreateContext,
       CreateOther, InBase, Calling, CreatePoints,
       pthread_create_Enter, pthread_create_First, pthread_create_NoMemory,
       pthread_create_Tail, pthread_create_Append, pthread_create_Next, pthread_create_Prev, pthread_create_Fill,
       pthread_create_Ready, pthread_create_Context, pthread_create_Fault
  <2>2. /\ UNCHANGED <<sem, value, posted, passed>>
        /\ UNCHANGED pc \/ \E p \in {"user"} \cup CreatePoints : Goto(p)
        /\ \A t \in Threads \ {cpu} : obj'[t] = obj[t]
    BY <1>4 DEF pthread_create, CreateEnter, CreateFirst, CreateFill, CreateContext,
       CreateOther, Fault, CreatePoints, CpuTypeOK,
       pthread_create_Enter, pthread_create_First, pthread_create_NoMemory,
       pthread_create_Tail, pthread_create_Append, pthread_create_Next, pthread_create_Prev, pthread_create_Fill,
       pthread_create_Ready, pthread_create_Context, pthread_create_Fault
  <2>3. ASSUME NEW t \in Threads, pc'[t] \in WaitPoints
        PROVE  pc'[t] = pc[t] /\ obj'[t] = obj[t]
    BY <2>1, <2>2, <2>3 DEF Goto, CpuTypeOK, WaitPoints, CreatePoints
  <2>4. ASSUME NEW t \in Threads, pc'[t] \in WaitPoints
        PROVE  state'[t] = "BLOCKED" <=> state[t] = "BLOCKED"
    <3>1. pc[t] \in WaitPoints /\ pc[t] # "user" /\ t # cpu
      BY <2>1, <2>3, <2>4 DEF WaitPoints, CreatePoints
    <3>2. CASE \E w \in Workers, u \in Uninit : pthread_create_Enter(w, u)
      <4>1. PICK w \in Workers, u \in Uninit : pthread_create_Enter(w, u)
        BY <3>2
      <4>2. state[w] = "ABSENT" /\ state' = [state EXCEPT ![w] = FreshState(u)]
        BY <4>1 DEF pthread_create_Enter
      <4>3. w # Main /\ w \in Threads
        BY DEF Threads
      <4>4. t # w
        BY <3>1, <4>2, <4>3 DEF BlockInv, PcStates
      <4>. QED
        BY <4>2, <4>4 DEF LibTypeOK
    <3>3. CASE pthread_create_First
      <4>1. state' = [state EXCEPT ![Main] = "RUNNING"] /\ head = NULL
        BY <3>3 DEF pthread_create_First
      <4>2. t # Main
        BY <3>1, <4>1 DEF HeadShape, WaitPoints
      <4>. QED
        BY <4>1, <4>2 DEF LibTypeOK
    <3>4. CASE pthread_create_Ready
      <4>1. pc[cpu] \in CreatePoints /\ state' = [state EXCEPT ![obj[cpu]] = "READY"]
        BY <3>4 DEF pthread_create_Ready, InBase, CreatePoints
      <4>2. cpu \in Threads
        BY DEF CpuTypeOK
      <4>3. pc[obj[cpu]] = "user"
        BY <4>1, <4>2 DEF BlockInv, PcStates
      <4>4. t # obj[cpu]
        BY <3>1, <4>3
      <4>. QED
        BY <4>1, <4>4 DEF LibTypeOK
    <3>5. CASE UNCHANGED state
      BY <3>5
    <3>. QED
      BY <1>4, <3>2, <3>3, <3>4, <3>5
      DEF pthread_create, CreateEnter, CreateFirst, CreateFill, CreateContext,
       CreateOther, Fault, pthread_create_NoMemory,
       pthread_create_Tail, pthread_create_Append, pthread_create_Next, pthread_create_Prev, pthread_create_Fill,
       pthread_create_Context, pthread_create_Fault
  <2>. QED
    BY <1>1, <2>2, <2>3, <2>4, WaiterKept
<1>5. CASE pthread_exit
  <2>1. /\ Depth = 0 /\ pc[cpu] \in {"user"} \cup ExitPoints
        /\ UNCHANGED <<sem, value, posted, passed>>
        /\ \E p \in ExitPoints : Goto(p)
        /\ \A t \in Threads \ {cpu} : obj'[t] = obj[t]
        /\ UNCHANGED <<cpu, act>>
    BY <1>5 DEF pthread_exit, InBase, Calling, ExitPoints, CpuTypeOK,
       pthread_exit_Enter, pthread_exit_Code, pthread_exit_Wake, pthread_exit_Free
  <2>2. ASSUME NEW t \in Threads, pc'[t] \in WaitPoints
        PROVE  t # cpu /\ pc'[t] = pc[t] /\ obj'[t] = obj[t]
    BY <2>1, <2>2 DEF Goto, CpuTypeOK, WaitPoints, ExitPoints
  <2>3. ASSUME NEW t \in Threads, pc'[t] \in WaitPoints
        PROVE  state'[t] = "BLOCKED" <=> state[t] = "BLOCKED"
    <3>1. pc[t] \in WaitPoints /\ t # cpu
      BY <2>2, <2>3
    <3>2. head # NULL /\ running = cpu
      <4>1. head # NULL
        BY <1>5, <2>1 DEF HeadShape, ExitPoints, pthread_exit, pthread_exit_Enter,
           pthread_exit_Code, pthread_exit_Wake, pthread_exit_Free, InBase
      <4>. QED
        BY <2>1, <4>1, Awake
    <3>3. CASE \E v \in Args : pthread_exit_Enter(v)
      BY <3>1, <3>2, <3>3 DEF pthread_exit_Enter, LibTypeOK
    <3>4. CASE pthread_exit_Wake
      <4>1. /\ pc[cpu] = "x_wake" /\ join[cpu] # Junk /\ cpu \in Threads
            /\ state' = IF join[cpu] = NULL THEN state
                        ELSE [state EXCEPT ![join[cpu]] = "READY"]
        BY <3>2, <3>4 DEF pthread_exit_Wake, InBase, CpuTypeOK
      <4>2. CASE join[cpu] = NULL
        BY <4>1, <4>2
      <4>3. CASE join[cpu] # NULL
        <5>1. join[cpu] \in Threads
          BY <4>1, <4>3 DEF SyncTypeOK, Pointers
        <5>2. Joining(join[cpu])
          BY <4>1, <5>1 DEF BlockInv, Joined, Gone
        <5>3. join[cpu] # t
          BY <3>1, <5>2 DEF Joining, JoinPoints, WaitPoints
        <5>. QED
          BY <4>1, <4>3, <5>1, <5>3 DEF LibTypeOK
      <4>. QED
        BY <4>2, <4>3
    <3>5. CASE UNCHANGED state
      BY <3>5
    <3>. QED
      BY <1>5, <3>3, <3>4, <3>5 DEF pthread_exit, pthread_exit_Code, pthread_exit_Free
  <2>. QED
    BY <1>1, <2>1, <2>2, <2>3, WaiterKept
<1>6. CASE pthread_join
  <2>1. CASE \E w \in Workers : pthread_join_Call(w)
    <3>1. PICK w \in Workers : pthread_join_Call(w)
      BY <2>1
    <3>2. /\ Depth = 0 /\ UNCHANGED <<sem, value, posted, passed>> /\ Goto("j_call")
          /\ pc[cpu] = "user" /\ handle[w] # NULL
          /\ \A t \in Threads \ {cpu} : obj'[t] = obj[t]
          /\ UNCHANGED state \/ state' = [state EXCEPT ![running] = "BLOCKED"]
      BY <3>1 DEF pthread_join_Call, JoinsHandle, Calling, InBase, CpuTypeOK
    <3>3. head # NULL
      BY <3>2 DEF HeadShape
    <3>4. running = cpu
      BY <3>2, <3>3, Awake
    <3>5. ASSUME NEW t \in Threads, pc'[t] \in WaitPoints
          PROVE  t # cpu /\ pc'[t] = pc[t]
      BY <3>2, <3>5 DEF Goto, CpuTypeOK, WaitPoints
    <3>6. ASSUME NEW t \in Threads, pc'[t] \in WaitPoints
          PROVE  state'[t] = "BLOCKED" <=> state[t] = "BLOCKED"
      BY <3>2, <3>4, <3>5, <3>6 DEF LibTypeOK
    <3>. QED
      BY <1>1, <3>2, <3>5, <3>6, WaiterKept
  <2>2. CASE pthread_join_Schedule \/ pthread_join_Read
    <3>1. /\ UNCHANGED <<sem, value, posted, passed, obj, state>>
          /\ Goto("j_read") \/ Goto("user")
      BY <2>2 DEF pthread_join_Schedule, pthread_join_Read
    <3>2. \A t \in Threads : pc'[t] \in WaitPoints => pc'[t] = pc[t]
      BY <3>1 DEF Goto, CpuTypeOK, WaitPoints
    <3>. QED
      BY <1>1, <3>1, <3>2, WaiterKept
  <2>. QED
    BY <1>3, <1>6, <2>1, <2>2 DEF pthread_join, pthread_join_Hang
<1>7. CASE schedule(Saved) /\ UNCHANGED syncVars
  <2>1. UNCHANGED <<pc, obj, sem, value, posted, passed>>
    BY <1>7 DEF schedule, schedule_Enter, schedule_Save, schedule_Look, schedule_Scan,
       schedule_Take, schedule_Install, schedule_Jump, schedule_Fault, Fault
  <2>2. \A t \in Threads : state'[t] = "BLOCKED" <=> state[t] = "BLOCKED"
    BY <1>7, ScheduleBlocked
  <2>. QED
    BY <1>1, <2>1, <2>2, WaiterKept
<1>8. CASE Interrupt
  BY <1>3, <1>8, TickInCode
<1>. QED
  BY <1>2, <1>3, <1>4, <1>5, <1>6, <1>7, <1>8
  DEF Next, Library, Ended, MainReturns, SyncFault, Fault

LEMMA WaiterAlways ==
  ASSUME Unnested, WholeTakes, NaturalValues, OneWaiter
  PROVE  Spec => [](TypeInv /\ Queues /\ WaiterInv)
<1>1. Init => TypeInv /\ CurrentInv /\ BlockInv /\ Queues /\ TokenInv /\ WaiterInv
  BY TypeInit, CurrentInit, BlockInit, QueuesInit, TokenInit, WaiterInit
<1>2. TypeInv /\ CurrentInv /\ BlockInv /\ Queues /\ TokenInv /\ WaiterInv /\ [Next]_vars
        => TypeInv' /\ CurrentInv' /\ BlockInv' /\ Queues' /\ TokenInv' /\ WaiterInv'
  BY TypeStep, CurrentStep, BlockStep, TokenStep, WaiterStep
<1>. QED
  BY <1>1, <1>2, PTL DEF Spec

(* If one thread at most waits on each semaphore, no token is lost or made *)
(* up, in value or by the waiter: what was posted is in value or was taken *)
(* by a sem_wait that returned.  No tick may land inside schedule() or     *)
(* inside value--.                                                         *)
THEOREM TokensConservedThm ==
  Unnested /\ WholeTakes /\ NaturalValues /\ OneWaiter => (Spec => []TokensConserved)
<1>. SUFFICES ASSUME Unnested, WholeTakes, NaturalValues, OneWaiter
              PROVE  Spec => []TokensConserved
  OBVIOUS
<1>1. Spec => []WaiterInv
  BY WaiterAlways, PTL
<1>2. WaiterInv => TokensConserved
  BY DEF WaiterInv
<1>. QED
  BY <1>1, <1>2, PTL

(* And no thread is left queued at a semaphore that has a token.           *)
THEOREM NoStrandedWaiterThm ==
  Unnested /\ WholeTakes /\ NaturalValues /\ OneWaiter => (Spec => []NoStrandedWaiter)
<1>. SUFFICES ASSUME Unnested, WholeTakes, NaturalValues, OneWaiter
              PROVE  Spec => []NoStrandedWaiter
  OBVIOUS
<1>1. TypeInv /\ Queues /\ WaiterInv => NoStrandedWaiter
  <2>1. SUFFICES ASSUME TypeInv, Queues, WaiterInv, NEW s \in Sems, sem[s] = "live", value[s] > 0,
                        NEW t \in Queued(s)
                 PROVE  FALSE
    BY DEF NoStrandedWaiter
  <2>2. PICK q \in Seq(Threads) : IsQueue(s, q)
    BY <2>1 DEF Queues
  <2>3. Queued(s) = {q[i] : i \in 1..Len(q)}
    BY <2>2, QueueRangeIs
  <2>4. t \in Threads /\ Waits(t, s)
    BY <2>2, <2>3 DEF IsQueue
  <2>5. value[s] = 0
    BY <2>1, <2>4 DEF WaiterInv, TokenForWoken, Waits, InWait
  <2>. QED
    BY <2>1, <2>5
<1>. QED
  BY <1>1, WaiterAlways, PTL


-----------------------------------------------------------------------------
(* Threads that one thread joins.                                          *)

(* The handle of a thread is the tid in its tcb.                           *)
HandleTids ==
  /\ \A w \in Workers :
       IF handle[w] # NULL THEN tid[w] = handle[w]
       ELSE tid[w] \in {0, Junk} \/ \E u \in Threads : pc[u] = "c_ready" /\ obj[u] = w
  /\ \A t \in Threads : pc[t] = "c_ready" => tid[obj[t]] = id

LEMMA HandleTidsInit == Init => HandleTids
BY DEF Init, CoreInit, HandleTids, Threads

LEMMA HandleTidsKept ==
  ASSUME HandleTids, UNCHANGED <<handle, tid, id>>,
         \A t \in Threads : /\ pc'[t] = "c_ready" <=> pc[t] = "c_ready"
                            /\ pc[t] = "c_ready" => obj'[t] = obj[t]
  PROVE  HandleTids'
BY DEF HandleTids

LEMMA HandleTidsStep ==
  ASSUME TypeInv, BlockInv, HandleInv, HandleTids, [Next]_vars
  PROVE  HandleTids'
<1>. USE DEF TypeInv, TypeOK
<1>1. CASE UNCHANGED <<handle, tid, id, pc, obj>>
  BY <1>1, HandleTidsKept
<1>2. CASE CreateEnter
  <2>1. PICK w \in Workers, u \in Uninit : pthread_create_Enter(w, u)
    BY <1>2 DEF CreateEnter
  <2>2. /\ Depth = 0 /\ pc[cpu] = "user" /\ state[w] = "ABSENT" /\ UNCHANGED handle
        /\ tid'[w] = FreshTid(u) /\ \A x \in Workers \ {w} : tid'[x] = tid[x]
        /\ pc' = [pc EXCEPT ![cpu] = "c_head"] /\ cpu \in Threads /\ w \in Threads
    BY <2>1 DEF pthread_create_Enter, Calling, InBase, Goto, LibTypeOK, CpuTypeOK, Threads
  <2>3. \A t \in Threads : pc[t] # "c_ready" /\ pc'[t] # "c_ready"
    BY <2>2 DEF HandleInv, Whole, CreatePoints, CpuTypeOK
  <2>4. FreshTid(u) \in {0, Junk}
    BY DEF FreshTid
  <2>5. handle[w] = NULL
    <3>1. tid[w] = 0 /\ handle[w] # 0
      BY <2>2 DEF BlockInv, Handles
    <3>. QED
      BY <3>1 DEF HandleTids
  <2>. QED
    BY <2>2, <2>3, <2>4, <2>5 DEF HandleTids
<1>3. CASE CreateFirst
  <2>1. /\ UNCHANGED <<handle, id>> /\ pc[cpu] = "c_head" /\ Depth = 0
        /\ tid' = [tid EXCEPT ![Main] = 0] /\ Goto("c_fill") /\ cpu \in Threads
    BY <1>3 DEF CreateFirst, pthread_create_First, InBase, CpuTypeOK
  <2>2. \A t \in Threads : pc[t] # "c_ready" /\ pc'[t] # "c_ready"
    BY <2>1 DEF HandleInv, Whole, CreatePoints, CpuTypeOK, Goto
  <2>3. \A w \in Workers : tid'[w] = tid[w]
    BY <2>1 DEF LibTypeOK, Threads
  <2>. QED
    BY <2>1, <2>2, <2>3 DEF HandleTids
<1>4. CASE CreateFill
  <2>1. /\ UNCHANGED <<handle, id, obj>> /\ pc[cpu] = "c_fill" /\ Depth = 0
        /\ tid' = [tid EXCEPT ![obj[cpu]] = id] /\ Goto("c_ready") /\ cpu \in Threads
    BY <1>4 DEF CreateFill, pthread_create_Fill, InBase, CpuTypeOK
  <2>2. PICK w \in Workers : w = obj[cpu]
    BY <2>1 DEF LocalsShape, CreatePoints
  <2>3. /\ pc'[cpu] = "c_ready" /\ \A t \in Threads : pc'[t] = "c_ready" => t = cpu
        /\ \A t \in Threads : pc[t] # "c_ready"
    BY <2>1 DEF HandleInv, Whole, CreatePoints, CpuTypeOK, Goto
  <2>4. tid'[w] = id /\ \A x \in Workers \ {w} : tid'[x] = tid[x]
    BY <2>1, <2>2 DEF LibTypeOK, Threads
  <2>5. handle[w] = NULL
    <3>1. tid[w] \in {0, Junk} /\ handle[w] # 0
      BY <2>1, <2>2 DEF BlockInv, Handles, Unfilled
    <3>2. handle[w] # NULL => handle[w] = tid[w] /\ handle[w] \in Nat
      BY DEF HandleTids, LibTypeOK
    <3>. QED
      BY <3>1, <3>2
  <2>6. \A x \in Workers \ {w} : handle[x] = NULL => tid[x] \in {0, Junk}
    BY <2>3 DEF HandleTids
  <2>7. \A x \in Workers \ {w} : handle[x] # NULL => tid[x] = handle[x]
    BY DEF HandleTids
  <2>. QED
    BY <2>1, <2>2, <2>3, <2>4, <2>5, <2>6, <2>7 DEF HandleTids
<1>5. CASE pthread_create_Ready
  <2>1. /\ UNCHANGED <<tid, id, obj>> /\ pc[cpu] = "c_ready" /\ Depth = 0
        /\ handle' = [handle EXCEPT ![obj[cpu]] = id] /\ Goto("c_context") /\ cpu \in Threads
    BY <1>5 DEF pthread_create_Ready, InBase, CpuTypeOK
  <2>2. PICK w \in Workers : w = obj[cpu]
    BY <2>1 DEF LocalsShape, CreatePoints
  <2>3. /\ \A t \in Threads : pc[t] = "c_ready" => t = cpu
        /\ \A t \in Threads : pc'[t] # "c_ready"
    BY <2>1 DEF HandleInv, Whole, CreatePoints, CpuTypeOK, Goto
  <2>4. handle'[w] = id /\ \A x \in Workers \ {w} : handle'[x] = handle[x]
    BY <2>1, <2>2 DEF LibTypeOK
  <2>5. tid[w] = id
    BY <2>1, <2>2 DEF HandleTids
  <2>6. \A x \in Workers \ {w} : IF handle[x] # NULL THEN tid[x] = handle[x]
                                ELSE tid[x] \in {0, Junk}
    BY <2>2, <2>3 DEF HandleTids
  <2>7. id # NULL
    BY DEF LibTypeOK
  <2>. QED
    BY <2>1, <2>3, <2>4, <2>5, <2>6, <2>7 DEF HandleTids
<1>6. CASE \E w \in Workers : pthread_create_NoMemory(w)
  <2>1. /\ UNCHANGED <<handle, tid, pc, obj>> /\ pc[cpu] = "user" /\ Depth = 0
    BY <1>6 DEF pthread_create_NoMemory, Calling, InBase
  <2>2. \A t \in Threads : pc[t] # "c_ready"
    BY <2>1 DEF HandleInv, Whole, CreatePoints
  <2>. QED
    BY <2>1, <2>2 DEF HandleTids
<1>7. CASE /\ UNCHANGED <<handle, tid, id>> /\ pc[cpu] # "c_ready"
           /\ \A t \in Threads \ {cpu} : obj'[t] = obj[t]
           /\ \E p \in BasePoints \ {"c_ready"} : Goto(p)
  BY <1>7, HandleTidsKept DEF CpuTypeOK, Goto
<1>8. CASE CreateContext \/ pthread_create_Tail \/ pthread_create_Append \/ pthread_create_Next \/ pthread_create_Prev
  BY <1>7, <1>8 DEF CreateContext, pthread_create_Tail, pthread_create_Append, pthread_create_Next,
     pthread_create_Prev, pthread_create_Context, InBase, BasePoints, CreatePoints
<1>9. CASE pthread_create
  BY <1>1, <1>2, <1>3, <1>4, <1>5, <1>6, <1>8, <1>9
  DEF pthread_create, CreateOther, pthread_create_Fault, Fault
<1>10. CASE pthread_exit
  BY <1>7, <1>10 DEF pthread_exit, pthread_exit_Enter, pthread_exit_Code, pthread_exit_Wake,
     pthread_exit_Free, InBase, Calling, BasePoints, ExitPoints, CpuTypeOK
<1>11. CASE pthread_join
  BY <1>1, <1>7, <1>11 DEF pthread_join, pthread_join_Call, pthread_join_Hang,
     pthread_join_Schedule, pthread_join_Read, JoinsHandle, InBase, Calling, BasePoints,
     JoinPoints, CpuTypeOK
<1>12. CASE semaphores
  BY <1>1, <1>7, <1>12 DEF semaphores, sem_wait, sem_init, sem_destroy, sem_post, sem_Error,
     sem_wait_Take, sem_wait_Negative, sem_wait_Block, sem_wait_Schedule, sem_wait_Check,
     sem_wait_Load, sem_wait_Store, InBase, Calling, BasePoints, WaitPoints, CpuTypeOK
<1>13. CASE schedule(Saved)
  BY <1>1, <1>13 DEF schedule, schedule_Enter, schedule_Save, schedule_Look, schedule_Scan,
     schedule_Take, schedule_Install, schedule_Jump, schedule_Fault, Fault
<1>. QED
  BY <1>1, <1>9, <1>10, <1>11, <1>12, <1>13
  DEF Next, Library, Interrupt, Tick, Ended, MainReturns, SyncFault, Fault

(* A joinable thread is the first in the ring with its tid.                *)
LEMMA FindsJoined ==
  ASSUME TypeInv, BlockInv, HandleInv, HandleTids, Depth = 0, pc[cpu] = "user",
         NEW w \in Workers, handle[w] # NULL, RingHits(handle[w]) # {}
  PROVE  FirstHit(handle[w]) = w
<1>. USE DEF TypeInv, TypeOK
<1>1. PICK p \in Threads : p = FirstHit(handle[w]) /\ tid[p] = handle[w]
  BY FoundTid
<1>2. handle[w] # 0 /\ handle[w] \in Nat
  BY DEF BlockInv, Handles, LibTypeOK
<1>3. p \in Workers
  BY <1>1, <1>2 DEF BlockInv, Handles, Threads
<1>4. \A u \in Threads : pc[u] # "c_ready"
  BY DEF HandleInv, Whole, CreatePoints
<1>5. handle[p] # NULL /\ handle[p] = tid[p]
  BY <1>1, <1>2, <1>3, <1>4 DEF HandleTids
<1>. QED
  BY <1>1, <1>3, <1>5 DEF HandleInv, TidsDistinct


(* A tcb holds the exit code from the line that stores it on, and none     *)
(* before that.                                                            *)
CodeStored == {"x_wake", "x_free", "x_spin"}
ExitCodes ==
  \A t \in Threads : exit_code[t] = IF pc[t] \in CodeStored THEN obj[t] ELSE NULL

NoJunkJoins == \A t \in Threads : join[t] # Junk

LEMMA ExitCodesInit == Init => ExitCodes /\ NoJunkJoins
BY DEF Init, CoreInit, ExitCodes, NoJunkJoins, CodeStored

LEMMA ExitCodesKept ==
  ASSUME ExitCodes, UNCHANGED exit_code,
         \A t \in Threads : /\ pc'[t] \in CodeStored <=> pc[t] \in CodeStored
                            /\ pc[t] \in CodeStored => obj'[t] = obj[t]
  PROVE  ExitCodes'
BY DEF ExitCodes

LEMMA ExitCodesStep ==
  ASSUME ZeroedTcbs, TypeInv, CurrentInv, BlockInv, ExitCodes, [Next]_vars
  PROVE  ExitCodes'
<1>. USE DEF TypeInv, TypeOK
<1>1. CASE UNCHANGED <<exit_code, pc, obj>>
  BY <1>1, ExitCodesKept
<1>2. CASE /\ UNCHANGED exit_code
           /\ \A t \in Threads \ {cpu} : obj'[t] = obj[t]
           /\ UNCHANGED obj \/ pc[cpu] \notin CodeStored
           /\ \E p \in BasePoints : Goto(p) /\ (p \in CodeStored <=> pc[cpu] \in CodeStored)
  <2>1. ASSUME NEW t \in Threads
        PROVE  /\ pc'[t] \in CodeStored <=> pc[t] \in CodeStored
               /\ pc[t] \in CodeStored => obj'[t] = obj[t]
    BY <1>2 DEF CpuTypeOK, Goto
  <2>. QED
    BY <1>2, <2>1, ExitCodesKept
<1>3. CASE CreateEnter
  <2>1. PICK w \in Workers, u \in Uninit :
          pthread_create_Enter(w, u) /\ exit_code' = Fresh(exit_code, w, u)
    BY <1>3 DEF CreateEnter
  <2>2. /\ pc[cpu] = "user" /\ state[w] = "ABSENT" /\ cpu \in Threads /\ w \in Threads
        /\ w # Main /\ \A t \in Threads \ {cpu} : obj'[t] = obj[t]
        /\ pc' = [pc EXCEPT ![cpu] = "c_head"]
    BY <2>1 DEF pthread_create_Enter, Calling, InBase, Goto, CpuTypeOK, Threads
  <2>3. u = NULL
    BY DEF ZeroedTcbs
  <2>4. exit_code'[w] = NULL /\ \A t \in Threads \ {w} : exit_code'[t] = exit_code[t]
    BY <2>1, <2>2, <2>3 DEF Fresh, SyncTypeOK
  <2>5. pc[w] = "user"
    BY <2>2 DEF BlockInv, PcStates
  <2>6. /\ pc'[w] \notin CodeStored
        /\ \A t \in Threads : pc'[t] \in CodeStored => pc'[t] = pc[t] /\ obj'[t] = obj[t]
        /\ \A t \in Threads : pc[t] \in CodeStored => pc'[t] = pc[t]
    BY <2>2, <2>5 DEF CpuTypeOK, CodeStored
  <2>. QED
    BY <2>4, <2>6 DEF ExitCodes
<1>4. CASE CreateFirst
  <2>1. PICK u \in Uninit : pthread_create_First /\ exit_code' = Fresh(exit_code, Main, u)
    BY <1>4 DEF CreateFirst
  <2>2. /\ UNCHANGED obj /\ pc[cpu] = "c_head" /\ cpu = Main /\ cpu \in Threads
        /\ pc' = [pc EXCEPT ![cpu] = "c_fill"]
    BY <2>1 DEF pthread_create_First, InBase, Goto, CpuTypeOK, HeadShape
  <2>3. u = NULL
    BY DEF ZeroedTcbs
  <2>4. exit_code'[cpu] = NULL /\ \A t \in Threads \ {cpu} : exit_code'[t] = exit_code[t]
    BY <2>1, <2>2, <2>3 DEF Fresh, SyncTypeOK
  <2>5. /\ pc'[cpu] \notin CodeStored
        /\ \A t \in Threads \ {cpu} : pc'[t] = pc[t]
    BY <2>2 DEF CpuTypeOK, CodeStored
  <2>. QED
    BY <2>2, <2>4, <2>5 DEF ExitCodes
<1>5. CASE CreateFill \/ CreateContext
  <2>1. /\ UNCHANGED <<exit_code, obj>> /\ pc[cpu] \in CreatePoints
        /\ \E p \in {"user"} \cup CreatePoints : Goto(p)
    BY <1>5 DEF CreateFill, CreateContext, pthread_create_Fill, pthread_create_Context, InBase,
       CreatePoints
  <2>. QED
    BY <1>2, <2>1 DEF CreatePoints, CodeStored, BasePoints
<1>6. CASE CreateOther
  <2>1. CASE \/ pthread_create_Tail \/ pthread_create_Append \/ pthread_create_Next \/ pthread_create_Prev
             \/ pthread_create_Ready
    <3>1. /\ UNCHANGED obj /\ pc[cpu] \in CreatePoints
          /\ \E p \in {"user"} \cup CreatePoints : Goto(p)
      BY <2>1 DEF pthread_create_Tail, pthread_create_Append, pthread_create_Next, pthread_create_Prev,
         pthread_create_Ready, InBase, CreatePoints
    <3>. QED
      BY <1>2, <1>6, <3>1 DEF CreateOther, CreatePoints, CodeStored, BasePoints
  <2>. QED
    BY <1>1, <1>6, <2>1 DEF CreateOther, pthread_create_NoMemory, pthread_create_Fault, Fault
<1>7. CASE \E v \in Args : pthread_exit_Enter(v)
  <2>1. /\ UNCHANGED exit_code /\ pc[cpu] = "user" /\ Goto("x_code")
        /\ \A t \in Threads \ {cpu} : obj'[t] = obj[t]
    BY <1>7 DEF pthread_exit_Enter, Calling, InBase, CpuTypeOK
  <2>. QED
    BY <1>2, <2>1 DEF CodeStored, BasePoints, ExitPoints
<1>8. CASE pthread_exit_Code
  <2>1. /\ Depth = 0 /\ pc[cpu] = "x_code" /\ UNCHANGED obj /\ cpu \in Threads
        /\ exit_code' = IF obj[cpu] = NULL THEN exit_code
                        ELSE [exit_code EXCEPT ![running] = obj[cpu]]
        /\ Goto("x_wake")
    BY <1>8 DEF pthread_exit_Code, InBase, CpuTypeOK
  <2>2. running = cpu
    BY <2>1, Awake DEF HeadShape
  <2>3. exit_code[cpu] = NULL
    BY <2>1 DEF ExitCodes, CodeStored
  <2>4. exit_code'[cpu] = obj[cpu] /\ \A t \in Threads \ {cpu} : exit_code'[t] = exit_code[t]
    BY <2>1, <2>2, <2>3 DEF SyncTypeOK
  <2>5. pc'[cpu] \in CodeStored /\ \A t \in Threads \ {cpu} : pc'[t] = pc[t]
    BY <2>1 DEF Goto, CpuTypeOK, CodeStored
  <2>. QED
    BY <2>1, <2>4, <2>5 DEF ExitCodes
<1>9. CASE pthread_exit_Wake \/ pthread_exit_Free
  BY <1>2, <1>9 DEF pthread_exit_Wake, pthread_exit_Free, InBase, CodeStored, BasePoints,
     ExitPoints
<1>10. CASE /\ UNCHANGED exit_code /\ pc[cpu] \notin CodeStored
            /\ \A t \in Threads \ {cpu} : obj'[t] = obj[t]
            /\ \E p \in {"user"} \cup JoinPoints \cup WaitPoints : Goto(p)
  BY <1>1, <1>2, <1>10 DEF BasePoints, CodeStored, JoinPoints, WaitPoints
<1>11. CASE pthread_join \/ semaphores
  <2>1. CASE pthread_join
    BY <1>1, <1>10, <2>1 DEF pthread_join, pthread_join_Call, pthread_join_Hang,
       pthread_join_Schedule, pthread_join_Read, JoinsHandle, InBase, Calling,
       JoinPoints, CpuTypeOK, CodeStored
  <2>2. CASE sem_wait
    BY <1>1, <1>10, <2>2 DEF sem_wait,
       sem_wait_Take, sem_wait_Negative, sem_wait_Block, sem_wait_Schedule, sem_wait_Check,
       sem_wait_Load, sem_wait_Store, InBase, Calling, WaitPoints, CpuTypeOK, CodeStored
  <2>. QED
    BY <1>1, <1>11, <2>1, <2>2 DEF semaphores, sem_init, sem_destroy, sem_post, sem_Error
<1>12. CASE schedule(Saved) /\ UNCHANGED syncVars
  BY <1>1, <1>12 DEF schedule, schedule_Enter, schedule_Save, schedule_Look, schedule_Scan,
     schedule_Take, schedule_Install, schedule_Jump, schedule_Fault, Fault
<1>. QED
  BY <1>1, <1>3, <1>4, <1>5, <1>6, <1>7, <1>8, <1>9, <1>10, <1>11, <1>12
  DEF Next, Library, Interrupt, Tick, Ended, MainReturns, SyncFault, Fault,
     pthread_create, pthread_exit

LEMMA NoJunkJoinsStep ==
  ASSUME ZeroedTcbs, TypeInv, NoJunkJoins, [Next]_vars
  PROVE  NoJunkJoins'
<1>. USE DEF TypeInv, TypeOK, NoJunkJoins
<1>1. CASE UNCHANGED join
  BY <1>1
<1>2. ASSUME NEW t \in Threads, NEW v, join' = [join EXCEPT ![t] = v], v # Junk
      PROVE  NoJunkJoins'
  BY <1>2 DEF SyncTypeOK
<1>3. CASE pthread_create
  <2>1. CASE CreateEnter
    BY <1>2, <2>1 DEF CreateEnter, Fresh, ZeroedTcbs, Threads
  <2>2. CASE CreateFirst
    BY <1>2, <2>2 DEF CreateFirst, Threads
  <2>3. CASE CreateFill
    <3>1. pc[cpu] \in CreatePoints /\ cpu \in Threads
          /\ join' = [join EXCEPT ![obj[cpu]] = NULL]
      BY <2>3 DEF CreateFill, pthread_create_Fill, InBase, CpuTypeOK, CreatePoints
    <3>2. obj[cpu] \in Threads
      BY <3>1 DEF LocalsShape, Threads
    <3>. QED
      BY <1>2, <3>1, <3>2
  <2>4. CASE CreateContext \/ CreateOther
    BY <2>4 DEF CreateContext, CreateOther
  <2>. QED
    BY <1>3, <2>1, <2>2, <2>3, <2>4 DEF pthread_create
<1>4. CASE \E w \in Workers : pthread_join_Call(w)
  <2>1. PICK w \in Workers : pthread_join_Call(w)
    BY <1>4
  <2>2. handle[w] # NULL /\ RingHits(handle[w]) # {}
    BY <2>1 DEF pthread_join_Call, JoinsHandle
  <2>3. PICK p \in Threads : p = FirstHit(handle[w])
    BY <2>2, FirstHitType
  <2>4. running \in Threads /\ running # Junk
    BY <2>2 DEF HeadShape, LibTypeOK
  <2>. QED
    BY <1>1, <1>2, <2>1, <2>3, <2>4 DEF pthread_join_Call
<1>5. CASE pthread_exit \/ semaphores \/ UNCHANGED syncVars
  BY <1>5 DEF pthread_exit, pthread_exit_Enter, pthread_exit_Code, pthread_exit_Wake,
     pthread_exit_Free, semaphores, sem_wait, sem_init, sem_destroy, sem_post, sem_Error,
     sem_wait_Take, sem_wait_Negative, sem_wait_Block, sem_wait_Schedule, sem_wait_Check,
     sem_wait_Load, sem_wait_Store
<1>. QED
  BY <1>3, <1>4, <1>5
  DEF Next, Library, Interrupt, Tick, Ended, MainReturns, SyncFault, Fault, pthread_join,
     pthread_join_Hang, pthread_join_Schedule, pthread_join_Read


(* Only pthread_exit and sem_post unblock a thread.                        *)
LEMMA Unblocks ==
  ASSUME TypeInv, CurrentInv, BlockInv, [Next]_vars,
         NEW t \in Threads, state[t] = "BLOCKED", state'[t] # "BLOCKED"
  PROVE  \/ pthread_exit_Wake /\ running = cpu /\ t = join[cpu] /\ state[cpu] = "TERMINATED"
         \/ \E s \in Sems : sem_post(s) /\ Wakeable(s) # {} /\ t = ToWake(s)
<1>. USE DEF TypeInv, TypeOK
<1>1. pc[t] \in {"j_call", "j_read", "w_call", "w_check"}
  BY DEF BlockInv, PcStates
<1>2. CASE pthread_create
  <2>1. CASE \E w \in Workers, u \in Uninit : pthread_create_Enter(w, u)
    BY <2>1 DEF pthread_create_Enter, LibTypeOK
  <2>2. CASE pthread_create_First
    <3>1. state' = [state EXCEPT ![Main] = "RUNNING"] /\ state[Main] = "ABSENT"
      BY <2>2 DEF pthread_create_First, BlockInv, CpuState
    <3>. QED
      BY <3>1 DEF LibTypeOK
  <2>3. CASE pthread_create_Ready
    <3>1. /\ pc[cpu] \in CreatePoints /\ state' = [state EXCEPT ![obj[cpu]] = "READY"]
          /\ cpu \in Threads
      BY <2>3 DEF pthread_create_Ready, InBase, CreatePoints, CpuTypeOK
    <3>2. pc[obj[cpu]] = "user"
      BY <3>1 DEF BlockInv, PcStates
    <3>. QED
      BY <1>1, <3>1, <3>2 DEF LibTypeOK
  <2>4. CASE UNCHANGED state
    BY <2>4
  <2>. QED
    BY <1>2, <2>1, <2>2, <2>3, <2>4
    DEF pthread_create, CreateEnter, CreateFirst, CreateFill, CreateContext,
       CreateOther, Fault, pthread_create_NoMemory,
       pthread_create_Tail, pthread_create_Append, pthread_create_Next, pthread_create_Prev, pthread_create_Fill,
       pthread_create_Context, pthread_create_Fault
<1>3. CASE pthread_exit
  <2>1. CASE \E v \in Args : pthread_exit_Enter(v)
    <3>1. /\ Depth = 0 /\ pc[cpu] = "user" /\ head # NULL
          /\ state' = [state EXCEPT ![running] = "TERMINATED"]
      BY <2>1 DEF pthread_exit_Enter, Calling, InBase, HeadShape
    <3>2. running = cpu
      BY <3>1, Awake
    <3>. QED
      BY <1>1, <3>1, <3>2 DEF LibTypeOK
  <2>2. CASE pthread_exit_Wake
    <3>1. /\ Depth = 0 /\ pc[cpu] = "x_wake" /\ cpu \in Threads
          /\ state' = IF join[running] = NULL THEN state
                      ELSE [state EXCEPT ![join[running]] = "READY"]
      BY <2>2 DEF pthread_exit_Wake, InBase, CpuTypeOK
    <3>2. running = cpu
      BY <3>1, Awake DEF HeadShape
    <3>3. state[cpu] = "TERMINATED"
      BY <3>1 DEF BlockInv, PcStates, ExitPoints
    <3>. QED
      BY <2>2, <3>1, <3>2, <3>3 DEF LibTypeOK
  <2>. QED
    BY <1>3, <2>1, <2>2 DEF pthread_exit, pthread_exit_Code, pthread_exit_Free
<1>4. CASE pthread_join
  BY <1>4 DEF pthread_join, pthread_join_Call, pthread_join_Hang, pthread_join_Schedule,
     pthread_join_Read, LibTypeOK
<1>5. CASE semaphores
  <2>1. CASE \E s \in Sems : sem_post(s)
    BY <2>1 DEF sem_post, LibTypeOK
  <2>2. CASE ~ \E s \in Sems : sem_post(s)
    BY <1>5, <2>2 DEF semaphores, sem_wait, sem_init, sem_destroy, sem_Error, sem_wait_Take,
       sem_wait_Negative, sem_wait_Block, sem_wait_Schedule, sem_wait_Check,
       sem_wait_Load, sem_wait_Store, LibTypeOK
  <2>. QED
    BY <2>1, <2>2
<1>6. CASE schedule(Saved)
  BY <1>6, ScheduleBlocked
<1>. QED
  BY <1>2, <1>3, <1>4, <1>5, <1>6
  DEF Next, Library, Interrupt, Tick, Ended, MainReturns, SyncFault, Fault

(* A thread in pthread_join waits for a thread it may join, and until that *)
(* one has terminated it is BLOCKED.                                       *)
JoinsAsked ==
  \A t \in Threads : pc[t] \in JoinPoints =>
    /\ obj[t] \in Workers /\ MayCall(t, "join", obj[t])
    /\ state[obj[t]] = "TERMINATED" \/ Joining(t)

LEMMA JoinsAskedInit == Init => JoinsAsked
BY DEF Init, CoreInit, JoinsAsked, JoinPoints

LEMMA JoinsAskedKept ==
  ASSUME JoinsAsked, Workers \subseteq Threads,
         \A t \in Threads : state[t] = "TERMINATED" => state'[t] = "TERMINATED",
         \A t \in Threads : pc'[t] \in JoinPoints =>
           /\ pc[t] \in JoinPoints /\ obj'[t] = obj[t]
           /\ Joining(t) => state'[t] = "BLOCKED" \/ state'[obj[t]] = "TERMINATED"
  PROVE  JoinsAsked'
<1>1. SUFFICES ASSUME NEW t \in Threads, pc'[t] \in JoinPoints
               PROVE  /\ obj'[t] \in Workers /\ MayCall(t, "join", obj'[t])
                      /\ \/ state'[obj'[t]] = "TERMINATED"
                         \/ state'[t] = "BLOCKED" /\ pc'[t] \in JoinPoints
  BY DEF JoinsAsked, MayCall, Joining
<1>. QED
  BY <1>1 DEF JoinsAsked

(* The call registers the caller: the thread it joins has no other joiner. *)
LEMMA JoinCallAsked ==
  ASSUME OneJoiner, TypeInv, CurrentInv, BlockInv, HandleInv, HandleTids, NoJunkJoins,
         Counted, JoinsAsked, NEW w \in Workers, pthread_join_Call(w),
         \A t \in Threads : state[t] = "TERMINATED" => state'[t] = "TERMINATED"
  PROVE  JoinsAsked'
<1>. USE DEF TypeInv, TypeOK
<1>1. /\ Depth = 0 /\ pc[cpu] = "user" /\ Calling("join", w) /\ handle[w] # NULL
      /\ RingHits(handle[w]) # {} /\ w \in Threads /\ cpu \in Threads
  BY DEF pthread_join_Call, JoinsHandle, Calling, InBase, Threads, CpuTypeOK
<1>2. FirstHit(handle[w]) = w
  BY <1>1, FindsJoined
<1>3. running = cpu
  BY <1>1, Awake DEF HeadShape
<1>4. /\ IF state[w] # "TERMINATED" /\ join[w] = NULL
           THEN state' = [state EXCEPT ![cpu] = "BLOCKED"]
           ELSE UNCHANGED state
      /\ obj' = [obj EXCEPT ![cpu] = w]
      /\ pc' = [pc EXCEPT ![cpu] = "j_call"]
  BY <1>2, <1>3 DEF pthread_join_Call, Goto
<1>5. MayCall(cpu, "join", w)
  BY <1>1, CallingMay
<1>6. state[w] # "TERMINATED" => join[w] = NULL
  <2>1. SUFFICES ASSUME state[w] # "TERMINATED", join[w] # NULL PROVE FALSE
    OBVIOUS
  <2>2. join[w] \in Threads
    BY <1>1, <2>1 DEF NoJunkJoins, SyncTypeOK, Pointers
  <2>3. ~Gone(w)
    BY <1>1, <2>1 DEF BlockInv, PcStates, Gone, ExitPoints
  <2>4. Joining(join[w]) /\ obj[join[w]] = w
    BY <1>1, <2>2, <2>3 DEF BlockInv, Joined
  <2>5. MayCall(join[w], "join", w)
    BY <2>2, <2>4 DEF JoinsAsked, Joining
  <2>6. join[w] = cpu
    BY <1>1, <1>5, <2>2, <2>5 DEF OneJoiner
  <2>. QED
    BY <1>1, <2>4, <2>6 DEF Joining, JoinPoints
<1>7. SUFFICES ASSUME NEW t \in Threads, pc'[t] \in JoinPoints
               PROVE  /\ obj'[t] \in Workers /\ MayCall(t, "join", obj'[t])
                      /\ \/ state'[obj'[t]] = "TERMINATED"
                         \/ state'[t] = "BLOCKED" /\ pc'[t] \in JoinPoints
  BY DEF JoinsAsked, MayCall, Joining
<1>8. CASE t = cpu
  <2>1. obj'[t] = w
    BY <1>1, <1>4, <1>8 DEF CpuTypeOK
  <2>2. state[w] # "TERMINATED" => state'[t] = "BLOCKED"
    BY <1>1, <1>4, <1>6, <1>8 DEF LibTypeOK
  <2>. QED
    BY <1>1, <1>5, <1>7, <1>8, <2>1, <2>2
<1>9. CASE t # cpu
  <2>1. pc'[t] = pc[t] /\ obj'[t] = obj[t] /\ (state[t] = "BLOCKED" => state'[t] = "BLOCKED")
    BY <1>1, <1>4, <1>9 DEF CpuTypeOK, LibTypeOK
  <2>2. Workers \subseteq Threads
    BY DEF Threads
  <2>. QED
    BY <1>7, <2>1, <2>2 DEF JoinsAsked, Joining
<1>. QED
  BY <1>8, <1>9

LEMMA JoinsAskedStep ==
  ASSUME OneJoiner, TypeInv, CurrentInv, BlockInv, Queues, BlockInv', HandleInv, HandleTids,
         NoJunkJoins, Counted, JoinsAsked, [Next]_vars
  PROVE  JoinsAsked'
<1>. USE DEF TypeInv, TypeOK
<1>1. \A t \in Threads : state[t] = "TERMINATED" => state'[t] = "TERMINATED"
  BY ExitForGood DEF BlockInv, PcStates
<1>2. Workers \subseteq Threads
  BY DEF Threads
<1>3. ASSUME NEW t \in Threads, Joining(t)
      PROVE  state'[t] = "BLOCKED" \/ state'[obj[t]] = "TERMINATED"
  <2>1. SUFFICES ASSUME state'[t] # "BLOCKED" PROVE state'[obj[t]] = "TERMINATED"
    OBVIOUS
  <2>2. CASE pthread_exit_Wake /\ running = cpu /\ t = join[cpu] /\ state[cpu] = "TERMINATED"
    <3>1. cpu \in Threads /\ ~Gone(cpu)
      BY <2>2 DEF pthread_exit_Wake, InBase, Gone, CpuTypeOK
    <3>2. obj[t] = cpu
      BY <2>2, <3>1 DEF BlockInv, Joined
    <3>. QED
      BY <1>1, <2>2, <3>1, <3>2
  <2>3. ASSUME NEW s \in Sems, sem_post(s), Wakeable(s) # {}, t = ToWake(s)
        PROVE  FALSE
    <3>1. Waits(t, s)
      BY <2>3, WokenWaits DEF sem_post
    <3>. QED
      BY <1>3, <3>1 DEF Waits, Joining, JoinPoints
  <2>. QED
    BY <1>3, <2>1, <2>2, <2>3, Unblocks DEF Joining
<1>4. CASE \E w \in Workers : pthread_join_Call(w)
  BY <1>1, <1>4, JoinCallAsked
<1>5. CASE /\ \A t \in Threads \ {cpu} : obj'[t] = obj[t]
           /\ \/ \E p \in BasePoints \ JoinPoints : Goto(p)
              \/ pc[cpu] = "j_call" /\ Goto("j_read") /\ UNCHANGED obj
  <2>1. ASSUME NEW t \in Threads, pc'[t] \in JoinPoints
        PROVE  pc[t] \in JoinPoints /\ obj'[t] = obj[t]
    BY <1>5, <2>1 DEF CpuTypeOK, Goto, JoinPoints
  <2>. QED
    BY <1>1, <1>2, <1>3, <2>1, JoinsAskedKept
<1>6. CASE UNCHANGED <<pc, obj>>
  BY <1>1, <1>2, <1>3, <1>6, JoinsAskedKept
<1>7. CASE pthread_create
  BY <1>5, <1>6, <1>7 DEF pthread_create, CreateEnter, CreateFirst, CreateFill, CreateContext,
     CreateOther, Fault, BasePoints, CreatePoints, JoinPoints, CpuTypeOK,
     pthread_create_Enter, pthread_create_First, pthread_create_NoMemory,
     pthread_create_Tail, pthread_create_Append, pthread_create_Next, pthread_create_Prev, pthread_create_Fill,
     pthread_create_Ready, pthread_create_Context, pthread_create_Fault
<1>8. CASE pthread_exit
  BY <1>5, <1>8 DEF pthread_exit, BasePoints, ExitPoints, JoinPoints, CpuTypeOK,
     pthread_exit_Enter, pthread_exit_Code, pthread_exit_Wake, pthread_exit_Free
<1>9. CASE pthread_join_Schedule \/ pthread_join_Read
  BY <1>5, <1>9 DEF pthread_join_Schedule, pthread_join_Read, InBase, BasePoints, JoinPoints
<1>10. CASE semaphores
  BY <1>5, <1>6, <1>10 DEF semaphores, sem_wait, sem_init, sem_destroy, sem_post, sem_Error,
     sem_wait_Take, sem_wait_Negative, sem_wait_Block, sem_wait_Schedule, sem_wait_Check,
     sem_wait_Load, sem_wait_Store, BasePoints, WaitPoints, JoinPoints, CpuTypeOK
<1>11. CASE schedule(Saved)
  BY <1>6, <1>11 DEF schedule, schedule_Enter, schedule_Save, schedule_Look, schedule_Scan,
     schedule_Take, schedule_Install, schedule_Jump, schedule_Fault, Fault
<1>. QED
  BY <1>4, <1>6, <1>7, <1>8, <1>9, <1>10, <1>11
  DEF Next, Library, Interrupt, Tick, Ended, MainReturns, SyncFault, Fault,
     pthread_join, pthread_join_Hang

JoinInv ==
  /\ Counted /\ HandleTids /\ ExitCodes /\ NoJunkJoins /\ JoinsAsked
  /\ HandleInv /\ Whole(WakingExit)

(* When pthread_join reads the exit code, the thread it joined has         *)
(* terminated, and the code is the one that thread passed to pthread_exit. *)
(* Each thread is joined by one other at most, pthread_create and the      *)
(* stores of pthread_exit up to the wake-up are not interrupted, and       *)
(* malloc hands out zeroed memory (pthread_exit(NULL) stores no code).     *)
THEOREM JoinSeesExitThm ==
  Unnested /\ WholeCreates /\ WholeExits /\ ZeroedTcbs /\ OneJoiner
    => (Spec => []JoinSeesExit)
<1>. SUFFICES ASSUME Unnested, WholeCreates, WholeExits, ZeroedTcbs, OneJoiner
              PROVE  Spec => []JoinSeesExit
  OBVIOUS
<1>1. Spec => [](TypeInv /\ CurrentInv /\ BlockInv /\ Queues)
  BY BlockAlways
<1>2. Init => JoinInv
  <2>1. Init => Counted
    BY DEF Init, CoreInit, Counted
  <2>2. Init => Whole(WakingExit)
    BY WholeInit DEF WakingExit
  <2>. QED
    BY <2>1, <2>2, HandleTidsInit, ExitCodesInit, JoinsAskedInit, HandleInit DEF JoinInv
<1>3. ASSUME TypeInv, CurrentInv, BlockInv, Queues, BlockInv', JoinInv, [Next]_vars
      PROVE  JoinInv'
  <2>1. Whole(WakingExit)'
    BY <1>3, WholeStep DEF JoinInv, WholeExits, WakingExit
  <2>2. Counted' /\ HandleInv'
    BY <1>3, CountedStep, HandleStep DEF JoinInv
  <2>3. HandleTids' /\ ExitCodes' /\ NoJunkJoins'
    BY <1>3, HandleTidsStep, ExitCodesStep, NoJunkJoinsStep DEF JoinInv
  <2>4. JoinsAsked'
    BY <1>3, JoinsAskedStep DEF JoinInv
  <2>. QED
    BY <2>1, <2>2, <2>3, <2>4 DEF JoinInv
<1>4. ASSUME TypeInv, CurrentInv, BlockInv, JoinInv PROVE JoinSeesExit
  <2>1. SUFFICES ASSUME InBase("j_read")
                 PROVE  /\ state[obj[cpu]] = "TERMINATED"
                        /\ exit_code[obj[cpu]] = obj[obj[cpu]]
    BY DEF JoinSeesExit
  <2>2. Depth = 0 /\ pc[cpu] = "j_read" /\ cpu \in Threads
    BY <1>4, <2>1 DEF InBase, TypeInv, TypeOK, CpuTypeOK
  <2>3. state[cpu] # "BLOCKED"
    BY <1>4, <2>2, Awake DEF ExitPoints
  <2>4. obj[cpu] \in Threads /\ state[obj[cpu]] = "TERMINATED"
    BY <1>4, <2>2, <2>3 DEF JoinInv, JoinsAsked, JoinPoints, Joining, Threads
  <2>5. pc[obj[cpu]] \in ExitPoints
    BY <1>4, <2>4 DEF BlockInv, PcStates
  <2>6. pc[obj[cpu]] \notin WakingExit
    BY <1>4, <2>2, <2>4 DEF JoinInv, Whole, WakingExit
  <2>7. pc[obj[cpu]] \in CodeStored
    BY <2>5, <2>6 DEF ExitPoints, WakingExit, CodeStored
  <2>. QED
    BY <1>4, <2>4, <2>7 DEF JoinInv, ExitCodes
<1>. QED
  BY <1>1, <1>2, <1>3, <1>4, PTL DEF Spec

=============================================================================
