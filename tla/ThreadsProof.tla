---------------------------- MODULE ThreadsProof ----------------------------
(***************************************************************************)
(* Theorems about the threading library for every number of threads, every *)
(* client program and every choice of the points where the timer ticks.    *)
(***************************************************************************)
EXTENDS ThreadsProperties, SequenceTheorems, FiniteSetTheorems,
        WellFoundedInduction, TLAPS

USE CoreAssumption
USE DEF vars, coreVars, cpuVars, libVars, tcbVars, syncVars, tcb3Vars, semVars

-----------------------------------------------------------------------------
(* Lemmas about the operators of the model.                                *)

(* A non-empty set of naturals has the least element Min picks.            *)
LEMMA MinIsIn ==
  ASSUME NEW S \in SUBSET Nat, S # {}
  PROVE  Min(S) \in S /\ \A y \in S : Min(S) <= y
<1>1. IsWellFoundedOn(OpToRel(<, Nat), Nat)
  BY NatLessThanWellFounded, Zenon
<1>2. PICK x \in S : \A y \in S : ~(<<y, x>> \in OpToRel(<, Nat))
  BY <1>1, WFMin, Zenon
<1>3. \A y \in S : x <= y
  <2>1. SUFFICES ASSUME NEW y \in S, ~(x <= y) PROVE FALSE
    OBVIOUS
  <2>2. y < x /\ x \in Nat /\ y \in Nat
    BY <2>1
  <2>3. <<y, x>> \in OpToRel(<, Nat)
    BY <2>2, Zenon DEF OpToRel
  <2>. QED
    BY <1>2, <2>3
<1>. QED
  BY <1>3 DEF Min

(* Replacing the top of a stack of activations keeps the stack's height.   *)
LEMMA ReplaceTop ==
  ASSUME NEW S, NEW s \in Seq(S), NEW i \in 1..Len(s), NEW f \in S
  PROVE  /\ [s EXCEPT ![i] = f] \in Seq(S)
         /\ Len([s EXCEPT ![i] = f]) = Len(s)
  OBVIOUS

LEMMA StepsAreNat == Steps \subseteq Nat
<1>1. IsFiniteSet(Threads)
  BY CoreAssumption, FS_AddElement DEF Threads
<1>2. Cardinality(Threads) \in Nat
  BY <1>1, FS_CardinalityType
<1>. QED
  BY <1>2 DEF Steps

(* The thread pthread_join finds and the one sem_post wakes are threads.   *)
LEMMA FirstHitType ==
  ASSUME NEW h, RingHits(h) # {}
  PROVE  FirstHit(h) \in Threads
<1>1. RingHits(h) \in SUBSET Nat
  BY StepsAreNat DEF RingHits
<1>2. Min(RingHits(h)) \in RingHits(h)
  BY <1>1, MinIsIn
<1>. QED
  BY <1>2 DEF RingHits, FirstHit

LEMMA ToWakeType ==
  ASSUME NEW s, Wakeable(s) # {}
  PROVE  ToWake(s) \in Threads /\ state[ToWake(s)] = "BLOCKED"
<1>1. Wakeable(s) \in SUBSET Nat
  BY StepsAreNat DEF Wakeable
<1>2. Min(Wakeable(s)) \in Wakeable(s)
  BY <1>1, MinIsIn
<1>. QED
  BY <1>2 DEF Wakeable, ToWake

-----------------------------------------------------------------------------
(* Type correctness.  The local a library call works on is of the kind the *)
(* call needs, and before the first pthread_create only main has run.      *)
LocalsShape ==
  \A t \in Threads :
    /\ pc[t] \in CreatePoints => obj[t] \in Workers
    /\ pc[t] \in ExitPoints => obj[t] \in Args
    /\ pc[t] \in JoinPoints => obj[t] \in Threads
    /\ pc[t] \in WaitPoints => obj[t] \in Sems

HeadShape ==
  /\ head = NULL <=> running = NULL
  /\ head = NULL =>
       /\ cpu = Main /\ act[Main] = <<>> /\ pc[Main] \in {"user", "c_head"}
       /\ \A w \in Workers : handle[w] = NULL

TypeInv == TypeOK /\ LocalsShape /\ HeadShape

LEMMA FrameType ==
  ASSUME NEW p \in SchedulePoints \ {"take", "install"}
  PROVE  Frame(p) \in Frames
  BY DEF Frame, Frames, Pointers

LEMMA TopType ==
  ASSUME CpuTypeOK, Depth > 0
  PROVE  Top \in Frames /\ Depth \in 1..Len(act[cpu])
  BY DEF CpuTypeOK, Depth, Top

LEMMA SetTopType ==
  ASSUME CpuTypeOK, Depth > 0, NEW f \in Frames, SetTop(f)
  PROVE  /\ act' \in [Threads -> Seq(Frames)]
         /\ \A t \in Threads : Len(act'[t]) = Len(act[t])
         /\ act'[cpu][Depth] = f
<1>1. /\ act[cpu] \in Seq(Frames) /\ Depth \in 1..Len(act[cpu])
      /\ act \in [Threads -> Seq(Frames)] /\ cpu \in Threads
  BY DEF CpuTypeOK, Depth
<1>2. /\ [act[cpu] EXCEPT ![Depth] = f] \in Seq(Frames)
      /\ Len([act[cpu] EXCEPT ![Depth] = f]) = Len(act[cpu])
      /\ [act[cpu] EXCEPT ![Depth] = f][Depth] = f
  BY <1>1, ReplaceTop
<1>. QED
  BY <1>1, <1>2 DEF SetTop

LEMMA PushType ==
  ASSUME CpuTypeOK, PushSchedule
  PROVE  act' \in [Threads -> Seq(Frames)]
<1>1. Frame("enter") \in Frames
  BY FrameType DEF SchedulePoints
<1>. QED
  BY <1>1 DEF CpuTypeOK, PushSchedule

LEMMA TypeInit == Init => TypeInv
<1>. SUFFICES ASSUME Init PROVE TypeInv
  OBVIOUS
<1>1. CpuTypeOK
  <2>1. <<>> \in Seq(Frames) /\ <<Thunk>> \in Seq(Frames)
    BY FrameType DEF Thunk, SchedulePoints
  <2>. QED
    BY <2>1 DEF Init, CoreInit, CpuTypeOK, Threads, BasePoints
<1>2. LibTypeOK
  BY DEF Init, CoreInit, LibTypeOK, Pointers, Contexts, NoContext, TcbStates, ThreadStates
<1>3. SyncTypeOK
  BY DEF Init, SyncTypeOK, Pointers, StackStates
<1>4. LocalsShape
  BY DEF Init, CoreInit, LocalsShape, CreatePoints, ExitPoints, JoinPoints, WaitPoints
<1>5. HeadShape
  BY DEF Init, CoreInit, HeadShape, Threads
<1>. QED
  BY <1>1, <1>2, <1>3, <1>4, <1>5 DEF TypeInv, TypeOK

(* pthread_create.                                                         *)
LEMMA FreshTypes ==
  ASSUME NEW u \in Uninit
  PROVE  /\ FreshState(u) \in TcbStates /\ FreshState(u) # "RUNNING"
         /\ FreshState(u) # "ABSENT"
         /\ FreshTid(u) \in Nat \cup {Junk} /\ u \in Pointers
         /\ u \in {NULL, Junk} /\ u \in StackStates
  BY DEF FreshState, FreshTid, TcbStates, ThreadStates, Pointers, StackStates

LEMMA CreateEnterType ==
  ASSUME TypeInv, CreateEnter
  PROVE  TypeInv'
<1>1. PICK w \in Workers, u \in Uninit :
        /\ pthread_create_Enter(w, u)
        /\ join' = Fresh(join, w, u) /\ exit_code' = Fresh(exit_code, w, u)
        /\ next_in_queue' = Fresh(next_in_queue, w, u) /\ stack' = Fresh(stack, w, u)
        /\ UNCHANGED <<semVars, joined>>
  BY DEF CreateEnter
<1>2. CpuTypeOK'
  BY <1>1 DEF TypeInv, TypeOK, CpuTypeOK, pthread_create_Enter, NextCall, Goto,
     Threads, BasePoints, CreatePoints
<1>3. LibTypeOK'
  <2>1. FreshState(u) \in TcbStates /\ FreshTid(u) \in Nat \cup {Junk} /\ u \in Pointers
    BY FreshTypes
  <2>2. /\ id' = id + 1 /\ UNCHANGED <<tail, handle, head, running, gCurrent, context>>
        /\ state' = [state EXCEPT ![w] = FreshState(u)]
        /\ tid' = [tid EXCEPT ![w] = FreshTid(u)]
        /\ next' = [next EXCEPT ![w] = u] /\ prev' = [prev EXCEPT ![w] = u]
    BY <1>1 DEF pthread_create_Enter
  <2>3. LibTypeOK
    BY DEF TypeInv, TypeOK
  <2>4. state' \in [Threads -> TcbStates]
    BY <2>1, <2>2, <2>3 DEF LibTypeOK
  <2>5. tid' \in [Threads -> Nat \cup {Junk}]
    BY <2>1, <2>2, <2>3 DEF LibTypeOK
  <2>6. next' \in [Threads -> Pointers] /\ prev' \in [Threads -> Pointers]
    BY <2>1, <2>2, <2>3 DEF LibTypeOK
  <2>. QED
    BY <2>2, <2>3, <2>4, <2>5, <2>6 DEF LibTypeOK
<1>4. SyncTypeOK'
  BY <1>1, FreshTypes DEF TypeInv, TypeOK, SyncTypeOK, Fresh
<1>5. LocalsShape'
  BY <1>1 DEF TypeInv, TypeOK, CpuTypeOK, LocalsShape, pthread_create_Enter, Goto,
     CreatePoints, ExitPoints, JoinPoints, WaitPoints
<1>6. HeadShape'
  BY <1>1 DEF TypeInv, TypeOK, CpuTypeOK, HeadShape, pthread_create_Enter, Goto
<1>. QED
  BY <1>2, <1>3, <1>4, <1>5, <1>6 DEF TypeInv, TypeOK

LEMMA CreateFirstType ==
  ASSUME TypeInv, CreateFirst
  PROVE  TypeInv'
<1>1. PICK u \in Uninit :
        /\ join' = [join EXCEPT ![Main] = NULL]
        /\ exit_code' = Fresh(exit_code, Main, u)
        /\ next_in_queue' = Fresh(next_in_queue, Main, u) /\ stack' = Fresh(stack, Main, u)
        /\ UNCHANGED <<semVars, joined>>
  BY DEF CreateFirst
<1>2. pthread_create_First
  BY DEF CreateFirst
<1>3. obj[cpu] \in Workers /\ Main \in Threads /\ Workers \subseteq Threads /\ cpu \in Threads
  BY <1>2 DEF TypeInv, TypeOK, CpuTypeOK, LocalsShape, pthread_create_First, InBase,
     CreatePoints, Threads
<1>4. CpuTypeOK'
  BY <1>2 DEF TypeInv, TypeOK, CpuTypeOK, pthread_create_First, Goto,
     BasePoints, CreatePoints
<1>5. LibTypeOK'
  BY <1>2, <1>3 DEF TypeInv, TypeOK, LibTypeOK, pthread_create_First,
     TcbStates, ThreadStates, Pointers
<1>6. SyncTypeOK'
  BY <1>1, FreshTypes DEF TypeInv, TypeOK, SyncTypeOK, Fresh, Pointers
<1>7. LocalsShape'
  BY <1>2, <1>3 DEF TypeInv, TypeOK, CpuTypeOK, LocalsShape, pthread_create_First, Goto,
     CreatePoints, ExitPoints, JoinPoints, WaitPoints
<1>8. HeadShape'
  BY <1>2, <1>3 DEF HeadShape, pthread_create_First
<1>. QED
  BY <1>4, <1>5, <1>6, <1>7, <1>8 DEF TypeInv, TypeOK

(* The stores of pthread_create after the tcb is linked.                   *)
LEMMA CreateStoreType ==
  ASSUME TypeInv, CreateFill \/ CreateContext \/ CreateOther
  PROVE  TypeInv'
<1>. USE DEF TypeInv, TypeOK
<1>. DEFINE Store == \/ pthread_create_Tail \/ pthread_create_Append \/ pthread_create_Next
                     \/ pthread_create_Prev \/ pthread_create_Fill
                     \/ pthread_create_Ready \/ pthread_create_Context
<1>1. CASE CreateOther /\ \E w \in Workers : pthread_create_NoMemory(w)
  <2>1. UNCHANGED syncVars
    BY <1>1 DEF CreateOther
  <2>2. PICK w \in Workers : pthread_create_NoMemory(w)
    BY <1>1
  <2>3. CpuTypeOK'
    BY <2>2 DEF CpuTypeOK, pthread_create_NoMemory, NextCall
  <2>4. LibTypeOK'
    BY <2>2 DEF LibTypeOK, pthread_create_NoMemory
  <2>5. SyncTypeOK'
    BY <2>1 DEF SyncTypeOK
  <2>6. LocalsShape' /\ HeadShape'
    BY <2>2 DEF LocalsShape, HeadShape, pthread_create_NoMemory
  <2>. QED
    BY <2>3, <2>4, <2>5, <2>6
<1>2. CASE CreateOther /\ pthread_create_Fault
  <2>1. UNCHANGED syncVars /\ Fault
    BY <1>2 DEF CreateOther, pthread_create_Fault
  <2>. QED
    BY <2>1 DEF Fault, CpuTypeOK, LibTypeOK, SyncTypeOK, LocalsShape, HeadShape
<1>3. CASE Store
  <2>1. /\ cpu \in Threads /\ obj[cpu] \in Workers /\ obj[cpu] \in Threads
        /\ pc[cpu] \in CreatePoints \ {"user"} /\ head # NULL /\ head \in Threads
    BY <1>3 DEF CpuTypeOK, LibTypeOK, LocalsShape, HeadShape, InBase, CreatePoints, Threads,
       pthread_create_Tail, pthread_create_Append, pthread_create_Next, pthread_create_Prev,
       pthread_create_Fill, pthread_create_Ready, pthread_create_Context
  <2>2. PICK p \in CreatePoints \cup {"user"} : Goto(p)
    BY <1>3 DEF CreatePoints, pthread_create_Tail, pthread_create_Append, pthread_create_Next, pthread_create_Prev,
       pthread_create_Fill, pthread_create_Ready, pthread_create_Context
  <2>3. UNCHANGED <<status, masked, cpu, act, ip, obj, libVars>>
    BY <1>3 DEF pthread_create_Tail, pthread_create_Append, pthread_create_Next, pthread_create_Prev,
       pthread_create_Fill, pthread_create_Ready, pthread_create_Context
  <2>4. CpuTypeOK'
    BY <2>2, <2>3 DEF CpuTypeOK, Goto, BasePoints
  <2>5. LibTypeOK'
    <3>1. CASE pthread_create_Append
      BY <2>1, <3>1 DEF LibTypeOK, Pointers, pthread_create_Append
    <3>7. CASE pthread_create_Tail
      BY <2>1, <3>7 DEF LibTypeOK, pthread_create_Tail
    <3>2. CASE pthread_create_Next
      BY <2>1, <3>2 DEF LibTypeOK, Pointers, pthread_create_Next
    <3>3. CASE pthread_create_Prev
      BY <2>1, <3>3 DEF LibTypeOK, Pointers, pthread_create_Prev
    <3>4. CASE pthread_create_Fill
      BY <2>1, <3>4 DEF LibTypeOK, pthread_create_Fill
    <3>5. CASE pthread_create_Ready
      BY <2>1, <3>5 DEF LibTypeOK, TcbStates, ThreadStates, pthread_create_Ready
    <3>6. CASE pthread_create_Context
      BY <2>1, <3>6 DEF LibTypeOK, Contexts, pthread_create_Context
    <3>. QED
      BY <1>3, <3>1, <3>2, <3>3, <3>4, <3>5, <3>6, <3>7
  <2>6. SyncTypeOK'
    BY <1>3, <2>1 DEF CreateFill, CreateContext, CreateOther, SyncTypeOK, Pointers, StackStates
  <2>7. LocalsShape'
    BY <2>1, <2>2, <2>3 DEF CpuTypeOK, LocalsShape, Goto,
       CreatePoints, ExitPoints, JoinPoints, WaitPoints
  <2>8. HeadShape'
    BY <2>1, <2>3 DEF HeadShape
  <2>. QED
    BY <2>4, <2>5, <2>6, <2>7, <2>8
<1>. QED
  BY <1>1, <1>2, <1>3 DEF CreateFill, CreateContext, CreateOther

LEMMA ExitType ==
  ASSUME TypeInv, pthread_exit
  PROVE  TypeInv'
<1>. USE DEF TypeInv, TypeOK
<1>1. CASE \E v \in Args : pthread_exit_Enter(v)
  <2>1. PICK v \in Args : pthread_exit_Enter(v)
    BY <1>1
  <2>2. head # NULL
    BY <2>1 DEF HeadShape, pthread_exit_Enter
  <2>3. CpuTypeOK'
    BY <2>1 DEF CpuTypeOK, pthread_exit_Enter, NextCall, Goto, BasePoints, ExitPoints
  <2>4. LibTypeOK'
    BY <2>1 DEF LibTypeOK, pthread_exit_Enter, TcbStates, ThreadStates
  <2>5. SyncTypeOK'
    BY <2>1 DEF SyncTypeOK, pthread_exit_Enter
  <2>6. LocalsShape'
    BY <2>1 DEF CpuTypeOK, LocalsShape, pthread_exit_Enter, Goto,
       CreatePoints, ExitPoints, JoinPoints, WaitPoints
  <2>7. HeadShape'
    BY <2>1, <2>2 DEF HeadShape, pthread_exit_Enter
  <2>. QED
    BY <2>3, <2>4, <2>5, <2>6, <2>7
<1>2. CASE pthread_exit_Code \/ pthread_exit_Wake \/ pthread_exit_Free
  <2>1. pc[cpu] \in {"x_code", "x_wake", "x_free"} /\ cpu \in Threads
    BY <1>2 DEF CpuTypeOK, pthread_exit_Code, pthread_exit_Wake, pthread_exit_Free, InBase
  <2>2. obj[cpu] \in Args /\ head # NULL
    BY <2>1 DEF LocalsShape, HeadShape, ExitPoints
  <2>3. PICK p \in ExitPoints : Goto(p)
    BY <1>2 DEF ExitPoints, pthread_exit_Code, pthread_exit_Wake, pthread_exit_Free
  <2>4. /\ UNCHANGED <<status, masked, cpu, act, ip, obj, tail, handle, libVars>>
        /\ UNCHANGED <<tid, next, prev, context, join, next_in_queue, semVars, joined>>
    BY <1>2 DEF pthread_exit_Code, pthread_exit_Wake, pthread_exit_Free
  <2>5. CpuTypeOK'
    BY <2>3, <2>4 DEF CpuTypeOK, Goto, BasePoints
  <2>6. state' \in [Threads -> TcbStates]
    BY <1>2 DEF LibTypeOK, TcbStates, ThreadStates,
       pthread_exit_Code, pthread_exit_Wake, pthread_exit_Free
  <2>7. LibTypeOK'
    BY <2>4, <2>6 DEF LibTypeOK
  <2>8. SyncTypeOK'
    BY <1>2, <2>2, <2>4 DEF SyncTypeOK, StackStates,
       pthread_exit_Code, pthread_exit_Wake, pthread_exit_Free
  <2>9. LocalsShape'
    BY <2>2, <2>3, <2>4 DEF CpuTypeOK, LocalsShape, Goto,
       CreatePoints, ExitPoints, JoinPoints, WaitPoints
  <2>10. HeadShape'
    BY <2>2, <2>4 DEF HeadShape
  <2>. QED
    BY <2>5, <2>7, <2>8, <2>9, <2>10
<1>. QED
  BY <1>1, <1>2 DEF pthread_exit

LEMMA JoinType ==
  ASSUME TypeInv, pthread_join
  PROVE  TypeInv'
<1>. USE DEF TypeInv, TypeOK
<1>1. CASE \E w \in Workers : pthread_join_Call(w)
  <2>1. PICK w \in Workers : pthread_join_Call(w)
    BY <1>1
  <2>. DEFINE p == FirstHit(handle[w])
  <2>2. p \in Threads
    BY <2>1, FirstHitType DEF pthread_join_Call
  <2>3. head # NULL /\ running \in Threads
    BY <2>1 DEF HeadShape, LibTypeOK, pthread_join_Call, JoinsHandle
  <2>4. obj' = [obj EXCEPT ![cpu] = p] /\ Goto("j_call") /\ masked' \in BOOLEAN /\ NextCall
    BY <2>1 DEF pthread_join_Call
  <2>5. /\ UNCHANGED <<status, cpu, act, tail, handle, libVars, tid, next, prev, context>>
        /\ UNCHANGED <<exit_code, next_in_queue, stack, semVars, joined>>
    BY <2>1 DEF pthread_join_Call
  <2>6. /\ state' = [state EXCEPT ![running] = "BLOCKED"] \/ UNCHANGED state
        /\ join' = [join EXCEPT ![p] = running] \/ UNCHANGED join
    BY <2>1 DEF pthread_join_Call
  <2>. HIDE DEF p
  <2>7. CpuTypeOK'
    BY <2>2, <2>4, <2>5 DEF CpuTypeOK, NextCall, Goto, BasePoints, JoinPoints
  <2>8. LibTypeOK'
    BY <2>5, <2>6 DEF LibTypeOK, TcbStates, ThreadStates
  <2>9. SyncTypeOK'
    <3>1. join' \in [Threads -> Pointers]
      BY <2>3, <2>6 DEF SyncTypeOK, Pointers
    <3>. QED
      BY <2>5, <3>1 DEF SyncTypeOK
  <2>10. LocalsShape'
    BY <2>2, <2>4, <2>5 DEF CpuTypeOK, LocalsShape, Goto,
       CreatePoints, ExitPoints, JoinPoints, WaitPoints
  <2>11. HeadShape'
    BY <2>3, <2>5 DEF HeadShape
  <2>. QED
    BY <2>7, <2>8, <2>9, <2>10, <2>11
<1>2. CASE \E w \in Workers : pthread_join_Hang(w)
  BY <1>2 DEF pthread_join_Hang, CpuTypeOK, LibTypeOK, SyncTypeOK, LocalsShape, HeadShape
<1>3. CASE pthread_join_Schedule
  <2>1. head # NULL
    BY <1>3 DEF HeadShape, pthread_join_Schedule, InBase
  <2>2. CpuTypeOK'
    <3>1. act' \in [Threads -> Seq(Frames)]
      BY <1>3, PushType DEF pthread_join_Schedule
    <3>. QED
      BY <1>3, <3>1 DEF CpuTypeOK, pthread_join_Schedule, Goto, BasePoints, JoinPoints
  <2>3. LibTypeOK' /\ SyncTypeOK'
    BY <1>3 DEF LibTypeOK, SyncTypeOK, pthread_join_Schedule
  <2>4. LocalsShape'
    BY <1>3 DEF CpuTypeOK, LocalsShape, pthread_join_Schedule, Goto, InBase,
       CreatePoints, ExitPoints, JoinPoints, WaitPoints
  <2>5. HeadShape'
    BY <1>3, <2>1 DEF HeadShape, pthread_join_Schedule
  <2>. QED
    BY <2>2, <2>3, <2>4, <2>5
<1>4. CASE pthread_join_Read
  <2>1. pc[cpu] = "j_read" /\ cpu \in Threads /\ obj[cpu] \in Threads /\ head # NULL
    BY <1>4 DEF CpuTypeOK, LocalsShape, HeadShape, pthread_join_Read, InBase, JoinPoints
  <2>2. CpuTypeOK' /\ LibTypeOK'
    BY <1>4 DEF CpuTypeOK, LibTypeOK, pthread_join_Read, Goto, BasePoints
  <2>3. SyncTypeOK'
    BY <1>4, <2>1 DEF SyncTypeOK, pthread_join_Read
  <2>4. LocalsShape' /\ HeadShape'
    BY <1>4, <2>1 DEF CpuTypeOK, LocalsShape, HeadShape, pthread_join_Read, Goto,
       CreatePoints, ExitPoints, JoinPoints, WaitPoints
  <2>. QED
    BY <2>2, <2>3, <2>4
<1>. QED
  BY <1>1, <1>2, <1>3, <1>4 DEF pthread_join

LEMMA WaitType ==
  ASSUME TypeInv, sem_wait
  PROVE  TypeInv'
<1>. USE SemAssumption DEF TypeInv, TypeOK
<1>1. CASE \E s \in Sems : sem_wait_Take(s) \/ sem_wait_Negative(s)
  <2>1. PICK s \in Sems : sem_wait_Take(s) \/ sem_wait_Negative(s)
    BY <1>1
  <2>2. /\ UNCHANGED <<status, cpu, pc, act, obj, tail, handle, libVars, tcbVars,
                      tcb3Vars, sem, queue, tmp, posted, joined>>
        /\ NextCall /\ masked' \in BOOLEAN
    BY <2>1 DEF sem_wait_Take, sem_wait_Negative
  <2>3. CpuTypeOK' /\ LibTypeOK'
    BY <2>2 DEF CpuTypeOK, LibTypeOK, NextCall
  <2>4. SyncTypeOK'
    <3>1. passed' = [passed EXCEPT ![s] = @ + 1]
      BY <2>1 DEF sem_wait_Take, sem_wait_Negative
    <3>2. value' = [value EXCEPT ![s] = @ - 1] \/ UNCHANGED value
      BY <2>1 DEF sem_wait_Take, sem_wait_Negative
    <3>. QED
      BY <2>2, <3>1, <3>2 DEF SyncTypeOK
  <2>5. LocalsShape' /\ HeadShape'
    BY <2>2 DEF LocalsShape, HeadShape
  <2>. QED
    BY <2>3, <2>4, <2>5
<1>2. CASE \E s \in Sems : sem_wait_Block(s)
  <2>1. PICK s \in Sems : sem_wait_Block(s)
    BY <1>2
  <2>2. /\ running \in Threads /\ head # NULL
        /\ NextCall /\ Goto("w_call") /\ masked' \in BOOLEAN
        /\ obj' = [obj EXCEPT ![cpu] = s]
        /\ state' = [state EXCEPT ![running] = "BLOCKED"]
    BY <2>1 DEF sem_wait_Block, LibTypeOK, HeadShape
  <2>3. /\ UNCHANGED <<status, cpu, act, tail, handle, libVars, tid, next, prev, context>>
        /\ UNCHANGED <<join, exit_code, stack, sem, value, tmp, posted, passed, joined>>
    BY <2>1 DEF sem_wait_Block
  <2>4. /\ queue' = [queue EXCEPT ![s] = running] \/ UNCHANGED queue
        /\ \/ next_in_queue' = [next_in_queue EXCEPT ![QueueTail(s)] = running]
           \/ UNCHANGED next_in_queue
    BY <2>1 DEF sem_wait_Block
  <2>5. CpuTypeOK'
    BY <2>2, <2>3 DEF CpuTypeOK, NextCall, Goto, BasePoints, WaitPoints
  <2>6. LibTypeOK'
    BY <2>2, <2>3 DEF LibTypeOK, TcbStates, ThreadStates
  <2>7. SyncTypeOK'
    <3>1. queue' \in [Sems -> Pointers]
      BY <2>2, <2>4 DEF SyncTypeOK, Pointers
    <3>2. next_in_queue' \in [Threads -> Pointers]
      BY <2>2, <2>4 DEF SyncTypeOK, Pointers
    <3>. QED
      BY <2>3, <3>1, <3>2 DEF SyncTypeOK
  <2>8. LocalsShape' /\ HeadShape'
    BY <2>2, <2>3 DEF CpuTypeOK, LocalsShape, HeadShape, Goto,
       CreatePoints, ExitPoints, JoinPoints, WaitPoints
  <2>. QED
    BY <2>5, <2>6, <2>7, <2>8
<1>3. CASE sem_wait_Schedule
  <2>1. head # NULL
    BY <1>3 DEF HeadShape, sem_wait_Schedule, InBase
  <2>2. CpuTypeOK'
    <3>1. act' \in [Threads -> Seq(Frames)]
      BY <1>3, PushType DEF sem_wait_Schedule
    <3>. QED
      BY <1>3, <3>1 DEF CpuTypeOK, sem_wait_Schedule, Goto, BasePoints, WaitPoints
  <2>3. LibTypeOK' /\ SyncTypeOK'
    BY <1>3 DEF LibTypeOK, SyncTypeOK, sem_wait_Schedule
  <2>4. LocalsShape' /\ HeadShape'
    BY <1>3, <2>1 DEF CpuTypeOK, LocalsShape, HeadShape, sem_wait_Schedule, Goto, InBase,
       CreatePoints, ExitPoints, JoinPoints, WaitPoints
  <2>. QED
    BY <2>2, <2>3, <2>4
<1>4. CASE sem_wait_Check \/ sem_wait_Load \/ sem_wait_Store
  <2>1. /\ cpu \in Threads /\ obj[cpu] \in Sems /\ head # NULL
    BY <1>4 DEF CpuTypeOK, LocalsShape, HeadShape, InBase, WaitPoints,
       sem_wait_Check, sem_wait_Load, sem_wait_Store
  <2>2. PICK p \in {"user", "w_load", "w_store"} : Goto(p)
    BY <1>4 DEF sem_wait_Check, sem_wait_Load, sem_wait_Store
  <2>3. /\ UNCHANGED <<status, cpu, act, ip, obj, tail, handle, libVars, tcbVars>>
        /\ UNCHANGED <<tcb3Vars, sem, queue, posted, joined>> /\ masked' \in BOOLEAN
    BY <1>4 DEF CpuTypeOK, sem_wait_Check, sem_wait_Load, sem_wait_Store
  <2>4. CpuTypeOK' /\ LibTypeOK'
    BY <2>2, <2>3 DEF CpuTypeOK, LibTypeOK, Goto, BasePoints, WaitPoints
  <2>5. SyncTypeOK'
    <3>1. CASE sem_wait_Check
      <4>1. UNCHANGED <<value, tmp>>
        BY <3>1 DEF sem_wait_Check
      <4>2. passed' = [passed EXCEPT ![obj[cpu]] = @ + 1] \/ UNCHANGED passed
        BY <3>1 DEF sem_wait_Check
      <4>3. passed' \in [Sems -> Nat]
        BY <2>1, <4>2 DEF SyncTypeOK
      <4>. QED
        BY <2>3, <4>1, <4>3 DEF SyncTypeOK, tcb3Vars
    <3>2. CASE sem_wait_Load
      BY <2>1, <2>3, <3>2 DEF SyncTypeOK, sem_wait_Load
    <3>3. CASE sem_wait_Store
      BY <2>1, <2>3, <3>3 DEF SyncTypeOK, sem_wait_Store
    <3>. QED
      BY <1>4, <3>1, <3>2, <3>3
  <2>6. LocalsShape' /\ HeadShape'
    BY <2>1, <2>2, <2>3 DEF CpuTypeOK, LocalsShape, HeadShape, Goto,
       CreatePoints, ExitPoints, JoinPoints, WaitPoints
  <2>. QED
    BY <2>4, <2>5, <2>6
<1>. QED
  BY <1>1, <1>2, <1>3, <1>4 DEF sem_wait

LEMMA SemType ==
  ASSUME TypeInv, semaphores
  PROVE  TypeInv'
<1>. USE SemAssumption DEF TypeInv, TypeOK
<1>1. CASE \E s \in Sems : sem_init(s) \/ sem_destroy(s)
  <2>1. PICK s \in Sems : sem_init(s) \/ sem_destroy(s)
    BY <1>1
  <2>2. /\ UNCHANGED <<status, masked, cpu, pc, act, obj, tail, handle, libVars, tcbVars>>
        /\ UNCHANGED <<tcb3Vars, tmp, posted, passed, joined>> /\ NextCall
    BY <2>1 DEF sem_init, sem_destroy
  <2>3. CpuTypeOK' /\ LibTypeOK'
    BY <2>2 DEF CpuTypeOK, LibTypeOK, NextCall
  <2>4. SyncTypeOK'
    <3>1. /\ \/ sem' = [sem EXCEPT ![s] = "live"] \/ sem' = [sem EXCEPT ![s] = "freed"]
          /\ value' = [value EXCEPT ![s] = InitValue[s]] \/ value' = value
          /\ queue' = [queue EXCEPT ![s] = NULL] \/ queue' = queue
      BY <2>1 DEF sem_init, sem_destroy
    <3>2. sem' \in [Sems -> {"none", "live", "freed"}]
      BY <3>1 DEF SyncTypeOK
    <3>3. value' \in [Sems -> Int]
      BY <3>1 DEF SyncTypeOK
    <3>4. queue' \in [Sems -> Pointers]
      BY <3>1 DEF SyncTypeOK, Pointers
    <3>. QED
      BY <2>2, <3>2, <3>3, <3>4 DEF SyncTypeOK, tcbVars, tcb3Vars
  <2>5. LocalsShape' /\ HeadShape'
    BY <2>2 DEF LocalsShape, HeadShape
  <2>. QED
    BY <2>3, <2>4, <2>5
<1>2. CASE \E s \in Sems : sem_post(s)
  <2>1. PICK s \in Sems : sem_post(s)
    BY <1>2
  <2>2. /\ UNCHANGED <<status, cpu, pc, act, obj, tail, handle, libVars, tid, next, prev, context>>
        /\ UNCHANGED <<join, exit_code, stack, sem, tmp, passed, joined>>
        /\ NextCall /\ masked' \in BOOLEAN
        /\ value' = [value EXCEPT ![s] = @ + 1] /\ posted' = [posted EXCEPT ![s] = @ + 1]
    BY <2>1 DEF sem_post
  <2>3. \/ /\ ToWake(s) \in Threads
           /\ state' = [state EXCEPT ![ToWake(s)] = "READY"]
           /\ queue' = [queue EXCEPT ![s] = next_in_queue[ToWake(s)]]
           /\ next_in_queue' = [next_in_queue EXCEPT ![ToWake(s)] = NULL]
        \/ UNCHANGED <<state, queue, next_in_queue>>
    BY <2>1, ToWakeType DEF sem_post
  <2>4. CpuTypeOK'
    BY <2>2 DEF CpuTypeOK, NextCall
  <2>5. LibTypeOK'
    BY <2>2, <2>3 DEF LibTypeOK, TcbStates, ThreadStates
  <2>6. SyncTypeOK'
    <3>1. queue' \in [Sems -> Pointers] /\ next_in_queue' \in [Threads -> Pointers]
      BY <2>3 DEF SyncTypeOK, Pointers
    <3>2. value' \in [Sems -> Int] /\ posted' \in [Sems -> Nat]
      BY <2>2 DEF SyncTypeOK
    <3>. QED
      BY <2>2, <3>1, <3>2 DEF SyncTypeOK
  <2>7. LocalsShape' /\ HeadShape'
    BY <2>2 DEF LocalsShape, HeadShape
  <2>. QED
    BY <2>4, <2>5, <2>6, <2>7
<1>3. CASE sem_Error
  <2>1. /\ UNCHANGED <<status, cpu, pc, act, obj, tail, handle, libVars, tcbVars, syncVars>>
        /\ NextCall /\ masked' \in BOOLEAN
    BY <1>3 DEF sem_Error
  <2>. QED
    BY <2>1 DEF CpuTypeOK, LibTypeOK, SyncTypeOK, LocalsShape, HeadShape, NextCall
<1>. QED
  BY <1>1, <1>2, <1>3, WaitType DEF semaphores

-----------------------------------------------------------------------------
(* schedule(), the timer and the end of the process.                       *)
LEMMA ScheduleType ==
  ASSUME TypeInv, schedule(Saved), UNCHANGED syncVars
  PROVE  TypeInv'
<1>. USE DEF TypeInv, TypeOK
<1>1. CASE schedule_Fault
  <2>1. Fault
    BY <1>1 DEF schedule_Fault
  <2>. QED
    BY <2>1 DEF Fault, CpuTypeOK, LibTypeOK, SyncTypeOK, LocalsShape, HeadShape
<1>. DEFINE Walk == \/ schedule_Enter(Saved) \/ schedule_Save \/ schedule_Look
                    \/ schedule_Scan \/ schedule_Take \/ schedule_Install
<1>2. CASE Walk \/ schedule_Jump
  <2>1. /\ Depth > 0 /\ head # NULL /\ running \in Threads /\ cpu \in Threads
    BY <1>2 DEF HeadShape, CpuTypeOK, LibTypeOK, InSchedule, Depth,
       schedule_Enter, schedule_Save, schedule_Look, schedule_Scan, schedule_Take,
       schedule_Install, schedule_Jump
  <2>2. Top \in Frames /\ Depth \in Nat
    BY <2>1, TopType
  <2>3. /\ UNCHANGED <<masked, pc, ip, obj, tail, handle, head, id, tid, next, prev>>
        /\ status' \in {status, "exit0"}
    BY <1>2 DEF schedule_Enter, schedule_Save, schedule_Look, schedule_Scan, schedule_Take,
       schedule_Install, schedule_Jump
  <2>4. act' \in [Threads -> Seq(Frames)] /\ cpu' \in Threads
    <3>1. CASE Walk
      <4>1. UNCHANGED cpu
        BY <3>1 DEF schedule_Enter, schedule_Save, schedule_Look, schedule_Scan, schedule_Take,
           schedule_Install
      <4>2. (\E f \in Frames : SetTop(f)) \/ UNCHANGED act
        <5>1. CASE schedule_Enter(Saved) \/ schedule_Save
          BY <5>1, FrameType DEF schedule_Enter, schedule_Save, SchedulePoints
        <5>2. CASE schedule_Look
          BY <2>1, <5>2 DEF schedule_Look, Frames, SchedulePoints, LibTypeOK
        <5>3. CASE schedule_Scan
          <6>1. /\ [Top EXCEPT !.at = "take"] \in Frames
                /\ [Top EXCEPT !.ptr = next[Top.ptr]] \in Frames
            BY <2>2, <5>3 DEF schedule_Scan, InSchedule, Frames, SchedulePoints, LibTypeOK
          <6>. QED
            BY <5>3, <6>1 DEF schedule_Scan
        <5>4. CASE schedule_Take \/ schedule_Install
          <6>1. \A p \in {"install", "jump"} :
                  Top.at \in {"take", "install"} => [Top EXCEPT !.at = p] \in Frames
            BY <2>2 DEF Frames, SchedulePoints
          <6>. QED
            BY <5>4, <6>1 DEF schedule_Take, schedule_Install, InSchedule
        <5>. QED
          BY <3>1, <5>1, <5>2, <5>3, <5>4
      <4>. QED
        BY <2>1, <4>1, <4>2, SetTopType DEF CpuTypeOK
    <3>2. CASE schedule_Jump
      <4>. DEFINE c == context[Top.ptr]
      <4>1. c.owner \in Threads /\ c.depth \in 1..Len(act[c.owner])
        BY <3>2 DEF schedule_Jump, Resumable
      <4>2. SubSeq(act[c.owner], 1, c.depth - 1) \in Seq(Frames)
        BY <4>1 DEF CpuTypeOK
      <4>. QED
        BY <3>2, <4>1, <4>2 DEF schedule_Jump, CpuTypeOK
    <3>. QED
      BY <1>2, <3>1, <3>2
  <2>5. CpuTypeOK'
    BY <2>3, <2>4 DEF CpuTypeOK
  <2>6. running' \in Threads /\ gCurrent' \in Nat \cup {Junk}
    BY <1>2, <2>1, <2>2 DEF LibTypeOK, Frames, InSchedule,
       schedule_Enter, schedule_Save, schedule_Look, schedule_Scan, schedule_Take,
       schedule_Install, schedule_Jump
  <2>7. state' \in [Threads -> TcbStates]
    BY <1>2, <2>1 DEF LibTypeOK, TcbStates, ThreadStates,
       schedule_Enter, schedule_Save, schedule_Look, schedule_Scan, schedule_Take,
       schedule_Install, schedule_Jump
  <2>8. context' \in [Threads -> Contexts]
    <3>1. NoContext \in Contexts /\ [owner |-> cpu, depth |-> Depth] \in Contexts
      BY <2>1, <2>2 DEF Contexts, NoContext
    <3>2. \/ UNCHANGED context
          \/ context' = [context EXCEPT ![running] = [owner |-> cpu, depth |-> Depth]]
          \/ /\ DOMAIN context' = Threads /\ context' = [t \in Threads |-> context'[t]]
             /\ \A t \in Threads : context'[t] \in {NoContext, context[t]}
      BY <1>2 DEF schedule_Enter, schedule_Save, schedule_Look, schedule_Scan, schedule_Take,
         schedule_Install, schedule_Jump
    <3>. QED
      BY <3>1, <3>2 DEF LibTypeOK
  <2>9. LibTypeOK' /\ SyncTypeOK'
    BY <2>3, <2>6, <2>7, <2>8 DEF LibTypeOK, SyncTypeOK
  <2>10. LocalsShape' /\ HeadShape'
    BY <2>1, <2>3, <2>6 DEF LocalsShape, HeadShape
  <2>. QED
    BY <2>5, <2>9, <2>10
<1>. QED
  BY <1>1, <1>2 DEF schedule

LEMMA TypeStep ==
  ASSUME TypeInv, [Next]_vars
  PROVE  TypeInv'
<1>1. CASE pthread_create
  BY <1>1, CreateEnterType, CreateFirstType, CreateStoreType DEF pthread_create
<1>2. CASE pthread_exit \/ pthread_join \/ semaphores
  BY <1>2, ExitType, JoinType, SemType
<1>3. CASE schedule(Saved) /\ UNCHANGED syncVars
  BY <1>3, ScheduleType
<1>4. CASE Interrupt
  <2>1. /\ act' \in [Threads -> Seq(Frames)] /\ head # NULL
        /\ UNCHANGED <<status, masked, cpu, pc, ip, obj, tail, handle, libVars, tcbVars, syncVars>>
    BY <1>4, PushType DEF TypeInv, TypeOK, Interrupt, Tick
  <2>. QED
    BY <2>1 DEF TypeInv, TypeOK, CpuTypeOK, LibTypeOK, SyncTypeOK, LocalsShape, HeadShape
<1>5. CASE UNCHANGED <<masked, cpuVars, tail, handle, libVars, tcbVars, syncVars>> /\
           status' \in {status, "wild", "returned"}
  BY <1>5 DEF TypeInv, TypeOK, CpuTypeOK, LibTypeOK, SyncTypeOK, LocalsShape, HeadShape
<1>. QED
  BY <1>1, <1>2, <1>3, <1>4, <1>5
  DEF Next, Library, Ended, MainReturns, SyncFault, Fault

(* For every client, heap and timer, every variable keeps its type.        *)
THEOREM TypeCorrect == Spec => []TypeOK
<1>1. Init => TypeInv
  BY TypeInit
<1>2. TypeInv /\ [Next]_vars => TypeInv'
  BY TypeStep
<1>3. TypeInv => TypeOK
  BY DEF TypeInv
<1>. QED
  BY <1>1, <1>2, <1>3, PTL DEF Spec

-----------------------------------------------------------------------------
(* running is the thread on the CPU, if no tick lands inside schedule().   *)
(* All other ticks are allowed, in pthread_create and pthread_exit too.    *)
Unnested == TickAt \cap SchedulePoints = {}

Phase == IF Depth = 0 THEN "code" ELSE Top.at

(* No stack holds two activations of schedule().                           *)
OneActivation == \A t \in Threads : Len(act[t]) \in {0, 1}

(* A jmp_buf that is filled leads to its thread's own activation.          *)
OwnContexts ==
  \A t \in Threads : context[t] \in {NoContext, [owner |-> t, depth |-> 1]}

(* A thread being created is created by one thread, and has not run.       *)
Newborns ==
  \A t \in Threads : pc[t] \in CreatePoints =>
    /\ obj[t] # cpu /\ context[obj[t]] = NoContext /\ state[obj[t]] # "ABSENT"
    /\ \A u \in Threads : pc[u] \in CreatePoints /\ obj[u] = obj[t] => u = t

Unborn == \A w \in Workers : state[w] = "ABSENT" => w # cpu /\ context[w] = NoContext

(* schedule() changes running, gCurrent and the CPU in this order.         *)
Current ==
  head # NULL =>
    /\ running = IF Phase = "jump" THEN Top.ptr ELSE cpu
    /\ gCurrent = tid[IF Phase \in {"install", "jump"} THEN Top.ptr ELSE cpu]

RunningState ==
  \A t \in Threads : state[t] = "RUNNING" =>
    /\ head # NULL
    /\ \/ Phase \in {"code", "enter", "jump"} /\ t = running
       \/ Phase = "install" /\ t = Top.ptr

CurrentInv ==
  OneActivation /\ OwnContexts /\ Newborns /\ Unborn /\ Current /\ RunningState

LEMMA CurrentInit == Init => CurrentInv
<1>. SUFFICES ASSUME Init PROVE CurrentInv
  OBVIOUS
<1>1. \A t \in Threads : Len(act[t]) \in {0, 1} /\ context[t] = NoContext
                          /\ pc[t] = "user" /\ state[t] = "ABSENT"
  BY DEF Init, CoreInit
<1>2. head = NULL /\ cpu = Main
  BY DEF Init, CoreInit
<1>3. OneActivation /\ OwnContexts
  BY <1>1 DEF OneActivation, OwnContexts
<1>4. Newborns /\ Unborn
  BY <1>1, <1>2 DEF Newborns, Unborn, CreatePoints, Threads
<1>5. Current /\ RunningState
  BY <1>1, <1>2 DEF Current, RunningState
<1>. QED
  BY <1>3, <1>4, <1>5 DEF CurrentInv

(* A step of library code outside schedule() that creates, runs and        *)
(* renames nobody.                                                         *)
LEMMA CodeStep ==
  ASSUME TypeInv, CurrentInv, Depth = 0,
         UNCHANGED <<cpu, act, running, head, gCurrent, context>>,
         \A t \in Threads : state'[t] \in {"RUNNING", "ABSENT"} => state'[t] = state[t],
         tid'[cpu] = tid[cpu],
         \A t \in Threads : pc'[t] \in CreatePoints =>
                              pc[t] \in CreatePoints /\ obj'[t] = obj[t]
  PROVE  CurrentInv'
<1>1. /\ cpu \in Threads /\ Workers \subseteq Threads
      /\ \A t \in Threads : pc[t] \in CreatePoints => obj[t] \in Threads
  BY DEF TypeInv, TypeOK, CpuTypeOK, LocalsShape, Threads
<1>2. Phase = "code" /\ Phase' = "code" /\ Depth' = 0
  BY DEF Phase, Depth
<1>3. OneActivation' /\ OwnContexts'
  BY DEF CurrentInv, OneActivation, OwnContexts
<1>4. Newborns' /\ Unborn'
  BY <1>1 DEF CurrentInv, Newborns, Unborn
<1>5. Current' /\ RunningState'
  BY <1>2 DEF CurrentInv, Current, RunningState
<1>. QED
  BY <1>3, <1>4, <1>5 DEF CurrentInv

(* The CPU enters schedule(), called or by a tick.                         *)
LEMMA PushStep ==
  ASSUME TypeInv, CurrentInv, Depth = 0, PushSchedule,
         UNCHANGED <<cpu, running, head, gCurrent, context, state, tid, obj>>,
         \A t \in Threads : pc'[t] \in CreatePoints => pc[t] \in CreatePoints
  PROVE  CurrentInv'
<1>1. cpu \in Threads /\ act \in [Threads -> Seq(Frames)] /\ act[cpu] = <<>>
  BY DEF TypeInv, TypeOK, CpuTypeOK, Depth
<1>2. /\ act'[cpu] = <<Frame("enter")>>
      /\ \A t \in Threads \ {cpu} : act'[t] = act[t]
  BY <1>1 DEF PushSchedule
<1>3. Phase = "code" /\ Phase' = "enter"
  BY <1>2 DEF Phase, Depth, Top, Frame
<1>4. OneActivation' /\ OwnContexts'
  <2>1. Len(act'[cpu]) = 1
    BY <1>2
  <2>. QED
    BY <1>2, <2>1 DEF CurrentInv, OneActivation, OwnContexts, TypeInv, TypeOK, CpuTypeOK
<1>5. Newborns' /\ Unborn'
  BY DEF CurrentInv, Newborns, Unborn
<1>6. Current' /\ RunningState'
  BY <1>3 DEF CurrentInv, Current, RunningState
<1>. QED
  BY <1>4, <1>5, <1>6 DEF CurrentInv

LEMMA CreateCurrent ==
  ASSUME TypeInv, CurrentInv, pthread_create
  PROVE  CurrentInv'
<1>. USE DEF TypeInv, TypeOK, CurrentInv
<1>0. /\ cpu \in Threads /\ Main \in Threads /\ Workers \subseteq Threads
  BY DEF CpuTypeOK, Threads
<1>1. CASE CreateEnter
  <2>1. PICK w \in Workers, u \in Uninit : pthread_create_Enter(w, u)
    BY <1>1 DEF CreateEnter
  <2>2. /\ Depth = 0 /\ state[w] = "ABSENT" /\ pc[cpu] = "user"
        /\ state' = [state EXCEPT ![w] = FreshState(u)]
        /\ tid' = [tid EXCEPT ![w] = FreshTid(u)]
        /\ obj' = [obj EXCEPT ![cpu] = w] /\ Goto("c_head")
        /\ UNCHANGED <<cpu, act, head, running, gCurrent, context>>
    BY <2>1 DEF pthread_create_Enter, Calling, InBase
  <2>3. w # cpu /\ context[w] = NoContext /\ w \in Threads
    BY <2>2, <1>0 DEF Unborn
  <2>4. state'[w] # "ABSENT" /\ state'[w] # "RUNNING"
        /\ \A t \in Threads \ {w} : state'[t] = state[t]
    BY <2>2, <2>3, FreshTypes DEF LibTypeOK
  <2>5. OneActivation' /\ OwnContexts'
    BY <2>2 DEF OneActivation, OwnContexts
  <2>6. \A t \in Threads : pc[t] \in CreatePoints => obj[t] # w
    BY <2>2 DEF Newborns
  <2>7. \A t \in Threads \ {cpu} : pc'[t] = pc[t] /\ obj'[t] = obj[t]
    BY <2>2 DEF CpuTypeOK, Goto
  <2>8. pc'[cpu] = "c_head" /\ obj'[cpu] = w
    BY <2>2, <1>0 DEF CpuTypeOK, Goto
  <2>9. \A t \in Threads : pc[t] \in CreatePoints => obj[t] \in Threads
    BY <1>0 DEF LocalsShape
  <2>10. Newborns'
    <3>1. ASSUME NEW t \in Threads, pc'[t] \in CreatePoints
          PROVE  obj'[t] # cpu /\ context[obj'[t]] = NoContext /\ state'[obj'[t]] # "ABSENT"
      <4>1. CASE t = cpu
        BY <2>3, <2>4, <2>8, <4>1
      <4>2. CASE t # cpu
        BY <2>4, <2>6, <2>7, <2>9, <3>1, <4>2 DEF Newborns
      <4>. QED
        BY <4>1, <4>2
    <3>2. ASSUME NEW t \in Threads, NEW v \in Threads,
                 pc'[t] \in CreatePoints, pc'[v] \in CreatePoints, obj'[v] = obj'[t]
          PROVE  v = t
      BY <2>6, <2>7, <2>8, <3>2 DEF Newborns
    <3>. QED
      BY <2>2, <3>1, <3>2 DEF Newborns
  <2>11. Unborn'
    BY <2>2, <2>4, <1>0 DEF Unborn
  <2>12. Phase = "code" /\ Phase' = "code"
    BY <2>2 DEF Phase, Depth
  <2>13. tid'[cpu] = tid[cpu]
    BY <2>2, <2>3 DEF LibTypeOK
  <2>14. Current' /\ RunningState'
    BY <2>2, <2>4, <2>12, <2>13 DEF Current, RunningState
  <2>. QED
    BY <2>5, <2>10, <2>11, <2>14
<1>2. CASE CreateFirst
  <2>1. pthread_create_First
    BY <1>2 DEF CreateFirst
  <2>2. /\ Depth = 0 /\ head = NULL /\ pc[cpu] = "c_head" /\ cpu = Main
        /\ head' = Main /\ running' = Main /\ gCurrent' = 0
        /\ state' = [state EXCEPT ![Main] = "RUNNING"] /\ tid' = [tid EXCEPT ![Main] = 0]
        /\ Goto("c_fill") /\ UNCHANGED <<cpu, act, obj, context>>
    BY <2>1 DEF pthread_create_First, InBase, HeadShape
  <2>3. OneActivation' /\ OwnContexts'
    BY <2>2 DEF OneActivation, OwnContexts
  <2>4. \A t \in Threads : pc[t] \in CreatePoints => obj[t] \in Workers
    BY DEF LocalsShape
  <2>5. \A t \in Threads : pc'[t] \in CreatePoints => pc[t] \in CreatePoints
    BY <2>2 DEF CpuTypeOK, Goto, CreatePoints
  <2>6. \A t \in Threads \ {Main} : state'[t] = state[t]
    BY <2>2 DEF LibTypeOK
  <2>7. Newborns' /\ Unborn'
    BY <2>2, <2>4, <2>5, <2>6, <1>0 DEF Newborns, Unborn
  <2>8. Phase' = "code"
    BY <2>2 DEF Phase, Depth
  <2>9. Current' /\ RunningState'
    BY <2>2, <2>6, <2>8, <1>0 DEF Current, RunningState, LibTypeOK
  <2>. QED
    BY <2>3, <2>7, <2>9
<1>3. CASE CreateContext
  <2>1. /\ Depth = 0 /\ pc[cpu] = "c_context" /\ Goto("user")
        /\ context' = [context EXCEPT ![obj[cpu]] = [owner |-> obj[cpu], depth |-> 1]]
        /\ UNCHANGED <<cpu, act, obj, head, running, gCurrent, state, tid>>
    BY <1>3 DEF CreateContext, pthread_create_Context, InBase
  <2>2. OneActivation'
    BY <2>1 DEF OneActivation
  <2>3. OwnContexts'
    BY <2>1 DEF OwnContexts, LibTypeOK
  <2>4. \A t \in Threads : pc'[t] \in CreatePoints => t # cpu /\ pc[t] \in CreatePoints
    BY <2>1, <1>0 DEF CpuTypeOK, Goto, CreatePoints
  <2>5. pc[cpu] \in CreatePoints
    BY <2>1 DEF CreatePoints
  <2>6. \A t \in Threads : t # obj[cpu] => context'[t] = context[t]
    BY <2>1 DEF LibTypeOK
  <2>7. Newborns'
    BY <2>1, <2>4, <2>5, <2>6, <1>0 DEF Newborns, LocalsShape
  <2>8. Unborn'
    BY <2>1, <2>5, <2>6, <1>0 DEF Unborn, Newborns
  <2>9. Phase = "code" /\ Phase' = "code"
    BY <2>1 DEF Phase, Depth
  <2>10. Current' /\ RunningState'
    BY <2>1, <2>9 DEF Current, RunningState
  <2>. QED
    BY <2>2, <2>3, <2>7, <2>8, <2>10
<1>4. CASE pthread_create_Tail \/ pthread_create_Append \/ pthread_create_Next \/ pthread_create_Prev
           \/ pthread_create_Ready \/ \E w \in Workers : pthread_create_NoMemory(w)
  <2>1. /\ Depth = 0 /\ UNCHANGED <<cpu, act, running, head, gCurrent, context, tid>>
    BY <1>4 DEF InBase, Calling, pthread_create_Tail, pthread_create_Append, pthread_create_Next,
       pthread_create_Prev, pthread_create_Ready, pthread_create_NoMemory
  <2>2. state' = [state EXCEPT ![obj[cpu]] = "READY"] \/ UNCHANGED state
    BY <1>4 DEF pthread_create_Tail, pthread_create_Append, pthread_create_Next,
       pthread_create_Prev, pthread_create_Ready, pthread_create_NoMemory
  <2>3. /\ UNCHANGED obj
        /\ UNCHANGED pc \/ (pc[cpu] \in CreatePoints /\ \E p \in CreatePoints : Goto(p))
    BY <1>4 DEF InBase, CreatePoints, pthread_create_Tail, pthread_create_Append, pthread_create_Next,
       pthread_create_Prev, pthread_create_Ready, pthread_create_NoMemory
  <2>. QED
    BY <2>1, <2>2, <2>3, CodeStep DEF CpuTypeOK, LibTypeOK, Goto
<1>5. CASE CreateFill
  <2>1. /\ Depth = 0 /\ pc[cpu] \in CreatePoints /\ Goto("c_ready")
        /\ tid' = [tid EXCEPT ![obj[cpu]] = id]
        /\ UNCHANGED <<cpu, act, obj, running, head, gCurrent, context, state>>
    BY <1>5 DEF CreateFill, pthread_create_Fill, InBase, CreatePoints
  <2>2. obj[cpu] # cpu
    BY <2>1, <1>0 DEF Newborns
  <2>3. tid'[cpu] = tid[cpu]
    BY <2>1, <2>2 DEF LibTypeOK
  <2>. QED
    BY <2>1, <2>3, CodeStep DEF CpuTypeOK, Goto
<1>6. CASE pthread_create_Fault
  BY <1>6 DEF pthread_create_Fault, Fault, OneActivation, OwnContexts, Newborns, Unborn,
     Current, RunningState, Phase, Depth, Top
<1>. QED
  BY <1>1, <1>2, <1>3, <1>4, <1>5, <1>6 DEF pthread_create, CreateOther

LEMMA ExitJoinCurrent ==
  ASSUME TypeInv, CurrentInv, pthread_exit \/ pthread_join
  PROVE  CurrentInv'
<1>. USE DEF TypeInv, TypeOK
<1>1. CASE pthread_exit
  <2>1. /\ Depth = 0
        /\ UNCHANGED <<cpu, act, running, head, gCurrent, context, tid>>
    BY <1>1 DEF pthread_exit, InBase, Calling, pthread_exit_Enter, pthread_exit_Code,
       pthread_exit_Wake, pthread_exit_Free
  <2>2. \/ UNCHANGED state
        \/ state' = [state EXCEPT ![running] = "TERMINATED"]
        \/ state' = [state EXCEPT ![join[running]] = "READY"]
    BY <1>1 DEF pthread_exit, pthread_exit_Enter, pthread_exit_Code,
       pthread_exit_Wake, pthread_exit_Free
  <2>3. PICK p \in ExitPoints : Goto(p)
    BY <1>1 DEF ExitPoints, pthread_exit, pthread_exit_Enter, pthread_exit_Code,
       pthread_exit_Wake, pthread_exit_Free
  <2>4. \A t \in Threads \ {cpu} : obj'[t] = obj[t]
    BY <1>1 DEF CpuTypeOK, pthread_exit, pthread_exit_Enter, pthread_exit_Code,
       pthread_exit_Wake, pthread_exit_Free
  <2>5. \A t \in Threads : pc'[t] \in CreatePoints => pc[t] \in CreatePoints /\ t # cpu
    BY <2>3 DEF CpuTypeOK, Goto, CreatePoints, ExitPoints
  <2>6. \A t \in Threads : state'[t] \in {"RUNNING", "ABSENT"} => state'[t] = state[t]
    BY <2>2 DEF LibTypeOK
  <2>. QED
    BY <2>1, <2>4, <2>5, <2>6, CodeStep
<1>2. CASE \E w \in Workers : pthread_join_Call(w)
  <2>1. PICK w \in Workers : pthread_join_Call(w)
    BY <1>2
  <2>2. /\ Depth = 0 /\ Goto("j_call")
        /\ UNCHANGED <<cpu, act, running, head, gCurrent, context, tid>>
        /\ state' = [state EXCEPT ![running] = "BLOCKED"] \/ UNCHANGED state
    BY <2>1 DEF JoinsHandle, InBase, Calling, pthread_join_Call
  <2>3. \A t \in Threads \ {cpu} : obj'[t] = obj[t]
    BY <2>1 DEF CpuTypeOK, pthread_join_Call
  <2>4. \A t \in Threads : pc'[t] \in CreatePoints => pc[t] \in CreatePoints /\ t # cpu
    BY <2>2 DEF CpuTypeOK, Goto, CreatePoints
  <2>5. \A t \in Threads : state'[t] \in {"RUNNING", "ABSENT"} => state'[t] = state[t]
    BY <2>2 DEF LibTypeOK
  <2>. QED
    BY <2>2, <2>3, <2>4, <2>5, CodeStep
<1>3. CASE \E w \in Workers : pthread_join_Hang(w)
  BY <1>3 DEF pthread_join_Hang, CurrentInv, OneActivation, OwnContexts, Newborns, Unborn,
     Current, RunningState, Phase, Depth, Top
<1>4. CASE pthread_join_Schedule
  <2>1. \A t \in Threads : pc'[t] \in CreatePoints => pc[t] \in CreatePoints
    BY <1>4 DEF CpuTypeOK, pthread_join_Schedule, Goto, CreatePoints
  <2>. QED
    BY <1>4, <2>1, PushStep DEF pthread_join_Schedule, InBase
<1>5. CASE pthread_join_Read
  <2>1. \A t \in Threads : pc'[t] \in CreatePoints => pc[t] \in CreatePoints
    BY <1>5 DEF CpuTypeOK, pthread_join_Read, Goto, CreatePoints
  <2>. QED
    BY <1>5, <2>1, CodeStep DEF pthread_join_Read, InBase
<1>. QED
  BY <1>1, <1>2, <1>3, <1>4, <1>5 DEF pthread_join

LEMMA SemCurrent ==
  ASSUME TypeInv, CurrentInv, semaphores
  PROVE  CurrentInv'
<1>. USE DEF TypeInv, TypeOK
<1>1. CASE sem_wait_Schedule
  <2>1. \A t \in Threads : pc'[t] \in CreatePoints => pc[t] \in CreatePoints
    BY <1>1 DEF CpuTypeOK, sem_wait_Schedule, Goto, CreatePoints
  <2>. QED
    BY <1>1, <2>1, PushStep DEF sem_wait_Schedule, InBase
<1>2. CASE \E s \in Sems : sem_wait_Block(s)
  <2>1. PICK s \in Sems : sem_wait_Block(s)
    BY <1>2
  <2>2. /\ Depth = 0 /\ Goto("w_call") /\ obj' = [obj EXCEPT ![cpu] = s]
        /\ UNCHANGED <<cpu, act, running, head, gCurrent, context, tid>>
        /\ state' = [state EXCEPT ![running] = "BLOCKED"]
    BY <2>1 DEF InBase, Calling, sem_wait_Block
  <2>3. \A t \in Threads : pc'[t] \in CreatePoints =>
                           pc[t] \in CreatePoints /\ obj'[t] = obj[t]
    BY <2>2 DEF CpuTypeOK, Goto, CreatePoints
  <2>4. \A t \in Threads : state'[t] \in {"RUNNING", "ABSENT"} => state'[t] = state[t]
    BY <2>2 DEF LibTypeOK
  <2>. QED
    BY <2>2, <2>3, <2>4, CodeStep
<1>3. CASE \E s \in Sems : sem_post(s)
  <2>1. PICK s \in Sems : sem_post(s)
    BY <1>3
  <2>2. /\ Depth = 0
        /\ UNCHANGED <<cpu, act, running, head, gCurrent, context, tid, pc, obj>>
        /\ state' = [state EXCEPT ![ToWake(s)] = "READY"] \/ UNCHANGED state
    BY <2>1 DEF InBase, Calling, sem_post
  <2>3. \A t \in Threads : state'[t] \in {"RUNNING", "ABSENT"} => state'[t] = state[t]
    BY <2>2 DEF LibTypeOK
  <2>. QED
    BY <2>2, <2>3, CodeStep
<1>4. CASE sem_wait_Check \/ sem_wait_Load \/ sem_wait_Store
  <2>1. /\ Depth = 0 /\ \E p \in WaitPoints \cup {"user"} : Goto(p)
        /\ UNCHANGED <<cpu, act, running, head, gCurrent, context, tid, obj, state>>
    BY <1>4 DEF InBase, WaitPoints, sem_wait_Check, sem_wait_Load, sem_wait_Store
  <2>2. \A t \in Threads : pc'[t] \in CreatePoints => pc[t] \in CreatePoints
    BY <2>1 DEF CpuTypeOK, Goto, CreatePoints, WaitPoints
  <2>. QED
    BY <2>1, <2>2, CodeStep
<1>5. CASE \/ sem_Error
           \/ \E s \in Sems : \/ sem_init(s) \/ sem_destroy(s)
                             \/ sem_wait_Take(s) \/ sem_wait_Negative(s)
  <2>1. /\ Depth = 0
        /\ UNCHANGED <<cpu, act, running, head, gCurrent, context, tid, pc, obj, state>>
    BY <1>5 DEF InBase, Calling, sem_Error, sem_init, sem_destroy, sem_wait_Take,
       sem_wait_Negative
  <2>. QED
    BY <2>1, CodeStep
<1>. QED
  BY <1>1, <1>2, <1>3, <1>4, <1>5 DEF semaphores, sem_wait

LEMMA SetTopPhase ==
  ASSUME TypeInv, OneActivation, Depth > 0, UNCHANGED cpu, NEW f, SetTop(f)
  PROVE  Phase' = f.at /\ Top' = f /\ OneActivation'
<1>. DEFINE S == Frames \cup {f}
<1>1. /\ act \in [Threads -> Seq(Frames)] /\ cpu \in Threads
      /\ act[cpu] \in Seq(S) /\ Depth = 1 /\ Len(act[cpu]) = 1
  <2>1. /\ act \in [Threads -> Seq(Frames)] /\ cpu \in Threads
        /\ act[cpu] \in Seq(Frames)
    BY DEF TypeInv, TypeOK, CpuTypeOK
  <2>2. Len(act[cpu]) \in Nat
    BY <2>1
  <2>3. Len(act[cpu]) = 1
    BY <2>1, <2>2 DEF Depth, OneActivation
  <2>4. act[cpu] \in Seq(S)
    BY <2>1
  <2>. QED
    BY <2>1, <2>3, <2>4 DEF Depth
<1>2. /\ [act[cpu] EXCEPT ![1] = f] \in Seq(S)
      /\ Len([act[cpu] EXCEPT ![1] = f]) = 1
      /\ [act[cpu] EXCEPT ![1] = f][1] = f
  <2>1. f \in S
    OBVIOUS
  <2>. HIDE DEF S
  <2>2. 1 \in 1..Len(act[cpu])
    BY <1>1
  <2>3. /\ [act[cpu] EXCEPT ![1] = f] \in Seq(S)
        /\ Len([act[cpu] EXCEPT ![1] = f]) = Len(act[cpu])
    <3>1. \A s \in Seq(S) : \A i \in 1..Len(s) :
            /\ [s EXCEPT ![i] = f] \in Seq(S)
            /\ Len([s EXCEPT ![i] = f]) = Len(s)
      BY <2>1, ReplaceTop
    <3>2. act[cpu] \in Seq(S)
      BY <1>1
    <3>. QED
      BY <2>2, <3>1, <3>2, Zenon
  <2>4. [act[cpu] EXCEPT ![1] = f][1] = f
    BY <1>1, <2>2
  <2>. QED
    BY <1>1, <2>3, <2>4
<1>3. /\ act'[cpu] = [act[cpu] EXCEPT ![1] = f]
      /\ \A t \in Threads \ {cpu} : act'[t] = act[t]
  BY <1>1 DEF SetTop
<1>4. Depth' = 1 /\ Top' = f
  BY <1>2, <1>3 DEF Depth, Top
<1>. QED
  BY <1>2, <1>3, <1>4 DEF Phase, OneActivation

LEMMA ScheduleCurrent ==
  ASSUME TypeInv, CurrentInv, schedule(Saved)
  PROVE  CurrentInv'
<1>. USE DEF TypeInv, TypeOK, CurrentInv
<1>1. CASE schedule_Fault
  BY <1>1 DEF schedule_Fault, Fault, OneActivation, OwnContexts, Newborns, Unborn,
     Current, RunningState, Phase, Depth, Top
<1>2. ASSUME NEW p, InSchedule(p)
      PROVE  /\ Depth > 0 /\ Phase = p /\ Top.at = p /\ head # NULL
             /\ running \in Threads /\ cpu \in Threads /\ Top \in Frames
             /\ Workers \subseteq Threads
  BY <1>2, TopType DEF InSchedule, Phase, Depth, HeadShape, LibTypeOK, CpuTypeOK, Threads
<1>3. CASE schedule_Enter(Saved)
  <2>1. /\ Phase = "enter" /\ running = cpu /\ gCurrent = tid[cpu] /\ Depth > 0
        /\ UNCHANGED <<cpu, pc, obj, running, head, gCurrent, context, tid>>
        /\ \E p \in {"save", "look"} : SetTop(Frame(p))
        /\ running \in Threads /\ head # NULL
    BY <1>2, <1>3 DEF schedule_Enter, Current
  <2>2. /\ \A t \in Threads \ {running} : state'[t] = state[t]
        /\ state'[running] # "RUNNING"
        /\ state'[running] = "ABSENT" => state[running] = "ABSENT"
    BY <1>3, <2>1 DEF schedule_Enter, LibTypeOK, Saved
  <2>3. OneActivation' /\ Phase' \in {"save", "look"}
    BY <2>1, SetTopPhase DEF Frame
  <2>4. OwnContexts' /\ Newborns' /\ Unborn'
    BY <2>1, <2>2 DEF OwnContexts, Newborns, Unborn, LocalsShape, Threads
  <2>5. Current' /\ RunningState'
    BY <2>1, <2>2, <2>3 DEF Current, RunningState
  <2>. QED
    BY <2>3, <2>4, <2>5
<1>4. CASE schedule_Save
  <2>0. Depth = 1
    <3>1. cpu \in Threads /\ Len(act[cpu]) \in Nat /\ Depth > 0
      BY <1>2, <1>4 DEF schedule_Save, CpuTypeOK
    <3>. QED
      BY <3>1 DEF OneActivation, Depth
  <2>1. /\ Phase = "save" /\ running = cpu /\ gCurrent = tid[cpu] /\ Depth > 0
        /\ UNCHANGED <<cpu, pc, obj, running, head, gCurrent, state, tid>>
        /\ context' = [context EXCEPT ![running] = [owner |-> cpu, depth |-> 1]]
        /\ SetTop(Frame("look")) /\ cpu \in Threads /\ head # NULL
    BY <1>2, <1>4, <2>0 DEF schedule_Save, Current
  <2>2. OneActivation' /\ Phase' = "look"
    BY <2>1, SetTopPhase DEF Frame
  <2>3. OwnContexts' /\ \A t \in Threads \ {cpu} : context'[t] = context[t]
    BY <2>1 DEF OwnContexts, LibTypeOK
  <2>4. Newborns' /\ Unborn'
    BY <2>1, <2>3 DEF Newborns, Unborn, LocalsShape, Threads
  <2>5. Current' /\ RunningState'
    BY <2>1, <2>2 DEF Current, RunningState
  <2>. QED
    BY <2>2, <2>3, <2>4, <2>5
<1>5. CASE schedule_Look \/ schedule_Scan
  <2>1. /\ Phase \in {"look", "scan"} /\ running = cpu /\ gCurrent = tid[cpu] /\ Depth > 0
        /\ UNCHANGED <<cpu, pc, obj, running, head, gCurrent, context, state, tid>>
        /\ UNCHANGED act \/ \E f : SetTop(f) /\ f.at \in {"scan", "take"}
    <3>1. CASE schedule_Look
      BY <1>2, <3>1 DEF schedule_Look, Current
    <3>2. CASE schedule_Scan
      <4>1. /\ [Top EXCEPT !.at = "take"].at = "take"
            /\ [Top EXCEPT !.ptr = next[Top.ptr]].at = "scan"
        BY <1>2, <3>2 DEF schedule_Scan, Frames
      <4>. QED
        BY <1>2, <3>2, <4>1 DEF schedule_Scan, Current
    <3>. QED
      BY <1>5, <3>1, <3>2
  <2>2. OneActivation' /\ Phase' \in {"look", "scan", "take"}
    BY <2>1, SetTopPhase DEF OneActivation, Phase, Depth, Top
  <2>3. OwnContexts' /\ Newborns' /\ Unborn'
    BY <2>1 DEF OwnContexts, Newborns, Unborn
  <2>4. Current' /\ RunningState'
    BY <2>1, <2>2 DEF Current, RunningState
  <2>. QED
    BY <2>2, <2>3, <2>4
<1>6. CASE schedule_Take
  <2>1. /\ Phase = "take" /\ running = cpu /\ Depth > 0 /\ head # NULL
        /\ Top.ptr \in Threads /\ gCurrent' = tid[Top.ptr]
        /\ state' = [state EXCEPT ![Top.ptr] = "RUNNING"]
        /\ UNCHANGED <<cpu, pc, obj, running, head, context, tid>>
        /\ SetTop([Top EXCEPT !.at = "install"])
    BY <1>2, <1>6 DEF schedule_Take, Current, Frames
  <2>2. /\ [Top EXCEPT !.at = "install"].at = "install"
        /\ [Top EXCEPT !.at = "install"].ptr = Top.ptr
    BY <1>2, <1>6 DEF schedule_Take, Frames
  <2>3. OneActivation' /\ Phase' = "install" /\ Top'.ptr = Top.ptr
    BY <2>1, <2>2, SetTopPhase
  <2>4. /\ \A t \in Threads \ {Top.ptr} : state'[t] = state[t]
        /\ state'[Top.ptr] = "RUNNING"
    BY <2>1 DEF LibTypeOK
  <2>5. OwnContexts' /\ Newborns' /\ Unborn'
    BY <2>1, <2>4 DEF OwnContexts, Newborns, Unborn, LocalsShape, Threads
  <2>6. Current' /\ RunningState'
    BY <2>1, <2>3, <2>4 DEF Current, RunningState
  <2>. QED
    BY <2>3, <2>5, <2>6
<1>7. CASE schedule_Install
  <2>1. /\ Phase = "install" /\ gCurrent = tid[Top.ptr] /\ Depth > 0 /\ head # NULL
        /\ Top.ptr \in Threads /\ running' = Top.ptr
        /\ state' = [state EXCEPT ![Top.ptr] = "RUNNING"]
        /\ UNCHANGED <<cpu, pc, obj, head, gCurrent, context, tid>>
        /\ SetTop([Top EXCEPT !.at = "jump"])
    BY <1>2, <1>7 DEF schedule_Install, Current, Frames
  <2>2. /\ [Top EXCEPT !.at = "jump"].at = "jump"
        /\ [Top EXCEPT !.at = "jump"].ptr = Top.ptr
    BY <1>2, <1>7 DEF schedule_Install, Frames
  <2>3. OneActivation' /\ Phase' = "jump" /\ Top'.ptr = Top.ptr
    BY <2>1, <2>2, SetTopPhase
  <2>4. /\ \A t \in Threads \ {Top.ptr} : state'[t] = state[t]
        /\ state'[Top.ptr] = "RUNNING"
    BY <2>1 DEF LibTypeOK
  <2>5. OwnContexts' /\ Newborns' /\ Unborn'
    BY <2>1, <2>4 DEF OwnContexts, Newborns, Unborn, LocalsShape, Threads
  <2>6. Current' /\ RunningState'
    BY <2>1, <2>3, <2>4 DEF Current, RunningState
  <2>. QED
    BY <2>3, <2>5, <2>6
<1>8. CASE schedule_Jump
  <2>. DEFINE c == context[Top.ptr]
  <2>1. /\ Phase = "jump" /\ running = Top.ptr /\ gCurrent = tid[running] /\ head # NULL
        /\ running \in Threads /\ cpu \in Threads
        /\ c.owner \in Threads /\ cpu' = c.owner
        /\ act' = [act EXCEPT ![c.owner] = SubSeq(@, 1, c.depth - 1)]
        /\ context' = [t \in Threads |->
              IF context[t].owner = c.owner /\ context[t].depth >= c.depth
              THEN NoContext ELSE context[t]]
        /\ UNCHANGED <<pc, obj, running, head, gCurrent, state, tid>>
    BY <1>2, <1>8 DEF schedule_Jump, Current, Resumable
  <2>2. c # NoContext
    BY <2>1 DEF NoContext, Threads
  <2>3. c = [owner |-> running, depth |-> 1]
    BY <2>1, <2>2 DEF OwnContexts
  <2>4. cpu' = running /\ act' = [act EXCEPT ![running] = SubSeq(@, 1, 0)]
    BY <2>1, <2>3
  <2>5. SubSeq(act[running], 1, 0) = <<>>
    BY <2>1 DEF CpuTypeOK
  <2>6. /\ act'[running] = <<>>
        /\ \A t \in Threads \ {running} : act'[t] = act[t]
    BY <2>1, <2>4, <2>5 DEF CpuTypeOK
  <2>7. OneActivation' /\ Phase' = "code"
    BY <2>4, <2>6 DEF OneActivation, Phase, Depth
  <2>8. OwnContexts' /\ \A t \in Threads \ {running} : context'[t] = context[t]
    BY <2>1, <2>3 DEF OwnContexts, NoContext, Threads
  <2>9. \A t \in Threads : pc[t] \in CreatePoints => obj[t] \in Threads /\ obj[t] # running
    BY <2>1, <2>2 DEF Newborns, LocalsShape, Threads
  <2>10. \A w \in Workers : state[w] = "ABSENT" => w # running
    BY <2>1, <2>2 DEF Unborn
  <2>11. Newborns' /\ Unborn'
    BY <2>1, <2>4, <2>8, <2>9, <2>10 DEF Newborns, Unborn, Threads
  <2>12. Current' /\ RunningState'
    BY <2>1, <2>4, <2>7 DEF Current, RunningState
  <2>. QED
    BY <2>7, <2>8, <2>11, <2>12
<1>. QED
  BY <1>1, <1>3, <1>4, <1>5, <1>6, <1>7, <1>8 DEF schedule

(* Without nested ticks a jump uses up the jmp_buf it goes through, and no *)
(* other thread's.                                                         *)
LEMMA JumpClears ==
  ASSUME TypeInv, CurrentInv, schedule_Jump
  PROVE  context' = [context EXCEPT ![running] = NoContext]
<1>. DEFINE c == context[Top.ptr]
<1>1. /\ Phase = "jump" /\ head # NULL
      /\ c.owner \in Threads
      /\ context' = [t \in Threads |->
            IF context[t].owner = c.owner /\ context[t].depth >= c.depth
            THEN NoContext ELSE context[t]]
  BY DEF schedule_Jump, Resumable, InSchedule, Phase, Depth, HeadShape, TypeInv
<1>2. running = Top.ptr /\ running \in Threads /\ c # NoContext
  BY <1>1 DEF CurrentInv, Current, TypeInv, TypeOK, LibTypeOK, HeadShape, NoContext, Threads
<1>3. c = [owner |-> running, depth |-> 1]
  BY <1>2 DEF CurrentInv, OwnContexts
<1>4. ASSUME NEW t \in Threads
      PROVE  context[t].owner = running /\ context[t].depth >= 1 <=> t = running
  <2>1. CASE context[t] = NoContext
    BY <1>2, <2>1 DEF NoContext, Threads
  <2>2. CASE context[t] = [owner |-> t, depth |-> 1]
    BY <1>2, <1>3, <2>2
  <2>. QED
    BY <2>1, <2>2 DEF CurrentInv, OwnContexts
<1>5. c.owner = running /\ c.depth = 1
  BY <1>3
<1>6. context' = [t \in Threads |-> IF t = running THEN NoContext ELSE context[t]]
  <2>. HIDE DEF c
  <2>. QED
    BY <1>1, <1>4, <1>5
<1>. QED
  BY <1>2, <1>6 DEF TypeInv, TypeOK, LibTypeOK

LEMMA CurrentStep ==
  ASSUME Unnested, TypeInv, CurrentInv, [Next]_vars
  PROVE  CurrentInv'
<1>1. CASE pthread_create
  BY <1>1, CreateCurrent
<1>2. CASE pthread_exit \/ pthread_join \/ semaphores
  BY <1>2, ExitJoinCurrent, SemCurrent
<1>3. CASE schedule(Saved)
  BY <1>3, ScheduleCurrent
<1>4. CASE Interrupt
  <2>1. Depth = 0
    <3>1. SUFFICES ASSUME Depth # 0 PROVE FALSE
      OBVIOUS
    <3>2. Depth > 0
      BY <3>1 DEF TypeInv, TypeOK, CpuTypeOK, Depth
    <3>3. Point \in SchedulePoints
      BY <3>2, TopType DEF TypeInv, TypeOK, Point, Frames
    <3>. QED
      BY <1>4, <3>3 DEF Interrupt, Tick, Unnested
  <2>. QED
    BY <1>4, <2>1, PushStep DEF Interrupt, Tick
<1>5. CASE UNCHANGED <<cpuVars, tail, handle, libVars, tcbVars>>
  BY <1>5 DEF CurrentInv, OneActivation, OwnContexts, Newborns, Unborn,
     Current, RunningState, Phase, Depth, Top
<1>. QED
  BY <1>1, <1>2, <1>3, <1>4, <1>5
  DEF Next, Library, Ended, MainReturns, SyncFault, Fault

(* If no tick lands inside schedule(), every library call finds itself in  *)
(* running and pthread_self(), wherever else the timer ticks.              *)
THEOREM RunningIsCurrentThm == Unnested => (Spec => []RunningIsCurrent)
<1>. SUFFICES ASSUME Unnested PROVE Spec => []RunningIsCurrent
  OBVIOUS
<1>1. Init => TypeInv /\ CurrentInv
  BY TypeInit, CurrentInit
<1>2. TypeInv /\ CurrentInv /\ [Next]_vars => TypeInv' /\ CurrentInv'
  BY TypeStep, CurrentStep
<1>3. CurrentInv => RunningIsCurrent
  BY DEF CurrentInv, Current, RunningIsCurrent, Phase, pthread_self
<1>. QED
  BY <1>1, <1>2, <1>3, PTL DEF Spec

(* Then schedule() saves each thread's context in its own tcb, too: without*)
(* nested ticks the switch between stacks is right.                        *)
THEOREM SavesOwnContextThm == Unnested => (Spec => []SavesOwnContext)
<1>. SUFFICES ASSUME Unnested PROVE Spec => []SavesOwnContext
  OBVIOUS
<1>1. Init => TypeInv /\ CurrentInv
  BY TypeInit, CurrentInit
<1>2. TypeInv /\ CurrentInv /\ [Next]_vars => TypeInv' /\ CurrentInv'
  BY TypeStep, CurrentStep
<1>3. CurrentInv => SavesOwnContext
  BY DEF CurrentInv, OwnContexts, SavesOwnContext, NoContext
<1>. QED
  BY <1>1, <1>2, <1>3, PTL DEF Spec

(* Then no thread is left RUNNING, never to run again, either.             *)
THEOREM OneRunningThm == Unnested => (Spec => []OneRunning)
<1>. SUFFICES ASSUME Unnested PROVE Spec => []OneRunning
  OBVIOUS
<1>1. Init => TypeInv /\ CurrentInv
  BY TypeInit, CurrentInit
<1>2. TypeInv /\ CurrentInv /\ [Next]_vars => TypeInv' /\ CurrentInv'
  BY TypeStep, CurrentStep
<1>3. TypeInv /\ CurrentInv => OneRunning
  BY DEF TypeInv, TypeOK, CpuTypeOK, CurrentInv, RunningState, OneRunning, Phase, Depth
<1>. QED
  BY <1>1, <1>2, <1>3, PTL DEF Spec

=============================================================================
