---------------------------- MODULE Threads2Proof ---------------------------
(***************************************************************************)
(* Theorems about the first threading library ("Take 2") for every number  *)
(* of threads and every client program.                                    *)
(***************************************************************************)
EXTENDS Threads2Properties, SequenceTheorems, FiniteSetTheorems,
        WellFoundedInduction, TLAPS

USE CoreAssumption
USE DEF coreVars, cpuVars, libVars, tcbVars

-----------------------------------------------------------------------------
(* Type correctness.  The local pthread_create works on is a tcb, and      *)
(* before the first pthread_create only main has run.                      *)
LocalsShape == \A t \in Threads : pc[t] \in CreatePoints => obj[t] \in Workers

HeadShape ==
  /\ head = NULL <=> running = NULL
  /\ head = NULL => cpu = Main /\ act[Main] = <<>> /\ pc[Main] \in {"user", "c_head"}

TypeInv == TypeOK /\ LocalsShape /\ HeadShape

(* Replacing the top of a stack of activations keeps the stack's height.   *)
LEMMA ReplaceTop ==
  ASSUME NEW S, NEW s \in Seq(S), NEW i \in 1..Len(s), NEW f \in S
  PROVE  /\ [s EXCEPT ![i] = f] \in Seq(S)
         /\ Len([s EXCEPT ![i] = f]) = Len(s)
  OBVIOUS

LEMMA FrameType ==
  ASSUME NEW p \in SchedulePoints \ {"take", "install"}
  PROVE  Frame(p) \in Frames
  BY DEF Frame, Frames, Pointers

LEMMA TopType ==
  ASSUME CpuTypeOK, Depth > 0
  PROVE  Top \in Frames /\ Depth \in 1..Len(act[cpu])
  BY DEF CpuTypeOK, Depth, Top

LEMMA SetTopType ==
  ASSUME CpuTypeOK, Depth > 0, NEW f \in Frames, SetTop(f)
  PROVE  act' \in [Threads -> Seq(Frames)]
<1>1. /\ act[cpu] \in Seq(Frames) /\ Depth \in 1..Len(act[cpu])
      /\ act \in [Threads -> Seq(Frames)] /\ cpu \in Threads
  BY DEF CpuTypeOK, Depth
<1>2. [act[cpu] EXCEPT ![Depth] = f] \in Seq(Frames)
  BY <1>1, ReplaceTop
<1>. QED
  BY <1>1, <1>2 DEF SetTop

LEMMA PushType ==
  ASSUME CpuTypeOK, PushSchedule
  PROVE  act' \in [Threads -> Seq(Frames)]
<1>1. Frame("enter") \in Frames
  BY FrameType DEF SchedulePoints
<1>. QED
  BY <1>1 DEF CpuTypeOK, PushSchedule

LEMMA TypeInit == Init => TypeInv
<1>. SUFFICES ASSUME Init PROVE TypeInv
  OBVIOUS
<1>1. CpuTypeOK
  <2>1. <<>> \in Seq(Frames) /\ <<Thunk>> \in Seq(Frames)
    BY FrameType DEF Thunk, SchedulePoints
  <2>. QED
    BY <2>1 DEF Init, CoreInit, CpuTypeOK, Threads, BasePoints
<1>2. LibTypeOK
  BY DEF Init, CoreInit, LibTypeOK, Pointers, Contexts, NoContext, TcbStates, ThreadStates
<1>3. LocalsShape /\ HeadShape
  BY DEF Init, CoreInit, LocalsShape, HeadShape, CreatePoints, Threads
<1>. QED
  BY <1>1, <1>2, <1>3 DEF TypeInv, TypeOK

(* pthread_create.                                                         *)
LEMMA FreshTypes ==
  ASSUME NEW u \in Uninit
  PROVE  /\ FreshState(u) \in TcbStates \ {"RUNNING", "ABSENT", "TERMINATED"}
         /\ FreshTid(u) \in Nat \cup {Junk} /\ u \in Pointers
  BY DEF FreshState, FreshTid, TcbStates, ThreadStates, Pointers

LEMMA CreateEnterType ==
  ASSUME TypeInv, NEW w \in Workers, NEW u \in Uninit, pthread_create_Enter(w, u)
  PROVE  TypeInv'
<1>1. CpuTypeOK'
  BY DEF TypeInv, TypeOK, CpuTypeOK, pthread_create_Enter, NextCall, Goto,
     Threads, BasePoints, CreatePoints
<1>2. LibTypeOK'
  <2>1. FreshState(u) \in TcbStates /\ FreshTid(u) \in Nat \cup {Junk} /\ u \in Pointers
    BY FreshTypes
  <2>2. /\ id' = id + 1 /\ UNCHANGED <<tail, handle, head, running, gCurrent, context>>
        /\ state' = [state EXCEPT ![w] = FreshState(u)]
        /\ tid' = [tid EXCEPT ![w] = FreshTid(u)]
        /\ next' = [next EXCEPT ![w] = u] /\ prev' = [prev EXCEPT ![w] = u]
    BY DEF pthread_create_Enter
  <2>3. LibTypeOK
    BY DEF TypeInv, TypeOK
  <2>4. state' \in [Threads -> TcbStates]
    BY <2>1, <2>2, <2>3 DEF LibTypeOK
  <2>5. tid' \in [Threads -> Nat \cup {Junk}]
    BY <2>1, <2>2, <2>3 DEF LibTypeOK
  <2>6. next' \in [Threads -> Pointers] /\ prev' \in [Threads -> Pointers]
    BY <2>1, <2>2, <2>3 DEF LibTypeOK
  <2>. QED
    BY <2>2, <2>3, <2>4, <2>5, <2>6 DEF LibTypeOK
<1>3. LocalsShape' /\ HeadShape'
  BY DEF TypeInv, TypeOK, CpuTypeOK, LocalsShape, HeadShape, pthread_create_Enter, Goto,
     CreatePoints
<1>. QED
  BY <1>1, <1>2, <1>3 DEF TypeInv, TypeOK

LEMMA CreateFirstType ==
  ASSUME TypeInv, pthread_create_First
  PROVE  TypeInv'
<1>1. obj[cpu] \in Workers /\ Main \in Threads /\ Workers \subseteq Threads /\ cpu \in Threads
  BY DEF TypeInv, TypeOK, CpuTypeOK, LocalsShape, pthread_create_First, InBase,
     CreatePoints, Threads
<1>2. CpuTypeOK'
  BY DEF TypeInv, TypeOK, CpuTypeOK, pthread_create_First, Goto, BasePoints, CreatePoints
<1>3. LibTypeOK'
  BY <1>1 DEF TypeInv, TypeOK, LibTypeOK, pthread_create_First,
     TcbStates, ThreadStates, Pointers
<1>4. LocalsShape' /\ HeadShape'
  BY <1>1 DEF TypeInv, TypeOK, CpuTypeOK, LocalsShape, HeadShape, pthread_create_First, Goto,
     CreatePoints
<1>. QED
  BY <1>2, <1>3, <1>4 DEF TypeInv, TypeOK

(* The stores of pthread_create once there is a main tcb.                  *)
CreateStore ==
  \/ pthread_create_Tail \/ pthread_create_Append \/ pthread_create_Next \/ pthread_create_Prev
  \/ pthread_create_Fill \/ pthread_create_Ready \/ pthread_create_Context

(* Where they go on.                                                       *)
LEMMA CreateStoreIs ==
  ASSUME TypeInv, CreateStore
  PROVE  /\ cpu \in Threads /\ obj[cpu] \in Workers /\ obj[cpu] \in Threads /\ Depth = 0
         /\ pc[cpu] \in CreatePoints /\ head = Main
         /\ \E p \in CreatePoints \cup {"user"} : Goto(p)
         /\ UNCHANGED <<status, masked, cpu, act, ip, obj, libVars>>
<1>. USE DEF CreateStore, TypeInv, TypeOK
<1>1. cpu \in Threads /\ Depth = 0 /\ pc[cpu] \in CreatePoints
  BY DEF CpuTypeOK, InBase, CreatePoints, pthread_create_Tail, pthread_create_Append, pthread_create_Next,
     pthread_create_Prev, pthread_create_Fill, pthread_create_Ready, pthread_create_Context
<1>2. obj[cpu] \in Workers /\ obj[cpu] \in Threads
  BY <1>1 DEF LocalsShape, Threads
<1>3. head = Main
  BY <1>1 DEF HeadShape, LibTypeOK, InBase, CreatePoints,
     pthread_create_Tail, pthread_create_Append, pthread_create_Next,
     pthread_create_Prev, pthread_create_Fill, pthread_create_Ready, pthread_create_Context
<1>4. \E p \in CreatePoints \cup {"user"} : Goto(p)
  BY DEF CreatePoints, pthread_create_Tail, pthread_create_Append, pthread_create_Next, pthread_create_Prev,
     pthread_create_Fill, pthread_create_Ready, pthread_create_Context
<1>5. UNCHANGED <<status, masked, cpu, act, ip, obj, libVars>>
  BY DEF pthread_create_Tail, pthread_create_Append, pthread_create_Next, pthread_create_Prev,
     pthread_create_Fill, pthread_create_Ready, pthread_create_Context
<1>. QED
  BY <1>1, <1>2, <1>3, <1>4, <1>5

LEMMA CreateStoreType ==
  ASSUME TypeInv, CreateStore
  PROVE  TypeInv'
<1>. USE DEF TypeInv, TypeOK
<1>1. /\ cpu \in Threads /\ obj[cpu] \in Workers /\ obj[cpu] \in Threads
      /\ pc[cpu] \in CreatePoints /\ head = Main /\ head \in Threads
  BY CreateStoreIs DEF Threads
<1>2. PICK p \in CreatePoints \cup {"user"} : Goto(p)
  BY CreateStoreIs
<1>3. UNCHANGED <<status, masked, cpu, act, ip, obj, libVars>>
  BY CreateStoreIs
<1>4. CpuTypeOK'
  BY <1>2, <1>3 DEF CpuTypeOK, Goto, BasePoints
<1>5. LibTypeOK'
  <2>1. CASE pthread_create_Append
    BY <1>1, <2>1 DEF LibTypeOK, Pointers, pthread_create_Append
  <2>2. CASE pthread_create_Next
    BY <1>1, <2>2 DEF LibTypeOK, Pointers, pthread_create_Next
  <2>3. CASE pthread_create_Prev
    BY <1>1, <2>3 DEF LibTypeOK, Pointers, pthread_create_Prev
  <2>4. CASE pthread_create_Fill
    BY <1>1, <2>4 DEF LibTypeOK, pthread_create_Fill
  <2>5. CASE pthread_create_Ready
    BY <1>1, <2>5 DEF LibTypeOK, TcbStates, ThreadStates, pthread_create_Ready
  <2>6. CASE pthread_create_Context
    BY <1>1, <2>6 DEF LibTypeOK, Contexts, pthread_create_Context
  <2>7. CASE pthread_create_Tail
    BY <1>1, <2>7 DEF LibTypeOK, Pointers, pthread_create_Tail
  <2>. QED
    BY <2>1, <2>2, <2>3, <2>4, <2>5, <2>6, <2>7 DEF CreateStore
<1>6. LocalsShape'
  BY <1>1, <1>2, <1>3 DEF CpuTypeOK, LocalsShape, Goto
<1>7. HeadShape'
  BY <1>1, <1>3 DEF HeadShape
<1>. QED
  BY <1>4, <1>5, <1>6, <1>7

LEMMA CreateType ==
  ASSUME TypeInv, pthread_create
  PROVE  TypeInv'
<1>1. CASE \E w \in Workers : \E u \in Uninit : pthread_create_Enter(w, u)
  BY <1>1, CreateEnterType
<1>2. CASE \E w \in Workers : pthread_create_NoMemory(w)
  <2>1. PICK w \in Workers : pthread_create_NoMemory(w)
    BY <1>2
  <2>2. CpuTypeOK' /\ LibTypeOK'
    BY <2>1 DEF TypeInv, TypeOK, CpuTypeOK, LibTypeOK, pthread_create_NoMemory, NextCall
  <2>3. LocalsShape' /\ HeadShape'
    BY <2>1 DEF TypeInv, LocalsShape, HeadShape, pthread_create_NoMemory
  <2>. QED
    BY <2>2, <2>3 DEF TypeInv, TypeOK
<1>3. CASE pthread_create_Fault
  BY <1>3 DEF pthread_create_Fault, Fault, TypeInv, TypeOK, CpuTypeOK, LibTypeOK,
     LocalsShape, HeadShape
<1>. QED
  BY <1>1, <1>2, <1>3, CreateFirstType, CreateStoreType DEF pthread_create, CreateStore

LEMMA ExitType ==
  ASSUME TypeInv, pthread_exit
  PROVE  TypeInv' /\ head = Main /\ running \in Threads /\ cpu \in Threads
<1>. USE DEF TypeInv, TypeOK
<1>1. running \in Threads /\ head = Main /\ cpu \in Threads
  BY DEF pthread_exit, HeadShape, LibTypeOK, CpuTypeOK
<1>2. CpuTypeOK'
  BY DEF CpuTypeOK, pthread_exit, NextCall, Goto, BasePoints, ExitPoints
<1>3. LibTypeOK'
  BY <1>1 DEF LibTypeOK, pthread_exit, TcbStates, ThreadStates
<1>4. LocalsShape'
  BY DEF CpuTypeOK, LocalsShape, pthread_exit, Goto, CreatePoints
<1>5. HeadShape'
  BY <1>1 DEF HeadShape, pthread_exit, Threads
<1>. QED
  BY <1>1, <1>2, <1>3, <1>4, <1>5

-----------------------------------------------------------------------------
(* schedule(), the timer and the end of the process.                       *)
LEMMA ScheduleType ==
  ASSUME TypeInv, schedule(Saved)
  PROVE  TypeInv'
<1>. USE DEF TypeInv, TypeOK
<1>1. CASE schedule_Fault
  <2>1. Fault
    BY <1>1 DEF schedule_Fault
  <2>. QED
    BY <2>1 DEF Fault, CpuTypeOK, LibTypeOK, LocalsShape, HeadShape
<1>. DEFINE Walk == \/ schedule_Enter(Saved) \/ schedule_Save \/ schedule_Look
                    \/ schedule_Scan \/ schedule_Take \/ schedule_Install
<1>2. CASE Walk \/ schedule_Jump
  <2>1. /\ Depth > 0 /\ head # NULL /\ running \in Threads /\ cpu \in Threads
    BY <1>2 DEF HeadShape, CpuTypeOK, LibTypeOK, InSchedule, Depth,
       schedule_Enter, schedule_Save, schedule_Look, schedule_Scan, schedule_Take,
       schedule_Install, schedule_Jump
  <2>2. Top \in Frames /\ Depth \in Nat
    BY <2>1, TopType
  <2>3. /\ UNCHANGED <<masked, pc, ip, obj, tail, handle, head, id, tid, next, prev>>
        /\ status' \in {status, "exit0"}
    BY <1>2 DEF schedule_Enter, schedule_Save, schedule_Look, schedule_Scan, schedule_Take,
       schedule_Install, schedule_Jump
  <2>4. act' \in [Threads -> Seq(Frames)] /\ cpu' \in Threads
    <3>1. CASE Walk
      <4>1. UNCHANGED cpu
        BY <3>1 DEF schedule_Enter, schedule_Save, schedule_Look, schedule_Scan, schedule_Take,
           schedule_Install
      <4>2. (\E f \in Frames : SetTop(f)) \/ UNCHANGED act
        <5>1. CASE schedule_Enter(Saved) \/ schedule_Save
          BY <5>1, FrameType DEF schedule_Enter, schedule_Save, SchedulePoints
        <5>2. CASE schedule_Look
          BY <2>1, <5>2 DEF schedule_Look, Frames, SchedulePoints, LibTypeOK
        <5>3. CASE schedule_Scan
          <6>1. /\ [Top EXCEPT !.at = "take"] \in Frames
                /\ [Top EXCEPT !.ptr = next[Top.ptr]] \in Frames
            BY <2>2, <5>3 DEF schedule_Scan, InSchedule, Frames, SchedulePoints, LibTypeOK
          <6>. QED
            BY <5>3, <6>1 DEF schedule_Scan
        <5>4. CASE schedule_Take \/ schedule_Install
          <6>1. \A p \in {"install", "jump"} :
                  Top.at \in {"take", "install"} => [Top EXCEPT !.at = p] \in Frames
            BY <2>2 DEF Frames, SchedulePoints
          <6>. QED
            BY <5>4, <6>1 DEF schedule_Take, schedule_Install, InSchedule
        <5>. QED
          BY <3>1, <5>1, <5>2, <5>3, <5>4
      <4>. QED
        BY <2>1, <4>1, <4>2, SetTopType DEF CpuTypeOK
    <3>2. CASE schedule_Jump
      <4>. DEFINE c == context[Top.ptr]
      <4>1. c.owner \in Threads /\ c.depth \in 1..Len(act[c.owner])
        BY <3>2 DEF schedule_Jump, Resumable
      <4>2. SubSeq(act[c.owner], 1, c.depth - 1) \in Seq(Frames)
        BY <4>1 DEF CpuTypeOK
      <4>. QED
        BY <3>2, <4>1, <4>2 DEF schedule_Jump, CpuTypeOK
    <3>. QED
      BY <1>2, <3>1, <3>2
  <2>5. CpuTypeOK'
    BY <2>3, <2>4 DEF CpuTypeOK
  <2>6. running' \in Threads /\ gCurrent' \in Nat \cup {Junk}
    BY <1>2, <2>1, <2>2 DEF LibTypeOK, Frames, InSchedule,
       schedule_Enter, schedule_Save, schedule_Look, schedule_Scan, schedule_Take,
       schedule_Install, schedule_Jump
  <2>7. state' \in [Threads -> TcbStates]
    <3>1. state \in [Threads -> TcbStates] /\ {"READY", "RUNNING"} \subseteq TcbStates
      BY <2>1 DEF LibTypeOK, TcbStates, ThreadStates
    <3>2. \/ UNCHANGED state
          \/ state' = [state EXCEPT ![Top.ptr] = "RUNNING"]
          \/ schedule_Enter(Saved)
      BY <1>2 DEF schedule_Save, schedule_Look, schedule_Scan, schedule_Take,
         schedule_Install, schedule_Jump
    <3>. QED
      BY <3>1, <3>2 DEF schedule_Enter
  <2>8. context' \in [Threads -> Contexts]
    <3>1. NoContext \in Contexts /\ [owner |-> cpu, depth |-> Depth] \in Contexts
      BY <2>1, <2>2 DEF Contexts, NoContext
    <3>2. \/ UNCHANGED context
          \/ context' = [context EXCEPT ![running] = [owner |-> cpu, depth |-> Depth]]
          \/ /\ DOMAIN context' = Threads /\ context' = [t \in Threads |-> context'[t]]
             /\ \A t \in Threads : context'[t] \in {NoContext, context[t]}
      BY <1>2 DEF schedule_Enter, schedule_Save, schedule_Look, schedule_Scan, schedule_Take,
         schedule_Install, schedule_Jump
    <3>. QED
      BY <3>1, <3>2 DEF LibTypeOK
  <2>9. LibTypeOK'
    BY <2>3, <2>6, <2>7, <2>8 DEF LibTypeOK
  <2>10. LocalsShape' /\ HeadShape'
    BY <2>1, <2>3, <2>6 DEF LocalsShape, HeadShape
  <2>. QED
    BY <2>5, <2>9, <2>10
<1>. QED
  BY <1>1, <1>2 DEF schedule

LEMMA TypeStep ==
  ASSUME TypeInv, [Next]_coreVars
  PROVE  TypeInv'
<1>1. CASE Tick
  <2>1. /\ act' \in [Threads -> Seq(Frames)] /\ head # NULL
        /\ UNCHANGED <<status, masked, cpu, pc, ip, obj, tail, handle, libVars, tcbVars>>
    BY <1>1, PushType DEF TypeInv, TypeOK, Tick
  <2>. QED
    BY <2>1 DEF TypeInv, TypeOK, CpuTypeOK, LibTypeOK, LocalsShape, HeadShape
<1>2. CASE UNCHANGED <<masked, cpuVars, tail, handle, libVars, tcbVars>> /\
           status' \in {status, "wild", "returned"}
  BY <1>2 DEF TypeInv, TypeOK, CpuTypeOK, LibTypeOK, LocalsShape, HeadShape
<1>. QED
  BY <1>1, <1>2, CreateType, ExitType, ScheduleType
  DEF Next, Library, Ended, MainReturns, pthread_exit_Fault, Fault

(* For every client, heap and timer, every variable keeps its type.        *)
THEOREM TypeCorrect == Spec => []TypeOK
<1>1. Init => TypeInv
  BY TypeInit
<1>2. TypeInv /\ [Next]_coreVars => TypeInv'
  BY TypeStep
<1>3. TypeInv => TypeOK
  BY DEF TypeInv
<1>. QED
  BY <1>1, <1>2, <1>3, PTL DEF Spec

-----------------------------------------------------------------------------
(* The thread on the CPU, if no tick lands inside schedule().  All other   *)
(* ticks are allowed, in pthread_create too.                               *)
Unnested == TickAt \cap SchedulePoints = {}

Phase == IF Depth = 0 THEN "code" ELSE Top.at

(* The CPU's stack holds at most one activation of schedule(), every other *)
(* one exactly one.                                                        *)
OneActivation ==
  Depth \in {0, 1} /\ \A t \in Threads \ {cpu} : Len(act[t]) = 1

(* A jmp_buf that is filled leads to its thread's own activation.          *)
OwnContexts ==
  \A t \in Threads : context[t] \in {NoContext, [owner |-> t, depth |-> 1]}

(* A thread being created is created by one thread, and has not run.       *)
Newborns ==
  \A t \in Threads : pc[t] \in CreatePoints =>
    /\ obj[t] # cpu /\ context[obj[t]] = NoContext /\ state[obj[t]] # "ABSENT"
    /\ pc[obj[t]] # "x_spin"
    /\ \A u \in Threads : pc[u] \in CreatePoints /\ obj[u] = obj[t] => u = t

Unborn == \A w \in Workers : state[w] = "ABSENT" => w # cpu /\ context[w] = NoContext

(* schedule() changes running before it leaves the CPU to it.              *)
Current == head # NULL => running = IF Phase = "jump" THEN Top.ptr ELSE cpu

(* Who is RUNNING, and whom schedule() has picked.                         *)
RunningState ==
  \A t \in Threads : state[t] = "RUNNING" =>
    /\ head # NULL
    /\ \/ Phase \in {"code", "enter", "jump"} /\ t = running
       \/ Phase = "install" /\ t = Top.ptr

Picked ==
  /\ Phase = "take" => state[Top.ptr] = "READY"
  /\ Phase \in {"install", "jump"} => state[Top.ptr] = "RUNNING"

(* pthread_exit loops as a TERMINATED thread.                              *)
Spinning ==
  \A t \in Threads : pc[t] = "x_spin" => head # NULL /\ state[t] = "TERMINATED"

CurrentInv ==
  /\ OneActivation /\ OwnContexts /\ Newborns /\ Unborn
  /\ Current /\ RunningState /\ Picked /\ Spinning

LEMMA CurrentInit == Init => CurrentInv
<1>. SUFFICES ASSUME Init PROVE CurrentInv
  OBVIOUS
<1>1. \A t \in Threads : context[t] = NoContext /\ pc[t] = "user" /\ state[t] = "ABSENT"
  BY DEF Init, CoreInit
<1>2. head = NULL /\ cpu = Main
  BY DEF Init, CoreInit
<1>3. Len(act[Main]) = 0 /\ \A t \in Threads \ {Main} : Len(act[t]) = 1
  <2>1. act[Main] = <<>> /\ \A t \in Threads \ {Main} : act[t] = <<Thunk>>
    BY DEF Init, CoreInit, Threads
  <2>2. Len(<<Thunk>>) = 1
    OBVIOUS
  <2>. QED
    BY <2>1, <2>2
<1>4. Depth = 0 /\ Phase = "code" /\ OneActivation /\ OwnContexts
  BY <1>1, <1>2, <1>3 DEF OneActivation, OwnContexts, Depth, Phase
<1>5. Newborns /\ Unborn /\ Spinning
  BY <1>1, <1>2 DEF Newborns, Unborn, Spinning, CreatePoints, Threads
<1>6. Current /\ RunningState /\ Picked
  BY <1>1, <1>2, <1>4 DEF Current, RunningState, Picked
<1>. QED
  BY <1>4, <1>5, <1>6 DEF CurrentInv

(* A step of code outside schedule() that creates and runs nobody.         *)
LEMMA CodeStep ==
  ASSUME TypeInv, CurrentInv, Depth = 0,
         UNCHANGED <<cpu, act, running, head, context>>,
         \A t \in Threads : state'[t] \in {"RUNNING", "ABSENT"} => state'[t] = state[t],
         \A t \in Threads \ {cpu} : pc'[t] = pc[t] /\ obj'[t] = obj[t],
         pc'[cpu] \in CreatePoints => pc[cpu] \in CreatePoints /\ obj'[cpu] = obj[cpu],
         \A t \in Threads : pc'[t] = "x_spin" => head # NULL /\ state'[t] = "TERMINATED"
  PROVE  CurrentInv'
<1>1. /\ cpu \in Threads /\ Workers \subseteq Threads
      /\ \A t \in Threads : pc[t] \in CreatePoints => obj[t] \in Threads
  BY DEF TypeInv, TypeOK, CpuTypeOK, LocalsShape, Threads
<1>2. Phase = "code" /\ Phase' = "code" /\ Depth' = 0
  BY DEF Phase, Depth
<1>3. OneActivation' /\ OwnContexts'
  BY <1>2 DEF CurrentInv, OneActivation, OwnContexts
<1>4. \A t \in Threads : pc'[t] \in CreatePoints => pc[t] \in CreatePoints /\ obj'[t] = obj[t]
  OBVIOUS
<1>5. Newborns' /\ Unborn'
  BY <1>1, <1>4 DEF CurrentInv, Newborns, Unborn
<1>6. Current' /\ RunningState' /\ Picked'
  BY <1>2 DEF CurrentInv, Current, RunningState, Picked
<1>7. Spinning'
  BY DEF Spinning
<1>. QED
  BY <1>3, <1>5, <1>6, <1>7 DEF CurrentInv

(* The CPU enters schedule() by a tick.                                    *)
LEMMA PushStep ==
  ASSUME TypeInv, CurrentInv, Depth = 0, Tick
  PROVE  CurrentInv' /\ Phase' = "enter"
<1>1. cpu \in Threads /\ act \in [Threads -> Seq(Frames)] /\ act[cpu] = <<>>
  BY DEF TypeInv, TypeOK, CpuTypeOK, Depth
<1>2. /\ act'[cpu] = <<Frame("enter")>> /\ \A t \in Threads \ {cpu} : act'[t] = act[t]
      /\ UNCHANGED <<cpu, running, head, context, state, obj, pc>>
  BY <1>1 DEF Tick, PushSchedule
<1>3. Phase = "code" /\ Phase' = "enter" /\ Depth' = 1
  <2>1. Len(act'[cpu]) = 1 /\ act'[cpu][1] = Frame("enter")
    BY <1>2
  <2>2. Depth' = 1 /\ Top' = Frame("enter")
    BY <1>2, <2>1 DEF Depth, Top
  <2>. QED
    BY <2>2 DEF Phase, Frame
<1>4. OneActivation' /\ OwnContexts'
  BY <1>2, <1>3 DEF CurrentInv, OneActivation, OwnContexts
<1>5. Newborns' /\ Unborn' /\ Spinning'
  BY <1>2 DEF CurrentInv, Newborns, Unborn, Spinning
<1>6. Current' /\ RunningState' /\ Picked'
  BY <1>2, <1>3 DEF CurrentInv, Current, RunningState, Picked
<1>. QED
  BY <1>3, <1>4, <1>5, <1>6 DEF CurrentInv

LEMMA CreateEnterCurrent ==
  ASSUME TypeInv, CurrentInv, NEW w \in Workers, NEW u \in Uninit, pthread_create_Enter(w, u)
  PROVE  CurrentInv'
<1>. USE DEF TypeInv, TypeOK, CurrentInv
<1>0. /\ cpu \in Threads /\ Main \in Threads /\ Workers \subseteq Threads
  BY DEF CpuTypeOK, Threads
<1>2. /\ Depth = 0 /\ state[w] = "ABSENT" /\ pc[cpu] = "user"
      /\ state' = [state EXCEPT ![w] = FreshState(u)]
      /\ obj' = [obj EXCEPT ![cpu] = w] /\ Goto("c_head")
      /\ UNCHANGED <<cpu, act, head, running, gCurrent, context>>
  BY DEF pthread_create_Enter, Calling, InBase
<1>3. w # cpu /\ context[w] = NoContext /\ w \in Threads /\ pc[w] # "x_spin"
  BY <1>2, <1>0 DEF Unborn, Spinning
<1>4. state'[w] # "ABSENT" /\ state'[w] # "RUNNING"
      /\ \A t \in Threads \ {w} : state'[t] = state[t]
  BY <1>2, <1>3, FreshTypes DEF LibTypeOK
<1>5. Phase = "code" /\ Phase' = "code" /\ Depth' = 0
  BY <1>2 DEF Phase, Depth
<1>6. OneActivation' /\ OwnContexts'
  BY <1>2, <1>5 DEF OneActivation, OwnContexts
<1>7. \A t \in Threads : pc[t] \in CreatePoints => obj[t] # w
  BY <1>2 DEF Newborns
<1>8. \A t \in Threads \ {cpu} : pc'[t] = pc[t] /\ obj'[t] = obj[t]
  BY <1>2 DEF CpuTypeOK, Goto
<1>9. pc'[cpu] = "c_head" /\ obj'[cpu] = w
  BY <1>2, <1>0 DEF CpuTypeOK, Goto
<1>10. \A t \in Threads : pc[t] \in CreatePoints => obj[t] \in Threads
  BY <1>0 DEF LocalsShape
<1>11. Newborns'
  <2>1. ASSUME NEW t \in Threads, pc'[t] \in CreatePoints
        PROVE  /\ obj'[t] # cpu /\ context[obj'[t]] = NoContext /\ state'[obj'[t]] # "ABSENT"
               /\ pc'[obj'[t]] # "x_spin"
    <3>1. CASE t = cpu
      BY <1>3, <1>4, <1>8, <1>9, <3>1
    <3>2. CASE t # cpu
      <4>1. /\ pc[t] \in CreatePoints /\ obj'[t] = obj[t] /\ obj[t] \in Threads /\ obj[t] # w
        BY <1>7, <1>8, <1>10, <2>1, <3>2
      <4>2. obj[t] # cpu /\ context[obj[t]] = NoContext /\ state[obj[t]] # "ABSENT"
            /\ pc[obj[t]] # "x_spin"
        BY <4>1 DEF Newborns
      <4>. QED
        BY <1>4, <1>8, <4>1, <4>2
    <3>. QED
      BY <3>1, <3>2
  <2>2. ASSUME NEW t \in Threads, NEW v \in Threads,
               pc'[t] \in CreatePoints, pc'[v] \in CreatePoints, obj'[v] = obj'[t]
        PROVE  v = t
    BY <1>7, <1>8, <1>9, <2>2 DEF Newborns
  <2>. QED
    BY <1>2, <2>1, <2>2 DEF Newborns
<1>12. Unborn'
  BY <1>2, <1>4, <1>0 DEF Unborn
<1>13. Current' /\ RunningState' /\ Picked'
  BY <1>2, <1>4, <1>5 DEF Current, RunningState, Picked
<1>14. Spinning'
  BY <1>2, <1>3, <1>4, <1>8, <1>9 DEF Spinning
<1>. QED
  BY <1>6, <1>11, <1>12, <1>13, <1>14

LEMMA CreateFirstCurrent ==
  ASSUME TypeInv, CurrentInv, pthread_create_First
  PROVE  CurrentInv'
<1>. USE DEF TypeInv, TypeOK, CurrentInv
<1>0. /\ cpu \in Threads /\ Main \in Threads /\ Workers \subseteq Threads /\ Main # NULL
  BY DEF CpuTypeOK, Threads
<1>2. /\ Depth = 0 /\ head = NULL /\ pc[cpu] = "c_head" /\ cpu = Main
      /\ head' = Main /\ running' = Main
      /\ state' = [state EXCEPT ![Main] = "RUNNING"]
      /\ Goto("c_fill") /\ UNCHANGED <<cpu, act, obj, context>>
  BY DEF pthread_create_First, InBase, HeadShape
<1>3. Phase' = "code" /\ Depth' = 0
  BY <1>2 DEF Phase, Depth
<1>4. OneActivation' /\ OwnContexts'
  BY <1>2, <1>3 DEF OneActivation, OwnContexts
<1>5. \A t \in Threads : pc[t] \in CreatePoints => obj[t] \in Workers
  BY DEF LocalsShape
<1>6. /\ \A t \in Threads : pc'[t] \in CreatePoints => pc[t] \in CreatePoints
      /\ \A t \in Threads : pc'[t] = "x_spin" => pc[t] = "x_spin"
  BY <1>2 DEF CpuTypeOK, Goto, CreatePoints
<1>7. \A t \in Threads \ {Main} : state'[t] = state[t]
  BY <1>2 DEF LibTypeOK
<1>8. Newborns' /\ Unborn'
  BY <1>2, <1>5, <1>6, <1>7, <1>0 DEF Newborns, Unborn
<1>9. Current' /\ RunningState' /\ Picked'
  BY <1>2, <1>3, <1>7, <1>0 DEF Current, RunningState, Picked, LibTypeOK
<1>10. Spinning'
  BY <1>2, <1>6 DEF Spinning
<1>. QED
  BY <1>4, <1>8, <1>9, <1>10

LEMMA CreateContextCurrent ==
  ASSUME TypeInv, CurrentInv, pthread_create_Context
  PROVE  CurrentInv'
<1>. USE DEF TypeInv, TypeOK, CurrentInv
<1>0. /\ cpu \in Threads /\ Workers \subseteq Threads
  BY DEF CpuTypeOK, Threads
<1>1. /\ Depth = 0 /\ pc[cpu] = "c_context" /\ Goto("user")
      /\ context' = [context EXCEPT ![obj[cpu]] = [owner |-> obj[cpu], depth |-> 1]]
      /\ UNCHANGED <<cpu, act, obj, head, running, state>>
  BY DEF pthread_create_Context, InBase
<1>2. Phase = "code" /\ Phase' = "code" /\ Depth' = 0
  BY <1>1 DEF Phase, Depth
<1>3. OneActivation'
  BY <1>1, <1>2 DEF OneActivation
<1>4. OwnContexts'
  BY <1>1 DEF OwnContexts, LibTypeOK
<1>5. /\ \A t \in Threads : pc'[t] \in CreatePoints => t # cpu /\ pc[t] \in CreatePoints
      /\ \A t \in Threads : pc'[t] = "x_spin" => pc[t] = "x_spin"
  BY <1>1, <1>0 DEF CpuTypeOK, Goto, CreatePoints
<1>6. pc[cpu] \in CreatePoints
  BY <1>1 DEF CreatePoints
<1>7. \A t \in Threads : t # obj[cpu] => context'[t] = context[t]
  BY <1>1 DEF LibTypeOK
<1>8. Newborns'
  BY <1>1, <1>5, <1>6, <1>7, <1>0 DEF Newborns, LocalsShape
<1>9. Unborn' /\ Spinning'
  BY <1>1, <1>5, <1>6, <1>7, <1>0 DEF Unborn, Newborns, Spinning
<1>10. Current' /\ RunningState' /\ Picked'
  BY <1>1, <1>2 DEF Current, RunningState, Picked
<1>. QED
  BY <1>3, <1>4, <1>8, <1>9, <1>10

LEMMA CreateCurrent ==
  ASSUME TypeInv, CurrentInv, pthread_create
  PROVE  CurrentInv'
<1>. USE DEF TypeInv, TypeOK
<1>1. CASE CreateStore /\ ~pthread_create_Context
  <2>1. /\ cpu \in Threads /\ obj[cpu] \in Threads /\ Depth = 0 /\ pc[cpu] \in CreatePoints
        /\ UNCHANGED <<status, masked, cpu, act, ip, obj, libVars>>
    BY <1>1, CreateStoreIs
  <2>2. /\ UNCHANGED context
        /\ state' = [state EXCEPT ![obj[cpu]] = "READY"] \/ UNCHANGED state
        /\ \E p \in CreatePoints : Goto(p)
    BY <1>1 DEF CreateStore, CreatePoints, pthread_create_Tail, pthread_create_Append, pthread_create_Next,
       pthread_create_Prev, pthread_create_Fill, pthread_create_Ready
  <2>3. \A t \in Threads : state'[t] \in {"RUNNING", "ABSENT"} => state'[t] = state[t]
    BY <2>2 DEF LibTypeOK
  <2>4. \A t \in Threads \ {cpu} : pc'[t] = pc[t]
    BY <2>2 DEF CpuTypeOK, Goto
  <2>5. /\ pc[obj[cpu]] # "x_spin" /\ pc'[cpu] # "x_spin"
        /\ \A t \in Threads : pc[t] = "x_spin" => head # NULL /\ state[t] = "TERMINATED"
    BY <2>1, <2>2 DEF CpuTypeOK, Goto, CreatePoints, CurrentInv, Newborns, Spinning
  <2>6. \A t \in Threads : pc'[t] = "x_spin" => head # NULL /\ state'[t] = "TERMINATED"
    BY <2>1, <2>2, <2>4, <2>5 DEF LibTypeOK
  <2>. QED
    BY <2>1, <2>2, <2>3, <2>4, <2>6, CodeStep
<1>2. CASE \E w \in Workers : pthread_create_NoMemory(w)
  <2>1. /\ Depth = 0 /\ UNCHANGED <<cpu, act, running, head, context, state, pc, obj>>
    BY <1>2 DEF Calling, InBase, pthread_create_NoMemory
  <2>. QED
    BY <2>1, CodeStep DEF CurrentInv, Spinning
<1>3. CASE pthread_create_Fault
  BY <1>3 DEF pthread_create_Fault, Fault, CurrentInv, OneActivation, OwnContexts, Newborns,
     Unborn, Current, RunningState, Picked, Spinning, Phase, Depth, Top
<1>. QED
  BY <1>1, <1>2, <1>3, CreateEnterCurrent, CreateFirstCurrent, CreateContextCurrent
  DEF pthread_create, CreateStore

LEMMA ExitCurrent ==
  ASSUME TypeInv, CurrentInv, pthread_exit
  PROVE  CurrentInv'
<1>. USE DEF TypeInv, TypeOK
<1>1. /\ Depth = 0 /\ cpu \in Threads /\ head # NULL /\ running = cpu
      /\ UNCHANGED <<cpu, act, running, head, context, obj>> /\ Goto("x_spin")
      /\ state' = [state EXCEPT ![running] = "TERMINATED"]
  <2>1. cpu \in Threads /\ head # NULL
    BY ExitType DEF Threads
  <2>2. Depth = 0 /\ running = cpu
    BY <2>1 DEF pthread_exit, InBase, Calling, CurrentInv, Current, Phase
  <2>. QED
    BY <2>1, <2>2 DEF pthread_exit
<1>2. \A t \in Threads : state'[t] \in {"RUNNING", "ABSENT"} => state'[t] = state[t]
  BY <1>1 DEF LibTypeOK
<1>3. pc'[cpu] = "x_spin" /\ \A t \in Threads \ {cpu} : pc'[t] = pc[t]
  BY <1>1 DEF CpuTypeOK, Goto
<1>4. \A t \in Threads : pc'[t] = "x_spin" => head # NULL /\ state'[t] = "TERMINATED"
  BY <1>1, <1>3 DEF LibTypeOK, CurrentInv, Spinning
<1>. QED
  BY <1>1, <1>2, <1>3, <1>4, CodeStep DEF CreatePoints

LEMMA SetTopPhase ==
  ASSUME TypeInv, OneActivation, Depth > 0, UNCHANGED cpu, NEW f, SetTop(f)
  PROVE  Phase' = f.at /\ Top' = f /\ OneActivation' /\ Depth' = 1
<1>. DEFINE S == Frames \cup {f}
<1>1. /\ act \in [Threads -> Seq(Frames)] /\ cpu \in Threads
      /\ act[cpu] \in Seq(S) /\ Depth = 1 /\ Len(act[cpu]) = 1
  <2>1. /\ act \in [Threads -> Seq(Frames)] /\ cpu \in Threads
        /\ act[cpu] \in Seq(Frames)
    BY DEF TypeInv, TypeOK, CpuTypeOK
  <2>2. Depth = 1
    BY DEF OneActivation
  <2>3. act[cpu] \in Seq(S)
    BY <2>1
  <2>. QED
    BY <2>1, <2>2, <2>3 DEF Depth
<1>2. /\ [act[cpu] EXCEPT ![1] = f] \in Seq(S)
      /\ Len([act[cpu] EXCEPT ![1] = f]) = 1
      /\ [act[cpu] EXCEPT ![1] = f][1] = f
  <2>1. f \in S
    OBVIOUS
  <2>. HIDE DEF S
  <2>2. 1 \in 1..Len(act[cpu])
    BY <1>1
  <2>3. /\ [act[cpu] EXCEPT ![1] = f] \in Seq(S)
        /\ Len([act[cpu] EXCEPT ![1] = f]) = Len(act[cpu])
    <3>1. \A s \in Seq(S) : \A i \in 1..Len(s) :
            /\ [s EXCEPT ![i] = f] \in Seq(S)
            /\ Len([s EXCEPT ![i] = f]) = Len(s)
      BY <2>1, ReplaceTop
    <3>2. act[cpu] \in Seq(S)
      BY <1>1
    <3>. QED
      BY <2>2, <3>1, <3>2, Zenon
  <2>4. [act[cpu] EXCEPT ![1] = f][1] = f
    BY <1>1, <2>2
  <2>. QED
    BY <1>1, <2>3, <2>4
<1>3. /\ act'[cpu] = [act[cpu] EXCEPT ![1] = f]
      /\ \A t \in Threads \ {cpu} : act'[t] = act[t]
  BY <1>1 DEF SetTop
<1>4. Depth' = 1 /\ Top' = f
  BY <1>2, <1>3 DEF Depth, Top
<1>. QED
  BY <1>3, <1>4 DEF Phase, OneActivation

LEMMA InScheduleIs ==
  ASSUME TypeInv, CurrentInv, NEW p, InSchedule(p)
  PROVE  /\ Depth > 0 /\ Depth = 1 /\ Phase = p /\ Top.at = p /\ head # NULL /\ status = "up"
         /\ running \in Threads /\ cpu \in Threads /\ Top \in Frames
         /\ Workers \subseteq Threads
         /\ p # "jump" => running = cpu
         /\ p \in {"take", "install"} => Top.ptr \in Threads
         /\ p = "jump" => Top.ptr = running
<1>1. /\ Depth > 0 /\ Depth = 1 /\ Phase = p /\ Top.at = p /\ head # NULL /\ status = "up"
      /\ running \in Threads /\ cpu \in Threads /\ Workers \subseteq Threads
  BY DEF InSchedule, Phase, Depth, HeadShape, LibTypeOK, CpuTypeOK, Threads, TypeInv, TypeOK,
     CurrentInv, OneActivation
<1>2. Top \in Frames
  BY <1>1, TopType DEF TypeInv, TypeOK
<1>. QED
  BY <1>1, <1>2 DEF CurrentInv, Current, Frames

(* Without nested ticks a jump uses up the jmp_buf it goes through, and no *)
(* other thread's.                                                         *)
LEMMA JumpClears ==
  ASSUME TypeInv, CurrentInv, schedule_Jump
  PROVE  context' = [context EXCEPT ![running] = NoContext]
<1>. DEFINE c == context[Top.ptr]
<1>1. /\ c.owner \in Threads /\ running = Top.ptr /\ running \in Threads
      /\ context' = [t \in Threads |->
            IF context[t].owner = c.owner /\ context[t].depth >= c.depth
            THEN NoContext ELSE context[t]]
  BY InScheduleIs DEF schedule_Jump, Resumable
<1>2. c # NoContext
  BY <1>1 DEF NoContext, Threads
<1>3. c = [owner |-> running, depth |-> 1]
  BY <1>1, <1>2 DEF CurrentInv, OwnContexts
<1>4. ASSUME NEW t \in Threads
      PROVE  context[t].owner = running /\ context[t].depth >= 1 <=> t = running
  <2>1. CASE context[t] = NoContext
    BY <1>1, <1>2, <2>1 DEF NoContext, Threads
  <2>2. CASE context[t] = [owner |-> t, depth |-> 1]
    BY <1>1, <1>3, <2>2
  <2>. QED
    BY <2>1, <2>2 DEF CurrentInv, OwnContexts
<1>5. c.owner = running /\ c.depth = 1
  BY <1>3
<1>6. context' = [t \in Threads |-> IF t = running THEN NoContext ELSE context[t]]
  <2>. HIDE DEF c
  <2>. QED
    BY <1>1, <1>4, <1>5
<1>. QED
  BY <1>1, <1>6 DEF TypeInv, TypeOK, LibTypeOK

LEMMA ScheduleCurrent ==
  ASSUME TypeInv, CurrentInv, schedule(Saved)
  PROVE  CurrentInv'
<1>. USE DEF TypeInv, TypeOK, CurrentInv
<1>1. CASE schedule_Fault
  BY <1>1 DEF schedule_Fault, Fault, OneActivation, OwnContexts, Newborns, Unborn,
     Current, RunningState, Picked, Spinning, Phase, Depth, Top
<1>2. ASSUME NEW p, InSchedule(p)
      PROVE  /\ Depth > 0 /\ Depth = 1 /\ Phase = p /\ Top.at = p /\ head # NULL
             /\ running \in Threads /\ cpu \in Threads /\ Top \in Frames
             /\ Workers \subseteq Threads
             /\ p # "jump" => running = cpu
             /\ p \in {"take", "install"} => Top.ptr \in Threads
             /\ p = "jump" => Top.ptr = running
  BY <1>2, InScheduleIs
<1>3. CASE schedule_Enter(Saved)
  <2>1. /\ Phase = "enter" /\ running = cpu /\ Depth > 0
        /\ UNCHANGED <<cpu, pc, obj, running, head, context>>
        /\ \E p \in {"save", "look"} : SetTop(Frame(p))
        /\ running \in Threads /\ head # NULL
    BY <1>2, <1>3 DEF schedule_Enter
  <2>2. /\ \A t \in Threads \ {running} : state'[t] = state[t]
        /\ state'[running] # "RUNNING"
        /\ state'[running] = state[running] \/ state[running] = "RUNNING"
        /\ state'[running] # "ABSENT" \/ state[running] = "ABSENT"
    BY <1>3, <2>1 DEF schedule_Enter, LibTypeOK, Saved
  <2>3. OneActivation' /\ Phase' \in {"save", "look"}
    BY <2>1, SetTopPhase DEF Frame
  <2>4. OwnContexts' /\ Newborns' /\ Unborn'
    <3>1. OwnContexts'
      BY <2>1 DEF OwnContexts
    <3>2. \A t \in Threads : state'[t] = state[t] \/ (t = running /\ state[t] = "RUNNING")
      BY <2>1, <2>2
    <3>3. Newborns'
      <4>1. \A t \in Threads : state'[t] = "ABSENT" => state[t] = "ABSENT"
        BY <2>1, <2>2
      <4>2. \A t \in Threads : pc[t] \in CreatePoints => obj[t] \in Threads
        BY DEF LocalsShape, Threads
      <4>3. UNCHANGED <<cpu, pc, obj, context>>
        BY <2>1
      <4>. QED
        BY <4>1, <4>2, <4>3 DEF Newborns
    <3>4. Unborn'
      BY <2>1, <2>2, <3>2 DEF Unborn, LocalsShape, Threads
    <3>. QED
      BY <3>1, <3>3, <3>4
  <2>5. Current' /\ RunningState' /\ Picked'
    BY <2>1, <2>2, <2>3 DEF Current, RunningState, Picked
  <2>6. Spinning'
    BY <2>1, <2>2 DEF Spinning
  <2>. QED
    BY <2>3, <2>4, <2>5, <2>6
<1>4. CASE schedule_Save
  <2>1. /\ Phase = "save" /\ running = cpu /\ Depth > 0
        /\ UNCHANGED <<cpu, pc, obj, running, head, state>>
        /\ context' = [context EXCEPT ![running] = [owner |-> cpu, depth |-> 1]]
        /\ SetTop(Frame("look")) /\ cpu \in Threads /\ head # NULL
    <3>1. /\ Phase = "save" /\ running = cpu /\ Depth = 1 /\ Depth > 0
          /\ cpu \in Threads /\ head # NULL
      BY <1>2, <1>4 DEF schedule_Save
    <3>2. context' = [context EXCEPT ![running] = [owner |-> cpu, depth |-> Depth]]
      BY <1>4 DEF schedule_Save
    <3>. QED
      BY <1>4, <3>1, <3>2 DEF schedule_Save
  <2>2. OneActivation' /\ Phase' = "look"
    BY <2>1, SetTopPhase DEF Frame
  <2>3. OwnContexts' /\ \A t \in Threads \ {cpu} : context'[t] = context[t]
    BY <2>1 DEF OwnContexts, LibTypeOK
  <2>4. Newborns' /\ Unborn' /\ Spinning'
    BY <2>1, <2>3 DEF Newborns, Unborn, LocalsShape, Threads, Spinning
  <2>5. Current' /\ RunningState' /\ Picked'
    BY <2>1, <2>2 DEF Current, RunningState, Picked
  <2>. QED
    BY <2>2, <2>3, <2>4, <2>5
<1>5. CASE schedule_Look \/ schedule_Scan
  <2>1. /\ Phase \in {"look", "scan"} /\ running = cpu /\ Depth > 0
        /\ UNCHANGED <<cpu, pc, obj, running, head, context, state>>
        /\ \/ UNCHANGED act
           \/ \E f : /\ SetTop(f) /\ f.at \in {"scan", "take"}
                     /\ f.at = "take" => state[f.ptr] = "READY"
    <3>1. CASE schedule_Look
      BY <1>2, <3>1 DEF schedule_Look
    <3>2. CASE schedule_Scan
      <4>1. /\ [Top EXCEPT !.at = "take"].at = "take"
            /\ [Top EXCEPT !.at = "take"].ptr = Top.ptr
            /\ [Top EXCEPT !.ptr = next[Top.ptr]].at = "scan"
        BY <1>2, <3>2 DEF schedule_Scan, Frames
      <4>2. /\ Phase = "scan" /\ running = cpu /\ Depth > 0
            /\ UNCHANGED <<cpu, pc, obj, running, head, context, state>>
        BY <1>2, <3>2 DEF schedule_Scan
      <4>3. \/ UNCHANGED act
            \/ SetTop([Top EXCEPT !.at = "take"]) /\ state[Top.ptr] = "READY"
            \/ SetTop([Top EXCEPT !.ptr = next[Top.ptr]])
        BY <3>2 DEF schedule_Scan
      <4>. QED
        BY <4>1, <4>2, <4>3
    <3>. QED
      BY <1>5, <3>1, <3>2
  <2>2. /\ OneActivation' /\ Phase' \in {"look", "scan", "take"}
        /\ Phase' = "take" => state[Top'.ptr] = "READY"
    BY <2>1, SetTopPhase DEF OneActivation, Phase, Depth, Top
  <2>3. OwnContexts' /\ Newborns' /\ Unborn' /\ Spinning'
    BY <2>1 DEF OwnContexts, Newborns, Unborn, Spinning
  <2>4. Current' /\ RunningState' /\ Picked'
    BY <2>1, <2>2 DEF Current, RunningState, Picked
  <2>. QED
    BY <2>2, <2>3, <2>4
<1>6. CASE schedule_Take \/ schedule_Install
  <2>1. /\ Phase \in {"take", "install"} /\ Depth > 0 /\ head # NULL /\ Top.ptr \in Threads
        /\ Phase = "take" => running = cpu /\ running' = running
        /\ Phase = "install" => running' = Top.ptr
        /\ state' = [state EXCEPT ![Top.ptr] = "RUNNING"]
        /\ UNCHANGED <<cpu, pc, obj, head, context>>
        /\ state[Top.ptr] \in {"READY", "RUNNING"}
    BY <1>2, <1>6 DEF schedule_Take, schedule_Install, Picked
  <2>2. PICK p \in {"install", "jump"} :
          /\ SetTop([Top EXCEPT !.at = p]) /\ Top \in Frames
          /\ Phase = "take" <=> p = "install"
    BY <1>2, <1>6 DEF schedule_Take, schedule_Install
  <2>3. [Top EXCEPT !.at = p].at = p /\ [Top EXCEPT !.at = p].ptr = Top.ptr
    BY <2>2 DEF Frames
  <2>4. OneActivation' /\ Phase' = p /\ Top'.ptr = Top.ptr
    BY <2>1, <2>2, <2>3, SetTopPhase
  <2>5. /\ \A t \in Threads \ {Top.ptr} : state'[t] = state[t]
        /\ state'[Top.ptr] = "RUNNING"
    BY <2>1 DEF LibTypeOK
  <2>6. OwnContexts' /\ Newborns' /\ Unborn' /\ Spinning'
    BY <2>1, <2>5 DEF OwnContexts, Newborns, Unborn, LocalsShape, Threads, Spinning
  <2>7. Current' /\ RunningState' /\ Picked'
    BY <2>1, <2>2, <2>4, <2>5 DEF Current, RunningState, Picked
  <2>. QED
    BY <2>4, <2>6, <2>7
<1>8. CASE schedule_Jump
  <2>. DEFINE c == context[Top.ptr]
  <2>1. /\ Phase = "jump" /\ running = Top.ptr /\ head # NULL /\ Depth = 1
        /\ running \in Threads /\ cpu \in Threads
        /\ c.owner \in Threads /\ cpu' = c.owner
        /\ act' = [act EXCEPT ![c.owner] = SubSeq(@, 1, c.depth - 1)]
        /\ context' = [context EXCEPT ![running] = NoContext]
        /\ UNCHANGED <<pc, obj, running, head, state>>
    BY <1>2, <1>8, JumpClears DEF schedule_Jump, Resumable
  <2>2. c # NoContext
    BY <2>1 DEF NoContext, Threads
  <2>3. c = [owner |-> running, depth |-> 1]
    BY <2>1, <2>2 DEF OwnContexts
  <2>4. cpu' = running /\ act' = [act EXCEPT ![running] = SubSeq(@, 1, 0)]
    BY <2>1, <2>3
  <2>5. SubSeq(act[running], 1, 0) = <<>>
    BY <2>1 DEF CpuTypeOK
  <2>6. /\ act'[running] = <<>>
        /\ \A t \in Threads \ {running} : act'[t] = act[t]
    BY <2>1, <2>4, <2>5 DEF CpuTypeOK
  <2>7. Depth' = 0 /\ Phase' = "code"
    BY <2>4, <2>6 DEF Phase, Depth
  <2>8. OneActivation'
    BY <2>1, <2>4, <2>6, <2>7 DEF OneActivation, Depth
  <2>9. OwnContexts' /\ \A t \in Threads \ {running} : context'[t] = context[t]
    BY <2>1 DEF OwnContexts, LibTypeOK
  <2>10. \A t \in Threads : pc[t] \in CreatePoints => obj[t] \in Threads /\ obj[t] # running
    BY <2>1, <2>2 DEF Newborns, LocalsShape, Threads
  <2>11. \A w \in Workers : state[w] = "ABSENT" => w # running
    BY <2>1, <2>2 DEF Unborn
  <2>12. Newborns' /\ Unborn'
    BY <2>1, <2>4, <2>9, <2>10, <2>11 DEF Newborns, Unborn, Threads
  <2>13. Current' /\ RunningState' /\ Picked' /\ Spinning'
    BY <2>1, <2>4, <2>7 DEF Current, RunningState, Picked, Spinning
  <2>. QED
    BY <2>8, <2>9, <2>12, <2>13
<1>. QED
  BY <1>1, <1>3, <1>4, <1>5, <1>6, <1>8 DEF schedule

LEMMA TickInCode ==
  ASSUME Unnested, TypeInv, Tick
  PROVE  Depth = 0
<1>1. SUFFICES ASSUME Depth # 0 PROVE FALSE
  OBVIOUS
<1>2. Depth > 0
  BY <1>1 DEF TypeInv, TypeOK, CpuTypeOK, Depth
<1>3. Point \in SchedulePoints
  BY <1>2, TopType DEF TypeInv, TypeOK, Point, Frames
<1>. QED
  BY <1>3 DEF Tick, Unnested

LEMMA CurrentStep ==
  ASSUME Unnested, TypeInv, CurrentInv, [Next]_coreVars
  PROVE  CurrentInv'
<1>1. CASE UNCHANGED <<cpuVars, tail, handle, libVars, tcbVars>>
  BY <1>1 DEF CurrentInv, OneActivation, OwnContexts, Newborns, Unborn,
     Current, RunningState, Picked, Spinning, Phase, Depth, Top
<1>2. CASE Tick
  BY <1>2, TickInCode, PushStep
<1>. QED
  BY <1>1, <1>2, CreateCurrent, ExitCurrent, ScheduleCurrent
  DEF Next, Library, Ended, MainReturns, pthread_exit_Fault, Fault

(* If no tick lands inside schedule(), a thread that has called            *)
(* pthread_exit and lost the CPU never gets it again, wherever else the    *)
(* timer ticks.                                                            *)
THEOREM ExitIsFinalThm == Unnested => (Spec => ExitIsFinal)
<1>. SUFFICES ASSUME Unnested PROVE Spec => ExitIsFinal
  OBVIOUS
<1>1. Init => TypeInv /\ CurrentInv
  BY TypeInit, CurrentInit
<1>2. TypeInv /\ CurrentInv /\ [Next]_coreVars => TypeInv' /\ CurrentInv'
  BY TypeStep, CurrentStep
<1>3. TypeInv /\ CurrentInv /\ [Next]_coreVars =>
        [\A t \in Threads : pc[t] = "x_spin" /\ cpu # t => cpu' # t]_coreVars
  <2>1. SUFFICES ASSUME TypeInv, CurrentInv, Next,
                        NEW t \in Threads, pc[t] = "x_spin", cpu # t, cpu' = t
                 PROVE  FALSE
    OBVIOUS
  <2>2. schedule_Jump
    <3>1. CASE CreateStore
      BY <2>1, <3>1, CreateStoreIs
    <3>2. CASE schedule(Saved)
      BY <2>1, <3>2 DEF schedule, schedule_Enter, schedule_Save, schedule_Look, schedule_Scan,
         schedule_Take, schedule_Install, schedule_Fault, Fault
    <3>. QED
      BY <2>1, <3>1, <3>2 DEF Next, Library, Tick, Ended, pthread_create, CreateStore,
         pthread_create_Enter, pthread_create_NoMemory, pthread_create_First,
         pthread_create_Fault, pthread_exit, pthread_exit_Fault, MainReturns, Fault
  <2>. DEFINE c == context[Top.ptr]
  <2>3. /\ Phase = "jump" /\ Top.ptr \in Threads /\ c.owner \in Threads /\ cpu' = c.owner
    BY <2>1, <2>2, InScheduleIs DEF schedule_Jump, Resumable
  <2>4. c.owner = Top.ptr
    <3>1. c = NoContext \/ c = [owner |-> Top.ptr, depth |-> 1]
      BY <2>1, <2>3 DEF CurrentInv, OwnContexts
    <3>2. c # NoContext
      BY <2>3 DEF NoContext, Threads
    <3>. QED
      BY <3>1, <3>2
  <2>5. state[t] = "RUNNING"
    BY <2>1, <2>3, <2>4 DEF CurrentInv, Picked
  <2>. QED
    BY <2>1, <2>5 DEF CurrentInv, Spinning
<1>. QED
  BY <1>1, <1>2, <1>3, PTL DEF Spec, ExitIsFinal


-----------------------------------------------------------------------------
(* The turns.  Ticks may land in pthread_create where the tcb is either not*)
(* linked or linked both ways, and passed over by the search: see Orderly. *)
WholeCreates == TickAt \cap CreatePoints = {}

MayCreate(t) ==
  \E i \in 1..Len(Program[t]) : \E w \in Workers : [op |-> "create", arg |-> w] \in Program[t][i]

SoleCreator ==
  /\ TickAt \cap {"c_next", "c_context"} = {}
  /\ Uninit = {Junk}
  /\ \A t, u \in Threads : MayCreate(t) /\ MayCreate(u) => t = u

Orderly == Unnested /\ (WholeCreates \/ SoleCreator)

(* Who creates, and how far it may get before it loses the CPU.            *)
Creating(t) == pc[t] \in CreatePoints

Creators ==
  \A t \in Threads : Creating(t) =>
    /\ MayCreate(t)
    /\ WholeCreates => t = cpu /\ Phase = "code"
    /\ \/ t = cpu /\ Phase = "code"
       \/ pc[t] \notin {"c_next", "c_context"}
    /\ SoleCreator /\ pc[t] # "c_context" => state[obj[t]] = Junk

(* Everybody's next call is one of the program's, or past its end.         *)
Begun == \A t \in Threads : ip[t] > 0

(* What a tcb's state can be once it is created.                           *)
Kinds ==
  /\ \A t \in Created : state[t] \in {"READY", "RUNNING", "TERMINATED"}
  /\ IF head = NULL THEN Created = {} ELSE Main \in Created

(* The thread whose code runs is RUNNING until it has called pthread_exit. *)
TurnState ==
  head # NULL /\ Phase = "code" => state[cpu] = "RUNNING" \/ pc[cpu] = "x_spin"

(* A READY thread can be resumed.                                          *)
ReadyContexts ==
  /\ \A t \in Threads : state[t] = "READY" =>
       \/ context[t] # NoContext
       \/ t = running /\ Phase = "save"
       \/ \E u \in Threads : Creating(u) /\ obj[u] = t
  /\ Phase \in {"install", "jump"} => context[Top.ptr] # NoContext

(* r lists the ring; a tcb that is being linked comes after its last one.  *)
Distinct(r) == \A i, j \in 1..Len(r) : r[i] = r[j] => i = j

Appended == {"c_next", "c_prev", "c_fill", "c_ready"}

RingEnd(last) ==
  /\ \A t \in Threads : pc[t] \in Appended => next[last] = obj[t]
  /\ (\A t \in Threads : pc[t] \notin Appended) => next[last] = Main
  /\ \A t \in Threads : pc[t] \in Appended \ {"c_next"} => next[obj[t]] = Main
  /\ \A t \in Threads : pc[t] \in {"c_fill", "c_ready"} => prev[Main] = obj[t]
  /\ (\A t \in Threads : pc[t] \notin {"c_fill", "c_ready"}) => prev[Main] = last
  /\ \A t \in Threads : pc[t] = "c_tail" => tail[t] = last

IsRing(r) ==
  /\ Len(r) > 0 /\ r[1] = Main
  /\ Distinct(r)
  /\ \A t \in Threads : t \in Created <=> \E i \in 1..Len(r) : r[i] = t
  /\ \A i \in 1..Len(r) - 1 : next[r[i]] = r[i + 1]
  /\ RingEnd(r[Len(r)])

Ring == head # NULL => \E r \in Seq(Threads) : IsRing(r)

(* The ring as schedule() walks it: with a tcb that it cannot pick.        *)
IsLoop(e, r) ==
  /\ Len(e) = Len(r) \/ (Len(e) = Len(r) + 1 /\ state[e[Len(e)]] = Junk)
  /\ \A i \in 1..Len(r) : e[i] = r[i]
  /\ Distinct(e)
  /\ \A i \in 1..Len(e) : next[e[i]] = IF i = Len(e) THEN e[1] ELSE e[i + 1]

(* From place p around the loop, place i comes before place j.             *)
Sooner(i, j, p) == IF j > p THEN p < i /\ i < j ELSE p < i \/ i < j

(* The search has come to place i of e without meeting a READY thread.     *)
SearchAt(e, i, p) ==
  /\ e[p] = running /\ e[i] = Top.ptr
  /\ Phase = "scan" => Top.end = next[running]
  /\ \A j \in 1..Len(e) : Sooner(j, i, p) => state[e[j]] # "READY"

Scanning ==
  Phase \in {"scan", "take", "install"} =>
    \E r, e \in Seq(Threads) :
      /\ IsRing(r) /\ IsLoop(e, r)
      /\ \E i \in 1..Len(e) : \E p \in 1..Len(r) : SearchAt(e, i, p)

TurnInv ==
  /\ Creators /\ Begun /\ Kinds /\ TurnState /\ ReadyContexts
  /\ Ring /\ Scanning

(* Order lists the ring.                                                   *)
OrderInv == head # NULL => \A r \in Seq(Threads) : IsRing(r) => Order = r

-----------------------------------------------------------------------------
(* Sequences of threads, and the follower of a place among them.           *)
LEMMA MinIsIn ==
  ASSUME NEW S \in SUBSET Nat, S # {}
  PROVE  Min(S) \in S /\ \A y \in S : Min(S) <= y
<1>1. IsWellFoundedOn(OpToRel(<, Nat), Nat)
  BY NatLessThanWellFounded, Zenon
<1>2. PICK x \in S : \A y \in S : ~(<<y, x>> \in OpToRel(<, Nat))
  BY <1>1, WFMin, Zenon
<1>3. \A y \in S : x <= y
  <2>1. SUFFICES ASSUME NEW y \in S, ~(x <= y) PROVE FALSE
    OBVIOUS
  <2>2. <<y, x>> \in OpToRel(<, Nat)
    <3>1. y < x /\ x \in Nat /\ y \in Nat
      BY <2>1
    <3>. QED
      BY <3>1, Zenon DEF OpToRel
  <2>. QED
    BY <1>2, <2>2
<1>. QED
  BY <1>3 DEF Min

(* A walk along next that starts at head: RingNode is one, as one exists.  *)
IsWalk(p, n) ==
  p = [i \in 0..n |-> IF i = 0 THEN head
                      ELSE IF p[i-1] \in Threads THEN next[p[i-1]] ELSE p[i-1]]

LEMMA WalkExists ==
  ASSUME NEW n \in Nat
  PROVE  \E p : IsWalk(p, n)
<1>. DEFINE Bad == {i \in Nat : ~\E p : IsWalk(p, i)}
<1>1. SUFFICES ASSUME Bad # {} PROVE FALSE
  OBVIOUS
<1>. DEFINE m == Min(Bad)
<1>2. m \in Bad /\ \A k \in Bad : m <= k
  <2>. HIDE DEF Bad
  <2>1. Bad \in SUBSET Nat
    BY DEF Bad
  <2>. QED
    BY <1>1, <2>1, MinIsIn
<1>. HIDE DEF m
<1>3. m # 0
  <2>. DEFINE z == [i \in 0..0 |-> head]
  <2>1. z = [i \in 0..0 |-> IF i = 0 THEN head
                            ELSE IF z[i-1] \in Threads THEN next[z[i-1]] ELSE z[i-1]]
    OBVIOUS
  <2>. HIDE DEF z
  <2>2. IsWalk(z, 0)
    BY <2>1 DEF IsWalk
  <2>. QED
    BY <1>2, <2>2
<1>4. m - 1 \in Nat /\ m \in Nat /\ m - 1 \notin Bad
  BY <1>2, <1>3
<1>5. PICK p : IsWalk(p, m - 1)
  BY <1>4
<1>. DEFINE e == IF p[m-1] \in Threads THEN next[p[m-1]] ELSE p[m-1]
            w == [i \in 0..m |-> IF i < m THEN p[i] ELSE e]
<1>6. \A i \in 0..(m - 1) : p[i] = IF i = 0 THEN head
                                   ELSE IF p[i-1] \in Threads THEN next[p[i-1]] ELSE p[i-1]
  BY <1>5, Zenon DEF IsWalk
<1>7. ASSUME NEW i \in 0..m
      PROVE  w[i] = IF i = 0 THEN head ELSE IF w[i-1] \in Threads THEN next[w[i-1]] ELSE w[i-1]
  <2>1. CASE i < m
    <3>1. i \in 0..(m - 1) /\ w[i] = p[i] /\ (i # 0 => i - 1 \in 0..m /\ i - 1 < m)
      BY <1>4, <2>1
    <3>2. i # 0 => w[i-1] = p[i-1]
      BY <3>1
    <3>. QED
      BY <1>6, <3>1, <3>2
  <2>2. CASE i = m
    <3>1. i - 1 \in 0..m /\ i - 1 < m /\ ~(i < m) /\ i # 0
      BY <1>3, <1>4, <2>2
    <3>2. w[i] = e /\ w[i-1] = p[m-1]
      BY <2>2, <3>1
    <3>. QED
      BY <3>1, <3>2
  <2>. QED
    BY <1>4, <2>1, <2>2
<1>8. w = [i \in 0..m |-> w[i]]
  OBVIOUS
<1>9. IsWalk(w, m)
  <2>. HIDE DEF w
  <2>. QED
    BY <1>7, <1>8 DEF IsWalk
<1>. QED
  BY <1>2, <1>9

LEMMA RingWalk ==
  /\ RingNode[0] = head
  /\ \A i \in Steps \ {0} :
       RingNode[i] = IF RingNode[i-1] \in Threads THEN next[RingNode[i-1]] ELSE RingNode[i-1]
<1>1. IsFiniteSet(Threads) /\ Cardinality(Threads) \in Nat
  BY FS_AddElement, FS_CardinalityType DEF Threads
<1>2. \E p : IsWalk(p, Cardinality(Threads))
  BY <1>1, WalkExists
<1>3. IsWalk(RingNode, Cardinality(Threads))
  BY <1>2 DEF RingNode, IsWalk, Steps
<1>4. \A i \in Steps : RingNode[i] = IF i = 0 THEN head
                                ELSE IF RingNode[i-1] \in Threads THEN next[RingNode[i-1]]
                                     ELSE RingNode[i-1]
  BY <1>3, Zenon DEF IsWalk, Steps
<1>5. 0 \in Steps
  BY <1>1 DEF Steps
<1>. QED
  BY <1>4, <1>5

(* A sequence of distinct threads is as long as the set of them is big.    *)
LEMMA DistinctSize ==
  ASSUME NEW r \in Seq(Threads), Distinct(r), NEW S \in SUBSET Threads,
         \A t \in Threads : t \in S <=> \E i \in 1..Len(r) : r[i] = t
  PROVE  /\ Cardinality(S) = Len(r) /\ Len(r) <= Cardinality(Threads)
         /\ Cardinality(Threads) \in Nat
<1>1. IsFiniteSet(Threads) /\ Cardinality(Threads) \in Nat
  BY FS_AddElement, FS_CardinalityType DEF Threads
<1>2. Len(r) \in Nat /\ r \in [1..Len(r) -> Threads]
  OBVIOUS
<1>3. r \in [1..Len(r) -> S]
  BY <1>2
<1>4. r \in Surjection(1..Len(r), S)
  BY <1>3, Zenon DEF Surjection
<1>5. r \in Injection(1..Len(r), S)
  BY <1>3, Zenon DEF Injection, IsInjective, Distinct
<1>6. IsFiniteSet(1..Len(r)) /\ Cardinality(1..Len(r)) = Len(r)
  <2>1. 1 \in Int /\ Len(r) \in Int
    BY <1>2
  <2>2. /\ IsFiniteSet(1..Len(r))
        /\ Cardinality(1..Len(r)) = IF 1 > Len(r) THEN 0 ELSE Len(r) - 1 + 1
    BY <2>1, FS_Interval
  <2>. QED
    BY <1>2, <2>2
<1>7. Cardinality(S) = Cardinality(1..Len(r))
  BY <1>4, <1>5, <1>6, FS_Surjection
<1>8. Cardinality(S) <= Cardinality(Threads)
  BY <1>1, FS_Subset
<1>. QED
  BY <1>1, <1>6, <1>7, <1>8

LEMMA OrderCorrect == TypeInv => OrderInv
<1>. SUFFICES ASSUME TypeInv, head # NULL, NEW r \in Seq(Threads), IsRing(r)
              PROVE  Order = r
  BY DEF OrderInv
<1>. DEFINE n == Len(r)
<1>1. /\ n \in Nat /\ \A i \in 1..n : r[i] \in Threads
      /\ n > 0 /\ r[1] = head /\ Distinct(r) /\ \A i \in 1..n - 1 : next[r[i]] = r[i + 1]
  BY DEF IsRing, TypeInv, TypeOK, LibTypeOK
<1>2. /\ Cardinality(Created) = n /\ n <= Cardinality(Threads)
      /\ Cardinality(Threads) \in Nat
  <2>1. Created \in SUBSET Threads
    BY DEF Created
  <2>2. \A t \in Threads : t \in Created <=> \E i \in 1..Len(r) : r[i] = t
    BY DEF IsRing
  <2>. HIDE DEF n
  <2>3. /\ Cardinality(Created) = Len(r) /\ Len(r) <= Cardinality(Threads)
        /\ Cardinality(Threads) \in Nat
    BY <1>1, <2>1, <2>2, DistinctSize
  <2>. QED
    BY <2>3 DEF n
<1>. DEFINE Bad == {i \in 1..n : RingNode[i-1] # r[i]}
<1>3. Bad = {}
  <2>1. SUFFICES ASSUME Bad # {} PROVE FALSE
    OBVIOUS
  <2>. DEFINE m == Min(Bad)
  <2>2. m \in Bad /\ \A k \in Bad : m <= k
    <3>. HIDE DEF Bad
    <3>1. Bad \in SUBSET Nat
      BY DEF Bad
    <3>. QED
      BY <2>1, <3>1, MinIsIn
  <2>. HIDE DEF m, n
  <2>3. m \in 1..n /\ m # 1
    BY <1>1, <2>2, RingWalk
  <2>4. m - 1 \in 1..n /\ m - 1 \in Steps \ {0} /\ m - 1 \in 1..n - 1
    <3>1. Cardinality(Threads) \in Nat /\ n <= Cardinality(Threads)
      BY <1>2 DEF n
    <3>. QED
      BY <1>1, <2>3, <3>1 DEF Steps
  <2>10. m - 1 \notin Bad
    <3>. HIDE DEF Bad
    <3>1. m - 1 < m /\ m - 1 \in Int /\ m \in Int
      BY <2>3
    <3>. QED
      BY <2>2, <3>1
  <2>5. RingNode[m - 1 - 1] = r[m - 1]
    BY <2>4, <2>10
  <2>6. RingNode[m - 1] = next[r[m - 1]]
    <3>1. r[m - 1] \in Threads
      BY <1>1, <2>4
    <3>. QED
      BY <2>4, <2>5, <3>1, RingWalk
  <2>7. next[r[m - 1]] = r[m - 1 + 1]
    BY <1>1, <2>4
  <2>8. m - 1 + 1 = m
    BY <1>1, <2>3
  <2>. QED
    BY <2>2, <2>6, <2>7, <2>8
<1>4. Order = [i \in 1..n |-> RingNode[i-1]]
  BY <1>2 DEF Order
<1>5. \A i \in 1..n : RingNode[i-1] = r[i]
  BY <1>3
<1>6. r = [i \in 1..n |-> r[i]]
  OBVIOUS
<1>. HIDE DEF n
<1>. QED
  BY <1>4, <1>5, <1>6

(* The follower of place p is the first thread of A after p.               *)
PlaceIn(o, t) == CHOOSE i \in 1..Len(o) : o[i] = t
DistanceIn(o, a, t) == 1 + ((PlaceIn(o, t) - PlaceIn(o, a) - 1) % Len(o))
FollowerIn(o, A, a) ==
  CHOOSE t \in A : \A u \in A : DistanceIn(o, a, t) <= DistanceIn(o, a, u)

LEMMA Modulus ==
  ASSUME NEW n \in Nat, n > 0, NEW p \in 1..n, NEW j \in 1..n
  PROVE  (j - p - 1) % n = IF j > p THEN j - p - 1 ELSE j - p - 1 + n
<1>1. ASSUME NEW x \in Int, 0 <= x, x < n PROVE x % n = x
  BY <1>1
<1>2. ASSUME NEW x \in Int, -n <= x, x < 0 PROVE x % n = x + n
  BY <1>2
<1>. DEFINE y == j - p - 1
<1>3. y \in Int /\ IF j > p THEN 0 <= y /\ y < n ELSE -n <= y /\ y < 0
  OBVIOUS
<1>. HIDE DEF y
<1>4. y % n = IF j > p THEN y ELSE y + n
  BY <1>1, <1>2, <1>3
<1>. QED
  BY <1>4 DEF y

LEMMA DistanceIs ==
  ASSUME NEW o \in Seq(Threads), Distinct(o), NEW p \in 1..Len(o), NEW j \in 1..Len(o)
  PROVE  DistanceIn(o, o[p], o[j]) = IF j > p THEN j - p ELSE j - p + Len(o)
<1>. DEFINE n == Len(o)
<1>1. n \in Nat /\ n > 0 /\ p \in 1..n /\ j \in 1..n
  OBVIOUS
<1>2. \A k \in 1..n : PlaceIn(o, o[k]) = k
  BY DEF PlaceIn, Distinct
<1>3. DistanceIn(o, o[p], o[j]) = 1 + ((j - p - 1) % n)
  BY <1>2 DEF DistanceIn
<1>. HIDE DEF n
<1>4. (j - p - 1) % n = IF j > p THEN j - p - 1 ELSE j - p - 1 + n
  BY <1>1, Modulus
<1>5. DistanceIn(o, o[p], o[j]) = IF j > p THEN j - p ELSE j - p + n
  BY <1>1, <1>3, <1>4
<1>. QED
  BY <1>5 DEF n

FirstOf(o, A, i, p) ==
  o[i] \in A /\ \A t \in A : \E j \in 1..Len(o) : o[j] = t /\ ~Sooner(j, i, p)

LEMMA FollowerIs ==
  ASSUME NEW o \in Seq(Threads), Distinct(o), NEW p \in 1..Len(o), NEW i \in 1..Len(o),
         NEW A, FirstOf(o, A, i, p)
  PROVE  FollowerIn(o, A, o[p]) = o[i]
<1>. USE DEF FirstOf
<1>. DEFINE D(t) == DistanceIn(o, o[p], t)
<1>1. \A j \in 1..Len(o) : D(o[j]) = IF j > p THEN j - p ELSE j - p + Len(o)
  BY DistanceIs
<1>2. Len(o) \in Nat
  OBVIOUS
<1>3. \A j \in 1..Len(o) : ~Sooner(j, i, p) =>
        D(o[i]) <= D(o[j]) /\ (D(o[j]) <= D(o[i]) => j = i)
  <2>. HIDE DEF D
  <2>1. SUFFICES ASSUME NEW j \in 1..Len(o), ~Sooner(j, i, p)
                 PROVE  D(o[i]) <= D(o[j]) /\ (D(o[j]) <= D(o[i]) => j = i)
    OBVIOUS
  <2>2. D(o[i]) = (IF i > p THEN i - p ELSE i - p + Len(o)) /\
        D(o[j]) = (IF j > p THEN j - p ELSE j - p + Len(o))
    BY <1>1
  <2>3. IF i > p THEN ~(p < j /\ j < i) ELSE ~(p < j \/ j < i)
    BY <2>1 DEF Sooner
  <2>4. i \in Int /\ j \in Int /\ p \in Int /\ 1 <= j /\ i <= Len(o) /\ j <= Len(o) /\ 1 <= i
    BY <1>2
  <2>5. CASE i > p
    <3>1. D(o[i]) = i - p
      BY <2>2, <2>5
    <3>2. CASE j > p
      BY <1>2, <2>2, <2>3, <2>4, <2>5, <3>1, <3>2
    <3>3. CASE ~(j > p)
      <4>1. D(o[j]) = j - p + Len(o)
        BY <2>2, <3>3
      <4>2. i - p <= j - p + Len(o) /\ ~(j - p + Len(o) <= i - p)
        BY <1>2, <2>4
      <4>. QED
        BY <3>1, <4>1, <4>2
    <3>. QED
      BY <3>2, <3>3
  <2>6. CASE ~(i > p)
    <3>1. D(o[i]) = i - p + Len(o) /\ D(o[j]) = j - p + Len(o)
      BY <2>2, <2>3, <2>4, <2>6
    <3>. QED
      BY <1>2, <2>3, <2>4, <2>6, <3>1
  <2>. QED
    BY <2>5, <2>6
<1>4. \A t \in A : D(o[i]) <= D(t) /\ (D(t) <= D(o[i]) => t = o[i])
  BY <1>3
<1>5. FollowerIn(o, A, o[p]) = CHOOSE t \in A : \A u \in A : D(t) <= D(u)
  BY DEF FollowerIn
<1>. HIDE DEF D
<1>. QED
  BY <1>4, <1>5

LEMMA FollowerMap ==
  ASSUME head # NULL
  PROVE  RR!Follower = FollowerIn(Order, Alive, running)
<1>. DEFINE o == IF head = NULL THEN <<Main>> ELSE Order
            A == IF head = NULL THEN {Main} ELSE Alive
            a == IF head = NULL THEN Main ELSE running
<1>1. RR!Follower = FollowerIn(o, A, a)
  BY DEF RR!Follower, RR!Distance, RR!Place, FollowerIn, DistanceIn, PlaceIn
<1>2. o = Order /\ A = Alive /\ a = running
  OBVIOUS
<1>. HIDE DEF o, A, a
<1>. QED
  BY <1>1, <1>2

-----------------------------------------------------------------------------
(* What the invariant says of the tcbs in the making.                      *)
LEMMA CreatedIs ==
  \A t \in Threads : t \in Created <=>
    /\ state[t] # "ABSENT"
    /\ \A u \in Threads : pc[u] \in CreatePoints \ {"c_context"} => obj[u] # t
  BY DEF Created, InTheMaking

LEMMA CreatedThreads == Created \subseteq Threads
  BY DEF Created

LEMMA CreatedNext ==
  \A t \in Threads : t \in Created' <=>
    /\ state'[t] # "ABSENT"
    /\ \A u \in Threads : pc'[u] \in CreatePoints \ {"c_context"} => obj'[u] # t
  BY DEF Created, InTheMaking

LEMMA CreatedSame ==
  ASSUME \A t \in Threads : t \in Created' <=> t \in Created
  PROVE  Created' = Created
  BY DEF Created

LEMMA CreatorsAre ==
  ASSUME Orderly, TypeInv, Creators
  PROVE  /\ \A t, u \in Threads : Creating(t) /\ Creating(u) => t = u
         /\ \A t \in Threads : Creating(t) /\ (t # cpu \/ Phase # "code") =>
              SoleCreator /\ pc[t] \notin {"c_next", "c_context"} /\ state[obj[t]] = Junk
<1>1. cpu \in Threads
  BY DEF TypeInv, TypeOK, CpuTypeOK
<1>2. WholeCreates \/ SoleCreator
  BY DEF Orderly
<1>. QED
  BY <1>1, <1>2 DEF Creators, SoleCreator

LEMMA JunkIsNone ==
  Junk \notin {"ABSENT", "READY", "RUNNING", "BLOCKED", "TERMINATED"}
  BY DEF ThreadStates

(* The thread whose turn it is has been created.                           *)
LEMMA RunningCreated ==
  ASSUME Orderly, TypeInv, CurrentInv, TurnInv, head # NULL
  PROVE  running \in Created /\ Main \in Created /\ running \in Threads
<1>1. running \in Threads /\ cpu \in Threads /\ Main \in Created
  BY DEF TypeInv, TypeOK, LibTypeOK, CpuTypeOK, HeadShape, TurnInv, Kinds
<1>2. CASE Phase = "jump"
  <2>1. running = Top.ptr /\ state[running] = "RUNNING"
    BY <1>2 DEF CurrentInv, Current, Picked
  <2>2. \A u \in Threads : Creating(u) => state[obj[u]] = Junk
    BY <1>2, CreatorsAre DEF TurnInv
  <2>3. \A u \in Threads : pc[u] \in CreatePoints => obj[u] # running
    BY <2>1, <2>2, JunkIsNone DEF Creating
  <2>. QED
    BY <1>1, <2>1, <2>3, CreatedIs
<1>3. CASE Phase # "jump"
  <2>1. running = cpu
    BY <1>3 DEF CurrentInv, Current
  <2>2. \A u \in Threads : pc[u] \in CreatePoints => obj[u] # cpu
    BY DEF CurrentInv, Newborns
  <2>3. state[cpu] # "ABSENT"
    <3>1. CASE cpu \in Workers
      BY <3>1 DEF CurrentInv, Unborn
    <3>2. CASE cpu = Main
      BY <1>1, <3>2, CreatedIs DEF Threads
    <3>. QED
      BY <1>1, <3>1, <3>2 DEF Threads
  <2>. QED
    BY <1>1, <2>1, <2>2, <2>3, CreatedIs
<1>. QED
  BY <1>2, <1>3

(* A step that neither creates a tcb nor links one leaves the ring alone.  *)
RingKept ==
  /\ UNCHANGED <<obj, tail, next, prev>>
  /\ \A t \in Threads :
       /\ state'[t] = "ABSENT" <=> state[t] = "ABSENT"
       /\ \/ pc'[t] = pc[t]
          \/ {pc[t], pc'[t]} \cap (CreatePoints \ {"c_context"}) = {}

LEMMA RingKeptIs ==
  ASSUME RingKept
  PROVE  /\ Created' = Created
         /\ \A r \in Seq(Threads) : IsRing(r) => IsRing(r)'
<1>1. \A t \in Threads : pc'[t] \in CreatePoints \ {"c_context"} \/
                         pc[t] \in CreatePoints \ {"c_context"} => pc'[t] = pc[t]
  BY DEF RingKept
<1>2. Created' = Created
  <2>1. \A t \in Threads : t \in Created' <=> t \in Created
    BY <1>1, CreatedIs, CreatedNext DEF RingKept
  <2>. QED
    BY <2>1, CreatedSame
<1>3. ASSUME NEW last PROVE RingEnd(last) => RingEnd(last)'
  <2>1. \A t \in Threads : /\ pc'[t] \in Appended <=> pc[t] \in Appended
                           /\ pc'[t] = pc[t] \/ pc[t] \notin Appended
                           /\ pc'[t] = "c_tail" => pc[t] = "c_tail"
    BY <1>1 DEF Appended, CreatePoints
  <2>. QED
    BY <2>1 DEF RingEnd, RingKept, Appended
<1>4. \A r \in Seq(Threads) : IsRing(r) => IsRing(r)'
  BY <1>2, <1>3 DEF IsRing, RingKept
<1>. QED
  BY <1>2, <1>4

LEMMA TurnInit == Init => TurnInv
<1>. SUFFICES ASSUME Init PROVE TurnInv
  OBVIOUS
<1>1. /\ \A t \in Threads : pc[t] = "user" /\ ip[t] = 1 /\ state[t] = "ABSENT"
      /\ head = NULL /\ cpu = Main
  BY DEF Init, CoreInit
<1>2. Creators /\ Begun /\ Kinds /\ TurnState /\ Ring
  BY <1>1, CreatedIs DEF Creators, Creating, CreatePoints, Begun, Kinds, Created, TurnState, Ring
<1>3. Phase = "code"
  BY TypeInit, <1>1 DEF TypeInv, HeadShape, Phase, Depth
<1>4. ReadyContexts /\ Scanning
  BY <1>1, <1>3 DEF ReadyContexts, Scanning
<1>. QED
  BY <1>2, <1>4 DEF TurnInv

(* A step of client code that leaves the ring alone.                       *)
QuietCode ==
  /\ Phase = "code" /\ Phase' = "code" /\ RingKept /\ UNCHANGED <<cpu, head>>
  /\ \A t \in Threads : state'[t] = state[t] \/ (state[t] # Junk /\ state'[t] = "TERMINATED")
  /\ \A t \in Threads \ {cpu} : pc'[t] = pc[t]
  /\ pc'[cpu] \notin CreatePoints
  /\ \A t \in Threads : ip'[t] > 0
  /\ head # NULL => state'[cpu] = "RUNNING" \/ pc'[cpu] = "x_spin"
  /\ \A t \in Threads : state[t] = "READY" => context'[t] # NoContext \/
       \E u \in Threads : Creating(u)' /\ obj[u] = t

LEMMA CodeTurn ==
  ASSUME Orderly, TypeInv, TurnInv, QuietCode
  PROVE  TurnInv'
<1>. USE DEF QuietCode
<1>1. Created' = Created /\ \A r \in Seq(Threads) : IsRing(r) => IsRing(r)'
  BY RingKeptIs
<1>2. Creators'
  <2>1. \A t \in Threads : Creating(t)' => t # cpu /\ pc'[t] = pc[t] /\ Creating(t)
    BY DEF Creating
  <2>2. \A t \in Threads : Creating(t) /\ t # cpu =>
          SoleCreator /\ pc[t] \notin {"c_next", "c_context"} /\ state[obj[t]] = Junk
    BY CreatorsAre DEF TurnInv
  <2>3. \A t \in Threads : Creating(t) => obj[t] \in Threads
    BY DEF TypeInv, LocalsShape, Creating, Threads
  <2>4. obj' = obj
    BY DEF RingKept
  <2>5. \A t \in Threads : Creating(t)' =>
          pc'[t] = pc[t] /\ obj'[t] = obj[t] /\ state'[obj[t]] = Junk /\ MayCreate(t)
    BY <2>1, <2>2, <2>3, <2>4 DEF TurnInv, Creators
  <2>. QED
    BY <2>1, <2>2, <2>5 DEF Creators, TurnInv
<1>3. Kinds' /\ TurnState' /\ Begun'
  BY <1>1, CreatedThreads DEF Kinds, TurnState, Begun, TurnInv
<1>4. ReadyContexts' /\ Scanning'
  <2>1. obj' = obj
    BY DEF RingKept
  <2>. QED
    BY <2>1 DEF ReadyContexts, Scanning
<1>5. Ring'
  BY <1>1 DEF TurnInv, Ring
<1>. QED
  BY <1>2, <1>3, <1>4, <1>5 DEF TurnInv

LEMMA CreateEnterTurn ==
  ASSUME Orderly, TypeInv, CurrentInv, TurnInv, NEW w \in Workers, NEW u \in Uninit,
         pthread_create_Enter(w, u)
  PROVE  TurnInv' /\ Created' = Created /\ \A r \in Seq(Threads) : IsRing(r) => IsRing(r)'
<1>. USE DEF TypeInv, TypeOK, TurnInv
<1>1. /\ cpu \in Threads /\ w \in Threads /\ Main \in Threads /\ w # Main
      /\ Phase = "code" /\ state[w] = "ABSENT" /\ pc[cpu] = "user" /\ w # cpu
      /\ UNCHANGED <<cpu, act, head, running, context>>
  BY DEF pthread_create_Enter, Calling, InBase, CpuTypeOK, Threads, Phase, CurrentInv, Unborn
<1>2. Phase' = "code"
  BY <1>1 DEF pthread_create_Enter, Calling, InBase, Phase, Depth
<1>3. MayCreate(cpu)
  <2>1. ip[cpu] \in 1..Len(Program[cpu]) /\ [op |-> "create", arg |-> w] \in Program[cpu][ip[cpu]]
    BY <1>1 DEF pthread_create_Enter, Calling, Begun, CpuTypeOK
  <2>. QED
    BY <2>1 DEF MayCreate
<1>4. \A t \in Threads : ~Creating(t)
  <2>1. ~Creating(cpu)
    BY <1>1 DEF Creating, CreatePoints
  <2>. QED
    BY <1>1, <1>3, <2>1 DEF Creators, Orderly, SoleCreator
<1>5. /\ pc'[cpu] = "c_head" /\ obj'[cpu] = w
      /\ \A t \in Threads \ {cpu} : pc'[t] = pc[t] /\ obj'[t] = obj[t]
  BY <1>1 DEF pthread_create_Enter, Goto, CpuTypeOK
<1>6. /\ state'[w] = FreshState(u) /\ state'[w] # "ABSENT"
      /\ SoleCreator => state'[w] = Junk
      /\ \A t \in Threads \ {w} :
           state'[t] = state[t] /\ next'[t] = next[t] /\ prev'[t] = prev[t]
  <2>1. state'[w] = FreshState(u)
    BY <1>1 DEF pthread_create_Enter, LibTypeOK
  <2>2. SoleCreator => FreshState(u) = Junk
    BY DEF SoleCreator, FreshState
  <2>3. FreshState(u) # "ABSENT"
    BY FreshTypes
  <2>4. \A t \in Threads \ {w} :
           state'[t] = state[t] /\ next'[t] = next[t] /\ prev'[t] = prev[t]
    BY <1>1 DEF pthread_create_Enter, LibTypeOK
  <2>. QED
    BY <2>1, <2>2, <2>3, <2>4
<1>7. \A t \in Threads : Creating(t)' <=> t = cpu
  BY <1>4, <1>5 DEF Creating, CreatePoints
<1>8. Creators'
  BY <1>2, <1>3, <1>5, <1>6, <1>7, <1>1 DEF Creators
<1>9. Created' = Created
  <2>1. /\ pc'[cpu] \in CreatePoints \ {"c_context"} /\ obj'[cpu] = w
        /\ \A t \in Threads : pc'[t] \in CreatePoints \ {"c_context"} => t = cpu
        /\ \A t \in Threads : pc[t] \notin CreatePoints
    BY <1>4, <1>5, <1>7 DEF Creating, CreatePoints
  <2>2. \A t \in Threads : t \in Created <=> state[t] # "ABSENT"
    BY <2>1, CreatedIs
  <2>3. \A t \in Threads : t \in Created' <=> state'[t] # "ABSENT" /\ t # w
    BY <1>1, <2>1, CreatedNext
  <2>4. \A t \in Threads : t \in Created' <=> t \in Created
    BY <1>1, <1>6, <2>2, <2>3
  <2>. QED
    BY <2>4, CreatedSame
<1>10. w \notin Created
  BY <1>1, CreatedIs
<1>11. Kinds' /\ TurnState'
  BY <1>1, <1>2, <1>6, <1>9, <1>10, CreatedThreads DEF Kinds, TurnState
<1>12. Begun'
  BY <1>1 DEF Begun, pthread_create_Enter, NextCall, CpuTypeOK
<1>13. ReadyContexts' /\ Scanning'
  <2>1. /\ \A t \in Threads \ {w} : state'[t] = "READY" => context'[t] # NoContext
        /\ Creating(cpu)' /\ obj'[cpu] = w
    <3>1. Creating(cpu)' /\ obj'[cpu] = w
      BY <1>1, <1>5, <1>7
    <3>2. ASSUME NEW t \in Threads \ {w}, state'[t] = "READY" PROVE context'[t] # NoContext
      <4>1. state[t] = "READY" /\ context'[t] = context[t]
        BY <1>1, <1>6, <3>2
      <4>2. Phase # "save" /\ \A u1 \in Threads : ~Creating(u1)
        BY <1>1, <1>4
      <4>. QED
        BY <4>1, <4>2 DEF ReadyContexts
    <3>. QED
      BY <3>1, <3>2
  <2>. QED
    BY <1>1, <1>2, <2>1 DEF ReadyContexts, Scanning
<1>14. \A r \in Seq(Threads) : IsRing(r) => IsRing(r)'
  <2>1. SUFFICES ASSUME NEW r \in Seq(Threads), IsRing(r) PROVE IsRing(r)'
    OBVIOUS
  <2>2. \A i \in 1..Len(r) : r[i] \in Threads \ {w}
    <3>1. SUFFICES ASSUME NEW i \in 1..Len(r) PROVE r[i] \in Threads \ {w}
      OBVIOUS
    <3>2. r[i] \in Threads
      BY <2>1, <3>1
    <3>3. \A t \in Threads : t \in Created <=> \E j \in 1..Len(r) : r[j] = t
      BY <2>1 DEF IsRing
    <3>4. r[i] \in Created
      BY <3>1, <3>2, <3>3
    <3>. QED
      BY <1>10, <3>2, <3>4
  <2>3. Len(r) \in 1..Len(r) /\ r[Len(r)] \in Threads \ {w}
    <3>1. Len(r) \in Nat /\ Len(r) > 0
      BY <2>1 DEF IsRing
    <3>. QED
      BY <2>2, <3>1
  <2>4. \A t \in Threads : /\ pc[t] \notin Appended
                           /\ pc'[t] \notin Appended \cup {"c_tail"}
    BY <1>4, <1>5 DEF Creating, Appended, CreatePoints
  <2>5. RingEnd(r[Len(r)])'
    <3>. DEFINE last == r[Len(r)]
    <3>1. next[last] = Main /\ prev[Main] = last
      BY <2>1, <2>4 DEF IsRing, RingEnd, Appended
    <3>2. next'[last] = Main /\ prev'[Main] = last
      BY <1>1, <1>6, <2>3, <3>1
    <3>. HIDE DEF last
    <3>3. RingEnd(last)'
      BY <2>4, <3>2 DEF RingEnd, Appended
    <3>. QED
      BY <3>3 DEF last
  <2>6. ASSUME NEW i \in 1..Len(r) - 1 PROVE next'[r[i]] = r[i + 1]
    <3>1. next[r[i]] = r[i + 1]
      BY <2>1 DEF IsRing
    <3>2. r[i] \in Threads \ {w}
      <4>1. i \in 1..Len(r)
        BY <2>3
      <4>. QED
        BY <2>2, <4>1
    <3>. QED
      BY <1>6, <3>1, <3>2
  <2>. QED
    BY <1>9, <2>1, <2>5, <2>6 DEF IsRing
<1>15. Ring'
  BY <1>1, <1>14 DEF Ring
<1>. QED
  BY <1>8, <1>9, <1>11, <1>12, <1>13, <1>14, <1>15

LEMMA CreateFirstTurn ==
  ASSUME Orderly, TypeInv, CurrentInv, TurnInv, pthread_create_First
  PROVE  TurnInv' /\ Created' = {Main} /\ IsRing(<<Main>>)'
<1>. USE DEF TypeInv, TypeOK, TurnInv
<1>. DEFINE w == obj[cpu]
<1>1. /\ cpu \in Threads /\ w \in Threads /\ Main \in Threads /\ w # Main
      /\ Phase = "code" /\ pc[cpu] = "c_head" /\ head = NULL /\ cpu = Main /\ Main # NULL
      /\ UNCHANGED <<cpu, act, obj, context, ip>> /\ head' = Main
  BY DEF pthread_create_First, InBase, CpuTypeOK, Threads, Phase, HeadShape, LocalsShape,
     CreatePoints
<1>2. Phase' = "code"
  BY <1>1 DEF pthread_create_First, InBase, Phase, Depth
<1>3. \A t \in Threads : Creating(t) <=> t = cpu
  <2>1. Creating(cpu)
    BY <1>1 DEF Creating, CreatePoints
  <2>. QED
    BY <1>1, <2>1, CreatorsAre
<1>4. /\ pc'[cpu] = "c_fill" /\ \A t \in Threads \ {cpu} : pc'[t] = pc[t]
  BY <1>1 DEF pthread_create_First, Goto, CpuTypeOK
<1>. HIDE DEF w
<1>5. /\ state'[Main] = "RUNNING" /\ \A t \in Threads \ {Main} : state'[t] = state[t]
      /\ next'[Main] = w /\ next'[w] = Main /\ prev'[Main] = w
  <2>1. /\ next' = [next EXCEPT ![Main] = w, ![w] = Main]
        /\ prev' = [prev EXCEPT ![Main] = w, ![w] = Main]
        /\ state' = [state EXCEPT ![Main] = "RUNNING"]
    BY DEF pthread_create_First, w
  <2>. QED
    BY <1>1, <2>1 DEF LibTypeOK
<1>6. \A t \in Threads : Creating(t)' <=> t = cpu
  BY <1>3, <1>4 DEF Creating, CreatePoints
<1>7. Creators'
  BY <1>1, <1>2, <1>3, <1>4, <1>5, <1>6, JunkIsNone DEF Creators, w
<1>8. Created' = {Main}
  <2>1. \A t \in Threads : state[t] # "ABSENT" => t = w
    <3>1. Created = {}
      BY <1>1 DEF Kinds
    <3>2. \A t \in Threads : state[t] # "ABSENT" =>
            \E u \in Threads : pc[u] \in CreatePoints \ {"c_context"} /\ obj[u] = t
      BY <3>1, CreatedIs
    <3>. QED
      BY <1>3, <3>2 DEF Creating, w
  <2>2. /\ pc'[cpu] \in CreatePoints \ {"c_context"} /\ obj'[cpu] = w
        /\ \A t \in Threads : pc'[t] \in CreatePoints \ {"c_context"} => t = cpu
    BY <1>1, <1>4, <1>6 DEF Creating, CreatePoints, w
  <2>3. state'[Main] # "ABSENT" /\ \A t \in Threads : t # Main /\ t # w => state'[t] = "ABSENT"
    BY <1>5, <2>1
  <2>4. \A t \in Threads : t \in Created' <=> t = Main
    BY <1>1, <2>2, <2>3, CreatedNext
  <2>. QED
    BY <1>1, <2>4 DEF Created
<1>9. Kinds' /\ TurnState' /\ Begun'
  BY <1>1, <1>5, <1>8 DEF Kinds, TurnState, Begun
<1>10. ReadyContexts' /\ Scanning'
  <2>1. \A t \in Threads : state'[t] = "READY" => state[t] = "READY"
    BY <1>5
  <2>. QED
    BY <1>1, <1>2, <1>3, <1>6, <2>1 DEF ReadyContexts, Scanning
<1>11. IsRing(<<Main>>)'
  <2>1. /\ Len(<<Main>>) = 1 /\ <<Main>>[1] = Main
        /\ \A i \in 1..1 : <<Main>>[i] = Main
    OBVIOUS
  <2>. DEFINE r == <<Main>>
  <2>2. Len(r) = 1 /\ r[1] = Main
    BY <2>1
  <2>. HIDE DEF r
  <2>3. \A t \in Threads : (pc'[t] \in Appended <=> t = cpu) /\ pc'[t] # "c_tail"
    BY <1>4, <1>6 DEF Appended, Creating, CreatePoints
  <2>4. RingEnd(Main)'
    BY <1>1, <1>4, <1>5, <2>3 DEF RingEnd, Appended, w
  <2>5. IsRing(r)'
    BY <1>8, <2>2, <2>4 DEF IsRing, Distinct
  <2>. QED
    BY <2>5 DEF r
<1>12. Ring'
  <2>1. <<Main>> \in Seq(Threads)
    BY <1>1
  <2>. QED
    BY <1>11, <2>1 DEF Ring
<1>. QED
  BY <1>7, <1>8, <1>9, <1>10, <1>11, <1>12

(* The stores that link the tcb in leave the ring with the same threads.   *)
Linking ==
  \/ pthread_create_Tail \/ pthread_create_Append \/ pthread_create_Next
  \/ pthread_create_Prev \/ pthread_create_Fill

LEMMA LinkingIs ==
  ASSUME Orderly, TypeInv, CurrentInv, TurnInv, Linking
  PROVE  /\ cpu \in Threads /\ obj[cpu] \in Threads \ {Main} /\ Main \in Threads
         /\ Phase = "code" /\ Phase' = "code" /\ head = Main /\ obj[cpu] \notin Created
         /\ UNCHANGED <<cpu, act, ip, obj, head, running, state, context>>
         /\ \A t \in Threads : Creating(t) <=> t = cpu
         /\ \A t \in Threads : Creating(t)' <=> t = cpu
         /\ \A t \in Threads \ {cpu} : pc'[t] = pc[t]
         /\ pc[cpu] \in {"c_head", "c_tail", "c_next", "c_prev", "c_fill"}
         /\ pc'[cpu] = CASE pc[cpu] = "c_head" -> "c_tail" [] pc[cpu] = "c_tail" -> "c_next"
                         [] pc[cpu] = "c_next" -> "c_prev"
                         [] pc[cpu] = "c_prev" -> "c_fill" [] pc[cpu] = "c_fill" -> "c_ready"
<1>. USE DEF TypeInv, TypeOK, TurnInv
<1>1. CreateStore
  BY DEF Linking, CreateStore
<1>2. /\ cpu \in Threads /\ obj[cpu] \in Workers /\ obj[cpu] \in Threads /\ Depth = 0
      /\ head = Main /\ UNCHANGED <<cpu, act, ip, obj, head, running>>
  BY <1>1, CreateStoreIs
<1>3. UNCHANGED <<state, context>>
  BY DEF Linking, pthread_create_Tail, pthread_create_Append, pthread_create_Next, pthread_create_Prev,
     pthread_create_Fill
<1>4. /\ \A t \in Threads \ {cpu} : pc'[t] = pc[t]
      /\ pc[cpu] \in {"c_head", "c_tail", "c_next", "c_prev", "c_fill"}
      /\ pc'[cpu] = CASE pc[cpu] = "c_head" -> "c_tail" [] pc[cpu] = "c_tail" -> "c_next"
                         [] pc[cpu] = "c_next" -> "c_prev"
                      [] pc[cpu] = "c_prev" -> "c_fill" [] pc[cpu] = "c_fill" -> "c_ready"
  <2>0. CASE pthread_create_Tail
    BY <1>2, <2>0 DEF CpuTypeOK, pthread_create_Tail, InBase, Goto
  <2>1. CASE pthread_create_Append
    BY <1>2, <2>1 DEF CpuTypeOK, pthread_create_Append, InBase, Goto
  <2>2. CASE pthread_create_Next
    BY <1>2, <2>2 DEF CpuTypeOK, pthread_create_Next, InBase, Goto
  <2>3. CASE pthread_create_Prev
    BY <1>2, <2>3 DEF CpuTypeOK, pthread_create_Prev, InBase, Goto
  <2>4. CASE pthread_create_Fill
    BY <1>2, <2>4 DEF CpuTypeOK, pthread_create_Fill, InBase, Goto
  <2>. QED
    BY <2>0, <2>1, <2>2, <2>3, <2>4 DEF Linking
<1>5. Creating(cpu) /\ Creating(cpu)'
  BY <1>2, <1>4 DEF Creating, CreatePoints
<1>6. /\ \A t \in Threads : Creating(t) <=> t = cpu
      /\ \A t \in Threads : Creating(t)' <=> t = cpu
  <2>1. \A t \in Threads : Creating(t) <=> t = cpu
    BY <1>2, <1>5, CreatorsAre
  <2>2. \A t \in Threads \ {cpu} : ~Creating(t)'
    BY <1>2, <1>4, <2>1 DEF Creating
  <2>. QED
    BY <1>2, <1>5, <2>1, <2>2
<1>7. Phase = "code" /\ Phase' = "code" /\ obj[cpu] # Main /\ Main \in Threads
  BY <1>2 DEF Phase, Depth, Threads
<1>8. obj[cpu] \notin Created
  BY <1>2, <1>4, CreatedIs DEF CreatePoints
<1>. QED
  BY <1>2, <1>3, <1>4, <1>6, <1>7, <1>8

LEMMA LinkingRing ==
  ASSUME Orderly, TypeInv, CurrentInv, TurnInv, Linking, NEW r \in Seq(Threads), IsRing(r),
         Created' = Created
  PROVE  IsRing(r)'
<1>. DEFINE w == obj[cpu]
            last == r[Len(r)]
<1>1. /\ cpu \in Threads /\ w \in Threads /\ w # Main /\ Main \in Threads
      /\ head = Main /\ w \notin Created /\ UNCHANGED obj
      /\ pc[cpu] \in {"c_head", "c_tail", "c_next", "c_prev", "c_fill"}
      /\ pc'[cpu] = CASE pc[cpu] = "c_head" -> "c_tail" [] pc[cpu] = "c_tail" -> "c_next"
                         [] pc[cpu] = "c_next" -> "c_prev"
                         [] pc[cpu] = "c_prev" -> "c_fill" [] pc[cpu] = "c_fill" -> "c_ready"
  BY LinkingIs
<1>2. \A t \in Threads : t # cpu => pc[t] \notin CreatePoints /\ pc'[t] \notin CreatePoints
  BY LinkingIs DEF Creating
<1>3. /\ Len(r) \in Nat /\ Len(r) > 0 /\ last \in Threads /\ last # w
      /\ \A i \in 1..Len(r) - 1 : r[i] \in Threads /\ r[i] # last /\ r[i] # w
  <2>1. Len(r) \in Nat /\ Len(r) > 0 /\ \A i \in 1..Len(r) : r[i] \in Threads \ {w}
    BY <1>1 DEF IsRing
  <2>2. Len(r) \in 1..Len(r) /\ \A i \in 1..Len(r) - 1 : i \in 1..Len(r) /\ i # Len(r)
    BY <2>1
  <2>. QED
    BY <2>1, <2>2 DEF IsRing, Distinct
<1>4. /\ RingEnd(last) /\ \A i \in 1..Len(r) - 1 : next[r[i]] = r[i + 1]
  BY DEF IsRing
<1>. HIDE DEF last, w
<1>5. /\ next[last] = IF pc[cpu] \in {"c_head", "c_tail"} THEN Main ELSE w
      /\ pc[cpu] = "c_tail" => tail[cpu] = last
      /\ prev[Main] = IF pc[cpu] = "c_fill" THEN w ELSE last
      /\ pc[cpu] \in {"c_prev", "c_fill"} => next[w] = Main
  BY <1>1, <1>2, <1>4 DEF RingEnd, Appended, CreatePoints, w
<1>6. /\ next'[last] = IF pc[cpu] = "c_head" THEN Main ELSE w
      /\ prev'[Main] = IF pc[cpu] \in {"c_prev", "c_fill"} THEN w ELSE last
      /\ pc[cpu] \notin {"c_head", "c_tail"} => next'[w] = Main
      /\ pc[cpu] = "c_head" => tail'[cpu] = last
      /\ \A i \in 1..Len(r) - 1 : next'[r[i]] = next[r[i]]
  <2>1. next \in [Threads -> Pointers] /\ prev \in [Threads -> Pointers]
    BY DEF TypeInv, TypeOK, LibTypeOK
  <2>0. CASE pthread_create_Tail
    <3>1. /\ pc[cpu] = "c_head" /\ UNCHANGED <<next, prev>>
          /\ tail' = [tail EXCEPT ![cpu] = prev[Main]]
      BY <1>1, <2>0 DEF pthread_create_Tail, InBase
    <3>2. tail \in [Threads -> Pointers]
      BY DEF TypeInv, TypeOK, LibTypeOK
    <3>. QED
      BY <1>1, <1>5, <3>1, <3>2
  <2>2. CASE pthread_create_Append
    <3>1. /\ pc[cpu] = "c_tail" /\ next' = [next EXCEPT ![last] = w]
          /\ prev' = [prev EXCEPT ![w] = last]
      BY <1>1, <1>5, <2>2 DEF pthread_create_Append, InBase, w
    <3>. QED
      BY <1>1, <1>3, <1>5, <2>1, <3>1
  <2>3. CASE pthread_create_Next
    <3>1. pc[cpu] = "c_next" /\ next' = [next EXCEPT ![w] = Main] /\ prev' = prev
      BY <1>1, <2>3 DEF pthread_create_Next, InBase, w
    <3>. QED
      BY <1>1, <1>3, <1>5, <2>1, <3>1
  <2>4. CASE pthread_create_Prev
    <3>1. pc[cpu] = "c_prev" /\ prev' = [prev EXCEPT ![Main] = w] /\ next' = next
      BY <1>1, <2>4 DEF pthread_create_Prev, InBase, w
    <3>. QED
      BY <1>1, <1>3, <1>5, <2>1, <3>1
  <2>5. CASE pthread_create_Fill
    BY <1>5, <2>5 DEF pthread_create_Fill, InBase
  <2>. QED
    BY <2>0, <2>2, <2>3, <2>4, <2>5 DEF Linking
<1>7. RingEnd(last)'
  <2>1. \A t \in Threads : t # cpu => pc'[t] \notin Appended \cup {"c_tail"}
    BY <1>1, <1>2 DEF Appended, CreatePoints
  <2>2. obj'[cpu] = w
    BY <1>1 DEF w
  <2>3. CASE pc[cpu] = "c_head"
    <3>1. pc'[cpu] = "c_tail"
      BY <1>1, <2>3
    <3>. QED
      BY <1>1, <1>6, <2>1, <2>3, <3>1 DEF RingEnd, Appended
  <2>4. CASE pc[cpu] # "c_head"
    <3>1. /\ pc'[cpu] \in Appended /\ next'[last] = w
          /\ pc'[cpu] # "c_next" => next'[w] = Main
          /\ prev'[Main] = IF pc'[cpu] \in {"c_fill", "c_ready"} THEN w ELSE last
      BY <1>1, <1>6, <2>4 DEF Appended
    <3>. QED
      BY <1>1, <2>1, <2>2, <3>1 DEF RingEnd, Appended
  <2>. QED
    BY <2>3, <2>4
<1>8. \A i \in 1..Len(r) - 1 : next'[r[i]] = r[i + 1]
  BY <1>4, <1>6
<1>. QED
  BY <1>7, <1>8 DEF IsRing, last

LEMMA LinkingTurn ==
  ASSUME Orderly, TypeInv, CurrentInv, TurnInv, Linking
  PROVE  TurnInv' /\ Created' = Created /\ \A r \in Seq(Threads) : IsRing(r) => IsRing(r)'
<1>. USE DEF TurnInv
<1>1. /\ cpu \in Threads /\ Phase = "code" /\ Phase' = "code" /\ head # NULL
      /\ UNCHANGED <<cpu, act, ip, obj, head, running, state, context>>
      /\ \A t \in Threads : Creating(t) <=> t = cpu
      /\ \A t \in Threads : Creating(t)' <=> t = cpu
      /\ \A t \in Threads \ {cpu} : pc'[t] = pc[t]
      /\ pc[cpu] \in CreatePoints \ {"c_context"} /\ pc'[cpu] \in CreatePoints \ {"c_context"}
  <2>1. /\ pc[cpu] \in {"c_head", "c_tail", "c_next", "c_prev", "c_fill"} /\ head = Main /\ Main # NULL
        /\ pc'[cpu] \in {"c_tail", "c_next", "c_prev", "c_fill", "c_ready"}
    BY LinkingIs DEF Threads
  <2>2. pc[cpu] \in CreatePoints \ {"c_context"} /\ pc'[cpu] \in CreatePoints \ {"c_context"}
    BY <2>1 DEF CreatePoints
  <2>. QED
    BY LinkingIs, <2>1, <2>2
<1>2. Creators'
  BY <1>1 DEF Creators
<1>3. Created' = Created
  <2>1. \A t \in Threads : pc'[t] \in CreatePoints \ {"c_context"} <=>
                           pc[t] \in CreatePoints \ {"c_context"}
    BY <1>1
  <2>2. \A t \in Threads : t \in Created' <=> t \in Created
    BY <1>1, <2>1, CreatedIs, CreatedNext
  <2>. QED
    BY <2>2, CreatedSame
<1>4. Kinds' /\ TurnState' /\ Begun'
  <2>1. pc[cpu] # "x_spin"
    BY <1>1 DEF CreatePoints
  <2>. QED
    BY <1>1, <1>3, <2>1 DEF Kinds, TurnState, Begun
<1>5. ReadyContexts' /\ Scanning'
  BY <1>1 DEF ReadyContexts, Scanning
<1>6. \A r \in Seq(Threads) : IsRing(r) => IsRing(r)'
  BY <1>3, LinkingRing
<1>7. Ring'
  BY <1>1, <1>6 DEF Ring
<1>. QED
  BY <1>2, <1>3, <1>4, <1>5, <1>6, <1>7

(* A tcb joins the ring when it becomes READY.                             *)
LEMMA ReadyTurn ==
  ASSUME Orderly, TypeInv, CurrentInv, TurnInv, pthread_create_Ready,
         NEW w, w = obj[cpu]
  PROVE  /\ TurnInv' /\ Created' = Created \cup {w} /\ w \in Threads \ Created
         /\ \A r \in Seq(Threads) : IsRing(r) => IsRing(Append(r, w))'
<1>. USE DEF TypeInv, TypeOK, TurnInv
<1>1. /\ cpu \in Threads /\ w \in Threads /\ w # Main /\ Main \in Threads /\ Depth = 0
      /\ head = Main /\ UNCHANGED <<cpu, act, ip, obj, head, running, next, prev, context>>
      /\ pc[cpu] = "c_ready" /\ w # cpu
  <2>1. CreateStore
    BY DEF CreateStore
  <2>2. pc[cpu] = "c_ready" /\ UNCHANGED <<next, prev, context>>
    BY DEF pthread_create_Ready, InBase
  <2>3. w # cpu
    BY <2>1, <2>2, CreateStoreIs DEF CurrentInv, Newborns
  <2>. QED
    BY <2>1, <2>2, <2>3, CreateStoreIs DEF Threads
<1>2. /\ pc'[cpu] = "c_context" /\ \A t \in Threads \ {cpu} : pc'[t] = pc[t]
      /\ state'[w] = "READY" /\ \A t \in Threads \ {w} : state'[t] = state[t]
  BY <1>1 DEF pthread_create_Ready, Goto, CpuTypeOK, LibTypeOK
<1>3. Phase = "code" /\ Phase' = "code"
  BY <1>1 DEF Phase, Depth
<1>4. /\ \A t \in Threads : Creating(t) <=> t = cpu
      /\ \A t \in Threads : Creating(t)' <=> t = cpu
  <2>1. Creating(cpu) /\ Creating(cpu)'
    BY <1>1, <1>2 DEF Creating, CreatePoints
  <2>2. \A t \in Threads : Creating(t) <=> t = cpu
    BY <1>1, <2>1, CreatorsAre
  <2>3. \A t \in Threads \ {cpu} : ~Creating(t)'
    BY <1>2, <2>2 DEF Creating
  <2>. QED
    BY <1>1, <2>1, <2>2, <2>3
<1>5. Creators'
  BY <1>1, <1>2, <1>3, <1>4 DEF Creators
<1>6. /\ w \notin Created /\ Created' = Created \cup {w}
  <2>1. w \notin Created
    BY <1>1, CreatedIs DEF CreatePoints
  <2>2. \A t \in Threads : (pc[t] \in CreatePoints \ {"c_context"} <=> t = cpu) /\
                           pc'[t] \notin CreatePoints \ {"c_context"}
    BY <1>1, <1>2, <1>4 DEF Creating, CreatePoints
  <2>3. \A t \in Threads : t \in Created <=> state[t] # "ABSENT" /\ t # w
    BY <1>1, <2>2, CreatedIs
  <2>4. \A t \in Threads : t \in Created' <=> state'[t] # "ABSENT"
    BY <2>2, CreatedNext
  <2>5. \A t \in Threads : t \in Created' <=> t \in Created \cup {w}
    BY <1>2, <2>3, <2>4
  <2>6. Created' \subseteq Threads /\ Created \subseteq Threads
    BY DEF Created
  <2>. QED
    BY <1>1, <2>1, <2>5, <2>6
<1>7. Kinds' /\ TurnState' /\ Begun'
  <2>1. \A t \in Created : t \in Threads \ {w}
    BY <1>6, CreatedThreads
  <2>2. head # NULL /\ pc[cpu] # "x_spin" /\ w # cpu
    BY <1>1 DEF Threads
  <2>. QED
    BY <1>1, <1>2, <1>3, <1>6, <2>1, <2>2 DEF Kinds, TurnState, Begun
<1>8. ReadyContexts' /\ Scanning'
  BY <1>1, <1>2, <1>3, <1>4 DEF ReadyContexts, Scanning
<1>9. \A r \in Seq(Threads) : IsRing(r) => IsRing(Append(r, w))'
  <2>1. SUFFICES ASSUME NEW r \in Seq(Threads), IsRing(r), NEW q, q = Append(r, w)
                 PROVE  IsRing(q)'
    OBVIOUS
  <2>. DEFINE n == Len(r)
  <2>2. /\ n \in Nat /\ n > 0 /\ r[1] = Main /\ \A i \in 1..n : r[i] \in Threads /\ r[i] # w
    <3>1. n \in Nat /\ n > 0 /\ r[1] = Main /\ \A i \in 1..n : r[i] \in Threads
      BY <2>1 DEF IsRing
    <3>2. \A i \in 1..n : r[i] \in Created
      BY <2>1, <3>1 DEF IsRing
    <3>. QED
      BY <1>6, <3>1, <3>2
  <2>3. /\ Len(q) = n + 1 /\ q[n + 1] = w /\ \A i \in 1..n : q[i] = r[i]
    BY <1>1, <2>1
  <2>4. /\ Distinct(r) /\ \A i \in 1..n - 1 : next[r[i]] = r[i + 1]
        /\ \A t \in Threads : t \in Created <=> \E i \in 1..n : r[i] = t
        /\ RingEnd(r[n])
    BY <2>1 DEF IsRing
  <2>5. next[r[n]] = w /\ next[w] = Main /\ prev[Main] = w
    BY <1>1, <2>4 DEF RingEnd, Appended
  <2>6. \A i \in 1..n : next[q[i]] = q[i + 1]
    <3>. HIDE DEF n
    <3>1. ASSUME NEW i \in 1..n PROVE next[q[i]] = q[i + 1]
      <4>1. CASE i = n
        BY <2>2, <2>3, <2>5, <4>1
      <4>2. CASE i # n
        <5>1. i \in 1..n - 1 /\ i + 1 \in 1..n
          BY <2>2, <4>2
        <5>. QED
          BY <2>3, <2>4, <5>1
      <4>. QED
        BY <4>1, <4>2
    <3>. QED
      BY <3>1
  <2>7. RingEnd(w)'
    <3>1. \A t \in Threads : pc'[t] \notin Appended \cup {"c_tail"}
      BY <1>2, <1>4 DEF Creating, CreatePoints, Appended
    <3>. QED
      BY <1>1, <2>5, <3>1 DEF RingEnd, Appended
  <2>. HIDE DEF n
  <2>13. \A i \in 1..n + 1 : i = n + 1 \/ i \in 1..n
    BY <2>2
  <2>8. Distinct(q)
    <3>1. \A i, j \in 1..n : r[i] = r[j] => i = j
      BY <2>4 DEF Distinct, n
    <3>2. \A i, j \in 1..n + 1 : q[i] = q[j] => i = j
      BY <2>2, <2>3, <2>13, <3>1
    <3>. QED
      BY <2>3, <3>2 DEF Distinct
  <2>9. \A t \in Threads : t \in Created' <=> \E i \in 1..n + 1 : q[i] = t
    <3>1. \A t \in Threads : t \in Created' <=> t \in Created \/ t = w
      BY <1>6
    <3>2. n + 1 \in 1..n + 1 /\ \A i \in 1..n : i \in 1..n + 1
      BY <2>2
    <3>3. ASSUME NEW t \in Threads, t \in Created' PROVE \E i \in 1..n + 1 : q[i] = t
      <4>1. CASE t = w
        BY <2>3, <3>2, <4>1
      <4>2. CASE t # w
        <5>1. PICK i \in 1..n : r[i] = t
          BY <2>4, <3>1, <3>3, <4>2
        <5>. QED
          BY <2>3, <3>2, <5>1
      <4>. QED
        BY <4>1, <4>2
    <3>4. ASSUME NEW i \in 1..n + 1 PROVE q[i] \in Created'
      <4>1. CASE i = n + 1
        BY <1>1, <2>3, <3>1, <4>1
      <4>2. CASE i \in 1..n
        <5>1. q[i] = r[i] /\ r[i] \in Threads
          BY <2>2, <2>3, <4>2
        <5>2. r[i] \in Created
          BY <2>4, <4>2, <5>1
        <5>. QED
          BY <3>1, <5>1, <5>2
      <4>. QED
        BY <2>13, <4>1, <4>2
    <3>. QED
      BY <3>3, <3>4
  <2>10. \A i \in 1..n : next'[q[i]] = q[i + 1]
    <3>1. next' = next
      BY <1>1
    <3>. QED
      BY <2>6, <3>1
  <2>11. n + 1 > 0 /\ q[1] = Main
    BY <2>2, <2>3
  <2>14. RingEnd(q[Len(q)])'
    BY <2>3, <2>7 DEF RingEnd
  <2>15. Len(q) > 0 /\ \A t \in Threads : t \in Created' <=> \E i \in 1..Len(q) : q[i] = t
    BY <2>3, <2>9, <2>11
  <2>16. \A i \in 1..Len(q) - 1 : next'[q[i]] = q[i + 1]
    <3>1. Len(q) - 1 = n
      BY <2>2, <2>3
    <3>. QED
      BY <2>10, <3>1
  <2>. QED
    BY <2>8, <2>11, <2>14, <2>15, <2>16 DEF IsRing
<1>10. Ring'
  <2>1. \A r \in Seq(Threads) : Append(r, w) \in Seq(Threads)
    BY <1>1
  <2>2. \E r \in Seq(Threads) : IsRing(r)
    BY <1>1 DEF Ring, Threads
  <2>3. PICK r \in Seq(Threads) : IsRing(r)
    BY <2>2
  <2>. QED
    BY <1>9, <2>1, <2>3 DEF Ring
<1>. QED
  BY <1>5, <1>6, <1>7, <1>8, <1>9, <1>10, <1>1

LEMMA ContextTurn ==
  ASSUME Orderly, TypeInv, CurrentInv, TurnInv, pthread_create_Context
  PROVE  TurnInv' /\ RingKept
<1>. USE DEF TypeInv, TypeOK, TurnInv
<1>1. /\ cpu \in Threads /\ obj[cpu] \in Threads /\ Depth = 0 /\ head # NULL
      /\ UNCHANGED <<cpu, act, ip, obj, tail, head, running, state, next, prev>>
      /\ pc[cpu] = "c_context"
      /\ context' = [context EXCEPT ![obj[cpu]] = [owner |-> obj[cpu], depth |-> 1]]
  <2>1. CreateStore
    BY DEF CreateStore
  <2>. QED
    BY <2>1, CreateStoreIs DEF pthread_create_Context, InBase, Threads
<1>2. /\ pc'[cpu] = "user" /\ \A t \in Threads \ {cpu} : pc'[t] = pc[t]
  BY <1>1 DEF pthread_create_Context, Goto, CpuTypeOK
<1>3. Phase = "code" /\ Phase' = "code"
  BY <1>1 DEF Phase, Depth
<1>4. RingKept
  BY <1>1, <1>2 DEF RingKept, CreatePoints
<1>5. \A t \in Threads : Creating(t) => t = cpu
  <2>1. Creating(cpu)
    BY <1>1 DEF Creating, CreatePoints
  <2>. QED
    BY <1>1, <2>1, CreatorsAre
<1>6. /\ context'[obj[cpu]] # NoContext
      /\ \A t \in Threads \ {obj[cpu]} : context'[t] = context[t]
  <2>1. context'[obj[cpu]] = [owner |-> obj[cpu], depth |-> 1]
    BY <1>1 DEF LibTypeOK
  <2>2. context'[obj[cpu]].owner \in Threads
    BY <1>1, <2>1
  <2>3. context'[obj[cpu]] # NoContext
    BY <2>2 DEF NoContext, Threads
  <2>. QED
    BY <1>1, <2>3 DEF LibTypeOK
<1>7. \A t \in Threads : state[t] = "READY" => context'[t] # NoContext
  BY <1>3, <1>5, <1>6 DEF ReadyContexts
<1>8. \A t \in Threads : ip'[t] > 0
  BY <1>1 DEF Begun
<1>9. state[cpu] = "RUNNING"
  BY <1>1, <1>3 DEF TurnState
<1>10. TurnInv'
  <2>. HIDE DEF TurnInv
  <2>1. pc'[cpu] \notin CreatePoints
    BY <1>2 DEF CreatePoints
  <2>2. \A t \in Threads : state'[t] = state[t]
    BY <1>1
  <2>3. UNCHANGED <<cpu, head>> /\ state'[cpu] = "RUNNING"
    BY <1>1, <1>9
  <2>. QED
    <3>. HIDE DEF TypeInv, TypeOK
    <3>1. QuietCode
      BY <1>2, <1>3, <1>4, <1>7, <1>8, <2>1, <2>2, <2>3 DEF QuietCode
    <3>. QED
      BY <3>1, CodeTurn
<1>. QED
  BY <1>4, <1>10

LEMMA NoMemoryTurn ==
  ASSUME Orderly, TypeInv, CurrentInv, TurnInv, NEW w \in Workers, pthread_create_NoMemory(w)
  PROVE  TurnInv' /\ RingKept
<1>. USE DEF TypeInv, TypeOK
<1>1. /\ Depth = 0 /\ cpu \in Threads /\ pc[cpu] = "user"
      /\ UNCHANGED <<cpu, pc, act, obj, tail, running, head, state, next, prev, context>>
      /\ \A t \in Threads : ip'[t] > 0
  BY DEF pthread_create_NoMemory, Calling, InBase, NextCall, CpuTypeOK, TurnInv, Begun
<1>2. Phase = "code" /\ Phase' = "code"
  BY <1>1 DEF Phase, Depth
<1>3. RingKept
  BY <1>1 DEF RingKept
<1>4. head # NULL => state[cpu] = "RUNNING"
  BY <1>1, <1>2 DEF TurnInv, TurnState
<1>5. \A t \in Threads : state[t] = "READY" => context'[t] # NoContext \/
           \E u \in Threads : Creating(u)' /\ obj[u] = t
  BY <1>1, <1>2 DEF TurnInv, ReadyContexts, Creating
<1>6. pc'[cpu] \notin CreatePoints
  BY <1>1 DEF CreatePoints
<1>7. /\ UNCHANGED <<cpu, head>> /\ \A t \in Threads : state'[t] = state[t]
      /\ \A t \in Threads : ip'[t] > 0
      /\ \A t \in Threads \ {cpu} : pc'[t] = pc[t]
  BY <1>1
<1>8. head # NULL => state'[cpu] = "RUNNING"
  BY <1>1, <1>4
<1>9. TurnInv'
  <2>. HIDE DEF TypeInv, TypeOK
  <2>1. QuietCode
    BY <1>2, <1>3, <1>5, <1>6, <1>7, <1>8 DEF QuietCode
  <2>. QED
    BY <2>1, CodeTurn
<1>. QED
  BY <1>3, <1>9

LEMMA ExitTurn ==
  ASSUME Orderly, TypeInv, CurrentInv, TurnInv, pthread_exit
  PROVE  /\ TurnInv' /\ RingKept /\ head # NULL /\ UNCHANGED <<head, running, status>>
         /\ running \in Threads /\ state[running] = "RUNNING" /\ state'[running] = "TERMINATED"
         /\ \A t \in Threads \ {running} : state'[t] = state[t]
<1>. USE DEF TypeInv, TypeOK
<1>1. /\ Depth = 0 /\ cpu \in Threads /\ pc[cpu] = "user" /\ head # NULL
      /\ UNCHANGED <<status, cpu, act, obj, tail, running, head, next, prev, context>>
      /\ \A t \in Threads : ip'[t] > 0
  <2>1. cpu \in Threads /\ head # NULL
    BY ExitType DEF Threads
  <2>. QED
    BY <2>1 DEF pthread_exit, Calling, InBase, NextCall, CpuTypeOK, TurnInv, Begun
<1>2. Phase = "code" /\ Phase' = "code"
  BY <1>1 DEF Phase, Depth
<1>3. running = cpu
  BY <1>1, <1>2 DEF CurrentInv, Current
<1>4. state[cpu] = "RUNNING"
  BY <1>1, <1>2 DEF TurnInv, TurnState
<1>5. /\ state'[cpu] = "TERMINATED" /\ \A t \in Threads \ {cpu} : state'[t] = state[t]
      /\ pc'[cpu] = "x_spin" /\ \A t \in Threads \ {cpu} : pc'[t] = pc[t]
  BY <1>1, <1>3 DEF pthread_exit, Goto, CpuTypeOK, LibTypeOK
<1>6. RingKept
  BY <1>1, <1>4, <1>5 DEF RingKept, CreatePoints
<1>7. ~Creating(cpu)
  BY <1>1 DEF Creating, CreatePoints
<1>8. \A t \in Threads : state[t] = "READY" => context'[t] # NoContext \/
           \E u \in Threads : Creating(u)' /\ obj[u] = t
  BY <1>1, <1>2, <1>5, <1>7 DEF TurnInv, ReadyContexts, Creating
<1>9. pc'[cpu] \notin CreatePoints
  BY <1>5 DEF CreatePoints
<1>10. \A t \in Threads : state'[t] = state[t] \/ (state[t] # Junk /\ state'[t] = "TERMINATED")
  BY <1>4, <1>5, JunkIsNone
<1>11. TurnInv'
  <2>. HIDE DEF TypeInv, TypeOK
  <2>1. QuietCode
    BY <1>1, <1>2, <1>5, <1>6, <1>8, <1>9, <1>10 DEF QuietCode
  <2>. QED
    BY <2>1, CodeTurn
<1>. QED
  BY <1>1, <1>3, <1>4, <1>5, <1>6, <1>11

LEMMA TickTurn ==
  ASSUME Orderly, TypeInv, CurrentInv, TurnInv, Tick
  PROVE  TurnInv' /\ RingKept
<1>. USE DEF TypeInv, TypeOK, TurnInv
<1>1. /\ Depth = 0 /\ cpu \in Threads /\ head # NULL /\ pc[cpu] \in TickAt
      /\ UNCHANGED <<cpu, pc, ip, obj, tail, running, head, state, next, prev, context>>
  BY TickInCode DEF Orderly, Tick, Point, CpuTypeOK
<1>2. Phase = "code" /\ Phase' = "enter"
  BY <1>1, PushStep DEF Phase
<1>3. RingKept
  BY <1>1 DEF RingKept
<1>4. Creators'
  <2>1. Creating(cpu) => pc[cpu] \notin {"c_next", "c_context"} /\ ~WholeCreates
    BY <1>1 DEF Orderly, WholeCreates, SoleCreator, Creating, CreatePoints
  <2>2. \A t \in Threads : Creating(t) =>
          pc[t] \notin {"c_next", "c_context"} /\ ~WholeCreates /\ SoleCreator
    BY <1>2, <2>1, CreatorsAre DEF Orderly, Creators
  <2>. QED
    BY <1>1, <1>2, <2>2 DEF Creators, Creating
<1>5. Created' = Created /\ \A r \in Seq(Threads) : IsRing(r) => IsRing(r)'
  BY <1>3, RingKeptIs
<1>6. Begun' /\ Kinds' /\ TurnState' /\ Scanning' /\ Ring'
  BY <1>1, <1>2, <1>5, CreatedThreads DEF Begun, Kinds, TurnState, Scanning, Ring
<1>7. ReadyContexts'
  BY <1>1, <1>2 DEF ReadyContexts, Creating
<1>. QED
  BY <1>3, <1>4, <1>6, <1>7

-----------------------------------------------------------------------------
(* schedule() changes READY and RUNNING into each other and nothing else   *)
(* that the ring depends on.                                               *)
Scheduling ==
  \/ schedule_Enter(Saved) \/ schedule_Save \/ schedule_Look \/ schedule_Scan
  \/ schedule_Take \/ schedule_Install \/ schedule_Jump

LEMMA SchedulingIs ==
  ASSUME TypeInv, CurrentInv, Scheduling
  PROVE  /\ head # NULL /\ Phase # "code" /\ RingKept /\ UNCHANGED <<head, ip, pc>>
         /\ \A t \in Threads : \/ state'[t] = state[t]
                               \/ {state[t], state'[t]} \subseteq {"READY", "RUNNING"}
<1>1. PICK p \in SchedulePoints : InSchedule(p)
  BY DEF Scheduling, SchedulePoints, schedule_Enter, schedule_Save, schedule_Look,
     schedule_Scan, schedule_Take, schedule_Install, schedule_Jump
<1>2. head # NULL /\ Phase # "code" /\ running \in Threads
  BY <1>1, InScheduleIs DEF SchedulePoints
<1>3. UNCHANGED <<pc, ip, obj, tail, head, next, prev>>
  BY DEF Scheduling, schedule_Enter, schedule_Save, schedule_Look,
     schedule_Scan, schedule_Take, schedule_Install, schedule_Jump
<1>4. \A t \in Threads : \/ state'[t] = state[t]
                         \/ {state[t], state'[t]} \subseteq {"READY", "RUNNING"}
  <2>1. CASE schedule_Enter(Saved)
    BY <1>2, <2>1 DEF schedule_Enter, Saved, TypeInv, TypeOK, LibTypeOK
  <2>2. CASE schedule_Take \/ schedule_Install
    <3>1. /\ state' = [state EXCEPT ![Top.ptr] = "RUNNING"]
          /\ state[Top.ptr] \in {"READY", "RUNNING"} /\ Top.ptr \in Threads
      BY <2>2, InScheduleIs DEF schedule_Take, schedule_Install, CurrentInv, Picked
    <3>. QED
      BY <3>1 DEF TypeInv, TypeOK, LibTypeOK
  <2>3. CASE UNCHANGED state
    BY <2>3
  <2>. QED
    BY <2>1, <2>2, <2>3 DEF Scheduling, schedule_Save, schedule_Look, schedule_Scan,
       schedule_Jump
<1>5. RingKept
  BY <1>3, <1>4 DEF RingKept
<1>. QED
  BY <1>2, <1>3, <1>4, <1>5

LEMMA SchedulingKeeps ==
  ASSUME Orderly, TypeInv, CurrentInv, TurnInv, Scheduling
  PROVE  /\ Creators' /\ Begun' /\ Kinds' /\ Ring'
         /\ \A t \in Threads : Creating(t) => state[obj[t]] = Junk /\ obj[t] \in Threads
<1>1. Created' = Created /\ \A r \in Seq(Threads) : IsRing(r) => IsRing(r)'
  BY SchedulingIs, RingKeptIs
<1>2. \A t \in Threads : Creating(t) =>
        /\ SoleCreator /\ pc[t] \notin {"c_next", "c_context"} /\ state[obj[t]] = Junk
        /\ obj[t] \in Threads /\ ~WholeCreates /\ MayCreate(t)
  <2>1. Phase # "code" /\ Creators
    BY SchedulingIs DEF TurnInv
  <2>2. \A t \in Threads : Creating(t) => ~WholeCreates /\ MayCreate(t) /\ obj[t] \in Threads
    BY <2>1 DEF Creators, TypeInv, LocalsShape, Creating, Threads
  <2>. QED
    BY <2>1, <2>2, CreatorsAre
<1>3. Creators'
  <2>1. UNCHANGED <<pc, obj>> /\ \A t \in Threads : state[t] = Junk => state'[t] = Junk
    BY SchedulingIs, JunkIsNone DEF RingKept
  <2>. QED
    BY <1>2, <2>1 DEF Creators, Creating
<1>4. Begun' /\ Ring'
  BY <1>1, SchedulingIs DEF TurnInv, Begun, Ring
<1>5. Kinds'
  <2>1. \A t \in Created : state[t] \in {"READY", "RUNNING", "TERMINATED"} /\ t \in Threads
    BY CreatedThreads DEF TurnInv, Kinds
  <2>2. \A t \in Created : state'[t] \in {"READY", "RUNNING", "TERMINATED"}
    BY <2>1, SchedulingIs
  <2>. QED
    BY <1>1, <2>2, SchedulingIs DEF TurnInv, Kinds
<1>. QED
  BY <1>2, <1>3, <1>4, <1>5

(* What schedule() walks around.                                           *)
LEMMA LoopExists ==
  ASSUME Orderly, TypeInv, CurrentInv, TurnInv, head # NULL, Phase # "code",
         NEW r \in Seq(Threads), IsRing(r)
  PROVE  \E e \in Seq(Threads) : IsLoop(e, r)
<1>. DEFINE n == Len(r)
<1>1. /\ n \in Nat /\ n > 0 /\ r[1] = Main /\ Distinct(r)
      /\ \A i \in 1..n : r[i] \in Threads /\ r[i] \in Created
      /\ \A i \in 1..n - 1 : next[r[i]] = r[i + 1]
      /\ RingEnd(r[n])
  BY DEF IsRing
<1>2. \A t \in Threads : Creating(t) => pc[t] # "c_next" /\ state[obj[t]] = Junk
  BY CreatorsAre DEF TurnInv
<1>3. CASE \A t \in Threads : pc[t] \notin Appended
  <2>1. next[r[n]] = Main
    BY <1>1, <1>3 DEF RingEnd
  <2>. HIDE DEF n
  <2>2. \A i \in 1..n : next[r[i]] = IF i = n THEN r[1] ELSE r[i + 1]
    <3>1. \A i \in 1..n : i = n \/ i \in 1..n - 1
      BY <1>1
    <3>. QED
      BY <1>1, <2>1, <3>1
  <2>3. IsLoop(r, r)
    BY <1>1, <2>2 DEF IsLoop, n
  <2>. QED
    BY <2>3
<1>4. ASSUME NEW t \in Threads, pc[t] \in Appended
      PROVE  \E e \in Seq(Threads) : IsLoop(e, r)
  <2>. DEFINE w == obj[t]
              e == Append(r, w)
  <2>1. Creating(t)
    BY <1>4 DEF Creating, Appended, CreatePoints
  <2>2. /\ w \in Threads /\ state[w] = Junk /\ pc[t] # "c_next"
    BY <1>2, <2>1 DEF TypeInv, LocalsShape, Creating, Threads
  <2>3. next[r[n]] = w /\ next[w] = Main
    BY <1>1, <1>4, <2>2 DEF RingEnd
  <2>4. \A i \in 1..n : r[i] # w
    BY <1>1, <2>2, JunkIsNone DEF TurnInv, Kinds
  <2>5. /\ e \in Seq(Threads) /\ Len(e) = n + 1 /\ e[n + 1] = w
        /\ \A i \in 1..n : e[i] = r[i]
    BY <2>2
  <2>. HIDE DEF w, e, n
  <2>6. \A i \in 1..n + 1 : i = n + 1 \/ i \in 1..n
    BY <1>1
  <2>7. Distinct(e)
    <3>1. \A i, j \in 1..n : r[i] = r[j] => i = j
      BY <1>1 DEF Distinct, n
    <3>2. \A i, j \in 1..n + 1 : e[i] = e[j] => i = j
      BY <1>1, <2>4, <2>5, <2>6, <3>1
    <3>. QED
      BY <2>5, <3>2 DEF Distinct
  <2>8. ASSUME NEW i \in 1..n + 1
        PROVE  next[e[i]] = IF i = n + 1 THEN e[1] ELSE e[i + 1]
    <3>1. CASE i = n + 1
      BY <1>1, <2>3, <2>5, <3>1
    <3>2. CASE i = n
      <4>1. n \in 1..n /\ i # n + 1 /\ i + 1 = n + 1
        BY <1>1, <3>2
      <4>2. e[i] = r[n]
        BY <2>5, <3>2, <4>1
      <4>. QED
        BY <2>3, <2>5, <4>1, <4>2
    <3>3. CASE i \in 1..n - 1
      <4>1. i \in 1..n /\ i + 1 \in 1..n /\ i # n + 1
        BY <1>1, <3>3
      <4>2. e[i] = r[i] /\ e[i + 1] = r[i + 1]
        BY <2>5, <4>1
      <4>3. next[r[i]] = r[i + 1]
        BY <1>1, <3>3
      <4>. QED
        BY <4>1, <4>2, <4>3
    <3>4. i = n + 1 \/ i = n \/ i \in 1..n - 1
      BY <1>1
    <3>. QED
      BY <3>1, <3>2, <3>3, <3>4
  <2>9. IsLoop(e, r)
    BY <2>2, <2>5, <2>7, <2>8 DEF IsLoop, n
  <2>. QED
    BY <2>5, <2>9
<1>. QED
  BY <1>3, <1>4

(* A step of the search leaves the loop alone.                             *)
LEMMA LoopKept ==
  ASSUME TypeInv, CurrentInv, Scheduling, NEW r \in Seq(Threads), NEW e \in Seq(Threads),
         IsRing(r), IsLoop(e, r)
  PROVE  IsRing(r)' /\ IsLoop(e, r)'
<1>1. IsRing(r)' /\ next' = next
  BY SchedulingIs, RingKeptIs DEF RingKept
<1>2. \A t \in Threads : state[t] = Junk => state'[t] = Junk
  BY SchedulingIs, JunkIsNone
<1>3. Len(e) \in Nat /\ Len(r) \in Nat /\ \A i \in 1..Len(e) : e[i] \in Threads
  OBVIOUS
<1>4. Len(e) = Len(r) \/ (Len(e) = Len(r) + 1 /\ state'[e[Len(e)]] = Junk)
  <2>1. Len(e) = Len(r) + 1 => Len(e) \in 1..Len(e)
    BY <1>3
  <2>. QED
    BY <1>2, <1>3, <2>1 DEF IsLoop
<1>5. IsLoop(e, r)'
  BY <1>1, <1>4 DEF IsLoop, Distinct
<1>. QED
  BY <1>1, <1>5

LEMMA SoonerFirst ==
  ASSUME NEW n \in Nat, NEW p \in 1..n, NEW j \in 1..n
  PROVE  ~Sooner(j, IF p = n THEN 1 ELSE p + 1, p)
  BY DEF Sooner

LEMMA SoonerNext ==
  ASSUME NEW n \in Nat, NEW p \in 1..n, NEW i \in 1..n, NEW j \in 1..n, i # p,
         Sooner(j, IF i = n THEN 1 ELSE i + 1, p)
  PROVE  j = i \/ Sooner(j, i, p)
  BY DEF Sooner

(* schedule() does not fail: the search stays on the ring, and whom it has *)
(* picked can be resumed.                                                  *)
LEMMA NoFault ==
  ASSUME Orderly, TypeInv, CurrentInv, TurnInv
  PROVE  ~schedule_Fault
<1>1. ASSUME InSchedule("scan") PROVE Top.ptr \in Threads
  <2>1. Phase = "scan"
    BY <1>1, InScheduleIs
  <2>2. PICK r, e \in Seq(Threads) : \E i \in 1..Len(e) : \E p \in 1..Len(r) : SearchAt(e, i, p)
    BY <2>1 DEF TurnInv, Scanning
  <2>. QED
    BY <2>2 DEF SearchAt
<1>2. ASSUME InSchedule("jump") PROVE Resumable(Top.ptr)
  <2>1. /\ Phase = "jump" /\ Depth = 1 /\ running \in Threads /\ Top.ptr = running
        /\ cpu \in Threads
    BY <1>2, InScheduleIs
  <2>2. context[Top.ptr] = [owner |-> Top.ptr, depth |-> 1]
    BY <2>1 DEF TurnInv, ReadyContexts, CurrentInv, OwnContexts
  <2>3. Len(act[Top.ptr]) = 1
    BY <2>1 DEF CurrentInv, OneActivation, Depth
  <2>4. context[Top.ptr].owner = Top.ptr /\ context[Top.ptr].depth = 1
    BY <2>2
  <2>5. context[Top.ptr].depth \in 1..Len(act[context[Top.ptr].owner])
    <3>1. Len(act[context[Top.ptr].owner]) = 1
      BY <2>3, <2>4
    <3>. QED
      BY <2>4, <3>1
  <2>. QED
    BY <2>1, <2>4, <2>5 DEF Resumable
<1>. QED
  BY <1>1, <1>2 DEF schedule_Fault

LEMMA JumpIs ==
  ASSUME TypeInv, CurrentInv, schedule_Jump
  PROVE  /\ Phase = "jump" /\ cpu' = running /\ running \in Threads /\ Phase' = "code"
         /\ Top.ptr = running /\ state[running] = "RUNNING"
         /\ context' = [context EXCEPT ![running] = NoContext]
         /\ UNCHANGED <<running, state>>
<1>. DEFINE c == context[Top.ptr]
<1>1. /\ Phase = "jump" /\ running = Top.ptr /\ Depth = 1
      /\ running \in Threads /\ cpu \in Threads
      /\ c.owner \in Threads /\ cpu' = c.owner
      /\ act' = [act EXCEPT ![c.owner] = SubSeq(@, 1, c.depth - 1)]
      /\ context' = [context EXCEPT ![running] = NoContext]
      /\ UNCHANGED <<running, state>>
  BY InScheduleIs, JumpClears DEF schedule_Jump, Resumable
<1>2. c # NoContext
  BY <1>1 DEF NoContext, Threads
<1>3. c = [owner |-> running, depth |-> 1]
  BY <1>1, <1>2 DEF CurrentInv, OwnContexts
<1>4. cpu' = running /\ act' = [act EXCEPT ![running] = SubSeq(@, 1, 0)]
  BY <1>1, <1>3
<1>5. SubSeq(act[running], 1, 0) = <<>>
  BY <1>1 DEF TypeInv, TypeOK, CpuTypeOK
<1>6. act'[running] = <<>>
  BY <1>1, <1>4, <1>5 DEF TypeInv, TypeOK, CpuTypeOK
<1>7. Phase' = "code"
  BY <1>4, <1>6 DEF Phase, Depth
<1>. QED
  BY <1>1, <1>4, <1>7 DEF CurrentInv, Picked

LEMMA ReadyStep ==
  ASSUME Orderly, TypeInv, CurrentInv, TurnInv, Scheduling
  PROVE  ReadyContexts' /\ TurnState'
<1>. USE DEF TypeInv, TypeOK, TurnInv
<1>1. /\ UNCHANGED <<pc, obj, head>> /\ head # NULL /\ running \in Threads
  BY SchedulingIs DEF RingKept, HeadShape, LibTypeOK
<1>2. ASSUME NEW p, InSchedule(p)
      PROVE  /\ Depth > 0 /\ Phase = p /\ Top.at = p /\ Top \in Frames /\ cpu \in Threads
             /\ p # "jump" => running = cpu
             /\ p \in {"take", "install"} => Top.ptr \in Threads
  BY <1>2, InScheduleIs
<1>3. CASE schedule_Enter(Saved)
  <2>1. /\ Phase = "enter" /\ Depth > 0 /\ UNCHANGED <<cpu, running, context>>
        /\ \/ SetTop(Frame("save")) /\ state' = [state EXCEPT ![running] = "READY"]
           \/ SetTop(Frame("look")) /\ UNCHANGED state
    BY <1>1, <1>2, <1>3 DEF schedule_Enter, Saved, LibTypeOK
  <2>2. \/ Phase' = "save" /\ \A t \in Threads \ {running} : state'[t] = state[t]
        \/ Phase' = "look" /\ UNCHANGED state
    BY <2>1, SetTopPhase DEF Frame, CurrentInv, LibTypeOK
  <2>. QED
    BY <1>1, <2>1, <2>2 DEF ReadyContexts, TurnState, Creating
<1>4. CASE schedule_Save
  <2>1. /\ Phase = "save" /\ Depth > 0 /\ UNCHANGED <<cpu, running, state>>
        /\ context' = [context EXCEPT ![running] = [owner |-> cpu, depth |-> Depth]]
        /\ SetTop(Frame("look")) /\ cpu \in Threads
    BY <1>2, <1>4 DEF schedule_Save
  <2>2. Phase' = "look"
    BY <2>1, SetTopPhase DEF Frame, CurrentInv
  <2>3. context'[running].owner \in Threads
    BY <1>1, <2>1 DEF LibTypeOK
  <2>4. context'[running] # NoContext /\ \A t \in Threads \ {running} : context'[t] = context[t]
    BY <1>1, <2>1, <2>3 DEF LibTypeOK, NoContext, Threads
  <2>. QED
    BY <1>1, <2>1, <2>2, <2>4 DEF ReadyContexts, TurnState, Creating
<1>5. CASE schedule_Look \/ schedule_Scan
  <2>1. /\ Phase \in {"look", "scan"} /\ UNCHANGED <<cpu, running, state, context>>
        /\ UNCHANGED act \/ \E f : SetTop(f) /\ f.at \in {"scan", "take"}
    <3>1. CASE schedule_Look
      BY <1>2, <3>1 DEF schedule_Look
    <3>2. CASE schedule_Scan
      <4>1. /\ [Top EXCEPT !.at = "take"].at = "take"
            /\ [Top EXCEPT !.ptr = next[Top.ptr]].at = "scan"
        BY <1>2, <3>2 DEF schedule_Scan, Frames
      <4>2. /\ Phase = "scan" /\ UNCHANGED <<cpu, running, state, context>>
            /\ \/ UNCHANGED act \/ SetTop([Top EXCEPT !.at = "take"])
               \/ SetTop([Top EXCEPT !.ptr = next[Top.ptr]])
        BY <1>2, <3>2 DEF schedule_Scan
      <4>. QED
        BY <4>1, <4>2
    <3>. QED
      BY <1>5, <3>1, <3>2
  <2>2. Depth > 0
    BY <2>1 DEF Phase, CurrentInv, OneActivation
  <2>3. Phase' \in {"look", "scan", "take"}
    BY <2>1, <2>2, SetTopPhase DEF Phase, Depth, Top, CurrentInv
  <2>. QED
    BY <1>1, <2>1, <2>3 DEF ReadyContexts, TurnState, Creating
<1>6. CASE schedule_Take \/ schedule_Install
  <2>1. /\ Phase \in {"take", "install"} /\ Depth > 0 /\ Top.ptr \in Threads
        /\ state' = [state EXCEPT ![Top.ptr] = "RUNNING"]
        /\ UNCHANGED <<cpu, context>>
    BY <1>2, <1>6 DEF schedule_Take, schedule_Install
  <2>2. PICK p \in {"install", "jump"} : SetTop([Top EXCEPT !.at = p]) /\ Top \in Frames
    BY <1>2, <1>6 DEF schedule_Take, schedule_Install
  <2>3. [Top EXCEPT !.at = p].at = p /\ [Top EXCEPT !.at = p].ptr = Top.ptr
    BY <2>2 DEF Frames
  <2>4. Phase' = p /\ Top'.ptr = Top.ptr
    BY <2>1, <2>2, <2>3, SetTopPhase DEF CurrentInv
  <2>5. \A t \in Threads : state'[t] = "READY" => state[t] = "READY"
    BY <2>1 DEF LibTypeOK
  <2>6. context[Top.ptr] # NoContext
    <3>1. CASE Phase = "install"
      BY <3>1 DEF ReadyContexts
    <3>2. CASE Phase = "take"
      <4>1. state[Top.ptr] = "READY"
        BY <3>2 DEF CurrentInv, Picked
      <4>2. \A u \in Threads : Creating(u) => obj[u] # Top.ptr
        BY <4>1, SchedulingKeeps, JunkIsNone
      <4>. QED
        BY <2>1, <3>2, <4>1, <4>2 DEF ReadyContexts
    <3>. QED
      BY <2>1, <3>1, <3>2
  <2>. QED
    BY <1>1, <2>1, <2>4, <2>5, <2>6 DEF ReadyContexts, TurnState, Creating
<1>7. CASE schedule_Jump
  <2>1. \A t \in Threads \ {running} : context'[t] = context[t]
    BY <1>7, JumpIs DEF LibTypeOK
  <2>. QED
    BY <1>1, <1>7, <2>1, JumpIs DEF ReadyContexts, TurnState, Creating
<1>. QED
  BY <1>3, <1>4, <1>5, <1>6, <1>7 DEF Scheduling

LEMMA ScanningStep ==
  ASSUME Orderly, TypeInv, CurrentInv, TurnInv, Scheduling
  PROVE  Scanning'
<1>. USE DEF TypeInv, TypeOK, TurnInv
<1>1. ASSUME NEW p, InSchedule(p)
      PROVE  /\ Depth > 0 /\ Phase = p /\ Top.at = p /\ Top \in Frames /\ head # NULL
             /\ p \in {"take", "install"} => Top.ptr \in Threads
             /\ running \in Threads
  BY <1>1, InScheduleIs
<1>2. CASE schedule_Enter(Saved) \/ schedule_Save
  <2>1. Depth > 0 /\ UNCHANGED cpu /\ \E p \in {"save", "look"} : SetTop(Frame(p))
    BY <1>1, <1>2 DEF schedule_Enter, schedule_Save
  <2>2. Phase' \in {"save", "look"}
    BY <2>1, SetTopPhase DEF Frame, CurrentInv
  <2>. QED
    BY <2>2 DEF Scanning
<1>3. CASE schedule_Install \/ schedule_Jump
  <2>1. CASE schedule_Install
    <3>1. Depth > 0 /\ UNCHANGED cpu /\ SetTop([Top EXCEPT !.at = "jump"]) /\ Top \in Frames
      BY <1>1, <2>1 DEF schedule_Install
    <3>2. [Top EXCEPT !.at = "jump"].at = "jump"
      BY <3>1 DEF Frames
    <3>3. Phase' = "jump"
      BY <3>1, <3>2, SetTopPhase DEF CurrentInv
    <3>. QED
      BY <3>3 DEF Scanning
  <2>2. CASE schedule_Jump
    BY <2>2, JumpIs DEF Scanning
  <2>. QED
    BY <1>3, <2>1, <2>2
<1>4. CASE schedule_Look
  <2>1. /\ Phase = "look" /\ Depth > 0 /\ head # NULL /\ running \in Threads
        /\ UNCHANGED <<cpu, running, next, state>>
    BY <1>1, <1>4 DEF schedule_Look
  <2>. DEFINE f == [at |-> "scan", ptr |-> next[running], end |-> next[running]]
  <2>2. SetTop(f) /\ f.at = "scan" /\ f.ptr = next[running] /\ f.end = next[running]
    BY <1>4 DEF schedule_Look
  <2>. HIDE DEF f
  <2>3. Phase' = "scan" /\ Top'.ptr = next[running] /\ Top'.end = next[running]
    BY <2>1, <2>2, SetTopPhase DEF CurrentInv
  <2>4. PICK r \in Seq(Threads) : IsRing(r)
    BY <2>1 DEF Ring
  <2>5. PICK e \in Seq(Threads) : IsLoop(e, r)
    BY <2>1, <2>4, LoopExists
  <2>6. PICK p \in 1..Len(r) : r[p] = running
    <3>1. running \in Created
      BY <2>1, RunningCreated
    <3>. QED
      BY <2>1, <2>4, <3>1 DEF IsRing
  <2>. DEFINE n == Len(e)
              i == IF p = n THEN 1 ELSE p + 1
  <2>7. n \in Nat /\ p \in 1..n /\ i \in 1..n /\ e[p] = running /\ e[i] = next[running]
    <3>1. n \in Nat /\ Len(r) \in Nat /\ p \in 1..n
      BY <2>5 DEF IsLoop
    <3>2. e[p] = running
      BY <2>5, <2>6 DEF IsLoop
    <3>3. next[e[p]] = IF p = n THEN e[1] ELSE e[p + 1]
      BY <2>5, <3>1 DEF IsLoop
    <3>. QED
      BY <3>1, <3>2, <3>3
  <2>8. \A j \in 1..n : ~Sooner(j, i, p)
    <3>1. n \in Nat /\ p \in 1..n
      BY <2>7
    <3>. HIDE DEF n
    <3>. QED
      BY <3>1, SoonerFirst
  <2>. HIDE DEF n, i
  <2>9. SearchAt(e, i, p)'
    <3>1. running' = running /\ next' = next
      BY <2>1
    <3>. QED
      BY <2>3, <2>7, <2>8, <3>1 DEF SearchAt, n
  <2>10. IsRing(r)' /\ IsLoop(e, r)'
    BY <2>4, <2>5, LoopKept
  <2>. QED
    BY <2>6, <2>7, <2>9, <2>10 DEF Scanning, n
<1>5. CASE schedule_Scan \/ schedule_Take
  <2>1. /\ Phase \in {"scan", "take"} /\ Depth > 0 /\ Top \in Frames /\ running \in Threads
        /\ UNCHANGED <<cpu, running, next>>
        /\ Phase = "scan" => UNCHANGED state
        /\ Phase = "take" => state' = [state EXCEPT ![Top.ptr] = "RUNNING"]
    BY <1>1, <1>5 DEF schedule_Scan, schedule_Take
  <2>2. PICK r, e \in Seq(Threads) :
          /\ IsRing(r) /\ IsLoop(e, r)
          /\ \E i \in 1..Len(e) : \E p \in 1..Len(r) : SearchAt(e, i, p)
    BY <2>1 DEF Scanning
  <2>3. PICK i \in 1..Len(e), p \in 1..Len(r) : SearchAt(e, i, p)
    BY <2>2
  <2>4. IsRing(r)' /\ IsLoop(e, r)'
    BY <2>2, LoopKept
  <2>5. \A j \in 1..Len(e) : e[j] \in Threads /\ (state[e[j]] # "READY" => state'[e[j]] # "READY")
    BY <2>1 DEF LibTypeOK
  <2>6. CASE Phase = "scan" /\ UNCHANGED act
    <3>1. Phase = "scan" /\ Phase' = Phase /\ Top' = Top /\ UNCHANGED state
      BY <2>1, <2>6 DEF Phase, Depth, Top
    <3>2. SearchAt(e, i, p)'
      BY <2>1, <2>3, <2>5, <3>1 DEF SearchAt
    <3>. QED
      BY <2>4, <3>2 DEF Scanning
  <2>7. CASE \E q \in {"take", "install"} : SetTop([Top EXCEPT !.at = q])
    <3>1. PICK q \in {"take", "install"} : SetTop([Top EXCEPT !.at = q])
      BY <2>7
    <3>2. [Top EXCEPT !.at = q].at = q /\ [Top EXCEPT !.at = q].ptr = Top.ptr
      BY <2>1 DEF Frames
    <3>3. Phase' = q /\ Top'.ptr = Top.ptr
      BY <2>1, <3>1, <3>2, SetTopPhase DEF CurrentInv
    <3>4. SearchAt(e, i, p)'
      BY <2>1, <2>3, <2>5, <3>3 DEF SearchAt
    <3>. QED
      BY <2>4, <3>4 DEF Scanning
  <2>8. CASE /\ Phase = "scan" /\ state[Top.ptr] # "READY" /\ next[Top.ptr] # Top.end
             /\ SetTop([Top EXCEPT !.ptr = next[Top.ptr]])
    <3>. DEFINE f == [Top EXCEPT !.ptr = next[Top.ptr]]
                n == Len(e)
                k == IF i = n THEN 1 ELSE i + 1
    <3>1. SetTop(f) /\ f.at = "scan" /\ f.ptr = next[Top.ptr] /\ f.end = Top.end
      BY <2>1, <2>8, <1>1, <1>5 DEF Frames, schedule_Scan, schedule_Take
    <3>. HIDE DEF f
    <3>2. Phase' = "scan" /\ Top'.ptr = next[Top.ptr] /\ Top'.end = Top.end
      BY <2>1, <3>1, SetTopPhase DEF CurrentInv
    <3>3. /\ e[p] = running /\ e[i] = Top.ptr /\ Top.end = next[running] /\ i # p
          /\ \A j \in 1..Len(e) : Sooner(j, i, p) => state[e[j]] # "READY"
      BY <2>3, <2>8 DEF SearchAt
    <3>4. n \in Nat /\ p \in 1..n /\ i \in 1..n
      <4>1. Len(r) \in Nat /\ n \in Nat /\ n \in {Len(r), Len(r) + 1}
        BY <2>2 DEF IsLoop
      <4>2. i \in 1..n /\ p \in 1..Len(r)
        BY <2>2
      <4>. QED
        BY <4>1, <4>2
    <3>5. k \in 1..n /\ e[k] = next[Top.ptr]
      <4>1. next[e[i]] = IF i = n THEN e[1] ELSE e[i + 1]
        BY <2>2, <3>4 DEF IsLoop
      <4>. QED
        BY <3>3, <3>4, <4>1
    <3>6. ASSUME NEW j \in 1..n, Sooner(j, k, p) PROVE state[e[j]] # "READY"
      <4>1. j = i \/ Sooner(j, i, p)
        <5>. HIDE DEF n
        <5>. QED
          BY <3>3, <3>4, <3>6, SoonerNext
      <4>. QED
        BY <2>8, <3>3, <4>1
    <3>. HIDE DEF n, k
    <3>7. SearchAt(e, k, p)'
      <4>1. running' = running /\ next' = next /\ state' = state
        BY <2>1, <2>8
      <4>. QED
        BY <3>2, <3>3, <3>5, <3>6, <4>1 DEF SearchAt, n
    <3>. QED
      BY <2>4, <3>2, <3>5, <3>7 DEF Scanning, n
  <2>. QED
    BY <1>1, <1>5, <2>1, <2>6, <2>7, <2>8 DEF schedule_Scan, schedule_Take
<1>. QED
  BY <1>2, <1>3, <1>4, <1>5 DEF Scheduling

LEMMA TurnStep ==
  ASSUME Orderly, TypeInv, CurrentInv, TurnInv, [Next]_coreVars
  PROVE  TurnInv'
<1>1. CASE UNCHANGED <<masked, cpuVars, tail, handle, libVars, tcbVars>>
  <2>1. UNCHANGED <<cpu, pc, act, ip, obj, tail, head, running, state, next, prev, context>>
    BY <1>1
  <2>2. RingKept
    BY <2>1 DEF RingKept
  <2>3. Created' = Created /\ \A r \in Seq(Threads) : IsRing(r) => IsRing(r)'
    BY <2>2, RingKeptIs
  <2>4. Phase' = Phase /\ Top' = Top
    BY <2>1 DEF Phase, Depth, Top
  <2>5. Creators' /\ Begun' /\ Kinds' /\ TurnState' /\ ReadyContexts' /\ Ring'
    BY <2>1, <2>3, <2>4 DEF TurnInv, Creators, Begun, Kinds, TurnState, ReadyContexts,
       Creating, Ring
  <2>6. Scanning'
    <3>1. SUFFICES ASSUME Phase \in {"scan", "take", "install"} PROVE Scanning'
      BY <2>4 DEF Scanning
    <3>2. PICK r, e \in Seq(Threads) :
            /\ IsRing(r) /\ IsLoop(e, r)
            /\ \E i \in 1..Len(e) : \E p \in 1..Len(r) : SearchAt(e, i, p)
      BY <3>1 DEF TurnInv, Scanning
    <3>3. IsRing(r)' /\ IsLoop(e, r)'
      BY <2>1, <2>3, <3>2 DEF IsLoop, Distinct
    <3>4. \A i \in 1..Len(e) : \A p \in 1..Len(r) : SearchAt(e, i, p) => SearchAt(e, i, p)'
      BY <2>1, <2>4 DEF SearchAt
    <3>. QED
      BY <3>2, <3>3, <3>4 DEF Scanning
  <2>. QED
    BY <2>5, <2>6 DEF TurnInv
<1>2. CASE Scheduling
  BY <1>2, SchedulingKeeps, ReadyStep, ScanningStep DEF TurnInv
<1>3. CASE pthread_create_Ready
  BY <1>3, ReadyTurn
<1>. QED
  BY <1>1, <1>2, <1>3, CreateEnterTurn, CreateFirstTurn, LinkingTurn, ContextTurn,
     NoMemoryTurn, ExitTurn, TickTurn
  DEF Next, Library, Ended, MainReturns, pthread_exit_Fault, pthread_create_Fault,
      schedule_Fault, Fault, pthread_create, Linking, schedule, Scheduling

-----------------------------------------------------------------------------
(* The refinement.                                                         *)
Inv == TypeInv /\ CurrentInv /\ TurnInv

SameRing == Created' = Created /\ \A r \in Seq(Threads) : IsRing(r) => IsRing(r)'

LEMMA SameOrder ==
  ASSUME Inv, OrderInv, OrderInv', SameRing, UNCHANGED head, head # NULL
  PROVE  Order' = Order
<1>1. PICK r \in Seq(Threads) : IsRing(r)
  BY DEF Inv, TurnInv, Ring
<1>. QED
  BY <1>1 DEF OrderInv, SameRing

(* What RoundRobin's variables stand for.                                  *)
TheOrder == IF head = NULL THEN <<Main>> ELSE Order
TheAlive == IF head = NULL THEN {Main} ELSE Alive
TheTurn  == IF head = NULL THEN Main ELSE running

SameTurns == UNCHANGED <<TheOrder, TheAlive, TheTurn>>

LEMMA SameTurnsIs ==
  ASSUME Inv, OrderInv, OrderInv', SameRing, UNCHANGED <<head, running>>,
         \A t \in Threads : state'[t] = "TERMINATED" <=> state[t] = "TERMINATED"
  PROVE  SameTurns
<1>1. CASE head = NULL
  BY <1>1 DEF SameTurns, TheOrder, TheAlive, TheTurn
<1>2. CASE head # NULL
  <2>1. Order' = Order
    BY <1>2, SameOrder
  <2>2. Alive' = Alive
    BY CreatedThreads DEF Alive, SameRing
  <2>. QED
    BY <1>2, <2>1, <2>2 DEF SameTurns, TheOrder, TheAlive, TheTurn
<1>. QED
  BY <1>1, <1>2

(* Only a thread alive runs code, but for the loop of pthread_exit.        *)
LEMMA TurnAlive ==
  ASSUME Orderly, Inv, Phase = "code", pc[cpu] # "x_spin"
  PROVE  TheTurn \in TheAlive /\ TheTurn = cpu
<1>1. CASE head = NULL
  BY <1>1 DEF TheTurn, TheAlive, Inv, TypeInv, HeadShape
<1>2. CASE head # NULL
  <2>1. running = cpu /\ state[cpu] = "RUNNING" /\ running \in Created
    BY <1>2, RunningCreated DEF Inv, CurrentInv, Current, TurnInv, TurnState
  <2>. QED
    BY <1>2, <2>1 DEF TheTurn, TheAlive, Alive
<1>. QED
  BY <1>1, <1>2

(* The steps that RoundRobin does not see.                                 *)
LEMMA QuietTurns ==
  ASSUME Orderly, Inv, OrderInv, OrderInv',
         \/ \E w \in Workers : \/ pthread_create_NoMemory(w)
                               \/ \E u \in Uninit : pthread_create_Enter(w, u)
         \/ pthread_create_First \/ Linking \/ pthread_create_Context \/ Tick
         \/ schedule_Enter(Saved) \/ schedule_Save \/ schedule_Look \/ schedule_Take
         \/ schedule_Jump
  PROVE  SameTurns /\ UNCHANGED status
<1>. USE DEF Inv
<1>1. CASE pthread_create_First
  <2>1. Created' = {Main} /\ IsRing(<<Main>>)' /\ <<Main>> \in Seq(Threads)
    BY <1>1, CreateFirstTurn DEF Threads
  <2>2. /\ head = NULL /\ head' = Main /\ Main # NULL /\ running' = Main
        /\ state'[Main] = "RUNNING" /\ UNCHANGED status
    BY <1>1 DEF pthread_create_First, TypeInv, TypeOK, LibTypeOK, Threads
  <2>3. Order' = <<Main>>
    BY <2>1, <2>2 DEF OrderInv
  <2>4. Alive' = {Main}
    BY <2>1, <2>2 DEF Alive
  <2>5. TheOrder' = TheOrder /\ TheAlive' = TheAlive /\ TheTurn' = TheTurn
    BY <2>2, <2>3, <2>4 DEF TheOrder, TheAlive, TheTurn
  <2>. QED
    BY <2>2, <2>5 DEF SameTurns
<1>2. ASSUME NEW w \in Workers, NEW u \in Uninit, pthread_create_Enter(w, u)
      PROVE  SameTurns /\ UNCHANGED status
  <2>1. SameRing
    BY <1>2, CreateEnterTurn DEF SameRing
  <2>2. UNCHANGED <<head, running, status>>
    BY <1>2 DEF pthread_create_Enter
  <2>3. \A t \in Threads : state'[t] = "TERMINATED" <=> state[t] = "TERMINATED"
    BY <1>2, FreshTypes DEF pthread_create_Enter, TypeInv, TypeOK, LibTypeOK
  <2>. QED
    BY <2>1, <2>2, <2>3, SameTurnsIs
<1>3. CASE Linking
  <2>1. SameRing /\ UNCHANGED <<head, running, state>>
    BY <1>3, LinkingTurn, LinkingIs DEF SameRing
  <2>2. UNCHANGED status
    BY <1>3 DEF Linking, pthread_create_Tail, pthread_create_Append, pthread_create_Next, pthread_create_Prev,
       pthread_create_Fill
  <2>. QED
    BY <2>1, <2>2, SameTurnsIs
<1>4. ASSUME RingKept, UNCHANGED <<head, running, status>>,
             \A t \in Threads : state'[t] = "TERMINATED" <=> state[t] = "TERMINATED"
      PROVE  SameTurns /\ UNCHANGED status
  <2>1. SameRing
    BY <1>4, RingKeptIs DEF SameRing
  <2>. QED
    BY <1>4, <2>1, SameTurnsIs
<1>5. ASSUME NEW w \in Workers, pthread_create_NoMemory(w)
      PROVE  SameTurns /\ UNCHANGED status
  <2>1. RingKept /\ UNCHANGED <<head, running, status, state>>
    BY <1>5, NoMemoryTurn DEF pthread_create_NoMemory
  <2>. QED
    BY <1>4, <2>1
<1>6. CASE pthread_create_Context
  <2>1. RingKept /\ UNCHANGED <<head, running, status, state>>
    BY <1>6, ContextTurn DEF pthread_create_Context
  <2>. QED
    BY <1>4, <2>1
<1>7. CASE Tick
  <2>1. RingKept /\ UNCHANGED <<head, running, status, state>>
    BY <1>7, TickTurn DEF Tick
  <2>. QED
    BY <1>4, <2>1
<1>8. CASE \/ schedule_Enter(Saved) \/ schedule_Save \/ schedule_Look \/ schedule_Take
           \/ schedule_Jump
  <2>1. Scheduling
    BY <1>8 DEF Scheduling
  <2>2. UNCHANGED <<head, running, status>>
    BY <1>8 DEF schedule_Enter, schedule_Save, schedule_Look, schedule_Take, schedule_Jump
  <2>3. \A t \in Threads : state'[t] = "TERMINATED" <=> state[t] = "TERMINATED"
    BY <2>1, SchedulingIs
  <2>. QED
    BY <1>4, <2>1, <2>2, <2>3, SchedulingIs
<1>. QED
  BY <1>1, <1>2, <1>3, <1>5, <1>6, <1>7, <1>8

(* The steps that it does see: a thread is created,                        *)
LEMMA ReadyCreates ==
  ASSUME Orderly, Inv, OrderInv, OrderInv', pthread_create_Ready
  PROVE  RR!Next
<1>1. SUFFICES ASSUME NEW w, w = obj[cpu] PROVE RR!Next
  OBVIOUS
<1>2. /\ Created' = Created \cup {w} /\ w \in Threads \ Created
      /\ \A r \in Seq(Threads) : IsRing(r) => IsRing(Append(r, w))'
  BY <1>1, ReadyTurn DEF Inv
<1>3. /\ status = "up" /\ UNCHANGED <<status, running, head>> /\ Phase = "code"
      /\ pc[cpu] # "x_spin" /\ head # NULL
      /\ state' = [state EXCEPT ![w] = "READY"]
  BY <1>1, CreateStoreIs DEF CreateStore, pthread_create_Ready, InBase, Phase, Inv, Threads
<1>4. PICK r \in Seq(Threads) : IsRing(r)
  BY <1>3 DEF Inv, TurnInv, Ring
<1>5. Order = r /\ Order' = Append(r, w)
  <2>1. Append(r, w) \in Seq(Threads)
    BY <1>2, <1>4
  <2>2. IsRing(Append(r, w))'
    BY <1>2, <1>4
  <2>3. SUFFICES ASSUME NEW q \in Seq(Threads), q = Append(r, w), IsRing(q)'
                 PROVE  Order = r /\ Order' = q
    BY <2>1, <2>2
  <2>. QED
    BY <1>3, <1>4, <2>3 DEF OrderInv
<1>6. \A i \in 1..Len(r) : r[i] # w
  BY <1>2, <1>4 DEF IsRing
<1>7. Alive' = Alive \cup {w}
  <2>1. state'[w] = "READY" /\ \A t \in Threads \ {w} : state'[t] = state[t]
    BY <1>2, <1>3 DEF Inv, TypeInv, TypeOK, LibTypeOK
  <2>. QED
    BY <1>2, <2>1, CreatedThreads DEF Alive
<1>8. /\ TheTurn \in TheAlive /\ \A i \in 1..Len(TheOrder) : TheOrder[i] # w
      /\ TheOrder' = Append(TheOrder, w) /\ TheAlive' = TheAlive \cup {w}
      /\ TheTurn' = TheTurn
  BY <1>3, <1>5, <1>6, <1>7, TurnAlive DEF TheOrder, TheAlive, TheTurn
<1>9. RR!Create(w)
  BY <1>3, <1>8 DEF RR!Create, TheOrder, TheAlive, TheTurn
<1>. QED
  BY <1>2, <1>3, <1>9 DEF RR!Next

(* exits,                                                                  *)
LEMMA ExitExits ==
  ASSUME Orderly, Inv, OrderInv, OrderInv', pthread_exit
  PROVE  RR!Next
<1>1. /\ RingKept /\ head # NULL /\ UNCHANGED <<head, running, status>>
      /\ running \in Threads /\ state[running] = "RUNNING" /\ state'[running] = "TERMINATED"
      /\ \A t \in Threads \ {running} : state'[t] = state[t]
  BY ExitTurn DEF Inv
<1>2. SameRing
  BY <1>1, RingKeptIs DEF SameRing
<1>3. Order' = Order
  BY <1>1, <1>2, SameOrder
<1>4. running \in Alive /\ Alive' = Alive \ {running}
  <2>1. running \in Created
    BY <1>1, RunningCreated DEF Inv
  <2>. QED
    BY <1>1, <1>2, <2>1, CreatedThreads DEF Alive, SameRing
<1>5. /\ TheTurn \in TheAlive /\ TheAlive' = TheAlive \ {TheTurn}
      /\ TheOrder' = TheOrder /\ TheTurn' = TheTurn
  BY <1>1, <1>3, <1>4 DEF TheOrder, TheAlive, TheTurn
<1>6. status = "up"
  BY DEF pthread_exit, Calling, InBase
<1>. QED
  BY <1>1, <1>5, <1>6 DEF RR!Next, RR!Exit, TheOrder, TheAlive, TheTurn

(* gets its turn,                                                          *)
LEMMA InstallSwitches ==
  ASSUME Orderly, Inv, OrderInv, OrderInv', schedule_Install
  PROVE  RR!Next
<1>. USE DEF Inv
<1>1. /\ Phase = "install" /\ head # NULL /\ UNCHANGED <<head, status>> /\ status = "up"
      /\ running \in Threads /\ Top.ptr \in Threads /\ running' = Top.ptr
      /\ state[Top.ptr] = "RUNNING"
  <2>1. InSchedule("install") /\ running' = Top.ptr /\ UNCHANGED <<head, status>>
    BY DEF schedule_Install
  <2>. QED
    BY <2>1, InScheduleIs DEF CurrentInv, Picked
<1>2. SameRing /\ \A t \in Threads : state'[t] = "TERMINATED" <=> state[t] = "TERMINATED"
  BY SchedulingIs, RingKeptIs DEF Scheduling, SameRing
<1>3. Order' = Order /\ Alive' = Alive
  BY <1>1, <1>2, SameOrder, CreatedThreads DEF Alive, SameRing
<1>4. PICK r, e \in Seq(Threads) :
        /\ IsRing(r) /\ IsLoop(e, r)
        /\ \E i \in 1..Len(e) : \E p \in 1..Len(r) : SearchAt(e, i, p)
  BY <1>1 DEF TurnInv, Scanning
<1>5. PICK i \in 1..Len(e), p \in 1..Len(r) : SearchAt(e, i, p)
  BY <1>4
<1>6. Len(e) \in Nat /\ Len(r) \in Nat /\ Len(e) \in {Len(r), Len(r) + 1}
  BY <1>4 DEF IsLoop
<1>7. i \in 1..Len(r)
  <2>1. e[i] = Top.ptr
    BY <1>5 DEF SearchAt
  <2>2. Len(e) = Len(r) + 1 => i # Len(e)
    BY <1>1, <1>4, <2>1, JunkIsNone DEF IsLoop
  <2>. QED
    BY <1>6, <2>2
<1>8. /\ Distinct(r) /\ r[i] = Top.ptr /\ r[p] = running
      /\ \A j \in 1..Len(r) : Sooner(j, i, p) => state[r[j]] # "READY"
  <2>2. \A j \in 1..Len(r) : e[j] = r[j]
    BY <1>4 DEF IsLoop
  <2>3. \A j \in 1..Len(r) : j \in 1..Len(e)
    BY <1>6
  <2>1. \A j \in 1..Len(r) : e[j] = r[j] /\ j \in 1..Len(e)
    BY <2>2, <2>3
  <2>. QED
    BY <1>4, <1>5, <1>7, <2>1 DEF SearchAt, IsRing
<1>9. FirstOf(r, Alive, i, p)
  <2>1. Top.ptr \in Alive
    BY <1>1, <1>4, <1>7, <1>8 DEF Alive, IsRing
  <2>2. ASSUME NEW t \in Alive PROVE \E j \in 1..Len(r) : r[j] = t /\ ~Sooner(j, i, p)
    <3>1. t \in Created /\ t \in Threads /\ state[t] # "TERMINATED"
      BY CreatedThreads DEF Alive
    <3>2. state[t] = "READY" \/ t = Top.ptr
      BY <1>1, <3>1 DEF TurnInv, Kinds, CurrentInv, RunningState
    <3>3. PICK j \in 1..Len(r) : r[j] = t
      BY <1>4, <3>1 DEF IsRing
    <3>4. CASE state[t] = "READY"
      BY <1>8, <3>3, <3>4
    <3>5. CASE t = Top.ptr
      <4>1. j = i
        BY <1>7, <1>8, <3>3, <3>5 DEF Distinct
      <4>2. ~Sooner(i, i, p)
        BY <1>7 DEF Sooner
      <4>. QED
        BY <3>3, <4>1, <4>2
    <3>. QED
      BY <3>2, <3>4, <3>5
  <2>. QED
    BY <1>8, <2>1, <2>2 DEF FirstOf
<1>10. Order = r
  BY <1>1, <1>4 DEF OrderInv
<1>11. FollowerIn(r, Alive, running) = Top.ptr
  <2>1. FollowerIn(r, Alive, r[p]) = r[i]
    BY <1>7, <1>8, <1>9, FollowerIs
  <2>. QED
    BY <1>8, <2>1
<1>12. RR!Follower = Top.ptr
  BY <1>1, <1>10, <1>11, FollowerMap
<1>13. RR!Switch
  <2>1. /\ TheAlive # {} /\ TheTurn' = RR!Follower
        /\ TheOrder' = TheOrder /\ TheAlive' = TheAlive
    BY <1>1, <1>3, <1>9, <1>12 DEF TheOrder, TheAlive, TheTurn, FirstOf
  <2>. QED
    BY <1>1, <2>1 DEF RR!Switch, TheOrder, TheAlive, TheTurn
<1>. QED
  BY <1>1, <1>13 DEF RR!Next

(* or the process ends.                                                    *)
LEMMA EndEnds ==
  ASSUME Orderly, Inv, OrderInv, OrderInv', status = "up",
         UNCHANGED <<cpuVars, tail, libVars, tcbVars>>,
         \/ status' = "exit0" /\ TheAlive = {}
         \/ status' = "returned" /\ TheTurn = Main /\ Main \in TheAlive
         \/ status' = "wild" /\ (MallocFails \/ head = NULL)
  PROVE  RR!Next
<1>1. UNCHANGED <<pc, obj, tail, head, running, state, next, prev>>
  OBVIOUS
<1>2. RingKept
  BY <1>1 DEF RingKept
<1>3. SameTurns
  BY <1>1, <1>2, RingKeptIs, SameTurnsIs DEF SameRing
<1>4. head = NULL => Len(TheOrder) = 1
  <2>1. Len(<<Main>>) = 1
    OBVIOUS
  <2>. QED
    BY <2>1 DEF TheOrder
<1>5. RR!End
  BY <1>3, <1>4 DEF RR!End, SameTurns, TheOrder, TheAlive, TheTurn
<1>. QED
  BY <1>5 DEF RR!Next

LEMMA ScanTurns ==
  ASSUME Orderly, Inv, OrderInv, OrderInv', schedule_Scan
  PROVE  [RR!Next]_(RR!vars)
<1>. USE DEF Inv
<1>1. /\ Phase = "scan" /\ head # NULL /\ status = "up" /\ running \in Threads
      /\ UNCHANGED <<cpu, pc, ip, obj, tail, libVars, tcbVars>>
  BY InScheduleIs DEF schedule_Scan
<1>2. CASE UNCHANGED status
  <2>1. RingKept /\ UNCHANGED <<head, running, state>>
    BY <1>1, SchedulingIs DEF Scheduling
  <2>2. SameTurns
    BY <2>1, RingKeptIs, SameTurnsIs DEF SameRing
  <2>. QED
    BY <1>2, <2>2 DEF RR!vars, SameTurns, TheOrder, TheAlive, TheTurn
<1>3. CASE status' # status
  <2>1. state[Top.ptr] # "READY" /\ next[Top.ptr] = Top.end /\ status' = "exit0" /\ UNCHANGED act
    BY <1>3 DEF schedule_Scan
  <2>2. PICK r, e \in Seq(Threads) :
          /\ IsRing(r) /\ IsLoop(e, r)
          /\ \E i \in 1..Len(e) : \E p \in 1..Len(r) : SearchAt(e, i, p)
    BY <1>1 DEF TurnInv, Scanning
  <2>3. PICK i \in 1..Len(e), p \in 1..Len(r) : SearchAt(e, i, p)
    BY <2>2
  <2>. DEFINE n == Len(e)
  <2>4. n \in Nat /\ i \in 1..n /\ p \in 1..n /\ \A j \in 1..Len(r) : e[j] = r[j] /\ j \in 1..n
    <3>1. /\ Len(e) \in Nat /\ Len(r) \in Nat /\ Len(e) \in {Len(r), Len(r) + 1}
          /\ \A j \in 1..Len(r) : e[j] = r[j]
      <4>1. Len(e) \in Nat /\ Len(r) \in Nat
        OBVIOUS
      <4>2. /\ Len(e) = Len(r) \/ Len(e) = Len(r) + 1
            /\ \A j \in 1..Len(r) : e[j] = r[j]
        BY <2>2, Zenon DEF IsLoop
      <4>. QED
        BY <4>1, <4>2
    <3>. QED
      BY <3>1
  <2>5. next[e[i]] = next[e[p]]
    BY <1>1, <2>1, <2>3 DEF SearchAt
  <2>6. i = p
    <3>1. \A j \in 1..n : next[e[j]] = IF j = n THEN e[1] ELSE e[j + 1]
      BY <2>2 DEF IsLoop
    <3>2. \A j, k \in 1..n : e[j] = e[k] => j = k
      BY <2>2 DEF IsLoop, Distinct
    <3>. HIDE DEF n
    <3>. DEFINE S(j) == IF j = n THEN 1 ELSE j + 1
    <3>3. next[e[i]] = e[S(i)] /\ next[e[p]] = e[S(p)] /\ S(i) \in 1..n /\ S(p) \in 1..n
      BY <2>4, <3>1
    <3>4. S(i) = S(p)
      <4>. HIDE DEF S
      <4>. QED
        BY <2>5, <3>2, <3>3
    <3>. QED
      BY <2>4, <3>4
  <2>7. \A j \in 1..n : state[e[j]] # "READY"
    <3>1. \A j \in 1..n : j = p \/ Sooner(j, i, p)
      BY <2>4, <2>6 DEF Sooner
    <3>2. state[e[p]] # "READY"
      BY <2>1, <2>3, <2>6 DEF SearchAt
    <3>3. \A j \in 1..n : Sooner(j, i, p) => state[e[j]] # "READY"
      BY <2>3 DEF SearchAt
    <3>. QED
      BY <3>1, <3>2, <3>3
  <2>8. TheAlive = {}
    <3>1. ASSUME NEW t \in Alive PROVE FALSE
      <4>1. t \in Created /\ t \in Threads /\ state[t] # "TERMINATED"
        BY CreatedThreads DEF Alive
      <4>2. state[t] = "READY"
        BY <1>1, <4>1 DEF TurnInv, Kinds, CurrentInv, RunningState
      <4>3. PICK j \in 1..Len(r) : r[j] = t
        BY <2>2, <4>1 DEF IsRing
      <4>. QED
        BY <2>4, <2>7, <4>2, <4>3
    <3>. QED
      BY <1>1, <3>1 DEF TheAlive
  <2>9. RR!Next
    BY <1>1, <2>1, <2>8, EndEnds
  <2>. QED
    BY <2>9
<1>. QED
  BY <1>2, <1>3

LEMMA RefinementStep ==
  ASSUME Orderly, Inv, OrderInv, OrderInv', [Next]_coreVars
  PROVE  [RR!Next]_(RR!vars)
<1>. USE DEF Inv
<1>1. CASE SameTurns /\ UNCHANGED status
  BY <1>1 DEF RR!vars, SameTurns, TheOrder, TheAlive, TheTurn
<1>2. CASE UNCHANGED coreVars
  <2>1. UNCHANGED <<status, pc, obj, tail, head, running, state, next, prev>>
    BY <1>2
  <2>2. RingKept
    BY <2>1 DEF RingKept
  <2>3. SameTurns
    BY <2>1, <2>2, RingKeptIs, SameTurnsIs DEF SameRing
  <2>. QED
    BY <1>1, <2>1, <2>3
<1>3. CASE pthread_create_Fault \/ pthread_exit_Fault
  <2>1. /\ status = "up" /\ status' = "wild" /\ UNCHANGED <<cpuVars, tail, libVars, tcbVars>>
        /\ MallocFails \/ running = NULL
    BY <1>3 DEF pthread_create_Fault, pthread_exit_Fault, Fault, InBase, Calling
  <2>2. MallocFails \/ head = NULL
    BY <2>1 DEF TypeInv, HeadShape
  <2>3. RR!Next
    BY <2>1, <2>2, EndEnds
  <2>. QED
    BY <2>3
<1>4. CASE MainReturns
  <2>1. /\ status = "up" /\ status' = "returned" /\ UNCHANGED <<cpuVars, tail, libVars, tcbVars>>
        /\ cpu = Main /\ Phase = "code" /\ pc[cpu] # "x_spin"
    BY <1>4 DEF MainReturns, Calling, InBase, Phase
  <2>2. TheTurn = Main /\ Main \in TheAlive
    BY <2>1, TurnAlive
  <2>3. RR!Next
    BY <2>1, <2>2, EndEnds
  <2>. QED
    BY <2>3
<1>. QED
  BY <1>1, <1>2, <1>3, <1>4, QuietTurns, ReadyCreates, ExitExits, InstallSwitches, ScanTurns,
     NoFault
  DEF Next, Library, Ended, pthread_create, Linking, schedule

(* If no tick lands inside schedule(), and the creation of a thread is     *)
(* either not ticked at all or made by one thread in memory that is not    *)
(* zero and not ticked where the ring is open or the tcb READY without a   *)
(* context, then the threads alive take turns in the order of creation,    *)
(* and the process ends only if main returns, nobody is left or memory     *)
(* runs out.                                                               *)
THEOREM ImplementsRoundRobinThm == Orderly => (Spec => ImplementsRoundRobin)
<1>. SUFFICES ASSUME Orderly PROVE Spec => ImplementsRoundRobin
  OBVIOUS
<1>1. Init => Inv
  BY TypeInit, CurrentInit, TurnInit DEF Inv
<1>2. Inv /\ [Next]_coreVars => Inv'
  BY TypeStep, CurrentStep, TurnStep DEF Inv, Orderly
<1>3. Inv => OrderInv
  BY OrderCorrect DEF Inv
<1>4. Init => RR!Init
  BY DEF Init, CoreInit, RR!Init
<1>5. Inv /\ OrderInv /\ OrderInv' /\ [Next]_coreVars => [RR!Next]_(RR!vars)
  BY RefinementStep
<1>. QED
  BY <1>1, <1>2, <1>3, <1>4, <1>5, PTL DEF Spec, ImplementsRoundRobin, RR!Spec
=============================================================================
