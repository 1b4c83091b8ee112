-------------------------- MODULE ThreadsRingProof --------------------------
(***************************************************************************)
(* The ring of tcbs: pthread_create leaves it closed, no other operation   *)
(* touches it, and schedule(), which walks it, gives up only after it has  *)
(* met every thread.                                                       *)
(***************************************************************************)
EXTENDS ThreadsWholeProof

USE CoreAssumption
USE DEF vars, coreVars, cpuVars, libVars, tcbVars, syncVars, tcb3Vars, semVars

-----------------------------------------------------------------------------
(* Walking the ring.                                                       *)

(* There is a walk of every length.                                        *)
LEMMA WalkExists ==
  ASSUME NEW n \in Nat, NEW first, NEW link
  PROVE  \E p : IsWalk(p, first, link, n)
<1>. DEFINE Bad == {i \in Nat : ~\E p : IsWalk(p, first, link, i)}
<1>1. SUFFICES ASSUME Bad # {} PROVE FALSE
  OBVIOUS
<1>. DEFINE m == Min(Bad)
<1>2. m \in Bad /\ \A k \in Bad : m <= k
  <2>. HIDE DEF Bad
  <2>1. Bad \in SUBSET Nat
    BY DEF Bad
  <2>. QED
    BY <1>1, <2>1, MinIsIn
<1>. HIDE DEF m
<1>3. m # 0
  <2>. DEFINE z == [i \in 0..0 |-> first]
  <2>1. z = [i \in 0..0 |-> IF i = 0 THEN first
                            ELSE IF z[i - 1] \in Threads THEN link[z[i - 1]] ELSE z[i - 1]]
    OBVIOUS
  <2>. HIDE DEF z
  <2>2. IsWalk(z, first, link, 0)
    BY <2>1 DEF IsWalk
  <2>. QED
    BY <1>2, <2>2
<1>4. m - 1 \in Nat /\ m \in Nat /\ m - 1 \notin Bad
  BY <1>2, <1>3
<1>5. PICK p : IsWalk(p, first, link, m - 1)
  BY <1>4
<1>. DEFINE e == IF p[m - 1] \in Threads THEN link[p[m - 1]] ELSE p[m - 1]
            w == [i \in 0..m |-> IF i < m THEN p[i] ELSE e]
<1>6. \A i \in 0..(m - 1) : p[i] = IF i = 0 THEN first
                                   ELSE IF p[i - 1] \in Threads THEN link[p[i - 1]] ELSE p[i - 1]
  BY <1>5, Zenon DEF IsWalk
<1>7. ASSUME NEW i \in 0..m
      PROVE  w[i] = IF i = 0 THEN first
                    ELSE IF w[i - 1] \in Threads THEN link[w[i - 1]] ELSE w[i - 1]
  <2>1. CASE i < m
    <3>1. /\ i \in 0..(m - 1) /\ w[i] = p[i]
          /\ i # 0 => i - 1 \in 0..m /\ i - 1 < m
      BY <1>4, <2>1
    <3>2. i # 0 => w[i - 1] = p[i - 1]
      BY <3>1
    <3>. QED
      BY <1>6, <3>1, <3>2
  <2>2. CASE i = m
    <3>1. i - 1 \in 0..m /\ i - 1 < m /\ ~(i < m) /\ i # 0
      BY <1>3, <1>4, <2>2
    <3>2. w[i] = e /\ w[i - 1] = p[m - 1]
      BY <2>2, <3>1
    <3>. QED
      BY <3>1, <3>2
  <2>. QED
    BY <1>4, <2>1, <2>2
<1>8. w = [i \in 0..m |-> w[i]]
  OBVIOUS
<1>9. IsWalk(w, first, link, m)
  <2>. HIDE DEF w
  <2>. QED
    BY <1>7, <1>8 DEF IsWalk
<1>. QED
  BY <1>2, <1>9

LEMMA RingWalk ==
  /\ RingNode[0] = head
  /\ \A i \in Steps \ {0} :
       RingNode[i] = IF RingNode[i - 1] \in Threads THEN next[RingNode[i - 1]]
                     ELSE RingNode[i - 1]
<1>1. IsFiniteSet(Threads) /\ Cardinality(Threads) \in Nat
  BY FS_AddElement, FS_CardinalityType DEF Threads
<1>2. \E p : IsWalk(p, head, next, Cardinality(Threads))
  BY <1>1, WalkExists
<1>3. IsWalk(RingNode, head, next, Cardinality(Threads))
  BY <1>2 DEF RingNode, IsWalk, Steps
<1>4. \A i \in Steps : RingNode[i] = IF i = 0 THEN head
                                ELSE IF RingNode[i - 1] \in Threads THEN next[RingNode[i - 1]]
                                     ELSE RingNode[i - 1]
  BY <1>3, Zenon DEF IsWalk, Steps
<1>5. 0 \in Steps
  BY <1>1 DEF Steps
<1>. QED
  BY <1>4, <1>5

-----------------------------------------------------------------------------
(* Whoever the library has a pointer to has been allocated.                *)
Allocated(t) == state[t] # "ABSENT"

Alive ==
  /\ head # NULL => Allocated(Main) /\ Allocated(running)
  /\ \A t \in Threads : join[t] \in Threads => Allocated(join[t])
  /\ \A t \in Threads : pc[t] \in CreatePoints => Allocated(obj[t])
  /\ \A t \in Threads : \A i \in 1..Len(act[t]) :
       act[t][i].at \in {"take", "install"} => Allocated(act[t][i].ptr)

LEMMA AliveInit == Init => Alive
<1>. SUFFICES ASSUME Init PROVE Alive
  OBVIOUS
<1>1. \A t \in Threads : \A i \in 1..Len(act[t]) : act[t][i].at = "jump"
  BY DEF Init, CoreInit, Thunk, Frame
<1>2. /\ head = NULL
      /\ \A t \in Threads : join[t] = NULL /\ pc[t] = "user"
  BY DEF Init, CoreInit
<1>. QED
  BY <1>1, <1>2 DEF Alive, CreatePoints

(* A step that allocates nobody, outside schedule().                       *)
LEMMA AliveKept ==
  ASSUME TypeInv, Alive, UNCHANGED <<head, running>>,
         \A t \in Threads : Allocated(t) => Allocated(t)',
         \A t \in Threads : \/ join'[t] \notin Threads \/ join'[t] = join[t]
                            \/ head # NULL /\ join'[t] = running,
         \A t \in Threads : pc'[t] \in CreatePoints =>
           pc[t] \in CreatePoints /\ obj'[t] = obj[t],
         \A t \in Threads : \A i \in 1..Len(act'[t]) :
           \/ i \in 1..Len(act[t]) /\ act'[t][i] = act[t][i]
           \/ act'[t][i].at \notin {"take", "install"}
           \/ act'[t][i].ptr \in Threads /\ Allocated(act'[t][i].ptr)
  PROVE  Alive'
<1>1. /\ Main \in Threads /\ \A t \in Threads : pc[t] \in CreatePoints => obj[t] \in Threads
      /\ head # NULL => running \in Threads
  BY DEF TypeInv, TypeOK, HeadShape, LibTypeOK, LocalsShape, Threads
<1>2. /\ act \in [Threads -> Seq(Frames)]
  BY DEF TypeInv, TypeOK, CpuTypeOK
<1>3. \A t \in Threads : \A i \in 1..Len(act[t]) :
        act[t][i].at \in {"take", "install"} => act[t][i].ptr \in Threads
  <2>1. \A t \in Threads : \A i \in 1..Len(act[t]) : act[t][i] \in Frames
    BY <1>2
  <2>. QED
    BY <2>1 DEF Frames
<1>4. (head # NULL => Allocated(Main) /\ Allocated(running))'
  BY <1>1 DEF Alive, Allocated
<1>5. (\A t \in Threads : join[t] \in Threads => Allocated(join[t]))'
  BY <1>1 DEF Alive, Allocated
<1>6. (\A t \in Threads : pc[t] \in CreatePoints => Allocated(obj[t]))'
  BY <1>1 DEF Alive, Allocated
<1>7. ASSUME NEW t \in Threads, NEW i \in 1..Len(act'[t]),
             act'[t][i].at \in {"take", "install"}
      PROVE  state'[act'[t][i].ptr] # "ABSENT"
  <2>1. CASE i \in 1..Len(act[t]) /\ act'[t][i] = act[t][i]
    <3>1. act[t][i].ptr \in Threads /\ Allocated(act[t][i].ptr)
      BY <1>3, <1>7, <2>1 DEF Alive
    <3>. QED
      BY <2>1, <3>1 DEF Allocated
  <2>2. CASE act'[t][i].ptr \in Threads /\ Allocated(act'[t][i].ptr)
    BY <2>2 DEF Allocated
  <2>. QED
    BY <1>7, <2>1, <2>2
<1>. QED
  BY <1>4, <1>5, <1>6, <1>7 DEF Alive, Allocated

(* Every step but those of pthread_create leaves the set of tcbs alone.    *)
SameTcbs == \A t \in Threads : Allocated(t)' <=> Allocated(t)

LEMMA AliveLibrary ==
  ASSUME TypeInv, Alive, pthread_exit \/ pthread_join \/ semaphores
  PROVE  SameTcbs /\ Alive'
<1>. USE DEF TypeInv, TypeOK
<1>1. CASE /\ UNCHANGED <<head, running>>
           /\ UNCHANGED act \/ PushSchedule
           /\ SameTcbs
           /\ \A t \in Threads : \/ join'[t] = join[t]
                                 \/ head # NULL /\ join'[t] = running
           /\ \A t \in Threads : pc'[t] \in CreatePoints =>
                                   pc[t] \in CreatePoints /\ obj'[t] = obj[t]
  <2>1. \A t \in Threads : \A i \in 1..Len(act'[t]) :
           \/ i \in 1..Len(act[t]) /\ act'[t][i] = act[t][i]
           \/ act'[t][i].at \notin {"take", "install"}
    <3>1. CASE UNCHANGED act
      BY <3>1
    <3>2. CASE PushSchedule
      <4>1. Frame("enter") \in Frames /\ Frame("enter").at = "enter"
        BY FrameType DEF SchedulePoints, Frame
      <4>2. SUFFICES ASSUME NEW t \in Threads, NEW i \in 1..Len(act'[t])
                     PROVE  \/ i \in 1..Len(act[t]) /\ act'[t][i] = act[t][i]
                            \/ act'[t][i].at = "enter"
        BY <4>1
      <4>3. /\ act[t] \in Seq(Frames)
            /\ act'[t] = IF t = cpu THEN Append(act[t], Frame("enter")) ELSE act[t]
        BY <3>2 DEF PushSchedule, CpuTypeOK
      <4>. QED
        BY <4>1, <4>2, <4>3
    <3>. QED
      BY <1>1, <3>1, <3>2
  <2>. QED
    BY <1>1, <2>1, AliveKept DEF SameTcbs
<1>2. ASSUME NEW p \in BasePoints \ CreatePoints, Goto(p)
      PROVE  \A t \in Threads \ {cpu} : pc'[t] = pc[t]
  BY <1>2 DEF Goto, CpuTypeOK
<1>3. CASE pthread_exit
  <2>1. /\ UNCHANGED <<act, head, running, join>>
        /\ \E p \in BasePoints \ CreatePoints : Goto(p)
        /\ UNCHANGED obj \/ \E v : obj' = [obj EXCEPT ![cpu] = v]
        /\ \/ UNCHANGED state
           \/ running # NULL /\ \E z \in {"TERMINATED"} : state' = [state EXCEPT ![running] = z]
           \/ /\ join[running] \notin {NULL, Junk} /\ Depth = 0 /\ pc[cpu] = "x_wake"
              /\ state' = [state EXCEPT ![join[running]] = "READY"]
    BY <1>3 DEF pthread_exit, pthread_exit_Enter, pthread_exit_Code, pthread_exit_Wake,
       pthread_exit_Free, BasePoints, ExitPoints, CreatePoints, InBase
  <2>2. head = NULL \/ (running \in Threads /\ Allocated(running))
    BY DEF LibTypeOK, HeadShape, Alive
  <2>3. SameTcbs
    <3>1. CASE running # NULL /\ state' = [state EXCEPT ![running] = "TERMINATED"]
      BY <2>2, <3>1 DEF HeadShape, SameTcbs, Allocated, LibTypeOK
    <3>2. CASE /\ join[running] \notin {NULL, Junk} /\ Depth = 0 /\ pc[cpu] = "x_wake"
               /\ state' = [state EXCEPT ![join[running]] = "READY"]
      <4>1. running \in Threads
        BY <2>2, <3>2 DEF HeadShape
      <4>2. join[running] \in Threads
        BY <3>2, <4>1 DEF SyncTypeOK, Pointers
      <4>3. Allocated(join[running])
        BY <4>1, <4>2 DEF Alive
      <4>. QED
        BY <3>2, <4>2, <4>3 DEF SameTcbs, Allocated, LibTypeOK
    <3>3. CASE UNCHANGED state
      BY <3>3 DEF SameTcbs, Allocated
    <3>. QED
      BY <2>1, <3>1, <3>2, <3>3
  <2>4. \A t \in Threads : pc'[t] \in CreatePoints => pc[t] \in CreatePoints /\ obj'[t] = obj[t]
    BY <2>1 DEF Goto, CpuTypeOK
  <2>. QED
    BY <1>1, <2>1, <2>3, <2>4
<1>4. CASE pthread_join
  <2>1. /\ UNCHANGED <<head, running>>
        /\ UNCHANGED act \/ PushSchedule
        /\ UNCHANGED <<pc, obj>> \/ \E p \in BasePoints \ CreatePoints : Goto(p)
        /\ UNCHANGED obj \/ \E v : obj' = [obj EXCEPT ![cpu] = v]
        /\ \/ UNCHANGED <<state, join>>
           \/ /\ head # NULL /\ state' = [state EXCEPT ![running] = "BLOCKED"]
              /\ \E p : join' = [join EXCEPT ![p] = running]
    <3>1. ASSUME NEW w \in Workers, JoinsHandle(w) PROVE head # NULL
      BY <3>1 DEF JoinsHandle, HeadShape
    <3>. QED
      BY <1>4, <3>1 DEF pthread_join, pthread_join_Call, pthread_join_Hang,
         pthread_join_Schedule, pthread_join_Read, BasePoints, JoinPoints, CreatePoints
  <2>2. SameTcbs
    BY <2>1 DEF HeadShape, SameTcbs, Allocated, LibTypeOK, Alive
  <2>3. \A t \in Threads : pc'[t] \in CreatePoints => pc[t] \in CreatePoints /\ obj'[t] = obj[t]
    BY <2>1 DEF Goto, CpuTypeOK
  <2>4. ASSUME NEW t \in Threads PROVE join'[t] = join[t] \/ (head # NULL /\ join'[t] = running)
    <3>1. CASE head # NULL /\ \E p : join' = [join EXCEPT ![p] = running]
      BY <3>1 DEF SyncTypeOK
    <3>. QED
      BY <2>1, <3>1
  <2>. QED
    BY <1>1, <2>1, <2>2, <2>3, <2>4
<1>5. CASE semaphores
  <2>1. /\ UNCHANGED <<head, running, join>>
        /\ UNCHANGED act \/ PushSchedule
        /\ UNCHANGED <<pc, obj>> \/ \E p \in BasePoints \ CreatePoints : Goto(p)
        /\ UNCHANGED obj \/ \E v : obj' = [obj EXCEPT ![cpu] = v]
        /\ \/ UNCHANGED state
           \/ running # NULL /\ state' = [state EXCEPT ![running] = "BLOCKED"]
           \/ \E s \in Sems : Wakeable(s) # {} /\ state' = [state EXCEPT ![ToWake(s)] = "READY"]
    BY <1>5 DEF semaphores, sem_wait, BasePoints, WaitPoints, CreatePoints, sem_init,
       sem_destroy, sem_post, sem_Error, sem_wait_Take, sem_wait_Negative, sem_wait_Block,
       sem_wait_Schedule, sem_wait_Check, sem_wait_Load, sem_wait_Store
  <2>2. SameTcbs
    <3>1. CASE \E s \in Sems : Wakeable(s) # {} /\ state' = [state EXCEPT ![ToWake(s)] = "READY"]
      BY <3>1, ToWakeType DEF SameTcbs, Allocated, LibTypeOK
    <3>2. CASE running # NULL /\ state' = [state EXCEPT ![running] = "BLOCKED"]
      BY <3>2 DEF HeadShape, SameTcbs, Allocated, LibTypeOK, Alive
    <3>3. CASE UNCHANGED state
      BY <3>3 DEF SameTcbs, Allocated
    <3>. QED
      BY <2>1, <3>1, <3>2, <3>3
  <2>3. \A t \in Threads : pc'[t] \in CreatePoints => pc[t] \in CreatePoints /\ obj'[t] = obj[t]
    BY <2>1 DEF Goto, CpuTypeOK
  <2>. QED
    BY <1>1, <2>1, <2>2, <2>3
<1>. QED
  BY <1>3, <1>4, <1>5


LEMMA AliveSchedule ==
  ASSUME TypeInv, Alive, schedule(Saved) \/ Tick, UNCHANGED syncVars
  PROVE  SameTcbs /\ Alive'
<1>. USE DEF TypeInv, TypeOK
<1>0. cpu \in Threads /\ act \in [Threads -> Seq(Frames)]
  BY DEF CpuTypeOK
<1>1. ASSUME Depth > 0
      PROVE  head # NULL /\ running \in Threads /\ Allocated(running)
  BY <1>1 DEF Depth, HeadShape, LibTypeOK, Alive
<1>2. ASSUME NEW p, InSchedule(p)
      PROVE  /\ Depth > 0 /\ Depth \in 1..Len(act[cpu]) /\ Top = act[cpu][Depth]
             /\ Top \in Frames /\ Top.at = p
             /\ p \in {"take", "install"} => Top.ptr \in Threads /\ Allocated(Top.ptr)
  <2>1. Depth > 0 /\ Depth \in 1..Len(act[cpu]) /\ Top = act[cpu][Depth] /\ Top.at = p
    BY <1>0, <1>2 DEF InSchedule, Depth, Top
  <2>2. Top \in Frames
    BY <2>1, TopType
  <2>3. p \in {"take", "install"} => Top.ptr \in Threads
    BY <2>1, <2>2 DEF Frames
  <2>4. p \in {"take", "install"} => Allocated(Top.ptr)
    BY <1>0, <2>1 DEF Alive
  <2>. QED
    BY <2>1, <2>2, <2>3, <2>4
<1>3. ASSUME NEW f \in Frames, Depth > 0, SetTop(f), UNCHANGED <<pc, obj, head, running>>,
             SameTcbs, f.at \in {"take", "install"} => f.ptr \in Threads /\ Allocated(f.ptr)
      PROVE  Alive'
  <2>1. Depth \in 1..Len(act[cpu])
    BY <1>0, <1>3 DEF Depth
  <2>2. ASSUME NEW t \in Threads, NEW i \in 1..Len(act'[t])
        PROVE  \/ i \in 1..Len(act[t]) /\ act'[t][i] = act[t][i]
               \/ act'[t][i] = f
    <3>1. act[t] \in Seq(Frames)
      BY <1>0
    <3>2. act'[t] = IF t = cpu THEN [act[cpu] EXCEPT ![Depth] = f] ELSE act[t]
      BY <1>0, <1>3 DEF SetTop
    <3>. QED
      BY <2>1, <2>2, <3>1, <3>2
  <2>3. \A t \in Threads : \A i \in 1..Len(act'[t]) :
          \/ i \in 1..Len(act[t]) /\ act'[t][i] = act[t][i]
          \/ act'[t][i].at \notin {"take", "install"}
          \/ act'[t][i].ptr \in Threads /\ Allocated(act'[t][i].ptr)
    BY <1>3, <2>2
  <2>. QED
    BY <1>3, <2>3, AliveKept DEF SameTcbs
<1>4. CASE schedule_Enter(Saved)
  <2>1. PICK p \in {"save", "look"} : SetTop(Frame(p))
    BY <1>4 DEF schedule_Enter
  <2>2. Frame(p) \in Frames /\ Frame(p).at \notin {"take", "install"}
    BY FrameType DEF Frame, SchedulePoints
  <2>3. SameTcbs
    BY <1>1, <1>2, <1>4 DEF schedule_Enter, SameTcbs, Allocated, LibTypeOK
  <2>. QED
    BY <1>2, <1>3, <1>4, <2>1, <2>2, <2>3 DEF schedule_Enter
<1>5. CASE schedule_Save \/ schedule_Look
  <2>1. SameTcbs /\ Depth > 0
    BY <1>2, <1>5 DEF schedule_Save, schedule_Look, SameTcbs, Allocated
  <2>2. PICK f \in Frames : SetTop(f) /\ f.at \notin {"take", "install"}
    <3>1. Frame("look") \in Frames /\ Frame("look").at = "look"
      BY FrameType DEF Frame, SchedulePoints
    <3>2. CASE schedule_Look
      <4>. DEFINE f == [at |-> "scan", ptr |-> next[running], end |-> next[running]]
      <4>1. f \in Frames /\ f.at = "scan"
        BY <1>1, <2>1 DEF Frames, SchedulePoints, LibTypeOK
      <4>. QED
        BY <3>2, <4>1 DEF schedule_Look
    <3>. QED
      BY <1>5, <3>1, <3>2 DEF schedule_Save
  <2>. QED
    BY <1>3, <1>5, <2>1, <2>2 DEF schedule_Save, schedule_Look
<1>6. CASE schedule_Scan
  <2>1. SameTcbs /\ Depth > 0 /\ Top \in Frames /\ Top.ptr \in Threads /\ Top.at = "scan"
    BY <1>2, <1>6 DEF schedule_Scan, SameTcbs, Allocated
  <2>2. CASE SetTop([Top EXCEPT !.at = "take"]) /\ state[Top.ptr] = "READY"
    <3>1. PICK f \in Frames : SetTop(f) /\ f.ptr = Top.ptr
      <4>1. [Top EXCEPT !.at = "take"] \in Frames /\ [Top EXCEPT !.at = "take"].ptr = Top.ptr
        BY <2>1 DEF Frames, SchedulePoints
      <4>. QED
        BY <2>2, <4>1
    <3>2. Allocated(f.ptr) /\ f.ptr \in Threads
      BY <2>1, <2>2, <3>1 DEF Allocated
    <3>. QED
      BY <1>3, <1>6, <2>1, <3>1, <3>2 DEF schedule_Scan
  <2>3. CASE SetTop([Top EXCEPT !.ptr = next[Top.ptr]])
    <3>1. /\ [Top EXCEPT !.ptr = next[Top.ptr]] \in Frames
          /\ [Top EXCEPT !.ptr = next[Top.ptr]].at = "scan"
      BY <2>1 DEF Frames, SchedulePoints, LibTypeOK
    <3>. QED
      BY <1>3, <1>6, <2>1, <2>3, <3>1 DEF schedule_Scan
  <2>4. CASE UNCHANGED act
    BY <1>6, <2>1, <2>4 DEF schedule_Scan, Alive, Allocated
  <2>. QED
    BY <1>6, <2>1, <2>2, <2>3, <2>4 DEF schedule_Scan
<1>7. CASE schedule_Take
  <2>1. SameTcbs /\ Depth > 0 /\ Top \in Frames /\ Top.ptr \in Threads /\ Allocated(Top.ptr)
    BY <1>2, <1>7 DEF schedule_Take, SameTcbs, Allocated, LibTypeOK
  <2>2. PICK f \in Frames : SetTop(f) /\ f.ptr = Top.ptr
    <3>1. [Top EXCEPT !.at = "install"] \in Frames /\ [Top EXCEPT !.at = "install"].ptr = Top.ptr
      BY <2>1 DEF Frames, SchedulePoints
    <3>. QED
      BY <1>7, <3>1 DEF schedule_Take
  <2>. QED
    BY <1>3, <1>7, <2>1, <2>2 DEF schedule_Take
<1>8. CASE schedule_Install
  <2>1. SameTcbs /\ Depth > 0 /\ Top \in Frames /\ Top.ptr \in Threads /\ Allocated(Top.ptr)
    BY <1>2, <1>8 DEF schedule_Install, SameTcbs, Allocated, LibTypeOK
  <2>2. Depth \in 1..Len(act[cpu]) /\ SetTop([Top EXCEPT !.at = "jump"])
    BY <1>2, <1>8 DEF schedule_Install
  <2>3. (head # NULL => Allocated(Main) /\ Allocated(running))'
    BY <1>8, <2>1 DEF schedule_Install, SameTcbs, Alive, Allocated, Threads
  <2>4. ASSUME NEW t \in Threads, NEW i \in 1..Len(act'[t]), act'[t][i].at \in {"take", "install"}
        PROVE  state'[act'[t][i].ptr] # "ABSENT"
    <3>1. act[t] \in Seq(Frames)
      BY <1>0
    <3>2. act'[t] = IF t = cpu THEN [act[cpu] EXCEPT ![Depth] = [Top EXCEPT !.at = "jump"]]
                    ELSE act[t]
      BY <1>0, <2>2 DEF SetTop
    <3>3. [Top EXCEPT !.at = "jump"].at = "jump"
      BY <2>1 DEF Frames
    <3>4. i \in 1..Len(act[t]) /\ act'[t][i] = act[t][i]
      BY <2>2, <2>4, <3>1, <3>2, <3>3
    <3>5. act[t][i] \in Frames /\ act[t][i].at \in {"take", "install"}
      BY <2>4, <3>1, <3>4
    <3>6. act[t][i].ptr \in Threads /\ Allocated(act[t][i].ptr)
      BY <3>4, <3>5 DEF Alive, Frames
    <3>. QED
      BY <2>1, <3>4, <3>6 DEF SameTcbs, Allocated
  <2>5. \A t \in Threads : /\ join[t] \in Threads => state'[join[t]] # "ABSENT"
                           /\ pc[t] \in CreatePoints => state'[obj[t]] # "ABSENT"
    BY <2>1 DEF Alive, SameTcbs, LocalsShape, Threads, Allocated
  <2>. QED
    BY <1>8, <2>1, <2>3, <2>4, <2>5 DEF schedule_Install, Alive, Allocated
<1>9. CASE schedule_Jump
  <2>1. SameTcbs /\ UNCHANGED <<head, running, pc, obj>>
    BY <1>9 DEF schedule_Jump, SameTcbs, Allocated
  <2>. DEFINE c == context[Top.ptr]
  <2>2. /\ c.owner \in Threads /\ c.depth \in 1..Len(act[c.owner])
        /\ act' = [act EXCEPT ![c.owner] = SubSeq(@, 1, c.depth - 1)]
    BY <1>9 DEF schedule_Jump, Resumable
  <2>. HIDE DEF c
  <2>3. ASSUME NEW t \in Threads, NEW i \in 1..Len(act'[t])
        PROVE  i \in 1..Len(act[t]) /\ act'[t][i] = act[t][i]
    <3>1. act[t] \in Seq(Frames)
      BY <1>0
    <3>2. act'[t] = IF t = c.owner THEN SubSeq(act[t], 1, c.depth - 1) ELSE act[t]
      BY <1>0, <2>2
    <3>. QED
      BY <2>2, <2>3, <3>1, <3>2
  <2>. QED
    BY <2>1, <2>3, AliveKept DEF SameTcbs
<1>10. CASE schedule_Fault
  BY <1>10 DEF schedule_Fault, Fault, Alive, SameTcbs, Allocated
<1>11. CASE Tick
  <2>1. SameTcbs /\ UNCHANGED <<head, running, pc, obj>> /\ PushSchedule
    BY <1>11 DEF Tick, SameTcbs, Allocated
  <2>2. Frame("enter") \in Frames /\ Frame("enter").at = "enter"
    BY FrameType DEF SchedulePoints, Frame
  <2>3. ASSUME NEW t \in Threads, NEW i \in 1..Len(act'[t])
        PROVE  \/ i \in 1..Len(act[t]) /\ act'[t][i] = act[t][i]
               \/ act'[t][i].at = "enter"
    <3>1. /\ act[t] \in Seq(Frames)
          /\ act'[t] = IF t = cpu THEN Append(act[t], Frame("enter")) ELSE act[t]
      BY <1>0, <2>1 DEF PushSchedule
    <3>. QED
      BY <2>2, <2>3, <3>1
  <2>4. \A t \in Threads : \A i \in 1..Len(act'[t]) :
          \/ i \in 1..Len(act[t]) /\ act'[t][i] = act[t][i]
          \/ act'[t][i].at \notin {"take", "install"}
    BY <2>3
  <2>. QED
    BY <2>1, <2>4, AliveKept DEF SameTcbs
<1>. QED
  BY <1>4, <1>5, <1>6, <1>7, <1>8, <1>9, <1>10, <1>11 DEF schedule


LEMMA AliveCreate ==
  ASSUME TypeInv, Alive, pthread_create
  PROVE  Alive' /\ \A t \in Threads : Allocated(t) => Allocated(t)'
<1>. USE DEF TypeInv, TypeOK
<1>0. /\ cpu \in Threads /\ Main \in Threads /\ Workers \subseteq Threads
      /\ Uninit \cap Threads = {} /\ NULL \notin Threads
      /\ \A u \in Uninit : FreshState(u) # "ABSENT"
  BY DEF CpuTypeOK, Threads, FreshState, ThreadStates
<1>1. /\ UNCHANGED act /\ \A t \in Threads : Allocated(t) => Allocated(t)'
      /\ \A t \in Threads \ {cpu} : pc'[t] = pc[t] /\ obj'[t] = obj[t]
      /\ \A t \in Threads : join'[t] = join[t] \/ join'[t] \notin Threads
      /\ \/ UNCHANGED <<head, running>>
         \/ head' = Main /\ running' = Main /\ Allocated(Main)'
      /\ \/ pc'[cpu] \notin CreatePoints
         \/ pc[cpu] \in CreatePoints /\ obj'[cpu] = obj[cpu]
         \/ state'[obj'[cpu]] # "ABSENT"
  <2>1. CASE CreateEnter
    <3>1. PICK w \in Workers, u \in Uninit :
            /\ pthread_create_Enter(w, u) /\ join' = Fresh(join, w, u)
      BY <2>1 DEF CreateEnter
    <3>2. /\ UNCHANGED <<act, head, running>>
          /\ state' = [state EXCEPT ![w] = FreshState(u)]
          /\ pc' = [pc EXCEPT ![cpu] = "c_head"] /\ obj' = [obj EXCEPT ![cpu] = w]
          /\ join' = [join EXCEPT ![w] = u]
      BY <3>1 DEF pthread_create_Enter, Goto, Fresh
    <3>3. obj'[cpu] = w /\ state'[w] # "ABSENT"
      BY <1>0, <3>2 DEF CpuTypeOK, LibTypeOK
    <3>. QED
      BY <1>0, <3>2, <3>3 DEF Allocated, CpuTypeOK, LibTypeOK, SyncTypeOK
  <2>2. CASE CreateFirst
    <3>1. PICK u \in Uninit : TRUE
      BY <2>2 DEF CreateFirst
    <3>2. /\ UNCHANGED <<act, obj>> /\ head' = Main /\ running' = Main
          /\ state' = [state EXCEPT ![Main] = "RUNNING"] /\ pc[cpu] = "c_head"
          /\ pc' = [pc EXCEPT ![cpu] = "c_fill"] /\ join' = [join EXCEPT ![Main] = NULL]
      BY <2>2 DEF CreateFirst, pthread_create_First, Goto, InBase
    <3>. QED
      BY <1>0, <3>2 DEF Allocated, CpuTypeOK, LibTypeOK, SyncTypeOK, CreatePoints
  <2>3. CASE CreateFill \/ CreateContext
             \/ (CreateOther /\ ~\E w \in Workers : pthread_create_NoMemory(w))
    <3>1. /\ UNCHANGED <<act, obj, head, running>>
          /\ UNCHANGED state \/ state' = [state EXCEPT ![obj[cpu]] = "READY"]
          /\ UNCHANGED pc \/ \E p : /\ pc' = [pc EXCEPT ![cpu] = p]
                                    /\ pc[cpu] \in CreatePoints \/ p = "user"
          /\ UNCHANGED join \/ join' = [join EXCEPT ![obj[cpu]] = NULL]
      BY <2>3 DEF CreateFill, CreateContext, CreateOther, Fault, InBase, Goto, CreatePoints,
         pthread_create_Fill, pthread_create_Context, pthread_create_Tail, pthread_create_Append, pthread_create_Next,
         pthread_create_Prev, pthread_create_Ready, pthread_create_Fault
    <3>2. \A t \in Threads : Allocated(t) => Allocated(t)'
      BY <3>1 DEF Allocated, LibTypeOK
    <3>3. \A t \in Threads : join'[t] = join[t] \/ join'[t] \notin Threads
      BY <1>0, <3>1 DEF SyncTypeOK
    <3>. QED
      BY <1>0, <3>1, <3>2, <3>3 DEF CpuTypeOK, CreatePoints
  <2>4. CASE CreateOther /\ \E w \in Workers : pthread_create_NoMemory(w)
    <3>1. UNCHANGED <<act, obj, head, running, state, pc, join>>
      BY <2>4 DEF CreateOther, pthread_create_NoMemory
    <3>. QED
      BY <3>1 DEF Allocated
  <2>. QED
    BY <2>1, <2>2, <2>3, <2>4 DEF pthread_create
<1>2. (head # NULL => Allocated(Main) /\ Allocated(running))'
  BY <1>0, <1>1 DEF Alive, Allocated, LibTypeOK, HeadShape
<1>3. ASSUME NEW t \in Threads, join'[t] \in Threads PROVE state'[join'[t]] # "ABSENT"
  <2>1. join'[t] = join[t] /\ Allocated(join[t]) /\ join[t] \in Threads
    BY <1>1, <1>3 DEF Alive
  <2>2. \A v \in Threads : Allocated(v) => state'[v] # "ABSENT"
    BY <1>1 DEF Allocated
  <2>. QED
    BY <2>1, <2>2
<1>4. \A t \in Threads : pc'[t] \in CreatePoints => state'[obj'[t]] # "ABSENT"
  BY <1>0, <1>1 DEF Alive, Allocated, LocalsShape
<1>5. ASSUME NEW t \in Threads, NEW i \in 1..Len(act[t]), act[t][i].at \in {"take", "install"}
      PROVE  state'[act[t][i].ptr] # "ABSENT"
  <2>1. act[t][i] \in Frames
    BY DEF CpuTypeOK
  <2>. QED
    BY <1>1, <1>5, <2>1 DEF Alive, Allocated, Frames
<1>. QED
  BY <1>1, <1>2, <1>3, <1>4, <1>5 DEF Alive, Allocated

LEMMA AliveStep ==
  ASSUME TypeInv, Alive, [Next]_vars
  PROVE  Alive' /\ (pthread_create \/ SameTcbs)
<1>1. CASE pthread_create
  BY <1>1, AliveCreate
<1>2. CASE pthread_exit \/ pthread_join \/ semaphores
  BY <1>2, AliveLibrary
<1>3. CASE (schedule(Saved) \/ Tick) /\ UNCHANGED syncVars
  BY <1>3, AliveSchedule
<1>4. CASE UNCHANGED <<cpuVars, tail, handle, libVars, tcbVars, join>>
  BY <1>4 DEF Alive, SameTcbs, Allocated
<1>. QED
  BY <1>1, <1>2, <1>3, <1>4
  DEF Next, Library, Interrupt, Ended, MainReturns, SyncFault, Fault


-----------------------------------------------------------------------------
(* The ring.                                                               *)

(* pthread_create, while the new tcb is not in the ring yet, and while the *)
(* ring is open.                                                           *)
Unlinked == {"c_head", "c_tail", "c_next", "c_prev"}
Opened   == {"c_next", "c_prev"}

Linked(t) == Allocated(t) /\ ~\E u \in Threads : pc[u] \in Unlinked /\ obj[u] = t

(* r lists the linked tcbs in the order of next, from main's.              *)
IsRing(r) ==
  /\ Len(r) > 0 /\ r[1] = Main
  /\ \A i, j \in 1..Len(r) : r[i] = r[j] => i = j
  /\ \A t \in Threads : Linked(t) <=> \E i \in 1..Len(r) : r[i] = t
  /\ \A i \in 1..(Len(r) - 1) : next[r[i]] = r[i + 1] /\ prev[r[i + 1]] = r[i]
  /\ prev[Main] = r[Len(r)]
  /\ IF pc[cpu] \in Opened
       THEN /\ next[r[Len(r)]] = obj[cpu] /\ prev[obj[cpu]] = r[Len(r)]
            /\ pc[cpu] = "c_prev" => next[obj[cpu]] = Main
       ELSE next[r[Len(r)]] = Main
  /\ pc[cpu] = "c_tail" => tail[cpu] = prev[Main]

Ring == IF head = NULL THEN \A t \in Threads : ~Linked(t)
        ELSE \E r \in Seq(Threads) : IsRing(r)

RingInv == Whole(CreatePoints) /\ Alive /\ Ring

LEMMA RingInit == Init => RingInv
<1>. SUFFICES ASSUME Init PROVE RingInv
  OBVIOUS
<1>1. Whole(CreatePoints)
  BY WholeInit DEF CreatePoints
<1>2. Ring
  BY DEF Init, CoreInit, Ring, Linked, Allocated
<1>. QED
  BY <1>1, <1>2, AliveInit DEF RingInv

(* Steps that change neither links nor the set of linked tcbs.             *)
LEMMA RingKept ==
  ASSUME Ring, UNCHANGED <<head, next, prev>>, \A t \in Threads : Linked(t)' <=> Linked(t),
         pc[cpu] \notin Opened, pc'[cpu'] \notin Opened \cup {"c_tail"}
  PROVE  Ring'
<1>1. ASSUME NEW r \in Seq(Threads), IsRing(r) PROVE IsRing(r)'
  BY <1>1 DEF IsRing
<1>. QED
  BY <1>1 DEF Ring

(* Nobody else is in pthread_create.                                       *)
LEMMA LinkedIs ==
  ASSUME TypeInv, Whole(CreatePoints), NEW t \in Threads
  PROVE  Linked(t) <=> Allocated(t) /\ ~(pc[cpu] \in Unlinked /\ obj[cpu] = t)
<1>1. cpu \in Threads
  BY DEF TypeInv, TypeOK, CpuTypeOK
<1>2. \A u \in Threads : pc[u] \in Unlinked => u = cpu
  BY DEF Whole, Unlinked, CreatePoints
<1>. QED
  BY <1>1, <1>2 DEF Linked

LEMMA LinkedIsNext ==
  ASSUME TypeInv', Whole(CreatePoints)', NEW t \in Threads
  PROVE  Linked(t)' <=> Allocated(t)' /\ ~(pc'[cpu'] \in Unlinked /\ obj'[cpu'] = t)
<1>1. cpu' \in Threads
  BY DEF TypeInv, TypeOK, CpuTypeOK
<1>2. \A u \in Threads : pc'[u] \in Unlinked => u = cpu'
  BY DEF Whole, Unlinked, CreatePoints
<1>. QED
  BY <1>1, <1>2 DEF Linked

LEMMA CreateRing ==
  ASSUME TypeInv, RingInv, TypeInv', Whole(CreatePoints)', pthread_create
  PROVE  Ring'
<1>. USE DEF TypeInv, TypeOK
<1>0. /\ cpu \in Threads /\ Main \in Threads /\ Workers \subseteq Threads /\ Main # NULL
      /\ \A t \in Threads :
           Linked(t) <=> Allocated(t) /\ ~(pc[cpu] \in Unlinked /\ obj[cpu] = t)
      /\ \A t \in Threads :
           Linked(t)' <=> Allocated(t)' /\ ~(pc'[cpu'] \in Unlinked /\ obj'[cpu'] = t)
      /\ next \in [Threads -> Pointers] /\ prev \in [Threads -> Pointers]
  BY LinkedIs, LinkedIsNext DEF RingInv, CpuTypeOK, LibTypeOK, Threads
<1>1. CASE CreateEnter
  <2>1. PICK w \in Workers, u \in Uninit : pthread_create_Enter(w, u)
    BY <1>1 DEF CreateEnter
  <2>2. /\ state[w] = "ABSENT" /\ pc[cpu] = "user" /\ w \in Threads
        /\ state' = [state EXCEPT ![w] = FreshState(u)] /\ UNCHANGED <<cpu, head>>
        /\ pc' = [pc EXCEPT ![cpu] = "c_head"] /\ obj' = [obj EXCEPT ![cpu] = w]
        /\ next' = [next EXCEPT ![w] = u] /\ prev' = [prev EXCEPT ![w] = u]
    BY <2>1 DEF pthread_create_Enter, Calling, InBase, Goto, Threads
  <2>3. /\ pc'[cpu] = "c_head" /\ obj'[cpu] = w /\ ~Linked(w)
        /\ \A t \in Threads \ {w} : next'[t] = next[t] /\ prev'[t] = prev[t]
    BY <1>0, <2>2 DEF CpuTypeOK, Linked, Allocated
  <2>4. \A t \in Threads : Linked(t)' <=> Linked(t)
    BY <1>0, <2>2, <2>3 DEF Allocated, LibTypeOK, Unlinked
  <2>5. ASSUME NEW r \in Seq(Threads), IsRing(r) PROVE IsRing(r)'
    <3>1. \A i \in 1..Len(r) : r[i] \in Threads /\ r[i] # w
      BY <2>3, <2>5 DEF IsRing
    <3>2. /\ Len(r) \in 1..Len(r) /\ 1 \in 1..Len(r)
          /\ \A i \in 1..(Len(r) - 1) : i \in 1..Len(r) /\ i + 1 \in 1..Len(r)
      BY <2>5 DEF IsRing
    <3>3. /\ \A i \in 1..Len(r) : next'[r[i]] = next[r[i]] /\ prev'[r[i]] = prev[r[i]]
          /\ prev'[Main] = prev[Main]
      BY <2>3, <2>5, <3>1, <3>2 DEF IsRing
    <3>. QED
      BY <2>2, <2>3, <2>4, <2>5, <3>2, <3>3 DEF IsRing, Opened
  <2>. QED
    BY <2>2, <2>4, <2>5 DEF RingInv, Ring
<1>2. CASE CreateFirst
  <2>1. PICK w \in Workers : w = obj[cpu]
    BY <1>2 DEF CreateFirst, pthread_create_First, InBase, LocalsShape, CreatePoints, CpuTypeOK
  <2>2. /\ head = NULL /\ pc[cpu] = "c_head" /\ head' = Main /\ w \in Threads /\ w # Main
        /\ state' = [state EXCEPT ![Main] = "RUNNING"] /\ UNCHANGED <<cpu, obj>>
        /\ pc' = [pc EXCEPT ![cpu] = "c_fill"]
        /\ next' = [next EXCEPT ![Main] = w, ![w] = Main]
        /\ prev' = [prev EXCEPT ![Main] = w, ![w] = Main]
    BY <1>2, <2>1 DEF CreateFirst, pthread_create_First, InBase, Goto, Threads
  <2>3. /\ pc'[cpu] = "c_fill" /\ next'[Main] = w /\ next'[w] = Main
        /\ prev'[Main] = w /\ prev'[w] = Main
    BY <1>0, <2>2 DEF CpuTypeOK
  <2>4. \A t \in Threads : Allocated(t) => t = w
    BY <1>0, <2>1, <2>2 DEF RingInv, Ring
  <2>5. Allocated(w)
    BY <1>0, <2>1, <2>2 DEF RingInv, Alive, CreatePoints
  <2>6. \A t \in Threads : Linked(t)' <=> t \in {Main, w}
    BY <1>0, <2>2, <2>3, <2>4, <2>5 DEF Allocated, LibTypeOK, Unlinked
  <2>. DEFINE r == <<Main, w>>
  <2>7. /\ r \in Seq(Threads) /\ Len(r) = 2 /\ r[1] = Main /\ r[2] = w
        /\ \A i \in 1..Len(r) : i \in {1, 2}
    BY <1>0, <2>2
  <2>8. IsRing(r)'
    <3>. HIDE DEF r
    <3>. QED
      BY <2>2, <2>3, <2>6, <2>7 DEF IsRing, Opened
  <2>. QED
    BY <1>0, <2>2, <2>7, <2>8 DEF Ring
<1>3. CASE pthread_create_Append
  <2>1. PICK w \in Workers : w = obj[cpu]
    BY <1>3 DEF pthread_create_Append, InBase, LocalsShape, CreatePoints, CpuTypeOK
  <2>0. /\ head = Main /\ pc[cpu] = "c_tail" /\ tail[cpu] = prev[Main]
    BY <1>0, <1>3 DEF pthread_create_Append, InBase, HeadShape, LibTypeOK, RingInv, Ring, IsRing
  <2>2. /\ head = Main /\ pc[cpu] = "c_tail" /\ w \in Threads
        /\ UNCHANGED <<cpu, obj, state, head>> /\ pc' = [pc EXCEPT ![cpu] = "c_next"]
        /\ next' = [next EXCEPT ![prev[Main]] = w] /\ prev' = [prev EXCEPT ![w] = prev[Main]]
    BY <1>3, <2>0, <2>1 DEF pthread_create_Append, Goto, Threads
  <2>3. pc'[cpu] = "c_next"
    BY <1>0, <2>2 DEF CpuTypeOK
  <2>4. \A t \in Threads : Linked(t)' <=> Linked(t)
    BY <1>0, <2>2, <2>3 DEF Allocated, Unlinked
  <2>5. PICK r \in Seq(Threads) : IsRing(r)
    BY <1>0, <2>2 DEF RingInv, Ring
  <2>6. /\ \A i \in 1..Len(r) : r[i] \in Threads /\ r[i] # w
        /\ Len(r) \in 1..Len(r) /\ 1 \in 1..Len(r)
        /\ \A i \in 1..(Len(r) - 1) : i \in 1..Len(r) /\ i + 1 \in 1..Len(r) /\ i # Len(r)
    <3>1. ~Linked(w)
      BY <1>0, <2>1, <2>2 DEF Unlinked
    <3>2. Len(r) \in Nat /\ Len(r) > 0 /\ \A i \in 1..Len(r) : r[i] \in Threads /\ r[i] # w
      BY <2>5, <3>1 DEF IsRing
    <3>. QED
      BY <3>2
  <2>7. prev[Main] = r[Len(r)]
    BY <2>5 DEF IsRing
  <2>8. /\ next'[r[Len(r)]] = w /\ prev'[w] = r[Len(r)] /\ prev'[Main] = r[Len(r)]
        /\ \A i \in 1..(Len(r) - 1) : next'[r[i]] = next[r[i]] /\ prev'[r[i + 1]] = prev[r[i + 1]]
    <3>1. next'[r[Len(r)]] = w /\ prev'[w] = r[Len(r)]
      BY <1>0, <2>2, <2>6, <2>7
    <3>2. Main # w
      BY <2>5, <2>6 DEF IsRing
    <3>3. \A i \in 1..(Len(r) - 1) : r[i] # r[Len(r)]
      BY <2>5, <2>6 DEF IsRing
    <3>. QED
      BY <1>0, <2>2, <2>6, <2>7, <3>1, <3>2, <3>3
  <2>9. IsRing(r)'
    BY <2>1, <2>2, <2>3, <2>4, <2>5, <2>8 DEF IsRing, Opened
  <2>. QED
    BY <1>0, <2>2, <2>9 DEF Ring
<1>4. CASE pthread_create_Next
  <2>1. PICK w \in Workers : w = obj[cpu]
    BY <1>4 DEF pthread_create_Next, InBase, LocalsShape, CreatePoints, CpuTypeOK
  <2>2. /\ pc[cpu] = "c_next" /\ w \in Threads
        /\ UNCHANGED <<cpu, obj, state, head, prev>> /\ pc' = [pc EXCEPT ![cpu] = "c_prev"]
        /\ next' = [next EXCEPT ![w] = head]
    BY <1>4, <2>1 DEF pthread_create_Next, InBase, Goto, Threads
  <2>3. pc'[cpu] = "c_prev" /\ head = Main /\ ~Linked(w)
    BY <1>0, <2>1, <2>2 DEF CpuTypeOK, HeadShape, LibTypeOK, Unlinked
  <2>4. \A t \in Threads : Linked(t)' <=> Linked(t)
    BY <1>0, <2>2, <2>3 DEF Allocated, Unlinked
  <2>5. PICK r \in Seq(Threads) : IsRing(r)
    BY <1>0, <2>3 DEF RingInv, Ring
  <2>6. /\ \A i \in 1..Len(r) : r[i] \in Threads /\ r[i] # w
        /\ Len(r) \in 1..Len(r)
        /\ \A i \in 1..(Len(r) - 1) : i \in 1..Len(r) /\ i + 1 \in 1..Len(r)
    BY <2>3, <2>5 DEF IsRing
  <2>7. next'[w] = Main /\ \A i \in 1..Len(r) : next'[r[i]] = next[r[i]]
    BY <1>0, <2>2, <2>3, <2>6
  <2>8. IsRing(r)'
    BY <2>1, <2>2, <2>3, <2>4, <2>5, <2>6, <2>7 DEF IsRing, Opened
  <2>. QED
    BY <1>0, <2>2, <2>3, <2>8 DEF Ring
<1>5. CASE pthread_create_Prev
  <2>1. PICK w \in Workers : w = obj[cpu]
    BY <1>5 DEF pthread_create_Prev, InBase, LocalsShape, CreatePoints, CpuTypeOK
  <2>2. /\ pc[cpu] = "c_prev" /\ w \in Threads
        /\ UNCHANGED <<cpu, obj, state, head, next>> /\ pc' = [pc EXCEPT ![cpu] = "c_fill"]
        /\ prev' = [prev EXCEPT ![head] = w]
    BY <1>5, <2>1 DEF pthread_create_Prev, InBase, Goto, Threads
  <2>3. pc'[cpu] = "c_fill" /\ head = Main /\ ~Linked(w) /\ Allocated(w)
    BY <1>0, <2>1, <2>2 DEF CpuTypeOK, HeadShape, LibTypeOK, Unlinked, RingInv, Alive, CreatePoints
  <2>4. \A t \in Threads : Linked(t)' <=> Linked(t) \/ t = w
    BY <1>0, <2>1, <2>2, <2>3 DEF Allocated, Unlinked
  <2>5. PICK r \in Seq(Threads) : IsRing(r)
    BY <1>0, <2>3 DEF RingInv, Ring
  <2>. DEFINE s == Append(r, w)
              n == Len(r)
  <2>6. /\ s \in Seq(Threads) /\ Len(s) = n + 1 /\ s[n + 1] = w /\ n \in Nat /\ n > 0
        /\ \A i \in 1..n : s[i] = r[i] /\ r[i] \in Threads /\ r[i] # w
        /\ \A i \in 1..Len(s) : i \in 1..n \/ i = n + 1
        /\ n \in 1..n /\ 1 \in 1..n /\ \A i \in 1..(n - 1) : i \in 1..n /\ i + 1 \in 1..n
        /\ 1 \in 1..Len(s) /\ Len(s) > 0 /\ n + 1 \in 1..Len(s) /\ \A i \in 1..n : i \in 1..Len(s)
        /\ \A i \in 1..(Len(s) - 1) : i \in 1..(n - 1) \/ i = n
    BY <2>2, <2>3, <2>5 DEF IsRing
  <2>7. /\ prev'[Main] = w /\ \A t \in Threads \ {Main} : prev'[t] = prev[t]
    BY <1>0, <2>2, <2>3
  <2>8. /\ next[r[n]] = w /\ prev[w] = r[n] /\ next[w] = Main /\ r[1] = Main
        /\ \A i \in 1..(n - 1) : next[r[i]] = r[i + 1] /\ prev[r[i + 1]] = r[i]
        /\ \A i, j \in 1..n : r[i] = r[j] => i = j
    BY <2>1, <2>2, <2>5 DEF IsRing, Opened
  <2>. HIDE DEF s, n
  <2>9. \A i \in 1..(n - 1) : r[i + 1] # Main
    <3>1. \A i \in 1..(n - 1) : i + 1 # 1
      BY <2>6
    <3>. QED
      BY <2>6, <2>8, <3>1
  <2>10. \A t \in Threads : Linked(t)' <=> \E i \in 1..Len(s) : s[i] = t
    <3>1. \A t \in Threads : Linked(t) <=> \E i \in 1..n : r[i] = t
      BY <2>5 DEF IsRing, n
    <3>. QED
      BY <2>4, <2>6, <3>1
  <2>11. \A i \in 1..(Len(s) - 1) : next[s[i]] = s[i + 1] /\ prev'[s[i + 1]] = s[i]
    <3>. SUFFICES ASSUME NEW i \in 1..(Len(s) - 1)
                  PROVE  next[s[i]] = s[i + 1] /\ prev'[s[i + 1]] = s[i]
      OBVIOUS
    <3>1. CASE i \in 1..(n - 1)
      <4>1. s[i] = r[i] /\ s[i + 1] = r[i + 1] /\ r[i + 1] \in Threads \ {Main}
        BY <2>6, <2>9, <3>1
      <4>. QED
        BY <2>7, <2>8, <3>1, <4>1
    <3>2. CASE i = n
      <4>1. s[i] = r[n] /\ s[i + 1] = w /\ w # Main
        BY <2>6, <2>8, <3>2
      <4>. QED
        BY <2>2, <2>7, <2>8, <4>1
    <3>3. i \in 1..(n - 1) \/ i = n
      BY <2>6
    <3>. QED
      BY <3>1, <3>2, <3>3
  <2>12. ASSUME NEW i \in 1..Len(s), NEW j \in 1..Len(s), s[i] = s[j] PROVE i = j
    <3>1. i \in 1..n \/ i = n + 1
      BY <2>6
    <3>2. j \in 1..n \/ j = n + 1
      BY <2>6
    <3>. QED
      BY <2>6, <2>8, <2>12, <3>1, <3>2
  <2>13. IsRing(s)'
    BY <2>2, <2>3, <2>6, <2>7, <2>8, <2>10, <2>11, <2>12 DEF IsRing, Opened
  <2>. QED
    BY <1>0, <2>2, <2>3, <2>6, <2>13 DEF Ring
<1>6. CASE CreateFill \/ pthread_create_Ready \/ CreateContext
  <2>1. /\ pc[cpu] \in {"c_fill", "c_ready", "c_context"} /\ UNCHANGED <<cpu, head, next, prev, obj>>
        /\ pc'[cpu] \in {"c_ready", "c_context", "user"} /\ obj[cpu] \in Threads
        /\ UNCHANGED state \/ state' = [state EXCEPT ![obj[cpu]] = "READY"]
    BY <1>0, <1>6 DEF CreateFill, pthread_create_Fill, pthread_create_Ready, CreateContext,
       pthread_create_Context, InBase, Goto, CpuTypeOK, LocalsShape, CreatePoints, Threads
  <2>2. Allocated(obj[cpu])
    BY <1>0, <2>1 DEF RingInv, Alive, CreatePoints
  <2>3. \A t \in Threads : Linked(t)' <=> Linked(t)
    BY <1>0, <2>1, <2>2 DEF Allocated, Unlinked, LibTypeOK
  <2>. QED
    BY <2>1, <2>3, RingKept DEF Opened, RingInv
<1>7. CASE \/ \E w \in Workers : pthread_create_NoMemory(w)
           \/ pthread_create_Fault
  <2>1. UNCHANGED <<cpu, pc, obj, tail, tcbVars, head>>
    BY <1>7 DEF pthread_create_NoMemory, pthread_create_Fault, Fault
  <2>2. \A t \in Threads : Linked(t)' <=> Linked(t)
    BY <2>1 DEF Linked, Allocated
  <2>3. ASSUME NEW r \in Seq(Threads), IsRing(r) PROVE IsRing(r)'
    BY <2>1, <2>2, <2>3 DEF IsRing
  <2>. QED
    BY <2>1, <2>2, <2>3 DEF RingInv, Ring
<1>8. CASE pthread_create_Tail
  <2>1. /\ head = Main /\ pc[cpu] = "c_head" /\ UNCHANGED <<cpu, obj, state, head, next, prev>>
        /\ pc' = [pc EXCEPT ![cpu] = "c_tail"] /\ tail' = [tail EXCEPT ![cpu] = prev[Main]]
    BY <1>8 DEF pthread_create_Tail, InBase, Goto, LibTypeOK
  <2>2. pc'[cpu] = "c_tail" /\ tail'[cpu] = prev[Main]
    BY <1>0, <2>1 DEF CpuTypeOK, LibTypeOK
  <2>3. \A t \in Threads : Linked(t)' <=> Linked(t)
    BY <1>0, <2>1, <2>2 DEF Allocated, Unlinked
  <2>4. ASSUME NEW r \in Seq(Threads), IsRing(r) PROVE IsRing(r)'
    BY <2>1, <2>2, <2>3, <2>4 DEF IsRing, Opened
  <2>. QED
    BY <2>1, <2>3, <2>4 DEF RingInv, Ring
<1>. QED
  BY <1>1, <1>2, <1>3, <1>4, <1>5, <1>6, <1>7, <1>8 DEF pthread_create, CreateOther


LEMMA RingStep ==
  ASSUME TypeInv, WholeCreates, RingInv, [Next]_vars
  PROVE  RingInv'
<1>. USE DEF TypeInv, TypeOK
<1>1. Whole(CreatePoints)'
  BY WholeStep DEF RingInv, WholeCreates, CreatePoints
<1>2. TypeInv' /\ Alive' /\ (pthread_create \/ SameTcbs)
  BY TypeStep, AliveStep DEF RingInv
<1>3. CASE pthread_create
  BY <1>1, <1>2, <1>3, CreateRing DEF RingInv
<1>4. CASE UNCHANGED <<cpuVars, tail, head, tcbVars>>
  <2>1. \A t \in Threads : Linked(t)' <=> Linked(t)
    BY <1>4 DEF Linked, Allocated
  <2>2. ASSUME NEW r \in Seq(Threads), IsRing(r) PROVE IsRing(r)'
    BY <1>4, <2>1, <2>2 DEF IsRing
  <2>. QED
    BY <1>1, <1>2, <1>4, <2>1, <2>2 DEF RingInv, Ring
<1>5. ASSUME SameTcbs, Depth > 0 \/ pc[cpu] \notin CreatePoints, UNCHANGED <<head, next, prev>>,
             UNCHANGED pc \/ \E p \in BasePoints \ CreatePoints : Goto(p)
      PROVE  RingInv'
  <2>1. \A t \in Threads : pc[t] \notin CreatePoints /\ pc'[t] \notin CreatePoints
    BY <1>5 DEF RingInv, Whole, Goto, CpuTypeOK
  <2>2. \A t \in Threads : Linked(t)' <=> Linked(t)
    BY <1>5, <2>1 DEF SameTcbs, Linked, Unlinked, CreatePoints
  <2>3. pc[cpu] \notin Opened /\ pc'[cpu'] \notin Opened \cup {"c_tail"}
    BY <1>2, <2>1 DEF CpuTypeOK, Opened, CreatePoints
  <2>. QED
    BY <1>1, <1>2, <1>5, <2>2, <2>3, RingKept DEF RingInv
<1>6. ASSUME Tick PROVE Depth > 0 \/ pc[cpu] \notin CreatePoints
  BY <1>6 DEF Tick, Point, WholeCreates, Depth, CpuTypeOK
<1>7. CASE Interrupt /\ ~pthread_create
  BY <1>2, <1>5, <1>6, <1>7 DEF Interrupt, Tick
<1>8. CASE pthread_exit /\ ~pthread_create
  BY <1>2, <1>5, <1>8 DEF pthread_exit, InBase, Calling, CreatePoints, BasePoints, ExitPoints,
     pthread_exit_Enter, pthread_exit_Code, pthread_exit_Wake, pthread_exit_Free
<1>9. CASE pthread_join /\ ~pthread_create
  BY <1>2, <1>5, <1>9 DEF pthread_join, JoinsHandle, InBase, Calling, CreatePoints, BasePoints,
     JoinPoints,
     pthread_join_Call, pthread_join_Hang, pthread_join_Schedule, pthread_join_Read
<1>10. CASE semaphores /\ ~pthread_create
  BY <1>2, <1>5, <1>10 DEF semaphores, sem_wait, InBase, Calling, CreatePoints, BasePoints,
     WaitPoints, sem_init,
     sem_destroy, sem_post, sem_Error, sem_wait_Take, sem_wait_Negative, sem_wait_Block,
     sem_wait_Schedule, sem_wait_Check, sem_wait_Load, sem_wait_Store
<1>11. CASE schedule(Saved) /\ ~pthread_create
  BY <1>2, <1>4, <1>5, <1>11 DEF schedule, InSchedule, schedule_Enter, schedule_Save, schedule_Look,
     schedule_Scan, schedule_Take, schedule_Install, schedule_Jump, schedule_Fault, Fault
<1>. QED
  BY <1>3, <1>4, <1>7, <1>8, <1>9, <1>10, <1>11
  DEF Next, Library, Ended, MainReturns, SyncFault, Fault

LEMMA RingAlways ==
  ASSUME WholeCreates
  PROVE  Spec => [](TypeInv /\ RingInv)
<1>1. Init => TypeInv /\ RingInv
  BY TypeInit, RingInit
<1>2. TypeInv /\ RingInv /\ [Next]_vars => TypeInv' /\ RingInv'
  BY TypeStep, RingStep
<1>. QED
  BY <1>1, <1>2, PTL DEF Spec

(* If no tick lands inside pthread_create, the ring is whole whenever      *)
(* schedule() or pthread_join walks it, wherever else ticks land: prev     *)
(* undoes next, and next leads from head to every tcb.                     *)
THEOREM RingSoundThm == WholeCreates => (Spec => []RingSound)
<1>. SUFFICES ASSUME WholeCreates PROVE Spec => []RingSound
  OBVIOUS
<1>1. ASSUME TypeInv, RingInv PROVE RingSound
  <2>. USE DEF TypeInv, TypeOK
  <2>1. SUFFICES ASSUME head # NULL, pc[cpu] \notin CreatePoints
                 PROVE  /\ \A t \in InRing : next[t] \in Threads /\ prev[next[t]] = t
                        /\ InRing = {RingNode[i] : i \in Steps}
    BY DEF RingSound
  <2>2. PICK r \in Seq(Threads) : IsRing(r)
    BY <1>1, <2>1 DEF RingInv, Ring
  <2>3. \A t \in Threads : pc[t] \notin CreatePoints
    BY <1>1, <2>1 DEF RingInv, Whole
  <2>4. \A t \in Threads : Linked(t) <=> t \in InRing
    BY <2>3 DEF Linked, InRing, Allocated, Unlinked, CreatePoints
  <2>5. InRing \subseteq Threads
    BY DEF InRing
  <2>6. \A t \in Threads : t \in InRing <=> \E i \in 1..Len(r) : r[i] = t
    BY <2>2, <2>4 DEF IsRing
  <2>7. /\ Len(r) \in Nat /\ Len(r) > 0 /\ r[1] = Main /\ head = Main /\ Main \in Threads
        /\ \A i \in 1..(Len(r) - 1) : next[r[i]] = r[i + 1] /\ prev[r[i + 1]] = r[i]
        /\ next[r[Len(r)]] = Main /\ prev[Main] = r[Len(r)]
        /\ \A i \in 1..Len(r) : r[i] \in Threads
        /\ \A i, j \in 1..Len(r) : r[i] = r[j] => i = j
    BY <1>1, <2>1, <2>2 DEF IsRing, Opened, CreatePoints, LibTypeOK, Threads
  <2>8. \A t \in InRing : next[t] \in InRing /\ prev[next[t]] = t
    <3>1. SUFFICES ASSUME NEW i \in 1..Len(r) PROVE next[r[i]] \in InRing /\ prev[next[r[i]]] = r[i]
      BY <2>5, <2>6
    <3>2. CASE i = Len(r)
      <4>1. next[r[i]] = r[1] /\ 1 \in 1..Len(r)
        BY <2>7, <3>2
      <4>. QED
        BY <2>6, <2>7, <3>2, <4>1
    <3>3. CASE i \in 1..(Len(r) - 1)
      <4>1. next[r[i]] = r[i + 1] /\ prev[r[i + 1]] = r[i] /\ i + 1 \in 1..Len(r)
        BY <2>7, <3>3
      <4>. QED
        BY <2>6, <2>7, <4>1
    <3>. QED
      BY <2>7, <3>2, <3>3
  <2>9. /\ Len(r) <= Cardinality(Threads) /\ Steps = 0..Cardinality(Threads)
        /\ Cardinality(Threads) \in Nat
    BY <2>7, QueueLength DEF Steps
  <2>10. \A i \in Steps : RingNode[i] \in InRing
    <3>. DEFINE Bad == {i \in Steps : RingNode[i] \notin InRing}
    <3>1. SUFFICES ASSUME Bad # {} PROVE FALSE
      OBVIOUS
    <3>. DEFINE m == Min(Bad)
    <3>2. m \in Bad /\ \A k \in Bad : m <= k
      <4>. HIDE DEF Bad
      <4>1. Bad \in SUBSET Nat
        BY StepsAreNat DEF Bad
      <4>. QED
        BY <3>1, <4>1, MinIsIn
    <3>. HIDE DEF m
    <3>3. 1 \in 1..Len(r)
      BY <2>7
    <3>4. m # 0
      BY <2>6, <2>7, <3>2, <3>3, RingWalk
    <3>5. m \in Steps \ {0} /\ m - 1 \in Steps /\ ~(m <= m - 1)
      BY <2>9, <3>2, <3>4
    <3>6. RingNode[m - 1] \in InRing
      BY <3>2, <3>5
    <3>. QED
      BY <2>5, <2>8, <3>2, <3>5, <3>6, RingWalk
  <2>11. \A i \in 1..Len(r) : r[i] = RingNode[i - 1]
    <3>. DEFINE Bad == {i \in 1..Len(r) : r[i] # RingNode[i - 1]}
    <3>1. SUFFICES ASSUME Bad # {} PROVE FALSE
      OBVIOUS
    <3>. DEFINE m == Min(Bad)
    <3>2. m \in Bad /\ \A k \in Bad : m <= k
      <4>. HIDE DEF Bad
      <4>1. Bad \in SUBSET Nat
        BY DEF Bad
      <4>. QED
        BY <3>1, <4>1, MinIsIn
    <3>. HIDE DEF m
    <3>3. m # 1
      BY <2>7, <3>2, RingWalk
    <3>4. /\ m \in 1..Len(r) /\ m - 1 \in 1..(Len(r) - 1) /\ m - 1 \in 1..Len(r)
          /\ m - 1 \in Steps \ {0} /\ ~(m <= m - 1) /\ (m - 1) + 1 = m
      BY <2>7, <2>9, <3>2, <3>3
    <3>5. r[m - 1] = RingNode[(m - 1) - 1] /\ r[m] = next[r[m - 1]] /\ r[m - 1] \in Threads
      BY <2>7, <3>2, <3>4
    <3>. QED
      BY <3>2, <3>4, <3>5, RingWalk
  <2>12. \A t \in InRing : t \in {RingNode[i] : i \in Steps}
    <3>1. \A i \in 1..Len(r) : r[i] \in {RingNode[k] : k \in Steps}
      <4>. SUFFICES ASSUME NEW i \in 1..Len(r) PROVE \E k \in Steps : r[i] = RingNode[k]
        OBVIOUS
      <4>1. i - 1 \in Steps
        BY <2>7, <2>9
      <4>. QED
        BY <2>11, <4>1
    <3>. QED
      BY <2>5, <2>6, <3>1
  <2>. QED
    BY <2>5, <2>8, <2>10, <2>12
<1>. QED
  BY <1>1, RingAlways, PTL


-----------------------------------------------------------------------------
(* schedule() gives up only when there is nobody to run.                   *)

(* Only a tcb that is being filled in holds the state malloc left.         *)
Filling ==
  \A t \in Threads : state[t] = Junk =>
    \E u \in Threads : pc[u] \in BeforeHandle /\ obj[u] = t

LEMMA FillingStep ==
  ASSUME TypeInv, RingInv, RingInv', Filling, [Next]_vars
  PROVE  Filling'
<1>. USE DEF TypeInv, TypeOK
<1>0. /\ cpu \in Threads /\ BeforeHandle \subseteq CreatePoints /\ Junk \notin ThreadStates
      /\ \A t \in Threads : pc[t] \in CreatePoints => t = cpu /\ Depth = 0
  BY DEF CpuTypeOK, BeforeHandle, CreatePoints, RingInv, Whole
<1>1. CASE UNCHANGED <<pc, obj, state>>
  BY <1>1 DEF Filling
<1>2. ASSUME pc[cpu] \notin CreatePoints \/ Depth > 0,
             \/ UNCHANGED state
             \/ \E x \in Threads, z \in ThreadStates : state' = [state EXCEPT ![x] = z]
      PROVE  Filling'
  <2>1. \A t \in Threads : state[t] # Junk
    BY <1>0, <1>2 DEF Filling
  <2>2. \A t \in Threads : state'[t] # Junk
    BY <1>0, <1>2, <2>1 DEF LibTypeOK
  <2>. QED
    BY <2>2 DEF Filling
<1>3. CASE pthread_create
  <2>1. CASE CreateEnter
    <3>1. PICK w \in Workers, u \in Uninit : pthread_create_Enter(w, u)
      BY <2>1 DEF CreateEnter
    <3>2. /\ pc[cpu] = "user" /\ state' = [state EXCEPT ![w] = FreshState(u)]
          /\ pc' = [pc EXCEPT ![cpu] = "c_head"] /\ obj' = [obj EXCEPT ![cpu] = w]
      BY <3>1 DEF pthread_create_Enter, Calling, InBase, Goto
    <3>3. \A t \in Threads : state[t] # Junk
      <4>1. "user" \notin CreatePoints
        BY DEF CreatePoints
      <4>2. \A v \in Threads : pc[v] \notin BeforeHandle
        BY <1>0, <3>2, <4>1
      <4>. QED
        BY <4>2 DEF Filling
    <3>4. pc'[cpu] \in BeforeHandle /\ obj'[cpu] = w
      BY <1>0, <3>2 DEF CpuTypeOK, BeforeHandle
    <3>5. \A t \in Threads : t = w \/ state'[t] # Junk
      BY <3>2, <3>3 DEF LibTypeOK
    <3>. QED
      BY <1>0, <3>4, <3>5 DEF Filling
  <2>2. CASE pthread_create_Ready
    <3>1. state' = [state EXCEPT ![obj[cpu]] = "READY"]
      BY <2>2 DEF pthread_create_Ready
    <3>2. \A t \in Threads : t = obj[cpu] \/ state[t] # Junk
      BY <1>0 DEF Filling
    <3>3. \A t \in Threads : state'[t] # Junk
      BY <1>0, <3>1, <3>2 DEF LibTypeOK, ThreadStates
    <3>. QED
      BY <3>3 DEF Filling
  <2>3. CASE \/ CreateFirst \/ CreateFill \/ pthread_create_Tail \/ pthread_create_Append
             \/ pthread_create_Next \/ pthread_create_Prev
    <3>1. /\ UNCHANGED state \/ state' = [state EXCEPT ![Main] = "RUNNING"]
          /\ UNCHANGED obj
          /\ \E p \in BeforeHandle : pc' = [pc EXCEPT ![cpu] = p]
      BY <2>3 DEF CreateFirst, CreateFill, Goto, BeforeHandle, pthread_create_First,
         pthread_create_Tail, pthread_create_Append, pthread_create_Next, pthread_create_Prev, pthread_create_Fill
    <3>2. \A t \in Threads : state'[t] = Junk => state[t] = Junk
      BY <1>0, <3>1 DEF LibTypeOK, ThreadStates
    <3>3. \A t \in Threads : pc[t] \in BeforeHandle => pc'[t] \in BeforeHandle
      BY <1>0, <3>1 DEF CpuTypeOK
    <3>. QED
      BY <3>1, <3>2, <3>3 DEF Filling
  <2>4. CASE CreateContext
    <3>1. pc[cpu] = "c_context" /\ UNCHANGED state
      BY <2>4 DEF CreateContext, pthread_create_Context, InBase
    <3>2. \A t \in Threads : state[t] # Junk
      BY <1>0, <3>1 DEF Filling, BeforeHandle
    <3>. QED
      BY <3>1, <3>2 DEF Filling
  <2>. QED
    BY <1>1, <1>3, <2>1, <2>2, <2>3, <2>4 DEF pthread_create, CreateOther, Fault,
       pthread_create_NoMemory, pthread_create_Fault
<1>4. ASSUME head # NULL PROVE running \in Threads
  BY <1>4 DEF HeadShape, LibTypeOK
<1>5. CASE pthread_exit
  <2>1. /\ pc[cpu] \notin CreatePoints
        /\ \/ UNCHANGED state
           \/ running # NULL /\ state' = [state EXCEPT ![running] = "TERMINATED"]
           \/ /\ join[running] \notin {NULL, Junk} /\ head # NULL
              /\ state' = [state EXCEPT ![join[running]] = "READY"]
    BY <1>5 DEF pthread_exit, pthread_exit_Enter, pthread_exit_Code, pthread_exit_Wake,
       pthread_exit_Free, CreatePoints, InBase, Calling, HeadShape
  <2>2. join[running] \in Threads \/ join[running] \in {NULL, Junk} \/ head = NULL
    BY <1>4 DEF SyncTypeOK, Pointers
  <2>. QED
    BY <1>2, <1>4, <2>1, <2>2 DEF ThreadStates, HeadShape
<1>6. CASE pthread_join
  <2>1. /\ pc[cpu] \notin CreatePoints
        /\ \/ UNCHANGED state
           \/ head # NULL /\ state' = [state EXCEPT ![running] = "BLOCKED"]
    BY <1>6 DEF pthread_join, pthread_join_Call, pthread_join_Hang, JoinsHandle,
       pthread_join_Schedule, pthread_join_Read, CreatePoints, InBase, Calling, HeadShape
  <2>. QED
    BY <1>2, <1>4, <2>1 DEF ThreadStates
<1>7. CASE semaphores
  <2>1. /\ pc[cpu] \notin CreatePoints
        /\ \/ UNCHANGED state
           \/ running # NULL /\ state' = [state EXCEPT ![running] = "BLOCKED"]
           \/ \E s \in Sems : Wakeable(s) # {} /\ state' = [state EXCEPT ![ToWake(s)] = "READY"]
    BY <1>7 DEF semaphores, sem_wait, CreatePoints, InBase, Calling, sem_init,
       sem_destroy, sem_post, sem_Error, sem_wait_Take, sem_wait_Negative, sem_wait_Block,
       sem_wait_Schedule, sem_wait_Check, sem_wait_Load, sem_wait_Store
  <2>. QED
    BY <1>2, <1>4, <2>1, ToWakeType DEF ThreadStates, HeadShape
<1>8. CASE schedule(Saved)
  <2>1. ASSUME Depth > 0, Top.at = "take" \/ Top.at = "install" PROVE Top.ptr \in Threads
    BY <2>1, TopType DEF Frames
  <2>2. ASSUME schedule_Enter(Saved) PROVE Depth > 0 /\ \A t \in Threads : state'[t] # Junk
    <3>1. Depth > 0 /\ \A t \in Threads : state[t] # Junk
      BY <1>0, <2>2 DEF schedule_Enter, InSchedule, Filling
    <3>. QED
      BY <1>0, <2>2, <3>1 DEF schedule_Enter, LibTypeOK, ThreadStates
  <2>3. CASE schedule_Take \/ schedule_Install
    BY <1>2, <2>1, <2>3 DEF schedule_Take, schedule_Install, InSchedule, ThreadStates
  <2>. QED
    BY <1>2, <1>8, <2>2, <2>3 DEF schedule, InSchedule, schedule_Save, schedule_Look,
       schedule_Scan, schedule_Jump, schedule_Fault, Fault, Filling
<1>9. CASE Interrupt
  BY <1>1, <1>9 DEF Interrupt, Tick
<1>. QED
  BY <1>1, <1>3, <1>5, <1>6, <1>7, <1>8, <1>9
  DEF Next, Library, Ended, MainReturns, SyncFault, Fault


(* V holds the tcbs the scan has passed.                                   *)
Scanned(V) ==
  /\ Top.end \in Threads /\ Linked(Top.end) /\ Top.end \in V \cup {Top.ptr}
  /\ \A v \in V : state[v] # "READY" /\ next[v] \in V \cup {Top.ptr}

Scanning == Phase = "scan" => \E V \in SUBSET Threads : Scanned(V)

(* A set of tcbs that is closed under next is the whole ring, or none.     *)
LEMMA RingClosed ==
  ASSUME TypeInv, NEW r \in Seq(Threads), IsRing(r), pc[cpu] \notin Opened,
         NEW W, \A v \in W : next[v] \in W, NEW e \in Threads, Linked(e), e \in W
  PROVE  \A t \in Threads : Linked(t) => t \in W
<1>1. /\ Len(r) \in Nat /\ r[1] = Main /\ next[r[Len(r)]] = Main
      /\ \A i \in 1..(Len(r) - 1) : next[r[i]] = r[i + 1]
      /\ \A t \in Threads : Linked(t) <=> \E i \in 1..Len(r) : r[i] = t
  BY DEF IsRing
<1>2. ASSUME NEW k \in 1..Len(r), r[k] \in W
      PROVE  \A i \in k..Len(r) : r[i] \in W
  <2>. DEFINE Bad == {i \in k..Len(r) : r[i] \notin W}
  <2>1. SUFFICES ASSUME Bad # {} PROVE FALSE
    OBVIOUS
  <2>. DEFINE m == Min(Bad)
  <2>2. m \in Bad /\ \A j \in Bad : m <= j
    <3>. HIDE DEF Bad
    <3>1. Bad \in SUBSET Nat
      BY DEF Bad
    <3>. QED
      BY <2>1, <3>1, MinIsIn
  <2>. HIDE DEF m
  <2>3. m # k
    BY <1>2, <2>2
  <2>4. /\ m \in k..Len(r) /\ m - 1 \in k..Len(r) /\ m - 1 \in 1..(Len(r) - 1)
        /\ ~(m <= m - 1) /\ (m - 1) + 1 = m
    BY <1>1, <2>2, <2>3
  <2>5. r[m - 1] \in W /\ r[m] = next[r[m - 1]]
    BY <1>1, <2>2, <2>4
  <2>. QED
    BY <2>2, <2>5
<1>3. PICK k \in 1..Len(r) : r[k] = e
  BY <1>1
<1>4. r[Len(r)] \in W /\ 1 \in 1..Len(r)
  <2>1. Len(r) \in k..Len(r)
    BY <1>1, <1>3
  <2>. QED
    BY <1>1, <1>2, <1>3, <2>1
<1>5. r[1] \in W
  BY <1>1, <1>4
<1>6. \A i \in 1..Len(r) : r[i] \in W
  BY <1>2, <1>4, <1>5
<1>7. ASSUME NEW t \in Threads, Linked(t) PROVE t \in W
  <2>1. PICK i \in 1..Len(r) : r[i] = t
    BY <1>1, <1>7
  <2>. QED
    BY <1>6, <2>1
<1>. QED
  BY <1>7

LEMMA JumpPhase ==
  ASSUME TypeInv, CurrentInv, schedule_Jump
  PROVE  Phase' = "code"
<1>. USE DEF TypeInv, TypeOK
<1>1. /\ Phase = "jump" /\ running = Top.ptr /\ running \in Threads
  BY DEF schedule_Jump, InSchedule, Phase, Depth, CurrentInv, Current, HeadShape, LibTypeOK
<1>2. /\ context[running].owner \in Threads /\ cpu' = context[running].owner
      /\ act' = [act EXCEPT ![context[running].owner] = SubSeq(@, 1, context[running].depth - 1)]
  BY <1>1 DEF schedule_Jump, Resumable
<1>3. context[running] # NoContext
  BY <1>2 DEF NoContext, Threads
<1>4. context[running] = [owner |-> running, depth |-> 1]
  BY <1>1, <1>3 DEF CurrentInv, OwnContexts
<1>5. cpu' = running /\ act' = [act EXCEPT ![running] = SubSeq(@, 1, 0)]
  BY <1>2, <1>4
<1>6. SubSeq(act[running], 1, 0) = <<>>
  BY <1>1 DEF CpuTypeOK
<1>. QED
  BY <1>1, <1>5, <1>6 DEF Phase, Depth, CpuTypeOK

LEMMA ScanningStep ==
  ASSUME Unnested, TypeInv, CurrentInv, RingInv, RingInv', Scanning, [Next]_vars
  PROVE  Scanning'
<1>. USE DEF TypeInv, TypeOK
<1>0. cpu \in Threads /\ act \in [Threads -> Seq(Frames)]
  BY DEF CpuTypeOK
<1>1. CASE UNCHANGED <<cpuVars, tcbVars>>
  <2>1. UNCHANGED <<Phase, Top>>
    BY <1>1 DEF Phase, Top, Depth
  <2>2. \A t \in Threads : Linked(t)' <=> Linked(t)
    BY <1>1 DEF Linked, Allocated
  <2>3. ASSUME NEW V \in SUBSET Threads, Scanned(V) PROVE Scanned(V)'
    BY <1>1, <2>1, <2>2, <2>3 DEF Scanned
  <2>. QED
    BY <2>1, <2>3 DEF Scanning
<1>2. CASE Depth = 0 /\ UNCHANGED <<cpu, act>>
  BY <1>2 DEF Scanning, Phase, Depth
<1>3. CASE Depth = 0 /\ UNCHANGED cpu /\ PushSchedule
  <2>1. act'[cpu] = <<Frame("enter")>>
    <3>1. act[cpu] = <<>>
      BY <1>0, <1>3 DEF Depth
    <3>. QED
      BY <1>0, <1>3, <3>1 DEF PushSchedule
  <2>2. Phase' = "enter"
    BY <1>3, <2>1 DEF Phase, Depth, Top, Frame
  <2>. QED
    BY <2>2 DEF Scanning
<1>4. ASSUME NEW p, InSchedule(p)
      PROVE  /\ Depth > 0 /\ Phase = p /\ head # NULL /\ running \in Threads
             /\ \A t \in Threads : pc[t] \notin CreatePoints
  BY <1>4 DEF InSchedule, Phase, Depth, HeadShape, LibTypeOK, RingInv, Whole
<1>5. ASSUME NEW f, f.at # "scan", SetTop(f), Depth > 0, UNCHANGED cpu
      PROVE  Scanning'
  BY <1>5, SetTopPhase DEF CurrentInv, Scanning
<1>6. CASE schedule_Enter(Saved) \/ schedule_Save
  <2>1. \A p \in {"save", "look"} : Frame(p).at # "scan"
    BY DEF Frame
  <2>. QED
    BY <1>4, <1>5, <1>6, <2>1 DEF schedule_Enter, schedule_Save
<1>7. CASE schedule_Take \/ schedule_Install
  <2>1. Top \in Frames
    BY <1>4, <1>7, TopType DEF schedule_Take, schedule_Install
  <2>2. \A p \in {"install", "jump"} : [Top EXCEPT !.at = p].at # "scan"
    BY <2>1 DEF Frames
  <2>. QED
    BY <1>4, <1>5, <1>7, <2>2 DEF schedule_Take, schedule_Install
<1>8. CASE schedule_Jump
  BY <1>8, JumpPhase DEF Scanning
<1>9. CASE schedule_Look
  <2>1. /\ Depth > 0 /\ UNCHANGED <<cpu, pc, obj, state, next, head>> /\ running \in Threads /\ head # NULL
        /\ SetTop([at |-> "scan", ptr |-> next[running], end |-> next[running]])
        /\ \A t \in Threads : pc[t] \notin CreatePoints
    BY <1>4, <1>9 DEF schedule_Look
  <2>2. Top' = [at |-> "scan", ptr |-> next[running], end |-> next[running]]
    BY <2>1, SetTopPhase DEF CurrentInv
  <2>3. Linked(running)
    BY <2>1 DEF RingInv, Alive, Linked, Unlinked, CreatePoints
  <2>4. next[running] \in Threads /\ Linked(next[running])
    <3>1. PICK r \in Seq(Threads) : IsRing(r)
      BY <2>1 DEF RingInv, Ring
    <3>2. PICK i \in 1..Len(r) : r[i] = running
      BY <2>1, <2>3, <3>1 DEF IsRing
    <3>3. next[running] = IF i = Len(r) THEN r[1] ELSE r[i + 1]
      <4>1. pc[cpu] \notin Opened
        BY <1>0, <2>1 DEF Opened, CreatePoints
      <4>2. CASE i = Len(r)
        BY <3>1, <3>2, <4>1, <4>2 DEF IsRing
      <4>3. CASE i # Len(r)
        <5>1. i \in 1..(Len(r) - 1)
          BY <3>1, <4>3
        <5>. QED
          BY <3>1, <3>2, <4>3, <5>1 DEF IsRing
      <4>. QED
        BY <4>2, <4>3
    <3>4. 1 \in 1..Len(r) /\ (i # Len(r) => i + 1 \in 1..Len(r))
      BY <3>1 DEF IsRing
    <3>5. PICK j \in 1..Len(r) : next[running] = r[j]
      BY <3>3, <3>4
    <3>6. r[j] \in Threads
      OBVIOUS
    <3>. QED
      BY <3>1, <3>5, <3>6 DEF IsRing
  <2>6. Scanned({})'
    <3>1. PICK e \in Threads : e = next[running]
      BY <2>4
    <3>2. Linked(e)'
      BY <2>1, <2>4, <3>1 DEF Linked, Allocated
    <3>. QED
      BY <2>2, <3>1, <3>2 DEF Scanned
  <2>. QED
    BY <2>6 DEF Scanning
<1>10. CASE schedule_Scan
  <2>1. /\ Depth > 0 /\ Phase = "scan" /\ Top \in Frames /\ Top.ptr \in Threads
        /\ UNCHANGED <<cpu, pc, obj, tcbVars>>
    BY <1>4, <1>10, TopType DEF schedule_Scan
  <2>2. CASE UNCHANGED act
    BY <1>1, <1>10, <2>1, <2>2 DEF schedule_Scan
  <2>3. CASE SetTop([Top EXCEPT !.at = "take"])
    <3>1. [Top EXCEPT !.at = "take"].at = "take"
      BY <2>1 DEF Frames
    <3>. QED
      BY <1>5, <2>1, <2>3, <3>1
  <2>4. CASE SetTop([Top EXCEPT !.ptr = next[Top.ptr]]) /\ state[Top.ptr] # "READY"
    <3>1. PICK V \in SUBSET Threads : Scanned(V)
      BY <2>1 DEF Scanning
    <3>. DEFINE W == V \cup {Top.ptr}
    <3>2. Top'.ptr = next[Top.ptr] /\ Top'.end = Top.end
      <4>1. Top' = [Top EXCEPT !.ptr = next[Top.ptr]]
        BY <2>1, <2>4, SetTopPhase DEF CurrentInv
      <4>. QED
        BY <2>1, <4>1 DEF Frames
    <3>3. PICK e \in Threads : e = Top.end /\ Linked(e)
      BY <3>1 DEF Scanned
    <3>4. Linked(e)'
      BY <2>1, <3>3 DEF Linked, Allocated
    <3>5. \A v \in W : state[v] # "READY" /\ next[v] \in W \cup {next[Top.ptr]}
      BY <2>4, <3>1 DEF Scanned
    <3>6. PICK X \in SUBSET Threads : X = W
      BY <2>1
    <3>7. Scanned(X)'
      <4>1. \A v \in X : state'[v] # "READY" /\ next'[v] \in X \cup {Top'.ptr}
        BY <2>1, <3>2, <3>5, <3>6
      <4>2. Top'.end = e /\ e \in X \cup {Top'.ptr}
        BY <3>1, <3>2, <3>3, <3>6 DEF Scanned
      <4>. QED
        BY <3>4, <4>1, <4>2 DEF Scanned
    <3>. QED
      BY <3>7 DEF Scanning
  <2>. QED
    BY <1>10, <2>2, <2>3, <2>4 DEF schedule_Scan
<1>11. CASE schedule_Fault
  BY <1>1, <1>11 DEF schedule_Fault, Fault
<1>12. CASE Interrupt
  BY <1>3, <1>12, TickInCode
<1>13. CASE pthread_create
  BY <1>1, <1>2, <1>13 DEF pthread_create, CreateEnter, CreateFirst, CreateFill, CreateContext,
     CreateOther, Calling, InBase, Fault,
     pthread_create_Enter, pthread_create_First, pthread_create_NoMemory,
     pthread_create_Tail, pthread_create_Append, pthread_create_Next, pthread_create_Prev, pthread_create_Fill,
     pthread_create_Ready, pthread_create_Context, pthread_create_Fault
<1>14. CASE pthread_exit \/ pthread_join
  BY <1>1, <1>2, <1>3, <1>14 DEF pthread_exit, pthread_exit_Enter, pthread_exit_Code,
     pthread_exit_Wake, pthread_exit_Free, pthread_join, JoinsHandle, Calling, InBase,
     pthread_join_Call, pthread_join_Hang, pthread_join_Schedule, pthread_join_Read
<1>15. CASE semaphores
  BY <1>2, <1>3, <1>15 DEF semaphores, sem_wait, Calling, InBase, sem_init,
     sem_destroy, sem_post, sem_Error, sem_wait_Take, sem_wait_Negative, sem_wait_Block,
     sem_wait_Schedule, sem_wait_Check, sem_wait_Load, sem_wait_Store
<1>16. CASE schedule(Saved)
  BY <1>6, <1>7, <1>8, <1>9, <1>10, <1>11, <1>16 DEF schedule
<1>. QED
  BY <1>1, <1>12, <1>13, <1>14, <1>15, <1>16
  DEF Next, Library, Ended, MainReturns, SyncFault, Fault

(* The step in which schedule() gives up.                                  *)
LEMMA GivesUp ==
  ASSUME TypeInv, CurrentInv, RingInv, Filling, Scanning, schedule_Scan, status' = "exit0"
  PROVE  \A t \in Threads : state[t] \in {"ABSENT", "BLOCKED", "TERMINATED"}
<1>. USE DEF TypeInv, TypeOK
<1>1. /\ Depth > 0 /\ Phase = "scan" /\ head # NULL /\ Top.ptr \in Threads
      /\ \A t \in Threads : pc[t] \notin CreatePoints
      /\ state[Top.ptr] # "READY" /\ next[Top.ptr] = Top.end /\ cpu \in Threads
  BY DEF schedule_Scan, InSchedule, Phase, Depth, HeadShape, RingInv, Whole, CpuTypeOK
<1>2. PICK V \in SUBSET Threads : Scanned(V)
  BY <1>1 DEF Scanning
<1>3. PICK r \in Seq(Threads) : IsRing(r)
  BY <1>1 DEF RingInv, Ring
<1>. DEFINE W == V \cup {Top.ptr}
<1>4. /\ \A v \in W : next[v] \in W /\ state[v] # "READY"
      /\ Top.end \in Threads /\ Linked(Top.end) /\ Top.end \in W
  BY <1>1, <1>2 DEF Scanned
<1>. HIDE DEF W
<1>5. pc[cpu] \notin Opened
  BY <1>1 DEF Opened, CreatePoints
<1>6. \A t \in Threads : Linked(t) => t \in W
  BY <1>3, <1>4, <1>5, RingClosed
<1>7. ASSUME NEW t \in Threads PROVE state[t] \notin {"READY", "RUNNING", Junk}
  <2>1. state[t] # "RUNNING"
    BY <1>1 DEF CurrentInv, RunningState
  <2>2. state[t] # Junk
    BY <1>1 DEF Filling, BeforeHandle, CreatePoints
  <2>3. state[t] = "READY" => Linked(t)
    BY <1>1 DEF Linked, Allocated, Unlinked, CreatePoints
  <2>. QED
    BY <1>4, <1>6, <2>1, <2>2, <2>3
<1>8. \A t \in Threads : state[t] \in TcbStates
  BY DEF LibTypeOK
<1>. QED
  BY <1>7, <1>8 DEF TcbStates, ThreadStates

LEMMA ExitsOnlyStep ==
  ASSUME TypeInv, CurrentInv, RingInv, Filling, Scanning, ExitsOnlyWhenStuck, [Next]_vars
  PROVE  ExitsOnlyWhenStuck'
<1>1. CASE status' # "exit0"
  BY <1>1 DEF ExitsOnlyWhenStuck
<1>2. CASE UNCHANGED <<status, state>>
  BY <1>2 DEF ExitsOnlyWhenStuck
<1>3. CASE schedule_Scan
  BY <1>1, <1>3, GivesUp DEF ExitsOnlyWhenStuck, schedule_Scan
<1>4. ASSUME status = "up", UNCHANGED status PROVE status' # "exit0"
  BY <1>4
<1>5. CASE pthread_create \/ pthread_exit \/ pthread_join
  BY <1>1, <1>4, <1>5 DEF pthread_create, CreateEnter, CreateFirst, CreateFill, CreateContext,
     CreateOther, Calling, InBase, Fault,
     pthread_create_Enter, pthread_create_First, pthread_create_NoMemory,
     pthread_create_Tail, pthread_create_Append, pthread_create_Next, pthread_create_Prev, pthread_create_Fill,
     pthread_create_Ready, pthread_create_Context, pthread_create_Fault,
     pthread_exit, pthread_exit_Enter, pthread_exit_Code,
     pthread_exit_Wake, pthread_exit_Free, pthread_join, JoinsHandle,
     pthread_join_Call, pthread_join_Hang, pthread_join_Schedule, pthread_join_Read
<1>6. CASE semaphores
  BY <1>1, <1>4, <1>6 DEF semaphores, sem_wait, Calling, InBase, sem_init,
     sem_destroy, sem_post, sem_Error, sem_wait_Take, sem_wait_Negative, sem_wait_Block,
     sem_wait_Schedule, sem_wait_Check, sem_wait_Load, sem_wait_Store
<1>7. CASE schedule(Saved)
  BY <1>1, <1>3, <1>4, <1>7 DEF schedule, InSchedule, schedule_Enter, schedule_Save, schedule_Look,
     schedule_Take, schedule_Install, schedule_Jump, schedule_Fault, Fault
<1>. QED
  BY <1>1, <1>2, <1>3, <1>5, <1>6, <1>7
  DEF Next, Library, Interrupt, Tick, Ended, MainReturns, SyncFault, Fault

(* If no tick lands inside schedule() or pthread_create, exit(0) in        *)
(* schedule() means that no thread could ever run again.                   *)
THEOREM ExitsOnlyWhenStuckThm == Unnested /\ WholeCreates => (Spec => []ExitsOnlyWhenStuck)
<1>. SUFFICES ASSUME Unnested, WholeCreates PROVE Spec => []ExitsOnlyWhenStuck
  OBVIOUS
<1>. DEFINE I == TypeInv /\ CurrentInv /\ RingInv /\ Filling /\ Scanning /\ ExitsOnlyWhenStuck
<1>1. Init => I
  <2>1. Init => Filling
    BY DEF Init, CoreInit, Filling, ThreadStates
  <2>2. Init => Scanning /\ ExitsOnlyWhenStuck
    BY DEF Init, CoreInit, Scanning, Phase, Depth, ExitsOnlyWhenStuck, Threads
  <2>. QED
    BY <2>1, <2>2, TypeInit, CurrentInit, RingInit
<1>2. I /\ [Next]_vars => I'
  BY TypeStep, CurrentStep, RingStep, FillingStep, ScanningStep, ExitsOnlyStep
<1>3. I => ExitsOnlyWhenStuck
  OBVIOUS
<1>. QED
  BY <1>1, <1>2, <1>3, PTL DEF Spec


=============================================================================
