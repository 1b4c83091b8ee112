------------------------ MODULE ThreadsBlockingProof ------------------------
(***************************************************************************)
(* Theorems about blocking and waking, for every client and every choice   *)
(* of ticks outside schedule(): a thread that has terminated stays so and  *)
(* its stack is not run again, the queue of a semaphore is a sound list    *)
(* served in order, and a BLOCKED thread has somebody to wake it.          *)
(***************************************************************************)
EXTENDS ThreadsProof

USE CoreAssumption
USE DEF vars, coreVars, cpuVars, libVars, tcbVars, syncVars, tcb3Vars, semVars

-----------------------------------------------------------------------------
(* The inductive invariant, but for the queues.                            *)

(* The thread schedule() has chosen.                                       *)
ChosenState ==
  /\ Phase = "take" => state[Top.ptr] = "READY"
  /\ Phase \in {"install", "jump"} => state[Top.ptr] = "RUNNING"

(* What a thread's state says about where its own code is.                 *)
PcStates ==
  \A t \in Threads :
    /\ state[t] = "TERMINATED" <=> pc[t] \in ExitPoints
    /\ state[t] = "BLOCKED" => pc[t] \in {"j_call", "j_read", "w_call", "w_check"}
    /\ state[t] = "ABSENT" /\ t # Main => pc[t] = "user"
    /\ pc[t] \in CreatePoints => pc[obj[t]] = "user"

(* The state of the thread on the CPU.                                     *)
CpuState ==
  /\ head = NULL => state[Main] = "ABSENT"
  /\ head # NULL =>
       /\ Phase = "code" /\ pc[cpu] \notin {"j_call", "w_call"} \cup ExitPoints
            => state[cpu] = "RUNNING"
       /\ Phase \in {"code", "enter"} => state[cpu] \in {"RUNNING", "BLOCKED", "TERMINATED"}
       /\ Phase = "save" => state[cpu] \in {"READY", "BLOCKED"}

(* pthread_exit is past the line that wakes the joiner.                    *)
Gone(u) == pc[u] \in {"x_free", "x_spin"}

(* A thread and the one joining it know each other.                        *)
Joining(t) == state[t] = "BLOCKED" /\ pc[t] \in JoinPoints
Joined ==
  \A u \in Threads : join[u] \in Threads /\ ~Gone(u) =>
    Joining(join[u]) /\ obj[join[u]] = u
Joiners ==
  \A t \in Threads : Joining(t) => join[obj[t]] = t /\ ~Gone(obj[t])

(* No handle leads to a tcb that is not allocated or not filled in yet.    *)
Unfilled == {"c_head", "c_tail", "c_next", "c_prev", "c_fill"}
Handles ==
  /\ \A w \in Workers : handle[w] # 0
  /\ tid[Main] = 0
  /\ \A t \in Threads : state[t] = "ABSENT" => tid[t] = 0 /\ join[t] = NULL
  /\ \A t \in Threads : pc[t] \in CreatePoints => id > 0
  /\ \A t \in Threads : pc[t] \in Unfilled =>
       tid[obj[t]] \in {0, Junk} /\ join[obj[t]] \in {NULL, Junk}

Freed == \A t \in Threads : stack[t] = "freed" => state[t] = "TERMINATED"

BlockInv == ChosenState /\ PcStates /\ CpuState /\ Joined /\ Joiners /\ Handles /\ Freed

LEMMA BlockInit == Init => BlockInv
<1>. SUFFICES ASSUME Init PROVE BlockInv
  OBVIOUS
<1>1. cpu = Main /\ Phase = "code" /\ Main \in Threads
  BY DEF Init, CoreInit, Phase, Depth, Threads
<1>2. /\ \A t \in Threads : /\ state[t] = "ABSENT" /\ pc[t] = "user" /\ tid[t] = 0
                            /\ join[t] = NULL /\ stack[t] = NULL
      /\ head = NULL /\ \A w \in Workers : handle[w] = NULL
  BY DEF Init, CoreInit
<1>3. ChosenState /\ CpuState
  BY <1>1, <1>2 DEF ChosenState, CpuState
<1>4. PcStates
  BY <1>2 DEF PcStates, ExitPoints, CreatePoints
<1>5. Freed
  <2>1. NULL # "freed"
    BY CoreAssumption
  <2>. QED
    BY <1>2, <2>1 DEF Freed
<1>6. Joined /\ Joiners /\ Handles
  BY <1>1, <1>2 DEF Joined, Joiners, Joining, Handles, CreatePoints, Unfilled
<1>. QED
  BY <1>3, <1>4, <1>5, <1>6 DEF BlockInv

-----------------------------------------------------------------------------
(* Steps that leave the states of the threads alone.                       *)

(* Only the process's status or its signal mask changes.                   *)
LEMMA StillBlock ==
  ASSUME BlockInv, UNCHANGED <<cpuVars, tail, handle, libVars, tcbVars, join, stack>>
  PROVE  BlockInv'
  BY DEF BlockInv, ChosenState, PcStates, CpuState, Joined, Joiners, Joining,
     Handles, Freed, Gone, Phase, Depth, Top

(* Nobody starts joining, is joined, or passes the line that wakes joiners.*)
LEMMA JoinsKept ==
  ASSUME TypeInv, BlockInv,
         \A t \in Threads : /\ Joining(t)' <=> Joining(t)
                            /\ Joining(t) => obj'[t] = obj[t]
                            /\ Gone(t)' <=> Gone(t)
                            /\ \/ join'[t] = join[t]
                               \/ join[t] \in {NULL, Junk} /\ join'[t] \in {NULL, Junk}
  PROVE  Joined' /\ Joiners'
<1>1. {NULL, Junk} \cap Threads = {}
  OBVIOUS
<1>2. \A u \in Threads : join'[u] \in Threads <=> join[u] \in Threads
  BY <1>1, Zenon
<1>3. \A t \in Threads : Joining(t) => obj[t] \in Threads
  BY DEF Joining, TypeInv, LocalsShape
<1>4. Joined'
  <2>1. SUFFICES ASSUME NEW u \in Threads, NEW j \in Threads, join'[u] = j, ~Gone(u)'
                 PROVE  Joining(j)' /\ obj'[j] = u
    BY DEF Joined, Joining
  <2>2. join[u] = j /\ ~Gone(u)
    BY <1>1, <2>1
  <2>3. Joining(j) /\ obj[j] = u
    BY <2>2 DEF BlockInv, Joined
  <2>. QED
    BY <2>3
<1>5. Joiners'
  <2>1. SUFFICES ASSUME NEW t \in Threads, Joining(t)', NEW u, obj'[t] = u
                 PROVE  join'[u] = t /\ ~Gone(u)'
    BY DEF Joiners, Gone
  <2>2. Joining(t) /\ obj[t] = u /\ u \in Threads
    BY <1>3, <2>1
  <2>3. join[u] = t /\ ~Gone(u)
    BY <2>2 DEF BlockInv, Joiners
  <2>. QED
    BY <1>1, <2>2, <2>3
<1>. QED
  BY <1>4, <1>5

(* What is known of the thread on the CPU when its own code runs.          *)
LEMMA Awake ==
  ASSUME TypeInv, CurrentInv, BlockInv, Depth = 0
  PROVE  /\ Phase = "code" /\ cpu \in Threads /\ Workers \subseteq Threads
         /\ head # NULL => running = cpu
         /\ head = NULL => cpu = Main /\ state[cpu] = "ABSENT" /\ pc[cpu] \in {"user", "c_head"}
         /\ pc[cpu] \notin {"j_call", "w_call"} \cup ExitPoints =>
              /\ state[cpu] \notin {"BLOCKED", "TERMINATED"}
              /\ head # NULL => state[cpu] = "RUNNING"
         /\ \A t \in Threads : pc[t] \in CreatePoints =>
              obj[t] # cpu /\ obj[t] \in Workers /\ obj[t] \in Threads
         /\ obj[cpu] \notin Threads \/ \A t \in Threads \ {cpu} :
              pc[t] \in CreatePoints /\ pc[cpu] \in CreatePoints => obj[t] # obj[cpu]
<1>1. Phase = "code" /\ cpu \in Threads /\ Workers \subseteq Threads /\ Main \in Threads
  BY DEF Phase, TypeInv, TypeOK, CpuTypeOK, Threads
<1>2. head # NULL => running = cpu
  BY <1>1 DEF CurrentInv, Current
<1>3. head = NULL => cpu = Main /\ state[cpu] = "ABSENT" /\ pc[cpu] \in {"user", "c_head"}
  BY DEF TypeInv, HeadShape, BlockInv, CpuState
<1>4. pc[cpu] \notin {"j_call", "w_call"} \cup ExitPoints /\ head # NULL
        => state[cpu] = "RUNNING"
  BY <1>1 DEF BlockInv, CpuState
<1>5. \A t \in Threads : pc[t] \in CreatePoints => obj[t] # cpu /\ obj[t] \in Workers
  BY DEF TypeInv, LocalsShape, CurrentInv, Newborns
<1>6. obj[cpu] \notin Threads \/ \A t \in Threads \ {cpu} :
              pc[t] \in CreatePoints /\ pc[cpu] \in CreatePoints => obj[t] # obj[cpu]
  BY <1>1 DEF CurrentInv, Newborns
<1>. QED
  BY <1>1, <1>2, <1>3, <1>4, <1>5, <1>6

(* A step of the running thread's code that only moves its pc on.          *)
LEMMA QuietBlock ==
  ASSUME TypeInv, CurrentInv, BlockInv, Depth = 0,
         pc[cpu] \notin {"j_call", "w_call"} \cup ExitPoints,
         UNCHANGED <<cpu, act, obj, handle, head, state, tid, join, stack>>,
         id' \in {id, id + 1},
         \A t \in Threads \ {cpu} : pc'[t] = pc[t],
         pc'[cpu] \notin {"j_call", "w_call"} \cup ExitPoints,
         pc'[cpu] \in CreatePoints => pc[cpu] \in CreatePoints,
         pc'[cpu] \in Unfilled => pc[cpu] \in Unfilled
  PROVE  BlockInv'
<1>1. /\ Phase = "code" /\ Phase' = "code" /\ cpu \in Threads
      /\ state[cpu] \notin {"BLOCKED", "TERMINATED"}
      /\ head # NULL => state[cpu] = "RUNNING"
      /\ state[cpu] = "ABSENT" => cpu = Main
      /\ \A t \in Threads : pc[t] \in CreatePoints => obj[t] # cpu /\ obj[t] \in Threads
  BY Awake DEF Phase, Depth
<1>2. ChosenState' /\ CpuState' /\ Freed'
  BY <1>1 DEF BlockInv, ChosenState, CpuState, Freed
<1>3. PcStates'
  BY <1>1 DEF BlockInv, PcStates
<1>4. Joined' /\ Joiners'
  <2>1. \A u \in Threads : Gone(u)' <=> Gone(u)
    BY <1>1 DEF Gone, ExitPoints
  <2>2. \A t \in Threads : Joining(t)' <=> Joining(t)
    BY <1>1 DEF Joining
  <2>. QED
    BY <2>1, <2>2, JoinsKept
<1>5. Handles'
  <2>1. id \in Nat
    BY DEF TypeInv, TypeOK, LibTypeOK
  <2>. QED
    BY <1>1, <2>1 DEF BlockInv, Handles
<1>. QED
  BY <1>2, <1>3, <1>4, <1>5 DEF BlockInv

(* The CPU enters schedule(), called or by a tick.                         *)
LEMMA PushBlock ==
  ASSUME TypeInv, CurrentInv, BlockInv, Depth = 0, PushSchedule,
         UNCHANGED <<cpu, obj, tail, handle, libVars, tcbVars, join, stack>>,
         \/ UNCHANGED pc
         \/ pc[cpu] = "j_call" /\ Goto("j_read")
         \/ pc[cpu] = "w_call" /\ Goto("w_check")
  PROVE  BlockInv'
<1>1. cpu \in Threads /\ act \in [Threads -> Seq(Frames)] /\ act[cpu] = <<>>
      /\ pc \in [Threads -> BasePoints]
  BY DEF TypeInv, TypeOK, CpuTypeOK, Depth
<1>2. act'[cpu] = <<Frame("enter")>>
  BY <1>1 DEF PushSchedule
<1>3. Phase = "code" /\ Phase' = "enter"
  BY <1>2 DEF Phase, Depth, Top, Frame
<1>4. /\ \A t \in Threads : pc'[t] \in CreatePoints <=> pc[t] \in CreatePoints
      /\ \A t \in Threads : pc'[t] \in ExitPoints <=> pc[t] \in ExitPoints
      /\ \A t \in Threads : pc'[t] \in JoinPoints <=> pc[t] \in JoinPoints
      /\ \A t \in Threads : pc'[t] \in Unfilled <=> pc[t] \in Unfilled
      /\ \A t \in Threads : pc'[t] = "user" <=> pc[t] = "user"
      /\ \A t \in Threads : Gone(t)' <=> Gone(t)
      /\ \A t \in Threads : pc[t] \in {"j_call", "j_read", "w_call", "w_check"} =>
                            pc'[t] \in {"j_call", "j_read", "w_call", "w_check"}
  BY <1>1 DEF Goto, CreatePoints, ExitPoints, JoinPoints, Unfilled, Gone
<1>5. ChosenState' /\ CpuState' /\ Freed'
  BY <1>3 DEF BlockInv, ChosenState, CpuState, Freed
<1>6. \A t \in Threads : pc[t] \in CreatePoints => obj[t] \in Threads
  BY Awake
<1>7. \A t \in Threads : Joining(t)' <=> Joining(t)
  BY <1>4 DEF Joining
<1>8. PcStates' /\ Handles'
  BY <1>4, <1>6 DEF BlockInv, PcStates, Handles
<1>9. Joined' /\ Joiners'
  BY <1>4, <1>7, JoinsKept
<1>. QED
  BY <1>5, <1>8, <1>9 DEF BlockInv

-----------------------------------------------------------------------------
(* pthread_create.                                                         *)
LEMMA CreateEnterBlock ==
  ASSUME TypeInv, CurrentInv, BlockInv, CreateEnter
  PROVE  BlockInv'
<1>. USE DEF TypeInv, TypeOK
<1>1. PICK w \in Workers, u \in Uninit :
        pthread_create_Enter(w, u) /\ join' = Fresh(join, w, u) /\ stack' = Fresh(stack, w, u)
  BY DEF CreateEnter
<1>2. /\ Depth = 0 /\ state[w] = "ABSENT" /\ pc[cpu] = "user" /\ id' = id + 1
      /\ state' = [state EXCEPT ![w] = FreshState(u)]
      /\ tid' = [tid EXCEPT ![w] = FreshTid(u)]
      /\ obj' = [obj EXCEPT ![cpu] = w] /\ Goto("c_head")
      /\ join' = [join EXCEPT ![w] = u] /\ stack' = [stack EXCEPT ![w] = u]
      /\ UNCHANGED <<cpu, act, head, running, handle>>
  BY <1>1 DEF pthread_create_Enter, Calling, InBase, Fresh
<1>3. w \in Threads /\ cpu \in Threads /\ w # Main /\ w # cpu
  BY <1>2 DEF CpuTypeOK, Threads, CurrentInv, Unborn
<1>4. /\ u \in {NULL, Junk} /\ state'[w] \in {"READY", Junk} /\ tid'[w] \in {0, Junk}
      /\ join'[w] = u /\ stack'[w] = u /\ obj'[cpu] = w /\ pc'[cpu] = "c_head"
  BY <1>2, <1>3 DEF LibTypeOK, SyncTypeOK, CpuTypeOK, FreshState, FreshTid, Goto
<1>5. /\ \A t \in Threads \ {w} : state'[t] = state[t] /\ tid'[t] = tid[t]
                                   /\ join'[t] = join[t] /\ stack'[t] = stack[t]
      /\ \A t \in Threads \ {cpu} : pc'[t] = pc[t] /\ obj'[t] = obj[t]
  BY <1>2, <1>3 DEF LibTypeOK, SyncTypeOK, CpuTypeOK, Goto
<1>6. /\ Phase = "code" /\ Phase' = "code" /\ state[cpu] \notin {"BLOCKED", "TERMINATED"}
      /\ \A t \in Threads : pc[t] \in CreatePoints => obj[t] # cpu /\ obj[t] \in Threads
      /\ head # NULL => state[cpu] = "RUNNING"
  BY <1>2, Awake DEF Phase, Depth, ExitPoints
<1>7. pc[w] = "user" /\ tid[w] = 0 /\ join[w] = NULL /\ id \in Nat
      /\ \A t \in Threads : pc[t] \in CreatePoints => obj[t] # w
  BY <1>2, <1>3 DEF BlockInv, PcStates, Handles, LibTypeOK, CurrentInv, Newborns
<1>8. ChosenState' /\ CpuState'
  BY <1>2, <1>3, <1>4, <1>5, <1>6 DEF BlockInv, ChosenState, CpuState, ExitPoints, Threads
<1>9. PcStates'
  <2>1. Junk \notin ThreadStates
    OBVIOUS
  <2>2. SUFFICES ASSUME NEW t \in Threads
                 PROVE  /\ state'[t] = "TERMINATED" <=> pc'[t] \in ExitPoints
                        /\ state'[t] = "BLOCKED" =>
                             pc'[t] \in {"j_call", "j_read", "w_call", "w_check"}
                        /\ state'[t] = "ABSENT" /\ t # Main => pc'[t] = "user"
                        /\ pc'[t] \in CreatePoints => pc'[obj'[t]] = "user"
    BY DEF PcStates
  <2>3. CASE t = w
    BY <1>3, <1>4, <1>5, <1>7, <2>1, <2>3 DEF ExitPoints, CreatePoints, ThreadStates
  <2>4. CASE t = cpu
    <3>1. pc'[w] = "user"
      BY <1>3, <1>5, <1>7
    <3>2. state[cpu] = "ABSENT" => cpu = Main
      BY <1>2, <1>3, Awake DEF ExitPoints
    <3>. QED
      BY <1>3, <1>4, <1>5, <1>6, <2>4, <3>1, <3>2 DEF ExitPoints
  <2>5. CASE t # w /\ t # cpu
    <3>1. state'[t] = state[t] /\ pc'[t] = pc[t] /\ obj'[t] = obj[t]
      BY <1>5, <2>5
    <3>2. pc[t] \in CreatePoints => pc'[obj[t]] = pc[obj[t]]
      BY <1>5, <1>6
    <3>. QED
      BY <3>1, <3>2 DEF BlockInv, PcStates
  <2>. QED
    BY <2>3, <2>4, <2>5
<1>10. Joined' /\ Joiners'
  <2>1. \A t \in Threads : Gone(t)' <=> Gone(t)
    BY <1>2, <1>4, <1>5 DEF Gone
  <2>2. \A t \in Threads : Joining(t)' <=> Joining(t)
    BY <1>2, <1>3, <1>4, <1>5, <1>6 DEF Joining, JoinPoints, ThreadStates
  <2>3. \A t \in Threads : Joining(t) => obj'[t] = obj[t]
    BY <1>5, <1>6 DEF Joining
  <2>4. \A t \in Threads : \/ join'[t] = join[t]
                           \/ join[t] \in {NULL, Junk} /\ join'[t] \in {NULL, Junk}
    BY <1>4, <1>5, <1>7
  <2>. QED
    BY <2>1, <2>2, <2>3, <2>4, JoinsKept
<1>11. Handles'
  <2>1. \A t \in Threads : state'[t] = "ABSENT" => tid'[t] = 0 /\ join'[t] = NULL
    BY <1>4, <1>5 DEF BlockInv, Handles, ThreadStates
  <2>2. tid'[Main] = 0 /\ \A x \in Workers : handle'[x] # 0
    BY <1>2, <1>3, <1>5 DEF BlockInv, Handles, Threads
  <2>3. \A t \in Threads : pc'[t] \in CreatePoints => id' > 0
    BY <1>2, <1>7
  <2>4. \A t \in Threads : pc'[t] \in Unfilled =>
          tid'[obj'[t]] \in {0, Junk} /\ join'[obj'[t]] \in {NULL, Junk}
    <3>1. SUFFICES ASSUME NEW t \in Threads, pc'[t] \in Unfilled
                   PROVE  tid'[obj'[t]] \in {0, Junk} /\ join'[obj'[t]] \in {NULL, Junk}
      OBVIOUS
    <3>2. CASE t = cpu
      BY <1>4, <3>2
    <3>3. CASE t # cpu
      <4>1. pc[t] \in Unfilled /\ pc[t] \in CreatePoints /\ obj'[t] = obj[t]
        BY <1>5, <3>1, <3>3 DEF Unfilled, CreatePoints
      <4>2. obj[t] # w /\ obj[t] \in Threads
        BY <1>6, <1>7, <4>1
      <4>. QED
        BY <1>5, <4>1, <4>2 DEF BlockInv, Handles
    <3>. QED
      BY <3>2, <3>3
  <2>. QED
    BY <2>1, <2>2, <2>3, <2>4 DEF Handles
<1>12. Freed'
  BY <1>4, <1>5 DEF BlockInv, Freed
<1>. QED
  BY <1>8, <1>9, <1>10, <1>11, <1>12 DEF BlockInv

LEMMA CreateFirstBlock ==
  ASSUME TypeInv, CurrentInv, BlockInv, CreateFirst
  PROVE  BlockInv'
<1>. USE DEF TypeInv, TypeOK
<1>1. PICK u \in Uninit : join' = [join EXCEPT ![Main] = NULL] /\ stack' = Fresh(stack, Main, u)
  BY DEF CreateFirst
<1>2. /\ Depth = 0 /\ head = NULL /\ pc[cpu] = "c_head" /\ head' = Main
      /\ state' = [state EXCEPT ![Main] = "RUNNING"]
      /\ tid' = [tid EXCEPT ![Main] = 0] /\ Goto("c_fill")
      /\ stack' = [stack EXCEPT ![Main] = u]
      /\ UNCHANGED <<cpu, act, obj, handle, id>>
  BY <1>1 DEF CreateFirst, pthread_create_First, InBase, Fresh
<1>3. /\ cpu = Main /\ Main \in Threads /\ state[Main] = "ABSENT"
      /\ Phase = "code" /\ Phase' = "code"
      /\ \A t \in Threads : pc[t] \in CreatePoints => obj[t] # Main /\ obj[t] \in Threads
  BY <1>2, Awake DEF Phase, Depth, Threads
<1>4. /\ state'[Main] = "RUNNING" /\ tid'[Main] = 0 /\ join'[Main] = NULL
      /\ stack'[Main] \in {NULL, Junk} /\ pc'[Main] = "c_fill" /\ pc[Main] = "c_head"
  BY <1>1, <1>2, <1>3 DEF LibTypeOK, SyncTypeOK, CpuTypeOK, Goto
<1>5. \A t \in Threads \ {Main} :
        /\ state'[t] = state[t] /\ tid'[t] = tid[t] /\ pc'[t] = pc[t]
        /\ join'[t] = join[t] /\ stack'[t] = stack[t]
  BY <1>1, <1>2, <1>3 DEF LibTypeOK, SyncTypeOK, CpuTypeOK, Goto
<1>6. tid[Main] = 0 /\ join[Main] = NULL
  BY <1>3 DEF BlockInv, Handles
<1>7. ChosenState' /\ CpuState'
  BY <1>2, <1>3, <1>4 DEF ChosenState, CpuState, ExitPoints
<1>8. PcStates'
  BY <1>2, <1>3, <1>4, <1>5 DEF BlockInv, PcStates, ExitPoints, CreatePoints
<1>9. Joined' /\ Joiners'
  <2>1. \A t \in Threads : Gone(t)' <=> Gone(t)
    BY <1>4, <1>5 DEF Gone
  <2>2. \A t \in Threads : Joining(t)' <=> Joining(t)
    BY <1>2, <1>3, <1>4, <1>5 DEF Joining, JoinPoints
  <2>3. \A t \in Threads : \/ join'[t] = join[t]
                           \/ join[t] \in {NULL, Junk} /\ join'[t] \in {NULL, Junk}
    BY <1>4, <1>5, <1>6
  <2>. QED
    BY <1>2, <2>1, <2>2, <2>3, JoinsKept
<1>10. Handles'
  <2>1. \A w \in Workers : handle'[w] # 0
    BY <1>2 DEF BlockInv, Handles
  <2>2. tid'[Main] = 0
    BY <1>4
  <2>3. \A t \in Threads : state'[t] = "ABSENT" => tid'[t] = 0 /\ join'[t] = NULL
    BY <1>4, <1>5 DEF BlockInv, Handles
  <2>4. \A t \in Threads : pc'[t] \in CreatePoints => id' > 0
    <3>1. id > 0
      BY <1>3, <1>4 DEF BlockInv, Handles, CreatePoints
    <3>. QED
      BY <1>2, <3>1
  <2>5. \A t \in Threads : pc'[t] \in Unfilled =>
          tid'[obj'[t]] \in {0, Junk} /\ join'[obj'[t]] \in {NULL, Junk}
    <3>. SUFFICES ASSUME NEW t \in Threads, pc'[t] \in Unfilled
                  PROVE  tid'[obj[t]] \in {0, Junk} /\ join'[obj[t]] \in {NULL, Junk}
      BY <1>2
    <3>1. pc[t] \in Unfilled /\ pc[t] \in CreatePoints
      BY <1>4, <1>5 DEF Unfilled, CreatePoints
    <3>2. obj[t] \in Threads /\ obj[t] # Main
      BY <1>3, <3>1
    <3>3. tid[obj[t]] \in {0, Junk} /\ join[obj[t]] \in {NULL, Junk}
      BY <3>1 DEF BlockInv, Handles
    <3>. QED
      BY <1>5, <3>2, <3>3
  <2>. QED
    BY <2>1, <2>2, <2>3, <2>4, <2>5 DEF Handles
<1>11. Freed'
  BY <1>4, <1>5 DEF BlockInv, Freed
<1>. QED
  BY <1>7, <1>8, <1>9, <1>10, <1>11 DEF BlockInv


(* The stores of pthread_create after the tcb is linked.                   *)
LEMMA CreatePcs ==
  ASSUME TypeInv, CurrentInv, BlockInv, Depth = 0, UNCHANGED obj, pc[cpu] \in CreatePoints,
         NEW p \in CreatePoints \cup {"user"}, Goto(p),
         \A t \in Threads : \/ state'[t] = state[t]
                            \/ state[t] \notin {"BLOCKED", "TERMINATED"} /\ state'[t] = "READY"
  PROVE  PcStates'
<1>1. /\ cpu \in Threads /\ pc[cpu] \notin {"j_call", "w_call"} \cup ExitPoints
      /\ p \notin ExitPoints
  BY DEF TypeInv, TypeOK, CpuTypeOK, CreatePoints, ExitPoints
<1>2. /\ state[cpu] \notin {"BLOCKED", "TERMINATED"}
      /\ state[cpu] = "ABSENT" => cpu = Main
      /\ \A t \in Threads : pc[t] \in CreatePoints => obj[t] # cpu /\ obj[t] \in Threads
  BY <1>1, Awake
<1>3. pc'[cpu] = p /\ \A t \in Threads \ {cpu} : pc'[t] = pc[t]
  BY <1>1 DEF Goto, TypeInv, TypeOK, CpuTypeOK
<1>4. SUFFICES ASSUME NEW t \in Threads
               PROVE  /\ state'[t] = "TERMINATED" <=> pc'[t] \in ExitPoints
                      /\ state'[t] = "BLOCKED" =>
                           pc'[t] \in {"j_call", "j_read", "w_call", "w_check"}
                      /\ state'[t] = "ABSENT" /\ t # Main => pc'[t] = "user"
                      /\ pc'[t] \in CreatePoints => pc'[obj'[t]] = "user"
  BY DEF PcStates
<1>5. CASE t = cpu
  BY <1>1, <1>2, <1>3, <1>5 DEF BlockInv, PcStates
<1>6. CASE t # cpu
  <2>1. pc'[t] = pc[t] /\ (pc[t] \in CreatePoints => pc'[obj[t]] = pc[obj[t]])
    BY <1>2, <1>3, <1>6
  <2>. QED
    BY <2>1 DEF BlockInv, PcStates
<1>. QED
  BY <1>5, <1>6

LEMMA CreateFillBlock ==
  ASSUME TypeInv, CurrentInv, BlockInv, CreateFill
  PROVE  BlockInv'
<1>. USE DEF TypeInv, TypeOK
<1>1. /\ Depth = 0 /\ pc[cpu] = "c_fill" /\ Goto("c_ready")
      /\ tid' = [tid EXCEPT ![obj[cpu]] = id] /\ join' = [join EXCEPT ![obj[cpu]] = NULL]
      /\ UNCHANGED <<cpu, act, obj, tail, handle, head, id, state, stack>>
  BY DEF CreateFill, pthread_create_Fill, InBase
<1>2. /\ Phase = "code" /\ Phase' = "code" /\ cpu \in Threads /\ obj[cpu] \in Workers
      /\ obj[cpu] \in Threads /\ Main \notin Workers /\ Main \in Threads
  BY <1>1, Awake DEF Phase, Depth, CreatePoints, Threads
<1>3. /\ pc'[cpu] = "c_ready" /\ \A t \in Threads \ {cpu} : pc'[t] = pc[t]
      /\ \A t \in Threads \ {obj[cpu]} : tid'[t] = tid[t] /\ join'[t] = join[t]
      /\ join'[obj[cpu]] = NULL /\ join[obj[cpu]] \in {NULL, Junk}
      /\ state[obj[cpu]] # "ABSENT"
  BY <1>1, <1>2 DEF LibTypeOK, SyncTypeOK, CpuTypeOK, Goto, BlockInv, Handles, Unfilled,
     CurrentInv, Newborns, CreatePoints
<1>4. ChosenState' /\ CpuState' /\ Freed'
  BY <1>1, <1>2, <1>3 DEF BlockInv, ChosenState, CpuState, Freed, ExitPoints
<1>5. PcStates'
  BY <1>1, CreatePcs DEF CreatePoints
<1>6. Joined' /\ Joiners'
  <2>1. \A t \in Threads : (Gone(t)' <=> Gone(t)) /\ (Joining(t)' <=> Joining(t))
    BY <1>1, <1>2, <1>3 DEF Gone, Joining, JoinPoints
  <2>2. \A t \in Threads : \/ join'[t] = join[t]
                           \/ join[t] \in {NULL, Junk} /\ join'[t] \in {NULL, Junk}
    BY <1>2, <1>3
  <2>. QED
    BY <1>1, <2>1, <2>2, JoinsKept
<1>7. Handles'
  <2>1. \A t \in Threads \ {cpu} : pc[t] \in CreatePoints => obj[t] # obj[cpu] /\ obj[t] \in Threads
    BY <1>1, <1>2, Awake DEF CreatePoints
  <2>2. \A t \in Threads : state'[t] = "ABSENT" => tid'[t] = 0 /\ join'[t] = NULL
    BY <1>1, <1>3 DEF BlockInv, Handles
  <2>3. tid'[Main] = 0 /\ \A w \in Workers : handle'[w] # 0
    BY <1>1, <1>2, <1>3 DEF BlockInv, Handles
  <2>4. \A t \in Threads : pc'[t] \in CreatePoints => id' > 0
    BY <1>1, <1>2, <1>3 DEF BlockInv, Handles, CreatePoints
  <2>5. \A t \in Threads : pc'[t] \in Unfilled =>
          tid'[obj'[t]] \in {0, Junk} /\ join'[obj'[t]] \in {NULL, Junk}
    BY <1>1, <1>3, <2>1 DEF BlockInv, Handles, Unfilled, CreatePoints
  <2>. QED
    BY <2>2, <2>3, <2>4, <2>5 DEF Handles
<1>. QED
  BY <1>4, <1>5, <1>6, <1>7 DEF BlockInv

LEMMA CreateReadyBlock ==
  ASSUME TypeInv, CurrentInv, BlockInv, pthread_create_Ready, UNCHANGED syncVars
  PROVE  BlockInv'
<1>. USE DEF TypeInv, TypeOK
<1>1. /\ Depth = 0 /\ pc[cpu] = "c_ready" /\ Goto("c_context")
      /\ state' = [state EXCEPT ![obj[cpu]] = "READY"]
      /\ handle' = [handle EXCEPT ![obj[cpu]] = id]
      /\ UNCHANGED <<cpu, act, obj, head, id, tid, join, stack>>
  BY DEF pthread_create_Ready, InBase
<1>2. /\ Phase = "code" /\ Phase' = "code" /\ cpu \in Threads /\ obj[cpu] \in Workers
      /\ obj[cpu] \in Threads /\ obj[cpu] # cpu /\ obj[cpu] # Main /\ Main \in Threads
  BY <1>1, Awake DEF Phase, Depth, CreatePoints, Threads
<1>3. /\ pc'[cpu] = "c_context" /\ \A t \in Threads \ {cpu} : pc'[t] = pc[t]
      /\ \A t \in Threads \ {obj[cpu]} : state'[t] = state[t]
      /\ state'[obj[cpu]] = "READY" /\ id > 0 /\ pc[obj[cpu]] = "user"
      /\ handle'[obj[cpu]] = id /\ \A w \in Workers \ {obj[cpu]} : handle'[w] = handle[w]
  BY <1>1, <1>2 DEF LibTypeOK, CpuTypeOK, Goto, BlockInv, Handles, PcStates, CreatePoints
<1>4. state[obj[cpu]] \notin {"BLOCKED", "TERMINATED"}
  BY <1>2, <1>3 DEF BlockInv, PcStates, ExitPoints
<1>5. ChosenState' /\ CpuState' /\ Freed'
  BY <1>1, <1>2, <1>3, <1>4 DEF BlockInv, ChosenState, CpuState, Freed, ExitPoints
<1>6. PcStates'
  BY <1>1, <1>3, <1>4, CreatePcs DEF CreatePoints
<1>7. Joined' /\ Joiners'
  <2>1. \A t \in Threads : (Gone(t)' <=> Gone(t)) /\ (Joining(t)' <=> Joining(t))
    BY <1>1, <1>2, <1>3, <1>4 DEF Gone, Joining, JoinPoints
  <2>. QED
    BY <1>1, <2>1, JoinsKept
<1>8. Handles'
  <2>1. \A w \in Workers : handle'[w] # 0
    BY <1>3 DEF BlockInv, Handles, LibTypeOK
  <2>2. \A t \in Threads : state'[t] = "ABSENT" => tid[t] = 0 /\ join[t] = NULL
    BY <1>3 DEF BlockInv, Handles
  <2>3. \A t \in Threads : pc'[t] \in CreatePoints => id > 0
    BY <1>1, <1>3
  <2>4. \A t \in Threads : pc'[t] \in Unfilled => pc[t] \in Unfilled
    BY <1>3 DEF Unfilled
  <2>. QED
    BY <1>1, <2>1, <2>2, <2>3, <2>4 DEF BlockInv, Handles
<1>. QED
  BY <1>5, <1>6, <1>7, <1>8 DEF BlockInv

LEMMA CreateBlock ==
  ASSUME TypeInv, CurrentInv, BlockInv, pthread_create
  PROVE  BlockInv'
<1>. DEFINE Link == pthread_create_Tail \/ pthread_create_Append \/ pthread_create_Next \/ pthread_create_Prev
<1>. DEFINE NoMemory == \E w \in Workers : pthread_create_NoMemory(w)
<1>1. CASE CreateEnter \/ CreateFirst \/ CreateFill
  BY <1>1, CreateEnterBlock, CreateFirstBlock, CreateFillBlock
<1>2. CASE pthread_create_Ready /\ UNCHANGED syncVars
  BY <1>2, CreateReadyBlock
<1>3. CASE CreateContext
  <2>1. cpu \in Threads
    BY DEF TypeInv, TypeOK, CpuTypeOK
  <2>2. /\ Depth = 0 /\ pc[cpu] = "c_context" /\ Goto("user")
        /\ stack' = [stack EXCEPT ![obj[cpu]] = "live"]
        /\ UNCHANGED <<cpu, act, obj, tail, handle, head, id, state, tid, join>>
    BY <1>3 DEF CreateContext, pthread_create_Context, InBase
  <2>3. pc'[cpu] = "user" /\ \A t \in Threads \ {cpu} : pc'[t] = pc[t]
    BY <2>1, <2>2 DEF Goto, TypeInv, TypeOK, CpuTypeOK
  <2>4. /\ Phase = "code" /\ Phase' = "code" /\ state[cpu] \notin {"BLOCKED", "TERMINATED"}
        /\ head # NULL => state[cpu] = "RUNNING"
        /\ \A t \in Threads : pc[t] \in CreatePoints => obj[t] # cpu /\ obj[t] \in Threads
    BY <2>2, Awake DEF Phase, Depth, ExitPoints
  <2>5. ChosenState' /\ CpuState'
    BY <2>2, <2>3, <2>4 DEF BlockInv, ChosenState, CpuState
  <2>6. PcStates'
    BY <2>2, CreatePcs DEF CreatePoints
  <2>7. Joined' /\ Joiners'
    <3>1. \A t \in Threads : (Gone(t)' <=> Gone(t)) /\ (Joining(t)' <=> Joining(t))
      BY <2>1, <2>2, <2>3 DEF Gone, Joining, JoinPoints
    <3>. QED
      BY <2>2, <3>1, JoinsKept
  <2>8. Handles'
    BY <2>1, <2>2, <2>3 DEF BlockInv, Handles, Unfilled, CreatePoints
  <2>9. Freed'
    <3>1. \A t \in Threads : stack'[t] = "freed" => stack[t] = "freed"
      BY <2>2 DEF TypeInv, TypeOK, SyncTypeOK
    <3>. QED
      BY <2>2, <3>1 DEF BlockInv, Freed
  <2>. QED
    BY <2>5, <2>6, <2>7, <2>8, <2>9 DEF BlockInv
<1>4. CASE (Link \/ NoMemory) /\ UNCHANGED syncVars
  <2>0. cpu \in Threads
    BY DEF TypeInv, TypeOK, CpuTypeOK
  <2>1. /\ Depth = 0 /\ id' \in {id, id + 1}
        /\ UNCHANGED <<cpu, act, obj, handle, head, state, tid, join, stack>>
        /\ \/ pc[cpu] = "user" /\ UNCHANGED pc
           \/ pc[cpu] \in Unfilled /\ \E p \in Unfilled : Goto(p)
    <3>1. CASE NoMemory
      BY <1>4, <3>1 DEF InBase, Calling, pthread_create_NoMemory
    <3>2. CASE Link
      BY <1>4, <3>2 DEF InBase, Unfilled, pthread_create_Tail, pthread_create_Append, pthread_create_Next,
         pthread_create_Prev
    <3>. QED
      BY <1>4, <3>1, <3>2
  <2>2. \A t \in Threads \ {cpu} : pc'[t] = pc[t]
    BY <2>0, <2>1 DEF Goto, TypeInv, TypeOK, CpuTypeOK
  <2>3. \/ pc[cpu] = "user" /\ pc'[cpu] = "user"
        \/ pc[cpu] \in Unfilled /\ pc'[cpu] \in Unfilled
    BY <2>0, <2>1 DEF Goto, TypeInv, TypeOK, CpuTypeOK
  <2>. QED
    BY <2>0, <2>1, <2>2, <2>3, QuietBlock DEF Unfilled, CreatePoints, ExitPoints
<1>5. CASE pthread_create_Fault /\ UNCHANGED syncVars
  BY <1>5, StillBlock DEF pthread_create_Fault, Fault
<1>. QED
  BY <1>1, <1>2, <1>3, <1>4, <1>5 DEF pthread_create, CreateOther


-----------------------------------------------------------------------------
(* pthread_exit and pthread_join.                                          *)
LEMMA ExitEnterBlock ==
  ASSUME TypeInv, CurrentInv, BlockInv, NEW v \in Args, pthread_exit_Enter(v)
  PROVE  BlockInv'
<1>. USE DEF TypeInv, TypeOK
<1>1. /\ Depth = 0 /\ pc[cpu] = "user" /\ running # NULL /\ Goto("x_code")
      /\ state' = [state EXCEPT ![running] = "TERMINATED"]
      /\ obj' = [obj EXCEPT ![cpu] = v]
      /\ UNCHANGED <<cpu, act, tail, handle, head, id, tid, join, stack>>
  BY DEF pthread_exit_Enter, Calling, InBase
<1>2. /\ head # NULL /\ running = cpu /\ cpu \in Threads /\ state[cpu] = "RUNNING"
      /\ Phase = "code" /\ Phase' = "code"
      /\ \A t \in Threads : pc[t] \in CreatePoints => obj[t] # cpu /\ obj[t] \in Threads
  BY <1>1, Awake DEF Phase, Depth, HeadShape, ExitPoints
<1>3. /\ pc'[cpu] = "x_code" /\ state'[cpu] = "TERMINATED"
      /\ \A t \in Threads \ {cpu} : /\ pc'[t] = pc[t] /\ state'[t] = state[t]
                                    /\ obj'[t] = obj[t]
  BY <1>1, <1>2 DEF CpuTypeOK, LibTypeOK, Goto
<1>4. ChosenState' /\ CpuState' /\ Freed'
  BY <1>1, <1>2, <1>3 DEF BlockInv, ChosenState, CpuState, Freed, ExitPoints
<1>5. PcStates'
  BY <1>1, <1>2, <1>3 DEF BlockInv, PcStates, ExitPoints, CreatePoints
<1>6. Joined' /\ Joiners'
  <2>1. \A t \in Threads : (Gone(t)' <=> Gone(t)) /\ (Joining(t)' <=> Joining(t))
    BY <1>1, <1>2, <1>3 DEF Gone, Joining, JoinPoints
  <2>2. \A t \in Threads : Joining(t) => obj'[t] = obj[t]
    BY <1>2, <1>3 DEF Joining
  <2>. QED
    BY <1>1, <2>1, <2>2, JoinsKept
<1>7. Handles'
  BY <1>1, <1>2, <1>3 DEF BlockInv, Handles, Unfilled, CreatePoints
<1>. QED
  BY <1>4, <1>5, <1>6, <1>7 DEF BlockInv

LEMMA ExitWakeBlock ==
  ASSUME TypeInv, CurrentInv, BlockInv, pthread_exit_Wake
  PROVE  BlockInv'
<1>. USE DEF TypeInv, TypeOK
<1>1. /\ Depth = 0 /\ pc[cpu] = "x_wake" /\ Goto("x_free") /\ join[running] # Junk
      /\ state' = IF join[running] = NULL THEN state
                  ELSE [state EXCEPT ![join[running]] = "READY"]
      /\ UNCHANGED <<cpu, act, obj, tail, handle, head, id, tid, join, stack>>
  BY DEF pthread_exit_Wake, InBase
<1>2. /\ head # NULL /\ running = cpu /\ cpu \in Threads /\ state[cpu] = "TERMINATED"
      /\ Phase = "code" /\ Phase' = "code" /\ pc'[cpu] = "x_free"
      /\ \A t \in Threads : pc[t] \in CreatePoints => obj[t] # cpu /\ obj[t] \in Threads
      /\ \A t \in Threads \ {cpu} : pc'[t] = pc[t]
  BY <1>1, Awake DEF Phase, Depth, HeadShape, ExitPoints, BlockInv, PcStates, CpuTypeOK, Goto
<1>3. join[cpu] \in Threads \cup {NULL}
  BY <1>1, <1>2 DEF SyncTypeOK, Pointers
<1>4. join[cpu] \in Threads => Joining(join[cpu]) /\ obj[join[cpu]] = cpu
  BY <1>1, <1>2 DEF BlockInv, Joined, Gone
<1>5. /\ \A t \in Threads : t # join[cpu] => state'[t] = state[t]
      /\ join[cpu] \in Threads => state'[join[cpu]] = "READY" /\ join[cpu] # cpu
  BY <1>1, <1>2, <1>3, <1>4 DEF LibTypeOK, Joining
<1>6. ChosenState' /\ CpuState'
  BY <1>1, <1>2, <1>5 DEF BlockInv, ChosenState, CpuState, ExitPoints
<1>7. Freed'
  BY <1>1, <1>3, <1>4, <1>5 DEF BlockInv, Freed, Joining
<1>8. PcStates'
  <2>1. SUFFICES ASSUME NEW t \in Threads
                 PROVE  /\ state'[t] = "TERMINATED" <=> pc'[t] \in ExitPoints
                        /\ state'[t] = "BLOCKED" =>
                             pc'[t] \in {"j_call", "j_read", "w_call", "w_check"}
                        /\ state'[t] = "ABSENT" /\ t # Main => pc'[t] = "user"
                        /\ pc'[t] \in CreatePoints => pc'[obj'[t]] = "user"
    BY DEF PcStates
  <2>2. CASE t = cpu
    BY <1>2, <1>5, <2>2 DEF ExitPoints, CreatePoints
  <2>3. CASE t = join[cpu] /\ t # cpu
    BY <1>2, <1>4, <1>5, <2>3 DEF Joining, JoinPoints, ExitPoints, CreatePoints
  <2>4. CASE t # join[cpu] /\ t # cpu
    <3>1. pc'[t] = pc[t] /\ state'[t] = state[t] /\ obj'[t] = obj[t]
          /\ (pc[t] \in CreatePoints => pc'[obj[t]] = pc[obj[t]])
      BY <1>1, <1>2, <1>5, <2>4
    <3>. QED
      BY <3>1 DEF BlockInv, PcStates
  <2>. QED
    BY <2>2, <2>3, <2>4
<1>9. Joined'
  <2>1. SUFFICES ASSUME NEW u \in Threads, NEW j \in Threads, join[u] = j, ~Gone(u)'
                 PROVE  Joining(j)' /\ obj[j] = u
    BY <1>1 DEF Joined, Joining
  <2>2. u # cpu /\ ~Gone(u)
    BY <1>2, <2>1 DEF Gone
  <2>3. Joining(j) /\ obj[j] = u
    BY <2>1, <2>2 DEF BlockInv, Joined
  <2>4. j # cpu /\ j # join[cpu]
    BY <1>2, <1>4, <2>2, <2>3 DEF Joining
  <2>. QED
    BY <1>2, <1>5, <2>3, <2>4 DEF Joining
<1>10. Joiners'
  <2>1. SUFFICES ASSUME NEW t \in Threads, Joining(t)', NEW u, obj[t] = u
                 PROVE  join[u] = t /\ ~Gone(u)'
    BY <1>1 DEF Joiners, Gone
  <2>2. t # cpu /\ t # join[cpu]
    BY <1>2, <1>5, <2>1 DEF Joining, JoinPoints
  <2>3. Joining(t)
    BY <1>2, <1>5, <2>1, <2>2 DEF Joining
  <2>4. join[u] = t /\ ~Gone(u) /\ u \in Threads
    BY <2>1, <2>3 DEF BlockInv, Joiners, Joining, LocalsShape
  <2>. QED
    BY <1>2, <2>2, <2>4 DEF Gone
<1>11. Handles'
  BY <1>1, <1>2, <1>5 DEF BlockInv, Handles, Unfilled, CreatePoints
<1>. QED
  BY <1>6, <1>7, <1>8, <1>9, <1>10, <1>11 DEF BlockInv

LEMMA ExitBlock ==
  ASSUME TypeInv, CurrentInv, BlockInv, pthread_exit
  PROVE  BlockInv'
<1>. USE DEF TypeInv, TypeOK
<1>1. CASE pthread_exit_Code \/ pthread_exit_Free
  <2>1. /\ Depth = 0 /\ pc[cpu] \in {"x_code", "x_free"}
        /\ Goto(IF pc[cpu] = "x_code" THEN "x_wake" ELSE "x_spin")
        /\ stack' \in {stack, [stack EXCEPT ![running] = "freed"]}
        /\ UNCHANGED <<cpu, act, obj, tail, handle, head, id, state, tid, join>>
    BY <1>1 DEF pthread_exit_Code, pthread_exit_Free, InBase
  <2>2. /\ head # NULL /\ running = cpu /\ cpu \in Threads /\ state[cpu] = "TERMINATED"
        /\ Phase = "code" /\ Phase' = "code"
        /\ \A t \in Threads : pc[t] \in CreatePoints => obj[t] # cpu /\ obj[t] \in Threads
    BY <2>1, Awake DEF Phase, Depth, HeadShape, ExitPoints, BlockInv, PcStates
  <2>3. /\ \A t \in Threads \ {cpu} : pc'[t] = pc[t]
        /\ pc'[cpu] \in {"x_wake", "x_spin"} /\ (pc'[cpu] = "x_spin" <=> pc[cpu] = "x_free")
    BY <2>1, <2>2 DEF CpuTypeOK, Goto
  <2>4. ChosenState' /\ CpuState'
    BY <2>1, <2>2, <2>3 DEF BlockInv, ChosenState, CpuState, ExitPoints
  <2>5. PcStates'
    BY <2>1, <2>2, <2>3 DEF BlockInv, PcStates, ExitPoints, CreatePoints
  <2>6. Joined' /\ Joiners'
    <3>1. \A t \in Threads : (Gone(t)' <=> Gone(t)) /\ (Joining(t)' <=> Joining(t))
      BY <2>1, <2>2, <2>3 DEF Gone, Joining, JoinPoints
    <3>. QED
      BY <2>1, <3>1, JoinsKept
  <2>7. Handles'
    BY <2>1, <2>2, <2>3 DEF BlockInv, Handles, Unfilled, CreatePoints
  <2>8. Freed'
    BY <2>1, <2>2 DEF BlockInv, Freed, SyncTypeOK
  <2>. QED
    BY <2>4, <2>5, <2>6, <2>7, <2>8 DEF BlockInv
<1>. QED
  BY <1>1, ExitEnterBlock, ExitWakeBlock DEF pthread_exit


(* pthread_join finds a tcb that is allocated and filled in.               *)
LEMMA FoundTid ==
  ASSUME TypeInv, BlockInv, NEW w \in Workers, handle[w] # NULL, RingHits(handle[w]) # {}
  PROVE  LET p == FirstHit(handle[w])
         IN  /\ p \in Threads /\ tid[p] = handle[w] /\ state[p] # "ABSENT"
             /\ \A t \in Threads : pc[t] \in Unfilled => obj[t] # p
<1>. DEFINE p == FirstHit(handle[w])
<1>1. RingHits(handle[w]) \in SUBSET Nat
  BY StepsAreNat DEF RingHits
<1>2. Min(RingHits(handle[w])) \in RingHits(handle[w])
  BY <1>1, MinIsIn
<1>3. p \in Threads /\ tid[p] = handle[w]
  BY <1>2 DEF RingHits, FirstHit
<1>4. tid[p] \in Nat \ {0}
  BY <1>3 DEF TypeInv, TypeOK, LibTypeOK, BlockInv, Handles
<1>5. state[p] # "ABSENT"
  BY <1>3, <1>4 DEF BlockInv, Handles
<1>6. \A t \in Threads : pc[t] \in Unfilled => obj[t] # p
  BY <1>4 DEF BlockInv, Handles
<1>. QED
  BY <1>3, <1>5, <1>6

LEMMA JoinCallBlock ==
  ASSUME TypeInv, CurrentInv, BlockInv, NEW w \in Workers, pthread_join_Call(w)
  PROVE  BlockInv'
<1>. USE DEF TypeInv, TypeOK
<1>. DEFINE p == FirstHit(handle[w])
            Blocks == state[p] # "TERMINATED" /\ join[p] = NULL
<1>1. /\ Depth = 0 /\ pc[cpu] = "user" /\ handle[w] # NULL /\ RingHits(handle[w]) # {}
      /\ obj' = [obj EXCEPT ![cpu] = p] /\ Goto("j_call")
      /\ IF Blocks THEN /\ state' = [state EXCEPT ![running] = "BLOCKED"]
                        /\ join' = [join EXCEPT ![p] = running]
                   ELSE UNCHANGED <<state, join>>
      /\ UNCHANGED <<cpu, act, tail, handle, head, id, tid, stack>>
  BY DEF pthread_join_Call, JoinsHandle, Calling, InBase
<1>2. /\ p \in Threads /\ state[p] # "ABSENT"
      /\ \A t \in Threads : pc[t] \in Unfilled => obj[t] # p
  BY <1>1, FoundTid
<1>. HIDE DEF p
<1>3. /\ head # NULL /\ running = cpu /\ cpu \in Threads /\ state[cpu] = "RUNNING"
      /\ Phase = "code" /\ Phase' = "code"
      /\ \A t \in Threads : pc[t] \in CreatePoints => obj[t] # cpu /\ obj[t] \in Threads
  BY <1>1, Awake DEF Phase, Depth, HeadShape, ExitPoints
<1>4. /\ pc'[cpu] = "j_call" /\ obj'[cpu] = p
      /\ \A t \in Threads \ {cpu} : /\ pc'[t] = pc[t] /\ state'[t] = state[t]
                                    /\ obj'[t] = obj[t]
  BY <1>1, <1>3 DEF CpuTypeOK, LibTypeOK, Goto
<1>5. /\ Blocks => state'[cpu] = "BLOCKED" /\ join'[p] = cpu /\ join[p] = NULL
                   /\ \A t \in Threads \ {p} : join'[t] = join[t]
      /\ ~Blocks => state'[cpu] = "RUNNING" /\ UNCHANGED join
      /\ Blocks => ~Gone(p)
  BY <1>1, <1>2, <1>3 DEF LibTypeOK, SyncTypeOK, BlockInv, PcStates, Gone, ExitPoints
<1>. HIDE DEF Blocks
<1>6. /\ \A t \in Threads : Gone(t)' <=> Gone(t)
      /\ \A t \in Threads \ {cpu} : Joining(t)' <=> Joining(t)
      /\ \A t \in Threads : t = cpu => ~Joining(t) /\ (Joining(t)' <=> Blocks)
  BY <1>1, <1>3, <1>4, <1>5 DEF Gone, Joining, JoinPoints
<1>7. ChosenState' /\ CpuState' /\ Freed'
  <2>1. ChosenState' /\ CpuState'
    BY <1>1, <1>3, <1>4, <1>5 DEF ChosenState, CpuState
  <2>2. Freed'
    BY <1>1, <1>3, <1>4 DEF BlockInv, Freed
  <2>. QED
    BY <2>1, <2>2
<1>8. PcStates'
  <2>1. SUFFICES ASSUME NEW t \in Threads
                 PROVE  /\ state'[t] = "TERMINATED" <=> pc'[t] \in ExitPoints
                        /\ state'[t] = "BLOCKED" =>
                             pc'[t] \in {"j_call", "j_read", "w_call", "w_check"}
                        /\ state'[t] = "ABSENT" /\ t # Main => pc'[t] = "user"
                        /\ pc'[t] \in CreatePoints => pc'[obj'[t]] = "user"
    BY DEF PcStates
  <2>2. CASE t = cpu
    BY <1>4, <1>5, <2>2 DEF ExitPoints, CreatePoints
  <2>3. CASE t # cpu
    <3>1. pc'[t] = pc[t] /\ state'[t] = state[t] /\ obj'[t] = obj[t]
          /\ (pc[t] \in CreatePoints => pc'[obj[t]] = pc[obj[t]])
      BY <1>3, <1>4, <2>3
    <3>. QED
      BY <3>1 DEF BlockInv, PcStates
  <2>. QED
    BY <2>2, <2>3
<1>9. Joined'
  <2>1. SUFFICES ASSUME NEW u \in Threads, NEW j \in Threads, join'[u] = j, ~Gone(u)'
                 PROVE  Joining(j)' /\ obj'[j] = u
    BY DEF Joined, Joining
  <2>2. CASE Blocks /\ u = p
    BY <1>4, <1>5, <1>6, <2>1, <2>2
  <2>3. CASE ~(Blocks /\ u = p)
    <3>1. join[u] = j /\ ~Gone(u)
      BY <1>5, <1>6, <2>1, <2>3
    <3>2. Joining(j) /\ obj[j] = u
      BY <3>1 DEF BlockInv, Joined
    <3>. QED
      BY <1>4, <1>6, <3>2
  <2>. QED
    BY <2>2, <2>3
<1>10. Joiners'
  <2>1. SUFFICES ASSUME NEW t \in Threads, Joining(t)', NEW u, obj'[t] = u
                 PROVE  join'[u] = t /\ ~Gone(u)'
    BY DEF Joiners, Gone
  <2>2. CASE t = cpu
    BY <1>2, <1>4, <1>5, <1>6, <2>1, <2>2
  <2>3. CASE t # cpu
    <3>1. Joining(t) /\ obj[t] = u
      BY <1>4, <1>6, <2>1, <2>3
    <3>2. join[u] = t /\ ~Gone(u) /\ u \in Threads
      BY <3>1 DEF BlockInv, Joiners, Joining, LocalsShape
    <3>3. t # NULL
      OBVIOUS
    <3>. QED
      BY <1>5, <1>6, <3>2, <3>3
  <2>. QED
    BY <2>2, <2>3
<1>11. Handles'
  <2>1. \A t \in Threads : state'[t] = "ABSENT" => tid'[t] = 0 /\ join'[t] = NULL
    BY <1>1, <1>2, <1>3, <1>4, <1>5 DEF BlockInv, Handles
  <2>2. tid'[Main] = 0 /\ (\A x \in Workers : handle'[x] # 0)
        /\ \A t \in Threads : pc'[t] \in CreatePoints => id' > 0
    BY <1>1, <1>3, <1>4 DEF BlockInv, Handles, CreatePoints
  <2>3. \A t \in Threads : pc'[t] \in Unfilled =>
          tid'[obj'[t]] \in {0, Junk} /\ join'[obj'[t]] \in {NULL, Junk}
    <3>1. SUFFICES ASSUME NEW t \in Threads, pc'[t] \in Unfilled
                   PROVE  tid'[obj'[t]] \in {0, Junk} /\ join'[obj'[t]] \in {NULL, Junk}
      OBVIOUS
    <3>2. t # cpu /\ pc[t] \in Unfilled /\ obj'[t] = obj[t]
      BY <1>4, <3>1 DEF Unfilled
    <3>3. obj[t] \in Threads /\ obj[t] # p
      BY <1>2, <1>3, <3>2 DEF Unfilled, CreatePoints
    <3>. QED
      BY <1>1, <1>5, <3>2, <3>3 DEF BlockInv, Handles
  <2>. QED
    BY <2>1, <2>2, <2>3 DEF Handles
<1>. QED
  BY <1>7, <1>8, <1>9, <1>10, <1>11 DEF BlockInv

LEMMA JoinBlock ==
  ASSUME TypeInv, CurrentInv, BlockInv, pthread_join
  PROVE  BlockInv'
<1>1. CASE \E w \in Workers : pthread_join_Hang(w)
  BY <1>1, StillBlock DEF pthread_join_Hang
<1>2. CASE pthread_join_Schedule
  BY <1>2, PushBlock DEF pthread_join_Schedule, InBase
<1>3. CASE pthread_join_Read
  <2>1. cpu \in Threads
    BY DEF TypeInv, TypeOK, CpuTypeOK
  <2>2. /\ Depth = 0 /\ pc[cpu] = "j_read" /\ Goto("user")
        /\ UNCHANGED <<cpu, act, obj, tail, handle, head, id, state, tid, join, stack>>
    BY <1>3 DEF pthread_join_Read, InBase
  <2>3. pc'[cpu] = "user" /\ \A t \in Threads \ {cpu} : pc'[t] = pc[t]
    BY <2>1, <2>2 DEF Goto, TypeInv, TypeOK, CpuTypeOK
  <2>. QED
    BY <2>2, <2>3, QuietBlock DEF ExitPoints, CreatePoints, Unfilled
<1>. QED
  BY <1>1, <1>2, <1>3, JoinCallBlock DEF pthread_join


-----------------------------------------------------------------------------
(* Semaphores, schedule() and the timer.                                   *)
LEMMA WaitBlockBlock ==
  ASSUME TypeInv, CurrentInv, BlockInv, NEW s \in Sems, sem_wait_Block(s)
  PROVE  BlockInv'
<1>. USE DEF TypeInv, TypeOK
<1>1. /\ Depth = 0 /\ pc[cpu] = "user" /\ running # NULL /\ Goto("w_call")
      /\ state' = [state EXCEPT ![running] = "BLOCKED"]
      /\ obj' = [obj EXCEPT ![cpu] = s]
      /\ UNCHANGED <<cpu, act, tail, handle, head, id, tid, join, stack>>
  BY DEF sem_wait_Block, Calling, InBase
<1>2. /\ head # NULL /\ running = cpu /\ cpu \in Threads /\ state[cpu] = "RUNNING"
      /\ Phase = "code" /\ Phase' = "code"
      /\ \A t \in Threads : pc[t] \in CreatePoints => obj[t] # cpu /\ obj[t] \in Threads
  BY <1>1, Awake DEF Phase, Depth, HeadShape, ExitPoints
<1>3. /\ pc'[cpu] = "w_call" /\ state'[cpu] = "BLOCKED"
      /\ \A t \in Threads \ {cpu} : /\ pc'[t] = pc[t] /\ state'[t] = state[t]
                                    /\ obj'[t] = obj[t]
  BY <1>1, <1>2 DEF CpuTypeOK, LibTypeOK, Goto
<1>4. ChosenState' /\ CpuState' /\ Freed'
  BY <1>1, <1>2, <1>3 DEF BlockInv, ChosenState, CpuState, Freed
<1>5. PcStates'
  BY <1>1, <1>2, <1>3 DEF BlockInv, PcStates, ExitPoints, CreatePoints
<1>6. Joined' /\ Joiners'
  <2>1. \A t \in Threads : (Gone(t)' <=> Gone(t)) /\ (Joining(t)' <=> Joining(t))
    BY <1>1, <1>2, <1>3 DEF Gone, Joining, JoinPoints
  <2>2. \A t \in Threads : Joining(t) => obj'[t] = obj[t]
    BY <1>2, <1>3 DEF Joining
  <2>. QED
    BY <1>1, <2>1, <2>2, JoinsKept
<1>7. Handles'
  BY <1>1, <1>2, <1>3 DEF BlockInv, Handles, Unfilled, CreatePoints
<1>. QED
  BY <1>4, <1>5, <1>6, <1>7 DEF BlockInv

(* sem_post wakes a thread that waits, not one that joins.                 *)
LEMMA PostBlock ==
  ASSUME TypeInv, CurrentInv, BlockInv, NEW s \in Sems, sem_post(s),
         Wakeable(s) # {} => pc[ToWake(s)] \in WaitPoints
  PROVE  BlockInv'
<1>. USE DEF TypeInv, TypeOK
<1>. DEFINE t0 == ToWake(s)
<1>1. /\ Depth = 0 /\ pc[cpu] = "user"
      /\ UNCHANGED <<cpu, pc, act, obj, tail, handle, head, id, tid, join, stack>>
      /\ \/ UNCHANGED state
         \/ /\ Wakeable(s) # {} /\ state' = [state EXCEPT ![t0] = "READY"]
  BY DEF sem_post, Calling, InBase
<1>2. /\ cpu \in Threads /\ state[cpu] # "BLOCKED" /\ Phase = "code" /\ Phase' = "code"
      /\ \A t \in Threads : pc[t] \in CreatePoints => obj[t] \in Threads
  BY <1>1, Awake DEF Phase, Depth, ExitPoints
<1>3. CASE UNCHANGED state
  BY <1>1, <1>3, StillBlock
     DEF BlockInv, ChosenState, PcStates, CpuState, Joined, Joiners, Joining,
         Handles, Freed, Gone, Phase, Depth, Top
<1>4. CASE Wakeable(s) # {} /\ state' = [state EXCEPT ![t0] = "READY"]
  <2>1. t0 \in Threads /\ state[t0] = "BLOCKED" /\ pc[t0] \in WaitPoints
    BY <1>4, ToWakeType
  <2>. HIDE DEF t0
  <2>2. /\ \A t \in Threads \ {t0} : state'[t] = state[t]
        /\ state'[t0] = "READY" /\ t0 # cpu
    BY <1>2, <1>4, <2>1 DEF LibTypeOK
  <2>3. ChosenState' /\ CpuState' /\ Freed'
    <3>1. head = NULL => state'[Main] = "ABSENT"
      BY <2>1, <2>2 DEF BlockInv, CpuState, Threads
    <3>. QED
      BY <1>1, <1>2, <2>1, <2>2, <3>1 DEF BlockInv, ChosenState, CpuState, Freed
  <2>4. PcStates'
    BY <1>1, <1>2, <2>1, <2>2 DEF BlockInv, PcStates, ExitPoints, WaitPoints
  <2>5. Joined' /\ Joiners'
    <3>1. \A t \in Threads : (Gone(t)' <=> Gone(t)) /\ (Joining(t)' <=> Joining(t))
      BY <1>1, <2>1, <2>2 DEF Gone, Joining, JoinPoints, WaitPoints
    <3>. QED
      BY <1>1, <3>1, JoinsKept
  <2>6. Handles'
    BY <1>1, <2>1, <2>2 DEF BlockInv, Handles
  <2>. QED
    BY <2>3, <2>4, <2>5, <2>6 DEF BlockInv
<1>. QED
  BY <1>1, <1>3, <1>4

LEMMA SemBlock ==
  ASSUME TypeInv, CurrentInv, BlockInv, semaphores,
         \A s \in Sems : sem_post(s) /\ Wakeable(s) # {} => pc[ToWake(s)] \in WaitPoints
  PROVE  BlockInv'
<1>. DEFINE Plain == \/ sem_Error
                     \/ \E s \in Sems : \/ sem_init(s) \/ sem_destroy(s)
                                       \/ sem_wait_Take(s) \/ sem_wait_Negative(s)
<1>1. CASE \E s \in Sems : sem_wait_Block(s)
  BY <1>1, WaitBlockBlock
<1>2. CASE \E s \in Sems : sem_post(s)
  BY <1>2, PostBlock
<1>3. CASE sem_wait_Schedule
  BY <1>3, PushBlock DEF sem_wait_Schedule, InBase
<1>4. CASE Plain \/ sem_wait_Check \/ sem_wait_Load \/ sem_wait_Store
  <2>1. cpu \in Threads
    BY DEF TypeInv, TypeOK, CpuTypeOK
  <2>2. /\ Depth = 0 /\ pc[cpu] \in {"user", "w_check", "w_load", "w_store"}
        /\ UNCHANGED <<cpu, act, obj, tail, handle, head, id, state, tid, join, stack>>
        /\ UNCHANGED pc \/ \E p \in {"user", "w_load", "w_store"} : Goto(p)
    <3>1. CASE Plain
      BY <3>1 DEF sem_Error, sem_init, sem_destroy, sem_wait_Take,
         sem_wait_Negative, Calling, InBase
    <3>2. CASE sem_wait_Check \/ sem_wait_Load \/ sem_wait_Store
      BY <3>2 DEF sem_wait_Check, sem_wait_Load, sem_wait_Store, InBase
    <3>. QED
      BY <1>4, <3>1, <3>2
  <2>3. /\ pc'[cpu] \in {"user", "w_check", "w_load", "w_store"}
        /\ \A t \in Threads \ {cpu} : pc'[t] = pc[t]
    BY <2>1, <2>2 DEF Goto, TypeInv, TypeOK, CpuTypeOK
  <2>. QED
    BY <2>2, <2>3, QuietBlock DEF ExitPoints, CreatePoints, Unfilled
<1>. QED
  BY <1>1, <1>2, <1>3, <1>4 DEF semaphores, sem_wait

LEMMA ScheduleBlock ==
  ASSUME TypeInv, CurrentInv, BlockInv, schedule(Saved), UNCHANGED syncVars
  PROVE  BlockInv'
<1>. USE DEF TypeInv, TypeOK
<1>1. CASE schedule_Fault
  BY <1>1, StillBlock DEF schedule_Fault, Fault
<1>2. ASSUME NEW p, InSchedule(p)
      PROVE  /\ Depth > 0 /\ Phase = p /\ Top.at = p /\ head # NULL
             /\ running \in Threads /\ cpu \in Threads /\ Top \in Frames
             /\ p # "jump" => running = cpu
  BY <1>2, TopType DEF InSchedule, Phase, Depth, HeadShape, LibTypeOK, CpuTypeOK,
     CurrentInv, Current
<1>3. ASSUME UNCHANGED <<pc, obj, tail, handle, head, id, tid>>,
             \A t \in Threads : \/ state'[t] = state[t]
                                \/ {state[t], state'[t]} \subseteq {"READY", "RUNNING"}
      PROVE  PcStates' /\ Joined' /\ Joiners' /\ Handles' /\ Freed'
  <2>1. \A t \in Threads : /\ Gone(t)' <=> Gone(t)
                           /\ Joining(t)' <=> Joining(t)
                           /\ state'[t] = "TERMINATED" <=> state[t] = "TERMINATED"
                           /\ state'[t] = "BLOCKED" <=> state[t] = "BLOCKED"
                           /\ state'[t] = "ABSENT" <=> state[t] = "ABSENT"
    BY <1>3 DEF Gone, Joining
  <2>2. Joined' /\ Joiners'
    BY <1>3, <2>1, JoinsKept
  <2>3. PcStates' /\ Handles' /\ Freed'
    BY <1>3, <2>1 DEF BlockInv, PcStates, Handles, Freed
  <2>. QED
    BY <2>2, <2>3
<1>4. CASE schedule_Enter(Saved)
  <2>1. /\ Phase = "enter" /\ running = cpu /\ cpu \in Threads /\ Depth > 0 /\ head # NULL
        /\ UNCHANGED <<cpu, pc, obj, tail, handle, head, id, tid>>
        /\ IF state[running] \in Saved
             THEN state' = [state EXCEPT ![running] = IF @ = "RUNNING" THEN "READY" ELSE @]
                  /\ SetTop(Frame("save"))
             ELSE SetTop(Frame("look")) /\ UNCHANGED state
    BY <1>2, <1>4 DEF schedule_Enter
  <2>2. /\ \A t \in Threads : \/ state'[t] = state[t]
                              \/ {state[t], state'[t]} \subseteq {"READY", "RUNNING"}
        /\ state[cpu] \in Saved => state'[cpu] \in {"READY", "BLOCKED"}
    BY <2>1 DEF LibTypeOK, Saved
  <2>3. /\ state[cpu] \in Saved => Phase' = "save"
        /\ state[cpu] \notin Saved => Phase' = "look"
    BY <2>1, SetTopPhase DEF Frame, CurrentInv
  <2>4. ChosenState' /\ CpuState'
    BY <2>1, <2>2, <2>3 DEF ChosenState, CpuState
  <2>. QED
    BY <1>3, <2>1, <2>2, <2>4 DEF BlockInv
<1>5. CASE schedule_Save
  <2>1. /\ UNCHANGED <<cpu, pc, obj, tail, handle, head, id, state, tid>>
        /\ SetTop(Frame("look")) /\ Depth > 0 /\ head # NULL
    BY <1>2, <1>5 DEF schedule_Save
  <2>2. Phase' = "look"
    BY <2>1, SetTopPhase DEF Frame, CurrentInv
  <2>3. ChosenState' /\ CpuState'
    BY <2>1, <2>2 DEF ChosenState, CpuState
  <2>. QED
    BY <1>3, <2>1, <2>3 DEF BlockInv
<1>6. CASE schedule_Look
  <2>. DEFINE f == [at |-> "scan", ptr |-> next[running], end |-> next[running]]
  <2>1. /\ UNCHANGED <<cpu, pc, obj, tail, handle, head, id, state, tid>>
        /\ SetTop(f) /\ Depth > 0 /\ head # NULL
    BY <1>2, <1>6 DEF schedule_Look
  <2>2. Phase' = f.at
    <3>. HIDE DEF f
    <3>. QED
      BY <2>1, SetTopPhase DEF CurrentInv
  <2>3. ChosenState' /\ CpuState'
    BY <2>1, <2>2 DEF ChosenState, CpuState
  <2>. QED
    BY <1>3, <2>1, <2>3 DEF BlockInv
<1>7. CASE schedule_Scan
  <2>1. /\ UNCHANGED <<cpu, pc, obj, tail, handle, head, id, state, tid>>
        /\ Depth > 0 /\ head # NULL /\ Phase = "scan" /\ Top \in Frames
    BY <1>2, <1>7 DEF schedule_Scan
  <2>2. \/ state[Top.ptr] = "READY" /\ SetTop([Top EXCEPT !.at = "take"])
        \/ SetTop([Top EXCEPT !.ptr = next[Top.ptr]])
        \/ UNCHANGED act
    BY <1>7 DEF schedule_Scan
  <2>3. /\ [Top EXCEPT !.at = "take"].at = "take" /\ [Top EXCEPT !.at = "take"].ptr = Top.ptr
        /\ [Top EXCEPT !.ptr = next[Top.ptr]].at = "scan"
    BY <1>2, <1>7, <2>1 DEF schedule_Scan, Frames
  <2>4. \/ Phase' = "take" /\ Top'.ptr = Top.ptr /\ state[Top.ptr] = "READY"
        \/ Phase' = "scan"
    <3>1. CASE state[Top.ptr] = "READY" /\ SetTop([Top EXCEPT !.at = "take"])
      <4>. DEFINE f == [Top EXCEPT !.at = "take"]
      <4>1. SetTop(f)
        BY <3>1
      <4>. HIDE DEF f
      <4>2. Phase' = f.at /\ Top' = f
        BY <2>1, <4>1, SetTopPhase DEF CurrentInv
      <4>. QED
        BY <2>3, <3>1, <4>2 DEF f
    <3>2. CASE SetTop([Top EXCEPT !.ptr = next[Top.ptr]])
      <4>. DEFINE f == [Top EXCEPT !.ptr = next[Top.ptr]]
      <4>1. SetTop(f)
        BY <3>2
      <4>. HIDE DEF f
      <4>2. Phase' = f.at
        BY <2>1, <4>1, SetTopPhase DEF CurrentInv
      <4>. QED
        BY <2>3, <4>2 DEF f
    <3>3. CASE UNCHANGED act
      BY <2>1, <3>3 DEF Phase, Depth, Top
    <3>. QED
      BY <2>2, <3>1, <3>2, <3>3
  <2>5. ChosenState' /\ CpuState'
    BY <2>1, <2>4 DEF ChosenState, CpuState
  <2>. QED
    BY <1>3, <2>1, <2>5 DEF BlockInv
<1>8. CASE schedule_Take \/ schedule_Install
  <2>. DEFINE q == IF Phase = "take" THEN "install" ELSE "jump"
              f == [Top EXCEPT !.at = q]
  <2>1. /\ Phase \in {"take", "install"} /\ Top.at = Phase /\ Depth > 0 /\ head # NULL
        /\ state' = [state EXCEPT ![Top.ptr] = "RUNNING"] /\ Top \in Frames
        /\ UNCHANGED <<cpu, pc, obj, tail, handle, head, id, tid>> /\ SetTop(f)
    <3>1. CASE schedule_Take
      BY <1>2, <3>1 DEF schedule_Take
    <3>2. CASE schedule_Install
      BY <1>2, <3>2 DEF schedule_Install
    <3>. QED
      BY <1>8, <3>1, <3>2
  <2>2. Top.ptr \in Threads /\ f.at = q /\ f.ptr = Top.ptr /\ q \in {"install", "jump"}
    BY <2>1 DEF Frames
  <2>3. Phase' = f.at /\ Top' = f
    <3>. HIDE DEF f
    <3>. QED
      BY <2>1, SetTopPhase DEF CurrentInv
  <2>4. /\ \A t \in Threads \ {Top.ptr} : state'[t] = state[t]
        /\ state'[Top.ptr] = "RUNNING" /\ state[Top.ptr] \in {"READY", "RUNNING"}
    BY <2>1, <2>2 DEF LibTypeOK, BlockInv, ChosenState
  <2>5. ChosenState' /\ CpuState'
    BY <2>1, <2>2, <2>3, <2>4 DEF ChosenState, CpuState
  <2>. QED
    BY <1>3, <2>1, <2>4, <2>5 DEF BlockInv
<1>9. CASE schedule_Jump
  <2>1. /\ Phase = "jump" /\ running = Top.ptr /\ head # NULL /\ running \in Threads
        /\ UNCHANGED <<pc, obj, tail, handle, head, running, id, state, tid>>
    BY <1>2, <1>9 DEF schedule_Jump, CurrentInv, Current
  <2>2. Phase' = "code" /\ cpu' = running
    <3>1. CurrentInv'
      BY <1>9, ScheduleCurrent DEF schedule
    <3>2. Phase' = "code"
      <4>. DEFINE c == context[Top.ptr]
      <4>1. /\ c.owner \in Threads /\ cpu' = c.owner
            /\ act' = [act EXCEPT ![c.owner] = SubSeq(@, 1, c.depth - 1)]
        BY <1>9 DEF schedule_Jump, Resumable
      <4>2. c # NoContext /\ Top.ptr \in Threads
        BY <2>1, <4>1 DEF NoContext, Threads
      <4>3. c = [owner |-> Top.ptr, depth |-> 1]
        BY <4>2 DEF CurrentInv, OwnContexts
      <4>4. act'[cpu'] = SubSeq(act[Top.ptr], 1, 0)
        BY <4>1, <4>3 DEF CpuTypeOK
      <4>5. SubSeq(act[Top.ptr], 1, 0) = <<>>
        BY <4>2 DEF CpuTypeOK
      <4>. QED
        BY <4>4, <4>5 DEF Phase, Depth
    <3>. QED
      BY <2>1, <3>1, <3>2 DEF CurrentInv, Current
  <2>3. state[running] = "RUNNING"
    BY <2>1 DEF BlockInv, ChosenState
  <2>4. ChosenState' /\ CpuState'
    BY <2>1, <2>2, <2>3 DEF ChosenState, CpuState
  <2>. QED
    BY <1>3, <2>1, <2>4 DEF BlockInv
<1>. QED
  BY <1>1, <1>4, <1>5, <1>6, <1>7, <1>8, <1>9 DEF schedule


-----------------------------------------------------------------------------
(* The queues.                                                             *)

(* A walk along a linked list is determined by where it starts.            *)
IsWalk(p, first, link, n) ==
  p = [i \in 0..n |-> IF i = 0 THEN first
                      ELSE IF p[i - 1] \in Threads THEN link[p[i - 1]] ELSE p[i - 1]]

LEMMA WalkUnique ==
  ASSUME NEW n \in Nat, NEW first, NEW link, NEW p, IsWalk(p, first, link, n),
         NEW r, IsWalk(r, first, link, n)
  PROVE  p = r
<1>1. /\ p = [i \in 0..n |-> IF i = 0 THEN first
                      ELSE IF p[i - 1] \in Threads THEN link[p[i - 1]] ELSE p[i - 1]]
      /\ r = [i \in 0..n |-> IF i = 0 THEN first
                      ELSE IF r[i - 1] \in Threads THEN link[r[i - 1]] ELSE r[i - 1]]
  BY DEF IsWalk
<1>. DEFINE Bad == {i \in 0..n : p[i] # r[i]}
<1>2. SUFFICES ASSUME Bad # {} PROVE FALSE
  <2>1. \A i \in 0..n : p[i] = r[i]
    BY <1>2
  <2>2. p = [i \in 0..n |-> p[i]] /\ r = [i \in 0..n |-> r[i]]
    BY <1>1, Zenon
  <2>. QED
    BY <2>1, <2>2, Zenon
<1>. DEFINE m == Min(Bad)
<1>3. m \in Bad /\ \A k \in Bad : m <= k
  <2>. HIDE DEF Bad
  <2>1. Bad \in SUBSET Nat
    BY DEF Bad
  <2>. QED
    BY <1>2, <2>1, MinIsIn
<1>. HIDE DEF m
<1>4. m # 0
  BY <1>1, <1>3
<1>5. m - 1 \in 0..n /\ m - 1 \notin Bad /\ m \in 0..n
  BY <1>3, <1>4
<1>6. p[m - 1] = r[m - 1]
  BY <1>5
<1>7. p[m] = r[m]
  BY <1>1, <1>4, <1>5, <1>6
<1>. QED
  BY <1>3, <1>7

(* The threads waiting for s.  A queue ends in NULL, or in whatever        *)
(* next_in_queue held when pthread_create left it uninitialised.           *)
Waits(t, s) == state[t] = "BLOCKED" /\ pc[t] \in {"w_call", "w_check"} /\ obj[t] = s
NoThread == {NULL} \cup Uninit

(* q lists the threads waiting for s, linked from queue[s].                *)
IsQueue(s, q) ==
  /\ \A i \in 1..Len(q) : Waits(q[i], s)
  /\ \A t \in Threads : Waits(t, s) => \E i \in 1..Len(q) : q[i] = t
  /\ \A i, j \in 1..Len(q) : q[i] = q[j] => i = j
  /\ IF q = <<>> THEN queue[s] \in NoThread ELSE queue[s] = q[1]
  /\ \A i \in 1..Len(q) : IF i = Len(q) THEN next_in_queue[q[i]] \in NoThread
                          ELSE next_in_queue[q[i]] = q[i + 1]

Queues ==
  /\ \A s \in Sems : IF sem[s] = "live" THEN \E q \in Seq(Threads) : IsQueue(s, q)
                     ELSE \A t \in Threads : ~Waits(t, s)
  /\ \A t \in Threads : (\A s \in Sems : ~Waits(t, s)) => next_in_queue[t] \in NoThread

LEMMA NoThreadIsNone == NoThread \cap Threads = {} /\ NoThread \subseteq {NULL, Junk}
  BY DEF NoThread

(* What the operators that walk a queue make of it.                        *)
QueueEnd(s, q) == IF q = <<>> THEN queue[s] ELSE next_in_queue[q[Len(q)]]

LEMMA QueueLength ==
  ASSUME NEW q \in Seq(Threads), \A i, j \in 1..Len(q) : q[i] = q[j] => i = j
  PROVE  /\ Len(q) \in Nat /\ Cardinality(Threads) \in Nat
         /\ Len(q) <= Cardinality(Threads)
<1>1. IsFiniteSet(Threads) /\ Cardinality(Threads) \in Nat
  <2>1. IsFiniteSet(Threads)
    BY FS_AddElement DEF Threads
  <2>. QED
    BY <2>1, FS_CardinalityType
<1>2. Len(q) \in Nat /\ q \in [1..Len(q) -> Threads]
  OBVIOUS
<1>3. q \in Injection(1..Len(q), Threads)
  BY <1>2, Zenon DEF Injection, IsInjective
<1>4. Cardinality(1..Len(q)) <= Cardinality(Threads)
  BY <1>1, <1>3, FS_Injection
<1>5. Cardinality(1..Len(q)) = Len(q)
  <2>1. 1 \in Int /\ Len(q) \in Int
    BY <1>2
  <2>2. Cardinality(1..Len(q)) = IF 1 > Len(q) THEN 0 ELSE Len(q) - 1 + 1
    BY <2>1, FS_Interval
  <2>. QED
    BY <1>2, <2>2
<1>. QED
  BY <1>1, <1>2, <1>4, <1>5

LEMMA QueueNodes ==
  ASSUME NEW s \in Sems, NEW q \in Seq(Threads), IsQueue(s, q)
  PROVE  /\ QueueEnd(s, q) \in NoThread /\ Len(q) \in Steps
         /\ \A i \in Steps :
              QueueNode(s)[i] = IF i < Len(q) THEN q[i + 1] ELSE QueueEnd(s, q)
<1>. DEFINE N == Cardinality(Threads)
            e == QueueEnd(s, q)
            w == [i \in 0..N |-> IF i < Len(q) THEN q[i + 1] ELSE e]
<1>1. Len(q) \in Nat /\ N \in Nat /\ Len(q) <= N
  BY QueueLength DEF IsQueue
<1>2. \A i \in 1..Len(q) : q[i] \in Threads
  OBVIOUS
<1>3. q = <<>> <=> Len(q) = 0
  OBVIOUS
<1>4. e \in NoThread /\ e \notin Threads
  BY <1>1, <1>3, NoThreadIsNone DEF IsQueue, QueueEnd
<1>5. ASSUME NEW i \in 0..N
      PROVE  w[i] = IF i = 0 THEN queue[s]
                    ELSE IF w[i - 1] \in Threads THEN next_in_queue[w[i - 1]] ELSE w[i - 1]
  <2>1. CASE i = 0
    BY <1>1, <1>3, <2>1 DEF IsQueue, QueueEnd
  <2>2. CASE i # 0 /\ i < Len(q)
    <3>1. /\ i - 1 \in 0..N /\ i - 1 < Len(q) /\ i \in 1..Len(q) /\ i # Len(q)
          /\ (i - 1) + 1 = i
      BY <1>1, <2>2
    <3>2. w[i - 1] = q[i] /\ w[i] = q[i + 1] /\ q[i] \in Threads
      BY <1>2, <2>2, <3>1
    <3>3. next_in_queue[q[i]] = q[i + 1]
      BY <3>1 DEF IsQueue
    <3>. QED
      BY <2>2, <3>2, <3>3
  <2>3. CASE i # 0 /\ i = Len(q)
    <3>1. /\ i - 1 \in 0..N /\ i - 1 < Len(q) /\ i \in 1..Len(q) /\ (i - 1) + 1 = i
          /\ ~(i < Len(q))
      BY <1>1, <2>3
    <3>2. w[i - 1] = q[i] /\ w[i] = e /\ q[i] \in Threads
      BY <1>2, <2>3, <3>1
    <3>3. e = next_in_queue[q[i]]
      BY <1>3, <2>3 DEF QueueEnd
    <3>. QED
      BY <2>3, <3>2, <3>3
  <2>4. CASE i > Len(q)
    <3>1. i - 1 \in 0..N /\ ~(i - 1 < Len(q)) /\ ~(i < Len(q)) /\ i # 0
      BY <1>1, <2>4
    <3>2. w[i - 1] = e /\ w[i] = e
      BY <3>1
    <3>. QED
      BY <1>4, <3>1, <3>2
  <2>. QED
    BY <1>1, <2>1, <2>2, <2>3, <2>4
<1>6. IsWalk(w, queue[s], next_in_queue, N)
  <2>1. w = [i \in 0..N |-> w[i]]
    OBVIOUS
  <2>. HIDE DEF w, N
  <2>. QED
    BY <1>5, <2>1 DEF IsWalk
<1>7. IsWalk(QueueNode(s), queue[s], next_in_queue, N)
  <2>. HIDE DEF w
  <2>. QED
    BY <1>6 DEF QueueNode, IsWalk, Steps
<1>8. QueueNode(s) = w
  <2>. HIDE DEF w, N
  <2>. QED
    BY <1>1, <1>6, <1>7, WalkUnique
<1>. QED
  BY <1>1, <1>4, <1>8 DEF Steps


LEMMA QueueRangeIs ==
  ASSUME NEW s \in Sems, NEW q \in Seq(Threads), IsQueue(s, q)
  PROVE  /\ Queued(s) = {q[i] : i \in 1..Len(q)}
         /\ QueueEnd(s, q) \in QueueRange(s)
         /\ QueueRange(s) \subseteq Queued(s) \cup {QueueEnd(s, q)}
<1>. DEFINE e == QueueEnd(s, q)
            n == QueueNode(s)
<1>1. /\ e \notin Threads /\ Len(q) \in Steps /\ Len(q) \in Nat /\ Steps = 0..Cardinality(Threads)
      /\ Cardinality(Threads) \in Nat /\ Len(q) <= Cardinality(Threads)
      /\ \A i \in Steps : n[i] = IF i < Len(q) THEN q[i + 1] ELSE e
  BY QueueNodes, NoThreadIsNone, QueueLength DEF IsQueue, Steps
<1>2. QueueRange(s) = {n[i] : i \in Steps}
  BY DEF QueueRange
<1>. HIDE DEF n, e
<1>3. \A i \in 1..Len(q) : q[i] \in Threads /\ i - 1 \in Steps /\ n[i - 1] = q[i]
  BY <1>1
<1>4. n[Len(q)] = e
  BY <1>1
<1>5. \A i \in Steps : \/ i + 1 \in 1..Len(q) /\ n[i] = q[i + 1]
                       \/ n[i] = e
  BY <1>1
<1>6. \A i \in 1..Len(q) : q[i] \in Queued(s)
  BY <1>2, <1>3 DEF Queued
<1>7. \A t \in Queued(s) : \E i \in 1..Len(q) : t = q[i]
  BY <1>1, <1>2, <1>5 DEF Queued
<1>8. QueueRange(s) \subseteq Queued(s) \cup {e}
  BY <1>2, <1>5, <1>6
<1>. QED
  BY <1>1, <1>2, <1>4, <1>6, <1>7, <1>8 DEF e

(* QueueSeq reads off the list.                                            *)
SeqIsQueue ==
  \A s \in Sems : \A q \in Seq(Threads) : IsQueue(s, q) => QueueSeq(s) = q

LEMMA QueueSeqIs == SeqIsQueue
<1>. SUFFICES ASSUME NEW s \in Sems, NEW q \in Seq(Threads), IsQueue(s, q)
              PROVE  QueueSeq(s) = q
  BY DEF SeqIsQueue
<1>. DEFINE n == Len(q)
<1>1. n \in Nat /\ Queued(s) = {q[i] : i \in 1..n} /\ n <= Cardinality(Threads)
      /\ Steps = 0..Cardinality(Threads) /\ Cardinality(Threads) \in Nat
  <2>1. \A i, j \in 1..n : q[i] = q[j] => i = j
    BY DEF IsQueue
  <2>. QED
    BY <2>1, QueueRangeIs, QueueLength DEF Steps
<1>2. q \in Bijection(1..n, Queued(s))
  <2>1. q \in [1..n -> Queued(s)]
    BY <1>1
  <2>2. IsInjective(q)
    BY <1>1 DEF IsQueue, IsInjective
  <2>3. \A t \in Queued(s) : \E i \in 1..n : q[i] = t
    BY <1>1
  <2>. QED
    BY <2>1, <2>2, <2>3, Zenon DEF Bijection, Injection, Surjection
<1>3. Cardinality(Queued(s)) = n
  <2>1. ExistsBijection(1..n, Queued(s))
    BY <1>2, Zenon DEF ExistsBijection
  <2>. QED
    BY <1>1, <2>1, FS_CountingElements
<1>4. \A i \in 1..n : QueueNode(s)[i - 1] = q[i]
  <2>1. \A i \in 1..n : i - 1 \in Steps /\ i - 1 < n /\ (i - 1) + 1 = i
    BY <1>1
  <2>. QED
    BY <2>1, QueueNodes
<1>5. QueueSeq(s) = [i \in 1..n |-> QueueNode(s)[i - 1]]
  BY <1>3 DEF QueueSeq
<1>6. q = [i \in 1..n |-> q[i]]
  OBVIOUS
<1>7. [i \in 1..n |-> QueueNode(s)[i - 1]] = [i \in 1..n |-> q[i]]
  BY <1>4, Zenon
<1>. QED
  BY <1>5, <1>6, <1>7, Zenon

LEMMA QueueSeqIsNext == SeqIsQueue'
  BY QueueSeqIs, PTL

(* sem_post wakes the first of the list, sem_wait appends to the last.     *)
LEMMA QueueEnds ==
  ASSUME NEW s \in Sems, NEW q \in Seq(Threads), IsQueue(s, q)
  PROVE  /\ q = <<>> => Wakeable(s) = {}
         /\ q # <<>> => Wakeable(s) # {} /\ ToWake(s) = q[1]
         /\ NULL \in QueueRange(s) /\ q # <<>> => QueueTail(s) = q[Len(q)]
         /\ NULL \in QueueRange(s) => QueueEnd(s, q) = NULL
<1>1. /\ QueueEnd(s, q) \notin Threads /\ Len(q) \in Nat /\ Steps = 0..Cardinality(Threads)
      /\ Cardinality(Threads) \in Nat /\ Len(q) <= Cardinality(Threads)
      /\ \A i \in Steps : QueueNode(s)[i] = IF i < Len(q) THEN q[i + 1] ELSE QueueEnd(s, q)
  BY QueueNodes, NoThreadIsNone, QueueLength DEF IsQueue, Steps
<1>2. \A i \in 1..Len(q) : q[i] \in Threads /\ state[q[i]] = "BLOCKED"
  BY DEF IsQueue, Waits
<1>3. ASSUME q = <<>> PROVE Wakeable(s) = {}
  <2>1. Len(q) = 0
    BY <1>3
  <2>2. \A i \in Steps : ~(i < Len(q))
    BY <1>1, <2>1
  <2>. QED
    BY <1>1, <2>2 DEF Wakeable
<1>4. ASSUME q # <<>> PROVE Wakeable(s) # {} /\ ToWake(s) = q[1]
  <2>1. Len(q) > 0 /\ 1 \in 1..Len(q)
    BY <1>1, <1>4
  <2>2. 0 \in Wakeable(s) /\ QueueNode(s)[0] = q[1]
    BY <1>1, <1>2, <2>1 DEF Wakeable
  <2>3. Wakeable(s) \in SUBSET Nat
    BY <1>1 DEF Wakeable
  <2>4. Min(Wakeable(s)) \in Nat /\ Min(Wakeable(s)) <= 0
    BY <2>2, <2>3, MinIsIn
  <2>5. Min(Wakeable(s)) = 0
    BY <2>4
  <2>. QED
    BY <2>2, <2>5 DEF ToWake
<1>5. ASSUME NULL \in QueueRange(s) PROVE QueueEnd(s, q) = NULL
  <2>1. NULL \notin Threads
    OBVIOUS
  <2>. QED
    BY <1>5, <2>1, QueueRangeIs DEF Queued
<1>6. ASSUME NULL \in QueueRange(s), q # <<>> PROVE QueueTail(s) = q[Len(q)]
  <2>1. Len(q) \in 1..Len(q)
    BY <1>1, <1>6
  <2>2. QueueEnd(s, q) = next_in_queue[q[Len(q)]]
    BY <1>6 DEF QueueEnd
  <2>3. q[Len(q)] \in Queued(s) /\ next_in_queue[q[Len(q)]] = NULL
    BY <1>5, <1>6, <2>1, <2>2, QueueRangeIs
  <2>4. ASSUME NEW t \in Queued(s), next_in_queue[t] = NULL PROVE t = q[Len(q)]
    <3>1. PICK i \in 1..Len(q) : t = q[i]
      BY QueueRangeIs
    <3>2. ASSUME i # Len(q) PROVE FALSE
      <4>1. next_in_queue[t] = q[i + 1] /\ i + 1 \in 1..Len(q)
        BY <1>1, <3>1, <3>2 DEF IsQueue
      <4>2. q[i + 1] \in Threads
        BY <1>2, <4>1
      <4>. QED
        BY <2>4, <4>1, <4>2
    <3>. QED
      BY <3>1, <3>2
  <2>. QED
    BY <2>3, <2>4 DEF QueueTail
<1>. QED
  BY <1>3, <1>4, <1>5, <1>6


LEMMA QueuesInit == Init => Queues
<1>. SUFFICES ASSUME Init PROVE Queues
  OBVIOUS
<1>1. /\ \A t \in Threads : state[t] = "ABSENT" /\ next_in_queue[t] = NULL
      /\ \A s \in Sems : sem[s] = "none"
  BY DEF Init, CoreInit
<1>. QED
  BY <1>1 DEF Queues, Waits, NoThread

(* A queue is as it was if its threads still wait and their links stand.   *)
LEMMA QueueKept ==
  ASSUME NEW s \in Sems, NEW q \in Seq(Threads), IsQueue(s, q), queue'[s] = queue[s],
         \A t \in Threads : /\ Waits(t, s)' <=> Waits(t, s)
                            /\ Waits(t, s) => next_in_queue'[t] = next_in_queue[t]
  PROVE  IsQueue(s, q)'
<1>1. \A i \in 1..Len(q) : /\ q[i] \in Threads /\ Waits(q[i], s)
                           /\ next_in_queue'[q[i]] = next_in_queue[q[i]]
  BY DEF IsQueue
<1>. QED
  BY <1>1 DEF IsQueue

(* What a step may do to the queue of a semaphore.                         *)
Kept(s) == \A q \in Seq(Threads) : IsQueue(s, q) => IsQueue(s, q)'
Appended(s) ==
  \A q \in Seq(Threads) : IsQueue(s, q) =>
    \E c \in Threads : c = running /\ IsQueue(s, Append(q, c))'
Taken(s) ==
  \A q \in Seq(Threads) : IsQueue(s, q) =>
    IsQueue(s, q)' \/ (q # <<>> /\ IsQueue(s, Tail(q))')
Served == \A s \in Sems : sem[s] = "live" => Kept(s) \/ Appended(s) \/ Taken(s)

LEMMA QueuesKept ==
  ASSUME Queues, UNCHANGED <<sem, queue>>,
         \A t \in Threads : \A s \in Sems : Waits(t, s)' <=> Waits(t, s),
         \A t \in Threads : \/ next_in_queue'[t] = next_in_queue[t]
                            \/ /\ \A s \in Sems : ~Waits(t, s)
                               /\ next_in_queue'[t] \in NoThread
  PROVE  Queues' /\ Served
<1>0. ASSUME NEW s \in Sems PROVE Kept(s)
  <2>1. SUFFICES ASSUME NEW q \in Seq(Threads), IsQueue(s, q) PROVE IsQueue(s, q)'
    BY DEF Kept
  <2>. QED
    BY <2>1, QueueKept
<1>1. ASSUME NEW s \in Sems, sem'[s] = "live"
      PROVE  \E q \in Seq(Threads) : IsQueue(s, q)'
  <2>1. PICK q \in Seq(Threads) : IsQueue(s, q)
    BY <1>1 DEF Queues
  <2>2. IsQueue(s, q)'
    BY <2>1, QueueKept
  <2>. QED
    BY <2>2
<1>2. ASSUME NEW s \in Sems, sem'[s] # "live"
      PROVE  \A t \in Threads : ~Waits(t, s)'
  BY <1>2 DEF Queues
<1>3. ASSUME NEW t \in Threads, \A s \in Sems : ~Waits(t, s)'
      PROVE  next_in_queue'[t] \in NoThread
  BY <1>3 DEF Queues
<1>4. Queues'
  BY <1>1, <1>2, <1>3 DEF Queues, NoThread
<1>. QED
  BY <1>0, <1>4 DEF Served

(* sem_wait links the caller behind the others.                            *)
LEMMA BlockAppends ==
  ASSUME TypeInv, CurrentInv, BlockInv, Queues, NEW s \in Sems, sem_wait_Block(s),
         NEW q \in Seq(Threads), IsQueue(s, q), NEW c \in Threads, c = running
  PROVE  /\ IsQueue(s, Append(q, c))' /\ Queues'
         /\ \A x \in Sems \ {s} : Kept(x)
<1>. USE DEF TypeInv, TypeOK
<1>1. /\ Depth = 0 /\ pc[cpu] = "user" /\ running # NULL /\ Goto("w_call") /\ sem[s] = "live"
      /\ state' = [state EXCEPT ![running] = "BLOCKED"] /\ NULL \in QueueRange(s)
      /\ obj' = [obj EXCEPT ![cpu] = s] /\ UNCHANGED <<cpu, running, sem>>
      /\ IF queue[s] = NULL
           THEN queue' = [queue EXCEPT ![s] = running] /\ UNCHANGED next_in_queue
           ELSE /\ next_in_queue' = [next_in_queue EXCEPT ![QueueTail(s)] = running]
                /\ UNCHANGED queue
  BY DEF sem_wait_Block, Calling, InBase
<1>2. /\ running = cpu /\ cpu \in Threads /\ state[cpu] = "RUNNING"
  BY <1>1, Awake DEF HeadShape, ExitPoints
<1>. DEFINE n == Len(q)
            r == Append(q, c)
<1>3. c = cpu /\ c = running
  BY <1>2
<1>4. /\ n \in Nat /\ Len(r) = n + 1 /\ r[n + 1] = c /\ r # <<>> /\ r \in Seq(Threads)
      /\ \A i \in 1..n : r[i] = q[i] /\ q[i] \in Threads /\ i \in 1..Len(r)
  <2>1. n \in Nat /\ Len(r) = n + 1 /\ r \in Seq(Threads) /\ r[n + 1] = c
    OBVIOUS
  <2>2. r # <<>> /\ \A i \in 1..n : i \in 1..Len(r)
    <3>1. Len(<<>>) = 0
      OBVIOUS
    <3>. HIDE DEF n, r
    <3>2. Len(r) # 0
      BY <2>1
    <3>. QED
      BY <2>1, <3>1, <3>2
  <2>3. \A i \in 1..n : r[i] = q[i] /\ q[i] \in Threads
    OBVIOUS
  <2>. QED
    BY <2>1, <2>2, <2>3
<1>5. /\ \A t \in Threads \ {c} : \A x \in Sems : Waits(t, x)' <=> Waits(t, x)
      /\ \A x \in Sems : ~Waits(c, x)
      /\ \A x \in Sems : Waits(c, x)' <=> x = s
  BY <1>1, <1>2, <1>3 DEF Waits, Goto, CpuTypeOK, LibTypeOK
<1>6. /\ next_in_queue[c] \in NoThread
      /\ \A i \in 1..n : q[i] # c /\ Waits(q[i], s)
  BY <1>3, <1>5 DEF Queues, IsQueue
<1>7. q = <<>> => queue[s] = NULL
  BY <1>1, QueueEnds DEF QueueEnd
<1>8. q # <<>> => /\ queue[s] = q[1] /\ queue[s] # NULL /\ n \in 1..n /\ 1 \in 1..n
                  /\ QueueTail(s) = q[n]
  <2>1. ASSUME q # <<>> PROVE n \in 1..n /\ 1 \in 1..n
    BY <1>4, <2>1
  <2>2. ASSUME q # <<>> PROVE queue[s] = q[1] /\ q[1] \in Threads /\ QueueTail(s) = q[n]
    BY <1>1, <1>4, <2>1, <2>2, QueueEnds DEF IsQueue
  <2>. QED
    BY <2>1, <2>2
<1>9. /\ q = <<>> => queue' = [queue EXCEPT ![s] = c] /\ UNCHANGED next_in_queue
      /\ q # <<>> => next_in_queue' = [next_in_queue EXCEPT ![q[n]] = c] /\ UNCHANGED queue
  BY <1>1, <1>3, <1>7, <1>8
<1>10. /\ queue'[s] = r[1] /\ \A x \in Sems \ {s} : queue'[x] = queue[x]
       /\ q # <<>> => next_in_queue'[q[n]] = c
       /\ \A t \in Threads : (\A i \in 1..n : t # q[i]) => next_in_queue'[t] = next_in_queue[t]
       /\ \A i \in 1..n : i # n => next_in_queue'[q[i]] = next_in_queue[q[i]]
  <2>1. CASE q = <<>>
    BY <1>4, <1>9, <2>1 DEF SyncTypeOK
  <2>2. CASE q # <<>>
    <3>1. \A i \in 1..n : i # n => q[i] # q[n]
      BY <1>8, <2>2 DEF IsQueue
    <3>2. /\ next_in_queue'[q[n]] = c
          /\ \A t \in Threads : t # q[n] => next_in_queue'[t] = next_in_queue[t]
      BY <1>4, <1>8, <1>9, <2>2 DEF SyncTypeOK
    <3>. QED
      BY <1>4, <1>8, <1>9, <2>2, <3>1, <3>2
  <2>. QED
    BY <2>1, <2>2
<1>11. IsQueue(s, r)'
  <2>1. \A i \in 1..Len(r) : \/ i = n + 1 /\ r[i] = c
                             \/ i \in 1..n /\ r[i] = q[i]
    <3>. HIDE DEF n, r
    <3>1. \A i \in 1..(n + 1) : i = n + 1 \/ i \in 1..n
      BY <1>4
    <3>. QED
      BY <1>4, <3>1
  <2>2. \A i \in 1..Len(r) : Waits(r[i], s)'
    BY <1>4, <1>5, <1>6, <1>3, <2>1
  <2>3. \A t \in Threads : Waits(t, s)' => \E i \in 1..Len(r) : r[i] = t
    <3>1. n + 1 \in 1..Len(r)
      BY <1>4
    <3>2. \A t \in Threads : Waits(t, s) => \E i \in 1..n : q[i] = t
      BY DEF IsQueue
    <3>3. ASSUME NEW t \in Threads, Waits(t, s)' PROVE \E i \in 1..Len(r) : r[i] = t
      <4>1. CASE t = c
        BY <1>4, <3>1, <4>1
      <4>2. CASE t # c
        <5>1. PICK i \in 1..n : q[i] = t
          BY <1>5, <3>2, <3>3, <4>2
        <5>. QED
          BY <1>4, <5>1
      <4>. QED
        BY <4>1, <4>2
    <3>. QED
      BY <3>3
  <2>4. \A i, j \in 1..Len(r) : r[i] = r[j] => i = j
    <3>1. \A i, j \in 1..n : q[i] = q[j] => i = j
      BY DEF IsQueue
    <3>. QED
      BY <1>6, <2>1, <3>1
  <2>5. \A i \in 1..Len(r) : IF i = Len(r) THEN next_in_queue'[r[i]] \in NoThread
                             ELSE next_in_queue'[r[i]] = r[i + 1]
    <3>1. next_in_queue'[c] \in NoThread
      BY <1>3, <1>6, <1>10
    <3>2. ASSUME NEW i \in 1..n PROVE next_in_queue'[q[i]] = r[i + 1] /\ i # Len(r)
      <4>1. CASE i = n
        <5>1. q # <<>>
          BY <1>4, <4>1
        <5>. QED
          BY <1>4, <1>10, <4>1, <5>1
      <4>2. CASE i # n
        <5>1. i + 1 \in 1..n
          BY <1>4, <4>2
        <5>2. next_in_queue[q[i]] = q[i + 1]
          BY <4>2 DEF IsQueue
        <5>. QED
          BY <1>4, <1>10, <4>2, <5>1, <5>2
      <4>. QED
        BY <4>1, <4>2
    <3>. QED
      BY <1>4, <2>1, <3>1, <3>2
  <2>. QED
    BY <1>4, <1>10, <2>2, <2>3, <2>4, <2>5 DEF IsQueue, NoThread
<1>12. ASSUME NEW x \in Sems, x # s, NEW y \in Seq(Threads), IsQueue(x, y)
       PROVE  IsQueue(x, y)'
  <2>1. \A t \in Threads : Waits(t, x) => next_in_queue'[t] = next_in_queue[t]
    <3>1. \A t \in Threads : Waits(t, x) => ~Waits(t, s)
      BY <1>12 DEF Waits
    <3>. QED
      BY <1>6, <1>10, <3>1
  <2>2. \A t \in Threads : Waits(t, x)' <=> Waits(t, x)
    BY <1>5, <1>12
  <2>. QED
    BY <1>10, <1>12, <2>1, <2>2, QueueKept
<1>13. Queues'
  <2>1. ASSUME NEW x \in Sems, sem'[x] = "live"
        PROVE  \E y \in Seq(Threads) : IsQueue(x, y)'
    <3>1. CASE x = s
      BY <1>4, <1>11, <3>1
    <3>2. CASE x # s
      <4>1. PICK y \in Seq(Threads) : IsQueue(x, y)
        BY <1>1, <2>1 DEF Queues
      <4>2. IsQueue(x, y)'
        BY <1>12, <3>2, <4>1
      <4>. QED
        BY <4>2
    <3>. QED
      BY <3>1, <3>2
  <2>2. ASSUME NEW x \in Sems, sem'[x] # "live", NEW t \in Threads
        PROVE  ~Waits(t, x)'
    <3>1. x # s /\ ~Waits(t, x)
      BY <1>1, <2>2 DEF Queues
    <3>. QED
      BY <1>5, <3>1
  <2>3. ASSUME NEW t \in Threads, \A x \in Sems : ~Waits(t, x)'
        PROVE  next_in_queue'[t] \in NoThread
    <3>1. t # c /\ \A x \in Sems : ~Waits(t, x)
      BY <1>5, <2>3
    <3>2. \A i \in 1..n : t # q[i]
      BY <1>6, <3>1
    <3>. QED
      BY <1>10, <3>1, <3>2 DEF Queues
  <2>. QED
    BY <2>1, <2>2, <2>3 DEF Queues, NoThread
<1>14. \A x \in Sems \ {s} : Kept(x)
  BY <1>12 DEF Kept
<1>. QED
  BY <1>1, <1>3, <1>11, <1>13, <1>14


(* sem_post unlinks the first, and nobody else.                            *)
LEMMA PostTakes ==
  ASSUME TypeInv, CurrentInv, BlockInv, Queues, NEW s \in Sems, sem_post(s),
         NEW q \in Seq(Threads), IsQueue(s, q)
  PROVE  /\ IsQueue(s, q)' \/ (q # <<>> /\ IsQueue(s, Tail(q))')
         /\ Queues' /\ Served
<1>. USE DEF TypeInv, TypeOK
<1>. DEFINE n == Len(q)
            r == Tail(q)
<1>1. /\ UNCHANGED <<pc, obj, sem>>
      /\ IF value[s] = 0 /\ Wakeable(s) # {}
           THEN /\ state' = [state EXCEPT ![ToWake(s)] = "READY"]
                /\ queue' = [queue EXCEPT ![s] = next_in_queue[ToWake(s)]]
                /\ next_in_queue' = [next_in_queue EXCEPT ![ToWake(s)] = NULL]
           ELSE UNCHANGED <<state, queue, next_in_queue>>
      /\ sem[s] = "live"
  BY DEF sem_post
<1>2. CASE UNCHANGED <<state, queue, next_in_queue>>
  <2>1. \A t \in Threads : \A x \in Sems : Waits(t, x)' <=> Waits(t, x)
    BY <1>1, <1>2 DEF Waits
  <2>2. IsQueue(s, q)'
    BY <1>2, <2>1, QueueKept
  <2>3. Queues' /\ Served
    BY <1>1, <1>2, <2>1, QueuesKept
  <2>. QED
    BY <2>2, <2>3
<1>3. CASE Wakeable(s) # {} /\ ~UNCHANGED <<state, queue, next_in_queue>>
  <2>1. q # <<>> /\ ToWake(s) = q[1]
    BY <1>3, QueueEnds
  <2>2. /\ n \in Nat /\ n > 0 /\ 1 \in 1..n /\ r \in Seq(Threads) /\ Len(r) = n - 1
        /\ \A i \in 1..(n - 1) : r[i] = q[i + 1] /\ i + 1 \in 1..n
        /\ \A i \in 1..n : q[i] \in Threads
    <3>1. n \in Nat /\ n > 0
      BY <2>1
    <3>2. r \in Seq(Threads) /\ Len(r) = n - 1 /\ \A i \in 1..(n - 1) : r[i] = q[i + 1]
      BY <2>1
    <3>3. \A i \in 1..(n - 1) : i + 1 \in 1..n
      BY <3>1
    <3>. QED
      BY <3>1, <3>2, <3>3
  <2>. HIDE DEF n, r
  <2>3. PICK c \in Threads : c = q[1]
    <3>1. \A i \in 1..n : q[i] \in Threads
      BY <2>2
    <3>2. 1 \in 1..n
      BY <2>2
    <3>3. q[1] \in Threads
      BY <3>1, <3>2
    <3>. QED
      BY <3>3
  <2>4. /\ \A t \in Threads \ {c} : state'[t] = state[t] /\ next_in_queue'[t] = next_in_queue[t]
        /\ state'[c] = "READY" /\ next_in_queue'[c] = NULL
        /\ queue'[s] = next_in_queue[c] /\ \A x \in Sems \ {s} : queue'[x] = queue[x]
    BY <1>1, <1>3, <2>1, <2>3 DEF LibTypeOK, SyncTypeOK
  <2>5. /\ Waits(c, s) /\ \A i \in 1..n : q[i] = c => i = 1
        /\ \A x \in Sems : ~Waits(c, x)'
        /\ \A t \in Threads \ {c} : \A x \in Sems : Waits(t, x)' <=> Waits(t, x)
    <3>1. Waits(c, s)
      BY <2>2, <2>3 DEF IsQueue, n
    <3>2. \A i \in 1..n : q[i] = c => i = 1
      BY <2>2, <2>3 DEF IsQueue, n
    <3>3. /\ \A x \in Sems : ~Waits(c, x)'
          /\ \A t \in Threads \ {c} : \A x \in Sems : Waits(t, x)' <=> Waits(t, x)
      BY <1>1, <2>4 DEF Waits
    <3>. QED
      BY <3>1, <3>2, <3>3
  <2>6. \A i \in 1..(n - 1) : r[i] \in Threads \ {c}
    <3>. SUFFICES ASSUME NEW i \in 1..(n - 1) PROVE r[i] \in Threads /\ r[i] # c
      OBVIOUS
    <3>1. r[i] = q[i + 1] /\ i + 1 \in 1..n /\ q[i + 1] \in Threads
      BY <2>2
    <3>2. i + 1 # 1
      BY <2>2
    <3>. QED
      BY <2>5, <3>1, <3>2
  <2>7. /\ \A i \in 1..n : i # n => next_in_queue[q[i]] = q[i + 1]
        /\ next_in_queue[q[n]] \in NoThread
        /\ \A i \in 1..n : Waits(q[i], s)
        /\ \A i, j \in 1..n : q[i] = q[j] => i = j
        /\ \A t \in Threads : Waits(t, s) => \E i \in 1..n : q[i] = t
    BY <2>2 DEF IsQueue, n
  <2>8. IsQueue(s, r)'
    <3>1. \A i \in 1..Len(r) : Waits(r[i], s)'
      BY <2>2, <2>5, <2>6, <2>7
    <3>2. \A t \in Threads : Waits(t, s)' => \E i \in 1..Len(r) : r[i] = t
      <4>1. SUFFICES ASSUME NEW t \in Threads, Waits(t, s)' PROVE \E i \in 1..Len(r) : r[i] = t
        OBVIOUS
      <4>2. t # c /\ Waits(t, s)
        BY <2>5, <4>1
      <4>3. PICK i \in 1..n : q[i] = t
        BY <2>7, <4>2
      <4>4. i # 1
        BY <2>3, <4>2, <4>3
      <4>5. i - 1 \in 1..(n - 1) /\ (i - 1) + 1 = i
        BY <2>2, <4>4
      <4>. QED
        BY <2>2, <4>3, <4>5
    <3>3. \A i, j \in 1..Len(r) : r[i] = r[j] => i = j
      <4>1. SUFFICES ASSUME NEW i \in 1..(n - 1), NEW j \in 1..(n - 1), r[i] = r[j]
                     PROVE  i = j
        BY <2>2
      <4>2. i + 1 = j + 1
        <5>1. i + 1 \in 1..n /\ j + 1 \in 1..n /\ q[i + 1] = q[j + 1]
          BY <2>2, <4>1
        <5>2. \A x, y \in 1..n : q[x] = q[y] => x = y
          BY <2>7
        <5>. QED
          BY <5>1, <5>2
      <4>. QED
        BY <4>2
    <3>4. IF r = <<>> THEN queue'[s] \in NoThread ELSE queue'[s] = r[1]
      <4>1. CASE n = 1
        <5>1. next_in_queue[c] \in NoThread
          BY <2>3, <2>7, <4>1
        <5>2. r = <<>>
          BY <2>2, <4>1
        <5>. QED
          BY <2>4, <5>1, <5>2
      <4>2. CASE n # 1
        <5>1. 1 \in 1..(n - 1) /\ 1 \in 1..n
          BY <2>2, <4>2
        <5>2. r # <<>>
          <6>1. Len(<<>>) = 0
            OBVIOUS
          <6>. QED
            BY <2>2, <4>2, <6>1
        <5>3. r[1] = q[2] /\ next_in_queue[q[1]] = q[2]
          BY <2>2, <2>7, <4>2, <5>1
        <5>. QED
          BY <2>3, <2>4, <5>2, <5>3
      <4>. QED
        BY <4>1, <4>2
    <3>5. \A i \in 1..Len(r) : IF i = Len(r) THEN next_in_queue'[r[i]] \in NoThread
                               ELSE next_in_queue'[r[i]] = r[i + 1]
      <4>1. SUFFICES ASSUME NEW i \in 1..(n - 1)
                     PROVE  IF i = n - 1 THEN next_in_queue'[r[i]] \in NoThread
                            ELSE next_in_queue'[r[i]] = r[i + 1]
        BY <2>2
      <4>2. next_in_queue'[r[i]] = next_in_queue[q[i + 1]] /\ i + 1 \in 1..n
        BY <2>2, <2>4, <2>6
      <4>3. CASE i = n - 1
        BY <2>2, <2>7, <4>2, <4>3
      <4>4. CASE i # n - 1
        <5>1. i + 1 # n /\ i + 1 \in 1..(n - 1)
          BY <2>2, <4>4
        <5>2. next_in_queue[q[i + 1]] = q[(i + 1) + 1] /\ r[i + 1] = q[(i + 1) + 1]
          BY <2>2, <2>7, <4>2, <5>1
        <5>. QED
          BY <4>2, <4>4, <5>2
      <4>. QED
        BY <4>3, <4>4
    <3>. QED
      BY <3>1, <3>2, <3>3, <3>4, <3>5 DEF IsQueue, NoThread
  <2>9. ASSUME NEW x \in Sems, x # s, NEW y \in Seq(Threads), IsQueue(x, y)
        PROVE  IsQueue(x, y)'
    <3>1. ~Waits(c, x)
      BY <2>5, <2>9 DEF Waits
    <3>2. \A t \in Threads : /\ Waits(t, x)' <=> Waits(t, x)
                             /\ Waits(t, x) => next_in_queue'[t] = next_in_queue[t]
      BY <2>4, <2>5, <3>1
    <3>. QED
      BY <2>4, <2>9, <3>2, QueueKept
  <2>10. Queues'
    <3>1. ASSUME NEW x \in Sems, sem'[x] = "live"
          PROVE  \E y \in Seq(Threads) : IsQueue(x, y)'
      <4>1. CASE x = s
        BY <2>2, <2>8, <4>1
      <4>2. CASE x # s
        <5>1. PICK y \in Seq(Threads) : IsQueue(x, y)
          BY <1>1, <3>1 DEF Queues
        <5>2. IsQueue(x, y)'
          BY <2>9, <4>2, <5>1
        <5>. QED
          BY <5>2
      <4>. QED
        BY <4>1, <4>2
    <3>2. ASSUME NEW x \in Sems, sem'[x] # "live", NEW t \in Threads
          PROVE  ~Waits(t, x)'
      <4>1. ~Waits(t, x)
        BY <1>1, <3>2 DEF Queues
      <4>. QED
        BY <2>5, <4>1
    <3>3. ASSUME NEW t \in Threads, \A x \in Sems : ~Waits(t, x)'
          PROVE  next_in_queue'[t] \in NoThread
      BY <2>4, <2>5, <3>3 DEF Queues, NoThread
    <3>. QED
      BY <3>1, <3>2, <3>3 DEF Queues, NoThread
  <2>11. Served
    <3>1. ASSUME NEW x \in Sems, x # s PROVE Kept(x)
      BY <2>9, <3>1 DEF Kept
    <3>2. Taken(s)
      <4>1. SUFFICES ASSUME NEW y \in Seq(Threads), IsQueue(s, y)
                     PROVE  y # <<>> /\ IsQueue(s, Tail(y))'
        BY DEF Taken
      <4>2. y = q
        BY <4>1, QueueSeqIs DEF SeqIsQueue
      <4>. QED
        BY <2>1, <2>8, <4>2 DEF r
    <3>. QED
      BY <3>1, <3>2 DEF Served
  <2>. QED
    BY <2>1, <2>8, <2>10, <2>11 DEF r
<1>. QED
  BY <1>1, <1>2, <1>3

(* sem_init and sem_destroy find no thread waiting.                        *)
LEMMA InitDestroyQueues ==
  ASSUME TypeInv, Queues, NEW s \in Sems, sem_init(s) \/ sem_destroy(s)
  PROVE  Queues' /\ Served
<1>. USE DEF TypeInv, TypeOK
<1>1. /\ UNCHANGED <<state, pc, obj, next_in_queue>>
      /\ \A x \in Sems \ {s} : sem'[x] = sem[x] /\ queue'[x] = queue[x]
      /\ queue'[s] = NULL
      /\ \/ sem[s] = "none" /\ sem'[s] = "live"
         \/ sem[s] = "live" /\ sem'[s] = "freed" /\ queue[s] = NULL
  BY DEF sem_init, sem_destroy, SyncTypeOK
<1>2. \A t \in Threads : \A x \in Sems : Waits(t, x)' <=> Waits(t, x)
  BY <1>1 DEF Waits
<1>3. \A t \in Threads : ~Waits(t, s)
  <2>1. CASE sem[s] = "none"
    BY <2>1 DEF Queues
  <2>2. CASE sem[s] = "live" /\ queue[s] = NULL
    <3>1. PICK q \in Seq(Threads) : IsQueue(s, q)
      BY <2>2 DEF Queues
    <3>2. q = <<>>
      <4>1. ASSUME q # <<>> PROVE FALSE
        <5>1. 1 \in 1..Len(q) /\ q[1] \in Threads
          BY <4>1
        <5>2. queue[s] = q[1]
          BY <3>1, <4>1 DEF IsQueue
        <5>. QED
          BY <2>2, <5>1, <5>2
      <4>. QED
        BY <4>1
    <3>3. Len(q) = 0
      BY <3>2
    <3>4. 1..Len(q) = {}
      BY <3>3
    <3>. QED
      BY <3>1, <3>4 DEF IsQueue
  <2>. QED
    BY <1>1, <2>1, <2>2
<1>4. IsQueue(s, <<>>)'
  <2>1. Len(<<>>) = 0 /\ 1..0 = {}
    OBVIOUS
  <2>2. \A t \in Threads : ~Waits(t, s)'
    BY <1>2, <1>3
  <2>. QED
    BY <1>1, <2>1, <2>2 DEF IsQueue, NoThread
<1>8. Served
  <2>1. ASSUME NEW x \in Sems, sem[x] = "live" PROVE Kept(x)
    <3>1. SUFFICES ASSUME NEW y \in Seq(Threads), IsQueue(x, y) PROVE IsQueue(x, y)'
      BY DEF Kept
    <3>2. CASE x = s
      <4>1. y = <<>>
        <5>1. ASSUME y # <<>> PROVE FALSE
          <6>1. 1 \in 1..Len(y) /\ y[1] \in Threads
            BY <5>1
          <6>2. Waits(y[1], s)
            BY <3>1, <3>2, <6>1 DEF IsQueue
          <6>. QED
            BY <1>3, <6>1, <6>2
        <5>. QED
          BY <5>1
      <4>. QED
        BY <1>4, <3>2, <4>1
    <3>3. CASE x # s
      BY <1>1, <1>2, <3>1, <3>3, QueueKept
    <3>. QED
      BY <3>2, <3>3
  <2>. QED
    BY <2>1 DEF Served
<1>5. ASSUME NEW x \in Sems, sem'[x] = "live"
      PROVE  \E y \in Seq(Threads) : IsQueue(x, y)'
  <2>1. CASE x = s
    <3>1. <<>> \in Seq(Threads)
      OBVIOUS
    <3>. QED
      BY <1>4, <2>1, <3>1
  <2>2. CASE x # s
    <3>1. PICK y \in Seq(Threads) : IsQueue(x, y)
      BY <1>1, <1>5, <2>2 DEF Queues
    <3>2. IsQueue(x, y)'
      BY <1>1, <1>2, <2>2, <3>1, QueueKept
    <3>. QED
      BY <3>2
  <2>. QED
    BY <2>1, <2>2
<1>6. ASSUME NEW x \in Sems, sem'[x] # "live", NEW t \in Threads
      PROVE  ~Waits(t, x)'
  <2>1. ~Waits(t, x)
    BY <1>1, <1>3, <1>6 DEF Queues
  <2>. QED
    BY <1>2, <2>1
<1>7. ASSUME NEW t \in Threads, \A x \in Sems : ~Waits(t, x)'
      PROVE  next_in_queue'[t] \in NoThread
  BY <1>1, <1>2, <1>7 DEF Queues
<1>. QED
  BY <1>5, <1>6, <1>7, <1>8 DEF Queues, NoThread


(* The thread sem_post wakes waits for that semaphore.                     *)
LEMMA WokenWaits ==
  ASSUME Queues, NEW s \in Sems, sem[s] = "live", Wakeable(s) # {}
  PROVE  Waits(ToWake(s), s)
<1>1. PICK q \in Seq(Threads) : IsQueue(s, q)
  BY DEF Queues
<1>2. q # <<>> /\ ToWake(s) = q[1]
  BY <1>1, QueueEnds
<1>3. 1 \in 1..Len(q)
  BY <1>2
<1>4. Waits(q[1], s)
  BY <1>1, <1>3 DEF IsQueue
<1>. QED
  BY <1>2, <1>4

(* A step after which the same threads wait for the same semaphores: the   *)
(* thread on the CPU does not wait, before and after.                      *)
LEMMA CodeQueues ==
  ASSUME Queues, UNCHANGED <<sem, queue>>,
         state[cpu] # "BLOCKED" \/ pc[cpu] \notin {"w_call", "w_check"},
         state'[cpu] # "BLOCKED" \/ pc'[cpu] \notin {"w_call", "w_check"},
         \A t \in Threads \ {cpu} :
           /\ pc'[t] = pc[t] /\ obj'[t] = obj[t]
           /\ \/ state'[t] = state[t]
              \/ state[t] # "BLOCKED" /\ state'[t] # "BLOCKED"
              \/ pc[t] \notin {"w_call", "w_check"},
         \A t \in Threads : \/ next_in_queue'[t] = next_in_queue[t]
                            \/ state[t] # "BLOCKED" /\ next_in_queue'[t] \in NoThread
  PROVE  Queues' /\ Served
<1>1. ASSUME NEW t \in Threads, NEW s \in Sems PROVE Waits(t, s)' <=> Waits(t, s)
  <2>1. CASE t = cpu
    <3>1. ~Waits(t, s)
      BY <2>1 DEF Waits
    <3>2. ~Waits(t, s)'
      BY <2>1 DEF Waits
    <3>. QED
      BY <3>1, <3>2
  <2>2. CASE t # cpu
    BY <2>2 DEF Waits
  <2>. QED
    BY <2>1, <2>2
<1>2. \A t \in Threads : state[t] # "BLOCKED" => \A s \in Sems : ~Waits(t, s)
  BY DEF Waits
<1>. QED
  BY <1>1, <1>2, QueuesKept

LEMMA CreateQueues ==
  ASSUME TypeInv, CurrentInv, BlockInv, Queues, pthread_create
  PROVE  Queues' /\ Served
<1>. USE DEF TypeInv, TypeOK
<1>1. CASE CreateEnter
  <2>1. PICK w \in Workers, u \in Uninit :
          pthread_create_Enter(w, u) /\ next_in_queue' = Fresh(next_in_queue, w, u)
          /\ UNCHANGED <<sem, queue>>
    BY <1>1 DEF CreateEnter
  <2>2. /\ Depth = 0 /\ state[w] = "ABSENT" /\ pc[cpu] = "user" /\ pc'[cpu] = "c_head"
        /\ \A t \in Threads \ {w} : state'[t] = state[t] /\ next_in_queue'[t] = next_in_queue[t]
        /\ state'[w] \in {"READY", Junk} /\ next_in_queue'[w] = u /\ w \in Threads
        /\ \A t \in Threads \ {cpu} : pc'[t] = pc[t] /\ obj'[t] = obj[t]
        /\ cpu' = cpu
    BY <2>1 DEF pthread_create_Enter, Calling, InBase, Fresh, FreshState, Goto,
       CpuTypeOK, LibTypeOK, SyncTypeOK, Threads
  <2>3. "BLOCKED" \notin {"READY", Junk}
    BY DEF ThreadStates
  <2>. QED
    BY <2>1, <2>2, <2>3, CodeQueues DEF NoThread
<1>2. CASE CreateFirst
  <2>1. PICK u \in Uninit :
          next_in_queue' = Fresh(next_in_queue, Main, u) /\ UNCHANGED <<sem, queue>>
    BY <1>2 DEF CreateFirst
  <2>2. /\ head = NULL /\ pc[cpu] = "c_head" /\ pc'[cpu] = "c_fill" /\ cpu' = cpu
        /\ state' = [state EXCEPT ![Main] = "RUNNING"] /\ UNCHANGED obj
        /\ \A t \in Threads \ {cpu} : pc'[t] = pc[t]
    BY <1>2 DEF CreateFirst, pthread_create_First, InBase, Goto, CpuTypeOK
  <2>3. cpu = Main /\ state[Main] = "ABSENT" /\ Main \in Threads
    BY <2>2 DEF HeadShape, BlockInv, CpuState, Threads
  <2>4. /\ \A t \in Threads \ {Main} : state'[t] = state[t] /\ next_in_queue'[t] = next_in_queue[t]
        /\ state'[Main] = "RUNNING" /\ next_in_queue'[Main] = u
    BY <2>1, <2>2, <2>3 DEF Fresh, LibTypeOK, SyncTypeOK
  <2>. QED
    BY <2>1, <2>2, <2>3, <2>4, CodeQueues DEF NoThread
<1>3. CASE CreateFill \/ CreateContext \/ CreateOther
  <2>1. /\ UNCHANGED <<cpu, obj, sem, queue, next_in_queue>>
        /\ \A t \in Threads \ {cpu} : pc'[t] = pc[t]
        /\ pc'[cpu] \notin {"w_call", "w_check"} \/ UNCHANGED <<pc, state>>
    <3>1. CASE CreateOther /\ \E w \in Workers : pthread_create_NoMemory(w)
      <4>1. PICK w \in Workers : pthread_create_NoMemory(w)
        BY <3>1
      <4>. QED
        BY <3>1, <4>1 DEF CreateOther, pthread_create_NoMemory, NextCall
    <3>2. CASE ~(\E w \in Workers : pthread_create_NoMemory(w))
      BY <1>3, <3>2 DEF CreateFill, CreateContext, CreateOther, Goto, CpuTypeOK, CreatePoints,
         pthread_create_Tail, pthread_create_Append, pthread_create_Next, pthread_create_Prev, pthread_create_Fill,
         pthread_create_Ready, pthread_create_Context, pthread_create_Fault, Fault
    <3>. QED
      BY <1>3, <3>1, <3>2 DEF CreateFill, CreateContext, pthread_create_NoMemory, CreateOther
  <2>2. Depth = 0 /\ pc[cpu] \in CreatePoints \cup {"user"} /\ cpu \in Threads
    BY <1>3 DEF CreateFill, CreateContext, CreateOther, InBase, CreatePoints, CpuTypeOK,
       pthread_create_Tail, pthread_create_Append, pthread_create_Next, pthread_create_Prev, pthread_create_Fill,
       pthread_create_Ready, pthread_create_Context, pthread_create_Fault,
       pthread_create_NoMemory, Calling
  <2>3. \/ UNCHANGED state
        \/ pc[cpu] \in CreatePoints /\ state' = [state EXCEPT ![obj[cpu]] = "READY"]
    <3>1. CASE CreateOther /\ pthread_create_Ready
      BY <3>1 DEF pthread_create_Ready, InBase, CreatePoints
    <3>2. CASE ~pthread_create_Ready
      BY <1>3, <3>2 DEF CreateFill, CreateContext, CreateOther,
       pthread_create_Tail, pthread_create_Append, pthread_create_Next, pthread_create_Prev, pthread_create_Fill,
       pthread_create_Context, pthread_create_Fault, pthread_create_NoMemory, Fault
    <3>. QED
      BY <1>3, <3>1, <3>2 DEF CreateFill, CreateContext, pthread_create_Ready,
         pthread_create_Fill, pthread_create_Context, CreateOther
  <2>4. /\ state[cpu] # "BLOCKED"
        /\ pc[cpu] \in CreatePoints =>
             obj[cpu] \in Threads /\ obj[cpu] # cpu /\ pc[obj[cpu]] = "user"
    BY <2>2, Awake DEF ExitPoints, CreatePoints, BlockInv, PcStates
  <2>5. /\ state'[cpu] = state[cpu]
        /\ \A t \in Threads : state'[t] = state[t] \/ pc[t] \notin {"w_call", "w_check"}
    BY <2>2, <2>3, <2>4 DEF LibTypeOK
  <2>. QED
    BY <2>1, <2>4, <2>5, CodeQueues
<1>. QED
  BY <1>1, <1>2, <1>3 DEF pthread_create

LEMMA ExitJoinQueues ==
  ASSUME TypeInv, CurrentInv, BlockInv, Queues, pthread_exit \/ pthread_join
  PROVE  Queues' /\ Served
<1>. USE DEF TypeInv, TypeOK
<1>1. CASE \E v \in Args : pthread_exit_Enter(v)
  <2>1. /\ Depth = 0 /\ pc[cpu] = "user" /\ running # NULL /\ pc'[cpu] = "x_code"
        /\ state' = [state EXCEPT ![running] = "TERMINATED"]
        /\ \A t \in Threads \ {cpu} : pc'[t] = pc[t] /\ obj'[t] = obj[t]
        /\ UNCHANGED <<cpu, sem, queue, next_in_queue>>
    BY <1>1 DEF pthread_exit_Enter, Calling, InBase, Goto, CpuTypeOK
  <2>2. running = cpu /\ state[cpu] # "BLOCKED" /\ cpu \in Threads
    BY <2>1, Awake DEF HeadShape, ExitPoints
  <2>3. \A t \in Threads \ {cpu} : state'[t] = state[t]
    BY <2>1, <2>2 DEF LibTypeOK
  <2>. QED
    BY <2>1, <2>2, <2>3, CodeQueues
<1>2. CASE pthread_exit_Code \/ pthread_exit_Free \/ pthread_join_Read
  <2>1. /\ Depth = 0 /\ pc[cpu] \in {"x_code", "x_free", "j_read"}
        /\ pc'[cpu] \in {"x_wake", "x_spin", "user"}
        /\ \A t \in Threads \ {cpu} : pc'[t] = pc[t]
        /\ UNCHANGED <<cpu, obj, state, sem, queue, next_in_queue>>
    BY <1>2 DEF pthread_exit_Code, pthread_exit_Free, pthread_join_Read, InBase, Goto, CpuTypeOK
  <2>. QED
    BY <2>1, CodeQueues
<1>3. CASE pthread_exit_Wake
  <2>1. /\ Depth = 0 /\ pc[cpu] = "x_wake" /\ pc'[cpu] = "x_free" /\ cpu \in Threads
        /\ join[running] # Junk
        /\ state' = IF join[running] = NULL THEN state
                    ELSE [state EXCEPT ![join[running]] = "READY"]
        /\ \A t \in Threads \ {cpu} : pc'[t] = pc[t]
        /\ UNCHANGED <<cpu, obj, sem, queue, next_in_queue>>
    BY <1>3 DEF pthread_exit_Wake, InBase, Goto, CpuTypeOK
  <2>2. running = cpu
    BY <2>1, Awake
  <2>3. join[cpu] \in Threads => pc[join[cpu]] \in JoinPoints
    BY <2>1 DEF BlockInv, Joined, Joining, Gone
  <2>4. join[cpu] \in Threads \/ UNCHANGED state
    BY <2>1, <2>2 DEF SyncTypeOK, Pointers
  <2>5. \A t \in Threads : state'[t] = state[t] \/ pc[t] \in JoinPoints
    BY <2>1, <2>2, <2>3, <2>4 DEF LibTypeOK
  <2>6. \A t \in Threads \ {cpu} : state'[t] = state[t] \/ pc[t] \notin {"w_call", "w_check"}
    BY <2>5 DEF JoinPoints
  <2>. QED
    BY <2>1, <2>6, CodeQueues
<1>4. CASE \E w \in Workers : pthread_join_Call(w)
  <2>1. PICK w \in Workers : pthread_join_Call(w)
    BY <1>4
  <2>2. /\ Depth = 0 /\ pc[cpu] = "user" /\ pc'[cpu] = "j_call"
        /\ state' = [state EXCEPT ![running] = "BLOCKED"] \/ UNCHANGED state
        /\ \A t \in Threads \ {cpu} : pc'[t] = pc[t] /\ obj'[t] = obj[t]
        /\ UNCHANGED <<cpu, head, sem, queue, next_in_queue>>
        /\ handle[w] # NULL
    BY <2>1 DEF pthread_join_Call, JoinsHandle, Calling, InBase, Goto, CpuTypeOK
  <2>3. running = cpu /\ state[cpu] # "BLOCKED" /\ cpu \in Threads
    BY <2>2, Awake DEF HeadShape, ExitPoints
  <2>4. \A t \in Threads \ {cpu} : state'[t] = state[t]
    BY <2>2, <2>3 DEF LibTypeOK
  <2>. QED
    BY <2>2, <2>3, <2>4, CodeQueues
<1>5. CASE \E w \in Workers : pthread_join_Hang(w)
  BY <1>5, QueuesKept DEF pthread_join_Hang, Waits
<1>6. CASE pthread_join_Schedule
  <2>1. /\ pc[cpu] = "j_call" /\ pc'[cpu] = "j_read"
        /\ \A t \in Threads \ {cpu} : pc'[t] = pc[t]
        /\ UNCHANGED <<cpu, obj, state, sem, queue, next_in_queue>>
    BY <1>6 DEF pthread_join_Schedule, InBase, Goto, CpuTypeOK
  <2>. QED
    BY <2>1, CodeQueues
<1>. QED
  BY <1>1, <1>2, <1>3, <1>4, <1>5, <1>6 DEF pthread_exit, pthread_join

LEMMA SemQueues ==
  ASSUME TypeInv, CurrentInv, BlockInv, Queues, semaphores
  PROVE  Queues' /\ Served
<1>. USE DEF TypeInv, TypeOK
<1>1. CASE \E s \in Sems : sem_init(s) \/ sem_destroy(s)
  BY <1>1, InitDestroyQueues
<1>2. CASE \E s \in Sems : sem_post(s)
  <2>1. PICK s \in Sems : sem_post(s)
    BY <1>2
  <2>2. PICK q \in Seq(Threads) : IsQueue(s, q)
    BY <2>1 DEF sem_post, Queues
  <2>. QED
    BY <2>1, <2>2, PostTakes
<1>3. CASE \E s \in Sems : sem_wait_Block(s)
  <2>1. PICK s \in Sems : sem_wait_Block(s)
    BY <1>3
  <2>2. PICK q \in Seq(Threads) : IsQueue(s, q)
    BY <2>1 DEF sem_wait_Block, Queues
  <2>3. PICK c \in Threads : c = running
    BY <2>1 DEF sem_wait_Block, LibTypeOK
  <2>4. /\ IsQueue(s, Append(q, c))' /\ Queues'
        /\ \A x \in Sems \ {s} : Kept(x)
    BY <2>1, <2>2, <2>3, BlockAppends
  <2>5. Appended(s)
    <3>1. SUFFICES ASSUME NEW y \in Seq(Threads), IsQueue(s, y)
                   PROVE  \E x \in Threads : x = running /\ IsQueue(s, Append(y, x))'
      BY DEF Appended
    <3>2. y = q
      BY <2>2, <3>1, QueueSeqIs DEF SeqIsQueue
    <3>. QED
      BY <2>3, <2>4, <3>2
  <2>. QED
    BY <2>4, <2>5 DEF Served
<1>4. CASE sem_Error \/ \E s \in Sems : sem_wait_Take(s) \/ sem_wait_Negative(s)
  <2>1. UNCHANGED <<cpu, pc, obj, state, sem, queue, next_in_queue>>
    BY <1>4 DEF sem_Error, sem_wait_Take, sem_wait_Negative
  <2>. QED
    BY <2>1, QueuesKept DEF Waits
<1>5. CASE sem_wait_Schedule
  <2>1. /\ pc[cpu] = "w_call" /\ pc'[cpu] = "w_check"
        /\ \A t \in Threads \ {cpu} : pc'[t] = pc[t]
        /\ UNCHANGED <<cpu, obj, state, sem, queue, next_in_queue>>
    BY <1>5 DEF sem_wait_Schedule, InBase, Goto, CpuTypeOK
  <2>. QED
    BY <2>1, QueuesKept DEF Waits
<1>6. CASE sem_wait_Check \/ sem_wait_Load \/ sem_wait_Store
  <2>1. /\ Depth = 0 /\ pc[cpu] \in {"w_check", "w_load", "w_store"}
        /\ pc'[cpu] \in {"w_load", "w_store", "user"}
        /\ \A t \in Threads \ {cpu} : pc'[t] = pc[t]
        /\ UNCHANGED <<cpu, obj, state, sem, queue, next_in_queue>>
    BY <1>6 DEF sem_wait_Check, sem_wait_Load, sem_wait_Store, InBase, Goto, CpuTypeOK
  <2>2. state[cpu] # "BLOCKED"
    BY <2>1, Awake DEF ExitPoints
  <2>. QED
    BY <2>1, <2>2, CodeQueues
<1>. QED
  BY <1>1, <1>2, <1>3, <1>4, <1>5, <1>6 DEF semaphores, sem_wait

(* schedule() leaves the BLOCKED threads BLOCKED, and the others not.      *)
LEMMA ScheduleBlocked ==
  ASSUME TypeInv, BlockInv, schedule(Saved)
  PROVE  \A t \in Threads : state'[t] = "BLOCKED" <=> state[t] = "BLOCKED"
<1>. USE DEF TypeInv, TypeOK
<1>1. CASE schedule_Enter(Saved)
  <2>1. \/ UNCHANGED state
        \/ state' = [state EXCEPT ![running] = IF @ = "RUNNING" THEN "READY" ELSE @]
    BY <1>1 DEF schedule_Enter
  <2>. QED
    BY <2>1 DEF LibTypeOK
<1>2. CASE schedule_Take \/ schedule_Install
  <2>1. /\ state' = [state EXCEPT ![Top.ptr] = "RUNNING"]
        /\ Phase \in {"take", "install"}
    BY <1>2 DEF schedule_Take, schedule_Install, InSchedule, Phase, Depth
  <2>2. state[Top.ptr] \in {"READY", "RUNNING"}
    BY <2>1 DEF BlockInv, ChosenState
  <2>. QED
    BY <2>1, <2>2 DEF LibTypeOK
<1>3. CASE UNCHANGED state
  BY <1>3
<1>. QED
  BY <1>1, <1>2, <1>3 DEF schedule, schedule_Save, schedule_Look, schedule_Scan,
     schedule_Jump, schedule_Fault, Fault

LEMMA ScheduleQueues ==
  ASSUME TypeInv, CurrentInv, BlockInv, Queues, schedule(Saved), UNCHANGED syncVars
  PROVE  Queues' /\ Served
<1>. USE DEF TypeInv, TypeOK
<1>1. UNCHANGED <<pc, obj, sem, queue, next_in_queue>>
  BY DEF schedule, schedule_Enter, schedule_Save, schedule_Look, schedule_Scan,
     schedule_Take, schedule_Install, schedule_Jump, schedule_Fault, Fault
<1>2. \A t \in Threads : state'[t] = "BLOCKED" <=> state[t] = "BLOCKED"
  BY ScheduleBlocked
<1>3. \A t \in Threads : \A s \in Sems : Waits(t, s)' <=> Waits(t, s)
  BY <1>1, <1>2 DEF Waits
<1>. QED
  BY <1>1, <1>3, QueuesKept

(* A tick does not land inside schedule().                                 *)
LEMMA TickInCode ==
  ASSUME Unnested, TypeInv, Interrupt
  PROVE  /\ Depth = 0 /\ head # NULL /\ ~masked /\ pc[cpu] \in TickAt /\ PushSchedule
         /\ UNCHANGED <<status, masked, cpu, pc, ip, obj, tail, handle, libVars, tcbVars, syncVars>>
<1>1. Depth = 0
  <2>1. SUFFICES ASSUME Depth # 0 PROVE FALSE
    OBVIOUS
  <2>2. Depth > 0
    BY <2>1 DEF TypeInv, TypeOK, CpuTypeOK, Depth
  <2>3. Point \in SchedulePoints
    BY <2>2, TopType DEF TypeInv, TypeOK, Point, Frames
  <2>. QED
    BY <2>3 DEF Interrupt, Tick, Unnested
<1>. QED
  BY <1>1 DEF Interrupt, Tick, Point

(* BlockInv and Queues together are inductive.                             *)
LEMMA BlockStep ==
  ASSUME Unnested, TypeInv, CurrentInv, BlockInv, Queues, [Next]_vars
  PROVE  BlockInv' /\ Queues' /\ Served
<1>1. CASE pthread_create
  BY <1>1, CreateBlock, CreateQueues
<1>2. CASE pthread_exit \/ pthread_join
  BY <1>2, ExitBlock, JoinBlock, ExitJoinQueues
<1>3. CASE semaphores
  <2>1. ASSUME NEW s \in Sems, sem_post(s), Wakeable(s) # {}
        PROVE  pc[ToWake(s)] \in WaitPoints
    BY <2>1, WokenWaits DEF sem_post, Waits, WaitPoints
  <2>. QED
    BY <1>3, <2>1, SemBlock, SemQueues
<1>4. CASE schedule(Saved) /\ UNCHANGED syncVars
  BY <1>4, ScheduleBlock, ScheduleQueues
<1>5. CASE Interrupt
  <2>1. /\ Depth = 0 /\ PushSchedule
        /\ UNCHANGED <<cpu, pc, obj, tail, handle, libVars, tcbVars, syncVars>>
    BY <1>5, TickInCode
  <2>2. BlockInv'
    BY <2>1, PushBlock
  <2>. QED
    BY <2>1, <2>2, QueuesKept DEF Waits
<1>6. CASE UNCHANGED <<cpuVars, tail, handle, libVars, tcbVars, syncVars>>
  BY <1>6, StillBlock, QueuesKept DEF Waits
<1>. QED
  BY <1>1, <1>2, <1>3, <1>4, <1>5, <1>6
  DEF Next, Library, Ended, MainReturns, SyncFault, Fault

-----------------------------------------------------------------------------
(* The theorems.                                                           *)

(* pthread_exit does not return.                                           *)
LEMMA ExitForGood ==
  ASSUME TypeInv, [Next]_vars, NEW t \in Threads, pc[t] \in ExitPoints
  PROVE  pc'[t] \in ExitPoints
<1>. USE DEF TypeInv, TypeOK
<1>1. CASE UNCHANGED pc
  BY <1>1
<1>2. CASE \E p : Goto(p) /\ (pc[cpu] \notin ExitPoints \/ p \in ExitPoints)
  BY <1>2 DEF Goto, CpuTypeOK
<1>3. CASE pthread_create
  BY <1>1, <1>2, <1>3 DEF pthread_create, CreateEnter, CreateFirst, CreateFill, CreateContext,
     CreateOther, Calling, InBase, ExitPoints, Fault,
     pthread_create_Enter, pthread_create_First, pthread_create_NoMemory,
     pthread_create_Tail, pthread_create_Append, pthread_create_Next, pthread_create_Prev, pthread_create_Fill,
     pthread_create_Ready, pthread_create_Context, pthread_create_Fault
<1>4. CASE pthread_exit
  BY <1>1, <1>2, <1>4 DEF pthread_exit, ExitPoints, pthread_exit_Enter, pthread_exit_Code,
     pthread_exit_Wake, pthread_exit_Free
<1>5. CASE pthread_join
  BY <1>1, <1>2, <1>5 DEF pthread_join, JoinsHandle, Calling, InBase, ExitPoints,
     pthread_join_Call, pthread_join_Hang, pthread_join_Schedule, pthread_join_Read
<1>6. CASE semaphores
  BY <1>1, <1>2, <1>6 DEF semaphores, sem_wait, Calling, InBase, ExitPoints, sem_init,
     sem_destroy, sem_post, sem_Error, sem_wait_Take, sem_wait_Negative, sem_wait_Block,
     sem_wait_Schedule, sem_wait_Check, sem_wait_Load, sem_wait_Store
<1>7. CASE schedule(Saved)
  BY <1>1, <1>7 DEF schedule, schedule_Enter, schedule_Save, schedule_Look, schedule_Scan,
     schedule_Take, schedule_Install, schedule_Jump, schedule_Fault, Fault
<1>. QED
  BY <1>1, <1>3, <1>4, <1>5, <1>6, <1>7
  DEF Next, Library, Interrupt, Tick, Ended, MainReturns, SyncFault, Fault

(* The invariant of this module.                                           *)
LEMMA BlockAlways ==
  ASSUME Unnested
  PROVE  Spec => [](TypeInv /\ CurrentInv /\ BlockInv /\ Queues)
<1>1. Init => TypeInv /\ CurrentInv /\ BlockInv /\ Queues
  BY TypeInit, CurrentInit, BlockInit, QueuesInit
<1>2. TypeInv /\ CurrentInv /\ BlockInv /\ Queues /\ [Next]_vars
        => TypeInv' /\ CurrentInv' /\ BlockInv' /\ Queues'
  BY TypeStep, CurrentStep, BlockStep
<1>. QED
  BY <1>1, <1>2, PTL DEF Spec

(* If no tick lands inside schedule(), a thread that called pthread_exit   *)
(* is never made READY again, by a post, by another exit or by schedule(). *)
THEOREM TerminatedIsFinalThm == Unnested => (Spec => TerminatedIsFinal)
<1>. SUFFICES ASSUME Unnested PROVE Spec => TerminatedIsFinal
  OBVIOUS
<1>1. Spec => [](TypeInv /\ CurrentInv /\ BlockInv /\ Queues)
  BY BlockAlways
<1>2. ASSUME TypeInv, CurrentInv, BlockInv, Queues, [Next]_vars, BlockInv'
      PROVE  [\A t \in Threads : state[t] = "TERMINATED" => state'[t] = "TERMINATED"]_vars
  <2>1. ASSUME NEW t \in Threads, state[t] = "TERMINATED" PROVE state'[t] = "TERMINATED"
    <3>1. pc[t] \in ExitPoints
      BY <1>2, <2>1 DEF BlockInv, PcStates
    <3>2. pc'[t] \in ExitPoints
      BY <1>2, <3>1, ExitForGood
    <3>. QED
      BY <1>2, <3>2 DEF BlockInv, PcStates
  <2>. QED
    BY <2>1
<1>. QED
  BY <1>1, <1>2, PTL DEF Spec, TerminatedIsFinal

(* The thread schedule() jumps to is one that still has its stack.         *)
LEMMA JumpsToLiveStack ==
  ASSUME TypeInv, CurrentInv, BlockInv, [Next]_vars, NEW t \in Threads,
         stack[t] = "freed", cpu # t
  PROVE  cpu' # t
<1>1. CASE schedule_Jump
  <2>1. /\ Phase = "jump" /\ Top.ptr = running /\ running \in Threads
        /\ context[running].owner \in Threads /\ cpu' = context[running].owner
    BY <1>1 DEF schedule_Jump, InSchedule, Resumable, Phase, CurrentInv, Current,
       TypeInv, TypeOK, LibTypeOK, HeadShape, Depth
  <2>2. context[running] # NoContext
    BY <2>1 DEF NoContext, Threads
  <2>3. cpu' = running
    BY <2>1, <2>2 DEF CurrentInv, OwnContexts
  <2>4. state[running] = "RUNNING"
    BY <2>1 DEF BlockInv, ChosenState
  <2>5. state[t] = "TERMINATED"
    BY DEF BlockInv, Freed
  <2>. QED
    BY <2>3, <2>4, <2>5
<1>2. CASE UNCHANGED cpu
  BY <1>2
<1>3. CASE pthread_create
  BY <1>2, <1>3 DEF pthread_create, CreateEnter, CreateFirst, CreateFill, CreateContext,
     CreateOther, Fault,
     pthread_create_Enter, pthread_create_First, pthread_create_NoMemory,
     pthread_create_Tail, pthread_create_Append, pthread_create_Next, pthread_create_Prev, pthread_create_Fill,
     pthread_create_Ready, pthread_create_Context, pthread_create_Fault
<1>4. CASE pthread_exit \/ pthread_join
  BY <1>2, <1>4 DEF pthread_exit, pthread_exit_Enter, pthread_exit_Code,
     pthread_exit_Wake, pthread_exit_Free, pthread_join,
     pthread_join_Call, pthread_join_Hang, pthread_join_Schedule, pthread_join_Read
<1>5. CASE semaphores
  BY <1>2, <1>5 DEF semaphores, sem_wait, sem_init, sem_destroy, sem_post, sem_Error,
     sem_wait_Take, sem_wait_Negative, sem_wait_Block,
     sem_wait_Schedule, sem_wait_Check, sem_wait_Load, sem_wait_Store
<1>6. CASE schedule(Saved)
  BY <1>1, <1>2, <1>6 DEF schedule, schedule_Enter, schedule_Save, schedule_Look,
     schedule_Scan, schedule_Take, schedule_Install, schedule_Fault, Fault
<1>. QED
  BY <1>2, <1>3, <1>4, <1>5, <1>6
  DEF Next, Library, Interrupt, Tick, Ended, MainReturns, SyncFault, Fault

(* If no tick lands inside schedule(), the CPU never goes back to a stack  *)
(* that pthread_exit has freed.                                            *)
THEOREM NoReturnToFreedStackThm == Unnested => (Spec => NoReturnToFreedStack)
<1>. SUFFICES ASSUME Unnested PROVE Spec => NoReturnToFreedStack
  OBVIOUS
<1>1. Spec => [](TypeInv /\ CurrentInv /\ BlockInv /\ Queues)
  BY BlockAlways
<1>2. ASSUME TypeInv, CurrentInv, BlockInv, Queues, [Next]_vars
      PROVE  [\A t \in Threads : stack[t] = "freed" /\ cpu # t => cpu' # t]_vars
  BY <1>2, JumpsToLiveStack
<1>. QED
  BY <1>1, <1>2, PTL DEF Spec, NoReturnToFreedStack

(* If no tick lands inside schedule(), a semaphore's waiters are queued    *)
(* and woken in the order they called sem_wait.                            *)
THEOREM WakesInOrderThm == Unnested => (Spec => WakesInOrder)
<1>. SUFFICES ASSUME Unnested PROVE Spec => WakesInOrder
  OBVIOUS
<1>1. Spec => [](TypeInv /\ CurrentInv /\ BlockInv /\ Queues)
  BY BlockAlways
<1>2. ASSUME TypeInv, CurrentInv, BlockInv, Queues, [Next]_vars
      PROVE  [\A s \in Sems : sem[s] = "live" /\ QueueSeq(s)' # QueueSeq(s) =>
                \/ QueueSeq(s)' = Append(QueueSeq(s), running)
                \/ QueueSeq(s) # <<>> /\ QueueSeq(s)' = Tail(QueueSeq(s))]_vars
  <2>1. SUFFICES ASSUME NEW s \in Sems, sem[s] = "live", QueueSeq(s)' # QueueSeq(s)
                 PROVE  \/ QueueSeq(s)' = Append(QueueSeq(s), running)
                        \/ QueueSeq(s) # <<>> /\ QueueSeq(s)' = Tail(QueueSeq(s))
    OBVIOUS
  <2>2. PICK q \in Seq(Threads) : IsQueue(s, q)
    BY <1>2, <2>1 DEF Queues
  <2>3. QueueSeq(s) = q
    BY <2>2, QueueSeqIs DEF SeqIsQueue
  <2>4. ASSUME NEW y \in Seq(Threads), IsQueue(s, y)' PROVE QueueSeq(s)' = y
    BY <2>4, QueueSeqIsNext DEF SeqIsQueue
  <2>5. Kept(s) \/ Appended(s) \/ Taken(s)
    BY <1>2, <2>1, BlockStep DEF Served
  <2>6. CASE Kept(s)
    BY <2>1, <2>2, <2>3, <2>4, <2>6 DEF Kept
  <2>7. CASE Appended(s)
    <3>1. PICK c \in Threads : c = running /\ IsQueue(s, Append(q, c))'
      BY <2>2, <2>7 DEF Appended
    <3>2. Append(q, c) \in Seq(Threads)
      OBVIOUS
    <3>. QED
      BY <2>3, <2>4, <3>1, <3>2
  <2>8. CASE Taken(s)
    <3>1. IsQueue(s, q)' \/ (q # <<>> /\ IsQueue(s, Tail(q))')
      BY <2>2, <2>8 DEF Taken
    <3>2. q # <<>> => Tail(q) \in Seq(Threads)
      OBVIOUS
    <3>. QED
      BY <2>1, <2>3, <2>4, <3>1, <3>2
  <2>. QED
    BY <2>5, <2>6, <2>7, <2>8
<1>. QED
  BY <1>1, <1>2, PTL DEF Spec, WakesInOrder

(* malloc hands out zeroed tcbs: over recycled memory next_in_queue, which *)
(* pthread_create does not set, may be junk.                               *)
ZeroedTcbs == Uninit \subseteq {NULL}

(* If moreover tcbs are zeroed, the queue of a live semaphore is a         *)
(* NULL-terminated list of BLOCKED threads, none of them in another's.     *)
THEOREM QueueSoundThm == Unnested /\ ZeroedTcbs => (Spec => []QueueSound)
<1>. SUFFICES ASSUME Unnested, ZeroedTcbs PROVE Spec => []QueueSound
  OBVIOUS
<1>1. Spec => [](TypeInv /\ CurrentInv /\ BlockInv /\ Queues)
  BY BlockAlways
<1>2. ASSUME Queues PROVE QueueSound
  <2>1. SUFFICES ASSUME NEW s \in Sems, sem[s] = "live"
                 PROVE  /\ NULL \in QueueRange(s)
                        /\ \A t \in Queued(s) : state[t] = "BLOCKED"
                        /\ \A r \in Sems \ {s} : sem[r] = "live" =>
                             Queued(r) \cap Queued(s) = {}
    BY DEF QueueSound
  <2>2. ASSUME NEW r \in Sems, sem[r] = "live"
        PROVE  NULL \in QueueRange(r) /\ \A t \in Queued(r) : t \in Threads /\ Waits(t, r)
    <3>1. PICK q \in Seq(Threads) : IsQueue(r, q)
      BY <1>2, <2>2 DEF Queues
    <3>2. QueueEnd(r, q) = NULL
      BY <3>1, QueueNodes DEF NoThread, ZeroedTcbs
    <3>3. \A i \in 1..Len(q) : q[i] \in Threads /\ Waits(q[i], r)
      BY <3>1 DEF IsQueue
    <3>4. QueueEnd(r, q) \in QueueRange(r) /\ Queued(r) = {q[i] : i \in 1..Len(q)}
      BY <3>1, QueueRangeIs
    <3>. QED
      BY <3>2, <3>3, <3>4
  <2>3. ASSUME NEW r \in Sems \ {s}, sem[r] = "live", NEW t \in Queued(r), t \in Queued(s)
        PROVE  FALSE
    <3>1. Waits(t, r) /\ Waits(t, s)
      BY <2>1, <2>2, <2>3
    <3>. QED
      BY <3>1 DEF Waits
  <2>4. \A r \in Sems \ {s} : sem[r] = "live" => Queued(r) \cap Queued(s) = {}
    BY <2>3
  <2>. QED
    BY <2>1, <2>2, <2>4 DEF Waits
<1>. QED
  BY <1>1, <1>2, PTL

-----------------------------------------------------------------------------
(* Stretches of code in which no tick lands.                               *)

(* A thread that stands at one of the points of P has the CPU.             *)
Whole(P) == \A t \in Threads : pc[t] \in P => t = cpu /\ Depth = 0

LEMMA WholeInit ==
  ASSUME Init, NEW P, "user" \notin P
  PROVE  Whole(P)
  BY DEF Init, CoreInit, Whole

LEMMA WholeStep ==
  ASSUME TypeInv, [Next]_vars, NEW P, Whole(P),
         P \cap (TickAt \cup {"user", "j_read", "w_check"}) = {}
  PROVE  Whole(P)'
<1>. USE DEF TypeInv, TypeOK
<1>1. CASE UNCHANGED <<pc, cpu, act>>
  BY <1>1 DEF Whole, Depth
<1>2. CASE /\ Depth = 0 /\ UNCHANGED <<cpu, act>>
           /\ UNCHANGED pc \/ \E p : Goto(p)
  <2>1. \A t \in Threads \ {cpu} : pc'[t] = pc[t]
    BY <1>2 DEF Goto, CpuTypeOK
  <2>. QED
    BY <1>2, <2>1 DEF Whole, Depth
<1>3. CASE /\ UNCHANGED cpu /\ PushSchedule
           /\ \/ UNCHANGED pc /\ Point \in TickAt
              \/ Depth = 0 /\ \E p \in {"j_read", "w_check"} : Goto(p)
  <2>1. ASSUME NEW t \in Threads, pc'[t] \in P PROVE FALSE
    <3>1. CASE UNCHANGED pc /\ Point \in TickAt
      BY <2>1, <3>1 DEF Whole, Point
    <3>2. CASE \E p \in {"j_read", "w_check"} : Goto(p)
      BY <2>1, <3>2 DEF Whole, Goto, CpuTypeOK
    <3>. QED
      BY <1>3, <3>1, <3>2
  <2>. QED
    BY <2>1 DEF Whole
<1>4. CASE UNCHANGED pc /\ Depth > 0
  BY <1>4 DEF Whole
<1>5. CASE pthread_create
  BY <1>1, <1>2, <1>5 DEF pthread_create, CreateEnter, CreateFirst, CreateFill, CreateContext,
     CreateOther, Calling, InBase, Fault,
     pthread_create_Enter, pthread_create_First, pthread_create_NoMemory,
     pthread_create_Tail, pthread_create_Append, pthread_create_Next, pthread_create_Prev, pthread_create_Fill,
     pthread_create_Ready, pthread_create_Context, pthread_create_Fault
<1>6. CASE pthread_exit
  BY <1>2, <1>6 DEF pthread_exit, Calling, InBase, pthread_exit_Enter, pthread_exit_Code,
     pthread_exit_Wake, pthread_exit_Free
<1>7. CASE pthread_join
  BY <1>1, <1>2, <1>3, <1>7 DEF pthread_join, JoinsHandle, Calling, InBase,
     pthread_join_Call, pthread_join_Hang, pthread_join_Schedule, pthread_join_Read
<1>8. CASE semaphores
  BY <1>1, <1>2, <1>3, <1>8 DEF semaphores, sem_wait, Calling, InBase, sem_init,
     sem_destroy, sem_post, sem_Error, sem_wait_Take, sem_wait_Negative, sem_wait_Block,
     sem_wait_Schedule, sem_wait_Check, sem_wait_Load, sem_wait_Store
<1>9. CASE schedule(Saved)
  BY <1>1, <1>4, <1>9 DEF schedule, InSchedule, schedule_Enter, schedule_Save, schedule_Look,
     schedule_Scan, schedule_Take, schedule_Install, schedule_Jump, schedule_Fault, Fault
<1>. QED
  BY <1>1, <1>3, <1>5, <1>6, <1>7, <1>8, <1>9
  DEF Next, Library, Interrupt, Tick, Ended, MainReturns, SyncFault, Fault

(* No tick from pthread_exit's first store to its wake-up of the joiner:   *)
(* the stretch in which a joiner waits for a thread already TERMINATED.    *)
WakingExit == {"x_code", "x_wake"}
WholeExits == TickAt \cap WakingExit = {}

(* If no tick lands inside schedule() or in that stretch, every BLOCKED    *)
(* thread is on record: in the join field of the thread it joins, which    *)
(* has not passed its wake-up, or in the queue of a live semaphore.  That  *)
(* a post will come that takes it from the queue is not claimed.           *)
THEOREM BlockedIsListedThm == Unnested /\ WholeExits => (Spec => []BlockedIsListed)
<1>. SUFFICES ASSUME Unnested, WholeExits PROVE Spec => []BlockedIsListed
  OBVIOUS
<1>1. Spec => [](TypeInv /\ CurrentInv /\ BlockInv /\ Queues)
  BY BlockAlways
<1>2. Init => Whole(WakingExit)
  BY WholeInit DEF WakingExit
<1>3. TypeInv /\ Whole(WakingExit) /\ [Next]_vars => Whole(WakingExit)'
  BY WholeStep DEF WholeExits, WakingExit
<1>4. ASSUME TypeInv, BlockInv, Queues, Whole(WakingExit) PROVE BlockedIsListed
  <2>1. SUFFICES ASSUME NEW t \in Threads, state[t] = "BLOCKED"
                 PROVE  \/ \E u \in Threads :
                             /\ join[u] = t
                             /\ \/ state[u] # "TERMINATED"
                                \/ u = cpu /\ pc[u] \in {"x_code", "x_wake"}
                        \/ \E s \in Sems : sem[s] = "live" /\ t \in Queued(s)
    BY DEF BlockedIsListed
  <2>2. CASE pc[t] \in JoinPoints
    <3>1. obj[t] \in Threads /\ join[obj[t]] = t /\ ~Gone(obj[t])
      BY <1>4, <2>1, <2>2 DEF TypeInv, LocalsShape, BlockInv, Joiners, Joining
    <3>2. state[obj[t]] = "TERMINATED" => pc[obj[t]] \in WakingExit
      BY <1>4, <3>1 DEF BlockInv, PcStates, ExitPoints, Gone, WakingExit
    <3>. QED
      BY <1>4, <3>1, <3>2 DEF Whole, WakingExit
  <2>3. CASE pc[t] \in {"w_call", "w_check"}
    <3>1. obj[t] \in Sems
      BY <1>4, <2>3 DEF TypeInv, LocalsShape, WaitPoints
    <3>2. PICK s \in Sems : Waits(t, s)
      BY <2>1, <2>3, <3>1 DEF Waits
    <3>3. sem[s] = "live"
      BY <1>4, <3>2 DEF Queues
    <3>4. PICK q \in Seq(Threads) : IsQueue(s, q)
      BY <1>4, <3>3 DEF Queues
    <3>5. PICK i \in 1..Len(q) : q[i] = t
      BY <3>2, <3>4 DEF IsQueue
    <3>6. t \in Queued(s)
      BY <3>4, <3>5, QueueRangeIs
    <3>. QED
      BY <3>3, <3>6
  <2>. QED
    BY <1>4, <2>1, <2>2, <2>3 DEF BlockInv, PcStates, JoinPoints
<1>. QED
  BY <1>1, <1>2, <1>3, <1>4, PTL DEF Spec

=============================================================================
