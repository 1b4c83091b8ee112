----------------------------- MODULE ThreadCore -----------------------------
(***************************************************************************)
(* The core of the user-level threading library: the ring of thread        *)
(* control blocks, pthread_create and the SIGALRM-driven schedule().       *)
(* One CPU executes one stack at a time; a timer tick may push a call of   *)
(* schedule() on that stack at any program point where SIGALRM is not      *)
(* blocked (the handler is installed with SA_NODEFER and an empty mask, so *)
(* that includes the points inside schedule() itself).                     *)
(*                                                                         *)
(* A step of this module is a stretch of code without a point at which     *)
(* another thread, run by a tick in between, could tell the difference.    *)
(***************************************************************************)
EXTENDS Integers, Sequences, FiniteSets

CONSTANTS
  Main,         \* the tcb of the main thread, allocated by the first create
  Workers,      \* the tcbs (and threads) that pthread_create can allocate
  NULL,         \* the null pointer
  Junk,         \* what an uninitialised field of recycled heap memory holds
  Args,         \* the arguments client code passes to the library
  Program,      \* Program[t][i]: the calls thread t may make as its i-th call
  TickAt,       \* the program points at which a timer tick may land
  MaxDepth,     \* bound: activations of schedule() on one stack
  Uninit,       \* what malloc leaves in a fresh tcb: NULL (zero), Junk or both
  MallocFails   \* may malloc return NULL?

Threads == Workers \cup {Main}

Ops == {"create", "join", "exit", "return", "init", "wait", "post", "destroy"}
Call == [op : Ops, arg : Args]

(* Program points at which the CPU can stand between two steps.            *)
SchedulePoints == {"enter", "save", "look", "scan", "take", "install", "jump"}
CreatePoints   == {"c_head", "c_tail", "c_next", "c_prev", "c_fill", "c_ready", "c_context"}
ExitPoints     == {"x_code", "x_wake", "x_free", "x_spin"}
JoinPoints     == {"j_call", "j_read"}
WaitPoints     == {"w_call", "w_check", "w_load", "w_store"}
BasePoints     == {"user"} \cup CreatePoints \cup ExitPoints
                           \cup JoinPoints \cup WaitPoints
Points         == BasePoints \cup SchedulePoints

(* enum ThreadState, and no tcb allocated yet.                             *)
ThreadStates == {"ABSENT", "READY", "RUNNING", "BLOCKED", "TERMINATED"}

ASSUME CoreAssumption ==
  /\ IsFiniteSet(Workers) /\ Main \notin Workers
  /\ {NULL, Junk} \cap Threads = {}
  /\ NULL # Junk /\ Junk \notin Nat \cup ThreadStates
  /\ NULL \notin Nat /\ {NULL, Junk} \cap {"live", "freed"} = {}
  /\ MaxDepth \in Nat \ {0}
  /\ TickAt \subseteq Points
  /\ Uninit \subseteq {NULL, Junk}
  /\ MallocFails \in BOOLEAN
  /\ Program \in [Threads -> Seq(SUBSET Call)]

VARIABLES
  status,       \* "up", or how the process ended
  masked,       \* is SIGALRM in the process's signal mask?
  cpu,          \* whose stack the CPU is executing
  pc,           \* pc[t]: where the code below any schedule() call on t's stack is
  act,          \* act[t]: the activations of schedule() on t's stack
  ip,           \* ip[t]: index of the next call of t's program
  obj,          \* obj[t]: the local the library call in progress works on
  tail,         \* tail[t]: pthread_create's local of that name
  handle,       \* handle[w]: the pthread_t the client got for w
  head, running, gCurrent, id,            \* the library's globals
  state, tid, next, prev, context         \* fields of struct tcb

cpuVars == <<cpu, pc, act, ip, obj>>
libVars == <<head, running, gCurrent, id>>
tcbVars == <<state, tid, next, prev, context>>
coreVars == <<status, masked, cpuVars, tail, handle, libVars, tcbVars>>

NoContext == [owner |-> NULL, depth |-> 0]
Frame(p)  == [at |-> p, ptr |-> NULL, end |-> NULL]

(* pthread_create builds a jmp_buf by hand as if the new thread had called *)
(* schedule() and would return from it into start_thunk.                   *)
Thunk == Frame("jump")

(* What the fields of a tcb fresh from malloc read as; READY is the enum   *)
(* value 0.                                                                *)
FreshState(u) == IF u = NULL THEN "READY" ELSE Junk
FreshTid(u)   == IF u = NULL THEN 0 ELSE Junk

CoreInit ==
  /\ status = "up" /\ masked = FALSE
  /\ cpu = Main
  /\ pc = [t \in Threads |-> "user"]
  /\ act = [t \in Threads |-> IF t = Main THEN <<>> ELSE <<Thunk>>]
  /\ ip = [t \in Threads |-> 1]
  /\ obj = [t \in Threads |-> NULL]
  /\ tail = [t \in Threads |-> NULL]
  /\ handle = [w \in Workers |-> NULL]
  /\ head = NULL /\ running = NULL /\ gCurrent = 0 /\ id = 0
  /\ state = [t \in Threads |-> "ABSENT"]
  /\ tid = [t \in Threads |-> 0]
  /\ next = [t \in Threads |-> NULL]
  /\ prev = [t \in Threads |-> NULL]
  /\ context = [t \in Threads |-> NoContext]

-----------------------------------------------------------------------------
(* Where the CPU is.                                                       *)
Depth == Len(act[cpu])
Top   == act[cpu][Depth]
InBase(p)     == status = "up" /\ Depth = 0 /\ pc[cpu] = p
InSchedule(p) == status = "up" /\ Depth > 0 /\ Top.at = p
Point         == IF Depth = 0 THEN pc[cpu] ELSE Top.at

Goto(p)    == pc' = [pc EXCEPT ![cpu] = p]
SetTop(f)  == act' = [act EXCEPT ![cpu] = [@ EXCEPT ![Depth] = f]]
PushSchedule == act' = [act EXCEPT ![cpu] = Append(@, Frame("enter"))]

(* The client code on the CPU makes its next call.                         *)
Calling(o, a) ==
  /\ InBase("user")
  /\ ip[cpu] <= Len(Program[cpu])
  /\ [op |-> o, arg |-> a] \in Program[cpu][ip[cpu]]
NextCall == ip' = [ip EXCEPT ![cpu] = @ + 1]

(* The address the process would have to read or jump to is not one.       *)
Fault ==
  /\ status' = "wild"
  /\ UNCHANGED <<masked, cpuVars, tail, handle, libVars, tcbVars>>

-----------------------------------------------------------------------------
(* SIGALRM: ualarm is armed by the first pthread_create.                   *)
Tick ==
  /\ status = "up"
  /\ head # NULL
  /\ ~masked
  /\ Point \in TickAt
  /\ Depth < MaxDepth
  /\ PushSchedule
  /\ UNCHANGED <<status, masked, cpu, pc, ip, obj, tail, handle, libVars, tcbVars>>

(* Slips a change of schedule() or pthread_create could make; each breaks a*)
(* property of ThreadsProperties.                                          *)
schedule_Enter_AlwaysReady(saves) ==     \* the state test forgotten
  /\ InSchedule("enter")
  /\ state' = [state EXCEPT ![running] = "READY"]
  /\ SetTop(Frame("save"))
  /\ UNCHANGED <<status, masked, cpu, pc, ip, obj, tail, handle, libVars,
                 tid, next, prev, context>>

schedule_Enter_StaysRunning(saves) ==    \* running->state = READY forgotten
  /\ InSchedule("enter")
  /\ SetTop(Frame(IF state[running] \in saves THEN "save" ELSE "look"))
  /\ UNCHANGED <<status, masked, cpu, pc, ip, obj, tail, handle, libVars, tcbVars>>

schedule_Look_FromHead ==                \* not staggered: starts at head
  /\ InSchedule("look")
  /\ SetTop([at |-> "scan", ptr |-> head, end |-> head])
  /\ UNCHANGED <<status, masked, cpu, pc, ip, obj, tail, handle, libVars, tcbVars>>

schedule_Scan_SkipsRunning ==            \* gives up before the running thread
  /\ InSchedule("scan")
  /\ IF state[Top.ptr] = "READY"
       THEN SetTop([Top EXCEPT !.at = "take"]) /\ UNCHANGED status
       ELSE IF next[Top.ptr] = running
              THEN status' = "exit0" /\ UNCHANGED act
              ELSE SetTop([Top EXCEPT !.ptr = next[Top.ptr]]) /\ UNCHANGED status
  /\ UNCHANGED <<masked, cpu, pc, ip, obj, tail, handle, libVars, tcbVars>>

schedule_Take_Pointer ==                 \* gCurrent set to the tcb, not its tid
  /\ InSchedule("take")
  /\ state' = [state EXCEPT ![Top.ptr] = "RUNNING"]
  /\ gCurrent' = Top.ptr
  /\ SetTop([Top EXCEPT !.at = "install"])
  /\ UNCHANGED <<status, masked, cpu, pc, ip, obj, tail, handle, head, running, id,
                 tid, next, prev, context>>

schedule_Install_KeepsRunning ==         \* running = ready forgotten
  /\ InSchedule("install")
  /\ state' = [state EXCEPT ![Top.ptr] = "RUNNING"]
  /\ SetTop([Top EXCEPT !.at = "jump"])
  /\ UNCHANGED <<status, masked, cpu, pc, ip, obj, tail, handle, libVars,
                 tid, next, prev, context>>

pthread_create_Enter_SameId(w, u) ==     \* id++ forgotten
  /\ Calling("create", w) /\ state[w] = "ABSENT"
  /\ NextCall
  /\ state' = [state EXCEPT ![w] = FreshState(u)]
  /\ tid' = [tid EXCEPT ![w] = FreshTid(u)]
  /\ next' = [next EXCEPT ![w] = u]
  /\ prev' = [prev EXCEPT ![w] = u]
  /\ obj' = [obj EXCEPT ![cpu] = w]
  /\ Goto("c_head")
  /\ UNCHANGED <<status, masked, cpu, act, tail, handle, libVars, context>>

pthread_create_Prev_NoLink ==            \* head->prev = thisThread forgotten
  /\ InBase("c_prev")
  /\ Goto("c_fill")
  /\ UNCHANGED <<status, masked, cpu, act, ip, obj, tail, handle, libVars, tcbVars>>

(* schedule(), statement by statement. saves is the set of states in which *)
(* the running thread's context is saved.                                  *)
schedule_Enter(saves) ==
  /\ InSchedule("enter")
  /\ IF state[running] \in saves
       THEN /\ state' = [state EXCEPT ![running] =
                           IF @ = "RUNNING" THEN "READY" ELSE @]
            /\ SetTop(Frame("save"))
       ELSE /\ SetTop(Frame("look"))
            /\ UNCHANGED state
  /\ UNCHANGED <<status, masked, cpu, pc, ip, obj, tail, handle, libVars,
                 tid, next, prev, context>>

schedule_Save ==      \* setjmp(running->context)
  /\ InSchedule("save")
  /\ context' = [context EXCEPT ![running] = [owner |-> cpu, depth |-> Depth]]
  /\ SetTop(Frame("look"))
  /\ UNCHANGED <<status, masked, cpu, pc, ip, obj, tail, handle, libVars,
                 state, tid, next, prev>>

schedule_Look ==
  /\ InSchedule("look")
  /\ SetTop([at |-> "scan", ptr |-> next[running], end |-> next[running]])
  /\ UNCHANGED <<status, masked, cpu, pc, ip, obj, tail, handle, libVars, tcbVars>>

schedule_Scan ==
  /\ InSchedule("scan")
  /\ Top.ptr \in Threads
  /\ IF state[Top.ptr] = "READY"
       THEN SetTop([Top EXCEPT !.at = "take"]) /\ UNCHANGED status
       ELSE IF next[Top.ptr] = Top.end
              THEN status' = "exit0" /\ UNCHANGED act
              ELSE SetTop([Top EXCEPT !.ptr = next[Top.ptr]]) /\ UNCHANGED status
  /\ UNCHANGED <<masked, cpu, pc, ip, obj, tail, handle, libVars, tcbVars>>

schedule_Take ==      \* ready->state = RUNNING; gCurrent = ready->tid
  /\ InSchedule("take")
  /\ state' = [state EXCEPT ![Top.ptr] = "RUNNING"]
  /\ gCurrent' = tid[Top.ptr]
  /\ SetTop([Top EXCEPT !.at = "install"])
  /\ UNCHANGED <<status, masked, cpu, pc, ip, obj, tail, handle, head, running, id,
                 tid, next, prev, context>>

schedule_Install ==   \* ready->state = RUNNING; running = ready
  /\ InSchedule("install")
  /\ state' = [state EXCEPT ![Top.ptr] = "RUNNING"]
  /\ running' = Top.ptr
  /\ SetTop([Top EXCEPT !.at = "jump"])
  /\ UNCHANGED <<status, masked, cpu, pc, ip, obj, tail, handle, head, gCurrent, id,
                 tid, next, prev, context>>

(* A jmp_buf is good while the activation that filled it is on its stack.  *)
Resumable(t) ==
  LET c == context[t]
  IN  c.owner \in Threads /\ c.depth \in 1..Len(act[c.owner])

(* longjmp(ready->context, 1): setjmp returns 1 and its schedule() returns *)
(* at once.  That activation and those above it are gone, and with them    *)
(* every jmp_buf that one of them filled, whatever comes to be in their    *)
(* place on the stack.                                                     *)
schedule_Jump ==
  /\ InSchedule("jump")
  /\ Resumable(Top.ptr)
  /\ LET c == context[Top.ptr]
     IN  /\ cpu' = c.owner
         /\ act' = [act EXCEPT ![c.owner] = SubSeq(@, 1, c.depth - 1)]
         /\ context' = [t \in Threads |->
              IF context[t].owner = c.owner /\ context[t].depth >= c.depth
              THEN NoContext ELSE context[t]]
  /\ UNCHANGED <<status, masked, pc, ip, obj, tail, handle, libVars,
                 state, tid, next, prev>>

schedule_Fault ==
  \/ InSchedule("scan") /\ Top.ptr \notin Threads /\ Fault
  \/ InSchedule("jump") /\ ~Resumable(Top.ptr) /\ Fault

schedule(saves) ==
  \/ schedule_Enter(saves) \/ schedule_Save \/ schedule_Look \/ schedule_Scan
  \/ schedule_Take \/ schedule_Install \/ schedule_Jump \/ schedule_Fault

-----------------------------------------------------------------------------
(* pthread_create, between whose stores a tick may land.  id++ is one step:*)
(* the duplicate ids of a torn increment also come from reading id late.   *)
pthread_create_Enter(w, u) ==
  /\ Calling("create", w) /\ state[w] = "ABSENT"
  /\ NextCall
  /\ id' = id + 1
  /\ state' = [state EXCEPT ![w] = FreshState(u)]
  /\ tid' = [tid EXCEPT ![w] = FreshTid(u)]
  /\ next' = [next EXCEPT ![w] = u]
  /\ prev' = [prev EXCEPT ![w] = u]
  /\ obj' = [obj EXCEPT ![cpu] = w]
  /\ Goto("c_head")
  /\ UNCHANGED <<status, masked, cpu, act, tail, handle, head, running, gCurrent, context>>

(* The id is used up all the same.                                         *)
pthread_create_NoMemory(w) ==
  /\ MallocFails
  /\ Calling("create", w)
  /\ NextCall
  /\ id' = id + 1
  /\ UNCHANGED <<status, masked, cpu, pc, act, obj, tail, handle,
                 head, running, gCurrent, tcbVars>>

(* The first call makes the main thread's tcb and arms the timer.          *)
pthread_create_First ==
  /\ InBase("c_head") /\ head = NULL
  /\ LET w == obj[cpu] IN
       /\ head' = Main /\ running' = Main /\ gCurrent' = 0
       /\ state' = [state EXCEPT ![Main] = "RUNNING"]
       /\ tid' = [tid EXCEPT ![Main] = 0]
       /\ next' = [next EXCEPT ![Main] = w, ![w] = Main]
       /\ prev' = [prev EXCEPT ![Main] = w, ![w] = Main]
  /\ Goto("c_fill")
  /\ UNCHANGED <<status, masked, cpu, act, ip, obj, tail, handle, id, context>>

(* Later calls append the tcb before head: a load of head->prev and three  *)
(* stores.  Two creators that load the same tail lose one of the tcbs.     *)
pthread_create_Tail ==
  /\ InBase("c_head") /\ head # NULL
  /\ tail' = [tail EXCEPT ![cpu] = prev[head]]
  /\ Goto("c_tail")
  /\ UNCHANGED <<status, masked, cpu, act, ip, obj, handle, libVars, tcbVars>>

pthread_create_Append ==
  /\ InBase("c_tail")
  /\ next' = [next EXCEPT ![tail[cpu]] = obj[cpu]]
  /\ prev' = [prev EXCEPT ![obj[cpu]] = tail[cpu]]
  /\ tail' = [tail EXCEPT ![cpu] = NULL]
  /\ Goto("c_next")
  /\ UNCHANGED <<status, masked, cpu, act, ip, obj, handle, libVars,
                 state, tid, context>>

pthread_create_Next ==
  /\ InBase("c_next")
  /\ next' = [next EXCEPT ![obj[cpu]] = head]
  /\ Goto("c_prev")
  /\ UNCHANGED <<status, masked, cpu, act, ip, obj, tail, handle, libVars,
                 state, tid, prev, context>>

pthread_create_Prev ==
  /\ InBase("c_prev")
  /\ prev' = [prev EXCEPT ![head] = obj[cpu]]
  /\ Goto("c_fill")
  /\ UNCHANGED <<status, masked, cpu, act, ip, obj, tail, handle, libVars,
                 state, tid, next, context>>

pthread_create_Fill ==
  /\ InBase("c_fill")
  /\ tid' = [tid EXCEPT ![obj[cpu]] = id]
  /\ Goto("c_ready")
  /\ UNCHANGED <<status, masked, cpu, act, ip, obj, tail, handle, libVars,
                 state, next, prev, context>>

(* The handle is id again, not the tid just stored.                        *)
pthread_create_Ready ==
  /\ InBase("c_ready")
  /\ state' = [state EXCEPT ![obj[cpu]] = "READY"]
  /\ handle' = [handle EXCEPT ![obj[cpu]] = id]
  /\ Goto("c_context")
  /\ UNCHANGED <<status, masked, cpu, act, ip, obj, tail, libVars, tid, next, prev, context>>

pthread_create_Context ==
  /\ InBase("c_context")
  /\ context' = [context EXCEPT ![obj[cpu]] = [owner |-> obj[cpu], depth |-> 1]]
  /\ Goto("user")
  /\ UNCHANGED <<status, masked, cpu, act, ip, obj, tail, handle, libVars,
                 state, tid, next, prev>>

(* Neither the main tcb's malloc nor the stack's is checked for NULL.      *)
pthread_create_Fault ==
  /\ MallocFails
  /\ \/ InBase("c_head") /\ head = NULL
     \/ InBase("c_context")
  /\ Fault

pthread_self == gCurrent

(* main returns: the process ends with every thread in it.                 *)
MainReturns ==
  /\ Calling("return", NULL)
  /\ cpu = Main
  /\ status' = "returned"
  /\ UNCHANGED <<masked, cpuVars, tail, handle, libVars, tcbVars>>

-----------------------------------------------------------------------------
(* The types of the variables.                                             *)
Pointers == Threads \cup {NULL, Junk}
Frames   == {f \in [at : SchedulePoints, ptr : Pointers, end : Pointers] :
               f.at \in {"take", "install"} => f.ptr \in Threads}
Contexts == [owner : Threads \cup {NULL}, depth : Nat]
TcbStates   == ThreadStates \cup {Junk}

CpuTypeOK ==
  /\ status \in {"up", "exit0", "returned", "hung", "wild"}
  /\ masked \in BOOLEAN
  /\ cpu \in Threads
  /\ pc \in [Threads -> BasePoints]
  /\ act \in [Threads -> Seq(Frames)]
  /\ ip \in [Threads -> Nat]
  /\ obj \in [Threads -> Threads \cup Args \cup {NULL}]

LibTypeOK ==
  /\ tail \in [Threads -> Pointers]
  /\ handle \in [Workers -> Nat \cup {NULL}]
  /\ head \in {NULL, Main} /\ running \in Threads \cup {NULL}
  /\ gCurrent \in Nat \cup {Junk} /\ id \in Nat
  /\ state \in [Threads -> TcbStates]
  /\ tid \in [Threads -> Nat \cup {Junk}]
  /\ next \in [Threads -> Pointers]
  /\ prev \in [Threads -> Pointers]
  /\ context \in [Threads -> Contexts]

=============================================================================
