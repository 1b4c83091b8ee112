----------------------------- MODULE MCThreads ------------------------------
(***************************************************************************)
(* Client programs of the threading library, and the sets of program       *)
(* points at which the timer may tick, for TLC.                            *)
(***************************************************************************)
EXTENDS ThreadsProperties, TLC

CONSTANTS w1, w2, w3, s1, a, b

MCArgs == {NULL, w1, w2, w3, s1, a, b}

Do(o, x) == {[op |-> o, arg |-> x]}

NoSems == <<>>
Empty  == s1 :> 0

(* As in test-threads.c, main creates threads, joins them and returns.     *)
(* Between it and them, one consumer and two producers share a semaphore,  *)
(* and a producer creates the other.                                       *)
JoinProgram ==
  Main :> <<Do("init", s1), Do("create", w1), Do("create", w2),
            Do("join", w1), Do("join", w2), Do("destroy", s1), Do("return", NULL)>>
  @@ w1 :> <<Do("wait", s1), Do("wait", s1), Do("exit", a)>>
  @@ w2 :> <<Do("create", w3), Do("post", s1), Do("exit", b)>>
  @@ w3 :> <<Do("post", s1), Do("exit", a)>>

(* Two waiters, three tokens posted for three waits.  Main returns early   *)
(* when it has no thread to join.                                          *)
WaitersProgram ==
  Main :> <<Do("init", s1), Do("create", w1), Do("create", w2),
            Do("post", s1), Do("post", s1), Do("post", s1),
            Do("join", w1) \cup Do("return", NULL),
            Do("join", w2) \cup Do("return", NULL), Do("return", NULL)>>
  @@ w1 :> <<Do("wait", s1), Do("wait", s1), Do("exit", a)>>
  @@ w2 :> <<Do("wait", s1), Do("exit", b)>>

(* Clients that use the library in every order.  Main and w1 may be in     *)
(* pthread_create at once, each with a tcb of its own.                     *)
AnySem == {[op |-> o, arg |-> s1] : o \in {"wait", "post", "destroy"}}
AnyProgram ==
  Main :> <<Do("init", s1) \cup Do("exit", a), Do("create", w1), Do("create", w2),
            AnySem, Do("join", w2) \cup Do("return", NULL)>>
  @@ w1 :> <<Do("wait", s1) \cup Do("create", w3)>>
  @@ w2 :> <<Do("wait", s1) \cup Do("exit", b), Do("wait", s1)>>
  @@ w3 :> <<>>

(* Main and a thread it has created create a thread each.                  *)
CreatorsProgram ==
  Main :> <<Do("create", w1), Do("create", w2), Do("return", NULL)>>
  @@ w1 :> <<Do("create", w3), Do("exit", a)>>
  @@ w2 :> <<Do("exit", b)>>
  @@ w3 :> <<Do("exit", a)>>

(* One thread besides main.                                                *)
PairProgram ==
  Main :> <<Do("create", w1), Do("join", w1), Do("return", NULL)>>
  @@ w1 :> <<Do("exit", a)>>

-----------------------------------------------------------------------------
(* Ticks where nothing of the library's is half done.                      *)
QuietTicks ==
  BasePoints \ (CreatePoints \cup {"x_code", "x_wake", "w_load", "w_store"})

(* Quiet ticks, and ticks inside pthread_create.                           *)
CreateTicks == QuietTicks \cup CreatePoints

(* Ticks everywhere but inside schedule() itself.                          *)
OuterTicks == BasePoints

(* Quiet ticks, and ticks inside schedule().                               *)
NestedTicks == QuietTicks \cup SchedulePoints

=============================================================================
