----------------------------- MODULE MCThreads2 ------------------------------
(***************************************************************************)
(* A client of the first threading library, for TLC.                       *)
(***************************************************************************)
EXTENDS Threads2Properties, TLC

CONSTANTS w1, w2, w3, w4

MCArgs == {NULL, w1, w2, w3, w4}

Do(o, x) == {[op |-> o, arg |-> x]}

(* main.c, with threads that exit, compute for ever or, once main is done, *)
(* create a thread too; main may end the process or exit like a thread.    *)
MainReturn == Do("return", NULL)
MainProgram ==
  Main :> <<Do("create", w1) \cup Do("exit", NULL),
            Do("create", w2) \cup MainReturn, Do("create", w3) \cup MainReturn,
            MainReturn \cup Do("exit", NULL)>>
  @@ w1 :> <<Do("exit", NULL)>>
  @@ w2 :> <<Do("exit", NULL)>>
  @@ w3 :> <<Do("create", w4), Do("exit", NULL)>>
  @@ w4 :> <<Do("exit", NULL)>>

(* Ticks everywhere but inside schedule() itself.                          *)
OuterTicks == BasePoints

=============================================================================
