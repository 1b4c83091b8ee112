-------------------------- MODULE MCFileSystemCalls --------------------------
(***************************************************************************)
(* The first MaxCalls calls of clients that keep to no rule: closed and    *)
(* deleted entries keep what they held, which makes the states too many to *)
(* run through all.                                                        *)
(***************************************************************************)
EXTENDS MCFileSystem

CONSTANT MaxCalls
VARIABLE calls

CallsInit == Init /\ calls = 0
CallsNext == Next /\ calls' = calls + 1
CallsSpec == CallsInit /\ [][CallsNext]_<<vars, calls>>
FewCalls  == calls < MaxCalls

(* What decides how the file system goes on.                               *)
State == <<status, memVars, diskVars, calls>>

=============================================================================
