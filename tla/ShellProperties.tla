--------------------------- MODULE ShellProperties ---------------------------
(***************************************************************************)
(* What the shell is meant to guarantee.                                   *)
(***************************************************************************)
EXTENDS Shell

(* Every variable has its type; what a process is given to execute are     *)
(* words, never the marks < > | &.                                         *)
TypeOK ==
  /\ script \in Seq(Seq(Words \cup Marks)) /\ line \in Seq(Words \cup Marks)
  /\ at \in {"prompt", "read", "fork", "wait", "close", "exit", "gone", "crashed"}
  /\ stdin \in {Tty, None} \cup DOMAIN pipes
  /\ pipes \in Seq(0..Capacity) /\ DOMAIN procs = DOMAIN pipes
  /\ \A n \in DOMAIN procs : LET p == procs[n] IN
       /\ p.state \in {"never", "new", "running", "ended", "reaped"}
       /\ p.cmd.args \in Seq(Words) /\ p.cmd.in \in Seq(Words) /\ p.cmd.out \in Seq(Words)
       /\ p.got \in Nat /\ p.put \in Nat
       /\ p.in \in {Tty, File} \cup 1..(n - 1)

(* The processes of the line at hand, and what they do put into words:     *)
(* what their user typed, in full and in order.                            *)
Typed(c) == c.args \o (IF c.in = <<>> THEN <<>> ELSE <<"<">> \o c.in)
                   \o (IF c.out = <<>> THEN <<>> ELSE <<">">> \o c.out)
Mine(n) == procs[n].line = Len(script)
All ==
  LET text[n \in 0..Len(procs)] ==
        IF n = 0 THEN <<>>
        ELSE IF ~Mine(n) THEN text[n-1]
        ELSE text[n-1] \o (IF text[n-1] = <<>> THEN <<>> ELSE <<"|">>) \o Typed(procs[n].cmd)
  IN text[Len(procs)]

(* A line without empty stages that has been run is run as it was typed:   *)
(* every word is an argument or a file of the stage it stands in (lines    *)
(* 114-171, 178-213).                                                      *)
NoEmptyStage == \A n \in DOMAIN commands : commands[n] # <<>>
Text == IF background THEN Front(line) ELSE line
Bare(l) == LET a == IF Head(l) = "|" THEN Tail(l) ELSE l
           IN IF a # <<>> /\ Last(a) = "|" THEN Front(a) ELSE a
RunsWhatWasTyped ==
  at = "prompt" /\ (\E n \in DOMAIN procs : Mine(n)) /\ NoEmptyStage => All = Bare(Text)

(* A stage reads what the stage before it in the same line writes, and the *)
(* first one the terminal or its file: no pipe of another stage or of an   *)
(* earlier line, whatever background lines there are and whichever forks   *)
(* fail.                                                                   *)
Plumbed == \A n \in DOMAIN procs : LET p == procs[n] IN
  IF p.stage = 1 THEN p.in \in {Tty, File}
  ELSE p.in = n - 1 /\ procs[n - 1].line = p.line /\ procs[n - 1].stage = p.stage - 1

(* A foreground stage starts when those before it have ended, and the next *)
(* prompt comes when all have; background processes may go on.             *)
Foreground(n) == ~procs[n].back
ForegroundDone ==
  /\ at \in {"prompt", "read"} => \A n \in DOMAIN procs : Alive(n) => ~Foreground(n)
  /\ \A m, n \in DOMAIN procs : m < n /\ Foreground(m) /\ Alive(m) => ~(Foreground(n) /\ Alive(n))

(* The shell comes back from a stage, unless the stage has filled its pipe *)
(* and the shell, which waits for it, has the only read end.               *)
Stuck == /\ at = "wait"
         /\ pipes[Len(pipes)] = Capacity /\ Readers(Len(pipes)) = {0}
         /\ procs[Len(procs)].state = "running"
ShellComesBack == at = "wait" ~> (at # "wait" \/ Stuck)

(* Every process that was started ends: filters are told the end of their  *)
(* input, and writers that nobody reads do not wait for ever.              *)
ProcessesEnd == \A n \in 1..MaxProcs :
  Alive(n) ~> (~Alive(n) \/ Stuck)

=============================================================================
