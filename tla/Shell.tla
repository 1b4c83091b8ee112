-------------------------------- MODULE Shell --------------------------------
(***************************************************************************)
(* "Take 1", myshell.c: a shell that runs lines like                       *)
(*     a < f | b | c > g &                                                 *)
(* stage by stage: pipe, fork, (in the foreground) waitpid, and then the   *)
(* next stage with the read end as its standard input.  The programs that  *)
(* stages run are external: a filter copies its input, the others write a  *)
(* number of units and end.                                                *)
(*                                                                         *)
(* A line is a sequence of words and marks, a blank after each.  What the  *)
(* shell prints and the contents of files are left out; process n has the  *)
(* pipe n of the loop's fd.                                                *)
(***************************************************************************)
EXTENDS Integers, Sequences, FiniteSets, SequencesExt

CONSTANTS
  Words,        \* programs and files
  Scripts,      \* what users may type: sequences of lines
  Filters,      \* programs that copy their input until its end
  Writes,       \* Writes[w]: units that program w, no filter, writes
  Missing,      \* words that execvp, or open to read, finds nothing for
  Unwritable,   \* files that cannot be written, nor made by O_CREAT
  Capacity,     \* units that a pipe holds
  Breaks,       \* may pipe and fork fail?
  MaxProcs      \* bound: no script has more stages

Marks == {"<", ">", "|", "&"}
Exit  == "exit"

(* Standard inputs that are no pipe: the terminal, a file, none.           *)
Tty  == 0
File == -1
None == -2

ASSUME ShellAssumption ==
  /\ Words \cap Marks = {} /\ Exit \in Words
  /\ Scripts \subseteq Seq(Seq(Words \cup Marks))
  /\ Capacity \in Nat \ {0} /\ Breaks \subseteq BOOLEAN

VARIABLES
  script,       \* the lines still to come
  line,         \* the line at hand (input)
  commands,     \* its stages
  at,           \* where the shell is
  k,            \* the stage it runs (currentCommand, from 1)
  stdin,        \* its standard input: Tty, None, or a pipe
  procs,        \* procs[n]: the process of the n-th fork
  pipes         \* pipes[n]: units in the n-th pipe

shellVars == <<script, line, commands, at, k, stdin>>
vars      == <<shellVars, procs, pipes>>

-----------------------------------------------------------------------------
(* Lines.                                                                  *)
Places(l, m) == {i \in DOMAIN l : l[i] = m}

syntaxCheck_FirstPipe(l) ==
  \/ \E m \in {"<", ">", "&"} : Cardinality(Places(l, m)) > 1
  \/ \E i \in Places(l, "<"), j \in Places(l, "|") \cup Places(l, ">") : i > j
  \/ \E i \in Places(l, ">") : Places(l, "|") # {} /\ \A j \in Places(l, "|") : i < j
  \/ \E i \in Places(l, "&") : i # Len(l)
(* Is there an error?                                                      *)
syntaxCheck(l) ==
  \/ \E m \in {"<", ">", "&"} : Cardinality(Places(l, m)) > 1
  \/ \E i \in Places(l, "<"), j \in Places(l, "|") \cup Places(l, ">") : i > j
  \/ \E i \in Places(l, ">"), j \in Places(l, "|") : i < j
  \/ \E i \in Places(l, "&") : i # Len(l)

background == Places(line, "&") # {}

(* strtok at the pipes: it skips those at the beginning, and one at the    *)
(* end if no blank comes after it; between two there is a blank.           *)
Split(l, m) ==
  LET parts[n \in 0..Len(l)] ==
        IF n = 0 THEN << <<>> >>
        ELSE IF l[n] = m THEN Append(parts[n-1], <<>>)
        ELSE [parts[n-1] EXCEPT ![Len(parts[n-1])] = Append(@, l[n])]
  IN parts[Len(l)]
Commands(l) ==
  LET amp   == l # <<>> /\ Last(l) = "&"
      parts == Split(IF amp THEN Front(l) ELSE l, "|")
      some  == IF Head(parts) = <<>> THEN Tail(parts) ELSE parts
  IN IF some # <<>> /\ Last(some) = <<>> /\ ~amp THEN Front(some) ELSE some

last(n)  == n = Len(commands)

(* strtok returns NULL for the part before or behind a redirection that is *)
(* not there, and removeWhiteSpace dereferences it.                        *)
Lacks(c, m) == m \in {Head(c), Last(c)}
Redirection_OneWord(c, m) ==
  IF m \in ToSet(c)
  THEN LET parts == Split(c, m) IN <<parts[1], IF parts[2] = <<>> THEN <<>> ELSE <<Head(parts[2])>>>>
  ELSE <<c, <<>>>>
Redirection(c, m) == IF m \in ToSet(c) THEN Split(c, m) ELSE <<c, <<>>>>

(* Stage n: its arguments and the files for its input and output.          *)
Stage(n) ==
  LET o == IF last(n) THEN Redirection(commands[n], ">") ELSE <<commands[n], <<>>>>
      i == IF n = 1 THEN Redirection(o[1], "<") ELSE <<o[1], <<>>>>
  IN [args |-> i[1], in |-> i[2], out |-> o[2]]
Crashes(n) == LET c == commands[n] IN
  \/ last(n) /\ ">" \in ToSet(c) /\ Lacks(c, ">")
  \/ n = 1 /\ "<" \in ToSet(c) /\
       Lacks(IF last(n) THEN Redirection(c, ">")[1] ELSE c, "<")

-----------------------------------------------------------------------------
(* Who has the ends of pipe n.                                             *)
Alive(p)   == p \in DOMAIN procs /\ procs[p].state \in {"new", "running"}
Between    == at \in {"wait", "close"}
Writers_Open(n) == {p \in {n} : Alive(p)} \cup (IF at # "gone" THEN {0} ELSE {})
Writers(n) == {p \in {n} : Alive(p)} \cup (IF Between /\ n = Len(pipes) THEN {0} ELSE {})
Readers_Open(n) == {p \in DOMAIN procs : Alive(p) /\ procs[p].in = n}
                   \cup (IF at # "gone" THEN {0} ELSE {})
Readers(n) == {p \in DOMAIN procs : Alive(p) /\ (procs[p].in = n \/ (p = n /\ procs[p].state = "new"))}
              \cup (IF stdin = n \/ (Between /\ n = Len(pipes)) THEN {0} ELSE {})

Init ==
  /\ script \in Scripts
  /\ line = <<>> /\ commands = <<>> /\ at = "prompt" /\ k = 0 /\ stdin = Tty
  /\ procs = <<>> /\ pipes = <<>>

Ends(how) == at' = how /\ stdin' = None /\ UNCHANGED <<script, line, commands, k>>

Prompt_Keeps ==
  /\ at = "prompt"
  /\ at' = "read"
  /\ UNCHANGED <<script, line, commands, k, stdin, procs, pipes>>
Prompt ==
  /\ at = "prompt"
  /\ stdin' = Tty /\ at' = "read"
  /\ UNCHANGED <<script, line, commands, k, procs, pipes>>

fgets ==
  /\ at = "read" /\ script # <<>>
  /\ script' = Tail(script) /\ line' = Head(script) /\ commands' = Commands(Head(script))
  /\ k' = 1
  /\ at' = IF line' = <<Exit>> THEN "exit"
           ELSE IF syntaxCheck(line') \/ commands' = <<>> THEN "prompt"
           ELSE "fork"
  /\ UNCHANGED <<stdin, procs, pipes>>

(* The end of the input, and the word exit.                                *)
exit ==
  /\ at = "exit" \/ (at = "read" /\ script = <<>>)
  /\ Ends("gone")
  /\ UNCHANGED <<procs, pipes>>

(* The shell dies of a redirection without a command or a file.            *)
Parse_Crash ==
  /\ at = "fork" /\ Crashes(k)
  /\ Ends("crashed")
  /\ UNCHANGED <<procs, pipes>>

pipe_Fails ==
  /\ at = "fork" /\ ~Crashes(k) /\ TRUE \in Breaks
  /\ Ends("gone")
  /\ UNCHANGED <<procs, pipes>>

(* After fork the child is "new" and has all that the shell has; when fork *)
(* fails, no process n comes to be, and the shell goes on like a parent.   *)
fork == \E fails \in Breaks :
  /\ at = "fork" /\ ~Crashes(k)
  /\ pipes' = Append(pipes, 0)
  /\ procs' = Append(procs,
       [line |-> Len(script), stage |-> k, cmd |-> Stage(k), back |-> background,
        state |-> IF fails THEN "never" ELSE "new",
        piped |-> ~last(k), in |-> stdin, got |-> 0, put |-> 0])
  /\ at' = IF background THEN "close" ELSE "wait"
  /\ UNCHANGED <<script, line, commands, k, stdin>>

(* waitpid(pid): pid is the child of this stage, or -1 after a fork that   *)
(* failed: any child, and no wait when there is none.                      *)
Children == {p \in DOMAIN procs : procs[p].state \notin {"never", "reaped"}}
Awaited_Any == Children
Awaited == IF procs[Len(procs)].state = "never" THEN Children ELSE {Len(procs)}

waitpid ==
  /\ at = "wait"
  /\ \/ \E p \in Awaited : /\ procs[p].state = "ended"
                           /\ procs' = [procs EXCEPT ![p].state = "reaped"]
     \/ Awaited = {} /\ UNCHANGED procs
  /\ at' = "close"
  /\ UNCHANGED <<script, line, commands, k, stdin, pipes>>

(* The read end becomes the input of the next stage; the ends are closed.  *)
close ==
  /\ at = "close"
  /\ stdin' = IF last(k) THEN stdin ELSE Len(pipes)
  /\ at' = IF last(k) THEN "prompt" ELSE "fork"
  /\ k' = k + 1
  /\ UNCHANGED <<script, line, commands, procs, pipes>>

-----------------------------------------------------------------------------
(* Processes.  A child opens its files and executes its program, or ends.  *)
Runs(c) ==
  /\ Missing \cap ToSet(c.in) = {} /\ Unwritable \cap ToSet(c.out) = {}
  /\ c.args # <<>> /\ Head(c.args) \notin Missing

Child(p) ==
  /\ procs[p].state = "new"
  /\ procs' = [procs EXCEPT
       ![p].state = IF Runs(procs[p].cmd) THEN "running" ELSE "ended",
       ![p].in    = IF procs[p].cmd.in # <<>> THEN File ELSE @]
  /\ UNCHANGED <<shellVars, pipes>>

Program(p) == Head(procs[p].cmd.args)
IsFilter(p) == Program(p) \in Filters
FromPipe(p) == procs[p].in \in DOMAIN pipes

(* A unit that a filter has read and not written.                          *)
ToWrite(p) == procs[p].put < IF IsFilter(p) THEN procs[p].got ELSE Writes[Program(p)]

Write(p) ==
  /\ procs[p].state = "running" /\ ToWrite(p)
  /\ IF ~procs[p].piped THEN procs' = [procs EXCEPT ![p].put = @ + 1] /\ UNCHANGED pipes
     ELSE IF Readers(p) = {}
       THEN procs' = [procs EXCEPT ![p].state = "ended"] /\ UNCHANGED pipes
       ELSE /\ pipes[p] < Capacity
            /\ pipes' = [pipes EXCEPT ![p] = @ + 1]
            /\ procs' = [procs EXCEPT ![p].put = @ + 1]
  /\ UNCHANGED shellVars

Read(p) == LET q == procs[p].in IN
  /\ procs[p].state = "running" /\ IsFilter(p) /\ ~ToWrite(p)
  /\ FromPipe(p) /\ pipes[q] > 0
  /\ pipes' = [pipes EXCEPT ![q] = @ - 1]
  /\ procs' = [procs EXCEPT ![p].got = @ + 1]
  /\ UNCHANGED shellVars

(* The end of the input: a pipe that is empty and without writers.  (Files *)
(* and what is typed for programs count as empty.)                         *)
AtEnd(p) == FromPipe(p) => pipes[procs[p].in] = 0 /\ Writers(procs[p].in) = {}

End(p) ==
  /\ procs[p].state = "running" /\ ~ToWrite(p)
  /\ IsFilter(p) => AtEnd(p)
  /\ procs' = [procs EXCEPT ![p].state = "ended"]
  /\ UNCHANGED <<shellVars, pipes>>

Shell == Prompt \/ exit \/ Parse_Crash \/ pipe_Fails \/ fork \/ waitpid \/ close
Process(p) == Child(p) \/ Write(p) \/ Read(p) \/ End(p)

Next ==
  \/ Shell \/ fgets
  \/ \E p \in DOMAIN procs : Process(p)

(* The system schedules the shell and every process again and again; users *)
(* need not type.                                                          *)
Fairness ==
  /\ WF_vars(Shell)
  /\ \A p \in 1..MaxProcs : WF_vars(p \in DOMAIN procs /\ Process(p))

Spec == Init /\ [][Next]_vars /\ Fairness

=============================================================================
