------------------------------ MODULE ShellProof ------------------------------
(***************************************************************************)
(* Theorems about the shell, for all programs, scripts and pipes: how its  *)
(* stages are connected, that it waits for them, and that it runs what was *)
(* typed.                                                                  *)
(***************************************************************************)
EXTENDS ShellProperties, SequenceTheorems, NaturalsInduction, WellFoundedInduction,
        FiniteSetTheorems, TLAPS

-----------------------------------------------------------------------------
(* Sequences of anything.                                                  *)
IsSeq(s) == \E S : s \in Seq(S)

LEMMA SeqDomain ==
  ASSUME NEW s, IsSeq(s)
  PROVE  Len(s) \in Nat /\ DOMAIN s = 1..Len(s)
  BY DEF IsSeq

LEMMA Appended ==
  ASSUME NEW s, IsSeq(s), NEW e
  PROVE  /\ IsSeq(Append(s, e))
         /\ Len(Append(s, e)) = Len(s) + 1
         /\ \A i \in 1..Len(s) : Append(s, e)[i] = s[i]
         /\ Append(s, e)[Len(s) + 1] = e
<1>1. PICK S : s \in Seq(S)
  BY DEF IsSeq
<1>2. s \in Seq(S \cup {e}) /\ e \in S \cup {e}
  BY <1>1
<1>. HIDE DEF IsSeq
<1>3. Append(s, e) \in Seq(S \cup {e})
  BY <1>2
<1>4. IsSeq(Append(s, e))
  BY <1>3 DEF IsSeq
<1>. QED
  BY <1>2, <1>4

LEMMA Updated ==
  ASSUME NEW s, IsSeq(s), NEW p \in DOMAIN s, NEW e
  PROVE  /\ IsSeq([s EXCEPT ![p] = e])
         /\ Len([s EXCEPT ![p] = e]) = Len(s)
<1>1. PICK S : s \in Seq(S)
  BY DEF IsSeq
<1>. DEFINE T == S \cup {e}
            t == [s EXCEPT ![p] = e]
<1>2. s \in [1..Len(s) -> T] /\ Len(s) \in Nat /\ e \in T
  BY <1>1
<1>3. t \in [1..Len(s) -> T]
  BY <1>2
<1>4. t \in Seq(T) /\ Len(t) = Len(s)
  BY <1>2, <1>3
<1>. QED
  BY <1>4 DEF IsSeq

-----------------------------------------------------------------------------
(* The inductive invariant.                                                *)

(* A process has its fields, and only first stages have a file for input.  *)
IsProcess(p) ==
  /\ p = [line |-> p.line, stage |-> p.stage, cmd |-> p.cmd, back |-> p.back,
          state |-> p.state, piped |-> p.piped, in |-> p.in, got |-> p.got, put |-> p.put]
  /\ p.stage # 1 => p.cmd.in = <<>>

(* There is a pipe for every process, and the first process is the first   *)
(* stage of its line.                                                      *)
Shape ==
  /\ IsSeq(procs) /\ IsSeq(pipes) /\ Len(pipes) = Len(procs)
  /\ \A n \in DOMAIN procs : IsProcess(procs[n]) /\ (n = 1 => procs[n].stage = 1)

(* The process of stage s of the line at hand is the last one.             *)
Latest(s) ==
  /\ Len(procs) # 0
  /\ procs[Len(procs)].line = Len(script) /\ procs[Len(procs)].stage = s

(* What the next stage is given to read.                                   *)
Connected ==
  /\ k \in Nat
  /\ at = "read" => stdin = Tty
  /\ at = "fork" => k >= 1 /\ IF k = 1 THEN stdin = Tty
                              ELSE stdin = Len(procs) /\ Latest(k - 1)
  /\ Between => k >= 1 /\ Latest(k)

(* The shell waits for the last process or there is nobody to wait for.    *)
Waited == \A n \in DOMAIN procs :
  Foreground(n) /\ Alive(n) => at = "wait" /\ n = Len(procs)

Inv == Shape /\ Connected /\ Plumbed /\ Waited

LEMMA InitInv == Init => Inv
<1>1. ASSUME Init PROVE IsSeq(procs) /\ IsSeq(pipes) /\ Len(pipes) = Len(procs) /\ DOMAIN procs = {}
  <2>1. procs \in Seq({}) /\ pipes \in Seq({}) /\ procs = <<>> /\ pipes = <<>>
    BY <1>1 DEF Init
  <2>. QED
    BY <2>1 DEF IsSeq
<1>. QED
  BY <1>1 DEF Inv, Init, Shape, Connected, Plumbed, Waited, Between

-----------------------------------------------------------------------------
(* A process that goes on or ends, or opens its input, and what becomes of *)
(* the others: nothing.                                                    *)
LEMMA OneChanged ==
  ASSUME Inv,
         NEW p \in DOMAIN procs, NEW e, procs' = [procs EXCEPT ![p] = e],
         IsProcess(e), e.line = procs[p].line, e.stage = procs[p].stage,
         e.back = procs[p].back,
         e.in = procs[p].in \/ (e.in = File /\ e.stage = 1),
         e.state \in {"new", "running"} => Alive(p),
         IsSeq(pipes'), Len(pipes') = Len(pipes)
  PROVE  /\ Shape' /\ Plumbed'
         /\ Len(procs') = Len(procs) /\ DOMAIN procs' = DOMAIN procs
         /\ \A n \in DOMAIN procs :
              /\ procs'[n].line = procs[n].line /\ procs'[n].stage = procs[n].stage
              /\ procs'[n].back = procs[n].back /\ (Alive(n)' => Alive(n))
<1>1. IsSeq(procs') /\ Len(procs') = Len(procs) /\ DOMAIN procs' = DOMAIN procs
  BY Updated DEF Inv, Shape
<1>2. \A n \in DOMAIN procs : procs'[n] = IF n = p THEN e ELSE procs[n]
  OBVIOUS
<1>3. Shape'
  BY <1>1, <1>2 DEF Inv, Shape
<1>4. ASSUME NEW n \in DOMAIN procs
      PROVE  /\ procs'[n].line = procs[n].line /\ procs'[n].stage = procs[n].stage
             /\ procs'[n].back = procs[n].back
             /\ procs'[n].in = procs[n].in \/ (procs'[n].in = File /\ procs[n].stage = 1)
  BY <1>2
<1>5. ASSUME NEW n \in DOMAIN procs PROVE Alive(n)' => Alive(n)
  BY <1>1, <1>2 DEF Alive
<1>6. Plumbed'
  <2>1. SUFFICES ASSUME NEW n \in DOMAIN procs
                 PROVE  IF procs'[n].stage = 1 THEN procs'[n].in \in {Tty, File}
                        ELSE /\ procs'[n].in = n - 1 /\ procs'[n - 1].line = procs'[n].line
                             /\ procs'[n - 1].stage = procs'[n].stage - 1
    BY <1>1 DEF Plumbed
  <2>2. CASE procs[n].stage = 1
    BY <1>4, <2>2 DEF Inv, Plumbed
  <2>3. CASE procs[n].stage # 1
    <3>1. /\ procs[n].in = n - 1 /\ procs[n - 1].line = procs[n].line
          /\ procs[n - 1].stage = procs[n].stage - 1
      BY <2>3 DEF Inv, Plumbed
    <3>2. n - 1 \in DOMAIN procs
      <4>1. n \in 1..Len(procs) /\ Len(procs) \in Nat /\ DOMAIN procs = 1..Len(procs) /\ n # 1
        BY <2>3, SeqDomain DEF Inv, Shape
      <4>. QED
        BY <4>1
    <3>. QED
      BY <1>4, <2>3, <3>1, <3>2
  <2>. QED
    BY <2>2, <2>3
<1>. QED
  BY <1>1, <1>3, <1>4, <1>5, <1>6

(* The process q when its input is i and its state s.                      *)
With(q, s, i) == [q EXCEPT !.state = s, !.in = i]
LEMMA ProcessWith ==
  ASSUME NEW q, IsProcess(q), NEW s, NEW i
  PROVE  /\ With(q, s, i).line = q.line /\ With(q, s, i).stage = q.stage
         /\ With(q, s, i).back = q.back /\ With(q, s, i).cmd = q.cmd
         /\ With(q, s, i).in = i /\ With(q, s, i).state = s /\ IsProcess(With(q, s, i))
         /\ With(q, s, i).got = q.got /\ With(q, s, i).put = q.put
<1>. DEFINE e == [q EXCEPT !.state = s, !.in = i]
            r == [line |-> q.line, stage |-> q.stage, cmd |-> q.cmd, back |-> q.back,
                  state |-> s, piped |-> q.piped, in |-> i, got |-> q.got, put |-> q.put]
<1>1. q = [line |-> q.line, stage |-> q.stage, cmd |-> q.cmd, back |-> q.back,
           state |-> q.state, piped |-> q.piped, in |-> q.in, got |-> q.got, put |-> q.put]
  BY DEF IsProcess
<1>2. e = r
  <2>1. DOMAIN q = DOMAIN r /\ DOMAIN e = DOMAIN r
    BY <1>1
  <2>2. /\ e.line = r.line /\ e.stage = r.stage /\ e.cmd = r.cmd /\ e.back = r.back
        /\ e.state = r.state /\ e.piped = r.piped /\ e.in = r.in /\ e.got = r.got
        /\ e.put = r.put
    BY <1>1
  <2>. QED
    BY <2>1, <2>2
<1>3. IsProcess(r)
  BY DEF IsProcess
<1>. HIDE DEF e
<1>4. /\ e.line = q.line /\ e.stage = q.stage /\ e.cmd = q.cmd /\ e.back = q.back
      /\ e.in = i /\ e.state = s /\ e.got = q.got /\ e.put = q.put
  BY <1>2
<1>. QED
  BY <1>2, <1>3, <1>4 DEF e, With

(* A step of a process changes what OneChanged speaks of.                  *)
LEMMA ProcessStep ==
  ASSUME Inv, NEW p \in DOMAIN procs, Process(p)
  PROVE  /\ UNCHANGED shellVars /\ IsSeq(pipes') /\ Len(pipes') = Len(pipes)
         /\ \E e : /\ procs' = [procs EXCEPT ![p] = e]
                   /\ IsProcess(e) /\ e.line = procs[p].line /\ e.stage = procs[p].stage
                   /\ e.back = procs[p].back
                   /\ e.in = procs[p].in \/ (e.in = File /\ e.stage = 1)
                   /\ e.state \in {"new", "running"} => Alive(p)
<1>1. IsProcess(procs[p]) /\ IsSeq(procs) /\ IsSeq(pipes)
  BY DEF Inv, Shape
<1>. DEFINE Moves(e) == /\ procs' = [procs EXCEPT ![p] = e]
                        /\ IsProcess(e) /\ e.line = procs[p].line /\ e.stage = procs[p].stage
                        /\ e.back = procs[p].back
                        /\ e.in = procs[p].in \/ (e.in = File /\ e.stage = 1)
                        /\ e.state \in {"new", "running"} => Alive(p)
<1>2. CASE Child(p)
  <2>. DEFINE s == IF Runs(procs[p].cmd) THEN "running" ELSE "ended"
              i == IF procs[p].cmd.in # <<>> THEN File ELSE procs[p].in
              e == With(procs[p], s, i)
  <2>1. procs' = [procs EXCEPT ![p] = e] /\ UNCHANGED <<shellVars, pipes>> /\ Alive(p)
    BY <1>1, <1>2 DEF Child, Alive, IsProcess, With
  <2>2. i = procs[p].in \/ (i = File /\ procs[p].stage = 1)
    BY <1>1 DEF IsProcess
  <2>. HIDE DEF s, i
  <2>3. /\ e.line = procs[p].line /\ e.stage = procs[p].stage
        /\ e.back = procs[p].back /\ e.in = i /\ IsProcess(e)
    BY <1>1, ProcessWith
  <2>. HIDE DEF e
  <2>4. Moves(e)
    BY <2>1, <2>2, <2>3
  <2>. QED
    BY <1>1, <2>1, <2>4
<1>3. CASE Write(p)
  <2>. DEFINE e1 == [procs[p] EXCEPT !.put = @ + 1]
              e2 == [procs[p] EXCEPT !.state = "ended"]
  <2>1. Alive(p) /\ UNCHANGED shellVars
    BY <1>3 DEF Write, Alive
  <2>2. /\ procs' = [procs EXCEPT ![p] = e1] \/ procs' = [procs EXCEPT ![p] = e2]
        /\ UNCHANGED pipes \/ (p \in DOMAIN pipes /\ pipes' = [pipes EXCEPT ![p] = @ + 1])
    <3>1. DOMAIN pipes = DOMAIN procs
      BY SeqDomain DEF Inv, Shape
    <3>. QED
      BY <1>3, <3>1 DEF Write
  <2>3. IsSeq(pipes') /\ Len(pipes') = Len(pipes)
    BY <1>1, <2>2, Updated
  <2>4. Moves(e1) \/ Moves(e2)
    BY <1>1, <2>1, <2>2 DEF IsProcess
  <2>. QED
    BY <2>1, <2>3, <2>4
<1>4. CASE Read(p)
  <2>. DEFINE e == [procs[p] EXCEPT !.got = @ + 1]
              q == procs[p].in
  <2>1. /\ Alive(p) /\ UNCHANGED shellVars /\ procs' = [procs EXCEPT ![p] = e]
        /\ q \in DOMAIN pipes /\ pipes' = [pipes EXCEPT ![q] = @ - 1]
    BY <1>4 DEF Read, Alive, FromPipe
  <2>2. IsSeq(pipes') /\ Len(pipes') = Len(pipes)
    BY <1>1, <2>1, Updated
  <2>3. Moves(e)
    BY <1>1, <2>1 DEF IsProcess
  <2>. QED
    BY <2>1, <2>2, <2>3
<1>5. CASE End(p)
  <2>. DEFINE e == [procs[p] EXCEPT !.state = "ended"]
  <2>1. /\ UNCHANGED <<shellVars, pipes>> /\ procs' = [procs EXCEPT ![p] = e]
    BY <1>5 DEF End
  <2>2. Moves(e)
    BY <1>1, <2>1 DEF IsProcess
  <2>. QED
    BY <1>1, <2>1, <2>2
<1>. QED
  BY <1>2, <1>3, <1>4, <1>5 DEF Process

LEMMA ProcessInv ==
  ASSUME Inv, NEW p \in DOMAIN procs, Process(p)
  PROVE  Inv'
<1>1. /\ UNCHANGED shellVars /\ Shape' /\ Plumbed'
      /\ Len(procs') = Len(procs) /\ DOMAIN procs' = DOMAIN procs
      /\ \A n \in DOMAIN procs :
           /\ procs'[n].line = procs[n].line /\ procs'[n].stage = procs[n].stage
           /\ procs'[n].back = procs[n].back /\ (Alive(n)' => Alive(n))
  <2>1. PICK e : /\ procs' = [procs EXCEPT ![p] = e]
                 /\ IsProcess(e) /\ e.line = procs[p].line /\ e.stage = procs[p].stage
                 /\ e.back = procs[p].back
                 /\ e.in = procs[p].in \/ (e.in = File /\ e.stage = 1)
                 /\ e.state \in {"new", "running"} => Alive(p)
    BY ProcessStep
  <2>2. UNCHANGED shellVars /\ IsSeq(pipes') /\ Len(pipes') = Len(pipes)
    BY ProcessStep
  <2>. QED
    BY <2>1, <2>2, OneChanged
<1>2. UNCHANGED <<script, at, k, stdin>>
  BY <1>1 DEF shellVars
<1>3. ASSUME NEW s PROVE Latest(s) => Latest(s)'
  <2>1. Len(procs) # 0 => Len(procs) \in DOMAIN procs
    BY SeqDomain DEF Inv, Shape
  <2>. QED
    BY <1>1, <1>2, <2>1 DEF Latest
<1>4. Connected'
  BY <1>1, <1>2, <1>3 DEF Inv, Connected, Between
<1>5. Waited'
  BY <1>1, <1>2 DEF Inv, Waited, Foreground
<1>. QED
  BY <1>1, <1>4, <1>5 DEF Inv

-----------------------------------------------------------------------------
(* Steps of the shell.                                                     *)
(* fork starts the stage k, whose input is stdin.                          *)
LEMMA forkInv ==
  ASSUME Inv, fork
  PROVE  Inv'
<1>. DEFINE n == Len(procs) + 1
<1>1. PICK fails \in Breaks :
        /\ at = "fork" /\ pipes' = Append(pipes, 0)
        /\ procs' = Append(procs,
             [line |-> Len(script), stage |-> k, cmd |-> Stage(k), back |-> background,
              state |-> IF fails THEN "never" ELSE "new",
              piped |-> ~last(k), in |-> stdin, got |-> 0, put |-> 0])
        /\ at' = IF background THEN "close" ELSE "wait"
        /\ UNCHANGED <<script, line, commands, k, stdin>>
  BY DEF fork
<1>. DEFINE e == [line |-> Len(script), stage |-> k, cmd |-> Stage(k), back |-> background,
                  state |-> IF fails THEN "never" ELSE "new",
                  piped |-> ~last(k), in |-> stdin, got |-> 0, put |-> 0]
<1>2. /\ e.line = Len(script) /\ e.stage = k /\ e.back = background /\ e.in = stdin
      /\ IsProcess(e)
  BY DEF IsProcess, Stage
<1>. HIDE DEF e
<1>3. /\ IsSeq(procs) /\ IsSeq(pipes) /\ Len(pipes) = Len(procs)
      /\ Len(procs) \in Nat /\ DOMAIN procs = 1..Len(procs)
  BY SeqDomain DEF Inv, Shape
<1>4. /\ IsSeq(procs') /\ IsSeq(pipes') /\ Len(procs') = n /\ Len(pipes') = n
      /\ DOMAIN procs' = 1..n /\ procs'[n] = e
      /\ \A m \in DOMAIN procs : procs'[m] = procs[m]
  <2>1. procs' = Append(procs, e) /\ pipes' = Append(pipes, 0)
    BY <1>1 DEF e
  <2>2. /\ IsSeq(procs') /\ Len(procs') = n /\ procs'[n] = e
        /\ \A m \in 1..Len(procs) : procs'[m] = procs[m]
    BY <1>3, <2>1, Appended
  <2>3. IsSeq(pipes') /\ Len(pipes') = n
    BY <1>3, <2>1, Appended
  <2>. QED
    BY <1>3, <2>2, <2>3, SeqDomain
<1>5. /\ k \in Nat /\ k >= 1
      /\ IF k = 1 THEN stdin = Tty
         ELSE stdin = Len(procs) /\ Latest(k - 1)
  BY <1>1 DEF Inv, Connected
<1>6. Len(procs) = 0 => k = 1
  BY <1>5 DEF Latest
<1>7. Shape'
  <2>1. \A m \in 1..n : m \in DOMAIN procs \/ m = n
    BY <1>3
  <2>2. n = 1 => e.stage = 1
    BY <1>2, <1>3, <1>6
  <2>. QED
    BY <1>2, <1>4, <2>1, <2>2 DEF Inv, Shape
<1>8. Connected'
  BY <1>1, <1>2, <1>3, <1>4, <1>5 DEF Connected, Latest, Between
<1>9. Plumbed'
  <2>1. SUFFICES ASSUME NEW m \in 1..n
                 PROVE  IF procs'[m].stage = 1 THEN procs'[m].in \in {Tty, File}
                        ELSE /\ procs'[m].in = m - 1 /\ procs'[m - 1].line = procs'[m].line
                             /\ procs'[m - 1].stage = procs'[m].stage - 1
    BY <1>4 DEF Plumbed
  <2>2. CASE m = n
    <3>1. n - 1 = Len(procs) /\ (k # 1 => n - 1 \in DOMAIN procs)
      BY <1>3, <1>6
    <3>. QED
      BY <1>2, <1>4, <1>5, <2>2, <3>1 DEF Latest
  <2>3. CASE m # n
    <3>1. m \in DOMAIN procs /\ (m # 1 => m - 1 \in DOMAIN procs)
      BY <1>3, <2>3
    <3>2. m = 1 => procs[m].stage = 1
      BY <3>1 DEF Inv, Shape
    <3>3. procs'[m] = procs[m] /\ (m # 1 => procs'[m - 1] = procs[m - 1])
      BY <1>4, <3>1
    <3>. QED
      BY <3>1, <3>2, <3>3 DEF Inv, Plumbed
  <2>. QED
    BY <2>2, <2>3
<1>10. Waited'
  <2>1. SUFFICES ASSUME NEW m \in 1..n, Foreground(m)', Alive(m)'
                 PROVE  at' = "wait" /\ m = n
    BY <1>4 DEF Waited
  <2>2. CASE m = n
    BY <1>1, <1>2, <1>4, <2>1, <2>2 DEF Foreground
  <2>3. CASE m # n
    <3>1. m \in DOMAIN procs
      BY <1>3, <2>3
    <3>2. Foreground(m) /\ Alive(m)
      BY <1>4, <2>1, <3>1 DEF Foreground, Alive
    <3>. QED
      BY <1>1, <3>1, <3>2 DEF Inv, Waited
  <2>. QED
    BY <2>2, <2>3
<1>. QED
  BY <1>7, <1>8, <1>9, <1>10 DEF Inv

(* waitpid reaps the last process, or an older one when there is none of   *)
(* this stage; nobody is left to wait for.                                 *)
LEMMA waitpidInv ==
  ASSUME Inv, waitpid
  PROVE  Inv'
<1>1. at = "wait" /\ at' = "close" /\ UNCHANGED <<script, line, commands, k, stdin, pipes>>
  BY DEF waitpid
<1>2. IsSeq(procs) /\ IsSeq(pipes) /\ k >= 1 /\ Latest(k) /\ Len(procs) \in DOMAIN procs
  <2>1. IsSeq(procs) /\ IsSeq(pipes) /\ k >= 1 /\ Latest(k)
    BY <1>1 DEF Inv, Shape, Connected, Between
  <2>. QED
    BY <2>1, SeqDomain DEF Latest
<1>3. CASE \E p \in Awaited : procs[p].state = "ended" /\ procs' = [procs EXCEPT ![p].state = "reaped"]
  <2>1. PICK p \in Awaited : procs[p].state = "ended" /\ procs' = [procs EXCEPT ![p].state = "reaped"]
    BY <1>3
  <2>. DEFINE e == [procs[p] EXCEPT !.state = "reaped"]
  <2>2. /\ p \in DOMAIN procs
        /\ procs[Len(procs)].state = "never" \/ p = Len(procs)
    BY <1>2, <2>1 DEF Awaited, Children
  <2>3. IsProcess(procs[p]) /\ procs' = [procs EXCEPT ![p] = e]
    BY <2>1, <2>2 DEF Inv, Shape
  <2>4. /\ IsProcess(e) /\ e.line = procs[p].line /\ e.stage = procs[p].stage
        /\ e.back = procs[p].back /\ e.in = procs[p].in /\ e.state = "reaped"
    BY <2>3 DEF IsProcess
  <2>. HIDE DEF e
  <2>5. /\ Shape' /\ Plumbed'
        /\ Len(procs') = Len(procs) /\ DOMAIN procs' = DOMAIN procs
        /\ \A n \in DOMAIN procs :
             /\ procs'[n].line = procs[n].line /\ procs'[n].stage = procs[n].stage
             /\ procs'[n].back = procs[n].back /\ (Alive(n)' => Alive(n))
    BY <1>1, <1>2, <2>2, <2>3, <2>4, OneChanged
  <2>6. Connected'
    BY <1>1, <1>2, <2>5 DEF Inv, Connected, Latest, Between
  <2>7. ~Alive(Len(procs))'
    BY <1>2, <2>2, <2>3, <2>4, <2>5 DEF Alive
  <2>8. Waited'
    BY <1>1, <2>5, <2>7 DEF Inv, Waited, Foreground
  <2>. QED
    BY <2>5, <2>6, <2>8 DEF Inv
<1>4. CASE Awaited = {} /\ UNCHANGED procs
  <2>1. procs[Len(procs)].state = "never"
    BY <1>4 DEF Awaited
  <2>2. Shape' /\ Plumbed'
    BY <1>1, <1>4 DEF Inv, Shape, Plumbed
  <2>3. Connected'
    BY <1>1, <1>2, <1>4 DEF Inv, Connected, Latest, Between
  <2>4. Waited'
    BY <1>1, <1>4, <2>1 DEF Inv, Waited, Foreground, Alive
  <2>. QED
    BY <2>2, <2>3, <2>4 DEF Inv
<1>. QED
  BY <1>3, <1>4 DEF waitpid

(* Everything else leaves the processes alone, and no pipe is created.     *)
LEMMA ShellInv ==
  ASSUME Inv, Shell \/ fgets
  PROVE  Inv'
<1>1. CASE fork
  BY <1>1, forkInv
<1>2. CASE waitpid
  BY <1>2, waitpidInv
<1>3. CASE Prompt \/ exit \/ Parse_Crash \/ pipe_Fails \/ close \/ fgets
  <2>1. UNCHANGED <<procs, pipes>> /\ at # "wait"
    BY <1>3 DEF Prompt, exit, Parse_Crash, pipe_Fails, close, fgets
  <2>2. Shape' /\ Plumbed'
    BY <2>1 DEF Inv, Shape, Plumbed
  <2>3. Waited'
    BY <2>1 DEF Inv, Waited, Foreground, Alive
  <2>4. Connected'
    <3>1. CASE Prompt \/ exit \/ Parse_Crash \/ pipe_Fails
      BY <3>1 DEF Prompt, exit, Parse_Crash, pipe_Fails, Ends, Inv, Connected, Between
    <3>2. CASE close
      BY <2>1, <3>2 DEF close, Inv, Shape, Connected, Between, Latest
    <3>3. CASE fgets
      BY <3>3 DEF fgets, Inv, Connected, Between
    <3>. QED
      BY <1>3, <3>1, <3>2, <3>3
  <2>. QED
    BY <2>2, <2>3, <2>4 DEF Inv
<1>. QED
  BY <1>1, <1>2, <1>3 DEF Shell

LEMMA NextInv ==
  ASSUME Inv, [Next]_vars
  PROVE  Inv'
<1>1. CASE UNCHANGED vars
  <2>1. UNCHANGED <<script, at, k, stdin, procs, pipes>>
    BY <1>1 DEF vars, shellVars
  <2>. QED
    BY <2>1 DEF Inv, Shape, Connected, Plumbed, Waited, Latest, Between, Foreground, Alive
<1>. QED
  BY <1>1, ShellInv, ProcessInv DEF Next

-----------------------------------------------------------------------------
(* A stage reads what the stage before it in the same line writes, and the *)
(* first one the terminal or its file, whatever is typed, whatever runs in *)
(* the background and whichever forks fail (lines 178-296).                *)
THEOREM PlumbedThm == Spec => []Plumbed
<1>1. Inv => Plumbed
  BY DEF Inv
<1>. QED
  BY <1>1, InitInv, NextInv, PTL DEF Spec

(* A foreground stage starts when those before it have ended, and the next *)
(* prompt comes when all have: waitpid, which reaps some other child after *)
(* a fork that failed, never takes the place of a wait that was needed.    *)
THEOREM ForegroundDoneThm == Spec => []ForegroundDone
<1>1. ASSUME Inv PROVE ForegroundDone
  <2>1. /\ Waited /\ Len(procs) \in Nat /\ DOMAIN procs = 1..Len(procs)
    BY <1>1, SeqDomain DEF Inv, Shape
  <2>. QED
    BY <2>1 DEF Waited, ForegroundDone
<1>. QED
  BY <1>1, InitInv, NextInv, PTL DEF Spec

-----------------------------------------------------------------------------
(* Lines.                                                                  *)
(* Split one word after the other.                                         *)
Longer(s, t, m) ==
  IF t = m THEN Append(s, <<>>) ELSE [s EXCEPT ![Len(s)] = Append(@, t)]
IsParts(p, l, m, n) ==
  p = [i \in 0..n |-> IF i = 0 THEN << <<>> >> ELSE Longer(p[i-1], l[i], m)]

(* The parts s lie in the first n words of l between the places in c, the  *)
(* inner ones of which hold the mark m.                                    *)
Spans(l, m, n, s, c) ==
  /\ c \in [0..Len(s) -> 0..n + 1]
  /\ \A i, j \in 0..Len(s) : i < j => c[i] < c[j]
  /\ \A i \in 1..Len(s) - 1 : l[c[i]] = m
  /\ \A i \in 1..Len(s) :
       /\ Len(s[i]) = c[i] - c[i-1] - 1
       /\ \A j \in 1..Len(s[i]) : s[i][j] = l[c[i-1] + j] /\ s[i][j] # m

(* They are all of them.                                                   *)
IsCut(l, m, n, s, c) == Spans(l, m, n, s, c) /\ c[0] = 0 /\ c[Len(s)] = n + 1

(* A set of naturals has a least element.                                  *)
LEMMA HasLeast ==
  ASSUME NEW S \in SUBSET Nat, S # {}
  PROVE  \E x \in S : \A y \in S : x <= y
<1>1. IsWellFoundedOn(OpToRel(<, Nat), Nat)
  BY NatLessThanWellFounded, Zenon
<1>2. PICK x \in S : \A y \in S : ~(<<y, x>> \in OpToRel(<, Nat))
  BY <1>1, WFMin, Zenon
<1>3. \A y \in S : x <= y
  <2>1. SUFFICES ASSUME NEW y \in S, ~(x <= y) PROVE FALSE
    OBVIOUS
  <2>2. <<y, x>> \in OpToRel(<, Nat)
    <3>1. y < x /\ x \in Nat /\ y \in Nat
      BY <2>1
    <3>. QED
      BY <3>1, Zenon DEF OpToRel
  <2>. QED
    BY <1>2, <2>2
<1>. QED
  BY <1>3

(* Before the first word there is one empty part.                          *)
LEMMA CutFirst ==
  ASSUME NEW S, NEW l \in Seq(S), NEW m
  PROVE  << <<>> >> \in Seq(Seq(S)) /\ Len(<< <<>> >>) = 1 /\ \E c : IsCut(l, m, 0, << <<>> >>, c)
<1>. DEFINE s == << <<>> >>
            c == [i \in 0..1 |-> i]
<1>1. s \in Seq(Seq(S)) /\ Len(s) = 1 /\ Len(s[1]) = 0
  OBVIOUS
<1>2. c \in [0..1 -> 0..1] /\ \A i \in 0..1 : c[i] = i
  OBVIOUS
<1>. HIDE DEF s, c
<1>3. IsCut(l, m, 0, s, c)
  BY <1>1, <1>2 DEF IsCut, Spans
<1>. QED
  BY <1>1, <1>3 DEF s

(* A mark begins a part.                                                   *)
LEMMA CutMark ==
  ASSUME NEW S, NEW l \in Seq(S), NEW m, NEW n \in Nat, n < Len(l), l[n + 1] = m,
         NEW s \in Seq(Seq(S)), Len(s) >= 1, NEW c, IsCut(l, m, n, s, c)
  PROVE  /\ Append(s, <<>>) \in Seq(Seq(S)) /\ Len(Append(s, <<>>)) >= 1
         /\ \E d : IsCut(l, m, n + 1, Append(s, <<>>), d)
<1>. DEFINE N == Len(s)
            t == Append(s, <<>>)
            d == [i \in 0..N + 1 |-> IF i <= N THEN c[i] ELSE n + 2]
<1>1. N \in Nat /\ N >= 1
  OBVIOUS
<1>2. /\ t \in Seq(Seq(S)) /\ Len(t) = N + 1
      /\ \A i \in 1..N : t[i] = s[i]
      /\ t[N + 1] = <<>>
  <2>1. <<>> \in Seq(S)
    OBVIOUS
  <2>. QED
    BY <2>1, AppendProperties
<1>. HIDE DEF t
<1>3. /\ c \in [0..N -> 0..n + 1] /\ c[0] = 0 /\ c[N] = n + 1
      /\ \A i, j \in 0..N : i < j => c[i] < c[j]
      /\ \A i \in 1..N - 1 : l[c[i]] = m
      /\ \A i \in 1..N :
           /\ Len(s[i]) = c[i] - c[i-1] - 1
           /\ \A j \in 1..Len(s[i]) : s[i][j] = l[c[i-1] + j] /\ s[i][j] # m
  BY DEF IsCut, Spans
<1>. HIDE DEF N
<1>4. /\ \A i \in 0..N : d[i] = c[i] /\ c[i] \in 0..n + 1
      /\ d[N + 1] = n + 2
      /\ d \in [0..N + 1 -> 0..n + 2]
      /\ d[0] = 0
  <2>1. \A i \in 0..N : i \in 0..N + 1 /\ i <= N /\ c[i] \in 0..n + 1
    <3>1. c \in [0..N -> 0..n + 1]
      BY <1>3
    <3>2. \A i \in 0..N : i \in 0..N + 1 /\ i <= N
      BY <1>1
    <3>. QED
      BY <3>1, <3>2
  <2>2. N + 1 \in 0..N + 1 /\ ~(N + 1 <= N) /\ 0 \in 0..N
    BY <1>1
  <2>3. \A i \in 0..N + 1 : (IF i <= N THEN c[i] ELSE n + 2) \in 0..n + 2
    <3>1. SUFFICES ASSUME NEW i \in 0..N + 1 PROVE (IF i <= N THEN c[i] ELSE n + 2) \in 0..n + 2
      OBVIOUS
    <3>2. CASE i <= N
      <4>1. c[i] \in 0..n + 1
        BY <1>1, <2>1, <3>1, <3>2
      <4>. QED
        BY <3>2, <4>1
    <3>. QED
      BY <3>2
  <2>. QED
    BY <1>3, <2>1, <2>2, <2>3
<1>. HIDE DEF d
<1>5. \A i, j \in 0..N + 1 : i < j => d[i] < d[j]
  <2>1. SUFFICES ASSUME NEW i \in 0..N + 1, NEW j \in 0..N + 1, i < j PROVE d[i] < d[j]
    OBVIOUS
  <2>2. i \in 0..N /\ (j \in 0..N \/ j = N + 1)
    BY <1>1, <2>1
  <2>. QED
    BY <1>3, <1>4, <2>1, <2>2
<1>6. \A i \in 1..N : l[d[i]] = m
  <2>1. SUFFICES ASSUME NEW i \in 1..N PROVE l[d[i]] = m
    OBVIOUS
  <2>2. i \in 0..N /\ (i \in 1..N - 1 \/ i = N) /\ d[i] = c[i]
    BY <1>1, <1>4
  <2>3. CASE i = N
    BY <1>3, <2>2, <2>3
  <2>. QED
    BY <1>3, <2>2, <2>3
<1>7. \A i \in 1..N + 1 :
        /\ Len(t[i]) = d[i] - d[i-1] - 1
        /\ \A j \in 1..Len(t[i]) : t[i][j] = l[d[i-1] + j] /\ t[i][j] # m
  <2>1. SUFFICES ASSUME NEW i \in 1..N + 1
                 PROVE  /\ Len(t[i]) = d[i] - d[i-1] - 1
                        /\ \A j \in 1..Len(t[i]) : t[i][j] = l[d[i-1] + j] /\ t[i][j] # m
    OBVIOUS
  <2>2. CASE i \in 1..N
    <3>1. i \in 0..N /\ i - 1 \in 0..N
      BY <1>1, <2>2
    <3>2. d[i] = c[i] /\ d[i-1] = c[i-1]
      BY <1>4, <3>1
    <3>3. t[i] = s[i]
      BY <1>2, <2>2
    <3>4. /\ Len(s[i]) = c[i] - c[i-1] - 1
          /\ \A j \in 1..Len(s[i]) : s[i][j] = l[c[i-1] + j] /\ s[i][j] # m
      BY <1>3, <2>2
    <3>. QED
      BY <3>2, <3>3, <3>4
  <2>3. CASE i = N + 1
    <3>1. d[i] = n + 2 /\ d[i-1] = n + 1 /\ Len(t[i]) = 0
      BY <1>1, <1>2, <1>3, <1>4, <2>3
    <3>. QED
      BY <3>1
  <2>. QED
    BY <1>1, <2>1, <2>2, <2>3
<1>8. IsCut(l, m, n + 1, t, d)
  <2>1. (n + 1) + 1 = n + 2 /\ (N + 1) - 1 = N /\ d[0] = 0
    BY <1>1, <1>4
  <2>. QED
    BY <1>2, <1>4, <1>5, <1>6, <1>7, <2>1 DEF IsCut, Spans
<1>. QED
  BY <1>1, <1>2, <1>8 DEF t

(* A word lengthens the last part.                                         *)
LEMMA CutWord ==
  ASSUME NEW S, NEW l \in Seq(S), NEW m, NEW n \in Nat, n < Len(l), l[n + 1] # m,
         NEW s \in Seq(Seq(S)), Len(s) >= 1, NEW c, IsCut(l, m, n, s, c)
  PROVE  LET t == [s EXCEPT ![Len(s)] = Append(@, l[n + 1])]
         IN t \in Seq(Seq(S)) /\ Len(t) >= 1 /\ \E d : IsCut(l, m, n + 1, t, d)
<1>. DEFINE N == Len(s)
            e == Append(s[N], l[n + 1])
            t == [s EXCEPT ![N] = e]
            d == [c EXCEPT ![N] = n + 2]
<1>1. N \in Nat /\ N >= 1 /\ N \in 1..N /\ l[n + 1] \in S
  OBVIOUS
<1>2. s[N] \in Seq(S)
  BY <1>1
<1>3. /\ e \in Seq(S) /\ Len(e) = Len(s[N]) + 1 /\ e[Len(s[N]) + 1] = l[n + 1]
      /\ \A j \in 1..Len(s[N]) : e[j] = s[N][j]
  BY <1>1, <1>2, AppendProperties
<1>. HIDE DEF e
<1>4. /\ t \in Seq(Seq(S)) /\ Len(t) = N /\ t[N] = e
      /\ \A i \in 1..N : i # N => t[i] = s[i]
  BY <1>1, <1>3, ExceptSeq
<1>. HIDE DEF t
<1>5. /\ c \in [0..N -> 0..n + 1] /\ c[0] = 0 /\ c[N] = n + 1
      /\ \A i, j \in 0..N : i < j => c[i] < c[j]
      /\ \A i \in 1..N - 1 : l[c[i]] = m
      /\ \A i \in 1..N :
           /\ Len(s[i]) = c[i] - c[i-1] - 1
           /\ \A j \in 1..Len(s[i]) : s[i][j] = l[c[i-1] + j] /\ s[i][j] # m
  BY DEF IsCut, Spans
<1>. HIDE DEF N
<1>6. /\ \A i \in 0..N : d[i] = (IF i = N THEN n + 2 ELSE c[i]) /\ c[i] \in 0..n + 1
      /\ d \in [0..N -> 0..n + 2]
      /\ 0 \in 0..N /\ 0 # N
  <2>1. \A i \in 0..N : c[i] \in 0..n + 1
    BY <1>5
  <2>2. \A i \in 0..N : c[i] \in 0..n + 2
    BY <2>1
  <2>3. n + 2 \in 0..n + 2 /\ 0 \in 0..N /\ 0 # N
    BY <1>1
  <2>4. c \in [0..N -> 0..n + 2]
    BY <1>5, <2>2
  <2>. QED
    BY <2>1, <2>3, <2>4
<1>. HIDE DEF d
<1>7. \A i, j \in 0..N : i < j => d[i] < d[j]
  <2>1. SUFFICES ASSUME NEW i \in 0..N, NEW j \in 0..N, i < j PROVE d[i] < d[j]
    OBVIOUS
  <2>2. i # N
    BY <1>1, <2>1
  <2>3. c[i] < c[j]
    BY <1>5, <2>1
  <2>4. d[i] = c[i] /\ (d[j] = c[j] \/ d[j] = n + 2) /\ c[i] \in 0..n + 1 /\ c[j] \in 0..n + 1
    BY <1>6, <2>1, <2>2
  <2>. QED
    BY <2>3, <2>4
<1>8. \A i \in 1..N - 1 : l[d[i]] = m
  <2>1. \A i \in 1..N - 1 : i \in 0..N /\ i # N
    BY <1>1
  <2>. QED
    BY <1>5, <1>6, <2>1
<1>9. \A i \in 1..N :
        /\ Len(t[i]) = d[i] - d[i-1] - 1
        /\ \A j \in 1..Len(t[i]) : t[i][j] = l[d[i-1] + j] /\ t[i][j] # m
  <2>1. SUFFICES ASSUME NEW i \in 1..N
                 PROVE  /\ Len(t[i]) = d[i] - d[i-1] - 1
                        /\ \A j \in 1..Len(t[i]) : t[i][j] = l[d[i-1] + j] /\ t[i][j] # m
    OBVIOUS
  <2>2. i - 1 \in 0..N /\ i - 1 # N /\ i \in 0..N
    BY <1>1
  <2>3. i - 1 \in 0..N /\ i - 1 # N /\ i \in 0..N /\ d[i-1] = c[i-1] /\ c[i-1] \in 0..n + 1
    BY <1>6, <2>2
  <2>4. CASE i # N
    <3>1. d[i] = c[i] /\ t[i] = s[i]
      BY <1>4, <1>6, <2>2, <2>4
    <3>. QED
      BY <1>5, <2>3, <3>1
  <2>5. CASE i = N
    <3>1. /\ Len(s[N]) = c[N] - c[N-1] - 1
          /\ \A j \in 1..Len(s[N]) : s[N][j] = l[c[N-1] + j] /\ s[N][j] # m
      BY <1>1, <1>5
    <3>2. t[i] = e /\ d[i] = n + 2 /\ Len(t[i]) = Len(s[N]) + 1 /\ Len(s[N]) \in Nat
      BY <1>1, <1>2, <1>3, <1>4, <1>6, <2>5
    <3>3. ASSUME NEW j \in 1..Len(s[N]) + 1 PROVE e[j] = l[c[N-1] + j] /\ e[j] # m
      <4>1. CASE j \in 1..Len(s[N])
        BY <1>3, <3>1, <4>1
      <4>2. CASE j = Len(s[N]) + 1
        <5>1. c[N-1] + j = n + 1
          <6>1. Len(s[N]) = (n + 1) - c[N-1] - 1 /\ c[N-1] \in 0..n + 1
            BY <1>5, <2>3, <2>5, <3>1
          <6>. QED
            BY <4>2, <6>1
        <5>. QED
          BY <1>3, <4>2, <5>1
      <4>. QED
        BY <3>2, <4>1, <4>2
    <3>4. Len(t[i]) = d[i] - d[i-1] - 1
      <4>1. c[N] = n + 1 /\ d[i-1] = c[N-1] /\ c[N-1] \in 0..n + 1
        BY <1>5, <2>3, <2>5
      <4>2. \A L \in Nat : \A u \in 0..L + 1 : ((L + 1) - u - 1) + 1 = (L + 2) - u - 1
        OBVIOUS
      <4>3. Len(s[N]) = (n + 1) - c[N-1] - 1
        BY <3>1, <4>1
      <4>4. Len(t[i]) = ((n + 1) - c[N-1] - 1) + 1 /\ d[i] = n + 2
        BY <3>2, <4>3
      <4>. QED
        BY <4>1, <4>2, <4>4
    <3>5. \A j \in 1..Len(t[i]) : t[i][j] = l[d[i-1] + j] /\ t[i][j] # m
      <4>1. d[i-1] = c[N-1]
        BY <2>3, <2>5
      <4>. QED
        BY <3>2, <3>3, <4>1
    <3>. QED
      BY <3>4, <3>5
  <2>. QED
    BY <2>4, <2>5
<1>10. IsCut(l, m, n + 1, t, d)
  <2>1. (n + 1) + 1 = n + 2 /\ 0 \in 0..N /\ 0 # N /\ d[0] = 0 /\ N \in 0..N /\ d[N] = n + 2
    BY <1>1, <1>5, <1>6
  <2>. QED
    BY <1>4, <1>6, <1>7, <1>8, <1>9, <2>1 DEF IsCut, Spans
<1>. QED
  BY <1>1, <1>4, <1>10 DEF t, e, N

(* There is a function that splits word after word.                        *)
LEMMA PartsExist ==
  ASSUME NEW l, NEW m, NEW n \in Nat
  PROVE  \E p : IsParts(p, l, m, n)
<1>. DEFINE Bad == {i \in Nat : ~\E p : IsParts(p, l, m, i)}
<1>1. SUFFICES ASSUME Bad # {} PROVE FALSE
  OBVIOUS
<1>2. PICK x \in Bad : \A y \in Bad : x <= y
  <2>. HIDE DEF Bad
  <2>1. Bad \in SUBSET Nat
    BY DEF Bad
  <2>. QED
    BY <1>1, <2>1, HasLeast
<1>3. x # 0
  <2>. DEFINE z == [i \in 0..0 |-> << <<>> >>]
  <2>1. z = [i \in 0..0 |-> IF i = 0 THEN << <<>> >> ELSE Longer(z[i-1], l[i], m)]
    OBVIOUS
  <2>. HIDE DEF z
  <2>2. IsParts(z, l, m, 0)
    BY <2>1 DEF IsParts
  <2>. QED
    BY <1>2, <2>2
<1>4. x - 1 \in Nat /\ x \in Nat /\ x - 1 \notin Bad
  BY <1>2, <1>3
<1>5. PICK p : IsParts(p, l, m, x - 1)
  BY <1>4
<1>. DEFINE e == Longer(p[x-1], l[x], m)
            w == [i \in 0..x |-> IF i < x THEN p[i] ELSE e]
<1>6. \A i \in 0..(x - 1) : p[i] = IF i = 0 THEN << <<>> >> ELSE Longer(p[i-1], l[i], m)
  BY <1>5, Zenon DEF IsParts
<1>7. ASSUME NEW i \in 0..x
      PROVE  w[i] = IF i = 0 THEN << <<>> >> ELSE Longer(w[i-1], l[i], m)
  <2>1. CASE i < x
    <3>1. i \in 0..(x - 1) /\ w[i] = p[i] /\ (i # 0 => i - 1 \in 0..x /\ i - 1 < x)
      BY <1>4, <2>1
    <3>2. i # 0 => w[i-1] = p[i-1]
      BY <3>1
    <3>. QED
      BY <1>6, <3>1, <3>2
  <2>2. CASE i = x
    <3>1. i - 1 \in 0..x /\ i - 1 < x /\ ~(i < x) /\ i # 0
      BY <1>3, <1>4, <2>2
    <3>2. w[i] = e /\ w[i-1] = p[x-1]
      BY <2>2, <3>1
    <3>. QED
      BY <2>2, <3>1, <3>2
  <2>. QED
    BY <1>4, <2>1, <2>2
<1>8. w = [i \in 0..x |-> w[i]]
  OBVIOUS
<1>9. IsParts(w, l, m, x)
  <2>. HIDE DEF w
  <2>. QED
    BY <1>7, <1>8 DEF IsParts
<1>. QED
  BY <1>2, <1>9

(* Split yields parts that lie between the marks.                          *)
LEMMA SplitCut ==
  ASSUME NEW S, NEW l \in Seq(S), NEW m
  PROVE  /\ Split(l, m) \in Seq(Seq(S)) /\ Len(Split(l, m)) >= 1
         /\ \E c : IsCut(l, m, Len(l), Split(l, m), c)
<1>. DEFINE P == CHOOSE p : IsParts(p, l, m, Len(l))
<1>1. Len(l) \in Nat
  OBVIOUS
<1>2. IsParts(P, l, m, Len(l))
  BY <1>1, PartsExist
<1>3. Split(l, m) = P[Len(l)]
  BY Zenon DEF Split, IsParts, Longer
<1>. HIDE DEF P
<1>4. \A i \in 0..Len(l) : P[i] = IF i = 0 THEN << <<>> >> ELSE Longer(P[i-1], l[i], m)
  BY <1>2, Zenon DEF IsParts
<1>. DEFINE Good(i) == P[i] \in Seq(Seq(S)) /\ Len(P[i]) >= 1 /\ \E c : IsCut(l, m, i, P[i], c)
            Bad == {i \in 0..Len(l) : ~Good(i)}
<1>5. SUFFICES ASSUME Bad # {} PROVE FALSE
  BY <1>1, <1>3
<1>6. PICK x \in Bad : \A y \in Bad : x <= y
  <2>. HIDE DEF Bad
  <2>1. Bad \in SUBSET Nat
    BY <1>1 DEF Bad
  <2>. QED
    BY <1>5, <2>1, HasLeast
<1>7. x # 0
  <2>1. 0 \in 0..Len(l)
    BY <1>1
  <2>2. P[0] = << <<>> >>
    BY <1>4, <2>1
  <2>3. /\ << <<>> >> \in Seq(Seq(S)) /\ Len(<< <<>> >>) = 1
        /\ \E c : IsCut(l, m, 0, << <<>> >>, c)
    BY CutFirst
  <2>4. Good(0)
    BY <2>2, <2>3
  <2>. QED
    BY <1>6, <2>4
<1>. DEFINE n == x - 1
<1>8. n \in Nat /\ n < Len(l) /\ n + 1 = x /\ n \in 0..Len(l) /\ x \in 0..Len(l)
  BY <1>1, <1>6, <1>7
<1>9. Good(n)
  <2>. HIDE DEF Good
  <2>1. n \notin Bad
    BY <1>6, <1>8
  <2>. QED
    BY <1>8, <2>1
<1>10. P[n + 1] = Longer(P[n], l[n + 1], m)
  BY <1>4, <1>7, <1>8
<1>. HIDE DEF n
<1>11. PICK c : IsCut(l, m, n, P[n], c)
  BY <1>9
<1>12. CASE l[n + 1] = m
  <2>1. P[n + 1] = Append(P[n], <<>>)
    BY <1>10, <1>12 DEF Longer
  <2>2. /\ Append(P[n], <<>>) \in Seq(Seq(S)) /\ Len(Append(P[n], <<>>)) >= 1
        /\ \E d : IsCut(l, m, n + 1, Append(P[n], <<>>), d)
    BY <1>8, <1>9, <1>11, <1>12, CutMark
  <2>3. Good(n + 1)
    BY <2>1, <2>2
  <2>. QED
    BY <1>6, <1>8, <2>3
<1>13. CASE l[n + 1] # m
  <2>1. P[n + 1] = [P[n] EXCEPT ![Len(P[n])] = Append(@, l[n + 1])]
    BY <1>10, <1>13 DEF Longer
  <2>. DEFINE t == [P[n] EXCEPT ![Len(P[n])] = Append(@, l[n + 1])]
  <2>2. t \in Seq(Seq(S)) /\ Len(t) >= 1 /\ \E d : IsCut(l, m, n + 1, t, d)
    BY <1>8, <1>9, <1>11, <1>13, CutWord
  <2>. HIDE DEF t
  <2>3. P[n + 1] = t
    BY <2>1 DEF t
  <2>4. Good(n + 1)
    BY <2>2, <2>3
  <2>. QED
    BY <1>6, <1>8, <2>4
<1>. QED
  BY <1>12, <1>13

(* A sequence is a piece of another one.                                   *)
LEMMA PieceIs ==
  ASSUME NEW S, NEW l \in Seq(S), NEW a \in Nat, NEW b \in Nat, a <= b, b <= Len(l),
         NEW s \in Seq(S), Len(s) = b - a, \A j \in 1..Len(s) : s[j] = l[a + j]
  PROVE  s = SubSeq(l, a + 1, b)
<1>. DEFINE t == SubSeq(l, a + 1, b)
<1>1. \A i \in (a + 1)..b : l[i] \in S
  OBVIOUS
<1>2. /\ t \in Seq(S) /\ Len(t) = IF a + 1 <= b THEN b - (a + 1) + 1 ELSE 0
      /\ \A i \in 1..(b - (a + 1) + 1) : t[i] = l[(a + 1) + i - 1]
  BY <1>1, SubSeqProperties
<1>3. Len(t) = Len(s)
  BY <1>2
<1>4. \A i \in 1..Len(s) : t[i] = s[i]
  <2>1. \A i \in 1..Len(s) : (a + 1) + i - 1 = a + i /\ i \in 1..(b - (a + 1) + 1)
    OBVIOUS
  <2>. QED
    BY <1>2, <2>1
<1>. HIDE DEF t
<1>. QED
  BY <1>2, <1>3, <1>4, SeqEqual DEF t

(* A sequence with one mark splits into what is before and behind it.      *)
LEMMA SplitOnce ==
  ASSUME NEW S, NEW l \in Seq(S), NEW x \in 1..Len(l), NEW m, l[x] = m,
         \A y \in 1..Len(l) : l[y] = m => y = x
  PROVE  Split(l, m)[1] = SubSeq(l, 1, x - 1) /\ Split(l, m)[2] = SubSeq(l, x + 1, Len(l))
         /\ Split(l, m) = <<Split(l, m)[1], Split(l, m)[2]>>
<1>. DEFINE s == Split(l, m)
            N == Len(s)
            n == Len(l)
<1>1. s \in Seq(Seq(S)) /\ N >= 1 /\ N \in Nat /\ n \in Nat /\ x \in 1..n
  BY SplitCut
<1>2. PICK c : IsCut(l, m, n, s, c)
  BY SplitCut
<1>. HIDE DEF s
<1>3. /\ c \in [0..N -> 0..n + 1] /\ c[0] = 0 /\ c[N] = n + 1
      /\ \A i, j \in 0..N : i < j => c[i] < c[j]
      /\ \A i \in 1..N - 1 : l[c[i]] = m
      /\ \A i \in 1..N :
           /\ Len(s[i]) = c[i] - c[i-1] - 1
           /\ \A j \in 1..Len(s[i]) : s[i][j] = l[c[i-1] + j] /\ s[i][j] # m
  BY <1>2 DEF IsCut, Spans
<1>. HIDE DEF N, n
<1>4. \A i \in 1..N - 1 : c[i] = x
  <2>1. SUFFICES ASSUME NEW i \in 1..N - 1 PROVE c[i] = x
    OBVIOUS
  <2>2. 0 \in 0..N /\ i \in 0..N /\ N \in 0..N /\ 0 < i /\ i < N
    BY <1>1
  <2>3. c[0] < c[i] /\ c[i] < c[N] /\ c[i] \in 0..n + 1
    BY <1>3, <2>2
  <2>4. 0 < c[i] /\ c[i] < n + 1
    BY <1>3, <2>3
  <2>5. c[i] \in 1..n
    BY <1>1, <2>3, <2>4
  <2>. QED
    BY <1>3, <2>5 DEF n
<1>5. N # 1
  <2>1. SUFFICES ASSUME N = 1 PROVE FALSE
    OBVIOUS
  <2>2. Len(s[1]) = n /\ \A j \in 1..n : s[1][j] = l[j] /\ s[1][j] # m
    <3>1. c[1] = n + 1 /\ c[0] = 0
      BY <1>3, <2>1
    <3>2. /\ Len(s[1]) = c[1] - c[1-1] - 1
          /\ \A j \in 1..Len(s[1]) : s[1][j] = l[c[1-1] + j] /\ s[1][j] # m
      <4>1. 1 \in 1..N
        BY <2>1
      <4>. QED
        BY <1>3, <4>1
    <3>3. 1 - 1 = 0 /\ (n + 1) - 0 - 1 = n /\ \A j \in 1..n : 0 + j = j
      BY <1>1
    <3>4. Len(s[1]) = n
      BY <3>1, <3>2, <3>3
    <3>. QED
      BY <3>1, <3>2, <3>3, <3>4
  <2>. QED
    BY <1>1, <2>2
<1>6. N = 2
  <2>1. SUFFICES ASSUME N > 2 PROVE FALSE
    BY <1>1, <1>5
  <2>2. 1 \in 1..N - 1 /\ 2 \in 1..N - 1 /\ 1 \in 0..N /\ 2 \in 0..N /\ 1 < 2
    BY <1>1, <2>1
  <2>3. c[1] < c[2] /\ c[1] = x /\ c[2] = x
    BY <1>3, <1>4, <2>2
  <2>. QED
    BY <1>1, <2>3
<1>7. c[0] = 0 /\ c[1] = x /\ c[2] = n + 1
  <2>1. 1 \in 1..N - 1
    BY <1>6
  <2>. QED
    BY <1>3, <1>4, <1>6, <2>1
<1>8. /\ Len(s[1]) = x - 1 /\ \A j \in 1..Len(s[1]) : s[1][j] = l[j]
      /\ Len(s[2]) = n - x /\ \A j \in 1..Len(s[2]) : s[2][j] = l[x + j]
      /\ s[1] \in Seq(S) /\ s[2] \in Seq(S) /\ s = <<s[1], s[2]>>
  <2>1. 1 \in 1..N /\ 2 \in 1..N /\ 1 - 1 = 0 /\ 2 - 1 = 1
    BY <1>6
  <2>2. Len(s[1]) = x - 0 - 1 /\ \A j \in 1..Len(s[1]) : s[1][j] = l[0 + j]
    <3>1. /\ Len(s[1]) = c[1] - c[1-1] - 1
          /\ \A j \in 1..Len(s[1]) : s[1][j] = l[c[1-1] + j] /\ s[1][j] # m
      BY <1>3, <2>1
    <3>. QED
      BY <1>7, <2>1, <3>1
  <2>3. Len(s[2]) = (n + 1) - x - 1 /\ \A j \in 1..Len(s[2]) : s[2][j] = l[x + j]
    <3>1. /\ Len(s[2]) = c[2] - c[2-1] - 1
          /\ \A j \in 1..Len(s[2]) : s[2][j] = l[c[2-1] + j] /\ s[2][j] # m
      BY <1>3, <2>1
    <3>2. c[2-1] = x /\ c[2] = n + 1
      BY <1>7, <2>1
    <3>. QED
      BY <3>1, <3>2
  <2>4. s[1] \in Seq(S) /\ s[2] \in Seq(S)
    BY <1>1, <2>1 DEF N
  <2>5. s = <<s[1], s[2]>>
    BY <1>1, <1>6 DEF N
  <2>6. \A j \in 1..Len(s[1]) : 0 + j = j
    BY <2>4
  <2>7. x - 0 - 1 = x - 1 /\ (n + 1) - x - 1 = n - x
    BY <1>1
  <2>8. \A j \in 1..Len(s[1]) : s[1][j] = l[j]
    BY <2>2, <2>6
  <2>. QED
    BY <2>2, <2>3, <2>4, <2>5, <2>7, <2>8
<1>9. s[1] = SubSeq(l, 1, x - 1)
  <2>1. x - 1 \in Nat /\ 0 <= x - 1 /\ x - 1 <= n /\ x - 1 - 0 = x - 1 /\ 0 + 1 = 1
    BY <1>1
  <2>2. \A j \in 1..Len(s[1]) : s[1][j] = l[0 + j]
    <3>1. \A j \in 1..Len(s[1]) : 0 + j = j
      BY <1>8
    <3>. QED
      BY <1>8, <3>1
  <2>3. s[1] = SubSeq(l, 0 + 1, x - 1)
    <3>1. x - 1 \in Nat /\ 0 \in Nat /\ 0 <= x - 1 /\ x - 1 <= Len(l)
      BY <2>1 DEF n
    <3>2. s[1] \in Seq(S) /\ Len(s[1]) = x - 1 - 0
      BY <1>8, <2>1
    <3>. QED
      BY <2>2, <3>1, <3>2, PieceIs
  <2>. QED
    BY <2>1, <2>3
<1>10. s[2] = SubSeq(l, x + 1, n)
  <2>1. x \in Nat /\ n \in Nat /\ x <= n /\ n <= Len(l)
    BY <1>1 DEF n
  <2>2. s[2] \in Seq(S) /\ Len(s[2]) = n - x /\ \A j \in 1..Len(s[2]) : s[2][j] = l[x + j]
    BY <1>8
  <2>. QED
    BY <2>1, <2>2, PieceIs
<1>. QED
  BY <1>8, <1>9, <1>10 DEF s, n

-----------------------------------------------------------------------------
(* What Commands makes of a line.                                          *)
LEMMA FrontIs ==
  ASSUME NEW S, NEW l \in Seq(S), l # <<>>
  PROVE  /\ Front(l) \in Seq(S) /\ Len(Front(l)) = Len(l) - 1 /\ Len(l) - 1 \in Nat
         /\ \A i \in 1..Len(l) - 1 : Front(l)[i] = l[i]
<1>1. Len(l) \in Nat /\ Len(l) >= 1 /\ \A i \in 1..Len(l) - 1 : l[i] \in S
  OBVIOUS
<1>. DEFINE n == Len(l) - 1
            t == Front(l)
<1>2. n \in Nat
  BY <1>1
<1>3. /\ t \in Seq(S) /\ Len(t) = IF 1 <= n THEN n - 1 + 1 ELSE 0
      /\ \A i \in 1..(n - 1 + 1) : t[i] = l[1 + i - 1]
  BY <1>1, SubSeqProperties DEF Front
<1>. HIDE DEF n, t
<1>4. (IF 1 <= n THEN n - 1 + 1 ELSE 0) = n /\ n - 1 + 1 = n /\ \A i \in 1..n : 1 + i - 1 = i
  BY <1>2
<1>5. \A i \in 1..n : t[i] = l[i]
  BY <1>3, <1>4
<1>. QED
  BY <1>2, <1>3, <1>4, <1>5 DEF n, t

(* Without the first part, the others lie between the same marks.          *)
LEMMA TailSpans ==
  ASSUME NEW S, NEW l, NEW m, NEW n \in Nat, NEW s \in Seq(Seq(S)), s # <<>>,
         NEW c, Spans(l, m, n, s, c)
  PROVE  /\ Tail(s) \in Seq(Seq(S)) /\ Len(Tail(s)) = Len(s) - 1
         /\ \E d : /\ Spans(l, m, n, Tail(s), d)
                   /\ d[0] = c[1] /\ d[Len(Tail(s))] = c[Len(s)]
<1>. DEFINE t == Tail(s)
            N == Len(s)
            d == [i \in 0..N - 1 |-> c[i + 1]]
<1>1. /\ t \in Seq(Seq(S)) /\ Len(t) = N - 1 /\ N \in Nat /\ N >= 1
      /\ \A i \in 1..N - 1 : t[i] = s[i + 1]
  BY HeadTailProperties
<1>. HIDE DEF t
<1>2. /\ c \in [0..N -> 0..n + 1]
      /\ \A i, j \in 0..N : i < j => c[i] < c[j]
      /\ \A i \in 1..N - 1 : l[c[i]] = m
      /\ \A i \in 1..N :
           /\ Len(s[i]) = c[i] - c[i-1] - 1
           /\ \A j \in 1..Len(s[i]) : s[i][j] = l[c[i-1] + j] /\ s[i][j] # m
  BY DEF Spans
<1>. HIDE DEF N
<1>3. \A i \in 0..N - 1 : i + 1 \in 0..N /\ i + 1 \in 1..N
  BY <1>1
<1>4. d \in [0..N - 1 -> 0..n + 1] /\ \A i \in 0..N - 1 : d[i] = c[i + 1]
  BY <1>2, <1>3
<1>. HIDE DEF d
<1>5. \A i, j \in 0..N - 1 : i < j => d[i] < d[j]
  BY <1>2, <1>3, <1>4
<1>6. \A i \in 1..(N - 1) - 1 : l[d[i]] = m
  <2>1. \A i \in 1..(N - 1) - 1 : i + 1 \in 1..N - 1 /\ i \in 0..N - 1
    BY <1>1
  <2>. QED
    BY <1>2, <1>4, <2>1
<1>7. \A i \in 1..N - 1 :
        /\ Len(t[i]) = d[i] - d[i-1] - 1
        /\ \A j \in 1..Len(t[i]) : t[i][j] = l[d[i-1] + j] /\ t[i][j] # m
  <2>1. SUFFICES ASSUME NEW i \in 1..N - 1
                 PROVE  /\ Len(t[i]) = d[i] - d[i-1] - 1
                        /\ \A j \in 1..Len(t[i]) : t[i][j] = l[d[i-1] + j] /\ t[i][j] # m
    OBVIOUS
  <2>2. i + 1 \in 1..N /\ (i + 1) - 1 = (i - 1) + 1 /\ i \in 0..N - 1 /\ i - 1 \in 0..N - 1
    BY <1>1
  <2>3. t[i] = s[i + 1] /\ d[i] = c[i + 1] /\ d[i-1] = c[(i + 1) - 1]
    BY <1>1, <1>4, <2>2
  <2>4. /\ Len(s[i + 1]) = c[i + 1] - c[(i + 1) - 1] - 1
        /\ \A j \in 1..Len(s[i + 1]) :
             s[i + 1][j] = l[c[(i + 1) - 1] + j] /\ s[i + 1][j] # m
    BY <1>2, <2>2
  <2>. QED
    BY <2>3, <2>4
<1>8. Spans(l, m, n, t, d)
  BY <1>1, <1>4, <1>5, <1>6, <1>7 DEF Spans
<1>9. d[0] = c[1] /\ d[N - 1] = c[N]
  <2>1. 0 \in 0..N - 1 /\ N - 1 \in 0..N - 1 /\ 0 + 1 = 1 /\ (N - 1) + 1 = N
    BY <1>1
  <2>. QED
    BY <1>4, <2>1
<1>. QED
  BY <1>1, <1>8, <1>9 DEF t, N

(* So they do without the last one.                                        *)
LEMMA FrontSpans ==
  ASSUME NEW S, NEW l, NEW m, NEW n \in Nat, NEW s \in Seq(Seq(S)), s # <<>>,
         NEW c, Spans(l, m, n, s, c), NEW t, t = Front(s)
  PROVE  \E d : Spans(l, m, n, t, d) /\ d[0] = c[0] /\ d[Len(t)] = c[Len(t)]
<1>. DEFINE N == Len(s)
            d == [i \in 0..N - 1 |-> c[i]]
<1>1. N \in Nat /\ N >= 1 /\ \A i \in 1..N - 1 : s[i] \in Seq(S)
  OBVIOUS
<1>2. /\ t \in Seq(Seq(S)) /\ Len(t) = N - 1
      /\ \A i \in 1..N - 1 : t[i] = s[i]
  BY FrontIs
<1>3. /\ c \in [0..N -> 0..n + 1]
      /\ \A i, j \in 0..N : i < j => c[i] < c[j]
      /\ \A i \in 1..N - 1 : l[c[i]] = m
      /\ \A i \in 1..N :
           /\ Len(s[i]) = c[i] - c[i-1] - 1
           /\ \A j \in 1..Len(s[i]) : s[i][j] = l[c[i-1] + j] /\ s[i][j] # m
  BY DEF Spans
<1>. HIDE DEF N
<1>4. \A i \in 0..N - 1 : i \in 0..N
  BY <1>1
<1>5. d \in [0..N - 1 -> 0..n + 1] /\ \A i \in 0..N - 1 : d[i] = c[i]
  BY <1>3, <1>4
<1>. HIDE DEF d
<1>6. \A i, j \in 0..N - 1 : i < j => d[i] < d[j]
  BY <1>3, <1>4, <1>5
<1>7. \A i \in 1..(N - 1) - 1 : l[d[i]] = m
  <2>1. \A i \in 1..(N - 1) - 1 : i \in 1..N - 1 /\ i \in 0..N - 1
    BY <1>1
  <2>. QED
    BY <1>3, <1>5, <2>1
<1>8. \A i \in 1..N - 1 :
        /\ Len(t[i]) = d[i] - d[i-1] - 1
        /\ \A j \in 1..Len(t[i]) : t[i][j] = l[d[i-1] + j] /\ t[i][j] # m
  <2>1. SUFFICES ASSUME NEW i \in 1..N - 1
                 PROVE  /\ Len(t[i]) = d[i] - d[i-1] - 1
                        /\ \A j \in 1..Len(t[i]) : t[i][j] = l[d[i-1] + j] /\ t[i][j] # m
    OBVIOUS
  <2>2. i \in 1..N /\ i \in 0..N - 1 /\ i - 1 \in 0..N - 1
    BY <1>1
  <2>3. t[i] = s[i] /\ d[i] = c[i] /\ d[i-1] = c[i-1]
    BY <1>2, <1>5, <2>2
  <2>. QED
    BY <1>3, <2>2, <2>3
<1>9. Spans(l, m, n, t, d)
  BY <1>2, <1>5, <1>6, <1>7, <1>8 DEF Spans
<1>10. d[0] = c[0] /\ d[N - 1] = c[N - 1]
  <2>1. 0 \in 0..N - 1 /\ N - 1 \in 0..N - 1
    BY <1>1
  <2>. QED
    BY <1>5, <2>1
<1>. QED
  BY <1>2, <1>9, <1>10 DEF N

(* The words of a line without the mark at its end.                        *)
Foremost(l) == IF l # <<>> /\ Last(l) = "&" THEN Front(l) ELSE l

(* Two elements of a finite set count.                                     *)
LEMMA TwoCount ==
  ASSUME NEW S, NEW l \in Seq(S), NEW m, NEW i \in 1..Len(l), NEW j \in 1..Len(l),
         l[i] = m, l[j] = m, i # j
  PROVE  Cardinality(Places(l, m)) > 1
<1>1. Len(l) \in Nat /\ DOMAIN l = 1..Len(l)
  OBVIOUS
<1>2. IsFiniteSet(1..Len(l))
  <2>1. 1 \in Int /\ Len(l) \in Int
    BY <1>1
  <2>. QED
    BY <2>1, FS_Interval
<1>3. {i, j} \subseteq Places(l, m) /\ Places(l, m) \subseteq 1..Len(l)
  BY <1>1 DEF Places
<1>4. IsFiniteSet(Places(l, m))
  BY <1>2, <1>3, FS_Subset
<1>5. Cardinality({i, j}) <= Cardinality(Places(l, m)) /\ IsFiniteSet({i, j})
  BY <1>3, <1>4, FS_Subset
<1>6. Cardinality({i, j}) = 2
  <2>1. IsFiniteSet({i}) /\ Cardinality({i}) = 1
    BY FS_Singleton
  <2>2. Cardinality({i} \cup {j}) = Cardinality({i}) + 1
    <3>1. j \notin {i}
      OBVIOUS
    <3>. QED
      BY <2>1, <3>1, FS_AddElement
  <2>3. {i} \cup {j} = {i, j}
    OBVIOUS
  <2>4. Cardinality({i, j}) = 1 + 1
    BY <2>1, <2>2, <2>3, Zenon
  <2>. QED
    BY <2>4
<1>7. Cardinality(Places(l, m)) \in Nat
  BY <1>4, FS_CardinalityType
<1>. QED
  BY <1>5, <1>6, <1>7

(* What syntaxCheck lets pass.                                             *)
Checked(l) ==
  /\ \A m \in {"<", ">", "&"} : \A i, j \in 1..Len(l) : l[i] = m /\ l[j] = m => i = j
  /\ \A i, j \in 1..Len(l) : l[i] = "<" /\ l[j] \in {"|", ">"} => i <= j
  /\ \A i, j \in 1..Len(l) : l[i] = ">" /\ l[j] = "|" => ~(i < j)
  /\ \A i \in 1..Len(l) : l[i] = "&" => i = Len(l)

(* That is what it checks.                                                 *)
LEMMA CheckedIs ==
  ASSUME NEW S, NEW l \in Seq(S), ~syntaxCheck(l)
  PROVE  Checked(l)
<1>1. DOMAIN l = 1..Len(l) /\ Len(l) \in Nat
  OBVIOUS
<1>2. ASSUME NEW m \in {"<", ">", "&"}, NEW i \in 1..Len(l), NEW j \in 1..Len(l),
             l[i] = m, l[j] = m
      PROVE  i = j
  <2>1. SUFFICES ASSUME i # j PROVE FALSE
    OBVIOUS
  <2>2. Cardinality(Places(l, m)) > 1
    BY <1>2, <2>1, TwoCount
  <2>. QED
    BY <2>2 DEF syntaxCheck
<1>3. ASSUME NEW i \in 1..Len(l), NEW j \in 1..Len(l), l[i] = "<", l[j] \in {"|", ">"}
      PROVE  i <= j
  <2>1. i \in Places(l, "<") /\ j \in Places(l, "|") \cup Places(l, ">")
    BY <1>1, <1>3 DEF Places
  <2>2. ~(i > j)
    BY <2>1, Zenon DEF syntaxCheck
  <2>. QED
    BY <1>1, <2>2
<1>4. ASSUME NEW i \in 1..Len(l), NEW j \in 1..Len(l), l[i] = ">", l[j] = "|"
      PROVE  ~(i < j)
  <2>1. i \in Places(l, ">") /\ j \in Places(l, "|")
    BY <1>1, <1>4 DEF Places
  <2>. QED
    BY <2>1, Zenon DEF syntaxCheck
<1>5. ASSUME NEW i \in 1..Len(l), l[i] = "&" PROVE i = Len(l)
  <2>1. i \in Places(l, "&")
    BY <1>1, <1>5 DEF Places
  <2>. QED
    BY <2>1, Zenon DEF syntaxCheck
<1>. QED
  BY <1>2, <1>3, <1>4, <1>5 DEF Checked

(* It keeps the words before the mark.                                     *)
LEMMA ForemostIs ==
  ASSUME NEW S, NEW l \in Seq(S), Checked(l)
  PROVE  LET a == Foremost(l) IN
         /\ a \in Seq(S) /\ Len(a) <= Len(l) /\ Len(a) \in Nat /\ Len(l) \in Nat
         /\ \A i \in 1..Len(a) : i \in 1..Len(l) /\ a[i] = l[i] /\ a[i] # "&"
<1>. DEFINE a == Foremost(l)
<1>1. Len(l) \in Nat /\ (l # <<>> => Len(l) >= 1)
  OBVIOUS
<1>2. CASE l # <<>> /\ Last(l) = "&"
  <2>1. a = Front(l)
    BY <1>2 DEF Foremost
  <2>2. /\ a \in Seq(S) /\ Len(a) = Len(l) - 1 /\ Len(l) - 1 \in Nat
        /\ \A i \in 1..Len(l) - 1 : a[i] = l[i]
    BY <1>2, <2>1, FrontIs
  <2>. HIDE DEF a
  <2>3. \A i \in 1..Len(l) - 1 : i \in 1..Len(l) /\ i # Len(l)
    BY <1>1
  <2>. QED
    BY <1>1, <2>2, <2>3 DEF Checked, a
<1>3. CASE ~(l # <<>> /\ Last(l) = "&")
  <2>1. a = l
    BY <1>3 DEF Foremost
  <2>2. \A i \in 1..Len(l) : l[i] # "&"
    <3>1. SUFFICES ASSUME NEW i \in 1..Len(l), l[i] = "&" PROVE FALSE
      OBVIOUS
    <3>2. i = Len(l)
      BY <3>1 DEF Checked
    <3>. QED
      BY <1>3, <3>1, <3>2 DEF Last
  <2>. QED
    BY <1>1, <2>1, <2>2
<1>. QED
  BY <1>2, <1>3

(* The commands of a line are its parts between |, in full and in order.   *)
LEMMA CommandsSpan ==
  ASSUME NEW S, NEW l \in Seq(S), NEW a, a = Foremost(l), a \in Seq(S)
  PROVE  /\ Commands(l) \in Seq(Seq(S))
         /\ \E d : /\ Spans(a, "|", Len(a), Commands(l), d)
                   /\ Commands(l) # <<>> /\ (\A i \in 1..Len(Commands(l)) : Commands(l)[i] # <<>>)
                        => Bare(a) = SubSeq(a, d[0] + 1, d[Len(Commands(l))] - 1)
<1>. DEFINE n == Len(a)
            parts == Split(a, "|")
            some == IF Head(parts) = <<>> THEN Tail(parts) ELSE parts
            amp == l # <<>> /\ Last(l) = "&"
            drop == some # <<>> /\ Last(some) = <<>> /\ ~amp
            b == IF Head(a) = "|" THEN Tail(a) ELSE a
<1>1. n \in Nat /\ a \in Seq(S)
  OBVIOUS
<1>2. Commands(l) = IF drop THEN Front(some) ELSE some
  BY DEF Commands, Foremost
<1>3. /\ parts \in Seq(Seq(S)) /\ Len(parts) >= 1
      /\ \E c : IsCut(a, "|", n, parts, c)
  BY SplitCut
<1>4. PICK c : IsCut(a, "|", n, parts, c)
  BY <1>3
<1>. HIDE DEF parts
<1>5. /\ Spans(a, "|", n, parts, c) /\ c[0] = 0 /\ c[Len(parts)] = n + 1
      /\ c \in [0..Len(parts) -> 0..n + 1]
      /\ \A i \in 1..Len(parts) - 1 : a[c[i]] = "|"
      /\ Len(parts[1]) = c[1] - c[1-1] - 1
      /\ \A j \in 1..Len(parts[1]) : parts[1][j] = a[c[1-1] + j] /\ parts[1][j] # "|"
  <2>1. 1 \in 1..Len(parts)
    BY <1>3
  <2>. QED
    BY <1>4, <2>1 DEF IsCut, Spans
<1>6. /\ Len(parts) \in Nat /\ 1 \in 0..Len(parts) /\ c[1] \in 0..n + 1
      /\ Len(parts[1]) = c[1] - 1 /\ parts[1] \in Seq(S)
      /\ \A j \in 1..Len(parts[1]) : parts[1][j] = a[j] /\ parts[1][j] # "|"
  <2>1. Len(parts) \in Nat /\ 1 \in 0..Len(parts) /\ 1 \in 1..Len(parts) /\ parts[1] \in Seq(S)
    BY <1>3
  <2>2. /\ Len(parts) \in Nat /\ 1 \in 0..Len(parts) /\ 1 \in 1..Len(parts)
        /\ c[1] \in 0..n + 1 /\ parts[1] \in Seq(S)
    <3>. HIDE DEF n
    <3>. QED
      BY <1>5, <2>1
  <2>3. c[1-1] = 0 /\ c[1] - 0 - 1 = c[1] - 1
    BY <1>5, <2>2
  <2>4. \A j \in 1..Len(parts[1]) : 0 + j = j
    BY <2>2
  <2>. QED
    BY <1>5, <2>2, <2>3, <2>4
<1>7. \E e : /\ some \in Seq(Seq(S)) /\ Spans(a, "|", n, some, e) /\ e[Len(some)] = n + 1
             /\ some # <<>> => b = SubSeq(a, e[0] + 1, n)
  <2>1. CASE parts[1] = <<>>
    <3>1. some = Tail(parts) /\ parts # <<>>
      BY <1>3, <2>1
    <3>. HIDE DEF some
    <3>2. /\ Tail(parts) \in Seq(Seq(S)) /\ Len(Tail(parts)) = Len(parts) - 1
          /\ \E e : /\ Spans(a, "|", n, Tail(parts), e)
                    /\ e[0] = c[1] /\ e[Len(Tail(parts))] = c[Len(parts)]
      <4>. HIDE DEF n
      <4>1. n \in Nat /\ parts \in Seq(Seq(S)) /\ Spans(a, "|", n, parts, c)
        BY <1>1, <1>3, <1>5
      <4>. QED
        BY <3>1, <4>1, TailSpans
    <3>3. PICK e : /\ Spans(a, "|", n, Tail(parts), e)
                   /\ e[0] = c[1] /\ e[Len(Tail(parts))] = c[Len(parts)]
      BY <3>2
    <3>4. c[1] = 1
      BY <1>6, <2>1
    <3>5. ASSUME some # <<>> PROVE b = SubSeq(a, e[0] + 1, n)
      <4>1. 1 \in 1..Len(parts) - 1
        <5>1. Len(Tail(parts)) # 0
          <6>1. Tail(parts) \in Seq(Seq(S)) /\ Tail(parts) # <<>>
            BY <3>1, <3>2, <3>5
          <6>. QED
            BY <6>1, EmptySeq
        <5>2. Len(parts) - 1 # 0 /\ Len(parts) \in Nat /\ Len(parts) >= 1
          BY <1>3, <1>6, <3>2, <5>1
        <5>3. \A L \in Nat : L >= 1 /\ L - 1 # 0 => 1 \in 1..L - 1
          OBVIOUS
        <5>. QED
          BY <5>2, <5>3
      <4>2. a[1] = "|"
        BY <1>5, <3>4, <4>1
      <4>3. a # <<>>
        <5>1. c[1] < c[Len(parts)]
          <6>1. 1 \in 0..Len(parts) /\ Len(parts) \in 0..Len(parts) /\ 1 < Len(parts)
            BY <1>6, <4>1
          <6>. QED
            BY <1>5, <6>1 DEF Spans
        <5>2. 1 < n + 1
          BY <1>5, <3>4, <5>1
        <5>. QED
          BY <1>1, <5>2
      <4>4. b = Tail(a)
        BY <4>2, <4>3
      <4>5. Tail(a) = SubSeq(a, 2, n)
        BY <4>3, TailIsSubSeq
      <4>6. e[0] + 1 = 2
        BY <3>3, <3>4
      <4>. QED
        BY <4>4, <4>5, <4>6
    <3>. HIDE DEF some, b
    <3>. QED
      BY <1>5, <3>1, <3>2, <3>3, <3>5
  <2>2. CASE parts[1] # <<>>
    <3>1. some = parts
      BY <1>3, <2>2
    <3>2. Len(parts[1]) >= 1 /\ 1 \in 1..Len(parts[1])
      BY <1>6, <2>2
    <3>3. a[1] # "|" /\ n >= 1
      BY <1>1, <1>6, <3>2
    <3>4. b = a
      BY <1>1, <3>3
    <3>5. SubSeq(a, 0 + 1, n) = a
      BY <1>1, SubSeqFull
    <3>. HIDE DEF some, b
    <3>. QED
      BY <1>3, <1>5, <3>1, <3>4, <3>5
  <2>. QED
    BY <2>1, <2>2
<1>8. PICK e : /\ some \in Seq(Seq(S)) /\ Spans(a, "|", n, some, e) /\ e[Len(some)] = n + 1
               /\ some # <<>> => b = SubSeq(a, e[0] + 1, n)
  BY <1>7
<1>9. Bare(a) = IF b # <<>> /\ Last(b) = "|" THEN Front(b) ELSE b
  BY DEF Bare
<1>. HIDE DEF some, b
<1>. DEFINE M == Len(some)
<1>10. /\ M \in Nat /\ (some # <<>> => M >= 1)
       /\ e \in [0..M -> 0..n + 1]
       /\ \A i, j \in 0..M : i < j => e[i] < e[j]
       /\ \A i \in 1..M - 1 : a[e[i]] = "|"
       /\ \A i \in 1..M :
            /\ Len(some[i]) = e[i] - e[i-1] - 1 /\ some[i] \in Seq(S)
            /\ \A j \in 1..Len(some[i]) : some[i][j] = a[e[i-1] + j] /\ some[i][j] # "|"
  BY <1>8 DEF Spans
<1>11. ASSUME some # <<>>, some[1] # <<>>
       PROVE  /\ b # <<>> /\ Last(b) = a[n] /\ n >= 1 /\ e[0] \in 0..n - 1
              /\ Front(b) = SubSeq(a, e[0] + 1, n - 1)
  <2>1. 0 \in 0..M /\ 1 \in 0..M /\ 1 \in 1..M /\ M >= 1
    BY <1>10, <1>11
  <2>2. e[0] \in 0..n + 1 /\ e[1] \in 0..n + 1
    BY <1>10, <2>1
  <2>3. Len(some[1]) = e[1] - e[0] - 1 /\ Len(some[1]) >= 1
    <3>1. Len(some[1]) = e[1] - e[1-1] - 1 /\ some[1] \in Seq(S)
      BY <1>10, <2>1
    <3>. QED
      BY <1>11, <3>1
  <2>4. e[0] \in 0..n - 1 /\ n >= 1
    BY <1>1, <2>2, <2>3
  <2>5. b = SubSeq(a, e[0] + 1, n)
    BY <1>8, <1>11
  <2>. DEFINE p == e[0] + 1
  <2>6. p \in 1..n
    BY <1>1, <2>4
  <2>7. b = SubSeq(a, p, n)
    BY <2>5
  <2>. HIDE DEF p
  <2>8. b = SubSeq(a, p, n - 1) \o <<a[n]>>
    <3>1. p \in 1..Len(a) /\ n \in p..Len(a)
      BY <1>1, <2>6
    <3>2. SubSeq(a, p, n) = SubSeq(a, p, n - 1) \o <<a[n]>>
      <4>. HIDE DEF n
      <4>. QED
        BY <1>1, <3>1, SubSeqRecursiveSecond
    <3>. QED
      BY <2>7, <3>2
  <2>9. SubSeq(a, p, n - 1) \in Seq(S) /\ a[n] \in S
    <3>1. \A i \in p..n - 1 : a[i] \in S
      BY <1>1, <2>6
    <3>. QED
      BY <1>1, <2>6, <3>1, SubSeqProperties
  <2>10. b = Append(SubSeq(a, p, n - 1), a[n])
    BY <2>8, <2>9, AppendIsConcat
  <2>. DEFINE q == SubSeq(a, p, n - 1)
  <2>. HIDE DEF q
  <2>11. q \in Seq(S) /\ b = Append(q, a[n])
    BY <2>9, <2>10 DEF q
  <2>12. b \in Seq(S) /\ Len(b) = Len(q) + 1 /\ b[Len(b)] = a[n] /\ b # <<>>
         /\ \A i \in 1..Len(q) : b[i] = q[i]
    <3>1. \A u \in Seq(S) : \A v \in S :
            /\ Append(u, v) \in Seq(S) /\ Len(Append(u, v)) = Len(u) + 1
            /\ Append(u, v)[Len(u) + 1] = v /\ Append(u, v) # <<>>
            /\ \A i \in 1..Len(u) : Append(u, v)[i] = u[i]
      OBVIOUS
    <3>. HIDE DEF n
    <3>2. /\ Append(q, a[n]) \in Seq(S) /\ Len(Append(q, a[n])) = Len(q) + 1
          /\ Append(q, a[n])[Len(q) + 1] = a[n] /\ Append(q, a[n]) # <<>>
          /\ \A i \in 1..Len(q) : Append(q, a[n])[i] = q[i]
      BY <2>9, <2>11, <3>1
    <3>. QED
      BY <2>11, <3>2
  <2>13. Front(b) = q
    <3>1. /\ Front(b) \in Seq(S) /\ Len(Front(b)) = Len(b) - 1
          /\ \A i \in 1..Len(b) - 1 : Front(b)[i] = b[i]
      BY <2>12, FrontIs
    <3>2. Len(b) - 1 = Len(q)
      BY <2>11, <2>12
    <3>. HIDE DEF b
    <3>. QED
      BY <2>11, <2>12, <3>1, <3>2, SeqEqual
  <2>. QED
    BY <2>4, <2>12, <2>13 DEF q, p, Last
<1>12. CASE drop
  <2>1. some # <<>> /\ some[M] = <<>>
    BY <1>12 DEF Last
  <2>2. Front(some) \in Seq(Seq(S)) /\ Len(Front(some)) = M - 1
        /\ \A i \in 1..M - 1 : Front(some)[i] = some[i]
    BY <1>8, <2>1, FrontIs
  <2>3. \E d : /\ Spans(a, "|", n, Front(some), d)
               /\ d[0] = e[0] /\ d[Len(Front(some))] = e[Len(Front(some))]
    <3>. HIDE DEF n
    <3>1. n \in Nat /\ some \in Seq(Seq(S)) /\ some # <<>> /\ Spans(a, "|", n, some, e)
      BY <1>1, <1>8, <2>1
    <3>. QED
      BY <3>1, FrontSpans
  <2>4. PICK d : /\ Spans(a, "|", n, Front(some), d)
                 /\ d[0] = e[0] /\ d[Len(Front(some))] = e[M - 1]
    <3>1. PICK d : /\ Spans(a, "|", n, Front(some), d)
                   /\ d[0] = e[0] /\ d[Len(Front(some))] = e[Len(Front(some))]
      BY <2>3
    <3>2. d[Len(Front(some))] = e[M - 1]
      BY <2>2, <3>1
    <3>. HIDE DEF M, n
    <3>. QED
      BY <3>1, <3>2
  <2>5. ASSUME Front(some) # <<>>, \A i \in 1..M - 1 : Front(some)[i] # <<>>
        PROVE  Bare(a) = SubSeq(a, d[0] + 1, d[M - 1] - 1)
    <3>1. M - 1 \in 1..M - 1 /\ 1 \in 1..M - 1 /\ M \in 1..M
      BY <1>10, <2>2, <2>5
    <3>2. some[1] # <<>>
      BY <2>2, <2>5, <3>1
    <3>3. e[M - 1] = n
      <4>1. Len(some[M]) = e[M] - e[M-1] - 1 /\ Len(some[M]) = 0
        <5>. HIDE DEF M
        <5>. QED
          BY <1>10, <2>1, <3>1
      <4>2. e[M - 1] \in 0..n + 1
        <5>1. M - 1 \in 0..M
          BY <1>10, <3>1
        <5>. HIDE DEF M, n
        <5>. QED
          BY <1>10, <5>1
      <4>. QED
        BY <1>1, <1>8, <4>1, <4>2
    <3>4. a[n] = "|"
      BY <1>10, <3>1, <3>3
    <3>. HIDE DEF M
    <3>5. Bare(a) = SubSeq(a, e[0] + 1, n - 1)
      BY <1>9, <1>11, <2>1, <3>2, <3>4
    <3>. QED
      BY <2>2, <2>4, <3>3, <3>5
  <2>6. Commands(l) = Front(some)
    BY <1>2, <1>12
  <2>. HIDE DEF M
  <2>. QED
    BY <2>2, <2>4, <2>5, <2>6
<1>13. CASE ~drop
  <2>1. Commands(l) = some
    BY <1>2, <1>13
  <2>2. ASSUME some # <<>>, \A i \in 1..M : some[i] # <<>>
        PROVE  Bare(a) = SubSeq(a, e[0] + 1, e[M] - 1)
    <3>1. M \in 1..M /\ 1 \in 1..M
      BY <1>10, <2>2
    <3>2. some[1] # <<>> /\ some[M] # <<>> /\ some[M] \in Seq(S)
      BY <1>10, <2>2, <3>1
    <3>3. a[n] # "|"
      <4>. DEFINE j == Len(some[M])
      <4>1. j \in 1..j /\ j \in Nat
        BY <3>2
      <4>2. j = e[M] - e[M-1] - 1 /\ some[M][j] = a[e[M-1] + j] /\ some[M][j] # "|"
        <5>. HIDE DEF M
        <5>. QED
          BY <1>10, <3>1, <4>1
      <4>3. e[M-1] \in 0..n + 1
        <5>1. M - 1 \in 0..M
          BY <1>10, <3>1
        <5>. HIDE DEF M, n
        <5>. QED
          BY <1>10, <5>1
      <4>4. e[M-1] + j = n
        BY <1>1, <1>8, <4>1, <4>2, <4>3
      <4>. QED
        BY <4>2, <4>4
    <3>4. e[M] - 1 = n /\ Last(b) # "|"
      BY <1>1, <1>8, <1>11, <2>2, <3>2, <3>3
    <3>5. Bare(a) = b
      BY <1>9, <3>4
    <3>. QED
      BY <1>8, <2>2, <3>4, <3>5
  <2>. QED
    BY <1>8, <2>1, <2>2
<1>. QED
  BY <1>12, <1>13

-----------------------------------------------------------------------------
(* Stages.                                                                 *)
(* A redirection that is not at the end of its command takes it apart, and *)
(* nothing is lost.                                                        *)
Once(c, m) == \A x, y \in 1..Len(c) : c[x] = m /\ c[y] = m => x = y
Joined(p, m, q) == p \o (IF q = <<>> THEN <<>> ELSE <<m>> \o q)
Before(p, c, m) == \A i \in 1..Len(p) : i \in 1..Len(c) /\ p[i] = c[i] /\ c[i] # m
Behind(q, c, m) == \A j \in 1..Len(q) :
  \E x, y \in 1..Len(c) : x < y /\ c[x] = m /\ q[j] = c[y] /\ c[y] # m

LEMMA RedirectionParts ==
  ASSUME NEW S, NEW c \in Seq(S), NEW m, Once(c, m),
         m \in ToSet(c) => ~Lacks(c, m), NEW r, r = Redirection(c, m)
  PROVE  /\ r[1] \in Seq(S) /\ r[2] \in Seq(S) /\ c = Joined(r[1], m, r[2])
         /\ Before(r[1], c, m) /\ Behind(r[2], c, m)
<1>1. Len(c) \in Nat /\ DOMAIN c = 1..Len(c) /\ \A i \in 1..Len(c) : c[i] \in S
  OBVIOUS
<1>2. CASE m \notin ToSet(c)
  <2>1. r = <<c, <<>>>>
    BY <1>2 DEF Redirection
  <2>2. \A i \in 1..Len(c) : c[i] # m
    BY <1>1, <1>2 DEF ToSet
  <2>3. c \o <<>> = c
    OBVIOUS
  <2>4. Len(<<>>) = 0 /\ <<>> \in Seq(S)
    OBVIOUS
  <2>. QED
    BY <1>1, <2>1, <2>2, <2>3, <2>4 DEF Joined, Before, Behind
<1>3. CASE m \in ToSet(c)
  <2>. DEFINE n == Len(c)
  <2>1. PICK x \in 1..n : c[x] = m
    BY <1>1, <1>3 DEF ToSet
  <2>2. x # n
    BY <1>3, <2>1 DEF Lacks, Last
  <2>3. r = Split(c, m)
    BY <1>3 DEF Redirection
  <2>4. r[1] = SubSeq(c, 1, x - 1) /\ r[2] = SubSeq(c, x + 1, n)
    <3>1. \A y \in 1..Len(c) : c[y] = m => y = x
      BY <2>1 DEF Once
    <3>. QED
      BY <2>1, <2>3, <3>1, SplitOnce
  <2>5. n \in Nat /\ x \in 1..n /\ x < n /\ n = Len(c)
    <3>1. \A N \in Nat : \A y \in 1..N : y # N => y < N
      OBVIOUS
    <3>. QED
      BY <1>1, <2>1, <2>2, <3>1
  <2>. HIDE DEF n
  <2>6. \A y \in 1..n : y # x => c[y] # m
    BY <2>1, <2>5 DEF Once
  <2>7. /\ r[1] \in Seq(S) /\ Len(r[1]) = x - 1
        /\ \A i \in 1..x - 1 : r[1][i] = c[i]
    <3>1. \A i \in 1..x - 1 : c[i] \in S
      BY <1>1, <2>5
    <3>2. /\ SubSeq(c, 1, x - 1) \in Seq(S)
          /\ Len(SubSeq(c, 1, x - 1)) = IF 1 <= x - 1 THEN (x - 1) - 1 + 1 ELSE 0
          /\ \A i \in 1..((x - 1) - 1 + 1) : SubSeq(c, 1, x - 1)[i] = c[1 + i - 1]
      BY <2>5, <3>1, SubSeqProperties
    <3>3. (IF 1 <= x - 1 THEN (x - 1) - 1 + 1 ELSE 0) = x - 1 /\ (x - 1) - 1 + 1 = x - 1
          /\ \A i \in 1..x - 1 : 1 + i - 1 = i
      BY <2>5
    <3>. QED
      BY <2>4, <3>2, <3>3
  <2>8. /\ r[2] \in Seq(S) /\ Len(r[2]) = n - x
        /\ \A j \in 1..n - x : r[2][j] = c[x + j]
    <3>1. \A i \in x + 1..n : c[i] \in S
      BY <1>1, <2>5
    <3>2. /\ SubSeq(c, x + 1, n) \in Seq(S)
          /\ Len(SubSeq(c, x + 1, n)) = IF x + 1 <= n THEN n - (x + 1) + 1 ELSE 0
          /\ \A j \in 1..(n - (x + 1) + 1) : SubSeq(c, x + 1, n)[j] = c[(x + 1) + j - 1]
      BY <2>5, <3>1, SubSeqProperties
    <3>3. (IF x + 1 <= n THEN n - (x + 1) + 1 ELSE 0) = n - x /\ n - (x + 1) + 1 = n - x
          /\ \A j \in 1..n - x : (x + 1) + j - 1 = x + j
      BY <2>5
    <3>. QED
      BY <2>4, <3>2, <3>3
  <2>9. r[2] # <<>>
    BY <2>5, <2>8
  <2>10. c = r[1] \o (<<m>> \o r[2])
    <3>1. SubSeq(c, x, n) = <<c[x]>> \o SubSeq(c, x + 1, n)
      <4>1. x \in 1..Len(c) /\ n \in x..Len(c)
        BY <2>5
      <4>. QED
        BY <4>1, SubSeqRecursiveFirst
    <3>2. SubSeq(c, 1, x - 1) \o SubSeq(c, (x - 1) + 1, n) = SubSeq(c, 1, n)
      <4>1. 1 \in 1..Len(c) + 1 /\ x - 1 \in 1 - 1..Len(c) /\ n \in x - 1..Len(c)
        BY <2>5
      <4>. QED
        BY <4>1, ConcatAdjacentSubSeq
    <3>3. (x - 1) + 1 = x
      BY <2>5
    <3>4. SubSeq(c, 1, n) = c
      BY <2>5, SubSeqFull
    <3>. QED
      BY <2>1, <2>4, <3>1, <3>2, <3>3, <3>4
  <2>11. \A i \in 1..Len(r[1]) : i \in 1..Len(c) /\ r[1][i] = c[i] /\ c[i] # m
    <3>1. \A i \in 1..x - 1 : i \in 1..n /\ i # x
      BY <2>5
    <3>. QED
      BY <2>5, <2>6, <2>7, <3>1
  <2>12. ASSUME NEW j \in 1..Len(r[2])
         PROVE  x < x + j /\ x + j \in 1..Len(c) /\ r[2][j] = c[x + j] /\ c[x + j] # m
    <3>1. j \in 1..n - x /\ x + j \in 1..n /\ x < x + j /\ x + j # x
      BY <2>5, <2>8
    <3>. QED
      BY <2>5, <2>6, <2>8, <3>1
  <2>13. Behind(r[2], c, m)
    <3>1. x \in 1..Len(c)
      BY <2>1, <2>5
    <3>. QED
      BY <2>1, <2>12, <3>1 DEF Behind
  <2>14. c = Joined(r[1], m, r[2])
    BY <2>9, <2>10 DEF Joined
  <2>15. Before(r[1], c, m)
    BY <2>11 DEF Before
  <2>. QED
    BY <2>7, <2>8, <2>13, <2>14, <2>15
<1>. QED
  BY <1>2, <1>3

(* The marks stand where they should: < in the first command, > in the     *)
(* last, each at most once and < before >.                                 *)
Clean(cs) == \A i \in 1..Len(cs) :
  /\ \A j \in 1..Len(cs[i]) :
       /\ cs[i][j] # "|" /\ cs[i][j] # "&"
       /\ cs[i][j] = "<" => i = 1
       /\ cs[i][j] = ">" => i = Len(cs)
  /\ \A m \in {"<", ">"} : \A x, y \in 1..Len(cs[i]) : cs[i][x] = m /\ cs[i][y] = m => x = y
  /\ \A x, y \in 1..Len(cs[i]) : cs[i][x] = "<" /\ cs[i][y] = ">" => x <= y

(* They do after syntaxCheck.                                              *)
LEMMA CommandsClean ==
  ASSUME NEW S, NEW l \in Seq(S), ~syntaxCheck(l)
  PROVE  Commands(l) \in Seq(Seq(S)) /\ Clean(Commands(l))
<1>. DEFINE a == Foremost(l)
            cs == Commands(l)
            n == Len(a)
            K == Len(cs)
<1>1. Checked(l)
  BY CheckedIs
<1>2. /\ a \in Seq(S) /\ n \in Nat /\ Len(l) \in Nat
      /\ \A i \in 1..n : i \in 1..Len(l) /\ a[i] = l[i] /\ a[i] # "&"
  BY <1>1, ForemostIs
<1>. HIDE DEF a
<1>3. cs \in Seq(Seq(S)) /\ \E d : Spans(a, "|", Len(a), cs, d)
  BY <1>2, CommandsSpan DEF a
<1>4. PICK d : Spans(a, "|", n, cs, d)
  BY <1>3
<1>. HIDE DEF cs, n
<1>5. /\ d \in [0..K -> 0..n + 1]
      /\ \A i, j \in 0..K : i < j => d[i] < d[j]
      /\ \A i \in 1..K - 1 : a[d[i]] = "|"
      /\ \A i \in 1..K :
           /\ Len(cs[i]) = d[i] - d[i-1] - 1
           /\ \A j \in 1..Len(cs[i]) : cs[i][j] = a[d[i-1] + j] /\ cs[i][j] # "|"
  BY <1>4 DEF Spans
<1>6. K \in Nat /\ \A i \in 1..K : cs[i] \in Seq(S)
  BY <1>3
<1>. HIDE DEF K
<1>7. \A i, j \in 1..n : i \in 1..Len(l) /\ j \in 1..Len(l) /\ a[i] = l[i] /\ a[j] = l[j]
  BY <1>2
<1>8. /\ \A m \in {"<", ">"} : \A i, j \in 1..n : a[i] = m /\ a[j] = m => i = j
      /\ \A i, j \in 1..n : a[i] = "<" /\ (a[j] = "|" \/ a[j] = ">") => i <= j
      /\ \A i, j \in 1..n : a[i] = ">" /\ a[j] = "|" => ~(i < j)
  <2>1. \A m \in {"<", ">"} : \A i, j \in 1..Len(l) : l[i] = m /\ l[j] = m => i = j
    BY <1>1 DEF Checked
  <2>2. \A i, j \in 1..Len(l) : l[i] = "<" /\ (l[j] = "|" \/ l[j] = ">") => i <= j
    BY <1>1 DEF Checked
  <2>3. \A i, j \in 1..Len(l) : l[i] = ">" /\ l[j] = "|" => ~(i < j)
    BY <1>1 DEF Checked
  <2>. QED
    BY <1>7, <2>1, <2>2, <2>3
<1>9. ASSUME NEW i \in 1..K
      PROVE  /\ \A j \in 1..Len(cs[i]) :
                  /\ cs[i][j] # "|" /\ cs[i][j] # "&"
                  /\ cs[i][j] = "<" => i = 1
                  /\ cs[i][j] = ">" => i = K
             /\ \A m \in {"<", ">"} : \A x, y \in 1..Len(cs[i]) :
                  cs[i][x] = m /\ cs[i][y] = m => x = y
             /\ \A x, y \in 1..Len(cs[i]) : cs[i][x] = "<" /\ cs[i][y] = ">" => x <= y
  <2>. DEFINE p == d[i-1]
              q == d[i]
              L == Len(cs[i])
  <2>1. i - 1 \in 0..K /\ i \in 0..K /\ i - 1 < i
    BY <1>6
  <2>2. p \in 0..n + 1 /\ q \in 0..n + 1 /\ p < q
    BY <1>5, <2>1
  <2>3. L = q - p - 1 /\ \A j \in 1..L : cs[i][j] = a[p + j] /\ cs[i][j] # "|"
    BY <1>5
  <2>4. i # 1 => p \in 1..n /\ a[p] = "|"
    <3>1. SUFFICES ASSUME i # 1 PROVE p \in 1..n /\ a[p] = "|"
      OBVIOUS
    <3>2. i - 1 \in 1..K - 1 /\ 0 \in 0..K /\ 0 < i - 1
      BY <1>6, <3>1
    <3>3. d[0] < p /\ d[0] \in 0..n + 1
      BY <1>5, <2>1, <3>2
    <3>4. a[p] = "|"
      BY <1>5, <3>2
    <3>. QED
      BY <1>2, <2>2, <3>3, <3>4 DEF n
  <2>5. i # K => q \in 1..n /\ a[q] = "|"
    <3>1. SUFFICES ASSUME i # K PROVE q \in 1..n /\ a[q] = "|"
      OBVIOUS
    <3>2. i \in 1..K - 1 /\ K \in 0..K /\ i < K
      BY <1>6, <3>1
    <3>3. q < d[K] /\ d[K] \in 0..n + 1
      BY <1>5, <2>1, <3>2
    <3>4. a[q] = "|"
      BY <1>5, <3>2
    <3>. QED
      BY <1>2, <2>2, <3>3, <3>4 DEF n
  <2>. HIDE DEF p, q, L
  <2>6. \A j \in 1..L : p + j \in 1..n /\ p < p + j /\ p + j < q
    BY <1>2, <2>2, <2>3 DEF n
  <2>7. ASSUME NEW j \in 1..L
        PROVE  /\ cs[i][j] # "|" /\ cs[i][j] # "&"
               /\ cs[i][j] = "<" => i = 1
               /\ cs[i][j] = ">" => i = K
    <3>1. /\ cs[i][j] = a[p + j] /\ cs[i][j] # "|"
          /\ p + j \in 1..n /\ p < p + j /\ p + j < q
      BY <2>3, <2>6
    <3>2. a[p + j] # "&"
      BY <1>2, <3>1 DEF n
    <3>3. ASSUME a[p + j] = "<", i # 1 PROVE FALSE
      <4>1. p + j <= p
        BY <1>8, <2>4, <3>1, <3>3
      <4>. QED
        BY <2>2, <3>1, <4>1
    <3>4. ASSUME a[p + j] = ">", i # K PROVE FALSE
      BY <1>8, <2>5, <3>1, <3>4
    <3>. QED
      BY <3>1, <3>2, <3>3, <3>4
  <2>8. ASSUME NEW m \in {"<", ">"}, NEW x \in 1..L, NEW y \in 1..L, cs[i][x] = m, cs[i][y] = m
        PROVE  x = y
    <3>1. a[p + x] = m /\ a[p + y] = m /\ p + x \in 1..n /\ p + y \in 1..n
      BY <2>3, <2>6, <2>8
    <3>2. p + x = p + y
      BY <1>8, <3>1
    <3>. QED
      BY <2>2, <3>2
  <2>9. ASSUME NEW x \in 1..L, NEW y \in 1..L, cs[i][x] = "<", cs[i][y] = ">"
        PROVE  x <= y
    <3>1. a[p + x] = "<" /\ a[p + y] = ">" /\ p + x \in 1..n /\ p + y \in 1..n
      BY <2>3, <2>6, <2>9
    <3>2. p + x <= p + y
      BY <1>8, <3>1
    <3>. QED
      BY <2>2, <3>2
  <2>. QED
    BY <2>7, <2>8, <2>9 DEF L
<1>. QED
  BY <1>3, <1>9 DEF Clean, K, cs

(* A sequence whose elements are in T is one over T.                       *)
LEMMA SeqOver ==
  ASSUME NEW S, NEW s \in Seq(S), NEW T, \A i \in 1..Len(s) : s[i] \in T
  PROVE  s \in Seq(T)
<1>1. Len(s) \in Nat /\ s = [i \in 1..Len(s) |-> s[i]]
  OBVIOUS
<1>2. s \in [1..Len(s) -> T]
  BY <1>1
<1>. QED
  BY <1>1, <1>2, SeqDef

(* The same when there may be no redirection: what is before it is p and   *)
(* what is behind it q.                                                    *)
IsRedirected(S, c, m, b, p, q) ==
  /\ c \in Seq(S) /\ Once(c, m) /\ (\A x \in 1..Len(c) : c[x] = m => b)
  /\ b \in BOOLEAN /\ (b /\ m \in ToSet(c) => ~Lacks(c, m))
  /\ p = IF b THEN Redirection(c, m)[1] ELSE c
  /\ q = IF b THEN Redirection(c, m)[2] ELSE <<>>

LEMMA RedirectionIf ==
  ASSUME NEW S, NEW c, NEW m, NEW b, NEW p, NEW q, IsRedirected(S, c, m, b, p, q)
  PROVE  /\ p \in Seq(S) /\ q \in Seq(S) /\ c = Joined(p, m, q)
         /\ Before(p, c, m) /\ Behind(q, c, m)
<1>1. /\ c \in Seq(S) /\ Once(c, m) /\ (\A x \in 1..Len(c) : c[x] = m => b)
      /\ b \in BOOLEAN /\ (b /\ m \in ToSet(c) => ~Lacks(c, m))
      /\ p = IF b THEN Redirection(c, m)[1] ELSE c
      /\ q = IF b THEN Redirection(c, m)[2] ELSE <<>>
  BY Zenon DEF IsRedirected
<1>2. CASE b
  <2>1. p = Redirection(c, m)[1] /\ q = Redirection(c, m)[2]
    BY <1>1, <1>2
  <2>2. PICK r : r = Redirection(c, m)
    OBVIOUS
  <2>3. /\ r[1] \in Seq(S) /\ r[2] \in Seq(S) /\ c = Joined(r[1], m, r[2])
        /\ Before(r[1], c, m) /\ Behind(r[2], c, m)
    BY <1>1, <1>2, <2>2, RedirectionParts
  <2>4. p = r[1] /\ q = r[2]
    BY <2>1, <2>2
  <2>. QED
    BY <2>3, <2>4
<1>3. CASE ~b
  <2>1. p = c /\ q = <<>>
    BY <1>1, <1>3
  <2>2. c = c \o <<>> /\ Len(<<>>) = 0 /\ <<>> \in Seq(S)
    BY <1>1
  <2>3. \A x \in 1..Len(c) : c[x] # m
    BY <1>1, <1>3
  <2>4. \A j \in 1..Len(q) : FALSE
    BY <2>1, <2>2
  <2>5. Behind(q, c, m)
    BY <2>4 DEF Behind
  <2>6. Before(p, c, m)
    BY <2>1, <2>3 DEF Before
  <2>7. c = Joined(p, m, q)
    BY <2>1, <2>2 DEF Joined
  <2>. QED
    BY <1>1, <2>1, <2>2, <2>5, <2>6, <2>7
<1>. QED
  BY <1>1, <1>2, <1>3

(* What a stage is made of.                                                *)
(* The part o before > has what is left when its input is taken away.      *)
IsInput(c, first, o, args, in) ==
  /\ \A j \in 1..Len(c) : c[j] # "|" /\ c[j] # "&" /\ (c[j] = "<" => first)
  /\ Once(c, "<") /\ \A x, y \in 1..Len(c) : c[x] = "<" /\ c[y] = ">" => x <= y
  /\ first \in BOOLEAN /\ (first /\ "<" \in ToSet(c) => ~Lacks(o, "<"))
  /\ args = IF first THEN Redirection(o, "<")[1] ELSE o
  /\ in = IF first THEN Redirection(o, "<")[2] ELSE <<>>

(* All three parts are words.                                              *)
LEMMA StageParts ==
  ASSUME NEW S, S = Words \cup Marks, NEW c, NEW final, NEW o, NEW out,
         IsRedirected(S, c, ">", final, o, out),
         NEW first, NEW args, NEW in, IsInput(c, first, o, args, in)
  PROVE  /\ args \in Seq(Words) /\ in \in Seq(Words) /\ out \in Seq(Words)
         /\ c = Joined(o, ">", out) /\ o = Joined(args, "<", in)
<1>1. /\ \A j \in 1..Len(c) : c[j] # "|" /\ c[j] # "&" /\ (c[j] = "<" => first)
      /\ Once(c, "<") /\ \A x, y \in 1..Len(c) : c[x] = "<" /\ c[y] = ">" => x <= y
      /\ first \in BOOLEAN /\ (first /\ "<" \in ToSet(c) => ~Lacks(o, "<"))
      /\ args = IF first THEN Redirection(o, "<")[1] ELSE o
      /\ in = IF first THEN Redirection(o, "<")[2] ELSE <<>>
  BY Zenon DEF IsInput
<1>2. /\ o \in Seq(S) /\ out \in Seq(S) /\ c = Joined(o, ">", out)
      /\ Before(o, c, ">") /\ Behind(out, c, ">")
  BY RedirectionIf
<1>3. c \in Seq(S)
  BY DEF IsRedirected
<1>4. \A i \in 1..Len(o) : i \in 1..Len(c) /\ o[i] = c[i] /\ c[i] # ">"
  BY <1>2 DEF Before
<1>5. /\ args \in Seq(S) /\ in \in Seq(S) /\ o = Joined(args, "<", in)
      /\ Before(args, o, "<") /\ Behind(in, o, "<")
  <2>1. Once(o, "<")
    BY <1>1, <1>4 DEF Once
  <2>2. \A x \in 1..Len(o) : o[x] = "<" => first
    BY <1>1, <1>4
  <2>3. DOMAIN o = 1..Len(o) /\ DOMAIN c = 1..Len(c)
    BY <1>2, <1>3
  <2>4. "<" \in ToSet(o) => "<" \in ToSet(c)
    BY <1>4, <2>3 DEF ToSet
  <2>5. first /\ "<" \in ToSet(o) => ~Lacks(o, "<")
    BY <1>1, <2>4
  <2>6. IsRedirected(S, o, "<", first, args, in)
    BY <1>1, <1>2, <2>1, <2>2, <2>5 DEF IsRedirected
  <2>. QED
    BY <2>6, RedirectionIf
<1>6. \A i \in 1..Len(c) : c[i] # "<" /\ c[i] # ">" => c[i] \in Words
  <2>1. \A i \in 1..Len(c) : c[i] \in S
    BY <1>3
  <2>. QED
    BY <1>1, <2>1 DEF Marks
<1>7. args \in Seq(Words)
  <2>1. \A i \in 1..Len(args) : i \in 1..Len(o) /\ args[i] = o[i] /\ o[i] # "<"
    BY <1>5 DEF Before
  <2>2. \A i \in 1..Len(args) : args[i] \in Words
    BY <1>4, <1>6, <2>1
  <2>. QED
    BY <1>5, <2>2, SeqOver
<1>8. in \in Seq(Words)
  <2>1. \A j \in 1..Len(in) : \E y \in 1..Len(o) : in[j] = o[y] /\ o[y] # "<"
    BY <1>5 DEF Behind
  <2>2. \A i \in 1..Len(in) : in[i] \in Words
    BY <1>4, <1>6, <2>1
  <2>. QED
    BY <1>5, <2>2, SeqOver
<1>9. out \in Seq(Words)
  <2>1. \A j \in 1..Len(out) :
          \E x, y \in 1..Len(c) : x < y /\ c[x] = ">" /\ out[j] = c[y] /\ c[y] # ">"
    BY <1>2 DEF Behind
  <2>2. ASSUME NEW x \in 1..Len(c), NEW y \in 1..Len(c), x < y, c[x] = ">"
        PROVE  c[y] # "<"
    <3>1. c[y] = "<" => y <= x
      BY <1>1, <2>2
    <3>2. Len(c) \in Nat
      BY <1>3
    <3>. QED
      BY <2>2, <3>1, <3>2
  <2>3. \A i \in 1..Len(out) : out[i] \in Words
    BY <1>6, <2>1, <2>2
  <2>. QED
    BY <1>2, <2>3, SeqOver
<1>. QED
  BY <1>2, <1>5, <1>7, <1>8, <1>9

(* A stage whose redirections do not crash the shell has every word of its *)
(* command, and no mark.                                                   *)
LEMMA StageTyped ==
  ASSUME commands \in Seq(Seq(Words \cup Marks)), Clean(commands),
         NEW n \in 1..Len(commands), ~Crashes(n)
  PROVE  /\ Stage(n).args \in Seq(Words) /\ Stage(n).in \in Seq(Words)
         /\ Stage(n).out \in Seq(Words) /\ Typed(Stage(n)) = commands[n]
<1>1. PICK c : c = commands[n]
  OBVIOUS
<1>2. PICK S : S = Words \cup Marks
  OBVIOUS
<1>3. c \in Seq(S)
  BY <1>1, <1>2
<1>4. /\ \A j \in 1..Len(c) :
           /\ c[j] # "|" /\ c[j] # "&"
           /\ c[j] = "<" => n = 1
           /\ c[j] = ">" => n = Len(commands)
      /\ \A m \in {"<", ">"} : \A x, y \in 1..Len(c) : c[x] = m /\ c[y] = m => x = y
      /\ \A x, y \in 1..Len(c) : c[x] = "<" /\ c[y] = ">" => x <= y
  <2>1. /\ \A j \in 1..Len(commands[n]) :
             /\ commands[n][j] # "|" /\ commands[n][j] # "&"
             /\ commands[n][j] = "<" => n = 1
             /\ commands[n][j] = ">" => n = Len(commands)
        /\ \A m \in {"<", ">"} : \A x, y \in 1..Len(commands[n]) :
             commands[n][x] = m /\ commands[n][y] = m => x = y
        /\ \A x, y \in 1..Len(commands[n]) :
             commands[n][x] = "<" /\ commands[n][y] = ">" => x <= y
    BY DEF Clean
  <2>. QED
    BY <1>1, <2>1, Zenon
<1>5. Once(c, "<") /\ Once(c, ">")
  BY <1>4 DEF Once
<1>6. PICK first \in BOOLEAN : first <=> n = 1
  OBVIOUS
<1>7. PICK final \in BOOLEAN : final <=> last(n)
  BY DEF last
<1>8. PICK o : o = IF final THEN Redirection(c, ">")[1] ELSE c
  OBVIOUS
<1>9. PICK out : out = IF final THEN Redirection(c, ">")[2] ELSE <<>>
  OBVIOUS
<1>10. PICK args : args = IF first THEN Redirection(o, "<")[1] ELSE o
  OBVIOUS
<1>11. PICK in : in = IF first THEN Redirection(o, "<")[2] ELSE <<>>
  OBVIOUS
<1>12. Stage(n) = [args |-> args, in |-> in, out |-> out]
  BY <1>1, <1>6, <1>7, <1>8, <1>9, <1>10, <1>11 DEF Stage
<1>13. final /\ ">" \in ToSet(c) => ~Lacks(c, ">")
  BY <1>1, <1>7, Zenon DEF Crashes
<1>14. first /\ "<" \in ToSet(c) => ~Lacks(o, "<")
  <2>1. o = IF last(n) THEN Redirection(commands[n], ">")[1] ELSE commands[n]
    BY <1>1, <1>7, <1>8
  <2>. QED
    BY <1>1, <1>6, <2>1, Zenon DEF Crashes
<1>15. \A j \in 1..Len(c) :
         /\ c[j] # "|" /\ c[j] # "&" /\ (c[j] = "<" => first) /\ (c[j] = ">" => final)
  BY <1>4, <1>6, <1>7 DEF last
<1>16. \A x, y \in 1..Len(c) : c[x] = "<" /\ c[y] = ">" => x <= y
  BY <1>4
<1>17. /\ args \in Seq(Words) /\ in \in Seq(Words) /\ out \in Seq(Words)
       /\ c = Joined(o, ">", out) /\ o = Joined(args, "<", in)
  <2>1. IsRedirected(S, c, ">", final, o, out)
    BY <1>3, <1>5, <1>8, <1>9, <1>13, <1>15 DEF IsRedirected
  <2>2. IsInput(c, first, o, args, in)
    BY <1>5, <1>10, <1>11, <1>14, <1>15, <1>16 DEF IsInput
  <2>. QED
    BY <1>2, <2>1, <2>2, StageParts
<1>18. /\ Stage(n).args = args /\ Stage(n).in = in /\ Stage(n).out = out
  BY <1>12
<1>. QED
  BY <1>1, <1>17, <1>18 DEF Typed, Joined

-----------------------------------------------------------------------------
(* What the processes of a line put together.                              *)
Extended(t, i) ==
  IF ~Mine(i) THEN t ELSE t \o (IF t = <<>> THEN <<>> ELSE <<"|">>) \o Typed(procs[i].cmd)
IsText(p, n) == p = [i \in 0..n |-> IF i = 0 THEN <<>> ELSE Extended(p[i-1], i)]

(* There is a function that puts them together one after the other.        *)
LEMMA TextExists ==
  ASSUME NEW n \in Nat
  PROVE  \E p : IsText(p, n)
<1>. DEFINE Bad == {i \in Nat : ~\E p : IsText(p, i)}
<1>1. SUFFICES ASSUME Bad # {} PROVE FALSE
  OBVIOUS
<1>2. PICK x \in Bad : \A y \in Bad : x <= y
  <2>. HIDE DEF Bad
  <2>1. Bad \in SUBSET Nat
    BY DEF Bad
  <2>. QED
    BY <1>1, <2>1, HasLeast
<1>3. x # 0
  <2>. DEFINE z == [i \in 0..0 |-> <<>>]
  <2>1. z = [i \in 0..0 |-> IF i = 0 THEN <<>> ELSE Extended(z[i-1], i)]
    OBVIOUS
  <2>. HIDE DEF z
  <2>2. IsText(z, 0)
    BY <2>1 DEF IsText
  <2>. QED
    BY <1>2, <2>2
<1>4. x - 1 \in Nat /\ x \in Nat /\ x - 1 \notin Bad
  BY <1>2, <1>3
<1>5. PICK p : IsText(p, x - 1)
  BY <1>4
<1>. DEFINE e == Extended(p[x-1], x)
            w == [i \in 0..x |-> IF i < x THEN p[i] ELSE e]
<1>6. \A i \in 0..(x - 1) : p[i] = IF i = 0 THEN <<>> ELSE Extended(p[i-1], i)
  BY <1>5, Zenon DEF IsText
<1>7. ASSUME NEW i \in 0..x
      PROVE  w[i] = IF i = 0 THEN <<>> ELSE Extended(w[i-1], i)
  <2>1. CASE i < x
    <3>1. i \in 0..(x - 1) /\ w[i] = p[i] /\ (i # 0 => i - 1 \in 0..x /\ i - 1 < x)
      BY <1>4, <2>1
    <3>2. i # 0 => w[i-1] = p[i-1]
      BY <3>1
    <3>. QED
      BY <1>6, <3>1, <3>2
  <2>2. CASE i = x
    <3>1. i - 1 \in 0..x /\ i - 1 < x /\ ~(i < x) /\ i # 0
      BY <1>3, <1>4, <2>2
    <3>2. w[i] = e /\ w[i-1] = p[x-1]
      BY <2>2, <3>1
    <3>. QED
      BY <2>2, <3>1, <3>2
  <2>. QED
    BY <1>4, <2>1, <2>2
<1>8. w = [i \in 0..x |-> w[i]]
  OBVIOUS
<1>9. IsText(w, x)
  <2>. HIDE DEF w
  <2>. QED
    BY <1>7, <1>8 DEF IsText
<1>. QED
  BY <1>2, <1>9

(* Two pieces and the mark between them are one piece.                     *)
LEMMA JoinOne ==
  ASSUME NEW S, NEW a \in Seq(S), NEW p \in 1..Len(a), NEW q \in p..Len(a), NEW e \in q..Len(a)
  PROVE  (SubSeq(a, p, q - 1) \o <<a[q]>>) \o SubSeq(a, q + 1, e) = SubSeq(a, p, e)
<1>1. SubSeq(a, p, q) = SubSeq(a, p, q - 1) \o <<a[q]>>
  BY SubSeqRecursiveSecond
<1>2. Len(a) \in Nat
  OBVIOUS
<1>3. p \in 1..Len(a) + 1 /\ q \in p - 1..Len(a) /\ e \in q..Len(a)
  BY <1>2
<1>4. SubSeq(a, p, q) \o SubSeq(a, q + 1, e) = SubSeq(a, p, e)
  BY <1>3, ConcatAdjacentSubSeq
<1>. QED
  BY <1>1, <1>4

(* The pieces between the bounds d, all of them.                           *)
Pieces(a, cs, d, K) ==
  /\ K \in Nat /\ K >= 1 /\ d \in [0..K -> 0..Len(a) + 1]
  /\ \A j \in 1..K - 1 : a[d[j]] = "|"
  /\ \A j \in 1..K : d[j-1] < d[j] /\ cs[j] = SubSeq(a, d[j-1] + 1, d[j] - 1)
  /\ \A j \in 1..K : d[0] + 1 \in 1..Len(a) /\ d[0] + 1 <= d[j] - 1 /\ d[j] - 1 <= Len(a)

(* Commands that are not empty are such pieces.                            *)
LEMMA SpansPieces ==
  ASSUME NEW S, NEW a \in Seq(S), NEW cs \in Seq(Seq(S)), NEW d,
         Spans(a, "|", Len(a), cs, d), cs # <<>>, cs[1] # <<>>
  PROVE  Pieces(a, cs, d, Len(cs))
<1>. DEFINE K == Len(cs)
            n == Len(a)
<1>1. K \in Nat /\ K >= 1 /\ n \in Nat /\ \A i \in 1..K : cs[i] \in Seq(S)
  OBVIOUS
<1>2. /\ d \in [0..K -> 0..n + 1]
      /\ \A i, j \in 0..K : i < j => d[i] < d[j]
      /\ \A i \in 1..K - 1 : a[d[i]] = "|"
      /\ \A i \in 1..K :
           /\ Len(cs[i]) = d[i] - d[i-1] - 1
           /\ \A j \in 1..Len(cs[i]) : cs[i][j] = a[d[i-1] + j] /\ cs[i][j] # "|"
  BY DEF Spans
<1>3. Len(cs[1]) >= 1
  <2>1. 1 \in 1..K
    BY <1>1
  <2>2. cs[1] \in Seq(S)
    BY <1>1, <2>1
  <2>3. \A s \in Seq(S) : s # <<>> => Len(s) >= 1
    OBVIOUS
  <2>. QED
    BY <2>2, <2>3
<1>. HIDE DEF K
<1>4. ASSUME NEW i \in 1..K
      PROVE  d[i-1] < d[i] /\ cs[i] = SubSeq(a, d[i-1] + 1, d[i] - 1)
  <2>1. i - 1 \in 0..K /\ i \in 0..K /\ i - 1 < i
    BY <1>1
  <2>2. d[i-1] \in 0..n + 1 /\ d[i] \in 0..n + 1 /\ d[i-1] < d[i]
    BY <1>2, <2>1
  <2>. DEFINE x == d[i-1]
              y == d[i] - 1
  <2>3. x \in Nat /\ y \in Nat /\ x <= y /\ y <= n /\ d[i] - d[i-1] - 1 = y - x
    <3>1. \A L \in Nat : \A u, v \in 0..L + 1 : u < v =>
            u \in Nat /\ v - 1 \in Nat /\ u <= v - 1 /\ v - 1 <= L /\ v - u - 1 = (v - 1) - u
      OBVIOUS
    <3>. HIDE DEF n
    <3>. QED
      BY <1>1, <2>2, <3>1
  <2>4. /\ cs[i] \in Seq(S) /\ Len(cs[i]) = y - x
        /\ \A j \in 1..Len(cs[i]) : cs[i][j] = a[x + j]
    BY <1>1, <1>2, <2>3
  <2>. HIDE DEF x, y
  <2>5. cs[i] = SubSeq(a, x + 1, y)
    BY <2>3, <2>4, PieceIs
  <2>. QED
    BY <2>2, <2>5 DEF x, y
<1>5. 0 \in 0..K /\ 1 \in 0..K /\ 1 \in 1..K /\ d[0] \in 0..n + 1 /\ d[1] \in 0..n + 1
  BY <1>1, <1>2
<1>6. Len(cs[1]) = d[1] - d[0] - 1
  <2>1. Len(cs[1]) = d[1] - d[1-1] - 1
    BY <1>2, <1>5
  <2>2. 1 - 1 = 0
    OBVIOUS
  <2>. QED
    BY <2>1, <2>2, Zenon
<1>7. ASSUME NEW j \in 1..K
      PROVE  d[0] + 1 \in 1..n /\ d[0] + 1 <= d[j] - 1 /\ d[j] - 1 <= n
  <2>1. j \in 0..K /\ d[j] \in 0..n + 1 /\ d[1] <= d[j]
    <3>1. j \in 0..K /\ (j = 1 \/ 1 < j)
      BY <1>1
    <3>2. d[j] \in 0..n + 1 /\ (1 < j => d[1] < d[j])
      BY <1>2, <1>5, <3>1
    <3>. QED
      BY <1>5, <3>1, <3>2
  <2>2. \A L \in Nat : \A u, v, w \in 0..L + 1 : u < v - 1 /\ v <= w =>
          u + 1 \in 1..L /\ u + 1 <= w - 1 /\ w - 1 <= L
    OBVIOUS
  <2>3. d[0] < d[1] - 1
    BY <1>3, <1>5, <1>6
  <2>. HIDE DEF n
  <2>. QED
    BY <1>1, <1>5, <2>1, <2>2, <2>3
<1>. QED
  BY <1>1, <1>2, <1>4, <1>7 DEF Pieces, K

(* The processes are those of the pieces, in their order.                  *)
RunFor(cs, K) ==
  /\ Len(procs) \in Nat /\ K <= Len(procs)
  /\ \A i \in 1..Len(procs) - K : ~Mine(i)
  /\ \A j \in 1..K : Mine((Len(procs) - K) + j) /\ Typed(procs[(Len(procs) - K) + j].cmd) = cs[j]

(* They put together the line from the first bound to the last.            *)
LEMMA AllIs ==
  ASSUME NEW S, NEW a \in Seq(S), NEW cs, NEW d, NEW K, Pieces(a, cs, d, K), RunFor(cs, K)
  PROVE  All = SubSeq(a, d[0] + 1, d[K] - 1)
<1>. DEFINE N == Len(procs)
            b == N - K
            P == CHOOSE p : IsText(p, N)
            f == d[0] + 1
<1>1. /\ N \in Nat /\ K <= N /\ K \in Nat /\ K >= 1
      /\ \A i \in 1..b : ~Mine(i)
      /\ \A j \in 1..K : Mine(b + j) /\ Typed(procs[b + j].cmd) = cs[j]
      /\ d \in [0..K -> 0..Len(a) + 1]
      /\ \A j \in 1..K - 1 : a[d[j]] = "|"
      /\ \A j \in 1..K : d[j-1] < d[j] /\ cs[j] = SubSeq(a, d[j-1] + 1, d[j] - 1)
      /\ \A j \in 1..K : f \in 1..Len(a) /\ f <= d[j] - 1 /\ d[j] - 1 <= Len(a)
  BY DEF Pieces, RunFor
<1>2. IsText(P, N)
  BY <1>1, TextExists
<1>3. All = P[N]
  BY Zenon DEF All, IsText, Extended
<1>. HIDE DEF P
<1>4. \A i \in 0..N : P[i] = IF i = 0 THEN <<>> ELSE Extended(P[i-1], i)
  BY <1>2, Zenon DEF IsText
<1>. HIDE DEF N, f
<1>5. b \in Nat /\ b + K = N /\ \A i \in 0..b : i \in 0..N
  BY <1>1
<1>. HIDE DEF b
<1>6. P[b] = <<>>
  <2>. DEFINE Bad == {i \in Nat : i <= b /\ P[i] # <<>>}
  <2>1. SUFFICES ASSUME Bad # {} PROVE FALSE
    BY <1>5
  <2>2. PICK x \in Bad : \A y \in Bad : x <= y
    <3>. HIDE DEF Bad
    <3>1. Bad \in SUBSET Nat
      BY DEF Bad
    <3>. QED
      BY <2>1, <3>1, HasLeast
  <2>3. x \in Nat /\ x \in 0..b /\ P[x] # <<>> /\ x \in 0..N
    BY <1>5, <2>2
  <2>4. x # 0
    BY <1>4, <2>3
  <2>5. x - 1 \in Nat /\ x - 1 <= b /\ x \in 1..b /\ ~(x <= x - 1)
    BY <1>5, <2>3, <2>4
  <2>6. P[x-1] = <<>>
    BY <2>2, <2>5
  <2>7. P[x] = Extended(P[x-1], x) /\ ~Mine(x)
    BY <1>1, <1>4, <2>3, <2>4, <2>5
  <2>. QED
    BY <2>3, <2>6, <2>7 DEF Extended
<1>. DEFINE G(j) == SubSeq(a, f, d[j] - 1)
<1>7. ASSUME NEW j \in 1..K, j # 1 => P[b + (j - 1)] = G(j - 1)
      PROVE  P[b + j] = G(j)
  <2>1. /\ b + j \in 0..N /\ b + j # 0 /\ (b + j) - 1 = b + (j - 1) /\ j \in 0..K /\ j - 1 \in 0..K
        /\ Len(a) \in Nat
    <3>1. K \in Nat /\ N \in Nat
      BY <1>1
    <3>. QED
      BY <1>5, <3>1
  <2>2. P[b + j] = Extended(P[b + (j - 1)], b + j)
    BY <1>4, <2>1
  <2>3. Mine(b + j) /\ Typed(procs[b + j].cmd) = cs[j]
    BY <1>1
  <2>4. cs[j] = SubSeq(a, d[j-1] + 1, d[j] - 1) /\ d[j-1] < d[j]
    BY <1>1
  <2>5. /\ f \in 1..Len(a) /\ f <= d[j] - 1 /\ d[j] - 1 <= Len(a)
        /\ d[j] \in 0..Len(a) + 1 /\ d[j-1] \in 0..Len(a) + 1
    BY <1>1, <2>1
  <2>6. CASE j = 1
    <3>1. P[b + (j - 1)] = <<>>
      <4>1. b + (j - 1) = b
        BY <1>5, <2>6
      <4>. QED
        BY <1>6, <4>1
    <3>2. P[b + j] = <<>> \o <<>> \o cs[j]
      BY <2>2, <2>3, <3>1 DEF Extended
    <3>3. cs[j] = G(j)
      <4>1. j - 1 = 0
        BY <2>6
      <4>2. d[j-1] + 1 = f
        BY <4>1 DEF f
      <4>. QED
        BY <2>4, <4>2
    <3>4. cs[j] \in Seq(S)
      <4>1. \A i \in f..d[j] - 1 : a[i] \in S
        BY <2>1, <2>5
      <4>2. f \in Int /\ d[j] - 1 \in Int
        BY <2>1, <2>5
      <4>. HIDE DEF G
      <4>3. SubSeq(a, f, d[j] - 1) \in Seq(S)
        BY <4>1, <4>2, SubSeqProperties
      <4>. QED
        BY <3>3, <4>3 DEF G
    <3>. HIDE DEF G
    <3>5. <<>> \o <<>> \o cs[j] = cs[j]
      BY <3>4
    <3>. QED
      BY <3>2, <3>3, <3>5
  <2>7. CASE j # 1
    <3>. DEFINE q == d[j-1]
                e == d[j] - 1
    <3>1. j - 1 \in 1..K /\ j - 1 \in 1..K - 1
      BY <1>1, <2>7
    <3>2. f <= q - 1 /\ q - 1 <= Len(a) /\ a[q] = "|"
      BY <1>1, <3>1
    <3>3. q \in f..Len(a) /\ e \in q..Len(a)
      <4>1. \A L \in Nat : \A x, y \in 0..L + 1 : \A z \in 1..L :
              x < y /\ z <= x - 1 /\ y - 1 <= L => x \in z..L /\ y - 1 \in x..L
        OBVIOUS
      <4>. QED
        BY <2>1, <2>4, <2>5, <3>2, <4>1
    <3>. HIDE DEF q, e
    <3>4. P[b + (j - 1)] = SubSeq(a, f, q - 1)
      BY <1>7, <2>7 DEF q
    <3>. HIDE DEF G
    <3>5. SubSeq(a, f, q - 1) # <<>>
      <4>1. \A i \in f..q - 1 : a[i] \in S
        BY <2>1, <2>5, <3>3
      <4>2. f \in Int /\ q - 1 \in Int /\ f <= q - 1
        BY <2>1, <2>5, <3>2, <3>3
      <4>3. /\ SubSeq(a, f, q - 1) \in Seq(S)
            /\ Len(SubSeq(a, f, q - 1)) = IF f <= q - 1 THEN (q - 1) - f + 1 ELSE 0
        BY <4>1, <4>2, SubSeqProperties
      <4>4. Len(SubSeq(a, f, q - 1)) >= 1
        BY <4>2, <4>3
      <4>5. \A s \in Seq(S) : Len(s) >= 1 => s # <<>>
        OBVIOUS
      <4>. QED
        BY <4>3, <4>4, <4>5
    <3>6. P[b + j] = SubSeq(a, f, q - 1) \o <<"|">> \o cs[j]
      BY <2>2, <2>3, <3>4, <3>5 DEF Extended
    <3>7. cs[j] = SubSeq(a, q + 1, e)
      BY <2>4 DEF q, e
    <3>8. (SubSeq(a, f, q - 1) \o <<a[q]>>) \o SubSeq(a, q + 1, e) = SubSeq(a, f, e)
      BY <2>5, <3>3, JoinOne
    <3>. QED
      BY <3>2, <3>6, <3>7, <3>8 DEF G, e
  <2>. QED
    BY <2>6, <2>7
<1>8. P[b + K] = G(K)
  <2>. DEFINE Good(j) == P[b + j] = G(j)
              Bad == {j \in Nat : j \in 1..K /\ ~Good(j)}
  <2>1. SUFFICES ASSUME Bad # {} PROVE FALSE
    <3>. HIDE DEF Good
    <3>1. K \in Nat /\ K \in 1..K
      BY <1>1
    <3>2. Good(K)
      BY <3>1
    <3>. QED
      BY <3>2 DEF Good
  <2>2. PICK x \in Bad : \A y \in Bad : x <= y
    <3>. HIDE DEF Bad
    <3>1. Bad \in SUBSET Nat
      BY DEF Bad
    <3>. QED
      BY <2>1, <3>1, HasLeast
  <2>3. x \in 1..K /\ P[b + x] # G(x)
    BY <2>2
  <2>4. x # 1 => x - 1 \in Nat /\ x - 1 \in 1..K /\ ~(x <= x - 1)
    BY <1>1, <2>3
  <2>5. x # 1 => P[b + (x - 1)] = G(x - 1)
    BY <2>2, <2>4
  <2>. QED
    BY <1>7, <2>3, <2>5
<1>. QED
  BY <1>3, <1>5, <1>8 DEF f

-----------------------------------------------------------------------------
(* Types, and what the shell has run of its line.                          *)
IsTyped(p) ==
  /\ p.line \in Nat /\ p.state \in {"never", "new", "running", "ended", "reaped"}
  /\ p.cmd.args \in Seq(Words) /\ p.cmd.in \in Seq(Words) /\ p.cmd.out \in Seq(Words)
  /\ p.got \in Nat /\ p.put \in Nat
Types ==
  /\ script \in Seq(Seq(Words \cup Marks)) /\ line \in Seq(Words \cup Marks)
  /\ at \in {"prompt", "read", "fork", "wait", "close", "exit", "gone", "crashed"}
  /\ stdin \in {Tty, None} \cup DOMAIN pipes
  /\ pipes \in Seq(0..Capacity)
  /\ \A n \in DOMAIN procs : IsTyped(procs[n])

(* No process is of a line that is still to come.                          *)
Older == \A n \in DOMAIN procs : procs[n].line >= Len(script)

(* The line at hand is in order, and its first d stages have been started: *)
(* their processes, and they alone, are of this line.                      *)
Parsed == line \in Seq(Words \cup Marks) /\ ~syntaxCheck(line) /\ commands = Commands(line)
Record(d) ==
  /\ d \in Nat /\ d <= Len(procs)
  /\ \A n \in DOMAIN procs : Mine(n) <=> n > Len(procs) - d
  /\ \A j \in 1..d : ~Crashes(j) /\ procs[(Len(procs) - d) + j].cmd = Stage(j)
Recorded ==
  /\ at = "fork" => Parsed /\ k \in 1..Len(commands) /\ Record(k - 1)
  /\ Between => Parsed /\ k \in 1..Len(commands) /\ Record(k)
  /\ at = "prompt" /\ (\E n \in DOMAIN procs : Mine(n)) => Parsed /\ Record(Len(commands))

Full == Inv /\ Types /\ Older /\ Recorded

LEMMA InitFull == Init => Full
<1>. SUFFICES ASSUME Init PROVE Full
  OBVIOUS
<1>1. Inv
  BY InitInv
<1>2. DOMAIN procs = {} /\ at = "prompt"
  BY DEF Init
<1>3. Types
  <2>1. script \in Seq(Seq(Words \cup Marks)) /\ line = <<>> /\ stdin = Tty /\ pipes = <<>>
    BY ShellAssumption DEF Init
  <2>2. <<>> \in Seq(Words \cup Marks) /\ <<>> \in Seq(0..Capacity)
    OBVIOUS
  <2>. QED
    BY <1>2, <2>1, <2>2 DEF Types
<1>. QED
  BY <1>1, <1>2, <1>3 DEF Full, Older, Recorded, Between

(* What a step of a process does to the types: nothing.                    *)
LEMMA ProcessTypes ==
  ASSUME Inv, Types, NEW p \in DOMAIN procs, Process(p)
  PROVE  /\ UNCHANGED shellVars /\ pipes' \in Seq(0..Capacity) /\ Len(pipes') = Len(pipes)
         /\ \E e : /\ procs' = [procs EXCEPT ![p] = e]
                   /\ e.line = procs[p].line /\ e.cmd = procs[p].cmd /\ IsTyped(e)
<1>1. /\ IsProcess(procs[p]) /\ IsTyped(procs[p]) /\ pipes \in Seq(0..Capacity)
      /\ Capacity \in Nat /\ DOMAIN pipes = 1..Len(pipes) /\ DOMAIN pipes = DOMAIN procs
  BY SeqDomain, ShellAssumption DEF Inv, Shape, Types
<1>. DEFINE Moves(e) == /\ procs' = [procs EXCEPT ![p] = e]
                        /\ e.line = procs[p].line /\ e.cmd = procs[p].cmd /\ IsTyped(e)
<1>2. CASE Child(p)
  <2>. DEFINE s == IF Runs(procs[p].cmd) THEN "running" ELSE "ended"
              i == IF procs[p].cmd.in # <<>> THEN File ELSE procs[p].in
              e == With(procs[p], s, i)
  <2>1. procs' = [procs EXCEPT ![p] = e] /\ UNCHANGED <<shellVars, pipes>>
    BY <1>1, <1>2 DEF Child, IsProcess, With
  <2>2. s \in {"running", "ended"}
    OBVIOUS
  <2>. HIDE DEF s, i
  <2>3. /\ e.line = procs[p].line /\ e.cmd = procs[p].cmd /\ e.state = s
        /\ e.got = procs[p].got /\ e.put = procs[p].put
    BY <1>1, ProcessWith
  <2>. HIDE DEF e
  <2>4. Moves(e)
    BY <1>1, <2>1, <2>2, <2>3 DEF IsTyped
  <2>. QED
    BY <1>1, <2>1, <2>4
<1>3. CASE Write(p)
  <2>. DEFINE e1 == [procs[p] EXCEPT !.put = @ + 1]
              e2 == [procs[p] EXCEPT !.state = "ended"]
  <2>1. UNCHANGED shellVars
    BY <1>3 DEF Write
  <2>2. /\ procs' = [procs EXCEPT ![p] = e1] \/ procs' = [procs EXCEPT ![p] = e2]
        /\ UNCHANGED pipes \/ (pipes[p] < Capacity /\ pipes' = [pipes EXCEPT ![p] = @ + 1])
    BY <1>3 DEF Write
  <2>3. pipes' \in Seq(0..Capacity) /\ Len(pipes') = Len(pipes)
    <3>1. CASE UNCHANGED pipes
      BY <1>1, <3>1
    <3>2. CASE pipes[p] < Capacity /\ pipes' = [pipes EXCEPT ![p] = @ + 1]
      <4>1. p \in 1..Len(pipes) /\ pipes[p] \in 0..Capacity
        BY <1>1
      <4>2. pipes[p] + 1 \in 0..Capacity
        BY <1>1, <3>2, <4>1
      <4>3. pipes' = [pipes EXCEPT ![p] = pipes[p] + 1]
        BY <3>2
      <4>. QED
        BY <1>1, <4>1, <4>2, <4>3, ExceptSeq
    <3>. QED
      BY <2>2, <3>1, <3>2
  <2>4. Moves(e1) \/ Moves(e2)
    <3>1. /\ e1.line = procs[p].line /\ e1.cmd = procs[p].cmd /\ e1.state = procs[p].state
          /\ e1.got = procs[p].got /\ e1.put = procs[p].put + 1
      BY <1>1 DEF IsProcess
    <3>2. /\ e2.line = procs[p].line /\ e2.cmd = procs[p].cmd /\ e2.state = "ended"
          /\ e2.got = procs[p].got /\ e2.put = procs[p].put
      BY <1>1 DEF IsProcess
    <3>. HIDE DEF e1, e2
    <3>3. IsTyped(e1) /\ IsTyped(e2)
      BY <1>1, <3>1, <3>2 DEF IsTyped
    <3>. QED
      BY <2>2, <3>1, <3>2, <3>3
  <2>. QED
    BY <2>1, <2>3, <2>4
<1>4. CASE Read(p)
  <2>. DEFINE e == [procs[p] EXCEPT !.got = @ + 1]
              q == procs[p].in
  <2>1. /\ UNCHANGED shellVars /\ procs' = [procs EXCEPT ![p] = e]
        /\ q \in DOMAIN pipes /\ pipes[q] > 0 /\ pipes' = [pipes EXCEPT ![q] = @ - 1]
    BY <1>4 DEF Read, FromPipe
  <2>. HIDE DEF q
  <2>2. pipes' \in Seq(0..Capacity) /\ Len(pipes') = Len(pipes)
    <3>1. q \in 1..Len(pipes) /\ pipes[q] \in 0..Capacity
      BY <1>1, <2>1
    <3>2. pipes[q] - 1 \in 0..Capacity
      BY <1>1, <2>1, <3>1
    <3>3. pipes' = [pipes EXCEPT ![q] = pipes[q] - 1]
      BY <2>1
    <3>. QED
      BY <1>1, <3>1, <3>2, <3>3, ExceptSeq
  <2>3. /\ e.line = procs[p].line /\ e.cmd = procs[p].cmd /\ e.state = procs[p].state
        /\ e.got = procs[p].got + 1 /\ e.put = procs[p].put
    BY <1>1 DEF IsProcess
  <2>. HIDE DEF e
  <2>4. procs[p].got + 1 \in Nat
    BY <1>1 DEF IsTyped
  <2>5. IsTyped(e)
    BY <1>1, <2>3, <2>4 DEF IsTyped
  <2>6. Moves(e)
    BY <2>1, <2>3, <2>5
  <2>. QED
    BY <2>1, <2>2, <2>6
<1>5. CASE End(p)
  <2>. DEFINE e == [procs[p] EXCEPT !.state = "ended"]
  <2>1. /\ UNCHANGED <<shellVars, pipes>> /\ procs' = [procs EXCEPT ![p] = e]
    BY <1>5 DEF End
  <2>2. /\ e.line = procs[p].line /\ e.cmd = procs[p].cmd /\ e.state = "ended"
        /\ e.got = procs[p].got /\ e.put = procs[p].put
    BY <1>1 DEF IsProcess
  <2>. HIDE DEF e
  <2>3. Moves(e)
    BY <1>1, <2>1, <2>2 DEF IsTyped
  <2>. QED
    BY <1>1, <2>1, <2>3
<1>. QED
  BY <1>2, <1>3, <1>4, <1>5 DEF Process

(* What has been run stays as it is while processes keep line and command. *)
LEMMA StagesKept ==
  ASSUME UNCHANGED commands, NEW j
  PROVE  Stage(j)' = Stage(j) /\ Crashes(j)' = Crashes(j)
  BY DEF Stage, Crashes, last

LEMMA RecordKept ==
  ASSUME UNCHANGED <<script, commands>>, Len(procs') = Len(procs),
         DOMAIN procs = 1..Len(procs), DOMAIN procs' = DOMAIN procs, Len(procs) \in Nat,
         \A n \in DOMAIN procs :
           procs'[n].line = procs[n].line /\ procs'[n].cmd = procs[n].cmd,
         NEW d, Record(d)
  PROVE  Record(d)'
<1>1. /\ d \in Nat /\ d <= Len(procs)
      /\ \A n \in DOMAIN procs : Mine(n) <=> n > Len(procs) - d
      /\ \A j \in 1..d : ~Crashes(j) /\ procs[(Len(procs) - d) + j].cmd = Stage(j)
  BY DEF Record
<1>2. \A n \in DOMAIN procs : Mine(n)' <=> Mine(n)
  BY DEF Mine
<1>3. ASSUME NEW j \in 1..d
      PROVE  ~Crashes(j)' /\ procs'[(Len(procs) - d) + j].cmd = Stage(j)'
  <2>1. (Len(procs) - d) + j \in DOMAIN procs
    BY <1>1
  <2>. QED
    BY <1>1, <2>1, StagesKept
<1>. QED
  BY <1>1, <1>2, <1>3 DEF Record

LEMMA ProcessFull ==
  ASSUME Full, NEW p \in DOMAIN procs, Process(p)
  PROVE  Full'
<1>1. Inv /\ Types /\ Older /\ Recorded /\ Inv'
  BY ProcessInv DEF Full
<1>2. /\ UNCHANGED shellVars /\ pipes' \in Seq(0..Capacity) /\ Len(pipes') = Len(pipes)
      /\ \E e : /\ procs' = [procs EXCEPT ![p] = e]
                /\ e.line = procs[p].line /\ e.cmd = procs[p].cmd /\ IsTyped(e)
  BY <1>1, ProcessTypes
<1>3. PICK e : /\ procs' = [procs EXCEPT ![p] = e]
               /\ e.line = procs[p].line /\ e.cmd = procs[p].cmd /\ IsTyped(e)
  BY <1>2
<1>4. /\ IsSeq(procs) /\ IsSeq(procs') /\ Len(procs') = Len(procs) /\ DOMAIN procs' = DOMAIN procs
      /\ Len(procs) \in Nat /\ DOMAIN procs = 1..Len(procs)
  BY <1>1, <1>3, Updated, SeqDomain DEF Inv, Shape
<1>5. \A n \in DOMAIN procs : procs'[n] = IF n = p THEN e ELSE procs[n]
  BY <1>3
<1>6. \A n \in DOMAIN procs :
        /\ procs'[n].line = procs[n].line /\ procs'[n].cmd = procs[n].cmd
        /\ IsTyped(procs[n]) /\ IsTyped(procs'[n])
  BY <1>1, <1>3, <1>5 DEF Types
<1>7. UNCHANGED <<script, line, commands, at, k, stdin>>
  BY <1>2 DEF shellVars
<1>8. Types'
  <2>1. \A n \in DOMAIN procs' : IsTyped(procs[n])'
    BY <1>4, <1>6 DEF IsTyped
  <2>2. DOMAIN pipes' = DOMAIN pipes
    BY <1>1, <1>2 DEF Types
  <2>. QED
    BY <1>1, <1>2, <1>7, <2>1, <2>2 DEF Types
<1>9. Older'
  BY <1>1, <1>4, <1>6, <1>7 DEF Older
<1>10. Recorded'
  <2>1. \A d : Record(d) => Record(d)'
    BY <1>4, <1>6, <1>7, RecordKept
  <2>2. Parsed => Parsed'
    BY <1>7 DEF Parsed
  <2>3. (\E n \in DOMAIN procs : Mine(n))' => (\E n \in DOMAIN procs : Mine(n))
    BY <1>4, <1>6, <1>7 DEF Mine
  <2>. QED
    BY <1>1, <1>7, <2>1, <2>2, <2>3 DEF Recorded, Between
<1>. QED
  BY <1>1, <1>8, <1>9, <1>10 DEF Full

(* fork records the stage k.                                               *)
LEMMA forkFull ==
  ASSUME Full, fork
  PROVE  Full'
<1>. DEFINE N == Len(procs)
<1>1. Inv /\ Types /\ Older /\ Recorded /\ Inv'
  BY forkInv DEF Full
<1>2. PICK fails \in Breaks :
        /\ at = "fork" /\ ~Crashes(k) /\ pipes' = Append(pipes, 0)
        /\ procs' = Append(procs,
             [line |-> Len(script), stage |-> k, cmd |-> Stage(k), back |-> background,
              state |-> IF fails THEN "never" ELSE "new",
              piped |-> ~last(k), in |-> stdin, got |-> 0, put |-> 0])
        /\ at' = IF background THEN "close" ELSE "wait"
        /\ UNCHANGED <<script, line, commands, k, stdin>>
  BY DEF fork
<1>. DEFINE e == [line |-> Len(script), stage |-> k, cmd |-> Stage(k), back |-> background,
                  state |-> IF fails THEN "never" ELSE "new",
                  piped |-> ~last(k), in |-> stdin, got |-> 0, put |-> 0]
<1>3. /\ e.line = Len(script) /\ e.cmd = Stage(k) /\ e.state \in {"never", "new"}
      /\ e.got = 0 /\ e.put = 0 /\ procs' = Append(procs, e)
  BY <1>2
<1>. HIDE DEF e
<1>4. /\ IsSeq(procs) /\ IsSeq(procs') /\ N \in Nat /\ DOMAIN procs = 1..N
      /\ Len(procs') = N + 1 /\ DOMAIN procs' = 1..N + 1 /\ procs'[N + 1] = e
      /\ \A n \in 1..N : procs'[n] = procs[n]
  BY <1>1, <1>3, Appended, SeqDomain DEF Inv, Shape
<1>5. Parsed /\ k \in 1..Len(commands) /\ Record(k - 1)
  BY <1>1, <1>2 DEF Recorded
<1>6. Types'
  <2>1. /\ pipes' \in Seq(0..Capacity) /\ DOMAIN pipes \subseteq DOMAIN pipes'
    <3>1. pipes \in Seq(0..Capacity) /\ 0 \in 0..Capacity
      BY <1>1, ShellAssumption DEF Types
    <3>. QED
      BY <1>2, <3>1
  <2>2. Len(script) \in Nat
    BY <1>1 DEF Types
  <2>3. /\ Stage(k).args \in Seq(Words) /\ Stage(k).in \in Seq(Words)
        /\ Stage(k).out \in Seq(Words)
    <3>1. commands \in Seq(Seq(Words \cup Marks)) /\ Clean(commands)
      BY <1>5, CommandsClean DEF Parsed
    <3>. QED
      BY <1>2, <1>5, <3>1, StageTyped
  <2>4. IsTyped(e)
    BY <1>3, <2>2, <2>3 DEF IsTyped
  <2>5. \A n \in 1..N + 1 : n \in 1..N \/ n = N + 1
    BY <1>4
  <2>6. \A n \in DOMAIN procs' : IsTyped(procs'[n])
    BY <1>1, <1>4, <2>4, <2>5 DEF Types
  <2>7. \A n \in DOMAIN procs' : IsTyped(procs[n])'
    BY <2>6 DEF IsTyped
  <2>8. at' \in {"close", "wait"} /\ UNCHANGED <<script, line, stdin>>
    BY <1>2
  <2>. QED
    BY <1>1, <2>1, <2>7, <2>8 DEF Types
<1>7. Older'
  <2>1. Len(script) \in Nat
    BY <1>1 DEF Types
  <2>2. \A n \in 1..N + 1 : n \in 1..N \/ n = N + 1
    BY <1>4
  <2>3. \A n \in 1..N + 1 : procs'[n].line >= Len(script)
    BY <1>1, <1>3, <1>4, <2>1, <2>2 DEF Older
  <2>. QED
    BY <1>2, <1>4, <2>3 DEF Older
<1>8. Recorded'
  <2>1. Len(commands) \in Nat /\ k \in Nat /\ k >= 1
    <3>1. commands \in Seq(Seq(Words \cup Marks))
      BY <1>5, CommandsClean DEF Parsed
    <3>. QED
      BY <1>5, <3>1
  <2>2. /\ k - 1 \in Nat /\ k - 1 <= N
        /\ \A n \in DOMAIN procs : Mine(n) <=> n > N - (k - 1)
        /\ \A j \in 1..k - 1 : ~Crashes(j) /\ procs[(N - (k - 1)) + j].cmd = Stage(j)
    BY <1>5 DEF Record
  <2>3. \A n \in 1..N + 1 : Mine(n)' <=> n > (N + 1) - k
    <3>1. SUFFICES ASSUME NEW n \in 1..N + 1 PROVE Mine(n)' <=> n > (N + 1) - k
      OBVIOUS
    <3>2. CASE n = N + 1
      <4>1. Mine(n)'
        BY <1>2, <1>3, <1>4, <3>2 DEF Mine
      <4>. QED
        BY <1>4, <2>1, <3>2, <4>1
    <3>3. CASE n # N + 1
      <4>1. n \in 1..N /\ (n > (N + 1) - k <=> n > N - (k - 1))
        BY <1>4, <2>1, <3>3
      <4>2. Mine(n)' <=> Mine(n)
        BY <1>2, <1>4, <4>1 DEF Mine
      <4>. QED
        BY <1>4, <2>2, <4>1, <4>2
    <3>. QED
      BY <3>2, <3>3
  <2>4. ASSUME NEW j \in 1..k
        PROVE  ~Crashes(j)' /\ procs'[((N + 1) - k) + j].cmd = Stage(j)'
    <3>1. Crashes(j)' = Crashes(j) /\ Stage(j)' = Stage(j)
      BY <1>2, StagesKept
    <3>2. CASE j = k
      <4>1. ((N + 1) - k) + j = N + 1
        BY <1>4, <2>1, <3>2
      <4>. QED
        BY <1>2, <1>3, <1>4, <3>1, <3>2, <4>1
    <3>3. CASE j # k
      <4>1. /\ j \in 1..k - 1 /\ ((N + 1) - k) + j = (N - (k - 1)) + j
            /\ (N - (k - 1)) + j \in 1..N
        BY <1>4, <2>1, <2>2, <3>3
      <4>. QED
        BY <1>4, <2>2, <3>1, <4>1
    <3>. QED
      BY <3>2, <3>3
  <2>5. Record(k)'
    <3>1. k' = k /\ Len(procs') = N + 1 /\ k \in Nat /\ k <= N + 1
      BY <1>2, <1>4, <2>1, <2>2
    <3>. QED
      BY <1>4, <2>3, <2>4, <3>1 DEF Record
  <2>6. Parsed' /\ (k \in 1..Len(commands))'
    BY <1>2, <1>5 DEF Parsed
  <2>7. at' \in {"close", "wait"}
    BY <1>2
  <2>. QED
    BY <2>5, <2>6, <2>7 DEF Recorded, Between
<1>. QED
  BY <1>1, <1>6, <1>7, <1>8 DEF Full

(* waitpid changes the state of a process, which no record speaks of.      *)
LEMMA waitpidFull ==
  ASSUME Full, waitpid
  PROVE  Full'
<1>1. Inv /\ Types /\ Older /\ Recorded /\ Inv'
  BY waitpidInv DEF Full
<1>2. at = "wait" /\ at' = "close" /\ UNCHANGED <<script, line, commands, k, stdin, pipes>>
  BY DEF waitpid
<1>3. IsSeq(procs) /\ Len(procs) \in Nat /\ DOMAIN procs = 1..Len(procs)
  BY <1>1, SeqDomain DEF Inv, Shape
<1>4. /\ Len(procs') = Len(procs) /\ DOMAIN procs' = DOMAIN procs
      /\ \A n \in DOMAIN procs :
           procs'[n].line = procs[n].line /\ procs'[n].cmd = procs[n].cmd /\ IsTyped(procs'[n])
  <2>1. CASE \E p \in Awaited : procs' = [procs EXCEPT ![p].state = "reaped"]
    <3>1. PICK p \in Awaited : procs' = [procs EXCEPT ![p].state = "reaped"]
      BY <2>1
    <3>. DEFINE e == [procs[p] EXCEPT !.state = "reaped"]
    <3>2. p \in DOMAIN procs
      <4>1. Latest(k)
        BY <1>1, <1>2 DEF Inv, Connected, Between
      <4>2. Len(procs) \in DOMAIN procs
        BY <1>3, <4>1 DEF Latest
      <4>. QED
        BY <3>1, <4>2 DEF Awaited, Children
    <3>3. IsProcess(procs[p]) /\ IsTyped(procs[p]) /\ procs' = [procs EXCEPT ![p] = e]
      BY <1>1, <3>1, <3>2 DEF Inv, Shape, Types
    <3>4. /\ e.line = procs[p].line /\ e.cmd = procs[p].cmd /\ e.state = "reaped"
          /\ e.got = procs[p].got /\ e.put = procs[p].put
      BY <3>3 DEF IsProcess
    <3>. HIDE DEF e
    <3>5. IsTyped(e)
      BY <3>3, <3>4 DEF IsTyped
    <3>6. Len(procs') = Len(procs) /\ DOMAIN procs' = DOMAIN procs
      BY <1>3, <3>2, <3>3, Updated, SeqDomain
    <3>7. \A n \in DOMAIN procs : procs'[n] = IF n = p THEN e ELSE procs[n]
      BY <3>3
    <3>. QED
      BY <1>1, <3>4, <3>5, <3>6, <3>7 DEF Types
  <2>2. CASE UNCHANGED procs
    BY <1>1, <2>2 DEF Types
  <2>. QED
    BY <2>1, <2>2 DEF waitpid
<1>5. Types'
  <2>1. \A n \in DOMAIN procs' : IsTyped(procs[n])'
    BY <1>4 DEF IsTyped
  <2>. QED
    BY <1>1, <1>2, <2>1 DEF Types
<1>6. Older'
  BY <1>1, <1>2, <1>4 DEF Older
<1>7. Recorded'
  <2>1. \A d : Record(d) => Record(d)'
    BY <1>2, <1>3, <1>4, RecordKept
  <2>2. Parsed => Parsed'
    BY <1>2 DEF Parsed
  <2>. QED
    BY <1>1, <1>2, <2>1, <2>2 DEF Recorded, Between
<1>. QED
  BY <1>1, <1>5, <1>6, <1>7 DEF Full

(* fgets begins with nothing run.                                          *)
LEMMA fgetsFull ==
  ASSUME Full, fgets
  PROVE  Full'
<1>1. Inv /\ Types /\ Older /\ Recorded /\ Inv'
  BY ShellInv DEF Full
<1>2. /\ script # <<>> /\ script' = Tail(script) /\ line' = Head(script)
      /\ commands' = Commands(Head(script)) /\ k' = 1
      /\ at' = IF line' = <<Exit>> THEN "exit"
               ELSE IF syntaxCheck(line') \/ commands' = <<>> THEN "prompt"
               ELSE "fork"
      /\ UNCHANGED <<stdin, procs, pipes>>
  BY DEF fgets
<1>3. Len(procs) \in Nat /\ DOMAIN procs = 1..Len(procs)
  BY <1>1, SeqDomain DEF Inv, Shape
<1>4. /\ script' \in Seq(Seq(Words \cup Marks)) /\ line' \in Seq(Words \cup Marks)
      /\ Len(script) \in Nat /\ Len(script') \in Nat /\ Len(script') < Len(script)
  <2>1. script \in Seq(Seq(Words \cup Marks))
    BY <1>1 DEF Types
  <2>. QED
    BY <1>2, <2>1
<1>5. Types'
  <2>1. at' \in {"exit", "prompt", "fork"}
    BY <1>2
  <2>2. \A n \in DOMAIN procs' : IsTyped(procs[n])'
    BY <1>1, <1>2 DEF Types, IsTyped
  <2>. QED
    BY <1>1, <1>2, <1>4, <2>1, <2>2 DEF Types
<1>6. \A n \in DOMAIN procs' : procs'[n].line > Len(script') /\ procs'[n].line \in Nat
  BY <1>1, <1>2, <1>4 DEF Older, Types, IsTyped
<1>7. Older'
  BY <1>4, <1>6 DEF Older
<1>8. \A n \in DOMAIN procs' : ~Mine(n)'
  BY <1>4, <1>6 DEF Mine
<1>9. Recorded'
  <2>1. CASE at' = "fork"
    <3>1. ~syntaxCheck(line') /\ commands' # <<>> /\ commands' = Commands(line')
      BY <1>2, <2>1
    <3>2. Parsed'
      BY <1>4, <3>1 DEF Parsed
    <3>3. commands' \in Seq(Seq(Words \cup Marks))
      BY <1>4, <3>1, CommandsClean
    <3>4. 1 \in 1..Len(commands')
      BY <3>1, <3>3
    <3>5. Record(0)'
      BY <1>2, <1>3, <1>8 DEF Record
    <3>6. (k - 1 = 0)'
      BY <1>2
    <3>. QED
      BY <1>2, <2>1, <3>2, <3>4, <3>5, <3>6 DEF Recorded, Between
  <2>2. CASE at' # "fork"
    <3>1. at' \in {"exit", "prompt"}
      BY <1>2, <2>2
    <3>. QED
      BY <1>8, <3>1 DEF Recorded, Between
  <2>. QED
    BY <2>1, <2>2
<1>. QED
  BY <1>1, <1>5, <1>7, <1>9 DEF Full

(* close goes on with the next stage, or the line is done.                 *)
LEMMA closeFull ==
  ASSUME Full, close
  PROVE  Full'
<1>1. Inv /\ Types /\ Older /\ Recorded /\ Inv'
  BY ShellInv DEF Full, Shell
<1>2. /\ at = "close" /\ stdin' = IF last(k) THEN stdin ELSE Len(pipes)
      /\ at' = IF last(k) THEN "prompt" ELSE "fork"
      /\ k' = k + 1
      /\ UNCHANGED <<script, line, commands, procs, pipes>>
  BY DEF close
<1>3. Len(procs) \in Nat /\ DOMAIN procs = 1..Len(procs) /\ Len(pipes) = Len(procs)
  BY <1>1, SeqDomain DEF Inv, Shape
<1>4. Parsed /\ k \in 1..Len(commands) /\ Record(k)
  BY <1>1, <1>2 DEF Recorded, Between
<1>5. Types'
  <2>1. at' \in {"prompt", "fork"}
    BY <1>2
  <2>2. Len(pipes) \in DOMAIN pipes
    <3>1. Latest(k)
      BY <1>1, <1>2 DEF Inv, Connected, Between
    <3>2. DOMAIN pipes = 1..Len(pipes)
      BY <1>1 DEF Types
    <3>. QED
      BY <1>3, <3>1, <3>2 DEF Latest
  <2>3. \A n \in DOMAIN procs' : IsTyped(procs[n])'
    BY <1>1, <1>2 DEF Types, IsTyped
  <2>. QED
    BY <1>1, <1>2, <2>1, <2>2, <2>3 DEF Types
<1>6. Older'
  BY <1>1, <1>2 DEF Older
<1>7. Recorded'
  <2>1. \A d : Record(d) => Record(d)'
    BY <1>2, <1>3, RecordKept
  <2>2. Parsed'
    BY <1>2, <1>4 DEF Parsed
  <2>3. Len(commands) \in Nat /\ k \in Nat
    <3>1. commands \in Seq(Seq(Words \cup Marks))
      BY <1>4, CommandsClean DEF Parsed
    <3>. QED
      BY <1>4, <3>1
  <2>4. CASE last(k)
    <3>1. at' = "prompt" /\ k = Len(commands)
      BY <1>2, <2>4 DEF last
    <3>2. Record(Len(commands))'
      <4>1. Record(Len(commands))
        BY <1>4, <3>1
      <4>2. Len(commands)' = Len(commands)
        BY <1>2
      <4>. QED
        BY <2>1, <4>1, <4>2
    <3>. QED
      BY <2>2, <3>1, <3>2 DEF Recorded, Between
  <2>5. CASE ~last(k)
    <3>1. at' = "fork" /\ k # Len(commands)
      BY <1>2, <2>5 DEF last
    <3>2. (k - 1)' = k /\ k' \in 1..Len(commands')
      BY <1>2, <1>4, <2>3, <3>1
    <3>3. Record(k - 1)'
      BY <1>4, <2>1, <3>2
    <3>. QED
      BY <2>2, <3>1, <3>2, <3>3 DEF Recorded, Between
  <2>. QED
    BY <2>4, <2>5
<1>. QED
  BY <1>1, <1>5, <1>6, <1>7 DEF Full

(* Every step keeps the invariant.                                         *)
LEMMA NextFull ==
  ASSUME Full, [Next]_vars
  PROVE  Full'
<1>1. CASE \E p \in DOMAIN procs : Process(p)
  BY <1>1, ProcessFull
<1>2. CASE fork
  BY <1>2, forkFull
<1>3. CASE waitpid
  BY <1>3, waitpidFull
<1>4. CASE fgets
  BY <1>4, fgetsFull
<1>5. CASE close
  BY <1>5, closeFull
<1>6. CASE Prompt \/ exit \/ Parse_Crash \/ pipe_Fails
  <2>1. Inv /\ Types /\ Older /\ Recorded /\ Inv'
    BY <1>6, ShellInv DEF Full, Shell
  <2>2. /\ UNCHANGED <<script, line, commands, k, procs, pipes>>
        /\ at' \in {"read", "gone", "crashed"} /\ stdin' \in {Tty, None}
    BY <1>6 DEF Prompt, exit, Parse_Crash, pipe_Fails, Ends
  <2>3. Types'
    BY <2>1, <2>2 DEF Types, IsTyped
  <2>4. Older' /\ Recorded'
    BY <2>1, <2>2 DEF Older, Recorded, Between
  <2>. QED
    BY <2>1, <2>3, <2>4 DEF Full
<1>7. CASE UNCHANGED vars
  <2>1. Inv'
    BY <1>7, NextInv DEF Full
  <2>2. UNCHANGED <<script, line, commands, at, k, stdin, procs, pipes>>
    BY <1>7 DEF vars, shellVars
  <2>3. Len(procs) \in Nat /\ DOMAIN procs = 1..Len(procs)
    BY SeqDomain DEF Full, Inv, Shape
  <2>4. \A d : Record(d) => Record(d)'
    BY <2>2, <2>3, RecordKept
  <2>5. Types' /\ Older'
    BY <2>2 DEF Full, Types, IsTyped, Older
  <2>6. Recorded'
    <3>1. Parsed => Parsed'
      BY <2>2 DEF Parsed
    <3>2. Recorded /\ \A n : Mine(n)' <=> Mine(n)
      BY <2>2 DEF Full, Mine
    <3>. QED
      BY <2>2, <2>4, <3>1, <3>2 DEF Recorded, Between
  <2>. QED
    BY <2>1, <2>5, <2>6 DEF Full
<1>. QED
  BY <1>1, <1>2, <1>3, <1>4, <1>5, <1>6, <1>7 DEF Next, Shell

(* It says all that TypeOK says.                                           *)
LEMMA FullTypeOK ==
  ASSUME Full
  PROVE  TypeOK
<1>1. Inv /\ Types
  BY DEF Full
<1>2. IsSeq(procs) /\ IsSeq(pipes) /\ Len(pipes) = Len(procs)
  BY <1>1 DEF Inv, Shape
<1>3. DOMAIN procs = 1..Len(procs) /\ DOMAIN pipes = DOMAIN procs /\ Len(procs) \in Nat
  BY <1>2, SeqDomain
<1>4. ASSUME NEW n \in DOMAIN procs PROVE procs[n].in \in {Tty, File} \cup 1..(n - 1)
  <2>1. CASE procs[n].stage = 1
    BY <1>1, <2>1 DEF Inv, Plumbed
  <2>2. CASE procs[n].stage # 1
    <3>1. procs[n].in = n - 1 /\ n # 1
      BY <1>1, <2>2 DEF Inv, Plumbed, Shape
    <3>2. n - 1 \in 1..(n - 1)
      BY <1>3, <3>1
    <3>. QED
      BY <3>1, <3>2
  <2>. QED
    BY <2>1, <2>2
<1>. QED
  BY <1>1, <1>3, <1>4 DEF TypeOK, Types, IsTyped

(* Of a line in order, only an & at its end is not a command.              *)
LEMMA TextIsForemost ==
  ASSUME NEW S, line \in Seq(S), Checked(line)
  PROVE  Text = Foremost(line)
<1>1. Len(line) \in Nat /\ DOMAIN line = 1..Len(line) /\ (line # <<>> => Len(line) >= 1)
  OBVIOUS
<1>2. background <=> line # <<>> /\ Last(line) = "&"
  <2>1. ASSUME background PROVE line # <<>> /\ Last(line) = "&"
    <3>1. PICK i \in 1..Len(line) : line[i] = "&"
      BY <1>1, <2>1 DEF background, Places
    <3>2. i = Len(line)
      BY <3>1 DEF Checked
    <3>. QED
      BY <3>1, <3>2 DEF Last
  <2>2. ASSUME line # <<>>, Last(line) = "&" PROVE background
    <3>1. Len(line) \in DOMAIN line /\ line[Len(line)] = "&"
      BY <1>1, <2>2 DEF Last
    <3>. QED
      BY <3>1 DEF background, Places
  <2>. QED
    BY <2>1, <2>2
<1>. QED
  BY <1>2 DEF Text, Foremost

(* What the record says of a line that has been run is what was typed.     *)
LEMMA FullRuns ==
  ASSUME Full
  PROVE  RunsWhatWasTyped
<1>. SUFFICES ASSUME at = "prompt", \E n \in DOMAIN procs : Mine(n), NoEmptyStage
              PROVE  All = Bare(Text)
  BY DEF RunsWhatWasTyped
<1>. DEFINE S == Words \cup Marks
            K == Len(commands)
            a == Text
<1>1. Parsed /\ Record(K)
  BY DEF Full, Recorded
<1>2. Len(procs) \in Nat /\ DOMAIN procs = 1..Len(procs)
  BY SeqDomain DEF Full, Inv, Shape
<1>3. /\ line \in Seq(S) /\ Checked(line) /\ commands = Commands(line)
      /\ commands \in Seq(Seq(S)) /\ Clean(commands)
  BY <1>1, CheckedIs, CommandsClean DEF Parsed
<1>4. a = Foremost(line)
  BY <1>3, TextIsForemost
<1>5. a \in Seq(S)
  BY <1>3, <1>4, ForemostIs
<1>. HIDE DEF a, S
<1>6. \E d : /\ Spans(a, "|", Len(a), commands, d)
             /\ commands # <<>> /\ (\A i \in 1..K : commands[i] # <<>>)
                  => Bare(a) = SubSeq(a, d[0] + 1, d[K] - 1)
  BY <1>3, <1>4, <1>5, CommandsSpan
<1>7. /\ K \in Nat /\ K <= Len(procs)
      /\ \A n \in DOMAIN procs : Mine(n) <=> n > Len(procs) - K
      /\ \A j \in 1..K : ~Crashes(j) /\ procs[(Len(procs) - K) + j].cmd = Stage(j)
  BY <1>1 DEF Record
<1>8. commands # <<>> /\ 1 \in 1..K /\ \A i \in 1..K : commands[i] # <<>>
  <2>1. PICK n \in DOMAIN procs : Mine(n)
    OBVIOUS
  <2>2. n > Len(procs) - K /\ n <= Len(procs)
    BY <1>2, <1>7, <2>1
  <2>3. K >= 1
    BY <1>2, <1>7, <2>2
  <2>. QED
    BY <1>3, <1>7, <2>3 DEF NoEmptyStage
<1>9. PICK d : /\ Spans(a, "|", Len(a), commands, d)
               /\ Bare(a) = SubSeq(a, d[0] + 1, d[K] - 1)
  BY <1>6, <1>8
<1>10. Pieces(a, commands, d, K)
  BY <1>3, <1>5, <1>8, <1>9, SpansPieces
<1>11. RunFor(commands, K)
  <2>1. ASSUME NEW j \in 1..K
        PROVE  /\ Mine((Len(procs) - K) + j)
               /\ Typed(procs[(Len(procs) - K) + j].cmd) = commands[j]
    <3>1. (Len(procs) - K) + j \in DOMAIN procs /\ (Len(procs) - K) + j > Len(procs) - K
      BY <1>2, <1>7
    <3>2. Typed(Stage(j)) = commands[j]
      BY <1>3, <1>7, StageTyped DEF S
    <3>. QED
      BY <1>7, <3>1, <3>2
  <2>2. ASSUME NEW i \in 1..Len(procs) - K PROVE ~Mine(i)
    <3>1. i \in DOMAIN procs /\ ~(i > Len(procs) - K)
      BY <1>2, <1>7
    <3>. QED
      BY <1>7, <3>1
  <2>. QED
    BY <1>2, <1>7, <2>1, <2>2 DEF RunFor
<1>. QED
  BY <1>5, <1>9, <1>10, <1>11, AllIs DEF a

-----------------------------------------------------------------------------
(* Every variable has its type; what a process is given to execute are     *)
(* words, never the marks < > | &, whatever is typed (lines 114-213).      *)
THEOREM TypesThm == Spec => []TypeOK
<1>. QED
  BY InitFull, NextFull, FullTypeOK, PTL DEF Spec

(* A line without empty stages that has been run is run as it was typed:   *)
(* every word is an argument or a file of the stage it stands in, none is  *)
(* lost and none comes twice (lines 114-171, 178-213).                     *)
THEOREM RunsWhatWasTypedThm == Spec => []RunsWhatWasTyped
<1>. QED
  BY InitFull, NextFull, FullRuns, PTL DEF Spec

=============================================================================
