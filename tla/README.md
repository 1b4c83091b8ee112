# A verification project for *brief explore to OS*

The repository holds five small systems programs in C ("takes"), each in a
directory of its own under `src/`. They do not link with one another; each is a
library (or a shell) with a client program.

| Take | program | state it keeps | operations | who interacts |
|---|---|---|---|---|
| 1 | `myshell.c`, a shell | its standard input, the pipe of the current stage, children | read a line, check it, fork/exec the stages of a pipeline | shell and child processes through pipes and `waitpid` |
| 2 | `threads.c`, user-level threads | ring of `tcb`s (`head`, `running`, `gCurrent`, `id`), one `jmp_buf` per thread | `pthread_create`, `pthread_self`, `pthread_exit`, `schedule` | SIGALRM calls `schedule` on the stack of whatever runs |
| 3 | `threads.c`, the same with blocking | as above, `join`, `exit_code`, a stack per thread; semaphores with a count and a queue | as above, `pthread_join`, `sem_init/destroy/wait/post`, `lock/unlock` | threads wake one another through `state = READY` |
| 4 | `tls.c`, thread-local storage | list of storages, pages with reference counts, page protection | `tls_create/write/read/destroy/clone`, fault handler | threads share pages copy-on-write |
| 5 | `fs.c` on `disk.c`, a FAT file system | FAT, directory, descriptors, the disk's blocks | `make/mount/umount_fs`, `fs_create/open/close/delete/read/write/lseek/truncate/...` | one caller; memory and disk meet at mount and umount |

All five are modelled. What is hard in them:

* **Take 2/3.** A timer tick may land between any two instructions, in the
  middle of `pthread_create`, of `pthread_exit` and (the handler is installed
  with `SA_NODEFER` and an empty mask) of `schedule()` itself. It pushes an
  activation of `schedule()` on the current stack and `longjmp`s to another.
  Correct means: `running` is the thread that runs; the ring is a ring; only
  threads with a good `jmp_buf` are READY; whoever blocks is woken; tokens are
  conserved; everybody gets a turn.
* **Take 4.** Sharing must not be observable: whatever threads create, clone,
  write and destroy, each sees private bytes. It depends on reference counts
  being right over long sequences of calls, and on unsigned arithmetic.
* **Take 5.** Data goes to the disk at once, the tables that say whose data it
  is only at `umount_fs`: correct means that the directory, the chains in the FAT
  and the blocks fit together after any sequence of calls, at block borders,
  on a full disk, through the round trip of the tables, and after a process
  that ended without `umount_fs` or died half-way through it.
* **Take 1.** The stages of a pipeline run one after the other, joined by pipes
  of finite capacity whose ends are handed over through the shell's own
  standard input. Correct means: each stage talks to its neighbours and to
  nobody else, readers learn that their writer has gone, writers that their
  reader has, and the shell comes back.

`PROJECT.json` lists every component, every hazard at its line with the
properties that would catch it, the runs, the theorems, and for every modelling
definition the source lines it stands for.

## Modules

```
ThreadCore            ring, pthread_create, schedule(), ticks        (Takes 2, 3)
  Threads             + exit, join, semaphores                       (Take 3)
    ThreadsProperties   MCThreads
      ThreadsProof           types, who runs
        ThreadsBlockingProof   who waits, joins, queues
          ThreadsWholeProof      tokens, the timer, handles, who can run,
                                 semaphores and joins of two kinds of client
            ThreadsRingProof       the ring
  Threads2            + Take 2's exit
    Threads2Properties  (INSTANCE RoundRobin)   Threads2Proof   MCThreads2
TLS                   create, write, read, destroy, clone            (Take 4)
  TLSProperties       (INSTANCE PrivateStorage)   TLSProof   MCTLS
VirtualDisk           blocks by number, open or not                  (Take 5, disk.c)
  FileSystem          + the fourteen calls of fs.c                   (Take 5)
    FileSystemProperties  (INSTANCE FileStore)   FileSystemProof
      MCFileSystem      MCFileSystemCalls
Shell                 a line, its stages, their processes and pipes  (Take 1)
  ShellProperties   ShellProof   MCShell
RoundRobin            abstract: turns in the order of creation
PrivateStorage        abstract: one private array of bytes per thread
FileStore             abstract: files are sequences, umount_fs saves them
```

Definitions named `xxx_Something` just before an action `xxx` are *slips*: forms
of `xxx` with a plausible mistake, each of which violates a property under the
same run (listed under "mutants"). They show that the property says something
about the code; no specification uses them.

### ThreadCore, Threads, Threads2

One CPU executes one stack. `cpu` is the stack's owner, `pc[t]` the point in the
client or library code at the bottom of the stack of `t`, and `act[t]` the
activations of `schedule()` above it. A step is a stretch of code in which a
tick could make no difference; a point between two steps is named (`Points`).
`Tick` pushes an activation at any point in the constant `TickAt` while SIGALRM
is not masked. `longjmp` (`schedule_Jump`) cuts the target stack at the
activation that called `setjmp`, moves the CPU there and empties every `jmp_buf`
that one of the activations cut had filled, since another one may come to be in
the same place on that stack. A `jmp_buf` whose activation has gone is not
`Resumable`, and using it ends in status `"wild"`. `pthread_create` reads
`head->prev` into its local `tail` before it links the new `tcb`, and a tick may
land after the read and after each of the stores.
A new thread starts as if it had called `schedule()` (`Thunk`), which is how
`pthread_create` builds its `jmp_buf` and what `start_thunk` relies on.

`running`, `gCurrent`, `head`, `id` and the `tcb` fields have their names in C.
Memory from `malloc` holds `NULL` (zero) or `Junk` (constant `Uninit`), since the
code leaves fields unset; reading `Junk` as a pointer ends the process. `lock()`
and `unlock()` mask SIGALRM for the process, so the code between them is one
step; in `sem_wait` the code after `schedule()` runs *without* the lock and is
split at every load and store. Clients are programs: `Program[t][i]` is the set
of calls that `t` may make as its `i`-th, so that one run covers many clients.
`posted` and `passed` are history variables.

The process ends as `"returned"` (main returned), `"exit0"` (`schedule()` found
no READY thread), `"hung"` (`pthread_join` walks the ring for ever, masked) or
`"wild"` (a bad pointer was used).

### TLS

`tls[t]` is the node of `t` in the list, or `None`: its size and its array of
pages. `mapped`, `ref_count` and `bytes` describe the pages, `out` is the outcome
of the last call and `lost` (history) the pages that a failed `tls_create` leaves
behind. Each call is one atomic action. That is the code's own assumption: it
takes no lock, and clients have to serialise their calls; between two calls
every page is `PROT_NONE` again, so protection is no state of this module.
`PageSize` and `Word` (2^32 in C) are constants, and `PageCount` and `Stop` are
computed modulo `Word` as the code does. A page number behind the array, which
only a size close to `Word` makes possible, ends in `"wild"`; an `mmap` that fails
in `tls_write` ends in `"exit1"`, since `tls_unprotect` exits.

`calloc` failing is not modelled. Identities of threads are not reused.

### VirtualDisk, FileSystem, FileStore

`disk[b]` is the content of a block: units of file data, or a table that `fs.c`
copies to the disk as a whole, with a tag that says which. `FAT`, `DIR`, `fildes`
and `mounted` have their names in C. An entry of the FAT is a `short`; the code
stores to and reads from it at `LAZY`, `END` and `FREE` (-5, -2, -1), too, so `FAT`
is a function on those and on the blocks: the memory in front of the array,
which starts out zero and holds the header that `realloc` looks at. Each call is
one action, with the calls that return -1 as actions of their own. A loop that
never ends is status `"hung"`, a process that dies `"wild"`; `Exit` is the end of
the process at any moment, after which only `disk` is left.

Which accesses the device fails is chosen by the call (`Faults[op]`: which access
of that kind of call may fail), so that a call that fails half-way leaves behind
just what the code leaves. `umount_fs` failing at its k-th write, followed by
`Exit`, is also a process that dies half-way through `umount_fs`. `Around` is what the
memory around the FAT may hold. `umount_fs` and `make_fs` write some of it out in
place of entries of the FAT, and `mount_fs` reads it back as entries: behind the
FAT lies the directory, so names, sizes and used flags come back as entries, too.
`Index` is the set of values a `short` can have (in the runs as many as matter);
a store at a place that is neither in the FAT nor one of the three just in front
of it ends in `"wild"`. `Overruns`: `mount_fs`
reads a whole block into `struct fs`, over whatever the build put behind it;
`TRUE` is a build in which `disk.c`'s `active` is there, and `mount_fs` fails.

The code does many things that no client can want, and they are modelled as
they are: a long first write puts two pieces on each block (`Chunks`), a write
that starts at a block border goes one block too far and one that reaches the
last block counts twice (`Overwriting`), `fs_open` uses the number of the
descriptor as that of the file, a full disk makes -1 the head of a file, and
truncating frees the last block that is kept. `Rules` names rules of use
that the code does *not* enforce and that keep a client away from them. A client
that keeps to the first four is a proper one:

| rule | clients that keep to it | without it |
|---|---|---|
| `close` | close all descriptors before `umount_fs` | `ref_cnt` is saved, and the file can never be deleted |
| `match` | open a file only when the free descriptor has the number of its slot | reads, writes and `fs_delete`'s test are about another file; open files are deleted |
| `keep` | truncate to a length above 0 | block 0 is freed, or the walk never ends |
| `oneblock` | write inside one block, and inside a block only | pieces over pieces, wrong blocks, offsets advanced twice, overruns |
| `few` | let a first write take only blocks whose entries the first block of the FAT holds | after `umount_fs` and `mount_fs` the chain leads anywhere, into the tables for example (see *Take 5* below) |

For proper clients the file system implements `FileStore`: a read
returns what was written last, files survive `umount_fs` and `mount_fs`, and when the
process ends without `umount_fs` they come back as last saved, but for the data
(not the length) of files that were changed since. Clients that keep to no rule
are left with `TypeOK`, `TablesKept` and `NamesSound`, where the FAT is one block or
they keep to `few`. `FSAssumption` says that the FAT fills its
blocks, that all tables are described by its first block (6 + 64 of 2048
entries in C) and that a `short` holds the marks and twice the number of blocks;
of the memory around the FAT it says nothing. Only the entries of the first
block survive the round trip through the disk, and `BlocksOwned` is about those.

One hazard meets proper clients, too. `fs_delete` and `fs_truncate` end their loop
over a chain with `b == END` and then store to `FAT[END]`, in the header that
`malloc` keeps in front of the array. Nothing looks at it until the same process
unmounts and mounts again: `mount_fs` calls `realloc` on the array and is aborted
(`mount_fs_Abort`). `SessionsEnd` says that this, and `fs_listfiles` before there is a
directory, are the only ways in which a call of a proper client ends the process, and
that none hangs; the run `remount` shows the abort.

`DISK_BLOCKS`, `BLOCK_SIZE`, the numbers of files and descriptors are constants. Not
modelled: names longer than 15 characters (refused), `malloc` failing, and
`read_file`, which nothing calls.

### Shell

A line is a sequence of words and of the marks `< > | &`; a script is what a user
may type. The shell's steps are those of its loop: prompt, `fgets` (with
`syntaxCheck` and the split at pipes), pipe and `fork`, `waitpid`, `close`. Process n is the
n-th child, and pipe n the pipe made for it; `Readers(n)` and `Writers(n)` say who
has its ends at each moment, from what the code has opened, duplicated and
closed. `pipe` and `fork` may fail (`Breaks`): after a failed `pipe` the shell ends,
after a failed `fork` it goes on like a parent and calls `waitpid(-1)`. A
redirection without a word on either side makes it dereference `NULL`
(`Parse_Crash`). A stage whose input file is missing ends at once (`Missing`), as does one whose
output file cannot be written; a missing one is made (`O_CREAT`). The programs of the stages are external: a filter copies its
input until the end, the others write a number of units and end; a write to a
pipe that nobody reads kills the writer, one to a full pipe waits.

Left out: what is printed, buffers of stdio, the contents of files, `perror` and
exit codes, the limits of 512 characters and 32 arguments, and zombies.

## Properties and runs

Every run is a small instance whose bounds are stated in its `.cfg`.

| run | client and ticks | shows |
|---|---|---|
| `join` | as in `test-threads.c` main creates, joins and returns; its threads are one consumer and two producers, one of them created by the other; ticks wherever no call is half done | ring and contexts sound, tids distinct, `pthread_join` reads the exit code after the exit, tokens conserved, no waiter left behind a token, main gets to its end |
| `waiters` | two waiters on one semaphore, `malloc` failing; same ticks | no token lost, queues sound, every BLOCKED thread is in a queue or a join field; `exit(0)` only without a runnable thread |
| `any` | all orders of the calls, three workers, main and a worker in `pthread_create` at once each with a `tcb` of its own, recycled heap memory; ticks everywhere but inside `schedule()` | types; `running` is the current thread, only it is RUNNING; TERMINATED is final; nobody returns to a freed stack; first come first woken |
| `turns` | Take 2 with main and four workers that exit or compute, one of them creating another; ticks everywhere but inside `schedule()` | implements `RoundRobin`; no starvation; exit is final |
| `tls` | three threads, four pages of two bytes, sizes 3 and 7 with `Word` = 8 (so that 7 wraps round), ranges inside, across and behind pages, `mmap` failing | reference counts exact; mapped memory is held memory; implements `PrivateStorage` |
| `files` | proper clients; two files, two descriptors, twelve blocks of two units (two of them FAT), `mount_fs`, `umount_fs` and `fs_read` failing, the process ending between any two calls, and behind the FAT table numbers and numbers of no block | implements `FileStore`; no block leaks or is shared; no call hangs, and none dies but a `mount_fs` after a chain was freed and `fs_listfiles` without a directory; open files are not deleted |
| `calls` | the first twelve calls of clients that keep to no rule; five blocks of one unit, two of them free; `make_fs`, `mount_fs`, `umount_fs` and first writes failing | types; `fs_write` never reaches FAT and directory; slots in use and names go together, no name twice |
| `shell` | all lines of up to four tokens, pairs of longer ones in fore- and background, a pipe of capacity 2, a program that writes one unit and one that writes three | stages run as typed; each connected to its neighbours; the foreground waited for; shell and processes come to their ends unless a stage fills its pipe |
| `nested` (violation) | ticks inside `schedule()` | after line 179 a second `schedule()` saves the stack being left in the `jmp_buf` of the thread about to run |
| `same_tid` (violation) | two `pthread_create` interleaved | both threads get one id |
| `tls_wrap` (violation) | ranges whose end wraps round | a range out of bounds is accepted |
| `remount` (violation) | the client of `files` mounts again in one process | `mount_fs` is aborted after a file with a block was deleted or truncated |

**Why the bounds suffice.** The ring needs three nodes for a head, a tail and
something between; the runs have three to five. One semaphore and two waiters
give a queue with a front and an end and both outcomes of a wake-up race.
Semaphores do not refer to one another. For storage, three threads give a page
shared by all, copied by one and destroyed by another; two pages per storage
give a range across a border; the theorems below lift the sharing results to
all sizes. `MaxDepth` bounds activations of `schedule()` on one stack: 1 is no
bound when no tick lands inside `schedule()` (`OneActivation` in the proof), and
`nested` uses 2.

For the file system, two files and two descriptors are enough for an entry that
is not the descriptor's, for files that compete for a block, and for a freed
block that comes to another file; `files` has just as many saved blocks as
files, so that every freed block is soon another file's, and blocks whose FAT
entries are lost on the way through the disk. `calls` is bounded in length because closed and deleted entries keep what
they held; twelve calls reach make, mount, create, open, a write or two,
truncate, delete, umount and a second mount, in every order. Of a process that dies in
`umount_fs`, `files` has the death before the first write and `calls` the one
after it. A shell with three stages has a first, a middle and a last one; two
lines let a background pipeline live on under another. `MaxProcs` is the number
of stages in the longest script, `MaxSize` and `MaxRefs` bound file sizes and
reference counts.

**The tick sets.** `QuietTicks` excludes the points where the code really comes to
grief, which is stated rather than hidden: half-way through `pthread_create`
(half-linked ring, `same_tid`), between the stores of `pthread_exit` (a
TERMINATED thread that never wakes its joiner) and between the unlocked test and
`value--` of `sem_wait` (a lost post, or two takers of one token). `any` and `turns` put those ticks back and check
what remains true; `nested` adds those inside `schedule()`. `exit(0)` is asked about
in `waiters`, under quiet ticks, and not in `any`: two creators that have both read
the same `tail` (line 106) lose one of the new `tcb`s from a ring that is closed
again afterwards, and then `schedule()` may give up although that thread is READY.
Deadlock checking is
off for `any`, since with SIGALRM left masked, or a thread in
`while(1){}` alone, the code does stop.

In `turns` no two threads create at once, and a fresh `tcb` does not read as READY
(`Uninit`): with either, a tick in `pthread_create` can take a thread out of the
ring or give the CPU to one that has no context. What a tick there can still do,
crash the process, is a step that `RoundRobin` allows (`MayFail`).

**Fairness.** `FairSpec` of Take 3 assumes that the CPU does not stop
(`WF(Library)`), that the interval timer goes on firing (`WF(Interrupt)`), and that
a thread whose turn comes again and again gets to execute some of its own code
in one of its 50 ms slices (`SF(OwnCode(t))`). Take 2 needs the first two only:
there a client may compute for ever without another call.

The shell's `Spec` assumes that the system schedules the shell and every process
again and again (`WF`), and that nobody has to type. `ShellComesBack` and
`ProcessesEnd` leave out one case, which the code has and the properties name
(`Stuck`): a foreground stage that has filled its pipe, while the shell, who
has the only read end, waits for it. Deadlock checking is off there because shells end.

## What is proved

All theorems hold for any values of the constants that satisfy the named
assumptions of the modules. Some have hypotheses on top, each a definition that
says what has to be true of ticks, clients or devices; where the code does not
provide it, the text below says so, and so does a run.

### Take 3

For any number of threads and semaphores, any program of every thread, any
results of `malloc`, and ticks wherever the hypotheses do not exclude them.
`CoreAssumption` says, besides the types of the constants, that the values standing for a
null pointer and for garbage are no numbers and no states of a stack.

| hypothesis | what it says | why it is needed |
|---|---|---|
| `Unnested` | no tick inside `schedule()` | with one (the handler has `SA_NODEFER`), `running` is somebody else: run `nested` |
| `WholeCreates` | no tick inside `pthread_create` | two of them interleaved share an id and half-link the ring: run `same_tid` |
| `WholeExits` | no tick between `pthread_exit`'s first store and its wake-up | a TERMINATED thread gets no turn to wake its joiner |
| `WholeTakes` | no tick between a woken waiter's test of `value` (302) and the store of `value--` (303) | `sem_wait` is unlocked there: another waiter takes the token that was tested for, and `value` becomes -1, or a post between load and store is overwritten |
| `NaturalValues` | no negative value for `sem_init` | with one, `sem_wait` returns 0 without a token and without `unlock()` |
| `ZeroedTcbs` | `malloc` hands out zeros | `pthread_create` leaves `next_in_queue`, `join`, `exit_code` unset; recycled memory sends `sem_wait` through a stale pointer |
| `OneWaiter` | one thread at most ever waits on each semaphore | another one can take the token between the wake-up and the woken one's `value--`, and `sem_wait` then returns without one |
| `OneJoiner` | a thread is joined by one other at most | line 235 lets a second joiner straight through, to read the exit code of a live thread |

| theorem | hypotheses | module |
|---|---|---|
| `TypeCorrect` | none | `ThreadsProof` |
| `RunningIsCurrentThm`, `OneRunningThm`, `SavesOwnContextThm` | `Unnested` | `ThreadsProof` |
| `TerminatedIsFinalThm`, `NoReturnToFreedStackThm`, `WakesInOrderThm` | `Unnested` | `ThreadsBlockingProof` |
| `QueueSoundThm` | `Unnested`, `ZeroedTcbs` | `ThreadsBlockingProof` |
| `BlockedIsListedThm` | `Unnested`, `WholeExits` | `ThreadsBlockingProof` |
| `TokensNotLostThm` | `WholeTakes`, `NaturalValues` | `ThreadsWholeProof` |
| `TidsDistinctThm` | `WholeCreates` | `ThreadsWholeProof` |
| `ReadyIsResumableThm` | `Unnested`, `WholeCreates` | `ThreadsWholeProof` |
| `RingSoundThm` | `WholeCreates` | `ThreadsRingProof` |
| `ExitsOnlyWhenStuckThm` | `Unnested`, `WholeCreates` | `ThreadsRingProof` |
| `TokensConservedThm`, `NoStrandedWaiterThm` | `Unnested`, `WholeTakes`, `NaturalValues`, `OneWaiter` | `ThreadsWholeProof` |
| `JoinSeesExitThm` | `Unnested`, `WholeCreates`, `WholeExits`, `ZeroedTcbs`, `OneJoiner` | `ThreadsWholeProof` |

Each module adds an invariant to those of the modules it extends:

* `TypeInv` is `TypeOK`, which kind of object a half-done call works on
  (`LocalsShape`), and that before the first `pthread_create` there is only main
  (`HeadShape`).
* `CurrentInv` says why `running` is right: there is at most one activation on
  each stack (`OneActivation`); a `jmp_buf`, once filled, belongs to its own thread
  (`OwnContexts`); a thread not yet READY has no context and one never run starts
  below its thunk (`Newborns`, `Unborn`); and while `schedule()` runs, `running` is the
  thread it was called on until `schedule_Install` (`Current`, `RunningState`).
* `BlockInv` relates the states of threads to where they are: who is BLOCKED is in
  `pthread_join` or `sem_wait` and knows for whom (`PcStates`, `Joiners`), the thread
  that is joined knows its joiner until it is gone (`Joined`), the state of the one that has the CPU
  (`CpuState`, `ChosenState`), and no handle finds a `tcb` that is half filled in
  (`Handles`). The freed stacks are those of TERMINATED threads (`Freed`), and no
  step but `schedule_Jump` goes to another stack. That a TERMINATED thread
  stays so follows, since a wake-up finds only BLOCKED ones.
* `Queues`: for every semaphore there is a sequence of threads, without repetition, that
  `next_in_queue` spells out from `queue` on and that holds just the threads that
  block on it. The lemmas on `IsQueue` say what an append at `QueueTail` and a removal
  at the head make of it; `QueueSound` and `WakesInOrder` are read off.
* `TokenInv` is what the unlocked end of `sem_wait` relies on: a thread that has found a token
  and not stored `value--` yet is the one that has the CPU (`Whole`), what it is about to store is
  `value - 1`, and that is no negative number (`Decrementing`).
* `HandleInv` keeps all handles below `id`, hence new ids new. `ResumeInv`: the
  `jmp_buf` of a thread that is READY or waits to be is `Resumable`.
* `RingInv`: except between two stores of `pthread_create` the ring is the image of a
  sequence of all `tcb`s (`Ring`), `tail` is its last one while a creator has it in hand, so that `next` leads from `head` to every one of
  them. That `schedule()` passes all of them before it gives up makes
  `ExitsOnlyWhenStuck` true; the proof of it follows the walk from `schedule_Look`.
* `WaiterInv` (`OneWaiter`): a woken waiter that has not yet decremented has a token in `value`
  (`TokenForWoken`). This is false with two waiters, as the runs with two show:
  there only `TokensNotLost` holds. Nor is anything claimed there about being woken: of two
  waiters the second stays in the queue when two posts come in a row, because `sem_post` wakes
  only when `value` becomes 1. `BlockedIsListed` says that it is on record, no more.
* `JoinInv` (`OneJoiner`): a thread past its wake-up has stored its exit code, and the
  thread that waits for it is the only one that ever will read it.

### Take 2

`Threads2Proof`, for any number of threads, any programs, any results of `malloc`:

| theorem | hypotheses |
|---|---|
| `TypeCorrect` | none |
| `ExitIsFinalThm` | `Unnested` |
| `ImplementsRoundRobinThm` | `Orderly`: `Unnested`, and `WholeCreates` or `SoleCreator` |

`SoleCreator` is the weaker condition on `pthread_create`, for the usual client in which
only main creates: ticks may land in it, except at two places. Each part of it is there for a
reason that TLC showed with counterexamples on small instances:

* no tick at `c_next`, where the last `tcb` already leads to the new one, whose own
  `next` is not set: the search runs off the ring;
* no tick at `c_context`, where the new `tcb` is READY but has no context: `schedule()` may
  jump to garbage;
* `Uninit = {Junk}`: `malloc` does not hand out memory that happens to read as READY,
  which would do the same earlier;
* one creating thread: two that are both at the end of the ring lose one of the new
  threads, which then never gets a turn.

The run `turns` goes further in one respect: it has ticks at the two places, where they
may crash the process, and it has a `malloc` that may fail, so that the abstraction allows the
process to end (`MayFail`). That no other harm comes of them is checked there and
not proved.

The invariant has three parts. `TypeInv` and `CurrentInv` are those of Take 3, for an exit
that stores its state and then spins until a tick takes the CPU away (`Spinning`). From `CurrentInv` alone
follows that exit is final. `TurnInv` is what makes the turns: `Ring`, the ring is the
image of a sequence of the created threads in the order of creation, a `tcb` that is
being linked comes behind the last one; `ReadyContexts`, a READY thread has a context to
resume; `Kinds` and `TurnState`, which states the threads and the activations
can have; `Creators`, whose half-done `pthread_create` there can be; and `Scanning`: between `running`
and the place the search has reached there is no READY thread (`Sooner`).

The rest is a step simulation. `OrderCorrect`: the abstract `order`, which is
read off the `tcb`s, is the sequence that the ring spells. `FollowerIs`: the
first thread alive that the search meets is the one `RoundRobin` computes with
indices modulo the length. With these, `ReadyCreates`, `ExitExits`,
`InstallSwitches`, `EndEnds` and `NoFault` show that the five kinds of visible
step are steps of `RoundRobin`, and `QuietTurns` that all others stutter. That
`NoFault` is among them is the point: under `Orderly` no search leaves
the ring and no `longjmp` goes to a stack that is not there.

### Take 4

`TLSProof`, for any number of threads and pages, any page size and word width:

* `TypesThm`, `RefCountsExactThm`, `MappedIsHeldThm`. The key to the invariant is
  `OnePlace`: a page has the same index in every storage that has it, because only
  `tls_clone` shares pages. Without it a `tls_write` could, for all the invariant
  says, replace one of two entries of the same page.
* `ImplementsPrivateThm`: copy-on-write implements `PrivateStorage`, if no client's
  `offset + length` wraps round (`NoWrap`). One lemma per action shows that it is
  the abstract call or leaves the stored bytes alone. Sizes that wrap are
  allowed: then the process may end, which the abstraction permits at any time,
  but no call that returns returns anything wrong. `tls_wrap` shows the need for
  `NoWrap`.

### Take 5

`FileSystemProof`, for disks, blocks and tables of every size (`FSAssumption`), whatever
the memory around the FAT holds:

* `TablesKeptThm`, `NamesSoundThm`, for any device failures and for clients that keep to
  none of the four rules, where the FAT is one block or clients keep to `few`
  (`FewBlocks`): no sequence of calls makes `fs_write` reach the
  tables or hands out their blocks, or gives a name two slots. `Inv` is the
  invariant. `ChainsOK` is about the entries that are known, those of the first
  block of the FAT and the three places in front of it, where the code stores, too:
  the blocks that a chain can reach from a data block, from a mark (`LAZY`,
  `END`, `FREE`) or from block 0 are `Good`, none is a table's. It holds of the FAT while
  nothing is mounted, because `mount_fs` fills what is there, and of the FAT on the
  disk (`DiskOK`). `umount_fs` copies the k-th block of the FAT from
  twice as far as it should, which is right for the first block only; of the
  entries of the other blocks nothing is known after a mount, and
  `FewBlocks` keeps chains away from them (`FewBlocksFew`). It is needed: with a FAT of
  three blocks, let a file be written into a block that the first FAT block describes and one
  that the second does. The memory behind the FAT is the directory; after
  two rounds of `umount_fs` and `mount_fs` the entry of the second block is what was there, a used flag
  for example. Its value 1 is the first block of the FAT, and `fs_delete` follows the
  chain and marks the reserved blocks free. `DirOK`, `FdsOK`: heads are good, names are distinct, descriptors
  are in range.
* `TypesThm`, under `FewBlocks`, if no buffer is larger than `MaxSize` and `MaxRefs` is not zero (`Bounds`).
  Its invariant `Typed` says besides that every block of file data holds units
  in all its places, of which the reason is `PieceFits`: a piece of a write that is under
  way takes no more units from the buffer than the buffer has.
* `OpenNotDeletedThm`, for clients that keep to `close` and `match`, under `FewBlocks`: an open file is never
  deleted. Without `match` a client deletes one within six calls: `fs_open` takes the descriptor's
  number for the file's. `Matched` is the invariant: a descriptor in use is the one with the
  number of its file, and the count of its slot is not zero.
* `BlocksOwnedThm`, `SessionsEndThm`, for clients that keep to all four rules
  (`ProperClients`), a device that fails neither first writes nor `umount_fs` between
  FAT and directory (`WholeTables`), and as many blocks in the first block of the
  FAT as there are files (`Room`: 64 files, 2048 - 70 entries in C): no block leaks, none
  is shared, no call between `mount_fs` and `umount_fs` hangs or kills the process, and outside
  a session only the two deaths named above are left (`mount_fs` after a chain was freed: run
  `remount`; `fs_listfiles` without a directory). Such clients keep to `few` without knowing:
  their files have one block each, which `Room` finds in the first block of the FAT. `Owned(f, d)`
  is the agreement of a FAT and a directory: every file in use is empty or has one block of
  its own, and every block that is not free is some file's. `OwnInv` says that it
  holds of the tables in memory while mounted, and of those on the disk, if there
  are any, at any time; so it survives the round trip and the end of a process.
  `Room` is what finds a free block for a first write: the files that have one are
  fewer than the blocks (`RoomLeft`). With a first write that fails, or a disk that is full, -1
  or a leaked block stays behind: `calls` has both.
* `ImplementsFileStoreThm`, under `Bounds`, `ProperClients` and `Room`, for a device
  that keeps to `SafeFaults`: the file system is the store of `FileStore`, call by call.
  The device may fail any read, any later write, any access of `mount_fs`, and
  `umount_fs` before it has written anything (run `files` has such a device). It does
  not fail `make_fs` or a first write, and it does not fail `umount_fs` later: `make_fs`
  would leave `mounted` set, the file whose first write fails keeps a head without a block, and a
  half-written `umount_fs` leaves a FAT and a directory of two different moments, which
  no store of files describes. The abstract files are those of the directory
  (`FilesIn(disk, DIR)`), the saved ones those of the directory on the disk; every
  file is one block long (`OwnInv`), so its content is the first `size` units of that
  block (`ContentIs`). `StoreInv` adds two facts to the invariants above. `Counted`: a file is open
  once at most, so `fs_close` closes and `fs_delete` refuses just the open ones. `SavedKept`:
  while mounted, a saved file whose name nobody has touched is still in its slot with its
  head, so its block is not free and no write can go there. A proper write has one of two effects
  (`ProperWrite`): nothing but a -1, or `Wrote`, one block replaced, which is no other file's,
  and whose content is the old one with the buffer over it (`PatchedContent`). `WriteDamage`
  is the clause about the end of a process: what a write does to the saved files, it does to those
  whose names are among `touched`, and it leaves their lengths. There is one lemma per
  action (`CreateImplements` to `ExitImplements`).
* Chains and free blocks are counted by recursive functions. The lemmas about them
  (`PathStays`, `ReachStays`, `PathShort`, `WrittenAll`) take a counterexample of least
  index, since induction theorems are out of reach.

### Take 1

`ShellProof`, for all programs, scripts and capacities of pipes, whichever of `pipe` and
`fork` fail: `PlumbedThm` (each stage reads what the stage before it in its line
writes) and `ForegroundDoneThm` (a foreground stage starts, and the prompt comes, after the
stages before it have ended), `TypesThm` and `RunsWhatWasTypedThm`. For the first two
the invariant is about the hand-over in the middle: from `fork` to the next `pipe` the
shell's standard input is the last process's pipe and that process is the last stage so
far (`Connected`), and where the shell waits, every earlier foreground process has ended
(`Waited`), so that the `waitpid(-1)` after a failed `fork` cannot reap the wrong one.

`RunsWhatWasTypedThm` says that the arguments and files of a line's processes, put together
again with the marks between them, are the line that was typed. It has two halves.

* About the operators. `Split` is a recursive function; that its parts lie between the marks, all of
  them and in order (`SplitCut`, over the bounds of `IsCut`), is shown word after word from a
  counterexample of least index. `CommandsSpan` says the same of a line's commands, and where the text of
  the line begins and ends when a pipe at either end is skipped; `CommandsClean` what
  `syntaxCheck` is for: `<` only in the first command, `>` only in the last, each once and in this order;
  `StageTyped` that a stage whose redirections do not crash the shell has every word of its command and no
  mark; `AllIs` that such pieces put together are one piece of the line.
* About the runs. `Record(d)`: the first d stages of the line at hand, and they alone, have processes
  of this line, the last d ones, and each was given its stage; none of them crashed the shell. d is k - 1
  when the shell comes to a stage, k while it waits for it, and the number of commands
  when it is back at its prompt (`Recorded`). `Older` keeps the processes of earlier lines apart.

`TypesThm` needs the same facts: that a process gets words is `StageTyped`, and where
it reads from is `Plumbed`.

### Only model-checked

* Liveness (`MainGetsDone`, `NoStarvation`, `ShellComesBack`, `ProcessesEnd`), since
  fairness and ENABLED are out of the prover's reach.
* Take 2 with ticks at `c_next` and `c_context` (run `turns`), see above.

## Not modelled

* Takes 2 and 3: the assembly and the pointer mangling of `threadsHelpers.h`; the C
  library's heap under a tick inside `malloc`; what clients compute or print; the
  contents of a stack.
* Take 4: page protection, the fault handler, and calls that overlap. The code
  takes no lock and promises nothing about them, so there is no property for
  them to have.
* Take 5: `read_file`, which nothing calls; `malloc` failing; the client `main.c`, a
  straight line of calls, all of which the runs make in every order.
* Take 1: texts and exit codes; the limits on the length of a line.
* Build files.

## Plan

All that was planned is modelled and checked, and every invariant of the passing runs is proved. What
could still be added is the proof of Take 2 with ticks at `c_next` and `c_context`.
