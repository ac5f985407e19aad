# A verification project for operating_sys

The repository is a two-semester collection of operating-systems programs:
small, separate C (and assembler) programs about processes, semaphores,
threads, signals, sockets and kernel modules. There is no common core; what
makes each program hard is what runs beside it: other processes, interrupt
handlers, signals, failing calls. The project takes the programs one by one,
those with the most concurrency first.

Every module names the file it models at its head; `PROJECT.json` maps every
definition to source lines.

## 1. Inventory

### Modelled

| Part | State | Operations | Interaction |
|---|---|---|---|
| `os_01/lab_05/01.c` producer/consumer processes | shared segment (two positions, buffer), semaphores SB, SE, SM | `create_prod`, `create_consum`, `prod`, `consum`, waits of `main` | shared memory, `semop()`, `fork`/`wait` |
| `os_01/lab_05/02.c` reader/writer processes | one shared int, four semaphores | `writer`, `reader`, forks and waits of `main` | shared memory, `semop()`, signals |
| `os_01/lab_06/main.c` Windows reader/writer threads | three interlocked counters, `active_writer`, `value`, a mutex, two events | `start_read`, `stop_read`, `start_write`, `stop_write` | plain shared variables, kernel objects |
| `os_02/lab_01/daemonise.c` daemon | lock file and its `fcntl` lock, signal dispositions, pending signals | `daemonize`, `already_running`, `thr_fn` | several copies, signals |
| `os_01/lab_02/prog.asm` switch to protected mode and back | mode, tables, masks and base of the interrupt controllers, line A20, `flag_enter_pr` | each group of instructions, `new_int08`, `new_int09` | interrupts of timer, keyboard and other lines |
| `os_01/lab_04/src/01.c` ... `05.c` fork, exec, pipe, SIGINT | children, pipe ends, pipe, `mode` | forks, waits, writes and reads | parent and children, kills, signals |
| `os_02/lab_04/src/part_02/fort_proc.c`, `fort_seq.c` fortune pot | pot, `cookie_index`, `next_fortune`, entries in `/proc` | read, write, load, unload | calls of several processes at once |
| `os_02/lab_09/src` tasklet and work queue modules | `scancode`, tasklet, two works | handlers, deferred functions, load, unload | keyboard interrupts |
| `os_02/lab_08/src/net` select server and client | `clients[]`, `readfds` | `handle_connection`, `handle_client`, errors | connections that come, send, leave and break |
| `os_02/lab_dir_of_catalog` directory walkers | a stack of paths; the working directory | `proc_entry`, `dopath` | permissions of the tree |

What is hard in them, and what makes them correct:

* **Producer/consumer.** Any interleaving of five children; `fork()` failing
  half way; a `semop()` interrupted, a child killed, the semaphore set
  disappearing under sleeping processes; a buffer that is never wrapped, so
  that its safety rests on a sum over all producers. Correct: at most one
  process inside, semaphores that agree with the positions, slots used once and
  only when full, FIFO delivery; delivery of everything and termination, as far
  as no child fails.
* **Reader/writer processes.** Operation arrays that are applied as a whole;
  `semop()` results that nobody looks at, so that a stop and continue lets a
  process in that never entered; processes killed inside; an uninitialised
  `pid`. Correct: a writer is alone, readers are counted, no write is lost, no
  deadlock; and the semaphore that is to hold back readers does so.
* **Windows threads.** `start_write()` and `stop_write()` hold no lock. Correct:
  counters stay exact, the wait under the mutex cannot block, no wake-up of a
  writer gets lost.
* **Protected mode.** An interrupt before every step of a change of base, masks, table and
  mode. Correct: what is taken finds a handler for the mode it is taken in; the memory
  counted is the memory there; Enter leads back to DOS with its processor, controller and masks.
* **Fork and pipe.** Ends of file that come only when the last write end is closed, failing
  forks, children killed at any step. Correct: the parent always returns, has waited for
  its children and has read each message whole.
* **Fortune pot.** No lock anywhere, a load whose every step may fail, a file that is there
  before the pot is reset and after it is freed, writes that fail half way, have length 0 or
  fill the pot. Correct: cookies whole, in order and in turn, as long as calls do not overlap;
  nothing left in `/proc`.
* **Tasklet and work queue.** Interrupts between the steps of load and unload, and faster
  than the bottom halves. Correct: what is unloaded is called no more; the last code is shown.
* **Select server.** Descriptors whose numbers return while `readfds` still holds them.
  Correct: table, descriptors and connections agree; `recv()` never sleeps; each message is read.
* **Directory walkers.** A working directory that follows the walk, or does not when `chdir()`
  fails. Correct: each object is counted once, and every walk ends.
* **Daemon.** Copies started at the same time, killed at any point; signals
  before, in and after the change of their disposition. Correct: one copy at
  most, the lock never left behind, no round in which all give way, SIGTERM
  obeyed.

### Not modelled

| Part | Why |
|---|---|
| `lab_07/src/myfs.c` file system module | tables of the kernel's own operations around a counter of 12 cache entries; next in the plan (the type stays registered when an allocation fails after it) |
| `lab_05/src` file I/O, two threads | short programs that show what stdio and shared offsets do; last in the plan |
| `lab_08/src/unix` datagram server | a sequential loop of `recv()`; the one thing shared is the socket's name, which a second server removes |
| `seq_read()` buffering in `fort_seq.c`, `procShow` in `workseq.c` | library buffering, output |
| `lab_05/temp`, `lab_04/.../temp/procfd_exam.c`, `lab_02/task.asm`, `main.asm`, `lab_01` | earlier forms of the programs modelled |
| `lab_04/src/part_01` `/proc` dump, `lab_03` task list and exported symbols | formatting and I/O; rules of the kernel, not of the code |
| fork exercises, reports, notes | a few lines each; text |

## 2. What is modelled

### Producer/consumer: `BoundedBuffer`, `ProdCons`, `MCProdCons`

`BoundedBuffer` is the promise: a FIFO queue of capacity N, in which producer p
puts `Base[p]`, `Base[p]+1`, ..., `Count[p]` of them, and consumer c takes
`Count[c]`. `ProdCons` is the program. `mainpc` is where main is, `pc[p]` where a
child is; a round of a child is

    start --semop--> access --use slot--> load --> store --semop--> start / exit0

with the position's `++` split into load and store. `Setup` is everything before
the first fork (its failures end main while there are no children, so their
partial effects are dropped), `Fork`/`ForkFails` one `create_` call, `Wait` and
`MainExit` the end of main. `shm` is the segment in words. The source adds
`sizeof(int)` to int pointers, so the positions are at words 0 and 4, the buffer
at word 8, beyond the 44 bytes asked for but inside the page that backs them:
`Words` is what the page holds, `LayoutAssumption` that it suffices. `Items` are the values the
producers make and `Orders` the rounds of the consumers.
Every `semop()` that returns -1 ends its caller with exit(1), and there are two reasons:
`SemopFails` in the set's absence (the program never removes its semaphores; `RemoveSet`
is somebody who does), and `SemopInterrupted`, EINTR of a call that sleeps, which is
always the first of a round, for the second only adds. `Kill` ends a child anywhere; it
stays in `killed`, with its `pc` where it was, and `Wait` reaps it like the others. A
signal that kills main itself only removes the waits, and is left out.

Refinement: a value enters the abstract queue when the producer stores the new
position, and leaves it when a consumer prints it. The mapping reads the queue out
of the shared words between the two positions.

### Reader/writer processes: `ReadersWriters`, `MCReadersWriters`

An array is modelled by its effect: the semaphores it wants zero and what it adds
to each. This is exact, because `semop()` applies
an array as a whole and no array passes a semaphore it has itself made nonzero to a later
test: `start_write` takes its 1 for `WAIT_WRITER` back in its last entry.
`start_read` is declared with five entries and called with three; only the three
count. The flag 1 in the arrays is neither `IPC_NOWAIT` nor `SEM_UNDO`, so a call
blocks, and the semaphores of a killed process stay as they are. `Interrupt` is
EINTR: the program goes on as if the call had succeeded. `interrupted` and `writes`
are history variables (did that ever happen; how many increments were made). `pid`
starts as 0 or as 1, which stands for any other value. The result pointer of
`wait(status)` is uninitialised too; wherever it points, the kernel has reaped the
child, and the int it may change is none of the modelled state.

### Windows threads: `WinReadersWriters`

Each shared access is a step: the two tests of `if (a || b)` are two reads, `++value`
a load and a store, each Interlocked call one step. `can_read` is an auto-reset
event, `can_write` a manual-reset one.

### Daemon: `Daemon`

A copy is the child `daemonize()` leaves behind. The steps are the calls whose order
matters: SIGHUP ignored (l. 128), `open`, `fcntl`, `ftruncate`, `write`, `close`, SIGHUP
default (l. 63), mask blocked (l. 67), thread created. A signal is dropped, deadly or
pending by the step the copy is at. `Fails` ends a copy at each call whose failure is
answered with an exit; the results of `ftruncate` and `write` are not looked at, so
they may have had no effect.

### Protected mode: `ProtectedMode`

`pc` is the next group of instructions; `Goto` moves it, and an interrupt may be taken
between two groups, by `Interrupt(i)`, when `cpu.if` and the controller allow it. Both handlers
have interrupt gates and are one step each. `Handler(i)` looks the vector up in whatever
table is in force; a request that finds none of its own leaves the program (`Lost`). `ds` is a
variable because both handlers use whatever it holds: from l. 225 to the end of the
count it describes all memory, and `param_int_8`, `flag_enter_pr` and `syml_pos` are then the
bytes at 198h, 192h and 194h, in the real mode's vectors 102, 100 and 101 (`Vectors`). A tick
rotates the first, an Enter sets a bit of the second, another key adds 2 to the third; `data.ivt`
is the set of the vectors that no longer are DOS's. A real megabyte is `MB` = 2 bytes and the 4096 that 32 bits
address are `Top` = 3; the arithmetic, which ends one byte early, is the source's. Windows of
the code that the properties except and the model has: l. 485 to 507 (protected-mode base,
real-mode table, interrupts on) and the count with the other `ds`. Left out: the screen, and
with it that `new_int08` does not save `edi`, so that a tick may tear the word "Memory:".

### Fork and pipe: `ForkPipe`

`program` says which of the five files runs; they share `Fork`, `Forked` and `WaitAll`. A byte
in the pipe is the child that wrote it, messages differ in length. `ends` is who holds which end, so that end
of file and SIGPIPE follow from closings and exits. `read_message` counts the read that found
the end, so one byte that nobody wrote comes before the terminator; the model has it as 0.

### Fortune pot: `FortunePot`

One machine for both modules; `Put` and `Get` say which of the two indices is which. A call is
two steps, before and after its index moves, and the second may start from the old index. What
lies in the pot is told by the set `nul` of its terminators. `WriteFaults` is EFAULT: the first
bytes are in the pot, the rest of the length is cleared, the index has not moved. A byte outside
the pot or of a freed pot is `Oops`: free space is computed from the wrong index and one too
large, a write of length 0 to an empty pot puts its NUL before it, and the pot is freed before
its file is removed, so all three happen. A cookie that fills the pot is, with newline and NUL,
one byte too long for `tmp` of fort_proc (`Overflows`): that byte was 0 or unused, or it is the low
one of `next_fortune`, or the model takes it as an oops. (fort_seq uses `snprintf()`: the text shown is
cut, the index moves by the whole length.) `raced`, `cookies` and `turn` are history variables: whether
calls overlapped, where the cookies written end, and how many were shown in this round.

### Tasklet and work queue: `BottomHalf`

Both modules on one line. `line` is the interrupt and the next step of its handlers, `mod` the
last call of each module's load or unload; deferred functions read the global `scancode`
twice (tasklet) or at once (works), long after the handler wrote it. `oops` marks calls into what is not there:
the handler before the queue is made or after it is destroyed, a tasklet not
initialised. `work_queue_init` may fail in `proc_create()` and leave its handler behind.

### Select server: `SelectServer`

A round is `Select`, `handle_connection`, then one `Skip`, `handle_client` or `OutsideMsg` per
slot, `EndOfRound`. Descriptor numbers are the lowest free ones, as the kernel gives them. A reset makes one
`recv()` fail and then reads as end of file. The client for whom there is no slot ends the server.

### Directory walkers: `DirWalk`

`Init` chooses a tree, the argument and the program. `frames` are the open directories with the
entries `readdir()` has still to give, `stack` is myftw_n's own, with or without garbage
under its first entry. In `dopath` a name is looked up in `cwd`, wherever a failed `chdir()` has left it.

## 3. What is checked

| Run | Instance | Distinct states | Shows |
|---|---|---|---|
| `prod_cons` | 2 producers of 2 values, consumers of 1 and 3, N = 4; interrupts, kills and removal at any step | 391 thousand | below |
| `readers_writers` | 2 writers, 2 readers, ints modulo 2 | 404 thousand | below |
| `wait_writer_unseen` | the same | - | finding 1 |
| `win_readers_writers` | 2 writers of 1 write, 2 readers | 204 thousand | below |
| `daemon` | 3 copies, signals SIGHUP, SIGTERM and one more | 72 thousand | below |
| `daemon_one_copy` | 2 or more copies | - | finding 2 |
| `protected_mode` | 3 megabytes of 2 bytes, three interrupt lines, three vectors | 20 thousand | below |
| `fork_pipe` | 2 children, five programs | 662 | below |
| `fortune_pot` | 2 callers, a pot of 4 bytes, writes of 0 to 4 | 555 thousand | below |
| `bottom_half` | 2 modules, a key's press and release | 453 thousand | below |
| `select_server` | 3 clients, 2 slots, 2 messages each | 166 thousand | below |
| `dir_walk` | every tree of 4 objects, 2 names | 634 thousand | below |

**prod_cons.** `MutualExclusion`: no two processes between their `semop()` calls.
`SemaphoresMatchPositions`: SM and SE say what the positions say, up to the operation
in progress. `SlotsAreSafe`: each access is to a proper slot. `AllConsumed`: once all consumers
have come to their normal end -- or main has, and no child was interrupted or killed -- everything
has been made and printed, and all slots are free. `ImplementsBoundedBuffer`:
the refinement. `Termination`: main ends if no child is interrupted or killed, also when `fork()`
fails; and, whatever fails, if the set is removed. Not true, and therefore not stated: that main
ends after a child has failed with the set alive. What the child held stays held, what it
did not do is not done, and the others may sleep for ever.

**readers_writers.** `WriterAlone`, `ReadersCounted`, `NoLostWrite` hold as long as no
`semop()` was interrupted, also beside processes killed inside. (After an interrupt
they are false: the code does not look at the result.) `BinaryWriter` holds
regardless: the two writer semaphores always add up to 1. `SomeoneEnters`: without kills
and interrupts somebody always gets in again.

**win_readers_writers.** `CountersExact`: each counter equals the number of threads
between its increment and its decrement. `ReaderGateOpen`: `can_read` is signalled
whenever a reader tests the gate, so the wait under the mutex never blocks; for the
same reason readers never wait for writers. `WriterWakeupPending`: while a writer sleeps
on a reset `can_write`, some thread is on its way to set it. `WritersFinish`: the
writers end if time and again all readers sleep at once. Not true, and therefore not
stated: two writers may be active together, `++value` may lose an update, after which
the readers' loop never ends.

**daemon.** `LockGuardsFile`: the lock is held exactly while its holder rewrites the
file. `NotAllRefused`: the copies do not all give way. `SIGTERMObeyed`: a daemon that has
blocked its signals ends after a SIGTERM, unless others never stop coming before it. The
window between l. 63 and l. 67, in which SIGHUP is deadly again, is a step of the model.

**protected_mode.** `ProperHandler`: outside the window at l. 485 every interrupt that can be taken
has its handler for the mode, table and base in force. `MemoryCounted`: the number shown is
the megabytes present, whatever interrupts the count (of 4 GB the last one is not counted).
`EnterLeaves`: after the count, an Enter that waits leads back to DOS, with masks, base, table
and mode as they were. Not so the line A20, which the comment at l. 575 says is closed, nor the
vectors that ticks and keys changed during the count: the property says that they stay as the
count left them, that is, that no later interrupt touches a vector and nothing puts one back.

**fork_pipe.** `AllCollected`: a parent that ends normally has waited for every child (but in
01.c) and read every message whole; 03.c runs one child at a time. `ParentReturns`: it never
waits for ever, whichever fork fails and whoever is killed.

**fortune_pot.** `TypeOK` has the index of the next cookie in the pot, whatever races, and
the index read from within what reads that overlap can add to each other.
`CookiesWhole`: while calls do not overlap, the reads of fort_proc show the cookies written, each
of them whole, none left out or twice, and from the first again after the last, also between
writes that fail half way, are empty or fill the pot, and reads that fail. fort_seq moves on by the length
with its "seq: " and shows the rest of one cookie. Calls that overlap do tear, skip and repeat
cookies, so nothing is said of them but the bounds in `TypeOK`. `NothingLeft`: a
load that fails at any step and an unload leave neither entry, call nor pot.

**bottom_half.** `UnloadedIsQuiet`: after a completed unload no handler, tasklet or work of the
module runs or waits. `LastCodeShown`: codes may be missed, never the last one (by the tasklet,
if it is a press; the works print "?" for a release, whose sign bit stays).
Not true and not stated: that an unload ends (`tasklet_kill()` of a scheduled, disabled tasklet).

**select_server.** `TypeOK` has table, descriptors and connections in one-to-one agreement.
`RecvReady`: a client the loop turns to has something for it, also one that got the
descriptor of another in this round. `MessagesRead`: each message is received unless the
connection or the server ends.

**dir_walk.** `TypeOK`: myftw_n holds one directory open at most, none twice on its stack.
`WalkEnds`: every walk ends with exact counts, dopath back where it began if every directory
can be searched; the reference is the set `Reached` of the tree. Where one cannot, dopath may go
round in a circle until no more directories can be opened, and ends.

**Findings.**

1. `02.c:20` names semaphore 3 `WAIT_WRITER`, and readers wait for it to be zero, but
   `start_write` raises and lowers it in one atomic call: it is never seen raised, and
   readers can starve the writers.
2. `daemonise.c:49-51` says "Make sure only one copy of the daemon is running."
   `already_running()` closes the lock file at l. 197 and thereby drops its lock: a second
   copy serves beside the first.

**Why these bounds suffice.** Two processes of each kind are the least with which
same-kind and cross-kind races exist; with unequal counts the consumers cannot be
paired with the producers. N equals the number of values, as in the source: the last
slot and the word behind it are reached. `IntRange` 2 lets the shared int overflow.
Three copies of the daemon allow a copy to give way to one that itself ends, while a
third goes on. Win: with two writers each of the racing steps of `start_write` and
`stop_write` can interleave; `ITERATIONS` is bounded by the state space (a run with one
reader and three iterations finds nothing else). The proofs cover all sizes.
`MB` = 2 and `Top` = 3 give one, some and all megabytes present. Two children are the source's
`REP_N`. In a pot of 4, writes of 0 to 4 bytes fill it at once or one after the other, overflow it by one and leave
a negative space, and up to four cookies go round. Codes 30 and 158 are a key with a letter, pressed and let go: below and above both
limits, 103 and the sign bit. Three clients for two slots reach the full table, and
`BUF_SIZE` = `MaxSent` the message that fills the buffer. Four objects with two names make a
name be found in the wrong directory, and `MaxOpen` = 5 is more than any straight way needs.
`CHECK_DEADLOCK` is off because all programs may end.

Each checked property has a mutant in its module: a definition marked "mutant", not
used by the specification, that replaces one of the code's definitions by a plausible
slip and makes the property fail.

## 4. Fairness

`prod_cons` to `daemon`: weak fairness per process (or thread) for its own program steps: the scheduler runs
what can run, and a `semop()` or wait that stays possible is done. Nothing is
assumed of failures, removals, interrupted calls, kills, signals, who gets the Windows mutex, or
which pending signal `sigwait()` takes. Strong fairness is not used there, so two liveness
properties carry a premise: `WritersFinish` (the readers are time and again
all in their `Sleep()`; else each `stop_read()` may see another reader waiting) and
`SIGTERMObeyed` (other signals stop coming).

`ForkPipe`, `SelectServer`, `DirWalk`: weak fairness of the processes' steps; none of failures, kills,
signals or clients. `BottomHalf`: weak fairness of the line's handlers, the tasklets and the queue's
thread, none of keys, loads or unloads. `ProtectedMode`: weak fairness of the program and strong
fairness of each interrupt, which stands for timer ticks being rarer than their handler is
long: the controller serves a keyboard request that ticks come before again and again.

## 5. What is proved

TLAPS checks, for every value of the constants that the named assumptions allow:

| Module | Theorems | States |
|---|---|---|
| `ProdConsProofs` | `TypeCorrect`, `Exclusion`, `SafeSlots`, `CountingIsExact`, `EverythingConsumed`, `Refinement` | `TypeOK`, `MutualExclusion`, `SlotsAreSafe`, `SemaphoresMatchPositions`, `AllConsumed`, `ImplementsBoundedBuffer` |
| `ReadersWritersProofs` | `TypeCorrect`, `WriterIsAlone`, `ReadersAreCounted`, `BinaryWriterHolds`, `NoWriteIsLost` | `TypeOK`, `WriterAlone`, `ReadersCounted`, `BinaryWriter`, `NoLostWrite` |
| `WinReadersWritersProofs` | `TypeCorrect`, `CountersAreExact`, `GateStaysOpen`, `NoWakeupLost` | `TypeOK`, `CountersExact`, `ReaderGateOpen`, `WriterWakeupPending` |
| `ProcessProofs`, about `ForkPipe` | `TypeCorrect`, `EverythingCollected` | `TypeOK`, `AllCollected` |
| `ProcessProofs`, about `Daemon` | `DaemonTypeCorrect`, `LockGuards`, `SomeCopyGoesOn` | `DaemonTypeOK`, `LockGuardsFile`, `NotAllRefused` |
| `ProtectedModeProofs` | `TypeCorrect`, `HandlersAreProper`, `MemoryIsCounted` | `TypeOK`, `ProperHandler`, `MemoryCounted` |
| `KernelModuleProofs`, about `FortunePot` | `TypeCorrect`, `CookiesAreWhole`, `NothingIsLeft` | `TypeOK`, `CookiesWhole`, `NothingLeft` |
| `KernelModuleProofs`, about `BottomHalf` | `BHTypeCorrect`, `QuietWhenUnloaded` | `BHTypeOK`, `UnloadedIsQuiet` |
| `SelectServerProofs` | `TypeCorrect`, `RecvIsReady` | `TypeOK`, `RecvReady` |
| `DirWalkProofs` | `TypeCorrect` | `TypeOK` |

`ProcessProofs` and `KernelModuleProofs` each extend two components that share no variable; so that
they can, `Daemon` and `BottomHalf` have prefixed names (`DaemonInit`, `DaemonSpec`, `DaemonTypeOK`,
`BHInit`, `BHSpec`, `BHTypeOK` and so on), and so have their lemmas.

For each component `Invariance` (`DaemonInvariance`, `BHInvariance`) is `Spec => []Inv` for the
inductive invariant `Inv`, whose parts are named and commented there; the theorems above follow from it. `EverythingConsumed` and
`Refinement` rest on larger ones, `CInv` and `RInv`.

*Assumptions.* Each is a named ASSUME that the runs evaluate.

* `ProdCons`: producers and consumers differ, main creates each process once
  (`ProcsAssumption`) and all of them (`ChildrenAssumption`); the buffer fits the page
  (`LayoutAssumption`); the producers' values are finitely many and at most N
  (`ItemsAssumption`; 9 and 9 in the source), and the consumers take as many as the producers
  make (`OrdersAssumption`; 4 + 5 = 3 * 3). `ChildrenAssumption` and `OrdersAssumption` serve
  `EverythingConsumed` only: with other totals somebody would sleep for ever.
* `ReadersWriters`: the same about processes, finitely many readers, an int has at least one
  value. `WinReadersWriters`: finitely many threads, of one kind each, at least one iteration.
* `Daemon`: no copy is `noPid`. `ForkPipe`: two children or more (`REP_N` is 2 in the source).
* `ProtectedMode`: a megabyte has two bytes or more, and the count can go more than a step past the
  first megabyte. Without the second, `ecx` would begin at 0 and `loop` would go round 2^32 times.
* `FortunePot`: pot, cookies and prefix are not empty, the callers are finitely many.
* `BottomHalf`: scan codes are bytes other than 0. `SelectServer`: a slot and a buffer at
  least; `none` is no client. `DirWalk`: an object and an open directory at least.

*Arguments.*

* `ProdCons`: MutualExclusion is not inductive: one needs that SB is 1 exactly when
  nobody holds the buffer. The positions are safe only together with the counting:
  the values put are an injective image of (producer, round), so the write position is
  at most the number of `Items`, at most N; the counting semaphores give read < write
  position. The invariant joins these with what a loaded register says about its
  position.
* `Refinement` adds to it that a slot written is not touched until it is read: the queue
  between the positions changes only at the two linearisation points.
* `EverythingConsumed` counts the read position as the finished rounds of the consumers, a set of
  pairs that `Orders` contains. When each consumer has done all its rounds, it is the number of
  `Items`; the write position is not less and not more, so each producer has done all its
  rounds too, whatever signals were sent, nobody is inside, and the semaphores follow from the
  counting. Main ends normally only after it has reaped every child, and one that did
  not fail was reaped at the end of its loop.
* `ReadersWriters`: with `interrupted` false, READER is the number of readers inside, and a
  writer inside means AWRITER = 1 and READER = 0; whoever comes next is then held back
  by one of the two. The value loaded by the writer inside is still the shared
  int's, so its store loses nothing. That AWRITER and BIN_A_WRITER add up to 1 and WAIT_WRITER
  rests at 0 needs no premise: each array moves the two in opposite directions.
* `WinReadersWriters`: a counter is the cardinality of a set of threads, and a step of a thread
  moves that thread alone. The gate is open because what resets it is a reader under the mutex,
  who sets it before it lets go of the mutex. A reset `can_write` has a witness: a writer that has not
  yet decided whom to wake, or a reader on its way through `stop_read()`.
* `ForkPipe`: the wait in round `i` follows `i` - 1 children reaped, and one that finds no child to
  reap or to wait for has no child left; so after the loop all are reaped, whoever was killed and in
  whatever order they end. The pipe is at its end only when no write end is open; a child that may
  still write has its own open, from `fork()` on. What has been read followed by what is still
  in the pipe is whole messages: a write adds all bytes of one at the end, a read moves bytes
  from one part to the other. At the end of file the second part is empty, so the first is whole.
* `DirWalk`: none twice on the stack is not inductive. With V, the objects that have been on it, it
  is: whatever is in V has its parent in V, off the stack, and the entries still to be read
  of the directory that is open are children of it and not in V; an object is pushed with its
  parent just read, once. In dopath, S is where the working directory has been: each has its parent
  in S, so also the way up, after a failed `chdir()` one too far, leads to a directory of S.
* `Daemon`: at the moment a copy is refused another one holds the lock and
  therefore is not refused itself.
* `ProtectedMode`: the interrupt handlers return to where they came from with mode, tables and base as
  they were, so `pc` alone tells the machine; with it and the masks one reads off which
  requests can be taken. For the count, `ebx` + `ecx` never changes.
* `FortunePot`: `TypeOK` needs that a read that has begun may add its length to an index others
  moved meanwhile, so the bound of the reading index counts the callers. (An earlier bound, of
  one cookie, held with the two callers of the run and was false with three; the proof showed
  it.) `CookiesWhole` needs that before the writing index NULs are where the cookies written end and
  nowhere else, that what a write in flight has copied holds none, and that the reading index
  (fort_proc) is the end of the cookie shown last; the first overlap of two calls ends that. A write
  that fails changes only what lies behind the writing index, an empty one sets a NUL that is there,
  and a cookie that fills the pot has `next_fortune` at its size, whose low byte is 0 already.
  `NothingLeft`: `module` tells which entries there are and whether a call can run.
* `BottomHalf`: each call of an unload shuts one way in before the next one waits for what came
  through it: after `free_irq()` nothing schedules the tasklet, and `tasklet_kill()` waits for the
  last one. The works end with their queue, although the handler goes on calling.
* `SelectServer`: descriptors in the table are open, differ and have a live peer; a slot or a
  descriptor is free by the pigeonhole principle, for there is one descriptor more than there are
  slots. A descriptor in `readfds` had something at the last `select()`; until the loop comes to its
  slot it stays with its client, so the one `accept()` gives is not in `readfds`.

*Model-checked only.* The liveness properties: `Termination`, `SomeoneEnters`, `WritersFinish`,
`SIGTERMObeyed`, `EnterLeaves`, `ParentReturns`, `LastCodeShown`, `MessagesRead`, `WalkEnds`. They are
out of the prover's reach here; every invariant of the passing runs is proved.

## 6. Plan

1. `MyFS` (myfs.c): registration, cache entries, mounts against load failures and unload.
2. `UnixServer` (unix/server.c), `FileIO` (lab_05).
