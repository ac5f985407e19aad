--------------------------- MODULE ReadersWriters ---------------------------
(***************************************************************************)
(* os_01/lab_05/02.c: writers and readers of one shared int, coordinated   *)
(* by four System V semaphores that the comment at its head names.         *)
(*                                                                         *)
(* semop() is external: it applies its whole array at once or puts the     *)
(* caller to sleep; it is never half done.  A sleeping semop() returns -1  *)
(* when the process is stopped and continued (EINTR).  The program looks   *)
(* at no result of semop() and simply goes on.  The children loop for ever *)
(* and end only by a signal; nothing undoes their semaphore operations.    *)
(***************************************************************************)
EXTENDS Integers, Sequences, FiniteSets

CONSTANTS Writers, Readers,
          Children,   \* the order in which main forks them: writers first
          IntRange    \* number of values of an int (2^32), a smaller power for TLC

Procs == Writers \cup Readers

ASSUME ProcsAssumption ==
  /\ Writers \cap Readers = {}
  /\ IsFiniteSet(Readers)
  /\ Children \in Seq(Procs)
  /\ \A k, l \in DOMAIN Children : Children[k] = Children[l] => k = l
ASSUME RangeAssumption == IntRange \in Nat \ {0}

READER       == 0   \* readers inside
AWRITER      == 1   \* active writer
BIN_A_WRITER == 2   \* 1 when no writer is inside
WAIT_WRITER  == 3   \* meant: writers waiting
Sems == 0 .. 3

(* An operation array by its effect: the semaphores it wants to be zero    *)
(* and what it adds to each.  start_write adds 1 to WAIT_WRITER and takes  *)
(* it back in the same call; start_read is called with its first 3 entries.*)
stop_read_plus == [zero |-> {},                          \* mutant: {0, +1}
                   add  |-> [s \in Sems |-> IF s = READER THEN 1 ELSE 0]]
start_write_over_readers ==                              \* mutant: no {0, 0}
               [zero |-> {},
                add  |-> [s \in Sems |-> IF s = BIN_A_WRITER THEN -1 ELSE
                                         IF s = AWRITER THEN 1 ELSE 0]]
start_write_shared ==                                    \* mutant: no {2, -1}
               [zero |-> {READER},
                add  |-> [s \in Sems |-> IF s = AWRITER THEN 1 ELSE 0]]
stop_write_half ==                                       \* mutant: no {1, -1}
               [zero |-> {},
                add  |-> [s \in Sems |-> IF s = BIN_A_WRITER THEN 1 ELSE 0]]
stop_write_swapped ==                                    \* mutant: signs swapped
               [zero |-> {},
                add  |-> [s \in Sems |-> IF s = BIN_A_WRITER THEN -1 ELSE
                                         IF s = AWRITER THEN 1 ELSE 0]]
start_read  == [zero |-> {WAIT_WRITER, AWRITER},
                add  |-> [s \in Sems |-> IF s = READER THEN 1 ELSE 0]]
stop_read   == [zero |-> {},
                add  |-> [s \in Sems |-> IF s = READER THEN -1 ELSE 0]]
start_write == [zero |-> {READER},
                add  |-> [s \in Sems |-> IF s = BIN_A_WRITER THEN -1 ELSE
                                         IF s = AWRITER THEN 1 ELSE 0]]
stop_write  == [zero |-> {},
                add  |-> [s \in Sems |-> IF s = BIN_A_WRITER THEN 1 ELSE
                                         IF s = AWRITER THEN -1 ELSE 0]]

VARIABLES
  mainpc,      \* where main is
  pid,         \* main's pid, 0 or 1 (a child's): never initialised
  forked,      \* how many of Children exist
  sem,         \* [Sems -> value]
  shm,         \* the shared int
  pc,          \* [process -> where it is]
  reg,         \* [writer -> register of its increment of *shm]
  interrupted, \* some semop() has returned -1 without effect
  writes       \* increments finished, modulo IntRange (not in the program)

vars == <<mainpc, pid, forked, sem, shm, pc, reg, interrupted, writes>>
main == <<mainpc, pid, forked>>

MainPC == {"setup", "fork", "detach", "wait", "exit0", "exit1"}
Inside == {"access", "store", "stop", "stop_asleep", "killed_inside"}
ProcPC == {"unborn", "start", "start_asleep", "killed"} \cup Inside

Init == /\ mainpc = "setup" /\ pid \in {0, 1} /\ forked = 0
        /\ sem = [s \in Sems |-> 0]
        /\ shm = 0
        /\ pc = [p \in Procs |-> "unborn"]
        /\ reg = [w \in Writers |-> 0]
        /\ interrupted = FALSE
        /\ writes = 0

-----------------------------------------------------------------------------
Setup == /\ mainpc = "setup"
         /\ \/ /\ mainpc' = "fork"
               /\ sem' = [sem EXCEPT ![BIN_A_WRITER] = 1]
            \/ mainpc' = "exit1" /\ UNCHANGED sem
         /\ UNCHANGED <<pid, forked, shm, pc, reg, interrupted, writes>>

(* One turn of the two for loops; each tests pid != 0, the first time      *)
(* before anything was assigned to it.                                     *)
Fork == /\ mainpc = "fork" /\ pid # 0 /\ forked < Len(Children)
        /\ \/ /\ pid' = 1
              /\ forked' = forked + 1
              /\ pc' = [pc EXCEPT ![Children[forked + 1]] = "start"]
              /\ UNCHANGED mainpc
           \/ mainpc' = "exit1" /\ UNCHANGED <<pid, forked, pc>>
        /\ UNCHANGED <<sem, shm, reg, interrupted, writes>>

LoopsEnd == /\ mainpc = "fork" /\ (pid = 0 \/ forked = Len(Children))
            /\ mainpc' = "detach"
            /\ UNCHANGED <<pid, forked, sem, shm, pc, reg, interrupted, writes>>

Detach == /\ mainpc = "detach"
          /\ mainpc' \in {IF pid # 0 THEN "wait" ELSE "exit0", "exit1"}
          /\ UNCHANGED <<pid, forked, sem, shm, pc, reg, interrupted, writes>>

Killed(p) == pc[p] \in {"killed", "killed_inside"}

(* WRITERS + READERS calls of wait(), then IPC_RMID.                       *)
WaitAll == /\ mainpc = "wait"
           /\ \A p \in Procs : Killed(p)
           /\ mainpc' \in {"exit0", "exit1"}
           /\ UNCHANGED <<pid, forked, sem, shm, pc, reg, interrupted, writes>>

-----------------------------------------------------------------------------
Possible(op) == /\ \A s \in op.zero : sem[s] = 0
                /\ \A s \in Sems : sem[s] + op.add[s] >= 0

(* semop() by p, called at one of the places from: done at once or when it *)
(* becomes possible, and until then asleep.  EINTR ends the sleep without  *)
(* any effect, and the program goes on as if there had been one.           *)
Semop(p, op, from, asleep, next) ==
  /\ \/ /\ pc[p] \in {from, asleep} /\ Possible(op)
        /\ sem' = [s \in Sems |-> sem[s] + op.add[s]]
        /\ pc' = [pc EXCEPT ![p] = next]
        /\ UNCHANGED interrupted
     \/ /\ pc[p] = from /\ ~Possible(op)
        /\ pc' = [pc EXCEPT ![p] = asleep]
        /\ UNCHANGED <<sem, interrupted>>
  /\ UNCHANGED <<main, shm, reg, writes>>

Interrupt(p, asleep, next) ==
  /\ pc[p] = asleep
  /\ pc' = [pc EXCEPT ![p] = next]
  /\ interrupted' = TRUE
  /\ UNCHANGED <<main, sem, shm, reg, writes>>

Start(p, op) == Semop(p, op, "start", "start_asleep", "access")
Stop(p, op)  == Semop(p, op, "stop", "stop_asleep", "start")

(* The increment of *shm: a load and a store.                              *)
Load(w) == /\ pc[w] = "access"
           /\ reg' = [reg EXCEPT ![w] = shm]
           /\ pc' = [pc EXCEPT ![w] = "store"]
           /\ UNCHANGED <<main, sem, shm, interrupted, writes>>

(* mutant: the sum is kept in something wider than an int.                 *)
Store_wide(w) == /\ pc[w] = "store"
                 /\ shm' = reg[w] + 1
                 /\ writes' = (writes + 1) % IntRange
                 /\ pc' = [pc EXCEPT ![w] = "stop"]
                 /\ UNCHANGED <<main, sem, reg, interrupted>>

Store(w) == /\ pc[w] = "store"
            /\ shm' = (reg[w] + 1) % IntRange
            /\ writes' = (writes + 1) % IntRange
            /\ pc' = [pc EXCEPT ![w] = "stop"]
            /\ UNCHANGED <<main, sem, reg, interrupted>>

(* The reader's printf of *shm.                                            *)
Read(r) == /\ pc[r] = "access"
           /\ pc' = [pc EXCEPT ![r] = "stop"]
           /\ UNCHANGED <<main, sem, shm, reg, interrupted, writes>>

writer(w) == Start(w, start_write) \/ Load(w) \/ Store(w) \/ Stop(w, stop_write)
reader(r) == Start(r, start_read) \/ Read(r) \/ Stop(r, stop_read)

StopAndContinue(p) == \/ Interrupt(p, "start_asleep", "access")
                      \/ Interrupt(p, "stop_asleep", "start")

Kill(p) == /\ pc[p] # "unborn" /\ ~Killed(p)
           /\ pc' = [pc EXCEPT ![p] = IF pc[p] \in Inside THEN "killed_inside"
                                                          ELSE "killed"]
           /\ UNCHANGED <<main, sem, shm, reg, interrupted, writes>>

Main == Setup \/ Fork \/ LoopsEnd \/ Detach \/ WaitAll
Next == \/ Main
        \/ \E w \in Writers : writer(w)
        \/ \E r \in Readers : reader(r)
        \/ \E p \in Procs : StopAndContinue(p) \/ Kill(p)

Spec == Init /\ [][Next]_vars

(* Every process that can run does; no signal is ever promised.            *)
FairSpec == /\ Spec
            /\ WF_vars(Main)
            /\ \A w \in Writers : WF_vars(writer(w))
            /\ \A r \in Readers : WF_vars(reader(r))

-----------------------------------------------------------------------------
TypeOK == /\ mainpc \in MainPC /\ pid \in {0, 1}
          /\ forked \in 0 .. Len(Children)
          /\ sem \in [Sems -> Nat]
          /\ shm \in 0 .. IntRange - 1
          /\ pc \in [Procs -> ProcPC]
          /\ reg \in [Writers -> 0 .. IntRange - 1]
          /\ interrupted \in BOOLEAN
          /\ writes \in 0 .. IntRange - 1

In(p) == pc[p] \in Inside

(* As long as every semop() did what it was asked to, a writer is alone:   *)
(* no second writer and no reader between its two calls, and that stays    *)
(* true of a writer or a reader that was killed there.                     *)
WriterAlone ==
  ~interrupted => \A w \in Writers, p \in Procs : In(w) /\ In(p) => p = w

(* READER counts the readers inside, killed ones included.                 *)
ReadersCounted ==
  ~interrupted => sem[READER] = Cardinality({r \in Readers : In(r)})

(* BIN_A_WRITER is what its name says, a binary semaphore, and complements *)
(* AWRITER, even when interrupted processes call stop_write() for entries  *)
(* they never made.                                                        *)
BinaryWriter ==
  mainpc \in {"fork", "detach", "wait"} => sem[AWRITER] + sem[BIN_A_WRITER] = 1

(* No increment of the shared int is ever lost.                            *)
NoLostWrite == ~interrupted => shm = writes

(* Everyone waiting on everyone never happens: unless somebody is killed   *)
(* or interrupted, somebody always gets in again.                          *)
SomeoneEnters ==
  [](~interrupted /\ \A p \in Procs : ~Killed(p)) =>
     [](forked > 0 => <>(\E p \in Procs : pc[p] = "access"))

(* What the name WAIT_WRITER of semaphore 3 says: it tells the readers     *)
(* that a writer waits.                                                    *)
WaitingWriterIsSeen ==
  (\E w \in Writers : pc[w] = "start_asleep") => sem[WAIT_WRITER] > 0
=============================================================================
