------------------------------ MODULE ProdCons ------------------------------
(***************************************************************************)
(* os_01/lab_05/01.c: a parent process forks consumers and producers that  *)
(* share one System V segment and one set of three System V semaphores.    *)
(*                                                                         *)
(*   SB  binary, guards the buffer        SE  number of empty slots        *)
(*   SM  number of filled slots                                            *)
(*                                                                         *)
(* The two positions in the segment only grow: the buffer is not circular, *)
(* so the program is right only because the producers put at most N values *)
(* altogether (ItemsAssumption; 3 * 3 = 9 = N in the source).              *)
(*                                                                         *)
(* semop() is external: all the operations of one call are applied at      *)
(* once, or none of them and the caller sleeps.  It fails, and its caller  *)
(* takes the exit(1) path, when something else has removed the set         *)
(* (ipcrm; the program never does), and also with EINTR when a signal, or  *)
(* a stop and a continue, ends the caller's sleep.  A signal may also kill *)
(* a child where it stands: no operation has SEM_UNDO, so what it took     *)
(* stays taken.                                                            *)
(***************************************************************************)
EXTENDS Integers, Sequences, FiniteSets

CONSTANTS Producers, Consumers, \* the processes create_prod/create_consum fork
          Children,             \* the sequence in which main creates them
          Count,                \* [process -> its argument COUNT]
          Base,                 \* [producer -> its argument value]
          N,                    \* const int N: number of buffer slots
          SizeofInt,            \* sizeof(int), added to int pointers
          Words                 \* ints in the pages that back the segment

Procs == Producers \cup Consumers
Items == UNION {{p} \X (0 .. Count[p] - 1) : p \in Producers}
Orders == UNION {{c} \X (0 .. Count[c] - 1) : c \in Consumers}

ASSUME ProcsAssumption ==
  /\ Producers \cap Consumers = {}
  /\ Children \in Seq(Procs)
  /\ \A k, l \in DOMAIN Children : Children[k] = Children[l] => k = l
ASSUME ChildrenAssumption ==
  /\ Children # << >>
  /\ \A p \in Procs : \E k \in DOMAIN Children : Children[k] = p
ASSUME CountAssumption ==
  /\ Count \in [Procs -> Nat]
  /\ Base \in [Producers -> Int]
ASSUME LayoutAssumption ==
  /\ N \in Nat
  /\ SizeofInt \in Nat \ {0}
  /\ Words \in Nat
  /\ 2 * SizeofInt + N <= Words
ASSUME ItemsAssumption ==
  /\ IsFiniteSet(Items)
  /\ Cardinality(Items) <= N
ASSUME OrdersAssumption ==   \* 4 + 5 = 3 * 3 in the source
  /\ IsFiniteSet(Orders)
  /\ Cardinality(Orders) = Cardinality(Items)

(* Word offsets of the three pointers main derives from shm_at_add.        *)
Addr == 0 .. Words - 1
shm_pos_prod   == 0
shm_pos_consum == SizeofInt
shm_buffer_on_consum == SizeofInt   \* mutant: the multiplication forgotten
shm_buffer     == 2 * SizeofInt

(* The operation arrays: what one semop() adds to each semaphore.          *)
Sems == {"SB", "SE", "SM"}
prod_start_no_SB == [SB |-> 0, SE |-> -1, SM |-> 0]    \* mutant
consum_stop_SM   == [SB |-> 1, SE |->  0, SM |-> 1]    \* mutant
consum_stop_no_SB == [SB |-> 0, SE |-> 1, SM |-> 0]    \* mutant
prod_start   == [SB |-> -1, SE |-> -1, SM |->  0]
prod_stop    == [SB |->  1, SE |->  0, SM |->  1]
consum_start == [SB |-> -1, SE |->  0, SM |-> -1]
consum_stop  == [SB |->  1, SE |->  1, SM |->  0]

VARIABLES
  mainpc,   \* where main is
  forked,   \* how many of Children exist
  reaped,   \* the children wait() has returned for
  removed,  \* the semaphore set has been removed from outside
  killed,   \* the children a signal has ended; their pc says where
  sem,      \* [Sems -> value]
  shm,      \* the shared words
  pc,       \* [process -> where it is in prod()/consum()]
  reg,      \* [process -> register of its (*pos)++]
  i,        \* [process -> loop counter of its create_ function]
  out       \* [consumer -> the values it has printed as consumed]

vars == <<mainpc, forked, reaped, removed, killed, sem, shm, pc, reg, i, out>>
main == <<mainpc, forked, reaped>>

MainPC  == {"setup", "fork", "wait", "exit0", "exit1"}
Inside  == {"access", "load", "store", "stop"}
Exited  == {"exit0", "exit1_start", "exit1_stop"}
ProcPC  == {"unborn", "start"} \cup Inside \cup Exited

Init == /\ mainpc = "setup" /\ forked = 0 /\ reaped = {} /\ removed = FALSE
        /\ killed = {}
        /\ sem = [s \in Sems |-> 0]
        /\ shm = [a \in Addr |-> 0]
        /\ pc = [p \in Procs |-> "unborn"]
        /\ reg = [p \in Procs |-> 0]
        /\ i = [p \in Procs |-> 0]
        /\ out = [c \in Consumers |-> << >>]

-----------------------------------------------------------------------------
(* main: the segment and the semaphores, or exit(1) when one of the calls  *)
(* fails before any child exists.                                          *)
Setup == /\ mainpc = "setup"
         /\ \/ /\ mainpc' = "fork"
               /\ shm' = [shm EXCEPT ![shm_pos_prod] = 0, ![shm_pos_consum] = 0]
               /\ sem' = [SB |-> 1, SE |-> N, SM |-> 0]
            \/ mainpc' = "exit1" /\ UNCHANGED <<sem, shm>>
         /\ UNCHANGED <<forked, reaped, removed, killed, pc, reg, i, out>>

(* mutant: i <= COUNT                                                      *)
LoopHead_le(p, n) == IF n <= Count[p] THEN "start" ELSE "exit0"

(* The head of the for loop of a child: another round, or exit(0).         *)
LoopHead(p, n) == IF n < Count[p] THEN "start" ELSE "exit0"

(* create_consum / create_prod in the parent: fork the next child.         *)
Fork == /\ mainpc = "fork"
        /\ forked < Len(Children)
        /\ forked' = forked + 1
        /\ pc' = [pc EXCEPT ![Children[forked + 1]] =
                              LoopHead(Children[forked + 1], 0)]
        /\ UNCHANGED <<mainpc, reaped, removed, killed, sem, shm, reg, i, out>>

(* fork() == -1: the parent leaves at once, the children stay.             *)
ForkFails == /\ mainpc = "fork"
             /\ forked < Len(Children)
             /\ mainpc' = "exit1"
             /\ UNCHANGED <<forked, reaped, removed, killed, sem, shm, pc, reg, i, out>>

AllForked == /\ mainpc = "fork"
             /\ forked = Len(Children)
             /\ mainpc' = "wait"
             /\ UNCHANGED <<forked, reaped, removed, killed, sem, shm, pc, reg, i, out>>

(* wait(&status), once per child created, however it ended.                *)
Wait == /\ mainpc = "wait"
        /\ \E p \in Procs \ reaped : /\ pc[p] \in Exited \/ p \in killed
                                     /\ reaped' = reaped \cup {p}
        /\ UNCHANGED <<mainpc, forked, removed, killed, sem, shm, pc, reg, i, out>>

(* mutant: one wait() too few.                                             *)
MainExit_early == /\ mainpc = "wait"
                  /\ Cardinality(reaped) >= Len(Children) - 1
                  /\ mainpc' = "exit0"
                  /\ UNCHANGED <<forked, reaped, removed, killed, sem, shm, pc, reg, i, out>>

(* exit(0), or exit(1) when shmdt() fails.                                 *)
MainExit == /\ mainpc = "wait"
            /\ Cardinality(reaped) = Len(Children)
            /\ mainpc' \in {"exit0", "exit1"}
            /\ UNCHANGED <<forked, reaped, removed, killed, sem, shm, pc, reg, i, out>>

-----------------------------------------------------------------------------
(* One semop() call with the array op by process p, which then goes on at  *)
(* next, or at failed when the set no longer exists.  A call that EINTR    *)
(* ends is SemopInterrupted below.                                         *)
Semop(p, op, next) == /\ ~removed
                      /\ \A s \in Sems : sem[s] + op[s] >= 0
                      /\ sem' = [s \in Sems |-> sem[s] + op[s]]
                      /\ pc' = [pc EXCEPT ![p] = next]

SemopFails(p, failed) == /\ removed
                         /\ pc' = [pc EXCEPT ![p] = failed]
                         /\ UNCHANGED sem

Start(p, op) == /\ pc[p] = "start"
                /\ Semop(p, op, "access") \/ SemopFails(p, "exit1_start")
                /\ UNCHANGED <<main, removed, shm, reg, i, out>>

Stop(p, op) == /\ pc[p] = "stop"
               /\ \/ /\ Semop(p, op, LoopHead(p, i[p] + 1))
                     /\ i' = [i EXCEPT ![p] = @ + 1]
                  \/ SemopFails(p, "exit1_stop") /\ UNCHANGED i
               /\ UNCHANGED <<main, removed, shm, reg, out>>

(* ( *pos )++ : a load and a store that the other processes may separate.  *)
Load(p, pos) == /\ pc[p] = "load"
                /\ reg' = [reg EXCEPT ![p] = shm[pos]]
                /\ pc' = [pc EXCEPT ![p] = "store"]
                /\ UNCHANGED <<main, removed, sem, shm, i, out>>

Store(p, pos) == /\ pc[p] = "store"
                 /\ shm' = [shm EXCEPT ![pos] = reg[p] + 1]
                 /\ pc' = [pc EXCEPT ![p] = "stop"]
                 /\ UNCHANGED <<main, removed, sem, reg, i, out>>

(* shm_buffer[*shm_pos_prod] = value                                       *)
Produce(p) == /\ pc[p] = "access"
              /\ shm' = [shm EXCEPT ![shm_buffer + shm[shm_pos_prod]] =
                                        Base[p] + i[p]]
              /\ pc' = [pc EXCEPT ![p] = "load"]
              /\ UNCHANGED <<main, removed, sem, reg, i, out>>

(* printf(... consumed ..., shm_buffer[*shm_pos_consum])                   *)
Consume(c) == /\ pc[c] = "access"
              /\ out' = [out EXCEPT ![c] =
                          Append(@, shm[shm_buffer + shm[shm_pos_consum]])]
              /\ pc' = [pc EXCEPT ![c] = "load"]
              /\ UNCHANGED <<main, removed, sem, shm, reg, i>>

prod(p) == /\ p \notin killed /\ UNCHANGED killed
           /\ \/ Start(p, prod_start)
              \/ Produce(p)
              \/ Load(p, shm_pos_prod)
              \/ Store(p, shm_pos_prod)
              \/ Stop(p, prod_stop)

consum(c) == /\ c \notin killed /\ UNCHANGED killed
             /\ \/ Start(c, consum_start)
                \/ Consume(c)
                \/ Load(c, shm_pos_consum)
                \/ Store(c, shm_pos_consum)
                \/ Stop(c, consum_stop)

(* The environment: the set outlives the processes that do not remove it.  *)
RemoveSet == /\ ~removed
             /\ mainpc # "setup"
             /\ removed' = TRUE
             /\ UNCHANGED <<main, killed, sem, shm, pc, reg, i, out>>

(* semop() == -1 with EINTR: the caller was asleep, and leaves at once.    *)
(* Only the first array of a round can sleep, the second one only adds.    *)
SemopInterrupted(p, op) ==
  /\ pc[p] = "start" /\ p \notin killed
  /\ ~removed /\ \E s \in Sems : sem[s] + op[s] < 0
  /\ pc' = [pc EXCEPT ![p] = "exit1_start"]
  /\ UNCHANGED <<main, removed, killed, sem, shm, reg, i, out>>

(* A signal ends a child wherever it is; the semaphores stay as they are.  *)
Kill(p) == /\ pc[p] \notin {"unborn"} \cup Exited
           /\ p \notin killed
           /\ killed' = killed \cup {p}
           /\ UNCHANGED <<main, removed, sem, shm, pc, reg, i, out>>

Environment == \/ RemoveSet
               \/ \E p \in Producers : SemopInterrupted(p, prod_start)
               \/ \E c \in Consumers : SemopInterrupted(c, consum_start)
               \/ \E p \in Procs : Kill(p)

Main == Setup \/ Fork \/ ForkFails \/ AllForked \/ Wait \/ MainExit
Next == \/ Main
        \/ \E p \in Producers : prod(p)
        \/ \E c \in Consumers : consum(c)
        \/ Environment

Spec == Init /\ [][Next]_vars

(* The kernel runs every process that can run.  A semop() that stays       *)
(* possible is taken; fork() is not assumed to succeed, and the            *)
(* environment is not assumed to do anything, or to leave the program be.  *)
FairSpec == /\ Spec
            /\ WF_vars(Main)
            /\ \A p \in Producers : WF_vars(prod(p))
            /\ \A c \in Consumers : WF_vars(consum(c))

-----------------------------------------------------------------------------
TypeOK == /\ mainpc \in MainPC
          /\ forked \in 0 .. Len(Children)
          /\ reaped \subseteq Procs
          /\ removed \in BOOLEAN
          /\ killed \subseteq Procs
          /\ sem \in [Sems -> Nat]
          /\ shm \in [Addr -> Int]
          /\ pc \in [Procs -> ProcPC]
          /\ reg \in [Procs -> Int]
          /\ i \in [Procs -> Nat] /\ \A p \in Procs : i[p] <= Count[p]
          /\ out \in [Consumers -> Seq(Int)]

pos_prod   == shm[shm_pos_prod]
pos_consum == shm[shm_pos_consum]

(* Between its two semop() calls a process has the buffer; one that died   *)
(* there, by a failing semop() or a signal, never gives it back.           *)
Holds(p) == pc[p] \in Inside \cup {"exit1_stop"}
(* It has already advanced its position.                                   *)
Advanced(p) == pc[p] \in {"stop", "exit1_stop"}

(* The processes of S that have the buffer, before and after that.         *)
Before(S) == {p \in S : Holds(p) /\ ~Advanced(p)}
After(S)  == {p \in S : Holds(p) /\ Advanced(p)}

(* No two processes are between their semop() calls at once, whatever the  *)
(* order in which the kernel serves them and whichever of them fails: the  *)
(* increments of the positions cannot interleave.                          *)
MutualExclusion == \A p, q \in Procs : Holds(p) /\ Holds(q) => p = q

(* main got past the creation of the segment and the semaphores.           *)
SetUp == forked > 0 \/ mainpc = "fork"

(* The counting semaphores always tell the truth about the positions in    *)
(* the segment, up to the one operation that is half done.                 *)
SemaphoresMatchPositions ==
  SetUp => /\ sem["SM"] = pos_prod - pos_consum
                          - Cardinality(Before(Consumers))
                          - Cardinality(After(Producers))
           /\ sem["SE"] = N - pos_prod + pos_consum
                          - Cardinality(Before(Producers))
                          - Cardinality(After(Consumers))

(* A producer about to write uses a slot of the buffer that is inside the  *)
(* mapped pages and that no earlier value still occupies; a consumer about *)
(* to read uses a slot some producer has completely filled.                *)
SlotsAreSafe ==
  /\ \A p \in Producers : pc[p] = "access" =>
        pos_consum <= pos_prod /\ pos_prod < N /\ shm_buffer + pos_prod \in Addr
  /\ \A c \in Consumers : pc[c] = "access" =>
        0 <= pos_consum /\ pos_consum < pos_prod

(* The values in the buffer: from the oldest one that no consumer has      *)
(* printed to the newest one that *shm_pos_prod counts.                    *)
Taken == pos_consum + Cardinality({c \in Consumers : pc[c] \in {"load", "store"}})
Queue == [k \in 1 .. pos_prod - Taken |-> shm[shm_buffer + Taken + k - 1]]

(* The program implements the FIFO buffer: a value enters it when the      *)
(* producer stores the new position and leaves it when a consumer prints   *)
(* it.                                                                     *)
Buffer == INSTANCE BoundedBuffer WITH
            queue <- Queue,
            put   <- [p \in Producers |-> i[p] + IF Advanced(p) THEN 1 ELSE 0],
            got   <- out
ImplementsBoundedBuffer == Buffer!Spec

(* A child that did not run to the exit(0) of its loop: a semop() of its   *)
(* failed, or a signal killed it.                                          *)
Failed(p) == pc[p] \in {"exit1_start", "exit1_stop"} \/ p \in killed

(* main exits when no child fails, in whatever order their semop() calls   *)
(* are served, and also when the set goes away, whatever fails then: all   *)
(* the sleepers wake and leave.  It takes one of the two: a child that     *)
(* fails while the set lives leaves its rounds undone and may keep the     *)
(* buffer, so that others may sleep, and main wait, for ever.              *)
Termination == <>removed \/ [](\A p \in Procs : ~Failed(p))
                 => <>(mainpc \in {"exit0", "exit1"})

(* Once every consumer has exited with 0, and certainly once main has and  *)
(* no child has failed, all that was ordered has been printed, all values  *)
(* have been made, and every slot is free again.  The consumers' exits     *)
(* prove as much even if the set was removed or a signal sent meanwhile.   *)
AllConsumed ==
  SetUp /\ (\/ \A c \in Consumers : pc[c] = "exit0"
            \/ mainpc = "exit0" /\ \A p \in Procs : ~Failed(p)) =>
     /\ \A c \in Consumers : Len(out[c]) = Count[c]
     /\ \A p \in Producers : i[p] = Count[p]
     /\ pos_prod = pos_consum /\ sem = [SB |-> 1, SE |-> N, SM |-> 0]
=============================================================================
