------------------------- MODULE WinReadersWriters -------------------------
(***************************************************************************)
(* os_01/lab_06/main.c: reader and writer threads of one Windows process.  *)
(* Every access to a shared variable or kernel object is a step of its     *)
(* own: start_write() and stop_write() hold no lock, and start_read()      *)
(* tests plain variables that the writers change without its mutex.        *)
(*                                                                         *)
(* External: the Win32 objects.  can_read is an auto-reset event (a wait   *)
(* that ends resets it), can_write a manual-reset one, both created        *)
(* signalled.  An Interlocked call is one atomic step.                     *)
(***************************************************************************)
EXTENDS Integers, FiniteSets

CONSTANTS Writers, Readers,   \* WRITERS_COUNT and READERS_COUNT threads
          ITERATIONS,         \* writes per writer
          nobody              \* the owner of a free mutex

Threads == Writers \cup Readers

ASSUME ThreadsAssumption == /\ Writers \cap Readers = {}
                            /\ IsFiniteSet(Threads)
                            /\ nobody \notin Threads
ASSUME IterationsAssumption == ITERATIONS \in Nat \ {0}

TotalWrites == Cardinality(Writers) * ITERATIONS

VARIABLES
  mainpc,          \* where main is
  mutex,           \* its owner, or nobody
  can_read,        \* the events: signalled or not
  can_write,
  waiting_writers, waiting_readers, active_readers,
  active_writer, value,
  pc,              \* [thread -> the step it takes next]
  i,               \* [writer -> its loop counter]
  reg              \* [writer -> register of its ++value]

events   == <<mutex, can_read, can_write>>
counters == <<waiting_writers, waiting_readers, active_readers, active_writer>>
vars     == <<mainpc, events, counters, value, pc, i, reg>>

(* start_read(), stop_read() step by step, in program order.               *)
Gate     == {"check_active", "check_waiting", "await_read", "dec_waiting",
             "inc_active", "set_read", "release"}
ReaderPC == {"loop", "inc_waiting", "lock"} \cup Gate
            \cup {"reading", "check_readers", "set_write"}
(* start_write(), ++value, stop_write().                                   *)
WriterPC == {"inc_writers", "check_writer", "check_active_readers", "await_write",
             "set_active", "dec_writers", "reset_write", "load", "store",
             "clear_active", "check_waiting_readers", "wake_reader", "wake_writer"}
ThreadPC == ReaderPC \cup WriterPC \cup {"unborn", "done"}

Init == /\ mainpc = "create_writers"
        /\ mutex = nobody /\ can_read = TRUE /\ can_write = TRUE
        /\ waiting_writers = 0 /\ waiting_readers = 0 /\ active_readers = 0
        /\ active_writer = FALSE /\ value = 0
        /\ pc = [t \in Threads |-> "unborn"]
        /\ i = [w \in Writers |-> 0]
        /\ reg = [w \in Writers |-> 0]

Go(t, next) == pc' = [pc EXCEPT ![t] = next]

-----------------------------------------------------------------------------
(* main: CreateThread for each writer, then for each reader; errExit() in  *)
(* place of any of them ends the whole process.                            *)
Create(from, S, first, next) ==
  /\ mainpc = from
  /\ \/ /\ \E t \in S : pc[t] = "unborn" /\ Go(t, first)
        /\ UNCHANGED mainpc
     \/ (\E t \in S : pc[t] = "unborn") /\ mainpc' = "failed" /\ UNCHANGED pc
     \/ (\A t \in S : pc[t] # "unborn") /\ mainpc' = next /\ UNCHANGED pc
  /\ UNCHANGED <<events, counters, value, i, reg>>

(* WaitForMultipleObjects for all the threads of S.                        *)
WaitForAll(from, S, next) ==
  /\ mainpc = from
  /\ \A t \in S : pc[t] = "done"
  /\ mainpc' = next
  /\ UNCHANGED <<events, counters, value, pc, i, reg>>

Main == \/ Create("create_writers", Writers, "inc_writers", "create_readers")
        \/ Create("create_readers", Readers, "loop", "wait_writers")
        \/ WaitForAll("wait_writers", Writers, "wait_readers")
        \/ WaitForAll("wait_readers", Readers, "exited")

-----------------------------------------------------------------------------
Loop(r) == /\ pc[r] = "loop"
           /\ Go(r, IF value < TotalWrites THEN "inc_waiting" ELSE "done")
           /\ UNCHANGED <<events, counters>>

Gates(r) == /\ pc[r] = "inc_waiting"
            /\ waiting_readers' = waiting_readers + 1
            /\ Go(r, "lock")
            /\ UNCHANGED <<events, waiting_writers, active_readers, active_writer>>

Lock(r) == /\ pc[r] = "lock" /\ mutex = nobody
           /\ mutex' = r
           /\ Go(r, "check_active")
           /\ UNCHANGED <<can_read, can_write, counters>>

(* if (active_writer || waiting_writers): two reads.                       *)
CheckActive(r) == /\ pc[r] = "check_active"
                  /\ Go(r, IF active_writer THEN "await_read" ELSE "check_waiting")
                  /\ UNCHANGED <<events, counters>>

CheckWaiting(r) == /\ pc[r] = "check_waiting"
                   /\ Go(r, IF waiting_writers # 0 THEN "await_read" ELSE "dec_waiting")
                   /\ UNCHANGED <<events, counters>>

AwaitRead(r) == /\ pc[r] = "await_read" /\ can_read
                /\ can_read' = FALSE
                /\ Go(r, "dec_waiting")
                /\ UNCHANGED <<mutex, can_write, counters>>

(* mutant: the counter of waiting readers is not decremented.              *)
DecWaiting_not(r) == /\ pc[r] = "dec_waiting"
                     /\ Go(r, "inc_active")
                     /\ UNCHANGED <<events, counters>>

DecWaiting(r) == /\ pc[r] = "dec_waiting"
                 /\ waiting_readers' = waiting_readers - 1
                 /\ Go(r, "inc_active")
                 /\ UNCHANGED <<events, waiting_writers, active_readers, active_writer>>

IncActive(r) == /\ pc[r] = "inc_active"
                /\ active_readers' = active_readers + 1
                /\ Go(r, "set_read")
                /\ UNCHANGED <<events, waiting_writers, waiting_readers, active_writer>>

(* mutant: no SetEvent(can_read) in start_read().                          *)
SetRead_not(r) == /\ pc[r] = "set_read"
                  /\ Go(r, "release")
                  /\ UNCHANGED <<events, counters>>

SetRead(r) == /\ pc[r] = "set_read"
              /\ can_read' = TRUE
              /\ Go(r, "release")
              /\ UNCHANGED <<mutex, can_write, counters>>

Release(r) == /\ pc[r] = "release"
              /\ mutex' = nobody
              /\ Go(r, "reading")
              /\ UNCHANGED <<can_read, can_write, counters>>

(* The printf of value, then the decrement that begins stop_read().        *)
Reading(r) == /\ pc[r] = "reading"
              /\ active_readers' = active_readers - 1
              /\ Go(r, "check_readers")
              /\ UNCHANGED <<events, waiting_writers, waiting_readers, active_writer>>

(* mutant: stop_read() leaves the writers to stop_write().                 *)
CheckReaders_never(r) == /\ pc[r] = "check_readers"
                         /\ Go(r, "loop")
                         /\ UNCHANGED <<events, counters>>

CheckReaders(r) == /\ pc[r] = "check_readers"
                   /\ Go(r, IF waiting_readers = 0 THEN "set_write" ELSE "loop")
                   /\ UNCHANGED <<events, counters>>

SetWrite(r) == /\ pc[r] = "set_write"
               /\ can_write' = TRUE
               /\ Go(r, "loop")
               /\ UNCHANGED <<mutex, can_read, counters>>

reader(r) ==
  /\ \/ Loop(r) \/ Gates(r) \/ Lock(r) \/ CheckActive(r) \/ CheckWaiting(r)
     \/ AwaitRead(r) \/ DecWaiting(r) \/ IncActive(r) \/ SetRead(r)
     \/ Release(r) \/ Reading(r) \/ CheckReaders(r) \/ SetWrite(r)
  /\ UNCHANGED <<mainpc, value, i, reg>>

-----------------------------------------------------------------------------
IncWriters(w) == /\ pc[w] = "inc_writers"
                 /\ waiting_writers' = waiting_writers + 1
                 /\ Go(w, "check_writer")
                 /\ UNCHANGED <<events, waiting_readers, active_readers, active_writer,
                                value, i, reg>>

(* if (active_writer || active_readers > 0): two reads.                    *)
CheckWriter(w) == /\ pc[w] = "check_writer"
                  /\ Go(w, IF active_writer THEN "await_write" ELSE "check_active_readers")
                  /\ UNCHANGED <<events, counters, value, i, reg>>

CheckActiveReaders(w) ==
  /\ pc[w] = "check_active_readers"
  /\ Go(w, IF active_readers > 0 THEN "await_write" ELSE "set_active")
  /\ UNCHANGED <<events, counters, value, i, reg>>

AwaitWrite(w) == /\ pc[w] = "await_write" /\ can_write
                 /\ Go(w, "set_active")
                 /\ UNCHANGED <<events, counters, value, i, reg>>

SetActive(w) == /\ pc[w] = "set_active"
                /\ active_writer' = TRUE
                /\ Go(w, "dec_writers")
                /\ UNCHANGED <<events, waiting_writers, waiting_readers, active_readers,
                               value, i, reg>>

DecWriters(w) == /\ pc[w] = "dec_writers"
                 /\ waiting_writers' = waiting_writers - 1
                 /\ Go(w, "reset_write")
                 /\ UNCHANGED <<events, waiting_readers, active_readers, active_writer,
                                value, i, reg>>

ResetWrite(w) == /\ pc[w] = "reset_write"
                 /\ can_write' = FALSE
                 /\ Go(w, "load")
                 /\ UNCHANGED <<mutex, can_read, counters, value, i, reg>>

(* ++value: a load and a store.                                            *)
Load(w) == /\ pc[w] = "load"
           /\ reg' = [reg EXCEPT ![w] = value]
           /\ Go(w, "store")
           /\ UNCHANGED <<events, counters, value, i>>

Store(w) == /\ pc[w] = "store"
            /\ value' = reg[w] + 1
            /\ Go(w, "clear_active")
            /\ UNCHANGED <<events, counters, i, reg>>

ClearActive(w) == /\ pc[w] = "clear_active"
                  /\ active_writer' = FALSE
                  /\ Go(w, "check_waiting_readers")
                  /\ UNCHANGED <<events, waiting_writers, waiting_readers, active_readers,
                                 value, i, reg>>

CheckWaitingReaders(w) ==
  /\ pc[w] = "check_waiting_readers"
  /\ Go(w, IF waiting_readers # 0 THEN "wake_reader" ELSE "wake_writer")
  /\ UNCHANGED <<events, counters, value, i, reg>>

(* mutant: i <= ITERATIONS.                                                *)
Wake_le(w) == /\ \/ pc[w] = "wake_reader" /\ can_read' = TRUE /\ UNCHANGED can_write
                 \/ pc[w] = "wake_writer" /\ can_write' = TRUE /\ UNCHANGED can_read
              /\ i' = [i EXCEPT ![w] = @ + 1]
              /\ Go(w, IF i[w] + 1 <= ITERATIONS THEN "inc_writers" ELSE "done")
              /\ UNCHANGED <<mutex, counters, value, reg>>

(* SetEvent(can_read) or SetEvent(can_write), then the loop's i++.         *)
Wake(w) == /\ \/ pc[w] = "wake_reader" /\ can_read' = TRUE /\ UNCHANGED can_write
              \/ pc[w] = "wake_writer" /\ can_write' = TRUE /\ UNCHANGED can_read
           /\ i' = [i EXCEPT ![w] = @ + 1]
           /\ Go(w, IF i[w] + 1 < ITERATIONS THEN "inc_writers" ELSE "done")
           /\ UNCHANGED <<mutex, counters, value, reg>>

writer(w) ==
  /\ \/ IncWriters(w) \/ CheckWriter(w) \/ CheckActiveReaders(w) \/ AwaitWrite(w)
     \/ SetActive(w) \/ DecWriters(w) \/ ResetWrite(w) \/ Load(w) \/ Store(w)
     \/ ClearActive(w) \/ CheckWaitingReaders(w) \/ Wake(w)
  /\ UNCHANGED mainpc

Running == mainpc \notin {"failed", "exited"}
Next == /\ Running
        /\ \/ Main
           \/ \E r \in Readers : reader(r)
           \/ \E w \in Writers : writer(w)

Spec == Init /\ [][Next]_vars

(* Threads that can run do; nothing is assumed of who gets the mutex or of *)
(* what CreateThread returns.                                              *)
FairSpec == /\ Spec
            /\ WF_vars(Running /\ Main)
            /\ \A r \in Readers : WF_vars(Running /\ reader(r))
            /\ \A w \in Writers : WF_vars(Running /\ writer(w))

-----------------------------------------------------------------------------
TypeOK == /\ mainpc \in {"create_writers", "create_readers", "wait_writers",
                         "wait_readers", "failed", "exited"}
          /\ mutex \in Readers \cup {nobody}
          /\ can_read \in BOOLEAN /\ can_write \in BOOLEAN
          /\ waiting_writers \in Int /\ waiting_readers \in Int
          /\ active_readers \in Int
          /\ active_writer \in BOOLEAN
          /\ value \in Nat
          /\ pc \in [Threads -> ThreadPC]
          /\ i \in [Writers -> 0 .. ITERATIONS]
          /\ reg \in [Writers -> Nat]

At(S, places) == {t \in S : pc[t] \in places}

(* The Interlocked counters are exact whatever interleaves, so the code's  *)
(* tests of them against zero see real readers and writers.                *)
CountersExact ==
  /\ waiting_readers = Cardinality(At(Readers,
        {"lock", "check_active", "check_waiting", "await_read", "dec_waiting"}))
  /\ active_readers = Cardinality(At(Readers, {"set_read", "release", "reading"}))
  /\ waiting_writers = Cardinality(At(Writers,
        {"check_writer", "check_active_readers", "await_write", "set_active",
         "dec_writers"}))

(* can_read never stops a reader.  It is created signalled and only the    *)
(* owner of the mutex resets it, who sets it again before it releases the  *)
(* mutex: the wait in start_read(), done while holding the mutex, cannot   *)
(* block everyone - nor does it ever make a reader wait for a writer.      *)
ReaderGateOpen ==
  \A r \in Readers : pc[r] \in {"check_active", "check_waiting", "await_read"}
                        => mutex = r /\ can_read

(* No wake-up of the writers is lost.  While a writer sleeps on can_write, *)
(* the event is signalled or some thread is on its way to a place that     *)
(* signals it or hands the duty to a thread that is.                       *)
WriterWakeupPending ==
  (\E w \in Writers : pc[w] = "await_write") /\ ~can_write =>
     \/ At(Writers, {"load", "store", "clear_active", "check_waiting_readers",
                     "wake_writer"}) # {}
     \/ At(Readers, Gate \cup {"lock", "reading", "check_readers", "set_write"}) # {}

(* The writers all finish, if again and again there is a moment at which   *)
(* every reader is in its Sleep().  Without that premise they need not:    *)
(* each stop_read() may see another reader waiting and signal nobody, for  *)
(* ever.                                                                   *)
ReadersAsleep == \A r \in Readers : pc[r] \in {"unborn", "loop", "done"}
WritersFinish ==
  []<>ReadersAsleep => <>(mainpc = "failed" \/ \A w \in Writers : pc[w] = "done")
=============================================================================
