----------------------- MODULE WinReadersWritersProofs -----------------------
(***************************************************************************)
(* Proofs about WinReadersWriters for every number of threads and of       *)
(* iterations.  The counters are exact on their own; that the events wake  *)
(* whom they must follows from the counters and from who owns the mutex.   *)
(***************************************************************************)
EXTENDS WinReadersWriters, FiniteSetTheorems, TLAPS

(* The places at which a thread is counted by each of the counters.        *)
WaitingReaders == {"lock", "check_active", "check_waiting", "await_read", "dec_waiting"}
ActiveReaders  == {"set_read", "release", "reading"}
WaitingWriters == {"check_writer", "check_active_readers", "await_write", "set_active",
                   "dec_writers"}

(* A writer that is not done has an iteration left.                        *)
InTime == \A w \in Writers : pc[w] # "done" => i[w] < ITERATIONS

(* The readers behind the gate are the owner of the mutex.                 *)
Owner == \A r \in Readers : mutex = r <=> pc[r] \in Gate

(* can_read is reset only by a reader that is about to set it.             *)
ReadEvent == \/ can_read
             \/ \E r \in Readers : pc[r] \in {"dec_waiting", "inc_active", "set_read"}

(* While can_write is reset, a writer is writing and has not decided whom  *)
(* to wake, or a reader is on its way through stop_read().                 *)
Wakers == {"load", "store", "clear_active", "check_waiting_readers", "wake_writer"}
Passing == Gate \cup {"lock", "reading", "check_readers", "set_write"}
WriteEvent == \/ can_write
              \/ \E w \in Writers : pc[w] \in Wakers
              \/ \E r \in Readers : pc[r] \in Passing

Inv == TypeOK /\ InTime /\ CountersExact /\ Owner /\ ReadEvent /\ WriteEvent

-----------------------------------------------------------------------------
(* Counting the threads of S that are at certain places, when one moves.   *)
LEMMA CountIsNat ==
  ASSUME NEW S \in SUBSET Threads, NEW places
  PROVE  IsFiniteSet(At(S, places)) /\ Cardinality(At(S, places)) \in Nat
BY ThreadsAssumption, FS_Subset, FS_CardinalityType DEF At

LEMMA CountSame ==
  ASSUME NEW S, NEW places, \A u \in S : pc'[u] \in places <=> pc[u] \in places
  PROVE  At(S, places)' = At(S, places)
BY DEF At

LEMMA CountUp ==
  ASSUME NEW S \in SUBSET Threads, NEW places, NEW t \in S,
         pc[t] \notin places, pc'[t] \in places,
         \A u \in S \ {t} : pc'[u] = pc[u]
  PROVE  Cardinality(At(S, places)') = Cardinality(At(S, places)) + 1
<1>1. At(S, places)' = At(S, places) \cup {t} /\ t \notin At(S, places)
  BY DEF At
<1> QED
  BY <1>1, CountIsNat, FS_AddElement

LEMMA CountDown ==
  ASSUME NEW S \in SUBSET Threads, NEW places, NEW t \in S,
         pc[t] \in places, pc'[t] \notin places,
         \A u \in S \ {t} : pc'[u] = pc[u]
  PROVE  Cardinality(At(S, places)') = Cardinality(At(S, places)) - 1
<1>1. At(S, places)' = At(S, places) \ {t} /\ t \in At(S, places)
  BY DEF At
<1> QED
  BY <1>1, CountIsNat, FS_RemoveElement

LEMMA SomeoneCounted ==
  ASSUME NEW S \in SUBSET Threads, NEW places, Cardinality(At(S, places)) # 0
  PROVE  \E t \in S : pc[t] \in places
<1>1. At(S, places) # {}
  BY FS_EmptySet
<1> QED
  BY <1>1 DEF At

LEMMA Counters ==
  CountersExact <=> /\ waiting_readers = Cardinality(At(Readers, WaitingReaders))
                    /\ active_readers = Cardinality(At(Readers, ActiveReaders))
                    /\ waiting_writers = Cardinality(At(Writers, WaitingWriters))
BY DEF CountersExact, WaitingReaders, ActiveReaders, WaitingWriters

-----------------------------------------------------------------------------
LEMMA InitInv == Init => Inv
<1> SUFFICES ASSUME Init PROVE Inv
  OBVIOUS
<1>1. TypeOK /\ InTime
  <2>1. 0 \in 0 .. ITERATIONS /\ 0 < ITERATIONS
    BY IterationsAssumption
  <2>2. /\ pc \in [Threads -> ThreadPC] /\ i \in [Writers -> 0 .. ITERATIONS]
        /\ reg \in [Writers -> Nat]
    BY <2>1 DEF Init, ThreadPC
  <2>3. can_read \in BOOLEAN /\ can_write \in BOOLEAN /\ active_writer \in BOOLEAN
    BY Zenon DEF Init
  <2>4. TypeOK
    BY <2>2, <2>3 DEF Init, TypeOK
  <2>5. InTime
    BY <2>1 DEF Init, InTime, Threads
  <2> QED
    BY <2>4, <2>5
<1>2. Owner /\ ReadEvent /\ WriteEvent
  BY ThreadsAssumption DEF Init, Owner, ReadEvent, WriteEvent, Gate, Threads
<1>3. CountersExact
  <2>1. /\ At(Readers, WaitingReaders) = {} /\ At(Readers, ActiveReaders) = {}
        /\ At(Writers, WaitingWriters) = {}
    BY DEF Init, At, WaitingReaders, ActiveReaders, WaitingWriters, Threads
  <2> QED
    BY <2>1, FS_EmptySet, Counters DEF Init
<1> QED
  BY <1>1, <1>2, <1>3 DEF Inv

(* Only main: a thread is born, or nothing but mainpc moves.               *)
LEMMA MainInv ==
  ASSUME Inv, Main
  PROVE  Inv'
<1>1. /\ UNCHANGED <<events, counters, value, i, reg>>
      /\ mainpc' \in {"create_writers", "create_readers", "wait_writers",
                      "wait_readers", "failed", "exited"}
  BY DEF Main, Create, WaitForAll, Inv, TypeOK
<1>2. /\ pc' \in [Threads -> ThreadPC]
      /\ \A t \in Threads : \/ pc'[t] = pc[t]
                            \/ pc[t] = "unborn" /\ pc'[t] \in {"inc_writers", "loop"}
  BY DEF Main, Create, WaitForAll, Go, Inv, TypeOK, ThreadPC, ReaderPC, WriterPC, Threads
<1>3. TypeOK'
  BY <1>1, <1>2 DEF Inv, TypeOK, events, counters
<1>4. InTime'
  BY <1>1, <1>2 DEF Inv, InTime, Threads
<1>5. CountersExact'
  <2>1. /\ At(Readers, WaitingReaders)' = At(Readers, WaitingReaders)
        /\ At(Readers, ActiveReaders)' = At(Readers, ActiveReaders)
        /\ At(Writers, WaitingWriters)' = At(Writers, WaitingWriters)
    BY <1>2 DEF At, WaitingReaders, ActiveReaders, WaitingWriters, Threads
  <2> QED
    BY <1>1, <2>1 DEF Inv, CountersExact, counters, WaitingReaders, ActiveReaders,
                      WaitingWriters
<1>6. Owner' /\ ReadEvent'
  BY <1>1, <1>2 DEF Inv, Owner, ReadEvent, Gate, events, Threads
<1>7. WriteEvent'
  BY <1>1, <1>2 DEF Inv, WriteEvent, Wakers, Passing, Gate, events, Threads
<1> QED
  BY <1>3, <1>4, <1>5, <1>6, <1>7 DEF Inv

-----------------------------------------------------------------------------
(* A reader's step changes its own pc alone, and nothing of a writer's.    *)
LEMMA ReaderStep ==
  ASSUME Inv, NEW r \in Readers, reader(r)
  PROVE  /\ UNCHANGED <<mainpc, waiting_writers, active_writer, value, i, reg>>
         /\ pc' \in [Threads -> ThreadPC]
         /\ \A u \in Threads \ {r} : pc'[u] = pc[u]
         /\ r \in Threads /\ r \notin Writers
<1>1. r \in Threads /\ r \notin Writers
  BY ThreadsAssumption DEF Threads
<1>2. UNCHANGED <<mainpc, waiting_writers, active_writer, value, i, reg>>
  BY DEF reader, Loop, Gates, Lock, CheckActive, CheckWaiting, AwaitRead, DecWaiting,
         IncActive, SetRead, Release, Reading, CheckReaders, SetWrite, counters
<1>3. \E l \in ReaderPC \cup {"done"} : pc' = [pc EXCEPT ![r] = l]
  BY DEF reader, Loop, Gates, Lock, CheckActive, CheckWaiting, AwaitRead, DecWaiting,
         IncActive, SetRead, Release, Reading, CheckReaders, SetWrite, Go, ReaderPC, Gate
<1> QED
  BY <1>1, <1>2, <1>3 DEF Inv, TypeOK, ThreadPC

LEMMA ReaderTypeOK ==
  ASSUME Inv, NEW r \in Readers, reader(r)
  PROVE  TypeOK' /\ InTime'
<1>1. /\ mutex' \in {mutex, r, nobody}
      /\ can_read' \in BOOLEAN /\ can_write' \in BOOLEAN
      /\ waiting_readers' \in {waiting_readers, waiting_readers + 1, waiting_readers - 1}
      /\ active_readers' \in {active_readers, active_readers + 1, active_readers - 1}
  BY DEF reader, Loop, Gates, Lock, CheckActive, CheckWaiting, AwaitRead, DecWaiting,
         IncActive, SetRead, Release, Reading, CheckReaders, SetWrite, events, counters,
         Inv, TypeOK
<1>2. TypeOK'
  BY <1>1, ReaderStep DEF Inv, TypeOK
<1>3. InTime'
  BY ReaderStep DEF Inv, InTime, Threads
<1> QED
  BY <1>2, <1>3

(* waiting_readers is counted up before "lock" and down behind             *)
(* "dec_waiting"; active_readers behind that, until "reading" ends.        *)
LEMMA ReaderCounters ==
  ASSUME Inv, NEW r \in Readers, reader(r)
  PROVE  CountersExact'
<1> USE DEF reader, Loop, Gates, Lock, CheckActive, CheckWaiting, AwaitRead, DecWaiting,
            IncActive, SetRead, Release, Reading, CheckReaders, SetWrite, Go, counters
<1>1. /\ pc \in [Threads -> ThreadPC] /\ Readers \in SUBSET Threads
      /\ waiting_readers \in Int /\ active_readers \in Int
      /\ \A u \in Readers \ {r} : pc'[u] = pc[u]
      /\ r \in Threads
  BY ReaderStep DEF Inv, TypeOK, Threads
<1>2. waiting_readers' = Cardinality(At(Readers, WaitingReaders)')
  <2>1. CASE pc[r] = "inc_waiting"
    <3>1. waiting_readers' = waiting_readers + 1 /\ pc'[r] = "lock"
      BY <1>1, <2>1
    <3> QED
      BY <1>1, <2>1, <3>1, CountUp, Counters DEF Inv, WaitingReaders
  <2>2. CASE pc[r] = "dec_waiting"
    <3>1. waiting_readers' = waiting_readers - 1 /\ pc'[r] = "inc_active"
      BY <1>1, <2>2
    <3> QED
      BY <1>1, <2>2, <3>1, CountDown, Counters DEF Inv, WaitingReaders
  <2>3. CASE pc[r] \notin {"inc_waiting", "dec_waiting"}
    <3>1. /\ waiting_readers' = waiting_readers
          /\ pc'[r] \in WaitingReaders <=> pc[r] \in WaitingReaders
      BY <1>1, <2>3 DEF WaitingReaders
    <3>2. At(Readers, WaitingReaders)' = At(Readers, WaitingReaders)
      BY <1>1, <3>1, CountSame
    <3> QED
      BY <3>1, <3>2, Counters DEF Inv
  <2> QED
    BY <2>1, <2>2, <2>3
<1>3. active_readers' = Cardinality(At(Readers, ActiveReaders)')
  <2>1. CASE pc[r] = "inc_active"
    <3>1. active_readers' = active_readers + 1 /\ pc'[r] = "set_read"
      BY <1>1, <2>1
    <3> QED
      BY <1>1, <2>1, <3>1, CountUp, Counters DEF Inv, ActiveReaders
  <2>2. CASE pc[r] = "reading"
    <3>1. active_readers' = active_readers - 1 /\ pc'[r] = "check_readers"
      BY <1>1, <2>2
    <3> QED
      BY <1>1, <2>2, <3>1, CountDown, Counters DEF Inv, ActiveReaders
  <2>3. CASE pc[r] \notin {"inc_active", "reading"}
    <3>1. /\ active_readers' = active_readers
          /\ pc'[r] \in ActiveReaders <=> pc[r] \in ActiveReaders
      BY <1>1, <2>3 DEF ActiveReaders
    <3>2. At(Readers, ActiveReaders)' = At(Readers, ActiveReaders)
      BY <1>1, <3>1, CountSame
    <3> QED
      BY <3>1, <3>2, Counters DEF Inv
  <2> QED
    BY <2>1, <2>2, <2>3
<1>4. waiting_writers' = Cardinality(At(Writers, WaitingWriters)')
  <2>1. At(Writers, WaitingWriters)' = At(Writers, WaitingWriters)
    BY ReaderStep, CountSame DEF Threads
  <2> QED
    BY <2>1, ReaderStep, Counters DEF Inv
<1> QED
  BY <1>2, <1>3, <1>4 DEF CountersExact, WaitingReaders, ActiveReaders, WaitingWriters

(* Only the owner of the mutex passes the gate, and it alone resets        *)
(* can_read.                                                               *)
LEMMA ReaderGate ==
  ASSUME Inv, NEW r \in Readers, reader(r)
  PROVE  Owner' /\ ReadEvent'
<1> USE DEF reader, Loop, Gates, Lock, CheckActive, CheckWaiting, AwaitRead, DecWaiting,
            IncActive, SetRead, Release, Reading, CheckReaders, SetWrite, Go, events
<1>1. /\ pc \in [Threads -> ThreadPC] /\ r \in Threads /\ nobody \notin Readers
      /\ \A u \in Readers \ {r} : pc'[u] = pc[u]
  BY ReaderStep, ThreadsAssumption DEF Inv, TypeOK, Threads
<1>2. CASE pc[r] = "lock"
  BY <1>1, <1>2 DEF Inv, Owner, ReadEvent, Gate
<1>3. CASE pc[r] = "release"
  BY <1>1, <1>3 DEF Inv, Owner, ReadEvent, Gate
<1>4. CASE pc[r] \notin {"lock", "release"}
  <2>1. mutex' = mutex /\ (pc'[r] \in Gate <=> pc[r] \in Gate)
    BY <1>1, <1>4 DEF Gate
  <2>2. Owner'
    BY <1>1, <2>1 DEF Inv, Owner
  <2>3. ReadEvent'
    BY <1>1, <1>4 DEF Inv, ReadEvent
  <2> QED
    BY <2>2, <2>3
<1> QED
  BY <1>2, <1>3, <1>4

(* A reader that finds another one waiting leaves the signal to it.        *)
LEMMA ReaderSignal ==
  ASSUME Inv, NEW r \in Readers, reader(r)
  PROVE  WriteEvent'
<1> USE DEF reader, Loop, Gates, Lock, CheckActive, CheckWaiting, AwaitRead, DecWaiting,
            IncActive, SetRead, Release, Reading, CheckReaders, SetWrite, Go, events
<1>1. /\ pc \in [Threads -> ThreadPC] /\ r \in Threads
      /\ \A u \in Readers \ {r} : pc'[u] = pc[u]
      /\ \A w \in Writers : pc'[w] = pc[w]
  BY ReaderStep DEF Inv, TypeOK, Threads
<1>2. CASE pc[r] = "check_readers" /\ waiting_readers # 0
  <2>1. PICK q \in Readers : pc[q] \in WaitingReaders
    BY <1>2, SomeoneCounted, Counters DEF Inv, Threads
  <2>2. pc'[q] \in Passing
    BY <1>1, <1>2, <2>1 DEF WaitingReaders, Passing, Gate
  <2> QED
    BY <2>2 DEF WriteEvent
<1>3. CASE pc[r] = "check_readers" /\ waiting_readers = 0
  <2>1. pc'[r] = "set_write"
    BY <1>1, <1>3
  <2> QED
    BY <2>1 DEF WriteEvent, Passing
<1>4. CASE pc[r] = "set_write"
  BY <1>1, <1>4 DEF WriteEvent
<1>5. CASE pc[r] \notin {"check_readers", "set_write"}
  <2>1. can_write' = can_write /\ (pc[r] \in Passing => pc'[r] \in Passing)
    BY <1>1, <1>5 DEF Passing, Gate
  <2> QED
    BY <1>1, <2>1 DEF Inv, WriteEvent
<1> QED
  BY <1>2, <1>3, <1>4, <1>5

-----------------------------------------------------------------------------
(* A writer's step changes its own pc alone, and nothing of a reader's.    *)
LEMMA WriterStep ==
  ASSUME Inv, NEW w \in Writers, writer(w)
  PROVE  /\ UNCHANGED <<mainpc, mutex, waiting_readers, active_readers>>
         /\ pc' \in [Threads -> ThreadPC]
         /\ \A u \in Threads \ {w} : pc'[u] = pc[u]
         /\ w \in Threads /\ w \notin Readers
<1>1. w \in Threads /\ w \notin Readers
  BY ThreadsAssumption DEF Threads
<1>2. UNCHANGED <<mainpc, mutex, waiting_readers, active_readers>>
  BY DEF writer, IncWriters, CheckWriter, CheckActiveReaders, AwaitWrite, SetActive,
         DecWriters, ResetWrite, Load, Store, ClearActive, CheckWaitingReaders, Wake,
         events, counters
<1>3. \E l \in WriterPC \cup {"done"} : pc' = [pc EXCEPT ![w] = l]
  BY DEF writer, IncWriters, CheckWriter, CheckActiveReaders, AwaitWrite, SetActive,
         DecWriters, ResetWrite, Load, Store, ClearActive, CheckWaitingReaders, Wake,
         Go, WriterPC
<1> QED
  BY <1>1, <1>2, <1>3 DEF Inv, TypeOK, ThreadPC

LEMMA WriterTypeOK ==
  ASSUME Inv, NEW w \in Writers, writer(w)
  PROVE  TypeOK' /\ InTime'
<1> USE DEF writer, IncWriters, CheckWriter, CheckActiveReaders, AwaitWrite, SetActive,
            DecWriters, ResetWrite, Load, Store, ClearActive, CheckWaitingReaders, Wake,
            Go, events, counters
<1>1. /\ can_read' = TRUE \/ can_read' = can_read
      /\ can_write' = TRUE \/ can_write' = FALSE \/ can_write' = can_write
      /\ active_writer' = TRUE \/ active_writer' = FALSE \/ active_writer' = active_writer
  OBVIOUS
<1>2. can_read' \in BOOLEAN /\ can_write' \in BOOLEAN /\ active_writer' \in BOOLEAN
  BY ONLY Inv, <1>1, Zenon DEF Inv, TypeOK
<1>3. waiting_writers' \in Int
  BY DEF Inv, TypeOK
<1>4. value' \in Nat /\ reg' \in [Writers -> Nat]
  BY DEF Inv, TypeOK
<1>5. i' \in [Writers -> 0 .. ITERATIONS] /\ InTime'
  <2>1. pc \in [Threads -> ThreadPC] /\ i \in [Writers -> 0 .. ITERATIONS] /\ w \in Threads
        /\ \A v \in Writers \ {w} : pc'[v] = pc[v]
    BY WriterStep DEF Inv, TypeOK, Threads
  <2>2. pc[w] # "done" /\ i[w] < ITERATIONS
    BY DEF Inv, InTime
  <2>3. CASE pc[w] \in {"wake_reader", "wake_writer"}
    <3>1. i' = [i EXCEPT ![w] = @ + 1] /\ (pc'[w] # "done" => i[w] + 1 < ITERATIONS)
      BY <2>1, <2>3
    <3> QED
      BY <2>1, <2>2, <3>1, IterationsAssumption DEF Inv, InTime
  <2>4. CASE pc[w] \notin {"wake_reader", "wake_writer"}
    <3>1. i' = i
      BY <2>4
    <3> QED
      BY <2>1, <2>2, <3>1 DEF Inv, InTime
  <2> QED
    BY <2>3, <2>4
<1> QED
  BY <1>2, <1>3, <1>4, <1>5, WriterStep DEF Inv, TypeOK

(* waiting_writers is counted up before "check_writer" and down behind     *)
(* "dec_writers".                                                          *)
LEMMA WriterCounters ==
  ASSUME Inv, NEW w \in Writers, writer(w)
  PROVE  CountersExact'
<1> USE DEF writer, IncWriters, CheckWriter, CheckActiveReaders, AwaitWrite, SetActive,
            DecWriters, ResetWrite, Load, Store, ClearActive, CheckWaitingReaders, Wake,
            Go, counters
<1>1. /\ pc \in [Threads -> ThreadPC] /\ Writers \in SUBSET Threads
      /\ waiting_writers \in Int
      /\ \A v \in Writers \ {w} : pc'[v] = pc[v]
      /\ w \in Threads
  BY WriterStep DEF Inv, TypeOK, Threads
<1>2. waiting_writers' = Cardinality(At(Writers, WaitingWriters)')
  <2>1. CASE pc[w] = "inc_writers"
    <3>1. waiting_writers' = waiting_writers + 1 /\ pc'[w] = "check_writer"
      BY <1>1, <2>1
    <3> QED
      BY <1>1, <2>1, <3>1, CountUp, Counters DEF Inv, WaitingWriters
  <2>2. CASE pc[w] = "dec_writers"
    <3>1. waiting_writers' = waiting_writers - 1 /\ pc'[w] = "reset_write"
      BY <1>1, <2>2
    <3> QED
      BY <1>1, <2>2, <3>1, CountDown, Counters DEF Inv, WaitingWriters
  <2>3. CASE pc[w] \notin {"inc_writers", "dec_writers"}
    <3>1. /\ waiting_writers' = waiting_writers
          /\ pc'[w] \in WaitingWriters <=> pc[w] \in WaitingWriters
      BY <1>1, <2>3 DEF WaitingWriters
    <3>2. At(Writers, WaitingWriters)' = At(Writers, WaitingWriters)
      BY <1>1, <3>1, CountSame
    <3> QED
      BY <3>1, <3>2, Counters DEF Inv
  <2> QED
    BY <2>1, <2>2, <2>3
<1>3. /\ waiting_readers' = Cardinality(At(Readers, WaitingReaders)')
      /\ active_readers' = Cardinality(At(Readers, ActiveReaders)')
  <2>1. \A r \in Readers : pc'[r] = pc[r]
    BY WriterStep DEF Threads
  <2>2. At(Readers, WaitingReaders)' = At(Readers, WaitingReaders)
    BY <2>1, CountSame
  <2>3. At(Readers, ActiveReaders)' = At(Readers, ActiveReaders)
    BY <2>1, CountSame
  <2> QED
    BY <2>2, <2>3, WriterStep, Counters DEF Inv
<1> QED
  BY <1>2, <1>3 DEF CountersExact, WaitingReaders, ActiveReaders, WaitingWriters

(* Writers take no mutex and never reset can_read.                         *)
LEMMA WriterGate ==
  ASSUME Inv, NEW w \in Writers, writer(w)
  PROVE  Owner' /\ ReadEvent'
<1>1. can_read => can_read'
  BY DEF writer, IncWriters, CheckWriter, CheckActiveReaders, AwaitWrite, SetActive,
         DecWriters, ResetWrite, Load, Store, ClearActive, CheckWaitingReaders, Wake, events
<1>2. \A r \in Readers : pc'[r] = pc[r]
  BY WriterStep DEF Threads
<1> QED
  BY <1>1, <1>2, WriterStep DEF Inv, Owner, ReadEvent

(* A writer that resets can_write is before its own choice of whom to wake,*)
(* and wakes readers only if one is waiting.                               *)
LEMMA WriterSignal ==
  ASSUME Inv, NEW w \in Writers, writer(w)
  PROVE  WriteEvent'
<1> USE DEF writer, IncWriters, CheckWriter, CheckActiveReaders, AwaitWrite, SetActive,
            DecWriters, ResetWrite, Load, Store, ClearActive, CheckWaitingReaders, Wake,
            Go, events
<1>1. /\ pc \in [Threads -> ThreadPC] /\ w \in Threads
      /\ \A v \in Writers \ {w} : pc'[v] = pc[v]
      /\ \A r \in Readers : pc'[r] = pc[r]
  BY WriterStep DEF Inv, TypeOK, Threads
<1>2. CASE pc[w] = "reset_write"
  <2>1. pc'[w] = "load"
    BY <1>1, <1>2
  <2> QED
    BY <2>1 DEF WriteEvent, Wakers
<1>3. CASE pc[w] = "check_waiting_readers"
  <2>1. CASE waiting_readers # 0
    <3>1. PICK r \in Readers : pc[r] \in WaitingReaders
      BY <2>1, SomeoneCounted, Counters DEF Inv, Threads
    <3>2. pc'[r] \in Passing
      BY <1>1, <3>1 DEF WaitingReaders, Passing, Gate
    <3> QED
      BY <3>2 DEF WriteEvent
  <2>2. CASE waiting_readers = 0
    <3>1. pc'[w] = "wake_writer"
      BY <1>1, <1>3, <2>2
    <3> QED
      BY <3>1 DEF WriteEvent, Wakers
  <2> QED
    BY <2>1, <2>2
<1>4. CASE pc[w] = "wake_writer"
  BY <1>4 DEF WriteEvent
<1>5. CASE pc[w] \notin {"reset_write", "check_waiting_readers", "wake_writer"}
  <2>1. can_write' = can_write /\ (pc[w] \in Wakers => pc'[w] \in Wakers)
    BY <1>1, <1>5 DEF Wakers
  <2> QED
    BY <1>1, <2>1 DEF Inv, WriteEvent
<1> QED
  BY <1>2, <1>3, <1>4, <1>5

-----------------------------------------------------------------------------
LEMMA NextInv == Inv /\ [Next]_vars => Inv'
<1> SUFFICES ASSUME Inv, [Next]_vars PROVE Inv'
  OBVIOUS
<1>1. CASE Main
  BY <1>1, MainInv
<1>2. ASSUME NEW r \in Readers, reader(r) PROVE Inv'
  BY <1>2, ReaderTypeOK, ReaderCounters, ReaderGate, ReaderSignal DEF Inv
<1>3. ASSUME NEW w \in Writers, writer(w) PROVE Inv'
  BY <1>3, WriterTypeOK, WriterCounters, WriterGate, WriterSignal DEF Inv
<1>4. CASE UNCHANGED vars
  BY <1>4 DEF vars, events, counters, Inv, TypeOK, InTime, CountersExact, At, Owner,
              ReadEvent, WriteEvent
<1> QED
  BY <1>1, <1>2, <1>3, <1>4 DEF Next

THEOREM Invariance == Spec => []Inv
<1> QED
  BY InitInv, NextInv, PTL DEF Spec

(* All variables keep their types; no writer iterates too often.           *)
THEOREM TypeCorrect == Spec => []TypeOK
<1>1. Inv => TypeOK
  BY DEF Inv
<1> QED
  BY <1>1, Invariance, PTL

(* However many threads step in whatever order, each Interlocked counter   *)
(* is the number of the threads between its increment and its decrement.   *)
THEOREM CountersAreExact == Spec => []CountersExact
<1>1. Inv => CountersExact
  BY DEF Inv
<1> QED
  BY <1>1, Invariance, PTL

(* The wait for can_read inside the mutex never blocks.                    *)
THEOREM GateStaysOpen == Spec => []ReaderGateOpen
<1>1. Inv => ReaderGateOpen
  BY ThreadsAssumption DEF Inv, Owner, ReadEvent, ReaderGateOpen, Gate
<1> QED
  BY <1>1, Invariance, PTL

(* No wake-up of a writer is lost: while can_write is reset, some thread   *)
(* will set it or hands the duty on.                                       *)
THEOREM NoWakeupLost == Spec => []WriterWakeupPending
<1>1. Inv => WriterWakeupPending
  BY DEF Inv, WriteEvent, Wakers, Passing, WriterWakeupPending, At
<1> QED
  BY <1>1, Invariance, PTL
=============================================================================
