------------------------ MODULE ReadersWritersProofs ------------------------
(***************************************************************************)
(* Proofs about ReadersWriters for every number of writers and readers.    *)
(* Exclusion is not inductive alone: it follows from what the semaphores   *)
(* say about who is inside, so Inv relates the two.                        *)
(***************************************************************************)
EXTENDS ReadersWriters, FiniteSetTheorems, TLAPS

ReadersIn == {r \in Readers : In(r)}

(* No child runs before the semaphores are set, and from then on the two   *)
(* writer semaphores share one unit and WAIT_WRITER rests at zero.         *)
Birth == /\ mainpc = "setup" => forked = 0 /\ \A s \in Sems : sem[s] = 0
         /\ \A p \in Procs : pc[p] # "unborn" => 0 < forked
         /\ \A k \in DOMAIN Children : forked < k => pc[Children[k]] = "unborn"
Binary == /\ mainpc \in {"fork", "detach", "wait"} \/ 0 < forked =>
                sem[AWRITER] + sem[BIN_A_WRITER] = 1
          /\ sem[WAIT_WRITER] = 0

(* What the semaphores say about the processes inside.                     *)
Alone == /\ \A w \in Writers : In(w) => sem[AWRITER] = 1 /\ sem[READER] = 0
         /\ \A w, v \in Writers : In(w) /\ In(v) => w = v
         /\ sem[READER] = Cardinality(ReadersIn)

(* The register of an increment that is half done is up to date.           *)
Written == /\ shm = writes
           /\ \A w \in Writers : pc[w] = "store" => reg[w] = shm

Inv == /\ TypeOK
       /\ Birth
       /\ Binary
       /\ ~interrupted => Alone /\ Written

-----------------------------------------------------------------------------
LEMMA SemNames == {READER, AWRITER, BIN_A_WRITER, WAIT_WRITER} = Sems
BY DEF READER, AWRITER, BIN_A_WRITER, WAIT_WRITER, Sems

LEMMA FiniteReaders == IsFiniteSet(ReadersIn) /\ Cardinality(ReadersIn) \in Nat
BY ProcsAssumption, FS_Subset, FS_CardinalityType DEF ReadersIn

(* With the semaphores telling the truth, a writer inside is alone.        *)
LEMMA AloneExcludes ==
  ASSUME TypeOK, Alone
  PROVE  \A w \in Writers, p \in Procs : In(w) /\ In(p) => p = w
<1> SUFFICES ASSUME NEW w \in Writers, NEW p \in Procs, In(w), In(p) PROVE p = w
  OBVIOUS
<1>1. CASE p \in Writers
  BY <1>1 DEF Alone
<1>2. CASE p \in Readers
  <2>1. Cardinality(ReadersIn) = 0
    BY DEF Alone
  <2>2. ReadersIn = {}
    BY <2>1, FiniteReaders, FS_EmptySet
  <2> QED
    BY <1>2, <2>2 DEF ReadersIn
<1> QED
  BY <1>1, <1>2 DEF Procs

LEMMA InitInv == Init => Inv
<1> SUFFICES ASSUME Init PROVE Inv
  OBVIOUS
<1> USE DEF Init
<1>1. TypeOK
  <2>1. 0 \in 0 .. Len(Children) /\ 0 \in 0 .. IntRange - 1
    BY ProcsAssumption, RangeAssumption
  <2>2. reg \in [Writers -> 0 .. IntRange - 1]
    BY <2>1
  <2> QED
    BY <2>1, <2>2 DEF TypeOK, MainPC, ProcPC, Sems
<1>2. Birth /\ Binary
  BY ProcsAssumption DEF Birth, Binary, Sems, WAIT_WRITER
<1>3. Alone /\ Written
  <2>1. \A p \in Procs : ~In(p)
    BY DEF In, Inside
  <2>2. ReadersIn = {}
    BY <2>1 DEF ReadersIn, Procs
  <2> QED
    BY <2>1, <2>2, FS_EmptySet
       DEF Alone, Written, Procs, Sems, READER, AWRITER, In, Inside
<1> QED
  BY <1>1, <1>2, <1>3 DEF Inv

(* Steps of main.                                                          *)
LEMMA MainInv == Inv /\ Main => Inv'
<1> SUFFICES ASSUME Inv, Main PROVE Inv'
  OBVIOUS
<1>1. UNCHANGED <<shm, reg, interrupted, writes>>
  BY DEF Main, Setup, Fork, LoopsEnd, Detach, WaitAll
<1>2. CASE Setup
  <2>1. \A p \in Procs : pc[p] = "unborn" /\ pc' = pc
    BY <1>2 DEF Setup, Inv, Birth, TypeOK
  <2>2. ReadersIn = {} /\ ReadersIn' = {} /\ \A p \in Procs : ~In(p) /\ ~In(p)'
    BY <2>1 DEF ReadersIn, In, Inside, Procs
  <2>3. sem'[READER] = 0 /\ sem'[AWRITER] = 0 /\ sem'[WAIT_WRITER] = 0
    BY <1>2 DEF Setup, Inv, Birth, TypeOK, Sems, READER, AWRITER, BIN_A_WRITER, WAIT_WRITER
  <2>4. mainpc' = "fork" => sem'[BIN_A_WRITER] = 1
    BY <1>2 DEF Setup, Inv, TypeOK, Sems, BIN_A_WRITER
  <2>5. TypeOK'
    BY <1>2 DEF Setup, Inv, TypeOK, MainPC, Sems
  <2>6. Birth' /\ Binary'
    BY <1>2, <2>1, <2>3, <2>4 DEF Setup, Inv, Birth, Binary
  <2>7. (~interrupted => Alone /\ Written)'
    BY <1>1, <2>1, <2>2, <2>3, FS_EmptySet DEF Inv, Alone, Written, Procs
  <2> QED
    BY <2>5, <2>6, <2>7 DEF Inv
<1>3. CASE Fork \/ LoopsEnd \/ Detach \/ WaitAll
  <2>1. /\ sem' = sem /\ forked' >= forked
        /\ mainpc # "setup" /\ mainpc' \in MainPC \ {"setup"}
        /\ mainpc' \in {"fork", "detach", "wait"} => mainpc \in {"fork", "detach", "wait"}
        /\ forked' > 0 => forked > 0 \/ mainpc = "fork"
    BY <1>3 DEF Fork, LoopsEnd, Detach, WaitAll, MainPC, Inv, TypeOK
  <2>2. \A p \in Procs : \/ pc'[p] = pc[p]
                         \/ pc[p] = "unborn" /\ pc'[p] = "start" /\ forked' = forked + 1
    <3>1. CASE Fork /\ forked' = forked + 1
      <4>1. Children[forked + 1] \in Procs /\ pc[Children[forked + 1]] = "unborn"
        BY <3>1, ProcsAssumption DEF Fork, Inv, Birth, TypeOK
      <4> QED
        BY <3>1, <4>1 DEF Fork, Inv, TypeOK
    <3>2. CASE pc' = pc
      BY <3>2
    <3> QED
      BY <1>3, <3>1, <3>2 DEF Fork, LoopsEnd, Detach, WaitAll, Inv, TypeOK
  <2>3. /\ \A p \in Procs : In(p)' = In(p)
        /\ \A w \in Writers : pc'[w] = "store" => pc[w] = "store"
    BY <2>2 DEF In, Inside, Procs
  <2>4. TypeOK'
    <3>1. pc' \in [Procs -> ProcPC] /\ forked' \in 0 .. Len(Children) /\ pid' \in {0, 1}
      BY <1>3, ProcsAssumption DEF Fork, LoopsEnd, Detach, WaitAll, Inv, TypeOK, ProcPC
    <3> QED
      BY <1>1, <2>1, <3>1 DEF Inv, TypeOK
  <2>5. Birth'
    <3>1. ASSUME NEW k \in DOMAIN Children, forked' < k
          PROVE  pc'[Children[k]] = "unborn"
      BY <1>3, <3>1, ProcsAssumption DEF Fork, LoopsEnd, Detach, WaitAll, Inv, Birth, TypeOK
    <3>2. ASSUME NEW p \in Procs, pc'[p] # "unborn"
          PROVE  0 < forked'
      <4>1. forked \in Nat /\ (pc[p] # "unborn" => 0 < forked)
        BY ProcsAssumption DEF Inv, Birth, TypeOK
      <4> QED
        BY <2>1, <2>2, <2>4, <3>2, <4>1, ProcsAssumption DEF TypeOK
    <3>3. mainpc' # "setup"
      BY <2>1
    <3> QED
      BY <3>1, <3>2, <3>3 DEF Birth
  <2>6. Binary'
    BY <2>1 DEF Inv, Binary
  <2>7. (~interrupted => Alone /\ Written)'
    <3>1. ReadersIn' = ReadersIn
      BY <2>3 DEF ReadersIn, Procs
    <3> QED
      BY <1>1, <2>1, <2>3, <3>1 DEF Inv, Alone, Written, Procs
  <2> QED
    BY <2>4, <2>5, <2>6, <2>7 DEF Inv
<1> QED
  BY <1>2, <1>3 DEF Main

(* Steps of a process that neither enter nor leave.                        *)
LEMMA LocalInv ==
  ASSUME Inv, NEW p \in Procs,
         UNCHANGED <<mainpc, pid, forked, sem, shm, reg, interrupted, writes>>,
         pc[p] # "unborn",
         \E l \in ProcPC \ {"unborn", "store"} : pc' = [pc EXCEPT ![p] = l],
         In(p)' = In(p)
  PROVE  Inv'
<1>1. /\ pc' \in [Procs -> ProcPC] /\ pc'[p] \notin {"unborn", "store"}
      /\ \A q \in Procs : q # p => pc'[q] = pc[q]
  BY DEF Inv, TypeOK
<1>2. \A q \in Procs : In(q)' = In(q)
  BY <1>1 DEF In
<1>3. TypeOK' /\ Binary'
  BY <1>1 DEF Inv, TypeOK, Binary
<1>4. Birth'
  BY <1>1, ProcsAssumption DEF Inv, Birth
<1>5. ReadersIn' = ReadersIn
  BY <1>2 DEF ReadersIn, Procs
<1>6. Alone => Alone'
  BY <1>2, <1>5 DEF Alone, Procs
<1>7. Written => Written'
  BY <1>1 DEF Written, Procs
<1> QED
  BY <1>3, <1>4, <1>6, <1>7 DEF Inv

(* A first semop() that takes effect.                                      *)
LEMMA EnterInv ==
  ASSUME Inv, NEW p \in Procs, NEW op,
         \/ p \in Writers /\ op = start_write
         \/ p \in Readers /\ op = start_read,
         pc[p] \in {"start", "start_asleep"}, Possible(op),
         sem' = [s \in Sems |-> sem[s] + op.add[s]],
         pc' = [pc EXCEPT ![p] = "access"],
         UNCHANGED <<mainpc, pid, forked, shm, reg, interrupted, writes>>
  PROVE  Inv'
<1> USE SemNames
<1>1. /\ pc' \in [Procs -> ProcPC] /\ pc'[p] = "access" /\ In(p)' /\ ~In(p)
      /\ \A q \in Procs : q # p => pc'[q] = pc[q] /\ In(q)' = In(q)
  BY DEF Inv, TypeOK, ProcPC, Inside, In
<1>2. CASE p \in Writers /\ op = start_write
  <2>1. /\ sem[READER] = 0 /\ sem'[READER] = 0
        /\ sem'[AWRITER] = sem[AWRITER] + 1
        /\ sem'[BIN_A_WRITER] = sem[BIN_A_WRITER] - 1 /\ sem'[BIN_A_WRITER] >= 0
        /\ sem'[WAIT_WRITER] = sem[WAIT_WRITER]
        /\ sem \in [Sems -> Nat]
    BY <1>2 DEF Possible, start_write, Inv, TypeOK, READER, AWRITER,
                BIN_A_WRITER, WAIT_WRITER, Sems
  <2>2. sem[AWRITER] = 0 /\ sem[BIN_A_WRITER] = 1
    <3>1. 0 < forked
      BY DEF Inv, Birth
    <3>2. sem[AWRITER] + sem[BIN_A_WRITER] = 1
      BY <3>1 DEF Inv, Binary
    <3> QED
      BY <2>1, <3>2
  <2>3. sem' \in [Sems -> Nat]
    <3>1. \A s \in Sems : op.add[s] \in Int
      BY <1>2 DEF start_write
    <3> QED
      BY <2>1, <3>1 DEF Possible
  <2>4. TypeOK' /\ Birth' /\ Binary'
    BY <1>1, <2>1, <2>2, <2>3, ProcsAssumption DEF Inv, TypeOK, Birth, Binary
  <2>5. ASSUME Alone, Written PROVE Alone' /\ Written'
    <3>1. \A w \in Writers : ~In(w)
      BY <2>2, <2>5 DEF Alone
    <3>2. ReadersIn' = ReadersIn
      BY <1>1, <1>2, ProcsAssumption DEF ReadersIn, Procs
    <3> QED
      BY <1>1, <1>2, <2>1, <2>2, <2>5, <3>1, <3>2 DEF Alone, Written, Procs
  <2> QED
    BY <2>4, <2>5 DEF Inv
<1>3. CASE p \in Readers /\ op = start_read
  <2>1. /\ sem[AWRITER] = 0
        /\ sem'[READER] = sem[READER] + 1
        /\ \A s \in Sems : s # READER => sem'[s] = sem[s]
        /\ sem' \in [Sems -> Nat]
    <3>1. sem \in [Sems -> Nat] /\ READER \in Sems
      BY DEF Inv, TypeOK
    <3>2. \A s \in Sems : op.add[s] = IF s = READER THEN 1 ELSE 0
      BY <1>3 DEF start_read
    <3>3. sem[AWRITER] = 0
      BY <1>3 DEF Possible, start_read
    <3> QED
      BY <3>1, <3>2, <3>3
  <2>2. TypeOK' /\ Birth'
    BY <1>1, <2>1, ProcsAssumption DEF Inv, TypeOK, Birth
  <2>3. Binary'
    BY <2>1 DEF Inv, Binary, READER, AWRITER, BIN_A_WRITER, WAIT_WRITER, Sems
  <2>4. ASSUME Alone, Written PROVE Alone' /\ Written'
    <3>1. \A w \in Writers : ~In(w) /\ ~In(w)'
      BY <1>1, <1>3, <2>1, <2>4, ProcsAssumption DEF Alone, Procs
    <3>2. ReadersIn' = ReadersIn \cup {p} /\ p \notin ReadersIn
      BY <1>1, <1>3 DEF ReadersIn, Procs
    <3>3. sem'[READER] = Cardinality(ReadersIn')
      <4>1. Cardinality(ReadersIn \cup {p}) = Cardinality(ReadersIn) + 1
        BY <3>2, FiniteReaders, FS_AddElement
      <4> QED
        BY <2>1, <2>4, <3>2, <4>1 DEF Alone
    <3> QED
      BY <1>1, <2>4, <3>1, <3>3 DEF Alone, Written, Procs
  <2> QED
    BY <2>2, <2>3, <2>4 DEF Inv
<1> QED
  BY <1>2, <1>3

(* A second semop() that takes effect.                                     *)
LEMMA LeaveInv ==
  ASSUME Inv, NEW p \in Procs, NEW op,
         \/ p \in Writers /\ op = stop_write
         \/ p \in Readers /\ op = stop_read,
         pc[p] \in {"stop", "stop_asleep"}, Possible(op),
         sem' = [s \in Sems |-> sem[s] + op.add[s]],
         pc' = [pc EXCEPT ![p] = "start"],
         UNCHANGED <<mainpc, pid, forked, shm, reg, interrupted, writes>>
  PROVE  Inv'
<1> USE SemNames
<1>1. /\ pc' \in [Procs -> ProcPC] /\ pc'[p] = "start" /\ In(p) /\ ~In(p)'
      /\ \A q \in Procs : q # p => pc'[q] = pc[q] /\ In(q)' = In(q)
  BY DEF Inv, TypeOK, ProcPC, Inside, In
<1>2. CASE p \in Writers /\ op = stop_write
  <2>1. /\ sem'[READER] = sem[READER]
        /\ sem'[AWRITER] = sem[AWRITER] - 1 /\ sem'[AWRITER] >= 0
        /\ sem'[BIN_A_WRITER] = sem[BIN_A_WRITER] + 1
        /\ sem'[WAIT_WRITER] = sem[WAIT_WRITER]
        /\ sem \in [Sems -> Nat]
    BY <1>2 DEF Possible, stop_write, Inv, TypeOK, READER, AWRITER,
                BIN_A_WRITER, WAIT_WRITER, Sems
  <2>2. sem' \in [Sems -> Nat]
    BY <1>2, <2>1 DEF stop_write, Inv, TypeOK, READER, AWRITER, BIN_A_WRITER,
                      WAIT_WRITER, Sems
  <2>3. TypeOK' /\ Birth' /\ Binary'
    BY <1>1, <2>1, <2>2, ProcsAssumption DEF Inv, TypeOK, Birth, Binary
  <2>4. ASSUME Alone, Written PROVE Alone' /\ Written'
    <3>1. \A w \in Writers : ~In(w)'
      BY <1>1, <1>2, <2>4 DEF Alone, Procs
    <3>2. ReadersIn' = ReadersIn
      BY <1>1, <1>2, ProcsAssumption DEF ReadersIn, Procs
    <3> QED
      BY <1>1, <2>1, <2>4, <3>1, <3>2 DEF Alone, Written, Procs
  <2> QED
    BY <2>3, <2>4 DEF Inv
<1>3. CASE p \in Readers /\ op = stop_read
  <2>1. /\ sem'[READER] = sem[READER] - 1
        /\ \A s \in Sems : s # READER => sem'[s] = sem[s]
        /\ sem' \in [Sems -> Nat] /\ sem \in [Sems -> Nat]
    BY <1>3 DEF Possible, stop_read, Inv, TypeOK, READER, Sems
  <2>2. TypeOK' /\ Birth'
    BY <1>1, <2>1, ProcsAssumption DEF Inv, TypeOK, Birth
  <2>3. Binary'
    BY <2>1 DEF Inv, Binary, READER, AWRITER, BIN_A_WRITER, WAIT_WRITER, Sems
  <2>4. ASSUME Alone, Written PROVE Alone' /\ Written'
    <3>1. \A w \in Writers : ~In(w) /\ ~In(w)'
      <4>1. \A w \in Writers : ~In(w)
        BY <1>1, <1>3, <2>4, AloneExcludes, ProcsAssumption DEF Inv
      <4> QED
        BY <1>1, <1>3, <4>1, ProcsAssumption DEF Procs
    <3>2. ReadersIn' = ReadersIn \ {p} /\ p \in ReadersIn
      BY <1>1, <1>3 DEF ReadersIn, Procs
    <3>3. sem'[READER] = Cardinality(ReadersIn')
      BY <2>1, <2>4, <3>2, FiniteReaders, FS_RemoveElement DEF Alone
    <3> QED
      BY <1>1, <2>4, <3>1, <3>3 DEF Alone, Written, Procs
  <2> QED
    BY <2>2, <2>3, <2>4 DEF Inv
<1> QED
  BY <1>2, <1>3

(* An interrupted semop(): nothing is promised from here on but the types  *)
(* and the writer semaphores.                                              *)
LEMMA InterruptInv ==
  ASSUME Inv, NEW p \in Procs, StopAndContinue(p)
  PROVE  Inv'
<1>1. /\ UNCHANGED <<mainpc, pid, forked, sem, shm, reg, writes>>
      /\ interrupted' = TRUE
      /\ pc[p] # "unborn" /\ pc' \in [Procs -> ProcPC]
      /\ \A q \in Procs : q # p => pc'[q] = pc[q]
      /\ pc'[p] # "unborn"
  BY DEF StopAndContinue, Interrupt, main, Inv, TypeOK, ProcPC, Inside
<1> QED
  BY <1>1, ProcsAssumption DEF Inv, TypeOK, Birth, Binary

(* The increment of the shared int.                                        *)
LEMMA LoadInv ==
  ASSUME Inv, NEW w \in Writers, Load(w)
  PROVE  Inv'
<1>1. /\ UNCHANGED <<mainpc, pid, forked, sem, shm, interrupted, writes>>
      /\ w \in Procs /\ pc[w] = "access" /\ pc'[w] = "store"
      /\ pc' \in [Procs -> ProcPC] /\ reg' = [reg EXCEPT ![w] = shm]
      /\ \A q \in Procs : q # w => pc'[q] = pc[q]
  BY DEF Load, main, Inv, TypeOK, Procs, ProcPC, Inside
<1>2. \A q \in Procs : In(q)' = In(q)
  BY <1>1 DEF In, Inside
<1>3. TypeOK' /\ Birth' /\ Binary'
  BY <1>1, ProcsAssumption DEF Inv, TypeOK, Birth, Binary
<1>4. ReadersIn' = ReadersIn
  BY <1>2 DEF ReadersIn, Procs
<1>5. Alone => Alone'
  BY <1>1, <1>2, <1>4 DEF Alone, Procs
<1>6. Written => Written'
  BY <1>1 DEF Written, Inv, TypeOK, Procs
<1> QED
  BY <1>1, <1>3, <1>5, <1>6 DEF Inv

LEMMA StoreInv ==
  ASSUME Inv, NEW w \in Writers, Store(w)
  PROVE  Inv'
<1>1. /\ UNCHANGED <<mainpc, pid, forked, sem, reg, interrupted>>
      /\ w \in Procs /\ pc[w] = "store" /\ pc'[w] = "stop"
      /\ pc' \in [Procs -> ProcPC]
      /\ \A q \in Procs : q # w => pc'[q] = pc[q]
  BY DEF Store, main, Inv, TypeOK, Procs, ProcPC, Inside
<1>2. \A q \in Procs : In(q)' = In(q)
  BY <1>1 DEF In, Inside
<1>3. shm' \in 0 .. IntRange - 1 /\ writes' \in 0 .. IntRange - 1
  <2>1. \A n \in Nat : (n + 1) % IntRange \in 0 .. IntRange - 1
    BY RangeAssumption
  <2>2. reg[w] \in Nat /\ writes \in Nat
    BY RangeAssumption DEF Inv, TypeOK
  <2> QED
    BY <2>1, <2>2 DEF Store
<1>4. TypeOK' /\ Birth' /\ Binary'
  BY <1>1, <1>3, ProcsAssumption DEF Inv, TypeOK, Birth, Binary
<1>5. ReadersIn' = ReadersIn
  BY <1>2 DEF ReadersIn, Procs
<1>6. Alone => Alone'
  BY <1>1, <1>2, <1>5 DEF Alone, Procs
<1>7. Alone /\ Written => Written'
  <2> SUFFICES ASSUME Alone, Written PROVE Written'
    OBVIOUS
  <2>1. shm' = writes'
    BY <1>1 DEF Store, Written
  <2>2. \A v \in Writers : pc'[v] # "store"
    BY <1>1 DEF Alone, In, Inside, Procs
  <2> QED
    BY <2>1, <2>2 DEF Written
<1> QED
  BY <1>1, <1>4, <1>6, <1>7 DEF Inv

-----------------------------------------------------------------------------
LEMMA StartInv ==
  ASSUME Inv, NEW p \in Procs, NEW op,
         \/ p \in Writers /\ op = start_write
         \/ p \in Readers /\ op = start_read,
         Start(p, op)
  PROVE  Inv'
<1>1. UNCHANGED <<mainpc, pid, forked, shm, reg, interrupted, writes>>
  BY DEF Start, Semop, main
<1>2. CASE pc[p] \in {"start", "start_asleep"} /\ Possible(op)
           /\ sem' = [s \in Sems |-> sem[s] + op.add[s]]
           /\ pc' = [pc EXCEPT ![p] = "access"]
  BY <1>1, <1>2, EnterInv
<1>3. CASE pc[p] = "start" /\ sem' = sem
           /\ pc' = [pc EXCEPT ![p] = "start_asleep"]
  <2>1. In(p)' = In(p) /\ "start_asleep" \in ProcPC \ {"unborn", "store"}
    BY <1>3 DEF In, Inside, ProcPC, Inv, TypeOK
  <2> QED
    BY <1>1, <1>3, <2>1, LocalInv
<1> QED
  BY <1>2, <1>3 DEF Start, Semop

LEMMA StopInv ==
  ASSUME Inv, NEW p \in Procs, NEW op,
         \/ p \in Writers /\ op = stop_write
         \/ p \in Readers /\ op = stop_read,
         Stop(p, op)
  PROVE  Inv'
<1>1. UNCHANGED <<mainpc, pid, forked, shm, reg, interrupted, writes>>
  BY DEF Stop, Semop, main
<1>2. CASE pc[p] \in {"stop", "stop_asleep"} /\ Possible(op)
           /\ sem' = [s \in Sems |-> sem[s] + op.add[s]]
           /\ pc' = [pc EXCEPT ![p] = "start"]
  BY <1>1, <1>2, LeaveInv
<1>3. CASE pc[p] = "stop" /\ sem' = sem
           /\ pc' = [pc EXCEPT ![p] = "stop_asleep"]
  <2>1. In(p)' = In(p) /\ "stop_asleep" \in ProcPC \ {"unborn", "store"}
    BY <1>3 DEF In, Inside, ProcPC, Inv, TypeOK
  <2> QED
    BY <1>1, <1>3, <2>1, LocalInv
<1> QED
  BY <1>2, <1>3 DEF Stop, Semop

LEMMA NextInv == Inv /\ [Next]_vars => Inv'
<1> SUFFICES ASSUME Inv, [Next]_vars PROVE Inv'
  OBVIOUS
<1>1. CASE Main
  BY <1>1, MainInv
<1>2. ASSUME NEW w \in Writers, writer(w) PROVE Inv'
  BY <1>2, StartInv, LoadInv, StoreInv, StopInv DEF writer, Procs
<1>3. ASSUME NEW r \in Readers, reader(r) PROVE Inv'
  <2>1. CASE Read(r)
    <3>1. /\ r \in Procs /\ pc[r] # "unborn" /\ In(r)' = In(r)
          /\ pc' = [pc EXCEPT ![r] = "stop"] /\ "stop" \in ProcPC \ {"unborn", "store"}
          /\ UNCHANGED <<mainpc, pid, forked, sem, shm, reg, interrupted, writes>>
      BY <2>1 DEF Read, main, In, Inside, ProcPC, Inv, TypeOK, Procs
    <3> QED
      BY <3>1, LocalInv
  <2> QED
    BY <1>3, <2>1, StartInv, StopInv DEF reader, Procs
<1>4. ASSUME NEW p \in Procs, Kill(p) PROVE Inv'
  <2>1. PICK l \in {"killed", "killed_inside"} :
             pc' = [pc EXCEPT ![p] = l] /\ (l = "killed_inside" <=> In(p))
    BY <1>4 DEF Kill, In
  <2>2. /\ pc[p] # "unborn" /\ l \in ProcPC \ {"unborn", "store"}
        /\ UNCHANGED <<mainpc, pid, forked, sem, shm, reg, interrupted, writes>>
    BY <1>4, <2>1 DEF Kill, main, ProcPC, Inside
  <2>3. In(p)' = In(p)
    BY <2>1 DEF In, Inside, Inv, TypeOK
  <2> QED
    BY <2>1, <2>2, <2>3, LocalInv
<1>5. ASSUME NEW p \in Procs, StopAndContinue(p) PROVE Inv'
  BY <1>5, InterruptInv
<1>6. CASE UNCHANGED vars
  <2>1. \A p \in Procs : In(p)' = In(p)
    BY <1>6 DEF vars, In
  <2>2. ReadersIn' = ReadersIn
    BY <2>1 DEF ReadersIn, Procs
  <2> QED
    BY <1>6, <2>1, <2>2 DEF vars, Inv, TypeOK, Birth, Binary, Alone, Written, Procs
<1> QED
  BY <1>1, <1>2, <1>3, <1>4, <1>5, <1>6 DEF Next

THEOREM Invariance == Spec => []Inv
<1> QED
  BY InitInv, NextInv, PTL DEF Spec

(* All variables keep their types, interrupted semop() calls included.     *)
THEOREM TypeCorrect == Spec => []TypeOK
<1>1. Inv => TypeOK
  BY DEF Inv
<1> QED
  BY <1>1, Invariance, PTL

(* For any number of readers and writers, killed ones included, a writer   *)
(* between start_write and stop_write is alone until some semop() has      *)
(* returned -1.                                                            *)
THEOREM WriterIsAlone == Spec => []WriterAlone
<1>1. Inv => WriterAlone
  BY AloneExcludes DEF Inv, WriterAlone
<1> QED
  BY <1>1, Invariance, PTL

(* READER is the number of readers inside.                                 *)
THEOREM ReadersAreCounted == Spec => []ReadersCounted
<1>1. Inv => ReadersCounted
  BY DEF Inv, Alone, ReadersCounted, ReadersIn
<1> QED
  BY <1>1, Invariance, PTL

(* BIN_A_WRITER stays binary, whatever is interrupted or killed.           *)
THEOREM BinaryWriterHolds == Spec => []BinaryWriter
<1>1. Inv => BinaryWriter
  BY DEF Inv, Binary, BinaryWriter
<1> QED
  BY <1>1, Invariance, PTL

(* The shared int counts the writes of all the writers.                    *)
THEOREM NoWriteIsLost == Spec => []NoLostWrite
<1>1. Inv => NoLostWrite
  BY DEF Inv, Written, NoLostWrite
<1> QED
  BY <1>1, Invariance, PTL
=============================================================================
