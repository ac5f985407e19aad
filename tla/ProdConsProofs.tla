--------------------------- MODULE ProdConsProofs ---------------------------
(***************************************************************************)
(* Proofs about ProdCons for every number of producers, consumers, slots   *)
(* and items.  The invariants of ProdCons are not inductive: that a        *)
(* producer writes inside the buffer follows from the number of values all *)
(* the producers have left to make, which no semaphore counts.  IInv adds  *)
(* the set of values made so far and ties it to *shm_pos_prod.             *)
(***************************************************************************)
EXTENDS ProdCons, FiniteSetTheorems, FunctionTheorems, TLAPS

(* The values (producer, round) already counted in *shm_pos_prod.          *)
Rounds(p) == i[p] + IF Advanced(p) THEN 1 ELSE 0
Produced  == UNION {{p} \X (0 .. Rounds(p) - 1) : p \in Producers}

(* Children not forked yet have not run, and none exists before Setup.     *)
Birth == /\ mainpc = "setup" => forked = 0
         /\ \A k \in DOMAIN Children : forked < k => pc[Children[k]] = "unborn"
         /\ \A p \in Procs : pc[p] # "unborn" => 0 < forked

(* SB is 0 exactly as long as some process has the buffer.                 *)
Lock == /\ sem["SB"] <= 1
        /\ \A p \in Procs : Holds(p) => sem["SB"] = 0
        /\ MutualExclusion

(* A loop counter never passes COUNT, and is below it in the loop's body.  *)
Loops == \A p \in Procs :
           /\ pc[p] = "unborn" => i[p] = 0
           /\ pc[p] \notin {"unborn", "exit0"} => i[p] < Count[p]

(* The register of a half done pos++ is the position it will replace.      *)
Registers ==
  /\ \A p \in Producers : pc[p] = "store" => reg[p] = pos_prod
  /\ \A c \in Consumers : pc[c] = "store" => reg[c] = pos_consum

Positions == /\ pos_prod = Cardinality(Produced)
             /\ pos_consum \in Nat

(* The counting semaphores in terms of the positions, by who has the       *)
(* buffer and how far it has come.                                         *)
Permits(sm, se) == /\ sem["SM"] = pos_prod - pos_consum - sm
                   /\ sem["SE"] = N - pos_prod + pos_consum - se
Semaphores ==
  /\ SetUp /\ (\A p \in Procs : ~Holds(p)) => Permits(0, 0)
  /\ \A p \in Producers : Holds(p) =>
        IF Advanced(p) THEN Permits(1, 0) ELSE Permits(0, 1)
  /\ \A c \in Consumers : Holds(c) =>
        IF Advanced(c) THEN Permits(0, 1) ELSE Permits(1, 0)

IInv == /\ TypeOK
        /\ Birth
        /\ Lock
        /\ Loops
        /\ Registers
        /\ Positions
        /\ Semaphores

-----------------------------------------------------------------------------
(* The offsets of the positions lie in the segment, apart from each other  *)
(* and from every slot.                                                    *)
LEMMA Layout ==
  /\ shm_pos_prod \in Addr /\ shm_pos_consum \in Addr
  /\ shm_pos_prod # shm_pos_consum
  /\ \A k \in 0 .. N - 1 : /\ shm_buffer + k \in Addr
                           /\ shm_buffer + k # shm_pos_prod
                           /\ shm_buffer + k # shm_pos_consum
BY LayoutAssumption DEF Addr, shm_pos_prod, shm_pos_consum, shm_buffer

LEMMA Types == Procs = Producers \cup Consumers /\ Count \in [Procs -> Nat]
BY CountAssumption DEF Procs

(* What a producer that has the buffer may still make is one of the items  *)
(* not yet counted: this is why the position stays below N.                *)
LEMMA Bounds ==
  ASSUME IInv
  PROVE  /\ IsFiniteSet(Produced)
         /\ pos_prod \in 0 .. N
         /\ \A p \in Producers : Holds(p) /\ ~Advanced(p) =>
               pos_prod < N /\ pos_consum <= pos_prod
         /\ \A c \in Consumers : Holds(c) /\ ~Advanced(c) =>
               pos_consum < pos_prod
<1>1. Produced \subseteq Items
  <2>1. \A p \in Producers : Rounds(p) \in Int /\ Rounds(p) <= Count[p]
    <3> TAKE p \in Producers
    <3>1. p \in Procs /\ i[p] \in Nat /\ Count[p] \in Nat
      BY Types DEF IInv, TypeOK
    <3>2. i[p] <= Count[p] /\ (Advanced(p) => i[p] < Count[p])
      BY <3>1 DEF IInv, TypeOK, Loops, Advanced
    <3> QED
      BY <3>1, <3>2 DEF Rounds
  <2> QED
    BY <2>1, Types DEF Produced, Items
<1>2. IsFiniteSet(Produced) /\ Cardinality(Produced) \in Nat
      /\ Cardinality(Produced) <= Cardinality(Items)
  BY <1>1, ItemsAssumption, FS_Subset, FS_CardinalityType
<1>3. pos_prod \in 0 .. N
  BY <1>2, ItemsAssumption, LayoutAssumption, FS_CardinalityType
     DEF IInv, Positions
<1>4. ASSUME NEW p \in Producers, Holds(p), ~Advanced(p)
      PROVE  pos_prod < N /\ pos_consum <= pos_prod
  <2>1. i[p] \in 0 .. Count[p] - 1 /\ Rounds(p) = i[p]
    <3>1. p \in Procs /\ i[p] \in Nat /\ Count[p] \in Nat
      BY Types DEF IInv, TypeOK
    <3>2. i[p] < Count[p]
      BY <1>4, <3>1 DEF IInv, Loops, Holds, Inside
    <3> QED
      BY <1>4, <3>1, <3>2 DEF Rounds
  <2>2. <<p, i[p]>> \in Items
    BY <2>1, <1>4 DEF Items
  <2>3. <<p, i[p]>> \notin Produced
    BY <2>1 DEF Produced
  <2>4. Cardinality(Produced) # Cardinality(Items)
    BY <1>1, <2>2, <2>3, ItemsAssumption, FS_Subset
  <2>5. pos_prod < N
    BY <1>2, <2>4, ItemsAssumption, LayoutAssumption, FS_CardinalityType
       DEF IInv, Positions
  <2>6. Permits(0, 1)
    BY <1>4 DEF IInv, Semaphores
  <2> QED
    BY <2>5, <2>6, <1>3 DEF Permits, IInv, TypeOK, Positions, Sems
<1>5. ASSUME NEW c \in Consumers, Holds(c), ~Advanced(c)
      PROVE  pos_consum < pos_prod
  <2>1. Permits(1, 0)
    BY <1>5 DEF IInv, Semaphores
  <2> QED
    BY <2>1, <1>3 DEF Permits, IInv, TypeOK, Positions, Sems
<1> QED
  BY <1>2, <1>3, <1>4, <1>5

LEMMA InitInv == Init => IInv
<1> SUFFICES ASSUME Init PROVE IInv
  OBVIOUS
<1> USE DEF Init
<1>1. TypeOK
  <2>1. forked \in 0 .. Len(Children)
    BY ProcsAssumption
  <2>2. shm \in [Addr -> Int] /\ i \in [Procs -> Nat] /\ reg \in [Procs -> Int]
    OBVIOUS
  <2>3. out \in [Consumers -> Seq(Int)]
    OBVIOUS
  <2>4. \A p \in Procs : i[p] <= Count[p]
    BY Types
  <2> QED
    BY <2>1, <2>2, <2>3, <2>4 DEF TypeOK, MainPC, ProcPC, Sems
<1>2. Birth /\ Loops /\ Registers
  BY ProcsAssumption, Types DEF Birth, Loops, Registers
<1>3. Lock /\ Semaphores
  BY Types DEF Lock, MutualExclusion, Semaphores, SetUp, Holds, Inside, Sems
<1>4. Positions
  <2>1. Produced = {}
    BY Types DEF Produced, Rounds, Advanced
  <2> QED
    BY <2>1, FS_EmptySet, Layout DEF Positions, pos_prod, pos_consum
<1> QED
  BY <1>1, <1>2, <1>3, <1>4 DEF IInv

-----------------------------------------------------------------------------
(* One lemma per kind of step.  A step that keeps every counter of rounds  *)
(* keeps the set of values made.                                           *)
LEMMA SameRounds ==
  ASSUME \A p \in Producers : Rounds(p)' = Rounds(p)
  PROVE  Produced' = Produced
BY DEF Produced

LEMMA SetupInv == IInv /\ Setup => IInv'
<1> SUFFICES ASSUME IInv, Setup PROVE IInv'
  OBVIOUS
<1>1. forked = 0 /\ \A p \in Procs : pc[p] = "unborn"
  BY DEF IInv, Birth, TypeOK, Setup
<1>2. TypeOK'
  <2>1. sem' \in [Sems -> Nat]
    BY LayoutAssumption DEF IInv, TypeOK, Setup, Sems
  <2>2. shm' \in [Addr -> Int]
    BY DEF IInv, TypeOK, Setup
  <2> QED
    BY <2>1, <2>2 DEF IInv, TypeOK, Setup, MainPC
<1>3. Birth' /\ Loops' /\ Registers'
  BY <1>1, Types DEF Setup, IInv, Birth, Loops, Registers
<1>4. Lock'
  BY <1>1 DEF Setup, IInv, Lock, MutualExclusion, Holds, Inside, Sems
<1>5. pos_prod = 0 /\ Produced' = {}
  <2>1. Produced = {}
    BY <1>1, Types DEF Produced, Rounds, Advanced, IInv, Loops
  <2>2. Produced' = Produced
    BY SameRounds DEF Setup, Rounds, Advanced
  <2> QED
    BY <2>1, <2>2, FS_EmptySet DEF IInv, Positions
<1>6. CASE mainpc' = "exit1"
  <2>1. UNCHANGED <<sem, shm>>
    BY <1>6 DEF Setup
  <2>2. Positions'
    BY <2>1, <1>5, FS_EmptySet DEF IInv, Positions, pos_prod, pos_consum
  <2>3. Semaphores'
    BY <1>1, <1>6, Types DEF Setup, Semaphores, SetUp, Holds, Inside
  <2> QED
    BY <1>2, <1>3, <1>4, <2>2, <2>3 DEF IInv
<1>7. CASE mainpc' = "fork"
  <2>1. pos_prod' = 0 /\ pos_consum' = 0
    BY <1>7, Layout DEF Setup, IInv, TypeOK, pos_prod, pos_consum
  <2>2. sem' = [SB |-> 1, SE |-> N, SM |-> 0]
    BY <1>7 DEF Setup
  <2>3. Positions'
    BY <2>1, <1>5, FS_EmptySet DEF Positions
  <2>4. Permits(0, 0)'
    BY <2>1, <2>2, LayoutAssumption DEF Permits
  <2>5. Semaphores'
    BY <2>4, <1>1, Types DEF Setup, Semaphores, Holds, Inside
  <2> QED
    BY <1>2, <1>3, <1>4, <2>3, <2>5 DEF IInv
<1> QED
  BY <1>6, <1>7 DEF Setup

LEMMA ForkInv == IInv /\ Fork => IInv'
<1> SUFFICES ASSUME IInv, Fork PROVE IInv'
  OBVIOUS
<1> DEFINE child == Children[forked + 1]
<1>1. forked + 1 \in DOMAIN Children /\ forked \in Nat /\ child \in Procs
  BY ProcsAssumption DEF IInv, TypeOK, Fork
<1>2. pc[child] = "unborn" /\ i[child] = 0
  BY <1>1 DEF IInv, Birth, TypeOK, Loops
<1>3. pc'[child] \in {"start", "exit0"} /\ (pc'[child] = "start" => 0 < Count[child])
  BY <1>1 DEF Fork, LoopHead, IInv, TypeOK
<1>4. \A p \in Procs : p # child => pc'[p] = pc[p]
  BY <1>1 DEF Fork, IInv, TypeOK
<1>5. \A p \in Procs : Holds(p)' = Holds(p) /\ Advanced(p)' = Advanced(p)
  BY <1>2, <1>3, <1>4 DEF Holds, Advanced, Inside
<1>6. /\ UNCHANGED <<mainpc, reaped, removed, killed, sem, shm, reg, i, out>>
      /\ forked' = forked + 1
  BY DEF Fork
<1>7. pos_prod' = pos_prod /\ pos_consum' = pos_consum
  BY <1>6 DEF pos_prod, pos_consum
<1>8. TypeOK'
  <2>1. forked' \in 0 .. Len(Children)
    BY <1>1, <1>6, ProcsAssumption DEF IInv, TypeOK, Fork
  <2>2. pc' \in [Procs -> ProcPC]
    BY <1>1, <1>3 DEF Fork, IInv, TypeOK, ProcPC, Exited
  <2> QED
    BY <2>1, <2>2, <1>6 DEF IInv, TypeOK
<1>9. Birth'
  <2>1. mainpc' # "setup" /\ 0 < forked'
    BY <1>1, <1>6 DEF Fork
  <2>2. ASSUME NEW k \in DOMAIN Children, forked' < k
        PROVE  pc'[Children[k]] = "unborn"
    BY <2>2, <1>1, <1>4, <1>6, ProcsAssumption DEF IInv, Birth
  <2> QED
    BY <2>1, <2>2 DEF Birth
<1>10. Loops'
  BY <1>2, <1>3, <1>4, <1>6 DEF IInv, Loops
<1>11. Lock' /\ Positions'
  <2>1. Produced' = Produced
    BY <1>5, <1>6, Types, SameRounds DEF Rounds
  <2> QED
    BY <2>1, <1>5, <1>6, <1>7 DEF IInv, Lock, MutualExclusion, Positions
<1>12. Registers'
  BY <1>3, <1>4, <1>6, <1>7, Types DEF IInv, Registers
<1>13. Semaphores'
  BY <1>5, <1>6, <1>7, Types DEF Fork, IInv, Semaphores, SetUp, Permits
<1> QED
  BY <1>8, <1>9, <1>10, <1>11, <1>12, <1>13 DEF IInv

(* The steps of main, and of the environment, that leave all the children  *)
(* and everything they share as it was.                                    *)
LEMMA QuietInv ==
  ASSUME IInv,
         \/ ForkFails \/ AllForked \/ Wait \/ MainExit \/ RemoveSet
         \/ \E p \in Procs : Kill(p)
         \/ UNCHANGED vars
  PROVE  IInv'
<1>1. /\ UNCHANGED <<forked, sem, shm, pc, reg, i, out>>
      /\ mainpc' # mainpc => mainpc # "setup" /\ mainpc' \in {"wait", "exit0", "exit1"}
      /\ reaped' \subseteq Procs /\ removed' \in BOOLEAN /\ killed' \subseteq Procs
  BY DEF ForkFails, AllForked, Wait, MainExit, RemoveSet, Kill, vars, main, IInv, TypeOK
<1>2. TypeOK' /\ Birth' /\ Loops'
  BY <1>1 DEF IInv, TypeOK, MainPC, Birth, Loops
<1>3. Lock' /\ Registers' /\ pos_prod' = pos_prod /\ pos_consum' = pos_consum
  BY <1>1 DEF IInv, Lock, MutualExclusion, Holds, Registers, pos_prod, pos_consum
<1>4. Positions'
  <2>1. Produced' = Produced
    BY <1>1, SameRounds DEF Rounds, Advanced
  <2> QED
    BY <2>1, <1>3 DEF IInv, Positions
<1>5. Semaphores'
  <2>1. SetUp' => SetUp
    BY <1>1 DEF SetUp
  <2> QED
    BY <2>1, <1>1, <1>3 DEF IInv, Semaphores, Permits, Holds, Advanced
<1> QED
  BY <1>2, <1>3, <1>4, <1>5 DEF IInv

-----------------------------------------------------------------------------
(* The first semop() of a round: it succeeds only when nobody has the      *)
(* buffer.                                                                 *)
LEMMA StartInv ==
  ASSUME IInv, NEW p \in Procs, NEW op,
         \/ p \in Producers /\ op = prod_start
         \/ p \in Consumers /\ op = consum_start,
         UNCHANGED killed,
         Start(p, op) \/ SemopInterrupted(p, op)
  PROVE  IInv'
<1> USE Types
<1>1. /\ UNCHANGED <<mainpc, forked, reaped, removed, killed, shm, reg, i, out>>
      /\ pc[p] = "start" /\ ~Holds(p) /\ ~Advanced(p)
      /\ \A q \in Procs : q # p => pc'[q] = pc[q]
  BY DEF Start, SemopInterrupted, main, Semop, SemopFails, IInv, TypeOK,
         Holds, Advanced, Inside
<1>2. pos_prod' = pos_prod /\ pos_consum' = pos_consum /\ 0 < forked /\ SetUp
      /\ SetUp'
  BY <1>1 DEF pos_prod, pos_consum, IInv, Birth, SetUp
<1>3. \A q \in Procs : q # p => Holds(q)' = Holds(q) /\ Advanced(q)' = Advanced(q)
  BY <1>1 DEF Holds, Advanced
<1>4. CASE Semop(p, op, "access")
  <2>1. pc'[p] = "access" /\ Holds(p)' /\ ~Advanced(p)'
    BY <1>4 DEF Semop, IInv, TypeOK, Holds, Advanced, Inside
  <2>2. /\ \A s \in Sems : sem'[s] = sem[s] + op[s] /\ sem'[s] \in Nat
        /\ sem' \in [Sems -> Nat]
    BY <1>4 DEF Semop, IInv, TypeOK, prod_start, consum_start, Sems
  <2>3. sem["SB"] = 1 /\ sem'["SB"] = 0
    BY <2>2 DEF IInv, TypeOK, Lock, prod_start, consum_start, Sems
  <2>4. \A q \in Procs : ~Holds(q)
    BY <2>3 DEF IInv, Lock
  <2>5. TypeOK'
    BY <1>1, <1>4, <2>2 DEF IInv, TypeOK, Semop, ProcPC, Inside
  <2>6. Birth' /\ Loops' /\ Registers'
    BY <1>1, <1>2, <2>1, ProcsAssumption DEF IInv, Birth, Loops, Registers
  <2>7. Lock'
    BY <1>3, <2>1, <2>3, <2>4 DEF Lock, MutualExclusion
  <2>8. Positions'
    <3>1. Produced' = Produced
      BY <1>1, <1>3, <2>1, SameRounds DEF Rounds
    <3> QED
      BY <3>1, <1>2 DEF IInv, Positions
  <2>9. Semaphores'
    <3>1. Permits(0, 0)
      BY <1>2, <2>4 DEF IInv, Semaphores
    <3>2. pos_prod \in Int /\ pos_consum \in Int /\ sem \in [Sems -> Nat]
      BY Layout DEF pos_prod, pos_consum, IInv, TypeOK
    <3>3. IF p \in Producers THEN Permits(0, 1)' ELSE Permits(1, 0)'
      BY <3>1, <3>2, <1>2, <2>2, LayoutAssumption, ProcsAssumption
         DEF Permits, prod_start, consum_start, Sems
    <3> QED
      BY <3>3, <1>3, <2>1, <2>4, ProcsAssumption DEF Semaphores
  <2> QED
    BY <2>5, <2>6, <2>7, <2>8, <2>9 DEF IInv
<1>5. CASE SemopFails(p, "exit1_start") \/ SemopInterrupted(p, op)
  <2>1. pc'[p] = "exit1_start" /\ ~Holds(p)' /\ ~Advanced(p)' /\ sem' = sem
    BY <1>5 DEF SemopFails, SemopInterrupted, IInv, TypeOK, Holds, Advanced, Inside
  <2>2. TypeOK'
    BY <1>1, <1>5 DEF IInv, TypeOK, SemopFails, SemopInterrupted, ProcPC, Exited
  <2>3. Birth' /\ Loops' /\ Registers'
    BY <1>1, <1>2, <2>1, ProcsAssumption DEF IInv, Birth, Loops, Registers
  <2>4. Lock'
    BY <1>1, <1>3, <2>1 DEF IInv, Lock, MutualExclusion
  <2>5. Positions'
    <3>1. Produced' = Produced
      BY <1>1, <1>3, <2>1, SameRounds DEF Rounds
    <3> QED
      BY <3>1, <1>2 DEF IInv, Positions
  <2>6. Semaphores'
    BY <1>1, <1>2, <1>3, <2>1 DEF IInv, Semaphores, Permits
  <2> QED
    BY <2>2, <2>3, <2>4, <2>5, <2>6 DEF IInv
<1> QED
  BY <1>4, <1>5 DEF Start

(* The steps between the two semop() calls that change nothing but local   *)
(* state: the load of the position, and a consumer's access.               *)
LEMMA LocalInv ==
  ASSUME IInv, NEW p \in Procs,
         \/ p \in Producers /\ Load(p, shm_pos_prod)
         \/ p \in Consumers /\ Load(p, shm_pos_consum)
         \/ p \in Consumers /\ Consume(p),
         UNCHANGED killed
  PROVE  IInv'
<1> USE Types
<1>1. /\ UNCHANGED <<mainpc, forked, reaped, removed, killed, sem, shm, i>>
      /\ pc[p] \in {"access", "load"}
      /\ pc' \in [Procs -> ProcPC] /\ pc'[p] \in {"load", "store"}
      /\ \A q \in Procs : q # p => pc'[q] = pc[q]
  BY DEF Load, Consume, main, IInv, TypeOK, ProcPC, Inside
<1>2. pos_prod' = pos_prod /\ pos_consum' = pos_consum
  BY <1>1 DEF pos_prod, pos_consum
<1>3. \A q \in Procs : Holds(q)' = Holds(q) /\ Advanced(q)' = Advanced(q)
  BY <1>1 DEF Holds, Advanced, Inside
<1>4. TypeOK'
  <2>1. reg' \in [Procs -> Int]
    BY Layout DEF Load, Consume, IInv, TypeOK
  <2>2. out' \in [Consumers -> Seq(Int)]
    <3>1. CASE Consume(p) /\ p \in Consumers
      <4>1. pos_consum < pos_prod
        BY <3>1, Bounds DEF Consume, Holds, Advanced, Inside
      <4>2. pos_consum \in 0 .. N - 1
        BY <4>1, Bounds, LayoutAssumption DEF IInv, Positions
      <4>3. shm[shm_buffer + pos_consum] \in Int
        BY <4>2, Layout DEF IInv, TypeOK
      <4> QED
        BY <3>1, <4>3 DEF Consume, IInv, TypeOK, pos_consum
    <3>2. CASE out' = out
      BY <3>2 DEF IInv, TypeOK
    <3> QED
      BY <3>1, <3>2 DEF Load
  <2> QED
    BY <1>1, <2>1, <2>2 DEF IInv, TypeOK
<1>5. Birth' /\ Loops'
  BY <1>1, ProcsAssumption DEF IInv, Birth, Loops
<1>6. Registers'
  <2>1. \A q \in Procs : q # p => reg'[q] = reg[q]
    BY DEF Load, Consume, IInv, TypeOK
  <2>2. p \in Producers /\ pc'[p] = "store" => reg'[p] = pos_prod
    BY <1>1, ProcsAssumption DEF Load, Consume, IInv, TypeOK, pos_prod
  <2>3. p \in Consumers /\ pc'[p] = "store" => reg'[p] = pos_consum
    BY <1>1, ProcsAssumption DEF Load, Consume, IInv, TypeOK, pos_consum
  <2> QED
    BY <2>1, <2>2, <2>3, <1>1, <1>2 DEF IInv, Registers
<1>7. Lock' /\ Positions'
  <2>1. Produced' = Produced
    BY <1>1, <1>3, SameRounds DEF Rounds
  <2> QED
    BY <2>1, <1>1, <1>2, <1>3 DEF IInv, Lock, MutualExclusion, Positions
<1>8. Semaphores'
  BY <1>1, <1>2, <1>3 DEF IInv, Semaphores, SetUp, Permits
<1> QED
  BY <1>4, <1>5, <1>6, <1>7, <1>8 DEF IInv

(* A producer's write goes to the slot at its position, which is neither   *)
(* of the two positions themselves.                                        *)
LEMMA ProduceInv ==
  ASSUME IInv, NEW p \in Producers, Produce(p), UNCHANGED killed
  PROVE  IInv'
<1> USE Types
<1> DEFINE slot == shm_buffer + pos_prod
<1>1. /\ UNCHANGED <<mainpc, forked, reaped, removed, killed, sem, reg, i, out>>
      /\ pc[p] = "access" /\ pc'[p] = "load"
      /\ \A q \in Procs : q # p => pc'[q] = pc[q]
  BY DEF Produce, main, IInv, TypeOK
<1>2. pos_prod \in 0 .. N - 1
  BY <1>1, Bounds, LayoutAssumption DEF Holds, Advanced, Inside
<1>3. slot \in Addr /\ slot # shm_pos_prod /\ slot # shm_pos_consum
  BY <1>2, Layout
<1>4. pos_prod' = pos_prod /\ pos_consum' = pos_consum
  BY <1>3, Layout DEF Produce, IInv, TypeOK, pos_prod, pos_consum
<1>5. \A q \in Procs : Holds(q)' = Holds(q) /\ Advanced(q)' = Advanced(q)
  BY <1>1 DEF Holds, Advanced, Inside
<1>6. TypeOK'
  <2>1. Base[p] + i[p] \in Int
    BY CountAssumption DEF IInv, TypeOK
  <2>2. shm' \in [Addr -> Int]
    BY <2>1 DEF Produce, IInv, TypeOK
  <2>3. pc' \in [Procs -> ProcPC]
    BY DEF Produce, IInv, TypeOK, ProcPC, Inside
  <2> QED
    BY <2>2, <2>3, <1>1 DEF IInv, TypeOK
<1>7. Birth' /\ Loops' /\ Registers'
  BY <1>1, <1>4, ProcsAssumption DEF IInv, Birth, Loops, Registers
<1>8. Lock' /\ Positions'
  <2>1. Produced' = Produced
    BY <1>1, <1>5, SameRounds DEF Rounds
  <2> QED
    BY <2>1, <1>1, <1>4, <1>5 DEF IInv, Lock, MutualExclusion, Positions
<1>9. Semaphores'
  BY <1>1, <1>4, <1>5 DEF IInv, Semaphores, SetUp, Permits
<1> QED
  BY <1>6, <1>7, <1>8, <1>9 DEF IInv

(* The store of a position: nobody has changed it since it was loaded, so  *)
(* it advances by one.                                                     *)
LEMMA StoreInv ==
  ASSUME IInv, NEW p \in Procs, NEW pos,
         \/ p \in Producers /\ pos = shm_pos_prod
         \/ p \in Consumers /\ pos = shm_pos_consum,
         Store(p, pos), UNCHANGED killed
  PROVE  IInv'
<1> USE Types
<1>1. /\ UNCHANGED <<mainpc, forked, reaped, removed, killed, sem, reg, i, out>>
      /\ pc[p] = "store" /\ pc'[p] = "stop"
      /\ \A q \in Procs : q # p => pc'[q] = pc[q]
  BY DEF Store, main, IInv, TypeOK
<1>2. \A q \in Procs : /\ Holds(q)' = Holds(q)
                       /\ q # p => Advanced(q)' = Advanced(q)
  BY <1>1 DEF Holds, Advanced, Inside
<1>3. Holds(p) /\ ~Advanced(p) /\ Advanced(p)' /\ \A q \in Procs : q # p => ~Holds(q)
  BY <1>1 DEF IInv, Lock, MutualExclusion, Holds, Advanced, Inside
<1>4. pos_prod \in Int /\ pos_consum \in Int /\ sem \in [Sems -> Nat]
  BY Layout DEF pos_prod, pos_consum, IInv, TypeOK
<1>5. p \in Producers => pos_prod' = pos_prod + 1 /\ pos_consum' = pos_consum
  BY <1>1, Layout, ProcsAssumption
     DEF Store, IInv, TypeOK, Registers, pos_prod, pos_consum
<1>6. p \in Consumers => pos_prod' = pos_prod /\ pos_consum' = pos_consum + 1
  BY <1>1, Layout, ProcsAssumption
     DEF Store, IInv, TypeOK, Registers, pos_prod, pos_consum
<1>7. TypeOK'
  <2>1. reg[p] + 1 \in Int
    BY DEF IInv, TypeOK
  <2>2. shm' \in [Addr -> Int]
    BY <2>1, Layout DEF Store, IInv, TypeOK
  <2>3. pc' \in [Procs -> ProcPC]
    BY DEF Store, IInv, TypeOK, ProcPC, Inside
  <2> QED
    BY <2>2, <2>3, <1>1 DEF IInv, TypeOK
<1>8. Birth' /\ Loops' /\ Lock'
  BY <1>1, <1>2, ProcsAssumption DEF IInv, Birth, Loops, Lock, MutualExclusion
<1>9. Registers'
  <2>1. \A q \in Procs : q # p => pc'[q] # "store"
    BY <1>1, <1>3 DEF Holds, Inside
  <2> QED
    BY <2>1, <1>1 DEF Registers
<1>10. Positions'
  <2>1. CASE p \in Producers
    <3>1. i[p] \in Nat /\ Rounds(p) = i[p] /\ Rounds(p)' = i[p] + 1
      BY <1>1, <1>3 DEF Rounds, IInv, TypeOK
    <3>2. \A q \in Producers : q # p => Rounds(q)' = Rounds(q)
      BY <1>1, <1>2 DEF Rounds
    <3>3. Produced' = Produced \cup {<<p, i[p]>>}
      BY <3>1, <3>2, <2>1 DEF Produced
    <3>4. <<p, i[p]>> \notin Produced
      BY <3>1 DEF Produced
    <3> QED
      BY <3>3, <3>4, <1>5, <2>1, Bounds, FS_AddElement DEF IInv, Positions
  <2>2. CASE p \in Consumers
    <3>1. Produced' = Produced
      BY <1>1, <1>2, <2>2, ProcsAssumption, SameRounds DEF Rounds
    <3> QED
      BY <3>1, <1>6, <2>2 DEF IInv, Positions
  <2> QED
    BY <2>1, <2>2
<1>11. Semaphores'
  <2>1. p \in Producers => Permits(1, 0)'
    BY <1>1, <1>3, <1>4, <1>5, LayoutAssumption DEF IInv, Semaphores, Permits, Sems
  <2>2. p \in Consumers => Permits(0, 1)'
    BY <1>1, <1>3, <1>4, <1>6, LayoutAssumption DEF IInv, Semaphores, Permits, Sems
  <2> QED
    BY <2>1, <2>2, <1>2, <1>3, ProcsAssumption DEF Semaphores
<1> QED
  BY <1>7, <1>8, <1>9, <1>10, <1>11 DEF IInv

(* The second semop() of a round gives the buffer back and passes on the   *)
(* slot; if it fails the process dies with the buffer.                     *)
LEMMA StopInv ==
  ASSUME IInv, NEW p \in Procs, NEW op,
         \/ p \in Producers /\ op = prod_stop
         \/ p \in Consumers /\ op = consum_stop,
         Stop(p, op), UNCHANGED killed
  PROVE  IInv'
<1> USE Types
<1>1. /\ UNCHANGED <<mainpc, forked, reaped, removed, killed, shm, reg, out>>
      /\ pc[p] = "stop" /\ Holds(p) /\ Advanced(p)
      /\ \A q \in Procs : q # p => pc'[q] = pc[q] /\ i'[q] = i[q]
  BY DEF Stop, main, Semop, SemopFails, IInv, TypeOK, Holds, Advanced, Inside
<1>2. pos_prod' = pos_prod /\ pos_consum' = pos_consum /\ 0 < forked
  BY <1>1 DEF pos_prod, pos_consum, IInv, Birth
<1>3. \A q \in Procs : q # p => /\ ~Holds(q) /\ ~Holds(q)'
                                /\ Advanced(q)' = Advanced(q)
  BY <1>1 DEF IInv, Lock, MutualExclusion, Holds, Advanced
<1>4. i[p] \in Nat /\ Count[p] \in Nat /\ i[p] < Count[p]
  BY <1>1 DEF IInv, TypeOK, Loops
<1>5. CASE Semop(p, op, LoopHead(p, i[p] + 1)) /\ i' = [i EXCEPT ![p] = @ + 1]
  <2>1. /\ pc'[p] \in {"start", "exit0"} /\ i'[p] = i[p] + 1
        /\ pc'[p] = "start" => i'[p] < Count[p]
        /\ ~Holds(p)' /\ ~Advanced(p)'
    BY <1>4, <1>5 DEF Semop, LoopHead, IInv, TypeOK, Holds, Advanced, Inside
  <2>2. /\ \A s \in Sems : sem'[s] = sem[s] + op[s] /\ sem'[s] \in Nat
        /\ sem' \in [Sems -> Nat]
    BY <1>5 DEF Semop, IInv, TypeOK, prod_stop, consum_stop, Sems
  <2>3. sem'["SB"] = 1
    BY <2>2, <1>1 DEF IInv, TypeOK, Lock, prod_stop, consum_stop, Sems
  <2>4. TypeOK'
    BY <1>1, <1>4, <1>5, <2>1, <2>2 DEF IInv, TypeOK, Semop, ProcPC, Exited
  <2>5. Birth'
    BY <1>1, <1>2, ProcsAssumption DEF IInv, Birth
  <2>6. Loops' /\ Registers'
    BY <1>1, <1>2, <1>4, <2>1, ProcsAssumption DEF IInv, Loops, Registers
  <2>7. Lock'
    BY <1>3, <2>1, <2>3 DEF Lock, MutualExclusion
  <2>8. Positions'
    <3>1. Produced' = Produced
      BY <1>1, <1>3, <1>4, <2>1, SameRounds DEF Rounds
    <3> QED
      BY <3>1, <1>2 DEF IInv, Positions
  <2>9. Semaphores'
    <3>1. pos_prod \in Int /\ pos_consum \in Int /\ sem \in [Sems -> Nat]
      BY Layout DEF pos_prod, pos_consum, IInv, TypeOK
    <3>2. IF p \in Producers THEN Permits(1, 0) ELSE Permits(0, 1)
      BY <1>1, ProcsAssumption DEF IInv, Semaphores
    <3>3. Permits(0, 0)'
      BY <3>1, <3>2, <1>2, <2>2, LayoutAssumption, ProcsAssumption
         DEF Permits, prod_stop, consum_stop, Sems
    <3> QED
      BY <3>3, <1>3, <2>1 DEF Semaphores
  <2> QED
    BY <2>4, <2>5, <2>6, <2>7, <2>8, <2>9 DEF IInv
<1>6. CASE SemopFails(p, "exit1_stop") /\ UNCHANGED i
  <2>1. /\ pc'[p] = "exit1_stop" /\ Holds(p)' /\ Advanced(p)'
        /\ UNCHANGED <<sem, i>> /\ pc' \in [Procs -> ProcPC]
    BY <1>6 DEF SemopFails, IInv, TypeOK, Holds, Advanced, Inside, ProcPC, Exited
  <2>2. TypeOK' /\ Birth' /\ Loops' /\ Registers'
    BY <1>1, <1>2, <1>4, <2>1, ProcsAssumption
       DEF IInv, TypeOK, Birth, Loops, Registers
  <2>3. Lock' /\ Positions'
    <3>1. Produced' = Produced
      BY <1>1, <1>3, <2>1, SameRounds DEF Rounds
    <3> QED
      BY <3>1, <1>1, <1>2, <1>3, <2>1 DEF IInv, Lock, MutualExclusion, Positions
  <2>4. Semaphores'
    BY <1>1, <1>2, <1>3, <2>1 DEF IInv, Semaphores, Permits
  <2> QED
    BY <2>2, <2>3, <2>4 DEF IInv
<1> QED
  BY <1>5, <1>6 DEF Stop

-----------------------------------------------------------------------------
LEMMA NextInv == IInv /\ [Next]_vars => IInv'
<1> SUFFICES ASSUME IInv, [Next]_vars PROVE IInv'
  OBVIOUS
<1>1. CASE Main
  BY <1>1, SetupInv, ForkInv, QuietInv DEF Main
<1>2. ASSUME NEW p \in Producers, prod(p) PROVE IInv'
  <2>1. p \in Procs
    BY Types
  <2> QED
    BY <1>2, <2>1, StartInv, ProduceInv, LocalInv, StoreInv, StopInv DEF prod
<1>3. ASSUME NEW c \in Consumers, consum(c) PROVE IInv'
  <2>1. c \in Procs
    BY Types
  <2> QED
    BY <1>3, <2>1, StartInv, LocalInv, StoreInv, StopInv DEF consum
<1>4. CASE RemoveSet \/ (\E p \in Procs : Kill(p)) \/ UNCHANGED vars
  BY <1>4, QuietInv
<1>5. ASSUME NEW p \in Procs,
             \/ p \in Producers /\ SemopInterrupted(p, prod_start)
             \/ p \in Consumers /\ SemopInterrupted(p, consum_start)
      PROVE  IInv'
  <2>1. UNCHANGED killed
    BY <1>5 DEF SemopInterrupted
  <2> QED
    BY <1>5, <2>1, StartInv
<1> QED
  BY <1>1, <1>2, <1>3, <1>4, <1>5, Types DEF Next, Environment

THEOREM Invariance == Spec => []IInv
<1> QED
  BY InitInv, NextInv, PTL DEF Spec

(* The variables of the program keep their types: in particular no         *)
(* semaphore ever becomes negative and no access leaves the segment.       *)
THEOREM TypeCorrect == Spec => []TypeOK
<1>1. IInv => TypeOK
  BY DEF IInv
<1> QED
  BY <1>1, Invariance, PTL

(* Any number of producers and consumers exclude each other between their  *)
(* semop() calls, also when some of them die there.                        *)
THEOREM Exclusion == Spec => []MutualExclusion
<1>1. IInv => MutualExclusion
  BY DEF IInv, Lock
<1> QED
  BY <1>1, Invariance, PTL

(* No value is written outside the buffer or over an unread one, and none  *)
(* is read before it is there: every producer and consumer of prod() and   *)
(* consum(), for every N that is at least the number of items.             *)
THEOREM SafeSlots == Spec => []SlotsAreSafe
<1>1. IInv => SlotsAreSafe
  <2> SUFFICES ASSUME IInv PROVE SlotsAreSafe
    OBVIOUS
  <2>1. ASSUME NEW p \in Producers, pc[p] = "access"
        PROVE  pos_consum <= pos_prod /\ pos_prod < N /\ shm_buffer + pos_prod \in Addr
    <3>1. pos_consum <= pos_prod /\ pos_prod < N /\ pos_prod \in Nat
      BY <2>1, Bounds DEF Holds, Advanced, Inside
    <3> QED
      BY <3>1, Layout, LayoutAssumption
  <2>2. ASSUME NEW c \in Consumers, pc[c] = "access"
        PROVE  0 <= pos_consum /\ pos_consum < pos_prod
    BY <2>2, Bounds DEF Holds, Advanced, Inside, IInv, Positions
  <2> QED
    BY <2>1, <2>2 DEF SlotsAreSafe
<1> QED
  BY <1>1, Invariance, PTL

(* The semaphores count the filled and the empty slots exactly, whoever is *)
(* half way through an operation.                                          *)
THEOREM CountingIsExact == Spec => []SemaphoresMatchPositions
<1>1. IInv => SemaphoresMatchPositions
  <2> SUFFICES ASSUME IInv, SetUp PROVE SemaphoresMatchPositions
    BY DEF SemaphoresMatchPositions
  <2>1. pos_prod \in Int /\ pos_consum \in Int /\ sem \in [Sems -> Nat]
    BY Layout DEF pos_prod, pos_consum, IInv, TypeOK
  <2>2. \A p \in Procs : Holds(p) => \A q \in Procs : Holds(q) => q = p
    BY DEF IInv, Lock, MutualExclusion
  <2>0. Cardinality({}) = 0 /\ \A p : Cardinality({p}) = 1
    BY FS_EmptySet, FS_Singleton
  <2>3. CASE \A p \in Procs : ~Holds(p)
    <3>1. Before(Producers) = {} /\ After(Producers) = {}
          /\ Before(Consumers) = {} /\ After(Consumers) = {}
      BY <2>3, Types DEF Before, After
    <3>2. Permits(0, 0)
      BY <2>3 DEF IInv, Semaphores
    <3> QED
      BY <2>0, <2>1, <3>1, <3>2, LayoutAssumption
         DEF SemaphoresMatchPositions, Permits, Sems
  <2>4. ASSUME NEW p \in Producers, Holds(p) PROVE SemaphoresMatchPositions
    <3>1. Before(Consumers) = {} /\ After(Consumers) = {}
      BY <2>2, <2>4, Types, ProcsAssumption DEF Before, After
    <3>2. CASE Advanced(p)
      <4>1. Before(Producers) = {} /\ After(Producers) = {p}
        BY <2>2, <2>4, <3>2, Types DEF Before, After
      <4>2. Permits(1, 0)
        BY <2>4, <3>2 DEF IInv, Semaphores
      <4>3. /\ Cardinality(Before(Producers)) = 0 /\ Cardinality(After(Producers)) = 1
            /\ Cardinality(Before(Consumers)) = 0 /\ Cardinality(After(Consumers)) = 0
        BY <2>0, <3>1, <4>1
      <4> QED
        BY <2>1, <4>2, <4>3, LayoutAssumption
           DEF SemaphoresMatchPositions, Permits, Sems
    <3>3. CASE ~Advanced(p)
      <4>1. Before(Producers) = {p} /\ After(Producers) = {}
        BY <2>2, <2>4, <3>3, Types DEF Before, After
      <4>2. Permits(0, 1)
        BY <2>4, <3>3 DEF IInv, Semaphores
      <4>3. /\ Cardinality(Before(Producers)) = 1 /\ Cardinality(After(Producers)) = 0
            /\ Cardinality(Before(Consumers)) = 0 /\ Cardinality(After(Consumers)) = 0
        BY <2>0, <3>1, <4>1
      <4> QED
        BY <2>1, <4>2, <4>3, LayoutAssumption
           DEF SemaphoresMatchPositions, Permits, Sems
    <3> QED
      BY <3>2, <3>3
  <2>5. ASSUME NEW c \in Consumers, Holds(c) PROVE SemaphoresMatchPositions
    <3>1. Before(Producers) = {} /\ After(Producers) = {}
      BY <2>2, <2>5, Types, ProcsAssumption DEF Before, After
    <3>2. CASE Advanced(c)
      <4>1. Before(Consumers) = {} /\ After(Consumers) = {c}
        BY <2>2, <2>5, <3>2, Types DEF Before, After
      <4>2. Permits(0, 1)
        BY <2>5, <3>2 DEF IInv, Semaphores
      <4>3. /\ Cardinality(Before(Consumers)) = 0 /\ Cardinality(After(Consumers)) = 1
            /\ Cardinality(Before(Producers)) = 0 /\ Cardinality(After(Producers)) = 0
        BY <2>0, <3>1, <4>1
      <4> QED
        BY <2>1, <4>2, <4>3, LayoutAssumption
           DEF SemaphoresMatchPositions, Permits, Sems
    <3>3. CASE ~Advanced(c)
      <4>1. Before(Consumers) = {c} /\ After(Consumers) = {}
        BY <2>2, <2>5, <3>3, Types DEF Before, After
      <4>2. Permits(1, 0)
        BY <2>5, <3>3 DEF IInv, Semaphores
      <4>3. /\ Cardinality(Before(Consumers)) = 1 /\ Cardinality(After(Consumers)) = 0
            /\ Cardinality(Before(Producers)) = 0 /\ Cardinality(After(Producers)) = 0
        BY <2>0, <3>1, <4>1
      <4> QED
        BY <2>1, <4>2, <4>3, LayoutAssumption
           DEF SemaphoresMatchPositions, Permits, Sems
    <3> QED
      BY <3>2, <3>3
  <2> QED
    BY <2>3, <2>4, <2>5, Types
<1> QED
  BY <1>1, Invariance, PTL

-----------------------------------------------------------------------------
(***************************************************************************)
(* ProdCons implements BoundedBuffer: every step of the program is a Put,  *)
(* a Get or invisible.  A value enters the buffer when the producer stores *)
(* *shm_pos_prod and leaves it when a consumer prints it, which is before  *)
(* the consumer stores *shm_pos_consum; Taken accounts for the difference. *)
(***************************************************************************)
(* Between writing its slot and giving the buffer back, a producer's value *)
(* is in that slot.                                                        *)
Content == \A p \in Producers : pc[p] \in {"load", "store"} =>
              shm[shm_buffer + pos_prod] = Base[p] + i[p]

(* A consumer has printed one value per finished round, plus the one of a  *)
(* round it has not finished.                                              *)
Printed == \A c \in Consumers :
              Len(out[c]) = i[c] + IF pc[c] \in {"load", "store", "stop", "exit1_stop"}
                                   THEN 1 ELSE 0

RInv == IInv /\ Content /\ Printed

Taking == {c \in Consumers : pc[c] \in {"load", "store"}}

-----------------------------------------------------------------------------
LEMMA TakenValue ==
  ASSUME IInv
  PROVE  /\ Taking = {} => Taken = pos_consum
         /\ Taking # {} => Taken = pos_consum + 1
<1>1. Cardinality({}) = 0 /\ \A c : Cardinality({c}) = 1
  BY FS_EmptySet, FS_Singleton
<1>2. pos_consum \in Nat
  BY DEF IInv, Positions
<1>3. Taken = pos_consum + Cardinality(Taking)
  BY DEF Taken, Taking
<1>4. ASSUME NEW c \in Taking PROVE Taking = {c}
  BY <1>4, Types DEF Taking, IInv, Lock, MutualExclusion, Holds, Inside
<1>5. CASE Taking = {}
  BY <1>1, <1>2, <1>3, <1>5
<1>6. CASE Taking # {}
  <2>1. PICK c \in Taking : Taking = {c}
    BY <1>4, <1>6
  <2>2. Cardinality(Taking) = 1
    BY <1>1, <2>1
  <2> QED
    BY <1>3, <1>6, <2>2
<1> QED
  BY <1>5, <1>6

LEMMA TakenRange ==
  ASSUME IInv
  PROVE  /\ Taken \in Nat
         /\ SetUp => Taken <= pos_prod
         /\ pos_prod \in 0 .. N
<1>1. pos_consum \in Nat /\ pos_prod \in 0 .. N
  BY Bounds DEF IInv, Positions
<1>2. sem \in [Sems -> Nat]
  BY DEF IInv, TypeOK
<1>3. SetUp => pos_consum <= pos_prod
  <2>1. CASE \A p \in Procs : ~Holds(p)
    BY <1>1, <1>2, <2>1, LayoutAssumption DEF IInv, Semaphores, Permits, Sems
  <2>2. ASSUME NEW p \in Producers, Holds(p) PROVE pos_consum <= pos_prod
    BY <1>1, <1>2, <2>2, LayoutAssumption DEF IInv, Semaphores, Permits, Sems
  <2>3. ASSUME NEW c \in Consumers, Holds(c) PROVE pos_consum <= pos_prod
    BY <1>1, <1>2, <2>3, LayoutAssumption DEF IInv, Semaphores, Permits, Sems
  <2> QED
    BY <2>1, <2>2, <2>3, Types
<1>4. Taking # {} => pos_consum < pos_prod
  BY Bounds, Types DEF Taking, Holds, Advanced, Inside
<1> QED
  BY <1>1, <1>3, <1>4, TakenValue, LayoutAssumption

(* The abstract queue is unchanged when its bounds and its slots are.      *)
LEMMA SameQueue ==
  ASSUME IInv, Taken' = Taken, pos_prod' = pos_prod,
         \A k \in Nat : k < pos_prod => shm'[shm_buffer + k] = shm[shm_buffer + k]
  PROVE  Queue' = Queue
<1>1. pos_prod \in Nat /\ Taken \in Nat
  BY TakenRange, LayoutAssumption
<1>2. \A k \in 1 .. pos_prod - Taken :
         shm'[shm_buffer + Taken + k - 1] = shm[shm_buffer + Taken + k - 1]
  <2> TAKE k \in 1 .. pos_prod - Taken
  <2>1. Taken + k - 1 \in Nat /\ Taken + k - 1 < pos_prod
    BY <1>1
  <2>2. shm_buffer + Taken + k - 1 = shm_buffer + (Taken + k - 1)
    BY <1>1, LayoutAssumption DEF shm_buffer
  <2> QED
    BY <2>1, <2>2
<1> QED
  BY <1>2 DEF Queue, shm_buffer

LEMMA QueueLength ==
  ASSUME IInv, SetUp
  PROVE  Queue \in Seq(Int) /\ Len(Queue) = pos_prod - Taken
<1>1. pos_prod \in 0 .. N /\ Taken \in 0 .. pos_prod
  BY TakenRange
<1>2. pos_prod - Taken \in Nat
  BY <1>1, LayoutAssumption
<1>3. \A k \in 1 .. pos_prod - Taken : shm[shm_buffer + Taken + k - 1] \in Int
  <2> TAKE k \in 1 .. pos_prod - Taken
  <2>1. Taken + k - 1 \in 0 .. N - 1
    BY <1>1, LayoutAssumption
  <2>2. shm_buffer + Taken + k - 1 = shm_buffer + (Taken + k - 1)
    BY <1>1, LayoutAssumption DEF shm_buffer
  <2> QED
    BY <2>1, <2>2, Layout DEF IInv, TypeOK
<1> QED
  BY <1>2, <1>3 DEF Queue

(* A step that touches neither the queue, nor the rounds, nor the output   *)
(* is a stuttering step of the buffer.                                     *)
LEMMA Invisible ==
  ASSUME Queue' = Queue, out' = out,
         \A p \in Producers : Rounds(p)' = Rounds(p)
  PROVE  UNCHANGED Buffer!vars
BY DEF Buffer!vars, Rounds

LEMMA InitRInv == Init => RInv /\ Buffer!Init
<1> SUFFICES ASSUME Init PROVE RInv /\ Buffer!Init
  OBVIOUS
<1>1. IInv
  BY InitInv
<1>2. Content /\ Printed /\ Taking = {}
  BY Types DEF Init, Content, Printed, Taking
<1>3. pos_prod = 0 /\ Taken = 0
  BY <1>1, <1>2, TakenValue, Layout DEF Init, pos_prod, pos_consum
<1>4. Queue = << >>
  BY <1>3 DEF Queue
<1>5. \A p \in Producers : i[p] = 0 /\ ~Advanced(p)
  BY Types DEF Init, Advanced
<1> QED
  BY <1>1, <1>2, <1>4, <1>5 DEF RInv, Buffer!Init, Init

LEMMA MainSim ==
  ASSUME RInv,
         Main \/ RemoveSet \/ (\E p \in Procs : Kill(p)) \/ UNCHANGED vars
  PROVE  Content' /\ Printed' /\ UNCHANGED Buffer!vars
<1> USE Types
<1>1. /\ UNCHANGED <<i, out>>
      /\ \A p \in Procs : \/ pc'[p] = pc[p]
                          \/ pc[p] = "unborn" /\ pc'[p] \in {"start", "exit0"}
  <2>1. CASE Fork
    <3> DEFINE child == Children[forked + 1]
    <3>1. forked + 1 \in DOMAIN Children /\ child \in Procs
      BY <2>1, ProcsAssumption DEF Fork, RInv, IInv, TypeOK
    <3>2. pc[child] = "unborn"
      BY <3>1 DEF RInv, IInv, Birth, TypeOK
    <3> QED
      BY <2>1, <3>1, <3>2 DEF Fork, LoopHead, RInv, IInv, TypeOK
  <2>2. CASE ~Fork
    BY <2>2 DEF Main, Setup, ForkFails, AllForked, Wait, MainExit, RemoveSet,
                 Kill, vars, main
  <2> QED
    BY <2>1, <2>2
<1>2. /\ Taking' = Taking /\ Printed'
      /\ \A p \in Procs : Holds(p)' = Holds(p) /\ Advanced(p)' = Advanced(p)
  BY <1>1 DEF Taking, RInv, Printed, Holds, Advanced, Inside
<1>3. \A p \in Producers : Rounds(p)' = Rounds(p)
  BY <1>1, <1>2 DEF Rounds
<1>4. IInv /\ IInv'
  BY NextInv DEF RInv, Next, Environment
<1>5. CASE shm' = shm
  <2>1. pos_prod' = pos_prod /\ pos_consum' = pos_consum
    BY <1>5 DEF pos_prod, pos_consum
  <2>2. Taken' = Taken
    BY <1>2, <2>1 DEF Taken, Taking
  <2>3. Queue' = Queue
    BY <1>4, <1>5, <2>1, <2>2, SameQueue
  <2>4. Content'
    BY <1>1, <1>5, <2>1 DEF RInv, Content
  <2> QED
    BY <1>1, <1>2, <1>3, <2>3, <2>4, Invisible
<1>6. CASE Setup
  <2>1. \A p \in Procs : pc[p] = "unborn" /\ pc' = pc
    BY <1>6 DEF Setup, RInv, IInv, Birth, TypeOK
  <2>2. Content' /\ Taking = {} /\ Taking' = {}
    BY <2>1 DEF Content, Taking
  <2>3. i = i' /\ \A p \in Procs : i[p] = 0
    BY <2>1, <1>1 DEF RInv, IInv, Loops
  <2>4. Produced = {} /\ Produced' = {}
    BY <2>1, <2>3 DEF Produced, Rounds, Advanced
  <2>5. pos_prod = 0 /\ pos_prod' = 0
    BY <1>4, <2>4, FS_EmptySet DEF IInv, Positions
  <2>6. Taken \in Nat /\ Taken' \in Nat
    <3>1. Taken = pos_consum + Cardinality(Taking)
      BY DEF Taken, Taking
    <3>2. Taken' = pos_consum' + Cardinality(Taking')
      BY DEF Taken, Taking
    <3> QED
      BY <3>1, <3>2, <1>4, <2>2, FS_EmptySet DEF IInv, Positions
  <2>7. \A n \in Nat : 1 .. 0 - n = {}
    OBVIOUS
  <2>8. Queue' = Queue
    BY <2>5, <2>6, <2>7 DEF Queue
  <2> QED
    BY <1>1, <1>2, <1>3, <2>2, <2>8, Invisible
<1> QED
  BY <1>5, <1>6
     DEF Main, Fork, ForkFails, AllForked, Wait, MainExit, RemoveSet, Kill, vars

(* semop() and the load of a position are invisible.                       *)
LEMMA SemopSim ==
  ASSUME RInv, NEW p \in Procs,
         \/ \E op : Start(p, op) \/ Stop(p, op) \/ SemopInterrupted(p, op)
         \/ \E pos : Load(p, pos),
         IInv'
  PROVE  Content' /\ Printed' /\ UNCHANGED Buffer!vars
<1> USE Types
<1>1. /\ UNCHANGED <<shm, out>>
      /\ \A q \in Procs : q # p => pc'[q] = pc[q] /\ i'[q] = i[q]
  BY DEF Start, Stop, Load, Semop, SemopFails, SemopInterrupted, RInv, IInv, TypeOK
<1>2. i[p] \in Nat /\ (p \in Consumers => Len(out[p]) \in Nat)
  BY DEF RInv, IInv, TypeOK
<1>3. \/ pc[p] = "start" /\ pc'[p] \in {"access", "exit1_start"} /\ i'[p] = i[p]
      \/ pc[p] = "load" /\ pc'[p] = "store" /\ i'[p] = i[p]
      \/ pc[p] = "stop" /\ pc'[p] \in {"start", "exit0"} /\ i'[p] = i[p] + 1
      \/ pc[p] = "stop" /\ pc'[p] = "exit1_stop" /\ i'[p] = i[p]
  BY DEF Start, Stop, Load, Semop, SemopFails, SemopInterrupted, LoopHead,
         RInv, IInv, TypeOK
<1>4. pos_prod' = pos_prod /\ pos_consum' = pos_consum
  BY <1>1 DEF pos_prod, pos_consum
<1>5. \A q \in Producers : Rounds(q)' = Rounds(q)
  BY <1>1, <1>2, <1>3 DEF Rounds, Advanced
<1>6. Content'
  BY <1>1, <1>3, <1>4 DEF RInv, Content
<1>7. Printed'
  BY <1>1, <1>2, <1>3 DEF RInv, Printed
<1>8. Taken' = Taken
  <2>1. Taking' = Taking
    BY <1>1, <1>3 DEF Taking
  <2> QED
    BY <2>1, <1>4 DEF Taken, Taking
<1>9. Queue' = Queue
  BY <1>1, <1>4, <1>8, SameQueue DEF RInv
<1> QED
  BY <1>1, <1>5, <1>6, <1>7, <1>9, Invisible

(* A producer's write is invisible: the slot is not in the queue yet.      *)
LEMMA ProduceSim ==
  ASSUME RInv, NEW p \in Producers, Produce(p), IInv'
  PROVE  Content' /\ Printed' /\ UNCHANGED Buffer!vars
<1> USE Types
<1>1. /\ UNCHANGED <<i, out>> /\ pc[p] = "access" /\ pc'[p] = "load"
      /\ \A q \in Procs : q # p => pc'[q] = pc[q]
  BY DEF Produce, RInv, IInv, TypeOK
<1>2. pos_prod \in 0 .. N - 1
  <2>1. pos_prod < N /\ pos_prod \in 0 .. N
    BY <1>1, Bounds DEF RInv, Holds, Advanced, Inside
  <2> QED
    BY <2>1, LayoutAssumption
<1>3. /\ shm_buffer + pos_prod \in Addr
      /\ shm_buffer + pos_prod # shm_pos_prod
      /\ shm_buffer + pos_prod # shm_pos_consum
  BY <1>2, Layout
<1>4. shm' = [shm EXCEPT ![shm_buffer + pos_prod] = Base[p] + i[p]]
  BY DEF Produce, pos_prod
<1>5. pos_prod' = pos_prod /\ pos_consum' = pos_consum
  BY <1>3, <1>4, Layout DEF RInv, IInv, TypeOK, pos_prod, pos_consum
<1>6. \A q \in Procs : q # p => ~Holds(q)
  BY <1>1 DEF RInv, IInv, Lock, MutualExclusion, Holds, Inside
<1>7. Content'
  <2>1. shm'[shm_buffer + pos_prod] = Base[p] + i[p]
    BY <1>3, <1>4 DEF RInv, IInv, TypeOK
  <2>2. \A q \in Producers : q # p => pc'[q] \notin {"load", "store"}
    BY <1>1, <1>6 DEF Holds, Inside
  <2> QED
    BY <2>1, <2>2, <1>1, <1>5 DEF Content
<1>8. Printed'
  BY <1>1, ProcsAssumption DEF RInv, Printed
<1>9. Taken' = Taken
  <2>1. Taking' = Taking
    BY <1>1, ProcsAssumption DEF Taking
  <2> QED
    BY <2>1, <1>5 DEF Taken, Taking
<1>10. ASSUME NEW k \in Nat, k < pos_prod
       PROVE  shm'[shm_buffer + k] = shm[shm_buffer + k]
  BY <1>2, <1>4, <1>10, LayoutAssumption DEF RInv, IInv, TypeOK, shm_buffer, Addr
<1>11. Queue' = Queue
  BY <1>5, <1>9, <1>10, SameQueue DEF RInv
<1>12. \A q \in Producers : Rounds(q)' = Rounds(q)
  BY <1>1 DEF Rounds, Advanced
<1> QED
  BY <1>1, <1>7, <1>8, <1>11, <1>12, Invisible

(* A consumer's store moves *shm_pos_consum over a value already taken.    *)
LEMMA ConsumerStoreSim ==
  ASSUME RInv, NEW c \in Consumers, Store(c, shm_pos_consum), IInv'
  PROVE  Content' /\ Printed' /\ UNCHANGED Buffer!vars
<1> USE Types
<1>1. /\ UNCHANGED <<i, out>> /\ pc[c] = "store" /\ pc'[c] = "stop"
      /\ \A q \in Procs : q # c => pc'[q] = pc[q]
  BY DEF Store, RInv, IInv, TypeOK
<1>2. \A q \in Procs : q # c => ~Holds(q)
  BY <1>1 DEF RInv, IInv, Lock, MutualExclusion, Holds, Inside
<1>3. pos_prod' = pos_prod /\ pos_consum' = pos_consum + 1
  BY <1>1, Layout DEF Store, RInv, IInv, TypeOK, Registers, pos_prod, pos_consum
<1>4. Content'
  BY <1>1, <1>2, ProcsAssumption DEF Content, Holds, Inside
<1>5. Printed'
  BY <1>1 DEF RInv, Printed
<1>6. Taken' = Taken
  <2>1. Taking' = {} /\ Taking # {}
    BY <1>1, <1>2 DEF Taking, Holds, Inside
  <2>2. Taken = pos_consum + 1
    BY <2>1, TakenValue DEF RInv
  <2>3. Taken' = pos_consum' + Cardinality(Taking')
    BY DEF Taken, Taking
  <2>4. pos_consum' \in Nat
    BY DEF IInv, Positions
  <2> QED
    BY <2>1, <2>2, <2>3, <2>4, <1>3, FS_EmptySet
<1>7. ASSUME NEW k \in Nat, k < pos_prod
      PROVE  shm'[shm_buffer + k] = shm[shm_buffer + k]
  <2>1. k \in 0 .. N - 1
    <3>1. pos_prod \in 0 .. N
      BY Bounds DEF RInv
    <3> QED
      BY <3>1, <1>7, LayoutAssumption
  <2> QED
    BY <2>1, Layout DEF Store, RInv, IInv, TypeOK
<1>8. Queue' = Queue
  BY <1>3, <1>6, <1>7, SameQueue DEF RInv
<1>9. \A q \in Producers : Rounds(q)' = Rounds(q)
  BY <1>1, ProcsAssumption DEF Rounds, Advanced
<1> QED
  BY <1>1, <1>4, <1>5, <1>8, <1>9, Invisible

(* A producer's store of its position is the buffer's Put.                 *)
LEMMA ProducerStoreSim ==
  ASSUME RInv, NEW p \in Producers, Store(p, shm_pos_prod), IInv'
  PROVE  Content' /\ Printed' /\ Buffer!Put(p)
<1> USE Types
<1>1. /\ UNCHANGED <<i, out>> /\ pc[p] = "store" /\ pc'[p] = "stop"
      /\ \A q \in Procs : q # p => pc'[q] = pc[q]
  BY DEF Store, RInv, IInv, TypeOK
<1>2. Holds(p) /\ ~Advanced(p) /\ Advanced(p)' /\ \A q \in Procs : q # p => ~Holds(q)
  BY <1>1 DEF RInv, IInv, Lock, MutualExclusion, Holds, Advanced, Inside
<1>3. pos_prod' = pos_prod + 1 /\ pos_consum' = pos_consum
  BY <1>1, Layout DEF Store, RInv, IInv, TypeOK, Registers, pos_prod, pos_consum
<1>4. Content'
  BY <1>1, <1>2 DEF Content, Holds, Inside
<1>5. Printed'
  BY <1>1, ProcsAssumption DEF RInv, Printed
<1>6. SetUp /\ pos_prod \in 0 .. N /\ pos_prod < N /\ pos_consum \in Nat
  BY <1>1, <1>2, Bounds DEF RInv, IInv, Birth, SetUp, Positions
<1>7. Taken = pos_consum /\ Taken' = Taken
  <2>1. Taking = {} /\ Taking' = {}
    BY <1>1, <1>2, ProcsAssumption DEF Taking, Holds, Inside
  <2>2. Taken = pos_consum + Cardinality(Taking)
        /\ Taken' = pos_consum' + Cardinality(Taking')
    BY DEF Taken, Taking
  <2> QED
    BY <2>1, <2>2, <1>3, <1>6, FS_EmptySet
<1>8. Len(Queue) < N
  <2>1. Permits(0, 1)
    BY <1>2 DEF RInv, IInv, Semaphores
  <2>2. sem["SE"] \in Nat
    BY DEF RInv, IInv, TypeOK, Sems
  <2>3. Len(Queue) = pos_prod - Taken
    BY <1>6, QueueLength DEF RInv
  <2> QED
    BY <2>1, <2>2, <2>3, <1>6, <1>7, LayoutAssumption DEF Permits
<1>9. Queue' = Append(Queue, Base[p] + i[p])
  <2>1. Queue \in Seq(Int) /\ Len(Queue) = pos_prod - Taken
    BY <1>6, QueueLength DEF RInv
  <2>2. Taken \in 0 .. pos_prod
    BY <1>6, TakenRange DEF RInv
  <2>3. \A k \in 0 .. N - 1 : shm'[shm_buffer + k] = shm[shm_buffer + k]
    BY Layout DEF Store, RInv, IInv, TypeOK
  <2>4. shm[shm_buffer + pos_prod] = Base[p] + i[p]
    BY <1>1 DEF RInv, Content
  <2>5. /\ Queue' = [k \in DOMAIN Queue' |-> Queue'[k]]
        /\ DOMAIN Queue' = 1 .. pos_prod + 1 - Taken
        /\ \A k \in 1 .. pos_prod + 1 - Taken :
              Queue'[k] = shm'[shm_buffer + Taken + k - 1]
    <3>1. Queue' = [k \in 1 .. pos_prod' - Taken' |->
                      shm'[shm_buffer + Taken' + k - 1]]
      BY DEF Queue, shm_buffer
    <3>2. pos_prod' - Taken' = pos_prod + 1 - Taken
      BY <1>3, <1>6, <1>7
    <3>3. DOMAIN Queue' = 1 .. pos_prod + 1 - Taken
      BY <3>1, <3>2
    <3>4. Queue' = [k \in DOMAIN Queue' |-> Queue'[k]]
      BY <3>1
    <3>5. ASSUME NEW k \in 1 .. pos_prod + 1 - Taken
          PROVE  Queue'[k] = shm'[shm_buffer + Taken + k - 1]
      BY <3>1, <3>2, <1>7
    <3> QED
      BY <3>3, <3>4, <3>5
  <2>6. ASSUME NEW k \in 1 .. pos_prod - Taken
        PROVE  Queue'[k] = Queue[k]
    <3>1. Taken + k - 1 \in 0 .. N - 1
      BY <2>2, <1>6, LayoutAssumption
    <3>2. shm_buffer + Taken + k - 1 = shm_buffer + (Taken + k - 1)
      BY <2>2, <1>6, LayoutAssumption DEF shm_buffer
    <3>3. k \in 1 .. pos_prod + 1 - Taken
      BY <2>2, <1>6
    <3> QED
      BY <2>3, <2>5, <3>1, <3>2, <3>3 DEF Queue
  <2>7. Queue'[pos_prod + 1 - Taken] = Base[p] + i[p]
    <3>1. pos_prod + 1 - Taken \in 1 .. pos_prod + 1 - Taken
      BY <2>2, <1>6
    <3>2. shm_buffer + Taken + (pos_prod + 1 - Taken) - 1 = shm_buffer + pos_prod
      BY <2>2, <1>6, LayoutAssumption DEF shm_buffer
    <3>3. pos_prod \in 0 .. N - 1
      BY <1>6, LayoutAssumption
    <3> QED
      BY <2>3, <2>4, <2>5, <3>1, <3>2, <3>3
  <2>8. /\ Base[p] + i[p] \in Int
        /\ Append(Queue, Base[p] + i[p]) \in Seq(Int)
        /\ Len(Append(Queue, Base[p] + i[p])) = pos_prod + 1 - Taken
    <3>1. Base[p] + i[p] \in Int
      BY CountAssumption DEF RInv, IInv, TypeOK
    <3> QED
      BY <3>1, <2>1, <2>2, <1>6
  <2>9. \A k \in 1 .. pos_prod + 1 - Taken :
           Queue'[k] = Append(Queue, Base[p] + i[p])[k]
    BY <2>1, <2>2, <2>6, <2>7, <1>6
  <2> QED
    BY <2>1, <2>5, <2>8, <2>9
<1>10. /\ i[p] < Count[p] /\ i[p] \in Nat /\ Count[p] \in Nat
       /\ \A q \in Producers : q # p => Advanced(q)' = Advanced(q)
  BY <1>1 DEF RInv, IInv, TypeOK, Loops, Advanced
<1>11. \A q \in Producers : Rounds(q)' = IF q = p THEN Rounds(q) + 1 ELSE Rounds(q)
  BY <1>1, <1>2, <1>10 DEF Rounds
<1>12. Rounds(p) = i[p]
  BY <1>2, <1>10 DEF Rounds
<1>13. [q \in Producers |-> Rounds(q)]'
         = [[q \in Producers |-> Rounds(q)] EXCEPT ![p] = @ + 1]
  BY <1>11
<1> QED
  BY <1>1, <1>4, <1>5, <1>8, <1>9, <1>10, <1>12, <1>13 DEF Buffer!Put, Rounds

(* A consumer's printf is the buffer's Get.                                *)
LEMMA ConsumeSim ==
  ASSUME RInv, NEW c \in Consumers, Consume(c), IInv'
  PROVE  Content' /\ Printed' /\ Buffer!Get(c)
<1> USE Types
<1>1. /\ UNCHANGED <<i, shm>> /\ pc[c] = "access" /\ pc'[c] = "load"
      /\ \A q \in Procs : q # c => pc'[q] = pc[q]
  BY DEF Consume, RInv, IInv, TypeOK
<1>2. Holds(c) /\ ~Advanced(c) /\ \A q \in Procs : q # c => ~Holds(q)
  BY <1>1 DEF RInv, IInv, Lock, MutualExclusion, Holds, Advanced, Inside
<1>3. pos_prod' = pos_prod /\ pos_consum' = pos_consum
  BY <1>1 DEF pos_prod, pos_consum
<1>4. pos_consum \in Nat /\ pos_consum < pos_prod /\ pos_prod \in 0 .. N /\ SetUp
  BY <1>1, <1>2, Bounds DEF RInv, IInv, Birth, SetUp, Positions
<1>5. Taken = pos_consum /\ Taken' = pos_consum + 1
  <2>1. Taking = {} /\ Taking' = {c}
    BY <1>1, <1>2 DEF Taking, Holds, Inside
  <2>2. Taken = pos_consum + Cardinality(Taking)
        /\ Taken' = pos_consum' + Cardinality(Taking')
    BY DEF Taken, Taking
  <2>3. Cardinality({}) = 0 /\ Cardinality({c}) = 1
    BY FS_EmptySet, FS_Singleton
  <2> QED
    BY <2>1, <2>2, <2>3, <1>3, <1>4
<1>6. Queue \in Seq(Int) /\ Len(Queue) = pos_prod - pos_consum
  BY <1>4, <1>5, QueueLength DEF RInv
<1>7. Queue # << >> /\ Head(Queue) = shm[shm_buffer + pos_consum]
  <2>1. 1 \in 1 .. pos_prod - Taken
    BY <1>4, <1>5, LayoutAssumption
  <2>2. shm_buffer + Taken + 1 - 1 = shm_buffer + pos_consum
    BY <1>4, <1>5, LayoutAssumption DEF shm_buffer
  <2>3. Queue[1] = shm[shm_buffer + pos_consum]
    BY <2>1, <2>2 DEF Queue
  <2> QED
    BY <2>1, <2>3, <1>4, <1>5, <1>6
<1>8. Queue' = Tail(Queue)
  <2>1. Queue' = [k \in 1 .. pos_prod' - Taken' |->
                    shm'[shm_buffer + Taken' + k - 1]]
    BY DEF Queue, shm_buffer
  <2>2. pos_prod' - Taken' = pos_prod - pos_consum - 1
    BY <1>3, <1>4, <1>5
  <2>3. /\ Tail(Queue) \in Seq(Int) /\ Len(Tail(Queue)) = pos_prod - pos_consum - 1
        /\ \A k \in 1 .. pos_prod - pos_consum - 1 : Tail(Queue)[k] = Queue[k + 1]
    BY <1>4, <1>6, <1>7
  <2>4. DOMAIN Queue' = 1 .. pos_prod - pos_consum - 1
        /\ Queue' = [k \in DOMAIN Queue' |-> Queue'[k]]
    BY <2>1, <2>2
  <2>5. ASSUME NEW k \in 1 .. pos_prod - pos_consum - 1
        PROVE  Queue'[k] = Tail(Queue)[k]
    <3>1. Queue'[k] = shm[shm_buffer + (pos_consum + 1) + k - 1]
      BY <2>1, <2>2, <1>1, <1>5
    <3>2. k + 1 \in 1 .. pos_prod - Taken
      BY <1>4, <1>5
    <3>3. Queue[k + 1] = shm[shm_buffer + Taken + (k + 1) - 1]
      BY <3>2 DEF Queue
    <3>4. shm_buffer + Taken + (k + 1) - 1 = shm_buffer + (pos_consum + 1) + k - 1
      BY <1>4, <1>5, LayoutAssumption DEF shm_buffer
    <3> QED
      BY <2>3, <3>1, <3>3, <3>4
  <2> QED
    BY <2>3, <2>4, <2>5
<1>9. out' = [out EXCEPT ![c] = Append(@, Head(Queue))]
  BY <1>7 DEF Consume, pos_consum
<1>10. Len(out[c]) = i[c] /\ i[c] < Count[c] /\ out[c] \in Seq(Int)
  <2>1. i[c] \in Nat /\ out[c] \in Seq(Int)
    BY DEF RInv, IInv, TypeOK
  <2>2. i[c] < Count[c]
    BY <1>1 DEF RInv, IInv, Loops
  <2>3. Len(out[c]) = i[c]
    BY <1>1, <2>1 DEF RInv, Printed
  <2> QED
    BY <2>1, <2>2, <2>3
<1>11. Content'
  BY <1>1, <1>3, ProcsAssumption DEF RInv, Content
<1>12. Printed'
  <2>1. Head(Queue) \in Int
    BY <1>6, <1>7
  <2>2. Len(out'[c]) = i[c] + 1
    BY <2>1, <1>9, <1>10 DEF RInv, IInv, TypeOK
  <2>3. \A d \in Consumers : d # c => out'[d] = out[d]
    BY <1>9 DEF RInv, IInv, TypeOK
  <2> QED
    BY <2>2, <2>3, <1>1 DEF RInv, Printed
<1>13. \A p \in Producers : Rounds(p)' = Rounds(p)
  BY <1>1, ProcsAssumption DEF Rounds, Advanced
<1>14. [p \in Producers |-> Rounds(p)]' = [p \in Producers |-> Rounds(p)]
  BY <1>13
<1> QED
  BY <1>7, <1>8, <1>9, <1>10, <1>11, <1>12, <1>14 DEF Buffer!Get, Rounds

-----------------------------------------------------------------------------
LEMMA Simulation ==
  RInv /\ [Next]_vars => RInv' /\ [Buffer!Next]_(Buffer!vars)
<1> SUFFICES ASSUME RInv, [Next]_vars
             PROVE  RInv' /\ [Buffer!Next]_(Buffer!vars)
  OBVIOUS
<1>1. IInv'
  BY NextInv DEF RInv
<1>2. CASE Main \/ RemoveSet \/ (\E p \in Procs : Kill(p)) \/ UNCHANGED vars
  BY <1>1, <1>2, MainSim DEF RInv
<1>3. ASSUME NEW p \in Producers, prod(p)
      PROVE  RInv' /\ [Buffer!Next]_(Buffer!vars)
  <2>1. p \in Procs
    BY Types
  <2>2. CASE Produce(p)
    BY <1>1, <2>2, ProduceSim DEF RInv
  <2>3. CASE Store(p, shm_pos_prod)
    BY <1>1, <2>3, ProducerStoreSim DEF RInv, Buffer!Next
  <2>4. CASE Start(p, prod_start) \/ Stop(p, prod_stop) \/ Load(p, shm_pos_prod)
    BY <1>1, <2>1, <2>4, SemopSim DEF RInv
  <2> QED
    BY <1>3, <2>2, <2>3, <2>4 DEF prod
<1>4. ASSUME NEW c \in Consumers, consum(c)
      PROVE  RInv' /\ [Buffer!Next]_(Buffer!vars)
  <2>1. c \in Procs
    BY Types
  <2>2. CASE Consume(c)
    BY <1>1, <2>2, ConsumeSim DEF RInv, Buffer!Next
  <2>3. CASE Store(c, shm_pos_consum)
    BY <1>1, <2>3, ConsumerStoreSim DEF RInv
  <2>4. CASE Start(c, consum_start) \/ Stop(c, consum_stop) \/ Load(c, shm_pos_consum)
    BY <1>1, <2>1, <2>4, SemopSim DEF RInv
  <2> QED
    BY <1>4, <2>2, <2>3, <2>4 DEF consum
<1>5. ASSUME NEW p \in Procs, NEW op, SemopInterrupted(p, op)
      PROVE  RInv' /\ [Buffer!Next]_(Buffer!vars)
  BY <1>1, <1>5, SemopSim DEF RInv
<1> QED
  BY <1>2, <1>3, <1>4, <1>5, Types DEF Next, Environment

(* For every number of processes and items, the program of 01.c behaves    *)
(* like a first-in first-out buffer of capacity N: values come out in the  *)
(* order in which they went in, each of them once, and none is invented.   *)
THEOREM Refinement == Spec => ImplementsBoundedBuffer
<1>1. Init => RInv /\ Buffer!Init
  BY InitRInv
<1>2. RInv /\ [Next]_vars => RInv' /\ [Buffer!Next]_(Buffer!vars)
  BY Simulation
<1> QED
  BY <1>1, <1>2, PTL DEF Spec, ImplementsBoundedBuffer, Buffer!Spec

-----------------------------------------------------------------------------
(***************************************************************************)
(* What is left when the consumers, or main, have exited with 0.  The      *)
(* values counted in *shm_pos_consum are, as those in *shm_pos_prod, a set *)
(* of finished rounds; a child that has exited with 0 has finished all of  *)
(* its own; and main has waited for every process there is.                *)
(***************************************************************************)
Consumed == UNION {{c} \X (0 .. Rounds(c) - 1) : c \in Consumers}
ConsumedCounted == pos_consum = Cardinality(Consumed)

BufferFree == SetUp /\ (\A p \in Procs : ~Holds(p)) => sem["SB"] = 1

Ended == /\ \A p \in Procs : pc[p] = "exit0" => i[p] = Count[p]
         /\ \A p \in reaped : pc[p] \in Exited \/ p \in killed
         /\ mainpc \in {"wait", "exit0"} => forked = Len(Children)
         /\ mainpc = "exit0" => Cardinality(reaped) = Len(Children)

CInv == RInv /\ ConsumedCounted /\ BufferFree /\ Ended

LEMMA ProcsCounted == IsFiniteSet(Procs) /\ Cardinality(Procs) = Len(Children)
<1> DEFINE S == 1 .. Len(Children)
<1>1. Len(Children) \in Nat /\ Children \in [S -> Procs]
  BY ProcsAssumption
<1>2. IsFiniteSet(S) /\ Cardinality(S) = Len(Children)
  BY <1>1, FS_Interval
<1>3. Children \in Bijection(S, Procs)
  BY <1>1, ProcsAssumption, ChildrenAssumption, Fun_IsBij
<1>4. ExistsBijection(S, Procs)
  BY <1>3 DEF ExistsBijection
<1> QED
  BY <1>2, <1>4, FS_Bijection

LEMMA ConsumedFacts ==
  ASSUME IInv
  PROVE  Consumed \subseteq Orders /\ IsFiniteSet(Consumed)
<1>1. \A c \in Consumers : Rounds(c) \in Int /\ Rounds(c) <= Count[c] /\ Count[c] \in Nat
  <2> TAKE c \in Consumers
  <2>1. c \in Procs /\ i[c] \in Nat /\ Count[c] \in Nat
    BY Types DEF IInv, TypeOK
  <2>2. i[c] <= Count[c] /\ (Advanced(c) => i[c] < Count[c])
    BY <2>1 DEF IInv, TypeOK, Loops, Advanced
  <2> QED
    BY <2>1, <2>2 DEF Rounds
<1>2. Consumed \subseteq Orders
  BY <1>1 DEF Consumed, Orders
<1> QED
  BY <1>2, OrdersAssumption, FS_Subset

LEMMA InitCInv == Init => CInv
<1> SUFFICES ASSUME Init PROVE CInv
  OBVIOUS
<1>1. RInv
  BY InitRInv
<1>2. ConsumedCounted
  <2>1. Consumed = {}
    BY Types DEF Init, Consumed, Rounds, Advanced
  <2> QED
    BY <2>1, FS_EmptySet, Layout DEF Init, ConsumedCounted, pos_consum
<1>3. BufferFree /\ Ended
  BY DEF Init, BufferFree, Ended, SetUp
<1> QED
  BY <1>1, <1>2, <1>3 DEF CInv

(* A step that keeps the rounds of the consumers and their position.       *)
LEMMA SameConsumed ==
  ASSUME ConsumedCounted, pos_consum' = pos_consum,
         \A c \in Consumers : Rounds(c)' = Rounds(c)
  PROVE  ConsumedCounted'
BY DEF ConsumedCounted, Consumed

LEMMA MainEnds ==
  ASSUME CInv,
         Main \/ RemoveSet \/ (\E p \in Procs : Kill(p)) \/ UNCHANGED vars
  PROVE  ConsumedCounted' /\ BufferFree' /\ Ended'
<1> USE Types
<1>1. IInv /\ ConsumedCounted /\ BufferFree /\ Ended
  BY DEF CInv, RInv
<1>2. CASE Setup
  <2>1. forked = 0 /\ \A p \in Procs : pc[p] = "unborn" /\ i[p] = 0
    BY <1>1, <1>2 DEF Setup, IInv, Birth, Loops
  <2>2. Consumed = {} /\ Consumed' = {}
    BY <1>2, <2>1 DEF Setup, Consumed, Rounds, Advanced
  <2>3. pos_consum = 0 /\ pos_consum' = 0
    BY <1>1, <1>2, <2>2, FS_EmptySet, Layout
       DEF Setup, ConsumedCounted, IInv, TypeOK, pos_consum
  <2>4. ConsumedCounted'
    BY <2>2, <2>3, FS_EmptySet DEF ConsumedCounted
  <2>5. BufferFree'
    BY <1>2, <2>1 DEF Setup, BufferFree, SetUp
  <2>6. Ended'
    BY <1>1, <1>2, <2>1 DEF Setup, Ended
  <2> QED
    BY <2>4, <2>5, <2>6
<1>3. CASE Fork
  <2> DEFINE child == Children[forked + 1]
  <2>1. forked + 1 \in DOMAIN Children /\ forked \in Nat /\ child \in Procs
    BY <1>1, <1>3, ProcsAssumption DEF IInv, TypeOK, Fork
  <2>2. pc[child] = "unborn" /\ i[child] = 0 /\ Count[child] \in Nat
    BY <1>1, <2>1 DEF IInv, Birth, TypeOK, Loops
  <2>3. /\ UNCHANGED <<mainpc, reaped, killed, sem, shm, i>> /\ mainpc = "fork"
        /\ \A p \in Procs : pc'[p] = IF p = child THEN LoopHead(child, 0) ELSE pc[p]
    BY <1>1, <1>3, <2>1 DEF Fork, IInv, TypeOK
  <2> HIDE DEF child
  <2>4. pc'[child] \in {"start", "exit0"} /\ (pc'[child] = "exit0" => Count[child] = 0)
    BY <2>1, <2>2, <2>3 DEF LoopHead
  <2>5. \A p \in Procs : Holds(p)' = Holds(p) /\ Advanced(p)' = Advanced(p)
    BY <2>2, <2>3, <2>4 DEF Holds, Advanced, Inside
  <2>6. ConsumedCounted'
    <3>1. \A c \in Consumers : Rounds(c)' = Rounds(c)
      BY <2>3, <2>5 DEF Rounds
    <3>2. pos_consum' = pos_consum
      BY <2>3 DEF pos_consum
    <3> QED
      BY <1>1, <3>1, <3>2, SameConsumed
  <2>7. BufferFree'
    BY <1>1, <2>3, <2>5 DEF BufferFree, SetUp
  <2>8. Ended'
    BY <1>1, <2>2, <2>3, <2>4 DEF Ended, Exited, IInv, TypeOK
  <2> QED
    BY <2>6, <2>7, <2>8
<1>4. CASE \/ ForkFails \/ AllForked \/ Wait \/ MainExit \/ RemoveSet
           \/ (\E p \in Procs : Kill(p)) \/ UNCHANGED vars
  <2>1. UNCHANGED <<forked, sem, shm, pc, i>> /\ (SetUp' => SetUp)
    BY <1>4 DEF ForkFails, AllForked, Wait, MainExit, RemoveSet, Kill, vars, main,
                 SetUp
  <2>2. ConsumedCounted'
    <3>1. \A c \in Consumers : Rounds(c)' = Rounds(c)
      BY <2>1 DEF Rounds, Advanced
    <3>2. pos_consum' = pos_consum
      BY <2>1 DEF pos_consum
    <3> QED
      BY <1>1, <3>1, <3>2, SameConsumed
  <2>3. BufferFree'
    BY <1>1, <2>1 DEF BufferFree, Holds
  <2>4. Ended'
    BY <1>1, <1>4, <2>1 DEF Ended, ForkFails, AllForked, Wait, MainExit,
                             RemoveSet, Kill, vars, main
  <2> QED
    BY <2>2, <2>3, <2>4
<1> QED
  BY <1>2, <1>3, <1>4 DEF Main

(* A process takes and gives back the buffer; it ends when its rounds do,  *)
(* or when a semop() fails.                                                *)
LEMMA SemopEnds ==
  ASSUME CInv, NEW p \in Procs, NEW op,
         \/ Start(p, op) /\ op["SB"] = -1
         \/ Stop(p, op) /\ op["SB"] = 1
         \/ SemopInterrupted(p, op),
         UNCHANGED killed
  PROVE  ConsumedCounted' /\ BufferFree' /\ Ended'
<1> USE Types
<1>1. IInv /\ ConsumedCounted /\ BufferFree /\ Ended
  BY DEF CInv, RInv
<1>2. /\ UNCHANGED <<mainpc, forked, reaped, killed, shm>>
      /\ \A q \in Procs : q # p => pc'[q] = pc[q] /\ i'[q] = i[q]
      /\ i[p] \in Nat /\ Count[p] \in Nat /\ pos_consum' = pos_consum
  BY <1>1 DEF Start, Stop, Semop, SemopFails, SemopInterrupted, main,
              IInv, TypeOK, pos_consum
<1>3. \/ /\ pc[p] = "start" /\ pc'[p] = "access" /\ i'[p] = i[p]
      \/ /\ pc[p] = "start" /\ pc'[p] = "exit1_start" /\ i'[p] = i[p] /\ sem' = sem
      \/ /\ pc[p] = "stop" /\ i'[p] = i[p] + 1 /\ sem'["SB"] = sem["SB"] + 1
         /\ pc'[p] = IF i[p] + 1 < Count[p] THEN "start" ELSE "exit0"
      \/ /\ pc[p] = "stop" /\ pc'[p] = "exit1_stop" /\ i'[p] = i[p] /\ sem' = sem
  BY <1>1 DEF Start, Stop, Semop, SemopFails, SemopInterrupted, LoopHead,
              IInv, TypeOK, Sems
<1>4. ConsumedCounted'
  <2>1. \A c \in Consumers : Rounds(c)' = Rounds(c)
    BY <1>2, <1>3 DEF Rounds, Advanced
  <2> QED
    BY <1>1, <1>2, <2>1, SameConsumed
<1>5. BufferFree'
  <2>1. pc[p] = "stop" => sem["SB"] = 0
    BY <1>1 DEF IInv, Lock, Holds, Inside
  <2>2. SetUp' => SetUp
    BY <1>2 DEF SetUp
  <2>3. \A q \in Procs : q # p => Holds(q)' = Holds(q)
    BY <1>2 DEF Holds
  <2> QED
    BY <1>1, <1>2, <1>3, <2>1, <2>2, <2>3 DEF BufferFree, Holds, Inside
<1>6. Ended'
  <2>1. pc[p] = "stop" => i[p] < Count[p]
    BY <1>1 DEF IInv, Loops
  <2>2. p \in reaped => p \in killed
    BY <1>1, <1>3 DEF Ended, Exited
  <2>3. \A q \in Procs : pc'[q] = "exit0" => i'[q] = Count[q]
    BY <1>1, <1>2, <1>3, <2>1 DEF Ended
  <2>4. \A q \in reaped' : pc'[q] \in Exited \/ q \in killed'
    BY <1>1, <1>2, <2>2 DEF Ended, IInv, TypeOK
  <2> QED
    BY <1>1, <1>2, <2>3, <2>4 DEF Ended
<1> QED
  BY <1>4, <1>5, <1>6

(* Inside, a process has the buffer before and after; only a consumer's    *)
(* store counts a value.                                                   *)
LEMMA InsideEnds ==
  ASSUME CInv, IInv', NEW p \in Procs,
         \/ p \in Producers /\ (Produce(p) \/ Load(p, shm_pos_prod) \/ Store(p, shm_pos_prod))
         \/ p \in Consumers /\ (Consume(p) \/ Load(p, shm_pos_consum) \/ Store(p, shm_pos_consum)),
         UNCHANGED killed
  PROVE  ConsumedCounted' /\ BufferFree' /\ Ended'
<1> USE Types
<1>1. IInv /\ ConsumedCounted /\ BufferFree /\ Ended
  BY DEF CInv, RInv
<1>2. /\ UNCHANGED <<mainpc, forked, reaped, killed, sem, i>>
      /\ pc[p] \in {"access", "load", "store"} /\ pc'[p] \in {"load", "store", "stop"}
      /\ pc'[p] = "stop" <=> pc[p] = "store"
      /\ \A q \in Procs : q # p => pc'[q] = pc[q]
  BY <1>1 DEF Produce, Consume, Load, Store, main, IInv, TypeOK
<1>3. BufferFree'
  BY <1>2 DEF BufferFree, Holds, Inside
<1>4. Ended'
  BY <1>1, <1>2 DEF Ended, Exited, IInv, TypeOK
<1>5. \A q \in Procs : q # p => Rounds(q)' = Rounds(q)
  BY <1>2 DEF Rounds, Advanced
<1>6. CASE p \in Consumers /\ Store(p, shm_pos_consum)
  <2>1. pos_consum' = pos_consum + 1 /\ pos_consum \in Nat
    BY <1>1, <1>2, <1>6, Layout
       DEF Store, IInv, TypeOK, Registers, Positions, pos_consum
  <2>2. i[p] \in Nat /\ Rounds(p) = i[p] /\ Rounds(p)' = i[p] + 1
    BY <1>1, <1>2, <1>6 DEF Store, Rounds, Advanced, IInv, TypeOK
  <2>3. Consumed' = Consumed \cup {<<p, i[p]>>} /\ <<p, i[p]>> \notin Consumed
    <3>1. Consumed' = Consumed \cup {<<p, i[p]>>}
      BY <1>5, <1>6, <2>2 DEF Consumed
    <3>2. <<p, i[p]>> \notin Consumed
      BY <2>2 DEF Consumed
    <3> QED
      BY <3>1, <3>2
  <2>4. ConsumedCounted'
    BY <1>1, <2>1, <2>3, ConsumedFacts, FS_AddElement DEF ConsumedCounted
  <2> QED
    BY <1>3, <1>4, <2>4
<1>7. CASE ~(p \in Consumers /\ Store(p, shm_pos_consum))
  <2>1. \A c \in Consumers : Rounds(c)' = Rounds(c)
    <3>1. p \in Consumers => pc[p] # "store"
      BY <1>7, ProcsAssumption DEF Consume, Load
    <3> QED
      BY <1>2, <1>5, <3>1 DEF Rounds, Advanced
  <2>2. pos_consum' = pos_consum
    <3>1. CASE p \in Producers /\ Produce(p)
      <4>1. pos_prod \in 0 .. N - 1
        BY <1>1, <3>1, Bounds, LayoutAssumption DEF Produce, Holds, Advanced, Inside
      <4> QED
        BY <1>1, <3>1, <4>1, Layout DEF Produce, IInv, TypeOK, pos_consum, pos_prod
    <3>2. CASE p \in Producers /\ Store(p, shm_pos_prod)
      BY <1>1, <3>2, Layout DEF Store, IInv, TypeOK, pos_consum
    <3>3. CASE shm' = shm
      BY <3>3 DEF pos_consum
    <3> QED
      BY <1>7, <3>1, <3>2, <3>3 DEF Load, Consume
  <2>3. ConsumedCounted'
    BY <1>1, <2>1, <2>2, SameConsumed
  <2> QED
    BY <1>3, <1>4, <2>3
<1> QED
  BY <1>6, <1>7

LEMMA NextCInv == CInv /\ [Next]_vars => CInv'
<1> SUFFICES ASSUME CInv, [Next]_vars PROVE CInv'
  OBVIOUS
<1>1. RInv' /\ IInv'
  BY Simulation, NextInv DEF CInv, RInv
<1>2. CASE Main \/ RemoveSet \/ (\E p \in Procs : Kill(p)) \/ UNCHANGED vars
  BY <1>1, <1>2, MainEnds DEF CInv
<1>3. ASSUME NEW p \in Producers, prod(p) PROVE CInv'
  <2>1. p \in Procs /\ prod_start["SB"] = -1 /\ prod_stop["SB"] = 1
    BY Types DEF prod_start, prod_stop
  <2>0. UNCHANGED killed
    BY <1>3 DEF prod
  <2>2. CASE Start(p, prod_start) \/ Stop(p, prod_stop)
    BY <1>1, <2>0, <2>1, <2>2, SemopEnds DEF CInv
  <2>3. CASE Produce(p) \/ Load(p, shm_pos_prod) \/ Store(p, shm_pos_prod)
    BY <1>1, <2>0, <2>1, <2>3, InsideEnds DEF CInv
  <2> QED
    BY <1>3, <2>2, <2>3 DEF prod
<1>4. ASSUME NEW c \in Consumers, consum(c) PROVE CInv'
  <2>1. c \in Procs /\ consum_start["SB"] = -1 /\ consum_stop["SB"] = 1
    BY Types DEF consum_start, consum_stop
  <2>0. UNCHANGED killed
    BY <1>4 DEF consum
  <2>2. CASE Start(c, consum_start) \/ Stop(c, consum_stop)
    BY <1>1, <2>0, <2>1, <2>2, SemopEnds DEF CInv
  <2>3. CASE Consume(c) \/ Load(c, shm_pos_consum) \/ Store(c, shm_pos_consum)
    BY <1>1, <2>0, <2>1, <2>3, InsideEnds DEF CInv
  <2> QED
    BY <1>4, <2>2, <2>3 DEF consum
<1>5. ASSUME NEW p \in Procs, NEW op, SemopInterrupted(p, op) PROVE CInv'
  <2>1. UNCHANGED killed
    BY <1>5 DEF SemopInterrupted
  <2> QED
    BY <1>1, <1>5, <2>1, SemopEnds DEF CInv
<1> QED
  BY <1>2, <1>3, <1>4, <1>5, Types DEF Next, Environment

(* When the consumers have made all their rounds every item has been put   *)
(* as well: as many are ordered as there are items (4 + 5 = 3 * 3), and no *)
(* position passes the other.                                              *)
LEMMA AllProduced ==
  ASSUME CInv, SetUp, \A c \in Consumers : pc[c] = "exit0"
  PROVE  /\ pos_prod = pos_consum
         /\ \A p \in Producers : Rounds(p) = Count[p]
<1> USE Types
<1>1. IInv /\ ConsumedCounted /\ Ended
  BY DEF CInv, RInv
<1>2. Consumed = Orders
  <2>1. \A c \in Consumers : Rounds(c) = Count[c]
    BY <1>1 DEF Ended, Rounds, Advanced, IInv, TypeOK
  <2> QED
    BY <2>1 DEF Consumed, Orders
<1>3. pos_consum = Cardinality(Items)
  BY <1>1, <1>2, OrdersAssumption DEF ConsumedCounted
<1>4. \A p \in Producers : Rounds(p) \in Int /\ Rounds(p) <= Count[p]
  <2> TAKE p \in Producers
  <2>1. p \in Procs /\ i[p] \in Nat /\ Count[p] \in Nat
    BY <1>1 DEF IInv, TypeOK
  <2>2. i[p] <= Count[p] /\ (Advanced(p) => i[p] < Count[p])
    BY <1>1, <2>1 DEF IInv, TypeOK, Loops, Advanced
  <2> QED
    BY <2>1, <2>2 DEF Rounds
<1>5. Produced \subseteq Items
  BY <1>4 DEF Produced, Items
<1>6. pos_consum <= pos_prod
  BY <1>1, TakenRange, TakenValue, LayoutAssumption DEF IInv, Positions
<1>7. Cardinality(Produced) <= Cardinality(Items) /\ Cardinality(Items) \in Nat
      /\ Cardinality(Produced) \in Nat
  BY <1>5, ItemsAssumption, FS_Subset, FS_CardinalityType
<1>8. pos_prod = pos_consum /\ Cardinality(Produced) = Cardinality(Items)
  BY <1>1, <1>3, <1>6, <1>7 DEF IInv, Positions
<1>9. Produced = Items
  BY <1>5, <1>8, ItemsAssumption, FS_Subset
<1>10. ASSUME NEW p \in Producers, Rounds(p) # Count[p] PROVE FALSE
  <2>1. Rounds(p) \in 0 .. Count[p] - 1
    <3>1. Rounds(p) \in Nat /\ Count[p] \in Nat
      BY <1>1 DEF Rounds, IInv, TypeOK
    <3> QED
      BY <3>1, <1>4, <1>10
  <2>2. <<p, Rounds(p)>> \in Items
    BY <2>1 DEF Items
  <2>3. <<p, Rounds(p)>> \notin Produced
    BY <2>1 DEF Produced
  <2> QED
    BY <1>9, <2>2, <2>3
<1> QED
  BY <1>8, <1>10

(* When every consumer has exited with 0, or main has and no child failed, *)
(* every value has been made and printed, both positions agree and the     *)
(* three semaphores are back where Setup left them, for all producers and  *)
(* consumers of 01.c and whatever was killed, interrupted or removed       *)
(* before.                                                                 *)
THEOREM EverythingConsumed == Spec => []AllConsumed
<1>1. CInv => AllConsumed
  <2> SUFFICES ASSUME CInv, SetUp,
                      \/ \A c \in Consumers : pc[c] = "exit0"
                      \/ mainpc = "exit0" /\ \A p \in Procs : ~Failed(p)
               PROVE  /\ \A c \in Consumers : Len(out[c]) = Count[c]
                      /\ \A p \in Producers : i[p] = Count[p]
                      /\ pos_prod = pos_consum
                      /\ sem = [SB |-> 1, SE |-> N, SM |-> 0]
    BY DEF AllConsumed
  <2> USE Types
  <2>1. IInv /\ Printed /\ BufferFree /\ Ended
    BY DEF CInv, RInv
  <2>2. \A c \in Consumers : pc[c] = "exit0"
    <3>1. CASE mainpc = "exit0" /\ \A p \in Procs : ~Failed(p)
      <4>1. reaped = Procs
        BY <2>1, <3>1, ProcsCounted, FS_Subset DEF Ended, IInv, TypeOK
      <4> QED
        BY <2>1, <3>1, <4>1 DEF Ended, Failed, Exited
    <3> QED
      BY <3>1
  <2>3. pos_prod = pos_consum /\ \A p \in Producers : Rounds(p) = Count[p]
    BY <2>2, AllProduced
  <2>4. pos_prod \in Int /\ sem \in [Sems -> Nat]
    BY <2>1, Layout DEF pos_prod, IInv, TypeOK
  <2>5. \A p \in Procs : ~Holds(p)
    <3>1. \A c \in Consumers : ~Holds(c)
      BY <2>2 DEF Holds, Inside
    <3>2. ASSUME NEW p \in Producers, Holds(p) PROVE FALSE
      <4>1. CASE Advanced(p)
        <5>1. Permits(1, 0)
          BY <2>1, <3>2, <4>1 DEF IInv, Semaphores
        <5> QED
          BY <2>3, <2>4, <5>1 DEF Permits, Sems
      <4>2. CASE ~Advanced(p)
        <5>1. p \in Procs /\ i[p] \in Nat /\ i[p] < Count[p]
          BY <2>1, <3>2, <4>2 DEF IInv, TypeOK, Loops, Holds, Inside, Advanced
        <5>2. Rounds(p) = i[p]
          BY <4>2, <5>1 DEF Rounds
        <5> QED
          BY <2>3, <5>1, <5>2
      <4> QED
        BY <4>1, <4>2
    <3> QED
      BY <3>1, <3>2
  <2>6. \A p \in Producers : i[p] = Count[p]
    BY <2>1, <2>3, <2>5 DEF Rounds, Advanced, Holds, Inside, IInv, TypeOK
  <2>7. Permits(0, 0) /\ sem["SB"] = 1
    BY <2>1, <2>5 DEF IInv, Semaphores, BufferFree
  <2>8. sem["SM"] = 0 /\ sem["SE"] = N
    BY <2>3, <2>4, <2>7, LayoutAssumption DEF Permits
  <2>9. sem = [SB |-> 1, SE |-> N, SM |-> 0]
    BY <2>4, <2>7, <2>8 DEF Sems
  <2>10. \A c \in Consumers : Len(out[c]) = Count[c]
    <3> TAKE c \in Consumers
    <3>1. pc[c] = "exit0" /\ i[c] = Count[c] /\ Count[c] \in Nat
      BY <2>1, <2>2 DEF Ended
    <3>2. Len(out[c]) = i[c] + 0
      BY <2>1, <3>1 DEF Printed
    <3> QED
      BY <3>1, <3>2
  <2> QED
    BY <2>3, <2>6, <2>9, <2>10
<1> QED
  BY <1>1, InitCInv, NextCInv, PTL DEF Spec
=============================================================================
