-------------------------- MODULE ProtectedModeProofs --------------------------
(***************************************************************************)
(* Proofs about ProtectedMode for every size of a megabyte, of the address *)
(* space and of the memory, and interrupts at any step.  What the table,   *)
(* the controller and the mode are is known from pc alone, which is what   *)
(* the order of the instructions is for.                                   *)
(***************************************************************************)
EXTENDS ProtectedMode, TLAPS

(* The stretches of the program between the changes of the machine.        *)
Entering == {"start", "gdt", "idt", "save", "icw1"}
Switching == {"lidt", "nmi", "pe", "pm_start", "sti"}
Counting == {"message", "ds", "count", "print", "ret", "process", "fault"}
Leaving == {"return_rm", "segments", "base", "restore", "lidt16", "nmi_on", "sti16"}

Machine ==
  /\ pc \in Entering \cup {"done"} =>
        ~cpu.pe /\ cpu.idtr = "ivt" /\ pic.base = 8
  /\ pc \in Window =>
        ~cpu.pe /\ cpu.idtr = "ivt" /\ pic.base = 32 /\ cpu.gdtr
  /\ pc \in Switching =>
        /\ ~cpu.if /\ cpu.gdtr /\ pic.base = 32
        /\ pc \in {"nmi", "pe", "pm_start", "sti"} => cpu.idtr = "idt"
        /\ pc \in {"pm_start", "sti"} => cpu.pe
  /\ pc \in Counting =>
        cpu.pe /\ cpu.idtr = "idt" /\ cpu.gdtr /\ pic.base = 32
  /\ pc \in Leaving =>
        /\ ~cpu.if
        /\ pc # "return_rm" => ~cpu.pe
        /\ pc \in {"restore", "lidt16", "nmi_on", "sti16"} => pic.base = 8
        /\ pc \in {"nmi_on", "sti16"} => cpu.idtr = "ivt"
  /\ pc \in {"idt", "save", "icw1"} => cpu.gdtr

(* The lines and the gate that the switch relies on.                       *)
Lines ==
  /\ pc \in {"a20", "cli"} \cup Switching \cup Counting => 2 \in pic.imr
  /\ pc \in {"cli"} \cup Switching \cup Counting => io.a20

(* ebx has not left the memory that was found, and ecx is what is left of  *)
(* the 4 GB.                                                               *)
Expected == IF ram = Top THEN Top - 1 ELSE ram

Counted ==
  /\ pc = "count" =>
        /\ ecx > 0 /\ ebx + ecx = Top * MB - 1
        /\ ebx > MB /\ (ebx <= ram * MB \/ (ram = 1 /\ ebx = MB + 1))
  /\ pc = "print" => ebx \div MB = Expected
  /\ MemoryCounted

Inv == TypeOK /\ Machine /\ Lines /\ Counted

-----------------------------------------------------------------------------
LEMMA Sizes ==
  /\ MB \in Nat /\ MB > 1 /\ Top \in Nat /\ Top > 1 /\ Top * MB \in Nat /\ Top * MB > MB + 2
  /\ \A m, n \in Nat : m <= n => m * MB <= n * MB
<1>1. MB \in Nat /\ MB > 1 /\ Top \in Nat /\ Top > 1 /\ Top * MB \in Nat /\ Top * MB > MB + 2
  BY SizeAssumption
<1>2. ASSUME NEW m \in Nat, NEW n \in Nat, m <= n PROVE m * MB <= n * MB
  <2>1. PICK k \in Nat : n = m + k
    BY <1>2
  <2>2. n * MB = m * MB + k * MB /\ k * MB \in Nat /\ m * MB \in Nat
    BY <2>1, <1>1
  <2> QED
    BY <2>2
<1> QED
  BY <1>1, <1>2

(* The megabyte of an address.                                             *)
LEMMA Megabyte ==
  ASSUME NEW addr \in Nat, NEW mb \in Nat, mb * MB <= addr, addr < mb * MB + MB
  PROVE  addr \div MB = mb
<1>1. PICK k \in Nat : addr = mb * MB + k /\ k < MB
  BY Sizes
<1> QED
  BY <1>1, Sizes

LEMMA DivNat == \A addr \in Nat : addr \div MB \in Nat
BY Sizes

LEMMA InitInv == Init => Inv
<1> SUFFICES ASSUME Init PROVE Inv
  OBVIOUS
<1> USE DEF Init
<1>1. TypeOK
  <2>1. pic \in [base : {8, 32}, imr : SUBSET IRQ, irr : SUBSET IRQ, isr : SUBSET IRQ]
    BY DEF IRQ
  <2> QED
    BY <2>1 DEF TypeOK, PC
<1>2. Machine /\ Lines
  BY DEF Machine, Lines, Entering, Window, Switching, Counting, Leaving
<1>3. Counted
  BY DEF Counted, MemoryCounted
<1> QED
  BY <1>1, <1>2, <1>3 DEF Inv

(* Real mode, in order: nothing is counted yet.                            *)
LEMMA EnterInv ==
  ASSUME Inv, enter
  PROVE  Inv'
<1> USE DEF enter, start, LoadGDT, FillIDT, SaveMasks, Rebase32, MaskOthers, OpenA20, Disable,
            LoadIDT, ForbidNMI, SetPE, Goto, ICW
<1>1. TypeOK /\ Machine /\ Lines /\ Counted
  BY DEF Inv
<1>2. UNCHANGED <<ebx, ecx, ram>> /\ data'.shown = data.shown /\ pc' \notin {"count", "print"}
  BY <1>1 DEF TypeOK
<1>3. TypeOK'
  <2>1. pc' \in PC /\ ebx' \in Nat /\ ecx' \in Nat /\ ram' \in 1..Top
    BY <1>1 DEF TypeOK, PC, Window
  <2>2. cpu' \in [pe : BOOLEAN, if : BOOLEAN, idtr : {"ivt", "idt"}, gdtr : BOOLEAN,
                  ds : {"data16", "data16s", "data4gbs"}]
    <3>1. \/ UNCHANGED cpu \/ cpu' = [cpu EXCEPT !.gdtr = TRUE] \/ cpu' = [cpu EXCEPT !.if = FALSE]
          \/ cpu' = [cpu EXCEPT !.idtr = "idt"] \/ cpu' = [cpu EXCEPT !.pe = TRUE]
      OBVIOUS
    <3>2. cpu \in [pe : BOOLEAN, if : BOOLEAN, idtr : {"ivt", "idt"}, gdtr : BOOLEAN,
                   ds : {"data16", "data16s", "data4gbs"}]
      BY <1>1 DEF TypeOK
    <3> QED
      BY ONLY <3>1, <3>2
  <2>3. pic' \in [base : {8, 32}, imr : SUBSET IRQ, irr : SUBSET IRQ, isr : SUBSET IRQ]
    BY <1>1 DEF TypeOK, IRQ
  <2>4. io' \in [a20 : BOOLEAN, nmi : BOOLEAN, key : {"none", "enter", "other", "release"}]
    BY <1>1 DEF TypeOK
  <2>5. data' \in [masks : SUBSET IRQ, flag : {0, 1}, shown : Nat, ivt : SUBSET Vectors]
    BY <1>1 DEF TypeOK
  <2> QED
    BY <2>1, <2>2, <2>3, <2>4, <2>5 DEF TypeOK
<1>4. Machine'
  BY <1>1 DEF TypeOK, Machine, Entering, Window, Switching, Counting, Leaving
<1>5. Lines'
  BY <1>1 DEF TypeOK, Lines, Entering, Window, Switching, Counting, Leaving
<1>6. Counted'
  BY <1>1, <1>2 DEF Counted, MemoryCounted, Expected
<1> QED
  BY <1>3, <1>4, <1>5, <1>6 DEF Inv

(* A byte is counted that is there, and the count ends at the last.        *)
LEMMA CountedByte ==
  ASSUME Inv, pc = "count", count_memory
  PROVE  Counted' /\ ebx' \in Nat /\ ecx' \in Nat
<1> USE DEF count_memory
<1>1. TypeOK /\ Counted /\ io.a20 = TRUE
  BY DEF Inv, Lines, Counting, TypeOK
<1>2. /\ ebx \in Nat /\ ecx \in Nat /\ ram \in 1..Top
      /\ ecx > 0 /\ ebx + ecx = Top * MB - 1 /\ ebx > MB
      /\ ebx <= ram * MB \/ (ram = 1 /\ ebx = MB + 1)
      /\ ram * MB \in Nat /\ ram * MB <= Top * MB
  BY <1>1, Sizes DEF TypeOK, Counted
<1>3. UNCHANGED <<data, ram>> /\ MemoryCounted /\ Expected' = Expected
  BY <1>1 DEF Counted, Expected
<1>4. Present(ebx) <=> ebx < ram * MB
  <2>1. Present(ebx) <=> ebx \div MB < ram
    BY <1>1 DEF Present
  <2>2. ebx \div MB \in Nat /\ (ebx \div MB) * MB <= ebx /\ ebx < (ebx \div MB) * MB + MB
    BY <1>2, Sizes
  <2>3. ASSUME ebx \div MB < ram PROVE ebx < ram * MB
    <3>1. (ebx \div MB + 1) * MB <= ram * MB
      BY <1>2, <2>2, <2>3, Sizes
    <3>2. (ebx \div MB + 1) * MB = (ebx \div MB) * MB + MB
      BY <2>2, Sizes
    <3> QED
      BY <1>2, <2>2, <3>1, <3>2, Sizes
  <2>4. ASSUME ~(ebx \div MB < ram) PROVE ~(ebx < ram * MB)
    <3>1. ram * MB <= (ebx \div MB) * MB
      BY <1>2, <2>2, <2>4, Sizes
    <3> QED
      BY <1>2, <2>2, <3>1, Sizes
  <2> QED
    BY <2>1, <2>3, <2>4
<1>5. CASE /\ Present(ebx) /\ ebx' = ebx + 1 /\ ecx' = ecx - 1
           /\ pc' = IF ecx = 1 THEN "print" ELSE "count"
  <2>1. ebx + 1 <= ram * MB
    BY <1>2, <1>4, <1>5
  <2>2. CASE ecx = 1
    <3>1. ebx' = Top * MB - 1 /\ pc' = "print"
      BY <1>2, <1>5, <2>2, Sizes
    <3>2. ram = Top
      <4>1. SUFFICES ASSUME ram <= Top - 1 PROVE FALSE
        BY <1>2, Sizes
      <4>2. ram * MB <= (Top - 1) * MB /\ (Top - 1) * MB = Top * MB - MB
        BY <1>2, <4>1, Sizes
      <4> QED
        BY <1>2, <1>5, <2>1, <3>1, <4>2, Sizes
    <3>3. (Top - 1) * MB = Top * MB - MB
      BY Sizes
    <3>4. ebx' \div MB = Top - 1
      BY <1>2, <1>5, <3>1, <3>3, Sizes, Megabyte
    <3> QED
      BY <1>2, <1>3, <1>5, <3>1, <3>2, <3>4 DEF Counted, MemoryCounted, Expected
  <2>3. CASE ecx # 1
    BY <1>2, <1>3, <1>5, <2>1, <2>3, Sizes DEF Counted, MemoryCounted, Expected
  <2> QED
    BY <2>2, <2>3
<1>6. CASE ~Present(ebx) /\ pc' = "print" /\ UNCHANGED <<ebx, ecx>>
  <2>1. ebx \div MB = ram
    <3>1. ram * MB <= ebx /\ ebx < ram * MB + MB
      BY <1>2, <1>4, <1>6, Sizes
    <3> QED
      BY <1>2, <3>1, Megabyte
  <2>2. ram # Top
    BY <1>2, <1>4, <1>6, Sizes
  <2> QED
    BY <1>2, <1>3, <1>6, <2>1, <2>2 DEF Counted, MemoryCounted, Expected
<1> QED
  BY <1>5, <1>6

(* Protected mode: what is counted, shown and left behind.                 *)
LEMMA ProtectedInv ==
  ASSUME Inv, protected
  PROVE  Inv'
<1> USE DEF protected, LoadSegments, Enable, print_memory_msg, count_memory_proc,
            print_memory_counter, RestoreDS, process, Goto
<1>1. TypeOK /\ Machine /\ Lines /\ Counted
  BY DEF Inv
<1>2. CASE count_memory
  <2> USE <1>2 DEF count_memory
  <2>1. Counted' /\ ebx' \in Nat /\ ecx' \in Nat
    BY CountedByte
  <2>2. pc' \in {"count", "print"} /\ UNCHANGED <<cpu, pic, io, data, ram>>
    OBVIOUS
  <2>3. TypeOK'
    BY <1>1, <2>1, <2>2 DEF TypeOK, PC
  <2>4. Machine'
    BY <1>1, <2>2 DEF Machine, Entering, Window, Switching, Counting, Leaving
  <2>5. Lines'
    BY <1>1, <2>2 DEF Lines, Switching, Counting
  <2> QED
    BY <2>1, <2>3, <2>4, <2>5 DEF Inv
<1>3. CASE ~count_memory
  <2> USE <1>3
  <2>1. Counted' /\ ebx' \in Nat /\ ecx' \in Nat
    <3>1. CASE count_memory_proc
      <4>1. /\ ebx' = MB + 1 /\ ecx' = Top * MB - MB - 2 /\ pc' = "count"
            /\ UNCHANGED <<data, ram>>
        BY <3>1
      <4>2. ebx' \in Nat /\ ecx' \in Nat /\ ecx' > 0 /\ ebx' + ecx' = Top * MB - 1
        BY <4>1, Sizes
      <4>3. ebx' <= ram * MB \/ ram = 1
        <5>1. SUFFICES ASSUME 2 <= ram PROVE MB + 1 <= ram * MB
          BY <1>1, <4>1 DEF TypeOK
        <5>2. 2 * MB <= ram * MB /\ ram * MB \in Nat /\ 2 * MB = MB + MB
          BY <1>1, <5>1, Sizes DEF TypeOK
        <5> QED
          BY <5>2, Sizes
      <4> QED
        BY <1>1, <4>1, <4>2, <4>3, Sizes DEF Counted, MemoryCounted
    <3>2. CASE print_memory_counter
      <4>1. /\ data'.shown = Expected /\ pc' = "ret" /\ UNCHANGED <<ebx, ecx, ram>>
        BY <1>1, <3>2 DEF Counted, TypeOK
      <4> QED
        BY <1>1, <4>1 DEF Counted, MemoryCounted, TypeOK, Expected
    <3>3. CASE ~count_memory_proc /\ ~print_memory_counter
      <4>1. UNCHANGED <<ebx, ecx, ram, data>> /\ pc' \notin {"count", "print"}
        BY <3>3
      <4> QED
        BY <1>1, <4>1 DEF Counted, MemoryCounted, TypeOK
    <3> QED
      BY <3>1, <3>2, <3>3
  <2>2. TypeOK'
    <3>1. pc' \in PC /\ ram' \in 1..Top
      BY <1>1 DEF TypeOK, PC
    <3>2. cpu' \in [pe : BOOLEAN, if : BOOLEAN, idtr : {"ivt", "idt"}, gdtr : BOOLEAN,
                    ds : {"data16", "data16s", "data4gbs"}]
      <4>1. \/ UNCHANGED cpu \/ cpu' = [cpu EXCEPT !.if = TRUE] \/ cpu' = [cpu EXCEPT !.if = FALSE]
            \/ cpu' = [cpu EXCEPT !.ds = "data16s"] \/ cpu' = [cpu EXCEPT !.ds = "data4gbs"]
        OBVIOUS
      <4>2. cpu \in [pe : BOOLEAN, if : BOOLEAN, idtr : {"ivt", "idt"}, gdtr : BOOLEAN,
                     ds : {"data16", "data16s", "data4gbs"}]
        BY <1>1 DEF TypeOK
      <4> QED
        BY ONLY <4>1, <4>2
    <3>3. UNCHANGED <<pic, io>>
      OBVIOUS
    <3>4. data' \in [masks : SUBSET IRQ, flag : {0, 1}, shown : Nat, ivt : SUBSET Vectors]
      <4>1. ebx \div MB \in Nat
        BY <1>1, DivNat DEF TypeOK
      <4> QED
        BY <1>1, <4>1 DEF TypeOK
    <3> QED
      BY <1>1, <2>1, <3>1, <3>2, <3>3, <3>4 DEF TypeOK
  <2>3. Machine'
    BY <1>1 DEF TypeOK, Machine, Entering, Window, Switching, Counting, Leaving
  <2>4. Lines'
    BY <1>1 DEF TypeOK, Lines, Switching, Counting
  <2> QED
    BY <2>1, <2>2, <2>3, <2>4 DEF Inv
<1> QED
  BY <1>2, <1>3

(* Real mode again: every step with interrupts off.                        *)
LEMMA LeaveInv ==
  ASSUME Inv, leave
  PROVE  Inv'
<1> USE DEF leave, return_rm, go, Rebase8, RestoreMasks, LoadIVT, AllowNMI, Finish, Goto, ICW
<1>1. TypeOK /\ Machine /\ Lines /\ Counted
  BY DEF Inv
<1>2. UNCHANGED <<ebx, ecx, ram, data>> /\ pc' \notin {"count", "print"}
  OBVIOUS
<1>3. TypeOK'
  <2>1. pc' \in PC
    BY DEF PC
  <2>2. cpu' \in [pe : BOOLEAN, if : BOOLEAN, idtr : {"ivt", "idt"}, gdtr : BOOLEAN,
                  ds : {"data16", "data16s", "data4gbs"}]
    BY <1>1 DEF TypeOK
  <2>3. pic' \in [base : {8, 32}, imr : SUBSET IRQ, irr : SUBSET IRQ, isr : SUBSET IRQ]
    BY <1>1 DEF TypeOK, IRQ
  <2>4. io' \in [a20 : BOOLEAN, nmi : BOOLEAN, key : {"none", "enter", "other", "release"}]
    BY <1>1 DEF TypeOK
  <2> QED
    BY <1>1, <1>2, <2>1, <2>2, <2>3, <2>4 DEF TypeOK
<1>4. Machine'
  BY <1>1 DEF TypeOK, Machine, Entering, Window, Switching, Counting, Leaving
<1>5. Lines'
  BY DEF Lines, Switching, Counting
<1>6. Counted'
  BY <1>1, <1>2 DEF Counted, MemoryCounted
<1> QED
  BY <1>3, <1>4, <1>5, <1>6 DEF Inv

-----------------------------------------------------------------------------
(* What pc says of the machine is enough: a request finds its handler.     *)
LEMMA Proper == Inv => ProperHandler
<1> SUFFICES ASSUME Inv, NEW i \in IRQ, cpu.if, i \notin pic.imr, pc \notin Window \cup {"lost"}
             PROVE  Handler(i) \in {"bios", "new_int08", "new_int09"}
  BY DEF ProperHandler
<1>1. TypeOK /\ Machine /\ Lines
  BY DEF Inv
<1>2. pc \in Entering \cup {"done"} \cup Counting
  BY <1>1 DEF TypeOK, PC, Machine, Entering, Window, Switching, Counting, Leaving
<1>3. CASE pc \in Entering \cup {"done"}
  BY <1>1, <1>3 DEF Machine, Handler
<1>4. CASE pc \in Counting
  <2>1. Handler(i) = Gate(32 + i) /\ i \in {0, 1}
    BY <1>1, <1>4 DEF Machine, Lines, Handler, Window, IRQ
  <2>2. Gate(32) = "new_int08" /\ Gate(33) = "new_int09"
    BY DEF Gate
  <2> QED
    BY <2>1, <2>2
<1> QED
  BY <1>2, <1>3, <1>4

(* A handler leaves the machine as it is, and so does a fault in it.       *)
LEMMA InterruptInv ==
  ASSUME Inv, NEW i \in IRQ, Interrupt(i)
  PROVE  Inv'
<1>1. TypeOK /\ Machine /\ Lines /\ Counted
  BY DEF Inv
<1>2. /\ UNCHANGED <<cpu, ebx, ecx, ram>>
      /\ pic' = [pic EXCEPT !.irr = @ \ {i}] \/ UNCHANGED pic
      /\ io' = [io EXCEPT !.key = "none"] \/ UNCHANGED io
      /\ \/ UNCHANGED data
         \/ \E f \in {0, 1}, ivt \in SUBSET Vectors :
               data' = [data EXCEPT !.flag = f, !.ivt = ivt]
  <2>1. data.ivt \subseteq Vectors /\ data.flag \in {0, 1} /\ Flag \in {0, 1}
    BY <1>1 DEF TypeOK, Flag
  <2>2. Rotated \subseteq SUBSET Vectors /\ Typed \subseteq SUBSET Vectors
    BY <2>1 DEF Rotated, Typed, Vectors
  <2>3. CASE i = 0 /\ new_int08
    <3>1. PICK ivt \in Rotated : data' = [data EXCEPT !.ivt = ivt]
      BY <2>3 DEF new_int08
    <3>2. data' = [data EXCEPT !.flag = data.flag, !.ivt = ivt]
      BY <3>1, <1>1 DEF TypeOK
    <3> QED
      BY <2>1, <2>2, <2>3, <3>2 DEF new_int08, Served
  <2>4. CASE i = 1 /\ new_int09
    BY <2>1, <2>2, <2>4 DEF new_int09, Served, ReadPort60
  <2>5. CASE bios(i) \/ Lost(i)
    BY <2>5 DEF bios, Lost, Served, ReadPort60
  <2> QED
    BY <2>3, <2>4, <2>5 DEF Interrupt
<1>3. /\ pc \in PC
      /\ \/ pc' = pc
         \/ pc' = "lost"
         \/ pc' = "fault" /\ pc \in Counting
  <2>1. CASE new_int09
    <3>1. Handler(1) = "new_int09" /\ cpu.if
      BY <2>1 DEF new_int09, Taken
    <3>2. cpu.pe /\ cpu.if
      BY <3>1 DEF Handler
    <3>3. pc \in Counting \cup {"lost"}
      BY <1>1, <3>2 DEF TypeOK, PC, Machine, Entering, Window, Switching, Counting, Leaving
    <3> QED
      BY <1>1, <2>1, <3>3 DEF new_int09, Taken, Running, TypeOK
  <2>2. CASE ~new_int09
    BY <1>1, <2>2 DEF Interrupt, bios, Lost, new_int08, TypeOK
  <2> QED
    BY <2>1, <2>2
<1>4. TypeOK'
  <2>1. pic' \in [base : {8, 32}, imr : SUBSET IRQ, irr : SUBSET IRQ, isr : SUBSET IRQ]
    <3>1. pic \in [base : {8, 32}, imr : SUBSET IRQ, irr : SUBSET IRQ, isr : SUBSET IRQ]
      BY <1>1 DEF TypeOK
    <3>2. pic' = [pic EXCEPT !.irr = @ \ {i}] \/ UNCHANGED pic
      BY <1>2
    <3> QED
      BY <3>1, <3>2
  <2>2. io' \in [a20 : BOOLEAN, nmi : BOOLEAN, key : {"none", "enter", "other", "release"}]
    BY <1>1, <1>2 DEF TypeOK
  <2>3. data' \in [masks : SUBSET IRQ, flag : {0, 1}, shown : Nat, ivt : SUBSET Vectors]
    BY <1>1, <1>2 DEF TypeOK
  <2> QED
    BY <1>1, <1>2, <1>3, <2>1, <2>2, <2>3 DEF TypeOK, PC
<1>5. /\ pic'.base = pic.base /\ pic'.imr = pic.imr /\ io'.a20 = io.a20
      /\ data'.shown = data.shown
  BY <1>1, <1>2 DEF TypeOK
<1>6. Machine'
  BY <1>1, <1>2, <1>3, <1>5 DEF Machine, Entering, Window, Switching, Counting, Leaving
<1>7. Lines'
  BY <1>1, <1>3, <1>5 DEF Lines, Switching, Counting
<1>8. Counted'
  BY <1>1, <1>2, <1>3, <1>5 DEF Counted, MemoryCounted, Expected
<1> QED
  BY <1>4, <1>6, <1>7, <1>8 DEF Inv

LEMMA DeviceInv ==
  ASSUME Inv, Device
  PROVE  Inv'
<1> USE DEF Device, Request
<1>1. TypeOK /\ Machine /\ Lines /\ Counted
  BY DEF Inv
<1>2. PICK i \in IRQ : pic' = [pic EXCEPT !.irr = @ \cup {i}]
  BY DEF IRQ
<1>3. UNCHANGED <<pc, cpu, data, ebx, ecx, ram>>
  OBVIOUS
<1>4. TypeOK'
  <2>1. pic' \in [base : {8, 32}, imr : SUBSET IRQ, irr : SUBSET IRQ, isr : SUBSET IRQ]
    BY <1>1, <1>2 DEF TypeOK
  <2>2. io' \in [a20 : BOOLEAN, nmi : BOOLEAN, key : {"none", "enter", "other", "release"}]
    BY <1>1 DEF TypeOK
  <2> QED
    BY <1>1, <1>3, <2>1, <2>2 DEF TypeOK
<1>5. pic'.base = pic.base /\ pic'.imr = pic.imr /\ io'.a20 = io.a20
  BY <1>1, <1>2 DEF TypeOK
<1> QED
  BY <1>1, <1>3, <1>4, <1>5 DEF Inv, Machine, Lines, Counted, MemoryCounted, Expected

LEMMA NextInv == Inv /\ [Next]_vars => Inv'
<1> SUFFICES ASSUME Inv, [Next]_vars PROVE Inv'
  OBVIOUS
<1>1. CASE Step
  BY <1>1, EnterInv, ProtectedInv, LeaveInv DEF Step
<1>2. CASE Device
  BY <1>2, DeviceInv
<1>3. ASSUME NEW i \in IRQ, Interrupt(i) PROVE Inv'
  BY <1>3, InterruptInv
<1>4. CASE UNCHANGED vars
  BY <1>4 DEF vars, Inv, TypeOK, Machine, Lines, Counted, MemoryCounted, Expected
<1> QED
  BY <1>1, <1>2, <1>3, <1>4 DEF Next

-----------------------------------------------------------------------------
(* The inductive invariant: pc tells the mode, the table, the base and the *)
(* masks, and how far the count has come.                                  *)
THEOREM Invariance == Spec => []Inv
<1>1. Init => Inv
  BY InitInv
<1>2. Inv /\ [Next]_vars => Inv'
  BY NextInv
<1> QED
  BY <1>1, <1>2, PTL DEF Spec

(* The counters stay natural numbers: ecx, which the loop decrements       *)
(* before it tests it, never begins at 0.                                  *)
THEOREM TypeCorrect == Spec => []TypeOK
<1>1. Inv => TypeOK
  BY DEF Inv
<1> QED
  BY <1>1, Invariance, PTL

(* However requests and steps interleave, an interrupt taken outside the   *)
(* window finds the handler of its mode.                                   *)
THEOREM HandlersAreProper == Spec => []ProperHandler
<1> QED
  BY Proper, Invariance, PTL

(* The megabytes shown are those present, for every memory and however     *)
(* many interrupts the count is taken.                                     *)
THEOREM MemoryIsCounted == Spec => []MemoryCounted
<1>1. Inv => MemoryCounted
  BY DEF Inv, Counted
<1> QED
  BY <1>1, Invariance, PTL
=============================================================================
