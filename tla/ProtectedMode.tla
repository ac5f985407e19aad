----------------------------- MODULE ProtectedMode -----------------------------
(***************************************************************************)
(* os_01/lab_02/prog.asm: the program leaves DOS for protected mode,       *)
(* counts the memory, waits for Enter, and comes back.  A step is a group  *)
(* of instructions between which an interrupt may be taken; the handlers   *)
(* have interrupt gates, so each is one step.                              *)
(*                                                                         *)
(* External: the 8259 (fixed priority; ICW1 forgets requests, services and *)
(* masks), the keyboard controller (one scan code until it is read), the   *)
(* BIOS handlers.  IRQ 2 stands for all lines but those of the timer and   *)
(* the keyboard.  The screen is left out.                                  *)
(***************************************************************************)
EXTENDS Naturals

CONSTANTS MB,   \* bytes of a megabyte (2^20)
          Top   \* megabytes that 32 bits can address (4096)

(* Above the first megabyte, which is skipped, there are bytes to count.   *)
ASSUME SizeAssumption == /\ MB \in Nat \ {0, 1} /\ Top \in Nat \ {0, 1}
                         /\ Top * MB > MB + 2

IRQ == {0, 1, 2}

(* The vectors of the real mode's table (at address 0) at whose place the  *)
(* segment data16 has flag_enter_pr, syml_pos and param_int_8: 192h, 194h, *)
(* 198h.                                                                   *)
Vectors == {100, 101, 102}

VARIABLES pc,    \* the next group of instructions
          cpu,   \* pe, if (interrupts allowed), idtr, gdtr (loaded), ds
          pic,   \* base vector, imr (masked), irr (requested), isr (in service)
          io,    \* a20 (open), nmi (allowed), key (scan code in port 60h)
          data,  \* saved masks, flag_enter_pr, shown (megabytes on the screen),
                 \* ivt (the vectors that are no longer DOS's)
          ebx, ecx,
          ram    \* megabytes present

vars == <<pc, cpu, pic, io, data, ebx, ecx, ram>>

Window == {"mask", "a20", "cli"}   \* base 32, IVT, interrupts allowed
PC == {"start", "gdt", "idt", "save", "icw1", "lidt", "nmi", "pe", "pm_start", "sti",
       "message", "ds", "count", "print", "ret", "process", "return_rm", "segments",
       "base", "restore", "lidt16", "nmi_on", "sti16", "done", "lost", "fault"} \cup Window

Init == /\ pc = "start"
        /\ cpu = [pe |-> FALSE, if |-> TRUE, idtr |-> "ivt", gdtr |-> FALSE, ds |-> "data16"]
        /\ \E imr \in SUBSET {2} : pic = [base |-> 8, imr |-> imr, irr |-> {}, isr |-> {}]
        /\ io = [a20 |-> FALSE, nmi |-> TRUE, key |-> "none"]
        /\ data = [masks |-> {}, flag |-> 0, shown |-> 0, ivt |-> {}]
        /\ ebx = 0 /\ ecx = 0
        /\ ram \in 1..Top

Goto(from, to) == pc = from /\ pc' = to

-----------------------------------------------------------------------------
(* Real mode, on the way in.  The masks are those of both controllers.     *)
start == Goto("start", "gdt") /\ UNCHANGED <<cpu, pic, io, data, ebx, ecx, ram>>

LoadGDT == /\ Goto("gdt", "idt") /\ cpu' = [cpu EXCEPT !.gdtr = TRUE]
           /\ UNCHANGED <<pic, io, data, ebx, ecx, ram>>

FillIDT == Goto("idt", "save") /\ UNCHANGED <<cpu, pic, io, data, ebx, ecx, ram>>

SaveMasks == /\ Goto("save", "icw1") /\ data' = [data EXCEPT !.masks = pic.imr]
             /\ UNCHANGED <<cpu, pic, io, ebx, ecx, ram>>

ICW(base) == pic' = [base |-> base, imr |-> {}, irr |-> {}, isr |-> {}]

Rebase32 == /\ Goto("icw1", "mask") /\ ICW(32)
            /\ UNCHANGED <<cpu, io, data, ebx, ecx, ram>>

MaskOthers == /\ Goto("mask", "a20") /\ pic' = [pic EXCEPT !.imr = {2}]
              /\ UNCHANGED <<cpu, io, data, ebx, ecx, ram>>

(* mutant: the line stays closed.                                          *)
OpenA20_skipped == Goto("a20", "cli") /\ UNCHANGED <<cpu, pic, io, data, ebx, ecx, ram>>

OpenA20 == /\ Goto("a20", "cli") /\ io' = [io EXCEPT !.a20 = TRUE]
           /\ UNCHANGED <<cpu, pic, data, ebx, ecx, ram>>

(* mutant: interrupts stay allowed while the tables change.                *)
Disable_skipped == Goto("cli", "lidt") /\ UNCHANGED <<cpu, pic, io, data, ebx, ecx, ram>>

Disable == /\ Goto("cli", "lidt") /\ cpu' = [cpu EXCEPT !.if = FALSE]
           /\ UNCHANGED <<pic, io, data, ebx, ecx, ram>>

LoadIDT == /\ Goto("lidt", "nmi") /\ cpu' = [cpu EXCEPT !.idtr = "idt"]
           /\ UNCHANGED <<pic, io, data, ebx, ecx, ram>>

ForbidNMI == /\ Goto("nmi", "pe") /\ io' = [io EXCEPT !.nmi = FALSE]
             /\ UNCHANGED <<cpu, pic, data, ebx, ecx, ram>>

SetPE == /\ Goto("pe", "pm_start") /\ cpu' = [cpu EXCEPT !.pe = TRUE]
         /\ UNCHANGED <<pic, io, data, ebx, ecx, ram>>

enter == \/ start \/ LoadGDT \/ FillIDT \/ SaveMasks \/ Rebase32 \/ MaskOthers
         \/ OpenA20 \/ Disable \/ LoadIDT \/ ForbidNMI \/ SetPE

-----------------------------------------------------------------------------
(* Protected mode.                                                         *)
LoadSegments == /\ Goto("pm_start", "sti") /\ cpu' = [cpu EXCEPT !.ds = "data16s"]
                /\ UNCHANGED <<pic, io, data, ebx, ecx, ram>>

Enable == /\ Goto("sti", "message") /\ cpu' = [cpu EXCEPT !.if = TRUE]
          /\ UNCHANGED <<pic, io, data, ebx, ecx, ram>>

print_memory_msg == Goto("message", "ds") /\ UNCHANGED <<cpu, pic, io, data, ebx, ecx, ram>>

(* From here to "ret" ds describes the 4 GB from address 0.                *)
count_memory_proc == /\ Goto("ds", "count")
                     /\ cpu' = [cpu EXCEPT !.ds = "data4gbs"]
                     /\ ebx' = MB + 1 /\ ecx' = Top * MB - MB - 2
                     /\ UNCHANGED <<pic, io, data, ram>>

(* With the line A20 closed an odd megabyte is the even one below it.      *)
Present(addr) == LET mb == addr \div MB
                 IN (IF io.a20 \/ mb % 2 = 0 THEN mb ELSE mb - 1) < ram

count_memory == /\ pc = "count"
                /\ \/ /\ Present(ebx)
                      /\ ebx' = ebx + 1 /\ ecx' = ecx - 1
                      /\ pc' = IF ecx = 1 THEN "print" ELSE "count"
                   \/ ~Present(ebx) /\ pc' = "print" /\ UNCHANGED <<ebx, ecx>>
                /\ UNCHANGED <<cpu, pic, io, data, ram>>

print_memory_counter == /\ Goto("print", "ret")
                        /\ data' = [data EXCEPT !.shown = ebx \div MB]
                        /\ UNCHANGED <<cpu, pic, io, ebx, ecx, ram>>

RestoreDS == /\ Goto("ret", "process") /\ cpu' = [cpu EXCEPT !.ds = "data16s"]
             /\ UNCHANGED <<pic, io, data, ebx, ecx, ram>>

(* The loop on flag_enter_pr, cli and the jump to 16-bit code.             *)
process == /\ Goto("process", "return_rm")
           /\ data.flag = 1
           /\ cpu' = [cpu EXCEPT !.if = FALSE]
           /\ UNCHANGED <<pic, io, data, ebx, ecx, ram>>

protected == \/ LoadSegments \/ Enable \/ print_memory_msg \/ count_memory_proc
             \/ count_memory \/ print_memory_counter \/ RestoreDS \/ process

-----------------------------------------------------------------------------
(* Real mode again.  The line A20 is not closed, whatever its comment says.*)
return_rm == /\ Goto("return_rm", "segments") /\ cpu' = [cpu EXCEPT !.pe = FALSE]
             /\ UNCHANGED <<pic, io, data, ebx, ecx, ram>>

go == /\ Goto("segments", "base") /\ cpu' = [cpu EXCEPT !.ds = "data16"]
      /\ UNCHANGED <<pic, io, data, ebx, ecx, ram>>

Rebase8 == /\ Goto("base", "restore") /\ ICW(8)
           /\ UNCHANGED <<cpu, io, data, ebx, ecx, ram>>

RestoreMasks == /\ Goto("restore", "lidt16") /\ pic' = [pic EXCEPT !.imr = data.masks]
                /\ UNCHANGED <<cpu, io, data, ebx, ecx, ram>>

LoadIVT == /\ Goto("lidt16", "nmi_on") /\ cpu' = [cpu EXCEPT !.idtr = "ivt"]
           /\ UNCHANGED <<pic, io, data, ebx, ecx, ram>>

AllowNMI == /\ Goto("nmi_on", "sti16") /\ io' = [io EXCEPT !.nmi = TRUE]
            /\ UNCHANGED <<cpu, pic, data, ebx, ecx, ram>>

Finish == /\ Goto("sti16", "done") /\ cpu' = [cpu EXCEPT !.if = TRUE]
          /\ UNCHANGED <<pic, io, data, ebx, ecx, ram>>

leave == return_rm \/ go \/ Rebase8 \/ RestoreMasks \/ LoadIVT \/ AllowNMI \/ Finish

-----------------------------------------------------------------------------
(* The gates: one descriptor of 0..12 and one of 14..31 get an offset; the *)
(* rest keep offset 0, which is pm_start.                                  *)
Gate(v) == CASE v \in {0, 14} -> "except_1"
             [] v = 13        -> "except_13"
             [] v = 32        -> "new_int08"
             [] v = 33        -> "new_int09"
             [] v \in 1..31   -> "pm_start"
             [] OTHER         -> "none"

(* Where the controller's request i goes.                                  *)
Handler(i) == IF cpu.idtr = "ivt" /\ ~cpu.pe
              THEN IF pic.base = 8 THEN "bios" ELSE "dos"
              ELSE IF cpu.idtr = "idt" /\ cpu.pe /\ cpu.gdtr
                   THEN Gate(pic.base + i) ELSE "none"

Running == pc \notin {"done", "lost", "fault"}

Taken(i) == /\ Running /\ cpu.if
            /\ i \in pic.irr \ pic.imr
            /\ \A j \in pic.irr \ pic.imr : i <= j
            /\ \A j \in pic.isr : i < j

(* The request is served and the end of interrupt sent.                    *)
Served(i) == pic' = [pic EXCEPT !.irr = @ \ {i}]

ReadPort60 == io' = [io EXCEPT !.key = "none"]

bios(i) == /\ Taken(i) /\ Handler(i) = "bios"
           /\ Served(i)
           /\ IF i = 1 THEN ReadPort60 ELSE UNCHANGED io
           /\ UNCHANGED <<pc, cpu, data, ebx, ecx, ram>>

(* The handlers' variables are those of whatever ds is: during the count   *)
(* they are bytes of the real mode's vector table.                         *)
InTable == cpu.ds = "data4gbs"

(* param_int_8 is rotated: the byte is another one, or the same again (all *)
(* its bits equal, or once around).                                        *)
Rotated == IF InTable THEN {data.ivt \cup {102}, data.ivt \ {102}} ELSE {data.ivt}

(* mutant: no end of interrupt.                                            *)
new_int08_no_eoi ==
  /\ Taken(0) /\ Handler(0) = "new_int08"
  /\ pic' = [pic EXCEPT !.irr = @ \ {0}, !.isr = {0}]
  /\ \E ivt \in Rotated : data' = [data EXCEPT !.ivt = ivt]
  /\ UNCHANGED <<pc, cpu, io, ebx, ecx, ram>>

(* The cursor; its colour is param_int_8.                                  *)
new_int08 == /\ Taken(0) /\ Handler(0) = "new_int08"
             /\ Served(0)
             /\ \E ivt \in Rotated : data' = [data EXCEPT !.ivt = ivt]
             /\ UNCHANGED <<pc, cpu, io, ebx, ecx, ram>>

(* mutant: add instead of or.                                              *)
Flag_add == IF io.key = "enter" /\ ~InTable THEN data.flag + 1 ELSE data.flag

Flag == IF io.key = "enter" /\ ~InTable THEN 1 ELSE data.flag

(* What the write to flag_enter_pr (a bit that may be set already) or to   *)
(* syml_pos (two more than it was) leaves of the vectors.                  *)
Typed == CASE InTable /\ io.key = "enter" -> {data.ivt, data.ivt \cup {100}}
           [] InTable /\ io.key = "other" -> {data.ivt \cup {101}}
           [] OTHER                       -> {data.ivt}

(* mutant: ebx is not among the saved registers.                           *)
new_int09_ebx ==
  /\ Taken(1) /\ Handler(1) = "new_int09"
  /\ Served(1) /\ ReadPort60
  /\ ebx' = IF io.key = "other" THEN 0 ELSE ebx
  /\ \E ivt \in Typed : data' = [data EXCEPT !.flag = Flag, !.ivt = ivt]
  /\ UNCHANGED <<pc, cpu, ecx, ram>>

(* The syml_pos of the count may be past the limit of the video segment,   *)
(* and the fault is met again and again, for except_13 returns to the      *)
(* instruction.  (Bound: fewer characters are typed than the 1600 after    *)
(* which the program's own syml_pos is past it too.)                       *)
new_int09 ==
  /\ Taken(1) /\ Handler(1) = "new_int09"
  /\ Served(1) /\ ReadPort60
  /\ \/ /\ \E ivt \in Typed : data' = [data EXCEPT !.flag = Flag, !.ivt = ivt]
        /\ UNCHANGED pc
     \/ io.key = "other" /\ InTable /\ pc' = "fault" /\ UNCHANGED data
  /\ UNCHANGED <<cpu, ebx, ecx, ram>>

(* A request that meets no handler of its own.                             *)
Lost(i) == /\ Taken(i) /\ Handler(i) \notin {"bios", "new_int08", "new_int09"}
           /\ pc' = "lost"
           /\ UNCHANGED <<cpu, pic, io, data, ebx, ecx, ram>>

Interrupt(i) == \/ bios(i) \/ Lost(i)
                \/ i = 0 /\ new_int08
                \/ i = 1 /\ new_int09

(* The devices.                                                            *)
Request(i) == /\ Running
              /\ pic' = [pic EXCEPT !.irr = @ \cup {i}]
              /\ UNCHANGED <<pc, cpu, data, ebx, ecx, ram>>

Device == \/ \E i \in IRQ \ {1} : Request(i) /\ UNCHANGED io
          \/ /\ io.key = "none"
             /\ \E k \in {"enter", "other", "release"} : io' = [io EXCEPT !.key = k]
             /\ Request(1)

Step == enter \/ protected \/ leave
Next == Step \/ Device \/ \E i \in IRQ : Interrupt(i)

(* Ticks are rarer than their handler is long: they let the program and    *)
(* the keyboard go on.                                                     *)
Spec == Init /\ [][Next]_vars
FairSpec == Spec /\ WF_vars(Step) /\ \A i \in IRQ : SF_vars(Interrupt(i))

-----------------------------------------------------------------------------
TypeOK ==
  /\ pc \in PC
  /\ cpu \in [pe : BOOLEAN, if : BOOLEAN, idtr : {"ivt", "idt"}, gdtr : BOOLEAN,
              ds : {"data16", "data16s", "data4gbs"}]
  /\ pic \in [base : {8, 32}, imr : SUBSET IRQ, irr : SUBSET IRQ, isr : SUBSET IRQ]
  /\ io \in [a20 : BOOLEAN, nmi : BOOLEAN, key : {"none", "enter", "other", "release"}]
  /\ data \in [masks : SUBSET IRQ, flag : {0, 1}, shown : Nat,
               ivt : SUBSET Vectors]
  /\ ebx \in Nat /\ ecx \in Nat /\ ram \in 1..Top

(* Whatever line asks, and whenever, an interrupt that can be taken has    *)
(* its handler in the current mode, table and base -- but between the new  *)
(* base and cli, where the real mode's table answers vectors 32 and up.    *)
ProperHandler ==
  \A i \in IRQ : cpu.if /\ i \notin pic.imr /\ pc \notin Window \cup {"lost"} =>
                    Handler(i) \in {"bios", "new_int08", "new_int09"}

(* The megabytes shown are those present, interrupts or not; of 4 GB the   *)
(* last byte is not counted, nor then the last megabyte.                   *)
MemoryCounted ==
  data.shown # 0 => data.shown = IF ram = Top THEN Top - 1 ELSE ram

(* The processor, the controller and the masks are DOS's again.  The line  *)
(* A20 is not, nor are the vectors in data.ivt.                            *)
HandedBack == /\ cpu = [pe |-> FALSE, if |-> TRUE, idtr |-> "ivt", gdtr |-> TRUE, ds |-> "data16"]
              /\ pic.base = 8 /\ pic.imr = data.masks
              /\ io.nmi

(* An Enter whose request waits once the memory is counted ends the        *)
(* program, however many ticks come in front of it, and DOS gets back its  *)
(* processor, controller and masks -- with A20 open, and with the vectors  *)
(* that ticks and keys overwrote during the count as they left them: no    *)
(* interrupt after the count touches another one, and nothing restores     *)
(* those.                                                                  *)
EnterLeaves ==
  \A v \in SUBSET Vectors :
    pc = "process" /\ io.key = "enter" /\ 1 \in pic.irr /\ data.ivt = v
      ~> pc = "done" /\ HandedBack /\ data.ivt = v
=============================================================================
