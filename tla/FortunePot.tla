------------------------------ MODULE FortunePot ------------------------------
(***************************************************************************)
(* os_02/lab_04/src/part_02: fort_proc.c and fort_seq.c, two modules that  *)
(* keep "cookies" in a pot and show one at each read of a /proc file.      *)
(* They differ in which index is which, in the lines they show and in the  *)
(* order of a load; variant says which one is loaded.  No lock is taken:   *)
(* a call is two steps, before and after its index moves.                  *)
(*                                                                         *)
(* External: a byte outside the pot or of a freed pot is an oops; the file *)
(* can be called from its creation on; remove_proc_entry() waits for the   *)
(* calls that run and lets no other begin; copy_from_user() that fails has *)
(* copied the first bytes, if any, and clears the others.  Cookies are     *)
(* text, without NUL.                                                      *)
(***************************************************************************)
EXTENDS Integers, Sequences, FiniteSets

CONSTANTS MAX_COOKIE_LEN, MaxLen,  \* the longest cookie written, with its newline
          Prefix,                  \* length of "seq: "
          Callers

ASSUME PotAssumption == /\ MAX_COOKIE_LEN \in Nat \ {0} /\ MaxLen \in Nat \ {0}
                        /\ Prefix \in Nat \ {0} /\ IsFiniteSet(Callers)

Pot == 0..(MAX_COOKIE_LEN - 1)
Lens == 0..MaxLen

VARIABLES variant, \* "proc" or "seq"
          module,  \* the next call of init or of cleanup
          entries, \* what exists in /proc
          pot,     \* "none", "live" or "freed"
          nul,     \* the cells of the pot that are NUL; text elsewhere
          cookie_index, next_fortune,
          call,    \* [caller -> its call, between its two steps]
          raced,   \* two calls have overlapped, or a call and a load or unload
          \* History, until calls race:
          cookies, \* where the cookies written end: the cells behind the NULs
          turn     \* fort_proc: how many of them have been shown, in this round

vars == <<variant, module, entries, pot, nul, cookie_index, next_fortune, call, raced,
          cookies, turn>>
state == <<nul, cookie_index, next_fortune, cookies, turn>>

Idle == [op |-> "none", len |-> 0, at |-> 0]

Init == /\ variant \in {"proc", "seq"}
        /\ module = "vmalloc"
        /\ entries = {} /\ pot = "none" /\ nul = {}
        /\ cookie_index = 0 /\ next_fortune = 0
        /\ call = [c \in Callers |-> Idle]
        /\ raced = FALSE
        /\ cookies = <<>> /\ turn = 0

Put == IF variant = "proc" THEN next_fortune ELSE cookie_index   \* where cookies go
Get == IF variant = "proc" THEN cookie_index ELSE next_fortune   \* where they come from

Set(put, get) == IF variant = "proc" THEN next_fortune' = put /\ cookie_index' = get
                                     ELSE cookie_index' = put /\ next_fortune' = get

Remember(written, next) == IF raced' THEN cookies' = <<>> /\ turn' = 0
                                     ELSE cookies' = written /\ turn' = next

-----------------------------------------------------------------------------
(* init: every step may fail, and what was done is then undone.            *)
Busy == \E c \in Callers : call[c] # Idle

(* mutant: memset() clears one byte more than there is.                    *)
Vmalloc_one_more ==
  /\ module = "vmalloc"
  /\ \/ /\ pot' = "live" /\ module' = "dir"
        /\ nul' = IF variant = "seq" THEN 0..MAX_COOKIE_LEN ELSE {}
     \/ module' = "out" /\ UNCHANGED <<pot, nul>>
  /\ UNCHANGED <<variant, entries, cookie_index, next_fortune, call, raced, cookies, turn>>

Vmalloc == /\ module = "vmalloc"
           /\ \/ /\ pot' = "live" /\ module' = "dir"
                 /\ nul' = IF variant = "seq" THEN Pot ELSE {}
              \/ module' = "out" /\ UNCHANGED <<pot, nul>>
           /\ UNCHANGED <<variant, entries, cookie_index, next_fortune, call, raced,
                          cookies, turn>>

Create(what, next) ==
  /\ module = what
  /\ \/ entries' = entries \cup {what} /\ module' = next
     \/ module' = "vfree" /\ UNCHANGED entries
  /\ UNCHANGED <<variant, pot, state, call, raced>>

(* The file is there already: what was written to it is forgotten.         *)
Reset == /\ module = "reset" /\ module' = "in"
         /\ cookie_index' = 0 /\ next_fortune' = 0
         /\ nul' = IF variant = "proc" THEN Pot ELSE nul
         /\ cookies' = <<>> /\ turn' = 0
         /\ raced' = (raced \/ Busy)
         /\ UNCHANGED <<variant, entries, pot, call>>

init_module == \/ Vmalloc \/ Reset
               \/ Create("dir", "file") \/ Create("file", "link") \/ Create("link", "reset")

(* cleanup: the pot first, then what has been created.                     *)
Unload == /\ module = "in" /\ module' = "vfree"
          /\ UNCHANGED <<variant, entries, pot, state, call, raced>>

Vfree == /\ module = "vfree" /\ module' = "rm_link"
         /\ pot' = "freed"
         /\ raced' = (raced \/ Busy)
         /\ UNCHANGED <<variant, entries, state, call>>

Remove(from, what, next) ==
  /\ module = from /\ module' = next
  /\ what = "file" => ~Busy
  /\ entries' = entries \ {what}
  /\ UNCHANGED <<variant, pot, state, call, raced>>

(* mutant: a load that fails does not come to the directory.               *)
cleanup_no_dir == \/ Vfree
                  \/ Remove("rm_link", "link", "rm_file") \/ Remove("rm_file", "file", "out")

cleanup_module == \/ Vfree
                  \/ Remove("rm_link", "link", "rm_file") \/ Remove("rm_file", "file", "rm_dir")
                  \/ Remove("rm_dir", "dir", "out")

-----------------------------------------------------------------------------
Callable == "file" \in entries /\ module # "oops"

Begin(c, cl) == /\ Callable /\ call[c] = Idle
                /\ call' = [call EXCEPT ![c] = cl]
                /\ raced' = (raced \/ Busy \/ module # "in")

Oops == module' = "oops" /\ UNCHANGED <<state, call, raced>>

(* abl_spc counts from cookie_index in both modules, is one too large, and *)
(* is unsigned when compared: a negative space is ample.                   *)
Space == MAX_COOKIE_LEN - cookie_index + 1

(* write up to the copy.  ENOSPC leaves all as it was.                     *)
WriteCopies(c, len) ==
  /\ Callable /\ call[c] = Idle
  /\ Space < 0 \/ Space >= len
  /\ IF (pot = "freed" /\ len > 0) \/ Put + len > MAX_COOKIE_LEN
     THEN Oops
     ELSE /\ Begin(c, [op |-> "write", len |-> len, at |-> Put])
          /\ nul' = nul \ (Put..(Put + len - 1))
          /\ Remember(cookies, turn)
          /\ UNCHANGED <<module, cookie_index, next_fortune>>
  /\ UNCHANGED <<variant, entries, pot>>

(* EFAULT: the index stays, behind it are the first bytes and zeroes.      *)
WriteFaults(c, len) ==
  /\ Callable /\ call[c] = Idle
  /\ Space < 0 \/ Space >= len
  /\ pot # "freed" /\ Put + len <= MAX_COOKIE_LEN
  /\ \E copied \in 0..(len - 1) :
        nul' = (nul \ (Put..(Put + copied - 1))) \cup ((Put + copied)..(Put + len - 1))
  /\ raced' = (raced \/ Busy \/ module # "in")
  /\ Remember(cookies, turn)
  /\ UNCHANGED <<variant, module, entries, pot, cookie_index, next_fortune, call>>

(* The index moves -- from its old value, if another call moved it while   *)
(* this one did -- and the last byte becomes the terminator; the byte      *)
(* before the pot, if nothing has been written.                            *)
WriteAdvances(c) ==
  /\ call[c].op = "write" /\ module # "oops"
  /\ \E from \in {Put, call[c].at} :
        LET end == from + call[c].len
        IN IF pot = "freed" \/ end = 0 \/ end > MAX_COOKIE_LEN
           THEN Oops
           ELSE /\ Set(end, Get)
                /\ nul' = nul \cup {end - 1}
                /\ call' = [call EXCEPT ![c] = Idle]
                /\ UNCHANGED <<module, raced>>
                /\ Remember(IF call[c].len = 0 THEN cookies ELSE Append(cookies, end), turn)
  /\ UNCHANGED <<variant, entries, pot>>

(* mutant: after the last cookie, the index is left behind it.             *)
Start_late == IF Put < Get THEN 0 ELSE Get

(* read: the index starts again behind the last cookie; then the text up   *)
(* to the next NUL is shown.                                               *)
Start == IF Put <= Get THEN 0 ELSE Get
Ends(from) == {n \in nul : n >= from /\ \A m \in nul : m >= from => n <= m}

(* The length sprintf() returns: a newline takes the place of the NUL.     *)
(* (snprintf() of fort_seq counts what tmp had no room for.)               *)
Shown(from, end) == (IF variant = "seq" THEN Prefix ELSE 0) + end - from + 1

(* Newline and NUL make a cookie that fills the pot too long for tmp by    *)
(* one (fort_proc).  That byte was 0 or unused; or is the low one of       *)
(* next_fortune, 0 already if the pot is full; or anything, an oops.       *)
Overflows(end) == variant = "proc" /\ end - Start + 2 > MAX_COOKIE_LEN

ReadShows(c) ==
  /\ Callable /\ call[c] = Idle
  /\ Put # 0
  /\ \/ /\ pot = "freed" \/ Ends(Start) = {} \/ \E end \in Ends(Start) : Overflows(end)
        /\ Oops
     \/ /\ pot # "freed"
        /\ \E end \in Ends(Start) :
              /\ Begin(c, [op |-> "read", len |-> Shown(Start, end), at |-> Start])
              /\ \E put \in IF Overflows(end) /\ Put < MAX_COOKIE_LEN THEN 0..Put ELSE {Put} :
                    Set(put, Start)
        /\ Remember(cookies, IF turn = Len(cookies) THEN 0 ELSE turn)
        /\ UNCHANGED <<module, nul>>
  /\ UNCHANGED <<variant, entries, pot>>

(* copy_to_user() fails (fort_proc.c only): the cookie is shown again.     *)
ReadFails(c) == /\ call[c].op = "read" /\ variant = "proc" /\ module # "oops"
                /\ call' = [call EXCEPT ![c] = Idle]
                /\ UNCHANGED <<variant, module, entries, pot, state, raced>>

ReadAdvances(c) == /\ call[c].op = "read" /\ module # "oops"
                   /\ \E from \in {Get, call[c].at} : Set(Put, from + call[c].len)
                   /\ call' = [call EXCEPT ![c] = Idle]
                   /\ UNCHANGED <<variant, module, entries, pot, nul, raced>>
                   /\ Remember(cookies, IF variant = "proc" THEN turn + 1 ELSE turn)

Next == \/ init_module \/ Unload \/ cleanup_module
        \/ \E c \in Callers : \/ \E len \in Lens : WriteCopies(c, len) \/ WriteFaults(c, len)
                              \/ WriteAdvances(c)
                              \/ ReadShows(c) \/ ReadFails(c) \/ ReadAdvances(c)

Spec == Init /\ [][Next]_vars

-----------------------------------------------------------------------------
(* The index at which cookies go in stays in the pot, whatever races; that *)
(* of the next one to show is as far behind it as overlapping reads, each  *)
(* of which adds its length, can push it.                                  *)
TypeOK ==
  /\ variant \in {"proc", "seq"}
  /\ module \in {"vmalloc", "dir", "file", "link", "reset", "in", "vfree",
                 "rm_link", "rm_file", "rm_dir", "out", "oops"}
  /\ entries \subseteq {"dir", "file", "link"}
  /\ pot \in {"none", "live", "freed"}
  /\ nul \subseteq Pot
  /\ Put \in 0..MAX_COOKIE_LEN
  /\ Get \in 0..(Cardinality(Callers) * (MAX_COOKIE_LEN + Prefix))
  /\ call \in [Callers -> [op : {"none", "write", "read"}, len : Nat, at : Nat]]
  /\ raced \in BOOLEAN
  /\ cookies \in Seq(1..MAX_COOKIE_LEN) /\ turn \in 0..Len(cookies)

(* As long as calls do not overlap, each read of fort_proc shows one whole *)
(* cookie, none of them left out or twice, in the order of the writes and  *)
(* from the first again after the last; writes that failed half way, wrote *)
(* nothing or filled the pot, and reads that failed, change nothing in     *)
(* this.  Each read of fort_seq, which moves on too far, shows the rest of *)
(* one cookie.                                                             *)
End(k) == IF k = 0 THEN 0 ELSE cookies[k]

CookiesWhole ==
  ~raced /\ module = "in" =>
    \A c \in Callers : call[c].op = "read" =>
      IF variant = "proc"
      THEN /\ turn < Len(cookies)
           /\ call[c].at = End(turn) /\ call[c].at + call[c].len = End(turn + 1)
      ELSE \E k \in 1..Len(cookies) :
              /\ End(k - 1) <= call[c].at /\ call[c].at < End(k)
              /\ call[c].at + call[c].len = End(k) + Prefix

(* A load that fails at any of its steps, and an unload, leave nothing in  *)
(* /proc, no call inside and no pot.                                       *)
NothingLeft == module = "out" => entries = {} /\ ~Busy /\ pot # "live"
=============================================================================
