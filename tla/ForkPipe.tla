------------------------------- MODULE ForkPipe -------------------------------
(***************************************************************************)
(* os_01/lab_04/src/01.c ... 05.c: a parent and REP_N children that sleep  *)
(* (01, 02), exec another program (03) or write to a pipe (04, 05; in 05   *)
(* only after a SIGINT).  The five share the loop that forks and the loop  *)
(* that waits; program says which of them runs.                            *)
(*                                                                         *)
(* External: wait() takes any ended child and returns at once when there   *)
(* is none; a pipe ends when its last write end is closed, and a write to  *)
(* a pipe that nobody can read kills; a write this short is not split; a   *)
(* signal before its handler is installed, as in 01 ... 04, is left out;   *)
(* the program that 03 executes ends.                                      *)
(***************************************************************************)
EXTENDS Naturals, Sequences

CONSTANT REP_N

ASSUME REP_NAssumption == REP_N \in Nat \ {0, 1}

Children == 1..REP_N
Procs    == 0..REP_N    \* 0 is the parent
Programs == {"01", "02", "03", "04", "05"}

VARIABLES program, parent, \* pc of the parent
          i,               \* index of the parent's loops
          child,           \* [child -> pc, or what became of it]
          mode,            \* [process -> has caught a SIGINT]
          ends,            \* the processes that hold "read", "write" ends
          pipe, buffer     \* bytes; a byte is the child that wrote it

vars == <<program, parent, i, child, mode, ends, pipe, buffer>>
files == <<mode, ends, pipe, buffer>>

Returned == {"ok", "failed"}
Over     == {"none", "zombie", "reaped", "orphaned"}  \* not a running child

Init == /\ program \in Programs
        /\ parent = IF program \in {"04", "05"} THEN "pipe" ELSE "fork"
        /\ i = 1
        /\ child = [c \in Children |-> "none"]
        /\ mode = [p \in Procs |-> FALSE]
        /\ ends = [read |-> {}, write |-> {}]
        /\ pipe = <<>> /\ buffer = <<>>

Msg(c) == [k \in 1..c |-> c]      \* messages of different lengths

ClosedBy(P, which) == [e \in {"read", "write"} |-> IF e \in which THEN ends[e] \ P ELSE ends[e]]

-----------------------------------------------------------------------------
(* return, from wherever: descriptors are closed, and the children left    *)
(* belong to init.                                                         *)
Return(how) == /\ parent' = how
               /\ ends' = ClosedBy({0}, {"read", "write"})
               /\ child' = [c \in Children |-> IF child[c] = "zombie" THEN "orphaned" ELSE child[c]]
               /\ UNCHANGED <<program, i, mode, pipe, buffer>>

(* pipe(), and in 05 the handler of SIGINT.                                *)
MakePipe == /\ parent = "pipe"
            /\ \/ /\ parent' = "fork"
                  /\ ends' = [read |-> {0}, write |-> {0}]
                  /\ UNCHANGED <<program, i, child, mode, pipe, buffer>>
               \/ Return("failed")

AfterForks == CASE program = "01" -> "leave"
                [] program \in {"02", "03", "05"} -> "wait"
                [] program = "04" -> "close"

(* The child gets the parent's descriptors and its mode.                   *)
Fork == /\ parent = "fork" /\ i <= REP_N
        /\ child' = [child EXCEPT ![i] = "run"]
        /\ mode' = [mode EXCEPT ![i] = mode[0]]
        /\ ends' = [e \in {"read", "write"} |->
                       IF 0 \in ends[e] THEN ends[e] \cup {i} ELSE ends[e]]
        /\ parent' = IF program = "03" THEN "wait_in_loop" ELSE "fork"
        /\ i' = IF program = "03" THEN i ELSE i + 1
        /\ UNCHANGED <<program, pipe, buffer>>

ForkFails == parent = "fork" /\ i <= REP_N /\ Return("failed")

Forked == /\ parent = "fork" /\ i > REP_N
          /\ parent' = AfterForks /\ i' = 1
          /\ UNCHANGED <<program, child, files>>

(* mutant: wait() is not waited for.                                       *)
Wait_nohang == UNCHANGED child

Wait == \/ \E c \in Children : child[c] = "zombie" /\ child' = [child EXCEPT ![c] = "reaped"]
        \/ /\ \A c \in Children : child[c] \in {"none", "reaped"}
           /\ UNCHANGED child

(* The wait of 03 between two forks.                                       *)
WaitInLoop == /\ parent = "wait_in_loop"
              /\ Wait
              /\ parent' = "fork" /\ i' = i + 1
              /\ UNCHANGED <<program, files>>

(* mutant: i <= REP_N in the loop that waits.                              *)
WaitAll_one_more == /\ parent = "wait" /\ i <= REP_N + 1
                    /\ Wait
                    /\ i' = i + 1
                    /\ UNCHANGED <<program, parent, files>>

(* The loop after the forks; for 03 every wait() of it finds no child.     *)
WaitAll == /\ parent = "wait" /\ i <= REP_N
           /\ Wait
           /\ i' = i + 1
           /\ UNCHANGED <<program, parent, files>>

Waited == /\ parent = "wait" /\ i > REP_N
          /\ parent' = IF program = "05" THEN "close" ELSE "leave"
          /\ UNCHANGED <<program, i, child, files>>

(* mutant: the parent keeps its write end.                                 *)
CloseWriteEnd_skipped ==
  /\ parent = "close" /\ parent' = "read"
  /\ UNCHANGED <<program, i, child, mode, ends, pipe, buffer>>

CloseWriteEnd == /\ parent = "close" /\ parent' = "read"
                 /\ ends' = ClosedBy({0}, {"write"})
                 /\ UNCHANGED <<program, i, child, mode, pipe, buffer>>

(* read_message() of 04: byte after byte to the end of the pipe.  index    *)
(* counts the read that found the end too, so a byte that nobody wrote,    *)
(* 0 here, comes before the terminator.                                    *)
read_message == /\ program = "04" /\ parent = "read"
                /\ \/ /\ pipe # <<>>
                      /\ buffer' = Append(buffer, Head(pipe)) /\ pipe' = Tail(pipe)
                      /\ UNCHANGED parent
                   \/ /\ pipe = <<>> /\ ends.write = {}
                      /\ buffer' = Append(buffer, 0)
                      /\ parent' = "wait" /\ UNCHANGED pipe
                /\ UNCHANGED <<program, i, child, mode, ends>>

(* The one read() of 05.                                                   *)
ReadOnce == /\ program = "05" /\ parent = "read"
            /\ pipe # <<>> \/ ends.write = {}
            /\ buffer' = pipe /\ pipe' = <<>>
            /\ parent' = "leave"
            /\ UNCHANGED <<program, i, child, mode, ends>>

Leave == parent = "leave" /\ Return("ok")

Parent == \/ MakePipe \/ Fork \/ Forked \/ WaitInLoop \/ WaitAll \/ Waited
          \/ CloseWriteEnd \/ read_message \/ ReadOnce \/ Leave

-----------------------------------------------------------------------------
Ends(c) == /\ child' = [child EXCEPT ![c] = IF parent \in Returned THEN "orphaned" ELSE "zombie"]
           /\ ends' = ClosedBy({c}, {"read", "write"})
           /\ UNCHANGED <<program, parent, i, mode, pipe, buffer>>

(* 01, 02: sleep() and a line; 03: execvp(), whether it fails or not.      *)
Sleeps == program \in {"01", "02"}
Execs  == program = "03"

(* 04 closes its read end first; 05 looks at mode before.                  *)
ClosesReadEnd(c) == /\ child[c] = "run"
                    /\ program = "04" \/ (program = "05" /\ mode[c])
                    /\ child' = [child EXCEPT ![c] = "write"]
                    /\ ends' = ClosedBy({c}, {"read"})
                    /\ UNCHANGED <<program, parent, i, mode, pipe, buffer>>

NoSignal(c) == program = "05" /\ ~mode[c]

Writes(c) == /\ child[c] = "write"
             /\ IF ends.read = {}
                THEN Ends(c)                                     \* SIGPIPE
                ELSE /\ pipe' = pipe \o Msg(c)
                     /\ child' = [child EXCEPT ![c] = "return"]
                     /\ UNCHANGED <<program, parent, i, mode, ends, buffer>>

(* The child's return; or it is killed, wherever it is.                    *)
Exits(c) == /\ \/ child[c] = "return"
               \/ child[c] = "run" /\ (Sleeps \/ Execs \/ NoSignal(c))
            /\ Ends(c)

Killed(c) == child[c] \notin Over /\ Ends(c)

Child(c) == ClosesReadEnd(c) \/ Writes(c) \/ Exits(c)

(* SIGINT in 05, to a process that runs: the parent's wait() goes on.      *)
sigint_catcher(p) == /\ program = "05"
                     /\ IF p = 0 THEN parent \notin Returned \cup {"pipe"} ELSE child[p] \notin Over
                     /\ mode' = [mode EXCEPT ![p] = TRUE]
                     /\ UNCHANGED <<program, parent, i, child, ends, pipe, buffer>>

Next == \/ Parent \/ ForkFails
        \/ \E c \in Children : Child(c) \/ Killed(c)
        \/ \E p \in Procs : sigint_catcher(p)

Spec == Init /\ [][Next]_vars
FairSpec == Spec /\ WF_vars(Parent) /\ \A c \in Children : WF_vars(Child(c))

-----------------------------------------------------------------------------
TypeOK == /\ program \in Programs
          /\ parent \in {"pipe", "fork", "wait_in_loop", "wait", "close", "read", "leave"}
                        \cup Returned
          /\ i \in 1..(REP_N + 1)
          /\ child \in [Children -> {"run", "write", "return"} \cup Over]
          /\ mode \in [Procs -> BOOLEAN]
          /\ ends \in [{"read", "write"} -> SUBSET Procs]
          /\ pipe \in Seq(Children) /\ buffer \in Seq(Procs)
          /\ \A c \in Children : child[c] \in Over =>
                                    c \notin ends.read \cup ends.write

(* The bytes of each child are together and all there, or none is.         *)
Whole(s) == \A c \in Children : \A k \in DOMAIN s :
               s[k] = c => \E a \in 1..k : /\ k < a + c
                                           /\ a + c - 1 <= Len(s)
                                           /\ SubSeq(s, a, a + c - 1) = Msg(c)

(* A parent that comes to its end, in any order of its children's writes   *)
(* and ends, has waited for each of them (but in 01) and has read all they *)
(* wrote, message by message; 03 ran one child at a time.                  *)
AllCollected ==
  /\ parent = "ok" /\ program # "01" => \A c \in Children : child[c] = "reaped"
  /\ parent = "ok" => pipe = <<>> /\ Whole(buffer)
  /\ program = "03" => \A c \in Children : \/ child[c] \in Over \ {"orphaned"}
                                           \/ parent \in Returned \cup {"wait_in_loop"} /\ c = i

(* Whoever fails or is killed, the parent never waits for a child or for   *)
(* the end of the pipe for ever.                                           *)
ParentReturns == <>(parent \in Returned)
=============================================================================
