--------------------------- MODULE BoundedBuffer ---------------------------
(***************************************************************************)
(* What the producer/consumer program of os_01/lab_05/01.c promises:  a    *)
(* first-in first-out buffer of capacity N.  Producer p puts the values    *)
(* Base[p], Base[p]+1, ... (Count[p] of them), consumer c takes Count[c]   *)
(* values.  Semaphores, shared memory and processes are not visible here.  *)
(***************************************************************************)
EXTENDS Integers, Sequences

CONSTANTS Producers, Consumers, \* the two kinds of process
          Count,                \* [process -> number of its operations]
          Base,                 \* [producer -> its first value]
          N                     \* capacity of the buffer

VARIABLES queue,  \* the values put and not yet taken, oldest first
          put,    \* [producer -> number of values it has put]
          got     \* [consumer -> the values it has taken, in order]

vars == <<queue, put, got>>

Init == /\ queue = << >>
        /\ put = [p \in Producers |-> 0]
        /\ got = [c \in Consumers |-> << >>]

Put(p) == /\ put[p] < Count[p]
          /\ Len(queue) < N
          /\ queue' = Append(queue, Base[p] + put[p])
          /\ put' = [put EXCEPT ![p] = @ + 1]
          /\ UNCHANGED got

Get(c) == /\ Len(got[c]) < Count[c]
          /\ queue # << >>
          /\ got' = [got EXCEPT ![c] = Append(@, Head(queue))]
          /\ queue' = Tail(queue)
          /\ UNCHANGED put

Next == \/ \E p \in Producers : Put(p)
        \/ \E c \in Consumers : Get(c)

Spec == Init /\ [][Next]_vars
=============================================================================
