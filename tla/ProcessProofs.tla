------------------------------ MODULE ProcessProofs ------------------------------
(***************************************************************************)
(* Proofs about the two components made of processes of one user.          *)
(* ForkPipe, for every number of children: what a parent that comes to its *)
(* end has waited for and has read.  Daemon, for any number of copies: who *)
(* holds the lock of the lock file.  The two share no variable.            *)
(***************************************************************************)
EXTENDS ForkPipe, Daemon, FiniteSetTheorems, SequenceTheorems, TLAPS

-----------------------------------------------------------------------------
(***************************************************************************)
(* ForkPipe                                                                *)
(***************************************************************************)

Piped == program \in {"04", "05"}
Reaped == {c \in Children : child[c] = "reaped"}
Running == {"run", "write", "return"}

(* The way of each program through main.                                   *)
Way ==
  /\ parent = "pipe" => Piped /\ i = 1
  /\ parent = "wait_in_loop" => program = "03" /\ i <= REP_N
  /\ parent \in {"close", "read"} => Piped /\ (program = "04" => i = 1)
  /\ parent = "wait" => program # "01"

(* Which children there are, by the loop that forks.                       *)
Born ==
  /\ parent = "pipe" => \A c \in Children : child[c] = "none"
  /\ parent = "fork" => \A c \in Children : child[c] = "none" <=> c >= i
  /\ parent = "wait_in_loop" => \A c \in Children : child[c] = "none" <=> c > i
  /\ parent \in {"wait", "close", "read", "leave"} => \A c \in Children : child[c] # "none"

(* 03 has one child at a time.                                             *)
OneAtATime ==
  program = "03" =>
    \A c \in Children : \/ child[c] \in {"none", "reaped"}
                        \/ parent = "wait_in_loop" /\ c = i /\ child[c] \in {"run", "zombie"}

(* Only 04 and 05 have a pipe; a child that may still write has its write  *)
(* end, and a child to come gets the parent's.                             *)
WriteEnds ==
  /\ ~Piped => /\ pipe = <<>> /\ buffer = <<>>
               /\ \A c \in Children : child[c] \notin {"write", "return"}
  /\ Piped => /\ parent = "fork" => 0 \in ends.write
              /\ \A c \in Children : child[c] \in {"run", "write"} => c \in ends.write

(* Each wait() has found a child of its own, or there is none left.        *)
Waits ==
  /\ parent = "wait" /\ program # "03" => Cardinality(Reaped) >= i - 1
  /\ \/ program \in {"02", "04"} /\ parent \in {"leave", "ok"}
     \/ program = "05" /\ parent \in {"close", "read", "leave", "ok"}
     \/ program = "03" /\ parent \in {"wait", "leave", "ok"}
     => \A c \in Children : child[c] = "reaped"

(* What was written is whole, whatever of it has been read; at the end of  *)
(* the pipe nobody can write to it.                                        *)
Messages ==
  /\ Whole(buffer \o pipe)
  /\ program = "05" /\ parent \notin {"leave", "ok"} => buffer = <<>>
  /\ program = "05" /\ parent \in {"leave", "ok"} => pipe = <<>>
  /\ program = "04" /\ parent \in {"wait", "leave", "ok"} =>
        /\ pipe = <<>>
        /\ \A c \in Children : child[c] \notin {"run", "write"}

Inv == TypeOK /\ Way /\ Born /\ OneAtATime /\ WriteEnds /\ Waits /\ Messages

-----------------------------------------------------------------------------
LEMMA Sizes == /\ REP_N \in Nat /\ REP_N > 1
               /\ Children \subseteq Procs /\ Children \subseteq Nat \ {0}
               /\ 0 \in Procs /\ 0 \notin Children
               /\ IsFiniteSet(Children) /\ Cardinality(Children) = REP_N
BY REP_NAssumption, FS_Interval DEF Children, Procs

LEMMA SeqOfProcs ==
  ASSUME NEW s \in Seq(Children)
  PROVE  s \in Seq(Procs)
<1>1. \A k \in 1 .. Len(s) : s[k] \in Procs
  BY Sizes, ElementOfSeq
<1> QED
  BY <1>1

LEMMA MsgIsSeq ==
  ASSUME NEW c \in Children
  PROVE  /\ Msg(c) \in Seq(Children) /\ Len(Msg(c)) = c
         /\ \A k \in 1..c : Msg(c)[k] = c
BY Sizes DEF Msg

(* One message more leaves the others whole, wherever it is put at the end.*)
LEMMA WholeMore ==
  ASSUME NEW s \in Seq(Procs), Whole(s), NEW c \in Children
  PROVE  Whole(s \o Msg(c))
<1> DEFINE t == s \o Msg(c)
<1>1. Msg(c) \in Seq(Procs) /\ Len(Msg(c)) = c /\ c \in Nat /\ c > 0
  BY MsgIsSeq, Sizes
<1>2. /\ t \in Seq(Procs) /\ Len(t) = Len(s) + c
      /\ \A k \in 1 .. Len(s) + c : t[k] = IF k <= Len(s) THEN s[k] ELSE Msg(c)[k - Len(s)]
      /\ Len(s) \in Nat /\ DOMAIN s = 1 .. Len(s) /\ DOMAIN t = 1 .. Len(t)
  <2>1. /\ t \in Seq(Procs) /\ Len(t) = Len(s) + c
        /\ \A k \in 1 .. Len(s) + c : t[k] = IF k <= Len(s) THEN s[k] ELSE Msg(c)[k - Len(s)]
    BY <1>1, ConcatProperties
  <2> HIDE DEF t
  <2> QED
    BY <2>1
<1>sub. \A m, n \in 1 .. Len(s) : SubSeq(t, m, n) = SubSeq(s, m, n)
  BY <1>1, SubSeqOfConcat1
<1> HIDE DEF t
<1>3. SUFFICES ASSUME NEW d \in Children, NEW k \in 1 .. Len(t), t[k] = d
               PROVE  \E a \in 1..k : /\ k < a + d
                                      /\ a + d - 1 <= Len(t)
                                      /\ SubSeq(t, a, a + d - 1) = Msg(d)
  BY <1>2 DEF Whole, t
<1>4. Len(s) \in Nat /\ d \in Nat /\ d > 0
  BY <1>2, Sizes
<1>5. CASE k <= Len(s)
  <2>1. s[k] = d /\ k \in DOMAIN s
    BY <1>2, <1>3, <1>4, <1>5
  <2>2. PICK a \in 1..k : k < a + d /\ a + d - 1 <= Len(s) /\ SubSeq(s, a, a + d - 1) = Msg(d)
    BY <2>1 DEF Whole
  <2>3. a \in 1 .. Len(s) /\ a + d - 1 \in 1 .. Len(s)
    BY <1>4, <1>5, <2>2
  <2>4. SubSeq(t, a, a + d - 1) = SubSeq(s, a, a + d - 1)
    BY <1>sub, <2>3
  <2> QED
    <3>1. a + d - 1 <= Len(t) /\ SubSeq(t, a, a + d - 1) = Msg(d)
      BY <1>1, <1>2, <1>4, <2>2, <2>3, <2>4
    <3> QED
      BY <2>2, <3>1, Zenon
<1>6. CASE k > Len(s)
  <2>1. Msg(c)[k - Len(s)] = d /\ k - Len(s) \in 1..c
    BY <1>1, <1>2, <1>3, <1>4, <1>6
  <2>2. d = c
    BY <2>1, MsgIsSeq
  <2> DEFINE a == Len(s) + 1
  <2>3. a \in 1..k /\ k < a + c /\ a + c - 1 = Len(t) /\ a \in Int /\ a + c - 1 \in Int
    BY <1>1, <1>2, <1>4, <1>6
  <2>4. \A j \in a .. (a + c - 1) : t[j] \in Procs
    BY <1>2, <1>4, <2>3, ElementOfSeq
  <2>5. /\ SubSeq(t, a, a + c - 1) \in Seq(Procs)
        /\ Len(SubSeq(t, a, a + c - 1)) = c
        /\ \A j \in 1 .. c : SubSeq(t, a, a + c - 1)[j] = t[a + j - 1]
    BY <1>1, <1>4, <2>3, <2>4, SubSeqProperties
  <2>6. ASSUME NEW j \in 1 .. c PROVE t[a + j - 1] = Msg(c)[j]
    <3>1. Len(s) + j \in 1 .. Len(s) + c /\ ~(Len(s) + j <= Len(s))
      BY <1>1, <1>4
    <3>2. t[Len(s) + j] = Msg(c)[(Len(s) + j) - Len(s)]
      BY <1>2, <3>1
    <3>3. a + j - 1 = Len(s) + j /\ (Len(s) + j) - Len(s) = j
      BY <1>1, <1>4
    <3> QED
      BY ONLY <3>2, <3>3
  <2>7. SubSeq(t, a, a + c - 1) = Msg(c)
    BY <1>1, <2>5, <2>6, SeqEqual
  <2> QED
    <3>1. a \in 1..k /\ k < a + d /\ SubSeq(t, a, a + d - 1) = Msg(d)
      BY <2>2, <2>3, <2>7, Zenon
    <3>2. a + d - 1 <= Len(t)
      BY <1>1, <1>2, <2>2
    <3> QED
      BY <3>1, <3>2, Zenon
<1>7. k <= Len(s) \/ k > Len(s)
  BY <1>2, <1>3
<1> QED
  BY <1>5, <1>6, <1>7, Zenon

(* A byte that nobody wrote is no part of a message.                       *)
LEMMA WholeEnd ==
  ASSUME NEW s \in Seq(Procs), Whole(s)
  PROVE  Whole(Append(s, 0))
<1> DEFINE t == Append(s, 0)
<1>1. /\ t \in Seq(Procs) /\ Len(t) = Len(s) + 1 /\ t = s \o <<0>> /\ <<0>> \in Seq(Procs)
      /\ \A k \in 1 .. Len(s) : t[k] = s[k]
      /\ t[Len(s) + 1] = 0
      /\ Len(s) \in Nat /\ DOMAIN s = 1 .. Len(s) /\ DOMAIN t = 1 .. Len(t)
  <2>1. /\ t \in Seq(Procs) /\ Len(t) = Len(s) + 1 /\ t = s \o <<0>>
        /\ \A k \in 1 .. Len(s) : t[k] = s[k]
        /\ t[Len(s) + 1] = 0
    BY Sizes, AppendProperties, AppendIsConcat
  <2>2. <<0>> \in Seq(Procs)
    BY Sizes
  <2> HIDE DEF t
  <2> QED
    BY <2>1, <2>2
<1>sub. \A m, n \in 1 .. Len(s) : SubSeq(t, m, n) = SubSeq(s, m, n)
  BY <1>1, SubSeqOfConcat1
<1> HIDE DEF t
<1>2. SUFFICES ASSUME NEW d \in Children, NEW k \in 1 .. Len(t), t[k] = d
               PROVE  \E a \in 1..k : /\ k < a + d
                                      /\ a + d - 1 <= Len(t)
                                      /\ SubSeq(t, a, a + d - 1) = Msg(d)
  BY <1>1 DEF Whole, t
<1>3. Len(s) \in Nat /\ d \in Nat /\ d > 0 /\ k \in 1 .. Len(s) /\ s[k] = d
  BY <1>1, <1>2, Sizes
<1>4. PICK a \in 1..k : k < a + d /\ a + d - 1 <= Len(s) /\ SubSeq(s, a, a + d - 1) = Msg(d)
  BY <1>1, <1>3 DEF Whole
<1>5. a \in 1 .. Len(s) /\ a + d - 1 \in 1 .. Len(s)
  BY <1>3, <1>4
<1>6. SubSeq(t, a, a + d - 1) = SubSeq(s, a, a + d - 1)
  BY <1>sub, <1>5
<1> QED
  <2>1. a + d - 1 <= Len(t) /\ SubSeq(t, a, a + d - 1) = Msg(d)
    BY <1>1, <1>3, <1>4, <1>6
  <2> QED
    BY <1>4, <2>1, Zenon

(* A byte that is read stays where it was in the stream.                   *)
LEMMA Moved ==
  ASSUME NEW b \in Seq(Procs), NEW p \in Seq(Procs), p # <<>>
  PROVE  Append(b, Head(p)) \o Tail(p) = b \o p
<1>1. /\ Head(p) \in Procs /\ Tail(p) \in Seq(Procs) /\ Len(Tail(p)) = Len(p) - 1
      /\ \A k \in 1 .. Len(Tail(p)) : Tail(p)[k] = p[k + 1]
  BY HeadTailProperties
<1>2. p = <<Head(p)>> \o Tail(p) /\ <<Head(p)>> \in Seq(Procs)
  <2> DEFINE h == Head(p)  r == Tail(p)
  <2>1. <<h>> \in Seq(Procs) /\ Len(<<h>>) = 1 /\ <<h>>[1] = p[1]
    BY <1>1
  <2>2. /\ <<h>> \o r \in Seq(Procs) /\ Len(<<h>> \o r) = 1 + Len(r)
        /\ \A k \in 1 .. 1 + Len(r) : (<<h>> \o r)[k] = IF k <= 1 THEN <<h>>[k] ELSE r[k - 1]
    BY <1>1, <2>1, ConcatProperties
  <2>3. Len(p) \in Nat /\ Len(p) = 1 + Len(r)
    BY <1>1
  <2>4. \A k \in 1 .. Len(p) : p[k] = (<<h>> \o r)[k]
    <3> TAKE k \in 1 .. Len(p)
    <3>1. CASE k = 1
      BY <2>1, <2>2, <2>3, <3>1
    <3>2. CASE k # 1
      <4>1. k - 1 \in 1 .. Len(r) /\ k \in 1 .. 1 + Len(r) /\ ~(k <= 1) /\ (k - 1) + 1 = k
        BY <2>3, <3>2
      <4> QED
        BY <1>1, <2>2, <4>1
    <3> QED
      BY <3>1, <3>2
  <2> QED
    BY <2>1, <2>2, <2>3, <2>4, SeqEqual
<1>3. Append(b, Head(p)) = b \o <<Head(p)>>
  BY <1>1, AppendIsConcat
<1>4. (b \o <<Head(p)>>) \o Tail(p) = b \o (<<Head(p)>> \o Tail(p))
  BY <1>1, <1>2, ConcatAssociative
<1> QED
  BY <1>2, <1>3, <1>4

-----------------------------------------------------------------------------
LEMMA ReapedCounted ==
  ASSUME TypeOK
  PROVE  /\ IsFiniteSet(Reaped) /\ Cardinality(Reaped) \in Nat
         /\ Cardinality(Reaped) >= REP_N => \A c \in Children : child[c] = "reaped"
<1>1. Reaped \in SUBSET Children
  BY DEF Reaped
<1>2. /\ IsFiniteSet(Reaped) /\ Cardinality(Reaped) <= REP_N /\ Cardinality(Reaped) \in Nat
      /\ REP_N = Cardinality(Reaped) => Children = Reaped
  BY <1>1, Sizes, FS_Subset, FS_CardinalityType
<1>3. Cardinality(Reaped) >= REP_N => Children = Reaped
  BY <1>2, Sizes
<1> QED
  BY <1>2, <1>3 DEF Reaped

(* What wait() does to the children and to their number.                   *)
LEMMA WaitFacts ==
  ASSUME TypeOK, Wait
  PROVE  /\ child' \in [Children -> {"run", "write", "return"} \cup Over]
         /\ \A c \in Children : \/ child'[c] = child[c]
                                \/ child[c] = "zombie" /\ child'[c] = "reaped"
         /\ \/ Cardinality(Reaped') = Cardinality(Reaped) + 1
            \/ UNCHANGED child /\ \A c \in Children : child[c] \in {"none", "reaped"}
<1>1. ASSUME NEW c \in Children, child[c] = "zombie", child' = [child EXCEPT ![c] = "reaped"]
      PROVE  /\ child' \in [Children -> {"run", "write", "return"} \cup Over]
             /\ \A d \in Children : \/ child'[d] = child[d]
                                    \/ child[d] = "zombie" /\ child'[d] = "reaped"
             /\ Cardinality(Reaped') = Cardinality(Reaped) + 1
  <2>1. child' \in [Children -> {"run", "write", "return"} \cup Over]
    BY <1>1 DEF TypeOK, Over
  <2>2. \A d \in Children : child'[d] = IF d = c THEN "reaped" ELSE child[d]
    BY <1>1 DEF TypeOK
  <2>3. Reaped' = Reaped \cup {c} /\ c \notin Reaped
    BY <1>1, <2>2 DEF Reaped
  <2>4. Cardinality(Reaped') = Cardinality(Reaped) + 1
    BY <2>3, ReapedCounted, FS_AddElement
  <2> QED
    BY <1>1, <2>1, <2>2, <2>4
<1>2. CASE UNCHANGED child /\ \A c \in Children : child[c] \in {"none", "reaped"}
  BY <1>2 DEF TypeOK
<1> QED
  BY <1>1, <1>2 DEF Wait

-----------------------------------------------------------------------------
LEMMA InitInv == Init => Inv
<1> SUFFICES ASSUME Init PROVE Inv
  OBVIOUS
<1>1. /\ child = [c \in Children |-> "none"] /\ i = 1 /\ pipe = <<>> /\ buffer = <<>>
      /\ program \in Programs
      /\ parent = IF program \in {"04", "05"} THEN "pipe" ELSE "fork"
      /\ ends = [read |-> {}, write |-> {}] /\ mode = [p \in Procs |-> FALSE]
  BY DEF Init
<1>2. TypeOK
  <2>1. i \in 1..(REP_N + 1)
    BY <1>1, Sizes
  <2>2. ends.read = {} /\ ends.write = {} /\ ends \in [{"read", "write"} -> SUBSET Procs]
    BY <1>1
  <2>3. child \in [Children -> {"run", "write", "return"} \cup Over]
    BY <1>1 DEF Over
  <2>4. mode \in [Procs -> BOOLEAN]
    BY <1>1
  <2>5. pipe \in Seq(Children) /\ buffer \in Seq(Procs)
    BY <1>1
  <2>6. parent \in {"pipe", "fork"}
    BY <1>1
  <2> QED
    BY <1>1, <2>1, <2>2, <2>3, <2>4, <2>5, <2>6 DEF TypeOK
<1>3. Way /\ Born
  BY <1>1, Sizes DEF Way, Born, Piped
<1>4. OneAtATime /\ WriteEnds
  BY <1>1 DEF OneAtATime, WriteEnds, Piped
<1>5. Waits
  BY <1>1 DEF Waits
<1>6. Messages
  <2>1. buffer \o pipe = <<>>
    BY <1>1
  <2>2. Whole(<<>>)
    BY DEF Whole
  <2> QED
    BY <1>1, <2>1, <2>2 DEF Messages
<1> QED
  BY <1>2, <1>3, <1>4, <1>5, <1>6 DEF Inv

(* A return: wherever from, nobody is left to wait for.                    *)
LEMMA ReturnInv ==
  ASSUME Inv, NEW how \in Returned, Return(how),
         parent \in {"pipe", "fork", "leave"}, how = "ok" <=> parent = "leave"
  PROVE  Inv'
<1>1. /\ parent' = how /\ UNCHANGED <<program, i, mode, pipe, buffer>>
      /\ how \in {"ok", "failed"}
      /\ ends' = [read |-> ends.read \ {0}, write |-> ends.write \ {0}]
  <2>1. ends' = ClosedBy({0}, {"read", "write"})
    BY DEF Return
  <2> QED
    BY <2>1 DEF Return, Returned, ClosedBy
<1>2. \A c \in Children : child'[c] = IF child[c] = "zombie" THEN "orphaned" ELSE child[c]
  BY DEF Return
<1>3. TypeOK'
  <2>1. child' \in [Children -> {"run", "write", "return"} \cup Over]
    BY DEF Return, Inv, TypeOK, Over
  <2>2. ends' \in [{"read", "write"} -> SUBSET Procs]
    BY <1>1 DEF Inv, TypeOK
  <2>3. \A c \in Children : child'[c] \in Over => c \notin ends'.read \cup ends'.write
    BY <1>1, <1>2 DEF Inv, TypeOK, Over
  <2>4. mode' \in [Procs -> BOOLEAN] /\ pipe' \in Seq(Children) /\ buffer' \in Seq(Procs)
    BY <1>1, Zenon DEF Inv, TypeOK
  <2> QED
    BY <1>1, <2>1, <2>2, <2>3, <2>4 DEF Inv, TypeOK, Returned
<1>4. Way' /\ Born'
  BY <1>1 DEF Way, Born
<1>5. OneAtATime'
  <2>1. SUFFICES ASSUME program = "03", NEW c \in Children
                 PROVE  child'[c] \in {"none", "reaped"}
    BY <1>1 DEF OneAtATime
  <2> QED
    BY <1>2, <2>1 DEF Inv, OneAtATime
<1>6. WriteEnds'
  BY <1>1, <1>2, Sizes DEF Inv, WriteEnds, Piped
<1>7. Waits'
  BY <1>1, <1>2 DEF Inv, Waits
<1>8. Messages'
  BY <1>1, <1>2 DEF Inv, Messages
<1> QED
  BY <1>3, <1>4, <1>5, <1>6, <1>7, <1>8 DEF Inv

-----------------------------------------------------------------------------
LEMMA MakePipeInv ==
  ASSUME Inv, MakePipe
  PROVE  Inv'
<1>1. CASE Return("failed")
  BY <1>1, ReturnInv DEF MakePipe, Returned
<1>2. CASE /\ parent' = "fork" /\ ends' = [read |-> {0}, write |-> {0}]
           /\ UNCHANGED <<program, i, child, mode, pipe, buffer>>
  <2>1. parent = "pipe" /\ Piped /\ i = 1 /\ \A c \in Children : child[c] = "none"
    BY DEF MakePipe, Inv, Way, Born
  <2>2. TypeOK'
    <3>1. ends'.read = {0} /\ ends'.write = {0} /\ ends' \in [{"read", "write"} -> SUBSET Procs]
      BY <1>2, Sizes
    <3>2. mode' \in [Procs -> BOOLEAN]
      BY <1>2, Zenon DEF Inv, TypeOK
    <3> QED
      BY <1>2, <3>1, <3>2, Sizes DEF Inv, TypeOK
  <2>3. Way' /\ Born'
    BY <1>2, <2>1, Sizes DEF Way, Born
  <2>4. OneAtATime' /\ WriteEnds'
    BY <1>2, <2>1 DEF Inv, OneAtATime, WriteEnds, Piped
  <2>5. Waits' /\ Messages'
    BY <1>2, <2>1 DEF Inv, Waits, Messages
  <2> QED
    BY <2>2, <2>3, <2>4, <2>5 DEF Inv
<1> QED
  BY <1>1, <1>2 DEF MakePipe

LEMMA ForkInv ==
  ASSUME Inv, Fork
  PROVE  Inv'
<1>1. /\ parent = "fork" /\ i \in Children /\ i \in Nat /\ i <= REP_N
      /\ UNCHANGED <<program, pipe, buffer>>
      /\ \A c \in Children : child[c] = "none" <=> c >= i
  BY Sizes DEF Fork, Inv, TypeOK, Children, Born
<1>2. /\ child' \in [Children -> {"run", "write", "return"} \cup Over]
      /\ \A c \in Children : child'[c] = IF c = i THEN "run" ELSE child[c]
  BY <1>1 DEF Fork, Inv, TypeOK
<1>3. \/ program = "03" /\ parent' = "wait_in_loop" /\ i' = i
      \/ program # "03" /\ parent' = "fork" /\ i' = i + 1
  BY DEF Fork
<1>4. /\ ends'.read = IF 0 \in ends.read THEN ends.read \cup {i} ELSE ends.read
      /\ ends'.write = IF 0 \in ends.write THEN ends.write \cup {i} ELSE ends.write
      /\ ends' \in [{"read", "write"} -> SUBSET Procs]
  BY <1>1, Sizes DEF Fork, Inv, TypeOK
<1>5. TypeOK'
  <2>1. mode' \in [Procs -> BOOLEAN]
    BY <1>1, Sizes, Zenon DEF Fork, Inv, TypeOK
  <2>2. i' \in 1..(REP_N + 1)
    BY <1>1, <1>3, Sizes DEF Inv, TypeOK
  <2>3. \A c \in Children : child'[c] \in Over => c \notin ends'.read \cup ends'.write
    BY <1>2, <1>4 DEF Inv, TypeOK, Over
  <2> QED
    BY <1>1, <1>2, <1>3, <1>4, <2>1, <2>2, <2>3 DEF Inv, TypeOK
<1>6. Way' /\ Born'
  BY <1>1, <1>2, <1>3, Sizes DEF Way, Born
<1>7. OneAtATime'
  BY <1>1, <1>2, <1>3 DEF Inv, OneAtATime
<1>8. WriteEnds'
  <2>1. CASE ~Piped
    BY <1>1, <1>2, <2>1 DEF Inv, WriteEnds, Piped
  <2>2. CASE Piped
    BY <1>1, <1>2, <1>4, <2>2 DEF Inv, WriteEnds, Piped
  <2> QED
    BY <2>1, <2>2
<1>9. Waits' /\ Messages'
  BY <1>1, <1>2, <1>3 DEF Inv, Waits, Messages
<1> QED
  BY <1>5, <1>6, <1>7, <1>8, <1>9 DEF Inv

LEMMA ForkedInv ==
  ASSUME Inv, Forked
  PROVE  Inv'
<1>1. /\ parent = "fork" /\ i' = 1 /\ UNCHANGED <<program, child, mode, ends, pipe, buffer>>
      /\ \/ program = "01" /\ parent' = "leave"
         \/ program = "04" /\ parent' = "close"
         \/ program \in {"02", "03", "05"} /\ parent' = "wait"
  BY DEF Forked, AfterForks, files, Inv, TypeOK, Programs
<1>2. \A c \in Children : child[c] # "none"
  BY Sizes DEF Forked, Inv, TypeOK, Born, Children
<1>3. TypeOK'
  <2>1. mode' \in [Procs -> BOOLEAN]
    BY <1>1, Zenon DEF Inv, TypeOK
  <2> QED
    BY <1>1, <2>1, Sizes DEF Inv, TypeOK
<1>4. Way' /\ Born'
  BY <1>1, <1>2 DEF Way, Born, Piped
<1>5. OneAtATime' /\ WriteEnds'
  BY <1>1, <1>2 DEF Inv, OneAtATime, WriteEnds, Piped
<1>6. Waits'
  <2>1. program = "03" => \A c \in Children : child[c] = "reaped"
    BY <1>1, <1>2 DEF Inv, OneAtATime
  <2>2. Reaped' = Reaped /\ Cardinality(Reaped) \in Nat
    BY <1>1, ReapedCounted DEF Inv, Reaped
  <2> QED
    BY <1>1, <2>1, <2>2 DEF Waits
<1>7. Messages'
  BY <1>1 DEF Inv, Messages
<1> QED
  BY <1>3, <1>4, <1>5, <1>6, <1>7 DEF Inv

LEMMA WaitInLoopInv ==
  ASSUME Inv, WaitInLoop
  PROVE  Inv'
<1>1. /\ parent = "wait_in_loop" /\ parent' = "fork" /\ i' = i + 1
      /\ UNCHANGED <<program, mode, ends, pipe, buffer>>
      /\ program = "03" /\ i \in Children /\ i \in Nat /\ i <= REP_N
      /\ \A c \in Children : child[c] = "none" <=> c > i
  BY Sizes DEF WaitInLoop, files, Inv, TypeOK, Way, Born, Children
<1>2. /\ child' \in [Children -> {"run", "write", "return"} \cup Over]
      /\ \A c \in Children : \/ child'[c] = child[c]
                             \/ child[c] = "zombie" /\ child'[c] = "reaped"
      /\ \/ child'[i] = "reaped"
         \/ UNCHANGED child /\ \A c \in Children : child[c] \in {"none", "reaped"}
  <2>1. child[i] \in {"run", "zombie", "reaped"} /\ \A c \in Children \ {i} : child[c] # "zombie"
    BY <1>1 DEF Inv, OneAtATime
  <2>2. ASSUME NEW c \in Children, child[c] = "zombie", child' = [child EXCEPT ![c] = "reaped"]
        PROVE  child'[i] = "reaped"
    BY <1>1, <2>1, <2>2 DEF Inv, TypeOK
  <2> QED
    BY <2>2, WaitFacts DEF WaitInLoop, Wait, Inv
<1>3. TypeOK'
  <2>1. mode' \in [Procs -> BOOLEAN]
    BY <1>1, Zenon DEF Inv, TypeOK
  <2>2. i' \in 1..(REP_N + 1)
    BY <1>1, Sizes
  <2>3. \A c \in Children : child'[c] \in Over => child[c] \in Over
    BY <1>2 DEF Over
  <2> QED
    BY <1>1, <1>2, <2>1, <2>2, <2>3 DEF Inv, TypeOK
<1>4. Way' /\ Born'
  BY <1>1, <1>2, Sizes DEF Way, Born
<1>5. OneAtATime'
  BY <1>1, <1>2 DEF Inv, OneAtATime
<1>6. WriteEnds'
  BY <1>1, <1>2 DEF Inv, WriteEnds, Piped
<1>7. Waits' /\ Messages'
  BY <1>1 DEF Inv, Waits, Messages
<1> QED
  BY <1>3, <1>4, <1>5, <1>6, <1>7 DEF Inv

LEMMA WaitAllInv ==
  ASSUME Inv, WaitAll
  PROVE  Inv'
<1>1. /\ parent = "wait" /\ i <= REP_N /\ i' = i + 1 /\ i \in Nat /\ i > 0
      /\ UNCHANGED <<program, parent, mode, ends, pipe, buffer>>
      /\ \A c \in Children : child[c] # "none"
  BY Sizes DEF WaitAll, files, Inv, TypeOK, Born
<1>2. /\ child' \in [Children -> {"run", "write", "return"} \cup Over]
      /\ \A c \in Children : \/ child'[c] = child[c]
                             \/ child[c] = "zombie" /\ child'[c] = "reaped"
      /\ \/ Cardinality(Reaped') = Cardinality(Reaped) + 1
         \/ UNCHANGED child /\ \A c \in Children : child[c] \in {"none", "reaped"}
  BY WaitFacts DEF WaitAll, Inv
<1>3. TypeOK'
  <2>1. mode' \in [Procs -> BOOLEAN]
    BY <1>1, Zenon DEF Inv, TypeOK
  <2>2. i' \in 1..(REP_N + 1)
    BY <1>1, Sizes
  <2>3. \A c \in Children : child'[c] \in Over => child[c] \in Over
    BY <1>2 DEF Over
  <2> QED
    BY <1>1, <1>2, <2>1, <2>2, <2>3 DEF Inv, TypeOK
<1>4. Way' /\ Born'
  BY <1>1, <1>2 DEF Inv, Way, Born, Piped
<1>5. OneAtATime' /\ WriteEnds'
  BY <1>1, <1>2 DEF Inv, OneAtATime, WriteEnds, Piped
<1>6. Waits'
  <2>1. Cardinality(Reaped) \in Nat
    BY ReapedCounted DEF Inv
  <2>2. CASE Cardinality(Reaped') = Cardinality(Reaped) + 1
    BY <1>1, <1>2, <2>1, <2>2 DEF Inv, Waits
  <2>3. CASE UNCHANGED child /\ \A c \in Children : child[c] \in {"none", "reaped"}
    <3>1. Reaped' = Children
      BY <1>1, <2>3 DEF Reaped
    <3> QED
      BY <1>1, <2>3, <3>1, Sizes DEF Inv, Waits
  <2> QED
    BY <1>2, <2>2, <2>3
<1>7. Messages'
  BY <1>1, <1>2 DEF Inv, Messages
<1> QED
  BY <1>3, <1>4, <1>5, <1>6, <1>7 DEF Inv

LEMMA WaitedInv ==
  ASSUME Inv, Waited
  PROVE  Inv'
<1>1. /\ parent = "wait" /\ UNCHANGED <<program, i, child, mode, ends, pipe, buffer>>
      /\ parent' = IF program = "05" THEN "close" ELSE "leave"
      /\ program # "01" /\ i = REP_N + 1
      /\ \A c \in Children : child[c] # "none"
  BY Sizes DEF Waited, files, Inv, TypeOK, Way, Born
<1>2. \A c \in Children : child[c] = "reaped"
  <2>1. program # "03" => Cardinality(Reaped) >= REP_N
    BY <1>1, Sizes DEF Inv, Waits
  <2> QED
    BY <1>1, <2>1, ReapedCounted DEF Inv, Waits
<1>3. TypeOK'
  <2>1. mode' \in [Procs -> BOOLEAN]
    BY <1>1, Zenon DEF Inv, TypeOK
  <2> QED
    BY <1>1, <2>1 DEF Inv, TypeOK
<1>4. Way' /\ Born'
  BY <1>1, <1>2 DEF Way, Born, Piped
<1>5. OneAtATime' /\ WriteEnds'
  BY <1>1, <1>2 DEF Inv, OneAtATime, WriteEnds, Piped
<1>6. Waits' /\ Messages'
  BY <1>1, <1>2 DEF Inv, Waits, Messages
<1> QED
  BY <1>3, <1>4, <1>5, <1>6 DEF Inv

LEMMA CloseWriteEndInv ==
  ASSUME Inv, CloseWriteEnd
  PROVE  Inv'
<1>1. /\ parent = "close" /\ parent' = "read"
      /\ UNCHANGED <<program, i, child, mode, pipe, buffer>>
      /\ ends' = [read |-> ends.read, write |-> ends.write \ {0}]
      /\ Piped /\ (program = "04" => i = 1)
      /\ \A c \in Children : child[c] # "none"
  <2>1. ends' = ClosedBy({0}, {"write"})
    BY DEF CloseWriteEnd
  <2> QED
    BY <2>1 DEF CloseWriteEnd, ClosedBy, Inv, Way, Born
<1>2. TypeOK'
  <2>1. mode' \in [Procs -> BOOLEAN]
    BY <1>1, Zenon DEF Inv, TypeOK
  <2>2. ends' \in [{"read", "write"} -> SUBSET Procs]
    BY <1>1 DEF Inv, TypeOK
  <2>3. \A c \in Children : child[c] \in Over => c \notin ends'.read \cup ends'.write
    BY <1>1 DEF Inv, TypeOK
  <2> QED
    BY <1>1, <2>1, <2>2, <2>3 DEF Inv, TypeOK
<1>3. Way' /\ Born'
  BY <1>1 DEF Way, Born, Piped
<1>4. OneAtATime' /\ WriteEnds'
  BY <1>1, Sizes DEF Inv, OneAtATime, WriteEnds, Piped
<1>5. Waits' /\ Messages'
  BY <1>1 DEF Inv, Waits, Messages
<1> QED
  BY <1>2, <1>3, <1>4, <1>5 DEF Inv

LEMMA ReadMessageInv ==
  ASSUME Inv, read_message
  PROVE  Inv'
<1>1. /\ program = "04" /\ parent = "read" /\ Piped /\ i = 1
      /\ UNCHANGED <<program, i, child, mode, ends>>
      /\ \A c \in Children : child[c] # "none"
      /\ buffer \in Seq(Procs) /\ pipe \in Seq(Children) /\ pipe \in Seq(Procs)
      /\ Whole(buffer \o pipe)
  BY SeqOfProcs DEF read_message, Inv, TypeOK, Way, Born, Messages, Piped
<1>2. mode' \in [Procs -> BOOLEAN]
  BY <1>1, Zenon DEF Inv, TypeOK
<1>3. CASE /\ pipe # <<>> /\ buffer' = Append(buffer, Head(pipe)) /\ pipe' = Tail(pipe)
           /\ UNCHANGED parent
  <2>1. buffer' \in Seq(Procs) /\ pipe' \in Seq(Children)
    <3>1. Head(pipe) \in Procs /\ Tail(pipe) \in Seq(Children)
      BY <1>1, <1>3, Sizes, HeadTailProperties
    <3> QED
      BY <1>1, <1>3, <3>1, AppendProperties
  <2>2. TypeOK'
    BY <1>1, <1>2, <1>3, <2>1 DEF Inv, TypeOK
  <2>3. Way' /\ Born' /\ OneAtATime' /\ WriteEnds' /\ Waits'
    BY <1>1, <1>3 DEF Inv, Way, Born, OneAtATime, WriteEnds, Waits, Piped
  <2>4. buffer' \o pipe' = buffer \o pipe
    BY <1>1, <1>3, Moved
  <2>5. Whole(buffer' \o pipe')
    BY <1>1, <2>4
  <2>6. Messages'
    BY <1>1, <1>3, <2>5 DEF Messages, Whole
  <2> QED
    BY <2>2, <2>3, <2>6 DEF Inv
<1>4. CASE /\ pipe = <<>> /\ ends.write = {} /\ buffer' = Append(buffer, 0)
           /\ parent' = "wait" /\ UNCHANGED pipe
  <2>1. buffer' \in Seq(Procs)
    BY <1>1, <1>4, Sizes, AppendProperties
  <2>2. TypeOK'
    BY <1>1, <1>2, <1>4, <2>1 DEF Inv, TypeOK
  <2>3. Way' /\ Born' /\ OneAtATime' /\ WriteEnds'
    BY <1>1, <1>4 DEF Inv, Way, Born, OneAtATime, WriteEnds, Piped
  <2>4. Waits'
    <3>1. Reaped' = Reaped /\ Cardinality(Reaped) \in Nat
      BY <1>1, ReapedCounted DEF Inv, Reaped
    <3> QED
      BY <1>1, <1>4, <3>1 DEF Waits
  <2>5. \A c \in Children : child'[c] \notin {"run", "write"}
    BY <1>1, <1>4 DEF Inv, WriteEnds
  <2>6. Whole(buffer' \o pipe')
    <3>1. buffer \o pipe = buffer /\ buffer' \o pipe' = Append(buffer, 0)
      BY <1>1, <1>4, <2>1, ConcatEmptySeq
    <3> QED
      BY <1>1, <3>1, WholeEnd
  <2>7. Messages'
    BY <1>1, <1>4, <2>5, <2>6 DEF Messages, Whole
  <2> QED
    BY <2>2, <2>3, <2>4, <2>7 DEF Inv
<1> QED
  BY <1>3, <1>4 DEF read_message

LEMMA ReadOnceInv ==
  ASSUME Inv, ReadOnce
  PROVE  Inv'
<1>1. /\ program = "05" /\ parent = "read" /\ parent' = "leave" /\ Piped
      /\ buffer' = pipe /\ pipe' = <<>> /\ UNCHANGED <<program, i, child, mode, ends>>
      /\ \A c \in Children : child[c] # "none"
      /\ \A c \in Children : child[c] = "reaped"
      /\ buffer = <<>> /\ pipe \in Seq(Procs) /\ Whole(buffer \o pipe)
  BY Sizes DEF ReadOnce, Inv, TypeOK, Way, Born, Waits, Messages
<1>2. TypeOK'
  <2>1. mode' \in [Procs -> BOOLEAN]
    BY <1>1, Zenon DEF Inv, TypeOK
  <2>2. pipe' \in Seq(Children)
    BY <1>1
  <2> QED
    BY <1>1, <2>1, <2>2 DEF Inv, TypeOK
<1>3. Way' /\ Born' /\ OneAtATime' /\ WriteEnds' /\ Waits'
  BY <1>1 DEF Inv, Way, Born, OneAtATime, WriteEnds, Waits, Piped
<1>4. Whole(buffer' \o pipe')
  BY <1>1, ConcatEmptySeq
<1>5. Messages'
  BY <1>1, <1>4 DEF Messages, Whole
<1> QED
  BY <1>2, <1>3, <1>5 DEF Inv

-----------------------------------------------------------------------------
(* A step of a child that runs, but for its write: it goes on, or ends.    *)
LEMMA ChildMoves ==
  ASSUME Inv, NEW c \in Children, child[c] \in Running,
         UNCHANGED <<program, parent, i, mode, pipe, buffer>>,
         \/ /\ child[c] = "run" /\ Piped /\ child' = [child EXCEPT ![c] = "write"]
            /\ ends' = ClosedBy({c}, {"read"})
         \/ Ends(c)
  PROVE  Inv'
<1>1. /\ child' \in [Children -> {"run", "write", "return"} \cup Over]
      /\ \A d \in Children \ {c} : child'[d] = child[d]
      /\ \/ child'[c] = "write" /\ child[c] = "run" /\ Piped
         \/ child'[c] = "zombie" /\ parent \notin Returned
         \/ child'[c] = "orphaned" /\ parent \in Returned
  BY DEF Inv, TypeOK, Ends, Over
<1>2. /\ ends'.read = ends.read \ {c}
      /\ ends'.write = IF child'[c] = "write" THEN ends.write ELSE ends.write \ {c}
      /\ ends' \in [{"read", "write"} -> SUBSET Procs]
  <2>1. CASE /\ child' = [child EXCEPT ![c] = "write"] /\ ends' = ClosedBy({c}, {"read"})
    BY <2>1 DEF ClosedBy, Inv, TypeOK
  <2>2. CASE Ends(c)
    <3>1. ends' = ClosedBy({c}, {"read", "write"})
      BY <2>2 DEF Ends
    <3>2. child'[c] # "write"
      BY <2>2 DEF Ends, Inv, TypeOK
    <3> QED
      BY <3>1, <3>2 DEF ClosedBy, Inv, TypeOK
  <2> QED
    BY <2>1, <2>2
<1>3. TypeOK'
  <2>1. mode' \in [Procs -> BOOLEAN]
    BY Zenon DEF Inv, TypeOK
  <2>2. \A d \in Children : child'[d] \in Over => d \notin ends'.read \cup ends'.write
    BY <1>1, <1>2 DEF Inv, TypeOK, Over
  <2> QED
    BY <1>1, <1>2, <2>1, <2>2 DEF Inv, TypeOK
<1>4. child[c] \notin {"none", "reaped", "zombie"} /\ child'[c] \notin {"none", "reaped"}
  BY <1>1 DEF Running
<1>5. Way' /\ Born'
  BY <1>1, <1>4 DEF Inv, Way, Born, Piped
<1>6. OneAtATime'
  BY <1>1, <1>4 DEF Inv, OneAtATime, Piped, Returned
<1>7. WriteEnds'
  <2>1. CASE ~Piped
    BY <1>1, <2>1 DEF Inv, WriteEnds, Piped
  <2>2. CASE Piped
    BY <1>1, <1>2, <2>2, Sizes DEF Inv, WriteEnds, Piped, Over
  <2> QED
    BY <2>1, <2>2
<1>8. Waits'
  <2>1. Reaped' = Reaped
    BY <1>1, <1>4 DEF Reaped
  <2> QED
    BY <1>1, <1>4, <2>1 DEF Inv, Waits
<1>9. Messages'
  BY <1>1, <1>4 DEF Inv, Messages, Whole
<1> QED
  BY <1>3, <1>5, <1>6, <1>7, <1>8, <1>9 DEF Inv

LEMMA WritesInv ==
  ASSUME Inv, NEW c \in Children, Writes(c), ends.read # {}
  PROVE  Inv'
<1>1. /\ child[c] = "write" /\ pipe' = pipe \o Msg(c)
      /\ UNCHANGED <<program, parent, i, mode, ends, buffer>>
      /\ child' \in [Children -> {"run", "write", "return"} \cup Over]
      /\ \A d \in Children : child'[d] = IF d = c THEN "return" ELSE child[d]
  BY DEF Writes, Inv, TypeOK
<1>2. Piped
  BY <1>1 DEF Inv, WriteEnds
<1>3. /\ buffer \in Seq(Procs) /\ pipe \in Seq(Procs) /\ pipe \in Seq(Children)
      /\ Msg(c) \in Seq(Children) /\ Msg(c) \in Seq(Procs)
  BY MsgIsSeq, SeqOfProcs DEF Inv, TypeOK
<1>4. TypeOK'
  <2>1. mode' \in [Procs -> BOOLEAN]
    BY <1>1, Zenon DEF Inv, TypeOK
  <2>2. pipe' \in Seq(Children)
    BY <1>1, <1>3, ConcatProperties
  <2>3. \A d \in Children : child'[d] \in Over => child[d] \in Over
    BY <1>1 DEF Over
  <2> QED
    BY <1>1, <2>1, <2>2, <2>3 DEF Inv, TypeOK
<1>5. Way' /\ Born' /\ OneAtATime' /\ WriteEnds'
  BY <1>1, <1>2 DEF Inv, Way, Born, OneAtATime, WriteEnds, Piped
<1>6. Waits'
  <2>1. Reaped' = Reaped
    BY <1>1 DEF Reaped
  <2> QED
    BY <1>1, <2>1 DEF Inv, Waits
<1>7. Messages'
  <2>1. ~(program = "04" /\ parent \in {"wait", "leave", "ok"})
    BY <1>1 DEF Inv, Messages
  <2>2. ~(program = "05" /\ parent \in {"leave", "ok"})
    BY <1>1 DEF Inv, Waits
  <2>3. Whole(buffer' \o pipe')
    <3>1. buffer \o pipe \in Seq(Procs) /\ Whole(buffer \o pipe)
      BY <1>3, ConcatProperties DEF Inv, Messages
    <3>2. buffer' \o pipe' = (buffer \o pipe) \o Msg(c)
      <4>1. (buffer \o pipe) \o Msg(c) = buffer \o (pipe \o Msg(c))
        BY <1>3, ConcatAssociative
      <4>2. buffer' = buffer /\ pipe' = pipe \o Msg(c)
        BY <1>1
      <4> QED
        BY ONLY <4>1, <4>2
    <3>3. Whole((buffer \o pipe) \o Msg(c))
      BY <3>1, WholeMore
    <3> QED
      BY <3>2, <3>3
  <2> QED
    BY <1>1, <2>1, <2>2, <2>3 DEF Inv, Messages, Whole
<1> QED
  BY <1>4, <1>5, <1>6, <1>7 DEF Inv

LEMMA SignalInv ==
  ASSUME Inv, NEW p \in Procs, sigint_catcher(p)
  PROVE  Inv'
<1>1. UNCHANGED <<program, parent, i, child, ends, pipe, buffer>>
  BY DEF sigint_catcher
<1>2. mode' \in [Procs -> BOOLEAN]
  BY Zenon DEF sigint_catcher, Inv, TypeOK
<1>3. TypeOK'
  BY <1>1, <1>2 DEF Inv, TypeOK
<1> QED
  BY <1>1, <1>3 DEF Inv, Way, Born, OneAtATime, WriteEnds, Waits, Messages, Piped, Reaped, Whole

-----------------------------------------------------------------------------
LEMMA NextInv == Inv /\ [Next]_vars => Inv'
<1> SUFFICES ASSUME Inv, [Next]_vars PROVE Inv'
  OBVIOUS
<1>1. CASE Parent
  <2>1. CASE Leave
    BY <2>1, ReturnInv DEF Leave, Returned
  <2> QED
    BY <1>1, <2>1, MakePipeInv, ForkInv, ForkedInv, WaitInLoopInv, WaitAllInv, WaitedInv,
       CloseWriteEndInv, ReadMessageInv, ReadOnceInv DEF Parent
<1>2. CASE ForkFails
  BY <1>2, ReturnInv DEF ForkFails, Returned
<1>3. ASSUME NEW c \in Children, Child(c) \/ Killed(c)
      PROVE  Inv'
  <2>1. CASE ClosesReadEnd(c)
    BY <2>1, ChildMoves DEF ClosesReadEnd, Running, Piped
  <2>2. CASE Writes(c) /\ ends.read # {}
    BY <2>2, WritesInv
  <2>3. CASE Ends(c) /\ child[c] \in Running
    BY <2>3, ChildMoves DEF Ends
  <2>4. child[c] \notin Over => child[c] \in Running
    BY DEF Inv, TypeOK, Running
  <2> QED
    BY <1>3, <2>1, <2>2, <2>3, <2>4 DEF Child, Writes, Exits, Killed, Running
<1>4. ASSUME NEW p \in Procs, sigint_catcher(p)
      PROVE  Inv'
  BY <1>4, SignalInv
<1>5. CASE UNCHANGED vars
  <2>1. UNCHANGED <<program, parent, i, child, mode, ends, pipe, buffer>>
    BY <1>5 DEF vars
  <2>2. TypeOK'
    BY <2>1, Zenon DEF Inv, TypeOK
  <2> QED
    BY <2>1, <2>2 DEF Inv, Way, Born, OneAtATime, WriteEnds, Waits, Messages, Piped, Reaped, Whole
<1> QED
  BY <1>1, <1>2, <1>3, <1>4, <1>5 DEF Next

(* The inductive invariant, for any number of children, failing forks and  *)
(* kills at any step.                                                      *)
THEOREM Invariance == Spec => []Inv
BY InitInv, NextInv, PTL DEF Spec

(* Every variable keeps its type, and a process that has ended holds no    *)
(* end of the pipe.                                                        *)
THEOREM TypeCorrect == Spec => []TypeOK
<1>1. Inv => TypeOK
  BY DEF Inv
<1> QED
  BY <1>1, Invariance, PTL

(* A parent that comes to its end has waited for each child and has read   *)
(* each message whole; 03 runs one child at a time.                        *)
THEOREM EverythingCollected == Spec => []AllCollected
<1>1. Inv => AllCollected
  <2> SUFFICES ASSUME Inv PROVE AllCollected
    OBVIOUS
  <2>1. ASSUME parent = "ok", program # "01"
        PROVE  \A c \in Children : child[c] = "reaped"
    BY <2>1 DEF Inv, TypeOK, Programs, Waits
  <2>2. ASSUME parent = "ok"
        PROVE  pipe = <<>> /\ Whole(buffer)
    <3>1. pipe = <<>>
      BY <2>2 DEF Inv, WriteEnds, Messages, Piped
    <3>2. buffer \o pipe = buffer
      BY <3>1, ConcatEmptySeq DEF Inv, TypeOK
    <3> QED
      BY <3>1, <3>2 DEF Inv, Messages
  <2>3. ASSUME program = "03", NEW c \in Children
        PROVE  \/ child[c] \in Over \ {"orphaned"}
               \/ parent \in Returned \cup {"wait_in_loop"} /\ c = i
    BY <2>3 DEF Inv, OneAtATime, Over
  <2> QED
    BY <2>1, <2>2, <2>3 DEF AllCollected
<1> QED
  BY <1>1, Invariance, PTL

-----------------------------------------------------------------------------
(***************************************************************************)
(* Daemon                                                                  *)
(***************************************************************************)

(* DaemonTypeOK and LockGuardsFile are inductive together; NotAllRefused   *)
(* becomes inductive with them: the copy that a refused one met still has  *)
(* the lock when it is met, hence is in Locked and not refused itself.     *)
DaemonInv == DaemonTypeOK /\ LockGuardsFile /\ NotAllRefused

(* The two ways in which pc, lock and pending change together.             *)
CopyMoves(p) == \E next \in PC \ {"refused"} :
                   /\ pc' = [pc EXCEPT ![p] = next]
                   /\ next \in Locked <=> pc[p] \in Locked
                   /\ UNCHANGED lock
CopyEnds(p)  == \E how \in Ended : /\ End(p, how)
                                   /\ how = "refused" => lock \notin {p, noPid}

(* A process that is ended or merely moves keeps DaemonInv.                *)
LEMMA CopyMovesKeepInv ==
  ASSUME DaemonInv, NEW p \in Copies, CopyMoves(p),
         DaemonTypeOK'
  PROVE  DaemonInv'
<1>1. PICK next \in PC \ {"refused"} :
               /\ pc' = [pc EXCEPT ![p] = next]
               /\ next \in Locked <=> pc[p] \in Locked
               /\ UNCHANGED lock
  BY DEF CopyMoves
<1>2. LockGuardsFile'
  BY <1>1 DEF DaemonInv, LockGuardsFile, DaemonTypeOK
<1>3. NotAllRefused'
  BY <1>1 DEF DaemonInv, NotAllRefused, DaemonTypeOK
<1> QED BY <1>2, <1>3 DEF DaemonInv

LEMMA CopyEndsKeepInv ==
  ASSUME DaemonInv, NEW p \in Copies, pidfile' = pidfile, CopyEnds(p)
  PROVE  DaemonInv'
<1>1. PICK how \in Ended : End(p, how) /\ (how = "refused" => lock \notin {p, noPid})
  BY DEF CopyEnds
<1>2. DaemonTypeOK'
  BY <1>1 DEF DaemonInv, DaemonTypeOK, End, PC, Ended, Serving, Ignores, Locked
<1>3. LockGuardsFile'
  BY <1>1, CopiesAssumption
     DEF DaemonInv, LockGuardsFile, DaemonTypeOK, End, Ended, Locked
<1>4. NotAllRefused'
  <2>1. CASE how = "refused"
    <3>1. lock \in Copies /\ lock # p
      BY <1>1, <2>1 DEF DaemonInv, DaemonTypeOK
    <3>2. pc[lock] \in Locked
      BY <3>1 DEF DaemonInv, LockGuardsFile
    <3>3. pc'[lock] = pc[lock]
      BY <1>1, <3>1 DEF End, DaemonInv, DaemonTypeOK
    <3> QED BY <3>1, <3>2, <3>3 DEF NotAllRefused, Locked
  <2>2. CASE how # "refused"
    BY <1>1, <2>2 DEF DaemonInv, NotAllRefused, DaemonTypeOK, End
  <2> QED BY <2>1, <2>2
<1> QED BY <1>2, <1>3, <1>4 DEF DaemonInv

-----------------------------------------------------------------------------
LEMMA DaemonInitInv == DaemonInit => DaemonInv
BY CopiesAssumption
   DEF DaemonInit, DaemonInv, DaemonTypeOK, LockGuardsFile, NotAllRefused, PC, Ended, Serving, Ignores,
       Locked

(* The steps of main() that change neither the lock nor pending.           *)
LEMMA MainMovesInv ==
  ASSUME DaemonInv, NEW p \in Copies,
         \/ daemonize(p) \/ Open(p) \/ Truncate(p) \/ Write(p)
         \/ RestoreSIGHUP(p) \/ Block(p) \/ CreateThread(p)
  PROVE  DaemonInv'
<1>1. CopyMoves(p)
  BY DEF daemonize, Open, Truncate, Write, RestoreSIGHUP, Block, CreateThread,
         Call, CopyMoves, PC, Ended, Serving, Ignores, Locked
<1>2. DaemonTypeOK'
  BY DEF daemonize, Open, Truncate, Write, RestoreSIGHUP, Block, CreateThread,
         Call, DaemonInv, DaemonTypeOK, PC, Ended, Serving, Ignores, Locked
<1> QED BY <1>1, <1>2, CopyMovesKeepInv

(* Taking the lock and giving it back.                                     *)
LEMMA LockInv ==
  ASSUME DaemonInv, NEW p \in Copies, lockfile(p) \/ Close(p)
  PROVE  DaemonInv'
<1>1. CASE Call(p, "lock", "truncate") /\ lock = noPid /\ lock' = p
           /\ UNCHANGED <<pidfile, pending>>
  <2>1. DaemonTypeOK'
    BY <1>1 DEF DaemonInv, DaemonTypeOK, Call, PC, Ended, Serving, Ignores, Locked
  <2>2. LockGuardsFile'
    BY <1>1, CopiesAssumption DEF DaemonInv, DaemonTypeOK, LockGuardsFile, Call, Locked
  <2>3. NotAllRefused'
    BY <1>1 DEF DaemonInv, DaemonTypeOK, NotAllRefused, Call
  <2> QED BY <2>1, <2>2, <2>3 DEF DaemonInv
<1>2. CASE pc[p] = "lock" /\ lock # noPid /\ End(p, "refused") /\ UNCHANGED pidfile
  <2>1. lock # p
    BY <1>2 DEF DaemonInv, LockGuardsFile, Locked
  <2>2. CopyEnds(p)
    BY <1>2, <2>1 DEF CopyEnds, Ended
  <2> QED BY <1>2, <2>2, CopyEndsKeepInv
<1>3. CASE Close(p)
  <2>1. lock = p
    BY <1>3 DEF Close, Call, DaemonInv, LockGuardsFile, Locked
  <2>2. DaemonTypeOK'
    BY <1>3 DEF Close, Call, DaemonInv, DaemonTypeOK, PC, Ended, Serving, Ignores, Locked
  <2>3. LockGuardsFile'
    BY <1>3, <2>1, CopiesAssumption
       DEF Close, Call, DaemonInv, DaemonTypeOK, LockGuardsFile, Locked
  <2>4. NotAllRefused'
    BY <1>3 DEF Close, Call, DaemonInv, DaemonTypeOK, NotAllRefused
  <2> QED BY <2>2, <2>3, <2>4 DEF DaemonInv
<1> QED BY <1>1, <1>2, <1>3 DEF lockfile

(* A signal that sigwait() takes.                                          *)
LEMMA ThreadInv ==
  ASSUME DaemonInv, NEW p \in Copies, thr_fn(p)
  PROVE  DaemonInv'
<1>1. PICK signo \in pending[p] :
         IF signo = "SIGTERM"
         THEN End(p, "exited")
         ELSE /\ pending' = [pending EXCEPT ![p] = @ \ {signo}]
              /\ UNCHANGED <<pc, lock>>
  BY DEF thr_fn
<1>2. CASE signo = "SIGTERM"
  <2>1. CopyEnds(p)
    BY <1>1, <1>2 DEF CopyEnds, Ended
  <2> QED BY <2>1, CopyEndsKeepInv DEF thr_fn
<1>3. CASE signo # "SIGTERM"
  <2>1. DaemonTypeOK'
    BY <1>1, <1>3 DEF thr_fn, DaemonInv, DaemonTypeOK
  <2>2. LockGuardsFile' /\ NotAllRefused'
    BY <1>1, <1>3 DEF DaemonInv, LockGuardsFile, NotAllRefused
  <2> QED BY <2>1, <2>2 DEF DaemonInv
<1> QED BY <1>2, <1>3

LEMMA DaemonSignalInv ==
  ASSUME DaemonInv, NEW p \in Copies, NEW signo \in Signals, Signal(p, signo)
  PROVE  DaemonInv'
<1>1. CASE pc[p] \in Serving
  <2>1. DaemonTypeOK'
    BY <1>1 DEF Signal, DaemonInv, DaemonTypeOK
  <2>2. LockGuardsFile' /\ NotAllRefused'
    BY <1>1 DEF Signal, DaemonInv, LockGuardsFile, NotAllRefused
  <2> QED BY <2>1, <2>2 DEF DaemonInv
<1>2. CASE pc[p] \notin Serving
  <2>1. CopyEnds(p)
    BY <1>2 DEF Signal, CopyEnds, Ended
  <2> QED BY <1>2, <2>1, CopyEndsKeepInv DEF Signal
<1> QED BY <1>1, <1>2

LEMMA FailsInv ==
  ASSUME DaemonInv, NEW p \in Copies, Fails(p)
  PROVE  DaemonInv'
<1>1. CopyEnds(p)
  BY DEF Fails, CopyEnds, Ended
<1> QED BY <1>1, CopyEndsKeepInv DEF Fails

LEMMA DaemonNextInv == DaemonInv /\ [DaemonNext]_daemonVars => DaemonInv'
<1> SUFFICES ASSUME DaemonInv, [DaemonNext]_daemonVars PROVE DaemonInv'
  OBVIOUS
<1>1. ASSUME NEW p \in Copies, main(p) PROVE DaemonInv'
  BY <1>1, MainMovesInv, LockInv DEF main
<1>2. ASSUME NEW p \in Copies, thr_fn(p) PROVE DaemonInv'
  BY <1>2, ThreadInv
<1>3. ASSUME NEW p \in Copies, Fails(p) PROVE DaemonInv'
  BY <1>3, FailsInv
<1>4. ASSUME NEW p \in Copies, NEW signo \in Signals, Signal(p, signo) PROVE DaemonInv'
  BY <1>4, DaemonSignalInv
<1>5. CASE UNCHANGED daemonVars
  BY <1>5 DEF daemonVars, DaemonInv, DaemonTypeOK, LockGuardsFile, NotAllRefused
<1> QED BY <1>1, <1>2, <1>3, <1>4, <1>5 DEF DaemonNext

(* DaemonInv holds in every reachable state.                               *)
THEOREM DaemonInvariance == DaemonSpec => []DaemonInv
BY DaemonInitInv, DaemonNextInv, PTL DEF DaemonSpec

(* Every variable keeps its type and only blocked signals are pending.     *)
THEOREM DaemonTypeCorrect == DaemonSpec => []DaemonTypeOK
BY DaemonInvariance, PTL DEF DaemonInv

(* The lock is held exactly while its holder rewrites the lock file,       *)
(* whichever copies are killed or fail at whatever point.                  *)
THEOREM LockGuards == DaemonSpec => []LockGuardsFile
BY DaemonInvariance, PTL DEF DaemonInv

(* However many copies are started, they do not all give way.              *)
THEOREM SomeCopyGoesOn == DaemonSpec => []NotAllRefused
BY DaemonInvariance, PTL DEF DaemonInv
=============================================================================
