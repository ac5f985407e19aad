----------------------------- MODULE DirWalkProofs -----------------------------
(***************************************************************************)
(* Proofs about DirWalk for every tree, every order of the entries and any *)
(* limit of open directories: what myftw_n still has to visit is there     *)
(* once, and dopath does not leave the directories it could enter.         *)
(***************************************************************************)
EXTENDS DirWalk, SequenceTheorems, TLAPS

Frame == [dir : Objects, left : SUBSET Objects]

TreeOK == /\ tree.dirs \subseteq Objects
          /\ tree.readable \subseteq Objects /\ tree.searchable \subseteq Objects

(* By the place in the program: the directories open, and who uses what.   *)
Shape ==
  /\ pc = "start" => stack = <<>> /\ frames = <<>>
  /\ walk = "myftw_n" => /\ pc \in {"loop", "done"} => frames = <<>>
                         /\ pc = "dir" => Len(frames) = 1
  /\ walk = "dopath" => pc # "dir" /\ stack = <<>>

(* V is what has been on the stack: with each object its parent, which is  *)
(* not there any more.  Entries still to be read have not been.            *)
OnStack(n) == \E k \in 1..Len(stack) : stack[k] = n
Visited(V) ==
  /\ \A n \in Objects : OnStack(n) => n \in V
  /\ \A n \in V \ {1} : tree.parent[n] \in V /\ ~OnStack(tree.parent[n])
  /\ pc = "dir" => /\ Top.dir \in V /\ ~OnStack(Top.dir)
                   /\ \A n \in Top.left : tree.parent[n] = Top.dir /\ n \notin V
OnceEach == walk = "myftw_n" => \E V \in SUBSET Objects : Visited(V)

(* S is where the working directory has been: the way up from each of      *)
(* these leads to one of them.                                             *)
Entered(S) == /\ cwd \in S /\ 0 \in S /\ S \ {0} \subseteq tree.searchable
              /\ \A n \in S \ {0} : tree.parent[n] \in S
WayBack == \E S \in SUBSET (Objects \cup {0}) : Entered(S)

Inv == TypeOK /\ TreeOK /\ Shape /\ OnceEach /\ WayBack

-----------------------------------------------------------------------------
LEMMA Sizes == /\ Size \in Nat /\ MaxOpen \in Nat /\ MaxOpen > 0 /\ 1 \in Objects
               /\ Objects \subseteq Nat \ {0} /\ garbage \notin Objects
BY TreeAssumption DEF Objects, garbage

LEMMA ParentFacts ==
  ASSUME TypeOK
  PROVE  /\ tree.parent[1] = 0
         /\ \A n \in Objects : /\ tree.parent[n] \in Nat /\ tree.parent[n] < n
                               /\ n # 1 => tree.parent[n] \in Objects
BY Sizes DEF TypeOK, Parents, Objects

(* What is taken from the stack was there once, the rest stays.            *)
LEMMA Popped ==
  ASSUME TypeOK, stack # <<>>
  PROVE  /\ Head(stack) = stack[1] /\ 1 \in 1..Len(stack)
         /\ Tail(stack) \in Seq(Objects \cup {garbage})
         /\ \A k \in 1..Len(Tail(stack)) :
               k + 1 \in 1..Len(stack) /\ Tail(stack)[k] = stack[k + 1]
<1> stack \in Seq(Objects \cup {garbage})
  BY DEF TypeOK
<1> QED
  BY HeadTailProperties

LEMMA PoppedOnce ==
  ASSUME TypeOK, stack # <<>>, stack' = Tail(stack)
  PROVE  /\ stack' \in Seq(Objects \cup {garbage})
         /\ \A j, k \in DOMAIN stack' : stack'[j] = stack'[k] => j = k
         /\ OnStack(Head(stack))
         /\ \A n : OnStack(n)' => OnStack(n) /\ n # Head(stack)
<1>1. \A j, k \in 1..Len(stack) : stack[j] = stack[k] => j = k
  BY DEF TypeOK
<1>2. \A k \in 1..Len(stack') : k + 1 \in 1..Len(stack) /\ stack'[k] = stack[k + 1]
  BY Popped
<1>3. stack' \in Seq(Objects \cup {garbage}) /\ DOMAIN stack' = 1..Len(stack')
  BY Popped
<1>4. \A j, k \in DOMAIN stack' : stack'[j] = stack'[k] => j = k
  BY <1>1, <1>2, <1>3
<1>5. OnStack(Head(stack))
  BY Popped DEF OnStack
<1>6. ASSUME NEW n, OnStack(n)' PROVE OnStack(n) /\ n # Head(stack)
  <2>1. PICK k \in 1..Len(stack') : stack'[k] = n
    BY <1>6 DEF OnStack
  <2>2. k + 1 \in 1..Len(stack) /\ stack[k + 1] = n /\ k + 1 # 1
    BY <1>2, <2>1
  <2>3. stack[1] # n
    BY <1>1, <2>2, Popped
  <2> QED
    BY <2>2, <2>3, Popped DEF OnStack
<1> QED
  BY <1>3, <1>4, <1>5, <1>6

LEMMA Pushed ==
  ASSUME TypeOK, NEW n \in Objects, ~OnStack(n), stack' = <<n>> \o stack
  PROVE  /\ stack' \in Seq(Objects \cup {garbage})
         /\ \A j, k \in DOMAIN stack' : stack'[j] = stack'[k] => j = k
         /\ \A m : OnStack(m)' => m = n \/ OnStack(m)
<1>1. /\ <<n>> \in Seq(Objects \cup {garbage}) /\ Len(<<n>>) = 1 /\ <<n>>[1] = n
      /\ stack \in Seq(Objects \cup {garbage}) /\ Len(stack) \in Nat
      /\ \A j, k \in 1..Len(stack) : stack[j] = stack[k] => j = k
  BY DEF TypeOK
<1>2. /\ stack' \in Seq(Objects \cup {garbage}) /\ Len(stack') = 1 + Len(stack)
      /\ \A k \in 1..1 + Len(stack) : stack'[k] = IF k <= 1 THEN <<n>>[k] ELSE stack[k - 1]
  BY <1>1, ConcatProperties
<1>3. DOMAIN stack' = 1..1 + Len(stack)
  BY <1>2
<1>4. /\ stack'[1] = n
      /\ \A k \in DOMAIN stack' : k # 1 => k - 1 \in 1..Len(stack) /\ stack'[k] = stack[k - 1]
  BY <1>1, <1>2, <1>3
<1>5. \A k \in 1..Len(stack) : stack[k] # n
  BY DEF OnStack
<1>6. ASSUME NEW j \in DOMAIN stack', NEW k \in DOMAIN stack', stack'[j] = stack'[k]
      PROVE  j = k
  <2>1. CASE j = 1 \/ k = 1
    BY <1>4, <1>5, <1>6, <2>1
  <2>2. CASE j # 1 /\ k # 1
    <3>1. j - 1 = k - 1
      BY <1>1, <1>4, <1>6, <2>2
    <3> QED
      BY <1>1, <1>3, <3>1
  <2> QED
    BY <2>1, <2>2
<1>7. ASSUME NEW m, OnStack(m)' PROVE m = n \/ OnStack(m)
  <2>1. PICK k \in DOMAIN stack' : stack'[k] = m
    BY <1>2, <1>3, <1>7 DEF OnStack
  <2> QED
    BY <1>4, <2>1 DEF OnStack
<1> QED
  BY <1>2, <1>6, <1>7

(* What opendir(), readdir() and closedir() make of the open directories.  *)
LEMMA Opened ==
  ASSUME NEW fs \in Seq(Frame), NEW d \in Objects
  PROVE  /\ Append(fs, [dir |-> d, left |-> Children(d)]) \in Seq(Frame)
         /\ Len(Append(fs, [dir |-> d, left |-> Children(d)])) = Len(fs) + 1
<1>1. [dir |-> d, left |-> Children(d)] \in Frame
  BY DEF Frame, Children
<1> QED
  BY <1>1, AppendProperties

LEMMA ReadOne ==
  ASSUME TypeOK, frames # <<>>, NEW n
  PROVE  /\ Len(frames) \in Nat /\ Len(frames) > 0
         /\ Top.dir \in Objects /\ Top.left \subseteq Objects
         /\ Read(n) \in Seq(Frame) /\ Len(Read(n)) = Len(frames)
         /\ Read(n)[Len(frames)] = [dir |-> Top.dir, left |-> Top.left \ {n}]
<1>1. frames \in Seq(Frame) /\ Len(frames) \in Nat /\ Len(frames) > 0 /\ DOMAIN frames = 1..Len(frames)
  BY DEF TypeOK, Frame
<1>2. Top \in Frame /\ Len(frames) \in 1..Len(frames) /\ Top = frames[Len(frames)]
  BY <1>1, ElementOfSeq DEF Top
<1>3. [dir |-> Top.dir, left |-> Top.left \ {n}] \in Frame
  BY <1>2 DEF Frame
<1>4. \A f \in Frame : \A x : [f EXCEPT !.left = x] = [dir |-> f.dir, left |-> x]
  BY DEF Frame
<1>5. Read(n) = [frames EXCEPT ![Len(frames)] = [dir |-> Top.dir, left |-> Top.left \ {n}]]
  <2>1. Read(n) = [frames EXCEPT ![Len(frames)] = [Top EXCEPT !.left = Top.left \ {n}]]
    BY <1>1, <1>2 DEF Read, Top
  <2>2. [Top EXCEPT !.left = Top.left \ {n}] = [dir |-> Top.dir, left |-> Top.left \ {n}]
    BY <1>2, <1>4
  <2> QED
    BY <2>1, <2>2
<1> HIDE DEF Top
<1>6. Read(n) \in Seq(Frame) /\ Len(Read(n)) = Len(frames)
  BY <1>1, <1>2, <1>3, <1>5
<1> QED
  BY <1>1, <1>2, <1>5, <1>6 DEF Frame

LEMMA ClosedOne ==
  ASSUME TypeOK, frames # <<>>
  PROVE  Closed \in Seq(Frame) /\ Len(Closed) = Len(frames) - 1
<1>1. frames \in Seq(Frame) /\ Len(frames) \in Nat /\ Len(frames) > 0
  BY DEF TypeOK, Frame
<1>2. \A k \in 1..(Len(frames) - 1) : frames[k] \in Frame
  BY <1>1, ElementOfSeq
<1> DEFINE last == Len(frames) - 1
<1>3. last \in Nat /\ 1 \in Int /\ last \in Int /\ last - 1 + 1 = last
  BY <1>1
<1>4. \A k \in 1..last : frames[k] \in Frame
  BY <1>2
<1> HIDE DEF last
<1>5. /\ SubSeq(frames, 1, last) \in Seq(Frame)
      /\ Len(SubSeq(frames, 1, last)) = IF 1 <= last THEN last - 1 + 1 ELSE 0
  BY <1>3, <1>4, SubSeqProperties
<1>6. Len(SubSeq(frames, 1, last)) = last
  BY <1>3, <1>5
<1> QED
  BY <1>5, <1>6 DEF Closed, last

-----------------------------------------------------------------------------
LEMMA InitInv == Init => Inv
<1> SUFFICES ASSUME Init PROVE Inv
  OBVIOUS
<1>1. /\ tree.parent \in Parents /\ tree.name \in [Objects -> Names]
      /\ tree.dirs \subseteq Objects
      /\ tree.readable \subseteq tree.dirs /\ tree.searchable \subseteq tree.dirs
  BY DEF Init
<1>2. /\ walk \in {"myftw_n", "dopath"} /\ arg \in Names /\ pc = "start"
      /\ stack = <<>> /\ frames = <<>> /\ cwd = 0 /\ ret = 0 /\ nreg = 0 /\ ndir = 0
  BY DEF Init
<1>3. TypeOK
  <2>1. /\ stack \in Seq(Objects \cup {garbage}) /\ frames \in Seq(Frame)
        /\ Len(stack) = 0 /\ Len(frames) = 0 /\ DOMAIN stack = {}
    BY <1>2
  <2> QED
    BY <1>1, <1>2, <2>1, Sizes DEF TypeOK, Frame
<1>4. TreeOK /\ Shape
  BY <1>1, <1>2 DEF TreeOK, Shape
<1>5. OnceEach
  <2>1. \A n : ~OnStack(n)
    BY <1>2 DEF OnStack
  <2>2. Visited({})
    BY <1>2, <2>1 DEF Visited
  <2> QED
    BY <2>2 DEF OnceEach
<1>6. WayBack
  <2>1. Entered({0})
    BY <1>2 DEF Entered
  <2> QED
    BY <2>1 DEF WayBack
<1> QED
  BY <1>3, <1>4, <1>5, <1>6 DEF Inv

(* What a step keeps that moves neither the walk nor its directory.        *)
LEMMA SameTree ==
  ASSUME Inv, UNCHANGED <<tree, walk, arg, cwd>>
  PROVE  /\ TreeOK' /\ WayBack'
         /\ tree'.parent \in Parents /\ tree'.name \in [Objects -> Names]
         /\ walk' \in {"myftw_n", "dopath"} /\ arg' \in Names
         /\ cwd' \in {0} \cup tree'.searchable
<1>1. PICK S \in SUBSET (Objects \cup {0}) : Entered(S)
  BY DEF Inv, WayBack
<1>2. Entered(S)'
  BY <1>1 DEF Entered
<1> QED
  BY <1>2 DEF Inv, TypeOK, TreeOK, WayBack

-----------------------------------------------------------------------------
(* myftw_n.                                                                *)
LEMMA InitStackInv ==
  ASSUME Inv, init_stack
  PROVE  Inv'
<1>1. /\ walk = "myftw_n" /\ pc = "start" /\ stack = <<>> /\ frames = <<>>
      /\ UNCHANGED <<tree, walk, arg, frames, cwd, nreg, ndir>>
      /\ \/ stack' \in {<<1>>, <<1, garbage>>} /\ pc' = "loop" /\ UNCHANGED ret
         \/ stack' = stack /\ pc' = "done" /\ ret' = 1
  BY DEF init_stack, Inv, Shape
<1>2. /\ stack' \in Seq(Objects \cup {garbage})
      /\ \A j, k \in DOMAIN stack' : stack'[j] = stack'[k] => j = k
      /\ \A n \in Objects : OnStack(n)' => n = 1
  <2>1. CASE stack' = <<>>
    BY <2>1 DEF OnStack
  <2>2. CASE stack' = <<1>>
    BY <2>2, Sizes DEF OnStack
  <2>3. CASE stack' = <<1, garbage>>
    BY <2>3, Sizes DEF OnStack, garbage
  <2> QED
    BY <1>1, <2>1, <2>2, <2>3
<1>3. TypeOK'
  <2>1. Len(frames') = 0
    BY <1>1
  <2> QED
    BY <1>1, <1>2, <2>1, SameTree DEF Inv, TypeOK
<1>4. TreeOK' /\ WayBack'
  BY <1>1, SameTree
<1>5. Shape'
  BY <1>1 DEF Shape
<1>6. OnceEach'
  <2>1. Visited({1})'
    BY <1>1, <1>2, Sizes DEF Visited
  <2> QED
    BY <2>1, Sizes DEF OnceEach
<1> QED
  BY <1>3, <1>4, <1>5, <1>6 DEF Inv

LEMMA PopInv ==
  ASSUME Inv, Pop
  PROVE  Inv'
<1>1. /\ walk = "myftw_n" /\ pc = "loop" /\ stack # <<>> /\ frames = <<>> /\ TypeOK
      /\ UNCHANGED <<tree, walk, arg, cwd, ret, nreg, ndir>>
  BY DEF Pop, Inv, Shape
<1>2. PICK V \in SUBSET Objects : Visited(V)
  BY <1>1 DEF Inv, OnceEach
<1>3. CASE /\ Head(stack) = garbage /\ pc' = "died" /\ UNCHANGED <<stack, frames>>
  <2>1. TypeOK'
    BY <1>1, <1>3, SameTree DEF TypeOK
  <2>2. Shape'
    BY <1>1, <1>3 DEF Shape
  <2>3. Visited(V)'
    BY <1>1, <1>2, <1>3 DEF Visited, OnStack
  <2> QED
    BY <1>1, <2>1, <2>2, <2>3, SameTree DEF Inv, OnceEach
<1>4. CASE Head(stack) # garbage
  <2>1. /\ stack' = Tail(stack) /\ Head(stack) \in Objects
        /\ \/ pc' = "dir" /\ frames' = Open(Head(stack))
           \/ UNCHANGED <<pc, frames>>
    <3>1. stack \in Seq(Objects \cup {garbage})
      BY <1>1 DEF TypeOK
    <3>2. Head(stack) \in Objects
      BY <1>1, <1>4, <3>1, HeadTailProperties
    <3> QED
      BY <1>4, <3>2 DEF Pop
  <2> DEFINE d == Head(stack)
  <2>2. /\ frames' \in Seq(Frame)
        /\ \/ pc' = "dir" /\ Len(frames') = 1 /\ frames'[1] = [dir |-> d, left |-> Children(d)]
           \/ pc' = "loop" /\ Len(frames') = 0 /\ frames' = <<>>
    <3>1. frames \in Seq(Frame) /\ Len(frames) = 0
      BY <1>1
    <3>2. CASE pc' = "dir" /\ frames' = Open(d)
      <4> DEFINE f == [dir |-> d, left |-> Children(d)]
      <4>1. frames' = <<f>>
        BY <1>1, <3>2 DEF Open
      <4>2. f \in Frame
        BY <2>1 DEF Frame, Children
      <4> HIDE DEF f
      <4>3. frames' \in Seq(Frame) /\ Len(frames') = 1 /\ frames'[1] = f
        BY <4>1, <4>2
      <4> QED
        BY <3>2, <4>3 DEF f
    <3> QED
      BY <1>1, <2>1, <3>1, <3>2
  <2>3. /\ stack' \in Seq(Objects \cup {garbage})
        /\ \A j, k \in DOMAIN stack' : stack'[j] = stack'[k] => j = k
        /\ OnStack(d)
        /\ \A n : OnStack(n)' => OnStack(n) /\ n # d
    BY <1>1, <2>1, PoppedOnce
  <2>4. TypeOK'
    <3>1. pc' \in {"loop", "dir"} /\ walk' = "myftw_n"
      BY <1>1, <2>2
    <3>3. Len(frames') <= 1
      <4>1. CASE Len(frames') = 1
        BY ONLY <4>1, SMTT(30)
      <4>2. CASE Len(frames') = 0
        BY ONLY <4>2, SMTT(30)
      <4> QED
        BY <2>2, <4>1, <4>2
    <3>2. frames' \in Seq([dir : Objects, left : SUBSET Objects])
      BY <2>2 DEF Frame
    <3> QED
      BY <1>1, <2>3, <3>1, <3>2, <3>3, SameTree DEF TypeOK
  <2>5. Shape'
    BY <1>1, <2>2 DEF Shape
  <2>6. Visited(V)'
    <3>1. \A n \in Objects : OnStack(n)' => n \in V
      BY <1>2, <2>3 DEF Visited
    <3>2. \A n \in V \ {1} : tree'.parent[n] \in V /\ ~OnStack(tree.parent[n])'
      BY <1>1, <1>2, <2>3 DEF Visited
    <3>3. \A n \in Children(d) : tree.parent[n] = d /\ n \notin V
      <4>1. SUFFICES ASSUME NEW n \in Children(d), n \in V PROVE FALSE
        BY DEF Children
      <4>2. n \in Objects /\ tree.parent[n] = d
        BY <4>1 DEF Children
      <4>3. n # 1
        BY <1>1, <2>1, <4>2, ParentFacts, Sizes
      <4> QED
        BY <1>2, <2>3, <4>1, <4>2, <4>3 DEF Visited
    <3>5. pc' = "dir" => Top' = [dir |-> d, left |-> Children(d)]
      BY <1>1, <2>2 DEF Top
    <3>6. d \in V
      BY <1>2, <2>1, <2>3 DEF Visited
    <3> HIDE DEF d
    <3>7. pc' = "dir" => Top'.dir = d /\ Top'.left = Children(d)
      BY <3>5
    <3> QED
      BY <1>1, <2>3, <3>1, <3>2, <3>3, <3>6, <3>7 DEF Visited
  <2> QED
    BY <1>1, <2>4, <2>5, <2>6, SameTree DEF Inv, OnceEach
<1> QED
  BY <1>3, <1>4 DEF Pop

LEMMA ProcEntryInv ==
  ASSUME Inv, NEW n \in Objects, proc_entry(n)
  PROVE  Inv'
<1>1. /\ walk = "myftw_n" /\ pc = "dir" /\ n \in Top.left /\ frames' = Read(n)
      /\ UNCHANGED <<tree, walk, arg, pc, cwd, ret>> /\ TypeOK
      /\ Len(frames) = 1 /\ frames # <<>>
  <2>1. /\ walk = "myftw_n" /\ pc = "dir" /\ n \in Top.left /\ frames' = Read(n)
        /\ UNCHANGED <<tree, walk, arg, pc, cwd, ret>>
    BY DEF proc_entry
  <2>2. TypeOK /\ Len(frames) = 1
    BY <2>1 DEF Inv, Shape
  <2>3. frames # <<>>
    BY <2>2
  <2> QED
    BY <2>1, <2>2, <2>3
<1>2. PICK V \in SUBSET Objects : Visited(V)
  BY <1>1 DEF Inv, OnceEach
<1>3. /\ Top.dir \in V /\ ~OnStack(Top.dir) /\ n \notin V /\ tree.parent[n] = Top.dir
      /\ \A m \in Top.left : tree.parent[m] = Top.dir /\ m \notin V
      /\ ~OnStack(n)
  BY <1>1, <1>2 DEF Visited
<1>4. /\ frames' \in Seq(Frame) /\ Len(frames') = 1
      /\ Top'.dir = Top.dir /\ Top'.left = Top.left \ {n}
  <2>1. Read(n) \in Seq(Frame) /\ Len(Read(n)) = 1
        /\ Read(n)[1] = [dir |-> Top.dir, left |-> Top.left \ {n}]
    BY <1>1, ReadOne
  <2>2. Top' = [dir |-> Top.dir, left |-> Top.left \ {n}]
    <3>1. Top' = frames'[Len(frames')]
      BY DEF Top
    <3> QED
      BY <1>1, <2>1, <3>1
  <2> QED
    BY <1>1, <2>1, <2>2
<1>5. /\ nreg' \in Nat /\ ndir' \in Nat
      /\ stack' = stack \/ stack' = <<n>> \o stack
  BY <1>1 DEF proc_entry, Counted, push, TypeOK
<1>6. /\ stack' \in Seq(Objects \cup {garbage})
      /\ \A j, k \in DOMAIN stack' : stack'[j] = stack'[k] => j = k
      /\ \A m : OnStack(m)' => m = n \/ OnStack(m)
  <2>1. CASE stack' = stack
    BY <1>1, <2>1 DEF TypeOK, OnStack
  <2>2. CASE stack' = <<n>> \o stack
    BY <1>1, <1>3, <2>2, Pushed
  <2> QED
    BY <1>5, <2>1, <2>2
<1>7. TypeOK'
  <2>1. frames' \in Seq([dir : Objects, left : SUBSET Objects])
    BY <1>4 DEF Frame
  <2>2. Len(frames') <= 1
    BY <1>4
  <2> QED
    BY <1>1, <1>5, <1>6, <2>1, <2>2, SameTree DEF TypeOK
<1>8. Shape'
  BY <1>1, <1>4 DEF Shape
<1>9. Visited(V \cup {n})'
  <2>1. \A m \in Objects : OnStack(m)' => m \in V \cup {n}
    BY <1>2, <1>6 DEF Visited
  <2>2. tree.parent[n] < n /\ n \in Nat /\ Top.dir # n
    BY <1>1, <1>3, ParentFacts, Sizes
  <2>3. ASSUME NEW m \in (V \cup {n}) \ {1}
        PROVE  tree'.parent[m] \in V \cup {n} /\ ~OnStack(tree.parent[m])'
    <3>1. CASE m = n
      BY <1>1, <1>3, <1>6, <2>2, <3>1
    <3>2. CASE m \in V
      <4>1. tree.parent[m] \in V /\ ~OnStack(tree.parent[m])
        BY <1>2, <2>3, <3>2 DEF Visited
      <4> QED
        BY <1>1, <1>3, <1>6, <4>1
    <3> QED
      BY <2>3, <3>1, <3>2
  <2>4. \A m \in Top.left \ {n} : tree.parent[m] = Top.dir /\ m \notin V \cup {n}
    BY <1>3
  <2>5. ~OnStack(Top.dir)'
    <3>1. PICK d : d = Top.dir
      OBVIOUS
    <3>2. ~OnStack(d)'
      BY <1>3, <1>6, <2>2, <3>1
    <3> QED
      BY <1>4, <3>1, <3>2 DEF OnStack
  <2> QED
    BY <1>1, <1>3, <1>4, <2>1, <2>3, <2>4, <2>5 DEF Visited
<1> QED
  BY <1>1, <1>7, <1>8, <1>9, SameTree DEF Inv, OnceEach

LEMMA CloseInv ==
  ASSUME Inv, closedir
  PROVE  Inv'
<1>1. /\ walk = "myftw_n" /\ pc = "dir" /\ pc' = "loop" /\ frames' = Closed
      /\ UNCHANGED <<tree, walk, arg, stack, cwd, ret, nreg, ndir>> /\ TypeOK
      /\ Len(frames) = 1 /\ frames # <<>>
  BY DEF closedir, Inv, Shape
<1>2. PICK V \in SUBSET Objects : Visited(V)
  BY <1>1 DEF Inv, OnceEach
<1>3. frames' \in Seq(Frame) /\ Len(frames') = 0 /\ frames' = <<>>
  BY <1>1, ClosedOne
<1>4. TypeOK'
  <2>1. Len(frames') <= 1 /\ frames' \in Seq([dir : Objects, left : SUBSET Objects])
    BY <1>3 DEF Frame
  <2> QED
    BY <1>1, <2>1, SameTree DEF TypeOK
<1>5. Shape'
  BY <1>1, <1>3 DEF Shape
<1>6. Visited(V)'
  BY <1>1, <1>2 DEF Visited, OnStack
<1> QED
  BY <1>1, <1>4, <1>5, <1>6, SameTree DEF Inv, OnceEach

(* The end of myftw_n, and of a process without memory.                    *)
LEMMA EndInv ==
  ASSUME Inv, myftw_n_return \/ NoMemory
  PROVE  Inv'
<1>1. /\ walk = "myftw_n" /\ TypeOK /\ pc' \in {"done", "died"} /\ ret' \in {-1, 0, 1}
      /\ pc' = "done" => frames = <<>>
      /\ UNCHANGED <<tree, walk, arg, stack, frames, cwd, nreg, ndir>>
  BY DEF myftw_n_return, NoMemory, Inv, Shape, TypeOK
<1>2. PICK V \in SUBSET Objects : Visited(V)
  BY <1>1 DEF Inv, OnceEach
<1>3. TypeOK'
  BY <1>1, SameTree DEF TypeOK
<1>4. Shape'
  BY <1>1 DEF Shape
<1>5. Visited(V)'
  BY <1>1, <1>2 DEF Visited, OnStack
<1> QED
  BY <1>1, <1>3, <1>4, <1>5, SameTree DEF Inv, OnceEach

-----------------------------------------------------------------------------
(* dopath.                                                                 *)
LEMMA EnterInv ==
  ASSUME Inv, walk = "dopath", stack = <<>>, pc' = "loop",
         UNCHANGED <<tree, walk, arg, stack>>,
         NEW name, NEW fs \in Seq(Frame), Len(fs) <= MaxOpen, Enter(name, fs)
  PROVE  Inv'
<1>1. PICK S \in SUBSET (Objects \cup {0}) : Entered(S)
  BY DEF Inv, WayBack
<1>2. /\ nreg' \in Nat /\ ndir' \in Nat /\ ret' \in {-1, 0, 1}
      /\ \/ frames' = fs /\ UNCHANGED cwd
         \/ \E n \in Named(cwd, name) :
              /\ Len(fs) < MaxOpen
              /\ frames' = Append(fs, [dir |-> n, left |-> Children(n)])
              /\ cwd' = IF n \in tree.searchable THEN n ELSE cwd
  <2>1. CASE ret' = -1 /\ frames' = fs /\ UNCHANGED <<cwd, nreg, ndir>>
    BY <2>1 DEF Inv, TypeOK
  <2>2. ASSUME NEW n \in Named(cwd, name), Counted(n),
               \/ frames' = fs /\ UNCHANGED cwd /\ (UNCHANGED ret \/ ret' = -1)
               \/ /\ Len(fs) < MaxOpen /\ UNCHANGED ret
                  /\ frames' = Append(fs, [dir |-> n, left |-> Children(n)])
                  /\ cwd' = IF n \in tree.searchable THEN n ELSE cwd
        PROVE  /\ nreg' \in Nat /\ ndir' \in Nat /\ ret' \in {-1, 0, 1}
               /\ \/ frames' = fs /\ UNCHANGED cwd
                  \/ /\ Len(fs) < MaxOpen
                     /\ frames' = Append(fs, [dir |-> n, left |-> Children(n)])
                     /\ cwd' = IF n \in tree.searchable THEN n ELSE cwd
    <3>1. nreg' \in Nat /\ ndir' \in Nat
      BY <2>2 DEF Counted, Inv, TypeOK
    <3>2. ret' \in {-1, 0, 1}
      BY <2>2 DEF Inv, TypeOK
    <3> QED
      BY <2>2, <3>1, <3>2
  <2> QED
    BY <2>1, <2>2 DEF Enter
<1>3. \A n \in Named(cwd, name) : n \in Objects /\ tree.parent[n] = cwd
  BY DEF Named, Children
<1>4. frames' \in Seq(Frame) /\ Len(frames') <= MaxOpen
  <2>1. CASE frames' = fs
    BY <2>1
  <2>2. ASSUME NEW n \in Named(cwd, name), Len(fs) < MaxOpen,
               frames' = Append(fs, [dir |-> n, left |-> Children(n)])
        PROVE  frames' \in Seq(Frame) /\ Len(frames') <= MaxOpen
    <3>1. frames' \in Seq(Frame) /\ Len(frames') = Len(fs) + 1
      BY <1>3, <2>2, Opened
    <3> QED
      BY <2>2, <3>1, Sizes
  <2> QED
    BY <1>2, <2>1, <2>2
<1>5. \E R \in SUBSET (Objects \cup {0}) : Entered(R)'
  <2>1. CASE UNCHANGED cwd
    BY <1>1, <2>1 DEF Entered
  <2>2. ASSUME NEW n \in Named(cwd, name), n \in tree.searchable, cwd' = n
        PROVE  \E R \in SUBSET (Objects \cup {0}) : Entered(R)'
    <3>1. Entered(S \cup {n})'
      BY <1>1, <1>3, <2>2 DEF Entered
    <3> QED
      BY <1>3, <3>1
  <2> QED
    BY <1>2, <2>1, <2>2
<1>6. cwd' \in {0} \cup tree'.searchable
  BY <1>5 DEF Entered
<1>7. TypeOK'
  <2>1. frames' \in Seq([dir : Objects, left : SUBSET Objects])
    BY <1>4 DEF Frame
  <2> QED
    BY <1>2, <1>4, <1>6, <2>1 DEF Inv, TypeOK
<1>8. TreeOK' /\ Shape' /\ OnceEach'
  BY DEF Inv, TreeOK, Shape, OnceEach
<1> QED
  BY <1>5, <1>7, <1>8 DEF Inv, WayBack

LEMMA LeaveInv ==
  ASSUME Inv, Leave
  PROVE  Inv'
<1>1. /\ walk = "dopath" /\ pc = "loop" /\ frames # <<>> /\ stack = <<>> /\ TypeOK
      /\ frames' = Closed /\ cwd' = Up
      /\ UNCHANGED <<tree, walk, arg, pc, stack, ret, nreg, ndir>>
  BY DEF Leave, Inv, Shape
<1>2. PICK S \in SUBSET (Objects \cup {0}) : Entered(S)
  BY DEF Inv, WayBack
<1>3. Entered(S)'
  <2>1. cwd' \in S
    BY <1>1, <1>2 DEF Entered, Up
  <2> QED
    BY <1>1, <1>2, <2>1 DEF Entered
<1>4. TypeOK'
  <2>1. frames' \in Seq(Frame) /\ Len(frames') = Len(frames) - 1
    BY <1>1, ClosedOne
  <2>2. Len(frames') <= MaxOpen
    BY <1>1, <2>1, Sizes DEF TypeOK
  <2>3. frames' \in Seq([dir : Objects, left : SUBSET Objects])
    BY <2>1 DEF Frame
  <2>4. cwd' \in {0} \cup tree'.searchable
    BY <1>3 DEF Entered
  <2> QED
    BY <1>1, <2>2, <2>3, <2>4 DEF TypeOK
<1>5. TreeOK' /\ Shape' /\ OnceEach'
  BY <1>1 DEF Inv, TreeOK, Shape, OnceEach
<1> QED
  BY <1>3, <1>4, <1>5 DEF Inv, WayBack

LEMMA DopathReturnInv ==
  ASSUME Inv, dopath_return
  PROVE  Inv'
<1>1. /\ walk = "dopath" /\ pc' = "done" /\ stack = <<>> /\ TypeOK
      /\ UNCHANGED <<tree, walk, arg, stack, frames, cwd, ret, nreg, ndir>>
  BY DEF dopath_return, Inv, Shape
<1>2. TypeOK'
  BY <1>1, SameTree DEF TypeOK
<1>3. Shape' /\ OnceEach'
  BY <1>1 DEF Shape, OnceEach
<1> QED
  BY <1>1, <1>2, <1>3, SameTree DEF Inv

-----------------------------------------------------------------------------
LEMMA NextInv == Inv /\ [Next]_vars => Inv'
<1> SUFFICES ASSUME Inv, [Next]_vars PROVE Inv'
  OBVIOUS
<1>1. CASE myftw_n
  BY <1>1, InitStackInv, PopInv, CloseInv, EndInv, ProcEntryInv DEF myftw_n
<1>2. CASE Start
  <2>1. <<>> \in Seq(Frame) /\ Len(<<>>) = 0 /\ 0 <= MaxOpen
    BY Sizes
  <2>2. stack = <<>>
    BY <1>2 DEF Start, Inv, Shape
  <2> QED
    BY <1>2, <2>1, <2>2, EnterInv DEF Start
<1>3. ASSUME NEW n \in Objects, Entry(n) PROVE Inv'
  <2>1. /\ walk = "dopath" /\ pc' = "loop" /\ frames # <<>> /\ stack = <<>>
        /\ UNCHANGED <<tree, walk, arg, stack>>
        /\ Enter(tree.name[n], Read(n))
    BY <1>3 DEF Entry, Inv, Shape
  <2>2. Read(n) \in Seq(Frame) /\ Len(Read(n)) = Len(frames) /\ Len(frames) <= MaxOpen
    BY <2>1, ReadOne DEF Inv, TypeOK
  <2> QED
    BY <2>1, <2>2, EnterInv
<1>4. CASE Leave \/ dopath_return
  BY <1>4, LeaveInv, DopathReturnInv
<1>5. CASE NoMemory
  BY <1>5, EndInv
<1>6. CASE UNCHANGED vars
  <2>1. UNCHANGED <<tree, walk, arg, pc, stack, frames, cwd, ret, nreg, ndir>>
    BY <1>6 DEF vars
  <2>2. TypeOK'
    BY <2>1, SameTree DEF Inv, TypeOK
  <2>3. Shape'
    BY <2>1 DEF Inv, Shape
  <2>4. OnceEach'
    BY <2>1 DEF Inv, OnceEach, Visited, OnStack, Top
  <2> QED
    BY <2>1, <2>2, <2>3, <2>4, SameTree DEF Inv
<1> QED
  BY <1>1, <1>2, <1>3, <1>4, <1>5, <1>6 DEF Next, dopath

(* The inductive invariant, for any tree.                                  *)
THEOREM Invariance == Spec => []Inv
BY InitInv, NextInv, PTL DEF Spec

(* myftw_n has one directory open at most and none twice on its stack;     *)
(* dopath's working directory is one it could enter.                       *)
THEOREM TypeCorrect == Spec => []TypeOK
<1>1. Inv => TypeOK
  BY DEF Inv
<1> QED
  BY <1>1, Invariance, PTL

=============================================================================
