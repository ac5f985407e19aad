-------------------------------- MODULE DirWalk --------------------------------
(***************************************************************************)
(* os_02/lab_dir_of_catalog: two programs that count what is below a       *)
(* directory.  lab_own/main.c (myftw_n) keeps full paths on a stack of its *)
(* own; temp/main.c (dopath) calls itself and moves its working directory. *)
(*                                                                         *)
(* External: the tree, which does not change; readdir() gives entries in   *)
(* any order; opendir() needs that the directory is readable, lstat() and  *)
(* chdir() that the way there is searchable; a process has MaxOpen         *)
(* directories open at most.  A file stands for every kind of object but   *)
(* directories, and nreg for their six counters.                           *)
(***************************************************************************)
EXTENDS Integers, Sequences, FiniteSets

CONSTANTS Size,     \* objects in the tree; 1 is the start, 0 the directory it is in
          Names,
          MaxOpen

ASSUME TreeAssumption == Size \in Nat \ {0} /\ MaxOpen \in Nat \ {0}

Objects == 1..Size
garbage == 0        \* on the stack: whatever malloc() left there

VARIABLES tree,     \* parent, name, and the dirs; those that can be read, searched
          walk,     \* the program
          arg,      \* its argument
          pc,
          stack,    \* myftw_n: the directories to be visited
          frames,   \* directories open, the innermost last, with the entries left
          cwd, ret,
          nreg, ndir

vars == <<tree, walk, arg, pc, stack, frames, cwd, ret, nreg, ndir>>

(* A parent is a directory and comes before its children, whose names      *)
(* differ.                                                                 *)
Parents == {p \in [Objects -> 0..(Size - 1)] :
               \A n \in Objects : p[n] < n /\ (n = 1 <=> p[n] = 0)}

Init == /\ \E p \in Parents, name \in [Objects -> Names] :
              /\ \A n, m \in Objects : p[n] = p[m] /\ name[n] = name[m] => n = m
              /\ \E dirs \in {D \in SUBSET Objects : \A n \in Objects \ {1} : p[n] \in D} :
                    \E readable, searchable \in SUBSET dirs :
                       tree = [parent |-> p, name |-> name, dirs |-> dirs,
                               readable |-> readable, searchable |-> searchable]
        /\ walk \in {"myftw_n", "dopath"}
        /\ arg \in Names
        /\ pc = "start"
        /\ stack = <<>> /\ frames = <<>>
        /\ cwd = 0 /\ ret = 0
        /\ nreg = 0 /\ ndir = 0

Children(d) == {n \in Objects : tree.parent[n] = d}
Named(d, name) == {n \in Children(d) : tree.name[n] = name}
Counted(n) == IF n \in tree.dirs THEN ndir' = ndir + 1 /\ UNCHANGED nreg
                                 ELSE nreg' = nreg + 1 /\ UNCHANGED ndir
Open(d) == Append(frames, [dir |-> d, left |-> Children(d)])
Top == frames[Len(frames)]
Closed == SubSeq(frames, 1, Len(frames) - 1)
Read(n) == [frames EXCEPT ![Len(frames)].left = @ \ {n}]

-----------------------------------------------------------------------------
(* myftw_n: the start is pushed unseen, onto a top that nobody has set.    *)
init_stack == /\ walk = "myftw_n" /\ pc = "start"
              /\ IF arg = tree.name[1]
                 THEN /\ stack' \in {<<1>>, <<1, garbage>>}
                      /\ pc' = "loop" /\ UNCHANGED ret
                 ELSE pc' = "done" /\ ret' = 1 /\ UNCHANGED stack
              /\ UNCHANGED <<tree, walk, arg, frames, cwd, nreg, ndir>>

(* pop(), opendir(): what cannot be opened is passed over without a word.  *)
Pop == /\ walk = "myftw_n" /\ pc = "loop" /\ stack # <<>>
       /\ IF Head(stack) = garbage
          THEN pc' = "died" /\ UNCHANGED <<stack, frames>>
          ELSE /\ stack' = Tail(stack)
               /\ IF Head(stack) \in tree.readable
                  THEN pc' = "dir" /\ frames' = Open(Head(stack))
                  ELSE UNCHANGED <<pc, frames>>
       /\ UNCHANGED <<tree, walk, arg, cwd, ret, nreg, ndir>>

push(n) == stack' = IF n \in tree.dirs THEN <<n>> \o stack ELSE stack

(* lstat() of a path through a directory that cannot be searched fails,    *)
(* and the entry is passed over.                                           *)
proc_entry(n) == /\ walk = "myftw_n" /\ pc = "dir" /\ n \in Top.left
                 /\ frames' = Read(n)
                 /\ IF Top.dir \in tree.searchable
                    THEN Counted(n) /\ push(n)
                    ELSE UNCHANGED <<nreg, ndir, stack>>
                 /\ UNCHANGED <<tree, walk, arg, pc, cwd, ret>>

(* mutant: closedir() is left out.                                         *)
closedir_skipped == /\ walk = "myftw_n" /\ pc = "dir" /\ Top.left = {}
                    /\ pc' = "loop"
                    /\ UNCHANGED <<tree, walk, arg, stack, frames, cwd, ret, nreg, ndir>>

closedir == /\ walk = "myftw_n" /\ pc = "dir" /\ Top.left = {}
            /\ pc' = "loop" /\ frames' = Closed
            /\ UNCHANGED <<tree, walk, arg, stack, cwd, ret, nreg, ndir>>

(* true is 1, which main() gives to exit(), as after a failure.            *)
myftw_n_return == /\ walk = "myftw_n" /\ pc = "loop" /\ stack = <<>>
                  /\ pc' = "done" /\ ret' = 1
                  /\ UNCHANGED <<tree, walk, arg, stack, frames, cwd, nreg, ndir>>

(* malloc() fails, in join_path(), init_node() or init_stack().            *)
NoMemory == /\ walk = "myftw_n" /\ pc \in {"start", "dir"}
            /\ pc' = "died"
            /\ UNCHANGED <<tree, walk, arg, stack, frames, cwd, ret, nreg, ndir>>

myftw_n == \/ init_stack \/ Pop \/ closedir \/ myftw_n_return
           \/ \E n \in Objects : proc_entry(n)

-----------------------------------------------------------------------------
(* dopath() up to its loop: name is looked up in the working directory,    *)
(* wherever that is; chdir() may fail and is not asked.                    *)
Enter(name, fs) ==
  LET found == Named(cwd, name)
  IN \/ /\ found = {}                                        \* FTW_NS
        /\ ret' = -1 /\ frames' = fs
        /\ UNCHANGED <<cwd, nreg, ndir>>
     \/ \E n \in found :
          /\ Counted(n)
          /\ \/ /\ n \notin tree.dirs                         \* FTW_F
                /\ frames' = fs /\ UNCHANGED <<cwd, ret>>
             \/ /\ n \in tree.dirs                            \* FTW_D, FTW_DNR
                /\ n \notin tree.readable \/ Len(fs) = MaxOpen
                /\ ret' = -1 /\ frames' = fs /\ UNCHANGED cwd
             \/ /\ n \in tree.readable /\ Len(fs) < MaxOpen
                /\ frames' = Append(fs, [dir |-> n, left |-> Children(n)])
                /\ cwd' = IF n \in tree.searchable THEN n ELSE cwd
                /\ UNCHANGED ret

Start == /\ walk = "dopath" /\ pc = "start" /\ pc' = "loop"
         /\ Enter(arg, <<>>)
         /\ UNCHANGED <<tree, walk, arg, stack>>

Entry(n) == /\ walk = "dopath" /\ pc = "loop" /\ frames # <<>>
            /\ ret = 0 /\ n \in Top.left
            /\ Enter(tree.name[n], Read(n))
            /\ UNCHANGED <<tree, walk, arg, pc, stack>>

(* mutant: the way up is left out.                                         *)
Up_skipped == cwd

(* chdir(".."); the parent of "/" is itself.                               *)
Up == IF cwd = 0 THEN 0 ELSE tree.parent[cwd]

Leave == /\ walk = "dopath" /\ pc = "loop" /\ frames # <<>>
         /\ Top.left = {} \/ ret # 0
         /\ frames' = Closed /\ cwd' = Up
         /\ UNCHANGED <<tree, walk, arg, pc, stack, ret, nreg, ndir>>

dopath_return == /\ walk = "dopath" /\ pc = "loop" /\ frames = <<>>
                 /\ pc' = "done"
                 /\ UNCHANGED <<tree, walk, arg, stack, frames, cwd, ret, nreg, ndir>>

dopath == Start \/ Leave \/ dopath_return \/ \E n \in Objects : Entry(n)

Next == myftw_n \/ dopath \/ NoMemory

Spec == Init /\ [][Next]_vars
FairSpec == Spec /\ WF_vars(myftw_n \/ dopath)

-----------------------------------------------------------------------------
(* Besides the types: myftw_n has one directory open at most and none      *)
(* twice before it; dopath's working directory is one it could enter.      *)
TypeOK == /\ tree.parent \in Parents /\ tree.name \in [Objects -> Names]
          /\ walk \in {"myftw_n", "dopath"} /\ arg \in Names
          /\ pc \in {"start", "loop", "dir", "done", "died"}
          /\ stack \in Seq(Objects \cup {garbage})
          /\ \A j, k \in DOMAIN stack : stack[j] = stack[k] => j = k
          /\ frames \in Seq([dir : Objects, left : SUBSET Objects])
          /\ Len(frames) <= (IF walk = "myftw_n" THEN 1 ELSE MaxOpen)
          /\ cwd \in {0} \cup tree.searchable
          /\ ret \in {-1, 0, 1}
          /\ nreg \in Nat /\ ndir \in Nat

(* The objects whose way from the start can be read and searched.          *)
Reached == LET way[n \in Objects] ==
                 IF n = 1 THEN arg = tree.name[1]
                 ELSE /\ tree.parent[n] \in tree.readable \cap tree.searchable
                      /\ way[tree.parent[n]]
           IN {n \in Objects : way[n]}

Exact(S) == nreg = Cardinality(S \ tree.dirs) /\ ndir = Cardinality(S \cap tree.dirs)

(* Every walk ends.  myftw_n has then counted each object it can reach     *)
(* once, but for the start itself, in whatever order entries came.  dopath,*)
(* if every directory can be searched, is back where it began, and has     *)
(* counted every object once or met one that it could not read.  Where one *)
(* cannot be searched it may look names up in the wrong directory, and     *)
(* even go round in a circle, but not for ever.                            *)
WalkEnds ==
  <>(/\ pc \in {"done", "died"}
     /\ pc = "done" /\ walk = "myftw_n" => Exact(Reached \ {1})
     /\ pc = "done" /\ walk = "dopath" /\ tree.dirs = tree.searchable =>
          /\ cwd = 0
          /\ ret = 0 <=> arg = tree.name[1] /\ tree.dirs = tree.readable
          /\ ret = 0 => Exact(Objects))
=============================================================================
