---------------------------- MODULE KernelModuleProofs ----------------------------
(***************************************************************************)
(* Proofs about the kernel modules.  FortunePot, for every size of the     *)
(* pot, every cookie and any number of callers: what races can do to the   *)
(* reading index is bounded by the reads in flight; without races, the     *)
(* NULs of the pot are where the cookies written end, and each index is    *)
(* one of these places; and the lifecycle says what exists while init and  *)
(* cleanup run.  BottomHalf, for every set of scan codes: what makes an    *)
(* unload quiet is the order of its calls, each of which shuts a way in    *)
(* before the next one waits for what came in through it.  The two share   *)
(* no variable.                                                            *)
(***************************************************************************)
EXTENDS FortunePot, BottomHalf, FiniteSetTheorems, SequenceTheorems, TLAPS

-----------------------------------------------------------------------------
(***************************************************************************)
(* FortunePot                                                              *)
(***************************************************************************)

Max == MAX_COOKIE_LEN
Longest == MAX_COOKIE_LEN + Prefix  \* of a line shown

Types ==
  /\ variant \in {"proc", "seq"}
  /\ module \in {"vmalloc", "dir", "file", "link", "reset", "in", "vfree",
                 "rm_link", "rm_file", "rm_dir", "out", "oops"}
  /\ entries \subseteq {"dir", "file", "link"}
  /\ pot \in {"none", "live", "freed"}
  /\ nul \subseteq Pot
  /\ Put \in 0..Max /\ Get \in Nat
  /\ call \in [Callers -> [op : {"none", "write", "read"}, len : Nat, at : Nat]]
  /\ raced \in BOOLEAN

(* A call in flight fits where it began.                                   *)
Fits(cl) == /\ cl.op = "none" => cl = Idle
            /\ cl.op = "read" => cl.len > 0 /\ cl.at + cl.len <= Longest
CallsFit == \A c \in Callers : Fits(call[c])

(* Each read that has ended since Get was last in the pot moved it by one  *)
(* line at most; the line of a read in flight is counted from where the    *)
(* read began.                                                             *)
Reads == {c \in Callers : call[c].op = "read"}
Ended == Cardinality(Callers) - Cardinality(Reads)
GetBound == \/ Get <= Ended * Longest
            \/ \E c \in Reads : Get <= call[c].at + Ended * Longest

(* What exists, by the next call of init or of cleanup.                    *)
Lifecycle ==
  module # "oops" =>
    /\ module \in {"vmalloc", "dir", "out"} => entries = {}
    /\ module \in {"vmalloc", "dir", "file", "rm_dir"} => "file" \notin entries
    /\ module \in {"vmalloc", "dir", "file", "link", "rm_file", "rm_dir"} => "link" \notin entries
    /\ module \in {"rm_link", "rm_file", "rm_dir", "out"} => pot # "live"
    /\ module = "vmalloc" => pot = "none" /\ Put = 0 /\ Get = 0
    /\ Busy => "file" \in entries

History == cookies \in Seq(1..Max) /\ turn \in 0..Len(cookies)

(* While no two calls have overlapped: each cookie written ends behind the *)
(* one before; up to the last of them, NULs are where they end and nowhere *)
(* else.                                                                   *)
Ordered == \A i, j \in 0..Len(cookies) : i < j => End(i) < End(j)
Terminated == /\ \A k \in 1..Len(cookies) : End(k) - 1 \in nul
              /\ \A n \in nul : n < Put => \E k \in 1..Len(cookies) : n = End(k) - 1

(* What a read in flight shows.                                            *)
Shows(cl) ==
  IF variant = "proc"
  THEN turn < Len(cookies) /\ cl.at = End(turn) /\ cl.at + cl.len = End(turn + 1)
  ELSE \E k \in 1..Len(cookies) :
          End(k - 1) <= cl.at /\ cl.at < End(k) /\ cl.at + cl.len = End(k) + Prefix

Whole ==
  ~raced =>
    /\ \A c, d \in Callers : call[c] # Idle /\ call[d] # Idle => c = d
    /\ Ordered /\ Terminated /\ Put = End(Len(cookies))
    /\ variant = "proc" => Get = End(turn)
    /\ \A c \in Callers : call[c].op = "write" =>
          call[c].at = Put /\ \A n \in nul : n < Put \/ Put + call[c].len <= n
    /\ \A c \in Callers : call[c].op = "read" => Shows(call[c])

Inv == Types /\ CallsFit /\ GetBound /\ Lifecycle /\ History /\ Whole

-----------------------------------------------------------------------------
LEMMA Sizes == /\ Max \in Nat /\ Max > 0 /\ Longest \in Nat /\ Max < Longest
               /\ Prefix \in Nat /\ Pot = 0..(Max - 1) /\ IsFiniteSet(Callers)
               /\ Lens \subseteq Nat
BY PotAssumption DEF Max, Longest, Pot, Lens

LEMMA Times ==
  /\ \A n \in Nat : n * Longest \in Nat /\ (n + 1) * Longest = n * Longest + Longest
  /\ \A m, n \in Nat : m <= n => m * Longest <= n * Longest
<1>1. \A n \in Nat : n * Longest \in Nat /\ (n + 1) * Longest = n * Longest + Longest
  BY Sizes
<1>2. ASSUME NEW m \in Nat, NEW n \in Nat, m <= n PROVE m * Longest <= n * Longest
  <2>1. PICK k \in Nat : n = m + k
    BY <1>2
  <2>2. n * Longest = m * Longest + k * Longest /\ k * Longest \in Nat /\ m * Longest \in Nat
    BY <2>1, Sizes
  <2> QED
    BY <2>2
<1> QED
  BY <1>1, <1>2

LEMMA ReadsCounted ==
  /\ IsFiniteSet(Reads) /\ Cardinality(Reads) \in Nat
  /\ Cardinality(Callers) \in Nat /\ Ended \in Nat /\ Ended <= Cardinality(Callers)
  /\ Reads # {} => Ended + 1 <= Cardinality(Callers)
<1>1. Reads \in SUBSET Callers
  BY DEF Reads
<1>2. /\ IsFiniteSet(Reads) /\ Cardinality(Reads) <= Cardinality(Callers)
      /\ Cardinality(Reads) \in Nat /\ Cardinality(Callers) \in Nat
  BY <1>1, Sizes, FS_Subset, FS_CardinalityType
<1>3. Reads # {} => Cardinality(Reads) # 0
  BY <1>2, FS_EmptySet
<1> QED
  BY <1>2, <1>3 DEF Ended

LEMMA ReadBegins ==
  ASSUME NEW c \in Callers, c \notin Reads, Reads' = Reads \cup {c}
  PROVE  Ended' = Ended - 1 /\ Ended' \in Nat
<1>1. Cardinality(Reads') = Cardinality(Reads) + 1 /\ IsFiniteSet(Reads')
  BY ReadsCounted, FS_AddElement
<1>2. Reads' \in SUBSET Callers
  BY DEF Reads
<1>3. Cardinality(Reads') <= Cardinality(Callers)
  BY <1>2, Sizes, FS_Subset
<1> QED
  BY <1>1, <1>3, ReadsCounted DEF Ended

LEMMA ReadEnds ==
  ASSUME NEW c \in Callers, c \in Reads, Reads' = Reads \ {c}
  PROVE  Ended' = Ended + 1
<1>1. Cardinality(Reads') = Cardinality(Reads) - 1
  BY ReadsCounted, FS_RemoveElement
<1> QED
  BY <1>1, ReadsCounted DEF Ended

(* A read ends and leaves Get where it is.                                 *)
LEMMA ReadEndsBound ==
  ASSUME Types, CallsFit, GetBound, Get' = Get, NEW c \in Callers,
         c \in Reads, Reads' = Reads \ {c}, \A d \in Reads' : call'[d] = call[d]
  PROVE  GetBound'
<1>1. Ended' = Ended + 1 /\ Ended \in Nat /\ Longest \in Nat
  BY ReadEnds, ReadsCounted, Sizes
<1>2. /\ Ended * Longest \in Nat /\ Ended' * Longest = Ended * Longest + Longest
      /\ Get \in Nat
  BY <1>1, Times DEF Types
<1>3. CASE Get <= Ended * Longest
  BY <1>1, <1>2, <1>3 DEF GetBound
<1>4. ASSUME NEW r \in Reads, Get <= call[r].at + Ended * Longest PROVE GetBound'
  <2>1. call[r].at \in Nat /\ call[r].at <= Longest
    BY <1>1 DEF Types, CallsFit, Fits, Reads
  <2> QED
    BY <1>1, <1>2, <1>4, <2>1 DEF GetBound
<1> QED
  BY <1>3, <1>4 DEF GetBound

(* The two indices under their roles.                                      *)
LEMMA Indices ==
  ASSUME Types, variant' = variant, NEW n, NEW m
  PROVE  /\ UNCHANGED <<cookie_index, next_fortune>> => Put' = Put /\ Get' = Get
         /\ Set(n, m) => Put' = n /\ Get' = m
BY DEF Put, Get, Set

(* Where the cookies end.                                                  *)
LEMMA EndsIn ==
  ASSUME History
  PROVE  /\ Len(cookies) \in Nat /\ End(0) = 0 /\ turn \in Nat
         /\ \A k \in 1..Len(cookies) : End(k) = cookies[k] /\ End(k) \in 1..Max
         /\ \A k \in 0..Len(cookies) : End(k) \in 0..Max
<1>1. cookies \in Seq(1..Max) /\ Len(cookies) \in Nat /\ turn \in Nat
  BY DEF History
<1>2. \A k \in 1..Len(cookies) : cookies[k] \in 1..Max
  BY <1>1, ElementOfSeq
<1> QED
  BY <1>1, <1>2, Sizes DEF End

LEMMA Remembered ==
  ASSUME NEW written, NEW next, Remember(written, next),
         ~raced' => written \in Seq(1..Max) /\ next \in 0..Len(written)
  PROVE  History' /\ (~raced' => cookies' = written /\ turn' = next)
<1>1. CASE raced'
  <2>1. cookies' = <<>> /\ turn' = 0
    BY <1>1 DEF Remember
  <2>2. <<>> \in Seq(1..Max) /\ Len(<<>>) = 0
    OBVIOUS
  <2> QED
    BY <1>1, <2>1, <2>2 DEF History
<1>2. CASE ~raced'
  BY <1>2 DEF Remember, History
<1> QED
  BY <1>1, <1>2

(* A write extends the cookies by one.                                     *)
LEMMA EndsAppended ==
  ASSUME History, NEW e \in 1..Max, cookies' = Append(cookies, e)
  PROVE  /\ cookies' \in Seq(1..Max) /\ Len(cookies') = Len(cookies) + 1
         /\ \A k \in 0..(Len(cookies) + 1) :
               End(k)' = IF k = Len(cookies) + 1 THEN e ELSE End(k)
<1>1. cookies \in Seq(1..Max) /\ Len(cookies) \in Nat
  BY DEF History
<1>2. /\ cookies' \in Seq(1..Max) /\ Len(cookies') = Len(cookies) + 1
      /\ \A k \in 1..Len(cookies) : cookies'[k] = cookies[k]
      /\ cookies'[Len(cookies) + 1] = e
  BY <1>1, AppendProperties
<1>3. ASSUME NEW k \in 0..(Len(cookies) + 1)
      PROVE  End(k)' = IF k = Len(cookies) + 1 THEN e ELSE End(k)
  <2>1. CASE k = 0
    BY <1>1, <2>1 DEF End
  <2>2. CASE k # 0
    BY <1>1, <1>2, <2>2 DEF End
  <2> QED
    BY <2>1, <2>2
<1> QED
  BY <1>2, <1>3

(* What happens behind the last cookie changes none.                       *)
LEMMA SameCookies ==
  ASSUME Types, History, Ordered, Terminated, Put = End(Len(cookies)),
         UNCHANGED <<cookies, turn>>, Put' = Put, nul' \subseteq Pot,
         \A n \in Pot : n < Put => (n \in nul' <=> n \in nul)
  PROVE  Ordered' /\ Terminated' /\ Put' = End(Len(cookies))' /\ \A k \in Nat : End(k)' = End(k)
<1>1. \A k \in Nat : End(k)' = End(k)
  BY DEF End
<1>2. /\ Len(cookies) \in Nat /\ Put \in Nat
      /\ \A k \in 0..Len(cookies) : End(k) \in Nat
  BY EndsIn
<1>3. Ordered' /\ Put' = End(Len(cookies))'
  BY <1>1, <1>2 DEF Ordered
<1>4. \A k \in 1..Len(cookies) : End(k)' - 1 \in nul'
  <2> TAKE k \in 1..Len(cookies)
  <2>1. End(k) <= Put
    BY <1>2 DEF Ordered
  <2>2. End(k) - 1 \in nul /\ End(k) - 1 \in Pot
    BY DEF Terminated, Types
  <2>3. End(k) \in Nat /\ End(k) - 1 < Put
    BY <1>2, <2>1
  <2> QED
    BY <1>1, <1>2, <2>2, <2>3
<1>5. \A n \in nul' : n < Put' => \E k \in 1..Len(cookies) : n = End(k)' - 1
  BY <1>1, <1>2 DEF Terminated
<1> QED
  BY <1>1, <1>3, <1>4, <1>5 DEF Terminated

(* The text from anywhere before the last cookie's end runs to the end of  *)
(* the cookie it is in.                                                    *)
LEMMA ReadsOne ==
  ASSUME Types, History, Ordered, Terminated, Put = End(Len(cookies)),
         NEW from \in Nat, from < Put, NEW end \in Ends(from)
  PROVE  \E k \in 1..Len(cookies) : end = End(k) - 1 /\ End(k - 1) <= from /\ from < End(k)
<1>1. /\ Len(cookies) \in Nat /\ End(0) = 0
      /\ \A k \in 0..Len(cookies) : End(k) \in Nat
  BY EndsIn
<1>2. end \in nul /\ end \in Int /\ end >= from /\ \A m \in nul : m >= from => end <= m
  BY Sizes DEF Types, Ends
<1>3. end < Put
  <2>1. Len(cookies) \in 1..Len(cookies)
    BY <1>1
  <2>2. Put - 1 \in nul /\ Put \in Nat
    BY <1>1, <2>1 DEF Terminated
  <2> QED
    BY <1>2, <2>2
<1>4. PICK k \in 1..Len(cookies) : end = End(k) - 1
  BY <1>2, <1>3 DEF Terminated
<1>5. End(k) \in Nat /\ from < End(k)
  BY <1>1, <1>2, <1>4
<1>6. End(k - 1) <= from
  <2>1. CASE k = 1
    BY <1>1, <2>1
  <2>2. CASE k # 1
    <3>1. k - 1 \in 1..Len(cookies) /\ k - 1 \in 0..Len(cookies) /\ k \in 0..Len(cookies)
          /\ k - 1 < k
      BY <1>1, <2>2
    <3>2. End(k - 1) < End(k) /\ End(k - 1) - 1 \in nul /\ End(k - 1) \in Nat
      BY <1>1, <3>1 DEF Ordered, Terminated
    <3> QED
      BY <1>2, <1>4, <1>5, <3>2
  <2> QED
    BY <2>1, <2>2
<1> QED
  BY <1>4, <1>5, <1>6

-----------------------------------------------------------------------------
LEMMA InitInv == Init => Inv
<1> SUFFICES ASSUME Init PROVE Inv
  OBVIOUS
<1> USE DEF Init
<1>1. Put = 0 /\ Get = 0
  BY DEF Put, Get
<1>2. Types
  <2>1. call \in [Callers -> [op : {"none", "write", "read"}, len : Nat, at : Nat]]
    BY DEF Idle
  <2> QED
    <3>1. raced \in BOOLEAN
      BY Zenon
    <3> QED
      BY <1>1, <2>1, <3>1, Sizes DEF Types
<1>3. CallsFit /\ Lifecycle
  BY <1>1, Sizes DEF CallsFit, Fits, Lifecycle, Busy, Idle
<1>4. GetBound
  BY <1>1, ReadsCounted, Times DEF GetBound
<1>5. History /\ Len(cookies) = 0 /\ turn = 0
  BY DEF History
<1>6. Whole
  <2>1. Ordered /\ Terminated
    BY <1>1, <1>5 DEF Ordered, Terminated
  <2> QED
    BY <1>1, <1>5, <2>1 DEF Whole, End, Idle
<1> QED
  BY <1>2, <1>3, <1>4, <1>5, <1>6 DEF Inv

(* Steps of init and of cleanup that move no index.                        *)
LEMMA LoadInv ==
  ASSUME Inv, Vmalloc \/ Unload \/ Vfree
              \/ Create("dir", "file") \/ Create("file", "link") \/ Create("link", "reset")
              \/ Remove("rm_link", "link", "rm_file") \/ Remove("rm_file", "file", "rm_dir")
              \/ Remove("rm_dir", "dir", "out")
  PROVE  Inv'
<1>1. Types /\ CallsFit /\ GetBound /\ Lifecycle /\ History /\ Whole
  BY DEF Inv
<1>2. /\ UNCHANGED <<variant, call, cookie_index, next_fortune, cookies, turn>>
      /\ module # "vmalloc" => nul' = nul
      /\ nul' \subseteq Pot
      /\ raced => raced'
      /\ raced' \in BOOLEAN
  BY <1>1 DEF Vmalloc, Unload, Vfree, Create, Remove, state, Types
<1>3. Put' = Put /\ Get' = Get /\ Busy' = Busy /\ Reads' = Reads /\ Ended' = Ended
  BY <1>1, <1>2, Indices DEF Busy, Reads, Ended
<1>4. Types'
  BY <1>1, <1>2, <1>3, Sizes DEF Types, Vmalloc, Unload, Vfree, Create, Remove
<1>5. CallsFit' /\ GetBound'
  BY <1>1, <1>2, <1>3 DEF CallsFit, GetBound
<1>6. Lifecycle'
  <2>1. CASE Vmalloc \/ Unload \/ Vfree
    BY <1>1, <1>3, <2>1 DEF Lifecycle, Vmalloc, Unload, Vfree
  <2>2. CASE Create("dir", "file")
    BY <1>1, <1>3, <2>2 DEF Lifecycle, Create
  <2>3. CASE Create("file", "link") \/ Create("link", "reset")
    BY <1>1, <1>3, <2>3 DEF Lifecycle, Create
  <2>4. CASE Remove("rm_link", "link", "rm_file")
    BY <1>1, <1>3, <2>4 DEF Lifecycle, Remove
  <2>5. CASE Remove("rm_file", "file", "rm_dir")
    BY <1>1, <1>3, <2>5 DEF Lifecycle, Remove
  <2>6. CASE Remove("rm_dir", "dir", "out")
    <3>1. module = "rm_dir" /\ module' = "out" /\ entries' = {} /\ pot' = pot
      BY <1>1, <2>6 DEF Lifecycle, Remove, Types
    <3> QED
      BY <1>1, <1>3, <3>1 DEF Lifecycle
  <2> QED
    BY <2>1, <2>2, <2>3, <2>4, <2>5, <2>6
<1>7. History'
  BY <1>1, <1>2 DEF History
<1>8. Whole'
  <2> SUFFICES ASSUME ~raced' PROVE Whole'
    BY DEF Whole
  <2>1. ~raced /\ Ordered /\ Terminated /\ Put = End(Len(cookies))
    BY <1>1, <1>2 DEF Whole
  <2>2. Ordered'
    BY <1>2, <2>1 DEF Ordered, End
  <2>3. CASE module = "vmalloc"
    <3>1. Put = 0 /\ \A c \in Callers : call[c] = Idle
      BY <1>1, <2>3 DEF Lifecycle, Busy
    <3>2. Len(cookies) = 0
      <4>1. Len(cookies) \in Nat /\ End(0) = 0 /\ End(Len(cookies)) = 0
        BY <1>1, <2>1, <3>1, EndsIn
      <4>2. 0 \in 0..Len(cookies) /\ Len(cookies) \in 0..Len(cookies)
        BY <4>1
      <4>3. ~(0 < Len(cookies))
        BY <2>1, <4>1, <4>2 DEF Ordered
      <4> QED
        BY <4>1, <4>3
    <3>3. Terminated'
      BY <1>2, <1>3, <1>4, <3>1, <3>2, Sizes DEF Terminated, Types
    <3> QED
      BY <1>1, <1>2, <1>3, <2>1, <2>2, <3>1, <3>3 DEF Whole, End, Idle
  <2>4. CASE module # "vmalloc"
    <3>1. UNCHANGED <<nul, variant, call, cookies, turn>> /\ Terminated'
      BY <1>2, <1>3, <2>1, <2>4 DEF Terminated, End
    <3> QED
      BY <1>1, <1>3, <2>1, <2>2, <3>1 DEF Whole, Shows, End
  <2> QED
    BY <2>3, <2>4
<1> QED
  BY <1>4, <1>5, <1>6, <1>7, <1>8 DEF Inv

(* A file that was there already: what a call in flight did is forgotten,  *)
(* and the call itself has raced with the load.                            *)
LEMMA ResetInv ==
  ASSUME Inv, Reset
  PROVE  Inv'
<1> USE DEF Reset
<1>1. Types /\ CallsFit /\ GetBound /\ Lifecycle /\ History /\ Whole
  BY DEF Inv
<1>2. Put' = 0 /\ Get' = 0 /\ Busy' = Busy /\ Reads' = Reads /\ Ended' = Ended
  BY <1>1 DEF Put, Get, Types, Busy, Reads, Ended
<1>3. raced' \in BOOLEAN
  BY <1>1, Zenon DEF Types, Busy
<1>4. Types'
  BY <1>1, <1>2, <1>3, Sizes DEF Types
<1>5. CallsFit' /\ GetBound'
  BY <1>1, <1>2, ReadsCounted, Times DEF CallsFit, GetBound
<1>6. Lifecycle'
  BY <1>1, <1>2 DEF Lifecycle
<1>7. History' /\ Len(cookies') = 0 /\ turn' = 0
  BY DEF History
<1>8. Whole'
  <2>1. ~raced' => \A c \in Callers : call'[c] = Idle
    BY DEF Busy
  <2>2. Ordered' /\ Terminated'
    BY <1>2, <1>4, <1>7, Sizes DEF Ordered, Terminated, Types
  <2> QED
    BY <1>2, <1>7, <2>1, <2>2 DEF Whole, End, Idle
<1> QED
  BY <1>4, <1>5, <1>6, <1>7, <1>8 DEF Inv

LEMMA OopsInv ==
  ASSUME Inv, Oops, UNCHANGED <<variant, entries, pot>>
  PROVE  Inv'
<1>1. Types /\ CallsFit /\ GetBound /\ Lifecycle /\ History /\ Whole
  BY DEF Inv
<1>2. /\ UNCHANGED <<variant, entries, pot, nul, cookie_index, next_fortune, call, raced,
                      cookies, turn>>
      /\ module' = "oops"
  BY DEF Oops, state
<1>3. Put' = Put /\ Get' = Get /\ Reads' = Reads /\ Ended' = Ended
  BY <1>1, <1>2, Indices DEF Reads, Ended
<1>4. Types'
  BY <1>1, <1>2, <1>3 DEF Types
<1>5. CallsFit' /\ GetBound' /\ Lifecycle' /\ History'
  BY <1>1, <1>2, <1>3 DEF CallsFit, GetBound, Lifecycle, History
<1>6. Whole'
  BY <1>1, <1>2, <1>3 DEF Whole, Ordered, Terminated, Shows, End
<1> QED
  BY <1>4, <1>5, <1>6 DEF Inv

-----------------------------------------------------------------------------
(* What Begin() says of races: a call that begins while another is in      *)
(* flight, or before or after the module is in, has raced.                 *)
LEMMA BeginFacts ==
  ASSUME Inv, NEW c \in Callers, NEW cl, Begin(c, cl)
  PROVE  /\ "file" \in entries /\ call[c] = Idle /\ call' = [call EXCEPT ![c] = cl]
         /\ raced' \in BOOLEAN
         /\ ~raced' => ~raced /\ module = "in" /\ \A d \in Callers : call[d] = Idle
<1>1. raced' \in BOOLEAN
  BY Zenon DEF Begin, Inv, Types, Busy
<1> QED
  BY <1>1 DEF Begin, Callable, Busy

LEMMA WriteCopiesInv ==
  ASSUME Inv, NEW c \in Callers, NEW len \in Lens, WriteCopies(c, len)
  PROVE  Inv'
<1>1. Types /\ CallsFit /\ GetBound /\ Lifecycle /\ History /\ Whole
  BY DEF Inv
<1>2. CASE (pot = "freed" /\ len > 0) \/ Put + len > MAX_COOKIE_LEN
  BY <1>2, OopsInv DEF WriteCopies
<1>3. CASE ~((pot = "freed" /\ len > 0) \/ Put + len > MAX_COOKIE_LEN)
  <2> DEFINE cl == [op |-> "write", len |-> len, at |-> Put]
  <2>1. /\ Begin(c, cl) /\ nul' = nul \ (Put..(Put + len - 1))
        /\ UNCHANGED <<variant, module, entries, pot, cookie_index, next_fortune>>
        /\ module # "oops" /\ Remember(cookies, turn)
    BY <1>3 DEF WriteCopies, Callable
  <2>2. /\ "file" \in entries /\ call[c] = Idle /\ call' = [call EXCEPT ![c] = cl]
        /\ raced' \in BOOLEAN
        /\ ~raced' => ~raced /\ module = "in" /\ \A d \in Callers : call[d] = Idle
    BY <2>1, BeginFacts
  <2>3. /\ Put' = Put /\ Get' = Get /\ Put \in Nat /\ len \in Nat /\ Get \in Nat
        /\ \A d \in Callers : call'[d] = IF d = c THEN cl ELSE call[d]
        /\ cl \in [op : {"none", "write", "read"}, len : Nat, at : Nat]
    <3>1. Put' = Put /\ Get' = Get
      BY <1>1, <2>1, Indices
    <3>2. Put \in Nat /\ len \in Nat /\ Get \in Nat
      BY <1>1, Sizes DEF Types
    <3> QED
      BY <1>1, <2>2, <3>1, <3>2 DEF Types
  <2>4. Types'
    BY <1>1, <2>1, <2>2, <2>3 DEF Types
  <2>5. CallsFit'
    BY <1>1, <2>3 DEF CallsFit, Fits
  <2>6. Reads' = Reads /\ Ended' = Ended /\ \A d \in Reads : call'[d] = call[d]
    <3>1. call[c].op # "read" /\ call'[c].op # "read"
      BY <2>2, <2>3 DEF Idle
    <3>2. Reads' = Reads
      BY <2>3, <3>1 DEF Reads
    <3> QED
      BY <2>3, <3>1, <3>2 DEF Reads, Ended
  <2>7. GetBound'
    BY <1>1, <2>3, <2>6 DEF GetBound
  <2>8. Lifecycle'
    BY <1>1, <2>1, <2>2, <2>3 DEF Lifecycle
  <2>9. History' /\ (~raced' => cookies' = cookies /\ turn' = turn)
    BY <1>1, <2>1, Remembered DEF History
  <2>10. Whole'
    <3> SUFFICES ASSUME ~raced' PROVE Whole'
      BY DEF Whole
    <3>1. /\ ~raced /\ \A d \in Callers : d # c => call'[d] = Idle
          /\ call'[c] = cl
      BY <2>2, <2>3
    <3>2. Ordered /\ Terminated /\ Put = End(Len(cookies)) /\ UNCHANGED <<cookies, turn>>
      BY <1>1, <2>9, <3>1 DEF Whole
    <3>3. nul' \subseteq Pot /\ \A n \in Pot : n < Put => (n \in nul' <=> n \in nul)
      BY <2>1, <2>3, <2>4, Sizes DEF Types
    <3>4. /\ Ordered' /\ Terminated' /\ Put' = End(Len(cookies))'
          /\ \A k \in Nat : End(k)' = End(k)
      BY <1>1, <2>3, <3>2, <3>3, SameCookies
    <3>5. variant' = "proc" => Get' = End(turn)'
      BY <1>1, <2>1, <2>3, <3>1, <3>2, <3>4, EndsIn DEF Whole
    <3>6. \A n \in nul' : n < Put' \/ Put' + len <= n
      BY <2>1, <2>3, <3>3, Sizes
    <3> QED
      BY <2>3, <3>1, <3>4, <3>5, <3>6 DEF Whole, Idle
  <2> QED
    BY <2>4, <2>5, <2>7, <2>8, <2>9, <2>10 DEF Inv
<1> QED
  BY <1>2, <1>3

LEMMA WriteFaultsInv ==
  ASSUME Inv, NEW c \in Callers, NEW len \in Lens, WriteFaults(c, len)
  PROVE  Inv'
<1>1. Types /\ CallsFit /\ GetBound /\ Lifecycle /\ History /\ Whole
  BY DEF Inv
<1>2. PICK copied \in 0..(len - 1) :
         nul' = (nul \ (Put..(Put + copied - 1))) \cup ((Put + copied)..(Put + len - 1))
  BY DEF WriteFaults
<1>3. /\ UNCHANGED <<variant, module, entries, pot, cookie_index, next_fortune, call>>
      /\ Put + len <= Max /\ "file" \in entries /\ Remember(cookies, turn)
      /\ raced' = (raced \/ Busy \/ module # "in")
  BY DEF WriteFaults, Callable, Max
<1>4. Put' = Put /\ Get' = Get /\ Busy' = Busy /\ Reads' = Reads /\ Ended' = Ended
  BY <1>1, <1>3, Indices DEF Busy, Reads, Ended
<1>5. Put \in Nat /\ len \in Nat /\ copied \in Nat /\ copied < len
  BY <1>1, Sizes DEF Types
<1>6. nul' \subseteq Pot /\ \A n \in Pot : n < Put => (n \in nul' <=> n \in nul)
  BY <1>1, <1>2, <1>3, <1>5, Sizes DEF Types
<1>7. raced' \in BOOLEAN
  BY <1>1, <1>3, Zenon DEF Types, Busy
<1>8. Types'
  BY <1>1, <1>3, <1>4, <1>6, <1>7 DEF Types
<1>9. CallsFit' /\ GetBound' /\ Lifecycle'
  BY <1>1, <1>3, <1>4 DEF CallsFit, GetBound, Lifecycle
<1>10. History' /\ (~raced' => cookies' = cookies /\ turn' = turn)
  BY <1>1, <1>3, Remembered DEF History
<1>11. Whole'
  <2> SUFFICES ASSUME ~raced' PROVE Whole'
    BY DEF Whole
  <2>1. ~raced /\ \A d \in Callers : call[d] = Idle
    BY <1>3 DEF Busy
  <2>2. Ordered /\ Terminated /\ Put = End(Len(cookies)) /\ UNCHANGED <<cookies, turn>>
    BY <1>1, <1>10, <2>1 DEF Whole
  <2>3. /\ Ordered' /\ Terminated' /\ Put' = End(Len(cookies))'
        /\ \A k \in Nat : End(k)' = End(k)
    BY <1>1, <1>4, <1>6, <2>2, SameCookies
  <2>4. variant' = "proc" => Get' = End(turn)'
    BY <1>1, <1>3, <1>4, <2>1, <2>2, <2>3, EndsIn DEF Whole
  <2> QED
    BY <1>3, <2>1, <2>3, <2>4 DEF Whole, Idle
<1> QED
  BY <1>8, <1>9, <1>10, <1>11 DEF Inv

LEMMA WriteAdvancesInv ==
  ASSUME Inv, NEW c \in Callers, WriteAdvances(c)
  PROVE  Inv'
<1>1. Types /\ CallsFit /\ GetBound /\ Lifecycle /\ History /\ Whole
  BY DEF Inv
<1>2. PICK from \in {Put, call[c].at} :
         LET end == from + call[c].len
         IN IF pot = "freed" \/ end = 0 \/ end > MAX_COOKIE_LEN
            THEN Oops
            ELSE /\ Set(end, Get)
                 /\ nul' = nul \cup {end - 1}
                 /\ call' = [call EXCEPT ![c] = Idle]
                 /\ UNCHANGED <<module, raced>>
                 /\ Remember(IF call[c].len = 0 THEN cookies ELSE Append(cookies, end), turn)
  BY Zenon DEF WriteAdvances
<1>3. /\ UNCHANGED <<variant, entries, pot>> /\ call[c].op = "write" /\ module # "oops"
  BY DEF WriteAdvances
<1>4. CASE pot = "freed" \/ from + call[c].len = 0 \/ from + call[c].len > MAX_COOKIE_LEN
  BY <1>2, <1>3, <1>4, OopsInv
<1>5. CASE ~(pot = "freed" \/ from + call[c].len = 0 \/ from + call[c].len > MAX_COOKIE_LEN)
  <2> DEFINE end == from + call[c].len
             written == IF call[c].len = 0 THEN cookies ELSE Append(cookies, end)
  <2>1. /\ Put' = end /\ Get' = Get /\ nul' = nul \cup {end - 1}
        /\ UNCHANGED <<module, raced>> /\ call' = [call EXCEPT ![c] = Idle]
        /\ Remember(written, turn)
    <3>1. /\ Set(end, Get) /\ nul' = nul \cup {end - 1}
          /\ UNCHANGED <<module, raced>> /\ call' = [call EXCEPT ![c] = Idle]
          /\ Remember(written, turn)
      BY <1>2, <1>5
    <3> HIDE DEF end, written
    <3> QED
      BY <1>1, <1>3, <3>1, Indices
  <2>2. from \in Nat /\ call[c].len \in Nat /\ end \in 1..Max
    <3>1. from \in Nat /\ call[c].len \in Nat
      BY <1>1, Sizes DEF Types
    <3> QED
      BY <1>5, <3>1, Sizes DEF Max
  <2>3. \A d \in Callers : call'[d] = IF d = c THEN Idle ELSE call[d]
    BY <1>1, <2>1 DEF Types
  <2>10. History' /\ (~raced' => cookies' = written /\ turn' = turn)
    <3>1. written \in Seq(1..Max) /\ Len(cookies) \in Nat /\ Len(written) >= Len(cookies)
      <4>1. cookies \in Seq(1..Max) /\ Len(cookies) \in Nat
        BY <1>1 DEF History
      <4> HIDE DEF end
      <4>2. Append(cookies, end) \in Seq(1..Max) /\ Len(Append(cookies, end)) = Len(cookies) + 1
        BY <2>2, <4>1, AppendProperties
      <4>3. CASE call[c].len = 0
        BY <4>1, <4>3
      <4>4. CASE call[c].len # 0
        BY <4>1, <4>2, <4>4
      <4> QED
        BY <4>3, <4>4
    <3>2. turn \in 0..Len(written)
      BY <1>1, <3>1 DEF History
    <3> HIDE DEF written
    <3> QED
      BY <2>1, <3>1, <3>2, Remembered
  <2> HIDE DEF end
  <2>4. Types'
    <3>1. call' \in [Callers -> [op : {"none", "write", "read"}, len : Nat, at : Nat]]
      BY <1>1, <2>1 DEF Types, Idle
    <3>2. nul' \subseteq Pot /\ end \in 0..Max
      BY <1>1, <2>1, <2>2, Sizes DEF Types
    <3> QED
      BY <1>1, <1>3, <2>1, <3>1, <3>2 DEF Types
  <2>5. CallsFit'
    BY <1>1, <2>3 DEF CallsFit, Fits, Idle
  <2>6. Reads' = Reads /\ Ended' = Ended /\ \A d \in Reads : call'[d] = call[d]
    BY <1>3, <2>3 DEF Reads, Ended, Idle
  <2>7. GetBound'
    BY <1>1, <2>1, <2>6 DEF GetBound
  <2>8. Lifecycle'
    <3>1. Busy
      BY <1>3 DEF Busy, Idle
    <3> QED
      BY <1>1, <1>3, <2>1, <3>1 DEF Lifecycle
  <2>9. Whole'
    <3> SUFFICES ASSUME ~raced PROVE Whole'
      BY <2>1 DEF Whole
    <3>1. /\ Ordered /\ Terminated /\ Put = End(Len(cookies)) /\ call[c].at = Put
          /\ (variant = "proc" => Get = End(turn))
          /\ \A n \in nul : n < Put \/ Put + call[c].len <= n
      BY <1>1, <1>3 DEF Whole
    <3>2. from = Put /\ end = Put + call[c].len /\ Put \in Nat /\ nul \subseteq Nat
      BY <1>1, <2>2, <3>1, Sizes DEF end, Types
    <3>3. \A d \in Callers : call'[d] = Idle
      BY <1>1, <1>3, <2>3 DEF Whole, Idle
    <3>4. cookies' = written /\ turn' = turn
      BY <2>1, <2>10
    <3>5. CASE call[c].len = 0
      <4>1. cookies' = cookies /\ end = Put
        BY <2>2, <3>2, <3>4, <3>5
      <4>2. Len(cookies) \in 1..Len(cookies)
        BY <1>1, <2>2, <3>1, <4>1, EndsIn
      <4>3. nul' = nul
        BY <2>1, <3>1, <4>1, <4>2 DEF Terminated
      <4>4. Ordered' /\ Terminated' /\ Put' = End(Len(cookies))' /\ End(turn)' = End(turn)
        BY <2>1, <3>1, <3>4, <4>1, <4>3 DEF Ordered, Terminated, End
      <4> QED
        BY <1>3, <2>1, <3>1, <3>3, <4>4 DEF Whole, Idle
    <3>6. CASE call[c].len # 0
      <4>1. cookies' = Append(cookies, end)
        BY <3>4, <3>6
      <4>2. /\ Len(cookies') = Len(cookies) + 1
            /\ \A k \in 0..(Len(cookies) + 1) :
                  End(k)' = IF k = Len(cookies) + 1 THEN end ELSE End(k)
        BY <1>1, <2>2, <4>1, EndsAppended
      <4>3. /\ Len(cookies) \in Nat /\ turn \in 0..Len(cookies)
            /\ \A k \in 0..Len(cookies) : End(k) \in Nat /\ End(k) <= Put /\ End(k) < end
        <5>1. /\ Len(cookies) \in Nat /\ turn \in 0..Len(cookies)
              /\ \A k \in 0..Len(cookies) : End(k) \in Nat
          BY <1>1, EndsIn DEF History
        <5>2. Put < end
          BY <2>2, <3>2, <3>6
        <5>3. ASSUME NEW k \in 0..Len(cookies) PROVE End(k) <= Put
          <6>1. CASE k = Len(cookies)
            BY <3>1, <3>2, <6>1
          <6>2. CASE k # Len(cookies)
            <7>1. k < Len(cookies) /\ Len(cookies) \in 0..Len(cookies)
              BY <5>1, <6>2
            <7>2. End(k) < End(Len(cookies))
              BY <3>1, <7>1 DEF Ordered
            <7> QED
              BY <3>1, <3>2, <5>1, <7>2
          <6> QED
            BY <6>1, <6>2
        <5> QED
          BY <2>2, <3>2, <5>1, <5>2, <5>3
      <4>4. Put' = End(Len(cookies))' /\ (variant = "proc" => Get' = End(turn)')
        BY <2>1, <3>1, <3>4, <4>2, <4>3
      <4>5. Ordered'
        <5> SUFFICES ASSUME NEW i \in 0..(Len(cookies) + 1), NEW j \in 0..(Len(cookies) + 1), i < j
                     PROVE  End(i)' < End(j)'
          BY <4>2 DEF Ordered
        <5>1. i \in 0..Len(cookies) /\ End(i)' = End(i)
          BY <4>2, <4>3
        <5>2. CASE j \in 0..Len(cookies)
          BY <3>1, <4>2, <5>1, <5>2 DEF Ordered
        <5>3. CASE j = Len(cookies) + 1
          BY <4>2, <4>3, <5>1, <5>3
        <5> QED
          BY <4>3, <5>2, <5>3
      <4>6. Terminated'
        <5>1. ASSUME NEW k \in 1..(Len(cookies) + 1) PROVE End(k)' - 1 \in nul'
          <6>1. CASE k \in 1..Len(cookies)
            <7>1. End(k)' = End(k)
              BY <4>2, <4>3, <6>1
            <7> QED
              BY <2>1, <3>1, <6>1, <7>1 DEF Terminated
          <6>2. CASE k = Len(cookies) + 1
            BY <2>1, <4>2, <6>2
          <6> QED
            BY <4>3, <6>1, <6>2
        <5>2. ASSUME NEW n \in nul', n < end
              PROVE  \E k \in 1..(Len(cookies) + 1) : n = End(k)' - 1
          <6>1. CASE n = end - 1
            <7>1. Len(cookies) + 1 \in 1..(Len(cookies) + 1)
              BY <4>3
            <7> QED
              BY <4>2, <6>1, <7>1
          <6>2. CASE n # end - 1
            <7>1. n \in nul /\ n < Put
              BY <2>1, <3>1, <3>2, <5>2, <6>2
            <7>2. PICK k \in 1..Len(cookies) : n = End(k) - 1
              BY <3>1, <7>1 DEF Terminated
            <7>3. k \in 1..(Len(cookies) + 1) /\ End(k)' = End(k)
              BY <4>2, <4>3
            <7> QED
              BY <7>2, <7>3
          <6> QED
            BY <6>1, <6>2
        <5> QED
          BY <2>1, <4>2, <5>1, <5>2 DEF Terminated
      <4> QED
        BY <1>3, <3>3, <4>4, <4>5, <4>6 DEF Whole, Idle
    <3> QED
      BY <3>5, <3>6
  <2> QED
    BY <2>4, <2>5, <2>7, <2>8, <2>9, <2>10 DEF Inv
<1> QED
  BY <1>4, <1>5

(* The text shown begins at Start, in the pot, and ends with the next NUL. *)
LEMMA StartFacts ==
  ASSUME Types, Put # 0, NEW end \in Ends(Start)
  PROVE  /\ Start \in Nat /\ Start < Put /\ (Start = 0 \/ Start = Get)
         /\ end \in nul /\ end \in 0..(Max - 1) /\ Start <= end
         /\ \A m \in nul : m >= Start => end <= m
         /\ Shown(Start, end) \in Nat /\ Shown(Start, end) > 0
         /\ Start + Shown(Start, end) <= Longest
         /\ variant = "proc" => Shown(Start, end) = end - Start + 1
<1>1. Put \in Nat /\ Get \in Nat /\ Prefix \in Nat /\ variant \in {"proc", "seq"}
  BY Sizes DEF Types
<1>2. Start \in Nat /\ Start < Put /\ (Start = 0 \/ Start = Get)
  BY <1>1 DEF Start
<1>3. /\ end \in nul /\ end \in 0..(Max - 1) /\ Start <= end
      /\ \A m \in nul : m >= Start => end <= m
  <2>1. end \in nul /\ end >= Start /\ \A m \in nul : m >= Start => end <= m
    BY DEF Ends
  <2> QED
    BY <1>2, <2>1, Sizes DEF Types
<1>4. Max \in Nat /\ Longest = Max + Prefix
  BY Sizes DEF Longest, Max
<1> QED
  BY <1>1, <1>2, <1>3, <1>4 DEF Shown

LEMMA ReadShowsInv ==
  ASSUME Inv, NEW c \in Callers, ReadShows(c)
  PROVE  Inv'
<1>1. Types /\ CallsFit /\ GetBound /\ Lifecycle /\ History /\ Whole
  BY DEF Inv
<1>2. CASE Oops
  BY <1>2, OopsInv DEF ReadShows
<1>3. CASE ~Oops
  <2>1. PICK end \in Ends(Start), put \in 0..Max :
           /\ Begin(c, [op |-> "read", len |-> Shown(Start, end), at |-> Start])
           /\ Set(put, Start)
           /\ put = Put \/ (Overflows(end) /\ Put < MAX_COOKIE_LEN)
    <3>1. PICK end \in Ends(Start) :
             /\ Begin(c, [op |-> "read", len |-> Shown(Start, end), at |-> Start])
             /\ \E put \in IF Overflows(end) /\ Put < MAX_COOKIE_LEN THEN 0..Put ELSE {Put} :
                   Set(put, Start)
      BY <1>3 DEF ReadShows
    <3>2. PICK put \in IF Overflows(end) /\ Put < MAX_COOKIE_LEN THEN 0..Put ELSE {Put} :
             Set(put, Start)
      BY <3>1
    <3>3. Put \in 0..Max /\ Max \in Nat
      BY <1>1, Sizes DEF Types
    <3>4. put \in 0..Max /\ (put = Put \/ (Overflows(end) /\ Put < MAX_COOKIE_LEN))
      BY <3>2, <3>3
    <3> QED
      BY <3>1, <3>2, <3>4
  <2> DEFINE len == Shown(Start, end)
             at == Start
             cl == [op |-> "read", len |-> len, at |-> at]
             first == IF turn = Len(cookies) THEN 0 ELSE turn
  <2>2. /\ UNCHANGED <<variant, module, nul, entries, pot>>
        /\ Put # 0 /\ module # "oops" /\ Remember(cookies, first)
    BY <1>3 DEF ReadShows, Callable
  <2>3. /\ "file" \in entries /\ call[c] = Idle /\ call' = [call EXCEPT ![c] = cl]
        /\ raced' \in BOOLEAN
        /\ ~raced' => ~raced /\ module = "in" /\ \A d \in Callers : call[d] = Idle
    BY <2>1, BeginFacts
  <2>4. /\ at \in Nat /\ at < Put /\ (at = 0 \/ at = Get)
        /\ end \in nul /\ end \in 0..(Max - 1) /\ at <= end
        /\ \A m \in nul : m >= at => end <= m
        /\ len \in Nat /\ len > 0 /\ at + len <= Longest
        /\ variant = "proc" => len = end - at + 1
    BY <1>1, <2>2, StartFacts
  <2>5. Get' = at /\ Put' = put
    BY <1>1, <2>1, <2>2, Indices
  <2>12. Overflows(end) <=> variant = "proc" /\ end - at + 2 > Max
    BY DEF Overflows, Max
  <2>13. first \in 0..Len(cookies) /\ (turn < Len(cookies) => first = turn)
    BY <1>1 DEF History
  <2>14. at = IF Put <= Get THEN 0 ELSE Get
    BY DEF Start
  <2> HIDE DEF len, at, first
  <2>15. History' /\ (~raced' => cookies' = cookies /\ turn' = first)
    BY <1>1, <2>2, <2>13, Remembered DEF History
  <2>6. \A d \in Callers : call'[d] = IF d = c THEN cl ELSE call[d]
    BY <1>1, <2>3 DEF Types
  <2>7. Types'
    <3>1. call' \in [Callers -> [op : {"none", "write", "read"}, len : Nat, at : Nat]]
      BY <1>1, <2>3, <2>4 DEF Types
    <3> QED
      BY <1>1, <2>1, <2>2, <2>3, <2>4, <2>5, <3>1 DEF Types
  <2>8. CallsFit'
    BY <1>1, <2>4, <2>6 DEF CallsFit, Fits
  <2>9. GetBound'
    <3>1. c \notin Reads /\ Reads' = Reads \cup {c}
      BY <2>3, <2>6 DEF Reads, Idle
    <3>2. Ended' \in Nat
      BY <3>1, ReadBegins
    <3>3. Get' <= call'[c].at + Ended' * Longest
      <4>1. Ended' * Longest \in Nat
        BY <3>2, Times
      <4>2. call'[c].at = at
        BY <2>6
      <4> QED
        BY <2>4, <2>5, <4>1, <4>2
    <3> QED
      BY <3>1, <3>3 DEF GetBound
  <2>10. Lifecycle'
    BY <1>1, <2>2, <2>3 DEF Lifecycle
  <2>11. Whole'
    <3> SUFFICES ASSUME ~raced' PROVE Whole'
      BY DEF Whole
    <3>1. /\ ~raced /\ Ordered /\ Terminated /\ Put = End(Len(cookies))
          /\ (variant = "proc" => Get = End(turn))
      BY <1>1, <2>3 DEF Whole
    <3>2. /\ Len(cookies) \in Nat /\ Put \in Nat /\ Put <= Max /\ turn \in 0..Len(cookies)
          /\ Max \in Nat /\ Prefix \in Nat
          /\ \A k \in 0..Len(cookies) : End(k) \in Nat
      BY <1>1, EndsIn, Sizes DEF History, Types
    <3>3. PICK k \in 1..Len(cookies) : end = End(k) - 1 /\ End(k - 1) <= at /\ at < End(k)
      BY <1>1, <2>1, <2>4, <3>1, ReadsOne DEF at
    <3>4. k \in 0..Len(cookies) /\ k - 1 \in 0..Len(cookies) /\ End(k) <= Put
      <4>1. k \in 0..Len(cookies) /\ k - 1 \in 0..Len(cookies) /\ Len(cookies) \in 0..Len(cookies)
        BY <3>2
      <4> QED
        BY <3>1, <3>2, <4>1 DEF Ordered
    <3>5. put = Put
      <4>1. end \in Nat /\ at \in Nat /\ end + 1 <= Put
        BY <2>4, <3>2, <3>3, <3>4
      <4>2. Put < Max => ~(end - at + 2 > Max)
        BY <3>2, <4>1
      <4>3. Put < Max => ~Overflows(end)
        BY <2>12, <4>2
      <4> QED
        BY <2>1, <4>3 DEF Max
    <3>6. cookies' = cookies /\ turn' = first /\ \A j \in Nat : End(j)' = End(j)
      BY <2>15 DEF End
    <3>7. Ordered' /\ Terminated' /\ Put' = End(Len(cookies))'
      BY <2>2, <2>5, <3>1, <3>2, <3>5, <3>6 DEF Ordered, Terminated
    <3>8. variant = "proc" => at = End(first) /\ first < Len(cookies) /\ k = first + 1
      <4> SUFFICES ASSUME variant = "proc"
                   PROVE  at = End(first) /\ first < Len(cookies) /\ k = first + 1
        OBVIOUS
      <4>1. Get = End(turn) /\ Get <= Put /\ End(0) = 0 /\ Len(cookies) \in 0..Len(cookies)
        BY <1>1, <3>1, <3>2, EndsIn DEF Ordered
      <4>2. Len(cookies) > 0 /\ Get \in Nat
        BY <2>2, <3>1, <3>2, <4>1
      <4>3. ASSUME turn = Len(cookies)
            PROVE  at = End(first) /\ first < Len(cookies)
        <5>1. first = 0 /\ at = 0
          BY <2>14, <3>1, <3>2, <4>1, <4>2, <4>3 DEF first
        <5> QED
          BY <4>1, <4>2, <5>1
      <4>4. ASSUME turn # Len(cookies)
            PROVE  at = End(first) /\ first < Len(cookies)
        <5>1. turn < Len(cookies) /\ Get < Put
          BY <3>1, <3>2, <4>1, <4>4 DEF Ordered
        <5> QED
          BY <2>13, <2>14, <3>2, <4>1, <4>2, <5>1
      <4>5. at = End(first) /\ first < Len(cookies)
        BY <4>3, <4>4
      <4>6. first \in Nat /\ k \in Nat /\ first \in 0..Len(cookies)
        BY <2>13, <3>2
      <4>7. ~(k <= first)
        <5> SUFFICES ASSUME k <= first PROVE FALSE
          OBVIOUS
        <5>1. k = first \/ End(k) < End(first)
          BY <3>1, <3>4, <4>6 DEF Ordered
        <5>2. End(k) \in Nat /\ End(first) \in Nat
          BY <3>2, <3>4, <4>6
        <5> QED
          BY <3>3, <4>5, <5>1, <5>2
      <4>8. ~(first < k - 1)
        <5> SUFFICES ASSUME first < k - 1 PROVE FALSE
          OBVIOUS
        <5>1. End(first) < End(k - 1)
          BY <3>1, <3>4, <4>6 DEF Ordered
        <5>2. End(k - 1) \in Nat /\ End(first) \in Nat
          BY <3>2, <3>4, <4>6
        <5> QED
          BY <3>3, <4>5, <5>1, <5>2
      <4> QED
        BY <4>5, <4>6, <4>7, <4>8
    <3>9. IF variant = "proc"
          THEN turn' < Len(cookies') /\ at = End(turn)' /\ at + len = End(turn + 1)'
          ELSE at + len = End(k) + Prefix
      <4>1. at \in Nat /\ end \in Nat /\ End(k) \in Nat /\ end + 1 = End(k)
        BY <2>4, <3>2, <3>3, <3>4
      <4>2. CASE variant = "proc"
        <5>1. at + len = End(k)
          BY <2>4, <4>1, <4>2
        <5>2. first \in Nat /\ turn' = first /\ turn' + 1 = k /\ k \in Nat
          BY <2>13, <3>2, <3>6, <3>8, <4>2
        <5>3. End(turn)' = End(first) /\ End(turn + 1)' = End(k)
          BY <3>6, <5>2 DEF End
        <5> QED
          BY <3>6, <3>8, <4>2, <5>1, <5>2, <5>3
      <4>3. CASE variant # "proc"
        <5>1. variant = "seq"
          BY <1>1, <4>3 DEF Types
        <5>2. len = Prefix + end - at + 1
          BY <5>1 DEF len, Shown, at
        <5> QED
          BY <3>2, <4>1, <4>3, <5>2
      <4> QED
        BY <4>2, <4>3
    <3>10. \A d \in Callers : d # c => call'[d] = Idle
      BY <2>3, <2>6
    <3>11. variant' = "proc" => Get' = End(turn)'
      BY <2>2, <2>5, <2>13, <3>2, <3>6, <3>8
    <3>12. \A d, e \in Callers : call'[d] # Idle /\ call'[e] # Idle => d = e
      BY <3>10
    <3>13. \A d \in Callers : call'[d].op # "write"
      BY <2>6, <3>10 DEF Idle
    <3>14. \A d \in Callers : call'[d].op = "read" => Shows(call[d])'
      <4> SUFFICES ASSUME NEW d \in Callers, call'[d].op = "read" PROVE Shows(call[d])'
        OBVIOUS
      <4>1. call'[d].at = at /\ call'[d].len = len /\ variant' = variant
        BY <2>2, <2>6, <3>10 DEF Idle
      <4>2. CASE variant = "proc"
        BY <3>9, <4>1, <4>2 DEF Shows
      <4>3. CASE variant # "proc"
        <5>1. k \in Nat /\ k - 1 \in Nat /\ k \in 1..Len(cookies')
          BY <3>2, <3>6
        <5>2. End(k)' = End(k) /\ End(k - 1)' = End(k - 1)
          BY <3>6, <5>1
        <5> QED
          BY <3>3, <3>9, <4>1, <4>3, <5>1, <5>2 DEF Shows
      <4> QED
        BY <4>2, <4>3
    <3> QED
      BY <3>7, <3>11, <3>12, <3>13, <3>14 DEF Whole
  <2> QED
    BY <2>7, <2>8, <2>9, <2>10, <2>11, <2>15 DEF Inv
<1> QED
  BY <1>2, <1>3

(* A read that ends is no longer counted from where it began: at most one  *)
(* line longer than the others together.                                   *)
LEMMA ReadFailsInv ==
  ASSUME Inv, NEW c \in Callers, ReadFails(c)
  PROVE  Inv'
<1>1. Types /\ CallsFit /\ GetBound /\ Lifecycle /\ History /\ Whole
  BY DEF Inv
<1>2. /\ UNCHANGED <<variant, module, entries, pot, nul, cookie_index, next_fortune, raced,
                      cookies, turn>>
      /\ call' = [call EXCEPT ![c] = Idle] /\ call[c].op = "read" /\ module # "oops"
  BY DEF ReadFails, state
<1>3. /\ Put' = Put /\ Get' = Get
      /\ \A d \in Callers : call'[d] = IF d = c THEN Idle ELSE call[d]
  BY <1>1, <1>2, Indices DEF Types
<1>4. Types'
  <2>1. call' \in [Callers -> [op : {"none", "write", "read"}, len : Nat, at : Nat]]
    BY <1>1, <1>2 DEF Types, Idle
  <2> QED
    BY <1>1, <1>2, <1>3, <2>1 DEF Types
<1>5. CallsFit'
  BY <1>1, <1>3 DEF CallsFit, Fits, Idle
<1>6. GetBound'
  <2>1. c \in Reads /\ Reads' = Reads \ {c} /\ \A d \in Reads' : call'[d] = call[d]
    BY <1>2, <1>3 DEF Reads, Idle
  <2> QED
    BY <1>1, <1>3, <2>1, ReadEndsBound
<1>7. Lifecycle'
  <2>1. Busy
    BY <1>2 DEF Busy, Idle
  <2> QED
    BY <1>1, <1>2, <1>3, <2>1 DEF Lifecycle
<1>8. History'
  BY <1>1, <1>2 DEF History
<1>9. Whole'
  <2> SUFFICES ASSUME ~raced PROVE Whole'
    BY <1>2 DEF Whole
  <2>1. \A d \in Callers : call'[d] = Idle
    BY <1>1, <1>2, <1>3 DEF Whole, Idle
  <2>2. /\ Ordered' /\ Terminated' /\ Put' = End(Len(cookies))'
        /\ variant' = "proc" => Get' = End(turn)'
    BY <1>1, <1>2, <1>3 DEF Whole, Ordered, Terminated, End
  <2> QED
    BY <2>1, <2>2 DEF Whole, Idle
<1> QED
  BY <1>4, <1>5, <1>6, <1>7, <1>8, <1>9 DEF Inv

LEMMA ReadAdvancesInv ==
  ASSUME Inv, NEW c \in Callers, ReadAdvances(c)
  PROVE  Inv'
<1>1. Types /\ CallsFit /\ GetBound /\ Lifecycle /\ History /\ Whole
  BY DEF Inv
<1>2. PICK from \in {Get, call[c].at} : Set(Put, from + call[c].len)
  BY DEF ReadAdvances
<1>3. /\ UNCHANGED <<variant, module, entries, pot, nul, raced>>
      /\ call' = [call EXCEPT ![c] = Idle] /\ call[c].op = "read" /\ module # "oops"
      /\ Remember(cookies, IF variant = "proc" THEN turn + 1 ELSE turn)
  BY DEF ReadAdvances
<1>4. /\ Get \in Nat /\ call[c].at \in Nat /\ call[c].len \in Nat /\ call[c].len > 0
      /\ from \in Nat /\ call[c].at + call[c].len <= Longest
  BY <1>1, <1>3 DEF Types, CallsFit, Fits
<1>5. /\ Put' = Put /\ Get' = from + call[c].len
      /\ \A d \in Callers : call'[d] = IF d = c THEN Idle ELSE call[d]
  BY <1>1, <1>2, <1>3, Indices DEF Types
<1>6. Types'
  <2>1. call' \in [Callers -> [op : {"none", "write", "read"}, len : Nat, at : Nat]]
    BY <1>1, <1>3 DEF Types, Idle
  <2> QED
    BY <1>1, <1>3, <1>4, <1>5, <2>1 DEF Types
<1>7. CallsFit'
  BY <1>1, <1>5 DEF CallsFit, Fits, Idle
<1>8. GetBound'
  <2>1. c \in Reads /\ Reads' = Reads \ {c} /\ \A d \in Reads' : call'[d] = call[d]
    BY <1>3, <1>5 DEF Reads, Idle
  <2>2. Ended' = Ended + 1 /\ Ended \in Nat
    BY <2>1, ReadEnds, ReadsCounted
  <2>3. /\ Ended * Longest \in Nat /\ Ended' * Longest = Ended * Longest + Longest
        /\ Longest \in Nat
    BY <2>2, Times, Sizes
  <2>4. CASE from = call[c].at
    BY <1>4, <1>5, <2>3, <2>4 DEF GetBound
  <2>5. CASE from = Get /\ Get <= Ended * Longest
    BY <1>4, <1>5, <2>3, <2>5 DEF GetBound
  <2>6. ASSUME from = Get, NEW r \in Reads, Get <= call[r].at + Ended * Longest
        PROVE  GetBound'
    <3>1. call[r].at \in Nat
      BY <1>1 DEF Types, Reads
    <3>2. Get' <= call[r].at + call[c].len + Ended * Longest
      BY <1>4, <1>5, <2>3, <2>6, <3>1
    <3>3. CASE r = c
      BY <1>4, <1>5, <2>3, <3>2, <3>3 DEF GetBound
    <3>4. CASE r # c
      <4>1. r \in Reads' /\ call'[r].at = call[r].at
        BY <2>1, <3>4
      <4>2. Get' <= call'[r].at + Ended' * Longest
        BY <1>4, <1>5, <2>3, <3>1, <3>2, <4>1
      <4> QED
        BY <4>1, <4>2 DEF GetBound
    <3> QED
      BY <3>3, <3>4
  <2> QED
    BY <1>1, <2>4, <2>5, <2>6 DEF GetBound
<1>9. Lifecycle'
  <2>1. Busy
    BY <1>3 DEF Busy, Idle
  <2> QED
    BY <1>1, <1>3, <1>5, <2>1 DEF Lifecycle
<1>10. ~raced => Shows(call[c]) /\ (variant = "proc" => Get = call[c].at)
  BY <1>1, <1>3 DEF Whole, Shows
<1>11. /\ History'
       /\ ~raced' => /\ cookies' = cookies
                     /\ turn' = IF variant = "proc" THEN turn + 1 ELSE turn
  <2> DEFINE next == IF variant = "proc" THEN turn + 1 ELSE turn
  <2>1. ~raced' => cookies \in Seq(1..Max) /\ next \in 0..Len(cookies)
    <3>1. cookies \in Seq(1..Max) /\ turn \in 0..Len(cookies) /\ Len(cookies) \in Nat
      BY <1>1 DEF History
    <3>2. ~raced' /\ variant = "proc" => turn < Len(cookies)
      BY <1>3, <1>10 DEF Shows
    <3> QED
      BY <3>1, <3>2
  <2>2. Remember(cookies, next)
    BY <1>3
  <2> HIDE DEF next
  <2>3. History' /\ (~raced' => cookies' = cookies /\ turn' = next)
    BY <2>1, <2>2, Remembered
  <2> QED
    BY <2>3 DEF next
<1>12. Whole'
  <2> SUFFICES ASSUME ~raced PROVE Whole'
    BY <1>3 DEF Whole
  <2>1. \A d \in Callers : call'[d] = Idle
    BY <1>1, <1>3, <1>5 DEF Whole, Idle
  <2>2. cookies' = cookies /\ \A k \in Nat : End(k)' = End(k)
    BY <1>3, <1>11 DEF End
  <2>3. Ordered' /\ Terminated' /\ Put' = End(Len(cookies))'
    BY <1>1, <1>3, <1>5, <2>2 DEF Whole, Ordered, Terminated, End
  <2>4. variant' = "proc" => Get' = End(turn)'
    <3> SUFFICES ASSUME variant = "proc" PROVE Get' = End(turn)'
      BY <1>3
    <3>1. from = call[c].at /\ call[c].at + call[c].len = End(turn + 1) /\ turn' = turn + 1
      BY <1>3, <1>10, <1>11 DEF Shows
    <3>2. turn + 1 \in Nat
      BY <1>1, EndsIn
    <3>3. End(turn)' = End(turn + 1)
      BY <2>2, <3>1 DEF End
    <3> QED
      BY <1>5, <3>1, <3>3
  <2> QED
    BY <2>1, <2>3, <2>4 DEF Whole, Idle
<1> QED
  BY <1>6, <1>7, <1>8, <1>9, <1>11, <1>12 DEF Inv

LEMMA NextInv == Inv /\ [Next]_vars => Inv'
<1> SUFFICES ASSUME Inv, [Next]_vars PROVE Inv'
  OBVIOUS
<1>1. CASE init_module
  BY <1>1, LoadInv, ResetInv DEF init_module
<1>2. CASE Unload \/ cleanup_module
  BY <1>2, LoadInv DEF cleanup_module
<1>3. ASSUME NEW c \in Callers, NEW len \in Lens, WriteCopies(c, len) \/ WriteFaults(c, len)
      PROVE  Inv'
  BY <1>3, WriteCopiesInv, WriteFaultsInv
<1>4. ASSUME NEW c \in Callers,
             WriteAdvances(c) \/ ReadShows(c) \/ ReadFails(c) \/ ReadAdvances(c)
      PROVE  Inv'
  BY <1>4, WriteAdvancesInv, ReadShowsInv, ReadFailsInv, ReadAdvancesInv
<1>5. CASE UNCHANGED vars
  <2>1. Types' /\ CallsFit' /\ Lifecycle' /\ History'
    BY <1>5 DEF vars, Inv, Types, CallsFit, Lifecycle, History, Busy, Put, Get
  <2>2. GetBound'
    BY <1>5 DEF vars, Inv, GetBound, Ended, Reads, Get
  <2>3. Whole'
    BY <1>5 DEF vars, Inv, Whole, Ordered, Terminated, Shows, End, Put, Get
  <2> QED
    BY <2>1, <2>2, <2>3 DEF Inv
<1> QED
  BY <1>1, <1>2, <1>3, <1>4, <1>5 DEF Next

-----------------------------------------------------------------------------
(* The inductive invariant: the state of the pot, the reading index behind *)
(* the reads that moved it, what exists while init and cleanup run, and,   *)
(* until calls overlap, that the NULs before the writing index are where   *)
(* the cookies written end, with the reading index (fort_proc) at the end  *)
(* of the one last shown.                                                  *)
THEOREM Invariance == Spec => []Inv
<1>1. Init => Inv
  BY InitInv
<1>2. Inv /\ [Next]_vars => Inv'
  BY NextInv
<1> QED
  BY <1>1, <1>2, PTL DEF Spec

(* The index cookies go in at never leaves the pot, however many calls of  *)
(* write race; the one they come from is never further than one longest    *)
(* line for each process that can read at once.                            *)
THEOREM TypeCorrect == Spec => []TypeOK
<1>1. Inv => TypeOK
  <2> SUFFICES ASSUME Inv PROVE TypeOK
    OBVIOUS
  <2>1. Types /\ CallsFit /\ GetBound /\ History
    BY DEF Inv
  <2>2. /\ Get \in Nat /\ Longest \in Nat /\ Ended * Longest \in Nat
        /\ Cardinality(Callers) * Longest \in Nat
        /\ Ended * Longest <= Cardinality(Callers) * Longest
    BY <2>1, Sizes, ReadsCounted, Times DEF Types
  <2>3. ASSUME NEW c \in Reads, Get <= call[c].at + Ended * Longest
        PROVE  Get <= Cardinality(Callers) * Longest
    <3>1. call[c].at \in Nat /\ call[c].at <= Longest
      BY <2>1, <2>2 DEF Types, CallsFit, Fits, Reads
    <3>2. Ended * Longest + Longest <= Cardinality(Callers) * Longest
      <4>1. Ended \in Nat /\ Ended + 1 \in Nat /\ Ended + 1 <= Cardinality(Callers)
        BY ReadsCounted
      <4>2. (Ended + 1) * Longest <= Cardinality(Callers) * Longest
        BY <4>1, ReadsCounted, Times
      <4> QED
        BY <4>1, <4>2, Times
    <3> QED
      BY <2>2, <2>3, <3>1, <3>2
  <2>4. Get \in 0..(Cardinality(Callers) * Longest)
    BY <2>1, <2>2, <2>3 DEF GetBound
  <2> QED
    BY <2>1, <2>4 DEF Types, TypeOK, History, Max, Longest
<1> QED
  BY <1>1, Invariance, PTL

(* Until two calls overlap, fort_proc shows the cookies written, each of   *)
(* them whole, one after the other and from the first again after the      *)
(* last; fort_seq shows the rest of one at each read.  Neither a write     *)
(* that fails, has length zero or fills the pot nor a read that fails      *)
(* upsets this.                                                            *)
THEOREM CookiesAreWhole == Spec => []CookiesWhole
<1>1. Inv => CookiesWhole
  BY DEF Inv, Whole, Shows, CookiesWhole
<1> QED
  BY <1>1, Invariance, PTL

(* However far a load got before it failed, and after every unload, no     *)
(* entry, no call and no pot is left.                                      *)
THEOREM NothingIsLeft == Spec => []NothingLeft
<1>1. Inv => NothingLeft
  BY DEF Inv, Lifecycle, NothingLeft
<1> QED
  BY <1>1, Invariance, PTL

-----------------------------------------------------------------------------
(***************************************************************************)
(* BottomHalf                                                              *)
(***************************************************************************)

(* The line calls registered handlers only.  After tasklet_disable() the   *)
(* function does not run, after tasklet_kill() it is not scheduled.        *)
TaskletQuiet ==
  /\ line \in {"t_read", "t_schedule"} => Registered("tasklet")
  /\ mod["tasklet"] \in {"disabled", "killed"} => tasklet.disabled /\ tasklet.step = "idle"
  /\ mod["tasklet"] \in {"killed", "out"} => ~tasklet.sched /\ tasklet.step = "idle"

(* Works are pending or run only from the creation of the works on, and    *)
(* until the queue is destroyed: no longer than there is a queue.          *)
WorksQuiet ==
  /\ line \in {"w_read", "w_fir", "w_sec"} => Registered("workseq")
  /\ mod["workseq"] \notin {"works", "in", "left", "flushed"} => queue = <<>> /\ worker = "none"

BHInv == BHTypeOK /\ TaskletQuiet /\ WorksQuiet

Queues == {<<>>, <<"fir">>, <<"sec">>, <<"fir", "sec">>, <<"sec", "fir">>}

-----------------------------------------------------------------------------
LEMMA Pair == \A v, w : Append(<<v>>, w) = <<v, w>>
<1> TAKE v, w
<1>1. <<v>> \in Seq({v, w}) /\ <<v, w>> \in Seq({v, w})
  OBVIOUS
<1>2. /\ Append(<<v>>, w) \in Seq({v, w}) /\ Len(Append(<<v>>, w)) = 2
      /\ Append(<<v>>, w)[1] = v /\ Append(<<v>>, w)[2] = w
  BY <1>1
<1>3. Len(<<v, w>>) = 2 /\ <<v, w>>[1] = v /\ <<v, w>>[2] = w
  OBVIOUS
<1>4. \A k \in 1..2 : Append(<<v>>, w)[k] = <<v, w>>[k]
  BY <1>2, <1>3
<1> QED
  BY <1>1, <1>2, <1>3, <1>4, SeqEqual

(* A queue of two works without a work twice stays one.                    *)
LEMMA QueueAppend ==
  ASSUME NEW q \in Queues, NEW w \in {"fir", "sec"}, w \notin Range(q)
  PROVE  Append(q, w) \in Queues
<1>1. \A k \in DOMAIN q : q[k] # w
  BY DEF Range
<1>2. CASE q = <<>>
  BY <1>2 DEF Queues
<1>3. CASE q = <<"fir">>
  <2>1. 1 \in DOMAIN q /\ q[1] = "fir"
    BY <1>3
  <2>2. w = "sec"
    BY <1>1, <2>1
  <2>3. Append(<<"fir">>, "sec") = <<"fir", "sec">>
    BY Pair
  <2> QED
    BY <1>3, <2>2, <2>3 DEF Queues
<1>4. CASE q = <<"sec">>
  <2>1. 1 \in DOMAIN q /\ q[1] = "sec"
    BY <1>4
  <2>2. w = "fir"
    BY <1>1, <2>1
  <2>3. Append(<<"sec">>, "fir") = <<"sec", "fir">>
    BY Pair
  <2> QED
    BY <1>4, <2>2, <2>3 DEF Queues
<1>5. CASE q = <<"fir", "sec">> \/ q = <<"sec", "fir">>
  BY <1>1, <1>5
<1> QED
  BY <1>2, <1>3, <1>4, <1>5 DEF Queues

LEMMA QueueTail ==
  ASSUME NEW q \in Queues, q # <<>>
  PROVE  Tail(q) \in Queues /\ Head(q) \in {"fir", "sec"}
<1>1. CASE q = <<"fir">> \/ q = <<"sec">>
  <2>1. /\ Tail(<<"fir">>) = <<>> /\ Head(<<"fir">>) = "fir"
        /\ Tail(<<"sec">>) = <<>> /\ Head(<<"sec">>) = "sec"
    OBVIOUS
  <2> QED
    BY <1>1, <2>1 DEF Queues
<1>2. CASE q = <<"fir", "sec">>
  BY <1>2 DEF Queues
<1>3. CASE q = <<"sec", "fir">>
  BY <1>3 DEF Queues
<1> QED
  BY <1>1, <1>2, <1>3 DEF Queues

LEMMA Characters == \A code : get_ascii(code) \in Keys \cup {0}
BY DEF get_ascii

LEMMA BHInitInv == BHInit => BHInv
<1> SUFFICES ASSUME BHInit PROVE BHInv
  OBVIOUS
<1> USE DEF BHInit
<1>1. BHTypeOK
  <2>1. mod \in [Modules -> {"out", "irq", "in", "freed", "disabled", "killed", "queue",
                             "works", "left", "flushed", "destroyed"}]
    OBVIOUS
  <2>2. shown \in [Printers -> [code : Codes \cup {0}, char : Keys \cup {0}]]
    BY DEF Nothing
  <2> QED
    BY <2>1, <2>2 DEF BHTypeOK
<1>2. TaskletQuiet /\ WorksQuiet
  BY DEF TaskletQuiet, WorksQuiet, Modules
<1> QED
  BY <1>1, <1>2 DEF BHInv

-----------------------------------------------------------------------------
(* The line: its handlers are entered when they are registered, and queue  *)
(* works only when there is a queue.                                       *)
LEMMA BHLineInv ==
  ASSUME BHInv, Key \/ Handlers
  PROVE  BHInv'
<1> USE DEF Key, Handlers, Interrupt, my_irq_handler, handler, AfterTasklet
<1>1. BHTypeOK /\ TaskletQuiet /\ WorksQuiet
  BY DEF BHInv
<1>2. UNCHANGED <<mod, worker, shown>>
  OBVIOUS
<1>3. queue' \in Queues /\ (queue' # queue => HasQueue)
  <2>1. CASE UNCHANGED queue
    BY <1>1, <2>1 DEF BHTypeOK, Queues
  <2>2. ASSUME HasQueue, NEW w \in {"fir", "sec"}, Queue(w) PROVE queue' \in Queues
    BY <1>1, <2>2, QueueAppend DEF BHTypeOK, Queues, Queue
  <2> QED
    BY <2>1, <2>2
<1>4. BHTypeOK'
  <2>1. line' \in {"quiet", "requested", "t_read", "t_schedule", "w_read", "w_fir", "w_sec"}
    BY <1>1 DEF BHTypeOK
  <2>2. port' \in Codes \cup {0} /\ scancode' \in [Modules -> Codes \cup {0}]
    BY <1>1 DEF BHTypeOK
  <2>3. tasklet' \in [sched : BOOLEAN, disabled : BOOLEAN, step : {"idle", "test", "print"}]
    BY <1>1 DEF BHTypeOK
  <2>4. oops' \in BOOLEAN
    BY <1>1 DEF BHTypeOK
  <2> QED
    BY <1>1, <1>2, <1>3, <2>1, <2>2, <2>3, <2>4 DEF BHTypeOK, Queues
<1>5. TaskletQuiet'
  BY <1>1, <1>2 DEF BHTypeOK, TaskletQuiet, Registered
<1>6. WorksQuiet'
  <2>1. line' \in {"w_read", "w_fir", "w_sec"} => Registered("workseq")
    BY <1>1 DEF BHTypeOK, WorksQuiet
  <2> QED
    BY <1>1, <1>2, <1>3, <2>1 DEF WorksQuiet, Registered, HasQueue
<1> QED
  BY <1>4, <1>5, <1>6 DEF BHInv

(* The function runs only once tasklet_init() is done.                     *)
LEMMA BHTaskletInv ==
  ASSUME BHInv, Tasklet
  PROVE  BHInv'
<1> USE DEF Tasklet, TaskletBegins, my_tasklet_function
<1>1. BHTypeOK /\ TaskletQuiet /\ WorksQuiet
  BY DEF BHInv
<1>2. UNCHANGED <<mod, port, line, scancode, queue, worker>>
  OBVIOUS
<1>3. BHTypeOK'
  <2>1. tasklet' \in [sched : BOOLEAN, disabled : BOOLEAN, step : {"idle", "test", "print"}]
    BY <1>1 DEF BHTypeOK
  <2>2. shown' \in [Printers -> [code : Codes \cup {0}, char : Keys \cup {0}]]
    <3>1. scancode["tasklet"] \in Codes \cup {0}
      BY <1>1 DEF BHTypeOK, Modules
    <3> QED
      BY <1>1, <3>1, Characters DEF BHTypeOK
  <2>3. oops' \in BOOLEAN
    BY <1>1 DEF BHTypeOK
  <2> QED
    BY <1>1, <1>2, <2>1, <2>2, <2>3 DEF BHTypeOK
<1>4. TaskletQuiet'
  BY <1>1, <1>2 DEF BHTypeOK, TaskletQuiet, Registered
<1>5. WorksQuiet'
  BY <1>1, <1>2 DEF WorksQuiet, Registered
<1> QED
  BY <1>3, <1>4, <1>5 DEF BHInv

LEMMA BHWorkerInv ==
  ASSUME BHInv, Worker
  PROVE  BHInv'
<1> USE DEF Worker, WorkBegins, queue_function, Dangling
<1>1. BHTypeOK /\ TaskletQuiet /\ WorksQuiet
  BY DEF BHInv
<1>2. UNCHANGED <<mod, port, line, scancode, tasklet>>
  OBVIOUS
<1>3. /\ queue' \in Queues /\ worker' \in {"none", "fir", "sec"}
      /\ queue # <<>> \/ worker # "none"
  BY <1>1, QueueTail DEF BHTypeOK, Queues
<1>4. BHTypeOK'
  <2>1. shown' \in [Printers -> [code : Codes \cup {0}, char : Keys \cup {0}]]
    <3>1. scancode["workseq"] \in Codes \cup {0}
      BY <1>1 DEF BHTypeOK, Modules
    <3> QED
      BY <1>1, <3>1, Characters DEF BHTypeOK
  <2>2. oops' \in BOOLEAN
    BY <1>1 DEF BHTypeOK
  <2> QED
    BY <1>1, <1>2, <1>3, <2>1, <2>2 DEF BHTypeOK, Queues
<1>5. TaskletQuiet'
  BY <1>1, <1>2 DEF TaskletQuiet, Registered
<1>6. WorksQuiet'
  BY <1>1, <1>2, <1>3 DEF WorksQuiet, Registered
<1> QED
  BY <1>4, <1>5, <1>6 DEF BHInv

(* Loads and unloads, call by call.                                        *)
LEMMA BHLoadInv ==
  ASSUME BHInv, Load
  PROVE  BHInv'
<1> USE DEF Load, RequestIRQ, my_tasklet_init, my_tasklet_exit, work_queue_init,
            work_queue_exit, Call, kernel, HandlersRest
<1>1. BHTypeOK /\ TaskletQuiet /\ WorksQuiet
  BY DEF BHInv
<1>2. UNCHANGED <<port, line, shown, queue, worker>>
  OBVIOUS
<1>3. BHTypeOK'
  <2>1. mod' \in [Modules -> {"out", "irq", "in", "freed", "disabled", "killed", "queue",
                              "works", "left", "flushed", "destroyed"}]
    BY <1>1 DEF BHTypeOK, Modules
  <2>2. scancode' \in [Modules -> Codes \cup {0}]
    BY <1>1 DEF BHTypeOK
  <2>3. tasklet' \in [sched : BOOLEAN, disabled : BOOLEAN, step : {"idle", "test", "print"}]
    BY <1>1 DEF BHTypeOK
  <2>4. oops' \in BOOLEAN
    <3>1. tasklet.sched \in BOOLEAN /\ oops \in BOOLEAN
      BY <1>1 DEF BHTypeOK
    <3>2. oops' = oops \/ oops' = tasklet.sched
      OBVIOUS
    <3> QED
      BY ONLY <3>1, <3>2, Zenon
  <2> QED
    BY <1>1, <1>2, <2>1, <2>2, <2>3, <2>4 DEF BHTypeOK
<1>4. TaskletQuiet'
  BY <1>1, <1>2 DEF BHTypeOK, TaskletQuiet, Registered, Modules
<1>5. WorksQuiet'
  BY <1>1, <1>2 DEF BHTypeOK, WorksQuiet, Registered, Modules
<1> QED
  BY <1>3, <1>4, <1>5 DEF BHInv

LEMMA BHNextInv == BHInv /\ [BHNext]_bhVars => BHInv'
<1> SUFFICES ASSUME BHInv, [BHNext]_bhVars PROVE BHInv'
  OBVIOUS
<1>1. CASE Key \/ Handlers
  BY <1>1, BHLineInv
<1>2. CASE Tasklet \/ Worker
  BY <1>2, BHTaskletInv, BHWorkerInv
<1>3. CASE Load
  BY <1>3, BHLoadInv
<1>4. CASE UNCHANGED bhVars
  BY <1>4 DEF bhVars, BHInv, BHTypeOK, TaskletQuiet, WorksQuiet, Registered
<1> QED
  BY <1>1, <1>2, <1>3, <1>4 DEF BHNext

-----------------------------------------------------------------------------
(* The inductive invariant: what each call of an unload has shut.          *)
THEOREM BHInvariance == BHSpec => []BHInv
<1>1. BHInit => BHInv
  BY BHInitInv
<1>2. BHInv /\ [BHNext]_bhVars => BHInv'
  BY BHNextInv
<1> QED
  BY <1>1, <1>2, PTL DEF BHSpec

(* No work is ever queued twice: the queue is one of five, however fast    *)
(* the keys are hit.                                                       *)
THEOREM BHTypeCorrect == BHSpec => []BHTypeOK
<1>1. BHInv => BHTypeOK
  BY DEF BHInv
<1> QED
  BY <1>1, BHInvariance, PTL

(* Whatever interrupts, tasklet and works were doing when it was unloaded, *)
(* nothing of a module is entered, scheduled, pending or running after.    *)
THEOREM QuietWhenUnloaded == BHSpec => []UnloadedIsQuiet
<1>1. BHInv => UnloadedIsQuiet
  BY DEF BHInv, TaskletQuiet, WorksQuiet, Registered, UnloadedIsQuiet
<1> QED
  BY <1>1, BHInvariance, PTL
=============================================================================
