-------------------------- MODULE SelectServerProofs --------------------------
(***************************************************************************)
(* Proofs about SelectServer for every number of slots and of clients.     *)
(* That each connection has one place is stated without counting, so that  *)
(* it can be kept step by step; that recv() never blocks needs what        *)
(* readfds, made before this round's accept(), still says of the slots to  *)
(* come.                                                                   *)
(***************************************************************************)
EXTENDS SelectServer, FiniteSetTheorems, SequenceTheorems, WellFoundedInduction, TLAPS

Types ==
  /\ server \in {"setup", "select", "accept", "clients", "exited"}
  /\ i \in 1..(MAX_CLIENTS_COUNT + 1)
  /\ clients \in [Slots -> FDs \cup {0}]
  /\ peer \in [FDs -> Clients \cup {none}]
  /\ readfds \subseteq FDs \cup {master_sd}
  /\ backlog \in Seq(Clients)
  /\ conn \in [Clients -> {"none", "open", "shut", "reset"}]
  /\ wait \in [Clients -> 0..MaxSent]

(* Descriptors and slots.                                                  *)
Table ==
  /\ \A fd \in FDs : peer[fd] # none <=> \E s \in Slots : clients[s] = fd
  /\ \A s, t \in Slots : clients[s] = clients[t] /\ clients[s] # 0 => s = t

(* Clients and the places of their connections.                            *)
Places ==
  /\ \A fd, gd \in FDs : peer[fd] = peer[gd] /\ peer[fd] # none => fd = gd
  /\ \A j, k \in 1..Len(backlog) : backlog[j] = backlog[k] => j = k
  /\ \A fd \in FDs, k \in 1..Len(backlog) : peer[fd] # backlog[k]
  /\ \A c \in Clients : conn[c] # "none" <=> \/ \E fd \in FDs : peer[fd] = c
                                             \/ \E k \in 1..Len(backlog) : backlog[k] = c

HasSomething(fd) == wait[peer[fd]] > 0 \/ conn[peer[fd]] \in {"shut", "reset"}

(* What readfds says: before accept(), of the listen queue and of each     *)
(* descriptor in it; after it, of those whose slot the loop has not met.   *)
Round ==
  /\ server = "accept" =>
       /\ master_sd \in readfds => backlog # <<>>
       /\ \A fd \in FDs \cap readfds : peer[fd] # none /\ HasSomething(fd)
  /\ server = "clients" =>
       \A s \in Slots : i <= s /\ clients[s] \in readfds =>
          HasSomething(clients[s])

Inv == Types /\ (server # "exited" => Table /\ Places /\ Round)

-----------------------------------------------------------------------------
LEMMA Sizes == /\ MAX_CLIENTS_COUNT \in Nat /\ MAX_CLIENTS_COUNT > 0
               /\ 1 \in 1..(MAX_CLIENTS_COUNT + 1)
               /\ Slots \subseteq Nat /\ FDs \subseteq Nat
               /\ 0 \notin Slots /\ 0 \notin FDs /\ master_sd \notin FDs
               /\ master_sd # 0
               /\ none \notin Clients
BY ServerAssumption DEF Slots, FDs, master_sd

LEMMA LeastIsLeast ==
  ASSUME NEW S \in SUBSET Nat, S # {}
  PROVE  Least(S) \in S /\ \A m \in S : Least(S) <= m
<1>1. PICK n \in S : \A m \in S : ~(<<m, n>> \in OpToRel(<, Nat))
  BY NatLessThanWellFounded, WFMin
<1>2. ASSUME NEW m \in S PROVE n <= m
  <2>1. m < n => <<m, n>> \in OpToRel(<, Nat)
    BY DEF OpToRel
  <2>2. ~(m < n)
    BY <1>1, <2>1
  <2> QED
    BY <2>2
<1> QED
  BY <1>2 DEF Least

(* There is one descriptor more than there are slots, so one is free.      *)
LEMMA DescriptorFree ==
  ASSUME Types, Table
  PROVE  NewFD \in FDs /\ peer[NewFD] = none
<1>1. \E fd \in FDs : peer[fd] = none
  <2> SUFFICES ASSUME \A fd \in FDs : peer[fd] # none PROVE FALSE
    OBVIOUS
  <2> DEFINE slot == [fd \in FDs |-> CHOOSE s \in Slots : clients[s] = fd]
  <2>1. \A fd \in FDs : slot[fd] \in Slots /\ clients[slot[fd]] = fd
    BY DEF Table
  <2>2. slot \in [FDs -> Slots]
    BY <2>1
  <2>3. /\ IsFiniteSet(FDs) /\ Cardinality(FDs) = MAX_CLIENTS_COUNT + 1
        /\ IsFiniteSet(Slots) /\ Cardinality(Slots) = MAX_CLIENTS_COUNT
    BY Sizes, FS_Interval DEF FDs, Slots
  <2>4. Cardinality(Slots) < Cardinality(FDs)
    BY <2>3, Sizes
  <2> HIDE DEF slot
  <2>5. PICK x, y \in FDs : x # y /\ slot[x] = slot[y]
    BY <2>2, <2>3, <2>4, FS_PigeonHole
  <2> QED
    BY <2>1, <2>5
<1> DEFINE Unused == {fd \in FDs : peer[fd] = none}
<1>2. Unused \in SUBSET Nat /\ Unused # {}
  BY <1>1, Sizes
<1>3. Least(Unused) \in Unused
  BY <1>2, LeastIsLeast
<1> QED
  BY <1>3 DEF NewFD

LEMMA SlotFree ==
  ASSUME Types, Free # {}
  PROVE  Least(Free) \in Slots /\ clients[Least(Free)] = 0
<1>1. Free \in SUBSET Nat
  BY Sizes DEF Free
<1>2. Least(Free) \in Free
  BY <1>1, LeastIsLeast
<1> QED
  BY <1>2 DEF Free

-----------------------------------------------------------------------------
(* exit() leaves nothing to promise but the types.                         *)
LEMMA ExitInv ==
  ASSUME Inv, Exit
  PROVE  Inv'
<1>1. 0 \in 0..MaxSent /\ <<>> \in Seq(Clients)
  BY ServerAssumption
<1> QED
  BY <1>1 DEF Inv, Types, Exit

LEMMA InitInv == Init => Inv
<1> SUFFICES ASSUME Init PROVE Inv
  OBVIOUS
<1> USE DEF Init
<1>1. Types
  <2>1. 1 \in 1..(MAX_CLIENTS_COUNT + 1) /\ 0 \in 0..MaxSent
    BY ServerAssumption
  <2>2. <<>> \in Seq(Clients)
    OBVIOUS
  <2> QED
    BY <2>1, <2>2 DEF Types
<1>2. Table
  BY Sizes DEF Table
<1>3. Places
  BY Sizes DEF Places
<1>4. Round
  BY DEF Round
<1> QED
  BY <1>1, <1>2, <1>3, <1>4 DEF Inv

(* The listen queue at its two ends.                                       *)
LEMMA QueueTail ==
  ASSUME NEW q \in Seq(Clients), q # <<>>
  PROVE  /\ Len(q) \in Nat /\ Len(q) > 0 /\ Head(q) \in Clients /\ Head(q) = q[1]
         /\ Tail(q) \in Seq(Clients) /\ Len(Tail(q)) = Len(q) - 1
         /\ \A k \in 1..(Len(q) - 1) : Tail(q)[k] = q[k + 1]
BY HeadTailProperties

LEMMA QueueAppend ==
  ASSUME NEW q \in Seq(Clients), NEW c \in Clients
  PROVE  /\ Len(q) \in Nat /\ Append(q, c) \in Seq(Clients)
         /\ Len(Append(q, c)) = Len(q) + 1
         /\ Append(q, c)[Len(q) + 1] = c
         /\ \A k \in 1..Len(q) : Append(q, c)[k] = q[k]
OBVIOUS

-----------------------------------------------------------------------------
(* Steps of the server that change no descriptor.                          *)
LEMMA SelectInv ==
  ASSUME Inv, Select
  PROVE  Inv'
<1> USE DEF Select
<1>1. Types /\ Table /\ Places
  BY DEF Inv
<1>2. readfds' \subseteq FDs \cup {master_sd}
  BY <1>1 DEF Watched, Types
<1>3. Types' /\ Table' /\ Places'
  BY <1>1, <1>2 DEF Types, Table, Places
<1>4. Round'
  <2>1. master_sd \in readfds' => backlog # <<>>
    BY DEF Readable
  <2>2. ASSUME NEW fd \in FDs \cap readfds' PROVE peer[fd] # none /\ HasSomething(fd)
    <3>1. Readable(fd) /\ fd # master_sd /\ \E s \in Slots : clients[s] = fd
      BY <2>2, Sizes DEF Watched
    <3> QED
      BY <1>1, <3>1 DEF Table, Readable, HasSomething
  <2> QED
    BY <2>1, <2>2 DEF Round, HasSomething
<1> QED
  BY <1>3, <1>4 DEF Inv

LEMMA WaitInv ==
  ASSUME Inv, Setup \/ Skip \/ EndOfRound
  PROVE  Inv'
<1> USE DEF Setup, Skip, EndOfRound
<1>1. /\ Types /\ Table /\ Places /\ Round
      /\ UNCHANGED <<clients, peer, readfds, backlog, conn, wait>>
  BY DEF Inv
<1>2. Types' /\ Table' /\ Places'
  BY <1>1, Sizes DEF Types, Table, Places, Next_client
<1>3. Round'
  <2>1. server' # "accept" /\ (server' = "clients" => server = "clients" /\ i' = i + 1)
    BY DEF Next_client
  <2>2. \A s \in Slots : i + 1 <= s => i <= s
    BY <1>1, Sizes DEF Types
  <2> QED
    BY <1>1, <2>1, <2>2 DEF Round, HasSomething
<1> QED
  BY <1>2, <1>3 DEF Inv

(* accept(): a connection leaves the queue for a free descriptor, and that *)
(* descriptor enters a free slot.                                          *)
LEMMA AcceptInv ==
  ASSUME Inv, handle_connection
  PROVE  Inv'
<1> USE DEF handle_connection
<1>1. Types /\ Table /\ Places /\ Round /\ server = "accept"
  BY DEF Inv
<1>2. CASE master_sd \notin readfds
  <2>1. Types'
    BY <1>1, <1>2, Sizes DEF Types
  <2>2. Table' /\ Places'
    BY <1>1, <1>2 DEF Table, Places
  <2>3. Round'
    BY <1>1, <1>2 DEF Round, Types, HasSomething
  <2> QED
    BY <2>1, <2>2, <2>3 DEF Inv
<1>3. CASE master_sd \in readfds /\ Free = {}
  BY <1>3, ExitInv
<1>4. CASE master_sd \in readfds /\ Free # {}
  <2> DEFINE f == NewFD
             t == Least(Free)
             c == Head(backlog)
  <2>1. /\ f \in FDs /\ peer[f] = none /\ t \in Slots /\ clients[t] = 0
        /\ backlog # <<>>
    BY <1>1, <1>4, DescriptorFree, SlotFree DEF Round
  <2>2. /\ server' = "clients" /\ i' = 1 /\ backlog' = Tail(backlog)
        /\ clients' = [clients EXCEPT ![t] = f] /\ peer' = [peer EXCEPT ![f] = c]
        /\ UNCHANGED <<readfds, conn, wait>>
    BY <1>4
  <2> HIDE DEF f, t, c
  <2>3. /\ c \in Clients /\ c = backlog[1] /\ Len(backlog) \in Nat /\ Len(backlog) > 0
        /\ backlog' \in Seq(Clients) /\ Len(backlog') = Len(backlog) - 1
        /\ \A k \in 1..(Len(backlog) - 1) : backlog'[k] = backlog[k + 1]
    BY <1>1, <2>1, <2>2, QueueTail DEF Types, c
  <2>4. /\ \A s \in Slots : clients'[s] = IF s = t THEN f ELSE clients[s]
        /\ \A fd \in FDs : peer'[fd] = IF fd = f THEN c ELSE peer[fd]
    BY <1>1, <2>1, <2>2 DEF Types
  <2>5. Types'
    <3>1. clients' \in [Slots -> FDs \cup {0}] /\ peer' \in [FDs -> Clients \cup {none}]
      BY <1>1, <2>1, <2>2, <2>3 DEF Types
    <3> QED
      BY <1>1, <2>2, <2>3, <3>1, Sizes DEF Types
  <2>6. Table'
    BY <1>1, <2>1, <2>3, <2>4, Sizes DEF Table
  <2>7. Places'
    <3>1. \A fd \in FDs : peer[fd] # c
      BY <1>1, <2>3 DEF Places
    <3>2. \A k \in 1..Len(backlog') : backlog'[k] # c
      BY <1>1, <2>3 DEF Places
    <3>3. \A fd, gd \in FDs : peer'[fd] = peer'[gd] /\ peer'[fd] # none => fd = gd
      BY <1>1, <2>4, <3>1 DEF Places
    <3>4. \A j, k \in 1..Len(backlog') : backlog'[j] = backlog'[k] => j = k
      BY <1>1, <2>3 DEF Places
    <3>5. \A fd \in FDs, k \in 1..Len(backlog') : peer'[fd] # backlog'[k]
      BY <1>1, <2>3, <2>4, <3>2 DEF Places
    <3>6. ASSUME NEW d \in Clients
          PROVE  conn'[d] # "none" <=> \/ \E fd \in FDs : peer'[fd] = d
                                       \/ \E k \in 1..Len(backlog') : backlog'[k] = d
      <4>1. CASE d = c
        <5>1. conn[d] # "none"
          BY <1>1, <2>3, <4>1 DEF Places
        <5> QED
          BY <2>1, <2>2, <2>4, <4>1, <5>1
      <4>2. CASE d # c
        <5>1. (\E k \in 1..Len(backlog) : backlog[k] = d)
                 <=> \E k \in 1..Len(backlog') : backlog'[k] = d
          <6>1. ASSUME NEW k \in 1..Len(backlog), backlog[k] = d
                PROVE  k - 1 \in 1..Len(backlog') /\ backlog'[k - 1] = d
            BY <2>3, <4>2, <6>1
          <6>2. \A k \in 1..Len(backlog') : k + 1 \in 1..Len(backlog)
            BY <2>3
          <6> QED
            BY <2>3, <6>1, <6>2
        <5>2. (\E fd \in FDs : peer[fd] = d) <=> \E fd \in FDs : peer'[fd] = d
          BY <2>1, <2>4, <4>2, Sizes
        <5> QED
          BY <1>1, <2>2, <5>1, <5>2 DEF Places
      <4> QED
        BY <4>1, <4>2
    <3> QED
      BY <3>3, <3>4, <3>5, <3>6 DEF Places
  <2>8. Round'
    <3>1. f \notin readfds
      BY <1>1, <2>1 DEF Round
    <3>2. ASSUME NEW s \in Slots, clients'[s] \in readfds
          PROVE  /\ clients[s] \in FDs \cap readfds /\ clients'[s] = clients[s]
                 /\ peer'[clients[s]] = peer[clients[s]]
      <4>1. s # t /\ clients'[s] = clients[s]
        BY <2>4, <3>1, <3>2
      <4>2. clients[s] \in FDs \cap readfds
        BY <1>1, <3>2, <4>1, Sizes DEF Types
      <4> QED
        BY <2>4, <3>1, <4>1, <4>2
    <3> QED
      BY <1>1, <2>2, <3>2 DEF Round, HasSomething
  <2> QED
    BY <2>5, <2>6, <2>7, <2>8 DEF Inv
<1> QED
  BY <1>2, <1>3, <1>4

(* recv(): a disconnect empties the slot and its descriptor; of a message  *)
(* or an error nothing in the tables changes.                              *)
LEMMA ServeInv ==
  ASSUME Inv, handle_client
  PROVE  Inv'
<1> DEFINE d == clients[i]
           c == peer[clients[i]]
<1>1. Types /\ Table /\ Places /\ Round /\ server = "clients" /\ server' = "clients"
  BY DEF Inv, handle_client, Next_client
<1>2. /\ i \in Slots /\ i' = i + 1 /\ i' \in 1..(MAX_CLIENTS_COUNT + 1)
      /\ d \in FDs \cap readfds
      /\ UNCHANGED <<readfds, backlog>>
  BY <1>1, Sizes DEF handle_client, Next_client, Ready, Types, Slots
<1>3. c \in Clients /\ \A fd \in FDs : peer[fd] = c <=> fd = d
  <2>1. c # none
    BY <1>1, <1>2 DEF Table
  <2> QED
    BY <1>1, <1>2, <2>1 DEF Types, Places
<1>4. CASE Disconnect(c)
  <2>1. /\ \A s \in Slots : clients'[s] = IF s = i THEN 0 ELSE clients[s]
        /\ \A fd \in FDs : peer'[fd] = IF fd = d THEN none ELSE peer[fd]
        /\ \A b \in Clients : conn'[b] = IF b = c THEN "none" ELSE conn[b]
        /\ wait' = wait
    BY <1>1, <1>2, <1>3, <1>4 DEF Disconnect, Types
  <2>2. Types'
    BY <1>1, <1>2, <1>3, <1>4 DEF Disconnect, Types
  <2>3. Table'
    BY <1>1, <1>2, <2>1, Sizes DEF Table
  <2>4. Places'
    <3>1. \A k \in 1..Len(backlog) : backlog[k] # c
      BY <1>1, <1>2 DEF Places
    <3>2. \A k \in 1..Len(backlog) : backlog[k] # none
      BY <1>1, Sizes, ElementOfSeq DEF Types
    <3> QED
      BY <1>1, <1>2, <1>3, <2>1, <3>1, <3>2, Sizes DEF Places
  <2>5. Round'
    <3>1. ASSUME NEW s \in Slots, i' <= s, clients'[s] \in readfds'
          PROVE  HasSomething(clients[s]) /\ clients'[s] = clients[s]
                 /\ clients[s] # d /\ clients[s] \in FDs
      <4>1. s # i /\ i <= s /\ clients'[s] = clients[s]
        BY <1>2, <2>1, <3>1, Sizes
      <4>2. clients[s] \in FDs
        BY <1>1, <1>2, <3>1, <4>1, Sizes DEF Types
      <4>3. clients[s] # d
        BY <1>1, <1>2, <4>1, <4>2, Sizes DEF Table
      <4> QED
        BY <1>1, <1>2, <3>1, <4>1, <4>2, <4>3 DEF Round
    <3>2. ASSUME NEW fd \in FDs, fd # d, peer[fd] # none, HasSomething(fd)
          PROVE  HasSomething(fd)'
      BY <1>1, <1>3, <2>1, <3>2 DEF Types, HasSomething
    <3> QED
      BY <1>1, <2>1, <3>1, <3>2 DEF Round, Table
  <2> QED
    BY <2>2, <2>3, <2>4, <2>5 DEF Inv
<1>5. CASE Receive(c) \/ Fail(c)
  <2>1. /\ UNCHANGED <<clients, peer>>
        /\ wait' \in [Clients -> 0..MaxSent]
        /\ conn' \in [Clients -> {"none", "open", "shut", "reset"}]
        /\ \A b \in Clients : conn'[b] # "none" <=> conn[b] # "none"
        /\ \A b \in Clients \ {c} : conn'[b] = conn[b] /\ wait'[b] = wait[b]
    <3>1. /\ wait[c] \in 0..MaxSent /\ MaxSent \in Nat /\ BUF_SIZE \in Nat
          /\ wait \in [Clients -> 0..MaxSent]
          /\ conn \in [Clients -> {"none", "open", "shut", "reset"}]
      BY <1>1, <1>3, ServerAssumption DEF Types
    <3>2. CASE Receive(c)
      <4>1. (IF wait[c] > BUF_SIZE THEN wait[c] - BUF_SIZE ELSE 0) \in 0..MaxSent
        BY <3>1
      <4> QED
        BY <1>3, <3>1, <3>2, <4>1 DEF Receive
    <3>3. CASE Fail(c)
      BY <1>3, <3>1, <3>3 DEF Fail
    <3> QED
      BY <1>5, <3>2, <3>3
  <2>2. Types' /\ Table' /\ Places'
    BY <1>1, <1>2, <2>1 DEF Types, Table, Places
  <2>3. Round'
    <3>1. ASSUME NEW s \in Slots, i' <= s, clients[s] \in readfds
          PROVE  HasSomething(clients[s])'
      <4>1. s # i /\ i <= s
        BY <1>2, <3>1, Sizes
      <4>2. clients[s] \in FDs /\ clients[s] # d
        BY <1>1, <1>2, <3>1, <4>1, Sizes DEF Types, Table
      <4>3. peer[clients[s]] \in Clients \ {c}
        BY <1>1, <1>3, <4>2 DEF Types, Table
      <4> QED
        BY <1>1, <2>1, <3>1, <4>1, <4>3 DEF Round, HasSomething
    <3> QED
      BY <1>1, <1>2, <2>1, <3>1 DEF Round
  <2> QED
    BY <2>2, <2>3 DEF Inv
<1> QED
  BY <1>4, <1>5 DEF handle_client

-----------------------------------------------------------------------------
(* A client's step makes nothing of what was readable unreadable.          *)
LEMMA ConnectInv ==
  ASSUME Inv, NEW c \in Clients, Connect(c)
  PROVE  Inv'
<1>1. Types /\ Table /\ Places /\ Round /\ conn[c] = "none"
  BY DEF Inv, Connect
<1>2. /\ UNCHANGED <<server, i, clients, peer, readfds, wait>>
      /\ backlog' = Append(backlog, c)
      /\ conn' \in [Clients -> {"none", "open", "shut", "reset"}]
      /\ \A b \in Clients : conn'[b] = IF b = c THEN "open" ELSE conn[b]
  BY <1>1 DEF Connect, Types
<1>3. /\ Len(backlog) \in Nat /\ backlog' \in Seq(Clients)
      /\ Len(backlog') = Len(backlog) + 1 /\ backlog'[Len(backlog) + 1] = c
      /\ \A k \in 1..Len(backlog) : backlog'[k] = backlog[k]
  BY <1>1, <1>2, QueueAppend DEF Types
<1>4. /\ \A fd \in FDs : peer[fd] # c
      /\ \A k \in 1..Len(backlog) : backlog[k] # c
  BY <1>1 DEF Places
<1>5. Types' /\ Table'
  BY <1>1, <1>2, <1>3 DEF Types, Table
<1>6. Places'
  <2>1. \A k \in 1..Len(backlog') : k = Len(backlog) + 1 \/ k \in 1..Len(backlog)
    BY <1>3
  <2>2. Len(backlog) + 1 \in 1..Len(backlog')
        /\ \A k \in 1..Len(backlog) : k \in 1..Len(backlog')
    BY <1>3
  <2> QED
    BY <1>1, <1>2, <1>3, <1>4, <2>1, <2>2 DEF Places
<1>7. Round'
  <2>1. backlog' # <<>>
    BY <1>3
  <2>2. \A fd \in FDs : peer[fd] # none /\ HasSomething(fd) => HasSomething(fd)'
    BY <1>1, <1>2, <1>4 DEF Types, HasSomething
  <2>3. \A s \in Slots : clients[s] \in readfds =>
           clients[s] \in FDs /\ peer[clients[s]] # none
    BY <1>1, Sizes DEF Types, Table
  <2> QED
    BY <1>1, <1>2, <2>1, <2>2, <2>3 DEF Round
<1> QED
  BY <1>5, <1>6, <1>7 DEF Inv

LEMMA ClientInv ==
  ASSUME Inv, NEW c \in Clients, Send(c) \/ Close(c) \/ Break(c)
  PROVE  Inv'
<1> USE DEF Send, Close, Break
<1>1. Types /\ (server # "exited" => Table /\ Places /\ Round)
  BY DEF Inv
<1>2. /\ UNCHANGED <<server, i, clients, peer, readfds, backlog>>
      /\ conn' \in [Clients -> {"none", "open", "shut", "reset"}]
      /\ \A b \in Clients : conn'[b] # "none" <=> conn[b] # "none"
  BY <1>1 DEF Types
<1>3. wait' \in [Clients -> 0..MaxSent]
  <2>1. wait[c] \in 0..MaxSent /\ MaxSent \in Nat /\ wait \in [Clients -> 0..MaxSent]
    BY <1>1, ServerAssumption DEF Types
  <2>2. 0 \in 0..MaxSent /\ (wait[c] < MaxSent => wait[c] + 1 \in 0..MaxSent)
    BY <2>1
  <2> QED
    BY <2>1, <2>2
<1>4. \A b \in Clients : wait[b] > 0 \/ conn[b] \in {"shut", "reset"} =>
                         wait'[b] > 0 \/ conn'[b] \in {"shut", "reset"}
  <2>1. \A b \in Clients : wait[b] \in Nat
    BY <1>1, ServerAssumption DEF Types
  <2>2. wait'[c] > 0 \/ conn'[c] \in {"shut", "reset"}
    BY <1>1, <2>1 DEF Types
  <2>3. \A b \in Clients \ {c} : wait'[b] = wait[b] /\ conn'[b] = conn[b]
    BY <1>1 DEF Types
  <2> QED
    BY <2>2, <2>3
<1>5. ASSUME server # "exited" PROVE Table' /\ Places' /\ Round'
  <2>1. Table' /\ Places'
    BY <1>1, <1>2, <1>5 DEF Table, Places
  <2>2. \A fd \in FDs : peer[fd] # none /\ HasSomething(fd) => HasSomething(fd)'
    BY <1>1, <1>2, <1>4 DEF Types, HasSomething
  <2>3. \A s \in Slots : clients[s] \in readfds =>
           clients[s] \in FDs /\ peer[clients[s]] # none
    <3>1. \A s \in Slots : clients[s] \in readfds => clients[s] \in FDs
      BY <1>1, Sizes DEF Types
    <3> QED
      BY <1>1, <1>5, <3>1 DEF Table
  <2> QED
    BY <1>1, <1>2, <1>5, <2>1, <2>2, <2>3 DEF Round
<1>6. Types'
  BY <1>1, <1>2, <1>3 DEF Types
<1> QED
  BY <1>2, <1>5, <1>6 DEF Inv

LEMMA NextInv == Inv /\ [Next]_vars => Inv'
<1> SUFFICES ASSUME Inv, [Next]_vars PROVE Inv'
  OBVIOUS
<1>1. CASE Server
  BY <1>1, SelectInv, WaitInv, AcceptInv, ServeInv DEF Server
<1>2. CASE perror_exit \/ OutsideMsg
  BY <1>2, ExitInv DEF perror_exit, OutsideMsg
<1>3. ASSUME NEW c \in Clients, Connect(c) \/ Send(c) \/ Close(c) \/ Break(c) PROVE Inv'
  BY <1>3, ConnectInv, ClientInv
<1>4. CASE UNCHANGED vars
  BY <1>4 DEF vars, Inv, Types, Table, Places, Round, HasSomething
<1> QED
  BY <1>1, <1>2, <1>3, <1>4 DEF Next

THEOREM Invariance == Spec => []Inv
<1> QED
  BY InitInv, NextInv, PTL DEF Spec

(* A connection's places, counted as TypeOK counts them.                   *)
LEMMA OnePlace ==
  ASSUME Types, Places, NEW c \in Clients
  PROVE  conn[c] # "none" <=>
           Cardinality({fd \in FDs : peer[fd] = c}) + Cardinality({k \in DOMAIN backlog : backlog[k] = c}) = 1
<1> DEFINE Behind == {fd \in FDs : peer[fd] = c}
           Queued == {k \in DOMAIN backlog : backlog[k] = c}
<1>1. DOMAIN backlog = 1..Len(backlog) /\ Len(backlog) \in Nat
  BY DEF Types
<1>2. /\ \A fd, gd \in Behind : fd = gd
      /\ \A j, k \in Queued : j = k
      /\ Behind = {} \/ Queued = {}
      /\ conn[c] # "none" <=> Behind # {} \/ Queued # {}
  <2>1. \A fd, gd \in Behind : fd = gd
    BY Sizes DEF Places
  <2>2. \A j, k \in Queued : j = k
    BY <1>1 DEF Places
  <2>3. Behind = {} \/ Queued = {}
    BY <1>1 DEF Places
  <2>4. conn[c] # "none" <=> Behind # {} \/ Queued # {}
    BY <1>1 DEF Places
  <2> QED
    BY <2>1, <2>2, <2>3, <2>4
<1> HIDE DEF Behind, Queued
<1>3. /\ Behind = {} => Cardinality(Behind) = 0
      /\ Queued = {} => Cardinality(Queued) = 0
  BY FS_EmptySet
<1>4. Behind # {} => Cardinality(Behind) = 1
  <2> SUFFICES ASSUME Behind # {} PROVE Cardinality(Behind) = 1
    OBVIOUS
  <2>1. PICK x \in Behind : TRUE
    OBVIOUS
  <2>2. Behind = {x}
    BY <1>2
  <2> QED
    BY <2>2, FS_Singleton
<1>5. Queued # {} => Cardinality(Queued) = 1
  <2> SUFFICES ASSUME Queued # {} PROVE Cardinality(Queued) = 1
    OBVIOUS
  <2>1. PICK x \in Queued : TRUE
    OBVIOUS
  <2>2. Queued = {x}
    BY <1>2
  <2> QED
    BY <2>2, FS_Singleton
<1>6. conn[c] # "none" <=> Cardinality(Behind) + Cardinality(Queued) = 1
  BY <1>2, <1>3, <1>4, <1>5
<1> QED
  BY <1>6 DEF Behind, Queued

(* Whoever connects, sends, closes or breaks off, each connection waits in *)
(* the listen queue or is behind one descriptor, and each descriptor is in *)
(* one slot; there is always a descriptor for a connection that has a slot.*)
THEOREM TypeCorrect == Spec => []TypeOK
<1>1. Inv => TypeOK
  <2> SUFFICES ASSUME Inv PROVE TypeOK
    OBVIOUS
  <2>1. Types /\ (server # "exited" => Table /\ Places)
    BY DEF Inv
  <2>2. server # "exited" => \A c \in Clients : conn[c] # "none" <=>
           Cardinality({fd \in FDs : peer[fd] = c}) + Cardinality({k \in DOMAIN backlog : backlog[k] = c}) = 1
    BY <2>1, OnePlace
  <2> QED
    BY <2>1, <2>2 DEF TypeOK, Types, Table
<1> QED
  BY <1>1, Invariance, PTL

(* recv() never blocks: select()'s answer is still right when the loop     *)
(* comes to a slot, whatever accept(), the slots before it and the clients *)
(* have done since.                                                        *)
THEOREM RecvIsReady == Spec => []RecvReady
<1>1. Inv => RecvReady
  <2> SUFFICES ASSUME Inv, server = "clients", i <= MAX_CLIENTS_COUNT, Ready
               PROVE  /\ clients[i] \in FDs /\ peer[clients[i]] # none
                      /\ Readable(clients[i])
    BY DEF RecvReady
  <2>1. Types /\ Table /\ Round
    BY DEF Inv
  <2>2. i \in Slots /\ i <= i
    BY <2>1, Sizes DEF Types, Slots
  <2>3. clients[i] \in FDs /\ clients[i] # master_sd
    BY <2>1, <2>2, Sizes DEF Ready, Types
  <2>4. HasSomething(clients[i])
    BY <2>1, <2>2 DEF Round, Ready
  <2> QED
    BY <2>1, <2>2, <2>3, <2>4 DEF Table, HasSomething, Readable
<1> QED
  BY <1>1, Invariance, PTL
=============================================================================
