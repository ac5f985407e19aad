----------------------------- MODULE SelectServer -----------------------------
(***************************************************************************)
(* os_02/lab_08/src/net: the server that serves its clients in rounds, one *)
(* select() per round, and the clients that connect to it and send their   *)
(* pid again and again.                                                    *)
(*                                                                         *)
(* External: TCP, with connections that wait in the listen queue, bytes    *)
(* that wait to be received (a byte stands for a message), an end of file  *)
(* behind them and resets, which drop them; a new descriptor is the lowest *)
(* that is free; accept() gives a connection that waited even if it has    *)
(* been reset since.                                                       *)
(***************************************************************************)
EXTENDS Naturals, Sequences, FiniteSets

CONSTANTS Clients, none,
          MAX_CLIENTS_COUNT,
          BUF_SIZE,          \* messages that fill msg
          MaxSent            \* bound: messages that wait on one connection

ASSUME ServerAssumption == /\ none \notin Clients
                           /\ MAX_CLIENTS_COUNT \in Nat \ {0}
                           /\ BUF_SIZE \in Nat \ {0} /\ MaxSent \in Nat

VARIABLES server,   \* pc of the server
          i,        \* index of its loop over clients
          clients,  \* [slot -> descriptor, or 0]
          peer,     \* [descriptor -> the client behind it, or none]
          readfds,
          backlog,  \* connections that wait for accept()
          conn,     \* [client -> its end of the connection]
          wait      \* [client -> its messages not yet received]

vars == <<server, i, clients, peer, readfds, backlog, conn, wait>>

Slots == 1..MAX_CLIENTS_COUNT
master_sd == 1
FDs == 2..(MAX_CLIENTS_COUNT + 2)  \* one more than there are slots

Init == /\ server = "setup" /\ i = 1
        /\ clients = [s \in Slots |-> 0]
        /\ peer = [fd \in FDs |-> none]
        /\ readfds = {} /\ backlog = <<>>
        /\ conn = [c \in Clients |-> "none"]
        /\ wait = [c \in Clients |-> 0]

-----------------------------------------------------------------------------
(* exit(): every descriptor is closed and every connection with it.        *)
Exit == /\ server' = "exited"
        /\ conn' = [c \in Clients |-> "none"]
        /\ wait' = [c \in Clients |-> 0]
        /\ peer' = [fd \in FDs |-> none]
        /\ backlog' = <<>>
        /\ UNCHANGED <<i, clients, readfds>>

Setup == /\ server = "setup" /\ server' = "select"
         /\ UNCHANGED <<i, clients, peer, readfds, backlog, conn, wait>>

(* socket(), bind(), listen(), select() or accept() fails.                 *)
perror_exit == server \in {"setup", "select", "accept"} /\ Exit

Readable(fd) == IF fd = master_sd THEN backlog # <<>>
                ELSE LET c == peer[fd] IN wait[c] > 0 \/ conn[c] \in {"shut", "reset"}

(* mutant: the loop that fills readfds begins with the second slot.        *)
Watched_from_second == {master_sd} \cup {clients[s] : s \in {t \in Slots \ {1} : clients[t] # 0}}

Watched == {master_sd} \cup {clients[s] : s \in {t \in Slots : clients[t] # 0}}

Select == /\ server = "select" /\ server' = "accept"
          /\ readfds' = {fd \in Watched : Readable(fd)}
          /\ readfds' # {}
          /\ UNCHANGED <<i, clients, peer, backlog, conn, wait>>

Free == {s \in Slots : clients[s] = 0}
Least(S) == CHOOSE n \in S : \A m \in S : n <= m
NewFD == Least({fd \in FDs : peer[fd] = none})

(* One connection is accepted in a round; the one for which there is no    *)
(* slot ends the server.                                                   *)
handle_connection ==
  /\ server = "accept"
  /\ IF master_sd \notin readfds
     THEN /\ server' = "clients" /\ i' = 1
          /\ UNCHANGED <<clients, peer, readfds, backlog, conn, wait>>
     ELSE IF Free = {}
     THEN Exit
     ELSE /\ server' = "clients" /\ i' = 1
          /\ clients' = [clients EXCEPT ![Least(Free)] = NewFD]
          /\ peer' = [peer EXCEPT ![NewFD] = Head(backlog)]
          /\ backlog' = Tail(backlog)
          /\ UNCHANGED <<readfds, conn, wait>>

(* mutant: every client in the table is served.                            *)
Ready_any == clients[i] # 0

(* What the loop asks of clients[i]: in readfds, which select() made       *)
(* before this round's accept().                                           *)
Ready == clients[i] # 0 /\ clients[i] \in readfds

Next_client == i' = i + 1 /\ server' = server

Skip == /\ server = "clients" /\ i <= MAX_CLIENTS_COUNT /\ ~Ready
        /\ Next_client
        /\ UNCHANGED <<clients, peer, readfds, backlog, conn, wait>>

(* mutant: the descriptor is closed and the slot kept.                     *)
Disconnect_keeps_slot(c) ==
  /\ wait[c] = 0 /\ conn[c] = "shut"
  /\ peer' = [peer EXCEPT ![clients[i]] = none]
  /\ conn' = [conn EXCEPT ![c] = "none"]
  /\ UNCHANGED <<clients, wait>>

(* recv() = 0.                                                             *)
Disconnect(c) == /\ wait[c] = 0 /\ conn[c] = "shut"
                 /\ peer' = [peer EXCEPT ![clients[i]] = none]
                 /\ clients' = [clients EXCEPT ![i] = 0]
                 /\ conn' = [conn EXCEPT ![c] = "none"]
                 /\ UNCHANGED wait

(* recv() > 0.                                                             *)
Receive(c) == /\ wait[c] > 0
              /\ wait' = [wait EXCEPT ![c] = IF @ > BUF_SIZE THEN @ - BUF_SIZE ELSE 0]
              /\ UNCHANGED <<clients, peer, conn>>

(* recv() = -1, once: the end of file follows.                             *)
Fail(c) == /\ conn[c] = "reset"
           /\ conn' = [conn EXCEPT ![c] = "shut"]
           /\ UNCHANGED <<clients, peer, wait>>

handle_client == /\ server = "clients" /\ i <= MAX_CLIENTS_COUNT /\ Ready
                 /\ LET c == peer[clients[i]]
                    IN Disconnect(c) \/ Receive(c) \/ Fail(c)
                 /\ Next_client
                 /\ UNCHANGED <<readfds, backlog>>

(* msg[bytes] is outside msg after a failed recv() and after one that      *)
(* fills it: the server goes on, as above, or dies of it.                  *)
OutsideMsg == /\ server = "clients" /\ i <= MAX_CLIENTS_COUNT /\ Ready
              /\ LET c == peer[clients[i]] IN conn[c] = "reset" \/ wait[c] >= BUF_SIZE
              /\ Exit

EndOfRound == /\ server = "clients" /\ i > MAX_CLIENTS_COUNT
              /\ server' = "select"
              /\ UNCHANGED <<i, clients, peer, readfds, backlog, conn, wait>>

Server == Setup \/ Select \/ handle_connection \/ Skip \/ handle_client \/ EndOfRound

-----------------------------------------------------------------------------
(* client.c.  A client that has gone may be started again.                 *)
Connect(c) == /\ conn[c] = "none" /\ server \notin {"setup", "exited"}
              /\ conn' = [conn EXCEPT ![c] = "open"]
              /\ backlog' = Append(backlog, c)
              /\ UNCHANGED <<server, i, clients, peer, readfds, wait>>

Send(c) == /\ conn[c] = "open" /\ wait[c] < MaxSent
           /\ wait' = [wait EXCEPT ![c] = @ + 1]
           /\ UNCHANGED <<server, i, clients, peer, readfds, backlog, conn>>

(* The client ends, or its connection breaks.                              *)
Close(c) == /\ conn[c] = "open" /\ conn' = [conn EXCEPT ![c] = "shut"]
            /\ UNCHANGED <<server, i, clients, peer, readfds, backlog, wait>>

Break(c) == /\ conn[c] = "open" /\ conn' = [conn EXCEPT ![c] = "reset"]
            /\ wait' = [wait EXCEPT ![c] = 0]
            /\ UNCHANGED <<server, i, clients, peer, readfds, backlog>>

Next == \/ Server \/ perror_exit \/ OutsideMsg
        \/ \E c \in Clients : Connect(c) \/ Send(c) \/ Close(c) \/ Break(c)

Spec == Init /\ [][Next]_vars
FairSpec == Spec /\ WF_vars(Server)

-----------------------------------------------------------------------------
(* Besides the types: each connection is in the listen queue or behind one *)
(* descriptor, and each descriptor in one slot, as long as the server runs.*)
TypeOK ==
  /\ server \in {"setup", "select", "accept", "clients", "exited"}
  /\ i \in 1..(MAX_CLIENTS_COUNT + 1)
  /\ clients \in [Slots -> FDs \cup {0}]
  /\ peer \in [FDs -> Clients \cup {none}]
  /\ readfds \subseteq FDs \cup {master_sd}
  /\ conn \in [Clients -> {"none", "open", "shut", "reset"}]
  /\ wait \in [Clients -> 0..MaxSent]
  /\ server # "exited" =>
       /\ \A fd \in FDs : peer[fd] # none <=> \E s \in Slots : clients[s] = fd
       /\ \A s, t \in Slots : clients[s] = clients[t] /\ clients[s] # 0 => s = t
       /\ \A c \in Clients : conn[c] # "none" <=>
             Cardinality({fd \in FDs : peer[fd] = c}) + Cardinality({k \in DOMAIN backlog : backlog[k] = c}) = 1

(* The server never sleeps in recv() while others wait for it: a client it *)
(* turns to has something for it, also one that got its slot, or another's *)
(* old descriptor, in this round.                                          *)
RecvReady ==
  server = "clients" /\ i <= MAX_CLIENTS_COUNT /\ Ready =>
     clients[i] \in FDs /\ peer[clients[i]] # none /\ Readable(clients[i])

(* A message sent is received, whatever the other clients do, unless the   *)
(* connection breaks or the server ends.                                   *)
MessagesRead == \A c \in Clients : wait[c] > 0 ~> wait[c] = 0
=============================================================================
