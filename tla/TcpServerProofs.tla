-------------------------- MODULE TcpServerProofs --------------------------
(***************************************************************************)
(* Proofs about the connection table of [tcpserver].  A step that accesses *)
(* memory outside the table (ub) is the last one the model takes, so every *)
(* action starts in a state where the table is in order; the inductive     *)
(* invariant says what "in order" has to mean for the shift of             *)
(* tcpserver_disconnect, the copy of tcpserver_send_bytes_clients and the  *)
(* default target to keep their promises together.                         *)
(***************************************************************************)
EXTENDS TcpServer, FiniteSetTheorems, SequenceTheorems, TLAPS

(* The object is alive and its memory intact.                              *)
Sound == ~ub /\ ~freed

Rows == 0 .. x_nconnections - 1

(* The loop variable is a record; outside a loop it is NoLoop, and a       *)
(* deleted object is in no loop.                                           *)
LoopInv ==
  /\ loop \in [op : {"none", "send", "disconnect"},
               snap : Seq(Clients \cup {NoClient}), pos : Nat]
  /\ loop.op = "none" => loop = NoLoop
  /\ freed => loop = NoLoop

(* The table: its rows are clients in the order of their acceptance, with  *)
(* distinct sockets, none of them the listening one.                       *)
TableInv ==
  Sound =>
    /\ x_nconnections <= x_maxconnections
    /\ \A i \in Rows : x_sr[i] \in Clients
    /\ \A i \in Slots : i >= x_nconnections => x_sr[i] = NoClient
    /\ \A i, j \in Rows : i < j => x_sr[i].id < x_sr[j].id
    /\ \A i \in Rows : x_sr[i].id <= accepted
    /\ \A i, j \in Rows : x_sr[i].fd = x_sr[j].fd => i = j
    /\ \A i \in Rows : x_sr[i].fd # x_connectsocket

(* A socket is open if and only if it is the listening one or some row's.  *)
SocketInv ==
  Sound =>
    /\ polled = openfds
    /\ \A f \in Fds : f \in openfds <=>
         (f = x_connectsocket \/ \E i \in Rows : x_sr[i].fd = f)

(* Deleting the object leaves no row and no socket.                        *)
FreedInv ==
  freed => /\ \A i \in Slots : x_sr[i] = NoClient
           /\ openfds = {} /\ polled = {}

(* A connected default target is a row's socket, and only that row's.      *)
TargetInv ==
  Sound =>
    /\ chosen <= accepted
    /\ \A j \in Rows : x_sr[j].id = chosen =>
         x_sr[j].fd \in {x_defaulttarget, -x_defaulttarget}

(* Client c is among those that took the message.                          *)
TookIn(g, c) == \E k \in 1 .. Len(g) : g[k] = c

(* A broadcast at position pos of its copy: the rest of the copy is still  *)
(* in the table, and what precedes pos has taken the message if and only   *)
(* if it is still connected.                                               *)
CopyInv ==
  (~ub /\ loop.op = "send") =>
    /\ loop.pos >= 1
    /\ \A i \in 1 .. Len(loop.snap) :
         /\ (i >= loop.pos /\ loop.snap[i] # NoClient) =>
              \E k \in Rows : x_sr[k] = loop.snap[i]
         /\ (i < loop.pos /\ loop.snap[i] # NoClient) =>
              (TookIn(got, loop.snap[i].id) <=> loop.snap[i].id \in Connected)
         /\ \A j \in 1 .. Len(loop.snap) :
              (i < j /\ loop.snap[i] # NoClient /\ loop.snap[j] # NoClient) =>
                loop.snap[i].id < loop.snap[j].id
    /\ \A k \in 1 .. Len(got) :
         \E i \in 1 .. Len(loop.snap) :
           i < loop.pos /\ loop.snap[i] # NoClient /\ loop.snap[i].id = got[k]
    /\ \A j, k \in 1 .. Len(got) : j < k => got[j] < got[k]

(* The types of the table, the sockets and the flags, and of the rest.     *)
TableTypes ==
  /\ x_sr \in [Slots -> Clients \cup {NoClient}]
  /\ x_nconnections \in 0 .. MaxSlots
  /\ x_maxconnections \in 1 .. MaxSlots
  /\ x_accepting \in BOOLEAN
  /\ x_connectsocket \in Fds \cup {-1}
  /\ x_port \in Ports \cup {-1}
  /\ openfds \subseteq Fds /\ polled \subseteq Fds
  /\ stopped \subseteq ClientIds
  /\ ub \in BOOLEAN /\ freed \in BOOLEAN
  /\ accepted \in 0 .. MaxClients

MessageTypes ==
  /\ x_defaulttarget \in Int
  /\ chosen \in 0 .. MaxClients
  /\ got \in Seq(ClientIds)

(* The part of the invariant that only the table and the sockets concern.  *)
TableCore == TableTypes /\ TableInv /\ SocketInv /\ FreedInv

ServerInv ==
  /\ TypeOK /\ LoopInv /\ TableInv /\ SocketInv /\ FreedInv /\ TargetInv
  /\ CopyInv

----------------------------------------------------------------------------
(* What is known of a client, and that no client is NoClient.              *)
LEMMA ClientFields ==
  ASSUME NEW c \in Clients
  PROVE  /\ c.id \in ClientIds /\ c.id \in Nat /\ c.id # 0
         /\ c.fd \in Fds /\ c.fd \in Nat /\ c.fd # 0
         /\ c # NoClient
<1>1. c.id \in ClientIds /\ c.fd \in Fds
  BY DEF Clients
<1>2. c.id \in Nat /\ c.id # 0
  BY <1>1, BoundAssumption DEF ClientIds
<1>3. c # NoClient
  BY <1>2 DEF NoClient
<1> QED
  BY <1>1, <1>2, <1>3, FdsAssumption

(* The rows of the table are slots of it.                                  *)
LEMMA RowsAreSlots ==
  ASSUME TypeOK
  PROVE  /\ Rows \subseteq Slots /\ Rows \subseteq Nat
         /\ x_nconnections \in Nat /\ x_maxconnections \in Nat
         /\ \A k : k \in Rows <=> k \in Nat /\ k < x_nconnections
BY CapacityAssumption DEF TypeOK, Rows, Slots

(* tcpserver_socket2index finds the row of a socket, and -1 for others.    *)
LEMMA Socket2IndexFinds ==
  ASSUME TypeOK, TableInv, Sound, NEW fd
  PROVE  /\ Socket2Index(fd) \in Int
         /\ Socket2Index(fd) >= 0 =>
              Socket2Index(fd) \in Rows /\ x_sr[Socket2Index(fd)].fd = fd
         /\ Socket2Index(fd) < 0 => \A i \in Rows : x_sr[i].fd # fd
         /\ \A i \in Rows : x_sr[i].fd = fd => Socket2Index(fd) = i
<1> DEFINE hits == {i \in Rows : x_sr[i].fd = fd}
<1>1. Socket2Index(fd) =
        IF hits = {} THEN -1 ELSE CHOOSE i \in hits : \A j \in hits : i <= j
  BY DEF Socket2Index, Rows
<1>2. CASE hits = {}
  BY <1>1, <1>2
<1>3. CASE hits # {}
  <2>1. PICK r \in hits : TRUE
    BY <1>3
  <2>2. \A j \in hits : j = r
    BY <2>1 DEF TableInv
  <2>3. r \in Nat
    BY <2>1, RowsAreSlots
  <2>4. \A j \in hits : r <= j
    BY <2>2, <2>3
  <2>5. (CHOOSE i \in hits : \A j \in hits : i <= j) = r
    BY <2>1, <2>2, <2>4
  <2>6. Socket2Index(fd) = r
    BY <1>1, <1>3, <2>5
  <2> QED
    BY <2>1, <2>2, <2>3, <2>6
<1> QED
  BY <1>2, <1>3

(* tcpserver_fixindex yields a row or -1.                                  *)
LEMMA FixIndexFinds ==
  ASSUME TypeOK, NEW k \in Nat, FixIndex(k) >= 0
  PROVE  FixIndex(k) \in Rows
<1>1. x_nconnections \in Nat
  BY RowsAreSlots
<1>2. k \in 1 .. x_nconnections /\ FixIndex(k) = k - 1
  BY <1>1 DEF FixIndex
<1> QED
  BY <1>1, <1>2 DEF Rows

----------------------------------------------------------------------------
(* tcpserver_disconnect: as long as the shift stays inside the table it    *)
(* takes out one row and moves those behind it down by one.                *)
LEMMA Shift ==
  ASSUME TypeOK, TableInv, Sound, NEW i \in Rows, Disconnect(i), ~ub'
  PROVE  /\ x_nconnections' = x_nconnections - 1
         /\ x_nconnections' \in Nat
         /\ \A k \in Rows' : /\ k \in Rows /\ k + 1 \in Rows
                             /\ k < i => x_sr'[k] = x_sr[k]
                             /\ k >= i => x_sr'[k] = x_sr[k + 1]
         /\ \A k \in Slots : k >= x_nconnections' => x_sr'[k] = NoClient
<1>0. ~(x_nconnections + 1 >= x_maxconnections)
  BY Zenon DEF Disconnect
<1>1. x_nconnections + 1 < x_maxconnections
  BY <1>0, RowsAreSlots
<1>2. /\ x_nconnections + 1 < MaxSlots /\ MaxSlots \in Nat
      /\ i \in Nat /\ i < x_nconnections /\ x_nconnections \in Nat
  BY <1>1, RowsAreSlots, CapacityAssumption DEF TypeOK
<1>3. x_nconnections' = x_nconnections - 1 /\ x_nconnections' \in Nat
  BY <1>2 DEF Disconnect
<1>4. \A k \in Slots : x_sr'[k] =
        IF k \in i .. x_nconnections - 1 /\ k + 1 \in Slots THEN x_sr[k + 1]
        ELSE IF k = x_nconnections + 1 THEN NoClient ELSE x_sr[k]
  BY DEF Disconnect
<1>5. ASSUME NEW k \in Rows'
      PROVE  /\ k \in Rows /\ k + 1 \in Rows /\ k \in Nat
             /\ k \in Slots /\ k + 1 \in Slots
  BY <1>2, <1>3 DEF Rows, Slots
<1>6. ASSUME NEW k \in Rows'
      PROVE  /\ k < i => x_sr'[k] = x_sr[k]
             /\ k >= i => x_sr'[k] = x_sr[k + 1]
  BY <1>2, <1>3, <1>4, <1>5 DEF Rows
<1>7. ASSUME NEW k \in Slots, k >= x_nconnections'
      PROVE  x_sr'[k] = NoClient
  <2>1. k \in Nat /\ k >= x_nconnections - 1
    BY <1>3, <1>7 DEF Slots
  <2>2. x_nconnections \in Slots
    BY <1>2 DEF Slots
  <2>3. \A j \in Slots : j >= x_nconnections => x_sr[j] = NoClient
    BY DEF TableInv
  <2>4. CASE k = x_nconnections - 1
    <3>1. x_sr'[k] = x_sr[x_nconnections]
      BY <1>2, <1>4, <2>1, <2>2, <2>4
    <3> QED
      BY <1>2, <2>2, <2>3, <3>1
  <2>5. CASE k # x_nconnections - 1
    <3>1. k >= x_nconnections
      BY <2>1, <2>5, <1>2
    <3>2. k \notin i .. x_nconnections - 1
      BY <3>1, <2>1, <1>2
    <3> QED
      BY <1>4, <3>1, <3>2, <2>3
  <2> QED
    BY <2>4, <2>5
<1> QED
  BY <1>3, <1>5, <1>6, <1>7

(* The same, as what became of each row: nothing but row i is lost, and    *)
(* the others keep their order.                                            *)
LEMMA Survivors ==
  ASSUME TypeOK, TableInv, Sound, NEW i \in Rows, Disconnect(i), ~ub'
  PROVE  /\ \A k \in Rows' : \E j \in Rows :
              j # i /\ j >= k /\ x_sr'[k] = x_sr[j]
         /\ \A j \in Rows : j # i => \E k \in Rows' : x_sr'[k] = x_sr[j]
         /\ \A k, m \in Rows' : k < m => \E a, b \in Rows :
              a < b /\ x_sr'[k] = x_sr[a] /\ x_sr'[m] = x_sr[b]
<1>1. /\ i \in Nat /\ i < x_nconnections /\ x_nconnections \in Nat
      /\ \A k : k \in Rows <=> k \in Nat /\ k < x_nconnections
  BY RowsAreSlots
<1>2. \A k : k \in Rows' <=> k \in Nat /\ k < x_nconnections - 1
  BY <1>1, Shift DEF Rows
<1>3. \A k \in Rows' : /\ k \in Rows /\ k + 1 \in Rows
                       /\ k < i => x_sr'[k] = x_sr[k]
                       /\ k >= i => x_sr'[k] = x_sr[k + 1]
  BY Shift
<1>4. \A k \in Rows' : \E j \in Rows :
         j # i /\ j >= k /\ x_sr'[k] = x_sr[j]
  <2> SUFFICES ASSUME NEW k \in Rows'
               PROVE  \E j \in Rows : j # i /\ j >= k /\ x_sr'[k] = x_sr[j]
    OBVIOUS
  <2>1. CASE k < i
    BY <1>1, <1>2, <1>3, <2>1
  <2>2. CASE k >= i
    BY <1>1, <1>2, <1>3, <2>2
  <2> QED
    BY <1>1, <1>2, <2>1, <2>2
<1>5. \A j \in Rows : j # i => \E k \in Rows' : x_sr'[k] = x_sr[j]
  <2> SUFFICES ASSUME NEW j \in Rows, j # i
               PROVE  \E k \in Rows' : x_sr'[k] = x_sr[j]
    OBVIOUS
  <2>1. CASE j < i
    <3>1. j \in Rows'
      BY <1>1, <1>2, <2>1
    <3> QED
      BY <1>3, <3>1, <2>1
  <2>2. CASE j > i
    <3>1. j - 1 \in Rows' /\ j - 1 >= i /\ (j - 1) + 1 = j
      BY <1>1, <1>2, <2>2
    <3>2. x_sr'[j - 1] = x_sr[(j - 1) + 1]
      BY <1>3, <3>1
    <3> QED
      BY <3>1, <3>2
  <2> QED
    BY <1>1, <2>1, <2>2
<1>6. \A k, m \in Rows' : k < m => \E a, b \in Rows :
         a < b /\ x_sr'[k] = x_sr[a] /\ x_sr'[m] = x_sr[b]
  <2> SUFFICES ASSUME NEW k \in Rows', NEW m \in Rows', k < m
               PROVE  \E a, b \in Rows :
                        a < b /\ x_sr'[k] = x_sr[a] /\ x_sr'[m] = x_sr[b]
    OBVIOUS
  <2>1. k \in Nat /\ m \in Nat /\ k + 1 < m + 1 /\ k < m + 1
    BY <1>2
  <2>2. CASE m < i
    BY <1>1, <1>3, <2>1, <2>2
  <2>3. CASE k < i /\ m >= i
    BY <1>3, <2>1, <2>3
  <2>4. CASE k >= i
    <3>1. m >= i
      BY <1>1, <2>1, <2>4
    <3> QED
      BY <1>3, <2>1, <2>4, <3>1
  <2> QED
    BY <1>1, <2>1, <2>2, <2>3, <2>4
<1> QED
  BY <1>4, <1>5, <1>6

----------------------------------------------------------------------------
(* The type invariant, from the types of its two halves.                   *)
LEMMA TypesJoin ==
  ASSUME TableTypes, MessageTypes, LoopInv
  PROVE  TypeOK
BY DEF TableTypes, MessageTypes, LoopInv, TypeOK

(* The types, those of the table apart from those of the messages.         *)
LEMMA TypesSplit ==
  ASSUME TypeOK
  PROVE  TableTypes /\ MessageTypes
<1>1. TableTypes
  BY Zenon DEF TypeOK, TableTypes
<1>2. MessageTypes
  BY Zenon DEF TypeOK, MessageTypes
<1> QED
  BY <1>1, <1>2

(* Disconnecting a client keeps the types, even where the shift leaves the *)
(* table.                                                                  *)
LEMMA DisconnectTypes ==
  ASSUME TypeOK, NEW i \in Rows, Disconnect(i)
  PROVE  TableTypes'
<1>1. x_sr' \in [Slots -> Clients \cup {NoClient}]
  <2>1. x_sr \in [Slots -> Clients \cup {NoClient}]
    BY DEF TypeOK
  <2>2. x_sr' = [k \in Slots |->
       IF k \in i .. x_nconnections - 1 /\ k + 1 \in Slots THEN x_sr[k + 1]
       ELSE IF k = x_nconnections + 1 THEN NoClient ELSE x_sr[k]]
    BY DEF Disconnect
  <2>3. \A k \in Slots :
       (IF k \in i .. x_nconnections - 1 /\ k + 1 \in Slots THEN x_sr[k + 1]
        ELSE IF k = x_nconnections + 1 THEN NoClient ELSE x_sr[k])
         \in Clients \cup {NoClient}
    BY <2>1
  <2> QED
    BY <2>2, <2>3
<1>2. x_nconnections' \in 0 .. MaxSlots
  BY RowsAreSlots, CapacityAssumption DEF Disconnect, TypeOK
<1>3. openfds' \subseteq Fds /\ polled' \subseteq Fds /\ stopped' \subseteq ClientIds
  BY DEF Disconnect, SocketReceiverFree, TypeOK
<1>4. ub' \in BOOLEAN
  <2>1. ub' = (x_nconnections + 1 >= x_maxconnections)
    BY Zenon DEF Disconnect
  <2>2. (x_nconnections + 1 >= x_maxconnections) \in BOOLEAN
    BY SMT
  <2> QED
    BY Zenon, <2>1, <2>2
<1>5. /\ x_maxconnections' \in 1 .. MaxSlots
      /\ x_accepting' \in BOOLEAN
      /\ x_connectsocket' \in Fds \cup {-1}
      /\ x_port' \in Ports \cup {-1}
      /\ freed' \in BOOLEAN
      /\ accepted' \in 0 .. MaxClients
  BY Zenon DEF Disconnect, TypeOK
<1> QED
  BY Zenon, <1>1, <1>2, <1>3, <1>4, <1>5 DEF TableTypes

(* Disconnecting a client keeps the table in order.                        *)
LEMMA DisconnectTable ==
  ASSUME TypeOK, TableInv, Sound, NEW i \in Rows, Disconnect(i)
  PROVE  TableInv'
<1> SUFFICES ASSUME ~ub'
             PROVE  TableInv'
  BY Zenon DEF TableInv, Sound
<1>1. /\ \A k \in Rows' : \E j \in Rows :
            j # i /\ j >= k /\ x_sr'[k] = x_sr[j]
      /\ \A k, m \in Rows' : k < m => \E a, b \in Rows :
            a < b /\ x_sr'[k] = x_sr[a] /\ x_sr'[m] = x_sr[b]
  BY Survivors
<1>2. /\ \A r \in Rows : x_sr[r] \in Clients
      /\ \A r, j \in Rows : r < j => x_sr[r].id < x_sr[j].id
      /\ \A r \in Rows : x_sr[r].id <= accepted
      /\ \A r, j \in Rows : x_sr[r].fd = x_sr[j].fd => r = j
      /\ \A r \in Rows : x_sr[r].fd # x_connectsocket
      /\ x_nconnections <= x_maxconnections
  BY DEF TableInv
<1>3. /\ x_maxconnections' = x_maxconnections
      /\ x_connectsocket' = x_connectsocket /\ accepted' = accepted
  BY DEF Disconnect
<1>4. x_nconnections' <= x_maxconnections'
  BY <1>2, <1>3, Shift, RowsAreSlots
<1>5. \A k \in Rows' : x_sr'[k] \in Clients
  BY <1>1, <1>2
<1>6. \A k \in Slots : k >= x_nconnections' => x_sr'[k] = NoClient
  BY Shift
<1>7. \A k, m \in Rows' : k < m => x_sr'[k].id < x_sr'[m].id
  BY <1>1, <1>2
<1>8. \A k \in Rows' : x_sr'[k].id <= accepted'
  BY <1>1, <1>2, <1>3
<1>9. ASSUME NEW k \in Rows', NEW m \in Rows', x_sr'[k].fd = x_sr'[m].fd
      PROVE  k = m
  <2>1. k \in Nat /\ m \in Nat
    BY Shift, RowsAreSlots
  <2>2. ASSUME NEW c \in Rows', NEW d \in Rows', c < d
        PROVE  x_sr'[c].fd # x_sr'[d].fd
    <3>1. PICK a \in Rows, b \in Rows :
            a < b /\ x_sr'[c] = x_sr[a] /\ x_sr'[d] = x_sr[b]
      BY <1>1, <2>2
    <3>2. a # b
      BY <3>1, RowsAreSlots
    <3> QED
      BY <1>2, <3>1, <3>2
  <2> QED
    BY <2>1, <2>2, <1>9
<1>10. \A k \in Rows' : x_sr'[k].fd # x_connectsocket'
  BY <1>1, <1>2, <1>3
<1> QED
  BY <1>4, <1>5, <1>6, <1>7, <1>8, <1>9, <1>10 DEF TableInv

(* Disconnecting a client closes its socket and no other.                  *)
LEMMA DisconnectSockets ==
  ASSUME TypeOK, TableInv, SocketInv, Sound, NEW i \in Rows, Disconnect(i)
  PROVE  SocketInv'
<1> SUFFICES ASSUME ~ub'
             PROVE  SocketInv'
  BY Zenon DEF SocketInv, Sound
<1>1. /\ openfds' = openfds \ {x_sr[i].fd}
      /\ polled' = polled \ {x_sr[i].fd}
      /\ x_connectsocket' = x_connectsocket
  BY DEF Disconnect, SocketReceiverFree
<1>2. /\ \A k \in Rows' : \E j \in Rows : j # i /\ x_sr'[k] = x_sr[j]
      /\ \A j \in Rows : j # i => \E k \in Rows' : x_sr'[k] = x_sr[j]
  BY Survivors
<1>3. /\ \A r, j \in Rows : x_sr[r].fd = x_sr[j].fd => r = j
      /\ x_sr[i].fd # x_connectsocket
  BY DEF TableInv
<1>4. /\ polled = openfds
      /\ \A f \in Fds : f \in openfds <=>
            (f = x_connectsocket \/ \E j \in Rows : x_sr[j].fd = f)
  BY DEF SocketInv
<1>5. ASSUME NEW f \in Fds, f \in openfds'
      PROVE  f = x_connectsocket' \/ \E k \in Rows' : x_sr'[k].fd = f
  BY <1>1, <1>2, <1>4, <1>5
<1>6. ASSUME NEW f \in Fds, NEW k \in Rows', x_sr'[k].fd = f
      PROVE  f \in openfds'
  <2>1. PICK j \in Rows : j # i /\ x_sr'[k] = x_sr[j]
    BY <1>2
  <2> QED
    BY <1>1, <1>3, <1>4, <1>6, <2>1
<1>7. ASSUME NEW f \in Fds, f = x_connectsocket'
      PROVE  f \in openfds'
  BY <1>1, <1>3, <1>4, <1>7
<1>8. polled' = openfds'
  BY <1>1, <1>4
<1> QED
  BY <1>5, <1>6, <1>7, <1>8 DEF SocketInv

(* Disconnecting a client takes its identity, and no other, out of the     *)
(* connected ones.                                                         *)
LEMMA DisconnectConnected ==
  ASSUME TypeOK, TableInv, Sound, NEW i \in Rows, Disconnect(i), ~ub'
  PROVE  \A c : c \in Connected' <=> (c \in Connected /\ c # x_sr[i].id)
<1>1. /\ \A k \in Rows' : \E j \in Rows : j # i /\ x_sr'[k] = x_sr[j]
      /\ \A j \in Rows : j # i => \E k \in Rows' : x_sr'[k] = x_sr[j]
  BY Survivors
<1>2. \A j \in Rows : j # i => x_sr[j].id # x_sr[i].id
  <2> SUFFICES ASSUME NEW j \in Rows, j # i
               PROVE  x_sr[j].id # x_sr[i].id
    OBVIOUS
  <2>1. j < i \/ i < j
    BY RowsAreSlots
  <2>2. x_sr[j].id \in Nat /\ x_sr[i].id \in Nat
    BY ClientFields DEF TableInv
  <2> QED
    BY <2>1, <2>2 DEF TableInv
<1>3. /\ Connected = {x_sr[j].id : j \in Rows}
      /\ Connected' = {x_sr'[j].id : j \in Rows'}
  BY DEF Connected, Rows
<1> QED
  BY <1>1, <1>2, <1>3

(* Disconnecting a client leaves the default target where it is.           *)
LEMMA DisconnectTarget ==
  ASSUME TypeOK, TableInv, TargetInv, Sound, NEW i \in Rows, Disconnect(i),
         x_defaulttarget' = x_defaulttarget, chosen' = chosen
  PROVE  TargetInv'
<1> SUFFICES ASSUME ~ub'
             PROVE  TargetInv'
  BY Zenon DEF TargetInv, Sound
<1>1. \A k \in Rows' : \E j \in Rows : j # i /\ x_sr'[k] = x_sr[j]
  BY Survivors
<1>2. accepted' = accepted
  BY DEF Disconnect
<1> QED
  BY <1>1, <1>2 DEF TargetInv

(* The three together.                                                     *)
LEMMA DisconnectCore ==
  ASSUME TypeOK, TableCore, Sound, NEW i \in Rows, Disconnect(i)
  PROVE  TableCore' /\ ~freed'
<1>1. TableTypes' /\ TableInv' /\ SocketInv'
  BY DisconnectTypes, DisconnectTable, DisconnectSockets DEF TableCore
<1>2. ~freed'
  BY DEF Disconnect, Sound
<1> QED
  BY <1>1, <1>2 DEF TableCore, FreedInv

(* What an action that leaves the table and the sockets alone keeps.       *)
LEMMA TableUnchanged ==
  ASSUME TableCore, UNCHANGED <<tableVars, netVars, stopped, ub, freed, accepted>>
  PROVE  TableCore' /\ Connected' = Connected /\ Rows' = Rows
<1>1. Rows' = Rows /\ Connected' = Connected
  BY DEF tableVars, Rows, Connected
<1>2. Sound' = Sound
  BY DEF Sound
<1>3. TableTypes'
  BY DEF TableCore, TableTypes, tableVars, netVars
<1>4. TableInv'
  BY <1>1, <1>2 DEF TableCore, TableInv, tableVars, netVars
<1>5. SocketInv' /\ FreedInv'
  BY <1>1, <1>2 DEF TableCore, SocketInv, FreedInv, tableVars, netVars
<1> QED
  BY <1>1, <1>3, <1>4, <1>5 DEF TableCore

(* A step that touches neither the table nor the target keeps what is      *)
(* known of the target.                                                    *)
LEMMA TargetUnchanged ==
  ASSUME TargetInv,
         UNCHANGED <<tableVars, ub, freed, accepted, x_defaulttarget, chosen>>
  PROVE  TargetInv'
BY DEF TargetInv, Sound, Rows, tableVars

----------------------------------------------------------------------------
(* What the invariant says of a state that a message finds.                *)
LEMMA ReadyFacts ==
  ASSUME ServerInv, Ready
  PROVE  /\ TypeOK /\ TableCore /\ TableInv /\ SocketInv /\ TargetInv
         /\ MessageTypes /\ Sound /\ loop = NoLoop
<1>1. TypeOK /\ TableTypes /\ MessageTypes
  BY TypesSplit DEF ServerInv
<1>2. Sound /\ loop = NoLoop
  BY Zenon DEF Ready, Sound
<1> QED
  BY <1>1, <1>2 DEF ServerInv, TableCore

(* A step that ends outside any loop has only the table, the sockets and   *)
(* the target to answer for.                                               *)
LEMMA OutsideLoops ==
  ASSUME TableCore', TargetInv', MessageTypes', loop' = NoLoop
  PROVE  ServerInv'
<1>1. /\ loop'.op = "none" /\ loop'.snap = <<>> /\ loop'.pos = 0
      /\ loop' \in [op : {"none", "send", "disconnect"},
                    snap : Seq(Clients \cup {NoClient}), pos : Nat]
  BY DEF NoLoop
<1>2. LoopInv'
  BY <1>1 DEF LoopInv
<1>3. CopyInv'
  BY <1>1 DEF CopyInv
<1>4. TypeOK'
  <2>1. TableTypes'
    BY DEF TableCore
  <2> QED
    BY <1>2, <2>1, TypesJoin DEF TableTypes, MessageTypes, LoopInv, TypeOK
<1> QED
  BY <1>2, <1>3, <1>4 DEF ServerInv, TableCore

(* tcpserver_send_bytes_client, for a client of the table.                 *)
LEMMA SendBytesKeeps ==
  ASSUME TypeOK, TableCore, TargetInv, Sound, NEW i \in Rows,
         SendBytesClient(x_sr[i]),
         x_defaulttarget' = x_defaulttarget, chosen' = chosen
  PROVE  TableCore' /\ TargetInv' /\ ~freed'
<1>0. TableInv
  BY DEF TableCore
<1>1. CASE x_sr[i].id \in stopped /\ Socket2Index(x_sr[i].fd) >= 0
  <2>1. PICK k \in Rows : Disconnect(k)
    BY <1>0, <1>1, Socket2IndexFinds DEF SendBytesClient
  <2> QED
    BY <1>0, <2>1, DisconnectCore, DisconnectTarget
<1>2. CASE ~(x_sr[i].id \in stopped /\ Socket2Index(x_sr[i].fd) >= 0)
  <2>1. UNCHANGED <<tableVars, netVars, stopped, ub, freed, accepted>>
    BY <1>2 DEF SendBytesClient
  <2> QED
    BY <2>1, TableUnchanged, TargetUnchanged DEF Sound
<1> QED
  BY <1>1, <1>2

(* tcpserver_send_bytes, to the client in one slot.                        *)
LEMMA SendToIndexKeeps ==
  ASSUME ServerInv, Ready, NEW i \in Rows, SendToIndex(i)
  PROVE  ServerInv'
<1>1. /\ TypeOK /\ TableCore /\ TargetInv /\ MessageTypes /\ Sound
      /\ loop = NoLoop
  BY ReadyFacts
<1>2. /\ SendBytesClient(x_sr[i])
      /\ UNCHANGED <<x_defaulttarget, loop, chosen, got>>
  BY DEF SendToIndex
<1>3. TableCore' /\ TargetInv'
  BY <1>1, <1>2, SendBytesKeeps
<1>4. MessageTypes'
  BY <1>1, <1>2 DEF MessageTypes
<1> QED
  BY <1>1, <1>2, <1>3, <1>4, OutsideLoops

(* The message "client".                                                   *)
LEMMA SendClientKeeps ==
  ASSUME ServerInv, NEW k \in Nat, SendClient(k)
  PROVE  ServerInv'
<1>1. Ready /\ FixIndex(k) >= 0 /\ SendToIndex(FixIndex(k))
  BY DEF SendClient
<1> QED
  BY <1>1, ReadyFacts, FixIndexFinds, SendToIndexKeeps

(* tcpserver_send_socket.                                                  *)
LEMMA SendSocketKeeps ==
  ASSUME ServerInv, NEW fd, SendSocket(fd)
  PROVE  ServerInv'
<1>1. Ready /\ Socket2Index(fd) >= 0 /\ SendToIndex(Socket2Index(fd))
  BY DEF SendSocket
<1>2. Socket2Index(fd) \in Rows
  BY <1>1, ReadyFacts, Socket2IndexFinds
<1> QED
  BY <1>1, <1>2, SendToIndexKeeps

(* tcpserver_disconnect_client.                                            *)
LEMMA DisconnectClientKeeps ==
  ASSUME ServerInv, NEW k \in Nat, DisconnectClient(k)
  PROVE  ServerInv'
<1>1. /\ Ready /\ FixIndex(k) >= 0 /\ Disconnect(FixIndex(k))
      /\ UNCHANGED <<x_defaulttarget, loop, chosen, got>>
  BY DEF DisconnectClient
<1>2. /\ TypeOK /\ TableCore /\ TableInv /\ TargetInv /\ MessageTypes
      /\ Sound /\ loop = NoLoop
  BY <1>1, ReadyFacts
<1>3. PICK i \in Rows : Disconnect(i)
  BY <1>1, <1>2, FixIndexFinds
<1>4. TableCore' /\ TargetInv'
  BY <1>1, <1>2, <1>3, DisconnectCore, DisconnectTarget
<1>5. MessageTypes'
  BY <1>1, <1>2 DEF MessageTypes
<1> QED
  BY <1>1, <1>2, <1>4, <1>5, OutsideLoops

(* tcpserver_disconnect_socket.                                            *)
LEMMA DisconnectSocketKeeps ==
  ASSUME ServerInv, NEW fd, DisconnectSocket(fd)
  PROVE  ServerInv'
<1>1. /\ Ready /\ Socket2Index(fd) >= 0
      /\ DisconnectClient(Socket2Index(fd) + 1)
  BY DEF DisconnectSocket
<1>2. Socket2Index(fd) + 1 \in Nat
  BY <1>1, ReadyFacts, Socket2IndexFinds
<1> QED
  BY <1>1, <1>2, DisconnectClientKeeps

----------------------------------------------------------------------------
(* tcpserver_port: the listening socket changes hands, the clients'        *)
(* sockets do not.                                                         *)
LEMMA PortKeeps ==
  ASSUME ServerInv, NEW p \in Ports \cup {0}, PortFails(p) \/ PortOpens(p)
  PROVE  ServerInv'
<1>1. /\ Ready
      /\ UNCHANGED <<tableVars, x_accepting, x_defaulttarget, stopped, loop,
                     ub, freed, accepted, chosen, got>>
  BY DEF PortFails, PortOpens
<1>2. /\ TypeOK /\ TableCore /\ TableInv /\ SocketInv /\ TargetInv
      /\ MessageTypes /\ Sound /\ loop = NoLoop /\ TableTypes
  BY <1>1, ReadyFacts, TypesSplit
<1>3. MessageTypes' /\ TargetInv' /\ loop' = NoLoop /\ FreedInv' /\ Rows' = Rows
  <2>1. MessageTypes' /\ loop' = NoLoop
    BY <1>1, <1>2 DEF MessageTypes
  <2>2. TargetInv'
    BY <1>1, <1>2, TargetUnchanged
  <2>3. FreedInv' /\ Rows' = Rows
    BY <1>1, <1>2 DEF FreedInv, Sound, Rows, tableVars
  <2> QED
    BY <2>1, <2>2, <2>3
<1>4. x_port' \in Ports \cup {-1} /\ x_connectsocket' \in Fds \cup {-1}
  BY DEF PortFails, PortOpens
<1>5. /\ openfds' = (openfds \ {x_connectsocket}) \cup ({x_connectsocket'} \ {-1})
      /\ polled' = (polled \ {x_connectsocket}) \cup ({x_connectsocket'} \ {-1})
      /\ x_connectsocket' \notin openfds \ {x_connectsocket}
  <2>1. -1 \notin Fds
    BY FdsAssumption
  <2>2. -1 \notin openfds
    BY <2>1, <1>2 DEF TableTypes
  <2>3. CASE PortFails(p)
    BY <2>2, <2>3 DEF PortFails
  <2>4. CASE PortOpens(p)
    BY <2>1, <2>4 DEF PortOpens
  <2> QED
    BY <2>3, <2>4
<1>6. TableTypes'
  <2>1. openfds' \subseteq Fds /\ polled' \subseteq Fds
    BY <1>2, <1>4, <1>5 DEF TableTypes
  <2> QED
    BY <1>1, <1>2, <1>4, <2>1 DEF TableTypes, tableVars
<1>7. \A f \in Fds : f \in openfds <=>
         (f = x_connectsocket \/ \E i \in Rows : x_sr[i].fd = f)
  BY <1>2 DEF SocketInv
<1>8. \A i \in Rows : x_sr[i].fd \in Fds /\ x_sr[i].fd # x_connectsocket
  BY <1>2, ClientFields DEF TableInv
<1>9. TableInv'
  <2>1. \A i \in Rows : x_sr[i].fd # x_connectsocket'
    BY <1>5, <1>7, <1>8
  <2>2. x_sr' = x_sr /\ x_nconnections' = x_nconnections /\ accepted' = accepted
          /\ x_maxconnections' = x_maxconnections
    BY <1>1 DEF tableVars
  <2> QED
    BY <1>2, <1>3, <2>1, <2>2 DEF TableInv
<1>10. SocketInv'
  <2>1. x_sr' = x_sr
    BY <1>1 DEF tableVars
  <2>2. polled' = openfds'
    BY <1>2, <1>5 DEF SocketInv
  <2>3. -1 \notin Fds
    BY FdsAssumption
  <2>4. ASSUME NEW f \in Fds
        PROVE  f \in openfds' <=>
                 (f = x_connectsocket' \/ \E i \in Rows : x_sr[i].fd = f)
    BY <1>5, <1>7, <1>8, <2>3
  <2> QED
    BY <1>3, <2>1, <2>2, <2>4 DEF SocketInv
<1> QED
  BY <1>3, <1>6, <1>9, <1>10, OutsideLoops DEF TableCore

(* tcpserver_connectpoll: a new client goes behind the others, with a      *)
(* socket that nobody has and an identity that nobody had.                 *)
LEMMA ConnectAddKeeps ==
  ASSUME ServerInv, ConnectAdd
  PROVE  ServerInv'
<1>1. /\ TypeOK /\ TableCore /\ TableInv /\ SocketInv /\ TargetInv
      /\ MessageTypes /\ Sound /\ loop = NoLoop /\ TableTypes
  BY ReadyFacts, TypesSplit DEF ConnectAdd
<1>2. PICK fd \in Fds \ openfds :
        /\ x_sr' = [x_sr EXCEPT ![x_nconnections] = SocketReceiverNew(fd)]
        /\ openfds' = openfds \cup {fd}
        /\ polled' = polled \cup {fd}
  BY DEF ConnectAdd
<1>3. /\ x_nconnections' = x_nconnections + 1 /\ accepted' = accepted + 1
      /\ x_nconnections < x_maxconnections /\ accepted < MaxClients
      /\ UNCHANGED <<x_maxconnections, x_accepting, x_connectsocket, x_port,
                     x_defaulttarget, stopped, loop, ub, freed, chosen, got>>
  BY DEF ConnectAdd
<1>4. /\ x_nconnections \in Nat /\ x_maxconnections \in Nat
      /\ x_maxconnections <= MaxSlots /\ MaxSlots \in Nat
      /\ accepted \in Nat /\ MaxClients \in Nat /\ x_nconnections \in Slots
  BY <1>1, <1>3, CapacityAssumption, BoundAssumption DEF TableTypes, Slots
<1>5. /\ SocketReceiverNew(fd) \in Clients
      /\ SocketReceiverNew(fd).id = accepted + 1
      /\ SocketReceiverNew(fd).fd = fd
  <2>1. accepted + 1 \in ClientIds
    BY <1>3, <1>4 DEF ClientIds
  <2> QED
    BY <1>2, <1>4, <2>1 DEF SocketReceiverNew, Clients
<1> DEFINE new == SocketReceiverNew(fd)
<1> HIDE DEF new
<1>6. /\ x_sr'[x_nconnections] = new
      /\ \A i \in Slots : i # x_nconnections => x_sr'[i] = x_sr[i]
      /\ x_sr' \in [Slots -> Clients \cup {NoClient}]
  <2>1. x_sr \in [Slots -> Clients \cup {NoClient}]
    BY <1>1 DEF TableTypes
  <2>2. x_sr' = [x_sr EXCEPT ![x_nconnections] = new] /\ new \in Clients
    BY <1>2, <1>5 DEF new
  <2> QED
    BY <1>4, <2>1, <2>2
<1>7. /\ new \in Clients /\ new.id = accepted + 1 /\ new.fd = fd
  BY <1>5 DEF new
<1>8. /\ \A i \in Rows : /\ i \in Rows' /\ i \in Nat /\ i < x_nconnections
                         /\ x_sr'[i] = x_sr[i]
      /\ x_nconnections \in Rows'
      /\ \A i \in Rows' : i \in Rows \/ i = x_nconnections
  <2>1. /\ \A i \in Rows : i \in Rows' /\ i \in Nat /\ i < x_nconnections
        /\ x_nconnections \in Rows'
        /\ \A i \in Rows' : i \in Rows \/ i = x_nconnections
    BY <1>3, <1>4 DEF Rows
  <2>2. Rows \subseteq Slots
    BY <1>1, RowsAreSlots
  <2> QED
    BY <2>1, <2>2, <1>4, <1>6
<1>9. /\ \A i \in Rows : x_sr[i] \in Clients
      /\ \A i \in Slots : i >= x_nconnections => x_sr[i] = NoClient
      /\ \A i, j \in Rows : i < j => x_sr[i].id < x_sr[j].id
      /\ \A i \in Rows : x_sr[i].id <= accepted
      /\ \A i, j \in Rows : x_sr[i].fd = x_sr[j].fd => i = j
      /\ \A i \in Rows : x_sr[i].fd # x_connectsocket
  BY <1>1 DEF TableInv
<1>10. \A i \in Rows : x_sr[i].id \in Nat /\ x_sr[i].fd \in Fds
  BY <1>9, ClientFields
<1>11. /\ polled = openfds
       /\ \A f \in Fds : f \in openfds <=>
            (f = x_connectsocket \/ \E i \in Rows : x_sr[i].fd = f)
  BY <1>1 DEF SocketInv
<1>12. fd \in Fds /\ fd # x_connectsocket /\ \A i \in Rows : x_sr[i].fd # fd
  BY <1>2, <1>11
<1>13. TableTypes'
  <2>1. x_nconnections' \in 0 .. MaxSlots /\ accepted' \in 0 .. MaxClients
    BY <1>3, <1>4
  <2>2. openfds' \subseteq Fds /\ polled' \subseteq Fds
    BY <1>1, <1>2 DEF TableTypes
  <2> QED
    BY <1>1, <1>3, <1>6, <2>1, <2>2 DEF TableTypes
<1>14. TableInv'
  <2>1. x_nconnections' <= x_maxconnections'
    BY <1>3, <1>4
  <2>2. \A i \in Rows' : x_sr'[i] \in Clients
    BY <1>6, <1>7, <1>8, <1>9
  <2>3. \A i \in Slots : i >= x_nconnections' => x_sr'[i] = NoClient
    <3>1. \A i \in Slots : i >= x_nconnections + 1 =>
             i >= x_nconnections /\ i # x_nconnections
      BY <1>4 DEF Slots
    <3> QED
      BY <1>3, <1>6, <1>9, <3>1
  <2>4. \A i, j \in Rows' : i < j => x_sr'[i].id < x_sr'[j].id
    <3>1. ASSUME NEW i \in Rows', NEW j \in Rows', i < j
          PROVE  x_sr'[i].id < x_sr'[j].id
      <4>1. i \in Rows
        BY <1>4, <1>8, <3>1
      <4>2. CASE j \in Rows
        BY <1>8, <1>9, <3>1, <4>1, <4>2
      <4>3. CASE j = x_nconnections
        BY <1>4, <1>6, <1>7, <1>8, <1>9, <1>10, <4>1, <4>3
      <4> QED
        BY <1>8, <4>2, <4>3
    <3> QED
      BY <3>1
  <2>5. \A i \in Rows' : x_sr'[i].id <= accepted'
    BY <1>3, <1>4, <1>6, <1>7, <1>8, <1>9, <1>10
  <2>6. \A i, j \in Rows' : x_sr'[i].fd = x_sr'[j].fd => i = j
    BY <1>6, <1>7, <1>8, <1>9, <1>12
  <2>7. \A i \in Rows' : x_sr'[i].fd # x_connectsocket'
    BY <1>3, <1>6, <1>7, <1>8, <1>9, <1>12
  <2> QED
    BY <2>1, <2>2, <2>3, <2>4, <2>5, <2>6, <2>7 DEF TableInv
<1>15. SocketInv'
  <2>1. polled' = openfds'
    BY <1>2, <1>11
  <2>2. ASSUME NEW f \in Fds, f \in openfds'
        PROVE  f = x_connectsocket' \/ \E i \in Rows' : x_sr'[i].fd = f
    <3>1. CASE f = fd
      BY <1>6, <1>7, <1>8, <3>1
    <3>2. CASE f \in openfds
      BY <1>3, <1>8, <1>11, <3>2
    <3> QED
      BY <1>2, <2>2, <3>1, <3>2
  <2>3. ASSUME NEW f \in Fds,
               f = x_connectsocket' \/ \E i \in Rows' : x_sr'[i].fd = f
        PROVE  f \in openfds'
    <3>1. CASE f = x_connectsocket'
      BY <1>2, <1>3, <1>11, <3>1
    <3>2. ASSUME NEW i \in Rows', x_sr'[i].fd = f
          PROVE  f \in openfds'
      BY <1>2, <1>6, <1>7, <1>8, <1>11, <3>2
    <3> QED
      BY <2>3, <3>1, <3>2
  <2> QED
    BY <2>1, <2>2, <2>3 DEF SocketInv
<1>16. TargetInv'
  <2>1. /\ chosen \in Nat /\ chosen <= accepted
        /\ \A j \in Rows : x_sr[j].id = chosen =>
             x_sr[j].fd \in {x_defaulttarget, -x_defaulttarget}
    BY <1>1, BoundAssumption DEF TargetInv, MessageTypes
  <2>2. chosen' <= accepted' /\ new.id # chosen
    BY <1>3, <1>4, <1>7, <2>1
  <2>3. \A j \in Rows' : x_sr'[j].id = chosen' =>
             x_sr'[j].fd \in {x_defaulttarget', -x_defaulttarget'}
    BY <1>3, <1>6, <1>8, <2>1, <2>2
  <2> QED
    BY <2>2, <2>3 DEF TargetInv
<1>17. MessageTypes' /\ loop' = NoLoop
  BY <1>1, <1>3 DEF MessageTypes
<1>18. FreedInv'
  BY <1>1, <1>3 DEF Sound, FreedInv
<1> QED
  BY <1>13, <1>14, <1>15, <1>16, <1>17, <1>18, OutsideLoops DEF TableCore

(* tcpserver_maxconnections: the new table still holds every row.          *)
LEMMA MaxConnectionsKeeps ==
  ASSUME ServerInv, NEW maxconn \in Capacities, MaxConnections(maxconn)
  PROVE  ServerInv'
<1>1. /\ TypeOK /\ TableCore /\ TableInv /\ SocketInv /\ TargetInv
      /\ MessageTypes /\ Sound /\ loop = NoLoop /\ TableTypes
  BY ReadyFacts, TypesSplit DEF MaxConnections
<1>2. /\ maxconn >= x_nconnections
      /\ x_maxconnections' = maxconn /\ x_nconnections' = x_nconnections
      /\ UNCHANGED <<netVars, x_defaulttarget, stopped, loop, ub, freed,
                     accepted, chosen, got>>
  BY DEF MaxConnections
<1>3. \A i \in Slots : x_sr'[i] = IF i < maxconn /\ i < x_maxconnections
                                THEN x_sr[i] ELSE NoClient
  BY DEF MaxConnections
<1>4. maxconn \in 1 .. MaxSlots /\ MaxSlots \in Nat /\ maxconn \in Nat
  BY CapacityAssumption
<1>5. /\ x_nconnections \in Nat /\ x_maxconnections \in Nat
      /\ x_nconnections <= x_maxconnections
      /\ \A i \in Rows : i \in Slots /\ i \in Nat /\ i < x_nconnections
  BY <1>1, RowsAreSlots DEF TableInv
<1>6. Rows' = Rows /\ \A i \in Rows : x_sr'[i] = x_sr[i]
  <2>1. Rows' = Rows
    BY <1>2 DEF Rows
  <2>2. \A i \in Rows : i < maxconn /\ i < x_maxconnections
    BY <1>2, <1>4, <1>5
  <2> QED
    BY <1>3, <1>5, <2>1, <2>2
<1>7. TableTypes'
  <2>1. x_sr' \in [Slots -> Clients \cup {NoClient}]
    BY <1>1 DEF TableTypes, MaxConnections
  <2> QED
    BY <1>1, <1>2, <1>4, <2>1 DEF TableTypes, netVars
<1>8. TableInv'
  <2>1. \A i \in Slots : i >= x_nconnections' => x_sr'[i] = NoClient
    BY <1>1, <1>2, <1>3 DEF TableInv
  <2>2. x_nconnections' <= x_maxconnections'
    BY <1>2, <1>4, <1>5
  <2>3. x_connectsocket' = x_connectsocket /\ accepted' = accepted
    BY <1>2 DEF netVars
  <2> QED
    BY <1>1, <1>6, <2>1, <2>2, <2>3 DEF TableInv
<1>9. SocketInv'
  BY <1>1, <1>2, <1>6 DEF SocketInv, netVars
<1>10. TargetInv'
  BY <1>1, <1>2, <1>6 DEF TargetInv
<1>11. MessageTypes' /\ loop' = NoLoop /\ FreedInv'
  BY <1>1, <1>2 DEF MessageTypes, FreedInv, Sound
<1> QED
  BY <1>7, <1>8, <1>9, <1>10, <1>11, OutsideLoops DEF TableCore

(* tcpserver_free: the allocated slots include every row, so that every    *)
(* socket is closed.                                                       *)
LEMMA FreeKeeps ==
  ASSUME ServerInv, Free
  PROVE  ServerInv'
<1>1. /\ TypeOK /\ TableCore /\ TableInv /\ SocketInv /\ TargetInv
      /\ MessageTypes /\ Sound /\ loop = NoLoop /\ TableTypes
  BY ReadyFacts, TypesSplit DEF Free
<1>2. /\ freed' = TRUE
      /\ UNCHANGED <<x_nconnections, x_maxconnections, x_accepting,
                     x_connectsocket, x_port, x_defaulttarget, stopped, loop,
                     ub, accepted, chosen, got>>
      /\ x_sr' = [i \in Slots |-> NoClient]
  BY DEF Free
<1> DEFINE fds == {x_sr[i].fd : i \in 0 .. x_maxconnections - 1}
                    \cup {x_connectsocket}
<1>3. openfds' = openfds \ fds /\ polled' = polled \ fds
  BY DEF Free
<1>4. openfds \subseteq fds
  <2>1. \A f \in openfds : f = x_connectsocket \/ \E i \in Rows : x_sr[i].fd = f
    BY <1>1 DEF SocketInv, TableTypes
  <2>2. Rows \subseteq 0 .. x_maxconnections - 1
    BY <1>1, RowsAreSlots DEF TableInv
  <2> QED
    BY <2>1, <2>2
<1>5. openfds' = {} /\ polled' = {}
  BY <1>1, <1>3, <1>4 DEF SocketInv
<1>6. TableTypes'
  BY <1>1, <1>2, <1>5 DEF TableTypes
<1>7. FreedInv'
  BY <1>2, <1>5 DEF FreedInv
<1>8. TableInv' /\ SocketInv' /\ TargetInv'
  BY <1>2 DEF TableInv, SocketInv, TargetInv, Sound
<1>9. MessageTypes' /\ loop' = NoLoop
  BY <1>1, <1>2 DEF MessageTypes
<1> QED
  BY <1>6, <1>7, <1>8, <1>9, OutsideLoops DEF TableCore

(* tcpserver_defaulttarget: the socket of the client is the one its        *)
(* identity has.                                                           *)
LEMMA DefaultTargetKeeps ==
  ASSUME ServerInv, NEW client \in 0 .. MaxSlots, NEW sign \in {1, -1},
         DefaultTarget(client, sign)
  PROVE  ServerInv'
<1>1. /\ TypeOK /\ TableCore /\ TableInv /\ SocketInv /\ TargetInv
      /\ MessageTypes /\ Sound /\ loop = NoLoop /\ TableTypes
  BY ReadyFacts, TypesSplit DEF DefaultTarget
<1>2. /\ client <= x_nconnections
      /\ x_defaulttarget' = IF client = 0 THEN 0 ELSE sign * x_sr[client - 1].fd
      /\ chosen' = IF client = 0 THEN 0 ELSE x_sr[client - 1].id
      /\ UNCHANGED <<tableVars, netVars, stopped, loop, ub, freed, accepted, got>>
  BY DEF DefaultTarget
<1>3. TableCore' /\ Rows' = Rows /\ loop' = NoLoop
  BY <1>1, <1>2, TableUnchanged
<1>4. /\ x_sr' = x_sr /\ accepted' = accepted /\ got' = got
      /\ \A i \in Rows : /\ x_sr[i].id \in Nat /\ x_sr[i].id # 0
                         /\ x_sr[i].fd \in Nat
                         /\ x_sr[i].id \in ClientIds
                         /\ x_sr[i].id <= accepted
      /\ accepted \in Nat /\ MaxClients \in Nat
  <2>1. \A i \in Rows : x_sr[i] \in Clients /\ x_sr[i].id <= accepted
    BY <1>1 DEF TableInv
  <2> QED
    BY <1>1, <1>2, <2>1, ClientFields, BoundAssumption DEF tableVars, TableTypes
<1>5. CASE client = 0
  <2>1. chosen' = 0 /\ x_defaulttarget' = 0
    BY <1>2, <1>5
  <2>2. TargetInv'
    BY <1>3, <1>4, <2>1 DEF TargetInv
  <2>3. MessageTypes'
    BY <1>1, <1>4, <2>1 DEF MessageTypes
  <2> QED
    BY <1>3, <2>2, <2>3, OutsideLoops
<1>6. CASE client # 0
  <2>1. client - 1 \in Rows
    BY <1>1, <1>2, <1>6, RowsAreSlots, CapacityAssumption
  <2> DEFINE r == client - 1
  <2> HIDE DEF r
  <2>2. /\ r \in Rows /\ chosen' = x_sr[r].id
        /\ x_defaulttarget' = sign * x_sr[r].fd
    BY <1>2, <1>6, <2>1 DEF r
  <2>3. x_defaulttarget' \in {x_sr[r].fd, -x_sr[r].fd} /\ x_sr[r].fd \in Nat
    BY <1>4, <2>2
  <2>4. x_sr[r].fd \in {x_defaulttarget', -x_defaulttarget'}
    BY <2>3
  <2>5. \A j \in Rows : x_sr[j].id = x_sr[r].id => j = r
    <3> SUFFICES ASSUME NEW j \in Rows, j # r
                 PROVE  x_sr[j].id # x_sr[r].id
      OBVIOUS
    <3>1. j < r \/ r < j
      BY <1>1, <2>2, RowsAreSlots
    <3> QED
      BY <1>1, <1>4, <2>2, <3>1 DEF TableInv
  <2>6. TargetInv'
    BY <1>3, <1>4, <2>2, <2>4, <2>5 DEF TargetInv
  <2>7. MessageTypes'
    <3>1. chosen' \in 0 .. MaxClients
      BY <1>4, <2>2 DEF ClientIds
    <3>2. x_defaulttarget' \in Int
      BY <2>3
    <3> QED
      BY <1>1, <1>4, <3>1, <3>2 DEF MessageTypes
  <2> QED
    BY <1>3, <2>6, <2>7, OutsideLoops
<1> QED
  BY <1>5, <1>6

(* tcpserver_targetsocket.                                                 *)
LEMMA TargetSocketKeeps ==
  ASSUME ServerInv, NEW sock \in TargetSocks, TargetSocket(sock)
  PROVE  ServerInv'
<1>1. /\ TableCore /\ TableInv /\ MessageTypes /\ loop = NoLoop /\ TableTypes
      /\ Sound
  BY ReadyFacts, TypesSplit DEF TargetSocket
<1>2. /\ x_defaulttarget' = sock /\ chosen' = 0
      /\ UNCHANGED <<tableVars, netVars, stopped, loop, ub, freed, accepted, got>>
  BY DEF TargetSocket
<1>3. TableCore' /\ Rows' = Rows /\ loop' = NoLoop
  BY <1>1, <1>2, TableUnchanged
<1>4. MessageTypes'
  BY <1>1, <1>2, TargetsAssumption, BoundAssumption DEF MessageTypes
<1>5. TargetInv'
  <2>1. \A j \in Rows : x_sr[j].id # 0
    BY <1>1, ClientFields DEF TableInv
  <2>2. accepted' \in Nat /\ x_sr' = x_sr
    BY <1>1, <1>2, BoundAssumption DEF TableTypes, tableVars
  <2> QED
    BY <1>2, <1>3, <2>1, <2>2 DEF TargetInv
<1> QED
  BY <1>3, <1>4, <1>5, OutsideLoops

(* tcpserver_accept.                                                       *)
LEMMA AcceptFlagKeeps ==
  ASSUME ServerInv, NEW doit \in BOOLEAN, AcceptFlag(doit)
  PROVE  ServerInv'
<1>1. /\ TableCore /\ TargetInv /\ MessageTypes /\ loop = NoLoop /\ Sound
  BY ReadyFacts DEF AcceptFlag
<1>2. /\ x_accepting' = doit
      /\ UNCHANGED <<tableVars, x_connectsocket, x_port, openfds, polled,
                     x_defaulttarget, stopped, loop, ub, freed, accepted,
                     chosen, got>>
  BY DEF AcceptFlag
<1>3. TableTypes'
  BY <1>1, <1>2 DEF TableCore, TableTypes, tableVars
<1>4. Rows' = Rows /\ Sound' = Sound
  BY <1>2 DEF Rows, Sound, tableVars
<1>5. TableInv' /\ SocketInv' /\ FreedInv'
  BY <1>1, <1>2, <1>4 DEF TableCore, TableInv, SocketInv, FreedInv, tableVars
<1>6. TargetInv'
  BY <1>1, <1>2, TargetUnchanged
<1>7. MessageTypes' /\ loop' = NoLoop
  BY <1>1, <1>2 DEF MessageTypes
<1> QED
  BY <1>3, <1>5, <1>6, <1>7, OutsideLoops DEF TableCore

----------------------------------------------------------------------------
(* A loop runs only in a live object.                                      *)
LEMMA InLoop ==
  ASSUME ServerInv, ~ub, loop.op # "none"
  PROVE  /\ TypeOK /\ TableCore /\ TableInv /\ SocketInv /\ TargetInv
         /\ MessageTypes /\ Sound /\ LoopInv /\ CopyInv
<1>1. TypeOK /\ TableTypes /\ MessageTypes /\ LoopInv /\ CopyInv
  BY TypesSplit DEF ServerInv
<1>2. ~freed
  BY <1>1 DEF LoopInv, NoLoop
<1> QED
  BY <1>1, <1>2 DEF ServerInv, TableCore, Sound

(* The parts of the invariant, put together again.                         *)
LEMMA Together ==
  ASSUME TableCore', TargetInv', MessageTypes', LoopInv', CopyInv'
  PROVE  ServerInv'
<1>1. TypeOK'
  BY DEF TableCore, TableTypes, MessageTypes, LoopInv, TypeOK
<1> QED
  BY <1>1 DEF ServerInv, TableCore

(* A send thread may stop at any time, inside a loop too.                  *)
LEMMA SenderStopsKeeps ==
  ASSUME ServerInv, SenderStops
  PROVE  ServerInv'
<1>1. /\ ~ub /\ ~freed
      /\ UNCHANGED <<tableVars, netVars, x_defaulttarget, loop, ub, freed,
                     accepted, chosen, got>>
  BY DEF SenderStops
<1>2. /\ TypeOK /\ TableTypes /\ TableInv /\ SocketInv /\ FreedInv
      /\ TargetInv /\ MessageTypes /\ LoopInv /\ CopyInv
  BY TypesSplit DEF ServerInv
<1>3. Connected \subseteq ClientIds
  <2>1. \A i \in Rows : x_sr[i].id \in ClientIds
    BY <1>1, <1>2, ClientFields DEF TableInv, Sound
  <2> QED
    BY <2>1 DEF Connected, Rows
<1>4. stopped' \subseteq ClientIds
  BY <1>2, <1>3 DEF SenderStops, TableTypes
<1>5. TableTypes'
  BY <1>1, <1>2, <1>4 DEF TableTypes, tableVars, netVars
<1>6. /\ Rows' = Rows /\ Sound' = Sound /\ Connected' = Connected
      /\ \A c : TookIn(got', c) <=> TookIn(got, c)
  BY <1>1 DEF Rows, Sound, Connected, TookIn, tableVars
<1>7. TableInv' /\ SocketInv' /\ FreedInv'
  BY <1>1, <1>2, <1>6 DEF TableInv, SocketInv, FreedInv, tableVars, netVars
<1>8. TargetInv' /\ MessageTypes'
  BY <1>1, <1>2, TargetUnchanged DEF MessageTypes
<1>9. LoopInv'
  BY <1>1, <1>2 DEF LoopInv
<1>10. CopyInv'
  BY <1>1, <1>2, <1>6 DEF CopyInv, TookIn, tableVars
<1> QED
  BY <1>5, <1>7, <1>8, <1>9, <1>10, Together DEF TableCore

(* tcpserver_disconnect_all, whatever it leaves connected.                 *)
LEMMA DisconnectAllKeeps ==
  ASSUME ServerInv,
         DisconnectAllCall \/ DisconnectAllStep \/ DisconnectAllDone
  PROVE  ServerInv'
<1>1. CASE DisconnectAllCall
  <2>1. /\ TableCore /\ TargetInv /\ MessageTypes /\ Sound
    BY <1>1, ReadyFacts DEF DisconnectAllCall
  <2>2. /\ loop' = [op |-> "disconnect", snap |-> <<>>, pos |-> 0]
        /\ UNCHANGED <<tableVars, netVars, x_defaulttarget, stopped, ub, freed,
                       accepted, chosen, got>>
    BY <1>1 DEF DisconnectAllCall
  <2>3. TableCore' /\ TargetInv' /\ MessageTypes'
    BY <2>1, <2>2, TableUnchanged, TargetUnchanged DEF MessageTypes
  <2>4. LoopInv'
    BY <2>1, <2>2 DEF LoopInv, Sound
  <2>5. CopyInv'
    BY <2>2 DEF CopyInv
  <2> QED
    BY <2>3, <2>4, <2>5, Together
<1>2. CASE DisconnectAllStep
  <2>1. /\ loop.op = "disconnect" /\ ~ub /\ loop.pos < x_nconnections
        /\ Disconnect(loop.pos)
        /\ loop' = [loop EXCEPT !.pos = @ + 1]
        /\ UNCHANGED <<x_defaulttarget, chosen, got>>
    BY <1>2 DEF DisconnectAllStep
  <2>2. /\ TypeOK /\ TableCore /\ TableInv /\ TargetInv /\ MessageTypes
        /\ Sound /\ LoopInv
    BY <2>1, InLoop
  <2>3. PICK i \in Rows : Disconnect(i)
    <3>1. loop.pos \in Nat
      BY <2>2 DEF LoopInv
    <3> QED
      BY <2>1, <2>2, <3>1, RowsAreSlots
  <2>4. TableCore' /\ TargetInv' /\ MessageTypes' /\ ~freed'
    BY <2>1, <2>2, <2>3, DisconnectCore, DisconnectTarget DEF MessageTypes
  <2>5. LoopInv' /\ loop'.op = "disconnect"
    BY <2>1, <2>2, <2>4 DEF LoopInv
  <2>6. CopyInv'
    BY <2>5 DEF CopyInv
  <2> QED
    BY <2>4, <2>5, <2>6, Together
<1>3. CASE DisconnectAllDone
  <2>1. /\ loop.op = "disconnect" /\ ~ub /\ loop' = NoLoop
        /\ UNCHANGED <<tableVars, netVars, x_defaulttarget, stopped, ub, freed,
                       accepted, chosen, got>>
    BY <1>3 DEF DisconnectAllDone
  <2>2. TableCore /\ TargetInv /\ MessageTypes
    BY <2>1, InLoop
  <2>3. TableCore' /\ TargetInv' /\ MessageTypes'
    BY <2>1, <2>2, TableUnchanged, TargetUnchanged DEF MessageTypes
  <2> QED
    BY <2>1, <2>3, OutsideLoops
<1> QED
  BY <1>1, <1>2, <1>3

----------------------------------------------------------------------------
(* A broadcast begins with a copy of the rows.                             *)
LEMMA StartSendKeeps ==
  ASSUME ServerInv, Ready, NEW but \in Int, StartSend(but),
         TargetInv', x_defaulttarget' \in Int
  PROVE  ServerInv'
<1>1. /\ TypeOK /\ TableCore /\ TableInv /\ MessageTypes /\ Sound
  BY ReadyFacts
<1> DEFINE snap == [i \in 1 .. x_nconnections |->
                      IF i - 1 = but THEN NoClient ELSE x_sr[i - 1]]
<1>2. /\ loop' = [op |-> "send", snap |-> snap, pos |-> 1]
      /\ got' = <<>>
      /\ UNCHANGED <<tableVars, netVars, stopped, ub, freed, accepted, chosen>>
  BY DEF StartSend
<1>3. TableCore' /\ Rows' = Rows
  BY <1>1, <1>2, TableUnchanged
<1>4. x_nconnections \in Nat /\ \A i \in 1 .. x_nconnections : i - 1 \in Rows
  BY <1>1, RowsAreSlots
<1>5. \A i \in Rows : x_sr[i] \in Clients
  BY <1>1 DEF TableInv
<1>6. /\ snap \in Seq(Clients \cup {NoClient}) /\ Len(snap) = x_nconnections
      /\ \A i \in 1 .. x_nconnections :
           snap[i] = IF i - 1 = but THEN NoClient ELSE x_sr[i - 1]
  <2>1. snap \in [1 .. x_nconnections -> Clients \cup {NoClient}]
    BY <1>4, <1>5
  <2>2. snap \in Seq(Clients \cup {NoClient})
    BY <1>4, <2>1
  <2>3. Len(snap) = x_nconnections
    BY <1>4, <2>1, <2>2
  <2> QED
    BY <2>2, <2>3
<1> HIDE DEF snap
<1>7. /\ loop'.op = "send" /\ loop'.snap = snap /\ loop'.pos = 1
      /\ loop' \in [op : {"none", "send", "disconnect"},
                    snap : Seq(Clients \cup {NoClient}), pos : Nat]
  BY <1>2, <1>6
<1>8. LoopInv'
  BY <1>1, <1>2, <1>7 DEF LoopInv, Sound
<1>9. CopyInv'
  <2>1. ASSUME NEW i \in 1 .. Len(snap), snap[i] # NoClient
        PROVE  \E k \in Rows' : x_sr'[k] = snap[i]
    <3>1. i - 1 \in Rows /\ snap[i] = x_sr[i - 1]
      BY <1>4, <1>6, <2>1
    <3> QED
      BY <1>2, <1>3, <3>1 DEF tableVars
  <2>2. ASSUME NEW i \in 1 .. Len(snap), NEW j \in 1 .. Len(snap), i < j,
               snap[i] # NoClient, snap[j] # NoClient
        PROVE  snap[i].id < snap[j].id
    <3>1. /\ i - 1 \in Rows /\ snap[i] = x_sr[i - 1]
          /\ j - 1 \in Rows /\ snap[j] = x_sr[j - 1]
          /\ i - 1 < j - 1
      BY <1>4, <1>6, <2>2
    <3> QED
      BY <1>1, <3>1 DEF TableInv
  <2>3. Len(got') = 0
    BY <1>2
  <2> QED
    BY <1>6, <1>7, <2>1, <2>2, <2>3 DEF CopyInv
<1>10. MessageTypes'
  BY <1>1, <1>2 DEF MessageTypes
<1> QED
  BY <1>3, <1>8, <1>9, <1>10, Together

(* tcpserver_broadcast takes its copy of the table.                        *)
LEMMA BroadcastKeeps ==
  ASSUME ServerInv, Broadcast
  PROVE  ServerInv'
<1>1. /\ Ready /\ StartSend(-1) /\ x_defaulttarget' = x_defaulttarget
  BY DEF Broadcast
<1>2. TargetInv /\ MessageTypes
  BY <1>1, ReadyFacts
<1>3. TargetInv'
  BY <1>1, <1>2, TargetUnchanged DEF StartSend
<1> QED
  BY <1>1, <1>2, <1>3, StartSendKeeps DEF MessageTypes

(* tcpserver_defaultsend, to all clients but one.                          *)
LEMMA DefaultSendButKeeps ==
  ASSUME ServerInv, DefaultSendBut
  PROVE  ServerInv'
<1>1. /\ Ready /\ StartSend(Socket2Index(-x_defaulttarget))
      /\ x_defaulttarget' = x_defaulttarget
  BY DEF DefaultSendBut
<1>2. TypeOK /\ TableInv /\ Sound /\ TargetInv /\ MessageTypes
  BY <1>1, ReadyFacts
<1>3. TargetInv'
  BY <1>1, <1>2, TargetUnchanged DEF StartSend
<1>4. Socket2Index(-x_defaulttarget) \in Int
  BY <1>2, Socket2IndexFinds
<1> QED
  BY <1>1, <1>2, <1>3, <1>4, StartSendKeeps DEF MessageTypes

(* Falling back to broadcast forgets a target that no row has.             *)
LEMMA DefaultSendAllKeeps ==
  ASSUME ServerInv, DefaultSendAll
  PROVE  ServerInv'
<1>1. /\ Ready /\ x_defaulttarget' = 0
      /\ \/ x_defaulttarget = 0
         \/ x_defaulttarget > 0 /\ Socket2Index(x_defaulttarget) < 0
         \/ x_defaulttarget < 0 /\ Socket2Index(-x_defaulttarget) < 0
      /\ \/ StartSend(-1)
         \/ UNCHANGED <<tableVars, netVars, stopped, loop, ub, freed, accepted,
                        chosen, got>>
  BY DEF DefaultSendAll
<1>2. /\ TypeOK /\ TableCore /\ TableInv /\ Sound /\ TargetInv
      /\ MessageTypes /\ loop = NoLoop
  BY <1>1, ReadyFacts
<1>3. x_defaulttarget \in Int
  BY <1>2 DEF MessageTypes
<1>4. \A j \in Rows : x_sr[j].fd \in Nat /\ x_sr[j].fd # 0
  BY <1>2, ClientFields DEF TableInv
<1>5. \A j \in Rows : x_sr[j].fd \notin {x_defaulttarget, -x_defaulttarget}
  <2>1. CASE x_defaulttarget = 0
    BY <1>4, <2>1
  <2>2. CASE x_defaulttarget > 0 /\ Socket2Index(x_defaulttarget) < 0
    <3>1. \A j \in Rows : x_sr[j].fd # x_defaulttarget
      BY <1>2, <2>2, Socket2IndexFinds
    <3> QED
      BY <1>3, <1>4, <2>2, <3>1
  <2>3. CASE x_defaulttarget < 0 /\ Socket2Index(-x_defaulttarget) < 0
    <3>1. \A j \in Rows : x_sr[j].fd # -x_defaulttarget
      BY <1>2, <2>3, Socket2IndexFinds
    <3> QED
      BY <1>3, <1>4, <2>3, <3>1
  <2> QED
    BY <1>1, <2>1, <2>2, <2>3
<1>6. \A j \in Rows : x_sr[j].id # chosen
  BY <1>2, <1>5 DEF TargetInv
<1>7. x_sr' = x_sr /\ Rows' = Rows /\ chosen' = chosen /\ accepted' = accepted
  BY <1>1 DEF StartSend, tableVars, Rows
<1>8. TargetInv'
  BY <1>2, <1>6, <1>7 DEF TargetInv
<1>9. CASE StartSend(-1)
  BY <1>1, <1>8, <1>9, StartSendKeeps
<1>10. CASE UNCHANGED <<tableVars, netVars, stopped, loop, ub, freed, accepted,
                        chosen, got>>
  <2>1. MessageTypes'
    BY <1>1, <1>2, <1>10 DEF MessageTypes
  <2>2. TableCore' /\ loop' = NoLoop
    BY <1>2, <1>10, TableUnchanged
  <2> QED
    BY <1>8, <2>1, <2>2, OutsideLoops
<1> QED
  BY <1>1, <1>9, <1>10

----------------------------------------------------------------------------
(* Who took the message, after one more did.                               *)
LEMMA TookAppend ==
  ASSUME got \in Seq(ClientIds), NEW c \in ClientIds, got' = Append(got, c)
  PROVE  /\ got' \in Seq(ClientIds) /\ Len(got') = Len(got) + 1
         /\ \A k \in 1 .. Len(got) : got'[k] = got[k]
         /\ got'[Len(got) + 1] = c
         /\ \A x : TookIn(got', x) <=> (TookIn(got, x) \/ x = c)
<1>1. /\ got' \in Seq(ClientIds) /\ Len(got') = Len(got) + 1
      /\ \A k \in 1 .. Len(got) : got'[k] = got[k]
      /\ got'[Len(got) + 1] = c /\ Len(got) \in Nat
  OBVIOUS
<1>2. \A k \in 1 .. Len(got') : k \in 1 .. Len(got) \/ k = Len(got) + 1
  BY <1>1
<1>3. 1 .. Len(got) \subseteq 1 .. Len(got') /\ Len(got) + 1 \in 1 .. Len(got')
  BY <1>1
<1>4. \A x : TookIn(got', x) <=> (TookIn(got, x) \/ x = c)
  BY <1>1, <1>2, <1>3 DEF TookIn
<1> QED
  BY <1>1, <1>4

(* What a step of the sending loop does to the loop and its copy.          *)
LEMMA SendStepLoop ==
  ASSUME ServerInv, SendStep
  PROVE  /\ Sound /\ loop.pos \in Nat
         /\ loop'.op = "send" /\ loop'.snap = loop.snap
         /\ loop'.pos = loop.pos + 1
         /\ loop.pos \in 1 .. Len(loop.snap) /\ Len(loop.snap) \in Nat
         /\ loop' \in [op : {"none", "send", "disconnect"},
                       snap : Seq(Clients \cup {NoClient}), pos : Nat]
         /\ \A i \in 1 .. Len(loop.snap) :
              loop.snap[i] \in Clients \cup {NoClient}
<1>1. /\ loop.op = "send" /\ ~ub /\ loop.pos <= Len(loop.snap)
      /\ loop' = [loop EXCEPT !.pos = @ + 1]
  BY DEF SendStep
<1>2. Sound /\ LoopInv /\ CopyInv
  BY <1>1, InLoop
<1>3. /\ loop \in [op : {"none", "send", "disconnect"},
                   snap : Seq(Clients \cup {NoClient}), pos : Nat]
      /\ loop.pos >= 1
  BY <1>1, <1>2 DEF LoopInv, CopyInv
<1>4. /\ loop.pos \in Nat /\ loop.snap \in Seq(Clients \cup {NoClient})
      /\ loop'.op = "send" /\ loop'.snap = loop.snap
      /\ loop'.pos = loop.pos + 1
      /\ loop' \in [op : {"none", "send", "disconnect"},
                    snap : Seq(Clients \cup {NoClient}), pos : Nat]
  BY <1>1, <1>3
<1>5. Len(loop.snap) \in Nat /\ loop.pos \in 1 .. Len(loop.snap)
  BY <1>1, <1>3, <1>4
<1>6. \A i \in 1 .. Len(loop.snap) : loop.snap[i] \in Clients \cup {NoClient}
  BY <1>4
<1> QED
  BY <1>2, <1>4, <1>5, <1>6

(* tcpserver_send_bytes_clients: one client of the copy is served, skipped *)
(* or disconnected; the rest of the copy stays connected.                  *)
LEMMA SendStepKeeps ==
  ASSUME ServerInv, SendStep
  PROVE  ServerInv'
<1> DEFINE snap == loop.snap
           pos == loop.pos
           n == Len(loop.snap)
           c == loop.snap[loop.pos]
<1>1. /\ loop.op = "send" /\ ~ub
      /\ UNCHANGED <<x_defaulttarget, chosen>>
      /\ IF c = NoClient
         THEN UNCHANGED <<tableVars, netVars, stopped, ub, freed, accepted, got>>
         ELSE /\ SendBytesClient(c)
              /\ got' = IF c.id \in stopped THEN got ELSE Append(got, c.id)
  BY DEF SendStep
<1>2. /\ Sound /\ pos \in Nat /\ loop'.op = "send" /\ loop'.snap = snap
      /\ loop'.pos = pos + 1 /\ pos \in 1 .. n /\ n \in Nat
      /\ loop' \in [op : {"none", "send", "disconnect"},
                    snap : Seq(Clients \cup {NoClient}), pos : Nat]
      /\ \A i \in 1 .. n : snap[i] \in Clients \cup {NoClient}
  BY SendStepLoop
<1>3. /\ TypeOK /\ TableCore /\ TableInv /\ TargetInv /\ MessageTypes
      /\ LoopInv /\ CopyInv
  BY <1>1, InLoop
<1>4. /\ \A i \in 1 .. n : (i >= pos /\ snap[i] # NoClient) =>
           \E k \in Rows : x_sr[k] = snap[i]
      /\ \A i \in 1 .. n : (i < pos /\ snap[i] # NoClient) =>
           (TookIn(got, snap[i].id) <=> snap[i].id \in Connected)
      /\ \A i, j \in 1 .. n :
           (i < j /\ snap[i] # NoClient /\ snap[j] # NoClient) =>
             snap[i].id < snap[j].id
      /\ \A k \in 1 .. Len(got) : \E i \in 1 .. n :
           i < pos /\ snap[i] # NoClient /\ snap[i].id = got[k]
      /\ \A j, k \in 1 .. Len(got) : j < k => got[j] < got[k]
  BY <1>1, <1>3 DEF CopyInv
<1>5. c = snap[pos]
  OBVIOUS
<1> HIDE DEF snap, pos, n, c
<1>6. \A i \in 1 .. n : i \in Nat /\ (i < pos + 1 => i < pos \/ i = pos)
                       /\ (i >= pos + 1 => i > pos /\ i >= pos)
  BY <1>2
<1>7. got \in Seq(ClientIds)
  BY <1>3 DEF MessageTypes
<1>8. LoopInv' = (freed' => loop' = NoLoop)
  BY <1>2 DEF LoopInv
<1>9. CASE c = NoClient
  <2>1. UNCHANGED <<tableVars, netVars, stopped, ub, freed, accepted, got>>
    BY <1>1, <1>9
  <2>2. TableCore' /\ Connected' = Connected /\ Rows' = Rows
    BY <1>3, <2>1, TableUnchanged
  <2>3. TargetInv' /\ MessageTypes' /\ LoopInv'
    BY <1>1, <1>2, <1>3, <1>8, <2>1, TargetUnchanged DEF MessageTypes, Sound
  <2>4. x_sr' = x_sr /\ got' = got /\ \A x : TookIn(got', x) <=> TookIn(got, x)
    BY <2>1 DEF tableVars, TookIn
  <2>5. CopyInv'
    <3>1. \A i \in 1 .. n : (i >= pos + 1 /\ snap[i] # NoClient) =>
             \E k \in Rows' : x_sr'[k] = snap[i]
      BY <1>4, <1>6, <2>2, <2>4
    <3>2. \A i \in 1 .. n : (i < pos + 1 /\ snap[i] # NoClient) =>
             (TookIn(got', snap[i].id) <=> snap[i].id \in Connected')
      BY <1>4, <1>5, <1>6, <1>9, <2>2, <2>4
    <3>3. \A k \in 1 .. Len(got') : \E i \in 1 .. n :
             i < pos + 1 /\ snap[i] # NoClient /\ snap[i].id = got'[k]
      <4>1. \A i \in 1 .. n : i < pos => i < pos + 1
        BY <1>2, <1>6
      <4> QED
        BY <1>4, <2>4, <4>1
    <3>4. \A j, k \in 1 .. Len(got') : j < k => got'[j] < got'[k]
      BY <1>4, <2>4
    <3>5. loop'.pos >= 1
      BY <1>2
    <3> QED
      BY <1>2, <1>4, <3>1, <3>2, <3>3, <3>4, <3>5 DEF CopyInv, n, snap, TookIn
  <2> QED
    BY <2>2, <2>3, <2>5, Together
<1>10. ASSUME c # NoClient
       PROVE  ServerInv'
  <2>1. PICK r \in Rows : x_sr[r] = c
    BY <1>2, <1>4, <1>5, <1>6, <1>10
  <2>2. /\ c \in Clients /\ c.id \in Nat /\ c.id \in ClientIds
        /\ c.id \in Connected
    BY <1>2, <1>3, <2>1, ClientFields DEF TableInv, Connected, Rows
  <2>3. /\ SendBytesClient(c)
        /\ got' = IF c.id \in stopped THEN got ELSE Append(got, c.id)
    BY <1>1, <1>10
  <2>4. Socket2Index(c.fd) = r /\ r >= 0
    BY <1>2, <1>3, <2>1, Socket2IndexFinds, RowsAreSlots
  <2>5. \A i \in 1 .. n : snap[i] # NoClient => snap[i].id \in Nat
    BY <1>2, ClientFields
  <2>6. /\ \A i \in 1 .. n : (i < pos /\ snap[i] # NoClient) => snap[i].id < c.id
        /\ \A i \in 1 .. n : (i > pos /\ snap[i] # NoClient) => c.id < snap[i].id
    BY <1>2, <1>4, <1>5, <1>6, <1>10
  <2>7. /\ \A i \in 1 .. n : (i # pos /\ snap[i] # NoClient) => snap[i].id # c.id
        /\ \A i \in 1 .. n : (i >= pos + 1 /\ snap[i] # NoClient) => snap[i].id # c.id
    BY <1>2, <1>6, <2>2, <2>5, <2>6
  <2>8. \A k \in 1 .. Len(got) : got[k] < c.id
    BY <1>4, <2>6
  <2>9. ~TookIn(got, c.id)
    <3>1. \A k \in 1 .. Len(got) : got[k] # c.id
      BY <2>2, <2>8
    <3> QED
      BY <3>1 DEF TookIn
  <2>10. TableCore' /\ TargetInv' /\ ~freed'
    BY <1>1, <1>2, <1>3, <2>1, <2>3, SendBytesKeeps
  <2>11. LoopInv'
    BY <1>8, <2>10
  <2>12. CASE c.id \in stopped
    <3>1. Disconnect(r) /\ got' = got
      BY <2>3, <2>4, <2>12 DEF SendBytesClient
    <3>2. MessageTypes'
      BY <1>1, <1>3, <3>1 DEF MessageTypes
    <3>3. CopyInv'
      <4> SUFFICES ASSUME ~ub'
                   PROVE  CopyInv'
        BY Zenon DEF CopyInv
      <4>1. \A j \in Rows : j # r => \E k \in Rows' : x_sr'[k] = x_sr[j]
        BY <1>2, <1>3, <3>1, Survivors
      <4>2. \A x : x \in Connected' <=> (x \in Connected /\ x # c.id)
        BY <1>2, <1>3, <2>1, <3>1, DisconnectConnected
      <4>3. \A x : TookIn(got', x) <=> TookIn(got, x)
        BY <3>1 DEF TookIn
      <4>4. \A i \in 1 .. n : (i >= pos + 1 /\ snap[i] # NoClient) =>
               \E k \in Rows' : x_sr'[k] = snap[i]
        <5> SUFFICES ASSUME NEW i \in 1 .. n, i >= pos + 1, snap[i] # NoClient
                     PROVE  \E k \in Rows' : x_sr'[k] = snap[i]
          OBVIOUS
        <5>1. PICK j \in Rows : x_sr[j] = snap[i]
          BY <1>4, <1>6
        <5>2. j # r
          BY <2>1, <2>7, <5>1
        <5> QED
          BY <4>1, <5>1, <5>2
      <4>5. \A i \in 1 .. n : (i < pos + 1 /\ snap[i] # NoClient) =>
               (TookIn(got', snap[i].id) <=> snap[i].id \in Connected')
        <5> SUFFICES ASSUME NEW i \in 1 .. n, i < pos + 1, snap[i] # NoClient
                     PROVE  TookIn(got', snap[i].id) <=> snap[i].id \in Connected'
          OBVIOUS
        <5>1. CASE i = pos
          BY <1>5, <2>9, <4>2, <4>3, <5>1
        <5>2. CASE i < pos
          <6>1. i # pos
            BY <1>2, <1>6, <5>2
          <6> QED
            BY <1>4, <2>7, <4>2, <4>3, <5>2, <6>1
        <5> QED
          BY <1>6, <5>1, <5>2
      <4>6. \A k \in 1 .. Len(got') : \E i \in 1 .. n :
               i < pos + 1 /\ snap[i] # NoClient /\ snap[i].id = got'[k]
        BY <1>2, <1>4, <1>6, <3>1
      <4>7. \A j, k \in 1 .. Len(got') : j < k => got'[j] < got'[k]
        BY <1>4, <3>1
      <4>8. loop'.pos >= 1
        BY <1>2
      <4> QED
        BY <1>2, <1>4, <4>4, <4>5, <4>6, <4>7, <4>8 DEF CopyInv, n, snap, TookIn
    <3> QED
      BY <2>10, <2>11, <3>2, <3>3, Together
  <2>13. CASE c.id \notin stopped
    <3>1. /\ UNCHANGED <<tableVars, netVars, stopped, ub, freed, accepted>>
          /\ got' = Append(got, c.id)
      BY <2>3, <2>13 DEF SendBytesClient
    <3>2. /\ got' \in Seq(ClientIds) /\ Len(got') = Len(got) + 1
          /\ \A k \in 1 .. Len(got) : got'[k] = got[k]
          /\ got'[Len(got) + 1] = c.id
          /\ \A x : TookIn(got', x) <=> (TookIn(got, x) \/ x = c.id)
      BY <1>7, <2>2, <3>1, TookAppend
    <3>3. MessageTypes'
      BY <1>1, <1>3, <3>2 DEF MessageTypes
    <3>4. Connected' = Connected /\ Rows' = Rows /\ x_sr' = x_sr
      BY <1>3, <3>1, TableUnchanged DEF tableVars
    <3>5. /\ \A k \in 1 .. Len(got') : k \in 1 .. Len(got) \/ k = Len(got) + 1
          /\ Len(got) \in Nat
      BY <1>7, <3>2
    <3>6. CopyInv'
      <4>1. \A i \in 1 .. n : (i >= pos + 1 /\ snap[i] # NoClient) =>
               \E k \in Rows' : x_sr'[k] = snap[i]
        BY <1>4, <1>6, <3>4
      <4>2. \A i \in 1 .. n : (i < pos + 1 /\ snap[i] # NoClient) =>
               (TookIn(got', snap[i].id) <=> snap[i].id \in Connected')
        <5> SUFFICES ASSUME NEW i \in 1 .. n, i < pos + 1, snap[i] # NoClient
                     PROVE  TookIn(got', snap[i].id) <=> snap[i].id \in Connected'
          OBVIOUS
        <5>1. CASE i = pos
          BY <1>5, <2>2, <3>2, <3>4, <5>1
        <5>2. CASE i < pos
          <6>1. i # pos
            BY <1>2, <1>6, <5>2
          <6> QED
            BY <1>4, <2>7, <3>2, <3>4, <5>2, <6>1
        <5> QED
          BY <1>6, <5>1, <5>2
      <4>3. \A k \in 1 .. Len(got') : \E i \in 1 .. n :
               i < pos + 1 /\ snap[i] # NoClient /\ snap[i].id = got'[k]
        <5> SUFFICES ASSUME NEW k \in 1 .. Len(got')
                     PROVE  \E i \in 1 .. n :
                       i < pos + 1 /\ snap[i] # NoClient /\ snap[i].id = got'[k]
          OBVIOUS
        <5>1. CASE k \in 1 .. Len(got)
          <6>1. PICK i \in 1 .. n :
                  i < pos /\ snap[i] # NoClient /\ snap[i].id = got[k]
            BY <1>4, <5>1
          <6>2. i < pos + 1
            BY <1>2, <1>6, <6>1
          <6> QED
            BY <3>2, <5>1, <6>1, <6>2
        <5>2. CASE k = Len(got) + 1
          BY <1>2, <1>5, <1>10, <3>2, <5>2
        <5> QED
          BY <3>5, <5>1, <5>2
      <4>4. \A j, k \in 1 .. Len(got') : j < k => got'[j] < got'[k]
        <5> SUFFICES ASSUME NEW j \in 1 .. Len(got'), NEW k \in 1 .. Len(got'),
                            j < k
                     PROVE  got'[j] < got'[k]
          OBVIOUS
        <5>1. j \in 1 .. Len(got)
          BY <3>2, <3>5
        <5>2. CASE k \in 1 .. Len(got)
          BY <1>4, <3>2, <5>1, <5>2
        <5>3. CASE k = Len(got) + 1
          BY <2>8, <3>2, <5>1, <5>3
        <5> QED
          BY <3>5, <5>2, <5>3
      <4>5. loop'.pos >= 1
        BY <1>2
      <4> QED
        BY <1>2, <1>4, <4>1, <4>2, <4>3, <4>4, <4>5 DEF CopyInv, n, snap, TookIn
    <3> QED
      BY <2>10, <2>11, <3>3, <3>6, Together
  <2> QED
    BY <2>12, <2>13
<1> QED
  BY <1>9, <1>10

(* The end of a loop over the copy.                                        *)
LEMMA SendDoneKeeps ==
  ASSUME ServerInv, SendDone
  PROVE  ServerInv'
<1>1. /\ loop.op = "send" /\ ~ub /\ loop' = NoLoop /\ got' = <<>>
      /\ UNCHANGED <<tableVars, netVars, x_defaulttarget, stopped, ub, freed,
                     accepted, chosen>>
  BY DEF SendDone
<1>2. TableCore /\ TargetInv /\ MessageTypes
  BY <1>1, InLoop
<1>3. TableCore' /\ TargetInv'
  BY <1>1, <1>2, TableUnchanged, TargetUnchanged
<1>4. MessageTypes'
  BY <1>1, <1>2 DEF MessageTypes
<1> QED
  BY <1>1, <1>3, <1>4, OutsideLoops

----------------------------------------------------------------------------
(* The new object.                                                         *)
LEMMA InitServerInv ==
  ASSUME Init
  PROVE  ServerInv
<1>1. TableTypes
  <2>1. x_maxconnections \in 1 .. MaxSlots /\ x_nconnections \in 0 .. MaxSlots
    BY CapacityAssumption DEF Init
  <2>2. accepted \in 0 .. MaxClients
    BY BoundAssumption DEF Init
  <2> QED
    BY <2>1, <2>2 DEF Init, TableTypes
<1>2. MessageTypes
  BY BoundAssumption DEF Init, MessageTypes
<1>3. /\ loop.op = "none" /\ loop.snap = <<>> /\ loop.pos = 0 /\ loop = NoLoop
      /\ loop \in [op : {"none", "send", "disconnect"},
                   snap : Seq(Clients \cup {NoClient}), pos : Nat]
  BY DEF Init, NoLoop
<1>4. LoopInv /\ CopyInv
  BY <1>3 DEF LoopInv, CopyInv
<1>5. /\ Rows = {} /\ x_nconnections = 0 /\ x_connectsocket = -1
      /\ openfds = {} /\ polled = {} /\ ~freed /\ chosen = 0 /\ accepted = 0
      /\ x_sr = [i \in Slots |-> NoClient]
  BY DEF Init, Rows
<1>6. TableInv
  BY <1>1, <1>5 DEF TableInv, TableTypes
<1>7. SocketInv /\ FreedInv /\ TargetInv
  BY <1>5, FdsAssumption DEF SocketInv, FreedInv, TargetInv
<1>8. TypeOK
  BY <1>1, <1>2, <1>4, TypesJoin
<1> QED
  BY <1>4, <1>6, <1>7, <1>8 DEF ServerInv

(* Every step keeps the invariant.                                         *)
LEMMA ServerInvInductive ==
  ASSUME ServerInv, [Next]_vars
  PROVE  ServerInv'
<1>1. CASE UNCHANGED vars
  <2>1. UNCHANGED <<tableVars, netVars, stopped, ub, freed, accepted>>
    BY <1>1 DEF vars
  <2>2. UNCHANGED <<x_defaulttarget, chosen, got, loop>>
    BY <1>1 DEF vars
  <2>3. /\ TypeOK /\ TableCore /\ TargetInv /\ MessageTypes /\ LoopInv
        /\ CopyInv
    BY TypesSplit DEF ServerInv, TableCore
  <2>4. TableCore' /\ Connected' = Connected /\ Rows' = Rows
    BY <2>1, <2>3, TableUnchanged
  <2>5. TargetInv' /\ MessageTypes' /\ LoopInv'
    BY <2>1, <2>2, <2>3, TargetUnchanged DEF MessageTypes, LoopInv
  <2>6. CopyInv'
    BY <2>1, <2>2, <2>3, <2>4 DEF CopyInv, TookIn, tableVars
  <2> QED
    BY <2>4, <2>5, <2>6, Together
<1>2. ASSUME NEW p \in Ports \cup {0},
             PortSame(p) \/ PortFails(p) \/ PortOpens(p)
      PROVE  ServerInv'
  <2>1. CASE PortSame(p)
    BY <1>1, <2>1 DEF PortSame
  <2> QED
    BY <1>2, <2>1, PortKeeps
<1>3. CASE ConnectDrop
  BY <1>1, <1>3 DEF ConnectDrop
<1>4. ASSUME NEW k \in 1 .. MaxSlots, DisconnectClient(k) \/ SendClient(k)
      PROVE  ServerInv'
  <2>1. k \in Nat
    BY CapacityAssumption
  <2> QED
    BY <1>4, <2>1, DisconnectClientKeeps, SendClientKeeps
<1>5. CASE DefaultSendOne
  BY <1>5, SendSocketKeeps DEF DefaultSendOne
<1>6. ASSUME NEW fd \in Fds, DisconnectSocket(fd) \/ SendSocket(fd)
      PROVE  ServerInv'
  BY <1>6, DisconnectSocketKeeps, SendSocketKeeps
<1>7. ASSUME \/ ConnectAdd \/ SenderStops \/ Free
             \/ DisconnectAllCall \/ DisconnectAllStep \/ DisconnectAllDone
             \/ Broadcast \/ SendStep \/ SendDone
             \/ DefaultSendBut \/ DefaultSendAll
      PROVE  ServerInv'
  BY <1>7, ConnectAddKeeps, SenderStopsKeeps, FreeKeeps, DisconnectAllKeeps,
     BroadcastKeeps, SendStepKeeps, SendDoneKeeps, DefaultSendButKeeps,
     DefaultSendAllKeeps
<1>8. ASSUME NEW k \in 0 .. MaxSlots, NEW sign \in {1, -1},
             DefaultTarget(k, sign)
      PROVE  ServerInv'
  BY <1>8, DefaultTargetKeeps
<1>9. ASSUME NEW sock \in TargetSocks, TargetSocket(sock)
      PROVE  ServerInv'
  BY <1>9, TargetSocketKeeps
<1>10. ASSUME NEW doit \in BOOLEAN, AcceptFlag(doit)
       PROVE  ServerInv'
  BY <1>10, AcceptFlagKeeps
<1>11. ASSUME NEW m \in Capacities, MaxConnections(m)
       PROVE  ServerInv'
  BY <1>11, MaxConnectionsKeeps
<1>12. CASE Next
  BY <1>2, <1>3, <1>4, <1>5, <1>6, <1>7, <1>8, <1>9, <1>10, <1>11, <1>12
     DEF Next
<1> QED
  BY <1>1, <1>12

(* The invariant holds throughout.                                         *)
THEOREM ServerInvariant == Spec => []ServerInv
<1> QED
  BY InitServerInv, ServerInvInductive, PTL DEF Spec

(* [tcpserver]: the variables keep their types, even in the step that      *)
(* leaves the table.                                                       *)
THEOREM ServerTypes == Spec => []TypeOK
<1>1. ServerInv => TypeOK
  BY DEF ServerInv
<1> QED
  BY <1>1, ServerInvariant, PTL

(* The rows of the table are the clients in order of acceptance, and no    *)
(* other slot is in use, through every shift of tcpserver_disconnect and   *)
(* every resize of tcpserver_maxconnections that stays in the table.       *)
THEOREM ServerTableInOrder == Spec => []TableInOrder
<1>1. ServerInv => TableInOrder
  <2> SUFFICES ASSUME ServerInv, ~ub, ~freed
               PROVE  TableInOrder
    BY DEF TableInOrder
  <2>1. TableInv /\ Sound
    BY DEF ServerInv, Sound
  <2>2. \A i \in Rows : x_sr[i] # NoClient
    BY <2>1, ClientFields DEF TableInv
  <2> QED
    BY <2>1, <2>2 DEF TableInv, TableInOrder, Rows
<1> QED
  BY <1>1, ServerInvariant, PTL

(* A set of sockets, one per row, has as many elements as there are rows.  *)
LEMMA RowSockets ==
  ASSUME TypeOK, TableInv, Sound
  PROVE  LET S == {x_sr[i].fd : i \in Rows}
         IN  IsFiniteSet(S) /\ Cardinality(S) = x_nconnections
<1> DEFINE S == {x_sr[i].fd : i \in Rows}
           f == [i \in Rows |-> x_sr[i].fd]
<1>1. x_nconnections \in Nat
  BY RowsAreSlots
<1>2. IsFiniteSet(Rows) /\ Cardinality(Rows) = x_nconnections
  <2>1. IsFiniteSet(0 .. x_nconnections - 1)
        /\ Cardinality(0 .. x_nconnections - 1) =
             IF 0 > x_nconnections - 1 THEN 0 ELSE (x_nconnections - 1) - 0 + 1
    BY <1>1, FS_Interval
  <2> QED
    BY <1>1, <2>1 DEF Rows
<1>3. f \in Bijection(Rows, S)
  <2>1. f \in [Rows -> S] /\ \A s \in S : \E i \in Rows : f[i] = s
    OBVIOUS
  <2>2. \A i, j \in Rows : f[i] = f[j] => i = j
    BY DEF TableInv
  <2> HIDE DEF f, S
  <2> QED
    BY <2>1, <2>2 DEF Bijection, Injection, Surjection, IsInjective
<1> HIDE DEF f, S
<1>4. ExistsBijection(Rows, S)
  BY <1>3 DEF ExistsBijection
<1>5. IsFiniteSet(S) /\ Cardinality(S) = Cardinality(Rows)
  BY <1>2, <1>4, FS_Bijection
<1> QED
  BY <1>2, <1>5 DEF S

(* No socket leaks and none is used after its close: what is open and      *)
(* polled is the listening socket and one per client; tcpserver_free       *)
(* closes them all.                                                        *)
THEOREM ServerSockets == Spec => []SocketsAccounted
<1>1. ServerInv => SocketsAccounted
  <2> SUFFICES ASSUME ServerInv, ~ub
               PROVE  SocketsAccounted
    BY DEF SocketsAccounted
  <2>1. TypeOK /\ TableInv /\ SocketInv /\ FreedInv
    BY DEF ServerInv
  <2>2. CASE freed
    <3>1. openfds = {} /\ polled = {}
      BY <2>1, <2>2 DEF FreedInv
    <3> QED
      BY Zenon, <2>2, <3>1 DEF SocketsAccounted
  <2>3. CASE ~freed
    <3> DEFINE S == {x_sr[i].fd : i \in Rows}
               L == {x_connectsocket} \ {-1}
    <3>1. Sound
      BY <2>3 DEF Sound
    <3>2. /\ \A i \in Rows : x_sr[i].fd \in Fds /\ x_sr[i].fd # x_connectsocket
      BY <2>1, <3>1, ClientFields DEF TableInv
    <3>3. openfds \subseteq Fds /\ x_connectsocket \in Fds \cup {-1}
      BY <2>1 DEF TypeOK
    <3>4. -1 \notin Fds
      BY FdsAssumption
    <3>5. openfds = L \cup S /\ polled = L \cup S
      BY <2>1, <3>1, <3>2, <3>3, <3>4 DEF SocketInv
    <3>6. IsFiniteSet(S) /\ Cardinality(S) = x_nconnections
      BY <2>1, <3>1, RowSockets
    <3>7. x_connectsocket \notin S
      BY <3>2
    <3>8. x_nconnections \in Nat
      BY <2>1, RowsAreSlots
    <3>9. Cardinality(openfds) =
            x_nconnections + (IF x_connectsocket = -1 THEN 0 ELSE 1)
      <4> HIDE DEF S
      <4>1. CASE x_connectsocket = -1
        <5>1. openfds = S
          BY <3>5, <4>1
        <5> QED
          BY <3>6, <3>8, <4>1, <5>1
      <4>2. CASE x_connectsocket # -1
        <5>1. openfds = S \cup {x_connectsocket}
          BY <3>5, <4>2
        <5>2. Cardinality(S \cup {x_connectsocket}) = Cardinality(S) + 1
          BY <3>6, <3>7, FS_AddElement
        <5> QED
          BY <3>6, <4>2, <5>1, <5>2
      <4> QED
        BY <4>1, <4>2
    <3> QED
      BY <2>3, <3>5, <3>9 DEF SocketsAccounted, Rows
  <2> QED
    BY <2>2, <2>3
<1> QED
  BY <1>1, ServerInvariant, PTL

(* What a broadcast has still to visit is connected, although clients may  *)
(* have been disconnected on the way.                                      *)
THEOREM ServerCopyIsLive == Spec => []CopyHoldsNoFreedClient
<1>1. ServerInv => CopyHoldsNoFreedClient
  <2> SUFFICES ASSUME ServerInv, loop.op = "send", ~ub,
                      NEW i \in loop.pos .. Len(loop.snap),
                      loop.snap[i] # NoClient
               PROVE  loop.snap[i].id \in Connected
    BY DEF CopyHoldsNoFreedClient
  <2>1. LoopInv /\ CopyInv
    BY DEF ServerInv
  <2>2. loop.pos \in Nat /\ loop.pos >= 1 /\ Len(loop.snap) \in Nat
    BY <2>1 DEF LoopInv, CopyInv
  <2>3. i \in 1 .. Len(loop.snap) /\ i >= loop.pos
    BY <2>2
  <2>4. PICK k \in Rows : x_sr[k] = loop.snap[i]
    BY <2>1, <2>3 DEF CopyInv
  <2> QED
    BY <2>4 DEF Connected, Rows
<1> QED
  BY <1>1, ServerInvariant, PTL

(* A default target given by client number stays with that client.         *)
THEOREM ServerTargetStays == Spec => []TargetStaysWithClient
<1>1. ServerInv => TargetStaysWithClient
  <2> SUFFICES ASSUME ServerInv, ~ub, ~freed, chosen \in Connected,
                      NEW i \in Rows
               PROVE  x_sr[i].fd \in {x_defaulttarget, -x_defaulttarget}
                        <=> x_sr[i].id = chosen
    BY DEF TargetStaysWithClient, Rows
  <2>1. TypeOK /\ TableInv /\ TargetInv /\ Sound
    BY DEF ServerInv, Sound
  <2>2. PICK r \in Rows : x_sr[r].id = chosen
    BY DEF Connected, Rows
  <2>3. x_sr[r].fd \in {x_defaulttarget, -x_defaulttarget}
    BY <2>1, <2>2 DEF TargetInv
  <2>4. \A j \in Rows : x_sr[j].fd \in Nat /\ x_sr[j].fd # 0
    BY <2>1, ClientFields DEF TableInv
  <2>5. x_defaulttarget \in Int
    BY <2>1 DEF TypeOK
  <2>6. x_sr[i].fd \in {x_defaulttarget, -x_defaulttarget} =>
          x_sr[i].fd = x_sr[r].fd
    BY <2>3, <2>4, <2>5
  <2>7. x_sr[i].fd = x_sr[r].fd => i = r
    BY <2>1 DEF TableInv
  <2>8. x_sr[i].id = chosen => x_sr[i].fd \in {x_defaulttarget, -x_defaulttarget}
    BY <2>1 DEF TargetInv
  <2> QED
    BY <2>2, <2>6, <2>7, <2>8
<1> QED
  BY <1>1, ServerInvariant, PTL

(* A broadcast that ends has served every client of its copy that is still *)
(* connected, once and in table order, and nobody else.                    *)
THEOREM ServerBroadcastServes == Spec => BroadcastServesAll
<1> DEFINE Served ==
      (loop.op = "send" /\ loop' = NoLoop) =>
        /\ \A i \in 1 .. Len(loop.snap) :
             LET c == loop.snap[i].id IN
             c # 0 => (\E j \in 1 .. Len(got) : got[j] = c) # (c \notin Connected')
        /\ \A j \in 1 .. Len(got) :
             /\ \E i \in 1 .. Len(loop.snap) : loop.snap[i].id = got[j]
             /\ \A k \in 1 .. Len(got) : j < k => got[j] < got[k]
<1>1. ServerInv /\ [Next]_vars => [Served]_vars
  <2> SUFFICES ASSUME ServerInv, Next, loop.op = "send", loop' = NoLoop
               PROVE  Served
    OBVIOUS
  <2>1. NoLoop.op = "none" /\ loop # NoLoop /\ ~Ready
    BY DEF NoLoop, Ready
  <2>2. SendDone
    <3>1. LoopInv /\ (SendStep => loop'.op = "send")
      BY SendStepLoop DEF ServerInv
    <3>2. ~SendStep /\ ~SenderStops
      BY <2>1, <3>1 DEF SenderStops
    <3>3. ~DisconnectAllStep /\ ~DisconnectAllDone
      BY DEF DisconnectAllStep, DisconnectAllDone
    <3> QED
      BY <2>1, <3>2, <3>3
      DEF Next, PortSame, PortFails, PortOpens, ConnectAdd, ConnectDrop,
          DisconnectClient, SendClient, DisconnectSocket, SendSocket,
          DisconnectAllCall, Broadcast, DefaultSendOne, DefaultSendBut,
          DefaultSendAll, DefaultTarget, TargetSocket, AcceptFlag,
          MaxConnections, Free
  <2>3. /\ ~ub /\ loop.pos > Len(loop.snap)
        /\ UNCHANGED tableVars
    BY <2>2 DEF SendDone
  <2>4. Connected' = Connected
    BY <2>3 DEF tableVars, Connected
  <2>5. LoopInv /\ CopyInv
    BY DEF ServerInv
  <2>6. loop.pos \in Nat /\ Len(loop.snap) \in Nat
    BY <2>5 DEF LoopInv
  <2>7. \A i \in 1 .. Len(loop.snap) : i < loop.pos
    BY <2>3, <2>6
  <2>8. \A i \in 1 .. Len(loop.snap) : loop.snap[i].id # 0 =>
          (TookIn(got, loop.snap[i].id) <=> loop.snap[i].id \in Connected')
    <3>1. \A i \in 1 .. Len(loop.snap) : loop.snap[i].id # 0 =>
             loop.snap[i] # NoClient
      BY DEF NoClient
    <3> QED
      BY <2>3, <2>4, <2>5, <2>7, <3>1 DEF CopyInv
  <2>9. /\ \A k \in 1 .. Len(got) :
             \E i \in 1 .. Len(loop.snap) : loop.snap[i].id = got[k]
        /\ \A j, k \in 1 .. Len(got) : j < k => got[j] < got[k]
    BY <2>3, <2>5 DEF CopyInv
  <2> QED
    BY <2>8, <2>9 DEF TookIn
<1>2. [Served]_vars => [loop.op = "send" /\ loop' = NoLoop =>
      /\ \A i \in 1 .. Len(loop.snap) :
           LET c == loop.snap[i].id IN
           c # 0 => (\E j \in 1 .. Len(got) : got[j] = c) # (c \notin Connected')
      /\ \A j \in 1 .. Len(got) :
           /\ \E i \in 1 .. Len(loop.snap) : loop.snap[i].id = got[j]
           /\ \A k \in 1 .. Len(got) : j < k => got[j] < got[k]]_vars
  OBVIOUS
<1> HIDE DEF Served
<1> QED
  BY <1>1, <1>2, ServerInvariant, PTL DEF Spec, BroadcastServesAll
============================================================================
