----------------------------- MODULE NetProofs -----------------------------
(***************************************************************************)
(* What the operations of module Net do to the descriptors and to Pd's     *)
(* poll list, for any set of descriptors: the lemmas that the proofs about *)
(* the patches rest on.                                                    *)
(***************************************************************************)
EXTENDS Net, SequenceTheorems, WellFoundedInduction, TLAPS

(* The shape of "net" when the objects that run are "objects".             *)
IsNet(n, objects) ==
  n \in [owner : [Fds -> {NoOne} \cup objects],
         remote : [Fds -> {NULL, "up", "dead"} \cup Ports],
         polls : [Fds -> Seq(objects \X Nat)],
         foul : BOOLEAN, crashed : BOOLEAN]

(* A list of one poll function: how it comes about and how it ends.        *)
LEMMA OnePollFn ==
  ASSUME NEW x
  PROVE  Append(<<>>, x) = <<x>> /\ Tail(<<x>>) = <<>> /\ <<x>> # <<>>
OBVIOUS

(* A function is suspended on top of the others, and resumes from there.   *)
LEMMA StackGrows ==
  ASSUME NEW S, NEW f \in S, NEW rest \in Seq(S)
  PROVE  <<f>> \o rest \in Seq(S) /\ Len(<<f>> \o rest) = Len(rest) + 1
OBVIOUS

(* Resuming a function takes one frame off the stack.                      *)
LEMMA StackShrinks ==
  ASSUME NEW S, NEW s \in Seq(S), s # <<>>
  PROVE  Tail(s) \in Seq(S) /\ Len(Tail(s)) = Len(s) - 1 /\ Len(s) \in Nat
OBVIOUS

(* A sequence over a set is one over every larger set.                     *)
LEMMA SeqGrows ==
  ASSUME NEW S, NEW T, S \subseteq T
  PROVE  Seq(S) \subseteq Seq(T)
OBVIOUS

(* iemnet__closesocket closes the descriptors it is given and leaves every *)
(* other one, and the poll list, alone; it is in order when the caller has *)
(* them open.                                                              *)
LEMMA CloseSocketsEffect ==
  ASSUME NEW objects, NEW n, IsNet(n, objects), NEW o, NEW fds
  PROVE  LET m == CloseSockets(n, o, fds)
         IN  /\ IsNet(m, objects)
             /\ \A fd \in Fds :
                  /\ m.owner[fd] = IF fd \in fds THEN NoOne ELSE n.owner[fd]
                  /\ m.remote[fd] = IF fd \in fds THEN NULL ELSE n.remote[fd]
             /\ m.polls = n.polls /\ m.crashed = n.crashed
             /\ (\A fd \in fds \ {None} : n.owner[fd] = o) => m.foul = n.foul
BY DEF CloseSockets, IsNet

(* sys_rmpollfn takes one poll function off each of the descriptors.       *)
LEMMA RmPollFnsEffect ==
  ASSUME NEW objects, NEW n, IsNet(n, objects), NEW fds
  PROVE  LET m == RmPollFns(n, fds)
         IN  /\ IsNet(m, objects)
             /\ \A fd \in Fds :
                  m.polls[fd] = IF fd \in fds /\ n.polls[fd] # <<>>
                                THEN Tail(n.polls[fd]) ELSE n.polls[fd]
             /\ m.owner = n.owner /\ m.remote = n.remote
             /\ m.foul = n.foul /\ m.crashed = n.crashed
<1>1. \A fd \in Fds : n.polls[fd] # <<>> =>
        Tail(n.polls[fd]) \in Seq(objects \X Nat)
  <2>1. n.polls \in [Fds -> Seq(objects \X Nat)]
    BY DEF IsNet
  <2> QED
    BY <2>1, HeadTailProperties
<1> QED
  BY <1>1 DEF RmPollFns, IsNet

(* socket(2) gives a descriptor to its new owner.                          *)
LEMMA OpenEffect ==
  ASSUME NEW objects, NEW n, IsNet(n, objects), NEW o \in objects,
         NEW fd \in Fds, NEW r \in {NULL, "up", "dead"} \cup Ports
  PROVE  LET m == Open(n, o, fd, r)
         IN  /\ IsNet(m, objects)
             /\ \A f \in Fds :
                  /\ m.owner[f] = IF f = fd THEN o ELSE n.owner[f]
                  /\ m.remote[f] = IF f = fd THEN r ELSE n.remote[f]
             /\ m.polls = n.polls /\ m.foul = n.foul /\ m.crashed = n.crashed
BY DEF Open, IsNet

(* sys_addpollfn puts a poll function behind those the descriptor has.     *)
LEMMA AddPollFnEffect ==
  ASSUME NEW objects, NEW n, IsNet(n, objects), NEW o \in objects,
         NEW fd \in Fds, NEW arg \in Nat
  PROVE  LET m == AddPollFn(n, fd, o, arg)
         IN  /\ IsNet(m, objects)
             /\ \A f \in Fds :
                  m.polls[f] = IF f = fd THEN Append(n.polls[f], <<o, arg>>)
                               ELSE n.polls[f]
             /\ m.owner = n.owner /\ m.remote = n.remote
             /\ m.foul = n.foul /\ m.crashed = n.crashed
<1>1. Append(n.polls[fd], <<o, arg>>) \in Seq(objects \X Nat)
  <2>1. n.polls[fd] \in Seq(objects \X Nat)
    BY DEF IsNet
  <2>2. <<o, arg>> \in objects \X Nat
    OBVIOUS
  <2> QED
    BY <2>1, <2>2, AppendProperties
<1> QED
  BY <1>1 DEF AddPollFn, IsNet

(* A set of naturals has a smallest element: a search from the front finds *)
(* what there is to find.                                                  *)
LEMMA FirstOfNats ==
  ASSUME NEW S \in SUBSET Nat, S # {}
  PROVE  \E i \in S : \A j \in S : i <= j
<1>1. IsWellFoundedOn(OpToRel(<, Nat), Nat)
  BY NatLessThanWellFounded
<1>2. PICK i \in S : \A j \in S : ~ (<<j, i>> \in OpToRel(<, Nat))
  BY <1>1, WFMin
<1>3. \A j \in S : ~ (j < i)
  BY <1>2 DEF OpToRel
<1> QED
  BY <1>3
----------------------------------------------------------------------------
(* Descriptors given up, and one taken, by an object.                      *)
Released(n, m, fds) ==
  \A fd \in Fds :
    /\ m.owner[fd] = IF fd \in fds THEN NoOne ELSE n.owner[fd]
    /\ m.polls[fd] = IF fd \in fds THEN <<>> ELSE n.polls[fd]

Acquired(n, m, sock, o, polls) ==
  /\ n.owner[sock] = NoOne
  /\ \A fd \in Fds :
       /\ m.owner[fd] = IF fd = sock THEN o ELSE n.owner[fd]
       /\ m.polls[fd] = IF fd = sock THEN polls ELSE n.polls[fd]

(* The ports and peers of the descriptors, before and after.               *)
RemotesKept(n, m, fds) ==
  \A fd \in Fds : fd \notin fds => m.remote[fd] = n.remote[fd]

(* A receiver destroyed and its socket closed: when the caller has the     *)
(* sockets open and each has one poll function, nothing of them is left.   *)
LEMMA ReleaseEffect ==
  ASSUME NEW objects, NEW n, IsNet(n, objects), NEW o, NEW fds, NEW polled,
         \A fd \in Fds : fd \in polled <=> fd \in fds,
         \A fd \in fds \ {None} : fd \in Fds /\ n.owner[fd] = o,
         \A fd \in fds \ {None} : \E x : n.polls[fd] = <<x>>
  PROVE  LET m == CloseSockets(RmPollFns(n, polled), o, fds)
         IN  /\ IsNet(m, objects) /\ Released(n, m, fds)
             /\ RemotesKept(n, m, fds)
             /\ m.foul = n.foul /\ m.crashed = n.crashed
<1> DEFINE k == RmPollFns(n, polled)
           m == CloseSockets(k, o, fds)
<1>1. /\ IsNet(k, objects) /\ k.owner = n.owner /\ k.foul = n.foul
      /\ k.remote = n.remote /\ k.crashed = n.crashed
      /\ \A fd \in Fds : k.polls[fd] = IF fd \in polled /\ n.polls[fd] # <<>>
                                       THEN Tail(n.polls[fd]) ELSE n.polls[fd]
  BY RmPollFnsEffect
<1> HIDE DEF k
<1>2. /\ IsNet(m, objects) /\ m.polls = k.polls /\ m.foul = k.foul
      /\ m.crashed = k.crashed
      /\ \A fd \in Fds :
           /\ m.owner[fd] = IF fd \in fds THEN NoOne ELSE k.owner[fd]
           /\ m.remote[fd] = IF fd \in fds THEN NULL ELSE k.remote[fd]
  <2>1. \A fd \in fds \ {None} : k.owner[fd] = o
    BY <1>1
  <2> QED
    BY <1>1, <2>1, CloseSocketsEffect
<1> HIDE DEF m
<1>3. ASSUME NEW fd \in Fds
      PROVE  m.polls[fd] = IF fd \in fds THEN <<>> ELSE n.polls[fd]
  <2>1. CASE fd \in fds
    <3>1. fd \in polled /\ fd # None
      BY <2>1, FdsAssumption DEF None
    <3>2. PICK x : n.polls[fd] = <<x>>
      BY <2>1, <3>1
    <3>3. n.polls[fd] # <<>> /\ Tail(n.polls[fd]) = <<>>
      BY <3>2, OnePollFn
    <3> QED
      BY <1>1, <1>2, <2>1, <3>1, <3>3
  <2>2. CASE fd \notin fds
    BY <1>1, <1>2, <2>2
  <2> QED
    BY <2>1, <2>2
<1>4. Released(n, m, fds) /\ RemotesKept(n, m, fds)
  BY <1>1, <1>2, <1>3 DEF Released, RemotesKept
<1> QED
  BY <1>1, <1>2, <1>4 DEF m, k

(* A socket closed that nobody polled.                                     *)
LEMMA CloseEffect ==
  ASSUME NEW objects, NEW n, IsNet(n, objects), NEW o, NEW fds,
         \A fd \in fds \ {None} : n.owner[fd] = o /\ n.polls[fd] = <<>>
  PROVE  LET m == CloseSockets(n, o, fds)
         IN  /\ IsNet(m, objects) /\ Released(n, m, fds)
             /\ RemotesKept(n, m, fds)
             /\ m.foul = n.foul /\ m.crashed = n.crashed
<1>1. \A fd \in Fds : fd \in fds => n.polls[fd] = <<>>
  BY FdsAssumption DEF None
<1> QED
  BY <1>1, CloseSocketsEffect DEF Released, RemotesKept

(* What two functions give up one after the other is given up by both      *)
(* together.                                                               *)
LEMMA ReleasedTwice ==
  ASSUME NEW n, NEW k, NEW m, NEW S, NEW T,
         Released(n, k, S), Released(k, m, T)
  PROVE  Released(n, m, S \cup T)
BY DEF Released

(* A socket opened with a receiver, and one without.                       *)
LEMMA AcquireEffect ==
  ASSUME NEW objects, NEW n, IsNet(n, objects), NEW o \in objects,
         NEW sock \in Fds, n.owner[sock] = NoOne, n.polls[sock] = <<>>,
         NEW r \in {NULL, "up", "dead"} \cup Ports, NEW arg \in Nat
  PROVE  LET m == AddPollFn(Open(n, o, sock, r), sock, o, arg)
         IN  /\ IsNet(m, objects) /\ Acquired(n, m, sock, o, <<<<o, arg>>>>)
             /\ m.foul = n.foul /\ m.crashed = n.crashed
<1> DEFINE k == Open(n, o, sock, r)
           m == AddPollFn(k, sock, o, arg)
<1>1. /\ IsNet(k, objects)
      /\ \A f \in Fds : k.owner[f] = IF f = sock THEN o ELSE n.owner[f]
      /\ k.polls = n.polls /\ k.foul = n.foul /\ k.crashed = n.crashed
  BY OpenEffect
<1> HIDE DEF k
<1>2. /\ IsNet(m, objects) /\ m.owner = k.owner
      /\ \A f \in Fds :
           m.polls[f] = IF f = sock THEN Append(k.polls[f], <<o, arg>>)
                        ELSE k.polls[f]
      /\ m.foul = k.foul /\ m.crashed = k.crashed
  BY <1>1, AddPollFnEffect
<1> HIDE DEF m
<1>3. Append(<<>>, <<o, arg>>) = <<<<o, arg>>>>
  OBVIOUS
<1>4. Acquired(n, m, sock, o, <<<<o, arg>>>>)
  BY <1>1, <1>2, <1>3 DEF Acquired
<1> QED
  BY <1>1, <1>2, <1>4 DEF m, k

(* A socket opened without a receiver, as by [tcpsend], is held and not    *)
(* polled.                                                                 *)
LEMMA OpenOnlyEffect ==
  ASSUME NEW objects, NEW n, IsNet(n, objects), NEW o \in objects,
         NEW sock \in Fds, n.owner[sock] = NoOne, n.polls[sock] = <<>>,
         NEW r \in {NULL, "up", "dead"} \cup Ports
  PROVE  LET m == Open(n, o, sock, r)
         IN  /\ IsNet(m, objects) /\ Acquired(n, m, sock, o, <<>>)
             /\ m.foul = n.foul /\ m.crashed = n.crashed
<1> DEFINE m == Open(n, o, sock, r)
<1>1. /\ IsNet(m, objects)
      /\ \A f \in Fds : m.owner[f] = IF f = sock THEN o ELSE n.owner[f]
      /\ m.polls = n.polls /\ m.foul = n.foul /\ m.crashed = n.crashed
  BY OpenEffect
<1> HIDE DEF m
<1>2. Acquired(n, m, sock, o, <<>>)
  BY <1>1 DEF Acquired
<1> QED
  BY <1>1, <1>2 DEF m

(* Opening and polling a socket changes what is at the other end of that   *)
(* socket only.                                                            *)
LEMMA OpenRemotes ==
  ASSUME NEW objects, NEW n, IsNet(n, objects), NEW o \in objects,
         NEW sock \in Fds, NEW r \in {NULL, "up", "dead"} \cup Ports,
         NEW arg \in Nat
  PROVE  LET k == Open(n, o, sock, r)
             m == AddPollFn(k, sock, o, arg)
         IN  /\ RemotesKept(n, k, {sock}) /\ k.remote[sock] = r
             /\ RemotesKept(n, m, {sock}) /\ m.remote[sock] = r
BY DEF Open, AddPollFn, IsNet, RemotesKept
============================================================================
