--------------------------- MODULE UdpPatchProofs --------------------------
(***************************************************************************)
(* Proofs about module UdpPatch, for any descriptors, ports and messages,  *)
(* and for messages that arrive from inside any outlet: the objects use    *)
(* and report the sockets they have open, and what is put out was sent.    *)
(***************************************************************************)
EXTENDS UdpPatch, NetProofs, FiniteSetTheorems

----------------------------------------------------------------------------
(* In "n", the descriptor fd that object o goes by is open and set up for  *)
(* some port; o has no other one open.                                     *)
HeldAs(n, o, fd) ==
  fd # None => fd \in Fds /\ n.owner[fd] = o /\ n.remote[fd] \in Ports
Sole(n, o, fd) == \A f \in Fds : n.owner[f] = o => f = fd

(* From "n" to "m" nothing happens to the descriptor fd of object o.       *)
Undisturbed(n, m, o, fd) ==
  /\ HeldAs(m, o, fd) /\ (fd # None => m.remote[fd] = n.remote[fd])
  /\ Sole(n, o, fd) => Sole(m, o, fd)

(* A descriptor is polled for its owner, unless that only sends.           *)
Polls(o) == IF o \in {UdpClient, UdpReceive} THEN <<<<o, 0>>>> ELSE <<>>
PolledFor(n) == \A fd \in Fds : n.polls[fd] = Polls(n.owner[fd])

(* The chunks of the messages that senders have taken; only those are in   *)
(* queues, on the wire and in the hands of a suspended read.               *)
SentChunks == {ChunkCreateList(l) : l \in sent} \ {NoChunk}

SentSenders == [state : SenderStates, queue : Seq(SentChunks)]

Frames ==
  {<<"udpreceive_port">>, <<"udpclient_info", NULL>>}
    \cup {<<UdpClient, num>> : num \in {0, 1}}
    \cup {<<"udpclient_connect", p>> : p \in {q \in Ports : UdpClient \in live}}
    \cup {<<"udpreceive_read", c>> : c \in SentChunks}

(* The only report that has not reached the connection outlet yet is of    *)
(* the number num.                                                         *)
Lone(frames, num) ==
  \A k \in DOMAIN frames : frames[k][1] = UdpClient =>
    /\ frames[k] = <<UdpClient, num>>
    /\ \A j \in DOMAIN frames : frames[j][1] = UdpClient => j = k

StackOK ==
  /\ stack \in Seq(Frames) /\ Len(stack) <= MaxNest + 2
  /\ ~uc.nested => Lone(stack, uc.said)

SharedInv ==
  /\ IsNet(net, UdpObjects) /\ live \subseteq UdpObjects
  /\ sent \subseteq Lists /\ wire \subseteq [port : Ports, data : SentChunks]
  /\ StackOK
  /\ nosender \subseteq {UdpClient, UdpSend}
  /\ PolledFor(net)

(* [udpclient]: the receiver and the sender are those of the socket; a     *)
(* reported connection has a socket; without a sender there is no socket,  *)
(* unless the send thread could not be started.                            *)
UdpClientInv ==
  /\ uc \in [x_fd : Fds \cup {None}, x_connectstate : {0, 1},
             x_sender : SentSenders, x_receiver : Fds \cup {None},
             said : {0, 1}, nested : BOOLEAN]
  /\ Len(uc.x_sender.queue) <= MaxQueue
  /\ HeldAs(net, UdpClient, uc.x_fd)
  /\ UdpClient \notin nosender => Sole(net, UdpClient, uc.x_fd)
  /\ uc.x_receiver = uc.x_fd
  /\ uc.x_fd = None => /\ uc.x_sender.state = NULL
                       /\ uc.x_connectstate = 0 /\ uc.said = 0
  /\ uc.x_fd # None /\ UdpClient \notin nosender => uc.x_sender.state # NULL
  /\ UdpClient \notin live => uc.x_fd = None

UdpSendInv ==
  /\ us \in [x_fd : Fds \cup {None},
             x_sender : SentSenders,
             told : {0, 1}]
  /\ Len(us.x_sender.queue) <= MaxQueue
  /\ HeldAs(net, UdpSend, us.x_fd)
  /\ UdpSend \notin nosender => Sole(net, UdpSend, us.x_fd)
  /\ us.x_fd = None => us.x_sender.state = NULL /\ us.told = 0
  /\ us.x_fd # None /\ UdpSend \notin nosender => us.x_sender.state # NULL
  /\ UdpSend \notin live => us.x_fd = None

(* [udpreceive]: the port is the one of the socket, what is told is the    *)
(* port, and what is put out is a chunk that was sent.                     *)
UdpReceiveInv ==
  /\ ur \in [x_fd : Fds \cup {None}, x_port : Ports \cup {NoPort},
             x_receiver : Fds \cup {None},
             x_floatlist : [argc : Nat, size : Nat, argv : Seq(Int)],
             told : Ports \cup {NoPort, Untold}, out : Seq(Int)]
  /\ Len(ur.x_floatlist.argv) = ur.x_floatlist.size
  /\ ur.x_floatlist.argc <= ur.x_floatlist.size
  /\ HeldAs(net, UdpReceive, ur.x_fd) /\ Sole(net, UdpReceive, ur.x_fd)
  /\ ur.x_receiver = ur.x_fd
  /\ ur.x_port = IF ur.x_fd = None THEN NoPort ELSE net.remote[ur.x_fd]
  /\ ur.told \in {ur.x_port, Untold}
  /\ ur.out \in SentChunks \cup {<<>>}
  /\ UdpReceive \notin live => ur.x_fd = None

UdpInv == SharedInv /\ UdpClientInv /\ UdpSendInv /\ UdpReceiveInv
----------------------------------------------------------------------------
(* The value for "no descriptor" is not one.                               *)
LEMMA NoneIsNoFd == None \notin Fds
BY FdsAssumption DEF None

(* An object that gives up its descriptor has none left if it was the      *)
(* only one; the others keep theirs.                                       *)
LEMMA Releases ==
  ASSUME NEW n, NEW m, NEW o \in UdpObjects, NEW x,
         PolledFor(n), HeldAs(n, o, x),
         Released(n, m, {x}), RemotesKept(n, m, {x})
  PROVE  /\ PolledFor(m) /\ HeldAs(m, o, None)
         /\ Sole(n, o, x) => Sole(m, o, None)
<1>1. NoOne \notin UdpObjects /\ Polls(NoOne) = <<>>
  BY DEF UdpObjects, NoOne, UdpClient, UdpSend, UdpReceive, Polls
<1>2. PolledFor(m)
  BY <1>1 DEF PolledFor, Released
<1>3. Sole(n, o, x) => Sole(m, o, None)
  BY <1>1 DEF Sole, Released
<1> QED
  BY <1>2, <1>3 DEF HeldAs

(* What one object closes, no other object holds.                          *)
LEMMA ReleasesOther ==
  ASSUME NEW n, NEW m, NEW o \in UdpObjects, NEW x, HeldAs(n, o, x),
         Released(n, m, {x}), RemotesKept(n, m, {x}),
         NEW p \in UdpObjects, p # o, NEW y, HeldAs(n, p, y)
  PROVE  Undisturbed(n, m, p, y)
<1>1. NoOne \notin UdpObjects
  BY DEF UdpObjects, NoOne, UdpClient, UdpSend, UdpReceive
<1>2. y # None => y \in Fds /\ y # x
  BY NoneIsNoFd DEF HeldAs
<1>3. /\ HeldAs(m, p, y) /\ (y # None => m.remote[y] = n.remote[y])
  BY <1>2 DEF HeldAs, Released, RemotesKept
<1>4. Sole(n, p, y) => Sole(m, p, y)
  BY <1>1 DEF Sole, Released
<1> QED
  BY <1>3, <1>4 DEF Undisturbed

(* An object that had no descriptor goes by the one it opens, which is     *)
(* its only one; one that had others open goes by the new one as well.     *)
LEMMA Acquires ==
  ASSUME NEW n, NEW m, NEW o \in UdpObjects, NEW x \in Fds,
         PolledFor(n), Acquired(n, m, x, o, Polls(o)), m.remote[x] \in Ports
  PROVE  /\ PolledFor(m) /\ HeldAs(m, o, x)
         /\ Sole(n, o, None) => Sole(m, o, x)
<1>1. PolledFor(m)
  BY DEF PolledFor, Acquired
<1>2. HeldAs(m, o, x)
  BY DEF HeldAs, Acquired
<1>3. Sole(n, o, None) => Sole(m, o, x)
  BY NoneIsNoFd DEF Sole, Acquired
<1> QED
  BY <1>1, <1>2, <1>3

(* What one object opens, no other object holds.                           *)
LEMMA AcquiresOther ==
  ASSUME NEW n, NEW m, NEW o \in UdpObjects, NEW x \in Fds, NEW q,
         Acquired(n, m, x, o, q), RemotesKept(n, m, {x}),
         NEW p \in UdpObjects, p # o, NEW y, HeldAs(n, p, y)
  PROVE  Undisturbed(n, m, p, y)
<1>1. NoOne \notin UdpObjects
  BY DEF UdpObjects, NoOne, UdpClient, UdpSend, UdpReceive
<1>2. y # None => y \in Fds /\ y # x
  BY <1>1 DEF HeldAs, Acquired
<1>3. /\ HeldAs(m, p, y) /\ (y # None => m.remote[y] = n.remote[y])
  BY <1>2 DEF HeldAs, Acquired, RemotesKept
<1>4. Sole(n, p, y) => Sole(m, p, y)
  BY <1>1 DEF Sole, Acquired
<1> QED
  BY <1>3, <1>4 DEF Undisturbed

----------------------------------------------------------------------------
(* The messages taken only grow, and what holds chunks of them still does. *)
LEMMA SentGrows ==
  ASSUME sent \subseteq sent'
  PROVE  /\ SentChunks \subseteq SentChunks'
         /\ Seq(SentChunks) \subseteq Seq(SentChunks')
         /\ SentSenders \subseteq SentSenders'
         /\ [port : Ports, data : SentChunks]
              \subseteq [port : Ports, data : SentChunks']
<1>1. SentChunks \subseteq SentChunks'
  BY DEF SentChunks
<1>2. Seq(SentChunks) \subseteq Seq(SentChunks')
  BY <1>1, SeqGrows
<1> QED
  BY <1>1, <1>2 DEF SentSenders

(* What an action has to show of an object that it leaves alone.           *)
LEMMA UdpClientKept ==
  ASSUME UdpInv, sent \subseteq sent', UNCHANGED uc,
         UdpClient \in nosender <=> UdpClient \in nosender',
         UdpClient \in live <=> UdpClient \in live',
         Undisturbed(net, net', UdpClient, uc.x_fd)
  PROVE  UdpClientInv'
BY SentGrows DEF UdpInv, UdpClientInv, Undisturbed

(* [udpsend] is left alone by a step of another object.                    *)
LEMMA UdpSendKept ==
  ASSUME UdpInv, sent \subseteq sent', UNCHANGED us,
         UdpSend \in nosender <=> UdpSend \in nosender',
         UdpSend \in live <=> UdpSend \in live',
         Undisturbed(net, net', UdpSend, us.x_fd)
  PROVE  UdpSendInv'
BY SentGrows DEF UdpInv, UdpSendInv, Undisturbed

(* [udpreceive] is left alone by a step of another object.                 *)
LEMMA UdpReceiveKept ==
  ASSUME UdpInv, sent \subseteq sent', UNCHANGED ur,
         UdpReceive \in live <=> UdpReceive \in live',
         Undisturbed(net, net', UdpReceive, ur.x_fd)
  PROVE  UdpReceiveInv'
BY SentGrows DEF UdpInv, UdpReceiveInv, Undisturbed

(* A step that leaves the descriptors alone disturbs nobody.               *)
LEMMA AllUndisturbed ==
  ASSUME UdpInv, UNCHANGED net
  PROVE  /\ Undisturbed(net, net', UdpClient, uc.x_fd)
         /\ Undisturbed(net, net', UdpSend, us.x_fd)
         /\ Undisturbed(net, net', UdpReceive, ur.x_fd)
BY DEF UdpInv, UdpClientInv, UdpSendInv, UdpReceiveInv, Undisturbed, HeldAs,
       Sole

(* The stack: what is suspended stays possible, a function goes on top of  *)
(* it, and one resumes from there.                                         *)
LEMMA FramesGrow ==
  ASSUME sent \subseteq sent', UdpClient \in live => UdpClient \in live'
  PROVE  Frames \subseteq Frames' /\ Seq(Frames) \subseteq Seq(Frames')
<1>1. Frames \subseteq Frames'
  BY SentGrows DEF Frames
<1> QED
  BY <1>1, SeqGrows

(* The functions waiting for an outlet to return stay as they are.         *)
LEMMA StackKept ==
  ASSUME UdpInv, sent \subseteq sent', UNCHANGED stack,
         \/ stack = <<>>
         \/ /\ UdpClient \in live => UdpClient \in live'
            /\ uc'.said = uc.said /\ uc'.nested = uc.nested
  PROVE  StackOK'
<1>1. StackOK
  BY DEF UdpInv, SharedInv
<1>2. CASE stack = <<>>
  BY <1>1, <1>2 DEF StackOK, Lone
<1>3. CASE /\ UdpClient \in live => UdpClient \in live'
           /\ uc'.said = uc.said /\ uc'.nested = uc.nested
  <2>1. stack' \in Seq(Frames') /\ Len(stack') <= MaxNest + 2
    BY <1>1, <1>3, FramesGrow DEF StackOK
  <2>2. ~uc'.nested => Lone(stack', uc'.said)
    BY <1>1, <1>3 DEF StackOK
  <2> QED
    BY <2>1, <2>2 DEF StackOK
<1> QED
  BY <1>2, <1>3

(* What a report under way means for the frames below and above one.       *)
LEMMA LoneBelow ==
  ASSUME NEW S, NEW s \in Seq(S), s # <<>>
  PROVE  /\ \A num : Lone(s, num) => Lone(Tail(s), num)
         /\ \A num : Lone(s, num) /\ Head(s)[1] = UdpClient =>
                      ~Reporting(UdpClient, Tail(s))
         /\ ~Reporting(UdpClient, s) => ~Reporting(UdpClient, Tail(s))
<1>1. /\ DOMAIN s = 1 .. Len(s) /\ Len(s) \in Nat /\ Len(s) >= 1
      /\ Head(s) = s[1] /\ 1 \in DOMAIN s
      /\ DOMAIN Tail(s) = 1 .. Len(s) - 1
      /\ \A k \in 1 .. Len(s) - 1 : Tail(s)[k] = s[k + 1] /\ k + 1 \in DOMAIN s
  OBVIOUS
<1>2. ASSUME NEW num, Lone(s, num)
      PROVE  Lone(Tail(s), num)
  <2> SUFFICES ASSUME NEW k \in DOMAIN Tail(s), Tail(s)[k][1] = UdpClient
               PROVE  /\ Tail(s)[k] = <<UdpClient, num>>
                      /\ \A j \in DOMAIN Tail(s) :
                           Tail(s)[j][1] = UdpClient => j = k
    BY DEF Lone
  <2>1. k + 1 \in DOMAIN s /\ s[k + 1] = Tail(s)[k] /\ k \in Nat
    BY <1>1
  <2>2. /\ s[k + 1] = <<UdpClient, num>>
        /\ \A j \in DOMAIN s : s[j][1] = UdpClient => j = k + 1
    BY <1>2, <2>1 DEF Lone
  <2>3. ASSUME NEW j \in DOMAIN Tail(s), Tail(s)[j][1] = UdpClient
        PROVE  j = k
    <3>1. j + 1 \in DOMAIN s /\ s[j + 1][1] = UdpClient /\ j \in Nat
      BY <1>1, <2>3
    <3>2. j + 1 = k + 1
      BY <2>2, <3>1
    <3> QED
      BY <2>1, <3>1, <3>2
  <2> QED
    BY <2>1, <2>2, <2>3
<1>3. ASSUME NEW num, Lone(s, num), Head(s)[1] = UdpClient,
             Reporting(UdpClient, Tail(s))
      PROVE  FALSE
  <2>1. PICK k \in DOMAIN Tail(s) : Tail(s)[k][1] = UdpClient
    BY <1>3 DEF Reporting
  <2>2. k + 1 \in DOMAIN s /\ s[k + 1][1] = UdpClient /\ k \in Nat /\ k >= 1
    BY <1>1, <2>1
  <2>3. k + 1 = 1
    BY <1>1, <1>3, <2>2 DEF Lone
  <2> QED
    BY <2>2, <2>3
<1>4. Reporting(UdpClient, Tail(s)) => Reporting(UdpClient, s)
  BY <1>1 DEF Reporting
<1> QED
  BY <1>2, <1>3, <1>4

(* A function other than a report goes on top.                             *)
LEMMA LoneAbove ==
  ASSUME NEW S, NEW s \in Seq(S), NEW f, f[1] # UdpClient
  PROVE  /\ \A num : Lone(s, num) => Lone(<<f>> \o s, num)
         /\ ~Reporting(UdpClient, s) => ~Reporting(UdpClient, <<f>> \o s)
<1> DEFINE t == <<f>> \o s
<1>1. /\ DOMAIN t = 1 .. Len(s) + 1 /\ DOMAIN s = 1 .. Len(s) /\ t[1] = f
      /\ \A k \in 1 .. Len(s) : t[k + 1] = s[k] /\ k + 1 \in DOMAIN t
      /\ \A k \in 1 .. Len(s) + 1 : k = 1 \/ k - 1 \in 1 .. Len(s)
      /\ Len(s) \in Nat
  OBVIOUS
<1>2. \A k \in DOMAIN t : t[k][1] = UdpClient =>
        k \in Int /\ k - 1 \in DOMAIN s /\ t[k] = s[k - 1]
  <2> SUFFICES ASSUME NEW k \in DOMAIN t, t[k][1] = UdpClient
               PROVE  k \in Int /\ k - 1 \in DOMAIN s /\ t[k] = s[k - 1]
    OBVIOUS
  <2> HIDE DEF t
  <2>1. k # 1 /\ k \in Int
    BY <1>1
  <2>2. k - 1 \in 1 .. Len(s) /\ (k - 1) + 1 = k
    BY <1>1, <2>1
  <2> QED
    BY <1>1, <2>1, <2>2
<1> HIDE DEF t
<1>3. ASSUME NEW num, Lone(s, num)
      PROVE  Lone(t, num)
  <2> SUFFICES ASSUME NEW k \in DOMAIN t, t[k][1] = UdpClient
               PROVE  /\ t[k] = <<UdpClient, num>>
                      /\ \A j \in DOMAIN t : t[j][1] = UdpClient => j = k
    BY DEF Lone
  <2>1. k \in Int /\ k - 1 \in DOMAIN s /\ t[k] = s[k - 1]
    BY <1>2
  <2>2. /\ s[k - 1] = <<UdpClient, num>>
        /\ \A j \in DOMAIN s : s[j][1] = UdpClient => j = k - 1
    BY <1>3, <2>1 DEF Lone
  <2>3. ASSUME NEW j \in DOMAIN t, t[j][1] = UdpClient
        PROVE  j = k
    <3>1. j \in Int /\ j - 1 \in DOMAIN s /\ t[j] = s[j - 1]
      BY <1>2, <2>3
    <3>2. j - 1 = k - 1
      BY <2>2, <2>3, <3>1
    <3> QED
      BY <2>1, <3>1, <3>2
  <2> QED
    BY <2>1, <2>2, <2>3
<1>4. Reporting(UdpClient, t) => Reporting(UdpClient, s)
  BY <1>2 DEF Reporting
<1> QED
  BY <1>3, <1>4 DEF t

(* A report begins while no other one is under way.                        *)
LEMMA LoneReport ==
  ASSUME NEW S, NEW s \in Seq(S), NEW num, ~Reporting(UdpClient, s)
  PROVE  Lone(<<<<UdpClient, num>>>> \o s, num)
<1> DEFINE f == <<UdpClient, num>>
           t == <<f>> \o s
<1>1. /\ DOMAIN t = 1 .. Len(s) + 1 /\ DOMAIN s = 1 .. Len(s) /\ t[1] = f
      /\ \A k \in 1 .. Len(s) : t[k + 1] = s[k]
      /\ \A k \in 1 .. Len(s) + 1 : k = 1 \/ k - 1 \in 1 .. Len(s)
      /\ Len(s) \in Nat
  OBVIOUS
<1> HIDE DEF t
<1>2. \A k \in DOMAIN t : t[k][1] = UdpClient => k = 1
  <2> SUFFICES ASSUME NEW k \in DOMAIN t, k # 1
               PROVE  t[k][1] # UdpClient
    OBVIOUS
  <2>1. k - 1 \in 1 .. Len(s) /\ (k - 1) + 1 = k
    BY <1>1
  <2>2. t[k] = s[k - 1]
    BY <1>1, <2>1
  <2> QED
    BY <1>1, <2>1, <2>2 DEF Reporting
<1>3. Lone(t, num)
  BY <1>1, <1>2 DEF Lone
<1> QED
  BY <1>3 DEF t

(* What a function leaves on the stack below what it pushes: the stack, or *)
(* what is left of it when it resumes, with something to do later.         *)
RestOK(rest) ==
  /\ rest \in Seq(Frames') /\ Len(rest) <= MaxNest + 1
  /\ \A num : Lone(stack, num) => Lone(rest, num)
  /\ ~Reporting(UdpClient, stack) => ~Reporting(UdpClient, rest)

(* A message is handled, at top level or from inside an outlet.            *)
LEMMA StackIsRest ==
  ASSUME UdpInv, sent \subseteq sent', UNCHANGED live,
         stack = <<>> \/ Len(stack) < MaxNest
  PROVE  RestOK(stack) /\ Len(stack) <= MaxNest
<1>1. stack \in Seq(Frames)
  BY DEF UdpInv, SharedInv, StackOK
<1>2. stack \in Seq(Frames') /\ Len(stack) <= MaxNest
  BY <1>1, FramesGrow, NestAssumption
<1>3. Len(stack) <= MaxNest + 1
  BY <1>2, NestAssumption
<1> QED
  BY <1>2, <1>3 DEF RestOK

(* The function on top resumes.                                            *)
LEMMA TailIsRest ==
  ASSUME UdpInv, sent \subseteq sent', UNCHANGED live, stack # <<>>
  PROVE  RestOK(Tail(stack)) /\ Head(stack) \in Frames
<1>1. stack \in Seq(Frames) /\ Len(stack) <= MaxNest + 2
  BY DEF UdpInv, SharedInv, StackOK
<1>2. stack \in Seq(Frames')
  BY <1>1, FramesGrow
<1>3. Tail(stack) \in Seq(Frames') /\ Len(Tail(stack)) <= MaxNest + 1
  BY <1>1, <1>2, StackShrinks, NestAssumption
<1>4. Head(stack) \in Frames
  BY <1>1
<1> QED
  BY <1>1, <1>3, <1>4, LoneBelow DEF RestOK

(* udpclient_connect is left to go on after the report it begins with.     *)
LEMMA ConnectIsRest ==
  ASSUME UdpInv, sent \subseteq sent', UNCHANGED live, UdpClient \in live,
         stack = <<>> \/ Len(stack) < MaxNest, NEW p \in Ports
  PROVE  RestOK(<<<<"udpclient_connect", p>>>> \o stack)
<1> DEFINE f == <<"udpclient_connect", p>>
<1>1. f \in Frames' /\ f[1] # UdpClient
  BY DEF Frames, UdpClient
<1> HIDE DEF f
<1>2. RestOK(stack) /\ Len(stack) <= MaxNest
  BY StackIsRest
<1>3. <<f>> \o stack \in Seq(Frames') /\ Len(<<f>> \o stack) <= MaxNest + 1
  BY <1>1, <1>2, StackGrows, NestAssumption DEF RestOK
<1>4. /\ \A num : Lone(stack, num) => Lone(<<f>> \o stack, num)
      /\ ~Reporting(UdpClient, stack) => ~Reporting(UdpClient, <<f>> \o stack)
  BY <1>1, <1>2, LoneAbove DEF RestOK
<1>5. RestOK(<<f>> \o stack)
  BY <1>3, <1>4 DEF RestOK
<1> QED
  BY <1>5 DEF f

(* A function calls an outlet and waits ...                                *)
LEMMA StackPushed ==
  ASSUME UdpInv, NEW f \in Frames', f[1] # UdpClient, NEW rest, RestOK(rest),
         stack' = <<f>> \o rest, uc'.said = uc.said, uc'.nested = uc.nested
  PROVE  StackOK'
<1>1. rest \in Seq(Frames') /\ Len(rest) <= MaxNest + 1
  BY DEF RestOK
<1>2. stack' \in Seq(Frames') /\ Len(stack') <= MaxNest + 2
  BY <1>1, StackGrows, NestAssumption
<1>3. ~uc.nested => Lone(stack', uc.said)
  BY <1>1, LoneAbove DEF RestOK, UdpInv, SharedInv, StackOK
<1> QED
  BY <1>2, <1>3 DEF StackOK

(* ... reports a number ...                                                *)
LEMMA StackReports ==
  ASSUME UdpInv, NEW num \in {0, 1}, NEW rest, RestOK(rest),
         stack' = <<<<UdpClient, num>>>> \o rest,
         uc'.said = num, uc'.nested = Reporting(UdpClient, stack)
  PROVE  StackOK'
<1> DEFINE f == <<UdpClient, num>>
<1>1. rest \in Seq(Frames') /\ Len(rest) <= MaxNest + 1
  BY DEF RestOK
<1>2. f \in Frames'
  BY DEF Frames
<1>3. ~Reporting(UdpClient, stack) => Lone(<<f>> \o rest, num)
  BY <1>1, LoneReport DEF RestOK
<1> HIDE DEF f
<1>4. <<f>> \o rest \in Seq(Frames') /\ Len(<<f>> \o rest) <= MaxNest + 2
  BY <1>1, <1>2, StackGrows, NestAssumption
<1>5. stack' = <<f>> \o rest
  BY DEF f
<1> QED
  BY <1>3, <1>4, <1>5 DEF StackOK

(* ... or an outlet returns ...                                            *)
LEMMA StackPopped ==
  ASSUME UdpInv, sent \subseteq sent', UNCHANGED live,
         stack # <<>>, stack' = Tail(stack),
         uc'.said = uc.said, uc'.nested = uc.nested
  PROVE  StackOK'
<1>1. RestOK(Tail(stack))
  BY TailIsRest
<1>2. Len(Tail(stack)) <= MaxNest + 2
  BY <1>1, NestAssumption DEF RestOK
<1> QED
  BY <1>1, <1>2 DEF RestOK, UdpInv, SharedInv, StackOK

(* ... and the number reaches the connection outlet: when it is the only   *)
(* one under way, none is left.                                            *)
LEMMA StackConnectOut ==
  ASSUME UdpInv, sent \subseteq sent', UNCHANGED live,
         NEW num, ConnectOut(UdpClient, num), uc'.said = uc.said,
         uc'.nested = (uc.nested /\ Reporting(UdpClient, Tail(stack)))
  PROVE  StackOK'
<1>1. /\ stack # <<>> /\ Head(stack) = <<UdpClient, num>>
      /\ stack' = Tail(stack)
  BY DEF ConnectOut, Resumes
<1>2. RestOK(Tail(stack)) /\ stack \in Seq(Frames)
  BY <1>1, TailIsRest DEF UdpInv, SharedInv, StackOK
<1>3. Len(Tail(stack)) <= MaxNest + 2
  BY <1>2, NestAssumption DEF RestOK
<1>4. ~uc.nested => ~Reporting(UdpClient, Tail(stack))
  BY <1>1, <1>2, LoneBelow DEF UdpInv, SharedInv, StackOK
<1>5. ~Reporting(UdpClient, Tail(stack)) => Lone(Tail(stack), uc.said)
  BY DEF Reporting, Lone
<1> QED
  BY <1>1, <1>2, <1>3, <1>4, <1>5 DEF RestOK, StackOK

(* What the objects share is sound after a step if each part of it is.     *)
LEMMA SharedKept ==
  ASSUME UdpInv, sent \subseteq sent', sent' \subseteq Lists,
         wire' \subseteq [port : Ports, data : SentChunks'],
         IsNet(net', UdpObjects), PolledFor(net'), live' \subseteq UdpObjects,
         nosender' \subseteq {UdpClient, UdpSend}, StackOK'
  PROVE  SharedInv'
BY DEF SharedInv, StackOK

(* A step that neither sends nor receives leaves the network alone.        *)
LEMMA WireKept ==
  ASSUME UdpInv, UNCHANGED <<wire, sent>>
  PROVE  /\ sent \subseteq sent' /\ sent' \subseteq Lists
         /\ wire' \subseteq [port : Ports, data : SentChunks']
BY DEF UdpInv, SharedInv, SentChunks

----------------------------------------------------------------------------
(* What a step does to the sockets: object o gives up the one it goes by,  *)
(* or opens one set up for port r; the other objects do not notice.        *)
OthersUndisturbed(n, m, o) ==
  \A p \in UdpObjects \ {o} : \A y \in Fds \cup {None} :
    HeldAs(n, p, y) => Undisturbed(n, m, p, y)

GivenUp(n, m, o, x) ==
  /\ IsNet(m, UdpObjects) /\ PolledFor(m) /\ HeldAs(m, o, None)
  /\ Sole(n, o, x) => Sole(m, o, None)
  /\ OthersUndisturbed(n, m, o)

Opened1(n, m, o, fd, r) ==
  /\ IsNet(m, UdpObjects) /\ PolledFor(m)
  /\ HeldAs(m, o, fd) /\ m.remote[fd] = r
  /\ Sole(n, o, None) => Sole(m, o, fd)
  /\ OthersUndisturbed(n, m, o)

(* An object that destroys its receiver and closes its socket holds        *)
(* nothing any more, and the others keep what they hold.                   *)
LEMMA GivesUp ==
  ASSUME NEW n, IsNet(n, UdpObjects), PolledFor(n),
         NEW o \in UdpObjects, NEW x, HeldAs(n, o, x), NEW m,
         \/ /\ o \in {UdpClient, UdpReceive}
            /\ m = CloseSocket(ReceiversDestroy(n, {x}), o, x)
         \/ o = UdpSend /\ m = CloseSocket(n, o, x)
  PROVE  GivenUp(n, m, o, x)
<1>1. CASE /\ o \in {UdpClient, UdpReceive}
           /\ m = CloseSocket(ReceiversDestroy(n, {x}), o, x)
  <2>1. m = CloseSockets(RmPollFns(n, {x} \ {None}), o, {x})
    BY <1>1 DEF CloseSocket, ReceiversDestroy
  <2>2. \A fd \in Fds : fd \in {x} \ {None} <=> fd \in {x}
    BY NoneIsNoFd
  <2>3. \A fd \in {x} \ {None} : fd \in Fds /\ n.owner[fd] = o
    BY DEF HeldAs
  <2>4. \A fd \in {x} \ {None} : n.polls[fd] = <<<<o, 0>>>>
    BY <1>1, <2>3 DEF PolledFor, Polls
  <2>5. \A fd \in {x} \ {None} : \E a : n.polls[fd] = <<a>>
    BY <2>4
  <2> HIDE DEF PolledFor, HeldAs
  <2>6. /\ IsNet(m, UdpObjects) /\ Released(n, m, {x})
        /\ RemotesKept(n, m, {x})
    BY <2>1, <2>2, <2>3, <2>5, ReleaseEffect
  <2> QED
    BY <2>6, Releases, ReleasesOther DEF GivenUp, OthersUndisturbed
<1>2. CASE o = UdpSend /\ m = CloseSocket(n, o, x)
  <2>1. \A fd \in {x} \ {None} : n.owner[fd] = o /\ n.polls[fd] = <<>>
    BY <1>2 DEF HeldAs, PolledFor, Polls, UdpSend, UdpClient, UdpReceive
  <2>2. m = CloseSockets(n, o, {x})
    BY <1>2 DEF CloseSocket
  <2>3. /\ IsNet(m, UdpObjects) /\ Released(n, m, {x})
        /\ RemotesKept(n, m, {x})
    BY <2>1, <2>2, CloseEffect
  <2> QED
    BY <2>3, Releases, ReleasesOther DEF GivenUp, OthersUndisturbed
<1> QED
  BY <1>1, <1>2

(* An object that opens a socket, and polls it if it receives, holds that  *)
(* one and the others keep what they hold.                                 *)
LEMMA Opens ==
  ASSUME NEW n, IsNet(n, UdpObjects), PolledFor(n),
         NEW o \in UdpObjects, NEW fd \in Unused(n), NEW r \in Ports, NEW m,
         \/ /\ o \in {UdpClient, UdpReceive}
            /\ m = ReceiverCreate(Open(n, o, fd, r), fd, o, 0)
         \/ o = UdpSend /\ m = Open(n, o, fd, r)
  PROVE  Opened1(n, m, o, fd, r)
<1>1. fd \in Fds /\ n.owner[fd] = NoOne /\ n.polls[fd] = <<>>
  BY DEF Unused, PolledFor, Polls, NoOne, UdpClient, UdpReceive
<1>2. IsNet(m, UdpObjects) /\ Acquired(n, m, fd, o, Polls(o))
  <2>1. CASE /\ o \in {UdpClient, UdpReceive}
             /\ m = ReceiverCreate(Open(n, o, fd, r), fd, o, 0)
    <3>1. Polls(o) = <<<<o, 0>>>>
      BY <2>1 DEF Polls
    <3> QED
      BY <1>1, <2>1, <3>1, AcquireEffect DEF ReceiverCreate
  <2>2. CASE o = UdpSend /\ m = Open(n, o, fd, r)
    <3>1. Polls(o) = <<>>
      BY <2>2 DEF Polls, UdpSend, UdpClient, UdpReceive
    <3> QED
      BY <1>1, <2>2, <3>1, OpenOnlyEffect
  <2> QED
    BY <2>1, <2>2
<1>3. RemotesKept(n, m, {fd}) /\ m.remote[fd] = r
  BY <1>1, OpenRemotes DEF ReceiverCreate
<1>4. PolledFor(m) /\ HeldAs(m, o, fd) /\ (Sole(n, o, None) => Sole(m, o, fd))
  BY <1>1, <1>2, <1>3, Acquires
<1>5. OthersUndisturbed(n, m, o)
  BY <1>1, <1>2, <1>3, AcquiresOther DEF OthersUndisturbed
<1> QED
  BY <1>2, <1>3, <1>4, <1>5 DEF Opened1

(* udpreceive_setport does both, one after the other.                      *)
LEMMA UndisturbedTwice ==
  ASSUME NEW n, NEW k, NEW m, NEW o,
         OthersUndisturbed(n, k, o), OthersUndisturbed(k, m, o)
  PROVE  OthersUndisturbed(n, m, o)
BY DEF OthersUndisturbed, Undisturbed

(* What the other objects' invariants need, for each object.               *)
LEMMA UdpOthers ==
  ASSUME UdpInv, NEW o \in UdpObjects, OthersUndisturbed(net, net', o)
  PROVE  /\ o # UdpClient => Undisturbed(net, net', UdpClient, uc.x_fd)
         /\ o # UdpSend => Undisturbed(net, net', UdpSend, us.x_fd)
         /\ o # UdpReceive => Undisturbed(net, net', UdpReceive, ur.x_fd)
<1>1. /\ uc.x_fd \in Fds \cup {None} /\ HeldAs(net, UdpClient, uc.x_fd)
      /\ us.x_fd \in Fds \cup {None} /\ HeldAs(net, UdpSend, us.x_fd)
      /\ ur.x_fd \in Fds \cup {None} /\ HeldAs(net, UdpReceive, ur.x_fd)
  BY DEF UdpInv, UdpClientInv, UdpSendInv, UdpReceiveInv
<1>2. {UdpClient, UdpSend, UdpReceive} \subseteq UdpObjects
  BY DEF UdpObjects
<1> QED
  BY <1>1, <1>2 DEF OthersUndisturbed

----------------------------------------------------------------------------
(* What becomes of an atom in a chunk.                                     *)
LEMMA ByteOf ==
  ASSUME NEW x \in Int
  PROVE  x % 256 \in 0 .. 255 /\ (x - (x % 256)) % 256 = 0
OBVIOUS

(* A function on 1 .. n is a sequence of length n.                         *)
LEMMA SeqOf ==
  ASSUME NEW S, NEW n \in Nat, NEW f \in [1 .. n -> S]
  PROVE  f \in Seq(S) /\ Len(f) = n
OBVIOUS

(* The chunk of a message has a byte for every atom.                       *)
LEMMA ChunkOfList ==
  ASSUME NEW list \in Seq(Int)
  PROVE  /\ ChunkCreateList(list) \in Seq(0 .. 255)
         /\ Len(ChunkCreateList(list)) = Len(list)
         /\ ChunkCreateList(list) = NoChunk <=> list = <<>>
<1>1. DOMAIN list = 1 .. Len(list) /\ Len(list) \in Nat
  OBVIOUS
<1>2. ASSUME NEW i \in 1 .. Len(list)
      PROVE  list[i] % 256 \in 0 .. 255
  <2>1. list[i] \in Int
    OBVIOUS
  <2> QED
    BY <2>1, ByteOf
<1>3. ChunkCreateList(list) \in [1 .. Len(list) -> 0 .. 255]
  BY <1>1, <1>2 DEF ChunkCreateList
<1>4. /\ ChunkCreateList(list) \in Seq(0 .. 255)
      /\ Len(ChunkCreateList(list)) = Len(list)
  <2> DEFINE B == 0 .. 255
             k == Len(list)
             f == ChunkCreateList(list)
  <2>1. k \in Nat /\ f \in [1 .. k -> B]
    BY <1>1, <1>3
  <2> HIDE DEF B, k, f
  <2>2. f \in Seq(B) /\ Len(f) = k
    BY <2>1, SeqOf
  <2> QED
    BY <2>2 DEF B, k, f
<1>5. \A c \in Seq(0 .. 255) : c = <<>> <=> Len(c) = 0
  OBVIOUS
<1> QED
  BY <1>4, <1>5 DEF NoChunk

(* Every chunk made of a message that was sent holds bytes, and some.      *)
LEMMA SentAreBytes ==
  ASSUME sent \subseteq Lists
  PROVE  \A c \in SentChunks :
           /\ c \in Seq(0 .. 255) /\ c # <<>>
           /\ \E list \in sent : c = ChunkCreateList(list)
BY ListsAssumption, ChunkOfList DEF SentChunks, NoChunk

(* The fill state of a queue is a natural number, and not 0 when there is  *)
(* a chunk with data in it.                                                *)
LEMMA BytesCounted ==
  ASSUME NEW S, NEW q \in Seq(Seq(S))
  PROVE  /\ QueuedBytes(q) \in Nat
         /\ (\E i \in DOMAIN q : q[i] # <<>>) => QueuedBytes(q) >= 1
<1> DEFINE f == [i \in DOMAIN q |-> {i} \X DOMAIN q[i]]
           T == {{i} \X DOMAIN q[i] : i \in DOMAIN q}
<1>1. DOMAIN q = 1 .. Len(q) /\ Len(q) \in Nat
  OBVIOUS
<1>2. f \in Surjection(DOMAIN q, T)
  BY DEF Surjection
<1>3. IsFiniteSet(DOMAIN q)
  BY <1>1, FS_Interval
<1>4. IsFiniteSet(T)
  BY <1>2, <1>3, FS_Surjection
<1>5. ASSUME NEW i \in DOMAIN q
      PROVE  IsFiniteSet({i} \X DOMAIN q[i])
  <2>1. DOMAIN q[i] = 1 .. Len(q[i]) /\ Len(q[i]) \in Nat
    OBVIOUS
  <2>2. IsFiniteSet(DOMAIN q[i])
    BY <2>1, FS_Interval
  <2> QED
    BY <2>2, FS_Singleton, FS_Product
<1>6. IsFiniteSet(BytesOf(q))
  BY <1>4, <1>5, FS_UNION DEF BytesOf
<1>7. ASSUME NEW i \in DOMAIN q, q[i] # <<>>
      PROVE  BytesOf(q) # {}
  <2>1. 1 \in DOMAIN q[i]
    BY <1>7
  <2>2. <<i, 1>> \in {i} \X DOMAIN q[i]
    BY <2>1
  <2> QED
    BY <2>2 DEF BytesOf
<1>8. Cardinality(BytesOf(q)) \in Nat
  BY <1>6, FS_CardinalityType
<1>9. BytesOf(q) # {} => Cardinality(BytesOf(q)) # 0
  BY <1>6, FS_EmptySet
<1> QED
  BY <1>7, <1>8, <1>9 DEF QueuedBytes

(* A sender that runs takes a chunk and says how full its queue is; one    *)
(* that has stopped takes none.                                            *)
LEMMA SenderTakes ==
  ASSUME sent \subseteq Lists, NEW s \in SentSenders, s.state # NULL,
         Len(s.queue) <= MaxQueue, NEW list \in Lists,
         Room(s, ChunkCreateList(list))
  PROVE  LET c == ChunkCreateList(list)
             r == SenderSend(s, c)
             all == ({ChunkCreateList(l) : l \in sent \cup {list}}) \ {NoChunk}
         IN  /\ r.sender \in [state : SenderStates, queue : Seq(all)]
             /\ Len(r.sender.queue) <= MaxQueue
             /\ r.sender.state = s.state
             /\ s.state = "stopped" => r.sender = s /\ r.size = -1
             /\ s.state = "running" =>
                  r.size \in Nat /\ (list # <<>> => r.size >= 1)
<1> DEFINE c == ChunkCreateList(list)
           q == IF c = NoChunk THEN s.queue ELSE Append(s.queue, c)
           all == ({ChunkCreateList(l) : l \in sent \cup {list}}) \ {NoChunk}
<1>1. /\ s.state \in {"running", "stopped"} /\ s.queue \in Seq(SentChunks)
      /\ s = [state |-> s.state, queue |-> s.queue]
  BY DEF SentSenders, SenderStates, NULL
<1>2. SentChunks \subseteq all
  BY DEF SentChunks
<1>3. s.queue \in Seq(all)
  BY <1>1, <1>2, SeqGrows
<1>4. c # NoChunk => c \in all
  OBVIOUS
<1>5. c \in Seq(0 .. 255) /\ (c = NoChunk <=> list = <<>>)
  BY ListsAssumption, ChunkOfList
<1>6. all \subseteq Seq(0 .. 255)
  BY ListsAssumption, ChunkOfList
<1> HIDE DEF all, c
<1>7. q \in Seq(all)
  BY <1>3, <1>4
<1>8. Len(q) <= MaxQueue
  BY <1>3, DatagramBounds DEF Room, c
<1>9. q \in Seq(Seq(0 .. 255))
  BY <1>6, <1>7, SeqGrows
<1>10. list # <<>> => \E i \in DOMAIN q : q[i] # <<>>
  <2> SUFFICES ASSUME list # <<>> PROVE \E i \in DOMAIN q : q[i] # <<>>
    OBVIOUS
  <2>1. c # <<>> /\ q = Append(s.queue, c)
    BY <1>5 DEF NoChunk
  <2>2. Len(q) \in DOMAIN q /\ q[Len(q)] = c
    BY <2>1, <1>3
  <2> QED
    BY <2>1, <2>2
<1> HIDE DEF q
<1>11. QueuedBytes(q) \in Nat /\ (list # <<>> => QueuedBytes(q) >= 1)
  BY <1>9, <1>10, BytesCounted
<1>12. CASE s.state = "stopped"
  <2>1. SenderSend(s, c) = [sender |-> s, size |-> -1]
    BY <1>12 DEF SenderSend
  <2> QED
    BY <1>1, <1>3, <1>12, <2>1 DEF c, all, SenderStates
<1>13. CASE s.state = "running"
  <2> DEFINE r == [s EXCEPT !.queue = q]
  <2>1. SenderSend(s, c) = [sender |-> r, size |-> QueuedBytes(q)]
    BY <1>13 DEF SenderSend, q
  <2>2. r.state = s.state /\ r.queue = q
    BY <1>1
  <2>3. r \in [state : SenderStates, queue : Seq(all)]
    BY <1>1, <1>3, <1>7 DEF SenderStates
  <2> HIDE DEF r
  <2> QED
    BY <1>8, <1>11, <1>13, <2>1, <2>2, <2>3 DEF c, all
<1> QED
  BY <1>1, <1>12, <1>13

----------------------------------------------------------------------------
(* What is left to show of a step of one object.                           *)
SharedStep(o) ==
  /\ sent \subseteq sent' /\ sent' \subseteq Lists
  /\ wire' \subseteq [port : Ports, data : SentChunks']
  /\ IsNet(net', UdpObjects) /\ PolledFor(net')
  /\ OthersUndisturbed(net, net', o)
  /\ live' \subseteq UdpObjects /\ nosender' \subseteq {UdpClient, UdpSend}
  /\ \A p \in UdpObjects \ {o} : /\ p \in live <=> p \in live'
                                 /\ p \in nosender <=> p \in nosender'
  /\ StackOK'

(* The three objects are different.                                        *)
LEMMA ThreeObjects ==
  /\ UdpObjects = {UdpClient, UdpSend, UdpReceive}
  /\ UdpClient # UdpSend /\ UdpClient # UdpReceive /\ UdpSend # UdpReceive
BY DEF UdpObjects, UdpClient, UdpSend, UdpReceive

(* A step of [udpclient] keeps the invariant when it keeps its own part.   *)
LEMMA UdpClientSteps ==
  ASSUME UdpInv, UNCHANGED <<us, ur>>, SharedStep(UdpClient), UdpClientInv'
  PROVE  UdpInv'
<1>1. SharedInv'
  BY SharedKept DEF SharedStep
<1>2. UdpSendInv'
  BY ThreeObjects, UdpOthers, UdpSendKept DEF SharedStep
<1>3. UdpReceiveInv'
  BY ThreeObjects, UdpOthers, UdpReceiveKept DEF SharedStep
<1> QED
  BY <1>1, <1>2, <1>3 DEF UdpInv

(* A step of [udpsend] keeps the invariant when it keeps its own part.     *)
LEMMA UdpSendSteps ==
  ASSUME UdpInv, UNCHANGED <<uc, ur>>, SharedStep(UdpSend), UdpSendInv'
  PROVE  UdpInv'
<1>1. SharedInv'
  BY SharedKept DEF SharedStep
<1>2. UdpClientInv'
  BY ThreeObjects, UdpOthers, UdpClientKept DEF SharedStep
<1>3. UdpReceiveInv'
  BY ThreeObjects, UdpOthers, UdpReceiveKept DEF SharedStep
<1> QED
  BY <1>1, <1>2, <1>3 DEF UdpInv

(* A step of [udpreceive] keeps the invariant when it keeps its own part.  *)
LEMMA UdpReceiveSteps ==
  ASSUME UdpInv, UNCHANGED <<uc, us>>, SharedStep(UdpReceive), UdpReceiveInv'
  PROVE  UdpInv'
<1>1. SharedInv'
  BY SharedKept DEF SharedStep
<1>2. UdpClientInv'
  BY ThreeObjects, UdpOthers, UdpClientKept DEF SharedStep
<1>3. UdpSendInv'
  BY ThreeObjects, UdpOthers, UdpSendKept DEF SharedStep
<1> QED
  BY <1>1, <1>2, <1>3 DEF UdpInv

(* A step that leaves the descriptors alone keeps all that is known of     *)
(* them.                                                                   *)
LEMMA NobodyNotices ==
  ASSUME UdpInv, UNCHANGED net, NEW o
  PROVE  /\ IsNet(net', UdpObjects) /\ PolledFor(net')
         /\ OthersUndisturbed(net, net', o)
BY DEF UdpInv, SharedInv, OthersUndisturbed, Undisturbed, PolledFor, HeldAs,
       Sole

(* A step that leaves the messages, the datagrams and the senders alone.   *)
LEMMA QuietStep ==
  ASSUME UdpInv, NEW o \in UdpObjects, UNCHANGED <<wire, sent>>,
         IsNet(net', UdpObjects), PolledFor(net'),
         OthersUndisturbed(net, net', o),
         live' \in {live, live \cup {o}, live \ {o}},
         nosender' \subseteq {UdpClient, UdpSend},
         nosender' \in {nosender, nosender \cup {o}}, StackOK'
  PROVE  SharedStep(o)
<1>1. live' \subseteq UdpObjects
  BY DEF UdpInv, SharedInv
<1> QED
  BY <1>1, WireKept DEF SharedStep

----------------------------------------------------------------------------
(* [udpclient]                                                             *)
LEMMA UdpClientGivesUp ==
  ASSUME UdpInv, net' = UdpClientDoneNet
  PROVE  GivenUp(net, net', UdpClient, uc.x_fd)
<1>1. /\ IsNet(net, UdpObjects) /\ PolledFor(net)
      /\ HeldAs(net, UdpClient, uc.x_fd) /\ uc.x_receiver = uc.x_fd
  BY DEF UdpInv, SharedInv, UdpClientInv
<1> QED
  BY <1>1, ThreeObjects, GivesUp DEF UdpClientDoneNet

(* Off, with no socket: after a disconnect, and new.                       *)
UdpClientIsOff(x) ==
  /\ x \in [x_fd : {None}, x_connectstate : {0}, x_sender : {Off},
            x_receiver : {None}, said : {0}, nested : BOOLEAN]

(* A client that is off holds no socket once its own is given up.          *)
LEMMA UdpClientWithout ==
  ASSUME UdpInv, GivenUp(net, net', UdpClient, uc.x_fd), UNCHANGED nosender,
         UdpClientIsOff(uc')
  PROVE  UdpClientInv'
<1>1. Off \in SentSenders' /\ Len(Off.queue) <= MaxQueue /\ Off.state = NULL
  BY DatagramBounds DEF Off, SentSenders, SenderStates
<1>2. /\ HeldAs(net', UdpClient, None)
      /\ UdpClient \notin nosender' => Sole(net', UdpClient, None)
  BY DEF GivenUp, UdpInv, UdpClientInv
<1> QED
  BY <1>1, <1>2 DEF UdpClientInv, UdpClientIsOff

(* udpclient_disconnect and udpclient_free.                                *)
LEMMA UdpClientDone ==
  ASSUME UdpInv, UNCHANGED <<us, ur>>, net' = UdpClientDoneNet,
         UdpClientIsOff(uc'), UNCHANGED dgVars,
         live' \in {live, live \ {UdpClient}}, StackOK'
  PROVE  UdpInv'
<1>1. GivenUp(net, net', UdpClient, uc.x_fd)
  BY UdpClientGivesUp
<1>2. UNCHANGED <<wire, sent, nosender>> /\ nosender \subseteq {UdpClient, UdpSend}
  BY DEF dgVars, UdpInv, SharedInv
<1>3. SharedStep(UdpClient)
  BY <1>1, <1>2, ThreeObjects, QuietStep DEF GivenUp
<1>4. UdpClientInv'
  BY <1>1, <1>2, UdpClientWithout
<1> QED
  BY <1>3, <1>4, UdpClientSteps

(* udpclient_disconnect reports nothing when there was no socket; it goes  *)
(* on with rest, which is no longer than the stack then.                   *)
LEMMA UdpClientDisconnecting ==
  ASSUME UdpInv, UNCHANGED <<us, ur>>, NEW rest, UdpClientDisconnects(rest),
         RestOK(rest), uc.x_fd # None \/ rest = stack
  PROVE  UdpInv'
<1>1. /\ uc \in [x_fd : Fds \cup {None}, x_connectstate : {0, 1},
                x_sender : SentSenders, x_receiver : Fds \cup {None},
                said : {0, 1}, nested : BOOLEAN]
      /\ uc.x_fd = None => uc.said = 0
  BY DEF UdpInv, UdpClientInv
<1>2. net' = UdpClientDoneNet /\ UNCHANGED <<live, dgVars, sent>>
  BY DEF UdpClientDisconnects, dgVars
<1> DEFINE x == UdpClientDisconnected
<1>3. /\ x \in [x_fd : {None}, x_connectstate : {0}, x_sender : {Off},
               x_receiver : {None}, said : {0, 1}, nested : BOOLEAN]
      /\ x.said = uc.said /\ x.nested = uc.nested
  BY <1>1 DEF UdpClientDisconnected
<1> HIDE DEF x
<1>4. CASE uc.x_fd = None
  <2>1. uc' = x /\ stack' = stack
    BY <1>4 DEF UdpClientDisconnects, x
  <2>2. UdpClientIsOff(uc')
    BY <1>1, <1>3, <1>4, <2>1 DEF UdpClientIsOff
  <2>3. StackOK'
    BY <1>2, <1>3, <2>1, StackKept
  <2> QED
    BY <1>2, <2>2, <2>3, UdpClientDone
<1>5. CASE uc.x_fd # None
  <2>1. /\ uc' = [x EXCEPT !.said = x.x_connectstate,
                           !.nested = Reporting(UdpClient, stack)]
        /\ stack' = <<<<UdpClient, x.x_connectstate>>>> \o rest
    BY <1>5 DEF UdpClientDisconnects, UdpClientReports, NumConnOut, Suspend, x
  <2>2. x.x_connectstate = 0 /\ Reporting(UdpClient, stack) \in BOOLEAN
    BY <1>3 DEF Reporting
  <2> DEFINE b == Reporting(UdpClient, stack)
  <2>3. uc' = [x EXCEPT !.said = 0, !.nested = b] /\ b \in BOOLEAN
    BY <2>1, <2>2
  <2> HIDE DEF b
  <2>4. UdpClientIsOff(uc') /\ uc'.said = 0 /\ uc'.nested = b
    BY <1>3, <2>3 DEF UdpClientIsOff
  <2>5. StackOK'
    BY <2>1, <2>2, <2>4, StackReports DEF b
  <2> QED
    BY <1>2, <2>4, <2>5, UdpClientDone
<1> QED
  BY <1>4, <1>5

(* A step that leaves the socket alone: only what was said changes.        *)
LEMMA UdpClientSays ==
  ASSUME UdpInv, UNCHANGED <<us, ur, net, live, wire, sent, nosender>>,
         NEW num \in {0, 1}, NEW b \in BOOLEAN,
         num \in {uc.said, uc.x_connectstate},
         uc' = [uc EXCEPT !.said = num, !.nested = b], StackOK'
  PROVE  UdpInv'
<1>1. UdpClientInv'
  BY DEF UdpInv, UdpClientInv, SentSenders, SentChunks, HeldAs, Sole
<1>2. SharedStep(UdpClient)
  BY ThreeObjects, NobodyNotices, QuietStep DEF UdpInv, SharedInv
<1> QED
  BY <1>1, <1>2, UdpClientSteps

(* iemnet__numconnout in udpclient_info.                                   *)
LEMMA UdpClientReporting ==
  ASSUME UdpInv, UNCHANGED <<us, ur, net, live, dgVars>>, NEW rest, RestOK(rest),
         UdpClientReports(uc, rest)
  PROVE  UdpInv'
<1> DEFINE num == uc.x_connectstate
           b == Reporting(UdpClient, stack)
<1>1. /\ num \in {0, 1} /\ b \in BOOLEAN
      /\ uc \in [x_fd : Fds \cup {None}, x_connectstate : {0, 1},
                x_sender : SentSenders, x_receiver : Fds \cup {None},
                said : {0, 1}, nested : BOOLEAN]
  BY DEF UdpInv, UdpClientInv, Reporting
<1>2. /\ uc' = [uc EXCEPT !.said = num, !.nested = b]
      /\ stack' = <<<<UdpClient, num>>>> \o rest
      /\ UNCHANGED <<wire, sent, nosender>>
  BY DEF UdpClientReports, NumConnOut, Suspend, dgVars
<1> HIDE DEF num, b
<1>3. uc'.said = num /\ uc'.nested = b
  BY <1>1, <1>2
<1>4. StackOK'
  BY <1>1, <1>2, <1>3, StackReports DEF b
<1> QED
  BY <1>1, <1>2, <1>4, UdpClientSays DEF num

(* It opens a socket only without a sender: then it has none, or it had    *)
(* no thread for one before.                                               *)
LEMMA UdpClientOpens ==
  ASSUME UdpInv, UNCHANGED <<us, ur, live, wire, sent>>, StackOK',
         UdpClient \in live, NEW p \in Ports, uc.x_sender.state = NULL,
         NEW fd \in Unused(net), NEW s \in SenderCreate,
         net' = ReceiverCreate(Open(net, UdpClient, fd, p), fd, UdpClient, 0),
         uc' = [uc EXCEPT !.x_fd = fd, !.x_connectstate = 1,
                          !.x_sender = SenderMade(s), !.x_receiver = fd],
         NoteSender(UdpClient, s)
  PROVE  UdpInv'
<1>1. Opened1(net, net', UdpClient, fd, p)
  BY ThreeObjects, Opens DEF UdpInv, SharedInv
<1>2. /\ nosender' \in {nosender, nosender \cup {UdpClient}}
      /\ s = NULL => UdpClient \in nosender'
  BY DEF NoteSender
<1>3. nosender' \subseteq {UdpClient, UdpSend}
  BY <1>2 DEF UdpInv, SharedInv
<1>4. SharedStep(UdpClient)
  BY <1>1, <1>2, <1>3, ThreeObjects, QuietStep DEF Opened1
<1>5. UdpClient \notin nosender' => Sole(net', UdpClient, fd)
  BY <1>1, <1>2 DEF Opened1, UdpInv, UdpClientInv
<1>6. fd \in Fds /\ fd # None
  BY NoneIsNoFd DEF Unused
<1>7. /\ SenderMade(s) \in SentSenders' /\ SenderMade(s).state = s
      /\ Len(SenderMade(s).queue) <= MaxQueue
  BY DatagramBounds DEF SenderMade, SentSenders, SenderCreate, SenderStates
<1>8. uc \in [x_fd : Fds \cup {None}, x_connectstate : {0, 1},
              x_sender : SentSenders, x_receiver : Fds \cup {None},
              said : {0, 1}, nested : BOOLEAN]
  BY DEF UdpInv, UdpClientInv
<1>9. UdpClientInv'
  BY <1>1, <1>2, <1>5, <1>6, <1>7, <1>8 DEF UdpClientInv, Opened1
<1> QED
  BY <1>4, <1>9, UdpClientSteps

(* The second half of udpclient_connect.                                   *)
LEMMA UdpClientConnects ==
  ASSUME UdpInv, UNCHANGED <<us, ur>>, UdpClient \in live, NEW p \in Ports,
         NEW rest, UdpClientDoConnect(p, rest), RestOK(rest),
         rest = stack \/ (stack # <<>> /\ rest = Tail(stack))
  PROVE  UdpInv'
<1>1. UNCHANGED <<live, wire, sent>>
  BY DEF UdpClientDoConnect
<1>2. uc \in [x_fd : Fds \cup {None}, x_connectstate : {0, 1},
              x_sender : SentSenders, x_receiver : Fds \cup {None},
              said : {0, 1}, nested : BOOLEAN]
  BY DEF UdpInv, UdpClientInv
<1>3. CASE /\ uc' = [uc EXCEPT !.x_connectstate = 0] /\ stack' = rest
           /\ UNCHANGED <<net, nosender>>
  <2>1. uc'.said = uc.said /\ uc'.nested = uc.nested
    BY <1>2, <1>3
  <2>2. StackOK'
    BY <1>1, <1>3, <2>1, StackKept, StackPopped
  <2>3. UdpClientInv'
    BY <1>1, <1>3 DEF UdpInv, UdpClientInv, SentSenders, SentChunks, HeldAs, Sole
  <2>4. SharedStep(UdpClient)
    BY <1>1, <1>3, <2>2, ThreeObjects, NobodyNotices, QuietStep
       DEF UdpInv, SharedInv
  <2> QED
    BY <2>3, <2>4, UdpClientSteps
<1>4. ASSUME uc.x_sender.state = NULL,
             NEW fd \in Unused(net), NEW s \in SenderCreate,
             net' = ReceiverCreate(Open(net, UdpClient, fd, p), fd, UdpClient, 0),
             uc' = [uc EXCEPT !.x_fd = fd, !.x_connectstate = 1,
                              !.x_sender = SenderMade(s), !.x_receiver = fd],
             NoteSender(UdpClient, s), Suspend(<<"udpclient_info", NULL>>, rest)
      PROVE  UdpInv'
  <2>1. uc'.said = uc.said /\ uc'.nested = uc.nested
    BY <1>2, <1>4
  <2> DEFINE f == <<"udpclient_info", NULL>>
  <2>2. f \in Frames' /\ f[1] # UdpClient
    BY DEF Frames, UdpClient
  <2>3. stack' = <<f>> \o rest
    BY <1>4 DEF Suspend
  <2> HIDE DEF f
  <2>4. StackOK'
    BY <2>1, <2>2, <2>3, StackPushed
  <2> QED
    BY <1>1, <1>4, <2>4, UdpClientOpens
<1> QED
  BY <1>3, <1>4 DEF UdpClientDoConnect

(* What its thread makes of a sender.                                      *)
LEMMA SenderWorks ==
  ASSUME NEW s \in SentSenders, Len(s.queue) <= MaxQueue, s.queue # <<>>
  PROVE  /\ Head(s.queue) \in SentChunks
         /\ Written(s) \in SentSenders /\ Written(s).state = s.state
         /\ Len(Written(s).queue) <= MaxQueue
         /\ Failed(s) \in SentSenders /\ Failed(s).state = "stopped"
         /\ Len(Failed(s).queue) <= MaxQueue
<1>1. s.queue \in Seq(SentChunks) /\ s.state \in SenderStates
  BY DEF SentSenders
<1>2. /\ Head(s.queue) \in SentChunks /\ Tail(s.queue) \in Seq(SentChunks)
      /\ Len(Tail(s.queue)) <= MaxQueue
  BY <1>1, StackShrinks, DatagramBounds
<1>3. /\ Written(s) \in SentSenders /\ Written(s).state = s.state
      /\ Written(s).queue = Tail(s.queue)
  BY <1>1, <1>2 DEF Written, SentSenders
<1>4. /\ Failed(s) \in SentSenders /\ Failed(s).state = "stopped"
      /\ Failed(s).queue = Tail(s.queue)
  BY <1>2 DEF Failed, SentSenders, SenderStates
<1> QED
  BY <1>2, <1>3, <1>4

(* A send thread writes a chunk: it was made of a message that was sent.   *)
LEMMA SenderReaches ==
  ASSUME UdpInv, NEW s \in SentSenders, Len(s.queue) <= MaxQueue,
         NEW fd \in Fds, net.remote[fd] \in Ports, SenderWrites(s, fd),
         uc'.said = uc.said, uc'.nested = uc.nested,
         UNCHANGED <<netVars, sent, nosender>>, NEW o \in UdpObjects
  PROVE  SharedStep(o)
<1>1. Head(s.queue) \in SentChunks
  BY SenderWorks DEF SenderWrites
<1>2. wire' \subseteq [port : Ports, data : SentChunks]
  BY <1>1 DEF SenderWrites, UdpInv, SharedInv
<1>3. SentChunks' = SentChunks
  BY DEF SentChunks
<1>4. sent' \subseteq Lists /\ sent \subseteq sent' /\ live' \subseteq UdpObjects
      /\ nosender' \subseteq {UdpClient, UdpSend} /\ UNCHANGED <<net, live, stack>>
  BY DEF UdpInv, SharedInv, netVars
<1>5. StackOK'
  BY <1>4, StackKept
<1> QED
  BY <1>2, <1>3, <1>4, <1>5, NobodyNotices DEF SharedStep

(* A message is taken: the only step that adds to what was sent.           *)
LEMMA SenderTook ==
  ASSUME UdpInv, NEW list \in Lists, sent' \in {sent, sent \cup {list}},
         uc'.said = uc.said, uc'.nested = uc.nested,
         UNCHANGED <<netVars, wire, nosender>>, NEW o \in UdpObjects
  PROVE  SharedStep(o)
<1>1. /\ sent \subseteq sent' /\ sent' \subseteq Lists
      /\ live' \subseteq UdpObjects /\ nosender' \subseteq {UdpClient, UdpSend}
      /\ UNCHANGED <<net, live, stack>>
  BY DEF UdpInv, SharedInv, netVars
<1>2. wire' \subseteq [port : Ports, data : SentChunks']
  BY <1>1, SentGrows DEF UdpInv, SharedInv
<1>3. StackOK'
  BY <1>1, StackKept
<1> QED
  BY <1>1, <1>2, <1>3, NobodyNotices DEF SharedStep

(* Every message to [udpclient] and every callback keeps the invariant.    *)
LEMMA UdpClientKeepsInv ==
  ASSUME UdpInv, UdpClientNext, UNCHANGED <<us, ur>>
  PROVE  UdpInv'
<1> USE ThreeObjects
<1>0. UdpClientIsOff(UdpClientNew)
  BY DEF UdpClientIsOff, UdpClientNew
<1>1. CASE UdpClientCreate
  <2>1. /\ UNCHANGED <<net, stack, wire, sent, nosender>> /\ uc' = UdpClientNew
        /\ live' = live \cup {UdpClient} /\ uc.x_fd = None /\ stack = <<>>
    BY <1>1 DEF UdpClientCreate, Idle, dgVars, UdpInv, UdpClientInv
  <2>2. StackOK'
    BY <2>1, StackKept
  <2>3. SharedStep(UdpClient)
    BY <2>1, <2>2, NobodyNotices, QuietStep DEF UdpInv, SharedInv
  <2>4. GivenUp(net, net', UdpClient, uc.x_fd)
    BY <2>1, NobodyNotices DEF GivenUp, HeldAs, Sole
  <2>5. UdpClientInv'
    BY <1>0, <2>1, <2>4, UdpClientWithout
  <2> QED
    BY <2>3, <2>5, UdpClientSteps
<1>2. CASE UdpClientFree
  <2>1. StackOK'
    BY <1>2, StackKept DEF UdpClientFree, Idle, dgVars
  <2> QED
    BY <1>0, <1>2, <2>1, UdpClientDone DEF UdpClientFree
<1>3. ASSUME NEW p \in Ports, UdpClientConnect(p)
      PROVE  UdpInv'
  <2>1. /\ UdpClient \in live /\ (stack = <<>> \/ Len(stack) < MaxNest)
        /\ UNCHANGED <<live, sent>>
    BY <1>3 DEF UdpClientConnect, Receives, UdpClientDisconnects,
       UdpClientDoConnect, dgVars
  <2>2. CASE uc.x_fd # None
    <3> DEFINE rest == <<<<"udpclient_connect", p>>>> \o stack
    <3>1. UdpClientDisconnects(rest)
      BY <1>3, <2>2 DEF UdpClientConnect
    <3>2. RestOK(rest)
      BY <2>1, ConnectIsRest
    <3> HIDE DEF rest
    <3> QED
      BY <2>2, <3>1, <3>2, UdpClientDisconnecting
  <2>3. CASE uc.x_fd = None
    <3>1. UdpClientDoConnect(p, stack)
      BY <1>3, <2>3 DEF UdpClientConnect
    <3>2. RestOK(stack)
      BY <2>1, StackIsRest
    <3> QED
      BY <2>1, <3>1, <3>2, UdpClientConnects
  <2> QED
    BY <2>2, <2>3
<1>4. ASSUME NEW p \in Ports, UdpClientConnectResume(p)
      PROVE  UdpInv'
  <2>1. /\ stack # <<>> /\ Head(stack) = <<"udpclient_connect", p>>
        /\ UdpClientDoConnect(p, Tail(stack)) /\ UNCHANGED <<live, sent>>
    BY <1>4 DEF UdpClientConnectResume, Resumes, UdpClientDoConnect
  <2>2. RestOK(Tail(stack)) /\ Head(stack) \in Frames
    BY <2>1, TailIsRest
  <2>3. UdpClient \in live
    BY <2>1, <2>2 DEF Frames, UdpClient
  <2> QED
    BY <2>1, <2>2, <2>3, UdpClientConnects
<1>5. CASE UdpClientDisconnect
  <2>1. /\ UdpClientDisconnects(stack) /\ UNCHANGED <<live, sent>>
        /\ stack = <<>> \/ Len(stack) < MaxNest
    BY <1>5 DEF UdpClientDisconnect, UdpClientDisconnects, Receives, dgVars
  <2>2. RestOK(stack)
    BY <2>1, StackIsRest
  <2> QED
    BY <2>1, <2>2, UdpClientDisconnecting
<1>6. CASE UdpClientInfo
  <2>1. /\ UNCHANGED <<net, live, dgVars, wire, sent, nosender>>
        /\ stack = <<>> \/ Len(stack) < MaxNest
    BY <1>6 DEF UdpClientInfo, Receives, dgVars
  <2>2. RestOK(stack)
    BY <2>1, StackIsRest
  <2>3. CASE uc.x_fd = None
    BY <1>6, <2>1, <2>2, <2>3, UdpClientReporting DEF UdpClientInfo
  <2>4. CASE uc.x_fd # None
    <3> DEFINE f == <<"udpclient_info", NULL>>
    <3>1. f \in Frames' /\ f[1] # UdpClient
      BY DEF Frames, UdpClient
    <3>2. stack' = <<f>> \o stack /\ UNCHANGED uc
      BY <1>6, <2>4 DEF UdpClientInfo, Suspend
    <3> HIDE DEF f
    <3>3. StackOK'
      BY <2>2, <3>1, <3>2, StackPushed
    <3>4. SharedStep(UdpClient)
      BY <2>1, <3>3, NobodyNotices, QuietStep DEF UdpInv, SharedInv
    <3>5. UdpClientInv'
      BY <2>1, <3>2, AllUndisturbed, UdpClientKept
    <3> QED
      BY <3>4, <3>5, UdpClientSteps
  <2> QED
    BY <2>3, <2>4
<1>7. ASSUME NEW fd \in Fds, UdpClientReceiveNull(fd)
      PROVE  UdpInv'
  <2>1. /\ UdpClientDisconnects(stack) /\ UNCHANGED <<live, sent>>
        /\ stack = <<>>
    BY <1>7 DEF UdpClientReceiveNull, UdpClientDisconnects, Polled, Idle, dgVars
  <2>2. RestOK(stack)
    BY <2>1, StackIsRest
  <2> QED
    BY <2>1, <2>2, UdpClientDisconnecting
<1>11. CASE UdpClientInfoResume
  <2>1. /\ stack # <<>> /\ UdpClientReports(uc, Tail(stack))
        /\ UNCHANGED <<net, live, dgVars, sent>>
    BY <1>11 DEF UdpClientInfoResume, Resumes, dgVars
  <2>2. RestOK(Tail(stack))
    BY <2>1, TailIsRest
  <2> QED
    BY <2>1, <2>2, UdpClientReporting
<1>12. ASSUME NEW num \in {0, 1}, UdpClientConnectOut(num)
       PROVE  UdpInv'
  <2> DEFINE b == uc.nested /\ Reporting(UdpClient, Tail(stack))
  <2>1. /\ uc \in [x_fd : Fds \cup {None}, x_connectstate : {0, 1},
                  x_sender : SentSenders, x_receiver : Fds \cup {None},
                  said : {0, 1}, nested : BOOLEAN]
        /\ b \in BOOLEAN
    BY DEF UdpInv, UdpClientInv
  <2>2. /\ ConnectOut(UdpClient, num) /\ uc' = [uc EXCEPT !.nested = b]
        /\ UNCHANGED <<net, live, wire, sent, nosender>>
    BY <1>12 DEF UdpClientConnectOut, dgVars
  <2>3. uc'.said = uc.said /\ uc'.nested = b
    <3> HIDE DEF b
    <3> QED
      BY <2>1, <2>2
  <2>4. StackOK'
    BY <2>2, <2>3, StackConnectOut
  <2> HIDE DEF b
  <2>5. uc' = [uc EXCEPT !.said = uc.said, !.nested = b] /\ uc.said \in {0, 1}
    BY <2>1, <2>2
  <2> QED
    BY <2>1, <2>2, <2>4, <2>5, UdpClientSays
<1>8. ASSUME NEW list \in Lists, UdpClientSend(list)
      PROVE  UdpInv'
  <2> DEFINE r == SenderSend(uc.x_sender, ChunkCreateList(list))
  <2>1. /\ uc.x_sender.state # NULL /\ uc.x_sender \in SentSenders
        /\ Len(uc.x_sender.queue) <= MaxQueue /\ sent \subseteq Lists
        /\ Room(uc.x_sender, ChunkCreateList(list))
    BY <1>8 DEF UdpClientSend, UdpInv, SharedInv, UdpClientInv
  <2>2. /\ uc' = [uc EXCEPT !.x_sender = r.sender]
        /\ sent' = IF r.size < 0 THEN sent ELSE sent \cup {list}
        /\ UNCHANGED <<netVars, wire, nosender>>
    BY <1>8 DEF UdpClientSend
  <2>3. SharedStep(UdpClient)
    <3>1. uc'.said = uc.said /\ uc'.nested = uc.nested
      BY <2>2 DEF UdpInv, UdpClientInv
    <3> QED
      BY <2>2, <3>1, SenderTook
  <2>4. /\ r.sender \in SentSenders' /\ Len(r.sender.queue) <= MaxQueue
        /\ r.sender.state # NULL
    <3>1. uc.x_sender.state \in {"running", "stopped"}
      BY <2>1 DEF SentSenders, SenderStates
    <3>2. CASE uc.x_sender.state = "stopped"
      BY <2>1, <2>2, <3>2, SenderTakes DEF SentSenders, SentChunks
    <3>3. CASE uc.x_sender.state = "running"
      <4>1. sent' = sent \cup {list}
        <5>1. r.size \in Nat
          BY <2>1, <3>3, SenderTakes
        <5> QED
          BY <2>2, <5>1
      <4>2. SentChunks' = ({ChunkCreateList(l) : l \in sent \cup {list}}) \ {NoChunk}
        BY <4>1 DEF SentChunks
      <4>3. /\ r.sender \in [state : SenderStates, queue : Seq(SentChunks')]
            /\ Len(r.sender.queue) <= MaxQueue
            /\ r.sender.state = uc.x_sender.state
        BY <2>1, <4>2, SenderTakes
      <4> QED
        BY <2>1, <4>3 DEF SentSenders
    <3> QED
      BY <3>1, <3>2, <3>3
  <2> HIDE DEF r
  <2>5. UNCHANGED <<net, live>>
    BY <2>2 DEF netVars
  <2>6. UdpClientInv'
    BY <2>1, <2>2, <2>4, <2>5 DEF UdpInv, UdpClientInv, HeldAs, Sole
  <2> QED
    BY <2>3, <2>6, UdpClientSteps
<1>9. CASE UdpClientWrites
  <2>1. /\ SenderWrites(uc.x_sender, uc.x_fd)
        /\ uc' = [uc EXCEPT !.x_sender = Written(uc.x_sender)]
        /\ UNCHANGED <<netVars, sent, nosender>> /\ UNCHANGED <<net, live>>
        /\ uc.x_sender.state = "running" /\ uc.x_sender.queue # <<>>
    BY <1>9 DEF UdpClientWrites, SenderWrites, netVars
  <2>2. /\ uc.x_sender \in SentSenders /\ Len(uc.x_sender.queue) <= MaxQueue
        /\ uc.x_fd \in Fds /\ net.remote[uc.x_fd] \in Ports
    BY <2>1 DEF UdpInv, UdpClientInv, HeldAs, NULL
  <2>3. SharedStep(UdpClient)
    <3>1. uc'.said = uc.said /\ uc'.nested = uc.nested
      BY <2>1 DEF UdpInv, UdpClientInv
    <3> QED
      BY <2>1, <2>2, <3>1, SenderReaches
  <2>4. /\ Written(uc.x_sender) \in SentSenders
        /\ Written(uc.x_sender).state = uc.x_sender.state
        /\ Len(Written(uc.x_sender).queue) <= MaxQueue
    BY <2>1, <2>2, SenderWorks
  <2>5. SentSenders' = SentSenders
    BY <2>1 DEF SentSenders, SentChunks
  <2>6. UdpClientInv'
    BY <2>1, <2>2, <2>4, <2>5 DEF UdpInv, UdpClientInv, HeldAs, Sole
  <2> QED
    BY <2>3, <2>6, UdpClientSteps
<1>10. CASE UdpClientFails
  <2>1. /\ uc' = [uc EXCEPT !.x_sender = Failed(uc.x_sender)]
        /\ UNCHANGED <<net, live, stack, wire, sent, nosender>>
        /\ uc.x_sender.state = "running" /\ uc.x_sender.queue # <<>>
    BY <1>10 DEF UdpClientFails, SenderFails, netVars, dgVars
  <2>2. uc.x_sender \in SentSenders /\ Len(uc.x_sender.queue) <= MaxQueue
    BY DEF UdpInv, UdpClientInv
  <2>3. /\ Failed(uc.x_sender) \in SentSenders
        /\ Failed(uc.x_sender).state = "stopped"
        /\ Len(Failed(uc.x_sender).queue) <= MaxQueue
    BY <2>1, <2>2, SenderWorks
  <2>4. SentSenders' = SentSenders
    BY <2>1 DEF SentSenders, SentChunks
  <2>5. UdpClientInv'
    BY <2>1, <2>3, <2>4 DEF UdpInv, UdpClientInv, HeldAs, Sole, NULL
  <2>6. StackOK'
    <3>1. uc'.said = uc.said /\ uc'.nested = uc.nested
      BY <2>1 DEF UdpInv, UdpClientInv
    <3> QED
      BY <2>1, <3>1, StackKept
  <2>7. SharedStep(UdpClient)
    BY <2>1, <2>6, NobodyNotices, QuietStep DEF UdpInv, SharedInv
  <2> QED
    BY <2>5, <2>7, UdpClientSteps
<1> QED
  BY <1>1, <1>2, <1>3, <1>4, <1>5, <1>6, <1>7, <1>8, <1>9, <1>10, <1>11,
     <1>12 DEF UdpClientNext

----------------------------------------------------------------------------
(* [udpsend]                                                               *)
LEMMA UdpSendWithout ==
  ASSUME UdpInv, GivenUp(net, net', UdpSend, us.x_fd), UNCHANGED nosender,
         us' \in {UdpSendDisconnected, UdpSendNew}
  PROVE  UdpSendInv'
<1>1. us.x_fd = None => us.told = 0
  BY DEF UdpInv, UdpSendInv
<1>2. Off \in SentSenders' /\ Len(Off.queue) <= MaxQueue /\ Off.state = NULL
  BY DatagramBounds DEF Off, SentSenders, SenderStates
<1>3. us' = [x_fd |-> None, x_sender |-> Off, told |-> 0]
  BY <1>1 DEF UdpSendDisconnected, UdpSendNew
<1>4. /\ HeldAs(net', UdpSend, None)
      /\ UdpSend \notin nosender' => Sole(net', UdpSend, None)
  BY DEF GivenUp, UdpInv, UdpSendInv
<1> QED
  BY <1>2, <1>3, <1>4 DEF UdpSendInv

(* udpsend_disconnect and udpsend_free.                                    *)
LEMMA UdpSendDone ==
  ASSUME UdpInv, UNCHANGED <<uc, ur>>,
         net' = CloseSocket(net, UdpSend, us.x_fd),
         us' \in {UdpSendDisconnected, UdpSendNew},
         UNCHANGED <<stack, wire, sent, nosender>>,
         \/ UNCHANGED live
         \/ live' = live \ {UdpSend}
  PROVE  UdpInv'
<1>1. GivenUp(net, net', UdpSend, us.x_fd)
  BY ThreeObjects, GivesUp DEF UdpInv, SharedInv, UdpSendInv
<1>2. StackOK'
  BY ThreeObjects, StackKept
<1>3. SharedStep(UdpSend)
  BY <1>1, <1>2, ThreeObjects, QuietStep DEF GivenUp, UdpInv, SharedInv
<1>4. UdpSendInv'
  BY <1>1, UdpSendWithout
<1> QED
  BY <1>3, <1>4, UdpSendSteps

(* Every message to [udpsend] keeps the invariant.                         *)
LEMMA UdpSendKeepsInv ==
  ASSUME UdpInv, UdpSendNext, UNCHANGED <<uc, ur>>
  PROVE  UdpInv'
<1> USE ThreeObjects
<1>1. CASE UdpSendCreate
  <2>1. /\ UNCHANGED <<net, stack, wire, sent, nosender>> /\ us' = UdpSendNew
        /\ live' = live \cup {UdpSend} /\ us.x_fd = None
    BY <1>1 DEF UdpSendCreate, dgVars, UdpInv, UdpSendInv
  <2>2. StackOK'
    BY <2>1, StackKept
  <2>3. SharedStep(UdpSend)
    BY <2>1, <2>2, NobodyNotices, QuietStep DEF UdpInv, SharedInv
  <2>4. GivenUp(net, net', UdpSend, us.x_fd)
    BY <2>1, NobodyNotices DEF GivenUp, HeldAs, Sole
  <2>5. UdpSendInv'
    BY <2>1, <2>4, UdpSendWithout
  <2> QED
    BY <2>3, <2>5, UdpSendSteps
<1>2. CASE UdpSendFree
  BY <1>2, UdpSendDone DEF UdpSendFree, dgVars
<1>3. ASSUME NEW p \in Ports, UdpSendConnect(p)
      PROVE  UdpInv'
  <2>1. /\ UdpSend \in live /\ us.x_sender.state = NULL
        /\ UNCHANGED <<live, stack, wire, sent>>
    BY <1>3 DEF UdpSendConnect, Receives
  <2>2. PICK fd \in Unused(net), s \in SenderCreate :
          /\ net' = Open(net, UdpSend, fd, p)
          /\ us' = [x_fd |-> fd, x_sender |-> SenderMade(s), told |-> 1]
          /\ NoteSender(UdpSend, s)
    BY <1>3 DEF UdpSendConnect
  <2>3. Opened1(net, net', UdpSend, fd, p)
    BY <2>2, Opens DEF UdpInv, SharedInv
  <2>4. /\ nosender' \in {nosender, nosender \cup {UdpSend}}
        /\ s = NULL => UdpSend \in nosender'
    BY <2>2 DEF NoteSender
  <2>5. nosender' \subseteq {UdpClient, UdpSend}
    BY <2>4 DEF UdpInv, SharedInv
  <2>6. StackOK'
    BY <2>1, StackKept
  <2>7. SharedStep(UdpSend)
    BY <2>1, <2>3, <2>4, <2>5, <2>6, QuietStep DEF Opened1
  <2>8. UdpSend \notin nosender' => Sole(net', UdpSend, fd)
    BY <2>1, <2>3, <2>4 DEF Opened1, UdpInv, UdpSendInv
  <2>9. fd \in Fds /\ fd # None
    BY NoneIsNoFd DEF Unused
  <2>10. /\ SenderMade(s) \in SentSenders' /\ SenderMade(s).state = s
         /\ Len(SenderMade(s).queue) <= MaxQueue
    BY DatagramBounds DEF SenderMade, SentSenders, SenderCreate, SenderStates
  <2>11. UdpSendInv'
    BY <2>1, <2>2, <2>3, <2>4, <2>8, <2>9, <2>10 DEF UdpSendInv, Opened1
  <2> QED
    BY <2>7, <2>11, UdpSendSteps
<1>4. CASE UdpSendDisconnect
  BY <1>4, UdpSendDone DEF UdpSendDisconnect, dgVars
<1>5. ASSUME NEW list \in Lists, UdpSendSend(list)
      PROVE  UdpInv'
  <2> DEFINE r == SenderSend(us.x_sender, ChunkCreateList(list))
  <2>1. /\ us.x_sender.state # NULL /\ us.x_sender \in SentSenders
        /\ Len(us.x_sender.queue) <= MaxQueue /\ sent \subseteq Lists
        /\ Room(us.x_sender, ChunkCreateList(list))
        /\ UNCHANGED <<live, stack, wire, nosender>>
    BY <1>5 DEF UdpSendSend, UdpInv, SharedInv, UdpSendInv
  <2>2. CASE r.size < 1
    BY <1>5, <2>1, <2>2, UdpSendDone DEF UdpSendSend
  <2>3. CASE ~(r.size < 1)
    <3>1. /\ us' = [us EXCEPT !.x_sender = r.sender]
          /\ sent' = sent \cup ({list} \ {<<>>}) /\ UNCHANGED net
      BY <1>5, <2>3 DEF UdpSendSend
    <3>2. SharedStep(UdpSend)
      BY <2>1, <3>1, SenderTook DEF netVars
    <3>3. SentChunks' = ({ChunkCreateList(l) : l \in sent \cup {list}}) \ {NoChunk}
      <4>1. ChunkCreateList(<<>>) = NoChunk
        BY DEF ChunkCreateList, NoChunk
      <4> QED
        BY <3>1, <4>1 DEF SentChunks
    <3>4. /\ r.sender \in [state : SenderStates, queue : Seq(SentChunks')]
          /\ Len(r.sender.queue) <= MaxQueue
          /\ r.sender.state = us.x_sender.state
      BY <2>1, <3>3, SenderTakes
    <3> HIDE DEF r
    <3>5. UdpSendInv'
      BY <2>1, <3>1, <3>4 DEF UdpInv, UdpSendInv, HeldAs, Sole, SentSenders
    <3> QED
      BY <3>2, <3>5, UdpSendSteps
  <2> QED
    BY <2>2, <2>3
<1>6. CASE UdpSendWrites
  <2>1. /\ SenderWrites(us.x_sender, us.x_fd)
        /\ us' = [us EXCEPT !.x_sender = Written(us.x_sender)]
        /\ UNCHANGED <<netVars, sent, nosender>> /\ UNCHANGED <<net, live>>
        /\ us.x_sender.state = "running" /\ us.x_sender.queue # <<>>
    BY <1>6 DEF UdpSendWrites, SenderWrites, netVars
  <2>2. /\ us.x_sender \in SentSenders /\ Len(us.x_sender.queue) <= MaxQueue
        /\ us.x_fd \in Fds /\ net.remote[us.x_fd] \in Ports
    BY <2>1 DEF UdpInv, UdpSendInv, HeldAs, NULL
  <2>3. SharedStep(UdpSend)
    BY <2>1, <2>2, SenderReaches
  <2>4. /\ Written(us.x_sender) \in SentSenders
        /\ Written(us.x_sender).state = us.x_sender.state
        /\ Len(Written(us.x_sender).queue) <= MaxQueue
    BY <2>1, <2>2, SenderWorks
  <2>5. SentSenders' = SentSenders
    BY <2>1 DEF SentSenders, SentChunks
  <2>6. UdpSendInv'
    BY <2>1, <2>2, <2>4, <2>5 DEF UdpInv, UdpSendInv, HeldAs, Sole
  <2> QED
    BY <2>3, <2>6, UdpSendSteps
<1>7. CASE UdpSendFails
  <2>1. /\ us' = [us EXCEPT !.x_sender = Failed(us.x_sender)]
        /\ UNCHANGED <<net, live, stack, wire, sent, nosender>>
        /\ us.x_sender.state = "running" /\ us.x_sender.queue # <<>>
    BY <1>7 DEF UdpSendFails, SenderFails, netVars, dgVars
  <2>2. us.x_sender \in SentSenders /\ Len(us.x_sender.queue) <= MaxQueue
    BY DEF UdpInv, UdpSendInv
  <2>3. /\ Failed(us.x_sender) \in SentSenders
        /\ Failed(us.x_sender).state = "stopped"
        /\ Len(Failed(us.x_sender).queue) <= MaxQueue
    BY <2>1, <2>2, SenderWorks
  <2>4. SentSenders' = SentSenders
    BY <2>1 DEF SentSenders, SentChunks
  <2>5. UdpSendInv'
    BY <2>1, <2>3, <2>4 DEF UdpInv, UdpSendInv, HeldAs, Sole, NULL
  <2>6. StackOK'
    BY <2>1, StackKept
  <2>7. SharedStep(UdpSend)
    BY <2>1, <2>6, NobodyNotices, QuietStep DEF UdpInv, SharedInv
  <2> QED
    BY <2>5, <2>7, UdpSendSteps
<1> QED
  BY <1>1, <1>2, <1>3, <1>4, <1>5, <1>6, <1>7 DEF UdpSendNext

----------------------------------------------------------------------------
(* [udpreceive]                                                            *)
FloatlistOK(fl) ==
  /\ fl \in [argc : Nat, size : Nat, argv : Seq(Int)]
  /\ Len(fl.argv) = fl.size /\ fl.argc <= fl.size

(* iemnet__floatlist_create makes a list with room for what it shows.      *)
LEMMA FloatlistCreated ==
  ASSUME NEW size \in Nat
  PROVE  /\ FloatlistOK(FloatlistCreate(size))
         /\ FloatlistCreate(size).argc = size
         /\ FloatlistCreate(size).size = size
<1>1. [i \in 1 .. size |-> 0] \in [1 .. size -> Int]
  OBVIOUS
<1>2. /\ [i \in 1 .. size |-> 0] \in Seq(Int)
      /\ Len([i \in 1 .. size |-> 0]) = size
  BY <1>1, SeqOf
<1> QED
  BY <1>2 DEF FloatlistOK, FloatlistCreate

(* iemnet__chunk2list followed by the outlet: the bytes of the chunk, all  *)
(* of them and no more, whatever was in the list before.                   *)
LEMMA ListOfChunk ==
  ASSUME NEW fl, FloatlistOK(fl), NEW c \in Seq(0 .. 255)
  PROVE  /\ FloatlistOK(Chunk2List(c, fl))
         /\ Atoms(Chunk2List(c, fl)) = c
<1> DEFINE cl == FloatlistResize(fl, Len(c))
           v == [i \in 1 .. cl.size |-> IF i <= Len(c) THEN c[i] ELSE cl.argv[i]]
           new == [cl EXCEPT !.argv = v]
<1>0. c \in Seq(Int)
  <2>1. 0 .. 255 \subseteq Int
    OBVIOUS
  <2> QED
    BY <2>1, SeqMonotonic
<1>1. Len(c) \in Nat
  BY <1>0
<1>2. FloatlistOK(cl) /\ cl.argc = Len(c)
  <2>1. CASE Len(c) <= fl.size
    BY <1>1, <2>1 DEF FloatlistResize, FloatlistOK
  <2>2. CASE ~(Len(c) <= fl.size)
    <3>1. cl = FloatlistCreate(Len(c))
      BY <2>2 DEF FloatlistResize
    <3> QED
      BY <1>1, <3>1, FloatlistCreated
  <2> QED
    BY <2>1, <2>2
<1> HIDE DEF cl
<1>3. cl.size \in Nat /\ cl.argv \in Seq(Int) /\ Len(cl.argv) = cl.size
  BY <1>2 DEF FloatlistOK
<1>4. v \in [1 .. cl.size -> Int]
  <2> SUFFICES ASSUME NEW i \in 1 .. cl.size
               PROVE  (IF i <= Len(c) THEN c[i] ELSE cl.argv[i]) \in Int
    OBVIOUS
  <2>1. i <= Len(c) => c[i] \in Int
    BY <1>0, <1>1, <1>3
  <2>2. cl.argv[i] \in Int
    BY <1>3
  <2> QED
    BY <2>1, <2>2
<1>5. \A i \in 1 .. cl.size : i <= Len(c) => v[i] = c[i]
  OBVIOUS
<1> HIDE DEF v
<1>6. v \in Seq(Int) /\ Len(v) = cl.size
  BY <1>3, <1>4, SeqOf
<1>7. new.argv = v /\ new.argc = cl.argc /\ new.size = cl.size
  BY <1>2 DEF FloatlistOK
<1>8. FloatlistOK(new)
  BY <1>2, <1>6 DEF FloatlistOK
<1>9. Chunk2List(c, fl) = new
  BY DEF Chunk2List, cl, v
<1>10. SubSeq(v, 1, Len(c)) = c
  <2>1. Len(c) <= cl.size
    BY <1>2 DEF FloatlistOK
  <2>2. /\ SubSeq(v, 1, Len(c)) \in Seq(Int)
        /\ Len(SubSeq(v, 1, Len(c))) = Len(c)
        /\ \A i \in 1 .. Len(c) : SubSeq(v, 1, Len(c))[i] = v[i]
    BY <1>1, <1>3, <1>6, <2>1
  <2>3. c \in Seq(Int)
    BY <1>0
  <2>4. \A i \in 1 .. Len(c) : SubSeq(v, 1, Len(c))[i] = c[i]
    BY <1>1, <1>3, <1>5, <2>1, <2>2
  <2> HIDE DEF cl
  <2> QED
    BY <2>2, <2>3, <2>4, SeqEqual
<1>11. Atoms(new) = c
  BY <1>2, <1>7, <1>10 DEF Atoms
<1> QED
  BY <1>8, <1>9, <1>11

(* What the record of the object holds beside its socket.                  *)
ReceiveData(x) ==
  /\ x \in [x_fd : Fds \cup {None}, x_port : Ports \cup {NoPort},
            x_receiver : Fds \cup {None},
            x_floatlist : [argc : Nat, size : Nat, argv : Seq(Int)],
            told : Ports \cup {NoPort, Untold}, out : Seq(Int)]
  /\ Len(x.x_floatlist.argv) = x.x_floatlist.size
  /\ x.x_floatlist.argc <= x.x_floatlist.size
  /\ x.out \in SentChunks \cup {<<>>}

(* A new [udpreceive] is bound to nothing and has reported nothing.        *)
LEMMA UdpReceiveNewData ==
  /\ ReceiveData(UdpReceiveNew) /\ UdpReceiveNew.x_fd = None
  /\ UdpReceiveNew.x_receiver = None /\ UdpReceiveNew.told = Untold
BY FloatlistCreated, InitSizeAssumption
   DEF UdpReceiveNew, ReceiveData, FloatlistOK

(* A record "x" that goes by the socket of the object, or the object has   *)
(* none.                                                                   *)
GoesBy(x) ==
  /\ ReceiveData(x) /\ x.x_receiver = x.x_fd
  /\ HeldAs(net, UdpReceive, x.x_fd) /\ Sole(net, UdpReceive, x.x_fd)

(* The struct udpreceive_port works on has the descriptor the object       *)
(* holds.                                                                  *)
LEMMA UdpReceiveGoesBy ==
  ASSUME UdpInv
  PROVE  /\ GoesBy(ur)
         /\ \A p \in Ports \cup {NoPort} : GoesBy([ur EXCEPT !.told = p])
         /\ UdpReceive \notin live => GoesBy(UdpReceiveNew)
<1>1. GoesBy(ur)
  BY DEF UdpInv, UdpReceiveInv, GoesBy, ReceiveData
<1>2. ASSUME NEW p \in Ports \cup {NoPort} PROVE GoesBy([ur EXCEPT !.told = p])
  BY <1>1 DEF GoesBy, ReceiveData
<1>3. ASSUME UdpReceive \notin live PROVE GoesBy(UdpReceiveNew)
  BY <1>3, UdpReceiveNewData DEF GoesBy, UdpInv, UdpReceiveInv
<1> QED
  BY <1>1, <1>2, <1>3

(* udpreceive_setport closes the old socket.                               *)
LEMMA UdpReceiveGivesUp ==
  ASSUME UdpInv, NEW x, GoesBy(x)
  PROVE  GivenUp(net, UdpReceiveCleanupNet(net, x), UdpReceive, x.x_fd)
BY ThreeObjects, GivesUp DEF UdpInv, SharedInv, GoesBy, UdpReceiveCleanupNet

(* [udpreceive] is bound to nothing: after a failure or at its end.        *)
LEMMA UdpReceiveUnbound ==
  ASSUME UdpInv, UNCHANGED <<uc, us, wire, sent, nosender>>, StackOK',
         NEW x, GoesBy(x), net' = UdpReceiveCleanupNet(net, x),
         ReceiveData(ur'), ur'.x_fd = None, ur'.x_receiver = None,
         ur'.x_port = NoPort, ur'.told \in {NoPort, Untold},
         live' \in {live, live \cup {UdpReceive}, live \ {UdpReceive}}
  PROVE  UdpInv'
<1>1. GivenUp(net, net', UdpReceive, x.x_fd)
  BY UdpReceiveGivesUp
<1>2. SharedStep(UdpReceive)
  BY <1>1, ThreeObjects, QuietStep DEF GivenUp, UdpInv, SharedInv
<1>3. SentChunks' = SentChunks
  BY DEF SentChunks
<1>4. HeldAs(net', UdpReceive, None) /\ Sole(net', UdpReceive, None)
  BY <1>1 DEF GivenUp, GoesBy
<1>5. UdpReceiveInv'
  BY <1>3, <1>4 DEF UdpReceiveInv, ReceiveData
<1> QED
  BY <1>2, <1>5, UdpReceiveSteps

(* udpreceive_setport, when the port cannot be bound.                      *)
LEMMA UdpReceiveFails ==
  ASSUME UdpInv, UNCHANGED <<uc, us, wire, sent, nosender>>, StackOK',
         NEW x, GoesBy(x), UdpReceiveSetPortFails(x),
         x.told \in {NoPort, Untold},
         live' \in {live, live \cup {UdpReceive}}
  PROVE  UdpInv'
<1>1. /\ net' = UdpReceiveCleanupNet(net, x)
      /\ ur' = [x EXCEPT !.x_receiver = None, !.x_fd = None, !.x_port = NoPort]
  BY DEF UdpReceiveSetPortFails, UdpReceiveCleanup
<1>2. /\ ReceiveData(ur') /\ ur'.x_fd = None /\ ur'.x_receiver = None
      /\ ur'.x_port = NoPort /\ ur'.told = x.told
  BY <1>1 DEF GoesBy, ReceiveData
<1> QED
  BY <1>1, <1>2, UdpReceiveUnbound

(* udpreceive_setport, when the port is bound.                             *)
LEMMA UdpReceiveBinds ==
  ASSUME UdpInv, UNCHANGED <<uc, us, wire, sent, nosender>>, StackOK',
         NEW x, GoesBy(x), NEW req, NEW p \in Ports,
         UdpReceiveSetPortOk(x, req, p), x.told \in {p, Untold},
         live' \in {live, live \cup {UdpReceive}}, UdpReceive \in live'
  PROVE  UdpInv'
<1> DEFINE n == UdpReceiveCleanupNet(net, x)
<1>1. PICK fd \in Unused(n) :
        /\ net' = ReceiverCreate(Open(n, UdpReceive, fd, p), fd, UdpReceive, 0)
        /\ ur' = UdpReceiveBound(UdpReceiveCleanup(x), fd, p)
  BY DEF UdpReceiveSetPortOk, UdpReceiveBoundNet
<1>2. GivenUp(net, n, UdpReceive, x.x_fd)
  BY UdpReceiveGivesUp
<1> HIDE DEF n
<1>3. fd \in Fds /\ fd # None
  BY NoneIsNoFd DEF Unused
<1>4. Opened1(n, net', UdpReceive, fd, p)
  BY <1>1, <1>2, ThreeObjects, Opens DEF GivenUp
<1>5. OthersUndisturbed(net, net', UdpReceive)
  BY <1>2, <1>4, UndisturbedTwice DEF GivenUp, Opened1
<1>6. SharedStep(UdpReceive)
  BY <1>4, <1>5, ThreeObjects, QuietStep DEF Opened1, UdpInv, SharedInv
<1>7. SentChunks' = SentChunks
  BY DEF SentChunks
<1>8. /\ HeldAs(net', UdpReceive, fd) /\ Sole(net', UdpReceive, fd)
      /\ net'.remote[fd] = p
  BY <1>2, <1>4 DEF GivenUp, Opened1, GoesBy
<1>9. /\ ReceiveData(ur') /\ ur'.x_fd = fd /\ ur'.x_receiver = fd
      /\ ur'.x_port = p /\ ur'.told = x.told
  BY <1>1, <1>3 DEF GoesBy, ReceiveData, UdpReceiveBound, UdpReceiveCleanup
<1>10. UdpReceiveInv'
  BY <1>3, <1>7, <1>8, <1>9 DEF UdpReceiveInv, ReceiveData
<1> QED
  BY <1>6, <1>10, UdpReceiveSteps

(* The chunk made of all the bytes received is what was sent.              *)
LEMMA ReadWhole ==
  ASSUME NEW c \in Seq(0 .. 255), c # <<>>
  PROVE  ChunkCreateData(Len(c), c) = c
<1>1. Len(c) \in Nat /\ Len(c) >= 1
  OBVIOUS
<1>2. SubSeq(c, 1, Len(c)) = c
  OBVIOUS
<1> QED
  BY <1>1, <1>2 DEF ChunkCreateData

(* Every message to [udpreceive] and every callback keeps the invariant.   *)
LEMMA UdpReceiveKeepsInv ==
  ASSUME UdpInv, UdpReceiveNext, UNCHANGED <<uc, us>>
  PROVE  UdpInv'
<1> USE ThreeObjects
<1>1. ASSUME NEW req, UdpReceiveCreate(req)
      PROVE  UdpInv'
  <2>1. /\ UdpReceive \notin live /\ live' = live \cup {UdpReceive}
        /\ UNCHANGED <<stack, wire, sent, nosender>>
        /\ \/ UdpReceiveSetPortFails(UdpReceiveNew)
           \/ \E p \in Ports : UdpReceiveSetPortOk(UdpReceiveNew, req, p)
    BY <1>1 DEF UdpReceiveCreate, dgVars
  <2>2. StackOK'
    BY <2>1, StackKept
  <2>3. GoesBy(UdpReceiveNew) /\ UdpReceiveNew.told = Untold
    BY <2>1, UdpReceiveGoesBy, UdpReceiveNewData
  <2>4. CASE UdpReceiveSetPortFails(UdpReceiveNew)
    BY <2>1, <2>2, <2>3, <2>4, UdpReceiveFails
  <2>5. ASSUME NEW p \in Ports, UdpReceiveSetPortOk(UdpReceiveNew, req, p)
        PROVE  UdpInv'
    BY <2>1, <2>2, <2>3, <2>5, UdpReceiveBinds
  <2> QED
    BY <2>1, <2>4, <2>5
<1>2. ASSUME NEW req, UdpReceivePort(req)
      PROVE  UdpInv'
  <2>1. /\ UdpReceive \in live /\ UNCHANGED <<live, stack, wire, sent, nosender>>
    BY <1>2 DEF UdpReceivePort, Receives, dgVars
  <2>2. StackOK'
    BY <2>1, StackKept
  <2>3. CASE req = ur.x_port
    <3>1. ur' = [ur EXCEPT !.told = ur.x_port] /\ UNCHANGED net
      BY <1>2, <2>3 DEF UdpReceivePort
    <3>2. SharedStep(UdpReceive)
      BY <2>1, <2>2, <3>1, NobodyNotices, QuietStep DEF UdpInv, SharedInv
    <3>3. UdpReceiveInv'
      BY <2>1, <3>1 DEF UdpInv, UdpReceiveInv, SentChunks, HeldAs, Sole
    <3> QED
      BY <3>2, <3>3, UdpReceiveSteps
  <2>4. CASE req # ur.x_port
    <3>1. PICK p \in Ports : UdpReceiveSetPortOk([ur EXCEPT !.told = p], req, p)
      BY <1>2, <2>4 DEF UdpReceivePort
    <3> DEFINE x == [ur EXCEPT !.told = p]
    <3>2. GoesBy(x) /\ x.told = p
      BY UdpReceiveGoesBy DEF UdpInv, UdpReceiveInv
    <3> HIDE DEF x
    <3>3. UdpReceiveSetPortOk(x, req, p)
      BY <3>1 DEF x
    <3> QED
      BY <2>1, <2>2, <3>2, <3>3, UdpReceiveBinds
  <2> QED
    BY <2>3, <2>4
<1>3. ASSUME NEW req, UdpReceivePortFails(req)
      PROVE  UdpInv'
  <2> DEFINE x == [ur EXCEPT !.told = NoPort]
  <2>1. /\ stack = <<>> \/ Len(stack) < MaxNest
        /\ UNCHANGED <<live, wire, sent, nosender>>
        /\ UdpReceiveSetPortFails(x)
        /\ stack' = <<<<"udpreceive_port">>>> \o stack
    BY <1>3 DEF UdpReceivePortFails, Receives, Suspend, dgVars
  <2>2. GoesBy(x) /\ x.told = NoPort
    BY UdpReceiveGoesBy DEF UdpInv, UdpReceiveInv
  <2> HIDE DEF x
  <2> DEFINE f == <<"udpreceive_port">>
  <2>3. f \in Frames' /\ f[1] # UdpClient /\ stack' = <<f>> \o stack
    BY <2>1 DEF Frames, UdpClient
  <2> HIDE DEF f
  <2>4. StackOK'
    BY <2>1, <2>3, StackIsRest, StackPushed
  <2> QED
    BY <2>1, <2>2, <2>4, UdpReceiveFails
<1>4. CASE UdpReceivePortResume
  <2>1. /\ stack # <<>> /\ stack' = Tail(stack)
        /\ ur' = [ur EXCEPT !.told = ur.x_port]
        /\ UNCHANGED <<net, live, wire, sent, nosender>>
    BY <1>4 DEF UdpReceivePortResume, Resumes, dgVars
  <2>2. StackOK'
    BY <2>1, StackPopped
  <2>3. SharedStep(UdpReceive)
    BY <2>1, <2>2, NobodyNotices, QuietStep DEF UdpInv, SharedInv
  <2>4. UdpReceiveInv'
    BY <2>1 DEF UdpInv, UdpReceiveInv, SentChunks, HeldAs, Sole
  <2> QED
    BY <2>3, <2>4, UdpReceiveSteps
<1>5. ASSUME NEW fd \in Fds, UdpReceiveRead(fd)
      PROVE  UdpInv'
  <2>1. PICK d \in wire :
          /\ wire' \in {wire, wire \ {d}}
          /\ stack' = <<<<"udpreceive_read",
                         ChunkCreateData(Len(d.data), d.data)>>>> \o stack
    BY <1>5 DEF UdpReceiveRead, Arrives, Suspend
  <2>2. stack = <<>> /\ UNCHANGED <<net, live, sent, nosender, ur>>
    BY <1>5 DEF UdpReceiveRead, Polled, Idle
  <2>3. /\ sent \subseteq Lists /\ d.data \in SentChunks
        /\ wire \subseteq [port : Ports, data : SentChunks]
        /\ live \subseteq UdpObjects /\ nosender \subseteq {UdpClient, UdpSend}
    BY <2>1 DEF UdpInv, SharedInv
  <2>4. ChunkCreateData(Len(d.data), d.data) = d.data
    BY <2>3, SentAreBytes, ReadWhole
  <2>5. SentChunks' = SentChunks
    BY <2>2 DEF SentChunks
  <2> DEFINE f == <<"udpreceive_read", d.data>>
  <2>6. f \in Frames' /\ f[1] # UdpClient /\ stack' = <<f>> \o stack
    BY <2>1, <2>3, <2>4, <2>5 DEF Frames, UdpClient
  <2> HIDE DEF f
  <2>7. StackOK'
    BY <2>2, <2>6, StackIsRest, StackPushed
  <2>8. SharedStep(UdpReceive)
    BY <2>1, <2>2, <2>3, <2>5, <2>7, NobodyNotices DEF SharedStep
  <2>9. UdpReceiveInv'
    BY <2>2, AllUndisturbed, UdpReceiveKept
  <2> QED
    BY <2>8, <2>9, UdpReceiveSteps
<1>6. ASSUME NEW c \in ChunksOf, UdpReceiveReadResume(c)
      PROVE  UdpInv'
  <2> DEFINE cl == Chunk2List(c, ur.x_floatlist)
  <2>1. /\ stack # <<>> /\ stack' = Tail(stack)
        /\ Head(stack) = <<"udpreceive_read", c>>
        /\ ur' = [ur EXCEPT !.x_floatlist = cl, !.out = Atoms(cl)]
        /\ UNCHANGED <<net, live, wire, sent, nosender>>
    BY <1>6 DEF UdpReceiveReadResume, Resumes, dgVars
  <2>2. Head(stack) \in Frames /\ sent \subseteq Lists
    BY <2>1 DEF UdpInv, SharedInv, StackOK
  <2>3. c \in SentChunks
    BY <2>1, <2>2 DEF Frames, UdpClient
  <2>4. c \in Seq(0 .. 255)
    BY <2>2, <2>3, SentAreBytes
  <2>5. FloatlistOK(cl) /\ Atoms(cl) = c
    BY <2>4, ListOfChunk DEF UdpInv, UdpReceiveInv, FloatlistOK
  <2>6. c \in Seq(Int)
    <3>1. 0 .. 255 \subseteq Int
      OBVIOUS
    <3> QED
      BY <2>4, <3>1, SeqMonotonic
  <2>7. StackOK'
    BY <2>1, StackPopped
  <2> HIDE DEF cl
  <2>8. SharedStep(UdpReceive)
    BY <2>1, <2>7, NobodyNotices, QuietStep DEF UdpInv, SharedInv
  <2>9. UdpReceiveInv'
    BY <2>1, <2>3, <2>5, <2>6
       DEF UdpInv, UdpReceiveInv, FloatlistOK, SentChunks, HeldAs, Sole
  <2> QED
    BY <2>8, <2>9, UdpReceiveSteps
<1>7. CASE UdpReceiveFree
  <2>1. /\ stack = <<>> /\ UNCHANGED <<stack, wire, sent, nosender>>
        /\ net' = UdpReceiveCleanupNet(net, ur) /\ ur' = UdpReceiveNew
        /\ live' = live \ {UdpReceive}
    BY <1>7 DEF UdpReceiveFree, Idle, dgVars
  <2>2. StackOK'
    BY <2>1, StackKept
  <2>3. GoesBy(ur)
    BY UdpReceiveGoesBy
  <2>4. UdpReceiveNew.x_port = NoPort
    BY DEF UdpReceiveNew
  <2> QED
    BY <2>1, <2>2, <2>3, <2>4, UdpReceiveNewData, UdpReceiveUnbound
<1> QED
  BY <1>1, <1>2, <1>3, <1>4, <1>5, <1>6, <1>7 DEF UdpReceiveNext

(* A datagram is lost.                                                     *)
LEMMA LoseKeepsInv ==
  ASSUME UdpInv, Lose, UNCHANGED <<uc, us, ur>>
  PROVE  UdpInv'
<1>1. /\ wire' \subseteq wire /\ UNCHANGED <<net, live, stack, sent, nosender>>
  BY DEF Lose, netVars
<1>2. /\ sent' \subseteq Lists /\ wire' \subseteq [port : Ports, data : SentChunks']
      /\ live' \subseteq UdpObjects /\ nosender' \subseteq {UdpClient, UdpSend}
  BY <1>1 DEF UdpInv, SharedInv, SentChunks
<1>3. StackOK'
  BY <1>1, StackKept
<1>4. SharedStep(UdpReceive)
  BY <1>1, <1>2, <1>3, NobodyNotices DEF SharedStep
<1>5. UdpReceiveInv'
  BY <1>1, AllUndisturbed, UdpReceiveKept
<1> QED
  BY <1>4, <1>5, UdpReceiveSteps

----------------------------------------------------------------------------
(* The invariant holds before any object is created.                       *)
LEMMA UdpInvInitially ==
  ASSUME Init
  PROVE  UdpInv
<1>1. IsNet(net, UdpObjects)
  BY DEF Init, NetInit, IsNet
<1>2. SharedInv
  <2>1. StackOK
    BY NestAssumption DEF Init, NetInit, StackOK, Lone
  <2> QED
    BY <1>1, <2>1 DEF Init, NetInit, DatagramsInit, SharedInv,
       PolledFor, Polls, NoOne, UdpClient, UdpReceive
<1>3. \A o \in UdpObjects : HeldAs(net, o, None) /\ Sole(net, o, None)
  BY DEF Init, NetInit, HeldAs, Sole, UdpObjects, NoOne, UdpClient, UdpSend,
     UdpReceive
<1>4. Off \in SentSenders /\ Len(Off.queue) <= MaxQueue /\ Off.state = NULL
  BY DatagramBounds DEF Off, SentSenders, SenderStates
<1>5. UdpClientInv
  BY <1>3, <1>4, ThreeObjects DEF Init, UdpClientNew, UdpClientInv
<1>6. UdpSendInv
  BY <1>3, <1>4, ThreeObjects DEF Init, UdpSendNew, UdpSendInv
<1>7. UdpReceiveInv
  <2>1. UdpReceiveNew.x_port = NoPort /\ ur = UdpReceiveNew
    BY DEF Init, UdpReceiveNew
  <2> QED
    BY <1>3, <2>1, ThreeObjects, UdpReceiveNewData DEF UdpReceiveInv, ReceiveData
<1> QED
  BY <1>2, <1>5, <1>6, <1>7 DEF UdpInv

(* The invariant is kept by every step of the patch.                       *)
LEMMA UdpInvInductive ==
  ASSUME UdpInv, [Next]_vars
  PROVE  UdpInv'
<1>1. CASE UNCHANGED vars
  <2>1. UNCHANGED <<net, live, stack, wire, sent, nosender, uc, us, ur>>
    BY <1>1 DEF vars, netVars, dgVars
  <2>2. StackOK'
    BY <2>1, StackKept
  <2>3. SharedStep(UdpReceive)
    BY <2>1, <2>2, ThreeObjects, NobodyNotices, QuietStep DEF UdpInv, SharedInv
  <2>4. UdpReceiveInv'
    BY <2>1, AllUndisturbed, UdpReceiveKept
  <2> QED
    BY <2>1, <2>3, <2>4, UdpReceiveSteps
<1>2. CASE Next
  BY <1>2, UdpClientKeepsInv, UdpSendKeepsInv, UdpReceiveKeepsInv, LoseKeepsInv
     DEF Next
<1> QED
  BY <1>1, <1>2

----------------------------------------------------------------------------
(* A sender that holds only what was sent is a sender.                     *)
LEMMA SenderTyped ==
  ASSUME UdpInv, NEW s \in SentSenders, Len(s.queue) <= MaxQueue
  PROVE  s \in Senders
<1>1. SentChunks \subseteq ChunksOf
  BY DEF UdpInv, SharedInv, SentChunks, ChunksOf
<1>2. /\ s.queue \in Seq(SentChunks) /\ s.state \in SenderStates
      /\ s = [state |-> s.state, queue |-> s.queue]
  BY DEF SentSenders
<1>3. s.queue \in Seq(ChunksOf)
  BY <1>1, <1>2, SeqGrows
<1>4. Len(s.queue) \in 0 .. MaxQueue /\ s.queue \in [1 .. Len(s.queue) -> ChunksOf]
  BY <1>3, DatagramBounds
<1> QED
  BY <1>2, <1>4 DEF Senders

(* The objects and what they share keep their types: no queue outgrows its *)
(* bound, no float list its memory, no function is suspended for an object *)
(* that is gone.                                                           *)
THEOREM UdpTypes == Spec => []TypeOK
<1>1. UdpInv => TypeOK
  <2> SUFFICES ASSUME UdpInv PROVE TypeOK
    OBVIOUS
  <2>1. NetTypeOK(UdpObjects)
    BY DEF UdpInv, SharedInv, StackOK, IsNet, NetTypeOK
  <2>2. SentChunks \subseteq ChunksOf
    BY DEF UdpInv, SharedInv, SentChunks, ChunksOf
  <2>3. DatagramsTypeOK
    BY <2>2 DEF UdpInv, SharedInv, DatagramsTypeOK
  <2>4. UdpClientTypeOK
    BY SenderTyped DEF UdpInv, UdpClientInv, UdpClientTypeOK
  <2>5. UdpSendTypeOK
    BY SenderTyped DEF UdpInv, UdpSendInv, UdpSendTypeOK
  <2>6. ur.x_floatlist.argv \in Seq(Int)
    BY DEF UdpInv, UdpReceiveInv
  <2>7. DOMAIN ur.x_floatlist.argv = 1 .. Len(ur.x_floatlist.argv)
    BY <2>6
  <2>8. UdpReceiveTypeOK
    BY <2>7 DEF UdpInv, UdpReceiveInv, UdpReceiveTypeOK
  <2> QED
    BY <2>1, <2>3, <2>4, <2>5, <2>8 DEF TypeOK
<1> QED
  BY <1>1, UdpInvInitially, UdpInvInductive, PTL DEF Spec

(* udpclient_connect, udpsend_connect and udpreceive_setport open, and the *)
(* functions that undo them close, only the object's own socket, and       *)
(* leave none behind, whatever messages come in from inside the outlets.   *)
THEOREM UdpSocketsHeld == Spec => []SocketsHeldByOwner
<1>1. UdpInv => SocketsHeldByOwner
  <2> SUFFICES ASSUME UdpInv, NEW o \in UdpObjects
               PROVE  /\ Holds(o) \in Opened(o) \cup {None}
                      /\ o \notin nosender => Opened(o) \subseteq {Holds(o)}
    BY DEF SocketsHeldByOwner
  <2>1. /\ HeldAs(net, o, Holds(o))
        /\ o \notin nosender => Sole(net, o, Holds(o))
    <3>1. CASE o = UdpClient
      BY <3>1, ThreeObjects DEF Holds, UdpInv, UdpClientInv
    <3>2. CASE o = UdpSend
      BY <3>2, ThreeObjects DEF Holds, UdpInv, UdpSendInv
    <3>3. CASE o = UdpReceive
      BY <3>3, ThreeObjects DEF Holds, UdpInv, UdpReceiveInv
    <3> QED
      BY <3>1, <3>2, <3>3, ThreeObjects
  <2> QED
    BY <2>1 DEF HeldAs, Sole, Opened
<1> QED
  BY <1>1, UdpInvInitially, UdpInvInductive, PTL DEF Spec

(* The receivers' poll functions and the sockets come and go together.     *)
THEOREM UdpPollsReachHolders == Spec => []PollsReachHolders
<1>1. UdpInv => PollsReachHolders
  BY DEF UdpInv, SharedInv, PolledFor, Polls, PollsReachHolders
<1> QED
  BY <1>1, UdpInvInitially, UdpInvInductive, PTL DEF Spec

(* What iemnet__numconnout sends to the status outlet of [udpclient] is    *)
(* so, and what it sends to the connection outlet is the same number       *)
(* unless another report was made in between.                              *)
THEOREM UdpReports == Spec => []ReportedIsOpen
<1>1. UdpInv => ReportedIsOpen
  <2> SUFFICES ASSUME UdpInv PROVE ReportedIsOpen
    OBVIOUS
  <2>1. ASSUME 1 \in {uc.x_connectstate, uc.said}
        PROVE  uc.x_fd \in Opened(UdpClient) /\ net.polls[uc.x_fd] # <<>>
    <3>1. uc.x_fd \in Fds /\ net.owner[uc.x_fd] = UdpClient
      BY <2>1 DEF UdpInv, UdpClientInv, HeldAs
    <3>2. net.polls[uc.x_fd] = <<<<UdpClient, 0>>>>
      BY <3>1 DEF UdpInv, SharedInv, PolledFor, Polls
    <3> QED
      BY <3>1, <3>2 DEF Opened
  <2>2. ASSUME NEW num \in {0, 1}, Resumes(<<UdpClient, num>>), ~uc.nested
        PROVE  num = uc.said
    <3>1. /\ stack # <<>> /\ stack \in Seq(Frames) /\ Lone(stack, uc.said)
          /\ Head(stack) = <<UdpClient, num>>
      BY <2>2 DEF Resumes, UdpInv, SharedInv, StackOK
    <3>2. 1 \in DOMAIN stack /\ stack[1] = <<UdpClient, num>>
      BY <3>1
    <3>3. stack[1] = <<UdpClient, uc.said>>
      BY <3>1, <3>2 DEF Lone
    <3> QED
      BY <3>2, <3>3
  <2>3. us.told = 1 => us.x_fd \in Opened(UdpSend)
    BY DEF UdpInv, UdpSendInv, HeldAs, Opened
  <2> QED
    BY <2>1, <2>2, <2>3 DEF ReportedIsOpen
<1> QED
  BY <1>1, UdpInvInitially, UdpInvInductive, PTL DEF Spec

(* What udpreceive_port says is the port the socket is bound to.           *)
THEOREM UdpPortIsBound == Spec => []PortIsBound
<1>1. UdpInv => PortIsBound
  BY DEF UdpInv, UdpReceiveInv, PortIsBound
<1> QED
  BY <1>1, UdpInvInitially, UdpInvInductive, PTL DEF Spec

(* A message is turned into a chunk, queued, written, read and turned into *)
(* a list again, with other messages in between: its bytes arrive whole,   *)
(* or not at all.                                                          *)
THEOREM UdpReceivedWasSent == Spec => []ReceivedWasSent
<1>1. UdpInv => ReceivedWasSent
  <2> SUFFICES ASSUME UdpInv, ur.out # <<>>
               PROVE  \E list \in sent : SameBytes(ur.out, list)
    BY DEF ReceivedWasSent
  <2>1. sent \subseteq Lists /\ ur.out \in SentChunks
    BY DEF UdpInv, SharedInv, UdpReceiveInv
  <2>2. PICK list \in sent : ur.out = ChunkCreateList(list)
    BY <2>1, SentAreBytes
  <2>3. list \in Seq(Int)
    BY <2>1, ListsAssumption
  <2>4. Len(ur.out) = Len(list)
    BY <2>2, <2>3, ChunkOfList
  <2>5. ASSUME NEW i \in DOMAIN ur.out
        PROVE  ur.out[i] \in 0 .. 255 /\ (list[i] - ur.out[i]) % 256 = 0
    <3>1. DOMAIN ur.out = DOMAIN list /\ ur.out[i] = list[i] % 256
      BY <2>2 DEF ChunkCreateList
    <3>2. list[i] \in Int
      BY <2>3, <3>1
    <3> DEFINE a == list[i]
               b == ur.out[i]
    <3>3. a \in Int /\ b = a % 256
      BY <3>1, <3>2
    <3> HIDE DEF a, b
    <3>4. b \in 0 .. 255 /\ (a - b) % 256 = 0
      BY <3>3, ByteOf
    <3> QED
      BY <3>4 DEF a, b
  <2> QED
    BY <2>4, <2>5 DEF SameBytes
<1> QED
  BY <1>1, UdpInvInitially, UdpInvInductive, PTL DEF Spec

(* udpsend_send never takes the fill state after a message with data for   *)
(* the end of the connection: the chunk it has just pushed counts.         *)
THEOREM UdpDataKeepsConnection == Spec => DataKeepsConnection
<1>1. UdpInv /\ [Next]_vars =>
        [\A list \in Lists \ {<<>>} :
           UdpSendSend(list) /\ us.x_sender.state = "running"
             => us'.x_fd = us.x_fd /\ us'.x_sender.state = "running"]_vars
  <2> SUFFICES ASSUME UdpInv, NEW list \in Lists \ {<<>>}, UdpSendSend(list),
                      us.x_sender.state = "running"
               PROVE  us'.x_fd = us.x_fd /\ us'.x_sender.state = "running"
    OBVIOUS
  <2> DEFINE r == SenderSend(us.x_sender, ChunkCreateList(list))
  <2>1. /\ us.x_sender \in SentSenders /\ us.x_sender.state # NULL
        /\ Len(us.x_sender.queue) <= MaxQueue /\ sent \subseteq Lists
        /\ Room(us.x_sender, ChunkCreateList(list))
    BY DEF UdpSendSend, UdpInv, SharedInv, UdpSendInv
  <2>2. r.size \in Nat /\ r.size >= 1 /\ r.sender.state = "running"
    BY <2>1, SenderTakes
  <2>3. us' = [us EXCEPT !.x_sender = r.sender]
    BY <2>2 DEF UdpSendSend
  <2> HIDE DEF r
  <2> QED
    BY <2>2, <2>3 DEF UdpInv, UdpSendInv
<1> QED
  BY <1>1, UdpInvInitially, UdpInvInductive, PTL DEF Spec, DataKeepsConnection
============================================================================
