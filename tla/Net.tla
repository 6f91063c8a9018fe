-------------------------------- MODULE Net --------------------------------
(***************************************************************************)
(* What the objects of a patch share: the file descriptors of the process, *)
(* Pd's list of poll functions, and Pd's main thread, on which the objects *)
(* run one at a time.                                                      *)
(*                                                                         *)
(* An outlet calls into the patch before it returns, and the patch may     *)
(* send a message to any object from there.  A function that still has     *)
(* something to do after an outlet is therefore suspended on "stack" while *)
(* the outlet runs; a message that comes in meanwhile is handled to its    *)
(* end before the function resumes.  Poll functions are only called when   *)
(* no message is being handled.                                            *)
(*                                                                         *)
(* A function of an object works on the record "net" as a value, because   *)
(* it closes and opens several descriptors in one go.                      *)
(***************************************************************************)
EXTENDS Integers, Sequences

CONSTANTS
  Fds,       \* file descriptors the operating system hands out
  Ports,     \* port numbers
  Reentrant, \* objects the patch sends messages to from inside an outlet
  MaxNest    \* bound: functions suspended when a message comes in

ASSUME FdsAssumption == -1 \notin Fds
ASSUME NestAssumption == MaxNest \in Nat

VARIABLES
  net,   \* descriptors and poll functions, see NetInit
  live,  \* the objects that exist
  stack  \* the functions suspended in an outlet, the innermost first

netVars == <<net, live, stack>>

NULL == "NULL"
NoOne == "nobody"
NoPort == "noport"
AnyPort == "anyport" \* port number 0: the operating system chooses one
None == -1   \* no descriptor, or a receiver that is NULL
Timeouts == {-1, 100}
SenderStates == {NULL, "running", "stopped"}

(* owner:   who opened the descriptor; nobody's is closed                  *)
(* remote:  of a connected stream socket whether the other end is there,   *)
(*          of a datagram socket the port it is connected or bound to      *)
(* polls:   the poll functions registered for it, in order                 *)
(* foul:    somebody closed a descriptor it had not open                   *)
(* crashed: a NULL pointer was followed                                    *)
NetInit ==
  /\ net = [owner |-> [fd \in Fds |-> NoOne],
            remote |-> [fd \in Fds |-> NULL],
            polls |-> [fd \in Fds |-> <<>>],
            foul |-> FALSE, crashed |-> FALSE]
  /\ stack = <<>>

----------------------------------------------------------------------------
(* The main thread: it handles a message for object o at top level or from *)
(* inside an outlet, polls when it is idle, resumes a suspended function.  *)
Idle == stack = <<>> /\ ~net.crashed
Receives(o) ==
  /\ o \in live /\ ~net.crashed
  /\ stack = <<>> \/ (o \in Reentrant /\ Len(stack) < MaxNest)
Polled(fd, o, arg) ==
  Idle /\ \E i \in DOMAIN net.polls[fd] : net.polls[fd][i] = <<o, arg>>
Suspend(f, rest) == stack' = <<f>> \o rest
Resumes(f) == stack # <<>> /\ ~net.crashed /\ Head(stack) = f

(* iemnet__numconnout: the number goes to the status outlet, and to the    *)
(* connection outlet when that returns, whatever was reported meanwhile.   *)
NumConnOut(o, num, rest) == Suspend(<<o, num>>, rest)
ConnectOut(o, num) == Resumes(<<o, num>>) /\ stack' = Tail(stack)
Reporting(o, frames) == \E k \in DOMAIN frames : frames[k][1] = o

----------------------------------------------------------------------------
(* socket(2), accept(2): any descriptor that is not open.                  *)
Unused(n) == {fd \in Fds : n.owner[fd] = NoOne}
Open(n, o, fd, remote) == [n EXCEPT !.owner[fd] = o, !.remote[fd] = remote]

(* iemnet__closesocket, for each of fds.                                   *)
CloseSockets(n, o, fds) ==
  [n EXCEPT
     !.owner = [fd \in Fds |-> IF fd \in fds THEN NoOne ELSE n.owner[fd]],
     !.remote = [fd \in Fds |-> IF fd \in fds THEN NULL ELSE n.remote[fd]],
     !.foul = @ \/ \E fd \in fds \ {None} : n.owner[fd] # o]

CloseSocket(n, o, fd) == CloseSockets(n, o, {fd})

(* sys_addpollfn appends; sys_rmpollfn removes the first one for fd.       *)
AddPollFn(n, fd, o, arg) == [n EXCEPT !.polls[fd] = Append(@, <<o, arg>>)]
RmPollFns(n, fds) ==
  [n EXCEPT !.polls = [fd \in Fds |->
     IF fd \in fds /\ n.polls[fd] # <<>> THEN Tail(n.polls[fd])
     ELSE n.polls[fd]]]

(* iemnet__receiver_create and iemnet__receiver_destroy, of each receiver  *)
(* that is not NULL; a receiver is named by its sockfd.                    *)
ReceiverCreate(n, fd, o, arg) == AddPollFn(n, fd, o, arg)
ReceiversDestroy(n, recs) == RmPollFns(n, recs \ {None})

(* iemnet__sender_create: the thread may fail to start.                    *)
SenderCreate == {"running", NULL}

(* iemnet__connect, the outcomes that count as success: connect(2) without *)
(* time-out waits for the answer; with one, select(2) reports a socket as  *)
(* writable when it is connected and also when it was refused.             *)
Connect(timeout) == IF timeout < 0 THEN {"up"} ELSE {"up", "dead"}

(* The other end of a stream socket closes the connection or breaks down.  *)
RemoteDies ==
  /\ \E fd \in Fds :
       /\ net.remote[fd] = "up"
       /\ net' = [net EXCEPT !.remote[fd] = "dead"]
  /\ UNCHANGED <<live, stack>>

(* pollfun on a stream socket: recvfrom has nothing to read any more, and  *)
(* the callback gets a NULL chunk.                                         *)
ReceivesNull(fd, o, arg) == Polled(fd, o, arg) /\ net.remote[fd] = "dead"

NetTypeOK(objects) ==
  /\ live \subseteq objects
  /\ net.owner \in [Fds -> {NoOne} \cup objects]
  /\ net.remote \in [Fds -> {NULL, "up", "dead"} \cup Ports]
  /\ net.foul \in BOOLEAN /\ net.crashed \in BOOLEAN
  /\ Len(stack) <= MaxNest + 2
============================================================================
