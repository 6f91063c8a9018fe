# iemnet: models, checks and proofs

TLA+ specifications of *iemnet*, the networking externals for Pure Data
(`[tcpserver]`, `[tcpclient]`, `[udpserver]`, …), with the TLC runs that check
them on small instances and TLAPS proofs for every instance. The modules are
translated from the C sources; PROJECT.json maps each definition to its lines.

## The system

Pd's **main thread** runs everything except one **send thread** per sender.
Messages from the patch, poll callbacks of sockets and deletion of objects all
happen on the main thread, one at a time; outlets call synchronously into the
patch, which may send a message back to the object that is in the middle of a
function.

| part | state | operations | interacts with |
|---|---|---|---|
| chunk queue (`iemnet_data.c`) | linked list, `size`, `done`, `used`, two mutexes, two condition variables | push, pop_block, pop_noblock, getsize, finish, destroy | main thread pushes, send thread pops |
| sender (`iemnet_sender.c`) | queue, `keepsending`, `isrunning`, thread | create, send, getsize, destroy, thread loop | owned by an object; writes to its socket |
| receiver (`iemnet_receiver.c`) | socket, buffer, registration at Pd's poll list | create, pollfn, destroy | calls the object with a chunk, or with NULL at the end of the connection |
| tcpserver (`tcpserver.c`) | table of clients, counts, listening socket, default target | port, accept, connect, send to one/all/all but one, disconnect, resize, free | one sender and receiver per client |
| udpserver (`udpserver.c`) | table of clients with last-seen times, bound socket, default target, time-out | bind, receive, add, send, disconnect, expire, resize, free | one sender per client, one receiver for all |
| tcpclient, udpclient, tcpsend, udpsend | one connection | connect, send, disconnect, free | a sender, a receiver, `iemnet__connect` |
| tcpreceive, udpreceive | a socket, or a table of them | port, receive, free | receivers |
| chunks and float lists (`iemnet_data.c`) | buffers | create from list/data/chunk, to list | everyone |
| helpers (`iemnet.c`, `iemnet_setup.c`) | names | address output, logging, close | everyone |

What is hard here: the queue gives up its mutex between its regions and sleeps
on two condition variables (interleavings, lost wakeups); the sender is
destroyed while its thread runs (ordering, termination); send threads fail at
any time (partial failure); the servers' tables change while functions walk
them; socket numbers and client numbers go stale; capacities are reached.
PROJECT.json lists each of these under `hazards`, at its line, with the
properties that are about it.

What makes each part correct, in one line each:

- queue: nothing lost, duplicated or reordered; the fill state and the use
  count are exact; a queued chunk wakes a consumer; freed only when unused;
- sender: every chunk destroyed once; nothing written after destruction; the
  sender freed only after its thread ended; destruction returns; a queued chunk
  is written;
- servers: the table holds exactly the live clients, densely and in order;
  every socket open is in use and is closed once; a broadcast serves everybody
  once; numbers denote the client they were taken from; expiry removes the
  silent clients and no other;
- clients, senders and receivers: the descriptors and poll functions held are
  the object's own and all it has; what is reported is what is held, after every
  sequence of connect, failure and disconnect; a peer that has gone is noticed;
- chunks and lists: what is put out is what was sent, byte for byte.

## Modules

| module | models | notes |
|---|---|---|
| `Queue` | the queue and the threads using it | one action per mutex region; `qpc[t]` is the place of thread *t* between regions |
| `Fifo` | what the queue promises | abstract: put a new item, get the oldest |
| `Sender` | one sender with main and send thread | extends `Queue`; the queue is the code's, not an abstraction |
| `SendPath` | what an owner may rely on | abstract: accepted, delivered, stopping, closed |
| `TcpServer` | client table of `[tcpserver]` | one action per message or callback, loops over clients step by step |
| `UdpServer` | client table of `[udpserver]` | as above, with logical time |
| `Net` | descriptors, Pd's poll list, outlets; receiver, close, `iemnet__connect` | shared by the modules below |
| `TcpClient`, `TcpSend`, `TcpReceive` | one object each | one action per message or callback |
| `TcpPatch` | the three in one patch | composition, properties, fairness |
| `Chunk` | chunks and float lists | operators |
| `Datagrams` | senders of datagrams and the network | extends `Net` and `Chunk` |
| `UdpClient`, `UdpSend`, `UdpReceive` | one object each | as above, with the data they send |
| `UdpPatch` | the three in one patch with the network between them | composition, properties |
| `QueueProofs` | theorems about `Queue` | TLAPS |
| `SenderProofs` | theorems about `Sender` | TLAPS, on top of `QueueProofs` |
| `TcpServerProofs`, `UdpServerProofs` | theorems about the servers' tables | TLAPS |
| `NetProofs` | lemmas about `Net`: what opening, polling and closing do to descriptors | TLAPS |
| `TcpPatchProofs`, `UdpPatchProofs` | theorems about the two patches | TLAPS, on top of `NetProofs` |
| `MCQueue`, `MCSender`, `MCTcpServer`, `MCUdpServer`, `MCUdpPatch` | instances for TLC | values of the constants |

### Queue

The list is the code's: `head`, `tail` and `next`; a node is named by its
chunk because `queue_push` allocates one per chunk. Everything done under
`q->mtx` or `q->usedmtx` is one atomic step, everything between is a label of
`qpc`. A thread asleep on `q->cond` is at `pop_wait`, one asleep on
`q->usedcond` at `fin_wait`; `pthread_cond_signal` wakes any one of them, and
`SpuriousWakeup` wakes one without reason, as POSIX allows. `PopTake` goes to
sleep without looking at `done`, `PopWoken` looks at it only after the sleep,
as in the source. `accepted` and `taken` are histories of linked and unlinked
chunks. A copy that could not be made is a push of NULL. The clients of the
queue (`MainPush`, `MainFinish`, `MainDestroy`, `ConsumerPop`) are those the
sender gives it, generalised to any number of consumers.

### Sender

`mpc` is the place of the main thread in a sender function, `spc` that of the
send thread in its loop. `s->mtx` is held across a blocking call only in
`iemnet__sender_destroy` (`locked`); the other regions are one step that needs
it free. `iemnet__sender_send` tests `isrunning` under the mutex and pushes
after releasing it, so the thread may end in between. The send function either
takes the chunk (`SubSend`) or fails (`SubSendFails`); bytes within a chunk are
not modelled. `pthread_create` may fail.

### TcpServer, UdpServer

Slots are numbered from 0 as in `x_sr`. `Ready` says that the main thread is in
no loop. File descriptors are handed out again after a close. `ub` is set when
the C code accesses memory outside the table (tcp) or follows a NULL pointer
(udp); such a state is final, and the properties speak of the states up to it.
A sender is seen only as one that may start to refuse data (`SenderStops`), at
any moment, which is what `isrunning = FALSE` in `Sender` amounts to. In
`UdpServer` `x_port` is an unsigned short, so that -1 is `PortMax`, and the table is
treated as a value (`Table`, `AutoRemove`, `SenderRemove`) because several
functions run after each other within one message. A descriptor numbered
`sr_uniq` is closed with each client, as in the source. `AutoRemove` says where
the client of each slot comes from: a kept client moves behind those kept before
it, which is what the two indices of the loop in `udpserver_sender_autoremove`
do. Bytes in `Queue` and `Chunk` are counted as the cardinality of the set of
byte positions, so that no sum over a list has to be unfolded in a proof.

Two simplifications: outlets do not re-enter the object, and messages that
only report are left out.

### Net and the objects of a patch

`net` holds for every descriptor who opened it (`owner`), what is at the other
end (`remote`: a stream peer that is there or gone, or a datagram port) and the
poll functions registered for it in order (`polls`), as `sys_addpollfn` appends
and `sys_rmpollfn` removes the first. Descriptors are handed out again after a
close, to any object. `net.foul` records that somebody closed a descriptor it
had not open, `net.crashed` that a NULL pointer was followed (a "bang" to a
`[tcpclient]` after "disconnect" makes a symbol of `x_hostname = NULL`); a crash
is final.

A function that has work left after an outlet is pushed on `stack` and resumed
later; a message for an object of `Reentrant` may be handled in between, with
its own outlets, up to `MaxNest` functions. So `tcpclient_connect` is
`TcpClientConnect`, which disconnects, and `TcpClientConnectResume`, which
connects; `tcpclient_info`, `tcpclient_send`, `udpclient_connect`,
`udpclient_info`, `udpreceive_port` and `udpreceive_read_callback` are split the
same way. A function whose last act is an outlet needs no second half. Callbacks
only run when the stack is empty, and objects are created and deleted only then.

`iemnet__numconnout` calls two outlets, "connections" on the status outlet and
then the number on the connection outlet. In `UdpClient` they are two steps
(`NumConnOut`, `ConnectOut`): a message that answers the first one, such as
"disconnect", is handled before the second one, which then still puts out the
number of before. `uc.said` is the number last said on the status outlet;
`uc.nested` remembers that one report was made inside another, which is when the
connection outlet ends with a number that is out of date. In `TcpClient` and
`TcpReceive` the two outlets are one step. For `[tcpreceive]` this is exact: the
count changes only in poll functions and on deletion. For `[tcpclient]` it is
exact as long as it is not in `Reentrant`, which `tcp_patch` and the theorems
require; the behaviour that `tcpclient_reconnect` finds needs an answer to the
connection outlet only, and is one of the code's as it stands.

The variables `tc`, `ts`, `tr`, `uc`, `us`, `ur` are the objects' structs, with
`told` the number last sent to the connection (or port) outlet (but see
`uc.said` above). A receiver is
named by its descriptor. `iemnet__connect` is given by its outcomes (`Connect`):
with a time-out `select` also reports a refused socket as writable, which makes
a connection whose peer is gone from the start. Creating a sender may fail, a
running one may stop at any time.

`Datagrams` adds the data: a sender is its state and its queue, as `SendPath`
promises it; the network loses, duplicates and reorders what is written.
`sent` remembers the messages a sender took. `Chunk` converts a message to
bytes (every atom modulo 256, none for an empty message), what was received to
a chunk, and a chunk to the float list that is used again for every packet.
`nosender` remembers that an object got no send thread: `udpsend_connect` then
leaks a descriptor when it is called again, and the properties make an exception
for such an object.

## Runs

| run | shows |
|---|---|
| `queue` | all interleavings of the main thread with two consumers and three chunks: list in order, exact size, exact use count, no stranded chunk, freed unused and empty, implements `Fifo` |
| `queue_finish` | **violated**: `queue_finish` does not unblock a consumer that has entered `queue_pop_block` and not yet gone to sleep |
| `sender` | three chunks, one send thread: chunks freed once, freed after the thread ended, implements `SendPath`; with fairness: destruction returns unless the wakeup above was lost or send(2) blocks for ever; a queued chunk is written unless the sender stops |
| `tcpserver` | three clients, four descriptors, capacities 2 and 5: table dense and ordered, sockets accounted for, broadcast copy valid and complete, a default target stays with its client while that is connected (later its number may be reused for another client) |
| `tcpserver_all` | **violated**: `disconnect` without argument leaves every second client connected |
| `tcpserver_bounds` | **violated**: disconnecting from a full (or full but one) table leaves the table |
| `udpserver` | three addresses, two slots, two ticks, two sockets: no slot dangles, a second look for expired clients finds none, a client that is not silent is freed only by the step that disconnects it or finds its sender stopped, the shared socket stays open and polled through all binds unless it has the number of a freed client |
| `udpserver_gap` | **violated**: removing a client does not close the gap |
| `udpserver_rebind` | **violated**: binding again closes the socket under the clients' senders |
| `tcp_patch` | `[tcpclient]`, `[tcpsend]`, `[tcpreceive]` with three descriptors, and messages to the last two from inside the outlets of the first: nothing foreign closed, nothing leaked, every poll function at its holder, reports true, dead peers noticed |
| `tcpclient_reconnect` | **violated**: a "connect" from inside the outlet of a "connect" leaves a connection nobody owns |
| `udp_patch` | `[udpclient]`, `[udpsend]`, `[udpreceive]` with two descriptors and two ports, messages from inside outlets, a network that loses and duplicates: descriptors and poll functions as above, a reported connection open and polled, the connection outlet in step with the status outlet unless reports are nested, the reported port bound, only sent data put out, a message with data never taken for a broken connection |

The violated properties quote a header, comment or help patch; the findings in
PROJECT.json say which. The passing runs reach every action of their
specification. Each passing property has a mutant of a mapped definition, kept
beside it, that breaks it.

**Bounds.** Two consumers are the fewest with which a signal can wake the wrong
one and a third thread can take the chunk first; three chunks give the list a
first, middle and last node and let it be emptied and refilled. In the servers
three clients make a shift move more than one entry, one more descriptor than
clients lets numbers be reused, and a second capacity exercises the resize.
`MaxClients`, `MaxTime` and `MaxPolled` bound counters that the code lets grow.
`UdpServer` has two descriptors, so that the object is bound again with another
socket, and one of them is 1000, the number of the first client, so that
`udpserver_sender_free` does close the shared socket. Two slots leave a hole
with a client behind it; the same run with three slots takes twice as long as
is practical for a regular run and passes too (`MaxSlots = 3`, `InitMax = 3`,
`Capacities = {1, 3}`: 9,636,242 states). `UdpServer` uses symmetry on addresses
only, in an invariant-and-action run.
In `tcp_patch` three descriptors for objects that could use five make them pass
numbers to each other, two slots let `[tcpreceive]` fill up and be found by
number, and two nested functions are a connect interrupted by a message that
itself calls an outlet. `MaxNest = 2` in `udp_patch` allows the message inside
a message inside an outlet; 3 passes too (6.3 million states). `udp_patch` has two descriptors for three objects, a
list of one byte and one of two around a float list created for one, an empty
message, and atoms outside a byte; a queue and the network hold one item each
(`MaxQueue`, `MaxWire`), which is enough to lose and to repeat a datagram; the
properties do not depend on their order. The run has no liveness property and
uses symmetry on descriptors and ports. `tcp_patch` excludes messages to
`[tcpclient]` from its own outlets: `tcpclient_reconnect` shows what they do.

**Fairness.** `QueueFairSpec`: a thread inside a queue function that can step
does so (mutexes are held for bounded times); nobody has to call anything and
no wakeup is spurious by obligation. `SenderFairSpec`: weak fairness of the main
thread inside a sender function and strong fairness of the send thread: the
busy UNLOCK/LOCK loop of `iemnet__sender_destroy` disables and enables the
thread's lock again and again, and a scheduler gives it the mutex in the end.
`send(2)` is not fair: it blocks as long as the peer does not read. Creating,
sending and destroying are not fair either. `FairSpec` of `TcpPatch`: an outlet
returns (weak fairness of `Resume`), and Pd's scheduler calls a poll function
whose descriptor stays readable; messages interrupt it time and again, so this
is strong fairness of `Poll`. Peers need not die and the patch need not act.

## Proofs

`QueueProofs` proves, for every set of chunks and every finite set of
consumers (assumptions `ChunksAssumption`, `SizeAssumption`,
`ThreadsAssumption`):

- `QueueTypeCorrect`, `QueueKeepsOrder`: `QueueTypeOK` and `LinkedInOrder` are
  invariant. `LinkedInOrder` alone is not inductive: linking keeps it only if
  the chunk is new and pushed once, and the pointers stay right only if nobody
  but the main thread pushes. The inductive invariant `QueueInv` adds `Roles`
  (who may be at which label), `PushIsFresh`, `PushedOnce` and `DrainedAtEnd`
  (when `queue_destroy` frees the queue, the list is empty, so that clearing
  the head loses nothing). One lemma per region shows that it is kept;
  `LinkKeepsOrder` and `UnlinkKeepsOrder` hold the pointer argument.
- `QueueRefinesFifo`: the pointer-level queue implements `Fifo`. Linking is
  `Put`, unlinking is `Get`, everything else stutters.
- `QueueUseCount`: `q->used` is the number of threads inside a pop, by
  cardinality of that set; the lemma `SignalMovesSleepers` shows that a wakeup
  does not move a thread in or out of it.
- `QueueSizeExact`: `q->size` is the number of bytes in the list. The bytes of
  the stretch from `taken` to `accepted` grow by a chunk at one end with a push
  and shrink by one at the other end with a pop (`BytesAtEnds`).
- `QueueFreedUnused`: when the queue has been freed nobody is inside it. The
  invariant `Destroying` ties `teardown` to the places of the consumers.
- `QueueStrandsNothing`: `NoStrandedChunk` is inductive with `QueueInv`; every
  region is compared with the number of consumers awake before and after
  (`AwakeMore`, `AwakeLess`).

`SenderProofs` proves, for every set of chunks (also from `SubAssumption`: the
send thread is the only consumer):

- `SenderTypeCorrect`, `SenderFreesOnce`, `SenderFreedLast`: `SenderTypeOK`,
  `ChunksFreedOnce` and `FreedAfterThreadEnded` are invariant. The inductive
  invariant `SenderInv` consists of `QueueInv`, the types, `Places` (which place
  in the queue goes with which place in the sender; in particular the list is
  drained only when the send thread has exited), `Holding` (when the send thread
  has a chunk in hand), `Stopping` (`keepsending` is cleared by
  `iemnet__sender_destroy` alone, and at most one chunk is written afterwards),
  `Written` (until an error the chunks taken are those written, plus the one in
  hand) and `Freeing` (those taken are those destroyed, plus the one in hand).
  The lemmas `MainStepEffect` and `SubStepEffect` reduce every step inside the
  queue to what it does to the places and hands of the two threads.
- `SenderRefinesSendPath`: the sender implements `SendPath`. Linking a chunk is
  `Accept`, the write is `Deliver`, clearing `keepsending` is `Stop`, the end of
  `iemnet__sender_destroy` is `Close`.

`TcpServerProofs` proves, for tables, sets of descriptors and numbers of clients
of any size (assumptions of `TcpServer` on its constants, nothing else):

- `ServerTypes`, `ServerTableInOrder`, `ServerSockets`, `ServerCopyIsLive`,
  `ServerTargetStays`, and the action property
  `ServerBroadcastServes`. One inductive invariant, `ServerInv`, carries all of
  them: `TableInv` (dense, in order of arrival, no socket in two rows),
  `SocketInv` (a socket is open and polled just when a row or the listener has
  it), `TargetInv`, `CopyInv` and `LoopInv`. `CopyInv` is what a broadcast needs:
  ahead of the loop the copy agrees with rows of the table; behind it a client
  took the message just when it is still connected. That the copy stays right
  while clients are disconnected from under it rests on the lemmas `Shift` and
  `Survivors`: the shift of `tcpserver_disconnect` moves the clients behind the
  removed one by one row, keeps their order and loses none. The lemmas speak of
  a shift that stays within the table; one that does not sets `ub` (run
  `tcpserver_bounds`), and the properties claim nothing after that.

`UdpServerProofs` proves the same way, for any addresses, capacities and
time-outs:

- `UdpServerTypes`, `UdpServerSlots`, `UdpServerFresh`, and the action property
  `UdpServerNobodyExpiresEarly`. The invariant is stated of a table as a value
  (`GoodTable(t)`), since several functions change it within one message; it
  includes that clients seen by the last look are fresh for the time-out *of that
  look* (`SlotsFresh`), which a change of `x_timeout` does not disturb, and that
  the counter is ahead of every client (`UniqInv`), which makes a new one unique.
  `AutoRemoveMoves` shows, by counting kept slots below a slot (`Ranks`), that
  moving the clients together duplicates none. Steps are sorted into those on
  the table (`QuietStep`), `udpserver_do_bind` (`BindStep`) and
  `udpserver_free` (`StepCases`).
- `UdpServerNobodyExpiresEarly` ties a freed client to the step: a client heard
  of within the time-out is freed by the step that disconnects this very client
  (`Disconnects`) or that its stopped sender refuses (`Refuses`), although the
  same step may first look for expired clients and move the others together.
- `UdpServerSocketOpen` has no hypothesis on the descriptors. The code closes the
  descriptor numbered `sr_uniq` with every client, and these numbers start at
  1000: a process with a thousand descriptors open can lose the shared socket
  this way. `BoundSocketOpen` names this exception and no other: a socket that
  is lost has the number of a client that was freed (`FreedClients`).

`TcpPatchProofs` proves `TcpTypes` without condition, and `TcpClosesOwn`,
`TcpSocketsHeld`, `TcpSendersHaveSockets`, `TcpPollsReachHolders` and
`TcpReports` if messages do not re-enter `[tcpclient]` from its own outlets
(`TcpClient \notin Reentrant`; `tcpclient_reconnect` shows that they fail
otherwise), for any number of descriptors and slots and any depth of nesting.
The inductive invariant `TcpInv` says for every descriptor at once who owns it,
which struct names it and who is polled for it (`Agrees`); for `[tcpclient]` the
name is `x_receiver`, because `x_fd` is stale after a disconnection. Each object
then gives up or acquires one descriptor at a time (`ClientReleases`,
`SlotAcquires`, …) and the others are not disturbed.

`UdpPatchProofs` proves `UdpTypes`, `UdpSocketsHeld`, `UdpPollsReachHolders`,
`UdpReports`, `UdpPortIsBound`, `UdpReceivedWasSent` and the action property
`UdpDataKeepsConnection`, with re-entrance of every object. `UdpInv` has one
part per object and one for what they share: everything in a queue or on the
network was made of a message that was sent, and the float list has room for
what it shows. A step of one object leaves the parts of the others alone as soon
as their descriptors are undisturbed (`Undisturbed`, `SharedStep`). In
`UdpReceivedWasSent` the bytes are followed through all conversions. `UdpReports`
is about the status outlet whatever is nested, and about the connection outlet
when nothing is; the invariant behind it relates `uc.said` to the reports that
are still suspended on `stack`.

The inductive invariants of the servers and of the patches also pass TLC as
invariants of the instances of the runs.

Only model-checked: the liveness properties (`TcpClientNotices`,
`TcpReceiveNotices` and those of `sender`), since fairness and ENABLED are out of
the prover's reach. Every invariant and every safety action property of a
passing run is also a theorem.

## Not modelled

- Re-entrant messages through outlets of the servers, and deleting an object
  from inside its own outlet.
- `sr_client` of `[tcpserver]`, the client number that goes to the status outlet
  with "client" for each event (`tcpserver.c:290`). It is set when the client
  connects and not changed when the table shifts, while the output of "bang"
  (`tcpserver.c:222`), the help patch and the messages that address a client use
  the index. The two numbers differ for every client behind one that has left;
  the code keeps no relation between them that could be stated.
- Partial sends of a chunk.
- Data put out by `[tcpclient]`, `[tcpreceive]` and `[udpclient]` (their chunks
  become lists as in `[udpreceive]`), the serialize flag, the socket options.
- A `[tcpsend]` whose connection has died: `tcpsend_send` ignores the sender's
  answer, so there is nothing it could notice.
- Overflow of `q->size` (the queue is unbounded in the code).
- Address formatting, logging, registration, help patches, the build.

## Plan

Done: queue and sender with their proofs; tcpserver and udpserver with theirs;
receiver, connect and the six other objects in two patches with theirs; chunks
and lists.

1. An abstract specification of a server's table (a sequence of clients, added
   at the end and removed anywhere) and the proof that `TcpServer` implements it.
2. The patches with `[tcpclient]` re-entrant: what still holds of the other two
   objects.
3. Re-entrant outlets for the servers: a message handled inside a broadcast.
