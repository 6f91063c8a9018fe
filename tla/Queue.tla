------------------------------- MODULE Queue -------------------------------
(***************************************************************************)
(* The thread-safe chunk queue of iemnet_data.c (queue_push,               *)
(* queue_pop_block, queue_finish, queue_destroy).                          *)
(*                                                                         *)
(* Every region the code executes under q->mtx or q->usedmtx is one step.  *)
(* A thread's place between two such regions is qpc[t]; the threads asleep *)
(* on q->cond are those at "pop_wait", those asleep on q->usedcond those   *)
(* at "fin_wait".  The list is the code's: head, tail and next pointers.   *)
(* A node is malloc'ed per pushed chunk, so it is named by its chunk.      *)
(*                                                                         *)
(* The main thread pushes, finishes and destroys; the Consumers pop.       *)
(***************************************************************************)
EXTENDS Integers, Sequences, FiniteSets

CONSTANTS
  Chunks,      \* the chunks that may be pushed, each at most once
  SizeOf,      \* SizeOf[c] is c->size
  Main,        \* Pd's main thread
  Consumers,   \* the threads that call queue_pop_block
  NULL         \* the null pointer

ASSUME ChunksAssumption == NULL \notin Chunks
ASSUME SizeAssumption == SizeOf \in [Chunks -> Nat \ {0}]
ASSUME ThreadsAssumption == Main \notin Consumers /\ IsFiniteSet(Consumers)

VARIABLES
  head, tail, \* q->head and q->tail, as the chunk of the node or NULL
  next,       \* next[c] is the next pointer of the node of c
  size,       \* q->size
  done,       \* q->done
  used,       \* q->used
  alive,      \* q has been created and not freed
  qpc,        \* per thread: where it is inside a queue function
  qchunk,     \* per thread: the chunk it pushes, or the one it popped
  qsize,      \* per thread: the last size a queue function returned to it
  teardown,   \* the main thread is inside queue_destroy
  accepted,   \* history: every chunk linked into the queue, in order
  taken       \* history: every chunk unlinked from the queue, in order

listVars == <<head, tail, next, size>>
hist == <<accepted, taken>>
qvars == <<head, tail, next, size, done, used, alive, qpc, qchunk, qsize,
           teardown, accepted, taken>>

Threads == {Main} \cup Consumers
ChunkOrNull == Chunks \cup {NULL}

PopInside == {"pop_take", "pop_wait", "pop_woken", "pop_dec"}
NbInside == {"nb_take", "nb_dec"}
QLabels == {"idle", "push_size", "push_link", "pop_inc", "fin_signal",
            "fin_used", "fin_wait", "nb_inc"} \cup PopInside \cup NbInside

Sleepers == {t \in Threads : qpc[t] = "pop_wait"}

----------------------------------------------------------------------------
(* pthread_cond_signal: one of the threads asleep at label "from" becomes  *)
(* runnable; nothing happens when nobody sleeps.                           *)
Signalled(pc, from, to) ==
  LET asleep == {t \in Threads : pc[t] = from}
  IN  IF asleep = {} THEN {pc}
                     ELSE {[pc EXCEPT ![t] = to] : t \in asleep}

SignalCond(pc) == Signalled(pc, "pop_wait", "pop_woken")
SignalUsed(pc) == Signalled(pc, "fin_wait", "fin_used")

----------------------------------------------------------------------------
(* queue_create *)
QueueEmpty ==
  /\ head = NULL
  /\ tail = NULL
  /\ next = [c \in Chunks |-> NULL]
  /\ size = 0
  /\ done = FALSE
  /\ used = 0
  /\ qpc = [t \in Threads |-> "idle"]
  /\ qchunk = [t \in Threads |-> NULL]
  /\ qsize = [t \in Threads |-> 0]
  /\ teardown = FALSE
  /\ accepted = <<>>
  /\ taken = <<>>

QueueInit == QueueEmpty /\ alive = TRUE

(* queue_push, first region: read the fill state; a NULL chunk is not      *)
(* queued and the size read here is the result.                            *)
PushSize(t) ==
  /\ qpc[t] = "push_size"
  /\ qsize' = [qsize EXCEPT ![t] = size]
  /\ qpc' = [qpc EXCEPT ![t] = IF qchunk[t] = NULL THEN "idle" ELSE "push_link"]
  /\ UNCHANGED <<listVars, done, used, alive, qchunk, teardown, hist>>

(* queue_push, second region: link the node and add to the size ...        *)
LinkTail(t) ==
  LET n == qchunk[t] IN
  /\ qpc[t] = "push_link"
  /\ head' = IF tail = NULL THEN n ELSE head
  /\ next' = [c \in Chunks |-> IF c = n THEN NULL
                               ELSE IF c = tail THEN n ELSE next[c]]
  /\ tail' = n
  /\ size' = size + SizeOf[n]
  /\ qsize' = [qsize EXCEPT ![t] = size']
  /\ qchunk' = [qchunk EXCEPT ![t] = NULL]
  /\ accepted' = Append(accepted, n)
  /\ UNCHANGED <<done, used, alive, teardown, taken>>

(* Mutants of PushLink: it never signals; it signals only when the list    *)
(* was empty; it links the node before the head.                           *)
PushLinkNoSignal(t) == LinkTail(t) /\ qpc' = [qpc EXCEPT ![t] = "idle"]

PushLinkSignalsOnce(t) ==
  /\ LinkTail(t)
  /\ qpc' \in LET pc == [qpc EXCEPT ![t] = "idle"]
               IN  IF head = NULL THEN SignalCond(pc) ELSE {pc}

PushLinkAtHead(t) ==
  LET n == qchunk[t] IN
  /\ qpc[t] = "push_link"
  /\ head' = n
  /\ next' = [next EXCEPT ![n] = head]
  /\ tail' = IF tail = NULL THEN n ELSE tail
  /\ size' = size + SizeOf[n]
  /\ qpc' \in SignalCond([qpc EXCEPT ![t] = "idle"])
  /\ qchunk' = [qchunk EXCEPT ![t] = NULL]
  /\ accepted' = Append(accepted, n)
  /\ UNCHANGED <<done, used, alive, qsize, teardown, taken>>

(* ... and signal.                                                         *)
PushLink(t) ==
  LinkTail(t) /\ qpc' \in SignalCond([qpc EXCEPT ![t] = "idle"])

(* Mutants of Unlink: the tail still points to the last node of a list     *)
(* that became empty; the size is not reduced.                             *)
UnlinkKeepsTail(t) ==
  /\ head' = next[head]
  /\ size' = size - SizeOf[head]
  /\ qchunk' = [qchunk EXCEPT ![t] = head]
  /\ taken' = Append(taken, head)
  /\ UNCHANGED <<tail, next, accepted>>

UnlinkKeepsSize(t) ==
  /\ head' = next[head]
  /\ tail' = IF next[head] = NULL THEN NULL ELSE tail
  /\ qchunk' = [qchunk EXCEPT ![t] = head]
  /\ taken' = Append(taken, head)
  /\ UNCHANGED <<size, next, accepted>>

(* The unlinking both pop functions share, run under q->mtx.               *)
Unlink(t) ==
  /\ head' = next[head]
  /\ tail' = IF next[head] = NULL THEN NULL ELSE tail
  /\ size' = size - SizeOf[head]
  /\ qchunk' = [qchunk EXCEPT ![t] = head]
  /\ taken' = Append(taken, head)
  /\ UNCHANGED <<next, accepted>>

UseIncrement(t, from, to) ==
  /\ qpc[t] = from
  /\ used' = used + 1
  /\ qpc' = [qpc EXCEPT ![t] = to]
  /\ UNCHANGED <<listVars, done, alive, qchunk, qsize, teardown, hist>>

(* queue_pop_block *)
PopInc(t) == UseIncrement(t, "pop_inc", "pop_take")

(* lock q->mtx; sleep if the list is empty (without looking at q->done),   *)
(* else take the head.                                                     *)
PopTake(t) ==
  /\ qpc[t] = "pop_take"
  /\ \/ /\ head = NULL
        /\ qpc' = [qpc EXCEPT ![t] = "pop_wait"]
        /\ UNCHANGED <<listVars, qchunk, hist>>
     \/ /\ head # NULL
        /\ Unlink(t)
        /\ qpc' = [qpc EXCEPT ![t] = "pop_dec"]
  /\ UNCHANGED <<done, used, alive, qsize, teardown>>

(* Mutant: the return for done forgets queue_use_decrement.                *)
PopWokenStaysCounted(t) ==
  /\ qpc[t] = "pop_woken"
  /\ \/ /\ done
        /\ qpc' = [qpc EXCEPT ![t] = "idle"]
        /\ UNCHANGED <<listVars, qchunk, hist>>
     \/ /\ ~done /\ head = NULL
        /\ qpc' = [qpc EXCEPT ![t] = "pop_wait"]
        /\ UNCHANGED <<listVars, qchunk, hist>>
     \/ /\ ~done /\ head # NULL
        /\ Unlink(t)
        /\ qpc' = [qpc EXCEPT ![t] = "pop_dec"]
  /\ UNCHANGED <<done, used, alive, qsize, teardown>>

(* pthread_cond_wait has returned: leave with NULL if done, else test the  *)
(* list again.                                                             *)
PopWoken(t) ==
  /\ qpc[t] = "pop_woken"
  /\ \/ /\ done
        /\ qpc' = [qpc EXCEPT ![t] = "pop_dec"]
        /\ UNCHANGED <<listVars, qchunk, hist>>
     \/ /\ ~done /\ head = NULL
        /\ qpc' = [qpc EXCEPT ![t] = "pop_wait"]
        /\ UNCHANGED <<listVars, qchunk, hist>>
     \/ /\ ~done /\ head # NULL
        /\ Unlink(t)
        /\ qpc' = [qpc EXCEPT ![t] = "pop_dec"]
  /\ UNCHANGED <<done, used, alive, qsize, teardown>>

(* queue_use_decrement, and queue_pop_block returns qchunk[t].             *)
PopDec(t) ==
  /\ qpc[t] = "pop_dec"
  /\ used' = used - 1
  /\ qpc' \in SignalUsed([qpc EXCEPT ![t] = "idle"])
  /\ UNCHANGED <<listVars, done, alive, qchunk, qsize, teardown, hist>>

(* POSIX lets pthread_cond_wait return without a signal.                   *)
SpuriousWakeup(t) ==
  /\ \/ qpc[t] = "pop_wait" /\ qpc' = [qpc EXCEPT ![t] = "pop_woken"]
     \/ qpc[t] = "fin_wait" /\ qpc' = [qpc EXCEPT ![t] = "fin_used"]
  /\ UNCHANGED <<listVars, done, used, alive, qchunk, qsize, teardown, hist>>

(* queue_finish, first region: set done and signal one sleeper.            *)
FinSignal(t) ==
  /\ qpc[t] = "fin_signal"
  /\ done' = TRUE
  /\ qpc' \in SignalCond([qpc EXCEPT ![t] = "fin_used"])
  /\ UNCHANGED <<listVars, used, alive, qchunk, qsize, teardown, hist>>

(* queue_finish, second region: sleep while the queue is in use.           *)
FinUsed(t) ==
  /\ qpc[t] = "fin_used"
  /\ qpc' = [qpc EXCEPT ![t] = IF used # 0 THEN "fin_wait"
                               ELSE IF teardown THEN "nb_inc" ELSE "idle"]
  /\ UNCHANGED <<listVars, done, used, alive, qchunk, qsize, teardown, hist>>

(* queue_pop_noblock, called by queue_destroy to drain the list.           *)
NbInc(t) == UseIncrement(t, "nb_inc", "nb_take")

NbTake(t) ==
  /\ qpc[t] = "nb_take"
  /\ \/ head = NULL /\ qchunk' = [qchunk EXCEPT ![t] = NULL]
        /\ UNCHANGED <<listVars, hist>>
     \/ head # NULL /\ Unlink(t)
  /\ qpc' = [qpc EXCEPT ![t] = "nb_dec"]
  /\ UNCHANGED <<done, used, alive, qsize, teardown>>

(* Mutant: queue_destroy pops one chunk only.                              *)
NbDecOnce(t) ==
  /\ qpc[t] = "nb_dec"
  /\ used' = used - 1
  /\ qpc' \in SignalUsed([qpc EXCEPT ![t] = "idle"])
  /\ head' = NULL
  /\ tail' = NULL
  /\ alive' = FALSE
  /\ teardown' = FALSE
  /\ qchunk' = [qchunk EXCEPT ![t] = NULL]
  /\ UNCHANGED <<next, size, done, qsize, hist>>

(* The chunk is destroyed and the loop goes on; without one the queue is   *)
(* freed and queue_destroy returns.                                        *)
NbDec(t) ==
  /\ qpc[t] = "nb_dec"
  /\ used' = used - 1
  /\ IF qchunk[t] # NULL
     THEN /\ qpc' \in SignalUsed([qpc EXCEPT ![t] = "nb_inc"])
          /\ UNCHANGED <<head, tail, alive, teardown>>
     ELSE /\ qpc' \in SignalUsed([qpc EXCEPT ![t] = "idle"])
          /\ head' = NULL
          /\ tail' = NULL
          /\ alive' = FALSE
          /\ teardown' = FALSE
  /\ qchunk' = [qchunk EXCEPT ![t] = NULL]
  /\ UNCHANGED <<next, size, done, qsize, hist>>

----------------------------------------------------------------------------
(* Calls: entering a queue function is local to the thread.                *)
Enter(t, label, c) ==
  /\ qpc[t] = "idle"
  /\ qpc' = [qpc EXCEPT ![t] = label]
  /\ qchunk' = [qchunk EXCEPT ![t] = c]

CallPush(t, c) ==
  /\ Enter(t, "push_size", c)
  /\ UNCHANGED <<listVars, done, used, alive, qsize, teardown, hist>>
(* Mutant: the result of queue_pop_block is not initialised and points to  *)
(* no chunk.                                                               *)
CallPopUnset(t) ==
  /\ Enter(t, "pop_inc", t)
  /\ UNCHANGED <<listVars, done, used, alive, qsize, teardown, hist>>
CallPop(t) ==
  /\ Enter(t, "pop_inc", NULL)
  /\ UNCHANGED <<listVars, done, used, alive, qsize, teardown, hist>>
CallFinish(t) ==
  /\ Enter(t, "fin_signal", NULL)
  /\ UNCHANGED <<listVars, done, used, alive, qsize, teardown, hist>>
CallDestroy(t) ==
  /\ Enter(t, "fin_signal", NULL)
  /\ teardown' = TRUE
  /\ UNCHANGED <<listVars, done, used, alive, qsize, hist>>

(* queue_getsize: one region that reads the fill state.                    *)
QueueGetsize(t) ==
  /\ qpc[t] = "idle"
  /\ qsize' = [qsize EXCEPT ![t] = size]
  /\ UNCHANGED <<listVars, done, used, alive, qpc, qchunk, teardown, hist>>

(* A step of thread t inside a queue function.                             *)
QueueStep(t) ==
  \/ PushSize(t) \/ PushLink(t)
  \/ PopInc(t) \/ PopTake(t) \/ PopWoken(t) \/ PopDec(t)
  \/ FinSignal(t) \/ FinUsed(t)
  \/ NbInc(t) \/ NbTake(t) \/ NbDec(t)

----------------------------------------------------------------------------
(* The queue under the clients the program gives it.  The main thread      *)
(* pushes fresh chunks (a copy made by iemnet__chunk_create_chunk, or NULL *)
(* when that fails) until it finishes the queue, may finish it repeatedly, *)
(* and destroys it once the consumers are gone (pthread_join).             *)
Fresh == Chunks \ {accepted[i] : i \in 1 .. Len(accepted)}

MainPush == /\ alive /\ ~done
            /\ \E c \in Fresh \cup {NULL} : CallPush(Main, c)
MainGetsize == alive /\ QueueGetsize(Main)
MainFinish == alive /\ CallFinish(Main)
MainDestroy == /\ alive
               /\ \A t \in Consumers : qpc[t] = "idle"
               /\ CallDestroy(Main)
ConsumerPop == \E t \in Consumers : alive /\ ~teardown /\ CallPop(t)

QueueNext ==
  \/ MainPush \/ MainGetsize \/ MainFinish \/ MainDestroy
  \/ ConsumerPop
  \/ \E t \in Threads : QueueStep(t) \/ SpuriousWakeup(t)

QueueSpec == QueueInit /\ [][QueueNext]_qvars

(* A thread inside a queue function keeps running: the mutexes are held    *)
(* for bounded times only.  Nobody is obliged to call anything, and a      *)
(* spurious wakeup need never happen.                                      *)
QueueFairSpec ==
  QueueSpec /\ \A t \in Threads : WF_qvars(QueueStep(t))

----------------------------------------------------------------------------
(* Type invariant of the queue's state and of the threads using it.        *)
QueueTypeOK ==
  /\ head \in ChunkOrNull /\ tail \in ChunkOrNull
  /\ next \in [Chunks -> ChunkOrNull]
  /\ size \in Int /\ used \in Int
  /\ done \in BOOLEAN /\ alive \in BOOLEAN /\ teardown \in BOOLEAN
  /\ qpc \in [Threads -> QLabels]
  /\ qchunk \in [Threads -> ChunkOrNull]
  /\ qsize \in [Threads -> Int]
  /\ accepted \in Seq(Chunks) /\ taken \in Seq(Chunks)

(* The list built by head, tail and next holds exactly the chunks that     *)
(* were pushed and not yet popped, in the order of the pushes, and every   *)
(* chunk was popped in that order: queue_push and the pops never lose,     *)
(* duplicate or reorder a chunk, whoever runs between their regions.       *)
LinkedInOrder ==
  LET k == Len(taken)
      n == Len(accepted)
  IN  /\ k <= n
      /\ \A i \in 1 .. k : taken[i] = accepted[i]
      /\ head = IF k = n THEN NULL ELSE accepted[k + 1]
      /\ tail = IF k = n THEN NULL ELSE accepted[n]
      /\ \A i \in k + 1 .. n :
            next[accepted[i]] = IF i = n THEN NULL ELSE accepted[i + 1]

(* q->size, which queue_push and queue_getsize hand to the patch as the    *)
(* fill state, is the number of bytes in the chunks still queued.          *)
QueuedBytes ==
  UNION {{i} \X (1 .. SizeOf[accepted[i]]) :
           i \in Len(taken) + 1 .. Len(accepted)}
SizeIsQueuedBytes == size = Cardinality(QueuedBytes)

(* q->used counts the threads between queue_use_increment and              *)
(* queue_use_decrement: queue_finish waits for those and for nobody else.  *)
UsedCountsPoppers ==
  used = Cardinality({t \in Threads : qpc[t] \in PopInside \cup NbInside})

(* No pushed chunk is left behind while a consumer sleeps on q->cond: as   *)
(* long as the queue is not finished, every queued chunk has a consumer    *)
(* awake inside queue_pop_block that is about to look at the list.  One    *)
(* signal per queue_push is needed for this with several consumers.        *)
NoStrandedChunk ==
  ~done /\ Sleepers # {} =>
    Len(accepted) - Len(taken) <=
      Cardinality({t \in Threads : qpc[t] \in {"pop_take", "pop_woken"}})

(* Nobody is inside a queue function once queue_destroy has freed q, and   *)
(* nothing remained in the list.                                           *)
FreedWhenUnused ==
  ~alive => /\ \A t \in Threads : qpc[t] = "idle"
            /\ accepted = taken

FifoView == INSTANCE Fifo WITH Item <- Chunks, entered <- accepted, left <- taken

(* The queue with its pointers, regions and wakeups implements the FIFO of *)
(* iemnet_data.h: each step of a thread puts a fresh chunk, gets the       *)
(* oldest one, or does neither.                                            *)
ImplementsFifo == FifoView!Spec

(* iemnet_data.h on queue_finish: it "unblocks all blocking calls to       *)
(* queue_pop_block".  Once the queue is finished, a consumer inside        *)
(* queue_pop_block leaves it.                                              *)
FinishUnblocksPop ==
  \A t \in Consumers :
    done /\ qpc[t] \in PopInside ~> qpc[t] = "idle"
============================================================================
