---------------------------- MODULE QueueProofs ----------------------------
(***************************************************************************)
(* Proofs about module Queue, for any number of consumers and any set of   *)
(* chunks: type correctness, the order of the linked list, the use count   *)
(* and the refinement of the FIFO.                                         *)
(***************************************************************************)
EXTENDS Queue, FiniteSetTheorems, SequenceTheorems, TLAPS

(* What keeps the list in order beyond its own shape: who may be where,    *)
(* and that the chunk about to be linked is a new one.                     *)
Roles ==
  /\ \A t \in Consumers : qpc[t] \in {"idle", "pop_inc"} \cup PopInside
  /\ qpc[Main] \notin {"pop_inc"} \cup PopInside

PushIsFresh ==
  /\ qpc[Main] \in {"push_size", "push_link"} => qchunk[Main] \in Fresh \cup {NULL}
  /\ qpc[Main] = "push_link" => qchunk[Main] # NULL

PushedOnce ==
  \A i, j \in 1 .. Len(accepted) : accepted[i] = accepted[j] => i = j

DrainedAtEnd ==
  qpc[Main] = "nb_dec" /\ qchunk[Main] = NULL => Len(taken) = Len(accepted)

QueueInv ==
  QueueTypeOK /\ LinkedInOrder /\ Roles /\ PushIsFresh /\ PushedOnce
    /\ DrainedAtEnd

----------------------------------------------------------------------------
(* pthread_cond_signal moves at most one thread, from its sleep to the     *)
(* label it wakes at, and leaves every other thread where it is.           *)
LEMMA SignalMovesSleepers ==
  ASSUME NEW pc \in [Threads -> QLabels], NEW from, NEW to \in QLabels,
         NEW pc2 \in Signalled(pc, from, to)
  PROVE  /\ pc2 \in [Threads -> QLabels]
         /\ \A t \in Threads : pc2[t] = pc[t] \/ (pc[t] = from /\ pc2[t] = to)
<1>1. CASE {t \in Threads : pc[t] = from} = {}
  BY <1>1 DEF Signalled
<1>2. CASE {t \in Threads : pc[t] = from} # {}
  <2>1. PICK w \in Threads : pc[w] = from /\ pc2 = [pc EXCEPT ![w] = to]
    BY <1>2 DEF Signalled
  <2>2. QED
    BY <2>1
<1>3. QED
  BY <1>1, <1>2

(* The list stays in order when a fresh chunk is linked at its tail, and   *)
(* every chunk has still been pushed once.                                 *)
LEMMA LinkKeepsOrder ==
  ASSUME QueueInv, NEW n \in Fresh, n # NULL,
         head' = (IF tail = NULL THEN n ELSE head),
         next' = [c \in Chunks |-> IF c = n THEN NULL
                                   ELSE IF c = tail THEN n ELSE next[c]],
         tail' = n,
         accepted' = Append(accepted, n), taken' = taken
  PROVE  LinkedInOrder' /\ PushedOnce'
<1> DEFINE k == Len(taken)
           m == Len(accepted)
<1> USE ChunksAssumption
<1>1. /\ accepted \in Seq(Chunks) /\ taken \in Seq(Chunks)
      /\ k \in Nat /\ m \in Nat /\ k <= m /\ n \in Chunks
      /\ \A i \in 1 .. m : accepted[i] \in Chunks /\ accepted[i] # n
      /\ next \in [Chunks -> ChunkOrNull]
  BY DEF QueueInv, QueueTypeOK, LinkedInOrder, Fresh
<1>2. /\ Len(accepted') = m + 1
      /\ accepted'[m + 1] = n
      /\ \A i \in 1 .. m : accepted'[i] = accepted[i]
  BY <1>1
<1>3. PushedOnce'
  BY <1>1, <1>2 DEF PushedOnce, QueueInv
<1>4. tail = NULL <=> k = m
  BY <1>1 DEF QueueInv, LinkedInOrder
<1>5. head' = accepted'[k + 1]
  BY <1>1, <1>2, <1>4 DEF QueueInv, LinkedInOrder
<1>6. \A i \in k + 1 .. m + 1 :
        next'[accepted'[i]] = IF i = m + 1 THEN NULL ELSE accepted'[i + 1]
  <2> TAKE i \in k + 1 .. m + 1
  <2>1. CASE i = m + 1
    BY <2>1, <1>1, <1>2
  <2>2. CASE i = m
    <3>1. accepted'[i] = tail /\ tail # NULL /\ tail # n /\ tail \in Chunks
      BY <2>2, <1>1, <1>2, <1>4 DEF QueueInv, LinkedInOrder
    <3>2. QED
      BY <3>1, <2>2, <1>1, <1>2
  <2>3. CASE i \in k + 1 .. m - 1
    <3>1. i \in 1 .. m /\ i + 1 \in 1 .. m /\ m \in 1 .. m /\ i # m
      BY <2>3, <1>1
    <3>2. tail = accepted[m] /\ accepted[i] # tail
      BY <3>1, <2>3, <1>1 DEF QueueInv, LinkedInOrder, PushedOnce
    <3>3. next[accepted[i]] = accepted[i + 1]
      BY <3>1, <2>3, <1>1 DEF QueueInv, LinkedInOrder
    <3>4. QED
      BY <3>1, <3>2, <3>3, <1>1, <1>2
  <2>4. QED
    BY <2>1, <2>2, <2>3, <1>1
<1>7. LinkedInOrder'
  <2>1. Len(taken') = k /\ \A i \in 1 .. k : taken'[i] = accepted'[i]
    BY <1>1, <1>2 DEF QueueInv, LinkedInOrder
  <2>2. tail' = accepted'[m + 1]
    BY <1>2
  <2>3. k <= m + 1 /\ k # m + 1
    BY <1>1
  <2>4. k \in Nat /\ m \in Nat
    BY <1>1
  <2> HIDE DEF k, m
  <2>5. QED
    BY <1>2, <1>5, <1>6, <2>1, <2>2, <2>3, <2>4 DEF LinkedInOrder
<1>8. QED
  BY <1>3, <1>7

(* Both pops take the oldest queued chunk and leave the rest in order.     *)
LEMMA UnlinkKeepsOrder ==
  ASSUME QueueInv, NEW t \in Threads, head # NULL, Unlink(t)
  PROVE  /\ LinkedInOrder' /\ PushedOnce'
         /\ head \in Chunks /\ size' \in Int
         /\ Len(taken) < Len(accepted)
         /\ taken' = Append(taken, accepted[Len(taken) + 1])
<1> DEFINE k == Len(taken)
           m == Len(accepted)
<1> USE ChunksAssumption
<1>1. /\ accepted \in Seq(Chunks) /\ taken \in Seq(Chunks)
      /\ k \in Nat /\ m \in Nat /\ k <= m /\ k < m
      /\ \A i \in 1 .. m : accepted[i] \in Chunks
      /\ next \in [Chunks -> ChunkOrNull]
      /\ head \in Chunks /\ head = accepted[k + 1] /\ tail = accepted[m]
  BY DEF QueueInv, QueueTypeOK, LinkedInOrder, ChunkOrNull
<1>2. /\ Len(taken') = k + 1
      /\ taken'[k + 1] = accepted[k + 1]
      /\ \A i \in 1 .. k : taken'[i] = taken[i]
      /\ accepted' = accepted /\ next' = next
  BY <1>1 DEF Unlink
<1>3. next[head] = IF k + 1 = m THEN NULL ELSE accepted[k + 2]
  <2>1. k + 1 \in k + 1 .. m
    BY <1>1
  <2>2. QED
    BY <1>1, <2>1 DEF QueueInv, LinkedInOrder
<1>4. next[head] = NULL <=> k + 1 = m
  <2>1. k + 1 # m => k + 2 \in 1 .. m
    BY <1>1
  <2>2. QED
    BY <1>1, <1>3, <2>1
<1>5. LinkedInOrder'
  <2>1. \A i \in 1 .. k + 1 : taken'[i] = accepted'[i]
    BY <1>1, <1>2 DEF QueueInv, LinkedInOrder
  <2>2. head' = IF k + 1 = m THEN NULL ELSE accepted'[k + 2]
    BY <1>2, <1>3 DEF Unlink
  <2>3. tail' = IF k + 1 = m THEN NULL ELSE accepted'[m]
    BY <1>1, <1>2, <1>4 DEF Unlink
  <2>4. \A i \in k + 2 .. m :
          next'[accepted'[i]] = IF i = m THEN NULL ELSE accepted'[i + 1]
    BY <1>1, <1>2 DEF QueueInv, LinkedInOrder
  <2>5. k + 1 <= m /\ (k + 1) + 1 = k + 2
    BY <1>1
  <2>6. QED
    BY <1>2, <2>1, <2>2, <2>3, <2>4, <2>5 DEF LinkedInOrder
<1>6. PushedOnce'
  BY <1>2 DEF PushedOnce, QueueInv
<1>7. size' \in Int
  BY <1>1, SizeAssumption DEF Unlink, QueueInv, QueueTypeOK
<1>8. QED
  BY <1>1, <1>2, <1>5, <1>6, <1>7 DEF Unlink


(* A step that touches neither the list nor the histories keeps the order. *)
LEMMA FrameKeepsOrder ==
  ASSUME QueueInv, UNCHANGED <<head, tail, next, accepted, taken>>
  PROVE  LinkedInOrder' /\ PushedOnce'
BY DEF QueueInv, LinkedInOrder, PushedOnce


(* queue_push reading the fill state touches neither list nor histories.   *)
LEMMA PushSizeKeepsInv ==
  ASSUME QueueInv, NEW t \in Threads, PushSize(t)
  PROVE  QueueInv'
<1>1. LinkedInOrder' /\ PushedOnce'
  BY FrameKeepsOrder DEF PushSize, listVars, hist
<1>2. QueueTypeOK'
  BY DEF PushSize, QueueInv, QueueTypeOK, listVars, hist, QLabels
<1>3. Roles' /\ PushIsFresh' /\ DrainedAtEnd'
  BY ThreadsAssumption
     DEF PushSize, QueueInv, QueueTypeOK, Roles, PushIsFresh, DrainedAtEnd,
         Fresh, Threads, PopInside, listVars, hist
<1>4. QED
  BY <1>1, <1>2, <1>3 DEF QueueInv

(* queue_push links a chunk that is fresh, and keeps the invariant.        *)
LEMMA PushLinkKeepsInv ==
  ASSUME QueueInv, NEW t \in Threads, PushLink(t)
  PROVE  /\ QueueInv'
         /\ t = Main /\ qchunk[t] \in Fresh
<1>1. t = Main
  BY DEF PushLink, LinkTail, QueueInv, Roles, Threads, PopInside
<1>2. qchunk[t] \in Fresh /\ qchunk[t] \in Chunks /\ qchunk[t] # NULL
  BY <1>1 DEF PushLink, LinkTail, QueueInv, PushIsFresh, Fresh
<1>3. LinkedInOrder' /\ PushedOnce'
  BY <1>2, LinkKeepsOrder DEF PushLink, LinkTail
<1> DEFINE pc == [qpc EXCEPT ![t] = "idle"]
<1>4. pc \in [Threads -> QLabels]
  BY DEF QueueInv, QueueTypeOK, QLabels
<1>5. /\ qpc' \in [Threads -> QLabels]
      /\ \A u \in Threads : \/ qpc'[u] = pc[u]
                            \/ pc[u] = "pop_wait" /\ qpc'[u] = "pop_woken"
  <2>1. qpc' \in Signalled(pc, "pop_wait", "pop_woken")
    BY DEF PushLink, LinkTail, SignalCond
  <2>2. "pop_woken" \in QLabels
    BY DEF QLabels, PopInside
  <2> HIDE DEF pc
  <2>3. QED
    BY <1>4, <2>1, <2>2, SignalMovesSleepers
<1>6. QueueTypeOK'
  <2>1. size' \in Int /\ qsize' \in [Threads -> Int]
    BY <1>2, SizeAssumption DEF PushLink, LinkTail, QueueInv, QueueTypeOK
  <2>2. /\ head' \in ChunkOrNull /\ tail' \in ChunkOrNull
        /\ next' \in [Chunks -> ChunkOrNull]
    BY <1>2 DEF PushLink, LinkTail, QueueInv, QueueTypeOK, ChunkOrNull
  <2>3. /\ qchunk' \in [Threads -> ChunkOrNull]
        /\ accepted' \in Seq(Chunks) /\ taken' \in Seq(Chunks)
    BY <1>2 DEF PushLink, LinkTail, QueueInv, QueueTypeOK, ChunkOrNull
  <2>4. /\ used' \in Int
        /\ done' \in BOOLEAN /\ alive' \in BOOLEAN /\ teardown' \in BOOLEAN
    BY DEF PushLink, LinkTail, QueueInv, QueueTypeOK
  <2>5. QED
    BY <1>5, <2>1, <2>2, <2>3, <2>4 DEF QueueTypeOK
<1>7. Main \in Threads /\ pc[Main] = "idle" /\ qpc'[Main] = "idle"
  BY <1>1, <1>5 DEF Threads, QueueInv, QueueTypeOK
<1>8. Roles'
  BY <1>1, <1>5, <1>7, ThreadsAssumption
     DEF QueueInv, QueueTypeOK, Roles, Threads, PopInside
<1>9. PushIsFresh' /\ DrainedAtEnd'
  BY <1>7 DEF PushIsFresh, DrainedAtEnd
<1>10. QED
  BY <1>1, <1>2, <1>3, <1>6, <1>8, <1>9 DEF QueueInv

(* queue_use_increment, on entry to either pop function.                   *)
LEMMA IncrementKeepsInv ==
  ASSUME QueueInv, NEW t \in Threads, PopInc(t) \/ NbInc(t)
  PROVE  QueueInv'
<1>1. LinkedInOrder' /\ PushedOnce'
  BY FrameKeepsOrder DEF PopInc, NbInc, UseIncrement, listVars, hist
<1>2. CASE PopInc(t)
  <2>1. QueueTypeOK'
    BY <1>2 DEF PopInc, UseIncrement, QueueInv, QueueTypeOK, listVars, hist,
                QLabels, PopInside
  <2>2. t \in Consumers
    BY <1>2 DEF PopInc, UseIncrement, QueueInv, Roles, Threads
  <2>3. Roles' /\ PushIsFresh' /\ DrainedAtEnd'
    BY <1>2, <2>2, ThreadsAssumption
       DEF PopInc, UseIncrement, QueueInv, QueueTypeOK, Roles, PushIsFresh,
           DrainedAtEnd, Fresh, Threads, PopInside, listVars, hist
  <2>4. QED
    BY <1>1, <2>1, <2>3 DEF QueueInv
<1>3. CASE NbInc(t)
  <2>1. QueueTypeOK'
    BY <1>3 DEF NbInc, UseIncrement, QueueInv, QueueTypeOK, listVars, hist,
                QLabels, NbInside
  <2>2. t = Main
    BY <1>3 DEF NbInc, UseIncrement, QueueInv, Roles, Threads, PopInside
  <2>3. Roles' /\ PushIsFresh' /\ DrainedAtEnd'
    BY <1>3, <2>2, ThreadsAssumption
       DEF NbInc, UseIncrement, QueueInv, QueueTypeOK, Roles, PushIsFresh,
           DrainedAtEnd, Fresh, Threads, PopInside, listVars, hist
  <2>4. QED
    BY <1>1, <2>1, <2>3 DEF QueueInv
<1>4. QED
  BY <1>2, <1>3

(* A consumer that goes (back) to sleep, or leaves with NULL: only its     *)
(* place changes.                                                          *)
LEMMA ConsumerMoveKeepsInv ==
  ASSUME QueueInv, NEW t \in Consumers, NEW label \in PopInside,
         qpc' = [qpc EXCEPT ![t] = label],
         UNCHANGED <<listVars, done, used, alive, qchunk, qsize, teardown, hist>>
  PROVE  QueueInv'
<1>1. LinkedInOrder' /\ PushedOnce'
  BY FrameKeepsOrder DEF listVars, hist
<1>2. QueueTypeOK'
  BY DEF QueueInv, QueueTypeOK, listVars, hist, QLabels, Threads
<1>3. Roles' /\ PushIsFresh' /\ DrainedAtEnd'
  BY ThreadsAssumption
     DEF QueueInv, QueueTypeOK, Roles, PushIsFresh, DrainedAtEnd, Fresh,
         Threads, listVars, hist
<1>4. QED
  BY <1>1, <1>2, <1>3 DEF QueueInv

(* What Unlink leaves in the list and in the thread's hand has its type.   *)
LEMMA UnlinkKeepsTypes ==
  ASSUME QueueInv, NEW t \in Threads, head # NULL, Unlink(t)
  PROVE  /\ head' \in ChunkOrNull /\ tail' \in ChunkOrNull
         /\ next' \in [Chunks -> ChunkOrNull] /\ size' \in Int
         /\ qchunk' \in [Threads -> ChunkOrNull]
         /\ accepted' \in Seq(Chunks) /\ taken' \in Seq(Chunks)
<1>1. head \in Chunks /\ size' \in Int
  BY UnlinkKeepsOrder
<1>2. /\ head' \in ChunkOrNull /\ tail' \in ChunkOrNull
      /\ next' \in [Chunks -> ChunkOrNull]
  BY <1>1 DEF Unlink, QueueInv, QueueTypeOK, ChunkOrNull
<1>3. taken \in Seq(Chunks) /\ taken' = Append(taken, head)
  BY DEF Unlink, QueueInv, QueueTypeOK
<1>4. taken' \in Seq(Chunks)
  BY <1>1, <1>3
<1>5. QED
  BY <1>1, <1>2, <1>4 DEF Unlink, QueueInv, QueueTypeOK, ChunkOrNull

(* A consumer that takes the head of the list on its way to pop_dec.       *)
LEMMA ConsumerTakeKeepsInv ==
  ASSUME QueueInv, NEW t \in Consumers, head # NULL, Unlink(t),
         qpc' = [qpc EXCEPT ![t] = "pop_dec"],
         UNCHANGED <<done, used, alive, qsize, teardown>>
  PROVE  QueueInv'
<1>1. t \in Threads
  BY DEF Threads
<1>2. LinkedInOrder' /\ PushedOnce' /\ Len(taken) < Len(accepted)
  BY <1>1, UnlinkKeepsOrder
<1>3. QueueTypeOK'
  <2>1. qpc' \in [Threads -> QLabels]
    BY DEF QueueInv, QueueTypeOK, QLabels, PopInside
  <2>2. QED
    BY <1>1, <2>1, UnlinkKeepsTypes DEF QueueInv, QueueTypeOK
<1>4. /\ qpc'[Main] = qpc[Main] /\ qchunk'[Main] = qchunk[Main]
      /\ accepted' = accepted
  BY <1>1, ThreadsAssumption DEF Unlink, QueueInv, QueueTypeOK, Threads
<1>5. Roles'
  BY <1>4 DEF QueueInv, QueueTypeOK, Roles, PopInside, Threads
<1>6. PushIsFresh'
  BY <1>4 DEF QueueInv, PushIsFresh, Fresh
<1>7. DrainedAtEnd'
  BY <1>2, <1>4 DEF QueueInv, DrainedAtEnd
<1>8. QED
  BY <1>2, <1>3, <1>5, <1>6, <1>7 DEF QueueInv

(* queue_pop_block before and after its sleep.                             *)
LEMMA PopKeepsInv ==
  ASSUME QueueInv, NEW t \in Threads, PopTake(t) \/ PopWoken(t)
  PROVE  QueueInv'
<1>1. t \in Consumers
  BY DEF PopTake, PopWoken, QueueInv, Roles, Threads, PopInside
<1>2. {"pop_wait", "pop_dec"} \subseteq PopInside
  BY DEF PopInside
<1>3. CASE PopTake(t)
  <2>1. CASE head = NULL
    BY <1>1, <1>2, <1>3, <2>1, ConsumerMoveKeepsInv DEF PopTake
  <2>2. CASE head # NULL
    BY <1>1, <1>3, <2>2, ConsumerTakeKeepsInv DEF PopTake
  <2>3. QED
    BY <2>1, <2>2
<1>4. CASE PopWoken(t)
  <2>1. CASE done
    BY <1>1, <1>2, <1>4, <2>1, ConsumerMoveKeepsInv DEF PopWoken
  <2>2. CASE ~done /\ head = NULL
    BY <1>1, <1>2, <1>4, <2>2, ConsumerMoveKeepsInv DEF PopWoken
  <2>3. CASE ~done /\ head # NULL
    BY <1>1, <1>4, <2>3, ConsumerTakeKeepsInv DEF PopWoken
  <2>4. QED
    BY <2>1, <2>2, <2>3
<1>5. QED
  BY <1>3, <1>4


(* queue_use_decrement at the end of queue_pop_block.                      *)
LEMMA PopDecKeepsInv ==
  ASSUME QueueInv, NEW t \in Threads, PopDec(t)
  PROVE  QueueInv'
<1>1. LinkedInOrder' /\ PushedOnce'
  BY FrameKeepsOrder DEF PopDec, listVars, hist
<1>2. t \in Consumers
  BY DEF PopDec, QueueInv, Roles, Threads, PopInside
<1> DEFINE pc == [qpc EXCEPT ![t] = "idle"]
<1>3. pc \in [Threads -> QLabels]
  BY DEF QueueInv, QueueTypeOK, QLabels
<1>4. /\ qpc' \in [Threads -> QLabels]
      /\ \A u \in Threads : \/ qpc'[u] = pc[u]
                            \/ pc[u] = "fin_wait" /\ qpc'[u] = "fin_used"
  <2>1. qpc' \in Signalled(pc, "fin_wait", "fin_used") /\ "fin_used" \in QLabels
    BY DEF PopDec, SignalUsed, QLabels
  <2> HIDE DEF pc
  <2>2. QED
    BY <1>3, <2>1, SignalMovesSleepers
<1>5. QueueTypeOK'
  BY <1>4 DEF PopDec, QueueInv, QueueTypeOK, listVars, hist
<1>6. Main \in Threads /\ t # Main /\ pc[Main] = qpc[Main]
  BY <1>2, ThreadsAssumption DEF Threads, QueueInv, QueueTypeOK
<1>7. Roles'
  BY <1>2, <1>4, <1>6, ThreadsAssumption
     DEF QueueInv, QueueTypeOK, Roles, Threads, PopInside
<1>8. PushIsFresh' /\ DrainedAtEnd'
  BY <1>4, <1>6 DEF PopDec, QueueInv, PushIsFresh, DrainedAtEnd, Fresh, hist
<1>9. QED
  BY <1>1, <1>5, <1>7, <1>8 DEF QueueInv

(* queue_finish setting done and signalling.                               *)
LEMMA FinSignalKeepsInv ==
  ASSUME QueueInv, NEW t \in Threads, FinSignal(t)
  PROVE  QueueInv'
<1>1. LinkedInOrder' /\ PushedOnce'
  BY FrameKeepsOrder DEF FinSignal, listVars, hist
<1>2. t = Main
  BY DEF FinSignal, QueueInv, Roles, Threads, PopInside
<1> DEFINE pc == [qpc EXCEPT ![t] = "fin_used"]
<1>3. pc \in [Threads -> QLabels]
  BY DEF QueueInv, QueueTypeOK, QLabels
<1>4. /\ qpc' \in [Threads -> QLabels]
      /\ \A u \in Threads : \/ qpc'[u] = pc[u]
                            \/ pc[u] = "pop_wait" /\ qpc'[u] = "pop_woken"
  <2>1. /\ qpc' \in Signalled(pc, "pop_wait", "pop_woken")
        /\ "pop_woken" \in QLabels
    BY DEF FinSignal, SignalCond, QLabels, PopInside
  <2> HIDE DEF pc
  <2>2. QED
    BY <1>3, <2>1, SignalMovesSleepers
<1>5. QueueTypeOK'
  BY <1>4 DEF FinSignal, QueueInv, QueueTypeOK, listVars, hist
<1>6. Main \in Threads /\ pc[Main] = "fin_used" /\ qpc'[Main] = "fin_used"
  BY <1>2, <1>4 DEF Threads, QueueInv, QueueTypeOK
<1>7. Roles'
  BY <1>2, <1>4, <1>6, ThreadsAssumption
     DEF QueueInv, QueueTypeOK, Roles, Threads, PopInside
<1>8. PushIsFresh' /\ DrainedAtEnd'
  BY <1>6 DEF PushIsFresh, DrainedAtEnd
<1>9. QED
  BY <1>1, <1>5, <1>7, <1>8 DEF QueueInv

(* The main thread moves to a label where it holds no chunk.               *)
LEMMA MainMoveKeepsInv ==
  ASSUME QueueInv,
         NEW label \in {"idle", "fin_signal", "fin_used", "fin_wait", "nb_inc"},
         qpc' = [qpc EXCEPT ![Main] = label],
         qchunk' \in [Threads -> ChunkOrNull], qsize' \in [Threads -> Int],
         done' \in BOOLEAN, alive' \in BOOLEAN, teardown' \in BOOLEAN,
         used' \in Int, size' \in Int,
         UNCHANGED <<head, tail, next, hist>>
  PROVE  QueueInv'
<1>1. LinkedInOrder' /\ PushedOnce'
  BY FrameKeepsOrder DEF hist
<1>2. qpc' \in [Threads -> QLabels]
  BY DEF QueueInv, QueueTypeOK, QLabels
<1>3. QueueTypeOK'
  BY <1>2 DEF QueueInv, QueueTypeOK, hist
<1>4. Roles' /\ PushIsFresh' /\ DrainedAtEnd'
  BY ThreadsAssumption
     DEF QueueInv, QueueTypeOK, Roles, PushIsFresh, DrainedAtEnd, Threads,
         PopInside
<1>5. QED
  BY <1>1, <1>3, <1>4 DEF QueueInv

(* queue_finish testing the use count.                                     *)
LEMMA FinUsedKeepsInv ==
  ASSUME QueueInv, NEW t \in Threads, FinUsed(t)
  PROVE  QueueInv'
<1>1. t = Main
  BY DEF FinUsed, QueueInv, Roles, Threads, PopInside
<1>2. QED
  BY <1>1, MainMoveKeepsInv
     DEF FinUsed, QueueInv, QueueTypeOK, listVars, hist

(* A wakeup without a signal moves one thread only.                        *)
LEMMA SpuriousKeepsInv ==
  ASSUME QueueInv, NEW t \in Threads, SpuriousWakeup(t)
  PROVE  QueueInv'
<1>1. CASE qpc[t] = "pop_wait"
  <2>1. t \in Consumers /\ "pop_woken" \in PopInside
    BY <1>1 DEF QueueInv, Roles, Threads, PopInside
  <2>2. QED
    BY <1>1, <2>1, ConsumerMoveKeepsInv DEF SpuriousWakeup
<1>2. CASE qpc[t] = "fin_wait"
  <2>1. t = Main
    BY <1>2 DEF QueueInv, Roles, Threads, PopInside
  <2>2. QED
    BY <1>2, <2>1, MainMoveKeepsInv
       DEF SpuriousWakeup, QueueInv, QueueTypeOK, listVars, hist
<1>3. QED
  BY <1>1, <1>2 DEF SpuriousWakeup


(* queue_destroy popping one more chunk, or finding the list empty.        *)
LEMMA NbTakeKeepsInv ==
  ASSUME QueueInv, NEW t \in Threads, NbTake(t)
  PROVE  QueueInv'
<1>1. t = Main
  BY DEF NbTake, QueueInv, Roles, Threads, PopInside
<1>2. /\ qpc' \in [Threads -> QLabels] /\ qpc'[Main] = "nb_dec"
      /\ \A u \in Consumers : qpc'[u] = qpc[u]
  BY <1>1, ThreadsAssumption
     DEF NbTake, QueueInv, QueueTypeOK, QLabels, NbInside, Threads
<1>3. Roles'
  BY <1>2 DEF QueueInv, Roles, PopInside
<1>4. PushIsFresh'
  BY <1>2 DEF PushIsFresh
<1>5. CASE head = NULL
  <2>1. LinkedInOrder' /\ PushedOnce'
    BY <1>5, FrameKeepsOrder DEF NbTake, listVars, hist
  <2>2. QueueTypeOK'
    BY <1>2, <1>5 DEF NbTake, QueueInv, QueueTypeOK, ChunkOrNull, listVars, hist
  <2>3. Len(taken) = Len(accepted)
    BY <1>5, ChunksAssumption
       DEF QueueInv, QueueTypeOK, LinkedInOrder
  <2>4. DrainedAtEnd'
    BY <1>5, <2>3 DEF NbTake, DrainedAtEnd, hist
  <2>5. QED
    BY <1>3, <1>4, <2>1, <2>2, <2>4 DEF QueueInv
<1>6. CASE head # NULL
  <2>1. Unlink(t)
    BY <1>6 DEF NbTake
  <2>2. LinkedInOrder' /\ PushedOnce' /\ head \in Chunks
    BY <1>6, <2>1, UnlinkKeepsOrder
  <2>3. QueueTypeOK'
    BY <1>2, <1>6, <2>1, UnlinkKeepsTypes DEF NbTake, QueueInv, QueueTypeOK
  <2>4. qchunk'[Main] # NULL
    BY <1>1, <2>1, <2>2, ChunksAssumption DEF Unlink, QueueInv, QueueTypeOK
  <2>5. DrainedAtEnd'
    BY <2>4 DEF DrainedAtEnd
  <2>6. QED
    BY <1>3, <1>4, <2>2, <2>3, <2>5 DEF QueueInv
<1>7. QED
  BY <1>5, <1>6

(* queue_destroy going on to the next chunk, or freeing the queue.         *)
LEMMA NbDecKeepsInv ==
  ASSUME QueueInv, NEW t \in Threads, NbDec(t)
  PROVE  QueueInv'
<1>1. t = Main /\ Main \in Threads
  BY DEF NbDec, QueueInv, Roles, Threads, PopInside
<1>2. \A label \in {"idle", "nb_inc"} :
        SignalUsed([qpc EXCEPT ![t] = label]) = {[qpc EXCEPT ![t] = label]}
  <2> TAKE label \in {"idle", "nb_inc"}
  <2>1. \A u \in Threads : [qpc EXCEPT ![t] = label][u] # "fin_wait"
    BY <1>1 DEF QueueInv, QueueTypeOK, Roles, Threads, PopInside
  <2>2. QED
    BY <2>1 DEF SignalUsed, Signalled
<1>3. /\ used' \in Int /\ size' \in Int /\ done' \in BOOLEAN
      /\ qchunk' \in [Threads -> ChunkOrNull] /\ qsize' \in [Threads -> Int]
      /\ alive' \in BOOLEAN /\ teardown' \in BOOLEAN
  <2>1. /\ used' \in Int /\ size' \in Int /\ qsize' \in [Threads -> Int]
        /\ qchunk' \in [Threads -> ChunkOrNull]
    BY DEF NbDec, QueueInv, QueueTypeOK, ChunkOrNull
  <2>2. done' \in BOOLEAN /\ alive' \in BOOLEAN /\ teardown' \in BOOLEAN
    BY Zenon DEF NbDec, QueueInv, QueueTypeOK
  <2>3. QED
    BY <2>1, <2>2
<1>4. CASE qchunk[t] # NULL
  <2>1. /\ qpc' = [qpc EXCEPT ![Main] = "nb_inc"]
        /\ UNCHANGED <<head, tail, next, hist>>
    BY <1>1, <1>2, <1>4 DEF NbDec
  <2>2. QED
    BY <1>3, <2>1, MainMoveKeepsInv
<1>5. CASE qchunk[t] = NULL
  <2>1. Len(taken) = Len(accepted)
    BY <1>1, <1>5 DEF NbDec, QueueInv, DrainedAtEnd
  <2>2. head = NULL /\ tail = NULL
    BY <2>1 DEF QueueInv, LinkedInOrder
  <2>3. /\ qpc' = [qpc EXCEPT ![Main] = "idle"]
        /\ UNCHANGED <<head, tail, next, hist>>
    BY <1>1, <1>2, <1>5, <2>2 DEF NbDec
  <2>4. QED
    BY <1>3, <2>3, MainMoveKeepsInv
<1>6. QED
  BY <1>4, <1>5

(* Every step inside a queue function keeps the invariant.                 *)
LEMMA StepKeepsInv ==
  ASSUME QueueInv, NEW t \in Threads, QueueStep(t) \/ SpuriousWakeup(t)
  PROVE  QueueInv'
BY PushSizeKeepsInv, PushLinkKeepsInv, IncrementKeepsInv, PopKeepsInv,
   PopDecKeepsInv, FinSignalKeepsInv, FinUsedKeepsInv, SpuriousKeepsInv,
   NbTakeKeepsInv, NbDecKeepsInv
   DEF QueueStep

(* Calling queue_push with a fresh chunk or NULL.                          *)
LEMMA CallPushKeepsInv ==
  ASSUME QueueInv, NEW c \in Fresh \cup {NULL}, CallPush(Main, c)
  PROVE  QueueInv'
<1>1. Main \in Threads
  BY DEF Threads
<1>2. LinkedInOrder' /\ PushedOnce'
  BY FrameKeepsOrder DEF CallPush, listVars, hist
<1>3. /\ qpc' \in [Threads -> QLabels] /\ qpc'[Main] = "push_size"
      /\ \A u \in Consumers : qpc'[u] = qpc[u]
      /\ qchunk' \in [Threads -> ChunkOrNull] /\ qchunk'[Main] = c
  BY <1>1, ThreadsAssumption
     DEF CallPush, Enter, QueueInv, QueueTypeOK, QLabels, ChunkOrNull, Fresh,
         Threads
<1>4. QueueTypeOK'
  BY <1>3 DEF CallPush, QueueInv, QueueTypeOK, listVars, hist
<1>5. Roles' /\ PushIsFresh' /\ DrainedAtEnd'
  BY <1>3 DEF CallPush, QueueInv, Roles, PushIsFresh, DrainedAtEnd, Fresh,
              PopInside, hist
<1>6. QED
  BY <1>2, <1>4, <1>5 DEF QueueInv

(* Calling queue_pop_block.                                                *)
LEMMA CallPopKeepsInv ==
  ASSUME QueueInv, NEW t \in Consumers, CallPop(t)
  PROVE  QueueInv'
<1>1. t \in Threads /\ Main \in Threads /\ t # Main
  BY ThreadsAssumption DEF Threads
<1>2. LinkedInOrder' /\ PushedOnce'
  BY FrameKeepsOrder DEF CallPop, listVars, hist
<1>3. /\ qpc' \in [Threads -> QLabels] /\ qpc'[t] = "pop_inc"
      /\ \A u \in Threads : u # t => qpc'[u] = qpc[u] /\ qchunk'[u] = qchunk[u]
      /\ qchunk' \in [Threads -> ChunkOrNull]
  BY <1>1 DEF CallPop, Enter, QueueInv, QueueTypeOK, QLabels, ChunkOrNull
<1>4. QueueTypeOK'
  BY <1>3 DEF CallPop, QueueInv, QueueTypeOK, listVars, hist
<1>5. Roles'
  BY <1>1, <1>3 DEF QueueInv, Roles, Threads
<1>6. PushIsFresh' /\ DrainedAtEnd'
  BY <1>1, <1>3 DEF CallPop, QueueInv, PushIsFresh, DrainedAtEnd, Fresh, hist
<1>7. QED
  BY <1>2, <1>4, <1>5, <1>6 DEF QueueInv

(* Calling queue_finish, alone or from queue_destroy.                      *)
LEMMA CallFinishKeepsInv ==
  ASSUME QueueInv, CallFinish(Main) \/ CallDestroy(Main)
  PROVE  QueueInv'
<1>1. qpc' = [qpc EXCEPT ![Main] = "fin_signal"]
  BY DEF CallFinish, CallDestroy, Enter
<1>2. qchunk' \in [Threads -> ChunkOrNull]
  BY DEF CallFinish, CallDestroy, Enter, QueueInv, QueueTypeOK, ChunkOrNull
<1>3. QED
  BY <1>1, <1>2, MainMoveKeepsInv
     DEF CallFinish, CallDestroy, QueueInv, QueueTypeOK, listVars, hist

(* queue_getsize.                                                          *)
LEMMA GetsizeKeepsInv ==
  ASSUME QueueInv, QueueGetsize(Main)
  PROVE  QueueInv'
<1>1. qpc' = [qpc EXCEPT ![Main] = "idle"]
  BY DEF QueueGetsize, QueueInv, QueueTypeOK, Threads
<1>2. QED
  BY <1>1, MainMoveKeepsInv
     DEF QueueGetsize, QueueInv, QueueTypeOK, listVars, hist

(* The queue queue_create builds satisfies the invariant, whether it has   *)
(* been handed out yet or not.                                             *)
LEMMA EmptyQueueInv ==
  ASSUME QueueEmpty, alive \in BOOLEAN
  PROVE  QueueInv
<1>1. accepted = <<>> /\ taken = <<>> /\ head = NULL /\ tail = NULL
  BY DEF QueueEmpty
<1>2. LinkedInOrder /\ PushedOnce
  BY <1>1 DEF LinkedInOrder, PushedOnce
<1>3. qpc \in [Threads -> QLabels] /\ \A t \in Threads : qpc[t] = "idle"
  BY DEF QueueEmpty, QLabels
<1>4. /\ qchunk \in [Threads -> ChunkOrNull] /\ qsize \in [Threads -> Int]
      /\ next \in [Chunks -> ChunkOrNull]
  BY DEF QueueEmpty, ChunkOrNull
<1>5. QueueTypeOK
  <2>1. /\ head \in ChunkOrNull /\ tail \in ChunkOrNull
        /\ accepted \in Seq(Chunks) /\ taken \in Seq(Chunks)
    BY <1>1 DEF ChunkOrNull
  <2>2. size \in Int /\ used \in Int
    BY DEF QueueEmpty
  <2>3. done \in BOOLEAN /\ teardown \in BOOLEAN
    BY Zenon DEF QueueEmpty
  <2>4. QED
    BY <1>3, <1>4, <2>1, <2>2, <2>3 DEF QueueTypeOK
<1>6. Roles /\ PushIsFresh /\ DrainedAtEnd
  BY <1>3 DEF Roles, PushIsFresh, DrainedAtEnd, Threads, PopInside
<1>7. QED
  BY <1>2, <1>5, <1>6 DEF QueueInv

(* QueueInv is inductive: it holds initially and every step of every       *)
(* thread keeps it.                                                        *)
THEOREM QueueInvariant == QueueSpec => []QueueInv
<1>1. QueueInit => QueueInv
  BY EmptyQueueInv, Zenon DEF QueueInit
<1>2. QueueInv /\ [QueueNext]_qvars => QueueInv'
  <2> SUFFICES ASSUME QueueInv, [QueueNext]_qvars PROVE QueueInv'
    OBVIOUS
  <2>1. CASE MainPush
    BY <2>1, CallPushKeepsInv DEF MainPush
  <2>2. CASE MainGetsize
    BY <2>2, GetsizeKeepsInv DEF MainGetsize
  <2>3. CASE MainFinish \/ MainDestroy
    BY <2>3, CallFinishKeepsInv DEF MainFinish, MainDestroy
  <2>4. CASE ConsumerPop
    BY <2>4, CallPopKeepsInv DEF ConsumerPop
  <2>5. CASE \E t \in Threads : QueueStep(t) \/ SpuriousWakeup(t)
    BY <2>5, StepKeepsInv
  <2>6. CASE UNCHANGED qvars
    BY <2>6 DEF qvars, QueueInv, QueueTypeOK, LinkedInOrder, Roles,
                PushIsFresh, PushedOnce, DrainedAtEnd, Fresh
  <2>7. QED
    BY <2>1, <2>2, <2>3, <2>4, <2>5, <2>6 DEF QueueNext
<1>3. QED
  BY <1>1, <1>2, PTL DEF QueueSpec

(* The type invariant holds of every reachable state of the queue.         *)
THEOREM QueueTypeCorrect == QueueSpec => []QueueTypeOK
<1>1. QueueInv => QueueTypeOK
  BY DEF QueueInv
<1>2. QED
  BY <1>1, QueueInvariant, PTL

(* For any number of consumers and chunks the linked list of queue_push    *)
(* and the pops holds the queued chunks in the order of the pushes.        *)
THEOREM QueueKeepsOrder == QueueSpec => []LinkedInOrder
<1>1. QueueInv => LinkedInOrder
  BY DEF QueueInv
<1>2. QED
  BY <1>1, QueueInvariant, PTL

----------------------------------------------------------------------------
(* A step inside the queue puts the pushed chunk, gets the oldest one, or  *)
(* leaves both histories alone.                                            *)
LEMMA StepIsFifo ==
  ASSUME QueueInv, NEW t \in Threads, QueueStep(t) \/ SpuriousWakeup(t)
  PROVE  [FifoView!Next]_<<accepted, taken>>
<1>1. CASE PushLink(t)
  <2>1. /\ qchunk[t] \in Fresh /\ accepted' = Append(accepted, qchunk[t])
        /\ taken' = taken
    BY <1>1, PushLinkKeepsInv DEF PushLink, LinkTail
  <2>2. /\ qchunk[t] \in Chunks
        /\ \A i \in 1 .. Len(accepted) : accepted[i] # qchunk[t]
    BY <2>1 DEF Fresh
  <2>3. FifoView!Put
    BY <2>1, <2>2 DEF FifoView!Put
  <2>4. QED
    BY <2>3 DEF FifoView!Next
<1>2. CASE head # NULL /\ Unlink(t)
  <2>1. FifoView!Get
    BY <1>2, UnlinkKeepsOrder DEF FifoView!Get, Unlink
  <2>2. QED
    BY <2>1 DEF FifoView!Next
<1>3. CASE UNCHANGED <<accepted, taken>>
  BY <1>3
<1>4. QED
  BY <1>1, <1>2, <1>3
     DEF QueueStep, SpuriousWakeup, PushSize, PopInc, NbInc, UseIncrement,
         PopTake, PopWoken, PopDec, FinSignal, FinUsed, NbTake, NbDec, hist

(* The queue implements the FIFO that iemnet_data.h announces.             *)
THEOREM QueueRefinesFifo == QueueSpec => ImplementsFifo
<1>1. QueueInit => FifoView!Init
  BY DEF QueueInit, QueueEmpty, FifoView!Init
<1>2. QueueInv /\ [QueueNext]_qvars => [FifoView!Next]_<<accepted, taken>>
  <2> SUFFICES ASSUME QueueInv, [QueueNext]_qvars
               PROVE  [FifoView!Next]_<<accepted, taken>>
    OBVIOUS
  <2>1. CASE \E t \in Threads : QueueStep(t) \/ SpuriousWakeup(t)
    BY <2>1, StepIsFifo
  <2>2. CASE MainPush \/ MainGetsize \/ MainFinish \/ MainDestroy \/ ConsumerPop
    <3>1. UNCHANGED <<accepted, taken>>
      BY <2>2 DEF MainPush, MainGetsize, MainFinish, MainDestroy, ConsumerPop,
                  CallPush, QueueGetsize, CallFinish, CallDestroy, CallPop, hist
    <3>2. QED
      BY <3>1
  <2>3. CASE UNCHANGED qvars
    BY <2>3 DEF qvars
  <2>4. QED
    BY <2>1, <2>2, <2>3 DEF QueueNext
<1>3. QED
  BY <1>1, <1>2, QueueInvariant, PTL DEF QueueSpec, ImplementsFifo, FifoView!Spec

----------------------------------------------------------------------------
(* The threads q->used should count.                                       *)
Users(pc) == {t \in Threads : pc[t] \in PopInside \cup NbInside}

(* Finitely many threads are inside the pop functions.                     *)
LEMMA UsersFinite == \A pc : IsFiniteSet(Users(pc))
<1> TAKE pc
<1>1. IsFiniteSet(Threads)
  BY ThreadsAssumption, FS_Singleton, FS_Union DEF Threads
<1>2. QED
  BY <1>1, FS_Subset DEF Users

(* q->used is the number of threads inside a pop, so that queue_finish     *)
(* waits for all of them and for nobody else.                              *)
LEMMA UsedStep ==
  ASSUME QueueInv, used = Cardinality(Users(qpc)), NEW t \in Threads,
         QueueStep(t) \/ SpuriousWakeup(t)
  PROVE  used' = Cardinality(Users(qpc'))
<1> USE DEF Users
<1>1. qpc \in [Threads -> QLabels] /\ used \in Int
  BY DEF QueueInv, QueueTypeOK
<1>2. CASE PopInc(t) \/ NbInc(t)
  <2>1. Users(qpc') = Users(qpc) \cup {t} /\ t \notin Users(qpc)
    BY <1>1, <1>2 DEF PopInc, NbInc, UseIncrement, PopInside, NbInside
  <2>2. used' = used + 1
    BY <1>2 DEF PopInc, NbInc, UseIncrement
  <2> HIDE DEF Users
  <2>3. QED
    BY <2>1, <2>2, UsersFinite, FS_AddElement
<1>3. CASE PopDec(t) \/ NbDec(t)
  <2>1. PICK label \in {"idle", "nb_inc"} :
          qpc' \in Signalled([qpc EXCEPT ![t] = label], "fin_wait", "fin_used")
    BY <1>3 DEF PopDec, NbDec, SignalUsed
  <2> DEFINE pc == [qpc EXCEPT ![t] = label]
  <2>2. pc \in [Threads -> QLabels] /\ "fin_used" \in QLabels
    BY <1>1 DEF QLabels
  <2>3. \A u \in Threads : \/ qpc'[u] = pc[u]
                           \/ pc[u] = "fin_wait" /\ qpc'[u] = "fin_used"
    <3>1. qpc' \in Signalled(pc, "fin_wait", "fin_used")
      BY <2>1
    <3> HIDE DEF pc
    <3>2. QED
      BY <2>2, <3>1, SignalMovesSleepers
  <2>4. \A u \in Threads : pc[u] = IF u = t THEN label ELSE qpc[u]
    BY <1>1
  <2>5. Users(qpc') = Users(qpc) \ {t} /\ t \in Users(qpc)
    <3> HIDE DEF pc
    <3>1. t \in Users(qpc)
      BY <1>3 DEF PopDec, NbDec, PopInside, NbInside
    <3>2. ASSUME NEW u \in Threads
          PROVE  qpc'[u] \in PopInside \cup NbInside
                   <=> u # t /\ qpc[u] \in PopInside \cup NbInside
      BY <2>3, <2>4 DEF PopInside, NbInside
    <3>3. QED
      BY <3>1, <3>2
  <2>6. used' = used - 1
    BY <1>3 DEF PopDec, NbDec
  <2> HIDE DEF Users
  <2>7. QED
    BY <2>5, <2>6, <1>1, UsersFinite, FS_RemoveElement
<1>4. CASE PushLink(t) \/ FinSignal(t)
  <2>1. PICK label \in {"idle", "fin_used"} :
          qpc' \in Signalled([qpc EXCEPT ![t] = label], "pop_wait", "pop_woken")
    BY <1>4 DEF PushLink, LinkTail, FinSignal, SignalCond
  <2> DEFINE pc == [qpc EXCEPT ![t] = label]
  <2>2. pc \in [Threads -> QLabels] /\ "pop_woken" \in QLabels
    BY <1>1 DEF QLabels, PopInside
  <2>3. \A u \in Threads : \/ qpc'[u] = pc[u]
                           \/ pc[u] = "pop_wait" /\ qpc'[u] = "pop_woken"
    <3>1. qpc' \in Signalled(pc, "pop_wait", "pop_woken")
      BY <2>1
    <3> HIDE DEF pc
    <3>2. QED
      BY <2>2, <3>1, SignalMovesSleepers
  <2>4. \A u \in Threads : pc[u] = IF u = t THEN label ELSE qpc[u]
    BY <1>1
  <2>5. qpc[t] \notin PopInside \cup NbInside
    BY <1>4 DEF PushLink, LinkTail, FinSignal, PopInside, NbInside
  <2>6. Users(qpc') = Users(qpc)
    <3> HIDE DEF pc
    <3>1. ASSUME NEW u \in Threads
          PROVE  qpc'[u] \in PopInside \cup NbInside
                   <=> qpc[u] \in PopInside \cup NbInside
      BY <2>3, <2>4, <2>5 DEF PopInside, NbInside
    <3>2. QED
      BY <3>1
  <2>7. used' = used
    BY <1>4 DEF PushLink, LinkTail, FinSignal
  <2>8. QED
    BY <2>6, <2>7
<1>5. CASE PushSize(t) \/ PopTake(t) \/ PopWoken(t) \/ FinUsed(t) \/ NbTake(t)
             \/ SpuriousWakeup(t)
  <2>1. \A u \in Threads : u # t => qpc'[u] = qpc[u]
    BY <1>1, <1>5
       DEF PushSize, PopTake, PopWoken, FinUsed, NbTake, SpuriousWakeup
  <2>2. qpc'[t] \in PopInside \cup NbInside <=> qpc[t] \in PopInside \cup NbInside
    <3>1. CASE PushSize(t) \/ FinUsed(t)
      BY <1>1, <3>1 DEF PushSize, FinUsed, PopInside, NbInside
    <3>2. CASE PopTake(t) \/ PopWoken(t) \/ NbTake(t)
      BY <1>1, <3>2 DEF PopTake, PopWoken, NbTake, PopInside, NbInside
    <3>3. CASE SpuriousWakeup(t)
      BY <1>1, <3>3 DEF SpuriousWakeup, PopInside, NbInside
    <3>4. QED
      BY <1>5, <3>1, <3>2, <3>3
  <2>3. Users(qpc') = Users(qpc)
    BY <2>1, <2>2
  <2>4. used' = used
    BY <1>5 DEF PushSize, PopTake, PopWoken, FinUsed, NbTake, SpuriousWakeup
  <2>5. QED
    BY <2>3, <2>4
<1>6. QED
  BY <1>2, <1>3, <1>4, <1>5 DEF QueueStep

(* The use count is exact in every reachable state.                        *)
THEOREM QueueUseCount == QueueSpec => []UsedCountsPoppers
<1> DEFINE Count == used = Cardinality(Users(qpc))
<1>1. QueueInit => Count
  <2>1. QueueInit => Users(qpc) = {} /\ used = 0
    BY DEF QueueInit, QueueEmpty, Users, PopInside, NbInside
  <2>2. QED
    BY <2>1, FS_EmptySet
<1>2. Count /\ QueueInv /\ [QueueNext]_qvars => Count'
  <2> SUFFICES ASSUME Count, QueueInv, [QueueNext]_qvars PROVE Count'
    OBVIOUS
  <2>1. CASE \E t \in Threads : QueueStep(t) \/ SpuriousWakeup(t)
    BY <2>1, UsedStep
  <2>2. CASE MainPush \/ MainGetsize \/ MainFinish \/ MainDestroy \/ ConsumerPop
    <3>1. used' = used
      BY <2>2 DEF MainPush, MainGetsize, MainFinish, MainDestroy, ConsumerPop,
                  CallPush, QueueGetsize, CallFinish, CallDestroy, CallPop
    <3>2. Users(qpc') = Users(qpc)
      <4>1. PICK t \in Threads,
                 label \in {"idle", "push_size", "fin_signal", "pop_inc"} :
              qpc[t] = "idle" /\ qpc' = [qpc EXCEPT ![t] = label]
        BY <2>2 DEF MainPush, MainGetsize, MainFinish, MainDestroy, ConsumerPop,
                    CallPush, QueueGetsize, CallFinish, CallDestroy, CallPop,
                    Enter, Threads, QueueInv, QueueTypeOK
      <4>2. QED
        BY <4>1 DEF Users, PopInside, NbInside, QueueInv, QueueTypeOK
    <3>3. QED
      BY <3>1, <3>2
  <2>3. CASE UNCHANGED qvars
    BY <2>3 DEF qvars, Users
  <2>4. QED
    BY <2>1, <2>2, <2>3 DEF QueueNext
<1>3. Count => UsedCountsPoppers
  BY DEF Users, UsedCountsPoppers
<1>4. QED
  BY <1>1, <1>2, <1>3, QueueInvariant, PTL DEF QueueSpec

----------------------------------------------------------------------------
(* The bytes of the chunks from place lo to place hi of a sequence.        *)
Bytes(q, lo, hi) == UNION {{i} \X (1 .. SizeOf[q[i]]) : i \in lo .. hi}

(* A chunk counts with its size.                                           *)
LEMMA BytesOfOne ==
  ASSUME NEW c \in Chunks, NEW i
  PROVE  /\ IsFiniteSet({i} \X (1 .. SizeOf[c]))
         /\ Cardinality({i} \X (1 .. SizeOf[c])) = SizeOf[c]
<1> DEFINE n == SizeOf[c]
           S == 1 .. n
<1>1. n \in Nat /\ n >= 1
  BY SizeAssumption
<1> HIDE DEF n
<1>2. IsFiniteSet(S) /\ Cardinality(S) = n
  BY <1>1, FS_Interval
<1>3. IsFiniteSet({i}) /\ Cardinality({i}) = 1
  BY FS_Singleton
<1> HIDE DEF S
<1>4. /\ IsFiniteSet({i} \X S)
      /\ Cardinality({i} \X S) = Cardinality({i}) * Cardinality(S)
  BY <1>2, <1>3, FS_Product
<1>5. Cardinality({i} \X S) = n
  BY <1>1, <1>2, <1>3, <1>4
<1>6. QED
  BY <1>4, <1>5 DEF S, n

(* The bytes of a stretch of the list are finitely many.                   *)
LEMMA BytesFinite ==
  ASSUME NEW q \in Seq(Chunks), NEW lo \in Nat, lo >= 1,
         NEW hi \in Nat, hi <= Len(q)
  PROVE  IsFiniteSet(Bytes(q, lo, hi))
<1> DEFINE T == {{i} \X (1 .. SizeOf[q[i]]) : i \in lo .. hi}
           f == [i \in lo .. hi |-> {i} \X (1 .. SizeOf[q[i]])]
<1>1. f \in Surjection(lo .. hi, T)
  BY DEF Surjection
<1>2. IsFiniteSet(T)
  BY <1>1, FS_Interval, FS_Surjection
<1>3. ASSUME NEW i \in lo .. hi
      PROVE  IsFiniteSet({i} \X (1 .. SizeOf[q[i]]))
  <2>1. i \in 1 .. Len(q)
    OBVIOUS
  <2>2. q[i] \in Chunks
    BY <2>1
  <2>3. QED
    BY <2>2, BytesOfOne
<1>4. QED
  BY <1>2, <1>3, FS_UNION DEF Bytes

(* Places do not overlap.                                                  *)
LEMMA DisjointUnion ==
  ASSUME NEW S, NEW T, IsFiniteSet(S), IsFiniteSet(T), S \cap T = {}
  PROVE  /\ IsFiniteSet(S \cup T)
         /\ Cardinality(S \cup T) = Cardinality(S) + Cardinality(T)
<1>1. /\ IsFiniteSet(S \cup T)
      /\ Cardinality(S \cup T)
           = Cardinality(S) + Cardinality(T) - Cardinality(S \cap T)
  BY FS_Union
<1>2. Cardinality(S) \in Nat /\ Cardinality(T) \in Nat
  BY FS_CardinalityType
<1>3. Cardinality(S \cap T) = 0
  BY FS_EmptySet
<1>4. QED
  BY <1>1, <1>2, <1>3

(* A stretch without its last or its first chunk has as many bytes less as *)
(* that chunk is long: what queue_push adds to q->size and a pop           *)
(* subtracts.                                                              *)
LEMMA BytesAtEnds ==
  ASSUME NEW q \in Seq(Chunks), NEW lo \in Nat, lo >= 1,
         NEW hi \in Nat, hi <= Len(q), lo <= hi
  PROVE  /\ Cardinality(Bytes(q, lo, hi))
              = Cardinality(Bytes(q, lo, hi - 1)) + SizeOf[q[hi]]
         /\ Cardinality(Bytes(q, lo, hi))
              = Cardinality(Bytes(q, lo + 1, hi)) + SizeOf[q[lo]]
<1>1. q[hi] \in Chunks /\ q[lo] \in Chunks
  OBVIOUS
<1>2. /\ lo .. hi = (lo .. hi - 1) \cup {hi} /\ hi \notin lo .. hi - 1
      /\ lo .. hi = (lo + 1 .. hi) \cup {lo} /\ lo \notin lo + 1 .. hi
  OBVIOUS
<1>3. hi - 1 \in Nat /\ hi - 1 <= Len(q) /\ lo + 1 \in Nat /\ lo + 1 >= 1
  OBVIOUS
<1>4. IsFiniteSet(Bytes(q, lo, hi - 1)) /\ IsFiniteSet(Bytes(q, lo + 1, hi))
  BY <1>3, BytesFinite
<1> DEFINE top == {hi} \X (1 .. SizeOf[q[hi]])
           bottom == {lo} \X (1 .. SizeOf[q[lo]])
<1>5. /\ Bytes(q, lo, hi) = Bytes(q, lo, hi - 1) \cup top
      /\ Bytes(q, lo, hi - 1) \cap top = {}
  BY <1>2 DEF Bytes
<1>6. /\ Bytes(q, lo, hi) = Bytes(q, lo + 1, hi) \cup bottom
      /\ Bytes(q, lo + 1, hi) \cap bottom = {}
  BY <1>2 DEF Bytes
<1>7. /\ IsFiniteSet(top) /\ Cardinality(top) = SizeOf[q[hi]]
      /\ IsFiniteSet(bottom) /\ Cardinality(bottom) = SizeOf[q[lo]]
  BY <1>1, BytesOfOne
<1> HIDE DEF top, bottom
<1>8. QED
  BY <1>4, <1>5, <1>6, <1>7, DisjointUnion

SizeIsRight == size = Cardinality(Bytes(accepted, Len(taken) + 1, Len(accepted)))

(* Only linking and unlinking change the size, each by the chunk's own.    *)
LEMMA SizeStep ==
  ASSUME QueueInv, SizeIsRight, NEW t \in Threads,
         QueueStep(t) \/ SpuriousWakeup(t)
  PROVE  SizeIsRight'
<1> DEFINE k == Len(taken)
           m == Len(accepted)
<1>1. /\ accepted \in Seq(Chunks) /\ taken \in Seq(Chunks)
      /\ k \in Nat /\ m \in Nat /\ k <= m /\ size \in Int
  BY DEF QueueInv, QueueTypeOK, LinkedInOrder
<1>2. CASE PushLink(t)
  <2>1. /\ qchunk[t] \in Chunks /\ accepted' = Append(accepted, qchunk[t])
        /\ taken' = taken /\ size' = size + SizeOf[qchunk[t]]
    BY <1>2, PushLinkKeepsInv DEF PushLink, LinkTail, Fresh
  <2>2. /\ accepted' \in Seq(Chunks) /\ Len(accepted') = m + 1
        /\ accepted'[m + 1] = qchunk[t]
        /\ \A i \in 1 .. m : accepted'[i] = accepted[i]
    BY <1>1, <2>1
  <2>3. Bytes(accepted', k + 1, m) = Bytes(accepted, k + 1, m)
    <3>1. \A i \in k + 1 .. m : accepted'[i] = accepted[i]
      BY <1>1, <2>2
    <3> HIDE DEF k, m
    <3>2. QED
      BY <3>1 DEF Bytes
  <2>4. Cardinality(Bytes(accepted', k + 1, m + 1))
          = Cardinality(Bytes(accepted', k + 1, (m + 1) - 1)) + SizeOf[qchunk[t]]
    <3>1. k + 1 \in Nat /\ k + 1 >= 1 /\ m + 1 \in Nat /\ k + 1 <= m + 1
      BY <1>1
    <3> HIDE DEF k, m
    <3>2. QED
      BY <2>2, <3>1, BytesAtEnds
  <2>5. (m + 1) - 1 = m
    BY <1>1
  <2>6. QED
    BY <2>1, <2>2, <2>3, <2>4, <2>5 DEF SizeIsRight
<1>3. CASE head # NULL /\ Unlink(t)
  <2>1. /\ k < m /\ taken' = Append(taken, accepted[k + 1])
        /\ accepted' = accepted
    BY <1>3, UnlinkKeepsOrder DEF Unlink
  <2>2. Len(taken') = k + 1
    BY <1>1, <2>1
  <2>3. head = accepted[k + 1] /\ size' = size - SizeOf[head]
    BY <1>1, <1>3, <2>1 DEF Unlink, QueueInv, LinkedInOrder
  <2>4. Cardinality(Bytes(accepted, k + 1, m))
          = Cardinality(Bytes(accepted, (k + 1) + 1, m)) + SizeOf[accepted[k + 1]]
    <3>1. k + 1 \in Nat /\ k + 1 >= 1 /\ k + 1 <= m /\ m <= Len(accepted)
      BY <1>1, <2>1
    <3> HIDE DEF k, m
    <3>2. QED
      BY <1>1, <3>1, BytesAtEnds
  <2>5. /\ SizeOf[accepted[k + 1]] \in Int
        /\ Cardinality(Bytes(accepted, (k + 1) + 1, m)) \in Int
    <3>1. /\ (k + 1) + 1 \in Nat /\ (k + 1) + 1 >= 1 /\ m <= Len(accepted)
          /\ accepted[k + 1] \in Chunks
      BY <1>1, <2>1
    <3> HIDE DEF k, m
    <3>2. QED
      BY <1>1, <3>1, BytesFinite, FS_CardinalityType, SizeAssumption
  <2>6. size = Cardinality(Bytes(accepted, (k + 1) + 1, m)) + SizeOf[accepted[k + 1]]
    BY <2>4 DEF SizeIsRight
  <2>7. size' = Cardinality(Bytes(accepted, (k + 1) + 1, m))
    BY <2>3, <2>5, <2>6
  <2>8. QED
    BY <2>1, <2>2, <2>7 DEF SizeIsRight
<1>4. CASE UNCHANGED <<size, accepted, taken>>
  BY <1>4 DEF SizeIsRight
<1>5. QED
  BY <1>2, <1>3, <1>4
     DEF QueueStep, SpuriousWakeup, PushSize, PopInc, NbInc, UseIncrement,
         PopTake, PopWoken, PopDec, FinSignal, FinUsed, NbTake, NbDec, hist,
         listVars

(* The fill state that queue_push and queue_getsize report is the number   *)
(* of bytes in the queue, for chunks of any sizes and any number of        *)
(* threads.                                                                *)
THEOREM QueueSizeExact == QueueSpec => []SizeIsQueuedBytes
<1>1. QueueInit => SizeIsRight
  <2> SUFFICES ASSUME QueueInit PROVE SizeIsRight
    OBVIOUS
  <2>1. accepted = <<>> /\ taken = <<>> /\ size = 0
    BY DEF QueueInit, QueueEmpty
  <2>2. Bytes(accepted, Len(taken) + 1, Len(accepted)) = {}
    BY <2>1 DEF Bytes
  <2>3. QED
    BY <2>1, <2>2, FS_EmptySet DEF SizeIsRight
<1>2. SizeIsRight /\ QueueInv /\ [QueueNext]_qvars => SizeIsRight'
  <2> SUFFICES ASSUME SizeIsRight, QueueInv, [QueueNext]_qvars
               PROVE  SizeIsRight'
    OBVIOUS
  <2>1. CASE \E t \in Threads : QueueStep(t) \/ SpuriousWakeup(t)
    BY <2>1, SizeStep
  <2>2. CASE MainPush \/ MainGetsize \/ MainFinish \/ MainDestroy \/ ConsumerPop
    <3>1. UNCHANGED <<size, accepted, taken>>
      BY <2>2 DEF MainPush, MainGetsize, MainFinish, MainDestroy, ConsumerPop,
                  CallPush, QueueGetsize, CallFinish, CallDestroy, CallPop, hist,
                  listVars
    <3>2. QED
      BY <3>1 DEF SizeIsRight
  <2>3. CASE UNCHANGED qvars
    BY <2>3 DEF qvars, SizeIsRight
  <2>4. QED
    BY <2>1, <2>2, <2>3 DEF QueueNext
<1>3. SizeIsRight => SizeIsQueuedBytes
  BY DEF SizeIsRight, SizeIsQueuedBytes, QueuedBytes, Bytes
<1>4. QED
  BY <1>1, <1>2, <1>3, QueueInvariant, PTL DEF QueueSpec

----------------------------------------------------------------------------
(* From the call of queue_destroy on no consumer is inside the queue; it   *)
(* drains the list only then, and frees the queue when that is done.       *)
Destroying ==
  /\ teardown \/ ~alive => \A t \in Consumers : qpc[t] = "idle"
  /\ ~alive => qpc[Main] = "idle" /\ Len(taken) = Len(accepted)
  /\ qpc[Main] \in {"nb_inc"} \cup NbInside => teardown

(* Where a step of thread t inside the queue can lead it, and whom else it *)
(* can move: a sleeper that it wakes.                                      *)
LEMMA StepMoves ==
  ASSUME QueueInv, NEW t \in Threads, QueueStep(t) \/ SpuriousWakeup(t)
  PROVE  \A u \in Threads : u # t =>
           \/ qpc'[u] = qpc[u]
           \/ qpc[u] = "pop_wait" /\ qpc'[u] = "pop_woken"
           \/ qpc[u] = "fin_wait" /\ qpc'[u] = "fin_used"
<1>1. qpc \in [Threads -> QLabels]
  BY DEF QueueInv, QueueTypeOK
<1>2. ASSUME NEW label \in QLabels, NEW from, NEW to \in QLabels,
             qpc' \in Signalled([qpc EXCEPT ![t] = label], from, to)
      PROVE  \A u \in Threads : u # t =>
               qpc'[u] = qpc[u] \/ (qpc[u] = from /\ qpc'[u] = to)
  <2> DEFINE pc == [qpc EXCEPT ![t] = label]
  <2>1. pc \in [Threads -> QLabels] /\ \A u \in Threads : u # t => pc[u] = qpc[u]
    BY <1>1
  <2>2. qpc' \in Signalled(pc, from, to)
    BY <1>2
  <2> HIDE DEF pc
  <2>3. \A u \in Threads : qpc'[u] = pc[u] \/ (pc[u] = from /\ qpc'[u] = to)
    BY <2>1, <2>2, SignalMovesSleepers
  <2>4. QED
    BY <2>1, <2>3
<1>3. {"idle", "nb_inc", "fin_used", "pop_woken"} \subseteq QLabels
  BY DEF QLabels, PopInside
<1>4. CASE PushLink(t) \/ FinSignal(t)
  <2>1. PICK label \in {"idle", "fin_used"} :
          qpc' \in Signalled([qpc EXCEPT ![t] = label], "pop_wait", "pop_woken")
    BY <1>4 DEF PushLink, LinkTail, FinSignal, SignalCond
  <2>2. label \in QLabels
    BY <1>3
  <2>3. QED
    BY <1>2, <1>3, <2>1, <2>2
<1>5. CASE PopDec(t) \/ NbDec(t)
  <2>1. PICK label \in {"idle", "nb_inc"} :
          qpc' \in Signalled([qpc EXCEPT ![t] = label], "fin_wait", "fin_used")
    BY <1>5 DEF PopDec, NbDec, SignalUsed
  <2>2. label \in QLabels
    BY <1>3
  <2>3. QED
    BY <1>2, <1>3, <2>1, <2>2
<1>6. CASE PushSize(t) \/ PopInc(t) \/ NbInc(t) \/ PopTake(t) \/ PopWoken(t)
             \/ FinUsed(t) \/ NbTake(t) \/ SpuriousWakeup(t)
  BY <1>1, <1>6
     DEF PushSize, PopInc, NbInc, UseIncrement, PopTake, PopWoken, FinUsed,
         NbTake, SpuriousWakeup
<1>7. QED
  BY <1>4, <1>5, <1>6 DEF QueueStep

(* Only a thread inside a queue function steps.                            *)
LEMMA NotIdleInside ==
  ASSUME NEW t \in Threads, QueueStep(t) \/ SpuriousWakeup(t)
  PROVE  qpc[t] # "idle"
BY DEF QueueStep, SpuriousWakeup, PushSize, PushLink, LinkTail, PopInc, NbInc,
       UseIncrement, PopTake, PopWoken, PopDec, FinSignal, FinUsed, NbTake, NbDec

(* Every region of the queue's functions keeps to the order of             *)
(* queue_destroy.                                                          *)
LEMMA DestroyingStep ==
  ASSUME QueueInv, Destroying, NEW t \in Threads,
         QueueStep(t) \/ SpuriousWakeup(t)
  PROVE  Destroying'
<1>1. alive = TRUE
  <2>1. alive \in BOOLEAN
    BY DEF QueueInv, QueueTypeOK
  <2>2. alive
    BY NotIdleInside DEF Destroying, Threads
  <2>3. QED
    BY <2>1, <2>2
<1>2. Main \in Threads /\ qpc \in [Threads -> QLabels]
  BY DEF Threads, QueueInv, QueueTypeOK
<1>3. CASE t \in Consumers
  <2>1. t # Main /\ ~teardown
    BY <1>3, NotIdleInside, ThreadsAssumption DEF Destroying
  <2>2. UNCHANGED <<alive, teardown>>
    <3>1. ~NbDec(t)
      BY <1>3 DEF NbDec, QueueInv, Roles, PopInside
    <3>2. QED
      BY <3>1 DEF QueueStep, SpuriousWakeup, PushSize, PushLink, LinkTail,
         PopInc, NbInc, UseIncrement, PopTake, PopWoken, PopDec, FinSignal,
         FinUsed, NbTake
  <2>3. \/ qpc'[Main] = qpc[Main]
        \/ qpc'[Main] \in {"pop_woken", "fin_used"}
    BY <1>2, <2>1, StepMoves
  <2>4. QED
    BY <1>1, <2>1, <2>2, <2>3 DEF Destroying, NbInside
<1>4. CASE t = Main
  <2>1. \A u \in Consumers : qpc[u] = "idle" => qpc'[u] = "idle"
    BY <1>4, StepMoves, ThreadsAssumption DEF Threads
  <2>2. CASE NbDec(t)
    <3>1. teardown /\ qpc[t] = "nb_dec"
      BY <1>4, <2>2 DEF NbDec, Destroying, NbInside
    <3>2. \A u \in Consumers : qpc'[u] = "idle"
      BY <2>1, <3>1 DEF Destroying
    <3>3. CASE qchunk[t] # NULL
      BY <1>1, <2>2, <3>1, <3>2, <3>3 DEF NbDec, Destroying
    <3>4. CASE qchunk[t] = NULL
      <4>1. qpc' \in SignalUsed([qpc EXCEPT ![t] = "idle"])
        BY <2>2, <3>4 DEF NbDec
      <4>2. qpc'[Main] = "idle"
        <5> DEFINE pc == [qpc EXCEPT ![t] = "idle"]
        <5>1. pc \in [Threads -> QLabels] /\ pc[Main] = "idle" /\ "fin_used" \in QLabels
          BY <1>2, <1>4 DEF QLabels
        <5>2. qpc' \in Signalled(pc, "fin_wait", "fin_used")
          BY <4>1 DEF SignalUsed
        <5> HIDE DEF pc
        <5>3. qpc'[Main] = pc[Main] \/ pc[Main] = "fin_wait"
          BY <1>2, <5>1, <5>2, SignalMovesSleepers
        <5>4. QED
          BY <5>1, <5>3
      <4>3. Len(taken) = Len(accepted) /\ UNCHANGED <<taken, accepted>>
        BY <1>4, <2>2, <3>1, <3>4 DEF NbDec, QueueInv, DrainedAtEnd, hist
      <4>4. QED
        BY <3>2, <4>2, <4>3 DEF Destroying, NbInside
    <3>5. QED
      BY <3>3, <3>4
  <2>3. CASE ~NbDec(t)
    <3>1. UNCHANGED <<alive, teardown>>
      BY <2>3 DEF QueueStep, SpuriousWakeup, PushSize, PushLink, LinkTail,
         PopInc, NbInc, UseIncrement, PopTake, PopWoken, PopDec, FinSignal,
         FinUsed, NbTake
    <3>2. qpc'[Main] \in {"nb_inc"} \cup NbInside => teardown
      <4>1. CASE PushLink(t) \/ FinSignal(t)
        <5>1. PICK label \in {"idle", "fin_used"} :
                qpc' \in Signalled([qpc EXCEPT ![t] = label], "pop_wait", "pop_woken")
          BY <4>1 DEF PushLink, LinkTail, FinSignal, SignalCond
        <5> DEFINE pc == [qpc EXCEPT ![t] = label]
        <5>2. /\ pc \in [Threads -> QLabels] /\ pc[Main] = label
              /\ "pop_woken" \in QLabels
          BY <1>2, <1>4 DEF QLabels, PopInside
        <5>3. qpc' \in Signalled(pc, "pop_wait", "pop_woken")
          BY <5>1
        <5> HIDE DEF pc
        <5>4. qpc'[Main] \in {label, "pop_woken"}
          BY <1>2, <5>2, <5>3, SignalMovesSleepers
        <5>5. QED
          BY <5>4 DEF NbInside
      <4>2. CASE PushSize(t) \/ NbInc(t) \/ FinUsed(t) \/ NbTake(t)
                   \/ SpuriousWakeup(t)
        BY <1>2, <1>4, <4>2
           DEF PushSize, NbInc, UseIncrement, FinUsed, NbTake, SpuriousWakeup,
               Destroying, NbInside
      <4>3. ~(PopInc(t) \/ PopTake(t) \/ PopWoken(t) \/ PopDec(t))
        BY <1>4 DEF PopInc, UseIncrement, PopTake, PopWoken, PopDec, QueueInv,
           Roles, PopInside
      <4>4. QED
        BY <2>3, <4>1, <4>2, <4>3 DEF QueueStep
    <3>3. QED
      BY <1>1, <2>1, <3>1, <3>2 DEF Destroying
  <2>4. QED
    BY <2>2, <2>3
<1>5. QED
  BY <1>3, <1>4 DEF Threads

(* queue_destroy frees the queue only when nobody is inside it and nothing *)
(* is left in the list.                                                    *)
THEOREM QueueFreedUnused == QueueSpec => []FreedWhenUnused
<1>1. QueueInit => Destroying
  BY DEF QueueInit, QueueEmpty, Destroying, NbInside, Threads
<1>2. Destroying /\ QueueInv /\ [QueueNext]_qvars => Destroying'
  <2> SUFFICES ASSUME Destroying, QueueInv, [QueueNext]_qvars
               PROVE  Destroying'
    OBVIOUS
  <2>1. Main \in Threads /\ qpc \in [Threads -> QLabels] /\ Main \notin Consumers
    BY ThreadsAssumption DEF Threads, QueueInv, QueueTypeOK
  <2>2. CASE \E t \in Threads : QueueStep(t) \/ SpuriousWakeup(t)
    BY <2>2, DestroyingStep
  <2>3. CASE MainPush \/ MainFinish
    <3>1. alive /\ UNCHANGED <<alive, teardown>>
      BY <2>3 DEF MainPush, MainFinish, CallPush, CallFinish
    <3>2. PICK label \in {"push_size", "fin_signal"} :
            qpc' = [qpc EXCEPT ![Main] = label]
      BY <2>3 DEF MainPush, MainFinish, CallPush, CallFinish, Enter
    <3>3. /\ qpc'[Main] = label
          /\ \A t \in Consumers : qpc'[t] = qpc[t]
      BY <2>1, <3>2 DEF Threads
    <3>4. QED
      BY <3>1, <3>3 DEF Destroying, NbInside
  <2>4. CASE MainDestroy
    <3>1. /\ alive /\ UNCHANGED alive /\ \A t \in Consumers : qpc[t] = "idle"
          /\ qpc' = [qpc EXCEPT ![Main] = "fin_signal"]
      BY <2>4 DEF MainDestroy, CallDestroy, Enter
    <3>2. /\ qpc'[Main] = "fin_signal"
          /\ \A t \in Consumers : qpc'[t] = qpc[t]
      BY <2>1, <3>1 DEF Threads
    <3>3. QED
      BY <3>1, <3>2 DEF Destroying, NbInside
  <2>5. CASE ConsumerPop
    <3>1. PICK t \in Consumers : alive /\ ~teardown /\ CallPop(t)
      BY <2>5 DEF ConsumerPop
    <3>2. UNCHANGED <<alive, teardown>> /\ qpc' = [qpc EXCEPT ![t] = "pop_inc"]
      BY <3>1 DEF CallPop, Enter
    <3>3. qpc'[Main] = qpc[Main]
      BY <2>1, <3>2
    <3>4. QED
      BY <3>1, <3>2, <3>3 DEF Destroying
  <2>6. CASE MainGetsize \/ UNCHANGED qvars
    BY <2>6 DEF MainGetsize, QueueGetsize, qvars, hist, Destroying
  <2>7. QED
    BY <2>2, <2>3, <2>4, <2>5, <2>6 DEF QueueNext
<1>3. Destroying /\ QueueInv => FreedWhenUnused
  <2> SUFFICES ASSUME Destroying, QueueInv, ~alive
               PROVE  (\A t \in Threads : qpc[t] = "idle") /\ accepted = taken
    BY DEF FreedWhenUnused
  <2>1. Len(taken) = Len(accepted)
    BY DEF Destroying
  <2>2. /\ accepted \in Seq(Chunks) /\ taken \in Seq(Chunks)
        /\ \A i \in 1 .. Len(taken) : taken[i] = accepted[i]
    BY DEF QueueInv, QueueTypeOK, LinkedInOrder
  <2>3. accepted = taken
    BY <2>1, <2>2, SeqEqual
  <2>4. QED
    BY <2>3 DEF Destroying, Threads
<1>4. QED
  BY <1>1, <1>2, <1>3, QueueInvariant, PTL DEF QueueSpec

----------------------------------------------------------------------------
(* The consumers about to look at the list.                                *)
Awake(pc) == {t \in Threads : pc[t] \in {"pop_take", "pop_woken"}}

Queued == Len(accepted) - Len(taken)

(* The consumers awake are finitely many.                                  *)
LEMMA AwakeFinite ==
  \A pc : IsFiniteSet(Awake(pc)) /\ Cardinality(Awake(pc)) \in Nat
<1> TAKE pc
<1>1. IsFiniteSet(Threads)
  BY ThreadsAssumption, FS_Singleton, FS_Union DEF Threads
<1>2. IsFiniteSet(Awake(pc))
  BY <1>1, FS_Subset DEF Awake
<1>3. QED
  BY <1>2, FS_CardinalityType

(* A consumer that wakes up or enters is one more.                         *)
LEMMA AwakeMore ==
  ASSUME NEW pc, NEW pc2, NEW t, t \notin Awake(pc), Awake(pc2) = Awake(pc) \cup {t}
  PROVE  Cardinality(Awake(pc2)) = Cardinality(Awake(pc)) + 1
BY AwakeFinite, FS_AddElement

(* A consumer that goes to sleep or leaves is one less.                    *)
LEMMA AwakeLess ==
  ASSUME NEW pc, NEW pc2, NEW t, t \in Awake(pc), Awake(pc2) = Awake(pc) \ {t}
  PROVE  Cardinality(Awake(pc2)) = Cardinality(Awake(pc)) - 1
BY AwakeFinite, FS_RemoveElement

(* The list is empty just when as many chunks were taken as were linked.   *)
LEMMA QueuedNumber ==
  ASSUME QueueInv
  PROVE  Queued \in Nat /\ (head = NULL <=> Queued = 0)
<1>1. /\ Len(accepted) \in Nat /\ Len(taken) \in Nat /\ Len(taken) <= Len(accepted)
      /\ accepted \in Seq(Chunks)
  BY DEF QueueInv, QueueTypeOK, LinkedInOrder
<1>2. Len(taken) # Len(accepted) => accepted[Len(taken) + 1] \in Chunks
  BY <1>1
<1>3. head = NULL <=> Len(taken) = Len(accepted)
  BY <1>2, ChunksAssumption DEF QueueInv, LinkedInOrder
<1>4. QED
  BY <1>1, <1>3 DEF Queued

(* queue_push: one chunk more, and one consumer more awake if any slept.   *)
LEMMA PushStrands ==
  ASSUME QueueInv, NoStrandedChunk, NEW t \in Threads, PushLink(t)
  PROVE  NoStrandedChunk'
<1> SUFFICES ASSUME ~done', Sleepers' # {}
             PROVE  Queued' <= Cardinality(Awake(qpc'))
  BY DEF NoStrandedChunk, Queued, Awake
<1>1. ~done /\ Queued' = Queued + 1 /\ Queued \in Nat
  BY QueuedNumber DEF PushLink, LinkTail, Queued, QueueInv, QueueTypeOK
<1> DEFINE pc == [qpc EXCEPT ![t] = "idle"]
           asleep == {u \in Threads : pc[u] = "pop_wait"}
<1>2. /\ qpc \in [Threads -> QLabels] /\ qpc[t] = "push_link"
      /\ qpc' \in Signalled(pc, "pop_wait", "pop_woken")
  BY DEF PushLink, LinkTail, SignalCond, QueueInv, QueueTypeOK
<1>3. \A u \in Threads : pc[u] = IF u = t THEN "idle" ELSE qpc[u]
  BY <1>2
<1>4. pc \in [Threads -> QLabels] /\ asleep = Sleepers
  BY <1>2, <1>3 DEF QLabels, Sleepers
<1> HIDE DEF pc
<1>5. asleep # {}
  <2>1. asleep = {} => qpc' = pc
    BY <1>2 DEF Signalled
  <2>2. asleep = {} => Sleepers' = {}
    BY <2>1 DEF Sleepers
  <2>3. QED
    BY <2>2
<1>6. PICK w \in asleep : qpc' = [pc EXCEPT ![w] = "pop_woken"]
  BY <1>2, <1>5 DEF Signalled
<1>7. \A u \in Threads : qpc'[u] = IF u = w THEN "pop_woken" ELSE pc[u]
  BY <1>4, <1>6
<1>8. Awake(qpc') = Awake(qpc) \cup {w} /\ w \notin Awake(qpc)
  BY <1>2, <1>3, <1>7 DEF Awake
<1>9. Queued <= Cardinality(Awake(qpc))
  BY <1>1, <1>4, <1>5 DEF NoStrandedChunk, Queued, Awake
<1>10. /\ Cardinality(Awake(qpc')) = Cardinality(Awake(qpc)) + 1
       /\ Cardinality(Awake(qpc)) \in Nat
  BY <1>8, AwakeMore, AwakeFinite
<1>11. QED
  BY <1>1, <1>9, <1>10

(* queue_pop_block: a consumer that takes a chunk, or goes to sleep when   *)
(* there is none.                                                          *)
LEMMA PopStrands ==
  ASSUME QueueInv, NoStrandedChunk, NEW t \in Threads,
         PopTake(t) \/ PopWoken(t)
  PROVE  NoStrandedChunk'
<1> SUFFICES ASSUME ~done', Sleepers' # {}
             PROVE  Queued' <= Cardinality(Awake(qpc'))
  BY DEF NoStrandedChunk, Queued, Awake
<1>1. /\ ~done /\ qpc \in [Threads -> QLabels]
      /\ qpc[t] \in {"pop_take", "pop_woken"}
  BY DEF PopTake, PopWoken, QueueInv, QueueTypeOK
<1>2. CASE head = NULL
  <2>1. Queued' = Queued
    BY <1>1, <1>2 DEF PopTake, PopWoken, hist, Queued
  <2>2. Queued' = 0
    BY <1>2, <2>1, QueuedNumber
  <2>3. QED
    BY <2>2, AwakeFinite
<1>3. CASE head # NULL
  <2>1. Unlink(t) /\ qpc' = [qpc EXCEPT ![t] = "pop_dec"]
    BY <1>1, <1>3 DEF PopTake, PopWoken
  <2>2. Queued' = Queued - 1
    <3>1. /\ taken' = Append(taken, accepted[Len(taken) + 1])
          /\ accepted' = accepted
      BY <1>3, <2>1, UnlinkKeepsOrder DEF Unlink
    <3>2. taken \in Seq(Chunks) /\ Len(accepted) \in Nat /\ Len(taken) \in Nat
      BY DEF QueueInv, QueueTypeOK
    <3>3. Len(taken') = Len(taken) + 1
      BY <3>1, <3>2
    <3>4. QED
      BY <3>1, <3>2, <3>3 DEF Queued
  <2>3. \A u \in Threads : qpc'[u] = IF u = t THEN "pop_dec" ELSE qpc[u]
    BY <1>1, <2>1
  <2>4. Sleepers # {}
    BY <2>3 DEF Sleepers
  <2>5. Awake(qpc') = Awake(qpc) \ {t} /\ t \in Awake(qpc)
    BY <1>1, <2>3 DEF Awake
  <2>6. Queued <= Cardinality(Awake(qpc))
    BY <1>1, <2>4 DEF NoStrandedChunk, Queued, Awake
  <2>7. /\ Cardinality(Awake(qpc')) = Cardinality(Awake(qpc)) - 1
        /\ Cardinality(Awake(qpc)) \in Nat
    BY <2>5, AwakeLess, AwakeFinite
  <2>8. Queued \in Nat
    BY QueuedNumber
  <2>9. QED
    BY <2>2, <2>6, <2>7, <2>8
<1>4. QED
  BY <1>2, <1>3

(* Every other step leaves the sleepers asleep or wakes some, and takes    *)
(* nobody from those who are awake.                                        *)
LEMMA OtherStrands ==
  ASSUME QueueInv, NoStrandedChunk, done' = done, Queued' <= Queued,
         Queued' \in Nat,
         \A u \in Threads :
           /\ qpc'[u] = "pop_wait" => qpc[u] = "pop_wait"
           /\ u \in Awake(qpc) => u \in Awake(qpc')
  PROVE  NoStrandedChunk'
<1> SUFFICES ASSUME ~done', Sleepers' # {}
             PROVE  Queued' <= Cardinality(Awake(qpc'))
  BY DEF NoStrandedChunk, Queued, Awake
<1>1. ~done /\ Sleepers # {}
  BY DEF Sleepers
<1>2. Queued <= Cardinality(Awake(qpc))
  BY <1>1 DEF NoStrandedChunk, Queued, Awake
<1>3. Awake(qpc) \in SUBSET Awake(qpc')
  BY DEF Awake
<1>4. Cardinality(Awake(qpc)) <= Cardinality(Awake(qpc'))
  BY <1>3, AwakeFinite, FS_Subset
<1>5. QED
  BY <1>2, <1>4, AwakeFinite, QueuedNumber

(* No region strands a chunk: queue_push signals when it links, and a      *)
(* consumer goes to sleep on an empty list only.                           *)
LEMMA StrandedStep ==
  ASSUME QueueInv, NoStrandedChunk, NEW t \in Threads,
         QueueStep(t) \/ SpuriousWakeup(t)
  PROVE  NoStrandedChunk'
<1>1. CASE PushLink(t)
  BY <1>1, PushStrands
<1>2. CASE PopTake(t) \/ PopWoken(t)
  BY <1>2, PopStrands
<1>3. CASE FinSignal(t)
  BY <1>3 DEF FinSignal, NoStrandedChunk
<1>4. CASE PushSize(t) \/ PopInc(t) \/ PopDec(t) \/ FinUsed(t) \/ NbInc(t)
             \/ NbTake(t) \/ NbDec(t) \/ SpuriousWakeup(t)
  <2>1. Queued \in Nat /\ qpc \in [Threads -> QLabels]
    BY QueuedNumber DEF QueueInv, QueueTypeOK
  <2>2. done' = done
    BY <1>4 DEF PushSize, PopInc, PopDec, FinUsed, NbInc, UseIncrement, NbTake,
       NbDec, SpuriousWakeup
  <2>3. Queued' <= Queued /\ Queued' \in Nat
    <3>1. CASE head # NULL /\ Unlink(t)
      <4>1. /\ taken' = Append(taken, accepted[Len(taken) + 1])
            /\ accepted' = accepted /\ Len(taken) < Len(accepted)
        BY <3>1, UnlinkKeepsOrder DEF Unlink
      <4>2. taken \in Seq(Chunks) /\ Len(accepted) \in Nat /\ Len(taken) \in Nat
        BY DEF QueueInv, QueueTypeOK
      <4>3. Len(taken') = Len(taken) + 1
        BY <4>1, <4>2
      <4>4. QED
        BY <4>1, <4>2, <4>3 DEF Queued
    <3>2. CASE UNCHANGED <<accepted, taken>>
      BY <2>1, <3>2 DEF Queued
    <3>3. QED
      BY <1>4, <3>1, <3>2 DEF PushSize, PopInc, PopDec, FinUsed, NbInc,
         UseIncrement, NbTake, NbDec, SpuriousWakeup, hist
  <2>4. qpc[t] # "pop_take" /\ (qpc[t] = "pop_woken" => qpc'[t] = "pop_woken")
    BY <1>4 DEF PushSize, PopInc, PopDec, FinUsed, NbInc, UseIncrement, NbTake,
       NbDec, SpuriousWakeup
  <2>5. qpc'[t] # "pop_wait"
    <3>1. CASE PopDec(t) \/ NbDec(t)
      <4>1. PICK label \in {"idle", "nb_inc"} :
              qpc' \in Signalled([qpc EXCEPT ![t] = label], "fin_wait", "fin_used")
        BY <3>1 DEF PopDec, NbDec, SignalUsed
      <4> DEFINE pc == [qpc EXCEPT ![t] = label]
      <4>2. /\ pc \in [Threads -> QLabels] /\ pc[t] = label
            /\ "fin_used" \in QLabels
        BY <2>1 DEF QLabels
      <4>3. qpc' \in Signalled(pc, "fin_wait", "fin_used")
        BY <4>1
      <4> HIDE DEF pc
      <4>4. qpc'[t] \in {label, "fin_used"}
        BY <4>2, <4>3, SignalMovesSleepers
      <4>5. QED
        BY <4>4
    <3>2. CASE ~(PopDec(t) \/ NbDec(t))
      BY <1>4, <2>1, <3>2 DEF PushSize, PopInc, FinUsed, NbInc, UseIncrement,
         NbTake, SpuriousWakeup
    <3>3. QED
      BY <3>1, <3>2
  <2>6. ASSUME NEW u \in Threads
        PROVE  /\ qpc'[u] = "pop_wait" => qpc[u] = "pop_wait"
               /\ u \in Awake(qpc) => u \in Awake(qpc')
    <3>1. CASE u = t
      BY <2>4, <2>5, <3>1 DEF Awake
    <3>2. CASE u # t
      BY <3>2, StepMoves DEF Awake
    <3>3. QED
      BY <3>1, <3>2
  <2>7. QED
    BY <2>2, <2>3, <2>6, OtherStrands
<1>5. QED
  BY <1>1, <1>2, <1>3, <1>4 DEF QueueStep

(* One signal per queue_push is enough for any number of consumers: while  *)
(* the queue is not finished no chunk waits for a consumer that sleeps.    *)
THEOREM QueueStrandsNothing == QueueSpec => []NoStrandedChunk
<1>1. QueueInit => NoStrandedChunk
  BY DEF QueueInit, QueueEmpty, NoStrandedChunk, Sleepers
<1>2. NoStrandedChunk /\ QueueInv /\ [QueueNext]_qvars => NoStrandedChunk'
  <2> SUFFICES ASSUME NoStrandedChunk, QueueInv, [QueueNext]_qvars
               PROVE  NoStrandedChunk'
    OBVIOUS
  <2>1. CASE \E t \in Threads : QueueStep(t) \/ SpuriousWakeup(t)
    BY <2>1, StrandedStep
  <2>2. CASE MainPush \/ MainGetsize \/ MainFinish \/ MainDestroy \/ ConsumerPop
    <3>1. PICK t \in Threads,
               label \in {"idle", "push_size", "fin_signal", "pop_inc"} :
            qpc[t] = "idle" /\ qpc' = [qpc EXCEPT ![t] = label]
      BY <2>2 DEF MainPush, MainGetsize, MainFinish, MainDestroy, ConsumerPop,
                  CallPush, QueueGetsize, CallFinish, CallDestroy, CallPop,
                  Enter, Threads, QueueInv, QueueTypeOK
    <3>2. done' = done /\ UNCHANGED <<accepted, taken>>
      BY <2>2 DEF MainPush, MainGetsize, MainFinish, MainDestroy, ConsumerPop,
                  CallPush, QueueGetsize, CallFinish, CallDestroy, CallPop, hist
    <3>3. Queued' <= Queued /\ Queued' \in Nat
      BY <3>2, QueuedNumber DEF Queued
    <3>4. \A u \in Threads :
            /\ qpc'[u] = "pop_wait" => qpc[u] = "pop_wait"
            /\ u \in Awake(qpc) => u \in Awake(qpc')
      BY <3>1 DEF Awake, QueueInv, QueueTypeOK
    <3>5. QED
      BY <3>2, <3>3, <3>4, OtherStrands
  <2>3. CASE UNCHANGED qvars
    BY <2>3 DEF qvars, NoStrandedChunk, Sleepers
  <2>4. QED
    BY <2>1, <2>2, <2>3 DEF QueueNext
<1>3. QED
  BY <1>1, <1>2, QueueInvariant, PTL DEF QueueSpec
============================================================================
