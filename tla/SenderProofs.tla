---------------------------- MODULE SenderProofs ----------------------------
(***************************************************************************)
(* Proofs about module Sender, for any set of chunks: type correctness,    *)
(* who destroys what and when, and the refinement of SendPath.  The        *)
(* queue's part of the invariant is kept by the lemmas of QueueProofs; the *)
(* steps inside the queue enter the argument only through what they do to  *)
(* the places and hands of the two threads (MainEffect, SubEffect).        *)
(***************************************************************************)
EXTENDS Sender, QueueProofs, SequenceTheorems

(* The fields and histories of the sender have their types.                *)
FieldTypes ==
  /\ keepsending \in BOOLEAN /\ isrunning \in BOOLEAN /\ locked \in BOOLEAN
  /\ mpc \in MainLabels /\ spc \in SubLabels
  /\ mret \in Int
  /\ wire \in Seq(Chunks) /\ late \in Nat /\ freed \in Seq(Chunks)

(* Which place in the queue goes with which place in the sender.           *)
Places ==
  /\ qpc[Sub] # "idle" => spc = "popping"
  /\ qpc[Main] # "idle" => mpc \in {"create_failed", "send_push",
                "destroy_finish", "destroy_finish2", "destroy_queue"}
  /\ qpc[Main] \in {"push_size", "push_link"} <=>
       mpc = "send_push" /\ qpc[Main] # "idle"
  /\ qpc[Main] \in {"nb_inc", "nb_take", "nb_dec"} => teardown
  /\ teardown <=> mpc \in {"create_failed", "destroy_queue"}
                    /\ qpc[Main] # "idle"
  /\ spc = "unborn" <=> mpc \in {"uncreated", "create_failed"}
                          \/ (mpc = "gone" /\ keepsending)
  /\ mpc \in {"destroy_queue", "gone"} => spc \in {"unborn", "exited"}

(* What the send thread holds.                                             *)
Holding ==
  /\ spc = "sending" => qchunk[Sub] # NULL
  /\ spc \notin {"popping", "sending"} => qchunk[Sub] = NULL
  /\ qpc[Sub] \notin {"idle", "pop_dec"} => qchunk[Sub] = NULL

(* keepsending is cleared by iemnet__sender_destroy alone, and at most one *)
(* chunk is written afterwards.                                            *)
Stopping ==
  /\ mpc \in DestroyLabels \ {"destroy_lock"} => ~keepsending
  /\ mpc \notin DestroyLabels \cup {"gone"} => keepsending
  /\ mpc = "destroy_lock" => keepsending
  /\ late = 0 \/ (late = 1 /\ ~keepsending
                  /\ spc \in {"loop", "ended", "exited"})

(* What has been written, until the thread meets an error.                 *)
Written ==
  spc \in {"unborn", "loop", "popping", "sending"} =>
    taken = IF qchunk[Sub] = NULL THEN wire ELSE Append(wire, qchunk[Sub])

MainHolds == qpc[Main] = "nb_dec" /\ qchunk[Main] # NULL

(* Who destroys what: every chunk taken from the queue has been destroyed, *)
(* but for the one in the hand of a thread, and the queue is freed when    *)
(* everything was taken.                                                   *)
Freeing ==
  /\ MainHolds => qchunk[Sub] = NULL
  /\ taken = IF qchunk[Sub] # NULL THEN Append(freed, qchunk[Sub])
             ELSE IF MainHolds THEN Append(freed, qchunk[Main])
             ELSE freed
  /\ spc = "unborn" => accepted = <<>>
  /\ ~alive => taken = accepted
  /\ ~alive => mpc \in {"uncreated", "create_failed", "destroy_queue", "gone"}
  /\ mpc \in {"create_failed", "destroy_queue"} /\ qpc[Main] = "idle" => ~alive
  /\ mpc = "gone" => ~alive

SenderInv ==
  /\ QueueInv /\ FieldTypes
  /\ Places /\ Holding /\ Stopping /\ Written /\ Freeing

----------------------------------------------------------------------------
(* The two threads.                                                        *)
LEMMA ThreadFacts ==
  /\ Threads = {Main, Sub} /\ Main # Sub
  /\ Main \in Threads /\ Sub \in Threads /\ Sub \in Consumers
BY SubAssumption, ThreadsAssumption DEF Threads

(* A step that leaves the queue alone keeps the queue's invariant.         *)
LEMMA QueueUnchanged ==
  ASSUME QueueInv, UNCHANGED qvars
  PROVE  QueueInv'
BY DEF qvars, QueueInv, QueueTypeOK, LinkedInOrder, Roles, PushIsFresh,
       PushedOnce, DrainedAtEnd, Fresh

(* Steps of the main thread between two queue functions.                   *)
LEMMA MainControlKeepsInv ==
  ASSUME SenderInv,
         \/ CreateUndone \/ SendCall \/ SendReturn \/ DestroyCall
         \/ DestroyUnlock \/ DestroyFinished \/ DestroyFree
  PROVE  SenderInv'
<1>1. UNCHANGED <<qvars, keepsending, isrunning, spc, wire, late, freed>>
  BY DEF CreateUndone, SendCall, SendReturn, DestroyCall, DestroyUnlock,
         DestroyFinished, DestroyFree
<1>2. QueueInv'
  BY <1>1, QueueUnchanged DEF SenderInv
<1>3. UNCHANGED <<qpc, qchunk, alive, teardown, accepted, taken>>
  BY <1>1 DEF qvars
<1>4. FieldTypes'
  <2>1. mpc' \in MainLabels
    BY DEF CreateUndone, SendCall, SendReturn, DestroyCall, DestroyUnlock,
           DestroyFinished, DestroyFree, MainLabels, DestroyLabels
  <2>2. mret' \in Int
    BY ThreadFacts
       DEF CreateUndone, SendCall, SendReturn, DestroyCall, DestroyUnlock,
           DestroyFinished, DestroyFree, SenderInv, FieldTypes, QueueInv,
           QueueTypeOK
  <2>3. locked' \in BOOLEAN
    BY DEF CreateUndone, SendCall, SendReturn, DestroyCall, DestroyUnlock,
           DestroyFinished, DestroyFree, SenderInv, FieldTypes
  <2>4. QED
    BY <1>1, <2>1, <2>2, <2>3 DEF SenderInv, FieldTypes
<1>5. Holding' /\ Written'
  BY <1>1, <1>3 DEF SenderInv, Holding, Written
<1>6. \/ mpc = "create_failed" /\ mpc' = "gone" /\ qpc[Main] = "idle"
      \/ mpc = "ready" /\ mpc' = "send_lock"
      \/ mpc = "send_push" /\ mpc' = "ready" /\ qpc[Main] = "idle"
      \/ mpc = "ready" /\ mpc' = "destroy_lock"
      \/ mpc = "destroy_finish" /\ mpc' = "destroy_relock" /\ qpc[Main] = "idle"
      \/ mpc = "destroy_finish2" /\ mpc' = "destroy_join" /\ qpc[Main] = "idle"
      \/ mpc = "destroy_queue" /\ mpc' = "gone" /\ qpc[Main] = "idle"
  BY DEF CreateUndone, SendCall, SendReturn, DestroyCall, DestroyUnlock,
         DestroyFinished, DestroyFree
<1>7. Places'
  BY <1>1, <1>3, <1>6 DEF SenderInv, Places, Stopping, DestroyLabels
<1>8. Stopping'
  BY <1>1, <1>6 DEF SenderInv, Stopping, DestroyLabels
<1>9. Freeing'
  BY <1>1, <1>3, <1>6 DEF SenderInv, Freeing, MainHolds
<1>10. QED
  BY <1>2, <1>4, <1>5, <1>7, <1>8, <1>9 DEF SenderInv

(* Steps of the main thread that enter a queue function, or try to.        *)
LEMMA MainCallKeepsInv ==
  ASSUME SenderInv,
         \/ Create \/ CreateFails \/ SendLock \/ SenderGetsize
         \/ DestroyLock \/ DestroyRelock \/ DestroyJoin
  PROVE  SenderInv'
<1> USE ThreadFacts
<1>1. /\ qpc[Main] = "idle" /\ ~teardown
      /\ qpc \in [Threads -> QLabels] /\ qchunk \in [Threads -> ChunkOrNull]
  <2>1. mpc \in {"uncreated", "send_lock", "ready", "destroy_lock",
                 "destroy_relock", "destroy_join"}
    BY DEF Create, CreateFails, SendLock, SenderGetsize, DestroyLock,
           DestroyRelock, DestroyJoin
  <2>2. QED
    BY <2>1 DEF SenderInv, Places, QueueInv, QueueTypeOK
<1>2. QueueInv'
  <2>1. CASE Create
    <3>1. qpc' = [qpc EXCEPT ![Main] = "idle"]
      BY <2>1, <1>1 DEF Create
    <3>2. QED
      BY <2>1, <3>1, MainMoveKeepsInv
         DEF Create, SenderInv, QueueInv, QueueTypeOK, listVars, hist
  <2>2. CASE CreateFails
    <3>1. qpc' = [qpc EXCEPT ![Main] = "fin_signal"]
      BY <2>2 DEF CreateFails, Enter
    <3>2. qchunk' \in [Threads -> ChunkOrNull]
      BY <2>2 DEF CreateFails, Enter, SenderInv, QueueInv, QueueTypeOK,
                  ChunkOrNull
    <3>3. QED
      BY <2>2, <3>1, <3>2, MainMoveKeepsInv
         DEF CreateFails, SenderInv, QueueInv, QueueTypeOK, listVars, hist
  <2>3. CASE SendLock
    BY <2>3, QueueUnchanged, CallPushKeepsInv DEF SendLock, SenderInv
  <2>4. CASE SenderGetsize
    BY <2>4, GetsizeKeepsInv DEF SenderGetsize, SenderInv
  <2>5. CASE DestroyLock \/ DestroyRelock \/ DestroyJoin
    BY <2>5, QueueUnchanged, CallFinishKeepsInv
       DEF DestroyLock, DestroyRelock, DestroyJoin, FinishWhileRunning, SenderInv
  <2>6. QED
    BY <2>1, <2>2, <2>3, <2>4, <2>5
<1>3. /\ UNCHANGED <<isrunning, wire, late, freed, accepted, taken>>
      /\ qpc'[Sub] = qpc[Sub] /\ qchunk'[Sub] = qchunk[Sub]
  BY <1>1
     DEF Create, CreateFails, SendLock, SenderGetsize, DestroyLock, svars,
         DestroyRelock, DestroyJoin, FinishWhileRunning, CallPush, CallFinish,
         CallDestroy, QueueGetsize, Enter, hist, qvars
<1>4. \/ /\ mpc = "uncreated" /\ mpc' = "ready"
         /\ spc' = "loop" /\ alive'
         /\ qpc'[Main] = "idle" /\ UNCHANGED <<keepsending, teardown>>
      \/ /\ mpc = "uncreated" /\ mpc' = "create_failed"
         /\ alive' /\ teardown'
         /\ qpc'[Main] = "fin_signal" /\ UNCHANGED <<keepsending, spc>>
      \/ /\ mpc \in {"ready", "send_lock"} /\ mpc' = "ready"
         /\ qpc'[Main] = "idle"
         /\ UNCHANGED <<keepsending, spc, alive, teardown>>
      \/ /\ mpc = "destroy_lock" /\ mpc' = "ready" /\ ~keepsending
         /\ qpc'[Main] = "idle"
         /\ UNCHANGED <<keepsending, spc, alive, teardown>>
      \/ /\ mpc = "send_lock" /\ mpc' = "send_push"
         /\ qpc'[Main] = "push_size"
         /\ UNCHANGED <<keepsending, spc, alive, teardown>>
      \/ /\ mpc \in {"destroy_lock", "destroy_relock"}
         /\ mpc' \in {"destroy_finish", "destroy_finish2"}
         /\ keepsending' = IF mpc = "destroy_lock" THEN FALSE ELSE keepsending
         /\ qpc'[Main] = "fin_signal"
         /\ UNCHANGED <<spc, alive, teardown>>
      \/ /\ mpc = "destroy_join" /\ mpc' = "destroy_queue" /\ spc = "exited"
         /\ qpc'[Main] = "fin_signal" /\ teardown'
         /\ UNCHANGED <<keepsending, spc, alive>>
  <2>1. CASE Create \/ CreateFails
    BY <1>1, <2>1 DEF Create, CreateFails, Enter
  <2>2. CASE SendLock \/ SenderGetsize
    BY <1>1, <2>2 DEF SendLock, SenderGetsize, CallPush, Enter, QueueGetsize,
                      qvars, svars
  <2>3. CASE DestroyLock
    BY <1>1, <2>3 DEF DestroyLock, FinishWhileRunning, CallFinish, Enter, qvars
  <2>4. CASE DestroyRelock \/ DestroyJoin
    BY <1>1, <2>4 DEF DestroyRelock, DestroyJoin, FinishWhileRunning,
                      CallFinish, CallDestroy, Enter
  <2>5. QED
    BY <2>1, <2>2, <2>3, <2>4
<1>5. FieldTypes'
  <2>1. mpc' \in MainLabels /\ spc' \in SubLabels
    BY <1>4 DEF SenderInv, FieldTypes, MainLabels, SubLabels, DestroyLabels
  <2>2. mret' \in Int
    BY DEF Create, CreateFails, SendLock, SenderGetsize, DestroyLock, svars,
           DestroyRelock, DestroyJoin, SenderInv, FieldTypes
  <2>3. locked' \in BOOLEAN
    BY DEF Create, CreateFails, SendLock, SenderGetsize, DestroyLock, svars,
           DestroyRelock, DestroyJoin, FinishWhileRunning, SenderInv, FieldTypes
  <2>4. keepsending' \in BOOLEAN
    BY <1>4 DEF SenderInv, FieldTypes
  <2>5. QED
    BY <1>3, <2>1, <2>2, <2>3, <2>4 DEF SenderInv, FieldTypes
<1>6. Places'
  <2>1. (qpc[Sub] # "idle" => spc = "popping")'
    BY <1>3, <1>4 DEF SenderInv, Places
  <2>2. /\ (qpc[Main] # "idle" => mpc \in {"create_failed", "send_push",
                "destroy_finish", "destroy_finish2", "destroy_queue"})'
        /\ (qpc[Main] \in {"push_size", "push_link"} <=>
               mpc = "send_push" /\ qpc[Main] # "idle")'
        /\ qpc'[Main] \notin {"nb_inc", "nb_take", "nb_dec"}
    BY <1>4
  <2>3. (teardown <=> mpc \in {"create_failed", "destroy_queue"}
                        /\ qpc[Main] # "idle")'
    <3>1. teardown \in BOOLEAN /\ teardown' \in BOOLEAN
      BY <1>2 DEF SenderInv, QueueInv, QueueTypeOK
    <3>2. QED
      BY <1>1, <1>4, <3>1
  <2>4. /\ (spc = "unborn" <=> mpc \in {"uncreated", "create_failed"}
                                \/ (mpc = "gone" /\ keepsending))'
        /\ (mpc \in {"destroy_queue", "gone"} => spc \in {"unborn", "exited"})'
    BY <1>4 DEF SenderInv, Places
  <2>5. QED
    BY <2>1, <2>2, <2>3, <2>4 DEF Places
<1>7. Holding' /\ Written'
  BY <1>1, <1>3, <1>4 DEF SenderInv, Holding, Written, Places
<1>8. Stopping'
  BY <1>3, <1>4 DEF SenderInv, Stopping, Places, DestroyLabels
<1>9. Freeing'
  BY <1>1, <1>3, <1>4 DEF SenderInv, Freeing, MainHolds, Places
<1>10. QED
  BY <1>2, <1>5, <1>6, <1>7, <1>8, <1>9 DEF SenderInv

----------------------------------------------------------------------------
(* What a step of the main thread inside the queue does to the places and  *)
(* hands of both threads and to the histories: it pushes, finishes, or     *)
(* drains the list and frees the queue.                                    *)
MainEffect ==
  /\ \/ qpc'[Sub] = qpc[Sub]
     \/ qpc[Sub] = "pop_wait" /\ qpc'[Sub] = "pop_woken"
  /\ qchunk'[Sub] = qchunk[Sub]
  /\ \/ /\ qpc[Main] \in {"push_size", "push_link"}
        /\ qpc'[Main] \in {"idle", "push_link"}
        /\ UNCHANGED <<alive, teardown, taken>>
     \/ /\ qpc[Main] \in {"fin_signal", "fin_used"}
        /\ \/ qpc'[Main] \in {"fin_used", "fin_wait"}
           \/ qpc'[Main] = "nb_inc" /\ teardown
           \/ qpc'[Main] = "idle" /\ ~teardown
        /\ UNCHANGED <<alive, teardown, taken, accepted>>
     \/ /\ qpc[Main] = "nb_inc" /\ qpc'[Main] = "nb_take"
        /\ UNCHANGED <<alive, teardown, taken, accepted>>
     \/ /\ qpc[Main] = "nb_take" /\ qpc'[Main] = "nb_dec"
        /\ \/ qchunk'[Main] = NULL /\ UNCHANGED taken
           \/ /\ taken # accepted /\ qchunk'[Main] \in Chunks
              /\ taken' = Append(taken, qchunk'[Main])
        /\ UNCHANGED <<alive, teardown, accepted>>
     \/ /\ qpc[Main] = "nb_dec" /\ qchunk[Main] # NULL
        /\ qpc'[Main] = "nb_inc"
        /\ UNCHANGED <<alive, teardown, taken, accepted>>
     \/ /\ qpc[Main] = "nb_dec" /\ qchunk[Main] = NULL
        /\ qpc'[Main] = "idle" /\ taken = accepted
        /\ alive' = FALSE /\ teardown' = FALSE
        /\ UNCHANGED <<taken, accepted>>

(* The list is empty exactly when everything accepted has been taken.      *)
LEMMA EmptyList ==
  ASSUME QueueInv
  PROVE  /\ Len(taken) = Len(accepted) => taken = accepted
         /\ head # NULL => taken # accepted /\ head \in Chunks
BY ChunksAssumption DEF QueueInv, QueueTypeOK, LinkedInOrder, ChunkOrNull

(* A step of the main thread inside the queue has such an effect.          *)
LEMMA MainStepEffect ==
  ASSUME QueueInv, QueueStep(Main)
  PROVE  MainEffect
<1> USE ThreadFacts
<1>1. qpc \in [Threads -> QLabels] /\ qchunk \in [Threads -> ChunkOrNull]
  BY DEF QueueInv, QueueTypeOK
<1>2. CASE PushSize(Main)
  BY <1>1, <1>2 DEF PushSize, MainEffect, hist
<1>3. CASE PushLink(Main) \/ FinSignal(Main)
  <2>1. PICK label \in {"idle", "fin_used"} :
          /\ qpc' \in Signalled([qpc EXCEPT ![Main] = label], "pop_wait",
                                "pop_woken")
          /\ label = "idle" => PushLink(Main)
          /\ label = "fin_used" => FinSignal(Main)
    BY <1>3 DEF PushLink, LinkTail, FinSignal, SignalCond
  <2> DEFINE pc == [qpc EXCEPT ![Main] = label]
  <2>2. /\ pc \in [Threads -> QLabels] /\ "pop_woken" \in QLabels
        /\ pc[Main] = label /\ pc[Sub] = qpc[Sub]
    BY <1>1 DEF QLabels, PopInside
  <2>3. qpc' \in Signalled(pc, "pop_wait", "pop_woken")
    BY <2>1
  <2> HIDE DEF pc
  <2>4. \A u \in Threads : \/ qpc'[u] = pc[u]
                           \/ pc[u] = "pop_wait" /\ qpc'[u] = "pop_woken"
    BY <2>2, <2>3, SignalMovesSleepers
  <2>5. /\ qpc'[Main] = label
        /\ \/ qpc'[Sub] = qpc[Sub]
           \/ qpc[Sub] = "pop_wait" /\ qpc'[Sub] = "pop_woken"
    BY <2>2, <2>4
  <2>6. CASE label = "idle"
    BY <1>1, <2>1, <2>5, <2>6 DEF PushLink, LinkTail, MainEffect
  <2>7. CASE label = "fin_used"
    BY <1>1, <2>1, <2>5, <2>7 DEF FinSignal, MainEffect, hist
  <2>8. QED
    BY <2>6, <2>7
<1>4. CASE FinUsed(Main) \/ NbInc(Main)
  BY <1>1, <1>4 DEF FinUsed, NbInc, UseIncrement, MainEffect, hist
<1>5. CASE NbTake(Main)
  BY <1>1, <1>5, EmptyList DEF NbTake, Unlink, MainEffect, hist
<1>6. CASE NbDec(Main)
  <2>1. \A u \in Threads, label \in {"idle", "nb_inc"} :
          [qpc EXCEPT ![Main] = label][u] # "fin_wait"
    BY <1>1 DEF QueueInv, Roles, PopInside
  <2>2. qpc' = [qpc EXCEPT ![Main] = IF qchunk[Main] # NULL THEN "nb_inc"
                                     ELSE "idle"]
    BY <1>6, <2>1 DEF NbDec, SignalUsed, Signalled
  <2>3. qchunk[Main] = NULL => taken = accepted
    BY <1>6, EmptyList DEF NbDec, QueueInv, DrainedAtEnd
  <2>4. QED
    BY <1>1, <1>6, <2>2, <2>3 DEF NbDec, MainEffect, hist
<1>7. ~PopInc(Main) /\ ~PopTake(Main) /\ ~PopWoken(Main) /\ ~PopDec(Main)
  BY DEF PopInc, UseIncrement, PopTake, PopWoken, PopDec, QueueInv, Roles,
         PopInside
<1>8. QED
  BY <1>2, <1>3, <1>4, <1>5, <1>6, <1>7 DEF QueueStep

(* The main thread inside the queue.  Draining starts when the send thread *)
(* has ended and holds nothing.                                            *)
LEMMA MainInQueueKeepsInv ==
  ASSUME SenderInv, MainInQueue
  PROVE  SenderInv'
<1> USE ThreadFacts
<1>1. QueueInv'
  BY StepKeepsInv DEF MainInQueue, SenderInv
<1>2. MainEffect
  BY MainStepEffect DEF MainInQueue, SenderInv
<1>3. /\ UNCHANGED <<keepsending, isrunning, locked, mpc, spc, mret, wire, late>>
      /\ freed' = IF MainHolds THEN Append(freed, qchunk[Main]) ELSE freed
  BY DEF MainInQueue, MainHolds
<1>4. teardown \in BOOLEAN /\ teardown' \in BOOLEAN
  BY <1>1 DEF SenderInv, QueueInv, QueueTypeOK
<1>5. /\ taken \in Seq(Chunks) /\ accepted \in Seq(Chunks)
      /\ qchunk[Main] \in ChunkOrNull
  BY DEF SenderInv, QueueInv, QueueTypeOK
<1>6. FieldTypes'
  <2>1. freed' \in Seq(Chunks)
    BY <1>3, <1>5 DEF SenderInv, FieldTypes, MainHolds, ChunkOrNull
  <2>2. QED
    BY <1>3, <2>1 DEF SenderInv, FieldTypes
<1>7. Places'
  BY <1>2, <1>3, <1>4 DEF SenderInv, Places, MainEffect
<1>8. Holding' /\ Stopping'
  BY <1>2, <1>3 DEF SenderInv, Holding, Stopping, MainEffect
<1>9. /\ qchunk[Sub] = NULL \/ taken' = taken
      /\ spc = "unborn" => taken' = taken
  <2>1. CASE taken' = taken
    BY <2>1
  <2>2. CASE qpc[Main] = "nb_take" /\ taken # accepted
    <3>1. spc = "exited"
      <4>1. teardown
        BY <2>2 DEF SenderInv, Places
      <4>2. spc = "unborn" => accepted = <<>> /\ taken = <<>>
        <5>1. spc = "unborn" => accepted = <<>>
          BY DEF SenderInv, Freeing
        <5>2. accepted = <<>> => taken = <<>>
          BY <1>5 DEF SenderInv, QueueInv, LinkedInOrder
        <5>3. QED
          BY <5>1, <5>2
      <4>3. QED
        BY <2>2, <4>1, <4>2 DEF SenderInv, Places
    <3>2. QED
      BY <3>1 DEF SenderInv, Holding
  <2>3. QED
    BY <1>2, <2>1, <2>2 DEF MainEffect
<1>10. Written'
  <2>1. CASE taken' = taken
    BY <1>2, <1>3, <2>1 DEF SenderInv, Written, MainEffect
  <2>2. CASE taken' # taken
    <3>1. spc' = "exited"
      BY <1>2, <1>3, <1>9, <2>2 DEF SenderInv, MainEffect, Places
    <3>2. QED
      BY <3>1 DEF Written
  <2>3. QED
    BY <2>1, <2>2
<1>11. Freeing'
  <2>1. (MainHolds => qchunk[Sub] = NULL)'
    <3>1. qpc'[Main] = "nb_dec" => spc \in {"unborn", "exited"}
      BY <1>2 DEF SenderInv, Places, MainEffect
    <3>2. QED
      BY <1>2, <3>1 DEF SenderInv, Holding, MainHolds, MainEffect
  <2>2. (taken = IF qchunk[Sub] # NULL THEN Append(freed, qchunk[Sub])
                 ELSE IF MainHolds THEN Append(freed, qchunk[Main])
                 ELSE freed)'
    BY <1>2, <1>3, <1>9, ChunksAssumption
       DEF SenderInv, Freeing, MainHolds, MainEffect
  <2>3. (spc = "unborn" => accepted = <<>>)'
    BY <1>2, <1>3 DEF SenderInv, Places, Freeing, MainEffect
  <2>4. (~alive => taken = accepted)'
    <3>1. ~alive => mpc # "send_push"
      BY DEF SenderInv, Freeing
    <3>2. QED
      BY <1>2, <3>1 DEF SenderInv, Freeing, MainEffect, Places
  <2>5. /\ (~alive => mpc \in {"uncreated", "create_failed", "destroy_queue",
                               "gone"})'
        /\ (mpc \in {"create_failed", "destroy_queue"} /\ qpc[Main] = "idle"
               => ~alive)'
        /\ (mpc = "gone" => ~alive)'
    BY <1>2, <1>3, <1>4 DEF SenderInv, Freeing, Places, MainEffect
  <2>6. QED
    BY <2>1, <2>2, <2>3, <2>4, <2>5 DEF Freeing
<1>12. QED
  BY <1>1, <1>6, <1>7, <1>8, <1>10, <1>11 DEF SenderInv

----------------------------------------------------------------------------
(* What a step of the send thread inside queue_pop_block does.             *)
SubEffect ==
  /\ \/ qpc'[Main] = qpc[Main]
     \/ qpc[Main] = "fin_wait" /\ qpc'[Main] = "fin_used"
  /\ qchunk'[Main] = qchunk[Main]
  /\ UNCHANGED <<alive, teardown, accepted>>
  /\ qpc[Sub] # "idle"
  /\ \/ /\ qpc'[Sub] \in {"pop_take", "pop_wait", "pop_dec"}
        /\ qpc[Sub] # "pop_dec"
        /\ qchunk'[Sub] = qchunk[Sub] /\ UNCHANGED taken
     \/ /\ qpc[Sub] # "pop_dec" /\ qpc'[Sub] = "pop_dec"
        /\ qchunk'[Sub] \in Chunks /\ taken' = Append(taken, qchunk'[Sub])
     \/ /\ qpc[Sub] = "pop_dec" /\ qpc'[Sub] = "idle"
        /\ qchunk'[Sub] = qchunk[Sub] /\ UNCHANGED taken

(* A step of the send thread inside the queue has such an effect.          *)
LEMMA SubStepEffect ==
  ASSUME QueueInv, QueueStep(Sub)
  PROVE  SubEffect
<1> USE ThreadFacts
<1>1. /\ qpc \in [Threads -> QLabels] /\ qchunk \in [Threads -> ChunkOrNull]
      /\ qpc[Sub] \in {"idle", "pop_inc"} \cup PopInside
  BY DEF QueueInv, QueueTypeOK, Roles
<1>2. CASE PopInc(Sub)
  BY <1>1, <1>2 DEF PopInc, UseIncrement, SubEffect, hist
<1>3. CASE PopTake(Sub)
  BY <1>1, <1>3, EmptyList DEF PopTake, Unlink, SubEffect, hist
<1>4. CASE PopWoken(Sub)
  BY <1>1, <1>4, EmptyList DEF PopWoken, Unlink, SubEffect, hist
<1>5. CASE PopDec(Sub)
  <2> DEFINE pc == [qpc EXCEPT ![Sub] = "idle"]
  <2>1. /\ pc \in [Threads -> QLabels] /\ "fin_used" \in QLabels
        /\ pc[Sub] = "idle" /\ pc[Main] = qpc[Main]
    BY <1>1 DEF QLabels
  <2>2. qpc' \in Signalled(pc, "fin_wait", "fin_used")
    BY <1>5 DEF PopDec, SignalUsed
  <2> HIDE DEF pc
  <2>3. \A u \in Threads : \/ qpc'[u] = pc[u]
                           \/ pc[u] = "fin_wait" /\ qpc'[u] = "fin_used"
    BY <2>1, <2>2, SignalMovesSleepers
  <2>4. /\ qpc'[Sub] = "idle"
        /\ \/ qpc'[Main] = qpc[Main]
           \/ qpc[Main] = "fin_wait" /\ qpc'[Main] = "fin_used"
    BY <2>1, <2>3
  <2>5. QED
    BY <1>5, <2>4 DEF PopDec, SubEffect, hist
<1>6. /\ ~PushSize(Sub) /\ ~PushLink(Sub) /\ ~FinSignal(Sub) /\ ~FinUsed(Sub)
      /\ ~NbInc(Sub) /\ ~NbTake(Sub) /\ ~NbDec(Sub)
  BY <1>1 DEF PushSize, PushLink, LinkTail, FinSignal, FinUsed, NbInc,
              UseIncrement, NbTake, NbDec, PopInside
<1>7. QED
  BY <1>2, <1>3, <1>4, <1>5, <1>6 DEF QueueStep

(* The send thread inside queue_pop_block.                                 *)
LEMMA SubInQueueKeepsInv ==
  ASSUME SenderInv, SubInQueue
  PROVE  SenderInv'
<1> USE ThreadFacts
<1>1. QueueInv'
  BY StepKeepsInv DEF SubInQueue, SenderInv
<1>2. SubEffect /\ UNCHANGED svars
  BY SubStepEffect DEF SubInQueue, SenderInv
<1>3. /\ spc = "popping" /\ mpc \notin {"create_failed", "destroy_queue", "gone"}
      /\ ~teardown /\ ~MainHolds
  BY <1>2 DEF SenderInv, Places, SubEffect, MainHolds
<1>4. FieldTypes'
  BY <1>2 DEF SenderInv, FieldTypes, svars
<1>5. Places' /\ Stopping'
  BY <1>2, <1>3 DEF SenderInv, Places, Stopping, SubEffect, svars
<1>6. Holding'
  BY <1>2, <1>3 DEF SenderInv, Holding, SubEffect, svars
<1>7. qpc[Sub] # "pop_dec" => qchunk[Sub] = NULL
  BY <1>2 DEF SenderInv, Holding, SubEffect
<1>8. ~MainHolds'
  BY <1>2, <1>3 DEF SubEffect, MainHolds
<1>9. Written'
  BY <1>2, <1>3, <1>7, ChunksAssumption
     DEF SenderInv, Written, SubEffect, svars
<1>10. Freeing'
  <2>1. (taken = IF qchunk[Sub] # NULL THEN Append(freed, qchunk[Sub])
                 ELSE IF MainHolds THEN Append(freed, qchunk[Main])
                 ELSE freed)'
    BY <1>2, <1>3, <1>7, <1>8, ChunksAssumption
       DEF SenderInv, Freeing, SubEffect, svars
  <2>2. alive /\ alive'
    <3>1. mpc # "uncreated"
      BY <1>3 DEF SenderInv, Places
    <3>2. QED
      BY <1>2, <1>3, <3>1 DEF SenderInv, Freeing, SubEffect
  <2>3. QED
    BY <1>2, <1>3, <1>8, <2>1, <2>2 DEF SenderInv, Freeing, SubEffect, svars
<1>11. QED
  BY <1>1, <1>4, <1>5, <1>6, <1>9, <1>10 DEF SenderInv

(* The loop of the send thread, outside the queue and the send function.   *)
LEMMA SubControlKeepsInv ==
  ASSUME SenderInv, SubLoop \/ SubPopped \/ SubBreak \/ SubExit
  PROVE  SenderInv'
<1> USE ThreadFacts
<1>1. QueueInv'
  BY QueueUnchanged, CallPopKeepsInv
     DEF SubLoop, SubPopped, SubBreak, SubExit, SenderInv
<1>2. qpc \in [Threads -> QLabels] /\ qchunk \in [Threads -> ChunkOrNull]
  BY DEF SenderInv, QueueInv, QueueTypeOK
<1>3. /\ UNCHANGED <<keepsending, locked, mpc, mret, wire, late, freed>>
      /\ UNCHANGED <<alive, teardown, accepted, taken>>
      /\ qpc'[Main] = qpc[Main] /\ qchunk'[Main] = qchunk[Main]
  BY <1>2 DEF SubLoop, SubPopped, SubBreak, SubExit, CallPop, Enter, qvars, hist
<1>4. \/ /\ spc = "loop" /\ spc' = "popping" /\ keepsending
         /\ qpc'[Sub] = "pop_inc" /\ qchunk'[Sub] = NULL
         /\ isrunning' = isrunning
      \/ /\ spc = "loop" /\ spc' = "ended" /\ isrunning' = FALSE
         /\ UNCHANGED <<qpc, qchunk>>
      \/ /\ spc = "popping" /\ qpc[Sub] = "idle"
         /\ spc' = IF qchunk[Sub] = NULL THEN "loop" ELSE "sending"
         /\ UNCHANGED <<qpc, qchunk, isrunning>>
      \/ /\ spc = "failed" /\ spc' = "ended" /\ isrunning' = FALSE
         /\ UNCHANGED <<qpc, qchunk>>
      \/ /\ spc = "ended" /\ spc' = "exited"
         /\ UNCHANGED <<qpc, qchunk, isrunning>>
  BY <1>2 DEF SubLoop, SubPopped, SubBreak, SubExit, CallPop, Enter, qvars
<1>5. FieldTypes'
  <2>1. spc' \in SubLabels
    BY <1>4 DEF SubLabels
  <2>2. isrunning' \in BOOLEAN
    BY <1>4 DEF SenderInv, FieldTypes
  <2>3. QED
    BY <1>3, <2>1, <2>2 DEF SenderInv, FieldTypes
<1>6. Places'
  BY <1>3, <1>4 DEF SenderInv, Places
<1>7. Holding' /\ Stopping'
  BY <1>3, <1>4 DEF SenderInv, Holding, Stopping, Places
<1>8. qchunk'[Sub] = qchunk[Sub]
  BY <1>4 DEF SenderInv, Holding
<1>9. Written' /\ Freeing'
  BY <1>3, <1>4, <1>8 DEF SenderInv, Written, Freeing, MainHolds
<1>10. QED
  BY <1>1, <1>5, <1>6, <1>7, <1>9 DEF SenderInv

(* The send function, whether it writes the chunk or fails; the chunk is   *)
(* destroyed in both cases.                                                *)
LEMMA SubSendKeepsInv ==
  ASSUME SenderInv, SubSend \/ SubSendFails
  PROVE  SenderInv'
<1> USE ThreadFacts
<1>1. /\ qpc \in [Threads -> QLabels] /\ qchunk \in [Threads -> ChunkOrNull]
      /\ spc = "sending" /\ FreeSubChunk
  BY DEF SenderInv, QueueInv, QueueTypeOK, SubSend, SubSendFails
<1>2. /\ UNCHANGED <<listVars, done, used, alive, qpc, qsize, teardown,
                     accepted, taken>>
      /\ qchunk'[Sub] = NULL /\ qchunk'[Main] = qchunk[Main]
      /\ qchunk' \in [Threads -> ChunkOrNull]
      /\ freed' = Append(freed, qchunk[Sub])
  BY <1>1 DEF FreeSubChunk, hist, ChunkOrNull
<1>3. qchunk[Sub] \in Chunks
  BY <1>1 DEF SenderInv, Holding, ChunkOrNull
<1>4. QueueInv'
  <2>1. LinkedInOrder' /\ PushedOnce'
    BY <1>2, FrameKeepsOrder DEF SenderInv, listVars
  <2>2. QueueTypeOK'
    BY <1>2 DEF SenderInv, QueueInv, QueueTypeOK, listVars
  <2>3. Roles' /\ PushIsFresh' /\ DrainedAtEnd'
    BY <1>2 DEF SenderInv, QueueInv, Roles, PushIsFresh, DrainedAtEnd, Fresh
  <2>4. QED
    BY <2>1, <2>2, <2>3 DEF QueueInv
<1>5. /\ UNCHANGED <<keepsending, isrunning, locked, mpc, mret>>
      /\ \/ /\ spc' = "loop" /\ wire' = Append(wire, qchunk[Sub])
            /\ late' = IF keepsending THEN late ELSE late + 1
         \/ spc' = "failed" /\ UNCHANGED <<wire, late>>
  BY DEF SubSend, SubSendFails
<1>6. late = 0
  BY <1>1 DEF SenderInv, Stopping
<1>7. FieldTypes'
  <2>1. wire' \in Seq(Chunks) /\ freed' \in Seq(Chunks)
    <3>1. wire \in Seq(Chunks) /\ freed \in Seq(Chunks)
      BY DEF SenderInv, FieldTypes
    <3>2. Append(wire, qchunk[Sub]) \in Seq(Chunks)
      BY <1>3, <3>1
    <3>3. Append(freed, qchunk[Sub]) \in Seq(Chunks)
      BY <1>3, <3>1
    <3>4. QED
      BY <1>2, <1>5, <3>1, <3>2, <3>3
  <2>2. late' \in Nat /\ spc' \in SubLabels
    BY <1>5, <1>6 DEF SubLabels
  <2>3. QED
    BY <1>5, <2>1, <2>2 DEF SenderInv, FieldTypes
<1>8. /\ mpc \notin {"uncreated", "create_failed", "destroy_queue", "gone"}
      /\ qpc[Sub] = "idle" /\ ~MainHolds
  BY <1>1 DEF SenderInv, Places, MainHolds
<1>9. Places' /\ Holding'
  BY <1>1, <1>2, <1>5, <1>8 DEF SenderInv, Places, Holding
<1>10. Stopping'
  BY <1>5, <1>6 DEF SenderInv, Stopping
<1>11. Written'
  BY <1>1, <1>2, <1>3, <1>5, ChunksAssumption DEF SenderInv, Written
<1>12. Freeing'
  BY <1>1, <1>2, <1>3, <1>5, <1>8, ChunksAssumption
     DEF SenderInv, Freeing, MainHolds
<1>13. QED
  BY <1>4, <1>7, <1>9, <1>10, <1>11, <1>12 DEF SenderInv

(* A wakeup without a signal.                                              *)
LEMMA SpuriousKeepsSenderInv ==
  ASSUME SenderInv, Spurious
  PROVE  SenderInv'
<1> USE ThreadFacts
<1>1. PICK t \in Threads : SpuriousWakeup(t) /\ UNCHANGED svars
  BY DEF Spurious
<1>2. QueueInv'
  BY <1>1, StepKeepsInv DEF SenderInv
<1>3. /\ UNCHANGED <<alive, teardown, accepted, taken, qchunk>>
      /\ \/ qpc'[Main] = qpc[Main]
         \/ qpc[Main] = "fin_wait" /\ qpc'[Main] = "fin_used"
      /\ \/ qpc'[Sub] = qpc[Sub]
         \/ qpc[Sub] = "pop_wait" /\ qpc'[Sub] = "pop_woken"
  <2>1. /\ qpc \in [Threads -> QLabels]
        /\ qpc[Main] # "pop_wait" /\ qpc[Sub] # "fin_wait"
    BY DEF SenderInv, QueueInv, QueueTypeOK, Roles, PopInside
  <2>2. QED
    BY <1>1, <2>1 DEF SpuriousWakeup, hist
<1>4. FieldTypes' /\ Places' /\ Holding'
  BY <1>1, <1>3 DEF SenderInv, FieldTypes, Places, Holding, svars
<1>5. Stopping' /\ Written' /\ Freeing'
  BY <1>1, <1>3 DEF SenderInv, Stopping, Written, Freeing, MainHolds, svars
<1>6. QED
  BY <1>2, <1>4, <1>5 DEF SenderInv

(* SenderInv is inductive: it holds before iemnet__sender_create and every *)
(* step of either thread keeps it.                                         *)
THEOREM SenderInvariant == SenderSpec => []SenderInv
<1>1. SenderInit => SenderInv
  <2> SUFFICES ASSUME SenderInit PROVE SenderInv
    OBVIOUS
  <2> USE ThreadFacts
  <2>1. QueueInv
    BY EmptyQueueInv DEF SenderInit
  <2>2. /\ qpc[Main] = "idle" /\ qpc[Sub] = "idle" /\ qchunk[Sub] = NULL
        /\ teardown = FALSE /\ accepted = <<>> /\ taken = <<>>
    BY DEF SenderInit, QueueEmpty
  <2>3. FieldTypes
    <3>1. keepsending \in BOOLEAN /\ isrunning \in BOOLEAN /\ locked \in BOOLEAN
      BY Zenon DEF SenderInit
    <3>2. QED
      BY <3>1 DEF SenderInit, FieldTypes, MainLabels, SubLabels
  <2>4. Places /\ Holding /\ Stopping
    BY <2>2 DEF SenderInit, Places, Holding, Stopping, DestroyLabels
  <2>5. Written /\ Freeing
    BY <2>2 DEF SenderInit, Written, Freeing, MainHolds
  <2>6. QED
    BY <2>1, <2>3, <2>4, <2>5 DEF SenderInv
<1>2. SenderInv /\ [SenderNext]_vars => SenderInv'
  <2> SUFFICES ASSUME SenderInv, [SenderNext]_vars PROVE SenderInv'
    OBVIOUS
  <2>1. CASE MainCall \/ MainStep
    BY <2>1, MainControlKeepsInv, MainCallKeepsInv, MainInQueueKeepsInv
       DEF MainCall, MainStep
  <2>2. CASE SubStep \/ SubSend \/ SubSendFails
    BY <2>2, SubInQueueKeepsInv, SubControlKeepsInv, SubSendKeepsInv
       DEF SubStep
  <2>3. CASE Spurious
    BY <2>3, SpuriousKeepsSenderInv
  <2>4. CASE UNCHANGED vars
    <3>1. QueueInv'
      BY <2>4, QueueUnchanged DEF vars, SenderInv
    <3>2. QED
      BY <2>4, <3>1
         DEF vars, qvars, svars, SenderInv, FieldTypes, Places, Holding,
             Stopping, Written, Freeing, MainHolds
  <2>5. QED
    BY <2>1, <2>2, <2>3, <2>4 DEF SenderNext
<1>3. QED
  BY <1>1, <1>2, PTL DEF SenderSpec

(* The sender and its threads keep their types.                            *)
THEOREM SenderTypeCorrect == SenderSpec => []SenderTypeOK
<1>1. SenderInv => SenderTypeOK
  BY DEF SenderInv, QueueInv, FieldTypes, SenderTypeOK
<1>2. QED
  BY <1>1, SenderInvariant, PTL

(* Every queued chunk is destroyed exactly once, by the send thread or by  *)
(* queue_destroy, and all of them when iemnet__sender_destroy returns.     *)
THEOREM SenderFreesOnce == SenderSpec => []ChunksFreedOnce
<1>1. SenderInv => ChunksFreedOnce
  <2> SUFFICES ASSUME SenderInv PROVE ChunksFreedOnce
    OBVIOUS
  <2> USE ThreadFacts
  <2>1. freed \in Seq(Chunks) /\ qchunk[Sub] \in ChunkOrNull
          /\ qchunk[Main] \in ChunkOrNull
    BY DEF SenderInv, FieldTypes, QueueInv, QueueTypeOK
  <2>2. \A c \in Chunks : /\ freed \o (<<c>> \o <<>>) = Append(freed, c)
                         /\ freed \o (<<>> \o <<c>>) = Append(freed, c)
    <3> TAKE c \in Chunks
    <3>1. <<c>> \in Seq(Chunks)
      OBVIOUS
    <3>2. <<c>> \o <<>> = <<c>> /\ <<>> \o <<c>> = <<c>>
      BY <3>1, ConcatEmptySeq
    <3>3. Append(freed, c) = freed \o <<c>>
      BY <2>1, AppendIsConcat
    <3>4. QED
      BY <3>2, <3>3
  <2>3. <<>> \o <<>> = <<>> /\ freed \o <<>> = freed
    BY <2>1, ConcatEmptySeq
  <2>4. freed \o InHand = IF qchunk[Sub] # NULL THEN Append(freed, qchunk[Sub])
                          ELSE IF MainHolds THEN Append(freed, qchunk[Main])
                          ELSE freed
    <3>1. MainHolds => qchunk[Sub] = NULL
      BY DEF SenderInv, Freeing
    <3>2. CASE qchunk[Sub] # NULL
      BY <2>1, <2>2, <3>1, <3>2 DEF InHand, MainHolds, ChunkOrNull
    <3>3. CASE qchunk[Sub] = NULL /\ MainHolds
      BY <2>1, <2>2, <3>3 DEF InHand, MainHolds, ChunkOrNull
    <3>4. CASE qchunk[Sub] = NULL /\ ~MainHolds
      BY <2>3, <3>4 DEF InHand, MainHolds
    <3>5. QED
      BY <3>2, <3>3, <3>4
  <2>5. mpc = "gone" => freed = accepted
    BY DEF SenderInv, Freeing, Holding, Places, MainHolds
  <2>6. QED
    BY <2>4, <2>5 DEF SenderInv, Freeing, ChunksFreedOnce
<1>2. QED
  BY <1>1, SenderInvariant, PTL

(* The queue and the sender are freed after the send thread has ended.     *)
THEOREM SenderFreedLast == SenderSpec => []FreedAfterThreadEnded
<1>1. SenderInv => FreedAfterThreadEnded
  <2> SUFFICES ASSUME SenderInv, ~alive \/ mpc = "gone"
               PROVE  spc \in {"unborn", "exited"} /\ qpc[Sub] = "idle"
    BY DEF FreedAfterThreadEnded
  <2>1. mpc \in {"uncreated", "create_failed", "destroy_queue", "gone"}
    BY DEF SenderInv, Freeing
  <2>2. QED
    BY <2>1 DEF SenderInv, Places
<1>2. QED
  BY <1>1, SenderInvariant, PTL

----------------------------------------------------------------------------
(* Queueing a chunk is Accept of the abstract path: the sender is open,    *)
(* and the chunk is a new one.                                             *)
LEMMA QueueingIsAccept ==
  ASSUME SenderInv, MainInQueue
  PROVE  [SendPathView!Next]_<<accepted, wire, SendPathPhase>>
<1> USE ThreadFacts
<1>1. UNCHANGED <<wire, SendPathPhase>>
  BY DEF MainInQueue, SendPathPhase
<1>2. CASE PushLink(Main)
  <2>1. qchunk[Main] \in Fresh /\ accepted' = Append(accepted, qchunk[Main])
    BY <1>2, PushLinkKeepsInv DEF SenderInv, PushLink, LinkTail
  <2>2. SendPathPhase = "open"
    <3>1. qpc[Main] = "push_link"
      BY <1>2 DEF PushLink, LinkTail
    <3>2. mpc = "send_push"
      BY <3>1 DEF SenderInv, Places
    <3>3. QED
      BY <3>2 DEF SenderInv, Stopping, DestroyLabels, SendPathPhase
  <2>3. SendPathView!Accept
    BY <1>1, <2>1, <2>2 DEF SendPathView!Accept, Fresh
  <2>4. QED
    BY <2>3 DEF SendPathView!Next
<1>3. CASE ~PushLink(Main)
  <2>1. UNCHANGED accepted
    BY <1>3 DEF MainInQueue, QueueStep, PushSize, PopInc, NbInc, UseIncrement,
                PopTake, PopWoken, PopDec, FinSignal, FinUsed, NbTake, NbDec,
                Unlink, hist
  <2>2. QED
    BY <1>1, <2>1
<1>4. QED
  BY <1>2, <1>3

(* Writing a chunk is Deliver: it is the oldest one not yet written, and   *)
(* after keepsending was cleared it is the only one.                       *)
LEMMA WritingIsDeliver ==
  ASSUME SenderInv, SubSend
  PROVE  SendPathView!Deliver
<1> USE ThreadFacts
<1>1. /\ taken = Append(wire, qchunk[Sub]) /\ qchunk[Sub] \in Chunks
      /\ wire \in Seq(Chunks) /\ late = 0 /\ mpc # "gone"
  BY DEF SubSend, SenderInv, Written, Holding, Stopping, Places, FieldTypes,
         QueueInv, QueueTypeOK, ChunkOrNull
<1>2. Len(taken) = Len(wire) + 1 /\ taken[Len(wire) + 1] = qchunk[Sub]
  BY <1>1, AppendProperties
<1>3. /\ accepted \in Seq(Chunks) /\ taken \in Seq(Chunks)
      /\ Len(taken) <= Len(accepted)
      /\ \A i \in 1 .. Len(taken) : taken[i] = accepted[i]
  BY DEF SenderInv, QueueInv, QueueTypeOK, LinkedInOrder
<1>4. Len(wire) < Len(accepted) /\ accepted[Len(wire) + 1] = qchunk[Sub]
  <2>1. Len(wire) \in Nat /\ Len(accepted) \in Nat
    BY <1>1, <1>3
  <2>2. QED
    BY <1>2, <1>3, <2>1
<1>5. /\ UNCHANGED <<mpc, keepsending, accepted>>
      /\ wire' = Append(wire, qchunk[Sub])
      /\ late' = IF keepsending THEN late ELSE late + 1
  BY DEF SubSend, FreeSubChunk, hist
<1>6. /\ SendPathPhase = IF keepsending THEN "open" ELSE "stopping"
      /\ SendPathPhase' = IF keepsending THEN "open" ELSE "lastsent"
  BY <1>1, <1>5 DEF SendPathPhase
<1>7. QED
  BY <1>4, <1>5, <1>6 DEF SendPathView!Deliver

(* The two-threaded sender over the pointer-level queue implements the     *)
(* path its owner relies on.                                               *)
THEOREM SenderRefinesSendPath == SenderSpec => ImplementsSendPath
<1> DEFINE Step == [SendPathView!Next]_<<accepted, wire, SendPathPhase>>
<1>1. SenderInit => SendPathView!Init
  BY DEF SenderInit, QueueEmpty, SendPathView!Init, SendPathPhase
<1>2. SenderInv /\ [SenderNext]_vars => Step
  <2> SUFFICES ASSUME SenderInv, [SenderNext]_vars PROVE Step
    OBVIOUS
  <2>1. CASE DestroyLock
    <3>1. UNCHANGED <<accepted, wire, late>>
      BY <2>1 DEF DestroyLock, FinishWhileRunning, CallFinish, hist, qvars
    <3>2. mpc = "destroy_lock" /\ keepsending /\ late = 0
      BY <2>1 DEF DestroyLock, SenderInv, Stopping
    <3>3. mpc' # "gone" /\ keepsending' = FALSE
      BY <2>1, <3>2 DEF DestroyLock, FinishWhileRunning
    <3>4. SendPathView!Stop
      BY <3>1, <3>2, <3>3 DEF SendPathView!Stop, SendPathPhase
    <3>5. QED
      BY <3>4 DEF SendPathView!Next
  <2>2. CASE CreateUndone \/ DestroyFree
    <3>1. UNCHANGED <<accepted, wire>> /\ mpc # "gone" /\ mpc' = "gone"
      BY <2>2 DEF CreateUndone, DestroyFree, qvars
    <3>2. SendPathView!Close
      BY <3>1 DEF SendPathView!Close, SendPathPhase
    <3>3. QED
      BY <3>2 DEF SendPathView!Next
  <2>3. CASE MainInQueue
    BY <2>3, QueueingIsAccept
  <2>4. CASE SubSend
    BY <2>4, WritingIsDeliver DEF SendPathView!Next
  <2>5. CASE \/ Create \/ CreateFails \/ SendCall \/ SendLock \/ SendReturn
             \/ SenderGetsize \/ DestroyCall \/ DestroyUnlock
             \/ DestroyRelock \/ DestroyFinished \/ DestroyJoin
    <3>1. UNCHANGED <<accepted, wire, late, keepsending>>
      BY <2>5 DEF Create, CreateFails, SendCall, SendLock, SendReturn,
                  SenderGetsize, DestroyCall, DestroyUnlock, DestroyRelock,
                  DestroyFinished, DestroyJoin, FinishWhileRunning, CallPush,
                  CallFinish, CallDestroy, QueueGetsize, hist, qvars, svars
    <3>2. mpc # "gone" /\ mpc' # "gone"
      BY <2>5 DEF Create, CreateFails, SendCall, SendLock, SendReturn,
                  SenderGetsize, DestroyCall, DestroyUnlock, DestroyRelock,
                  DestroyFinished, DestroyJoin, FinishWhileRunning, svars
    <3>3. QED
      BY <3>1, <3>2 DEF SendPathPhase
  <2>6. CASE SubStep \/ SubSendFails \/ Spurious \/ UNCHANGED vars
    <3>1. UNCHANGED <<accepted, wire, late, keepsending, mpc>>
      <4>1. CASE SubInQueue
        BY <4>1, SubStepEffect DEF SubInQueue, SubEffect, SenderInv, svars
      <4>2. CASE SubLoop \/ SubPopped \/ SubBreak \/ SubExit \/ SubSendFails
        BY <4>2 DEF SubLoop, SubPopped, SubBreak, SubExit, SubSendFails,
                    FreeSubChunk, CallPop, hist, qvars
      <4>3. CASE Spurious \/ UNCHANGED vars
        BY <4>3 DEF Spurious, SpuriousWakeup, hist, vars, qvars, svars
      <4>4. QED
        BY <2>6, <4>1, <4>2, <4>3 DEF SubStep
    <3>2. QED
      BY <3>1 DEF SendPathPhase
  <2>7. QED
    BY <2>1, <2>2, <2>3, <2>4, <2>5, <2>6
       DEF SenderNext, MainCall, MainStep
<1>3. QED
  BY <1>1, <1>2, SenderInvariant, PTL
     DEF SenderSpec, ImplementsSendPath, SendPathView!Spec

=============================================================================
