------------------------------- MODULE Sender -------------------------------
(***************************************************************************)
(* One t_iemnet_sender (iemnet_sender.c): the main thread that creates it, *)
(* sends through it and destroys it, and its send thread, over the queue   *)
(* of module Queue.                                                        *)
(*                                                                         *)
(* s->mtx is held across a blocking call only by iemnet__sender_destroy,   *)
(* which runs queue_finish under it; every other region under s->mtx is    *)
(* one step that needs the mutex to be free.                               *)
(***************************************************************************)
EXTENDS Queue

CONSTANT Sub   \* the send thread

ASSUME SubAssumption == Consumers = {Sub}

VARIABLES
  keepsending, isrunning, \* the fields of the sender
  locked,   \* the main thread holds s->mtx
  mpc,      \* where the main thread is inside a sender function
  spc,      \* where the send thread is
  mret,     \* what iemnet__sender_send returned last
  wire,     \* history: chunks the send function wrote, in order
  late,     \* history: how many of them after keepsending was cleared
  freed     \* history: chunks given to iemnet__chunk_destroy, in order

svars == <<keepsending, isrunning, locked, mpc, spc, mret, wire, late, freed>>
vars == <<qvars, svars>>

DestroyLabels == {"destroy_lock", "destroy_finish", "destroy_relock",
                  "destroy_finish2", "destroy_join", "destroy_queue"}
MainLabels == {"uncreated", "create_failed", "ready", "send_lock", "send_push",
               "gone"} \cup DestroyLabels
SubLabels == {"unborn", "loop", "popping", "sending", "failed", "ended",
              "exited"}

----------------------------------------------------------------------------
SenderInit ==
  /\ QueueEmpty /\ alive = FALSE
  /\ keepsending = TRUE /\ isrunning = TRUE
  /\ locked = FALSE
  /\ mpc = "uncreated" /\ spc = "unborn"
  /\ mret = 0
  /\ wire = <<>> /\ late = 0 /\ freed = <<>>

(* iemnet__sender_create: the queue, the fields and the thread.            *)
Create ==
  /\ mpc = "uncreated"
  /\ alive' = TRUE
  /\ mpc' = "ready"
  /\ spc' = "loop"
  /\ UNCHANGED <<listVars, done, used, qpc, qchunk, qsize, teardown, hist,
                 keepsending, isrunning, locked, mret, wire, late, freed>>

(* pthread_create failed: the queue is destroyed again.                    *)
CreateFails ==
  /\ mpc = "uncreated"
  /\ alive' = TRUE
  /\ Enter(Main, "fin_signal", NULL)
  /\ teardown' = TRUE
  /\ mpc' = "create_failed"
  /\ UNCHANGED <<listVars, done, used, qsize, hist,
                 keepsending, isrunning, locked, spc, mret, wire, late, freed>>

CreateUndone ==
  /\ mpc = "create_failed" /\ qpc[Main] = "idle"
  /\ mpc' = "gone"
  /\ UNCHANGED <<qvars, keepsending, isrunning, locked, spc, mret, wire, late,
                 freed>>

(* iemnet__sender_send, with the region under s->mtx; the chunk is copied  *)
(* and the copy pushed.  The copy is NULL when there was nothing to copy.  *)
SendCall ==
  /\ mpc = "ready"
  /\ mpc' = "send_lock"
  /\ UNCHANGED <<qvars, keepsending, isrunning, locked, spc, mret, wire, late,
                 freed>>

SendLock ==
  /\ mpc = "send_lock" /\ ~locked
  /\ \/ /\ ~isrunning
        /\ mret' = -1
        /\ mpc' = "ready"
        /\ UNCHANGED qvars
     \/ /\ isrunning
        /\ \E c \in Fresh \cup {NULL} : CallPush(Main, c)
        /\ mpc' = "send_push"
        /\ UNCHANGED mret
  /\ UNCHANGED <<keepsending, isrunning, locked, spc, wire, late, freed>>

SendReturn ==
  /\ mpc = "send_push" /\ qpc[Main] = "idle"
  /\ mret' = qsize[Main]
  /\ mpc' = "ready"
  /\ UNCHANGED <<qvars, keepsending, isrunning, locked, spc, wire, late, freed>>

(* iemnet__sender_getsize *)
SenderGetsize ==
  /\ mpc = "ready"
  /\ QueueGetsize(Main)
  /\ UNCHANGED svars

(* iemnet__sender_destroy *)
DestroyCall ==
  /\ mpc = "ready"
  /\ mpc' = "destroy_lock"
  /\ UNCHANGED <<qvars, keepsending, isrunning, locked, spc, mret, wire, late,
                 freed>>

(* The loop test of while(s->isrunning), under s->mtx: queue_finish with   *)
(* the mutex held, or release it, leave the loop and finish once more.     *)
FinishWhileRunning ==
  /\ CallFinish(Main)
  /\ locked' = isrunning
  /\ mpc' = IF isrunning THEN "destroy_finish" ELSE "destroy_finish2"

(* Mutant: keepsending is not cleared.                                     *)
DestroyLockKeepsSending ==
  /\ mpc = "destroy_lock" /\ ~locked
  /\ FinishWhileRunning
  /\ UNCHANGED <<keepsending, isrunning, spc, mret, wire, late, freed>>

DestroyLock ==
  /\ mpc = "destroy_lock" /\ ~locked
  /\ IF keepsending
     THEN keepsending' = FALSE /\ FinishWhileRunning
     ELSE mpc' = "ready" /\ UNCHANGED <<qvars, locked, keepsending>>
  /\ UNCHANGED <<isrunning, spc, mret, wire, late, freed>>

DestroyUnlock ==
  /\ mpc = "destroy_finish" /\ qpc[Main] = "idle"
  /\ locked' = FALSE
  /\ mpc' = "destroy_relock"
  /\ UNCHANGED <<qvars, keepsending, isrunning, spc, mret, wire, late, freed>>

DestroyRelock ==
  /\ mpc = "destroy_relock" /\ ~locked
  /\ FinishWhileRunning
  /\ UNCHANGED <<keepsending, isrunning, spc, mret, wire, late, freed>>

DestroyFinished ==
  /\ mpc = "destroy_finish2" /\ qpc[Main] = "idle"
  /\ mpc' = "destroy_join"
  /\ UNCHANGED <<qvars, keepsending, isrunning, locked, spc, mret, wire, late,
                 freed>>

(* Mutant: pthread_join is missing.                                        *)
DestroyNoJoin ==
  /\ mpc = "destroy_join"
  /\ CallDestroy(Main)
  /\ mpc' = "destroy_queue"
  /\ UNCHANGED <<keepsending, isrunning, locked, spc, mret, wire, late, freed>>

DestroyJoin ==
  /\ mpc = "destroy_join" /\ spc = "exited"
  /\ CallDestroy(Main)
  /\ mpc' = "destroy_queue"
  /\ UNCHANGED <<keepsending, isrunning, locked, spc, mret, wire, late, freed>>

DestroyFree ==
  /\ mpc = "destroy_queue" /\ qpc[Main] = "idle"
  /\ mpc' = "gone"
  /\ UNCHANGED <<qvars, keepsending, isrunning, locked, spc, mret, wire, late,
                 freed>>

(* A step of the main thread inside the queue; queue_destroy destroys the  *)
(* chunks it drains.                                                       *)
MainInQueue ==
  /\ QueueStep(Main)
  /\ freed' = IF qpc[Main] = "nb_dec" /\ qchunk[Main] # NULL
              THEN Append(freed, qchunk[Main]) ELSE freed
  /\ UNCHANGED <<keepsending, isrunning, locked, mpc, spc, mret, wire, late>>

----------------------------------------------------------------------------
(* Mutant: the loop tests isrunning where it should test keepsending.      *)
SubLoopForever ==
  /\ spc = "loop" /\ ~locked
  /\ isrunning
  /\ CallPop(Sub)
  /\ spc' = "popping"
  /\ UNCHANGED <<isrunning, keepsending, locked, mpc, mret, wire, late, freed>>

(* iemnet__sender_sendthread: the loop test under s->mtx.                  *)
SubLoop ==
  /\ spc = "loop" /\ ~locked
  /\ \/ /\ keepsending
        /\ CallPop(Sub)
        /\ spc' = "popping"
        /\ UNCHANGED isrunning
     \/ /\ ~keepsending
        /\ isrunning' = FALSE
        /\ spc' = "ended"
        /\ UNCHANGED qvars
  /\ UNCHANGED <<keepsending, locked, mpc, mret, wire, late, freed>>

SubInQueue == QueueStep(Sub) /\ UNCHANGED svars

(* Mutant: the result of queue_pop_block is not tested for NULL.           *)
SubPoppedUntested ==
  /\ spc = "popping" /\ qpc[Sub] = "idle"
  /\ spc' = "sending"
  /\ UNCHANGED <<qvars, keepsending, isrunning, locked, mpc, mret, wire, late,
                 freed>>

SubPopped ==
  /\ spc = "popping" /\ qpc[Sub] = "idle"
  /\ spc' = IF qchunk[Sub] = NULL THEN "loop" ELSE "sending"
  /\ UNCHANGED <<qvars, keepsending, isrunning, locked, mpc, mret, wire, late,
                 freed>>

(* iemnet__chunk_destroy(c) after the send function has been called.       *)
FreeSubChunk ==
  /\ freed' = Append(freed, qchunk[Sub])
  /\ qchunk' = [qchunk EXCEPT ![Sub] = NULL]
  /\ UNCHANGED <<listVars, done, used, alive, qpc, qsize, teardown, hist>>

(* iemnet__sender_defaultsend: send or sendto takes the chunk ...          *)
SubSend ==
  /\ spc = "sending"
  /\ wire' = Append(wire, qchunk[Sub])
  /\ late' = IF keepsending THEN late ELSE late + 1
  /\ FreeSubChunk
  /\ spc' = "loop"
  /\ UNCHANGED <<keepsending, isrunning, locked, mpc, mret>>

(* Mutant: the chunk is not destroyed when sending it failed.              *)
SubSendFailsLeaks ==
  /\ spc = "sending"
  /\ spc' = "failed"
  /\ UNCHANGED <<qvars, keepsending, isrunning, locked, mpc, mret, wire, late,
                 freed>>

(* ... or reports an error, and the thread leaves its loop.                *)
SubSendFails ==
  /\ spc = "sending"
  /\ FreeSubChunk
  /\ spc' = "failed"
  /\ UNCHANGED <<keepsending, isrunning, locked, mpc, mret, wire, late>>

SubBreak ==
  /\ spc = "failed" /\ ~locked
  /\ isrunning' = FALSE
  /\ spc' = "ended"
  /\ UNCHANGED <<qvars, keepsending, locked, mpc, mret, wire, late, freed>>

(* The thread function returns, which is what pthread_join waits for.      *)
SubExit ==
  /\ spc = "ended"
  /\ spc' = "exited"
  /\ UNCHANGED <<qvars, keepsending, isrunning, locked, mpc, mret, wire, late,
                 freed>>

Spurious == \E t \in Threads : SpuriousWakeup(t) /\ UNCHANGED svars

----------------------------------------------------------------------------
MainStep ==
  \/ CreateUndone
  \/ SendLock \/ SendReturn
  \/ DestroyLock \/ DestroyUnlock \/ DestroyRelock \/ DestroyFinished
  \/ DestroyJoin \/ DestroyFree
  \/ MainInQueue

MainCall == Create \/ CreateFails \/ SendCall \/ SenderGetsize \/ DestroyCall

SubStep == SubLoop \/ SubInQueue \/ SubPopped \/ SubBreak \/ SubExit

SenderNext ==
  \/ MainCall \/ MainStep
  \/ SubStep \/ SubSend \/ SubSendFails
  \/ Spurious

SenderSpec == SenderInit /\ [][SenderNext]_vars

(* A called function keeps running.  The busy UNLOCK/LOCK loop of          *)
(* iemnet__sender_destroy releases s->mtx again and again, so that the     *)
(* send thread gets it is strong fairness.  The send function is not fair: *)
(* send(2) may block for as long as the peer does not read.                *)
SenderFairSpec ==
  SenderSpec /\ WF_vars(MainStep) /\ SF_vars(SubStep)

----------------------------------------------------------------------------
(* Type invariant of the sender and of its two threads.                    *)
SenderTypeOK ==
  /\ QueueTypeOK
  /\ keepsending \in BOOLEAN /\ isrunning \in BOOLEAN /\ locked \in BOOLEAN
  /\ mpc \in MainLabels /\ spc \in SubLabels
  /\ mret \in Int
  /\ wire \in Seq(Chunks) /\ late \in Nat /\ freed \in Seq(Chunks)

InHand ==
  (IF qchunk[Sub] # NULL THEN <<qchunk[Sub]>> ELSE <<>>)
  \o (IF qpc[Main] = "nb_dec" /\ qchunk[Main] # NULL
      THEN <<qchunk[Main]>> ELSE <<>>)

(* Every chunk iemnet__sender_send queued is destroyed exactly once, by    *)
(* the send thread or by queue_destroy: the destroyed chunks followed by   *)
(* the one a thread holds are the ones popped so far, and when             *)
(* iemnet__sender_destroy has returned all have been.                      *)
ChunksFreedOnce ==
  /\ taken = freed \o InHand
  /\ mpc = "gone" => freed = accepted

(* iemnet__sender_destroy frees the queue and the sender only when the     *)
(* send thread, which uses both, has ended.                                *)
FreedAfterThreadEnded ==
  ~alive \/ mpc = "gone" =>
    spc \in {"unborn", "exited"} /\ qpc[Sub] = "idle"

SendPathPhase ==
  IF mpc = "gone" THEN "closed"
  ELSE IF keepsending THEN "open"
  ELSE IF late = 0 THEN "stopping" ELSE "lastsent"

SendPathView == INSTANCE SendPath WITH Item <- Chunks, phase <- SendPathPhase

(* The sender with its threads implements the path its owner relies on:    *)
(* in order, nothing twice, at most one chunk written after                *)
(* iemnet__sender_destroy cleared keepsending and none after it returned.  *)
ImplementsSendPath == SendPathView!Spec

(* The finisher went to sleep on usedcond after its one signal on cond was *)
(* lost on a send thread that had not gone to sleep yet.                   *)
LostWakeup ==
  /\ done /\ qpc[Sub] = "pop_wait"
  /\ qpc[Main] \in {"fin_used", "fin_wait"}

(* iemnet__sender_destroy returns, unless the send thread is blocked in    *)
(* the send function for ever or the wakeup of queue_finish was lost.      *)
DestroyReturns ==
  mpc \in DestroyLabels ~>
    (mpc = "gone" \/ []LostWakeup \/ [](spc = "sending"))

(* A chunk iemnet__sender_send has queued reaches the socket, unless the   *)
(* sender stops or the send function blocks for ever.                      *)
QueuedIsWritten ==
  \A c \in Chunks :
    (\E i \in 1 .. Len(accepted) : accepted[i] = c) ~>
      \/ \E i \in 1 .. Len(wire) : wire[i] = c
      \/ ~isrunning \/ ~keepsending \/ spc = "failed"
      \/ [](spc = "sending")
=============================================================================
