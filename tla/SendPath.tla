------------------------------ MODULE SendPath ------------------------------
(***************************************************************************)
(* What a sender promises its owner, the object that holds the socket:     *)
(* chunks reach the socket once and in the order they were accepted; once  *)
(* iemnet__sender_destroy has told the thread to stop at most one more     *)
(* chunk is written; and after it has returned, when the owner closes the  *)
(* socket, nothing is.                                                     *)
(***************************************************************************)
EXTENDS Naturals, Sequences

CONSTANT Item

VARIABLES
  accepted,  \* chunks iemnet__sender_send has queued
  wire,      \* chunks written to the socket
  phase      \* "open", "stopping", "lastsent" or "closed"

Init == accepted = <<>> /\ wire = <<>> /\ phase = "open"

Accept == /\ phase = "open"
          /\ \E c \in Item :
               /\ \A i \in 1 .. Len(accepted) : accepted[i] # c
               /\ accepted' = Append(accepted, c)
          /\ UNCHANGED <<wire, phase>>

Deliver == /\ phase \in {"open", "stopping"}
           /\ Len(wire) < Len(accepted)
           /\ wire' = Append(wire, accepted[Len(wire) + 1])
           /\ phase' = IF phase = "open" THEN "open" ELSE "lastsent"
           /\ UNCHANGED accepted

Stop == phase = "open" /\ phase' = "stopping" /\ UNCHANGED <<accepted, wire>>

Close == /\ phase \in {"open", "stopping", "lastsent"}
         /\ phase' = "closed"
         /\ UNCHANGED <<accepted, wire>>

Next == Accept \/ Deliver \/ Stop \/ Close

Spec == Init /\ [][Next]_<<accepted, wire, phase>>
=============================================================================
