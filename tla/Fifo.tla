-------------------------------- MODULE Fifo --------------------------------
(***************************************************************************)
(* What iemnet_data.h promises of the queue ("a thread safe queue (FIFO)"):*)
(* a chunk enters once, and the chunks leave in the order they entered.    *)
(***************************************************************************)
EXTENDS Naturals, Sequences

CONSTANT Item

VARIABLES entered, left

Init == entered = <<>> /\ left = <<>>

Put == /\ \E c \in Item :
            /\ \A i \in 1 .. Len(entered) : entered[i] # c
            /\ entered' = Append(entered, c)
       /\ left' = left

Get == /\ Len(left) < Len(entered)
       /\ left' = Append(left, entered[Len(left) + 1])
       /\ entered' = entered

Next == Put \/ Get

Spec == Init /\ [][Next]_<<entered, left>>
=============================================================================
