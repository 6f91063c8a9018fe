------------------------------ MODULE MCSender ------------------------------
(* One sender, its send thread and a few chunks.                           *)
EXTENDS Sender, TLC

CONSTANTS c1, c2, c3

MCChunks == {c1, c2, c3}
MCSizeOf == [c \in Chunks |-> IF c = c1 THEN 1 ELSE 2]
MCConsumers == {Sub}
=============================================================================
