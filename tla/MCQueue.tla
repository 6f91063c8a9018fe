------------------------------ MODULE MCQueue ------------------------------
(* The queue with one main thread, a few consumers and chunks of different *)
(* sizes.                                                                  *)
EXTENDS Queue, TLC

CONSTANTS c1, c2, c3, t1, t2

MCChunks == {c1, c2, c3}
MCSizeOf == (c1 :> 1) @@ (c2 :> 2) @@ (c3 :> 4)
MCConsumers == {t1, t2}
MCOneConsumer == {t1}

============================================================================
