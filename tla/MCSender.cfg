\* Three chunks: one in the hands of the send thread, two queued behind it.
CONSTANTS
  c1 = c1  c2 = c2  c3 = c3
  NULL = NULL
  Main = Main
  Sub = Sub
  Chunks <- MCChunks
  SizeOf <- MCSizeOf
  Consumers <- MCConsumers
SPECIFICATION SenderFairSpec
INVARIANTS
  SenderTypeOK
  ChunksFreedOnce
  FreedAfterThreadEnded
PROPERTIES
  ImplementsSendPath
  DestroyReturns
  QueuedIsWritten
\* a destroyed sender is gone
CHECK_DEADLOCK FALSE
