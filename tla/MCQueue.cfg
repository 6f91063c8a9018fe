\* Two consumers: enough for a signal to reach the wrong one and for a chunk
\* to be taken from under a woken consumer. Three chunks: the list gets a
\* middle, and is emptied and refilled.
CONSTANTS
  c1 = c1  c2 = c2  c3 = c3
  t1 = t1  t2 = t2
  NULL = NULL
  Main = Main
  Chunks <- MCChunks
  SizeOf <- MCSizeOf
  Consumers <- MCConsumers
SPECIFICATION QueueSpec
INVARIANTS
  QueueTypeOK
  LinkedInOrder
  SizeIsQueuedBytes
  UsedCountsPoppers
  NoStrandedChunk
  FreedWhenUnused
PROPERTY ImplementsFifo
\* after queue_destroy nothing is left to do
CHECK_DEADLOCK FALSE
