\* One consumer, as in every iemnet sender.
CONSTANTS
  c1 = c1  c2 = c2  c3 = c3
  t1 = t1  t2 = t2
  NULL = NULL
  Main = Main
  Chunks <- MCChunks
  SizeOf <- MCSizeOf
  Consumers <- MCOneConsumer
SPECIFICATION QueueFairSpec
PROPERTY FinishUnblocksPop
CHECK_DEADLOCK FALSE
