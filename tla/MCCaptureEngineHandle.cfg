\* The handle is closed under the goroutines that use it.
SPECIFICATION FairSpec
CONSTANTS
  w1 = w1
  w2 = w2
  Worker <- MCWorker
  QueueCap = 1
  MaxPackets = 1
PROPERTIES HandleOpenWhenUsed
CHECK_DEADLOCK FALSE
