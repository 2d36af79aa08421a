\* Four packets for a channel of two and two workers: the channel fills up,
\* drops, and the workers overtake each other.  A stopped engine takes no step.
SPECIFICATION FairSpec
CONSTANTS
  w1 = w1
  w2 = w2
  Worker <- MCWorker
  QueueCap = 2
  MaxPackets = 4
INVARIANTS TypeOK EveryPacketInOnePlace NoSendOnClosed DrainedOnQuit ReorderingIsBounded
PROPERTIES QuietAfterStop StopTerminates AcceptedIsProcessed
CHECK_DEADLOCK FALSE
