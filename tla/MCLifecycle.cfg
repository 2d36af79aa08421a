\* One worker, one packet and one signal, which may come at any time.  Every
\* interface but one fails to open, so that monitoring begins on one only.
SPECIFICATION Spec
CONSTANTS
  w1 = w1
  Worker <- MCWorker
  QueueCap = 1
  MaxPackets = 1
  CommandLine <- MCCommandLine
  DeviceLists <- MCDeviceLists
  Capturable = {"a"}
  MaxSignals = 1
INVARIANTS RunsAsAsked CleanExit
PROPERTIES QuitEnds SignalEndsInterface
CHECK_DEADLOCK FALSE
