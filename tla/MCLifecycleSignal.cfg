\* A signal before the screen is there is lost.
SPECIFICATION Spec
CONSTANTS
  w1 = w1
  Worker <- MCWorker
  QueueCap = 1
  MaxPackets = 0
  CommandLine <- OneCommandLine
  DeviceLists <- OneDevice
  Capturable = {"a"}
  MaxSignals = 2
PROPERTIES SignalEndsProgram
CHECK_DEADLOCK FALSE
