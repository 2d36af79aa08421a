\* Three of five packets of two hosts, received by two workers in every order.
SPECIFICATION Spec
CONSTANTS
  w1 = w1
  w2 = w2
  NoPacket = NoPacket
  Worker = {w1, w2}
  Packet <- MCPackets
  Address = {1, 2}
  LocalSubnet = {1}
  MaxEvents = 20
  MaxFlows = 4
  MaxPackets = 3
SYMMETRY WorkersAlike
INVARIANTS StatusIsExplained ListedAndAnnouncedOnce FingerprintIsCurrent EveryPacketIsAudited AnomaliesAccountedFor
PROPERTIES StatusNeverLowered
CHECK_DEADLOCK FALSE
