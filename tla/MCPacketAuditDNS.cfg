\* The answer to a DNS query.
SPECIFICATION Spec
CONSTANTS
  w1 = w1
  w2 = w2
  NoPacket = NoPacket
  Worker = {w1, w2}
  Packet <- AllPackets
  Address = {1, 2}
  LocalSubnet = {1}
  MaxEvents = 20
  MaxFlows = 4
  MaxPackets = 2
SYMMETRY WorkersAlike
PROPERTIES OnlyQueriesAreLogged
CHECK_DEADLOCK FALSE
