\* Two packets of one host, in the hands of two workers.
SPECIFICATION Spec
CONSTANTS
  w1 = w1
  w2 = w2
  NoPacket = NoPacket
  Worker = {w1, w2}
  Packet <- MCPackets
  Address = {1, 2}
  LocalSubnet = {1}
  MaxEvents = 20
  MaxFlows = 4
  MaxPackets = 2
SYMMETRY WorkersAlike
INVARIANTS HostReadsAreSafe
CHECK_DEADLOCK FALSE
