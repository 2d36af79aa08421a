\* Ten conversations take turns in a table of one slot, those of an address
\* with itself included, each observed for up to three packets.
SPECIFICATION HSpec
CONSTANTS
  IP = {1, 2}
  Port = {1, 2}
  Proto = {"TCP", "UDP"}
  FlagSets <- MCFlagSets
  MaxFlows = 1
  FlowTimeout = 1
  MaxTime = 2
  MaxPackets = 3
INVARIANTS PacketsOfBothDirections StateFollowsHistory
