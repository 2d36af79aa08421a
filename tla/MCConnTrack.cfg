\* Two addresses and two ports: four endpoints, so ten conversations compete
\* for two slots, the conversations of an address with itself included.  The
\* one to go is chosen between two, of which either may be the more recent.
SPECIFICATION HSpec
CONSTANTS
  IP = {1, 2}
  Port = {1, 2}
  Proto = {"TCP"}
  FlagSets <- AckOnly
  MaxFlows = 2
  FlowTimeout = 1
  MaxTime = 3
  MaxPackets = 2
INVARIANTS TypeOK Bounded OneFlowPerConversation
PROPERTIES RemovalsAreJustified LiveConversationsStay StaleFlowsLeave TableImplemented
