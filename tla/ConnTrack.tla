------------------------------ MODULE ConnTrack ------------------------------
(***************************************************************************)
(* The connection tracker (conntrack.go): a table of bidirectional flows   *)
(* bounded by maxFlows, from which idle flows are evicted.                 *)
(*                                                                         *)
(* Every exported method of ConnectionTracker holds ct.mu from its first   *)
(* access to ct.flows to its return, and reads the clock under that lock,  *)
(* so a call is one action.  The four worker goroutines of the engine are  *)
(* the callers of RecordPacket, in any order, and the maintenance loop is  *)
(* the caller of EvictStale.                                               *)
(*                                                                         *)
(* Abstractions: an address is its position in the order of bytes.Compare, *)
(* a packet's TCP flags are the set of the flags that are up, time is a    *)
(* natural number, and the byte volume, which moves in step with the       *)
(* packet count, is left out.  The key string that indexes ct.flows is     *)
(* the key itself: FlowKey.String prints all five components.              *)
(***************************************************************************)
EXTENDS Integers, FiniteSets

CONSTANTS
  IP,          \* addresses, as positions in the order of bytes.Compare
  Port,        \* port numbers
  Proto,       \* protocol names given to RecordPacket
  FlagSets,    \* the flag combinations of the observed TCP segments
  MaxFlows,    \* maxFlows, as given to NewConnectionTracker
  FlowTimeout, \* timeout, as given to NewConnectionTracker
  MaxTime,     \* bound: the clock stops here
  MaxPackets   \* bound: packets counted on one flow

TCPFlag == {"SYN", "ACK", "FIN", "RST"}

ASSUME ConnTrackAssumption ==
  /\ IP \subseteq Nat
  /\ Port \subseteq Nat
  /\ FlagSets \subseteq SUBSET TCPFlag
  /\ MaxFlows \in Int
  /\ FlowTimeout \in Int
  /\ MaxTime \in Nat
  /\ MaxPackets \in Nat

VARIABLES
  flows,  \* ct.flows: from the tracked keys to their flows
  now     \* the clock that time.Now reads

vars == <<flows, now>>

-----------------------------------------------------------------------------
(* NewConnectionTracker replaces limits that are not positive.             *)

maxFlows == IF MaxFlows <= 0 THEN 5000 ELSE MaxFlows

flowTimeout == IF FlowTimeout <= 0 THEN 30 ELSE FlowTimeout

FlowKey == [endpointA : IP, endpointB : IP, portA : Port, portB : Port,
            protocol : Proto]

FlowState == {"SYN_SENT", "SYN_RECV", "ESTABLISHED", "FIN_WAIT", "RESET",
              "UDP_ACTIVE", "ICMP_ACTIVE"}

Flow == [packets : Nat, state : FlowState, firstSeen : Nat, lastSeen : Nat]

-----------------------------------------------------------------------------
Key(a, b, pa, pb, proto) ==
  [endpointA |-> a, endpointB |-> b, portA |-> pa, portB |-> pb,
   protocol |-> proto]

(* Mutant: the ports are not compared when the addresses are equal.        *)
CanonicalizeByAddressOnly(src, dst, sport, dport, proto) ==
  IF src > dst THEN Key(dst, src, dport, sport, proto)
               ELSE Key(src, dst, sport, dport, proto)

CanonicalizeKey(src, dst, sport, dport, proto) ==
  IF src > dst \/ (src = dst /\ sport > dport)
    THEN Key(dst, src, dport, sport, proto)
    ELSE Key(src, dst, sport, dport, proto)

(* Mutant: without a default the state is Go's zero value.                 *)
InitialStateUnset(proto, flags) ==
  CASE proto = "TCP" /\ "SYN" \in flags /\ "ACK" \notin flags -> "SYN_SENT"
    [] proto = "TCP" /\ {"SYN", "ACK"} \subseteq flags        -> "SYN_RECV"
    [] proto = "UDP"                                          -> "UDP_ACTIVE"
    [] OTHER                                                  -> ""

(* The state a flow is created in, from its first packet.                  *)
InitialState(proto, flags) ==
  CASE proto = "TCP" /\ "SYN" \in flags /\ "ACK" \notin flags -> "SYN_SENT"
    [] proto = "TCP" /\ {"SYN", "ACK"} \subseteq flags        -> "SYN_RECV"
    [] proto = "UDP"                                          -> "UDP_ACTIVE"
    [] proto \in {"ICMP", "ICMPv4", "ICMPv6"}                 -> "ICMP_ACTIVE"
    [] OTHER                                                  -> "ESTABLISHED"

(* Mutant: the test for FIN comes before the test for RST.                 *)
FinBeforeRst(state, proto, flags) ==
  IF proto # "TCP" THEN state
  ELSE IF "FIN" \in flags THEN "FIN_WAIT"
  ELSE IF "RST" \in flags THEN "RESET"
  ELSE IF {"SYN", "ACK"} \subseteq flags THEN "ESTABLISHED"
  ELSE IF state = "SYN_SENT" /\ "ACK" \in flags THEN "ESTABLISHED"
  ELSE state

(* The state of an existing flow after one more packet: RST wins over FIN, *)
(* FIN over a SYN-ACK; a plain ACK completes only a handshake seen from    *)
(* its SYN.                                                                *)
NextState(state, proto, flags) ==
  IF proto # "TCP" THEN state
  ELSE IF "RST" \in flags THEN "RESET"
  ELSE IF "FIN" \in flags THEN "FIN_WAIT"
  ELSE IF {"SYN", "ACK"} \subseteq flags THEN "ESTABLISHED"
  ELSE IF state = "SYN_SENT" /\ "ACK" \in flags THEN "ESTABLISHED"
  ELSE state

-----------------------------------------------------------------------------
Stale(k) == now - flows[k].lastSeen > flowTimeout

(* The keys evictStaleInternal keeps.                                      *)
FreshKeys == {k \in DOMAIN flows : ~Stale(k)}

(* Mutant: the comparison of the ages is reversed.                         *)
NewestOf(S) == {k \in S : \A j \in S : flows[k].lastSeen >= flows[j].lastSeen}

(* The keys dropOldestInternal may delete from S: Go iterates over a map   *)
(* in no fixed order, so among equally old flows any can be the one.       *)
OldestOf(S) == {k \in S : \A j \in S : flows[k].lastSeen <= flows[j].lastSeen}

(* Mutant: no flow is dropped when evicting the stale ones frees no slot.  *)
EvictOnlyStale == IF Cardinality(DOMAIN flows) < maxFlows THEN {DOMAIN flows}
                                                          ELSE {FreshKeys}

(* The sets of keys that can be left once a new flow has been given room.  *)
MakeRoom ==
  IF Cardinality(DOMAIN flows) < maxFlows THEN {DOMAIN flows}
  ELSE IF Cardinality(FreshKeys) < maxFlows THEN {FreshKeys}
  ELSE {FreshKeys \ {k} : k \in OldestOf(FreshKeys)}

NewFlow(proto, flags) ==
  [packets |-> 1, state |-> InitialState(proto, flags),
   firstSeen |-> now, lastSeen |-> now]

(* Mutant: the packet of an existing flow does not refresh LastSeen.       *)
UpdatedWithoutRefresh(f, proto, flags) ==
  [packets |-> f.packets + 1, state |-> NextState(f.state, proto, flags),
   firstSeen |-> f.firstSeen, lastSeen |-> f.lastSeen]

UpdatedFlow(f, proto, flags) ==
  [packets |-> f.packets + 1, state |-> NextState(f.state, proto, flags),
   firstSeen |-> f.firstSeen, lastSeen |-> now]

(* RecordPacket on a conversation that has no flow.                        *)
CreateFlow(key, flags) ==
  /\ key \notin DOMAIN flows
  /\ \E kept \in MakeRoom :
       flows' = [k \in kept \cup {key} |->
                   IF k = key THEN NewFlow(key.protocol, flags) ELSE flows[k]]
  /\ UNCHANGED now

(* RecordPacket on a conversation that has one.                            *)
UpdateFlow(key, flags) ==
  /\ key \in DOMAIN flows
  /\ flows[key].packets < MaxPackets
  /\ flows' = [flows EXCEPT ![key] = UpdatedFlow(@, key.protocol, flags)]
  /\ UNCHANGED now

(* A call with a nil address returns at once; processPacket never makes    *)
(* one, both addresses coming from the same IP header.                     *)
RecordPacket(src, dst, sport, dport, proto, flags) ==
  LET key == CanonicalizeKey(src, dst, sport, dport, proto)
  IN  CreateFlow(key, flags) \/ UpdateFlow(key, flags)

(* Mutant: only flows that were torn down are evicted.                     *)
EvictFinished ==
  /\ flows' = [k \in {j \in DOMAIN flows :
                        ~(Stale(j) /\ flows[j].state \in {"FIN_WAIT", "RESET"})}
                 |-> flows[k]]
  /\ UNCHANGED now

EvictStale ==
  /\ flows' = [k \in FreshKeys |-> flows[k]]
  /\ UNCHANGED now

(* Time passes.                                                            *)
Tick ==
  /\ now < MaxTime
  /\ now' = now + 1
  /\ UNCHANGED flows

-----------------------------------------------------------------------------
Init ==
  /\ flows = [k \in {} |-> {}]
  /\ now = 0

(* processPacket passes the zero TCPFlags for a UDP datagram.              *)
FlagsOf(proto) == IF proto = "TCP" THEN FlagSets ELSE {{}}

Next ==
  \/ \E src, dst \in IP, sport, dport \in Port, proto \in Proto :
       \E flags \in FlagsOf(proto) :
         RecordPacket(src, dst, sport, dport, proto, flags)
  \/ EvictStale
  \/ Tick

(* The maintenance loop calls EvictStale every two seconds for as long as  *)
(* the engine runs; nothing obliges a packet to arrive.                    *)
Spec == Init /\ [][Next]_vars /\ WF_vars(EvictStale)

-----------------------------------------------------------------------------
(* Every tracked flow is well formed; the table is finite.                 *)
TypeOK ==
  /\ DOMAIN flows \subseteq FlowKey
  /\ IsFiniteSet(DOMAIN flows)
  /\ flows \in [DOMAIN flows -> Flow]
  /\ now \in Nat

(* The table never holds more flows than its limit (maxFlows), whatever    *)
(* RecordPacket has to discard to keep to it.                              *)
Bounded == Cardinality(DOMAIN flows) <= maxFlows

(* The key of the same conversation seen from its other end.               *)
Mirror(k) == Key(k.endpointB, k.endpointA, k.portB, k.portA, k.protocol)

(* A conversation has one flow: the packets of its two directions are      *)
(* never counted under two keys (CanonicalizeKey).                         *)
OneFlowPerConversation ==
  \A k \in DOMAIN flows : Mirror(k) \in DOMAIN flows => Mirror(k) = k

(* A flow leaves the table in one of two ways only: idle for longer than   *)
(* the timeout, or dropped alone from a table that was full of flows none  *)
(* of which had timed out, and then no kept flow was idle for longer       *)
(* (evictStaleInternal, dropOldestInternal).                               *)
RemovalIsJustified ==
  LET idle(k) == now - flows[k].lastSeen
      gone    == DOMAIN flows \ DOMAIN flows'
  IN  \A k \in gone :
        \/ idle(k) > flowTimeout
        \/ /\ Cardinality(DOMAIN flows) = maxFlows
           /\ gone = {k}
           /\ \A j \in DOMAIN flows : idle(j) <= idle(k)

RemovalsAreJustified == [][RemovalIsJustified]_vars

(* A flow that has timed out is evicted, or revived by a packet: it does   *)
(* not stay in the table (EvictStale, called by maintenanceLoop).          *)
StaleFlowsLeave ==
  \A k \in FlowKey :
    (k \in DOMAIN flows /\ Stale(k)) ~> ~(k \in DOMAIN flows /\ Stale(k))

-----------------------------------------------------------------------------
(* The conversation of a key, and the memory of FlowTable that the table   *)
(* stands for: the flow of a conversation is that of its key.              *)
Ends(k) == {<<k.endpointA, k.portA>>, <<k.endpointB, k.portB>>}

ConversationOf(k) == [ends |-> Ends(k), protocol |-> k.protocol]

Remembered ==
  [c \in {ConversationOf(k) : k \in DOMAIN flows} |->
     LET k == CHOOSE k \in DOMAIN flows : ConversationOf(k) = c
     IN  [packets |-> flows[k].packets, lastSeen |-> flows[k].lastSeen]]

Table == INSTANCE FlowTable WITH
  Endpoint <- IP \X Port, Protocol <- Proto, Capacity <- maxFlows,
  Timeout <- flowTimeout, memory <- Remembered, clock <- now

(* The tracker is a bounded memory of conversations without a direction:   *)
(* whatever end a packet comes from it counts for the one conversation     *)
(* that it belongs to, and the calls of RecordPacket and EvictStale forget *)
(* no other conversation than FlowTable lets them.                         *)
TableImplemented == Table!Spec
=============================================================================
