--------------------------- MODULE ConnTrackProofs ---------------------------
(***************************************************************************)
(* What TLAPS proves about the connection tracker, for every set of        *)
(* addresses, ports, protocols and flags, every limit and every timeout.   *)
(***************************************************************************)
EXTENDS ConnTrack, FiniteSetTheorems, TLAPS

-----------------------------------------------------------------------------
(* The limits the tracker works with are positive, whatever it was given   *)
(* (NewConnectionTracker).                                                 *)
LEMMA LimitsPositive == maxFlows \in Nat \ {0} /\ flowTimeout \in Nat \ {0}
BY ConnTrackAssumption DEF maxFlows, flowTimeout

(* A key is canonical when its first endpoint does not come after its      *)
(* second one: what CanonicalizeKey returns.                               *)
Canonical(k) ==
  \/ k.endpointA < k.endpointB
  \/ k.endpointA = k.endpointB /\ k.portA <= k.portB

(* CanonicalizeKey returns a canonical key made of what it was given.      *)
LEMMA CanonicalizeType ==
  ASSUME NEW src \in IP, NEW dst \in IP, NEW sport \in Port, NEW dport \in Port,
         NEW proto \in Proto
  PROVE  /\ CanonicalizeKey(src, dst, sport, dport, proto) \in FlowKey
         /\ Canonical(CanonicalizeKey(src, dst, sport, dport, proto))
BY ConnTrackAssumption DEF CanonicalizeKey, Key, FlowKey, Canonical

(* Both directions of a conversation get the same key, for any endpoints   *)
(* (CanonicalizeKey).                                                      *)
THEOREM CanonicalizeSymmetric ==
  ASSUME NEW src \in IP, NEW dst \in IP, NEW sport \in Port, NEW dport \in Port,
         NEW proto \in Proto
  PROVE  CanonicalizeKey(src, dst, sport, dport, proto)
           = CanonicalizeKey(dst, src, dport, sport, proto)
BY ConnTrackAssumption DEF CanonicalizeKey, Key

(* Only a canonical key that is its own mirror has a canonical mirror.     *)
LEMMA CanonicalMirror ==
  ASSUME NEW k \in FlowKey, Canonical(k), Canonical(Mirror(k))
  PROVE  Mirror(k) = k
<1>1. k.endpointA \in Nat /\ k.endpointB \in Nat /\ k.portA \in Nat /\ k.portB \in Nat
  BY ConnTrackAssumption DEF FlowKey
<1>2. k.endpointA = k.endpointB /\ k.portA = k.portB
  BY <1>1 DEF Canonical, Mirror, Key
<1>3. QED
  BY <1>2 DEF Mirror, Key, FlowKey

-----------------------------------------------------------------------------
(* The state of a new flow is one of the states, for any protocol and      *)
(* flags (RecordPacket).                                                   *)
LEMMA InitialStateType ==
  ASSUME NEW proto, NEW flags
  PROVE  InitialState(proto, flags) \in FlowState
BY DEF InitialState, FlowState

(* So is that of a flow after one more packet (RecordPacket).              *)
LEMMA NextStateType ==
  ASSUME NEW state \in FlowState, NEW proto, NEW flags
  PROVE  NextState(state, proto, flags) \in FlowState
BY DEF NextState, FlowState

(* The sets of keys MakeRoom offers are subsets of the tracked keys with   *)
(* a free slot.                                                            *)
LEMMA MakeRoomLeavesASlot ==
  ASSUME TypeOK, Bounded, NEW kept \in MakeRoom
  PROVE  /\ kept \subseteq DOMAIN flows
         /\ IsFiniteSet(kept)
         /\ Cardinality(kept) < maxFlows
<1>1. IsFiniteSet(DOMAIN flows) /\ Cardinality(DOMAIN flows) \in Nat
  BY FS_CardinalityType DEF TypeOK
<1>2. FreshKeys \subseteq DOMAIN flows
  BY DEF FreshKeys
<1>3. /\ IsFiniteSet(FreshKeys)
      /\ Cardinality(FreshKeys) \in Nat
      /\ Cardinality(FreshKeys) <= Cardinality(DOMAIN flows)
  BY <1>1, <1>2, FS_Subset, FS_CardinalityType
<1>4. CASE Cardinality(DOMAIN flows) < maxFlows
  BY <1>1, <1>4 DEF MakeRoom
<1>5. CASE ~(Cardinality(DOMAIN flows) < maxFlows) /\ Cardinality(FreshKeys) < maxFlows
  BY <1>2, <1>3, <1>5 DEF MakeRoom
<1>6. CASE ~(Cardinality(DOMAIN flows) < maxFlows) /\ ~(Cardinality(FreshKeys) < maxFlows)
  <2>1. PICK k \in OldestOf(FreshKeys) : kept = FreshKeys \ {k}
    BY <1>6 DEF MakeRoom
  <2>2. k \in FreshKeys
    BY <2>1 DEF OldestOf
  <2>3. /\ IsFiniteSet(kept)
        /\ Cardinality(kept) = Cardinality(FreshKeys) - 1
    BY <1>3, <2>1, <2>2, FS_RemoveElement
  <2>4. Cardinality(FreshKeys) <= maxFlows
    BY <1>1, <1>3, LimitsPositive DEF Bounded
  <2>5. QED
    BY <1>2, <1>3, <2>1, <2>3, <2>4, LimitsPositive
<1>7. QED
  BY <1>4, <1>5, <1>6

-----------------------------------------------------------------------------
(* A flow is first seen before it is last seen, and never in the future,   *)
(* so Duration is not negative and idle times are not either.              *)
SeenInOrder ==
  \A k \in DOMAIN flows :
    flows[k].firstSeen <= flows[k].lastSeen /\ flows[k].lastSeen <= now

(* The inductive invariant: a tracked flow is well formed, its key is      *)
(* canonical, its times are in order, and there are at most maxFlows.      *)
IInv ==
  /\ TypeOK
  /\ Bounded
  /\ SeenInOrder
  /\ \A k \in DOMAIN flows : Canonical(k)

(* The empty table satisfies the invariant (NewConnectionTracker).         *)
LEMMA InitEstablishes == Init => IInv
<1> SUFFICES ASSUME Init PROVE IInv
  OBVIOUS
<1>1. DOMAIN flows = {}
  BY DEF Init
<1>2. IsFiniteSet(DOMAIN flows) /\ Cardinality(DOMAIN flows) = 0
  BY <1>1, FS_EmptySet
<1>3. TypeOK
  BY <1>1, <1>2 DEF Init, TypeOK
<1>4. Bounded
  BY <1>2, LimitsPositive DEF Bounded
<1>5. QED
  BY <1>1, <1>3, <1>4 DEF IInv, SeenInOrder

(* RecordPacket on a new conversation keeps the invariant.                 *)
LEMMA CreateFlowPreserves ==
  ASSUME IInv, NEW key \in FlowKey, Canonical(key), NEW flags,
         CreateFlow(key, flags)
  PROVE  IInv'
<1>1. PICK kept \in MakeRoom :
        flows' = [k \in kept \cup {key} |->
                    IF k = key THEN NewFlow(key.protocol, flags) ELSE flows[k]]
  BY DEF CreateFlow
<1>2. /\ kept \subseteq DOMAIN flows
      /\ IsFiniteSet(kept)
      /\ Cardinality(kept) < maxFlows
  BY MakeRoomLeavesASlot DEF IInv
<1>3. DOMAIN flows' = kept \cup {key} /\ now' = now
  BY <1>1 DEF CreateFlow
<1>4. /\ IsFiniteSet(kept \cup {key})
      /\ Cardinality(kept \cup {key}) <= Cardinality(kept) + 1
      /\ Cardinality(kept) \in Nat
  <2>1. Cardinality(kept) \in Nat
    BY <1>2, FS_CardinalityType
  <2>2. /\ IsFiniteSet(kept \cup {key})
        /\ \/ Cardinality(kept \cup {key}) = Cardinality(kept)
           \/ Cardinality(kept \cup {key}) = Cardinality(kept) + 1
    BY <1>2, FS_AddElement
  <2>3. QED
    BY <2>1, <2>2
<1>5. flows'[key] = NewFlow(key.protocol, flags)
  BY <1>1
<1>6. ASSUME NEW k \in kept \cup {key}, k # key
      PROVE  k \in DOMAIN flows /\ flows'[k] = flows[k]
  BY <1>1, <1>2, <1>6
<1>7. NewFlow(key.protocol, flags) \in Flow
  BY InitialStateType DEF IInv, TypeOK, NewFlow, Flow
<1>8. TypeOK'
  <2>1. \A k \in DOMAIN flows' : flows'[k] \in Flow
    BY <1>3, <1>5, <1>6, <1>7 DEF IInv, TypeOK
  <2>2. flows' = [k \in DOMAIN flows' |-> flows'[k]]
    BY <1>1, <1>3
  <2>3. QED
    BY <1>2, <1>3, <1>4, <2>1, <2>2 DEF IInv, TypeOK
<1>9. Bounded'
  <2>1. Cardinality(kept \cup {key}) \in Nat
    BY <1>4, FS_CardinalityType
  <2>2. QED
    BY <1>2, <1>3, <1>4, <2>1, LimitsPositive DEF Bounded
<1>10. SeenInOrder'
  BY <1>3, <1>5, <1>6 DEF IInv, TypeOK, SeenInOrder, NewFlow
<1>11. (\A k \in DOMAIN flows : Canonical(k))'
  BY <1>3, <1>6 DEF IInv
<1>12. QED
  BY <1>8, <1>9, <1>10, <1>11 DEF IInv

(* RecordPacket on a known conversation keeps the invariant.               *)
LEMMA UpdateFlowPreserves ==
  ASSUME IInv, NEW key \in FlowKey, NEW flags, UpdateFlow(key, flags)
  PROVE  IInv'
<1>1. /\ key \in DOMAIN flows
      /\ now' = now
      /\ flows' = [flows EXCEPT ![key] = UpdatedFlow(@, key.protocol, flags)]
  BY DEF UpdateFlow
<1>2. DOMAIN flows' = DOMAIN flows
  BY <1>1
<1>3. flows[key] \in Flow
  BY <1>1 DEF IInv, TypeOK
<1>4. /\ UpdatedFlow(flows[key], key.protocol, flags) \in Flow
      /\ UpdatedFlow(flows[key], key.protocol, flags).firstSeen = flows[key].firstSeen
      /\ UpdatedFlow(flows[key], key.protocol, flags).lastSeen = now
  <2>1. NextState(flows[key].state, key.protocol, flags) \in FlowState
    BY <1>3, NextStateType DEF Flow
  <2>2. now \in Nat /\ flows[key].packets + 1 \in Nat
    BY <1>3 DEF Flow, IInv, TypeOK
  <2>3. QED
    BY <1>3, <2>1, <2>2 DEF UpdatedFlow, Flow
<1>5. TypeOK'
  BY <1>1, <1>2, <1>4 DEF IInv, TypeOK
<1>6. SeenInOrder'
  <2>1. flows[key].firstSeen <= now
    BY <1>1, <1>3 DEF IInv, TypeOK, SeenInOrder, Flow
  <2>2. QED
    BY <1>1, <1>2, <1>4, <2>1 DEF IInv, TypeOK, SeenInOrder
<1>7. Bounded' /\ (\A k \in DOMAIN flows : Canonical(k))'
  BY <1>2 DEF IInv, Bounded
<1>8. QED
  BY <1>5, <1>6, <1>7 DEF IInv

(* EvictStale keeps the invariant.                                         *)
LEMMA EvictStalePreserves ==
  ASSUME IInv, EvictStale
  PROVE  IInv'
<1>1. FreshKeys \subseteq DOMAIN flows
  BY DEF FreshKeys
<1>2. DOMAIN flows' = FreshKeys /\ now' = now /\ \A k \in FreshKeys : flows'[k] = flows[k]
  BY DEF EvictStale
<1>3. /\ IsFiniteSet(FreshKeys)
      /\ Cardinality(FreshKeys) \in Nat
      /\ Cardinality(DOMAIN flows) \in Nat
      /\ Cardinality(FreshKeys) <= Cardinality(DOMAIN flows)
  BY <1>1, FS_Subset, FS_CardinalityType DEF IInv, TypeOK
<1>4. TypeOK'
  <2>1. flows' = [k \in FreshKeys |-> flows[k]]
    BY DEF EvictStale
  <2>2. QED
    BY <1>1, <1>2, <1>3, <2>1 DEF IInv, TypeOK
<1>5. Bounded'
  BY <1>2, <1>3, LimitsPositive DEF IInv, Bounded
<1>6. SeenInOrder' /\ (\A k \in DOMAIN flows : Canonical(k))'
  BY <1>1, <1>2 DEF IInv, SeenInOrder
<1>7. QED
  BY <1>4, <1>5, <1>6 DEF IInv

(* So does the passage of time.                                            *)
LEMMA TickPreserves ==
  ASSUME IInv, Tick
  PROVE  IInv'
<1>1. flows' = flows /\ now' = now + 1 /\ now \in Nat
  BY DEF Tick, IInv, TypeOK
<1>2. TypeOK' /\ Bounded' /\ (\A k \in DOMAIN flows : Canonical(k))'
  BY <1>1 DEF IInv, TypeOK, Bounded
<1>3. SeenInOrder'
  <2>1. \A k \in DOMAIN flows : flows[k].lastSeen \in Nat
    BY DEF IInv, TypeOK, Flow
  <2>2. QED
    BY <1>1, <2>1 DEF IInv, SeenInOrder
<1>4. QED
  BY <1>2, <1>3 DEF IInv

(* Every step keeps the invariant.                                         *)
LEMMA NextPreserves == IInv /\ [Next]_vars => IInv'
<1> SUFFICES ASSUME IInv, [Next]_vars PROVE IInv'
  OBVIOUS
<1>1. ASSUME NEW src \in IP, NEW dst \in IP, NEW sport \in Port, NEW dport \in Port,
             NEW proto \in Proto, NEW flags \in FlagsOf(proto),
             RecordPacket(src, dst, sport, dport, proto, flags)
      PROVE  IInv'
  <2> DEFINE key == CanonicalizeKey(src, dst, sport, dport, proto)
  <2>1. key \in FlowKey /\ Canonical(key)
    BY CanonicalizeType
  <2>2. CreateFlow(key, flags) \/ UpdateFlow(key, flags)
    BY <1>1 DEF RecordPacket
  <2> HIDE DEF key
  <2>3. QED
    BY <2>1, <2>2, CreateFlowPreserves, UpdateFlowPreserves
<1>2. CASE EvictStale
  BY <1>2, EvictStalePreserves
<1>3. CASE Tick
  BY <1>3, TickPreserves
<1>4. CASE UNCHANGED vars
  BY <1>4 DEF vars, IInv, TypeOK, Bounded, SeenInOrder
<1>5. QED
  BY <1>1, <1>2, <1>3, <1>4 DEF Next

(* The inductive invariant holds in every reachable state.                 *)
THEOREM InductiveInvariant == Spec => []IInv
BY InitEstablishes, NextPreserves, PTL DEF Spec

-----------------------------------------------------------------------------
(* Every tracked flow is well formed, and the table is finite.             *)
THEOREM TypeCorrect == Spec => []TypeOK
<1>1. IInv => TypeOK
  BY DEF IInv
<1>2. QED
  BY <1>1, InductiveInvariant, PTL

(* The table never outgrows its limit, for any limit given to              *)
(* NewConnectionTracker, zero and negative ones included.                  *)
THEOREM NeverOverCapacity == Spec => []Bounded
<1>1. IInv => Bounded
  BY DEF IInv
<1>2. QED
  BY <1>1, InductiveInvariant, PTL

(* No conversation is ever counted under two keys.                         *)
THEOREM OneFlowEach == Spec => []OneFlowPerConversation
<1>1. IInv => OneFlowPerConversation
  BY CanonicalMirror DEF IInv, TypeOK, OneFlowPerConversation
<1>2. QED
  BY <1>1, InductiveInvariant, PTL

(* The duration and the idle time of a flow are never negative.            *)
THEOREM TimesInOrder == Spec => []SeenInOrder
<1>1. IInv => SeenInOrder
  BY DEF IInv
<1>2. QED
  BY <1>1, InductiveInvariant, PTL

-----------------------------------------------------------------------------
(* Dropping one flow is the last resort, and takes one of the oldest.      *)
LEMMA RemovedToMakeRoom ==
  ASSUME IInv, NEW key \in FlowKey, NEW flags, CreateFlow(key, flags)
  PROVE  RemovalIsJustified
<1>1. PICK kept \in MakeRoom : DOMAIN flows' = kept \cup {key}
  BY DEF CreateFlow
<1>2. key \notin DOMAIN flows
  BY DEF CreateFlow
<1>3. FreshKeys = {k \in DOMAIN flows : ~(now - flows[k].lastSeen > flowTimeout)}
  BY DEF FreshKeys, Stale
<1>4. CASE kept = DOMAIN flows \/ kept = FreshKeys
  BY <1>1, <1>3, <1>4 DEF RemovalIsJustified
<1>5. CASE /\ ~(Cardinality(DOMAIN flows) < maxFlows)
           /\ ~(Cardinality(FreshKeys) < maxFlows)
           /\ \E k \in OldestOf(FreshKeys) : kept = FreshKeys \ {k}
  <2>1. PICK k \in OldestOf(FreshKeys) : kept = FreshKeys \ {k}
    BY <1>5
  <2>2. IsFiniteSet(DOMAIN flows) /\ Cardinality(DOMAIN flows) \in Nat
    BY FS_CardinalityType DEF IInv, TypeOK
  <2>3. Cardinality(DOMAIN flows) = maxFlows
    BY <1>5, <2>2, LimitsPositive DEF IInv, Bounded
  <2>4. FreshKeys = DOMAIN flows
    <3>1. FreshKeys \subseteq DOMAIN flows
      BY <1>3
    <3>2. Cardinality(FreshKeys) \in Nat
      BY <3>1, <2>2, FS_Subset, FS_CardinalityType
    <3>3. Cardinality(FreshKeys) <= Cardinality(DOMAIN flows)
      BY <3>1, <2>2, FS_Subset
    <3>4. Cardinality(FreshKeys) = Cardinality(DOMAIN flows)
      BY <1>5, <2>2, <2>3, <3>2, <3>3, LimitsPositive
    <3>5. QED
      BY <2>2, <3>1, <3>4, FS_Subset
  <2>5. \A j \in DOMAIN flows : now - flows[j].lastSeen <= now - flows[k].lastSeen
    <3>1. \A j \in DOMAIN flows : flows[j].lastSeen \in Nat
      BY DEF IInv, TypeOK, Flow
    <3>2. k \in DOMAIN flows /\ \A j \in DOMAIN flows : flows[k].lastSeen <= flows[j].lastSeen
      BY <2>1, <2>4 DEF OldestOf
    <3>3. now \in Nat
      BY DEF IInv, TypeOK
    <3>4. QED
      BY <3>1, <3>2, <3>3
  <2>6. k \in DOMAIN flows
    BY <2>1, <2>4 DEF OldestOf
  <2>7. DOMAIN flows \ DOMAIN flows' = {k}
    BY <1>1, <1>2, <2>1, <2>4, <2>6
  <2>8. QED
    BY <2>3, <2>5, <2>7 DEF RemovalIsJustified
<1>6. QED
  BY <1>1, <1>4, <1>5 DEF MakeRoom

(* A flow leaves the table only because it timed out, or because the table *)
(* was full of live flows and it was one of the least recent.              *)
THEOREM OnlyJustifiedRemovals == Spec => RemovalsAreJustified
<1>1. IInv /\ [Next]_vars => [RemovalIsJustified]_vars
  <2> SUFFICES ASSUME IInv, [Next]_vars PROVE RemovalIsJustified \/ UNCHANGED vars
    OBVIOUS
  <2>1. ASSUME NEW src \in IP, NEW dst \in IP, NEW sport \in Port, NEW dport \in Port,
               NEW proto \in Proto, NEW flags \in FlagsOf(proto),
               RecordPacket(src, dst, sport, dport, proto, flags)
        PROVE  RemovalIsJustified
    <3> DEFINE key == CanonicalizeKey(src, dst, sport, dport, proto)
    <3>1. key \in FlowKey
      BY CanonicalizeType
    <3>2. CreateFlow(key, flags) \/ UpdateFlow(key, flags)
      BY <2>1 DEF RecordPacket
    <3> HIDE DEF key
    <3>3. CASE UpdateFlow(key, flags)
      BY <3>3 DEF UpdateFlow, RemovalIsJustified
    <3>4. QED
      BY <3>1, <3>2, <3>3, RemovedToMakeRoom
  <2>2. CASE EvictStale
    BY <2>2 DEF EvictStale, FreshKeys, Stale, RemovalIsJustified
  <2>3. CASE Tick
    BY <2>3 DEF Tick, RemovalIsJustified
  <2>4. QED
    BY <2>1, <2>2, <2>3 DEF Next
<1>2. QED
  BY <1>1, InductiveInvariant, PTL DEF Spec, RemovalsAreJustified
=============================================================================
