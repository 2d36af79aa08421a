------------------------- MODULE ConnTrackRefinement -------------------------
(***************************************************************************)
(* The connection tracker in terms of conversations without direction, for *)
(* every set of addresses, ports and flags, every limit and every timeout: *)
(* it implements FlowTable, and what its flows show, and that they are     *)
(* there at all, follows from what was observed (ConnTrackHistory).  Both  *)
(* rest on the inductive invariant of ConnTrackProofs: the keys of the     *)
(* table are canonical, so that they stand for different conversations.    *)
(***************************************************************************)
EXTENDS ConnTrackHistory, ConnTrackProofs, FunctionTheorems

(* Two canonical keys of the same conversation are equal.                  *)
LEMMA SameConversation ==
  ASSUME NEW k \in FlowKey, NEW j \in FlowKey, Canonical(k), Canonical(j),
         ConversationOf(k) = ConversationOf(j)
  PROVE  k = j
<1>1. Ends(k) = Ends(j) /\ k.protocol = j.protocol
  BY DEF ConversationOf
<1>2. /\ k.endpointA \in Nat /\ k.endpointB \in Nat /\ k.portA \in Nat /\ k.portB \in Nat
      /\ j.endpointA \in Nat /\ j.endpointB \in Nat /\ j.portA \in Nat /\ j.portB \in Nat
  BY ConnTrackAssumption DEF FlowKey
<1>3. \/ /\ k.endpointA = j.endpointA /\ k.portA = j.portA
         /\ k.endpointB = j.endpointB /\ k.portB = j.portB
      \/ /\ k.endpointA = j.endpointB /\ k.portA = j.portB
         /\ k.endpointB = j.endpointA /\ k.portB = j.portA
  <2>1. /\ <<k.endpointA, k.portA>> \in Ends(j)
        /\ <<k.endpointB, k.portB>> \in Ends(j)
        /\ <<j.endpointA, j.portA>> \in Ends(k)
        /\ <<j.endpointB, j.portB>> \in Ends(k)
    BY <1>1 DEF Ends
  <2>2. QED
    BY <2>1 DEF Ends
<1>4. /\ k.endpointA = j.endpointA /\ k.portA = j.portA
      /\ k.endpointB = j.endpointB /\ k.portB = j.portB
  BY <1>2, <1>3 DEF Canonical
<1>5. QED
  BY <1>1, <1>4 DEF FlowKey

Known(k) == [packets |-> flows[k].packets, lastSeen |-> flows[k].lastSeen]

Keyed == \A k \in DOMAIN flows : k \in FlowKey /\ Canonical(k)

(* What is remembered of a tracked conversation is what its flow shows.    *)
RememberedAsKnown ==
  /\ DOMAIN Remembered = {ConversationOf(k) : k \in DOMAIN flows}
  /\ Remembered = [c \in DOMAIN Remembered |-> Remembered[c]]
  /\ \A k \in DOMAIN flows : Remembered[ConversationOf(k)] = Known(k)

(* Keys name one conversation each, so nothing of a flow is mixed up.      *)
LEMMA RememberedIsKnown == Keyed => RememberedAsKnown
<1> SUFFICES ASSUME Keyed PROVE RememberedAsKnown
  OBVIOUS
<1>0. Remembered = [c \in DOMAIN Remembered |-> Remembered[c]]
  BY DEF Remembered
<1>1. DOMAIN Remembered = {ConversationOf(k) : k \in DOMAIN flows}
  BY DEF Remembered
<1>2. ASSUME NEW k \in DOMAIN flows
      PROVE  Remembered[ConversationOf(k)] = Known(k)
  <2> DEFINE chosen == CHOOSE j \in DOMAIN flows : ConversationOf(j) = ConversationOf(k)
  <2>1. chosen \in DOMAIN flows /\ ConversationOf(chosen) = ConversationOf(k)
    OBVIOUS
  <2>2. chosen = k
    BY <2>1, SameConversation DEF Keyed
  <2>3. Remembered[ConversationOf(k)] = Known(chosen)
    BY DEF Remembered, Known
  <2>4. QED
    BY <2>2, <2>3
<1>3. QED
  BY <1>0, <1>1, <1>2 DEF RememberedAsKnown

(* There are as many of them as there are flows.                           *)
LEMMA RememberedIsAsLarge ==
  ASSUME Keyed, IsFiniteSet(DOMAIN flows)
  PROVE  Cardinality(DOMAIN Remembered) = Cardinality(DOMAIN flows)
<1> DEFINE f == [k \in DOMAIN flows |-> ConversationOf(k)]
<1>1. f \in [DOMAIN flows -> DOMAIN Remembered]
  BY RememberedIsKnown DEF RememberedAsKnown
<1>2. \A k, j \in DOMAIN flows : f[k] = f[j] => k = j
  BY SameConversation DEF Keyed
<1>3. \A c \in DOMAIN Remembered : \E k \in DOMAIN flows : f[k] = c
  BY RememberedIsKnown DEF RememberedAsKnown
<1>4. f \in Bijection(DOMAIN flows, DOMAIN Remembered)
  BY <1>1, <1>2, <1>3, Fun_IsBij
<1>5. ExistsBijection(DOMAIN flows, DOMAIN Remembered)
  BY <1>4, Fun_ExistsBij
<1>6. QED
  BY <1>5, FS_Bijection

(* The inductive invariant makes the keys fit for this.                    *)
LEMMA InvariantKeys == IInv => Keyed /\ IsFiniteSet(DOMAIN flows) /\ RememberedAsKnown
BY RememberedIsKnown DEF IInv, TypeOK, Keyed

-----------------------------------------------------------------------------
(* A packet of a tracked conversation continues it.                        *)
LEMMA UpdateContinues ==
  ASSUME IInv, RememberedAsKnown', NEW key, NEW flags, UpdateFlow(key, flags)
  PROVE  Table!Continue(ConversationOf(key))
<1> DEFINE c == ConversationOf(key)
<1>1. /\ key \in DOMAIN flows /\ DOMAIN flows' = DOMAIN flows /\ now' = now
      /\ flows' = [flows EXCEPT ![key] = UpdatedFlow(@, key.protocol, flags)]
  BY DEF UpdateFlow
<1>2. Keyed /\ RememberedAsKnown
  BY InvariantKeys
<1>3. /\ c \in DOMAIN Remembered
      /\ DOMAIN Remembered' = DOMAIN Remembered
  BY <1>1, <1>2 DEF RememberedAsKnown
<1>4. Known(key)' = [packets |-> Known(key).packets + 1, lastSeen |-> now]
  BY <1>1 DEF Known, UpdatedFlow
<1>5. ASSUME NEW k \in DOMAIN flows, k # key
      PROVE  ConversationOf(k) # c /\ Remembered'[ConversationOf(k)] = Remembered[ConversationOf(k)]
  <2>1. ConversationOf(k) # c
    BY <1>1, <1>2, <1>5, SameConversation DEF Keyed
  <2>2. Known(k)' = Known(k)
    BY <1>1, <1>5 DEF Known
  <2>3. QED
    BY <1>1, <1>2, <2>1, <2>2 DEF RememberedAsKnown
<1>6. Remembered'[c] = [packets |-> Remembered[c].packets + 1, lastSeen |-> now]
  BY <1>1, <1>2, <1>4 DEF RememberedAsKnown
<1>7. \A d \in DOMAIN Remembered : d # c => Remembered'[d] = Remembered[d]
  BY <1>2, <1>5 DEF RememberedAsKnown
<1> HIDE DEF c
<1>8. Remembered' = [Remembered EXCEPT ![c] = [packets |-> @.packets + 1, lastSeen |-> now]]
  BY <1>2, <1>3, <1>6, <1>7 DEF RememberedAsKnown
<1>9. QED
  BY <1>1, <1>3, <1>8 DEF Table!Continue, c

(* The conversations of the tracked keys outside a set are those that are  *)
(* remembered but not of the set: no two keys share one.                   *)
LEMMA ConversationsOutside ==
  ASSUME IInv, NEW kept \in SUBSET DOMAIN flows
  PROVE  DOMAIN Remembered \ {ConversationOf(k) : k \in DOMAIN flows \ kept}
           = {ConversationOf(k) : k \in kept}
<1>1. Keyed /\ RememberedAsKnown
  BY InvariantKeys
<1>2. \A k \in kept, j \in DOMAIN flows \ kept : ConversationOf(k) # ConversationOf(j)
  BY <1>1, SameConversation DEF Keyed
<1>3. QED
  BY <1>1, <1>2 DEF RememberedAsKnown

(* FlowTable counts the way the tracker does.                              *)
LEMMA SameCount == \A S : Table!Cardinality(S) = Cardinality(S)
BY DEF Table!Cardinality, Cardinality

(* How long a conversation has been quiet is how long its flow was idle.   *)
LEMMA QuietIsIdle ==
  ASSUME IInv, NEW k \in DOMAIN flows
  PROVE  Table!Quiet(ConversationOf(k)) = now - flows[k].lastSeen
<1>1. Remembered[ConversationOf(k)] = Known(k)
  BY InvariantKeys DEF RememberedAsKnown
<1>2. Known(k).lastSeen = flows[k].lastSeen
  BY DEF Known
<1>3. QED
  BY <1>1, <1>2 DEF Table!Quiet

(* So the conversations that have timed out are those of the stale flows.  *)
LEMMA LateIsStale ==
  ASSUME IInv
  PROVE  {c \in DOMAIN Remembered : Table!Quiet(c) > flowTimeout}
           = {ConversationOf(k) : k \in DOMAIN flows \ FreshKeys}
<1>1. RememberedAsKnown
  BY InvariantKeys
<1>2. \A k \in DOMAIN flows : Table!Quiet(ConversationOf(k)) > flowTimeout <=> k \notin FreshKeys
  BY QuietIsIdle DEF FreshKeys, Stale
<1>3. QED
  BY <1>1, <1>2 DEF RememberedAsKnown

(* MakeRoom forgets what FlowTable lets it forget, and no more.            *)
LEMMA MakeRoomForgets ==
  ASSUME IInv, NEW kept \in MakeRoom
  PROVE  Table!Forgettable({ConversationOf(k) : k \in DOMAIN flows \ kept})
<1> DEFINE forgotten == {ConversationOf(k) : k \in DOMAIN flows \ kept}
           late      == {c \in DOMAIN Remembered : Table!Quiet(c) > flowTimeout}
<1>1. /\ RememberedAsKnown
      /\ IsFiniteSet(DOMAIN flows) /\ Cardinality(DOMAIN flows) \in Nat
      /\ Cardinality(DOMAIN Remembered) = Cardinality(DOMAIN flows)
  BY InvariantKeys, RememberedIsAsLarge, FS_CardinalityType
<1>2. late = {ConversationOf(k) : k \in DOMAIN flows \ FreshKeys}
  BY LateIsStale
<1>3. FreshKeys \subseteq DOMAIN flows
  BY DEF FreshKeys
<1>4. IsFiniteSet(FreshKeys) /\ Cardinality(FreshKeys) \in Nat
  BY <1>1, <1>3, FS_Subset, FS_CardinalityType
<1>5. CASE Cardinality(DOMAIN flows) < maxFlows
  <2>1. kept = DOMAIN flows
    BY <1>5 DEF MakeRoom
  <2>2. forgotten = {}
    BY <2>1
  <2>3. QED
    BY <1>1, <1>5, <2>2, SameCount DEF Table!Forgettable
<1>6. CASE ~(Cardinality(DOMAIN flows) < maxFlows) /\ Cardinality(FreshKeys) < maxFlows
  <2>1. kept = FreshKeys
    BY <1>6 DEF MakeRoom
  <2>2. FreshKeys # DOMAIN flows
    BY <1>6
  <2>3. late # {} /\ forgotten = late
    BY <1>2, <1>3, <2>1, <2>2
  <2>4. QED
    BY <1>1, <1>6, <2>3, SameCount DEF Table!Forgettable
<1>7. CASE ~(Cardinality(DOMAIN flows) < maxFlows) /\ ~(Cardinality(FreshKeys) < maxFlows)
  <2>1. PICK k \in OldestOf(FreshKeys) : kept = FreshKeys \ {k}
    BY <1>7 DEF MakeRoom
  <2>2. FreshKeys = DOMAIN flows
    <3>1. Cardinality(FreshKeys) <= Cardinality(DOMAIN flows)
      BY <1>1, <1>3, FS_Subset
    <3>2. Cardinality(DOMAIN flows) <= maxFlows
      BY DEF IInv, Bounded
    <3>3. Cardinality(FreshKeys) = Cardinality(DOMAIN flows)
      BY <1>1, <1>4, <1>7, <3>1, <3>2, LimitsPositive
    <3>4. QED
      BY <1>1, <1>3, <3>3, FS_Subset
  <2>3. late = {}
    BY <1>2, <2>2
  <2>4. k \in DOMAIN flows /\ \A j \in DOMAIN flows : flows[k].lastSeen <= flows[j].lastSeen
    BY <2>1, <2>2 DEF OldestOf
  <2>5. forgotten = {ConversationOf(k)} /\ ConversationOf(k) \in DOMAIN Remembered
    BY <1>1, <2>1, <2>2, <2>4 DEF RememberedAsKnown
  <2>6. \A j \in DOMAIN flows : now - flows[j].lastSeen <= now - flows[k].lastSeen
    <3>1. now \in Nat /\ \A j \in DOMAIN flows : flows[j].lastSeen \in Nat
      BY DEF IInv, TypeOK, Flow
    <3>2. QED
      BY <2>4, <3>1
  <2>7. \A d \in DOMAIN Remembered : Table!Quiet(d) <= Table!Quiet(ConversationOf(k))
    BY <1>1, <2>4, <2>6, QuietIsIdle DEF RememberedAsKnown
  <2>8. QED
    BY <1>1, <1>7, <2>3, <2>5, <2>7, SameCount DEF Table!Forgettable
<1>8. QED
  BY <1>5, <1>6, <1>7

(* A packet of any other conversation begins one.                          *)
LEMMA CreateBegins ==
  ASSUME IInv, RememberedAsKnown', NEW key \in FlowKey, Canonical(key), NEW flags,
         CreateFlow(key, flags)
  PROVE  Table!Begin(ConversationOf(key))
<1> DEFINE c == ConversationOf(key)
<1>1. PICK kept \in MakeRoom :
        flows' = [k \in kept \cup {key} |->
                    IF k = key THEN NewFlow(key.protocol, flags) ELSE flows[k]]
  BY DEF CreateFlow
<1> DEFINE forgotten == {ConversationOf(k) : k \in DOMAIN flows \ kept}
<1>2. Keyed /\ RememberedAsKnown
  BY InvariantKeys
<1>3. kept \subseteq DOMAIN flows /\ key \notin DOMAIN flows /\ now' = now
  BY MakeRoomLeavesASlot DEF IInv, CreateFlow
<1>4. c \notin DOMAIN Remembered
  BY <1>2, <1>3, SameConversation DEF RememberedAsKnown, Keyed
<1>5. forgotten \in SUBSET DOMAIN Remembered
  BY <1>2 DEF RememberedAsKnown
<1>6. Table!Forgettable(forgotten)
  BY MakeRoomForgets
<1>7. DOMAIN Remembered \ forgotten = {ConversationOf(k) : k \in kept}
  BY <1>3, ConversationsOutside
<1>8. DOMAIN Remembered' = (DOMAIN Remembered \ forgotten) \cup {c}
  <2>1. DOMAIN flows' = kept \cup {key}
    BY <1>1
  <2>2. QED
    BY <1>7, <2>1 DEF RememberedAsKnown
<1>9. Remembered'[c] = [packets |-> 1, lastSeen |-> now]
  <2>1. key \in DOMAIN flows' /\ flows'[key] = NewFlow(key.protocol, flags)
    BY <1>1
  <2>2. Known(key)' = [packets |-> 1, lastSeen |-> now]
    BY <2>1 DEF Known, NewFlow
  <2>3. QED
    BY <2>1, <2>2 DEF RememberedAsKnown
<1>10. ASSUME NEW k \in kept
       PROVE  Remembered'[ConversationOf(k)] = Remembered[ConversationOf(k)]
  <2>1. k \in DOMAIN flows /\ k \in DOMAIN flows' /\ flows'[k] = flows[k]
    BY <1>1, <1>3
  <2>2. Known(k)' = Known(k)
    BY <2>1 DEF Known
  <2>3. QED
    BY <1>2, <2>1, <2>2 DEF RememberedAsKnown
<1>11. \A d \in DOMAIN Remembered \ forgotten : Remembered'[d] = Remembered[d]
  BY <1>7, <1>10
<1> HIDE DEF c, forgotten
<1>12. Remembered' = [d \in (DOMAIN Remembered \ forgotten) \cup {c} |->
                        IF d = c THEN [packets |-> 1, lastSeen |-> now]
                                 ELSE Remembered[d]]
  BY <1>8, <1>9, <1>11 DEF RememberedAsKnown
<1>13. Table!Begin(c)
  BY <1>3, <1>4, <1>5, <1>6, <1>12 DEF Table!Begin
<1>14. QED
  BY <1>13 DEF c

(* EvictStale forgets what has timed out.                                  *)
LEMMA EvictForgets ==
  ASSUME IInv, RememberedAsKnown', EvictStale
  PROVE  Table!Forget
<1> DEFINE late == {c \in DOMAIN Remembered : Table!Quiet(c) > flowTimeout}
<1>1. /\ flows' = [k \in FreshKeys |-> flows[k]] /\ now' = now
      /\ FreshKeys \subseteq DOMAIN flows
  BY DEF EvictStale, FreshKeys
<1>2. Keyed /\ RememberedAsKnown
  BY InvariantKeys
<1>3. DOMAIN Remembered \ late = {ConversationOf(k) : k \in FreshKeys}
  BY <1>1, LateIsStale, ConversationsOutside
<1>4. DOMAIN Remembered' = DOMAIN Remembered \ late
  <2>1. DOMAIN flows' = FreshKeys
    BY <1>1
  <2>2. QED
    BY <1>3, <2>1 DEF RememberedAsKnown
<1>5. ASSUME NEW k \in FreshKeys
      PROVE  Remembered'[ConversationOf(k)] = Remembered[ConversationOf(k)]
  <2>1. k \in DOMAIN flows /\ k \in DOMAIN flows' /\ flows'[k] = flows[k]
    BY <1>1
  <2>2. Known(k)' = Known(k)
    BY <2>1 DEF Known
  <2>3. QED
    BY <1>2, <2>1, <2>2 DEF RememberedAsKnown
<1>6. \A d \in DOMAIN Remembered \ late : Remembered'[d] = Remembered[d]
  BY <1>3, <1>5
<1> HIDE DEF late
<1>7. Remembered' = [d \in DOMAIN Remembered \ late |-> Remembered[d]]
  BY <1>4, <1>6 DEF RememberedAsKnown
<1>8. QED
  BY <1>1, <1>7 DEF Table!Forget, Table!Without, late

-----------------------------------------------------------------------------
(* A new tracker remembers nothing.                                        *)
LEMMA InitRemembersNothing == Init => Table!Init
<1> SUFFICES ASSUME Init PROVE Table!Init
  OBVIOUS
<1>1. IInv /\ DOMAIN flows = {} /\ now = 0
  BY InitEstablishes DEF Init
<1>2. RememberedAsKnown
  BY <1>1, InvariantKeys
<1>3. DOMAIN Remembered = {}
  BY <1>1, <1>2 DEF RememberedAsKnown
<1>4. Remembered = [c \in {} |-> {}]
  BY <1>2, <1>3 DEF RememberedAsKnown
<1>5. QED
  BY <1>1, <1>4 DEF Table!Init

(* Every step of the tracker is one of FlowTable, or changes nothing that  *)
(* FlowTable sees.                                                         *)
LEMMA StepRefines ==
  ASSUME IInv, RememberedAsKnown', [Next]_vars
  PROVE  [Table!Next]_<<Remembered, now>>
<1>1. ASSUME NEW src \in IP, NEW dst \in IP, NEW sport \in Port, NEW dport \in Port,
             NEW proto \in Proto, NEW flags \in FlagsOf(proto),
             RecordPacket(src, dst, sport, dport, proto, flags)
      PROVE  Table!Next
  <2> DEFINE key == CanonicalizeKey(src, dst, sport, dport, proto)
  <2>1. key \in FlowKey /\ Canonical(key)
    BY CanonicalizeType
  <2>2. CreateFlow(key, flags) \/ UpdateFlow(key, flags)
    BY <1>1 DEF RecordPacket
  <2> HIDE DEF key
  <2>3. Table!Begin(ConversationOf(key)) \/ Table!Continue(ConversationOf(key))
    BY <2>1, <2>2, CreateBegins, UpdateContinues
  <2> DEFINE a == <<key.endpointA, key.portA>>
             b == <<key.endpointB, key.portB>>
  <2>4. a \in IP \X Port /\ b \in IP \X Port /\ key.protocol \in Proto
    BY <2>1 DEF FlowKey
  <2>5. ConversationOf(key) = Table!Conversation(a, b, key.protocol)
    BY DEF ConversationOf, Ends, Table!Conversation
  <2> HIDE DEF a, b
  <2>6. QED
    BY <2>3, <2>4, <2>5 DEF Table!Next
<1>2. CASE EvictStale
  BY <1>2, EvictForgets DEF Table!Next
<1>3. CASE Tick
  <2>1. flows' = flows /\ now' = now + 1 /\ now \in Nat
    BY <1>3 DEF Tick, IInv, TypeOK
  <2>2. Remembered' = Remembered
    BY <2>1 DEF Remembered
  <2>3. now' > now
    BY <2>1
  <2>4. QED
    BY <2>2, <2>3 DEF Table!Next, Table!Pass
<1>4. CASE UNCHANGED vars
  BY <1>4 DEF vars, Remembered
<1>5. QED
  BY <1>1, <1>2, <1>3, <1>4 DEF Next

(* The tracker implements FlowTable: a bounded memory of the conversations *)
(* observed last, without a direction (RecordPacket, EvictStale).          *)
THEOREM ImplementsFlowTable == Spec => TableImplemented
<1>1. IInv => RememberedAsKnown
  BY InvariantKeys
<1>2. IInv /\ RememberedAsKnown' /\ [Next]_vars => [Table!Next]_<<Remembered, now>>
  BY StepRefines
<1>3. QED
  BY <1>1, <1>2, InitRemembersNothing, InductiveInvariant, PTL
     DEF Spec, TableImplemented, Table!Spec

-----------------------------------------------------------------------------
(* The rest is about the tracker with its history.                         *)

(* Of the segments that settle the state of a flow, one is the last.       *)
HasLast(h) ==
  Decisive(h) # {} => \E m \in Decisive(h) : \A i \in Decisive(h) : m >= i

(* What a flow shows, and when it was refreshed, is what was observed on   *)
(* its conversation.                                                       *)
ShowsHistory(k) ==
  LET c == ConversationOf(k)
  IN  /\ hist[c] \in Seq(SUBSET TCPFlag)
      /\ Len(hist[c]) > 0
      /\ HasLast(hist[c])
      /\ flows[k].packets = Len(hist[c])
      /\ flows[k].state = IF k.protocol = "TCP" THEN TCPStateAfter(hist[c])
                                                ELSE "UDP_ACTIVE"
      /\ flows[k].lastSeen = heard[c]

(* The inductive invariant: there is a history of the tracked              *)
(* conversations and of no other, and their flows show it.                 *)
HInv ==
  /\ IInv
  /\ DOMAIN hist = Tracked
  /\ DOMAIN heard = Tracked
  /\ \A k \in DOMAIN flows : ShowsHistory(k)

(* The key of a packet is a key of its conversation (CanonicalizeKey).     *)
LEMMA KeyOfConversation ==
  ASSUME NEW src, NEW dst, NEW sport, NEW dport, NEW proto
  PROVE  /\ ConversationOf(CanonicalizeKey(src, dst, sport, dport, proto))
              = Conversation(src, sport, dst, dport, proto)
         /\ CanonicalizeKey(src, dst, sport, dport, proto).protocol = proto
BY DEF CanonicalizeKey, Key, ConversationOf, Ends, Conversation

(* The observed flags are TCP flags, and none for a UDP datagram.          *)
LEMMA FlagsType ==
  ASSUME NEW proto, NEW flags \in FlagsOf(proto)
  PROVE  flags \in SUBSET TCPFlag
BY ConnTrackAssumption DEF FlagsOf

-----------------------------------------------------------------------------
(* The first segment of a conversation settles the state of its new flow   *)
(* (RecordPacket).                                                         *)
LEMMA FirstSegment ==
  ASSUME NEW flags \in SUBSET TCPFlag
  PROVE  /\ <<flags>> \in Seq(SUBSET TCPFlag) /\ Len(<<flags>>) = 1
         /\ HasLast(<<flags>>)
         /\ InitialState("TCP", flags) = TCPStateAfter(<<flags>>)
<1>1. <<flags>> \in Seq(SUBSET TCPFlag) /\ Len(<<flags>>) = 1 /\ <<flags>>[1] = flags
  OBVIOUS
<1>2. Decisive(<<flags>>) = {}
  BY <1>1 DEF Decisive
<1>3. (\A i \in 1..Len(<<flags>>) : "ACK" \notin <<flags>>[i]) <=> "ACK" \notin flags
  BY <1>1
<1>4. TCPStateAfter(<<flags>>)
        = CASE {"SYN", "ACK"} \subseteq flags              -> "SYN_RECV"
            [] "SYN" \in flags /\ "ACK" \notin flags       -> "SYN_SENT"
            [] OTHER                                       -> "ESTABLISHED"
  BY <1>1, <1>2, <1>3 DEF TCPStateAfter
<1>5. QED
  BY <1>1, <1>2, <1>4 DEF HasLast, InitialState

(* One more segment changes the state that the history settles the way     *)
(* RecordPacket changes the state of the flow.                             *)
LEMMA NextSegment ==
  ASSUME NEW h \in Seq(SUBSET TCPFlag), Len(h) > 0, HasLast(h),
         NEW flags \in SUBSET TCPFlag
  PROVE  /\ HasLast(Append(h, flags))
         /\ NextState(TCPStateAfter(h), "TCP", flags) = TCPStateAfter(Append(h, flags))
<1> DEFINE g == Append(h, flags)
           n == Len(h)
           Settles(f) == f \cap {"RST", "FIN"} # {} \/ {"SYN", "ACK"} \subseteq f
<1>1. /\ n \in Nat /\ n > 0 /\ Len(g) = n + 1 /\ g[n + 1] = flags
      /\ \A i \in 1..n : g[i] = h[i]
  OBVIOUS
<1>2. /\ Decisive(h) = {i \in 2..n : Settles(h[i])}
      /\ Decisive(g) = {i \in 2..(n + 1) : Settles(g[i])}
  BY <1>1 DEF Decisive
<1> HIDE DEF g, n
<1>3. CASE Settles(flags)
  <2>1. n + 1 \in Decisive(g) /\ \A i \in Decisive(g) : i \in Int /\ n + 1 >= i
    BY <1>1, <1>2, <1>3
  <2>2. HasLast(g)
    BY <2>1 DEF HasLast
  <2>3. Max(Decisive(g)) = n + 1
    <3>1. Max(Decisive(g)) \in Decisive(g) /\ \A i \in Decisive(g) : Max(Decisive(g)) >= i
      BY <2>1 DEF Max
    <3>2. QED
      BY <1>1, <2>1, <3>1
  <2>4. TCPStateAfter(g) = CASE "RST" \in flags                       -> "RESET"
                             [] "RST" \notin flags /\ "FIN" \in flags -> "FIN_WAIT"
                             [] OTHER                                 -> "ESTABLISHED"
    BY <1>1, <2>1, <2>3 DEF TCPStateAfter
  <2>5. NextState(TCPStateAfter(h), "TCP", flags)
          = CASE "RST" \in flags                       -> "RESET"
              [] "RST" \notin flags /\ "FIN" \in flags -> "FIN_WAIT"
              [] OTHER                                 -> "ESTABLISHED"
    BY <1>3 DEF NextState
  <2>6. QED
    BY <2>2, <2>4, <2>5 DEF g
<1>4. CASE ~Settles(flags)
  <2>1. Decisive(g) = Decisive(h) /\ \A i \in Decisive(h) : g[i] = h[i]
    BY <1>1, <1>2, <1>4
  <2>2. HasLast(g)
    BY <2>1 DEF HasLast
  <2>3. /\ "RST" \notin flags /\ "FIN" \notin flags
        /\ ~({"SYN", "ACK"} \subseteq flags)
    BY <1>4
  <2>4. CASE Decisive(h) # {}
    <3>1. Max(Decisive(h)) \in Decisive(h)
      BY <2>4 DEF Max, HasLast
    <3>2. TCPStateAfter(g) = TCPStateAfter(h)
      BY <2>1, <2>4, <3>1 DEF TCPStateAfter
    <3>3. TCPStateAfter(h) # "SYN_SENT"
      BY <2>4 DEF TCPStateAfter
    <3>4. NextState(TCPStateAfter(h), "TCP", flags) = TCPStateAfter(h)
      BY <2>3, <3>3 DEF NextState
    <3>5. QED
      BY <2>2, <3>2, <3>4 DEF g
  <2>5. CASE Decisive(h) = {}
    <3> DEFINE unanswered(s) == "SYN" \in s[1] /\ \A i \in 1..Len(s) : "ACK" \notin s[i]
               begun(s)      == CASE {"SYN", "ACK"} \subseteq s[1] -> "SYN_RECV"
                                  [] unanswered(s)                 -> "SYN_SENT"
                                  [] OTHER                         -> "ESTABLISHED"
    <3>1. TCPStateAfter(h) = begun(h) /\ TCPStateAfter(g) = begun(g)
      BY <2>1, <2>5 DEF TCPStateAfter
    <3>2. g[1] = h[1] /\ 1 \in 1..n /\ n = Len(h)
      BY <1>1 DEF n
    <3>3. unanswered(g) <=> unanswered(h) /\ "ACK" \notin flags
      BY <1>1, <3>2
    <3>4. unanswered(h) => ~({"SYN", "ACK"} \subseteq h[1])
      BY <3>2
    <3>5. NextState(begun(h), "TCP", flags) = begun(g)
      <4> HIDE DEF unanswered
      <4>1. QED
        BY <2>3, <3>2, <3>3, <3>4 DEF NextState
    <3>6. QED
      BY <2>2, <3>1, <3>5 DEF g
  <2>6. QED
    BY <2>4, <2>5
<1>5. QED
  BY <1>3, <1>4

-----------------------------------------------------------------------------
(* The empty tracker has no history.                                       *)
LEMMA NoHistoryYet == HInit => HInv
<1> SUFFICES ASSUME HInit PROVE HInv
  OBVIOUS
<1>1. IInv /\ DOMAIN flows = {} /\ DOMAIN hist = {} /\ DOMAIN heard = {}
  BY InitEstablishes DEF HInit, Init
<1>2. QED
  BY <1>1 DEF HInv, Tracked

(* The tracker with its history takes the steps of the tracker.            *)
LEMMA HistoryOnlyWatches == /\ HInit => Init
                            /\ [HNext]_hvars => [Next]_vars
BY DEF HInit, HNext, HRecordPacket, HEvictStale, HTick, Next, hvars, vars

(* Nothing that was kept is mixed up: its conversation is not that of      *)
(* another key, and it shows what it showed.                               *)
LEMMA KeptShowsHistory ==
  ASSUME HInv, NEW k \in DOMAIN flows, k \in DOMAIN flows', flows'[k] = flows[k],
         hist'[ConversationOf(k)] = hist[ConversationOf(k)],
         heard'[ConversationOf(k)] = heard[ConversationOf(k)]
  PROVE  ShowsHistory(k)'
BY DEF HInv, ShowsHistory

(* The first packet of a conversation begins its history.                  *)
LEMMA CreateBeginsHistory ==
  ASSUME HInv, IInv',
         NEW src \in IP, NEW dst \in IP, NEW sport \in Port, NEW dport \in Port,
         NEW proto \in Proto, NEW flags \in FlagsOf(proto),
         HRecordPacket(src, dst, sport, dport, proto, flags),
         CreateFlow(CanonicalizeKey(src, dst, sport, dport, proto), flags)
  PROVE  HInv'
<1> DEFINE key  == CanonicalizeKey(src, dst, sport, dport, proto)
           this == Conversation(src, sport, dst, dport, proto)
<1>1. /\ key \in FlowKey /\ Canonical(key) /\ key.protocol = proto
      /\ ConversationOf(key) = this
  BY CanonicalizeType, KeyOfConversation
<1>2. CreateFlow(key, flags)
  OBVIOUS
<1>3. /\ hist' = [c \in Tracked' |->
                    IF c = this THEN Append(IF this \in DOMAIN hist THEN hist[this] ELSE <<>>, flags)
                                ELSE hist[c]]
      /\ heard' = [c \in Tracked' |-> IF c = this THEN now ELSE heard[c]]
  BY DEF HRecordPacket
<1> HIDE DEF key, this
<1>4. PICK kept \in MakeRoom :
        flows' = [k \in kept \cup {key} |->
                    IF k = key THEN NewFlow(key.protocol, flags) ELSE flows[k]]
  BY <1>2 DEF CreateFlow
<1>5. kept \subseteq DOMAIN flows /\ key \notin DOMAIN flows
  BY <1>2, MakeRoomLeavesASlot DEF HInv, IInv, CreateFlow
<1>6. Keyed
  BY InvariantKeys DEF HInv
<1>7. \A k \in DOMAIN flows : ConversationOf(k) # this
  BY <1>1, <1>5, <1>6, SameConversation DEF Keyed
<1>8. this \notin DOMAIN hist
  BY <1>7 DEF HInv, Tracked
<1>9. DOMAIN flows' = kept \cup {key} /\ \A k \in DOMAIN flows' : ConversationOf(k) \in Tracked'
  BY <1>4 DEF Tracked
<1>10. ShowsHistory(key)'
  <2>1. flows'[key] = NewFlow(proto, flags)
    BY <1>1, <1>4
  <2>2. hist'[this] = <<flags>> /\ heard'[this] = now
    <3>1. this \in Tracked'
      BY <1>1, <1>9
    <3>2. hist'[this] = Append(<<>>, flags) /\ heard'[this] = now
      BY <1>3, <1>8, <3>1
    <3>3. QED
      BY <3>2
  <2>3. flags \in SUBSET TCPFlag
    BY FlagsType
  <2>4. InitialState(proto, flags) = IF proto = "TCP" THEN TCPStateAfter(<<flags>>) ELSE "UDP_ACTIVE"
    <3>1. CASE proto = "TCP"
      BY <2>3, <3>1, FirstSegment
    <3>2. CASE proto = "UDP"
      BY <3>2 DEF InitialState
    <3>3. QED
      BY <3>1, <3>2, HistoryAssumption
  <2>5. /\ <<flags>> \in Seq(SUBSET TCPFlag) /\ Len(<<flags>>) = 1
        /\ HasLast(<<flags>>)
    BY <2>3, FirstSegment
  <2>6. QED
    BY <1>1, <2>1, <2>2, <2>4, <2>5 DEF ShowsHistory, NewFlow
<1>11. ASSUME NEW k \in kept
       PROVE  ShowsHistory(k)'
  <2>1. k \in DOMAIN flows /\ k \in DOMAIN flows' /\ flows'[k] = flows[k]
    BY <1>4, <1>5, <1>9
  <2>2. ConversationOf(k) \in Tracked' /\ ConversationOf(k) # this
    BY <1>7, <1>9, <2>1
  <2>3. /\ hist'[ConversationOf(k)] = hist[ConversationOf(k)]
        /\ heard'[ConversationOf(k)] = heard[ConversationOf(k)]
    BY <1>3, <2>2
  <2>4. QED
    BY <2>1, <2>3, KeptShowsHistory
<1>12. \A k \in DOMAIN flows' : ShowsHistory(k)'
  BY <1>9, <1>10, <1>11
<1>13. DOMAIN hist' = Tracked' /\ DOMAIN heard' = Tracked'
  BY <1>3
<1>14. QED
  BY <1>12, <1>13 DEF HInv

(* One more packet of a tracked conversation continues it.                 *)
LEMMA UpdateContinuesHistory ==
  ASSUME HInv, IInv',
         NEW src \in IP, NEW dst \in IP, NEW sport \in Port, NEW dport \in Port,
         NEW proto \in Proto, NEW flags \in FlagsOf(proto),
         HRecordPacket(src, dst, sport, dport, proto, flags),
         UpdateFlow(CanonicalizeKey(src, dst, sport, dport, proto), flags)
  PROVE  HInv'
<1> DEFINE key  == CanonicalizeKey(src, dst, sport, dport, proto)
           this == Conversation(src, sport, dst, dport, proto)
<1>1. key.protocol = proto /\ ConversationOf(key) = this
  BY KeyOfConversation
<1>2. UpdateFlow(key, flags)
  OBVIOUS
<1>3. /\ hist' = [c \in Tracked' |->
                    IF c = this THEN Append(IF this \in DOMAIN hist THEN hist[this] ELSE <<>>, flags)
                                ELSE hist[c]]
      /\ heard' = [c \in Tracked' |-> IF c = this THEN now ELSE heard[c]]
  BY DEF HRecordPacket
<1> HIDE DEF key, this
<1>4. /\ key \in DOMAIN flows /\ DOMAIN flows' = DOMAIN flows
      /\ flows' = [flows EXCEPT ![key] = UpdatedFlow(@, key.protocol, flags)]
  BY <1>2 DEF UpdateFlow
<1>5. Keyed
  BY InvariantKeys DEF HInv
<1>6. Tracked' = Tracked /\ \A k \in DOMAIN flows : ConversationOf(k) \in Tracked
  BY <1>4 DEF Tracked
<1>7. ShowsHistory(key)'
  <2>1. ShowsHistory(key) /\ this \in DOMAIN hist
    BY <1>1, <1>4, <1>6 DEF HInv
  <2> DEFINE h == hist[this]
  <2>2. /\ h \in Seq(SUBSET TCPFlag) /\ Len(h) > 0 /\ HasLast(h)
        /\ flows[key].packets = Len(h)
        /\ flows[key].state = IF proto = "TCP" THEN TCPStateAfter(h) ELSE "UDP_ACTIVE"
    BY <1>1, <2>1 DEF ShowsHistory
  <2>3. hist'[this] = Append(h, flags) /\ heard'[this] = now
    BY <1>1, <1>3, <1>4, <1>6, <2>1
  <2>4. flags \in SUBSET TCPFlag
    BY FlagsType
  <2>5. flows'[key] = UpdatedFlow(flows[key], proto, flags)
    BY <1>1, <1>4
  <2> HIDE DEF h
  <2>6. /\ HasLast(Append(h, flags))
        /\ NextState(TCPStateAfter(h), "TCP", flags) = TCPStateAfter(Append(h, flags))
    BY <2>2, <2>4, NextSegment
  <2>7. /\ Append(h, flags) \in Seq(SUBSET TCPFlag)
        /\ Len(Append(h, flags)) = Len(h) + 1 /\ Len(Append(h, flags)) > 0
    BY <2>2, <2>4
  <2>8. NextState(flows[key].state, proto, flags)
          = IF proto = "TCP" THEN TCPStateAfter(Append(h, flags)) ELSE "UDP_ACTIVE"
    <3>1. CASE proto = "TCP"
      BY <2>2, <2>6, <3>1
    <3>2. CASE proto # "TCP"
      BY <2>2, <3>2 DEF NextState
    <3>3. QED
      BY <3>1, <3>2
  <2>9. /\ flows'[key].packets = Len(Append(h, flags))
        /\ flows'[key].state = NextState(flows[key].state, proto, flags)
        /\ flows'[key].lastSeen = now
    BY <2>2, <2>5, <2>7 DEF UpdatedFlow
  <2>10. QED
    BY <1>1, <2>3, <2>6, <2>7, <2>8, <2>9 DEF ShowsHistory
<1>8. ASSUME NEW k \in DOMAIN flows, k # key
      PROVE  ShowsHistory(k)'
  <2>1. ConversationOf(k) # this
    BY <1>1, <1>4, <1>5, <1>8, SameConversation DEF Keyed
  <2>2. /\ hist'[ConversationOf(k)] = hist[ConversationOf(k)]
        /\ heard'[ConversationOf(k)] = heard[ConversationOf(k)]
    BY <1>3, <1>6, <2>1
  <2>3. k \in DOMAIN flows' /\ flows'[k] = flows[k]
    BY <1>4, <1>8
  <2>4. QED
    BY <2>2, <2>3, KeptShowsHistory
<1>9. \A k \in DOMAIN flows' : ShowsHistory(k)'
  BY <1>4, <1>7, <1>8
<1>10. DOMAIN hist' = Tracked' /\ DOMAIN heard' = Tracked'
  BY <1>3
<1>11. QED
  BY <1>9, <1>10 DEF HInv

(* EvictStale forgets the histories of what it evicts.                     *)
LEMMA EvictForgetsHistory ==
  ASSUME HInv, IInv', HEvictStale
  PROVE  HInv'
<1>1. /\ FreshKeys \subseteq DOMAIN flows
      /\ DOMAIN flows' = FreshKeys /\ \A k \in FreshKeys : flows'[k] = flows[k]
  BY DEF HEvictStale, EvictStale, FreshKeys
<1>2. /\ hist' = [c \in Tracked' |-> hist[c]]
      /\ heard' = [c \in Tracked' |-> heard[c]]
  BY DEF HEvictStale
<1>3. ASSUME NEW k \in DOMAIN flows'
      PROVE  ShowsHistory(k)'
  <2>1. ConversationOf(k) \in Tracked'
    BY DEF Tracked
  <2>2. /\ hist'[ConversationOf(k)] = hist[ConversationOf(k)]
        /\ heard'[ConversationOf(k)] = heard[ConversationOf(k)]
    BY <1>2, <2>1
  <2>3. QED
    BY <1>1, <2>2, KeptShowsHistory
<1>4. DOMAIN hist' = Tracked' /\ DOMAIN heard' = Tracked'
  BY <1>2
<1>5. QED
  BY <1>3, <1>4 DEF HInv

(* Every step keeps the histories and what the flows show of them.         *)
LEMMA HistoryPreserved == HInv /\ [HNext]_hvars => HInv'
<1> SUFFICES ASSUME HInv, [HNext]_hvars PROVE HInv'
  OBVIOUS
<1>1. IInv'
  BY HistoryOnlyWatches, NextPreserves DEF HInv
<1>2. ASSUME NEW src \in IP, NEW dst \in IP, NEW sport \in Port, NEW dport \in Port,
             NEW proto \in Proto, NEW flags \in FlagsOf(proto),
             HRecordPacket(src, dst, sport, dport, proto, flags)
      PROVE  HInv'
  <2>1. \/ CreateFlow(CanonicalizeKey(src, dst, sport, dport, proto), flags)
        \/ UpdateFlow(CanonicalizeKey(src, dst, sport, dport, proto), flags)
    BY <1>2 DEF HRecordPacket, RecordPacket
  <2>2. QED
    BY <1>1, <1>2, <2>1, CreateBeginsHistory, UpdateContinuesHistory
<1>3. CASE HEvictStale
  BY <1>1, <1>3, EvictForgetsHistory
<1>4. CASE UNCHANGED <<flows, hist, heard>>
  BY <1>1, <1>4 DEF HInv, Tracked, ShowsHistory
<1>5. QED
  BY <1>2, <1>3, <1>4 DEF HNext, HTick, Tick, hvars

(* There is a history of every tracked conversation, and its flow shows it *)
(* (RecordPacket, EvictStale).                                             *)
THEOREM HistoryInvariance == HSpec => []HInv
BY NoHistoryYet, HistoryPreserved, PTL DEF HSpec

-----------------------------------------------------------------------------
(* The packet count of a flow is that of its conversation since the flow   *)
(* was created, both directions together, however often flows were dropped *)
(* and created again (RecordPacket).                                       *)
THEOREM CountsBothDirections == HSpec => []PacketsOfBothDirections
<1>1. HInv => PacketsOfBothDirections
  BY DEF HInv, ShowsHistory, PacketsOfBothDirections
<1>2. QED
  BY <1>1, HistoryInvariance, PTL

(* The state of a TCP flow is the one that the last RST, FIN or SYN-ACK    *)
(* after its first segment settles, or else its beginning, for histories   *)
(* of any length (RecordPacket).                                           *)
THEOREM HistorySettlesState == HSpec => []StateFollowsHistory
<1>1. HInv => StateFollowsHistory
  BY DEF HInv, ShowsHistory, StateFollowsHistory
<1>2. QED
  BY <1>1, HistoryInvariance, PTL

(* A new flow may cost the conversation heard of least recently its own;   *)
(* no other live one is forgotten.                                         *)
LEMMA CreateKeepsLive ==
  ASSUME HInv, HInv',
         NEW src \in IP, NEW dst \in IP, NEW sport \in Port, NEW dport \in Port,
         NEW proto \in Proto, NEW flags,
         CreateFlow(CanonicalizeKey(src, dst, sport, dport, proto), flags)
  PROVE  LiveIsKept
<1> DEFINE key == CanonicalizeKey(src, dst, sport, dport, proto)
<1>1. key \in FlowKey /\ Canonical(key)
  BY CanonicalizeType
<1>2. CreateFlow(key, flags)
  OBVIOUS
<1> HIDE DEF key
<1>3. RemovalIsJustified
  BY <1>1, <1>2, RemovedToMakeRoom DEF HInv
<1>4. key \notin DOMAIN flows /\ key \in DOMAIN flows'
  BY <1>2 DEF CreateFlow
<1>5. ConversationOf(key) \in DOMAIN heard' \ DOMAIN heard
  <2>1. Keyed
    BY InvariantKeys DEF HInv
  <2>2. ConversationOf(key) \notin Tracked
    BY <1>1, <1>4, <2>1, SameConversation DEF Keyed, Tracked
  <2>3. ConversationOf(key) \in Tracked'
    BY <1>4 DEF Tracked
  <2>4. QED
    BY <2>2, <2>3 DEF HInv
<1>6. /\ DOMAIN heard = {ConversationOf(j) : j \in DOMAIN flows}
      /\ Cardinality(DOMAIN heard) = Cardinality(DOMAIN flows)
  <2>1. DOMAIN heard = {ConversationOf(j) : j \in DOMAIN flows}
    BY DEF HInv, Tracked
  <2>2. DOMAIN Remembered = {ConversationOf(j) : j \in DOMAIN flows}
    BY DEF Remembered
  <2>3. QED
    BY <2>1, <2>2, InvariantKeys, RememberedIsAsLarge DEF HInv
<1>7. SUFFICES ASSUME NEW c \in DOMAIN heard \ DOMAIN heard', ~(now - heard[c] > flowTimeout)
               PROVE  /\ Cardinality(DOMAIN heard) = maxFlows
                      /\ DOMAIN heard \ DOMAIN heard' = {c}
                      /\ \A d \in DOMAIN heard : heard[d] >= heard[c]
  BY <1>5 DEF LiveIsKept
<1>8. PICK k \in DOMAIN flows : ConversationOf(k) = c
  BY <1>6
<1>9. \A j \in DOMAIN flows : j \in DOMAIN flows' => ConversationOf(j) \in DOMAIN heard'
  BY DEF HInv, Tracked
<1>10. \A j \in DOMAIN flows : flows[j].lastSeen = heard[ConversationOf(j)]
  BY DEF HInv, ShowsHistory
<1>11. /\ Cardinality(DOMAIN flows) = maxFlows
       /\ DOMAIN flows \ DOMAIN flows' = {k}
       /\ \A j \in DOMAIN flows : now - flows[j].lastSeen <= now - flows[k].lastSeen
  <2>1. k \in DOMAIN flows \ DOMAIN flows'
    BY <1>7, <1>8, <1>9
  <2>2. ~(now - flows[k].lastSeen > flowTimeout)
    BY <1>7, <1>8, <1>10
  <2>3. QED
    BY <1>3, <2>1, <2>2 DEF RemovalIsJustified
<1>12. DOMAIN heard \ DOMAIN heard' = {c}
  <2>1. ASSUME NEW d \in DOMAIN heard \ DOMAIN heard' PROVE d = c
    <3>1. PICK j \in DOMAIN flows : ConversationOf(j) = d
      BY <1>6
    <3>2. QED
      BY <1>8, <1>9, <1>11, <2>1, <3>1
  <2>2. QED
    BY <1>7, <2>1
<1>13. \A d \in DOMAIN heard : heard[d] >= heard[c]
  <2>1. now \in Nat /\ \A j \in DOMAIN flows : flows[j].lastSeen \in Nat
    BY DEF HInv, IInv, TypeOK, Flow
  <2>2. \A j \in DOMAIN flows : flows[j].lastSeen >= flows[k].lastSeen
    BY <1>11, <2>1
  <2>3. QED
    BY <1>6, <1>8, <1>10, <2>2
<1>14. QED
  BY <1>6, <1>11, <1>12, <1>13

(* What EvictStale forgets has timed out.                                  *)
LEMMA EvictKeepsLive ==
  ASSUME HInv, HInv', EvictStale
  PROVE  LiveIsKept
<1>1. SUFFICES ASSUME NEW c \in DOMAIN heard \ DOMAIN heard'
               PROVE  now - heard[c] > flowTimeout
  BY DEF LiveIsKept
<1>2. PICK k \in DOMAIN flows : ConversationOf(k) = c
  BY DEF HInv, Tracked
<1>3. k \notin DOMAIN flows'
  BY <1>2 DEF HInv, Tracked
<1>4. now - flows[k].lastSeen > flowTimeout
  BY <1>3 DEF EvictStale, FreshKeys, Stale
<1>5. QED
  BY <1>2, <1>4 DEF HInv, ShowsHistory

(* A conversation heard of within the timeout is forgotten only when a new *)
(* one needs its slot in a full table, alone, and only if every other is   *)
(* as recent, for any number of conversations and slots                    *)
(* (dropOldestInternal).                                                   *)
THEOREM LiveOnesStay == HSpec => LiveConversationsStay
<1>1. HInv /\ HInv' /\ [HNext]_hvars => [LiveIsKept]_hvars
  <2> SUFFICES ASSUME HInv, HInv', HNext PROVE LiveIsKept
    OBVIOUS
  <2>1. ASSUME NEW src \in IP, NEW dst \in IP, NEW sport \in Port, NEW dport \in Port,
               NEW proto \in Proto, NEW flags \in FlagsOf(proto),
               HRecordPacket(src, dst, sport, dport, proto, flags)
        PROVE  LiveIsKept
    <3>1. CASE CreateFlow(CanonicalizeKey(src, dst, sport, dport, proto), flags)
      BY <3>1, CreateKeepsLive
    <3>2. CASE UpdateFlow(CanonicalizeKey(src, dst, sport, dport, proto), flags)
      <4>1. DOMAIN flows' = DOMAIN flows
        BY <3>2 DEF UpdateFlow
      <4>2. DOMAIN heard' = DOMAIN heard
        BY <4>1 DEF HInv, Tracked
      <4>3. QED
        BY <4>2 DEF LiveIsKept
    <3>3. QED
      BY <2>1, <3>1, <3>2 DEF HRecordPacket, RecordPacket
  <2>2. CASE HEvictStale
    BY <2>2, EvictKeepsLive DEF HEvictStale
  <2>3. CASE HTick
    BY <2>3 DEF HTick, LiveIsKept
  <2>4. QED
    BY <2>1, <2>2, <2>3 DEF HNext
<1>2. QED
  BY <1>1, HistoryInvariance, PTL DEF HSpec, LiveConversationsStay
=============================================================================
