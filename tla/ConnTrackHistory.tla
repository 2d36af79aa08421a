-------------------------- MODULE ConnTrackHistory --------------------------
(***************************************************************************)
(* The connection tracker together with two history variables: the         *)
(* segments observed on each tracked conversation since its flow was       *)
(* created, in the order the workers processed them, and when the last one *)
(* of them was.  A conversation is named here by its unordered pair of     *)
(* endpoints, independently of CanonicalizeKey, so that what the flow      *)
(* shows can be compared with what was observed.                           *)
(***************************************************************************)
EXTENDS ConnTrack, Sequences, FiniteSetsExt

(* The two calls of RecordPacket in processPacket name these protocols.    *)
ASSUME HistoryAssumption == Proto \subseteq {"TCP", "UDP"}

VARIABLES
  hist,  \* from the tracked conversations to sequences of flag sets
  heard  \* from the tracked conversations to the time of the last segment

hvars == <<flows, now, hist, heard>>

Conversation(a, pa, b, pb, proto) ==
  [ends |-> {<<a, pa>>, <<b, pb>>}, protocol |-> proto]

Tracked == {ConversationOf(k) : k \in DOMAIN flows}

-----------------------------------------------------------------------------
HInit == Init /\ hist = [c \in {} |-> <<>>] /\ heard = [c \in {} |-> 0]

HRecordPacket(src, dst, sport, dport, proto, flags) ==
  LET this == Conversation(src, sport, dst, dport, proto)
      past == IF this \in DOMAIN hist THEN hist[this] ELSE <<>>
  IN  /\ RecordPacket(src, dst, sport, dport, proto, flags)
      /\ hist' = [c \in Tracked' |-> IF c = this THEN Append(past, flags)
                                                 ELSE hist[c]]
      /\ heard' = [c \in Tracked' |-> IF c = this THEN now ELSE heard[c]]

HEvictStale ==
  /\ EvictStale
  /\ hist' = [c \in Tracked' |-> hist[c]]
  /\ heard' = [c \in Tracked' |-> heard[c]]

HTick == Tick /\ UNCHANGED <<hist, heard>>

HNext ==
  \/ \E src, dst \in IP, sport, dport \in Port, proto \in Proto :
       \E flags \in FlagsOf(proto) :
         HRecordPacket(src, dst, sport, dport, proto, flags)
  \/ HEvictStale
  \/ HTick

(* As in ConnTrack, only EvictStale has to happen.                         *)
HSpec == HInit /\ [][HNext]_hvars /\ WF_hvars(HEvictStale)

-----------------------------------------------------------------------------
(* The packet count of a flow is the number of packets observed on its     *)
(* conversation, in both directions together, since the flow was created   *)
(* (RecordPacket counts, CanonicalizeKey merges the directions).           *)
PacketsOfBothDirections ==
  \A k \in DOMAIN flows : flows[k].packets = Len(hist[ConversationOf(k)])

(* A conversation on which a segment was observed within the timeout is    *)
(* forgotten in one case only: a new conversation needed its slot in a     *)
(* full table, where every other conversation was heard of at least as     *)
(* recently; and it is the only one that goes (RecordPacket refreshes      *)
(* LastSeen, dropOldestInternal).                                          *)
LiveIsKept ==
  LET forgotten == DOMAIN heard \ DOMAIN heard'
  IN  \A c \in forgotten :
        \/ now - heard[c] > flowTimeout
        \/ /\ DOMAIN heard' \ DOMAIN heard # {}
           /\ Cardinality(DOMAIN heard) = maxFlows /\ forgotten = {c}
           /\ \A d \in DOMAIN heard : heard[d] >= heard[c]

LiveConversationsStay == [][LiveIsKept]_hvars

(* The positions of h that settle the state whatever came before them.     *)
Decisive(h) ==
  {i \in 2..Len(h) : h[i] \cap {"RST", "FIN"} # {} \/ {"SYN", "ACK"} \subseteq h[i]}

(* The state of a TCP flow as a function of everything observed on it.     *)
TCPStateAfter(h) ==
  IF Decisive(h) # {}
  THEN LET last == h[Max(Decisive(h))]
       IN  CASE "RST" \in last                      -> "RESET"
             [] "RST" \notin last /\ "FIN" \in last -> "FIN_WAIT"
             [] OTHER                               -> "ESTABLISHED"
  ELSE CASE {"SYN", "ACK"} \subseteq h[1]                  -> "SYN_RECV"
         [] "SYN" \in h[1] /\ \A i \in 1..Len(h) : "ACK" \notin h[i]
                                                           -> "SYN_SENT"
         [] OTHER                                          -> "ESTABLISHED"

(* The state a flow shows is settled by the last RST, FIN or SYN-ACK after *)
(* its first packet; without one, by how the flow began and whether an ACK *)
(* answered its SYN.  In particular a flow that began with a SYN-ACK stays *)
(* in SYN_RECV however long the data flows, and one that began with a RST  *)
(* is shown as established: the order in which the workers process the     *)
(* segments decides what is shown (RecordPacket).                          *)
StateFollowsHistory ==
  \A k \in DOMAIN flows :
    flows[k].state = IF k.protocol = "TCP"
                       THEN TCPStateAfter(hist[ConversationOf(k)])
                       ELSE "UDP_ACTIVE"
=============================================================================
