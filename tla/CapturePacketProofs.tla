-------------------------- MODULE CapturePacketProofs --------------------------
(***************************************************************************)
(* Where the packets of the capture engine are, for every number of        *)
(* workers, capacity of packetChan and number of packets: each in one      *)
(* place, nowhere any more when the user has quit, and in the order of     *)
(* their arrival but for the workers.                                      *)
(***************************************************************************)
EXTENDS CaptureEngineProofs

(* The places, besides processed and dropped.                              *)
InSource  == ToSet(source)
InQueue   == ToSet(queue)
Offered   == {held["capture"]} \ {None}
InWorkers == {held[w] : w \in Worker} \ {None}

Sorted(s) == \A i, j \in 1..Len(s) : i < j => s[i] < s[j]

(* Packets arrive in the order of their numbers and keep to it until the   *)
(* workers have them: what is in an earlier place has a larger number.     *)
(* Packets that were dropped are out of the way of the others.             *)
InOrder ==
  /\ Sorted(source) /\ Sorted(queue)
  /\ \A x \in InSource,
        y \in Offered \cup InQueue \cup InWorkers \cup processed \cup dropped : y < x
  /\ \A x \in Offered, y \in InQueue \cup InWorkers \cup processed \cup dropped : y < x
  /\ \A x \in InQueue, y \in InWorkers \cup processed : y < x
  /\ dropped \cap (InQueue \cup InWorkers \cup processed) = {}
  /\ InWorkers \cap processed = {}

(* Every packet that arrived is somewhere.                                 *)
NoneMissing ==
  InSource \cup Offered \cup InQueue \cup InWorkers \cup processed \cup dropped = 1..arrived

(* No two workers have the same packet.                                    *)
WorkersApart ==
  \A v, w \in Worker : held[v] = held[w] /\ held[v] # None => v = w

(* Nobody leaves with a packet in hand; and unless the context is          *)
(* cancelled, no worker leaves before packetChan is closed and empty.      *)
NothingLeftBehind ==
  /\ \A w \in Worker \ wg : held[w] = None
  /\ "capture" \notin wg => capture # "offer"
  /\ engine \notin {"new", "failed"} /\ ~cancelled /\ Worker \ wg # {} =>
       queue = <<>> /\ ~queueOpen

(* What the steps of a packet keep.                                        *)
Delivery == InOrder /\ NoneMissing /\ WorkersApart

-----------------------------------------------------------------------------
(* The first packet is taken from a sorted sequence.                       *)
LEMMA FirstTaken ==
  ASSUME NEW s \in Seq(Packet), s # <<>>, Sorted(s)
  PROVE  /\ Head(s) \in Packet /\ Head(s) \in ToSet(s)
         /\ Tail(s) \in Seq(Packet) /\ Sorted(Tail(s))
         /\ ToSet(Tail(s)) = ToSet(s) \ {Head(s)}
         /\ \A x \in ToSet(Tail(s)) : Head(s) < x
<1>1. /\ Len(s) \in Nat \ {0} /\ DOMAIN s = 1..Len(s)
      /\ Head(s) = s[1] /\ s[1] \in Packet
      /\ Tail(s) \in Seq(Packet) /\ Len(Tail(s)) = Len(s) - 1
      /\ DOMAIN Tail(s) = 1..Len(s) - 1
      /\ \A i \in 1..Len(s) - 1 : Tail(s)[i] = s[i + 1]
  OBVIOUS
<1>2. \A i \in 1..Len(s) : s[i] \in Packet
  OBVIOUS
<1>3. Sorted(Tail(s))
  <2> SUFFICES ASSUME NEW i \in 1..Len(s) - 1, NEW j \in 1..Len(s) - 1, i < j
               PROVE  Tail(s)[i] < Tail(s)[j]
    BY <1>1 DEF Sorted
  <2>1. i + 1 \in 1..Len(s) /\ j + 1 \in 1..Len(s) /\ i + 1 < j + 1
    BY <1>1
  <2>2. s[i + 1] < s[j + 1]
    BY <2>1 DEF Sorted
  <2> QED
    BY <1>1, <2>2
<1>4. \A i \in 2..Len(s) : s[1] < s[i]
  BY <1>1 DEF Sorted
<1>5. ToSet(s) = {s[i] : i \in 1..Len(s)} /\ ToSet(Tail(s)) = {s[i] : i \in 2..Len(s)}
  <2>1. ToSet(Tail(s)) = {Tail(s)[i] : i \in 1..Len(s) - 1}
    BY <1>1 DEF ToSet
  <2>2. ASSUME NEW x \in {s[i] : i \in 2..Len(s)} PROVE x \in ToSet(Tail(s))
    <3>1. PICK i \in 2..Len(s) : x = s[i]
      OBVIOUS
    <3>2. i - 1 \in 1..Len(s) - 1 /\ Tail(s)[i - 1] = s[i]
      BY <1>1
    <3> QED
      BY <2>1, <3>1, <3>2
  <2>3. ASSUME NEW x \in ToSet(Tail(s)) PROVE x \in {s[i] : i \in 2..Len(s)}
    <3>1. PICK i \in 1..Len(s) - 1 : x = Tail(s)[i]
      BY <2>1
    <3>2. i + 1 \in 2..Len(s) /\ Tail(s)[i] = s[i + 1]
      BY <1>1
    <3> QED
      BY <3>1, <3>2
  <2> QED
    BY <1>1, <2>2, <2>3 DEF ToSet
<1>6. {s[i] : i \in 2..Len(s)} = {s[i] : i \in 1..Len(s)} \ {s[1]}
  <2>1. \A i \in 2..Len(s) : s[i] # s[1]
    <3>1. ASSUME NEW i \in 2..Len(s) PROVE s[i] # s[1]
      <4>1. s[1] \in Int /\ s[i] \in Int /\ s[1] < s[i]
        BY <1>1, <1>2, <1>4, CaptureAssumption DEF Packet
      <4> QED
        BY <4>1
    <3> QED
      BY <3>1
  <2>2. 1..Len(s) = {1} \cup 2..Len(s)
    BY <1>1
  <2> QED
    BY <2>1, <2>2
<1> QED
  BY <1>1, <1>3, <1>4, <1>5, <1>6

(* A later packet is appended to one.                                      *)
LEMMA OneMore ==
  ASSUME NEW s \in Seq(Packet), Sorted(s), NEW p \in Packet,
         \A x \in ToSet(s) : x < p
  PROVE  /\ Append(s, p) \in Seq(Packet) /\ Sorted(Append(s, p))
         /\ ToSet(Append(s, p)) = ToSet(s) \cup {p}
<1>1. /\ Len(s) \in Nat /\ DOMAIN s = 1..Len(s)
      /\ Append(s, p) \in Seq(Packet)
      /\ Len(Append(s, p)) = Len(s) + 1 /\ DOMAIN Append(s, p) = 1..Len(s) + 1
      /\ \A i \in 1..Len(s) : Append(s, p)[i] = s[i]
      /\ Append(s, p)[Len(s) + 1] = p
  OBVIOUS
<1>2. \A i \in 1..Len(s) : s[i] < p
  BY <1>1 DEF ToSet
<1>3. Sorted(Append(s, p))
  <2> SUFFICES ASSUME NEW i \in 1..Len(s) + 1, NEW j \in 1..Len(s) + 1, i < j
               PROVE  Append(s, p)[i] < Append(s, p)[j]
    BY <1>1 DEF Sorted
  <2>1. i \in 1..Len(s)
    BY <1>1
  <2>2. CASE j = Len(s) + 1
    BY <1>1, <1>2, <2>1, <2>2
  <2>3. CASE j # Len(s) + 1
    <3>1. j \in 1..Len(s)
      BY <1>1, <2>3
    <3>2. s[i] < s[j]
      BY <2>1, <3>1 DEF Sorted
    <3> QED
      BY <1>1, <2>1, <3>1, <3>2
  <2> QED
    BY <2>2, <2>3
<1>4. ToSet(Append(s, p)) = ToSet(s) \cup {p}
  <2>1. 1..Len(s) + 1 = 1..Len(s) \cup {Len(s) + 1}
    BY <1>1
  <2> QED
    BY <1>1, <2>1 DEF ToSet
<1> QED
  BY <1>1, <1>3, <1>4

-----------------------------------------------------------------------------
(* The places hold packets, which are numbers.                             *)
LEMMA PlacesHoldPackets ==
  ASSUME TypeOK
  PROVE  /\ InSource \subseteq Packet /\ InQueue \subseteq Packet
         /\ Offered \subseteq Packet /\ InWorkers \subseteq Packet
         /\ processed \subseteq Packet /\ dropped \subseteq Packet
         /\ Packet \subseteq Int /\ None \notin Packet
  BY CaptureAssumption DEF TypeOK, InSource, InQueue, Offered, InWorkers, ToSet, Packet, None

(* At the beginning there is no packet, and nobody has left.               *)
LEMMA InitDelivers == Init => Delivery /\ NothingLeftBehind
<1> SUFFICES ASSUME Init PROVE Delivery /\ NothingLeftBehind
  OBVIOUS
<1>1. /\ InSource = {} /\ InQueue = {} /\ Offered = {} /\ InWorkers = {}
      /\ processed = {} /\ dropped = {} /\ arrived = 0
      /\ Sorted(source) /\ Sorted(queue)
      /\ \A w \in Worker : held[w] = None
  BY DEF Init, InSource, InQueue, Offered, InWorkers, ToSet, Sorted
<1>2. Delivery
  BY <1>1 DEF Delivery, InOrder, NoneMissing, WorkersApart
<1> QED
  BY <1>1, <1>2 DEF NothingLeftBehind, Init

(* A packet enters at one end, ...                                         *)
LEMMA ArriveDelivers ==
  ASSUME TypeOK, Delivery, Arrive
  PROVE  Delivery'
<1>1. /\ source' = Append(source, arrived + 1) /\ arrived' = arrived + 1
      /\ arrived \in Nat /\ arrived + 1 \in Packet
      /\ UNCHANGED <<queue, held, processed, dropped>>
  BY CaptureAssumption DEF Arrive, chan, stats, TypeOK, Packet
<1>2. \A x \in InSource \cup Offered \cup InQueue \cup InWorkers \cup processed \cup dropped :
        x < arrived + 1
  BY <1>1 DEF Delivery, NoneMissing
<1>3. Sorted(source') /\ InSource' = InSource \cup {arrived + 1}
  BY <1>1, <1>2, OneMore DEF InSource, Delivery, InOrder, TypeOK
<1>4. UNCHANGED <<InQueue, Offered, InWorkers, processed, dropped>> /\ Sorted(queue')
  BY <1>1 DEF InQueue, Offered, InWorkers, Delivery, InOrder
<1>5. InOrder'
  BY <1>2, <1>3, <1>4 DEF InOrder, Delivery
<1>6. NoneMissing'
  BY <1>1, <1>3, <1>4 DEF NoneMissing, Delivery
<1> QED
  BY <1>1, <1>5, <1>6 DEF Delivery, WorkersApart

(* ... is received, ...                                                    *)
LEMMA ReceiveDelivers ==
  ASSUME TypeOK, Lifecycle, Delivery, Receive
  PROVE  Delivery'
<1> DEFINE p == Head(source)
<1>1. /\ source # <<>> /\ source' = Tail(source) /\ held["capture"] = None
      /\ held' = [held EXCEPT !["capture"] = p]
      /\ UNCHANGED <<arrived, queue, processed, dropped>>
  BY DEF Receive, Lifecycle, chan, stats
<1>2. /\ p \in Packet /\ p \in InSource /\ Sorted(source')
      /\ InSource' = InSource \ {p} /\ \A x \in InSource' : p < x
  BY <1>1, FirstTaken DEF InSource, TypeOK, Delivery, InOrder
<1>3. Offered = {} /\ Offered' = {p} /\ \A w \in Worker : held'[w] = held[w]
  BY <1>1, <1>2, CaptureAssumption, PlacesHoldPackets DEF Offered, TypeOK
<1> HIDE DEF p
<1>4. UNCHANGED <<InQueue, InWorkers, processed, dropped>> /\ Sorted(queue')
  BY <1>1, <1>3 DEF InQueue, InWorkers, Delivery, InOrder
<1>5. InOrder'
  BY <1>2, <1>3, <1>4 DEF InOrder, Delivery
<1>6. NoneMissing'
  BY <1>1, <1>2, <1>3, <1>4 DEF NoneMissing, Delivery
<1> QED
  BY <1>3, <1>5, <1>6 DEF Delivery, WorkersApart

(* ... put into packetChan or dropped, ...                                 *)
LEMMA OfferDelivers ==
  ASSUME TypeOK, Lifecycle, Delivery, Offer
  PROVE  Delivery'
<1> DEFINE p == held["capture"]
<1>1. /\ p # None /\ p \in Packet /\ held' = [held EXCEPT !["capture"] = None]
      /\ UNCHANGED <<arrived, source, processed>>
  BY DEF Offer, Lifecycle, TypeOK, env
<1>2. Offered = {p} /\ Offered' = {} /\ \A w \in Worker : held'[w] = held[w]
  BY <1>1, CaptureAssumption DEF Offered, TypeOK
<1>3. UNCHANGED <<InSource, InWorkers, processed>> /\ Sorted(source')
  BY <1>1, <1>2 DEF InSource, InWorkers, Delivery, InOrder
<1>4. \A x \in InQueue : x < p
  BY <1>2 DEF Delivery, InOrder
<1>5. CASE queue' = Append(queue, p) /\ UNCHANGED dropped
  <2>1. Sorted(queue') /\ InQueue' = InQueue \cup {p}
    BY <1>1, <1>4, <1>5, OneMore DEF InQueue, Delivery, InOrder, TypeOK
  <2> HIDE DEF p
  <2>2. p \notin dropped
    BY <1>2, PlacesHoldPackets DEF InOrder, Delivery
  <2>3. InOrder'
    BY <1>2, <1>3, <1>5, <2>1, <2>2 DEF InOrder, Delivery
  <2>4. NoneMissing'
    BY <1>1, <1>2, <1>3, <1>5, <2>1 DEF NoneMissing, Delivery
  <2> QED
    BY <1>2, <2>3, <2>4 DEF Delivery, WorkersApart
<1>6. CASE dropped' = dropped \cup {p} /\ UNCHANGED queue
  <2>1. Sorted(queue') /\ InQueue' = InQueue
    BY <1>6 DEF InQueue, Delivery, InOrder
  <2> HIDE DEF p
  <2>2. p \notin InQueue \cup InWorkers \cup processed
    BY <1>2, PlacesHoldPackets DEF InOrder, Delivery
  <2>3. InOrder'
    BY <1>2, <1>3, <1>6, <2>1, <2>2 DEF InOrder, Delivery
  <2>4. NoneMissing'
    BY <1>1, <1>2, <1>3, <1>6, <2>1 DEF NoneMissing, Delivery
  <2> QED
    BY <1>2, <2>3, <2>4 DEF Delivery, WorkersApart
<1> QED
  BY <1>5, <1>6 DEF Offer, RecordQueueDrop

(* ... taken by a worker, ...                                              *)
LEMMA TakeDelivers ==
  ASSUME TypeOK, Delivery, NEW w \in Worker, Take(w)
  PROVE  Delivery'
<1> DEFINE p == Head(queue)
<1>1. /\ queue # <<>> /\ queue' = Tail(queue) /\ held[w] = None /\ w # "capture"
      /\ held' = [held EXCEPT ![w] = p]
      /\ UNCHANGED <<arrived, source, processed, dropped>>
  BY CaptureAssumption DEF Take, Dequeued, env, stats
<1>2. /\ p \in Packet /\ p \in InQueue /\ Sorted(queue')
      /\ InQueue' = InQueue \ {p} /\ \A x \in InQueue' : p < x
  BY <1>1, FirstTaken DEF InQueue, TypeOK, Delivery, InOrder
<1>3. p \notin InWorkers /\ p # None
  BY <1>2, PlacesHoldPackets DEF InOrder, Delivery
<1>4. /\ held'[w] = p /\ \A v \in Worker \ {w} : held'[v] = held[v]
      /\ held'["capture"] = held["capture"]
  BY <1>1 DEF TypeOK
<1> HIDE DEF p
<1>5. InWorkers' = InWorkers \cup {p}
  BY <1>1, <1>3, <1>4 DEF InWorkers
<1>6. WorkersApart'
  BY <1>1, <1>3, <1>4 DEF InWorkers, WorkersApart, Delivery
<1>7. UNCHANGED <<InSource, Offered, processed, dropped>> /\ Sorted(source')
  BY <1>1, <1>4 DEF InSource, Offered, Delivery, InOrder
<1>8. InOrder'
  <2>1. p \notin dropped /\ p \notin processed
    BY <1>2, PlacesHoldPackets DEF InOrder, Delivery
  <2> QED
    BY <1>2, <1>5, <1>7, <2>1 DEF InOrder, Delivery
<1>9. NoneMissing'
  BY <1>1, <1>2, <1>5, <1>7 DEF NoneMissing, Delivery
<1> QED
  BY <1>6, <1>8, <1>9 DEF Delivery

(* ... and processed.                                                      *)
LEMMA ProcessDelivers ==
  ASSUME TypeOK, Delivery, NEW w \in Worker, Process(w)
  PROVE  Delivery'
<1> DEFINE p == held[w]
<1>1. /\ p # None /\ p \in Packet /\ w # "capture"
      /\ held' = [held EXCEPT ![w] = None] /\ processed' = processed \cup {p}
      /\ UNCHANGED <<arrived, source, queue, dropped>>
  BY CaptureAssumption DEF Process, env, chan, TypeOK
<1>2. /\ held'[w] = None /\ \A v \in Worker \ {w} : held'[v] = held[v]
      /\ held'["capture"] = held["capture"]
  BY <1>1 DEF TypeOK
<1>3. \A v \in Worker \ {w} : held[v] # p
  BY <1>1 DEF WorkersApart, Delivery
<1>4. p \in InWorkers
  BY <1>1 DEF InWorkers
<1>5. InWorkers' = InWorkers \ {p}
  BY <1>2, <1>3 DEF InWorkers
<1>6. WorkersApart'
  BY <1>2 DEF WorkersApart, Delivery
<1> HIDE DEF p
<1>7. UNCHANGED <<InSource, InQueue, Offered, dropped>> /\ Sorted(source') /\ Sorted(queue')
  BY <1>1, <1>2 DEF InSource, InQueue, Offered, Delivery, InOrder
<1>8. InOrder'
  BY <1>1, <1>4, <1>5, <1>7 DEF InOrder, Delivery
<1>9. NoneMissing'
  BY <1>1, <1>4, <1>5, <1>7 DEF NoneMissing, Delivery
<1> QED
  BY <1>6, <1>8, <1>9 DEF Delivery

(* Steps that move no packet.                                              *)
LEMMA PacketsUntouched ==
  ASSUME Delivery, UNCHANGED <<arrived, source, queue, held, processed, dropped>>
  PROVE  Delivery'
  BY DEF Delivery, InOrder, NoneMissing, WorkersApart, InSource, InQueue, Offered,
         InWorkers, Sorted

(* Every step keeps the packets in order.                                  *)
LEMMA StepDelivers ==
  ASSUME IInv, Delivery, [Next]_vars
  PROVE  Delivery'
<1> USE DEF IInv
<1>1. CASE Start \/ StartFails \/ Cancel \/ CloseStopChan \/ CloseHandle \/ StopReturns
  BY <1>1, PacketsUntouched DEF Start, StartFails, Cancel, CloseStopChan, CloseHandle,
                               StopReturns, env, chan, stats
<1>2. CASE Arrive
  BY <1>2, ArriveDelivers
<1>3. CASE SourceEnds \/ OpenSource \/ LeaveCapture
  BY <1>3, PacketsUntouched DEF SourceEnds, OpenSource, LeaveCapture, CloseQueue,
                               env, chan, stats
<1>4. CASE Receive
  BY <1>4, ReceiveDelivers
<1>5. CASE Offer
  BY <1>5, OfferDelivers
<1>6. ASSUME NEW w \in Worker, Take(w) PROVE Delivery'
  BY <1>6, TakeDelivers
<1>7. ASSUME NEW w \in Worker, Process(w) PROVE Delivery'
  BY <1>7, ProcessDelivers
<1>8. ASSUME NEW w \in Worker, LeaveWorker(w) PROVE Delivery'
  BY <1>8, PacketsUntouched DEF LeaveWorker, env, chan, stats
<1>9. CASE MaintenanceLoop
  BY <1>9, PacketsUntouched DEF MaintenanceLoop, TickerFires, Poll, Evict, MaintenanceStep,
                               LeaveMaintenance, env, chan, stats
<1>10. CASE UNCHANGED vars
  BY <1>10, PacketsUntouched DEF vars, env, chan, stats
<1> QED
  BY <1>1, <1>2, <1>3, <1>4, <1>5, <1>6, <1>7, <1>8, <1>9, <1>10
     DEF Next, CaptureLoop, WorkerLoop

(* A worker leaves an empty, closed channel, which nothing enters again:   *)
(* captureLoop, the only one to send, is gone.                             *)
LEMMA StepLeavesNothing ==
  ASSUME IInv, NothingLeftBehind, [Next]_vars
  PROVE  NothingLeftBehind'
<1> USE DEF IInv, NothingLeftBehind
<1>1. CASE Start
  BY <1>1 DEF Start, Lifecycle, TypeOK, Loop, chan
<1>2. CASE StartFails \/ Cancel \/ CloseStopChan \/ CloseHandle \/ StopReturns
  BY <1>2 DEF StartFails, Cancel, CloseStopChan, CloseHandle, StopReturns, Lifecycle, chan
<1>3. CASE Arrive \/ SourceEnds
  BY <1>3 DEF Arrive, SourceEnds, main, chan
<1>4. CASE OpenSource
  BY <1>4 DEF OpenSource, main, chan
<1>5. CASE Receive
  <2>1. \A w \in Worker : held'[w] = held[w]
    BY <1>5, CaptureAssumption DEF Receive, TypeOK
  <2> QED
    BY <1>5, <2>1 DEF Receive, main, chan
<1>6. CASE Offer
  <2>1. \A w \in Worker : held'[w] = held[w]
    BY <1>6, CaptureAssumption DEF Offer, TypeOK
  <2>2. queueOpen
    BY <1>6 DEF Offer, Lifecycle
  <2> QED
    BY <1>6, <2>1, <2>2 DEF Offer, main
<1>7. CASE LeaveCapture
  BY <1>7, CaptureAssumption DEF LeaveCapture, CloseQueue, main
<1>8. ASSUME NEW w \in Worker, Take(w) PROVE NothingLeftBehind'
  BY <1>8, CaptureAssumption DEF Take, TypeOK, main
<1>9. ASSUME NEW w \in Worker, Process(w) PROVE NothingLeftBehind'
  BY <1>9, CaptureAssumption DEF Process, TypeOK, main, chan
<1>10. ASSUME NEW w \in Worker, LeaveWorker(w) PROVE NothingLeftBehind'
  <2>1. /\ wg' = wg \ {w} /\ held[w] = None /\ w # "capture"
        /\ UNCHANGED <<engine, cancelled, queue, queueOpen, held, capture>>
    BY <1>10, CaptureAssumption DEF LeaveWorker, main, chan
  <2>2. cancelled \/ (queue = <<>> /\ ~queueOpen)
    BY <1>10 DEF LeaveWorker, WorkerMayLeave
  <2> QED
    BY <2>1, <2>2
<1>11. CASE MaintenanceLoop
  BY <1>11, CaptureAssumption
     DEF MaintenanceLoop, TickerFires, Poll, Evict, MaintenanceStep, LeaveMaintenance, main, chan
<1>12. CASE UNCHANGED vars
  BY <1>12 DEF vars, main, chan
<1> QED
  BY <1>1, <1>2, <1>3, <1>4, <1>5, <1>6, <1>7, <1>8, <1>9, <1>10, <1>11, <1>12
     DEF Next, CaptureLoop, WorkerLoop

(* The inductive invariant holds in every reachable state.                 *)
THEOREM DeliveryInvariant == Spec => [](IInv /\ Delivery /\ NothingLeftBehind)
<1>1. Init => Delivery /\ NothingLeftBehind
  BY InitDelivers
<1>2. IInv /\ Delivery /\ NothingLeftBehind /\ [Next]_vars
        => (Delivery /\ NothingLeftBehind)'
  BY StepDelivers, StepLeavesNothing
<1> QED
  BY <1>1, <1>2, InductiveInvariant, PTL DEF Spec

-----------------------------------------------------------------------------
(* The packets in hand are the one offered and those of the workers.       *)
LEMMA HeldIs == TypeOK => Held = Offered \cup InWorkers
  BY DEF TypeOK, Held, Offered, InWorkers

(* No packet is twice in a sorted sequence.                                *)
LEMMA SortedIsInjective ==
  ASSUME NEW s \in Seq(Packet), Sorted(s)
  PROVE  IsInjective(s)
<1> SUFFICES ASSUME NEW i \in DOMAIN s, NEW j \in DOMAIN s, s[i] = s[j]
             PROVE  i = j
  BY DEF IsInjective
<1>1. i \in 1..Len(s) /\ j \in 1..Len(s) /\ s[i] \in Packet /\ s[j] \in Packet
  OBVIOUS
<1>2. s[i] \in Int /\ s[j] \in Int /\ i \in Int /\ j \in Int
  BY <1>1, CaptureAssumption DEF Packet
<1> QED
  BY <1>1, <1>2 DEF Sorted

(* No packet is lost on the way and none is processed twice.               *)
THEOREM NoneLostNoneTwice == Spec => []EveryPacketInOnePlace
<1>1. IInv /\ Delivery => EveryPacketInOnePlace
  <2> SUFFICES ASSUME IInv, Delivery PROVE EveryPacketInOnePlace
    OBVIOUS
  <2> USE DEF IInv
  <2> DEFINE places == <<InSource, InQueue, Held, processed, dropped>>
  <2>1. UNION ToSet(places) = InSource \cup InQueue \cup Held \cup processed \cup dropped
    BY DEF ToSet
  <2>2. UNION ToSet(places) = 1..arrived
    BY <2>1, HeldIs DEF NoneMissing, Delivery
  <2>3. \A i, j \in 1..Len(places) : i # j => places[i] \cap places[j] = {}
    <3>1. /\ InSource \cap (InQueue \cup Held \cup processed \cup dropped) = {}
          /\ InQueue \cap (Held \cup processed \cup dropped) = {}
          /\ Held \cap (processed \cup dropped) = {}
          /\ processed \cap dropped = {}
      BY PlacesHoldPackets, HeldIs DEF Delivery, InOrder
    <3>2. 1..Len(places) = {1, 2, 3, 4, 5}
      OBVIOUS
    <3>3. /\ places[1] = InSource /\ places[2] = InQueue /\ places[3] = Held
          /\ places[4] = processed /\ places[5] = dropped
      OBVIOUS
    <3> HIDE DEF places
    <3>4. ASSUME NEW i \in {1, 2, 3, 4, 5}, NEW j \in {1, 2, 3, 4, 5}, i < j
          PROVE  places[i] \cap places[j] = {}
      <4>1. CASE i = 1
        BY <3>1, <3>3, <3>4, <4>1
      <4>2. CASE i = 2
        BY <3>1, <3>3, <3>4, <4>2
      <4>3. CASE i = 3
        BY <3>1, <3>3, <3>4, <4>3
      <4>4. CASE i = 4
        BY <3>1, <3>3, <3>4, <4>4
      <4> QED
        BY <3>4, <4>1, <4>2, <4>3, <4>4
    <3>5. ASSUME NEW i \in {1, 2, 3, 4, 5}, NEW j \in {1, 2, 3, 4, 5}, i # j
          PROVE  places[i] \cap places[j] = {}
      <4>1. CASE i < j
        BY <3>4, <4>1
      <4>2. CASE j < i
        BY <3>4, <4>2
      <4> QED
        BY <3>5, <4>1, <4>2
    <3> QED
      BY <3>2, <3>5
  <2>4. IsInjective(source) /\ IsInjective(queue)
    BY SortedIsInjective DEF Delivery, InOrder, TypeOK
  <2>5. \A g, h \in DOMAIN held : held[g] = held[h] /\ held[g] # None => g = h
    <3>1. DOMAIN held = Worker \cup {"capture"}
      BY DEF TypeOK
    <3>2. \A w \in Worker : held[w] = held["capture"] => held[w] = None
      BY PlacesHoldPackets DEF Delivery, InOrder, Offered, InWorkers
    <3> QED
      BY <3>1, <3>2 DEF Delivery, WorkersApart
  <2> QED
    BY <2>2, <2>3, <2>4, <2>5 DEF EveryPacketInOnePlace, InSource, InQueue
<1> QED
  BY <1>1, DeliveryInvariant, PTL

(* Nothing is on its way between captureLoop and the workers.              *)
Emptied == queue = <<>> /\ capture # "offer" /\ \A w \in Worker : held[w] = None

(* Then every packet that captureLoop had received has arrived somewhere.  *)
LEMMA EmptiedIsDrained ==
  ASSUME IInv, Delivery, Emptied
  PROVE  processed \cup dropped = (1..arrived) \ ToSet(source)
<1> USE DEF IInv, Emptied
<1>1. InQueue = {} /\ InWorkers = {}
  BY DEF InQueue, InWorkers, ToSet
<1>2. Offered = {}
  BY DEF Lifecycle, Offered
<1>3. InSource \cap (processed \cup dropped) = {}
  BY PlacesHoldPackets DEF Delivery, InOrder
<1> QED
  BY <1>1, <1>2, <1>3 DEF Delivery, NoneMissing, InSource

(* It is so when all the goroutines have left, unless they were cancelled. *)
LEMMA AllLeftEmptied ==
  ASSUME IInv, NothingLeftBehind, wg = {}, engine \notin {"new", "failed"}, ~cancelled
  PROVE  Emptied
  BY CaptureAssumption DEF NothingLeftBehind, Emptied

(* When the user has quit, every packet that captureLoop had received was  *)
(* processed or counted as dropped, for any number of workers, although    *)
(* each of them leaves by itself.                                          *)
THEOREM QuitDrains == Spec => []DrainedOnQuit
<1>1. IInv /\ Delivery /\ NothingLeftBehind => DrainedOnQuit
  <2> SUFFICES ASSUME IInv, Delivery, NothingLeftBehind, engine = "stopped", ~cancelled
               PROVE  processed \cup dropped = (1..arrived) \ ToSet(source)
    BY DEF DrainedOnQuit
  <2>1. wg = {}
    BY DEF IInv, Lifecycle
  <2>2. Emptied
    BY <2>1, AllLeftEmptied
  <2> QED
    BY <2>2, EmptiedIsDrained
<1> QED
  BY <1>1, DeliveryInvariant, PTL

(* Packets overtake each other in the hands of the workers only, however   *)
(* many there are.                                                         *)
THEOREM OvertakenInWorkersOnly == Spec => []ReorderingIsBounded
<1>1. IInv /\ Delivery => ReorderingIsBounded
  <2> SUFFICES ASSUME IInv, Delivery, NEW p \in processed, NEW q \in 1..(p - 1)
               PROVE  q \in processed \cup dropped \cup Held
    BY DEF ReorderingIsBounded
  <2> USE DEF IInv
  <2>1. p \in 1..arrived /\ p \in Int /\ arrived \in Nat
    BY PlacesHoldPackets DEF Delivery, NoneMissing, TypeOK
  <2>2. q \in 1..arrived /\ q < p
    BY <2>1
  <2>3. q \notin InSource /\ q \notin InQueue
    <3>1. \A x \in InSource \cup InQueue : p < x
      BY DEF Delivery, InOrder
    <3> QED
      BY <2>1, <2>2, <3>1
  <2> QED
    BY <2>2, <2>3, HeldIs DEF Delivery, NoneMissing
<1> QED
  BY <1>1, DeliveryInvariant, PTL
=============================================================================
