------------------------- MODULE CaptureEngineProofs -------------------------
(***************************************************************************)
(* What TLAPS proves about the capture engine, for every number of         *)
(* workers, capacity of packetChan and number of packets.                  *)
(***************************************************************************)
EXTENDS CaptureEngine, SequenceTheorems, TLAPS

-----------------------------------------------------------------------------
(* packetChan is open as long as captureLoop is alive, which is the case   *)
(* from Start on; nothing is alive before Start and after Stop; and        *)
(* captureLoop has a packet exactly between receiving and offering it.     *)
Lifecycle ==
  /\ engine \in {"new", "failed", "stopped"} => wg = {}
  /\ engine = "new" => queueOpen
  /\ "capture" \in wg => queueOpen
  /\ capture = "offer" <=> held["capture"] # None

IInv == TypeOK /\ Lifecycle

(* Before Start nothing runs, and packetChan is open (NewCaptureEngine).   *)
LEMMA InitEstablishes == Init => IInv
<1> SUFFICES ASSUME Init PROVE IInv
  OBVIOUS
<1>1. held \in [Worker \cup {"capture"} -> Packet \cup {None}] /\ held["capture"] = None
  BY DEF Init
<1>2. source \in Seq(Packet) /\ queue \in Seq(Packet) /\ Len(queue) <= QueueCap
  BY CaptureAssumption, EmptySeq DEF Init
<1>3. arrived \in 0..MaxPackets
  BY CaptureAssumption DEF Init
<1>4. TypeOK
  BY <1>1, <1>2, <1>3 DEF Init, TypeOK
<1>5. Lifecycle
  BY <1>1 DEF Init, Lifecycle
<1>6. QED
  BY <1>4, <1>5 DEF IInv

USE DEF IInv, TypeOK, Lifecycle, Loop, Packet, None, main, env, chan, stats

(* Start, its failures, Stop and the signal goroutine keep the invariant.  *)
LEMMA MainPreserves ==
  ASSUME IInv,
         \/ Start \/ StartFails \/ Cancel
         \/ CloseStopChan \/ CloseHandle \/ StopReturns
  PROVE  IInv'
<1>1. CASE Start
  BY <1>1 DEF Start
<1>2. CASE StartFails
  BY <1>2 DEF StartFails
<1>3. CASE Cancel
  BY <1>3 DEF Cancel
<1>4. CASE CloseStopChan
  BY <1>4 DEF CloseStopChan
<1>5. CASE CloseHandle
  BY <1>5 DEF CloseHandle
<1>6. CASE StopReturns
  BY <1>6 DEF StopReturns, AllDone
<1>7. QED
  BY <1>1, <1>2, <1>3, <1>4, <1>5, <1>6

(* The gopacket source keeps it.                                           *)
LEMMA SourcePreserves ==
  ASSUME IInv, Arrive \/ SourceEnds
  PROVE  IInv'
<1>1. CASE Arrive
  <2>1. arrived + 1 \in Packet /\ arrived + 1 \in 0..MaxPackets
    BY <1>1, CaptureAssumption DEF Arrive
  <2>2. source' \in Seq(Packet)
    BY <1>1, <2>1, AppendProperties DEF Arrive
  <2>3. arrived' \in 0..MaxPackets
    BY <1>1, <2>1 DEF Arrive
  <2>4. UNCHANGED <<main, sourceOpen, chan, stats, wg, capture, held, maintenance>>
    BY <1>1 DEF Arrive
  <2>5. QED
    BY <2>2, <2>3, <2>4
<1>2. CASE SourceEnds
  <2>1. sourceOpen' \in BOOLEAN
    BY <1>2 DEF SourceEnds
  <2>2. UNCHANGED <<main, arrived, source, chan, stats, wg, capture, held, maintenance>>
    BY <1>2 DEF SourceEnds
  <2>3. QED
    BY <2>1, <2>2
<1>3. QED
  BY <1>1, <1>2

(* captureLoop keeps it.                                                   *)
LEMMA CaptureLoopPreserves ==
  ASSUME IInv, CaptureLoop
  PROVE  IInv'
<1>1. CASE OpenSource
  BY <1>1 DEF OpenSource
<1>2. CASE Receive
  <2>1. Head(source) \in Packet /\ Tail(source) \in Seq(Packet)
    BY <1>2, HeadTailProperties DEF Receive
  <2>2. QED
    BY <1>2, <2>1, CaptureAssumption DEF Receive
<1>3. CASE Offer
  <2>1. held["capture"] \in Packet
    BY <1>3 DEF Offer
  <2>2. queue' \in Seq(Packet) /\ Len(queue') <= QueueCap
    <3>1. Len(queue) \in Nat
      BY LenProperties
    <3>2. CASE queue' = queue
      BY <3>2
    <3>3. CASE HasRoom /\ queue' = Append(queue, held["capture"])
      <4>1. queue' \in Seq(Packet) /\ Len(queue') = Len(queue) + 1
        BY <2>1, <3>3, AppendProperties
      <4>2. QED
        BY <3>1, <3>3, <4>1, CaptureAssumption DEF HasRoom
    <3>4. QED
      BY <1>3, <3>2, <3>3 DEF Offer
  <2>3. dropped' \subseteq Packet
    BY <1>3, <2>1 DEF Offer, RecordQueueDrop
  <2>4. QED
    BY <1>3, <2>2, <2>3 DEF Offer
<1>4. CASE LeaveCapture
  BY <1>4 DEF LeaveCapture, CloseQueue
<1>5. QED
  BY <1>1, <1>2, <1>3, <1>4 DEF CaptureLoop

(* Every worker keeps it.                                                  *)
LEMMA WorkerLoopPreserves ==
  ASSUME IInv, NEW w \in Worker, WorkerLoop(w)
  PROVE  IInv'
<1> w # "capture"
  BY CaptureAssumption
<1>1. CASE Take(w)
  <2>1. /\ Head(queue) \in Packet /\ Tail(queue) \in Seq(Packet)
        /\ Len(Tail(queue)) <= QueueCap
    BY <1>1, CaptureAssumption, HeadTailProperties, LenProperties DEF Take
  <2>2. QED
    BY <1>1, <2>1 DEF Take, Dequeued
<1>2. CASE Process(w)
  BY <1>2 DEF Process
<1>3. CASE LeaveWorker(w)
  BY <1>3 DEF LeaveWorker
<1>4. QED
  BY <1>1, <1>2, <1>3 DEF WorkerLoop

(* maintenanceLoop keeps it.                                               *)
LEMMA MaintenanceLoopPreserves ==
  ASSUME IInv, MaintenanceLoop
  PROVE  IInv'
<1>1. ASSUME NEW from, NEW to \in {"select", "poll", "evict"}, MaintenanceStep(from, to)
      PROVE  IInv'
  BY <1>1 DEF MaintenanceStep
<1>2. CASE LeaveMaintenance
  BY <1>2 DEF LeaveMaintenance
<1>3. QED
  BY <1>1, <1>2 DEF MaintenanceLoop, TickerFires, Poll, Evict

(* Every step keeps it.                                                    *)
LEMMA NextPreserves == IInv /\ [Next]_vars => IInv'
<1> SUFFICES ASSUME IInv, [Next]_vars PROVE IInv'
  OBVIOUS
<1>1. CASE UNCHANGED vars
  BY <1>1 DEF vars
<1>2. CASE Next
  <2> USE DEF Next
  <2>1. QED
    BY <1>2, MainPreserves, SourcePreserves, CaptureLoopPreserves,
       WorkerLoopPreserves, MaintenanceLoopPreserves
<1>3. QED
  BY <1>1, <1>2

(* The inductive invariant holds in every reachable state.                 *)
THEOREM InductiveInvariant == Spec => []IInv
BY InitEstablishes, NextPreserves, PTL DEF Spec

-----------------------------------------------------------------------------
(* Every variable keeps to its kind, and packetChan to its capacity, for   *)
(* any number of workers and packets.                                      *)
THEOREM TypeCorrect == Spec => []TypeOK
<1>1. IInv => TypeOK
  OBVIOUS
<1>2. QED
  BY <1>1, InductiveInvariant, PTL

(* captureLoop never sends on a closed packetChan.                         *)
THEOREM SendsOnOpenChannelOnly == Spec => []NoSendOnClosed
<1>1. IInv => NoSendOnClosed
  BY DEF NoSendOnClosed
<1>2. QED
  BY <1>1, InductiveInvariant, PTL

(* Nothing of the engine moves once Stop has returned.                     *)
THEOREM StopIsFinal == Spec => QuietAfterStop
<1>1. IInv /\ [Next]_vars => [EngineIsQuiet]_vars
  <2> SUFFICES ASSUME IInv, [Next]_vars, engine = "stopped"
               PROVE  UNCHANGED <<chan, stats, wg, capture, held, maintenance>>
    BY DEF EngineIsQuiet
  <2>1. wg = {}
    OBVIOUS
  <2>2. CASE UNCHANGED vars
    BY <2>2 DEF vars
  <2>3. CASE Start \/ StartFails \/ CloseStopChan \/ CloseHandle \/ StopReturns
    BY <2>3 DEF Start, StartFails, CloseStopChan, CloseHandle, StopReturns
  <2>4. CASE Cancel \/ Arrive \/ SourceEnds
    BY <2>4 DEF Cancel, Arrive, SourceEnds
  <2>5. CASE CaptureLoop
    BY <2>1, <2>5 DEF CaptureLoop, OpenSource, Receive, Offer, LeaveCapture
  <2>6. ASSUME NEW w \in Worker, WorkerLoop(w) PROVE FALSE
    BY <2>1, <2>6 DEF WorkerLoop, Take, Process, LeaveWorker
  <2>7. CASE MaintenanceLoop
    BY <2>1, <2>7 DEF MaintenanceLoop, TickerFires, Poll, Evict,
                      MaintenanceStep, LeaveMaintenance
  <2>8. QED
    BY <2>2, <2>3, <2>4, <2>5, <2>6, <2>7 DEF Next
<1>2. QED
  BY <1>1, InductiveInvariant, PTL DEF Spec, QuietAfterStop
=============================================================================
