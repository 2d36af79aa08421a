---------------------------- MODULE CaptureEngine ----------------------------
(***************************************************************************)
(* The capture engine (capture.go): one goroutine moves packets from the   *)
(* pcap source to a bounded channel without ever waiting for room, several *)
(* workers process what is in the channel, one goroutine polls the kernel  *)
(* counters and evicts idle flows, and main starts and stops them.         *)
(*                                                                         *)
(* A goroutine takes one step per channel operation, per call that others  *)
(* can observe, and per exit.  Packets are numbered as they arrive, and    *)
(* what a worker does with one is a single step (PacketAudit takes         *)
(* processPacket apart).                                                   *)
(*                                                                         *)
(* External, modelled from how captureLoop uses it: the gopacket source,   *)
(* a goroutine that reads the handle into a channel and closes that        *)
(* channel when the handle is closed or fails for good.                    *)
(***************************************************************************)
EXTENDS Integers, Sequences, FiniteSets, SequencesExt

CONSTANTS
  Worker,     \* the worker goroutines (numWorkers of them)
  QueueCap,   \* capacity of packetChan
  MaxPackets  \* bound: packets that arrive

ASSUME CaptureAssumption ==
  /\ IsFiniteSet(Worker) /\ Worker # {} /\ {"capture", "maintenance"} \cap Worker = {}
  /\ QueueCap \in Nat \ {0}
  /\ MaxPackets \in Nat

VARIABLES
  engine,       \* where main is: before Start, failed, running, in Stop
  handle,       \* the pcap handle
  cancelled,    \* ctx is done
  stopping,     \* stopChan is closed
  wg,           \* the goroutines the WaitGroup counts
  arrived,      \* how many packets the source has read
  source,       \* the channel of the gopacket source
  sourceOpen,   \* that channel exists and has not been closed
  queue,        \* packetChan
  queueOpen,    \* packetChan has not been closed
  capture,      \* where captureLoop is
  held,         \* the packet in the hands of captureLoop and of each worker
  maintenance,  \* where maintenanceLoop is
  processed,    \* the packets that went through processPacket
  dropped       \* the packets counted by RecordQueueDrop

main  == <<engine, handle, cancelled, stopping>>
env   == <<arrived, source, sourceOpen>>
chan  == <<queue, queueOpen>>
stats == <<processed, dropped>>
vars  == <<main, env, chan, stats, wg, capture, held, maintenance>>

None == 0  \* no packet

Packet == 1..MaxPackets

Loop == Worker \cup {"capture", "maintenance"}

Init ==
  /\ engine = "new" /\ handle = "none" /\ cancelled = FALSE /\ stopping = FALSE
  /\ wg = {}
  /\ arrived = 0 /\ source = <<>> /\ sourceOpen = FALSE
  /\ queue = <<>> /\ queueOpen = TRUE
  /\ capture = "open" /\ maintenance = "select"
  /\ held = [g \in Worker \cup {"capture"} |-> None]
  /\ processed = {} /\ dropped = {}

-----------------------------------------------------------------------------
(* Start opens the handle and launches the goroutines.                     *)
Start ==
  /\ engine = "new"
  /\ engine' = "running"
  /\ handle' = "open"
  /\ wg' = Loop
  /\ UNCHANGED <<cancelled, stopping, env, chan, stats, capture, held, maintenance>>

(* Start fails: the handle cannot be opened, or it is opened and closed    *)
(* again because the BPF filter does not compile.  main exits.             *)
StartFails ==
  /\ engine = "new"
  /\ engine' = "failed"
  /\ handle' \in {"none", "closed"}
  /\ UNCHANGED <<cancelled, stopping, wg, env, chan, stats, capture, held, maintenance>>

(* The signal goroutine of main cancels the context, at any time.          *)
Cancel ==
  /\ engine \notin {"new", "failed"}
  /\ ~cancelled
  /\ cancelled' = TRUE
  /\ UNCHANGED <<engine, handle, stopping, wg, env, chan, stats, capture, held, maintenance>>

(* The gopacket source: a packet arrives (the one being read while the     *)
(* handle is closed still does), or reading ends for good.                 *)
Arrive ==
  /\ sourceOpen
  /\ arrived < MaxPackets
  /\ arrived' = arrived + 1
  /\ source' = Append(source, arrived + 1)
  /\ UNCHANGED <<main, sourceOpen, chan, stats, wg, capture, held, maintenance>>

SourceEnds ==
  /\ sourceOpen
  /\ sourceOpen' = FALSE
  /\ UNCHANGED <<main, arrived, source, chan, stats, wg, capture, held, maintenance>>

-----------------------------------------------------------------------------
(* captureLoop asks the handle for its link type and creates the source.   *)
OpenSource ==
  /\ "capture" \in wg
  /\ capture = "open"
  /\ capture' = "select"
  /\ sourceOpen' = TRUE
  /\ UNCHANGED <<main, arrived, source, chan, stats, wg, held, maintenance>>

(* Its select receives a packet.                                           *)
Receive ==
  /\ "capture" \in wg
  /\ capture = "select"
  /\ source # <<>>
  /\ capture' = "offer"
  /\ held' = [held EXCEPT !["capture"] = Head(source)]
  /\ source' = Tail(source)
  /\ UNCHANGED <<main, arrived, sourceOpen, chan, stats, wg, maintenance>>

(* Mutant: one packet too many is let in.                                  *)
HasRoomForOneMore == Len(queue) <= QueueCap

HasRoom == Len(queue) < QueueCap

(* Mutant: a drop is not counted.                                          *)
DropSilently(p) == dropped' = dropped

RecordQueueDrop(p) == dropped' = dropped \cup {p}

(* The send that never waits: a full channel drops the packet.             *)
Offer ==
  /\ "capture" \in wg
  /\ capture = "offer"
  /\ capture' = "select"
  /\ held' = [held EXCEPT !["capture"] = None]
  /\ \/ HasRoom /\ queue' = Append(queue, held["capture"]) /\ UNCHANGED dropped
     \/ ~HasRoom /\ RecordQueueDrop(held["capture"]) /\ UNCHANGED queue
  /\ UNCHANGED <<main, env, queueOpen, processed, wg, maintenance>>

(* Mutant: the deferred close of packetChan is missing.                    *)
LeaveQueueOpen == queueOpen' = queueOpen

CloseQueue == queueOpen' = FALSE

(* captureLoop returns: the deferred calls close packetChan, then wg.Done. *)
LeaveCapture ==
  /\ "capture" \in wg
  /\ capture = "select"
  /\ cancelled \/ stopping \/ (source = <<>> /\ ~sourceOpen)
  /\ CloseQueue
  /\ wg' = wg \ {"capture"}
  /\ UNCHANGED <<main, env, queue, stats, capture, held, maintenance>>

-----------------------------------------------------------------------------
(* Mutant: the newest packet is taken first.                               *)
NewestFirst(q) == [packet |-> Last(q), rest |-> Front(q)]

Dequeued(q) == [packet |-> Head(q), rest |-> Tail(q)]

Take(w) ==
  /\ w \in wg
  /\ held[w] = None
  /\ queue # <<>>
  /\ held' = [held EXCEPT ![w] = Dequeued(queue).packet]
  /\ queue' = Dequeued(queue).rest
  /\ UNCHANGED <<main, env, queueOpen, stats, wg, capture, maintenance>>

(* processPacket returns.                                                  *)
Process(w) ==
  /\ w \in wg
  /\ held[w] # None
  /\ held' = [held EXCEPT ![w] = None]
  /\ processed' = processed \cup {held[w]}
  /\ UNCHANGED <<main, env, chan, dropped, wg, capture, maintenance>>

(* Mutant: a worker returns on stopChan too, as the other loops do.        *)
WorkerIsToldToStop == cancelled \/ stopping \/ (queue = <<>> /\ ~queueOpen)

(* The context is done, or the channel is closed and empty.                *)
WorkerMayLeave == cancelled \/ (queue = <<>> /\ ~queueOpen)

LeaveWorker(w) ==
  /\ w \in wg
  /\ held[w] = None
  /\ WorkerMayLeave
  /\ wg' = wg \ {w}
  /\ UNCHANGED <<main, env, chan, stats, capture, held, maintenance>>

-----------------------------------------------------------------------------
MaintenanceStep(from, to) ==
  /\ "maintenance" \in wg
  /\ maintenance = from
  /\ maintenance' = to
  /\ UNCHANGED <<main, env, chan, stats, wg, capture, held>>

(* The ticker fires, every two seconds.                                    *)
TickerFires == MaintenanceStep("select", "poll")

(* handle.Stats: c.handle is never reset, so the call is made whatever     *)
(* became of the handle.                                                   *)
Poll == MaintenanceStep("poll", "evict")

(* conntrack.EvictStale.                                                   *)
Evict == MaintenanceStep("evict", "select")

LeaveMaintenance ==
  /\ "maintenance" \in wg
  /\ maintenance = "select"
  /\ cancelled \/ stopping
  /\ wg' = wg \ {"maintenance"}
  /\ UNCHANGED <<main, env, chan, stats, capture, held, maintenance>>

-----------------------------------------------------------------------------
(* Mutant: Stop closes packetChan too, to wake the workers up.             *)
CloseBothChannels ==
  /\ engine = "running"
  /\ engine' = "closing"
  /\ stopping' = TRUE
  /\ queueOpen' = FALSE
  /\ UNCHANGED <<handle, cancelled, env, queue, stats, wg, capture, held, maintenance>>

(* Stop, called once by main when the terminal interface has returned: it  *)
(* closes stopChan, closes the handle, and waits for all the goroutines.   *)
CloseStopChan ==
  /\ engine = "running"
  /\ engine' = "closing"
  /\ stopping' = TRUE
  /\ UNCHANGED <<handle, cancelled, env, chan, stats, wg, capture, held, maintenance>>

CloseHandle ==
  /\ engine = "closing"
  /\ engine' = "waiting"
  /\ handle' = "closed"
  /\ UNCHANGED <<cancelled, stopping, env, chan, stats, wg, capture, held, maintenance>>

(* Mutant: wg.Add(1) is forgotten for maintenanceLoop.                     *)
AllDoneButMaintenance == wg \subseteq {"maintenance"}

AllDone == wg = {}

StopReturns ==
  /\ engine = "waiting"
  /\ AllDone
  /\ engine' = "stopped"
  /\ UNCHANGED <<handle, cancelled, stopping, env, chan, stats, wg, capture, held, maintenance>>

-----------------------------------------------------------------------------
CaptureLoop     == OpenSource \/ Receive \/ Offer \/ LeaveCapture
WorkerLoop(w)   == Take(w) \/ Process(w) \/ LeaveWorker(w)
MaintenanceLoop == TickerFires \/ Poll \/ Evict \/ LeaveMaintenance

Next ==
  \/ Start \/ StartFails \/ Cancel
  \/ Arrive \/ SourceEnds
  \/ CaptureLoop
  \/ \E w \in Worker : WorkerLoop(w)
  \/ MaintenanceLoop
  \/ CloseStopChan \/ CloseHandle \/ StopReturns

Spec == Init /\ [][Next]_vars

(* A goroutine that can run does; a select takes each of its ready cases   *)
(* with the same probability, so a stop case that is ready again and again *)
(* is taken; Stop goes on once called.  Nothing obliges anyone to start,   *)
(* to call Stop or to cancel, or the source to read or to end.             *)
FairSpec ==
  /\ Spec
  /\ WF_vars(CaptureLoop) /\ SF_vars(LeaveCapture)
  /\ \A w \in Worker : WF_vars(WorkerLoop(w))
  /\ WF_vars(MaintenanceLoop) /\ SF_vars(LeaveMaintenance)
  /\ WF_vars(CloseHandle \/ StopReturns)

-----------------------------------------------------------------------------
(* Every variable has a value of its kind; packetChan keeps to its         *)
(* capacity.                                                               *)
TypeOK ==
  /\ engine \in {"new", "failed", "running", "closing", "waiting", "stopped"}
  /\ handle \in {"none", "open", "closed"}
  /\ cancelled \in BOOLEAN /\ stopping \in BOOLEAN
  /\ sourceOpen \in BOOLEAN /\ queueOpen \in BOOLEAN
  /\ wg \subseteq Loop
  /\ arrived \in 0..MaxPackets
  /\ source \in Seq(Packet)
  /\ queue \in Seq(Packet) /\ Len(queue) <= QueueCap
  /\ capture \in {"open", "select", "offer"}
  /\ held \in [Worker \cup {"capture"} -> Packet \cup {None}]
  /\ maintenance \in {"select", "poll", "evict"}
  /\ processed \subseteq Packet /\ dropped \subseteq Packet

Held == {held[g] : g \in DOMAIN held} \ {None}

(* A packet is in one place: it is waiting in one of the two channels, in  *)
(* the hands of one goroutine, processed, or counted as dropped.  None is  *)
(* lost on the way, and none is processed twice (captureLoop, workerLoop). *)
EveryPacketInOnePlace ==
  LET places == <<ToSet(source), ToSet(queue), Held, processed, dropped>>
  IN  /\ UNION ToSet(places) = 1..arrived
      /\ \A i, j \in 1..Len(places) : i # j => places[i] \cap places[j] = {}
      /\ IsInjective(source) /\ IsInjective(queue)
      /\ \A g, h \in DOMAIN held : held[g] = held[h] /\ held[g] # None => g = h

(* captureLoop never has a packet to send on a packetChan that is closed,  *)
(* which would be a panic: no one else closes it, and it does so last.     *)
NoSendOnClosed == "capture" \in wg => queueOpen

(* When Stop has returned without the context having been cancelled, the   *)
(* way 'q' ends the program, every packet that captureLoop had received    *)
(* was processed or counted as dropped (workerLoop drains packetChan).     *)
DrainedOnQuit ==
  engine = "stopped" /\ ~cancelled =>
    processed \cup dropped = (1..arrived) \ ToSet(source)

(* Whatever the order in which the workers finish, a packet that was       *)
(* accepted before a processed one is processed too or in the hands of     *)
(* another worker: a packet is overtaken by others, never by those that    *)
(* entered packetChan after it while it was still there.                   *)
ReorderingIsBounded ==
  \A p \in processed : \A q \in 1..(p - 1) : q \in processed \cup dropped \cup Held

(* Once Stop has returned nothing of the engine moves: main goes on to     *)
(* cancel the context and to close the log.                                *)
EngineIsQuiet == engine = "stopped" => UNCHANGED <<chan, stats, wg, capture, held, maintenance>>

QuietAfterStop == [][EngineIsQuiet]_vars

(* Stop returns once called.                                               *)
StopTerminates == engine = "closing" ~> engine = "stopped"

(* A packet that entered packetChan is processed, unless the context is    *)
(* cancelled first.                                                        *)
AcceptedIsProcessed ==
  \A p \in Packet : p \in ToSet(queue) ~> (p \in processed \/ cancelled)

(* The handle is used by captureLoop and by maintenanceLoop only while it  *)
(* is open ("Stop cleanly terminates capture and releases pcap resources", *)
(* capture.go:326).  Stop closes it before it waits for either, so the     *)
(* code does not keep to this.                                             *)
HandleOpenWhenUsed == [][OpenSource \/ Poll => handle = "open"]_vars
=============================================================================
