--------------------------- MODULE LifecycleProofs ---------------------------
(***************************************************************************)
(* What TLAPS proves about the program from its command line to its exit,  *)
(* for every set of command lines and of devices, and every number of      *)
(* workers, packets and signals.                                           *)
(*                                                                         *)
(* The engine inside the program takes steps of CaptureEngine only, so     *)
(* that what is proved about the engine by itself holds in the program.    *)
(***************************************************************************)
EXTENDS Lifecycle, TLAPS

Packets == INSTANCE CapturePacketProofs

(* What CaptureEngine assumes of its constants.                            *)
LEMMA EngineAssumption == Packets!CaptureAssumption
<1>1. Packets!IsFiniteSet(Worker) <=> IsFiniteSet(Worker)
  BY DEF Packets!IsFiniteSet, IsFiniteSet
<1> QED
  BY <1>1, LifecycleAssumption DEF Packets!CaptureAssumption

-----------------------------------------------------------------------------
(* Where main is, and how the program came to its end.                     *)
BeforeStart == {"parse", "list", "validate", "logger", "find", "choose", "notify", "start"}
Monitoring  == {"launch", "run", "screen", "loop", "quit"}
Deferring   == {"stopping", "waiting", "cancel", "cleanup"}

(* main starts and stops the engine, and gets to the deferred calls when   *)
(* the screen is gone.                                                     *)
MainDrivesEngine ==
  /\ main \in BeforeStart \cup Monitoring \cup Deferring \cup Ended
  /\ main \in BeforeStart => engine = "new"
  /\ main \in Monitoring => engine = "running"
  /\ main = "stopping" => engine = "closing"
  /\ main = "waiting" => engine = "waiting"
  /\ main \in {"cancel", "cleanup"} => engine = "stopped"
  /\ main = "ok" => engine = IF notified THEN "stopped" ELSE "new"
  /\ main \in BeforeStart \ {"start"} => ~notified
  /\ main \in {"start"} \cup Monitoring \cup Deferring => notified
  /\ (main = "quit" \/ main \in Deferring \/ (main = "ok" /\ notified)) => screen = "down"

(* Only the signal goroutine, after a signal, and the last but one of the  *)
(* deferred calls cancel the context; before that nothing is left behind   *)
(* in the engine, and it stays so.                                         *)
CancelledLate ==
  /\ main \in BeforeStart \cup {"launch"} => handler = "none"
  /\ handler \in {"none", "wait", "cancel"} /\ main \notin {"cleanup", "ok"} => ~cancelled
  /\ engine = "stopped" /\ handler = "wait" => Packets!Emptied

(* From ParseCLI on, the configuration is what the command line says, but  *)
(* for the interface; from Validate on it is a sane one.                   *)
AsGiven ==
  /\ DOMAIN cfg = DOMAIN DefaultConfig
  /\ \A flag \in DOMAIN cfg \ {"interfaceName"} : cfg[flag] = ParseCLI(args)[flag]
  /\ ~cfg.showVersion /\ ~cfg.listInterfaces

Sane ==
  /\ AsGiven
  /\ cfg.maxFlows \in Int /\ cfg.maxFlows > 0
  /\ cfg.logLevel.word \in {"DEBUG", "INFO", "WARN", "ERROR"}

Configured ==
  /\ args \in CommandLine
  /\ main = "validate" => AsGiven
  /\ (main \in BeforeStart \ {"parse", "list", "validate"} \/ engine \notin {"new", "failed"}) => Sane
  /\ (main \in {"notify", "start"} \/ engine \notin {"new", "failed"}) => cfg.interfaceName # ""
  /\ main = "choose" => devices \in DeviceLists

(* The log has the level that was asked for, and is closed last.           *)
Logged ==
  /\ main \in {"parse", "list", "validate", "logger"} => log = "none"
  /\ log \in {"none", "standard", "file", "closed"}
  /\ log = "file" => level = cfg.logLevel.word
  /\ log = "closed" => main = "ok" /\ notified /\ level = cfg.logLevel.word

EngineInv == Packets!IInv /\ Packets!Delivery /\ Packets!NothingLeftBehind

IInv == EngineInv /\ MainDrivesEngine /\ CancelledLate /\ Configured /\ Logged

-----------------------------------------------------------------------------
(* The engine's goroutines run by themselves, main and the signal          *)
(* goroutine call it, and nobody else touches what it keeps.               *)
LEMMA ProgramStepsEngine == [Next]_vars => [Engine!Next]_(Engine!vars)
<1> SUFFICES ASSUME [Next]_vars PROVE [Engine!Next]_(Engine!vars)
  OBVIOUS
<1>1. UNCHANGED engineVars => UNCHANGED Engine!vars
  BY DEF engineVars, Engine!vars, Engine!main, Engine!env, Engine!chan, Engine!stats
<1>2. CASE StartEngine
  BY <1>2 DEF StartEngine, Engine!Next
<1>3. CASE Start /\ ~StartEngine
  BY <1>1, <1>3 DEF Start, Startup, ParseArguments, PrintInterfaces, Validate, InitLogger,
       ListInterfaces, ChooseInterface, Notify, LaunchHandler, RunUI, CreateScreen
<1>4. CASE EventLoop \/ RefreshLoop \/ PressQuit \/ Signal
  BY <1>1, <1>4 DEF EventLoop, RunUpdate, LeaveLoop, RefreshLoop, RefreshStep, QueueUpdate,
       NoticeStop, StopFromRefresh, PressQuit, Signal
<1>5. CASE Shutdown
  BY <1>1, <1>5 DEF Shutdown, StopEngine, CancelContext, CloseLog, Engine!Next
<1>6. CASE Handler
  BY <1>1, <1>6 DEF Handler, ReceiveSignal, HandlerCancels, HandlerCloses, HandlerStops,
       Engine!Next
<1>7. CASE CaptureLoop \/ MaintenanceLoop \/ Source
  BY <1>7 DEF CaptureLoop, MaintenanceLoop, Source, EngineStep, Engine!Next
<1>8. ASSUME NEW w \in Worker, WorkerLoop(w) PROVE Engine!Next
  BY <1>8 DEF WorkerLoop, EngineStep, Engine!Next
<1>9. CASE UNCHANGED vars
  BY <1>1, <1>9 DEF vars
<1> QED
  BY <1>2, <1>3, <1>4, <1>5, <1>6, <1>7, <1>8, <1>9 DEF Next

(* The program contains the engine as CaptureEngine specifies it: whatever *)
(* main, the signal goroutine and the interface do, the engine begins in   *)
(* its initial state and takes its own steps only.                         *)
THEOREM ProgramImplementsEngine == Spec => Engine!Spec
<1>1. Init => Engine!Init
  BY DEF Init
<1> QED
  BY <1>1, ProgramStepsEngine, PTL DEF Spec, Engine!Spec

(* The proofs about the engine are about the same steps.                   *)
LEMMA SameEngine ==
  /\ Engine!Init => Packets!Init
  /\ [Engine!Next]_(Engine!vars) => [Packets!Next]_(Packets!vars)
<1> USE DEF Engine!main, Engine!env, Engine!chan, Engine!stats, Engine!vars, Engine!None,
            Packets!main, Packets!env, Packets!chan, Packets!stats, Packets!vars, Packets!None
<1>1. Engine!Init => Packets!Init
  BY DEF Engine!Init, Packets!Init
<1>2. /\ Engine!Start => Packets!Start
      /\ Engine!StartFails => Packets!StartFails
      /\ Engine!Cancel => Packets!Cancel
  BY DEF Engine!Start, Packets!Start, Engine!StartFails, Packets!StartFails,
         Engine!Cancel, Packets!Cancel, Engine!Loop, Packets!Loop
<1>3. /\ Engine!Arrive => Packets!Arrive
      /\ Engine!SourceEnds => Packets!SourceEnds
  BY DEF Engine!Arrive, Packets!Arrive, Engine!SourceEnds, Packets!SourceEnds
<1>4. Engine!CaptureLoop => Packets!CaptureLoop
  BY DEF Engine!CaptureLoop, Packets!CaptureLoop, Engine!OpenSource, Packets!OpenSource,
         Engine!Receive, Packets!Receive, Engine!Offer, Packets!Offer,
         Engine!HasRoom, Packets!HasRoom, Engine!RecordQueueDrop, Packets!RecordQueueDrop,
         Engine!LeaveCapture, Packets!LeaveCapture, Engine!CloseQueue, Packets!CloseQueue
<1>5. \A w \in Worker : Engine!WorkerLoop(w) => Packets!WorkerLoop(w)
  BY DEF Engine!WorkerLoop, Packets!WorkerLoop, Engine!Take, Packets!Take,
         Engine!Dequeued, Packets!Dequeued, Engine!Process, Packets!Process,
         Engine!LeaveWorker, Packets!LeaveWorker, Engine!WorkerMayLeave, Packets!WorkerMayLeave
<1>6. Engine!MaintenanceLoop => Packets!MaintenanceLoop
  BY DEF Engine!MaintenanceLoop, Packets!MaintenanceLoop, Engine!TickerFires,
         Packets!TickerFires, Engine!Poll, Packets!Poll, Engine!Evict, Packets!Evict,
         Engine!MaintenanceStep, Packets!MaintenanceStep,
         Engine!LeaveMaintenance, Packets!LeaveMaintenance
<1>7. /\ Engine!CloseStopChan => Packets!CloseStopChan
      /\ Engine!CloseHandle => Packets!CloseHandle
      /\ Engine!StopReturns => Packets!StopReturns
  BY DEF Engine!CloseStopChan, Packets!CloseStopChan, Engine!CloseHandle,
         Packets!CloseHandle, Engine!StopReturns, Packets!StopReturns,
         Engine!AllDone, Packets!AllDone
<1>8. Engine!Next => Packets!Next
  BY <1>2, <1>3, <1>4, <1>5, <1>6, <1>7 DEF Engine!Next, Packets!Next
<1> QED
  BY <1>1, <1>8

-----------------------------------------------------------------------------
(* The engine's own goroutines do not move main nor what it drives.        *)
LEMMA GoroutinesKeepEngine ==
  /\ CaptureLoop \/ MaintenanceLoop \/ Source =>
       UNCHANGED <<engine, handle, cancelled, stopping, main, setup, signal, ui>>
  /\ \A w \in Worker : WorkerLoop(w) =>
       UNCHANGED <<engine, handle, cancelled, stopping, main, setup, signal, ui>>
<1> USE DEF EngineStep, Engine!main
<1>1. CaptureLoop => UNCHANGED <<engine, handle, cancelled, stopping, main, setup, signal, ui>>
  BY DEF CaptureLoop, Engine!CaptureLoop, Engine!OpenSource, Engine!Receive, Engine!Offer,
         Engine!LeaveCapture
<1>2. MaintenanceLoop => UNCHANGED <<engine, handle, cancelled, stopping, main, setup, signal, ui>>
  BY DEF MaintenanceLoop, Engine!MaintenanceLoop, Engine!TickerFires, Engine!Poll, Engine!Evict,
         Engine!MaintenanceStep, Engine!LeaveMaintenance
<1>3. Source => UNCHANGED <<engine, handle, cancelled, stopping, main, setup, signal, ui>>
  BY DEF Source, Engine!Arrive, Engine!SourceEnds
<1>4. \A w \in Worker : WorkerLoop(w) =>
       UNCHANGED <<engine, handle, cancelled, stopping, main, setup, signal, ui>>
  BY DEF WorkerLoop, Engine!WorkerLoop, Engine!Take, Engine!Process, Engine!LeaveWorker
<1> QED
  BY <1>1, <1>2, <1>3, <1>4

(* main keeps step with the engine.                                        *)
LEMMA StepKeepsMain ==
  ASSUME MainDrivesEngine, [Next]_vars
  PROVE  MainDrivesEngine'
<1> USE DEF MainDrivesEngine, BeforeStart, Monitoring, Deferring, Ended, Running
<1>1. CASE Start /\ ~StartEngine
  <2>1. CASE ParseArguments
    <3>1. main = "parse" /\ main' \in {"error", "ok", "list", "validate"}
      BY <2>1 DEF Startup, ParseArguments
    <3>2. UNCHANGED <<engine, notified, screen>>
      BY <2>1 DEF Startup, ParseArguments, engineVars, ui
    <3> QED
      BY <3>1, <3>2
  <2>2. CASE PrintInterfaces
    BY <2>2 DEF Startup, PrintInterfaces, engineVars, ui
  <2>3. CASE Validate
    <3>1. main = "validate" /\ main' \in {"error", "logger"}
      BY <2>3 DEF Startup, Validate
    <3>2. UNCHANGED <<engine, notified, screen>>
      BY <2>3 DEF Startup, Validate, engineVars, ui
    <3> QED
      BY <3>1, <3>2
  <2>4. CASE InitLogger \/ ListInterfaces \/ ChooseInterface
    <3>1. \/ main = "logger" /\ main' \in {"find", "notify"}
          \/ main = "find" /\ main' \in {"choose", "error"}
          \/ main = "choose" /\ main' \in {"notify", "error"}
      BY <2>4 DEF Startup, InitLogger, ListInterfaces, ChooseInterface
    <3>2. UNCHANGED <<engine, notified, screen>>
      BY <2>4 DEF Startup, InitLogger, ListInterfaces, ChooseInterface, engineVars, ui
    <3> QED
      BY <3>1, <3>2
  <2>5. CASE Notify
    BY <2>5 DEF Startup, Notify, engineVars, ui
  <2>6. CASE LaunchHandler \/ RunUI \/ CreateScreen
    BY <2>6 DEF LaunchHandler, RunUI, CreateScreen, engineVars, signal, ui
  <2> QED
    BY <1>1, <2>1, <2>2, <2>3, <2>4, <2>5, <2>6 DEF Start
<1>2. CASE StartEngine
  BY <1>2 DEF StartEngine, Engine!Start, Engine!StartFails, signal, ui
<1>3. CASE EventLoop \/ PressQuit \/ Signal
  BY <1>3 DEF EventLoop, RunUpdate, LeaveLoop, PressQuit, Signal, AppStop, engineVars, signal, ui
<1>4. CASE RefreshLoop
  BY <1>4 DEF RefreshLoop, RefreshStep, QueueUpdate, NoticeStop, StopFromRefresh, AppStop,
       engineVars, signal
<1>5. CASE Shutdown
  BY <1>5 DEF Shutdown, StopEngine, CancelContext, CloseLog, Deferred, Engine!CloseStopChan,
       Engine!CloseHandle, Engine!StopReturns, Engine!Cancel, engineVars, signal, ui
<1>6. CASE Handler
  BY <1>6 DEF Handler, HandlerStep, ReceiveSignal, HandlerCancels, HandlerCloses, HandlerStops,
       AppStop, Engine!Cancel, engineVars
<1>7. CASE CaptureLoop \/ MaintenanceLoop \/ Source \/ \E w \in Worker : WorkerLoop(w)
  BY <1>7, GoroutinesKeepEngine DEF signal, ui
<1>8. CASE UNCHANGED vars
  BY <1>8 DEF vars, engineVars, signal, ui
<1> QED
  BY <1>1, <1>2, <1>3, <1>4, <1>5, <1>6, <1>7, <1>8 DEF Next

(* What is left in a stopped engine stays as it is.                        *)
LEMMA StaysEmptied ==
  ASSUME Packets!IInv, engine = "stopped", Packets!Emptied, [Engine!Next]_(Engine!vars)
  PROVE  Packets!Emptied'
<1>1. wg = {}
  BY DEF Packets!IInv, Packets!Lifecycle
<1>2. UNCHANGED <<queue, capture, held>>
  BY <1>1 DEF Engine!Next, Engine!Start, Engine!StartFails, Engine!Cancel, Engine!Arrive,
       Engine!SourceEnds, Engine!CaptureLoop, Engine!OpenSource, Engine!Receive,
       Engine!Offer, Engine!LeaveCapture, Engine!WorkerLoop, Engine!Take, Engine!Process,
       Engine!LeaveWorker, Engine!MaintenanceLoop, Engine!TickerFires, Engine!Poll,
       Engine!Evict, Engine!MaintenanceStep, Engine!LeaveMaintenance, Engine!CloseStopChan,
       Engine!CloseHandle, Engine!StopReturns, Engine!chan, Engine!vars
<1> QED
  BY <1>2 DEF Packets!Emptied

(* The context is cancelled late.                                          *)
LEMMA StepCancelsLate ==
  ASSUME EngineInv, MainDrivesEngine, CancelledLate, [Next]_vars
  PROVE  CancelledLate'
<1>1. ASSUME engine = "stopped", handler = "wait" PROVE Packets!Emptied'
  BY <1>1, StaysEmptied, ProgramStepsEngine DEF EngineInv, CancelledLate
<1> USE DEF BeforeStart, Monitoring, Deferring, Ended, Running
<1>2. CASE Start /\ ~StartEngine
  <2>1. engine \in {"new", "running"} /\ engine' = engine /\ cancelled' = cancelled
    BY <1>2 DEF Start, Startup, ParseArguments, PrintInterfaces, Validate, InitLogger,
         ListInterfaces, ChooseInterface, Notify, LaunchHandler, RunUI, CreateScreen,
         engineVars, MainDrivesEngine
  <2> QED
    BY <1>2, <2>1 DEF Start, Startup, ParseArguments, PrintInterfaces, Validate, InitLogger,
         ListInterfaces, ChooseInterface, Notify, LaunchHandler, RunUI, CreateScreen,
         CancelledLate, signal
<1>3. CASE StartEngine
  BY <1>3 DEF StartEngine, Engine!Start, Engine!StartFails, signal, CancelledLate
<1>4. CASE EventLoop \/ PressQuit \/ Signal \/ RefreshLoop
  <2>1. UNCHANGED <<engine, cancelled, handler>>
    BY <1>4 DEF EventLoop, RunUpdate, LeaveLoop, PressQuit, Signal, RefreshLoop,
         RefreshStep, QueueUpdate, NoticeStop, StopFromRefresh, engineVars, signal
  <2>2. main' \in {main, "killed"} \/ (main = "loop" /\ main' = "quit")
    BY <1>4 DEF EventLoop, RunUpdate, LeaveLoop, PressQuit, Signal, RefreshLoop,
         RefreshStep, QueueUpdate, NoticeStop, StopFromRefresh
  <2>3. main' = "killed" => main = "killed" \/ (Running /\ ~notified)
    BY <1>4 DEF EventLoop, RunUpdate, LeaveLoop, PressQuit, Signal, RefreshLoop,
         RefreshStep, QueueUpdate, NoticeStop, StopFromRefresh
  <2> QED
    BY <1>1, <2>1, <2>2, <2>3 DEF CancelledLate, MainDrivesEngine
<1>5. CASE Shutdown
  <2>1. ASSUME main = "waiting", Engine!StopReturns, handler = "wait" PROVE Packets!Emptied'
    <3>1. wg = {} /\ ~cancelled /\ engine \notin {"new", "failed"}
      BY <2>1 DEF Engine!StopReturns, Engine!AllDone, CancelledLate
    <3>2. Packets!Emptied
      BY <3>1, EngineAssumption, Packets!AllLeftEmptied DEF EngineInv
    <3> QED
      BY <2>1, <3>2 DEF Engine!StopReturns, Engine!chan, Packets!Emptied
  <2>2. CASE StopEngine
    BY <1>1, <2>1, <2>2 DEF StopEngine, Deferred, Engine!CloseStopChan,
       Engine!CloseHandle, Engine!StopReturns, signal, CancelledLate
  <2>3. CASE CancelContext
    BY <1>1, <2>3 DEF CancelContext, Deferred, Engine!Cancel, engineVars, signal, CancelledLate
  <2>4. CASE CloseLog
    BY <1>1, <2>4 DEF CloseLog, Deferred, engineVars, signal, CancelledLate
  <2> QED
    BY <1>5, <2>2, <2>3, <2>4 DEF Shutdown
<1>6. CASE Handler
  BY <1>1, <1>6 DEF Handler, HandlerStep, ReceiveSignal, HandlerCancels, HandlerCloses,
       HandlerStops, AppStop, Engine!Cancel, engineVars, CancelledLate
<1>7. CASE CaptureLoop \/ MaintenanceLoop \/ Source \/ \E w \in Worker : WorkerLoop(w)
  BY <1>1, <1>7, GoroutinesKeepEngine DEF signal, CancelledLate
<1>8. CASE UNCHANGED vars
  BY <1>1, <1>8 DEF vars, engineVars, signal, CancelledLate
<1> QED
  BY <1>2, <1>3, <1>4, <1>5, <1>6, <1>7, <1>8 DEF Next

-----------------------------------------------------------------------------
(* The command line decides on every option, and has a number for the      *)
(* limit of flows.                                                         *)
LEMMA ParseGivesOptions ==
  /\ DOMAIN ParseCLI(args) = DOMAIN DefaultConfig
  /\ args \in CommandLine => ParseCLI(args).maxFlows \in Int
<1>1. DOMAIN ParseCLI(args) = DOMAIN DefaultConfig
  BY DEF ParseCLI
<1>2. ParseCLI(args).maxFlows = IF "maxFlows" \in DOMAIN args THEN args["maxFlows"] ELSE 5000
  BY DEF ParseCLI, DefaultConfig
<1>3. args \in CommandLine /\ "maxFlows" \in DOMAIN args => args["maxFlows"] \in Int
  BY LifecycleAssumption
<1> QED
  BY <1>1, <1>2, <1>3

(* Taking an interface leaves the other options as they are.               *)
LEMMA OtherOptionsKept ==
  ASSUME Sane, NEW name, cfg' = [cfg EXCEPT !.interfaceName = name], args' = args
  PROVE  Sane' /\ cfg'.interfaceName = name /\ cfg'.logLevel = cfg.logLevel
<1>1. /\ "interfaceName" \in DOMAIN cfg /\ "logLevel" \in DOMAIN cfg /\ "maxFlows" \in DOMAIN cfg
      /\ "showVersion" \in DOMAIN cfg /\ "listInterfaces" \in DOMAIN cfg
  BY DEF Sane, AsGiven, DefaultConfig
<1>2. DOMAIN cfg' = DOMAIN cfg /\ \A flag \in DOMAIN cfg \ {"interfaceName"} : cfg'[flag] = cfg[flag]
  OBVIOUS
<1>3. /\ cfg'.logLevel = cfg.logLevel /\ cfg'.maxFlows = cfg.maxFlows
      /\ cfg'.showVersion = cfg.showVersion /\ cfg'.listInterfaces = cfg.listInterfaces
      /\ cfg'.interfaceName = name
  BY <1>1
<1>4. AsGiven'
  BY <1>2, <1>3 DEF Sane, AsGiven
<1> QED
  BY <1>3, <1>4 DEF Sane

(* The interface that is taken is one of those that were found.            *)
LEMMA FoundIsDevice ==
  ASSUME NEW found, NEW name \in FindDefaultInterface(found)
  PROVE  \E i \in DOMAIN found : name = found[i].name
  BY DEF FindDefaultInterface, FirstOf

(* What is configured and logged changes in the startup only, but for the  *)
(* closing of the log.                                                     *)
LEMMA SetUpByMain ==
  ASSUME MainDrivesEngine, [Next]_vars
  PROVE  \/ Start
         \/ CloseLog
         \/ /\ UNCHANGED setup
            /\ engine' \in {"new", "failed"} <=> engine \in {"new", "failed"}
            /\ main' \in BeforeStart => main' = main
            /\ main = "ok" => UNCHANGED <<main, notified>>
<1> USE DEF MainDrivesEngine, BeforeStart, Monitoring, Deferring, Ended, Running
<1>1. CASE EventLoop \/ PressQuit \/ Signal \/ RefreshLoop
  BY <1>1 DEF EventLoop, RunUpdate, LeaveLoop, PressQuit, Signal, RefreshLoop,
       RefreshStep, QueueUpdate, NoticeStop, StopFromRefresh, engineVars, signal
<1>2. CASE StopEngine \/ CancelContext
  BY <1>2 DEF StopEngine, CancelContext, Deferred, Engine!CloseStopChan, Engine!CloseHandle,
       Engine!StopReturns, Engine!Cancel, engineVars, signal, setup
<1>3. CASE Handler
  BY <1>3 DEF Handler, HandlerStep, ReceiveSignal, HandlerCancels, HandlerCloses,
       HandlerStops, Engine!Cancel, engineVars
<1>4. CASE CaptureLoop \/ MaintenanceLoop \/ Source \/ \E w \in Worker : WorkerLoop(w)
  BY <1>4, GoroutinesKeepEngine DEF signal
<1>5. CASE UNCHANGED vars
  BY <1>5 DEF vars, engineVars, signal
<1> QED
  BY <1>1, <1>2, <1>3, <1>4, <1>5 DEF Next, Shutdown

(* Every step keeps the configuration.                                     *)
LEMMA StepKeepsConfigured ==
  ASSUME MainDrivesEngine, Configured, [Next]_vars
  PROVE  Configured'
<1> USE DEF BeforeStart, Monitoring, Deferring, Ended
<1>1. CASE ParseArguments
  <2>1. main = "parse" /\ engine = "new" /\ engine' = engine /\ args' = args
    BY <1>1 DEF ParseArguments, Startup, engineVars, MainDrivesEngine
  <2>2. main' \in {"error", "ok", "list", "validate"}
    BY <1>1 DEF ParseArguments, Startup
  <2>3. main' = "validate" => cfg' = ParseCLI(args) /\ ~cfg'.showVersion /\ ~cfg'.listInterfaces
    BY <1>1 DEF ParseArguments, Startup
  <2>4. main' = "validate" => AsGiven'
    BY <2>1, <2>3, ParseGivesOptions DEF AsGiven
  <2> QED
    BY <2>1, <2>2, <2>4 DEF Configured
<1>2. CASE PrintInterfaces
  BY <1>2 DEF PrintInterfaces, Startup, engineVars, MainDrivesEngine, Configured
<1>3. CASE Validate
  <2>1. /\ main = "validate" /\ engine = "new" /\ engine' = engine /\ args' = args /\ cfg' = cfg
        /\ main' \in {"error", "logger"}
        /\ main' = "logger" => Valid(cfg)
    BY <1>3 DEF Validate, Startup, engineVars, MainDrivesEngine
  <2>2. AsGiven /\ args \in CommandLine
    BY <2>1 DEF Configured
  <2>3. cfg.maxFlows \in Int
    <3>1. "maxFlows" \in DOMAIN cfg
      BY <2>2 DEF AsGiven, DefaultConfig
    <3> QED
      BY <2>2, <3>1, ParseGivesOptions DEF AsGiven
  <2>4. ASSUME Valid(cfg) PROVE Sane
    <3>1. /\ cfg.maxFlows > 0
          /\ cfg.logLevel \in [word : {"DEBUG", "INFO", "WARN", "ERROR"}, padded : {FALSE}]
      BY <2>2, <2>4 DEF Valid, AsGiven
    <3> QED
      BY <2>2, <2>3, <3>1 DEF Sane
  <2>5. Sane => Sane'
    BY <2>1 DEF Sane, AsGiven
  <2> QED
    BY <2>1, <2>2, <2>4, <2>5 DEF Configured
<1>4. CASE InitLogger
  <2>1. /\ main = "logger" /\ engine = "new" /\ engine' = engine /\ args' = args /\ cfg' = cfg
        /\ main' \in {"find", "notify"}
        /\ main' = "notify" => cfg.interfaceName # ""
    BY <1>4 DEF InitLogger, Startup, engineVars, MainDrivesEngine
  <2>2. Sane /\ Sane'
    BY <2>1 DEF Configured, Sane, AsGiven
  <2> QED
    BY <2>1, <2>2 DEF Configured
<1>5. CASE ListInterfaces
  <2>1. /\ main = "find" /\ engine = "new" /\ engine' = engine /\ args' = args /\ cfg' = cfg
        /\ main' \in {"choose", "error"} /\ devices' \in DeviceLists
    BY <1>5 DEF ListInterfaces, Startup, engineVars, MainDrivesEngine
  <2>2. Sane /\ Sane'
    BY <2>1 DEF Configured, Sane, AsGiven
  <2> QED
    BY <2>1, <2>2 DEF Configured
<1>6. CASE ChooseInterface
  <2>1. /\ main = "choose" /\ engine = "new" /\ engine' = engine /\ args' = args
        /\ main' \in {"error", "notify"}
    BY <1>6 DEF ChooseInterface, Startup, engineVars, MainDrivesEngine
  <2>2. main' = "notify" =>
          \E name \in FindDefaultInterface(devices) : cfg' = [cfg EXCEPT !.interfaceName = name]
    BY <1>6 DEF ChooseInterface, Startup
  <2>3. ASSUME NEW name \in FindDefaultInterface(devices),
               cfg' = [cfg EXCEPT !.interfaceName = name]
        PROVE  Sane' /\ cfg'.interfaceName # ""
    <3>1. PICK i \in DOMAIN devices : name = devices[i].name
      BY <2>3, FoundIsDevice
    <3>2. devices \in DeviceLists
      BY <2>1 DEF Configured
    <3>3. name # ""
      BY <3>1, <3>2, LifecycleAssumption
    <3> QED
      BY <2>1, <2>3, <3>3, OtherOptionsKept DEF Configured
  <2> QED
    BY <2>1, <2>2, <2>3 DEF Configured
<1>7. CASE Notify \/ StartEngine
  <2>1. /\ main \in {"notify", "start"} /\ args' = args /\ cfg' = cfg
        /\ main' \in {"start", "launch", "error"}
    BY <1>7 DEF Notify, StartEngine, Startup, setup
  <2>2. Sane /\ Sane' /\ cfg.interfaceName # ""
    BY <2>1 DEF Configured, Sane, AsGiven
  <2> QED
    BY <2>1, <2>2 DEF Configured
<1>8. CASE LaunchHandler \/ RunUI \/ CreateScreen
  <2>1. /\ engine' = "running" /\ engine = "running" /\ args' = args /\ cfg' = cfg
        /\ main' \in {"run", "screen", "loop", "error"}
    BY <1>8 DEF LaunchHandler, RunUI, CreateScreen, setup, engineVars, MainDrivesEngine
  <2>2. Sane /\ Sane' /\ cfg.interfaceName # ""
    BY <2>1 DEF Configured, Sane, AsGiven
  <2> QED
    BY <2>1, <2>2 DEF Configured
<1>9. CASE CloseLog
  <2>1. /\ engine' = "stopped" /\ engine = "stopped" /\ args' = args /\ cfg' = cfg
        /\ main' = "ok"
    BY <1>9 DEF CloseLog, Deferred, engineVars, MainDrivesEngine
  <2>2. Sane /\ Sane' /\ cfg.interfaceName # ""
    BY <2>1 DEF Configured, Sane, AsGiven
  <2> QED
    BY <2>1, <2>2 DEF Configured
<1>10. CASE /\ UNCHANGED setup
            /\ engine' \in {"new", "failed"} <=> engine \in {"new", "failed"}
            /\ main' \in BeforeStart => main' = main
  <2>1. UNCHANGED <<args, cfg, devices>>
    BY <1>10 DEF setup
  <2>2. (AsGiven <=> AsGiven') /\ (Sane <=> Sane')
    BY <2>1 DEF Sane, AsGiven
  <2> QED
    BY <1>10, <2>1, <2>2 DEF Configured
<1> QED
  BY <1>1, <1>2, <1>3, <1>4, <1>5, <1>6, <1>7, <1>8, <1>9, <1>10, SetUpByMain DEF Start

(* Every step keeps the log.                                               *)
LEMMA StepKeepsLogged ==
  ASSUME MainDrivesEngine, Configured, Logged, [Next]_vars
  PROVE  Logged'
<1> USE DEF BeforeStart, Monitoring, Deferring, Ended
<1>1. CASE ParseArguments \/ PrintInterfaces \/ Validate
  <2>1. /\ main \in {"parse", "list", "validate"} /\ log' = log
    BY <1>1 DEF ParseArguments, PrintInterfaces, Validate, Startup
  <2> QED
    BY <2>1 DEF Logged
<1>2. CASE InitLogger
  <2>1. /\ main = "logger" /\ log = "none" /\ cfg' = cfg /\ main' \in {"find", "notify"}
        /\ log' \in {"file", "none", "standard"}
        /\ log' = "file" => level' = LoggerLevel(cfg.logLevel)
    BY <1>2 DEF InitLogger, Startup, Logged
  <2>2. cfg.logLevel.word \in {"DEBUG", "INFO", "WARN", "ERROR"}
    BY <2>1 DEF Configured, Sane
  <2>3. LoggerLevel(cfg.logLevel) = cfg.logLevel.word
    BY <2>2 DEF LoggerLevel
  <2> QED
    BY <2>1, <2>3 DEF Logged
<1>3. CASE ListInterfaces \/ Notify
  <2>1. /\ main \in {"find", "notify"} /\ main' \in {"choose", "error", "start"}
        /\ UNCHANGED <<cfg, log, level>>
    BY <1>3 DEF ListInterfaces, Notify, Startup
  <2> QED
    BY <2>1 DEF Logged
<1>4. CASE ChooseInterface
  <2>1. main = "choose" /\ main' \in {"error", "notify"} /\ args' = args /\ UNCHANGED <<log, level>>
    BY <1>4 DEF ChooseInterface, Startup
  <2>2. cfg' = cfg \/ \E name : cfg' = [cfg EXCEPT !.interfaceName = name]
    BY <1>4 DEF ChooseInterface
  <2>3. cfg'.logLevel = cfg.logLevel
    BY <2>1, <2>2, OtherOptionsKept DEF Configured
  <2> QED
    BY <2>1, <2>3 DEF Logged
<1>5. CASE StartEngine \/ LaunchHandler \/ RunUI \/ CreateScreen
  <2>1. /\ main \in {"start", "launch", "run", "screen"} /\ UNCHANGED <<cfg, log, level>>
        /\ main' \in {"launch", "error", "run", "screen", "loop"}
    BY <1>5 DEF StartEngine, LaunchHandler, RunUI, CreateScreen, setup
  <2> QED
    BY <2>1 DEF Logged
<1>6. CASE CloseLog
  <2>1. /\ main = "cleanup" /\ main' = "ok" /\ notified' = notified /\ notified
        /\ UNCHANGED <<cfg, level>> /\ log' = IF log = "file" THEN "closed" ELSE log
    BY <1>6 DEF CloseLog, Deferred, signal, MainDrivesEngine
  <2> QED
    BY <2>1 DEF Logged
<1>7. CASE /\ UNCHANGED setup
           /\ main' \in BeforeStart => main' = main
           /\ main = "ok" => UNCHANGED <<main, notified>>
  BY <1>7 DEF setup, Logged
<1> QED
  BY <1>1, <1>2, <1>3, <1>4, <1>5, <1>6, <1>7, SetUpByMain DEF Start

-----------------------------------------------------------------------------
(* Nothing is configured yet and the engine is new when the program begins.*)
LEMMA InitEstablishes == Init => IInv
<1> SUFFICES ASSUME Init PROVE IInv
  OBVIOUS
<1>1. Packets!Init
  BY SameEngine DEF Init
<1>2. EngineInv
  BY <1>1, EngineAssumption, Packets!InitEstablishes, Packets!InitDelivers DEF EngineInv
<1>3. engine = "new" /\ ~cancelled
  BY DEF Init, Engine!Init
<1>4. MainDrivesEngine
  BY <1>3 DEF Init, MainDrivesEngine, BeforeStart, Monitoring, Deferring, Ended
<1>5. CancelledLate
  BY <1>3 DEF Init, CancelledLate
<1>6. Configured
  BY <1>3 DEF Init, Configured
<1>7. Logged
  BY DEF Init, Logged
<1> QED
  BY <1>2, <1>4, <1>5, <1>6, <1>7 DEF IInv

(* Every step of the program keeps all of it.                              *)
LEMMA StepPreserves == IInv /\ [Next]_vars => IInv'
<1> SUFFICES ASSUME IInv, [Next]_vars PROVE IInv'
  OBVIOUS
<1>1. [Packets!Next]_(Packets!vars)
  BY ProgramStepsEngine, SameEngine
<1>2. EngineInv'
  BY <1>1, EngineAssumption, Packets!NextPreserves, Packets!StepDelivers,
     Packets!StepLeavesNothing DEF IInv, EngineInv
<1>3. MainDrivesEngine'
  BY StepKeepsMain DEF IInv
<1>4. CancelledLate'
  BY StepCancelsLate DEF IInv
<1>5. Configured'
  BY StepKeepsConfigured DEF IInv
<1>6. Logged'
  BY StepKeepsLogged DEF IInv
<1> QED
  BY <1>2, <1>3, <1>4, <1>5, <1>6 DEF IInv

(* The inductive invariant holds in every reachable state.                 *)
THEOREM Invariance == Spec => []IInv
BY InitEstablishes, StepPreserves, PTL DEF Spec

-----------------------------------------------------------------------------
(* The program monitors what it was asked to monitor, with the limit of    *)
(* flows and the level of the log that the command line gives: Validate,   *)
(* NewConnectionTracker and InitLogger, which normalise their input each   *)
(* in its own way, never disagree about a configuration that gets so far.  *)
THEOREM AskedAndRun == Spec => []RunsAsAsked
<1>1. IInv => RunsAsAsked
  <2> SUFFICES ASSUME IInv, engine \notin {"new", "failed"}
               PROVE  /\ cfg.interfaceName # ""
                      /\ FlowLimit(cfg) = ParseCLI(args).maxFlows
                      /\ log \in {"file", "closed"} => level = ParseCLI(args).logLevel.word
    BY DEF RunsAsAsked
  <2>1. Sane /\ cfg.interfaceName # ""
    BY DEF IInv, Configured
  <2>2. "maxFlows" \in DOMAIN cfg /\ "logLevel" \in DOMAIN cfg
    <3>1. DOMAIN cfg = DOMAIN DefaultConfig
      BY <2>1 DEF Sane, AsGiven
    <3> QED
      BY <3>1 DEF DefaultConfig
  <2>3. cfg.maxFlows = ParseCLI(args).maxFlows /\ cfg.logLevel = ParseCLI(args).logLevel
    BY <2>1, <2>2 DEF Sane, AsGiven
  <2>4. FlowLimit(cfg) = cfg.maxFlows
    <3>1. cfg.maxFlows \in Int /\ cfg.maxFlows > 0
      BY <2>1 DEF Sane
    <3>2. ~(cfg.maxFlows <= 0)
      BY <3>1
    <3> QED
      BY <3>2 DEF FlowLimit
  <2>5. log \in {"file", "closed"} => level = cfg.logLevel.word
    BY DEF IInv, Logged
  <2> QED
    BY <2>1, <2>3, <2>4, <2>5
<1> QED
  BY <1>1, Invariance, PTL

(* A program that monitored and ends without an error has stopped its      *)
(* engine and lost no packet on the way, unless a signal cut it short, and *)
(* closes the log when nobody is left to write to it.  That the context is *)
(* cancelled only when the engine has stopped is what it rests on.         *)
THEOREM ExitsCleanly == Spec => []CleanExit
<1>1. IInv => CleanExit
  <2> SUFFICES ASSUME IInv PROVE CleanExit
    OBVIOUS
  <2>1. engine = "stopped" => wg = {}
    BY DEF IInv, EngineInv, Packets!IInv, Packets!Lifecycle
  <2>2. main = "ok" /\ notified => engine = "stopped" /\ screen = "down"
    BY DEF IInv, MainDrivesEngine
  <2>3. engine = "stopped" /\ handler = "wait" =>
          processed \cup dropped = (1..arrived) \ Packets!ToSet(source)
    BY EngineAssumption, Packets!EmptiedIsDrained DEF IInv, EngineInv, CancelledLate
  <2>4. Packets!ToSet(source) = ToSet(source)
    BY DEF Packets!ToSet, ToSet
  <2>5. log = "closed" => main = "ok" /\ notified
    BY DEF IInv, Logged
  <2> QED
    BY <2>1, <2>2, <2>3, <2>4, <2>5 DEF CleanExit
<1> QED
  BY <1>1, Invariance, PTL
=============================================================================
