------------------------------ MODULE Lifecycle ------------------------------
(***************************************************************************)
(* The program from its command line to its exit (main.go), with the       *)
(* capture engine, the goroutine that waits for a signal, and the event    *)
(* loop and the refresh loop of the terminal interface (ui.go).            *)
(*                                                                         *)
(* A goroutine takes one step per operation on a channel, per call that    *)
(* another goroutine can observe, and per exit.  The capture engine is an  *)
(* instance of CaptureEngine: its goroutines run by themselves, main and   *)
(* the signal goroutine call it.                                           *)
(*                                                                         *)
(* External, modelled from how ui.go uses it: tview.  Application.Run      *)
(* creates the screen, then handles keys and queued updates until the      *)
(* screen is gone.  Application.Stop destroys the screen, and does nothing *)
(* while there is none.  QueueUpdateDraw waits until its update was run.   *)
(***************************************************************************)
EXTENDS Config, Interfaces, FiniteSets

CONSTANTS
  Worker, QueueCap, MaxPackets,  \* see CaptureEngine
  CommandLine,                   \* the command lines the program is started with
  DeviceLists,                   \* what pcap.FindAllDevs may find
  Capturable,                    \* the interfaces that libpcap can open
  MaxSignals                     \* bound: signals sent to the program

(* -max-flows is a number, and libpcap names every device it finds.        *)
ASSUME LifecycleAssumption ==
  /\ IsFiniteSet(Worker) /\ Worker # {} /\ {"capture", "maintenance"} \cap Worker = {}
  /\ QueueCap \in Nat \ {0} /\ MaxPackets \in Nat /\ MaxSignals \in Nat
  /\ \A line \in CommandLine : "maxFlows" \in DOMAIN line => line["maxFlows"] \in Int
  /\ \A found \in DeviceLists : \A i \in DOMAIN found : found[i].name # ""

VARIABLES engine, handle, cancelled, stopping, wg, arrived, source, sourceOpen,
          queue, queueOpen, capture, held, maintenance, processed, dropped

Engine == INSTANCE CaptureEngine

VARIABLES
  main,      \* where main is; "ok", "error" and "killed" when it is over
  args,      \* the command line
  cfg,       \* the configuration
  devices,   \* the local variable devices of FindDefaultInterface
  log,       \* where the log goes
  level,     \* and from which level on
  notified,  \* signal.Notify has been called
  signals,   \* how many signals have been sent
  sigChan,   \* how many are waiting in sigChan
  handler,   \* where the signal goroutine is
  refresh,   \* where refreshLoop is
  stopChan,  \* ui.stopChan is closed
  screen     \* the screen of tview

engineVars == <<engine, handle, cancelled, stopping, wg, arrived, source, sourceOpen,
                queue, queueOpen, capture, held, maintenance, processed, dropped>>
setup  == <<args, cfg, devices, log, level>>
signal == <<notified, signals, sigChan, handler>>
ui     == <<refresh, stopChan, screen>>
vars   == <<engineVars, main, setup, signal, ui>>

Ended == {"ok", "error", "killed"}

Running == main \notin Ended

Init ==
  /\ Engine!Init
  /\ main = "parse"
  /\ args \in CommandLine
  /\ cfg = DefaultConfig
  /\ devices = <<>>
  /\ log = "none" /\ level = "INFO"
  /\ notified = FALSE /\ signals = 0 /\ sigChan = 0 /\ handler = "none"
  /\ refresh = "none" /\ stopChan = FALSE /\ screen = "none"

-----------------------------------------------------------------------------
(* Startup.  Until the engine runs main is the only goroutine.             *)
Startup(from, to) ==
  /\ main = from
  /\ main' \in to
  /\ UNCHANGED <<engineVars, args, signals, sigChan, handler, ui>>

(* ParseCLI, and the modes that print something and exit.                  *)
ParseArguments ==
  /\ cfg' = IF ParseFails(args) THEN cfg ELSE ParseCLI(args)
  /\ Startup("parse", IF ParseFails(args) THEN {"error"}
                      ELSE IF cfg'.showVersion THEN {"ok"}
                      ELSE IF cfg'.listInterfaces THEN {"list"}
                      ELSE {"validate"})
  /\ UNCHANGED <<devices, log, level, notified>>

(* GetInterfaceSummaries fails when libpcap does.                          *)
PrintInterfaces ==
  /\ Startup("list", {"ok", "error"})
  /\ UNCHANGED <<cfg, devices, log, level, notified>>

Validate ==
  /\ Startup("validate", {IF Valid(cfg) THEN "logger" ELSE "error"})
  /\ UNCHANGED <<cfg, devices, log, level, notified>>

(* InitLogger; when the file cannot be opened the default logger stays,    *)
(* and only a file has a cleanup to defer.                                 *)
InitLogger ==
  /\ Startup("logger", {IF cfg.interfaceName = "" THEN "find" ELSE "notify"})
  /\ \/ LogsToFile(cfg) /\ log' = "file" /\ level' = LoggerLevel(cfg.logLevel)
     \/ LogsToFile(cfg) /\ UNCHANGED <<log, level>>
     \/ ~LogsToFile(cfg) /\ log' = "standard" /\ level' = LoggerLevel(cfg.logLevel)
  /\ UNCHANGED <<cfg, devices, notified>>

(* FindDefaultInterface: the devices, then the choice among them.          *)
ListInterfaces ==
  /\ Startup("find", {"choose", "error"})
  /\ devices' \in DeviceLists
  /\ UNCHANGED <<cfg, log, level, notified>>

ChooseInterface ==
  LET found == FindDefaultInterface(devices)
  IN  /\ Startup("choose", {IF found = {} THEN "error" ELSE "notify"})
      /\ cfg' \in IF found = {} THEN {cfg}
                  ELSE {[cfg EXCEPT !.interfaceName = name] : name \in found}
      /\ devices' = <<>>
      /\ UNCHANGED <<log, level, notified>>

Notify ==
  /\ Startup("notify", {"start"})
  /\ notified' = TRUE
  /\ UNCHANGED <<cfg, devices, log, level>>

(* An error of Start ends the program at once: os.Exit runs no deferred    *)
(* call, so the log is not closed.                                         *)
StartEngine ==
  /\ main = "start"
  /\ \/ cfg.interfaceName \in Capturable /\ Engine!Start /\ main' = "launch"
     \/ Engine!StartFails /\ main' = "error"
  /\ UNCHANGED <<setup, signal, ui>>

(* Mutant: the goroutine is started when ui.Run is back.                   *)
LaunchNoHandler ==
  /\ main = "launch"
  /\ main' = "run"
  /\ UNCHANGED <<engineVars, setup, signal, ui>>

LaunchHandler ==
  /\ main = "launch"
  /\ main' = "run"
  /\ handler' = "wait"
  /\ UNCHANGED <<engineVars, setup, notified, signals, sigChan, ui>>

(* ui.Run starts refreshLoop and calls Application.Run.                    *)
RunUI ==
  /\ main = "run"
  /\ main' = "screen"
  /\ refresh' = "select"
  /\ UNCHANGED <<engineVars, setup, signal, stopChan, screen>>

(* Without a terminal there is no screen: the program exits at once, again *)
(* without its deferred calls, the engine still running.                   *)
CreateScreen ==
  /\ main = "screen"
  /\ \/ main' = "loop" /\ screen' = "up"
     \/ main' = "error" /\ UNCHANGED screen
  /\ UNCHANGED <<engineVars, setup, signal, refresh, stopChan>>

-----------------------------------------------------------------------------
AppStop == screen' = IF screen = "up" THEN "down" ELSE screen

(* The keys q and Ctrl-C.                                                  *)
PressQuit ==
  /\ main = "loop" /\ screen = "up"
  /\ AppStop
  /\ UNCHANGED <<engineVars, main, setup, signal, refresh, stopChan>>

(* The event loop runs an update (Screen looks into it).                   *)
RunUpdate ==
  /\ main = "loop"
  /\ refresh = "queued"
  /\ refresh' = "select"
  /\ UNCHANGED <<engineVars, main, setup, signal, stopChan, screen>>

(* Mutant: Run waits for refreshLoop before it returns.                    *)
LeaveLoopAfterRefresh ==
  /\ main = "loop" /\ screen = "down"
  /\ refresh = "done"
  /\ main' = "quit"
  /\ UNCHANGED <<engineVars, setup, signal, ui>>

LeaveLoop ==
  /\ main = "loop" /\ screen = "down"
  /\ main' = "quit"
  /\ UNCHANGED <<engineVars, setup, signal, ui>>

RefreshStep(from, to) ==
  /\ Running
  /\ refresh = from
  /\ refresh' = to
  /\ UNCHANGED <<engineVars, main, setup, signal, stopChan>>

(* The ticker fires, and QueueUpdateDraw waits.                            *)
QueueUpdate == RefreshStep("select", "queued") /\ UNCHANGED screen

SeeStop == cancelled \/ stopChan

NoticeStop == SeeStop /\ RefreshStep("select", "stop") /\ UNCHANGED screen

StopFromRefresh == RefreshStep("stop", "done") /\ AppStop

-----------------------------------------------------------------------------
(* SIGINT or SIGTERM: fatal until Notify, then kept in sigChan, which has  *)
(* room for one.                                                           *)
Signal ==
  /\ Running
  /\ signals < MaxSignals
  /\ signals' = signals + 1
  /\ IF notified THEN sigChan' = 1 /\ UNCHANGED main
                 ELSE main' = "killed" /\ UNCHANGED sigChan
  /\ UNCHANGED <<engineVars, setup, notified, handler, ui>>

HandlerStep(from, to) ==
  /\ Running
  /\ handler = from
  /\ handler' = to
  /\ UNCHANGED <<main, setup, notified, signals, refresh>>

ReceiveSignal ==
  /\ HandlerStep("wait", "cancel")
  /\ sigChan > 0 /\ sigChan' = sigChan - 1
  /\ UNCHANGED <<engineVars, stopChan, screen>>

(* main may have cancelled the context already.                            *)
HandlerCancels ==
  /\ HandlerStep("cancel", "close")
  /\ Engine!Cancel \/ (cancelled /\ UNCHANGED engineVars)
  /\ UNCHANGED <<sigChan, stopChan, screen>>

(* UI.Stop, called here only: it closes stopChan and stops the application.*)
HandlerCloses ==
  /\ HandlerStep("close", "stop")
  /\ stopChan' = TRUE
  /\ UNCHANGED <<engineVars, sigChan, screen>>

HandlerStops ==
  /\ HandlerStep("stop", "done")
  /\ AppStop
  /\ UNCHANGED <<engineVars, sigChan, stopChan>>

-----------------------------------------------------------------------------
(* ui.Run has returned, and so does main: the deferred calls, the last one *)
(* deferred first, are capture.Stop, cancel and logCleanup.                *)
Deferred(from, to) ==
  /\ main = from
  /\ main' = to
  /\ UNCHANGED <<args, cfg, devices, level, signal, ui>>

StopEngine ==
  \/ Deferred("quit", "stopping") /\ Engine!CloseStopChan /\ UNCHANGED log
  \/ Deferred("stopping", "waiting") /\ Engine!CloseHandle /\ UNCHANGED log
  \/ Deferred("waiting", "cancel") /\ Engine!StopReturns /\ UNCHANGED log

(* Mutant: the context is cancelled before the engine is stopped.          *)
CancelFirst ==
  \/ /\ Deferred("loop", "quit")
     /\ screen = "down"
     /\ Engine!Cancel
     /\ UNCHANGED log
  \/ /\ Deferred("cancel", "cleanup")
     /\ UNCHANGED <<engineVars, log>>

CancelContext ==
  /\ Deferred("cancel", "cleanup")
  /\ Engine!Cancel \/ (cancelled /\ UNCHANGED engineVars)
  /\ UNCHANGED log

CloseLog ==
  /\ Deferred("cleanup", "ok")
  /\ log' = IF log = "file" THEN "closed" ELSE log
  /\ UNCHANGED engineVars

-----------------------------------------------------------------------------
(* The goroutines of the engine and the source of its packets.             *)
EngineStep(A) == Running /\ A /\ UNCHANGED <<main, setup, signal, ui>>

CaptureLoop     == EngineStep(Engine!CaptureLoop)
WorkerLoop(w)   == EngineStep(Engine!WorkerLoop(w))
MaintenanceLoop == EngineStep(Engine!MaintenanceLoop)
Source          == EngineStep(Engine!Arrive \/ Engine!SourceEnds)

Start ==
  \/ ParseArguments \/ PrintInterfaces \/ Validate \/ InitLogger \/ ListInterfaces
  \/ ChooseInterface \/ Notify \/ StartEngine \/ LaunchHandler \/ RunUI \/ CreateScreen

EventLoop   == RunUpdate \/ LeaveLoop
Shutdown    == StopEngine \/ CancelContext \/ CloseLog
RefreshLoop == QueueUpdate \/ NoticeStop \/ StopFromRefresh
Handler     == ReceiveSignal \/ HandlerCancels \/ HandlerCloses \/ HandlerStops

Next ==
  \/ Start \/ EventLoop \/ Shutdown \/ RefreshLoop \/ Handler
  \/ PressQuit \/ Signal
  \/ CaptureLoop \/ MaintenanceLoop \/ Source
  \/ \E w \in Worker : WorkerLoop(w)

(* Every goroutine that can run does, until the program is over; select    *)
(* takes each of its ready cases again and again.  Nobody has to press a   *)
(* key or to send a signal.                                                *)
Spec ==
  /\ Init /\ [][Next]_vars
  /\ WF_vars(Start) /\ WF_vars(LeaveLoop) /\ WF_vars(RunUpdate) /\ WF_vars(Shutdown)
  /\ WF_vars(RefreshLoop) /\ SF_vars(NoticeStop)
  /\ WF_vars(Handler)
  /\ WF_vars(CaptureLoop) /\ SF_vars(EngineStep(Engine!LeaveCapture))
  /\ \A w \in Worker : WF_vars(WorkerLoop(w))
  /\ WF_vars(MaintenanceLoop) /\ SF_vars(EngineStep(Engine!LeaveMaintenance))

-----------------------------------------------------------------------------
(* What runs was configured as the command line says: the engine has an    *)
(* interface, the tracker its limit as given (its own default is never     *)
(* needed), and a log of its own the level that was asked for (Validate,   *)
(* NewConnectionTracker and InitLogger normalise their input each in its   *)
(* own way).                                                               *)
RunsAsAsked ==
  engine \notin {"new", "failed"} =>
    /\ cfg.interfaceName # ""
    /\ FlowLimit(cfg) = ParseCLI(args).maxFlows
    /\ log \in {"file", "closed"} => level = ParseCLI(args).logLevel.word

(* A program that monitored and exits without an error has stopped its     *)
(* engine, and unless a signal cut it short has processed or counted every *)
(* packet captureLoop received.  The log is closed last: while a goroutine *)
(* of the engine, capture.Stop or main may still write to it, it is open   *)
(* (the order in which main defers logCleanup, cancel and capture.Stop).   *)
CleanExit ==
  /\ main = "ok" /\ notified =>
       /\ engine = "stopped" /\ wg = {} /\ screen = "down"
       /\ handler = "wait" => processed \cup dropped = (1..arrived) \ ToSet(source)
  /\ log = "closed" => engine = "stopped" /\ wg = {} /\ main = "ok"

(* Once the screen is gone, by a key or by a signal, the program ends      *)
(* (LeaveLoop, capture.Stop); refreshLoop may be left waiting for ever for *)
(* an update that nobody runs, and nothing may depend on it.               *)
QuitEnds == screen = "down" ~> ~Running

(* The first signal ends the program when the interface is up.             *)
SignalEndsInterface ==
  sigChan = 1 /\ handler \in {"none", "wait"} /\ screen = "up" ~> ~Running

(* A signal that was noted ends the program ("Shutdown signal received,    *)
(* initiating graceful exit", main.go:114).  The code does not keep to     *)
(* this: Stop has no effect before tview has its screen, and the goroutine *)
(* handles one signal only.                                                *)
SignalEndsProgram == sigChan = 1 ~> ~Running
=============================================================================
