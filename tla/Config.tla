-------------------------------- MODULE Config --------------------------------
(***************************************************************************)
(* The command line, the configuration made from it and the level of the   *)
(* log (config.go, logger.go).                                             *)
(*                                                                         *)
(* The command line is a function from the flags that are given to their   *)
(* values.  A log level is the word it spells, whatever its case, and      *)
(* whether there is white space around it.  Options that the program only  *)
(* passes on to libpcap (filter, promiscuous mode, timeout) are left out.  *)
(***************************************************************************)
EXTENDS Integers, TLC

Flag == {"interfaceName", "maxFlows", "logFile", "logLevel", "listInterfaces",
         "showVersion", "unknown"}

Level(word, padded) == [word |-> word, padded |-> padded]

DefaultConfig ==
  [interfaceName |-> "", snapLen |-> 65535, maxEvents |-> 2000, maxFlows |-> 5000,
   logFile |-> "netmonitor.log", logLevel |-> Level("INFO", FALSE),
   listInterfaces |-> FALSE, showVersion |-> FALSE]

(* An unknown flag, and -h, make ParseCLI return an error.                 *)
ParseFails(args) == "unknown" \in DOMAIN args

ParseCLI(args) ==
  LET Given(flag, default) == IF flag \in DOMAIN args THEN args[flag] ELSE default
  IN  [DefaultConfig EXCEPT
         !.interfaceName  = Given("interfaceName", @),
         !.maxFlows       = Given("maxFlows", @),
         !.logFile        = Given("logFile", @),
         !.logLevel       = Given("logLevel", @),
         !.listInterfaces = Given("listInterfaces", @),
         !.showVersion    = Given("showVersion", @)]

(* Mutant: a limit of zero passes.                                         *)
ValidButForZero(cfg) ==
  \/ cfg.showVersion \/ cfg.listInterfaces
  \/ /\ cfg.snapLen >= 0 /\ cfg.maxEvents >= 0 /\ cfg.maxFlows >= 0
     /\ cfg.logLevel \in [word : {"DEBUG", "INFO", "WARN", "ERROR"}, padded : {FALSE}]

(* The case of a level makes no difference, white space around it does.    *)
Valid(cfg) ==
  \/ cfg.showVersion \/ cfg.listInterfaces
  \/ /\ cfg.snapLen > 0 /\ cfg.maxEvents > 0 /\ cfg.maxFlows > 0
     /\ cfg.logLevel \in [word : {"DEBUG", "INFO", "WARN", "ERROR"}, padded : {FALSE}]

(* The level of the logger: white space around the word is ignored, and an *)
(* unknown word is taken for INFO.                                         *)
LoggerLevel(level) ==
  CASE level.word \in {"DEBUG", "ERROR"}  -> level.word
    [] level.word \in {"WARN", "WARNING"} -> "WARN"
    [] OTHER                              -> "INFO"

(* The log goes to a file of its own unless a standard stream is named.    *)
LogsToFile(cfg) == cfg.logFile \notin {"", "stderr", "stdout"}

(* The limit that NewConnectionTracker takes from the configuration.       *)
FlowLimit(cfg) == IF cfg.maxFlows <= 0 THEN 5000 ELSE cfg.maxFlows
=============================================================================
