----------------------------- MODULE MCLifecycle -----------------------------
(* Lifecycle with the command lines that make it take every branch.        *)
EXTENDS Lifecycle

CONSTANT w1

MCWorker == {w1}

MCCommandLine ==
  { "unknown" :> TRUE,
    "showVersion" :> TRUE,
    "listInterfaces" :> TRUE @@ "maxFlows" :> 0,
    "maxFlows" :> 0,
    "logLevel" :> Level("WARNING", FALSE),
    "logLevel" :> Level("WARN", TRUE),
    "logLevel" :> Level("WARN", FALSE) @@ "maxFlows" :> 1,
    "interfaceName" :> "a" @@ "logFile" :> "stderr" }

Device(name, kinds) == [name |-> name, ipv4 |-> kinds]

(* No device has an active address in the last list.                       *)
MCDeviceLists ==
  { <<>>, <<Device("lo", {"loopback"})>>,
    <<Device("lo", {"loopback"}), Device("b", {"other"}), Device("a", {"other"})>>,
    <<Device("lo0", {"loopback"}), Device("a", {})>> }

OneDevice == {<<Device("a", {"other"})>>}

OneCommandLine == {"interfaceName" :> "a"}
=============================================================================
