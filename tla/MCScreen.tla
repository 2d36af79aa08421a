------------------------------ MODULE MCScreen ------------------------------
(* Screen with two hosts, one of which is worse than the other.            *)
EXTENDS Screen

MCReports ==
  {Event(1, "CLEARTEXT_TRAFFIC", "ALERT"), Event(2, "LEGACY_NAME_RES", "SUSPICIOUS")}
=============================================================================
