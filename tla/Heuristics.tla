----------------------------- MODULE Heuristics -----------------------------
(***************************************************************************)
(* The pure functions that judge one packet (parser.go, LookupVendor in    *)
(* oui.go).  A function that returns a boolean or a pointer together with  *)
(* a text is the set of what it reports: empty, or one element.            *)
(*                                                                         *)
(* An indicator is a pair of its kind and the TTL its text quotes (0 when  *)
(* it quotes none).  A MAC address is the class LookupVendor puts it in, a *)
(* TCP payload the class that the signature tests put it in; the OUI       *)
(* database is one prefix for each kind of entry that the rules tell apart.*)
(***************************************************************************)
EXTENDS Integers

TTL == 0..255

Baseline(ttl) == IF ttl <= 64 THEN 64 ELSE IF ttl <= 128 THEN 128 ELSE 255

(* Mutant: the labels of the two upper baselines are exchanged.            *)
OSExchanged(baseline) ==
  CASE baseline = 64  -> "Unix"
    [] baseline = 128 -> "Cisco"
    [] baseline = 255 -> "Windows"

OSOf(baseline) ==
  CASE baseline = 64  -> "Unix"
    [] baseline = 128 -> "Windows"
    [] baseline = 255 -> "Cisco"

(* The subtraction is one of bytes; it does not wrap, the baseline being   *)
(* no less than the TTL.                                                   *)
FingerprintOS(ttl) ==
  IF ttl = 0 THEN [os |-> "Unknown", initialTTL |-> 0, hops |-> 0]
  ELSE [os |-> OSOf(Baseline(ttl)), initialTTL |-> Baseline(ttl),
        hops |-> Baseline(ttl) - ttl]

(* Mutant: a local packet that lost a hop is looked for below one baseline *)
(* only.                                                                   *)
DetectBelow64(ttl, local, isIPv6) ==
  IF ttl = 0 THEN {}
  ELSE IF local /\ ttl = 63 THEN {<<IF isIPv6 THEN "hop6" ELSE "hop", ttl>>}
  ELSE IF ttl < 4 THEN {<<"depleted", ttl>>}
  ELSE {}

DetectTTLAnomaly(ttl, local, isIPv6) ==
  IF ttl = 0 THEN {}
  ELSE IF local /\ ttl \in {63, 127}
    THEN {<<IF isIPv6 THEN "hop6" ELSE "hop", ttl>>}
  ELSE IF ttl < 4 THEN {<<"depleted", ttl>>}
  ELSE {}

-----------------------------------------------------------------------------
(* What an address is to LookupVendor: shorter than an OUI; a group        *)
(* address; in the database, as one of four kinds of vendor; not in it,    *)
(* with the locally administered bit set or not.                           *)
MAC == {"none", "group", "apple", "microsoft", "cisco", "other", "local",
        "unregistered"}

Vendor(name, category) == [name |-> name, category |-> category]

ouiDatabase ==
  [prefix \in {"apple", "microsoft", "cisco", "other"} |->
     Vendor(prefix, IF prefix = "cisco" THEN "network_gear" ELSE "workstation")]

(* The database is asked before the locally administered bit, after the    *)
(* group addresses.                                                        *)
LookupVendorIn(database, mac) ==
  IF mac = "group" THEN Vendor("group", "network_gear")
  ELSE IF mac \in DOMAIN database THEN database[mac]
  ELSE IF mac = "local" THEN Vendor("Randomized", "workstation")
  ELSE Vendor("Unknown", "unknown")

LookupVendor(mac) == LookupVendorIn(ouiDatabase, mac)

DetectIdentityMismatch(vendor, os) ==
  IF vendor.name \in {"Unknown", "Randomized"} THEN {}
  ELSE IF vendor.name = "apple" /\ os = "Windows" THEN {<<"apple mismatch", 0>>}
  ELSE IF vendor.category = "network_gear" /\ os = "Windows"
    THEN {<<"gear mismatch", 0>>}
  ELSE IF vendor.name = "microsoft" /\ os = "Cisco" THEN {<<"microsoft mismatch", 0>>}
  ELSE {}

-----------------------------------------------------------------------------
(* A TCP payload: empty; a Telnet command (IAC); text, FTP and HTTP, all   *)
(* with a run of five printable characters; or none of these.              *)
Payload == {"none", "iac", "text", "ftp", "http", "binary"}

(* The protocol of the cleartext alert: the first rule that applies.       *)
InspectUnencryptedProtocols(srcPort, dstPort, payload) ==
  LET on(ports) == {srcPort, dstPort} \cap ports # {}
  IN  IF on({23}) /\ payload # "binary" THEN {"Telnet"}
      ELSE IF on({21}) /\ payload \in {"none", "ftp"} THEN {"FTP"}
      ELSE IF on({110}) THEN {"POP3"}
      ELSE IF on({143}) THEN {"IMAP"}
      ELSE IF on({80, 8080}) /\ payload = "http" THEN {"HTTP"}
      ELSE {}

InspectLegacyNameResolution(srcPort, dstPort) ==
  IF 5355 \in {srcPort, dstPort} THEN {"LLMNR"}
  ELSE IF 137 \in {srcPort, dstPort} THEN {"NBT-NS"}
  ELSE {}
=============================================================================
