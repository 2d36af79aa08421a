------------------------------- MODULE Scanner -------------------------------
(***************************************************************************)
(* The device scanner (the second program, oui.go): its user analyses      *)
(* devices by address and TTL, and adds vendors to its copy of the OUI     *)
(* database.  The menu's other options (the example scan, its export) show *)
(* values computed at the start and change nothing.                        *)
(*                                                                         *)
(* What is typed matters character by character here, as AddVendor makes a *)
(* key of it.  A character is the n-th digit of an address in some case,   *)
(* or a separator; the addresses of a class of Heuristics share one prefix *)
(* and so have the same digits, and those of two classes differ.           *)
(***************************************************************************)
EXTENDS Heuristics, Sequences

CONSTANTS
  AddedOUIs,    \* the prefixes for which the user adds vendors
  NewVendors,   \* the vendors the user enters
  MaxAdditions, \* how often (bound)
  TypedTTLs     \* the TTLs the user types, whatever the number

VARIABLES
  database,  \* the scanner's ouiDatabase, from keys to vendors
  entered    \* history: what the user entered, in that order

scannerVars == <<database, entered>>

OUI == MAC \ {"none"}

ASSUME ScannerAssumption == AddedOUIs \subseteq OUI /\ TypedTTLs \subseteq Int

-----------------------------------------------------------------------------
Digit(oui, place, case) == <<oui, place, case>>

Mark(separator) == <<separator, 0, "lower">>

(* Ways to write an address or its beginning: how many digits, and in what *)
(* groups; in groups of twelve there is no separator.                      *)
Notation == [digits : {4, 6, 12}, group : {2, 4, 12}, separator : {":", "-", "."},
             case : {"lower", "upper"}]

Text(oui, notation) ==
  LET group  == notation.group
      digits == notation.digits
  IN  [i \in 1..(digits + (digits - 1) \div group) |->
         IF i % (group + 1) = 0 THEN Mark(notation.separator)
         ELSE Digit(oui, i - i \div (group + 1), notation.case)]

(* What LookupVendor looks up: aa:bb:cc.                                   *)
Key(oui) ==
  Text(oui, [digits |-> 6, group |-> 2, separator |-> ":", case |-> "lower"])

ToLower(c) == <<c[1], c[2], "lower">>

ColonForDash(c) == IF c = Mark("-") THEN Mark(":") ELSE c

(* Mutant: the prefix keeps its case.                                      *)
FormattedInCase(text) ==
  LET formatted == [i \in DOMAIN text |-> ColonForDash(text[i])]
  IN  IF Len(formatted) > 8 THEN SubSeq(formatted, 1, 8) ELSE formatted

(* The key AddVendor makes of a text, of eight characters at most.         *)
Formatted(text) ==
  LET formatted == [i \in DOMAIN text |-> ToLower(ColonForDash(text[i]))]
  IN  IF Len(formatted) > 8 THEN SubSeq(formatted, 1, 8) ELSE formatted

AddVendor(text, vendor) ==
  LET key == Formatted(text)
  IN  database' = [k \in DOMAIN database \cup {key} |->
                     IF k = key THEN vendor ELSE database[k]]

Add ==
  /\ Len(entered) < MaxAdditions
  /\ \E oui \in AddedOUIs, notation \in Notation, vendor \in NewVendors :
       /\ AddVendor(Text(oui, notation), vendor)
       /\ entered' = Append(entered, [oui |-> oui, notation |-> notation, vendor |-> vendor])

ScannerInit ==
  /\ database = [k \in {Key(oui) : oui \in DOMAIN ouiDatabase} |->
                   ouiDatabase[CHOOSE oui \in DOMAIN ouiDatabase : Key(oui) = k]]
  /\ entered = <<>>

ScannerSpec == ScannerInit /\ [][Add]_scannerVars

-----------------------------------------------------------------------------
(* The entries LookupVendor can find, by the prefix of the address.        *)
Known(db) == [oui \in {o \in OUI : Key(o) \in DOMAIN db} |-> db[Key(oui)]]

(* Mutant: the systems are told apart at 127.                              *)
PredictFrom127(n) ==
  IF n <= 0 THEN "Unknown" ELSE IF n <= 64 THEN "Unix"
  ELSE IF n < 128 THEN "Windows" ELSE IF n <= 255 THEN "Cisco" ELSE "Custom"

PredictOSByTTL(n) ==
  IF n <= 0 THEN "Unknown" ELSE IF n <= 64 THEN "Unix"
  ELSE IF n <= 128 THEN "Windows" ELSE IF n <= 255 THEN "Cisco" ELSE "Custom"

(* The verdict on a device; it is suspicious when there is a reason.  An   *)
(* address that cannot be parsed (none) is a reason of its own.            *)
AnalyzeDevice(vendor, address, n) ==
  IF address = "none"
  THEN [vendor |-> "Invalid", osGuess |-> "Unknown", reasons |-> {"malformed"}]
  ELSE [vendor  |-> vendor.name,
        osGuess |-> PredictOSByTTL(n),
        reasons |-> {r \in {"randomized", "unregistered", "mismatch"} :
          \/ r = "randomized" /\ vendor.name = "Randomized"
          \/ r = "unregistered" /\ vendor.name = "Unknown"
          \/ r = "mismatch" /\ vendor.name = "microsoft" /\ n <= 64}]

-----------------------------------------------------------------------------
(* At least the three bytes of the prefix, in pairs of digits.             *)
InPairs(notation) ==
  notation.digits >= 6 /\ notation.group = 2 /\ notation.separator \in {":", "-"}

(* A vendor that was entered with its prefix, or a whole address, in pairs *)
(* of digits is what the scanner finds from then on, in whatever case, and *)
(* with colons or dashes, and a later entry for the same prefix takes over,*)
(* in whatever notation the earlier one was.  Any other text, such as an   *)
(* address with dots that net.ParseMAC reads, changes nothing that is      *)
(* found, of any prefix (AddVendor against the key of LookupVendor; group  *)
(* addresses are not looked up).                                           *)
EnteredIsFound ==
  \A oui \in OUI \ {"group"} :
    LET found == LookupVendorIn(Known(database), oui)
        named == {i \in DOMAIN entered :
                    entered[i].oui = oui /\ InPairs(entered[i].notation)}
    IN  /\ named = {} => found = LookupVendor(oui)
        /\ \A i \in named : (\A j \in named : j <= i) => found = entered[i].vendor

(* Of a TTL that a packet can have, the scanner and the monitor guess the  *)
(* same system, and of other numbers the scanner guesses none.  The two    *)
(* discrepancies they report of Microsoft hardware exclude each other; and *)
(* the scanner's is reported of no packet that a host running Windows or a *)
(* network system sent through less than 64 routers (AnalyzeDevice,        *)
(* FingerprintOS).  Only the scanner reports a TTL of up to 64.            *)
ProgramsAgree ==
  LET db == Known(database)
  IN  \A address \in MAC, n \in TypedTTLs :
        LET vendor == LookupVendorIn(db, address)
            device == AnalyzeDevice(vendor, address, n)
            os     == FingerprintOS(n).os
        IN  /\ address # "none" /\ n \in TTL => device.osGuess = os
            /\ n \notin TTL => device.osGuess \in {"Unknown", "Custom"}
            /\ "mismatch" \in device.reasons /\ n \in 1..255 =>
                 /\ os = "Unix"
                 /\ DetectIdentityMismatch(vendor, os) = {}
                 /\ \A initial \in {128, 255} : initial - n >= 64
=============================================================================
