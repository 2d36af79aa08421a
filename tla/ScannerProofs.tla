----------------------------- MODULE ScannerProofs -----------------------------
(***************************************************************************)
(* What TLAPS proves about the heuristics on a path (TTLPath): for every   *)
(* set of addresses and every number of routers; and about the scanner:    *)
(* whatever vendors its user enters, however often, and whatever TTL.      *)
(***************************************************************************)
EXTENDS TTLPath, Scanner, TLAPS

(* A packet on its way has at least one hop left.                          *)
PathOK ==
  /\ initial \in {64, 128, 255} /\ routers \in Nat /\ initial - routers >= 1
  /\ mac \in MAC /\ ip \in Addresses

(* The entries for a prefix that LookupVendor can find.                    *)
Named(oui) == {i \in DOMAIN entered : entered[i].oui = oui /\ InPairs(entered[i].notation)}

(* Under the key of a prefix the database has what was entered for it last *)
(* in pairs of digits, and otherwise what it began with, if anything.      *)
KeyOK(oui) ==
  /\ Key(oui) \in DOMAIN database <=> Named(oui) # {} \/ oui \in DOMAIN ouiDatabase
  /\ Named(oui) = {} /\ oui \in DOMAIN ouiDatabase => database[Key(oui)] = ouiDatabase[oui]
  /\ \A i \in Named(oui) :
       (\A j \in Named(oui) : j <= i) => database[Key(oui)] = entered[i].vendor

Entry == [oui : OUI, notation : Notation, vendor : NewVendors]

DatabaseOK == entered \in Seq(Entry) /\ \A oui \in OUI : KeyOK(oui)

-----------------------------------------------------------------------------
(* What FingerprintOS says of the TTL that is left.                        *)
LEMMA Fingerprints ==
  ASSUME PathOK
  PROVE  /\ ttl \in 1..255 /\ ttl = initial - routers
         /\ LET print == FingerprintOS(ttl)
                base  == Baseline(ttl)
            IN  /\ print.initialTTL = base /\ print.hops = base - ttl /\ print.os = OSOf(base)
                /\ base = IF ttl <= 64 THEN 64 ELSE IF ttl <= 128 THEN 128 ELSE 255
<1>1. ttl \in 1..255 /\ ttl = initial - routers
  BY DEF PathOK, ttl
<1>2. ttl # 0
  BY <1>1
<1> QED
  BY <1>1, <1>2 DEF FingerprintOS, Baseline

LEMMA PathEstimated ==
  ASSUME PathOK
  PROVE  EstimateRightWhenClose
<1> DEFINE print == FingerprintOS(ttl)
           n == ttl
           close == routers < (IF initial = 64 THEN 64 ELSE IF initial = 128 THEN 64 ELSE 127)
           system == IF initial = 64 THEN "Unix" ELSE IF initial = 128 THEN "Windows" ELSE "Cisco"
<1>1. /\ n \in 1..255 /\ n = initial - routers
      /\ print.initialTTL = (IF n <= 64 THEN 64 ELSE IF n <= 128 THEN 128 ELSE 255)
      /\ print.hops = (IF n <= 64 THEN 64 ELSE IF n <= 128 THEN 128 ELSE 255) - n
  BY Fingerprints
<1>2. initial \in {64, 128, 255} /\ routers \in Nat
  BY DEF PathOK
<1> HIDE DEF n, print
<1>3. close <=> print.initialTTL = initial
  BY <1>1, <1>2
<1>4. close <=> print.hops = routers
  BY <1>1, <1>2
<1>5. print.hops <= routers
  BY <1>1, <1>2
<1>6. close <=> print.os = system
  <2>1. print.os = IF print.initialTTL = 64 THEN "Unix"
                   ELSE IF print.initialTTL = 128 THEN "Windows" ELSE "Cisco"
    BY Fingerprints DEF OSOf, print, n
  <2> QED
    BY <1>1, <1>2, <1>3, <2>1
<1> QED
  BY <1>3, <1>4, <1>5, <1>6 DEF EstimateRightWhenClose, print, n

LEMMA PathFlagged ==
  ASSUME PathOK
  PROVE  OneHopIsFlagged
<1> DEFINE n == ttl
           found == DetectTTLAnomaly(n, local, isIPv6)
           kinds == {a[1] : a \in found}
           kind == IF isIPv6 THEN "hop6" ELSE "hop"
<1>1. n \in 1..255 /\ n = initial - routers
  BY Fingerprints
<1>2. initial \in {64, 128, 255} /\ routers \in Nat
  BY DEF PathOK
<1> HIDE DEF n
<1>3. found = IF local /\ n \in {63, 127} THEN {<<kind, n>>}
              ELSE IF n < 4 THEN {<<"depleted", n>>} ELSE {}
  BY <1>1 DEF DetectTTLAnomaly
<1>4. ASSUME local, routers = 1, initial # 255
      PROVE  kinds = {kind}
  <2>1. n \in {63, 127}
    BY <1>1, <1>2, <1>4
  <2>2. found = {<<kind, n>>}
    BY <1>3, <1>4, <2>1
  <2> QED
    BY <2>2
<1>5. ASSUME kinds \cap {"hop", "hop6"} # {}
      PROVE  routers > 0
  <2>1. n \in {63, 127}
    <3>1. CASE n < 4 /\ n \notin {63, 127}
      BY <1>3, <1>5, <3>1
    <3>2. CASE ~(n < 4) /\ n \notin {63, 127}
      BY <1>3, <1>5, <3>2
    <3> QED
      BY <3>1, <3>2
  <2> QED
    BY <1>1, <1>2, <2>1
<1> QED
  BY <1>4, <1>5 DEF OneHopIsFlagged, n

LEMMA VendorsKnown ==
  /\ LookupVendor("none") = Vendor("Unknown", "unknown")
  /\ LookupVendor("unregistered") = Vendor("Unknown", "unknown")
  /\ LookupVendor("local") = Vendor("Randomized", "workstation")
  /\ LookupVendor("group") = Vendor("group", "network_gear")
  /\ LookupVendor("cisco") = Vendor("cisco", "network_gear")
  /\ \A k \in {"apple", "microsoft", "other"} : LookupVendor(k) = Vendor(k, "workstation")
BY DEF LookupVendor, LookupVendorIn, ouiDatabase

LEMMA MismatchCases ==
  ASSUME NEW v, NEW os
  PROVE  DetectIdentityMismatch(v, os) # {} <=>
           /\ v.name \notin {"Unknown", "Randomized"}
           /\ \/ v.name = "apple" /\ os = "Windows"
              \/ v.category = "network_gear" /\ os = "Windows"
              \/ v.name = "microsoft" /\ os = "Cisco"
BY DEF DetectIdentityMismatch

LEMMA PathJudged ==
  ASSUME PathOK, routers < 64
  PROVE  MismatchIsTrue
<1>1. FingerprintOS(ttl).os = OSOf(initial) /\ initial \in {64, 128, 255}
  <2>1. EstimateRightWhenClose
    BY PathEstimated
  <2>2. initial \in {64, 128, 255} /\ routers \in Nat
    BY DEF PathOK
  <2>3. FingerprintOS(ttl).initialTTL = initial
    BY <2>1, <2>2 DEF EstimateRightWhenClose
  <2> QED
    BY <2>2, <2>3, Fingerprints
<1>2. mac \in MAC
  BY DEF PathOK
<1> DEFINE os == FingerprintOS(ttl).os
           v == LookupVendor(mac)
           reported == DetectIdentityMismatch(v, os)
<1>3. /\ os = "Windows" <=> initial = 128
      /\ os = "Cisco" <=> initial = 255
  BY <1>1 DEF OSOf
<1> HIDE DEF os, v
<1>4. reported # {} <=> \/ initial = 128 /\ mac \in {"apple", "cisco", "group"}
                        \/ initial = 255 /\ mac = "microsoft"
  <2>1. CASE mac \in {"none", "unregistered", "local"}
    <3>1. v.name \in {"Unknown", "Randomized"}
      BY <2>1, VendorsKnown DEF Vendor, v
    <3> QED
      BY <2>1, <3>1, MismatchCases
  <2>2. CASE mac \in {"group", "cisco"}
    <3>1. v.name = mac /\ v.category = "network_gear"
      BY <2>2, VendorsKnown DEF Vendor, v
    <3> QED
      BY <1>1, <1>3, <2>2, <3>1, MismatchCases
  <2>3. CASE mac \in {"apple", "microsoft", "other"}
    <3>1. v.name = mac /\ v.category = "workstation"
      BY <2>3, VendorsKnown DEF Vendor, v
    <3> QED
      BY <1>1, <1>3, <2>3, <3>1, MismatchCases
  <2> QED
    BY <1>2, <2>1, <2>2, <2>3 DEF MAC
<1> QED
  BY <1>4 DEF MismatchIsTrue, os, v

LEMMA PathTrue ==
  ASSUME PathOK
  PROVE  FindingsTrueWhenClose
BY PathFlagged, PathJudged DEF FindingsTrueWhenClose

LEMMA PathLocal ==
  ASSUME PathOK
  PROVE  LocalIsPrivate
<1> DEFINE a == ip.bytes[1]
           b == ip.bytes[2]
           x == 256 * a + b
           private == \/ x \div 256 = (256 * 127 + 0) \div 256
                      \/ x \div 256 = (256 * 10 + 0) \div 256
                      \/ x \div 16 = (256 * 172 + 16) \div 16
                      \/ x \div 1 = (256 * 192 + 168) \div 1
                      \/ x \div 1 = (256 * 169 + 254) \div 1
<1>1. SUFFICES ASSUME ~isIPv6
               PROVE  /\ local <=> private
                      /\ "hop" \in {y[1] : y \in DetectTTLAnomaly(ttl, local, isIPv6)} => private
  BY DEF LocalIsPrivate
<1>2. ip.family = 4 /\ a \in 0..255 /\ b \in 0..255
  <2>1. ip \in Addresses
    BY DEF PathOK
  <2>2. \/ ip \in [family : {4}, bytes : (0..255) \X (0..255)]
        \/ ip \in [family : {6}, class : IPv6Class]
    BY <2>1, TTLPathAssumption
  <2>3. ip \in [family : {4}, bytes : (0..255) \X (0..255)]
    BY <1>1, <2>2 DEF isIPv6
  <2> QED
    BY <2>3
<1>3. local <=> InLocalRange(a, b)
  BY <1>2 DEF local, IsLocalSubnet
<1> HIDE DEF a, b
<1>4. InLocalRange(a, b) <=> \/ a = 10 \/ a = 127 \/ (a = 172 /\ 16 <= b /\ b <= 31)
                             \/ (a = 169 /\ b = 254) \/ (a = 192 /\ b = 168)
  BY <1>2 DEF InLocalRange
<1>5. private <=> \/ a = 10 \/ a = 127 \/ (a = 172 /\ 16 <= b /\ b <= 31)
                  \/ (a = 169 /\ b = 254) \/ (a = 192 /\ b = 168)
  BY <1>2
<1> HIDE DEF private
<1>6. ASSUME "hop" \in {y[1] : y \in DetectTTLAnomaly(ttl, local, isIPv6)}
      PROVE  local
  BY <1>6 DEF DetectTTLAnomaly
<1> QED
  BY <1>3, <1>4, <1>5, <1>6

-----------------------------------------------------------------------------
(* What AddVendor makes of a text, character by character.                 *)
LEMMA FormattedCharacters ==
  ASSUME NEW oui \in OUI, NEW notation \in Notation
  PROVE  LET n == notation.digits
             g == notation.group
             m == n + (n - 1) \div g
             t == Text(oui, notation)
         IN  /\ DOMAIN t = 1..m
             /\ Formatted(t) = [i \in 1..(IF m > 8 THEN 8 ELSE m) |-> ToLower(ColonForDash(t[i]))]
<1> DEFINE n == notation.digits
           g == notation.group
           m == n + (n - 1) \div g
           t == Text(oui, notation)
           f == [i \in 1..m |-> ToLower(ColonForDash(t[i]))]
<1>1. n \in {4, 6, 12} /\ g \in {2, 4, 12}
  BY DEF Notation
<1>2. m \in Nat /\ DOMAIN t = 1..m
  BY <1>1 DEF Text
<1>3. Formatted(t) = IF Len(f) > 8 THEN SubSeq(f, 1, 8) ELSE f
  BY <1>2 DEF Formatted
<1> HIDE DEF m, t
<1>4. Len(f) = m
  BY <1>2
<1>5. m > 8 => SubSeq(f, 1, 8) = [i \in 1..8 |-> f[i]]
  BY <1>2, <1>4
<1>6. Formatted(t) = [i \in 1..(IF m > 8 THEN 8 ELSE m) |-> ToLower(ColonForDash(t[i]))]
  <2>1. CASE m > 8
    <3>1. Formatted(t) = SubSeq(f, 1, 8)
      BY <1>3, <1>4, <2>1
    <3>2. \A i \in 1..8 : f[i] = ToLower(ColonForDash(t[i]))
      BY <1>2, <2>1
    <3> QED
      BY <1>5, <2>1, <3>1, <3>2
  <2>2. CASE ~(m > 8)
    BY <1>3, <1>4, <2>2
  <2> QED
    BY <2>1, <2>2
<1> QED
  BY <1>2, <1>6 DEF m, t

(* The key of a text is the one that LookupVendor computes of an address   *)
(* if and only if the text is its prefix, in pairs of digits.              *)
LEMMA FormattedIsKey ==
  ASSUME NEW oui \in OUI, NEW notation \in Notation, NEW other \in OUI
  PROVE  Formatted(Text(oui, notation)) = Key(other) <=> other = oui /\ InPairs(notation)
<1> DEFINE n == notation.digits
           g == notation.group
           s == notation.separator
           m == n + (n - 1) \div g
           t == Text(oui, notation)
           f == Formatted(t)
<1>1. /\ n \in {4, 6, 12} /\ g \in {2, 4, 12} /\ s \in {":", "-", "."}
  BY DEF Notation
<1>2. f = [i \in 1..(IF m > 8 THEN 8 ELSE m) |-> ToLower(ColonForDash(t[i]))]
  BY FormattedCharacters
<1>3. \A i \in 1..m : t[i] = IF i % (g + 1) = 0 THEN Mark(s)
                             ELSE Digit(oui, i - i \div (g + 1), notation.case)
  BY DEF Text
<1>4. Key(other) = [i \in 1..8 |-> IF i % 3 = 0 THEN Mark(":")
                                   ELSE Digit(other, i - i \div 3, "lower")]
  BY DEF Key, Text
<1>5. oui \notin {":", "-", "."} /\ other \notin {":", "-", "."}
  BY DEF OUI, MAC
<1>6. m \in Nat /\ m >= 4
  BY <1>1
<1> HIDE DEF t, f
<1>7. ASSUME other = oui, InPairs(notation)
      PROVE  f = Key(other)
  <2>1. n \in {6, 12} /\ g = 2 /\ s \in {":", "-"}
    BY <1>1, <1>7 DEF InPairs
  <2>2. m >= 8
    BY <2>1
  <2>3. f = [i \in 1..8 |-> ToLower(ColonForDash(t[i]))]
    BY <1>2, <1>6, <2>2
  <2>4. ASSUME NEW i \in 1..8
        PROVE  ToLower(ColonForDash(t[i])) = IF i % 3 = 0 THEN Mark(":")
                                             ELSE Digit(other, i - i \div 3, "lower")
    <3>1. t[i] = IF i % 3 = 0 THEN Mark(s) ELSE Digit(oui, i - i \div 3, notation.case)
      BY <1>3, <1>6, <2>1, <2>2
    <3>2. CASE i % 3 = 0
      BY <2>1, <3>1, <3>2 DEF ToLower, ColonForDash, Mark
    <3>3. CASE i % 3 # 0
      BY <1>5, <1>7, <3>1, <3>3 DEF ToLower, ColonForDash, Mark, Digit
    <3> QED
      BY <3>2, <3>3
  <2> QED
    BY <1>4, <2>3, <2>4
<1>8. ASSUME f = Key(other)
      PROVE  other = oui /\ InPairs(notation)
  <2>1. DOMAIN f = 1..8
    BY <1>4, <1>8
  <2>2. m >= 8
    BY <1>2, <1>6, <2>1
  <2>3. \A i \in 1..8 : ToLower(ColonForDash(t[i])) = IF i % 3 = 0 THEN Mark(":")
                                                     ELSE Digit(other, i - i \div 3, "lower")
    BY <1>2, <1>4, <1>8, <2>1
  <2>4. other = oui
    <3>1. t[1] = Digit(oui, 1, notation.case)
      BY <1>1, <1>3, <2>2
    <3>2. ToLower(ColonForDash(t[1])) = Digit(other, 1, "lower")
      BY <2>3
    <3> QED
      BY <1>5, <3>1, <3>2 DEF ToLower, ColonForDash, Mark, Digit
  <2>5. ToLower(ColonForDash(t[3])) = Mark(":")
    BY <2>3
  <2>6. g = 2
    <3>1. g # 2 => t[3] = Digit(oui, 3, notation.case)
      BY <1>1, <1>3, <2>2
    <3> QED
      BY <1>5, <2>5, <3>1 DEF ToLower, ColonForDash, Mark, Digit
  <2>7. s # "."
    <3>1. t[3] = Mark(s)
      BY <1>1, <1>3, <2>2, <2>6
    <3> QED
      BY <2>5, <3>1 DEF ToLower, ColonForDash, Mark
  <2>8. n >= 6
    BY <1>1, <2>2, <2>6
  <2> QED
    BY <1>1, <2>4, <2>6, <2>7, <2>8 DEF InPairs
<1> QED
  BY <1>7, <1>8 DEF f, t

(* No two prefixes have the same key.                                      *)
LEMMA KeysDiffer ==
  ASSUME NEW oui \in OUI, NEW other \in OUI, Key(oui) = Key(other)
  PROVE  oui = other
<1>1. Key(oui)[1] = Digit(oui, 1, "lower") /\ Key(other)[1] = Digit(other, 1, "lower")
  BY DEF Key, Text
<1> QED
  BY <1>1 DEF Digit

LEMMA DatabaseBegins ==
  ASSUME ScannerInit
  PROVE  DatabaseOK
<1> SUFFICES ASSUME NEW oui \in OUI PROVE KeyOK(oui)
  BY DEF DatabaseOK, ScannerInit
<1>1. entered = <<>> /\ Named(oui) = {}
  BY DEF ScannerInit, Named
<1>2. DOMAIN ouiDatabase \subseteq OUI
  BY DEF ouiDatabase, OUI, MAC
<1>3. Key(oui) \in DOMAIN database <=> oui \in DOMAIN ouiDatabase
  BY <1>2, KeysDiffer DEF ScannerInit
<1>4. ASSUME oui \in DOMAIN ouiDatabase
      PROVE  database[Key(oui)] = ouiDatabase[oui]
  <2> DEFINE chosen == CHOOSE o \in DOMAIN ouiDatabase : Key(o) = Key(oui)
  <2>1. chosen \in DOMAIN ouiDatabase /\ Key(chosen) = Key(oui)
    BY <1>4
  <2>2. database[Key(oui)] = ouiDatabase[chosen]
    BY <1>4 DEF ScannerInit
  <2>3. chosen = oui
    BY <1>2, <2>1, KeysDiffer
  <2> QED
    BY <2>2, <2>3
<1> QED
  BY <1>1, <1>3, <1>4 DEF KeyOK

(* An addition touches one key, that of the prefix it names if it was      *)
(* typed in pairs of digits and nobody's otherwise.                        *)
LEMMA DatabaseKept ==
  ASSUME DatabaseOK, Add
  PROVE  DatabaseOK'
<1>1. PICK oui \in AddedOUIs, notation \in Notation, vendor \in NewVendors :
        /\ AddVendor(Text(oui, notation), vendor)
        /\ entered' = Append(entered, [oui |-> oui, notation |-> notation, vendor |-> vendor])
  BY DEF Add
<1>2. oui \in OUI /\ entered \in Seq(Entry)
  BY ScannerAssumption DEF DatabaseOK
<1> DEFINE entry == [oui |-> oui, notation |-> notation, vendor |-> vendor]
           last == Len(entered) + 1
           key == Formatted(Text(oui, notation))
<1>3. entry \in Entry
  BY <1>2 DEF Entry
<1>4. /\ entered' \in Seq(Entry)
      /\ DOMAIN entered' = DOMAIN entered \cup {last}
      /\ entered'[last] = entry /\ last \notin DOMAIN entered
      /\ \A i \in DOMAIN entered : entered'[i] = entered[i] /\ i < last
  BY <1>1, <1>2, <1>3
<1>5. /\ DOMAIN database' = DOMAIN database \cup {key}
      /\ database'[key] = vendor
      /\ \A k \in DOMAIN database : k # key => database'[k] = database[k]
  BY <1>1 DEF AddVendor
<1>6. ASSUME NEW other \in OUI
      PROVE  KeyOK(other)'
  <2>1. KeyOK(other)
    BY DEF DatabaseOK
  <2>2. key = Key(other) <=> other = oui /\ InPairs(notation)
    BY <1>2, FormattedIsKey
  <2>3. Named(other)' = IF other = oui /\ InPairs(notation)
                        THEN Named(other) \cup {last} ELSE Named(other)
    BY <1>4 DEF Named
  <2> HIDE DEF key, last
  <2>4. CASE other = oui /\ InPairs(notation)
    <3>1. key = Key(other) /\ Named(other)' = Named(other) \cup {last}
      BY <2>2, <2>3, <2>4
    <3>2. \A i \in Named(other)' : (\A j \in Named(other)' : j <= i) => i = last
      BY <1>2, <1>4, <3>1 DEF Named, last
    <3>3. entered'[last].vendor = vendor
      BY <1>4
    <3> QED
      BY <1>5, <3>1, <3>2, <3>3 DEF KeyOK
  <2>5. CASE ~(other = oui /\ InPairs(notation))
    <3>1. key # Key(other) /\ Named(other)' = Named(other)
      BY <2>2, <2>3, <2>5
    <3>2. \A i \in Named(other) : entered'[i] = entered[i]
      BY <1>4 DEF Named
    <3> QED
      BY <1>5, <2>1, <3>1, <3>2 DEF KeyOK
  <2> QED
    BY <2>4, <2>5
<1> QED
  BY <1>4, <1>6 DEF DatabaseOK, Entry

LEMMA DatabaseAnswers ==
  ASSUME DatabaseOK
  PROVE  EnteredIsFound
<1> SUFFICES ASSUME NEW oui \in OUI \ {"group"}
             PROVE  LET found == LookupVendorIn(Known(database), oui)
                    IN  /\ Named(oui) = {} => found = LookupVendor(oui)
                        /\ \A i \in Named(oui) :
                             (\A j \in Named(oui) : j <= i) => found = entered[i].vendor
  BY DEF EnteredIsFound, Named
<1> DEFINE found == LookupVendorIn(Known(database), oui)
<1>1. KeyOK(oui)
  BY DEF DatabaseOK
<1>2. found = IF Key(oui) \in DOMAIN database THEN database[Key(oui)]
              ELSE IF oui = "local" THEN Vendor("Randomized", "workstation")
              ELSE Vendor("Unknown", "unknown")
  BY DEF LookupVendorIn, Known
<1>3. LookupVendor(oui) = IF oui \in DOMAIN ouiDatabase THEN ouiDatabase[oui]
                          ELSE IF oui = "local" THEN Vendor("Randomized", "workstation")
                          ELSE Vendor("Unknown", "unknown")
  BY DEF LookupVendor, LookupVendorIn
<1> HIDE DEF found
<1>4. Named(oui) = {} => found = LookupVendor(oui)
  BY <1>1, <1>2, <1>3 DEF KeyOK
<1>5. \A i \in Named(oui) : (\A j \in Named(oui) : j <= i) => found = entered[i].vendor
  BY <1>1, <1>2 DEF KeyOK
<1> QED
  BY <1>4, <1>5 DEF found

(* This depends on no state at all, but on what AnalyzeDevice says of any  *)
(* vendor and any number.                                                  *)
LEMMA VerdictsAgree == ProgramsAgree
<1> DEFINE Agree(a, k, v) ==
             LET device == AnalyzeDevice(v, a, k)
                 os     == FingerprintOS(k).os
             IN  /\ a # "none" /\ k \in TTL => device.osGuess = os
                 /\ k \notin TTL => device.osGuess \in {"Unknown", "Custom"}
                 /\ "mismatch" \in device.reasons /\ k \in 1..255 =>
                      /\ os = "Unix"
                      /\ DetectIdentityMismatch(v, os) = {}
                      /\ \A start \in {128, 255} : start - k >= 64
<1>0. SUFFICES ASSUME NEW address \in MAC, NEW n \in Int, NEW v
               PROVE  Agree(address, n, v)
  <2> HIDE DEF Agree
  <2>1. \A a \in MAC, k \in TypedTTLs : Agree(a, k, LookupVendorIn(Known(database), a))
    BY <1>0, ScannerAssumption
  <2> QED
    BY <2>1 DEF ProgramsAgree, Agree
<1> DEFINE device == AnalyzeDevice(v, address, n)
           os == FingerprintOS(n).os
<1>1. n \in TTL => os = PredictOSByTTL(n)
  <2>1. n \in TTL /\ n # 0 =>
          os = OSOf(IF n <= 64 THEN 64 ELSE IF n <= 128 THEN 128 ELSE 255)
    BY DEF FingerprintOS, Baseline
  <2>2. n = 0 => os = "Unknown" /\ PredictOSByTTL(n) = "Unknown"
    BY DEF FingerprintOS, PredictOSByTTL
  <2>3. n \in TTL /\ n # 0 =>
          PredictOSByTTL(n) = IF n <= 64 THEN "Unix" ELSE IF n <= 128 THEN "Windows" ELSE "Cisco"
    BY DEF PredictOSByTTL, TTL
  <2> QED
    BY <2>1, <2>2, <2>3 DEF OSOf, TTL
<1>2. n \notin TTL => PredictOSByTTL(n) \in {"Unknown", "Custom"}
  BY DEF PredictOSByTTL, TTL
<1> HIDE DEF os
<1>3. device.osGuess = IF address = "none" THEN "Unknown" ELSE PredictOSByTTL(n)
  BY DEF AnalyzeDevice
<1>4. ASSUME "mismatch" \in device.reasons, n \in 1..255
      PROVE  /\ os = "Unix" /\ DetectIdentityMismatch(v, os) = {}
             /\ \A start \in {128, 255} : start - n >= 64
  <2>1. v.name = "microsoft" /\ n <= 64
    BY <1>4 DEF AnalyzeDevice
  <2>2. os = "Unix"
    BY <1>1, <1>4, <2>1 DEF PredictOSByTTL, TTL
  <2>3. DetectIdentityMismatch(v, os) = {}
    BY <2>1, <2>2 DEF DetectIdentityMismatch
  <2> QED
    BY <1>4, <2>1, <2>2, <2>3
<1> QED
  BY <1>1, <1>2, <1>3, <1>4 DEF os

-----------------------------------------------------------------------------
(* A packet on its way has a TTL left.                                     *)
THEOREM PathInvariance == Spec => []PathOK
<1>1. Init => PathOK
  BY DEF Init, PathOK
<1>2. PathOK /\ [Forward]_pathVars => PathOK'
  <2> SUFFICES ASSUME PathOK, [Forward]_pathVars
               PROVE  PathOK'
    OBVIOUS
  <2>1. CASE Forward
    BY <2>1 DEF Forward, PathOK, ttl
  <2>2. CASE UNCHANGED pathVars
    BY <2>2 DEF pathVars, PathOK
  <2> QED
    BY <2>1, <2>2
<1> QED
  BY <1>1, <1>2, PTL DEF Spec

(* Of every prefix the scanner's database has what was entered last,       *)
(* whatever else was entered.                                              *)
THEOREM DatabaseInvariance == ScannerSpec => []DatabaseOK
<1>1. DatabaseOK /\ [Add]_scannerVars => DatabaseOK'
  <2> SUFFICES ASSUME DatabaseOK, UNCHANGED scannerVars
               PROVE  DatabaseOK'
    BY DatabaseKept
  <2> QED
    BY DEF scannerVars, DatabaseOK, KeyOK, Named, Entry
<1> QED
  BY <1>1, DatabaseBegins, PTL DEF ScannerSpec

(* The initial TTL, the hops and the system that is known to send with it  *)
(* are estimated right exactly as long as no lower baseline is closer, and *)
(* the hops never overestimated (FingerprintOS).                           *)
THEOREM EstimatesAreRight == Spec => []EstimateRightWhenClose
BY PathInvariance, PathEstimated, PTL

(* What is reported of a packet is true of the path it took and of the     *)
(* host that sent it (DetectTTLAnomaly, DetectIdentityMismatch).           *)
THEOREM FindingsAreTrue == Spec => []FindingsTrueWhenClose
BY PathInvariance, PathTrue, PTL

(* For every IPv4 address, not only those at the borders: it counts as     *)
(* local exactly when it is in one of the five ranges (IsLocalSubnet).     *)
THEOREM LocalRangesAreExact == Spec => []LocalIsPrivate
BY PathInvariance, PathLocal, PTL

(* The scanner finds what was entered last in pairs of digits, in either   *)
(* case, with colons or dashes, as a prefix or a whole address; nothing    *)
(* else that was typed ever changes what it finds (AddVendor,              *)
(* LookupVendor).                                                          *)
THEOREM EnteredVendorsAreFound == ScannerSpec => []EnteredIsFound
BY DatabaseInvariance, DatabaseAnswers, PTL

(* The two programs guess the same system of every TTL a packet can have,  *)
(* and what they say of Microsoft hardware never contradicts each other,   *)
(* whatever was entered into the scanner's database (AnalyzeDevice,        *)
(* FingerprintOS).                                                         *)
THEOREM VerdictsOfBothAgree == ScannerSpec => []ProgramsAgree
BY VerdictsAgree, PTL
=============================================================================
