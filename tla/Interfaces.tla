------------------------------ MODULE Interfaces ------------------------------
(***************************************************************************)
(* The choice of the interface to monitor and the addresses that count as  *)
(* local (interfaces.go).                                                  *)
(*                                                                         *)
(* A device is its name and the kinds of IPv4 addresses it has, loopback   *)
(* ones and others.  An address is its family, for IPv4 with its first two *)
(* bytes, for IPv6 the class that the net package puts it in.              *)
(***************************************************************************)
EXTENDS Integers, Sequences, SequencesExt

NotNamedLoopback(device) == device.name \notin {"lo", "lo0"}

HasActiveAddress(device) == "other" \in device.ipv4

(* The first of some of the devices; nothing when there is none.           *)
FirstOf(devices, some) == {devices[i].name : i \in {j \in some : \A k \in some : j <= k}}

(* The first device with an active address that is not called lo, else the *)
(* first that is not called lo, else the first; nothing (an error) when    *)
(* there is no device.                                                     *)
FindDefaultInterface(devices) ==
  LET others == {i \in DOMAIN devices : NotNamedLoopback(devices[i])}
      active == {i \in others : HasActiveAddress(devices[i])}
  IN  FirstOf(devices, IF active # {} THEN active
                       ELSE IF others # {} THEN others ELSE DOMAIN devices)

-----------------------------------------------------------------------------
IPv4(a, b) == [family |-> 4, bytes |-> <<a, b>>]

(* The classes of the net package that IsLocalSubnet tells apart.          *)
IPv6Class == {"loopback", "link-local", "unique-local", "global"}

IPv6(class) == [family |-> 6, class |-> class]

(* Mutant: the range that starts at 172.16 has no end.                     *)
InLocalRangeFrom172_16(a, b) ==
  \/ a \in {10, 127}
  \/ a = 172 /\ b >= 16
  \/ <<a, b>> \in {<<169, 254>>, <<192, 168>>}

InLocalRange(a, b) ==
  \/ a \in {10, 127}
  \/ a = 172 /\ b \in 16..31
  \/ <<a, b>> \in {<<169, 254>>, <<192, 168>>}

IsLocalSubnet(ip) ==
  IF ip.family = 4 THEN InLocalRange(ip.bytes[1], ip.bytes[2])
                   ELSE ip.class \in {"loopback", "link-local", "unique-local"}
=============================================================================
