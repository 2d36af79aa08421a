----------------------------- MODULE MCConnTrack -----------------------------
(* The tracker and its history on a small table.                           *)
EXTENDS ConnTrackHistory

(* The segments of a whole TCP connection.                                 *)
MCFlagSets == {{"SYN"}, {"SYN", "ACK"}, {"ACK"}, {"FIN", "ACK"},
               {"RST"}, {"FIN", "RST"}}

(* For what does not depend on the flags.                                  *)
AckOnly == {{"ACK"}}
=============================================================================
