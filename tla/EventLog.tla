------------------------------- MODULE EventLog -------------------------------
(***************************************************************************)
(* What the log of security events promises to who reads it on the screen, *)
(* whatever the ring holds and whenever it is cleared: events are numbered *)
(* in the order in which they happen, the pane grows by runs of successive *)
(* events, always by later ones than it ever showed, and it loses them all *)
(* at once or not at all.  Events may be skipped between two runs, when    *)
(* more of them happen than fit, or when the log is cleared.               *)
(***************************************************************************)
EXTENDS Integers, Sequences

VARIABLES
  last,   \* the number of the last event
  next,   \* the first event that may still be shown
  shown   \* the numbers on the pane

vars == <<last, next, shown>>

Init ==
  /\ last = 0
  /\ next = 1
  /\ shown = <<>>

(* Events that were not shown yet are given up.                            *)
GiveUpSome == next' \in next..last' + 1

Happen ==
  /\ last' = last + 1
  /\ GiveUpSome
  /\ UNCHANGED shown

Forget ==
  /\ GiveUpSome
  /\ UNCHANGED <<last, shown>>

(* The events from first to next' - 1 are shown.                           *)
Show ==
  /\ GiveUpSome
  /\ \E first \in next..next' - 1, end \in next..next' - 1 :
       shown' = shown \o [i \in 1..end - first + 1 |-> first + i - 1]
  /\ UNCHANGED last

Wipe ==
  /\ shown' = <<>>
  /\ GiveUpSome
  /\ UNCHANGED last

Next == Happen \/ Forget \/ Show \/ Wipe

Spec == Init /\ [][Next]_vars
=============================================================================
