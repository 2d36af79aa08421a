------------------------------ MODULE FlowTable ------------------------------
(***************************************************************************)
(* What the connection tracker promises: a bounded memory of the           *)
(* conversations observed last.  A conversation has two ends and no        *)
(* direction.  One that is observed is remembered, with the number of its  *)
(* packets and the time of the last; it is forgotten when it has been      *)
(* quiet for too long, or, if the memory is full of conversations that     *)
(* have not, as the one that has been quiet for longest.                   *)
(***************************************************************************)
EXTENDS Integers, FiniteSets

CONSTANTS
  Endpoint,  \* what can be an end of a conversation
  Protocol,
  Capacity,  \* how many conversations are remembered
  Timeout    \* how long a quiet one is

VARIABLES
  memory,    \* from the remembered conversations to what is known of them
  clock

Conversation(a, b, protocol) == [ends |-> {a, b}, protocol |-> protocol]

Quiet(c) == clock - memory[c].lastSeen

Without(forgotten) == [c \in DOMAIN memory \ forgotten |-> memory[c]]

Init ==
  /\ memory = [c \in {} |-> {}]
  /\ clock = 0

(* A packet of a conversation that is remembered.                          *)
Continue(c) ==
  /\ c \in DOMAIN memory
  /\ memory' = [memory EXCEPT ![c] = [packets |-> @.packets + 1, lastSeen |-> clock]]
  /\ UNCHANGED clock

(* What may be forgotten for the sake of a new conversation: nothing while *)
(* there is room, else all that timed out, else one of the quietest.       *)
Forgettable(forgotten) ==
  LET late == {c \in DOMAIN memory : Quiet(c) > Timeout}
  IN  IF Cardinality(DOMAIN memory) < Capacity THEN forgotten = {}
      ELSE IF late # {} THEN forgotten = late
      ELSE \E c \in DOMAIN memory :
             forgotten = {c} /\ \A d \in DOMAIN memory : Quiet(d) <= Quiet(c)

(* The first packet of a conversation, or the first since it was forgotten.*)
Begin(c) ==
  /\ c \notin DOMAIN memory
  /\ \E forgotten \in SUBSET DOMAIN memory :
       /\ Forgettable(forgotten)
       /\ memory' = [d \in (DOMAIN memory \ forgotten) \cup {c} |->
                       IF d = c THEN [packets |-> 1, lastSeen |-> clock]
                                ELSE memory[d]]
  /\ UNCHANGED clock

(* What has timed out is forgotten, all of it.                             *)
Forget ==
  /\ memory' = Without({c \in DOMAIN memory : Quiet(c) > Timeout})
  /\ UNCHANGED clock

Pass ==
  /\ clock' > clock
  /\ UNCHANGED memory

Next ==
  \/ \E a, b \in Endpoint, protocol \in Protocol :
       LET c == Conversation(a, b, protocol) IN Continue(c) \/ Begin(c)
  \/ Forget
  \/ Pass

Spec == Init /\ [][Next]_<<memory, clock>>
=============================================================================
