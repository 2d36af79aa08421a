------------------------------ MODULE EventView ------------------------------
(***************************************************************************)
(* The security events from the ring of NetworkState to the log pane of    *)
(* the terminal interface (ui.go).  Workers add events at any time; the    *)
(* thread of the interface alternates between updateLogs, which takes a    *)
(* snapshot of the ring and then prints what is new in it, and the key c,  *)
(* which empties the ring and then the pane.  Screen adds the tables, and  *)
(* the fairness of the refresh.                                            *)
(*                                                                         *)
(* External: tview runs key handlers and queued updates one at a time, on  *)
(* one thread, and draws the pane as the text printed to it.               *)
(***************************************************************************)
EXTENDS NetworkState

CONSTANTS
  Reports,        \* the events that workers may report
  SnapshotLimit,  \* what updateLogs asks GetEventsSnapshot for: 200
  MaxPublished    \* bound: events that are added

ASSUME EventViewAssumption ==
  /\ Reports \subseteq [source : Address, category : Category, severity : Severity]
  /\ SnapshotLimit \in Nat \ {0} /\ MaxPublished \in Nat

VARIABLES
  ui,                   \* what the interface thread is doing
  snapshot,             \* the local variable events of updateLogs
  lastRenderedEventID,
  pane                  \* the events printed to the pane

IDs(entries) == [i \in DOMAIN entries |-> entries[i].id]

uivars == <<ui, snapshot, lastRenderedEventID, pane>>
vars   == <<nsvars, uivars>>

Init ==
  /\ NSInit
  /\ ui = "idle"
  /\ snapshot = <<>>
  /\ lastRenderedEventID = 0
  /\ pane = <<>>

-----------------------------------------------------------------------------
(* A worker sees a host for the first time, or reports an event of a host. *)
Discover ==
  /\ \E a \in Address \ DOMAIN hosts : RecordHostPacket(a, "none", 0, "OTHER")
  /\ UNCHANGED uivars

Publish ==
  /\ eventIDSeq < MaxPublished
  /\ \E event \in Reports : event.source \in DOMAIN hosts /\ AddEvent(event)
  /\ UNCHANGED uivars

(* updateLogs: the snapshot, under s.mu.  An empty one ends the call.      *)
TakeSnapshot ==
  /\ ui = "idle"
  /\ events # <<>>
  /\ ui' = "render"
  /\ snapshot' = GetEventsSnapshot(SnapshotLimit)
  /\ UNCHANGED <<nsvars, lastRenderedEventID, pane>>

New(entry) == entry.id > lastRenderedEventID

(* Mutant: the last ID given is remembered as the one printed.             *)
RenderUpToNow ==
  /\ ui = "render"
  /\ IF New(Head(snapshot))
       THEN /\ pane' = Append(pane, Head(snapshot))
            /\ lastRenderedEventID' = eventIDSeq
       ELSE UNCHANGED <<pane, lastRenderedEventID>>
  /\ snapshot' = Tail(snapshot)
  /\ ui' = IF Len(snapshot) = 1 THEN "idle" ELSE "render"
  /\ UNCHANGED nsvars

(* The loop of updateLogs, one event of the snapshot at a time: those with *)
(* an ID above the last one printed are printed.                           *)
Render ==
  /\ ui = "render"
  /\ IF New(Head(snapshot))
       THEN /\ pane' = Append(pane, Head(snapshot))
            /\ lastRenderedEventID' = Head(snapshot).id
       ELSE UNCHANGED <<pane, lastRenderedEventID>>
  /\ snapshot' = Tail(snapshot)
  /\ ui' = IF Len(snapshot) = 1 THEN "idle" ELSE "render"
  /\ UNCHANGED nsvars

(* Mutant: the pane is emptied, the ring is not.                           *)
ClearPaneOnly ==
  /\ ui = "idle"
  /\ ui' = "clear"
  /\ UNCHANGED <<nsvars, snapshot, lastRenderedEventID, pane>>

(* The key c: the ring is emptied, then the pane.                          *)
ClearLog ==
  /\ ui = "idle"
  /\ ClearEvents
  /\ ui' = "clear"
  /\ UNCHANGED <<snapshot, lastRenderedEventID, pane>>

ClearPane ==
  /\ ui = "clear"
  /\ ui' = "idle"
  /\ pane' = <<>>
  /\ lastRenderedEventID' = 0
  /\ UNCHANGED <<nsvars, snapshot>>

Next == Discover \/ Publish \/ TakeSnapshot \/ Render \/ ClearLog \/ ClearPane

Spec == Init /\ [][Next]_vars

-----------------------------------------------------------------------------
Entry == [id : Nat, event : [source : Address, category : Category, severity : Severity]]

TypeOK ==
  /\ events \in Seq(Entry) /\ snapshot \in Seq(Entry)
  /\ eventIDSeq \in Nat /\ lastRenderedEventID \in 0..eventIDSeq
  /\ ui \in {"idle", "render", "clear"}
  /\ pane \in Seq(Entry)

(* The ring holds the latest events, in the order of their IDs, without a  *)
(* gap up to the last ID given, and no more of them than its limit         *)
(* (AddEvent, ClearEvents).                                                *)
RingHoldsTheLatest ==
  /\ Len(events) <= maxEvents
  /\ \A i \in 1..Len(events) : events[i].id = eventIDSeq - Len(events) + i

(* An update leaves no hole: when it ends, each of the latest events up to *)
(* the last one printed is on the pane, as many as a snapshot holds, if    *)
(* the ring has not been cleared since.                                    *)
PaneShowsTheLatest ==
  ui = "idle" =>
    \A i \in DOMAIN events :
      (/\ events[i].id <= lastRenderedEventID
       /\ events[i].id > lastRenderedEventID - SnapshotLimit) =>
         events[i].id \in ToSet(IDs(pane))

(* An event in the ring is shown in the end, unless newer ones push it out *)
(* of the snapshots or the log is cleared.                                 *)
EventsGetShown ==
  \A id \in 1..MaxPublished :
    (\E i \in DOMAIN events : events[i].id = id) ~>
      \/ id \in ToSet(IDs(pane))
      \/ eventIDSeq >= id + SnapshotLimit
      \/ \A i \in DOMAIN events : events[i].id # id

(* The first event that may still be shown: a later one than the last one  *)
(* printed, and the oldest of the snapshot or of the ring.                 *)
NextUnread ==
  LET available == IF ui = "render" THEN snapshot ELSE events
      oldest    == IF available = <<>> THEN eventIDSeq + 1 ELSE Head(available).id
  IN  IF lastRenderedEventID < oldest THEN oldest ELSE lastRenderedEventID + 1

Log == INSTANCE EventLog WITH
         last <- eventIDSeq, next <- NextUnread, shown <- IDs(pane)

(* The ring, its snapshots, lastRenderedEventID and the key c together     *)
(* implement the abstract log: in particular the pane shows every event at *)
(* most once and in the order of the IDs, and what was shown is never      *)
(* shown again, not even after the key c has reset lastRenderedEventID.    *)
LogImplemented == Log!Spec
=============================================================================
