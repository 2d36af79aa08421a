----------------------------- MODULE ScreenProofs -----------------------------
(***************************************************************************)
(* Theorems about the ring of events and the log pane: the ring never      *)
(* loses the wrong event, an update leaves no hole, and ring, snapshots,   *)
(* lastRenderedEventID and the key c together implement EventLog.  They    *)
(* are proved of EventView, of which the whole screen is shown to be a     *)
(* refinement; what its table shows beside the pane comes last.            *)
(***************************************************************************)
EXTENDS Screen, SequenceTheorems, FiniteSetTheorems, TLAPS

(* The ID of the oldest event in the ring, the next one if there is none.  *)
Oldest == eventIDSeq - Len(events) + 1

(* updateLogs goes through consecutive events that were logged.            *)
SnapshotInOrder ==
  /\ ui = "render" <=> snapshot # <<>>
  /\ \A i \in 1..Len(snapshot) :
       snapshot[i].id = snapshot[1].id + i - 1 /\ snapshot[i].id <= eventIDSeq

(* While the key c is handled, nothing that was printed is in the ring.    *)
NothingPrintedLeft == ui = "clear" => lastRenderedEventID < Oldest

(* The inductive invariant.                                                *)
IInv ==
  /\ TypeOK
  /\ RingHoldsTheLatest
  /\ SnapshotInOrder
  /\ NothingPrintedLeft

(* NewNetworkState corrects a limit that is not positive.                  *)
LEMMA LimitPositive == maxEvents \in Nat \ {0}
  BY NetworkStateAssumption DEF maxEvents

-----------------------------------------------------------------------------
(* One more event in the ring.                                             *)
LEMMA PushedKeepsTheLatest ==
  ASSUME TypeOK, RingHoldsTheLatest, NEW event \in Reports,
         NEW ring, ring = Pushed([id |-> eventIDSeq + 1, event |-> event])
  PROVE  /\ ring \in Seq(Entry)
         /\ Len(ring) \in 1..maxEvents
         /\ Len(ring) <= Len(events) + 1
         /\ \A i \in 1..Len(ring) : ring[i].id = (eventIDSeq + 1) - Len(ring) + i
<1> DEFINE entry == [id |-> eventIDSeq + 1, event |-> event]
<1>1. entry \in Entry /\ entry.id = eventIDSeq + 1
  BY EventViewAssumption DEF TypeOK, Entry
<1>2. events \in Seq(Entry) /\ eventIDSeq \in Nat /\ Len(events) <= maxEvents
  BY DEF TypeOK, RingHoldsTheLatest
<1>3. \A i \in 1..Len(events) : events[i].id = eventIDSeq - Len(events) + i
  BY DEF RingHoldsTheLatest
<1> HIDE DEF entry
<1>4. CASE Len(events) >= maxEvents
  <2>1. ring = Append(Tail(events), entry)
    BY <1>4 DEF Pushed, entry
  <2>2. Len(events) = maxEvents /\ events # <<>>
    BY <1>2, <1>4, LimitPositive
  <2>3. /\ Tail(events) \in Seq(Entry) /\ Len(Tail(events)) = Len(events) - 1
        /\ \A i \in 1..Len(events) - 1 : Tail(events)[i] = events[i + 1]
    BY <1>2, <2>2
  <2>4. ring \in Seq(Entry) /\ Len(ring) = Len(events)
    BY <1>1, <1>2, <2>1, <2>3, <2>2, LimitPositive
  <2>5. ASSUME NEW i \in 1..Len(ring)
        PROVE  ring[i] = IF i = Len(events) THEN entry ELSE events[i + 1]
    BY <1>1, <1>2, <2>1, <2>3, <2>4, <2>2, LimitPositive
  <2>6. ASSUME NEW i \in 1..Len(ring)
        PROVE  ring[i].id = (eventIDSeq + 1) - Len(ring) + i
    <3>1. CASE i = Len(events)
      BY <1>1, <1>2, <2>4, <2>5, <3>1
    <3>2. CASE i # Len(events)
      <4>1. i + 1 \in 1..Len(events)
        BY <1>2, <2>4, <3>2
      <4>2. events[i + 1].id = eventIDSeq - Len(events) + (i + 1)
        BY <1>3, <4>1
      <4> QED
        BY <1>2, <2>4, <2>5, <3>2, <4>2
    <3> QED
      BY <3>1, <3>2
  <2> QED
    BY <1>2, <2>2, <2>4, <2>6, LimitPositive
<1>5. CASE ~(Len(events) >= maxEvents)
  <2>1. ring = Append(events, entry)
    BY <1>5 DEF Pushed, entry
  <2>2. /\ ring \in Seq(Entry) /\ Len(ring) = Len(events) + 1
        /\ ring[Len(ring)] = entry
        /\ \A i \in 1..Len(events) : ring[i] = events[i]
    BY <1>1, <1>2, <2>1
  <2>3. ASSUME NEW i \in 1..Len(ring)
        PROVE  ring[i].id = (eventIDSeq + 1) - Len(ring) + i
    <3>1. CASE i = Len(ring)
      BY <1>1, <1>2, <2>2, <3>1
    <3>2. CASE i # Len(ring)
      <4>1. i \in 1..Len(events)
        BY <1>2, <2>2, <3>2
      <4>2. ring[i].id = eventIDSeq - Len(events) + i
        BY <1>3, <2>2, <4>1
      <4> QED
        BY <1>2, <2>2, <4>1, <4>2
    <3> QED
      BY <3>1, <3>2
  <2> QED
    BY <1>2, <1>5, <2>2, <2>3, LimitPositive
<1> QED
  BY <1>4, <1>5

(* A snapshot of a ring that is not empty.                                 *)
LEMMA SnapshotOfTheRing ==
  ASSUME TypeOK, RingHoldsTheLatest, events # <<>>,
         NEW seen, seen = GetEventsSnapshot(SnapshotLimit)
  PROVE  /\ seen \in Seq(Entry) /\ seen # <<>> /\ Len(seen) >= 1
         /\ \A i \in 1..Len(seen) : seen[i].id = eventIDSeq - Len(seen) + i
         /\ Len(seen) = IF Len(events) > SnapshotLimit THEN SnapshotLimit ELSE Len(events)
         /\ \E from \in Nat : \A i \in 1..Len(seen) :
              from + i \in 1..Len(events) /\ seen[i] = events[from + i]
<1>1. events \in Seq(Entry) /\ eventIDSeq \in Nat /\ Len(events) \in Nat \ {0}
  BY DEF TypeOK
<1>2. \A i \in 1..Len(events) : events[i].id = eventIDSeq - Len(events) + i
  BY DEF RingHoldsTheLatest
<1>3. SnapshotLimit \in Nat \ {0}
  BY EventViewAssumption
<1>4. CASE Len(events) > SnapshotLimit
  <2>1. seen = SubSeq(events, Len(events) - SnapshotLimit + 1, Len(events))
    BY <1>3, <1>4 DEF GetEventsSnapshot
  <2>2. seen \in Seq(Entry) /\ Len(seen) = SnapshotLimit
    BY <1>1, <1>3, <1>4, <2>1
  <2> DEFINE from == Len(events) - SnapshotLimit
  <2>3. from \in Nat
    BY <1>1, <1>3, <1>4
  <2>4. ASSUME NEW i \in 1..Len(seen)
        PROVE  from + i \in 1..Len(events) /\ seen[i] = events[from + i]
    BY <1>1, <1>3, <1>4, <2>1, <2>2
  <2>5. ASSUME NEW i \in 1..Len(seen)
        PROVE  seen[i].id = eventIDSeq - Len(seen) + i
    <3>1. events[from + i].id = eventIDSeq - Len(events) + (from + i)
      BY <1>2, <2>4
    <3> QED
      BY <1>1, <1>3, <2>2, <2>4, <3>1
  <2> HIDE DEF from
  <2>6. \E n \in Nat : \A i \in 1..Len(seen) :
          n + i \in 1..Len(events) /\ seen[i] = events[n + i]
    BY <2>3, <2>4
  <2>7. seen # <<>> /\ Len(seen) >= 1
    BY <1>3, <2>2
  <2> QED
    BY <1>4, <2>2, <2>5, <2>6, <2>7
<1>5. CASE ~(Len(events) > SnapshotLimit)
  <2>1. seen = events
    BY <1>3, <1>5 DEF GetEventsSnapshot
  <2>2. \A i \in 1..Len(seen) : 0 + i \in 1..Len(events) /\ seen[i] = events[0 + i]
    BY <1>1, <2>1
  <2> QED
    BY <1>1, <1>2, <1>5, <2>1, <2>2
<1> QED
  BY <1>4, <1>5

-----------------------------------------------------------------------------
(* At the beginning ring, snapshot and pane are empty.                     *)
LEMMA InitCorrect == Init => IInv
<1> SUFFICES ASSUME Init PROVE IInv
  OBVIOUS
<1>1. TypeOK
  BY DEF Init, NSInit, TypeOK
<1>2. RingHoldsTheLatest
  BY LimitPositive DEF Init, NSInit, RingHoldsTheLatest
<1> QED
  BY <1>1, <1>2 DEF Init, IInv, SnapshotInOrder, NothingPrintedLeft

(* A new event keeps the invariant.                                        *)
LEMMA PublishCorrect == IInv /\ Publish => IInv'
<1> SUFFICES ASSUME IInv, Publish PROVE IInv'
  OBVIOUS
<1>1. PICK event \in Reports : AddEvent(event)
  BY DEF Publish
<1>2. /\ events' = Pushed([id |-> eventIDSeq + 1, event |-> event])
      /\ eventIDSeq' = eventIDSeq + 1
  BY <1>1 DEF AddEvent
<1>3. UNCHANGED <<ui, snapshot, lastRenderedEventID, pane>>
  BY DEF Publish, uivars
<1>4. /\ events' \in Seq(Entry)
      /\ Len(events') \in 1..maxEvents
      /\ Len(events') <= Len(events) + 1
      /\ \A i \in 1..Len(events') : events'[i].id = (eventIDSeq + 1) - Len(events') + i
  BY <1>2, PushedKeepsTheLatest DEF IInv
<1>5. TypeOK'
  BY <1>2, <1>3, <1>4 DEF IInv, TypeOK
<1>6. RingHoldsTheLatest'
  <2>1. maxEvents' = maxEvents
    BY DEF maxEvents
  <2> QED
    BY <1>2, <1>4, <2>1 DEF RingHoldsTheLatest
<1>7. SnapshotInOrder'
  <2>1. ASSUME NEW i \in 1..Len(snapshot) PROVE snapshot[i].id \in Nat
    <3>1. snapshot[i] \in Entry
      BY DEF IInv, TypeOK
    <3> QED
      BY <3>1 DEF Entry
  <2> QED
    BY <1>2, <1>3, <2>1 DEF IInv, SnapshotInOrder, TypeOK
<1>8. NothingPrintedLeft'
  BY <1>2, <1>3, <1>4 DEF IInv, NothingPrintedLeft, Oldest, TypeOK
<1> QED
  BY <1>5, <1>6, <1>7, <1>8 DEF IInv

(* A snapshot keeps it.                                                    *)
LEMMA TakeSnapshotCorrect == IInv /\ TakeSnapshot => IInv'
<1> SUFFICES ASSUME IInv, TakeSnapshot PROVE IInv'
  OBVIOUS
<1>1. UNCHANGED <<events, eventIDSeq, lastRenderedEventID, pane>> /\ ui' = "render"
  BY DEF TakeSnapshot, nsvars
<1>2. /\ snapshot' \in Seq(Entry) /\ snapshot' # <<>> /\ Len(snapshot') >= 1
      /\ \A i \in 1..Len(snapshot') : snapshot'[i].id = eventIDSeq - Len(snapshot') + i
  BY SnapshotOfTheRing DEF IInv, TakeSnapshot
<1>3. TypeOK'
  BY <1>1, <1>2 DEF IInv, TypeOK
<1>4. RingHoldsTheLatest'
  BY <1>1 DEF IInv, RingHoldsTheLatest, maxEvents
<1>5. SnapshotInOrder'
  BY <1>1, <1>2 DEF IInv, TypeOK, SnapshotInOrder
<1>6. NothingPrintedLeft'
  BY <1>1 DEF NothingPrintedLeft
<1> QED
  BY <1>3, <1>4, <1>5, <1>6 DEF IInv

(* The snapshot without its first event, which Render has dealt with.      *)
LEMMA RestOfTheSnapshot ==
  ASSUME IInv, ui = "render"
  PROVE  /\ Len(snapshot) \in Nat \ {0}
         /\ Head(snapshot) = snapshot[1] /\ snapshot[1] \in Entry
         /\ Tail(snapshot) \in Seq(Entry) /\ Len(Tail(snapshot)) = Len(snapshot) - 1
         /\ Tail(snapshot) # <<>> <=> Len(snapshot) # 1
         /\ \A i \in 1..Len(Tail(snapshot)) :
              /\ Tail(snapshot)[i].id = snapshot[1].id + i
              /\ Tail(snapshot)[i].id <= eventIDSeq
<1>1. snapshot \in Seq(Entry) /\ snapshot # <<>>
  BY DEF IInv, TypeOK, SnapshotInOrder
<1>2. /\ Len(snapshot) \in Nat \ {0}
      /\ Head(snapshot) = snapshot[1] /\ snapshot[1] \in Entry
      /\ Tail(snapshot) \in Seq(Entry) /\ Len(Tail(snapshot)) = Len(snapshot) - 1
  BY <1>1
<1>3. Tail(snapshot) # <<>> <=> Len(snapshot) # 1
  BY <1>2
<1>4. ASSUME NEW i \in 1..Len(Tail(snapshot))
      PROVE  /\ Tail(snapshot)[i].id = snapshot[1].id + i
             /\ Tail(snapshot)[i].id <= eventIDSeq
  <2>1. Tail(snapshot)[i] = snapshot[i + 1] /\ i + 1 \in 1..Len(snapshot)
    BY <1>1, <1>2
  <2>2. snapshot[1].id \in Nat
    BY <1>2 DEF Entry
  <2> QED
    BY <1>2, <2>1, <2>2 DEF IInv, SnapshotInOrder
<1> QED
  BY <1>2, <1>3, <1>4

(* Printing or skipping an event of the snapshot keeps it.                 *)
LEMMA RenderCorrect == IInv /\ Render => IInv'
<1> SUFFICES ASSUME IInv, Render PROVE IInv'
  OBVIOUS
<1>1. /\ UNCHANGED <<events, eventIDSeq>>
      /\ ui = "render" /\ ui' = IF Len(snapshot) = 1 THEN "idle" ELSE "render"
      /\ snapshot' = Tail(snapshot)
  BY DEF Render, nsvars
<1>2. /\ Len(snapshot) \in Nat \ {0}
      /\ Head(snapshot) = snapshot[1] /\ snapshot[1] \in Entry
      /\ snapshot' \in Seq(Entry) /\ Len(snapshot') = Len(snapshot) - 1
      /\ snapshot' # <<>> <=> Len(snapshot) # 1
      /\ \A i \in 1..Len(snapshot') :
           /\ snapshot'[i].id = snapshot[1].id + i
           /\ snapshot'[i].id <= eventIDSeq
  BY <1>1, RestOfTheSnapshot
<1>3. snapshot[1].id \in Nat /\ snapshot[1].id <= eventIDSeq
  BY <1>2 DEF IInv, SnapshotInOrder, Entry
<1>4. \/ /\ pane' = Append(pane, snapshot[1])
         /\ lastRenderedEventID' = snapshot[1].id
      \/ UNCHANGED <<pane, lastRenderedEventID>>
  BY <1>2 DEF Render
<1>5. TypeOK'
  <2>1. pane' \in Seq(Entry)
    <3>1. pane \in Seq(Entry) /\ snapshot[1] \in Entry
      BY <1>2 DEF IInv, TypeOK
    <3>2. Append(pane, snapshot[1]) \in Seq(Entry)
      BY ONLY <3>1
    <3>3. pane' = Append(pane, snapshot[1]) \/ pane' = pane
      BY ONLY <1>4
    <3> QED
      BY ONLY <3>1, <3>2, <3>3
  <2>2. lastRenderedEventID' \in 0..eventIDSeq'
    BY <1>1, <1>3, <1>4 DEF IInv, TypeOK
  <2> QED
    BY <1>1, <1>2, <2>1, <2>2 DEF IInv, TypeOK
<1>6. RingHoldsTheLatest'
  BY <1>1 DEF IInv, RingHoldsTheLatest, maxEvents
<1>7. SnapshotInOrder'
  <2>1. \A i \in 1..Len(snapshot') : snapshot'[i].id = snapshot'[1].id + i - 1
    BY <1>2, <1>3
  <2> QED
    BY <1>1, <1>2, <2>1 DEF SnapshotInOrder
<1>8. NothingPrintedLeft'
  BY <1>1 DEF NothingPrintedLeft
<1> QED
  BY <1>5, <1>6, <1>7, <1>8 DEF IInv

(* Emptying the ring keeps it.                                             *)
LEMMA ClearLogCorrect == IInv /\ ClearLog => IInv'
<1> SUFFICES ASSUME IInv, ClearLog PROVE IInv'
  OBVIOUS
<1>1. /\ events' = <<>> /\ ui = "idle" /\ ui' = "clear"
      /\ UNCHANGED <<eventIDSeq, snapshot, lastRenderedEventID, pane>>
  BY DEF ClearLog, ClearEvents
<1>2. TypeOK'
  BY <1>1 DEF IInv, TypeOK
<1>3. RingHoldsTheLatest'
  BY <1>1, LimitPositive DEF RingHoldsTheLatest, maxEvents
<1>4. SnapshotInOrder'
  BY <1>1 DEF IInv, SnapshotInOrder
<1>5. NothingPrintedLeft'
  BY <1>1 DEF IInv, TypeOK, NothingPrintedLeft, Oldest
<1> QED
  BY <1>2, <1>3, <1>4, <1>5 DEF IInv

(* Emptying the pane keeps it.                                             *)
LEMMA ClearPaneCorrect == IInv /\ ClearPane => IInv'
<1> SUFFICES ASSUME IInv, ClearPane PROVE IInv'
  OBVIOUS
<1>1. /\ ui = "clear" /\ ui' = "idle" /\ pane' = <<>> /\ lastRenderedEventID' = 0
      /\ UNCHANGED <<events, eventIDSeq, snapshot>>
  BY DEF ClearPane, nsvars
<1>2. TypeOK'
  BY <1>1 DEF IInv, TypeOK
<1>3. RingHoldsTheLatest'
  BY <1>1 DEF IInv, RingHoldsTheLatest, maxEvents
<1> QED
  BY <1>1, <1>2, <1>3 DEF IInv, SnapshotInOrder, NothingPrintedLeft

(* Steps that leave the log alone.                                         *)
LEMMA LogUntouched ==
  IInv /\ UNCHANGED <<events, eventIDSeq, uivars>> => IInv'
BY DEF IInv, TypeOK, RingHoldsTheLatest, maxEvents, SnapshotInOrder,
       NothingPrintedLeft, Oldest, uivars

(* A new host is no event yet.                                             *)
LEMMA DiscoverTouchesNoEvent == Discover => UNCHANGED <<events, eventIDSeq, uivars>>
BY DEF Discover, RecordHostPacket

(* Every step keeps it.                                                    *)
LEMMA StepCorrect == IInv /\ [Next]_vars => IInv'
<1> SUFFICES ASSUME IInv, [Next]_vars PROVE IInv'
  OBVIOUS
<1>1. CASE Discover
  BY <1>1, LogUntouched, DiscoverTouchesNoEvent
<1>2. CASE Publish
  BY <1>2, PublishCorrect
<1>3. CASE TakeSnapshot
  BY <1>3, TakeSnapshotCorrect
<1>4. CASE Render
  BY <1>4, RenderCorrect
<1>5. CASE ClearLog
  BY <1>5, ClearLogCorrect
<1>6. CASE ClearPane
  BY <1>6, ClearPaneCorrect
<1>7. CASE UNCHANGED vars
  BY <1>7, LogUntouched DEF vars, nsvars
<1> QED
  BY <1>1, <1>2, <1>3, <1>4, <1>5, <1>6, <1>7 DEF Next

(* The inductive invariant holds in every reachable state.                 *)
THEOREM LogInvariant == Spec => []IInv
<1>1. Init => IInv
  BY InitCorrect
<1>2. IInv /\ [Next]_vars => IInv'
  BY StepCorrect
<1> QED
  BY <1>1, <1>2, PTL DEF Spec

(* The ring holds the latest events, without a gap, and keeps to its       *)
(* limit, for every limit and every size of a snapshot.                    *)
THEOREM RingIsTheLatest == Spec => []RingHoldsTheLatest
<1>1. IInv => RingHoldsTheLatest
  BY DEF IInv
<1> QED
  BY <1>1, LogInvariant, PTL

-----------------------------------------------------------------------------
(* The first event that may still be shown, given the oldest one at hand.  *)
After(oldest) ==
  IF lastRenderedEventID < oldest THEN oldest ELSE lastRenderedEventID + 1

(* NextUnread, with the oldest event in the ring and in the snapshot.      *)
UnreadSoFar ==
  /\ eventIDSeq \in Nat /\ lastRenderedEventID \in 0..eventIDSeq
  /\ Oldest \in Int /\ Oldest <= eventIDSeq + 1
  /\ ui # "render" => NextUnread = After(Oldest)
  /\ ui = "render" => /\ snapshot[1].id \in 0..eventIDSeq
                     /\ NextUnread = After(snapshot[1].id)

(* The refinement mapping, case by case.                                   *)
LEMMA NextUnreadIs == IInv => UnreadSoFar
<1> SUFFICES ASSUME IInv PROVE UnreadSoFar
  OBVIOUS
<1>1. /\ events \in Seq(Entry) /\ eventIDSeq \in Nat
      /\ lastRenderedEventID \in 0..eventIDSeq
  BY DEF IInv, TypeOK
<1>2. Oldest \in Int /\ Oldest <= eventIDSeq + 1
  BY <1>1 DEF Oldest
<1>3. ASSUME ui # "render" PROVE NextUnread = After(Oldest)
  <2>1. CASE events = <<>>
    <3>1. Oldest = eventIDSeq + 1
      BY <1>1, <2>1 DEF Oldest
    <3> QED
      BY <1>3, <2>1, <3>1 DEF NextUnread, After
  <2>2. CASE events # <<>>
    <3>1. Head(events) = events[1] /\ 1 \in 1..Len(events)
      BY <1>1, <2>2
    <3>2. Head(events).id = Oldest
      BY <1>1, <3>1 DEF IInv, RingHoldsTheLatest, Oldest
    <3> QED
      BY <1>3, <2>2, <3>2 DEF NextUnread, After
  <2> QED
    BY <2>1, <2>2
<1>4. ASSUME ui = "render"
      PROVE  snapshot[1].id \in 0..eventIDSeq /\ NextUnread = After(snapshot[1].id)
  <2>1. /\ snapshot # <<>> /\ 1 \in 1..Len(snapshot)
        /\ Head(snapshot) = snapshot[1] /\ snapshot[1] \in Entry
    BY <1>4, RestOfTheSnapshot DEF IInv, SnapshotInOrder
  <2>2. snapshot[1].id \in 0..eventIDSeq
    BY <1>1, <2>1 DEF IInv, SnapshotInOrder, Entry
  <2> QED
    BY <1>4, <2>1, <2>2 DEF NextUnread, After
<1> QED
  BY <1>1, <1>2, <1>3, <1>4 DEF UnreadSoFar

(* The IDs of a sequence of events are one as well.                        *)
LEMMA IDsAreASequence ==
  ASSUME NEW s \in Seq(Entry)
  PROVE  /\ IDs(s) \in Seq(Nat) /\ Len(IDs(s)) = Len(s)
         /\ \A i \in 1..Len(s) : IDs(s)[i] = s[i].id
<1>1. Len(s) \in Nat /\ DOMAIN s = 1..Len(s) /\ \A i \in 1..Len(s) : s[i].id \in Nat
  <2>1. Len(s) \in Nat /\ DOMAIN s = 1..Len(s) /\ \A i \in 1..Len(s) : s[i] \in Entry
    OBVIOUS
  <2> QED
    BY <2>1 DEF Entry
<1>2. IDs(s) = [i \in 1..Len(s) |-> s[i].id]
  BY <1>1 DEF IDs
<1>3. IDs(s) \in [1..Len(s) -> Nat]
  BY <1>1, <1>2
<1>4. IDs(s) \in Seq(Nat)
  BY <1>1, <1>3
<1> QED
  BY <1>1, <1>2, <1>3, <1>4, LenProperties

(* One more event on the pane.                                             *)
LEMMA IDsOfAppend ==
  ASSUME NEW s \in Seq(Entry), NEW e \in Entry
  PROVE  IDs(Append(s, e)) = IDs(s) \o <<e.id>>
<1>1. /\ Append(s, e) \in Seq(Entry) /\ Len(Append(s, e)) = Len(s) + 1
      /\ \A i \in 1..Len(s) : Append(s, e)[i] = s[i]
      /\ Append(s, e)[Len(s) + 1] = e
      /\ Len(s) \in Nat
  OBVIOUS
<1>2. /\ IDs(s) \in Seq(Nat) /\ Len(IDs(s)) = Len(s)
      /\ \A i \in 1..Len(s) : IDs(s)[i] = s[i].id
  BY IDsAreASequence
<1>3. /\ IDs(Append(s, e)) \in Seq(Nat) /\ Len(IDs(Append(s, e))) = Len(s) + 1
      /\ \A i \in 1..Len(s) + 1 : IDs(Append(s, e))[i] = Append(s, e)[i].id
  <2>1. \A t \in Seq(Entry) : /\ IDs(t) \in Seq(Nat) /\ Len(IDs(t)) = Len(t)
                             /\ \A i \in 1..Len(t) : IDs(t)[i] = t[i].id
    BY IDsAreASequence
  <2> QED
    BY <1>1, <2>1
<1>4. e.id \in Nat
  BY DEF Entry
<1>5. /\ IDs(s) \o <<e.id>> \in Seq(Nat) /\ Len(IDs(s) \o <<e.id>>) = Len(s) + 1
      /\ \A i \in 1..Len(s) : (IDs(s) \o <<e.id>>)[i] = IDs(s)[i]
      /\ (IDs(s) \o <<e.id>>)[Len(s) + 1] = e.id
  BY <1>1, <1>2, <1>4
<1>6. ASSUME NEW i \in 1..Len(s) + 1
      PROVE  IDs(Append(s, e))[i] = (IDs(s) \o <<e.id>>)[i]
  <2>1. IDs(Append(s, e))[i] = Append(s, e)[i].id
    BY <1>3
  <2>2. CASE i = Len(s) + 1
    BY <1>1, <1>5, <2>1, <2>2
  <2>3. CASE i # Len(s) + 1
    <3>1. i \in 1..Len(s)
      BY <1>1, <2>3
    <3> QED
      BY <1>1, <1>2, <1>5, <2>1, <3>1
  <2> QED
    BY <2>2, <2>3
<1> QED
  BY <1>3, <1>5, <1>6, SeqEqual

(* The abstract log begins empty, too.                                     *)
LEMMA InitIsEmptyLog == Init => Log!Init
<1> SUFFICES ASSUME Init PROVE Log!Init
  OBVIOUS
<1>1. /\ events = <<>> /\ eventIDSeq = 0 /\ lastRenderedEventID = 0
      /\ ui = "idle" /\ pane = <<>>
  BY DEF Init, NSInit
<1>2. NextUnread = 1
  BY <1>1 DEF NextUnread
<1>3. IDs(pane) = <<>>
  BY <1>1 DEF IDs
<1> QED
  BY <1>1, <1>2, <1>3 DEF Log!Init

(* A new event happens in the abstract log; it may push others out.        *)
LEMMA PublishHappens == IInv /\ IInv' /\ Publish => Log!Happen
<1> SUFFICES ASSUME IInv, IInv', Publish PROVE Log!Happen
  OBVIOUS
<1>1. UnreadSoFar /\ UnreadSoFar'
  BY NextUnreadIs, PTL
<1>2. eventIDSeq' = eventIDSeq + 1 /\ UNCHANGED <<ui, snapshot, lastRenderedEventID, pane>>
  BY DEF Publish, AddEvent, uivars
<1>3. Oldest' >= Oldest
  <2>1. PICK event \in Reports : events' = Pushed([id |-> eventIDSeq + 1, event |-> event])
    BY DEF Publish, AddEvent
  <2>2. Len(events') <= Len(events) + 1 /\ Len(events') \in Nat /\ Len(events) \in Nat
    BY <2>1, PushedKeepsTheLatest DEF IInv, TypeOK
  <2> QED
    BY <1>1, <1>2, <2>2 DEF Oldest, UnreadSoFar
<1>4. NextUnread' \in NextUnread..eventIDSeq' + 1
  BY <1>1, <1>2, <1>3 DEF UnreadSoFar, After
<1>5. IDs(pane)' = IDs(pane)
  BY <1>2 DEF IDs
<1> QED
  BY <1>2, <1>4, <1>5 DEF Log!Happen, Log!GiveUpSome

(* What is older than the snapshot is given up.                            *)
LEMMA TakeSnapshotForgets == IInv /\ IInv' /\ TakeSnapshot => Log!Forget
<1> SUFFICES ASSUME IInv, IInv', TakeSnapshot PROVE Log!Forget
  OBVIOUS
<1>1. UnreadSoFar /\ UnreadSoFar'
  BY NextUnreadIs, PTL
<1>2. /\ ui = "idle" /\ ui' = "render"
      /\ UNCHANGED <<events, eventIDSeq, lastRenderedEventID, pane>>
  BY DEF TakeSnapshot, nsvars
<1>3. snapshot'[1].id >= Oldest
  <2>1. /\ Len(snapshot') >= 1 /\ Len(snapshot') <= Len(events)
        /\ \A i \in 1..Len(snapshot') : snapshot'[i].id = eventIDSeq - Len(snapshot') + i
        /\ Len(snapshot') \in Nat /\ Len(events) \in Nat
    BY SnapshotOfTheRing DEF IInv, TypeOK, TakeSnapshot
  <2> QED
    BY <1>1, <2>1 DEF UnreadSoFar, Oldest
<1>4. NextUnread' \in NextUnread..eventIDSeq' + 1
  BY <1>1, <1>2, <1>3 DEF UnreadSoFar, After
<1>5. IDs(pane)' = IDs(pane)
  BY <1>2 DEF IDs
<1> QED
  BY <1>2, <1>4, <1>5 DEF Log!Forget, Log!GiveUpSome

(* So is all that was in the ring.                                         *)
LEMMA ClearLogForgets == IInv /\ IInv' /\ ClearLog => Log!Forget
<1> SUFFICES ASSUME IInv, IInv', ClearLog PROVE Log!Forget
  OBVIOUS
<1>1. UnreadSoFar /\ UnreadSoFar'
  BY NextUnreadIs, PTL
<1>2. /\ events' = <<>> /\ ui = "idle" /\ ui' = "clear"
      /\ UNCHANGED <<eventIDSeq, snapshot, lastRenderedEventID, pane>>
  BY DEF ClearLog, ClearEvents
<1>3. Oldest' = eventIDSeq + 1
  BY <1>1, <1>2 DEF Oldest, UnreadSoFar
<1>4. NextUnread' \in NextUnread..eventIDSeq' + 1
  BY <1>1, <1>2, <1>3 DEF UnreadSoFar, After
<1>5. IDs(pane)' = IDs(pane)
  BY <1>2 DEF IDs
<1> QED
  BY <1>2, <1>4, <1>5 DEF Log!Forget, Log!GiveUpSome

(* The reset of lastRenderedEventID brings nothing back.                   *)
LEMMA ClearPaneWipes == IInv /\ IInv' /\ ClearPane => Log!Wipe
<1> SUFFICES ASSUME IInv, IInv', ClearPane PROVE Log!Wipe
  OBVIOUS
<1>1. UnreadSoFar /\ UnreadSoFar'
  BY NextUnreadIs, PTL
<1>2. /\ ui = "clear" /\ ui' = "idle" /\ pane' = <<>> /\ lastRenderedEventID' = 0
      /\ UNCHANGED <<events, eventIDSeq, snapshot>>
  BY DEF ClearPane, nsvars
<1>3. lastRenderedEventID < Oldest /\ Oldest' = Oldest
  BY <1>2 DEF IInv, NothingPrintedLeft, Oldest
<1>4. NextUnread' \in NextUnread..eventIDSeq' + 1
  BY <1>1, <1>2, <1>3 DEF UnreadSoFar, After
<1>5. IDs(pane)' = <<>>
  BY <1>2 DEF IDs
<1> QED
  BY <1>2, <1>4, <1>5 DEF Log!Wipe, Log!GiveUpSome

(* An event that is printed is the next one to be shown.                   *)
LEMMA RenderShows == IInv /\ IInv' /\ Render => Log!Show \/ Log!Forget
<1> SUFFICES ASSUME IInv, IInv', Render PROVE Log!Show \/ Log!Forget
  OBVIOUS
<1> DEFINE id == snapshot[1].id
<1>1. UnreadSoFar /\ UnreadSoFar'
  BY NextUnreadIs, PTL
<1>2. /\ UNCHANGED <<events, eventIDSeq>>
      /\ ui = "render" /\ ui' = IF Len(snapshot) = 1 THEN "idle" ELSE "render"
      /\ Head(snapshot) = snapshot[1]
  BY RestOfTheSnapshot DEF Render, nsvars
<1>3. ui' = "render" => snapshot'[1].id = id + 1
  <2>1. SUFFICES ASSUME ui' = "render" PROVE snapshot'[1].id = id + 1
    OBVIOUS
  <2>2. snapshot' = Tail(snapshot) /\ Len(snapshot) # 1
    BY <1>2, <2>1 DEF Render
  <2>3. 1 \in 1..Len(Tail(snapshot))
    BY <1>2, <2>2, RestOfTheSnapshot
  <2> QED
    BY <1>2, <2>2, <2>3, RestOfTheSnapshot
<1>4. id \in 0..eventIDSeq /\ NextUnread = After(id)
  BY <1>1, <1>2 DEF UnreadSoFar
<1>5. lastRenderedEventID' = IF id > lastRenderedEventID THEN id ELSE lastRenderedEventID
  BY <1>2 DEF Render, New
<1> HIDE DEF id
<1>6. NextUnread' \in NextUnread..eventIDSeq' + 1 /\ id + 1 <= NextUnread'
  <2>1. CASE ui' = "render"
    BY <1>1, <1>2, <1>3, <1>4, <1>5, <2>1 DEF UnreadSoFar, After
  <2>2. CASE ui' # "render"
    BY <1>1, <1>2, <1>4, <1>5, <2>2 DEF UnreadSoFar, After
  <2> QED
    BY <2>1, <2>2
<1>7. CASE id > lastRenderedEventID
  <2>1. id \in NextUnread..NextUnread' - 1
    BY <1>1, <1>4, <1>6, <1>7 DEF UnreadSoFar, After
  <2>2. pane' = Append(pane, snapshot[1]) /\ pane \in Seq(Entry) /\ snapshot[1] \in Entry
    BY <1>2, <1>7, RestOfTheSnapshot DEF Render, New, id, IInv, TypeOK
  <2>3. IDs(pane)' = IDs(pane) \o [i \in 1..id - id + 1 |-> id + i - 1]
    <3>1. [i \in 1..id - id + 1 |-> id + i - 1] = <<id>>
      <4>1. id \in Int /\ 1..id - id + 1 = {1}
        BY <1>4
      <4> QED
        BY <4>1
    <3>2. IDs(pane)' = IDs(pane) \o <<id>>
      BY <2>2, IDsOfAppend DEF id
    <3> QED
      BY <3>1, <3>2
  <2> QED
    BY <1>2, <1>6, <2>1, <2>3 DEF Log!Show, Log!GiveUpSome
<1>8. CASE ~(id > lastRenderedEventID)
  <2>1. pane' = pane
    BY <1>2, <1>8 DEF Render, New, id
  <2>2. IDs(pane)' = IDs(pane)
    BY <2>1 DEF IDs
  <2> QED
    BY <1>2, <1>6, <2>2 DEF Log!Forget, Log!GiveUpSome
<1> QED
  BY <1>7, <1>8

(* Every step is one of the abstract log, or changes nothing in it.        *)
LEMMA StepIsOfTheLog == IInv /\ IInv' /\ [Next]_vars => [Log!Next]_(Log!vars)
<1> SUFFICES ASSUME IInv, IInv', [Next]_vars PROVE [Log!Next]_(Log!vars)
  OBVIOUS
<1>1. CASE Publish
  BY <1>1, PublishHappens DEF Log!Next
<1>2. CASE TakeSnapshot
  BY <1>2, TakeSnapshotForgets DEF Log!Next
<1>3. CASE Render
  BY <1>3, RenderShows DEF Log!Next
<1>4. CASE ClearLog
  BY <1>4, ClearLogForgets DEF Log!Next
<1>5. CASE ClearPane
  BY <1>5, ClearPaneWipes DEF Log!Next
<1>6. CASE Discover \/ UNCHANGED vars
  <2>1. UNCHANGED <<events, eventIDSeq, uivars>>
    BY <1>6, DiscoverTouchesNoEvent DEF vars, nsvars
  <2> QED
    BY <2>1 DEF Log!vars, NextUnread, IDs, uivars
<1> QED
  BY <1>1, <1>2, <1>3, <1>4, <1>5, <1>6 DEF Next

(* EventView implements the abstract log, for every limit of the ring and  *)
(* of the snapshots: what was shown is not shown again, in whatever order  *)
(* events, updates and the key c come.                                     *)
THEOREM ViewImplementsLog == Spec => LogImplemented
<1>1. Init => Log!Init
  BY InitIsEmptyLog
<1>2. IInv /\ IInv' /\ [Next]_vars => [Log!Next]_(Log!vars)
  BY StepIsOfTheLog
<1> QED
  BY <1>1, <1>2, LogInvariant, PTL DEF Spec, Log!Spec, LogImplemented

-----------------------------------------------------------------------------
(* Every event is on the pane at most once, in the order of the IDs.       *)
PaneInOrder ==
  \A i, j \in 1..Len(pane) : i < j => pane[i].id < pane[j].id

(* And none of those that may still be shown is.                           *)
ShownOnce ==
  /\ PaneInOrder
  /\ \A i \in 1..Len(pane) : pane[i].id < NextUnread

InOrder(numbers) ==
  \A i, j \in 1..Len(numbers) : i < j => numbers[i] < numbers[j]

(* Of two rows of numbers in order, the second all later than the first.   *)
LEMMA ConcatKeepsOrder ==
  ASSUME NEW s \in Seq(Nat), InOrder(s), NEW r \in Seq(Nat), InOrder(r),
         NEW n \in Nat, NEW m \in Nat, n <= m,
         \A i \in 1..Len(s) : s[i] < n, \A i \in 1..Len(r) : n <= r[i] /\ r[i] < m
  PROVE  InOrder(s \o r) /\ \A i \in 1..Len(s \o r) : (s \o r)[i] < m
<1> DEFINE t == s \o r
<1>1. /\ Len(t) = Len(s) + Len(r) /\ Len(s) \in Nat /\ Len(r) \in Nat
      /\ \A i \in 1..Len(s) + Len(r) : t[i] = IF i <= Len(s) THEN s[i] ELSE r[i - Len(s)]
      /\ \A i \in 1..Len(s) : s[i] \in Nat
      /\ \A i \in 1..Len(r) : r[i] \in Nat
  BY ConcatProperties, LenProperties, ElementOfSeq
<1> HIDE DEF t
<1>2. ASSUME NEW i \in 1..Len(t)
      PROVE  \/ i \in 1..Len(s) /\ t[i] = s[i]
             \/ /\ i \notin 1..Len(s) /\ i - Len(s) \in 1..Len(r)
                /\ t[i] = r[i - Len(s)]
  BY <1>1
<1>3. ASSUME NEW i \in 1..Len(t) PROVE t[i] < m
  <2>1. CASE i \in 1..Len(s) /\ t[i] = s[i]
    <3>1. s[i] \in Nat /\ s[i] < n
      BY <1>1, <2>1
    <3> QED
      BY <2>1, <3>1
  <2>2. CASE i - Len(s) \in 1..Len(r) /\ t[i] = r[i - Len(s)]
    BY <2>2
  <2> QED
    BY <1>2, <2>1, <2>2
<1>4. ASSUME NEW i \in 1..Len(t), NEW j \in 1..Len(t), i < j PROVE t[i] < t[j]
  <2>1. CASE j \in 1..Len(s)
    <3>1. i \in 1..Len(s)
      BY <1>1, <1>4, <2>1
    <3>2. t[i] = s[i] /\ t[j] = s[j]
      BY <1>2, <2>1, <3>1
    <3> QED
      BY <1>4, <2>1, <3>1, <3>2 DEF InOrder
  <2>2. CASE i \in 1..Len(s) /\ j \notin 1..Len(s)
    <3>1. t[i] = s[i] /\ t[j] = r[j - Len(s)] /\ j - Len(s) \in 1..Len(r)
      BY <1>2, <2>2
    <3>2. s[i] \in Nat /\ s[i] < n /\ r[j - Len(s)] \in Nat /\ n <= r[j - Len(s)]
      BY <1>1, <2>2, <3>1
    <3> QED
      BY <3>1, <3>2
  <2>3. CASE i \notin 1..Len(s)
    <3>1. /\ i - Len(s) \in 1..Len(r) /\ j - Len(s) \in 1..Len(r)
          /\ i - Len(s) < j - Len(s)
          /\ t[i] = r[i - Len(s)] /\ t[j] = r[j - Len(s)]
      BY <1>1, <1>2, <1>4, <2>3
    <3> QED
      BY <3>1 DEF InOrder
  <2> QED
    BY <2>1, <2>2, <2>3
<1> QED
  BY <1>3, <1>4 DEF InOrder, t

(* The run that the abstract log shows is such a second row.               *)
LEMMA RunKeepsOrder ==
  ASSUME NEW s \in Seq(Nat), InOrder(s), NEW n \in Nat, NEW m \in Nat,
         \A i \in 1..Len(s) : s[i] < n,
         NEW first \in n..m - 1, NEW end \in n..m - 1
  PROVE  LET t == s \o [i \in 1..end - first + 1 |-> first + i - 1]
         IN  InOrder(t) /\ \A i \in 1..Len(t) : t[i] < m
<1> DEFINE more == IF end >= first THEN end - first + 1 ELSE 0
           run  == [i \in 1..more |-> first + i - 1]
<1>1. more \in Nat /\ 1..end - first + 1 = 1..more /\ n <= m
  OBVIOUS
<1>2. \A i \in 1..more : run[i] = first + i - 1 /\ run[i] \in Nat /\ n <= run[i] /\ run[i] < m
  OBVIOUS
<1>3. run \in Seq(Nat) /\ Len(run) = more
  BY <1>1, <1>2, IsASeq
<1>4. InOrder(run)
  BY <1>2, <1>3 DEF InOrder
<1>5. InOrder(s \o run) /\ \A i \in 1..Len(s \o run) : (s \o run)[i] < m
  <2> HIDE DEF run, more
  <2> QED
    BY <1>1, <1>2, <1>3, <1>4, ConcatKeepsOrder
<1> QED
  BY <1>1, <1>5

(* The numbers on the pane, and the first that is not yet, are natural.    *)
NumbersOK ==
  /\ IDs(pane) \in Seq(Nat) /\ Len(IDs(pane)) = Len(pane)
  /\ \A i \in 1..Len(pane) : IDs(pane)[i] = pane[i].id
  /\ NextUnread \in Nat /\ eventIDSeq \in Nat

LEMMA NumbersAreNatural == IInv => NumbersOK
<1> SUFFICES ASSUME IInv PROVE NumbersOK
  OBVIOUS
<1>1. pane \in Seq(Entry)
  BY DEF IInv, TypeOK
<1>2. /\ DOMAIN pane = 1..Len(pane) /\ Len(pane) \in Nat
      /\ \A i \in 1..Len(pane) : pane[i] \in Entry
  BY <1>1
<1>3. \A i \in 1..Len(pane) : pane[i].id \in Nat
  BY <1>2 DEF Entry
<1>4. IDs(pane) = [i \in 1..Len(pane) |-> pane[i].id]
  BY <1>2 DEF IDs
<1>5. IDs(pane) \in Seq(Nat) /\ Len(IDs(pane)) = Len(pane)
  BY <1>2, <1>3, <1>4, IsASeq
<1>6. NextUnread \in Nat /\ eventIDSeq \in Nat
  <2>1. UnreadSoFar
    BY NextUnreadIs
  <2> QED
    BY <2>1 DEF UnreadSoFar, After
<1> QED
  BY <1>4, <1>5, <1>6 DEF NumbersOK

(* The steps of the abstract log show no number twice.                     *)
LEMMA LogShowsOnce ==
  ASSUME IInv, IInv', ShownOnce, [Log!Next]_(Log!vars)
  PROVE  ShownOnce'
<1> DEFINE numbers == IDs(pane)
<1>1. /\ numbers \in Seq(Nat) /\ Len(numbers) = Len(pane)
      /\ \A i \in 1..Len(pane) : numbers[i] = pane[i].id
  BY NumbersAreNatural DEF NumbersOK
<1>2. /\ numbers' \in Seq(Nat) /\ Len(numbers') = Len(pane')
      /\ \A i \in 1..Len(pane') : numbers'[i] = pane'[i].id
  <2>1. NumbersOK'
    BY NumbersAreNatural, PTL
  <2> QED
    BY <2>1 DEF NumbersOK
<1>3. NextUnread \in Nat /\ NextUnread' \in Nat /\ NextUnread <= NextUnread'
  <2>1. NextUnread \in Nat /\ NextUnread' \in Nat /\ eventIDSeq' \in Nat
    <3>1. NumbersOK /\ NumbersOK'
      BY NumbersAreNatural, PTL
    <3> QED
      BY <3>1 DEF NumbersOK
  <2>2. NextUnread' = NextUnread \/ NextUnread' \in NextUnread..eventIDSeq' + 1
    BY DEF Log!Next, Log!Happen, Log!Forget, Log!Show, Log!Wipe, Log!GiveUpSome, Log!vars
  <2>3. CASE NextUnread' \in NextUnread..eventIDSeq' + 1
    BY <2>1, <2>3
  <2>4. CASE NextUnread' = NextUnread
    <3>1. NextUnread <= NextUnread
      BY <2>1
    <3> QED
      BY <2>1, <2>4, <3>1, Zenon
  <2> QED
    BY <2>2, <2>3, <2>4
<1>4. \/ numbers' = numbers
      \/ numbers' = <<>>
      \/ \E first, end \in NextUnread..NextUnread' - 1 :
           numbers' = numbers \o [i \in 1..end - first + 1 |-> first + i - 1]
  BY DEF Log!Next, Log!Happen, Log!Forget, Log!Show, Log!Wipe, Log!vars
<1> HIDE DEF numbers
<1>5. InOrder(numbers) /\ \A i \in 1..Len(numbers) : numbers[i] < NextUnread
  BY <1>1 DEF ShownOnce, PaneInOrder, InOrder
<1>6. SUFFICES /\ \A i, j \in 1..Len(numbers') : i < j => numbers'[i] < numbers'[j]
               /\ \A i \in 1..Len(numbers') : numbers'[i] < NextUnread'
  BY <1>2 DEF ShownOnce, PaneInOrder
<1>7. CASE numbers' = numbers
  BY <1>1, <1>3, <1>5, <1>7 DEF InOrder
<1>8. CASE numbers' = <<>>
  BY <1>8
<1>9. ASSUME NEW first \in NextUnread..NextUnread' - 1, NEW end \in NextUnread..NextUnread' - 1,
             numbers' = numbers \o [i \in 1..end - first + 1 |-> first + i - 1]
      PROVE  /\ \A i, j \in 1..Len(numbers') : i < j => numbers'[i] < numbers'[j]
             /\ \A i \in 1..Len(numbers') : numbers'[i] < NextUnread'
  <2> DEFINE t == numbers'
  <2>1. t = numbers \o [i \in 1..end - first + 1 |-> first + i - 1]
    BY <1>9
  <2> HIDE DEF t
  <2>2. InOrder(t) /\ \A i \in 1..Len(t) : t[i] < NextUnread'
    BY <1>1, <1>3, <1>5, <2>1, RunKeepsOrder
  <2> QED
    BY <2>2 DEF InOrder, t
<1> QED
  BY <1>4, <1>7, <1>8, <1>9

(* However events, updates and the key c follow each other, the pane shows *)
(* no event twice and none out of order, not even after the key c has      *)
(* reset lastRenderedEventID (updateLogs).                                 *)
THEOREM NothingShownTwice == Spec => []PaneInOrder
<1>1. Init => ShownOnce
  BY DEF Init, ShownOnce, PaneInOrder
<1>2. IInv /\ IInv' /\ ShownOnce /\ [Next]_vars => ShownOnce'
  BY StepIsOfTheLog, LogShowsOnce
<1>3. ShownOnce => PaneInOrder
  BY DEF ShownOnce
<1> QED
  BY <1>1, <1>2, <1>3, LogInvariant, PTL DEF Spec

-----------------------------------------------------------------------------
(* An event that was printed since the pane was empty.                     *)
OnPane(id) == \E j \in 1..Len(pane) : pane[j].id = id

(* Between updates, the events in the ring that are no older than a        *)
(* snapshot is long, back from the last one printed, are on the pane.      *)
NoHoleBetween ==
  ui = "idle" =>
    \A id \in Oldest..lastRenderedEventID :
      id > lastRenderedEventID - SnapshotLimit => OnPane(id)

(* During an update the same holds back from the end of the snapshot, of   *)
(* those that were printed before or that the loop has dealt with.         *)
NoHoleDuring ==
  ui = "render" =>
    LET first == snapshot[1].id
        end   == first + Len(snapshot) - 1
    IN  /\ lastRenderedEventID <= end
        /\ \A id \in Oldest..eventIDSeq :
             id > end - SnapshotLimit /\ (id < first \/ id <= lastRenderedEventID) => OnPane(id)

NoHole == NoHoleBetween /\ NoHoleDuring

(* New events push old ones out of the ring and print none.                *)
LEMMA PublishLeavesNoHole == IInv /\ IInv' /\ NoHole /\ Publish => NoHole'
<1> SUFFICES ASSUME IInv, IInv', NoHole, Publish PROVE NoHole'
  OBVIOUS
<1>1. /\ eventIDSeq' = eventIDSeq + 1 /\ eventIDSeq \in Nat
      /\ lastRenderedEventID \in 0..eventIDSeq
      /\ UNCHANGED <<ui, snapshot, lastRenderedEventID, pane>>
  BY DEF Publish, AddEvent, uivars, IInv, TypeOK
<1>2. Oldest' >= Oldest /\ Oldest \in Int /\ Oldest' \in Int
  <2>1. PICK event \in Reports : events' = Pushed([id |-> eventIDSeq + 1, event |-> event])
    BY DEF Publish, AddEvent
  <2>2. Len(events') <= Len(events) + 1 /\ Len(events') \in Nat /\ Len(events) \in Nat
    BY <2>1, PushedKeepsTheLatest DEF IInv, TypeOK
  <2> QED
    BY <1>1, <2>2 DEF Oldest
<1>3. \A id : OnPane(id)' <=> OnPane(id)
  BY <1>1 DEF OnPane
<1>4. NoHoleBetween'
  BY <1>1, <1>2, <1>3 DEF NoHole, NoHoleBetween
<1>5. NoHoleDuring'
  <2> SUFFICES ASSUME ui = "render" PROVE NoHoleDuring'
    BY <1>1 DEF NoHoleDuring
  <2> DEFINE first == snapshot[1].id
             end   == first + Len(snapshot) - 1
  <2>1. first \in 0..eventIDSeq
    BY NextUnreadIs DEF UnreadSoFar
  <2>2. Len(snapshot) \in Nat
    BY DEF IInv, TypeOK
  <2>3. first' = first /\ end' = end
    BY <1>1
  <2>4. /\ lastRenderedEventID <= end
        /\ \A id \in Oldest..eventIDSeq :
             id > end - SnapshotLimit /\ (id < first \/ id <= lastRenderedEventID) => OnPane(id)
    BY DEF NoHole, NoHoleDuring
  <2> HIDE DEF first, end
  <2>5. ASSUME NEW id \in Oldest'..eventIDSeq', id > end - SnapshotLimit,
               id < first \/ id <= lastRenderedEventID
        PROVE  OnPane(id)'
    <3>1. id \in Oldest..eventIDSeq
      BY <1>1, <1>2, <2>1, <2>5
    <3> QED
      BY <1>3, <2>4, <2>5, <3>1
  <2>6. /\ lastRenderedEventID' <= end'
        /\ \A id \in Oldest'..eventIDSeq' :
             id > end' - SnapshotLimit /\ (id < first' \/ id <= lastRenderedEventID') => OnPane(id)'
    BY <1>1, <2>3, <2>4, <2>5
  <2> QED
    BY <2>6 DEF NoHoleDuring, first, end
<1> QED
  BY <1>4, <1>5 DEF NoHole

(* A snapshot goes back as far as it may, or to the oldest event.          *)
LEMMA TakeSnapshotLeavesNoHole == IInv /\ NoHole /\ TakeSnapshot => NoHole'
<1> SUFFICES ASSUME IInv, NoHole, TakeSnapshot PROVE NoHole'
  OBVIOUS
<1>1. /\ ui = "idle" /\ ui' = "render"
      /\ UNCHANGED <<events, eventIDSeq, lastRenderedEventID, pane>>
      /\ eventIDSeq \in Nat /\ lastRenderedEventID \in 0..eventIDSeq /\ Len(events) \in Nat
      /\ SnapshotLimit \in Nat
  BY EventViewAssumption DEF TakeSnapshot, nsvars, IInv, TypeOK
<1>2. /\ snapshot'[1].id = eventIDSeq - Len(snapshot') + 1
      /\ Len(snapshot') \in Nat /\ Len(snapshot') >= 1
      /\ Len(snapshot') = IF Len(events) > SnapshotLimit THEN SnapshotLimit ELSE Len(events)
  <2>1. /\ snapshot' \in Seq(Entry) /\ Len(snapshot') >= 1
        /\ \A i \in 1..Len(snapshot') : snapshot'[i].id = eventIDSeq - Len(snapshot') + i
        /\ Len(snapshot') = IF Len(events) > SnapshotLimit THEN SnapshotLimit ELSE Len(events)
    BY SnapshotOfTheRing DEF IInv, TakeSnapshot
  <2>2. Len(snapshot') \in Nat /\ 1 \in 1..Len(snapshot')
    BY <2>1
  <2> QED
    BY <2>1, <2>2
<1>3. \A id : OnPane(id)' <=> OnPane(id)
  BY <1>1 DEF OnPane
<1>4. Oldest' = Oldest /\ Oldest = eventIDSeq - Len(events) + 1
  BY <1>1 DEF Oldest
<1> DEFINE first == snapshot'[1].id
           end   == first + Len(snapshot') - 1
<1>5. end = eventIDSeq /\ (first = Oldest \/ first = eventIDSeq - SnapshotLimit + 1)
  <2>1. first \in Int /\ end = eventIDSeq
    BY <1>1, <1>2
  <2> QED
    BY <1>1, <1>2, <1>4, <2>1
<1> HIDE DEF first, end
<1>6. ASSUME NEW id \in Oldest..eventIDSeq, id > end - SnapshotLimit,
             id < first \/ id <= lastRenderedEventID
      PROVE  OnPane(id)
  <2>1. ~(id < first)
    BY <1>1, <1>4, <1>5, <1>6
  <2>2. id \in Oldest..lastRenderedEventID /\ id > lastRenderedEventID - SnapshotLimit
    BY <1>1, <1>4, <1>5, <1>6, <2>1
  <2> QED
    BY <1>1, <2>2 DEF NoHole, NoHoleBetween
<1>7. NoHoleDuring'
  <2>1. /\ lastRenderedEventID' <= end
        /\ \A id \in Oldest'..eventIDSeq' :
             id > end - SnapshotLimit /\ (id < first \/ id <= lastRenderedEventID') => OnPane(id)'
    BY <1>1, <1>3, <1>4, <1>5, <1>6
  <2> QED
    BY <2>1 DEF NoHoleDuring, first, end
<1> QED
  BY <1>1, <1>7 DEF NoHole, NoHoleBetween

(* The loop prints the next event of the snapshot, or has printed it.      *)
LEMMA RenderLeavesNoHole == IInv /\ IInv' /\ NoHole /\ Render => NoHole'
<1> SUFFICES ASSUME IInv, IInv', NoHole, Render PROVE NoHole'
  OBVIOUS
<1> DEFINE first == snapshot[1].id
           end   == first + Len(snapshot) - 1
<1>1. /\ UNCHANGED <<events, eventIDSeq>>
      /\ ui = "render" /\ ui' = IF Len(snapshot) = 1 THEN "idle" ELSE "render"
      /\ snapshot' = Tail(snapshot) /\ Head(snapshot) = snapshot[1]
      /\ eventIDSeq \in Nat /\ lastRenderedEventID \in 0..eventIDSeq /\ Len(events) \in Nat
      /\ SnapshotLimit \in Nat
  BY RestOfTheSnapshot, EventViewAssumption DEF Render, nsvars, IInv, TypeOK
<1>2. /\ Len(snapshot) \in Nat \ {0} /\ Len(snapshot') = Len(snapshot) - 1
      /\ ui' = "render" => snapshot'[1].id = first + 1
  <2>1. /\ Len(snapshot) \in Nat \ {0} /\ Len(Tail(snapshot)) = Len(snapshot) - 1
        /\ \A i \in 1..Len(Tail(snapshot)) : Tail(snapshot)[i].id = first + i
    BY <1>1, RestOfTheSnapshot
  <2> HIDE DEF first
  <2> QED
    BY <1>1, <2>1
<1>3. first \in 0..eventIDSeq
  BY <1>1, NextUnreadIs DEF UnreadSoFar
<1>4. /\ lastRenderedEventID <= end
      /\ \A id \in Oldest..eventIDSeq :
           id > end - SnapshotLimit /\ (id < first \/ id <= lastRenderedEventID) => OnPane(id)
  BY <1>1 DEF NoHole, NoHoleDuring
<1>5. Oldest' = Oldest /\ Oldest \in Int
  BY <1>1 DEF Oldest
<1>6. lastRenderedEventID' = IF first > lastRenderedEventID THEN first ELSE lastRenderedEventID
  BY <1>1 DEF Render, New
<1>7. \A id \in Int : OnPane(id) \/ (id = first /\ first > lastRenderedEventID) => OnPane(id)'
  <2>1. CASE first > lastRenderedEventID
    <3>1. pane' = Append(pane, snapshot[1]) /\ pane \in Seq(Entry) /\ snapshot[1] \in Entry
      BY <1>1, <2>1, RestOfTheSnapshot DEF Render, New, IInv, TypeOK
    <3>2. /\ Len(pane') = Len(pane) + 1 /\ Len(pane) \in Nat
          /\ pane'[Len(pane) + 1] = snapshot[1]
          /\ \A j \in 1..Len(pane) : pane'[j] = pane[j]
      BY <3>1
    <3>3. Len(pane) + 1 \in 1..Len(pane') /\ \A j \in 1..Len(pane) : j \in 1..Len(pane')
      BY <3>2
    <3>4. ASSUME NEW id \in Int, OnPane(id) PROVE OnPane(id)'
      <4>1. PICK j \in 1..Len(pane) : pane[j].id = id
        BY <3>4 DEF OnPane
      <4> QED
        BY <3>2, <3>3, <4>1 DEF OnPane
    <3>5. ASSUME NEW id \in Int, id = first PROVE OnPane(id)'
      BY <3>2, <3>3, <3>5 DEF OnPane
    <3> QED
      BY <3>4, <3>5
  <2>2. CASE ~(first > lastRenderedEventID)
    <3>1. pane' = pane
      BY <1>1, <2>2 DEF Render, New
    <3> QED
      BY <2>2, <3>1 DEF OnPane
  <2> QED
    BY <2>1, <2>2
<1>8. end \in Int
  BY <1>2, <1>3
<1>9. end' = end \/ ui' # "render"
  BY <1>1, <1>2, <1>3
<1>10. Len(snapshot) = 1 => end = first
  BY <1>3
<1>11. first <= end
  BY <1>2, <1>3
<1> HIDE DEF first, end
<1>12. ASSUME NEW id \in Oldest..eventIDSeq, id > end - SnapshotLimit,
              id < first + 1 \/ id <= lastRenderedEventID'
       PROVE  OnPane(id)'
  <2>1. id \in Int /\ (id < first \/ id <= lastRenderedEventID \/ id = first)
    BY <1>1, <1>3, <1>5, <1>6, <1>12
  <2>2. CASE id < first \/ id <= lastRenderedEventID
    <3>1. OnPane(id)
      BY <1>4, <1>12, <2>2
    <3> QED
      BY <1>7, <2>1, <3>1
  <2>3. CASE id = first
    <3>1. CASE first > lastRenderedEventID
      BY <1>7, <2>1, <2>3, <3>1
    <3>2. CASE ~(first > lastRenderedEventID)
      <4>1. id <= lastRenderedEventID
        BY <1>1, <1>3, <2>3, <3>2
      <4>2. OnPane(id)
        BY <1>4, <1>12, <4>1
      <4> QED
        BY <1>7, <2>1, <4>2
    <3> QED
      BY <3>1, <3>2
  <2> QED
    BY <2>1, <2>2, <2>3
<1>13. CASE ui' = "render"
  <2>1. snapshot'[1].id = first + 1 /\ snapshot'[1].id + Len(snapshot') - 1 = end
    BY <1>2, <1>3, <1>13 DEF first, end
  <2>2. lastRenderedEventID' <= end
    BY <1>1, <1>3, <1>4, <1>6, <1>8, <1>11
  <2>3. NoHoleDuring'
    BY <1>1, <1>5, <1>12, <2>1, <2>2 DEF NoHoleDuring
  <2> QED
    BY <1>13, <2>3 DEF NoHole, NoHoleBetween
<1>14. CASE ui' # "render"
  <2>1. end = first /\ ui' = "idle"
    BY <1>1, <1>10, <1>14
  <2>2. lastRenderedEventID' = end
    BY <1>1, <1>3, <1>4, <1>6, <2>1
  <2>3. ASSUME NEW id \in Oldest..end, id > end - SnapshotLimit PROVE OnPane(id)'
    BY <1>1, <1>3, <1>5, <1>12, <2>1, <2>3
  <2>4. NoHoleBetween'
    BY <1>5, <2>2, <2>3 DEF NoHoleBetween
  <2> QED
    BY <1>14, <2>4 DEF NoHole, NoHoleDuring
<1> QED
  BY <1>13, <1>14

(* Every step leaves no hole: the key c leaves nothing old in the ring.    *)
LEMMA StepLeavesNoHole == IInv /\ IInv' /\ NoHole /\ [Next]_vars => NoHole'
<1> SUFFICES ASSUME IInv, IInv', NoHole, [Next]_vars PROVE NoHole'
  OBVIOUS
<1>1. CASE Publish
  BY <1>1, PublishLeavesNoHole
<1>2. CASE TakeSnapshot
  BY <1>2, TakeSnapshotLeavesNoHole
<1>3. CASE Render
  BY <1>3, RenderLeavesNoHole
<1>4. CASE ClearLog
  BY <1>4 DEF ClearLog, NoHole, NoHoleBetween, NoHoleDuring
<1>5. CASE ClearPane
  <2>1. /\ ui' = "idle" /\ lastRenderedEventID' = 0 /\ Oldest' = Oldest
        /\ lastRenderedEventID < Oldest /\ lastRenderedEventID \in Nat /\ Oldest \in Int
    BY <1>5 DEF ClearPane, nsvars, IInv, TypeOK, NothingPrintedLeft, Oldest
  <2> QED
    BY <2>1 DEF NoHole, NoHoleBetween, NoHoleDuring
<1>6. CASE Discover \/ UNCHANGED vars
  <2>1. UNCHANGED <<events, eventIDSeq, uivars>>
    BY <1>6, DiscoverTouchesNoEvent DEF vars, nsvars
  <2> QED
    BY <2>1 DEF NoHole, NoHoleBetween, NoHoleDuring, OnPane, Oldest, uivars
<1> QED
  BY <1>1, <1>2, <1>3, <1>4, <1>5, <1>6 DEF Next

(* An update of the pane leaves no hole, whatever the limits of the ring   *)
(* and of the snapshots, and however events, updates and the key c fall:   *)
(* lastRenderedEventID alone remembers what was printed.                   *)
THEOREM UpdatesLeaveNoHole == Spec => []PaneShowsTheLatest
<1>1. Init => NoHole
  <2> SUFFICES ASSUME Init PROVE NoHole
    OBVIOUS
  <2>1. ui = "idle" /\ lastRenderedEventID = 0 /\ Oldest = 1
    BY DEF Init, NSInit, Oldest
  <2> QED
    BY <2>1 DEF NoHole, NoHoleBetween, NoHoleDuring
<1>2. IInv /\ NoHole => PaneShowsTheLatest
  <2> SUFFICES ASSUME IInv, NoHole, ui = "idle", NEW i \in DOMAIN events,
                      events[i].id <= lastRenderedEventID,
                      events[i].id > lastRenderedEventID - SnapshotLimit
               PROVE  events[i].id \in ToSet(IDs(pane))
    BY DEF PaneShowsTheLatest
  <2>1. /\ events \in Seq(Entry) /\ i \in 1..Len(events) /\ Len(events) \in Nat
        /\ eventIDSeq \in Nat /\ lastRenderedEventID \in Nat
    BY DEF IInv, TypeOK
  <2>2. events[i].id = eventIDSeq - Len(events) + i
    BY <2>1 DEF IInv, RingHoldsTheLatest
  <2>3. events[i].id \in Oldest..lastRenderedEventID
    BY <2>1, <2>2 DEF Oldest
  <2>4. PICK j \in 1..Len(pane) : pane[j].id = events[i].id
    BY <2>3 DEF NoHole, NoHoleBetween, OnPane
  <2>5. pane \in Seq(Entry) /\ j \in DOMAIN pane
    BY <2>4 DEF IInv, TypeOK
  <2>6. IDs(pane)[j] = events[i].id /\ j \in DOMAIN IDs(pane)
    BY <2>4, <2>5 DEF IDs
  <2> QED
    BY <2>6 DEF ToSet
<1> QED
  BY <1>1, <1>2, StepLeavesNoHole, LogInvariant, PTL DEF Spec

-----------------------------------------------------------------------------
(* The whole screen, with its tables and the key t, does to the log what   *)
(* EventView does.                                                         *)
LEMMA ScreenStep == [SNext]_svars => [Next]_vars
<1> SUFFICES ASSUME [SNext]_svars PROVE [Next]_vars
  OBVIOUS
<1>1. CASE Workers
  BY <1>1 DEF Workers, Next
<1>2. CASE Refresh
  BY <1>2 DEF Refresh, UpdateLogs, SkipLogs, PrintLogs, UpdateTable, Next
<1>3. CASE ToggleView
  BY <1>3 DEF ToggleView
<1>4. CASE Clear
  BY <1>4 DEF Clear, Next
<1>5. CASE UNCHANGED svars
  BY <1>5 DEF svars
<1> QED
  BY <1>1, <1>2, <1>3, <1>4, <1>5 DEF SNext

(* Every behaviour of the screen, seen from updateLogs, is one of EventView. *)
THEOREM ScreenImplementsView == SSpec => Spec
<1>1. SInit => Init
  BY DEF SInit
<1>2. [SNext]_svars => [Next]_vars
  BY ScreenStep
<1>3. SSpec => SInit /\ [][SNext]_svars
  BY PTL DEF SSpec
<1> QED
  BY <1>1, <1>2, <1>3, PTL DEF Spec

(* So the screen implements the abstract log as well.                      *)
THEOREM ScreenImplementsLog == SSpec => LogImplemented
BY ScreenImplementsView, ViewImplementsLog, PTL

(* So what EventView shows without holes and only once, the screen does.   *)
THEOREM ScreenShowsAllOnce == SSpec => [](PaneShowsTheLatest /\ PaneInOrder)
BY ScreenImplementsView, UpdatesLeaveNoHole, NothingShownTwice, PTL

-----------------------------------------------------------------------------
(* The inventory as the table reads it: finitely many hosts, each with a   *)
(* status.                                                                 *)
HostsOK ==
  /\ IsFiniteSet(DOMAIN hosts) /\ DOMAIN hosts \subseteq Address
  /\ \A a \in DOMAIN hosts : "status" \in DOMAIN hosts[a] /\ hosts[a].status \in Status

Alerted(a) == a \in DOMAIN hosts /\ hosts[a].status = "ALERT"

(* The host of every alert in some part of the log has that status.        *)
Known(log) ==
  \A i \in 1..Len(log) : log[i].event.severity = "ALERT" => Alerted(log[i].event.source)

AlertsKnown == Known(events) /\ Known(snapshot) /\ Known(pane)

Row == [about : Address \cup FlowKeys, status : Status \cup {"none"}]

Table ==
  /\ viewMode \in {"hosts", "flows"} /\ headers = viewMode
  /\ rows \in Seq(Row)
  /\ RowsBelongTogether
  /\ PaneAndTableAgree

ScreenInv == IInv /\ HostsOK /\ AlertsKnown /\ Table

(* A new host is added, and an event may only make a status worse.         *)
LEMMA HostsGrow ==
  ASSUME HostsOK, [Next]_vars
  PROVE  HostsOK' /\ \A a \in Address : Alerted(a) => Alerted(a)'
<1>1. CASE Discover
  <2>1. PICK ip \in Address \ DOMAIN hosts : RecordHostPacket(ip, "none", 0, "OTHER")
    BY <1>1 DEF Discover
  <2>2. hosts' = [a \in DOMAIN hosts \cup {ip} |->
                    IF a # ip THEN hosts[a] ELSE NewHost("none", 0)]
    BY <2>1 DEF RecordHostPacket
  <2>3. "status" \in DOMAIN NewHost("none", 0) /\ NewHost("none", 0).status \in Status
    BY DEF NewHost, Status
  <2>4. IsFiniteSet(DOMAIN hosts')
    BY <2>2, FS_AddElement DEF HostsOK
  <2>5. HostsOK'
    BY <2>1, <2>2, <2>3, <2>4 DEF HostsOK
  <2> QED
    BY <2>1, <2>2, <2>5 DEF Alerted
<1>2. CASE Publish
  <2>1. PICK event \in Reports : event.source \in DOMAIN hosts /\ AddEvent(event)
    BY <1>2 DEF Publish
  <2>2. hosts' = [a \in DOMAIN hosts |->
                    IF a = event.source
                      THEN [hosts[a] EXCEPT !.status = Elevated(hosts[a].status, event.severity)]
                      ELSE hosts[a]]
    BY <2>1 DEF AddEvent
  <2>3. ASSUME NEW a \in DOMAIN hosts
        PROVE  /\ Elevated(hosts[a].status, event.severity) \in Status
               /\ hosts[a].status = "ALERT" => Elevated(hosts[a].status, event.severity) = "ALERT"
    BY <2>3 DEF HostsOK, Elevated, Status
  <2>4. ASSUME NEW a \in DOMAIN hosts
        PROVE  /\ "status" \in DOMAIN hosts'[a] /\ hosts'[a].status \in Status
               /\ hosts[a].status = "ALERT" => hosts'[a].status = "ALERT"
    <3>1. "status" \in DOMAIN hosts[a] /\ hosts[a].status \in Status
      BY DEF HostsOK
    <3>2. CASE a = event.source
      <4>1. hosts'[a] = [hosts[a] EXCEPT !.status = Elevated(hosts[a].status, event.severity)]
        BY <2>2, <3>2
      <4>2. /\ DOMAIN hosts'[a] = DOMAIN hosts[a]
            /\ hosts'[a].status = Elevated(hosts[a].status, event.severity)
        BY <3>1, <4>1
      <4> QED
        BY <2>3, <3>1, <4>2
    <3>3. CASE a # event.source
      BY <2>2, <3>1, <3>3
    <3> QED
      BY <3>2, <3>3
  <2>5. DOMAIN hosts' = DOMAIN hosts
    BY <2>2
  <2> QED
    BY <2>4, <2>5 DEF HostsOK, Alerted
<1>3. CASE UNCHANGED hosts
  BY <1>3 DEF HostsOK, Alerted
<1> QED
  BY <1>1, <1>2, <1>3 DEF Next, TakeSnapshot, Render, ClearLog, ClearEvents, ClearPane, vars, nsvars

(* What is in the ring after an event was in it before, or is that event.  *)
LEMMA PushedHolds ==
  ASSUME events \in Seq(Entry), NEW entry \in Entry, NEW ring, ring = Pushed(entry),
         NEW i \in 1..Len(ring)
  PROVE  ring[i] = entry \/ \E j \in 1..Len(events) : ring[i] = events[j]
<1>1. CASE Len(events) >= maxEvents
  <2>1. events # <<>> /\ Len(events) \in Nat \ {0}
    BY <1>1, LimitPositive
  <2>2. /\ Tail(events) \in Seq(Entry) /\ Len(Tail(events)) = Len(events) - 1
        /\ \A k \in 1..Len(events) - 1 : Tail(events)[k] = events[k + 1]
    BY <2>1
  <2>3. ring = Append(Tail(events), entry)
    BY <1>1 DEF Pushed
  <2>4. /\ Len(ring) = Len(events) /\ ring[Len(events)] = entry
        /\ \A k \in 1..Len(events) - 1 : ring[k] = Tail(events)[k]
    BY <2>1, <2>2, <2>3
  <2>5. i = Len(events) \/ (i \in 1..Len(events) - 1 /\ i + 1 \in 1..Len(events))
    BY <2>1, <2>4
  <2> QED
    BY <2>2, <2>4, <2>5
<1>2. CASE ~(Len(events) >= maxEvents)
  <2>1. ring = Append(events, entry)
    BY <1>2 DEF Pushed
  <2>2. /\ Len(ring) = Len(events) + 1 /\ ring[Len(events) + 1] = entry /\ Len(events) \in Nat
        /\ \A k \in 1..Len(events) : ring[k] = events[k]
    BY <2>1
  <2>3. i = Len(events) + 1 \/ i \in 1..Len(events)
    BY <2>2
  <2> QED
    BY <2>2, <2>3
<1> QED
  BY <1>1, <1>2

(* An alert raises the status of its host together with its entry into the *)
(* ring, so that no part of the log has one that the inventory lacks.      *)
LEMMA StepKeepsAlertsKnown ==
  ASSUME IInv, HostsOK, AlertsKnown, [Next]_vars
  PROVE  AlertsKnown'
<1> DEFINE Later(a) == a \in DOMAIN hosts' /\ hosts'[a].status = "ALERT"
<1>1. \A a \in Address : Alerted(a) => Later(a)
  BY HostsGrow DEF Alerted
<1>2. \A entry \in Entry : entry.event.source \in Address
  BY DEF Entry
<1>3. events \in Seq(Entry) /\ snapshot \in Seq(Entry) /\ pane \in Seq(Entry)
  BY DEF IInv, TypeOK
<1>4. ASSUME NEW log \in Seq(Entry), Known(log), NEW i \in 1..Len(log),
             log[i].event.severity = "ALERT"
      PROVE  Later(log[i].event.source)
  <2>1. Alerted(log[i].event.source) /\ log[i].event.source \in Address
    BY <1>2, <1>4 DEF Known
  <2> QED
    BY <1>1, <2>1
<1>5. events' = events => Known(events)'
  BY <1>3, <1>4 DEF Known, Alerted, AlertsKnown
<1>6. snapshot' = snapshot => Known(snapshot)'
  BY <1>3, <1>4 DEF Known, Alerted, AlertsKnown
<1>7. pane' = pane => Known(pane)'
  BY <1>3, <1>4 DEF Known, Alerted, AlertsKnown
<1>8. CASE Publish
  <2>1. PICK event \in Reports : event.source \in DOMAIN hosts /\ AddEvent(event)
    BY <1>8 DEF Publish
  <2> DEFINE entry == [id |-> eventIDSeq + 1, event |-> event]
  <2>2. entry \in Entry /\ entry.event = event
    BY EventViewAssumption DEF IInv, TypeOK, Entry
  <2>3. events' = Pushed(entry)
    BY <2>1 DEF AddEvent
  <2>4. event.severity = "ALERT" => Later(event.source)
    <3>1. hosts' = [a \in DOMAIN hosts |->
                      IF a = event.source
                        THEN [hosts[a] EXCEPT !.status = Elevated(hosts[a].status, event.severity)]
                        ELSE hosts[a]]
      BY <2>1 DEF AddEvent
    <3>2. "status" \in DOMAIN hosts[event.source]
      BY <2>1 DEF HostsOK
    <3>3. event.severity = "ALERT" => Elevated(hosts[event.source].status, event.severity) = "ALERT"
      BY DEF Elevated
    <3> QED
      BY <2>1, <3>1, <3>2, <3>3
  <2> HIDE DEF entry
  <2>5. ASSUME NEW i \in 1..Len(events'), events'[i].event.severity = "ALERT"
        PROVE  Later(events'[i].event.source)
    <3>1. events'[i] = entry \/ \E j \in 1..Len(events) : events'[i] = events[j]
      BY <1>3, <2>2, <2>3, <2>5, PushedHolds
    <3>2. CASE events'[i] = entry
      BY <2>2, <2>4, <2>5, <3>2
    <3>3. ASSUME NEW j \in 1..Len(events), events'[i] = events[j]
          PROVE  Later(events'[i].event.source)
      BY <1>3, <1>4, <2>5, <3>3 DEF AlertsKnown
    <3> QED
      BY <3>1, <3>2, <3>3
  <2>6. Known(events)'
    BY <2>5 DEF Known, Alerted
  <2>7. snapshot' = snapshot /\ pane' = pane
    BY <1>8 DEF Publish, uivars
  <2> QED
    BY <1>6, <1>7, <2>6, <2>7 DEF AlertsKnown
<1>9. CASE TakeSnapshot
  <2>1. events # <<>> /\ snapshot' = GetEventsSnapshot(SnapshotLimit)
        /\ events' = events /\ pane' = pane
    BY <1>9 DEF TakeSnapshot, nsvars
  <2>2. PICK from \in Nat : \A i \in 1..Len(snapshot') :
          from + i \in 1..Len(events) /\ snapshot'[i] = events[from + i]
    BY <2>1, SnapshotOfTheRing DEF IInv
  <2>3. ASSUME NEW i \in 1..Len(snapshot'), snapshot'[i].event.severity = "ALERT"
        PROVE  Later(snapshot'[i].event.source)
    BY <1>3, <1>4, <2>2, <2>3 DEF AlertsKnown
  <2> QED
    BY <1>5, <1>7, <2>1, <2>3 DEF Known, Alerted, AlertsKnown
<1>10. CASE Render
  <2>1. /\ events' = events /\ snapshot' = Tail(snapshot) /\ Head(snapshot) = snapshot[1]
        /\ snapshot # <<>> /\ pane' \in {pane, Append(pane, snapshot[1])}
    BY <1>10, RestOfTheSnapshot DEF Render, nsvars, IInv, SnapshotInOrder
  <2>2. /\ Len(snapshot) \in Nat \ {0} /\ snapshot[1] \in Entry
        /\ Len(Tail(snapshot)) = Len(snapshot) - 1
        /\ \A i \in 1..Len(snapshot) - 1 :
             Tail(snapshot)[i] = snapshot[i + 1] /\ i + 1 \in 1..Len(snapshot)
    BY <1>3, <2>1
  <2>3. ASSUME NEW i \in 1..Len(snapshot'), snapshot'[i].event.severity = "ALERT"
        PROVE  Later(snapshot'[i].event.source)
    <3>1. i + 1 \in 1..Len(snapshot) /\ snapshot'[i] = snapshot[i + 1]
      BY <2>1, <2>2, <2>3
    <3> QED
      BY <1>3, <1>4, <2>3, <3>1 DEF AlertsKnown
  <2>4. ASSUME NEW i \in 1..Len(pane'), pane'[i].event.severity = "ALERT",
               pane' = Append(pane, snapshot[1])
        PROVE  Later(pane'[i].event.source)
    <3>1. /\ Len(pane) \in Nat /\ Len(pane') = Len(pane) + 1
          /\ pane'[Len(pane) + 1] = snapshot[1]
          /\ \A j \in 1..Len(pane) : pane'[j] = pane[j]
      BY <1>3, <2>2, <2>4
    <3>2. i \in 1..Len(pane) \/ i = Len(pane) + 1
      BY <2>4, <3>1
    <3>3. CASE i \in 1..Len(pane)
      BY <1>3, <1>4, <2>4, <3>1, <3>3 DEF AlertsKnown
    <3>4. CASE i = Len(pane) + 1
      <4>1. 1 \in 1..Len(snapshot) /\ pane'[i] = snapshot[1]
        BY <2>2, <3>1, <3>4
      <4> QED
        BY <1>3, <1>4, <2>4, <4>1 DEF AlertsKnown
    <3> QED
      BY <3>2, <3>3, <3>4
  <2>5. Known(pane)'
    BY <1>7, <2>1, <2>4 DEF Known, Alerted
  <2> QED
    BY <1>5, <2>1, <2>3, <2>5 DEF Known, Alerted, AlertsKnown
<1>11. CASE ClearLog
  <2>1. events' = <<>> /\ snapshot' = snapshot /\ pane' = pane
    BY <1>11 DEF ClearLog, ClearEvents
  <2>2. Known(events)'
    BY <2>1 DEF Known
  <2> QED
    BY <1>6, <1>7, <2>1, <2>2 DEF AlertsKnown
<1>12. CASE ClearPane
  <2>1. pane' = <<>> /\ snapshot' = snapshot /\ events' = events
    BY <1>12 DEF ClearPane, nsvars
  <2>2. Known(pane)'
    BY <2>1 DEF Known
  <2> QED
    BY <1>5, <1>6, <2>1, <2>2 DEF AlertsKnown
<1>13. CASE Discover \/ UNCHANGED vars
  <2>1. UNCHANGED <<events, eventIDSeq, uivars>>
    BY <1>13, DiscoverTouchesNoEvent DEF vars, nsvars
  <2> QED
    BY <1>5, <1>6, <1>7, <2>1 DEF AlertsKnown, uivars
<1> QED
  BY <1>8, <1>9, <1>10, <1>11, <1>12, <1>13 DEF Next

-----------------------------------------------------------------------------
(* A sequence that lists the elements of a finite set lists each of them   *)
(* once.                                                                   *)
LEMMA ListsEachOnce ==
  ASSUME NEW S, IsFiniteSet(S), NEW s \in SetToSeqs(S)
  PROVE  /\ s \in Seq(S) /\ DOMAIN s = 1..Len(s)
         /\ \A i, j \in 1..Len(s) : i # j => s[i] # s[j]
         /\ \A x \in S : \E i \in 1..Len(s) : s[i] = x
<1> DEFINE n == Cardinality(S)
<1>1. n \in Nat
  BY FS_CardinalityType
<1>2. s \in [1..n -> S] /\ \A i, j \in 1..n : i # j => s[i] # s[j]
  BY DEF SetToSeqs
<1>3. s \in Injection(1..n, S)
  BY <1>2 DEF Injection, IsInjective
<1>4. Cardinality(1..n) = n
  <2>1. Cardinality(1..n) = IF 1 > n THEN 0 ELSE n - 1 + 1
    BY <1>1, FS_Interval
  <2> HIDE DEF n
  <2> QED
    BY <1>1, <2>1
<1>5. s \in Surjection(1..n, S)
  BY <1>3, <1>4, FS_Injection
<1>6. \A x \in S : \E i \in 1..n : s[i] = x
  BY <1>5 DEF Surjection
<1> HIDE DEF n
<1>7. s \in Seq(S) /\ Len(s) = n /\ DOMAIN s = 1..n
  BY <1>1, <1>2
<1> QED
  BY <1>2, <1>6, <1>7

(* SetCell and RemoveRow leave the new rows and nothing else, whatever     *)
(* rows there were before.                                                 *)
LEMMA ShownAreTheNew ==
  ASSUME rows \in Seq(Row), NEW new \in Seq(Row)
  PROVE  Shown(new) = new
<1> DEFINE m == Max({Len(rows), Len(new)})
<1>1. Len(rows) \in Nat /\ Len(new) \in Nat
  OBVIOUS
<1>2. m \in Nat /\ Len(new) <= m /\ m \in {Len(rows), Len(new)}
  <2>1. \E x \in {Len(rows), Len(new)} : \A y \in {Len(rows), Len(new)} : x >= y
    BY <1>1
  <2>2. m \in {Len(rows), Len(new)} /\ \A y \in {Len(rows), Len(new)} : m >= y
    BY <2>1 DEF Max
  <2> HIDE DEF m
  <2> QED
    BY <1>1, <2>2
<1>3. SetCells(rows, new) = [i \in 1..m |-> IF i <= Len(new) THEN new[i] ELSE rows[i]]
  BY DEF SetCells
<1> HIDE DEF m
<1>4. \A i \in 1..m : (IF i <= Len(new) THEN new[i] ELSE rows[i]) \in Row
  <2> SUFFICES ASSUME NEW i \in 1..m PROVE (IF i <= Len(new) THEN new[i] ELSE rows[i]) \in Row
    OBVIOUS
  <2>1. CASE i <= Len(new)
    BY <1>1, <1>2, <2>1
  <2>2. CASE ~(i <= Len(new))
    <3>1. i \in 1..Len(rows)
      BY <1>1, <1>2, <2>2
    <3> QED
      BY <2>2, <3>1
  <2> QED
    BY <2>1, <2>2
<1>5. SetCells(rows, new) \in Seq(Row) /\ Len(SetCells(rows, new)) = m
  <2>1. SetCells(rows, new) \in [1..m -> Row]
    BY <1>3, <1>4
  <2> QED
    BY <1>2, <2>1
<1>6. \A i \in 1..Len(new) : SetCells(rows, new)[i] = new[i]
  BY <1>1, <1>2, <1>3
<1> DEFINE all == SetCells(rows, new)
<1>7. Shown(new) = SubSeq(all, 1, Len(new))
  BY DEF Shown, RemoveRows
<1>8. all \in Seq(Row) /\ Len(all) = m /\ \A i \in 1..Len(new) : all[i] = new[i]
  BY <1>5, <1>6
<1> HIDE DEF all
<1>9. /\ SubSeq(all, 1, Len(new)) \in Seq(Row) /\ Len(SubSeq(all, 1, Len(new))) = Len(new)
      /\ \A i \in 1..Len(new) : SubSeq(all, 1, Len(new))[i] = all[i]
  BY <1>1, <1>2, <1>8
<1> QED
  BY <1>7, <1>8, <1>9, SeqEqual

(* The table of hosts, the worst ones first.                               *)
LEMMA HostTable ==
  ASSUME ScreenInv, UpdateTable, viewMode = "hosts"
  PROVE  Table'
<1>1. PICK s \in GetHostsSnapshot : rows' = Shown([i \in DOMAIN s |-> HostRow(s[i])])
  BY DEF UpdateTable
<1> DEFINE new == [i \in DOMAIN s |-> HostRow(s[i])]
<1>2. UNCHANGED <<viewMode, headers, hosts, pane>>
  BY DEF UpdateTable, vars, nsvars, uivars
<1>3. /\ s \in Seq(DOMAIN hosts) /\ DOMAIN s = 1..Len(s) /\ Len(s) \in Nat
      /\ \A i, j \in 1..Len(s) : i # j => s[i] # s[j]
      /\ \A x \in DOMAIN hosts : \E i \in 1..Len(s) : s[i] = x
      /\ \A i, j \in 1..Len(s) :
           i < j => Priority(hosts[s[i]].status) <= Priority(hosts[s[j]].status)
  <2>1. s \in SetToSeqs(DOMAIN hosts) /\ IsFiniteSet(DOMAIN hosts)
    BY DEF GetHostsSnapshot, ScreenInv, HostsOK
  <2>2. /\ s \in Seq(DOMAIN hosts) /\ DOMAIN s = 1..Len(s)
        /\ \A i, j \in 1..Len(s) : i # j => s[i] # s[j]
        /\ \A x \in DOMAIN hosts : \E i \in 1..Len(s) : s[i] = x
    BY <2>1, ListsEachOnce
  <2> QED
    BY <2>2 DEF GetHostsSnapshot
<1>4. \A i \in 1..Len(s) : /\ s[i] \in DOMAIN hosts /\ s[i] \in Address
                           /\ hosts[s[i]].status \in Status
  BY <1>3 DEF ScreenInv, HostsOK
<1>5. new \in Seq(Row) /\ Len(new) = Len(s)
      /\ \A i \in 1..Len(s) : new[i].about = s[i] /\ new[i].status = hosts[s[i]].status
  <2>1. \A i \in 1..Len(s) : HostRow(s[i]) \in Row
    BY <1>4 DEF HostRow, Row
  <2>2. new \in [1..Len(s) -> Row] /\ \A i \in 1..Len(s) : new[i] = HostRow(s[i])
    BY <1>3, <2>1
  <2> HIDE DEF new
  <2> QED
    BY <1>3, <2>2 DEF HostRow
<1>6. rows' = new
  <2>1. rows' = Shown(new) /\ rows \in Seq(Row)
    BY <1>1 DEF ScreenInv, Table
  <2> HIDE DEF new
  <2> QED
    BY <1>5, <2>1, ShownAreTheNew
<1> HIDE DEF new
<1>7. DOMAIN rows' = 1..Len(s) /\ rows' \in Seq(Row)
  BY <1>5, <1>6
<1>8. RowsBelongTogether'
  BY <1>2, <1>3, <1>4, <1>5, <1>6, <1>7 DEF RowsBelongTogether, ScreenInv, Table
<1>9. PaneAndTableAgree'
  <2> SUFFICES ASSUME NEW i \in DOMAIN pane, pane[i].event.severity = "ALERT"
               PROVE  \E r \in DOMAIN rows' :
                        /\ rows'[r].about = pane[i].event.source
                        /\ \A q \in 1..r : rows'[q].status = "ALERT"
    BY <1>2 DEF PaneAndTableAgree
  <2>1. i \in 1..Len(pane)
    BY DEF ScreenInv, IInv, TypeOK
  <2>2. pane[i].event.source \in DOMAIN hosts /\ hosts[pane[i].event.source].status = "ALERT"
    BY <2>1 DEF ScreenInv, AlertsKnown, Known, Alerted
  <2>3. PICK r \in 1..Len(s) : s[r] = pane[i].event.source
    BY <1>3, <2>2
  <2>4. ASSUME NEW q \in 1..r PROVE rows'[q].status = "ALERT"
    <3>1. q \in 1..Len(s) /\ q \in Int /\ r \in Int
      BY <1>3
    <3>2. hosts[s[q]].status \in Status
      BY <1>4, <3>1
    <3>3. CASE q = r
      BY <1>5, <1>6, <2>2, <2>3, <3>1, <3>3
    <3>4. CASE q # r
      <4>1. q < r
        BY <3>1, <3>4
      <4>2. Priority(hosts[s[q]].status) <= Priority("ALERT")
        BY <1>3, <2>2, <2>3, <3>1, <4>1
      <4>3. hosts[s[q]].status = "ALERT"
        BY <3>2, <4>2 DEF Priority, Status
      <4> QED
        BY <1>5, <1>6, <3>1, <4>3
    <3> QED
      BY <3>3, <3>4
  <2>5. rows'[r].about = pane[i].event.source /\ r \in DOMAIN rows'
    BY <1>5, <1>6, <1>7, <2>3
  <2> QED
    BY <2>4, <2>5
<1> QED
  BY <1>2, <1>7, <1>8, <1>9 DEF Table, ScreenInv

(* The table of flows.                                                     *)
LEMMA FlowTableShown ==
  ASSUME ScreenInv, UpdateTable, viewMode # "hosts"
  PROVE  Table'
<1>1. PICK s \in GetActiveFlows(FlowLimit) : rows' = Shown([i \in DOMAIN s |-> FlowRow(s[i])])
  BY DEF UpdateTable
<1> DEFINE new == [i \in DOMAIN s |-> FlowRow(s[i])]
<1>2. UNCHANGED <<viewMode, headers>>
  BY DEF UpdateTable
<1>3. PICK keys \in SUBSET FlowKeys : s \in SetToSeqs(keys)
  BY DEF GetActiveFlows
<1>4. IsFiniteSet(keys)
  BY ScreenAssumption, FS_Subset
<1>5. /\ s \in Seq(keys) /\ DOMAIN s = 1..Len(s) /\ Len(s) \in Nat
      /\ \A i, j \in 1..Len(s) : i # j => s[i] # s[j]
  <2>1. /\ s \in Seq(keys) /\ DOMAIN s = 1..Len(s)
        /\ \A i, j \in 1..Len(s) : i # j => s[i] # s[j]
    BY <1>3, <1>4, ListsEachOnce
  <2> QED
    BY <2>1
<1>6. /\ new \in Seq(Row) /\ Len(new) = Len(s)
      /\ \A i \in 1..Len(s) : new[i].about = s[i] /\ s[i] \in FlowKeys
  <2>1. \A i \in 1..Len(s) : s[i] \in FlowKeys /\ FlowRow(s[i]) \in Row
    BY <1>5 DEF FlowRow, Row
  <2>2. new \in [1..Len(s) -> Row] /\ \A i \in 1..Len(s) : new[i] = FlowRow(s[i])
    BY <1>5, <2>1
  <2> HIDE DEF new
  <2> QED
    BY <1>5, <2>1, <2>2 DEF FlowRow
<1>7. rows' = new
  <2>1. rows' = Shown(new) /\ rows \in Seq(Row)
    BY <1>1 DEF ScreenInv, Table
  <2> HIDE DEF new
  <2> QED
    BY <1>6, <2>1, ShownAreTheNew
<1> HIDE DEF new
<1>8. DOMAIN rows' = 1..Len(s) /\ rows' \in Seq(Row)
  BY <1>6, <1>7
<1>9. headers # "hosts"
  BY DEF ScreenInv, Table
<1>10. RowsBelongTogether'
  BY <1>2, <1>5, <1>6, <1>7, <1>8, <1>9 DEF RowsBelongTogether
<1> QED
  BY <1>2, <1>8, <1>10 DEF Table, ScreenInv, PaneAndTableAgree

(* Every step of the interface and of the workers keeps the table; between *)
(* the update of the pane and that of the table nothing is claimed.        *)
LEMMA StepKeepsTable ==
  ASSUME ScreenInv, [SNext]_svars
  PROVE  Table'
<1> USE DEF ScreenInv
<1>1. CASE Workers \/ UNCHANGED svars
  <2>1. UNCHANGED <<pane, phase, viewMode, headers, rows>>
    BY <1>1 DEF Workers, Discover, Publish, svars, vars, uivars, table
  <2> QED
    BY <2>1 DEF Table, RowsBelongTogether, PaneAndTableAgree
<1>2. CASE UpdateLogs \/ SkipLogs \/ PrintLogs
  <2>1. phase' \in {"logs", "table"} /\ UNCHANGED <<viewMode, headers, rows>>
    BY <1>2 DEF UpdateLogs, SkipLogs, PrintLogs, table
  <2> QED
    BY <2>1 DEF Table, RowsBelongTogether, PaneAndTableAgree
<1>3. CASE UpdateTable
  BY <1>3, HostTable, FlowTableShown
<1>4. CASE ToggleView
  <2>1. rows' = <<>> /\ headers' = viewMode' /\ viewMode' \in {"hosts", "flows"}
    BY <1>4 DEF ToggleView, Table
  <2> QED
    BY <2>1 DEF Table, RowsBelongTogether, PaneAndTableAgree
<1>5. CASE Clear
  <2>1. /\ phase' = "clear" \/ pane' = <<>>
        /\ UNCHANGED <<viewMode, headers, rows>>
    BY <1>5 DEF Clear, ClearPane, table
  <2> QED
    BY <2>1 DEF Table, RowsBelongTogether, PaneAndTableAgree
<1> QED
  BY <1>1, <1>2, <1>3, <1>4, <1>5 DEF SNext, Refresh

(* The inductive invariant of the whole screen holds in every reachable    *)
(* state.                                                                  *)
THEOREM ScreenInvariance == SSpec => []ScreenInv
<1>1. SInit => ScreenInv
  <2> SUFFICES ASSUME SInit PROVE ScreenInv
    OBVIOUS
  <2>1. /\ hosts = [a \in {} |-> {}] /\ events = <<>> /\ snapshot = <<>> /\ pane = <<>>
        /\ rows = <<>> /\ viewMode = "hosts" /\ headers = "hosts"
    BY DEF SInit, Init, NSInit
  <2>2. IInv
    BY InitCorrect DEF SInit
  <2>3. HostsOK
    BY <2>1, FS_EmptySet DEF HostsOK
  <2>4. AlertsKnown
    BY <2>1 DEF AlertsKnown, Known
  <2>5. Table
    BY <2>1 DEF Table, RowsBelongTogether, PaneAndTableAgree
  <2> QED
    BY <2>2, <2>3, <2>4, <2>5 DEF ScreenInv
<1>2. ScreenInv /\ [SNext]_svars => ScreenInv'
  <2> SUFFICES ASSUME ScreenInv, [SNext]_svars PROVE ScreenInv'
    OBVIOUS
  <2>1. [Next]_vars
    BY ScreenStep
  <2> QED
    BY <2>1, StepCorrect, HostsGrow, StepKeepsAlertsKnown, StepKeepsTable DEF ScreenInv
<1>3. SSpec => SInit /\ [][SNext]_svars
  BY PTL DEF SSpec
<1> QED
  BY <1>1, <1>2, <1>3, PTL

(* The rows below the headers are of the kind that the headers announce,   *)
(* and list nothing twice, for any number of hosts and flows and however   *)
(* they change between refreshes (the loops over SetCell and RemoveRow).   *)
THEOREM TableIsOfOneKind == SSpec => []RowsBelongTogether
<1>1. ScreenInv => RowsBelongTogether
  BY DEF ScreenInv, Table
<1> QED
  BY <1>1, ScreenInvariance, PTL

(* Pane and table, made of two snapshots with the workers going on between *)
(* them, agree about alerts, for any number of hosts and events.           *)
THEOREM TableConfirmsAlerts == SSpec => []PaneAndTableAgree
<1>1. ScreenInv => PaneAndTableAgree
  BY DEF ScreenInv, Table
<1> QED
  BY <1>1, ScreenInvariance, PTL
=============================================================================
