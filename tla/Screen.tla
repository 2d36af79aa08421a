------------------------------- MODULE Screen -------------------------------
(***************************************************************************)
(* The whole refresh of the terminal interface (ui.go): the log pane of    *)
(* EventView, then the table of hosts or of flows, whichever the key t has *)
(* selected.  The pane and the table are made from two snapshots, and the  *)
(* workers go on between them; keys are handled between two refreshes.     *)
(*                                                                         *)
(* A row is what it is about and, for a host, the status it shows.  The    *)
(* banner, the dialog and the other columns are left out.  The flows       *)
(* tracked at the time of a refresh may be any (ConnTrack says which), so  *)
(* GetActiveFlows is any choice of them.                                   *)
(***************************************************************************)
EXTENDS EventView, FiniteSetsExt

CONSTANTS
  FlowKeys,  \* the flows that may be tracked
  FlowLimit  \* what updateFlowsTable asks GetActiveFlows for: 100

ASSUME ScreenAssumption == IsFiniteSet(FlowKeys) /\ FlowLimit \in Nat \ {0}

VARIABLES
  phase,     \* what the interface thread is doing
  viewMode,
  headers,   \* the view the column headers are for
  rows       \* the rows below them

table == <<viewMode, headers, rows>>
svars == <<vars, phase, table>>

SInit ==
  /\ Init
  /\ phase = "idle"
  /\ viewMode = "hosts" /\ headers = "hosts" /\ rows = <<>>

-----------------------------------------------------------------------------
(* The workers go on at any time.                                          *)
Workers == (Discover \/ Publish) /\ UNCHANGED <<phase, table>>

(* A refresh: the banner (GetStats, left out), updateLogs, the table.      *)
UpdateLogs ==
  /\ phase = "idle"
  /\ TakeSnapshot
  /\ phase' = "logs"
  /\ UNCHANGED table

(* updateLogs returns at once when there is no event.                      *)
SkipLogs ==
  /\ phase = "idle"
  /\ events = <<>>
  /\ phase' = "table"
  /\ UNCHANGED <<vars, table>>

PrintLogs ==
  /\ phase = "logs"
  /\ Render
  /\ phase' = IF ui' = "render" THEN "logs" ELSE "table"
  /\ UNCHANGED table

HostRow(a)   == [about |-> a, status |-> hosts[a].status]
FlowRow(key) == [about |-> key, status |-> "none"]

Priority(status) ==
  CASE status = "ALERT" -> 0 [] status = "SUSPICIOUS" -> 1 [] OTHER -> 2

(* Mutant: the order is by LastSeen alone.                                 *)
AnyOrder == SetToSeqs(DOMAIN hosts)

(* The worst first; among equals, the last one seen first, which may be    *)
(* any as NetworkState has no times.                                       *)
GetHostsSnapshot ==
  {s \in SetToSeqs(DOMAIN hosts) :
     \A i, j \in DOMAIN s :
       i < j => Priority(hosts[s[i]].status) <= Priority(hosts[s[j]].status)}

GetActiveFlows(limit) ==
  UNION {SetToSeqs(keys) : keys \in {k \in SUBSET FlowKeys : Cardinality(k) <= limit}}

(* Mutant: rows that are already there keep their cells.                   *)
AddCells(old, new) ==
  [i \in 1..Max({Len(old), Len(new)}) |-> IF i <= Len(old) THEN old[i] ELSE new[i]]

(* SetCell, row by row: rows beyond the new ones stay as they are.         *)
SetCells(old, new) ==
  [i \in 1..Max({Len(old), Len(new)}) |-> IF i <= Len(new) THEN new[i] ELSE old[i]]

(* Mutant: the rows beyond the new ones stay.                              *)
KeepRows(all, n) == all

(* RemoveRow, from the last row down to the first one too many.            *)
RemoveRows(all, n) == SubSeq(all, 1, n)

Shown(new) == RemoveRows(SetCells(rows, new), Len(new))

UpdateTable ==
  /\ phase = "table"
  /\ phase' = "idle"
  /\ \/ /\ viewMode = "hosts"
        /\ \E s \in GetHostsSnapshot :
             rows' = Shown([i \in DOMAIN s |-> HostRow(s[i])])
     \/ /\ viewMode = "flows"
        /\ \E s \in GetActiveFlows(FlowLimit) :
             rows' = Shown([i \in DOMAIN s |-> FlowRow(s[i])])
  /\ UNCHANGED <<vars, viewMode, headers>>

-----------------------------------------------------------------------------
(* The key t.                                                              *)
ToggleView ==
  /\ phase = "idle"
  /\ viewMode' = IF viewMode = "hosts" THEN "flows" ELSE "hosts"
  /\ rows' = <<>>
  /\ headers' = viewMode'
  /\ UNCHANGED <<vars, phase>>

(* The key c.                                                              *)
Clear ==
  \/ phase = "idle"  /\ ClearLog  /\ phase' = "clear" /\ UNCHANGED table
  \/ phase = "clear" /\ ClearPane /\ phase' = "idle"  /\ UNCHANGED table

Refresh == UpdateLogs \/ SkipLogs \/ PrintLogs \/ UpdateTable

SNext == Workers \/ Refresh \/ ToggleView \/ Clear

(* refreshLoop queues an update at every tick and the interface thread     *)
(* runs it; the user may press a key at any time, but a person does not    *)
(* press one ahead of every single update.                                 *)
SSpec ==
  /\ SInit /\ [][SNext]_svars
  /\ SF_svars(UpdateLogs \/ SkipLogs) /\ WF_svars(PrintLogs \/ UpdateTable)
  /\ WF_svars(phase = "clear" /\ Clear)

-----------------------------------------------------------------------------
(* What the rows show belongs to the headers above them, and no host and   *)
(* no flow is listed twice, however the numbers and the order of the rows  *)
(* change from one refresh to the next (renderTableHeaders, the loops over *)
(* SetCell and RemoveRow).                                                 *)
RowsBelongTogether ==
  /\ \A i \in DOMAIN rows : rows[i].about \in IF headers = "hosts" THEN Address ELSE FlowKeys
  /\ \A i, j \in DOMAIN rows : i # j => rows[i].about # rows[j].about

(* When a refresh is done the table agrees with the pane above it: the     *)
(* host of an alert that the pane shows is listed as such, above all hosts *)
(* without one.  The pane comes from the earlier snapshot, AddEvent raises *)
(* the status with the event, and nothing lowers it (the order of the      *)
(* calls in refreshLoop, GetHostsSnapshot).                                *)
PaneAndTableAgree ==
  phase = "idle" /\ viewMode = "hosts" /\ rows # <<>> =>
    \A i \in DOMAIN pane :
      pane[i].event.severity = "ALERT" =>
        \E r \in DOMAIN rows :
          /\ rows[r].about = pane[i].event.source
          /\ \A q \in 1..r : rows[q].status = "ALERT"

(* A host with an alert is listed as such in the end, if the hosts are     *)
(* looked at.                                                              *)
AlertsGetShown ==
  \A a \in Address :
    a \in DOMAIN hosts /\ hosts[a].status = "ALERT" ~>
      viewMode = "flows" \/ [about |-> a, status |-> "ALERT"] \in ToSet(rows)
=============================================================================
