\* Five events of two hosts for a ring of three, read two at a time; up to two
\* of three flows in the table.
SPECIFICATION SSpec
CONSTANTS
  Address = {1, 2}
  MaxEvents = 3
  SnapshotLimit = 2
  MaxPublished = 5
  Reports <- MCReports
  FlowKeys = {11, 12, 13}
  FlowLimit = 2
INVARIANTS RowsBelongTogether PaneAndTableAgree RingHoldsTheLatest PaneShowsTheLatest
PROPERTIES AlertsGetShown EventsGetShown LogImplemented
CHECK_DEADLOCK FALSE
