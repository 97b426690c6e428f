SPECIFICATION Spec
CONSTANTS
  MaxSessions = 2
  MaxWindows = 3
  MaxPanes = 3
  MaxClients = 1
INVARIANTS
  TypeOK
  WindowsConsistent
  SessionsConsistent
  FreshIds
  NothingDangles
PROPERTIES
  OnlyKillsLosePanes
  FocusStaysPut
  OwnershipSpec
\* A daemon whose sessions have all closed, with no ids left, stops.
CHECK_DEADLOCK FALSE
