SPECIFICATION Spec
CONSTANTS
  MaxSessions = 1
  MaxWindows = 2
  MaxPanes = 3
  MaxClients = 0
INVARIANTS
  ZoomedPaneInWindow
\* A daemon whose sessions have all closed, with no ids left, stops.
CHECK_DEADLOCK FALSE
