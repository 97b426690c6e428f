SPECIFICATION ViewsSpec
CONSTANTS
  MaxSessions = 2
  MaxWindows = 2
  MaxPanes = 3
  MaxClients = 2
INVARIANTS Consistent NothingUnseenInView
ACTION_CONSTRAINT FewObjects
CHECK_DEADLOCK FALSE
