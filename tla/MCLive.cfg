SPECIFICATION FairSpec
CONSTANTS
  Absent = Absent
  Nil = Nil
  \* Two contents of the view; one frame remembered, epochs 1 to 3, one
  \* message each way.
  Views = {v1, v2}
  HistoryLimit = 1
  LastEpoch = 3
  MaxFrames = 1
  MaxInputs = 1
  \* One window of two panes, one shell each at a time.
  MaxTreeSessions = 1
  MaxTreeWindows = 1
  MaxPanes = 2
  MaxClients = 1
  MaxShells = 1
  SpawnMayFail = FALSE
  HookCommand = "respawn-pane"
  \* Two clients; three sessions and three windows are ever made.
  Clients = {w1, w2}
  Choosing = {w1}
  Heights = {5, 7}
  MaxSessions = 3
  MaxWindows = 3
  MaxTexts = 3
  MaxAgents = 2
  BufferNames = {n}
  BufferLimit = 2
INVARIANTS
  DrawnIsCurrent
PROPERTIES
  ClicksHitWhatWasSeen
  ConnectionEnds
  ExitIsNoticed
  SidebarStaysPut
\* Connections end.
CHECK_DEADLOCK FALSE
