SPECIFICATION LoopSpec
CONSTANTS
  MaxSessions = 1
  MaxWindows = 2
  MaxPanes = 3
  MaxClients = 0
  MaxShells = 1
  SpawnMayFail = FALSE
  HookCommand = "none"
INVARIANT MarkedPaneExists
