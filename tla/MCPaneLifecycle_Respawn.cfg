SPECIFICATION LoopSpec
CONSTANTS
  MaxSessions = 1
  MaxWindows = 1
  MaxPanes = 1
  MaxClients = 0
  MaxShells = 2
  SpawnMayFail = FALSE
  HookCommand = "none"
INVARIANT DeadMeansExited
