SPECIFICATION LoopSpec
CONSTANTS
  MaxSessions = 2
  MaxWindows = 2
  MaxPanes = 2
  MaxClients = 1
  MaxShells = 2
  SpawnMayFail = TRUE
  HookCommand = "respawn-pane"
INVARIANTS RoutesAgree TransientsFollowModel
PROPERTIES TerminalsGoWithPanes
ACTION_CONSTRAINT FewShells
