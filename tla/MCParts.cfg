SPECIFICATION PartsSpec
CONSTANTS
  None = None
  \* Two panes, one of them a full-screen application's at times.
  shell = shell
  editor = editor
  Panes = {shell, editor}
  FullScreen = {editor}
  MaxKeys = 2
  Chains <- LinesRun
  Hooks <- HooksRun
  Hurried = {"command", "prompt-confirm"}
  RootActions = {"copy", "help", "clock", "focus"}
  \* Two servers, one client, one session name.
  Servers = {s1, s2}
  Clients = {c1}
  Names = {n1}
  Torn = Torn
  Absent = Absent
INVARIANTS
  PromptModeHasPrompt
  HooksHaveWrapper
PROPERTIES
  LockstepKeyByKey
  ReleaseEndsCopyMode
  EscapeReleasesKeys
  SavedSessionsKept
  InstallOwnsOnlyItsHooks
\* Servers end.
CHECK_DEADLOCK FALSE
