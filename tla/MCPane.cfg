SPECIFICATION PaneSpec
CONSTANTS
  \* Two sessions with an owner, a legacy reporter; four events.
  a = a
  b = b
  legacy = legacy
  Owned = {a, b}
  Unowned = {legacy}
  NoAgent = NoAgent
  MaxStamp = 4
  Lossy = TRUE
  AgentsOutliveScan = FALSE
  \* Three rows, one line of history.
  Marks = {mark}
  Blank = Blank
  Capacity = 1
  MaxHeight = 3
  \* Two rows of two columns, one line of history.
  NoAnchor = NoAnchor
  Width = 2
  MaxLines = 2
  MaxHistory = 1
INVARIANTS
  TypeOK
  NoVisibleDone
  RunnerOwnsRow
  ScreenFits
  CursorInView
  HighlightIsYank
PROPERTIES
  AcceptedExitIsFinal
  RowMovesForward
  CompletionsComeAndStay
  GoneAgentLosesRow
  HistoryContinuesInScreen
