SPECIFICATION FewSpec
CONSTANTS
  \* Four panes, one client, a divider moved once.
  Panes = {p1, p2, p3, p4}
  MaxPanes = 4
  Clients = {c1}
  Viewport <- Ordinary
  Viewports <- TooSmall
  Pointers <- FewPointers
  MaxMoves = 1
SYMMETRY PaneSymmetry
INVARIANTS
  PresetShapeHolds
  PanesPartitionScreen
PROPERTIES
  StepsFollowWindow
  DragMovesGrabbedDivider
