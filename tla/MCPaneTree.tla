----------------------------- MODULE MCPaneTree -----------------------------
(* One window, with interchangeable panes, for TLC.                        *)
EXTENDS PaneLayout

PaneSymmetry == Permutations(Panes)

\* An ordinary window, right of a sidebar; and ones too small for its panes.
Ordinary == Rect(1, 0, 5, 3)
TooSmall == {Rect(0, 0, 2, 2), Rect(2, 0, 1, 0)}

\* Near the left, the middle and the lower right.
FewPointers == {<<3, 1>>, <<4, 2>>}

\* In a window of four panes no divider is moved or held.  A mouse takes hold
\* of one in a window without a preset; when the window changes then, the next
\* thing is a motion of the mouse, or that it lets go.  A moved divider that
\* nobody holds any more stays until the window changes.
ShortDrags ==
  /\ Cardinality(panes') < MaxPanes \/ (moves' = 0 /\ DOMAIN dragging' = {})
  /\ moves' = 0 \/ DOMAIN dragging' # {} \/ DOMAIN dragging # {} \/ tree' = tree
  /\ DOMAIN dragging = {} /\ DOMAIN dragging' # {} =>
       layout_kind = NoKind /\ last_pane' \in panes' \cup {None}
  /\ (\E c \in DOMAIN dragging : dragging[c].layout # Visible) => dragging # dragging'

FewSteps ==
  \/ Next /\ UNCHANGED <<dragging, moves>> /\ ShortDrags
  \/ \E c \in Clients, at \in Pointers : Press(c, at) /\ ShortDrags
  \/ \E c \in DOMAIN dragging :
       \/ Release(c) /\ ShortDrags
       \/ \E at \in Pointers : DragDivider(c, at) /\ ShortDrags
  \/ \E d \in Dirs, n \in {-1, 1} : ResizeActive(d, n) /\ ShortDrags
  \/ \E dir \in Directions : FocusDirection(dir) /\ ShortDrags

FewSpec == LayoutInit /\ [][FewSteps]_layoutVars
=============================================================================
