----------------------------- MODULE PaneLayout -----------------------------
(***************************************************************************)
(* Where the panes of a window are on the screen (lumux-core, layout.rs),  *)
(* and the dividers between them that clients drag with the mouse and that *)
(* resize-pane moves (daemon.rs), over the split tree of PaneTree.         *)
(*                                                                         *)
(* A drag is a path into the tree, kept from the press to the release.     *)
(* Meanwhile every other step of the window may happen, and the drags of   *)
(* other clients.                                                          *)
(***************************************************************************)
EXTENDS PaneTree, Integers

CONSTANTS
  Clients,
  Viewport,    \* the content area of the session
  Viewports,   \* other areas to lay the window out in
  Pointers,    \* where a mouse is pressed or dragged to, as <<column, row>>
  MaxMoves     \* moves of dividers

\* A u16 each.
ASSUME LayoutAssumption ==
  /\ Viewport \in [x : Nat, y : Nat, cols : Nat, rows : Nat]
  /\ Viewports \subseteq [x : Nat, y : Nat, cols : Nat, rows : Nat]
  /\ Pointers \subseteq Nat \X Nat

VARIABLES
  dragging,    \* client -> the divider it holds
  moves        \* history: how often a divider was moved

layoutVars == <<vars, dragging, moves>>

-----------------------------------------------------------------------------
(* Rectangles: the columns x, x + 1, ... and rows y, y + 1, ...            *)

Rect(x, y, cols, rows) == [x |-> x, y |-> y, cols |-> cols, rows |-> rows]

Rects == [x : Nat, y : Nat, cols : Nat, rows : Nat]

Cells(r) == (r.x .. r.x + r.cols - 1) \X (r.y .. r.y + r.rows - 1)

Covers(r, at) ==
  /\ r.x <= at[1] /\ at[1] < r.x + r.cols
  /\ r.y <= at[2] /\ at[2] < r.y + r.rows

\* Share `total` cells, one of them for the divider, by a ratio: the cells of
\* the first child, rounded to the nearest.
Usable(total) == IF total = 0 THEN 0 ELSE total - 1
FirstCells(total, ratio) ==
  (2 * Usable(total) * ratio[1] + ratio[2]) \div (2 * ratio[2])

\* Seeded fault: the second child starts on the divider.
SplitRectOnDivider(area, d, ratio) ==
  IF d = "Horizontal"
  THEN LET n == FirstCells(area.cols, ratio)
       IN  <<Rect(area.x, area.y, n, area.rows),
             Rect(area.x + n, area.y, Usable(area.cols) - n, area.rows)>>
  ELSE LET n == FirstCells(area.rows, ratio)
       IN  <<Rect(area.x, area.y, area.cols, n),
             Rect(area.x, area.y + n, area.cols, Usable(area.rows) - n)>>

\* split_rect: the areas of the two children.
SplitRect(area, d, ratio) ==
  IF d = "Horizontal"
  THEN LET n == FirstCells(area.cols, ratio)
       IN  <<Rect(area.x, area.y, n, area.rows),
             Rect(area.x + n + 1, area.y, Usable(area.cols) - n, area.rows)>>
  ELSE LET n == FirstCells(area.rows, ratio)
       IN  <<Rect(area.x, area.y, area.cols, n),
             Rect(area.x, area.y + n + 1, area.cols, Usable(area.rows) - n)>>

Areas(t, area) == SplitRect(area, t.dir, t.ratio)

\* compute: the rectangle of every pane of t.
Alone(p, area) == [q \in {p} |-> area]
Beside(f, g) ==
  [p \in DOMAIN f \cup DOMAIN g |-> IF p \in DOMAIN f THEN f[p] ELSE g[p]]

Place(t, area) ==
  LET At[s \in Trees] ==
        [a \in Rects |->
           IF IsLeaf(s) THEN Alone(s.pane, a)
           ELSE LET both == Areas(s, a)
                IN  Beside(At[s.first][both[1]], At[s.second][both[2]])]
  IN  At[t][area]

\* visible_layout: what is drawn and clicked on.
Visible == IF zoomed # None THEN Leaf(zoomed) ELSE tree

PaneAt(rects, at) == {p \in DOMAIN rects : Covers(rects[p], at)}

-----------------------------------------------------------------------------
(* Dividers.  A path says at each split which child to descend into.       *)

Paths == Seq({"first", "second"})
NoPath == <<"none">>
Abs(n) == IF n < 0 THEN -n ELSE n
Near(a, b) == Abs(a - b) <= 1

\* Is the point on the line after area a, one cell of slack on either side?
OnDivider(d, a, area, at) ==
  IF d = "Horizontal"
  THEN Near(at[1], a.x + a.cols) /\ area.y <= at[2] /\ at[2] < area.y + area.rows
  ELSE Near(at[2], a.y + a.rows) /\ area.x <= at[1] /\ at[1] < area.x + area.cols

\* divider_at: the outermost divider in reach of the point.
Step(child, path) == IF path = NoPath THEN NoPath ELSE <<child>> \o path

DividerAt(t, at, area) ==
  LET Find[s \in Trees] ==
        [a \in Rects |->
           IF IsLeaf(s) THEN NoPath
           ELSE LET both == Areas(s, a)
                IN  IF OnDivider(s.dir, both[1], a, at) THEN << >>
                    ELSE IF Covers(both[1], at)
                    THEN Step("first", Find[s.first][both[1]])
                    ELSE IF Covers(both[2], at)
                    THEN Step("second", Find[s.second][both[2]])
                    ELSE NoPath]
  IN  Find[t][area]

\* A ratio in lowest terms, at least 1/20 and at most 19/20.
Clamped(n, d) ==
  IF 20 * n <= d THEN <<1, 20>> ELSE IF 20 * n >= 19 * d THEN <<19, 20>>
  ELSE LET g == CHOOSE g \in 1 .. n :
                  /\ n % g = 0 /\ d % g = 0
                  /\ \A h \in g + 1 .. n : n % h # 0 \/ d % h # 0
       IN  <<n \div g, d \div g>>

\* The ratio that puts the divider of a split with `total` cells from
\* `origin` under the pointer.
RatioUnder(at, origin, total) ==
  LET limit == Usable(total)
      rel   == IF at < origin THEN 0 ELSE IF at - origin > limit THEN limit
               ELSE at - origin
  IN  Clamped(rel, IF limit = 0 THEN 1 ELSE limit)

\* set_ratio_by_path: the divider at the end of the path follows the pointer,
\* however far it is.
DividerUnder(s, at, area) ==
  Split(s.dir, IF s.dir = "Horizontal" THEN RatioUnder(at[1], area.x, area.cols)
               ELSE RatioUnder(at[2], area.y, area.rows), s.first, s.second)

SetRatio(t, path, at, area) ==
  LET Set[s \in Trees] ==
        [way \in Paths |-> [a \in Rects |->
           IF IsLeaf(s) THEN s
           ELSE IF way = << >> THEN DividerUnder(s, at, a)
           ELSE LET both == Areas(s, a)
                IN  IF way[1] = "first"
                    THEN Split(s.dir, s.ratio, Set[s.first][Tail(way)][both[1]], s.second)
                    ELSE Split(s.dir, s.ratio, s.first, Set[s.second][Tail(way)][both[2]])]]
  IN  Set[t][path][area]

\* The node at the end of the path.
NodeAt(t, path) ==
  LET Walk[s \in Trees] ==
        [way \in Paths |->
           IF IsLeaf(s) \/ way = << >> THEN s
           ELSE Walk[IF way[1] = "first" THEN s.first ELSE s.second][Tail(way)]]
  IN  Walk[t][path]

\* The panes a divider is between.
Sides(t, path) ==
  <<ToSet(LeavesOf[NodeAt(t, path).first]), ToSet(LeavesOf[NodeAt(t, path).second])>>

-----------------------------------------------------------------------------
(* Directions.                                                             *)

Directions == {"Left", "Right", "Up", "Down"}

Overlap(a, as, b, bs) == a < b + bs /\ b < a + as

\* neighbor, in two parts: is r on that side of cur, sharing a row or column;
\* and its distances along and across the way.
OnSide(dir, cur, r) ==
  LET rows == Overlap(r.y, r.rows, cur.y, cur.rows)
      cols == Overlap(r.x, r.cols, cur.x, cur.cols)
  IN  CASE dir = "Left" -> r.x < cur.x /\ rows
        [] dir = "Right" -> r.x > cur.x /\ rows
        [] dir = "Up" -> r.y < cur.y /\ cols
        [] dir = "Down" -> r.y > cur.y /\ cols

Distance(dir, cur, r) ==
  LET gap == CASE dir = "Left" -> cur.x - (r.x + r.cols)
               [] dir = "Right" -> r.x - (cur.x + cur.cols)
               [] dir = "Up" -> cur.y - (r.y + r.rows)
               [] dir = "Down" -> r.y - (cur.y + cur.rows)
      across == IF dir \in {"Left", "Right"}
                THEN Abs((cur.y + cur.rows \div 2) - (r.y + r.rows \div 2))
                ELSE Abs((cur.x + cur.cols \div 2) - (r.x + r.cols \div 2))
  IN  <<IF gap < 0 THEN 0 ELSE gap, across>>

Closer(d, e) == d[1] < e[1] \/ (d[1] = e[1] /\ d[2] < e[2])

\* The panes focus may move to from p; of several as close, the first in the
\* order of their ids, which are interchangeable here.
Neighbors(rects, p, dir) ==
  LET there == {q \in DOMAIN rects \ {p} : OnSide(dir, rects[p], rects[q])}
  IN  {q \in there : \A r \in there :
         ~ Closer(Distance(dir, rects[p], rects[r]), Distance(dir, rects[p], rects[q]))}

-----------------------------------------------------------------------------
LayoutInit ==
  /\ Init
  /\ dragging = [c \in {} |-> 0] /\ moves = 0

Released(c) == [k \in DOMAIN dragging \ {c} |-> dragging[k]]

\* A mouse press, in the frame the client has on its screen: it focuses the
\* pane under it, drops what the client held, and takes hold of a divider if
\* the frame still is what the window looks like (begin_drag and
\* begin_drag_in_frame).
Press(c, at) ==
  LET under == PaneAt(Place(Visible, Viewport), at) \cap panes
      path  == DividerAt(Visible', at, Viewport)
  IN  /\ \/ under = {} /\ UNCHANGED <<active_pane, last_pane, zoomed>>
         \/ \E p \in under : FocusOn(p)
      /\ UNCHANGED <<tree, panes, layout_kind, moves>>
      /\ \/ /\ path # NoPath
            /\ dragging' = Put(dragging, c, [layout |-> Visible', path |-> path,
                                            sides |-> Sides(Visible', path)])
         \/ dragging' = Released(c)

\* Seeded fault: the path is followed into whatever tree there is.
DragDividerAnyway(c, at) ==
  LET held == dragging[c]
  IN  /\ moves < MaxMoves /\ moves' = moves + 1
      /\ Len(held.path) < 2 /\ ~ IsLeaf(tree)
      /\ held.path = << >> \/ ~ IsLeaf(NodeAt(tree, held.path))
      /\ tree' = SetRatio(tree, held.path, at, Viewport)
      /\ dragging' = [dragging EXCEPT ![c].layout = tree']
      /\ UNCHANGED <<panes, active_pane, last_pane, zoomed, layout_kind>>

\* drag_divider: the divider held since the press moves, unless the window no
\* longer looks as it did then or after the last move.
DragDivider(c, at) ==
  LET held == dragging[c]
  IN  /\ \/ /\ held.layout = Visible
            /\ moves < MaxMoves /\ moves' = moves + 1
            /\ tree' = SetRatio(tree, held.path, at, Viewport)
            /\ dragging' = [dragging EXCEPT ![c].layout = tree']
         \/ /\ held.layout # Visible
            /\ dragging' = Released(c)
            /\ UNCHANGED <<tree, moves>>
      /\ UNCHANGED <<panes, active_pane, last_pane, zoomed, layout_kind>>

\* The button is let go, or pressed on an overlay (cancel_mouse_gestures); or
\* it moves while another window or session is in front, or in an area that is
\* not the one of the press (drag_divider).
Release(c) ==
  /\ dragging' = Released(c)
  /\ UNCHANGED <<vars, moves>>

\* resize_pane of the tree: the innermost split of this axis around the pane
\* moves, by n twentieths.
ResizePane(t, p, d, n) ==
  LET Resize[s \in Trees] ==
        IF IsLeaf(s) THEN [moved |-> FALSE, tree |-> s]
        ELSE LET one == Resize[s.first]
                 two == Resize[s.second]
             IN  IF one.moved
                 THEN [moved |-> TRUE, tree |-> Split(s.dir, s.ratio, one.tree, s.second)]
                 ELSE IF two.moved
                 THEN [moved |-> TRUE, tree |-> Split(s.dir, s.ratio, s.first, two.tree)]
                 ELSE IF s.dir = d /\ HasLeaf(s, p)
                 THEN [moved |-> TRUE,
                       tree  |-> Split(s.dir, Clamped(20 * s.ratio[1] + n * s.ratio[2],
                                                      20 * s.ratio[2]), s.first, s.second)]
                 ELSE [moved |-> FALSE, tree |-> s]
  IN  Resize[t]

\* resize_active, by a twentieth to either side.
ResizeActive(d, n) ==
  LET r == ResizePane(tree, active_pane, d, n)
  IN  /\ r.moved
      /\ moves < MaxMoves /\ moves' = moves + 1
      /\ tree' = r.tree
      /\ UNCHANGED <<panes, active_pane, last_pane, zoomed, layout_kind, dragging>>

\* select_pane: directions are those of the whole tree, zoomed or not.
FocusDirection(dir) ==
  /\ \E p \in Neighbors(Place(tree, Viewport), active_pane, dir) : FocusOn(p)
  /\ UNCHANGED <<tree, panes, layout_kind, dragging, moves>>

LayoutNext ==
  \/ Next /\ UNCHANGED <<dragging, moves>>
  \/ \E c \in Clients, at \in Pointers : Press(c, at)
  \/ \E c \in DOMAIN dragging : Release(c) \/ \E at \in Pointers : DragDivider(c, at)
  \/ \E d \in Dirs, n \in {-1, 1} : ResizeActive(d, n)
  \/ \E dir \in Directions : FocusDirection(dir)

LayoutSpec == LayoutInit /\ [][LayoutNext]_layoutVars

-----------------------------------------------------------------------------
(* Properties.                                                             *)

\* In an area of any size, each cell belongs to exactly one pane or to a
\* divider, and a divider can be taken hold of on each of its cells; no pane
\* reaches out of the area.  Rounding, the reserved cell and ratios near the
\* ends never make panes overlap or leave a gap that is no divider.
PanesPartitionScreen ==
  \A v \in Viewports \cup {Viewport} :
    LET rects == Place(tree, v)
        taken == UNION {Cells(rects[p]) : p \in panes}
    IN  /\ taken \subseteq Cells(v)
        /\ \A p, q \in panes : p # q => Cells(rects[p]) \cap Cells(rects[q]) = {}
        /\ \A at \in Cells(v) \ taken : DividerAt(tree, at, v) # NoPath

\* The paths a tree may have.
ShortPaths == UNION {[1 .. n -> {"first", "second"}] : n \in 0 .. MaxPanes}

\* A divider at this path, if there is one, is where it was in its area.
RatioStays(t, u, path) ==
  ~ IsLeaf(NodeAt(t, path)) => NodeAt(u, path).ratio = NodeAt(t, path).ratio

\* A drag moves the divider the client took hold of, the one between the same
\* panes as at the press, and no other: splits, removals, layouts, zooms and
\* drags of others in between end it instead.
DragMovesGrabbedDivider ==
  [][\A c \in DOMAIN dragging, at \in Pointers :
       moves' # moves /\ DragDivider(c, at) =>
         /\ Sides(tree', dragging[c].path) = dragging[c].sides
         /\ LeavesOf[tree'] = LeavesOf[tree] /\ ShapeOf[tree'] = ShapeOf[tree]
         /\ \A path \in ShortPaths \ {dragging[c].path} :
              RatioStays(tree, tree', path)]_layoutVars
=============================================================================
