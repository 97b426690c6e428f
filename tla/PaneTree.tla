------------------------------ MODULE PaneTree ------------------------------
(***************************************************************************)
(* The binary split tree behind a window (lumux-core, model/tree.rs) and   *)
(* the window methods that edit it, at the level of nodes and children.    *)
(* Module Window describes the same methods as edits of the sequence of    *)
(* leaves; StepsFollowWindow says that the tree does exactly that.         *)
(*                                                                         *)
(* The recursive functions of the code are recursive functions here, over  *)
(* the trees of bounded height, so that they can be reasoned about.        *)
(***************************************************************************)
EXTENDS Window, FiniteSets

CONSTANTS Panes,      \* the panes that may ever sit in this window
          MaxPanes    \* how many it holds at a time

\* Pane ids are allocated from 1.
ASSUME PanesAssumption == None \notin Panes /\ MaxPanes \in Nat \ {0}

VARIABLES tree,          \* Window::layout
          panes,         \* the keys of Window::panes
          active_pane, last_pane, zoomed,
          layout_kind    \* the preset next_layout cycles from, or NoKind

vars == <<tree, panes, active_pane, last_pane, zoomed, layout_kind>>

-----------------------------------------------------------------------------
(* Nodes.  A ratio is a pair <<numerator, denominator>>.                   *)

Leaf(p) == [pane |-> p]
Split(d, r, a, b) == [dir |-> d, ratio |-> r, first |-> a, second |-> b]
IsLeaf(t) == "pane" \in DOMAIN t

Dirs == {"Horizontal", "Vertical"}
Across(d) == IF d = "Horizontal" THEN "Vertical" ELSE "Horizontal"

\* A fraction of the room: more than none of it, and less than all.
Ratios == {r \in Nat \X Nat : 0 < r[1] /\ r[1] < r[2]}

Leaves == [pane : Panes]
Higher(T) == Leaves \cup [dir : Dirs, ratio : Ratios, first : T, second : T]

\* The trees with at most n splits above any leaf.  A tree of MaxPanes panes
\* has fewer than MaxPanes.
TreesUpTo[n \in Nat] ==
  IF n = 0 THEN Leaves ELSE Higher(TreesUpTo[n - 1])
Trees == TreesUpTo[MaxPanes]

\* pane_ids, in traversal order, and contains.
LeavesOf[t \in Trees] ==
  IF IsLeaf(t) THEN <<t.pane>> ELSE LeavesOf[t.first] \o LeavesOf[t.second]

HasLeaf(t, p) == p \in ToSet(LeavesOf[t])

\* The tree with sub[p] in the place of each leaf p.  The code descends to the
\* first leaf that is its target; each pane is one leaf.
Replant(t, sub) ==
  LET Over[s \in Trees] ==
        IF IsLeaf(s) THEN sub[s.pane]
        ELSE Split(s.dir, s.ratio, Over[s.first], Over[s.second])
  IN  Over[t]

\* Seeded fault: the new pane becomes the first child.
SplitLeafBefore(t, target, new, d) ==
  Replant(t, [p \in Panes |-> IF p = target
                              THEN Split(d, <<1, 2>>, Leaf(new), Leaf(target))
                              ELSE Leaf(p)])

\* split_leaf: target gives way to a split of itself and the new pane.
SplitLeaf(t, target, new, d) ==
  Replant(t, [p \in Panes |-> IF p = target
                              THEN Split(d, <<1, 2>>, Leaf(target), Leaf(new))
                              ELSE Leaf(p)])

\* relabel: every leaf a becomes b and every leaf b becomes a.
RelabelLeaves(t, a, b) ==
  Replant(t, [p \in Panes |-> Leaf(IF p = a THEN b ELSE IF p = b THEN a ELSE p)])

\* swap_ids: only if both leaves are there, and they differ.
Swappable(t, a, b) == a # b /\ HasLeaf(t, a) /\ HasLeaf(t, b)
SwapIds(t, a, b) == IF Swappable(t, a, b) THEN RelabelLeaves(t, a, b) ELSE t

\* replace_leaf: one leaf is renamed.
ReplaceLeaf(t, from, to) ==
  Replant(t, [p \in Panes |-> Leaf(IF p = from THEN to ELSE p)])

\* remove_pane: what became of the subtree, and the tree left.  A split one of
\* whose children is the target leaf is replaced by the other child; otherwise
\* the first subtree is tried, then the second.
RemoveLeaf(t, target) ==
  LET Prune[s \in Trees] ==
        IF IsLeaf(s)
        THEN [removed |-> IF s.pane = target THEN "Gone" ELSE "NotFound", tree |-> s]
        ELSE IF s.first = Leaf(target)
        THEN [removed |-> "Collapsed", tree |-> s.second]
        ELSE IF s.second = Leaf(target)
        THEN [removed |-> "Collapsed", tree |-> s.first]
        ELSE LET one == Prune[s.first]
                 two == Prune[s.second]
             IN  IF one.removed # "NotFound"
                 THEN [removed |-> one.removed,
                       tree |-> Split(s.dir, s.ratio, one.tree, s.second)]
                 ELSE [removed |-> two.removed,
                       tree |-> Split(s.dir, s.ratio, s.first, two.tree)]
  IN  Prune[t]

-----------------------------------------------------------------------------
(* Preset layouts.                                                         *)

Cycle == <<"EvenHorizontal", "EvenVertical", "MainVertical",
           "MainHorizontal", "Tiled">>
NoKind == "None"

NextKind(k) == IF k = NoKind THEN Cycle[1] ELSE CyclicNext(Cycle, k)
PrevKind(k) == IF k = NoKind THEN Last(Cycle) ELSE CyclicPrev(Cycle, k)

\* stack_even: nodes chained along d, the first of the last k taking 1/k of
\* their room.
StackEven(nodes, d) ==
  LET n == Len(nodes)
      Stack[k \in 1 .. n] ==
        IF k = 1 THEN nodes[n] ELSE Split(d, <<1, k>>, nodes[n - k + 1], Stack[k - 1])
  IN  Stack[n]

\* chain: the same, over leaves.
Chained(ps, d) == StackEven([i \in DOMAIN ps |-> Leaf(ps[i])], d)

MainAndStack(ps, d) ==
  IF Len(ps) = 1 THEN Leaf(ps[1])
  ELSE Split(d, <<1, 2>>, Leaf(ps[1]), Chained(Tail(ps), Across(d)))

CeilDiv(n, k) == (n + k - 1) \div k
CeilSqrt(n) == CHOOSE r \in 1 .. n : r * r >= n /\ (r - 1) * (r - 1) < n

\* tiled: ceil(sqrt(n)) rows of ceil(n / rows) panes, the last one shorter.
Tiled(ps) ==
  LET n       == Len(ps)
      per_row == CeilDiv(n, CeilSqrt(n))
      Row(i)  == SubSeq(ps, (i - 1) * per_row + 1,
                        IF i * per_row < n THEN i * per_row ELSE n)
  IN  StackEven([i \in 1 .. CeilDiv(n, per_row) |-> Chained(Row(i), "Horizontal")],
                "Vertical")

Arrange(kind, ps) ==
  CASE kind = "EvenHorizontal" -> Chained(ps, "Horizontal")
    [] kind = "EvenVertical"   -> Chained(ps, "Vertical")
    [] kind = "MainVertical"   -> MainAndStack(ps, "Horizontal")
    [] kind = "MainHorizontal" -> MainAndStack(ps, "Vertical")
    [] kind = "Tiled"          -> Tiled(ps)

-----------------------------------------------------------------------------
(* The window methods.                                                     *)

Init ==
  \E p \in Panes :
    /\ tree = Leaf(p) /\ panes = {p} /\ active_pane = p
    /\ last_pane = None /\ zoomed = None /\ layout_kind = NoKind

\* set_active_pane.
FocusOn(p) ==
  IF p = active_pane THEN UNCHANGED <<active_pane, last_pane, zoomed>>
  ELSE last_pane' = active_pane /\ active_pane' = p /\ zoomed' = None

\* split (also join_pane): `p` next to the active pane.
SplitActive(p, d) ==
  /\ p \notin panes /\ Cardinality(panes) < MaxPanes
  /\ panes' = panes \cup {p}
  /\ tree' = SplitLeaf(tree, active_pane, p, d)
  /\ FocusOn(p)
  /\ layout_kind' = NoKind

\* Seeded fault: the preset survives the pane that left.
RemovePaneKeepsKind(p) ==
  LET r == RemoveLeaf(tree, p)
  IN  /\ p \in panes /\ panes' = panes \ {p}
      /\ r.removed = "Collapsed"
      /\ tree' = r.tree
      /\ last_pane' = IF last_pane = p THEN None ELSE last_pane
      /\ active_pane' = IF active_pane = p THEN LeavesOf[r.tree][1]
                        ELSE active_pane
      /\ zoomed' = None
      /\ UNCHANGED layout_kind

\* remove_pane, of a pane that is not the only one ("Gone" is the caller's
\* business: the window closes).  take_active_pane removes the active pane.
RemovePane(p) ==
  LET r == RemoveLeaf(tree, p)
  IN  /\ p \in panes /\ panes' = panes \ {p}
      /\ r.removed = "Collapsed"
      /\ tree' = r.tree
      /\ last_pane' = IF last_pane = p THEN None ELSE last_pane
      /\ active_pane' = IF active_pane = p THEN LeavesOf[r.tree][1]
                        ELSE active_pane
      /\ zoomed' = None
      /\ layout_kind' = NoKind

\* swap_with_active.
SwapWithActivePane(p) ==
  /\ zoomed' = None /\ layout_kind' = NoKind
  /\ Swappable(tree, active_pane, p)
  /\ tree' = SwapIds(tree, active_pane, p)
  /\ UNCHANGED <<panes, active_pane, last_pane>>

\* rotate_panes: n - 1 exchanges of neighbours in the original order `ids`,
\* taken from the back when downward.
Rotate(t, ids, downward) ==
  LET n == Len(ids)
      After[k \in 0 .. n - 1] ==
        IF k = 0 THEN t
        ELSE LET i == IF downward THEN n - k ELSE k
             IN  SwapIds(After[k - 1], ids[i], ids[i + 1])
  IN  After[n - 1]

RotatePanes(downward) ==
  /\ Len(LeavesOf[tree]) > 1
  /\ zoomed' = None /\ layout_kind' = NoKind
  /\ UNCHANGED <<panes, active_pane, last_pane>>
  /\ tree' = Rotate(tree, LeavesOf[tree], downward)

\* apply_layout.
ApplyLayout(kind) ==
  /\ layout_kind' = kind /\ zoomed' = None
  /\ tree' = Arrange(kind, LeavesOf[tree])
  /\ UNCHANGED <<panes, active_pane, last_pane>>

NextLayout == Cardinality(panes) > 1 /\ ApplyLayout(NextKind(layout_kind))
PrevLayout == Cardinality(panes) > 1 /\ ApplyLayout(PrevKind(layout_kind))

ToggleZoom ==
  /\ zoomed' = IF zoomed = None /\ Cardinality(panes) > 1
               THEN active_pane ELSE None
  /\ UNCHANGED <<tree, panes, active_pane, last_pane, layout_kind>>

\* focus_pane (also focus_next_pane and focus_direction, which compute p).
FocusPane(p) ==
  p \in panes /\ FocusOn(p) /\ UNCHANGED <<tree, panes, layout_kind>>

\* focus_last_pane.
FocusLastPane ==
  /\ last_pane \in panes
  /\ FocusOn(last_pane)
  /\ UNCHANGED <<tree, panes, layout_kind>>

\* The half of a cross-window Server::swap_panes that this window sees.
GraftLeaf(out, in) ==
  /\ out \in panes /\ in \notin panes
  /\ panes' = (panes \ {out}) \cup {in}
  /\ tree' = ReplaceLeaf(tree, out, in)
  /\ active_pane' = IF active_pane = out THEN in ELSE active_pane
  /\ UNCHANGED <<last_pane, zoomed, layout_kind>>

Next ==
  \/ \E p \in Panes, d \in Dirs : SplitActive(p, d)
  \/ \E p \in Panes : RemovePane(p)
  \/ \E p \in Panes : SwapWithActivePane(p)
  \/ \E downward \in BOOLEAN : RotatePanes(downward)
  \/ \E k \in {Cycle[i] : i \in DOMAIN Cycle} : ApplyLayout(k)
  \/ NextLayout \/ PrevLayout
  \/ ToggleZoom
  \/ \E p \in Panes : FocusPane(p)
  \/ FocusLastPane
  \/ \E out, in \in Panes : GraftLeaf(out, in)

Spec == Init /\ [][Next]_vars

-----------------------------------------------------------------------------
(* Properties.                                                             *)

\* A tree without its pane names and ratios: its nodes, each before those
\* below it.
ShapeOf[t \in Trees] ==
  IF IsLeaf(t) THEN <<"leaf">>
  ELSE <<t.dir>> \o ShapeOf[t.first] \o ShapeOf[t.second]

\* While a preset is recorded for the window, the tree still has the shape of
\* that preset: every edit that breaks the arrangement forgets it, so that
\* next_layout never skips one ("manual splits clear it back to None").
PresetShapeHolds ==
  layout_kind # NoKind =>
    ShapeOf[tree] = ShapeOf[Arrange(layout_kind, LeavesOf[tree])]

\* The window as module Window sees it.
Abstract ==
  [layout |-> LeavesOf[tree], panes |-> panes, active_pane |-> active_pane,
   last_pane |-> last_pane, zoomed |-> zoomed]

\* Each method of the window, which the code carries out by recursion over the
\* tree, is the edit of the leaf sequence that module Window takes it for: a
\* split puts the new leaf after the active one, a removal collapses without
\* moving any other leaf, the chain of swaps is a rotation by one place, and a
\* preset layout keeps the leaves in order.
StepsFollowWindow ==
  [][/\ \A p \in Panes, d \in Dirs :
          SplitActive(p, d) => Abstract' = SplitActiveLeaf(Abstract, p)
     /\ \A p \in Panes :
          /\ RemovePane(p) => Abstract' = CollapsePane(Abstract, p)
          /\ SwapWithActivePane(p) => Abstract' = SwapWithActive(Abstract, p)
          /\ FocusPane(p) => Abstract' = SetActivePane(Abstract, p)
     /\ \A downward \in BOOLEAN :
          RotatePanes(downward) => Abstract' = RotatePanesOf(Abstract, downward)
     /\ NextLayout \/ PrevLayout => Abstract' = ApplyLayoutOf(Abstract)
     /\ ToggleZoom => Abstract' = ToggleZoomOf(Abstract)
     /\ FocusLastPane => Abstract' = FocusLastPaneOf(Abstract)
     /\ \A out, in \in Panes :
          GraftLeaf(out, in) => Abstract' = GraftPane(Abstract, out, in)]_vars
=============================================================================
