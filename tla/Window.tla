------------------------------- MODULE Window -------------------------------
(***************************************************************************)
(* A window and the methods that change it (lumux-core, model/mod.rs,      *)
(* `impl Window`), as operators from a window to the window the method     *)
(* leaves behind.                                                          *)
(*                                                                         *)
(* The pane tree is abstracted to `layout`, the sequence of its leaves in  *)
(* traversal order: split_leaf puts the new leaf just after its target,    *)
(* remove_pane takes a leaf out, swap_ids and replace_leaf relabel leaves. *)
(* Module PaneTree checks that the recursive tree operations do exactly    *)
(* this to the leaf sequence.  Split directions and ratios, names and the  *)
(* preset-layout cursor are left out: no operation here reads them.        *)
(***************************************************************************)
EXTENDS Naturals, Sequences, SequencesExt

\* No pane / no window.  Identifiers are allocated from 1.
None == 0

Ids == Nat \ {None}

\* The map f with key k bound to v, and the map f without the keys in S.
Put(f, k, v) == [x \in DOMAIN f \cup {k} |-> IF x = k THEN v ELSE f[x]]
Without(f, S) == Restrict(f, DOMAIN f \ S)

\* The position of e in the sequence s, in which it occurs once.
IndexOf(s, e) == CHOOSE i \in DOMAIN s : s[i] = e

\* The sequence s with e inserted after a, without e, with a replaced by b,
\* and with a and b exchanged.
InsertAfter(s, a, e) == InsertAt(s, IndexOf(s, a) + 1, e)
Delete(s, e) == RemoveAt(s, IndexOf(s, e))
Relabel(s, a, b) == [i \in DOMAIN s |-> IF s[i] = a THEN b ELSE s[i]]
Exchange(s, a, b) ==
  [i \in DOMAIN s |-> IF s[i] = a THEN b ELSE IF s[i] = b THEN a ELSE s[i]]

\* The element after e, and the one before it, in the cyclic order of s.
CyclicNext(s, e) == IF e = Last(s) THEN s[1] ELSE s[IndexOf(s, e) + 1]
CyclicPrev(s, e) == IF e = s[1] THEN Last(s) ELSE s[IndexOf(s, e) - 1]

-----------------------------------------------------------------------------
WindowRecord ==
  [layout : Seq(Ids), panes : SUBSET Ids, active_pane : Ids,
   last_pane : Nat, zoomed : Nat]

NewWindowWith(p) ==
  [layout |-> <<p>>, panes |-> {p}, active_pane |-> p,
   last_pane |-> None, zoomed |-> None]

\* set_active_pane: a change of focus remembers the old pane and unzooms.
SetActivePane(w, p) ==
  IF p = w.active_pane THEN w
  ELSE [w EXCEPT !.last_pane = w.active_pane,
                 !.active_pane = p,
                 !.zoomed = None]

\* split (and join_pane, which is the same): p lands after the active leaf
\* and takes the focus.
SplitActiveLeaf(w, p) ==
  SetActivePane([w EXCEPT !.layout = InsertAfter(w.layout, w.active_pane, p),
                          !.panes = @ \cup {p}], p)

\* Seeded faults for CollapsePane: the focus is left dangling; it always moves.
CollapsePaneUnfocused(w, p) ==
  [layout      |-> Delete(w.layout, p),
   panes       |-> w.panes \ {p},
   active_pane |-> IF w.active_pane = p THEN None ELSE w.active_pane,
   last_pane   |-> IF w.last_pane = p THEN None ELSE w.last_pane,
   zoomed      |-> None]

CollapsePaneRefocuses(w, p) ==
  LET rest == Delete(w.layout, p)
  IN  [layout      |-> rest,
       panes       |-> w.panes \ {p},
       active_pane |-> rest[1],
       last_pane   |-> IF w.last_pane = p THEN None ELSE w.last_pane,
       zoomed      |-> None]

\* remove_pane of a pane that is not the window's only leaf.  Zoom always
\* clears (the layout collapsed); if the focused pane went, the first
\* remaining leaf is focused, without touching last_pane.
CollapsePane(w, p) ==
  LET rest == Delete(w.layout, p)
  IN  [layout      |-> rest,
       panes       |-> w.panes \ {p},
       active_pane |-> IF w.active_pane = p THEN rest[1] ELSE w.active_pane,
       last_pane   |-> IF w.last_pane = p THEN None ELSE w.last_pane,
       zoomed      |-> None]

\* focus_last_pane: goes nowhere if nothing is remembered or it has closed.
FocusLastPaneOf(w) ==
  IF w.last_pane \in w.panes THEN SetActivePane(w, w.last_pane) ELSE w

\* toggle_zoom: a window with a single pane is never zoomed.
ToggleZoomOf(w) ==
  [w EXCEPT !.zoomed = IF w.zoomed = None /\ Len(w.layout) > 1
                       THEN w.active_pane ELSE None]

\* swap_with_active: the two leaves trade places, focus stays with the pane.
SwapWithActive(w, p) ==
  [w EXCEPT !.layout = Exchange(@, w.active_pane, p), !.zoomed = None]

\* rotate_panes.  The chain of id swaps of the code amounts to a rotation of
\* the leaves by one place (PaneTree checks this): to the left for
\* downward = TRUE, to the right otherwise.
Rotated(s, downward) ==
  [i \in DOMAIN s |->
     IF downward THEN IF i = Len(s) THEN s[1] ELSE s[i + 1]
     ELSE IF i = 1 THEN s[Len(s)] ELSE s[i - 1]]

RotatePanesOf(w, downward) ==
  [w EXCEPT !.layout = Rotated(@, downward), !.zoomed = None]

\* apply_layout rebuilds the tree over the same leaves in the same order, so
\* all that is left of it here is that it unzooms.
ApplyLayoutOf(w) == [w EXCEPT !.zoomed = None]

\* Seeded fault: the focus stays on the pane that left.
GraftPaneKeepsFocus(w, out, in) ==
  [w EXCEPT !.layout = Relabel(@, out, in), !.panes = (@ \ {out}) \cup {in}]

\* The half of a cross-window swap_panes that changes the window losing `out`
\* and gaining `in`: last_pane and zoomed are not touched.
GraftPane(w, out, in) ==
  [w EXCEPT !.layout = Relabel(@, out, in),
            !.panes = (@ \ {out}) \cup {in},
            !.active_pane = IF @ = out THEN in ELSE @]
=============================================================================
