--------------------------- MODULE PaneOwnership ---------------------------
(***************************************************************************)
(* What the event loop relies on when it keeps `pane_session`, a flat map  *)
(* from pane to session, beside the object model: a pane enters the map    *)
(* once, when its session spawns it under a number never used before, and  *)
(* leaves it when it closes.  In between nothing re-homes it: breaking,    *)
(* joining, swapping and rotating panes never move one to another session. *)
(***************************************************************************)
EXTENDS Naturals

CONSTANT Sessions

VARIABLES
  owner,     \* live pane -> its session
  nextPane   \* every pane ever opened is below this

Init ==
  /\ owner = << >>
  /\ nextPane = 1

Open(s) ==
  /\ owner' = [p \in DOMAIN owner \cup {nextPane} |->
                 IF p = nextPane THEN s ELSE owner[p]]
  /\ nextPane' = nextPane + 1

\* Panes of one session close together: a pane, a window or all of it.
Close(s, P) ==
  /\ P # {}
  /\ \A p \in P : owner[p] = s
  /\ owner' = [p \in DOMAIN owner \ P |-> owner[p]]
  /\ UNCHANGED nextPane

Next ==
  \E s \in Sessions :
    \/ Open(s)
    \/ \E P \in SUBSET DOMAIN owner : Close(s, P)

Spec == Init /\ [][Next]_<<owner, nextPane>>
=============================================================================
