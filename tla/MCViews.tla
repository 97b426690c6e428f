------------------------------ MODULE MCViews ------------------------------
(* The views of a few clients over a few sessions, for TLC. *)
EXTENDS Views

\* Two clients ever over two panes, or one client over three; no command
\* completes then, and no client loses the focus of its terminal.
FewObjects ==
  /\ next'.pane + next'.client <= 6
  /\ next'.pane > 3 => done' = {} /\ blurred' = {}
=============================================================================
