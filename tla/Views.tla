------------------------------- MODULE Views -------------------------------
(***************************************************************************)
(* What the clients see, and the size of the terminals they see it in:     *)
(* the handlers of the event loop (lumux-server, eventloop.rs) with all    *)
(* they do for the view.  Each handler changes the object model, exposes   *)
(* the session (the completions in view are then seen) and resizes         *)
(* terminals to the new layout, in one step of the loop.                   *)
(*                                                                         *)
(* A terminal's size is determined by the sizes of the session's clients,  *)
(* the columns of its sidebar, the visible leaves of its window and the    *)
(* shape of the split tree over them.  What is kept of it is whether any   *)
(* of these changed since the terminal was last resized; whoever sees the  *)
(* session may be the smallest client.  Of a pane's agent only an unseen   *)
(* completion is kept.                                                     *)
(***************************************************************************)
EXTENDS ObjectTree

VARIABLES
  blurred,    \* clients whose terminal reported that it lost the focus
  terminals,  \* panes with a terminal
  stale,      \* terminals that are not resized for their place in the layout
  done,       \* terminals whose agent shows an unseen completion
  unfitted,   \* history: terminals no handler resizes for a change it makes
  unexposed   \* history: sessions changed by a handler that exposes nothing

viewsVars == <<vars, blurred, terminals, stale, done, unfitted, unexposed>>

-----------------------------------------------------------------------------
(* Geometry                                                                *)

ClientsOf(s) == {c \in DOMAIN clients : clients[c] = s}

\* visible_layout: a zoomed window shows one leaf.
VisibleLeaves(w) ==
  IF windows[w].zoomed # None THEN <<windows[w].zoomed>> ELSE windows[w].layout

InView(w) == ToSet(VisibleLeaves(w))

\* visible_panes_in_active_window.
VisiblePanes(s) == InView(ActiveWindow(s))

\* session_has_observing_client: an eligible client has not lost the focus.
Observed(s) == ClientsOf(s) \ blurred # {}

\* The place of pane p, for layout::compute: who sees the session (the smallest
\* client decides, effective_size) and the visible leaves of its window.
Place(p) ==
  LET w == CHOOSE w \in DOMAIN windows : p \in windows[w].panes
  IN  [viewers |-> {c \in DOMAIN clients : w \in WindowsOf(clients[c])},
       leaves |-> VisibleLeaves(w)]

\* A window may be zoomed on a pane it no longer has (see ZoomedPaneInWindow
\* of ObjectTree), which then gets the size of that window.
Misfits(s) ==
  {windows[w].zoomed : w \in {v \in WindowsOf(s) :
                                windows[v].zoomed \notin windows[v].panes \cup {None}}}

\* The sessions of S that are there, and of these the ones in view.
Live(S) == S \cap DOMAIN sessions
Viewed(S) == {s \in Live(S) : ClientsOf(s) # {}}

\* resize_all_windows of the sessions S, or of those in view, and
\* resize_session: the terminals that get the size of their place, and among
\* them the ones that get it for another window.
FitAll(S) == UNION {InView(w) : w \in UNION {WindowsOf(s) : s \in Live(S)}}
FitViewed(S) == FitAll(Viewed(S))
FitActive(s) == VisiblePanes(s) \cap Active(s).panes
Odd(S) == UNION {Misfits(s) : s \in Live(S)}
OddViewed(S) == Odd(Viewed(S))

\* The terminals of `live` after a step that also disturbs the panes `moved`:
\* those in `fit` are resized, `odd` of them for another window.
Fit(live, moved, fit, odd) ==
  LET disturbed == moved \cup {p \in live : p \notin terminals \/ Place(p) # Place(p)'}
  IN  /\ terminals' = live
      /\ stale' = (((stale \cup disturbed) \ fit) \cup odd) \cap live
      /\ unfitted' = ((unfitted \ fit) \cup odd) \cap live

ResizeAll(S, live) ==
  \E T \in {S} :   \* S before the step
    \E fit \in {FitAll(T)'}, odd \in {Odd(T)'} : Fit(live, {}, fit, odd)

\* reconcile_session_geometry: a session without clients keeps its sizes.
Reconcile(S, live, moved) ==
  \E T \in {S} :
    \E fit \in {FitViewed(T)'}, odd \in {OddViewed(T)'} : Fit(live, moved, fit, odd)

ResizeActive(s, live, moved) ==
  \E fit \in {FitActive(s)'} : Fit(live, moved, fit, {})

\* coordinate_visibility(SessionExposed).
Expose(s) ==
  /\ done' = IF Observed(s)' THEN done \ VisiblePanes(s)' ELSE done
  /\ unexposed' = unexposed \ {s}

-----------------------------------------------------------------------------
ViewsInit ==
  /\ Init
  /\ blurred = {} /\ terminals = {} /\ stale = {} /\ done = {}
  /\ unfitted = {} /\ unexposed = {}

(* Clients ----------------------------------------------------------------*)

\* on_connect to a session that is there.
ClientConnected(s) ==
  /\ AttachClient(s)
  /\ UNCHANGED blurred
  /\ Reconcile({s}, terminals, {})
  /\ Expose(s)

\* on_connect with a session to be started: resolve_attach adds a session of
\* one pane, which is resized once the client is registered.
ClientConnectedToNew ==
  \E s \in {next.session} :
    /\ s <= MaxSessions /\ next.window <= MaxWindows
    /\ next.pane <= MaxPanes /\ next.client <= MaxClients
    /\ sessions' = Put(sessions, s, NewSessionWith(next.window))
    /\ windows' = Put(windows, next.window, NewWindowWith(next.pane))
    /\ clients' = Put(clients, next.client, s)
    /\ next' = [k \in DOMAIN next |-> next[k] + 1]
    /\ UNCHANGED blurred
    /\ Reconcile({s}, terminals \cup {next.pane}, {})
    /\ Expose(s)

\* Seeded fault: the ones that stay keep the smaller size.
ClientGoneKeepsSize(c) ==
  /\ DetachClient(c)
  /\ blurred' = blurred \ {c}
  /\ UNCHANGED <<done, unexposed>>
  /\ Fit(terminals, {}, {}, {})

\* Msg::ClientGone: the ones that stay may be larger.
ClientGone(c) ==
  /\ DetachClient(c)
  /\ blurred' = blurred \ {c}
  /\ UNCHANGED <<done, unexposed>>
  /\ Reconcile({clients[c]}, terminals, {})

\* ClientMsg::Resize, set_session_sidebar, set_session_sidebar_collapsed and
\* reflow_all_sessions: the content area of sessions S changes.
Resized(S) ==
  /\ UNCHANGED <<vars, blurred, done, unexposed>>
  /\ Reconcile(S, terminals, (UNION {PanesOf(s) : s \in S}) \cap terminals)

\* ClientObserved and ClientBlurred, from the focus reports of the terminal.
ClientObserved(c) ==
  /\ blurred' = blurred \ {c}
  /\ UNCHANGED <<vars, terminals, stale, unfitted>>
  /\ Expose(clients[c])

ClientBlurred(c) ==
  /\ blurred' = blurred \cup {c}
  /\ UNCHANGED <<vars, terminals, stale, done, unfitted, unexposed>>

\* switch_client_session: the geometry of both sessions, then the exposure.
SwitchClient(c, s) ==
  /\ SetClientSession(c, s)
  /\ UNCHANGED blurred
  /\ Reconcile(IF clients[c] = s THEN {} ELSE {clients[c], s}, terminals, {})
  /\ Expose(s)

-----------------------------------------------------------------------------
(* Topology: coordinate_topology exposes, and the handler resizes          *)

\* do_split; if the shell cannot be started, the window has changed all the
\* same, but the handler goes no further.
DoSplit(s) ==
  /\ SplitActive(s) /\ UNCHANGED blurred
  /\ \/ ResizeActive(s, terminals \cup {next.pane}, {}) /\ Expose(s)
     \/ /\ stale' = stale \cup (Active(s).panes \cap terminals)
        /\ unfitted' = unfitted \cup (Active(s).panes \cap terminals)
        /\ unexposed' = unexposed \cup {s}
        /\ UNCHANGED <<terminals, done>>

\* do_new_window does not expose the session: the new pane is all there is to
\* see.
DoNewWindow(s) ==
  /\ NewWindow(s) /\ UNCHANGED <<blurred, done, unexposed>>
  /\ \/ ResizeActive(s, terminals \cup {next.pane}, {})
     \/ UNCHANGED <<terminals, stale, unfitted>>

\* Seeded faults: a pane that closes resizes only the window in view; what
\* its closing uncovers is not exposed.
ClosedInActive(s) ==
  LET live == terminals \cap AllPanes'
  IN  /\ blurred' = blurred \cap DOMAIN clients'
      /\ Fit(live, {}, UNION {FitActive(t) : t \in Live({s})}', {})
      /\ done' = (done \cap live) \ UNION {VisiblePanes(t) : t \in Viewed({s})}'
      /\ unexposed' = unexposed \ {s}

ClosedUnexposed(s) ==
  LET live == terminals \cap AllPanes'
  IN  /\ blurred' = blurred \cap DOMAIN clients'
      /\ ResizeAll({s}, live)
      /\ done' = done \cap live
      /\ unexposed' = unexposed \ {s}

\* on_pane_exit: every window of the session is resized, and the session
\* exposed; if it has closed, its clients are gone with it.
Closed(s) ==
  LET live == terminals \cap AllPanes'
  IN  /\ blurred' = blurred \cap DOMAIN clients'
      /\ ResizeAll({s}, live)
      /\ done' = IF s \in DOMAIN sessions' /\ Observed(s)'
                 THEN (done \cap live) \ VisiblePanes(s)' ELSE done \cap live
      /\ unexposed' = unexposed \ {s}

\* do_kill_pane_target, and an exited pane that is not kept.
KillPaneTarget(s, p) == KillPane(s, p) /\ Closed(s)
DoKillWindow(s) == KillWindow(s) /\ Closed(s)
KillWholeSession(s) == KillSession(s) /\ Closed(s)

\* do_break_pane, do_join_pane, and do_swap_pane_target with a target or a
\* mark: both windows may be affected.
DoBreakPane(s) ==
  /\ BreakActivePane(s) /\ UNCHANGED blurred
  /\ ResizeAll({s}, terminals) /\ Expose(s)

DoJoinPane(s, p) ==
  /\ JoinSpecificPane(s, p) /\ UNCHANGED blurred
  /\ ResizeAll({s}, terminals) /\ Expose(s)

SwapPaneTarget(s, p) ==
  /\ SwapPanes(s, p) /\ UNCHANGED blurred
  /\ ResizeAll({s}, terminals) /\ Expose(s)

\* do_swap_pane and do_rotate_window.
SwapSibling(s, forward) ==
  /\ SwapActivePane(s, forward) /\ UNCHANGED blurred
  /\ ResizeActive(s, terminals, {}) /\ Expose(s)

RotateWindow(s, downward) ==
  /\ RotatePanes(s, downward) /\ UNCHANGED blurred
  /\ ResizeActive(s, terminals, {}) /\ Expose(s)

\* For these three a session without clients is not resized.
ResizeIfViewed(s) ==
  LET reshaped == Active(s).panes \cap terminals
  IN  IF ClientsOf(s) # {} THEN ResizeActive(s, terminals, reshaped)
      ELSE Fit(terminals, reshaped, {}, {})

\* next_layout, prev_layout and apply_named_layout.
ApplyNamedLayout(s) ==
  /\ ApplyLayout(s) /\ UNCHANGED blurred
  /\ ResizeIfViewed(s) /\ Expose(s)

\* resize_pane and do_resize_pane_amount, also on a zoomed window.
ResizePane(s) ==
  /\ Len(Active(s).layout) > 1
  /\ UNCHANGED <<vars, blurred, done, unexposed>>
  /\ ResizeIfViewed(s)

\* zoom_pane.
ZoomPane(s) ==
  /\ ToggleZoom(s) /\ UNCHANGED blurred
  /\ ResizeIfViewed(s) /\ Expose(s)

-----------------------------------------------------------------------------
(* Focus: coordinate_focus exposes and resizes nothing, although a change  *)
(* of focus takes a window out of its zoom                                 *)

Focused(s) ==
  LET unzoomed == {p \in terminals : Place(p) # Place(p)'}
  IN  /\ stale' = stale \cup unzoomed
      /\ unfitted' = unfitted \cup unzoomed
      /\ UNCHANGED <<blurred, terminals>>
      /\ Expose(s)

\* focus_pane, select_pane, pick_numbered_pane.
DoFocusPane(s, p) == FocusPane(s, p) /\ Focused(s)
DoLastPane(s) == FocusLastPane(s) /\ Focused(s)

\* focus_agent_pane, from a row of the sidebar: the window, then the pane.
FocusAgentPane(s, w, p) ==
  /\ p \in ToSet(windows[w].layout)
  /\ sessions' = [sessions EXCEPT ![s] = SetActiveWindow(@, w)]
  /\ windows' = [windows EXCEPT ![w] = SetActivePane(@, p)]
  /\ UNCHANGED <<clients, next>>
  /\ Focused(s)

\* focus_window, do_next_window, do_prev_window, do_last_window.
DoFocusWindow(s, w) == FocusWindow(s, w) /\ Focused(s)

-----------------------------------------------------------------------------
(* Agents                                                                  *)

\* ReportAgentState: an agent completes; AgentReported acknowledges it if the
\* pane is in somebody's view.
AgentDone(s, p) ==
  /\ done' = IF Observed(s) /\ p \in VisiblePanes(s) THEN done \ {p}
             ELSE done \cup {p}
  /\ UNCHANGED <<vars, blurred, terminals, stale, unfitted, unexposed>>

-----------------------------------------------------------------------------
Clients ==
  \/ ClientConnectedToNew
  \/ Resized(DOMAIN sessions)
  \/ \E s \in DOMAIN sessions : ClientConnected(s) \/ Resized({s})
  \/ \E c \in DOMAIN clients :
       \/ ClientGone(c) \/ ClientObserved(c) \/ ClientBlurred(c)
       \/ \E s \in DOMAIN sessions : SwitchClient(c, s)

Topology(s) ==
  \/ DoSplit(s) \/ DoNewWindow(s)
  \/ DoKillWindow(s) \/ KillWholeSession(s)
  \/ DoBreakPane(s)
  \/ ApplyNamedLayout(s) \/ ResizePane(s) \/ ZoomPane(s)
  \/ \E d \in BOOLEAN : SwapSibling(s, d) \/ RotateWindow(s, d)
  \/ \E p \in PanesOf(s) : KillPaneTarget(s, p) \/ DoJoinPane(s, p) \/ SwapPaneTarget(s, p)

Focus(s) ==
  \/ DoLastPane(s)
  \/ \E p \in PanesOf(s) : DoFocusPane(s, p)
  \/ \E w \in WindowsOf(s) :
       \/ DoFocusWindow(s, w)
       \/ \E p \in windows[w].panes : FocusAgentPane(s, w, p)

ViewsNext ==
  \/ Clients
  \/ \E s \in DOMAIN sessions :
       \/ Topology(s) \/ Focus(s)
       \/ \E p \in PanesOf(s) \cap terminals : AgentDone(s, p)

ViewsSpec == ViewsInit /\ [][ViewsNext]_viewsVars

-----------------------------------------------------------------------------
(* Properties                                                              *)

\* The view's own state is about objects that are there.
ViewsTyped ==
  /\ TypeOK
  /\ blurred \subseteq DOMAIN clients /\ unexposed \subseteq DOMAIN sessions
  /\ terminals \subseteq AllPanes
  /\ stale \cup done \cup unfitted \subseteq terminals

\* No pane in the view of a client that may observe it shows an unseen
\* completion, whichever of focus, topology, clients and reports came last:
\* reconciliation is "an invariant of topology changes rather than a
\* convention".  Left out are sessions in which a shell could not be started.
NothingUnseenInView ==
  \A s \in DOMAIN sessions \ unexposed :
    Observed(s) => VisiblePanes(s) \cap done = {}

\* Every terminal that a client sees, or would see on turning to its window,
\* has the size of its place in the layout: no handler leaves one behind in
\* the window a pane was moved, swapped or closed out of, or in the session a
\* client left.  Left out are the terminals that no handler resizes: a focus
\* change takes their window out of its zoom, a shell cannot be started, or
\* another window is zoomed on them.
TerminalsFitLayout ==
  \A s \in Viewed(DOMAIN sessions) :
    FitAll({s}) \cap PanesOf(s) \cap stale \subseteq unfitted \cup Misfits(s)

\* The two sides of a step of the loop, with the types they are stated for.
Consistent == ViewsTyped /\ TerminalsFitLayout

\* resize_session "must mirror render_for_client's choice so the PTY
\* dimensions match what the client actually sees".  Windows that hold a pane
\* whose shell could not be started are left out.
TerminalsMatchView ==
  \A s \in Viewed(DOMAIN sessions) :
    Active(s).panes \subseteq terminals => VisiblePanes(s) \cap stale = {}
=============================================================================
