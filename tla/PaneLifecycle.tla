--------------------------- MODULE PaneLifecycle ---------------------------
(***************************************************************************)
(* The life of a pane across the three places that know of it: the object  *)
(* model (ObjectTree), the daemon's live panes (`Daemon::panes`, with the   *)
(* mark and the agent rows), and the event loop's routing table             *)
(* (`pane_session`).  Around them run the shells, one reader thread for     *)
(* each, and the ticker.                                                    *)
(*                                                                          *)
(* A shell's exit reaches the loop twice: as the PaneExited message its     *)
(* reader sends at end of file, which may come late or (ConPTY) never, and  *)
(* through the poll of every tick.  Neither says which shell of the pane it *)
(* is about, and respawn-pane gives a pane a new one.                       *)
(*                                                                          *)
(* Of the model's operations only those that create, destroy or look up     *)
(* panes are composed here; PaneExited messages are delivered in any order. *)
(***************************************************************************)
EXTENDS ObjectTree

CONSTANTS
  MaxShells,     \* shells of one pane that are alive or unreported at a time
  SpawnMayFail,  \* whether starting a shell can fail
  HookCommand    \* the `pane-exited` hook: "none" or "respawn-pane"

ASSUME ShellAssumption ==
  /\ MaxShells \in Nat
  /\ SpawnMayFail \in BOOLEAN
  /\ HookCommand \in {"none", "respawn-pane"}

VARIABLES
  panes,             \* Daemon::panes: pane -> [shell, dead]
  pane_session,      \* Loop::pane_session
  marked_pane,       \* Daemon::marked_pane, or NoMark
  agent_lifecycles,  \* the panes with a hook-reported agent row
  remain_on_exit,    \* the option, which a config reload may change
  running,           \* <<pane, shell>>: the process has not exited
  reading,           \* <<pane, shell>>: its reader thread is at work
  sent,              \* <<pane, shell>>: its reader has sent PaneExited
  batch              \* reaped by the tick being handled, not dealt with yet

tree == vars
procs == <<running, reading, sent>>
loopVars == <<tree, panes, pane_session, marked_pane, agent_lifecycles,
          remain_on_exit, procs, batch>>

NoMark == [session |-> None, pane |-> None]
Spawns == IF SpawnMayFail THEN BOOLEAN ELSE {TRUE}

\* The loop is between two messages (a tick is handled in several steps).
Idle == batch = {}

\* Shell numbers of pane p that are free for a new shell, once the message
\* being handled, if any, is off the queue.
UnusedShells(p) ==
  {g \in 1 .. MaxShells : <<p, g>> \notin running \cup reading \cup sent'}

\* The focused pane of session s after the step.
ActivePaneAfter(s) == windows'[sessions'[s].active_window].active_pane

-----------------------------------------------------------------------------
LoopInit ==
  /\ Init
  /\ panes = << >> /\ pane_session = << >>
  /\ marked_pane = NoMark /\ agent_lifecycles = {}
  /\ remain_on_exit \in BOOLEAN
  /\ running = {} /\ reading = {} /\ sent = {}
  /\ batch = {}

\* spawn_pane for the model's new pane p, and what the loop does with the
\* reader.  If the shell cannot be started, the pane stays in the model.
SpawnPane(s, p) ==
  /\ \E ok \in Spawns :
       IF ok
       THEN /\ panes' = Put(panes, p, [shell |-> 1, dead |-> FALSE])
            /\ pane_session' = Put(pane_session, p, s)
            /\ running' = running \cup {<<p, 1>>}
            /\ reading' = reading \cup {<<p, 1>>}
       ELSE UNCHANGED <<panes, pane_session, running, reading>>
  /\ UNCHANGED <<sent, marked_pane, agent_lifecycles, remain_on_exit, batch>>

SpawnSession == Idle /\ NewSession /\ SpawnPane(next.session, next.pane)
DoNewWindow(s) == Idle /\ NewWindow(s) /\ SpawnPane(s, next.pane)
DoSplit(s) == Idle /\ SplitActive(s) /\ SpawnPane(s, next.pane)

\* What is left of the mark once session s may have closed
\* (clear_session_transients) and pane p has (clear_mark_if).
MarkAfter(s, p) ==
  IF \/ marked_pane.pane = p
     \/ marked_pane.session = s /\ s \notin DOMAIN sessions'
  THEN NoMark ELSE marked_pane

\* Seeded fault: only the representative pane is forgotten.
CloseActiveWindowForgetsOne(s) ==
  LET p == Active(s).layout[1]
  IN  /\ Idle
      /\ KillWindow(s)
      /\ panes' = Without(panes, {p})
      /\ pane_session' = Without(pane_session, Active(s).panes)
      /\ agent_lifecycles' = agent_lifecycles \ Active(s).panes
      /\ marked_pane' = MarkAfter(s, p)
      /\ UNCHANGED <<procs, remain_on_exit, batch>>

\* do_kill_window / close_active_window: every pane of the active window goes;
\* the first one stands for all of them in on_pane_exit.
CloseActiveWindow(s) ==
  LET gone == Active(s).panes
  IN  /\ Idle
      /\ KillWindow(s)
      /\ panes' = Without(panes, gone)
      /\ pane_session' = Without(pane_session, gone)
      /\ agent_lifecycles' = agent_lifecycles \ gone
      /\ marked_pane' = MarkAfter(s, Active(s).layout[1])
      /\ UNCHANGED <<procs, remain_on_exit, batch>>

\* kill_whole_session / close_session.
CloseSession(s) ==
  LET gone == PanesOf(s)
  IN  /\ Idle
      /\ KillSession(s)
      /\ panes' = Without(panes, gone)
      /\ pane_session' = Without(pane_session, gone)
      /\ agent_lifecycles' = agent_lifecycles \ gone
      /\ marked_pane' = MarkAfter(s, None)
      /\ UNCHANGED <<procs, remain_on_exit, batch>>

\* close_pane and on_pane_exit, but for the live panes and the routes, which
\* a hook may change in the same step.
ClosePane(s, p) ==
  /\ KillPane(s, p)
  /\ agent_lifecycles' = agent_lifecycles \ {p}
  /\ marked_pane' = MarkAfter(s, p)

\* do_kill_pane_target: any pane of the session.
KillPaneTarget(s, p) ==
  /\ Idle
  /\ ClosePane(s, p)
  /\ panes' = Without(panes, {p})
  /\ pane_session' = Without(pane_session, {p})
  /\ UNCHANGED <<procs, remain_on_exit, batch>>

-----------------------------------------------------------------------------
(* Exits                                                                   *)

\* do_respawn_pane of session s's focused pane, where `live` and `route` are
\* the live panes and routes so far: only a dead pane gets a new shell.
\* (Bound: with no shell number to spare, starting one fails.)
RespawnActive(s, live, route) ==
  LET p == ActivePaneAfter(s)
      Dead == p \in DOMAIN live /\ live[p].dead
  IN  \/ /\ Dead
         /\ \E g \in UnusedShells(p) :
              /\ panes' = [live EXCEPT ![p] = [shell |-> g, dead |-> FALSE]]
              /\ pane_session' = Put(route, p, s)
              /\ running' = running \cup {<<p, g>>}
              /\ reading' = reading \cup {<<p, g>>}
      \/ /\ SpawnMayFail \/ ~ Dead \/ UnusedShells(p) = {}
         /\ panes' = live /\ pane_session' = route
         /\ UNCHANGED <<running, reading>>

\* fire_hook("pane-exited"): for a session that is still there, as the first
\* of its clients.
FireHook(s, live, route) ==
  IF /\ HookCommand = "respawn-pane"
     /\ s \in DOMAIN sessions'
     /\ \E c \in DOMAIN clients' : clients'[c] = s
  THEN RespawnActive(s, live, route)
  ELSE /\ panes' = live /\ pane_session' = route
       /\ UNCHANGED <<running, reading>>

\* Seeded fault: a pane kept dead keeps its agent row.
HandlePaneExitedKeepsRow(p) ==
  LET s == pane_session[p]
  IN  IF remain_on_exit
      THEN /\ UNCHANGED <<tree, marked_pane, agent_lifecycles>>
           /\ FireHook(s, [panes EXCEPT ![p].dead = TRUE], pane_session)
      ELSE /\ ClosePane(s, p)
           /\ FireHook(s, Without(panes, {p}), Without(pane_session, {p}))

\* Seeded fault: the terminal of a pane is dropped, its leaf stays.
HandlePaneExitedKeepsLeaf(p) ==
  LET s == pane_session[p]
  IN  /\ agent_lifecycles' = agent_lifecycles \ {p}
      /\ UNCHANGED <<tree, marked_pane>>
      /\ IF remain_on_exit
         THEN FireHook(s, [panes EXCEPT ![p].dead = TRUE], pane_session)
         ELSE FireHook(s, Without(panes, {p}), Without(pane_session, {p}))

\* handle_pane_exited / pane_exited: the pane is kept, dead, or closed; then
\* the hook runs.
HandlePaneExited(p) ==
  LET s == pane_session[p]
  IN  IF remain_on_exit
      THEN /\ agent_lifecycles' = agent_lifecycles \ {p}
           /\ UNCHANGED <<tree, marked_pane>>
           /\ FireHook(s, [panes EXCEPT ![p].dead = TRUE], pane_session)
      ELSE /\ ClosePane(s, p)
           /\ FireHook(s, Without(panes, {p}), Without(pane_session, {p}))

\* The loop handles an exit of pane p, unless nothing routes it any more.
ExitReported(p) ==
  \/ p \in DOMAIN pane_session /\ HandlePaneExited(p)
  \/ /\ p \notin DOMAIN pane_session
     /\ UNCHANGED <<tree, panes, pane_session, marked_pane, agent_lifecycles,
                    running, reading>>

\* Msg::PaneExited.
PaneExited(m) ==
  /\ Idle
  /\ sent' = sent \ {m}
  /\ ExitReported(m[1])
  /\ UNCHANGED <<remain_on_exit, batch>>

\* The panes reap_exited_panes finds: not dead yet, and their shell is.
Exited ==
  {p \in DOMAIN panes : ~ panes[p].dead /\ <<p, panes[p].shell>> \notin running}

\* Seeded fault: panes whose reader has not ended are left to it.
ReapLeavesReaders ==
  LET reaped == {p \in Exited : <<p, panes[p].shell>> \notin reading}
  IN  /\ Idle /\ reaped # {}
      /\ panes' = [p \in DOMAIN panes |->
                     [panes[p] EXCEPT !.dead = @ \/ p \in reaped]]
      /\ batch' = reaped
      /\ UNCHANGED <<tree, pane_session, marked_pane, agent_lifecycles,
                     remain_on_exit, procs>>

\* Msg::Tick: every exited shell's pane is marked dead, then each is handled.
Reap ==
  /\ Idle /\ Exited # {}
  /\ panes' = [p \in DOMAIN panes |-> [panes[p] EXCEPT !.dead = @ \/ p \in Exited]]
  /\ batch' = Exited
  /\ UNCHANGED <<tree, pane_session, marked_pane, agent_lifecycles,
                 remain_on_exit, procs>>

\* The panes are handled in the order of their ids.
HandleReaped ==
  /\ UNCHANGED <<remain_on_exit, sent>>
  /\ \E p \in batch :
       /\ \A q \in batch : p <= q
       /\ ExitReported(p)
       /\ batch' = batch \ {p}

\* do_respawn_pane, from a key or the command prompt.
RespawnPane(s) ==
  /\ Idle
  /\ UNCHANGED <<tree, marked_pane, agent_lifecycles, remain_on_exit, sent, batch>>
  /\ RespawnActive(s, panes, pane_session)

-----------------------------------------------------------------------------
(* The rest of the loop, as far as panes are concerned                     *)

\* toggle_marked_pane, on the focused pane.
ToggleMarkedPane(s) ==
  LET mark == [session |-> s, pane |-> Active(s).active_pane]
  IN  /\ Idle
      /\ marked_pane' = IF marked_pane = mark THEN NoMark ELSE mark
      /\ UNCHANGED <<tree, panes, pane_session, agent_lifecycles,
                     remain_on_exit, procs, batch>>

\* do_join_pane without -s: the marked pane of this session, if it is in
\* another window, and otherwise the first window that is not the active one.
DoJoinPane(s) ==
  LET m      == marked_pane
      ws     == sessions[s].windows
      Marked == /\ m.session = s
                /\ m.pane \in PanesOf(s) \ Active(s).panes
  IN  /\ Idle
      /\ \/ /\ Marked
            /\ JoinSpecificPane(s, m.pane)
            /\ marked_pane' = NoMark
         \/ /\ ~ Marked
            /\ \E i \in DOMAIN ws :
                 /\ ws[i] # ActiveWindow(s)
                 /\ \A j \in 1 .. i - 1 : ws[j] = ActiveWindow(s)
                 /\ JoinPane(s, ws[i])
            /\ UNCHANGED marked_pane
      /\ UNCHANGED <<panes, pane_session, agent_lifecycles, remain_on_exit,
                     procs, batch>>

\* A model operation that moves the focus or the clients.
OnlyTree(A) ==
  /\ Idle
  /\ A
  /\ UNCHANGED <<panes, pane_session, marked_pane, agent_lifecycles,
                 remain_on_exit, procs, batch>>

DoFocusPane(s, p) == OnlyTree(FocusPane(s, p))
DoNextWindow(s) == OnlyTree(FocusNextWindow(s))
ClientConnected(s) == OnlyTree(AttachClient(s))
ClientGone(c) == OnlyTree(DetachClient(c))

\* report_agent_state: ignored unless the pane is live.
ReportAgentState(p) ==
  /\ Idle
  /\ ~ panes[p].dead
  /\ agent_lifecycles' = agent_lifecycles \cup {p}
  /\ UNCHANGED <<tree, panes, pane_session, marked_pane, remain_on_exit,
                 procs, batch>>

\* reload_config or `:set remain-on-exit`.
SetRemainOnExit ==
  /\ Idle
  /\ remain_on_exit' = ~ remain_on_exit
  /\ UNCHANGED <<tree, panes, pane_session, marked_pane, agent_lifecycles,
                 procs, batch>>

-----------------------------------------------------------------------------
(* Shells and reader threads, which run beside the loop                    *)

ShellExits(h) ==
  /\ running' = running \ {h}
  /\ UNCHANGED <<tree, panes, pane_session, marked_pane, agent_lifecycles,
                 remain_on_exit, reading, sent, batch>>

\* The reader of an exited shell reaches end of file; this is not sure to
\* happen, as something else may hold the terminal open.
ReaderEnds(h) ==
  /\ h \notin running
  /\ reading' = reading \ {h}
  /\ sent' = sent \cup {h}
  /\ UNCHANGED <<tree, panes, pane_session, marked_pane, agent_lifecycles,
                 remain_on_exit, running, batch>>

-----------------------------------------------------------------------------
Exits ==
  \/ \E m \in sent : PaneExited(m)
  \/ Reap \/ HandleReaped

Shells ==
  \/ \E h \in running : ShellExits(h)
  \/ \E h \in reading : ReaderEnds(h)

LoopNext ==
  \/ SpawnSession
  \/ \E s \in DOMAIN sessions :
       \/ DoNewWindow(s) \/ DoSplit(s)
       \/ CloseSession(s) \/ CloseActiveWindow(s)
       \/ RespawnPane(s)
       \/ ToggleMarkedPane(s) \/ DoJoinPane(s)
       \/ DoNextWindow(s)
       \/ ClientConnected(s)
       \/ \E p \in PanesOf(s) : KillPaneTarget(s, p) \/ DoFocusPane(s, p)
  \/ \E c \in DOMAIN clients : ClientGone(c)
  \/ \E p \in DOMAIN panes : ReportAgentState(p)
  \/ SetRemainOnExit
  \/ Exits
  \/ Shells

LoopSpec == LoopInit /\ [][LoopNext]_loopVars

\* The ticker never stops and the loop handles what it reaps; that a reader
\* ends is not assumed.
Fairness == WF_loopVars(Reap) /\ WF_loopVars(HandleReaped)

FairSpec == LoopSpec /\ Fairness

-----------------------------------------------------------------------------
(* Properties                                                              *)

\* The daemon and the loop know the same panes, each of them is in the model,
\* in the session its output and its exit are routed to: no kill, exit or
\* respawn leaves a terminal behind that nothing can close, or a route to a
\* pane that is gone.
RoutesAgree ==
  /\ DOMAIN pane_session = DOMAIN panes
  /\ \A p \in DOMAIN pane_session :
       /\ pane_session[p] \in DOMAIN sessions
       /\ p \in PanesOf(pane_session[p])

\* What is kept beside the model goes with it.  The mark never names a session
\* that has closed, however it closed (clear_session_transients: "a model
\* session cannot disappear while its sidebar overrides or marked pane remain
\* retained"), and between messages an agent row belongs to a live pane:
\* "process death ends any agent lifecycle even when remain-on-exit keeps the
\* dead pane".
TransientsFollowModel ==
  /\ marked_pane # NoMark => marked_pane.session \in DOMAIN sessions
  /\ Idle => \A p \in agent_lifecycles : p \in DOMAIN panes /\ ~ panes[p].dead

\* A pane whose shell has exited is marked dead, closed or given another shell
\* in the end, even if its reader never reaches end of file.
ExitIsNoticed == \A p \in 1 .. MaxPanes : []<>(p \notin Exited)

\* clear_mark_if is "called when a pane closes so a stale mark can't dangle".
MarkedPaneExists ==
  marked_pane # NoMark => marked_pane.pane \in AllPanes

\* A pane is dead because "its child exited" (close_pane, pane_exited).
DeadMeansExited ==
  \A p \in DOMAIN panes : panes[p].dead => <<p, panes[p].shell>> \notin running

\* A terminal is only given up together with its pane: no exit, kill or
\* respawn leaves a pane of the model behind that shows nothing and that no
\* exit can close.
TerminalsGoWithPanes ==
  [][ \A p \in DOMAIN panes \ DOMAIN panes' : p \notin AllPanes' ]_loopVars
=============================================================================
