----------------------------- MODULE ObjectTree -----------------------------
(***************************************************************************)
(* The daemon's object model (lumux-core, model/mod.rs, `Server` and       *)
(* `Session`): sessions own ordered windows, windows own panes, and        *)
(* attached clients view sessions.  Each action is one method of Server or *)
(* Session, with the arguments the event loop calls it with.               *)
(*                                                                         *)
(* The nested ownership of the code is kept as two maps: a session lists   *)
(* its windows by id, and `windows` holds every window of every session.   *)
(***************************************************************************)
EXTENDS Window

CONSTANTS MaxSessions, MaxWindows, MaxPanes, MaxClients  \* ids ever allocated

ASSUME BoundsAssumption ==
  /\ MaxSessions \in Nat
  /\ MaxWindows \in Nat
  /\ MaxPanes \in Nat
  /\ MaxClients \in Nat

VARIABLES
  sessions,   \* live session id -> [windows, active_window, last_window]
  windows,    \* live window id -> WindowRecord
  clients,    \* attached client id -> the session it views
  next        \* per kind of object, the id the next allocation returns

vars == <<sessions, windows, clients, next>>

SessionRecord ==
  [windows : Seq(Ids), active_window : Ids, last_window : Nat]

\* The windows of session s, its panes, and the active window's record.
WindowsOf(s) == ToSet(sessions[s].windows)
PanesOf(s) == UNION {windows[w].panes : w \in WindowsOf(s)}
ActiveWindow(s) == sessions[s].active_window
Active(s) == windows[ActiveWindow(s)]

AllPanes == UNION {windows[w].panes : w \in DOMAIN windows}

\* window_of_pane, and the scan at the head of kill_pane.
WindowOfPane(s, p) ==
  CHOOSE w \in WindowsOf(s) : p \in ToSet(windows[w].layout)

-----------------------------------------------------------------------------
(* Session methods                                                         *)

NewSessionWith(w) ==
  [windows |-> <<w>>, active_window |-> w, last_window |-> None]

SetActiveWindow(r, w) ==
  IF w = r.active_window THEN r
  ELSE [r EXCEPT !.last_window = r.active_window, !.active_window = w]

AddWindow(r, w) == SetActiveWindow([r EXCEPT !.windows = Append(@, w)], w)

\* Seeded faults for RemoveWindow: the focus stays on the removed window; the
\* remembered window is not forgotten.
RemoveWindowKeepsActive(r, w) ==
  [r EXCEPT !.windows = Delete(@, w),
            !.last_window = IF @ = w THEN None ELSE @]

RemoveWindowKeepsLast(r, w) ==
  LET pos  == IndexOf(r.windows, w)
      rest == Delete(r.windows, w)
  IN  [r EXCEPT !.windows = rest,
                !.active_window = IF @ # w THEN @
                                  ELSE rest[IF pos = 1 THEN 1 ELSE pos - 1]]

\* remove_window of a window that is not the session's only one.  If it was
\* active, focus goes to the remembered window or to the one before it.
RemoveWindow(r, w) ==
  LET pos    == IndexOf(r.windows, w)
      rest   == Delete(r.windows, w)
      last   == IF r.last_window = w THEN None ELSE r.last_window
      before == rest[IF pos = 1 THEN 1 ELSE pos - 1]
  IN  [windows       |-> rest,
       last_window   |-> last,
       active_window |-> IF r.active_window # w THEN r.active_window
                         ELSE IF last \in ToSet(rest) THEN last
                         ELSE before]

-----------------------------------------------------------------------------
Init ==
  /\ sessions = << >>
  /\ windows = << >>
  /\ clients = << >>
  /\ next = [session |-> 1, window |-> 1, pane |-> 1, client |-> 1]

\* new_session: one window with one pane.
NewSession ==
  /\ next.session <= MaxSessions /\ next.window <= MaxWindows
  /\ next.pane <= MaxPanes
  /\ windows' = Put(windows, next.window, NewWindowWith(next.pane))
  /\ sessions' = Put(sessions, next.session, NewSessionWith(next.window))
  /\ next' = [next EXCEPT !.session = @ + 1, !.window = @ + 1, !.pane = @ + 1]
  /\ UNCHANGED clients

\* Seeded fault: the new window's pane does not use up its id.
NewWindowReusesPane(s) ==
  /\ next.window <= MaxWindows /\ next.pane <= MaxPanes
  /\ windows' = Put(windows, next.window, NewWindowWith(next.pane))
  /\ sessions' = [sessions EXCEPT ![s] = AddWindow(@, next.window)]
  /\ next' = [next EXCEPT !.window = @ + 1]
  /\ UNCHANGED clients

\* new_window: appended to the session and made active.
NewWindow(s) ==
  /\ next.window <= MaxWindows /\ next.pane <= MaxPanes
  /\ windows' = Put(windows, next.window, NewWindowWith(next.pane))
  /\ sessions' = [sessions EXCEPT ![s] = AddWindow(@, next.window)]
  /\ next' = [next EXCEPT !.window = @ + 1, !.pane = @ + 1]
  /\ UNCHANGED clients

SplitActive(s) ==
  /\ next.pane <= MaxPanes
  /\ windows' = [windows EXCEPT ![ActiveWindow(s)] =
                   SplitActiveLeaf(@, next.pane)]
  /\ next' = [next EXCEPT !.pane = @ + 1]
  /\ UNCHANGED <<sessions, clients>>

\* Server::kill_session: the session, everything in it, and its viewers.
DropSession(s) ==
  /\ sessions' = Without(sessions, {s})
  /\ windows' = Without(windows, WindowsOf(s))
  /\ clients' = Without(clients, {c \in DOMAIN clients : clients[c] = s})

KillSession(s) == DropSession(s) /\ UNCHANGED next

\* kill_window (called for the active window): closing the last one closes
\* the session.
KillWindow(s) ==
  /\ \/ /\ WindowsOf(s) = {ActiveWindow(s)}
        /\ DropSession(s)
     \/ /\ WindowsOf(s) # {ActiveWindow(s)}
        /\ sessions' = [sessions EXCEPT ![s] = RemoveWindow(@, ActiveWindow(s))]
        /\ windows' = Without(windows, {ActiveWindow(s)})
        /\ UNCHANGED clients
  /\ UNCHANGED next

\* kill_pane, for a pane anywhere in the session: the window collapses around
\* it, or closes, or closes the session with it.
KillPane(s, p) ==
  LET w == WindowOfPane(s, p)
  IN  /\ \/ /\ windows[w].layout # <<p>>
            /\ windows' = [windows EXCEPT ![w] = CollapsePane(@, p)]
            /\ UNCHANGED <<sessions, clients>>
         \/ /\ windows[w].layout = <<p>>
            /\ WindowsOf(s) # {w}
            /\ sessions' = [sessions EXCEPT ![s] = RemoveWindow(@, w)]
            /\ windows' = Without(windows, {w})
            /\ UNCHANGED clients
         \/ /\ windows[w].layout = <<p>>
            /\ WindowsOf(s) = {w}
            /\ DropSession(s)
      /\ UNCHANGED next

-----------------------------------------------------------------------------
(* Moving panes between windows                                            *)

\* break_active_pane: the focused pane, id and all, becomes a window of its
\* own.  A lone pane is not broken out.
BreakActivePane(s) ==
  LET p == Active(s).active_pane
  IN  /\ Len(Active(s).layout) > 1
      /\ next.window <= MaxWindows
      /\ windows' = Put([windows EXCEPT ![ActiveWindow(s)] = CollapsePane(@, p)],
                        next.window, NewWindowWith(p))
      /\ sessions' = [sessions EXCEPT ![s] = AddWindow(@, next.window)]
      /\ next' = [next EXCEPT !.window = @ + 1]
      /\ UNCHANGED clients

\* Seeded fault: the source window closes even when it holds other panes.
MovePaneToActiveCloses(s, w, p) ==
  LET dest == ActiveWindow(s)
  IN  /\ w # dest
      /\ windows' = Without([windows EXCEPT ![dest] = SplitActiveLeaf(@, p)], {w})
      /\ sessions' = [sessions EXCEPT ![s] = RemoveWindow(@, w)]
      /\ UNCHANGED <<clients, next>>

\* Pull pane p out of window w into the active window, closing w if that
\* empties it (the common part of join_pane and join_specific_pane).
MovePaneToActive(s, w, p) ==
  LET dest   == ActiveWindow(s)
      joined == [windows EXCEPT ![dest] = SplitActiveLeaf(@, p)]
  IN  /\ w # dest
      /\ \/ /\ windows[w].layout = <<p>>
            /\ windows' = Without(joined, {w})
            /\ sessions' = [sessions EXCEPT ![s] = RemoveWindow(@, w)]
         \/ /\ windows[w].layout # <<p>>
            /\ windows' = [joined EXCEPT ![w] = CollapsePane(@, p)]
            /\ UNCHANGED sessions
      /\ UNCHANGED <<clients, next>>

JoinPane(s, w) == MovePaneToActive(s, w, windows[w].active_pane)

JoinSpecificPane(s, p) == MovePaneToActive(s, WindowOfPane(s, p), p)

\* swap_active_pane with sibling_pane: the next or the previous leaf.
SwapActivePane(s, forward) ==
  LET w       == Active(s)
      sibling == IF forward THEN CyclicNext(w.layout, w.active_pane)
                 ELSE CyclicPrev(w.layout, w.active_pane)
  IN  /\ Len(w.layout) > 1
      /\ windows' = [windows EXCEPT ![ActiveWindow(s)] = SwapWithActive(@, sibling)]
      /\ UNCHANGED <<sessions, clients, next>>

\* swap_panes: the focused pane and any other pane of the session trade
\* places.  Within one window only the leaves are exchanged; across windows
\* each side is grafted into the other's slot.
SwapPanes(s, b) ==
  LET a  == Active(s).active_pane
      wa == ActiveWindow(s)
      wb == WindowOfPane(s, b)
  IN  /\ a # b
      /\ \/ /\ wa = wb
            /\ windows' = [windows EXCEPT ![wa].layout = Exchange(@, a, b)]
         \/ /\ wa # wb
            /\ windows' = [windows EXCEPT ![wa] = GraftPane(@, a, b),
                                          ![wb] = GraftPane(@, b, a)]
      /\ UNCHANGED <<sessions, clients, next>>

-----------------------------------------------------------------------------
(* Layout and focus                                                        *)

\* One method of the active window.
UpdateActive(s, w) ==
  /\ windows' = [windows EXCEPT ![ActiveWindow(s)] = w]
  /\ UNCHANGED <<sessions, clients, next>>

RotatePanes(s, downward) ==
  /\ Len(Active(s).layout) > 1
  /\ UpdateActive(s, RotatePanesOf(Active(s), downward))

ApplyLayout(s) == UpdateActive(s, ApplyLayoutOf(Active(s)))

ToggleZoom(s) == UpdateActive(s, ToggleZoomOf(Active(s)))

FocusNextPane(s) ==
  UpdateActive(s, SetActivePane(Active(s),
                    CyclicNext(Active(s).layout, Active(s).active_pane)))

\* focus_pane, and focus_direction, whose neighbour is some other leaf.
FocusPane(s, p) ==
  /\ p \in Active(s).panes
  /\ UpdateActive(s, SetActivePane(Active(s), p))

FocusLastPane(s) == UpdateActive(s, FocusLastPaneOf(Active(s)))

\* One method of the session.
UpdateSession(s, r) ==
  /\ sessions' = [sessions EXCEPT ![s] = r]
  /\ UNCHANGED <<windows, clients, next>>

FocusNextWindow(s) ==
  UpdateSession(s, SetActiveWindow(sessions[s],
                     CyclicNext(sessions[s].windows, ActiveWindow(s))))

FocusPrevWindow(s) ==
  UpdateSession(s, SetActiveWindow(sessions[s],
                     CyclicPrev(sessions[s].windows, ActiveWindow(s))))

FocusWindow(s, w) == UpdateSession(s, SetActiveWindow(sessions[s], w))

FocusLastWindow(s) ==
  /\ sessions[s].last_window \in WindowsOf(s)
  /\ UpdateSession(s, SetActiveWindow(sessions[s], sessions[s].last_window))

\* move_active_window by one place (wrapping) and swap_windows: two windows
\* trade places in the list.
SwapWindows(s, w, x) ==
  /\ w # x
  /\ UpdateSession(s, [sessions[s] EXCEPT !.windows = Exchange(@, w, x)])

MoveActiveWindow(s, forward) ==
  LET ws == sessions[s].windows
      w  == ActiveWindow(s)
  IN  SwapWindows(s, w, IF forward THEN CyclicNext(ws, w) ELSE CyclicPrev(ws, w))

\* move_active_window_to: taken out and reinserted at place i.
MoveActiveWindowTo(s, i) ==
  LET ws == sessions[s].windows
      w  == ActiveWindow(s)
  IN  /\ i # IndexOf(ws, w)
      /\ UpdateSession(s, [sessions[s] EXCEPT !.windows =
                             InsertAt(Delete(ws, w), i, w)])

-----------------------------------------------------------------------------
(* The client registry                                                     *)

\* Seeded fault: the client id is not used up.
AttachClientReusesId(s) ==
  /\ next.client <= MaxClients
  /\ clients' = Put(clients, next.client, s)
  /\ UNCHANGED <<sessions, windows, next>>

AttachClient(s) ==
  /\ next.client <= MaxClients
  /\ clients' = Put(clients, next.client, s)
  /\ next' = [next EXCEPT !.client = @ + 1]
  /\ UNCHANGED <<sessions, windows>>

DetachClient(c) ==
  /\ clients' = Without(clients, {c})
  /\ UNCHANGED <<sessions, windows, next>>

SetClientSession(c, s) ==
  /\ clients' = [clients EXCEPT ![c] = s]
  /\ UNCHANGED <<sessions, windows, next>>

-----------------------------------------------------------------------------
Next ==
  \/ NewSession
  \/ \E s \in DOMAIN sessions :
       \/ NewWindow(s) \/ SplitActive(s)
       \/ KillSession(s) \/ KillWindow(s)
       \/ BreakActivePane(s)
       \/ ApplyLayout(s) \/ ToggleZoom(s)
       \/ FocusNextPane(s) \/ FocusLastPane(s)
       \/ FocusNextWindow(s) \/ FocusPrevWindow(s) \/ FocusLastWindow(s)
       \/ AttachClient(s)
       \/ \E d \in BOOLEAN : \/ RotatePanes(s, d) \/ SwapActivePane(s, d)
                              \/ MoveActiveWindow(s, d)
       \/ \E p \in PanesOf(s) :
            \/ KillPane(s, p) \/ JoinSpecificPane(s, p)
            \/ SwapPanes(s, p) \/ FocusPane(s, p)
       \/ \E w \in WindowsOf(s) :
            \/ JoinPane(s, w) \/ FocusWindow(s, w)
            \/ \E x \in WindowsOf(s) : SwapWindows(s, w, x)
       \/ \E i \in DOMAIN sessions[s].windows : MoveActiveWindowTo(s, i)
       \/ \E c \in DOMAIN clients : SetClientSession(c, s)
  \/ \E c \in DOMAIN clients : DetachClient(c)

Spec == Init /\ [][Next]_vars

-----------------------------------------------------------------------------
(* Properties                                                              *)

\* Every field of the model holds a value of its kind.
TypeOK ==
  /\ \A s \in DOMAIN sessions : s \in Ids /\ sessions[s] \in SessionRecord
  /\ \A w \in DOMAIN windows : w \in Ids /\ windows[w] \in WindowRecord
  /\ \A c \in DOMAIN clients : c \in Ids /\ clients[c] \in Ids
  /\ next \in [session : Ids, window : Ids, pane : Ids, client : Ids]

\* A window's pane map and the leaves of its layout are the same panes, each
\* leaf once, and the focused pane is one of them: what `active_window_mut`
\* ("active window always exists") and every PTY lookup by leaf id rely on
\* after splits, collapses, grafts and joins.
WindowsConsistent ==
  \A w \in DOMAIN windows :
    /\ IsInjective(windows[w].layout)
    /\ ToSet(windows[w].layout) = windows[w].panes
    /\ windows[w].active_pane \in windows[w].panes

\* No pane is in two windows: a pane that is broken out, joined or swapped
\* leaves the window it came from.
OneWindowPerPane ==
  \A v, w \in DOMAIN windows :
    v # w => windows[v].panes \cap windows[w].panes = {}

\* Sessions are never empty, share no window, own every window there is, and
\* have their active window among their own, whatever closes or moves.
SessionsConsistent ==
  /\ \A s \in DOMAIN sessions :
       /\ IsInjective(sessions[s].windows)
       /\ ActiveWindow(s) \in WindowsOf(s)
  /\ \A s, t \in DOMAIN sessions :
       s # t => WindowsOf(s) \cap WindowsOf(t) = {}
  /\ DOMAIN windows = UNION {WindowsOf(s) : s \in DOMAIN sessions}

\* Identifiers in use were allocated: the next one is new, so a stale
\* reference fails to resolve instead of aliasing a new object (id.rs).
FreshIds ==
  /\ \A s \in DOMAIN sessions : s < next.session
  /\ \A w \in DOMAIN windows : w < next.window
  /\ \A p \in AllPanes : p < next.pane
  /\ \A c \in DOMAIN clients : c < next.client

\* No reference outlives what it names, whatever closed, was broken out or
\* joined elsewhere: clients view live sessions (a session that goes drops its
\* viewers), "a removed window can't be the 'last' window to jump back to",
\* and a window that is down to one pane is not zoomed on it.
NothingDangles ==
  /\ \A c \in DOMAIN clients : clients[c] \in DOMAIN sessions
  /\ \A s \in DOMAIN sessions :
       sessions[s].last_window \in WindowsOf(s) \cup {None}
  /\ \A w \in DOMAIN windows :
       windows[w].zoomed # None => Len(windows[w].layout) > 1

\* Only killing a pane, window or session makes a pane disappear; break,
\* join, swap, rotate, layout and focus operations conserve them all.
OnlyKillsLosePanes ==
  [][ \/ AllPanes \subseteq AllPanes'
      \/ \E s \in DOMAIN sessions :
           \/ KillSession(s) \/ KillWindow(s)
           \/ \E p \in PanesOf(s) : KillPane(s, p) ]_vars

\* When panes leave a window, its focus moves only if the focused pane is one
\* of them: killing or taking a background pane never steals the focus.
FocusStaysPut ==
  [][ \A w \in DOMAIN windows \cap DOMAIN windows' :
        LET gone == windows[w].panes \ windows'[w].panes
        IN  gone # {} /\ windows[w].active_pane \notin gone =>
              windows'[w].active_pane = windows[w].active_pane ]_vars

\* The model implements pane ownership: `pane_session` can be a flat map.
Owner == [p \in AllPanes |-> CHOOSE s \in DOMAIN sessions : p \in PanesOf(s)]

Ownership == INSTANCE PaneOwnership WITH
  Sessions <- 1..MaxSessions, owner <- Owner, nextPane <- next.pane

OwnershipSpec == Ownership!Spec

\* What the `zoomed` field is documented to be: "Cleared on toggle, on focus
\* change, and when the zoomed pane goes away".
ZoomedPaneInWindow ==
  \A w \in DOMAIN windows : windows[w].zoomed \in windows[w].panes \cup {None}
=============================================================================
