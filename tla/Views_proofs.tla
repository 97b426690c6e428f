---------------------------- MODULE Views_proofs ----------------------------
(***************************************************************************)
(* Proofs about what the clients see, for any number of sessions, windows, *)
(* panes and clients.  The argument is one of confinement: a handler of    *)
(* the loop works on the windows of one session (or, for clients, on the   *)
(* geometry of a few) and leaves all others as they were; for the session  *)
(* it works on, it exposes the view and resizes what it changed.           *)
(***************************************************************************)
EXTENDS Views, ObjectTree_proofs

\* The view's own state is about objects that are there.
Marks ==
  /\ blurred \subseteq DOMAIN clients /\ unexposed \subseteq DOMAIN sessions
  /\ terminals \subseteq AllPanes
  /\ stale \subseteq terminals /\ done \subseteq terminals
  /\ unfitted \subseteq terminals

\* A window is zoomed on no pane of another session, and on none to come: the
\* pane may have been swapped out of the window, never out of the session.
ZoomsHome ==
  \A s \in DOMAIN sessions : \A w \in WindowsOf(s) :
    /\ windows[w].zoomed < next.pane
    /\ \A t \in DOMAIN sessions \ {s} : windows[w].zoomed \notin PanesOf(t)

\* In a session that somebody views, a terminal of a window that the window
\* shows is resized, or is one that no handler resizes.
FitsWell ==
  \A t \in DOMAIN sessions : ClientsOf(t) # {} =>
    \A w \in WindowsOf(t) :
      InView(w) \cap windows[w].panes \cap stale \subseteq unfitted

\* The inductive invariant.
ViewsInv == Structure /\ Marks /\ ZoomsHome /\ FitsWell /\ NothingUnseenInView

-----------------------------------------------------------------------------
(* What a step of the object model leaves alone                            *)

\* Sessions other than those of S keep their windows, and these all they have.
Elsewhere(S) ==
  /\ DOMAIN sessions' \subseteq DOMAIN sessions \cup S
  /\ \A t \in DOMAIN sessions \ S :
       /\ t \in DOMAIN sessions' /\ sessions'[t] = sessions[t]
       /\ \A w \in WindowsOf(t) : windows'[w] = windows[w]

\* A window is zoomed, if at all, on the pane it was on or on its focused one.
ZoomsKept ==
  \A w \in DOMAIN windows' :
    \/ windows'[w].zoomed = None
    \/ /\ w \in DOMAIN windows
       /\ windows'[w].zoomed \in {windows[w].zoomed, windows[w].active_pane}

\* Session s gets no pane of another session.
PanesGrow(s) ==
  /\ next.pane <= next'.pane
  /\ s \in DOMAIN sessions' =>
       \A p \in PanesOf(s)' :
         \/ p = next.pane /\ next.pane < next'.pane
         \/ s \in DOMAIN sessions /\ p \in PanesOf(s)

Confined(s) == Structure' /\ Elsewhere({s}) /\ ZoomsKept /\ PanesGrow(s)

\* A step that changes no window but those of session s, and no other session.
LEMMA ElsewhereKept ==
  ASSUME Structure, NEW s, DOMAIN sessions' \subseteq DOMAIN sessions \cup {s},
         \A t \in DOMAIN sessions \ {s} :
           t \in DOMAIN sessions' /\ sessions'[t] = sessions[t],
         \A w \in DOMAIN windows :
           (s \in DOMAIN sessions => w \notin WindowsOf(s)) => windows'[w] = windows[w]
  PROVE  Elsewhere({s})
<1>1. ASSUME NEW t \in DOMAIN sessions \ {s}, NEW w \in WindowsOf(t)
      PROVE  windows'[w] = windows[w]
  <2>1. w \in DOMAIN windows
    BY OfSession
  <2>2. s \in DOMAIN sessions => w \notin WindowsOf(s)
    BY DEF Structure, GoodSessions, WindowsOf
  <2> QED BY <2>1, <2>2
<1> QED BY <1>1 DEF Elsewhere

\* The panes and the view of a session that is left alone.
LEMMA SameSession ==
  ASSUME Structure, NEW S, Elsewhere(S), NEW t \in DOMAIN sessions \ S
  PROVE  /\ t \in DOMAIN sessions'
         /\ WindowsOf(t)' = WindowsOf(t) /\ PanesOf(t)' = PanesOf(t)
         /\ \A w \in WindowsOf(t) : InView(w)' = InView(w)
                                    /\ VisibleLeaves(w)' = VisibleLeaves(w)
         /\ VisiblePanes(t)' = VisiblePanes(t)
<1>1. /\ t \in DOMAIN sessions' /\ sessions'[t] = sessions[t]
      /\ \A w \in WindowsOf(t) : windows'[w] = windows[w]
  BY DEF Elsewhere
<1>2. WindowsOf(t)' = WindowsOf(t)
  BY <1>1 DEF WindowsOf
<1>3. PanesOf(t)' = PanesOf(t)
  BY <1>1, <1>2, SamePanes
<1>4. ASSUME NEW w \in WindowsOf(t)
      PROVE  InView(w)' = InView(w) /\ VisibleLeaves(w)' = VisibleLeaves(w)
  BY <1>1 DEF InView, VisibleLeaves
<1>5. VisiblePanes(t)' = VisiblePanes(t)
  <2>1. PICK w : w = ActiveWindow(t)
    OBVIOUS
  <2>2. w \in WindowsOf(t) /\ w = sessions'[t].active_window
    BY <1>1, <2>1, OfSession DEF ActiveWindow
  <2> QED BY <1>1, <2>1, <2>2 DEF VisiblePanes, InView, VisibleLeaves, ActiveWindow
<1> QED BY <1>1, <1>2, <1>3, <1>4, <1>5

\* Every pane a window shows is its own, or the one it is zoomed on.
LEMMA ShownPanes ==
  ASSUME Structure, NEW s \in DOMAIN sessions, NEW w \in WindowsOf(s)
  PROVE  \/ InView(w) = windows[w].panes
         \/ InView(w) = {windows[w].zoomed}
<1>1. ToSet(windows[w].layout) = windows[w].panes
  BY OfSession
<1>2. \A p : ToSet(<<p>>) = {p}
  BY DEF ToSet
<1> QED BY <1>1, <1>2 DEF InView, VisibleLeaves

\* Zooms stay in their session.
LEMMA ZoomStep ==
  ASSUME Structure, ZoomsHome, NEW s, Confined(s)
  PROVE  ZoomsHome'
<1>1. OwnersKnown /\ OwnersKnown' /\ Structure'
  BY OwnersFound, PTL DEF Confined
<1>2. next.pane \in Ids /\ next'.pane \in Ids /\ next.pane <= next'.pane
  BY <1>1 DEF Structure, Confined, PanesGrow
<1> SUFFICES ASSUME NEW u \in DOMAIN sessions', NEW w \in WindowsOf(u)'
             PROVE  /\ windows'[w].zoomed < next'.pane
                    /\ \A t \in DOMAIN sessions' \ {u} :
                         windows'[w].zoomed \notin PanesOf(t)'
  BY DEF ZoomsHome
<1>3. w \in DOMAIN windows'
  BY <1>1 DEF Structure, GoodSessions, WindowsOf
<1>4. CASE windows'[w].zoomed = None
  <2>1. ASSUME NEW t \in DOMAIN sessions' PROVE None \notin PanesOf(t)'
    BY <1>1 DEF OwnersKnown, Ids
  <2> QED BY <1>2, <1>4, <2>1 DEF Ids, None
<1>5. CASE windows'[w].zoomed # None
  <2>1. /\ w \in DOMAIN windows
        /\ windows'[w].zoomed \in {windows[w].zoomed, windows[w].active_pane}
    BY <1>3, <1>5 DEF Confined, ZoomsKept
  <2>2. PICK v \in DOMAIN sessions : w \in WindowsOf(v)
    BY <2>1 DEF Structure, GoodSessions, WindowsOf
  <2>3. v = u
    <3>1. CASE v # s
      <4>1. v \in DOMAIN sessions' /\ w \in WindowsOf(v)'
        BY <2>2, <3>1, SameSession DEF Confined
      <4> QED BY <1>1, <4>1 DEF Structure, GoodSessions, WindowsOf
    <3>2. CASE v = s /\ u # s
      <4>1. u \in DOMAIN sessions /\ WindowsOf(u)' = WindowsOf(u)
        BY <3>2, SameSession DEF Confined, Elsewhere
      <4> QED BY <2>2, <3>2, <4>1 DEF Structure, GoodSessions, WindowsOf
    <3> QED BY <3>1, <3>2
  <2>4. windows[w].active_pane \in PanesOf(u)
    BY <2>2, <2>3, OfSession DEF PanesOf
  <2>5. PICK z : z = windows'[w].zoomed
    OBVIOUS
  <2>6. z < next.pane /\ \A t \in DOMAIN sessions \ {u} : z \notin PanesOf(t)
    <3>1. CASE z = windows[w].zoomed
      BY <2>2, <2>3, <3>1 DEF ZoomsHome
    <3>2. CASE z = windows[w].active_pane
      BY <1>1, <2>2, <2>3, <2>4, <3>2 DEF OwnersKnown
    <3> QED BY <2>1, <2>5, <3>1, <3>2
  <2>7. z \in Nat
    <3>1. GoodWindow(windows'[w])
      BY <1>1, <1>3 DEF Structure, GoodWindows
    <3> QED BY <2>5, <3>1 DEF GoodWindow, WindowRecord
  <2>8. ASSUME NEW t \in DOMAIN sessions' \ {u} PROVE z \notin PanesOf(t)'
    <3>1. CASE t # s
      <4>1. t \in DOMAIN sessions \ {s} /\ Elsewhere({s})
        BY <2>8, <3>1 DEF Confined, Elsewhere
      <4>2. PanesOf(t)' = PanesOf(t)
        BY <4>1, SameSession
      <4> QED BY <2>6, <2>8, <4>1, <4>2
    <3>2. CASE t = s
      <4>1. z # next.pane
        BY <1>2, <2>6, <2>7 DEF Ids
      <4> QED BY <2>6, <2>8, <3>2, <4>1 DEF Confined, PanesGrow
    <3> QED BY <3>1, <3>2
  <2>9. z < next'.pane
    BY <1>2, <2>6, <2>7 DEF Ids
  <2> QED BY <2>5, <2>8, <2>9
<1> QED BY <1>4, <1>5

-----------------------------------------------------------------------------
(* The operations on the object model are confined to their session        *)

\* What the methods of a window do to its zoom.
LEMMA Zooms ==
  ASSUME NEW w, GoodWindow(w)
  PROVE  /\ \A p \in Ids \ w.panes : SplitActiveLeaf(w, p).zoomed = None
         /\ \A p : SetActivePane(w, p).zoomed \in {w.zoomed, None}
         /\ \A p : CollapsePane(w, p).zoomed = None
         /\ \A a, b : GraftPane(w, a, b).zoomed = w.zoomed
         /\ \A a, b : [w EXCEPT !.layout = Exchange(@, a, b)].zoomed = w.zoomed
         /\ \A p : SwapWithActive(w, p).zoomed = None
         /\ \A d : RotatePanesOf(w, d).zoomed = None
         /\ ApplyLayoutOf(w).zoomed = None
         /\ ToggleZoomOf(w).zoomed \in {w.active_pane, None}
         /\ FocusLastPaneOf(w).zoomed \in {w.zoomed, None}
         /\ \A p : NewWindowWith(p).zoomed = None
<1>1. PICK ls \in Seq(Ids), P \in SUBSET Ids, a \in Ids, l \in Nat, z \in Nat :
        w = [layout |-> ls, panes |-> P, active_pane |-> a,
             last_pane |-> l, zoomed |-> z]
  BY DEF GoodWindow, WindowRecord
<1>2. \A p : SetActivePane(w, p).zoomed \in {w.zoomed, None}
  BY <1>1 DEF SetActivePane
<1>3. \A p \in Ids \ w.panes : SplitActiveLeaf(w, p).zoomed = None
  <2> TAKE p \in Ids \ w.panes
  <2>1. PICK m : m = InsertAfter(w.layout, w.active_pane, p)
    OBVIOUS
  <2>2. w.active_pane # p
    BY DEF GoodWindow
  <2>3. SplitActiveLeaf(w, p) =
          [layout |-> m, panes |-> w.panes \cup {p}, active_pane |-> p,
           last_pane |-> w.active_pane, zoomed |-> None]
    BY <2>1, <2>2 DEF SplitActiveLeaf, SetActivePane, GoodWindow, WindowRecord
  <2> QED BY <2>3
<1>4. FocusLastPaneOf(w).zoomed \in {w.zoomed, None}
  BY <1>2 DEF FocusLastPaneOf
<1>5. /\ \A p : CollapsePane(w, p).zoomed = None
      /\ \A p : NewWindowWith(p).zoomed = None
  BY DEF CollapsePane, NewWindowWith
<1>6. \A b, c : GraftPane(w, b, c).zoomed = w.zoomed
  BY <1>1 DEF GraftPane
<1>7. \A b, c : [w EXCEPT !.layout = Exchange(@, b, c)].zoomed = w.zoomed
  BY <1>1
<1>8. /\ \A p : SwapWithActive(w, p).zoomed = None
      /\ \A d : RotatePanesOf(w, d).zoomed = None
      /\ ApplyLayoutOf(w).zoomed = None
      /\ ToggleZoomOf(w).zoomed \in {w.active_pane, None}
  BY <1>1 DEF SwapWithActive, RotatePanesOf, ApplyLayoutOf, ToggleZoomOf
<1> QED BY <1>2, <1>3, <1>4, <1>5, <1>6, <1>7, <1>8

\* The panes of a session after one of the three effects of ObjectTree_proofs.
LEMMA Grows ==
  ASSUME Structure, NEW s,
         \/ PanesKept /\ s \in DOMAIN sessions
         \/ PaneOpened(s)
         \/ \E P : PanesClosed(s, P)
  PROVE  PanesGrow(s)
<1>1. next.pane \in Ids
  BY DEF Structure
<1>2. CASE PanesKept /\ s \in DOMAIN sessions
  BY <1>1, <1>2 DEF PanesKept, PanesGrow, Ids
<1>3. CASE PaneOpened(s)
  BY <1>1, <1>3 DEF PaneOpened, PanesGrow, Ids
<1>4. CASE \E P : PanesClosed(s, P)
  BY <1>1, <1>4 DEF PanesClosed, PanesGrow, Ids
<1> QED BY <1>2, <1>3, <1>4

\* One window of session s becomes x.
LEMMA OneWindowConfined ==
  ASSUME Structure, NEW s \in DOMAIN sessions, NEW w \in WindowsOf(s), NEW x,
         windows' = [windows EXCEPT ![w] = x], UNCHANGED sessions,
         x.zoomed \in {None, windows[w].zoomed, windows[w].active_pane}
  PROVE  Elsewhere({s}) /\ ZoomsKept
<1>1. /\ w \in DOMAIN windows /\ DOMAIN windows' = DOMAIN windows /\ windows'[w] = x
      /\ \A v \in DOMAIN windows : v # w => windows'[v] = windows[v]
  BY OfSession
<1> QED BY <1>1, ElsewhereKept DEF ZoomsKept

LEMMA SplitConfined ==
  ASSUME Structure, NEW s \in DOMAIN sessions, SplitActive(s)
  PROVE  Confined(s)
<1>1. PICK w : w = ActiveWindow(s)
  OBVIOUS
<1>2. w \in WindowsOf(s) /\ GoodWindow(windows[w]) /\ w \in DOMAIN windows
  BY <1>1, OfSession
<1>3. windows' = [windows EXCEPT ![w] = SplitActiveLeaf(windows[w], next.pane)]
      /\ UNCHANGED sessions
  BY <1>1 DEF SplitActive
<1>4. next.pane \in Ids \ windows[w].panes
  BY <1>2, NextPaneIsNew
<1> QED BY <1>2, <1>3, <1>4, Zooms, OneWindowConfined, SplitActiveStructure,
           SplitActivePanes, Grows DEF Confined

\* Methods of the active window.
LEMMA MethodConfined ==
  ASSUME Structure, NEW s \in DOMAIN sessions,
         \/ ApplyLayout(s) \/ ToggleZoom(s) \/ FocusLastPane(s)
         \/ \E d \in BOOLEAN : RotatePanes(s, d) \/ SwapActivePane(s, d)
         \/ \E p \in PanesOf(s) : FocusPane(s, p)
  PROVE  /\ Confined(s) /\ PanesKept /\ UNCHANGED <<sessions, clients, next>>
         /\ \A v \in DOMAIN windows : v # ActiveWindow(s) => windows'[v] = windows[v]
         /\ DOMAIN windows' = DOMAIN windows
<1>1. PICK w : w = ActiveWindow(s)
  OBVIOUS
<1>2. w \in WindowsOf(s) /\ GoodWindow(windows[w]) /\ w \in DOMAIN windows
  BY <1>1, OfSession
<1>3. \E x : /\ windows' = [windows EXCEPT ![w] = x]
             /\ UNCHANGED <<sessions, clients, next>>
             /\ x.zoomed \in {None, windows[w].zoomed, windows[w].active_pane}
  BY <1>1, <1>2, Zooms DEF ApplyLayout, ToggleZoom, FocusLastPane, RotatePanes,
     SwapActivePane, FocusPane, UpdateActive, Active
<1>4. Structure' /\ PanesKept
  BY ActiveWindowMethodsStructure, ActiveWindowMethodsPanes
<1> QED BY <1>1, <1>2, <1>3, <1>4, OneWindowConfined, Grows DEF Confined

\* Methods of the session.
LEMMA FocusWindowConfined ==
  ASSUME Structure, NEW s \in DOMAIN sessions, NEW w \in WindowsOf(s),
         FocusWindow(s, w)
  PROVE  Confined(s) /\ PanesKept /\ UNCHANGED <<windows, clients, next>>
<1>1. Structure' /\ PanesKept
  BY SessionMethodsStructure, SessionMethodsPanes
<1>2. /\ UNCHANGED <<windows, clients, next>> /\ DOMAIN sessions' = DOMAIN sessions
      /\ \A t \in DOMAIN sessions \ {s} : sessions'[t] = sessions[t]
  BY DEF FocusWindow, UpdateSession
<1> QED BY <1>1, <1>2, ElsewhereKept, Grows DEF Confined, ZoomsKept

LEMMA NewWindowConfined ==
  ASSUME Structure, NEW s \in DOMAIN sessions, NewWindow(s)
  PROVE  Confined(s)
<1>1. /\ DOMAIN windows' = DOMAIN windows \cup {next.window}
      /\ next.window \notin DOMAIN windows
      /\ windows'[next.window] = NewWindowWith(next.pane)
      /\ \A v \in DOMAIN windows : windows'[v] = windows[v]
      /\ DOMAIN sessions' = DOMAIN sessions
      /\ \A t \in DOMAIN sessions \ {s} : sessions'[t] = sessions[t]
  BY DEF NewWindow, Put, Structure, GoodWindows, Ids
<1>2. NewWindowWith(next.pane).zoomed = None
  BY DEF NewWindowWith
<1> QED BY <1>1, <1>2, ElsewhereKept, NewWindowStructure, NewWindowPanes, Grows
        DEF Confined, ZoomsKept

\* Clients see the sessions they saw, other than session s.
ViewersStay(s) ==
  /\ DOMAIN clients' \subseteq DOMAIN clients
  /\ \A t \in DOMAIN sessions \ {s} : ClientsOf(t)' = ClientsOf(t)

\* A session closes with its viewers.
LEMMA DropConfined ==
  ASSUME Structure, NEW s \in DOMAIN sessions, DropSession(s), UNCHANGED next
  PROVE  Elsewhere({s}) /\ ZoomsKept /\ ViewersStay(s) /\ s \notin DOMAIN sessions'
<1>1. /\ DOMAIN sessions' = DOMAIN sessions \ {s}
      /\ \A t \in DOMAIN sessions \ {s} : sessions'[t] = sessions[t]
  BY DEF DropSession, Without, Restrict
<1>2. /\ DOMAIN windows' = DOMAIN windows \ WindowsOf(s)
      /\ \A w \in DOMAIN windows \ WindowsOf(s) : windows'[w] = windows[w]
  BY DEF DropSession, Without, Restrict
<1>3. /\ DOMAIN clients' = {c \in DOMAIN clients : clients[c] # s}
      /\ \A c \in DOMAIN clients' : clients'[c] = clients[c]
  BY DEF DropSession, Without, Restrict
<1>4. ViewersStay(s)
  BY <1>3 DEF ViewersStay, ClientsOf
<1> QED BY <1>1, <1>2, <1>4, ElsewhereKept DEF ZoomsKept

\* One of several windows of a session closes.
LEMMA CloseConfined ==
  ASSUME Structure, NEW s \in DOMAIN sessions, NEW w \in WindowsOf(s), NEW V,
         DOMAIN V = DOMAIN windows,
         \A v \in DOMAIN windows :
           /\ v \notin WindowsOf(s) => V[v] = windows[v]
           /\ V[v].zoomed \in {None, windows[v].zoomed, windows[v].active_pane},
         sessions' = [sessions EXCEPT ![s] = RemoveWindow(@, w)],
         windows' = Without(V, {w})
  PROVE  Elsewhere({s}) /\ ZoomsKept
<1>1. /\ DOMAIN windows' = DOMAIN windows \ {w}
      /\ \A v \in DOMAIN windows \ {w} : windows'[v] = V[v]
  BY DEF Without, Restrict
<1>2. /\ DOMAIN sessions' = DOMAIN sessions
      /\ \A t \in DOMAIN sessions \ {s} : sessions'[t] = sessions[t]
  OBVIOUS
<1> QED BY <1>1, <1>2, ElsewhereKept DEF ZoomsKept

\* The same when nothing else changes.
LEMMA PlainCloseConfined ==
  ASSUME Structure, NEW s \in DOMAIN sessions, NEW w \in WindowsOf(s),
         sessions' = [sessions EXCEPT ![s] = RemoveWindow(@, w)],
         windows' = Without(windows, {w})
  PROVE  Elsewhere({s}) /\ ZoomsKept
<1>1. PICK V : V = windows
  OBVIOUS
<1> QED BY <1>1, CloseConfined

Killing(s) == KillWindow(s) \/ KillSession(s) \/ \E p \in PanesOf(s) : KillPane(s, p)

LEMMA KillConfined ==
  ASSUME Structure, NEW s \in DOMAIN sessions, Killing(s)
  PROVE  Confined(s) /\ ViewersStay(s) /\ \E P : PanesClosed(s, P)
<1>1. UNCHANGED clients => ViewersStay(s)
  BY DEF ViewersStay, ClientsOf
<1>2. ASSUME KillSession(s) PROVE Confined(s) /\ ViewersStay(s) /\ \E P : PanesClosed(s, P)
  BY <1>2, DropConfined, DropSessionStructure, DropSessionPanes, Grows
     DEF KillSession, Confined
<1>3. ASSUME KillWindow(s) PROVE Confined(s) /\ ViewersStay(s) /\ \E P : PanesClosed(s, P)
  <2>1. PICK w \in WindowsOf(s) : w = ActiveWindow(s)
    BY OfSession
  <2>2. UNCHANGED next
    BY <1>3 DEF KillWindow
  <2>3. CASE DropSession(s)
    BY <2>2, <2>3, <1>2 DEF KillSession
  <2>4. CASE /\ WindowsOf(s) # {w}
             /\ sessions' = [sessions EXCEPT ![s] = RemoveWindow(@, w)]
             /\ windows' = Without(windows, {w}) /\ UNCHANGED clients
    BY <1>1, <2>2, <2>4, PlainCloseConfined, CloseWindowStructure, CloseWindowPanes,
       Grows DEF Confined
  <2> QED BY <1>3, <2>1, <2>3, <2>4 DEF KillWindow
<1>4. ASSUME NEW p \in PanesOf(s), KillPane(s, p)
      PROVE  Confined(s) /\ ViewersStay(s) /\ \E P : PanesClosed(s, P)
  <2>1. PICK w \in WindowsOf(s) : w = WindowOfPane(s, p)
    BY OfSession
  <2>2. UNCHANGED next /\ Structure' /\ (\E P : PanesClosed(s, P)) /\ GoodWindow(windows[w])
    BY <1>4, OfSession, KillPaneStructure, KillPanePanes DEF KillPane
  <2>3. CASE DropSession(s)
    BY <2>2, <2>3, <1>2 DEF KillSession
  <2>4. CASE /\ sessions' = [sessions EXCEPT ![s] = RemoveWindow(@, w)]
             /\ windows' = Without(windows, {w}) /\ UNCHANGED clients
    BY <1>1, <2>2, <2>4, PlainCloseConfined, Grows DEF Confined
  <2>5. CASE /\ windows' = [windows EXCEPT ![w] = CollapsePane(@, p)]
             /\ UNCHANGED <<sessions, clients>>
    <3>1. PICK x : x = CollapsePane(windows[w], p)
      OBVIOUS
    <3>2. x.zoomed = None /\ windows' = [windows EXCEPT ![w] = x]
      BY <2>2, <2>5, <3>1, Zooms
    <3> QED BY <1>1, <2>2, <2>5, <3>2, OneWindowConfined, Grows DEF Confined
  <2> QED BY <1>4, <2>1, <2>3, <2>4, <2>5 DEF KillPane
<1> QED BY <1>2, <1>3, <1>4 DEF Killing

\* The focused pane gets a window of its own.
LEMMA BreakConfined ==
  ASSUME Structure, NEW s \in DOMAIN sessions, BreakActivePane(s)
  PROVE  Confined(s) /\ PanesKept /\ UNCHANGED clients
<1>1. PICK w \in WindowsOf(s) : w = ActiveWindow(s)
  BY OfSession
<1>2. PICK p : p = Active(s).active_pane
  OBVIOUS
<1>3. PICK n : n = next.window /\ n \notin DOMAIN windows
  BY DEF Structure, GoodWindows, Ids
<1>4. PICK V : V = [windows EXCEPT ![w] = CollapsePane(@, p)]
  OBVIOUS
<1>5. /\ w \in DOMAIN windows /\ DOMAIN V = DOMAIN windows /\ V[w].zoomed = None
      /\ \A v \in DOMAIN windows : v # w => V[v] = windows[v]
  BY <1>4, OfSession DEF CollapsePane
<1>6. /\ windows' = Put(V, n, NewWindowWith(p))
      /\ DOMAIN sessions' = DOMAIN sessions /\ UNCHANGED clients
      /\ \A t \in DOMAIN sessions \ {s} : sessions'[t] = sessions[t]
  BY <1>1, <1>2, <1>3, <1>4 DEF BreakActivePane
<1>7. /\ DOMAIN windows' = DOMAIN windows \cup {n} /\ windows'[n].zoomed = None
      /\ \A v \in DOMAIN windows : windows'[v] = V[v]
  BY <1>3, <1>5, <1>6 DEF Put, NewWindowWith
<1>8. Elsewhere({s})
  BY <1>5, <1>6, <1>7, ElsewhereKept
<1>9. ZoomsKept
  BY <1>5, <1>7 DEF ZoomsKept
<1> QED BY <1>6, <1>8, <1>9, BreakActivePaneStructure, BreakActivePanePanes, Grows
        DEF Confined

\* A pane joins the active window.
LEMMA JoinConfined ==
  ASSUME Structure, NEW s \in DOMAIN sessions, NEW p \in PanesOf(s),
         JoinSpecificPane(s, p)
  PROVE  Confined(s) /\ PanesKept /\ UNCHANGED clients
<1>1. PICK w \in WindowsOf(s) : w = WindowOfPane(s, p) /\ p \in windows[w].panes
  BY OfSession
<1>2. MovePaneToActive(s, w, p)
  BY <1>1 DEF JoinSpecificPane
<1>3. PICK d \in WindowsOf(s) : d = ActiveWindow(s) /\ w # d
  BY <1>2, OfSession DEF MovePaneToActive
<1>4. /\ d \in DOMAIN windows /\ w \in DOMAIN windows /\ p \in Ids \ windows[d].panes
      /\ GoodWindow(windows[d])
  BY <1>1, <1>3, OfSession DEF Structure, GoodWindows
<1>5. PICK V : V = [windows EXCEPT ![d] = SplitActiveLeaf(@, p)]
  OBVIOUS
<1>6. /\ DOMAIN V = DOMAIN windows /\ V[d].zoomed = None
      /\ \A v \in DOMAIN windows : v # d => V[v] = windows[v]
  BY <1>4, <1>5, Zooms
<1>7. Structure' /\ PanesKept /\ UNCHANGED clients
  BY <1>1, <1>2, MovePaneToActiveStructure, MovePaneToActivePanes DEF MovePaneToActive
<1>8. CASE /\ windows' = Without(V, {w})
           /\ sessions' = [sessions EXCEPT ![s] = RemoveWindow(@, w)]
  <2>1. \A v \in DOMAIN windows :
           /\ v \notin WindowsOf(s) => V[v] = windows[v]
           /\ V[v].zoomed \in {None, windows[v].zoomed, windows[v].active_pane}
    BY <1>6
  <2> QED BY <1>6, <1>7, <1>8, <2>1, CloseConfined, Grows DEF Confined
<1>9. CASE /\ windows' = [V EXCEPT ![w] = CollapsePane(@, p)]
           /\ UNCHANGED sessions
  <2>1. /\ DOMAIN windows' = DOMAIN windows /\ windows'[w] = CollapsePane(windows[w], p)
        /\ \A v \in DOMAIN windows : v # w => windows'[v] = V[v]
    BY <1>3, <1>4, <1>6, <1>9
  <2>2. windows'[w].zoomed = None
    BY <2>1 DEF CollapsePane
  <2>3. Elsewhere({s})
    BY <1>6, <1>9, <2>1, ElsewhereKept
  <2>4. ZoomsKept
    BY <1>6, <2>1, <2>2 DEF ZoomsKept
  <2> QED BY <1>7, <2>3, <2>4, Grows DEF Confined
<1> QED BY <1>2, <1>3, <1>5, <1>8, <1>9 DEF MovePaneToActive

\* Two panes of the session trade places.
LEMMA SwapConfined ==
  ASSUME Structure, NEW s \in DOMAIN sessions, NEW b \in PanesOf(s), SwapPanes(s, b)
  PROVE  Confined(s) /\ PanesKept /\ UNCHANGED clients
<1>1. PICK v \in WindowsOf(s) : v = ActiveWindow(s)
  BY OfSession
<1>2. PICK w \in WindowsOf(s) : w = WindowOfPane(s, b)
  BY OfSession
<1>3. PICK a : a = Active(s).active_pane
  OBVIOUS
<1>4. /\ v \in DOMAIN windows /\ w \in DOMAIN windows
      /\ GoodWindow(windows[v]) /\ GoodWindow(windows[w])
  BY OfSession
<1>5. Structure' /\ PanesKept /\ UNCHANGED <<sessions, clients>>
  BY SwapPanesStructure, SwapPanesPanes DEF SwapPanes
<1>6. ASSUME DOMAIN windows' = DOMAIN windows,
             \A u \in DOMAIN windows : u # v /\ u # w => windows'[u] = windows[u],
             windows'[v].zoomed = windows[v].zoomed,
             windows'[w].zoomed = windows[w].zoomed
      PROVE  Confined(s)
  <2>1. Elsewhere({s})
    BY <1>5, <1>6, ElsewhereKept
  <2>2. ZoomsKept
    BY <1>6 DEF ZoomsKept
  <2> QED BY <1>5, <2>1, <2>2, Grows DEF Confined
<1>7. CASE v = w /\ windows' = [windows EXCEPT ![v].layout = Exchange(@, a, b)]
  <2>1. PICK x : x = [windows[v] EXCEPT !.layout = Exchange(@, a, b)]
    OBVIOUS
  <2>2. x.zoomed = windows[v].zoomed /\ windows' = [windows EXCEPT ![v] = x]
    BY <1>4, <1>7, <2>1, Zooms
  <2> QED BY <1>4, <1>5, <1>6, <1>7, <2>2
<1>8. CASE /\ v # w
           /\ windows' = [windows EXCEPT ![v] = GraftPane(@, a, b),
                                         ![w] = GraftPane(@, b, a)]
  <2>1. /\ DOMAIN windows' = DOMAIN windows
        /\ windows'[v] = GraftPane(windows[v], a, b)
        /\ windows'[w] = GraftPane(windows[w], b, a)
        /\ \A u \in DOMAIN windows : u # v /\ u # w => windows'[u] = windows[u]
    BY <1>4, <1>8
  <2>2. /\ GraftPane(windows[v], a, b).zoomed = windows[v].zoomed
        /\ GraftPane(windows[w], b, a).zoomed = windows[w].zoomed
    BY <1>4, Zooms
  <2> QED BY <1>5, <1>6, <2>1, <2>2
<1> QED BY <1>1, <1>2, <1>3, <1>7, <1>8 DEF SwapPanes

\* A pane is focused together with its window.
FocusAgentModel(s, w, p) ==
  /\ sessions' = [sessions EXCEPT ![s] = SetActiveWindow(@, w)]
  /\ windows' = [windows EXCEPT ![w] = SetActivePane(@, p)]
  /\ UNCHANGED <<clients, next>>

LEMMA FocusAgentConfined ==
  ASSUME Structure, NEW s \in DOMAIN sessions, NEW w \in WindowsOf(s),
         NEW p \in windows[w].panes, FocusAgentModel(s, w, p)
  PROVE  Confined(s) /\ PanesKept /\ UNCHANGED clients
<1>1. /\ w \in DOMAIN windows /\ GoodWindow(windows[w]) /\ GoodSession(sessions[s])
      /\ ToSet(sessions[s].windows) = WindowsOf(s) /\ WindowsOf(s) \subseteq DOMAIN windows
  BY OfSession DEF WindowsOf
<1>2. PICK x : x = SetActivePane(windows[w], p)
  OBVIOUS
<1>3. /\ GoodWindow(x) /\ x.panes = windows[w].panes
      /\ x.zoomed \in {windows[w].zoomed, None}
  BY <1>1, <1>2, SetActivePaneGood, Zooms
<1>4. PICK r : r = SetActiveWindow(sessions[s], w)
  OBVIOUS
<1>5. GoodSession(r) /\ ToSet(r.windows) = WindowsOf(s)
  BY <1>1, <1>4, SetActiveWindowGood
<1>6. /\ windows' = [windows EXCEPT ![w] = x] /\ sessions' = [sessions EXCEPT ![s] = r]
      /\ UNCHANGED <<clients, next>>
  BY <1>2, <1>4 DEF FocusAgentModel
<1>7. /\ GoodWindows(windows', next.pane, next.window) /\ DOMAIN windows' = DOMAIN windows
      /\ windows'[w] = x /\ \A v \in DOMAIN windows : v # w => windows'[v] = windows[v]
  BY <1>1, <1>3, <1>6, WindowKeepsGood
<1>8. /\ GoodSessions(sessions', (DOMAIN windows \ WindowsOf(s)) \cup ToSet(r.windows),
                      next.session)
      /\ DOMAIN sessions' = DOMAIN sessions
  <2>1. GoodSessions(sessions, DOMAIN windows, next.session)
    BY DEF Structure
  <2>2. (ToSet(r.windows) \ ToSet(sessions[s].windows)) \cap DOMAIN windows = {}
    BY <1>5 DEF WindowsOf
  <2> QED BY <1>5, <1>6, <2>1, <2>2, SessionUpdate DEF WindowsOf
<1>9. (DOMAIN windows \ WindowsOf(s)) \cup ToSet(r.windows) = DOMAIN windows
  BY <1>1, <1>5
<1>10. Structure'
  BY <1>6, <1>7, <1>8, <1>9 DEF Structure, GoodClients
<1>11. \A t \in DOMAIN sessions : WindowsOf(t)' = WindowsOf(t)
  BY <1>5, <1>6 DEF WindowsOf
<1>12. \A t \in DOMAIN sessions : WindowsOf(t) \subseteq DOMAIN windows
  BY OfSession
<1>13. \A t \in DOMAIN sessions : PanesOf(t)' = PanesOf(t)
  BY <1>3, <1>7, <1>11, <1>12, SamePanes
<1>14. PanesKept
  BY <1>6, <1>8, <1>13 DEF PanesKept
<1>15. Elsewhere({s})
  <2>1. \A t \in DOMAIN sessions \ {s} : sessions'[t] = sessions[t]
    BY <1>6
  <2> QED BY <1>1, <1>7, <1>8, <2>1, ElsewhereKept
<1>16. ZoomsKept
  BY <1>3, <1>7 DEF ZoomsKept
<1> QED BY <1>6, <1>10, <1>14, <1>15, <1>16, Grows DEF Confined

\* A session of one window opens around the client that asked for it.
ConnectModel(s) ==
  /\ sessions' = Put(sessions, s, NewSessionWith(next.window))
  /\ windows' = Put(windows, next.window, NewWindowWith(next.pane))
  /\ clients' = Put(clients, next.client, s)
  /\ next' = [k \in DOMAIN next |-> next[k] + 1]

LEMMA ConnectConfined ==
  ASSUME Structure, NEW s, s = next.session, ConnectModel(s)
  PROVE  /\ Confined(s) /\ PaneOpened(s) /\ s \notin DOMAIN sessions
         /\ \A t \in DOMAIN sessions : ClientsOf(t)' = ClientsOf(t)
         /\ DOMAIN clients \subseteq DOMAIN clients'
         /\ \E n \in {next.window} : WindowsOf(s)' = {n} /\ InView(n)' = {next.pane}
<1>1. /\ next \in [session : Ids, window : Ids, pane : Ids, client : Ids]
      /\ next.pane \in Ids /\ next.window \in Ids /\ next.session \in Ids
      /\ next.client \in Ids
  BY DEF Structure
<1>2. /\ next' \in [session : Ids, window : Ids, pane : Ids, client : Ids]
      /\ next'.session = next.session + 1 /\ next'.window = next.window + 1
      /\ next'.pane = next.pane + 1 /\ next'.client = next.client + 1
  BY <1>1 DEF ConnectModel, Ids, None
<1>3. PICK n : n = next.window
  OBVIOUS
<1>4. n \notin DOMAIN windows /\ s \notin DOMAIN sessions /\ next.client \notin DOMAIN clients
  BY <1>1, <1>3 DEF Structure, GoodWindows, GoodSessions, GoodClients, Ids
<1>5. /\ GoodWindows(windows', next.pane + 1, next.window + 1)
      /\ DOMAIN windows' = DOMAIN windows \cup {n}
  <2>1. GoodWindows(windows, next.pane, next.window)
    BY DEF Structure
  <2> QED BY <1>1, <1>3, <2>1, NextPaneIsNew, WindowPut DEF ConnectModel
<1>6. PICK r : r = NewSessionWith(n)
  OBVIOUS
<1>7. GoodSession(r) /\ ToSet(r.windows) = {n}
  BY <1>1, <1>3, <1>6, NewSessionGood
<1>8. /\ GoodSessions(Put(sessions, s, r), DOMAIN windows \cup ToSet(r.windows), s + 1)
      /\ DOMAIN Put(sessions, s, r) = DOMAIN sessions \cup {s}
  BY <1>1, <1>4, <1>7, SessionPut DEF Structure
<1>9. sessions' = Put(sessions, s, r)
  BY <1>3, <1>6 DEF ConnectModel
<1>10. DOMAIN windows \cup ToSet(r.windows) = DOMAIN windows'
  BY <1>5, <1>7
<1>11. GoodClients(clients', sessions', next.client + 1)
  <2>1. s \in Ids
    BY <1>1
  <2> QED BY <1>1, <1>8, <1>9, <2>1 DEF Structure, GoodClients, ConnectModel, Put, Ids, None
<1>12. Structure'
  BY <1>2, <1>5, <1>8, <1>9, <1>10, <1>11 DEF Structure
<1>13. /\ windows'[n] = NewWindowWith(next.pane)
       /\ \A w \in DOMAIN windows : windows'[w] = windows[w]
       /\ sessions'[s] = r /\ \A t \in DOMAIN sessions : sessions'[t] = sessions[t]
  BY <1>3, <1>4, <1>9 DEF ConnectModel, Put
<1>14. WindowsOf(s)' = {n}
  BY <1>7, <1>13 DEF WindowsOf
<1>15. PanesOf(s)' = {next.pane}
  BY <1>13, <1>14 DEF PanesOf, NewWindowWith
<1>16. \A t \in DOMAIN sessions \ {s} : PanesOf(t)' = PanesOf(t)
  BY <1>4, <1>13, OtherSessions
<1>17. PaneOpened(s)
  BY <1>2, <1>4, <1>8, <1>9, <1>15, <1>16 DEF PaneOpened
<1>18. Elsewhere({s})
  BY <1>4, <1>8, <1>9, <1>13, ElsewhereKept
<1>19. ZoomsKept
  BY <1>5, <1>13 DEF ZoomsKept, NewWindowWith
<1>20. \A t \in DOMAIN sessions : ClientsOf(t)' = ClientsOf(t)
  <2>1. DOMAIN clients' = DOMAIN clients \cup {next.client} /\ clients'[next.client] = s
    BY <1>4 DEF ConnectModel, Put
  <2>2. \A c \in DOMAIN clients : clients'[c] = clients[c]
    BY <1>4 DEF ConnectModel, Put
  <2> QED BY <1>4, <2>1, <2>2 DEF ClientsOf
<1>21. DOMAIN clients \subseteq DOMAIN clients'
  BY DEF ConnectModel, Put
<1>22. InView(n)' = {next.pane}
  BY <1>13 DEF InView, VisibleLeaves, NewWindowWith, ToSet
<1> QED BY <1>3, <1>4, <1>12, <1>14, <1>17, <1>18, <1>19, <1>20, <1>21, <1>22, Grows
        DEF Confined

-----------------------------------------------------------------------------
(* Sizes                                                                   *)

\* The place of a pane, from its session and its window.
PlacesKnown ==
  \A s \in DOMAIN sessions : \A w \in WindowsOf(s) : \A p \in windows[w].panes :
    Place(p) = [viewers |-> ClientsOf(s), leaves |-> VisibleLeaves(w)]

LEMMA PlacesFound == Structure => PlacesKnown
<1> SUFFICES ASSUME Structure, NEW s \in DOMAIN sessions, NEW w \in WindowsOf(s),
                    NEW p \in windows[w].panes
             PROVE  Place(p) = [viewers |-> ClientsOf(s), leaves |-> VisibleLeaves(w)]
  BY DEF PlacesKnown
<1>1. w \in DOMAIN windows
  BY OfSession
<1>2. (CHOOSE v \in DOMAIN windows : p \in windows[v].panes) = w
  BY <1>1 DEF Structure, GoodWindows
<1>3. {c \in DOMAIN clients : w \in WindowsOf(clients[c])} = ClientsOf(s)
  <2>1. ASSUME NEW c \in DOMAIN clients
        PROVE  w \in WindowsOf(clients[c]) <=> clients[c] = s
    BY DEF Structure, GoodClients, GoodSessions, WindowsOf
  <2> QED BY <2>1 DEF ClientsOf
<1> QED BY <1>2, <1>3 DEF Place

LEMMA PlacesFoundNext == Structure' => PlacesKnown'
BY PlacesFound, PTL

\* Window w of session t is as it was, with its viewers and none of the panes D.
LeftAlone(t, w, D) ==
  /\ t \in DOMAIN sessions /\ w \in WindowsOf(t) /\ windows'[w] = windows[w]
  /\ ClientsOf(t)' = ClientsOf(t)
  /\ windows[w].panes \cap D = {}

\* A step fits the sessions that are viewed if each of their windows either is
\* left alone or has what it shows resized.
LEMMA FitStep ==
  ASSUME Structure, Structure', FitsWell, NEW live, NEW moved, NEW fit, NEW odd,
         Fit(live, moved, fit, odd),
         \A t \in DOMAIN sessions' : ClientsOf(t)' # {} =>
           \A w \in WindowsOf(t)' :
             \/ InView(w)' \cap windows'[w].panes \subseteq fit
             \/ LeftAlone(t, w, moved \cup (live \ terminals))
  PROVE  FitsWell'
<1>1. PlacesKnown /\ PlacesKnown'
  BY PlacesFound, PlacesFoundNext
<1> SUFFICES ASSUME NEW t \in DOMAIN sessions', ClientsOf(t)' # {},
                    NEW w \in WindowsOf(t)',
                    NEW p \in InView(w)', p \in windows'[w].panes, p \in stale'
             PROVE  p \in unfitted'
  BY DEF FitsWell
<1>2. PICK disturbed :
        disturbed = moved \cup {q \in live : q \notin terminals \/ Place(q) # Place(q)'}
  OBVIOUS
<1>3. /\ stale' = (((stale \cup disturbed) \ fit) \cup odd) \cap live
      /\ unfitted' = ((unfitted \ fit) \cup odd) \cap live
  BY <1>2 DEF Fit
<1>4. CASE p \in odd \/ p \in fit
  BY <1>3, <1>4
<1>5. CASE p \notin odd /\ p \notin fit
  <2>1. p \in live /\ p \in stale \cup disturbed
    BY <1>3, <1>5
  <2>2. /\ t \in DOMAIN sessions /\ w \in WindowsOf(t) /\ windows'[w] = windows[w]
        /\ ClientsOf(t)' = ClientsOf(t) /\ p \in windows[w].panes
        /\ p \notin moved /\ p \in terminals
    BY <1>5, <2>1 DEF LeftAlone
  <2>3. VisibleLeaves(w)' = VisibleLeaves(w) /\ InView(w)' = InView(w)
    BY <2>2 DEF VisibleLeaves, InView
  <2>4. Place(p)' = Place(p)
    <3>1. Place(p) = [viewers |-> ClientsOf(t), leaves |-> VisibleLeaves(w)]
      BY <1>1, <2>2 DEF PlacesKnown
    <3>2. Place(p)' = [viewers |-> ClientsOf(t)', leaves |-> VisibleLeaves(w)']
      BY <1>1 DEF PlacesKnown
    <3> QED BY <2>2, <2>3, <3>1, <3>2
  <2>5. p \in stale
    BY <1>2, <2>1, <2>2, <2>4
  <2>6. p \in unfitted
    BY <2>2, <2>3, <2>5 DEF FitsWell
  <2> QED BY <1>3, <1>5, <2>1, <2>6
<1> QED BY <1>4, <1>5

\* The sessions in S are resized, and the others are left alone.
LEMMA FitElsewhere ==
  ASSUME Structure, Structure', FitsWell, NEW S, Elsewhere(S),
         NEW live, NEW moved, NEW fit, NEW odd, Fit(live, moved, fit, odd),
         \A t \in DOMAIN sessions \ S :
           /\ ClientsOf(t)' = ClientsOf(t)
           /\ PanesOf(t) \cap (moved \cup (live \ terminals)) = {},
         \A t \in S \cap DOMAIN sessions' : ClientsOf(t)' # {} =>
           \A w \in WindowsOf(t)' : InView(w)' \cap windows'[w].panes \subseteq fit
  PROVE  FitsWell'
<1>1. ASSUME NEW t \in DOMAIN sessions', t \notin S, NEW w \in WindowsOf(t)'
      PROVE  LeftAlone(t, w, moved \cup (live \ terminals))
  <2>1. t \in DOMAIN sessions \ S
    BY <1>1 DEF Elsewhere
  <2>2. WindowsOf(t)' = WindowsOf(t)
    BY <2>1, SameSession
  <2>3. w \in WindowsOf(t) /\ windows'[w] = windows[w]
    BY <1>1, <2>1, <2>2 DEF Elsewhere
  <2>4. windows[w].panes \subseteq PanesOf(t)
    BY <2>3 DEF PanesOf
  <2>5. windows[w].panes \cap (moved \cup (live \ terminals)) = {}
    BY <2>1, <2>4
  <2> QED BY <2>1, <2>3, <2>5 DEF LeftAlone
<1>2. \A t \in DOMAIN sessions' : ClientsOf(t)' # {} =>
        \A w \in WindowsOf(t)' :
          \/ InView(w)' \cap windows'[w].panes \subseteq fit
          \/ LeftAlone(t, w, moved \cup (live \ terminals))
  BY <1>1
<1> QED BY <1>2, FitStep

\* resize_all_windows and reconcile_session_geometry.
LEMMA ReconcileFits ==
  ASSUME Structure, Structure', FitsWell, NEW S, Elsewhere(S),
         NEW live, NEW moved,
         \/ Reconcile(S, live, moved)
         \/ ResizeAll(S, live) /\ moved = {},
         \A t \in DOMAIN sessions \ S :
           /\ ClientsOf(t)' = ClientsOf(t)
           /\ PanesOf(t) \cap (moved \cup (live \ terminals)) = {}
  PROVE  FitsWell'
<1>3. PICK fit, odd :
        /\ Fit(live, moved, fit, odd)
        /\ fit = FitViewed(S)' \/ fit = FitAll(S)'
  BY DEF Reconcile, ResizeAll
<1>4. ASSUME NEW t \in S \cap DOMAIN sessions', ClientsOf(t)' # {}, NEW w \in WindowsOf(t)'
      PROVE  InView(w)' \subseteq fit
  <2>1. InView(w)' \subseteq FitViewed(S)'
    BY <1>4 DEF FitViewed, FitAll, Viewed, Live
  <2>2. InView(w)' \subseteq FitAll(S)'
    BY <1>4 DEF FitAll, Live
  <2> QED BY <1>3, <2>1, <2>2
<1> QED BY <1>3, <1>4, FitElsewhere

\* The panes of different windows, and of windows of different sessions.
LEMMA PanesApart ==
  ASSUME Structure, NEW s \in DOMAIN sessions, NEW w \in WindowsOf(s)
  PROVE  /\ \A v \in WindowsOf(s) : v # w => windows[v].panes \cap windows[w].panes = {}
         /\ \A t \in DOMAIN sessions \ {s} : PanesOf(t) \cap windows[w].panes = {}
<1>1. w \in DOMAIN windows /\ WindowsOf(s) \subseteq DOMAIN windows
  BY OfSession
<1>2. \A t \in DOMAIN sessions \ {s} : PanesOf(t) \cap PanesOf(s) = {}
  BY OwnersFound DEF OwnersKnown
<1>3. windows[w].panes \subseteq PanesOf(s)
  BY DEF PanesOf
<1> QED BY <1>1, <1>2, <1>3 DEF Structure, GoodWindows

\* resize_session, after a change of the active window of session s only.
LEMMA ResizeActiveFits ==
  ASSUME Structure, Structure', FitsWell, NEW s \in DOMAIN sessions, Elsewhere({s}),
         UNCHANGED clients, NEW live, NEW moved, ResizeActive(s, live, moved),
         \A w \in WindowsOf(s)' : w # ActiveWindow(s)' =>
           /\ w \in WindowsOf(s) /\ windows'[w] = windows[w]
           /\ windows[w].panes \cap (moved \cup (live \ terminals)) = {},
         \A t \in DOMAIN sessions \ {s} :
           PanesOf(t) \cap (moved \cup (live \ terminals)) = {}
  PROVE  FitsWell'
<1>1. PICK fit : fit = FitActive(s)' /\ Fit(live, moved, fit, {})
  BY DEF ResizeActive
<1>2. \A t \in DOMAIN sessions : ClientsOf(t)' = ClientsOf(t)
  BY DEF ClientsOf
<1>3. ASSUME NEW t \in DOMAIN sessions', NEW w \in WindowsOf(t)'
      PROVE  \/ InView(w)' \cap windows'[w].panes \subseteq fit
             \/ LeftAlone(t, w, moved \cup (live \ terminals))
  <2>1. CASE t # s
    <3>1. t \in DOMAIN sessions \ {s} /\ Elsewhere({s})
      BY <1>3, <2>1 DEF Elsewhere
    <3>2. w \in WindowsOf(t) /\ windows'[w] = windows[w]
      <4>1. WindowsOf(t)' = WindowsOf(t)
        BY <3>1, SameSession
      <4> QED BY <1>3, <3>1, <4>1 DEF Elsewhere
    <3>3. windows[w].panes \subseteq PanesOf(t)
      BY <3>2 DEF PanesOf
    <3>4. windows[w].panes \cap (moved \cup (live \ terminals)) = {}
      BY <3>1, <3>3
    <3> QED BY <1>2, <3>1, <3>2, <3>4 DEF LeftAlone
  <2>2. CASE t = s /\ w # ActiveWindow(s)'
    BY <1>2, <1>3, <2>2 DEF LeftAlone
  <2>3. CASE t = s /\ w = ActiveWindow(s)'
    BY <1>1, <2>3 DEF FitActive, VisiblePanes, Active
  <2> QED BY <2>1, <2>2, <2>3
<1> QED BY <1>1, <1>3, FitStep

\* A change of focus resizes nothing.
LEMMA FocusedFits ==
  ASSUME Structure, Structure', FitsWell, Marks, PanesKept, NEW s, Focused(s)
  PROVE  FitsWell'
<1>1. PlacesKnown /\ PlacesKnown'
  BY PlacesFound, PlacesFoundNext
<1> SUFFICES ASSUME NEW t \in DOMAIN sessions', ClientsOf(t)' # {},
                    NEW w \in WindowsOf(t)',
                    NEW p \in InView(w)', p \in windows'[w].panes, p \in stale'
             PROVE  p \in unfitted'
  BY DEF FitsWell
<1>2. PICK unzoomed : unzoomed = {q \in terminals : Place(q) # Place(q)'}
  OBVIOUS
<1>3. stale' = stale \cup unzoomed /\ unfitted' = unfitted \cup unzoomed
  BY <1>2 DEF Focused
<1>4. CASE p \in unzoomed
  BY <1>3, <1>4
<1>5. CASE p \notin unzoomed
  <2>1. p \in stale /\ p \in terminals
    BY <1>3, <1>5 DEF Marks
  <2>2. Place(p)' = Place(p)
    BY <1>2, <1>5, <2>1
  <2>3. t \in DOMAIN sessions /\ p \in PanesOf(t)
    <3>1. p \in PanesOf(t)'
      BY DEF PanesOf
    <3> QED BY <3>1 DEF PanesKept
  <2>4. PICK v \in WindowsOf(t) : p \in windows[v].panes
    BY <2>3 DEF PanesOf
  <2>5. Place(p) = [viewers |-> ClientsOf(t), leaves |-> VisibleLeaves(v)]
    BY <1>1, <2>3, <2>4 DEF PlacesKnown
  <2>6. Place(p)' = [viewers |-> ClientsOf(t)', leaves |-> VisibleLeaves(w)']
    BY <1>1 DEF PlacesKnown
  <2>7. ClientsOf(t)' = ClientsOf(t) /\ VisibleLeaves(w)' = VisibleLeaves(v)
    <3>1. PICK a, b, c, d : /\ a = ClientsOf(t) /\ b = VisibleLeaves(v)
                            /\ c = ClientsOf(t)' /\ d = VisibleLeaves(w)'
      OBVIOUS
    <3>2. [viewers |-> a, leaves |-> b] = [viewers |-> c, leaves |-> d]
      BY <2>2, <2>5, <2>6, <3>1
    <3>3. a = c /\ b = d
      BY <3>2
    <3> QED BY <3>1, <3>3
  <2>8. p \in InView(v)
    BY <2>7 DEF InView
  <2> QED BY <1>3, <2>1, <2>3, <2>4, <2>7, <2>8 DEF FitsWell
<1> QED BY <1>4, <1>5

-----------------------------------------------------------------------------
(* Completions in view                                                     *)

\* The sessions in S are seen to, and the others have no new observers.
LEMMA SeenStep ==
  ASSUME Structure, NothingUnseenInView, NEW S, Elsewhere(S),
         \A t \in DOMAIN sessions \ S :
           /\ Observed(t)' => Observed(t)
           /\ t \in unexposed => t \in unexposed'
           /\ VisiblePanes(t) \cap (done' \ done) = {},
         \A t \in S : t \in DOMAIN sessions' \ unexposed' /\ Observed(t)' =>
                        VisiblePanes(t)' \cap done' = {}
  PROVE  NothingUnseenInView'
<1> SUFFICES ASSUME NEW t \in DOMAIN sessions', t \notin unexposed', Observed(t)'
             PROVE  VisiblePanes(t)' \cap done' = {}
  BY DEF NothingUnseenInView
<1>1. CASE t \in S
  BY <1>1
<1>2. CASE t \notin S
  <2>1. t \in DOMAIN sessions \ S
    BY <1>2 DEF Elsewhere
  <2>2. VisiblePanes(t)' = VisiblePanes(t)
    BY <2>1, SameSession
  <2> QED BY <2>1, <2>2 DEF NothingUnseenInView
<1> QED BY <1>1, <1>2

\* After a change that exposes session s.
LEMMA ExposeSees ==
  ASSUME Structure, NothingUnseenInView, NEW s, Elsewhere({s}), Expose(s),
         \A t \in DOMAIN sessions \ {s} : Observed(t)' => Observed(t)
  PROVE  NothingUnseenInView' /\ done' \subseteq done
<1>1. done' \subseteq done /\ unexposed' = unexposed \ {s}
  BY DEF Expose
<1>2. Observed(s)' => VisiblePanes(s)' \cap done' = {}
  BY DEF Expose
<1> QED BY <1>1, <1>2, SeenStep

\* Nobody observes more than before.
LEMMA SameObservers ==
  ASSUME NEW s, DOMAIN clients' = DOMAIN clients, clients' = clients, UNCHANGED blurred
  PROVE  \A t : ClientsOf(t)' = ClientsOf(t) /\ Observed(t)' = Observed(t)
BY DEF Observed, ClientsOf

-----------------------------------------------------------------------------
(* The marks                                                               *)

\* Panes that are kept or opened are there afterwards.
LEMMA PanesStay ==
  ASSUME Structure, Structure', PanesKept \/ \E s : PaneOpened(s)
  PROVE  /\ AllPanes \subseteq AllPanes'
         /\ (\E s : PaneOpened(s)) => next.pane \in AllPanes'
<1>1. OwnersKnown /\ OwnersKnown'
  BY OwnersFound, PTL
<1>2. /\ AllPanes = UNION {PanesOf(s) : s \in DOMAIN sessions}
      /\ AllPanes' = UNION {PanesOf(s)' : s \in DOMAIN sessions'}
  BY <1>1 DEF OwnersKnown
<1>3. CASE PanesKept
  <2>1. ASSUME NEW s, PaneOpened(s) PROVE next.pane \in AllPanes'
    BY <1>2, <2>1 DEF PaneOpened
  <2> QED BY <1>2, <1>3, <2>1 DEF PanesKept
<1>4. ASSUME NEW s, PaneOpened(s)
      PROVE  AllPanes \subseteq AllPanes' /\ next.pane \in AllPanes'
  BY <1>2, <1>4 DEF PaneOpened
<1> QED BY <1>3, <1>4

\* What every resizing does to the sets of terminals.
LEMMA Resizing ==
  ASSUME NEW S, NEW s, NEW live, NEW moved,
         \/ Reconcile(S, live, moved) \/ ResizeAll(S, live)
         \/ ResizeActive(s, live, moved) \/ Fit(live, moved, {}, {})
  PROVE  terminals' = live /\ stale' \cup unfitted' \subseteq terminals'
<1>1. PICK m, f, o : Fit(live, m, f, o)
  BY DEF Reconcile, ResizeAll, ResizeActive
<1> QED BY <1>1 DEF Fit

\* A handler that works on session s and exposes it keeps the invariant if it
\* fits the terminals.
LEMMA ExposedStep ==
  ASSUME ViewsInv, NEW s, Confined(s), Expose(s), UNCHANGED blurred, FitsWell',
         DOMAIN clients \subseteq DOMAIN clients',
         \A t \in DOMAIN sessions \ {s} : ClientsOf(t)' \subseteq ClientsOf(t),
         stale' \cup unfitted' \subseteq terminals',
         \/ terminals' = terminals /\ (PanesKept \/ PaneOpened(s))
         \/ terminals' = terminals \cup {next.pane} /\ PaneOpened(s)
  PROVE  ViewsInv'
<1>1. Structure /\ Structure' /\ Elsewhere({s}) /\ Marks
  BY DEF ViewsInv, Confined
<1>2. ZoomsHome'
  BY ZoomStep DEF ViewsInv
<1>3. \A t \in DOMAIN sessions \ {s} : Observed(t)' => Observed(t)
  BY DEF Observed
<1>4. NothingUnseenInView' /\ done' \subseteq done
  BY <1>1, <1>3, ExposeSees DEF ViewsInv
<1>5. terminals \subseteq terminals' /\ terminals' \subseteq AllPanes'
  BY <1>1, PanesStay DEF Marks
<1>6. unexposed' \subseteq DOMAIN sessions'
  BY <1>1 DEF Expose, Marks, Elsewhere
<1>7. Marks'
  BY <1>1, <1>4, <1>5, <1>6 DEF Marks
<1> QED BY <1>1, <1>2, <1>4, <1>7 DEF ViewsInv

-----------------------------------------------------------------------------
(* The handlers                                                            *)

\* Handlers that work on one session and resize all of it.
LEMMA MovedStep ==
  ASSUME ViewsInv, NEW s \in DOMAIN sessions,
         \/ DoBreakPane(s)
         \/ \E p \in PanesOf(s) : DoJoinPane(s, p) \/ SwapPaneTarget(s, p)
  PROVE  ViewsInv'
<1>1. Structure /\ FitsWell
  BY DEF ViewsInv
<1>2. Confined(s) /\ PanesKept /\ UNCHANGED clients
  BY <1>1, BreakConfined, JoinConfined, SwapConfined
     DEF DoBreakPane, DoJoinPane, SwapPaneTarget
<1>3. UNCHANGED blurred /\ ResizeAll({s}, terminals) /\ Expose(s)
  BY DEF DoBreakPane, DoJoinPane, SwapPaneTarget
<1>4. Structure' /\ Elsewhere({s})
  BY <1>2 DEF Confined
<1>5. \A t : ClientsOf(t)' = ClientsOf(t)
  BY <1>2 DEF ClientsOf
<1>6. FitsWell'
  <2>1. PICK moved : moved = {}
    OBVIOUS
  <2>2. \A t \in DOMAIN sessions \ {s} :
           /\ ClientsOf(t)' = ClientsOf(t)
           /\ PanesOf(t) \cap (moved \cup (terminals \ terminals)) = {}
    BY <1>5, <2>1
  <2>3. ResizeAll({s}, terminals) /\ moved = {}
    BY <1>3, <2>1
  <2> QED BY <1>1, <1>4, <2>2, <2>3, ReconcileFits
<1>7. terminals' = terminals /\ stale' \cup unfitted' \subseteq terminals'
  BY <1>3, Resizing
<1> QED BY <1>2, <1>3, <1>5, <1>6, <1>7, ExposedStep

\* Handlers that resize the active window, or do so if somebody views it.
LEMMA ActiveFits ==
  ASSUME Structure, Structure', FitsWell, NEW s \in DOMAIN sessions, Elsewhere({s}),
         UNCHANGED <<sessions, clients>>,
         \A v \in DOMAIN windows : v # ActiveWindow(s) => windows'[v] = windows[v],
         ResizeActive(s, terminals, {}) \/ ResizeIfViewed(s)
  PROVE  FitsWell' /\ terminals' = terminals /\ stale' \cup unfitted' \subseteq terminals'
<1>1. PICK a : a = ActiveWindow(s)
  OBVIOUS
<1>2. \A t : ClientsOf(t)' = ClientsOf(t)
  BY DEF ClientsOf
<1>3. a \in WindowsOf(s) /\ WindowsOf(s) \subseteq DOMAIN windows
  BY <1>1, OfSession
<1>4. PICK moved \in SUBSET windows[a].panes :
        ResizeActive(s, terminals, moved) \/ (ClientsOf(s) = {} /\ Fit(terminals, moved, {}, {}))
  BY <1>1 DEF ResizeIfViewed, Active
<1>5. /\ \A v \in WindowsOf(s) : v # a => windows[v].panes \cap moved = {}
      /\ \A t \in DOMAIN sessions \ {s} : PanesOf(t) \cap moved = {}
  BY <1>3, PanesApart
<1>6. terminals' = terminals /\ stale' \cup unfitted' \subseteq terminals'
  BY <1>4, Resizing
<1>7. CASE ResizeActive(s, terminals, moved)
  <2>1. WindowsOf(s)' = WindowsOf(s) /\ ActiveWindow(s)' = a
    BY <1>1 DEF WindowsOf, ActiveWindow
  <2> QED BY <1>1, <1>3, <1>5, <1>6, <1>7, <2>1, ResizeActiveFits
<1>8. CASE ClientsOf(s) = {} /\ Fit(terminals, moved, {}, {})
  BY <1>2, <1>5, <1>6, <1>8, FitElsewhere
<1> QED BY <1>4, <1>7, <1>8

\* Handlers of the active window.
LEMMA MethodStep ==
  ASSUME ViewsInv, NEW s \in DOMAIN sessions,
         \/ ApplyNamedLayout(s) \/ ZoomPane(s)
         \/ \E d \in BOOLEAN : SwapSibling(s, d) \/ RotateWindow(s, d)
  PROVE  ViewsInv'
<1>1. Structure /\ FitsWell
  BY DEF ViewsInv
<1>2. /\ Confined(s) /\ PanesKept /\ UNCHANGED <<sessions, clients, next>>
      /\ \A v \in DOMAIN windows : v # ActiveWindow(s) => windows'[v] = windows[v]
  BY <1>1, MethodConfined DEF ApplyNamedLayout, ZoomPane, SwapSibling, RotateWindow
<1>3. /\ UNCHANGED blurred /\ Expose(s)
      /\ ResizeActive(s, terminals, {}) \/ ResizeIfViewed(s)
  BY DEF ApplyNamedLayout, ZoomPane, SwapSibling, RotateWindow
<1>4. Structure' /\ Elsewhere({s})
  BY <1>2 DEF Confined
<1>5. \A t : ClientsOf(t)' = ClientsOf(t)
  BY <1>2 DEF ClientsOf
<1>6. FitsWell' /\ terminals' = terminals /\ stale' \cup unfitted' \subseteq terminals'
  BY <1>1, <1>2, <1>3, <1>4, ActiveFits
<1> QED BY <1>2, <1>3, <1>5, <1>6, ExposedStep

\* Sessions, windows and panes stay as they are.
LEMMA SameModel ==
  ASSUME Structure, ZoomsHome, UNCHANGED <<sessions, windows>>, next'.pane = next.pane
  PROVE  /\ \A S : Elsewhere(S)
         /\ ZoomsHome' /\ PanesKept
<1>1. \A t : WindowsOf(t)' = WindowsOf(t) /\ PanesOf(t)' = PanesOf(t)
  BY DEF WindowsOf, PanesOf
<1>2. ZoomsHome'
  BY <1>1 DEF ZoomsHome
<1> QED BY <1>2, UnchangedPanes DEF Elsewhere

\* resize_pane, which changes no more than sizes.
LEMMA ResizePaneStep ==
  ASSUME ViewsInv, NEW s \in DOMAIN sessions, ResizePane(s)
  PROVE  ViewsInv'
<1>1. Structure /\ FitsWell /\ ZoomsHome
  BY DEF ViewsInv
<1>2. /\ UNCHANGED <<sessions, windows, clients, next, blurred, done, unexposed>>
      /\ ResizeIfViewed(s)
  BY DEF ResizePane, vars
<1>3. Structure'
  BY <1>1, <1>2 DEF Structure
<1>4. Elsewhere({s}) /\ Elsewhere({}) /\ ZoomsHome' /\ PanesKept
  BY <1>1, <1>2, SameModel
<1>5. FitsWell' /\ terminals' = terminals /\ stale' \cup unfitted' \subseteq terminals'
  BY <1>1, <1>2, <1>3, <1>4, ActiveFits
<1>6. AllPanes' = AllPanes
  BY <1>2 DEF AllPanes
<1>7. Marks'
  BY <1>2, <1>5, <1>6 DEF Marks, ViewsInv
<1>8. NothingUnseenInView'
  BY <1>2 DEF NothingUnseenInView, Observed, ClientsOf, VisiblePanes, InView,
              VisibleLeaves, ActiveWindow, ViewsInv
<1> QED BY <1>3, <1>4, <1>5, <1>7, <1>8 DEF ViewsInv

\* The pane that is opened next has no terminal yet and is in no session.
LEMMA NextPaneUnseen ==
  ASSUME Structure, Marks
  PROVE  /\ next.pane \notin terminals
         /\ \A t \in DOMAIN sessions : next.pane \notin PanesOf(t)
         /\ \A w \in DOMAIN windows : next.pane \notin windows[w].panes
<1>1. \A t \in DOMAIN sessions : next.pane \notin PanesOf(t)
  BY OwnersFound DEF OwnersKnown, Ids
<1>2. next.pane \notin AllPanes
  BY <1>1, OwnersFound DEF OwnersKnown
<1> QED BY <1>1, <1>2, NextPaneIsNew DEF Marks

\* A pane opens in the active window of session s.
LEMMA OpenedFits ==
  ASSUME Structure, Structure', FitsWell, Marks, NEW s \in DOMAIN sessions,
         Elsewhere({s}), UNCHANGED clients,
         ResizeActive(s, terminals \cup {next.pane}, {}),
         \A w \in WindowsOf(s)' : w # ActiveWindow(s)' =>
           w \in WindowsOf(s) /\ windows'[w] = windows[w]
  PROVE  FitsWell'
<1>1. PICK p : p = next.pane
  OBVIOUS
<1>2. PICK live, moved : live = terminals \cup {p} /\ moved = {}
  OBVIOUS
<1>3. moved \cup (live \ terminals) = {p}
  BY <1>1, <1>2, NextPaneUnseen
<1>4. /\ \A t \in DOMAIN sessions : p \notin PanesOf(t)
      /\ \A w \in WindowsOf(s) : p \notin windows[w].panes
  BY <1>1, NextPaneUnseen, OfSession
<1>5. ResizeActive(s, live, moved)
  BY <1>1, <1>2
<1> QED BY <1>3, <1>4, <1>5, ResizeActiveFits

\* do_split.
LEMMA SplitStep ==
  ASSUME ViewsInv, NEW s \in DOMAIN sessions, DoSplit(s)
  PROVE  ViewsInv'
<1>1. Structure /\ FitsWell /\ Marks
  BY DEF ViewsInv
<1>2. PICK a \in WindowsOf(s) : a = ActiveWindow(s) /\ a \in DOMAIN windows
  BY <1>1, OfSession
<1>3. PICK p : p = next.pane
  OBVIOUS
<1>4. SplitActive(s) /\ UNCHANGED <<sessions, clients, blurred>>
  BY DEF DoSplit, SplitActive
<1>5. Confined(s) /\ PaneOpened(s) /\ Structure' /\ Elsewhere({s})
  BY <1>1, <1>4, SplitConfined, SplitActivePanes DEF Confined
<1>6. \A v \in DOMAIN windows : v # a => windows'[v] = windows[v]
  BY <1>2, <1>4 DEF SplitActive
<1>7. windows'[a].panes = windows[a].panes \cup {p}
  <2>1. p \in Ids \ windows[a].panes /\ GoodWindow(windows[a])
    BY <1>1, <1>2, <1>3, NextPaneIsNew, OfSession
  <2>2. windows'[a] = SplitActiveLeaf(windows[a], p)
    BY <1>2, <1>3, <1>4 DEF SplitActive
  <2> QED BY <2>1, <2>2, SplitGood
<1>8. \A t : ClientsOf(t)' = ClientsOf(t) /\ WindowsOf(t)' = WindowsOf(t)
  BY <1>4 DEF ClientsOf, WindowsOf
<1>9. CASE ResizeActive(s, terminals \cup {next.pane}, {}) /\ Expose(s)
  <2>1. \A w \in WindowsOf(s)' : w # ActiveWindow(s)' =>
          w \in WindowsOf(s) /\ windows'[w] = windows[w]
    BY <1>1, <1>2, <1>4, <1>6, <1>8, OfSession DEF ActiveWindow
  <2>2. FitsWell'
    BY <1>1, <1>4, <1>5, <1>9, <2>1, OpenedFits
  <2>3. terminals' = terminals \cup {next.pane} /\ stale' \cup unfitted' \subseteq terminals'
    BY <1>9, Resizing
  <2> QED BY <1>4, <1>5, <1>8, <1>9, <2>2, <2>3, ExposedStep
<1>10. CASE /\ stale' = stale \cup (Active(s).panes \cap terminals)
            /\ unfitted' = unfitted \cup (Active(s).panes \cap terminals)
            /\ unexposed' = unexposed \cup {s}
            /\ UNCHANGED <<terminals, done>>
  <2>1. PICK reshaped : reshaped = windows[a].panes \cap terminals
    OBVIOUS
  <2>2. stale' = stale \cup reshaped /\ unfitted' = unfitted \cup reshaped
    BY <1>2, <1>10, <2>1 DEF Active
  <2>3. FitsWell'
    <3> SUFFICES ASSUME NEW t \in DOMAIN sessions', ClientsOf(t)' # {},
                        NEW w \in WindowsOf(t)',
                        NEW q \in InView(w)', q \in windows'[w].panes, q \in stale'
                 PROVE  q \in unfitted'
      BY DEF FitsWell
    <3>1. t \in DOMAIN sessions /\ w \in WindowsOf(t) /\ w \in DOMAIN windows
      BY <1>1, <1>4, <1>8, OfSession
    <3>2. q # p
      BY <1>1, <1>3, <2>1, <2>2, NextPaneUnseen DEF Marks
    <3>3. CASE w = a
      BY <1>1, <1>7, <2>1, <2>2, <3>2, <3>3 DEF Marks
    <3>4. CASE w # a
      <4>1. windows'[w] = windows[w] /\ q \in InView(w)
        BY <1>6, <3>1, <3>4 DEF InView, VisibleLeaves
      <4>2. q \notin reshaped
        BY <1>1, <1>2, <2>1, <3>1, <3>4, <4>1 DEF Structure, GoodWindows
      <4> QED BY <1>1, <1>8, <2>2, <3>1, <4>1, <4>2 DEF FitsWell
    <3> QED BY <3>3, <3>4
  <2>4. ZoomsHome'
    BY <1>5, ZoomStep DEF ViewsInv
  <2>5. Marks'
    <3>1. AllPanes \subseteq AllPanes'
      BY <1>1, <1>5, PanesStay
    <3> QED BY <1>1, <1>4, <1>10, <2>1, <2>2, <3>1 DEF Marks
  <2>6. NothingUnseenInView'
    <3>1. \A t : Observed(t)' = Observed(t)
      BY <1>4, <1>8 DEF Observed
    <3>2. \A t \in DOMAIN sessions \ {s} :
            /\ Observed(t)' => Observed(t)
            /\ t \in unexposed => t \in unexposed'
            /\ VisiblePanes(t) \cap (done' \ done) = {}
      BY <1>10, <3>1
    <3>3. \A t \in {s} : t \in DOMAIN sessions' \ unexposed' /\ Observed(t)' =>
                           VisiblePanes(t)' \cap done' = {}
      BY <1>10
    <3>4. NothingUnseenInView
      BY DEF ViewsInv
    <3> QED BY <1>1, <1>5, <3>2, <3>3, <3>4, SeenStep
  <2> QED BY <1>5, <2>3, <2>4, <2>5, <2>6 DEF ViewsInv
<1> QED BY <1>9, <1>10 DEF DoSplit

\* What a new window shows.
LEMMA NewWindowShows ==
  ASSUME Structure, NEW s \in DOMAIN sessions, NewWindow(s)
  PROVE  /\ VisiblePanes(s)' = {next.pane}
         /\ ActiveWindow(s)' = next.window /\ next.window \notin DOMAIN windows
         /\ WindowsOf(s)' = WindowsOf(s) \cup {next.window}
         /\ \A v \in DOMAIN windows : windows'[v] = windows[v]
         /\ UNCHANGED clients
<1>1. PICK n \in Ids : n = next.window /\ n \notin DOMAIN windows
  BY DEF Structure, GoodWindows, Ids
<1>2. /\ windows'[n] = NewWindowWith(next.pane) /\ UNCHANGED clients
      /\ \A v \in DOMAIN windows : windows'[v] = windows[v]
  BY <1>1 DEF NewWindow, Put
<1>3. GoodSession(sessions[s]) /\ WindowsOf(s) \subseteq DOMAIN windows
  BY OfSession
<1>4. ToSet(AddWindow(sessions[s], n).windows) = WindowsOf(s) \cup {n}
  BY <1>1, <1>3, AddWindowGood DEF WindowsOf
<1>5. AddWindow(sessions[s], n).active_window = n
  BY <1>3 DEF AddWindow, SetActiveWindow, GoodSession, SessionRecord
<1>6. sessions'[s] = AddWindow(sessions[s], n)
  BY <1>1 DEF NewWindow
<1>7. ActiveWindow(s)' = n /\ WindowsOf(s)' = WindowsOf(s) \cup {n}
  BY <1>4, <1>5, <1>6 DEF ActiveWindow, WindowsOf
<1>8. VisiblePanes(s)' = {next.pane}
  <2>1. sessions'[s].active_window = n
    BY <1>7 DEF ActiveWindow
  <2> QED BY <1>2, <2>1 DEF VisiblePanes, ActiveWindow, InView, VisibleLeaves,
                            NewWindowWith, ToSet
<1> QED BY <1>1, <1>2, <1>7, <1>8

\* do_new_window.
LEMMA NewWindowStep ==
  ASSUME ViewsInv, NEW s \in DOMAIN sessions, DoNewWindow(s)
  PROVE  ViewsInv'
<1>1. Structure /\ FitsWell /\ Marks /\ NothingUnseenInView
  BY DEF ViewsInv
<1>2. NewWindow(s) /\ UNCHANGED <<blurred, done, unexposed>>
  BY DEF DoNewWindow
<1>3. Confined(s) /\ PaneOpened(s) /\ Structure' /\ Elsewhere({s})
  BY <1>1, <1>2, NewWindowConfined, NewWindowPanes DEF Confined
<1>4. PICK n, p : n = next.window /\ p = next.pane
  OBVIOUS
<1>5. /\ VisiblePanes(s)' = {p} /\ ActiveWindow(s)' = n
      /\ WindowsOf(s)' = WindowsOf(s) \cup {n} /\ UNCHANGED clients
      /\ \A v \in DOMAIN windows : windows'[v] = windows[v]
  BY <1>1, <1>2, <1>4, NewWindowShows
<1>6. WindowsOf(s) \subseteq DOMAIN windows
  BY <1>1, OfSession
<1>7. \A t : ClientsOf(t)' = ClientsOf(t)
  BY <1>5 DEF ClientsOf
<1>8. p \notin terminals
  BY <1>1, <1>4, NextPaneUnseen
<1>9. NothingUnseenInView'
  <2>1. \A t : Observed(t)' = Observed(t)
    BY <1>2, <1>7 DEF Observed
  <2>2. \A t \in DOMAIN sessions \ {s} :
          /\ Observed(t)' => Observed(t)
          /\ t \in unexposed => t \in unexposed'
          /\ VisiblePanes(t) \cap (done' \ done) = {}
    BY <1>2, <2>1
  <2>3. VisiblePanes(s)' \cap done' = {}
    BY <1>1, <1>2, <1>5, <1>8 DEF Marks
  <2>4. \A t \in {s} : t \in DOMAIN sessions' \ unexposed' /\ Observed(t)' =>
                         VisiblePanes(t)' \cap done' = {}
    BY <2>3
  <2> QED BY <1>1, <1>3, <2>2, <2>4, SeenStep
<1>10. /\ FitsWell' /\ stale' \cup unfitted' \subseteq terminals'
       /\ terminals \subseteq terminals' /\ terminals' \subseteq terminals \cup {p}
  <2>1. CASE ResizeActive(s, terminals \cup {next.pane}, {})
    <3>1. \A w \in WindowsOf(s)' : w # ActiveWindow(s)' =>
            w \in WindowsOf(s) /\ windows'[w] = windows[w]
      BY <1>5, <1>6
    <3>2. FitsWell'
      BY <1>1, <1>3, <1>5, <2>1, <3>1, OpenedFits
    <3>3. /\ terminals' = terminals \cup {next.pane}
          /\ stale' \cup unfitted' \subseteq terminals'
      BY <2>1, Resizing
    <3> QED BY <1>4, <3>2, <3>3
  <2>2. CASE UNCHANGED <<terminals, stale, unfitted>>
    <3>1. FitsWell'
      <4> SUFFICES ASSUME NEW t \in DOMAIN sessions', ClientsOf(t)' # {},
                          NEW w \in WindowsOf(t)',
                          NEW q \in InView(w)', q \in windows'[w].panes, q \in stale
                   PROVE  q \in unfitted
        BY <2>2 DEF FitsWell
      <4>1. t \in DOMAIN sessions
        BY <1>3 DEF Elsewhere
      <4>2. w \in DOMAIN windows => w \in WindowsOf(t)
        <5>1. CASE t = s
          BY <1>4, <1>5, <5>1, NewWindowShows, <1>1, <1>2
        <5>2. CASE t # s
          BY <1>1, <1>3, <4>1, <5>2, SameSession
        <5> QED BY <5>1, <5>2
      <4>3. CASE w \in DOMAIN windows
        <5>1. windows'[w] = windows[w] /\ q \in InView(w)
          BY <1>5, <4>3 DEF InView, VisibleLeaves
        <5> QED BY <1>1, <1>7, <4>1, <4>2, <4>3, <5>1 DEF FitsWell
      <4>4. CASE w \notin DOMAIN windows
        <5>1. w = n /\ t = s
          <6>1. CASE t # s
            BY <1>1, <1>3, <4>1, <4>4, <6>1, SameSession, OfSession
          <6> QED BY <1>5, <1>6, <4>4, <6>1
        <5>2. InView(w)' = {p}
          BY <1>5, <5>1 DEF VisiblePanes, InView, VisibleLeaves, ActiveWindow
        <5> QED BY <1>1, <1>8, <5>2 DEF Marks
      <4> QED BY <4>3, <4>4
    <3> QED BY <1>1, <2>2, <3>1 DEF Marks
  <2> QED BY <2>1, <2>2 DEF DoNewWindow
<1>11. ZoomsHome'
  BY <1>3, ZoomStep DEF ViewsInv
<1>12. Marks'
  <2>1. AllPanes \subseteq AllPanes' /\ p \in AllPanes'
    BY <1>1, <1>3, <1>4, PanesStay
  <2> QED BY <1>1, <1>2, <1>3, <1>5, <1>10, <2>1 DEF Marks, PaneOpened
<1> QED BY <1>3, <1>9, <1>10, <1>11, <1>12 DEF ViewsInv

\* Whatever closes panes, windows or sessions.
LEMMA ClosedStep ==
  ASSUME ViewsInv, NEW s \in DOMAIN sessions, Killing(s), Closed(s)
  PROVE  ViewsInv'
<1>1. Structure /\ FitsWell /\ Marks /\ NothingUnseenInView
  BY DEF ViewsInv
<1>2. Confined(s) /\ ViewersStay(s) /\ Structure' /\ Elsewhere({s})
  BY <1>1, KillConfined DEF Confined
<1>3. PICK live : live = terminals \cap AllPanes'
  OBVIOUS
<1>4. /\ blurred' = blurred \cap DOMAIN clients'
      /\ ResizeAll({s}, live)
      /\ done' = IF s \in DOMAIN sessions' /\ Observed(s)'
                 THEN (done \cap live) \ VisiblePanes(s)' ELSE done \cap live
      /\ unexposed' = unexposed \ {s}
  BY <1>3 DEF Closed
<1>5. terminals' = live /\ stale' \cup unfitted' \subseteq terminals'
  BY <1>4, Resizing
<1>6. FitsWell'
  <2>1. PICK moved : moved = {}
    OBVIOUS
  <2>2. \A t \in DOMAIN sessions \ {s} :
           /\ ClientsOf(t)' = ClientsOf(t)
           /\ PanesOf(t) \cap (moved \cup (live \ terminals)) = {}
    BY <1>2, <1>3, <2>1 DEF ViewersStay
  <2>3. ResizeAll({s}, live) /\ moved = {}
    BY <1>4, <2>1
  <2> QED BY <1>1, <1>2, <2>2, <2>3, ReconcileFits
<1>7. NothingUnseenInView'
  <2>1. \A t \in DOMAIN sessions \ {s} :
          /\ Observed(t)' => Observed(t)
          /\ t \in unexposed => t \in unexposed'
          /\ VisiblePanes(t) \cap (done' \ done) = {}
    <3>1. blurred' = blurred \cap DOMAIN clients' /\ unexposed' = unexposed \ {s}
      BY <1>4
    <3>2. done' \ done = {}
      BY <1>4
    <3>3. ASSUME NEW t \in DOMAIN sessions \ {s}
          PROVE  Observed(t)' => Observed(t)
      <4>1. ClientsOf(t)' = ClientsOf(t) /\ ClientsOf(t)' \subseteq DOMAIN clients'
        BY <1>2 DEF ViewersStay, ClientsOf
      <4> QED BY <3>1, <4>1 DEF Observed
    <3> QED BY <3>1, <3>2, <3>3
  <2>2. \A t \in {s} : t \in DOMAIN sessions' \ unexposed' /\ Observed(t)' =>
                         VisiblePanes(t)' \cap done' = {}
    BY <1>4
  <2> QED BY <1>1, <1>2, <2>1, <2>2, SeenStep
<1>8. Marks'
  BY <1>1, <1>2, <1>3, <1>4, <1>5 DEF Marks, Elsewhere
<1>9. ZoomsHome'
  BY <1>2, ZoomStep DEF ViewsInv
<1> QED BY <1>2, <1>6, <1>7, <1>8, <1>9 DEF ViewsInv

\* The focus handlers.
LEMMA FocusedStep ==
  ASSUME ViewsInv, NEW s \in DOMAIN sessions,
         \/ DoLastPane(s)
         \/ \E p \in PanesOf(s) : DoFocusPane(s, p)
         \/ \E w \in WindowsOf(s) :
              \/ DoFocusWindow(s, w)
              \/ \E p \in windows[w].panes : FocusAgentPane(s, w, p)
  PROVE  ViewsInv'
<1>1. Structure /\ FitsWell /\ Marks
  BY DEF ViewsInv
<1>2. Focused(s)
  BY DEF DoLastPane, DoFocusPane, DoFocusWindow, FocusAgentPane
<1>3. Confined(s) /\ PanesKept /\ UNCHANGED clients
  <2>1. CASE DoLastPane(s) \/ \E p \in PanesOf(s) : DoFocusPane(s, p)
    BY <1>1, <2>1, MethodConfined DEF DoLastPane, DoFocusPane
  <2>2. ASSUME NEW w \in WindowsOf(s), DoFocusWindow(s, w)
        PROVE  Confined(s) /\ PanesKept /\ UNCHANGED clients
    BY <1>1, <2>2, FocusWindowConfined DEF DoFocusWindow
  <2>3. ASSUME NEW w \in WindowsOf(s), NEW p \in windows[w].panes, FocusAgentPane(s, w, p)
        PROVE  Confined(s) /\ PanesKept /\ UNCHANGED clients
    BY <1>1, <2>3, FocusAgentConfined DEF FocusAgentPane, FocusAgentModel
  <2> QED BY <2>1, <2>2, <2>3
<1>4. FitsWell'
  BY <1>1, <1>2, <1>3, FocusedFits DEF Confined
<1>5. \A t : ClientsOf(t)' = ClientsOf(t)
  BY <1>3 DEF ClientsOf
<1>6. /\ UNCHANGED blurred /\ terminals' = terminals /\ Expose(s)
      /\ stale' \cup unfitted' \subseteq terminals'
  BY <1>1, <1>2 DEF Focused, Marks
<1> QED BY <1>3, <1>4, <1>5, <1>6, ExposedStep

-----------------------------------------------------------------------------
(* The clients                                                             *)

\* Nothing but clients changes, and the geometry of the sessions in S.
LEMMA GeometryStep ==
  ASSUME ViewsInv, Structure', UNCHANGED <<sessions, windows>>, next'.pane = next.pane,
         NEW S, NEW moved, Reconcile(S, terminals, moved),
         \A t \in DOMAIN sessions \ S :
           ClientsOf(t)' = ClientsOf(t) /\ PanesOf(t) \cap moved = {},
         blurred' \subseteq DOMAIN clients', unexposed' \subseteq unexposed,
         done' \subseteq done, NothingUnseenInView'
  PROVE  ViewsInv'
<1>1. Structure /\ FitsWell /\ ZoomsHome /\ Marks
  BY DEF ViewsInv
<1>2. Elsewhere(S) /\ ZoomsHome'
  BY <1>1, SameModel
<1>3. \A t \in DOMAIN sessions \ S :
        /\ ClientsOf(t)' = ClientsOf(t)
        /\ PanesOf(t) \cap (moved \cup (terminals \ terminals)) = {}
  OBVIOUS
<1>4. FitsWell'
  BY <1>1, <1>2, <1>3, ReconcileFits
<1>5. terminals' = terminals /\ stale' \cup unfitted' \subseteq terminals'
  BY Resizing
<1>6. AllPanes' = AllPanes
  BY DEF AllPanes
<1>7. Marks'
  BY <1>1, <1>5, <1>6 DEF Marks
<1> QED BY <1>2, <1>4, <1>7 DEF ViewsInv

\* A client joins, leaves or changes session.
LEMMA ClientsStep ==
  ASSUME ViewsInv,
         \/ \E s \in DOMAIN sessions : ClientConnected(s)
         \/ \E c \in DOMAIN clients :
              \/ ClientGone(c)
              \/ \E s \in DOMAIN sessions : SwitchClient(c, s)
  PROVE  ViewsInv'
<1>1. /\ Structure /\ ZoomsHome /\ Marks /\ NothingUnseenInView
      /\ GoodClients(clients, sessions, next.client)
      /\ next \in [session : Ids, window : Ids, pane : Ids, client : Ids]
  BY DEF ViewsInv, Structure
<1>2. PICK moved : moved = {}
  OBVIOUS
<1>3. ASSUME NEW s \in DOMAIN sessions, ClientConnected(s)
      PROVE  ViewsInv'
  <2>1. AttachClient(s) /\ UNCHANGED blurred /\ Reconcile({s}, terminals, moved) /\ Expose(s)
    BY <1>2, <1>3 DEF ClientConnected
  <2>2. Structure' /\ UNCHANGED <<sessions, windows>> /\ next'.pane = next.pane
    BY <1>1, <2>1, ClientsStructure DEF AttachClient
  <2>3. PICK d : d = next.client
    OBVIOUS
  <2>4. /\ DOMAIN clients' = DOMAIN clients \cup {d} /\ clients'[d] = s
        /\ \A c \in DOMAIN clients : clients'[c] = clients[c]
    <3>1. d \notin DOMAIN clients
      BY <1>1, <2>3 DEF GoodClients, Ids
    <3>2. clients' = Put(clients, d, s)
      BY <2>1, <2>3 DEF AttachClient
    <3> QED BY <3>1, <3>2 DEF Put
  <2>5. \A t \in DOMAIN sessions \ {s} : ClientsOf(t)' = ClientsOf(t)
    BY <2>4 DEF ClientsOf
  <2>6. \A t \in DOMAIN sessions \ {s} : Observed(t)' => Observed(t)
    BY <2>1, <2>5 DEF Observed
  <2>7. NothingUnseenInView' /\ done' \subseteq done
    BY <1>1, <2>1, <2>2, <2>6, SameModel, ExposeSees
  <2>8. blurred' \subseteq DOMAIN clients' /\ unexposed' \subseteq unexposed
    BY <1>1, <2>1, <2>4 DEF Marks, Expose
  <2> QED BY <1>2, <2>1, <2>2, <2>5, <2>7, <2>8, GeometryStep
<1>4. ASSUME NEW c \in DOMAIN clients, ClientGone(c)
      PROVE  ViewsInv'
  <2>1. PICK s : s = clients[c]
    OBVIOUS
  <2>2. /\ DetachClient(c) /\ blurred' = blurred \ {c} /\ UNCHANGED <<done, unexposed>>
        /\ Reconcile({s}, terminals, moved)
    BY <1>2, <1>4, <2>1 DEF ClientGone
  <2>3. Structure' /\ UNCHANGED <<sessions, windows, next>>
    BY <1>1, <2>2, ClientsStructure DEF DetachClient
  <2>4. /\ DOMAIN clients' = DOMAIN clients \ {c}
        /\ \A d \in DOMAIN clients \ {c} : clients'[d] = clients[d]
    BY <2>2 DEF DetachClient, Without, Restrict
  <2>5. \A t : ClientsOf(t)' = ClientsOf(t) \ {c}
    BY <2>4 DEF ClientsOf
  <2>6. \A t : t # s => ClientsOf(t)' = ClientsOf(t)
    BY <2>1, <2>5 DEF ClientsOf
  <2>7. \A t : Observed(t)' => Observed(t)
    BY <2>2, <2>5 DEF Observed
  <2>8. NothingUnseenInView'
    <3>1. PICK S : S = {}
      OBVIOUS
    <3>2. \A t \in DOMAIN sessions \ S :
            /\ Observed(t)' => Observed(t)
            /\ t \in unexposed => t \in unexposed'
            /\ VisiblePanes(t) \cap (done' \ done) = {}
      BY <2>2, <2>7
    <3>3. Elsewhere(S)
      BY <1>1, <2>3, SameModel
    <3> QED BY <1>1, <3>1, <3>2, <3>3, SeenStep
  <2>9. blurred' \subseteq DOMAIN clients'
    BY <1>1, <2>2, <2>4 DEF Marks
  <2> QED BY <1>2, <2>2, <2>3, <2>6, <2>8, <2>9, GeometryStep
<1>5. ASSUME NEW c \in DOMAIN clients, NEW s \in DOMAIN sessions, SwitchClient(c, s)
      PROVE  ViewsInv'
  <2>1. PICK S : S = IF clients[c] = s THEN {} ELSE {clients[c], s}
    OBVIOUS
  <2>2. /\ SetClientSession(c, s) /\ UNCHANGED blurred
        /\ Reconcile(S, terminals, moved) /\ Expose(s)
    BY <1>2, <1>5, <2>1 DEF SwitchClient
  <2>3. Structure' /\ UNCHANGED <<sessions, windows, next>>
    BY <1>1, <2>2, ClientsStructure DEF SetClientSession
  <2>4. /\ DOMAIN clients' = DOMAIN clients /\ clients'[c] = s
        /\ \A d \in DOMAIN clients \ {c} : clients'[d] = clients[d]
    BY <2>2 DEF SetClientSession
  <2>5. \A t \in DOMAIN sessions \ S : ClientsOf(t)' = ClientsOf(t)
    BY <2>1, <2>4 DEF ClientsOf
  <2>6. \A t \in DOMAIN sessions \ {s} : ClientsOf(t)' \subseteq ClientsOf(t)
    BY <2>4 DEF ClientsOf
  <2>7. \A t \in DOMAIN sessions \ {s} : Observed(t)' => Observed(t)
    BY <2>2, <2>6 DEF Observed
  <2>8. NothingUnseenInView' /\ done' \subseteq done
    BY <1>1, <2>2, <2>3, <2>7, SameModel, ExposeSees
  <2>9. blurred' \subseteq DOMAIN clients' /\ unexposed' \subseteq unexposed
    BY <1>1, <2>2, <2>4 DEF Marks, Expose
  <2> QED BY <1>2, <2>2, <2>3, <2>5, <2>8, <2>9, GeometryStep
<1> QED BY <1>3, <1>4, <1>5

\* The content area changes.
LEMMA ResizedStep ==
  ASSUME ViewsInv, NEW S \in SUBSET DOMAIN sessions, Resized(S)
  PROVE  ViewsInv'
<1>1. PICK moved : moved = (UNION {PanesOf(s) : s \in S}) \cap terminals
  OBVIOUS
<1>2. /\ UNCHANGED <<sessions, windows, clients, next, blurred, done, unexposed>>
      /\ Reconcile(S, terminals, moved)
  BY <1>1 DEF Resized, vars
<1>3. Structure'
  BY <1>2 DEF Structure, ViewsInv
<1>4. \A t \in DOMAIN sessions \ S :
        ClientsOf(t)' = ClientsOf(t) /\ PanesOf(t) \cap moved = {}
  <2>1. \A s, t \in DOMAIN sessions : s # t => PanesOf(s) \cap PanesOf(t) = {}
    BY OwnersFound DEF OwnersKnown, ViewsInv
  <2> QED BY <1>1, <1>2, <2>1 DEF ClientsOf
<1>5. NothingUnseenInView'
  BY <1>2 DEF NothingUnseenInView, Observed, ClientsOf, VisiblePanes, InView,
              VisibleLeaves, ActiveWindow, ViewsInv
<1>6. blurred' \subseteq DOMAIN clients'
  BY <1>2 DEF ViewsInv, Marks
<1> QED BY <1>2, <1>3, <1>4, <1>5, <1>6, GeometryStep

\* Neither model nor terminals change.
LEMMA FixedStep ==
  ASSUME ViewsInv, UNCHANGED <<vars, terminals, stale, unfitted>>,
         blurred' \subseteq DOMAIN clients, unexposed' \subseteq DOMAIN sessions,
         done' \subseteq terminals, NothingUnseenInView'
  PROVE  ViewsInv'
<1>1. UNCHANGED <<sessions, windows, clients, next, terminals, stale, unfitted>>
  BY DEF vars
<1>2. Structure' /\ AllPanes' = AllPanes
  BY <1>1 DEF Structure, AllPanes, ViewsInv
<1>3. ZoomsHome'
  BY <1>1, SameModel DEF ViewsInv
<1>4. FitsWell'
  BY <1>1 DEF FitsWell, ClientsOf, WindowsOf, InView, VisibleLeaves, ViewsInv
<1>5. Marks'
  BY <1>1, <1>2 DEF Marks, ViewsInv
<1> QED BY <1>2, <1>3, <1>4, <1>5 DEF ViewsInv

\* The focus of a client's terminal.
LEMMA BlurStep ==
  ASSUME ViewsInv, NEW c \in DOMAIN clients, ClientObserved(c) \/ ClientBlurred(c)
  PROVE  ViewsInv'
<1>1. Structure /\ ZoomsHome /\ Marks /\ NothingUnseenInView
  BY DEF ViewsInv
<1>2. /\ UNCHANGED <<vars, terminals, stale, unfitted>>
      /\ UNCHANGED <<sessions, windows, clients, next>>
  BY DEF ClientObserved, ClientBlurred, vars
<1>3. \A S : Elsewhere(S)
  BY <1>1, <1>2, SameModel
<1>4. \A t : ClientsOf(t)' = ClientsOf(t)
  BY <1>2 DEF ClientsOf
<1>5. CASE ClientObserved(c)
  <2>1. PICK s : s = clients[c]
    OBVIOUS
  <2>2. blurred' = blurred \ {c} /\ Expose(s)
    BY <1>5, <2>1 DEF ClientObserved
  <2>3. \A t \in DOMAIN sessions \ {s} : Observed(t)' => Observed(t)
    <3>1. ASSUME NEW t \in DOMAIN sessions \ {s} PROVE c \notin ClientsOf(t)
      BY <2>1 DEF ClientsOf
    <3> QED BY <1>4, <2>2, <3>1 DEF Observed
  <2>4. NothingUnseenInView' /\ done' \subseteq done
    BY <1>1, <1>3, <2>2, <2>3, ExposeSees
  <2> QED BY <1>1, <1>2, <2>2, <2>4, FixedStep DEF Marks, Expose
<1>6. CASE ClientBlurred(c)
  <2>1. blurred' = blurred \cup {c} /\ UNCHANGED <<done, unexposed>>
    BY <1>6 DEF ClientBlurred
  <2>2. \A t : Observed(t)' => Observed(t)
    BY <1>4, <2>1 DEF Observed
  <2>3. NothingUnseenInView'
    <3>1. PICK S : S = {}
      OBVIOUS
    <3>2. \A t \in DOMAIN sessions \ S :
            /\ Observed(t)' => Observed(t)
            /\ t \in unexposed => t \in unexposed'
            /\ VisiblePanes(t) \cap (done' \ done) = {}
      BY <2>1, <2>2
    <3> QED BY <1>1, <1>3, <3>1, <3>2, SeenStep
  <2> QED BY <1>1, <1>2, <2>1, <2>3, FixedStep DEF Marks
<1> QED BY <1>5, <1>6

\* A session shows no pane of another one.
LEMMA ViewsApart ==
  ASSUME Structure, ZoomsHome, NEW s \in DOMAIN sessions, NEW t \in DOMAIN sessions, s # t
  PROVE  VisiblePanes(t) \cap PanesOf(s) = {}
<1>1. PICK w : w = ActiveWindow(t)
  OBVIOUS
<1>2. w \in WindowsOf(t)
  BY <1>1, OfSession
<1>3. windows[w].panes \cap PanesOf(s) = {}
  BY <1>2, PanesApart
<1>4. windows[w].zoomed \notin PanesOf(s)
  BY <1>2 DEF ZoomsHome
<1>5. InView(w) = windows[w].panes \/ InView(w) = {windows[w].zoomed}
  BY <1>2, ShownPanes
<1> QED BY <1>1, <1>3, <1>4, <1>5 DEF VisiblePanes

\* An agent completes, in a pane of session s.
LEMMA AgentDoneStep ==
  ASSUME ViewsInv, NEW s \in DOMAIN sessions, NEW p \in PanesOf(s) \cap terminals,
         AgentDone(s, p)
  PROVE  ViewsInv'
<1>1. Structure /\ ZoomsHome /\ Marks /\ NothingUnseenInView
  BY DEF ViewsInv
<1>2. /\ UNCHANGED <<vars, blurred, terminals, stale, unfitted, unexposed>>
      /\ UNCHANGED <<sessions, windows, clients, next>>
      /\ done' \subseteq done \cup {p}
      /\ Observed(s) /\ p \in VisiblePanes(s) => p \notin done'
  BY DEF AgentDone, vars
<1>3. /\ \A t : Observed(t)' = Observed(t)
      /\ \A t : VisiblePanes(t)' = VisiblePanes(t)
  BY <1>2 DEF Observed, ClientsOf, VisiblePanes, InView, VisibleLeaves, ActiveWindow
<1>4. ASSUME NEW t \in DOMAIN sessions \ unexposed, Observed(t)
      PROVE  VisiblePanes(t) \cap done' = {}
  <2>1. VisiblePanes(t) \cap done = {}
    BY <1>1, <1>4 DEF NothingUnseenInView
  <2>2. p \in VisiblePanes(t) => p \notin done'
    BY <1>1, <1>2, <1>4, ViewsApart
  <2> QED BY <1>2, <2>1, <2>2
<1>5. NothingUnseenInView'
  BY <1>2, <1>3, <1>4 DEF NothingUnseenInView
<1> QED BY <1>1, <1>2, <1>5, FixedStep DEF Marks

\* A session opens around the client that asked for it.
LEMMA ConnectStep ==
  ASSUME ViewsInv, ClientConnectedToNew
  PROVE  ViewsInv'
<1>1. Structure /\ FitsWell /\ Marks
  BY DEF ViewsInv
<1>2. PICK s : s = next.session
  OBVIOUS
<1>3. PICK live, moved : live = terminals \cup {next.pane} /\ moved = {}
  OBVIOUS
<1>4. /\ ConnectModel(s) /\ UNCHANGED blurred
      /\ Reconcile({s}, live, moved) /\ Expose(s)
  BY <1>2, <1>3 DEF ClientConnectedToNew, ConnectModel
<1>5. /\ Confined(s) /\ PaneOpened(s) /\ s \notin DOMAIN sessions
      /\ Structure' /\ Elsewhere({s})
      /\ \A t \in DOMAIN sessions : ClientsOf(t)' = ClientsOf(t)
      /\ DOMAIN clients \subseteq DOMAIN clients'
  BY <1>1, <1>2, <1>4, ConnectConfined DEF Confined
<1>6. FitsWell'
  <2>1. \A t \in DOMAIN sessions \ {s} :
          /\ ClientsOf(t)' = ClientsOf(t)
          /\ PanesOf(t) \cap (moved \cup (live \ terminals)) = {}
    BY <1>1, <1>3, <1>5, NextPaneUnseen
  <2> QED BY <1>1, <1>4, <1>5, <2>1, ReconcileFits
<1>7. terminals' = terminals \cup {next.pane} /\ stale' \cup unfitted' \subseteq terminals'
  BY <1>3, <1>4, Resizing
<1> QED BY <1>4, <1>5, <1>6, <1>7, ExposedStep

-----------------------------------------------------------------------------
(* The results                                                             *)

LEMMA ViewsUnchanged ==
  ASSUME ViewsInv, UNCHANGED viewsVars
  PROVE  ViewsInv'
<1>1. UNCHANGED <<vars, blurred, terminals, stale, done, unfitted, unexposed>>
  BY DEF viewsVars
<1>2. UNCHANGED <<sessions, windows, clients, next>>
  BY <1>1 DEF vars
<1>3. NothingUnseenInView'
  BY <1>1, <1>2 DEF NothingUnseenInView, Observed, ClientsOf, VisiblePanes, InView,
                    VisibleLeaves, ActiveWindow, ViewsInv
<1> QED BY <1>1, <1>3, FixedStep DEF ViewsInv, Marks

LEMMA TopologyStep ==
  ASSUME ViewsInv, NEW s \in DOMAIN sessions, Topology(s)
  PROVE  ViewsInv'
<1>1. CASE DoKillWindow(s) \/ KillWholeSession(s)
           \/ \E p \in PanesOf(s) : KillPaneTarget(s, p)
  <2>1. Killing(s) /\ Closed(s)
    BY <1>1 DEF Killing, DoKillWindow, KillWholeSession, KillPaneTarget
  <2> QED BY <2>1, ClosedStep
<1>2. CASE DoBreakPane(s)
           \/ \E p \in PanesOf(s) : DoJoinPane(s, p) \/ SwapPaneTarget(s, p)
  BY <1>2, MovedStep
<1>3. CASE \/ ApplyNamedLayout(s) \/ ZoomPane(s)
           \/ \E d \in BOOLEAN : SwapSibling(s, d) \/ RotateWindow(s, d)
  BY <1>3, MethodStep
<1> QED BY <1>1, <1>2, <1>3, SplitStep, NewWindowStep, ResizePaneStep DEF Topology

LEMMA FocusStep ==
  ASSUME ViewsInv, NEW s \in DOMAIN sessions, Focus(s)
  PROVE  ViewsInv'
BY FocusedStep DEF Focus

LEMMA ClientStep ==
  ASSUME ViewsInv, Clients
  PROVE  ViewsInv'
<1>1. CASE ClientConnectedToNew
  BY <1>1, ConnectStep
<1>2. CASE \/ Resized(DOMAIN sessions)
           \/ \E s \in DOMAIN sessions : Resized({s})
  BY <1>2, ResizedStep
<1>3. CASE \/ \E s \in DOMAIN sessions : ClientConnected(s)
           \/ \E c \in DOMAIN clients :
                \/ ClientGone(c)
                \/ \E s \in DOMAIN sessions : SwitchClient(c, s)
  BY <1>3, ClientsStep
<1>4. CASE \E c \in DOMAIN clients : ClientObserved(c) \/ ClientBlurred(c)
  BY <1>4, BlurStep
<1> QED BY <1>1, <1>2, <1>3, <1>4 DEF Clients

\* Every handler of the loop keeps the invariant.
LEMMA ViewsStep == ViewsInv /\ [ViewsNext]_viewsVars => ViewsInv'
<1> SUFFICES ASSUME ViewsInv, [ViewsNext]_viewsVars
             PROVE  ViewsInv'
  OBVIOUS
<1>1. CASE Clients
  BY <1>1, ClientStep
<1>2. ASSUME NEW s \in DOMAIN sessions, Topology(s)
      PROVE  ViewsInv'
  BY <1>2, TopologyStep
<1>3. ASSUME NEW s \in DOMAIN sessions, Focus(s)
      PROVE  ViewsInv'
  BY <1>3, FocusStep
<1>4. ASSUME NEW s \in DOMAIN sessions, NEW p \in PanesOf(s) \cap terminals, AgentDone(s, p)
      PROVE  ViewsInv'
  BY <1>4, AgentDoneStep
<1>5. CASE UNCHANGED viewsVars
  BY <1>5, ViewsUnchanged
<1> QED BY <1>1, <1>2, <1>3, <1>4, <1>5 DEF ViewsNext

\* What the views rest on, whatever topology, focus, clients and agents do.
THEOREM ViewsInvariant == ViewsSpec => []ViewsInv
<1>1. ViewsInit => ViewsInv
  <2> SUFFICES ASSUME ViewsInit PROVE ViewsInv
    OBVIOUS
  <2>1. Structure
    BY DEF ViewsInit, Init, Structure, GoodWindows, GoodSessions, GoodClients, Ids, None
  <2>2. DOMAIN sessions = {} /\ DOMAIN clients = {}
    BY DEF ViewsInit, Init
  <2>3. Marks
    BY DEF Marks, ViewsInit
  <2> QED BY <2>1, <2>2, <2>3 DEF ViewsInv, ZoomsHome, FitsWell, NothingUnseenInView
<1> QED BY <1>1, ViewsStep, PTL DEF ViewsSpec

\* A pane that a window of its session shows is the window's own, or the
\* window is zoomed on a pane it no longer has.
LEMMA ShownAtHome ==
  ASSUME Structure, NEW s \in DOMAIN sessions, NEW w \in WindowsOf(s),
         NEW p \in InView(w), p \in PanesOf(s)
  PROVE  p \in windows[w].panes \/ p \in Misfits(s)
<1>1. CASE InView(w) = windows[w].panes
  BY <1>1
<1>2. CASE InView(w) = {windows[w].zoomed} /\ p \notin windows[w].panes
  <2>1. p # None
    BY OfSession DEF Ids, None
  <2>2. windows[w].zoomed \notin windows[w].panes \cup {None} /\ p = windows[w].zoomed
    BY <1>2, <2>1
  <2> QED BY <2>2 DEF Misfits
<1> QED BY <1>1, <1>2, ShownPanes

LEMMA InvImpliesConsistent == ViewsInv => Consistent
<1> SUFFICES ASSUME ViewsInv PROVE Consistent
  OBVIOUS
<1>1. ViewsTyped
  BY StructureImplies DEF ViewsTyped, ViewsInv, Marks
<1>2. TerminalsFitLayout
  <2> SUFFICES ASSUME NEW s \in Viewed(DOMAIN sessions),
                      NEW p \in FitAll({s}), p \in PanesOf(s), p \in stale
               PROVE  p \in unfitted \cup Misfits(s)
    BY DEF TerminalsFitLayout
  <2>1. s \in DOMAIN sessions /\ ClientsOf(s) # {}
    BY DEF Viewed, Live
  <2>2. PICK w \in WindowsOf(s) : p \in InView(w)
    BY DEF FitAll, Live
  <2>3. p \in windows[w].panes \/ p \in Misfits(s)
    BY <2>1, <2>2, ShownAtHome DEF ViewsInv
  <2>4. p \in windows[w].panes => p \in unfitted
    BY <2>1, <2>2 DEF FitsWell, ViewsInv
  <2> QED BY <2>3, <2>4
<1> QED BY <1>1, <1>2 DEF Consistent

\* No handler leaves a terminal behind: in a session that somebody views, what
\* a window shows has the size of its place in the layout, but for the
\* terminals that no handler resizes; and the loop's sets of clients, sessions
\* and terminals never name what is gone.
THEOREM ViewsStayConsistent == ViewsSpec => []Consistent
BY ViewsInvariant, InvImpliesConsistent, PTL

\* No pane in the view of a client that may observe it shows an unseen
\* completion, whichever of focus, topology, clients and reports came last.
THEOREM NothingStaysUnseen == ViewsSpec => []NothingUnseenInView
<1>1. ViewsInv => NothingUnseenInView
  BY DEF ViewsInv
<1> QED BY <1>1, ViewsInvariant, PTL
=============================================================================
