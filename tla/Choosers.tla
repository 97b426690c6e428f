------------------------------ MODULE Choosers ------------------------------
(***************************************************************************)
(* What the clients of the server have on their screens of things that all *)
(* sessions share: the sidebar's lists of sessions and agents, choose-tree *)
(* and the chooser of paste buffers (lumux-server, daemon.rs), with the    *)
(* stack of paste buffers (lumux-core, buffers.rs) and the messages of the *)
(* event loop that change any of it.                                       *)
(*                                                                         *)
(* A message runs to its end and then draws the clients it asked to draw:  *)
(* all of them, those of one session, or one.  Every action is a message   *)
(* and names the clients it draws; `drawn` is what a client last received. *)
(* Of a row only the session or window it stands for is kept, of a buffer  *)
(* which text it holds; the sidebar is on and not collapsed.               *)
(***************************************************************************)
EXTENDS Naturals, Sequences, FiniteSets, FiniteSetsExt, SequencesExt, Lists

CONSTANTS
  Clients,
  Choosing,                           \* the clients that open a chooser
  Heights,                            \* of a client's terminal
  MaxSessions, MaxWindows, MaxTexts,  \* how many are ever made
  MaxAgents,                          \* how many there are at a time
  BufferNames, BufferLimit,
  Nil

ASSUME ClientsAssumption == Heights \subseteq Nat /\ Nil \notin [session : Nat, height : Heights]

VARIABLES
  rows,            \* the sessions in order, each followed by its windows
  agents,          \* the windows with an agent in them
  clients,         \* by client, its session and its height; or Nil
  buffers,         \* PasteBuffers::buffers, the most recent first
  next,            \* the next session, window and text to be made
  choosing,        \* by client, an open choose-tree, or Nil
  choosing_buffer, \* by client, the selection of an open buffer chooser, or Nil
  sidebar_scroll,  \* by client, the offsets of its two lists
  drawn,           \* by client, what its last frame shows, or Nil
  elsewhere        \* clients whose buffers another session changed since

modelVars == <<rows, agents>>
modalVars == <<choosing, choosing_buffer>>
listVars == <<rows, agents, clients, buffers, next, choosing,
          choosing_buffer, sidebar_scroll, drawn, elsewhere>>

Attached == {c \in Clients : clients[c] # Nil}
SessionClients(s) == {c \in Clients : clients[c] # Nil /\ clients[c].session = s}
SessionOf(c) == clients[c].session
EffectiveRows(s) == Min({clients[c].height : c \in SessionClients(s)})

Lesser(i, j) == IF i <= j THEN i ELSE j

Row(s, w) == [session |-> s, window |-> w]
Sessions == {r.session : r \in ToSet(rows)}
WindowRows(s) == Kept(rows, {r \in ToSet(rows) : r.session = s /\ r.window # Nil})

-----------------------------------------------------------------------------
(* The sidebar: two sections of fixed height, a header in the first row of *)
(* each.                                                                   *)

RowsFor(height) == IF height = 0 THEN 0 ELSE height - 1
SessionsHeight(c) == EffectiveRows(SessionOf(c)) \div 2
AgentsHeight(c) == RowsFor(EffectiveRows(SessionOf(c))) \div 2
MaxOffset(items, capacity) == IF items > capacity THEN items - capacity ELSE 0

SessionEntries == Kept(rows, {r \in ToSet(rows) : r.window = Nil})
AgentEntries == Kept(rows, {r \in ToSet(rows) : r.window \in agents})

MaxSessionsOffset(c) == MaxOffset(Cardinality(Sessions), RowsFor(SessionsHeight(c)))
MaxAgentsOffset(c) == MaxOffset(Cardinality(agents), RowsFor(AgentsHeight(c)))

ShownSessions(c) == Lesser(sidebar_scroll[c].sessions, MaxSessionsOffset(c))
ShownAgents(c) == Lesser(sidebar_scroll[c].agents, MaxAgentsOffset(c))

VisibleItems(items, offset, capacity) ==
  SubSeq(items, offset + 1, Lesser(Len(items), offset + capacity))

SidebarProjection(c) ==
  [sessions |-> VisibleItems(SessionEntries, ShownSessions(c), RowsFor(SessionsHeight(c))),
   agents   |-> VisibleItems(AgentEntries, ShownAgents(c), RowsFor(AgentsHeight(c)))]

\* The offset that has item i (from 1) among the visible ones.
OffsetRevealing(i, offset, capacity, max) ==
  IF capacity = 0 THEN offset
  ELSE Lesser(max, IF i - 1 < offset THEN i - 1
                   ELSE IF i > offset + capacity THEN i - capacity
                   ELSE offset)

-----------------------------------------------------------------------------
(* Choose-tree: sessions, and the windows of those that are expanded.      *)

TreeRows(expanded) ==
  Kept(rows, {r \in ToSet(rows) : r.window = Nil \/ r.session \in expanded})

CursorIn(tree) == Lesser(tree.cursor, Len(TreeRows(tree.expanded)))
CursorRow(c) == TreeRows(choosing[c].expanded)[CursorIn(choosing[c])]
SessionAt(s, list) == CHOOSE i \in DOMAIN list : list[i] = Row(s, Nil)

-----------------------------------------------------------------------------
(* Frames.                                                                 *)

Modal(c) == choosing[c] # Nil \/ choosing_buffer[c] # Nil

View(c) ==
  CASE choosing[c] # Nil ->
         [tree |-> TreeRows(choosing[c].expanded),
          highlight |-> CursorIn(choosing[c])]
    [] choosing[c] = Nil /\ choosing_buffer[c] # Nil ->
         [buffers |-> buffers, highlight |-> choosing_buffer[c]]
    [] OTHER -> SidebarProjection(c)

\* Seeded fault: the clamped offsets are drawn and not stored.
DrawWithoutStoring(who, scroll) ==
  /\ sidebar_scroll' = scroll
  /\ drawn' = [c \in Clients |-> IF clients'[c] = Nil THEN Nil
                                 ELSE IF c \in who THEN View(c)' ELSE drawn[c]]

\* The end of a message, with the offsets it leaves: the clients it asked for
\* are drawn, and their offsets stored as the lists of now allow them.
Draw(who, scroll) ==
  /\ \E left \in {scroll} : sidebar_scroll' =
       [c \in Clients |->
          IF c \notin who \/ clients'[c] = Nil THEN left[c]
          ELSE [sessions |-> Lesser(left[c].sessions, MaxSessionsOffset(c)'),
                agents   |-> Lesser(left[c].agents, MaxAgentsOffset(c)')]]
  /\ drawn' = [c \in Clients |-> IF clients'[c] = Nil THEN Nil
                                 ELSE IF c \in who THEN View(c)' ELSE drawn[c]]

NoScroll == [sessions |-> 0, agents |-> 0]

DrawSession(s) ==
  Draw(SessionClients(s)', sidebar_scroll) /\ elsewhere' = elsewhere \ SessionClients(s)'
DrawAll(scroll) == Draw(Clients, scroll) /\ elsewhere' = {}

\* ensure_sidebar_session_visible, with the lists of the step's end.
Revealing(c) ==
  [sidebar_scroll EXCEPT ![c].sessions =
     LET max == MaxSessionsOffset(c)' IN
     OffsetRevealing(Cardinality({s \in Sessions : s <= SessionOf(c)})',
                     Lesser(@, max), RowsFor(SessionsHeight(c)'), max)]

ListInit ==
  /\ rows = <<>> /\ agents = {}
  /\ clients = [c \in Clients |-> Nil]
  /\ buffers = <<>>
  /\ next = [session |-> 1, window |-> 1, text |-> 1]
  /\ choosing = [c \in Clients |-> Nil]
  /\ choosing_buffer = [c \in Clients |-> Nil]
  /\ sidebar_scroll = [c \in Clients |-> NoScroll]
  /\ drawn = [c \in Clients |-> Nil]
  /\ elsewhere = {}

-----------------------------------------------------------------------------
(* Clients and sessions.                                                   *)

\* new_session: a session of one window.
SpawnSession ==
  /\ next.session <= MaxSessions /\ next.window <= MaxWindows
  /\ rows' = rows \o <<Row(next.session, Nil), Row(next.session, next.window)>>
  /\ next' = [next EXCEPT !.session = @ + 1, !.window = @ + 1]
  /\ UNCHANGED agents

\* on_connect, to a session that is there.
AttachTo(c, s, height) ==
  /\ c \notin Attached
  /\ clients' = [clients EXCEPT ![c] = [session |-> s, height |-> height]]
  /\ UNCHANGED <<modelVars, buffers, next, modalVars>>
  /\ Draw(SessionClients(s)', Revealing(c))
  /\ elsewhere' = elsewhere \ SessionClients(s)'

\* on_connect with a session to be made, and its first window.
AttachNew(c, height) ==
  /\ c \notin Attached
  /\ SpawnSession
  /\ clients' = [clients EXCEPT ![c] = [session |-> next.session, height |-> height]]
  /\ UNCHANGED <<buffers, modalVars>>
  /\ DrawAll(Revealing(c))

\* unregister_client, of every client that leaves.
Unregister(gone) ==
  /\ clients' = [c \in Clients |-> IF c \in gone THEN Nil ELSE clients[c]]
  /\ choosing' = [c \in Clients |-> IF c \in gone THEN Nil ELSE choosing[c]]
  /\ choosing_buffer' = [c \in Clients |-> IF c \in gone THEN Nil ELSE choosing_buffer[c]]
ScrollWithout(gone) ==
  [c \in Clients |-> IF c \in gone THEN NoScroll ELSE sidebar_scroll[c]]

HandleClientGone(c) ==
  /\ c \in Attached
  /\ Unregister({c})
  /\ UNCHANGED <<modelVars, buffers, next>>
  /\ \E s \in {SessionOf(c)} : Draw(SessionClients(s) \ {c}, ScrollWithout({c}))
  /\ elsewhere' = elsewhere \ SessionClients(SessionOf(c))

HandleClientResize(c, height) ==
  /\ clients[c].height # height
  /\ clients' = [clients EXCEPT ![c].height = height]
  /\ UNCHANGED <<modelVars, buffers, next, modalVars>>
  /\ DrawSession(SessionOf(c))

\* switch_client_session to another session.
MoveClient(c, s) ==
  /\ clients' = [clients EXCEPT ![c].session = s]
  /\ DrawAll(Revealing(c))

\* new-session: by the sidebar's button or the command, switching or detached.
CreateSession(c, detached) ==
  /\ c \in Attached
  /\ SpawnSession
  /\ UNCHANGED <<buffers, modalVars>>
  /\ IF detached THEN UNCHANGED clients /\ DrawAll(sidebar_scroll)
     ELSE MoveClient(c, next.session)

\* switch-client, or a click on a row of the sidebar.
SwitchClient(c, s) ==
  /\ c \in Attached /\ SessionOf(c) # s
  /\ UNCHANGED <<modelVars, buffers, next, modalVars>>
  /\ MoveClient(c, s)

SidebarClick(c) ==
  /\ c \in Attached /\ ~ Modal(c)
  /\ \E section \in {"sessions", "agents"} :
       \E i \in DOMAIN drawn[c][section] :
         SwitchClient(c, drawn[c][section][i].session)

SessionEnds(s) ==
  /\ rows' = Kept(rows, {r \in ToSet(rows) : r.session # s})
  /\ agents' = agents \ {r.window : r \in ToSet(WindowRows(s))}
  /\ Unregister(SessionClients(s))

\* Seeded fault: clients of other sessions are not drawn.
CloseSessionQuietly(s) ==
  /\ SessionEnds(s)
  /\ Draw({}, ScrollWithout(SessionClients(s))) /\ UNCHANGED elsewhere

CloseSession(s) ==
  /\ SessionEnds(s)
  /\ DrawAll(ScrollWithout(SessionClients(s)))

\* kill-session; it leaves its clients without a session.
KillSession(s) ==
  /\ UNCHANGED <<buffers, next>>
  /\ CloseSession(s)

\* Ids ascend, so the windows of s end where those of a greater one begin.
NewWindow(s) ==
  /\ next.window <= MaxWindows
  /\ rows' = Kept(rows, {r \in ToSet(rows) : r.session <= s}) \o <<Row(s, next.window)>>
                \o Kept(rows, {r \in ToSet(rows) : r.session > s})
  /\ next' = [next EXCEPT !.window = @ + 1]
  /\ UNCHANGED <<agents, clients, buffers, modalVars>>
  /\ DrawAll(sidebar_scroll)

\* kill-window, or the exit of a window's last pane; the last window takes
\* its session along.
CloseWindow(s, w) ==
  /\ UNCHANGED <<buffers, next>>
  /\ IF Len(WindowRows(s)) = 1 THEN CloseSession(s)
     ELSE /\ rows' = Kept(rows, ToSet(rows) \ {Row(s, w)})
          /\ agents' = agents \ {w}
          /\ UNCHANGED <<clients, modalVars>>
          /\ DrawAll(sidebar_scroll)

\* swap-window and move-window, of neighbours.
SwapWindows(i) ==
  /\ rows[i].session = rows[i + 1].session /\ rows[i].window # Nil
  /\ rows' = [rows EXCEPT ![i] = rows[i + 1], ![i + 1] = rows[i]]
  /\ UNCHANGED <<agents, clients, buffers, next, modalVars>>
  /\ DrawAll(sidebar_scroll)

\* A report, a clear or a scan that changes the row of an agent.
AgentChanges(w) ==
  /\ agents' = IF w \in agents THEN agents \ {w} ELSE agents \cup {w}
  /\ Cardinality(agents') <= MaxAgents
  /\ UNCHANGED <<rows, clients, buffers, next, modalVars>>
  /\ DrawAll(sidebar_scroll)

\* The wheel over a section of the sidebar: three rows up or down.
ScrollSidebar(c, section, up) ==
  LET max == IF section = "sessions" THEN MaxSessionsOffset(c) ELSE MaxAgentsOffset(c)
      now == Lesser(sidebar_scroll[c][section], max)
      then == IF up THEN (IF now > 3 THEN now - 3 ELSE 0) ELSE Lesser(now + 3, max)
  IN /\ ~ Modal(c) /\ then # now
     /\ UNCHANGED <<modelVars, clients, buffers, next, modalVars>>
     /\ Draw(SessionClients(SessionOf(c)), [sidebar_scroll EXCEPT ![c][section] = then])
     /\ elsewhere' = elsewhere \ SessionClients(SessionOf(c))

-----------------------------------------------------------------------------
(* The keys of choose-tree.                                                *)

SetTree(c, tree) ==
  /\ choosing' = [choosing EXCEPT ![c] = tree]
  /\ UNCHANGED <<modelVars, clients, buffers, next, choosing_buffer>>
  /\ DrawSession(SessionOf(c))

OpenChooser(c) ==
  /\ c \in Attached \cap Choosing /\ ~ Modal(c)
  /\ SetTree(c, [expanded |-> {}, cursor |-> SessionAt(SessionOf(c), TreeRows({}))])

Choose(c) == c \in Attached /\ choosing[c] # Nil

\* Up and Down move from where the cursor was left, not from where the list of
\* now allows it to be drawn.
ChooserMove(c, up) ==
  /\ Choose(c)
  /\ LET last == Len(TreeRows(choosing[c].expanded))
         moved == IF up THEN Max({1, choosing[c].cursor - 1}) ELSE choosing[c].cursor + 1
     IN SetTree(c, [choosing[c] EXCEPT !.cursor = Min({moved, last})])

ChooserIndex(c, s) ==
  /\ Choose(c)
  /\ SetTree(c, [choosing[c] EXCEPT !.cursor = SessionAt(s, TreeRows(choosing[c].expanded))])

ChooserExpand(c) ==
  /\ Choose(c) /\ CursorRow(c).window = Nil
  /\ SetTree(c, [choosing[c] EXCEPT !.expanded = @ \cup {CursorRow(c).session}])

ChooserCollapse(c) ==
  /\ Choose(c)
  /\ LET s == CursorRow(c).session
         expanded == choosing[c].expanded \ {s}
     IN SetTree(c, [expanded |-> expanded, cursor |-> SessionAt(s, TreeRows(expanded))])

ChooserCancel(c) == Choose(c) /\ SetTree(c, Nil)

ChooserConfirm(c) ==
  /\ Choose(c)
  /\ choosing' = [choosing EXCEPT ![c] = Nil]
  /\ UNCHANGED <<modelVars, buffers, next, choosing_buffer>>
  /\ IF CursorRow(c).session = SessionOf(c)
     THEN UNCHANGED clients /\ DrawSession(SessionOf(c))
     ELSE MoveClient(c, CursorRow(c).session)

-----------------------------------------------------------------------------
(* Paste buffers.                                                          *)

Truncated(stack) == SubSeq(stack, 1, Min({Len(stack), BufferLimit}))

\* The stack is one for the server; a message draws the clients of the session
\* it came from.
SetBuffers(s, stack) ==
  /\ buffers' = stack
  /\ UNCHANGED <<modelVars, clients, modalVars>>
  /\ Draw(SessionClients(s), sidebar_scroll)
  /\ elsewhere' = (elsewhere \cup {d \in Attached : choosing_buffer[d] # Nil})
                    \ SessionClients(s)

Written == next' = [next EXCEPT !.text = @ + 1]

\* push: a yank, capture-pane, load-buffer, run-shell or set-buffer of a client,
\* or what a program copies, by OSC 52 in the output of its pane.
Push(s) ==
  /\ next.text <= MaxTexts
  /\ Written
  /\ SetBuffers(s, Truncated(<<[name |-> Nil, text |-> next.text]>> \o buffers))

\* push_named: set-buffer -b.
PushNamed(c, name) ==
  LET at == {i \in DOMAIN buffers : buffers[i].name = name} IN
  /\ c \in Attached /\ next.text <= MaxTexts
  /\ Written
  /\ SetBuffers(SessionOf(c),
                IF at # {} THEN [buffers EXCEPT ![Min(at)].text = next.text]
                ELSE Truncated(<<[name |-> name, text |-> next.text]>> \o buffers))

\* delete_named, of any buffer: those without a name are named by number.
DeleteNamed(c, i) ==
  /\ c \in Attached
  /\ UNCHANGED next
  /\ SetBuffers(SessionOf(c), RemoveAt(buffers, i))

\* Any other output of a pane draws the clients of its session.
PaneOutput(s) ==
  /\ UNCHANGED <<modelVars, clients, buffers, next, modalVars>>
  /\ DrawSession(s)

SetChosen(c, at) ==
  /\ choosing_buffer' = [choosing_buffer EXCEPT ![c] = at]
  /\ UNCHANGED <<modelVars, clients, buffers, next, choosing>>
  /\ DrawSession(SessionOf(c))

OpenBufferChooser(c) ==
  /\ c \in Attached \cap Choosing /\ ~ Modal(c) /\ buffers # <<>>
  /\ SetChosen(c, 1)

ChooseBuffer(c) == c \in Attached /\ choosing_buffer[c] # Nil

\* Up, Down and the digits; nothing moves in an empty list.
BufferChooserMove(c, to) ==
  /\ ChooseBuffer(c) /\ buffers # <<>>
  /\ SetChosen(c, Max({1, Min({to, Len(buffers)})}))

BufferChooserCancel(c) == ChooseBuffer(c) /\ SetChosen(c, Nil)

\* The buffer at the selection, if there is one, goes to the active pane.
BufferChooserConfirm(c) == ChooseBuffer(c) /\ SetChosen(c, Nil)

BufferChooserDelete(c) ==
  LET left == IF choosing_buffer[c] \in DOMAIN buffers
              THEN RemoveAt(buffers, choosing_buffer[c]) ELSE buffers
  IN /\ ChooseBuffer(c)
     /\ buffers' = left
     /\ choosing_buffer' =
          [choosing_buffer EXCEPT ![c] = IF left = <<>> THEN Nil ELSE Min({@, Len(left)})]
     /\ UNCHANGED <<modelVars, clients, next, choosing>>
     /\ Draw(SessionClients(SessionOf(c)), sidebar_scroll)
     /\ elsewhere' = (elsewhere \cup {d \in Attached : choosing_buffer[d] # Nil})
                       \ SessionClients(SessionOf(c))

-----------------------------------------------------------------------------
ListNext ==
  \/ \E c \in Clients, height \in Heights :
       \/ AttachNew(c, height)
       \/ \E s \in Sessions : AttachTo(c, s, height)
       \/ c \in Attached /\ HandleClientResize(c, height)
  \/ \E c \in Attached :
       \/ HandleClientGone(c) \/ SidebarClick(c)
       \/ \E detached \in BOOLEAN : CreateSession(c, detached)
       \/ \E section \in {"sessions", "agents"}, up \in BOOLEAN :
            ScrollSidebar(c, section, up)
       \/ OpenChooser(c) \/ ChooserExpand(c) \/ ChooserCollapse(c)
       \/ ChooserConfirm(c) \/ ChooserCancel(c)
       \/ \E up \in BOOLEAN : ChooserMove(c, up)
       \/ \E s \in Sessions : SwitchClient(c, s) \/ ChooserIndex(c, s)
       \/ \E name \in BufferNames : PushNamed(c, name)
       \/ \E i \in DOMAIN buffers : DeleteNamed(c, i)
       \/ OpenBufferChooser(c) \/ BufferChooserCancel(c)
       \/ BufferChooserConfirm(c) \/ BufferChooserDelete(c)
       \/ \E to \in 0..(MaxTexts + 1) : BufferChooserMove(c, to)
  \/ \E s \in Sessions :
       \/ KillSession(s) \/ NewWindow(s)
       \/ Push(s) \/ PaneOutput(s)
       \/ \E i \in DOMAIN WindowRows(s) :
            \/ CloseWindow(s, WindowRows(s)[i].window)
            \/ AgentChanges(WindowRows(s)[i].window)
  \/ \E i \in 1..(Len(rows) - 1) : SwapWindows(i)

ListSpec == ListInit /\ [][ListNext]_listVars

-----------------------------------------------------------------------------
(* What a client has on its screen, and the highlight that Enter acts on,  *)
(* is the state of now: whatever a message changes of what all sessions    *)
(* share, it draws every client that shows it.  The stack of paste buffers *)
(* is the exception: a chooser of buffers is behind only if another        *)
(* session changed the stack since it was drawn, through one of its        *)
(* clients or the output of one of its panes.                              *)
DrawnIsCurrent ==
  \A c \in Attached :
    drawn[c] = View(c) \/ (c \in elsewhere /\ choosing_buffer[c] # Nil)

(* The sidebar's lists move under a user only when he moves them, changes  *)
(* his session, or they become too short for where they are: an offset     *)
(* that was once clamped on the screen does not return when a list grows.  *)
SidebarStaysPut ==
  [][\A c \in Clients :
       /\ <<rows, agents, clients>>' # <<rows, agents, clients>>
       /\ clients[c] # Nil /\ clients'[c] # Nil
       /\ SessionOf(c)' = SessionOf(c)
       => /\ ShownSessions(c)' = Lesser(ShownSessions(c), MaxSessionsOffset(c)')
          /\ ShownAgents(c)' = Lesser(ShownAgents(c), MaxAgentsOffset(c)')]_listVars
=============================================================================
