------------------------- MODULE PaneLifecycle_proofs -------------------------
(***************************************************************************)
(* Proofs about the life of panes, for any number of sessions, panes,      *)
(* shells and clients: the loop drives the object model by its own         *)
(* operations only, and what the daemon and the loop keep beside the model *)
(* stays in step with it.                                                  *)
(*                                                                         *)
(* The two are proved together.  That a step of the loop is a step of the  *)
(* model needs to know that a pane it has a route for is a pane of the     *)
(* session the route names; and that this stays so needs to know what the  *)
(* steps of the model do to the panes (module ObjectTree_proofs).          *)
(***************************************************************************)
EXTENDS PaneLifecycle, ObjectTree_proofs

\* A mark names a session, and an agent row a live pane, unless the pane is
\* dead and still to be dealt with in this tick.
Transients ==
  /\ marked_pane # NoMark => marked_pane.session \in DOMAIN sessions
  /\ \A p \in agent_lifecycles :
       p \in DOMAIN panes /\ (panes[p].dead => p \in batch)

PaneRecord == [shell : Nat, dead : BOOLEAN]
PanesTyped == \A p \in DOMAIN panes : panes[p] \in PaneRecord

\* A live pane with a shell that has just been started.
Started(x) == x \in PaneRecord /\ ~ x.dead

LEMMA NewShell ==
  /\ Started([shell |-> 1, dead |-> FALSE])
  /\ \A g \in 1 .. MaxShells : Started([shell |-> g, dead |-> FALSE])
BY ShellAssumption DEF Started, PaneRecord

\* The inductive invariant.
LoopInv == Structure /\ RoutesAgree /\ Transients /\ PanesTyped

\* What each step of the loop must show.
Terminals == \A p \in DOMAIN panes \ DOMAIN panes' : p \notin AllPanes'

StepHolds == /\ [Next]_vars
             /\ RoutesAgree' /\ Transients' /\ PanesTyped' /\ Terminals

-----------------------------------------------------------------------------
(* Panes before and after a step                                           *)

\* A routed pane is in one session and below the next pane id.
LEMMA RoutedPane ==
  ASSUME LoopInv, NEW p \in DOMAIN panes
  PROVE  /\ p \in DOMAIN pane_session /\ pane_session[p] \in DOMAIN sessions
         /\ p \in PanesOf(pane_session[p])
         /\ \A s \in DOMAIN sessions : p \in PanesOf(s) => s = pane_session[p]
         /\ p # next.pane
<1>1. /\ p \in DOMAIN pane_session /\ pane_session[p] \in DOMAIN sessions
      /\ p \in PanesOf(pane_session[p])
  BY DEF LoopInv, RoutesAgree
<1>2. OwnersKnown
  BY OwnersFound DEF LoopInv
<1>3. \A s \in DOMAIN sessions : p \in PanesOf(s) => s = pane_session[p]
  BY <1>1, <1>2 DEF OwnersKnown
<1>4. p \in Ids /\ p < next.pane
  BY <1>1, <1>2 DEF OwnersKnown
<1> QED BY <1>1, <1>3, <1>4 DEF Ids

\* The focused pane of a session is one of its panes.
FocusedKnown == \A s \in DOMAIN sessions : Active(s).active_pane \in PanesOf(s)

LEMMA FocusedFound == Structure => FocusedKnown
BY OfSession DEF FocusedKnown, Active, PanesOf

\* After a step of the model, too.
LEMMA ActivePaneAfterFound ==
  ASSUME Structure, [Next]_vars
  PROVE  \A s \in DOMAIN sessions' : ActivePaneAfter(s) \in PanesOf(s)'
<1>1. Structure'
  BY StructureStep
<1>2. FocusedKnown'
  BY <1>1, FocusedFound, PTL
<1> QED BY <1>2 DEF FocusedKnown, Active, ActiveWindow, ActivePaneAfter

-----------------------------------------------------------------------------
(* Steps by what they do to the panes of the model                         *)

\* The model keeps its panes, and nobody loses or gains a terminal.
LEMMA KeptHolds ==
  ASSUME LoopInv, [Next]_vars, PanesKept,
         UNCHANGED <<panes, pane_session>>, Transients'
  PROVE  StepHolds
<1>1. RoutesAgree'
  BY DEF LoopInv, RoutesAgree, PanesKept
<1>2. Terminals /\ PanesTyped'
  BY DEF Terminals, LoopInv, PanesTyped
<1> QED BY <1>1, <1>2 DEF StepHolds

\* Nothing that the transients are about changes but, at most, the rows.
LEMMA SameTransients ==
  ASSUME LoopInv, DOMAIN sessions' = DOMAIN sessions,
         UNCHANGED <<panes, batch, agent_lifecycles>>,
         marked_pane' \in {marked_pane, NoMark}
  PROVE  Transients'
BY DEF LoopInv, Transients

\* A pane opens, with a shell or without.
LEMMA OpenedHolds ==
  ASSUME LoopInv, [Next]_vars, NEW s, PaneOpened(s), SpawnPane(s, next.pane)
  PROVE  StepHolds
<1>1. PICK p : p = next.pane
  OBVIOUS
<1>2. /\ s \in DOMAIN sessions' /\ p \in PanesOf(s)'
      /\ \A t \in DOMAIN sessions : t \in DOMAIN sessions' /\ PanesOf(t) \subseteq PanesOf(t)'
  BY <1>1 DEF PaneOpened
<1>3. p \notin DOMAIN panes
  BY <1>1, RoutedPane
<1>4. \/ UNCHANGED <<panes, pane_session>>
      \/ /\ panes' = Put(panes, p, [shell |-> 1, dead |-> FALSE])
         /\ pane_session' = Put(pane_session, p, s)
  BY <1>1 DEF SpawnPane
<1>5. /\ DOMAIN panes' = DOMAIN pane_session'
      /\ \A q \in DOMAIN panes : q \in DOMAIN panes' /\ panes'[q] = panes[q]
      /\ \A q \in DOMAIN panes' :
           \/ q \in DOMAIN pane_session /\ pane_session'[q] = pane_session[q]
           \/ q = p /\ pane_session'[q] = s
  BY <1>3, <1>4 DEF Put, LoopInv, RoutesAgree
<1>6. RoutesAgree'
  BY <1>2, <1>5 DEF LoopInv, RoutesAgree
<1>7. Transients'
  BY <1>2, <1>5 DEF LoopInv, Transients, SpawnPane
<1>8. Terminals
  BY <1>5 DEF Terminals
<1>9. PanesTyped'
  <2>1. \A q \in DOMAIN panes' : q \in DOMAIN panes \/ Started(panes'[q])
    BY <1>3, <1>4, NewShell DEF Put
  <2> QED BY <1>5, <2>1 DEF LoopInv, PanesTyped, Started
<1> QED BY <1>6, <1>7, <1>8, <1>9 DEF StepHolds

\* The panes in P close: their terminals, routes and rows go with them, the
\* mark goes with the session, and the hook may give dead panes new shells.
LEMMA ClosedHolds ==
  ASSUME LoopInv, [Next]_vars, NEW s, NEW P, PanesClosed(s, P), NEW x,
         DOMAIN panes' = DOMAIN panes \ P, DOMAIN pane_session' = DOMAIN panes \ P,
         \A q \in DOMAIN panes \ P : panes'[q] = panes[q] \/ Started(panes'[q]),
         \A q \in DOMAIN panes \ P :
           \/ pane_session'[q] = pane_session[q]
           \/ \E t \in DOMAIN sessions' : pane_session'[q] = t /\ q \in PanesOf(t)',
         agent_lifecycles' = agent_lifecycles \ P,
         marked_pane' = MarkAfter(s, x),
         \A q \in batch : q \in batch' \/ q \in P
  PROVE  StepHolds
<1>1. /\ s \in DOMAIN sessions
      /\ \A t \in DOMAIN sessions : t # s => t \in DOMAIN sessions' /\ PanesOf(t)' = PanesOf(t)
      /\ \/ s \in DOMAIN sessions' /\ PanesOf(s)' = PanesOf(s) \ P
         \/ P = PanesOf(s)
  BY DEF PanesClosed
<1>2. RoutesAgree'
  <2>1. ASSUME NEW q \in DOMAIN panes \ P
        PROVE  \E t \in DOMAIN sessions' : pane_session'[q] = t /\ q \in PanesOf(t)'
    <3>1. PICK t \in DOMAIN sessions : t = pane_session[q] /\ q \in PanesOf(t)
      BY RoutedPane
    <3>2. t \in DOMAIN sessions' /\ q \in PanesOf(t)'
      BY <1>1, <3>1
    <3> QED BY <3>1, <3>2
  <2> QED BY <2>1 DEF RoutesAgree
<1>3. Transients'
  <2>1. marked_pane' # NoMark => marked_pane'.session \in DOMAIN sessions'
    BY <1>1 DEF LoopInv, Transients, MarkAfter
  <2>2. \A q \in agent_lifecycles' :
          q \in DOMAIN panes' /\ (panes'[q].dead => q \in batch')
    BY DEF LoopInv, Transients, Started
  <2> QED BY <2>1, <2>2 DEF Transients
<1>4. Terminals
  <2> SUFFICES ASSUME NEW q \in P PROVE q \notin AllPanes'
    BY DEF Terminals
  <2>1. OwnersKnown /\ OwnersKnown'
    <3>1. Structure'
      BY StructureStep DEF LoopInv
    <3>2. OwnersKnown'
      BY <3>1, OwnersFound, PTL
    <3> QED BY <3>2, OwnersFound DEF LoopInv
  <2>2. AllPanes' = UNION {PanesOf(t)' : t \in DOMAIN sessions'}
    BY <2>1 DEF OwnersKnown
  <2>3. \A t \in DOMAIN sessions : t # s => q \notin PanesOf(t)
    BY <1>1, <2>1 DEF OwnersKnown, PanesClosed
  <2> QED BY <2>2, <2>3 DEF PanesClosed
<1>5. PanesTyped'
  BY DEF LoopInv, PanesTyped, Started
<1> QED BY <1>2, <1>3, <1>4, <1>5 DEF StepHolds

\* The model stays as it is; rows go, and dead panes may get new shells.
LEMMA RevivedHolds ==
  ASSUME LoopInv, UNCHANGED tree,
         DOMAIN panes' = DOMAIN panes, DOMAIN pane_session' = DOMAIN panes,
         \A q \in DOMAIN panes : panes'[q] \in PaneRecord,
         \A q \in DOMAIN panes :
           \/ pane_session'[q] = pane_session[q]
           \/ \E t \in DOMAIN sessions' : pane_session'[q] = t /\ q \in PanesOf(t)',
         UNCHANGED marked_pane,
         \A q \in agent_lifecycles' :
           q \in DOMAIN panes /\ (panes'[q].dead => q \in batch')
  PROVE  StepHolds
<1>1. UNCHANGED vars
  BY DEF tree
<1>2. PanesKept
  BY <1>1, UnchangedPanes DEF vars
<1>3. RoutesAgree'
  <2>1. ASSUME NEW q \in DOMAIN panes
        PROVE  \E t \in DOMAIN sessions' : pane_session'[q] = t /\ q \in PanesOf(t)'
    <3>1. PICK t \in DOMAIN sessions : t = pane_session[q] /\ q \in PanesOf(t)
      BY RoutedPane
    <3>2. t \in DOMAIN sessions' /\ q \in PanesOf(t)'
      BY <1>2, <3>1 DEF PanesKept
    <3> QED BY <3>1, <3>2
  <2> QED BY <2>1 DEF RoutesAgree
<1>4. Transients'
  BY <1>2 DEF LoopInv, Transients, PanesKept
<1>5. Terminals /\ PanesTyped'
  BY DEF Terminals, PanesTyped
<1> QED BY <1>1, <1>3, <1>4, <1>5 DEF StepHolds

\* respawn-pane, by hand or by the hook, starts at most the focused pane anew.
LEMMA HookEffect ==
  ASSUME Structure, [Next]_vars, NEW s, NEW live, NEW route,
         DOMAIN route = DOMAIN live,
         \/ FireHook(s, live, route)
         \/ s \in DOMAIN sessions' /\ RespawnActive(s, live, route)
  PROVE  /\ DOMAIN panes' = DOMAIN live /\ DOMAIN pane_session' = DOMAIN live
         /\ \A q \in DOMAIN live : panes'[q] = live[q] \/ Started(panes'[q])
         /\ \A q \in DOMAIN live :
              \/ pane_session'[q] = route[q]
              \/ \E t \in DOMAIN sessions' : pane_session'[q] = t /\ q \in PanesOf(t)'
<1>1. CASE panes' = live /\ pane_session' = route
  BY <1>1
<1>2. CASE s \in DOMAIN sessions' /\ RespawnActive(s, live, route)
  <2>1. PICK p : p = ActivePaneAfter(s)
    OBVIOUS
  <2>2. p \in PanesOf(s)'
    BY <1>2, <2>1, ActivePaneAfterFound
  <2>3. \/ panes' = live /\ pane_session' = route
        \/ \E g \in 1 .. MaxShells :
                  /\ p \in DOMAIN live
                  /\ panes' = [live EXCEPT ![p] = [shell |-> g, dead |-> FALSE]]
                  /\ pane_session' = Put(route, p, s)
    BY <1>2, <2>1 DEF RespawnActive, UnusedShells
  <2>4. ASSUME NEW g \in 1 .. MaxShells, p \in DOMAIN live,
               panes' = [live EXCEPT ![p] = [shell |-> g, dead |-> FALSE]],
               pane_session' = Put(route, p, s)
        PROVE  /\ DOMAIN panes' = DOMAIN live /\ DOMAIN pane_session' = DOMAIN live
               /\ \A q \in DOMAIN live : panes'[q] = live[q] \/ Started(panes'[q])
               /\ \A q \in DOMAIN live :
                    pane_session'[q] = route[q] \/ (q = p /\ pane_session'[q] = s)
    <3>1. /\ DOMAIN panes' = DOMAIN live
          /\ \A q \in DOMAIN live :
               panes'[q] = IF q = p THEN [shell |-> g, dead |-> FALSE] ELSE live[q]
      BY <2>4
    <3>2. \A q \in DOMAIN live : panes'[q] = live[q] \/ Started(panes'[q])
      BY <3>1, NewShell
    <3>3. /\ DOMAIN pane_session' = DOMAIN live
          /\ \A q \in DOMAIN live : pane_session'[q] = IF q = p THEN s ELSE route[q]
      BY <2>4 DEF Put
    <3> QED BY <3>1, <3>2, <3>3
  <2> QED BY <1>1, <1>2, <2>2, <2>3, <2>4
<1> QED BY <1>1, <1>2 DEF FireHook

-----------------------------------------------------------------------------
(* The steps of the loop                                                   *)

\* New sessions, windows and panes.
LEMMA SpawnsHold ==
  ASSUME LoopInv,
         \/ SpawnSession
         \/ \E s \in DOMAIN sessions : DoNewWindow(s) \/ DoSplit(s)
  PROVE  StepHolds
<1>0. Structure
  BY DEF LoopInv
<1>1. CASE SpawnSession
  <2>1. NewSession /\ [Next]_vars
    BY <1>1 DEF SpawnSession, Next
  <2>2. PICK s \in {next.session} : PaneOpened(s)
    BY <1>0, <2>1, NewSessionPanes
  <2>3. SpawnPane(s, next.pane)
    BY <1>1 DEF SpawnSession, SpawnPane
  <2> QED BY <2>1, <2>2, <2>3, OpenedHolds
<1>2. ASSUME NEW s \in DOMAIN sessions, DoNewWindow(s) \/ DoSplit(s) PROVE StepHolds
  <2>1. (NewWindow(s) \/ SplitActive(s)) /\ [Next]_vars
    BY <1>2 DEF DoNewWindow, DoSplit, Next
  <2>2. PaneOpened(s)
    BY <1>0, <2>1, NewWindowPanes, SplitActivePanes
  <2>3. SpawnPane(s, next.pane)
    BY <1>2 DEF DoNewWindow, DoSplit
  <2> QED BY <2>1, <2>2, <2>3, OpenedHolds
<1> QED BY <1>1, <1>2

\* A terminal of a closing pane that is dropped with its route.
LEMMA WithoutPanes ==
  ASSUME LoopInv, NEW P
  PROVE  /\ DOMAIN Without(panes, P) = DOMAIN panes \ P
         /\ DOMAIN Without(pane_session, P) = DOMAIN panes \ P
         /\ \A q \in DOMAIN panes \ P : /\ Without(panes, P)[q] = panes[q]
                                        /\ Without(pane_session, P)[q] = pane_session[q]
BY DEF LoopInv, RoutesAgree, Without, Restrict

\* Kills.
LEMMA KillsHold ==
  ASSUME LoopInv, NEW s \in DOMAIN sessions,
         \/ CloseSession(s) \/ CloseActiveWindow(s)
         \/ \E p \in PanesOf(s) : KillPaneTarget(s, p)
  PROVE  StepHolds
<1>0. Structure
  BY DEF LoopInv
<1>1. ASSUME NEW P, PanesClosed(s, P), NEW x, [Next]_vars,
             panes' = Without(panes, P), pane_session' = Without(pane_session, P),
             agent_lifecycles' = agent_lifecycles \ P,
             marked_pane' = MarkAfter(s, x), UNCHANGED batch
      PROVE  StepHolds
  BY <1>1, WithoutPanes, ClosedHolds
<1>2. CASE CloseSession(s)
  <2>1. KillSession(s) /\ [Next]_vars
    BY <1>2 DEF CloseSession, Next
  <2>2. PanesClosed(s, PanesOf(s))
    BY <1>0, <2>1, DropSessionPanes DEF KillSession
  <2> QED BY <1>1, <1>2, <2>1, <2>2 DEF CloseSession
<1>3. CASE CloseActiveWindow(s)
  <2>1. KillWindow(s) /\ [Next]_vars
    BY <1>3 DEF CloseActiveWindow, Next
  <2>2. PanesClosed(s, Active(s).panes)
    BY <1>0, <2>1, KillWindowPanes
  <2> QED BY <1>1, <1>3, <2>1, <2>2 DEF CloseActiveWindow
<1>4. ASSUME NEW p \in PanesOf(s), KillPaneTarget(s, p) PROVE StepHolds
  <2>1. KillPane(s, p) /\ [Next]_vars
    BY <1>4 DEF KillPaneTarget, ClosePane, Next
  <2>2. PanesClosed(s, {p})
    BY <1>0, <2>1, KillPanePanes
  <2> QED BY <1>1, <1>4, <2>1, <2>2 DEF KillPaneTarget, ClosePane
<1> QED BY <1>2, <1>3, <1>4

\* An exit that is reported, by a reader or by the tick that reaped the pane.
LEMMA ExitsHold ==
  ASSUME LoopInv, NEW p, ExitReported(p), \A q \in batch : q \in batch' \/ q = p
  PROVE  StepHolds
<1>1. CASE p \notin DOMAIN pane_session
  <2>1. UNCHANGED <<tree, panes, pane_session, marked_pane, agent_lifecycles>>
    BY <1>1 DEF ExitReported
  <2>2. DOMAIN pane_session = DOMAIN panes /\ p \notin agent_lifecycles
    BY <1>1 DEF LoopInv, RoutesAgree, Transients
  <2>3. \A q \in agent_lifecycles :
          q \in DOMAIN panes /\ (panes[q].dead => q \in batch')
    BY <2>2 DEF LoopInv, Transients
  <2> QED BY <2>1, <2>2, <2>3, RevivedHolds DEF LoopInv, PanesTyped
<1>2. CASE p \in DOMAIN pane_session
  <2>0. HandlePaneExited(p) /\ p \in DOMAIN panes /\ DOMAIN pane_session = DOMAIN panes
    BY <1>2 DEF ExitReported, LoopInv, RoutesAgree
  <2>1. PICK s \in DOMAIN sessions : s = pane_session[p] /\ p \in PanesOf(s)
    BY <2>0, RoutedPane
  <2>2. CASE remain_on_exit
    <3>1. PICK live : live = [panes EXCEPT ![p].dead = TRUE]
      OBVIOUS
    <3>2. /\ agent_lifecycles' = agent_lifecycles \ {p}
          /\ UNCHANGED <<tree, marked_pane>> /\ FireHook(s, live, pane_session)
      BY <2>0, <2>1, <2>2, <3>1 DEF HandlePaneExited
    <3>3. /\ DOMAIN live = DOMAIN panes
          /\ \A q \in DOMAIN panes : /\ q # p => live[q] = panes[q]
                                    /\ live[q] \in PaneRecord
      BY <3>1 DEF LoopInv, PanesTyped, PaneRecord
    <3>4. [Next]_vars
      BY <3>2 DEF tree
    <3>5. /\ DOMAIN panes' = DOMAIN panes /\ DOMAIN pane_session' = DOMAIN panes
          /\ \A q \in DOMAIN panes : panes'[q] = live[q] \/ Started(panes'[q])
          /\ \A q \in DOMAIN panes :
               \/ pane_session'[q] = pane_session[q]
               \/ \E t \in DOMAIN sessions' : pane_session'[q] = t /\ q \in PanesOf(t)'
      BY <2>0, <3>2, <3>3, <3>4, HookEffect DEF LoopInv
    <3>6. \A q \in agent_lifecycles' :
            q \in DOMAIN panes /\ (panes'[q].dead => q \in batch')
      BY <3>2, <3>3, <3>5 DEF LoopInv, Transients, Started
    <3>7. \A q \in DOMAIN panes : panes'[q] \in PaneRecord
      BY <3>3, <3>5 DEF Started
    <3> QED BY <3>2, <3>5, <3>6, <3>7, RevivedHolds
  <2>3. CASE ~ remain_on_exit
    <3>1. PICK live, route : /\ live = Without(panes, {p})
                             /\ route = Without(pane_session, {p})
      OBVIOUS
    <3>2. ClosePane(s, p) /\ FireHook(s, live, route)
      BY <2>0, <2>1, <2>3, <3>1 DEF HandlePaneExited
    <3>3. KillPane(s, p) /\ [Next]_vars
      BY <2>1, <3>2 DEF ClosePane, Next
    <3>4. PanesClosed(s, {p})
      BY <2>1, <3>3, KillPanePanes DEF LoopInv
    <3>5. /\ DOMAIN live = DOMAIN panes \ {p} /\ DOMAIN route = DOMAIN panes \ {p}
          /\ \A q \in DOMAIN panes \ {p} :
               live[q] = panes[q] /\ route[q] = pane_session[q]
      BY <3>1, WithoutPanes
    <3>6. /\ DOMAIN panes' = DOMAIN live /\ DOMAIN pane_session' = DOMAIN live
          /\ \A q \in DOMAIN live : panes'[q] = live[q] \/ Started(panes'[q])
          /\ \A q \in DOMAIN live :
               \/ pane_session'[q] = route[q]
               \/ \E t \in DOMAIN sessions' : pane_session'[q] = t /\ q \in PanesOf(t)'
      BY <3>2, <3>3, <3>5, HookEffect DEF LoopInv
    <3>7. agent_lifecycles' = agent_lifecycles \ {p} /\ marked_pane' = MarkAfter(s, p)
      BY <3>2 DEF ClosePane
    <3> QED BY <3>3, <3>4, <3>5, <3>6, <3>7, ClosedHolds
  <2> QED BY <2>2, <2>3
<1> QED BY <1>1, <1>2

\* The mark follows a join, and the focus, the clients and the options change.
LEMMA OtherTreeStepsHold ==
  ASSUME LoopInv,
         \/ \E s \in DOMAIN sessions :
              \/ DoJoinPane(s) \/ DoNextWindow(s) \/ ClientConnected(s)
              \/ \E p \in PanesOf(s) : DoFocusPane(s, p)
         \/ \E c \in DOMAIN clients : ClientGone(c)
  PROVE  StepHolds
<1>0. Structure
  BY DEF LoopInv
<1>1. ASSUME [Next]_vars, PanesKept, marked_pane' \in {marked_pane, NoMark},
             UNCHANGED <<panes, pane_session, batch, agent_lifecycles>>
      PROVE  StepHolds
  BY <1>1, SameTransients, KeptHolds DEF PanesKept
<1>2. ASSUME NEW s \in DOMAIN sessions, DoJoinPane(s) PROVE StepHolds
  <2>1. /\ UNCHANGED <<panes, pane_session, batch, agent_lifecycles>>
        /\ marked_pane' \in {marked_pane, NoMark}
    BY <1>2 DEF DoJoinPane
  <2>2. ASSUME NEW p \in PanesOf(s), JoinSpecificPane(s, p) PROVE StepHolds
    <3>1. [Next]_vars
      BY <2>2 DEF Next
    <3>2. PanesKept
      BY <1>0, <2>2, OfSession, MovePaneToActivePanes DEF JoinSpecificPane
    <3> QED BY <1>1, <2>1, <3>1, <3>2
  <2>3. ASSUME NEW w \in WindowsOf(s), JoinPane(s, w) PROVE StepHolds
    <3>1. [Next]_vars
      BY <2>3 DEF Next
    <3>2. PanesKept
      BY <1>0, <2>3, OfSession, MovePaneToActivePanes DEF JoinPane
    <3> QED BY <1>1, <2>1, <3>1, <3>2
  <2>4. \A i \in DOMAIN sessions[s].windows : sessions[s].windows[i] \in WindowsOf(s)
    BY <1>0, OfSession, ToSetMember DEF WindowsOf
  <2> QED BY <1>2, <2>2, <2>3, <2>4 DEF DoJoinPane
<1>3. ASSUME NEW s \in DOMAIN sessions,
             \/ DoNextWindow(s) \/ ClientConnected(s)
             \/ \E p \in PanesOf(s) : DoFocusPane(s, p)
      PROVE  StepHolds
  <2>1. UNCHANGED <<panes, pane_session, batch, agent_lifecycles, marked_pane>>
    BY <1>3 DEF DoNextWindow, ClientConnected, DoFocusPane, OnlyTree
  <2>2. \/ FocusNextWindow(s) \/ AttachClient(s) \/ \E p \in PanesOf(s) : FocusPane(s, p)
    BY <1>3 DEF DoNextWindow, ClientConnected, DoFocusPane, OnlyTree
  <2>3. [Next]_vars
    BY <2>2 DEF Next
  <2>4. PanesKept
    BY <1>0, <2>2, SessionMethodsPanes, ClientsPanes, ActiveWindowMethodsPanes
  <2> QED BY <1>1, <2>1, <2>3, <2>4
<1>4. ASSUME NEW c \in DOMAIN clients, ClientGone(c) PROVE StepHolds
  <2>1. UNCHANGED <<panes, pane_session, batch, agent_lifecycles, marked_pane>>
    BY <1>4 DEF ClientGone, OnlyTree
  <2>2. DetachClient(c) /\ [Next]_vars
    BY <1>4 DEF ClientGone, OnlyTree, Next
  <2>3. PanesKept
    BY <1>0, <2>2, ClientsPanes
  <2> QED BY <1>1, <2>1, <2>2, <2>3
<1> QED BY <1>2, <1>3, <1>4

\* Marking, agent reports, options, and what shells and readers do.
LEMMA OtherStepsHold ==
  ASSUME LoopInv,
         \/ \E s \in DOMAIN sessions : ToggleMarkedPane(s)
         \/ \E p \in DOMAIN panes : ReportAgentState(p)
         \/ SetRemainOnExit \/ Shells
  PROVE  StepHolds
<1>1. UNCHANGED <<tree, panes, pane_session, batch>>
  BY DEF ToggleMarkedPane, ReportAgentState, SetRemainOnExit, Shells, ShellExits, ReaderEnds
<1>2. PanesKept /\ [Next]_vars
  BY <1>1, UnchangedPanes DEF tree, vars
<1>3. Transients'
  BY <1>1 DEF LoopInv, Transients, ToggleMarkedPane, ReportAgentState, SetRemainOnExit,
              Shells, ShellExits, ReaderEnds, tree, vars
<1> QED BY <1>1, <1>2, <1>3, KeptHolds

\* respawn-pane by hand.
LEMMA RespawnHolds ==
  ASSUME LoopInv, NEW s \in DOMAIN sessions, RespawnPane(s)
  PROVE  StepHolds
<1>1. /\ UNCHANGED <<tree, marked_pane, agent_lifecycles, batch>>
      /\ RespawnActive(s, panes, pane_session)
  BY DEF RespawnPane
<1>2. [Next]_vars /\ s \in DOMAIN sessions'
  BY <1>1 DEF tree, vars
<1>3. PICK live, route : live = panes /\ route = pane_session
  OBVIOUS
<1>4. DOMAIN route = DOMAIN live /\ RespawnActive(s, live, route)
  BY <1>1, <1>3 DEF LoopInv, RoutesAgree
<1>5. /\ DOMAIN panes' = DOMAIN live /\ DOMAIN pane_session' = DOMAIN live
      /\ \A q \in DOMAIN live : panes'[q] = live[q] \/ Started(panes'[q])
      /\ \A q \in DOMAIN live :
           \/ pane_session'[q] = route[q]
           \/ \E t \in DOMAIN sessions' : pane_session'[q] = t /\ q \in PanesOf(t)'
  BY <1>2, <1>4, HookEffect DEF LoopInv
<1>6. \A q \in agent_lifecycles' :
        q \in DOMAIN panes /\ (panes'[q].dead => q \in batch')
  BY <1>1, <1>3, <1>5 DEF LoopInv, Transients, Started
<1>7. \A q \in DOMAIN panes : panes'[q] \in PaneRecord
  BY <1>3, <1>5 DEF LoopInv, PanesTyped, Started
<1> QED BY <1>1, <1>3, <1>5, <1>6, <1>7, RevivedHolds

\* The tick marks the exited panes dead, and keeps them to be dealt with.
LEMMA ReapHolds ==
  ASSUME LoopInv, Reap
  PROVE  StepHolds
<1>1. /\ UNCHANGED <<tree, pane_session, marked_pane, agent_lifecycles>>
      /\ batch = {} /\ batch' = Exited
      /\ panes' = [q \in DOMAIN panes |-> [panes[q] EXCEPT !.dead = @ \/ q \in Exited]]
  BY DEF Reap, Idle
<1>2. ASSUME NEW q \in DOMAIN panes
      PROVE  /\ panes'[q] \in PaneRecord
             /\ panes'[q].dead => panes[q].dead \/ q \in Exited
  <2>1. PICK x \in PaneRecord : x = panes[q]
    BY DEF LoopInv, PanesTyped
  <2>2. PICK d \in BOOLEAN : d = (x.dead \/ q \in Exited)
    BY <2>1 DEF PaneRecord
  <2>3. panes'[q] = [x EXCEPT !.dead = d]
    BY <1>1, <2>1, <2>2
  <2>4. panes'[q] \in PaneRecord /\ panes'[q].dead = d
    BY <2>1, <2>2, <2>3 DEF PaneRecord
  <2> QED BY <2>1, <2>2, <2>4
<1>3. \A q \in agent_lifecycles' :
        q \in DOMAIN panes /\ (panes'[q].dead => q \in batch')
  BY <1>1, <1>2 DEF LoopInv, Transients
<1>4. DOMAIN pane_session = DOMAIN panes /\ DOMAIN panes' = DOMAIN panes
  BY <1>1 DEF LoopInv, RoutesAgree
<1> QED BY <1>1, <1>2, <1>3, <1>4, RevivedHolds

\* Every step of the loop, of a shell and of a reader.
LEMMA LoopStep ==
  ASSUME LoopInv, [LoopNext]_loopVars
  PROVE  StepHolds
<1>1. CASE UNCHANGED loopVars
  <2>1. UNCHANGED <<tree, panes, pane_session, marked_pane, agent_lifecycles, batch>>
    BY <1>1 DEF loopVars
  <2>2. PanesKept /\ [Next]_vars
    BY <2>1, UnchangedPanes DEF tree, vars
  <2>3. Transients'
    BY <2>1 DEF LoopInv, Transients, tree, vars
  <2> QED BY <2>1, <2>2, <2>3, KeptHolds
<1>2. CASE Exits
  <2>1. ASSUME NEW m \in sent, PaneExited(m) PROVE StepHolds
    BY <2>1, ExitsHold DEF PaneExited
  <2>2. CASE HandleReaped
    BY <2>2, ExitsHold DEF HandleReaped
  <2> QED BY <1>2, <2>1, <2>2, ReapHolds DEF Exits
<1>3. ASSUME NEW s \in DOMAIN sessions, RespawnPane(s) PROVE StepHolds
  BY <1>3, RespawnHolds
<1> QED BY <1>1, <1>2, <1>3, SpawnsHold, KillsHold, OtherTreeStepsHold, OtherStepsHold
        DEF LoopNext

-----------------------------------------------------------------------------
(* The theorems                                                            *)

\* What the loop keeps beside the model stays in step with it in every
\* reachable state.
THEOREM LoopInvariant == LoopSpec => []LoopInv
<1>1. LoopInit => LoopInv
  <2> SUFFICES ASSUME LoopInit PROVE LoopInv
    OBVIOUS
  <2>1. Structure
    BY DEF LoopInit, Init, Structure, GoodWindows, GoodSessions, GoodClients, Ids, None
  <2>2. RoutesAgree /\ Transients /\ PanesTyped
    BY DEF LoopInit, RoutesAgree, Transients, PanesTyped
  <2> QED BY <2>1, <2>2 DEF LoopInv
<1>2. ASSUME LoopInv, [LoopNext]_loopVars PROVE LoopInv'
  BY <1>2, LoopStep, StructureStep DEF LoopInv, StepHolds
<1> QED BY <1>1, <1>2, PTL DEF LoopSpec

\* The loop implements the object model: every one of its steps calls a method
\* of the model on objects that exist, or leaves the model alone.  So all that
\* is proved of the model holds in the daemon.
THEOREM LoopImplementsModel == LoopSpec => Spec
<1>1. LoopInit => Init
  BY DEF LoopInit
<1>2. ASSUME LoopInv, [LoopNext]_loopVars PROVE [Next]_vars
  BY <1>2, LoopStep DEF StepHolds
<1> QED BY <1>1, <1>2, LoopInvariant, PTL DEF LoopSpec, Spec

\* The daemon's terminals and the loop's routes agree with the model.
THEOREM RoutesAlwaysAgree == LoopSpec => []RoutesAgree
BY LoopInvariant, PTL DEF LoopInv

\* The mark and the agent rows go with what they are about.
THEOREM TransientsAlwaysFollow == LoopSpec => []TransientsFollowModel
<1>1. LoopInv => TransientsFollowModel
  BY DEF LoopInv, Transients, TransientsFollowModel, Idle
<1> QED BY <1>1, LoopInvariant, PTL

\* A terminal is only given up together with its pane.
THEOREM TerminalsAlwaysGoWithPanes == LoopSpec => TerminalsGoWithPanes
<1>1. ASSUME LoopInv, [LoopNext]_loopVars
      PROVE  [\A p \in DOMAIN panes \ DOMAIN panes' : p \notin AllPanes']_loopVars
  BY <1>1, LoopStep DEF StepHolds, Terminals
<1> QED BY <1>1, LoopInvariant, PTL DEF LoopSpec, TerminalsGoWithPanes
=============================================================================
