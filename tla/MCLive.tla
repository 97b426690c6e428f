------------------------------- MODULE MCLive -------------------------------
(***************************************************************************)
(* The connection of a client, the shells of the daemon, and the lists of  *)
(* the daemon, for one run of TLC.  The three share no state: a behaviour  *)
(* is one of the component that `part` names, and the others stay as they  *)
(* begin.  The bounds are in the configuration.                            *)
(***************************************************************************)
EXTENDS Attach, Choosers

CONSTANTS
  MaxTreeSessions, MaxTreeWindows, MaxPanes, MaxClients, MaxShells,
  SpawnMayFail, HookCommand   \* of PaneLifecycle

VARIABLES
  part,                       \* the component that runs
  sessions, windows, viewers, ids, panes, pane_session, marked_pane,
  agent_lifecycles, remain_on_exit, running, reading, sent, batch

panesVars ==
  <<sessions, windows, viewers, ids, panes, pane_session, marked_pane,
    agent_lifecycles, remain_on_exit, running, reading, sent, batch>>
vars == <<part, attachVars, panesVars, listVars>>

PL == INSTANCE PaneLifecycle WITH
        clients <- viewers, next <- ids,
        MaxSessions <- MaxTreeSessions, MaxWindows <- MaxTreeWindows

(* A component that does not run begins in one of its initial states only. *)
Init ==
  /\ part \in {"attach", "panes", "choose"}
  /\ AttachInit /\ (part # "attach" => view = CHOOSE v \in Views : TRUE)
  /\ PL!LoopInit /\ (part # "panes" => remain_on_exit)
  /\ ListInit

\* Two sessions at a time.  Agents, tall terminals, paste buffers, a third
\* session or a third window with two clients, and an open choose-tree come one
\* at a time, and a third paste buffer with one client.
ListsApart ==
  /\ Cardinality(Sessions') <= 2
  /\ next'.text > 3 => Cardinality(Attached') <= 1
  /\ Cardinality({k \in 1..5 :
       \/ k = 1 /\ agents' # {}
       \/ k = 2 /\ \E c \in Attached' : clients'[c].height > 5
       \/ k = 3 /\ next'.text > 1
       \/ k = 4 /\ \/ next'.session > 3
                   \/ next'.window > 3 /\ Cardinality(Attached') > 1
       \/ k = 5 /\ choosing' # [c \in Clients |-> Nil]}) <= 1

AttachRuns ==
  /\ part = "attach" /\ AttachNext
  /\ UNCHANGED <<part, panesVars, listVars>>

PanesRuns ==
  /\ part = "panes" /\ PL!LoopNext
  /\ UNCHANGED <<part, attachVars, listVars>>

ChoosersRun ==
  /\ part = "choose" /\ ListNext /\ ListsApart
  /\ UNCHANGED <<part, attachVars, panesVars>>

Next == AttachRuns \/ PanesRuns \/ ChoosersRun

(* AttachFairness, and Fairness of PaneLifecycle, of the part that runs.   *)
Connected == part = "attach"
FairSpec ==
  /\ Init /\ [][Next]_vars
  /\ WF_attachVars(Connected /\ (HandleAttach \/ HandleInput \/ HandleResize \/ HandleGone))
  /\ WF_attachVars(Connected /\ TakeVerdict)
  /\ WF_attachVars(Connected /\ (ReaderStops \/ ReaderWrites \/ ReaderPublishes))
  /\ WF_attachVars(Connected /\ MainStops)
  /\ WF_attachVars(Connected /\ ResizerStops)
  /\ WF_attachVars(Connected /\ MainEnds)
  /\ WF_panesVars(part = "panes" /\ PL!Reap)
  /\ WF_panesVars(part = "panes" /\ PL!HandleReaped)

-----------------------------------------------------------------------------
(* The properties of Attach and Choosers are explained there.  The initial *)
(* states satisfy those of the components that do not run.                 *)

\* The exit of a shell is noticed, though its reader may never end.
ExitIsNoticed == PL!ExitIsNoticed
=============================================================================
