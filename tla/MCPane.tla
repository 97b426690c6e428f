------------------------------- MODULE MCPane -------------------------------
(***************************************************************************)
(* What the daemon keeps of one pane, for one run of TLC: the agent row,   *)
(* the grid, and copy mode on it.  The three models share no state: a      *)
(* behaviour is one of the model that `part` names, and the others stay as *)
(* they begin.                                                             *)
(***************************************************************************)
EXTENDS AgentLifecycle, Grid, CopyMode

CONSTANTS a, b, legacy   \* two agents with an owner, one without

VARIABLE part

paneVars == <<part, vars, gridVars, copyVars>>

(* A model that does not run begins in one of its initial states only.     *)
PaneInit ==
  /\ part \in {"agents", "grid", "copy"}
  /\ Init /\ (part # "agents" => ~ watched)
  /\ GridInit /\ (part # "grid" => height = 1)
  /\ CopyInit /\ (part # "copy" => lines = 1)

AgentsRun(A) == part = "agents" /\ A /\ UNCHANGED <<part, gridVars, copyVars>>

AgentsNext ==
  \/ \E i \in Identities : AgentsRun(Start(i))
  \/ \E h \in Hooks : AgentsRun(Hook(h[1], h[2]))
  \/ AgentsRun(Exit) \/ AgentsRun(Crash)
  \/ \E m \in inflight : AgentsRun(Lose(m))
  \/ AgentsRun(Deliver)
  \/ AgentsRun(Scan) \/ AgentsRun(Watch) \/ AgentsRun(Unwatch)
  \/ AgentsRun(PaneExited) \/ AgentsRun(RespawnPane)

GridRuns == part = "grid" /\ GridNext /\ UNCHANGED <<part, vars, copyVars>>

CopyRuns == part = "copy" /\ CopyNext /\ UNCHANGED <<part, vars, gridVars>>

PaneNext == AgentsNext \/ GridRuns \/ CopyRuns

PaneSpec ==
  /\ PaneInit /\ [][PaneNext]_paneVars
  /\ WF_vars(part = "agents" /\ Scan)
  /\ WF_vars(part = "agents" /\ Deliver)
=============================================================================
