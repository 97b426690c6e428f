-------------------------- MODULE MCPaneLifecycle --------------------------
(* Small daemons for TLC: the bounds on ids, shells and spawn failures are *)
(* in the configurations.                                                  *)
EXTENDS PaneLifecycle

\* Three at a time of agent rows and of shells the daemon may still hear from.
FewShells == Cardinality(agent_lifecycles') + Cardinality(running' \cup reading' \cup sent') <= 3
=============================================================================
