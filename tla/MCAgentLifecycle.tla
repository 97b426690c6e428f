-------------------------- MODULE MCAgentLifecycle --------------------------
(* Three reporters in one pane, for TLC: two sessions with an owner, each   *)
(* started at most once, and a legacy reporter without one.                 *)
EXTENDS AgentLifecycle

CONSTANTS a, b, legacy
=============================================================================
