---------------------------- MODULE MCObjectTree ----------------------------
(* Small daemons for TLC: the configurations bound the ids of each kind    *)
(* that are ever allocated.                                                *)
EXTENDS ObjectTree
=============================================================================
