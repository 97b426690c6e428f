------------------------------ MODULE MCParts ------------------------------
(***************************************************************************)
(* Three components that share no state, for one run of TLC: a behaviour   *)
(* is one of the component that `part` names, and the others stay as they  *)
(* begin.  The bounds are in the configuration.                            *)
(***************************************************************************)
EXTENDS Overlays, ServerLife, Installers

CONSTANTS shell, editor   \* panes

(* Every command alone; and chains whose commands meet: what one moves the *)
(* other one moves too, or finds moved.                                    *)
LinesRun ==
  {<<c>> : c \in Commands}
    \cup {<<"clock", "copy">>, <<"focus", "copy">>, <<"copy", "focus">>}

HooksRun == {<<"copy">>, <<"config">>, <<"menu">>}

VARIABLE part \* the component that runs

partsVars == <<part, vars, serverVars, installVars>>

(* A component that does not run begins in one of its initial states only. *)
PartsInit ==
  /\ part \in {"keys", "server", "install"}
  /\ Init /\ (part # "keys" => focus = shell)
  /\ ServerInit /\ (part # "server" => config)
  /\ InstallInit
  /\ part # "install" =>
       <<agent, release, readable, feature>> = <<"pi", "new", TRUE, "unset">>

\* Two overlays at a time: one is open when the next one opens.
KeysRun(A) ==
  /\ part = "keys" /\ A /\ Cardinality(ui'.overlays) <= 2
  /\ UNCHANGED <<part, serverVars, installVars>>

KeysNext ==
  \/ KeysRun(TypeKeys) \/ KeysRun(MenuKey)
  \/ KeysRun(ButtonOnModal) \/ KeysRun(PressOnMenu) \/ KeysRun(RightPress) \/ KeysRun(Release)
  \/ \E p \in Panes :
       \/ KeysRun(Wheel(p)) \/ KeysRun(PressRow(p))
       \/ \E fresh \in BOOLEAN : KeysRun(PressPane(p, fresh))
  \/ \E fresh \in BOOLEAN : KeysRun(Drag(fresh))
  \/ KeysRun(HandleReaction)
  \/ KeysRun(OtherMovesFocus) \/ KeysRun(OtherSetsConfig)
  \/ KeysRun(FireHook) \/ KeysRun(ExpireRepeat)
  \/ \E p \in FullScreen : KeysRun(PaneOutput(p))

ServerRuns ==
  /\ part = "server" /\ ServerNext
  /\ UNCHANGED <<part, vars, installVars>>

InstallRuns ==
  /\ part = "install" /\ InstallNext
  /\ UNCHANGED <<part, vars, serverVars>>

PartsNext == KeysNext \/ ServerRuns \/ InstallRuns

PartsSpec == PartsInit /\ [][PartsNext]_partsVars

=============================================================================
