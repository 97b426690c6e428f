------------------------------ MODULE Overlays ------------------------------
(***************************************************************************)
(* One client's keys and overlays: the key machine (lumux-core             *)
(* keymap/machine.rs) that decides who takes the next key, the daemon's    *)
(* maps that say what is open for the client (daemon.rs), and the event    *)
(* loop's input path between them (eventloop.rs).                          *)
(*                                                                         *)
(* The loop is single-threaded, but one input message is many steps: its   *)
(* mouse reports are handled first, then keys an open menu owns, then all  *)
(* the remaining keys are DECODED, and only then are the resulting         *)
(* reactions carried out, against whatever the earlier ones left.  Only    *)
(* then is the client rendered, and the next message looked at.            *)
(*                                                                         *)
(* Text, cursors, scrolling, geometry and the contents of the paste        *)
(* buffers are left out.  A session switch or a window change is a move of *)
(* the focus to another pane.  Of a chain of commands, those that change   *)
(* nothing kept here are left out.  Which key armed a repeat window is not *)
(* kept: any repeatable action may fire again in it.                       *)
(***************************************************************************)
EXTENDS Naturals, SequencesExt

CONSTANTS
  Panes,        \* panes the client's focus may be on
  FullScreen,   \* the panes whose application uses the alternate screen
  None,         \* no pane, no selection, no prompt
  RootActions,  \* actions bound to a key that needs no prefix
  MaxKeys,      \* bound: keys in one message
  Chains,       \* the command lines, and chains of commands bound to keys
  Hooks,        \* what a split or a new window may run
  Hurried       \* bound: what a key may do that is followed by another one in its message

ASSUME PanesAssumption ==
  /\ FullScreen \subseteq Panes /\ Panes # {} /\ None \notin Panes
  /\ MaxKeys \in Nat

VARIABLES
  ui,          \* the client's entries in the daemon's maps, and its keymap
  focus,       \* the active pane of the active window of its session
  alt,         \* panes now on the alternate screen
  reactions,   \* decoded and not yet carried out
  more,        \* the message goes on, and the client was not rendered yet
  lone         \* the reactions are those of one key, typed with all in step

vars == <<ui, focus, alt, reactions, more, lone>>

(* What of this covers the whole screen, and takes the mouse.              *)
ModalOverlays == {"clock", "help", "sessions", "buffers"}
OverlayNames == ModalOverlays \cup {"panes", "search", "menu"}
PromptKinds == {"name", "command"}
Modes == {"Normal", "AwaitingCommand", "Repeat", "Paste", "Prompt", "Copy", "Search",
          "ChooseSession", "ChooseBuffer", "DisplayPanes", "Help", "Clock"}

(* An action that opens something, and the mode the prefix key enters      *)
(* for it.                                                                 *)
OpensMode == [copy |-> "Copy", help |-> "Help", sessions |-> "ChooseSession",
              buffers |-> "ChooseBuffer", panes |-> "DisplayPanes", clock |-> "Clock",
              name |-> "Prompt", command |-> "Prompt"]

(* What a key may be bound to: one of those; moving the focus; reloading   *)
(* the configuration; the menu; a chain of commands.                       *)
Actions == DOMAIN OpensMode \cup {"focus", "config", "menu", "chain"}

(* What a command may do to this client.  A command line, a bound chain    *)
(* and a hook run any number of them through the same executor, in order,  *)
(* and the key machine knows nothing of them.                              *)
Commands == {"copy", "panes", "clock", "menu", "config", "focus"}

ASSUME BindingsAssumption ==
  /\ RootActions \subseteq Actions
  /\ Chains \subseteq Seq(Commands)
  /\ Hooks \subseteq Seq(Commands \ {"focus"})   \* hooks of hooks are left out
  /\ None \notin PromptKinds /\ None \notin [pane : Panes, dragging : BOOLEAN]

-----------------------------------------------------------------------------
(* The key machine.  A triple is the mode a key is typed in, what the key  *)
(* does ("none": nothing, text for an open input, or bytes for the pane),  *)
(* and the mode after it.                                                  *)

NormalKeys ==
  {<<"Normal", "none", m>> : m \in {"Normal", "AwaitingCommand", "Paste"}}
    \cup {<<"Normal", a, "Normal">> : a \in RootActions}

Repeatable == Actions \ DOMAIN OpensMode

PrefixKeys ==
  {<<"AwaitingCommand", a, OpensMode[a]>> : a \in DOMAIN OpensMode}
    \cup {<<"AwaitingCommand", a, m>> : a \in Repeatable, m \in {"Normal", "Repeat"}}
    \cup {<<"AwaitingCommand", "none", "Normal">>}

(* The key that armed the window fires again; any other one is decoded as  *)
(* in Normal.                                                              *)
RepeatKeys ==
  {<<"Repeat", a, "Repeat">> : a \in Repeatable}
    \cup {<<"Repeat", k[2], k[3]>> : k \in NormalKeys}

CopyKeys ==
  {<<"Copy", "quit", "Normal">>, <<"Copy", "search", "Search">>, <<"Copy", "yank", "Copy">>,
   <<"Copy", "navigate", "Copy">>, <<"Copy", "search-repeat", "Copy">>, <<"Copy", "none", "Copy">>}

(* A bug: cancelling the search does not go back to copy mode.             *)
SearchKeysStay ==
  {<<"Search", "search-confirm", "Copy">>, <<"Search", "search-cancel", "Search">>, <<"Search", "none", "Search">>}

SearchKeys ==
  {<<"Search", "search-confirm", "Copy">>, <<"Search", "search-cancel", "Copy">>, <<"Search", "none", "Search">>}

PromptKeys ==
  {<<"Prompt", "prompt-confirm", "Normal">>, <<"Prompt", "prompt-cancel", "Normal">>, <<"Prompt", "none", "Prompt">>}

ChooserKeys ==
  {<<"ChooseSession", "session-confirm", "Normal">>, <<"ChooseSession", "session-cancel", "Normal">>,
   <<"ChooseSession", "none", "ChooseSession">>, <<"ChooseBuffer", "buffer-confirm", "Normal">>,
   <<"ChooseBuffer", "buffer-cancel", "Normal">>, <<"ChooseBuffer", "buffer-delete", "ChooseBuffer">>,
   <<"ChooseBuffer", "none", "ChooseBuffer">>}

OverlayKeys ==
  {<<"DisplayPanes", "pick", "Normal">>, <<"DisplayPanes", "hide", "Normal">>, <<"Help", "help", "Normal">>,
   <<"Help", "none", "Help">>, <<"Clock", "clock", "Normal">>, <<"Paste", "none", "Paste">>, <<"Paste", "none", "Normal">>}

Feed == UNION {NormalKeys, PrefixKeys, RepeatKeys, CopyKeys, SearchKeys, PromptKeys, ChooserKeys, OverlayKeys}

(* What Escape does in each mode, when it is bound to nothing.             *)
EscapeDoes ==
  [Normal |-> "none", AwaitingCommand |-> "none", Repeat |-> "none", Paste |-> "none",
   Prompt |-> "prompt-cancel", Copy |-> "quit", Search |-> "search-cancel",
   ChooseSession |-> "session-cancel", ChooseBuffer |-> "buffer-cancel",
   DisplayPanes |-> "hide", Help |-> "help", Clock |-> "clock"]

(* What can be left to do after decoding.                                  *)
Reactions == {k[2] : k \in Feed} \cup Commands

(* One more key of the message, decoded in the mode the last one left.     *)
Decode(chunk, k) ==
  [mode |-> k[3], reactions |-> IF k[2] = "none" THEN chunk.reactions ELSE Append(chunk.reactions, k[2])]

(* What any key decodes to that is typed after those of chunk.             *)
Decoded(chunk) == {Decode(chunk, k) : k \in {f \in Feed : f[1] = chunk.mode}}

NoKeys == [mode |-> ui.mode, reactions |-> <<>>]

(* One key more after each of chunks.                                      *)
Longer(chunks, n) ==
  UNION {Decoded(c) : c \in {d \in chunks : Len(d.reactions) = n - 1 /\ Last(d.reactions) \in Hurried}}

(* Every way to decode a message of n keys typed in the current mode.      *)
Chunks[n \in 1..MaxKeys] == IF n = 1 THEN Decoded(NoKeys) ELSE Longer(Chunks[n - 1], n)

-----------------------------------------------------------------------------
(* The daemon's side: what each of its methods does to the client's ui.    *)

Reset(u) == [u EXCEPT !.mode = "Normal"]
Open(u, o) == [u EXCEPT !.overlays = @ \cup {o}]
Close(u, o) == [u EXCEPT !.overlays = @ \ {o}]

Dragging(u) == u.mouse_sel # None /\ u.mouse_sel.dragging

(* Copy mode is of a pane: it is live while that pane is the active one    *)
(* and shows its scrollback.                                               *)
ActiveTarget(u, f, a) == u.copy = f /\ f \notin a
CopyTargetIsActive(u) == ActiveTarget(u, focus, alt)

(* Search and selection go with copy mode; the keymap is reset if any of   *)
(* the three was there, whatever mode it was in.                           *)
ExitCopyMode(u) ==
  IF u.copy = None /\ "search" \notin u.overlays /\ u.mouse_sel = None THEN u
  ELSE Reset(Close([u EXCEPT !.copy = None, !.mouse_sel = None], "search"))

EnterCopyMode(u, p) == IF p \in alt THEN u ELSE [u EXCEPT !.copy = p, !.mode = "Copy"]

CopyNavigate(u) == IF CopyTargetIsActive(u) THEN u ELSE ExitCopyMode(u)

CopyQuit(u) ==
  IF CopyTargetIsActive(u) THEN Reset(Close([u EXCEPT !.copy = None], "search"))
  ELSE Reset(ExitCopyMode(u))

CopyYank(u) == IF CopyTargetIsActive(u) THEN [u EXCEPT !.copy = None] ELSE ExitCopyMode(u)

SearchOpen(u) == IF u.copy = None THEN u ELSE Open(u, "search")

(* An empty query only closes the input.                                   *)
SearchConfirm(u, empty) ==
  IF "search" \notin u.overlays \/ empty \/ CopyTargetIsActive(u) THEN Close(u, "search")
  ELSE ExitCopyMode(Close(u, "search"))

(* The daemon moves the keymap itself when it opens a prompt or the clock. *)
OpenPrompt(u, kind) == [u EXCEPT !.prompt = kind, !.mode = "Prompt"]

(* A bug: the prompt goes, and the keymap stays.                           *)
ClosePromptKeepsMode(u) == [u EXCEPT !.prompt = None]

ClosePrompt(u) == Reset([u EXCEPT !.prompt = None])

(* A bug: the clock is drawn, and the keys still go to the pane.           *)
ToggleClockLeavesKeymap(u) ==
  IF "clock" \in u.overlays THEN Close(u, "clock") ELSE Open(u, "clock")

ToggleClock(u) ==
  IF "clock" \in u.overlays THEN Close(u, "clock") ELSE [Open(u, "clock") EXCEPT !.mode = "Clock"]

ToggleHelp(u) == IF "help" \in u.overlays THEN Close(u, "help") ELSE Open(u, "help")

(* Every client's keymap is built anew from the bindings.                  *)
SetConfig(u) == Reset(u)

ExitCopyModeIfFocusChanges(u, p) == IF u.copy \in {None, p} THEN u ELSE ExitCopyMode(u)

(* A bug: the selection is dropped, and copy mode stays.                   *)
CancelMouseGesturesOnly(u) == [u EXCEPT !.mouse_sel = None]

CancelMouseGestures(u) ==
  IF Dragging(u) THEN ExitCopyMode(u) ELSE [u EXCEPT !.mouse_sel = None]

(* A frame that is not covered by an overlay ends a copy mode that is no   *)
(* longer of the pane in view.                                             *)
Rendered(u, f, a) ==
  IF u.overlays \cap ModalOverlays = {} /\ u.copy # None /\ ~ActiveTarget(u, f, a)
  THEN ExitCopyMode(u) ELSE u

-----------------------------------------------------------------------------
Init ==
  /\ ui = [mode |-> "Normal", overlays |-> {}, prompt |-> None, copy |-> None, mouse_sel |-> None]
  /\ focus \in Panes
  /\ alt = {}
  /\ reactions = <<>>
  /\ more = FALSE
  /\ lone = FALSE

Idle == reactions = <<>> /\ ~more

(* Overlays take no keys but in their mode, and some mode takes the keys   *)
(* of every open input.                                                    *)
Owned ==
  /\ ui.prompt # None => ui.mode = "Prompt"
  /\ ui.copy # None => ui.mode \in {"Copy", "Search"}
  /\ "search" \in ui.overlays => ui.mode = "Search"
  /\ "help" \in ui.overlays => ui.mode = "Help"
  /\ "clock" \in ui.overlays => ui.mode = "Clock"
  /\ "sessions" \in ui.overlays => ui.mode = "ChooseSession"
  /\ "buffers" \in ui.overlays => ui.mode = "ChooseBuffer"
  /\ "panes" \in ui.overlays => ui.mode = "DisplayPanes"

Shown ==
  /\ ui.mode = "Copy" => ui.copy # None
  /\ ui.mode = "Search" => "search" \in ui.overlays
  /\ ui.mode = "Help" => "help" \in ui.overlays
  /\ ui.mode = "Clock" => "clock" \in ui.overlays

(* Actions that open an overlay and leave it to the key machine to follow, *)
(* which it does only for a key typed after the prefix.                    *)
Unsynced == {"help", "sessions", "buffers", "panes"}

(* Commands that move the keymap, or start it anew, wherever it is.        *)
KeymapCommands == {"copy", "clock", "config"}

(* The reactions of rest are still to be done; after the last one of the   *)
(* message the client is rendered.                                         *)
Continue(u, f, rest) ==
  /\ focus' = f
  /\ reactions' = rest
  /\ ui' = IF rest = <<>> /\ ~more' THEN Rendered(u, f, alt) ELSE u
  /\ UNCHANGED alt

(* The keys of a message come last: all of them are decoded, before any    *)
(* reaction is run.                                                        *)
Type(n, chunk) ==
  /\ reactions = <<>>
  /\ more' = FALSE
  /\ Continue([ui EXCEPT !.mode = chunk.mode], focus, chunk.reactions)
  /\ lone' = /\ Idle /\ n = 1 /\ Owned /\ Shown /\ chunk.reactions # <<>>
             /\ Head(chunk.reactions) \in Unsynced \ {"help"} => chunk.mode = OpensMode[Head(chunk.reactions)]
             /\ Head(chunk.reactions) = "help" => "Help" \in {ui.mode, chunk.mode}

TypeKeys == \E n \in 1..MaxKeys : \E chunk \in Chunks[n] : Type(n, chunk)

-----------------------------------------------------------------------------
(* Reactions, in order.                                                    *)

(* A command that follows finds the client in step, but not one that takes *)
(* keys it was not given, nor one that moves the keymap when an earlier    *)
(* command has it.                                                         *)
FindsInStep(u, op) ==
  /\ op \notin Unsynced
  /\ op \in KeymapCommands => u.mode \in {"Normal", "Repeat"}

Continues(u, f, rest) ==
  /\ UNCHANGED more
  /\ Continue(u, f, rest)
  /\ lone' = (lone /\ rest # <<>> /\ FindsInStep(u, Head(rest)))

(* The buffer chooser opens only if there are buffers.                     *)
OpenOverlay(op, rest) ==
  \/ op = "copy" /\ Continues(EnterCopyMode(ui, focus), focus, rest)
  \/ op = "help" /\ Continues(ToggleHelp(ui), focus, rest)
  \/ op = "clock" /\ Continues(ToggleClock(ui), focus, rest)
  \/ op \in {"sessions", "panes", "menu"} /\ Continues(Open(ui, op), focus, rest)
  \/ op = "buffers" /\ \E u \in {ui, Open(ui, op)} : Continues(u, focus, rest)
  \/ op \in PromptKinds /\ Continues(OpenPrompt(ui, op), focus, rest)

CopyKey(op, rest) ==
  \/ op = "quit" /\ Continues(CopyQuit(ui), focus, rest)
  \/ op = "yank" /\ Continues(Reset(CopyYank(ui)), focus, rest)
  \/ op \in {"navigate", "search-repeat"} /\ Continues(CopyNavigate(ui), focus, rest)
  \/ op = "search" /\ Continues(SearchOpen(ui), focus, rest)
  \/ op = "search-cancel" /\ Continues(Close(ui, "search"), focus, rest)
  \/ op = "search-confirm" /\ \E empty \in BOOLEAN : Continues(SearchConfirm(ui, empty), focus, rest)

(* Deleting in the chooser closes it with the last buffer.                 *)
CloseOverlay(op, rest) ==
  \/ op = "prompt-cancel" /\ Continues(ClosePrompt(ui), focus, rest)
  \/ op = "session-cancel" /\ Continues(Close(ui, "sessions"), focus, rest)
  \/ op \in {"buffer-cancel", "buffer-confirm"} /\ Continues(Close(ui, "buffers"), focus, rest)
  \/ op = "buffer-delete" /\ \E u \in {ui, Close(ui, "buffers")} : Continues(u, focus, rest)
  \/ op = "hide" /\ Continues(Close(ui, "panes"), focus, rest)

(* A file that does not parse changes nothing.                             *)
ReloadConfig(op, rest) == op = "config" /\ \E u \in {ui, SetConfig(ui)} : Continues(u, focus, rest)

(* A key bound to a chain runs all of it, before what else was decoded.    *)
RunCommands(op, rest) == op = "chain" /\ \E chain \in Chains : Continues(ui, focus, chain \o rest)

(* A bound action, a pane number, the session switcher.  None of them ends *)
(* copy mode; the next frame does.  A split or a new window runs its hook, *)
(* if one is set, before the command that follows.                         *)
MoveFocus(op, rest) ==
  \E f \in Panes :
    \/ op = "focus" /\ \E hook \in {<<>>} \cup Hooks : Continues(ui, f, hook \o rest)
    \/ op = "pick" /\ Continues(Close(ui, "panes"), f, rest)
    \/ op = "session-confirm" /\ Continues(Close(ui, "sessions"), IF "sessions" \in ui.overlays THEN f ELSE focus, rest)

(* The prompt closes and gives the keys back before its intent is carried  *)
(* out: an empty line or a rename does nothing here, a found window moves  *)
(* the focus, and a command line is run to its end.                        *)
Intents == [name |-> {<<>>, <<"focus">>}, command |-> {<<>>} \cup Chains]

PromptConfirm(op, rest) ==
  /\ op = "prompt-confirm"
  /\ \E intent \in IF ui.prompt = None THEN {<<>>} ELSE Intents[ui.prompt] :
       Continues(ClosePrompt(ui), focus, intent \o rest)

React(op, rest) ==
  \/ OpenOverlay(op, rest) \/ CopyKey(op, rest) \/ CloseOverlay(op, rest)
  \/ ReloadConfig(op, rest) \/ MoveFocus(op, rest) \/ RunCommands(op, rest)
  \/ PromptConfirm(op, rest)

HandleReaction == reactions # <<>> /\ React(Head(reactions), Tail(reactions))

-----------------------------------------------------------------------------
(* Mouse reports and menu keys, in front of the keys of their message.     *)
(*                                                                         *)
(* A report is judged against the frame it was clicked on, which may be an *)
(* older one: whether that one was covered (modal; one that is no longer   *)
(* known counts as covered), and whether the pane in it is as it was       *)
(* (fresh: not on another screen since, nor asking for the mouse).         *)

(* The message ends here and the client is rendered; or it goes on first,  *)
(* which matters if rendering would change anything.                       *)
HandledLast(u, f) ==
  /\ reactions = <<>>
  /\ focus' = f
  /\ more' = FALSE /\ ui' = Rendered(u, f, alt)
  /\ lone' = FALSE
  /\ UNCHANGED <<alt, reactions>>

HandledFirst(u, f) ==
  /\ reactions = <<>>
  /\ focus' = f
  /\ more' = TRUE /\ ui' = u /\ u # Rendered(u, f, alt)
  /\ lone' = FALSE
  /\ UNCHANGED <<alt, reactions>>

Handled(u, f) == HandledLast(u, f) \/ HandledFirst(u, f)

(* A click on a pane, an agent row or a window: copy mode of another pane  *)
(* ends first.                                                             *)
FocusClientPane(u, p) == Handled(ExitCopyModeIfFocusChanges(u, p), p)

(* A click on the row of another session ends any copy mode.               *)
SidebarPick(u, p) == Handled(ExitCopyMode(u), p)

(* A menu item renames a session (which the client is switched to) or a    *)
(* window, opening a prompt; or it acts on the rest; or it acts on a pane, *)
(* and what is split off has the focus.                                    *)
ApplyMenuAction(u) ==
  \E p \in Panes :
    \/ Handled(OpenPrompt(u, "name"), p)
    \/ Handled(OpenPrompt(ExitCopyModeIfFocusChanges(u, p), "name"), p)
    \/ Handled(u, p)
    \/ \E split \in Panes : Handled(ExitCopyModeIfFocusChanges(u, p), split)

DismissMenu(u) ==
  /\ "menu" \in u.overlays
  /\ Handled(Close(u, "menu"), focus) \/ ApplyMenuAction(Close(u, "menu"))

(* On a covered frame a button does nothing but end a gesture.             *)
ButtonOnModal == Handled(CancelMouseGestures(ui), focus)

(* A press is the menu's if one is open; else the right button opens one,  *)
(* and the left one focuses what it hits and may start a selection.        *)
PressOnMenu == DismissMenu(CancelMouseGestures(ui))

RightPress ==
  /\ "menu" \notin ui.overlays
  /\ Handled(Open(CancelMouseGestures(ui), "menu"), focus)

MouseSelArm(u, p, fresh) ==
  IF fresh /\ p \notin alt THEN [u EXCEPT !.mouse_sel = [pane |-> p, dragging |-> FALSE]] ELSE u

PressPane(p, fresh) ==
  /\ "menu" \notin ui.overlays
  /\ FocusClientPane(MouseSelArm(ExitCopyModeIfFocusChanges(CancelMouseGestures(ui), p), p, fresh), p)

(* A row of the sidebar: the one thing to hit on a frame of a session the  *)
(* client has left, where it goes before an open menu, which stays.        *)
PressRow(p) ==
  LET u == CancelMouseGestures(ui) IN SidebarPick(u, p) \/ FocusClientPane(u, p)

(* The first motion after a press starts the selection, in copy mode, and  *)
(* the next ones extend what copy mode there is.                           *)
MouseSelDrag(u, fresh) ==
  LET p == u.mouse_sel.pane
      selecting == IF u.copy = None THEN EnterCopyMode(u, p) ELSE u
  IN IF ~fresh \/ p \in alt \/ (~Dragging(u) /\ p # focus) THEN [u EXCEPT !.mouse_sel = None]
     ELSE IF Dragging(u) THEN u
     ELSE [selecting EXCEPT !.mouse_sel = [pane |-> p, dragging |-> TRUE]]

Drag(fresh) == ui.mouse_sel # None /\ Handled(MouseSelDrag(ui, fresh), focus)

(* Letting go after a drag copies the selection and ends copy mode.        *)
MouseSelFinish(u) ==
  LET done == [u EXCEPT !.mouse_sel = None]
  IN IF u.mouse_sel.pane = focus THEN CopyYank(done) ELSE ExitCopyMode(done)

Release == Handled(IF Dragging(ui) THEN Reset(MouseSelFinish(ui)) ELSE CancelMouseGestures(ui), focus)

(* The wheel enters copy mode of the pane under the pointer; once in it,   *)
(* it scrolls whatever pane that is of.                                    *)
Wheel(p) ==
  \/ ui.copy # None /\ Handled(CopyNavigate(ui), focus)
  \/ ui.copy = None /\ p \notin alt /\ Handled(EnterCopyMode(ui, p), p)

(* Enter and Escape belong to an open menu.                                *)
MenuKey == DismissMenu(ui)

ClientInput ==
  \/ TypeKeys \/ MenuKey
  \/ ButtonOnModal \/ PressOnMenu \/ RightPress \/ Release
  \/ \E p \in Panes : Wheel(p) \/ PressRow(p) \/ \E fresh \in BOOLEAN : PressPane(p, fresh)
  \/ \E fresh \in BOOLEAN : Drag(fresh)

-----------------------------------------------------------------------------
(* The rest of the world, between the client's messages.                   *)

(* Another client, a command line tool or an exiting shell moves the focus *)
(* of the session; a pane's application changes screens; a reload or a     *)
(* `:set` of any client rebuilds every keymap.                             *)
OtherMovesFocus == Idle /\ \E p \in Panes : HandledLast(ui, p)

OtherSetsConfig == Idle /\ HandledLast(SetConfig(ui), focus)

PaneOutput(p) ==
  /\ Idle
  /\ alt' = IF p \in alt THEN alt \ {p} ELSE alt \cup {p}
  /\ ui' = Rendered(ui, focus, alt')
  /\ UNCHANGED <<focus, reactions, more, lone>>

(* A hook runs its line as the first client of the session; here those of  *)
(* other clients' commands, of exiting panes and of the menu.              *)
FireHook ==
  reactions = <<>> /\ \E line \in Chains \ {<<>>} : React(Head(line), Tail(line))

(* The tick ends a repeat window that no key came in.                      *)
ExpireRepeat ==
  /\ Idle /\ ui.mode = "Repeat"
  /\ ui' = Reset(ui)
  /\ UNCHANGED <<focus, alt, reactions, more, lone>>

Next ==
  \/ ClientInput \/ HandleReaction
  \/ OtherMovesFocus \/ OtherSetsConfig \/ FireHook \/ ExpireRepeat
  \/ \E p \in FullScreen : PaneOutput(p)

Spec == Init /\ [][Next]_vars

-----------------------------------------------------------------------------
(* Between messages, Prompt mode has a prompt to confirm or cancel;        *)
(* without one it would take keys that go nowhere.  open_prompt and        *)
(* handle_prompt_key move the daemon's map and the keymap together, and    *)
(* nothing that happens in between separates them.                         *)
PromptModeHasPrompt == Idle /\ ui.mode = "Prompt" => ui.prompt # None

(* The keymap and the daemon's maps are moved by different code, key by    *)
(* key.  One key typed while they agree, with the commands and the hooks   *)
(* it runs, leaves every open overlay with the keys.  Not so, and left     *)
(* out: help, a chooser or pane numbers from a key that does not go to     *)
(* their mode (`bind -n`) or from a command (`:display-panes`); and a      *)
(* command that opens copy mode or the clock, or sets an option, after     *)
(* another one of the chain, or its hook, took the keys (`:clock-mode ;    *)
(* copy-mode` leaves the clock open and the keys with copy mode).          *)
LockstepKeyByKey == [][lone /\ reactions' = <<>> => Owned']_vars

(* Letting the button go while a drag selection is live, on whatever       *)
(* frame and whatever pane came into view, leaves no copy mode behind      *)
(* (cancel_mouse_gestures: that "would strand the client in copy mode      *)
(* after the physical release").                                           *)
ReleaseEndsCopyMode ==
  [][Dragging(ui) /\ (Release \/ ButtonOnModal) => ui'.copy = None]_vars

(* Escape between messages: an open menu takes it; else the key machine,   *)
(* in the mode it is in.                                                   *)
PressEscape ==
  /\ Idle
  /\ \/ "menu" \in ui.overlays /\ Handled(Close(ui, "menu"), focus)
     \/ /\ "menu" \notin ui.overlays
        /\ \E k \in Feed :
             /\ k[1] = ui.mode /\ k[2] = EscapeDoes[k[1]]
             /\ k[2] = "none" => k[3] \in {k[1], "Normal"}
             /\ Type(1, Decode([mode |-> ui.mode, reactions |-> <<>>], k))

(* The user does nothing but press Escape.                                 *)
Escaping == PressEscape \/ HandleReaction

(* From wherever the client is, its keymap and overlays in step or not,    *)
(* pressing Escape often enough gives the keys back to the pane: no mode   *)
(* of the key machine holds on to them when its overlay is gone.           *)
EscapeReleasesKeys ==
  <>[][Escaping]_vars /\ []<><<PressEscape>>_vars
    => []<>(Idle /\ ui.mode \in {"Normal", "Paste"} /\ "menu" \notin ui.overlays)
=============================================================================
