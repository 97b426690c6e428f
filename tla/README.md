# lumux in TLA+

lumux is a terminal multiplexer: a server process (the daemon) owns shells in
pseudo-terminals, arranges them as panes of windows of sessions, and renders
them for the clients that attach over a socket. This directory models the
daemon and what runs around it, checks the models with TLC, and proves the
central invariants with TLAPS.

Paths below are relative to `src/crates/`:

| short | file |
|---|---|
| M, T, ID | `lumux-core/src/model/{mod,tree,id}.rs` |
| A | `lumux-core/src/agent.rs` |
| KM | `lumux-core/src/keymap/machine.rs` |
| L | `lumux-core/src/layout.rs` |
| CM, BU | `lumux-core/src/{copymode,buffers}.rs` |
| EM, RW, SB | `lumux-core/src/grid/{emulator,row,scrollback}.rs` |
| D | `lumux-server/src/daemon.rs` |
| EL | `lumux-server/src/eventloop.rs` |
| IN | `lumux/src/integration.rs`, with the agents' files in `integration/` |
| AT, SV | `lumux/src/{attach,server}.rs` |
| UP, UT | `lumux-backend-unix/src/{pty,transport}.rs` |

## 1. The system

One thread, the event loop (EL), owns all state and handles one message at a
time. Everything else runs beside it and only sends it messages: one reader
thread for each shell, a reader and a writer thread for each client, the
acceptor and the ticker.

| component | state | operations | module |
|---|---|---|---|
| object model (M, T, ID) | sessions, windows (split tree, pane map, focus, last, zoom, preset), panes, clients, id counters | new/kill of each kind, split, break, join, swap, rotate, layouts, zoom, focus, window moves, attach, switch, detach | `ObjectTree`, `PaneTree` |
| pane lifecycle (D, EL, UP) | `Daemon::panes` (live terminals), `Loop::pane_session` (routes), `marked_pane`, `remain_on_exit` | spawn, exit by reader, exit by tick, kill, respawn, `pane-exited` hook, mark | `PaneLifecycle` |
| agent lifecycle (A, D, IN) | for each pane the latest accepted event, its owner and its status; the panes with a detected agent | report, clear, scan, acknowledge, drop with the pane | `AgentLifecycle` |
| visibility and sizes (EL 884-1030, D) | which panes each client has in view, which completions are seen, the size of every terminal | run after every message that changes focus, topology, clients or sizes | `Views` |
| layout geometry (L, D) | tree and size to rectangles; a drag holds a path into the tree | place, pane at, divider at, neighbour, resize, drag | `PaneLayout` |
| key machine (KM) | per client: normal, awaiting a command, repeat, or the overlay that takes the keys | feed, enter, reset, cancel | `Overlays` |
| overlays (D) | per client: prompt, search, choosers, help, clock, pane numbers, menus, copy view, mouse selection | open, key, confirm, cancel, reload | `Overlays` |
| sidebar, choose-tree, paste buffers (D, BU) | lists that all sessions share; per client a cursor, offsets and what it last drew | click, scroll, move, expand, confirm, push, paste, delete | `Choosers` |
| copy mode (CM, D) | cursor, top row, selection, search over a bounded buffer | navigate, select, search, yank, mouse | `CopyMode` |
| grid and scrollback (EM, RW, SB) | rows, cursor, scroll region, saved cursor, put-aside primary screen, history | print, scroll, insert, delete, erase, switch screens, resize | `Grid` |
| server start and persistence (SV, UT, AT, D 1332-1399) | socket path, server processes, the state file and its temporary | spawn, connect, bind, restore, save, crash | `ServerLife` |
| attach connection (AT, EL, UT) | two queues, the frames the server remembers, the client's three threads | forward input, publish frames, detach, either end going | `Attach` |
| hook installers (IN) | the agent's own configuration, the wrapper script | install, each write of it, the user's edits | `Installers` |
| wire encoding, config and command parsers, status line, renderer, detection, Windows backend | text or bytes in, values out | parse, format, compose, diff | (section 7) |

How they interact. A key goes from the client's reader to the loop, through the
client's key machine, and comes back as actions on the model and the daemon. An
exiting shell reaches the loop as `PaneExited` from its reader and through
`reap_exited_panes` on a tick. Hook scripts of coding agents connect as clients
and report states; a scan of the pane's processes on the tick complements them.
The model, the live panes and the routes are three maps over the same pane ids
that each operation has to keep in step. A message ends with the redraw of one
client, of the clients of a session, or of all.

What is hard, and the property each calls for:

- **Structural edits** (M, T). A pane may be focused, last, zoomed, alone in
  its window, in the last window of its session, and a client may be viewing
  that session; each operation repairs all of it by hand. A window's tree, pane
  map and focus must agree, sessions must own every window and at least one,
  panes may not be lost except by kills, and ids may not be reused.
- **Three maps** (D, EL). Five call paths close panes. None may leave a
  terminal, a route, a mark or an agent row behind.
- **Two reports of one exit** (EL 3397, D 3015). They come in either order,
  may name a pane that was respawned since, and one of them may never come.
- **Independent hook processes** (A, D 180-330). Their messages are stamped at
  start and delivered in any order or not at all. A pane's row must go to the
  session that runs, and no late message may bring an ended one back.
- **View, completion, size** (EL 884). A completion is "seen" if its pane is in
  view before or after it, in whatever order; and each change of topology,
  focus, clients or sizes has to resize the terminals whose place it changes,
  those of the window or session that was left included.
- **Rounding** (L). Rectangles are split by a ratio, with a reserved cell for
  the divider, down to windows with no cells; a drag outlives the tree it began in.
- **Overlays and keys** (KM, D). The key machine's state and the daemon's
  overlays are two pieces of state that must agree across reloads, mouse
  clicks, chunks of several keys and actions that fail.
- **Lists on many screens** (D, EL). The clients of all sessions show the same
  lists; a message of one client redraws some of the others. The next key of
  any acts on the row it shows.
- **A moving buffer** (CM, EM). Copy mode counts rows of a buffer that grows,
  is erased, resized and switched under it; the emulator's indices must stay on
  a screen that shrinks.
- **Frames and clicks** (EL 1890, AT). A click names the frame the user saw,
  which newer frames may have overtaken, and may arrive in two messages.
- **Start and stop** (UT, AT, D 1387). Two servers starting at once; a server
  killed while it writes its snapshot; attach threads that end in either order.
- **Installs** (IN). Two or three files are written one after the other, over
  configurations the user and earlier releases edited.

## 2. Modules

| module | models | composed of |
|---|---|---|
| `Window` | pure functions: what each edit does to a window record, with the tree abstracted to its sequence of leaves | |
| `ObjectTree` | the object model, one action per method of `Server` | `Window` |
| `PaneOwnership` | abstract: a pane belongs to one session from open to close | |
| `PaneTree` | one window with its recursive split tree | `Window` |
| `PaneLayout` | rectangles, dividers and drags over that tree | `PaneTree` |
| `Views` | what clients see and the size they see it in, for each handler of the loop | `Window`, `ObjectTree` |
| `PaneLifecycle` | live panes, routes, mark, rows over the model; shells, readers, ticker | `ObjectTree` |
| `AgentLifecycle` | the row of one pane, hook processes, wire, scan, view | |
| `Overlays` | one client's key machine and overlays: keys, chunks of keys, mouse, menus, commands, hooks, reloads | |
| `Choosers` | sidebar, choose-tree and buffer chooser of several clients, and who is redrawn | `Lists` |
| `Lists` | lists put together and filtered | |
| `CopyMode` | one client's copy mode on one pane | |
| `Grid` | one pane's emulator, as rows | |
| `ServerLife` | server processes, socket path, state file | |
| `Attach` | one connection from both ends | |
| `Installers` | one agent's configuration and wrapper | `Lists` |
| `ObjectTree_proofs` | theorems about the object model | |
| `PaneTree_proofs` | theorems about the split tree, where its panes are and the drags of its dividers | `Lists_proofs` |
| `PaneLifecycle_proofs`, `Views_proofs` | theorems about what the loop keeps beside it | `ObjectTree_proofs` |
| `Pane_proofs` | theorems about the agent row, the grid and copy mode | |
| `Lists_proofs` | induction over numbers and lists; what lists that are put together and filtered consist of | |
| `Parts_proofs` | theorems about keys and overlays, the state file and installs | `Lists_proofs` |
| `Client_proofs` | theorems about the frames of a connection and the lists on the screens of several clients | `Lists_proofs` |
| `MC*` | instances for TLC | |

Four ways of cutting carry the abstraction. `Window` is the meeting point of
the two views of a window: `ObjectTree` uses its functions as the effect of each
operation on a leaf *sequence*, and the recursion in T over a split *tree*, which
`PaneTree` has, is shown to have exactly this effect (`StepsFollowWindow`). `PaneOwnership`
is what EL needs of the model when it keeps `pane_session` as a flat map:
`ObjectTree` implements it under the mapping `Owner` (`OwnershipSpec`).
`PaneLifecycle` and `Views` extend `ObjectTree` and conjoin its actions with
what the daemon and the loop do in the same handler, so that what is proved of
the object model can be used of them (`LoopSpec`, `ViewsSpec` and their actions
carry names of their own). `MCPane`, `MCParts` and `MCLive` each put three
components that share no state into one instance: a behaviour is one of the
component that `part` names, and each keeps its own bounds.

### State and code

- `ObjectTree`: `sessions`, `windows`, `clients` are the maps of M's `Server`,
  `Session`, `Window`; names, titles, sizes and commands are left out. `next`
  holds ID's four counters. Windows sit in one flat map since every id is
  global. An operation is an action with the code's early returns as guards.
- `PaneTree`: `tree` is T's `PaneNode`; `layout_kind`, `panes`, `active_pane`,
  `last_pane`, `zoomed` are fields of `Window`. The trees are sets by height
  (`TreesUpTo`), and T's recursive methods are recursive functions on them;
  `split_leaf`, `relabel` and `replace_leaf` share one recursion (`Replant`). A
  ratio is the fraction the code has as an `f32`: the presets' `1/n`, and for a
  divider that was moved the fraction of cells or of twentieths, in lowest terms.
- `PaneLayout`: `dragging` is `Daemon::dragging`, by client, with the path, the
  bounds and the layout at the press; `moves` is history. `Place`, `PaneAt`,
  `DividerAt`, `SetRatio` are L's functions in cell arithmetic, rounding as the
  code rounds.
- `Views`: over `ObjectTree`. A terminal's size is not a number but whether it
  is `stale`: something its place depends on (the smallest client, the visible
  leaves) changed since it was resized. `done` are unseen completions, `blurred`
  the clients that lost the focus. `unfitted` and `unexposed` record where the
  code resizes or exposes nothing, so that the properties can name these cases.
- `PaneLifecycle`: `panes[p].shell` numbers the successive shells of pane p.
  `running`, `reading`, `sent` are the processes, the reader threads and their
  messages. A tick is two kinds of step, `Reap` marking every exited pane dead
  and one `HandleReaped` for each of that `batch`, in the order of their ids, as
  in EL; no other message comes between them, while shells and readers do.
- `Overlays`: `ui` gathers the client's entries in the daemon's maps (`prompt`,
  `copy`, `mouse_sel`, and as `overlays` the ones that are only open or not) and
  the mode of its key machine. One input message is several steps, as the code
  has it: mouse reports and menu keys first (`Handled`), then all keys decoded
  at once (`Type`), then one step for each reaction (`HandleReaction`), with the
  client rendered after the last. `more` says that a message goes on, `lone`
  (history) that the reactions are those of one key typed with everything in
  step, or of the commands it runs. A command line, a bound chain and a hook are
  lists of commands (`Chains`, `Hooks`), which become the next reactions. `Feed`
  is the key machine as a relation from mode to effect and next mode; which key
  has which effect is left out. Mouse reports are judged against the frame that
  was clicked, which may be an old one: what the code reads from that frame is a
  choice.
- `AgentLifecycle`: `lifecycle` is the pane's entry of `agent_lifecycles`.
  `inflight` is a set: delivery is in any order, and `Lose` kills a hook.
  `startedAt` and `exitedAt` are history, read by properties and by the guard
  that starts a session once. An identity is a pair of agent label and owner.
- `Choosers`: `rows` is the tree of sessions and windows in order, `buffers` the
  stack of BU, `choosing`, `choosing_buffer`, `sidebar_scroll` the daemon's maps.
  `drawn` is what each client last received. An action is a message together
  with the redraw it asks for.
- `CopyMode`: `mode` is CM's struct, `lines` and `history` the size of the
  terminal under it. Which text is found is not modelled: a search may stop
  anywhere in its direction.
- `Grid`: the fields of EM that hold or count rows; a row is a mark.
- `ServerLife`: `phase` is how far a server process got, `saving` the stage of
  its save; `ended`, `unread` and `overlapped` are history. A line of commands
  that ends the last session and then saves is left out. A handler of the loop
  is one step; `SaveOpen`, `SaveWrite`, `SaveRename` and the failures are
  separate, as other processes and crashes come between.
- `Attach`: `toClient`, `toServer` join thread channels and socket in one queue in
  each direction; `main`, `reader`, `resizer` are AT's threads; `frame_history`
  is what EL remembers for clicks; `hits` is history.
- `Installers`: `step` is where the running install stands, `root` what it holds
  in memory, `seen` what it read. Of Kimi's lines, one stands for the hooks of a
  release, so that another release finds them changed and writes its own. The
  user's edits come between any two steps.

## 3. Runs

| run | module | result | shows |
|---|---|---|---|
| `tree_sessions` | `MCObjectTree` | pass | all sequences of model operations keep the tree consistent, keep panes, and implement `PaneOwnership` |
| `pane_tree` | `MCPaneTree` | pass | tree recursion is the edit of `Window`; a recorded preset is the shape of the tree; panes and dividers partition the window at any size; a drag moves the divider it took hold of |
| `pane` | `MCPane` | pass | the agent row: ordering and view properties with loss and reordering; the running session owns its row once its messages are in; completions come and stay; a detected agent that is gone loses its row. The grid: indices fit, the history is the text above the screen. Copy mode: the cursor is in view, the highlight is the yank |
| `pane_exits` | `MCPaneLifecycle` | pass | model, live panes, routes, mark and rows stay in step, shells that fail to start included |
| `views` | `MCViews` | pass | no unseen completion in front of a client; terminals have the size of their place, but for the exceptions the property names |
| `parts` | `MCParts` | pass | one key typed in step leaves key machine and overlays in step; a prompt mode has its prompt; a released drag leaves no copy mode; Escape gives the keys back from anywhere; saved sessions survive crashes; hooks have their wrapper and installs keep the user's entries |
| `live` | `MCLive` | pass | clicks act on what was seen; connections end; an exit is noticed by the tick alone; sidebars, trees and buffer lists show what their keys act on |
| `tree_zoom_swap` | `MCObjectTree` | violated | swap across windows leaves a window zoomed on a pane it does not have |
| `agent_permanent` | `MCAgentLifecycle` | violated | a report in flight during the scan recreates a row for good |
| `pane_mark` | `MCPaneLifecycle` | violated | kill-window leaves the mark on a pane that is gone |
| `pane_respawn` | `MCPaneLifecycle` | violated | a late exit of the old shell marks the new one dead |
| `views_zoom` | `MCViews` | violated | a change of focus takes a window out of its zoom and resizes nothing |

### Bounds

- `tree_sessions`: ids up to 2 sessions, 3 windows, 3 panes, 1 client over the
  whole life of the daemon. Three panes are the fewest with which a removed
  pane, the focused one and the last one differ, a rotation has a direction and
  a window of two has a neighbour to swap with; three windows are the fewest
  where the removed, the active and the last differ; two sessions let one close
  under a client. 86,741 distinct states.
- `pane_tree`: every tree of up to four leaves, over four interchangeable
  names. Four leaves give both shapes of depth two (balanced and a chain), the
  tiled and main presets differ from the even ones, and a removal can collapse
  at each depth. The window is 5x3 right of a sidebar; the partition is also
  checked for 2x2 and 1x0, which are too small for the panes. `ShortDrags` keeps
  drags to windows of at most three panes, with one moved divider. 65,665
  distinct states.
- `pane` (856,862 distinct states): four stamps for two owned sessions and one
  legacy reporter: start, report, exit, and a successor's claim, with all
  interleavings; the permanent row of `agent_permanent` needs two. A screen of
  three rows, the fewest with a partial region that leaves a row on each side,
  and a history of one line, which overflows; for copy mode a pane of up to two
  rows and two columns, the fewest that can be made narrower under a row of the
  history, which has one line.
- `pane_exits`: two sessions, windows, panes; two shells of a pane alive or
  unreported at once: a shell and its successor. `FewShells` keeps agent rows
  and shells the daemon may still hear from to three. 736,898 distinct states.
- `views`: two sessions, two windows, and two clients over two panes or one
  client over three (`FewObjects`, which also leaves completions and lost focus
  to the former). Two clients let the smallest leave; three panes let a
  neighbour of the removed, zoomed or swapped pane change its place; two windows
  are the two sides of break, join and swap. 102,710 distinct states; the
  theorems of `Views_proofs` do without `FewObjects`.
- `parts` (779,092 distinct states). Keys: two panes, one of which may run a
  full-screen application: the focused pane, and another one a copy mode or
  selection may still be of. Two keys in a message (`MaxKeys`) show every
  reaction that runs against a mode decoded before it; the first of the two is a
  command line or the confirmation of a prompt (`Hurried`), which change the
  most under the second. `RootActions` are four actions bound without the
  prefix, one for each way the key machine is bypassed. `LinesRun`, the command
  lines and bound chains, has every command alone and three pairs whose commands
  meet (one opens what the other one replaces, or moves the focus under it);
  `HooksRun` has three hooks, one of which opens copy mode. Two overlays are open
  at a time. Servers: two racing for the path, a client and one name. Installs:
  every agent with two releases, either of which may be the first to run.
- `live` (127,712 distinct states). Connections: three epochs with a history of
  one frame, so that epochs wrap and frames are forgotten. Exits: one window of
  two panes, one shell each. Lists: two clients, one of whom opens choosers;
  three sessions, windows and texts are ever made; terminals of 5 rows (whose
  lists show less than they have) or 7. Two agents
  (`MaxAgents`) do not fit, so that both halves of the sidebar scroll.
  `ListsApart` admits two sessions at a time, and agents, tall terminals, further
  buffers, a third session or window with two clients, and an open choose-tree
  one at a time.
- Ids that run out stop the model, not the code. `CHECK_DEADLOCK FALSE` stands
  for that, for a daemon with no session, and for servers, clients and
  connections that have ended.

### Fairness

- `PaneLifecycle!Fairness`, in `live`: weak fairness of `Reap` and
  `HandleReaped`. The ticker thread sleeps and sends for ever and the loop
  handles every message it receives (EL `run`). Readers have none: a child that
  holds the terminal, or ConPTY, may withhold end of file for ever. That is why
  the tick polls.
- `AttachFairness` of `Attach`, in `live`: the loop takes its messages in turn, the client
  takes the verdict, and its reader, main and resizer threads get on. None of
  the user, of the terminal or of the server's own end.
- `Overlays!EscapeReleasesKeys` has its assumption in the formula: from some
  point on the user does nothing but press Escape, again and again, and the
  loop carries out what was decoded.
- `AgentLifecycle!FairSpec`, in `pane` and `agent_permanent`: weak fairness of `Scan` (the tick) and of
  `Deliver` (a hook process that was not killed gets to write its message).
  No fairness for agents or users.

## 4. Proofs

All are for every value of the constants that satisfies the named assumption of
the module: the bounds are natural numbers (`BoundsAssumption` of `ObjectTree`,
`GridAssumption`, `CopyAssumption`); `ShellAssumption` of `PaneLifecycle` says
which commands a hook may run; `IdentitiesAssumption` of `AgentLifecycle`,
`CopyAssumption`, `FilesAssumption` of `ServerLife`, `EpochsAssumption` of `Attach` and
`ClientsAssumption` of `Choosers` that what stands for nothing is none of the
rest and that counts are naturals; `PanesAssumption` and `BindingsAssumption` of
`Overlays` that keys are bound to actions there are, and that lines and hooks are lists of
commands. `PanesAssumption` of
`PaneTree` is that no pane is called what stands for none and that a window
holds at least one; `LayoutAssumption` of `PaneLayout` that positions and sizes
are naturals. TLC evaluates each in its
run.

**Object model.** `WindowsConsistent`, `OneWindowPerPane`, `SessionsConsistent`,
`NothingDangles`, `FreshIds` and `TypeOK` are not inductive one by one: that a
fresh pane is in no window needs `FreshIds`, that a collapsed window keeps a
focus needs its tree and map to agree, that a closed session takes its windows
needs sessions to be disjoint. `Structure` is their conjunction, arranged as one
predicate on the map of windows and one on the map of sessions. The first
part of `ObjectTree_proofs` shows that each function of `Window` preserves
`GoodWindow` and says which panes it adds or removes; its lemmas `WindowUpdate`, ... say what
a map looks like after one window is changed, added or removed;
`StructureInvariant` has one step per action that applies them.
`NothingEverDangles` then says of every reachable state that a client's session,
a session's last window and a zoomed window's sibling are there.
`OneWindowPerPane` (no pane is in two windows) is proved and has no run of its
own; `OwnershipSpec` would catch its violation.

**Split tree.** The theorems of `PaneTree_proofs` hold for trees of any depth.
`FromTheLeaves` is induction over the trees, by their height; `TreeRecursion`
says once for all that a recursion over them, given what it makes of a leaf and
of a split, has a value for each tree, and every recursive function of the two
modules gets its equation from it (`LeavesOfIs`, `RemoveLeafIs`, `PlaceIs`,
`DividerAtIs`, `SetRatioIs`, ...). On these equations rest, by induction:

- the edits: what `split_leaf`, `remove_pane`, `relabel` and `replace_leaf` make of
  a tree is the edit of its leaves that `Window` has, and where the code tries
  the first side before the second it makes no difference, because every pane is
  one leaf. That the chain of swaps is a rotation (`RotatedTree`) follows from
  which panes have moved after each of them. `ArrangedIs` shows that each preset keeps the panes in
  order, the rows of `tiled` put end to end included; and `ArrangedShape` that
  its shape depends on their number alone, which is why swapping a pane in from
  another window may keep the preset.
- the geometry: `TreesTile`, that the panes of a tree have disjoint areas inside
  any area, and that a cell of none of them is in reach of a divider that
  `divider_at` finds. The cells of a split's first child are none to all of those
  to share (`FirstCellsIs`), whatever the ratio, so this needs no bound on sizes.
- the dividers: `FoundDivider`, that `divider_at` returns the path of a split, and
  `DividerMoved`, that `set_ratio_by_path` keeps leaves, shape and the ratio of
  every split but the one at the end of the path.

`TreeHolds` is the invariant of the window: its layout is a tree that holds each
of its panes once, the active one is one of them, and the shape is that of the
recorded preset. Disjoint areas need the first, a removal that finds the pane
in the tree needs the second, and the presets the third. A tree of `n` panes is
lower than `n`, so that no edit leaves the set of `Trees`. `LayoutHolds` adds for
each drag that its path ends at a split of the tree it remembers, between the
panes it was between at the press (`HoldsDivider`). Since the code compares the
remembered tree with the one on the screen before it follows the path,
`DragMovesGrabbedDivider` comes from this, whatever was done in between.

**Panes.** The last part of `ObjectTree_proofs` says what each action does to the panes of each session:
it keeps them all (`PanesKept`), opens one in one session (`PaneOpened`), or
closes some of one session (`PanesClosed`). From these effects follow
`OnlyKillsLosePanes`, and step by step `OwnershipSpec`: the initial state maps to
no panes at all, and each action to an opening, a move, a closing or a stutter of
`PaneOwnership`. `FocusStaysPut` is about the functions of `Window` that remove a
leaf.

**Pane lifecycle.** The invariant `LoopInv` joins `Structure` with `RoutesAgree`,
with `Transients` (which also speaks of the middle of a tick, where
`TransientsFollowModel` does not) and with the types of the daemon's map. The two
halves need each other: a handler finds the session of a pane by its route, so
that its step is a step of the object model only if routes agree; and routes go
on agreeing because of what steps of the object model do to panes. So
`LoopSpec => Spec` (`LoopImplementsModel`) comes out of the same induction, and
with it every theorem about the object model holds inside the loop.

**Views.** `ViewsInv` adds to `Structure` that sizes and completions are of panes
that are there, that no window is zoomed on a pane of another session or of
none yet made (`ZoomsHome`; that it may be zoomed on one of another window is
`tree_zoom_swap`), and for each session that somebody views that the terminals in
view fit but for those no handler resizes (`FitsWell`). Each handler is confined: it works on the
windows of one session, and all sessions `Elsewhere` keep their windows, views
and clients, so that fit and exposure carry over; for the session it works on,
the handler resizes and exposes. That needs one lemma on each kind of handler
and none on pairs of sessions.

**Agent row.** `Orders` is the inductive invariant. All events are stamped from
one clock and a session emits nothing after a later one has started, so all its
messages are older than any later start (`StartsSeparate`), the row's stamp lies
at or after the start of its owner (`StampsInPast`), and the exit is a session's
last event (`ExitIsLast`). From it follow `RowMovesForward` (a stale claim cannot
pass the sequence check) and `AcceptedExitIsFinal` (nothing of the session is
newer than its tombstone). `NoVisibleDone` is inductive by itself.
`RunnerOwnsRow` needs `StartStands`: while a session runs, whatever is as recent
as its start, in the row or in flight, is its own, and its claim is in the row,
on its way, or lost. `CompletionsComeAndStay` is proved action by action from
`Orders`.

**Copy mode.** `CopyInv` keeps the cursor within the view and within the buffer
(`Within`) as long as no lines were lost under it; output that pushes lines into the
history moves the view and the cursor with the text, which is what the induction
has to show. `HighlightIsYank` is a fact about two functions the code computes
apart (`SpanIsText`), one from the columns of the pane and one from the length of
each row, for every position of both ends and every length and width. The two
are equal where length and width are; elsewhere they agree on the cells that the
row has and the pane shows, which is all that is true (see "Copy mode and grid").

**Grid.** `GridInv` is `ScreenFits` with types, the capacity of the history and
the shape of what is put aside. Each screen is put together from pieces of the
last (`Joined`, `Piece`), so that its height is a sum; that an index fits is then
arithmetic. For `HistoryContinuesInScreen`, `Upward` moves row `n + i` to row `i`
when the region is the whole screen, and a resize that takes rows away takes them
from the top.

**Keys and overlays.** What a message of `n` keys decodes to is a recursive
function of `n`. That such a function satisfies its equation is proved first
(`ChunksAre`), by induction from the well-foundedness of the naturals; by the same
induction, a message leaves the key machine in Prompt mode only if it was there
or one of its reactions opens a prompt (`ChunksTyped`). Hence `PromptInv`, which
`PromptModeHasPrompt` is not inductive without: the whole message is decoded
before its first reaction is carried out, so in between Prompt mode has a prompt
or one is still to come. For `LockstepKeyByKey`, `LoneInv` says of a
lone reaction that it finds the client as it was when a key bound to the same
was typed in step, or that it is the next of a line of commands
(`CommandsInStep`) and finds the keys with whatever is open: what ran the line
has closed what was open, and each command leaves it so, unless it is one of
those that `FindsInStep` names. These are the overlays that open past the key
machine, and commands that move the keymap when an earlier one of the line has;
there the property does not hold of the code (see "Keys and overlays" below).

**State file.** `FileInv` says, while no two servers have run at once: at most
one server is alive; if it serves, it has in memory all that is in the file, but
for what ended and what its start did not bring back (`SaverHasAll`), as it may
have read nothing, failed to decode the file or skipped a session; and the
temporary file is that of the save at hand, as far as it has come
(`SaveAtHand`). A rename then puts no less in the file than was there, but for
these, whatever was killed before it. A save need not be the tick's: `:save-state`
saves whatever is configured.

**Installs.** `HooksHaveWrapper` needs to speak of installs under way (`HooksInv`):
while there is no wrapper, no entry of lumux's is in the configuration, and no
install is past the step that writes the wrapper. For `InstallOwnsOnlyItsHooks`,
`OwnInv` says what the install holds in memory: what it read, pruned, and given
its hooks by the time it is written. That pruning takes only lumux's commands
out (`ItemsStay`) is shown for any groups of commands, by induction over the list
of groups. Of Kimi's lines, stripping the block leaves none of lumux's
(`Stripped`), for any lines that have them in blocks (`InBlocks`), which every
edit and every install keeps; and it leaves all of the user's (`UserLinesStay`,
from `KeptOfLeft` of `Lists_proofs`) for any lines where each opening comment is
closed before the user's next line (`Intact`). Where it is not, the code takes
the user's lines along, which the property leaves out.

**Connection.** In `ConnectionInv` an epoch names one frame, wherever it travels
or is kept (`Remembered`), also after the counter has come round, when the history
is dropped (`HistoryGiven`); no frame is missing between what
the server drew last, what is under way and what the client shows (`NoGap`);
the client asks for a detach once and gets its verdict first. The two queues are
sequences to which a handler may add several messages; the lemmas on `Follow`
carry the order over that.

**Lists.** `ListInv` is `DrawnIsCurrent` with types and with `StoredIsShown`: the
offsets that are stored for a client that is drawn are those on his screen. A
handler draws some clients and leaves others; whoever it leaves has
nothing of what he shows changed (`SparedSidebar`, `SparedView`), but for a stack
of buffers that another session changed (`elsewhere`). `Placed` is about
the model under the lists: a client's session exists, a window's row follows the
row of a session, a cursor is on a row or below the last, so that what a click or
Enter acts on is there. From it follows `SidebarStaysPut`: a message either leaves
the offsets to what the lists still allow (`Rescrolls`) or changes no list.

**Filtered lists.** `Chain` and `Kept` of `Lists` are recursive functions over the
length of a list. `ChainIs` proves, as `ChunksAre` does, that they satisfy their
equations; `UpFromEmpty` is induction over lists, for a set of them, from the
well-foundedness of the naturals; and with it `ChainOfMore`, `KeptOfMore` and
`KeptElements` say what one element more does and what is left in the end.

**Left to TLC.** Only liveness under fairness (`GoneAgentLosesRow`, `ExitIsNoticed`,
`EscapeReleasesKeys`, `ConnectionEnds`), which is beyond the prover. Every other
property of the passing runs is a theorem.

## 5. Divergences found

The five violated runs each quote a comment of the code that the code does not
keep; `PROJECT.json` has the lines. Further behaviour the models reproduce as
the code has it, without a run of its own:

Object model and panes:

- `rotate_panes` (M 308-312): the doc comment states the direction the other
  way round from what the chain of swaps does.
- `AgentLifecycle::clear` (D 238): a clear of another identity is ignored, while
  the comment at D 2684 reads as if every clear took the row.
- A `pane-exited` hook of `respawn-pane` replaces a shell that fails at once for
  ever (EL 3397).
- `do_split` and `do_new_window` (EL 3161-3194) leave the new pane in the model
  when its shell cannot be started, without terminal or route, and do not
  resize what it displaced. `pane_exits` includes such starts
  (`SpawnMayFail = TRUE`); `TerminalsGoWithPanes` speaks of the other direction,
  that no terminal is left without its pane. In `live`, where only the exits
  matter, every start succeeds.
- `join-pane` without `-s` takes the first other window when no pane is marked
  (EL 2963-3010).
- A zoom that dangles after a swap (`tree_zoom_swap`) also gives the pane that
  was swapped away the size of a window it is not in (`Views!Misfits`).

Keys and overlays:

- `set_config` (D 1197), run by a reload and by every `:set` of any client,
  rebuilds all key machines in Normal mode and leaves prompts, choosers, help
  and copy mode open. The keys then go to the pane under the overlay, and the
  toggle of help works the wrong way round until it is closed.
- Help, choosers and pane numbers bound without the prefix (`bind -n`), and
  `:display-panes`, open with the key machine in Normal mode: unlike prompts,
  the clock and copy mode, the daemon does not move it there (D 2057, 2106, 2163).
- Of a chain of commands, bound or typed at the prompt (EL 1572-1583, 2593-2609),
  each moves the keymap whatever the one before it opened: after `:clock-mode ;
  copy-mode` the clock is open and copy mode has the keys. `LockstepKeyByKey`
  leaves out this and the item before.
- The prefix key for copy mode on a full-screen application, or for the buffer
  chooser with no buffers, leaves the key machine in the mode of an overlay that
  did not open (D 1981, 2425); Escape ends that.
- Every key of a message is decoded before the first is acted on. `Enter`
  confirming a prompt resets the key machine when it is carried out (EL 2567),
  so a prefix decoded behind it in the same message is lost.
- A drag report for a pane that changed screens or asked for the mouse since the
  frame drops the selection but not the copy mode it opened (D 3600); the
  release then finds no selection to end. `ReleaseEndsCopyMode` is about the
  release while there is one, as the comment at D 3407 is.
- The wheel enters copy mode under an open prompt and takes its keys, against
  the comment at D 1655 that the keymap is kept in lockstep with prompts.

Lists and buffers:

- The buffer chooser keeps an index into a stack that all sessions share, and a
  change from another session redraws only that session: by one of its clients,
  or by a program that copies through OSC 52 in the output of one of its panes
  (D 1475-1479, EL 308-333). `Enter` then
  pastes, and delete removes, another buffer than the highlighted one (D 2014
  and 2029 say "the highlighted buffer"). `DrawnIsCurrent` names this case and no
  other.
- The list of the buffer chooser does not scroll; the cursor of choose-tree is
  stored unclamped and clamped where it is used; its "live preview" (D 4861) of
  another session is not redrawn by that session's output.
- The automatic name `buffer<N>` may meet a buffer that was named so explicitly.
- `run-shell` cuts its output at 256 KiB "so a huge dump is safe" (D 1960), by a
  byte index, which panics inside a UTF-8 character; and it waits for the
  command in the loop.

Copy mode and grid:

- Copy mode is not told that its pane was resized or its buffer lost lines: the
  height it scrolls by is that of its start, a cursor may lie below a buffer
  that shrank, and a search backwards or a yank then starts there.
  `CursorInView` is stated for the other states.
- A row keeps its length in the history when the pane is made narrower (EM
  662-677), and a yank takes rows at their own length (CM 317-329, 386-390), while
  the highlight ends at the pane's edge (CM 362-371, D 4720-4727). The yank then
  copies text that is neither shown nor highlighted, against CM 360-361 ("covers
  precisely what a yank would copy"). `HighlightIsYank` promises equality on rows
  as long as the pane is wide and speaks of the shown cells on the others.
- A pane that shrinks while an application is on the alternate screen drops the
  top rows of the put-aside primary screen, which the history gets on the
  primary screen (EM 659-720). Insert and delete line (EM 585-599) act to the
  bottom of the screen, whatever the scroll region.

Server, state file, connection:

- Two servers started at once unlink each other's live socket: UT 104 removes
  whatever is at the path, not only a "stale file", and each then saves to the
  same two files. `SavedSessionsKept` holds until two servers have run at once.
- A failing `accept` ends the accept loop and removes the path while the server
  goes on with its clients. A server that ends as it should leaves its socket
  in place.
- "An empty snapshot still writes" (D 1385), but the auto-save does not run for
  an empty server (EL 364).
- A server that did not restore overwrites the sessions of the state file with
  its own: once persistence is turned on in it (EL 363-369), or with
  `:save-state`, which saves whatever is configured (EL 2717-2725).
- A state file that cannot be read, or decoded, or is of another version is taken
  for none, and a session of it that does not add up is skipped (EL 262-285); the
  next save leaves out what was skipped. A session whose shells cannot be started
  is kept, without terminals (D 1414-1422). `SavedSessionsKept` names what the
  last start did not bring back (`unread`) as its exception.
- A client whose terminal is at end of file still waits for its reader thread,
  which ends with the next frame or with the connection.

Installers:

- Kimi's installer takes a `config.toml` it cannot read for an empty one and
  replaces it, while "malformed or unreadable files remain untouched"
  (common.rs:110). A block without its closing comment takes the rest of the
  file with it, the user's lines included (kimi.rs:130 says "leaving every other
  line untouched"; `InstallOwnsOnlyItsHooks` speaks of `Intact` lines).
- Claude's installer writes the wrapper before it looks whether `hooks.<event>`
  is an array; the others check first, so that a bad file "cannot leave a
  half-installed integration behind" (codex.rs:102).
- What the user changes between an install's read and its rename is
  overwritten. Cursor's installer drops event lists that were empty.

## 6. Plan

The modules of section 2 and the proofs of section 4 are done. What is left is
outside of what the models distinguish (section 7).

## 7. Not modelled

- Parsers and formatters: configuration (TOML and tmux), the command language,
  the status line, key names, the decoder of terminal input. They turn text into
  records or back and keep no state; what the rest sees of them enters the
  models as nondeterministic input.
- The byte interpreter in front of the grid, columns and attributes of a row,
  composition and diffing of screens, the encoding of frames. `Grid` starts
  from the parsed sequence, `Attach` from the message.
- Terminal modes of the client (raw mode, alternate screen, mouse reporting) and
  both backends' system calls; the Windows backend (ConPTY, named pipes) is left
  out altogether, except that a reader need not end.
- Detection of agents by process name and screen text, and the hook scripts of
  the agents other than the one `AgentLifecycle` follows, which send the same
  reports.
- In modelled components: the text of prompts and buffers, names and titles, and
  the layout inside a saved session. `PROJECT.json` lists each component with
  what is left out of it.
