----------------------------- MODULE ServerLife -----------------------------
(***************************************************************************)
(* The life of the server processes: started by a client that finds nobody *)
(* at the socket (attach.rs, server.rs), bound to the socket path          *)
(* (transport.rs of the Unix backend), the saved sessions restored, serving*)
(* (eventloop.rs), saving them now and then (daemon.rs), gone when emptied *)
(* or killed.                                                              *)
(*                                                                         *)
(* A server or a saved state is only as much as the names of its sessions; *)
(* what is in a session is left to the other modules.  A handler of the    *)
(* event loop is one step, except for a save, which other processes see    *)
(* the stages of.                                                          *)
(***************************************************************************)
EXTENDS Naturals, FiniteSets

CONSTANTS
  Servers,   \* server processes, each started at most once
  Clients,   \* attach clients
  Names,     \* of sessions
  Absent,    \* no server, no session, no file
  Torn       \* a file that is not written to its end

ASSUME FilesAssumption ==
  Absent # Torn /\ \A file \in SUBSET Names : file \notin {Absent, Torn}

VARIABLES
  path,      \* the server whose socket is at the path, if any
  phase,     \* server -> how far it got
  deaf,      \* servers whose accept loop has ended
  held,      \* server -> names of its sessions
  served,    \* servers that restored something or had a client
  persist,   \* server -> is it configured to save its sessions?
  saving,    \* server -> stage of its save
  client,    \* client -> what it is at, with which server, in which session
  config,    \* what the configuration file says about saving
  disk, tmp, \* the state file and the temporary file next to it
  ended,     \* history: sessions that ended since they were saved or restored
  overlapped, \* history: two servers have run at the same time
  unread     \* history: saved sessions that the last start did not bring back

server == <<phase, deaf, held, served, persist>>
files == <<disk, tmp>>
history == <<ended, overlapped, unread>>
serverVars == <<path, server, saving, client, config, files, history>>

-----------------------------------------------------------------------------
AtRest == [state |-> "idle", server |-> Absent, session |-> Absent]
Polling == [AtRest EXCEPT !.state = "polling"]
Asking(s) == [AtRest EXCEPT !.state = "asking", !.server = s]
Attached(s, n) == [state |-> "attached", server |-> s, session |-> n]

Alive == {s \in Servers : phase[s] \notin {"unborn", "gone"}}
AttachedTo(s) == {c \in Clients : client[c].state = "attached" /\ client[c].server = s}

\* UnixStream::connect succeeds: there is a socket at the path, and its
\* listener is there, whether or not somebody accepts yet.
Connectable(s) == path = s /\ phase[s] \in {"bound", "running"} /\ s \notin deaf

\* The loop is at its next message.
Serving(s) == phase[s] = "running" /\ saving[s] = "no"

\* The sessions that a restore would bring back: StateFile::decode refuses a
\* file that is not whole.
Saved(file) == IF file \in {Absent, Torn} THEN {} ELSE file

ServerInit ==
  /\ path = Absent /\ phase = [s \in Servers |-> "unborn"] /\ deaf = {}
  /\ held = [s \in Servers |-> {}] /\ served = {}
  /\ persist = [s \in Servers |-> FALSE] /\ saving = [s \in Servers |-> "no"]
  /\ client = [c \in Clients |-> AtRest]
  /\ config \in BOOLEAN /\ disk = Absent /\ tmp = Absent
  /\ ended = {} /\ overlapped = FALSE /\ unread = {}

-----------------------------------------------------------------------------
(* The client: platform::connect, connect_or_spawn, run_attach             *)

Connect(c, s) ==
  /\ client[c].state \in {"idle", "polling"} /\ Connectable(s)
  /\ client' = [client EXCEPT ![c] = Asking(s)]
  /\ UNCHANGED <<path, server, saving, config, files, history>>

\* Nobody is there: a server process is started, and polled for.
SpawnDaemon(c, s) ==
  /\ client[c].state = "idle" /\ ~ \E t \in Servers : Connectable(t)
  /\ phase[s] = "unborn"
  /\ phase' = [phase EXCEPT ![s] = "starting"]
  /\ client' = [client EXCEPT ![c] = Polling]
  /\ overlapped' = (overlapped \/ Alive # {})
  /\ UNCHANGED <<path, deaf, held, served, persist, saving, config, files, ended, unread>>

\* The deadline for the server to come up has passed.
GiveUp(c) ==
  /\ client[c].state = "polling"
  /\ client' = [client EXCEPT ![c] = AtRest]
  /\ UNCHANGED <<path, server, saving, config, files, history>>

-----------------------------------------------------------------------------
(* The start of a server: serve, UnixSocketListener::bind, run_with_config *)

\* bind removes whatever is at the path, then binds.
Unlink(s) ==
  /\ phase[s] = "starting"
  /\ path' = Absent
  /\ phase' = [phase EXCEPT ![s] = "unlinked"]
  /\ UNCHANGED <<deaf, held, served, persist, saving, client, config, files, history>>

\* If somebody else bound in between, serve returns the error.
Bind(s) ==
  /\ phase[s] = "unlinked"
  /\ path' = IF path = Absent THEN s ELSE path
  /\ phase' = [phase EXCEPT ![s] = IF path = Absent THEN "bound" ELSE "gone"]
  /\ UNCHANGED <<deaf, held, served, persist, saving, client, config, files, history>>

\* load_config, then restore_from_disk before the first message, if saving is
\* configured.  A file that cannot be read, or is of another version, brings
\* nothing back, and a session that does not add up is skipped.
Start(s) ==
  /\ phase[s] = "bound"
  /\ phase' = [phase EXCEPT ![s] = "running"]
  /\ persist' = [persist EXCEPT ![s] = config]
  /\ \E restored \in IF config THEN SUBSET Saved(disk) ELSE {{}} :
       /\ held' = [held EXCEPT ![s] = restored]
       /\ served' = IF restored # {} THEN served \cup {s} ELSE served
       /\ ended' = ended \ restored
       /\ unread' = Saved(disk) \ restored
  /\ UNCHANGED <<path, deaf, saving, client, config, files, overlapped>>

-----------------------------------------------------------------------------
(* The end of a process, which takes its memory and connections along.  It *)
(* removes neither its socket, as the accept thread never drops the        *)
(* listener, nor its files.                                                *)

End(s) ==
  /\ phase' = [phase EXCEPT ![s] = "gone"]
  /\ deaf' = deaf \ {s} /\ served' = served \ {s}
  /\ held' = [held EXCEPT ![s] = {}] /\ persist' = [persist EXCEPT ![s] = FALSE]
  /\ saving' = [saving EXCEPT ![s] = "no"]
  /\ client' = [c \in Clients |-> IF client[c].server = s THEN AtRest ELSE client[c]]

-----------------------------------------------------------------------------
(* The event loop                                                          *)

\* A message of the loop: the sessions and clients it leaves, whether it counts
\* as service, and the check at the end of the loop's body, on which the loop
\* ends.
Message(s, sessions, clients, counts) ==
  /\ Serving(s)
  /\ IF /\ counts \/ s \in served
        /\ sessions = {}
        /\ \A c \in Clients : clients[c].server = s => clients[c].state # "attached"
     THEN End(s)
     ELSE /\ held' = [held EXCEPT ![s] = sessions]
          /\ served' = IF counts THEN served \cup {s} ELSE served
          /\ client' = clients
          /\ UNCHANGED <<phase, deaf, persist, saving>>
  /\ UNCHANGED <<path, config, files, overlapped>>

\* on_connect, resolve_attach: to a session that is there, to a new one, or
\* rejected (the name is taken, the shell does not start).
HandleAttach(s, c) ==
  /\ client[c] = Asking(s)
  /\ \/ \E n \in held[s] : Message(s, held[s], [client EXCEPT ![c] = Attached(s, n)], TRUE)
     \/ \E n \in Names \ held[s] :
          Message(s, held[s] \cup {n}, [client EXCEPT ![c] = Attached(s, n)], TRUE)
     \/ Message(s, held[s], [client EXCEPT ![c] = AtRest], TRUE)
  /\ UNCHANGED <<ended, unread>>

\* Msg::ClientGone.
HandleGone(s, c) ==
  /\ c \in AttachedTo(s)
  /\ Message(s, held[s], [client EXCEPT ![c] = AtRest], FALSE)
  /\ UNCHANGED <<ended, unread>>

\* A session of which the last pane exits or that is killed takes its clients
\* along.
HandleSessionEnd(s, n) ==
  /\ n \in held[s]
  /\ Message(s, held[s] \ {n},
             [c \in Clients |-> IF client[c] = Attached(s, n) THEN AtRest ELSE client[c]], FALSE)
  /\ ended' = ended \cup {n}
  /\ UNCHANGED unread

\* new-session by key or prompt.
HandleNewSession(s, n) ==
  /\ AttachedTo(s) # {} /\ n \notin held[s]
  /\ Message(s, held[s] \cup {n}, client, FALSE)
  /\ UNCHANGED <<ended, unread>>

\* A one-shot command (send_command, Msg::Control) finds a server or prints
\* that there is none.
HandleControl(s) ==
  /\ Connectable(s)
  /\ Message(s, held[s], client, TRUE)
  /\ UNCHANGED <<ended, unread>>

HandleKillServer(s) ==
  /\ Connectable(s)
  /\ Message(s, {}, [c \in Clients |-> IF c \in AttachedTo(s) THEN AtRest ELSE client[c]], TRUE)
  /\ ended' = ended \cup held[s]
  /\ UNCHANGED unread

\* reload_config and source-file.
HandleReload(s) ==
  /\ Serving(s) /\ persist[s] # config
  /\ persist' = [persist EXCEPT ![s] = config]
  /\ UNCHANGED <<path, phase, deaf, held, served, saving, client, config, files, history>>

EditConfig ==
  /\ config' = ~ config
  /\ UNCHANGED <<path, server, saving, client, files, history>>

-----------------------------------------------------------------------------
(* A save: Msg::Tick, `:save-state`, Daemon::save_state                    *)

\* The tick saves what sessions there are, if saving is configured; the command
\* of an attached client saves whatever is configured and was restored.
SaveDue(s) == Serving(s) /\ ((persist[s] /\ held[s] # {}) \/ AttachedTo(s) # {})

\* Seeded fault: the state file itself is opened for writing.
SaveOpenInPlace(s) ==
  /\ SaveDue(s)
  /\ saving' = [saving EXCEPT ![s] = "open"]
  /\ tmp' = Absent /\ disk' = Torn
  /\ UNCHANGED <<path, server, client, config, history>>

\* The temporary file is emptied.
SaveOpen(s) ==
  /\ SaveDue(s)
  /\ saving' = [saving EXCEPT ![s] = "open"]
  /\ tmp' = Torn
  /\ UNCHANGED <<path, server, client, config, disk, history>>

\* If another server has renamed the file meanwhile, this one writes to it
\* under its new name.
SaveWrite(s) ==
  /\ saving[s] = "open"
  /\ saving' = [saving EXCEPT ![s] = "written"]
  /\ IF tmp # Absent THEN tmp' = held[s] /\ UNCHANGED disk
     ELSE disk' = held[s] /\ UNCHANGED tmp
  /\ UNCHANGED <<path, server, client, config, history>>

\* The error of a failed write is ignored; the temporary file stays.
SaveFails(s) ==
  /\ saving[s] = "open"
  /\ saving' = [saving EXCEPT ![s] = "no"]
  /\ UNCHANGED <<path, server, client, config, files, history>>

SaveRename(s) ==
  /\ saving[s] = "written"
  /\ saving' = [saving EXCEPT ![s] = "no"]
  /\ IF tmp # Absent THEN disk' = tmp /\ tmp' = Absent ELSE UNCHANGED files
  /\ ended' = {} /\ unread' = {}
  /\ UNCHANGED <<path, server, client, config, overlapped>>

-----------------------------------------------------------------------------
(* Failures                                                                *)

\* The process is killed, at any stage; what is on disk and at the path stays.
Crash(s) ==
  /\ s \in Alive
  /\ End(s)
  /\ UNCHANGED <<path, config, files, history>>

\* An error of accept ends the accept loop for good; dropping the listener
\* resets what is not accepted and removes what is at the path, even if it is
\* the socket of another server.
AcceptFails(s) ==
  /\ phase[s] = "running" /\ s \notin deaf
  /\ deaf' = deaf \cup {s}
  /\ path' = Absent
  /\ \E refused \in SUBSET {c \in Clients : client[c] = Asking(s)} :
       client' = [c \in Clients |-> IF c \in refused THEN AtRest ELSE client[c]]
  /\ UNCHANGED <<phase, held, served, persist, saving, config, files, history>>

-----------------------------------------------------------------------------
Handles(s) ==
  \/ \E c \in Clients : HandleAttach(s, c) \/ HandleGone(s, c)
  \/ \E n \in Names : HandleSessionEnd(s, n) \/ HandleNewSession(s, n)
  \/ HandleControl(s) \/ HandleKillServer(s) \/ HandleReload(s)

ServerNext ==
  \/ EditConfig
  \/ \E c \in Clients :
       GiveUp(c) \/ \E s \in Servers : Connect(c, s) \/ SpawnDaemon(c, s)
  \/ \E s \in Servers :
       \/ Unlink(s) \/ Bind(s) \/ Start(s)
       \/ Handles(s)
       \/ SaveOpen(s) \/ SaveWrite(s) \/ SaveFails(s) \/ SaveRename(s)
       \/ Crash(s) \/ AcceptFails(s)

ServerSpec == ServerInit /\ [][ServerNext]_serverVars

-----------------------------------------------------------------------------
(* Properties                                                              *)

\* A session that is in the state file stays in it until it ended: no crash in
\* the middle of a save, no restart and no later save loses it, if the server
\* that started last brought it back or saved it itself.  What that one did not
\* bring back, as saving was off or the restore left it out, is gone with its
\* first save; and once two servers have run at the same time anything may be,
\* as they share both files (see README).
SavedSessionsKept ==
  [][Saved(disk) \ Saved(disk') \subseteq ended \cup unread \/ overlapped]_serverVars
=============================================================================
