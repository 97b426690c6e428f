------------------------------- MODULE Attach -------------------------------
(***************************************************************************)
(* One attach client and its connection, from both ends: the threads of    *)
(* the client (attach.rs), the reader and writer threads of the server     *)
(* that serve it, and what the event loop does for it (eventloop.rs).      *)
(*                                                                         *)
(* The channels between the server's threads and the socket between the    *)
(* processes make one queue in each direction.  Frames are numbered by     *)
(* epochs; of a frame only its view is kept, which stands for what a click *)
(* on it would hit.  The client sends with its input the epoch of the      *)
(* frame it has on the screen.                                             *)
(***************************************************************************)
EXTENDS Naturals, SequencesExt

CONSTANTS
  Views,         \* what may be in front of the client
  Absent,
  HistoryLimit,  \* frames the server remembers (FRAME_HISTORY_LIMIT)
  LastEpoch,     \* the largest epoch; after it comes 1 (u64::MAX)
  MaxFrames,     \* messages on the way to the client
  MaxInputs      \* messages on the way to the server

ASSUME EpochsAssumption == LastEpoch \in Nat \ {0} /\ HistoryLimit \in Nat

VARIABLES
  \* the server
  alive,       \* the process runs
  registered,  \* the loop has a handle of the client
  view,        \* what the client should see
  next_frame_epoch, frame_history, \* of the handle
  pending_mouse, \* the epoch with the first part of a split mouse report
  writing,     \* the writer thread has not written Detached
  \* the connection
  toClient, toServer,
  \* the client
  main,        \* "verdict", "reading", "joining", "gone"
  reader,      \* "running", "publishing", "stopped"
  resizer,     \* "running", "stopped"
  terminal,    \* "open", "closed"
  screen,      \* the frame that was written to the terminal last
  applied,     \* the published frame, as the input thread sees it
  split,       \* the terminal is in the middle of a mouse report
  hits         \* history: what the last report acted on, what it was meant for

handle == <<registered, view, next_frame_epoch, frame_history, pending_mouse>>
srv == <<alive, handle, writing>>
threads == <<main, reader, resizer>>
cli == <<threads, terminal, screen, applied, split>>
attachVars == <<srv, toClient, toServer, cli, hits>>

-----------------------------------------------------------------------------
Frame(e, v) == [kind |-> "FrameAt", epoch |-> e, view |-> v]
Message(kind) == [kind |-> kind, epoch |-> 0, view |-> Absent]
NoFrame == Frame(0, Absent)

Ends == {"Detached", "SessionClosed"}
Rest(q) == Tail(q)
Kinds(q) == {q[i].kind : i \in DOMAIN q}

AttachInit ==
  /\ alive = TRUE /\ registered = FALSE /\ view \in Views
  /\ next_frame_epoch = 1 /\ frame_history = << >> /\ pending_mouse = Absent
  /\ writing = TRUE
  /\ toClient = << >> /\ toServer = <<Message("Attach")>>
  /\ main = "verdict" /\ reader = "running" /\ resizer = "running"
  /\ terminal = "open" /\ screen = NoFrame /\ applied = NoFrame /\ split = FALSE
  /\ hits = NoFrame

-----------------------------------------------------------------------------
(* The event loop                                                          *)

\* The writer thread writes what the loop sends, until it has written
\* Detached or the client is gone.
Send(messages) ==
  LET sent == IF writing /\ main # "gone" THEN toClient \o messages ELSE toClient
  IN  /\ toClient' = sent
      /\ writing' = (writing /\ "Detached" \notin Kinds(messages))

\* Bound: the queue to the client; and the counter has not come full circle
\* while an epoch is still in use somewhere.
MayEmit ==
  /\ Len(toClient) < MaxFrames
  /\ \A f \in ToSet(toClient) \cup ToSet(toServer) \cup {screen, applied} :
       f.epoch # next_frame_epoch
  /\ pending_mouse # Absent => pending_mouse.epoch # next_frame_epoch

\* The history after one more frame: emptied when the counter is at its end.
Remember(f) ==
  LET kept == (IF f.epoch = LastEpoch THEN << >> ELSE frame_history) \o <<f>>
  IN  IF Len(kept) > HistoryLimit THEN Rest(kept) ELSE kept

\* flush_renders, emit_client: the frame after a message, for view v.
Emit(v, before) ==
  /\ MayEmit
  /\ view' = v
  /\ frame_history' = Remember(Frame(next_frame_epoch, v))
  /\ next_frame_epoch' = IF next_frame_epoch = LastEpoch THEN 1 ELSE next_frame_epoch + 1
  /\ Send(before \o <<Frame(next_frame_epoch, v)>>)

\* Nothing to write and the same view.
EmitNothing == UNCHANGED <<view, frame_history, next_frame_epoch, toClient, writing>>

\* on_connect: the client is rejected, or it is told that it is attached before
\* it gets its first frame.
HandleAttach ==
  /\ alive /\ toServer # << >> /\ Head(toServer).kind = "Attach"
  /\ toServer' = Rest(toServer)
  /\ \/ /\ registered' = TRUE
        /\ Emit(view, <<Message("Attached")>>)
     \/ /\ UNCHANGED <<registered, view, frame_history, next_frame_epoch>>
        /\ Send(<<Message("Error"), Message("Detached")>>)
  /\ UNCHANGED <<alive, pending_mouse, cli, hits>>

\* The handle goes, and what it held.
Forget ==
  /\ registered' = FALSE
  /\ next_frame_epoch' = 1 /\ frame_history' = << >> /\ pending_mouse' = Absent
  /\ hits' = NoFrame

\* Any other message of the loop that changes what the client sees: output of
\* panes, other clients, agents, the tick.
HandleOther(v) ==
  /\ alive /\ registered
  /\ Emit(v, << >>)
  /\ UNCHANGED <<alive, registered, pending_mouse, toServer, cli, hits>>

\* Seeded fault: an epoch that is not remembered is taken for the latest.
InputFrameGuesses(epoch) ==
  LET found == {i \in DOMAIN frame_history : frame_history[i].epoch = epoch}
  IN  IF found = {} THEN Last(frame_history) ELSE frame_history[CHOOSE i \in found : TRUE]

\* input_frame: the frame that an epoch names, if it is remembered.
InputFrame(epoch) ==
  LET found == {i \in DOMAIN frame_history : frame_history[i].epoch = epoch}
  IN  IF found = {} THEN NoFrame ELSE frame_history[CHOOSE i \in found : \A j \in found : i <= j]

\* on_input, extract_and_handle_mouse.  A report in two parts belongs to the
\* frame of its first part.  The view may be another one afterwards.
HandleInput ==
  /\ alive /\ toServer # << >> /\ Head(toServer).kind \in {"Whole", "First", "Second"}
  /\ toServer' = Rest(toServer)
  /\ LET m == Head(toServer)
         start == IF pending_mouse # Absent THEN pending_mouse ELSE m
     IN  IF ~ registered
         THEN UNCHANGED <<pending_mouse, hits>> /\ EmitNothing
         ELSE IF m.kind = "First"
         THEN pending_mouse' = m /\ UNCHANGED hits /\ EmitNothing
         ELSE /\ pending_mouse' = Absent
              /\ hits' = [meant |-> start.view, got |-> InputFrame(start.epoch).view]
              /\ \/ \E v \in Views : Emit(v, << >>)
                 \/ EmitNothing
  /\ UNCHANGED <<alive, registered, cli>>

\* ClientMsg::Resize.
HandleResize ==
  /\ alive /\ toServer # << >> /\ Head(toServer).kind = "Resize"
  /\ toServer' = Rest(toServer)
  /\ \/ registered /\ Emit(view, << >>)
     \/ EmitNothing
  /\ UNCHANGED <<alive, registered, pending_mouse, cli, hits>>

\* detach-client: the handle stays until the connection ends.
HandleDetach ==
  /\ alive /\ registered /\ writing
  /\ Send(<<Message("Detached")>>)
  /\ UNCHANGED <<alive, handle, toServer, cli, hits>>

\* The session ends (kill_whole_session, on_pane_exit).
HandleSessionEnd ==
  /\ alive /\ registered
  /\ Forget
  /\ Send(<<Message("SessionClosed"), Message("Detached")>>)
  /\ UNCHANGED <<alive, view, toServer, cli>>

\* Msg::ClientGone, from the reader thread at the end of the connection.
HandleGone ==
  /\ alive /\ registered /\ main = "gone" /\ toServer = << >>
  /\ Forget
  /\ UNCHANGED <<alive, view, writing, toClient, toServer, cli>>

\* The server is killed; what its writer had not written is lost.
ServerDies ==
  /\ alive /\ alive' = FALSE /\ Forget
  /\ \E n \in 0 .. Len(toClient) : toClient' = SubSeq(toClient, 1, n)
  /\ toServer' = << >>
  /\ UNCHANGED <<view, writing, cli>>

-----------------------------------------------------------------------------
(* The client                                                              *)

Eof == toClient = << >> /\ ~ alive

\* The process is gone, its sockets closed; the server still reads what was
\* sent.
Leave ==
  /\ main' = "gone" /\ reader' = "stopped" /\ resizer' = "stopped"
  /\ screen' = NoFrame /\ applied' = NoFrame /\ split' = FALSE

Stay == UNCHANGED <<screen, applied, split>>

\* run_attach waits for the verdict, and ignores whatever else comes first.
TakeVerdict ==
  /\ main = "verdict"
  /\ \/ /\ Eof /\ Leave /\ UNCHANGED toClient
     \/ /\ toClient # << >>
        /\ CASE Head(toClient).kind = "Attached" ->
                  /\ main' = "reading" /\ toClient' = Rest(toClient)
                  /\ UNCHANGED <<reader, resizer>> /\ Stay
             [] Head(toClient).kind = "Error" -> Leave /\ toClient' = << >>
             [] OTHER -> toClient' = Rest(toClient) /\ UNCHANGED threads /\ Stay
  /\ UNCHANGED <<srv, toServer, terminal, hits>>

\* Seeded fault: the reader thread ends without a word.
ReaderStopsSilently ==
  /\ main \in {"reading", "joining"} /\ reader = "running"
  /\ \/ Eof /\ UNCHANGED toClient
     \/ /\ toClient # << >> /\ Head(toClient).kind \in Ends
        /\ toClient' = Rest(toClient)
  /\ reader' = "lost"
  /\ UNCHANGED <<srv, toServer, main, resizer, terminal, screen, applied, split, hits>>

\* The reader thread ends on the server's word (reader_action), at the end of
\* the connection, or when the terminal takes no more; it leaves `done` set.
ReaderStops ==
  /\ main \in {"reading", "joining"} /\ reader = "running"
  /\ \/ Eof /\ UNCHANGED toClient
     \/ /\ toClient # << >>
        /\ (Head(toClient).kind \in Ends \/ terminal = "closed")
        /\ toClient' = Rest(toClient)
  /\ reader' = "stopped"
  /\ UNCHANGED <<srv, toServer, main, resizer, terminal, screen, applied, split, hits>>

\* It writes a frame to the terminal, and then publishes its epoch.
ReaderWrites ==
  /\ main \in {"reading", "joining"} /\ reader = "running"
  /\ toClient # << >> /\ Head(toClient).kind = "FrameAt" /\ terminal = "open"
  /\ toClient' = Rest(toClient)
  /\ screen' = Head(toClient)
  /\ reader' = "publishing"
  /\ UNCHANGED <<srv, toServer, main, resizer, terminal, applied, split, hits>>

ReaderPublishes ==
  /\ main \in {"reading", "joining"} /\ reader = "publishing"
  /\ applied' = screen
  /\ reader' = "running"
  /\ UNCHANGED <<srv, toClient, toServer, main, resizer, terminal, screen, split, hits>>

\* The main thread reads a mouse report, or part of one, and sends it with the
\* published epoch; if that fails it goes no further.
MainReads ==
  /\ main = "reading" /\ terminal = "open" /\ Len(toServer) < MaxInputs
  /\ \E kind \in IF split THEN {"Second"} ELSE {"Whole", "First"} :
       /\ split' = (kind = "First")
       /\ IF alive
          THEN /\ toServer' = Append(toServer, [applied EXCEPT !.kind = kind])
               /\ UNCHANGED main
          ELSE main' = "joining" /\ UNCHANGED toServer
  /\ UNCHANGED <<srv, toClient, reader, resizer, terminal, screen, applied, hits>>

\* It stops when the reader has, or when the terminal is at its end.
MainStops ==
  /\ main = "reading"
  /\ (reader = "stopped" \/ terminal = "closed")
  /\ main' = "joining"
  /\ UNCHANGED <<srv, toClient, toServer, reader, resizer, terminal, screen, applied, split, hits>>

\* The resize thread polls the size of the terminal.
ResizerSends ==
  /\ main \in {"reading", "joining"} /\ resizer = "running" /\ reader # "stopped"
  /\ Len(toServer) < MaxInputs
  /\ IF alive THEN toServer' = Append(toServer, Message("Resize")) /\ UNCHANGED resizer
     ELSE resizer' = "stopped" /\ UNCHANGED toServer
  /\ UNCHANGED <<srv, toClient, main, reader, terminal, screen, applied, split, hits>>

ResizerStops ==
  /\ main \in {"reading", "joining"} /\ resizer = "running" /\ reader = "stopped"
  /\ resizer' = "stopped"
  /\ UNCHANGED <<srv, toClient, toServer, main, reader, terminal, screen, applied, split, hits>>

\* The main thread has joined both others.
MainEnds ==
  /\ main = "joining" /\ reader = "stopped" /\ resizer = "stopped"
  /\ Leave /\ toClient' = << >>
  /\ UNCHANGED <<srv, toServer, terminal, hits>>

TerminalCloses ==
  /\ terminal = "open" /\ main # "gone"
  /\ terminal' = "closed"
  /\ UNCHANGED <<srv, toClient, toServer, threads, screen, applied, split, hits>>

ClientDies ==
  /\ main # "gone"
  /\ Leave /\ toClient' = << >>
  /\ UNCHANGED <<srv, toServer, terminal, hits>>

-----------------------------------------------------------------------------
Server ==
  \/ HandleAttach \/ HandleInput \/ HandleResize \/ HandleGone
  \/ HandleDetach \/ HandleSessionEnd \/ ServerDies
  \/ \E v \in Views : HandleOther(v)

Client ==
  \/ TakeVerdict
  \/ ReaderStops \/ ReaderWrites \/ ReaderPublishes
  \/ MainReads \/ MainStops \/ MainEnds
  \/ ResizerSends \/ ResizerStops
  \/ TerminalCloses \/ ClientDies

AttachNext == Server \/ Client

AttachSpec == AttachInit /\ [][AttachNext]_attachVars

\* The loop takes its messages in turn, and each thread of the client gets on.
AttachFairness ==
  /\ WF_attachVars(HandleAttach \/ HandleInput \/ HandleResize \/ HandleGone)
  /\ WF_attachVars(TakeVerdict)
  /\ WF_attachVars(ReaderStops \/ ReaderWrites \/ ReaderPublishes)
  /\ WF_attachVars(MainStops) /\ WF_attachVars(ResizerStops) /\ WF_attachVars(MainEnds)

AttachFairSpec == AttachSpec /\ AttachFairness

-----------------------------------------------------------------------------
(* Properties                                                              *)

\* A mouse report acts on the frame that was published on the client when it
\* was read, however many frames and messages are under way and although it
\* comes in two parts; if the server does not remember that frame, it acts on
\* nothing.  And the client writes every frame, in order: each is a difference
\* to the one before.
ClicksHitWhatWasSeen ==
  /\ [](hits = NoFrame \/ hits.got \in {hits.meant, Absent})
  /\ [][screen' \notin {screen, NoFrame} =>
          screen'.epoch = IF screen.epoch = LastEpoch THEN 1 ELSE screen.epoch + 1]_attachVars

\* A client ends once the server has let it go or is gone, or once a frame
\* comes for a terminal that is closed; and the server forgets a client that
\* is gone, so that it no longer counts for the size of the session.
ConnectionEnds ==
  /\ (~ alive \/ Kinds(toClient) \cap Ends # {} \/ (terminal = "closed" /\ toClient # << >>))
       ~> main = "gone"
  /\ main = "gone" ~> ~ registered
=============================================================================
