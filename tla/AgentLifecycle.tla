--------------------------- MODULE AgentLifecycle ---------------------------
(***************************************************************************)
(* The agent row of one pane (lumux-core agent.rs; lumux-server daemon.rs, *)
(* `AgentLifecycle` and the report / clear / detection handlers).          *)
(*                                                                         *)
(* Agents self-report through hook processes that run independently of     *)
(* each other: a hook stamps its event when it starts, and its report or   *)
(* clear reaches the daemon whenever the process gets that far, in any     *)
(* order, or never.  The daemon also scans the pane's processes.           *)
(*                                                                         *)
(* An identity stands for the pair (agent label, owner).  Owned ones name  *)
(* one session of one process and are started once; an unowned one is a    *)
(* legacy reporter, and every report of it is a claim.                     *)
(***************************************************************************)
EXTENDS Naturals

CONSTANTS
  Owned, Unowned,       \* identities with an owner, and without
  NoAgent,              \* the identity of nobody
  MaxStamp,             \* bound: events stamped, over all the hooks
  Lossy,                \* may a hook die before its message is delivered?
  AgentsOutliveScan     \* is every agent seen by a scan before it exits?

ASSUME IdentitiesAssumption ==
  /\ Owned \cap Unowned = {} /\ NoAgent \notin Owned \cup Unowned
  /\ MaxStamp \in Nat /\ Lossy \in BOOLEAN /\ AgentsOutliveScan \in BOOLEAN

Identities == Owned \cup Unowned

VARIABLES
  lifecycle,   \* the pane's entry in agent_lifecycles
  detected,    \* the pane is in detected_agents
  watched,     \* the pane is rendered for a client that may observe it
  dead,        \* the pane's shell exited and remain-on-exit kept the pane
  inflight,    \* messages of hooks that have not reached the daemon
  clock,       \* the next event stamp
  running,     \* the agent in the pane's foreground
  startedAt,   \* identity -> stamp of its last start, 0 before the first
  exitedAt,    \* owned identity -> stamp of its exit hook, 0 if none
  lost         \* history: identities a message of which was lost

vars == <<lifecycle, detected, watched, dead, inflight, clock, running,
          startedAt, exitedAt, lost>>

env == <<inflight, clock, running, startedAt, exitedAt, lost>>

-----------------------------------------------------------------------------
(* AgentStatus: `done` is stored as an idle the user has not seen          *)

States == {"idle", "working", "blocked", "unknown"}
NoStatus == [state |-> "none", acknowledged |-> TRUE]

\* Seeded fault: `done` is stored as it came.
NewStatusStoresDone(state) == [state |-> state, acknowledged |-> TRUE]

NewStatus(state) ==
  IF state = "done" THEN [state |-> "idle", acknowledged |-> FALSE]
  ELSE [state |-> state, acknowledged |-> TRUE]

\* apply_report for the agent already shown: idle after anything but a seen
\* idle is an unseen completion.
ApplyReport(status, state) ==
  IF state = "idle" THEN
    [state |-> "idle",
     acknowledged |-> status.state = "idle" /\ status.acknowledged]
  ELSE NewStatus(state)

Done(l) == l.status.state = "idle" /\ ~l.status.acknowledged

\* acknowledge_agent.
Acknowledged(l) ==
  IF Done(l) THEN [l EXCEPT !.status.acknowledged = TRUE] ELSE l

-----------------------------------------------------------------------------
(* AgentLifecycle: the latest accepted event                               *)

Vacant == [identity |-> NoAgent, sequence |-> 0, status |-> NoStatus]

Entry(m, status) ==
  [identity |-> m.identity, sequence |-> m.sequence, status |-> status]

Shown(i) == lifecycle.identity = i /\ lifecycle.status # NoStatus

\* Seeded faults for Reported: stale reports are taken; a new owner derives its
\* state from the old one's.
ReportedInAnyOrder(l, m) ==
  IF l = Vacant \/ m.claim \/ (m.identity = l.identity /\ l.status # NoStatus)
  THEN Entry(m, IF m.identity = l.identity /\ l.status # NoStatus
                THEN ApplyReport(l.status, m.state) ELSE NewStatus(m.state))
  ELSE l

ReportedInherits(l, m) ==
  IF l = Vacant THEN Entry(m, NewStatus(m.state))
  ELSE IF m.sequence <= l.sequence \/ (m.identity # l.identity /\ ~m.claim) THEN l
  ELSE Entry(m, IF l.status # NoStatus THEN ApplyReport(l.status, m.state)
                ELSE NewStatus(m.state))

\* report: a stale one is dropped; so is one from another identity, or from
\* an owned one that has ended, unless it claims the pane.
Reported(l, m) ==
  LET same     == m.identity = l.identity
      ended    == l.status = NoStatus /\ l.identity \in Owned
      rejected == \/ m.sequence <= l.sequence
                  \/ (~same \/ ended) /\ ~m.claim
  IN  IF l = Vacant THEN Entry(m, NewStatus(m.state))
      ELSE IF rejected THEN l
      ELSE Entry(m, IF same /\ l.status # NoStatus
                    THEN ApplyReport(l.status, m.state)
                    ELSE NewStatus(m.state))

\* Seeded fault: stale clears are taken.
ClearedInAnyOrder(l, m) ==
  IF l # Vacant /\ m.identity # l.identity THEN l ELSE Entry(m, NoStatus)

\* clear: only the exact lifecycle, and it leaves a tombstone.
Cleared(l, m) ==
  IF l # Vacant /\ (m.identity # l.identity \/ m.sequence <= l.sequence) THEN l
  ELSE Entry(m, NoStatus)

-----------------------------------------------------------------------------
Init ==
  /\ lifecycle = Vacant
  /\ detected = FALSE
  /\ watched \in BOOLEAN
  /\ dead = FALSE
  /\ inflight = {}
  /\ clock = 1
  /\ running = NoAgent
  /\ startedAt = [i \in Identities |-> 0]
  /\ exitedAt = [i \in Owned |-> 0]
  /\ lost = {}

\* The hooks (outside the daemon) ------------------------------------------

Emit(kind, i, claim, state) ==
  /\ clock <= MaxStamp
  /\ inflight' = inflight \cup
       {[kind |-> kind, identity |-> i, claim |-> claim \/ i \in Unowned,
         state |-> state, sequence |-> clock]}
  /\ clock' = clock + 1

\* A session starts, in a new process or in the one that was running.
Start(i) ==
  /\ ~dead
  /\ i \in Owned => startedAt[i] = 0
  /\ running # i
  /\ Emit("report", i, TRUE, "idle")
  /\ running' = i
  /\ startedAt' = [startedAt EXCEPT ![i] = clock]
  /\ UNCHANGED <<lifecycle, detected, watched, dead, exitedAt, lost>>

\* A prompt is submitted (which claims the pane), a tool runs, input is asked
\* for, or the turn stops; `done` is the legacy report of completion.
Hook(claim, state) ==
  /\ running # NoAgent
  /\ Emit("report", running, claim, state)
  /\ UNCHANGED <<lifecycle, detected, watched, dead, running, startedAt,
                 exitedAt, lost>>

Hooks == {<<TRUE, "working">>, <<FALSE, "working">>, <<FALSE, "blocked">>,
          <<FALSE, "idle">>, <<FALSE, "done">>}

\* The agent exits and its exit hook runs.
Exit ==
  /\ running # NoAgent
  /\ AgentsOutliveScan => detected
  /\ Emit("clear", running, FALSE, "unknown")
  /\ exitedAt' = [i \in Owned |-> IF i = running THEN clock ELSE exitedAt[i]]
  /\ running' = NoAgent
  /\ UNCHANGED <<lifecycle, detected, watched, dead, startedAt, lost>>

\* The agent is killed: no exit hook.
Crash ==
  /\ running # NoAgent
  /\ AgentsOutliveScan => detected
  /\ running' = NoAgent
  /\ UNCHANGED <<lifecycle, detected, watched, dead, inflight, clock,
                 startedAt, exitedAt, lost>>

Lose(m) ==
  /\ Lossy
  /\ inflight' = inflight \ {m}
  /\ lost' = lost \cup {m.identity}
  /\ UNCHANGED <<lifecycle, detected, watched, dead, clock, running,
                 startedAt, exitedAt>>

\* The daemon ---------------------------------------------------------------

\* Command::ReportAgentState: whatever becomes of the report, a completion in
\* a pane that is being watched has been seen.
DeliverReport(m) ==
  LET l == IF dead THEN lifecycle ELSE Reported(lifecycle, m)
  IN  /\ m.kind = "report"
      /\ lifecycle' = IF watched THEN Acknowledged(l) ELSE l
      /\ inflight' = inflight \ {m}
      /\ UNCHANGED <<detected, watched, dead, clock, running, startedAt,
                     exitedAt, lost>>

\* Command::ClearAgentState.
DeliverClear(m) ==
  /\ m.kind = "clear"
  /\ lifecycle' = IF dead THEN lifecycle ELSE Cleared(lifecycle, m)
  /\ inflight' = inflight \ {m}
  /\ UNCHANGED <<detected, watched, dead, clock, running, startedAt, exitedAt, lost>>

\* Seeded fault: the hook status outlives the process that reported it.
ScanKeepsStatus ==
  /\ detected' = (running # NoAgent)
  /\ UNCHANGED <<lifecycle, watched, dead, env>>

\* refresh_detected_agents: when a detected agent is gone, so is its status;
\* the sequence is not advanced.
Scan ==
  /\ detected' = (running # NoAgent)
  /\ lifecycle' = IF detected /\ running = NoAgent
                  THEN [lifecycle EXCEPT !.status = NoStatus] ELSE lifecycle
  /\ UNCHANGED <<watched, dead, env>>

\* Seeded fault: coming into view acknowledges nothing.
WatchOnlyShows ==
  /\ ~watched
  /\ watched' = TRUE
  /\ UNCHANGED <<lifecycle, detected, dead, env>>

\* The pane becomes visible (and what it shows has been seen), or hidden.
Watch ==
  /\ ~watched
  /\ watched' = TRUE
  /\ lifecycle' = Acknowledged(lifecycle)
  /\ UNCHANGED <<detected, dead, env>>

Unwatch ==
  /\ watched
  /\ watched' = FALSE
  /\ UNCHANGED <<lifecycle, detected, dead, env>>

\* The shell exits, taking the agent with it, and remain-on-exit keeps the
\* pane (pane_exited); later it is respawned (respawn_pane).
PaneExited ==
  /\ ~dead
  /\ AgentsOutliveScan /\ running # NoAgent => detected
  /\ dead' = TRUE
  /\ lifecycle' = Vacant
  /\ running' = NoAgent
  /\ UNCHANGED <<detected, watched, inflight, clock, startedAt, exitedAt, lost>>

RespawnPane ==
  /\ dead
  /\ dead' = FALSE
  /\ UNCHANGED <<lifecycle, detected, watched, env>>

Deliver == \E m \in inflight : DeliverReport(m) \/ DeliverClear(m)

Next ==
  \/ \E i \in Identities : Start(i)
  \/ \E h \in Hooks : Hook(h[1], h[2])
  \/ Exit \/ Crash
  \/ \E m \in inflight : Lose(m)
  \/ Deliver
  \/ Scan \/ Watch \/ Unwatch
  \/ PaneExited \/ RespawnPane

Spec == Init /\ [][Next]_vars

\* The ticker runs forever, and a hook that is not killed gets to deliver.
FairSpec == Spec /\ WF_vars(Scan) /\ WF_vars(Deliver)

-----------------------------------------------------------------------------
(* Properties                                                              *)

Message ==
  [kind : {"report", "clear"}, identity : Identities, claim : BOOLEAN,
   state : States \cup {"done"}, sequence : Nat \ {0}]

Status == [state : States, acknowledged : BOOLEAN] \cup {NoStatus}

\* Every field of the model holds a value of its kind.
TypeOK ==
  /\ lifecycle \in
       [identity : Identities, sequence : Nat \ {0}, status : Status] \cup {Vacant}
  /\ detected \in BOOLEAN /\ watched \in BOOLEAN /\ dead \in BOOLEAN
  /\ inflight \subseteq Message
  /\ clock \in Nat \ {0}
  /\ running \in Identities \cup {NoAgent}
  /\ startedAt \in [Identities -> Nat]
  /\ exitedAt \in [Owned -> Nat]
  /\ lost \subseteq Identities

\* A pane someone is looking at never shows an unseen completion, in whatever
\* order reports, focus changes and scans come.
NoVisibleDone == watched => ~Done(lifecycle)

\* Whoever runs in a live pane has the row once its messages are in, if none of
\* its own was lost, whatever order they came in and whoever ran before:
\* neither stale reports of earlier sessions nor their tombstones can shut it
\* out.
RunnerOwnsRow ==
  inflight = {} /\ running \notin lost \cup {NoAgent} => Shown(running)

\* Once the exit of the session that owns the row was accepted, its tombstone
\* refuses whatever that session still has in flight.
AcceptedExitIsFinal ==
  [][ \A i \in Owned :
        /\ exitedAt[i] # 0
        /\ lifecycle.identity = i /\ lifecycle.sequence >= exitedAt[i]
        => ~Shown(i)' ]_vars

\* Owned sessions take the row in the order they started: a delayed report of
\* an earlier one never takes it back ("only a claim may replace a different
\* current lifecycle", and a stale claim is no claim).
RowMovesForward ==
  [][ \A i, j \in Owned :
        lifecycle.identity = i /\ lifecycle'.identity = j =>
          startedAt[i] <= startedAt[j] ]_vars

\* A completion comes from the activity of the session that shows it, or from
\* its own report of done: a new owner's first idle is not one.  It stays on
\* show until it is seen, work resumes, or its session is over or replaced; a
\* repeated idle report does not dismiss it.
CompletionsComeAndStay ==
  [][ /\ Done(lifecycle') /\ ~Done(lifecycle) =>
           \/ /\ lifecycle'.identity = lifecycle.identity
              /\ lifecycle.status.state \in {"working", "blocked", "unknown"}
           \/ \E m \in inflight : /\ m.sequence = lifecycle'.sequence
                                  /\ m.state = "done"
      /\ Done(lifecycle) /\ ~Done(lifecycle') =>
           \/ watched'
           \/ lifecycle'.identity # lifecycle.identity
           \/ lifecycle'.status.state # "idle" ]_vars

\* When the process of a detected agent is gone, so is the row it had, within
\* a scan or two, if nothing of it is still in flight.
GoneAgentLosesRow ==
  (running = NoAgent /\ detected /\ inflight = {})
    ~> (lifecycle.status = NoStatus \/ running # NoAgent)

\* "The agent process is gone.  Drop any lingering hook status for this pane
\* as well, so a missed exit hook can't leave a permanent row."
NoPermanentRow ==
  <>[](running = NoAgent) => []<>(lifecycle.status = NoStatus)
=============================================================================
