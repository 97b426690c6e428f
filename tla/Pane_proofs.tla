----------------------------- MODULE Pane_proofs -----------------------------
(***************************************************************************)
(* Proofs about what the daemon keeps of one pane: the agent row, for any  *)
(* set of sessions, any number of events and any loss of messages; copy    *)
(* mode and the grid, for every size of the pane and every capacity of its *)
(* history.                                                                *)
(***************************************************************************)
EXTENDS AgentLifecycle, Grid, CopyMode, SequenceTheorems, TLAPS

-----------------------------------------------------------------------------
(* The agent row.  Its orderings rest on the stamps: a session emits       *)
(* nothing once a later one has started, so every message of an earlier    *)
(* session is older than the start of any later one.                       *)

\* Stamps are below the clock, and the row carries one of its own session.
StampsInPast ==
  /\ \A m \in inflight : m.sequence < clock
  /\ lifecycle.sequence < clock
  /\ \A i \in Owned : startedAt[i] < clock
  /\ lifecycle.identity \in Owned =>
       /\ 0 < startedAt[lifecycle.identity]
       /\ startedAt[lifecycle.identity] <= lifecycle.sequence

\* The session that runs is the last one started, and what earlier sessions
\* have in flight is older than the start of any later one.
StartsSeparate ==
  /\ running \in Owned => \A j \in Owned : startedAt[j] <= startedAt[running]
  /\ \A m \in inflight : m.identity \in Owned =>
       /\ 0 < startedAt[m.identity] /\ startedAt[m.identity] <= m.sequence
       /\ \A j \in Owned : startedAt[m.identity] < startedAt[j] =>
                             m.sequence < startedAt[j]

\* The exit is the last event of a session, which does not come back.
ExitIsLast ==
  \A i \in Owned : exitedAt[i] # 0 =>
    /\ running # i /\ startedAt[i] # 0 /\ exitedAt[i] < clock
    /\ \A m \in inflight : m.identity = i =>
         /\ m.sequence <= exitedAt[i]
         /\ m.sequence = exitedAt[i] => m.kind = "clear"
    /\ lifecycle.identity = i =>
         /\ lifecycle.sequence <= exitedAt[i]
         /\ lifecycle.sequence = exitedAt[i] => lifecycle.status = NoStatus

RunnerStarted == running \in Owned => 0 < startedAt[running]

\* The inductive invariant.
Orders == TypeOK /\ StampsInPast /\ StartsSeparate /\ ExitIsLast /\ RunnerStarted

-----------------------------------------------------------------------------
(* What a message makes of the row                                         *)

Rows == [identity : Identities, sequence : Nat \ {0}, status : Status] \cup {Vacant}

\* A report yields a status.
LEMMA StatusTyped ==
  ASSUME NEW st \in Status, NEW state \in States \cup {"done"}
  PROVE  NewStatus(state) \in Status /\ ApplyReport(st, state) \in Status
BY DEF NewStatus, ApplyReport, Status, States, NoStatus

\* Looking at a row changes neither whose it is nor whether there is one.
LEMMA AcknowledgedRow ==
  ASSUME NEW l \in Rows
  PROVE  /\ Acknowledged(l) \in Rows
         /\ Acknowledged(l).identity = l.identity
         /\ Acknowledged(l).sequence = l.sequence
         /\ l.status = NoStatus => Acknowledged(l).status = NoStatus
         /\ ~Done(Acknowledged(l))
<1>1. CASE ~Done(l)
  BY <1>1 DEF Acknowledged
<1>2. CASE Done(l)
  <2>1. l # Vacant /\ l.status # NoStatus
    BY <1>2 DEF Done, Vacant, NoStatus
  <2>2. PICK i \in Identities, n \in Nat \ {0}, st \in Status :
          l = [identity |-> i, sequence |-> n, status |-> st]
    BY <2>1 DEF Rows
  <2>3. st \in [state : States, acknowledged : BOOLEAN]
    BY <2>1, <2>2 DEF Status
  <2>4. PICK t \in States, a \in BOOLEAN : st = [state |-> t, acknowledged |-> a]
    BY <2>3
  <2>5. Acknowledged(l) = [identity |-> i, sequence |-> n,
                           status |-> [state |-> t, acknowledged |-> TRUE]]
    BY <1>2, <2>2, <2>4 DEF Acknowledged
  <2>6. [state |-> t, acknowledged |-> TRUE] \in Status
    BY DEF Status
  <2>7. Acknowledged(l) \in Rows
    BY <2>5, <2>6 DEF Rows
  <2>8. /\ Acknowledged(l).identity = i /\ Acknowledged(l).sequence = n
        /\ Acknowledged(l).status.acknowledged = TRUE
    BY <2>5
  <2>9. ~Done(Acknowledged(l))
    BY <2>8 DEF Done
  <2> QED BY <2>1, <2>2, <2>7, <2>8, <2>9
<1> QED BY <1>1, <1>2

\* Looking at a row hides nothing.
LEMMA AcknowledgedShown ==
  ASSUME NEW l \in Rows, l.status # NoStatus
  PROVE  Acknowledged(l).status # NoStatus
<1>1. PICK i \in Identities, n \in Nat \ {0}, st \in Status :
        l = [identity |-> i, sequence |-> n, status |-> st]
  BY DEF Rows, Vacant
<1>2. PICK t \in States, a \in BOOLEAN : st = [state |-> t, acknowledged |-> a]
  BY <1>1 DEF Status
<1>3. \/ Acknowledged(l) = l
      \/ Acknowledged(l) = [identity |-> i, sequence |-> n,
                            status |-> [state |-> t, acknowledged |-> TRUE]]
  BY <1>1, <1>2 DEF Acknowledged
<1>4. [state |-> t, acknowledged |-> TRUE] # NoStatus
  BY DEF States, NoStatus
<1> QED BY <1>3, <1>4

\* A report leaves the row as it is, or makes it the report's, which is newer.
LEMMA ReportOutcome ==
  ASSUME TypeOK, NEW m \in inflight
  PROVE  \/ Reported(lifecycle, m) = lifecycle
         \/ /\ lifecycle.sequence < m.sequence
            /\ \E st \in Status : Reported(lifecycle, m) = Entry(m, st)
<1>1. /\ m.sequence \in Nat \ {0} /\ m.state \in States \cup {"done"}
      /\ NoStatus \in Status
  BY DEF TypeOK, Message, Status
<1>2. NewStatus(m.state) \in Status
  BY <1>1, StatusTyped
<1>3. CASE lifecycle = Vacant
  BY <1>1, <1>2, <1>3 DEF Reported, Vacant
<1>4. CASE lifecycle # Vacant
  <2>1. lifecycle.sequence \in Nat /\ lifecycle.status \in Status
    BY <1>4 DEF TypeOK
  <2>2. ApplyReport(lifecycle.status, m.state) \in Status
    BY <1>1, <2>1, StatusTyped
  <2> QED BY <1>1, <1>2, <1>4, <2>1, <2>2 DEF Reported
<1> QED BY <1>3, <1>4

\* A clear leaves the row as it is, or a tombstone, which is newer.
LEMMA ClearOutcome ==
  ASSUME TypeOK, NEW m \in inflight
  PROVE  \/ Cleared(lifecycle, m) = lifecycle
         \/ /\ lifecycle.sequence < m.sequence
            /\ Cleared(lifecycle, m) = Entry(m, NoStatus)
<1>1. m.sequence \in Nat \ {0}
  BY DEF TypeOK, Message
<1>2. lifecycle.sequence \in Nat
  BY DEF TypeOK, Vacant
<1> QED BY <1>1, <1>2 DEF Cleared, Vacant

\* What the row can become in a step: the same row, seen or without its
\* status; the row of a message in flight, which is newer; or nothing, when
\* the shell exits.
LEMMA RowStep ==
  ASSUME TypeOK, [Next]_vars
  PROVE  /\ lifecycle' \in Rows
         /\ \/ /\ lifecycle'.identity = lifecycle.identity
               /\ lifecycle'.sequence = lifecycle.sequence
               /\ lifecycle.status = NoStatus => lifecycle'.status = NoStatus
            \/ \E m \in inflight :
                 /\ lifecycle.sequence < m.sequence
                 /\ lifecycle'.identity = m.identity
                 /\ lifecycle'.sequence = m.sequence
                 /\ m.kind = "clear" => lifecycle'.status = NoStatus
            \/ lifecycle' = Vacant
<1> DEFINE Goal ==
      /\ lifecycle' \in Rows
      /\ \/ /\ lifecycle'.identity = lifecycle.identity
            /\ lifecycle'.sequence = lifecycle.sequence
            /\ lifecycle.status = NoStatus => lifecycle'.status = NoStatus
         \/ \E m \in inflight :
              /\ lifecycle.sequence < m.sequence
              /\ lifecycle'.identity = m.identity
              /\ lifecycle'.sequence = m.sequence
              /\ m.kind = "clear" => lifecycle'.status = NoStatus
         \/ lifecycle' = Vacant
<1>1. lifecycle \in Rows /\ NoStatus \in Status /\ Vacant \in Rows
  BY DEF TypeOK, Rows, Status
<1>2. \A m \in inflight : m.identity \in Identities /\ m.sequence \in Nat \ {0}
  BY DEF TypeOK, Message
<1>3. ASSUME NEW m \in inflight, NEW st \in Status
      PROVE  /\ Entry(m, st) \in Rows /\ Entry(m, st).identity = m.identity
             /\ Entry(m, st).sequence = m.sequence /\ Entry(m, st).status = st
  BY <1>2 DEF Entry, Rows
<1>4. CASE UNCHANGED lifecycle
  BY <1>1, <1>4
<1>5. CASE lifecycle' = Acknowledged(lifecycle)
  BY <1>1, <1>5, AcknowledgedRow
<1>6. ASSUME NEW m \in inflight, DeliverReport(m) PROVE Goal
  <2>1. PICK l : l = IF dead THEN lifecycle ELSE Reported(lifecycle, m)
    OBVIOUS
  <2>2. m.kind = "report" /\ (lifecycle' = l \/ lifecycle' = Acknowledged(l))
    BY <1>6, <2>1 DEF DeliverReport
  <2>3. CASE l = lifecycle
    BY <1>4, <1>5, <2>2, <2>3
  <2>4. CASE l # lifecycle
    <3>1. lifecycle.sequence < m.sequence /\ \E st \in Status : l = Entry(m, st)
      BY <2>1, <2>4, ReportOutcome
    <3>2. l \in Rows /\ l.identity = m.identity /\ l.sequence = m.sequence
      BY <1>3, <3>1
    <3> QED BY <2>2, <3>1, <3>2, AcknowledgedRow
  <2> QED BY <2>3, <2>4
<1>7. ASSUME NEW m \in inflight, DeliverClear(m) PROVE Goal
  <2>1. lifecycle' = lifecycle \/ lifecycle' = Cleared(lifecycle, m)
    BY <1>7 DEF DeliverClear
  <2> QED BY <1>1, <1>3, <1>4, <2>1, ClearOutcome
<1>8. CASE Scan
  <2>1. CASE lifecycle' = [lifecycle EXCEPT !.status = NoStatus]
    <3>1. CASE lifecycle = Vacant
      <4>1. lifecycle' = lifecycle
        BY <2>1, <3>1 DEF Vacant
      <4> QED BY <4>1, <1>4
    <3>2. CASE lifecycle # Vacant
      <4>1. PICK i \in Identities, n \in Nat \ {0}, st \in Status :
              lifecycle = [identity |-> i, sequence |-> n, status |-> st]
        BY <1>1, <3>2 DEF Rows
      <4>2. lifecycle' = [identity |-> i, sequence |-> n, status |-> NoStatus]
        BY <2>1, <4>1
      <4> QED BY <1>1, <4>1, <4>2 DEF Rows
    <3> QED BY <3>1, <3>2
  <2> QED BY <1>4, <1>8, <2>1 DEF Scan
<1>9. CASE PaneExited
  BY <1>1, <1>9 DEF PaneExited
<1>10. CASE \/ \E i \in Identities : Start(i)
            \/ \E h \in Hooks : Hook(h[1], h[2])
            \/ Exit \/ Crash
            \/ \E m \in inflight : Lose(m)
            \/ Unwatch \/ RespawnPane
            \/ UNCHANGED vars
  BY <1>4, <1>10 DEF Start, Hook, Exit, Crash, Lose, Unwatch, RespawnPane, vars
<1>11. CASE Watch
  BY <1>5, <1>11 DEF Watch
<1> QED BY <1>6, <1>7, <1>8, <1>9, <1>10, <1>11 DEF Next, Deliver

-----------------------------------------------------------------------------
(* What a step does to the hooks                                           *)

\* No hook runs: messages are handled or lost, and the agent may die.
Quiet ==
  /\ inflight' \subseteq inflight
  /\ UNCHANGED <<clock, startedAt, exitedAt>>
  /\ running' \in {running, NoAgent}

\* A step is quiet, or runs one hook and leaves the row alone.
LEMMA StepKinds ==
  ASSUME [Next]_vars
  PROVE  \/ Quiet
         \/ \E i \in Identities : Start(i)
         \/ \E h \in Hooks : Hook(h[1], h[2])
         \/ Exit
BY DEF Next, vars, env, Deliver, Quiet, DeliverReport, DeliverClear, Lose, Scan,
       Watch, Unwatch, PaneExited, RespawnPane, Crash

\* The message a hook sends carries the clock.
LEMMA Emission ==
  ASSUME TypeOK, NEW kind \in {"report", "clear"}, NEW i \in Identities,
         NEW claim \in BOOLEAN, NEW state \in States \cup {"done"},
         Emit(kind, i, claim, state)
  PROVE  \E m \in Message :
           /\ inflight' = inflight \cup {m}
           /\ m.sequence = clock /\ m.identity = i /\ m.kind = kind
           /\ clock' = clock + 1
<1>1. PICK m : m = [kind |-> kind, identity |-> i, claim |-> claim \/ i \in Unowned,
                    state |-> state, sequence |-> clock]
  OBVIOUS
<1>2. (claim \/ i \in Unowned) \in BOOLEAN
  OBVIOUS
<1>3. m \in Message
  BY <1>1, <1>2 DEF TypeOK, Message
<1> QED BY <1>1, <1>3 DEF Emit

\* Every hook's report is one of the five.
LEMMA HookArguments ==
  ASSUME NEW h \in Hooks
  PROVE  h[1] \in BOOLEAN /\ h[2] \in States \cup {"done"}
<1>1. CASE h = <<TRUE, "working">>
  BY <1>1 DEF States
<1>2. CASE h = <<FALSE, "working">>
  BY <1>2 DEF States
<1>3. CASE h = <<FALSE, "blocked">>
  BY <1>3 DEF States
<1>4. CASE h = <<FALSE, "idle">>
  BY <1>4 DEF States
<1>5. CASE h = <<FALSE, "done">>
  BY <1>5 DEF States
<1> QED BY <1>1, <1>2, <1>3, <1>4, <1>5 DEF Hooks

\* Type correctness is inductive by itself.
LEMMA TypeStep == TypeOK /\ [Next]_vars => TypeOK'
<1> SUFFICES ASSUME TypeOK, [Next]_vars PROVE TypeOK'
  OBVIOUS
<1>1. lifecycle' \in Rows
  BY RowStep
<1>2. detected' \in BOOLEAN /\ watched' \in BOOLEAN /\ dead' \in BOOLEAN
  BY DEF TypeOK, Next, vars, env, Deliver, DeliverReport, DeliverClear, Lose, Scan,
         Watch, Unwatch, PaneExited, RespawnPane, Crash, Start, Hook, Exit
<1>0. lost' \subseteq Identities
  <2>1. ASSUME NEW m \in inflight, Lose(m) PROVE lost' \subseteq Identities
    BY <2>1 DEF Lose, TypeOK, Message
  <2>2. CASE lost' = lost
    BY <2>2 DEF TypeOK
  <2> QED
    BY <2>1, <2>2 DEF Next, vars, env, Deliver, DeliverReport, DeliverClear, Scan,
       Watch, Unwatch, PaneExited, RespawnPane, Crash, Start, Hook, Exit
<1>3. CASE Quiet
  BY <1>0, <1>1, <1>2, <1>3 DEF Quiet, TypeOK, Rows
<1>4. ASSUME NEW i \in Identities, Start(i) PROVE TypeOK'
  <2>1. PICK m \in Message : inflight' = inflight \cup {m} /\ clock' = clock + 1
    BY <1>4, Emission DEF Start, States
  <2>2. clock \in Nat \ {0} /\ clock + 1 \in Nat \ {0}
    BY DEF TypeOK
  <2> QED BY <1>0, <1>1, <1>2, <1>4, <2>1, <2>2 DEF Start, TypeOK, Rows
<1>5. ASSUME NEW h \in Hooks, Hook(h[1], h[2]) PROVE TypeOK'
  <2>1. running \in Identities
    BY <1>5 DEF Hook, TypeOK
  <2>2. PICK m \in Message : inflight' = inflight \cup {m} /\ clock' = clock + 1
    BY <1>5, <2>1, Emission, HookArguments DEF Hook
  <2>3. clock \in Nat \ {0} /\ clock + 1 \in Nat \ {0}
    BY DEF TypeOK
  <2> QED BY <1>0, <1>1, <1>2, <1>5, <2>2, <2>3 DEF Hook, TypeOK, Rows
<1>6. CASE Exit
  <2>1. running \in Identities
    BY <1>6 DEF Exit, TypeOK
  <2>2. PICK m \in Message : inflight' = inflight \cup {m} /\ clock' = clock + 1
    BY <1>6, <2>1, Emission DEF Exit, States
  <2>3. clock \in Nat \ {0} /\ clock + 1 \in Nat \ {0}
    BY DEF TypeOK
  <2>4. exitedAt' \in [Owned -> Nat] /\ running' = NoAgent /\ startedAt' = startedAt
    BY <1>6, <2>3 DEF Exit, TypeOK
  <2> QED BY <1>0, <1>1, <1>2, <2>2, <2>3, <2>4 DEF TypeOK, Rows
<1> QED BY <1>3, <1>4, <1>5, <1>6, StepKinds

-----------------------------------------------------------------------------
(* The orders are kept                                                     *)

\* A step that runs no hook, and so stamps nothing, keeps the orders.
LEMMA QuietOrders ==
  ASSUME Orders, [Next]_vars, Quiet
  PROVE  Orders'
<1>1. TypeOK'
  BY TypeStep DEF Orders
<1>2. RunnerStarted' /\ StartsSeparate'
  BY IdentitiesAssumption DEF Orders, Quiet, RunnerStarted, StartsSeparate
<1>3. StampsInPast'
  <2>1. clock \in Nat \ {0} /\ Vacant.sequence = 0 /\ Vacant.identity \notin Owned
    BY IdentitiesAssumption DEF Orders, TypeOK, Vacant
  <2> QED BY <2>1, RowStep DEF Orders, Quiet, StampsInPast, StartsSeparate
<1>4. ExitIsLast'
  <2> SUFFICES ASSUME NEW i \in Owned, exitedAt[i] # 0
               PROVE  /\ running' # i /\ startedAt[i] # 0 /\ exitedAt[i] < clock
                      /\ \A m \in inflight' : m.identity = i =>
                           /\ m.sequence <= exitedAt[i]
                           /\ m.sequence = exitedAt[i] => m.kind = "clear"
                      /\ lifecycle'.identity = i =>
                           /\ lifecycle'.sequence <= exitedAt[i]
                           /\ lifecycle'.sequence = exitedAt[i] =>
                                lifecycle'.status = NoStatus
    BY DEF ExitIsLast, Quiet
  <2>1. Vacant.identity # i /\ NoAgent # i
    BY IdentitiesAssumption DEF Vacant
  <2> QED BY <2>1, RowStep DEF Orders, ExitIsLast, Quiet
<1> QED BY <1>1, <1>2, <1>3, <1>4 DEF Orders

\* The start of a session stamps its claim later than everything so far.
LEMMA StartOrders ==
  ASSUME Orders, NEW i \in Identities, Start(i)
  PROVE  Orders'
<1>1. TypeOK /\ TypeOK'
  BY TypeStep DEF Orders, Next
<1>2. PICK m \in Message : /\ inflight' = inflight \cup {m} /\ clock' = clock + 1
                           /\ m.sequence = clock /\ m.identity = i
  BY <1>1, Emission DEF Start, States
<1>3. /\ lifecycle' = lifecycle /\ exitedAt' = exitedAt /\ running' = i
      /\ startedAt' = [startedAt EXCEPT ![i] = clock]
      /\ i \in Owned => startedAt[i] = 0
  BY DEF Start
<1>4. /\ clock \in Nat \ {0} /\ startedAt \in [Identities -> Nat]
      /\ exitedAt \in [Owned -> Nat] /\ Owned \subseteq Identities
      /\ \A n \in inflight : n.sequence \in Nat
      /\ lifecycle.sequence \in Nat
  BY <1>1 DEF TypeOK, Message, Identities, Vacant
<1>5. /\ startedAt'[i] = clock
      /\ \A j \in Identities : j # i => startedAt'[j] = startedAt[j]
  BY <1>3, <1>4
<1>6. RunnerStarted'
  BY <1>3, <1>4, <1>5 DEF RunnerStarted
<1>7. StampsInPast'
  BY <1>2, <1>3, <1>4, <1>5 DEF Orders, StampsInPast
<1>8. StartsSeparate'
  <2>1. ASSUME NEW j \in Owned, i \in Owned PROVE startedAt'[j] <= startedAt'[i]
    BY <1>4, <1>5 DEF Orders, StampsInPast
  <2>2. ASSUME NEW n \in inflight, n.identity \in Owned
        PROVE  /\ 0 < startedAt'[n.identity] /\ startedAt'[n.identity] <= n.sequence
               /\ \A j \in Owned : startedAt'[n.identity] < startedAt'[j] =>
                                     n.sequence < startedAt'[j]
    <3>1. n.identity # i
      BY <1>3, <2>2 DEF Orders, StartsSeparate
    <3>2. n.sequence < clock /\ n.identity \in Identities
      BY <1>4, <2>2 DEF Orders, StampsInPast
    <3> QED BY <1>4, <1>5, <2>2, <3>1, <3>2 DEF Orders, StartsSeparate
  <2>3. i \in Owned =>
          /\ 0 < startedAt'[i] /\ startedAt'[i] <= m.sequence
          /\ \A j \in Owned : ~(startedAt'[i] < startedAt'[j])
    BY <1>2, <1>4, <1>5, <2>1 DEF Orders, StampsInPast
  <2> QED BY <1>2, <1>3, <2>1, <2>2, <2>3 DEF StartsSeparate
<1>9. ExitIsLast'
  <2> SUFFICES ASSUME NEW j \in Owned, exitedAt[j] # 0
               PROVE  /\ running' # j /\ startedAt'[j] # 0 /\ exitedAt[j] < clock'
                      /\ \A n \in inflight' : n.identity = j =>
                           /\ n.sequence <= exitedAt[j]
                           /\ n.sequence = exitedAt[j] => n.kind = "clear"
                      /\ lifecycle.identity = j =>
                           /\ lifecycle.sequence <= exitedAt[j]
                           /\ lifecycle.sequence = exitedAt[j] =>
                                lifecycle.status = NoStatus
    BY <1>3 DEF ExitIsLast
  <2>1. j # i /\ j \in Identities
    BY <1>3, <1>4 DEF Orders, ExitIsLast
  <2> QED BY <1>2, <1>3, <1>4, <1>5, <2>1 DEF Orders, ExitIsLast
<1> QED BY <1>1, <1>6, <1>7, <1>8, <1>9 DEF Orders

\* A hook of the running session, or its exit: it is the last one started.
LEMMA HookOrders ==
  ASSUME Orders, [Next]_vars,
         (\E h \in Hooks : Hook(h[1], h[2])) \/ Exit
  PROVE  Orders'
<1>1. TypeOK /\ TypeOK' /\ running \in Identities
  BY TypeStep DEF Orders, TypeOK, Hook, Exit
<1>2. PICK m \in Message :
        /\ inflight' = inflight \cup {m} /\ clock' = clock + 1
        /\ m.sequence = clock /\ m.identity = running
        /\ Exit => m.kind = "clear"
  <2>1. CASE Exit
    <3>1. Emit("clear", running, FALSE, "unknown")
      BY <2>1 DEF Exit
    <3>2. FALSE \in BOOLEAN /\ "unknown" \in States \cup {"done"}
      BY DEF States
    <3>3. "clear" \in {"report", "clear"} /\ running \in Identities /\ TypeOK
      BY <1>1
    <3>4. \E m \in Message :
            /\ inflight' = inflight \cup {m}
            /\ m.sequence = clock /\ m.identity = running /\ m.kind = "clear"
            /\ clock' = clock + 1
      BY <3>1, <3>2, <3>3, Emission
    <3> QED BY <3>4
  <2>2. ASSUME NEW h \in Hooks, Hook(h[1], h[2]), ~Exit
        PROVE  \E m \in Message :
                 /\ inflight' = inflight \cup {m} /\ clock' = clock + 1
                 /\ m.sequence = clock /\ m.identity = running
    <3>1. Emit("report", running, h[1], h[2])
      BY <2>2 DEF Hook
    <3>2. h[1] \in BOOLEAN /\ h[2] \in States \cup {"done"}
      BY HookArguments
    <3> QED BY <1>1, <3>1, <3>2, Emission
  <2> QED BY <2>1, <2>2
<1>3. /\ lifecycle' = lifecycle /\ startedAt' = startedAt
      /\ running' = running \/ running' = NoAgent
  BY DEF Hook, Exit
<1>4. /\ clock \in Nat \ {0} /\ startedAt \in [Identities -> Nat]
      /\ exitedAt \in [Owned -> Nat] /\ Owned \subseteq Identities
      /\ \A n \in inflight : n.sequence \in Nat
      /\ lifecycle.sequence \in Nat /\ NoAgent \notin Owned
  BY <1>1, IdentitiesAssumption DEF TypeOK, Message, Identities, Vacant
<1>5. RunnerStarted'
  BY <1>3, <1>4 DEF Orders, RunnerStarted
<1>6. StampsInPast'
  BY <1>2, <1>3, <1>4 DEF Orders, StampsInPast
<1>7. StartsSeparate'
  <2>1. running \in Owned =>
          /\ 0 < startedAt[running] /\ startedAt[running] <= clock
          /\ \A j \in Owned : ~(startedAt[running] < startedAt[j])
    BY <1>4 DEF Orders, StampsInPast, StartsSeparate, RunnerStarted
  <2> QED BY <1>2, <1>3, <1>4, <2>1 DEF Orders, StartsSeparate
<1>8. ExitIsLast'
  <2>1. CASE \E h \in Hooks : Hook(h[1], h[2])
    <3>1. exitedAt' = exitedAt /\ running' = running
      BY <2>1 DEF Hook
    <3> QED BY <1>2, <1>3, <1>4, <3>1 DEF Orders, ExitIsLast
  <2>2. CASE Exit
    <3>1. /\ exitedAt' = [i \in Owned |-> IF i = running THEN clock ELSE exitedAt[i]]
          /\ running' = NoAgent /\ m.kind = "clear"
      BY <1>2, <2>2 DEF Exit
    <3> SUFFICES ASSUME NEW i \in Owned, exitedAt'[i] # 0
                 PROVE  /\ running' # i /\ startedAt[i] # 0 /\ exitedAt'[i] < clock'
                        /\ \A n \in inflight' : n.identity = i =>
                             /\ n.sequence <= exitedAt'[i]
                             /\ n.sequence = exitedAt'[i] => n.kind = "clear"
                        /\ lifecycle.identity = i =>
                             /\ lifecycle.sequence <= exitedAt'[i]
                             /\ lifecycle.sequence = exitedAt'[i] =>
                                  lifecycle.status = NoStatus
      BY <1>3 DEF ExitIsLast
    <3>2. CASE i = running
      <4>1. exitedAt'[i] = clock /\ startedAt[i] # 0
        BY <1>4, <3>1, <3>2 DEF Orders, RunnerStarted
      <4>2. \A n \in inflight : n.sequence < clock
        BY DEF Orders, StampsInPast
      <4>3. lifecycle.sequence < clock
        BY DEF Orders, StampsInPast
      <4> QED BY <1>2, <1>4, <3>1, <4>1, <4>2, <4>3
    <3>3. CASE i # running
      <4>1. exitedAt'[i] = exitedAt[i]
        BY <3>1, <3>3
      <4> QED BY <1>2, <1>4, <3>1, <3>3, <4>1 DEF Orders, ExitIsLast
    <3> QED BY <3>2, <3>3
  <2> QED BY <2>1, <2>2
<1> QED BY <1>1, <1>5, <1>6, <1>7, <1>8 DEF Orders

\* The orders of stamps hold in every reachable state.
THEOREM OrdersInvariant == Spec => []Orders
<1>1. Init => Orders
  <2> SUFFICES ASSUME Init PROVE Orders
    OBVIOUS
  <2>1. TypeOK
    <3>1. /\ lifecycle = Vacant /\ detected \in BOOLEAN /\ watched \in BOOLEAN
          /\ dead \in BOOLEAN /\ inflight = {} /\ clock = 1 /\ running = NoAgent
      BY DEF Init
    <3>2. startedAt \in [Identities -> Nat] /\ exitedAt \in [Owned -> Nat] /\ lost = {}
      BY DEF Init
    <3> QED BY <3>1, <3>2 DEF TypeOK
  <2>2. NoAgent \notin Owned /\ Owned \subseteq Identities
    BY IdentitiesAssumption DEF Identities
  <2> QED BY <2>1, <2>2 DEF Init, Orders, StampsInPast, StartsSeparate, ExitIsLast,
                             RunnerStarted, Vacant
<1>2. Orders /\ [Next]_vars => Orders'
  BY StepKinds, QuietOrders, StartOrders, HookOrders
<1> QED BY <1>1, <1>2, PTL DEF Spec

\* Every field keeps its type.
THEOREM TypeCorrect == Spec => []TypeOK
BY OrdersInvariant, PTL DEF Orders

\* A step from ordered stamps never hands the row to an earlier session.
LEMMA ForwardStep ==
  ASSUME Orders, [Next]_vars, NEW i \in Owned, NEW j \in Owned,
         lifecycle.identity = i, lifecycle'.identity = j
  PROVE  startedAt[i] <= startedAt[j]
<1>1. /\ startedAt[i] \in Nat /\ startedAt[j] \in Nat /\ lifecycle.sequence \in Nat
      /\ \A m \in inflight : m.sequence \in Nat
      /\ Vacant.identity # j
  BY IdentitiesAssumption DEF Orders, TypeOK, Message, Identities, Vacant
<1>2. startedAt[i] <= lifecycle.sequence
  BY DEF Orders, StampsInPast
<1>3. CASE \E m \in inflight : lifecycle.sequence < m.sequence /\ m.identity = j
  <2>1. PICK m \in inflight : lifecycle.sequence < m.sequence /\ m.identity = j
    BY <1>3
  <2>2. startedAt[j] < startedAt[i] => m.sequence < startedAt[i]
    BY <2>1 DEF Orders, StartsSeparate
  <2> QED BY <1>1, <1>2, <2>1, <2>2
<1>4. CASE i = j
  BY <1>1, <1>4
<1> QED BY <1>1, <1>3, <1>4, RowStep DEF Orders

\* Owned sessions take the row in the order they started, whatever is lost or
\* delayed.
THEOREM RowsMoveForward == Spec => RowMovesForward
<1>1. Orders /\ [Next]_vars =>
        [ \A i, j \in Owned :
            lifecycle.identity = i /\ lifecycle'.identity = j =>
              startedAt[i] <= startedAt[j] ]_vars
  BY ForwardStep
<1> QED BY <1>1, OrdersInvariant, PTL DEF Spec, RowMovesForward

\* An accepted exit is final: nothing that session still has in flight brings
\* its row back.
THEOREM AcceptedExitsAreFinal == Spec => AcceptedExitIsFinal
<1>1. ASSUME Orders, Orders', [Next]_vars, NEW i \in Owned, exitedAt[i] # 0,
             lifecycle.identity = i, lifecycle.sequence >= exitedAt[i]
      PROVE  ~Shown(i)'
  <2>1. /\ exitedAt[i] \in Nat /\ lifecycle.sequence \in Nat
        /\ \A m \in inflight : m.sequence \in Nat
        /\ Vacant.identity # i
    BY <1>1, IdentitiesAssumption DEF Orders, TypeOK, Message, Identities, Vacant
  <2>2. /\ lifecycle.status = NoStatus
        /\ \A m \in inflight : m.identity = i => m.sequence <= exitedAt[i]
    BY <1>1, <2>1 DEF Orders, ExitIsLast
  <2>3. TypeOK
    BY <1>1 DEF Orders
  <2>4. lifecycle'.identity = i => lifecycle'.status = NoStatus
    BY <1>1, <2>1, <2>2, <2>3, RowStep
  <2> QED BY <2>4 DEF Shown
<1>2. Orders /\ Orders' /\ [Next]_vars =>
        [ \A i \in Owned :
            /\ exitedAt[i] # 0
            /\ lifecycle.identity = i /\ lifecycle.sequence >= exitedAt[i]
            => ~Shown(i)' ]_vars
  <2> SUFFICES ASSUME Orders, Orders', [Next]_vars, NEW i \in Owned, exitedAt[i] # 0,
                      lifecycle.identity = i, lifecycle.sequence >= exitedAt[i]
               PROVE  ~Shown(i)'
    OBVIOUS
  <2> QED BY <1>1
<1> QED BY <1>2, OrdersInvariant, PTL DEF Spec, AcceptedExitIsFinal

\* Nobody ever looks at an unseen completion.
THEOREM CompletionsInViewAreSeen == Spec => []NoVisibleDone
<1>1. Init => NoVisibleDone
  BY DEF Init, NoVisibleDone, Done, Vacant, NoStatus
<1>2. TypeOK /\ NoVisibleDone /\ [Next]_vars => NoVisibleDone'
  <2> SUFFICES ASSUME TypeOK, NoVisibleDone, [Next]_vars, watched'
               PROVE  ~Done(lifecycle')
    BY DEF NoVisibleDone
  <2>1. CASE UNCHANGED <<lifecycle, watched>>
    BY <2>1 DEF NoVisibleDone
  <2>2. ASSUME NEW m \in inflight, DeliverReport(m) PROVE ~Done(lifecycle')
    <3>1. PICK l : l = IF dead THEN lifecycle ELSE Reported(lifecycle, m)
      OBVIOUS
    <3>2. lifecycle' = Acknowledged(l)
      BY <2>2, <3>1 DEF DeliverReport
    <3>3. l \in Rows
      <4>1. lifecycle \in Rows /\ m.identity \in Identities /\ m.sequence \in Nat \ {0}
        BY DEF TypeOK, Rows, Message
      <4>2. \A st \in Status : Entry(m, st) \in Rows
        BY <4>1 DEF Entry, Rows
      <4> QED BY <3>1, <4>1, <4>2, ReportOutcome
    <3> QED BY <3>2, <3>3, AcknowledgedRow
  <2>3. ASSUME NEW m \in inflight, DeliverClear(m) PROVE ~Done(lifecycle')
    <3>1. watched /\ ~Done(lifecycle)
      BY <2>3 DEF DeliverClear, NoVisibleDone
    <3>2. ~Done(Entry(m, NoStatus))
      BY DEF Done, Entry, NoStatus
    <3> QED BY <2>3, <3>1, <3>2, ClearOutcome DEF DeliverClear
  <2>4. CASE Scan
    <3>1. watched /\ ~Done(lifecycle)
      BY <2>4 DEF Scan, NoVisibleDone
    <3>2. lifecycle \in Rows
      BY DEF TypeOK, Rows
    <3>3. ASSUME lifecycle' = [lifecycle EXCEPT !.status = NoStatus]
          PROVE  lifecycle'.status = NoStatus
      BY <3>2, <3>3 DEF Rows, Vacant
    <3>4. lifecycle'.status = NoStatus => ~Done(lifecycle')
      BY DEF Done, NoStatus
    <3> QED BY <2>4, <3>1, <3>3, <3>4 DEF Scan
  <2>5. CASE Watch
    <3>1. lifecycle \in Rows /\ lifecycle' = Acknowledged(lifecycle)
      BY <2>5 DEF TypeOK, Rows, Watch
    <3> QED BY <3>1, AcknowledgedRow
  <2>6. CASE PaneExited
    BY <2>6 DEF PaneExited, Done, Vacant, NoStatus
  <2>7. CASE \/ \E i \in Identities : Start(i)
             \/ \E h \in Hooks : Hook(h[1], h[2])
             \/ Exit \/ Crash
             \/ \E m \in inflight : Lose(m)
             \/ RespawnPane
             \/ UNCHANGED vars
    BY <2>1, <2>7 DEF Start, Hook, Exit, Crash, Lose, RespawnPane, vars
  <2>8. CASE Unwatch
    BY <2>8 DEF Unwatch
  <2> QED BY <2>2, <2>3, <2>4, <2>5, <2>6, <2>7, <2>8 DEF Next, Deliver
<1> QED BY <1>1, <1>2, TypeCorrect, PTL DEF Spec
-----------------------------------------------------------------------------
(* The session that runs gets the row                                      *)

\* While a session runs nobody else stamps a message and the scan leaves the
\* row alone.  So a row, or a message, as recent as the session's start is its
\* own; and its claim is in the row, on its way, or lost.
StartStands ==
  running # NoAgent =>
    /\ ~dead
    /\ 0 < startedAt[running] /\ startedAt[running] < clock
    /\ \A m \in inflight : m.sequence >= startedAt[running] =>
         m.identity = running /\ m.kind = "report"
    /\ lifecycle.sequence >= startedAt[running] => Shown(running)
    /\ \/ running \in lost
       \/ lifecycle.sequence >= startedAt[running]
       \/ \E m \in inflight : m.sequence = startedAt[running] /\ m.claim

\* A report that is taken shows something, and a claim that is not taken is
\* older than the row.
LEMMA ReportTaken ==
  ASSUME TypeOK, NEW m \in inflight
  PROVE  /\ m.claim => m.sequence <= Reported(lifecycle, m).sequence
         /\ \/ Reported(lifecycle, m) = lifecycle
            \/ /\ lifecycle.sequence < m.sequence
               /\ \E st \in Status \ {NoStatus} :
                    Reported(lifecycle, m) = Entry(m, st)
<1>1. /\ m.sequence \in Nat \ {0} /\ m.state \in States \cup {"done"}
      /\ m.claim \in BOOLEAN
  BY DEF TypeOK, Message
<1>2. /\ NewStatus(m.state) \in Status \ {NoStatus}
      /\ \A st \in Status : ApplyReport(st, m.state) \in Status \ {NoStatus}
  <2>1. ASSUME NEW st \in Status
        PROVE  /\ NewStatus(m.state) \in Status /\ ApplyReport(st, m.state) \in Status
               /\ NewStatus(m.state).state # "none"
               /\ ApplyReport(st, m.state).state # "none"
    BY <1>1, StatusTyped DEF NewStatus, ApplyReport, States
  <2>2. NoStatus \in Status /\ NoStatus.state = "none"
    BY DEF Status, NoStatus
  <2> QED BY <2>1, <2>2
<1>3. \A st : Entry(m, st).sequence = m.sequence
  BY DEF Entry
<1>4. CASE lifecycle = Vacant
  <2>1. Reported(lifecycle, m) = Entry(m, NewStatus(m.state))
    BY <1>4 DEF Reported
  <2> QED BY <1>1, <1>2, <1>3, <1>4, <2>1 DEF Vacant
<1>5. CASE lifecycle # Vacant
  <2>1. lifecycle.sequence \in Nat /\ lifecycle.status \in Status
    BY <1>5 DEF TypeOK
  <2>2. PICK st \in Status \ {NoStatus} :
          st = IF m.identity = lifecycle.identity /\ lifecycle.status # NoStatus
               THEN ApplyReport(lifecycle.status, m.state) ELSE NewStatus(m.state)
    BY <1>2, <2>1
  <2>3. \/ m.sequence <= lifecycle.sequence /\ Reported(lifecycle, m) = lifecycle
        \/ ~ m.claim /\ Reported(lifecycle, m) = lifecycle
        \/ /\ ~(m.sequence <= lifecycle.sequence)
           /\ Reported(lifecycle, m) = Entry(m, st)
    BY <1>1, <1>5, <2>2 DEF Reported
  <2> QED BY <1>1, <1>3, <2>1, <2>3
<1> QED BY <1>4, <1>5

\* A delivered report: of the session that runs, it is taken or finds the row
\* its own already; of another, it is older than the claim.
LEMMA ReportStands ==
  ASSUME Orders, StartStands, NEW m \in inflight, DeliverReport(m)
  PROVE  StartStands'
<1> SUFFICES ASSUME running # NoAgent PROVE StartStands'
  BY DEF DeliverReport, StartStands
<1>1. TypeOK
  BY DEF Orders
<1>2. /\ ~dead /\ 0 < startedAt[running] /\ startedAt[running] < clock
      /\ \A n \in inflight : n.sequence >= startedAt[running] =>
           n.identity = running /\ n.kind = "report"
  BY DEF StartStands
<1>3. /\ startedAt[running] \in Nat /\ lifecycle.sequence \in Nat
      /\ \A n \in inflight : n.sequence \in Nat
  BY <1>1 DEF TypeOK, Message, Vacant
<1>4. PICK l : l = Reported(lifecycle, m)
  OBVIOUS
<1>5. /\ lifecycle' = l \/ lifecycle' = Acknowledged(l)
      /\ inflight' = inflight \ {m}
      /\ UNCHANGED <<dead, clock, running, startedAt, lost>>
  BY <1>2, <1>4 DEF DeliverReport
<1>6. /\ m.claim => m.sequence <= l.sequence
      /\ \/ l = lifecycle
         \/ /\ lifecycle.sequence < m.sequence
            /\ \E st \in Status \ {NoStatus} : l = Entry(m, st)
  BY <1>1, <1>4, ReportTaken
<1>7. /\ lifecycle'.identity = l.identity /\ lifecycle'.sequence = l.sequence
      /\ l.status # NoStatus => lifecycle'.status # NoStatus
      /\ l.sequence \in Nat
  <2>1. l \in Rows
    <3>1. m.identity \in Identities /\ m.sequence \in Nat \ {0}
      BY <1>1 DEF TypeOK, Message
    <3>2. \A st \in Status : Entry(m, st) \in Rows
      BY <3>1 DEF Entry, Rows
    <3> QED BY <1>1, <1>6, <3>2 DEF TypeOK, Rows
  <2> QED BY <1>5, <2>1, AcknowledgedRow, AcknowledgedShown DEF Rows, Vacant
<1>8. CASE l = lifecycle
  <2>1. lifecycle.sequence >= startedAt[running] =>
          lifecycle'.identity = running /\ lifecycle'.status # NoStatus
    BY <1>7, <1>8 DEF StartStands, Shown
  <2>2. \/ running \in lost
        \/ lifecycle'.sequence >= startedAt[running]
        \/ \E n \in inflight' : n.sequence = startedAt[running] /\ n.claim
    BY <1>3, <1>5, <1>6, <1>7, <1>8 DEF StartStands
  <2> QED BY <1>2, <1>3, <1>5, <1>7, <1>8, <2>1, <2>2 DEF StartStands, Shown
<1>9. CASE l # lifecycle
  <2>1. PICK st \in Status \ {NoStatus} : l = Entry(m, st)
    BY <1>6, <1>9
  <2>2. l.sequence = m.sequence /\ l.identity = m.identity /\ l.status # NoStatus
    BY <2>1 DEF Entry
  <2>3. CASE m.sequence >= startedAt[running]
    BY <1>2, <1>3, <1>5, <1>7, <2>2, <2>3 DEF StartStands, Shown
  <2>4. CASE m.sequence < startedAt[running]
    <3>1. lifecycle.sequence < startedAt[running] /\ lifecycle'.sequence < startedAt[running]
      BY <1>3, <1>6, <1>7, <1>9, <2>2, <2>4
    <3>2. \/ running \in lost
          \/ \E n \in inflight' : n.sequence = startedAt[running] /\ n.claim
      BY <1>3, <1>5, <2>4, <3>1 DEF StartStands
    <3>3. ~(lifecycle'.sequence >= startedAt[running])
      BY <1>3, <1>7, <3>1
    <3> QED BY <1>2, <1>3, <1>5, <3>2, <3>3 DEF StartStands
  <2> QED BY <1>3, <2>3, <2>4
<1> QED BY <1>8, <1>9

\* The other steps: a clear in flight is of an earlier session, the scan finds
\* the agent there, and a session starts with its claim on its way.
LEMMA StandsStep == Orders /\ StartStands /\ [Next]_vars => StartStands'
<1> SUFFICES ASSUME Orders, StartStands, [Next]_vars, running' # NoAgent
             PROVE  StartStands'
  BY DEF StartStands
<1>1. /\ TypeOK /\ TypeOK'
      /\ clock \in Nat /\ startedAt \in [Identities -> Nat] /\ lifecycle.sequence \in Nat
      /\ \A m \in inflight : m.sequence \in Nat /\ m.sequence < clock
      /\ lifecycle.sequence < clock
  BY TypeStep DEF Orders, TypeOK, Message, Vacant, StampsInPast
<1>2. ASSUME NEW i \in Identities, Start(i) PROVE StartStands'
  <2>1. PICK m : m = [kind |-> "report", identity |-> i, claim |-> TRUE \/ i \in Unowned,
                      state |-> "idle", sequence |-> clock]
    OBVIOUS
  <2>2. inflight' = inflight \cup {m} /\ clock' = clock + 1
    BY <1>2, <2>1 DEF Start, Emit
  <2>3. m.claim /\ m.sequence = clock /\ m.identity = i /\ m.kind = "report"
    BY <2>1
  <2>4. /\ startedAt'[i] = clock /\ running' = i /\ ~dead'
        /\ lifecycle' = lifecycle /\ clock # 0
    BY <1>1, <1>2 DEF Start, TypeOK
  <2>5. \A n \in inflight : ~(n.sequence >= clock)
    BY <1>1
  <2>6. ~(lifecycle.sequence >= clock)
    BY <1>1
  <2> QED BY <1>1, <2>2, <2>3, <2>4, <2>5, <2>6 DEF StartStands
<1>3. ASSUME NEW h \in Hooks, Hook(h[1], h[2]) PROVE StartStands'
  <2>1. PICK m : m = [kind |-> "report", identity |-> running,
                      claim |-> h[1] \/ running \in Unowned,
                      state |-> h[2], sequence |-> clock]
    OBVIOUS
  <2>2. inflight' = inflight \cup {m} /\ clock' = clock + 1
    BY <1>3, <2>1 DEF Hook, Emit
  <2>3. m.identity = running /\ m.kind = "report"
    BY <2>1
  <2>4. UNCHANGED <<startedAt, running, dead, lifecycle, lost>> /\ running \in Identities
    BY <1>1, <1>3 DEF Hook, TypeOK
  <2>5. startedAt[running] < clock'
    BY <1>1, <1>3, <2>2, <2>4 DEF StartStands, Hook
  <2> QED BY <1>3, <2>2, <2>3, <2>4, <2>5 DEF StartStands, Shown, Hook
<1>4. ASSUME NEW m \in inflight, DeliverClear(m) PROVE StartStands'
  <2>1. /\ inflight' = inflight \ {m} /\ lifecycle' = Cleared(lifecycle, m)
        /\ UNCHANGED <<clock, startedAt, running, dead, lost>>
        /\ running # NoAgent /\ m.kind = "clear"
    BY <1>4 DEF DeliverClear, StartStands
  <2>2. startedAt[running] \in Nat /\ m.sequence < startedAt[running]
    BY <1>1, <2>1 DEF StartStands, TypeOK
  <2>3. CASE lifecycle' = lifecycle
    BY <2>1, <2>2, <2>3 DEF StartStands, Shown
  <2>4. CASE lifecycle' # lifecycle
    <3>1. lifecycle.sequence < m.sequence /\ lifecycle'.sequence = m.sequence
      BY <1>1, <2>1, <2>4, ClearOutcome DEF Entry
    <3>2. ~(lifecycle.sequence >= startedAt[running])
          /\ ~(lifecycle'.sequence >= startedAt[running])
      BY <1>1, <2>2, <3>1
    <3> QED BY <2>1, <2>2, <3>2 DEF StartStands
  <2> QED BY <2>3, <2>4
<1>5. CASE Watch
  <2>1. lifecycle \in Rows
    BY <1>1 DEF TypeOK, Rows
  <2>2. /\ lifecycle'.identity = lifecycle.identity
        /\ lifecycle'.sequence = lifecycle.sequence
        /\ lifecycle.status # NoStatus => lifecycle'.status # NoStatus
    BY <1>5, <2>1, AcknowledgedRow, AcknowledgedShown DEF Watch
  <2> QED BY <1>5, <2>2 DEF Watch, env, StartStands, Shown
<1>6. ASSUME NEW m \in inflight, Lose(m) PROVE StartStands'
  <2>1. /\ inflight' = inflight \ {m} /\ lost' = lost \cup {m.identity}
        /\ UNCHANGED <<lifecycle, clock, startedAt, running, dead>>
    BY <1>6 DEF Lose
  <2>2. startedAt[running] \in Nat
    BY <1>1, <2>1 DEF TypeOK
  <2>3. m.sequence = startedAt[running] => m.identity = running
    BY <1>1, <2>1, <2>2 DEF StartStands
  <2>4. \/ running \in lost'
        \/ lifecycle.sequence >= startedAt[running]
        \/ \E n \in inflight' : n.sequence = startedAt[running] /\ n.claim
    BY <2>1, <2>3 DEF StartStands
  <2> QED BY <2>1, <2>4 DEF StartStands, Shown
<1>7. CASE Scan
  BY <1>7 DEF Scan, env, StartStands, Shown
<1>8. CASE Unwatch \/ UNCHANGED vars
  BY <1>8 DEF Unwatch, env, vars, StartStands, Shown
<1>9. CASE Exit \/ Crash \/ PaneExited
  BY <1>9 DEF Exit, Crash, PaneExited
<1>10. CASE RespawnPane
  BY <1>10 DEF RespawnPane, env, StartStands
<1> QED BY <1>2, <1>3, <1>4, <1>5, <1>6, <1>7, <1>8, <1>9, <1>10, ReportStands
        DEF Next, Deliver

\* Whoever runs in the pane has its row once its messages are in, if none of
\* them was lost: no stale report and no tombstone shuts it out.
THEOREM RunnersOwnTheirRow == Spec => []RunnerOwnsRow
<1>1. Init => StartStands
  BY DEF Init, StartStands
<1>2. StartStands => RunnerOwnsRow
  BY DEF StartStands, RunnerOwnsRow
<1> QED BY <1>1, <1>2, StandsStep, OrdersInvariant, PTL DEF Spec

-----------------------------------------------------------------------------
(* Completions                                                             *)

\* The state a report leads to is a completion if it was one already, or the
\* agent shown went idle, or it says so itself.
LEMMA CompletionOrigin ==
  ASSUME TypeOK, NEW m \in inflight, Done(Reported(lifecycle, m)), ~ Done(lifecycle)
  PROVE  /\ Reported(lifecycle, m).sequence = m.sequence
         /\ \/ m.state = "done"
            \/ /\ Reported(lifecycle, m).identity = lifecycle.identity
               /\ lifecycle.status.state \in {"working", "blocked", "unknown"}
<1>1. /\ m.sequence \in Nat \ {0} /\ m.state \in States \cup {"done"}
      /\ lifecycle.status \in Status
  BY DEF TypeOK, Message, Vacant, Status
<1>2. \A st : /\ Entry(m, st).sequence = m.sequence /\ Entry(m, st).status = st
              /\ Entry(m, st).identity = m.identity
  BY DEF Entry
<1>3. CASE Reported(lifecycle, m) = Entry(m, NewStatus(m.state))
  <2>1. NewStatus(m.state).state = "idle" /\ ~ NewStatus(m.state).acknowledged
    BY <1>2, <1>3 DEF Done
  <2>2. m.state = "done"
    BY <1>1, <2>1 DEF NewStatus
  <2> QED BY <1>2, <1>3, <2>2
<1>4. CASE /\ Reported(lifecycle, m) = Entry(m, ApplyReport(lifecycle.status, m.state))
           /\ m.identity = lifecycle.identity /\ lifecycle.status # NoStatus
  <2>1. ~ ApplyReport(lifecycle.status, m.state).acknowledged
    BY <1>2, <1>4 DEF Done
  <2>2. m.state = "done" \/ (m.state = "idle" /\
          ~(lifecycle.status.state = "idle" /\ lifecycle.status.acknowledged))
    BY <1>1, <2>1 DEF ApplyReport, NewStatus
  <2>3. ~(lifecycle.status.state = "idle" /\ ~ lifecycle.status.acknowledged)
    BY DEF Done
  <2>4. lifecycle.status.state \in States
    BY <1>1, <1>4 DEF Status
  <2> QED BY <1>2, <1>4, <2>2, <2>3, <2>4 DEF States
<1>5. Reported(lifecycle, m) # lifecycle
  OBVIOUS
<1> QED BY <1>3, <1>4, <1>5 DEF Reported

\* A report that leaves the row to its owner and idle leaves the completion.
LEMMA CompletionStays ==
  ASSUME TypeOK, NEW m \in inflight, Done(lifecycle), ~ Done(Reported(lifecycle, m))
  PROVE  \/ Reported(lifecycle, m).identity # lifecycle.identity
         \/ Reported(lifecycle, m).status.state # "idle"
<1>1. /\ m.state \in States \cup {"done"}
      /\ lifecycle.status.state = "idle" /\ ~ lifecycle.status.acknowledged
      /\ lifecycle # Vacant /\ lifecycle.status # NoStatus
  <2>1. NoStatus.state = "none" /\ Vacant.status = NoStatus
    BY DEF NoStatus, Vacant
  <2>2. m \in Message
    BY DEF TypeOK
  <2> QED BY <2>1, <2>2 DEF Message, Done
<1>2. \A st : Entry(m, st).status = st /\ Entry(m, st).identity = m.identity
  BY DEF Entry
<1>3. Reported(lifecycle, m) # lifecycle
  OBVIOUS
<1>4. CASE m.identity # lifecycle.identity
  BY <1>1, <1>2, <1>3, <1>4 DEF Reported
<1>5. CASE m.identity = lifecycle.identity
  <2>1. Reported(lifecycle, m) = Entry(m, ApplyReport(lifecycle.status, m.state))
    BY <1>1, <1>3, <1>5 DEF Reported
  <2>2. ApplyReport(lifecycle.status, m.state).state = "idle" =>
          ~ ApplyReport(lifecycle.status, m.state).acknowledged
    BY <1>1 DEF ApplyReport, NewStatus
  <2> QED BY <1>2, <2>1, <2>2 DEF Done
<1> QED BY <1>4, <1>5

\* A completion is the agent's own and stays until it is seen, resumed or
\* replaced.
THEOREM CompletionsAreReal == Spec => CompletionsComeAndStay
<1> DEFINE Comes ==
      Done(lifecycle') /\ ~Done(lifecycle) =>
        \/ /\ lifecycle'.identity = lifecycle.identity
           /\ lifecycle.status.state \in {"working", "blocked", "unknown"}
        \/ \E m \in inflight : /\ m.sequence = lifecycle'.sequence
                               /\ m.state = "done"
<1> DEFINE Remains ==
      Done(lifecycle) /\ ~Done(lifecycle') =>
        \/ watched'
        \/ lifecycle'.identity # lifecycle.identity
        \/ lifecycle'.status.state # "idle"
<1>1. ASSUME TypeOK, [Next]_vars PROVE Comes /\ Remains
  <2>1. CASE UNCHANGED lifecycle
    BY <2>1
  <2>2. ASSUME NEW m \in inflight, DeliverReport(m) PROVE Comes /\ Remains
    <3>1. lifecycle \in Rows
      BY <1>1 DEF TypeOK, Rows
    <3>2. PICK l : l = IF dead THEN lifecycle ELSE Reported(lifecycle, m)
      OBVIOUS
    <3>3. /\ watched' = watched
          /\ lifecycle' = IF watched THEN Acknowledged(l) ELSE l
      BY <2>2, <3>2 DEF DeliverReport
    <3>4. l \in Rows
      <4>1. m.identity \in Identities /\ m.sequence \in Nat \ {0}
        BY <1>1 DEF TypeOK, Message
      <4>2. \A st \in Status : Entry(m, st) \in Rows
        BY <4>1 DEF Entry, Rows
      <4> QED BY <1>1, <3>1, <3>2, <4>2, ReportOutcome
    <3>5. CASE watched
      <4>1. ~Done(lifecycle')
        BY <3>3, <3>4, <3>5, AcknowledgedRow
      <4> QED BY <3>3, <3>5, <4>1
    <3>6. CASE ~watched
      <4>1. lifecycle' = l
        BY <3>3, <3>6
      <4>2. CASE l = lifecycle
        BY <4>1, <4>2
      <4>3. CASE l = Reported(lifecycle, m)
        BY <1>1, <4>1, <4>3, CompletionOrigin, CompletionStays
      <4> QED BY <3>2, <4>2, <4>3
    <3> QED BY <3>5, <3>6
  <2>3. ASSUME NEW m \in inflight, DeliverClear(m) PROVE Comes /\ Remains
    <3>1. Entry(m, NoStatus).status.state = "none"
      BY DEF Entry, NoStatus
    <3>2. lifecycle' = lifecycle \/ lifecycle'.status.state = "none"
      BY <1>1, <2>3, <3>1, ClearOutcome DEF DeliverClear
    <3> QED BY <3>2 DEF Done
  <2>4. CASE Scan
    <3>1. lifecycle \in Rows
      BY <1>1 DEF TypeOK, Rows
    <3>2. ASSUME lifecycle' = [lifecycle EXCEPT !.status = NoStatus]
          PROVE  lifecycle'.status = NoStatus
      BY <3>1, <3>2 DEF Rows, Vacant
    <3>3. lifecycle' = lifecycle \/ lifecycle'.status.state = "none"
      BY <2>4, <3>2 DEF Scan, NoStatus
    <3> QED BY <3>3 DEF Done
  <2>5. CASE Watch
    <3>1. lifecycle \in Rows /\ lifecycle' = Acknowledged(lifecycle) /\ watched'
      BY <1>1, <2>5 DEF TypeOK, Rows, Watch
    <3> QED BY <3>1, AcknowledgedRow
  <2>6. CASE PaneExited
    BY <2>6 DEF PaneExited, Done, Vacant, NoStatus
  <2>7. CASE \/ \E i \in Identities : Start(i)
             \/ \E h \in Hooks : Hook(h[1], h[2])
             \/ Exit \/ Crash
             \/ \E m \in inflight : Lose(m)
             \/ Unwatch \/ RespawnPane
             \/ UNCHANGED vars
    BY <2>1, <2>7 DEF Start, Hook, Exit, Crash, Lose, Unwatch, RespawnPane, vars
  <2> QED BY <1>1, <2>2, <2>3, <2>4, <2>5, <2>6, <2>7 DEF Next, Deliver
<1>2. TypeOK /\ [Next]_vars => [ Comes /\ Remains ]_vars
  BY <1>1
<1> QED BY <1>2, TypeCorrect, PTL DEF Spec, CompletionsComeAndStay

-----------------------------------------------------------------------------
(* Copy mode                                                               *)

Positions == [row : Nat, col : Nat]
Modes ==
  [top : Nat, cursor : Positions, anchor : Positions \cup {NoAnchor},
   height : Nat \ {0}, rectangle : BOOLEAN]

CopyTyped ==
  /\ historyCells \in Seq(Nat) /\ history \in Nat /\ lines \in Nat \ {0} /\ width \in Nat
  /\ onAlternate \in BOOLEAN /\ focused \in BOOLEAN
  /\ copying \in BOOLEAN /\ mode \in Modes
  /\ searching \in BOOLEAN /\ mouseSel \in {"none", "armed", "dragging"}
  /\ shrunk \in BOOLEAN

\* The cursor of mode m is in its window, and the window in a buffer of n lines.
Within(m, n) ==
  /\ m.cursor.row < n /\ m.height <= n
  /\ m.top <= m.cursor.row /\ m.cursor.row < m.top + m.height

\* The inductive invariant.  It speaks of the window the mode remembers, which
\* is the pane's as long as the pane is not resized.
CopyInv == CopyTyped /\ (copying /\ ~ shrunk => Within(mode, Combined))

\* A change of the cursor, the anchor or the shape keeps a mode one.
LEMMA ModeParts ==
  ASSUME NEW m \in Modes, NEW p \in Positions
  PROVE  /\ [m EXCEPT !.cursor = p] \in Modes
         /\ [m EXCEPT !.cursor = p].cursor = p
         /\ [m EXCEPT !.cursor = p].top = m.top
         /\ [m EXCEPT !.cursor = p].height = m.height
         /\ m.top \in Nat /\ m.height \in Nat \ {0} /\ m.cursor \in Positions
         /\ m.cursor.row \in Nat /\ m.cursor.col \in Nat
BY DEF Modes, Positions

\* Scrolling to the cursor brings it into the window.
LEMMA Scrolled ==
  ASSUME CopyTyped, NEW m \in Modes
  PROVE  /\ ScrollToCursor(m) \in Modes
         /\ m.cursor.row < Combined /\ m.height <= Combined =>
              Within(ScrollToCursor(m), Combined)
<1>1. PICK n : n = Combined
  OBVIOUS
<1>2. n \in Nat
  BY <1>1 DEF CopyTyped, Combined
<1>3. PICK top : top = IF m.cursor.row < m.top THEN m.cursor.row
                       ELSE IF m.cursor.row >= m.top + m.height
                            THEN m.cursor.row + 1 - m.height ELSE m.top
  OBVIOUS
<1>4. /\ m.top \in Nat /\ m.height \in Nat \ {0} /\ m.cursor.row \in Nat
  BY DEF Modes, Positions
<1>5. top \in Nat
  BY <1>3, <1>4
<1>6. PICK t : t = LowerOf(top, Less(n, m.height))
  OBVIOUS
<1>7. t \in Nat
  BY <1>2, <1>4, <1>5, <1>6 DEF LowerOf, Less
<1>8. ScrollToCursor(m) = [m EXCEPT !.top = t]
  BY <1>1, <1>3, <1>6 DEF ScrollToCursor
<1>9. /\ [m EXCEPT !.top = t] \in Modes
      /\ [m EXCEPT !.top = t].top = t
      /\ [m EXCEPT !.top = t].cursor = m.cursor
      /\ [m EXCEPT !.top = t].height = m.height
  BY <1>7 DEF Modes
<1>10. ASSUME m.cursor.row < n, m.height <= n
       PROVE  t <= m.cursor.row /\ m.cursor.row < t + m.height
  BY <1>2, <1>3, <1>4, <1>6, <1>10 DEF LowerOf, Less
<1> QED BY <1>1, <1>8, <1>9, <1>10 DEF Within

LEMMA Moved ==
  ASSUME CopyTyped, NEW m \in Modes, NEW p \in Positions
  PROVE  /\ MovedTo(m, p) \in Modes
         /\ p.row < Combined /\ m.height <= Combined => Within(MovedTo(m, p), Combined)
         /\ MovedTo(m, p).height = m.height
<1>1. /\ [m EXCEPT !.cursor = p] \in Modes
      /\ [m EXCEPT !.cursor = p].cursor = p
      /\ [m EXCEPT !.cursor = p].height = m.height
  BY ModeParts
<1>2. PICK n : n = [m EXCEPT !.cursor = p]
  OBVIOUS
<1>3. ScrollToCursor(n).height = n.height
  BY <1>1, <1>2 DEF ScrollToCursor, Modes
<1> QED BY <1>1, <1>2, <1>3, Scrolled DEF MovedTo

\* What is entered, and where the keys, the mouse and a search lead.
LEMMA EnteredWithin == CopyTyped => Entered \in Modes /\ Within(Entered, Combined)
<1> SUFFICES ASSUME CopyTyped PROVE Entered \in Modes /\ Within(Entered, Combined)
  OBVIOUS
<1>1. PICK h, l \in Nat : h = history /\ l = lines /\ l > 0
  BY DEF CopyTyped
<1>2. Combined = h + l /\ Less(Combined, lines) = h
  BY <1>1 DEF Combined, Less
<1> QED BY <1>1, <1>2 DEF Entered, Modes, Positions, Pos, Within

LEMMA CombinedRows ==
  ASSUME CopyTyped
  PROVE  /\ Combined \in Nat /\ MaxRow \in Nat /\ Combined = MaxRow + 1
         /\ \A r \in Nat : LowerOf(r, MaxRow) \in Nat /\ LowerOf(r, MaxRow) < Combined
         /\ \A r, d \in Nat : Less(r, d) \in Nat /\ Less(r, d) <= r
BY DEF CopyTyped, Combined, MaxRow, LowerOf, Less

\* An element of a sequence of lengths is one.
LEMMA LengthsNat ==
  ASSUME NEW s \in Seq(Nat), NEW i \in Nat, i < Len(s)
  PROVE  s[i + 1] \in Nat
<1>1. i + 1 \in 1 .. Len(s)
  OBVIOUS
<1> QED BY <1>1

\* Every row has a length.
LEMMA LengthNat ==
  ASSUME CopyTyped, NEW r \in Nat
  PROVE  LengthOf(r) \in Nat
<1>1. PICK n \in Nat : n = Len(historyCells) /\ n = history
  BY DEF CopyTyped, history
<1>2. r < n => historyCells[r + 1] \in Nat
  BY <1>1, LengthsNat DEF CopyTyped
<1> QED BY <1>1, <1>2 DEF CopyTyped, LengthOf

LEMMA MovesGood ==
  ASSUME CopyTyped, NEW m \in Modes, NEW p \in Moves(m)
  PROVE  p \in Positions /\ (m.cursor.row < Combined => p.row < Combined)
<1>1. PICK r, c, n, x \in Nat : /\ r = m.cursor.row /\ c = m.cursor.col
                                /\ n = Combined /\ x = MaxRow /\ n = x + 1
  <2>1. m.cursor.row \in Nat /\ m.cursor.col \in Nat
    BY DEF Modes, Positions
  <2> QED BY <2>1, CombinedRows
<1>2. m.height \in Nat /\ m.height \div 2 \in Nat /\ 1 \in Nat /\ Width \in Nat
  <2>1. m.height \in Nat
    BY DEF Modes
  <2>2. \A h \in Nat : h \div 2 \in Nat
    OBVIOUS
  <2> QED BY <2>1, <2>2, CopyAssumption
<1>3. ASSUME NEW q \in RowMoves(m) PROVE q \in Nat /\ (r < n => q < n)
  <2>1. PICK d \in Nat : q = Less(r, d) \/ q = LowerOf(r + d, x)
    BY <1>1, <1>2 DEF RowMoves
  <2> QED BY <1>1, <2>1 DEF Less, LowerOf
<1>4. ASSUME NEW q \in ColumnMoves(m) PROVE q \in Nat
  <2>1. LengthOf(r) \in Nat
    BY <1>1, LengthNat
  <2> QED BY <1>1, <1>2, <2>1 DEF ColumnMoves, Less, LowerOf
<1>5. ASSUME NEW q \in WordMoves PROVE q \in Positions /\ q.row < n
  <2>1. q \in [row : 0 .. x, col : 0 .. Width]
    BY <1>1 DEF WordMoves
  <2> QED BY <1>1, <1>2, <2>1 DEF Positions
<1>6. CASE p \in {Pos(q, c) : q \in RowMoves(m)}
  BY <1>1, <1>3, <1>6 DEF Positions, Pos
<1>7. CASE p \in {Pos(r, k) : k \in ColumnMoves(m)}
  BY <1>1, <1>4, <1>7 DEF Positions, Pos
<1>8. CASE p \in {Pos(0, 0), Pos(x, 0)}
  BY <1>1, <1>8 DEF Positions, Pos
<1> QED BY <1>1, <1>5, <1>6, <1>7, <1>8 DEF Moves

\* Every result of a search, a motion or a drag, from a mode that is within the
\* buffer and from one that is not.
LEMMA SearchedGood ==
  ASSUME CopyTyped, NEW m \in Modes, NEW k \in Searched(m)
  PROVE  k \in Modes /\ (Within(m, Combined) => Within(k, Combined))
<1>1. CASE k = m
  BY <1>1
<1>2. CASE k \in {MovedTo(m, p) : p \in Matches(m)}
  <2>1. PICK p \in Matches(m) : k = MovedTo(m, p)
    BY <1>2
  <2>2. p \in Positions /\ p.row < Combined
    <3>1. PICK n, x \in Nat : n = Combined /\ x = MaxRow /\ n = x + 1
      BY CombinedRows
    <3>2. p \in [row : 0 .. x, col : 0 .. Width - 1]
      BY <3>1 DEF Matches
    <3> QED BY <3>1, <3>2, CopyAssumption DEF Positions
  <2> QED BY <2>1, <2>2, Moved DEF Within
<1> QED BY <1>1, <1>2 DEF Searched

LEMMA SetCursorGood ==
  ASSUME CopyTyped, NEW m \in Modes, NEW p \in Positions
  PROVE  /\ SetCursor(m, p) \in Modes
         /\ m.height <= Combined => Within(SetCursor(m, p), Combined)
         /\ SetCursor(m, p).height = m.height
<1>1. PICK q : q = Pos(LowerOf(p.row, MaxRow), p.col)
  OBVIOUS
<1>2. q \in Positions /\ q.row < Combined
  <2>1. p.row \in Nat /\ p.col \in Nat
    BY DEF Positions
  <2>2. LowerOf(p.row, MaxRow) \in Nat /\ LowerOf(p.row, MaxRow) < Combined
    BY <2>1, CombinedRows
  <2>3. q.row = LowerOf(p.row, MaxRow)
    BY <1>1 DEF Pos
  <2> QED BY <1>1, <2>1, <2>2, <2>3 DEF Positions, Pos
<1> QED BY <1>1, <1>2, Moved DEF SetCursor

LEMMA SelectionGood ==
  ASSUME NEW m \in Modes, NEW k \in {StartSelection(m), ToggleRectangle(m)}
  PROVE  /\ k \in Modes /\ k.height = m.height
         /\ \A n : Within(m, n) => Within(k, n)
<1>1. PICK t \in Nat, c \in Positions, a \in Positions \cup {NoAnchor},
           h \in Nat \ {0}, d \in BOOLEAN :
        m = [top |-> t, cursor |-> c, anchor |-> a, height |-> h, rectangle |-> d]
  BY DEF Modes
<1>2. \E b \in Positions \cup {NoAnchor}, e \in BOOLEAN :
        k = [top |-> t, cursor |-> c, anchor |-> b, height |-> h, rectangle |-> e]
  BY <1>1 DEF StartSelection, ToggleRectangle
<1> QED BY <1>1, <1>2 DEF Modes, Within

LEMMA StepGood ==
  ASSUME CopyTyped, NEW m \in Modes, NEW up \in BOOLEAN
  PROVE  /\ Step(m, up) \in Modes
         /\ Within(m, Combined) => Within(Step(m, up), Combined)
<1>1. PICK r, c \in Nat : r = m.cursor.row /\ c = m.cursor.col
  BY DEF Modes, Positions
<1>2. PICK q : q = IF up THEN Less(r, 1) ELSE LowerOf(r + 1, MaxRow)
  OBVIOUS
<1>3. q \in Nat /\ (r < Combined => q < Combined)
  BY <1>1, <1>2, CombinedRows DEF LowerOf, Less
<1>4. Pos(q, c) \in Positions /\ Pos(q, c).row = q
  BY <1>1, <1>3 DEF Pos, Positions
<1>5. Step(m, up) = MovedTo(m, Pos(q, c))
  BY <1>1, <1>2 DEF Step
<1> QED BY <1>1, <1>3, <1>4, <1>5, Moved DEF Within

\* The steps of the copy mode, by what they do to the mode.
CopyOff == copying' = FALSE /\ mode' = NoMode /\ shrunk' = FALSE

LEMMA CombinedNat == CopyTyped => Combined \in Nat
BY CombinedRows

LEMMA CopyKept ==
  ASSUME CopyInv, CopyTyped', Combined' >= Combined \/ ~ copying \/ shrunk',
         UNCHANGED <<copying, mode>>, shrunk => shrunk'
  PROVE  CopyInv'
<1>1. Combined \in Nat /\ Combined' \in Nat
  <2>1. CopyTyped /\ CopyTyped'
    BY DEF CopyInv
  <2>2. CopyTyped' => (Combined \in Nat)'
    BY CombinedNat, PTL
  <2>3. (Combined \in Nat)' <=> Combined' \in Nat
    OBVIOUS
  <2> QED BY <2>1, <2>2, <2>3, CombinedNat
<1>2. mode.cursor.row \in Nat /\ mode.height \in Nat
  BY DEF CopyInv, CopyTyped, Modes, Positions
<1> QED BY <1>1, <1>2 DEF CopyInv, CopyTyped, Within

LEMMA CopySet ==
  ASSUME CopyInv, NEW m \in Modes, Stays(m), Combined' = Combined, CopyTyped',
         ~ copying \/ Within(mode, Combined) => Within(m, Combined)
  PROVE  CopyInv'
<1>1. copying' /\ mode' = m /\ shrunk' = (shrunk /\ copying)
  BY DEF Stays
<1>2. Within(m, Combined)' = Within(m, Combined)
  BY DEF Within
<1> QED BY <1>1, <1>2 DEF CopyInv, CopyTyped, Within

\* The history stays a sequence of lengths.
LEMMA HistoryTyped ==
  ASSUME CopyTyped, NEW n \in Nat, NEW w \in Nat
  PROVE  HistoryAfter(n, w) \in Seq(Nat)
<1>1. PICK k \in Nat : k = LowerOf(history + n, MaxHistory)
  BY CopyAssumption DEF CopyTyped, LowerOf
<1>2. PICK d \in Nat : d = Less(history + n, MaxHistory)
  <2>1. history + n \in Nat /\ MaxHistory \in Nat
    BY CopyAssumption DEF CopyTyped
  <2> QED BY <2>1 DEF Less
<1>3. \A i \in 1 .. k : (IF i + d <= history THEN historyCells[i + d] ELSE w) \in Nat
  <2> SUFFICES ASSUME NEW i \in 1 .. k, i + d <= history PROVE historyCells[i + d] \in Nat
    OBVIOUS
  <2>1. i + d \in 1 .. Len(historyCells)
    BY <1>1, <1>2 DEF history, CopyTyped
  <2> QED BY <2>1 DEF CopyTyped
<1>4. HistoryAfter(n, w) = [i \in 1 .. k |-> IF i + d <= history THEN historyCells[i + d] ELSE w]
  BY <1>1, <1>2 DEF HistoryAfter
<1> QED BY <1>3, <1>4

\* What happens to the pane: lines come, go and are cut off, its application
\* switches screens, the focus moves.
LEMMA PaneStep ==
  ASSUME CopyInv,
         \/ Output \/ EraseHistory \/ SwitchScreen \/ FocusMoves
         \/ \E l \in 1 .. MaxLines, w \in 1 .. Width : ResizePane(l, w)
  PROVE  CopyInv'
<1>1. /\ history \in Nat /\ lines \in Nat /\ lines > 0 /\ CopyTyped
      /\ MaxLines \in Nat /\ MaxHistory \in Nat
  BY CopyAssumption DEF CopyInv, CopyTyped
<1>2. ASSUME NEW h \in Seq(Nat), NEW l \in Nat \ {0}, NEW w \in Nat, Becomes(h, l, w)
      PROVE  CopyInv'
  <2>1. /\ historyCells' = h /\ lines' = l /\ width' = w
        /\ shrunk' = (shrunk \/ (copying /\ Len(h) + l < Combined))
        /\ UNCHANGED <<onAlternate, focused, copying, mode, searching, mouseSel>>
    BY <1>2 DEF Becomes, copy
  <2>2. shrunk' \in BOOLEAN
    BY <1>1, <2>1 DEF CopyTyped
  <2>3. CopyTyped'
    BY <1>1, <2>1, <2>2 DEF CopyTyped, history
  <2>4. Combined' = Len(h) + l /\ Combined \in Nat
    BY <1>1, <2>1, CombinedNat DEF Combined, history
  <2>5. PICK d \in BOOLEAN : d = (copying /\ Len(h) + l < Combined)
    OBVIOUS
  <2>6. /\ Combined' >= Combined \/ ~ copying \/ shrunk'
        /\ shrunk => shrunk'
    <3>1. shrunk \in BOOLEAN /\ copying \in BOOLEAN /\ shrunk' = (shrunk \/ d)
      BY <1>1, <2>1, <2>5 DEF CopyTyped
    <3>2. Len(h) + l < Combined \/ Combined' >= Combined
      BY <2>4
    <3>3. ~ d => Combined' >= Combined \/ ~ copying
      BY <2>5, <3>2, Zenon
    <3> QED BY <3>1, <3>3
  <2>7. UNCHANGED <<copying, mode>>
    BY <2>1
  <2> QED BY <2>3, <2>6, <2>7, CopyKept
<1>3. CASE Output
  BY <1>1, <1>2, <1>3, HistoryTyped DEF Output, CopyTyped
<1>4. CASE EraseHistory
  <2>1. << >> \in Seq(Nat)
    OBVIOUS
  <2> QED BY <1>1, <1>2, <1>4, <2>1 DEF EraseHistory, CopyTyped
<1>5. ASSUME NEW l \in 1 .. MaxLines, NEW w \in 1 .. Width, ResizePane(l, w)
      PROVE  CopyInv'
  <2>1. PICK h : h = IF onAlternate THEN historyCells ELSE HistoryAfter(Less(lines, l), w)
    OBVIOUS
  <2>2. Less(lines, l) \in Nat /\ w \in Nat /\ l \in Nat \ {0}
    BY <1>1, CopyAssumption DEF Less
  <2>3. h \in Seq(Nat)
    BY <1>1, <2>1, <2>2, HistoryTyped DEF CopyTyped
  <2> QED BY <1>2, <1>5, <2>1, <2>2, <2>3 DEF ResizePane
<1>6. CASE SwitchScreen \/ FocusMoves
  <2>1. /\ UNCHANGED <<buffer, copying, mode, searching, mouseSel, shrunk>>
        /\ onAlternate' \in BOOLEAN /\ focused' \in BOOLEAN
    BY <1>1, <1>6 DEF SwitchScreen, FocusMoves, copy, CopyTyped
  <2>2. CopyTyped' /\ Combined' = Combined
    BY <1>1, <2>1 DEF CopyTyped, Combined, buffer, history
  <2>3. Combined' >= Combined
    BY <1>1, <2>2, CombinedNat
  <2> QED BY <2>1, <2>2, <2>3, CopyKept
<1> QED BY <1>3, <1>4, <1>5, <1>6

\* Copy mode ends.
LEMMA LeavesStep ==
  ASSUME CopyInv, Leaves, UNCHANGED <<buffer, onAlternate>>,
         focused' \in BOOLEAN, searching' \in BOOLEAN,
         mouseSel' \in {"none", "armed", "dragging"}
  PROVE  CopyInv'
<1>1. NoMode \in Modes
  BY DEF NoMode, Modes, Positions, Pos
<1> QED BY <1>1 DEF CopyInv, CopyTyped, Leaves, buffer, history

\* Copy mode goes on, or begins, with mode m.
LEMMA StaysStep ==
  ASSUME CopyInv, NEW m \in Modes, Stays(m), UNCHANGED <<buffer, onAlternate>>,
         focused' \in BOOLEAN, searching' \in BOOLEAN,
         mouseSel' \in {"none", "armed", "dragging"},
         ~ copying \/ Within(mode, Combined) => Within(m, Combined)
  PROVE  CopyInv'
<1>1. CopyTyped'
  <2>1. shrunk' \in BOOLEAN /\ copying' \in BOOLEAN /\ mode' \in Modes
    BY DEF Stays, CopyInv, CopyTyped
  <2> QED BY <2>1 DEF CopyInv, CopyTyped, buffer, history
<1>2. Combined' = Combined
  BY DEF Combined, buffer, history
<1> QED BY <1>1, <1>2, CopySet

\* The handlers of keys and commands.
LEMMA KeysStep ==
  ASSUME CopyInv,
         \/ FocusLeaves \/ EnterCopyMode \/ CopyNavigate \/ CopyQuit
         \/ CopyStartSelection \/ CopyYank \/ SearchOpen \/ SearchCancel
         \/ SearchConfirm \/ SearchRepeat \/ Render
  PROVE  CopyInv'
<1>1. /\ CopyTyped /\ mode \in Modes /\ focused \in BOOLEAN /\ searching \in BOOLEAN
      /\ mouseSel \in {"none", "armed", "dragging"} /\ copying \in BOOLEAN
  BY DEF CopyInv, CopyTyped
<1>2. ASSUME ExitCopyMode, UNCHANGED <<buffer, onAlternate>>, focused' \in BOOLEAN
      PROVE  CopyInv'
  BY <1>2, LeavesStep DEF ExitCopyMode
<1>3. ASSUME NEW m \in Modes, copying, Stays(m), UNCHANGED pane,
             searching' \in BOOLEAN, UNCHANGED mouseSel,
             Within(mode, Combined) => Within(m, Combined)
      PROVE  CopyInv'
  BY <1>1, <1>3, StaysStep DEF pane
<1>4. ASSUME copying, NEW M, OnTarget(M),
             \A m \in M : m \in Modes /\ (Within(mode, Combined) => Within(m, Combined))
      PROVE  CopyInv'
  <2>1. CASE ExitCopyMode /\ UNCHANGED pane
    BY <1>1, <1>2, <2>1 DEF pane
  <2>2. CASE \E m \in M : Stays(m) /\ UNCHANGED <<searching, mouseSel>> /\ UNCHANGED pane
    BY <1>1, <1>3, <1>4, <2>2
  <2> QED BY <1>4, <2>1, <2>2 DEF OnTarget
<1>5. CASE FocusLeaves
  <2>1. CASE copying
    BY <1>2, <1>5, <2>1 DEF FocusLeaves
  <2>2. CASE ~ copying
    BY <1>1, <1>5, <2>2 DEF FocusLeaves, copy, CopyInv, CopyTyped, buffer, history
  <2> QED BY <2>1, <2>2
<1>6. CASE EnterCopyMode
  <2>1. Entered \in Modes /\ Within(Entered, Combined)
    BY <1>1, EnteredWithin
  <2>2. /\ copying' = TRUE /\ mode' = Entered /\ shrunk' = FALSE
        /\ UNCHANGED <<buffer, onAlternate, focused, searching, mouseSel>>
    BY <1>6 DEF EnterCopyMode, pane
  <2>3. CopyTyped'
    BY <1>1, <2>1, <2>2 DEF CopyTyped, buffer, history
  <2>4. Combined' = Combined
    BY <2>2 DEF Combined, buffer, history
  <2> QED BY <2>1, <2>2, <2>3, <2>4 DEF CopyInv, Within
<1>7. CASE CopyNavigate
  <2>1. \A m \in {MovedTo(mode, p) : p \in Moves(mode)} :
          m \in Modes /\ (Within(mode, Combined) => Within(m, Combined))
    BY <1>1, MovesGood, Moved DEF Within
  <2>2. copying /\ OnTarget({MovedTo(mode, p) : p \in Moves(mode)})
    BY <1>7 DEF CopyNavigate, OnTarget
  <2> QED BY <1>4, <2>1, <2>2
<1>8. CASE SearchRepeat
  <2>1. \A m \in Searched(mode) :
          m \in Modes /\ (Within(mode, Combined) => Within(m, Combined))
    BY <1>1, SearchedGood
  <2>2. copying /\ OnTarget(Searched(mode))
    BY <1>8 DEF SearchRepeat, OnTarget
  <2> QED BY <1>4, <2>1, <2>2
<1>9. CASE CopyQuit \/ CopyYank \/ Render
  <2>1. CASE Leaves /\ UNCHANGED pane /\ searching' \in BOOLEAN
             /\ mouseSel' \in {"none", "armed", "dragging"}
    BY <1>1, <2>1, LeavesStep DEF pane
  <2>2. Leaves /\ UNCHANGED pane
    BY <1>9 DEF CopyQuit, CopyYank, Render, ExitCopyMode
  <2>3. searching' \in BOOLEAN /\ mouseSel' \in {"none", "armed", "dragging"}
    BY <1>1, <1>9 DEF CopyQuit, CopyYank, Render, ExitCopyMode
  <2> QED BY <2>1, <2>2, <2>3
<1>10. CASE CopyStartSelection
  BY <1>1, <1>3, <1>10, SelectionGood DEF CopyStartSelection
<1>11. CASE SearchOpen \/ SearchCancel
  <2>1. /\ UNCHANGED <<buffer, onAlternate, focused, copying, mode, mouseSel, shrunk>>
        /\ searching' \in BOOLEAN
    BY <1>11 DEF SearchOpen, SearchCancel, pane
  <2>2. CopyTyped' /\ Combined' = Combined
    BY <1>1, <2>1 DEF CopyTyped, Combined, buffer, history
  <2>3. Combined' >= Combined
    BY <1>1, <2>2, CombinedNat
  <2> QED BY <2>1, <2>2, <2>3, CopyKept
<1>12. CASE SearchConfirm
  <2>1. CASE searching' = FALSE /\ UNCHANGED <<copying, mode, mouseSel, shrunk>> /\ UNCHANGED pane
    <3>1. CopyTyped' /\ Combined' = Combined
      BY <1>1, <2>1 DEF CopyTyped, Combined, pane, buffer, history
    <3>2. Combined' >= Combined
      BY <1>1, <3>1, CombinedNat
    <3> QED BY <2>1, <3>1, <3>2, CopyKept
  <2>2. CASE ExitCopyMode /\ UNCHANGED pane
    BY <1>1, <1>2, <2>2 DEF pane
  <2>3. ASSUME TargetIsActive, searching' = FALSE, UNCHANGED mouseSel, UNCHANGED pane,
               NEW m \in Searched(mode), Stays(m)
        PROVE  CopyInv'
    <3>1. m \in Modes /\ (Within(mode, Combined) => Within(m, Combined))
      BY <1>1, <2>3, SearchedGood
    <3> QED BY <1>3, <2>3, <3>1 DEF TargetIsActive
  <2> QED BY <1>12, <2>1, <2>2, <2>3 DEF SearchConfirm
<1> QED BY <1>5, <1>6, <1>7, <1>8, <1>9, <1>10, <1>11, <1>12

\* The mouse, whose frame may be of any age.
LEMMA MouseStep ==
  ASSUME CopyInv, MousePress \/ MouseDrag \/ MouseRelease \/ MouseWheel
  PROVE  CopyInv'
<1>1. /\ CopyTyped /\ mode \in Modes /\ focused \in BOOLEAN /\ searching \in BOOLEAN
      /\ mouseSel \in {"none", "armed", "dragging"} /\ copying \in BOOLEAN
  BY DEF CopyInv, CopyTyped
<1>2. Entered \in Modes /\ Within(Entered, Combined)
  BY <1>1, EnteredWithin
<1>3. ASSUME UNCHANGED <<buffer, onAlternate, copying, mode, shrunk>>,
             focused' \in BOOLEAN, searching' \in BOOLEAN,
             mouseSel' \in {"none", "armed", "dragging"}
      PROVE  CopyInv'
  <2>1. CopyTyped' /\ Combined' = Combined
    BY <1>1, <1>3 DEF CopyTyped, Combined, buffer, history
  <2>2. Combined' >= Combined
    BY <1>1, <2>1, CombinedNat
  <2>3. UNCHANGED <<copying, mode>> /\ (shrunk => shrunk')
    BY <1>3
  <2> QED BY <2>1, <2>2, <2>3, CopyKept
<1>4. CASE MousePress
  <2>1. /\ UNCHANGED <<buffer, onAlternate, copying, mode, searching, shrunk>>
        /\ focused' \in BOOLEAN /\ mouseSel' \in {"none", "armed", "dragging"}
    BY <1>4 DEF MousePress
  <2> QED BY <1>1, <1>3, <2>1
<1>5. CASE MouseDrag
  <2>1. /\ UNCHANGED <<buffer, onAlternate, focused, searching>>
        /\ mouseSel' \in {"none", "armed", "dragging"}
    BY <1>1, <1>5 DEF MouseDrag, pane
  <2>2. PointToBuffer \subseteq Positions
    <3>1. PICK x \in Nat : x = MaxRow
      BY <1>1, CombinedRows
    <3>2. \A t \in 0 .. x, r \in 0 .. MaxLines - 1 : t + r \in Nat
      BY CopyAssumption
    <3>3. \A k \in 0 .. Width - 1 : k \in Nat
      BY CopyAssumption
    <3> QED BY <3>1, <3>2, <3>3 DEF PointToBuffer, Positions
  <2>3. CASE UNCHANGED <<copying, mode, shrunk>>
    BY <1>1, <1>3, <2>1, <2>3
  <2>4. ASSUME NEW origin \in Positions, NEW here \in Positions,
               Stays(SetCursor(StartSelection(SetCursor(IF copying THEN mode ELSE Entered, origin)), here))
        PROVE  CopyInv'
    <3>1. PICK m \in Modes : m = IF copying THEN mode ELSE Entered
      BY <1>1, <1>2
    <3>2. PICK k \in Modes : k = SetCursor(m, origin) /\ k.height = m.height
      BY <1>1, SetCursorGood
    <3>3. PICK j \in Modes : j = StartSelection(k) /\ j.height = k.height
      BY SelectionGood
    <3>4. PICK i \in Modes : /\ i = SetCursor(j, here)
                             /\ j.height <= Combined => Within(i, Combined)
      BY <1>1, SetCursorGood
    <3>5. ~ copying \/ Within(mode, Combined) => Within(i, Combined)
      BY <1>2, <3>1, <3>2, <3>3, <3>4 DEF Within
    <3>6. Stays(i)
      BY <2>4, <3>1, <3>2, <3>3, <3>4
    <3> QED BY <1>1, <2>1, <3>5, <3>6, StaysStep
  <2>5. ASSUME copying, NEW here \in Positions, Stays(SetCursor(mode, here))
        PROVE  CopyInv'
    <3>1. PICK m \in Modes : /\ m = SetCursor(mode, here)
                             /\ mode.height <= Combined => Within(m, Combined)
      BY <1>1, SetCursorGood
    <3>2. ~ copying \/ Within(mode, Combined) => Within(m, Combined)
      BY <2>5, <3>1 DEF Within
    <3> QED BY <1>1, <2>1, <2>5, <3>1, <3>2, StaysStep
  <2> QED BY <1>5, <2>2, <2>3, <2>4, <2>5 DEF MouseDrag
<1>6. CASE MouseRelease
  <2>1. /\ UNCHANGED <<buffer, onAlternate, focused>> /\ mouseSel' = "none"
    BY <1>6 DEF MouseRelease, pane
  <2>2. CASE UNCHANGED <<copying, mode, searching, shrunk>>
    BY <1>1, <1>3, <2>1, <2>2
  <2>3. CASE Leaves /\ searching' = (searching /\ TargetIsActive)
    <3>1. searching' \in BOOLEAN
      BY <1>1, <2>3
    <3> QED BY <1>1, <2>1, <2>3, <3>1, LeavesStep
  <2> QED BY <1>6, <2>2, <2>3 DEF MouseRelease
<1>7. CASE MouseWheel
  <2>1. UNCHANGED <<buffer, onAlternate, searching, mouseSel>> /\ focused' \in BOOLEAN
    BY <1>7 DEF MouseWheel
  <2>2. ASSUME NEW m \in Modes, NEW up \in BOOLEAN,
               m = IF copying THEN mode ELSE Entered,
               Stays(Step(Step(Step(m, up), up), up))
        PROVE  CopyInv'
    <3>1. PICK a \in Modes : a = Step(m, up) /\ (Within(m, Combined) => Within(a, Combined))
      BY <1>1, StepGood
    <3>2. PICK b \in Modes : b = Step(a, up) /\ (Within(a, Combined) => Within(b, Combined))
      BY <1>1, StepGood
    <3>3. PICK c \in Modes : c = Step(b, up) /\ (Within(b, Combined) => Within(c, Combined))
      BY <1>1, StepGood
    <3>4. Stays(c)
      BY <2>2, <3>1, <3>2, <3>3
    <3>5. ~ copying \/ Within(mode, Combined) => Within(c, Combined)
      BY <1>2, <2>2, <3>1, <3>2, <3>3
    <3> QED BY <1>1, <2>1, <3>4, <3>5, StaysStep
  <2>3. CASE copying
    BY <1>1, <1>7, <2>2, <2>3 DEF MouseWheel
  <2>4. CASE ~ copying
    <3>1. Stays(Step(Step(Step(Entered, TRUE), TRUE), TRUE))
      BY <1>7, <2>4 DEF MouseWheel
    <3> QED BY <1>2, <2>2, <2>4, <3>1
  <2> QED BY <2>3, <2>4
<1> QED BY <1>4, <1>5, <1>6, <1>7

THEOREM CopyInvariant == CopySpec => []CopyInv
<1>1. CopyInit => CopyInv
  <2> SUFFICES ASSUME CopyInit PROVE CopyInv
    OBVIOUS
  <2>1. NoMode \in Modes
    BY DEF NoMode, Modes, Positions, Pos
  <2>2. /\ historyCells \in Seq(Nat) /\ history \in Nat
        /\ lines \in Nat \ {0} /\ width \in Nat
    BY CopyAssumption DEF CopyInit, history
  <2> QED BY <2>1, <2>2 DEF CopyInit, CopyInv, CopyTyped
<1>2. CopyInv /\ [CopyNext]_copyVars => CopyInv'
  <2> SUFFICES ASSUME CopyInv, [CopyNext]_copyVars
               PROVE  CopyInv'
    OBVIOUS
  <2>1. CASE CopyNext
    BY <2>1, PaneStep, KeysStep, MouseStep DEF CopyNext
  <2>2. CASE UNCHANGED copyVars
    BY <2>2 DEF copyVars, pane, copy, CopyInv, CopyTyped, Combined, Within, buffer, history
  <2> QED BY <2>1, <2>2
<1> QED BY <1>1, <1>2, PTL DEF CopySpec

\* The cursor is on a row that the client sees, whatever moved it and whatever
\* the application printed meanwhile, as long as the buffer has lost no lines
\* and the pane has the height it had when copy mode was entered.
THEOREM CursorStaysInView == CopySpec => []CursorInView
<1>1. CopyInv => CursorInView
  <2> SUFFICES ASSUME CopyInv, copying, ~ shrunk, mode.height = lines
               PROVE  /\ mode.cursor.row <= MaxRow
                      /\ mode.cursor.row \in mode.top .. mode.top + lines - 1
    BY DEF CursorInView
  <2>1. CopyTyped /\ Within(mode, Combined)
    BY DEF CopyInv
  <2>2. PICK r, t, n, x \in Nat : /\ r = mode.cursor.row /\ t = mode.top
                                  /\ n = Combined /\ x = MaxRow /\ n = x + 1
    <3>1. mode.cursor.row \in Nat /\ mode.top \in Nat
      BY <2>1 DEF CopyTyped, Modes, Positions
    <3> QED BY <2>1, <3>1, CombinedRows
  <2>3. lines \in Nat
    BY <2>1 DEF CopyTyped
  <2> QED BY <2>1, <2>2, <2>3 DEF Within
<1> QED BY <1>1, CopyInvariant, PTL

\* The least and the greatest of two columns.
LEMMA LowerHigher ==
  ASSUME NEW a \in Nat, NEW b \in Nat
  PROVE  LowerOf(a, b) \in Nat /\ HigherOf(a, b) \in Nat
BY DEF LowerOf, HigherOf

\* Row by row, the columns of the highlight are those of the text: all of them
\* if the row is as long as the pane is wide, else those that both reach.
SameCells(span, text, k, w) ==
  /\ k = w => span = text
  /\ {c \in span : c < k} = {c \in text : c < w}

LEMMA SpanIsText ==
  ASSUME CopyTyped, NEW m \in Modes, NEW r \in Nat, NEW w \in Nat
  PROVE  SameCells(SelectionSpan(m, r, w), SelectedText(m, r), LengthOf(r), w)
<1>0. PICK k \in Nat : k = LengthOf(r)
  BY LengthNat
<1>1. CASE m.anchor = NoAnchor
  BY <1>1 DEF SelectionSpan, SelectedText, SameCells
<1>2. CASE m.anchor # NoAnchor
  <2>1. m.cursor \in Positions /\ m.anchor \in Positions
    BY <1>2 DEF Modes
  <2>2. PICK f, g \in Positions : f = First(m) /\ g = Final(m)
    BY <2>1 DEF First, Final
  <2>3. PICK fr, fc, gr, gc \in Nat : fr = f.row /\ fc = f.col /\ gr = g.row /\ gc = g.col
    BY DEF Positions
  <2>4. CASE r \notin fr .. gr
    BY <1>2, <2>2, <2>3, <2>4 DEF SelectionSpan, SelectedText, SameCells
  <2>5. CASE r \in fr .. gr /\ m.rectangle
    <3>1. Block(m) = LowerOf(fc, gc) .. HigherOf(fc, gc)
      <4>1. \/ f = m.cursor /\ g = m.anchor
            \/ f = m.anchor /\ g = m.cursor
        BY <2>2 DEF First, Final
      <4>2. m.cursor.col \in Nat /\ m.anchor.col \in Nat
        BY <2>1 DEF Positions
      <4>3. \A x, y \in Nat : LowerOf(x, y) = LowerOf(y, x) /\ HigherOf(x, y) = HigherOf(y, x)
        BY DEF LowerOf, HigherOf
      <4> QED BY <2>3, <4>1, <4>2, <4>3 DEF Block
    <3>2. SelectedText(m, r) = {c \in LowerOf(fc, gc) .. HigherOf(fc, gc) : c < k}
      BY <1>0, <1>2, <2>2, <2>3, <2>5, <3>1 DEF SelectedText
    <3>3. SelectionSpan(m, r, w) = LowerOf(fc, gc) .. LowerOf(HigherOf(fc, gc) + 1, w) - 1
      BY <1>2, <2>2, <2>3, <2>5 DEF SelectionSpan
    <3>4. PICK lo, hi \in Nat : lo = LowerOf(fc, gc) /\ hi = HigherOf(fc, gc)
      BY LowerHigher
    <3>5. SameCells(lo .. LowerOf(hi + 1, w) - 1, {c \in lo .. hi : c < k}, k, w)
      BY DEF LowerOf, SameCells
    <3> QED BY <1>0, <3>2, <3>3, <3>4, <3>5
  <2>6. CASE r \in fr .. gr /\ ~ m.rectangle
    <3>1. PICK from \in Nat : from = IF r = fr THEN fc ELSE 0
      OBVIOUS
    <3>2. PICK to \in Nat : to = IF r = gr THEN gc ELSE w
      OBVIOUS
    <3>3. SelectionSpan(m, r, w) = from .. LowerOf(to, w) - 1
      BY <1>2, <2>2, <2>3, <2>6, <3>1, <3>2 DEF SelectionSpan
    <3>4. SelectedText(m, r) = {c \in 0 .. k - 1 : (r = fr => c >= fc) /\ (r = gr => c < gc)}
      BY <1>0, <1>2, <2>2, <2>3, <2>6 DEF SelectedText
    <3>5. SameCells(from .. LowerOf(to, w) - 1,
                    {c \in 0 .. k - 1 : (r = fr => c >= fc) /\ (r = gr => c < gc)}, k, w)
      BY <3>1, <3>2 DEF LowerOf, SameCells
    <3> QED BY <1>0, <3>3, <3>4, <3>5
  <2> QED BY <2>4, <2>5, <2>6
<1> QED BY <1>1, <1>2

\* What is highlighted is what a yank copies, row by row and cell by cell, as far
\* as the row reaches and the pane shows it.
THEOREM HighlightAlwaysIsYank == CopySpec => []HighlightIsYank
<1>1. CopyInv => HighlightIsYank
  <2> SUFFICES ASSUME CopyInv, NEW r \in 0 .. MaxRow, NEW w \in 1 .. Width
               PROVE  SameCells(SelectionSpan(mode, r, w), SelectedText(mode, r), LengthOf(r), w)
    BY DEF HighlightIsYank, SameCells
  <2>1. mode \in Modes /\ CopyTyped
    BY DEF CopyInv, CopyTyped
  <2>2. r \in Nat /\ w \in Nat
    BY <2>1, CombinedRows, CopyAssumption
  <2> QED BY <2>1, <2>2, SpanIsText
<1> QED BY <1>1, CopyInvariant, PTL

-----------------------------------------------------------------------------
(* The grid                                                                *)

Cells == Marks \cup {Blank}
Text == Seq(Cells)

\* A screen that is put aside.
Aside == [rows : Text, cursor_y : Nat \ {0}, saved_cursor : Nat]

AsideFits(s, h) == s = << >> \/ \E p \in Aside : s = <<p>> /\ Len(p.rows) = h

\* The inductive invariant.
GridInv ==
  /\ height \in Nat \ {0}
  /\ rows \in Text /\ Len(rows) = height
  /\ scrollback \in Text /\ Len(scrollback) <= Capacity
  /\ cursor_y \in 1 .. height /\ saved_cursor \in Nat
  /\ scroll_top \in 1 .. height /\ scroll_bottom \in scroll_top .. height
  /\ AsideFits(primary, height)

LEMMA Lowest ==
  ASSUME NEW a \in Nat, NEW b \in Nat
  PROVE  /\ Lower(a, b) \in Nat /\ Lower(a, b) <= a /\ Lower(a, b) <= b
         /\ Lower(a, b) = a \/ Lower(a, b) = b
         /\ Minus(a, b) \in Nat /\ Minus(a, b) <= a
         /\ a >= b => Minus(a, b) = a - b
         /\ a <= b => Minus(a, b) = 0
BY DEF Lower, Minus

\* The pieces that screens are put together from.
LEMMA Piece ==
  ASSUME NEW s \in Text, NEW m \in Nat, NEW n \in Nat, 1 <= m, m <= n + 1, n <= Len(s)
  PROVE  /\ SubSeq(s, m, n) \in Text
         /\ Len(SubSeq(s, m, n)) = n + 1 - m
         /\ \A i \in 1 .. n + 1 - m : SubSeq(s, m, n)[i] = s[m + i - 1]
<1>1. Len(s) \in Nat /\ \A i \in 1 .. Len(s) : s[i] \in Cells
  BY LenProperties, ElementOfSeq DEF Text
<1>2. \A i \in m .. n : s[i] \in Cells
  BY <1>1
<1>3. /\ SubSeq(s, m, n) \in Seq(Cells)
      /\ Len(SubSeq(s, m, n)) = IF m <= n THEN n - m + 1 ELSE 0
      /\ \A i \in 1 .. n - m + 1 : SubSeq(s, m, n)[i] = s[m + i - 1]
  BY <1>2, SubSeqProperties
<1> QED BY <1>3 DEF Text

LEMMA BlankRows ==
  ASSUME NEW n \in Nat
  PROVE  Blanks(n) \in Text /\ Len(Blanks(n)) = n
<1>1. Blanks(n) \in [1 .. n -> Cells]
  BY DEF Blanks, Cells
<1>2. Blanks(n) \in Text
  BY <1>1, SeqDef DEF Text
<1>3. Len(Blanks(n)) = n
  BY DEF Blanks
<1> QED BY <1>2, <1>3

\* z is s and t, one after the other.
Joins(s, t, z) == z = s \o t

LEMMA Joined ==
  ASSUME NEW s \in Text, NEW t \in Text, NEW z, Joins(s, t, z)
  PROVE  /\ z \in Text /\ Len(z) = Len(s) + Len(t)
         /\ Len(s) \in Nat /\ Len(t) \in Nat
         /\ \A i \in 1 .. Len(s) : z[i] = s[i]
         /\ \A i \in 1 .. Len(t) : z[Len(s) + i] = t[i]
<1>1. Len(s) \in Nat /\ Len(t) \in Nat
  BY LenProperties DEF Text
<1>2. /\ s \o t \in Seq(Cells) /\ Len(s \o t) = Len(s) + Len(t)
      /\ \A i \in 1 .. Len(s) + Len(t) :
           (s \o t)[i] = IF i <= Len(s) THEN s[i] ELSE t[i - Len(s)]
  BY ConcatProperties DEF Text
<1>3. /\ z \in Text /\ Len(z) = Len(s) + Len(t)
      /\ \A i \in 1 .. Len(s) + Len(t) : z[i] = IF i <= Len(s) THEN s[i] ELSE t[i - Len(s)]
  BY <1>2 DEF Text, Joins
<1> QED BY <1>1, <1>3

\* The history keeps to its capacity.
LEMMA PushedFits ==
  ASSUME GridInv, NEW more \in Text
  PROVE  /\ Pushed(more) \in Text /\ Len(Pushed(more)) <= Capacity
         /\ more = << >> => Pushed(more) = scrollback
<1>1. PICK all : all = scrollback \o more
  OBVIOUS
<1> all \in Text
  <2>1. scrollback \in Text /\ Joins(scrollback, more, all)
    BY <1>1 DEF GridInv, Joins
  <2> QED BY <2>1, Joined
<1>2. PICK n \in Nat : n = Len(all)
  BY LenProperties DEF Text
<1>3. PICK d \in Nat : /\ d = Minus(n, Capacity) /\ d <= n
                       /\ n - d <= Capacity /\ (n <= Capacity => d = 0)
  <2>1. Capacity \in Nat
    BY GridAssumption
  <2>2. CASE n > Capacity
    <3>1. n - Capacity \in Nat
      BY <1>2, <2>1, <2>2
    <3> QED BY <1>2, <2>1, <2>2, <3>1 DEF Minus
  <2>3. CASE n <= Capacity
    BY <1>2, <2>1, <2>3 DEF Minus
  <2> QED BY <1>2, <2>1, <2>2, <2>3
<1>4. Pushed(more) = SubSeq(all, d + 1, n)
  BY <1>1, <1>2, <1>3 DEF Pushed, From
<1>5. SubSeq(all, d + 1, n) \in Text /\ Len(SubSeq(all, d + 1, n)) = n - d
  BY <1>2, <1>3, Piece
<1>6. ASSUME more = << >> PROVE Pushed(more) = scrollback
  <2>1. all = scrollback
    BY <1>1, <1>6, ConcatEmptySeq DEF GridInv, Text
  <2>2. n <= Capacity /\ d = 0
    BY <1>2, <1>3, <2>1 DEF GridInv
  <2>3. SubSeq(all, 1, n) = all
    BY <1>2, SubSeqFull DEF Text
  <2> QED BY <1>4, <2>1, <2>2, <2>3
<1>7. Pushed(more) \in Text /\ Len(Pushed(more)) = n - d
  BY <1>4, <1>5
<1> QED BY <1>3, <1>6, <1>7, GridAssumption

\* The first n rows of a text, and those after them.
LEMMA TopRows ==
  ASSUME NEW s \in Text, NEW n \in Nat, n <= Len(s)
  PROVE  /\ SubSeq(s, 1, n) \in Text /\ Len(SubSeq(s, 1, n)) = n
         /\ \A i \in 1 .. n : SubSeq(s, 1, n)[i] = s[i]
<1>1. 1 \in Nat /\ 1 <= 1 /\ 1 <= n + 1 /\ n + 1 - 1 = n
  OBVIOUS
<1>2. /\ SubSeq(s, 1, n) \in Text
      /\ Len(SubSeq(s, 1, n)) = n + 1 - 1
      /\ \A i \in 1 .. n + 1 - 1 : SubSeq(s, 1, n)[i] = s[1 + i - 1]
  BY <1>1, Piece
<1>3. \A i \in 1 .. n : 1 + i - 1 = i
  OBVIOUS
<1> QED BY <1>1, <1>2, <1>3

LEMMA RowsBelow ==
  ASSUME NEW s \in Text, NEW n \in Nat, n <= Len(s)
  PROVE  /\ From(s, n + 1) \in Text /\ Len(From(s, n + 1)) = Len(s) - n
         /\ \A i \in 1 .. Len(s) - n : From(s, n + 1)[i] = s[n + i]
<1> DEFINE l == Len(s)
<1>1. l \in Nat
  BY LenProperties DEF Text
<1>2. n + 1 \in Nat /\ 1 <= n + 1 /\ n + 1 <= l + 1 /\ l <= l /\ l + 1 - (n + 1) = l - n
  BY <1>1
<1>3. /\ SubSeq(s, n + 1, l) \in Text
      /\ Len(SubSeq(s, n + 1, l)) = l + 1 - (n + 1)
      /\ \A i \in 1 .. l + 1 - (n + 1) : SubSeq(s, n + 1, l)[i] = s[n + 1 + i - 1]
  BY <1>1, <1>2, Piece
<1>4. \A i \in 1 .. l - n : n + 1 + i - 1 = n + i
  BY <1>1
<1> QED BY <1>2, <1>3, <1>4 DEF From

LEMMA FourJoined ==
  ASSUME NEW a \in Text, NEW b \in Text, NEW c \in Text, NEW d \in Text,
         NEW x, Joins(a, b, x), NEW y, Joins(x, c, y), NEW z, Joins(y, d, z)
  PROVE  /\ z \in Text
         /\ Len(z) = Len(a) + Len(b) + Len(c) + Len(d)
         /\ \A i \in 1 .. Len(b) : z[Len(a) + i] = b[i]
<1>1. Len(a) \in Nat /\ Len(b) \in Nat /\ Len(c) \in Nat /\ Len(d) \in Nat
  BY LenProperties DEF Text
<1>2. x \in Text /\ Len(x) = Len(a) + Len(b) /\ \A i \in 1 .. Len(b) : x[Len(a) + i] = b[i]
  BY Joined
<1>3. y \in Text /\ Len(y) = Len(x) + Len(c) /\ \A i \in 1 .. Len(x) : y[i] = x[i]
  <2>1. x \in Text
    BY <1>2
  <2> QED BY <2>1, Joined
<1>4. z \in Text /\ Len(z) = Len(y) + Len(d) /\ \A i \in 1 .. Len(y) : z[i] = y[i]
  <2>1. y \in Text
    BY <1>3
  <2> QED BY <2>1, Joined
<1>5. ASSUME NEW i \in 1 .. Len(b) PROVE z[Len(a) + i] = b[i]
  <2>1. Len(a) + i \in 1 .. Len(x) /\ Len(a) + i \in 1 .. Len(y)
    BY <1>1, <1>2, <1>3
  <2> QED BY <1>2, <1>3, <1>4, <2>1
<1>6. z \in Text /\ Len(z) = Len(a) + Len(b) + Len(c) + Len(d)
  BY <1>2, <1>3, <1>4
<1> QED BY <1>5, <1>6

\* The screen after the lines of the region move up or down.
LEMMA Region ==
  ASSUME GridInv
  PROVE  /\ scroll_top \in Nat /\ scroll_bottom \in Nat /\ height \in Nat
         /\ 1 <= scroll_top /\ scroll_top <= scroll_bottom /\ scroll_bottom <= height
         /\ rows \in Text /\ Len(rows) = height
         /\ scroll_top - 1 \in Nat /\ scroll_top - 1 <= Len(rows)
BY DEF GridInv

LEMMA UpwardFits ==
  ASSUME GridInv, NEW n \in Nat, n <= scroll_bottom + 1 - scroll_top
  PROVE  /\ Upward(n) \in Text /\ Len(Upward(n)) = height
         /\ FullRegion => \A i \in 1 .. height - n : Upward(n)[i] = rows[n + i]
<1> DEFINE t == scroll_top
           u == scroll_bottom
           h == height
           a == SubSeq(rows, 1, t - 1)
           b == SubSeq(rows, t + n, u)
           c == Blanks(n)
           d == From(rows, u + 1)
           z == Upward(n)
<1>1. /\ t \in Nat /\ u \in Nat /\ h \in Nat
      /\ 1 <= t /\ t <= u /\ u <= h /\ rows \in Text /\ Len(rows) = h
      /\ t - 1 \in Nat /\ t - 1 <= Len(rows) /\ n <= u + 1 - t
  BY Region
<1>2. z = a \o b \o c \o d /\ (FullRegion => t = 1 /\ u = h)
  BY DEF Upward, FullRegion
<1> HIDE DEF t, u, h
<1>3. a \in Text /\ Len(a) = t - 1
  BY <1>1, TopRows
<1>4. /\ b \in Text /\ Len(b) = u + 1 - (t + n)
      /\ \A i \in 1 .. u + 1 - (t + n) : b[i] = rows[t + n + i - 1]
  <2>1. t + n \in Nat /\ 1 <= t + n /\ t + n <= u + 1 /\ u <= Len(rows)
    BY <1>1
  <2> HIDE DEF a, c, d
  <2> QED BY <1>1, <2>1, Piece
<1>5. c \in Text /\ Len(c) = n
  BY BlankRows
<1>6. d \in Text /\ Len(d) = h - u
  BY <1>1, RowsBelow
<1> HIDE DEF a, b, c, d, z
<1>x. PICK x : Joins(a, b, x)
  BY DEF Joins
<1>y. PICK y : Joins(x, c, y)
  BY DEF Joins
<1>z. Joins(y, d, z)
  BY <1>2, <1>x, <1>y DEF Joins
<1>7. /\ z \in Text
      /\ Len(z) = Len(a) + Len(b) + Len(c) + Len(d)
      /\ \A i \in 1 .. Len(b) : z[Len(a) + i] = b[i]
  BY <1>3, <1>4, <1>5, <1>6, <1>x, <1>y, <1>z, FourJoined
<1>8. Len(z) = h
  BY <1>1, <1>3, <1>4, <1>5, <1>6, <1>7
<1>9. ASSUME FullRegion, NEW i \in 1 .. h - n
      PROVE  z[i] = rows[n + i]
  <2>1. t = 1 /\ u = h
    BY <1>2, <1>9
  <2>2. i \in 1 .. Len(b) /\ Len(a) + i = i /\ t + n + i - 1 = n + i
    BY <1>1, <1>3, <1>4, <2>1
  <2>3. b[i] = rows[n + i]
    BY <1>4, <2>2
  <2> QED BY <1>7, <2>2, <2>3
<1> QED BY <1>7, <1>8, <1>9 DEF h, z

LEMMA DownwardFits ==
  ASSUME GridInv, NEW n \in Nat, n <= scroll_bottom + 1 - scroll_top
  PROVE  Downward(n) \in Text /\ Len(Downward(n)) = height
<1> DEFINE t == scroll_top
           u == scroll_bottom
           h == height
           a == SubSeq(rows, 1, t - 1)
           b == Blanks(n)
           c == SubSeq(rows, t, u - n)
           d == From(rows, u + 1)
           z == Downward(n)
<1>1. /\ t \in Nat /\ u \in Nat /\ h \in Nat
      /\ 1 <= t /\ t <= u /\ u <= h /\ rows \in Text /\ Len(rows) = h
      /\ t - 1 \in Nat /\ t - 1 <= Len(rows) /\ n <= u + 1 - t
  BY Region
<1>2. z = a \o b \o c \o d
  BY DEF Downward
<1> HIDE DEF t, u, h
<1>3. a \in Text /\ Len(a) = t - 1
  BY <1>1, TopRows
<1>4. b \in Text /\ Len(b) = n
  BY BlankRows
<1>5. c \in Text /\ Len(c) = u - n + 1 - t
  <2>1. u - n \in Nat /\ 1 <= t /\ t <= u - n + 1 /\ u - n <= Len(rows)
    BY <1>1
  <2> HIDE DEF a, b, d
  <2> QED BY <1>1, <2>1, Piece
<1>6. d \in Text /\ Len(d) = h - u
  BY <1>1, RowsBelow
<1> HIDE DEF a, b, c, d, z
<1>x. PICK x : Joins(a, b, x)
  BY DEF Joins
<1>y. PICK y : Joins(x, c, y)
  BY DEF Joins
<1>z. Joins(y, d, z)
  BY <1>2, <1>x, <1>y DEF Joins
<1>7. z \in Text /\ Len(z) = Len(a) + Len(b) + Len(c) + Len(d)
  BY <1>3, <1>4, <1>5, <1>6, <1>x, <1>y, <1>z, FourJoined
<1>8. Len(z) = h
  BY <1>1, <1>3, <1>4, <1>5, <1>6, <1>7
<1> QED BY <1>7, <1>8 DEF h, z

\* Rows from k + 1 on that are found again at the top of another screen.
LEMMA Continues ==
  ASSUME NEW s \in Text, NEW t \in Text, NEW k \in Nat, k <= Len(s),
         Len(s) - k <= Len(t), \A i \in 1 .. Len(s) - k : t[i] = s[k + i]
  PROVE  IsPrefix(From(s, k + 1), t)
<1> DEFINE x == From(s, k + 1)
           n == Len(s) - k
           y == SubSeq(t, 1, n)
<1>1. n \in Nat /\ Len(t) \in Nat /\ n <= Len(t)
  BY LenProperties DEF Text
<1>2. x \in Text /\ Len(x) = n /\ \A i \in 1 .. n : x[i] = s[k + i]
  BY RowsBelow
<1>3. \A i \in 1 .. n : t[i] = s[k + i]
  OBVIOUS
<1> HIDE DEF x, n
<1>4. y \in Text /\ Len(y) = n /\ \A i \in 1 .. n : y[i] = t[i]
  BY <1>1, TopRows
<1> HIDE DEF y
<1>5. x = y
  BY <1>1, <1>2, <1>3, <1>4, SeqEqual DEF Text
<1>6. SubSeq(x, 1, Len(x)) = x
  BY <1>2, SubSeqFull DEF Text
<1>7. SubSeq(t, 1, Len(x)) = y
  BY <1>2 DEF y
<1>8. IsPrefix(x, t)
  BY <1>1, <1>2, <1>5, <1>6, <1>7 DEF IsPrefix
<1> QED BY <1>8 DEF x

LEMMA RegionLines ==
  ASSUME GridInv, NEW n \in Nat
  PROVE  /\ InRegion(n) \in Nat /\ InRegion(n) <= scroll_bottom + 1 - scroll_top
         /\ InRegion(n) <= height
<1>1. PICK d \in Nat : d = scroll_bottom + 1 - scroll_top /\ d <= height
  BY Region
<1>2. InRegion(n) \in Nat /\ InRegion(n) <= d
  BY <1>1, Lowest DEF InRegion
<1> QED BY <1>1, <1>2, Region

LEMMA ScrolledOffFits ==
  ASSUME GridInv, NEW n \in Nat, n <= height
  PROVE  ScrolledOff(n) \in Text /\ Len(ScrolledOff(n)) <= Capacity
<1>1. SubSeq(rows, 1, n) \in Text
  BY Region, TopRows
<1>2. scrollback \in Text /\ Len(scrollback) <= Capacity
  BY DEF GridInv
<1> QED BY <1>1, <1>2, PushedFits DEF ScrolledOff

\* What a line feed leaves.
LEMMA Fed ==
  ASSUME GridInv
  PROVE  /\ NextRow \in 1 .. height
         /\ FedRows \in Text /\ Len(FedRows) = height
         /\ FedHistory \in Text /\ Len(FedHistory) <= Capacity
<1>1. NextRow \in 1 .. height
  <2>1. cursor_y \in 1 .. height /\ height \in Nat
    BY DEF GridInv
  <2> QED BY <2>1 DEF NextRow, Lower
<1>2. 1 \in Nat /\ 1 <= scroll_bottom + 1 - scroll_top /\ 1 <= height
  BY Region
<1>3. Upward(1) \in Text /\ Len(Upward(1)) = height
  BY <1>2, UpwardFits
<1>4. ScrolledOff(1) \in Text /\ Len(ScrolledOff(1)) <= Capacity
  BY <1>2, ScrolledOffFits
<1>5. /\ rows \in Text /\ Len(rows) = height
      /\ scrollback \in Text /\ Len(scrollback) <= Capacity
  BY DEF GridInv
<1> QED BY <1>1, <1>3, <1>4, <1>5 DEF FedRows, FedHistory

LEMMA Written ==
  ASSUME NEW s \in Text, NEW y \in 1 .. Len(s), NEW mark \in Cells
  PROVE  [s EXCEPT ![y] = mark] \in Text /\ Len([s EXCEPT ![y] = mark]) = Len(s)
BY ExceptSeq DEF Text

LEMMA RefittedFits ==
  ASSUME NEW s \in Text, NEW k \in Nat
  PROVE  Refitted(s, k) \in Text /\ Len(Refitted(s, k)) = k
<1>1. PICK n \in Nat : n = Len(s)
  BY LenProperties DEF Text
<1>2. CASE k < n
  <2>1. n - k \in Nat /\ n - k <= Len(s) /\ n - (n - k) = k
    BY <1>1, <1>2
  <2>2. /\ From(s, n - k + 1) \in Text
        /\ Len(From(s, n - k + 1)) = n - (n - k)
    BY <1>1, <2>1, RowsBelow
  <2> QED BY <1>1, <1>2, <2>1, <2>2 DEF Refitted
<1>3. CASE ~ k < n
  <2>1. PICK d \in Nat : d = k - n
    BY <1>1, <1>3
  <2>2. PICK b : b = Blanks(d)
    OBVIOUS
  <2>3. b \in Text /\ Len(b) = d
    BY <2>2, BlankRows
  <2>4. Joins(s, b, Refitted(s, k))
    BY <1>1, <1>3, <2>1, <2>2 DEF Joins, Refitted
  <2>5. PICK z : z = Refitted(s, k)
    OBVIOUS
  <2>6. z \in Text /\ Len(z) = Len(s) + Len(b)
    BY <2>3, <2>4, <2>5, Joined
  <2> QED BY <1>1, <1>3, <2>1, <2>3, <2>5, <2>6
<1> QED BY <1>2, <1>3

\* The row of a cursor after a resize.
LEMMA CursorRefits ==
  ASSUME NEW y \in Nat, NEW d \in Nat, NEW k \in Nat \ {0}
  PROVE  Lower(Row(Minus(y, d)), k) \in 1 .. k
<1>1. Minus(y, d) \in Nat
  BY Lowest
<1>2. Row(Minus(y, d)) \in Nat \ {0}
  BY <1>1 DEF Row
<1> QED BY <1>2 DEF Lower

LEMMA GridStart == GridInit => GridInv
<1> SUFFICES ASSUME GridInit PROVE GridInv
  OBVIOUS
<1>1. height \in Nat \ {0} /\ height \in Nat
  BY GridAssumption DEF GridInit, ScreenRows
<1>2. rows \in Text /\ Len(rows) = height
  BY <1>1, BlankRows DEF GridInit
<1>3. scrollback \in Text /\ Len(scrollback) <= Capacity
  BY GridAssumption DEF GridInit, Text
<1> QED BY <1>1, <1>2, <1>3 DEF GridInit, GridInv, AsideFits

\* Steps that leave the height and what is put aside alone.
LEMMA SameScreen ==
  ASSUME GridInv, UNCHANGED <<height, primary>>,
         rows' \in Text, Len(rows') = height,
         scrollback' \in Text, Len(scrollback') <= Capacity,
         cursor_y' \in 1 .. height, saved_cursor' \in Nat,
         scroll_top' \in 1 .. height, scroll_bottom' \in scroll_top' .. height
  PROVE  GridInv'
BY DEF GridInv

LEMMA Writing ==
  ASSUME GridInv, NEW mark \in Cells, LineFeed \/ PrintChar(mark)
  PROVE  GridInv'
<1>1. UNCHANGED <<height, primary, saved_cursor, scroll_top, scroll_bottom>>
  BY DEF LineFeed, PrintChar
<1>2. cursor_y \in 1 .. height /\ rows \in Text /\ Len(rows) = height
  BY DEF GridInv
<1>3. /\ rows' \in Text /\ Len(rows') = height /\ cursor_y' \in 1 .. height
      /\ scrollback' \in Text /\ Len(scrollback') <= Capacity
  <2>1. CASE LineFeed
    BY <2>1, Fed DEF LineFeed
  <2>2. CASE rows' = [rows EXCEPT ![cursor_y] = mark] /\ UNCHANGED <<cursor_y, scrollback>>
    <3>1. [rows EXCEPT ![cursor_y] = mark] \in Text /\ Len([rows EXCEPT ![cursor_y] = mark]) = height
      BY <1>2, Written
    <3> QED BY <1>2, <2>2, <3>1 DEF GridInv
  <2>3. CASE /\ cursor_y' = NextRow /\ scrollback' = FedHistory
             /\ rows' = [FedRows EXCEPT ![NextRow] = mark]
    <3> DEFINE f == FedRows
               n == NextRow
    <3>1. f \in Text /\ Len(f) = height /\ n \in 1 .. Len(f)
      BY Fed
    <3> HIDE DEF f, n
    <3>2. [f EXCEPT ![n] = mark] \in Text /\ Len([f EXCEPT ![n] = mark]) = height
      BY <1>2, <3>1, Written
    <3>3. rows' = [f EXCEPT ![n] = mark]
      BY <2>3 DEF f, n
    <3> QED BY <2>3, <3>2, <3>3, Fed
  <2> QED BY <2>1, <2>2, <2>3 DEF PrintChar
<1>4. saved_cursor \in Nat /\ scroll_top \in 1 .. height /\ scroll_bottom \in scroll_top .. height
  BY DEF GridInv
<1> QED BY <1>1, <1>3, <1>4, SameScreen

LEMMA Moving ==
  ASSUME GridInv, NEW k \in Nat \ {0}, NEW b \in Nat \ {0},
         MoveCursor(k) \/ SaveCursor \/ RestoreCursor \/ SetRegion(k, b)
  PROVE  GridInv'
<1>1. /\ height \in Nat \ {0} /\ cursor_y \in 1 .. height /\ saved_cursor \in Nat
      /\ scroll_top \in 1 .. height /\ scroll_bottom \in scroll_top .. height
  BY DEF GridInv
<1>2. UNCHANGED <<height, rows, scrollback, primary>>
  BY DEF MoveCursor, SaveCursor, RestoreCursor, SetRegion
<1>3. \A y \in Nat \ {0} : Lower(y, height) \in 1 .. height
  BY <1>1 DEF Lower
<1>4. /\ cursor_y' \in 1 .. height /\ saved_cursor' \in Nat
      /\ scroll_top' \in 1 .. height /\ scroll_bottom' \in scroll_top' .. height
  <2>1. CASE MoveCursor(k)
    BY <1>1, <1>3, <2>1 DEF MoveCursor
  <2>2. CASE SaveCursor
    BY <1>1, <2>2 DEF SaveCursor
  <2>3. CASE RestoreCursor
    BY <1>1, <1>3, <2>3 DEF RestoreCursor
  <2>4. CASE SetRegion(k, b)
    <3>1. PICK l, m \in 1 .. height : l = Lower(k, height) /\ m = Lower(b, height)
      BY <1>3
    <3> QED BY <1>1, <2>4, <3>1 DEF SetRegion
  <2> QED BY <2>1, <2>2, <2>3, <2>4
<1> QED BY <1>2, <1>4 DEF GridInv

LEMMA Scrolling ==
  ASSUME GridInv, NEW n \in Nat, ScrollUp(n) \/ ScrollDown(n)
  PROVE  GridInv'
<1> DEFINE k == InRegion(n)
<1>1. k \in Nat /\ k <= scroll_bottom + 1 - scroll_top /\ k <= height
  BY RegionLines
<1>2. CASE ScrollUp(n)
  <2>1. rows' = Upward(k) /\ scrollback' = ScrolledOff(k)
    BY <1>2 DEF ScrollUp
  <2> HIDE DEF k
  <2>2. rows' \in Text /\ Len(rows') = height
    BY <1>1, <2>1, UpwardFits
  <2>3. scrollback' \in Text /\ Len(scrollback') <= Capacity
    BY <1>1, <2>1, ScrolledOffFits
  <2> QED BY <1>2, <2>2, <2>3 DEF ScrollUp, GridInv
<1>3. CASE ScrollDown(n)
  <2>1. rows' = Downward(k)
    BY <1>3 DEF ScrollDown
  <2> HIDE DEF k
  <2>2. rows' \in Text /\ Len(rows') = height
    BY <1>1, <2>1, DownwardFits
  <2> QED BY <1>3, <2>2 DEF ScrollDown, GridInv
<1> QED BY <1>2, <1>3

LEMMA ThreeJoined ==
  ASSUME NEW a \in Text, NEW b \in Text, NEW c \in Text,
         NEW x, Joins(a, b, x), NEW z, Joins(x, c, z)
  PROVE  z \in Text /\ Len(z) = Len(a) + Len(b) + Len(c)
<1>1. x \in Text /\ Len(x) = Len(a) + Len(b)
  BY Joined
<1>2. z \in Text /\ Len(z) = Len(x) + Len(c)
  <2>1. x \in Text
    BY <1>1
  <2> QED BY <2>1, Joined
<1> QED BY <1>1, <1>2

LEMMA EditingLines ==
  ASSUME GridInv, NEW n \in Nat, InsertLines(n) \/ DeleteLines(n)
  PROVE  GridInv'
<1> DEFINE h == height
           y == cursor_y
           k == Lower(n, h + 1 - y)
           a == SubSeq(rows, 1, y - 1)
           b == Blanks(k)
           c == SubSeq(rows, y, h - k)
           d == From(rows, y + k)
<1>1. /\ h \in Nat /\ y \in Nat /\ 1 <= y /\ y <= h /\ rows \in Text /\ Len(rows) = h
      /\ y - 1 \in Nat /\ y - 1 <= Len(rows)
  BY DEF GridInv
<1>2. k \in Nat /\ k <= h + 1 - y
  <2>1. h + 1 - y \in Nat
    BY <1>1
  <2> HIDE DEF h, y
  <2> QED BY <2>1, Lowest
<1>3. /\ InsertLines(n) => rows' = a \o b \o c
      /\ DeleteLines(n) => rows' = a \o d \o b
  BY DEF InsertLines, DeleteLines
<1>4. UNCHANGED <<height, scrollback, cursor_y, saved_cursor, scroll_top, scroll_bottom, primary>>
  BY DEF InsertLines, DeleteLines
<1> HIDE DEF h, y, k
<1>5. a \in Text /\ Len(a) = y - 1
  BY <1>1, TopRows
<1>6. b \in Text /\ Len(b) = k
  BY <1>2, BlankRows
<1>7. c \in Text /\ Len(c) = h - k + 1 - y
  <2>1. h - k \in Nat /\ y <= h - k + 1 /\ h - k <= Len(rows)
    BY <1>1, <1>2
  <2> HIDE DEF a, b, d
  <2> QED BY <1>1, <2>1, Piece
<1>8. d \in Text /\ Len(d) = h - (y + k - 1)
  <2>1. y + k - 1 \in Nat /\ y + k - 1 <= Len(rows) /\ y + k - 1 + 1 = y + k
    BY <1>1, <1>2
  <2>2. /\ From(rows, y + k - 1 + 1) \in Text
        /\ Len(From(rows, y + k - 1 + 1)) = Len(rows) - (y + k - 1)
    BY <1>1, <2>1, RowsBelow
  <2> QED BY <1>1, <2>1, <2>2
<1> HIDE DEF a, b, c, d
<1>9. rows' \in Text /\ Len(rows') = h
  <2>1. CASE InsertLines(n)
    <3>1. PICK x : Joins(a, b, x)
      BY DEF Joins
    <3>2. Joins(x, c, rows')
      BY <1>3, <2>1, <3>1 DEF Joins
    <3>3. rows' \in Text /\ Len(rows') = Len(a) + Len(b) + Len(c)
      BY <1>5, <1>6, <1>7, <3>1, <3>2, ThreeJoined
    <3> QED BY <1>1, <1>2, <1>5, <1>6, <1>7, <3>3
  <2>2. CASE DeleteLines(n)
    <3>1. PICK x : Joins(a, d, x)
      BY DEF Joins
    <3>2. Joins(x, b, rows')
      BY <1>3, <2>2, <3>1 DEF Joins
    <3>3. rows' \in Text /\ Len(rows') = Len(a) + Len(d) + Len(b)
      BY <1>5, <1>6, <1>8, <3>1, <3>2, ThreeJoined
    <3> QED BY <1>1, <1>2, <1>5, <1>6, <1>8, <3>3
  <2> QED BY <2>1, <2>2
<1> QED BY <1>4, <1>9 DEF h, GridInv

LEMMA Erasing ==
  ASSUME GridInv, EraseInDisplay \/ EraseScrollback
  PROVE  GridInv'
<1>1. height \in Nat /\ rows \in Text /\ Len(rows) = height /\ cursor_y \in 1 .. height
  BY DEF GridInv
<1>2. CASE EraseInDisplay
  <2>1. rows' \in [1 .. height -> Cells]
    <3>1. \A i \in 1 .. height : rows[i] \in Cells
      BY <1>1, ElementOfSeq DEF Text
    <3>2. Blanks(height) \in [1 .. height -> Cells] /\ Blank \in Cells
      BY DEF Blanks, Cells
    <3> QED BY <1>1, <1>2, <3>1, <3>2 DEF EraseInDisplay
  <2>2. rows' \in Text
    BY <1>1, <2>1, SeqDef DEF Text
  <2>3. Len(rows') = height
    BY <1>1, <2>1, <2>2, LenProperties DEF Text
  <2> QED BY <1>2, <2>2, <2>3 DEF EraseInDisplay, GridInv
<1>3. CASE EraseScrollback
  <2>1. << >> \in Text /\ Len(<< >>) <= Capacity
    BY GridAssumption DEF Text
  <2> QED BY <1>3, <2>1 DEF EraseScrollback, GridInv
<1> QED BY <1>2, <1>3

LEMMA Switching ==
  ASSUME GridInv, EnterAltScreen \/ LeaveAltScreen
  PROVE  GridInv'
<1>1. /\ height \in Nat \ {0} /\ height \in Nat /\ rows \in Text /\ Len(rows) = height
      /\ cursor_y \in 1 .. height /\ saved_cursor \in Nat
  BY DEF GridInv
<1>2. UNCHANGED <<height, scrollback>> /\ scroll_top' = 1 /\ scroll_bottom' = height
  BY DEF EnterAltScreen, LeaveAltScreen
<1>3. /\ rows' \in Text /\ Len(rows') = height
      /\ cursor_y' \in 1 .. height /\ saved_cursor' \in Nat
      /\ AsideFits(primary', height)
  <2>1. CASE EnterAltScreen
    <3> DEFINE p == [rows |-> rows, cursor_y |-> cursor_y, saved_cursor |-> saved_cursor]
    <3>1. cursor_y \in Nat \ {0}
      BY <1>1
    <3>2. p \in Aside /\ p.rows = rows
      BY <1>1, <3>1 DEF Aside
    <3>3. primary' = <<p>>
      BY <2>1 DEF EnterAltScreen
    <3> HIDE DEF p
    <3>4. AsideFits(primary', height)
      BY <1>1, <3>2, <3>3 DEF AsideFits
    <3> QED BY <1>1, <2>1, <3>4, BlankRows DEF EnterAltScreen
  <2>2. CASE LeaveAltScreen
    <3>1. PICK p \in Aside : primary = <<p>> /\ Len(p.rows) = height
      BY <2>2 DEF LeaveAltScreen, OnAlternate, GridInv, AsideFits
    <3>2. Head(primary) = p
      BY <3>1
    <3>3. Lower(p.cursor_y, height) \in 1 .. height
      BY <1>1 DEF Aside, Lower
    <3> QED BY <2>2, <3>1, <3>2, <3>3 DEF LeaveAltScreen, AsideFits, Aside
  <2> QED BY <2>1, <2>2
<1> QED BY <1>1, <1>2, <1>3 DEF GridInv

LEMMA Resizing ==
  ASSUME GridInv, NEW k \in Nat \ {0}, Resize(k)
  PROVE  GridInv'
<1>1. /\ height \in Nat \ {0} /\ height \in Nat /\ rows \in Text /\ Len(rows) = height
      /\ scrollback \in Text /\ Len(scrollback) <= Capacity
      /\ cursor_y \in Nat /\ saved_cursor \in Nat
  BY DEF GridInv
<1>2. /\ height' = k /\ scroll_top' = 1 /\ scroll_bottom' = k /\ UNCHANGED saved_cursor
      /\ rows' = Refitted(rows, k)
      /\ cursor_y' = Lower(Row(Minus(cursor_y, Minus(height, k))), k)
      /\ scrollback' = IF OnAlternate THEN scrollback ELSE Pushed(SubSeq(rows, 1, Minus(height, k)))
  BY DEF Resize
<1>3. Minus(height, k) \in Nat /\ Minus(height, k) <= height
  BY <1>1, Lowest
<1>4. rows' \in Text /\ Len(rows') = k
  BY <1>1, <1>2, RefittedFits
<1>5. cursor_y' \in 1 .. k
  BY <1>1, <1>2, <1>3, CursorRefits
<1>6. scrollback' \in Text /\ Len(scrollback') <= Capacity
  <2>1. SubSeq(rows, 1, Minus(height, k)) \in Text
    BY <1>1, <1>3, TopRows
  <2>2. /\ Pushed(SubSeq(rows, 1, Minus(height, k))) \in Text
        /\ Len(Pushed(SubSeq(rows, 1, Minus(height, k)))) <= Capacity
    BY <2>1, PushedFits
  <2> QED BY <1>1, <1>2, <2>2
<1>7. AsideFits(primary', k)
  <2>1. CASE primary = << >>
    BY <2>1 DEF Resize, AsideFits
  <2>2. CASE primary # << >>
    <3>1. PICK p \in Aside : primary = <<p>>
      BY <2>2 DEF GridInv, AsideFits
    <3>2. p.rows \in Text /\ p.cursor_y \in Nat /\ p.saved_cursor \in Nat /\ Len(p.rows) \in Nat
      BY LenProperties DEF Aside, Text
    <3>3. Refitted(p.rows, k) \in Text /\ Len(Refitted(p.rows, k)) = k
      BY <3>2, RefittedFits
    <3>4. Lower(Row(Minus(p.cursor_y, Minus(Len(p.rows), k))), k) \in 1 .. k
      <4>1. Minus(Len(p.rows), k) \in Nat
        BY <3>2, Lowest
      <4> QED BY <3>2, <4>1, CursorRefits
    <3>5. /\ RefittedAside(p, k) \in Aside
          /\ RefittedAside(p, k).rows = Refitted(p.rows, k)
      BY <3>2, <3>3, <3>4 DEF RefittedAside, Aside
    <3>6. primary' = <<RefittedAside(p, k)>>
      BY <3>1 DEF Resize
    <3> QED BY <3>3, <3>5, <3>6 DEF AsideFits
  <2> QED BY <2>1, <2>2
<1>8. 1 \in 1 .. k /\ k \in 1 .. k
  OBVIOUS
<1> QED BY <1>1, <1>2, <1>4, <1>5, <1>6, <1>7, <1>8 DEF GridInv

LEMMA GridStep == GridInv /\ [GridNext]_gridVars => GridInv'
<1> SUFFICES ASSUME GridInv, [GridNext]_gridVars PROVE GridInv'
  OBVIOUS
<1>1. \A k \in ScreenRows : k \in Nat \ {0} /\ k \in Nat
  BY GridAssumption DEF ScreenRows
<1>2. CASE LineFeed
  BY <1>2, Writing DEF Cells
<1>3. CASE \E mark \in Marks : PrintChar(mark)
  BY <1>3, Writing DEF Cells
<1>4. CASE SaveCursor \/ RestoreCursor
  <2>1. 1 \in Nat \ {0}
    OBVIOUS
  <2> QED BY <1>4, <2>1, Moving
<1>5. CASE EraseInDisplay \/ EraseScrollback
  BY <1>5, Erasing
<1>6. CASE EnterAltScreen \/ LeaveAltScreen
  BY <1>6, Switching
<1>7. CASE \E k \in ScreenRows : Resize(k) \/ MoveCursor(k)
  BY <1>1, <1>7, Resizing, Moving
<1>8. CASE \E n \in ScreenRows : ScrollUp(n) \/ ScrollDown(n) \/ InsertLines(n) \/ DeleteLines(n)
  BY <1>1, <1>8, Scrolling, EditingLines
<1>9. CASE \E t, b \in ScreenRows : SetRegion(t, b)
  BY <1>1, <1>9, Moving
<1>10. CASE UNCHANGED gridVars
  BY <1>10 DEF gridVars, GridInv
<1> QED BY <1>2, <1>3, <1>4, <1>5, <1>6, <1>7, <1>8, <1>9, <1>10 DEF GridNext

\* The screen and the one put aside have the height of the pane, the cursor
\* and the scroll region lie on it, the history keeps to its capacity.
THEOREM GridInvariant == GridSpec => []GridInv
<1> QED BY GridStart, GridStep, PTL DEF GridSpec

\* Whatever is written and however the pane is resized, no row is looked for
\* where there is none.
THEOREM ScreenAlwaysFits == GridSpec => []ScreenFits
<1>1. GridInv => ScreenFits
  <2> SUFFICES ASSUME GridInv PROVE ScreenFits
    OBVIOUS
  <2>1. \A i \in DOMAIN primary : Len(primary[i].rows) = height
    BY DEF GridInv, AsideFits
  <2>2. cursor_y \in 1 .. height /\ Len(rows) = height
    BY DEF GridInv
  <2> QED BY <2>1, <2>2, Region DEF ScreenFits
<1> QED BY <1>1, GridInvariant, PTL

\* The first k lines of the screen are pushed, and those below them stay.
Scrolls(k) ==
  /\ scrollback' = Pushed(SubSeq(rows, 1, k))
  /\ primary = << >> /\ IsPrefix(From(rows, k + 1), rows')

LEMMA FeedContinues ==
  ASSUME GridInv, NEW mark \in Cells, LineFeed \/ PrintChar(mark), scrollback' # scrollback
  PROVE  Scrolls(1) /\ 1 \in 1 .. height
<1> DEFINE u == Upward(1)
<1>1. /\ height \in Nat \ {0} /\ height \in Nat /\ rows \in Text /\ Len(rows) = height
      /\ cursor_y \in 1 .. height
  BY DEF GridInv
<1>2. scrollback' = FedHistory /\ scrollback' # scrollback
  BY DEF LineFeed, PrintChar
<1>3. cursor_y = scroll_bottom /\ scrollback' = ScrolledOff(1) /\ FedRows = u /\ NextRow = cursor_y
  BY <1>2 DEF FedHistory, FedRows, NextRow
<1>4. FullRegion /\ primary = << >> /\ scrollback' = Pushed(SubSeq(rows, 1, 1))
  BY <1>2, <1>3 DEF ScrolledOff, ScrollsToHistory, OnAlternate
<1>5. /\ u \in Text /\ Len(u) = height
      /\ \A i \in 1 .. height - 1 : u[i] = rows[1 + i]
  <2>1. 1 \in Nat /\ 1 <= scroll_bottom + 1 - scroll_top
    BY Region
  <2> QED BY <1>4, <2>1, UpwardFits
<1>6. NextRow = height
  BY <1>3, <1>4 DEF FullRegion
<1> HIDE DEF u
<1>7. /\ rows' \in Text /\ Len(rows') = height
      /\ \A i \in 1 .. height - 1 : rows'[i] = u[i]
  <2>1. rows' = u \/ rows' = [u EXCEPT ![height] = mark]
    BY <1>2, <1>3, <1>6 DEF LineFeed, PrintChar
  <2>2. CASE rows' = u
    BY <1>5, <2>2
  <2>3. CASE rows' = [u EXCEPT ![height] = mark]
    <3>1. /\ rows' \in Text /\ Len(rows') = height
          /\ \A j \in 1 .. height : rows'[j] = IF j = height THEN mark ELSE u[j]
      BY <1>1, <1>5, <2>3, ExceptSeq DEF Text
    <3> QED BY <1>1, <3>1
  <2> QED BY <2>1, <2>2, <2>3
<1>8. IsPrefix(From(rows, 1 + 1), rows')
  <2>1. /\ 1 \in Nat /\ 1 <= Len(rows) /\ Len(rows) - 1 <= Len(rows')
        /\ \A i \in 1 .. Len(rows) - 1 : rows'[i] = rows[1 + i]
    BY <1>1, <1>5, <1>7
  <2> QED BY <1>1, <1>7, <2>1, Continues
<1> QED BY <1>1, <1>4, <1>8 DEF Scrolls

LEMMA ScrollContinues ==
  ASSUME GridInv, NEW n \in Nat \ {0}, ScrollUp(n), scrollback' # scrollback
  PROVE  \E k \in 1 .. height : Scrolls(k)
<1> DEFINE k == InRegion(n)
<1>1. height \in Nat /\ rows \in Text /\ Len(rows) = height
  BY DEF GridInv
<1>2. k \in Nat /\ k <= scroll_bottom + 1 - scroll_top /\ k <= height
  BY RegionLines
<1>3. k # 0
  <2>1. scroll_bottom + 1 - scroll_top \in Nat \ {0}
    BY Region
  <2> QED BY <2>1 DEF InRegion, Lower
<1>4. rows' = Upward(k) /\ scrollback' = ScrolledOff(k)
  BY DEF ScrollUp
<1> HIDE DEF k
<1>5. FullRegion /\ primary = << >> /\ scrollback' = Pushed(SubSeq(rows, 1, k))
  BY <1>4 DEF ScrolledOff, ScrollsToHistory, OnAlternate
<1>6. /\ rows' \in Text /\ Len(rows') = height
      /\ \A i \in 1 .. height - k : rows'[i] = rows[k + i]
  BY <1>2, <1>4, <1>5, UpwardFits
<1>7. IsPrefix(From(rows, k + 1), rows')
  <2>1. k <= Len(rows) /\ Len(rows) - k <= Len(rows')
    BY <1>1, <1>2, <1>6
  <2> QED BY <1>1, <1>2, <1>6, <2>1, Continues
<1> QED BY <1>1, <1>2, <1>3, <1>5, <1>7 DEF Scrolls

LEMMA ResizeContinues ==
  ASSUME GridInv, NEW n \in Nat \ {0}, Resize(n), scrollback' # scrollback
  PROVE  \E k \in 1 .. height : Scrolls(k)
<1> DEFINE k == Minus(height, n)
<1>1. height \in Nat /\ rows \in Text /\ Len(rows) = height
  BY DEF GridInv
<1>2. primary = << >> /\ scrollback' = Pushed(SubSeq(rows, 1, k)) /\ rows' = Refitted(rows, n)
  BY DEF Resize, OnAlternate
<1>3. k # 0
  <2> SUFFICES ASSUME k = 0 PROVE FALSE
    OBVIOUS
  <2>1. SubSeq(rows, 1, 0) \in Text /\ Len(SubSeq(rows, 1, 0)) = 0
    BY <1>1, TopRows
  <2>2. SubSeq(rows, 1, 0) = << >>
    BY <2>1, EmptySeq DEF Text
  <2>3. << >> \in Text
    BY DEF Text
  <2>4. Pushed(<< >>) = scrollback
    BY <2>3, PushedFits
  <2> QED BY <1>2, <2>2, <2>4
<1>4. n < height /\ k = height - n /\ k \in 1 .. height
  BY <1>1, <1>3 DEF Minus
<1> HIDE DEF k
<1>5. rows' = From(rows, k + 1)
  BY <1>1, <1>2, <1>4 DEF Refitted
<1>6. /\ From(rows, k + 1) \in Text /\ Len(From(rows, k + 1)) = Len(rows) - k
      /\ \A i \in 1 .. Len(rows) - k : From(rows, k + 1)[i] = rows[k + i]
  <2>1. k \in Nat /\ k <= Len(rows)
    BY <1>1, <1>4
  <2> QED BY <1>1, <2>1, RowsBelow
<1>7. IsPrefix(From(rows, k + 1), rows')
  <2>1. k \in Nat /\ k <= Len(rows) /\ Len(rows) - k <= Len(rows') /\ rows' \in Text
    BY <1>1, <1>4, <1>5, <1>6
  <2> QED BY <1>1, <1>5, <1>6, <2>1, Continues
<1> QED BY <1>2, <1>4, <1>7 DEF Scrolls

\* What goes to the history are the topmost lines of the primary screen, and
\* the lines that were below them are then on top of the screen.
THEOREM HistoryAlwaysContinues == GridSpec => HistoryContinuesInScreen
<1>1. GridInv /\ [GridNext]_gridVars =>
        [scrollback' \notin {scrollback, << >>} =>
           \E k \in 1 .. height :
             /\ scrollback' = Pushed(SubSeq(rows, 1, k))
             /\ primary = << >> /\ IsPrefix(From(rows, k + 1), rows')]_gridVars
  <2> SUFFICES ASSUME GridInv, GridNext, scrollback' # scrollback, scrollback' # << >>
               PROVE  \E k \in 1 .. height : Scrolls(k)
    BY DEF Scrolls
  <2>1. \A n \in ScreenRows : n \in Nat \ {0}
    BY GridAssumption DEF ScreenRows
  <2>2. CASE LineFeed \/ \E mark \in Marks : PrintChar(mark)
    BY <2>2, FeedContinues DEF Cells
  <2>3. CASE \E n \in ScreenRows : ScrollUp(n)
    BY <2>1, <2>3, ScrollContinues
  <2>4. CASE \E n \in ScreenRows : Resize(n)
    BY <2>1, <2>4, ResizeContinues
  <2> QED
    BY <2>2, <2>3, <2>4
    DEF GridNext, SaveCursor, RestoreCursor, EraseInDisplay, EraseScrollback, EnterAltScreen,
        LeaveAltScreen, MoveCursor, ScrollDown, InsertLines, DeleteLines, SetRegion
<1> QED BY <1>1, GridInvariant, PTL DEF GridSpec, HistoryContinuesInScreen
=============================================================================
