---------------------------- MODULE Client_proofs ----------------------------
(***************************************************************************)
(* Proofs about what a client has in front of it: the frames of its        *)
(* connection, however many are under way, and the lists that all sessions *)
(* share, for any number of clients and sessions.                          *)
(***************************************************************************)
EXTENDS Attach, Choosers, Lists_proofs, FiniteSetTheorems, SequenceTheorems, TLAPS

-----------------------------------------------------------------------------
(* The connection                                                          *)

MessageKinds == {"FrameAt", "Attached", "Error", "Detached", "SessionClosed",
                 "Attach", "Resize", "Whole", "First", "Second"}
Messages == [kind : MessageKinds, epoch : 0..LastEpoch, view : Views \cup {Absent}]

ConnectionTypes ==
  /\ alive \in BOOLEAN /\ registered \in BOOLEAN /\ writing \in BOOLEAN
  /\ view \in Views
  /\ toClient \in Seq(Messages) /\ toServer \in Seq(Messages)
  /\ frame_history \in Seq(Messages) /\ next_frame_epoch \in 1..LastEpoch
  /\ screen \in Messages /\ applied \in Messages
  /\ pending_mouse \in Messages \cup {Absent}

\* The epoch after e; the one in front of message i of q, when e is in front of
\* the first; and that the frames of q come without a gap.
Succ(e) == IF e = LastEpoch THEN 1 ELSE e + 1
Before(e, q, i) == IF i = 1 THEN e ELSE q[i - 1].epoch
Follow(e, q) ==
  \A i \in DOMAIN q : q[i].kind = "FrameAt" => q[i].epoch = Succ(Before(e, q, i))
LastOf(e, q) == Before(e, q, Len(q) + 1)

\* The epochs that are remembered were given since the counter began anew.
HistoryGiven ==
  \A f \in ToSet(frame_history) : f.epoch \in {LastEpoch} \cup 1..(next_frame_epoch - 1)

\* A frame that is remembered is the one its epoch was given to.
Agrees(f) == \A g \in ToSet(frame_history) : g.epoch = f.epoch => g.view = f.view

Remembered ==
  /\ \A f \in ToSet(toClient) \cup ToSet(toServer) \cup {screen, applied} : Agrees(f)
  /\ pending_mouse # Absent => Agrees(pending_mouse)

HitRight == hits = NoFrame \/ hits.got \in {hits.meant, Absent}

\* A client asks to be attached once, before anything else.
AsksOnce ==
  "Attach" \in Kinds(toServer) =>
    /\ toServer = <<Message("Attach")>> /\ toClient = <<>>
    /\ ~registered /\ writing /\ next_frame_epoch = 1
    /\ main \in {"verdict", "gone"}

\* The first it hears is the verdict.
VerdictFirst ==
  main = "verdict" =>
    /\ screen = NoFrame
    /\ registered => toClient # <<>>
    /\ toClient # <<>> => toClient[1] \in {Message("Attached"), Message("Error")}

\* As long as frames are written to the terminal, they come without a gap.
NoGap ==
  main # "gone" /\ reader # "stopped" =>
    /\ Follow(screen.epoch, toClient)
    /\ registered /\ writing => next_frame_epoch = Succ(LastOf(screen.epoch, toClient))

ConnectionInv ==
  /\ ConnectionTypes
  /\ HistoryGiven /\ Remembered /\ HitRight
  /\ AsksOnce /\ VerdictFirst /\ NoGap

LEMMA RestOf ==
  ASSUME NEW S, NEW q \in Seq(S), q # <<>>
  PROVE  /\ Rest(q) \in Seq(S) /\ Len(Rest(q)) = Len(q) - 1 /\ Len(q) > 0
         /\ \A i \in 1..(Len(q) - 1) : Rest(q)[i] = q[i + 1]
         /\ Head(q) = q[1] /\ Head(q) \in S /\ Head(q) \in ToSet(q)
         /\ ToSet(Rest(q)) \subseteq ToSet(q)
<1>1. /\ Rest(q) \in Seq(S) /\ Len(Rest(q)) = Len(q) - 1 /\ Len(q) > 0
      /\ \A i \in 1..(Len(q) - 1) : Rest(q)[i] = q[i + 1]
      /\ Head(q) = q[1] /\ Head(q) \in S
  BY DEF Rest
<1>2. DOMAIN Rest(q) = 1..(Len(q) - 1) /\ DOMAIN q = 1..Len(q)
  BY <1>1
<1>3. 1 \in DOMAIN q /\ \A i \in 1..(Len(q) - 1) : i + 1 \in DOMAIN q
  BY <1>1, <1>2
<1>4. ToSet(Rest(q)) \subseteq ToSet(q)
  BY <1>1, <1>2, <1>3 DEF ToSet
<1> QED BY <1>1, <1>3, <1>4 DEF ToSet

LEMMA Joining ==
  ASSUME NEW S, NEW q \in Seq(S), NEW r \in Seq(S)
  PROVE  /\ q \o r \in Seq(S) /\ Len(q \o r) = Len(q) + Len(r)
         /\ \A i \in 1..Len(q) : (q \o r)[i] = q[i]
         /\ \A i \in 1..Len(r) : (q \o r)[Len(q) + i] = r[i]
         /\ \A i \in 1..Len(q \o r) : i > Len(q) => (q \o r)[i] = r[i - Len(q)]
         /\ ToSet(q \o r) = ToSet(q) \cup ToSet(r)
<1>1. /\ q \o r \in Seq(S) /\ Len(q \o r) = Len(q) + Len(r)
      /\ \A i \in 1..Len(q) : (q \o r)[i] = q[i]
      /\ \A i \in 1..Len(q \o r) : i > Len(q) => (q \o r)[i] = r[i - Len(q)]
  OBVIOUS
<1>2. \A i \in 1..Len(r) : (q \o r)[Len(q) + i] = r[i]
  OBVIOUS
<1>3. DOMAIN (q \o r) = 1..(Len(q) + Len(r)) /\ DOMAIN q = 1..Len(q) /\ DOMAIN r = 1..Len(r)
  BY <1>1
<1>4. ToSet(q \o r) \subseteq ToSet(q) \cup ToSet(r)
  <2> SUFFICES ASSUME NEW i \in 1..(Len(q) + Len(r))
               PROVE  (q \o r)[i] \in ToSet(q) \cup ToSet(r)
    BY <1>3 DEF ToSet
  <2>1. CASE i <= Len(q)
    BY <1>1, <1>3, <2>1 DEF ToSet
  <2>2. CASE i > Len(q)
    BY <1>1, <1>3, <2>2 DEF ToSet
  <2> QED BY <2>1, <2>2
<1>5. ToSet(q) \subseteq ToSet(q \o r)
  BY <1>1, <1>3 DEF ToSet
<1>6. ToSet(r) \subseteq ToSet(q \o r)
  <2>1. \A i \in 1..Len(r) : Len(q) + i \in 1..(Len(q) + Len(r))
    OBVIOUS
  <2> QED BY <1>2, <1>3, <2>1 DEF ToSet
<1> QED BY <1>1, <1>2, <1>4, <1>5, <1>6

LEMMA JoiningSets ==
  \A S : \A q, r \in Seq(S) :
    /\ q \o r \in Seq(S) /\ Len(q \o r) = Len(q) + Len(r)
    /\ ToSet(q \o r) = ToSet(q) \cup ToSet(r)
<1> SUFFICES ASSUME NEW S, NEW q \in Seq(S), NEW r \in Seq(S)
             PROVE  /\ q \o r \in Seq(S) /\ Len(q \o r) = Len(q) + Len(r)
                    /\ ToSet(q \o r) = ToSet(q) \cup ToSet(r)
  OBVIOUS
<1> QED BY Joining

LEMMA OneMore ==
  \A S : \A q \in Seq(S), m \in S :
    /\ q \o <<m>> \in Seq(S) /\ Len(q \o <<m>>) = Len(q) + 1
    /\ ToSet(q \o <<m>>) = ToSet(q) \cup {m}
<1> SUFFICES ASSUME NEW S, NEW q \in Seq(S), NEW m \in S
             PROVE  /\ q \o <<m>> \in Seq(S) /\ Len(q \o <<m>>) = Len(q) + 1
                    /\ ToSet(q \o <<m>>) = ToSet(q) \cup {m}
  OBVIOUS
<1>0. <<m>> \in Seq(S)
  OBVIOUS
<1>1. PICK r \in Seq(S) : r = <<m>>
  BY <1>0, Zenon
<1>2. Len(r) = 1 /\ ToSet(r) = {m}
  BY <1>1 DEF ToSet
<1>3. q \o r \in Seq(S) /\ Len(q \o r) = Len(q) + Len(r) /\ ToSet(q \o r) = ToSet(q) \cup ToSet(r)
  BY JoiningSets, Zenon
<1> QED BY <1>1, <1>2, <1>3

LEMMA FrameTypes ==
  ASSUME ConnectionTypes, NEW v \in Views
  PROVE  /\ Frame(next_frame_epoch, v) \in Messages
         /\ NoFrame \in Messages
         /\ \A kind \in MessageKinds : Message(kind) \in Messages
         /\ (IF next_frame_epoch = LastEpoch THEN 1 ELSE next_frame_epoch + 1) \in 1..LastEpoch
<1>1. LastEpoch \in Nat /\ LastEpoch # 0
  BY EpochsAssumption
<1> QED BY <1>1 DEF ConnectionTypes, Frame, NoFrame, Message, Messages, MessageKinds

\* What is remembered after one more frame: that frame, and what was remembered
\* before unless the counter begins anew.
LEMMA HistoryAfter ==
  ASSUME ConnectionTypes, NEW f \in Messages
  PROVE  /\ Remember(f) \in Seq(Messages)
         /\ ToSet(Remember(f)) \subseteq
              {f} \cup (IF f.epoch = LastEpoch THEN {} ELSE ToSet(frame_history))
<1>1. PICK old \in Seq(Messages) :
        /\ old = IF f.epoch = LastEpoch THEN <<>> ELSE frame_history
        /\ ToSet(old) = IF f.epoch = LastEpoch THEN {} ELSE ToSet(frame_history)
  <2>1. <<>> \in Seq(Messages) /\ ToSet(<<>>) = {}
    BY DEF ToSet
  <2>2. frame_history \in Seq(Messages)
    BY DEF ConnectionTypes
  <2> QED BY <2>1, <2>2
<1>2. <<f>> \in Seq(Messages) /\ ToSet(<<f>>) = {f} /\ Len(<<f>>) = 1
  BY DEF ToSet
<1>3. PICK kept : kept = old \o <<f>>
  OBVIOUS
<1>4. kept \in Seq(Messages) /\ ToSet(kept) = ToSet(old) \cup {f} /\ kept # <<>>
  <2>1. kept \in Seq(Messages) /\ ToSet(kept) = ToSet(old) \cup {f} /\ Len(kept) = Len(old) + 1
    BY <1>3, OneMore, Zenon
  <2>2. Len(old) \in Nat
    OBVIOUS
  <2> QED BY <2>1, <2>2
<1>5. Remember(f) = IF Len(kept) > HistoryLimit THEN Rest(kept) ELSE kept
  BY <1>1, <1>3 DEF Remember
<1>6. Rest(kept) \in Seq(Messages) /\ ToSet(Rest(kept)) \subseteq ToSet(kept)
  BY <1>4, RestOf
<1> QED BY <1>1, <1>4, <1>5, <1>6

LEMMA OneMoreMessage ==
  \A q \in Seq(Messages), m \in Messages :
    /\ q \o <<m>> \in Seq(Messages) /\ Len(q \o <<m>>) = Len(q) + 1
    /\ ToSet(q \o <<m>>) = ToSet(q) \cup {m}
BY OneMore, Zenon

LEMMA EmitRemembers ==
  ASSUME ConnectionTypes, HistoryGiven, Remembered,
         NEW v \in Views, NEW before \in Seq(Messages), Emit(v, before),
         \A m \in ToSet(before) : m.epoch = 0,
         toServer' \in Seq(Messages), ToSet(toServer') \subseteq ToSet(toServer),
         UNCHANGED <<screen, applied>>, pending_mouse' \in {pending_mouse, Absent}
  PROVE  /\ view' \in Views /\ toClient' \in Seq(Messages) /\ frame_history' \in Seq(Messages)
         /\ next_frame_epoch' \in 1..LastEpoch /\ writing' \in BOOLEAN
         /\ HistoryGiven' /\ Remembered'
<1>1. PICK f \in Messages :
        f = Frame(next_frame_epoch, v) /\ f.epoch = next_frame_epoch /\ f.view = v
  BY FrameTypes DEF Frame
<1>2. /\ frame_history' \in Seq(Messages)
      /\ ToSet(frame_history') \subseteq
           {f} \cup (IF next_frame_epoch = LastEpoch THEN {} ELSE ToSet(frame_history))
  BY <1>1, HistoryAfter DEF Emit
<1>3. /\ next_frame_epoch \in 1..LastEpoch /\ next_frame_epoch' \in 1..LastEpoch
      /\ next_frame_epoch' = Succ(next_frame_epoch) /\ LastEpoch \in Nat
  BY FrameTypes, EpochsAssumption DEF Emit, Succ, ConnectionTypes
<1>4. HistoryGiven'
  BY <1>1, <1>2, <1>3 DEF HistoryGiven, Succ
<1>5. Agrees(f)'
  <2>1. \A g \in ToSet(frame_history) :
          next_frame_epoch # LastEpoch => g.epoch # next_frame_epoch
    BY <1>3 DEF HistoryGiven
  <2>2. \A g \in ToSet(frame_history') : g.epoch = next_frame_epoch => g = f
    BY <1>2, <2>1
  <2> QED BY <1>1, <2>2 DEF Agrees
<1>6. \A g : g.epoch # next_frame_epoch /\ Agrees(g) => Agrees(g)'
  BY <1>1, <1>2 DEF Agrees
<1>7. \A g : g.epoch = 0 => Agrees(g)'
  BY <1>3, <1>4 DEF Agrees, HistoryGiven
<1>8. <<f>> \in Seq(Messages) /\ ToSet(<<f>>) = {f}
  BY <1>1 DEF ToSet
<1>9. before \o <<f>> \in Seq(Messages) /\ ToSet(before \o <<f>>) = ToSet(before) \cup {f}
  <2>1. f \in Messages
    BY <1>1
  <2> QED BY <2>1, OneMoreMessage
<1>10. PICK sent : sent = before \o <<f>>
  OBVIOUS
<1>11. toClient' = toClient \/ toClient' = toClient \o sent
  BY <1>1, <1>10 DEF Emit, Send
<1>12. toClient' \in Seq(Messages) /\ ToSet(toClient') \subseteq ToSet(toClient) \cup ToSet(sent)
  <2>1. toClient \in Seq(Messages) /\ sent \in Seq(Messages)
    BY <1>9, <1>10 DEF ConnectionTypes
  <2>2. toClient \o sent \in Seq(Messages) /\ ToSet(toClient \o sent) = ToSet(toClient) \cup ToSet(sent)
    BY <2>1, Joining, Zenon
  <2> QED BY <1>11, <2>1, <2>2
<1>13. \A g \in ToSet(toClient) \cup ToSet(toServer) \cup {screen, applied} :
         g.epoch # next_frame_epoch /\ Agrees(g)
  BY DEF Emit, MayEmit, Remembered
<1>14. \A g \in ToSet(toClient') \cup ToSet(toServer') \cup {screen', applied'} : Agrees(g)'
  BY <1>5, <1>6, <1>7, <1>9, <1>10, <1>12, <1>13
<1>15. pending_mouse' # Absent => Agrees(pending_mouse)'
  BY <1>6 DEF Emit, MayEmit, Remembered, Agrees
<1>16. Remembered'
  BY <1>14, <1>15 DEF Remembered
<1> QED BY <1>2, <1>3, <1>4, <1>12, <1>16 DEF Emit, Send, ConnectionTypes

LEMMA Sent ==
  ASSUME ConnectionTypes, NEW messages \in Seq(Messages), Send(messages)
  PROVE  /\ toClient' \in Seq(Messages) /\ writing' \in BOOLEAN
         /\ ToSet(toClient') \subseteq ToSet(toClient) \cup ToSet(messages)
         /\ toClient # <<>> => toClient' # <<>> /\ toClient'[1] = toClient[1]
         /\ Len(toClient) <= Len(toClient')
         /\ \A i \in 1..Len(toClient) : toClient'[i] = toClient[i]
         /\ \A i \in 1..Len(toClient') : i > Len(toClient) => toClient'[i] \in ToSet(messages)
<1>1. toClient \in Seq(Messages) /\ writing \in BOOLEAN
  BY DEF ConnectionTypes
<1>2. CASE toClient' = toClient
  <2>1. toClient' \in Seq(Messages) /\ ToSet(toClient') = ToSet(toClient)
    BY <1>1, <1>2
  <2>2. \A i \in 1..Len(toClient') : ~(i > Len(toClient))
    BY <1>1, <1>2
  <2>3. writing' \in BOOLEAN /\ Len(toClient) <= Len(toClient')
    BY <1>1, <1>2 DEF Send
  <2> QED BY <1>2, <2>1, <2>2, <2>3
<1>3. CASE toClient' = toClient \o messages
  <2>1. /\ toClient' \in Seq(Messages) /\ Len(toClient') = Len(toClient) + Len(messages)
        /\ \A i \in 1..Len(toClient) : toClient'[i] = toClient[i]
        /\ \A i \in 1..Len(toClient') : i > Len(toClient) => toClient'[i] = messages[i - Len(toClient)]
        /\ ToSet(toClient') = ToSet(toClient) \cup ToSet(messages)
    BY <1>1, <1>3, Joining
  <2>2. Len(toClient) \in Nat /\ Len(messages) \in Nat /\ DOMAIN messages = 1..Len(messages)
    BY <1>1
  <2>3. \A i \in 1..Len(toClient') : i > Len(toClient) => toClient'[i] \in ToSet(messages)
    <3> SUFFICES ASSUME NEW i \in 1..Len(toClient'), i > Len(toClient)
                 PROVE  toClient'[i] \in ToSet(messages)
      OBVIOUS
    <3>1. i - Len(toClient) \in DOMAIN messages
      BY <2>1, <2>2
    <3> QED BY <2>1, <3>1 DEF ToSet
  <2>4. toClient # <<>> => toClient' # <<>> /\ toClient'[1] = toClient[1]
    BY <1>1, <2>1, <2>2
  <2> QED BY <2>1, <2>2, <2>3, <2>4, <1>1 DEF Send
<1> QED BY <1>2, <1>3 DEF Send

LEMMA FollowMore ==
  ASSUME NEW e, NEW q \in Seq(Messages), NEW f \in Messages, Follow(e, q),
         f.kind = "FrameAt" => f.epoch = Succ(LastOf(e, q))
  PROVE  Follow(e, Append(q, f)) /\ LastOf(e, Append(q, f)) = f.epoch
<1>0. Append(q, f) \in Seq(Messages)
  OBVIOUS
<1>1. PICK r \in Seq(Messages) : r = Append(q, f)
  BY <1>0, Zenon
<1>2. /\ Len(r) = Len(q) + 1 /\ DOMAIN r = 1..(Len(q) + 1) /\ Len(q) \in Nat
      /\ DOMAIN q = 1..Len(q)
      /\ \A i \in 1..Len(q) : r[i] = q[i]
      /\ r[Len(q) + 1] = f
  BY <1>1
<1>3. \A i \in 1..(Len(q) + 1) : Before(e, r, i) = Before(e, q, i)
  BY <1>2 DEF Before
<1>4. LastOf(e, r) = f.epoch
  BY <1>2 DEF LastOf, Before
<1>5. Follow(e, r)
  <2> SUFFICES ASSUME NEW i \in 1..(Len(q) + 1), r[i].kind = "FrameAt"
               PROVE  r[i].epoch = Succ(Before(e, q, i))
    BY <1>2, <1>3 DEF Follow
  <2>1. CASE i = Len(q) + 1
    BY <1>2, <2>1 DEF LastOf
  <2>2. CASE i # Len(q) + 1
    <3>1. i \in DOMAIN q
      BY <1>2, <2>2
    <3> QED BY <1>2, <3>1 DEF Follow
  <2> QED BY <2>1, <2>2
<1> QED BY <1>1, <1>4, <1>5

LEMMA FollowRest ==
  ASSUME NEW e, NEW q \in Seq(Messages), q # <<>>, Follow(e, q)
  PROVE  /\ Follow(q[1].epoch, Rest(q)) /\ LastOf(q[1].epoch, Rest(q)) = LastOf(e, q)
         /\ q[1].kind = "FrameAt" => q[1].epoch = Succ(e)
<1>1. PICK r \in Seq(Messages) :
        /\ r = Rest(q) /\ Len(r) = Len(q) - 1 /\ Len(q) > 0
        /\ \A i \in 1..(Len(q) - 1) : r[i] = q[i + 1]
  BY RestOf
<1>2. Len(q) \in Nat /\ DOMAIN r = 1..(Len(q) - 1) /\ DOMAIN q = 1..Len(q)
  BY <1>1
<1>3. \A i \in 1..Len(q) : Before(q[1].epoch, r, i) = Before(e, q, i + 1)
  BY <1>1, <1>2 DEF Before
<1>4. LastOf(q[1].epoch, r) = LastOf(e, q)
  BY <1>1, <1>2, <1>3 DEF LastOf
<1>5. Follow(q[1].epoch, r)
  <2> SUFFICES ASSUME NEW i \in 1..(Len(q) - 1), r[i].kind = "FrameAt"
               PROVE  r[i].epoch = Succ(Before(e, q, i + 1))
    BY <1>2, <1>3 DEF Follow
  <2>1. i + 1 \in DOMAIN q
    BY <1>2
  <2> QED BY <1>1, <2>1 DEF Follow
<1>6. q[1].kind = "FrameAt" => q[1].epoch = Succ(e)
  <2>1. 1 \in DOMAIN q /\ Before(e, q, 1) = e
    BY <1>1, <1>2 DEF Before
  <2> QED BY <2>1 DEF Follow
<1> QED BY <1>1, <1>4, <1>5, <1>6

LEMMA FollowFront ==
  ASSUME NEW e, NEW q \in Seq(Messages), NEW n \in 0..Len(q), Follow(e, q)
  PROVE  Follow(e, SubSeq(q, 1, n))
<1>1. PICK r \in Seq(Messages) :
        r = SubSeq(q, 1, n) /\ Len(r) = n /\ \A i \in 1..n : r[i] = q[i]
  <2>1. /\ SubSeq(q, 1, n) \in Seq(Messages) /\ Len(SubSeq(q, 1, n)) = n
        /\ \A i \in 1..n : SubSeq(q, 1, n)[i] = q[i]
    <3>1. \A i \in 1..n : i \in 1..Len(q) /\ 1 + i - 1 = i
      OBVIOUS
    <3>2. n \in Nat /\ Len(q) \in Nat /\ n <= Len(q)
      OBVIOUS
    <3>3. SubSeq(q, 1, n) \in Seq(Messages) /\ Len(SubSeq(q, 1, n)) = n
      BY <3>1, <3>2
    <3> QED BY <3>1, <3>2, <3>3
  <2> QED BY <2>1, Zenon
<1>2. DOMAIN r = 1..n /\ \A i \in 1..n : i \in DOMAIN q /\ Before(e, r, i) = Before(e, q, i)
  BY <1>1 DEF Before
<1> QED BY <1>1, <1>2 DEF Follow

\* What is sent last, and no frame, leaves the frames before it in order.
LEMMA EndKeepsOrder ==
  ASSUME ConnectionTypes, NoGap, NEW messages \in Seq(Messages), Send(messages),
         \A m \in ToSet(messages) : m.kind # "FrameAt", "Detached" \in Kinds(messages),
         UNCHANGED <<screen, main, reader>>
  PROVE  NoGap'
<1>1. /\ Len(toClient) <= Len(toClient')
      /\ \A i \in 1..Len(toClient) : toClient'[i] = toClient[i]
      /\ \A i \in 1..Len(toClient') : i > Len(toClient) => toClient'[i].kind # "FrameAt"
      /\ toClient' \in Seq(Messages) /\ toClient \in Seq(Messages)
  BY Sent DEF ConnectionTypes
<1>2. \A e : Follow(e, toClient) => Follow(e, toClient')
  <2> SUFFICES ASSUME NEW e, Follow(e, toClient), NEW i \in DOMAIN toClient',
                      toClient'[i].kind = "FrameAt"
               PROVE  toClient'[i].epoch = Succ(Before(e, toClient', i))
    BY DEF Follow
  <2>1. i \in DOMAIN toClient /\ i \in Nat /\ (i # 1 => i - 1 \in 1..Len(toClient))
    BY <1>1
  <2>2. Before(e, toClient', i) = Before(e, toClient, i) /\ toClient'[i] = toClient[i]
    BY <1>1, <2>1 DEF Before
  <2> QED BY <2>1, <2>2 DEF Follow
<1>3. writing' = FALSE
  BY DEF Send
<1> QED BY <1>2, <1>3 DEF NoGap

\* A frame continues those before it; the first follows the verdict.
LEMMA EmitKeepsOrder ==
  ASSUME ConnectionTypes, NoGap, NEW v \in Views, NEW before \in Seq(Messages), Emit(v, before),
         \/ before = <<>> /\ registered
         \/ /\ before = <<Message("Attached")>>
            /\ toClient = <<>> /\ screen = NoFrame /\ next_frame_epoch = 1,
         UNCHANGED <<screen, main, reader>>
  PROVE  NoGap'
<1> SUFFICES ASSUME main # "gone", reader # "stopped", writing
             PROVE  /\ Follow(screen.epoch, toClient')
                    /\ next_frame_epoch' = Succ(LastOf(screen.epoch, toClient'))
  <2>1. writing \in BOOLEAN
    BY DEF ConnectionTypes
  <2>2. ~writing => toClient' = toClient /\ ~writing'
    BY <2>1 DEF Emit, Send
  <2> QED BY <2>1, <2>2 DEF NoGap
<1>1. PICK f \in Messages :
        /\ f = Frame(next_frame_epoch, v) /\ f.epoch = next_frame_epoch
  BY FrameTypes DEF Frame
<1>2. /\ toClient' = toClient \o (before \o <<f>>) /\ toClient \in Seq(Messages)
      /\ next_frame_epoch' = Succ(next_frame_epoch)
  BY <1>1 DEF Emit, Send, Succ, ConnectionTypes
<1>3. f \in Messages
  BY <1>1
<1>4. next_frame_epoch' = Succ(f.epoch)
  BY <1>1, <1>2
<1>5. CASE before = <<>> /\ registered
  <2>1. toClient' = Append(toClient, f)
    BY <1>2, <1>3, <1>5
  <2>2. f.epoch = Succ(LastOf(screen.epoch, toClient)) /\ Follow(screen.epoch, toClient)
    BY <1>1, <1>5 DEF NoGap
  <2>3. toClient \in Seq(Messages)
    BY <1>2
  <2>4. Follow(screen.epoch, Append(toClient, f)) /\ LastOf(screen.epoch, Append(toClient, f)) = f.epoch
    BY <1>3, <2>2, <2>3, FollowMore
  <2> QED BY <1>4, <2>1, <2>4
<1>6. CASE /\ before = <<Message("Attached")>>
           /\ toClient = <<>> /\ screen = NoFrame /\ next_frame_epoch = 1
  <2>1. PICK a \in Messages : a = Message("Attached") /\ a.kind = "Attached" /\ a.epoch = 0
    BY FrameTypes DEF Message, MessageKinds
  <2>2. a \in Messages /\ a.kind # "FrameAt"
    BY <2>1
  <2>3. before = <<a>> /\ before = Append(<<>>, a)
    BY <1>6, <2>1
  <2>4. toClient' = Append(before, f)
    BY <1>2, <1>3, <1>6, <2>2, <2>3
  <2>5. <<>> \in Seq(Messages) /\ Follow(screen.epoch, <<>>)
    BY DEF Follow
  <2>6. Follow(screen.epoch, before) /\ LastOf(screen.epoch, before) = 0
    <3>1. /\ Follow(screen.epoch, Append(<<>>, a))
          /\ LastOf(screen.epoch, Append(<<>>, a)) = a.epoch
      BY <2>2, <2>5, FollowMore
    <3> QED BY <2>1, <2>3, <3>1
  <2>7. f.epoch = Succ(0)
    BY <1>1, <1>6, EpochsAssumption DEF Succ
  <2>8. /\ Follow(screen.epoch, Append(before, f))
        /\ LastOf(screen.epoch, Append(before, f)) = f.epoch
    BY <1>3, <2>6, <2>7, FollowMore
  <2> QED BY <1>4, <2>4, <2>8
<1> QED BY <1>5, <1>6

\* The kinds of what is left of a queue.
LEMMA KindsOf ==
  ASSUME ConnectionTypes
  PROVE  /\ toServer # <<>> => /\ Kinds(Rest(toServer)) \subseteq Kinds(toServer)
                               /\ Rest(toServer) \in Seq(Messages)
                               /\ ToSet(Rest(toServer)) \subseteq ToSet(toServer)
                               /\ Head(toServer) \in ToSet(toServer)
                               /\ Head(toServer) \in Messages
                               /\ Head(toServer).kind \in Kinds(toServer)
         /\ \A q : Kinds(q) = {m.kind : m \in ToSet(q)}
<1>1. \A q : Kinds(q) = {m.kind : m \in ToSet(q)}
  BY DEF Kinds, ToSet
<1>2. toServer \in Seq(Messages)
  BY DEF ConnectionTypes
<1> QED BY <1>1, <1>2, RestOf

\* What the loop was asked last is gone when a client asked to be attached.
LEMMA AsksNoMore ==
  ASSUME ConnectionTypes, AsksOnce, "Attach" \in Kinds(toServer)
  PROVE  Rest(toServer) = <<>> /\ "Attach" \notin Kinds(<<>>)
<1>1. toServer \in Seq(Messages) /\ Len(toServer) = 1
  BY DEF AsksOnce, ConnectionTypes
<1>2. Rest(toServer) \in Seq(Messages) /\ Len(Rest(toServer)) = 0
  BY <1>1, RestOf
<1>3. "Attach" \notin Kinds(<<>>)
  BY DEF Kinds
<1> QED BY <1>2, <1>3

\* The head of what is on its way to the client stays.
LEMMA VerdictStays ==
  ASSUME ConnectionTypes, VerdictFirst, NEW messages \in Seq(Messages), Send(messages),
         registered, UNCHANGED <<screen, main>>
  PROVE  VerdictFirst'
BY Sent DEF VerdictFirst

\* A handler that draws the client.
LEMMA EmitKeeps ==
  ASSUME ConnectionInv, registered, NEW v \in Views, Emit(v, <<>>), HitRight',
         toServer' = toServer \/ (toServer # <<>> /\ toServer' = Rest(toServer)),
         pending_mouse' \in {pending_mouse, Absent},
         UNCHANGED <<alive, registered, cli>>
  PROVE  ConnectionInv'
<1>1. ConnectionTypes /\ HistoryGiven /\ Remembered /\ NoGap /\ VerdictFirst /\ AsksOnce
  BY DEF ConnectionInv
<1>2. <<>> \in Seq(Messages) /\ ToSet(<<>>) = {}
  BY DEF ToSet
<1>3. /\ toServer' \in Seq(Messages) /\ ToSet(toServer') \subseteq ToSet(toServer)
      /\ Kinds(toServer') \subseteq Kinds(toServer)
  BY <1>1, KindsOf DEF ConnectionTypes
<1>4. UNCHANGED <<screen, applied, main, reader>>
  BY DEF cli, threads
<1>5. /\ view' \in Views /\ toClient' \in Seq(Messages) /\ frame_history' \in Seq(Messages)
      /\ next_frame_epoch' \in 1..LastEpoch /\ writing' \in BOOLEAN
      /\ HistoryGiven' /\ Remembered'
  BY <1>1, <1>2, <1>3, <1>4, EmitRemembers
<1>6. NoGap'
  BY <1>1, <1>2, <1>4, EmitKeepsOrder
<1>7. VerdictFirst'
  <2>1. PICK f \in Messages : f = Frame(next_frame_epoch, v)
    BY <1>1, FrameTypes
  <2>2. PICK messages \in Seq(Messages) : messages = <<>> \o <<f>>
    <3>1. f \in Messages
      BY <2>1
    <3> QED BY <1>2, <3>1, OneMoreMessage
  <2>3. Send(messages)
    BY <2>1, <2>2 DEF Emit
  <2> QED BY <1>1, <1>4, <2>3, VerdictStays
<1>8. AsksOnce'
  BY <1>1, <1>3 DEF AsksOnce
<1>9. ConnectionTypes'
  BY <1>1, <1>3, <1>4, <1>5 DEF ConnectionTypes
<1> QED BY <1>5, <1>6, <1>7, <1>8, <1>9 DEF ConnectionInv

\* A handler that draws nothing.
LEMMA QuietInput ==
  ASSUME ConnectionInv, HitRight', toServer # <<>>, toServer' = Rest(toServer),
         pending_mouse' \in {pending_mouse, Absent, Head(toServer)},
         UNCHANGED <<alive, registered, view, next_frame_epoch, frame_history,
                     writing, toClient, cli>>
  PROVE  ConnectionInv'
<1>1. ConnectionTypes /\ HistoryGiven /\ Remembered /\ NoGap /\ VerdictFirst /\ AsksOnce
  BY DEF ConnectionInv
<1>2. /\ toServer' \in Seq(Messages) /\ ToSet(toServer') \subseteq ToSet(toServer)
      /\ Head(toServer) \in ToSet(toServer) /\ Head(toServer) \in Messages
      /\ Kinds(toServer') \subseteq Kinds(toServer)
  BY <1>1, KindsOf
<1>3. UNCHANGED <<screen, applied, main, reader>>
  BY DEF cli, threads
<1>4. ConnectionTypes'
  BY <1>1, <1>2, <1>3 DEF ConnectionTypes
<1>5. HistoryGiven' /\ \A f : Agrees(f) => Agrees(f)'
  BY <1>1 DEF HistoryGiven, Agrees
<1>6. Remembered'
  <2>1. \A f \in ToSet(toClient') \cup ToSet(toServer') \cup {screen', applied'} : Agrees(f)'
    BY <1>1, <1>2, <1>3, <1>5 DEF Remembered
  <2>2. pending_mouse' # Absent => Agrees(pending_mouse)'
    <3>1. CASE pending_mouse' = pending_mouse
      BY <1>1, <1>5, <3>1 DEF Remembered, Agrees
    <3>2. CASE pending_mouse' = Head(toServer)
      BY <1>1, <1>2, <1>5, <3>2 DEF Remembered, Agrees
    <3> QED BY <3>1, <3>2
  <2> QED BY <2>1, <2>2 DEF Remembered
<1>7. AsksOnce'
  BY <1>1, <1>2, AsksNoMore DEF AsksOnce
<1>8. VerdictFirst' /\ NoGap'
  BY <1>1, <1>3 DEF VerdictFirst, NoGap
<1> QED BY <1>4, <1>5, <1>6, <1>7, <1>8 DEF ConnectionInv

\* A step of the client.
LEMMA ClientKeeps ==
  ASSUME ConnectionInv, UNCHANGED <<srv, hits>>,
         toClient' \in Seq(Messages), ToSet(toClient') \subseteq ToSet(toClient),
         toClient = <<>> => toClient' = <<>>,
         \/ toServer' = toServer
         \/ \E m \in Messages :
              /\ toServer' = Append(toServer, m) /\ Agrees(m) /\ m.kind # "Attach"
              /\ main \in {"reading", "joining"},
         toClient # <<>> \/ main' = main \/ main' = "gone" \/ main \in {"reading", "joining"},
         screen' \in ToSet(toClient) \cup {screen, NoFrame},
         applied' \in {applied, screen, NoFrame},
         VerdictFirst', NoGap'
  PROVE  ConnectionInv'
<1>1. ConnectionTypes /\ HistoryGiven /\ Remembered /\ AsksOnce /\ HitRight
  BY DEF ConnectionInv
<1>2. UNCHANGED <<alive, registered, view, next_frame_epoch, frame_history,
                  pending_mouse, writing, hits>>
  BY DEF srv, handle
<1>3. HistoryGiven' /\ (\A f : Agrees(f) => Agrees(f)') /\ HitRight'
  BY <1>1, <1>2 DEF HistoryGiven, Agrees, HitRight
<1>4. PICK more \in SUBSET Messages :
        /\ toServer' \in Seq(Messages) /\ ToSet(toServer') = ToSet(toServer) \cup more
        /\ \A m \in more : Agrees(m) /\ m.kind # "Attach"
        /\ more # {} => main \in {"reading", "joining"}
        /\ more = {} => toServer' = toServer
  <2>1. toServer \in Seq(Messages)
    BY <1>1 DEF ConnectionTypes
  <2>2. CASE toServer' = toServer
    <3>1. {} \in SUBSET Messages /\ toServer' \in Seq(Messages) /\ ToSet(toServer') = ToSet(toServer)
      BY <2>1, <2>2
    <3> QED BY <2>2, <3>1
  <2>3. ASSUME NEW m \in Messages, toServer' = Append(toServer, m), Agrees(m), m.kind # "Attach",
               main \in {"reading", "joining"}
        PROVE  \E more \in SUBSET Messages :
                 /\ toServer' \in Seq(Messages) /\ ToSet(toServer') = ToSet(toServer) \cup more
                 /\ \A g \in more : Agrees(g) /\ g.kind # "Attach"
                 /\ more # {} => main \in {"reading", "joining"}
                 /\ more = {} => toServer' = toServer
    <3>1. Append(toServer, m) = toServer \o <<m>>
      BY <2>1
    <3>2. toServer' \in Seq(Messages) /\ ToSet(toServer') = ToSet(toServer) \cup {m}
      BY <2>1, <2>3, <3>1, OneMoreMessage
    <3>3. {m} \in SUBSET Messages /\ {m} # {}
      OBVIOUS
    <3> QED BY <2>3, <3>2, <3>3
  <2> QED BY <2>2, <2>3
<1>5. NoFrame \in Messages /\ Agrees(NoFrame)
  <2>1. NoFrame.epoch = 0
    BY DEF NoFrame, Frame
  <2>2. \A g \in ToSet(frame_history) : g.epoch # 0
    BY <1>1, EpochsAssumption DEF HistoryGiven, ConnectionTypes
  <2> QED BY <1>1, <2>1, <2>2, FrameTypes DEF Agrees, ConnectionTypes
<1>6. screen' \in Messages /\ applied' \in Messages
  <2>1. \A f \in ToSet(toClient) : f \in Messages
    BY <1>1 DEF ConnectionTypes, ToSet
  <2> QED BY <1>1, <1>5, <2>1 DEF ConnectionTypes
<1>7. ConnectionTypes'
  BY <1>1, <1>2, <1>4, <1>6 DEF ConnectionTypes
<1>8. Remembered'
  <2>1. \A f \in ToSet(toClient') \cup ToSet(toServer') \cup {screen', applied'} : Agrees(f)
    BY <1>1, <1>4, <1>5 DEF Remembered
  <2>2. pending_mouse' # Absent => Agrees(pending_mouse)'
    BY <1>1, <1>2, <1>3 DEF Remembered, Agrees
  <2> QED BY <1>3, <2>1, <2>2 DEF Remembered
<1>9. AsksOnce'
  <2> SUFFICES ASSUME "Attach" \in Kinds(toServer')
               PROVE  /\ toServer' = <<Message("Attach")>> /\ toClient' = <<>>
                      /\ ~registered' /\ writing' /\ next_frame_epoch' = 1
                      /\ main' \in {"verdict", "gone"}
    BY DEF AsksOnce
  <2>1. "Attach" \in Kinds(toServer)
    BY <1>1, <1>4, KindsOf
  <2> QED BY <1>1, <1>2, <1>4, <2>1 DEF AsksOnce
<1> QED BY <1>3, <1>7, <1>8, <1>9 DEF ConnectionInv

LEMMA Verdicts ==
  ASSUME ConnectionTypes
  PROVE  \A kind \in {"Attached", "Error", "Detached", "SessionClosed"} :
           Message(kind) \in Messages /\ Message(kind).epoch = 0 /\ Message(kind).kind = kind
<1>1. view \in Views
  BY DEF ConnectionTypes
<1>2. \A kind \in MessageKinds : Message(kind) \in Messages
  BY <1>1, FrameTypes
<1>3. {"Attached", "Error", "Detached", "SessionClosed"} \subseteq MessageKinds
  BY DEF MessageKinds
<1>4. \A kind : Message(kind).epoch = 0 /\ Message(kind).kind = kind
  BY DEF Message
<1> QED BY <1>2, <1>3, <1>4, Zenon

LEMMA AttachStep ==
  ASSUME ConnectionInv, HandleAttach
  PROVE  ConnectionInv' /\ UNCHANGED screen
<1>1. ConnectionTypes /\ HistoryGiven /\ Remembered /\ NoGap /\ VerdictFirst /\ AsksOnce /\ HitRight
  BY DEF ConnectionInv
<1>2. toServer # <<>> /\ Head(toServer).kind = "Attach" /\ toServer' = Rest(toServer)
  BY DEF HandleAttach
<1>3. "Attach" \in Kinds(toServer)
  BY <1>1, <1>2, KindsOf
<1>4. /\ toClient = <<>> /\ ~registered /\ writing /\ next_frame_epoch = 1
      /\ main \in {"verdict", "gone"}
  BY <1>1, <1>3 DEF AsksOnce
<1>5. toServer' = <<>> /\ toServer' \in Seq(Messages) /\ ToSet(toServer') \subseteq ToSet(toServer)
  BY <1>1, <1>2, <1>3, AsksNoMore, KindsOf
<1>6. AsksOnce'
  BY <1>1, <1>3, <1>5, AsksNoMore DEF AsksOnce
<1>7. /\ UNCHANGED <<screen, applied, main, reader>> /\ UNCHANGED <<alive, pending_mouse, hits>>
      /\ HitRight'
  BY <1>1 DEF HandleAttach, cli, threads, HitRight
<1>8. CASE registered' = TRUE /\ Emit(view, <<Message("Attached")>>)
  <2>1. PICK a \in Messages : a = Message("Attached") /\ a.epoch = 0
    BY <1>1, Verdicts, Zenon
  <2>2. <<a>> \in Seq(Messages) /\ ToSet(<<a>>) = {a} /\ Emit(view, <<a>>)
    BY <1>8, <2>1 DEF ToSet
  <2>3. PICK before \in Seq(Messages) : before = <<a>>
    BY <2>2
  <2>4. view \in Views /\ Emit(view, before) /\ \A m \in ToSet(before) : m.epoch = 0
    BY <1>1, <2>1, <2>2, <2>3 DEF ConnectionTypes
  <2>5. /\ view' \in Views /\ toClient' \in Seq(Messages) /\ frame_history' \in Seq(Messages)
        /\ next_frame_epoch' \in 1..LastEpoch /\ writing' \in BOOLEAN
        /\ HistoryGiven' /\ Remembered'
    BY <1>1, <1>5, <1>7, <2>4, EmitRemembers
  <2>6. ConnectionTypes'
    BY <1>1, <1>5, <1>7, <1>8, <2>5 DEF ConnectionTypes
  <2>7. ASSUME main = "verdict" PROVE NoGap'
    <3>1. screen = NoFrame
      BY <1>1, <2>7 DEF VerdictFirst
    <3> QED BY <1>1, <1>4, <1>7, <2>1, <2>3, <2>4, <3>1, EmitKeepsOrder
  <2>8. NoGap'
    BY <1>4, <1>7, <2>7 DEF NoGap
  <2>9. ASSUME main = "verdict" PROVE toClient' # <<>> /\ toClient'[1] = a
    <3>1. PICK f \in Messages : f = Frame(next_frame_epoch, view)
      BY <1>1, FrameTypes DEF ConnectionTypes
    <3>2. PICK sent \in Seq(Messages) : sent = before \o <<f>> /\ Len(sent) = Len(before) + 1
      <4>1. f \in Messages
        BY <3>1
      <4> QED BY <4>1, OneMoreMessage
    <3>3. toClient' = toClient \o sent
      BY <1>4, <2>4, <2>9, <3>1, <3>2 DEF Emit, Send
    <3>4. toClient' = sent
      BY <1>4, <3>3
    <3>5. f \in Messages /\ a \in Messages
      BY <2>1, <3>1
    <3>6. sent[1] = a /\ sent # <<>>
      BY <2>3, <3>2, <3>5
    <3> QED BY <3>4, <3>6
  <2>10. VerdictFirst'
    BY <1>1, <1>7, <2>1, <2>9 DEF VerdictFirst
  <2> QED BY <1>6, <1>7, <2>5, <2>6, <2>8, <2>10 DEF ConnectionInv
<1>9. CASE /\ UNCHANGED <<registered, view, frame_history, next_frame_epoch>>
           /\ Send(<<Message("Error"), Message("Detached")>>)
  <2>1. PICK e, d \in Messages : /\ e = Message("Error") /\ d = Message("Detached")
                                 /\ e.epoch = 0 /\ d.epoch = 0
                                 /\ e.kind = "Error" /\ d.kind = "Detached"
    BY <1>1, Verdicts, Zenon
  <2>2. <<e, d>> \in Seq(Messages) /\ ToSet(<<e, d>>) = {e, d} /\ Send(<<e, d>>)
    BY <1>9, <2>1 DEF ToSet
  <2>3. PICK sent \in Seq(Messages) : sent = <<e, d>>
    BY <2>2
  <2>4. Send(sent) /\ ToSet(sent) = {e, d} /\ Len(sent) = 2 /\ sent[1] = e
    BY <2>2, <2>3
  <2>5. "Detached" \in Kinds(sent) /\ \A m \in ToSet(sent) : m.kind # "FrameAt" /\ m.epoch = 0
    BY <1>1, <2>1, <2>4, KindsOf
  <2>6. NoGap'
    BY <1>1, <1>7, <2>4, <2>5, EndKeepsOrder
  <2>7. toClient' \in Seq(Messages) /\ writing' \in BOOLEAN /\ ToSet(toClient') \subseteq ToSet(sent)
    BY <1>1, <1>4, <2>4, Sent DEF ToSet
  <2>8. ConnectionTypes'
    BY <1>1, <1>5, <1>7, <1>9, <2>7 DEF ConnectionTypes
  <2>9. HistoryGiven' /\ (\A f : Agrees(f) => Agrees(f)')
    BY <1>1, <1>9 DEF HistoryGiven, Agrees
  <2>10. \A f : f.epoch = 0 => Agrees(f)
    <3>1. \A g \in ToSet(frame_history) : g.epoch # 0
      BY <1>1, EpochsAssumption DEF HistoryGiven, ConnectionTypes
    <3> QED BY <3>1 DEF Agrees
  <2>11. Remembered'
    <3>1. \A f \in ToSet(toClient') \cup ToSet(toServer') \cup {screen', applied'} : Agrees(f)
      BY <1>1, <1>5, <1>7, <2>5, <2>7, <2>10 DEF Remembered
    <3>2. pending_mouse' # Absent => Agrees(pending_mouse)'
      BY <1>1, <1>7, <1>9 DEF Remembered, Agrees
    <3> QED BY <2>9, <3>1, <3>2 DEF Remembered
  <2>12. VerdictFirst'
    <3>1. main = "verdict" => toClient' # <<>> /\ toClient'[1] = e
      <4>1. main = "verdict" => toClient' = toClient \o sent
        BY <1>4, <2>4 DEF Send
      <4>2. toClient \o sent = sent
        BY <1>4
      <4> QED BY <2>4, <4>1, <4>2
    <3> QED BY <1>1, <1>4, <1>7, <1>9, <2>1, <3>1 DEF VerdictFirst
  <2> QED BY <1>6, <1>7, <2>6, <2>8, <2>9, <2>11, <2>12 DEF ConnectionInv
<1> QED BY <1>7, <1>8, <1>9 DEF HandleAttach

LEMMA Smallest ==
  ASSUME NEW T \in SUBSET Nat, T # {}
  PROVE  \E i \in T : \A j \in T : i <= j
<1>1. PICK i \in T : \A j \in T : ~ (<<j, i>> \in OpToRel(<, Nat))
  BY NatLessThanWellFounded, WFMin
<1>2. \A j \in T : ~ j < i
  BY <1>1 DEF OpToRel
<1> QED BY <1>2

\* A report acts on the frame it was meant for, or on none.
LEMMA FrameFound ==
  ASSUME ConnectionTypes, NEW m, Agrees(m)
  PROVE  InputFrame(m.epoch).view \in {m.view, Absent}
<1> DEFINE found == {i \in DOMAIN frame_history : frame_history[i].epoch = m.epoch}
<1>1. CASE found = {}
  BY <1>1 DEF InputFrame, NoFrame, Frame
<1>2. CASE found # {}
  <2>1. found \in SUBSET Nat
    BY DEF ConnectionTypes
  <2>2. \E i \in found : \A j \in found : i <= j
    BY <1>2, <2>1, Smallest
  <2>3. PICK i \in found : InputFrame(m.epoch) = frame_history[i]
    BY <1>2, <2>2 DEF InputFrame
  <2>4. frame_history[i] \in ToSet(frame_history) /\ frame_history[i].epoch = m.epoch
    BY DEF ToSet
  <2> QED BY <2>3, <2>4 DEF Agrees
<1> QED BY <1>1, <1>2

LEMMA InputStep ==
  ASSUME ConnectionInv, HandleInput
  PROVE  ConnectionInv' /\ UNCHANGED screen
<1>1. ConnectionTypes /\ Remembered /\ HitRight
  BY DEF ConnectionInv
<1>2. /\ toServer # <<>> /\ toServer' = Rest(toServer)
      /\ UNCHANGED <<alive, registered, cli>> /\ UNCHANGED screen
  BY DEF HandleInput, cli
<1>3. Head(toServer) \in ToSet(toServer)
  BY <1>1, <1>2, KindsOf
<1>4. CASE ~registered
  <2>1. UNCHANGED <<pending_mouse, hits, view, frame_history, next_frame_epoch, toClient, writing>>
    BY <1>4 DEF HandleInput, EmitNothing
  <2> QED BY <1>1, <1>2, <2>1, QuietInput DEF HitRight
<1>5. CASE registered /\ Head(toServer).kind = "First"
  <2>1. /\ UNCHANGED <<hits, view, frame_history, next_frame_epoch, toClient, writing>>
        /\ pending_mouse' = Head(toServer)
    BY <1>5 DEF HandleInput, EmitNothing
  <2> QED BY <1>1, <1>2, <2>1, QuietInput DEF HitRight
<1>6. CASE registered /\ Head(toServer).kind # "First"
  <2>1. PICK start : start = IF pending_mouse # Absent THEN pending_mouse ELSE Head(toServer)
    OBVIOUS
  <2>2. Agrees(start)
    BY <1>1, <1>3, <2>1 DEF Remembered
  <2>3. /\ pending_mouse' = Absent
        /\ hits' = [meant |-> start.view, got |-> InputFrame(start.epoch).view]
        /\ (\E v \in Views : Emit(v, <<>>)) \/ EmitNothing
    BY <1>6, <2>1 DEF HandleInput
  <2>4. HitRight'
    BY <1>1, <2>2, <2>3, FrameFound DEF HitRight
  <2>5. ASSUME NEW v \in Views, Emit(v, <<>>) PROVE ConnectionInv'
    BY <1>2, <1>6, <2>3, <2>4, <2>5, EmitKeeps
  <2>6. CASE EmitNothing
    BY <1>2, <2>3, <2>4, <2>6, QuietInput DEF EmitNothing
  <2> QED BY <1>2, <2>3, <2>5, <2>6
<1> QED BY <1>2, <1>4, <1>5, <1>6

\* A handler that lets the client go, or finds it gone.
LEMMA ForgetKeeps ==
  ASSUME ConnectionInv, Forget, toServer' = toServer \/ toServer' = <<>>,
         toClient' \in Seq(Messages), writing' \in BOOLEAN, alive' \in BOOLEAN,
         \A f \in ToSet(toClient') : f \in ToSet(toClient) \/ f.epoch = 0,
         toServer = <<>> \/ toServer' = <<>> \/ registered, NoGap', VerdictFirst',
         UNCHANGED <<view, cli>>
  PROVE  ConnectionInv'
<1>1. ConnectionTypes /\ Remembered /\ AsksOnce
  BY DEF ConnectionInv
<1>2. /\ registered' = FALSE /\ next_frame_epoch' = 1 /\ frame_history' = <<>>
      /\ pending_mouse' = Absent /\ hits' = NoFrame
  BY DEF Forget
<1>3. UNCHANGED <<screen, applied>>
  BY DEF cli
<1>4. <<>> \in Seq(Messages) /\ ToSet(<<>>) = {} /\ Kinds(<<>>) = {}
  BY DEF ToSet, Kinds
<1>5. ConnectionTypes'
  <2>1. 1 \in 1..LastEpoch
    BY EpochsAssumption
  <2>2. toServer' \in Seq(Messages)
    BY <1>1, <1>4 DEF ConnectionTypes
  <2>3. frame_history' \in Seq(Messages) /\ next_frame_epoch' \in 1..LastEpoch
    BY <1>2, <1>4, <2>1
  <2> QED BY <1>1, <1>2, <1>3, <2>2, <2>3 DEF ConnectionTypes
<1>6. HistoryGiven' /\ Remembered' /\ HitRight'
  BY <1>2, <1>4 DEF HistoryGiven, Remembered, Agrees, HitRight, NoFrame, Frame
<1>7. AsksOnce'
  BY <1>1, <1>2, <1>4 DEF AsksOnce
<1> QED BY <1>5, <1>6, <1>7 DEF ConnectionInv

LEMMA ServerStep ==
  ASSUME ConnectionInv, Server
  PROVE  ConnectionInv' /\ UNCHANGED screen
<1>1. ConnectionTypes /\ Remembered /\ HitRight /\ NoGap /\ VerdictFirst /\ AsksOnce /\ HistoryGiven
  BY DEF ConnectionInv
<1>2. ASSUME NEW v \in Views, HandleOther(v) PROVE ConnectionInv' /\ UNCHANGED screen
  BY <1>1, <1>2, EmitKeeps DEF HandleOther, HitRight, cli
<1>3. CASE HandleResize
  <2>1. /\ toServer # <<>> /\ toServer' = Rest(toServer) /\ HitRight' /\ UNCHANGED screen
        /\ UNCHANGED <<alive, registered, pending_mouse, cli>>
    BY <1>1, <1>3 DEF HandleResize, HitRight, cli
  <2>2. CASE registered /\ Emit(view, <<>>)
    <3>1. view \in Views
      BY <1>1 DEF ConnectionTypes
    <3> QED BY <2>1, <2>2, <3>1, EmitKeeps
  <2>3. CASE EmitNothing
    BY <2>1, <2>3, QuietInput DEF EmitNothing
  <2> QED BY <1>3, <2>2, <2>3 DEF HandleResize
<1>4. CASE HandleDetach
  <2>1. /\ registered /\ Send(<<Message("Detached")>>)
        /\ UNCHANGED <<alive, registered, view, next_frame_epoch, frame_history, pending_mouse>>
        /\ UNCHANGED <<toServer, hits, screen, applied, main, reader>>
    BY <1>4 DEF HandleDetach, handle, cli, threads
  <2>2. PICK d \in Messages : d = Message("Detached") /\ d.epoch = 0 /\ d.kind = "Detached"
    BY <1>1, Verdicts, Zenon
  <2>3. <<d>> \in Seq(Messages) /\ ToSet(<<d>>) = {d} /\ Send(<<d>>)
    BY <2>1, <2>2 DEF ToSet
  <2>4. PICK sent \in Seq(Messages) : sent = <<d>>
    BY <2>3
  <2>5. ToSet(sent) = {d} /\ Send(sent) /\ "Detached" \in Kinds(sent)
    BY <1>1, <2>2, <2>3, <2>4, KindsOf
  <2>6. NoGap' /\ VerdictFirst'
    BY <1>1, <2>1, <2>2, <2>5, EndKeepsOrder, VerdictStays
  <2>7. /\ toClient' \in Seq(Messages) /\ writing' \in BOOLEAN
        /\ ToSet(toClient') \subseteq ToSet(toClient) \cup {d}
    BY <1>1, <2>5, Sent
  <2>8. ConnectionTypes'
    BY <1>1, <2>1, <2>7 DEF ConnectionTypes
  <2>9. HistoryGiven' /\ (\A f : Agrees(f) => Agrees(f)')
    BY <1>1, <2>1 DEF HistoryGiven, Agrees
  <2>10. Agrees(d)
    <3>1. \A g \in ToSet(frame_history) : g.epoch # 0
      BY <1>1, EpochsAssumption DEF HistoryGiven, ConnectionTypes
    <3> QED BY <2>2, <3>1 DEF Agrees
  <2>11. Remembered'
    <3>1. \A f \in ToSet(toClient') \cup ToSet(toServer') \cup {screen', applied'} : Agrees(f)
      BY <1>1, <2>1, <2>7, <2>10 DEF Remembered
    <3>2. pending_mouse' # Absent => Agrees(pending_mouse)'
      BY <1>1, <2>1 DEF Remembered, Agrees
    <3> QED BY <2>9, <3>1, <3>2 DEF Remembered
  <2>12. AsksOnce' /\ HitRight'
    BY <1>1, <2>1 DEF AsksOnce, HitRight
  <2> QED BY <2>1, <2>6, <2>8, <2>9, <2>11, <2>12 DEF ConnectionInv
<1>5. CASE HandleSessionEnd
  <2>1. /\ registered /\ Forget /\ Send(<<Message("SessionClosed"), Message("Detached")>>)
        /\ UNCHANGED <<alive, view, toServer, cli>>
        /\ UNCHANGED <<screen, applied, main, reader>>
    BY <1>5 DEF HandleSessionEnd, cli, threads
  <2>2. PICK e, d \in Messages : /\ e = Message("SessionClosed") /\ d = Message("Detached")
                                 /\ e.epoch = 0 /\ d.epoch = 0
                                 /\ e.kind = "SessionClosed" /\ d.kind = "Detached"
    BY <1>1, Verdicts, Zenon
  <2>3. <<e, d>> \in Seq(Messages) /\ ToSet(<<e, d>>) = {e, d} /\ Send(<<e, d>>)
    BY <2>1, <2>2 DEF ToSet
  <2>4. PICK sent \in Seq(Messages) : sent = <<e, d>>
    BY <2>3
  <2>5. ToSet(sent) = {e, d} /\ Send(sent) /\ "Detached" \in Kinds(sent)
    BY <1>1, <2>2, <2>3, <2>4, KindsOf
  <2>6. \A m \in ToSet(sent) : m.kind # "FrameAt"
    BY <2>2, <2>5
  <2>7. NoGap' /\ VerdictFirst'
    BY <1>1, <2>1, <2>5, <2>6, EndKeepsOrder, VerdictStays
  <2>8. /\ toClient' \in Seq(Messages) /\ writing' \in BOOLEAN
        /\ ToSet(toClient') \subseteq ToSet(toClient) \cup {e, d}
    BY <1>1, <2>5, Sent
  <2>9. \A f \in ToSet(toClient') : f \in ToSet(toClient) \/ f.epoch = 0
    BY <2>2, <2>8
  <2>10. alive' \in BOOLEAN
    BY <1>1, <2>1 DEF ConnectionTypes
  <2> QED BY <2>1, <2>7, <2>8, <2>9, <2>10, ForgetKeeps
<1>6. CASE HandleGone
  <2>1. /\ main = "gone" /\ toServer = <<>> /\ Forget
        /\ UNCHANGED <<alive, view, writing, toClient, toServer, cli>>
        /\ UNCHANGED <<screen, main, reader>>
    BY <1>6 DEF HandleGone, cli, threads
  <2>2. NoGap' /\ VerdictFirst'
    BY <2>1 DEF NoGap, VerdictFirst
  <2>3. toClient' \in Seq(Messages) /\ writing' \in BOOLEAN /\ alive' \in BOOLEAN
    BY <1>1, <2>1 DEF ConnectionTypes
  <2> QED BY <2>1, <2>2, <2>3, ForgetKeeps
<1>7. CASE ServerDies
  <2>1. PICK n \in 0..Len(toClient) : toClient' = SubSeq(toClient, 1, n)
    BY <1>7 DEF ServerDies
  <2>2. /\ alive' = FALSE /\ Forget /\ toServer' = <<>>
        /\ UNCHANGED <<view, writing, cli>> /\ UNCHANGED <<screen, main, reader>>
    BY <1>7 DEF ServerDies, cli, threads
  <2>3. /\ toClient \in Seq(Messages) /\ Len(toClient) \in Nat /\ DOMAIN toClient = 1..Len(toClient)
        /\ n \in Nat /\ n <= Len(toClient)
    BY <1>1 DEF ConnectionTypes
  <2>4. /\ toClient' \in Seq(Messages) /\ DOMAIN toClient' = 1..n /\ Len(toClient') = n
        /\ \A i \in 1..n : toClient'[i] = toClient[i]
    BY <2>1, <2>3
  <2>5. ToSet(toClient') \subseteq ToSet(toClient)
    BY <2>3, <2>4 DEF ToSet
  <2>6. NoGap'
    <3>1. \A e : Follow(e, toClient) => Follow(e, toClient')
      BY <2>1, <2>3, FollowFront
    <3> QED BY <1>1, <2>2, <3>1 DEF NoGap, Forget
  <2>7. VerdictFirst'
    <3>1. toClient' # <<>> => toClient # <<>> /\ toClient'[1] = toClient[1]
      BY <2>3, <2>4
    <3> QED BY <1>1, <2>2, <3>1 DEF VerdictFirst, Forget
  <2>8. writing' \in BOOLEAN /\ alive' \in BOOLEAN
    BY <1>1, <2>2 DEF ConnectionTypes
  <2> QED BY <2>2, <2>4, <2>5, <2>6, <2>7, <2>8, ForgetKeeps
<1> QED BY <1>2, <1>3, <1>4, <1>5, <1>6, <1>7, AttachStep, InputStep DEF Server

LEMMA Input ==
  \A f \in Messages, kind \in {"Whole", "First", "Second"} :
    /\ [f EXCEPT !.kind = kind] \in Messages
    /\ [f EXCEPT !.kind = kind].epoch = f.epoch /\ [f EXCEPT !.kind = kind].view = f.view
    /\ [f EXCEPT !.kind = kind].kind = kind
BY DEF Messages, MessageKinds

\* Each frame that is written to the terminal follows the one before it.
NextFrame == screen' \notin {screen, NoFrame} => screen'.epoch = Succ(screen.epoch)

LEMMA ClientStep ==
  ASSUME ConnectionInv, Client
  PROVE  ConnectionInv' /\ NextFrame
<1>1. ConnectionTypes /\ Remembered /\ HitRight /\ NoGap /\ VerdictFirst /\ AsksOnce /\ HistoryGiven
  BY DEF ConnectionInv
<1>2. toClient \in Seq(Messages) /\ screen \in Messages /\ applied \in Messages
  BY <1>1 DEF ConnectionTypes
<1>3. toClient # <<>> =>
        /\ Rest(toClient) \in Seq(Messages) /\ ToSet(Rest(toClient)) \subseteq ToSet(toClient)
        /\ Head(toClient) = toClient[1] /\ toClient[1] \in ToSet(toClient)
  BY <1>2, RestOf
<1>4. <<>> \in Seq(Messages) /\ ToSet(<<>>) = {}
  BY DEF ToSet
<1>5. ASSUME Leave, toClient' = toClient \/ toClient' = <<>>, UNCHANGED <<srv, toServer, terminal, hits>>
      PROVE  ConnectionInv' /\ NextFrame
  <2>1. main' = "gone" /\ screen' = NoFrame /\ applied' = NoFrame
    BY <1>5 DEF Leave
  <2>2. NoGap' /\ VerdictFirst' /\ NextFrame
    BY <2>1 DEF NoGap, VerdictFirst, NextFrame
  <2>3. toClient' \in Seq(Messages) /\ ToSet(toClient') \subseteq ToSet(toClient)
    BY <1>2, <1>4, <1>5
  <2> QED BY <1>4, <1>5, <2>1, <2>2, <2>3, ClientKeeps
\* The steps that leave the queues and the frames as they are.
<1>6. ASSUME UNCHANGED <<srv, hits, toClient, toServer, screen>>,
             main' = main \/ main \in {"reading", "joining"}, main' # "verdict" \/ main = "verdict",
             main' # "gone" \/ main = "gone", reader' = reader \/ reader' = "stopped",
             applied' = applied
      PROVE  ConnectionInv' /\ NextFrame
  <2>1. registered' = registered /\ writing' = writing /\ next_frame_epoch' = next_frame_epoch
    BY <1>6 DEF srv, handle
  <2>2. NoGap' /\ VerdictFirst' /\ NextFrame
    BY <1>1, <1>6, <2>1 DEF NoGap, VerdictFirst, NextFrame
  <2> QED BY <1>2, <1>6, <2>2, ClientKeeps
<1>7. CASE MainStops \/ ResizerStops \/ TerminalCloses
  <2>1. /\ UNCHANGED <<srv, hits, toClient, toServer, screen, applied>> /\ reader' = reader
        /\ main' = main \/ (main = "reading" /\ main' = "joining")
    BY <1>7 DEF MainStops, ResizerStops, TerminalCloses, threads
  <2> QED BY <1>6, <2>1
<1>8. CASE MainEnds \/ ClientDies
  BY <1>5, <1>8 DEF MainEnds, ClientDies
<1>9. CASE TakeVerdict
  <2>1. UNCHANGED <<srv, toServer, terminal, hits>> /\ main = "verdict"
    BY <1>9 DEF TakeVerdict
  <2>2. CASE Leave /\ (toClient' = toClient \/ toClient' = <<>>)
    BY <1>5, <2>1, <2>2
  <2>3. CASE /\ toClient # <<>> /\ Head(toClient).kind = "Attached"
             /\ main' = "reading" /\ toClient' = Rest(toClient)
             /\ UNCHANGED <<reader, resizer>> /\ Stay
    <3>1. screen = NoFrame /\ toClient[1] \in {Message("Attached"), Message("Error")}
      BY <1>1, <2>1, <2>3 DEF VerdictFirst
    <3>2. toClient[1].epoch = 0 /\ screen.epoch = 0
      BY <3>1 DEF Message, NoFrame, Frame
    <3>3. UNCHANGED <<screen, applied, registered, writing, next_frame_epoch>>
      BY <2>1, <2>3 DEF Stay, srv, handle
    <3>4. NoGap'
      <4>1. Follow(screen.epoch, toClient) =>
              /\ Follow(screen.epoch, Rest(toClient))
              /\ LastOf(screen.epoch, Rest(toClient)) = LastOf(screen.epoch, toClient)
        BY <1>2, <2>3, <3>2, FollowRest
      <4> QED BY <1>1, <2>1, <2>3, <3>3, <4>1 DEF NoGap
    <3>5. VerdictFirst' /\ NextFrame
      BY <2>3, <3>3 DEF VerdictFirst, NextFrame
    <3> QED BY <1>3, <2>1, <2>3, <3>3, <3>4, <3>5, ClientKeeps
  <2>4. CASE toClient # <<>> /\ Head(toClient).kind \notin {"Attached", "Error"}
    <3>1. toClient[1] \in {Message("Attached"), Message("Error")}
      BY <1>1, <2>1, <2>4 DEF VerdictFirst
    <3> QED BY <1>3, <2>4, <3>1 DEF Message
  <2> QED BY <1>9, <2>2, <2>3, <2>4 DEF TakeVerdict
<1>10. CASE ReaderStops
  <2>1. /\ UNCHANGED <<srv, toServer, main, screen, applied, hits>> /\ reader' = "stopped"
        /\ main \in {"reading", "joining"}
        /\ toClient' = toClient \/ (toClient # <<>> /\ toClient' = Rest(toClient))
    BY <1>10 DEF ReaderStops
  <2>2. NoGap' /\ VerdictFirst' /\ NextFrame
    BY <2>1 DEF NoGap, VerdictFirst, NextFrame
  <2>3. /\ toClient' \in Seq(Messages) /\ ToSet(toClient') \subseteq ToSet(toClient)
        /\ toClient = <<>> => toClient' = <<>>
    BY <1>2, <1>3, <2>1
  <2> QED BY <2>1, <2>2, <2>3, ClientKeeps
<1>11. CASE ReaderWrites
  <2>1. /\ UNCHANGED <<srv, toServer, main, applied, hits>> /\ reader = "running" /\ reader' = "publishing"
        /\ main \in {"reading", "joining"} /\ toClient # <<>> /\ toClient' = Rest(toClient)
        /\ screen' = toClient[1] /\ toClient[1].kind = "FrameAt"
    BY <1>3, <1>11 DEF ReaderWrites
  <2>2. /\ Follow(toClient[1].epoch, Rest(toClient))
        /\ LastOf(toClient[1].epoch, Rest(toClient)) = LastOf(screen.epoch, toClient)
        /\ toClient[1].epoch = Succ(screen.epoch)
    BY <1>1, <1>2, <2>1, FollowRest DEF NoGap
  <2>3. registered' = registered /\ writing' = writing /\ next_frame_epoch' = next_frame_epoch
    BY <2>1 DEF srv, handle
  <2>4. NoGap' /\ VerdictFirst' /\ NextFrame
    BY <1>1, <2>1, <2>2, <2>3 DEF NoGap, VerdictFirst, NextFrame
  <2> QED BY <1>3, <2>1, <2>4, ClientKeeps
<1>12. CASE ReaderPublishes
  <2>1. /\ UNCHANGED <<srv, toServer, toClient, main, screen, hits>>
        /\ reader = "publishing" /\ applied' = screen /\ main \in {"reading", "joining"}
    BY <1>12 DEF ReaderPublishes
  <2>2. registered' = registered /\ writing' = writing /\ next_frame_epoch' = next_frame_epoch
    BY <2>1 DEF srv, handle
  <2>3. NoGap' /\ VerdictFirst' /\ NextFrame
    BY <1>1, <2>1, <2>2 DEF NoGap, VerdictFirst, NextFrame
  <2> QED BY <1>2, <2>1, <2>3, ClientKeeps
<1>13. CASE MainReads
  <2>1. /\ UNCHANGED <<srv, toClient, reader, screen, applied, hits>> /\ main = "reading"
    BY <1>13 DEF MainReads
  <2>2. CASE UNCHANGED toServer
    BY <1>6, <1>13, <2>1, <2>2 DEF MainReads
  <2>3. ASSUME NEW kind \in {"Whole", "First", "Second"},
               toServer' = Append(toServer, [applied EXCEPT !.kind = kind]), UNCHANGED main
        PROVE  ConnectionInv' /\ NextFrame
    <3>1. PICK m \in Messages : /\ m = [applied EXCEPT !.kind = kind]
                                /\ m.epoch = applied.epoch /\ m.view = applied.view /\ m.kind = kind
      BY <1>2, Input, Zenon
    <3>2. Agrees(m) /\ m.kind # "Attach" /\ m \in Messages
      BY <1>1, <2>3, <3>1 DEF Remembered, Agrees
    <3>3. toServer' = Append(toServer, m)
      BY <2>3, <3>1
    <3>4. registered' = registered /\ writing' = writing /\ next_frame_epoch' = next_frame_epoch
      BY <2>1 DEF srv, handle
    <3>5. NoGap' /\ VerdictFirst' /\ NextFrame
      BY <1>1, <2>1, <2>3, <3>4 DEF NoGap, VerdictFirst, NextFrame
    <3> QED BY <1>2, <2>1, <2>3, <3>2, <3>3, <3>5, ClientKeeps
  <2> QED BY <1>13, <2>2, <2>3 DEF MainReads
<1>14. CASE ResizerSends
  <2>1. /\ UNCHANGED <<srv, toClient, main, reader, screen, applied, hits>>
        /\ main \in {"reading", "joining"}
    BY <1>14 DEF ResizerSends
  <2>2. CASE UNCHANGED toServer
    BY <1>6, <2>1, <2>2
  <2>3. CASE toServer' = Append(toServer, Message("Resize"))
    <3>1. PICK m \in Messages : m = Message("Resize") /\ m.kind # "Attach" /\ m.epoch = 0
      <4>1. view \in Views
        BY <1>1 DEF ConnectionTypes
      <4>2. Message("Resize") \in Messages
        BY <1>1, <4>1, FrameTypes DEF MessageKinds
      <4> QED BY <4>2 DEF Message
    <3>2. Agrees(m)
      <4>1. \A g \in ToSet(frame_history) : g.epoch # 0
        BY <1>1, EpochsAssumption DEF HistoryGiven, ConnectionTypes
      <4> QED BY <3>1, <4>1 DEF Agrees
    <3>3. registered' = registered /\ writing' = writing /\ next_frame_epoch' = next_frame_epoch
      BY <2>1 DEF srv, handle
    <3>4. NoGap' /\ VerdictFirst' /\ NextFrame
      BY <1>1, <2>1, <3>3 DEF NoGap, VerdictFirst, NextFrame
    <3>5. m \in Messages /\ m.kind # "Attach" /\ toServer' = Append(toServer, m)
      BY <2>3, <3>1
    <3> QED BY <1>2, <2>1, <3>2, <3>4, <3>5, ClientKeeps
  <2> QED BY <1>14, <2>2, <2>3 DEF ResizerSends
<1> QED BY <1>7, <1>8, <1>9, <1>10, <1>11, <1>12, <1>13, <1>14 DEF Client

LEMMA ConnectionStart == AttachInit => ConnectionInv
<1> SUFFICES ASSUME AttachInit PROVE ConnectionInv
  OBVIOUS
<1>1. view \in Views
  BY DEF AttachInit
<1>2. /\ NoFrame \in [kind : MessageKinds, epoch : 0..LastEpoch, view : Views \cup {Absent}]
      /\ Message("Attach") \in [kind : MessageKinds, epoch : 0..LastEpoch, view : Views \cup {Absent}]
      /\ 1 \in 1..LastEpoch
  BY EpochsAssumption DEF NoFrame, Frame, Message, MessageKinds
<1>3. PICK m \in Messages : m = Message("Attach")
  BY <1>2 DEF Messages
<1>4. <<m>> \in Seq(Messages) /\ <<>> \in Seq(Messages)
  OBVIOUS
<1>5. ConnectionTypes
  BY <1>1, <1>2, <1>3, <1>4 DEF AttachInit, ConnectionTypes, Messages
<1>6. frame_history = <<>> /\ ToSet(frame_history) = {}
  BY DEF AttachInit, ToSet
<1>7. HistoryGiven /\ Remembered /\ HitRight
  BY <1>6 DEF HistoryGiven, Remembered, Agrees, HitRight, AttachInit
<1>8. AsksOnce /\ VerdictFirst /\ NoGap
  BY DEF AsksOnce, VerdictFirst, NoGap, AttachInit, Follow
<1> QED BY <1>5, <1>7, <1>8 DEF ConnectionInv

LEMMA ConnectionStep ==
  ASSUME ConnectionInv, [AttachNext]_attachVars
  PROVE  ConnectionInv' /\ NextFrame
<1>1. CASE Server
  BY <1>1, ServerStep DEF NextFrame
<1>2. CASE Client
  BY <1>2, ClientStep
<1>3. CASE UNCHANGED attachVars
  <2>1. UNCHANGED <<alive, registered, view, next_frame_epoch, frame_history, pending_mouse, writing,
                    toClient, toServer, main, reader, screen, applied, hits>>
    BY <1>3 DEF attachVars, srv, handle, cli, threads
  <2>2. ConnectionTypes' /\ HistoryGiven' /\ Remembered' /\ HitRight'
    BY <2>1 DEF ConnectionInv, ConnectionTypes, HistoryGiven, Remembered, Agrees, HitRight
  <2>3. AsksOnce' /\ VerdictFirst' /\ NoGap'
    BY <2>1 DEF ConnectionInv, AsksOnce, VerdictFirst, NoGap
  <2> QED BY <2>1, <2>2, <2>3 DEF ConnectionInv, NextFrame
<1> QED BY <1>1, <1>2, <1>3 DEF AttachNext

\* The invariant of the connection: an epoch names one frame in every place it
\* has come to, and the frames on their way follow the one on the screen.
THEOREM ConnectionInvariant == AttachSpec => []ConnectionInv
<1>1. ConnectionInv /\ [AttachNext]_attachVars => ConnectionInv'
  BY ConnectionStep
<1> QED BY <1>1, ConnectionStart, PTL DEF AttachSpec

\* A mouse report acts on the frame it was meant for or on none, and the client
\* writes every frame, in order, for any history, any number of epochs and of
\* messages under way.
THEOREM ClicksAlwaysHitWhatWasSeen == AttachSpec => ClicksHitWhatWasSeen
<1>1. ConnectionInv => (hits = NoFrame \/ hits.got \in {hits.meant, Absent})
  BY DEF ConnectionInv, HitRight
<1>2. ConnectionInv /\ [AttachNext]_attachVars
        => [screen' \notin {screen, NoFrame} =>
              screen'.epoch = IF screen.epoch = LastEpoch THEN 1 ELSE screen.epoch + 1]_attachVars
  BY ConnectionStep DEF NextFrame, Succ
<1> QED BY <1>1, <1>2, ConnectionInvariant, PTL DEF AttachSpec, ClicksHitWhatWasSeen

-----------------------------------------------------------------------------
(* The lists                                                               *)

ClientTypes ==
  /\ clients = [c \in Clients |-> clients[c]]
  /\ \A c \in Clients : clients[c] # Nil =>
       clients[c] = [session |-> clients[c].session, height |-> clients[c].height]

ModalTypes ==
  /\ choosing = [c \in Clients |-> choosing[c]]
  /\ choosing_buffer = [c \in Clients |-> choosing_buffer[c]]

ListTypes ==
  ClientTypes /\ ModalTypes /\ sidebar_scroll = [c \in Clients |-> sidebar_scroll[c]]

\* The offsets that are stored are those that are drawn.
StoredIsShown ==
  \A c \in Attached :
    /\ sidebar_scroll[c].sessions = ShownSessions(c)
    /\ sidebar_scroll[c].agents = ShownAgents(c)

ListInv == ListTypes /\ DrawnIsCurrent /\ StoredIsShown

\* A client of whose screen nothing changes.
Spared(c) ==
  /\ clients'[c] = clients[c] /\ choosing'[c] = choosing[c]
  /\ choosing_buffer'[c] = choosing_buffer[c]
  /\ rows' = rows /\ agents' = agents
  /\ EffectiveRows(clients[c].session)' = EffectiveRows(clients[c].session)
  /\ buffers' = buffers \/ (choosing_buffer[c] # Nil => c \in elsewhere')
  /\ c \in elsewhere => c \in elsewhere'

LEMMA LesserOnce == \A i, j : Lesser(Lesser(i, j), j) = Lesser(i, j)
BY DEF Lesser

\* The sidebar depends on the lists, the offsets and the smallest terminal.
LEMMA SparedSidebar ==
  ASSUME NEW c \in Clients, Spared(c), sidebar_scroll'[c] = sidebar_scroll[c]
  PROVE  /\ MaxSessionsOffset(c)' = MaxSessionsOffset(c)
         /\ MaxAgentsOffset(c)' = MaxAgentsOffset(c)
         /\ SidebarProjection(c)' = SidebarProjection(c)
<1>1. SessionOf(c)' = SessionOf(c) /\ EffectiveRows(SessionOf(c))' = EffectiveRows(SessionOf(c))
  BY DEF Spared, SessionOf
<1>2. SessionsHeight(c)' = SessionsHeight(c) /\ AgentsHeight(c)' = AgentsHeight(c)
  BY <1>1 DEF SessionsHeight, AgentsHeight
<1>3. Sessions' = Sessions /\ agents' = agents /\ rows' = rows
  BY DEF Spared, Sessions
<1>4. MaxSessionsOffset(c)' = MaxSessionsOffset(c) /\ MaxAgentsOffset(c)' = MaxAgentsOffset(c)
  BY <1>2, <1>3 DEF MaxSessionsOffset, MaxAgentsOffset
<1>5. ShownSessions(c)' = ShownSessions(c) /\ ShownAgents(c)' = ShownAgents(c)
  BY <1>4 DEF ShownSessions, ShownAgents
<1>6. SessionEntries' = SessionEntries /\ AgentEntries' = AgentEntries
  BY <1>3 DEF SessionEntries, AgentEntries
<1> QED BY <1>2, <1>4, <1>5, <1>6 DEF SidebarProjection

\* Who is not drawn has the view he had, or has it on record that he is behind.
LEMMA SparedView ==
  ASSUME NEW c \in Clients, Spared(c), sidebar_scroll'[c] = sidebar_scroll[c]
  PROVE  View(c)' = View(c) \/ (choosing_buffer[c] # Nil /\ c \in elsewhere')
<1>1. CASE choosing[c] # Nil
  <2>1. choosing'[c] = choosing[c] /\ rows' = rows
    BY DEF Spared
  <2>2. \A expanded : TreeRows(expanded)' = TreeRows(expanded)
    BY <2>1 DEF TreeRows
  <2>3. CursorIn(choosing[c])' = CursorIn(choosing[c])
    BY <2>1, <2>2 DEF CursorIn
  <2> QED BY <1>1, <2>1, <2>2, <2>3 DEF View
<1>2. CASE choosing[c] = Nil /\ choosing_buffer[c] # Nil
  BY <1>2 DEF Spared, View
<1>3. CASE choosing[c] = Nil /\ choosing_buffer[c] = Nil
  BY <1>3, SparedSidebar DEF Spared, View
<1> QED BY <1>1, <1>2, <1>3

\* The end of a message: whoever is not drawn was spared.
LEMMA DrawKeeps ==
  ASSUME ListInv, NEW who, NEW scroll, Draw(who, scroll),
         \A c \in Clients : c \notin who /\ clients'[c] # Nil =>
           Spared(c) /\ scroll[c] = sidebar_scroll[c],
         ClientTypes', ModalTypes'
  PROVE  ListInv'
<1>1. sidebar_scroll' = [c \in Clients |->
          IF c \notin who \/ clients'[c] = Nil THEN scroll[c]
          ELSE [sessions |-> Lesser(scroll[c].sessions, MaxSessionsOffset(c)'),
                agents   |-> Lesser(scroll[c].agents, MaxAgentsOffset(c)')]]
  BY DEF Draw
<1>2. drawn' = [c \in Clients |-> IF clients'[c] = Nil THEN Nil
                                  ELSE IF c \in who THEN View(c)' ELSE drawn[c]]
  BY DEF Draw
<1>3. ListTypes'
  BY <1>1 DEF ListTypes
<1>4. ASSUME NEW c \in Clients, clients'[c] # Nil
      PROVE  /\ drawn'[c] = View(c)' \/ (c \in elsewhere' /\ choosing_buffer'[c] # Nil)
             /\ sidebar_scroll'[c].sessions = ShownSessions(c)'
             /\ sidebar_scroll'[c].agents = ShownAgents(c)'
  <2>1. CASE c \in who
    <3>1. drawn'[c] = View(c)'
      BY <1>2, <1>4, <2>1
    <3>2. /\ sidebar_scroll'[c].sessions = Lesser(scroll[c].sessions, MaxSessionsOffset(c)')
          /\ sidebar_scroll'[c].agents = Lesser(scroll[c].agents, MaxAgentsOffset(c)')
      BY <1>1, <1>4, <2>1
    <3> QED BY <3>1, <3>2, LesserOnce DEF ShownSessions, ShownAgents
  <2>2. CASE c \notin who
    <3>1. Spared(c) /\ sidebar_scroll'[c] = sidebar_scroll[c] /\ drawn'[c] = drawn[c]
      BY <1>1, <1>2, <1>4, <2>2
    <3>2. /\ clients[c] # Nil /\ choosing_buffer'[c] = choosing_buffer[c]
          /\ c \in elsewhere => c \in elsewhere'
      BY <1>4, <3>1 DEF Spared
    <3>3. /\ drawn[c] = View(c) \/ (c \in elsewhere /\ choosing_buffer[c] # Nil)
          /\ sidebar_scroll[c].sessions = ShownSessions(c)
          /\ sidebar_scroll[c].agents = ShownAgents(c)
      BY <3>2 DEF ListInv, DrawnIsCurrent, StoredIsShown, Attached
    <3>4. ShownSessions(c)' = ShownSessions(c) /\ ShownAgents(c)' = ShownAgents(c)
      BY <3>1, SparedSidebar DEF ShownSessions, ShownAgents
    <3>5. View(c)' = View(c) \/ (choosing_buffer[c] # Nil /\ c \in elsewhere')
      BY <3>1, SparedView
    <3> QED BY <3>1, <3>2, <3>3, <3>4, <3>5
  <2> QED BY <2>1, <2>2
<1> QED BY <1>3, <1>4 DEF ListInv, DrawnIsCurrent, StoredIsShown, Attached

\* Sessions that a client is neither in before the step nor after it.
LEMMA Aside ==
  ASSUME NEW c, NEW s,
         \A e \in Clients : e # c => clients'[e] = clients[e],
         c \notin SessionClients(s), c \notin SessionClients(s)'
  PROVE  SessionClients(s)' = SessionClients(s) /\ EffectiveRows(s)' = EffectiveRows(s)
<1>1. SessionClients(s)' = SessionClients(s)
  BY DEF SessionClients
<1>2. \A e \in SessionClients(s) : clients'[e] = clients[e]
  BY DEF SessionClients
<1>3. {clients[e].height : e \in SessionClients(s)}' = {clients[e].height : e \in SessionClients(s)}
  BY <1>1, <1>2
<1> QED BY <1>1, <1>3 DEF EffectiveRows

\* Of a session's clients when no client changes.
LEMMA NobodyMoves ==
  ASSUME clients' = clients, NEW s
  PROVE  SessionClients(s)' = SessionClients(s) /\ EffectiveRows(s)' = EffectiveRows(s)
BY DEF SessionClients, EffectiveRows

\* A message that draws everyone.
LEMMA AllDrawn ==
  ASSUME ListInv, NEW scroll, DrawAll(scroll),
         ClientTypes', ModalTypes'
  PROVE  ListInv'
<1>1. Draw(Clients, scroll)
  BY DEF DrawAll
<1> QED BY <1>1, DrawKeeps

\* A message that draws one session and changes nothing that others show, the
\* stack of buffers excepted.
LEMMA SessionShown ==
  ASSUME ListInv, NEW s, NEW scroll,
         clients' = clients, rows' = rows, agents' = agents,
         \A d \in Clients \ SessionClients(s) : /\ choosing'[d] = choosing[d]
                                                /\ choosing_buffer'[d] = choosing_buffer[d]
                                                /\ scroll[d] = sidebar_scroll[d],
         ModalTypes',
         Draw(SessionClients(s), scroll),
         \/ buffers' = buffers /\ elsewhere' = elsewhere \ SessionClients(s)
         \/ elsewhere' = (elsewhere \cup {d \in Attached : choosing_buffer[d] # Nil})
                            \ SessionClients(s)
  PROVE  ListInv'
<1>1. ASSUME NEW d \in Clients, d \notin SessionClients(s), clients'[d] # Nil
      PROVE  Spared(d) /\ scroll[d] = sidebar_scroll[d]
  <2>1. clients'[d] = clients[d] /\ d \in Attached
    BY <1>1 DEF Attached
  <2>2. EffectiveRows(clients[d].session)' = EffectiveRows(clients[d].session)
    BY <2>1, NobodyMoves
  <2> QED BY <1>1, <2>1, <2>2 DEF Spared
<1>2. ClientTypes'
  BY DEF ListInv, ListTypes, ClientTypes
<1> QED BY <1>1, <1>2, DrawKeeps

\* A message that changes what one client shows and draws his session.
LEMMA SessionDrawn ==
  ASSUME ListInv, NEW c \in Attached, NEW scroll,
         clients' = clients, rows' = rows, agents' = agents,
         \A d \in Clients : d # c => /\ choosing'[d] = choosing[d]
                                     /\ choosing_buffer'[d] = choosing_buffer[d]
                                     /\ scroll[d] = sidebar_scroll[d],
         ModalTypes',
         Draw(SessionClients(SessionOf(c)), scroll),
         \/ buffers' = buffers /\ elsewhere' = elsewhere \ SessionClients(SessionOf(c))
         \/ elsewhere' = (elsewhere \cup {d \in Attached : choosing_buffer[d] # Nil})
                            \ SessionClients(SessionOf(c))
  PROVE  ListInv'
<1>1. c \in SessionClients(SessionOf(c))
  BY DEF Attached, SessionClients, SessionOf
<1> QED BY <1>1, SessionShown

-----------------------------------------------------------------------------
(* Clients and sessions.                                                   *)

\* A client that attaches, or that is moved to another session.
LEMMA Coming ==
  ASSUME ClientTypes, NEW c \in Clients, NEW s, NEW height,
         clients' = [clients EXCEPT ![c] = [session |-> s, height |-> height]]
  PROVE  ClientTypes'
BY DEF ClientTypes

LEMMA Moving ==
  ASSUME ClientTypes, NEW c \in Attached, NEW s, clients' = [clients EXCEPT ![c].session = s]
  PROVE  ClientTypes'
BY DEF ClientTypes, Attached

LEMMA Leaving ==
  ASSUME ListTypes, NEW gone, Unregister(gone)
  PROVE  ClientTypes' /\ ModalTypes'
BY DEF ListTypes, ClientTypes, ModalTypes, Unregister

LEMMA Staying == ASSUME ListInv PROVE /\ UNCHANGED clients => ClientTypes'
                                   /\ UNCHANGED modalVars => ModalTypes'
BY DEF ListInv, ListTypes, ClientTypes, ModalTypes, modalVars

LEMMA Typed == ListInv => ListTypes /\ ClientTypes /\ ModalTypes
BY DEF ListInv, ListTypes

LEMMA AttachNewKeeps ==
  ASSUME ListInv, NEW c \in Clients, NEW height, AttachNew(c, height)
  PROVE  ListInv'
<1>1. ClientTypes' /\ ModalTypes'
  BY Typed, Coming, Staying DEF AttachNew
<1> QED BY <1>1, AllDrawn DEF AttachNew

LEMMA MoveKeeps ==
  ASSUME ListInv, NEW c \in Attached, NEW s, MoveClient(c, s), ModalTypes'
  PROVE  ListInv'
<1>1. ClientTypes'
  BY Typed, Moving DEF MoveClient
<1> QED BY <1>1, AllDrawn DEF MoveClient

LEMMA CreateSessionKeeps ==
  ASSUME ListInv, NEW c \in Attached, NEW detached, CreateSession(c, detached)
  PROVE  ListInv'
<1>1. ModalTypes'
  BY Typed DEF CreateSession, ModalTypes, modalVars
<1>2. CASE detached
  <2>1. UNCHANGED clients /\ DrawAll(sidebar_scroll)
    BY <1>2 DEF CreateSession
  <2>2. ClientTypes'
    BY <2>1, Typed DEF ClientTypes
  <2> QED BY <1>1, <2>1, <2>2, AllDrawn
<1>3. CASE ~ detached
  BY <1>1, <1>3, MoveKeeps DEF CreateSession
<1> QED BY <1>2, <1>3

LEMMA SwitchKeeps ==
  ASSUME ListInv, NEW c \in Attached, NEW s, SwitchClient(c, s)
  PROVE  ListInv'
<1>1. ModalTypes'
  BY Typed DEF SwitchClient, ModalTypes, modalVars
<1> QED BY <1>1, MoveKeeps DEF SwitchClient

LEMMA CloseSessionKeeps ==
  ASSUME ListInv, NEW s, CloseSession(s)
  PROVE  ListInv'
<1>1. Unregister(SessionClients(s)) /\ DrawAll(ScrollWithout(SessionClients(s)))
  BY DEF CloseSession, SessionEnds
<1>2. ClientTypes' /\ ModalTypes'
  BY <1>1, Typed, Leaving
<1> QED BY <1>1, <1>2, AllDrawn

\* Of the lists only, for everyone.
LEMMA ListsKeep ==
  ASSUME ListInv, UNCHANGED <<clients, modalVars>>, DrawAll(sidebar_scroll)
  PROVE  ListInv'
<1>1. ClientTypes' /\ ModalTypes'
  BY Typed DEF ClientTypes, ModalTypes, modalVars
<1> QED BY <1>1, AllDrawn

LEMMA CloseWindowKeeps ==
  ASSUME ListInv, NEW s, NEW w, CloseWindow(s, w)
  PROVE  ListInv'
BY ListsKeep, CloseSessionKeeps DEF CloseWindow

\* A client of a session that is there: the others of it are drawn with him.
LEMMA AttachToKeeps ==
  ASSUME ListInv, NEW c \in Clients, NEW s, NEW height, AttachTo(c, s, height)
  PROVE  ListInv'
<1>1. ClientTypes' /\ ModalTypes'
  BY Typed, Coming, Staying DEF AttachTo
<1>2. /\ clients[c] = Nil /\ clients'[c].session = s
      /\ \A e \in Clients : e # c => clients'[e] = clients[e]
  BY Typed DEF AttachTo, ClientTypes, Attached
<1>3. ASSUME NEW d \in Clients, d \notin SessionClients(s)', clients'[d] # Nil
      PROVE  Spared(d) /\ Revealing(c)[d] = sidebar_scroll[d]
  <2>1. d # c
    BY <1>1, <1>2, <1>3 DEF SessionClients, AttachTo, ClientTypes
  <2>2. clients'[d] = clients[d] /\ clients[d].session # s
    BY <1>2, <1>3, <2>1 DEF SessionClients
  <2>3. /\ c \notin SessionClients(clients[d].session)
        /\ c \notin SessionClients(clients[d].session)'
    BY <1>2, <2>2 DEF SessionClients
  <2>4. EffectiveRows(clients[d].session)' = EffectiveRows(clients[d].session)
    BY <1>2, <2>2, <2>3, Aside
  <2>5. Revealing(c)[d] = sidebar_scroll[d]
    BY <2>1, Typed DEF Revealing, ListTypes
  <2> QED BY <1>3, <2>2, <2>4, <2>5 DEF Spared, AttachTo, modelVars, modalVars
<1> QED BY <1>1, <1>3, DrawKeeps DEF AttachTo

LEMMA ClientGoneKeeps ==
  ASSUME ListInv, NEW c \in Attached, HandleClientGone(c)
  PROVE  ListInv'
<1>1. ClientTypes' /\ ModalTypes'
  BY Typed, Leaving DEF HandleClientGone
<1>2. /\ clients'[c] = Nil
      /\ \A e \in Clients : e # c => /\ clients'[e] = clients[e]
                                     /\ choosing'[e] = choosing[e]
                                     /\ choosing_buffer'[e] = choosing_buffer[e]
                                     /\ ScrollWithout({c})[e] = sidebar_scroll[e]
  BY DEF HandleClientGone, Unregister, ScrollWithout, Attached
<1>3. Draw(SessionClients(SessionOf(c)) \ {c}, ScrollWithout({c}))
  BY DEF HandleClientGone
<1>4. ASSUME NEW d \in Clients, d \notin SessionClients(SessionOf(c)) \ {c}, clients'[d] # Nil
      PROVE  Spared(d) /\ ScrollWithout({c})[d] = sidebar_scroll[d]
  <2>1. d # c
    BY <1>2, <1>4
  <2>2. clients'[d] = clients[d] /\ clients[d].session # SessionOf(c)
    BY <1>2, <1>4, <2>1 DEF SessionClients
  <2>3. /\ c \notin SessionClients(clients[d].session)
        /\ c \notin SessionClients(clients[d].session)'
    BY <1>2, <2>2 DEF SessionClients, SessionOf
  <2>4. EffectiveRows(clients[d].session)' = EffectiveRows(clients[d].session)
    BY <1>2, <2>2, <2>3, Aside
  <2>5. d \notin SessionClients(SessionOf(c))
    BY <1>4, <2>1
  <2> QED BY <1>2, <2>1, <2>2, <2>4, <2>5 DEF Spared, HandleClientGone, modelVars
<1> QED BY <1>1, <1>3, <1>4, DrawKeeps

LEMMA ClientResizeKeeps ==
  ASSUME ListInv, NEW c \in Attached, NEW height, HandleClientResize(c, height)
  PROVE  ListInv'
<1>1. ClientTypes' /\ ModalTypes'
  BY Typed, Staying DEF HandleClientResize, ClientTypes, Attached
<1>2. /\ SessionOf(c)' = SessionOf(c)
      /\ \A e \in Clients : e # c => clients'[e] = clients[e]
  BY Typed DEF HandleClientResize, ClientTypes, Attached, SessionOf
<1>3. Draw(SessionClients(SessionOf(c))', sidebar_scroll)
  BY DEF HandleClientResize, DrawSession
<1>4. ASSUME NEW d \in Clients, d \notin SessionClients(SessionOf(c))', clients'[d] # Nil
      PROVE  Spared(d)
  <2>1. d # c
    BY <1>2, <1>4 DEF SessionClients, SessionOf
  <2>2. clients'[d] = clients[d] /\ clients[d].session # SessionOf(c)
    BY <1>2, <1>4, <2>1 DEF SessionClients
  <2>3. /\ c \notin SessionClients(clients[d].session)
        /\ c \notin SessionClients(clients[d].session)'
    BY <1>2, <2>2 DEF SessionClients, SessionOf
  <2>4. EffectiveRows(clients[d].session)' = EffectiveRows(clients[d].session)
    BY <1>2, <2>2, <2>3, Aside
  <2> QED BY <1>4, <2>2, <2>4 DEF Spared, HandleClientResize, DrawSession, modelVars, modalVars
<1> QED BY <1>1, <1>3, <1>4, DrawKeeps

-----------------------------------------------------------------------------
(* What one client shows, and what all share.                              *)

LEMMA ScrollKeeps ==
  ASSUME ListInv, NEW c \in Attached, NEW section, NEW up, ScrollSidebar(c, section, up)
  PROVE  ListInv'
<1>1. PICK offset :
        Draw(SessionClients(SessionOf(c)), [sidebar_scroll EXCEPT ![c][section] = offset])
  BY DEF ScrollSidebar
<1>2. /\ UNCHANGED <<rows, agents, clients, buffers, choosing, choosing_buffer>>
      /\ elsewhere' = elsewhere \ SessionClients(SessionOf(c))
  BY DEF ScrollSidebar, modelVars, modalVars
<1>3. \A d \in Clients : d # c =>
        [sidebar_scroll EXCEPT ![c][section] = offset][d] = sidebar_scroll[d]
  BY Typed DEF ListTypes
<1>4. ModalTypes'
  BY <1>2, Typed DEF ModalTypes
<1> QED BY <1>1, <1>2, <1>3, <1>4, SessionDrawn

LEMMA SetTreeKeeps ==
  ASSUME ListInv, NEW c \in Attached, NEW tree, SetTree(c, tree)
  PROVE  ListInv'
<1>1. /\ UNCHANGED <<rows, agents, clients, buffers, choosing_buffer>>
      /\ SessionOf(c)' = SessionOf(c)
  BY DEF SetTree, modelVars, SessionOf
<1>2. SessionClients(SessionOf(c))' = SessionClients(SessionOf(c))
  BY <1>1 DEF SessionClients
<1>3. /\ Draw(SessionClients(SessionOf(c)), sidebar_scroll)
      /\ elsewhere' = elsewhere \ SessionClients(SessionOf(c))
  BY <1>1, <1>2 DEF SetTree, DrawSession
<1>4. ModalTypes' /\ \A d \in Clients : d # c => choosing'[d] = choosing[d]
  BY <1>1, Typed DEF SetTree, ModalTypes
<1> QED BY <1>1, <1>3, <1>4, SessionDrawn

LEMMA SetChosenKeeps ==
  ASSUME ListInv, NEW c \in Attached, NEW at, SetChosen(c, at)
  PROVE  ListInv'
<1>1. /\ UNCHANGED <<rows, agents, clients, buffers, choosing>>
      /\ SessionOf(c)' = SessionOf(c)
  BY DEF SetChosen, modelVars, SessionOf
<1>2. SessionClients(SessionOf(c))' = SessionClients(SessionOf(c))
  BY <1>1 DEF SessionClients
<1>3. /\ Draw(SessionClients(SessionOf(c)), sidebar_scroll)
      /\ elsewhere' = elsewhere \ SessionClients(SessionOf(c))
  BY <1>1, <1>2 DEF SetChosen, DrawSession
<1>4. ModalTypes' /\ \A d \in Clients : d # c => choosing_buffer'[d] = choosing_buffer[d]
  BY <1>1, Typed DEF SetChosen, ModalTypes
<1> QED BY <1>1, <1>3, <1>4, SessionDrawn

LEMMA SetBuffersKeeps ==
  ASSUME ListInv, NEW s, NEW stack, SetBuffers(s, stack)
  PROVE  ListInv'
<1>1. /\ UNCHANGED <<rows, agents, clients, choosing, choosing_buffer>>
      /\ Draw(SessionClients(s), sidebar_scroll)
      /\ elsewhere' = (elsewhere \cup {d \in Attached : choosing_buffer[d] # Nil})
                        \ SessionClients(s)
  BY DEF SetBuffers, modelVars, modalVars
<1>2. ModalTypes'
  BY <1>1, Typed DEF ModalTypes
<1> QED BY <1>1, <1>2, SessionShown

LEMMA PaneOutputKeeps ==
  ASSUME ListInv, NEW s, PaneOutput(s)
  PROVE  ListInv'
<1>1. UNCHANGED <<rows, agents, clients, buffers, choosing, choosing_buffer>>
  BY DEF PaneOutput, modelVars, modalVars
<1>2. SessionClients(s)' = SessionClients(s)
  BY <1>1 DEF SessionClients
<1>3. /\ Draw(SessionClients(s), sidebar_scroll)
      /\ elsewhere' = elsewhere \ SessionClients(s)
  BY <1>2 DEF PaneOutput, DrawSession
<1>4. ModalTypes'
  BY <1>1, Typed DEF ModalTypes
<1> QED BY <1>1, <1>3, <1>4, SessionShown

LEMMA BufferChooserDeleteKeeps ==
  ASSUME ListInv, NEW c \in Attached, BufferChooserDelete(c)
  PROVE  ListInv'
<1>1. /\ UNCHANGED <<rows, agents, clients, choosing>>
      /\ Draw(SessionClients(SessionOf(c)), sidebar_scroll)
      /\ elsewhere' = (elsewhere \cup {d \in Attached : choosing_buffer[d] # Nil})
                        \ SessionClients(SessionOf(c))
  BY DEF BufferChooserDelete, modelVars
<1>2. PICK at : choosing_buffer' = [choosing_buffer EXCEPT ![c] = at]
  BY DEF BufferChooserDelete
<1>3. ModalTypes' /\ \A d \in Clients : d # c => choosing_buffer'[d] = choosing_buffer[d]
  BY <1>1, <1>2, Typed DEF ModalTypes
<1> QED BY <1>1, <1>3, SessionDrawn

LEMMA ConfirmKeeps ==
  ASSUME ListInv, NEW c \in Attached, ChooserConfirm(c)
  PROVE  ListInv'
<1>1. CASE CursorRow(c).session = SessionOf(c)
  <2>1. SetTree(c, Nil)
    BY <1>1 DEF ChooserConfirm, SetTree
  <2> QED BY <2>1, SetTreeKeeps
<1>2. CASE CursorRow(c).session # SessionOf(c)
  <2>1. ModalTypes' /\ MoveClient(c, CursorRow(c).session)
    BY <1>2, Typed DEF ChooserConfirm, ModalTypes
  <2> QED BY <2>1, MoveKeeps
<1> QED BY <1>1, <1>2

\* Nothing happens.
LEMMA ListStays == ListInv /\ UNCHANGED listVars => ListInv'
<1> SUFFICES ASSUME ListInv, UNCHANGED listVars PROVE ListInv'
  OBVIOUS
<1>1. /\ UNCHANGED <<rows, agents, clients, buffers, choosing, choosing_buffer>>
      /\ UNCHANGED <<sidebar_scroll, drawn, elsewhere>>
  BY DEF listVars
<1>2. ListTypes' /\ Attached' = Attached
  BY <1>1, Typed DEF ListTypes, ClientTypes, ModalTypes, Attached
<1>3. \A c \in Clients : Spared(c)
  BY <1>1 DEF Spared, EffectiveRows, SessionClients
<1>4. \A c \in Clients : /\ ShownSessions(c)' = ShownSessions(c)
                         /\ ShownAgents(c)' = ShownAgents(c)
  BY <1>1, <1>3, SparedSidebar DEF ShownSessions, ShownAgents
<1>5. StoredIsShown'
  BY <1>1, <1>2, <1>4 DEF StoredIsShown, ListInv, Attached
<1>6. DrawnIsCurrent'
  BY <1>1, <1>2, <1>3, SparedView DEF DrawnIsCurrent, ListInv, Attached
<1> QED BY <1>2, <1>5, <1>6 DEF ListInv

LEMMA ListStart == ListInit => ListInv
BY DEF ListInit, ListInv, ListTypes, ClientTypes, ModalTypes, DrawnIsCurrent, StoredIsShown, Attached

LEMMA ListStep == ListInv /\ [ListNext]_listVars => ListInv'
<1> SUFFICES ASSUME ListInv, [ListNext]_listVars PROVE ListInv'
  OBVIOUS
<1>1. ASSUME NEW c \in Clients, NEW height \in Heights,
             \/ AttachNew(c, height)
             \/ \E s \in Sessions : AttachTo(c, s, height)
             \/ c \in Attached /\ HandleClientResize(c, height)
      PROVE  ListInv'
  BY <1>1, AttachNewKeeps, AttachToKeeps, ClientResizeKeeps
<1>2. ASSUME NEW c \in Attached,
             \/ HandleClientGone(c) \/ SidebarClick(c)
             \/ \E detached \in BOOLEAN : CreateSession(c, detached)
             \/ \E section \in {"sessions", "agents"}, up \in BOOLEAN :
                  ScrollSidebar(c, section, up)
      PROVE  ListInv'
  <2>1. CASE SidebarClick(c)
    BY <2>1, SwitchKeeps DEF SidebarClick
  <2> QED BY <1>2, <2>1, ClientGoneKeeps, CreateSessionKeeps, ScrollKeeps
<1>3. ASSUME NEW c \in Attached,
             \/ OpenChooser(c) \/ ChooserExpand(c) \/ ChooserCollapse(c)
             \/ ChooserConfirm(c) \/ ChooserCancel(c)
             \/ \E up \in BOOLEAN : ChooserMove(c, up)
             \/ \E s \in Sessions : SwitchClient(c, s) \/ ChooserIndex(c, s)
      PROVE  ListInv'
  <2>1. ASSUME OpenChooser(c) \/ ChooserExpand(c) \/ ChooserCollapse(c) \/ ChooserCancel(c)
        PROVE  ListInv'
    BY <2>1, SetTreeKeeps DEF OpenChooser, ChooserExpand, ChooserCollapse, ChooserCancel
  <2>2. ASSUME NEW up \in BOOLEAN, ChooserMove(c, up)
        PROVE  ListInv'
    BY <2>2, SetTreeKeeps DEF ChooserMove
  <2>3. ASSUME NEW s \in Sessions, ChooserIndex(c, s)
        PROVE  ListInv'
    BY <2>3, SetTreeKeeps DEF ChooserIndex
  <2> QED BY <1>3, <2>1, <2>2, <2>3, ConfirmKeeps, SwitchKeeps
<1>4. ASSUME NEW c \in Attached,
             \/ \E name \in BufferNames : PushNamed(c, name)
             \/ \E i \in DOMAIN buffers : DeleteNamed(c, i)
      PROVE  ListInv'
  <2>1. ASSUME NEW name \in BufferNames, PushNamed(c, name)
        PROVE  ListInv'
    BY <2>1, SetBuffersKeeps DEF PushNamed
  <2>2. ASSUME NEW i \in DOMAIN buffers, DeleteNamed(c, i)
        PROVE  ListInv'
    BY <2>2, SetBuffersKeeps DEF DeleteNamed
  <2> QED BY <1>4, <2>1, <2>2
<1>5. ASSUME NEW c \in Attached,
             \/ OpenBufferChooser(c) \/ BufferChooserCancel(c)
             \/ BufferChooserConfirm(c) \/ BufferChooserDelete(c)
             \/ \E to \in 0..(MaxTexts + 1) : BufferChooserMove(c, to)
      PROVE  ListInv'
  <2>1. ASSUME NEW to, BufferChooserMove(c, to)
        PROVE  ListInv'
    BY <2>1, SetChosenKeeps DEF BufferChooserMove
  <2>2. ASSUME OpenBufferChooser(c) \/ BufferChooserCancel(c) \/ BufferChooserConfirm(c)
        PROVE  ListInv'
    BY <2>2, SetChosenKeeps DEF OpenBufferChooser, BufferChooserCancel, BufferChooserConfirm
  <2> QED BY <1>5, <2>1, <2>2, BufferChooserDeleteKeeps
<1>6. ASSUME NEW s \in Sessions,
             \/ KillSession(s) \/ NewWindow(s) \/ Push(s) \/ PaneOutput(s)
             \/ \E i \in DOMAIN WindowRows(s) :
                  \/ CloseWindow(s, WindowRows(s)[i].window)
                  \/ AgentChanges(WindowRows(s)[i].window)
      PROVE  ListInv'
  <2>1. CASE KillSession(s)
    BY <2>1, CloseSessionKeeps DEF KillSession
  <2>2. CASE NewWindow(s)
    BY <2>2, ListsKeep DEF NewWindow
  <2>3. ASSUME NEW w, AgentChanges(w)
        PROVE  ListInv'
    BY <2>3, ListsKeep DEF AgentChanges
  <2>4. CASE Push(s)
    BY <2>4, SetBuffersKeeps DEF Push
  <2> QED BY <1>6, <2>1, <2>2, <2>3, <2>4, CloseWindowKeeps, PaneOutputKeeps
<1>7. ASSUME NEW i, SwapWindows(i)
      PROVE  ListInv'
  BY <1>7, ListsKeep DEF SwapWindows
<1> QED BY <1>1, <1>2, <1>3, <1>4, <1>5, <1>6, <1>7, ListStays DEF ListNext

(* Whatever a message changes, the clients it draws are those whose frames *)
(* would otherwise be behind: draw_session, draw_all and draw_client at    *)
(* the end of every handler.                                               *)
THEOREM ListInvariant == ListSpec => []ListInv
BY ListStart, ListStep, PTL DEF ListSpec

\* What a client has on its screen is the state of now, a buffer chooser excepted
\* whose stack another session changed, through a client or a pane's output.
THEOREM DrawnIsAlwaysCurrent == ListSpec => []DrawnIsCurrent
BY ListInvariant, PTL DEF ListInv

-----------------------------------------------------------------------------
(* Who shows what is there.                                                *)

RowSet == [session : Nat, window : Nat \cup {Nil}]

\* The sessions and windows that were made; each session has its row.
RowsKnown ==
  /\ next \in [session : Nat, window : Nat, text : Nat]
  /\ rows \in Seq(RowSet)
  /\ \A r \in ToSet(rows) : r.session < next.session /\ Row(r.session, Nil) \in ToSet(rows)
  /\ IsFiniteSet(agents)

ClientsPlaced == \A c \in Attached : clients[c].session \in Sessions /\ clients[c].height \in Heights

\* The cursors of choose-tree are on a row, or below the last.
CursorsCount ==
  \A c \in Clients : choosing[c] # Nil =>
    /\ choosing[c] = [expanded |-> choosing[c].expanded, cursor |-> choosing[c].cursor]
    /\ choosing[c].cursor \in Nat \ {0}

Offsets == [sessions : Nat, agents : Nat]
OffsetsCount == \A c \in Clients : sidebar_scroll[c] \in Offsets

Placed == RowsKnown /\ ClientsPlaced /\ CursorsCount /\ OffsetsCount

LEMMA ElementsOf ==
  ASSUME NEW R, NEW list \in Seq(R) PROVE ToSet(list) \subseteq R
BY DEF ToSet

LEMMA LesserCounts ==
  ASSUME NEW i \in Nat, NEW j \in Nat PROVE Lesser(i, j) \in Nat
BY DEF Lesser

LEMMA MinOfTwo ==
  ASSUME NEW i \in Int, NEW j \in Int PROVE Min({i, j}) = Lesser(i, j)
BY DEF Min, Lesser

LEMMA MaxOfTwo ==
  ASSUME NEW i \in Int, NEW j \in Int PROVE Max({i, j}) = IF i >= j THEN i ELSE j
BY DEF Max

\* The smallest of some naturals is one of them.
LEMMA MinCounts ==
  ASSUME NEW S, S # {}, S \subseteq Nat
  PROVE  Min(S) \in Nat
<1>1. PICK x \in S : \A y \in S : ~ (<<y, x>> \in OpToRel(<, Nat))
  BY NatLessThanWellFounded, WFMin
<1>2. \A y \in S : ~ y < x
  BY <1>1 DEF OpToRel
<1>3. \A y \in S : x <= y
  BY <1>2
<1> QED BY <1>3 DEF Min

\* The sections of a client's sidebar have a height and an end.
LEMMA SidebarCounts ==
  ASSUME RowsKnown, ClientsPlaced, NEW c \in Attached
  PROVE  /\ RowsFor(SessionsHeight(c)) \in Nat /\ RowsFor(AgentsHeight(c)) \in Nat
         /\ MaxSessionsOffset(c) \in Nat /\ MaxAgentsOffset(c) \in Nat
         /\ IsFiniteSet(Sessions)
<1>1. EffectiveRows(SessionOf(c)) \in Nat
  <2> DEFINE S == {clients[d].height : d \in SessionClients(SessionOf(c))}
  <2>1. S \subseteq Nat
    BY ClientsAssumption DEF ClientsPlaced, SessionClients, Attached
  <2>2. c \in SessionClients(SessionOf(c))
    BY DEF SessionClients, SessionOf, Attached
  <2>3. S # {}
    BY <2>2
  <2> QED BY <2>1, <2>3, MinCounts DEF EffectiveRows
<1>2. RowsFor(SessionsHeight(c)) \in Nat /\ RowsFor(AgentsHeight(c)) \in Nat
  <2>1. PICK h \in Nat : h = EffectiveRows(SessionOf(c))
    BY <1>1
  <2>2. \A k \in Nat : k \div 2 \in Nat /\ RowsFor(k) \in Nat
    BY DEF RowsFor
  <2> QED BY <2>1, <2>2 DEF RowsFor, SessionsHeight, AgentsHeight
<1>3. IsFiniteSet(Sessions)
  <2>1. \A r \in ToSet(rows) : r.session \in Nat /\ r.session < next.session
    <3>1. ToSet(rows) \subseteq RowSet
      BY ElementsOf DEF RowsKnown
    <3> QED BY <3>1 DEF RowsKnown, RowSet
  <2>2. next.session \in Nat
    BY DEF RowsKnown
  <2>3. Sessions \in SUBSET Nat /\ \A s \in Sessions : s <= next.session
    BY <2>1, <2>2 DEF Sessions
  <2> QED BY <2>2, <2>3, FS_BoundedSetOfNaturals
<1>4. Cardinality(Sessions) \in Nat /\ Cardinality(agents) \in Nat
  BY <1>3, FS_CardinalityType DEF RowsKnown
<1> QED BY <1>2, <1>3, <1>4 DEF MaxSessionsOffset, MaxAgentsOffset, MaxOffset

\* The rows of choose-tree: those of every session, and of the expanded ones more.
LEMMA TreeHasSessions ==
  ASSUME RowsKnown, NEW expanded
  PROVE  /\ TreeRows(expanded) \in Seq(RowSet)
         /\ ToSet(TreeRows(expanded)) \subseteq ToSet(rows)
         /\ \A s \in Sessions : /\ Row(s, Nil) \in ToSet(TreeRows(expanded))
                                /\ SessionAt(s, TreeRows(expanded)) \in Nat \ {0}
<1> DEFINE S == {r \in ToSet(rows) : r.window = Nil \/ r.session \in expanded}
           t == TreeRows(expanded)
<1>1. rows \in Seq(RowSet) /\ t = Kept(rows, S)
  BY DEF RowsKnown, TreeRows
<1> HIDE DEF t
<1>2. t \in Seq(RowSet) /\ ToSet(t) = ToSet(rows) \cap S
  BY <1>1, KeptElements
<1>3. ASSUME NEW s \in Sessions
      PROVE  Row(s, Nil) \in ToSet(t) /\ SessionAt(s, t) \in Nat \ {0}
  <2>1. Row(s, Nil) \in ToSet(rows) /\ Row(s, Nil).window = Nil
    BY DEF Sessions, RowsKnown, Row
  <2>2. Row(s, Nil) \in ToSet(t)
    BY <1>2, <2>1
  <2>3. \E i \in DOMAIN t : t[i] = Row(s, Nil)
    BY <2>2 DEF ToSet
  <2>4. SessionAt(s, t) \in DOMAIN t
    BY <2>3 DEF SessionAt
  <2>5. DOMAIN t \subseteq Nat \ {0}
    BY <1>2
  <2> QED BY <2>2, <2>4, <2>5
<1> QED BY <1>2, <1>3 DEF t

\* Enter in choose-tree acts on a session that is there.
LEMMA CursorOnRow ==
  ASSUME RowsKnown, ClientsPlaced, CursorsCount, NEW c \in Attached, choosing[c] # Nil
  PROVE  CursorRow(c).session \in Sessions /\ Len(TreeRows(choosing[c].expanded)) \in Nat \ {0}
<1> DEFINE t == TreeRows(choosing[c].expanded)
<1>1. /\ t \in Seq(RowSet) /\ ToSet(t) \subseteq ToSet(rows)
      /\ Row(clients[c].session, Nil) \in ToSet(t)
  BY TreeHasSessions DEF ClientsPlaced
<1>2. CursorRow(c) = t[Lesser(choosing[c].cursor, Len(t))]
  BY DEF CursorRow, CursorIn
<1> HIDE DEF t
<1>3. Len(t) \in Nat \ {0} /\ DOMAIN t = 1..Len(t)
  <2>1. DOMAIN t # {}
    BY <1>1 DEF ToSet
  <2> QED BY <1>1, <2>1
<1>4. choosing[c].cursor \in Nat \ {0}
  BY DEF CursorsCount, Attached
<1>5. Lesser(choosing[c].cursor, Len(t)) \in 1..Len(t)
  BY <1>3, <1>4 DEF Lesser
<1>6. CursorRow(c) \in ToSet(t)
  BY <1>2, <1>3, <1>5 DEF ToSet
<1>7. CursorRow(c) \in ToSet(rows)
  BY <1>1, <1>6
<1> QED BY <1>3, <1>7 DEF Sessions, t

\* So does a click on a row of a list that is drawn.
LEMMA VisibleThere ==
  ASSUME NEW R, NEW items \in Seq(R), NEW offset \in Nat, NEW capacity \in Nat,
         NEW i \in DOMAIN VisibleItems(items, offset, capacity)
  PROVE  VisibleItems(items, offset, capacity)[i] \in ToSet(items)
<1> DEFINE last == Lesser(Len(items), offset + capacity)
<1>1. last \in Nat /\ last <= Len(items)
  BY DEF Lesser
<1>2. VisibleItems(items, offset, capacity) = [k \in 1..(last - (offset + 1) + 1) |-> items[offset + 1 + k - 1]]
  BY <1>1 DEF VisibleItems
<1>3. i \in 1..(last - offset) /\ VisibleItems(items, offset, capacity)[i] = items[offset + i]
  BY <1>1, <1>2
<1>4. offset + i \in DOMAIN items
  BY <1>1, <1>3
<1> QED BY <1>3, <1>4 DEF ToSet

LEMMA ClickOnRow ==
  ASSUME ListInv, Placed, NEW c \in Attached, ~ Modal(c), NEW section \in {"sessions", "agents"},
         NEW i \in DOMAIN drawn[c][section]
  PROVE  drawn[c][section][i].session \in Sessions
<1>1. drawn[c] = SidebarProjection(c)
  BY DEF ListInv, DrawnIsCurrent, View, Modal
<1>2. ShownSessions(c) \in Nat /\ ShownAgents(c) \in Nat
  <2>1. MaxSessionsOffset(c) \in Nat /\ MaxAgentsOffset(c) \in Nat
    BY SidebarCounts DEF Placed
  <2>2. sidebar_scroll[c].sessions \in Nat /\ sidebar_scroll[c].agents \in Nat
    BY DEF Placed, OffsetsCount, Offsets, Attached
  <2> QED BY <2>1, <2>2, LesserCounts DEF ShownSessions, ShownAgents
<1>3. RowsFor(SessionsHeight(c)) \in Nat /\ RowsFor(AgentsHeight(c)) \in Nat
  BY SidebarCounts DEF Placed
<1>4. /\ SessionEntries \in Seq(RowSet) /\ ToSet(SessionEntries) \subseteq ToSet(rows)
      /\ AgentEntries \in Seq(RowSet) /\ ToSet(AgentEntries) \subseteq ToSet(rows)
  BY KeptElements DEF SessionEntries, AgentEntries, Placed, RowsKnown
<1>5. CASE section = "sessions"
  <2>1. drawn[c][section] =
          VisibleItems(SessionEntries, ShownSessions(c), RowsFor(SessionsHeight(c)))
    BY <1>1, <1>5 DEF SidebarProjection
  <2>2. drawn[c][section][i] \in ToSet(rows)
    BY <1>2, <1>3, <1>4, <2>1, VisibleThere
  <2> QED BY <2>2 DEF Sessions
<1>6. CASE section = "agents"
  <2>1. drawn[c][section] =
          VisibleItems(AgentEntries, ShownAgents(c), RowsFor(AgentsHeight(c)))
    BY <1>1, <1>6 DEF SidebarProjection
  <2>2. drawn[c][section][i] \in ToSet(rows)
    BY <1>2, <1>3, <1>4, <2>1, VisibleThere
  <2> QED BY <2>2 DEF Sessions
<1> QED BY <1>5, <1>6

-----------------------------------------------------------------------------
(* What the messages do to the rows.                                       *)

LEMMA RowIs == RowsKnown => \A r \in ToSet(rows) : r \in RowSet /\ r.session \in Nat
<1> SUFFICES ASSUME RowsKnown PROVE \A r \in ToSet(rows) : r \in RowSet /\ r.session \in Nat
  OBVIOUS
<1>1. ToSet(rows) \subseteq RowSet
  BY ElementsOf DEF RowsKnown
<1> QED BY <1>1 DEF RowSet

\* Rows that are as they were, in whatever order.
LEMMA RowsStay ==
  ASSUME RowsKnown, rows' \in Seq(RowSet), ToSet(rows)' = ToSet(rows), IsFiniteSet(agents'),
         next' \in [session : Nat, window : Nat, text : Nat], next'.session = next.session
  PROVE  RowsKnown' /\ Sessions' = Sessions
BY DEF RowsKnown, Sessions

\* The elements of two lists in one.
LEMMA BothElements ==
  ASSUME NEW R, NEW a \in Seq(R), NEW b \in Seq(R)
  PROVE  a \o b \in Seq(R) /\ ToSet(a \o b) = ToSet(a) \cup ToSet(b)
<1>1. /\ a \o b \in Seq(R) /\ Len(a \o b) = Len(a) + Len(b)
      /\ \A i \in 1..Len(a) : (a \o b)[i] = a[i]
      /\ \A i \in 1..Len(b) : (a \o b)[Len(a) + i] = b[i]
  OBVIOUS
<1>2. /\ DOMAIN (a \o b) = 1..(Len(a) + Len(b)) /\ DOMAIN a = 1..Len(a) /\ DOMAIN b = 1..Len(b)
      /\ Len(a) \in Nat /\ Len(b) \in Nat
  BY <1>1
<1>3. \A i \in 1..(Len(a) + Len(b)) : i \in 1..Len(a) \/ (i - Len(a) \in 1..Len(b) /\ Len(a) + (i - Len(a)) = i)
  BY <1>2
<1>4. ToSet(a \o b) \subseteq ToSet(a) \cup ToSet(b)
  BY <1>1, <1>2, <1>3 DEF ToSet
<1>5. \A i \in 1..Len(b) : Len(a) + i \in 1..(Len(a) + Len(b))
  BY <1>2
<1>6. ToSet(b) \subseteq ToSet(a \o b)
  BY <1>1, <1>2, <1>5 DEF ToSet
<1>7. ToSet(a) \subseteq ToSet(a \o b)
  BY <1>1, <1>2 DEF ToSet
<1> QED BY <1>1, <1>4, <1>6, <1>7

LEMMA SpawnRows ==
  ASSUME RowsKnown, SpawnSession
  PROVE  RowsKnown' /\ Sessions' = Sessions \cup {next.session}
<1> DEFINE new == Row(next.session, Nil)
           first == Row(next.session, next.window)
<1>1. /\ next.session \in Nat /\ next.window \in Nat
      /\ next' \in [session : Nat, window : Nat, text : Nat] /\ next'.session = next.session + 1
  <2>1. next \in [session : Nat, window : Nat, text : Nat]
    BY DEF RowsKnown
  <2>2. next' = [next EXCEPT !.session = next.session + 1, !.window = next.window + 1]
    BY DEF SpawnSession
  <2>3. next.session \in Nat /\ next.window \in Nat /\ next.text \in Nat
    BY <2>1
  <2>4. next' = [session |-> next.session + 1, window |-> next.window + 1, text |-> next.text]
    BY <2>1, <2>2
  <2> QED BY <2>3, <2>4
<1>2. new \in RowSet /\ first \in RowSet /\ new.session = next.session /\ first.session = next.session
  BY <1>1 DEF RowSet, Row
<1> DEFINE both == <<new, first>>
<1>3. rows' = rows \o both
  BY DEF SpawnSession
<1> HIDE DEF new, first
<1>4. rows' \in Seq(RowSet) /\ ToSet(rows') = ToSet(rows) \cup {new, first}
  <2>1. both \in Seq(RowSet) /\ ToSet(both) = {new, first}
    BY <1>2 DEF ToSet
  <2> HIDE DEF both
  <2>2. rows \in Seq(RowSet)
    BY DEF RowsKnown
  <2> QED BY <1>3, <2>1, <2>2, BothElements
<1>5. \A r \in ToSet(rows') : r.session < next'.session /\ Row(r.session, Nil) \in ToSet(rows')
  <2>1. \A r \in ToSet(rows) : r.session < next.session + 1 /\ Row(r.session, Nil) \in ToSet(rows)
    BY <1>1, RowIs DEF RowsKnown
  <2> QED BY <1>1, <1>2, <1>4, <2>1 DEF new
<1>6. IsFiniteSet(agents')
  BY DEF SpawnSession, RowsKnown
<1>7. {r.session : r \in ToSet(rows')} = {r.session : r \in ToSet(rows)} \cup {next.session}
  BY <1>2, <1>4
<1> QED BY <1>1, <1>4, <1>5, <1>6, <1>7 DEF RowsKnown, Sessions

LEMMA EndRows ==
  ASSUME RowsKnown, NEW s, SessionEnds(s), next' = next
  PROVE  RowsKnown' /\ Sessions' = Sessions \ {s}
<1>1. rows \in Seq(RowSet) /\ rows' = Kept(rows, {r \in ToSet(rows) : r.session # s})
  BY DEF RowsKnown, SessionEnds
<1>2. rows' \in Seq(RowSet) /\ ToSet(rows') = {r \in ToSet(rows) : r.session # s}
  BY <1>1, KeptElements
<1>3. \A r \in ToSet(rows') : r.session < next'.session /\ Row(r.session, Nil) \in ToSet(rows')
  BY <1>2 DEF RowsKnown, Row
<1>4. IsFiniteSet(agents')
  BY FS_Subset DEF RowsKnown, SessionEnds
<1>5. {r.session : r \in ToSet(rows')} = {r.session : r \in ToSet(rows)} \ {s}
  BY <1>2
<1> QED BY <1>2, <1>3, <1>4, <1>5 DEF RowsKnown, Sessions

LEMMA WindowRowsAdded ==
  ASSUME RowsKnown, NEW s \in Sessions, NewWindow(s)
  PROVE  RowsKnown' /\ Sessions' = Sessions
<1> DEFINE low == {r \in ToSet(rows) : r.session <= s}
           high == {r \in ToSet(rows) : r.session > s}
           new == Row(s, next.window)
<1>1. /\ s \in Nat /\ next.window \in Nat /\ rows \in Seq(RowSet)
      /\ next' \in [session : Nat, window : Nat, text : Nat] /\ next'.session = next.session
  <2>1. next \in [session : Nat, window : Nat, text : Nat] /\ rows \in Seq(RowSet)
    BY DEF RowsKnown
  <2>2. next' = [next EXCEPT !.window = @ + 1]
    BY DEF NewWindow
  <2>3. s \in Nat
    BY RowIs DEF Sessions
  <2> QED BY <2>1, <2>2, <2>3
<1>2. new \in RowSet /\ new.session = s
  BY <1>1 DEF RowSet, Row
<1>3. rows' = (Kept(rows, low) \o <<new>>) \o Kept(rows, high)
  <2>1. Kept(rows, low) \in Seq(RowSet) /\ Kept(rows, high) \in Seq(RowSet)
    BY <1>1, KeptElements
  <2> QED BY <2>1 DEF NewWindow
<1> HIDE DEF new
<1>4. low \cup high = ToSet(rows)
  BY <1>1, RowIs
<1> HIDE DEF low, high
<1>5. rows' \in Seq(RowSet) /\ ToSet(rows') = ToSet(rows) \cup {new}
  <2>1. /\ Kept(rows, low) \in Seq(RowSet) /\ ToSet(Kept(rows, low)) = ToSet(rows) \cap low
        /\ Kept(rows, high) \in Seq(RowSet) /\ ToSet(Kept(rows, high)) = ToSet(rows) \cap high
    BY <1>1, KeptElements
  <2> DEFINE a == Kept(rows, low) \o <<new>>
  <2>2. a \in Seq(RowSet) /\ ToSet(a) = ToSet(Kept(rows, low)) \cup {new}
    BY <1>2, <2>1, OneElement
  <2> HIDE DEF a
  <2>3. a \o Kept(rows, high) \in Seq(RowSet)
        /\ ToSet(a \o Kept(rows, high)) = ToSet(a) \cup ToSet(Kept(rows, high))
    BY <2>1, <2>2, BothElements
  <2> QED BY <1>3, <1>4, <2>1, <2>2, <2>3 DEF a
<1>6. s < next.session /\ Row(s, Nil) \in ToSet(rows)
  BY DEF RowsKnown, Sessions
<1>7. \A r \in ToSet(rows') : r.session < next'.session /\ Row(r.session, Nil) \in ToSet(rows')
  BY <1>1, <1>2, <1>5, <1>6 DEF RowsKnown
<1>8. IsFiniteSet(agents')
  BY DEF NewWindow, RowsKnown
<1>9. {r.session : r \in ToSet(rows')} = {r.session : r \in ToSet(rows)}
  BY <1>2, <1>5 DEF Sessions
<1> QED BY <1>1, <1>5, <1>7, <1>8, <1>9 DEF RowsKnown, Sessions

\* A window's row goes, its session's stays.
LEMMA WindowRowsRemoved ==
  ASSUME RowsKnown, NEW s, NEW w, w # Nil, rows' = Kept(rows, ToSet(rows) \ {Row(s, w)}),
         agents' = agents \ {w}, next' = next
  PROVE  RowsKnown' /\ Sessions' = Sessions
<1>1. rows' \in Seq(RowSet) /\ ToSet(rows') = ToSet(rows) \ {Row(s, w)}
  BY KeptElements DEF RowsKnown
<1>2. \A t : Row(t, Nil) # Row(s, w) /\ Row(t, Nil).session = t
  BY DEF Row
<1>3. \A r \in ToSet(rows') : r.session < next'.session /\ Row(r.session, Nil) \in ToSet(rows')
  BY <1>1, <1>2 DEF RowsKnown
<1>4. IsFiniteSet(agents')
  BY FS_Subset DEF RowsKnown
<1>5. {r.session : r \in ToSet(rows')} = {r.session : r \in ToSet(rows)}
  <2>1. \A r \in ToSet(rows) : Row(r.session, Nil) \in ToSet(rows')
    BY <1>1, <1>2 DEF RowsKnown
  <2> QED BY <1>1, <1>2, <2>1
<1> QED BY <1>1, <1>3, <1>4, <1>5 DEF RowsKnown, Sessions

LEMMA WindowRowsSwapped ==
  ASSUME RowsKnown, NEW i \in 1..(Len(rows) - 1), SwapWindows(i)
  PROVE  RowsKnown' /\ Sessions' = Sessions
<1>1. rows \in Seq(RowSet) /\ DOMAIN rows = 1..Len(rows) /\ i \in 1..Len(rows) /\ i + 1 \in 1..Len(rows)
  BY DEF RowsKnown
<1>2. rows' = [rows EXCEPT ![i] = rows[i + 1], ![i + 1] = rows[i]]
  BY DEF SwapWindows
<1>3. rows' \in Seq(RowSet) /\ DOMAIN rows' = DOMAIN rows
  BY <1>1, <1>2
<1>4. /\ rows'[i] = rows[i + 1] /\ rows'[i + 1] = rows[i]
      /\ \A k \in DOMAIN rows : k # i /\ k # i + 1 => rows'[k] = rows[k]
  BY <1>1, <1>2
<1>5. ToSet(rows') = ToSet(rows)
  BY <1>1, <1>3, <1>4 DEF ToSet
<1> QED BY <1>3, <1>5, RowsStay DEF SwapWindows, RowsKnown

-----------------------------------------------------------------------------
(* What the messages do to clients, cursors and offsets.                   *)

SidebarCounted ==
  \A c \in Attached :
    /\ RowsFor(SessionsHeight(c)) \in Nat /\ RowsFor(AgentsHeight(c)) \in Nat
    /\ MaxSessionsOffset(c) \in Nat /\ MaxAgentsOffset(c) \in Nat
    /\ IsFiniteSet(Sessions)

LEMMA AllCount == RowsKnown /\ ClientsPlaced => SidebarCounted
BY SidebarCounts DEF SidebarCounted

LEMMA DrawPlaces ==
  ASSUME RowsKnown', ClientsPlaced', CursorsCount', NEW who, NEW scroll, Draw(who, scroll),
         \A d \in Clients : scroll[d] \in Offsets
  PROVE  Placed'
<1>1. \A c \in Attached' : MaxSessionsOffset(c)' \in Nat /\ MaxAgentsOffset(c)' \in Nat
  <2>1. SidebarCounted'
    BY AllCount, PTL
  <2> QED BY <2>1 DEF SidebarCounted
<1>2. sidebar_scroll' = [c \in Clients |->
          IF c \notin who \/ clients'[c] = Nil THEN scroll[c]
          ELSE [sessions |-> Lesser(scroll[c].sessions, MaxSessionsOffset(c)'),
                agents   |-> Lesser(scroll[c].agents, MaxAgentsOffset(c)')]]
  BY DEF Draw
<1>3. ASSUME NEW c \in Clients PROVE sidebar_scroll'[c] \in Offsets
  <2>1. CASE c \notin who \/ clients'[c] = Nil
    BY <1>2, <2>1
  <2>2. CASE c \in who /\ clients'[c] # Nil
    <3>1. MaxSessionsOffset(c)' \in Nat /\ MaxAgentsOffset(c)' \in Nat
      BY <1>1, <2>2 DEF Attached
    <3>2. scroll[c].sessions \in Nat /\ scroll[c].agents \in Nat
      BY DEF Offsets
    <3>3. sidebar_scroll'[c] = [sessions |-> Lesser(scroll[c].sessions, MaxSessionsOffset(c)'),
                                agents   |-> Lesser(scroll[c].agents, MaxAgentsOffset(c)')]
      BY <1>2, <2>2
    <3>4. /\ Lesser(scroll[c].sessions, MaxSessionsOffset(c)') \in Nat
          /\ Lesser(scroll[c].agents, MaxAgentsOffset(c)') \in Nat
      BY <3>1, <3>2, LesserCounts
    <3> QED BY <3>3, <3>4 DEF Offsets
  <2> QED BY <2>1, <2>2
<1> QED BY <1>3 DEF Placed, OffsetsCount

\* The list of sessions is moved to where the client's own is among the visible.
LEMMA RevealPlaces ==
  ASSUME ListTypes, OffsetsCount, RowsKnown', ClientsPlaced', NEW c \in Clients, c \in Attached'
  PROVE  \A d \in Clients : Revealing(c)[d] \in Offsets
<1> DEFINE max == MaxSessionsOffset(c)'
           capacity == RowsFor(SessionsHeight(c)')
           i == Cardinality({s \in Sessions : s <= SessionOf(c)})'
           from == Lesser(sidebar_scroll[c].sessions, max)
           to == OffsetRevealing(i, from, capacity, max)
<1>1. max \in Nat /\ RowsFor(SessionsHeight(c))' \in Nat /\ IsFiniteSet(Sessions')
  <2>1. SidebarCounted'
    BY AllCount, PTL
  <2> QED BY <2>1 DEF SidebarCounted
<1>2. RowsFor(SessionsHeight(c))' = capacity
  BY DEF RowsFor
<1>3. i \in Nat \ {0}
  <2> DEFINE S == {s \in Sessions : s <= SessionOf(c)}
  <2>1. SessionOf(c)' \in Sessions'
    BY DEF ClientsPlaced, SessionOf, Attached
  <2>2. SessionOf(c)' \in Nat
    <3>1. (\A r \in ToSet(rows) : r \in RowSet /\ r.session \in Nat)'
      BY RowIs, PTL
    <3> QED BY <2>1, <3>1 DEF Sessions
  <2>3. S' \subseteq Sessions' /\ SessionOf(c)' \in S'
    BY <2>1, <2>2
  <2>4. IsFiniteSet(S')
    BY <1>1, <2>3, FS_Subset
  <2> QED BY <2>3, <2>4, FS_CardinalityType, FS_EmptySet
<1>4. sidebar_scroll[c] \in Offsets /\ sidebar_scroll[c].sessions \in Nat
  BY DEF OffsetsCount, Offsets
<1> HIDE DEF max, capacity, i
<1>5. from \in Nat
  BY <1>1, <1>4, LesserCounts
<1> HIDE DEF from
<1>6. to \in Nat
  BY <1>1, <1>2, <1>3, <1>5 DEF OffsetRevealing, Lesser
<1>7. Revealing(c) = [sidebar_scroll EXCEPT ![c].sessions = to]
  BY DEF Revealing, max, capacity, i, from
<1> HIDE DEF to
<1>8. [sidebar_scroll[c] EXCEPT !.sessions = to] \in Offsets
  BY <1>4, <1>6 DEF Offsets
<1> QED BY <1>7, <1>8 DEF ListTypes, OffsetsCount

\* A client comes to a session that is there.
LEMMA ClientComes ==
  ASSUME ClientTypes, ClientsPlaced, RowsKnown', Sessions \subseteq Sessions',
         NEW c \in Clients, NEW s \in Sessions', NEW height \in Heights,
         clients' = [clients EXCEPT ![c] = [session |-> s, height |-> height]]
  PROVE  ClientsPlaced' /\ c \in Attached'
<1>1. s \in Nat
  <2>1. (\A r \in ToSet(rows) : r \in RowSet /\ r.session \in Nat)'
    BY RowIs, PTL
  <2> QED BY <2>1 DEF Sessions
<1>2. [session |-> s, height |-> height] # Nil
  BY <1>1, ClientsAssumption
<1>3. /\ clients'[c] = [session |-> s, height |-> height]
      /\ \A d \in Clients : d # c => clients'[d] = clients[d]
  BY DEF ClientTypes
<1> QED BY <1>2, <1>3 DEF ClientsPlaced, Attached

LEMMA ClientMoves ==
  ASSUME ClientTypes, ClientsPlaced, RowsKnown', Sessions \subseteq Sessions',
         NEW c \in Attached, NEW s \in Sessions', clients' = [clients EXCEPT ![c].session = s]
  PROVE  ClientsPlaced' /\ c \in Attached'
<1>1. clients[c].height \in Heights /\ c \in Clients
  BY DEF ClientsPlaced, Attached
<1>2. clients' = [clients EXCEPT ![c] = [session |-> s, height |-> clients[c].height]]
  <2>1. clients[c] = [session |-> clients[c].session, height |-> clients[c].height]
    BY DEF ClientTypes, Attached
  <2>2. [clients[c] EXCEPT !.session = s] = [session |-> s, height |-> clients[c].height]
    BY <2>1
  <2> QED BY <2>2
<1> QED BY <1>1, <1>2, ClientComes

LEMMA ClientsStay ==
  ASSUME ClientsPlaced, Sessions \subseteq Sessions', clients' = clients
  PROVE  ClientsPlaced'
BY DEF ClientsPlaced, Attached

LEMMA CursorsStay == CursorsCount /\ choosing' = choosing => CursorsCount'
BY DEF CursorsCount

-----------------------------------------------------------------------------
(* The messages again.                                                     *)

LEMMA ModelStays ==
  ASSUME RowsKnown, rows' = rows, agents' = agents, next' = next \/ Written
  PROVE  RowsKnown' /\ Sessions' = Sessions
<1>1. next \in [session : Nat, window : Nat, text : Nat]
  BY DEF RowsKnown
<1>2. next' \in [session : Nat, window : Nat, text : Nat] /\ next'.session = next.session
  <2>1. CASE next' = next
    BY <1>1, <2>1
  <2>2. CASE Written
    BY <1>1, <2>2 DEF Written
  <2> QED BY <2>1, <2>2
<1> QED BY <1>2, RowsStay DEF RowsKnown

\* Messages that change neither clients nor choose-trees, with offsets as they are.
LEMMA OthersPlace ==
  ASSUME ListTypes, Placed, RowsKnown', Sessions' = Sessions, UNCHANGED <<clients, choosing>>,
         NEW who, Draw(who, sidebar_scroll)
  PROVE  Placed'
<1>1. ClientsPlaced' /\ CursorsCount'
  BY ClientsStay, CursorsStay DEF Placed
<1>2. \A d \in Clients : sidebar_scroll[d] \in Offsets
  BY DEF Placed, OffsetsCount
<1> QED BY <1>1, <1>2, DrawPlaces

LEMMA AttachNewPlaces ==
  ASSUME ListInv, Placed, NEW c \in Clients, NEW height \in Heights, AttachNew(c, height)
  PROVE  Placed'
<1>1. RowsKnown' /\ Sessions' = Sessions \cup {next.session}
  BY SpawnRows DEF AttachNew, Placed
<1>2. ClientsPlaced' /\ c \in Attached'
  BY <1>1, Typed, ClientComes DEF AttachNew, Placed
<1>3. CursorsCount'
  BY CursorsStay DEF AttachNew, Placed, modalVars
<1>4. \A d \in Clients : Revealing(c)[d] \in Offsets
  BY <1>1, <1>2, Typed, RevealPlaces DEF Placed
<1> QED BY <1>1, <1>2, <1>3, <1>4, DrawPlaces DEF AttachNew, DrawAll

LEMMA AttachToPlaces ==
  ASSUME ListInv, Placed, NEW c \in Clients, NEW s \in Sessions, NEW height \in Heights,
         AttachTo(c, s, height)
  PROVE  Placed'
<1>1. RowsKnown' /\ Sessions' = Sessions
  BY ModelStays DEF AttachTo, Placed, modelVars
<1>2. ClientsPlaced' /\ c \in Attached'
  BY <1>1, Typed, ClientComes DEF AttachTo, Placed
<1>3. CursorsCount'
  BY CursorsStay DEF AttachTo, Placed, modalVars
<1>4. \A d \in Clients : Revealing(c)[d] \in Offsets
  BY <1>1, <1>2, Typed, RevealPlaces DEF Placed
<1> QED BY <1>1, <1>2, <1>3, <1>4, DrawPlaces DEF AttachTo

LEMMA MovePlaces ==
  ASSUME ListInv, Placed, RowsKnown', Sessions \subseteq Sessions', CursorsCount',
         NEW c \in Attached, NEW s \in Sessions', MoveClient(c, s)
  PROVE  Placed'
<1>1. ClientsPlaced' /\ c \in Attached'
  BY Typed, ClientMoves DEF MoveClient, Placed
<1>2. \A d \in Clients : Revealing(c)[d] \in Offsets
  BY <1>1, Typed, RevealPlaces DEF Placed, Attached
<1> QED BY <1>1, <1>2, DrawPlaces DEF MoveClient, DrawAll

LEMMA CreateSessionPlaces ==
  ASSUME ListInv, Placed, NEW c \in Attached, NEW detached, CreateSession(c, detached)
  PROVE  Placed'
<1>1. RowsKnown' /\ Sessions' = Sessions \cup {next.session}
  BY SpawnRows DEF CreateSession, Placed
<1>2. CursorsCount'
  BY CursorsStay DEF CreateSession, Placed, modalVars
<1>3. CASE detached
  <2>1. ClientsPlaced' /\ Draw(Clients, sidebar_scroll)
    BY <1>1, <1>3, ClientsStay DEF CreateSession, DrawAll, Placed
  <2>2. \A d \in Clients : sidebar_scroll[d] \in Offsets
    BY DEF Placed, OffsetsCount
  <2> QED BY <1>1, <1>2, <2>1, <2>2, DrawPlaces
<1>4. CASE ~ detached
  BY <1>1, <1>2, <1>4, MovePlaces DEF CreateSession
<1> QED BY <1>3, <1>4

LEMMA SwitchPlaces ==
  ASSUME ListInv, Placed, NEW c \in Attached, NEW s \in Sessions, SwitchClient(c, s)
  PROVE  Placed'
<1>1. RowsKnown' /\ Sessions' = Sessions
  BY ModelStays DEF SwitchClient, Placed, modelVars
<1>2. CursorsCount'
  BY CursorsStay DEF SwitchClient, Placed, modalVars
<1> QED BY <1>1, <1>2, MovePlaces DEF SwitchClient

\* Clients leave, and their choose-trees and offsets with them.
LEMMA LeavingPlaces ==
  ASSUME ListInv, Placed, NEW gone, Unregister(gone), RowsKnown',
         \A c \in Attached : c \notin gone => clients[c].session \in Sessions',
         NEW who, Draw(who, ScrollWithout(gone))
  PROVE  Placed'
<1>1. ClientsPlaced'
  BY DEF Placed, ClientsPlaced, Attached, Unregister
<1>2. CursorsCount'
  BY DEF Placed, CursorsCount, Unregister
<1>3. \A d \in Clients : ScrollWithout(gone)[d] \in Offsets
  BY DEF ScrollWithout, NoScroll, Offsets, OffsetsCount, Placed
<1> QED BY <1>1, <1>2, <1>3, DrawPlaces

LEMMA ClientGonePlaces ==
  ASSUME ListInv, Placed, NEW c \in Attached, HandleClientGone(c)
  PROVE  Placed'
<1>1. RowsKnown' /\ Sessions' = Sessions
  BY ModelStays DEF HandleClientGone, Placed, modelVars
<1>2. Unregister({c}) /\ Draw(SessionClients(SessionOf(c)) \ {c}, ScrollWithout({c}))
  BY DEF HandleClientGone
<1> QED BY <1>1, <1>2, LeavingPlaces DEF Placed, ClientsPlaced

LEMMA CloseSessionPlaces ==
  ASSUME ListInv, Placed, NEW s, CloseSession(s), next' = next
  PROVE  Placed'
<1>1. SessionEnds(s) /\ Draw(Clients, ScrollWithout(SessionClients(s)))
  BY DEF CloseSession, DrawAll
<1>2. RowsKnown' /\ Sessions' = Sessions \ {s}
  BY <1>1, EndRows DEF Placed
<1>3. Unregister(SessionClients(s))
  BY <1>1 DEF SessionEnds
<1>4. \A c \in Attached : c \notin SessionClients(s) => clients[c].session \in Sessions'
  BY <1>2 DEF Placed, ClientsPlaced, SessionClients, Attached
<1> QED BY <1>1, <1>2, <1>3, <1>4, LeavingPlaces

LEMMA ClientResizePlaces ==
  ASSUME ListInv, Placed, NEW c \in Attached, NEW height \in Heights, HandleClientResize(c, height)
  PROVE  Placed'
<1>1. RowsKnown' /\ Sessions' = Sessions
  BY ModelStays DEF HandleClientResize, Placed, modelVars
<1>2. clients' = [clients EXCEPT ![c] = [session |-> clients[c].session, height |-> height]]
  <2>1. clients[c] = [session |-> clients[c].session, height |-> clients[c].height]
    BY Typed DEF ClientTypes, Attached
  <2>2. [clients[c] EXCEPT !.height = height] = [session |-> clients[c].session, height |-> height]
    BY <2>1
  <2> QED BY <2>2 DEF HandleClientResize
<1>3. c \in Clients /\ clients[c].session \in Sessions'
  BY <1>1 DEF Placed, ClientsPlaced, Attached
<1>4. ClientsPlaced'
  BY <1>1, <1>2, <1>3, Typed, ClientComes DEF Placed
<1>5. CursorsCount'
  BY CursorsStay DEF HandleClientResize, Placed, modalVars
<1>6. \A d \in Clients : sidebar_scroll[d] \in Offsets
  BY DEF Placed, OffsetsCount
<1> QED BY <1>1, <1>4, <1>5, <1>6, DrawPlaces DEF HandleClientResize, DrawSession

LEMMA CloseWindowPlaces ==
  ASSUME ListInv, Placed, NEW s, NEW i \in DOMAIN WindowRows(s),
         CloseWindow(s, WindowRows(s)[i].window)
  PROVE  Placed'
<1> DEFINE w == WindowRows(s)[i].window
<1>1. w # Nil
  <2> DEFINE S == {r \in ToSet(rows) : r.session = s /\ r.window # Nil}
  <2>1. ToSet(Kept(rows, S)) = ToSet(rows) \cap S
    BY KeptElements DEF Placed, RowsKnown
  <2>2. WindowRows(s)[i] \in ToSet(WindowRows(s))
    BY DEF ToSet
  <2> QED BY <2>1, <2>2 DEF WindowRows
<1> HIDE DEF w
<1>2. CASE Len(WindowRows(s)) = 1
  BY <1>2, CloseSessionPlaces DEF CloseWindow
<1>3. CASE Len(WindowRows(s)) # 1
  <2>1. /\ rows' = Kept(rows, ToSet(rows) \ {Row(s, w)}) /\ agents' = agents \ {w} /\ next' = next
        /\ UNCHANGED <<clients, choosing>> /\ Draw(Clients, sidebar_scroll)
    BY <1>3 DEF CloseWindow, DrawAll, modalVars, w
  <2>2. RowsKnown' /\ Sessions' = Sessions
    BY <1>1, <2>1, WindowRowsRemoved DEF Placed
  <2> QED BY <2>1, <2>2, Typed, OthersPlace
<1> QED BY <1>2, <1>3

LEMMA NewWindowPlaces ==
  ASSUME ListInv, Placed, NEW s \in Sessions, NewWindow(s)
  PROVE  Placed'
<1>1. RowsKnown' /\ Sessions' = Sessions
  BY WindowRowsAdded DEF Placed
<1> QED BY <1>1, Typed, OthersPlace DEF NewWindow, DrawAll, modalVars

LEMMA SwapWindowsPlaces ==
  ASSUME ListInv, Placed, NEW i \in 1..(Len(rows) - 1), SwapWindows(i)
  PROVE  Placed'
<1>1. RowsKnown' /\ Sessions' = Sessions
  BY WindowRowsSwapped DEF Placed
<1> QED BY <1>1, Typed, OthersPlace DEF SwapWindows, DrawAll, modalVars

LEMMA AgentChangesPlaces ==
  ASSUME ListInv, Placed, NEW w, AgentChanges(w)
  PROVE  Placed'
<1>1. IsFiniteSet(agents')
  <2>1. IsFiniteSet(agents)
    BY DEF Placed, RowsKnown
  <2>2. CASE w \in agents
    BY <2>1, <2>2, FS_Subset DEF AgentChanges
  <2>3. CASE w \notin agents
    BY <2>1, <2>3, FS_AddElement DEF AgentChanges
  <2> QED BY <2>2, <2>3
<1>2. RowsKnown' /\ Sessions' = Sessions
  BY <1>1, RowsStay DEF Placed, RowsKnown, AgentChanges
<1> QED BY <1>2, Typed, OthersPlace DEF AgentChanges, DrawAll, modalVars

LEMMA ScrollPlaces ==
  ASSUME ListInv, Placed, NEW c \in Attached, NEW section \in {"sessions", "agents"}, NEW up,
         ScrollSidebar(c, section, up)
  PROVE  Placed'
<1> DEFINE max == IF section = "sessions" THEN MaxSessionsOffset(c) ELSE MaxAgentsOffset(c)
           now == Lesser(sidebar_scroll[c][section], max)
           then == IF up THEN (IF now > 3 THEN now - 3 ELSE 0) ELSE Lesser(now + 3, max)
<1>1. RowsKnown' /\ Sessions' = Sessions
  BY ModelStays DEF ScrollSidebar, Placed, modelVars
<1>2. ClientsPlaced' /\ CursorsCount'
  BY <1>1, ClientsStay, CursorsStay DEF ScrollSidebar, Placed, modalVars
<1>3. Draw(SessionClients(SessionOf(c)), [sidebar_scroll EXCEPT ![c][section] = then])
  BY DEF ScrollSidebar
<1>4. max \in Nat
  BY SidebarCounts DEF Placed
<1>5. sidebar_scroll[c] \in Offsets /\ sidebar_scroll[c][section] \in Nat /\ c \in Clients
  BY DEF Placed, OffsetsCount, Offsets, Attached
<1> HIDE DEF max
<1>6. now \in Nat
  BY <1>4, <1>5, LesserCounts
<1> HIDE DEF now
<1>7. then \in Nat
  BY <1>4, <1>6, LesserCounts
<1> HIDE DEF then
<1>8. [sidebar_scroll[c] EXCEPT ![section] = then] \in Offsets
  BY <1>5, <1>7 DEF Offsets
<1>9. \A d \in Clients : [sidebar_scroll EXCEPT ![c][section] = then][d] \in Offsets
  BY <1>5, <1>8, Typed DEF Placed, OffsetsCount, ListTypes
<1> QED BY <1>1, <1>2, <1>3, <1>9, DrawPlaces

\* The keys of choose-tree.
Cursors(tree) ==
  tree # Nil => /\ tree = [expanded |-> tree.expanded, cursor |-> tree.cursor]
                 /\ tree.cursor \in Nat \ {0}

LEMMA SetTreePlaces ==
  ASSUME ListInv, Placed, NEW c \in Attached, NEW tree, SetTree(c, tree), Cursors(tree)
  PROVE  Placed'
<1>1. RowsKnown' /\ Sessions' = Sessions
  BY ModelStays DEF SetTree, Placed, modelVars
<1>2. ClientsPlaced'
  BY <1>1, ClientsStay DEF SetTree, Placed
<1>3. \A d \in Clients : choosing'[d] = choosing[d] \/ choosing'[d] = tree
  BY Typed DEF SetTree, ModalTypes
<1>4. CursorsCount'
  BY <1>3 DEF CursorsCount, Placed, Cursors
<1>5. \A d \in Clients : sidebar_scroll[d] \in Offsets
  BY DEF Placed, OffsetsCount
<1> QED BY <1>1, <1>2, <1>4, <1>5, DrawPlaces DEF SetTree, DrawSession

LEMMA OpenChooserPlaces ==
  ASSUME ListInv, Placed, NEW c \in Attached, OpenChooser(c)
  PROVE  Placed'
<1> DEFINE at == SessionAt(SessionOf(c), TreeRows({}))
<1>1. SetTree(c, [expanded |-> {}, cursor |-> at])
  BY DEF OpenChooser
<1>2. at \in Nat \ {0}
  BY TreeHasSessions DEF Placed, ClientsPlaced, SessionOf
<1> HIDE DEF at
<1>3. Cursors([expanded |-> {}, cursor |-> at])
  BY <1>2 DEF Cursors
<1> QED BY <1>1, <1>3, SetTreePlaces

LEMMA CursorIsSet ==
  ASSUME ListInv, Placed, NEW c \in Attached, choosing[c] # Nil,
         NEW at \in Nat \ {0}, SetTree(c, [choosing[c] EXCEPT !.cursor = at])
  PROVE  Placed'
<1>1. choosing[c] = [expanded |-> choosing[c].expanded, cursor |-> choosing[c].cursor]
  BY DEF Placed, CursorsCount, Attached
<1>2. [choosing[c] EXCEPT !.cursor = at] = [expanded |-> choosing[c].expanded, cursor |-> at]
  BY <1>1
<1>3. Cursors([expanded |-> choosing[c].expanded, cursor |-> at])
  BY DEF Cursors
<1> QED BY <1>2, <1>3, SetTreePlaces

LEMMA ChooserMovePlaces ==
  ASSUME ListInv, Placed, NEW c \in Attached, NEW up, ChooserMove(c, up)
  PROVE  Placed'
<1> DEFINE last == Len(TreeRows(choosing[c].expanded))
           moved == IF up THEN Max({1, choosing[c].cursor - 1}) ELSE choosing[c].cursor + 1
<1>1. choosing[c] # Nil /\ SetTree(c, [choosing[c] EXCEPT !.cursor = Min({moved, last})])
  BY DEF ChooserMove, Choose
<1>2. last \in Nat \ {0}
  BY <1>1, CursorOnRow DEF Placed
<1>3. choosing[c].cursor \in Nat \ {0}
  BY <1>1 DEF Placed, CursorsCount, Attached
<1> HIDE DEF last
<1>4. moved \in Nat \ {0}
  <2>1. Max({1, choosing[c].cursor - 1}) =
          IF 1 >= choosing[c].cursor - 1 THEN 1 ELSE choosing[c].cursor - 1
    BY <1>3, MaxOfTwo
  <2> QED BY <1>3, <2>1
<1> HIDE DEF moved
<1>5. Min({moved, last}) \in Nat \ {0}
  BY <1>2, <1>4, MinOfTwo DEF Lesser
<1> QED BY <1>1, <1>5, CursorIsSet

LEMMA ChooserIndexPlaces ==
  ASSUME ListInv, Placed, NEW c \in Attached, NEW s \in Sessions, ChooserIndex(c, s)
  PROVE  Placed'
<1>1. SessionAt(s, TreeRows(choosing[c].expanded)) \in Nat \ {0}
  BY TreeHasSessions DEF Placed
<1> QED BY <1>1, CursorIsSet DEF ChooserIndex, Choose

LEMMA ChooserExpandPlaces ==
  ASSUME ListInv, Placed, NEW c \in Attached, ChooserExpand(c)
  PROVE  Placed'
<1>1. /\ choosing[c] = [expanded |-> choosing[c].expanded, cursor |-> choosing[c].cursor]
      /\ choosing[c].cursor \in Nat \ {0}
  BY DEF Placed, CursorsCount, Attached, ChooserExpand, Choose
<1> DEFINE more == choosing[c].expanded \cup {CursorRow(c).session}
<1>2. SetTree(c, [choosing[c] EXCEPT !.expanded = more])
  BY DEF ChooserExpand
<1> HIDE DEF more
<1>3. [choosing[c] EXCEPT !.expanded = more] = [expanded |-> more, cursor |-> choosing[c].cursor]
  BY <1>1
<1>4. Cursors([expanded |-> more, cursor |-> choosing[c].cursor])
  BY <1>1 DEF Cursors
<1> QED BY <1>2, <1>3, <1>4, SetTreePlaces

LEMMA ChooserCollapsePlaces ==
  ASSUME ListInv, Placed, NEW c \in Attached, ChooserCollapse(c)
  PROVE  Placed'
<1> DEFINE fewer == choosing[c].expanded \ {CursorRow(c).session}
           at == SessionAt(CursorRow(c).session, TreeRows(fewer))
<1>1. SetTree(c, [expanded |-> fewer, cursor |-> at])
  BY DEF ChooserCollapse
<1>2. CursorRow(c).session \in Sessions
  BY CursorOnRow DEF Placed, ChooserCollapse, Choose
<1> HIDE DEF fewer
<1>3. at \in Nat \ {0}
  BY <1>2, TreeHasSessions DEF Placed
<1> HIDE DEF at
<1>4. Cursors([expanded |-> fewer, cursor |-> at])
  BY <1>3 DEF Cursors
<1> QED BY <1>1, <1>4, SetTreePlaces

LEMMA ChooserConfirmPlaces ==
  ASSUME ListInv, Placed, NEW c \in Attached, ChooserConfirm(c)
  PROVE  Placed'
<1>1. CASE CursorRow(c).session = SessionOf(c)
  <2>1. SetTree(c, Nil) /\ Cursors(Nil)
    BY <1>1 DEF ChooserConfirm, SetTree, Cursors
  <2> QED BY <2>1, SetTreePlaces
<1>2. CASE CursorRow(c).session # SessionOf(c)
  <2>1. RowsKnown' /\ Sessions' = Sessions
    BY ModelStays DEF ChooserConfirm, Placed, modelVars
  <2>2. CursorRow(c).session \in Sessions'
    BY <2>1, CursorOnRow DEF Placed, ChooserConfirm, Choose
  <2>3. \A d \in Clients : choosing'[d] = choosing[d] \/ choosing'[d] = Nil
    BY Typed DEF ChooserConfirm, ModalTypes
  <2>4. CursorsCount'
    BY <2>3 DEF CursorsCount, Placed
  <2>5. MoveClient(c, CursorRow(c).session)
    BY <1>2 DEF ChooserConfirm
  <2> QED BY <2>1, <2>2, <2>4, <2>5, MovePlaces
<1> QED BY <1>1, <1>2

\* Buffers.
LEMMA BuffersPlace ==
  ASSUME ListInv, Placed, UNCHANGED <<rows, agents, clients, choosing>>, next' = next \/ Written,
         NEW who, Draw(who, sidebar_scroll)
  PROVE  Placed'
<1>1. RowsKnown' /\ Sessions' = Sessions
  BY ModelStays DEF Placed
<1> QED BY <1>1, Typed, OthersPlace

LEMMA SetBuffersPlaces ==
  ASSUME ListInv, Placed, NEW s, NEW stack, SetBuffers(s, stack),
         next' = next \/ Written
  PROVE  Placed'
BY BuffersPlace DEF SetBuffers, modelVars, modalVars

LEMMA SetChosenPlaces ==
  ASSUME ListInv, Placed, NEW c \in Attached, NEW at, SetChosen(c, at)
  PROVE  Placed'
BY BuffersPlace DEF SetChosen, DrawSession, modelVars

LEMMA BufferChooserDeletePlaces ==
  ASSUME ListInv, Placed, NEW c \in Attached, BufferChooserDelete(c)
  PROVE  Placed'
BY BuffersPlace DEF BufferChooserDelete, modelVars

-----------------------------------------------------------------------------
(* All of it together.                                                     *)

LEMMA PlacedStart == ListInit => Placed
<1> SUFFICES ASSUME ListInit PROVE Placed
  OBVIOUS
<1>1. RowsKnown
  <2>1. rows = <<>> /\ ToSet(rows) = {} /\ IsFiniteSet(agents)
    BY FS_EmptySet DEF ListInit, ToSet
  <2>2. next \in [session : Nat, window : Nat, text : Nat] /\ rows \in Seq(RowSet)
    BY <2>1 DEF ListInit
  <2> QED BY <2>1, <2>2 DEF RowsKnown
<1>2. ClientsPlaced /\ CursorsCount /\ OffsetsCount
  BY DEF ListInit, ClientsPlaced, CursorsCount, OffsetsCount, Offsets, NoScroll, Attached
<1> QED BY <1>1, <1>2 DEF Placed

LEMMA PlacedStays == Placed /\ UNCHANGED listVars => Placed'
BY DEF Placed, RowsKnown, ClientsPlaced, CursorsCount, OffsetsCount, Sessions, Attached, listVars

LEMMA PlacedStep == ListInv /\ Placed /\ [ListNext]_listVars => Placed'
<1> SUFFICES ASSUME ListInv, Placed, [ListNext]_listVars PROVE Placed'
  OBVIOUS
<1>1. ASSUME NEW c \in Clients, NEW height \in Heights,
             \/ AttachNew(c, height)
             \/ \E s \in Sessions : AttachTo(c, s, height)
             \/ c \in Attached /\ HandleClientResize(c, height)
      PROVE  Placed'
  BY <1>1, AttachNewPlaces, AttachToPlaces, ClientResizePlaces
<1>2. ASSUME NEW c \in Attached,
             \/ HandleClientGone(c) \/ SidebarClick(c)
             \/ \E detached \in BOOLEAN : CreateSession(c, detached)
             \/ \E section \in {"sessions", "agents"}, up \in BOOLEAN :
                  ScrollSidebar(c, section, up)
      PROVE  Placed'
  <2>1. CASE SidebarClick(c)
    BY <2>1, ClickOnRow, SwitchPlaces DEF SidebarClick
  <2> QED BY <1>2, <2>1, ClientGonePlaces, CreateSessionPlaces, ScrollPlaces
<1>3. ASSUME NEW c \in Attached,
             \/ OpenChooser(c) \/ ChooserExpand(c) \/ ChooserCollapse(c)
             \/ ChooserConfirm(c) \/ ChooserCancel(c)
             \/ \E up \in BOOLEAN : ChooserMove(c, up)
             \/ \E s \in Sessions : SwitchClient(c, s) \/ ChooserIndex(c, s)
      PROVE  Placed'
  <2>1. CASE ChooserCancel(c)
    BY <2>1, SetTreePlaces DEF ChooserCancel, Cursors
  <2> QED BY <1>3, <2>1, OpenChooserPlaces, ChooserExpandPlaces, ChooserCollapsePlaces,
             ChooserConfirmPlaces, ChooserMovePlaces, ChooserIndexPlaces, SwitchPlaces
<1>4. ASSUME NEW c \in Attached,
             \/ \E name \in BufferNames : PushNamed(c, name)
             \/ \E i \in DOMAIN buffers : DeleteNamed(c, i)
      PROVE  Placed'
  <2>1. ASSUME NEW name \in BufferNames, PushNamed(c, name)
        PROVE  Placed'
    BY <2>1, SetBuffersPlaces DEF PushNamed
  <2>2. ASSUME NEW i \in DOMAIN buffers, DeleteNamed(c, i)
        PROVE  Placed'
    BY <2>2, SetBuffersPlaces DEF DeleteNamed
  <2> QED BY <1>4, <2>1, <2>2
<1>5. ASSUME NEW c \in Attached,
             \/ OpenBufferChooser(c) \/ BufferChooserCancel(c)
             \/ BufferChooserConfirm(c) \/ BufferChooserDelete(c)
             \/ \E to \in 0..(MaxTexts + 1) : BufferChooserMove(c, to)
      PROVE  Placed'
  <2>1. ASSUME NEW to, BufferChooserMove(c, to)
        PROVE  Placed'
    BY <2>1, SetChosenPlaces DEF BufferChooserMove
  <2>2. ASSUME OpenBufferChooser(c) \/ BufferChooserCancel(c) \/ BufferChooserConfirm(c)
        PROVE  Placed'
    BY <2>2, SetChosenPlaces DEF OpenBufferChooser, BufferChooserCancel, BufferChooserConfirm
  <2> QED BY <1>5, <2>1, <2>2, BufferChooserDeletePlaces
<1>6. ASSUME NEW s \in Sessions,
             \/ KillSession(s) \/ NewWindow(s) \/ Push(s) \/ PaneOutput(s)
             \/ \E i \in DOMAIN WindowRows(s) :
                  \/ CloseWindow(s, WindowRows(s)[i].window)
                  \/ AgentChanges(WindowRows(s)[i].window)
      PROVE  Placed'
  <2>1. CASE KillSession(s)
    BY <2>1, CloseSessionPlaces DEF KillSession
  <2>2. CASE Push(s)
    BY <2>2, SetBuffersPlaces DEF Push
  <2>3. CASE PaneOutput(s)
    BY <2>3, BuffersPlace DEF PaneOutput, DrawSession, modelVars, modalVars
  <2> QED BY <1>6, <2>1, <2>2, <2>3, NewWindowPlaces, CloseWindowPlaces, AgentChangesPlaces
<1> QED BY <1>1, <1>2, <1>3, <1>4, <1>5, <1>6, SwapWindowsPlaces, PlacedStays DEF ListNext

(* Every client is in a session that is there, and whatever row a click or *)
(* Enter acts on is the row of one: register_client, switch_client_session *)
(* and close_session, from whichever of their callers.                     *)
THEOREM PlacedInvariant == ListSpec => []Placed
<1>1. ListSpec => [](ListInv /\ Placed)
  BY ListStart, ListStep, PlacedStart, PlacedStep, PTL DEF ListSpec
<1> QED BY <1>1, PTL

-----------------------------------------------------------------------------
(* Where the sidebar's lists are.                                          *)

\* A message that leaves the offsets of client c to what the lists allow.
Rescrolls(c) == \E who, scroll : Draw(who, scroll) /\ scroll[c] = sidebar_scroll[c]

LEMMA RescrolledStays ==
  ASSUME ListInv, NEW c \in Clients, clients[c] # Nil, clients'[c] # Nil, Rescrolls(c)
  PROVE  /\ ShownSessions(c)' = Lesser(ShownSessions(c), MaxSessionsOffset(c)')
         /\ ShownAgents(c)' = Lesser(ShownAgents(c), MaxAgentsOffset(c)')
<1>1. PICK who, scroll : Draw(who, scroll) /\ scroll[c] = sidebar_scroll[c]
  BY DEF Rescrolls
<1>2. sidebar_scroll[c].sessions = ShownSessions(c) /\ sidebar_scroll[c].agents = ShownAgents(c)
  BY DEF ListInv, StoredIsShown, Attached
<1>3. sidebar_scroll' = [d \in Clients |->
          IF d \notin who \/ clients'[d] = Nil THEN scroll[d]
          ELSE [sessions |-> Lesser(scroll[d].sessions, MaxSessionsOffset(d)'),
                agents   |-> Lesser(scroll[d].agents, MaxAgentsOffset(d)')]]
  BY <1>1 DEF Draw
<1>4. CASE c \notin who
  <2>1. sidebar_scroll'[c] = sidebar_scroll[c]
    BY <1>1, <1>3, <1>4
  <2> QED BY <1>2, <2>1 DEF ShownSessions, ShownAgents
<1>5. CASE c \in who
  <2>1. /\ sidebar_scroll'[c].sessions = Lesser(sidebar_scroll[c].sessions, MaxSessionsOffset(c)')
        /\ sidebar_scroll'[c].agents = Lesser(sidebar_scroll[c].agents, MaxAgentsOffset(c)')
    BY <1>1, <1>3, <1>5
  <2> QED BY <1>2, <2>1, LesserOnce DEF ShownSessions, ShownAgents
<1> QED BY <1>4, <1>5

\* The list of sessions is moved only for a client that comes to a session.
LEMMA OthersRescroll ==
  ASSUME ListInv, NEW c \in Clients, NEW d \in Clients, d # c, NEW who, Draw(who, Revealing(d))
  PROVE  Rescrolls(c)
<1>1. Revealing(d)[c] = sidebar_scroll[c]
  BY Typed DEF Revealing, ListTypes
<1> QED BY <1>1 DEF Rescrolls

LEMMA UnmovedRescroll ==
  ASSUME NEW c \in Clients, NEW who, Draw(who, sidebar_scroll)
  PROVE  Rescrolls(c)
BY DEF Rescrolls

LEMMA MovingRescrolls ==
  ASSUME ListInv, NEW c \in Clients, SessionOf(c)' = SessionOf(c),
         NEW d \in Attached, NEW s, s # SessionOf(d), MoveClient(d, s)
  PROVE  Rescrolls(c)
<1>1. clients'[d].session = s
  <2>1. clients[d] = [session |-> clients[d].session, height |-> clients[d].height]
    BY Typed DEF ClientTypes, Attached
  <2>2. clients'[d] = [clients[d] EXCEPT !.session = s]
    BY Typed DEF MoveClient, ClientTypes, Attached
  <2> QED BY <2>1, <2>2
<1>2. d # c /\ d \in Clients
  BY <1>1 DEF SessionOf, Attached
<1> QED BY <1>2, OthersRescroll DEF MoveClient, DrawAll

LEMMA ClosingRescrolls ==
  ASSUME NEW c \in Clients, clients[c] # Nil, clients'[c] # Nil, NEW s, CloseSession(s)
  PROVE  Rescrolls(c)
<1>1. c \notin SessionClients(s)
  BY DEF CloseSession, SessionEnds, Unregister
<1>2. ScrollWithout(SessionClients(s))[c] = sidebar_scroll[c]
  BY <1>1 DEF ScrollWithout
<1> QED BY <1>2 DEF CloseSession, DrawAll, Rescrolls

LEMMA ChangesRescroll ==
  ASSUME ListInv, Placed, [ListNext]_listVars, NEW c \in Clients,
         clients[c] # Nil, clients'[c] # Nil, SessionOf(c)' = SessionOf(c)
  PROVE  Rescrolls(c) \/ UNCHANGED <<rows, agents, clients>>
<1>1. ASSUME NEW d \in Clients, NEW height \in Heights,
             \/ AttachNew(d, height)
             \/ \E s \in Sessions : AttachTo(d, s, height)
             \/ d \in Attached /\ HandleClientResize(d, height)
      PROVE  Rescrolls(c)
  <2>1. CASE AttachNew(d, height)
    BY <2>1, OthersRescroll DEF AttachNew, DrawAll, Attached
  <2>2. ASSUME NEW s, AttachTo(d, s, height) PROVE Rescrolls(c)
    BY <2>2, OthersRescroll DEF AttachTo, Attached
  <2>3. CASE HandleClientResize(d, height)
    BY <2>3, UnmovedRescroll DEF HandleClientResize, DrawSession
  <2> QED BY <1>1, <2>1, <2>2, <2>3
<1>2. ASSUME NEW d \in Attached, \E s : SwitchClient(d, s)
      PROVE  Rescrolls(c)
  BY <1>2, MovingRescrolls DEF SwitchClient
<1>3. ASSUME NEW d \in Attached,
             \/ HandleClientGone(d) \/ SidebarClick(d)
             \/ \E detached \in BOOLEAN : CreateSession(d, detached)
             \/ \E section \in {"sessions", "agents"}, up \in BOOLEAN :
                  ScrollSidebar(d, section, up)
      PROVE  Rescrolls(c) \/ UNCHANGED <<rows, agents, clients>>
  <2>1. CASE HandleClientGone(d)
    <3>1. Draw(SessionClients(SessionOf(d)) \ {d}, ScrollWithout({d}))
      BY <2>1 DEF HandleClientGone
    <3>2. d # c
      BY <2>1 DEF HandleClientGone, Unregister, Attached
    <3>3. ScrollWithout({d})[c] = sidebar_scroll[c]
      BY <3>2 DEF ScrollWithout
    <3> QED BY <3>1, <3>3 DEF Rescrolls
  <2>2. CASE SidebarClick(d)
    BY <1>2, <2>2 DEF SidebarClick
  <2>3. ASSUME NEW detached \in BOOLEAN, CreateSession(d, detached)
        PROVE  Rescrolls(c)
    <3>1. SessionOf(d) # next.session
      <4>1. SessionOf(d) \in Sessions /\ next.session \in Nat
        BY DEF Placed, ClientsPlaced, RowsKnown, SessionOf
      <4>2. \A s \in Sessions : s \in Nat /\ s < next.session
        BY RowIs DEF Placed, RowsKnown, Sessions
      <4> QED BY <4>1, <4>2
    <3> QED BY <2>3, <3>1, MovingRescrolls, UnmovedRescroll DEF CreateSession, DrawAll
  <2>4. ASSUME NEW section, NEW up, ScrollSidebar(d, section, up)
        PROVE  UNCHANGED <<rows, agents, clients>>
    BY <2>4 DEF ScrollSidebar, modelVars
  <2> QED BY <1>3, <2>1, <2>2, <2>3, <2>4
<1>4. ASSUME NEW d \in Attached,
             \/ OpenChooser(d) \/ ChooserExpand(d) \/ ChooserCollapse(d)
             \/ ChooserConfirm(d) \/ ChooserCancel(d)
             \/ \E up \in BOOLEAN : ChooserMove(d, up)
             \/ \E s \in Sessions : SwitchClient(d, s) \/ ChooserIndex(d, s)
      PROVE  Rescrolls(c) \/ UNCHANGED <<rows, agents, clients>>
  <2>1. ASSUME NEW tree, SetTree(d, tree) PROVE UNCHANGED <<rows, agents, clients>>
    BY <2>1 DEF SetTree, modelVars
  <2>2. CASE ChooserConfirm(d)
    BY <2>2, MovingRescrolls DEF ChooserConfirm, modelVars
  <2>3. ASSUME NEW up, ChooserMove(d, up) PROVE UNCHANGED <<rows, agents, clients>>
    BY <2>1, <2>3 DEF ChooserMove
  <2> QED BY <1>2, <1>4, <2>1, <2>2, <2>3
          DEF OpenChooser, ChooserExpand, ChooserCollapse, ChooserCancel, ChooserIndex
<1>5. ASSUME NEW d \in Attached,
             \/ \E name \in BufferNames : PushNamed(d, name)
             \/ \E i \in DOMAIN buffers : DeleteNamed(d, i)
             \/ OpenBufferChooser(d) \/ BufferChooserCancel(d)
             \/ BufferChooserConfirm(d) \/ BufferChooserDelete(d)
             \/ \E to \in 0..(MaxTexts + 1) : BufferChooserMove(d, to)
      PROVE  UNCHANGED <<rows, agents, clients>>
  <2>1. ASSUME NEW s, NEW stack, SetBuffers(s, stack) PROVE UNCHANGED <<rows, agents, clients>>
    BY <2>1 DEF SetBuffers, modelVars
  <2>2. ASSUME NEW at, SetChosen(d, at) PROVE UNCHANGED <<rows, agents, clients>>
    BY <2>2 DEF SetChosen, modelVars
  <2>3. CASE BufferChooserDelete(d)
    BY <2>3 DEF BufferChooserDelete, modelVars
  <2>4. CASE \/ \E name \in BufferNames : PushNamed(d, name)
             \/ \E i \in DOMAIN buffers : DeleteNamed(d, i)
    BY <2>1, <2>4 DEF PushNamed, DeleteNamed
  <2> QED BY <1>5, <2>2, <2>3, <2>4
          DEF OpenBufferChooser, BufferChooserCancel, BufferChooserConfirm, BufferChooserMove
<1>6. ASSUME NEW s \in Sessions,
             \/ KillSession(s) \/ NewWindow(s) \/ Push(s) \/ PaneOutput(s)
             \/ \E i \in DOMAIN WindowRows(s) :
                  \/ CloseWindow(s, WindowRows(s)[i].window)
                  \/ AgentChanges(WindowRows(s)[i].window)
      PROVE  Rescrolls(c)
  <2>1. CASE KillSession(s)
    BY <2>1, ClosingRescrolls DEF KillSession
  <2>2. CASE NewWindow(s)
    BY <2>2, UnmovedRescroll DEF NewWindow, DrawAll
  <2>3. ASSUME NEW w, CloseWindow(s, w) PROVE Rescrolls(c)
    BY <2>3, ClosingRescrolls, UnmovedRescroll DEF CloseWindow, DrawAll
  <2>4. ASSUME NEW w, AgentChanges(w) PROVE Rescrolls(c)
    BY <2>4, UnmovedRescroll DEF AgentChanges, DrawAll
  <2>5. CASE Push(s)
    BY <2>5, UnmovedRescroll DEF Push, SetBuffers
  <2>6. CASE PaneOutput(s)
    BY <2>6, UnmovedRescroll DEF PaneOutput, DrawSession
  <2> QED BY <1>6, <2>1, <2>2, <2>3, <2>4, <2>5, <2>6
<1>7. ASSUME NEW i, SwapWindows(i) PROVE Rescrolls(c)
  BY <1>7, UnmovedRescroll DEF SwapWindows, DrawAll
<1>8. CASE UNCHANGED listVars
  BY <1>8 DEF listVars
<1> QED BY <1>1, <1>3, <1>4, <1>5, <1>6, <1>7, <1>8 DEF ListNext

\* The sidebar's lists move under a user only when he moves them, changes his
\* session, or they become too short for where they are.
THEOREM SidebarAlwaysStaysPut == ListSpec => SidebarStaysPut
<1> DEFINE Put(c) ==
             /\ <<rows, agents, clients>>' # <<rows, agents, clients>>
             /\ clients[c] # Nil /\ clients'[c] # Nil
             /\ SessionOf(c)' = SessionOf(c)
             => /\ ShownSessions(c)' = Lesser(ShownSessions(c), MaxSessionsOffset(c)')
                /\ ShownAgents(c)' = Lesser(ShownAgents(c), MaxAgentsOffset(c)')
<1>1. ListInv /\ Placed /\ [ListNext]_listVars => [\A c \in Clients : Put(c)]_listVars
  BY ChangesRescroll, RescrolledStays
<1> QED BY <1>1, ListInvariant, PlacedInvariant, PTL DEF ListSpec, SidebarStaysPut
=============================================================================
