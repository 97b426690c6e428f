----------------------------- MODULE Parts_proofs -----------------------------
(***************************************************************************)
(* Proofs about three components that share no state: one client's keys    *)
(* and overlays, for any panes, bindings and length of a message; the      *)
(* saved sessions, for any number of servers, clients and sessions; and    *)
(* the hooks in the configurations of the agents.                          *)
(*                                                                         *)
(* What a message of n keys decodes to is a recursive function of n.  The  *)
(* first section shows that it satisfies its equation, the second one what *)
(* every decoding is like, by induction over the keys; both inductions are *)
(* well-foundedness of the naturals, so that no operator is a parameter.   *)
(*                                                                         *)
(* PromptInv then says what holds while a message is worked off: Prompt    *)
(* mode, which the whole message has put the keymap in, has a prompt or is *)
(* about to get one.  Each method of the daemon is Tame: it leaves no      *)
(* Prompt mode without a prompt that was not there.                        *)
(*                                                                         *)
(* LoneInv says what the reactions of one key typed in step find: the keys *)
(* in step, and, if it is a command that moves the keymap, with the pane.  *)
(***************************************************************************)
EXTENDS Overlays, ServerLife, Installers, Lists_proofs, FiniteSetTheorems,
        SequenceTheorems, TLAPS

(* The decodings of a message are what their definition says: there is a   *)
(* function that satisfies it.                                             *)
LEMMA ChunksChosen ==
  Chunks = CHOOSE f : f = [n \in 1..MaxKeys |-> IF n = 1 THEN Decoded(NoKeys) ELSE Longer(f[n - 1], n)]
BY DEF Chunks

LEMMA DecodingExists ==
  \E f : f = [n \in 1..MaxKeys |-> IF n = 1 THEN Decoded(NoKeys) ELSE Longer(f[n - 1], n)]
<1> DEFINE Is(f, m) == f = [n \in 1..m |-> IF n = 1 THEN Decoded(NoKeys) ELSE Longer(f[n - 1], n)]
           S == {m \in Nat : \E f : Is(f, m)}
<1>1. 0 \in S
  <2>1. \E f : f = [n \in 1..0 |-> IF n = 1 THEN Decoded(NoKeys) ELSE Longer(f[n - 1], n)]
    <3> WITNESS [n \in 1..0 |-> {}]
    <3> QED OBVIOUS
  <2> QED BY <2>1
<1>2. ASSUME NEW m \in Nat, m \in S PROVE m + 1 \in S
  <2>1. PICK f : Is(f, m)
    BY <1>2
  <2> DEFINE g == [n \in 1..m + 1 |->
                     IF n = 1 THEN Decoded(NoKeys) ELSE Longer(f[n - 1], n)]
  <2>2. \A n \in 1..m : g[n] = f[n]
    BY <2>1
  <2>3. \A n \in 1..m + 1 : n # 1 => n - 1 \in 1..m
    OBVIOUS
  <2>4. g = [n \in 1..m + 1 |-> IF n = 1 THEN Decoded(NoKeys) ELSE Longer(g[n - 1], n)]
    <3>1. ASSUME NEW n \in 1..m + 1
          PROVE  g[n] = IF n = 1 THEN Decoded(NoKeys) ELSE Longer(g[n - 1], n)
      <4>1. CASE n = 1
        BY <4>1
      <4>2. CASE n # 1
        <5>1. g[n] = Longer(f[n - 1], n)
          BY <4>2
        <5>2. g[n - 1] = f[n - 1]
          BY <2>2, <2>3, <4>2
        <5> QED BY <4>2, <5>1, <5>2
      <4> QED BY <4>1, <4>2
    <3> DEFINE b == [n \in 1..m + 1 |-> IF n = 1 THEN Decoded(NoKeys) ELSE Longer(g[n - 1], n)]
    <3>2. \A n \in 1..m + 1 : b[n] = IF n = 1 THEN Decoded(NoKeys) ELSE Longer(g[n - 1], n)
      OBVIOUS
    <3>3. /\ DOMAIN g = 1..m + 1 /\ g = [n \in DOMAIN g |-> g[n]]
          /\ DOMAIN b = 1..m + 1 /\ b = [n \in DOMAIN b |-> b[n]]
      OBVIOUS
    <3> HIDE DEF g, b
    <3>4. \A n \in 1..m + 1 : g[n] = b[n]
      BY <3>1, <3>2
    <3>5. g = b
      BY <3>3, <3>4
    <3> QED BY <3>5 DEF b
  <2>5. Is(g, m + 1)
    BY <2>4
  <2> HIDE DEF g, Is
  <2>6. \E h : Is(h, m + 1)
    BY <2>5
  <2> QED BY <2>6
<1> HIDE DEF S
<1>3. Nat \subseteq S
  BY <1>1, <1>2, UpFromZero
<1> QED BY <1>3, PanesAssumption DEF S

LEMMA ChunksAre ==
  Chunks = [n \in 1..MaxKeys |-> IF n = 1 THEN Decoded(NoKeys) ELSE Longer(Chunks[n - 1], n)]
BY ChunksChosen, DecodingExists

-----------------------------------------------------------------------------
(* Keys                                                                    *)

Uis ==
  [mode : Modes, overlays : SUBSET OverlayNames, prompt : PromptKinds \cup {None},
   copy : Panes \cup {None}, mouse_sel : [pane : Panes, dragging : BOOLEAN] \cup {None}]

\* Modes in which keys are bound to actions.
BoundModes == {"Normal", "AwaitingCommand", "Repeat"}

\* Only the actions that open a prompt lead to Prompt mode.
KeyTyped(k) ==
  /\ k[1] \in Modes /\ k[3] \in Modes
  /\ k[3] = "Prompt" => k[1] = "Prompt" \/ k[2] \in PromptKinds

LEMMA ActionModes ==
  \A a \in DOMAIN OpensMode :
    OpensMode[a] \in Modes /\ (OpensMode[a] = "Prompt" => a \in PromptKinds)
BY DEF OpensMode, Modes, PromptKinds

LEMMA KeysTyped == \A k \in Feed : KeyTyped(k)
<1>3. \A k \in NormalKeys : KeyTyped(k) /\ k[3] # "Prompt"
  BY DEF NormalKeys, KeyTyped, Modes
<1>4. \A k \in PrefixKeys : KeyTyped(k)
  <2>1. \A a \in DOMAIN OpensMode : KeyTyped(<<"AwaitingCommand", a, OpensMode[a]>>)
    BY ActionModes DEF KeyTyped, Modes
  <2>2. \A a \in Repeatable, m \in {"Normal", "Repeat"} : KeyTyped(<<"AwaitingCommand", a, m>>)
    BY DEF KeyTyped, Modes
  <2>3. KeyTyped(<<"AwaitingCommand", "none", "Normal">>)
    BY DEF KeyTyped, Modes
  <2>4. ASSUME NEW k \in PrefixKeys
        PROVE  \/ \E a \in DOMAIN OpensMode : k = <<"AwaitingCommand", a, OpensMode[a]>>
               \/ \E a \in Repeatable, m \in {"Normal", "Repeat"} : k = <<"AwaitingCommand", a, m>>
               \/ k = <<"AwaitingCommand", "none", "Normal">>
    BY DEF PrefixKeys
  <2> QED BY <2>1, <2>2, <2>3, <2>4
<1>5. \A k \in RepeatKeys : KeyTyped(k)
  <2>1. \A a \in Repeatable : KeyTyped(<<"Repeat", a, "Repeat">>)
    BY DEF KeyTyped, Modes
  <2>2. \A k \in NormalKeys : KeyTyped(<<"Repeat", k[2], k[3]>>)
    BY <1>3 DEF KeyTyped, Modes
  <2> QED BY <2>1, <2>2 DEF RepeatKeys
<1>6. \A k \in CopyKeys \cup SearchKeys : KeyTyped(k)
  BY DEF CopyKeys, SearchKeys, KeyTyped, Modes
<1>7. \A k \in PromptKeys \cup OverlayKeys : KeyTyped(k)
  BY DEF PromptKeys, OverlayKeys, KeyTyped, Modes
<1>8. \A k \in ChooserKeys : KeyTyped(k)
  BY DEF ChooserKeys, KeyTyped, Modes
<1> QED BY <1>3, <1>4, <1>5, <1>6, <1>7, <1>8 DEF Feed

\* A prompt is opened by one of the reactions to come.
Pending(rs) == \E i \in 1..Len(rs) : rs[i] \in PromptKinds

\* What n keys decode to.  Prompt mode is the one they were typed in, or a
\* prompt is opened by one of them.
ChunkTyped(c) ==
  /\ c.mode \in Modes /\ c.reactions \in Seq(Reactions)
  /\ c.mode = "Prompt" => ui.mode = "Prompt" \/ Pending(c.reactions)

LEMMA DecodeTyped ==
  ASSUME NEW c, ChunkTyped(c), NEW k \in Feed, k[1] = c.mode
  PROVE  ChunkTyped(Decode(c, k))
<1>1. KeyTyped(k) /\ k[2] \in Reactions
  BY KeysTyped DEF Reactions
<1>2. PICK d : d = Decode(c, k)
  OBVIOUS
<1>3. d.mode = k[3] /\ d.reactions = IF k[2] = "none" THEN c.reactions ELSE Append(c.reactions, k[2])
  BY <1>2 DEF Decode
<1>4. d.mode \in Modes /\ d.reactions \in Seq(Reactions)
  BY <1>1, <1>3 DEF ChunkTyped, KeyTyped
<1>5. ASSUME d.mode = "Prompt", ui.mode # "Prompt" PROVE Pending(d.reactions)
  <2>1. c.reactions \in Seq(Reactions) /\ Len(c.reactions) \in Nat
    BY DEF ChunkTyped
  <2>2. CASE k[2] \in PromptKinds
    <3>1. d.reactions = Append(c.reactions, k[2])
      BY <1>3, <2>2 DEF PromptKinds
    <3>2. /\ Len(d.reactions) = Len(c.reactions) + 1
          /\ d.reactions[Len(c.reactions) + 1] = k[2]
      BY <1>1, <2>1, <3>1 DEF KeyTyped
    <3>3. Len(c.reactions) + 1 \in 1..Len(d.reactions)
      BY <2>1, <3>2
    <3> QED BY <2>2, <3>2, <3>3 DEF Pending
  <2>3. CASE k[1] = "Prompt"
    <3>1. PICK i \in 1..Len(c.reactions) : c.reactions[i] \in PromptKinds
      BY <1>5, <2>3 DEF ChunkTyped, Pending
    <3>2. i \in 1..Len(d.reactions) /\ d.reactions[i] = c.reactions[i]
      BY <1>1, <1>3, <2>1 DEF KeyTyped
    <3> QED BY <3>1, <3>2 DEF Pending
  <2> QED BY <1>1, <1>3, <1>5, <2>2, <2>3 DEF KeyTyped
<1>6. ChunkTyped(d)
  BY <1>4, <1>5 DEF ChunkTyped
<1> QED BY <1>2, <1>6

\* By induction over the keys of the message.
LEMMA ChunksTyped ==
  ASSUME ui.mode \in Modes
  PROVE  \A n \in 1..MaxKeys : \A c \in Chunks[n] : ChunkTyped(c)
<1> DEFINE S == {n \in Nat : n \in 1..MaxKeys => \A c \in Chunks[n] : ChunkTyped(c)}
<1>1. 0 \in S
  OBVIOUS
<1>2. ASSUME NEW n \in Nat, n \in S PROVE n + 1 \in S
  <2> SUFFICES ASSUME n + 1 \in 1..MaxKeys, NEW c \in Chunks[n + 1] PROVE ChunkTyped(c)
    OBVIOUS
  <2>1. MaxKeys \in Nat
    BY PanesAssumption
  <2>2. CASE n = 0
    <3>1. Chunks[1] = Decoded(NoKeys)
      BY <2>1, <2>2, ChunksAre
    <3>2. ChunkTyped(NoKeys)
      BY DEF ChunkTyped, NoKeys
    <3>3. PICK k \in Feed : k[1] = NoKeys.mode /\ c = Decode(NoKeys, k)
      BY <2>2, <3>1 DEF Decoded
    <3> QED BY <3>2, <3>3, DecodeTyped
  <2>3. CASE n # 0
    <3>1. Chunks[n + 1] = Longer(Chunks[n + 1 - 1], n + 1) /\ n + 1 - 1 = n /\ n \in 1..MaxKeys
      BY <2>1, <2>3, ChunksAre
    <3>2. PICK d \in Chunks[n] : c \in Decoded(d)
      BY <3>1 DEF Longer
    <3>3. ChunkTyped(d)
      BY <1>2, <3>1, <3>2
    <3>4. PICK k \in Feed : k[1] = d.mode /\ c = Decode(d, k)
      BY <3>2 DEF Decoded
    <3> QED BY <3>3, <3>4, DecodeTyped
  <2> QED BY <2>2, <2>3
<1> HIDE DEF S
<1>3. Nat \subseteq S
  BY <1>1, <1>2, UpFromZero
<1> QED BY <1>3, PanesAssumption DEF S

-----------------------------------------------------------------------------
(* What the daemon's methods do to a client's entries                      *)

\* Entries u become v: they are in Prompt mode without a prompt, if at all, as
\* they were before.
Tame(u, v) ==
  /\ v \in Uis
  /\ v.mode = "Prompt" /\ v.prompt = None => u.mode = "Prompt" /\ u.prompt = None

LEMMA TameTwice ==
  ASSUME NEW u, NEW v, NEW w, Tame(u, v), Tame(v, w)
  PROVE  Tame(u, w)
BY DEF Tame

LEMMA ModeSet ==
  ASSUME NEW u \in Uis, NEW m \in Modes
  PROVE  LET v == [u EXCEPT !.mode = m]
         IN  /\ v \in Uis /\ v.mode = m /\ v.overlays = u.overlays /\ v.prompt = u.prompt
             /\ v.copy = u.copy /\ v.mouse_sel = u.mouse_sel
BY DEF Uis

LEMMA ResetSets ==
  ASSUME NEW u \in Uis
  PROVE  /\ Reset(u) \in Uis /\ Reset(u).mode = "Normal" /\ Reset(u).overlays = u.overlays
         /\ Reset(u).prompt = u.prompt /\ Reset(u).copy = u.copy
         /\ Reset(u).mouse_sel = u.mouse_sel
<1>1. "Normal" \in Modes
  BY DEF Modes
<1> QED BY <1>1 DEF Reset, Uis

LEMMA OpenSets ==
  ASSUME NEW u \in Uis, NEW o \in OverlayNames
  PROVE  /\ Open(u, o) \in Uis /\ Open(u, o).mode = u.mode
         /\ Open(u, o).overlays = u.overlays \cup {o} /\ Open(u, o).prompt = u.prompt
         /\ Open(u, o).copy = u.copy /\ Open(u, o).mouse_sel = u.mouse_sel
BY DEF Open, Uis

LEMMA CloseSets ==
  ASSUME NEW u \in Uis, NEW o
  PROVE  /\ Close(u, o) \in Uis /\ Close(u, o).mode = u.mode
         /\ Close(u, o).overlays = u.overlays \ {o} /\ Close(u, o).prompt = u.prompt
         /\ Close(u, o).copy = u.copy /\ Close(u, o).mouse_sel = u.mouse_sel
BY DEF Close, Uis

LEMMA CopySet ==
  ASSUME NEW u \in Uis, NEW p \in Panes \cup {None}
  PROVE  LET v == [u EXCEPT !.copy = p]
         IN  /\ v \in Uis /\ v.mode = u.mode /\ v.overlays = u.overlays /\ v.prompt = u.prompt
             /\ v.copy = p /\ v.mouse_sel = u.mouse_sel
BY DEF Uis

LEMMA SelectionSet ==
  ASSUME NEW u \in Uis, NEW s \in [pane : Panes, dragging : BOOLEAN] \cup {None}
  PROVE  LET v == [u EXCEPT !.mouse_sel = s]
         IN  /\ v \in Uis /\ v.mode = u.mode /\ v.overlays = u.overlays /\ v.prompt = u.prompt
             /\ v.copy = u.copy /\ v.mouse_sel = s
BY DEF Uis

\* Copy mode is over, with its search, and nothing else changed.
LEMMA ExitCopyModeSets ==
  ASSUME NEW u \in Uis
  PROVE  LET v == ExitCopyMode(u)
         IN  /\ v \in Uis /\ v.prompt = u.prompt /\ v.copy = None /\ v.mouse_sel = None
             /\ v.overlays = u.overlays \ {"search"}
             /\ v = u \/ v.mode = "Normal"
             /\ u.copy # None \/ u.mouse_sel # None \/ "search" \in u.overlays => v.mode = "Normal"
<1> DEFINE s == [u EXCEPT !.copy = None, !.mouse_sel = None]
<1>1. /\ s \in Uis /\ s.mode = u.mode /\ s.overlays = u.overlays /\ s.prompt = u.prompt
      /\ s.copy = None /\ s.mouse_sel = None
  BY DEF Uis
<1>2. ExitCopyMode(u) = IF u.copy = None /\ "search" \notin u.overlays /\ u.mouse_sel = None
                        THEN u ELSE Reset(Close(s, "search"))
  BY DEF ExitCopyMode
<1> HIDE DEF s
<1>3. PICK t \in Uis : /\ t = Close(s, "search") /\ t.overlays = u.overlays \ {"search"}
                       /\ t.prompt = u.prompt /\ t.copy = None /\ t.mouse_sel = None
  BY <1>1, CloseSets
<1>4. PICK w \in Uis : /\ w = Reset(t) /\ w.overlays = u.overlays \ {"search"}
                       /\ w.prompt = u.prompt /\ w.copy = None /\ w.mouse_sel = None
                       /\ w.mode = "Normal"
  BY <1>3, ResetSets
<1> QED BY <1>2, <1>3, <1>4

LEMMA ExitCopyModeTame ==
  ASSUME NEW u \in Uis
  PROVE  Tame(u, ExitCopyMode(u))
BY ExitCopyModeSets DEF Tame

LEMMA RenderedTame ==
  ASSUME NEW u \in Uis, NEW f, NEW a
  PROVE  Tame(u, Rendered(u, f, a)) /\ Rendered(u, f, a).prompt = u.prompt
BY ExitCopyModeSets DEF Tame, Rendered

LEMMA SmallTame ==
  ASSUME NEW u \in Uis
  PROVE  /\ Tame(u, u) /\ Tame(u, Reset(u))
         /\ \A o \in OverlayNames : Tame(u, Open(u, o))
         /\ \A o : Tame(u, Close(u, o))
         /\ \A p \in Panes \cup {None} : Tame(u, [u EXCEPT !.copy = p])
         /\ \A s \in [pane : Panes, dragging : BOOLEAN] \cup {None} :
              Tame(u, [u EXCEPT !.mouse_sel = s])
<1>1. Tame(u, u) /\ Tame(u, Reset(u))
  BY ResetSets DEF Tame
<1>2. \A o \in OverlayNames : Tame(u, Open(u, o))
  BY OpenSets DEF Tame
<1>3. \A o : Tame(u, Close(u, o))
  BY CloseSets DEF Tame
<1>4. \A p \in Panes \cup {None} : Tame(u, [u EXCEPT !.copy = p])
  BY CopySet DEF Tame
<1>5. \A s \in [pane : Panes, dragging : BOOLEAN] \cup {None} :
        Tame(u, [u EXCEPT !.mouse_sel = s])
  BY SelectionSet DEF Tame
<1> QED BY <1>1, <1>2, <1>3, <1>4, <1>5

LEMMA EnterCopyModeSets ==
  ASSUME NEW u \in Uis, NEW p \in Panes
  PROVE  LET v == EnterCopyMode(u, p)
         IN  /\ v \in Uis /\ v.overlays = u.overlays /\ v.prompt = u.prompt
             /\ v.mouse_sel = u.mouse_sel
             /\ v = u \/ (v.copy = p /\ v.mode = "Copy")
<1>1. "Copy" \in Modes
  BY DEF Modes
<1> DEFINE s == [u EXCEPT !.copy = p, !.mode = "Copy"]
<1>2. /\ s \in Uis /\ s.overlays = u.overlays /\ s.prompt = u.prompt
      /\ s.mouse_sel = u.mouse_sel /\ s.copy = p /\ s.mode = "Copy"
  BY <1>1 DEF Uis
<1>3. EnterCopyMode(u, p) = u \/ EnterCopyMode(u, p) = s
  BY DEF EnterCopyMode
<1> HIDE DEF s
<1>4. PICK w : w = EnterCopyMode(u, p)
  OBVIOUS
<1>5. /\ w \in Uis /\ w.overlays = u.overlays /\ w.prompt = u.prompt
      /\ w.mouse_sel = u.mouse_sel
      /\ w = u \/ (w.copy = p /\ w.mode = "Copy")
  BY <1>2, <1>3, <1>4
<1> QED BY <1>4, <1>5

LEMMA OpenPromptSets ==
  ASSUME NEW u \in Uis, NEW kind \in PromptKinds
  PROVE  LET v == OpenPrompt(u, kind)
         IN  /\ v \in Uis /\ v.overlays = u.overlays /\ v.prompt = kind /\ kind # None
             /\ v.copy = u.copy /\ v.mouse_sel = u.mouse_sel /\ v.mode = "Prompt"
<1>1. "Prompt" \in Modes
  BY DEF Modes
<1> QED BY <1>1, BindingsAssumption DEF OpenPrompt, Uis

LEMMA ClosePromptSets ==
  ASSUME NEW u \in Uis
  PROVE  LET v == ClosePrompt(u)
         IN  /\ v \in Uis /\ v.overlays = u.overlays /\ v.prompt = None /\ v.copy = u.copy
             /\ v.mouse_sel = u.mouse_sel /\ v.mode = "Normal"
<1> DEFINE w == [u EXCEPT !.prompt = None]
<1>1. w \in Uis /\ w.overlays = u.overlays /\ w.prompt = None /\ w.copy = u.copy
      /\ w.mouse_sel = u.mouse_sel
  BY DEF Uis
<1>2. ClosePrompt(u) = Reset(w)
  BY DEF ClosePrompt
<1> HIDE DEF w
<1> QED BY <1>1, <1>2, ResetSets

LEMMA ToggleClockSets ==
  ASSUME NEW u \in Uis
  PROVE  LET v == ToggleClock(u)
         IN  /\ v \in Uis /\ v.prompt = u.prompt /\ v.copy = u.copy /\ v.mouse_sel = u.mouse_sel
             /\ "clock" \in u.overlays => v.overlays = u.overlays \ {"clock"} /\ v.mode = u.mode
             /\ "clock" \notin u.overlays => v.overlays = u.overlays \cup {"clock"} /\ v.mode = "Clock"
<1>1. "clock" \in OverlayNames /\ "Clock" \in Modes
  BY DEF OverlayNames, ModalOverlays, Modes
<1>2. PICK w \in Uis : /\ w = Open(u, "clock") /\ w.overlays = u.overlays \cup {"clock"}
                       /\ w.prompt = u.prompt /\ w.copy = u.copy /\ w.mouse_sel = u.mouse_sel
  BY <1>1, OpenSets
<1> DEFINE x == [w EXCEPT !.mode = "Clock"]
<1>3. /\ x \in Uis /\ x.overlays = u.overlays \cup {"clock"}
      /\ x.prompt = u.prompt /\ x.copy = u.copy /\ x.mouse_sel = u.mouse_sel
      /\ x.mode = "Clock"
  BY <1>1, <1>2 DEF Uis
<1>4. ToggleClock(u) = IF "clock" \in u.overlays THEN Close(u, "clock") ELSE x
  BY <1>2 DEF ToggleClock
<1> HIDE DEF x
<1>5. CASE "clock" \in u.overlays
  BY <1>4, <1>5, CloseSets
<1>6. CASE "clock" \notin u.overlays
  BY <1>3, <1>4, <1>6
<1> QED BY <1>5, <1>6

LEMMA CopyMethodsTame ==
  ASSUME NEW u \in Uis
  PROVE  /\ Tame(u, CopyNavigate(u)) /\ Tame(u, CopyQuit(u)) /\ Tame(u, CopyYank(u))
         /\ Tame(u, SearchOpen(u)) /\ \A empty \in BOOLEAN : Tame(u, SearchConfirm(u, empty))
<1>1. PICK x \in Uis : x = ExitCopyMode(u) /\ Tame(u, x)
  BY ExitCopyModeTame DEF Tame
<1>2. PICK y \in Uis : y = [u EXCEPT !.copy = None] /\ Tame(u, y)
  BY SmallTame DEF Tame
<1>3. PICK z \in Uis : z = Close(u, "search") /\ Tame(u, z)
  BY SmallTame DEF Tame
<1>4. Tame(u, CopyNavigate(u))
  BY <1>1, SmallTame DEF CopyNavigate
<1>5. Tame(u, CopyQuit(u))
  <2>1. Tame(u, Reset(x))
    BY <1>1, SmallTame, TameTwice
  <2>2. PICK w \in Uis : w = Close(y, "search") /\ Tame(y, w)
    BY SmallTame DEF Tame
  <2>3. Tame(u, w) /\ Tame(w, Reset(w))
    BY <1>2, <2>2, SmallTame, TameTwice
  <2>4. Tame(u, Reset(w))
    BY <2>3, TameTwice
  <2>5. CopyQuit(u) = IF CopyTargetIsActive(u) THEN Reset(w) ELSE Reset(x)
    BY <1>1, <1>2, <2>2 DEF CopyQuit
  <2> QED BY <2>1, <2>4, <2>5
<1>6. Tame(u, CopyYank(u))
  BY <1>1, <1>2 DEF CopyYank
<1>7. Tame(u, SearchOpen(u))
  <2>1. "search" \in OverlayNames
    BY DEF OverlayNames
  <2> QED BY <2>1, SmallTame DEF SearchOpen
<1>8. ASSUME NEW empty \in BOOLEAN PROVE Tame(u, SearchConfirm(u, empty))
  <2>1. Tame(z, ExitCopyMode(z))
    BY ExitCopyModeTame
  <2>2. Tame(u, ExitCopyMode(z))
    BY <1>3, <2>1, TameTwice
  <2> QED BY <1>3, <2>2 DEF SearchConfirm
<1> QED BY <1>4, <1>5, <1>6, <1>7, <1>8

LEMMA TogglesTame ==
  ASSUME NEW u \in Uis
  PROVE  /\ Tame(u, ToggleClock(u)) /\ Tame(u, ToggleHelp(u)) /\ Tame(u, SetConfig(u))
         /\ \A p \in Panes : Tame(u, EnterCopyMode(u, p))
<1>1. "help" \in OverlayNames
  BY DEF OverlayNames, ModalOverlays
<1>2. Tame(u, ToggleClock(u))
  BY ToggleClockSets DEF Tame
<1>3. Tame(u, ToggleHelp(u))
  BY <1>1, SmallTame DEF ToggleHelp
<1>4. Tame(u, SetConfig(u))
  BY SmallTame DEF SetConfig
<1>5. \A p \in Panes : Tame(u, EnterCopyMode(u, p))
  BY EnterCopyModeSets DEF Tame
<1> QED BY <1>2, <1>3, <1>4, <1>5

LEMMA MouseTame ==
  ASSUME NEW u \in Uis, focus \in Panes
  PROVE  /\ Tame(u, CancelMouseGestures(u))
         /\ \A p \in Panes : Tame(u, ExitCopyModeIfFocusChanges(u, p))
         /\ \A p \in Panes, fresh \in BOOLEAN : Tame(u, MouseSelArm(u, p, fresh))
         /\ \A fresh \in BOOLEAN : u.mouse_sel # None => Tame(u, MouseSelDrag(u, fresh))
         /\ Tame(u, MouseSelFinish(u))
<1>1. PICK x \in Uis : x = [u EXCEPT !.mouse_sel = None] /\ Tame(u, x)
  BY SmallTame DEF Tame
<1>2. Tame(u, u) /\ Tame(u, ExitCopyMode(u))
  BY SmallTame, ExitCopyModeTame
<1>3. Tame(u, CancelMouseGestures(u))
  BY <1>1, <1>2 DEF CancelMouseGestures
<1>4. \A p \in Panes : Tame(u, ExitCopyModeIfFocusChanges(u, p))
  BY <1>2 DEF ExitCopyModeIfFocusChanges
<1>5. ASSUME NEW p \in Panes, NEW fresh \in BOOLEAN PROVE Tame(u, MouseSelArm(u, p, fresh))
  <2>1. PICK s \in [pane : Panes, dragging : BOOLEAN] : s = [pane |-> p, dragging |-> FALSE]
    OBVIOUS
  <2>2. Tame(u, [u EXCEPT !.mouse_sel = s])
    BY SmallTame
  <2> QED BY <1>2, <2>1, <2>2 DEF MouseSelArm
<1>6. ASSUME NEW fresh \in BOOLEAN, u.mouse_sel # None PROVE Tame(u, MouseSelDrag(u, fresh))
  <2>1. PICK p \in Panes : p = u.mouse_sel.pane
    BY <1>6 DEF Uis
  <2>2. PICK y \in Uis : y = (IF u.copy = None THEN EnterCopyMode(u, p) ELSE u) /\ Tame(u, y)
    BY <1>2, TogglesTame DEF Tame
  <2>3. PICK s \in [pane : Panes, dragging : BOOLEAN] : s = [pane |-> p, dragging |-> TRUE]
    OBVIOUS
  <2>4. PICK z \in Uis : z = [y EXCEPT !.mouse_sel = s] /\ Tame(y, z)
    BY SmallTame DEF Tame
  <2>5. MouseSelDrag(u, fresh) \in {x, u, z}
    BY <1>1, <2>1, <2>2, <2>3, <2>4 DEF MouseSelDrag
  <2>6. Tame(u, z)
    BY <2>2, <2>4, TameTwice
  <2> QED BY <1>1, <1>2, <2>5, <2>6
<1>7. Tame(u, MouseSelFinish(u))
  <2>1. Tame(x, CopyYank(x)) /\ Tame(x, ExitCopyMode(x))
    BY CopyMethodsTame, ExitCopyModeTame
  <2>2. Tame(u, CopyYank(x)) /\ Tame(u, ExitCopyMode(x))
    BY <1>1, <2>1, TameTwice
  <2>3. MouseSelFinish(u) = IF u.mouse_sel.pane = focus THEN CopyYank(x) ELSE ExitCopyMode(x)
    BY <1>1 DEF MouseSelFinish
  <2> QED BY <2>2, <2>3
<1> QED BY <1>3, <1>4, <1>5, <1>6, <1>7

-----------------------------------------------------------------------------
(* Prompt mode has its prompt                                              *)

Words == Seq(Reactions)

\* The inductive invariant: while a message is worked off, the prompt of Prompt
\* mode may still be to be opened.
PromptInv ==
  /\ ui \in Uis /\ focus \in Panes /\ reactions \in Words
  /\ ui.mode = "Prompt" => ui.prompt # None \/ Pending(reactions)

LEMMA Appended ==
  ASSUME NEW h \in Words, NEW t \in Words
  PROVE  h \o t \in Words /\ (Pending(t) => Pending(h \o t))
<1>1. /\ h \o t \in Words /\ Len(h \o t) = Len(h) + Len(t)
      /\ Len(h) \in Nat /\ Len(t) \in Nat
      /\ \A i \in 1..Len(h) + Len(t) : (h \o t)[i] = IF i <= Len(h) THEN h[i] ELSE t[i - Len(h)]
  BY ConcatProperties, LenProperties DEF Words
<1>2. ASSUME NEW i \in 1..Len(t), t[i] \in PromptKinds PROVE Pending(h \o t)
  <2>1. Len(h) + i \in 1..Len(h) + Len(t) /\ Len(h) + i - Len(h) = i /\ ~ Len(h) + i <= Len(h)
    BY <1>1
  <2>2. (h \o t)[Len(h) + i] = t[i]
    BY <1>1, <2>1
  <2> QED BY <1>1, <1>2, <2>1, <2>2 DEF Pending
<1> QED BY <1>1, <1>2 DEF Pending

LEMMA CommandWords == <<>> \in Words /\ \A c \in Commands : <<c>> \in Words
<1>1. \A c \in Commands : c \in Reactions
  BY DEF Reactions
<1> QED BY <1>1 DEF Words

LEMMA ChainWords ==
  ASSUME NEW chain \in {<<>>} \cup Chains \cup Hooks
  PROVE  chain \in Seq(Commands) /\ chain \in Words
<1>1. Commands \subseteq Reactions
  BY DEF Reactions
<1>2. Seq(Commands \ {"focus"}) \subseteq Seq(Commands) /\ Seq(Commands) \subseteq Words
  BY <1>1 DEF Words
<1>3. <<>> \in Seq(Commands)
  OBVIOUS
<1>4. Chains \subseteq Seq(Commands) /\ Hooks \subseteq Seq(Commands \ {"focus"})
  BY BindingsAssumption
<1> QED BY <1>2, <1>3, <1>4

LEMMA NothingPending == ~ Pending(<<>>)
BY DEF Pending

\* A reaction is carried out, or a message is decoded.
LEMMA ContinueKeeps ==
  ASSUME PromptInv, NEW u \in Uis, NEW f \in Panes, NEW rest \in Words, Continue(u, f, rest),
         u.mode = "Prompt" => u.prompt # None \/ Pending(rest)
  PROVE  PromptInv'
<1>1. focus' = f /\ reactions' = rest
      /\ ui' = IF rest = <<>> /\ ~ more' THEN Rendered(u, f, alt) ELSE u
  BY DEF Continue
<1>2. CASE rest = <<>>
  <2>1. Tame(u, ui') /\ ui'.prompt = u.prompt
    BY <1>1, <1>2, RenderedTame, SmallTame
  <2>2. u.mode = "Prompt" => u.prompt # None
    BY <1>2, NothingPending
  <2> QED BY <1>1, <2>1, <2>2 DEF PromptInv, Tame
<1>3. CASE rest # <<>>
  BY <1>1, <1>3 DEF PromptInv, Pending
<1> QED BY <1>2, <1>3

\* The same, when what is to come is still to come.
LEMMA TameContinues ==
  ASSUME PromptInv, NEW u, Tame(ui, u), NEW f \in Panes, NEW rest \in Words,
         Pending(reactions) => Pending(rest), Continues(u, f, rest)
  PROVE  PromptInv'
<1>1. Continue(u, f, rest)
  BY DEF Continues
<1>2. u.mode = "Prompt" => u.prompt # None \/ Pending(rest)
  BY DEF Tame, PromptInv
<1> QED BY <1>1, <1>2, ContinueKeeps DEF Tame

\* What the reaction op does, before those of t.
LEMMA ReactKeeps ==
  ASSUME PromptInv, NEW op, NEW t \in Words,
         Pending(reactions) => op \in PromptKinds \/ Pending(t), React(op, t)
  PROVE  PromptInv'
<1>1. ui \in Uis /\ focus \in Panes
  BY DEF PromptInv
<1>2. CASE op \in PromptKinds /\ Continues(OpenPrompt(ui, op), focus, t)
  BY <1>1, <1>2, OpenPromptSets, ContinueKeeps DEF Continues
<1>3. CASE op \notin PromptKinds
  <2>1. Pending(reactions) => Pending(t)
    BY <1>3
  <2>2. CASE OpenOverlay(op, t)
    <3>1. PICK u : Continues(u, focus, t) /\ Tame(ui, u)
      <4>1. {"sessions", "panes", "menu", "buffers"} \subseteq OverlayNames
        BY DEF OverlayNames, ModalOverlays
      <4>2. /\ \A o \in {"sessions", "panes", "menu"} : Tame(ui, Open(ui, o))
            /\ Tame(ui, Open(ui, "buffers")) /\ Tame(ui, ui)
        BY <1>1, <4>1, SmallTame
      <4> QED BY <1>1, <1>3, <2>2, <4>2, TogglesTame DEF OpenOverlay
    <3> QED BY <1>1, <2>1, <3>1, TameContinues
  <2>3. CASE CopyKey(op, t)
    <3>1. Tame(ui, Reset(CopyYank(ui)))
      <4>1. PICK y \in Uis : y = CopyYank(ui) /\ Tame(ui, y)
        BY <1>1, CopyMethodsTame DEF Tame
      <4>2. Tame(y, Reset(y))
        BY SmallTame
      <4> QED BY <4>1, <4>2, TameTwice
    <3>2. PICK u : Continues(u, focus, t) /\ Tame(ui, u)
      BY <1>1, <2>3, <3>1, CopyMethodsTame, SmallTame DEF CopyKey
    <3> QED BY <1>1, <2>1, <3>2, TameContinues
  <2>4. CASE CloseOverlay(op, t)
    <3>1. Tame(ui, ClosePrompt(ui))
      BY <1>1, ClosePromptSets DEF Tame
    <3>2. PICK u : Continues(u, focus, t) /\ Tame(ui, u)
      BY <1>1, <2>4, <3>1, SmallTame DEF CloseOverlay
    <3> QED BY <1>1, <2>1, <3>2, TameContinues
  <2>5. CASE ReloadConfig(op, t)
    <3>1. PICK u : Continues(u, focus, t) /\ Tame(ui, u)
      BY <1>1, <2>5, TogglesTame, SmallTame DEF ReloadConfig
    <3> QED BY <1>1, <2>1, <3>1, TameContinues
  <2>6. CASE MoveFocus(op, t)
    <3>1. \A h \in {<<>>} \cup Hooks : h \in Words
      BY ChainWords
    <3>2. PICK f \in Panes :
            \/ \E hook \in {<<>>} \cup Hooks : Continues(ui, f, hook \o t)
            \/ Continues(Close(ui, "panes"), f, t)
            \/ \E g \in {f, focus} : Continues(Close(ui, "sessions"), g, t)
      BY <2>6 DEF MoveFocus
    <3>3. CASE \E hook \in {<<>>} \cup Hooks : Continues(ui, f, hook \o t)
      <4>1. PICK h \in Words : Continues(ui, f, h \o t)
        BY <3>1, <3>3
      <4>2. PICK r \in Words : r = h \o t /\ (Pending(t) => Pending(r))
        BY Appended
      <4>3. Tame(ui, ui) /\ Continues(ui, f, r) /\ (Pending(reactions) => Pending(r))
        BY <1>1, <2>1, <4>1, <4>2, SmallTame
      <4> QED BY <4>3, TameContinues
    <3>4. CASE Continues(Close(ui, "panes"), f, t)
      <4>1. Tame(ui, Close(ui, "panes"))
        BY <1>1, SmallTame
      <4> QED BY <2>1, <3>4, <4>1, TameContinues
    <3>5. CASE \E g \in {f, focus} : Continues(Close(ui, "sessions"), g, t)
      <4>1. Tame(ui, Close(ui, "sessions"))
        BY <1>1, SmallTame
      <4> QED BY <1>1, <2>1, <3>5, <4>1, TameContinues
    <3> QED BY <3>2, <3>3, <3>4, <3>5
  <2>7. CASE PromptConfirm(op, t)
    <3>1. \A k \in {"name", "command"} : \A i \in Intents[k] : i \in Words
      <4>1. "focus" \in Commands
        BY DEF Commands
      <4> QED BY <4>1, CommandWords, ChainWords DEF Intents
    <3>2. PICK h \in Words : Continues(ClosePrompt(ui), focus, h \o t)
      <4>1. ui.prompt # None => ui.prompt \in {"name", "command"}
        BY <1>1 DEF Uis, PromptKinds
      <4> QED BY <2>7, <3>1, <4>1, CommandWords DEF PromptConfirm
    <3>3. PICK r \in Words : r = h \o t /\ (Pending(t) => Pending(r))
      BY Appended
    <3>4. Tame(ui, ClosePrompt(ui))
      BY <1>1, ClosePromptSets DEF Tame
    <3> QED BY <1>1, <2>1, <3>2, <3>3, <3>4, TameContinues
  <2>8. CASE RunCommands(op, t)
    <3>1. PICK h \in Words : Continues(ui, focus, h \o t)
      BY <2>8, ChainWords DEF RunCommands
    <3>2. PICK r \in Words : r = h \o t /\ (Pending(t) => Pending(r))
      BY Appended
    <3>3. Tame(ui, ui) /\ Continues(ui, focus, r) /\ (Pending(reactions) => Pending(r))
      BY <1>1, <2>1, <3>1, <3>2, SmallTame
    <3> QED BY <1>1, <3>3, TameContinues
  <2> QED BY <1>3, <2>2, <2>3, <2>4, <2>5, <2>6, <2>7, <2>8 DEF React
<1>4. CASE op \in PromptKinds /\ ~ Continues(OpenPrompt(ui, op), focus, t)
  <2>1. op \in {"name", "command"}
    BY <1>4 DEF PromptKinds
  <2> QED
    BY <1>4, <2>1
    DEF React, OpenOverlay, CopyKey, CloseOverlay, ReloadConfig, MoveFocus, RunCommands,
        PromptConfirm
<1> QED BY <1>2, <1>3, <1>4

\* Entries that need no reaction to come.
Sound(u) == u \in Uis /\ (u.mode = "Prompt" => u.prompt # None)

LEMMA TameSound ==
  ASSUME NEW u, NEW v, Sound(u), Tame(u, v)
  PROVE  Sound(v)
BY DEF Sound, Tame

LEMMA SoundNow ==
  ASSUME PromptInv, reactions = <<>>
  PROVE  Sound(ui) /\ ui \in Uis /\ focus \in Panes
BY NothingPending DEF PromptInv, Sound

LEMMA HandledKeeps ==
  ASSUME PromptInv, NEW u, Sound(u), NEW f \in Panes, Handled(u, f)
  PROVE  PromptInv'
<1>1. u \in Uis /\ focus' = f /\ reactions' = reactions /\ (ui' = u \/ ui' = Rendered(u, f, alt))
  BY DEF Sound, Handled, HandledLast, HandledFirst
<1>2. Tame(u, u) /\ Tame(u, Rendered(u, f, alt))
  BY <1>1, SmallTame, RenderedTame
<1>3. Sound(ui')
  BY <1>1, <1>2, TameSound
<1> QED BY <1>1, <1>3 DEF PromptInv, Sound

LEMMA DismissKeeps ==
  ASSUME PromptInv, NEW u, Sound(u), DismissMenu(u)
  PROVE  PromptInv'
<1>1. focus \in Panes /\ u \in Uis
  BY DEF PromptInv, Sound
<1>2. PICK v \in Uis : v = Close(u, "menu") /\ Sound(v)
  BY <1>1, SmallTame, TameSound DEF Sound
<1>3. CASE Handled(v, focus)
  BY <1>1, <1>2, <1>3, HandledKeeps
<1>4. CASE ApplyMenuAction(v)
  <2>1. "name" \in PromptKinds
    BY DEF PromptKinds
  <2>2. \A w \in Uis : Sound(OpenPrompt(w, "name"))
    BY <2>1, OpenPromptSets DEF Sound
  <2>3. PICK p \in Panes :
          \/ Handled(OpenPrompt(v, "name"), p)
          \/ Handled(OpenPrompt(ExitCopyModeIfFocusChanges(v, p), "name"), p)
          \/ Handled(v, p)
          \/ \E split \in Panes : Handled(ExitCopyModeIfFocusChanges(v, p), split)
    BY <1>4 DEF ApplyMenuAction
  <2>4. PICK w \in Uis : w = ExitCopyModeIfFocusChanges(v, p) /\ Sound(w)
    BY <1>1, <1>2, <2>3, MouseTame, TameSound DEF Sound
  <2>5. Sound(OpenPrompt(v, "name")) /\ Sound(OpenPrompt(w, "name"))
    BY <1>2, <2>2, <2>4
  <2> QED BY <1>2, <2>3, <2>4, <2>5, HandledKeeps
<1> QED BY <1>2, <1>3, <1>4 DEF DismissMenu

LEMMA MouseKeeps ==
  ASSUME PromptInv,
         \/ MenuKey \/ ButtonOnModal \/ PressOnMenu \/ RightPress \/ Release
         \/ \E p \in Panes : Wheel(p) \/ PressRow(p) \/ \E fresh \in BOOLEAN : PressPane(p, fresh)
         \/ \E fresh \in BOOLEAN : Drag(fresh)
  PROVE  PromptInv'
<1>1. reactions = <<>>
  BY DEF MenuKey, ButtonOnModal, PressOnMenu, RightPress, Release, Wheel, PressRow, PressPane,
         Drag, DismissMenu, ApplyMenuAction, SidebarPick, FocusClientPane, Handled, HandledLast,
         HandledFirst
<1>2. Sound(ui) /\ ui \in Uis /\ focus \in Panes
  BY <1>1, SoundNow
<1>3. PICK c \in Uis : c = CancelMouseGestures(ui) /\ Sound(c)
  BY <1>2, MouseTame, TameSound DEF Sound
<1>4. CASE MenuKey
  BY <1>2, <1>4, DismissKeeps DEF MenuKey
<1>5. CASE ButtonOnModal
  BY <1>2, <1>3, <1>5, HandledKeeps DEF ButtonOnModal
<1>6. CASE PressOnMenu
  BY <1>3, <1>6, DismissKeeps DEF PressOnMenu
<1>7. CASE RightPress
  <2>1. "menu" \in OverlayNames
    BY DEF OverlayNames
  <2>2. Sound(Open(c, "menu"))
    BY <1>3, <2>1, SmallTame, TameSound
  <2> QED BY <1>2, <1>3, <1>7, <2>2, HandledKeeps DEF RightPress
<1>8. CASE Release
  <2>1. PICK y \in Uis : y = MouseSelFinish(ui) /\ Sound(y)
    BY <1>2, MouseTame, TameSound DEF Sound
  <2>2. Sound(Reset(y))
    BY <2>1, SmallTame, TameSound
  <2> QED BY <1>2, <1>3, <1>8, <2>1, <2>2, HandledKeeps DEF Release
<1>9. ASSUME NEW p \in Panes, Wheel(p) PROVE PromptInv'
  <2>1. Sound(CopyNavigate(ui)) /\ Sound(EnterCopyMode(ui, p))
    BY <1>2, CopyMethodsTame, TogglesTame, TameSound
  <2> QED BY <1>2, <1>9, <2>1, HandledKeeps DEF Wheel
<1>10. ASSUME NEW p \in Panes, PressRow(p) PROVE PromptInv'
  <2>1. Sound(ExitCopyMode(c)) /\ Sound(ExitCopyModeIfFocusChanges(c, p))
    BY <1>2, <1>3, ExitCopyModeTame, MouseTame, TameSound
  <2> QED BY <1>3, <1>10, <2>1, HandledKeeps DEF PressRow, SidebarPick, FocusClientPane
<1>11. ASSUME NEW p \in Panes, NEW fresh \in BOOLEAN, PressPane(p, fresh) PROVE PromptInv'
  <2>1. PICK x \in Uis : x = ExitCopyModeIfFocusChanges(c, p) /\ Sound(x)
    BY <1>2, <1>3, MouseTame, TameSound DEF Sound
  <2>2. PICK y \in Uis : y = MouseSelArm(x, p, fresh) /\ Sound(y)
    BY <1>2, <2>1, MouseTame, TameSound DEF Sound
  <2>3. Sound(ExitCopyModeIfFocusChanges(y, p))
    BY <1>2, <2>2, MouseTame, TameSound
  <2> QED BY <1>3, <1>11, <2>1, <2>2, <2>3, HandledKeeps DEF PressPane, FocusClientPane
<1>12. ASSUME NEW fresh \in BOOLEAN, Drag(fresh) PROVE PromptInv'
  <2>1. Sound(MouseSelDrag(ui, fresh))
    BY <1>2, <1>12, MouseTame, TameSound DEF Drag
  <2> QED BY <1>2, <1>12, <2>1, HandledKeeps DEF Drag
<1> QED BY <1>4, <1>5, <1>6, <1>7, <1>8, <1>9, <1>10, <1>11, <1>12

LEMMA TypeKeeps ==
  ASSUME PromptInv, TypeKeys
  PROVE  PromptInv'
<1>1. PICK n \in 1..MaxKeys : \E chunk \in Chunks[n] : Type(n, chunk)
  BY DEF TypeKeys
<1>2. PICK c \in Chunks[n] : Type(n, c)
  BY <1>1
<1>3. reactions = <<>>
  BY <1>2 DEF Type
<1>4. Sound(ui) /\ ui \in Uis /\ focus \in Panes
  BY <1>3, SoundNow
<1>5. ui.mode \in Modes
  BY <1>4 DEF Uis
<1>6. ChunkTyped(c)
  BY <1>5, ChunksTyped
<1> DEFINE u == [ui EXCEPT !.mode = c.mode]
<1>7. u \in Uis /\ u.mode = c.mode /\ u.prompt = ui.prompt
  BY <1>4, <1>6, ModeSet DEF ChunkTyped
<1>8. Continue(u, focus, c.reactions)
  BY <1>2 DEF Type
<1> HIDE DEF u
<1>9. u.mode = "Prompt" => u.prompt # None \/ Pending(c.reactions)
  BY <1>4, <1>6, <1>7 DEF ChunkTyped, Sound
<1>10. c.reactions \in Words
  BY <1>6 DEF ChunkTyped, Words
<1> QED BY <1>4, <1>7, <1>8, <1>9, <1>10, ContinueKeeps

LEMMA PromptStart == Init => PromptInv
<1> SUFFICES ASSUME Init PROVE PromptInv
  OBVIOUS
<1>1. ui \in Uis /\ ui.mode = "Normal"
  BY DEF Init, Uis, Modes
<1>2. reactions \in Words
  BY CommandWords DEF Init
<1> QED BY <1>1, <1>2 DEF Init, PromptInv

LEMMA PromptStep == PromptInv /\ [Next]_vars => PromptInv'
<1> SUFFICES ASSUME PromptInv, [Next]_vars PROVE PromptInv'
  OBVIOUS
<1>1. CASE TypeKeys
  BY <1>1, TypeKeeps
<1>2. CASE ClientInput /\ ~ TypeKeys
  BY <1>2, MouseKeeps DEF ClientInput
<1>3. CASE HandleReaction
  <2>1. reactions \in Words /\ reactions # <<>>
    BY <1>3 DEF HandleReaction, PromptInv
  <2>2. PICK op, t : op = Head(reactions) /\ t = Tail(reactions)
    OBVIOUS
  <2>3. t \in Words /\ (Pending(reactions) => op \in PromptKinds \/ Pending(t))
    <3>1. /\ t \in Words /\ Len(t) = Len(reactions) - 1 /\ Len(reactions) \in Nat
          /\ \A i \in 1..Len(t) : t[i] = reactions[i + 1]
          /\ op = reactions[1]
      BY <2>1, <2>2, HeadTailProperties DEF Words
    <3>2. ASSUME NEW i \in 1..Len(reactions), reactions[i] \in PromptKinds
          PROVE  op \in PromptKinds \/ Pending(t)
      <4>1. CASE i = 1
        BY <3>1, <3>2, <4>1
      <4>2. CASE i # 1
        <5>1. i - 1 \in 1..Len(t) /\ i - 1 + 1 = i
          BY <3>1, <4>2
        <5>2. t[i - 1] = reactions[i]
          BY <3>1, <5>1
        <5> QED BY <3>2, <5>1, <5>2 DEF Pending
      <4> QED BY <4>1, <4>2
    <3> QED BY <3>1, <3>2 DEF Pending
  <2>4. React(op, t)
    BY <1>3, <2>2 DEF HandleReaction
  <2> QED BY <2>3, <2>4, ReactKeeps
<1>4. CASE OtherMovesFocus \/ OtherSetsConfig
  <2>1. reactions = <<>>
    BY <1>4 DEF OtherMovesFocus, OtherSetsConfig, Idle
  <2>2. Sound(ui) /\ ui \in Uis /\ focus \in Panes
    BY <2>1, SoundNow
  <2>3. Sound(SetConfig(ui))
    BY <2>2, TogglesTame, TameSound
  <2> QED BY <1>4, <2>2, <2>3, HandledKeeps DEF OtherMovesFocus, OtherSetsConfig, Handled
<1>5. CASE FireHook
  <2>1. reactions = <<>> /\ ~ Pending(reactions)
    BY <1>5, NothingPending DEF FireHook
  <2>2. PICK line \in Chains \ {<<>>} : React(Head(line), Tail(line))
    BY <1>5 DEF FireHook
  <2>3. PICK op, t : op = Head(line) /\ t = Tail(line)
    OBVIOUS
  <2>4. t \in Words
    BY <2>3, ChainWords, HeadTailProperties DEF Words
  <2> QED BY <2>1, <2>2, <2>3, <2>4, ReactKeeps
<1>6. CASE ExpireRepeat
  <2>1. ui \in Uis
    BY DEF PromptInv
  <2> QED BY <1>6, <2>1, ResetSets DEF ExpireRepeat, PromptInv
<1>7. CASE \E p \in FullScreen : PaneOutput(p)
  <2>1. UNCHANGED <<focus, reactions>> /\ reactions = <<>> /\ \E a : ui' = Rendered(ui, focus, a)
    BY <1>7 DEF PaneOutput, Idle
  <2>2. Sound(ui) /\ ui \in Uis /\ focus \in Panes
    BY <2>1, SoundNow
  <2>3. Sound(ui')
    BY <2>1, <2>2, RenderedTame, TameSound
  <2> QED BY <2>1, <2>3 DEF PromptInv, Sound
<1>8. CASE UNCHANGED vars
  BY <1>8 DEF vars, PromptInv, Pending
<1> QED BY <1>1, <1>2, <1>3, <1>4, <1>5, <1>6, <1>7, <1>8 DEF Next

\* The invariant of a message being worked off: a prompt may still be to come.
THEOREM PromptInvariant == Spec => []PromptInv
<1> QED BY PromptStart, PromptStep, PTL DEF Spec

\* Between messages, Prompt mode has a prompt to confirm or cancel: the daemon's
\* map and the keymap are moved together, and no key gets in between.
THEOREM PromptModeAlwaysHasPrompt == Spec => []PromptModeHasPrompt
<1>1. PromptInv => PromptModeHasPrompt
  BY NothingPending DEF PromptInv, PromptModeHasPrompt, Idle
<1> QED BY <1>1, PromptInvariant, PTL

-----------------------------------------------------------------------------
(* Letting go of the button ends copy mode                                 *)

LEMMA RenderedEndsNothing ==
  ASSUME NEW u \in Uis, u.copy = None, NEW f, NEW a
  PROVE  Rendered(u, f, a) = u
BY DEF Rendered

LEMMA FinishEndsCopyMode ==
  ASSUME NEW u \in Uis
  PROVE  LET v == MouseSelFinish(u) IN v \in Uis /\ v.copy = None
<1>1. PICK x \in Uis : x = [u EXCEPT !.mouse_sel = None] /\ x.copy = u.copy
  BY SelectionSet
<1>2. PICK y \in Uis : y = [x EXCEPT !.copy = None] /\ y.copy = None
  BY CopySet
<1>3. PICK z \in Uis : z = ExitCopyMode(x) /\ z.copy = None
  BY ExitCopyModeSets
<1>4. MouseSelFinish(u) \in {y, z}
  BY <1>1, <1>2, <1>3 DEF MouseSelFinish, CopyYank
<1> QED BY <1>2, <1>3, <1>4

LEMMA ReleaseStep ==
  ASSUME PromptInv, Dragging(ui), Release \/ ButtonOnModal
  PROVE  ui'.copy = None
<1>1. ui \in Uis
  BY DEF PromptInv
<1>2. PICK v \in Uis : v = ExitCopyMode(ui) /\ v.copy = None
  BY <1>1, ExitCopyModeSets
<1>3. PICK w \in Uis : w = MouseSelFinish(ui) /\ w.copy = None
  BY <1>1, FinishEndsCopyMode
<1>4. PICK x \in Uis : x = Reset(w) /\ x.copy = None
  BY <1>3, ResetSets
<1>5. \E u \in {v, x} : Handled(u, focus)
  BY <1>2, <1>3, <1>4 DEF Release, ButtonOnModal, CancelMouseGestures
<1> QED BY <1>2, <1>4, <1>5, RenderedEndsNothing DEF Handled, HandledLast, HandledFirst

\* Letting the button go after a drag leaves no copy mode behind, whatever frame
\* it was on and whatever came into view meanwhile.
THEOREM ReleaseAlwaysEndsCopyMode == Spec => ReleaseEndsCopyMode
<1>1. PromptInv => [Dragging(ui) /\ (Release \/ ButtonOnModal) => ui'.copy = None]_vars
  BY ReleaseStep
<1> QED BY <1>1, PromptInvariant, PTL DEF ReleaseEndsCopyMode

-----------------------------------------------------------------------------
(* Keys and overlays in step, key by key                                   *)

\* In mode m, an open overlay has the keys, and an overlay's mode has its overlay.
OwnedIn(u, m) ==
  /\ u.prompt # None => m = "Prompt"
  /\ u.copy # None => m \in {"Copy", "Search"}
  /\ "search" \in u.overlays => m = "Search"
  /\ "help" \in u.overlays => m = "Help"
  /\ "clock" \in u.overlays => m = "Clock"
  /\ "sessions" \in u.overlays => m = "ChooseSession"
  /\ "buffers" \in u.overlays => m = "ChooseBuffer"
  /\ "panes" \in u.overlays => m = "DisplayPanes"

ShownIn(u, m) ==
  /\ m = "Copy" => u.copy # None
  /\ m = "Search" => "search" \in u.overlays
  /\ m = "Help" => "help" \in u.overlays
  /\ m = "Clock" => "clock" \in u.overlays

\* The entries are as they were when k was typed in step, and so are the keys
\* but for k.
TypedInStep(k) ==
  /\ k[2] # "none" /\ ui.mode = k[3]
  /\ OwnedIn(ui, k[1]) /\ ShownIn(ui, k[1])
  /\ k[2] \in Unsynced \ {"help"} => k[3] = OpensMode[k[2]]
  /\ k[2] = "help" => "Help" \in {k[1], k[3]}

\* The keys are in step, and what is left to do is commands, the next of which
\* is none that finds them in its way.
CommandsInStep ==
  /\ reactions \in Seq(Commands) /\ reactions # <<>>
  /\ OwnedIn(ui, ui.mode) /\ FindsInStep(ui, Head(reactions))

\* A lone reaction is that of a key just typed in step, or a command that one
\* such key runs.
LoneInv ==
  lone => CommandsInStep \/ \E k \in Feed : reactions = <<k[2]>> /\ TypedInStep(k)

\* Nothing that takes keys is open.
Bare(u) == u.prompt = None /\ u.copy = None /\ u.overlays \subseteq {"menu"}

LEMMA OwnedNow == Owned <=> OwnedIn(ui, ui.mode)
BY DEF Owned, OwnedIn

LEMMA ShownNow == Shown <=> ShownIn(ui, ui.mode)
BY DEF Shown, ShownIn

LEMMA BareOwned ==
  ASSUME NEW u, Bare(u), NEW m
  PROVE  OwnedIn(u, m)
BY DEF Bare, OwnedIn

\* What is open when the keys are in step, mode by mode.
LEMMA OpenInStep ==
  ASSUME NEW u \in Uis, NEW m \in Modes, OwnedIn(u, m), ShownIn(u, m)
  PROVE  /\ m \in {"Normal", "AwaitingCommand", "Repeat", "Paste"} => Bare(u)
         /\ m = "Prompt" => u.copy = None /\ u.overlays \subseteq {"menu"}
         /\ m = "Copy" => u.copy # None /\ u.prompt = None /\ u.overlays \subseteq {"menu"}
         /\ m = "Search" => /\ u.prompt = None /\ u.overlays \subseteq {"menu", "search"}
                            /\ "search" \in u.overlays
         /\ m \in {"Help", "Clock", "ChooseSession", "ChooseBuffer", "DisplayPanes"} =>
              u.prompt = None /\ u.copy = None
         /\ m = "Help" => u.overlays \subseteq {"menu", "help"} /\ "help" \in u.overlays
         /\ m = "Clock" => u.overlays \subseteq {"menu", "clock"} /\ "clock" \in u.overlays
         /\ m = "ChooseSession" => u.overlays \subseteq {"menu", "sessions"}
         /\ m = "ChooseBuffer" => u.overlays \subseteq {"menu", "buffers"}
         /\ m = "DisplayPanes" => u.overlays \subseteq {"menu", "panes"}
<1>1. u.overlays \subseteq {"clock", "help", "sessions", "buffers", "panes", "search", "menu"}
  BY DEF Uis, OverlayNames, ModalOverlays
<1> QED BY <1>1 DEF OwnedIn, ShownIn, Bare

\* A key that does something, by what it finds open.
LEMMA KeyCases ==
  ASSUME NEW k \in Feed, k[2] # "none"
  PROVE  \/ k[1] \in BoundModes /\ k[2] \in Actions
            /\ (k[2] \notin DOMAIN OpensMode => k[3] \in {"Normal", "Repeat"})
         \/ k[1] = "Prompt" /\ k[2] \in {"prompt-confirm", "prompt-cancel"} /\ k[3] = "Normal"
         \/ k[1] = "Copy" /\ \/ k[2] = "quit" /\ k[3] = "Normal"
                             \/ k[2] = "search" /\ k[3] = "Search"
                             \/ k[2] \in {"yank", "navigate", "search-repeat"} /\ k[3] = "Copy"
         \/ k[1] = "Search" /\ k[2] \in {"search-confirm", "search-cancel"} /\ k[3] = "Copy"
         \/ k[1] = "ChooseSession" /\ k[2] \in {"session-confirm", "session-cancel"}
         \/ k[1] = "ChooseBuffer" /\ \/ k[2] \in {"buffer-confirm", "buffer-cancel"}
                                     \/ k[2] = "buffer-delete" /\ k[3] = "ChooseBuffer"
         \/ k[1] = "DisplayPanes" /\ k[2] \in {"pick", "hide"}
         \/ k[1] = "Help" /\ k[2] = "help"
         \/ k[1] = "Clock" /\ k[2] = "clock"
<1> DEFINE Plain(j) ==
      /\ j[1] \in BoundModes /\ j[2] \in Actions
      /\ j[2] \notin DOMAIN OpensMode => j[3] \in {"Normal", "Repeat"}
<1>1. \A j \in NormalKeys : j[2] = "none" \/ (Plain(j) /\ j[3] = "Normal")
  BY BindingsAssumption DEF NormalKeys, BoundModes
<1>2. \A a \in Repeatable : a \in Actions
  BY DEF Repeatable
<1>3. ASSUME NEW j \in PrefixKeys PROVE j[2] = "none" \/ Plain(j)
  <2>1. \A a \in DOMAIN OpensMode : Plain(<<"AwaitingCommand", a, OpensMode[a]>>)
    BY DEF BoundModes, Actions
  <2>2. \A a \in Repeatable, m \in {"Normal", "Repeat"} : Plain(<<"AwaitingCommand", a, m>>)
    BY <1>2 DEF BoundModes
  <2>3. \/ \E a \in DOMAIN OpensMode : j = <<"AwaitingCommand", a, OpensMode[a]>>
        \/ \E a \in Repeatable, m \in {"Normal", "Repeat"} : j = <<"AwaitingCommand", a, m>>
        \/ j = <<"AwaitingCommand", "none", "Normal">>
    BY DEF PrefixKeys
  <2>4. <<"AwaitingCommand", "none", "Normal">>[2] = "none"
    OBVIOUS
  <2> HIDE DEF Plain
  <2> QED BY <2>1, <2>2, <2>3, <2>4
<1>4. ASSUME NEW j \in RepeatKeys PROVE j[2] = "none" \/ Plain(j)
  <2>1. \A a \in Repeatable : Plain(<<"Repeat", a, "Repeat">>)
    BY <1>2 DEF BoundModes
  <2>2. \A i \in NormalKeys : i[2] = "none" \/ Plain(<<"Repeat", i[2], i[3]>>)
    BY <1>1 DEF BoundModes
  <2>3. \/ \E a \in Repeatable : j = <<"Repeat", a, "Repeat">>
        \/ \E i \in NormalKeys : j = <<"Repeat", i[2], i[3]>>
    BY DEF RepeatKeys
  <2> HIDE DEF Plain
  <2> QED BY <2>1, <2>2, <2>3
<1>5. CASE k \in NormalKeys \/ k \in PrefixKeys \/ k \in RepeatKeys
  BY <1>1, <1>3, <1>4, <1>5
<1>6. CASE k \in CopyKeys
  BY <1>6 DEF CopyKeys
<1>7. CASE k \in SearchKeys \/ k \in PromptKeys
  BY <1>7 DEF SearchKeys, PromptKeys
<1>8. CASE k \in ChooserKeys
  BY <1>8 DEF ChooserKeys
<1>9. CASE k \in OverlayKeys
  BY <1>9 DEF OverlayKeys
<1> QED BY <1>5, <1>6, <1>7, <1>8, <1>9 DEF Feed

LEMMA ExitedIsBare ==
  ASSUME NEW u \in Uis, u.prompt = None, u.overlays \subseteq {"menu", "search"}
  PROVE  ExitCopyMode(u) \in Uis /\ Bare(ExitCopyMode(u))
BY ExitCopyModeSets DEF Bare

LEMMA ResetIsBare ==
  ASSUME NEW u \in Uis, Bare(u)
  PROVE  Reset(u) \in Uis /\ Bare(Reset(u))
BY ResetSets DEF Bare

LEMMA ClosedIsBare ==
  ASSUME NEW u \in Uis, Bare(u), NEW o
  PROVE  Close(u, o) \in Uis /\ Bare(Close(u, o))
BY CloseSets DEF Bare

LEMMA ClearedIsBare ==
  ASSUME NEW u \in Uis, u.prompt = None, u.overlays \subseteq {"menu"}
  PROVE  [u EXCEPT !.copy = None] \in Uis /\ Bare([u EXCEPT !.copy = None])
<1> DEFINE v == [u EXCEPT !.copy = None]
<1>1. v \in Uis /\ v.copy = None /\ v.prompt = u.prompt /\ v.overlays = u.overlays
  BY DEF Uis
<1> QED BY <1>1 DEF Bare

\* Rendering ends copy mode only where that leaves nothing open.
LEMMA RenderedOwned ==
  ASSUME NEW u \in Uis, OwnedIn(u, u.mode), NEW f, NEW a
  PROVE  LET v == Rendered(u, f, a) IN v \in Uis /\ OwnedIn(v, v.mode)
<1>1. CASE u.copy = None
  BY <1>1, RenderedEndsNothing
<1>2. CASE u.copy # None
  <2>1. u.prompt = None /\ u.overlays \subseteq {"menu", "search"}
    BY <1>2 DEF OwnedIn, Uis, OverlayNames, ModalOverlays
  <2>2. PICK x \in Uis : x = ExitCopyMode(u) /\ Bare(x)
    BY <2>1, ExitedIsBare
  <2>3. OwnedIn(x, x.mode)
    BY <2>2, BareOwned
  <2>4. Rendered(u, f, a) \in {u, x}
    BY <2>2 DEF Rendered
  <2> QED BY <2>3, <2>4
<1> QED BY <1>1, <1>2

LEMMA ContinueOwned ==
  ASSUME NEW u \in Uis, OwnedIn(u, u.mode), NEW f, NEW r, Continue(u, f, r)
  PROVE  OwnedIn(ui', ui'.mode)
<1>1. ui' \in {u, Rendered(u, f, alt)}
  BY DEF Continue
<1> QED BY <1>1, RenderedOwned

\* After a lone reaction the keys are in step, and only commands are left.
StaysInStep ==
  \E v \in Uis, f \in Panes, r \in Seq(Commands) : OwnedIn(v, v.mode) /\ Continues(v, f, r)

LEMMA LastInStep ==
  ASSUME NEW v \in Uis, NEW f \in Panes, OwnedIn(v, v.mode), Continues(v, f, <<>>)
  PROVE  StaysInStep
<1>1. <<>> \in Seq(Commands)
  OBVIOUS
<1> QED BY <1>1 DEF StaysInStep

LEMMA IntentWords ==
  \A kind \in PromptKinds : \A i \in Intents[kind] : i \in Seq(Commands)
<1>1. <<"focus">> \in Seq(Commands) /\ <<>> \in Seq(Commands)
  BY DEF Commands
<1>2. ASSUME NEW i \in {<<>>} \cup Chains PROVE i \in Seq(Commands)
  BY ChainWords
<1>3. Intents["name"] = {<<>>, <<"focus">>} /\ Intents["command"] = {<<>>} \cup Chains
  BY DEF Intents
<1> QED BY <1>1, <1>2, <1>3 DEF PromptKinds

\* An action, or a command.
LEMMA PlainInStep ==
  ASSUME ui \in Uis, focus \in Panes, NEW op \in Actions \cup Commands, NEW t \in Seq(Commands),
         OwnedIn(ui, ui.mode), op \in {"focus", "menu"} \/ Bare(ui),
         op \in Unsynced => ui.mode = OpensMode[op], React(op, t)
  PROVE  StaysInStep
<1>1. OwnedIn(ui, ui.mode)
  OBVIOUS
<1>2. op \in {"copy", "help", "sessions", "buffers", "panes", "clock", "name", "command",
              "focus", "config", "menu", "chain"}
  BY DEF Actions, Commands, OpensMode
<1>3. CASE op = "copy"
  <2>1. PICK v \in Uis : /\ v = EnterCopyMode(ui, focus) /\ v.prompt = None
                         /\ v.overlays \subseteq {"menu"}
                         /\ v = ui \/ v.mode = "Copy"
    BY <1>3, EnterCopyModeSets DEF Bare
  <2>2. OwnedIn(v, v.mode)
    BY <1>1, <2>1 DEF OwnedIn
  <2>3. Continues(v, focus, t)
    BY <1>3, <2>1 DEF React, OpenOverlay, CopyKey, CloseOverlay, ReloadConfig, MoveFocus,
                      RunCommands, PromptConfirm, PromptKinds
  <2> QED BY <2>2, <2>3 DEF StaysInStep
<1>4. CASE op = "help"
  <2>1. "help" \in OverlayNames /\ ui.mode = "Help"
    BY <1>4 DEF OverlayNames, ModalOverlays, Unsynced, OpensMode
  <2>2. PICK v \in Uis : /\ v = Open(ui, "help") /\ v.mode = "Help" /\ v.prompt = None
                         /\ v.copy = None /\ v.overlays \subseteq {"menu", "help"}
    BY <1>4, <2>1, OpenSets DEF Bare
  <2>3. "help" \notin ui.overlays
    BY <1>4 DEF Bare
  <2>4. Continues(v, focus, t)
    BY <1>4, <2>2, <2>3 DEF React, OpenOverlay, CopyKey, CloseOverlay, ReloadConfig, MoveFocus,
                            RunCommands, PromptConfirm, PromptKinds, ToggleHelp
  <2>5. OwnedIn(v, v.mode)
    BY <2>2 DEF OwnedIn
  <2> QED BY <2>4, <2>5 DEF StaysInStep
<1>5. CASE op = "clock"
  <2>1. PICK v \in Uis : /\ v = ToggleClock(ui) /\ v.mode = "Clock" /\ v.prompt = None
                         /\ v.copy = None /\ v.overlays \subseteq {"menu", "clock"}
    BY <1>5, ToggleClockSets DEF Bare
  <2>2. Continues(v, focus, t)
    BY <1>5, <2>1 DEF React, OpenOverlay, CopyKey, CloseOverlay, ReloadConfig, MoveFocus,
                      RunCommands, PromptConfirm, PromptKinds
  <2>3. OwnedIn(v, v.mode)
    BY <2>1 DEF OwnedIn
  <2> QED BY <2>2, <2>3 DEF StaysInStep
<1>6. CASE op \in {"sessions", "buffers", "panes"}
  <2>1. op \in OverlayNames
    BY <1>6 DEF OverlayNames, ModalOverlays
  <2>2. PICK v \in Uis : /\ v = Open(ui, op) /\ v.mode = ui.mode /\ v.prompt = None
                         /\ v.copy = None /\ v.overlays \subseteq {"menu", op}
    BY <1>6, <2>1, OpenSets DEF Bare
  <2>3. ui.mode = OpensMode[op]
    BY <1>6 DEF Unsynced
  <2>4. OwnedIn(v, v.mode)
    BY <1>6, <2>2, <2>3 DEF OwnedIn, OpensMode
  <2>5. \E u \in {ui, v} : Continues(u, focus, t)
    BY <1>6, <2>2 DEF React, OpenOverlay, CopyKey, CloseOverlay, ReloadConfig, MoveFocus,
                      RunCommands, PromptConfirm, PromptKinds
  <2> QED BY <1>1, <2>4, <2>5 DEF StaysInStep
<1>7. CASE op \in {"name", "command"}
  <2>1. op \in PromptKinds
    BY <1>7 DEF PromptKinds
  <2>2. PICK v \in Uis : /\ v = OpenPrompt(ui, op) /\ v.mode = "Prompt" /\ v.copy = None
                         /\ v.overlays \subseteq {"menu"}
    BY <1>7, <2>1, OpenPromptSets DEF Bare
  <2>3. Continues(v, focus, t)
    BY <1>7, <2>2 DEF React, OpenOverlay, CopyKey, CloseOverlay, ReloadConfig, MoveFocus,
                      RunCommands, PromptConfirm
  <2>4. OwnedIn(v, v.mode)
    BY <2>2 DEF OwnedIn
  <2> QED BY <2>3, <2>4 DEF StaysInStep
<1>8. CASE op = "config"
  <2>1. PICK v \in Uis : v = SetConfig(ui) /\ Bare(v)
    BY <1>8, ResetSets DEF SetConfig, Bare
  <2>2. \E u \in {ui, v} : Continues(u, focus, t)
    BY <1>8, <2>1 DEF React, OpenOverlay, CopyKey, CloseOverlay, ReloadConfig, MoveFocus,
                      RunCommands, PromptConfirm, PromptKinds
  <2>3. OwnedIn(v, v.mode)
    BY <2>1, BareOwned
  <2> QED BY <1>1, <2>2, <2>3 DEF StaysInStep
<1>9. CASE op = "menu"
  <2>1. op \in OverlayNames
    BY <1>9 DEF OverlayNames
  <2>2. PICK v \in Uis : /\ v = Open(ui, op) /\ v.mode = ui.mode /\ v.prompt = ui.prompt
                         /\ v.copy = ui.copy /\ v.overlays = ui.overlays \cup {"menu"}
    BY <1>9, <2>1, OpenSets
  <2>3. OwnedIn(v, v.mode)
    BY <1>1, <2>2 DEF OwnedIn
  <2>4. Continues(v, focus, t)
    BY <1>9, <2>2 DEF React, OpenOverlay, CopyKey, CloseOverlay, ReloadConfig, MoveFocus,
                      RunCommands, PromptConfirm, PromptKinds
  <2> QED BY <2>3, <2>4 DEF StaysInStep
<1>10. CASE op \in {"focus", "chain"}
  <2>1. PICK f \in Panes, h \in {<<>>} \cup Chains \cup Hooks : Continues(ui, f, h \o t)
    BY <1>10 DEF React, OpenOverlay, CopyKey, CloseOverlay, ReloadConfig, MoveFocus,
                 RunCommands, PromptConfirm, PromptKinds
  <2>2. PICK r \in Seq(Commands) : r = h \o t
    BY ChainWords, ConcatProperties
  <2> QED BY <1>1, <2>1, <2>2 DEF StaysInStep
<1> QED BY <1>2, <1>3, <1>4, <1>5, <1>6, <1>7, <1>8, <1>9, <1>10

\* A key of the prompt.
LEMMA PromptKeyInStep ==
  ASSUME ui \in Uis, focus \in Panes, NEW op \in {"prompt-confirm", "prompt-cancel"},
         ui.copy = None, ui.overlays \subseteq {"menu"}, React(op, <<>>)
  PROVE  StaysInStep
<1>1. PICK v \in Uis : v = ClosePrompt(ui) /\ Bare(v) /\ v.mode = "Normal"
  BY ClosePromptSets DEF Bare
<1>2. OwnedIn(v, v.mode)
  BY <1>1, BareOwned
<1>3. CASE op = "prompt-cancel"
  <2>1. Continues(v, focus, <<>>)
    BY <1>1, <1>3 DEF React, OpenOverlay, CopyKey, CloseOverlay, ReloadConfig, MoveFocus,
                      RunCommands, PromptConfirm, PromptKinds
  <2> QED BY <1>1, <1>2, <2>1, LastInStep
<1>4. CASE op = "prompt-confirm"
  <2>1. PICK i \in (IF ui.prompt = None THEN {<<>>} ELSE Intents[ui.prompt]) :
          Continues(v, focus, i \o <<>>)
    BY <1>1, <1>4 DEF React, OpenOverlay, CopyKey, CloseOverlay, ReloadConfig, MoveFocus,
                      RunCommands, PromptConfirm, PromptKinds
  <2>2. i \in Seq(Commands) /\ <<>> \in Seq(Commands)
    <3>1. ui.prompt # None => ui.prompt \in PromptKinds
      BY DEF Uis
    <3>2. <<>> \in Seq(Commands)
      OBVIOUS
    <3>3. CASE ui.prompt # None
      BY <2>1, <3>1, <3>2, <3>3, IntentWords
    <3>4. CASE ui.prompt = None
      BY <2>1, <3>2, <3>4
    <3> QED BY <3>3, <3>4
  <2>3. PICK r \in Seq(Commands) : r = i \o <<>>
    BY <2>2, ConcatProperties
  <2>4. Continues(v, focus, r)
    BY <2>1, <2>3
  <2> QED BY <1>1, <1>2, <2>4 DEF StaysInStep
<1> QED BY <1>3, <1>4

\* A key of copy mode.
LEMMA CopyKeyInStep ==
  ASSUME ui \in Uis, focus \in Panes, ui.copy # None, ui.prompt = None,
         ui.overlays \subseteq {"menu"},
         NEW op \in {"quit", "search", "yank", "navigate", "search-repeat"}, React(op, <<>>),
         op = "search" => ui.mode = "Search",
         op \in {"navigate", "search-repeat"} => ui.mode = "Copy"
  PROVE  StaysInStep
<1>1. PICK x \in Uis : x = ExitCopyMode(ui) /\ Bare(x)
  BY ExitedIsBare
<1>2. CASE op = "quit"
  <2>1. PICK y \in Uis : y = [ui EXCEPT !.copy = None] /\ Bare(y)
    BY ClearedIsBare
  <2>2. PICK w \in Uis : w = Close(y, "search") /\ Bare(w)
    BY <2>1, ClosedIsBare
  <2>3. \A u \in {x, w} : Reset(u) \in Uis /\ Bare(Reset(u))
    BY <1>1, <2>2, ResetIsBare DEF Bare
  <2>4. \E u \in {x, w} : CopyQuit(ui) = Reset(u)
    BY <1>1, <2>1, <2>2 DEF CopyQuit
  <2>5. PICK v \in Uis : v = CopyQuit(ui) /\ Bare(v)
    BY <2>3, <2>4
  <2>6. Continues(v, focus, <<>>)
    BY <1>2, <2>5 DEF React, OpenOverlay, CopyKey, CloseOverlay, ReloadConfig, MoveFocus,
                      RunCommands, PromptConfirm, PromptKinds
  <2> QED BY <2>5, <2>6, BareOwned, LastInStep
<1>3. CASE op = "yank"
  <2>1. PICK y \in Uis : y = [ui EXCEPT !.copy = None] /\ Bare(y)
    BY ClearedIsBare
  <2>2. \A u \in {x, y} : Reset(u) \in Uis /\ Bare(Reset(u))
    BY <1>1, <2>1, ResetIsBare DEF Bare
  <2>3. \E u \in {x, y} : CopyYank(ui) = u
    BY <1>1, <2>1 DEF CopyYank
  <2>4. PICK v \in Uis : v = Reset(CopyYank(ui)) /\ Bare(v)
    BY <2>2, <2>3
  <2>5. Continues(v, focus, <<>>)
    BY <1>3, <2>4 DEF React, OpenOverlay, CopyKey, CloseOverlay, ReloadConfig, MoveFocus,
                      RunCommands, PromptConfirm, PromptKinds
  <2> QED BY <2>4, <2>5, BareOwned, LastInStep
<1>4. CASE op \in {"navigate", "search-repeat"}
  <2>1. OwnedIn(ui, ui.mode)
    BY <1>4 DEF OwnedIn
  <2>2. OwnedIn(x, x.mode)
    BY <1>1, BareOwned
  <2>3. \E u \in {ui, x} : Continues(u, focus, <<>>)
    BY <1>1, <1>4 DEF React, OpenOverlay, CopyKey, CloseOverlay, ReloadConfig, MoveFocus,
                      RunCommands, PromptConfirm, PromptKinds, CopyNavigate
  <2> QED BY <2>1, <2>2, <2>3, LastInStep
<1>5. CASE op = "search"
  <2>1. "search" \in OverlayNames
    BY DEF OverlayNames
  <2>2. PICK v \in Uis : /\ v = Open(ui, "search") /\ v.mode = "Search" /\ v.prompt = None
                         /\ v.overlays \subseteq {"menu", "search"}
    BY <1>5, <2>1, OpenSets
  <2>3. Continues(v, focus, <<>>)
    BY <1>5, <2>2 DEF React, OpenOverlay, CopyKey, CloseOverlay, ReloadConfig, MoveFocus,
                      RunCommands, PromptConfirm, PromptKinds, SearchOpen
  <2>4. OwnedIn(v, v.mode)
    BY <2>2 DEF OwnedIn
  <2> QED BY <2>3, <2>4, LastInStep
<1> QED BY <1>2, <1>3, <1>4, <1>5

\* A key of copy mode's search.
LEMMA SearchKeyInStep ==
  ASSUME ui \in Uis, focus \in Panes, ui.prompt = None, "search" \in ui.overlays,
         ui.overlays \subseteq {"menu", "search"}, ui.mode = "Copy",
         NEW op \in {"search-confirm", "search-cancel"}, React(op, <<>>)
  PROVE  StaysInStep
<1>1. PICK z \in Uis : /\ z = Close(ui, "search") /\ z.mode = "Copy" /\ z.prompt = None
                       /\ z.overlays \subseteq {"menu"}
  BY CloseSets
<1>2. PICK x \in Uis : x = ExitCopyMode(z) /\ Bare(x)
  BY <1>1, ExitedIsBare
<1>3. OwnedIn(z, z.mode) /\ OwnedIn(x, x.mode)
  BY <1>1, <1>2, BareOwned DEF OwnedIn
<1>4. \E u \in {x, z} : Continues(u, focus, <<>>)
  BY <1>1, <1>2 DEF React, OpenOverlay, CopyKey, CloseOverlay, ReloadConfig, MoveFocus,
                    RunCommands, PromptConfirm, PromptKinds, SearchConfirm
<1> QED BY <1>1, <1>2, <1>3, <1>4, LastInStep

\* A key that answers an overlay, o.
LEMMA AnswerInStep ==
  ASSUME ui \in Uis, focus \in Panes, ui.prompt = None, ui.copy = None, NEW o,
         ui.overlays \subseteq {"menu", o}, NEW op, React(op, <<>>),
         \/ o = "sessions" /\ op \in {"session-confirm", "session-cancel"}
         \/ o = "buffers" /\ \/ op \in {"buffer-confirm", "buffer-cancel"}
                             \/ op = "buffer-delete" /\ ui.mode = "ChooseBuffer"
         \/ o = "panes" /\ op \in {"pick", "hide"}
         \/ o = "help" /\ op = "help" /\ "help" \in ui.overlays
         \/ o = "clock" /\ op = "clock" /\ "clock" \in ui.overlays
  PROVE  StaysInStep
<1>1. PICK v \in Uis : v = Close(ui, o) /\ Bare(v)
  BY CloseSets DEF Bare
<1>2. OwnedIn(v, v.mode)
  BY <1>1, BareOwned
<1>3. CASE o = "sessions"
  <2>1. \E f \in Panes : Continues(v, f, <<>>)
    BY <1>1, <1>3 DEF React, OpenOverlay, CopyKey, CloseOverlay, ReloadConfig, MoveFocus,
                      RunCommands, PromptConfirm, PromptKinds
  <2> QED BY <1>2, <2>1, LastInStep
<1>4. CASE o = "buffers"
  <2>1. op = "buffer-delete" => OwnedIn(ui, ui.mode)
    BY <1>4 DEF OwnedIn
  <2>2. Continues(v, focus, <<>>) \/ (op = "buffer-delete" /\ Continues(ui, focus, <<>>))
    BY <1>1, <1>4 DEF React, OpenOverlay, CopyKey, CloseOverlay, ReloadConfig, MoveFocus,
                      RunCommands, PromptConfirm, PromptKinds
  <2> QED BY <1>2, <2>1, <2>2, LastInStep
<1>5. CASE o = "panes"
  <2>1. \E f \in Panes : Continues(v, f, <<>>)
    BY <1>1, <1>5 DEF React, OpenOverlay, CopyKey, CloseOverlay, ReloadConfig, MoveFocus,
                      RunCommands, PromptConfirm, PromptKinds
  <2> QED BY <1>2, <2>1, LastInStep
<1>6. CASE o = "help" /\ "help" \in ui.overlays
  <2>1. Continues(v, focus, <<>>)
    BY <1>1, <1>6 DEF React, OpenOverlay, CopyKey, CloseOverlay, ReloadConfig, MoveFocus,
                      RunCommands, PromptConfirm, PromptKinds, ToggleHelp
  <2> QED BY <1>2, <2>1, LastInStep
<1>7. CASE o = "clock" /\ "clock" \in ui.overlays
  <2>1. Continues(v, focus, <<>>)
    BY <1>1, <1>7 DEF React, OpenOverlay, CopyKey, CloseOverlay, ReloadConfig, MoveFocus,
                      RunCommands, PromptConfirm, PromptKinds, ToggleClock
  <2> QED BY <1>2, <2>1, LastInStep
<1> QED BY <1>3, <1>4, <1>5, <1>6, <1>7

LEMMA EmptyCommands == <<>> \in Seq(Commands)
OBVIOUS

LEMMA LoneReactionInStep ==
  ASSUME PromptInv, NEW k \in Feed, TypedInStep(k), React(k[2], <<>>)
  PROVE  StaysInStep
<1>1. ui \in Uis /\ focus \in Panes /\ k[1] \in Modes /\ k[3] \in Modes
  BY KeysTyped DEF PromptInv, KeyTyped
<1>2. PICK op, m : op = k[2] /\ m = k[1]
  OBVIOUS
<1>3. /\ OwnedIn(ui, m) /\ ShownIn(ui, m) /\ ui.mode = k[3] /\ op # "none" /\ React(op, <<>>)
      /\ op \in Unsynced \ {"help"} => ui.mode = OpensMode[op]
      /\ op = "help" => "Help" \in {m, ui.mode}
  BY <1>2 DEF TypedInStep
<1>4. m \in {"Normal", "AwaitingCommand", "Repeat", "Paste"} => Bare(ui)
  BY <1>1, <1>2, <1>3, OpenInStep
<1>5. CASE m \in BoundModes /\ op \in Actions
  <2>1. Bare(ui) /\ m # "Help"
    BY <1>4, <1>5 DEF BoundModes
  <2>2. op \in Unsynced => ui.mode = OpensMode[op]
    BY <1>3, <2>1 DEF Unsynced, OpensMode
  <2>3. OwnedIn(ui, ui.mode)
    BY <2>1, BareOwned
  <2> QED BY <1>1, <1>3, <1>5, <2>1, <2>2, <2>3, EmptyCommands, PlainInStep
<1>6. CASE m = "Prompt" /\ op \in {"prompt-confirm", "prompt-cancel"}
  BY <1>1, <1>2, <1>3, <1>6, OpenInStep, PromptKeyInStep
<1>7. CASE m = "Copy" /\ \/ op = "quit"
                         \/ op = "search" /\ ui.mode = "Search"
                         \/ op \in {"yank", "navigate", "search-repeat"} /\ ui.mode = "Copy"
  <2>1. ui.copy # None /\ ui.prompt = None /\ ui.overlays \subseteq {"menu"}
    BY <1>1, <1>2, <1>3, <1>7, OpenInStep
  <2> QED BY <1>1, <1>3, <1>7, <2>1, CopyKeyInStep
<1>8. CASE m = "Search" /\ op \in {"search-confirm", "search-cancel"} /\ ui.mode = "Copy"
  <2>1. ui.prompt = None /\ ui.overlays \subseteq {"menu", "search"} /\ "search" \in ui.overlays
    BY <1>1, <1>2, <1>3, <1>8, OpenInStep
  <2> QED BY <1>1, <1>3, <1>8, <2>1, SearchKeyInStep
<1>9. CASE m \in {"ChooseSession", "ChooseBuffer", "DisplayPanes", "Help", "Clock"}
  <2>1. ui.prompt = None /\ ui.copy = None
    BY <1>1, <1>2, <1>3, <1>9, OpenInStep
  <2>2. CASE m = "ChooseSession" /\ op \in {"session-confirm", "session-cancel"}
    <3>1. ui.overlays \subseteq {"menu", "sessions"}
      BY <1>1, <1>2, <1>3, <2>2, OpenInStep
    <3> QED BY <1>1, <1>3, <2>1, <2>2, <3>1, AnswerInStep
  <2>3. CASE m = "ChooseBuffer" /\ \/ op \in {"buffer-confirm", "buffer-cancel"}
                                   \/ op = "buffer-delete" /\ ui.mode = "ChooseBuffer"
    <3>1. ui.overlays \subseteq {"menu", "buffers"}
      BY <1>1, <1>2, <1>3, <2>3, OpenInStep
    <3> QED BY <1>1, <1>3, <2>1, <2>3, <3>1, AnswerInStep
  <2>4. CASE m = "DisplayPanes" /\ op \in {"pick", "hide"}
    <3>1. ui.overlays \subseteq {"menu", "panes"}
      BY <1>1, <1>2, <1>3, <2>4, OpenInStep
    <3> QED BY <1>1, <1>3, <2>1, <2>4, <3>1, AnswerInStep
  <2>5. CASE m = "Help" /\ op = "help"
    <3>1. ui.overlays \subseteq {"menu", "help"} /\ "help" \in ui.overlays
      BY <1>1, <1>2, <1>3, <2>5, OpenInStep
    <3> QED BY <1>1, <1>3, <2>1, <2>5, <3>1, AnswerInStep
  <2>6. CASE m = "Clock" /\ op = "clock"
    <3>1. ui.overlays \subseteq {"menu", "clock"} /\ "clock" \in ui.overlays
      BY <1>1, <1>2, <1>3, <2>6, OpenInStep
    <3> QED BY <1>1, <1>3, <2>1, <2>6, <3>1, AnswerInStep
  <2> QED BY <1>2, <1>3, <1>9, <2>2, <2>3, <2>4, <2>5, <2>6, KeyCases DEF BoundModes
<1> QED BY <1>2, <1>3, <1>5, <1>6, <1>7, <1>8, <1>9, KeyCases

\* One key, typed while nothing is out of step.
LEMMA LoneType ==
  ASSUME PromptInv, TypeKeys
  PROVE  LoneInv'
<1> SUFFICES ASSUME lone' PROVE (\E k \in Feed : reactions = <<k[2]>> /\ TypedInStep(k))'
  BY DEF LoneInv
<1>1. PICK n \in 1..MaxKeys : \E chunk \in Chunks[n] : Type(n, chunk)
  BY DEF TypeKeys
<1>2. PICK c \in Chunks[n] : Type(n, c)
  BY <1>1
<1>3. /\ n = 1 /\ Owned /\ Shown /\ c.reactions # <<>> /\ reactions' = c.reactions
      /\ ui' = [ui EXCEPT !.mode = c.mode]
      /\ Head(c.reactions) \in Unsynced \ {"help"} => c.mode = OpensMode[Head(c.reactions)]
      /\ Head(c.reactions) = "help" => "Help" \in {ui.mode, c.mode}
  BY <1>2 DEF Type, Continue
<1>4. c \in Decoded(NoKeys)
  <2>1. Chunks[1] = Decoded(NoKeys)
    BY <1>3, ChunksAre, PanesAssumption
  <2> QED BY <1>3, <2>1
<1>5. PICK k \in Feed : k[1] = NoKeys.mode /\ c = Decode(NoKeys, k)
  BY <1>4 DEF Decoded
<1>6. k[1] = ui.mode /\ c.mode = k[3] /\ k[2] # "none" /\ c.reactions = <<k[2]>>
  <2>1. c.mode = k[3] /\ c.reactions = IF k[2] = "none" THEN <<>> ELSE Append(<<>>, k[2])
    BY <1>5 DEF Decode, NoKeys
  <2>2. k[2] \in Reactions /\ <<>> \in Seq(Reactions)
    BY DEF Reactions
  <2>3. Append(<<>>, k[2]) = <<k[2]>>
    BY <2>2
  <2> QED BY <1>3, <1>5, <2>1, <2>3 DEF NoKeys
<1>7. Head(c.reactions) = k[2]
  BY <1>6
<1>8. ui \in Uis /\ k[3] \in Modes
  BY KeysTyped DEF PromptInv, KeyTyped
<1>9. /\ ui'.mode = k[3] /\ ui'.overlays = ui.overlays /\ ui'.prompt = ui.prompt
      /\ ui'.copy = ui.copy
  BY <1>3, <1>6, <1>8, ModeSet
<1>10. OwnedIn(ui, k[1]) /\ ShownIn(ui, k[1])
  BY <1>3, <1>6, OwnedNow, ShownNow
<1>11. TypedInStep(k)'
  BY <1>3, <1>6, <1>7, <1>9, <1>10 DEF TypedInStep, OwnedIn, ShownIn
<1> QED BY <1>3, <1>6, <1>11

\* What the reactions do to lone.
LEMMA ReactLone ==
  ASSUME NEW op, NEW t, React(op, t)
  PROVE  lone' => lone
BY DEF React, OpenOverlay, CopyKey, CloseOverlay, ReloadConfig, MoveFocus, RunCommands,
       PromptConfirm, Continues

\* What follows a reaction that stays in step.
LEMMA AfterInStep ==
  ASSUME StaysInStep
  PROVE  LoneInv' /\ (reactions' = <<>> => Owned')
<1>1. PICK v \in Uis, f \in Panes, r \in Seq(Commands) : OwnedIn(v, v.mode) /\ Continues(v, f, r)
  BY DEF StaysInStep
<1>2. /\ Continue(v, f, r) /\ reactions' = r
      /\ lone' = (lone /\ r # <<>> /\ FindsInStep(v, Head(r)))
  BY <1>1 DEF Continues, Continue
<1>3. OwnedIn(ui', ui'.mode)
  BY <1>1, <1>2, ContinueOwned
<1>4. Owned'
  BY <1>3, OwnedNow DEF Owned, OwnedIn
<1>5. ASSUME lone' PROVE CommandsInStep'
  <2>1. r # <<>> /\ FindsInStep(v, Head(r))
    BY <1>2, <1>5
  <2>2. ui' = v
    BY <1>2, <2>1 DEF Continue
  <2> QED BY <1>1, <1>2, <2>1, <2>2 DEF CommandsInStep, OwnedIn, FindsInStep
<1> QED BY <1>4, <1>5 DEF LoneInv

\* A lone reaction is carried out: all stays in step.
LEMMA LoneReacts ==
  ASSUME PromptInv, LoneInv, lone, HandleReaction
  PROVE  LoneInv' /\ (reactions' = <<>> => Owned')
<1>1. ui \in Uis /\ focus \in Panes
  BY DEF PromptInv
<1>2. PICK op, t : op = Head(reactions) /\ t = Tail(reactions) /\ React(op, t)
  BY DEF HandleReaction
<1>3. CASE CommandsInStep
  <2>1. op \in Commands /\ t \in Seq(Commands) /\ FindsInStep(ui, op)
    BY <1>2, <1>3, HeadTailProperties DEF CommandsInStep
  <2>2. op \notin Unsynced /\ op \in {"copy", "clock", "menu", "config", "focus"}
    BY <2>1 DEF FindsInStep, Commands, Unsynced
  <2>3. ASSUME op \notin {"focus", "menu"} PROVE Bare(ui)
    <3>1. ui.mode \in {"Normal", "Repeat"}
      BY <2>1, <2>2, <2>3 DEF FindsInStep, KeymapCommands
    <3>2. PICK m \in Modes : m = ui.mode /\ ShownIn(ui, m) /\ OwnedIn(ui, m)
      BY <1>3, <3>1 DEF ShownIn, Modes, CommandsInStep
    <3> QED BY <1>1, <3>1, <3>2, OpenInStep
  <2> QED BY <1>1, <1>2, <1>3, <2>1, <2>2, <2>3, PlainInStep, AfterInStep DEF CommandsInStep
<1>4. ASSUME NEW k \in Feed, reactions = <<k[2]>>, TypedInStep(k) PROVE StaysInStep
  <2>1. PICK o : o = k[2] /\ reactions = <<o>>
    BY <1>4
  <2>2. Head(reactions) = o /\ Tail(reactions) = <<>>
    BY <2>1
  <2>3. React(k[2], <<>>)
    BY <1>2, <2>1, <2>2
  <2> QED BY <1>4, <2>3, LoneReactionInStep
<1> QED BY <1>3, <1>4, AfterInStep DEF LoneInv

LEMMA LoneStep ==
  ASSUME PromptInv, LoneInv, [Next]_vars
  PROVE  LoneInv' /\ (lone /\ reactions' = <<>> /\ vars' # vars => Owned')
<1>1. lone => reactions # <<>>
  BY DEF LoneInv, CommandsInStep
<1>2. CASE TypeKeys
  <2>1. reactions = <<>>
    BY <1>2 DEF TypeKeys, Type
  <2> QED BY <1>1, <1>2, <2>1, LoneType
<1>3. CASE HandleReaction
  <2>1. CASE lone
    BY <1>3, <2>1, LoneReacts
  <2>2. CASE ~ lone
    <3>1. ~ lone'
      BY <1>3, <2>2, ReactLone DEF HandleReaction
    <3> QED BY <2>2, <3>1 DEF LoneInv
  <2> QED BY <2>1, <2>2
<1>4. ASSUME NEW u, NEW f, Handled(u, f) PROVE reactions = <<>> /\ ~ lone'
  BY <1>4 DEF Handled, HandledLast, HandledFirst
<1>5. CASE ClientInput /\ ~ TypeKeys
  <2>1. \E u, f : Handled(u, f)
    BY <1>5 DEF ClientInput, MenuKey, ButtonOnModal, PressOnMenu, RightPress, Release, Wheel,
                PressRow, PressPane, Drag, DismissMenu, ApplyMenuAction, SidebarPick, FocusClientPane
  <2> QED BY <1>1, <1>4, <2>1 DEF LoneInv
<1>6. CASE OtherMovesFocus \/ OtherSetsConfig
  <2>1. reactions = <<>> /\ ~ lone'
    BY <1>6 DEF OtherMovesFocus, OtherSetsConfig, HandledLast
  <2> QED BY <1>1, <2>1 DEF LoneInv
<1>7. CASE FireHook
  <2>1. reactions = <<>> /\ (lone' => lone)
    BY <1>7, ReactLone DEF FireHook
  <2> QED BY <1>1, <2>1 DEF LoneInv
<1>8. CASE ExpireRepeat \/ \E p \in FullScreen : PaneOutput(p)
  <2>1. reactions = <<>> /\ lone' = lone
    BY <1>8 DEF ExpireRepeat, PaneOutput, Idle
  <2> QED BY <1>1, <2>1 DEF LoneInv
<1>9. CASE UNCHANGED vars
  BY <1>9 DEF vars, LoneInv, CommandsInStep, FindsInStep, TypedInStep, OwnedIn, ShownIn
<1> QED BY <1>2, <1>3, <1>5, <1>6, <1>7, <1>8, <1>9 DEF Next

\* The invariant of a key typed in step: what it runs finds nothing in its way.
THEOREM LoneInvariant == Spec => []LoneInv
<1>1. Init => LoneInv
  BY DEF Init, LoneInv
<1>2. PromptInv /\ LoneInv /\ [Next]_vars => LoneInv'
  BY LoneStep
<1> QED BY <1>1, <1>2, PromptInvariant, PTL DEF Spec

\* One key typed in step, with the command it runs and the hook of that, leaves
\* every open overlay with the keys.
THEOREM AlwaysLockstepKeyByKey == Spec => LockstepKeyByKey
<1>1. PromptInv /\ LoneInv /\ [Next]_vars => [lone /\ reactions' = <<>> => Owned']_vars
  BY LoneStep
<1> QED BY <1>1, PromptInvariant, LoneInvariant, PTL DEF Spec, LockstepKeyByKey

-----------------------------------------------------------------------------
(* The state file                                                          *)

FileStates == (SUBSET Names) \cup {Absent, Torn}

ServerTypes ==
  /\ phase \in [Servers -> {"unborn", "starting", "unlinked", "bound", "running", "gone"}]
  /\ held \in [Servers -> SUBSET Names]
  /\ persist \in [Servers -> BOOLEAN]
  /\ saving \in [Servers -> {"no", "open", "written"}]
  /\ disk \in FileStates /\ tmp \in FileStates /\ config \in BOOLEAN

\* Only a server that runs saves.
OnlyRunningSave == \A s \in Servers : saving[s] # "no" => phase[s] = "running"

\* A server that runs, and so may save at any time, has all that is in the state
\* file, but for what ended and what was not brought back when it started.
SaverHasAll ==
  \A s \in Servers : phase[s] = "running" => Saved(disk) \subseteq held[s] \cup ended \cup unread

\* The temporary file is that of the save at hand, as far as it has come.
SaveAtHand ==
  \A s \in Servers :
    /\ saving[s] = "open" => tmp = Torn
    /\ saving[s] = "written" => tmp = held[s]

\* The inductive invariant, while no two servers have run at the same time.
FileInv ==
  /\ ServerTypes /\ OnlyRunningSave
  /\ overlapped \/ /\ \A s, t \in Alive : s = t
                   /\ SaverHasAll /\ SaveAtHand

LEMMA FileStart == ServerInit => FileInv
<1> SUFFICES ASSUME ServerInit PROVE FileInv
  OBVIOUS
<1>1. ServerTypes
  <2>1. disk \in FileStates /\ tmp \in FileStates /\ config \in BOOLEAN
    BY DEF ServerInit, FileStates
  <2>2. held \in [Servers -> SUBSET Names] /\ persist \in [Servers -> BOOLEAN]
    BY DEF ServerInit
  <2>3. /\ phase \in [Servers -> {"unborn", "starting", "unlinked", "bound", "running", "gone"}]
        /\ saving \in [Servers -> {"no", "open", "written"}]
    BY DEF ServerInit
  <2> QED BY <2>1, <2>2, <2>3 DEF ServerTypes
<1>2. OnlyRunningSave /\ SaverHasAll /\ SaveAtHand
  BY DEF ServerInit, OnlyRunningSave, SaverHasAll, SaveAtHand
<1>3. Alive = {}
  BY DEF ServerInit, Alive
<1> QED BY <1>1, <1>2, <1>3 DEF FileInv

\* What a file that is not whole, and one that is, saves.
LEMMA SavedFiles ==
  /\ Saved(Absent) = {} /\ Saved(Torn) = {}
  /\ \A file \in SUBSET Names : Saved(file) = file
  /\ \A file \in FileStates : Saved(file) \subseteq Names
<1>1. Saved(Absent) = {} /\ Saved(Torn) = {}
  BY DEF Saved
<1>2. ASSUME NEW file \in SUBSET Names PROVE Saved(file) = file
  BY FilesAssumption DEF Saved
<1>3. ASSUME NEW file \in FileStates PROVE Saved(file) \subseteq Names
  BY <1>1, <1>2 DEF FileStates
<1> QED BY <1>1, <1>2, <1>3

\* The end of a process.
LEMMA EndKeeps ==
  ASSUME FileInv, NEW s \in Servers, End(s), UNCHANGED <<files, config, overlapped>>,
         ended \subseteq ended', unread' = unread
  PROVE  FileInv'
<1>1. ServerTypes'
  BY DEF FileInv, ServerTypes, End, files
<1>2. /\ \A t \in Servers \ {s} : /\ phase'[t] = phase[t] /\ persist'[t] = persist[t]
                                  /\ held'[t] = held[t] /\ saving'[t] = saving[t]
      /\ phase'[s] = "gone" /\ saving'[s] = "no"
  BY DEF FileInv, ServerTypes, End
<1>3. OnlyRunningSave'
  BY <1>2 DEF FileInv, OnlyRunningSave
<1>4. Alive' \subseteq Alive
  BY <1>2 DEF Alive
<1>5. ASSUME SaverHasAll, SaveAtHand PROVE SaverHasAll' /\ SaveAtHand'
  BY <1>2, <1>5 DEF SaverHasAll, SaveAtHand, Saved, files
<1> QED BY <1>1, <1>3, <1>4, <1>5 DEF FileInv

\* A message that leaves a session out says that it ended.
LEMMA MessageKeeps ==
  ASSUME FileInv, NEW s \in Servers, NEW sessions \in SUBSET Names, NEW clients, NEW counts,
         Message(s, sessions, clients, counts), ended \subseteq ended',
         held[s] \subseteq sessions \cup ended', unread' = unread
  PROVE  FileInv'
<1>1. UNCHANGED <<files, config, overlapped>> /\ Serving(s)
  BY DEF Message
<1>2. CASE End(s)
  BY <1>1, <1>2, EndKeeps
<1>3. CASE /\ held' = [held EXCEPT ![s] = sessions]
           /\ UNCHANGED <<phase, deaf, persist, saving>>
  <2>1. ServerTypes' /\ OnlyRunningSave' /\ Alive' = Alive
    BY <1>1, <1>3 DEF FileInv, ServerTypes, OnlyRunningSave, Alive, files
  <2>2. held'[s] = sessions /\ \A t \in Servers \ {s} : held'[t] = held[t]
    BY <1>3 DEF FileInv, ServerTypes
  <2>3. ASSUME SaverHasAll PROVE SaverHasAll'
    BY <1>1, <1>3, <2>2, <2>3 DEF SaverHasAll, Saved, files
  <2>4. ASSUME SaveAtHand PROVE SaveAtHand'
    BY <1>1, <1>3, <2>2, <2>4 DEF SaveAtHand, Serving, files
  <2> QED BY <1>1, <2>1, <2>3, <2>4 DEF FileInv
<1> QED BY <1>2, <1>3 DEF Message

\* Neither processes nor files change.
LEMMA QuietKeeps ==
  ASSUME FileInv, UNCHANGED <<phase, held, persist, saving, files, history>>,
         config' \in BOOLEAN
  PROVE  FileInv'
BY DEF FileInv, ServerTypes, OnlyRunningSave, SaverHasAll, SaveAtHand, Alive, Saved, files, history

\* The phase of one server changes, which is the only one alive then, or was.
LEMMA PhaseKeeps ==
  ASSUME FileInv, NEW s \in Servers, NEW ph \in {"starting", "unlinked", "bound", "gone"},
         phase[s] # "running", phase' = [phase EXCEPT ![s] = ph],
         UNCHANGED <<held, persist, saving, config, files, ended, unread>>,
         overlapped => overlapped', overlapped' \/ s \in Alive \/ Alive = {}
  PROVE  FileInv'
<1>1. phase'[s] = ph /\ \A t \in Servers \ {s} : phase'[t] = phase[t]
  BY DEF FileInv, ServerTypes
<1>2. ServerTypes' /\ OnlyRunningSave'
  BY <1>1 DEF FileInv, ServerTypes, OnlyRunningSave, files
<1>3. (SaverHasAll => SaverHasAll') /\ SaveAtHand' = SaveAtHand
  BY <1>1 DEF SaverHasAll, SaveAtHand, Saved, files
<1>4. Alive' \subseteq Alive \cup {s}
  BY <1>1 DEF Alive
<1> QED BY <1>2, <1>3, <1>4 DEF FileInv

\* What a server has not restored of the state file is unread; nobody else is to
\* save.
LEMMA StartKeeps ==
  ASSUME FileInv, NEW s \in Servers, Start(s)
  PROVE  FileInv'
<1>1. PICK restored \in IF config THEN SUBSET Saved(disk) ELSE {{}} :
        /\ held' = [held EXCEPT ![s] = restored] /\ ended' = ended \ restored
        /\ unread' = Saved(disk) \ restored
  BY DEF Start
<1>2. /\ phase[s] = "bound" /\ phase' = [phase EXCEPT ![s] = "running"]
      /\ persist' = [persist EXCEPT ![s] = config]
      /\ UNCHANGED <<saving, config, files, overlapped>>
  BY DEF Start
<1>3. config \in BOOLEAN /\ restored \in SUBSET Names
  BY <1>1, SavedFiles DEF FileInv, ServerTypes
<1>4. /\ phase'[s] = "running" /\ held'[s] = restored
      /\ \A t \in Servers \ {s} : phase'[t] = phase[t] /\ held'[t] = held[t]
  BY <1>1, <1>2 DEF FileInv, ServerTypes
<1>5. ServerTypes'
  BY <1>1, <1>2, <1>3 DEF FileInv, ServerTypes, files
<1>6. OnlyRunningSave' /\ saving[s] = "no" /\ Alive' = Alive /\ s \in Alive
  BY <1>2, <1>4 DEF FileInv, OnlyRunningSave, ServerTypes, Alive
<1>7. ASSUME \A t, u \in Alive : t = u, SaverHasAll, SaveAtHand PROVE SaverHasAll' /\ SaveAtHand'
  <2>1. \A t \in Servers \ {s} : phase[t] # "running" /\ saving[t] = "no"
    BY <1>6, <1>7 DEF FileInv, ServerTypes, OnlyRunningSave, Alive
  <2>2. SaverHasAll'
    BY <1>1, <1>2, <1>4, <2>1 DEF SaverHasAll, Saved, files
  <2>3. SaveAtHand'
    BY <1>2, <1>6, <2>1 DEF SaveAtHand
  <2> QED BY <2>2, <2>3
<1> QED BY <1>2, <1>5, <1>6, <1>7 DEF FileInv

\* The steps of a save.
LEMMA SaveKeeps ==
  ASSUME FileInv, NEW s \in Servers, SaveOpen(s) \/ SaveWrite(s) \/ SaveFails(s) \/ SaveRename(s)
  PROVE  FileInv' /\ (Saved(disk) \ Saved(disk') \subseteq ended \cup unread \/ overlapped)
<1>1. UNCHANGED <<phase, held, persist, config, overlapped>>
  BY DEF SaveOpen, SaveWrite, SaveFails, SaveRename, server, history
<1>2. phase[s] = "running" /\ s \in Alive
  BY DEF FileInv, OnlyRunningSave, SaveOpen, SaveDue, SaveWrite, SaveFails, SaveRename, Serving,
         Alive
<1>3. /\ \E st \in {"no", "open", "written"} : saving' = [saving EXCEPT ![s] = st]
      /\ \A t \in Servers \ {s} : saving'[t] = saving[t]
  BY DEF FileInv, ServerTypes, SaveOpen, SaveWrite, SaveFails, SaveRename
<1>4. disk' \in FileStates /\ tmp' \in FileStates
  BY DEF FileInv, ServerTypes, FileStates, SaveOpen, SaveWrite, SaveFails, SaveRename, files
<1>5. ServerTypes' /\ OnlyRunningSave' /\ Alive' = Alive
  <2>1. saving' \in [Servers -> {"no", "open", "written"}]
    BY <1>3 DEF FileInv, ServerTypes
  <2>2. ServerTypes'
    BY <1>1, <1>4, <2>1 DEF FileInv, ServerTypes
  <2>3. OnlyRunningSave'
    BY <1>1, <1>2, <1>3 DEF FileInv, OnlyRunningSave
  <2> QED BY <1>1, <2>2, <2>3 DEF Alive
<1>6. ASSUME \A t, u \in Alive : t = u, SaverHasAll, SaveAtHand
      PROVE  SaverHasAll' /\ SaveAtHand' /\ Saved(disk) \ Saved(disk') \subseteq ended \cup unread
  <2>1. \A t \in Servers \ {s} : phase'[t] # "running" /\ saving'[t] = "no"
    BY <1>1, <1>2, <1>3, <1>6 DEF FileInv, ServerTypes, OnlyRunningSave, Alive
  <2>2. Saved(disk) \subseteq held[s] \cup ended \cup unread /\ held[s] \in SUBSET Names
    BY <1>2, <1>6 DEF SaverHasAll, FileInv, ServerTypes
  <2>3. CASE SaveOpen(s)
    <3>1. saving'[s] = "open" /\ tmp' = Torn /\ UNCHANGED <<disk, ended, unread>>
      BY <2>3 DEF SaveOpen, history, FileInv, ServerTypes
    <3> QED BY <1>1, <1>6, <2>1, <3>1 DEF SaverHasAll, SaveAtHand, Saved
  <2>4. CASE SaveWrite(s)
    <3>1. tmp = Torn /\ Torn # Absent
      BY <1>6, <2>4, FilesAssumption DEF SaveWrite, SaveAtHand
    <3>2. saving'[s] = "written" /\ tmp' = held[s] /\ UNCHANGED <<disk, ended, unread>>
      BY <2>4, <3>1 DEF SaveWrite, history, FileInv, ServerTypes
    <3> QED BY <1>1, <1>6, <2>1, <3>2 DEF SaverHasAll, SaveAtHand, Saved
  <2>5. CASE SaveFails(s)
    <3>1. saving'[s] = "no" /\ UNCHANGED <<disk, tmp, ended, unread>>
      BY <2>5 DEF SaveFails, history, files, FileInv, ServerTypes
    <3> QED BY <1>1, <1>6, <2>1, <3>1 DEF SaverHasAll, SaveAtHand, Saved
  <2>6. CASE SaveRename(s)
    <3>1. tmp = held[s] /\ tmp # Absent
      BY <1>6, <2>2, <2>6, FilesAssumption DEF SaveRename, SaveAtHand
    <3>2. saving'[s] = "no" /\ disk' = held[s]
      BY <2>6, <3>1 DEF SaveRename, FileInv, ServerTypes
    <3>3. Saved(disk') = held[s]
      BY <2>2, <3>2, SavedFiles
    <3>4. SaverHasAll'
      BY <1>1, <2>1, <3>3 DEF SaverHasAll, Saved
    <3> QED BY <2>1, <2>2, <3>2, <3>3, <3>4 DEF SaveAtHand
  <2> QED BY <2>3, <2>4, <2>5, <2>6
<1> QED BY <1>1, <1>5, <1>6 DEF FileInv

\* The handlers of the event loop.
LEMMA HandlesKeep ==
  ASSUME FileInv, NEW s \in Servers, Handles(s)
  PROVE  FileInv' /\ UNCHANGED disk
<1>1. held[s] \in SUBSET Names
  BY DEF FileInv, ServerTypes
<1>2. ASSUME NEW sessions \in SUBSET Names, NEW clients, NEW counts,
             Message(s, sessions, clients, counts), ended \subseteq ended',
             held[s] \subseteq sessions \cup ended', unread' = unread
      PROVE  FileInv' /\ UNCHANGED disk
  BY <1>2, MessageKeeps DEF Message, files
<1>3. ASSUME NEW c \in Clients, HandleAttach(s, c) \/ HandleGone(s, c)
      PROVE  FileInv' /\ UNCHANGED disk
  <2>1. UNCHANGED <<ended, unread>>
    BY <1>3 DEF HandleAttach, HandleGone
  <2>2. \A sessions \in SUBSET Names : \A clients, counts :
          Message(s, sessions, clients, counts) /\ held[s] \subseteq sessions
            => FileInv' /\ UNCHANGED disk
    BY <1>2, <2>1
  <2>3. CASE HandleAttach(s, c)
    <3>1. \A n \in Names \ held[s] : held[s] \cup {n} \in SUBSET Names
      BY <1>1
    <3>2. \A n, clients :
            /\ Message(s, held[s], clients, TRUE) => FileInv' /\ UNCHANGED disk
            /\ n \in Names \ held[s] /\ Message(s, held[s] \cup {n}, clients, TRUE)
                 => FileInv' /\ UNCHANGED disk
      BY <1>1, <2>2, <3>1
    <3> QED BY <2>3, <3>2, Zenon DEF HandleAttach
  <2>4. CASE HandleGone(s, c)
    BY <1>1, <2>2, <2>4 DEF HandleGone
  <2> QED BY <1>3, <2>3, <2>4
<1>4. ASSUME NEW n \in Names, HandleSessionEnd(s, n) \/ HandleNewSession(s, n)
      PROVE  FileInv' /\ UNCHANGED disk
  <2>1. ended \subseteq ended' /\ unread' = unread
    BY <1>4 DEF HandleSessionEnd, HandleNewSession
  <2>2. \A sessions \in SUBSET Names : \A clients, counts :
          Message(s, sessions, clients, counts) /\ held[s] \subseteq sessions \cup ended'
            => FileInv' /\ UNCHANGED disk
    BY <1>2, <2>1
  <2>3. CASE HandleSessionEnd(s, n)
    BY <1>1, <2>2, <2>3 DEF HandleSessionEnd
  <2>4. CASE HandleNewSession(s, n)
    BY <1>1, <2>2, <2>4 DEF HandleNewSession
  <2> QED BY <1>4, <2>3, <2>4
<1>5. CASE HandleControl(s)
  BY <1>1, <1>2, <1>5 DEF HandleControl
<1>6. CASE HandleKillServer(s)
  <2>1. PICK clients : Message(s, {}, clients, TRUE)
    BY <1>6 DEF HandleKillServer
  <2>2. ended' = ended \cup held[s] /\ unread' = unread
    BY <1>6 DEF HandleKillServer
  <2> QED BY <1>2, <2>1, <2>2
<1>7. CASE HandleReload(s)
  <2>1. /\ persist' = [persist EXCEPT ![s] = config]
        /\ UNCHANGED <<phase, held, saving, config, disk, tmp, ended, overlapped, unread>>
    BY <1>7 DEF HandleReload, files, history
  <2>2. ServerTypes'
    BY <2>1 DEF FileInv, ServerTypes
  <2>3. /\ OnlyRunningSave' = OnlyRunningSave /\ Alive' = Alive /\ SaveAtHand' = SaveAtHand
        /\ SaverHasAll' = SaverHasAll
    BY <2>1 DEF OnlyRunningSave, Alive, SaveAtHand, SaverHasAll, Saved
  <2> QED BY <2>1, <2>2, <2>3 DEF FileInv
<1> QED BY <1>3, <1>4, <1>5, <1>6, <1>7 DEF Handles

LEMMA FileStep ==
  ASSUME FileInv, [ServerNext]_serverVars
  PROVE  FileInv' /\ (Saved(disk) \ Saved(disk') \subseteq ended \cup unread \/ overlapped)
<1>1. SUFFICES \/ FileInv' /\ UNCHANGED disk
               \/ FileInv' /\ (Saved(disk) \ Saved(disk') \subseteq ended \cup unread \/ overlapped)
  BY DEF Saved
<1>2. CASE EditConfig
  <2>1. config' \in BOOLEAN
    BY <1>2 DEF EditConfig
  <2> QED BY <1>2, <2>1, QuietKeeps DEF EditConfig, server, files
<1>3. config \in BOOLEAN
  BY DEF FileInv, ServerTypes
<1>4. ASSUME NEW c \in Clients, GiveUp(c) \/ \E s \in Servers : Connect(c, s)
      PROVE  FileInv' /\ UNCHANGED disk
  BY <1>3, <1>4, QuietKeeps DEF GiveUp, Connect, server, files
<1>5. ASSUME NEW c \in Clients, NEW s \in Servers, SpawnDaemon(c, s)
      PROVE  FileInv' /\ UNCHANGED disk
  BY <1>5, PhaseKeeps DEF SpawnDaemon, files
<1>6. ASSUME NEW s \in Servers, Unlink(s) PROVE FileInv' /\ UNCHANGED disk
  <2>1. s \in Alive
    BY <1>6 DEF Unlink, Alive
  <2> QED BY <1>6, <2>1, PhaseKeeps DEF Unlink, files, history
<1>7. ASSUME NEW s \in Servers, Bind(s) PROVE FileInv' /\ UNCHANGED disk
  <2>1. s \in Alive
    BY <1>7 DEF Bind, Alive
  <2>2. PICK ph \in {"bound", "gone"} : phase' = [phase EXCEPT ![s] = ph]
    BY <1>7 DEF Bind
  <2> QED BY <1>7, <2>1, <2>2, PhaseKeeps DEF Bind, files, history
<1>8. ASSUME NEW s \in Servers, Start(s) PROVE FileInv' /\ UNCHANGED disk
  BY <1>8, StartKeeps DEF Start, files
<1>9. ASSUME NEW s \in Servers, Crash(s) PROVE FileInv' /\ UNCHANGED disk
  BY <1>9, EndKeeps DEF Crash, files, history
<1>10. ASSUME NEW s \in Servers, AcceptFails(s) PROVE FileInv' /\ UNCHANGED disk
  BY <1>3, <1>10, QuietKeeps DEF AcceptFails, files
<1>11. CASE UNCHANGED serverVars
  BY <1>3, <1>11, QuietKeeps DEF serverVars, server, files
<1> QED BY <1>2, <1>4, <1>5, <1>6, <1>7, <1>8, <1>9, <1>10, <1>11, SaveKeeps, HandlesKeep
        DEF ServerNext

\* The invariant of the state file: a server that runs has all that is saved, but
\* for what ended and what its start did not bring back.
THEOREM FileInvariant == ServerSpec => []FileInv
<1>1. FileInv /\ [ServerNext]_serverVars => FileInv'
  BY FileStep
<1> QED BY <1>1, FileStart, PTL DEF ServerSpec

\* A session in the state file stays in it until it ended, or until a server that
\* started without bringing it back saves: whatever is killed at whatever point,
\* whatever fails and however often servers start anew, one after the other.
THEOREM SavedSessionsAlwaysKept == ServerSpec => SavedSessionsKept
<1>1. FileInv /\ [ServerNext]_serverVars
        => [Saved(disk) \ Saved(disk') \subseteq ended \cup unread \/ overlapped]_serverVars
  BY FileStep
<1> QED BY <1>1, FileInvariant, PTL DEF ServerSpec, SavedSessionsKept

-----------------------------------------------------------------------------
(* The agents' configurations                                              *)

NoHooks == (\A e \in Events : Places(events[e]) = {}) /\ \A i \in DOMAIN text : text[i] \notin Releases

\* No entry goes before its wrapper: while there is none, there is no entry, and
\* no install is past the step that writes it.
HooksInv ==
  /\ release \in Releases
  /\ wrapper = "missing" => NoHooks /\ step \in {"idle", "wrapper"}

\* What a user may leave has finitely many of lumux's commands.
LEMMA FewPlaces ==
  ASSUME NEW entry \in Entries
  PROVE  IsFiniteSet(Places(entry))
<1>1. \E m \in 0..2 : DOMAIN entry.groups = 1..m /\ \A i \in 1..m : DOMAIN entry.groups[i] \subseteq 1..2
  BY DEF Entries, Entry, NoGroups
<1>2. Places(entry) \subseteq (1..2) \X (1..2)
  BY <1>1 DEF Places
<1>3. IsFiniteSet(1..2)
  <2>1. 1 \in Int /\ 2 \in Int
    OBVIOUS
  <2> QED BY <2>1, FS_Interval, Zenon
<1>4. IsFiniteSet((1..2) \X (1..2))
  BY <1>3, FS_Product, Zenon
<1> QED BY <1>2, <1>4, FS_Subset, Zenon

LEMMA HooksStart == InstallInit => HooksInv
BY DEF InstallInit, HooksInv, NoHooks, Places, NoGroups, Entry

LEMMA HooksStep == HooksInv /\ [InstallNext]_installVars => HooksInv'
<1> SUFFICES ASSUME HooksInv, [InstallNext]_installVars PROVE HooksInv'
  OBVIOUS
<1>1. ASSUME UNCHANGED <<release, events, text, wrapper>>,
             wrapper = "missing" => step' \in {"idle", "wrapper"}
      PROVE  HooksInv'
  BY <1>1 DEF HooksInv, NoHooks, Places
<1>2. CASE \/ InstallClaude \/ InstallCodex \/ InstallQoder \/ InstallCursor
           \/ InstallKimi \/ InstallCopilot \/ InstallPlugin
  BY <1>1, <1>2 DEF InstallClaude, InstallCodex, InstallQoder, InstallCursor, InstallKimi,
                    InstallCopilot, InstallPlugin, Starts
<1>3. CASE WriteWrapper
  BY <1>3 DEF WriteWrapper, HooksInv, Releases
<1>4. CASE AppendClaudeEntries \/ WriteFeature \/ Stop
  <2>1. UNCHANGED <<release, events, text, wrapper>>
    BY <1>4 DEF AppendClaudeEntries, WriteFeature, Stop
  <2>2. wrapper = "missing" => step' = "idle"
    BY <1>4 DEF AppendClaudeEntries, WriteFeature, Stop, Goes, HooksInv
  <2> QED BY <1>1, <2>1, <2>2
<1>5. CASE WriteConfig
  BY <1>5 DEF WriteConfig, HooksInv
<1>6. ASSUME NEW e \in Events, EditHooks(e) PROVE HooksInv'
  <2>1. PICK entry \in Entries : /\ OursIn(entry) <= OursIn(events[e])
                                 /\ events' = [events EXCEPT ![e] = entry]
    BY <1>6 DEF EditHooks
  <2>2. UNCHANGED <<release, text, wrapper, step>>
    BY <1>6 DEF EditHooks
  <2>3. ASSUME NoHooks PROVE NoHooks'
    <3>1. OursIn(events[e]) = 0
      BY <2>3, FS_EmptySet DEF NoHooks, OursIn
    <3>2. OursIn(entry) = 0
      BY <2>1, <3>1, FewPlaces, FS_CardinalityType DEF OursIn
    <3>3. Places(entry) = {}
      BY <3>2, FewPlaces, FS_EmptySet DEF OursIn
    <3>4. \A f \in Events : events'[f] = entry \/ events'[f] = events[f]
      BY <2>1
    <3> QED BY <2>2, <2>3, <3>3, <3>4 DEF NoHooks
  <2> QED BY <2>2, <2>3 DEF HooksInv
<1>7. CASE EditText
  <2>1. PICK lines \in Texts :
          /\ \A i \in DOMAIN lines : lines[i] \in Releases =>
               \E j \in DOMAIN text : text[j] = lines[i]
          /\ text' = lines
    BY <1>7 DEF EditText
  <2>2. UNCHANGED <<release, events, wrapper, step>>
    BY <1>7 DEF EditText
  <2>3. NoHooks => NoHooks'
    BY <2>1, <2>2 DEF NoHooks, Places
  <2> QED BY <2>2, <2>3 DEF HooksInv
<1>8. CASE Repair \/ Upgrade
  BY <1>8 DEF Repair, Upgrade, HooksInv, NoHooks, Places, Releases
<1>9. CASE UNCHANGED installVars
  BY <1>9 DEF installVars, HooksInv, NoHooks, Places
<1> QED BY <1>2, <1>3, <1>4, <1>5, <1>6, <1>7, <1>8, <1>9 DEF InstallNext

\* The invariant of the installers: no hook before its wrapper.
THEOREM HooksInvariant == InstallSpec => []HooksInv
<1> QED BY HooksStart, HooksStep, PTL DEF InstallSpec

\* Whichever step of an install fails or is the last, and whatever the user edits
\* meanwhile, no agent is left to run a hook whose wrapper is not there.
THEOREM HooksAlwaysHaveWrapper == InstallSpec => []HooksHaveWrapper
<1>1. HooksInv => HooksHaveWrapper
  <2> SUFFICES ASSUME NoHooks
               PROVE  (\A e \in Events : OursIn(events[e]) = 0) /\ HookLines(text) = 0
    BY DEF HooksInv, HooksHaveWrapper
  <2>1. {i \in DOMAIN text : text[i] \in Releases} = {}
    BY DEF NoHooks
  <2> QED BY <2>1, FS_EmptySet DEF NoHooks, OursIn, HookLines
<1> QED BY <1>1, HooksInvariant, PTL

-----------------------------------------------------------------------------
(* What an install makes of the groups it read, for any groups.            *)

OneCommand == {"user", "ours"}
Groups == Seq(Seq(OneCommand))

\* A list whose elements are all of some kind.
LEMMA ListOfKind ==
  ASSUME NEW R, NEW list \in Seq(R), NEW S, ToSet(list) \subseteq S
  PROVE  list \in Seq(S)
<1>1. \A i \in 1..Len(list) : list[i] \in S
  BY DEF ToSet
<1> QED BY <1>1

\* No command of lumux's is one that is not there.
LEMMA OursCounted ==
  ASSUME NEW R, NEW g \in Seq(R)
  PROVE  Ours(g) \in Nat /\ (Ours(g) = 0 <=> "ours" \notin ToSet(g))
<1> DEFINE at == {i \in DOMAIN g : g[i] = "ours"}
<1>1. IsFiniteSet(1..Len(g)) /\ at \subseteq 1..Len(g)
  <2>1. 1 \in Int /\ Len(g) \in Int
    OBVIOUS
  <2>2. IsFiniteSet(1..Len(g))
    BY <2>1, FS_Interval, Zenon
  <2> QED BY <2>2
<1>2. IsFiniteSet(at)
  BY <1>1, FS_Subset, Zenon
<1>3. Ours(g) = Cardinality(at)
  BY DEF Ours
<1>4. at = {} <=> "ours" \notin ToSet(g)
  BY DEF ToSet
<1> HIDE DEF at
<1> QED BY <1>2, <1>3, <1>4, FS_CardinalityType, FS_EmptySet

\* What is kept of a list all of which is to be kept.
LEMMA KeptWhole ==
  ASSUME NEW R, NEW S, R \subseteq S
  PROVE  \A list \in Seq(R) : Kept(list, S) = list
<1> DEFINE P == {l \in Seq(R) : Kept(l, S) = l}
<1>1. <<>> \in P
  BY KeptOfNone
<1>2. ASSUME NEW l \in Seq(R), NEW x \in R, l \in P PROVE Append(l, x) \in P
  <2>1. Kept(Append(l, x), S) = l \o <<x>>
    <3>1. Kept(Append(l, x), S) = IF x \in S THEN Kept(l, S) \o <<x>> ELSE Kept(l, S)
      BY KeptOfMore
    <3> QED BY <1>2, <3>1
  <2>2. Append(l, x) = l \o <<x>> /\ Append(l, x) \in Seq(R)
    OBVIOUS
  <2> QED BY <2>1, <2>2
<1> HIDE DEF P
<1>3. Seq(R) \subseteq P
  BY <1>1, <1>2, UpFromEmpty
<1> QED BY <1>3 DEF P

\* A pruned group has the user's commands; when it has none, it had none.
LEMMA GroupPruned ==
  ASSUME NEW g \in Seq(OneCommand)
  PROVE  /\ PrunedGroup(g) \in Seq({"user"})
         /\ Kept(PrunedGroup(g), {"user"}) = PrunedGroup(g)
         /\ PrunedGroup(g) = <<>> /\ Ours(g) = 0 => g = <<>>
         /\ g = <<>> => PrunedGroup(g) = <<>>
<1>1. Kept(g, {"user"}) \in Seq(OneCommand) /\ ToSet(Kept(g, {"user"})) = ToSet(g) \cap {"user"}
  BY KeptElements
<1>2. PrunedGroup(g) \in Seq({"user"})
  BY <1>1, ListOfKind DEF PrunedGroup
<1>3. Kept(PrunedGroup(g), {"user"}) = PrunedGroup(g)
  BY <1>2, KeptWhole
<1>4. ASSUME PrunedGroup(g) = <<>>, Ours(g) = 0, g # <<>> PROVE FALSE
  <2>1. ToSet(g) \cap {"user"} = {}
    BY <1>1, <1>4 DEF PrunedGroup, ToSet
  <2>2. "ours" \notin ToSet(g)
    BY <1>4, OursCounted
  <2>3. g[1] \in ToSet(g) /\ g[1] \in OneCommand
    BY <1>4 DEF ToSet
  <2> QED BY <2>1, <2>2, <2>3 DEF OneCommand
<1>5. g = <<>> => PrunedGroup(g) = <<>>
  BY KeptOfNone DEF PrunedGroup
<1> QED BY <1>2, <1>3, <1>4, <1>5

Emptied(g) == Ours(g) > 0 /\ PrunedGroup(g) = <<>>

\* The groups that are left, of groups and of one more.
LEMMA GroupsPruned ==
  ASSUME NEW groups \in Groups
  PROVE  /\ PrunedGroups(groups) \in Seq(Seq({"user"}))
         /\ \A g \in Seq(OneCommand) :
              PrunedGroups(Append(groups, g)) =
                IF Emptied(g) THEN PrunedGroups(groups)
                ELSE Append(PrunedGroups(groups), PrunedGroup(g))
<1> DEFINE G == Seq(OneCommand)
           U == Seq({"user"})
           F == [g \in G |-> IF Emptied(g) THEN <<>> ELSE <<PrunedGroup(g)>>]
           a(gs) == [i \in DOMAIN gs |-> F[gs[i]]]
<1>1. \A g \in G : PrunedGroup(g) \in U
  BY GroupPruned
<1>2. groups \in Seq(G)
  BY DEF Groups
<1> HIDE DEF G, U
<1>3. \A g \in G : F[g] \in Seq(U)
  BY <1>1
<1>4. \A gs \in Seq(G) : PrunedGroups(gs) = Chain(a(gs))
  <2> SUFFICES ASSUME NEW gs \in Seq(G) PROVE PrunedGroups(gs) = Chain(a(gs))
    OBVIOUS
  <2> DEFINE b == [i \in DOMAIN gs |-> IF Emptied(gs[i]) THEN <<>> ELSE <<PrunedGroup(gs[i])>>]
  <2>1. PrunedGroups(gs) = Chain(b)
    BY DEF PrunedGroups, Emptied
  <2>2. \A i \in DOMAIN gs : gs[i] \in G
    OBVIOUS
  <2>3. b = a(gs)
    BY <2>2
  <2> QED BY <2>1, <2>3
<1> HIDE DEF F
<1>5. \A gs \in Seq(G) : a(gs) \in Seq(Seq(U))
  <2> DEFINE V == Seq(U)
  <2>1. \A g \in G : F[g] \in V
    BY <1>3
  <2> HIDE DEF V
  <2>2. \A gs \in Seq(G) : a(gs) \in Seq(V)
    BY <2>1
  <2> QED BY <2>2 DEF V
<1>6. PrunedGroups(groups) \in Seq(U)
  BY <1>2, <1>4, <1>5, ChainOfKind
<1>7. ASSUME NEW g \in G
      PROVE  PrunedGroups(Append(groups, g)) =
               IF Emptied(g) THEN PrunedGroups(groups)
               ELSE Append(PrunedGroups(groups), PrunedGroup(g))
  <2>1. Append(groups, g) \in Seq(G)
    BY <1>2, ListsOf
  <2>2. a(Append(groups, g)) = Append(a(groups), F[g])
    BY <1>2, OneMade
  <2>3. Chain(Append(a(groups), F[g])) = Chain(a(groups)) \o F[g]
    BY <1>2, <1>3, <1>5, ChainOfMore
  <2>4. PrunedGroups(Append(groups, g)) = PrunedGroups(groups) \o F[g]
    BY <1>2, <1>4, <2>1, <2>2, <2>3
  <2>5. F[g] = IF Emptied(g) THEN <<>> ELSE <<PrunedGroup(g)>>
    BY DEF F
  <2>6. PrunedGroups(groups) \o <<>> = PrunedGroups(groups)
    BY <1>6
  <2>7. PrunedGroups(groups) \o <<PrunedGroup(g)>> = Append(PrunedGroups(groups), PrunedGroup(g))
    BY <1>1, <1>6
  <2> QED BY <2>4, <2>5, <2>6, <2>7
<1> QED BY <1>6, <1>7 DEF G, U

LEMMA PrunedOfKind ==
  /\ \A groups \in Groups : PrunedGroups(groups) \in Groups
  /\ \A g \in Seq(OneCommand) : PrunedGroup(g) \in Seq(OneCommand)
<1> DEFINE G == Seq(OneCommand)
           U == Seq({"user"})
<1>1. U \subseteq G
  BY DEF OneCommand
<1>2. \A groups \in Groups : PrunedGroups(groups) \in Seq(U)
  BY GroupsPruned
<1>3. \A g \in G : PrunedGroup(g) \in U
  BY GroupPruned
<1>4. Groups = Seq(G)
  BY DEF Groups
<1> HIDE DEF U, G
<1>5. Seq(U) \subseteq Seq(G)
  BY <1>1
<1> QED BY <1>1, <1>2, <1>3, <1>4, <1>5 DEF G

\* What of a group and of groups is the user's.
Item(g) == IF g = <<>> THEN <<"empty">> ELSE Kept(g, {"user"})
Items(groups) == Chain([i \in DOMAIN groups |-> Item(groups[i])])
Things == OneCommand \cup {"empty"}

LEMMA ItemsAre == \A e : UserItems(e) = Items(e.groups)
BY DEF UserItems, Items, Item

LEMMA ItemTyped ==
  ASSUME NEW g \in Seq(OneCommand)
  PROVE  Item(g) \in Seq(Things)
<1>1. Kept(g, {"user"}) \in Seq(OneCommand)
  BY KeptElements
<1>2. Kept(g, {"user"}) \in Seq(Things)
  BY <1>1 DEF Things
<1>3. <<"empty">> \in Seq(Things)
  BY DEF Things
<1> QED BY <1>2, <1>3 DEF Item

\* The items of groups and of one more.
LEMMA ItemsOfMore ==
  ASSUME NEW groups \in Groups
  PROVE  /\ Items(groups) \in Seq(Things)
         /\ \A g \in Seq(OneCommand) : Items(Append(groups, g)) = Items(groups) \o Item(g)
<1> DEFINE G == Seq(OneCommand)
           U == Seq(Things)
           F == [g \in G |-> Item(g)]
           a(gs) == [i \in DOMAIN gs |-> F[gs[i]]]
<1>1. \A g \in G : F[g] = Item(g) /\ F[g] \in U
  BY ItemTyped
<1>2. groups \in Seq(G)
  BY DEF Groups
<1> HIDE DEF G, F
<1>3. \A gs \in Seq(G) : Items(gs) = Chain(a(gs))
  <2> SUFFICES ASSUME NEW gs \in Seq(G) PROVE Items(gs) = Chain(a(gs))
    OBVIOUS
  <2>1. \A i \in DOMAIN gs : gs[i] \in G
    OBVIOUS
  <2>2. [i \in DOMAIN gs |-> Item(gs[i])] = a(gs)
    BY <1>1, <2>1
  <2> QED BY <2>2 DEF Items
<1> HIDE DEF U
<1>4. \A gs \in Seq(G) : a(gs) \in Seq(U)
  BY <1>1
<1>5. Items(groups) \in Seq(Things)
  BY <1>2, <1>3, <1>4, ChainOfKind DEF U
<1>6. ASSUME NEW g \in G PROVE Items(Append(groups, g)) = Items(groups) \o Item(g)
  <2>1. Append(groups, g) \in Seq(G)
    BY <1>2, ListsOf
  <2>2. a(Append(groups, g)) = Append(a(groups), F[g])
    BY <1>2, OneMade
  <2>3. Chain(Append(a(groups), F[g])) = Chain(a(groups)) \o F[g]
    BY <1>1, <1>2, <1>4, ChainOfMore
  <2> QED BY <1>1, <1>2, <1>3, <2>1, <2>2, <2>3
<1> QED BY <1>5, <1>6 DEF G

\* Pruning takes nothing of the user's out of a group.
LEMMA ItemPruned ==
  ASSUME NEW g \in Seq(OneCommand)
  PROVE  Item(g) = IF Emptied(g) THEN <<>> ELSE Item(PrunedGroup(g))
<1>1. /\ Kept(PrunedGroup(g), {"user"}) = PrunedGroup(g)
      /\ PrunedGroup(g) = <<>> /\ Ours(g) = 0 => g = <<>>
      /\ g = <<>> => PrunedGroup(g) = <<>>
  BY GroupPruned
<1>2. Ours(g) \in Nat /\ (g = <<>> => Ours(g) = 0)
  <2>1. g = <<>> => "ours" \notin ToSet(g)
    BY DEF ToSet
  <2> QED BY <2>1, OursCounted
<1>3. CASE Emptied(g)
  <2>1. g # <<>>
    BY <1>2, <1>3 DEF Emptied
  <2> QED BY <1>3, <2>1 DEF Emptied, Item, PrunedGroup
<1>4. CASE ~Emptied(g)
  <2>1. PrunedGroup(g) = <<>> <=> g = <<>>
    BY <1>1, <1>2, <1>4 DEF Emptied
  <2> QED BY <1>1, <1>4, <2>1 DEF Item, PrunedGroup
<1> QED BY <1>3, <1>4

\* Nor out of groups.
LEMMA ItemsStay == \A groups \in Groups : Items(PrunedGroups(groups)) = Items(groups)
<1> DEFINE G == Seq(OneCommand)
           P == {gs \in Groups : Items(PrunedGroups(gs)) = Items(gs)}
<1>1. <<>> \in P
  <2>1. <<>> \in Groups
    BY ListsOf, Zenon DEF Groups
  <2>2. PrunedGroups(<<>>) = <<>>
    BY ChainOfNone DEF PrunedGroups
  <2> QED BY <2>1, <2>2
<1>2. ASSUME NEW gs \in Seq(G), NEW g \in G, gs \in P PROVE Append(gs, g) \in P
  <2>0. gs \in Groups /\ Items(PrunedGroups(gs)) = Items(gs)
    BY <1>2
  <2>1. Append(gs, g) \in Groups
    BY ListsOf, Zenon DEF Groups
  <2>2. Items(Append(gs, g)) = Items(gs) \o Item(g) /\ Items(gs) \in Seq(Things)
    BY <2>0, ItemsOfMore
  <2>3. CASE Emptied(g)
    <3>1. PrunedGroups(Append(gs, g)) = PrunedGroups(gs)
      BY <2>0, <2>3, GroupsPruned
    <3>2. Item(g) = <<>>
      BY <2>3, ItemPruned
    <3>3. Items(Append(gs, g)) = Items(gs)
      BY <2>2, <3>2
    <3> QED BY <2>0, <2>1, <3>1, <3>3
  <2>4. CASE ~Emptied(g)
    <3>1. PrunedGroups(Append(gs, g)) = Append(PrunedGroups(gs), PrunedGroup(g))
      BY <2>0, <2>4, GroupsPruned
    <3>2. PrunedGroups(gs) \in Groups /\ PrunedGroup(g) \in Seq(OneCommand)
      BY <2>0, PrunedOfKind
    <3>3. Items(Append(PrunedGroups(gs), PrunedGroup(g))) = Items(gs) \o Item(PrunedGroup(g))
      BY <2>0, <3>2, ItemsOfMore
    <3>4. Item(g) = Item(PrunedGroup(g))
      BY <2>4, ItemPruned
    <3> QED BY <2>1, <2>2, <3>1, <3>3, <3>4
  <2> QED BY <2>3, <2>4
<1> HIDE DEF P
<1>3. Seq(G) \subseteq P
  BY <1>1, <1>2, UpFromEmpty
<1> QED BY <1>3 DEF P, Groups

\* What lumux's commands under an event come to, once they have been pruned and
\* a group of one has been put behind the rest.
LEMMA OursAppended ==
  ASSUME NEW groups \in Seq(Seq({"user"})), NEW e
  PROVE  /\ e.groups = groups => OursIn(e) = 0
         /\ e.groups = Append(groups, <<"ours">>) => OursIn(e) = 1
<1> DEFINE U == Seq({"user"})
           n == Len(groups)
<1>1. \A g \in U : \A k \in DOMAIN g : g[k] # "ours"
  OBVIOUS
<1>2. groups \in Seq(U)
  OBVIOUS
<1> HIDE DEF U
<1>3. n \in Nat /\ DOMAIN groups = 1..n /\ \A i \in 1..n : groups[i] \in U
  BY <1>2
<1>4. ASSUME e.groups = groups PROVE OursIn(e) = 0
  <2>1. Places(e) = {}
    BY <1>1, <1>3, <1>4 DEF Places
  <2> QED BY <2>1, FS_EmptySet DEF OursIn
<1>5. ASSUME e.groups = Append(groups, <<"ours">>) PROVE OursIn(e) = 1
  <2> DEFINE V == U \cup {<<"ours">>}
  <2>1. groups \in Seq(V) /\ <<"ours">> \in V
    BY <1>2
  <2> HIDE DEF V
  <2>2. /\ DOMAIN e.groups = 1..n + 1 /\ e.groups[n + 1] = <<"ours">>
        /\ \A i \in 1..n : e.groups[i] = groups[i]
    BY <1>5, <2>1
  <2>3. ASSUME NEW i \in 1..n + 1, NEW k \in DOMAIN e.groups[i]
        PROVE  e.groups[i][k] = "ours" <=> i = n + 1
    <3>1. CASE i = n + 1
      <4>1. k = 1
        BY <2>2, <2>3, <3>1
      <4> QED BY <2>2, <3>1, <4>1
    <3>2. CASE i \in 1..n
      BY <1>1, <1>3, <2>2, <2>3, <3>2
    <3>3. i = n + 1 \/ i \in 1..n
      BY <1>3
    <3> QED BY <1>3, <3>1, <3>2, <3>3
  <2>4. DOMAIN e.groups[n + 1] = {1} /\ n + 1 \in 1..n + 1
    BY <1>3, <2>2
  <2>5. Places(e) = {<<n + 1, 1>>}
    <3>1. Places(e) = UNION {{<<i, j>> : j \in {k \in DOMAIN e.groups[i] : e.groups[i][k] = "ours"}} :
                               i \in 1..n + 1}
      BY <2>2 DEF Places
    <3>2. \A i \in 1..n + 1 : i # n + 1 => {k \in DOMAIN e.groups[i] : e.groups[i][k] = "ours"} = {}
      BY <2>3
    <3>3. {k \in DOMAIN e.groups[n + 1] : e.groups[n + 1][k] = "ours"} = {1}
      BY <2>3, <2>4
    <3> QED BY <2>4, <3>1, <3>2, <3>3
  <2> QED BY <2>5, FS_Singleton DEF OursIn
<1> QED BY <1>4, <1>5

EntryRecords == [array : BOOLEAN, groups : Groups]
Configurations == [Events -> EntryRecords]

\* An install leaves what is the user's and puts one hook of its own where it is
\* to be.
LEMMA Installed ==
  ASSUME NEW conf \in Configurations
  PROVE  LET made == AppendHooks(Prune(conf)) IN
         /\ made \in Configurations
         /\ \A e \in Events : /\ UserItems(made[e]) = UserItems(conf[e])
                              /\ made[e].array = conf[e].array
                              /\ OursIn(made[e]) = IF e \in Mapped THEN 1 ELSE 0
<1> DEFINE made == AppendHooks(Prune(conf))
           new == <<"ours">>
<1>1. new \in Seq(OneCommand) /\ Item(new) = <<>>
  <2>1. <<>> \in Seq(OneCommand) /\ new = Append(<<>>, "ours") /\ "ours" \in OneCommand
    BY DEF OneCommand
  <2>2. Kept(new, {"user"}) = Kept(<<>>, {"user"})
    <3> HIDE DEF new
    <3> QED BY <2>1, KeptOfMore
  <2>3. new \in Seq(OneCommand) /\ new # <<>>
    BY DEF OneCommand
  <2> HIDE DEF new
  <2> QED BY <2>2, <2>3, KeptOfNone DEF Item
<1> HIDE DEF new
<1>2. made = [e \in Events |->
                IF e \in Mapped THEN [Prune(conf)[e] EXCEPT !.groups = Append(@, new)]
                ELSE Prune(conf)[e]]
  BY DEF AppendHooks, new
<1> HIDE DEF made
<1>3. ASSUME NEW e \in Events
      PROVE  /\ made[e] \in EntryRecords
             /\ UserItems(made[e]) = UserItems(conf[e])
             /\ made[e].array = conf[e].array
             /\ OursIn(made[e]) = IF e \in Mapped THEN 1 ELSE 0
  <2> DEFINE groups == PrunedGroups(conf[e].groups)
  <2>1. conf[e].array \in BOOLEAN /\ conf[e].groups \in Groups
        /\ conf[e] = [array |-> conf[e].array, groups |-> conf[e].groups]
    BY DEF Configurations, EntryRecords
  <2>2. groups \in Groups /\ groups \in Seq(Seq({"user"})) /\ Items(groups) = Items(conf[e].groups)
    BY <2>1, PrunedOfKind, GroupsPruned, ItemsStay
  <2>3. Prune(conf)[e] = [array |-> conf[e].array, groups |-> groups]
    BY <2>1 DEF Prune
  <2> HIDE DEF groups
  <2>4. CASE e \in Mapped
    <3>1. made[e] = [array |-> conf[e].array, groups |-> Append(groups, new)]
      <4>1. made[e] = [Prune(conf)[e] EXCEPT !.groups = Append(@, new)]
        BY <1>2, <2>4
      <4> QED BY <2>3, <4>1
    <3>2. Items(Append(groups, new)) = Items(groups) \o <<>> /\ Items(groups) \in Seq(Things)
      BY <1>1, <2>2, ItemsOfMore
    <3>3. Append(groups, new) \in Groups
      BY <1>1, <2>2, ListsOf, Zenon DEF Groups
    <3>4. OursIn(made[e]) = 1
      <4>1. made[e].groups = Append(groups, <<"ours">>)
        BY <3>1 DEF new
      <4> QED BY <2>2, <4>1, OursAppended
    <3>5. UserItems(made[e]) = Items(Append(groups, new)) /\ UserItems(conf[e]) = Items(conf[e].groups)
      <4>1. made[e].groups = Append(groups, new)
        BY <3>1
      <4> QED BY <4>1, ItemsAre
    <3>6. Items(groups) \o <<>> = Items(groups)
      BY <3>2
    <3> QED BY <2>1, <2>2, <2>4, <3>1, <3>2, <3>3, <3>4, <3>5, <3>6 DEF EntryRecords
  <2>5. CASE e \notin Mapped
    <3>1. made[e] = [array |-> conf[e].array, groups |-> groups]
      BY <1>2, <2>3, <2>5
    <3>2. made[e].groups = groups
      BY <3>1
    <3>3. OursIn(made[e]) = 0
      BY <2>2, <3>2, OursAppended
    <3>4. UserItems(made[e]) = Items(groups) /\ UserItems(conf[e]) = Items(conf[e].groups)
      BY <3>2, ItemsAre
    <3> QED BY <2>1, <2>2, <2>5, <3>1, <3>3, <3>4 DEF EntryRecords
  <2> QED BY <2>4, <2>5
<1>4. made \in Configurations
  BY <1>2, <1>3 DEF Configurations
<1> QED BY <1>3, <1>4 DEF made

-----------------------------------------------------------------------------
(* What an install makes of Kimi's lines, for any lines.                   *)

Lines == {"user", "begin", "end"} \cup Releases

\* Every line of lumux's is in a block, closed or not.
InBlocks(lines) ==
  lines \in Seq(Lines) /\ \A i \in DOMAIN lines : lines[i] \in Releases => ~ Outside(lines)[i]

\* A block that is stripped takes lumux's lines with it.
LEMMA Stripped ==
  ASSUME NEW lines, InBlocks(lines)
  PROVE  StripBlock(lines) \in Seq(Lines \ Releases)
<1> DEFINE R == Lines \ Releases
           T == Seq(R)
           a == [i \in DOMAIN lines |-> IF Outside(lines)[i] THEN <<lines[i]>> ELSE <<>>]
<1>1. lines \in Seq(Lines)
  BY DEF InBlocks
<1>2. ASSUME NEW i \in DOMAIN lines PROVE a[i] \in T
  <2>1. CASE Outside(lines)[i]
    <3>1. lines[i] \in R
      BY <1>1, <2>1 DEF InBlocks
    <3> HIDE DEF R
    <3> QED BY <2>1, <3>1
  <2>2. CASE ~ Outside(lines)[i]
    <3>1. <<>> \in T
      BY ListsOf, Zenon
    <3> QED BY <2>2, <3>1
  <2> QED BY <2>1, <2>2
<1> HIDE DEF T
<1>3. a \in Seq(T)
  <2>1. DOMAIN lines = 1..Len(lines) /\ Len(lines) \in Nat
    BY <1>1
  <2>2. a = [i \in 1..Len(lines) |-> a[i]]
    BY <2>1
  <2> HIDE DEF a
  <2> QED BY <1>2, <2>1, <2>2
<1>4. StripBlock(lines) = Chain(a)
  BY DEF StripBlock
<1> HIDE DEF a, R
<1> QED BY <1>3, <1>4, ChainOfKind DEF T, R

\* Where every opening comment is closed before the user's next line, the blocks
\* that are stripped have none of his.
LEMMA UserLinesStay ==
  ASSUME NEW lines, InBlocks(lines), Intact(lines)
  PROVE  Kept(StripBlock(lines), {"user"}) = Kept(lines, {"user"})
<1> DEFINE left == Outside(lines)
<1>1. lines \in Seq(Lines)
  BY DEF InBlocks
<1>2. left \in [DOMAIN lines -> BOOLEAN]
  BY DEF Outside
<1>3. ASSUME NEW i \in DOMAIN lines, lines[i] = "user" PROVE left[i]
  <2> SUFFICES ASSUME NEW b \in 1..i, lines[b] = "begin"
               PROVE  \E c \in b..(i - 1) : lines[c] = "end"
    BY DEF Outside
  <2>1. b \in DOMAIN lines /\ b < i /\ i \in Nat
    BY <1>1, <1>3
  <2>2. PICK c \in b..i : lines[c] = "end"
    BY <1>3, <2>1 DEF Intact
  <2>3. c # i
    BY <1>3, <2>2
  <2> QED BY <2>1, <2>2, <2>3
<1>4. StripBlock(lines) = Chain([i \in DOMAIN lines |-> IF left[i] THEN <<lines[i]>> ELSE <<>>])
  BY DEF StripBlock
<1> HIDE DEF left
<1>5. \A i \in DOMAIN lines : lines[i] \in {"user"} => left[i]
  BY <1>3
<1> QED BY <1>1, <1>2, <1>4, <1>5, KeptOfLeft

\* What is written has one block, of this release, and the user's lines that were
\* not in a block.
LEMMA BlockWritten ==
  ASSUME NEW lines, InBlocks(lines), release \in Releases
  PROVE  LET written == ConfigWithBlock(lines) IN
         /\ InBlocks(written) /\ HookLines(written) = 1
         /\ \E i \in DOMAIN written : written[i] = release
         /\ Intact(lines) => Kept(written, {"user"}) = Kept(lines, {"user"})
<1> DEFINE s == StripBlock(lines)
           n == Len(s)
           t == s \o <<"begin", release, "end">>
<1>0. release \in Lines /\ {"begin", "end"} \subseteq Lines /\ {"user", "begin", "end"} \cap Releases = {}
  BY DEF Lines, Releases
<1>1. s \in Seq(Lines) /\ \A i \in 1..Len(s) : s[i] \notin Releases
  BY Stripped
<1>2. ConfigWithBlock(lines) = t
  BY DEF ConfigWithBlock
<1> HIDE DEF s
<1>3. /\ t \in Seq(Lines) /\ n \in Nat /\ DOMAIN t = 1..n + 3
      /\ t[n + 1] = "begin" /\ t[n + 2] = release /\ t[n + 3] = "end"
      /\ \A i \in 1..n : t[i] = s[i]
  <2>1. <<"begin", release, "end">> \in Seq(Lines)
    BY <1>0
  <2> QED BY <1>1, <2>1
<1>4. t = Append(Append(Append(s, "begin"), release), "end")
  BY <1>0, <1>1
<1> HIDE DEF t
<1>5. \A i \in 1..n + 3 : t[i] \in Releases <=> i = n + 2
  <2>1. \A i \in 1..n + 3 : i \in 1..n \/ i = n + 1 \/ i = n + 2 \/ i = n + 3
    BY <1>3
  <2>2. n + 2 \in 1..n + 3
    BY <1>3
  <2>3. \A i \in 1..n : t[i] \notin Releases /\ i # n + 2
    BY <1>1, <1>3
  <2>4. n + 1 # n + 2 /\ n + 3 # n + 2
    BY <1>3
  <2> QED BY <1>0, <1>3, <2>1, <2>2, <2>3, <2>4
<1>6. ~ Outside(t)[n + 2]
  <2>1. n + 2 \in DOMAIN t /\ n + 1 \in 1..n + 2
    BY <1>3
  <2>2. \A c \in n + 1..n + 2 - 1 : t[c] # "end"
    BY <1>3
  <2> QED BY <1>3, <2>1, <2>2 DEF Outside
<1>7. InBlocks(t)
  BY <1>3, <1>5, <1>6 DEF InBlocks
<1>8. HookLines(t) = 1 /\ \E i \in DOMAIN t : t[i] = release
  <2>1. {i \in DOMAIN t : t[i] \in Releases} = {n + 2}
    BY <1>3, <1>5
  <2>2. n + 2 \in DOMAIN t
    BY <1>3
  <2> QED BY <1>3, <2>1, <2>2, FS_Singleton DEF HookLines
<1>9. Kept(t, {"user"}) = Kept(s, {"user"})
  <2> DEFINE p == Append(s, "begin")
             q == Append(p, release)
  <2>1. p \in Seq(Lines) /\ q \in Seq(Lines) /\ t = Append(q, "end")
    BY <1>0, <1>1, <1>4
  <2>2. \A list \in Seq(Lines), x \in Lines :
          x # "user" => Kept(Append(list, x), {"user"}) = Kept(list, {"user"})
    <3> SUFFICES ASSUME NEW list \in Seq(Lines), NEW x \in Lines, x # "user"
                 PROVE  Kept(Append(list, x), {"user"}) = Kept(list, {"user"})
      OBVIOUS
    <3> QED BY KeptOfMore
  <2>3. release # "user"
    BY <1>0
  <2> HIDE DEF p, q
  <2>4. Kept(t, {"user"}) = Kept(q, {"user"})
    BY <1>0, <2>1, <2>2
  <2>5. Kept(q, {"user"}) = Kept(p, {"user"}) /\ Kept(p, {"user"}) = Kept(s, {"user"})
    BY <1>0, <1>1, <2>1, <2>2, <2>3 DEF p, q
  <2> QED BY <2>4, <2>5
<1>10. Intact(lines) => Kept(s, {"user"}) = Kept(lines, {"user"})
  BY UserLinesStay DEF s
<1> QED BY <1>2, <1>7, <1>8, <1>9, <1>10

\* What the user may leave has lumux's lines in blocks.
LEMMA TextsInBlocks == \A lines \in Texts : InBlocks(lines)
<1> SUFFICES ASSUME NEW lines \in Texts PROVE InBlocks(lines)
  OBVIOUS
<1>1. CASE lines \in {<<>>, <<"user">>}
  <2>1. lines \in Seq(Lines)
    <3>1. <<>> \in Seq(Lines) /\ <<"user">> \in Seq(Lines)
      BY DEF Lines
    <3> QED BY <1>1, <3>1
  <2>2. \A i \in DOMAIN lines : lines[i] \notin Releases
    BY <1>1 DEF Releases
  <2> QED BY <2>1, <2>2 DEF InBlocks
<1>2. ASSUME NEW r \in Releases,
             lines \in {<<"begin", r, "end">>, <<"begin", r, "user">>,
                        <<"user", "begin", r, "end">>, <<"begin", r, "end", "user">>}
      PROVE  InBlocks(lines)
  <2>1. r \in Lines /\ {"user", "begin", "end"} \subseteq Lines
        /\ {"user", "begin", "end"} \cap Releases = {}
    BY DEF Lines, Releases
  <2>2. lines \in Seq(Lines)
    <3>1. <<"begin", r, "end">> \in Seq(Lines) /\ <<"begin", r, "user">> \in Seq(Lines)
      BY <2>1
    <3>2. <<"user", "begin", r, "end">> \in Seq(Lines)
      BY <2>1
    <3>3. <<"begin", r, "end", "user">> \in Seq(Lines)
      BY <2>1
    <3> QED BY <1>2, <3>1, <3>2, <3>3
  <2>3. ASSUME NEW i \in DOMAIN lines, lines[i] \in Releases PROVE ~ Outside(lines)[i]
    <3>1. i \in {2, 3} /\ i - 1 \in 1..i /\ lines[i - 1] = "begin"
      BY <1>2, <2>1, <2>3
    <3>2. \A c \in i - 1..i - 1 : lines[c] # "end"
      BY <3>1
    <3> QED BY <3>1, <3>2 DEF Outside
  <2> QED BY <2>2, <2>3 DEF InBlocks
<1> QED BY <1>1, <1>2 DEF Texts

-----------------------------------------------------------------------------
(* What is in the memory of an install under way.                          *)

InstallTypes ==
  /\ agent \in Agents /\ release \in Releases
  /\ step \in {"idle", "wrapper", "entries", "config", "feature"}
  /\ events \in Configurations /\ InBlocks(text)
  /\ seen = [events |-> seen.events, text |-> seen.text]
  /\ seen.events \in Configurations /\ InBlocks(seen.text)

\* Only installs that write a configuration come to where it is written.
StepsOfAgent ==
  /\ step = "entries" => agent = "claude"
  /\ step = "config" => agent \in Merged \cup {"kimi", "copilot"}

\* What is to be written is what was read, pruned and, at the latest when it is
\* written, with the hooks.
RootIsMade ==
  /\ agent \in Merged /\ step \in {"wrapper", "entries", "config"} =>
       root = IF agent = "claude" /\ step # "config" THEN Prune(seen.events)
              ELSE AppendHooks(Prune(seen.events))
  /\ agent = "copilot" /\ step \in {"wrapper", "config"} => root = Generated

OwnInv == InstallTypes /\ StepsOfAgent /\ RootIsMade

LEMMA EntriesTyped == Entries \cup {NoGroups} \subseteq EntryRecords
<1> DEFINE G == Seq(OneCommand)
<1>1. <<>> \in G /\ <<"user">> \in G /\ <<"ours">> \in G /\ <<"user", "ours">> \in G
  BY DEF OneCommand
<1>2. Groups = Seq(G)
  BY DEF Groups
<1> HIDE DEF G
<1>3. /\ <<>> \in Groups /\ <<<<"user">>>> \in Groups
      /\ <<<<"ours">>, <<"user">>>> \in Groups /\ <<<<"user", "ours">>, <<>>>> \in Groups
  BY <1>1, <1>2
<1>4. \A gs \in Groups : Entry(TRUE, gs) \in EntryRecords /\ Entry(FALSE, gs) \in EntryRecords
  BY DEF Entry, EntryRecords
<1> HIDE DEF Entry, EntryRecords
<1> QED BY <1>3, <1>4 DEF Entries, NoGroups

LEMMA NothingTyped == Nothing \in Configurations /\ InBlocks(<<>>)
<1>1. <<>> \in Seq(Lines)
  OBVIOUS
<1> QED BY <1>1, EntriesTyped DEF Nothing, Configurations, InBlocks

\* Copilot's file has a hook for each event this release maps.
LEMMA GeneratedHooks ==
  /\ Generated \in Configurations
  /\ \A e \in Events : OursIn(Generated[e]) = IF e \in Mapped THEN 1 ELSE 0
<1>1. Prune(Nothing) = Nothing
  <2>1. PrunedGroups(<<>>) = <<>>
    BY ChainOfNone DEF PrunedGroups
  <2> QED BY <2>1 DEF Prune, Nothing, NoGroups, Entry
<1>2. Generated = AppendHooks(Prune(Nothing))
  BY <1>1 DEF Generated
<1> QED BY <1>2, NothingTyped, Installed

LEMMA OwnStart == InstallInit => OwnInv
<1> SUFFICES ASSUME InstallInit PROVE OwnInv
  OBVIOUS
<1>1. events = Nothing /\ text = <<>> /\ seen = [events |-> Nothing, text |-> <<>>]
      /\ step = "idle" /\ agent \in Agents /\ release \in Releases
  BY DEF InstallInit, Nothing
<1>2. InstallTypes
  BY <1>1, NothingTyped DEF InstallTypes
<1> QED BY <1>1, <1>2 DEF OwnInv, StepsOfAgent, RootIsMade

\* While an install stays where it is, or is over, its memory stays made.
LEMMA MemoryStays ==
  ASSUME OwnInv, InstallTypes', agent' = agent,
         \/ step' \in {"idle", "feature"}
         \/ UNCHANGED <<release, root, seen, step>>
         \/ step = "wrapper" /\ step' = "config" /\ agent # "claude"
            /\ agent \in Merged \cup {"kimi", "copilot"} /\ UNCHANGED <<release, root, seen>>
         \/ step = "wrapper" /\ step' = "entries" /\ agent = "claude"
            /\ UNCHANGED <<release, root, seen>>
  PROVE  OwnInv'
<1>1. release' = release => Mapped' = Mapped
  BY DEF Mapped
<1>2. UNCHANGED <<release, seen>> =>
        AppendHooks(Prune(seen.events))' = AppendHooks(Prune(seen.events))
  BY <1>1 DEF AppendHooks
<1>3. release' = release => Generated' = Generated
  BY <1>1 DEF Generated, AppendHooks
<1>4. StepsOfAgent'
  BY DEF OwnInv, StepsOfAgent
<1>5. RootIsMade'
  BY <1>2, <1>3 DEF OwnInv, RootIsMade, InstallTypes, Merged
<1> QED BY <1>4, <1>5 DEF OwnInv

LEMMA OwnBegins ==
  ASSUME OwnInv, NEW conf, Starts("wrapper", conf),
         agent \in Merged => conf = IF agent = "claude" THEN Prune(events)
                                    ELSE AppendHooks(Prune(events)),
         agent = "copilot" => conf = Generated
  PROVE  OwnInv'
<1>1. /\ step' = "wrapper" /\ root' = conf
      /\ seen' = [events |-> events, text |-> IF readable THEN text ELSE <<>>]
      /\ UNCHANGED <<agent, release, events, text>>
  BY DEF Starts
<1>2. InstallTypes'
  BY <1>1, NothingTyped DEF OwnInv, InstallTypes
<1>3. StepsOfAgent'
  BY <1>1 DEF StepsOfAgent
<1>4. Mapped' = Mapped
  BY <1>1 DEF Mapped
<1>5. /\ AppendHooks(Prune(seen.events))' = AppendHooks(Prune(events))
      /\ Prune(seen.events)' = Prune(events) /\ Generated' = Generated
  BY <1>1, <1>4 DEF AppendHooks, Generated
<1>6. RootIsMade'
  BY <1>1, <1>5 DEF RootIsMade
<1> QED BY <1>2, <1>3, <1>6 DEF OwnInv

LEMMA OwnStarts ==
  ASSUME OwnInv,
         \/ InstallClaude \/ InstallCodex \/ InstallQoder \/ InstallCursor
         \/ InstallKimi \/ InstallCopilot \/ InstallPlugin
  PROVE  OwnInv'
<1>1. CASE InstallClaude
  BY <1>1, OwnBegins DEF InstallClaude, Merged
<1>2. CASE InstallCodex
  BY <1>2, OwnBegins DEF InstallCodex, Merged
<1>3. CASE InstallQoder
  BY <1>3, OwnBegins DEF InstallQoder, Merged
<1>4. CASE InstallCursor
  BY <1>4, OwnBegins DEF InstallCursor, Merged
<1>5. CASE InstallKimi
  BY <1>5, OwnBegins DEF InstallKimi, Merged
<1>6. CASE InstallCopilot
  BY <1>6, OwnBegins DEF InstallCopilot, Merged
<1>7. CASE InstallPlugin
  BY <1>7, OwnBegins DEF InstallPlugin, Merged
<1> QED BY <1>1, <1>2, <1>3, <1>4, <1>5, <1>6, <1>7

\* An install that leaves its step and touches no configuration, keeps the types.
LEMMA TypesGo ==
  ASSUME InstallTypes, NEW next, Goes(next),
         next \in {"idle", "wrapper", "entries", "config", "feature"},
         UNCHANGED <<agent, release>>, events' \in Configurations, InBlocks(text)'
  PROVE  InstallTypes' /\ step' = next /\ (next # "idle" => UNCHANGED <<root, seen>>)
BY NothingTyped DEF InstallTypes, Goes

LEMMA OwnWrapper == ASSUME OwnInv, WriteWrapper PROVE OwnInv'
<1>1. PICK next \in {AfterWrapper, "idle"} : Goes(next)
  BY DEF WriteWrapper
<1>2. UNCHANGED <<agent, release, events, text>> /\ step = "wrapper"
  BY DEF WriteWrapper
<1>3. /\ AfterWrapper \in {"idle", "entries", "config"}
      /\ AfterWrapper = "entries" => agent = "claude"
      /\ AfterWrapper = "config" => agent # "claude" /\ agent \in Merged \cup {"kimi", "copilot"}
  BY DEF AfterWrapper, OwnInv, InstallTypes, Agents, Merged
<1>4. InstallTypes' /\ step' = next /\ (next # "idle" => UNCHANGED <<root, seen>>)
  <2>1. events' \in Configurations /\ InBlocks(text)' /\ InstallTypes
    BY <1>2 DEF OwnInv, InstallTypes
  <2> QED BY <1>1, <1>2, <1>3, <2>1, TypesGo
<1> QED BY <1>1, <1>2, <1>3, <1>4, MemoryStays

LEMMA OwnEntries == ASSUME OwnInv, AppendClaudeEntries PROVE OwnInv'
<1>1. UNCHANGED <<agent, release, events, text>> /\ step = "entries" /\ agent = "claude"
  BY DEF AppendClaudeEntries, OwnInv, StepsOfAgent
<1>2. CASE step' = "config" /\ root' = AppendHooks(root) /\ UNCHANGED seen
  <2>1. InstallTypes'
    BY <1>1, <1>2 DEF OwnInv, InstallTypes
  <2>2. Mapped' = Mapped
    BY <1>1 DEF Mapped
  <2>3. root' = AppendHooks(Prune(seen.events))'
    BY <1>1, <1>2, <2>2 DEF OwnInv, RootIsMade, AppendHooks, Merged
  <2>4. RootIsMade' /\ StepsOfAgent'
    BY <1>1, <1>2, <2>3 DEF RootIsMade, StepsOfAgent, Merged
  <2> QED BY <2>1, <2>4 DEF OwnInv
<1>3. CASE Goes("idle")
  <2>1. InstallTypes' /\ step' = "idle"
    BY <1>1, <1>3, TypesGo DEF OwnInv, InstallTypes
  <2> QED BY <1>1, <2>1, MemoryStays
<1> QED BY <1>2, <1>3 DEF AppendClaudeEntries

\* What is written is a configuration, or are lines in blocks.
LEMMA OwnConfig == ASSUME OwnInv, WriteConfig PROVE OwnInv'
<1>1. step = "config" /\ UNCHANGED <<agent, release>> /\ agent \in Merged \cup {"kimi", "copilot"}
  BY DEF WriteConfig, OwnInv, StepsOfAgent
<1>2. PICK next \in {IF agent = "codex" THEN "feature" ELSE "idle", "idle"} : Goes(next)
  BY DEF WriteConfig
<1>3. events' \in Configurations
  <2>1. CASE agent = "kimi"
    BY <2>1 DEF WriteConfig, OwnInv, InstallTypes
  <2>2. CASE agent \in Merged
    <3>1. events' = AppendHooks(Prune(seen.events))
      BY <1>1, <2>2 DEF WriteConfig, OwnInv, RootIsMade, Merged
    <3> QED BY <3>1, Installed DEF OwnInv, InstallTypes
  <2>3. CASE agent = "copilot"
    BY <1>1, <2>3, GeneratedHooks DEF WriteConfig, OwnInv, RootIsMade
  <2> QED BY <1>1, <2>1, <2>2, <2>3
<1>4. InBlocks(text')
  BY BlockWritten DEF WriteConfig, OwnInv, InstallTypes
<1>5. InstallTypes' /\ step' = next
  BY <1>1, <1>2, <1>3, <1>4, TypesGo DEF OwnInv
<1> QED BY <1>1, <1>2, <1>5, MemoryStays

LEMMA OwnStep == OwnInv /\ [InstallNext]_installVars => OwnInv'
<1> SUFFICES ASSUME OwnInv, [InstallNext]_installVars PROVE OwnInv'
  OBVIOUS
<1>1. CASE WriteFeature \/ Stop
  <2>1. Goes("idle") /\ UNCHANGED <<agent, release, events, text>>
    BY <1>1 DEF WriteFeature, Stop
  <2>2. InstallTypes' /\ step' = "idle"
    BY <2>1, TypesGo DEF OwnInv, InstallTypes
  <2> QED BY <2>1, <2>2, MemoryStays
<1>2. ASSUME NEW e \in Events, EditHooks(e) PROVE OwnInv'
  <2>1. PICK entry \in Entries : events' = [events EXCEPT ![e] = entry]
    BY <1>2 DEF EditHooks
  <2>2. UNCHANGED <<agent, release, text, step, root, seen>>
    BY <1>2 DEF EditHooks
  <2>3. events' \in Configurations
    BY <2>1, EntriesTyped DEF OwnInv, InstallTypes, Configurations
  <2>4. InstallTypes'
    BY <2>2, <2>3 DEF OwnInv, InstallTypes
  <2> QED BY <2>2, <2>4, MemoryStays
<1>3. CASE EditText
  <2>1. UNCHANGED <<agent, release, events, step, root, seen>> /\ text' \in Texts
    BY <1>3 DEF EditText
  <2>2. InstallTypes'
    BY <2>1, TextsInBlocks DEF OwnInv, InstallTypes
  <2> QED BY <2>1, <2>2, MemoryStays
<1>4. CASE Repair \/ UNCHANGED installVars
  <2>1. UNCHANGED <<agent, release, events, text, step, root, seen>>
    BY <1>4 DEF Repair, installVars
  <2>2. InstallTypes'
    BY <2>1 DEF OwnInv, InstallTypes
  <2> QED BY <2>1, <2>2, MemoryStays
<1>5. CASE Upgrade
  <2>1. /\ UNCHANGED <<agent, events, text, step, seen>> /\ step' = "idle"
        /\ release' \in Releases
    BY <1>5 DEF Upgrade, Releases
  <2>2. InstallTypes'
    BY <2>1 DEF OwnInv, InstallTypes
  <2> QED BY <2>1, <2>2, MemoryStays
<1> QED BY <1>1, <1>2, <1>3, <1>4, <1>5, OwnStarts, OwnWrapper, OwnEntries, OwnConfig DEF InstallNext

\* The invariant of an install: the memory it writes from is made of what it read.
THEOREM OwnInvariant == InstallSpec => []OwnInv
<1> QED BY OwnStart, OwnStep, PTL DEF InstallSpec

\* An install that replaces the user's configuration leaves in it all that is
\* his, in his order, and one hook of its own for each event it is to have one;
\* of Kimi's lines, where no opening comment lost its closing one.
THEOREM InstallAlwaysOwnsOnlyItsHooks == InstallSpec => InstallOwnsOnlyItsHooks
<1> DEFINE Owns ==
      step = "config" /\ step' # step /\ <<events, text>>' # <<events, text>>
      => /\ agent \in Merged => \A e \in Events :
              /\ UserItems(events'[e]) = UserItems(seen.events[e])
              /\ events'[e].array = seen.events[e].array
         /\ agent # "kimi" => \A e \in Events :
              OursIn(events'[e]) = IF e \in Mapped THEN 1 ELSE 0
         /\ agent = "kimi" =>
              /\ HookLines(text') = 1 /\ \E i \in DOMAIN text' : text'[i] = release
              /\ Intact(seen.text) => Kept(text', {"user"}) = Kept(seen.text, {"user"})
<1>1. ASSUME OwnInv, InstallNext PROVE Owns
  <2> SUFFICES ASSUME step = "config", step' # step, <<events, text>>' # <<events, text>>
               PROVE  Owns
    OBVIOUS
  <2>1. WriteConfig
    BY <1>1 DEF InstallNext, InstallClaude, InstallCodex, InstallQoder, InstallCursor,
                InstallKimi, InstallCopilot, InstallPlugin, WriteWrapper, AppendClaudeEntries,
                WriteFeature, Stop, EditHooks, EditText, Repair, Upgrade
  <2>2. agent \in Merged \cup {"kimi", "copilot"} /\ seen.events \in Configurations /\ InBlocks(seen.text)
       /\ release \in Releases
    BY <1>1 DEF OwnInv, StepsOfAgent, InstallTypes
  <2>3. CASE agent = "kimi"
    BY <2>1, <2>2, <2>3, BlockWritten DEF WriteConfig, Merged
  <2>4. CASE agent \in Merged
    <3>1. events' = AppendHooks(Prune(seen.events))
      BY <1>1, <2>1, <2>4 DEF WriteConfig, OwnInv, RootIsMade, Merged
    <3> QED BY <2>2, <2>4, <3>1, Installed DEF Merged
  <2>5. CASE agent = "copilot"
    <3>1. events' = Generated
      BY <1>1, <2>1, <2>5 DEF WriteConfig, OwnInv, RootIsMade
    <3> QED BY <2>5, <3>1, GeneratedHooks DEF Merged
  <2> QED BY <2>2, <2>3, <2>4, <2>5
<1>2. OwnInv /\ [InstallNext]_installVars => [Owns]_installVars
  BY <1>1
<1> QED BY <1>2, OwnInvariant, PTL DEF InstallSpec, InstallOwnsOnlyItsHooks
=============================================================================
