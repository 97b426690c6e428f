-------------------------- MODULE ObjectTree_proofs --------------------------
(***************************************************************************)
(* Proofs about the object model for any number of sessions, windows,      *)
(* panes and clients.  The structural invariants are inductive only        *)
(* together: Structure is their conjunction, arranged as one predicate on  *)
(* the window map and one on the session map so that each kind of update   *)
(* of a map needs one lemma, whichever operations perform it.              *)
(*                                                                         *)
(* Repetition-free sequences come first, and what each window method       *)
(* preserves, for windows of any size; where the panes of each session go  *)
(* comes last.                                                             *)
(***************************************************************************)
EXTENDS ObjectTree, SequenceTheorems, TLAPS

-----------------------------------------------------------------------------
(* Sequences without repetition                                            *)

\* An element of a sequence is found at its index.
LEMMA IndexOfElement ==
  ASSUME NEW s \in Seq(Ids), NEW e \in ToSet(s)
  PROVE  IndexOf(s, e) \in 1..Len(s) /\ s[IndexOf(s, e)] = e
BY DEF IndexOf, ToSet

\* Membership in the set of elements, in both directions.
LEMMA ToSetMember ==
  ASSUME NEW s \in Seq(Ids)
  PROVE  /\ \A i \in 1..Len(s) : s[i] \in ToSet(s)
         /\ \A x \in ToSet(s) : \E i \in 1..Len(s) : s[i] = x
BY DEF ToSet

\* What a slice of a sequence is.
LEMMA Slice ==
  ASSUME NEW s \in Seq(Ids), NEW m \in 1..(Len(s) + 1), NEW n \in 0..Len(s)
  PROVE  /\ SubSeq(s, m, n) \in Seq(Ids)
         /\ Len(SubSeq(s, m, n)) = IF m <= n THEN n - m + 1 ELSE 0
         /\ \A i \in 1..(n - m + 1) : SubSeq(s, m, n)[i] = s[m + i - 1]
<1>1. \A i \in m..n : s[i] \in Ids
  BY ElementOfSeq
<1>2. m \in Int /\ n \in Int
  BY LenProperties
<1> HIDE DEF Ids
<1> QED BY <1>1, <1>2, SubSeqProperties

\* Inserting a new element anywhere.
LEMMA InsertAtPlace ==
  ASSUME NEW s \in Seq(Ids), IsInjective(s), NEW e \in Ids, e \notin ToSet(s),
         NEW i \in 1..(Len(s) + 1)
  PROVE  /\ InsertAt(s, i, e) \in Seq(Ids)
         /\ IsInjective(InsertAt(s, i, e))
         /\ ToSet(InsertAt(s, i, e)) = ToSet(s) \cup {e}
         /\ Len(InsertAt(s, i, e)) = Len(s) + 1
<1> DEFINE l == SubSeq(s, 1, i - 1)
           r == SubSeq(s, i, Len(s))
           t == InsertAt(s, i, e)
<1>0. Len(s) \in Nat /\ i - 1 \in 0..Len(s) /\ 1 \in 1..(Len(s) + 1)
  BY LenProperties
<1>1. /\ l \in Seq(Ids) /\ Len(l) = i - 1
      /\ \A j \in 1..(i - 1) : l[j] = s[j]
  BY <1>0, Slice
<1>2. /\ r \in Seq(Ids) /\ Len(r) = Len(s) - i + 1
      /\ \A j \in 1..(Len(s) - i + 1) : r[j] = s[i + j - 1]
  BY <1>0, Slice
<1>3. <<e>> \in Seq(Ids) /\ Len(<<e>>) = 1 /\ <<e>>[1] = e
  OBVIOUS
<1> HIDE DEF l, r
<1>4. /\ l \o <<e>> \in Seq(Ids) /\ Len(l \o <<e>>) = i
      /\ \A j \in 1..i : (l \o <<e>>)[j] = IF j < i THEN s[j] ELSE e
  BY <1>0, <1>1, <1>3, ConcatProperties
<1>5. /\ t \in Seq(Ids) /\ Len(t) = Len(s) + 1
      /\ \A j \in 1..(Len(s) + 1) :
           t[j] = IF j < i THEN s[j] ELSE IF j = i THEN e ELSE s[j - 1]
  <2>1. t = (l \o <<e>>) \o r
    BY DEF InsertAt, l, r
  <2> HIDE DEF t
  <2>2. /\ t \in Seq(Ids) /\ Len(t) = i + Len(r)
        /\ \A j \in 1..(i + Len(r)) :
             t[j] = IF j <= i THEN (l \o <<e>>)[j] ELSE r[j - i]
    BY <2>1, <1>2, <1>4, ConcatProperties
  <2> QED BY <2>2, <1>0, <1>2, <1>4
<1> HIDE DEF t
<1>6. IsInjective(t)
  BY <1>0, <1>5 DEF IsInjective, ToSet
<1>7. ToSet(t) = ToSet(s) \cup {e}
  <2>1. \A j \in 1..Len(t) : t[j] \in ToSet(s) \cup {e}
    BY <1>0, <1>5 DEF ToSet
  <2>2. i \in 1..Len(t) /\ t[i] = e
    BY <1>0, <1>5
  <2>3. \A j \in 1..Len(s) : s[j] \in ToSet(t)
    <3> SUFFICES ASSUME NEW j \in 1..Len(s) PROVE s[j] \in ToSet(t)
      OBVIOUS
    <3>1. CASE j < i
      BY <3>1, <1>0, <1>5 DEF ToSet
    <3>2. CASE j >= i
      <4>1. j + 1 \in 1..(Len(s) + 1) /\ ~(j + 1 < i) /\ j + 1 # i /\ (j + 1) - 1 = j
        BY <3>2, <1>0
      <4>2. t[j + 1] = s[j]
        BY <4>1, <1>5
      <4> QED BY <4>1, <4>2, <1>5 DEF ToSet
    <3> QED BY <3>1, <3>2, <1>0
  <2>4. \A x \in ToSet(t) : x \in ToSet(s) \cup {e}
    BY <2>1, <1>5, ToSetMember
  <2>5. e \in ToSet(t) /\ \A x \in ToSet(s) : x \in ToSet(t)
    BY <2>2, <2>3, <1>5, ToSetMember
  <2> QED BY <2>4, <2>5
<1> QED BY <1>5, <1>6, <1>7 DEF t

\* Inserting a new element after a given one.
LEMMA InsertAfterElement ==
  ASSUME NEW s \in Seq(Ids), IsInjective(s), NEW a \in ToSet(s),
         NEW e \in Ids, e \notin ToSet(s)
  PROVE  /\ InsertAfter(s, a, e) \in Seq(Ids)
         /\ IsInjective(InsertAfter(s, a, e))
         /\ ToSet(InsertAfter(s, a, e)) = ToSet(s) \cup {e}
         /\ Len(InsertAfter(s, a, e)) = Len(s) + 1
<1>1. IndexOf(s, a) + 1 \in 1..(Len(s) + 1)
  BY IndexOfElement, LenProperties
<1> HIDE DEF Ids
<1> QED BY <1>1, InsertAtPlace DEF InsertAfter

\* Taking an element out.
LEMMA DeleteElement ==
  ASSUME NEW s \in Seq(Ids), IsInjective(s), NEW e \in ToSet(s)
  PROVE  /\ Delete(s, e) \in Seq(Ids)
         /\ IsInjective(Delete(s, e))
         /\ ToSet(Delete(s, e)) = ToSet(s) \ {e}
         /\ Len(Delete(s, e)) = Len(s) - 1
<1> DEFINE k == IndexOf(s, e)
           l == SubSeq(s, 1, k - 1)
           r == SubSeq(s, k + 1, Len(s))
           t == Delete(s, e)
<1>0. k \in 1..Len(s) /\ s[k] = e /\ Len(s) \in Nat
  BY IndexOfElement, LenProperties
<1>a. t = l \o r
  BY DEF Delete, RemoveAt
<1> HIDE DEF k
<1>1. /\ l \in Seq(Ids) /\ Len(l) = k - 1
      /\ \A j \in 1..(k - 1) : l[j] = s[j]
  BY <1>0, Slice
<1>2. /\ r \in Seq(Ids) /\ Len(r) = Len(s) - k
      /\ \A j \in 1..(Len(s) - k) : r[j] = s[k + j]
  BY <1>0, Slice
<1> HIDE DEF l, r, t
<1>3. /\ t \in Seq(Ids) /\ Len(t) = Len(s) - 1
      /\ \A j \in 1..(Len(s) - 1) : t[j] = IF j < k THEN s[j] ELSE s[j + 1]
  <2>1. /\ t \in Seq(Ids) /\ Len(t) = Len(l) + Len(r)
        /\ \A j \in 1..(Len(l) + Len(r)) :
             t[j] = IF j <= Len(l) THEN l[j] ELSE r[j - Len(l)]
    BY <1>a, <1>1, <1>2, ConcatProperties
  <2> QED BY <2>1, <1>0, <1>1, <1>2
<1>4. IsInjective(t)
  BY <1>0, <1>3 DEF IsInjective
<1>5. ToSet(t) = ToSet(s) \ {e}
  <2>1. \A j \in 1..Len(t) : t[j] \in ToSet(s)
    BY <1>0, <1>3 DEF ToSet
  <2>2. \A j \in 1..Len(t) : t[j] # e
    BY <1>0, <1>3 DEF IsInjective
  <2>3. \A j \in 1..Len(s) : j # k => s[j] \in ToSet(t)
    <3> SUFFICES ASSUME NEW j \in 1..Len(s), j # k PROVE s[j] \in ToSet(t)
      OBVIOUS
    <3>1. IF j < k THEN j \in 1..Len(t) /\ t[j] = s[j]
          ELSE j - 1 \in 1..Len(t) /\ t[j - 1] = s[j]
      BY <1>0, <1>3
    <3> QED BY <3>1, <1>3 DEF ToSet
  <2> QED BY <2>1, <2>2, <2>3, <1>0, <1>3 DEF ToSet
<1> QED BY <1>3, <1>4, <1>5 DEF t

\* Replacing an element by a new one.
LEMMA RelabelElement ==
  ASSUME NEW s \in Seq(Ids), IsInjective(s), NEW a \in ToSet(s),
         NEW b \in Ids, b \notin ToSet(s)
  PROVE  /\ Relabel(s, a, b) \in Seq(Ids)
         /\ IsInjective(Relabel(s, a, b))
         /\ ToSet(Relabel(s, a, b)) = (ToSet(s) \ {a}) \cup {b}
         /\ Len(Relabel(s, a, b)) = Len(s)
BY DEF Relabel, IsInjective, ToSet

\* Exchanging two elements.
LEMMA ExchangeElements ==
  ASSUME NEW s \in Seq(Ids), IsInjective(s), NEW a \in ToSet(s), NEW b \in ToSet(s)
  PROVE  /\ Exchange(s, a, b) \in Seq(Ids)
         /\ IsInjective(Exchange(s, a, b))
         /\ ToSet(Exchange(s, a, b)) = ToSet(s)
         /\ Len(Exchange(s, a, b)) = Len(s)
BY DEF Exchange, IsInjective, ToSet

\* Appending a new element.
LEMMA AppendElement ==
  ASSUME NEW s \in Seq(Ids), IsInjective(s), NEW e \in Ids, e \notin ToSet(s)
  PROVE  /\ Append(s, e) \in Seq(Ids)
         /\ IsInjective(Append(s, e))
         /\ ToSet(Append(s, e)) = ToSet(s) \cup {e}
BY DEF IsInjective, ToSet

\* A rotation has the same elements.
LEMMA RotatedSequence ==
  ASSUME NEW s \in Seq(Ids), IsInjective(s), s # << >>, NEW d \in BOOLEAN
  PROVE  /\ Rotated(s, d) \in Seq(Ids)
         /\ IsInjective(Rotated(s, d))
         /\ ToSet(Rotated(s, d)) = ToSet(s)
         /\ Len(Rotated(s, d)) = Len(s)
<1> DEFINE t == Rotated(s, d)
           n == Len(s)
           From(i) == IF d THEN IF i = n THEN 1 ELSE i + 1
                      ELSE IF i = 1 THEN n ELSE i - 1
<1>1. /\ n \in Nat \ {0}
      /\ \A i \in 1..n : s[i] \in Ids
      /\ \A i, j \in 1..n : s[i] = s[j] => i = j
  BY EmptySeq, ElementOfSeq DEF IsInjective
<1> HIDE DEF n
<1>2. /\ \A i \in 1..n : From(i) \in 1..n
      /\ \A i, j \in 1..n : From(i) = From(j) => i = j
      /\ \A j \in 1..n : \E i \in 1..n : From(i) = j
  <2>1. \A i \in 1..n : From(i) \in 1..n
    BY <1>1
  <2>2. \A i, j \in 1..n : From(i) = From(j) => i = j
    BY <1>1
  <2>3. ASSUME NEW j \in 1..n PROVE \E i \in 1..n : From(i) = j
    <3>1. CASE d
      <4>1. CASE j = 1
        BY <3>1, <4>1, <1>1
      <4>2. CASE j # 1
        <5>1. j - 1 \in 1..n /\ From(j - 1) = j
          BY <3>1, <4>2, <1>1
        <5> QED BY <5>1
      <4> QED BY <4>1, <4>2
    <3>2. CASE ~d
      <4>1. CASE j = n
        <5>1. 1 \in 1..n /\ From(1) = j
          BY <3>2, <4>1, <1>1
        <5> QED BY <5>1
      <4>2. CASE j # n
        <5>1. j + 1 \in 1..n /\ From(j + 1) = j
          BY <3>2, <4>2, <1>1
        <5> QED BY <5>1
      <4> QED BY <4>1, <4>2
    <3> QED BY <3>1, <3>2
  <2> QED BY <2>1, <2>2, <2>3
<1>3. /\ t \in Seq(Ids) /\ Len(t) = n
      /\ \A i \in 1..n : t[i] = s[From(i)]
  BY <1>1 DEF Rotated, n
<1> HIDE DEF t, From
<1>4. \A i, j \in 1..n : t[i] = t[j] => i = j
  <2> SUFFICES ASSUME NEW i \in 1..n, NEW j \in 1..n, t[i] = t[j] PROVE i = j
    OBVIOUS
  <2>1. From(i) \in 1..n /\ From(j) \in 1..n /\ s[From(i)] = s[From(j)]
    BY <1>2, <1>3
  <2>2. From(i) = From(j)
    BY <2>1, <1>1
  <2> QED BY <2>2, <1>2
<1>5. \A x \in ToSet(t) : x \in ToSet(s)
  BY <1>2, <1>3, ToSetMember DEF n
<1>6. \A x \in ToSet(s) : x \in ToSet(t)
  <2> SUFFICES ASSUME NEW j \in 1..n PROVE s[j] \in ToSet(t)
    BY ToSetMember DEF n
  <2>1. PICK i \in 1..n : From(i) = j
    BY <1>2
  <2> QED BY <2>1, <1>3, ToSetMember
<1>7. IsInjective(t) /\ ToSet(t) = ToSet(s)
  BY <1>3, <1>4, <1>5, <1>6, LenProperties DEF IsInjective
<1> QED BY <1>3, <1>7 DEF t, n

\* The cyclic neighbours of an element are elements.
LEMMA CyclicNeighbours ==
  ASSUME NEW s \in Seq(Ids), NEW e \in ToSet(s)
  PROVE  CyclicNext(s, e) \in ToSet(s) /\ CyclicPrev(s, e) \in ToSet(s)
<1>1. IndexOf(s, e) \in 1..Len(s) /\ s[IndexOf(s, e)] = e /\ Len(s) \in Nat
  BY IndexOfElement, LenProperties
<1>2. s[1] \in ToSet(s) /\ Last(s) \in ToSet(s)
  BY <1>1 DEF ToSet, Last
<1>3. e # Last(s) => IndexOf(s, e) + 1 \in 1..Len(s)
  BY <1>1 DEF Last
<1>4. e # s[1] => IndexOf(s, e) - 1 \in 1..Len(s)
  BY <1>1
<1> QED BY <1>2, <1>3, <1>4 DEF CyclicNext, CyclicPrev, ToSet

-----------------------------------------------------------------------------
(* What the window methods preserve                                        *)

\* A window in the state WindowsConsistent asks of every window, with its
\* fields typed.
GoodWindow(w) ==
  /\ w \in WindowRecord
  /\ IsInjective(w.layout)
  /\ ToSet(w.layout) = w.panes
  /\ w.active_pane \in w.panes
  /\ w.zoomed # None => Len(w.layout) > 1

\* A new window is good and holds its pane.
LEMMA NewWindowGood ==
  ASSUME NEW p \in Ids
  PROVE  GoodWindow(NewWindowWith(p)) /\ NewWindowWith(p).panes = {p}
BY DEF GoodWindow, NewWindowWith, WindowRecord, IsInjective, ToSet, Ids, None

\* Moving the focus within a good window leaves it good, with its panes.
LEMMA SetActivePaneGood ==
  ASSUME NEW w, GoodWindow(w), NEW p \in w.panes
  PROVE  /\ GoodWindow(SetActivePane(w, p))
         /\ SetActivePane(w, p).panes = w.panes
BY DEF GoodWindow, SetActivePane, WindowRecord, Ids, None

\* Splitting a good window adds the one new pane.
LEMMA SplitGood ==
  ASSUME NEW w, GoodWindow(w), NEW p \in Ids, p \notin w.panes
  PROVE  /\ GoodWindow(SplitActiveLeaf(w, p))
         /\ SplitActiveLeaf(w, p).panes = w.panes \cup {p}
<1> DEFINE l == InsertAfter(w.layout, w.active_pane, p)
<1>1. /\ l \in Seq(Ids) /\ IsInjective(l)
      /\ ToSet(l) = w.panes \cup {p} /\ Len(l) = Len(w.layout) + 1
  BY InsertAfterElement DEF GoodWindow, WindowRecord
<1> HIDE DEF l
<1>2. Len(w.layout) \in Nat /\ w.active_pane \in Ids /\ w.active_pane # p
  BY LenProperties DEF GoodWindow, WindowRecord
<1>3. SplitActiveLeaf(w, p) =
        [layout |-> l, panes |-> w.panes \cup {p}, active_pane |-> p,
         last_pane |-> w.active_pane, zoomed |-> None]
  BY <1>2 DEF SplitActiveLeaf, SetActivePane, l, GoodWindow, WindowRecord
<1> QED BY <1>1, <1>2, <1>3 DEF GoodWindow, WindowRecord, None, Ids

\* Taking one of several panes out of a good window leaves the others.
LEMMA CollapseGood ==
  ASSUME NEW w, GoodWindow(w), NEW p \in w.panes, w.layout # <<p>>
  PROVE  /\ GoodWindow(CollapsePane(w, p))
         /\ CollapsePane(w, p).panes = w.panes \ {p}
<1> DEFINE rest == Delete(w.layout, p)
<1>1. /\ rest \in Seq(Ids) /\ IsInjective(rest)
      /\ ToSet(rest) = w.panes \ {p} /\ Len(rest) = Len(w.layout) - 1
  BY DeleteElement DEF GoodWindow, WindowRecord
<1> HIDE DEF rest
<1>2. w.layout \in Seq(Ids) /\ Len(w.layout) \in Nat \ {0, 1}
  <2>1. w.layout \in Seq(Ids) /\ Len(w.layout) \in Nat /\ p \in ToSet(w.layout)
    BY LenProperties DEF GoodWindow, WindowRecord
  <2>2. Len(w.layout) # 0
    BY <2>1 DEF ToSet
  <2>3. ASSUME Len(w.layout) = 1 PROVE FALSE
    BY <2>1, <2>3 DEF ToSet
  <2> QED BY <2>1, <2>2, <2>3
<1>3. rest[1] \in w.panes \ {p} /\ rest[1] \in Ids
  <2>1. Len(rest) \in Nat \ {0}
    BY <1>1, <1>2
  <2>2. 1 \in 1..Len(rest)
    BY <2>1
  <2>3. rest[1] \in ToSet(rest)
    BY <2>2, <1>1, ToSetMember
  <2> QED BY <2>3, <1>1 DEF GoodWindow, WindowRecord
<1> QED BY <1>1, <1>2, <1>3 DEF CollapsePane, rest, GoodWindow, WindowRecord, None, Ids

\* The methods that only change focus, zoom or the order of the leaves.
LEMMA RearrangeGood ==
  ASSUME NEW w, GoodWindow(w), NEW d \in BOOLEAN, NEW p \in w.panes
  PROVE  /\ GoodWindow(ToggleZoomOf(w)) /\ ToggleZoomOf(w).panes = w.panes
         /\ GoodWindow(ApplyLayoutOf(w)) /\ ApplyLayoutOf(w).panes = w.panes
         /\ GoodWindow(FocusLastPaneOf(w)) /\ FocusLastPaneOf(w).panes = w.panes
         /\ GoodWindow(RotatePanesOf(w, d)) /\ RotatePanesOf(w, d).panes = w.panes
         /\ GoodWindow(SwapWithActive(w, p)) /\ SwapWithActive(w, p).panes = w.panes
<1> DEFINE rot == Rotated(w.layout, d)
           exc == Exchange(w.layout, w.active_pane, p)
<1>0. /\ w.layout \in Seq(Ids) /\ w.layout # << >>
      /\ w.active_pane \in ToSet(w.layout) /\ p \in ToSet(w.layout)
  BY DEF GoodWindow, WindowRecord, ToSet
<1>1. rot \in Seq(Ids) /\ IsInjective(rot) /\ ToSet(rot) = w.panes /\ Len(rot) = Len(w.layout)
  BY <1>0, RotatedSequence DEF GoodWindow, WindowRecord
<1>2. exc \in Seq(Ids) /\ IsInjective(exc) /\ ToSet(exc) = w.panes /\ Len(exc) = Len(w.layout)
  BY <1>0, ExchangeElements DEF GoodWindow, WindowRecord
<1> HIDE DEF rot, exc
<1>3. GoodWindow(ToggleZoomOf(w)) /\ ToggleZoomOf(w).panes = w.panes
  BY DEF GoodWindow, ToggleZoomOf, WindowRecord, Ids, None
<1>4. GoodWindow(ApplyLayoutOf(w)) /\ ApplyLayoutOf(w).panes = w.panes
  BY DEF GoodWindow, ApplyLayoutOf, WindowRecord, Ids, None
<1>5. GoodWindow(FocusLastPaneOf(w)) /\ FocusLastPaneOf(w).panes = w.panes
  BY SetActivePaneGood DEF FocusLastPaneOf
<1>6. GoodWindow(RotatePanesOf(w, d)) /\ RotatePanesOf(w, d).panes = w.panes
  BY <1>1 DEF GoodWindow, RotatePanesOf, rot, WindowRecord, Ids, None
<1>7. GoodWindow(SwapWithActive(w, p)) /\ SwapWithActive(w, p).panes = w.panes
  BY <1>2 DEF GoodWindow, SwapWithActive, exc, WindowRecord, Ids, None
<1> QED BY <1>3, <1>4, <1>5, <1>6, <1>7

\* Exchanging two leaves without touching zoom (swap_panes in one window).
LEMMA ExchangeGood ==
  ASSUME NEW w, GoodWindow(w), NEW a \in w.panes, NEW b \in w.panes
  PROVE  LET x == [w EXCEPT !.layout = Exchange(@, a, b)]
         IN  GoodWindow(x) /\ x.panes = w.panes
<1> DEFINE exc == Exchange(w.layout, a, b)
<1>1. exc \in Seq(Ids) /\ IsInjective(exc) /\ ToSet(exc) = w.panes /\ Len(exc) = Len(w.layout)
  BY ExchangeElements DEF GoodWindow, WindowRecord
<1> HIDE DEF exc
<1> QED BY <1>1 DEF GoodWindow, exc, WindowRecord

\* Grafting a pane of another window into the slot of one of ours.
LEMMA GraftGood ==
  ASSUME NEW w, GoodWindow(w), NEW a \in w.panes, NEW b \in Ids, b \notin w.panes
  PROVE  /\ GoodWindow(GraftPane(w, a, b))
         /\ GraftPane(w, a, b).panes = (w.panes \ {a}) \cup {b}
<1> DEFINE l == Relabel(w.layout, a, b)
<1>1. /\ l \in Seq(Ids) /\ IsInjective(l) /\ Len(l) = Len(w.layout)
      /\ ToSet(l) = (w.panes \ {a}) \cup {b}
  BY RelabelElement DEF GoodWindow, WindowRecord
<1> HIDE DEF l
<1> QED BY <1>1 DEF GoodWindow, GraftPane, l, WindowRecord

-----------------------------------------------------------------------------
\* The window map W, when pane ids below np and window ids below nw are used.
GoodWindows(W, np, nw) ==
  /\ \A w \in DOMAIN W :
       /\ w \in Ids /\ w < nw
       /\ GoodWindow(W[w])
       /\ \A p \in W[w].panes : p < np
  /\ \A v, w \in DOMAIN W : v # w => W[v].panes \cap W[w].panes = {}

GoodSession(r) ==
  /\ r \in SessionRecord
  /\ IsInjective(r.windows)
  /\ r.active_window \in ToSet(r.windows)
  /\ r.last_window \in ToSet(r.windows) \cup {None}

\* The session map S, whose sessions own exactly the windows in D between
\* them, when session ids below ns are used.
GoodSessions(S, D, ns) ==
  /\ \A s \in DOMAIN S : s \in Ids /\ s < ns /\ GoodSession(S[s])
  /\ \A s, t \in DOMAIN S :
       s # t => ToSet(S[s].windows) \cap ToSet(S[t].windows) = {}
  /\ D = UNION {ToSet(S[s].windows) : s \in DOMAIN S}

GoodClients(C, S, nc) ==
  \A c \in DOMAIN C : c \in Ids /\ c < nc /\ C[c] \in Ids /\ C[c] \in DOMAIN S

\* The inductive invariant.
Structure ==
  /\ next \in [session : Ids, window : Ids, pane : Ids, client : Ids]
  /\ GoodWindows(windows, next.pane, next.window)
  /\ GoodSessions(sessions, DOMAIN windows, next.session)
  /\ GoodClients(clients, sessions, next.client)

-----------------------------------------------------------------------------
(* Updates of the window map                                               *)

\* One window changes, gaining at most a pane that is nowhere else.
LEMMA WindowUpdate ==
  ASSUME NEW W, NEW np \in Ids, NEW nw \in Ids, GoodWindows(W, np, nw),
         NEW mp \in Ids, np <= mp,
         NEW w \in DOMAIN W, NEW x, GoodWindow(x),
         NEW p \in Ids, p < mp,
         \A v \in DOMAIN W : v # w => p \notin W[v].panes,
         x.panes \subseteq W[w].panes \cup {p}
  PROVE  /\ GoodWindows([W EXCEPT ![w] = x], mp, nw)
         /\ DOMAIN [W EXCEPT ![w] = x] = DOMAIN W
<1> DEFINE V == [W EXCEPT ![w] = x]
<1>1. DOMAIN V = DOMAIN W /\ V[w] = x /\ \A v \in DOMAIN W : v # w => V[v] = W[v]
  OBVIOUS
<1> HIDE DEF V
<1>2. \A v \in DOMAIN W : W[v].panes \subseteq Ids
  BY DEF GoodWindows, GoodWindow, WindowRecord
<1>3. \A v \in DOMAIN V : v \in Ids /\ v < nw /\ GoodWindow(V[v])
  BY <1>1 DEF GoodWindows
<1>4. ASSUME NEW v \in DOMAIN V, NEW q \in V[v].panes PROVE q < mp
  <2>1. CASE v = w /\ q = p
    BY <2>1
  <2>2. CASE ~(v = w /\ q = p)
    <3>1. q \in W[v].panes
      BY <2>2, <1>1
    <3>2. q < np /\ q \in Nat /\ np \in Nat /\ mp \in Nat
      BY <3>1, <1>1, <1>2 DEF GoodWindows, Ids
    <3> QED BY <3>2
  <2> QED BY <2>1, <2>2
<1>5. \A v, u \in DOMAIN V : v # u => V[v].panes \cap V[u].panes = {}
  BY <1>1 DEF GoodWindows
<1> QED BY <1>1, <1>3, <1>4, <1>5 DEF GoodWindows, V

\* Two windows change and divide their panes anew.
LEMMA TwoWindowUpdate ==
  ASSUME NEW W, NEW np, NEW nw, GoodWindows(W, np, nw),
         NEW v \in DOMAIN W, NEW w \in DOMAIN W, v # w,
         NEW x, GoodWindow(x), NEW y, GoodWindow(y),
         x.panes \cup y.panes \subseteq W[v].panes \cup W[w].panes,
         x.panes \cap y.panes = {}
  PROVE  /\ GoodWindows([W EXCEPT ![v] = x, ![w] = y], np, nw)
         /\ DOMAIN [W EXCEPT ![v] = x, ![w] = y] = DOMAIN W
<1> DEFINE V == [W EXCEPT ![v] = x, ![w] = y]
<1>1. /\ DOMAIN V = DOMAIN W /\ V[v] = x /\ V[w] = y
      /\ \A u \in DOMAIN W : u # v /\ u # w => V[u] = W[u]
  OBVIOUS
<1> HIDE DEF V
<1>2. \A u \in DOMAIN V : u \in Ids /\ u < nw /\ GoodWindow(V[u])
  BY <1>1 DEF GoodWindows
<1>3. \A u \in DOMAIN V : \A q \in V[u].panes : q < np
  BY <1>1 DEF GoodWindows
<1>4. \A t, u \in DOMAIN V : t # u => V[t].panes \cap V[u].panes = {}
  <2> SUFFICES ASSUME NEW t \in DOMAIN V, NEW u \in DOMAIN V, t # u
               PROVE  V[t].panes \cap V[u].panes = {}
    OBVIOUS
  <2>1. CASE t \in {v, w} /\ u \in {v, w}
    BY <2>1, <1>1
  <2>2. CASE t \notin {v, w} /\ u \in {v, w}
    BY <2>2, <1>1 DEF GoodWindows
  <2>3. CASE t \in {v, w} /\ u \notin {v, w}
    BY <2>3, <1>1 DEF GoodWindows
  <2>4. CASE t \notin {v, w} /\ u \notin {v, w}
    BY <2>4, <1>1 DEF GoodWindows
  <2> QED BY <2>1, <2>2, <2>3, <2>4
<1> QED BY <1>1, <1>2, <1>3, <1>4 DEF GoodWindows, V

\* A new window holds one pane that is in no other window.
LEMMA WindowPut ==
  ASSUME NEW W, NEW np \in Ids, NEW nw \in Ids, GoodWindows(W, np, nw),
         NEW mp \in Ids, np <= mp, NEW p \in Ids, p < mp,
         \A v \in DOMAIN W : p \notin W[v].panes
  PROVE  LET V == Put(W, nw, NewWindowWith(p))
         IN  /\ GoodWindows(V, mp, nw + 1)
             /\ DOMAIN V = DOMAIN W \cup {nw}
<1> DEFINE V == Put(W, nw, NewWindowWith(p))
<1>0. GoodWindow(NewWindowWith(p)) /\ NewWindowWith(p).panes = {p}
  BY NewWindowGood
<1>1. nw \notin DOMAIN W
  BY DEF GoodWindows, Ids
<1>2. /\ DOMAIN V = DOMAIN W \cup {nw} /\ V[nw] = NewWindowWith(p)
      /\ \A v \in DOMAIN W : V[v] = W[v]
  BY <1>1 DEF Put
<1> HIDE DEF V
<1>3. \A v \in DOMAIN W : W[v].panes \subseteq Ids
  BY DEF GoodWindows, GoodWindow, WindowRecord
<1>4. \A v \in DOMAIN V : v \in Ids /\ v < nw + 1 /\ GoodWindow(V[v])
  BY <1>0, <1>2 DEF GoodWindows, Ids
<1>5. ASSUME NEW v \in DOMAIN V, NEW q \in V[v].panes PROVE q < mp
  <2>1. CASE v = nw
    BY <2>1, <1>0, <1>2
  <2>2. CASE v # nw
    <3>1. q < np /\ q \in Nat /\ np \in Nat /\ mp \in Nat
      BY <2>2, <1>2, <1>3 DEF GoodWindows, Ids
    <3> QED BY <3>1
  <2> QED BY <2>1, <2>2
<1>6. \A v, u \in DOMAIN V : v # u => V[v].panes \cap V[u].panes = {}
  BY <1>0, <1>2 DEF GoodWindows
<1> QED BY <1>2, <1>4, <1>5, <1>6 DEF GoodWindows, V

\* Windows close.
LEMMA WindowsWithout ==
  ASSUME NEW W, NEW np, NEW nw, GoodWindows(W, np, nw), NEW D
  PROVE  /\ GoodWindows(Without(W, D), np, nw)
         /\ DOMAIN Without(W, D) = DOMAIN W \ D
BY DEF GoodWindows, Without, Restrict

-----------------------------------------------------------------------------
(* Updates of a session and of the session map                             *)

\* A new session shows its one window.
LEMMA NewSessionGood ==
  ASSUME NEW w \in Ids
  PROVE  GoodSession(NewSessionWith(w)) /\ ToSet(NewSessionWith(w).windows) = {w}
BY DEF GoodSession, NewSessionWith, SessionRecord, IsInjective, ToSet, Ids, None

\* Focusing one of the session's windows.
LEMMA SetActiveWindowGood ==
  ASSUME NEW r, GoodSession(r), NEW w \in ToSet(r.windows)
  PROVE  /\ GoodSession(SetActiveWindow(r, w))
         /\ SetActiveWindow(r, w).windows = r.windows
<1>1. w \in Ids /\ \A x \in Ids : x \in Nat
  BY ToSetMember, ElementOfSeq DEF GoodSession, SessionRecord, Ids
<1> QED BY <1>1 DEF GoodSession, SetActiveWindow, SessionRecord

\* Reordering the session's windows.
LEMMA ReorderGood ==
  ASSUME NEW r, GoodSession(r), NEW ws \in Seq(Ids), IsInjective(ws),
         ToSet(ws) = ToSet(r.windows)
  PROVE  LET t == [r EXCEPT !.windows = ws]
         IN  GoodSession(t) /\ t.windows = ws
BY DEF GoodSession, SessionRecord

\* Adding a window, which takes the focus.
LEMMA AddWindowGood ==
  ASSUME NEW r, GoodSession(r), NEW w \in Ids, w \notin ToSet(r.windows)
  PROVE  /\ GoodSession(AddWindow(r, w))
         /\ ToSet(AddWindow(r, w).windows) = ToSet(r.windows) \cup {w}
<1> DEFINE t == [r EXCEPT !.windows = Append(@, w)]
<1>1. /\ t.windows \in Seq(Ids) /\ IsInjective(t.windows)
      /\ ToSet(t.windows) = ToSet(r.windows) \cup {w}
  BY AppendElement DEF GoodSession, SessionRecord
<1>2. GoodSession(t)
  BY <1>1 DEF GoodSession, SessionRecord
<1>3. w \in ToSet(t.windows) /\ AddWindow(r, w) = SetActiveWindow(t, w)
  BY <1>1 DEF AddWindow
<1> HIDE DEF t
<1> QED BY <1>1, <1>2, <1>3, SetActiveWindowGood

\* Removing a window that is not the only one: focus and the remembered
\* window end up among those that remain.
LEMMA RemoveWindowGood ==
  ASSUME NEW r, GoodSession(r), NEW w \in ToSet(r.windows),
         ToSet(r.windows) # {w}
  PROVE  /\ GoodSession(RemoveWindow(r, w))
         /\ ToSet(RemoveWindow(r, w).windows) = ToSet(r.windows) \ {w}
<1> DEFINE pos  == IndexOf(r.windows, w)
           rest == Delete(r.windows, w)
           last == IF r.last_window = w THEN None ELSE r.last_window
           place == IF pos = 1 THEN 1 ELSE pos - 1
           focus == IF r.active_window # w THEN r.active_window
                    ELSE IF last \in ToSet(rest) THEN last ELSE rest[place]
<1>1. r.windows \in Seq(Ids) /\ IsInjective(r.windows)
  BY DEF GoodSession, SessionRecord
<1>2. /\ rest \in Seq(Ids) /\ IsInjective(rest)
      /\ ToSet(rest) = ToSet(r.windows) \ {w}
      /\ Len(rest) = Len(r.windows) - 1
  BY <1>1, DeleteElement
<1>3. pos \in 1..Len(r.windows)
  BY <1>1, IndexOfElement
<1>4. Len(rest) \in Nat /\ Len(r.windows) \in Nat
  BY <1>1, <1>2, LenProperties
<1>5. Len(rest) # 0
  <2>1. PICK x \in ToSet(rest) : TRUE
    BY <1>2
  <2>2. PICK i \in 1..Len(rest) : rest[i] = x
    BY <2>1, <1>2, ToSetMember
  <2> QED BY <2>2, <1>4
<1> HIDE DEF pos, rest
<1>6. place \in 1..Len(rest)
  <2>1. Len(rest) >= 1
    BY <1>4, <1>5
  <2>2. CASE pos = 1
    BY <2>1, <2>2, <1>4
  <2>3. CASE pos # 1
    <3>1. pos - 1 \in 1..(Len(r.windows) - 1)
      BY <2>3, <1>3, <1>4
    <3> QED BY <2>3, <3>1, <1>2
  <2> QED BY <2>2, <2>3
<1>7. rest[place] \in ToSet(rest)
  BY <1>2, <1>6, ToSetMember
<1>8. last \in ToSet(rest) \cup {None}
  BY <1>2 DEF GoodSession
<1>9. focus \in ToSet(rest)
  BY <1>2, <1>7 DEF GoodSession
<1>10. ToSet(rest) \subseteq Ids
  BY <1>2, ToSetMember, ElementOfSeq
<1>11. RemoveWindow(r, w) =
         [windows |-> rest, last_window |-> last, active_window |-> focus]
  BY DEF RemoveWindow, pos, rest
<1> HIDE DEF last, focus
<1>12. last \in Nat /\ focus \in Ids
  BY <1>8, <1>9, <1>10 DEF Ids, None
<1> QED BY <1>2, <1>8, <1>9, <1>11, <1>12 DEF GoodSession, SessionRecord

\* One session changes, giving up windows or gaining ones that are new.
LEMMA SessionUpdate ==
  ASSUME NEW S, NEW D, NEW ns, GoodSessions(S, D, ns), NEW s \in DOMAIN S,
         NEW r, GoodSession(r),
         (ToSet(r.windows) \ ToSet(S[s].windows)) \cap D = {}
  PROVE  /\ GoodSessions([S EXCEPT ![s] = r],
                         (D \ ToSet(S[s].windows)) \cup ToSet(r.windows), ns)
         /\ DOMAIN [S EXCEPT ![s] = r] = DOMAIN S
<1> DEFINE V == [S EXCEPT ![s] = r]
           E == (D \ ToSet(S[s].windows)) \cup ToSet(r.windows)
<1>1. DOMAIN V = DOMAIN S /\ V[s] = r /\ \A t \in DOMAIN S : t # s => V[t] = S[t]
  OBVIOUS
<1> HIDE DEF V
<1>2. \A t \in DOMAIN V : t \in Ids /\ t < ns /\ GoodSession(V[t])
  BY <1>1 DEF GoodSessions
<1>3. \A t, u \in DOMAIN V :
        t # u => ToSet(V[t].windows) \cap ToSet(V[u].windows) = {}
  BY <1>1 DEF GoodSessions
<1>4. ASSUME NEW x PROVE x \in E <=> \E t \in DOMAIN V : x \in ToSet(V[t].windows)
  <2>1. x \in D <=> \E t \in DOMAIN S : x \in ToSet(S[t].windows)
    BY DEF GoodSessions
  <2>2. \A t \in DOMAIN S : t # s =>
          ToSet(S[t].windows) \cap ToSet(S[s].windows) = {}
    BY DEF GoodSessions
  <2> QED BY <2>1, <2>2, <1>1
<1>5. E = UNION {ToSet(V[t].windows) : t \in DOMAIN V}
  BY <1>4
<1> QED BY <1>1, <1>2, <1>3, <1>5 DEF GoodSessions, V

\* A session opens over new windows.
LEMMA SessionPut ==
  ASSUME NEW S, NEW D, NEW ns \in Ids, GoodSessions(S, D, ns),
         NEW r, GoodSession(r), ToSet(r.windows) \cap D = {}
  PROVE  /\ GoodSessions(Put(S, ns, r), D \cup ToSet(r.windows), ns + 1)
         /\ DOMAIN Put(S, ns, r) = DOMAIN S \cup {ns}
<1> DEFINE V == Put(S, ns, r)
<1>1. ns \notin DOMAIN S
  BY DEF GoodSessions, Ids
<1>2. /\ DOMAIN V = DOMAIN S \cup {ns} /\ V[ns] = r
      /\ \A t \in DOMAIN S : V[t] = S[t]
  BY <1>1 DEF Put
<1> HIDE DEF V
<1>3. \A t \in DOMAIN V : t \in Ids /\ t < ns + 1 /\ GoodSession(V[t])
  BY <1>2 DEF GoodSessions, Ids
<1>4. \A t, u \in DOMAIN V :
        t # u => ToSet(V[t].windows) \cap ToSet(V[u].windows) = {}
  BY <1>2 DEF GoodSessions
<1>5. D \cup ToSet(r.windows) = UNION {ToSet(V[t].windows) : t \in DOMAIN V}
  BY <1>2 DEF GoodSessions
<1> QED BY <1>2, <1>3, <1>4, <1>5 DEF GoodSessions, V

\* A session closes with its windows.
LEMMA SessionWithout ==
  ASSUME NEW S, NEW D, NEW ns, GoodSessions(S, D, ns), NEW s \in DOMAIN S
  PROVE  /\ GoodSessions(Without(S, {s}), D \ ToSet(S[s].windows), ns)
         /\ DOMAIN Without(S, {s}) = DOMAIN S \ {s}
<1> DEFINE V == Without(S, {s})
<1>1. DOMAIN V = DOMAIN S \ {s} /\ \A t \in DOMAIN V : V[t] = S[t]
  BY DEF Without, Restrict
<1> HIDE DEF V
<1>2. /\ \A t \in DOMAIN V : t \in Ids /\ t < ns /\ GoodSession(V[t])
      /\ \A t, u \in DOMAIN V :
           t # u => ToSet(V[t].windows) \cap ToSet(V[u].windows) = {}
  BY <1>1 DEF GoodSessions
<1>3. D \ ToSet(S[s].windows) = UNION {ToSet(V[t].windows) : t \in DOMAIN V}
  BY <1>1 DEF GoodSessions
<1> QED BY <1>1, <1>2, <1>3 DEF GoodSessions, V

-----------------------------------------------------------------------------
(* The actions preserve Structure                                          *)

\* What Structure says of one session and its windows.
LEMMA OfSession ==
  ASSUME Structure, NEW s \in DOMAIN sessions
  PROVE  /\ s \in Ids /\ GoodSession(sessions[s])
         /\ sessions[s].windows \in Seq(Ids) /\ IsInjective(sessions[s].windows)
         /\ ActiveWindow(s) \in WindowsOf(s)
         /\ WindowsOf(s) \subseteq DOMAIN windows
         /\ \A w \in WindowsOf(s) :
              /\ GoodWindow(windows[w]) /\ windows[w].layout \in Seq(Ids)
              /\ ToSet(windows[w].layout) = windows[w].panes
              /\ windows[w].active_pane \in windows[w].panes
              /\ windows[w].panes \subseteq Ids
         /\ \A p \in PanesOf(s) :
              /\ p \in Ids
              /\ WindowOfPane(s, p) \in WindowsOf(s)
              /\ p \in windows[WindowOfPane(s, p)].panes
<1>1. s \in Ids /\ GoodSession(sessions[s]) /\ WindowsOf(s) \subseteq DOMAIN windows
  BY DEF Structure, GoodSessions, WindowsOf
<1>2. /\ sessions[s].windows \in Seq(Ids) /\ IsInjective(sessions[s].windows)
      /\ ActiveWindow(s) \in WindowsOf(s)
  BY <1>1 DEF GoodSession, SessionRecord, WindowsOf, ActiveWindow
<1>3. \A w \in WindowsOf(s) :
        /\ GoodWindow(windows[w]) /\ windows[w].layout \in Seq(Ids)
        /\ ToSet(windows[w].layout) = windows[w].panes
        /\ windows[w].active_pane \in windows[w].panes
        /\ windows[w].panes \subseteq Ids
  BY <1>1 DEF Structure, GoodWindows, GoodWindow, WindowRecord
<1>4. ASSUME NEW p \in PanesOf(s)
      PROVE  /\ p \in Ids
             /\ WindowOfPane(s, p) \in WindowsOf(s)
             /\ p \in windows[WindowOfPane(s, p)].panes
  <2>1. PICK w \in WindowsOf(s) : p \in windows[w].panes
    BY DEF PanesOf
  <2>2. \E v \in WindowsOf(s) : p \in ToSet(windows[v].layout)
    BY <2>1, <1>3
  <2>3. /\ WindowOfPane(s, p) \in WindowsOf(s)
        /\ p \in ToSet(windows[WindowOfPane(s, p)].layout)
    BY <2>2 DEF WindowOfPane
  <2> QED BY <2>1, <2>3, <1>3
<1> QED BY <1>1, <1>2, <1>3, <1>4

\* A method of the active window that keeps its panes.
LEMMA UpdateActiveStructure ==
  ASSUME Structure, NEW s \in DOMAIN sessions, NEW x, GoodWindow(x),
         x.panes = Active(s).panes, UpdateActive(s, x)
  PROVE  Structure'
<1>1. /\ ActiveWindow(s) \in DOMAIN windows
      /\ Active(s).active_pane \in Active(s).panes
      /\ Active(s).panes \subseteq Ids
  BY OfSession DEF Active
<1>2. /\ next.pane \in Ids /\ next.window \in Ids
      /\ GoodWindows(windows, next.pane, next.window)
      /\ next.pane <= next.pane
  BY DEF Structure, Ids
<1>3. PICK p \in Ids : p = Active(s).active_pane
  BY <1>1
<1>4. /\ p < next.pane
      /\ \A v \in DOMAIN windows : v # ActiveWindow(s) => p \notin windows[v].panes
      /\ x.panes \subseteq windows[ActiveWindow(s)].panes \cup {p}
  BY <1>1, <1>2, <1>3 DEF GoodWindows, Active
<1>5. /\ GoodWindows(windows', next.pane, next.window)
      /\ DOMAIN windows' = DOMAIN windows
  BY <1>1, <1>2, <1>3, <1>4, WindowUpdate DEF UpdateActive
<1> QED BY <1>5 DEF Structure, UpdateActive

\* A method of the session that keeps its windows.
LEMMA UpdateSessionStructure ==
  ASSUME Structure, NEW s \in DOMAIN sessions, NEW r, GoodSession(r),
         ToSet(r.windows) = WindowsOf(s), UpdateSession(s, r)
  PROVE  Structure'
<1>1. /\ GoodSessions(sessions', (DOMAIN windows \ WindowsOf(s)) \cup ToSet(r.windows),
                      next.session)
      /\ DOMAIN sessions' = DOMAIN sessions
  <2>1. GoodSessions(sessions, DOMAIN windows, next.session)
    BY DEF Structure
  <2>2. (ToSet(r.windows) \ ToSet(sessions[s].windows)) \cap DOMAIN windows = {}
    BY DEF WindowsOf
  <2>3. sessions' = [sessions EXCEPT ![s] = r]
    BY DEF UpdateSession
  <2> QED BY <2>1, <2>2, <2>3, SessionUpdate DEF WindowsOf
<1>2. (DOMAIN windows \ WindowsOf(s)) \cup ToSet(r.windows) = DOMAIN windows
  BY OfSession
<1> QED BY <1>1, <1>2 DEF Structure, UpdateSession, GoodClients

\* Closing a session.
LEMMA DropSessionStructure ==
  ASSUME Structure, NEW s \in DOMAIN sessions, DropSession(s), UNCHANGED next
  PROVE  Structure'
<1>1. /\ GoodSessions(sessions', DOMAIN windows \ WindowsOf(s), next.session)
      /\ DOMAIN sessions' = DOMAIN sessions \ {s}
  BY SessionWithout DEF Structure, DropSession, WindowsOf
<1>2. /\ GoodWindows(windows', next.pane, next.window)
      /\ DOMAIN windows' = DOMAIN windows \ WindowsOf(s)
  BY WindowsWithout DEF Structure, DropSession
<1>3. GoodClients(clients', sessions', next.client)
  BY <1>1 DEF Structure, GoodClients, DropSession, Without, Restrict
<1> QED BY <1>1, <1>2, <1>3 DEF Structure

\* A session drops one of several windows from its list, and the window map
\* drops it too.
LEMMA RemoveWindowStructure ==
  ASSUME Structure, NEW s \in DOMAIN sessions, NEW w \in WindowsOf(s),
         WindowsOf(s) # {w},
         sessions' = [sessions EXCEPT ![s] = RemoveWindow(@, w)],
         GoodWindows(windows', next.pane, next.window),
         DOMAIN windows' = DOMAIN windows \ {w}, UNCHANGED <<clients, next>>
  PROVE  Structure'
<1>1. /\ GoodSession(RemoveWindow(sessions[s], w))
      /\ ToSet(RemoveWindow(sessions[s], w).windows) = WindowsOf(s) \ {w}
  BY OfSession, RemoveWindowGood DEF WindowsOf
<1>2. /\ GoodSessions(sessions', (DOMAIN windows \ WindowsOf(s)) \cup (WindowsOf(s) \ {w}),
                      next.session)
      /\ DOMAIN sessions' = DOMAIN sessions
  <2>1. PICK r : r = RemoveWindow(sessions[s], w)
    OBVIOUS
  <2>2. /\ GoodSessions(sessions, DOMAIN windows, next.session)
        /\ GoodSession(r) /\ ToSet(r.windows) = WindowsOf(s) \ {w}
    BY <1>1, <2>1 DEF Structure
  <2>3. (ToSet(r.windows) \ ToSet(sessions[s].windows)) \cap DOMAIN windows = {}
    BY <2>2 DEF WindowsOf
  <2>4. sessions' = [sessions EXCEPT ![s] = r]
    BY <2>1
  <2>5. /\ GoodSessions([sessions EXCEPT ![s] = r],
                        (DOMAIN windows \ ToSet(sessions[s].windows))
                          \cup ToSet(r.windows), next.session)
        /\ DOMAIN [sessions EXCEPT ![s] = r] = DOMAIN sessions
    BY <2>2, <2>3, SessionUpdate
  <2>6. ToSet(sessions[s].windows) = WindowsOf(s)
    BY DEF WindowsOf
  <2> QED BY <2>2, <2>4, <2>5, <2>6
<1>3. (DOMAIN windows \ WindowsOf(s)) \cup (WindowsOf(s) \ {w}) = DOMAIN windows \ {w}
  BY OfSession
<1> QED BY <1>2, <1>3 DEF Structure, GoodClients

\* Closing one of several windows of a session.
LEMMA CloseWindowStructure ==
  ASSUME Structure, NEW s \in DOMAIN sessions, NEW w \in WindowsOf(s),
         WindowsOf(s) # {w},
         sessions' = [sessions EXCEPT ![s] = RemoveWindow(@, w)],
         windows' = Without(windows, {w}), UNCHANGED <<clients, next>>
  PROVE  Structure'
<1>1. /\ GoodWindows(windows', next.pane, next.window)
      /\ DOMAIN windows' = DOMAIN windows \ {w}
  BY WindowsWithout DEF Structure
<1> QED BY <1>1, RemoveWindowStructure

\* A window that changes without gaining panes.
LEMMA WindowKeepsGood ==
  ASSUME Structure, NEW w \in DOMAIN windows, NEW x, GoodWindow(x),
         x.panes \subseteq windows[w].panes
  PROVE  /\ GoodWindows([windows EXCEPT ![w] = x], next.pane, next.window)
         /\ DOMAIN [windows EXCEPT ![w] = x] = DOMAIN windows
<1>1. /\ next.pane \in Ids /\ next.window \in Ids
      /\ GoodWindows(windows, next.pane, next.window)
      /\ next.pane <= next.pane
  BY DEF Structure, Ids
<1>2. /\ windows[w].active_pane \in windows[w].panes
      /\ windows[w].panes \subseteq Ids
  BY <1>1 DEF GoodWindows, GoodWindow, WindowRecord
<1>3. PICK p \in Ids : p \in windows[w].panes
  BY <1>2
<1>4. /\ p < next.pane
      /\ \A v \in DOMAIN windows : v # w => p \notin windows[v].panes
      /\ x.panes \subseteq windows[w].panes \cup {p}
  BY <1>1, <1>3 DEF GoodWindows
<1> QED BY <1>1, <1>3, <1>4, WindowUpdate

\* kill_pane: the window collapses, closes, or closes the session.
LEMMA KillPaneStructure ==
  ASSUME Structure, NEW s \in DOMAIN sessions, NEW p \in PanesOf(s), KillPane(s, p)
  PROVE  Structure'
<1> DEFINE w == WindowOfPane(s, p)
<1>1. /\ w \in WindowsOf(s) /\ w \in DOMAIN windows /\ p \in windows[w].panes
      /\ GoodWindow(windows[w])
  BY OfSession
<1> HIDE DEF w
<1>2. CASE /\ windows[w].layout # <<p>>
           /\ windows' = [windows EXCEPT ![w] = CollapsePane(@, p)]
           /\ UNCHANGED <<sessions, clients, next>>
  <2>1. PICK x : x = CollapsePane(windows[w], p)
    OBVIOUS
  <2>2. GoodWindow(x) /\ x.panes \subseteq windows[w].panes
    BY <1>1, <1>2, <2>1, CollapseGood
  <2>3. windows' = [windows EXCEPT ![w] = x]
    BY <1>2, <2>1
  <2>4. /\ GoodWindows(windows', next.pane, next.window)
        /\ DOMAIN windows' = DOMAIN windows
    BY <1>1, <2>2, <2>3, WindowKeepsGood
  <2> QED BY <1>2, <2>4 DEF Structure
<1>3. CASE /\ WindowsOf(s) # {w}
           /\ sessions' = [sessions EXCEPT ![s] = RemoveWindow(@, w)]
           /\ windows' = Without(windows, {w})
           /\ UNCHANGED <<clients, next>>
  BY <1>1, <1>3, CloseWindowStructure
<1>4. CASE DropSession(s) /\ UNCHANGED next
  BY <1>4, DropSessionStructure
<1> QED BY <1>2, <1>3, <1>4 DEF KillPane, w

\* Opening one window in session s over a window map V from which a pane has
\* been taken, or over the map as it is.
LEMMA OpenWindowStructure ==
  ASSUME Structure, NEW s \in DOMAIN sessions, NEW V,
         DOMAIN V = DOMAIN windows,
         GoodWindows(V, next.pane, next.window), NEW mp \in Ids, next.pane <= mp,
         NEW p \in Ids, p < mp, \A v \in DOMAIN V : p \notin V[v].panes,
         windows' = Put(V, next.window, NewWindowWith(p)),
         sessions' = [sessions EXCEPT ![s] = AddWindow(@, next.window)],
         next' = [next EXCEPT !.window = @ + 1, !.pane = mp],
         UNCHANGED clients
  PROVE  Structure'
<1>1. /\ next \in [session : Ids, window : Ids, pane : Ids, client : Ids]
      /\ next.pane \in Ids /\ next.window \in Ids
  BY DEF Structure
<1>2. next.window \notin DOMAIN windows
  BY <1>1 DEF Structure, GoodWindows, Ids
<1>3. /\ GoodWindows(windows', mp, next.window + 1)
      /\ DOMAIN windows' = DOMAIN windows \cup {next.window}
  BY <1>1, WindowPut
<1>4. PICK r : r = AddWindow(sessions[s], next.window)
  OBVIOUS
<1>5. GoodSession(r) /\ ToSet(r.windows) = WindowsOf(s) \cup {next.window}
  BY <1>1, <1>2, <1>4, OfSession, AddWindowGood DEF WindowsOf
<1>6. /\ GoodSessions(sessions, DOMAIN windows, next.session)
      /\ (ToSet(r.windows) \ ToSet(sessions[s].windows)) \cap DOMAIN windows = {}
  BY <1>2, <1>5 DEF Structure, WindowsOf
<1>7. /\ GoodSessions([sessions EXCEPT ![s] = r],
                      (DOMAIN windows \ ToSet(sessions[s].windows))
                        \cup ToSet(r.windows), next.session)
      /\ DOMAIN [sessions EXCEPT ![s] = r] = DOMAIN sessions
  BY <1>5, <1>6, SessionUpdate
<1>8. (DOMAIN windows \ ToSet(sessions[s].windows)) \cup ToSet(r.windows) = DOMAIN windows'
  BY <1>3, <1>5, OfSession DEF WindowsOf
<1>9. /\ GoodSessions(sessions', DOMAIN windows', next.session)
      /\ DOMAIN sessions' = DOMAIN sessions
  <2>1. sessions' = [sessions EXCEPT ![s] = r]
    BY <1>4
  <2> QED BY <2>1, <1>7, <1>8
<1>10. /\ next' \in [session : Ids, window : Ids, pane : Ids, client : Ids]
       /\ next'.pane = mp /\ next'.window = next.window + 1
       /\ next'.session = next.session /\ next'.client = next.client
  <2>1. next' = [session |-> next.session, window |-> next.window + 1,
                 pane |-> mp, client |-> next.client]
    BY <1>1
  <2>2. next.session \in Ids /\ next.window + 1 \in Ids /\ next.client \in Ids
    BY <1>1 DEF Ids, None
  <2> QED BY <2>1, <2>2
<1>11. GoodClients(clients', sessions', next'.client)
  BY <1>9, <1>10 DEF Structure, GoodClients
<1> QED BY <1>3, <1>9, <1>10, <1>11 DEF Structure

\* The next pane id is in no window.
LEMMA NextPaneIsNew ==
  ASSUME Structure
  PROVE  /\ next.pane \in Ids /\ next.pane + 1 \in Ids
         /\ next.pane <= next.pane + 1 /\ next.pane < next.pane + 1
         /\ next.pane <= next.pane
         /\ \A w \in DOMAIN windows : next.pane \notin windows[w].panes
BY DEF Structure, GoodWindows, Ids, None

\* new_session: a new session around a new window with a new pane.
LEMMA NewSessionStructure ==
  ASSUME Structure, NewSession
  PROVE  Structure'
<1>1. /\ next \in [session : Ids, window : Ids, pane : Ids, client : Ids]
      /\ next.pane \in Ids /\ next.window \in Ids /\ next.session \in Ids
      /\ next.client \in Ids
  BY DEF Structure
<1>2. next.window \notin DOMAIN windows
  BY <1>1 DEF Structure, GoodWindows, Ids
<1>3. /\ GoodWindows(windows', next.pane + 1, next.window + 1)
      /\ DOMAIN windows' = DOMAIN windows \cup {next.window}
  <2>1. GoodWindows(windows, next.pane, next.window)
    BY DEF Structure
  <2>2. windows' = Put(windows, next.window, NewWindowWith(next.pane))
    BY DEF NewSession
  <2> QED BY <1>1, <2>1, <2>2, NextPaneIsNew, WindowPut
<1>4. PICK r : r = NewSessionWith(next.window)
  OBVIOUS
<1>5. GoodSession(r) /\ ToSet(r.windows) = {next.window}
  BY <1>1, <1>4, NewSessionGood
<1>6. /\ GoodSessions(Put(sessions, next.session, r),
                      DOMAIN windows \cup ToSet(r.windows), next.session + 1)
      /\ DOMAIN Put(sessions, next.session, r) = DOMAIN sessions \cup {next.session}
  BY <1>1, <1>2, <1>5, SessionPut DEF Structure
<1>7. sessions' = Put(sessions, next.session, r)
  BY <1>4 DEF NewSession
<1>8. next' = [session |-> next.session + 1, window |-> next.window + 1,
               pane |-> next.pane + 1, client |-> next.client]
  BY <1>1 DEF NewSession
<1>9. /\ next.session + 1 \in Ids /\ next.window + 1 \in Ids /\ next.pane + 1 \in Ids
  BY <1>1 DEF Ids, None
<1>10. GoodSessions(sessions', DOMAIN windows', next.session + 1)
  BY <1>3, <1>5, <1>6, <1>7
<1>11. GoodClients(clients', sessions', next.client)
  BY <1>6, <1>7 DEF Structure, GoodClients, NewSession
<1> QED BY <1>1, <1>3, <1>8, <1>9, <1>10, <1>11 DEF Structure

\* new_window: a window with a new pane, in a session that is there.
LEMMA NewWindowStructure ==
  ASSUME Structure, NEW s \in DOMAIN sessions, NewWindow(s)
  PROVE  Structure'
<1>1. GoodWindows(windows, next.pane, next.window)
  BY DEF Structure
<1>2. /\ windows' = Put(windows, next.window, NewWindowWith(next.pane))
      /\ sessions' = [sessions EXCEPT ![s] = AddWindow(@, next.window)]
      /\ next' = [next EXCEPT !.window = @ + 1, !.pane = next.pane + 1]
      /\ UNCHANGED clients
  BY DEF NewWindow
<1> QED BY <1>1, <1>2, NextPaneIsNew, OpenWindowStructure

\* split_active: the active window gains a new pane.
LEMMA SplitActiveStructure ==
  ASSUME Structure, NEW s \in DOMAIN sessions, SplitActive(s)
  PROVE  Structure'
<1>1. PICK w \in DOMAIN windows : w = ActiveWindow(s)
  BY OfSession
<1>2. PICK p : p = next.pane
  OBVIOUS
<1>3. /\ p \in Ids /\ p + 1 \in Ids /\ p <= p + 1 /\ p < p + 1
      /\ \A v \in DOMAIN windows : p \notin windows[v].panes
  BY <1>2, NextPaneIsNew
<1>4. PICK x : x = SplitActiveLeaf(windows[w], p)
  OBVIOUS
<1>5. GoodWindow(x) /\ x.panes = windows[w].panes \cup {p}
  BY <1>1, <1>3, <1>4, SplitGood, OfSession
<1>6. /\ GoodWindows(windows, p, next.window) /\ next.window \in Ids
      /\ next \in [session : Ids, window : Ids, pane : Ids, client : Ids]
  BY <1>2 DEF Structure
<1>7. /\ GoodWindows([windows EXCEPT ![w] = x], p + 1, next.window)
      /\ DOMAIN [windows EXCEPT ![w] = x] = DOMAIN windows
  BY <1>3, <1>5, <1>6, WindowUpdate
<1>8. windows' = [windows EXCEPT ![w] = x]
  BY <1>1, <1>2, <1>4 DEF SplitActive
<1>9. next' = [session |-> next.session, window |-> next.window,
               pane |-> p + 1, client |-> next.client]
  BY <1>2, <1>6 DEF SplitActive
<1>10. next' \in [session : Ids, window : Ids, pane : Ids, client : Ids]
  BY <1>3, <1>6, <1>9
<1>11. GoodWindows(windows', next'.pane, next'.window)
  BY <1>7, <1>8, <1>9
<1>12. /\ GoodSessions(sessions', DOMAIN windows', next'.session)
       /\ GoodClients(clients', sessions', next'.client)
  BY <1>7, <1>8, <1>9 DEF Structure, SplitActive
<1> QED BY <1>10, <1>11, <1>12 DEF Structure

\* break_active_pane: the focused pane moves to a window of its own.
LEMMA BreakActivePaneStructure ==
  ASSUME Structure, NEW s \in DOMAIN sessions, BreakActivePane(s)
  PROVE  Structure'
<1>1. PICK w \in DOMAIN windows : w = ActiveWindow(s)
  BY OfSession
<1>2. PICK p : p = Active(s).active_pane
  OBVIOUS
<1>3. /\ p \in Ids /\ p \in windows[w].panes /\ GoodWindow(windows[w])
      /\ windows[w].layout # <<p>>
  <2>1. Active(s) = windows[w] /\ Len(windows[w].layout) > 1
    BY <1>1 DEF Active, BreakActivePane
  <2>2. p \in Ids /\ p \in windows[w].panes /\ GoodWindow(windows[w])
    BY <1>1, <1>2, <2>1, OfSession
  <2>3. ASSUME windows[w].layout = <<p>> PROVE FALSE
    <3>1. Len(<<p>>) > 1
      BY <2>1, <2>3
    <3> QED BY <3>1
  <2> QED BY <2>2, <2>3
<1>4. PICK x : x = CollapsePane(windows[w], p)
  OBVIOUS
<1>5. GoodWindow(x) /\ x.panes = windows[w].panes \ {p}
  BY <1>3, <1>4, CollapseGood
<1>6. PICK V : V = [windows EXCEPT ![w] = x]
  OBVIOUS
<1>7. GoodWindows(V, next.pane, next.window) /\ DOMAIN V = DOMAIN windows
  BY <1>5, <1>6, WindowKeepsGood
<1>8. \A v \in DOMAIN V : p \notin V[v].panes
  BY <1>3, <1>5, <1>6, <1>7 DEF Structure, GoodWindows
<1>9. p < next.pane
  BY <1>3 DEF Structure, GoodWindows
<1>10. next \in [session : Ids, window : Ids, pane : Ids, client : Ids]
  BY DEF Structure
<1>11. next' = [next EXCEPT !.window = @ + 1, !.pane = next.pane]
  BY <1>10 DEF BreakActivePane
<1>12. /\ windows' = Put(V, next.window, NewWindowWith(p))
       /\ sessions' = [sessions EXCEPT ![s] = AddWindow(@, next.window)]
       /\ UNCHANGED clients
  BY <1>1, <1>2, <1>4, <1>6 DEF BreakActivePane
<1> QED BY <1>3, <1>7, <1>8, <1>9, <1>11, <1>12, NextPaneIsNew, OpenWindowStructure

\* break, join and swap: a pane changes window.
LEMMA MovePaneToActiveStructure ==
  ASSUME Structure, NEW s \in DOMAIN sessions, NEW w \in WindowsOf(s),
         NEW p \in windows[w].panes, MovePaneToActive(s, w, p)
  PROVE  Structure'
<1>1. PICK d : d = ActiveWindow(s)
  OBVIOUS
<1>2. /\ d \in WindowsOf(s) /\ d \in DOMAIN windows /\ w \in DOMAIN windows /\ w # d
      /\ GoodWindow(windows[d]) /\ GoodWindow(windows[w]) /\ p \in Ids
  BY <1>1, OfSession DEF MovePaneToActive
<1>3. p \notin windows[d].panes
  BY <1>2 DEF Structure, GoodWindows
<1>4. PICK x : x = SplitActiveLeaf(windows[d], p)
  OBVIOUS
<1>5. GoodWindow(x) /\ x.panes = windows[d].panes \cup {p}
  BY <1>2, <1>3, <1>4, SplitGood
<1>6. CASE /\ windows[w].layout = <<p>>
           /\ windows' = Without([windows EXCEPT ![d] = x], {w})
           /\ sessions' = [sessions EXCEPT ![s] = RemoveWindow(@, w)]
           /\ UNCHANGED <<clients, next>>
  <2>1. PICK V : V = Without(windows, {w})
    OBVIOUS
  <2>2. /\ GoodWindows(V, next.pane, next.window) /\ DOMAIN V = DOMAIN windows \ {w}
        /\ d \in DOMAIN V /\ \A v \in DOMAIN V : V[v] = windows[v]
    BY <2>1, <1>2, WindowsWithout DEF Structure, Without, Restrict
  <2>3. /\ next.pane \in Ids /\ next.window \in Ids /\ next.pane <= next.pane
        /\ p < next.pane
    BY <1>2, NextPaneIsNew DEF Structure, GoodWindows
  <2>4. \A v \in DOMAIN V : v # d => p \notin V[v].panes
    BY <1>2, <2>2 DEF Structure, GoodWindows
  <2>5. /\ GoodWindows([V EXCEPT ![d] = x], next.pane, next.window)
        /\ DOMAIN [V EXCEPT ![d] = x] = DOMAIN V
    BY <1>2, <1>5, <2>2, <2>3, <2>4, WindowUpdate
  <2>6. windows' = [V EXCEPT ![d] = x]
    BY <1>2, <1>6, <2>1, <2>2 DEF Without, Restrict
  <2>7. WindowsOf(s) # {w}
    BY <1>2
  <2>8. /\ GoodWindows(windows', next.pane, next.window)
        /\ DOMAIN windows' = DOMAIN windows \ {w}
    BY <2>2, <2>5, <2>6
  <2> QED BY <1>6, <2>7, <2>8, RemoveWindowStructure
<1>7. CASE /\ windows[w].layout # <<p>>
           /\ windows' = [[windows EXCEPT ![d] = x] EXCEPT ![w] = CollapsePane(@, p)]
           /\ UNCHANGED <<sessions, clients, next>>
  <2>1. PICK y : y = CollapsePane(windows[w], p)
    OBVIOUS
  <2>2. GoodWindow(y) /\ y.panes = windows[w].panes \ {p}
    BY <1>2, <1>7, <2>1, CollapseGood
  <2>3. windows' = [windows EXCEPT ![d] = x, ![w] = y]
    BY <1>2, <1>7, <2>1
  <2>4. /\ x.panes \cup y.panes \subseteq windows[d].panes \cup windows[w].panes
        /\ x.panes \cap y.panes = {}
    BY <1>2, <1>5, <2>2 DEF Structure, GoodWindows
  <2>5. /\ GoodWindows(windows', next.pane, next.window)
        /\ DOMAIN windows' = DOMAIN windows
    BY <1>2, <1>5, <2>2, <2>3, <2>4, TwoWindowUpdate DEF Structure
  <2> QED BY <1>7, <2>5 DEF Structure
<1> QED BY <1>1, <1>4, <1>6, <1>7 DEF MovePaneToActive

\* swap_panes: two panes of the session trade places.
LEMMA SwapPanesStructure ==
  ASSUME Structure, NEW s \in DOMAIN sessions, NEW b \in PanesOf(s), SwapPanes(s, b)
  PROVE  Structure'
<1>1. PICK a, v, w : /\ a = Active(s).active_pane /\ v = ActiveWindow(s)
                     /\ w = WindowOfPane(s, b)
  OBVIOUS
<1>2. /\ v \in DOMAIN windows /\ w \in DOMAIN windows
      /\ GoodWindow(windows[v]) /\ GoodWindow(windows[w])
      /\ a \in windows[v].panes /\ b \in windows[w].panes
      /\ a \in Ids /\ b \in Ids
  BY <1>1, OfSession DEF Active
<1>3. CASE /\ v = w
           /\ windows' = [windows EXCEPT ![v].layout = Exchange(@, a, b)]
           /\ UNCHANGED <<sessions, clients, next>>
  <2>1. PICK x : x = [windows[v] EXCEPT !.layout = Exchange(@, a, b)]
    OBVIOUS
  <2>2. GoodWindow(x) /\ x.panes \subseteq windows[v].panes
    BY <1>2, <1>3, <2>1, ExchangeGood
  <2>3. windows' = [windows EXCEPT ![v] = x]
    BY <1>3, <2>1
  <2>4. /\ GoodWindows(windows', next.pane, next.window)
        /\ DOMAIN windows' = DOMAIN windows
    BY <1>2, <2>2, <2>3, WindowKeepsGood
  <2> QED BY <1>3, <2>4 DEF Structure
<1>4. CASE /\ v # w
           /\ windows' = [windows EXCEPT ![v] = GraftPane(@, a, b),
                                         ![w] = GraftPane(@, b, a)]
           /\ UNCHANGED <<sessions, clients, next>>
  <2>1. PICK x, y : x = GraftPane(windows[v], a, b) /\ y = GraftPane(windows[w], b, a)
    OBVIOUS
  <2>2. windows[v].panes \cap windows[w].panes = {}
    BY <1>2, <1>4 DEF Structure, GoodWindows
  <2>3. /\ GoodWindow(x) /\ x.panes = (windows[v].panes \ {a}) \cup {b}
        /\ GoodWindow(y) /\ y.panes = (windows[w].panes \ {b}) \cup {a}
    BY <1>2, <2>1, <2>2, GraftGood
  <2>4. /\ x.panes \cup y.panes \subseteq windows[v].panes \cup windows[w].panes
        /\ x.panes \cap y.panes = {}
    BY <1>2, <2>2, <2>3
  <2>5. windows' = [windows EXCEPT ![v] = x, ![w] = y]
    BY <1>4, <2>1
  <2>6. /\ GoodWindows(windows', next.pane, next.window)
        /\ DOMAIN windows' = DOMAIN windows
    <3>1. GoodWindows(windows, next.pane, next.window)
      BY DEF Structure
    <3>2. /\ GoodWindows([windows EXCEPT ![v] = x, ![w] = y], next.pane, next.window)
          /\ DOMAIN [windows EXCEPT ![v] = x, ![w] = y] = DOMAIN windows
      BY <3>1, <1>2, <1>4, <2>3, <2>4, TwoWindowUpdate
    <3> QED BY <3>2, <2>5
  <2> QED BY <1>4, <2>6 DEF Structure
<1> QED BY <1>1, <1>3, <1>4 DEF SwapPanes

\* Focus, zoom, layout, rotation and sibling swaps act on the active window.
LEMMA ActiveWindowMethodsStructure ==
  ASSUME Structure, NEW s \in DOMAIN sessions,
         \/ ApplyLayout(s) \/ ToggleZoom(s) \/ FocusNextPane(s) \/ FocusLastPane(s)
         \/ \E d \in BOOLEAN : RotatePanes(s, d) \/ SwapActivePane(s, d)
         \/ \E p \in PanesOf(s) : FocusPane(s, p)
  PROVE  Structure'
<1>1. PICK w : w = Active(s)
  OBVIOUS
<1>2. /\ GoodWindow(w) /\ w.active_pane \in w.panes
      /\ w.layout \in Seq(Ids) /\ ToSet(w.layout) = w.panes
  BY <1>1, OfSession DEF Active
<1>3. CASE ApplyLayout(s)
  BY <1>1, <1>2, <1>3, RearrangeGood, UpdateActiveStructure DEF ApplyLayout
<1>4. CASE ToggleZoom(s)
  BY <1>1, <1>2, <1>4, RearrangeGood, UpdateActiveStructure DEF ToggleZoom
<1>5. CASE FocusNextPane(s)
  <2>1. CyclicNext(w.layout, w.active_pane) \in w.panes
    BY <1>2, CyclicNeighbours
  <2> QED BY <1>1, <1>2, <1>5, <2>1, SetActivePaneGood, UpdateActiveStructure
          DEF FocusNextPane
<1>6. CASE FocusLastPane(s)
  BY <1>1, <1>2, <1>6, RearrangeGood, UpdateActiveStructure DEF FocusLastPane
<1>7. ASSUME NEW d \in BOOLEAN, RotatePanes(s, d) PROVE Structure'
  BY <1>1, <1>2, <1>7, RearrangeGood, UpdateActiveStructure DEF RotatePanes
<1>8. ASSUME NEW d \in BOOLEAN, SwapActivePane(s, d) PROVE Structure'
  <2>1. PICK q : q = IF d THEN CyclicNext(w.layout, w.active_pane)
                     ELSE CyclicPrev(w.layout, w.active_pane)
    OBVIOUS
  <2>2. q \in w.panes
    BY <1>2, <2>1, CyclicNeighbours
  <2>3. UpdateActive(s, SwapWithActive(w, q))
    BY <1>1, <1>8, <2>1 DEF SwapActivePane, UpdateActive, Active
  <2> QED BY <1>1, <1>2, <2>2, <2>3, RearrangeGood, UpdateActiveStructure
<1>9. ASSUME NEW p \in PanesOf(s), FocusPane(s, p) PROVE Structure'
  BY <1>1, <1>2, <1>9, SetActivePaneGood, UpdateActiveStructure DEF FocusPane
<1> QED BY <1>3, <1>4, <1>5, <1>6, <1>7, <1>8, <1>9

\* The session methods that focus or reorder windows.
LEMMA SessionMethodsStructure ==
  ASSUME Structure, NEW s \in DOMAIN sessions,
         \/ FocusNextWindow(s) \/ FocusPrevWindow(s) \/ FocusLastWindow(s)
         \/ \E d \in BOOLEAN : MoveActiveWindow(s, d)
         \/ \E w \in WindowsOf(s) :
              \/ FocusWindow(s, w)
              \/ \E x \in WindowsOf(s) : SwapWindows(s, w, x)
         \/ \E i \in DOMAIN sessions[s].windows : MoveActiveWindowTo(s, i)
  PROVE  Structure'
<1>1. PICK r : r = sessions[s]
  OBVIOUS
<1>2. PICK a : a = ActiveWindow(s)
  OBVIOUS
<1>3. /\ GoodSession(r) /\ r.windows \in Seq(Ids) /\ IsInjective(r.windows)
      /\ ToSet(r.windows) = WindowsOf(s) /\ a \in ToSet(r.windows)
  BY <1>1, <1>2, OfSession DEF WindowsOf
<1>4. ASSUME NEW w \in WindowsOf(s), UpdateSession(s, SetActiveWindow(r, w))
      PROVE  Structure'
  BY <1>3, <1>4, SetActiveWindowGood, UpdateSessionStructure
<1>5. ASSUME NEW ws \in Seq(Ids), IsInjective(ws), ToSet(ws) = WindowsOf(s),
             UpdateSession(s, [r EXCEPT !.windows = ws])
      PROVE  Structure'
  BY <1>3, <1>5, ReorderGood, UpdateSessionStructure
<1>6. ASSUME NEW w \in WindowsOf(s), NEW x \in WindowsOf(s), SwapWindows(s, w, x)
      PROVE  Structure'
  <2>1. UpdateSession(s, [r EXCEPT !.windows = Exchange(r.windows, w, x)])
    BY <1>1, <1>6 DEF SwapWindows
  <2> QED BY <1>3, <1>5, <2>1, ExchangeElements
<1>7. CyclicNext(r.windows, a) \in WindowsOf(s) /\ CyclicPrev(r.windows, a) \in WindowsOf(s)
  BY <1>3, CyclicNeighbours
<1>8. CASE FocusNextWindow(s) \/ FocusPrevWindow(s) \/ FocusLastWindow(s)
  BY <1>1, <1>2, <1>4, <1>7, <1>8 DEF FocusNextWindow, FocusPrevWindow, FocusLastWindow
<1>9. ASSUME NEW d \in BOOLEAN, MoveActiveWindow(s, d) PROVE Structure'
  <2>1. PICK x : x = IF d THEN CyclicNext(r.windows, a) ELSE CyclicPrev(r.windows, a)
    OBVIOUS
  <2>2. x \in WindowsOf(s) /\ SwapWindows(s, a, x)
    BY <1>1, <1>2, <1>7, <1>9, <2>1 DEF MoveActiveWindow
  <2> QED BY <1>3, <1>6, <2>2
<1>10. ASSUME NEW w \in WindowsOf(s), FocusWindow(s, w) PROVE Structure'
  BY <1>1, <1>4, <1>10 DEF FocusWindow
<1>11. ASSUME NEW i \in DOMAIN sessions[s].windows, MoveActiveWindowTo(s, i)
       PROVE  Structure'
  <2>1. PICK rest : rest = Delete(r.windows, a)
    OBVIOUS
  <2>2. /\ rest \in Seq(Ids) /\ IsInjective(rest)
        /\ ToSet(rest) = WindowsOf(s) \ {a} /\ Len(rest) = Len(r.windows) - 1
    BY <1>3, <2>1, DeleteElement
  <2>3. a \in Ids /\ i \in 1..(Len(rest) + 1)
    <3>1. a \in Ids
      BY <1>3, ToSetMember, ElementOfSeq
    <3>2. i \in 1..Len(r.windows) /\ Len(r.windows) \in Nat
      BY <1>1, <1>3, LenProperties
    <3>3. (Len(r.windows) - 1) + 1 = Len(r.windows)
      BY <3>2
    <3> QED BY <3>1, <3>2, <3>3, <2>2
  <2>4. PICK ws : ws = InsertAt(rest, i, a)
    OBVIOUS
  <2>5. ws \in Seq(Ids) /\ IsInjective(ws) /\ ToSet(ws) = WindowsOf(s)
    <3>1. a \notin ToSet(rest) /\ (WindowsOf(s) \ {a}) \cup {a} = WindowsOf(s)
      BY <1>3, <2>2
    <3>2. /\ InsertAt(rest, i, a) \in Seq(Ids) /\ IsInjective(InsertAt(rest, i, a))
          /\ ToSet(InsertAt(rest, i, a)) = ToSet(rest) \cup {a}
      BY <2>2, <2>3, <3>1, InsertAtPlace
    <3> QED BY <2>2, <2>4, <3>1, <3>2
  <2>6. UpdateSession(s, [r EXCEPT !.windows = ws])
    BY <1>1, <1>2, <1>11, <2>1, <2>4 DEF MoveActiveWindowTo
  <2> QED BY <1>5, <2>5, <2>6
<1> QED BY <1>6, <1>8, <1>9, <1>10, <1>11

\* Clients come, switch and go.
LEMMA ClientsStructure ==
  ASSUME Structure,
         \/ \E s \in DOMAIN sessions :
              \/ AttachClient(s)
              \/ \E c \in DOMAIN clients : SetClientSession(c, s)
         \/ \E c \in DOMAIN clients : DetachClient(c)
  PROVE  Structure'
<1>1. /\ next \in [session : Ids, window : Ids, pane : Ids, client : Ids]
      /\ \A s \in DOMAIN sessions : s \in Ids
      /\ GoodClients(clients, sessions, next.client)
  BY DEF Structure, GoodSessions
<1>2. ASSUME NEW s \in DOMAIN sessions, AttachClient(s) PROVE Structure'
  <2>1. /\ GoodClients(clients', sessions, next.client + 1)
        /\ next.client + 1 \in Ids
    BY <1>1, <1>2 DEF GoodClients, AttachClient, Put, Ids, None
  <2>2. next' = [session |-> next.session, window |-> next.window,
                 pane |-> next.pane, client |-> next.client + 1]
    BY <1>1, <1>2 DEF AttachClient
  <2> QED BY <1>1, <1>2, <2>1, <2>2 DEF Structure, AttachClient
<1>3. ASSUME NEW s \in DOMAIN sessions, NEW c \in DOMAIN clients, SetClientSession(c, s)
      PROVE  Structure'
  BY <1>1, <1>3 DEF Structure, GoodClients, SetClientSession
<1>4. ASSUME NEW c \in DOMAIN clients, DetachClient(c) PROVE Structure'
  BY <1>1, <1>4 DEF Structure, GoodClients, DetachClient, Without, Restrict
<1> QED BY <1>2, <1>3, <1>4

\* Every step preserves Structure.
LEMMA StructureStep ==
  ASSUME Structure, [Next]_vars
  PROVE  Structure'
<1>1. CASE UNCHANGED vars
  BY <1>1 DEF vars, Structure
<1>2. CASE NewSession
  BY <1>2, NewSessionStructure
<1>3. CASE \E c \in DOMAIN clients : DetachClient(c)
  BY <1>3, ClientsStructure
<1>4. ASSUME NEW s \in DOMAIN sessions,
             \/ NewWindow(s) \/ SplitActive(s)
             \/ KillSession(s) \/ KillWindow(s) \/ BreakActivePane(s)
      PROVE  Structure'
  <2>1. CASE NewWindow(s)
    BY <2>1, NewWindowStructure
  <2>2. CASE SplitActive(s)
    BY <2>2, SplitActiveStructure
  <2>3. CASE KillSession(s)
    BY <2>3, DropSessionStructure DEF KillSession
  <2>4. CASE KillWindow(s)
    BY <2>4, OfSession, DropSessionStructure, CloseWindowStructure DEF KillWindow
  <2>5. CASE BreakActivePane(s)
    BY <2>5, BreakActivePaneStructure
  <2> QED BY <1>4, <2>1, <2>2, <2>3, <2>4, <2>5
<1>5. ASSUME NEW s \in DOMAIN sessions, NEW p \in PanesOf(s),
             KillPane(s, p) \/ JoinSpecificPane(s, p) \/ SwapPanes(s, p)
      PROVE  Structure'
  <2>1. CASE KillPane(s, p)
    BY <2>1, KillPaneStructure
  <2>2. CASE JoinSpecificPane(s, p)
    BY <2>2, OfSession, MovePaneToActiveStructure DEF JoinSpecificPane
  <2>3. CASE SwapPanes(s, p)
    BY <2>3, SwapPanesStructure
  <2> QED BY <1>5, <2>1, <2>2, <2>3
<1>6. ASSUME NEW s \in DOMAIN sessions, NEW w \in WindowsOf(s), JoinPane(s, w)
      PROVE  Structure'
  BY <1>6, OfSession, MovePaneToActiveStructure DEF JoinPane
<1> QED
  BY <1>1, <1>2, <1>3, <1>4, <1>5, <1>6, ActiveWindowMethodsStructure,
     SessionMethodsStructure, ClientsStructure DEF Next

-----------------------------------------------------------------------------
(* The theorems                                                            *)

\* The object model's structure holds in every reachable state, for any
\* number of sessions, windows, panes and clients.
THEOREM StructureInvariant == Spec => []Structure
<1>1. Init => Structure
  BY DEF Init, Structure, GoodWindows, GoodSessions, GoodClients, Ids, None
<1> QED BY <1>1, StructureStep, PTL DEF Spec

\* Structure contains the invariants the runs check.
LEMMA StructureImplies ==
  Structure => /\ TypeOK /\ WindowsConsistent /\ OneWindowPerPane
               /\ SessionsConsistent /\ FreshIds /\ NothingDangles
<1> SUFFICES ASSUME Structure
             PROVE  /\ TypeOK /\ WindowsConsistent /\ OneWindowPerPane
                    /\ SessionsConsistent /\ FreshIds /\ NothingDangles
  OBVIOUS
<1> USE DEF Structure
<1>1. TypeOK
  BY DEF TypeOK, GoodWindows, GoodWindow, GoodSessions, GoodSession, GoodClients
<1>2. WindowsConsistent /\ OneWindowPerPane
  BY DEF WindowsConsistent, OneWindowPerPane, GoodWindows, GoodWindow
<1>3. SessionsConsistent
  BY DEF SessionsConsistent, GoodSessions, GoodSession, WindowsOf, ActiveWindow
<1>4. NothingDangles
  <2>1. \A c \in DOMAIN clients : clients[c] \in DOMAIN sessions
    BY DEF GoodClients
  <2>2. \A s \in DOMAIN sessions :
           sessions[s].last_window \in WindowsOf(s) \cup {None}
    BY DEF GoodSessions, GoodSession, WindowsOf
  <2>3. \A w \in DOMAIN windows :
           windows[w].zoomed # None => Len(windows[w].layout) > 1
    BY DEF GoodWindows, GoodWindow
  <2> QED BY <2>1, <2>2, <2>3 DEF NothingDangles
<1>5. FreshIds
  BY DEF FreshIds, AllPanes, GoodWindows, GoodSessions, GoodClients
<1> QED BY <1>1, <1>2, <1>3, <1>4, <1>5

\* Every field keeps its type.
THEOREM TypeCorrect == Spec => []TypeOK
BY StructureInvariant, StructureImplies, PTL

\* A window's pane map, its leaves and its focus agree forever.
THEOREM WindowsStayConsistent == Spec => []WindowsConsistent
BY StructureInvariant, StructureImplies, PTL

\* No pane is ever in two windows, whatever is broken out, joined or swapped.
THEOREM PanesStayInOneWindow == Spec => []OneWindowPerPane
BY StructureInvariant, StructureImplies, PTL

\* Sessions own every window between them, each one its own and never none.
THEOREM SessionsStayConsistent == Spec => []SessionsConsistent
BY StructureInvariant, StructureImplies, PTL

\* An id that is in use is never allocated again.
THEOREM IdsStayFresh == Spec => []FreshIds
BY StructureInvariant, StructureImplies, PTL

\* Viewers, the windows to jump back to and zooms never name what is gone.
THEOREM NothingEverDangles == Spec => []NothingDangles
BY StructureInvariant, StructureImplies, PTL

-----------------------------------------------------------------------------
(* Where the panes of the object model are: what each action does to the   *)
(* panes of each session, and what follows from that.  An action keeps     *)
(* them all, or opens one in one session, or closes some of one session.   *)

\* Every session keeps its panes.
PanesKept ==
  /\ DOMAIN sessions' = DOMAIN sessions
  /\ \A t \in DOMAIN sessions : PanesOf(t)' = PanesOf(t)
  /\ next'.pane = next.pane

\* Session s, which may be new, gains the pane that is allocated next.
PaneOpened(s) ==
  /\ DOMAIN sessions' = DOMAIN sessions \cup {s}
  /\ PanesOf(s)' = (IF s \in DOMAIN sessions THEN PanesOf(s) ELSE {}) \cup {next.pane}
  /\ \A t \in DOMAIN sessions \ {s} : PanesOf(t)' = PanesOf(t)
  /\ next'.pane = next.pane + 1

\* Session s loses the panes in P, or closes with them.
PanesClosed(s, P) ==
  /\ s \in DOMAIN sessions /\ P # {} /\ P \subseteq PanesOf(s)
  /\ \/ DOMAIN sessions' = DOMAIN sessions /\ PanesOf(s)' = PanesOf(s) \ P
     \/ DOMAIN sessions' = DOMAIN sessions \ {s} /\ P = PanesOf(s)
  /\ \A t \in DOMAIN sessions \ {s} : PanesOf(t)' = PanesOf(t)
  /\ next'.pane = next.pane

\* A window x that becomes y keeps its focus unless the focused pane leaves.
FocusKept(x, y) ==
  LET gone == x.panes \ y.panes
  IN  gone # {} /\ x.active_pane \notin gone => y.active_pane = x.active_pane

AllFocusKept ==
  \A w \in DOMAIN windows \cap DOMAIN windows' : FocusKept(windows[w], windows'[w])

-----------------------------------------------------------------------------
(* Updates                                                                 *)

\* A session whose windows keep their panes keeps its own.
LEMMA SamePanes ==
  ASSUME NEW t, WindowsOf(t)' = WindowsOf(t),
         \A w \in WindowsOf(t) : windows'[w].panes = windows[w].panes
  PROVE  PanesOf(t)' = PanesOf(t)
BY DEF PanesOf

\* What happens to the windows of one session leaves the others alone.
LEMMA OtherSessions ==
  ASSUME Structure, NEW s,
         \A t \in DOMAIN sessions \ {s} : sessions'[t] = sessions[t],
         \A w \in DOMAIN windows :
           (s \in DOMAIN sessions => w \notin WindowsOf(s)) => windows'[w] = windows[w]
  PROVE  \A t \in DOMAIN sessions \ {s} : PanesOf(t)' = PanesOf(t)
<1> SUFFICES ASSUME NEW t \in DOMAIN sessions \ {s}
             PROVE  PanesOf(t)' = PanesOf(t)
  OBVIOUS
<1>1. WindowsOf(t)' = WindowsOf(t)
  BY DEF WindowsOf
<1>2. WindowsOf(t) \subseteq DOMAIN windows
  BY OfSession
<1>3. s \in DOMAIN sessions => WindowsOf(t) \cap WindowsOf(s) = {}
  BY DEF Structure, GoodSessions, WindowsOf
<1>4. \A w \in WindowsOf(t) : windows'[w] = windows[w]
  BY <1>2, <1>3
<1> QED BY <1>1, <1>4, SamePanes

\* One window of session s becomes x.
LEMMA OneWindow ==
  ASSUME Structure, NEW s \in DOMAIN sessions, NEW w \in WindowsOf(s), NEW x,
         windows' = [windows EXCEPT ![w] = x], UNCHANGED sessions
  PROVE  /\ \A t \in DOMAIN sessions \ {s} : PanesOf(t)' = PanesOf(t)
         /\ PanesOf(s)' = (PanesOf(s) \ windows[w].panes) \cup x.panes
         /\ FocusKept(windows[w], x) => AllFocusKept
<1>1. w \in DOMAIN windows /\ WindowsOf(s) \subseteq DOMAIN windows
  BY OfSession
<1>2. /\ DOMAIN windows' = DOMAIN windows /\ windows'[w] = x
      /\ \A v \in DOMAIN windows : v # w => windows'[v] = windows[v]
  BY <1>1
<1>3. \A t \in DOMAIN sessions \ {s} : PanesOf(t)' = PanesOf(t)
  BY <1>2, OtherSessions
<1>4. WindowsOf(s)' = WindowsOf(s)
  BY DEF WindowsOf
<1>5. \A v \in WindowsOf(s) : v # w => windows[v].panes \cap windows[w].panes = {}
  BY <1>1 DEF Structure, GoodWindows
<1>6. ASSUME NEW p
      PROVE  p \in PanesOf(s)' <=> p \in (PanesOf(s) \ windows[w].panes) \cup x.panes
  <2>1. p \in PanesOf(s)' <=> \E v \in WindowsOf(s) : p \in windows'[v].panes
    BY <1>4 DEF PanesOf
  <2>2. p \in PanesOf(s) <=> \E v \in WindowsOf(s) : p \in windows[v].panes
    BY DEF PanesOf
  <2> QED BY <1>1, <1>2, <1>5, <2>1, <2>2
<1>7. FocusKept(windows[w], x) => AllFocusKept
  BY <1>2 DEF AllFocusKept, FocusKept
<1> QED BY <1>3, <1>6, <1>7

\* A window that keeps its panes keeps its focus in the sense above.
LEMMA NoPaneLeaves ==
  ASSUME NEW x, NEW y, x.panes \subseteq y.panes
  PROVE  FocusKept(x, y)
BY DEF FocusKept

\* Taking a pane out of a window, or trading it for another one, moves the
\* focus only from that pane.
LEMMA CollapseKeepsFocus ==
  ASSUME NEW w, NEW p \in w.panes
  PROVE  FocusKept(w, CollapsePane(w, p))
BY DEF FocusKept, CollapsePane

LEMMA GraftKeepsFocus ==
  ASSUME NEW w, GoodWindow(w), NEW a \in w.panes, NEW b \in Ids, b \notin w.panes
  PROVE  FocusKept(w, GraftPane(w, a, b))
BY GraftGood DEF FocusKept, GraftPane, GoodWindow, WindowRecord

-----------------------------------------------------------------------------
(* Actions that keep every pane where it is                                *)

\* A method of the active window that keeps its panes.
LEMMA UpdateActivePanes ==
  ASSUME Structure, NEW s \in DOMAIN sessions, NEW x,
         x.panes = Active(s).panes, UpdateActive(s, x)
  PROVE  PanesKept /\ AllFocusKept
<1>1. PICK w \in WindowsOf(s) : w = ActiveWindow(s)
  BY OfSession
<1>2. windows[w].panes \subseteq PanesOf(s)
  BY DEF PanesOf
<1>3. FocusKept(windows[w], x)
  BY <1>1, NoPaneLeaves DEF Active
<1>4. windows' = [windows EXCEPT ![w] = x] /\ UNCHANGED <<sessions, next>>
  BY <1>1 DEF UpdateActive
<1>5. /\ \A t \in DOMAIN sessions \ {s} : PanesOf(t)' = PanesOf(t)
      /\ PanesOf(s)' = (PanesOf(s) \ windows[w].panes) \cup x.panes
      /\ AllFocusKept
  BY <1>3, <1>4, OneWindow
<1>6. PanesOf(s)' = PanesOf(s)
  BY <1>1, <1>2, <1>5 DEF Active
<1> QED BY <1>4, <1>5, <1>6 DEF PanesKept

\* A method of the session that keeps its windows.
LEMMA UpdateSessionPanes ==
  ASSUME Structure, NEW s \in DOMAIN sessions, NEW r,
         ToSet(r.windows) = WindowsOf(s), UpdateSession(s, r)
  PROVE  PanesKept /\ AllFocusKept
<1>1. sessions' = [sessions EXCEPT ![s] = r] /\ UNCHANGED <<windows, next>>
  BY DEF UpdateSession
<1>2. \A t \in DOMAIN sessions : WindowsOf(t)' = WindowsOf(t)
  BY <1>1 DEF WindowsOf
<1>3. \A t \in DOMAIN sessions : PanesOf(t)' = PanesOf(t)
  BY <1>1, <1>2, SamePanes
<1> QED BY <1>1, <1>3, NoPaneLeaves DEF PanesKept, AllFocusKept

\* Neither windows nor sessions change.
LEMMA UnchangedPanes ==
  ASSUME UNCHANGED <<sessions, windows>>, next'.pane = next.pane
  PROVE  PanesKept /\ AllFocusKept
BY SamePanes, NoPaneLeaves DEF PanesKept, AllFocusKept, WindowsOf

\* Focus, zoom, layout, rotation and sibling swaps.
LEMMA ActiveWindowMethodsPanes ==
  ASSUME Structure, NEW s \in DOMAIN sessions,
         \/ ApplyLayout(s) \/ ToggleZoom(s) \/ FocusNextPane(s) \/ FocusLastPane(s)
         \/ \E d \in BOOLEAN : RotatePanes(s, d) \/ SwapActivePane(s, d)
         \/ \E p \in PanesOf(s) : FocusPane(s, p)
  PROVE  PanesKept /\ AllFocusKept
<1>1. PICK w : w = Active(s)
  OBVIOUS
<1>2. /\ GoodWindow(w) /\ w.active_pane \in w.panes
      /\ w.layout \in Seq(Ids) /\ ToSet(w.layout) = w.panes
  BY <1>1, OfSession DEF Active
<1>3. CASE ApplyLayout(s)
  BY <1>1, <1>2, <1>3, RearrangeGood, UpdateActivePanes DEF ApplyLayout
<1>4. CASE ToggleZoom(s)
  BY <1>1, <1>2, <1>4, RearrangeGood, UpdateActivePanes DEF ToggleZoom
<1>5. CASE FocusNextPane(s)
  <2>1. CyclicNext(w.layout, w.active_pane) \in w.panes
    BY <1>2, CyclicNeighbours
  <2> QED BY <1>1, <1>2, <1>5, <2>1, SetActivePaneGood, UpdateActivePanes
          DEF FocusNextPane
<1>6. CASE FocusLastPane(s)
  BY <1>1, <1>2, <1>6, RearrangeGood, UpdateActivePanes DEF FocusLastPane
<1>7. ASSUME NEW d \in BOOLEAN, RotatePanes(s, d) PROVE PanesKept /\ AllFocusKept
  BY <1>1, <1>2, <1>7, RearrangeGood, UpdateActivePanes DEF RotatePanes
<1>8. ASSUME NEW d \in BOOLEAN, SwapActivePane(s, d) PROVE PanesKept /\ AllFocusKept
  <2>1. PICK q : q = IF d THEN CyclicNext(w.layout, w.active_pane)
                     ELSE CyclicPrev(w.layout, w.active_pane)
    OBVIOUS
  <2>2. q \in w.panes
    BY <1>2, <2>1, CyclicNeighbours
  <2>3. UpdateActive(s, SwapWithActive(w, q))
    BY <1>1, <1>8, <2>1 DEF SwapActivePane, UpdateActive, Active
  <2> QED BY <1>1, <1>2, <2>2, <2>3, RearrangeGood, UpdateActivePanes
<1>9. ASSUME NEW p \in PanesOf(s), FocusPane(s, p) PROVE PanesKept /\ AllFocusKept
  BY <1>1, <1>2, <1>9, SetActivePaneGood, UpdateActivePanes DEF FocusPane
<1> QED BY <1>3, <1>4, <1>5, <1>6, <1>7, <1>8, <1>9

\* Focusing and reordering windows.
LEMMA SessionMethodsPanes ==
  ASSUME Structure, NEW s \in DOMAIN sessions,
         \/ FocusNextWindow(s) \/ FocusPrevWindow(s) \/ FocusLastWindow(s)
         \/ \E d \in BOOLEAN : MoveActiveWindow(s, d)
         \/ \E w \in WindowsOf(s) :
              \/ FocusWindow(s, w)
              \/ \E x \in WindowsOf(s) : SwapWindows(s, w, x)
         \/ \E i \in DOMAIN sessions[s].windows : MoveActiveWindowTo(s, i)
  PROVE  PanesKept /\ AllFocusKept
<1>1. UNCHANGED <<windows, next>> /\ \E r : UpdateSession(s, r)
  BY DEF UpdateSession, FocusNextWindow, FocusPrevWindow, FocusLastWindow,
         MoveActiveWindow, SwapWindows, FocusWindow, MoveActiveWindowTo
<1>2. Structure'
  BY SessionMethodsStructure
<1>3. sessions' = [sessions EXCEPT ![s] = sessions'[s]] /\ DOMAIN sessions' = DOMAIN sessions
  BY <1>1 DEF UpdateSession
<1>4. \A t \in DOMAIN sessions \ {s} : sessions'[t] = sessions[t]
  BY <1>3
<1>5. WindowsOf(s)' = WindowsOf(s)
  <2>1. \A t \in DOMAIN sessions \ {s} : ToSet(sessions'[t].windows) = ToSet(sessions[t].windows)
    BY <1>4
  <2>2. /\ DOMAIN windows = UNION {ToSet(sessions[t].windows) : t \in DOMAIN sessions}
        /\ \A t \in DOMAIN sessions \ {s} :
             ToSet(sessions[t].windows) \cap ToSet(sessions[s].windows) = {}
    BY DEF Structure, GoodSessions
  <2>3. /\ DOMAIN windows = UNION {ToSet(sessions'[t].windows) : t \in DOMAIN sessions}
        /\ \A t \in DOMAIN sessions \ {s} :
             ToSet(sessions'[t].windows) \cap ToSet(sessions'[s].windows) = {}
    BY <1>1, <1>2, <1>3 DEF Structure, GoodSessions
  <2>4. ASSUME NEW w
        PROVE  w \in ToSet(sessions'[s].windows) <=> w \in ToSet(sessions[s].windows)
    BY <2>1, <2>2, <2>3
  <2> QED BY <2>4 DEF WindowsOf
<1>6. UpdateSession(s, sessions'[s])
  BY <1>1, <1>3 DEF UpdateSession
<1> QED BY <1>5, <1>6, UpdateSessionPanes DEF WindowsOf

\* Clients come, switch and go.
LEMMA ClientsPanes ==
  ASSUME Structure,
         \/ \E s \in DOMAIN sessions :
              \/ AttachClient(s)
              \/ \E c \in DOMAIN clients : SetClientSession(c, s)
         \/ \E c \in DOMAIN clients : DetachClient(c)
  PROVE  PanesKept /\ AllFocusKept
<1>1. next \in [session : Ids, window : Ids, pane : Ids, client : Ids]
  BY DEF Structure
<1>2. UNCHANGED <<sessions, windows>> /\ next'.pane = next.pane
  BY <1>1 DEF AttachClient, SetClientSession, DetachClient
<1> QED BY <1>2, UnchangedPanes

-----------------------------------------------------------------------------
(* Actions that open or close panes                                        *)

\* split_active: one pane more in the active window.
LEMMA SplitActivePanes ==
  ASSUME Structure, NEW s \in DOMAIN sessions, SplitActive(s)
  PROVE  PaneOpened(s) /\ AllFocusKept
<1>1. PICK w \in WindowsOf(s) : w = ActiveWindow(s)
  BY OfSession
<1>2. PICK p \in Ids : p = next.pane
  BY NextPaneIsNew
<1>3. PICK x : x = SplitActiveLeaf(windows[w], p)
  OBVIOUS
<1>4. x.panes = windows[w].panes \cup {p}
  <2>1. p \notin windows[w].panes /\ GoodWindow(windows[w])
    BY <1>2, NextPaneIsNew, OfSession
  <2> QED BY <1>2, <1>3, <2>1, SplitGood
<1>5. windows' = [windows EXCEPT ![w] = x] /\ UNCHANGED sessions
  BY <1>1, <1>2, <1>3 DEF SplitActive
<1>6. FocusKept(windows[w], x)
  BY <1>4, NoPaneLeaves
<1>7. /\ \A t \in DOMAIN sessions \ {s} : PanesOf(t)' = PanesOf(t)
      /\ PanesOf(s)' = (PanesOf(s) \ windows[w].panes) \cup x.panes
      /\ AllFocusKept
  BY <1>5, <1>6, OneWindow
<1>8. windows[w].panes \subseteq PanesOf(s)
  BY DEF PanesOf
<1>9. next'.pane = next.pane + 1
  BY DEF SplitActive, Structure
<1> QED BY <1>2, <1>4, <1>5, <1>7, <1>8, <1>9 DEF PaneOpened

\* The panes of the windows in D of a window map V.
PanesIn(V, D) == UNION {V[w].panes : w \in D}

\* A window opens in session s over the window map V.
LEMMA OpenWindowPanes ==
  ASSUME Structure, NEW s \in DOMAIN sessions, NEW p, NEW V,
         DOMAIN V = DOMAIN windows,
         \A w \in DOMAIN windows : w \notin WindowsOf(s) => V[w] = windows[w],
         windows' = Put(V, next.window, NewWindowWith(p)),
         sessions' = [sessions EXCEPT ![s] = AddWindow(@, next.window)]
  PROVE  /\ \A t \in DOMAIN sessions \ {s} : PanesOf(t)' = PanesOf(t)
         /\ PanesOf(s)' = PanesIn(V, WindowsOf(s)) \cup {p}
<1>1. PICK n \in Ids : n = next.window /\ n \notin DOMAIN windows
  BY DEF Structure, GoodWindows, Ids
<1>2. /\ DOMAIN windows' = DOMAIN windows \cup {n}
      /\ windows'[n] = NewWindowWith(p)
      /\ \A w \in DOMAIN windows : windows'[w] = V[w]
  BY <1>1 DEF Put
<1>3. GoodSession(sessions[s]) /\ WindowsOf(s) \subseteq DOMAIN windows
  BY OfSession
<1>4. WindowsOf(s)' = WindowsOf(s) \cup {n}
  <2>1. ToSet(AddWindow(sessions[s], n).windows) = ToSet(sessions[s].windows) \cup {n}
    BY <1>1, <1>3, AddWindowGood DEF WindowsOf
  <2> QED BY <1>1, <2>1 DEF WindowsOf
<1>5. \A t \in DOMAIN sessions \ {s} : PanesOf(t)' = PanesOf(t)
  BY <1>2, OtherSessions
<1>6. NewWindowWith(p).panes = {p}
  BY DEF NewWindowWith
<1>7. PanesOf(s)' = UNION {windows'[w].panes : w \in WindowsOf(s) \cup {n}}
  BY <1>4 DEF PanesOf
<1>8. ASSUME NEW q
      PROVE  q \in PanesOf(s)' <=> q \in PanesIn(V, WindowsOf(s)) \cup {p}
  <2>1. q \in PanesOf(s)' <=> \E w \in WindowsOf(s) \cup {n} : q \in windows'[w].panes
    BY <1>7
  <2>2. q \in PanesIn(V, WindowsOf(s))
          <=> \E w \in WindowsOf(s) : q \in V[w].panes
    BY DEF PanesIn
  <2> QED BY <1>2, <1>3, <1>6, <2>1, <2>2
<1> QED BY <1>5, <1>8

\* new_window: a window with a new pane.
LEMMA NewWindowPanes ==
  ASSUME Structure, NEW s \in DOMAIN sessions, NewWindow(s)
  PROVE  PaneOpened(s) /\ AllFocusKept
<1>1. PICK V, p : V = windows /\ p = next.pane
  OBVIOUS
<1>0. /\ DOMAIN V = DOMAIN windows
      /\ \A w \in DOMAIN windows : w \notin WindowsOf(s) => V[w] = windows[w]
  BY <1>1
<1>2. /\ windows' = Put(V, next.window, NewWindowWith(p))
      /\ sessions' = [sessions EXCEPT ![s] = AddWindow(@, next.window)]
      /\ next'.pane = next.pane + 1
  BY <1>1 DEF NewWindow, Structure
<1>3. /\ \A t \in DOMAIN sessions \ {s} : PanesOf(t)' = PanesOf(t)
      /\ PanesOf(s)' = PanesIn(V, WindowsOf(s)) \cup {p}
  BY <1>0, <1>2, OpenWindowPanes
<1>4. PanesOf(s)' = PanesOf(s) \cup {p}
  BY <1>1, <1>3 DEF PanesOf, PanesIn
<1>5. AllFocusKept
  <2>1. \A w \in DOMAIN windows : windows'[w] = windows[w]
    BY <1>1, <1>2 DEF Put, Structure, GoodWindows, Ids
  <2> QED BY <2>1, NoPaneLeaves DEF AllFocusKept
<1> QED BY <1>1, <1>2, <1>3, <1>4, <1>5 DEF PaneOpened

\* new_session: a session with one pane.
LEMMA NewSessionPanes ==
  ASSUME Structure, NewSession
  PROVE  /\ \E s \in {next.session} : PaneOpened(s) /\ s \notin DOMAIN sessions
         /\ AllFocusKept
<1>1. PICK n \in Ids : n = next.window /\ n \notin DOMAIN windows
  BY DEF Structure, GoodWindows, Ids
<1>2. PICK s \in Ids : s = next.session /\ s \notin DOMAIN sessions
  BY DEF Structure, GoodSessions, Ids
<1>3. /\ DOMAIN windows' = DOMAIN windows \cup {n}
      /\ windows'[n] = NewWindowWith(next.pane)
      /\ \A w \in DOMAIN windows : windows'[w] = windows[w]
  BY <1>1 DEF NewSession, Put
<1>4. /\ DOMAIN sessions' = DOMAIN sessions \cup {s}
      /\ sessions'[s] = NewSessionWith(n)
      /\ \A t \in DOMAIN sessions : sessions'[t] = sessions[t]
  BY <1>1, <1>2 DEF NewSession, Put
<1>5. WindowsOf(s)' = {n}
  BY <1>1, <1>4, NewSessionGood DEF WindowsOf
<1>6. PanesOf(s)' = {next.pane}
  BY <1>3, <1>5 DEF PanesOf, NewWindowWith
<1>7. \A t \in DOMAIN sessions \ {s} : PanesOf(t)' = PanesOf(t)
  BY <1>2, <1>3, <1>4, OtherSessions
<1>8. AllFocusKept
  BY <1>1, <1>3, NoPaneLeaves DEF AllFocusKept
<1>9. next'.pane = next.pane + 1
  <2>1. next \in [session : Ids, window : Ids, pane : Ids, client : Ids]
    BY DEF Structure
  <2>2. next' = [session |-> next.session + 1, window |-> next.window + 1,
                 pane |-> next.pane + 1, client |-> next.client]
    BY <2>1 DEF NewSession
  <2> QED BY <2>2
<1>10. PaneOpened(s)
  BY <1>2, <1>4, <1>6, <1>7, <1>9 DEF PaneOpened
<1> QED BY <1>2, <1>8, <1>10

\* A session closes.
LEMMA DropSessionPanes ==
  ASSUME Structure, NEW s \in DOMAIN sessions, DropSession(s), UNCHANGED next
  PROVE  PanesClosed(s, PanesOf(s)) /\ AllFocusKept
<1>1. /\ DOMAIN sessions' = DOMAIN sessions \ {s}
      /\ \A t \in DOMAIN sessions \ {s} : sessions'[t] = sessions[t]
  BY DEF DropSession, Without, Restrict
<1>2. /\ DOMAIN windows' = DOMAIN windows \ WindowsOf(s)
      /\ \A w \in DOMAIN windows \ WindowsOf(s) : windows'[w] = windows[w]
  BY DEF DropSession, Without, Restrict
<1>3. \A t \in DOMAIN sessions \ {s} : PanesOf(t)' = PanesOf(t)
  BY <1>1, <1>2, OtherSessions
<1>4. PanesOf(s) # {}
  <2>1. PICK w \in WindowsOf(s) : windows[w].active_pane \in windows[w].panes
    BY OfSession
  <2> QED BY <2>1 DEF PanesOf
<1>5. AllFocusKept
  BY <1>2, NoPaneLeaves DEF AllFocusKept
<1> QED BY <1>1, <1>3, <1>4, <1>5 DEF PanesClosed

\* One of several windows of a session closes over the window map V.
LEMMA RemoveWindowPanes ==
  ASSUME Structure, NEW s \in DOMAIN sessions, NEW w \in WindowsOf(s),
         WindowsOf(s) # {w}, NEW V,
         DOMAIN V = DOMAIN windows,
         \A v \in DOMAIN windows : v \notin WindowsOf(s) => V[v] = windows[v],
         sessions' = [sessions EXCEPT ![s] = RemoveWindow(@, w)],
         windows' = Without(V, {w})
  PROVE  /\ \A t \in DOMAIN sessions \ {s} : PanesOf(t)' = PanesOf(t)
         /\ PanesOf(s)' = PanesIn(V, WindowsOf(s) \ {w})
         /\ DOMAIN sessions' = DOMAIN sessions
<1>1. /\ DOMAIN windows' = DOMAIN windows \ {w}
      /\ \A v \in DOMAIN windows \ {w} : windows'[v] = V[v]
  BY DEF Without, Restrict
<1>2. GoodSession(sessions[s]) /\ WindowsOf(s) \subseteq DOMAIN windows
  BY OfSession
<1>3. WindowsOf(s)' = WindowsOf(s) \ {w}
  <2>1. ToSet(RemoveWindow(sessions[s], w).windows) = ToSet(sessions[s].windows) \ {w}
    BY <1>2, RemoveWindowGood DEF WindowsOf
  <2> QED BY <2>1 DEF WindowsOf
<1>4. \A t \in DOMAIN sessions \ {s} : PanesOf(t)' = PanesOf(t)
  BY <1>1, OtherSessions
<1>5. PanesOf(s)' = UNION {windows'[v].panes : v \in WindowsOf(s) \ {w}}
  BY <1>3 DEF PanesOf
<1>6. \A v \in WindowsOf(s) \ {w} : windows'[v].panes = V[v].panes
  BY <1>1, <1>2
<1>7. PanesOf(s)' = PanesIn(V, WindowsOf(s) \ {w})
  BY <1>5, <1>6 DEF PanesIn
<1> QED BY <1>4, <1>7

\* Closing one of several windows.
LEMMA CloseWindowPanes ==
  ASSUME Structure, NEW s \in DOMAIN sessions, NEW w \in WindowsOf(s),
         WindowsOf(s) # {w},
         sessions' = [sessions EXCEPT ![s] = RemoveWindow(@, w)],
         windows' = Without(windows, {w}), UNCHANGED next
  PROVE  PanesClosed(s, windows[w].panes) /\ AllFocusKept
<1>1. PICK V : V = windows
  OBVIOUS
<1>2. /\ DOMAIN V = DOMAIN windows
      /\ \A v \in DOMAIN windows : v \notin WindowsOf(s) => V[v] = windows[v]
      /\ windows' = Without(V, {w})
  BY <1>1
<1>3. /\ \A t \in DOMAIN sessions \ {s} : PanesOf(t)' = PanesOf(t)
      /\ PanesOf(s)' = PanesIn(V, WindowsOf(s) \ {w})
      /\ DOMAIN sessions' = DOMAIN sessions
  BY <1>2, RemoveWindowPanes
<1>4. WindowsOf(s) \subseteq DOMAIN windows /\ windows[w].panes # {}
  BY OfSession
<1>5. \A v \in WindowsOf(s) : v # w => windows[v].panes \cap windows[w].panes = {}
  BY <1>4 DEF Structure, GoodWindows
<1>6. ASSUME NEW p
      PROVE  p \in PanesOf(s)' <=> p \in PanesOf(s) \ windows[w].panes
  <2>1. p \in PanesOf(s)' <=> \E v \in WindowsOf(s) \ {w} : p \in windows[v].panes
    BY <1>1, <1>3 DEF PanesIn
  <2>2. p \in PanesOf(s) <=> \E v \in WindowsOf(s) : p \in windows[v].panes
    BY DEF PanesOf
  <2> QED BY <1>5, <2>1, <2>2
<1>7. windows[w].panes \subseteq PanesOf(s)
  BY DEF PanesOf
<1>8. AllFocusKept
  <2>1. \A v \in DOMAIN windows' : windows'[v] = windows[v]
    BY DEF Without, Restrict
  <2> QED BY <2>1, NoPaneLeaves DEF AllFocusKept
<1> QED BY <1>3, <1>4, <1>6, <1>7, <1>8 DEF PanesClosed

\* kill_pane: the pane goes, with what it was the last of.
LEMMA KillPanePanes ==
  ASSUME Structure, NEW s \in DOMAIN sessions, NEW p \in PanesOf(s), KillPane(s, p)
  PROVE  PanesClosed(s, {p}) /\ AllFocusKept
<1> DEFINE w == WindowOfPane(s, p)
<1>1. /\ w \in WindowsOf(s) /\ p \in windows[w].panes /\ GoodWindow(windows[w])
      /\ ToSet(windows[w].layout) = windows[w].panes
  BY OfSession
<1> HIDE DEF w
<1>2. windows[w].layout = <<p>> => windows[w].panes = {p}
  BY <1>1 DEF ToSet
<1>3. CASE /\ windows[w].layout # <<p>>
           /\ windows' = [windows EXCEPT ![w] = CollapsePane(@, p)]
           /\ UNCHANGED <<sessions, clients, next>>
  <2>1. PICK x : x = CollapsePane(windows[w], p)
    OBVIOUS
  <2>2. x.panes = windows[w].panes \ {p} /\ FocusKept(windows[w], x)
    BY <1>1, <1>3, <2>1, CollapseGood, CollapseKeepsFocus
  <2>3. windows' = [windows EXCEPT ![w] = x]
    BY <1>3, <2>1
  <2>4. /\ \A t \in DOMAIN sessions \ {s} : PanesOf(t)' = PanesOf(t)
        /\ PanesOf(s)' = (PanesOf(s) \ windows[w].panes) \cup x.panes
        /\ AllFocusKept
    BY <1>1, <1>3, <2>2, <2>3, OneWindow
  <2>5. windows[w].panes \subseteq PanesOf(s)
    BY <1>1 DEF PanesOf
  <2>6. PanesOf(s)' = PanesOf(s) \ {p}
    BY <1>1, <2>2, <2>4, <2>5
  <2> QED BY <1>3, <2>4, <2>6 DEF PanesClosed
<1>4. CASE /\ windows[w].layout = <<p>> /\ WindowsOf(s) # {w}
           /\ sessions' = [sessions EXCEPT ![s] = RemoveWindow(@, w)]
           /\ windows' = Without(windows, {w})
           /\ UNCHANGED <<clients, next>>
  BY <1>1, <1>2, <1>4, CloseWindowPanes
<1>5. CASE /\ windows[w].layout = <<p>> /\ WindowsOf(s) = {w}
           /\ DropSession(s) /\ UNCHANGED next
  <2>1. PanesOf(s) = {p}
    BY <1>2, <1>5 DEF PanesOf
  <2> QED BY <1>5, <2>1, DropSessionPanes
<1> QED BY <1>3, <1>4, <1>5 DEF KillPane, w

\* kill_window of the active window.
LEMMA KillWindowPanes ==
  ASSUME Structure, NEW s \in DOMAIN sessions, KillWindow(s)
  PROVE  PanesClosed(s, Active(s).panes) /\ AllFocusKept
<1>1. PICK w \in WindowsOf(s) : w = ActiveWindow(s)
  BY OfSession
<1>2. CASE WindowsOf(s) = {w} /\ DropSession(s) /\ UNCHANGED next
  <2>1. PanesOf(s) = Active(s).panes
    BY <1>1, <1>2 DEF PanesOf, Active
  <2> QED BY <1>2, <2>1, DropSessionPanes
<1>3. CASE /\ WindowsOf(s) # {w}
           /\ sessions' = [sessions EXCEPT ![s] = RemoveWindow(@, w)]
           /\ windows' = Without(windows, {w})
           /\ UNCHANGED next
  BY <1>1, <1>3, CloseWindowPanes DEF Active
<1> QED BY <1>1, <1>2, <1>3 DEF KillWindow

-----------------------------------------------------------------------------
(* Actions that move panes between the windows of a session                *)

\* break_active_pane: the focused pane stays in the session.
LEMMA BreakActivePanePanes ==
  ASSUME Structure, NEW s \in DOMAIN sessions, BreakActivePane(s)
  PROVE  PanesKept /\ AllFocusKept
<1>1. PICK w \in WindowsOf(s) : w = ActiveWindow(s)
  BY OfSession
<1>2. PICK p \in windows[w].panes : p = Active(s).active_pane
  BY <1>1, OfSession DEF Active
<1>3. PICK V : V = [windows EXCEPT ![w] = CollapsePane(@, p)]
  OBVIOUS
<1>4. PICK n : n = next.window
  OBVIOUS
<1>5. w \in DOMAIN windows /\ n \notin DOMAIN windows /\ WindowsOf(s) \subseteq DOMAIN windows
  BY <1>4, OfSession DEF Structure, GoodWindows, Ids
<1>6. /\ DOMAIN V = DOMAIN windows /\ V[w] = CollapsePane(windows[w], p)
      /\ \A v \in DOMAIN windows : v # w => V[v] = windows[v]
  BY <1>3, <1>5
<1>7. V[w].panes = windows[w].panes \ {p}
  BY <1>6 DEF CollapsePane
<1>8. /\ windows' = Put(V, next.window, NewWindowWith(p))
      /\ sessions' = [sessions EXCEPT ![s] = AddWindow(@, next.window)]
      /\ DOMAIN sessions' = DOMAIN sessions
  BY <1>1, <1>2, <1>3 DEF BreakActivePane
<1>9. /\ \A t \in DOMAIN sessions \ {s} : PanesOf(t)' = PanesOf(t)
      /\ PanesOf(s)' = PanesIn(V, WindowsOf(s)) \cup {p}
  BY <1>6, <1>8, OpenWindowPanes
<1>10. ASSUME NEW q PROVE q \in PanesOf(s)' <=> q \in PanesOf(s)
  <2>1. q \in PanesOf(s)' <=> q = p \/ \E v \in WindowsOf(s) : q \in V[v].panes
    BY <1>9 DEF PanesIn
  <2>2. q \in PanesOf(s) <=> \E v \in WindowsOf(s) : q \in windows[v].panes
    BY DEF PanesOf
  <2> QED BY <1>2, <1>5, <1>6, <1>7, <2>1, <2>2
<1>11. next'.pane = next.pane
  <2>1. next \in [session : Ids, window : Ids, pane : Ids, client : Ids]
    BY DEF Structure
  <2> QED BY <2>1 DEF BreakActivePane
<1>12. AllFocusKept
  <2>1. \A v \in DOMAIN windows : windows'[v] = V[v]
    BY <1>4, <1>5, <1>6, <1>8 DEF Put
  <2>2. FocusKept(windows[w], V[w])
    BY <1>6, CollapseKeepsFocus
  <2>3. \A v \in DOMAIN windows : v # w => FocusKept(windows[v], V[v])
    BY <1>6, NoPaneLeaves
  <2> QED BY <2>1, <2>2, <2>3 DEF AllFocusKept
<1> QED BY <1>8, <1>9, <1>10, <1>11, <1>12 DEF PanesKept

\* join_pane: the pane goes to another window of its session.
LEMMA MovePaneToActivePanes ==
  ASSUME Structure, NEW s \in DOMAIN sessions, NEW w \in WindowsOf(s),
         NEW p \in windows[w].panes, MovePaneToActive(s, w, p)
  PROVE  PanesKept /\ AllFocusKept
<1>1. PICK d \in WindowsOf(s) : d = ActiveWindow(s) /\ w # d
  BY OfSession DEF MovePaneToActive
<1>2. /\ d \in DOMAIN windows /\ w \in DOMAIN windows /\ p \in Ids
      /\ GoodWindow(windows[d]) /\ WindowsOf(s) \subseteq DOMAIN windows
      /\ ToSet(windows[w].layout) = windows[w].panes
  BY OfSession
<1>3. p \notin windows[d].panes
  BY <1>1, <1>2 DEF Structure, GoodWindows
<1>4. PICK V : V = [windows EXCEPT ![d] = SplitActiveLeaf(@, p)]
  OBVIOUS
<1>5. /\ DOMAIN V = DOMAIN windows /\ V[d].panes = windows[d].panes \cup {p}
      /\ \A v \in DOMAIN windows : v # d => V[v] = windows[v]
  BY <1>2, <1>3, <1>4, SplitGood
<1>6. UNCHANGED next
  BY DEF MovePaneToActive
<1>7. CASE /\ windows[w].layout = <<p>>
           /\ windows' = Without(V, {w})
           /\ sessions' = [sessions EXCEPT ![s] = RemoveWindow(@, w)]
  <2>1. /\ \A t \in DOMAIN sessions \ {s} : PanesOf(t)' = PanesOf(t)
        /\ PanesOf(s)' = PanesIn(V, WindowsOf(s) \ {w})
        /\ DOMAIN sessions' = DOMAIN sessions
    <3>1. WindowsOf(s) # {w}
      BY <1>1
    <3> QED BY <1>5, <1>7, <3>1, RemoveWindowPanes
  <2>2. windows[w].panes = {p}
    BY <1>2, <1>7 DEF ToSet
  <2>3. ASSUME NEW q PROVE q \in PanesOf(s)' <=> q \in PanesOf(s)
    <3>1. q \in PanesOf(s)' <=> \E v \in WindowsOf(s) \ {w} : q \in V[v].panes
      BY <2>1 DEF PanesIn
    <3>2. q \in PanesOf(s) <=> \E v \in WindowsOf(s) : q \in windows[v].panes
      BY DEF PanesOf
    <3> QED BY <1>1, <1>2, <1>5, <2>2, <3>1, <3>2
  <2>4. AllFocusKept
    <3>1. \A v \in DOMAIN windows' : windows'[v] = V[v]
      BY <1>7 DEF Without, Restrict
    <3>2. \A v \in DOMAIN windows : FocusKept(windows[v], V[v])
      BY <1>5, NoPaneLeaves
    <3> QED BY <3>1, <3>2 DEF AllFocusKept
  <2> QED BY <1>6, <2>1, <2>3, <2>4 DEF PanesKept
<1>8. CASE /\ windows' = [V EXCEPT ![w] = CollapsePane(@, p)]
           /\ UNCHANGED sessions
  <2>1. /\ DOMAIN windows' = DOMAIN windows
        /\ windows'[w] = CollapsePane(windows[w], p)
        /\ \A v \in DOMAIN windows : v # w => windows'[v] = V[v]
    BY <1>1, <1>2, <1>5, <1>8
  <2>2. windows'[w].panes = windows[w].panes \ {p}
    BY <2>1 DEF CollapsePane
  <2>3. \A t \in DOMAIN sessions \ {s} : PanesOf(t)' = PanesOf(t)
    BY <1>5, <1>8, <2>1, OtherSessions
  <2>4. ASSUME NEW q PROVE q \in PanesOf(s)' <=> q \in PanesOf(s)
    <3>1. q \in PanesOf(s)' <=> \E v \in WindowsOf(s) : q \in windows'[v].panes
      BY <1>8 DEF PanesOf, WindowsOf
    <3>2. q \in PanesOf(s) <=> \E v \in WindowsOf(s) : q \in windows[v].panes
      BY DEF PanesOf
    <3> QED BY <1>1, <1>2, <1>5, <2>1, <2>2, <3>1, <3>2
  <2>5. AllFocusKept
    <3>1. FocusKept(windows[w], windows'[w])
      BY <2>1, CollapseKeepsFocus
    <3>2. \A v \in DOMAIN windows : v # w => FocusKept(windows[v], windows'[v])
      BY <1>5, <2>1, NoPaneLeaves
    <3> QED BY <3>1, <3>2 DEF AllFocusKept
  <2> QED BY <1>6, <1>8, <2>3, <2>4, <2>5 DEF PanesKept
<1> QED BY <1>1, <1>4, <1>7, <1>8 DEF MovePaneToActive

\* swap_panes: both panes stay in the session.
LEMMA SwapPanesPanes ==
  ASSUME Structure, NEW s \in DOMAIN sessions, NEW b \in PanesOf(s), SwapPanes(s, b)
  PROVE  PanesKept /\ AllFocusKept
<1>1. PICK v \in WindowsOf(s) : v = ActiveWindow(s)
  BY OfSession
<1>2. PICK w \in WindowsOf(s) : w = WindowOfPane(s, b) /\ b \in windows[w].panes
  BY OfSession
<1>3. PICK a \in windows[v].panes : a = Active(s).active_pane
  BY <1>1, OfSession DEF Active
<1>4. /\ v \in DOMAIN windows /\ w \in DOMAIN windows
      /\ GoodWindow(windows[v]) /\ GoodWindow(windows[w]) /\ a \in Ids /\ b \in Ids
      /\ WindowsOf(s) \subseteq DOMAIN windows
  BY <1>2, OfSession
<1>5. UNCHANGED <<sessions, next>>
  BY DEF SwapPanes
<1>6. WindowsOf(s)' = WindowsOf(s)
  BY <1>5 DEF WindowsOf
<1>7. ASSUME DOMAIN windows' = DOMAIN windows,
             \A u \in DOMAIN windows : u # v /\ u # w => windows'[u] = windows[u],
             \A q : q \in windows'[v].panes \cup windows'[w].panes
                      <=> q \in windows[v].panes \cup windows[w].panes
      PROVE  PanesKept
  <2>1. \A t \in DOMAIN sessions \ {s} : PanesOf(t)' = PanesOf(t)
    BY <1>5, <1>7, OtherSessions
  <2>2. ASSUME NEW q PROVE q \in PanesOf(s)' <=> q \in PanesOf(s)
    <3>1. q \in PanesOf(s)' <=> \E u \in WindowsOf(s) : q \in windows'[u].panes
      BY <1>6 DEF PanesOf
    <3>2. q \in PanesOf(s) <=> \E u \in WindowsOf(s) : q \in windows[u].panes
      BY DEF PanesOf
    <3> QED BY <1>4, <1>7, <3>1, <3>2
  <2> QED BY <1>5, <2>1, <2>2 DEF PanesKept
<1>8. CASE v = w /\ windows' = [windows EXCEPT ![v].layout = Exchange(@, a, b)]
  <2>1. /\ DOMAIN windows' = DOMAIN windows
        /\ windows'[v].panes = windows[v].panes
        /\ \A u \in DOMAIN windows : u # v => windows'[u] = windows[u]
    BY <1>4, <1>8 DEF GoodWindow, WindowRecord
  <2>2. \A u \in DOMAIN windows : FocusKept(windows[u], windows'[u])
    BY <2>1, NoPaneLeaves
  <2> QED BY <1>7, <1>8, <2>1, <2>2 DEF AllFocusKept
<1>9. CASE /\ v # w
           /\ windows' = [windows EXCEPT ![v] = GraftPane(@, a, b),
                                         ![w] = GraftPane(@, b, a)]
  <2>1. /\ DOMAIN windows' = DOMAIN windows
        /\ windows'[v] = GraftPane(windows[v], a, b)
        /\ windows'[w] = GraftPane(windows[w], b, a)
        /\ \A u \in DOMAIN windows : u # v /\ u # w => windows'[u] = windows[u]
    BY <1>4, <1>9
  <2>2. b \notin windows[v].panes /\ a \notin windows[w].panes
    BY <1>2, <1>4, <1>9 DEF Structure, GoodWindows
  <2>3. /\ windows'[v].panes = (windows[v].panes \ {a}) \cup {b}
        /\ windows'[w].panes = (windows[w].panes \ {b}) \cup {a}
    BY <1>2, <1>4, <2>1, <2>2, GraftGood
  <2>4. /\ FocusKept(windows[v], windows'[v])
        /\ FocusKept(windows[w], windows'[w])
    BY <1>2, <1>4, <2>1, <2>2, GraftKeepsFocus
  <2>5. \A u \in DOMAIN windows : FocusKept(windows[u], windows'[u])
    BY <2>1, <2>4, NoPaneLeaves
  <2>6. PanesKept
    BY <1>2, <1>7, <2>1, <2>3
  <2> QED BY <2>5, <2>6 DEF AllFocusKept
<1> QED BY <1>1, <1>2, <1>3, <1>8, <1>9 DEF SwapPanes

-----------------------------------------------------------------------------
(* The theorems                                                            *)

Kills(s) == KillSession(s) \/ KillWindow(s) \/ \E p \in PanesOf(s) : KillPane(s, p)

\* A step keeps all panes, opens one, or kills some of one session.
StepEffect ==
  \/ PanesKept
  \/ \E s \in DOMAIN sessions : PaneOpened(s)
  \/ \E s \in {next.session} : PaneOpened(s) /\ NewSession
  \/ \E s \in DOMAIN sessions :
       Kills(s) /\ \E P \in SUBSET PanesOf(s) : PanesClosed(s, P)

\* Each step has one of these effects, and keeps the focus where it can.
LEMMA StepPanes ==
  ASSUME Structure, [Next]_vars
  PROVE  AllFocusKept /\ StepEffect
<1> DEFINE Goal == AllFocusKept /\ StepEffect
<1> SUFFICES Goal
  OBVIOUS
<1>0. ASSUME AllFocusKept, PanesKept \/ \E s \in DOMAIN sessions : PaneOpened(s)
      PROVE  Goal
  BY <1>0 DEF StepEffect
<1>1. CASE UNCHANGED vars
  BY <1>0, <1>1, UnchangedPanes DEF vars
<1>2. CASE NewSession
  BY <1>2, NewSessionPanes DEF StepEffect
<1>3. CASE \E c \in DOMAIN clients : DetachClient(c)
  BY <1>0, <1>3, ClientsPanes
<1>4. ASSUME NEW s \in DOMAIN sessions,
             NewWindow(s) \/ SplitActive(s) \/ BreakActivePane(s)
      PROVE  Goal
  BY <1>0, <1>4, NewWindowPanes, SplitActivePanes, BreakActivePanePanes
<1>5. \A s \in DOMAIN sessions : \A P : PanesClosed(s, P) => P \in SUBSET PanesOf(s)
  BY DEF PanesClosed
<1>6. ASSUME NEW s \in DOMAIN sessions, Kills(s) PROVE Goal
  <2>1. \E P : PanesClosed(s, P) /\ AllFocusKept
    BY <1>6, DropSessionPanes, KillWindowPanes, KillPanePanes DEF Kills, KillSession
  <2> QED BY <1>5, <1>6, <2>1 DEF StepEffect
<1>7. ASSUME NEW s \in DOMAIN sessions, NEW p \in PanesOf(s),
             JoinSpecificPane(s, p) \/ SwapPanes(s, p)
      PROVE  Goal
  <2>1. CASE JoinSpecificPane(s, p)
    BY <1>0, <2>1, OfSession, MovePaneToActivePanes DEF JoinSpecificPane
  <2> QED BY <1>0, <1>7, <2>1, SwapPanesPanes
<1>8. ASSUME NEW s \in DOMAIN sessions, NEW w \in WindowsOf(s), JoinPane(s, w)
      PROVE  Goal
  BY <1>0, <1>8, OfSession, MovePaneToActivePanes DEF JoinPane
<1> HIDE DEF Goal
<1> QED
  BY <1>0, <1>1, <1>2, <1>3, <1>4, <1>6, <1>7, <1>8, ActiveWindowMethodsPanes,
     SessionMethodsPanes, ClientsPanes DEF Next, Kills

\* In every step, a window keeps its focus unless the focused pane leaves it.
THEOREM FocusAlwaysStaysPut == Spec => FocusStaysPut
<1>1. ASSUME Structure, [Next]_vars
      PROVE  [\A w \in DOMAIN windows \cap DOMAIN windows' :
                LET gone == windows[w].panes \ windows'[w].panes
                IN  gone # {} /\ windows[w].active_pane \notin gone =>
                      windows'[w].active_pane = windows[w].active_pane]_vars
  BY <1>1, StepPanes DEF AllFocusKept, FocusKept
<1> QED BY <1>1, StructureInvariant, PTL DEF Spec, FocusStaysPut

\* The panes of the model are those of its sessions, each in one of them, and
\* Owner tells which.
OwnersKnown ==
  /\ AllPanes = UNION {PanesOf(s) : s \in DOMAIN sessions}
  /\ DOMAIN Owner = AllPanes
  /\ \A s \in DOMAIN sessions : \A p \in PanesOf(s) : Owner[p] = s
  /\ \A s, t \in DOMAIN sessions : s # t => PanesOf(s) \cap PanesOf(t) = {}
  /\ \A s \in DOMAIN sessions : \A p \in PanesOf(s) : p \in Ids /\ p < next.pane

LEMMA OwnersFound == Structure => OwnersKnown
<1> SUFFICES ASSUME Structure PROVE OwnersKnown
  OBVIOUS
<1>1. /\ DOMAIN windows = UNION {WindowsOf(s) : s \in DOMAIN sessions}
      /\ \A s, t \in DOMAIN sessions : s # t => WindowsOf(s) \cap WindowsOf(t) = {}
  BY DEF Structure, GoodSessions, WindowsOf
<1>2. \A v, w \in DOMAIN windows : v # w => windows[v].panes \cap windows[w].panes = {}
  BY DEF Structure, GoodWindows
<1>3. ASSUME NEW p
      PROVE  p \in AllPanes <=> p \in UNION {PanesOf(s) : s \in DOMAIN sessions}
  BY <1>1 DEF AllPanes, PanesOf
<1>4. ASSUME NEW s \in DOMAIN sessions, NEW t \in DOMAIN sessions, s # t
      PROVE  PanesOf(s) \cap PanesOf(t) = {}
  BY <1>1, <1>2, <1>4 DEF PanesOf
<1>5. DOMAIN Owner = AllPanes
  BY DEF Owner
<1>6. ASSUME NEW s \in DOMAIN sessions, NEW p \in PanesOf(s)
      PROVE  Owner[p] = s
  <2>1. p \in AllPanes
    BY <1>3
  <2>2. Owner[p] = CHOOSE t \in DOMAIN sessions : p \in PanesOf(t)
    BY <2>1 DEF Owner
  <2> QED BY <2>2, <1>4
<1>7. ASSUME NEW s \in DOMAIN sessions, NEW p \in PanesOf(s)
      PROVE  p \in Ids /\ p < next.pane
  BY OfSession DEF PanesOf, Structure, GoodWindows
<1> QED BY <1>3, <1>4, <1>5, <1>6, <1>7 DEF OwnersKnown

\* Only kills lose panes.
THEOREM OnlyKillsEverLosePanes == Spec => OnlyKillsLosePanes
<1> DEFINE Killing == \E s \in DOMAIN sessions :
                        \/ KillSession(s) \/ KillWindow(s)
                        \/ \E p \in PanesOf(s) : KillPane(s, p)
<1>1. ASSUME Structure, OwnersKnown, OwnersKnown', [Next]_vars
      PROVE  AllPanes \subseteq AllPanes' \/ Killing
  <2>1. /\ AllPanes = UNION {PanesOf(s) : s \in DOMAIN sessions}
        /\ AllPanes' = UNION {PanesOf(s)' : s \in DOMAIN sessions'}
    BY <1>1 DEF OwnersKnown
  <2>2. ASSUME PanesKept PROVE AllPanes \subseteq AllPanes'
    BY <2>1, <2>2 DEF PanesKept
  <2>3. ASSUME NEW s, PaneOpened(s) PROVE AllPanes \subseteq AllPanes'
    BY <2>1, <2>3 DEF PaneOpened
  <2> QED BY <1>1, <2>2, <2>3, StepPanes DEF StepEffect, Kills
<1>2. Structure /\ Structure' /\ [Next]_vars
        => [AllPanes \subseteq AllPanes' \/ Killing]_vars
  <2>1. Structure' => OwnersKnown'
    BY OwnersFound, PTL
  <2> QED BY <1>1, <2>1, OwnersFound
<1> QED BY <1>2, StructureInvariant, PTL DEF Spec, OnlyKillsLosePanes

\* Session ids stay within the bound.
SessionsBounded == next.session \in Ids /\ next.session <= MaxSessions + 1

LEMMA StaysBounded == Spec => []SessionsBounded
<1>1. Init => SessionsBounded
  BY BoundsAssumption DEF Init, SessionsBounded, Ids, None
<1>2. ASSUME Structure, SessionsBounded, [Next]_vars PROVE SessionsBounded'
  <2>1. next \in [session : Ids, window : Ids, pane : Ids, client : Ids]
    BY <1>2 DEF Structure
  <2>2. CASE NewSession
    <3>1. next' = [session |-> next.session + 1, window |-> next.window + 1,
                   pane |-> next.pane + 1, client |-> next.client]
      BY <2>1, <2>2 DEF NewSession
    <3>2. next.session <= MaxSessions
      BY <2>2 DEF NewSession
    <3> QED BY <1>2, <3>1, <3>2, BoundsAssumption DEF SessionsBounded, Ids, None
  <2>3. ASSUME ~ NewSession PROVE next'.session = next.session
    BY <1>2, <2>1, <2>3
       DEF Next, vars, NewWindow, SplitActive, KillSession, KillWindow, KillPane,
           BreakActivePane, MovePaneToActive, JoinPane, JoinSpecificPane, SwapPanes,
           SwapActivePane, UpdateActive, RotatePanes, ApplyLayout, ToggleZoom,
           FocusNextPane, FocusPane, FocusLastPane, UpdateSession, FocusNextWindow,
           FocusPrevWindow, FocusWindow, FocusLastWindow, SwapWindows,
           MoveActiveWindow, MoveActiveWindowTo, AttachClient, DetachClient,
           SetClientSession
  <2> QED BY <1>2, <2>2, <2>3 DEF SessionsBounded
<1> QED BY <1>1, <1>2, StructureInvariant, PTL DEF Spec

\* The object model implements pane ownership: whatever is split, broken out,
\* joined, swapped or closed, a flat map from panes to sessions can follow it.
THEOREM ImplementsOwnership == Spec => OwnershipSpec
<1> DEFINE Sess == 1 .. MaxSessions
<1>1. Init => Ownership!Init
  BY DEF Init, Ownership!Init, Owner, AllPanes
<1>2. ASSUME OwnersKnown, OwnersKnown', SessionsBounded, Structure, [Next]_vars
      PROVE  Ownership!Next \/ UNCHANGED <<Owner, next.pane>>
  <2>1. /\ DOMAIN Owner' = UNION {PanesOf(t)' : t \in DOMAIN sessions'}
        /\ DOMAIN Owner = UNION {PanesOf(t) : t \in DOMAIN sessions}
        /\ \A t \in DOMAIN sessions' : \A p \in PanesOf(t)' : Owner'[p] = t
        /\ \A t \in DOMAIN sessions : \A p \in PanesOf(t) : Owner[p] = t
        /\ \A s, t \in DOMAIN sessions : s # t => PanesOf(s) \cap PanesOf(t) = {}
        /\ \A s \in DOMAIN sessions : next.pane \notin PanesOf(s)
    BY <1>2 DEF OwnersKnown, Ids
  <2>2. /\ Owner = [p \in DOMAIN Owner |-> Owner[p]]
        /\ Owner' = [p \in DOMAIN Owner' |-> Owner'[p]]
    BY DEF Owner
  <2>3. \A s \in DOMAIN sessions : s \in Sess
    BY <1>2, BoundsAssumption DEF Structure, GoodSessions, SessionsBounded, Ids, None
  <2>4. ASSUME PanesKept PROVE UNCHANGED <<Owner, next.pane>>
    <3>1. DOMAIN Owner' = DOMAIN Owner
      BY <2>1, <2>4 DEF PanesKept
    <3>2. \A p \in DOMAIN Owner : Owner'[p] = Owner[p]
      BY <2>1, <2>4 DEF PanesKept
    <3> QED BY <2>2, <2>4, <3>1, <3>2 DEF PanesKept
  <2>5. ASSUME NEW s \in Sess, PaneOpened(s) PROVE Ownership!Open(s)
    <3>1. DOMAIN Owner' = DOMAIN Owner \cup {next.pane}
      BY <2>1, <2>5 DEF PaneOpened
    <3>2. Owner'[next.pane] = s
      BY <2>1, <2>5 DEF PaneOpened
    <3>3. \A p \in DOMAIN Owner : p # next.pane /\ Owner'[p] = Owner[p]
      BY <2>1, <2>5 DEF PaneOpened
    <3>4. Owner' = [p \in DOMAIN Owner \cup {next.pane} |->
                      IF p = next.pane THEN s ELSE Owner[p]]
      BY <2>2, <3>1, <3>2, <3>3
    <3> QED BY <2>5, <3>4 DEF PaneOpened, Ownership!Open
  <2>6. ASSUME NEW s \in DOMAIN sessions, NEW P \in SUBSET PanesOf(s), PanesClosed(s, P)
        PROVE  P \in SUBSET DOMAIN Owner /\ Ownership!Close(s, P)
    <3>1. DOMAIN Owner' = DOMAIN Owner \ P
      BY <2>1, <2>6 DEF PanesClosed
    <3>2. \A p \in DOMAIN Owner' : Owner'[p] = Owner[p]
      BY <2>1, <2>6 DEF PanesClosed
    <3>3. Owner' = [p \in DOMAIN Owner \ P |-> Owner[p]]
      BY <2>2, <3>1, <3>2
    <3> QED BY <2>1, <2>6, <3>3 DEF PanesClosed, Ownership!Close
  <2>7. ASSUME NEW s \in {next.session}, NewSession PROVE s \in Sess
    BY <1>2, <2>7 DEF NewSession, SessionsBounded, Ids, None
  <2> QED BY <1>2, <2>3, <2>4, <2>5, <2>6, <2>7, StepPanes DEF StepEffect, Ownership!Next
<1>3. Structure /\ Structure' /\ SessionsBounded /\ [Next]_vars
        => [Ownership!Next]_<<Owner, next.pane>>
  <2>1. Structure' => OwnersKnown'
    BY OwnersFound, PTL
  <2> QED BY <1>2, <2>1, OwnersFound
<1> QED BY <1>1, <1>3, StructureInvariant, StaysBounded, PTL
        DEF Spec, OwnershipSpec, Ownership!Spec
=============================================================================
