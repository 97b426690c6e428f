--------------------------- MODULE PaneTree_proofs ---------------------------
(***************************************************************************)
(* Proofs about the split tree of a window and where it puts its panes,    *)
(* for any panes, any bound on their number, any areas and any ratios.     *)
(*                                                                         *)
(* Trees are sets by height.  FromTheLeaves is induction over them, and    *)
(* TreeRecursion says that a recursion over them has a value; from it each *)
(* recursive function of the model gets the equation of its definition     *)
(* (LeavesOfIs, RemoveLeafIs, PlaceIs, ...).  What an edit of the tree     *)
(* does to the sequence of its leaves is then shown by induction           *)
(* (SplitLeafIs, RemovedLeaf, RotatedTree, ArrangedIs, ...), as is that    *)
(* panes and dividers tile every area (TreesTile) and that a divider moves *)
(* nothing else (DividerMoved).                                            *)
(*                                                                         *)
(* TreeHolds is the invariant of the window: the tree holds each of its    *)
(* panes once.  LayoutHolds adds what clients hold of it while they drag.  *)
(***************************************************************************)
EXTENDS PaneLayout, Lists_proofs, FiniteSetTheorems, SequenceTheorems

-----------------------------------------------------------------------------
(* Trees of bounded height.                                                *)

TreesTo(m, f) ==
  f = [n \in 0..m |-> IF n = 0 THEN Leaves ELSE Higher(f[n - 1])]

LEMMA TreesToExist == \A m \in Nat : \E f : TreesTo(m, f)
<1> DEFINE T == {m \in Nat : \E f : TreesTo(m, f)}
<1>1. 0 \in T
  <2> DEFINE f == [n \in 0..0 |-> Leaves]
  <2>1. f = [n \in 0..0 |-> IF n = 0 THEN Leaves ELSE Higher(f[n - 1])]
    OBVIOUS
  <2> QED BY <2>1 DEF TreesTo
<1>2. ASSUME NEW m \in Nat, m \in T PROVE m + 1 \in T
  <2>1. PICK f : TreesTo(m, f)
    BY <1>2
  <2> DEFINE g == [n \in 0..m + 1 |-> IF n = 0 THEN Leaves ELSE Higher(f[n - 1])]
             b == [n \in 0..m + 1 |-> IF n = 0 THEN Leaves ELSE Higher(g[n - 1])]
  <2>2. \A n \in 0..m : g[n] = f[n]
    BY <2>1 DEF TreesTo
  <2>3. \A n \in 0..m + 1 : n # 0 => n - 1 \in 0..m
    OBVIOUS
  <2>4. \A n \in 0..m + 1 : g[n] = b[n]
    BY <2>2, <2>3
  <2>5. /\ DOMAIN g = 0..m + 1 /\ g = [n \in DOMAIN g |-> g[n]]
        /\ DOMAIN b = 0..m + 1 /\ b = [n \in DOMAIN b |-> b[n]]
    OBVIOUS
  <2> HIDE DEF g, b
  <2>6. g = b
    BY <2>4, <2>5
  <2>7. TreesTo(m + 1, g)
    BY <2>6 DEF TreesTo, b
  <2> QED BY <2>7
<1> HIDE DEF T
<1>3. Nat \subseteq T
  BY <1>1, <1>2, UpFromZero
<1> QED BY <1>3 DEF T

LEMMA TreesToAgree ==
  ASSUME NEW m \in Nat, NEW k \in Nat, NEW f, NEW g, TreesTo(m, f), TreesTo(k, g)
  PROVE  \A n \in Nat : n <= m /\ n <= k => f[n] = g[n]
<1> DEFINE T == {n \in Nat : n <= m /\ n <= k => f[n] = g[n]}
<1>1. 0 \in T
  BY DEF TreesTo
<1>2. ASSUME NEW n \in Nat, n \in T PROVE n + 1 \in T
  <2> SUFFICES ASSUME n + 1 <= m, n + 1 <= k PROVE f[n + 1] = g[n + 1]
    OBVIOUS
  <2>1. f[n] = g[n]
    BY <1>2
  <2>2. n + 1 \in 0..m /\ n + 1 \in 0..k /\ n + 1 # 0 /\ (n + 1) - 1 = n
    OBVIOUS
  <2>3. f[n + 1] = Higher(f[n]) /\ g[n + 1] = Higher(g[n])
    BY <2>2 DEF TreesTo
  <2> QED BY <2>1, <2>3
<1> HIDE DEF T
<1>3. Nat \subseteq T
  BY <1>1, <1>2, UpFromZero
<1> QED BY <1>3 DEF T

\* The equations of TreesUpTo.
LEMMA TreeHeights ==
  /\ TreesUpTo[0] = Leaves
  /\ \A n \in Nat : TreesUpTo[n + 1] = Higher(TreesUpTo[n])
<1> DEFINE Eq(F) ==
      F = [n \in Nat |-> IF n = 0 THEN Leaves ELSE Higher(F[n - 1])]
    F == [n \in Nat |-> (CHOOSE f : TreesTo(n, f))[n]]
    B == [n \in Nat |-> IF n = 0 THEN Leaves ELSE Higher(F[n - 1])]
<1>1. ASSUME NEW n \in Nat PROVE F[n] = B[n]
  <2> DEFINE f == CHOOSE f : TreesTo(n, f)
  <2>1. TreesTo(n, f)
    BY TreesToExist
  <2>2. F[n] = f[n]
    OBVIOUS
  <2> HIDE DEF f
  <2>3. CASE n = 0
    <3>1. f[0] = Leaves
      BY <2>1, <2>3 DEF TreesTo
    <3> QED BY <3>1, <2>2, <2>3
  <2>4. CASE n # 0
    <3> DEFINE g == CHOOSE g : TreesTo(n - 1, g)
    <3>1. TreesTo(n - 1, g) /\ n - 1 \in Nat
      BY TreesToExist, <2>4
    <3>2. F[n - 1] = g[n - 1]
      BY <3>1
    <3> HIDE DEF g
    <3>3. f[n - 1] = g[n - 1]
      BY <3>1, <2>1, TreesToAgree
    <3>4. f[n] = Higher(f[n - 1])
      BY <2>1, <2>4 DEF TreesTo
    <3> QED BY <3>2, <3>3, <3>4, <2>2, <2>4
  <2> QED BY <2>3, <2>4
<1>2. F = B
  <2>1. F = [n \in Nat |-> F[n]] /\ B = [n \in Nat |-> B[n]]
    OBVIOUS
  <2> HIDE DEF F, B
  <2> QED BY <2>1, <1>1
<1>3. Eq(F)
  BY <1>2
<1> HIDE DEF F, B
<1>4. Eq(TreesUpTo)
  <2>1. TreesUpTo = CHOOSE G : Eq(G)
    BY DEF TreesUpTo
  <2> HIDE DEF Eq
  <2> QED BY <2>1, <1>3
<1> QED BY <1>4

\* Every tree, of whatever height.
AnyTree == UNION {TreesUpTo[n] : n \in Nat}

LEMMA HigherIs ==
  ASSUME NEW T
  PROVE  /\ \A p \in Panes : Leaf(p) \in Higher(T)
         /\ \A d \in Dirs, r \in Ratios, a, b \in T : Split(d, r, a, b) \in Higher(T)
         /\ \A t \in Higher(T) :
              \/ IsLeaf(t) /\ t.pane \in Panes /\ t = Leaf(t.pane)
              \/ /\ ~ IsLeaf(t) /\ t.dir \in Dirs /\ t.ratio \in Ratios
                 /\ t.first \in T /\ t.second \in T
                 /\ t = Split(t.dir, t.ratio, t.first, t.second)
<1>1. \A p \in Panes : Leaf(p) \in Higher(T)
  BY DEF Higher, Leaf, Leaves
<1>2. \A d \in Dirs, r \in Ratios, a, b \in T : Split(d, r, a, b) \in Higher(T)
  BY DEF Higher, Split
<1>3. ASSUME NEW t \in Leaves
      PROVE  IsLeaf(t) /\ t.pane \in Panes /\ t = Leaf(t.pane)
  BY DEF Leaves, IsLeaf, Leaf
<1>4. ASSUME NEW t \in [dir : Dirs, ratio : Ratios, first : T, second : T]
      PROVE  /\ ~ IsLeaf(t) /\ t.dir \in Dirs /\ t.ratio \in Ratios
             /\ t.first \in T /\ t.second \in T
             /\ t = Split(t.dir, t.ratio, t.first, t.second)
  BY DEF IsLeaf, Split
<1> QED BY <1>1, <1>2, <1>3, <1>4 DEF Higher

LEMMA LeafIs ==
  ASSUME NEW p
  PROVE  IsLeaf(Leaf(p)) /\ Leaf(p).pane = p
BY DEF IsLeaf, Leaf

LEMMA SplitIs ==
  ASSUME NEW d, NEW r, NEW a, NEW b
  PROVE  /\ ~ IsLeaf(Split(d, r, a, b))
         /\ Split(d, r, a, b).dir = d /\ Split(d, r, a, b).ratio = r
         /\ Split(d, r, a, b).first = a /\ Split(d, r, a, b).second = b
BY DEF IsLeaf, Split

LEMMA HigherMonotone ==
  ASSUME NEW S, NEW T, S \subseteq T
  PROVE  Higher(S) \subseteq Higher(T)
<1> SUFFICES ASSUME NEW t \in Higher(S) PROVE t \in Higher(T)
  OBVIOUS
<1>1. CASE IsLeaf(t)
  BY <1>1, HigherIs
<1>2. CASE ~ IsLeaf(t)
  <2>1. /\ t.dir \in Dirs /\ t.ratio \in Ratios /\ t.first \in S /\ t.second \in S
        /\ t = Split(t.dir, t.ratio, t.first, t.second)
    BY <1>2, HigherIs
  <2> QED BY <2>1, HigherIs
<1> QED BY <1>1, <1>2

LEMMA HeightsGrow ==
  ASSUME NEW m \in Nat, NEW n \in Nat, n <= m
  PROVE  TreesUpTo[n] \subseteq TreesUpTo[m]
<1> DEFINE T == {k \in Nat : TreesUpTo[k] \subseteq TreesUpTo[k + 1]}
<1>1. 0 \in T
  <2>1. TreesUpTo[0] \subseteq TreesUpTo[0 + 1]
    BY TreeHeights, HigherIs DEF Higher
  <2> QED BY <2>1
<1>2. ASSUME NEW k \in Nat, k \in T PROVE k + 1 \in T
  <2>1. TreesUpTo[k + 1] = Higher(TreesUpTo[k]) /\ k + 1 \in Nat
        /\ TreesUpTo[(k + 1) + 1] = Higher(TreesUpTo[k + 1])
    BY TreeHeights
  <2>2. TreesUpTo[k] \subseteq TreesUpTo[k + 1]
    BY <1>2
  <2>3. Higher(TreesUpTo[k]) \subseteq Higher(TreesUpTo[k + 1])
    BY <2>2, HigherMonotone
  <2> QED BY <2>1, <2>3
<1> HIDE DEF T
<1>3. Nat \subseteq T
  BY <1>1, <1>2, UpFromZero
<1>4. \A k \in Nat : TreesUpTo[k] \subseteq TreesUpTo[k + 1]
  BY <1>3 DEF T
<1> DEFINE U == {k \in Nat : n <= k => TreesUpTo[n] \subseteq TreesUpTo[k]}
<1>5. 0 \in U
  OBVIOUS
<1>6. ASSUME NEW k \in Nat, k \in U PROVE k + 1 \in U
  <2>1. CASE n <= k
    <3>1. TreesUpTo[n] \subseteq TreesUpTo[k] /\ TreesUpTo[k] \subseteq TreesUpTo[k + 1]
      BY <2>1, <1>6, <1>4
    <3> QED BY <3>1
  <2>2. CASE n = k + 1
    BY <2>2
  <2>3. CASE n > k + 1
    BY <2>3
  <2> QED BY <2>1, <2>2, <2>3
<1> HIDE DEF U
<1>7. Nat \subseteq U
  BY <1>5, <1>6, UpFromZero
<1> QED BY <1>7 DEF U

\* Trees are put together and taken apart as the code does it.
LEMMA AnyTreeIs ==
  /\ \A p \in Panes : Leaf(p) \in AnyTree
  /\ \A d \in Dirs, r \in Ratios, a, b \in AnyTree : Split(d, r, a, b) \in AnyTree
<1>1. \A p \in Panes : Leaf(p) \in TreesUpTo[0 + 1]
  BY TreeHeights, HigherIs
<1>2. ASSUME NEW d \in Dirs, NEW r \in Ratios, NEW a \in AnyTree, NEW b \in AnyTree
      PROVE  Split(d, r, a, b) \in AnyTree
  <2>1. PICK m \in Nat : a \in TreesUpTo[m]
    BY DEF AnyTree
  <2>2. PICK n \in Nat : b \in TreesUpTo[n]
    BY DEF AnyTree
  <2>3. PICK k \in Nat : m <= k /\ n <= k
    <3>1. CASE m <= n
      BY <3>1
    <3>2. CASE n <= m
      BY <3>2
    <3> QED BY <3>1, <3>2
  <2>4. a \in TreesUpTo[k] /\ b \in TreesUpTo[k]
    BY <2>1, <2>2, <2>3, HeightsGrow
  <2>5. Split(d, r, a, b) \in TreesUpTo[k + 1]
    BY <2>4, TreeHeights, HigherIs
  <2> QED BY <2>5 DEF AnyTree
<1> QED BY <1>1, <1>2 DEF AnyTree

LEMMA TreeParts ==
  ASSUME NEW n \in Nat, NEW t \in TreesUpTo[n + 1]
  PROVE  \/ IsLeaf(t) /\ t.pane \in Panes /\ t = Leaf(t.pane)
         \/ /\ ~ IsLeaf(t) /\ t.dir \in Dirs /\ t.ratio \in Ratios
            /\ t.first \in TreesUpTo[n] /\ t.second \in TreesUpTo[n]
            /\ t = Split(t.dir, t.ratio, t.first, t.second)
<1>1. t \in Higher(TreesUpTo[n])
  BY TreeHeights
<1> QED BY <1>1, HigherIs

LEMMA MaxPanesIs == MaxPanes \in Nat /\ MaxPanes - 1 \in Nat /\ (MaxPanes - 1) + 1 = MaxPanes
  BY PanesAssumption

LEMMA TreeIs ==
  ASSUME NEW t \in Trees
  PROVE  \/ IsLeaf(t) /\ t.pane \in Panes /\ t = Leaf(t.pane)
         \/ /\ ~ IsLeaf(t) /\ t.dir \in Dirs /\ t.ratio \in Ratios
            /\ t.first \in Trees /\ t.second \in Trees
            /\ t.first \in TreesUpTo[MaxPanes - 1] /\ t.second \in TreesUpTo[MaxPanes - 1]
            /\ t = Split(t.dir, t.ratio, t.first, t.second)
<1>1. TreesUpTo[MaxPanes - 1] \subseteq Trees
  BY MaxPanesIs, HeightsGrow DEF Trees
<1>2. t \in TreesUpTo[(MaxPanes - 1) + 1]
  BY MaxPanesIs DEF Trees
<1> QED BY <1>1, <1>2, MaxPanesIs, TreeParts

LEMMA LeafIsTree ==
  ASSUME NEW p \in Panes, NEW n \in Nat
  PROVE  Leaf(p) \in TreesUpTo[n]
<1>1. Leaf(p) \in TreesUpTo[0]
  BY TreeHeights DEF Leaf, Leaves
<1> QED BY <1>1, HeightsGrow

\* Induction over the trees.
LEMMA FromTheLeaves ==
  ASSUME NEW S, \A t \in Trees : IsLeaf(t) => t \in S,
         \A t \in Trees : ~ IsLeaf(t) /\ t.first \in S /\ t.second \in S => t \in S
  PROVE  Trees \subseteq S
<1> DEFINE T == {n \in Nat : n <= MaxPanes => TreesUpTo[n] \subseteq S}
<1>1. 0 \in T
  <2>1. ASSUME NEW t \in TreesUpTo[0] PROVE t \in S
    <3>1. t \in Trees
      BY HeightsGrow, MaxPanesIs DEF Trees
    <3>2. IsLeaf(t)
      BY TreeHeights DEF Leaves, IsLeaf
    <3> QED BY <3>1, <3>2
  <2> QED BY <2>1
<1>2. ASSUME NEW n \in Nat, n \in T PROVE n + 1 \in T
  <2> SUFFICES ASSUME n + 1 <= MaxPanes, NEW t \in TreesUpTo[n + 1] PROVE t \in S
    OBVIOUS
  <2>1. TreesUpTo[n] \subseteq S
    BY <1>2, MaxPanesIs
  <2>2. TreesUpTo[n + 1] \subseteq Trees
    BY HeightsGrow, MaxPanesIs DEF Trees
  <2>3. CASE IsLeaf(t)
    BY <2>3, <2>2
  <2>4. CASE ~ IsLeaf(t)
    BY <2>1, <2>2, <2>4, TreeParts
  <2> QED BY <2>3, <2>4
<1> HIDE DEF T
<1>3. Nat \subseteq T
  BY <1>1, <1>2, UpFromZero
<1> QED BY <1>3, MaxPanesIs DEF T, Trees

\* A recursion over the trees has a value: for what it makes of a leaf, and of
\* a split and the values at its two sides.
ByRecursion(T, base, step, f) ==
  \A t \in T : f[t] = IF IsLeaf(t) THEN base[t] ELSE step[<<t, f[t.first], f[t.second]>>]

LEMMA TreeRecursion ==
  ASSUME NEW R, NEW base \in [Trees -> R], NEW step \in [Trees \X R \X R -> R]
  PROVE  \E f \in [Trees -> R] : ByRecursion(Trees, base, step, f)
<1> DEFINE T == {n \in Nat : n <= MaxPanes =>
                   \E f \in [TreesUpTo[n] -> R] : ByRecursion(TreesUpTo[n], base, step, f)}
<1>0. ASSUME NEW n \in Nat, n <= MaxPanes PROVE TreesUpTo[n] \subseteq Trees
  BY <1>0, MaxPanesIs, HeightsGrow DEF Trees
<1>1. 0 \in T
  <2> DEFINE f == [t \in TreesUpTo[0] |-> base[t]]
  <2>1. TreesUpTo[0] \subseteq Trees
    BY <1>0, MaxPanesIs
  <2>2. f \in [TreesUpTo[0] -> R]
    BY <2>1
  <2>3. \A t \in TreesUpTo[0] : IsLeaf(t)
    BY TreeHeights DEF Leaves, IsLeaf
  <2>4. ByRecursion(TreesUpTo[0], base, step, f)
    BY <2>3 DEF ByRecursion
  <2> HIDE DEF f
  <2> QED BY <2>2, <2>4
<1>2. ASSUME NEW n \in Nat, n \in T PROVE n + 1 \in T
  <2> SUFFICES ASSUME n + 1 <= MaxPanes
               PROVE  \E g \in [TreesUpTo[n + 1] -> R] : ByRecursion(TreesUpTo[n + 1], base, step, g)
    OBVIOUS
  <2>1. PICK f \in [TreesUpTo[n] -> R] : ByRecursion(TreesUpTo[n], base, step, f)
    BY <1>2, MaxPanesIs
  <2> DEFINE Body(h, t) == IF IsLeaf(t) THEN base[t] ELSE step[<<t, h[t.first], h[t.second]>>]
             g == [t \in TreesUpTo[n + 1] |-> Body(f, t)]
  <2>2. TreesUpTo[n + 1] \subseteq Trees /\ TreesUpTo[n] \subseteq TreesUpTo[n + 1]
    BY <1>0, HeightsGrow
  <2>3. ASSUME NEW t \in TreesUpTo[n + 1], ~ IsLeaf(t)
        PROVE  t.first \in TreesUpTo[n] /\ t.second \in TreesUpTo[n]
    BY <2>3, TreeParts
  <2>4. \A t \in TreesUpTo[n + 1] : Body(f, t) \in R
    <3> SUFFICES ASSUME NEW t \in TreesUpTo[n + 1] PROVE Body(f, t) \in R
      OBVIOUS
    <3>1. CASE IsLeaf(t)
      BY <3>1, <2>2
    <3>2. CASE ~ IsLeaf(t)
      <4>1. f[t.first] \in R /\ f[t.second] \in R /\ t \in Trees
        BY <3>2, <2>3, <2>2
      <4>2. <<t, f[t.first], f[t.second]>> \in Trees \X R \X R
        BY <4>1
      <4> QED BY <4>2, <3>2
    <3> QED BY <3>1, <3>2
  <2> HIDE DEF Body
  <2>5. g \in [TreesUpTo[n + 1] -> R]
    BY <2>4
  <2>6. \A t \in TreesUpTo[n + 1] : g[t] = Body(f, t)
    OBVIOUS
  <2> HIDE DEF g
  <2>7. \A t \in TreesUpTo[n] : g[t] = f[t]
    BY <2>6, <2>2, <2>1 DEF ByRecursion, Body
  <2>8. \A t \in TreesUpTo[n + 1] : Body(g, t) = Body(f, t)
    BY <2>7, <2>3 DEF Body
  <2>9. ByRecursion(TreesUpTo[n + 1], base, step, g)
    BY <2>6, <2>8 DEF ByRecursion, Body
  <2> QED BY <2>5, <2>9
<1> HIDE DEF T
<1>3. Nat \subseteq T
  BY <1>1, <1>2, UpFromZero
<1> QED BY <1>3, MaxPanesIs DEF T, Trees

\* What a recursion makes of every tree is of the kind R, if it keeps to it.
LEMMA TreeValues ==
  ASSUME NEW R, NEW g, \A t \in Trees : IsLeaf(t) => g[t] \in R,
         \A t \in Trees : ~ IsLeaf(t) /\ g[t.first] \in R /\ g[t.second] \in R => g[t] \in R
  PROVE  \A t \in Trees : g[t] \in R
<1> DEFINE S == {t \in Trees : g[t] \in R}
<1>1. \A t \in Trees : IsLeaf(t) => t \in S
  OBVIOUS
<1>2. \A t \in Trees : ~ IsLeaf(t) /\ t.first \in S /\ t.second \in S => t \in S
  OBVIOUS
<1> HIDE DEF S
<1>3. Trees \subseteq S
  BY <1>1, <1>2, FromTheLeaves
<1> QED BY <1>3 DEF S

LEMMA JoinedIs ==
  ASSUME NEW R, NEW a \in Seq(R), NEW b \in Seq(R)
  PROVE  /\ Joined(a, b) \in Seq(R)
         /\ Len(Joined(a, b)) = Len(a) + Len(b)
         /\ \A i \in 1..Len(a) : Joined(a, b)[i] = a[i]
         /\ \A i \in 1..Len(b) : Joined(a, b)[Len(a) + i] = b[i]
BY DEF Joined

Joins(c, a, b) ==
  /\ Len(c) = Len(a) + Len(b)
  /\ \A i \in 1..Len(a) : c[i] = a[i]
  /\ \A i \in 1..Len(b) : c[Len(a) + i] = b[i]

LEMMA JoinedJoins ==
  ASSUME NEW R, NEW a \in Seq(R), NEW b \in Seq(R)
  PROVE  Joined(a, b) \in Seq(R) /\ Joins(Joined(a, b), a, b)
BY DEF Joined, Joins

\* pane_ids.
LEMMA LeavesOfIs ==
  ASSUME NEW t \in Trees
  PROVE  /\ LeavesOf[t] \in Seq(Panes)
         /\ LeavesOf[t] = IF IsLeaf(t) THEN <<t.pane>>
                          ELSE Joined(LeavesOf[t.first], LeavesOf[t.second])
<1> DEFINE R == Seq(Panes)
           Eq(f) == f = [s \in Trees |-> IF IsLeaf(s) THEN <<s.pane>>
                                         ELSE Joined(f[s.first], f[s.second])]
           base == [s \in Trees |-> IF IsLeaf(s) THEN <<s.pane>> ELSE <<>>]
           step == [x \in Trees \X R \X R |-> Joined(x[2], x[3])]
<1>1. base \in [Trees -> R]
  <2>1. ASSUME NEW s \in Trees, IsLeaf(s) PROVE <<s.pane>> \in Seq(Panes)
    <3>1. s.pane \in Panes
      BY <2>1, TreeIs
    <3> QED BY <3>1
  <2> QED BY <2>1
<1>2. step \in [Trees \X R \X R -> R]
  BY DEF Joined
<1>3. PICK f \in [Trees -> R] : ByRecursion(Trees, base, step, f)
  <2> HIDE DEF base, step, R
  <2> QED BY <1>1, <1>2, TreeRecursion
<1>4. \A s \in Trees : f[s] = IF IsLeaf(s) THEN <<s.pane>> ELSE Joined(f[s.first], f[s.second])
  <2> SUFFICES ASSUME NEW s \in Trees
               PROVE f[s] = IF IsLeaf(s) THEN <<s.pane>> ELSE Joined(f[s.first], f[s.second])
    OBVIOUS
  <2>1. CASE IsLeaf(s)
    BY <2>1, <1>3 DEF ByRecursion
  <2>2. CASE ~ IsLeaf(s)
    <3>1. f[s.first] \in R /\ f[s.second] \in R
      BY <2>2, TreeIs
    <3>2. <<s, f[s.first], f[s.second]>> \in Trees \X R \X R
      BY <3>1
    <3> QED BY <3>2, <2>2, <1>3 DEF ByRecursion
  <2> QED BY <2>1, <2>2
<1>5. Eq(f)
  BY <1>4
<1>6. Eq(LeavesOf)
  <2>1. LeavesOf = CHOOSE g : Eq(g)
    BY DEF LeavesOf, Joined
  <2> HIDE DEF Eq
  <2> QED BY <2>1, <1>5
<1>7. \A s \in Trees : LeavesOf[s] = IF IsLeaf(s) THEN <<s.pane>>
                                     ELSE Joined(LeavesOf[s.first], LeavesOf[s.second])
  BY <1>6
<1> DEFINE S == {s \in Trees : LeavesOf[s] \in Seq(Panes)}
<1>8. Trees \subseteq S
  <2>1. \A s \in Trees : IsLeaf(s) => s \in S
    <3> SUFFICES ASSUME NEW s \in Trees, IsLeaf(s) PROVE LeavesOf[s] \in Seq(Panes)
      OBVIOUS
    <3>1. s.pane \in Panes
      BY TreeIs
    <3>2. LeavesOf[s] = <<s.pane>>
      BY <1>7
    <3> QED BY <3>1, <3>2
  <2>2. ASSUME NEW s \in Trees, ~ IsLeaf(s), s.first \in S, s.second \in S PROVE s \in S
    <3>1. LeavesOf[s] = Joined(LeavesOf[s.first], LeavesOf[s.second])
      BY <1>7, <2>2
    <3>2. LeavesOf[s.first] \in Seq(Panes) /\ LeavesOf[s.second] \in Seq(Panes)
      BY <2>2
    <3>3. Joined(LeavesOf[s.first], LeavesOf[s.second]) \in Seq(Panes)
      BY <3>2, JoinedIs
    <3> QED BY <3>1, <3>3
  <2> HIDE DEF S
  <2> QED BY <2>1, <2>2, FromTheLeaves
<1> QED BY <1>7, <1>8

LEMMA TreesAreTrees == Trees \subseteq AnyTree
  BY MaxPanesIs DEF Trees, AnyTree

\* Leaves replaced by trees.
LEMMA ReplantIs ==
  ASSUME NEW sub \in [Panes -> AnyTree], NEW t \in Trees
  PROVE  /\ Replant(t, sub) \in AnyTree
         /\ Replant(t, sub) = IF IsLeaf(t) THEN sub[t.pane]
                              ELSE Split(t.dir, t.ratio, Replant(t.first, sub), Replant(t.second, sub))
<1> DEFINE R == AnyTree
           Body(f, s) == IF IsLeaf(s) THEN sub[s.pane]
                         ELSE Split(s.dir, s.ratio, f[s.first], f[s.second])
           Eq(f) == f = [s \in Trees |-> Body(f, s)]
           base == [s \in Trees |-> IF IsLeaf(s) THEN sub[s.pane] ELSE s]
           step == [x \in Trees \X R \X R |-> IF IsLeaf(x[1]) THEN x[1]
                                              ELSE Split(x[1].dir, x[1].ratio, x[2], x[3])]
<1>1. base \in [Trees -> R]
  BY TreeIs, TreesAreTrees
<1>2. step \in [Trees \X R \X R -> R]
  <2> SUFFICES ASSUME NEW x \in Trees \X R \X R, ~ IsLeaf(x[1])
               PROVE  Split(x[1].dir, x[1].ratio, x[2], x[3]) \in R
    BY TreesAreTrees
  <2> QED BY TreeIs, AnyTreeIs
<1>3. PICK f \in [Trees -> R] : ByRecursion(Trees, base, step, f)
  <2> HIDE DEF base, step, R
  <2> QED BY <1>1, <1>2, TreeRecursion
<1>4. ASSUME NEW s \in Trees PROVE f[s] = Body(f, s)
  <2>1. CASE IsLeaf(s)
    BY <2>1, <1>3 DEF ByRecursion
  <2>2. CASE ~ IsLeaf(s)
    <3>1. f[s.first] \in R /\ f[s.second] \in R
      BY <2>2, TreeIs
    <3>2. <<s, f[s.first], f[s.second]>> \in Trees \X R \X R
      BY <3>1
    <3> QED BY <3>2, <2>2, <1>3 DEF ByRecursion
  <2> QED BY <2>1, <2>2
<1>5. Eq(f)
  <2> HIDE DEF Body
  <2> QED BY <1>4
<1> DEFINE g == CHOOSE h : Eq(h)
<1>6. Eq(g)
  <2> HIDE DEF Eq
  <2> QED BY <1>5
<1>7. \A s \in Trees : Replant(s, sub) = g[s]
  BY DEF Replant
<1> HIDE DEF g
<1>8. \A s \in Trees : g[s] = Body(g, s)
  <2> HIDE DEF Body
  <2> QED BY <1>6
<1>9. \A s \in Trees : g[s] \in R
  <2>1. \A s \in Trees : IsLeaf(s) => g[s] \in R
    BY <1>8, TreeIs
  <2>2. \A s \in Trees : ~ IsLeaf(s) /\ g[s.first] \in R /\ g[s.second] \in R => g[s] \in R
    BY <1>8, TreeIs, AnyTreeIs
  <2> HIDE DEF R
  <2> QED BY <2>1, <2>2, TreeValues
<1>10. ~ IsLeaf(t) => t.first \in Trees /\ t.second \in Trees
  BY TreeIs
<1> QED BY <1>7, <1>8, <1>9, <1>10

-----------------------------------------------------------------------------
(* Ratios and the cells they give.                                         *)

\* A number of a bounded set is the largest of it.
LEMMA LargestThereIs ==
  ASSUME NEW n \in Nat, NEW D, D \subseteq 1..n, D # {}
  PROVE  \E g \in D : \A h \in D : h <= g
<1> DEFINE T == {k \in Nat : (\E g \in D : g >= n - k) => \E g \in D : \A h \in D : h <= g}
<1>1. 0 \in T
  OBVIOUS
<1>2. ASSUME NEW k \in Nat, k \in T PROVE k + 1 \in T
  <2> SUFFICES ASSUME NEW g \in D, g >= n - (k + 1), \A e \in D : ~ e >= n - k
               PROVE  \E e \in D : \A h \in D : h <= e
    BY <1>2
  <2>1. \A h \in D : h <= g
    OBVIOUS
  <2> QED BY <2>1
<1> HIDE DEF T
<1>3. n \in T
  BY <1>1, <1>2, UpFromZero
<1>4. \E g \in D : g >= n - n
  <2>1. PICK g \in D : TRUE
    OBVIOUS
  <2>2. g \in 1..n
    OBVIOUS
  <2> QED BY <2>2
<1> QED BY <1>3, <1>4 DEF T

LEMMA Divided ==
  ASSUME NEW n \in Nat, NEW g \in Nat, g > 0
  PROVE  /\ n \div g \in Nat /\ n % g \in 0..g - 1
         /\ n = g * (n \div g) + (n % g)
  OBVIOUS

LEMMA TimesGrows ==
  ASSUME NEW a \in Nat, NEW b \in Nat, NEW g \in Nat, a <= b
  PROVE  g * a <= g * b
  OBVIOUS

LEMMA ClampedIs ==
  ASSUME NEW n \in Int, NEW d \in Nat, d > 0
  PROVE  Clamped(n, d) \in Ratios
<1>1. <<1, 20>> \in Ratios /\ <<19, 20>> \in Ratios
  BY DEF Ratios
<1>2. CASE 20 * n <= d \/ 20 * n >= 19 * d
  BY <1>1, <1>2 DEF Clamped
<1>3. CASE ~ (20 * n <= d \/ 20 * n >= 19 * d)
  <2> DEFINE Common(g) == n % g = 0 /\ d % g = 0
             D == {g \in 1..n : Common(g)}
             P(g) == g \in 1..n /\ n % g = 0 /\ d % g = 0 /\ \A h \in g + 1 .. n : n % h # 0 \/ d % h # 0
  <2>1. n \in Nat /\ n > 0 /\ n < d
    BY <1>3
  <2>2. \E g \in D : \A h \in D : h <= g
    <3>1. 1 \in D
      BY <2>1
    <3> HIDE DEF Common
    <3>2. D \subseteq 1..n
      OBVIOUS
    <3> HIDE DEF D
    <3> QED BY <3>1, <3>2, <2>1, LargestThereIs
  <2>3. \E g \in 1..n : P(g)
    <3>1. PICK g \in D : \A h \in D : h <= g
      BY <2>2
    <3>2. g \in 1..n /\ Common(g)
      OBVIOUS
    <3>3. \A h \in g + 1 .. n : h \in 1..n /\ ~ h <= g
      BY <3>2, <2>1
    <3>4. \A h \in g + 1 .. n : ~ Common(h)
      BY <3>1, <3>3
    <3> QED BY <3>2, <3>4
  <2> DEFINE g == CHOOSE g \in 1..n : /\ n % g = 0 /\ d % g = 0
                                      /\ \A h \in g + 1 .. n : n % h # 0 \/ d % h # 0
  <2>4. P(g)
    BY <2>3
  <2>5. Clamped(n, d) = <<n \div g, d \div g>>
    BY <1>3 DEF Clamped
  <2> HIDE DEF g
  <2>6. g \in Nat /\ g > 0 /\ n % g = 0 /\ d % g = 0
    BY <2>4, <2>1
  <2> HIDE DEF P, D, Common
  <2> DEFINE a == n \div g
             b == d \div g
  <2>7. a \in Nat /\ b \in Nat /\ n = g * a /\ d = g * b
    BY <2>1, <2>6, Divided
  <2> HIDE DEF a, b
  <2>8. a > 0
    BY <2>7, <2>1, <2>6
  <2>9. ~ b <= a
    <3>1. b <= a => g * b <= g * a
      BY <2>7, <2>6, TimesGrows
    <3> QED BY <3>1, <2>7, <2>1
  <2>10. <<a, b>> \in Ratios
    BY <2>7, <2>8, <2>9 DEF Ratios
  <2> QED BY <2>5, <2>10 DEF a, b
<1> QED BY <1>2, <1>3

\* The cells of the first child are none to all of those to share.
LEMMA FirstCellsIs ==
  ASSUME NEW total \in Nat, NEW ratio \in Ratios
  PROVE  /\ Usable(total) \in Nat /\ FirstCells(total, ratio) \in Nat
         /\ FirstCells(total, ratio) <= Usable(total)
<1> DEFINE u == Usable(total)
           a == ratio[1]
           b == ratio[2]
           n == FirstCells(total, ratio)
<1>1. u \in Nat /\ a \in Nat /\ b \in Nat /\ 0 < a /\ a < b
  BY DEF Usable, Ratios
<1>2. n = (2 * u * a + b) \div (2 * b)
  BY DEF FirstCells
<1> HIDE DEF u, a, b, n
<1> DEFINE m == 2 * u * a + b
           c == 2 * b
<1>3. m \in Nat /\ c \in Nat /\ c > 0
  BY <1>1
<1>4. m < c * (u + 1)
  <2>1. u * a <= u * b
    BY <1>1, TimesGrows
  <2>2. c * (u + 1) = 2 * (u * b) + 2 * b /\ m = 2 * (u * a) + b
    BY <1>1
  <2> QED BY <2>1, <2>2, <1>1
<1> HIDE DEF m, c
<1>5. n \in Nat /\ c * n <= m
  <2>1. n = m \div c
    BY <1>2 DEF m, c
  <2> QED BY <2>1, <1>3, Divided
<1>6. ~ u + 1 <= n
  <2>1. u + 1 <= n => c * (u + 1) <= c * n
    BY <1>1, <1>3, <1>5, TimesGrows
  <2>2. c * n \in Nat /\ c * (u + 1) \in Nat
    BY <1>1, <1>3, <1>5
  <2> QED BY <2>1, <2>2, <1>3, <1>4, <1>5
<1> QED BY <1>1, <1>5, <1>6 DEF u, n
-----------------------------------------------------------------------------
(* The recursive functions of the trees.                                   *)

Shaped(d, a, b) == <<d>> \o a \o b

\* The shape of a tree.
LEMMA ShapeOfIs ==
  ASSUME NEW t \in Trees
  PROVE  /\ ShapeOf[t] \in Seq(Dirs \cup {"leaf"})
         /\ ShapeOf[t] = IF IsLeaf(t) THEN <<"leaf">>
                         ELSE Shaped(t.dir, ShapeOf[t.first], ShapeOf[t.second])
<1> DEFINE R == Seq(Dirs \cup {"leaf"})
           Body(f, s) == IF IsLeaf(s) THEN <<"leaf">> ELSE Shaped(s.dir, f[s.first], f[s.second])
           Eq(f) == f = [s \in Trees |-> Body(f, s)]
           base == [s \in Trees |-> IF IsLeaf(s) THEN <<"leaf">> ELSE <<>>]
           step == [x \in Trees \X R \X R |-> IF IsLeaf(x[1]) THEN <<>> ELSE Shaped(x[1].dir, x[2], x[3])]
<1>1. base \in [Trees -> R]
  <2>1. <<"leaf">> \in R /\ <<>> \in R
    OBVIOUS
  <2> HIDE DEF R
  <2> QED BY <2>1
<1>2. step \in [Trees \X R \X R -> R]
  <2> SUFFICES ASSUME NEW x \in Trees \X R \X R, ~ IsLeaf(x[1])
               PROVE  Shaped(x[1].dir, x[2], x[3]) \in R
    OBVIOUS
  <2>1. x[1].dir \in Dirs
    BY TreeIs
  <2> QED BY <2>1 DEF Shaped
<1>3. PICK f \in [Trees -> R] : ByRecursion(Trees, base, step, f)
  <2> HIDE DEF base, step, R
  <2> QED BY <1>1, <1>2, TreeRecursion
<1>4. ASSUME NEW s \in Trees PROVE f[s] = Body(f, s)
  <2>1. CASE IsLeaf(s)
    BY <2>1, <1>3 DEF ByRecursion
  <2>2. CASE ~ IsLeaf(s)
    <3>1. f[s.first] \in R /\ f[s.second] \in R
      BY <2>2, TreeIs
    <3>2. <<s, f[s.first], f[s.second]>> \in Trees \X R \X R
      BY <3>1
    <3>3. f[s] = step[<<s, f[s.first], f[s.second]>>]
      BY <2>2, <1>3 DEF ByRecursion
    <3> QED BY <3>2, <3>3, <2>2
  <2> QED BY <2>1, <2>2
<1>5. Eq(f)
  <2> HIDE DEF Body
  <2> QED BY <1>4
<1> DEFINE g == CHOOSE h : Eq(h)
<1>6. Eq(g)
  <2> HIDE DEF Eq
  <2> QED BY <1>5
<1>7. \A s \in Trees : ShapeOf[s] = g[s]
  BY DEF ShapeOf, Shaped
<1> HIDE DEF g
<1>8. \A s \in Trees : g[s] = Body(g, s)
  <2> HIDE DEF Body
  <2> QED BY <1>6
<1>9. \A s \in Trees : g[s] \in R
  <2>1. ASSUME NEW s \in Trees, IsLeaf(s) PROVE g[s] \in R
    <3>1. g[s] = base[s]
      BY <1>8, <2>1
    <3> QED BY <3>1, <1>1
  <2>2. ASSUME NEW s \in Trees, ~ IsLeaf(s), g[s.first] \in R, g[s.second] \in R
        PROVE  g[s] \in R
    <3>1. <<s, g[s.first], g[s.second]>> \in Trees \X R \X R
      BY <2>2
    <3>2. g[s] = step[<<s, g[s.first], g[s.second]>>]
      BY <1>8, <2>2, <3>1
    <3> HIDE DEF step
    <3> QED BY <3>1, <3>2, <1>2
  <2> HIDE DEF R
  <2> QED BY <2>1, <2>2, TreeValues
<1>10. ~ IsLeaf(t) => t.first \in Trees /\ t.second \in Trees
  BY TreeIs
<1> QED BY <1>7, <1>8, <1>9, <1>10

Removed(s, p, one, two) ==
  IF s.first = Leaf(p) THEN [removed |-> "Collapsed", tree |-> s.second]
  ELSE IF s.second = Leaf(p) THEN [removed |-> "Collapsed", tree |-> s.first]
  ELSE IF one.removed # "NotFound"
       THEN [removed |-> one.removed, tree |-> Split(s.dir, s.ratio, one.tree, s.second)]
       ELSE [removed |-> two.removed, tree |-> Split(s.dir, s.ratio, s.first, two.tree)]

\* remove_pane.
LEMMA RemoveLeafIs ==
  ASSUME NEW p \in Panes, NEW t \in Trees
  PROVE  /\ RemoveLeaf(t, p) \in [removed : {"Gone", "NotFound", "Collapsed"}, tree : AnyTree]
         /\ RemoveLeaf(t, p) =
              IF IsLeaf(t)
              THEN [removed |-> IF t.pane = p THEN "Gone" ELSE "NotFound", tree |-> t]
              ELSE Removed(t, p, RemoveLeaf(t.first, p), RemoveLeaf(t.second, p))
<1> DEFINE R == [removed : {"Gone", "NotFound", "Collapsed"}, tree : AnyTree]
           Body(f, s) == IF IsLeaf(s)
               THEN [removed |-> IF s.pane = p THEN "Gone" ELSE "NotFound", tree |-> s]
               ELSE Removed(s, p, f[s.first], f[s.second])
           Eq(f) == f = [s \in Trees |-> Body(f, s)]
           base == [s \in Trees |-> [removed |-> IF s.pane = p THEN "Gone" ELSE "NotFound", tree |-> s]]
           step == [x \in Trees \X R \X R |-> IF IsLeaf(x[1]) THEN base[x[1]] ELSE Removed(x[1], p, x[2], x[3])]
<1>1. base \in [Trees -> R]
  BY TreesAreTrees
<1>2. step \in [Trees \X R \X R -> R]
  <2> SUFFICES ASSUME NEW x \in Trees \X R \X R, ~ IsLeaf(x[1])
               PROVE  Removed(x[1], p, x[2], x[3]) \in R
    BY <1>1
  <2>1. /\ x[1].dir \in Dirs /\ x[1].ratio \in Ratios
        /\ x[1].first \in AnyTree /\ x[1].second \in AnyTree
    BY TreeIs, TreesAreTrees
  <2>2. x[2] \in R /\ x[3] \in R
    OBVIOUS
  <2>3. /\ Split(x[1].dir, x[1].ratio, x[2].tree, x[1].second) \in AnyTree
        /\ Split(x[1].dir, x[1].ratio, x[1].first, x[3].tree) \in AnyTree
    BY <2>1, <2>2, AnyTreeIs
  <2> QED BY <2>1, <2>2, <2>3 DEF Removed
<1>3. PICK f \in [Trees -> R] : ByRecursion(Trees, base, step, f)
  <2> HIDE DEF base, step, R
  <2> QED BY <1>1, <1>2, TreeRecursion
<1>4. ASSUME NEW s \in Trees PROVE f[s] = Body(f, s)
  <2>1. CASE IsLeaf(s)
    BY <2>1, <1>3 DEF ByRecursion
  <2>2. CASE ~ IsLeaf(s)
    <3>1. f[s.first] \in R /\ f[s.second] \in R
      BY <2>2, TreeIs
    <3>2. <<s, f[s.first], f[s.second]>> \in Trees \X R \X R
      BY <3>1
    <3>3. f[s] = step[<<s, f[s.first], f[s.second]>>]
      BY <2>2, <1>3 DEF ByRecursion
    <3> QED BY <3>2, <3>3, <2>2
  <2> QED BY <2>1, <2>2
<1>5. Eq(f)
  <2> HIDE DEF Body
  <2> QED BY <1>4
<1> DEFINE g == CHOOSE h : Eq(h)
<1>6. Eq(g)
  <2> HIDE DEF Eq
  <2> QED BY <1>5
<1>7. \A s \in Trees : RemoveLeaf(s, p) = g[s]
  BY DEF RemoveLeaf, Removed
<1> HIDE DEF g
<1>8. \A s \in Trees : g[s] = Body(g, s)
  <2> HIDE DEF Body
  <2> QED BY <1>6
<1>9. \A s \in Trees : g[s] \in R
  <2>1. ASSUME NEW s \in Trees, IsLeaf(s) PROVE g[s] \in R
    <3>1. g[s] = base[s]
      BY <1>8, <2>1
    <3> QED BY <3>1, <1>1
  <2>2. ASSUME NEW s \in Trees, ~ IsLeaf(s), g[s.first] \in R, g[s.second] \in R
        PROVE  g[s] \in R
    <3>1. <<s, g[s.first], g[s.second]>> \in Trees \X R \X R
      BY <2>2
    <3>2. g[s] = step[<<s, g[s.first], g[s.second]>>]
      BY <1>8, <2>2, <3>1
    <3> HIDE DEF step
    <3> QED BY <3>1, <3>2, <1>2
  <2> HIDE DEF R
  <2> QED BY <2>1, <2>2, TreeValues
<1>10. ~ IsLeaf(t) => t.first \in Trees /\ t.second \in Trees
  BY TreeIs
<1> QED BY <1>7, <1>8, <1>9, <1>10

LEMMA NudgedIs ==
  ASSUME NEW r \in Ratios, NEW n \in Int
  PROVE  Clamped(20 * r[1] + n * r[2], 20 * r[2]) \in Ratios
<1>1. r[1] \in Nat /\ r[2] \in Nat /\ r[2] > 0
  BY DEF Ratios
<1>2. 20 * r[1] + n * r[2] \in Int /\ 20 * r[2] \in Nat /\ 20 * r[2] > 0
  BY <1>1
<1> QED BY <1>2, ClampedIs

Resized(s, p, d, n, one, two) ==
  IF one.moved THEN [moved |-> TRUE, tree |-> Split(s.dir, s.ratio, one.tree, s.second)]
  ELSE IF two.moved
  THEN [moved |-> TRUE, tree |-> Split(s.dir, s.ratio, s.first, two.tree)]
  ELSE IF s.dir = d /\ HasLeaf(s, p)
  THEN [moved |-> TRUE,
        tree  |-> Split(s.dir, Clamped(20 * s.ratio[1] + n * s.ratio[2], 20 * s.ratio[2]),
                        s.first, s.second)]
  ELSE [moved |-> FALSE, tree |-> s]

\* resize_pane.
LEMMA ResizePaneIs ==
  ASSUME NEW p \in Panes, NEW d \in Dirs, NEW n \in Int, NEW t \in Trees
  PROVE  /\ ResizePane(t, p, d, n) \in [moved : BOOLEAN, tree : AnyTree]
         /\ ResizePane(t, p, d, n) =
              IF IsLeaf(t) THEN [moved |-> FALSE, tree |-> t]
              ELSE Resized(t, p, d, n, ResizePane(t.first, p, d, n), ResizePane(t.second, p, d, n))
<1> DEFINE R == [moved : BOOLEAN, tree : AnyTree]
           Body(f, s) == IF IsLeaf(s) THEN [moved |-> FALSE, tree |-> s]
                         ELSE Resized(s, p, d, n, f[s.first], f[s.second])
           Eq(f) == f = [s \in Trees |-> Body(f, s)]
           base == [s \in Trees |-> [moved |-> FALSE, tree |-> s]]
           step == [x \in Trees \X R \X R |-> IF IsLeaf(x[1]) THEN base[x[1]] ELSE Resized(x[1], p, d, n, x[2], x[3])]
<1>1. base \in [Trees -> R]
  BY TreesAreTrees
<1>2. step \in [Trees \X R \X R -> R]
  <2> SUFFICES ASSUME NEW x \in Trees \X R \X R, ~ IsLeaf(x[1])
               PROVE  Resized(x[1], p, d, n, x[2], x[3]) \in R
    BY <1>1
  <2>1. /\ x[1].dir \in Dirs /\ x[1].ratio \in Ratios /\ x[1] \in AnyTree
        /\ x[1].first \in AnyTree /\ x[1].second \in AnyTree
    BY TreeIs, TreesAreTrees
  <2>2. x[2] \in R /\ x[3] \in R
    OBVIOUS
  <2>3. Clamped(20 * x[1].ratio[1] + n * x[1].ratio[2], 20 * x[1].ratio[2]) \in Ratios
    BY <2>1, NudgedIs
  <2>4. /\ Split(x[1].dir, x[1].ratio, x[2].tree, x[1].second) \in AnyTree
        /\ Split(x[1].dir, x[1].ratio, x[1].first, x[3].tree) \in AnyTree
        /\ Split(x[1].dir, Clamped(20 * x[1].ratio[1] + n * x[1].ratio[2], 20 * x[1].ratio[2]),
                 x[1].first, x[1].second) \in AnyTree
    BY <2>1, <2>2, <2>3, AnyTreeIs
  <2> QED BY <2>1, <2>2, <2>4 DEF Resized
<1>3. PICK f \in [Trees -> R] : ByRecursion(Trees, base, step, f)
  <2> HIDE DEF base, step, R
  <2> QED BY <1>1, <1>2, TreeRecursion
<1>4. ASSUME NEW s \in Trees PROVE f[s] = Body(f, s)
  <2>1. CASE IsLeaf(s)
    BY <2>1, <1>3 DEF ByRecursion
  <2>2. CASE ~ IsLeaf(s)
    <3>1. f[s.first] \in R /\ f[s.second] \in R
      BY <2>2, TreeIs
    <3>2. <<s, f[s.first], f[s.second]>> \in Trees \X R \X R
      BY <3>1
    <3>3. f[s] = step[<<s, f[s.first], f[s.second]>>]
      BY <2>2, <1>3 DEF ByRecursion
    <3> QED BY <3>2, <3>3, <2>2
  <2> QED BY <2>1, <2>2
<1>5. Eq(f)
  <2> HIDE DEF Body
  <2> QED BY <1>4
<1> DEFINE g == CHOOSE h : Eq(h)
<1>6. Eq(g)
  <2> HIDE DEF Eq
  <2> QED BY <1>5
<1>7. \A s \in Trees : ResizePane(s, p, d, n) = g[s]
  BY DEF ResizePane, Resized
<1> HIDE DEF g
<1>8. \A s \in Trees : g[s] = Body(g, s)
  <2> HIDE DEF Body
  <2> QED BY <1>6
<1>9. \A s \in Trees : g[s] \in R
  <2>1. ASSUME NEW s \in Trees, IsLeaf(s) PROVE g[s] \in R
    <3>1. g[s] = base[s]
      BY <1>8, <2>1
    <3> QED BY <3>1, <1>1
  <2>2. ASSUME NEW s \in Trees, ~ IsLeaf(s), g[s.first] \in R, g[s.second] \in R
        PROVE  g[s] \in R
    <3>1. <<s, g[s.first], g[s.second]>> \in Trees \X R \X R
      BY <2>2
    <3>2. g[s] = step[<<s, g[s.first], g[s.second]>>]
      BY <1>8, <2>2, <3>1
    <3> HIDE DEF step
    <3> QED BY <3>1, <3>2, <1>2
  <2> HIDE DEF R
  <2> QED BY <2>1, <2>2, TreeValues
<1>10. ~ IsLeaf(t) => t.first \in Trees /\ t.second \in Trees
  BY TreeIs
<1> QED BY <1>7, <1>8, <1>9, <1>10

LEMMA SplitRectIs ==
  ASSUME NEW area \in Rects, NEW d \in Dirs, NEW ratio \in Ratios
  PROVE  SplitRect(area, d, ratio)[1] \in Rects /\ SplitRect(area, d, ratio)[2] \in Rects
<1>1. area.x \in Nat /\ area.y \in Nat /\ area.cols \in Nat /\ area.rows \in Nat
  BY DEF Rects
<1>2. \A total \in Nat : /\ Usable(total) \in Nat /\ FirstCells(total, ratio) \in Nat
                         /\ FirstCells(total, ratio) <= Usable(total)
  BY FirstCellsIs
<1>3. \A x, y, cols, rows \in Nat : Rect(x, y, cols, rows) \in Rects
  BY DEF Rect, Rects
<1>4. CASE d = "Horizontal"
  <2> DEFINE n == FirstCells(area.cols, ratio)
             u == Usable(area.cols)
  <2>1. n \in Nat /\ u \in Nat /\ n <= u
    BY <1>1, <1>2
  <2>2. SplitRect(area, d, ratio) = <<Rect(area.x, area.y, n, area.rows),
                                      Rect(area.x + n + 1, area.y, u - n, area.rows)>>
    BY <1>4 DEF SplitRect
  <2> HIDE DEF n, u
  <2>3. area.x + n + 1 \in Nat /\ u - n \in Nat
    BY <1>1, <2>1
  <2>4. /\ Rect(area.x, area.y, n, area.rows) \in Rects
        /\ Rect(area.x + n + 1, area.y, u - n, area.rows) \in Rects
    BY <1>1, <1>3, <2>1, <2>3
  <2> QED BY <2>2, <2>4
<1>5. CASE d # "Horizontal"
  <2> DEFINE n == FirstCells(area.rows, ratio)
             u == Usable(area.rows)
  <2>1. n \in Nat /\ u \in Nat /\ n <= u
    BY <1>1, <1>2
  <2>2. SplitRect(area, d, ratio) = <<Rect(area.x, area.y, area.cols, n),
                                      Rect(area.x, area.y + n + 1, area.cols, u - n)>>
    BY <1>5 DEF SplitRect
  <2> HIDE DEF n, u
  <2>3. area.y + n + 1 \in Nat /\ u - n \in Nat
    BY <1>1, <2>1
  <2>4. /\ Rect(area.x, area.y, area.cols, n) \in Rects
        /\ Rect(area.x, area.y + n + 1, area.cols, u - n) \in Rects
    BY <1>1, <1>3, <2>1, <2>3
  <2> QED BY <2>2, <2>4
<1> QED BY <1>4, <1>5

LEMMA AreasIs ==
  ASSUME NEW t \in Trees, ~ IsLeaf(t), NEW area \in Rects
  PROVE  Areas(t, area)[1] \in Rects /\ Areas(t, area)[2] \in Rects
<1>1. t.dir \in Dirs /\ t.ratio \in Ratios
  BY TreeIs
<1> QED BY <1>1, SplitRectIs DEF Areas

\* Placements of some of the panes.
Placements == UNION {[S -> Rects] : S \in SUBSET Panes}

LEMMA PlacementIs ==
  /\ \A p \in Panes, r \in Rects : /\ Alone(p, r) \in Placements
                                  /\ DOMAIN Alone(p, r) = {p} /\ Alone(p, r)[p] = r
  /\ \A f, g \in Placements :
       /\ Beside(f, g) \in Placements
       /\ DOMAIN Beside(f, g) = DOMAIN f \cup DOMAIN g
       /\ \A p \in DOMAIN f : Beside(f, g)[p] = f[p]
       /\ \A p \in DOMAIN g \ DOMAIN f : Beside(f, g)[p] = g[p]
<1>1. ASSUME NEW p \in Panes, NEW r \in Rects
      PROVE  /\ Alone(p, r) \in Placements
             /\ DOMAIN Alone(p, r) = {p} /\ Alone(p, r)[p] = r
  <2>1. Alone(p, r) \in [{p} -> Rects] /\ {p} \in SUBSET Panes
    BY DEF Alone
  <2> QED BY <2>1 DEF Placements, Alone
<1>2. ASSUME NEW f \in Placements, NEW g \in Placements
      PROVE  /\ Beside(f, g) \in Placements
             /\ DOMAIN Beside(f, g) = DOMAIN f \cup DOMAIN g
             /\ \A p \in DOMAIN f : Beside(f, g)[p] = f[p]
             /\ \A p \in DOMAIN g \ DOMAIN f : Beside(f, g)[p] = g[p]
  <2>1. PICK S \in SUBSET Panes : f \in [S -> Rects]
    BY DEF Placements
  <2>2. PICK T \in SUBSET Panes : g \in [T -> Rects]
    BY DEF Placements
  <2>3. Beside(f, g) = [p \in S \cup T |-> IF p \in S THEN f[p] ELSE g[p]]
    BY <2>1, <2>2 DEF Beside
  <2>4. Beside(f, g) \in [S \cup T -> Rects] /\ (S \cup T) \in SUBSET Panes
    BY <2>1, <2>2, <2>3
  <2> QED BY <2>1, <2>2, <2>3, <2>4 DEF Placements
<1> QED BY <1>1, <1>2

LEMMA SomePane ==
  ASSUME NEW t \in Trees
  PROVE  \E p \in Panes : TRUE
<1> DEFINE S == {s \in Trees : \E p \in Panes : TRUE}
<1>1. \A s \in Trees : IsLeaf(s) => s \in S
  BY TreeIs
<1>2. \A s \in Trees : ~ IsLeaf(s) /\ s.first \in S /\ s.second \in S => s \in S
  OBVIOUS
<1> HIDE DEF S
<1>3. Trees \subseteq S
  BY <1>1, <1>2, FromTheLeaves
<1> QED BY <1>3 DEF S

\* compute.
LEMMA PlaceIs ==
  ASSUME NEW t \in Trees
  PROVE  \A a \in Rects :
           /\ Place(t, a) \in Placements
           /\ Place(t, a) = IF IsLeaf(t) THEN Alone(t.pane, a)
                            ELSE Beside(Place(t.first, Areas(t, a)[1]), Place(t.second, Areas(t, a)[2]))
<1> DEFINE R == [Rects -> Placements]
           Body(f, s) == [r \in Rects |-> IF IsLeaf(s) THEN Alone(s.pane, r)
                         ELSE Beside(f[s.first][Areas(s, r)[1]], f[s.second][Areas(s, r)[2]])]
           Eq(f) == f = [s \in Trees |-> Body(f, s)]
           base == [s \in Trees |-> [r \in Rects |->
                     Alone(IF IsLeaf(s) THEN s.pane ELSE CHOOSE p \in Panes : TRUE, r)]]
           step == [x \in Trees \X R \X R |-> IF IsLeaf(x[1]) THEN base[x[1]]
           ELSE [r \in Rects |-> Beside(x[2][Areas(x[1], r)[1]], x[3][Areas(x[1], r)[2]])]]
<1>1. base \in [Trees -> R]
  <2>1. ASSUME NEW s \in Trees PROVE base[s] \in R
    <3>1. CASE IsLeaf(s)
      <4>1. s.pane \in Panes
        BY <3>1, TreeIs
      <4> QED BY <4>1, <3>1, PlacementIs
    <3>2. CASE ~ IsLeaf(s)
      <4>1. (CHOOSE p \in Panes : TRUE) \in Panes
        BY SomePane
      <4> QED BY <4>1, <3>2, PlacementIs
    <3> QED BY <3>1, <3>2
  <2> QED BY <2>1
<1>2. step \in [Trees \X R \X R -> R]
  <2> SUFFICES ASSUME NEW x \in Trees \X R \X R, ~ IsLeaf(x[1]), NEW r \in Rects
               PROVE  Beside(x[2][Areas(x[1], r)[1]], x[3][Areas(x[1], r)[2]]) \in Placements
    BY <1>1
  <2>1. Areas(x[1], r)[1] \in Rects /\ Areas(x[1], r)[2] \in Rects
    BY AreasIs
  <2>2. x[2] \in R /\ x[3] \in R
    OBVIOUS
  <2> QED BY <2>1, <2>2, PlacementIs
<1>3. PICK f \in [Trees -> R] : ByRecursion(Trees, base, step, f)
  <2> HIDE DEF base, step, R
  <2> QED BY <1>1, <1>2, TreeRecursion
<1>4. ASSUME NEW s \in Trees PROVE f[s] = Body(f, s)
  <2>1. CASE IsLeaf(s)
    BY <2>1, <1>3 DEF ByRecursion
  <2>2. CASE ~ IsLeaf(s)
    <3>1. f[s.first] \in R /\ f[s.second] \in R
      BY <2>2, TreeIs
    <3>2. <<s, f[s.first], f[s.second]>> \in Trees \X R \X R
      BY <3>1
    <3>3. f[s] = step[<<s, f[s.first], f[s.second]>>]
      BY <2>2, <1>3 DEF ByRecursion
    <3> QED BY <3>2, <3>3, <2>2
  <2> QED BY <2>1, <2>2
<1>5. Eq(f)
  <2> HIDE DEF Body
  <2> QED BY <1>4
<1> DEFINE g == CHOOSE h : Eq(h)
<1>6. Eq(g)
  <2> HIDE DEF Eq
  <2> QED BY <1>5
<1>7. \A s \in Trees : \A a \in Rects : Place(s, a) = g[s][a]
  BY DEF Place
<1> HIDE DEF g
<1>8. \A s \in Trees : g[s] = Body(g, s)
  <2> HIDE DEF Body
  <2> QED BY <1>6
<1>9. \A s \in Trees : g[s] \in R
  <2>1. ASSUME NEW s \in Trees, IsLeaf(s) PROVE g[s] \in R
    <3>1. g[s] = base[s]
      BY <1>8, <2>1
    <3> QED BY <3>1, <1>1
  <2>2. ASSUME NEW s \in Trees, ~ IsLeaf(s), g[s.first] \in R, g[s.second] \in R
        PROVE  g[s] \in R
    <3>1. <<s, g[s.first], g[s.second]>> \in Trees \X R \X R
      BY <2>2
    <3>2. g[s] = step[<<s, g[s.first], g[s.second]>>]
      BY <1>8, <2>2, <3>1
    <3> HIDE DEF step
    <3> QED BY <3>1, <3>2, <1>2
  <2> HIDE DEF R
  <2> QED BY <2>1, <2>2, TreeValues
<1>10. ~ IsLeaf(t) => t.first \in Trees /\ t.second \in Trees
  BY TreeIs
<1>11. \A a \in Rects : ~ IsLeaf(t) => Areas(t, a)[1] \in Rects /\ Areas(t, a)[2] \in Rects
  BY AreasIs
<1>12. \A a \in Rects : g[t][a] = IF IsLeaf(t) THEN Alone(t.pane, a)
         ELSE Beside(g[t.first][Areas(t, a)[1]], g[t.second][Areas(t, a)[2]])
  BY <1>8
<1>13. \A a \in Rects : g[t][a] \in Placements
  BY <1>9
<1> HIDE DEF Body, Eq, base, step, R
<1> QED BY <1>7, <1>10, <1>11, <1>12, <1>13

LEMMA PathIs ==
  /\ << >> \in Paths /\ NoPath # << >> /\ NoPath \notin Paths
  /\ \A way \in Paths : way # << >> => way[1] \in {"first", "second"} /\ Tail(way) \in Paths
  /\ \A way \in Paths, child \in {"first", "second"} :
       LET longer == <<child>> \o way
       IN  longer \in Paths /\ longer # << >> /\ longer[1] = child /\ Tail(longer) = way
<1>1. << >> \in Paths /\ NoPath # << >>
  BY DEF Paths, NoPath
<1>2. NoPath \notin Paths
  <2>1. NoPath[1] = "none" /\ Len(NoPath) = 1
    BY DEF NoPath
  <2>2. \A way \in Paths : Len(way) = 1 => way[1] \in {"first", "second"}
    BY DEF Paths
  <2> QED BY <2>1, <2>2
<1>3. ASSUME NEW way \in Paths, way # << >>
      PROVE  way[1] \in {"first", "second"} /\ Tail(way) \in Paths
  BY <1>3 DEF Paths
<1>4. ASSUME NEW way \in Paths, NEW child \in {"first", "second"}
      PROVE  LET longer == <<child>> \o way
             IN  longer \in Paths /\ longer # << >> /\ longer[1] = child /\ Tail(longer) = way
  <2> DEFINE longer == <<child>> \o way
             rest == Tail(longer)
  <2>1. longer \in Paths /\ Len(longer) = Len(way) + 1 /\ longer[1] = child
        /\ \A i \in 1..Len(way) : longer[i + 1] = way[i]
    BY DEF Paths
  <2> HIDE DEF longer
  <2>2. longer # << >>
    BY <2>1 DEF Paths
  <2>3. rest \in Paths /\ Len(rest) = Len(way) /\ \A i \in 1..Len(way) : rest[i] = longer[i + 1]
    BY <2>1, <2>2 DEF Paths
  <2> HIDE DEF rest
  <2>4. rest = way
    BY <2>1, <2>3 DEF Paths
  <2> QED BY <2>1, <2>2, <2>4 DEF longer, rest
<1> QED BY <1>1, <1>2, <1>3, <1>4

\* The node at the end of a path.
LEMMA NodeAtIs ==
  ASSUME NEW t \in Trees
  PROVE  \A way \in Paths :
           /\ NodeAt(t, way) \in Trees
           /\ NodeAt(t, way) = IF IsLeaf(t) \/ way = << >> THEN t
                               ELSE IF way[1] = "first" THEN NodeAt(t.first, Tail(way))
                                    ELSE NodeAt(t.second, Tail(way))
<1> DEFINE R == [Paths -> Trees]
           Body(f, s) == [way \in Paths |-> IF IsLeaf(s) \/ way = << >> THEN s
                           ELSE f[IF way[1] = "first" THEN s.first ELSE s.second][Tail(way)]]
           Eq(f) == f = [s \in Trees |-> Body(f, s)]
           base == [s \in Trees |-> [way \in Paths |-> s]]
           step == [x \in Trees \X R \X R |-> [way \in Paths |->
                       IF IsLeaf(x[1]) \/ way = << >> THEN x[1]
                       ELSE IF way[1] = "first" THEN x[2][Tail(way)] ELSE x[3][Tail(way)]]]
<1>1. base \in [Trees -> R]
  OBVIOUS
<1>2. step \in [Trees \X R \X R -> R]
  BY PathIs
<1>3. PICK f \in [Trees -> R] : ByRecursion(Trees, base, step, f)
  <2> HIDE DEF base, step, R
  <2> QED BY <1>1, <1>2, TreeRecursion
<1>4. ASSUME NEW s \in Trees PROVE f[s] = Body(f, s)
  <2>1. CASE IsLeaf(s)
    BY <2>1, <1>3 DEF ByRecursion
  <2>2. CASE ~ IsLeaf(s)
    <3>1. f[s.first] \in R /\ f[s.second] \in R
      BY <2>2, TreeIs
    <3>2. <<s, f[s.first], f[s.second]>> \in Trees \X R \X R
      BY <3>1
    <3>3. f[s] = step[<<s, f[s.first], f[s.second]>>]
      BY <2>2, <1>3 DEF ByRecursion
    <3> QED BY <3>2, <3>3, <2>2
  <2> QED BY <2>1, <2>2
<1>5. Eq(f)
  <2> HIDE DEF Body
  <2> QED BY <1>4
<1> DEFINE g == CHOOSE h : Eq(h)
<1>6. Eq(g)
  <2> HIDE DEF Eq
  <2> QED BY <1>5
<1>7. \A s \in Trees : \A way \in Paths : NodeAt(s, way) = g[s][way]
  BY DEF NodeAt
<1> HIDE DEF g
<1>8. \A s \in Trees : g[s] = Body(g, s)
  <2> HIDE DEF Body
  <2> QED BY <1>6
<1>9. \A s \in Trees : g[s] \in R
  <2>1. ASSUME NEW s \in Trees, IsLeaf(s) PROVE g[s] \in R
    <3>1. g[s] = base[s]
      BY <1>8, <2>1
    <3> QED BY <3>1, <1>1
  <2>2. ASSUME NEW s \in Trees, ~ IsLeaf(s), g[s.first] \in R, g[s.second] \in R
        PROVE  g[s] \in R
    <3>1. <<s, g[s.first], g[s.second]>> \in Trees \X R \X R
      BY <2>2
    <3>2. g[s] = step[<<s, g[s.first], g[s.second]>>]
      BY <1>8, <2>2, <3>1
    <3> HIDE DEF step
    <3> QED BY <3>1, <3>2, <1>2
  <2> HIDE DEF R
  <2> QED BY <2>1, <2>2, TreeValues
<1>10. ~ IsLeaf(t) => t.first \in Trees /\ t.second \in Trees
  BY TreeIs
<1>11. \A way \in Paths : way # << >> => Tail(way) \in Paths
  BY PathIs
<1>12. ASSUME NEW way \in Paths
       PROVE  g[t][way] = IF IsLeaf(t) \/ way = << >> THEN t
                          ELSE IF way[1] = "first" THEN g[t.first][Tail(way)]
                               ELSE g[t.second][Tail(way)]
  <2>1. g[t] = Body(g, t)
    BY <1>8
  <2>2. CASE way[1] = "first"
    BY <2>1, <2>2
  <2>3. CASE way[1] # "first"
    BY <2>1, <2>3
  <2> QED BY <2>2, <2>3
<1>13. \A way \in Paths : g[t][way] \in Trees
  BY <1>9
<1> HIDE DEF Body, Eq, base, step, R
<1> QED BY <1>7, <1>10, <1>11, <1>12, <1>13

Found(t, at, a, one, two) ==
  IF OnDivider(t.dir, Areas(t, a)[1], a, at) THEN << >>
  ELSE IF Covers(Areas(t, a)[1], at) THEN Step("first", one)
  ELSE IF Covers(Areas(t, a)[2], at) THEN Step("second", two)
  ELSE NoPath

\* divider_at.
LEMMA DividerAtIs ==
  ASSUME NEW at, NEW t \in Trees
  PROVE  \A a \in Rects :
           /\ DividerAt(t, at, a) \in Paths \cup {NoPath}
           /\ DividerAt(t, at, a) =
                IF IsLeaf(t) THEN NoPath
                ELSE Found(t, at, a, DividerAt(t.first, at, Areas(t, a)[1]),
                           DividerAt(t.second, at, Areas(t, a)[2]))
<1> DEFINE R == [Rects -> Paths \cup {NoPath}]
           Body(f, s) == [a \in Rects |-> IF IsLeaf(s) THEN NoPath
                          ELSE Found(s, at, a, f[s.first][Areas(s, a)[1]], f[s.second][Areas(s, a)[2]])]
           Eq(f) == f = [s \in Trees |-> Body(f, s)]
           base == [s \in Trees |-> [a \in Rects |-> NoPath]]
           step == [x \in Trees \X R \X R |-> IF IsLeaf(x[1]) THEN base[x[1]]
                       ELSE [a \in Rects |-> Found(x[1], at, a, x[2][Areas(x[1], a)[1]],
                                                   x[3][Areas(x[1], a)[2]])]]
<1>1. base \in [Trees -> R]
  OBVIOUS
<1>2. step \in [Trees \X R \X R -> R]
  <2> SUFFICES ASSUME NEW x \in Trees \X R \X R, ~ IsLeaf(x[1]), NEW a \in Rects
               PROVE  Found(x[1], at, a, x[2][Areas(x[1], a)[1]], x[3][Areas(x[1], a)[2]])
                        \in Paths \cup {NoPath}
    BY <1>1
  <2>1. Areas(x[1], a)[1] \in Rects /\ Areas(x[1], a)[2] \in Rects
    BY AreasIs
  <2>2. x[2] \in R /\ x[3] \in R
    OBVIOUS
  <2> QED BY <2>1, <2>2, PathIs DEF Found, Step
<1>3. PICK f \in [Trees -> R] : ByRecursion(Trees, base, step, f)
  <2> HIDE DEF base, step, R
  <2> QED BY <1>1, <1>2, TreeRecursion
<1>4. ASSUME NEW s \in Trees PROVE f[s] = Body(f, s)
  <2>1. CASE IsLeaf(s)
    BY <2>1, <1>3 DEF ByRecursion
  <2>2. CASE ~ IsLeaf(s)
    <3>1. f[s.first] \in R /\ f[s.second] \in R
      BY <2>2, TreeIs
    <3>2. <<s, f[s.first], f[s.second]>> \in Trees \X R \X R
      BY <3>1
    <3>3. f[s] = step[<<s, f[s.first], f[s.second]>>]
      BY <2>2, <1>3 DEF ByRecursion
    <3> QED BY <3>2, <3>3, <2>2
  <2> QED BY <2>1, <2>2
<1>5. Eq(f)
  <2> HIDE DEF Body
  <2> QED BY <1>4
<1> DEFINE g == CHOOSE h : Eq(h)
<1>6. Eq(g)
  <2> HIDE DEF Eq
  <2> QED BY <1>5
<1>7. \A s \in Trees : \A a \in Rects : DividerAt(s, at, a) = g[s][a]
  BY DEF DividerAt, Found
<1> HIDE DEF g
<1>8. \A s \in Trees : g[s] = Body(g, s)
  <2> HIDE DEF Body
  <2> QED BY <1>6
<1>9. \A s \in Trees : g[s] \in R
  <2>1. ASSUME NEW s \in Trees, IsLeaf(s) PROVE g[s] \in R
    <3>1. g[s] = base[s]
      BY <1>8, <2>1
    <3> QED BY <3>1, <1>1
  <2>2. ASSUME NEW s \in Trees, ~ IsLeaf(s), g[s.first] \in R, g[s.second] \in R
        PROVE  g[s] \in R
    <3>1. <<s, g[s.first], g[s.second]>> \in Trees \X R \X R
      BY <2>2
    <3>2. g[s] = step[<<s, g[s.first], g[s.second]>>]
      BY <1>8, <2>2, <3>1
    <3> HIDE DEF step
    <3> QED BY <3>1, <3>2, <1>2
  <2> HIDE DEF R
  <2> QED BY <2>1, <2>2, TreeValues
<1>10. ~ IsLeaf(t) => t.first \in Trees /\ t.second \in Trees
  BY TreeIs
<1>11. \A a \in Rects : ~ IsLeaf(t) => Areas(t, a)[1] \in Rects /\ Areas(t, a)[2] \in Rects
  BY AreasIs
<1>12. \A a \in Rects : g[t][a] = IF IsLeaf(t) THEN NoPath
         ELSE Found(t, at, a, g[t.first][Areas(t, a)[1]], g[t.second][Areas(t, a)[2]])
  BY <1>8
<1>13. \A a \in Rects : g[t][a] \in Paths \cup {NoPath}
  BY <1>9
<1> HIDE DEF Body, Eq, base, step, R
<1> QED BY <1>7, <1>10, <1>11, <1>12, <1>13

LEMMA RatioUnderIs ==
  ASSUME NEW at \in Nat, NEW origin \in Nat, NEW total \in Nat
  PROVE  RatioUnder(at, origin, total) \in Ratios
<1> DEFINE limit == Usable(total)
           rel   == IF at < origin THEN 0 ELSE IF at - origin > limit THEN limit ELSE at - origin
           room  == IF limit = 0 THEN 1 ELSE limit
<1>1. rel \in Int /\ room \in Nat /\ room > 0
  BY DEF Usable
<1>2. RatioUnder(at, origin, total) = Clamped(rel, room)
  BY DEF RatioUnder
<1> HIDE DEF rel, room
<1> QED BY <1>1, <1>2, ClampedIs

LEMMA DividerUnderIs ==
  ASSUME NEW t \in Trees, ~ IsLeaf(t), NEW at \in Nat \X Nat, NEW a \in Rects
  PROVE  \E r \in Ratios : DividerUnder(t, at, a) = Split(t.dir, r, t.first, t.second)
<1>1. /\ at[1] \in Nat /\ at[2] \in Nat /\ a.x \in Nat /\ a.y \in Nat
      /\ a.cols \in Nat /\ a.rows \in Nat
  BY DEF Rects
<1>2. /\ RatioUnder(at[1], a.x, a.cols) \in Ratios
      /\ RatioUnder(at[2], a.y, a.rows) \in Ratios
  BY <1>1, RatioUnderIs
<1> QED BY <1>2 DEF DividerUnder

Moved(t, way, at, a, one, two) ==
  IF way = << >> THEN DividerUnder(t, at, a)
  ELSE IF way[1] = "first" THEN Split(t.dir, t.ratio, one, t.second)
  ELSE Split(t.dir, t.ratio, t.first, two)

\* set_ratio_by_path.
LEMMA SetRatioIs ==
  ASSUME NEW at \in Nat \X Nat, NEW t \in Trees
  PROVE  \A way \in Paths, a \in Rects :
           /\ SetRatio(t, way, at, a) \in AnyTree
           /\ SetRatio(t, way, at, a) =
                IF IsLeaf(t) THEN t
                ELSE Moved(t, way, at, a, SetRatio(t.first, Tail(way), at, Areas(t, a)[1]),
                           SetRatio(t.second, Tail(way), at, Areas(t, a)[2]))
<1> DEFINE R == [Paths -> [Rects -> AnyTree]]
           Within(f, s, way) == [a \in Rects |->
                           IF IsLeaf(s) THEN s
                           ELSE Moved(s, way, at, a, f[s.first][Tail(way)][Areas(s, a)[1]],
                                      f[s.second][Tail(way)][Areas(s, a)[2]])]
           Body(f, s) == [way \in Paths |-> Within(f, s, way)]
           Eq(f) == f = [s \in Trees |-> Body(f, s)]
           base == [s \in Trees |-> [way \in Paths |-> [a \in Rects |-> s]]]
           step == [x \in Trees \X R \X R |-> IF IsLeaf(x[1]) THEN base[x[1]]
                       ELSE [way \in Paths |-> [a \in Rects |->
                              Moved(x[1], way, at, a, x[2][Tail(way)][Areas(x[1], a)[1]],
                                    x[3][Tail(way)][Areas(x[1], a)[2]])]]]
<1>1. base \in [Trees -> R]
  BY TreesAreTrees
<1>2. step \in [Trees \X R \X R -> R]
  <2> SUFFICES ASSUME NEW x \in Trees \X R \X R, ~ IsLeaf(x[1]), NEW way \in Paths, NEW a \in Rects
               PROVE  Moved(x[1], way, at, a, x[2][Tail(way)][Areas(x[1], a)[1]],
                            x[3][Tail(way)][Areas(x[1], a)[2]]) \in AnyTree
    BY <1>1
  <2>1. Areas(x[1], a)[1] \in Rects /\ Areas(x[1], a)[2] \in Rects
    BY AreasIs
  <2>2. x[2] \in R /\ x[3] \in R
    OBVIOUS
  <2>3. /\ x[1].dir \in Dirs /\ x[1].ratio \in Ratios
        /\ x[1].first \in AnyTree /\ x[1].second \in AnyTree
    BY TreeIs, TreesAreTrees
  <2>4. CASE way = << >>
    BY <2>3, <2>4, DividerUnderIs, AnyTreeIs DEF Moved
  <2>5. CASE way # << >>
    <3>1. Tail(way) \in Paths
      BY <2>5, PathIs
    <3>2. /\ x[2][Tail(way)][Areas(x[1], a)[1]] \in AnyTree
          /\ x[3][Tail(way)][Areas(x[1], a)[2]] \in AnyTree
      BY <3>1, <2>1, <2>2
    <3> QED BY <3>2, <2>3, <2>5, AnyTreeIs DEF Moved
  <2> QED BY <2>4, <2>5
<1>3. PICK f \in [Trees -> R] : ByRecursion(Trees, base, step, f)
  <2> HIDE DEF base, step, R
  <2> QED BY <1>1, <1>2, TreeRecursion
<1>4. ASSUME NEW s \in Trees PROVE f[s] = Body(f, s)
  <2>1. CASE IsLeaf(s)
    <3>1. f[s] = [way \in Paths |-> [a \in Rects |-> s]]
      BY <2>1, <1>3 DEF ByRecursion
    <3>2. \A way \in Paths : Within(f, s, way) = [a \in Rects |-> s]
      BY <2>1
    <3>3. Body(f, s) = [way \in Paths |-> Within(f, s, way)]
      OBVIOUS
    <3> HIDE DEF Within, Body
    <3> QED BY <3>1, <3>2, <3>3
  <2>2. CASE ~ IsLeaf(s)
    <3>1. f[s.first] \in R /\ f[s.second] \in R
      BY <2>2, TreeIs
    <3>2. <<s, f[s.first], f[s.second]>> \in Trees \X R \X R
      BY <3>1
    <3>3. f[s] = step[<<s, f[s.first], f[s.second]>>]
      BY <2>2, <1>3 DEF ByRecursion
    <3> QED BY <3>2, <3>3, <2>2
  <2> QED BY <2>1, <2>2
<1>5. Eq(f)
  <2> HIDE DEF Body
  <2> QED BY <1>4
<1> DEFINE g == CHOOSE h : Eq(h)
<1>6. Eq(g)
  <2> HIDE DEF Eq
  <2> QED BY <1>5
<1>7. \A s \in Trees : \A way \in Paths, a \in Rects : SetRatio(s, way, at, a) = g[s][way][a]
  BY DEF SetRatio, Moved
<1> HIDE DEF g
<1>8. \A s \in Trees : g[s] = Body(g, s)
  <2> HIDE DEF Body
  <2> QED BY <1>6
<1>9. \A s \in Trees : g[s] \in R
  <2>1. ASSUME NEW s \in Trees, IsLeaf(s) PROVE g[s] \in R
    <3>1. g[s] = base[s]
      BY <1>8, <2>1
    <3> QED BY <3>1, <1>1
  <2>2. ASSUME NEW s \in Trees, ~ IsLeaf(s), g[s.first] \in R, g[s.second] \in R
        PROVE  g[s] \in R
    <3>1. <<s, g[s.first], g[s.second]>> \in Trees \X R \X R
      BY <2>2
    <3>2. g[s] = step[<<s, g[s.first], g[s.second]>>]
      BY <1>8, <2>2, <3>1
    <3> HIDE DEF step
    <3> QED BY <3>1, <3>2, <1>2
  <2> HIDE DEF R
  <2> QED BY <2>1, <2>2, TreeValues
<1>10. ~ IsLeaf(t) => t.first \in Trees /\ t.second \in Trees
  BY TreeIs
<1>11. \A a \in Rects : ~ IsLeaf(t) => Areas(t, a)[1] \in Rects /\ Areas(t, a)[2] \in Rects
  BY AreasIs
<1>12. \A way \in Paths : way # << >> => Tail(way) \in Paths
  BY PathIs
<1>13. \A way \in Paths, a \in Rects :
         g[t][way][a] = IF IsLeaf(t) THEN t
                        ELSE Moved(t, way, at, a, g[t.first][Tail(way)][Areas(t, a)[1]],
                                   g[t.second][Tail(way)][Areas(t, a)[2]])
  <2>1. g[t] = Body(g, t)
    BY <1>8
  <2>2. \A way \in Paths : g[t][way] = Within(g, t, way)
    <3> HIDE DEF Within
    <3> QED BY <2>1
  <2> HIDE DEF Body
  <2> QED BY <2>2
<1>14. \A way \in Paths, a \in Rects : g[t][way][a] \in AnyTree
  BY <1>9
<1> HIDE DEF Body, Eq, base, step, R
<1> SUFFICES ASSUME NEW way \in Paths, NEW a \in Rects
             PROVE  /\ SetRatio(t, way, at, a) \in AnyTree
                    /\ SetRatio(t, way, at, a) =
                         IF IsLeaf(t) THEN t
                         ELSE Moved(t, way, at, a, SetRatio(t.first, Tail(way), at, Areas(t, a)[1]),
                                    SetRatio(t.second, Tail(way), at, Areas(t, a)[2]))
  OBVIOUS
<1>15. CASE IsLeaf(t) \/ way # << >>
  BY <1>7, <1>10, <1>11, <1>12, <1>13, <1>14, <1>15
<1>16. CASE ~ IsLeaf(t) /\ way = << >>
  BY <1>7, <1>13, <1>14, <1>16 DEF Moved
<1> QED BY <1>15, <1>16

-----------------------------------------------------------------------------
(* The recursions over lists.                                              *)

StackUpTo(nodes, d, m, f) ==
  f = [k \in 1..m |-> IF k = 1 THEN nodes[Len(nodes)]
                      ELSE Split(d, <<1, k>>, nodes[Len(nodes) - k + 1], f[k - 1])]

LEMMA StacksExist ==
  ASSUME NEW nodes, NEW d
  PROVE  \A m \in Nat : \E f : StackUpTo(nodes, d, m, f)
<1> DEFINE T == {m \in Nat : \E f : StackUpTo(nodes, d, m, f)}
           Body(f, k) == IF k = 1 THEN nodes[Len(nodes)]
                         ELSE Split(d, <<1, k>>, nodes[Len(nodes) - k + 1], f[k - 1])
<1>1. 0 \in T
  <2> DEFINE f == [k \in 1..0 |-> 0]
  <2>1. f = [k \in 1..0 |-> Body(f, k)]
    OBVIOUS
  <2> QED BY <2>1 DEF StackUpTo
<1>2. ASSUME NEW m \in Nat, m \in T PROVE m + 1 \in T
  <2>1. PICK f : StackUpTo(nodes, d, m, f)
    BY <1>2
  <2> DEFINE g == [k \in 1..m + 1 |-> Body(f, k)]
             b == [k \in 1..m + 1 |-> Body(g, k)]
  <2>2. \A k \in 1..m : g[k] = f[k]
    <3>1. f = [k \in 1..m |-> Body(f, k)]
      BY <2>1 DEF StackUpTo
    <3> HIDE DEF Body
    <3>2. \A k \in 1..m : k \in 1..m + 1 /\ f[k] = Body(f, k)
      BY <3>1
    <3> QED BY <3>2
  <2>3. \A k \in 1..m + 1 : k # 1 => k - 1 \in 1..m
    OBVIOUS
  <2>4. \A k \in 1..m + 1 : g[k] = b[k]
    <3> SUFFICES ASSUME NEW k \in 1..m + 1 PROVE Body(f, k) = Body(g, k)
      OBVIOUS
    <3> HIDE DEF g
    <3>1. k # 1 => f[k - 1] = g[k - 1]
      BY <2>2, <2>3
    <3> QED BY <3>1
  <2>5. /\ DOMAIN g = 1..m + 1 /\ g = [k \in DOMAIN g |-> g[k]]
        /\ DOMAIN b = 1..m + 1 /\ b = [k \in DOMAIN b |-> b[k]]
    OBVIOUS
  <2> HIDE DEF g, b
  <2>6. g = b
    BY <2>4, <2>5
  <2>7. StackUpTo(nodes, d, m + 1, g)
    BY <2>6 DEF StackUpTo, b
  <2> QED BY <2>7
<1> HIDE DEF T
<1>3. Nat \subseteq T
  BY <1>1, <1>2, UpFromZero
<1> QED BY <1>3 DEF T

LEMMA StackEvenIs ==
  ASSUME NEW nodes, NEW d, Len(nodes) \in Nat
  PROVE  \E f : /\ StackEven(nodes, d) = f[Len(nodes)]
                /\ \A k \in 1..Len(nodes) :
                     f[k] = IF k = 1 THEN nodes[Len(nodes)]
                            ELSE Split(d, <<1, k>>, nodes[Len(nodes) - k + 1], f[k - 1])
<1> DEFINE f == CHOOSE h : StackUpTo(nodes, d, Len(nodes), h)
<1>1. StackUpTo(nodes, d, Len(nodes), f)
  BY StacksExist
<1>2. StackEven(nodes, d) = f[Len(nodes)]
  BY DEF StackEven, StackUpTo
<1> HIDE DEF f
<1>3. \A k \in 1..Len(nodes) :
        f[k] = IF k = 1 THEN nodes[Len(nodes)]
               ELSE Split(d, <<1, k>>, nodes[Len(nodes) - k + 1], f[k - 1])
  BY <1>1 DEF StackUpTo
<1> QED BY <1>2, <1>3

Exchanged(t, ids, n, downward, k) ==
  LET i == IF downward THEN n - k ELSE k IN SwapIds(t, ids[i], ids[i + 1])

RotatedUpTo(t, ids, downward, m, f) ==
  f = [k \in 0..m |-> IF k = 0 THEN t
                      ELSE Exchanged(f[k - 1], ids, Len(ids), downward, k)]

LEMMA RotatedUpToExist ==
  ASSUME NEW t, NEW ids, NEW downward
  PROVE  \A m \in Nat : \E f : RotatedUpTo(t, ids, downward, m, f)
<1> DEFINE T == {m \in Nat : \E f : RotatedUpTo(t, ids, downward, m, f)}
           Body(f, k) == IF k = 0 THEN t
                         ELSE Exchanged(f[k - 1], ids, Len(ids), downward, k)
<1>1. 0 \in T
  <2> DEFINE f == [k \in 0..0 |-> t]
  <2>1. f = [k \in 0..0 |-> Body(f, k)]
    OBVIOUS
  <2> QED BY <2>1 DEF RotatedUpTo
<1>2. ASSUME NEW m \in Nat, m \in T PROVE m + 1 \in T
  <2>1. PICK f : RotatedUpTo(t, ids, downward, m, f)
    BY <1>2
  <2> DEFINE g == [k \in 0..m + 1 |-> Body(f, k)]
             b == [k \in 0..m + 1 |-> Body(g, k)]
  <2>2. \A k \in 0..m : g[k] = f[k]
    <3>1. f = [k \in 0..m |-> Body(f, k)]
      BY <2>1 DEF RotatedUpTo
    <3> HIDE DEF Body
    <3>2. \A k \in 0..m : k \in 0..m + 1 /\ f[k] = Body(f, k)
      BY <3>1
    <3> QED BY <3>2
  <2>3. \A k \in 0..m + 1 : k # 0 => k - 1 \in 0..m
    OBVIOUS
  <2>4. \A k \in 0..m + 1 : g[k] = b[k]
    <3> SUFFICES ASSUME NEW k \in 0..m + 1 PROVE Body(f, k) = Body(g, k)
      OBVIOUS
    <3> HIDE DEF g
    <3>1. k # 0 => f[k - 1] = g[k - 1]
      BY <2>2, <2>3
    <3> QED BY <3>1
  <2>5. /\ DOMAIN g = 0..m + 1 /\ g = [k \in DOMAIN g |-> g[k]]
        /\ DOMAIN b = 0..m + 1 /\ b = [k \in DOMAIN b |-> b[k]]
    OBVIOUS
  <2> HIDE DEF g, b
  <2>6. g = b
    BY <2>4, <2>5
  <2>7. RotatedUpTo(t, ids, downward, m + 1, g)
    BY <2>6 DEF RotatedUpTo, b
  <2> QED BY <2>7
<1> HIDE DEF T
<1>3. Nat \subseteq T
  BY <1>1, <1>2, UpFromZero
<1> QED BY <1>3 DEF T

LEMMA RotateIs ==
  ASSUME NEW t, NEW ids, NEW downward, Len(ids) - 1 \in Nat
  PROVE  \E f : /\ Rotate(t, ids, downward) = f[Len(ids) - 1]
                /\ f[0] = t
                /\ \A k \in 1..Len(ids) - 1 :
                     f[k] = Exchanged(f[k - 1], ids, Len(ids), downward, k)
<1> DEFINE f == CHOOSE h : RotatedUpTo(t, ids, downward, Len(ids) - 1, h)
<1>1. RotatedUpTo(t, ids, downward, Len(ids) - 1, f)
  BY RotatedUpToExist
<1>2. Rotate(t, ids, downward) = f[Len(ids) - 1]
  BY DEF Rotate, RotatedUpTo, Exchanged
<1> HIDE DEF f
<1>3. \A k \in 0..Len(ids) - 1 :
        f[k] = IF k = 0 THEN t ELSE Exchanged(f[k - 1], ids, Len(ids), downward, k)
  BY <1>1 DEF RotatedUpTo
<1>4. 0 \in 0..Len(ids) - 1 /\ \A k \in 1..Len(ids) - 1 : k \in 0..Len(ids) - 1 /\ k # 0
  OBVIOUS
<1> QED BY <1>2, <1>3, <1>4


-----------------------------------------------------------------------------
(* Sequences of panes.                                                     *)

LEMMA SameSequence ==
  ASSUME NEW R, NEW a \in Seq(R), NEW b \in Seq(R), Len(a) = Len(b),
         \A i \in 1..Len(a) : a[i] = b[i]
  PROVE  a = b
OBVIOUS

LEMMA SequenceIs ==
  ASSUME NEW R, NEW s \in Seq(R)
  PROVE  /\ Len(s) \in Nat /\ DOMAIN s = 1..Len(s)
         /\ \A i \in 1..Len(s) : s[i] \in R
         /\ ToSet(s) = {s[i] : i \in 1..Len(s)}
         /\ ToSet(s) \subseteq R
         /\ \A x : x \in ToSet(s) <=> \E i \in 1..Len(s) : s[i] = x
BY DEF ToSet

LEMMA InjectiveIs ==
  ASSUME NEW R, NEW s \in Seq(R)
  PROVE  IsInjective(s) <=> \A i, j \in 1..Len(s) : s[i] = s[j] => i = j
BY DEF IsInjective

\* What is true of two lists is true of the one after the other.
LEMMA JoinedElements ==
  ASSUME NEW R, NEW a \in Seq(R), NEW b \in Seq(R)
  PROVE  /\ ToSet(Joined(a, b)) = ToSet(a) \cup ToSet(b)
         /\ \A k \in 1..Len(a) + Len(b) :
              \/ k \in 1..Len(a) /\ Joined(a, b)[k] = a[k]
              \/ k - Len(a) \in 1..Len(b) /\ Joined(a, b)[k] = b[k - Len(a)]
<1> DEFINE c == Joined(a, b)
           m == Len(a)
           n == Len(b)
<1>1. /\ c \in Seq(R) /\ Len(c) = m + n /\ m \in Nat /\ n \in Nat
      /\ \A i \in 1..m : c[i] = a[i]
      /\ \A i \in 1..n : c[m + i] = b[i]
  <2>1. c \in Seq(R) /\ Joins(c, a, b) /\ Len(a) \in Nat /\ Len(b) \in Nat
    BY JoinedJoins, SequenceIs
  <2> HIDE DEF c
  <2> QED BY <2>1 DEF Joins
<1> HIDE DEF c, m, n
<1>2. ASSUME NEW k \in 1..m + n
      PROVE  \/ k \in 1..m /\ c[k] = a[k]
             \/ k - m \in 1..n /\ c[k] = b[k - m]
  <2>1. CASE k <= m
    BY <2>1, <1>1
  <2>2. CASE ~ k <= m
    <3>1. k - m \in 1..n /\ m + (k - m) = k
      BY <2>2, <1>1
    <3> QED BY <3>1, <1>1
  <2> QED BY <2>1, <2>2
<1>3. ASSUME NEW x \in ToSet(c) PROVE x \in ToSet(a) \cup ToSet(b)
  <2>1. PICK k \in 1..m + n : c[k] = x
    BY <1>1, SequenceIs
  <2> QED BY <2>1, <1>2, SequenceIs DEF m, n
<1>4. ASSUME NEW x \in ToSet(a) PROVE x \in ToSet(c)
  <2>1. PICK k \in 1..m : a[k] = x
    BY SequenceIs DEF m
  <2>2. k \in 1..m + n /\ c[k] = x
    BY <2>1, <1>1
  <2> QED BY <2>2, <1>1, SequenceIs
<1>5. ASSUME NEW x \in ToSet(b) PROVE x \in ToSet(c)
  <2>1. PICK k \in 1..n : b[k] = x
    BY SequenceIs DEF n
  <2>2. m + k \in 1..m + n /\ c[m + k] = x
    BY <2>1, <1>1
  <2> QED BY <2>2, <1>1, SequenceIs
<1> QED BY <1>2, <1>3, <1>4, <1>5 DEF c, m, n

LEMMA JoinedInjective ==
  ASSUME NEW R, NEW a \in Seq(R), NEW b \in Seq(R)
  PROVE  IsInjective(Joined(a, b)) <=>
           IsInjective(a) /\ IsInjective(b) /\ ToSet(a) \cap ToSet(b) = {}
<1> DEFINE c == Joined(a, b)
           m == Len(a)
           n == Len(b)
<1>1. /\ c \in Seq(R) /\ Len(c) = m + n /\ m \in Nat /\ n \in Nat
      /\ \A i \in 1..m : c[i] = a[i]
      /\ \A i \in 1..n : c[m + i] = b[i]
  <2>1. c \in Seq(R) /\ Joins(c, a, b) /\ Len(a) \in Nat /\ Len(b) \in Nat
    BY JoinedJoins, SequenceIs
  <2> HIDE DEF c
  <2> QED BY <2>1 DEF Joins
<1>2. \A k \in 1..m + n :
        \/ k \in 1..m /\ c[k] = a[k]
        \/ k - m \in 1..n /\ c[k] = b[k - m]
  BY JoinedElements
<1> HIDE DEF c, m, n
<1>3. /\ IsInjective(c) <=> \A i, j \in 1..m + n : c[i] = c[j] => i = j
      /\ IsInjective(a) <=> \A i, j \in 1..m : a[i] = a[j] => i = j
      /\ IsInjective(b) <=> \A i, j \in 1..n : b[i] = b[j] => i = j
  BY <1>1, InjectiveIs DEF m, n
<1>4. /\ \A i \in 1..m : a[i] \in ToSet(a)
      /\ \A i \in 1..n : b[i] \in ToSet(b)
  BY SequenceIs DEF m, n
<1>5. ASSUME IsInjective(c)
      PROVE  IsInjective(a) /\ IsInjective(b) /\ ToSet(a) \cap ToSet(b) = {}
  <2>1. \A i \in 1..m : i \in 1..m + n
    BY <1>1
  <2>2. \A i \in 1..n : m + i \in 1..m + n
    BY <1>1
  <2>3. IsInjective(a)
    BY <2>1, <1>1, <1>3, <1>5
  <2>4. ASSUME NEW i \in 1..n, NEW j \in 1..n, b[i] = b[j] PROVE i = j
    <3>1. c[m + i] = c[m + j]
      BY <2>4, <1>1
    <3>2. m + i = m + j
      BY <3>1, <2>2, <1>3, <1>5
    <3> QED BY <3>2, <1>1
  <2>5. ASSUME NEW x \in ToSet(a) \cap ToSet(b) PROVE FALSE
    <3>1. PICK i \in 1..m : a[i] = x
      BY SequenceIs DEF m
    <3>2. PICK j \in 1..n : b[j] = x
      BY SequenceIs DEF n
    <3>3. c[i] = c[m + j]
      BY <3>1, <3>2, <1>1
    <3>4. i = m + j
      BY <3>3, <2>1, <2>2, <1>3, <1>5
    <3> QED BY <3>4, <1>1
  <2> QED BY <2>3, <2>4, <2>5, <1>3
<1>6. ASSUME IsInjective(a), IsInjective(b), ToSet(a) \cap ToSet(b) = {}
      PROVE  IsInjective(c)
  <2> SUFFICES ASSUME NEW i \in 1..m + n, NEW j \in 1..m + n, c[i] = c[j] PROVE i = j
    BY <1>3
  <2>1. CASE i \in 1..m /\ c[i] = a[i]
    <3>1. j \in 1..m /\ c[j] = a[j]
      BY <2>1, <1>2, <1>4, <1>6
    <3> QED BY <2>1, <3>1, <1>3, <1>6
  <2>2. CASE i - m \in 1..n /\ c[i] = b[i - m]
    <3>1. j - m \in 1..n /\ c[j] = b[j - m]
      BY <2>2, <1>2, <1>4, <1>6
    <3>2. i - m = j - m
      BY <2>2, <3>1, <1>3, <1>6
    <3> QED BY <3>2, <1>1
  <2> QED BY <2>1, <2>2, <1>2
<1> QED BY <1>5, <1>6 DEF c

\* The place of an element.
LEMMA PlaceOf ==
  ASSUME NEW R, NEW s \in Seq(R), IsInjective(s), NEW k \in 1..Len(s)
  PROVE  IndexOf(s, s[k]) = k
<1>1. \A i \in 1..Len(s) : s[i] = s[k] => i = k
  BY InjectiveIs
<1>2. DOMAIN s = 1..Len(s)
  BY SequenceIs
<1> QED BY <1>1, <1>2 DEF IndexOf

LEMMA SubSequence ==
  ASSUME NEW R, NEW s \in Seq(R), NEW m \in 1..(Len(s) + 1), NEW n \in 0..Len(s)
  PROVE  /\ SubSeq(s, m, n) \in Seq(R)
         /\ Len(SubSeq(s, m, n)) = IF m <= n THEN n - m + 1 ELSE 0
         /\ \A i \in 1..(n - m + 1) : SubSeq(s, m, n)[i] = s[m + i - 1]
<1>1. \A i \in m..n : s[i] \in R
  BY ElementOfSeq
<1>2. m \in Int /\ n \in Int
  BY LenProperties
<1> QED BY <1>1, <1>2, SubSeqProperties

LEMMA InsertAfterIs ==
  ASSUME NEW R, NEW s \in Seq(R), IsInjective(s), NEW k \in 1..Len(s), NEW e \in R,
         NEW x, x = s[k]
  PROVE  /\ InsertAfter(s, x, e) \in Seq(R)
         /\ Len(InsertAfter(s, x, e)) = Len(s) + 1
         /\ \A j \in 1..Len(s) + 1 :
              InsertAfter(s, x, e)[j] = IF j <= k THEN s[j] ELSE IF j = k + 1 THEN e ELSE s[j - 1]
<1> DEFINE l == SubSeq(s, 1, k)
           r == SubSeq(s, k + 1, Len(s))
           t == InsertAfter(s, x, e)
<1>0. Len(s) \in Nat /\ k \in 0..Len(s) /\ 1 \in 1..(Len(s) + 1) /\ k + 1 \in 1..(Len(s) + 1)
      /\ Len(s) \in 0..Len(s) /\ (k + 1) - 1 = k
  BY LenProperties
<1>1. /\ l \in Seq(R) /\ Len(l) = k
      /\ \A j \in 1..k : l[j] = s[j]
  BY <1>0, SubSequence
<1>2. /\ r \in Seq(R) /\ Len(r) = Len(s) - k
      /\ \A j \in 1..(Len(s) - k) : r[j] = s[k + j]
  BY <1>0, SubSequence
<1>3. <<e>> \in Seq(R) /\ Len(<<e>>) = 1 /\ <<e>>[1] = e
  OBVIOUS
<1>4. t = Joined(Joined(l, <<e>>), r)
  BY <1>0, PlaceOf DEF InsertAfter, InsertAt, Joined
<1> HIDE DEF l, r, t
<1> DEFINE u == Joined(l, <<e>>)
<1>5. /\ u \in Seq(R) /\ Len(u) = k + 1
      /\ \A j \in 1..k : u[j] = s[j]
      /\ u[k + 1] = e
  <2>1. /\ u \in Seq(R) /\ Len(u) = Len(l) + 1
        /\ \A j \in 1..Len(l) : u[j] = l[j]
        /\ \A j \in 1..Len(<<e>>) : u[Len(l) + j] = <<e>>[j]
    <3>1. u \in Seq(R) /\ Joins(u, l, <<e>>)
      BY <1>1, <1>3, JoinedJoins
    <3> HIDE DEF u
    <3> QED BY <3>1, <1>3 DEF Joins
  <2> HIDE DEF u
  <2> QED BY <2>1, <1>1, <1>3
<1> HIDE DEF u
<1>6. /\ t \in Seq(R) /\ Len(t) = (k + 1) + (Len(s) - k)
      /\ \A j \in 1..k + 1 : t[j] = u[j]
      /\ \A j \in 1..Len(s) - k : t[(k + 1) + j] = r[j]
  <2>1. /\ Joined(u, r) \in Seq(R) /\ Len(Joined(u, r)) = Len(u) + Len(r)
        /\ \A j \in 1..Len(u) : Joined(u, r)[j] = u[j]
        /\ \A j \in 1..Len(r) : Joined(u, r)[Len(u) + j] = r[j]
    <3>1. Joined(u, r) \in Seq(R) /\ Joins(Joined(u, r), u, r)
      BY <1>5, <1>2, JoinedJoins
    <3> QED BY <3>1 DEF Joins
  <2>2. t = Joined(u, r)
    BY <1>4 DEF u
  <2> QED BY <2>1, <2>2, <1>5, <1>2
<1>7. ASSUME NEW j \in 1..Len(s) + 1
      PROVE  t[j] = IF j <= k THEN s[j] ELSE IF j = k + 1 THEN e ELSE s[j - 1]
  <2>1. CASE j <= k
    BY <2>1, <1>0, <1>5, <1>6
  <2>2. CASE j = k + 1
    BY <2>2, <1>0, <1>5, <1>6
  <2>3. CASE j > k + 1
    <3>1. j - (k + 1) \in 1..Len(s) - k /\ (k + 1) + (j - (k + 1)) = j
          /\ k + (j - (k + 1)) = j - 1 /\ ~ j <= k /\ j # k + 1
      BY <2>3, <1>0
    <3>2. t[j] = r[j - (k + 1)] /\ r[j - (k + 1)] = s[j - 1]
      BY <3>1, <1>6, <1>2
    <3> QED BY <3>1, <3>2
  <2> QED BY <2>1, <2>2, <2>3, <1>0
<1>8. Len(t) = Len(s) + 1
  BY <1>6, <1>0
<1> QED BY <1>6, <1>7, <1>8 DEF t

LEMMA DeleteIs ==
  ASSUME NEW R, NEW s \in Seq(R), IsInjective(s), NEW k \in 1..Len(s), NEW x, x = s[k]
  PROVE  /\ Delete(s, x) \in Seq(R)
         /\ Len(Delete(s, x)) = Len(s) - 1
         /\ \A j \in 1..Len(s) - 1 : Delete(s, x)[j] = IF j < k THEN s[j] ELSE s[j + 1]
<1> DEFINE l == SubSeq(s, 1, k - 1)
           r == SubSeq(s, k + 1, Len(s))
           t == Delete(s, x)
<1>0. Len(s) \in Nat /\ k - 1 \in 0..Len(s) /\ 1 \in 1..(Len(s) + 1) /\ k + 1 \in 1..(Len(s) + 1)
      /\ Len(s) \in 0..Len(s)
  BY LenProperties
<1>1. /\ l \in Seq(R) /\ Len(l) = k - 1
      /\ \A j \in 1..k - 1 : l[j] = s[j]
  BY <1>0, SubSequence
<1>2. /\ r \in Seq(R) /\ Len(r) = Len(s) - k
      /\ \A j \in 1..(Len(s) - k) : r[j] = s[k + j]
  BY <1>0, SubSequence
<1>3. t = Joined(l, r)
  BY PlaceOf DEF Delete, RemoveAt, Joined
<1> HIDE DEF l, r, t
<1>4. /\ t \in Seq(R) /\ Len(t) = Len(l) + Len(r)
      /\ \A j \in 1..Len(l) : t[j] = l[j]
      /\ \A j \in 1..Len(r) : t[Len(l) + j] = r[j]
  <2>1. t \in Seq(R) /\ Joins(t, l, r)
    BY <1>1, <1>2, <1>3, JoinedJoins
  <2> QED BY <2>1 DEF Joins
<1>5. Len(t) = Len(s) - 1
  BY <1>0, <1>1, <1>2, <1>4
<1>6. ASSUME NEW j \in 1..Len(s) - 1 PROVE t[j] = IF j < k THEN s[j] ELSE s[j + 1]
  <2>1. CASE j < k
    BY <2>1, <1>0, <1>1, <1>4
  <2>2. CASE j >= k
    <3>1. j - (k - 1) \in 1..Len(s) - k /\ (k - 1) + (j - (k - 1)) = j
          /\ k + (j - (k - 1)) = j + 1 /\ ~ j < k
      BY <2>2, <1>0
    <3>2. t[j] = r[j - (k - 1)] /\ r[j - (k - 1)] = s[j + 1]
      BY <3>1, <1>1, <1>2, <1>4
    <3> QED BY <3>1, <3>2
  <2> QED BY <2>1, <2>2, <1>0
<1> QED BY <1>4, <1>5, <1>6 DEF t

\* t is s with e after place k, and without place k.
Inserted(t, s, k, e) ==
  /\ Len(t) = Len(s) + 1
  /\ \A j \in 1..Len(s) + 1 : t[j] = IF j <= k THEN s[j] ELSE IF j = k + 1 THEN e ELSE s[j - 1]

LEMMA InsertedIs ==
  ASSUME NEW R, NEW s \in Seq(R), IsInjective(s), NEW k \in 1..Len(s), NEW e \in R,
         NEW x, x = s[k]
  PROVE  InsertAfter(s, x, e) \in Seq(R) /\ Inserted(InsertAfter(s, x, e), s, k, e)
BY InsertAfterIs DEF Inserted

Deleted(t, s, k) ==
  /\ Len(t) = Len(s) - 1
  /\ \A j \in 1..Len(s) - 1 : t[j] = IF j < k THEN s[j] ELSE s[j + 1]

LEMMA DeletedIs ==
  ASSUME NEW R, NEW s \in Seq(R), IsInjective(s), NEW k \in 1..Len(s), NEW x, x = s[k]
  PROVE  Delete(s, x) \in Seq(R) /\ Deleted(Delete(s, x), s, k)
BY DeleteIs DEF Deleted

\* An edit of a list that is two lists joined is the edit of one of them.
LEMMA InsertIntoJoined ==
  ASSUME NEW R, NEW a \in Seq(R), NEW b \in Seq(R), IsInjective(Joined(a, b)),
         NEW x \in R, NEW e \in R
  PROVE  /\ x \in ToSet(a) =>
              InsertAfter(Joined(a, b), x, e) = Joined(InsertAfter(a, x, e), b)
         /\ x \in ToSet(b) =>
              InsertAfter(Joined(a, b), x, e) = Joined(a, InsertAfter(b, x, e))
<1> DEFINE c == Joined(a, b)
           m == Len(a)
           n == Len(b)
<1>1. /\ c \in Seq(R) /\ Len(c) = m + n /\ m \in Nat /\ n \in Nat
      /\ \A i \in 1..m : c[i] = a[i]
      /\ \A i \in 1..n : c[m + i] = b[i]
  <2>1. c \in Seq(R) /\ Joins(c, a, b) /\ Len(a) \in Nat /\ Len(b) \in Nat
    BY JoinedJoins, SequenceIs
  <2> HIDE DEF c
  <2> QED BY <2>1 DEF Joins
<1>2. IsInjective(a) /\ IsInjective(b)
  BY JoinedInjective
<1>c. IsInjective(c)
  OBVIOUS
<1> HIDE DEF c
<1>3. ASSUME x \in ToSet(a) PROVE InsertAfter(c, x, e) = Joined(InsertAfter(a, x, e), b)
  <2>1. PICK k \in 1..m : a[k] = x
    BY <1>3, SequenceIs
  <2>2. k \in 1..m + n /\ c[k] = x
    BY <2>1, <1>1
  <2> DEFINE u == InsertAfter(c, x, e)
             v == InsertAfter(a, x, e)
             w == Joined(v, b)
  <2>3. /\ u \in Seq(R) /\ Len(u) = (m + n) + 1
        /\ \A j \in 1..(m + n) + 1 : u[j] = IF j <= k THEN c[j] ELSE IF j = k + 1 THEN e ELSE c[j - 1]
    <3>1. u \in Seq(R) /\ Inserted(u, c, k, e) /\ Len(c) = m + n
      BY <1>1, <1>c, <2>2, InsertedIs
    <3> HIDE DEF u
    <3> QED BY <3>1 DEF Inserted
  <2>4. /\ v \in Seq(R) /\ Len(v) = m + 1
        /\ \A j \in 1..m + 1 : v[j] = IF j <= k THEN a[j] ELSE IF j = k + 1 THEN e ELSE a[j - 1]
    <3>1. v \in Seq(R) /\ Inserted(v, a, k, e)
      BY <1>2, <2>1, InsertedIs
    <3> HIDE DEF v
    <3> QED BY <3>1 DEF Inserted
  <2> HIDE DEF u, v
  <2>5. /\ w \in Seq(R) /\ Len(w) = (m + 1) + n
        /\ \A j \in 1..m + 1 : w[j] = v[j]
        /\ \A j \in 1..n : w[(m + 1) + j] = b[j]
    <3>1. /\ w \in Seq(R) /\ Len(w) = Len(v) + Len(b)
          /\ \A i \in 1..Len(v) : w[i] = v[i]
          /\ \A i \in 1..Len(b) : w[Len(v) + i] = b[i]
      <4>1. w \in Seq(R) /\ Joins(w, v, b)
        BY <2>4, JoinedJoins
      <4> HIDE DEF w
      <4> QED BY <4>1 DEF Joins
    <3> HIDE DEF w
    <3> QED BY <3>1, <2>4
  <2> HIDE DEF w, m, n
  <2>6. ASSUME NEW j \in 1..(m + n) + 1 PROVE u[j] = w[j]
    <3>1. CASE j <= k
      <4>1. j \in 1..m /\ j \in 1..m + 1
        BY <3>1, <1>1, <2>1
      <4> QED BY <4>1, <3>1, <1>1, <2>3, <2>4, <2>5
    <3>2. CASE j = k + 1
      <4>1. j \in 1..m + 1 /\ ~ j <= k
        BY <3>2, <1>1, <2>1
      <4> QED BY <4>1, <3>2, <2>3, <2>4, <2>5
    <3>3. CASE j > k + 1 /\ j <= m + 1
      <4>1. j \in 1..m + 1 /\ ~ j <= k /\ j # k + 1 /\ j - 1 \in 1..m
        BY <3>3, <1>1, <2>1
      <4>2. u[j] = c[j - 1] /\ w[j] = a[j - 1] /\ c[j - 1] = a[j - 1]
        BY <4>1, <1>1, <2>3, <2>4, <2>5
      <4> QED BY <4>2
    <3>4. CASE j > m + 1
      <4>1. ~ j <= k /\ j # k + 1 /\ j - (m + 1) \in 1..n /\ (m + 1) + (j - (m + 1)) = j
            /\ m + (j - (m + 1)) = j - 1
        BY <3>4, <1>1, <2>1
      <4>2. u[j] = c[j - 1] /\ w[j] = b[j - (m + 1)] /\ c[j - 1] = b[j - (m + 1)]
        BY <4>1, <1>1, <2>3, <2>5
      <4> QED BY <4>2
    <3> QED BY <3>1, <3>2, <3>3, <3>4, <1>1, <2>1
  <2>7. Len(u) = Len(w)
    BY <2>3, <2>5, <1>1
  <2>8. u = w
    BY <2>3, <2>5, <2>6, <2>7, SameSequence
  <2> QED BY <2>8 DEF u, v, w
<1>4. ASSUME x \in ToSet(b) PROVE InsertAfter(c, x, e) = Joined(a, InsertAfter(b, x, e))
  <2>1. PICK k \in 1..n : b[k] = x
    BY <1>4, SequenceIs
  <2>2. m + k \in 1..m + n /\ c[m + k] = x
    BY <2>1, <1>1
  <2> DEFINE u == InsertAfter(c, x, e)
             v == InsertAfter(b, x, e)
             w == Joined(a, v)
  <2>3. /\ u \in Seq(R) /\ Len(u) = (m + n) + 1
        /\ \A j \in 1..(m + n) + 1 :
             u[j] = IF j <= m + k THEN c[j] ELSE IF j = (m + k) + 1 THEN e ELSE c[j - 1]
    <3>1. u \in Seq(R) /\ Inserted(u, c, m + k, e) /\ Len(c) = m + n
      BY <1>1, <1>c, <2>2, InsertedIs
    <3> HIDE DEF u
    <3> QED BY <3>1 DEF Inserted
  <2>4. /\ v \in Seq(R) /\ Len(v) = n + 1
        /\ \A j \in 1..n + 1 : v[j] = IF j <= k THEN b[j] ELSE IF j = k + 1 THEN e ELSE b[j - 1]
    <3>1. v \in Seq(R) /\ Inserted(v, b, k, e)
      BY <1>2, <2>1, InsertedIs
    <3> HIDE DEF v
    <3> QED BY <3>1 DEF Inserted
  <2> HIDE DEF u, v
  <2>5. /\ w \in Seq(R) /\ Len(w) = m + (n + 1)
        /\ \A j \in 1..m : w[j] = a[j]
        /\ \A j \in 1..n + 1 : w[m + j] = v[j]
    <3>1. /\ w \in Seq(R) /\ Len(w) = Len(a) + Len(v)
          /\ \A i \in 1..Len(a) : w[i] = a[i]
          /\ \A i \in 1..Len(v) : w[Len(a) + i] = v[i]
      <4>1. w \in Seq(R) /\ Joins(w, a, v)
        BY <2>4, JoinedJoins
      <4> HIDE DEF w
      <4> QED BY <4>1 DEF Joins
    <3> HIDE DEF w
    <3> QED BY <3>1, <2>4
  <2> HIDE DEF w, m, n
  <2>6. ASSUME NEW j \in 1..(m + n) + 1 PROVE u[j] = w[j]
    <3>1. CASE j <= m
      <4>1. j \in 1..m /\ j <= m + k
        BY <3>1, <1>1, <2>1
      <4> QED BY <4>1, <1>1, <2>3, <2>5
    <3>2. CASE j > m
      <4> DEFINE i == j - m
      <4>1. i \in 1..n + 1 /\ m + i = j
        BY <3>2, <1>1
      <4> HIDE DEF i
      <4>2. w[j] = v[i]
        BY <4>1, <2>5
      <4>3. CASE i <= k
        <5>1. j <= m + k /\ i \in 1..n
          BY <4>1, <4>3, <2>1, <1>1
        <5>2. u[j] = c[m + i] /\ c[m + i] = b[i] /\ v[i] = b[i]
          BY <5>1, <4>1, <4>3, <2>3, <2>4, <1>1
        <5> QED BY <5>2, <4>2
      <4>4. CASE i = k + 1
        <5>1. j = (m + k) + 1 /\ ~ j <= m + k /\ ~ i <= k
          BY <4>1, <4>4, <2>1, <1>1
        <5>2. u[j] = e /\ v[i] = e
          BY <5>1, <4>1, <4>4, <2>3, <2>4
        <5> QED BY <5>2, <4>2
      <4>5. CASE i > k + 1
        <5>1. ~ j <= m + k /\ j # (m + k) + 1 /\ ~ i <= k /\ i # k + 1
              /\ i - 1 \in 1..n /\ m + (i - 1) = j - 1
          BY <4>1, <4>5, <2>1, <1>1
        <5>2. u[j] = c[j - 1] /\ v[i] = b[i - 1] /\ c[m + (i - 1)] = b[i - 1]
          BY <5>1, <4>1, <2>3, <2>4, <1>1
        <5> QED BY <5>1, <5>2, <4>2
      <4> QED BY <4>1, <4>3, <4>4, <4>5, <2>1, <1>1
    <3> QED BY <3>1, <3>2, <1>1
  <2>7. Len(u) = Len(w)
    BY <2>3, <2>5, <1>1
  <2>8. u = w
    BY <2>3, <2>5, <2>6, <2>7, SameSequence
  <2> QED BY <2>8 DEF u, v, w
<1> QED BY <1>3, <1>4 DEF c

LEMMA DeleteFromJoined ==
  ASSUME NEW R, NEW a \in Seq(R), NEW b \in Seq(R), IsInjective(Joined(a, b)), NEW x \in R
  PROVE  /\ x \in ToSet(a) => Delete(Joined(a, b), x) = Joined(Delete(a, x), b)
         /\ x \in ToSet(b) => Delete(Joined(a, b), x) = Joined(a, Delete(b, x))
<1> DEFINE c == Joined(a, b)
           m == Len(a)
           n == Len(b)
<1>1. /\ c \in Seq(R) /\ Len(c) = m + n /\ m \in Nat /\ n \in Nat
      /\ \A i \in 1..m : c[i] = a[i]
      /\ \A i \in 1..n : c[m + i] = b[i]
  <2>1. c \in Seq(R) /\ Joins(c, a, b) /\ Len(a) \in Nat /\ Len(b) \in Nat
    BY JoinedJoins, SequenceIs
  <2> HIDE DEF c
  <2> QED BY <2>1 DEF Joins
<1>2. IsInjective(a) /\ IsInjective(b)
  BY JoinedInjective
<1>c. IsInjective(c)
  OBVIOUS
<1> HIDE DEF c
<1>3. ASSUME x \in ToSet(a) PROVE Delete(c, x) = Joined(Delete(a, x), b)
  <2>1. PICK k \in 1..m : a[k] = x
    BY <1>3, SequenceIs
  <2>2. k \in 1..m + n /\ c[k] = x
    BY <2>1, <1>1
  <2> DEFINE u == Delete(c, x)
             v == Delete(a, x)
             w == Joined(v, b)
  <2>3. /\ u \in Seq(R) /\ Len(u) = (m + n) - 1
        /\ \A j \in 1..(m + n) - 1 : u[j] = IF j < k THEN c[j] ELSE c[j + 1]
    <3>1. u \in Seq(R) /\ Deleted(u, c, k) /\ Len(c) = m + n
      BY <1>1, <1>c, <2>2, DeletedIs
    <3> HIDE DEF u
    <3> QED BY <3>1 DEF Deleted
  <2>4. /\ v \in Seq(R) /\ Len(v) = m - 1
        /\ \A j \in 1..m - 1 : v[j] = IF j < k THEN a[j] ELSE a[j + 1]
    <3>1. v \in Seq(R) /\ Deleted(v, a, k)
      BY <1>2, <2>1, DeletedIs
    <3> HIDE DEF v
    <3> QED BY <3>1 DEF Deleted
  <2> HIDE DEF u, v
  <2>5. /\ w \in Seq(R) /\ Len(w) = (m - 1) + n
        /\ \A j \in 1..m - 1 : w[j] = v[j]
        /\ \A j \in 1..n : w[(m - 1) + j] = b[j]
    <3>1. /\ w \in Seq(R) /\ Len(w) = Len(v) + Len(b)
          /\ \A i \in 1..Len(v) : w[i] = v[i]
          /\ \A i \in 1..Len(b) : w[Len(v) + i] = b[i]
      <4>1. w \in Seq(R) /\ Joins(w, v, b)
        BY <2>4, JoinedJoins
      <4> HIDE DEF w
      <4> QED BY <4>1 DEF Joins
    <3> HIDE DEF w
    <3> QED BY <3>1, <2>4
  <2> HIDE DEF w, m, n
  <2>6. ASSUME NEW j \in 1..(m + n) - 1 PROVE u[j] = w[j]
    <3>1. CASE j < k
      <4>1. j \in 1..m /\ j \in 1..m - 1
        BY <3>1, <1>1, <2>1
      <4> QED BY <4>1, <3>1, <1>1, <2>3, <2>4, <2>5
    <3>2. CASE j >= k /\ j <= m - 1
      <4>1. j \in 1..m - 1 /\ ~ j < k /\ j + 1 \in 1..m
        BY <3>2, <1>1, <2>1
      <4>2. u[j] = c[j + 1] /\ w[j] = a[j + 1] /\ c[j + 1] = a[j + 1]
        BY <4>1, <1>1, <2>3, <2>4, <2>5
      <4> QED BY <4>2
    <3>3. CASE j > m - 1
      <4>1. ~ j < k /\ j - (m - 1) \in 1..n /\ (m - 1) + (j - (m - 1)) = j
            /\ m + (j - (m - 1)) = j + 1
        BY <3>3, <1>1, <2>1
      <4>2. u[j] = c[j + 1] /\ w[j] = b[j - (m - 1)] /\ c[j + 1] = b[j - (m - 1)]
        BY <4>1, <1>1, <2>3, <2>5
      <4> QED BY <4>2
    <3> QED BY <3>1, <3>2, <3>3, <1>1, <2>1
  <2>7. Len(u) = Len(w)
    BY <2>3, <2>5, <1>1
  <2>8. u = w
    BY <2>3, <2>5, <2>6, <2>7, SameSequence
  <2> QED BY <2>8 DEF u, v, w
<1>4. ASSUME x \in ToSet(b) PROVE Delete(c, x) = Joined(a, Delete(b, x))
  <2>1. PICK k \in 1..n : b[k] = x
    BY <1>4, SequenceIs
  <2>2. m + k \in 1..m + n /\ c[m + k] = x
    BY <2>1, <1>1
  <2> DEFINE u == Delete(c, x)
             v == Delete(b, x)
             w == Joined(a, v)
  <2>3. /\ u \in Seq(R) /\ Len(u) = (m + n) - 1
        /\ \A j \in 1..(m + n) - 1 : u[j] = IF j < m + k THEN c[j] ELSE c[j + 1]
    <3>1. u \in Seq(R) /\ Deleted(u, c, m + k) /\ Len(c) = m + n
      BY <1>1, <1>c, <2>2, DeletedIs
    <3> HIDE DEF u
    <3> QED BY <3>1 DEF Deleted
  <2>4. /\ v \in Seq(R) /\ Len(v) = n - 1
        /\ \A j \in 1..n - 1 : v[j] = IF j < k THEN b[j] ELSE b[j + 1]
    <3>1. v \in Seq(R) /\ Deleted(v, b, k)
      BY <1>2, <2>1, DeletedIs
    <3> HIDE DEF v
    <3> QED BY <3>1 DEF Deleted
  <2> HIDE DEF u, v
  <2>5. /\ w \in Seq(R) /\ Len(w) = m + (n - 1)
        /\ \A j \in 1..m : w[j] = a[j]
        /\ \A j \in 1..n - 1 : w[m + j] = v[j]
    <3>1. /\ w \in Seq(R) /\ Len(w) = Len(a) + Len(v)
          /\ \A i \in 1..Len(a) : w[i] = a[i]
          /\ \A i \in 1..Len(v) : w[Len(a) + i] = v[i]
      <4>1. w \in Seq(R) /\ Joins(w, a, v)
        BY <2>4, JoinedJoins
      <4> HIDE DEF w
      <4> QED BY <4>1 DEF Joins
    <3> HIDE DEF w
    <3> QED BY <3>1, <2>4
  <2> HIDE DEF w, m, n
  <2>6. ASSUME NEW j \in 1..(m + n) - 1 PROVE u[j] = w[j]
    <3>1. CASE j <= m
      <4>1. j \in 1..m /\ j < m + k
        BY <3>1, <1>1, <2>1
      <4> QED BY <4>1, <1>1, <2>3, <2>5
    <3>2. CASE j > m
      <4> DEFINE i == j - m
      <4>1. i \in 1..n - 1 /\ m + i = j
        BY <3>2, <1>1
      <4> HIDE DEF i
      <4>2. w[j] = v[i]
        BY <4>1, <2>5
      <4>3. CASE i < k
        <5>1. j < m + k /\ i \in 1..n
          BY <4>1, <4>3, <2>1, <1>1
        <5>2. u[j] = c[m + i] /\ c[m + i] = b[i] /\ v[i] = b[i]
          BY <5>1, <4>1, <4>3, <2>3, <2>4, <1>1
        <5> QED BY <5>2, <4>2
      <4>4. CASE i >= k
        <5>1. ~ j < m + k /\ ~ i < k /\ i + 1 \in 1..n /\ m + (i + 1) = j + 1
          BY <4>1, <4>4, <2>1, <1>1
        <5>2. u[j] = c[j + 1] /\ v[i] = b[i + 1] /\ c[m + (i + 1)] = b[i + 1]
          BY <5>1, <4>1, <2>3, <2>4, <1>1
        <5> QED BY <5>1, <5>2, <4>2
      <4> QED BY <4>1, <4>3, <4>4, <2>1, <1>1
    <3> QED BY <3>1, <3>2, <1>1
  <2>7. Len(u) = Len(w)
    BY <2>3, <2>5, <1>1
  <2>8. u = w
    BY <2>3, <2>5, <2>6, <2>7, SameSequence
  <2> QED BY <2>8 DEF u, v, w
<1> QED BY <1>3, <1>4 DEF c

-----------------------------------------------------------------------------
(* The leaves of a tree.                                                   *)

LEMMA JoinedLeaves ==
  ASSUME NEW t \in Trees
  PROVE  /\ IsLeaf(t) => /\ LeavesOf[t] = <<t.pane>> /\ t.pane \in Panes
                         /\ t = Leaf(t.pane)
         /\ ~ IsLeaf(t) =>
              /\ t.first \in Trees /\ t.second \in Trees
              /\ LeavesOf[t.first] \in Seq(Panes) /\ LeavesOf[t.second] \in Seq(Panes)
              /\ LeavesOf[t] = Joined(LeavesOf[t.first], LeavesOf[t.second])
         /\ LeavesOf[t] \in Seq(Panes)
BY LeavesOfIs, TreeIs

LEMMA OneLeaf ==
  ASSUME NEW p
  PROVE  /\ Len(<<p>>) = 1 /\ <<p>>[1] = p /\ ToSet(<<p>>) = {p} /\ IsInjective(<<p>>)
         /\ \A e : InsertAfter(<<p>>, p, e) = <<p, e>>
<1>1. Len(<<p>>) = 1 /\ <<p>>[1] = p /\ DOMAIN <<p>> = {1}
  OBVIOUS
<1>2. ToSet(<<p>>) = {p} /\ IsInjective(<<p>>)
  BY <1>1 DEF ToSet, IsInjective
<1>3. ASSUME NEW e PROVE InsertAfter(<<p>>, p, e) = <<p, e>>
  <2>1. <<p>> \in Seq({p, e}) /\ 1 \in 1..Len(<<p>>)
    OBVIOUS
  <2>2. /\ InsertAfter(<<p>>, p, e) \in Seq({p, e})
        /\ Len(InsertAfter(<<p>>, p, e)) = Len(<<p>>) + 1
        /\ \A j \in 1..Len(<<p>>) + 1 :
             InsertAfter(<<p>>, p, e)[j] =
               IF j <= 1 THEN <<p>>[j] ELSE IF j = 1 + 1 THEN e ELSE <<p>>[j - 1]
    <3>1. /\ InsertAfter(<<p>>, p, e) \in Seq({p, e})
          /\ Inserted(InsertAfter(<<p>>, p, e), <<p>>, 1, e)
      BY <2>1, <1>1, <1>2, InsertedIs
    <3> QED BY <3>1 DEF Inserted
  <2> QED BY <2>2, <1>1
<1> QED BY <1>1, <1>2, <1>3

\* A tree is lower than it has leaves.
LEMMA LowerThanLeaves ==
  ASSUME NEW t \in Trees
  PROVE  /\ Len(LeavesOf[t]) - 1 \in Nat
         /\ t \in TreesUpTo[Len(LeavesOf[t]) - 1]
<1> DEFINE S == {s \in Trees : /\ Len(LeavesOf[s]) - 1 \in Nat
                               /\ s \in TreesUpTo[Len(LeavesOf[s]) - 1]}
<1>1. ASSUME NEW s \in Trees, IsLeaf(s) PROVE s \in S
  <2>1. LeavesOf[s] = <<s.pane>> /\ s = Leaf(s.pane) /\ s.pane \in Panes
    BY <1>1, JoinedLeaves
  <2>2. Len(LeavesOf[s]) - 1 = 0
    BY <2>1
  <2>3. s \in TreesUpTo[0]
    BY <2>1, LeafIsTree
  <2>4. 0 \in Nat
    OBVIOUS
  <2> HIDE DEF Trees
  <2> QED BY <2>2, <2>3, <2>4, Zenon
<1>2. ASSUME NEW s \in Trees, ~ IsLeaf(s), s.first \in S, s.second \in S PROVE s \in S
  <2> DEFINE a == Len(LeavesOf[s.first])
             b == Len(LeavesOf[s.second])
  <2>1. /\ a - 1 \in Nat /\ s.first \in TreesUpTo[a - 1]
        /\ b - 1 \in Nat /\ s.second \in TreesUpTo[b - 1]
    BY <1>2
  <2>2. Len(LeavesOf[s]) = a + b
    <3>1. LeavesOf[s.first] \in Seq(Panes) /\ LeavesOf[s.second] \in Seq(Panes)
          /\ LeavesOf[s] = Joined(LeavesOf[s.first], LeavesOf[s.second])
      BY <1>2, JoinedLeaves
    <3>2. Joins(Joined(LeavesOf[s.first], LeavesOf[s.second]), LeavesOf[s.first], LeavesOf[s.second])
      BY <3>1, JoinedJoins
    <3> QED BY <3>1, <3>2 DEF Joins
  <2> HIDE DEF a, b
  <2>3. a \in Int /\ b \in Int
    BY SequenceIs, JoinedLeaves, <1>2 DEF a, b
  <2> DEFINE n == a + b - 2
  <2>4. n \in Nat /\ a - 1 <= n /\ b - 1 <= n /\ n + 1 = Len(LeavesOf[s]) - 1
    BY <2>1, <2>2, <2>3
  <2> HIDE DEF n
  <2>5. s.first \in TreesUpTo[n] /\ s.second \in TreesUpTo[n]
    BY <2>1, <2>4, HeightsGrow
  <2>6. s.dir \in Dirs /\ s.ratio \in Ratios /\ s = Split(s.dir, s.ratio, s.first, s.second)
    BY <1>2, TreeIs
  <2>7. s \in Higher(TreesUpTo[n])
    BY <2>5, <2>6, HigherIs
  <2>8. s \in TreesUpTo[n + 1] /\ n + 1 \in Nat
    <3>1. TreesUpTo[n + 1] = Higher(TreesUpTo[n])
      BY <2>4, TreeHeights
    <3> QED BY <3>1, <2>4, <2>7
  <2> QED BY <2>8, <2>4
<1> HIDE DEF S
<1>3. Trees \subseteq S
  BY <1>1, <1>2, FromTheLeaves
<1> QED BY <1>3 DEF S

\* The two sides of a split are lower than it, and a split of two lower trees
\* is a tree.
LEMMA SidesAreLower ==
  ASSUME NEW n \in Nat, NEW t \in TreesUpTo[n], ~ IsLeaf(t)
  PROVE  /\ n - 1 \in Nat /\ t.first \in TreesUpTo[n - 1] /\ t.second \in TreesUpTo[n - 1]
         /\ t.first \in TreesUpTo[n] /\ t.second \in TreesUpTo[n]
         /\ t.dir \in Dirs /\ t.ratio \in Ratios
<1>1. n # 0
  <2>1. \A s \in Leaves : IsLeaf(s)
    BY DEF Leaves, IsLeaf
  <2>2. TreesUpTo[0] = Leaves
    BY TreeHeights
  <2> QED BY <2>1, <2>2
<1>2. n - 1 \in Nat /\ (n - 1) + 1 = n
  BY <1>1
<1>3. /\ t.dir \in Dirs /\ t.ratio \in Ratios
      /\ t.first \in TreesUpTo[n - 1] /\ t.second \in TreesUpTo[n - 1]
  BY <1>2, TreeParts
<1> QED BY <1>2, <1>3, HeightsGrow

LEMMA SplitIsHigher ==
  ASSUME NEW n \in Nat, NEW a \in TreesUpTo[n], NEW b \in TreesUpTo[n],
         NEW d \in Dirs, NEW r \in Ratios
  PROVE  Split(d, r, a, b) \in TreesUpTo[n + 1]
BY TreeHeights, HigherIs

LEMMA LowEnough ==
  ASSUME NEW n \in Nat, n <= MaxPanes
  PROVE  TreesUpTo[n] \subseteq Trees
BY HeightsGrow, MaxPanesIs DEF Trees

\* A tree put together of lower ones.
LEMMA SplitLeaves ==
  ASSUME NEW d, NEW r, NEW a, NEW b, Split(d, r, a, b) \in Trees
  PROVE  /\ a \in Trees /\ b \in Trees
         /\ LeavesOf[Split(d, r, a, b)] = Joined(LeavesOf[a], LeavesOf[b])
         /\ ShapeOf[Split(d, r, a, b)] = Shaped(d, ShapeOf[a], ShapeOf[b])
<1>1. /\ ~ IsLeaf(Split(d, r, a, b))
      /\ Split(d, r, a, b).dir = d
      /\ Split(d, r, a, b).first = a /\ Split(d, r, a, b).second = b
  BY SplitIs
<1>2. a \in Trees /\ b \in Trees
  BY <1>1, TreeIs
<1> QED BY <1>1, <1>2, LeavesOfIs, ShapeOfIs

LEMMA LeafLeaves ==
  ASSUME NEW p \in Panes
  PROVE  /\ Leaf(p) \in Trees /\ LeavesOf[Leaf(p)] = <<p>>
         /\ ShapeOf[Leaf(p)] = <<"leaf">>
<1>1. Leaf(p) \in Trees
  BY LeafIsTree, MaxPanesIs DEF Trees
<1> QED BY <1>1, LeafIs, LeavesOfIs, ShapeOfIs

-----------------------------------------------------------------------------
(* Leaves replaced.                                                        *)

\* With trees of height k in the place of its leaves, a tree is k higher.
LEMMA ReplantedHeight ==
  ASSUME NEW k \in Nat, NEW sub \in [Panes -> TreesUpTo[k]], NEW t \in Trees,
         NEW n \in Nat, t \in TreesUpTo[n]
  PROVE  Replant(t, sub) \in TreesUpTo[n + k]
<1> DEFINE S == {s \in Trees : \A m \in Nat : s \in TreesUpTo[m] =>
                                  Replant(s, sub) \in TreesUpTo[m + k]}
<1>0. sub \in [Panes -> AnyTree]
  BY DEF AnyTree
<1>1. ASSUME NEW s \in Trees, IsLeaf(s) PROVE s \in S
  <2>1. Replant(s, sub) = sub[s.pane] /\ s.pane \in Panes
    BY <1>0, <1>1, ReplantIs, TreeIs
  <2>2. ASSUME NEW m \in Nat PROVE Replant(s, sub) \in TreesUpTo[m + k]
    BY <2>1, HeightsGrow
  <2> QED BY <2>2
<1>2. ASSUME NEW s \in Trees, ~ IsLeaf(s), s.first \in S, s.second \in S PROVE s \in S
  <2> SUFFICES ASSUME NEW m \in Nat, s \in TreesUpTo[m] PROVE Replant(s, sub) \in TreesUpTo[m + k]
    OBVIOUS
  <2>1. /\ m - 1 \in Nat /\ s.first \in TreesUpTo[m - 1] /\ s.second \in TreesUpTo[m - 1]
        /\ s.dir \in Dirs /\ s.ratio \in Ratios
    BY <1>2, SidesAreLower
  <2>2. /\ Replant(s.first, sub) \in TreesUpTo[(m - 1) + k]
        /\ Replant(s.second, sub) \in TreesUpTo[(m - 1) + k]
    BY <2>1, <1>2
  <2>3. (m - 1) + k \in Nat /\ ((m - 1) + k) + 1 = m + k
    BY <2>1
  <2>4. Replant(s, sub) = Split(s.dir, s.ratio, Replant(s.first, sub), Replant(s.second, sub))
    BY <1>0, <1>2, ReplantIs
  <2>5. Replant(s, sub) \in TreesUpTo[((m - 1) + k) + 1]
    BY <2>1, <2>2, <2>3, <2>4, SplitIsHigher
  <2> QED BY <2>3, <2>5
<1> HIDE DEF S
<1>3. Trees \subseteq S
  BY <1>1, <1>2, FromTheLeaves
<1> QED BY <1>3 DEF S

\* Leaves renamed: the same tree, with other names.
Renamed(s, name) == [i \in DOMAIN s |-> name[s[i]]]

LEMMA RenamedJoined ==
  ASSUME NEW R, NEW Q, NEW name \in [R -> Q], NEW a \in Seq(R), NEW b \in Seq(R)
  PROVE  /\ Renamed(a, name) \in Seq(Q) /\ Len(Renamed(a, name)) = Len(a)
         /\ \A i \in 1..Len(a) : Renamed(a, name)[i] = name[a[i]]
         /\ Renamed(Joined(a, b), name) = Joined(Renamed(a, name), Renamed(b, name))
<1> DEFINE u == Renamed(a, name)
           v == Renamed(b, name)
           c == Joined(a, b)
           w == Renamed(c, name)
           z == Joined(u, v)
<1>0. ASSUME NEW s \in Seq(R)
      PROVE  /\ Renamed(s, name) \in Seq(Q) /\ Len(Renamed(s, name)) = Len(s)
             /\ \A i \in 1..Len(s) : Renamed(s, name)[i] = name[s[i]]
  <2>1. DOMAIN s = 1..Len(s) /\ Len(s) \in Nat /\ \A i \in 1..Len(s) : name[s[i]] \in Q
    BY SequenceIs
  <2>2. Renamed(s, name) = [i \in 1..Len(s) |-> name[s[i]]]
    BY <2>1 DEF Renamed
  <2> QED BY <2>1, <2>2
<1>1. /\ c \in Seq(R) /\ Len(c) = Len(a) + Len(b)
      /\ \A i \in 1..Len(a) : c[i] = a[i]
      /\ \A i \in 1..Len(b) : c[Len(a) + i] = b[i]
  <2>1. c \in Seq(R) /\ Joins(c, a, b)
    BY JoinedJoins
  <2> HIDE DEF c
  <2> QED BY <2>1 DEF Joins
<1>k. \A k \in 1..Len(a) + Len(b) :
        \/ k \in 1..Len(a) /\ c[k] = a[k]
        \/ k - Len(a) \in 1..Len(b) /\ c[k] = b[k - Len(a)]
  BY JoinedElements
<1> HIDE DEF c
<1>2. /\ w \in Seq(Q) /\ Len(w) = Len(c) /\ \A i \in 1..Len(c) : w[i] = name[c[i]]
      /\ u \in Seq(Q) /\ Len(u) = Len(a) /\ \A i \in 1..Len(a) : u[i] = name[a[i]]
      /\ v \in Seq(Q) /\ Len(v) = Len(b) /\ \A i \in 1..Len(b) : v[i] = name[b[i]]
  BY <1>0, <1>1
<1> HIDE DEF u, v, w
<1>3. /\ z \in Seq(Q) /\ Len(z) = Len(u) + Len(v)
      /\ \A i \in 1..Len(u) : z[i] = u[i]
      /\ \A i \in 1..Len(v) : z[Len(u) + i] = v[i]
  <2>1. z \in Seq(Q) /\ Joins(z, u, v)
    BY <1>2, JoinedJoins
  <2> HIDE DEF z
  <2> QED BY <2>1 DEF Joins
<1> HIDE DEF z
<1>4. ASSUME NEW k \in 1..Len(a) + Len(b) PROVE w[k] = z[k]
  <2>1. CASE k \in 1..Len(a) /\ c[k] = a[k]
    BY <2>1, <1>1, <1>2, <1>3
  <2>2. CASE k - Len(a) \in 1..Len(b) /\ c[k] = b[k - Len(a)]
    <3>1. Len(a) + (k - Len(a)) = k
      BY SequenceIs
    <3>2. z[k] = v[k - Len(a)] /\ v[k - Len(a)] = name[b[k - Len(a)]]
      BY <3>1, <2>2, <1>2, <1>3
    <3> QED BY <3>2, <2>2, <1>1, <1>2
  <2> QED BY <2>1, <2>2, <1>k
<1>5. w = z
  <2>1. Len(w) = Len(z) /\ Len(w) = Len(a) + Len(b)
    BY <1>1, <1>2, <1>3
  <2> QED BY <2>1, <1>2, <1>3, <1>4, SameSequence
<1> QED BY <1>2, <1>5 DEF u, v, w, z, c

LEMMA RenamedTree ==
  ASSUME NEW name \in [Panes -> Panes], NEW t \in Trees, NEW n \in Nat, t \in TreesUpTo[n],
         n <= MaxPanes
  PROVE  LET new == Replant(t, [p \in Panes |-> Leaf(name[p])])
         IN  /\ new \in TreesUpTo[n] /\ new \in Trees
             /\ LeavesOf[new] = Renamed(LeavesOf[t], name)
             /\ ShapeOf[new] = ShapeOf[t]
<1> DEFINE sub == [p \in Panes |-> Leaf(name[p])]
           S == {s \in Trees : /\ Replant(s, sub) \in Trees
                               /\ LeavesOf[Replant(s, sub)] = Renamed(LeavesOf[s], name)
                               /\ ShapeOf[Replant(s, sub)] = ShapeOf[s]}
<1>0. sub \in [Panes -> TreesUpTo[0]] /\ sub \in [Panes -> AnyTree]
  <2>1. \A p \in Panes : Leaf(name[p]) \in TreesUpTo[0]
    BY LeafIsTree
  <2> QED BY <2>1 DEF AnyTree
<1>s. \A p \in Panes : sub[p] = Leaf(name[p])
  OBVIOUS
<1> HIDE DEF sub
<1>a. ASSUME NEW s \in Trees PROVE Replant(s, sub) \in Trees
  <2>1. Replant(s, sub) \in TreesUpTo[MaxPanes + 0]
    BY <1>0, ReplantedHeight, MaxPanesIs DEF Trees
  <2> QED BY <2>1, MaxPanesIs DEF Trees
<1>1. ASSUME NEW s \in Trees, IsLeaf(s) PROVE s \in S
  <2>1. Replant(s, sub) = Leaf(name[s.pane]) /\ s.pane \in Panes /\ name[s.pane] \in Panes
        /\ s = Leaf(s.pane)
    BY <1>0, <1>s, <1>1, ReplantIs, TreeIs
  <2>2. /\ LeavesOf[Replant(s, sub)] = <<name[s.pane]>> /\ LeavesOf[s] = <<s.pane>>
        /\ ShapeOf[Replant(s, sub)] = <<"leaf">> /\ ShapeOf[s] = <<"leaf">>
    BY <2>1, LeafLeaves
  <2>3. Renamed(<<s.pane>>, name) = <<name[s.pane]>>
    BY DEF Renamed
  <2> QED BY <2>2, <2>3, <1>a
<1>2. ASSUME NEW s \in Trees, ~ IsLeaf(s), s.first \in S, s.second \in S PROVE s \in S
  <2> DEFINE one == Replant(s.first, sub)
             two == Replant(s.second, sub)
  <2>1. Replant(s, sub) = Split(s.dir, s.ratio, one, two)
    BY <1>0, <1>2, ReplantIs
  <2>2. /\ LeavesOf[one] = Renamed(LeavesOf[s.first], name)
        /\ LeavesOf[two] = Renamed(LeavesOf[s.second], name)
        /\ ShapeOf[one] = ShapeOf[s.first] /\ ShapeOf[two] = ShapeOf[s.second]
    BY <1>2
  <2> HIDE DEF one, two
  <2>3. /\ LeavesOf[Replant(s, sub)] = Joined(LeavesOf[one], LeavesOf[two])
        /\ ShapeOf[Replant(s, sub)] = Shaped(s.dir, ShapeOf[one], ShapeOf[two])
    BY <2>1, <1>a, SplitLeaves
  <2>4. LeavesOf[s] = Joined(LeavesOf[s.first], LeavesOf[s.second])
        /\ ShapeOf[s] = Shaped(s.dir, ShapeOf[s.first], ShapeOf[s.second])
        /\ LeavesOf[s.first] \in Seq(Panes) /\ LeavesOf[s.second] \in Seq(Panes)
    BY <1>2, JoinedLeaves, ShapeOfIs
  <2>5. Renamed(LeavesOf[s], name) = Joined(LeavesOf[one], LeavesOf[two])
    BY <2>2, <2>4, RenamedJoined
  <2> QED BY <2>2, <2>3, <2>4, <2>5, <1>a
<1> HIDE DEF S
<1>3. Trees \subseteq S
  BY <1>1, <1>2, FromTheLeaves
<1>4. Replant(t, sub) \in TreesUpTo[n]
  <2>1. Replant(t, sub) \in TreesUpTo[n + 0]
    BY <1>0, ReplantedHeight
  <2> QED BY <2>1
<1> QED BY <1>3, <1>4 DEF S, sub

-----------------------------------------------------------------------------
(* A leaf added, and a leaf taken out.                                     *)

LEMMA EvenSplit == <<1, 2>> \in Ratios
BY DEF Ratios

\* A split adds its leaf just after the target, and moves no other.
LEMMA SplitLeafIs ==
  ASSUME NEW x \in Panes, NEW e \in Panes, NEW d \in Dirs,
         NEW t \in Trees, NEW n \in Nat, n < MaxPanes, t \in TreesUpTo[n],
         IsInjective(LeavesOf[t])
  PROVE  /\ SplitLeaf(t, x, e, d) \in Trees
         /\ x \in ToSet(LeavesOf[t]) =>
              LeavesOf[SplitLeaf(t, x, e, d)] = InsertAfter(LeavesOf[t], x, e)
<1> DEFINE sub == [p \in Panes |-> IF p = x THEN Split(d, <<1, 2>>, Leaf(x), Leaf(e)) ELSE Leaf(p)]
           new == Split(d, <<1, 2>>, Leaf(x), Leaf(e))
           S == {s \in Trees : s \in TreesUpTo[n] /\ IsInjective(LeavesOf[s]) =>
                   /\ Replant(s, sub) \in Trees
                   /\ x \in ToSet(LeavesOf[s]) =>
                        LeavesOf[Replant(s, sub)] = InsertAfter(LeavesOf[s], x, e)
                   /\ x \notin ToSet(LeavesOf[s]) =>
                        LeavesOf[Replant(s, sub)] = LeavesOf[s]}
<1>s. SplitLeaf(t, x, e, d) = Replant(t, sub)
  BY DEF SplitLeaf
<1>n. /\ new \in TreesUpTo[1]
      /\ \A p \in Panes : Leaf(p) \in TreesUpTo[1]
  <2>1. Leaf(x) \in TreesUpTo[0] /\ Leaf(e) \in TreesUpTo[0]
    BY LeafIsTree
  <2>2. new \in TreesUpTo[0 + 1]
    BY <2>1, EvenSplit, SplitIsHigher
  <2>3. \A p \in Panes : Leaf(p) \in TreesUpTo[1]
    BY LeafIsTree
  <2> HIDE DEF new
  <2> QED BY <2>2, <2>3
<1>l. new \in Trees /\ LeavesOf[new] = <<x, e>>
  <2>1. new \in Trees
    <3> HIDE DEF new
    <3> QED BY <1>n, LowEnough, MaxPanesIs
  <2>2. LeavesOf[new] = Joined(LeavesOf[Leaf(x)], LeavesOf[Leaf(e)])
    BY <2>1, SplitLeaves
  <2>3. LeavesOf[Leaf(x)] = <<x>> /\ LeavesOf[Leaf(e)] = <<e>>
    BY LeafLeaves
  <2>4. Joined(<<x>>, <<e>>) = <<x, e>>
    <3>1. /\ Joined(<<x>>, <<e>>) \in Seq(Panes)
          /\ Joins(Joined(<<x>>, <<e>>), <<x>>, <<e>>)
      <4>1. <<x>> \in Seq(Panes) /\ <<e>> \in Seq(Panes)
        OBVIOUS
      <4> QED BY <4>1, JoinedJoins
    <3>2. /\ Len(Joined(<<x>>, <<e>>)) = 2
          /\ Joined(<<x>>, <<e>>)[1] = x /\ Joined(<<x>>, <<e>>)[1 + 1] = e
      <4> DEFINE j == Joined(<<x>>, <<e>>)
      <4>1. /\ Len(j) = Len(<<x>>) + Len(<<e>>)
            /\ \A i \in 1..Len(<<x>>) : j[i] = <<x>>[i]
            /\ \A i \in 1..Len(<<e>>) : j[Len(<<x>>) + i] = <<e>>[i]
        BY <3>1 DEF Joins
      <4>2. Len(<<x>>) = 1 /\ <<x>>[1] = x /\ Len(<<e>>) = 1 /\ <<e>>[1] = e
        BY OneLeaf
      <4> HIDE DEF j
      <4>3. 1 \in 1..1
        OBVIOUS
      <4>4. j[1] = x /\ j[1 + 1] = e /\ Len(j) = 1 + 1
        BY <4>1, <4>2, <4>3
      <4> QED BY <4>4 DEF j
    <3> QED BY <3>1, <3>2
  <2> HIDE DEF new
  <2> QED BY <2>1, <2>2, <2>3, <2>4
<1>0. sub \in [Panes -> TreesUpTo[1]] /\ sub \in [Panes -> AnyTree]
      /\ \A p \in Panes : sub[p] = IF p = x THEN new ELSE Leaf(p)
  <2> HIDE DEF new
  <2>1. sub = [p \in Panes |-> IF p = x THEN new ELSE Leaf(p)]
    BY DEF new
  <2>2. \A p \in Panes : (IF p = x THEN new ELSE Leaf(p)) \in TreesUpTo[1]
    BY <1>n
  <2>3. sub \in [Panes -> TreesUpTo[1]]
    BY <2>1, <2>2
  <2>4. TreesUpTo[1] \subseteq AnyTree
    BY DEF AnyTree
  <2> QED BY <2>1, <2>3, <2>4
<1> HIDE DEF sub, new
<1>h. ASSUME NEW s \in Trees, s \in TreesUpTo[n] PROVE Replant(s, sub) \in Trees
  <2>1. Replant(s, sub) \in TreesUpTo[n + 1]
    BY <1>0, <1>h, ReplantedHeight
  <2>2. n + 1 \in Nat /\ n + 1 <= MaxPanes
    BY MaxPanesIs
  <2> QED BY <2>1, <2>2, LowEnough
<1>1. ASSUME NEW s \in Trees, IsLeaf(s) PROVE s \in S
  <2>1. Replant(s, sub) = sub[s.pane] /\ s.pane \in Panes /\ s = Leaf(s.pane)
        /\ LeavesOf[s] = <<s.pane>>
    BY <1>0, <1>1, ReplantIs, JoinedLeaves
  <2>2. CASE s.pane = x
    <3>1. LeavesOf[Replant(s, sub)] = <<x, e>> /\ x \in ToSet(LeavesOf[s])
          /\ InsertAfter(LeavesOf[s], x, e) = <<x, e>> /\ Replant(s, sub) \in Trees
      BY <2>1, <2>2, <1>0, <1>l, OneLeaf
    <3> QED BY <3>1
  <2>3. CASE s.pane # x
    <3>1. Replant(s, sub) = s /\ x \notin ToSet(LeavesOf[s])
      BY <2>1, <2>3, <1>0, OneLeaf
    <3> QED BY <3>1
  <2> QED BY <2>2, <2>3
<1>2. ASSUME NEW s \in Trees, ~ IsLeaf(s), s.first \in S, s.second \in S PROVE s \in S
  <2> DEFINE one == Replant(s.first, sub)
             two == Replant(s.second, sub)
             a == LeavesOf[s.first]
             b == LeavesOf[s.second]
  <2> SUFFICES ASSUME s \in TreesUpTo[n], IsInjective(LeavesOf[s])
               PROVE  /\ Replant(s, sub) \in Trees
                      /\ x \in ToSet(LeavesOf[s]) =>
                           LeavesOf[Replant(s, sub)] = InsertAfter(LeavesOf[s], x, e)
                      /\ x \notin ToSet(LeavesOf[s]) =>
                           LeavesOf[Replant(s, sub)] = LeavesOf[s]
    OBVIOUS
  <2>1. /\ s.first \in TreesUpTo[n] /\ s.second \in TreesUpTo[n]
        /\ s.first \in Trees /\ s.second \in Trees
    BY <1>2, SidesAreLower, JoinedLeaves
  <2>2. a \in Seq(Panes) /\ b \in Seq(Panes) /\ LeavesOf[s] = Joined(a, b)
    BY <1>2, JoinedLeaves
  <2>3. /\ IsInjective(a) /\ IsInjective(b) /\ ToSet(a) \cap ToSet(b) = {}
        /\ ToSet(LeavesOf[s]) = ToSet(a) \cup ToSet(b)
    <3> HIDE DEF a, b
    <3> QED BY <2>2, JoinedInjective, JoinedElements
  <2>4. Replant(s, sub) = Split(s.dir, s.ratio, one, two)
    BY <1>0, <1>2, ReplantIs
  <2>5. Replant(s, sub) \in Trees
    BY <1>h
  <2>6. LeavesOf[Replant(s, sub)] = Joined(LeavesOf[one], LeavesOf[two])
    <3> HIDE DEF one, two
    <3> QED BY <2>4, <2>5, SplitLeaves
  <2>7. /\ x \in ToSet(a) => LeavesOf[one] = InsertAfter(a, x, e)
        /\ x \notin ToSet(a) => LeavesOf[one] = a
        /\ x \in ToSet(b) => LeavesOf[two] = InsertAfter(b, x, e)
        /\ x \notin ToSet(b) => LeavesOf[two] = b
    BY <1>2, <2>1, <2>3
  <2> HIDE DEF one, two, a, b
  <2>8. CASE x \in ToSet(a)
    <3>1. x \notin ToSet(b) /\ InsertAfter(Joined(a, b), x, e) = Joined(InsertAfter(a, x, e), b)
      BY <2>8, <2>2, <2>3, InsertIntoJoined
    <3> QED BY <3>1, <2>2, <2>3, <2>5, <2>6, <2>7, <2>8
  <2>9. CASE x \in ToSet(b)
    <3>1. x \notin ToSet(a) /\ InsertAfter(Joined(a, b), x, e) = Joined(a, InsertAfter(b, x, e))
      BY <2>9, <2>2, <2>3, InsertIntoJoined
    <3> QED BY <3>1, <2>2, <2>3, <2>5, <2>6, <2>7, <2>9
  <2>10. CASE x \notin ToSet(a) /\ x \notin ToSet(b)
    BY <2>10, <2>2, <2>3, <2>5, <2>6, <2>7
  <2> QED BY <2>8, <2>9, <2>10
<1> HIDE DEF S
<1>3. Trees \subseteq S
  BY <1>1, <1>2, FromTheLeaves
<1> QED BY <1>3, <1>s DEF S

LEMMA DeleteOne ==
  ASSUME NEW R, NEW p \in R
  PROVE  /\ \A b \in Seq(R) : Joined(Delete(<<p>>, p), b) = b
         /\ \A a \in Seq(R) : Joined(a, Delete(<<p>>, p)) = a
<1>1. <<p>> \in Seq(R) /\ 1 \in 1..Len(<<p>>) /\ p = <<p>>[1] /\ Len(<<p>>) = 1
  OBVIOUS
<1>2. IsInjective(<<p>>)
  BY OneLeaf
<1>3. Delete(<<p>>, p) \in Seq(R) /\ Deleted(Delete(<<p>>, p), <<p>>, 1)
  BY <1>1, <1>2, DeletedIs
<1>4. Len(Delete(<<p>>, p)) = 0
  BY <1>1, <1>3 DEF Deleted
<1>5. Delete(<<p>>, p) = << >>
  BY <1>3, <1>4
<1>6. \A b \in Seq(R) : << >> \o b = b /\ b \o << >> = b
  OBVIOUS
<1> QED BY <1>5, <1>6 DEF Joined

\* What a removal makes of the tree t of height m.
LeafTakenOut(t, p, m) ==
  LET r == RemoveLeaf(t, p)
  IN  /\ p \notin ToSet(LeavesOf[t]) => r.removed = "NotFound"
      /\ IsLeaf(t) /\ p \in ToSet(LeavesOf[t]) => r.removed = "Gone"
      /\ ~ IsLeaf(t) /\ p \in ToSet(LeavesOf[t]) =>
           /\ r.removed = "Collapsed"
           /\ r.tree \in TreesUpTo[m] /\ r.tree \in Trees
           /\ LeavesOf[r.tree] = Delete(LeavesOf[t], p)

\* A removal takes one leaf out, and moves no other.
LEMMA RemovedLeaf ==
  ASSUME NEW p \in Panes
  PROVE  \A t \in Trees, m \in Nat :
           m <= MaxPanes /\ t \in TreesUpTo[m] /\ IsInjective(LeavesOf[t]) => LeafTakenOut(t, p, m)
<1> DEFINE S == {t \in Trees : \A m \in Nat :
                   m <= MaxPanes /\ t \in TreesUpTo[m] /\ IsInjective(LeavesOf[t])
                     => LeafTakenOut(t, p, m)}
<1>1. ASSUME NEW t \in Trees, IsLeaf(t) PROVE t \in S
  <2>1. LeavesOf[t] = <<t.pane>>
    BY <1>1, JoinedLeaves
  <2>2. p \in ToSet(LeavesOf[t]) <=> t.pane = p
    BY <2>1, OneLeaf
  <2>3. RemoveLeaf(t, p).removed = IF t.pane = p THEN "Gone" ELSE "NotFound"
    BY <1>1, RemoveLeafIs
  <2>4. \A m : LeafTakenOut(t, p, m)
    BY <2>2, <2>3, <1>1 DEF LeafTakenOut
  <2> QED BY <2>4
<1>2. ASSUME NEW t \in Trees, ~ IsLeaf(t), t.first \in S, t.second \in S PROVE t \in S
  <2> SUFFICES ASSUME NEW m \in Nat, m <= MaxPanes, t \in TreesUpTo[m], IsInjective(LeavesOf[t])
               PROVE  LeafTakenOut(t, p, m)
    OBVIOUS
  <2> DEFINE one == RemoveLeaf(t.first, p)
             two == RemoveLeaf(t.second, p)
             a == LeavesOf[t.first]
             b == LeavesOf[t.second]
             r == RemoveLeaf(t, p)
  <2>1. /\ m - 1 \in Nat /\ t.first \in TreesUpTo[m - 1] /\ t.second \in TreesUpTo[m - 1]
        /\ t.first \in TreesUpTo[m] /\ t.second \in TreesUpTo[m]
        /\ t.dir \in Dirs /\ t.ratio \in Ratios
        /\ t.first \in Trees /\ t.second \in Trees
    BY <1>2, SidesAreLower, JoinedLeaves
  <2>2. a \in Seq(Panes) /\ b \in Seq(Panes) /\ LeavesOf[t] = Joined(a, b)
    BY <1>2, JoinedLeaves
  <2>3. /\ IsInjective(a) /\ IsInjective(b) /\ ToSet(a) \cap ToSet(b) = {}
        /\ ToSet(LeavesOf[t]) = ToSet(a) \cup ToSet(b)
        /\ p \in ToSet(a) => Delete(LeavesOf[t], p) = Joined(Delete(a, p), b)
        /\ p \in ToSet(b) => Delete(LeavesOf[t], p) = Joined(a, Delete(b, p))
    <3> HIDE DEF a, b
    <3>1. /\ IsInjective(a) /\ IsInjective(b) /\ ToSet(a) \cap ToSet(b) = {}
          /\ ToSet(LeavesOf[t]) = ToSet(a) \cup ToSet(b)
      BY <2>2, JoinedInjective, JoinedElements
    <3>2. /\ p \in ToSet(a) => Delete(LeavesOf[t], p) = Joined(Delete(a, p), b)
          /\ p \in ToSet(b) => Delete(LeavesOf[t], p) = Joined(a, Delete(b, p))
      BY <2>2, DeleteFromJoined
    <3> QED BY <3>1, <3>2
  <2>k. m - 1 <= MaxPanes /\ (m - 1) + 1 = m /\ TreesUpTo[m] \subseteq Trees
    BY <2>1, MaxPanesIs, LowEnough
  <2>4. LeafTakenOut(t.first, p, m - 1) /\ LeafTakenOut(t.second, p, m - 1)
    BY <1>2, <2>1, <2>3, <2>k
  <2>5. r = Removed(t, p, one, two)
    BY <1>2, RemoveLeafIs
  <2>6. \A s \in Trees : s = Leaf(p) <=> IsLeaf(s) /\ p \in ToSet(LeavesOf[s])
    <3> SUFFICES ASSUME NEW s \in Trees PROVE s = Leaf(p) <=> IsLeaf(s) /\ p \in ToSet(LeavesOf[s])
      OBVIOUS
    <3>1. CASE IsLeaf(s)
      <4>1. LeavesOf[s] = <<s.pane>> /\ s = Leaf(s.pane)
        BY <3>1, JoinedLeaves
      <4> QED BY <4>1, <3>1, OneLeaf, LeafIs
    <3>2. CASE ~ IsLeaf(s)
      BY <3>2, LeafIs
    <3> QED BY <3>1, <3>2
  <2>7. CASE t.first = Leaf(p)
    <3>1. r.removed = "Collapsed" /\ r.tree = t.second
      BY <2>5, <2>7 DEF Removed
    <3>2. a = <<p>>
      BY <2>7, LeafLeaves
    <3>3. p \in ToSet(a)
      BY <3>2, OneLeaf
    <3>4. Delete(LeavesOf[t], p) = Joined(Delete(<<p>>, p), b)
      BY <3>2, <3>3, <2>3
    <3>5. Delete(LeavesOf[t], p) = b
      <4> HIDE DEF a, b
      <4> QED BY <3>4, <2>2, DeleteOne
    <3>6. p \in ToSet(LeavesOf[t])
      BY <3>3, <2>3
    <3> HIDE DEF r
    <3> QED BY <3>1, <3>5, <3>6, <1>2, <2>1 DEF LeafTakenOut, r
  <2>8. CASE t.first # Leaf(p) /\ t.second = Leaf(p)
    <3>1. r.removed = "Collapsed" /\ r.tree = t.first
      BY <2>5, <2>8 DEF Removed
    <3>2. b = <<p>>
      BY <2>8, LeafLeaves
    <3>3. p \in ToSet(b)
      BY <3>2, OneLeaf
    <3>4. Delete(LeavesOf[t], p) = Joined(a, Delete(<<p>>, p))
      BY <3>2, <3>3, <2>3
    <3>5. Delete(LeavesOf[t], p) = a
      <4> HIDE DEF a, b
      <4> QED BY <3>4, <2>2, DeleteOne
    <3>6. p \in ToSet(LeavesOf[t])
      BY <3>3, <2>3
    <3> HIDE DEF r
    <3> QED BY <3>1, <3>5, <3>6, <1>2, <2>1 DEF LeafTakenOut, r
  <2>9. CASE t.first # Leaf(p) /\ t.second # Leaf(p) /\ p \in ToSet(a)
    <3>1. ~ IsLeaf(t.first)
      BY <2>9, <2>6, <2>1
    <3>2. /\ one.removed = "Collapsed"
          /\ one.tree \in TreesUpTo[m - 1] /\ one.tree \in Trees
          /\ LeavesOf[one.tree] = Delete(a, p)
      BY <3>1, <2>4, <2>9 DEF LeafTakenOut
    <3>3. r.removed = "Collapsed" /\ r.tree = Split(t.dir, t.ratio, one.tree, t.second)
      BY <2>5, <2>9, <3>2 DEF Removed
    <3> HIDE DEF one, r
    <3>4. r.tree \in TreesUpTo[m] /\ r.tree \in Trees
      BY <3>2, <3>3, <2>1, <2>k, SplitIsHigher
    <3>5. LeavesOf[r.tree] = Joined(Delete(a, p), b)
      BY <3>2, <3>3, <3>4, SplitLeaves
    <3>6. LeavesOf[r.tree] = Delete(LeavesOf[t], p) /\ p \in ToSet(LeavesOf[t])
      BY <3>5, <2>3, <2>9
    <3> QED BY <3>3, <3>4, <3>6, <1>2 DEF LeafTakenOut, r
  <2>10. CASE t.first # Leaf(p) /\ t.second # Leaf(p) /\ p \notin ToSet(a) /\ p \in ToSet(b)
    <3>1. ~ IsLeaf(t.second)
      BY <2>10, <2>6, <2>1
    <3>2. /\ one.removed = "NotFound"
          /\ two.removed = "Collapsed"
          /\ two.tree \in TreesUpTo[m - 1] /\ two.tree \in Trees
          /\ LeavesOf[two.tree] = Delete(b, p)
      BY <3>1, <2>4, <2>10 DEF LeafTakenOut
    <3>3. r.removed = "Collapsed" /\ r.tree = Split(t.dir, t.ratio, t.first, two.tree)
      BY <2>5, <2>10, <3>2 DEF Removed
    <3> HIDE DEF one, two, r
    <3>4. r.tree \in TreesUpTo[m] /\ r.tree \in Trees
      BY <3>2, <3>3, <2>1, <2>k, SplitIsHigher
    <3>5. LeavesOf[r.tree] = Joined(a, Delete(b, p))
      BY <3>2, <3>3, <3>4, SplitLeaves
    <3>6. LeavesOf[r.tree] = Delete(LeavesOf[t], p) /\ p \in ToSet(LeavesOf[t])
      BY <3>5, <2>3, <2>10
    <3> QED BY <3>3, <3>4, <3>6, <1>2 DEF LeafTakenOut, r
  <2>11. CASE t.first # Leaf(p) /\ t.second # Leaf(p) /\ p \notin ToSet(a) /\ p \notin ToSet(b)
    <3>1. one.removed = "NotFound" /\ two.removed = "NotFound"
      BY <2>4, <2>11 DEF LeafTakenOut
    <3>2. r.removed = "NotFound"
      BY <2>5, <2>11, <3>1 DEF Removed
    <3>3. p \notin ToSet(LeavesOf[t])
      BY <2>3, <2>11
    <3> HIDE DEF r
    <3> QED BY <3>2, <3>3 DEF LeafTakenOut, r
  <2> QED BY <2>7, <2>8, <2>9, <2>10, <2>11
<1> HIDE DEF S
<1>3. Trees \subseteq S
  BY <1>1, <1>2, FromTheLeaves
<1> QED BY <1>3 DEF S

-----------------------------------------------------------------------------
(* Leaves exchanged, renamed and rotated.                                  *)

LEMMA ExchangeIs ==
  ASSUME NEW R, NEW s \in Seq(R), NEW a \in ToSet(s), NEW b \in ToSet(s)
  PROVE  /\ Exchange(s, a, b) \in Seq(R) /\ Len(Exchange(s, a, b)) = Len(s)
         /\ ToSet(Exchange(s, a, b)) = ToSet(s)
         /\ IsInjective(s) => IsInjective(Exchange(s, a, b))
<1> DEFINE t == Exchange(s, a, b)
           n == Len(s)
           Swap(x) == IF x = a THEN b ELSE IF x = b THEN a ELSE x
<1>1. /\ n \in Nat /\ DOMAIN s = 1..n /\ \A i \in 1..n : s[i] \in R
      /\ \A x : x \in ToSet(s) <=> \E i \in 1..n : s[i] = x
      /\ a \in R /\ b \in R
  BY SequenceIs
<1>2. t = [i \in 1..n |-> Swap(s[i])]
  BY <1>1 DEF Exchange
<1> HIDE DEF n
<1>3. \A i \in 1..n : Swap(s[i]) \in R
  BY <1>1
<1> HIDE DEF t, Swap
<1>4. t \in Seq(R) /\ Len(t) = n /\ \A i \in 1..n : t[i] = Swap(s[i])
  BY <1>1, <1>2, <1>3
<1>5. \A x : x \in ToSet(t) <=> \E i \in 1..n : t[i] = x
  BY <1>4, SequenceIs
<1>6. \A x : Swap(Swap(x)) = x /\ (x \in ToSet(s) => Swap(x) \in ToSet(s))
  BY DEF Swap
<1>7. ASSUME NEW x \in ToSet(t) PROVE x \in ToSet(s)
  <2>1. PICK i \in 1..n : t[i] = x
    BY <1>5
  <2>2. s[i] \in ToSet(s) /\ x = Swap(s[i])
    BY <2>1, <1>1, <1>4
  <2> QED BY <2>2, <1>6
<1>8. ASSUME NEW x \in ToSet(s) PROVE x \in ToSet(t)
  <2>1. Swap(x) \in ToSet(s)
    BY <1>6
  <2>2. PICK i \in 1..n : s[i] = Swap(x)
    BY <2>1, <1>1
  <2>3. t[i] = x
    BY <2>2, <1>4, <1>6
  <2> QED BY <2>3, <1>5
<1>9. ASSUME IsInjective(s) PROVE IsInjective(t)
  <2>1. \A i, j \in 1..n : s[i] = s[j] => i = j
    BY <1>9, InjectiveIs DEF n
  <2>2. ASSUME NEW i \in 1..n, NEW j \in 1..n, t[i] = t[j] PROVE i = j
    <3>1. Swap(Swap(s[i])) = Swap(Swap(s[j]))
      BY <2>2, <1>4
    <3>2. s[i] = s[j]
      BY <3>1, <1>6
    <3> QED BY <3>2, <2>1
  <2> QED BY <2>2, <1>4, InjectiveIs
<1> QED BY <1>4, <1>7, <1>8, <1>9 DEF t, n

LEMMA RelabelIs ==
  ASSUME NEW R, NEW s \in Seq(R), IsInjective(s), NEW a \in ToSet(s), NEW b \in R,
         b \notin ToSet(s)
  PROVE  /\ Relabel(s, a, b) \in Seq(R) /\ Len(Relabel(s, a, b)) = Len(s)
         /\ ToSet(Relabel(s, a, b)) = (ToSet(s) \ {a}) \cup {b}
         /\ IsInjective(Relabel(s, a, b))
<1> DEFINE t == Relabel(s, a, b)
           n == Len(s)
           New(x) == IF x = a THEN b ELSE x
<1>1. /\ n \in Nat /\ DOMAIN s = 1..n /\ \A i \in 1..n : s[i] \in R
      /\ \A x : x \in ToSet(s) <=> \E i \in 1..n : s[i] = x
  BY SequenceIs
<1>2. t = [i \in 1..n |-> New(s[i])]
  BY <1>1 DEF Relabel
<1>i. \A i, j \in 1..n : s[i] = s[j] => i = j
  BY InjectiveIs
<1> HIDE DEF n
<1>3. \A i \in 1..n : New(s[i]) \in R
  BY <1>1
<1> HIDE DEF t, New
<1>4. t \in Seq(R) /\ Len(t) = n /\ \A i \in 1..n : t[i] = New(s[i])
  BY <1>1, <1>2, <1>3
<1>5. \A x : x \in ToSet(t) <=> \E i \in 1..n : t[i] = x
  BY <1>4, SequenceIs
<1>7. ASSUME NEW x \in ToSet(t) PROVE x \in (ToSet(s) \ {a}) \cup {b}
  <2>1. PICK i \in 1..n : t[i] = x
    BY <1>5
  <2>2. s[i] \in ToSet(s) /\ x = New(s[i])
    BY <2>1, <1>1, <1>4
  <2> QED BY <2>2 DEF New
<1>8. ASSUME NEW x \in (ToSet(s) \ {a}) \cup {b} PROVE x \in ToSet(t)
  <2>1. PICK y \in ToSet(s) : New(y) = x
    BY <1>8 DEF New
  <2>2. PICK i \in 1..n : s[i] = y
    BY <2>1, <1>1
  <2>3. t[i] = x
    BY <2>1, <2>2, <1>4
  <2> QED BY <2>3, <1>5
<1>9. ASSUME NEW i \in 1..n, NEW j \in 1..n, t[i] = t[j] PROVE i = j
  <2>1. New(s[i]) = New(s[j]) /\ s[i] # b /\ s[j] # b
    BY <1>9, <1>4, <1>1
  <2>2. s[i] = s[j]
    BY <2>1 DEF New
  <2> QED BY <2>2, <1>i
<1>10. IsInjective(t)
  BY <1>9, <1>4, InjectiveIs
<1> QED BY <1>4, <1>7, <1>8, <1>10 DEF t, n

LEMMA SwappedTree ==
  ASSUME NEW t \in Trees, NEW a \in Panes, NEW b \in Panes, Swappable(t, a, b)
  PROVE  /\ SwapIds(t, a, b) \in Trees
         /\ LeavesOf[SwapIds(t, a, b)] = Exchange(LeavesOf[t], a, b)
         /\ ShapeOf[SwapIds(t, a, b)] = ShapeOf[t]
<1> DEFINE name == [p \in Panes |-> IF p = a THEN b ELSE IF p = b THEN a ELSE p]
           new == Replant(t, [p \in Panes |-> Leaf(name[p])])
<1>1. SwapIds(t, a, b) = new
  <2>1. [p \in Panes |-> Leaf(IF p = a THEN b ELSE IF p = b THEN a ELSE p)]
          = [p \in Panes |-> Leaf(name[p])]
    OBVIOUS
  <2> QED BY <2>1 DEF SwapIds, RelabelLeaves
<1>2. name \in [Panes -> Panes]
  OBVIOUS
<1>3. DOMAIN LeavesOf[t] = 1..Len(LeavesOf[t]) /\ \A i \in 1..Len(LeavesOf[t]) : LeavesOf[t][i] \in Panes
  BY JoinedLeaves, SequenceIs
<1>4. Renamed(LeavesOf[t], name) = Exchange(LeavesOf[t], a, b)
  <2>1. \A i \in DOMAIN LeavesOf[t] :
          name[LeavesOf[t][i]] = IF LeavesOf[t][i] = a THEN b
                                 ELSE IF LeavesOf[t][i] = b THEN a ELSE LeavesOf[t][i]
    BY <1>3
  <2> HIDE DEF name
  <2> QED BY <2>1 DEF Renamed, Exchange
<1> HIDE DEF name
<1>5. /\ new \in Trees /\ LeavesOf[new] = Renamed(LeavesOf[t], name) /\ ShapeOf[new] = ShapeOf[t]
  BY <1>2, RenamedTree, MaxPanesIs DEF Trees
<1> QED BY <1>1, <1>4, <1>5

LEMMA ReplacedLeaf ==
  ASSUME NEW t \in Trees, NEW a \in Panes, NEW b \in Panes
  PROVE  /\ ReplaceLeaf(t, a, b) \in Trees
         /\ LeavesOf[ReplaceLeaf(t, a, b)] = Relabel(LeavesOf[t], a, b)
         /\ ShapeOf[ReplaceLeaf(t, a, b)] = ShapeOf[t]
<1> DEFINE name == [p \in Panes |-> IF p = a THEN b ELSE p]
           new == Replant(t, [p \in Panes |-> Leaf(name[p])])
<1>1. ReplaceLeaf(t, a, b) = new
  <2>1. [p \in Panes |-> Leaf(IF p = a THEN b ELSE p)] = [p \in Panes |-> Leaf(name[p])]
    OBVIOUS
  <2> QED BY <2>1 DEF ReplaceLeaf
<1>2. name \in [Panes -> Panes]
  OBVIOUS
<1>3. DOMAIN LeavesOf[t] = 1..Len(LeavesOf[t]) /\ \A i \in 1..Len(LeavesOf[t]) : LeavesOf[t][i] \in Panes
  BY JoinedLeaves, SequenceIs
<1>4. Renamed(LeavesOf[t], name) = Relabel(LeavesOf[t], a, b)
  <2>1. \A i \in DOMAIN LeavesOf[t] :
          name[LeavesOf[t][i]] = IF LeavesOf[t][i] = a THEN b ELSE LeavesOf[t][i]
    BY <1>3
  <2> HIDE DEF name
  <2> QED BY <2>1 DEF Renamed, Relabel
<1> HIDE DEF name
<1>5. /\ new \in Trees /\ LeavesOf[new] = Renamed(LeavesOf[t], name) /\ ShapeOf[new] = ShapeOf[t]
  BY <1>2, RenamedTree, MaxPanesIs DEF Trees
<1> QED BY <1>1, <1>4, <1>5

\* The leaves ids after k exchanges of rotate_panes.
RotatedBy(s, ids, downward, k) ==
  /\ Len(s) = Len(ids)
  /\ \A j \in 1..Len(ids) :
       s[j] = IF downward
              THEN IF j = Len(ids) THEN ids[Len(ids) - k]
                   ELSE IF j < Len(ids) - k THEN ids[j] ELSE ids[j + 1]
              ELSE IF j = 1 THEN ids[k + 1]
                   ELSE IF j > k + 1 THEN ids[j] ELSE ids[j - 1]

LEMMA RotatedFurther ==
  ASSUME NEW R, NEW ids \in Seq(R), IsInjective(ids), NEW s \in Seq(R), NEW downward \in BOOLEAN,
         NEW k \in Nat, k + 1 <= Len(ids) - 1, RotatedBy(s, ids, downward, k),
         NEW i, i = IF downward THEN Len(ids) - (k + 1) ELSE k + 1
  PROVE  RotatedBy(Exchange(s, ids[i], ids[i + 1]), ids, downward, k + 1)
<1> DEFINE n == Len(ids)
           t == Exchange(s, ids[i], ids[i + 1])
<1>1. n \in Nat /\ \A p, q \in 1..n : ids[p] = ids[q] => p = q
  BY SequenceIs, InjectiveIs
<1>2. Len(s) = n
  BY DEF RotatedBy
<1>3. DOMAIN s = 1..n
  BY <1>2, SequenceIs
<1>4. t = [j \in 1..n |-> IF s[j] = ids[i] THEN ids[i + 1] ELSE IF s[j] = ids[i + 1] THEN ids[i] ELSE s[j]]
  BY <1>3 DEF Exchange
<1> HIDE DEF n, t
<1>5. \A j \in 1..n : t[j] = IF s[j] = ids[i] THEN ids[i + 1]
                             ELSE IF s[j] = ids[i + 1] THEN ids[i] ELSE s[j]
  BY <1>4
<1>6. Len(t) = n
  BY <1>1, <1>4
<1>7. CASE downward
  <2>1. i = n - (k + 1) /\ i \in 1..n /\ i + 1 \in 1..n /\ i + 1 = n - k /\ n \in 1..n
    BY <1>1, <1>7 DEF n
  <2>2. \A j \in 1..n : s[j] = IF j = n THEN ids[n - k] ELSE IF j < n - k THEN ids[j] ELSE ids[j + 1]
    BY <1>7 DEF RotatedBy, n
  <2>3. ASSUME NEW j \in 1..n
        PROVE  t[j] = IF j = n THEN ids[n - (k + 1)]
                      ELSE IF j < n - (k + 1) THEN ids[j] ELSE ids[j + 1]
    <3>1. CASE j = n
      <4>1. s[j] = ids[i + 1] /\ ids[i] # ids[i + 1]
        BY <3>1, <2>1, <2>2, <1>1
      <4> QED BY <4>1, <3>1, <2>1, <1>5
    <3>2. CASE j < n - (k + 1)
      <4>1. s[j] = ids[j] /\ j # i /\ j # i + 1 /\ j # n
        BY <3>2, <2>1, <2>2, <1>1
      <4>2. ids[j] # ids[i] /\ ids[j] # ids[i + 1]
        BY <4>1, <2>1, <1>1
      <4> QED BY <4>1, <4>2, <3>2, <1>5
    <3>3. CASE j = n - (k + 1)
      <4>1. s[j] = ids[i] /\ j = i /\ j # n /\ ~ j < n - (k + 1)
        BY <3>3, <2>1, <2>2, <1>1
      <4> QED BY <4>1, <1>5
    <3>4. CASE j > n - (k + 1) /\ j # n
      <4>1. s[j] = ids[j + 1] /\ j + 1 \in 1..n /\ j + 1 # i /\ j + 1 # i + 1
            /\ ~ j < n - (k + 1)
        <5>1. /\ j + 1 \in 1..n /\ j + 1 # i /\ j + 1 # i + 1 /\ ~ j < n - (k + 1)
              /\ ~ j < n - k
          BY <3>4, <2>1, <1>1
        <5> QED BY <5>1, <3>4, <2>2
      <4>2. ids[j + 1] # ids[i] /\ ids[j + 1] # ids[i + 1]
        BY <4>1, <2>1, <1>1
      <4> QED BY <4>1, <4>2, <3>4, <1>5
    <3> QED BY <3>1, <3>2, <3>3, <3>4, <2>1, <1>1
  <2> QED BY <2>3, <1>6, <1>7 DEF RotatedBy, n, t
<1>8. CASE ~ downward
  <2>1. i = k + 1 /\ i \in 1..n /\ i + 1 \in 1..n
    BY <1>1, <1>8 DEF n
  <2>2. \A j \in 1..n : s[j] = IF j = 1 THEN ids[k + 1] ELSE IF j > k + 1 THEN ids[j] ELSE ids[j - 1]
    BY <1>8 DEF RotatedBy, n
  <2>3. ASSUME NEW j \in 1..n
        PROVE  t[j] = IF j = 1 THEN ids[(k + 1) + 1]
                      ELSE IF j > (k + 1) + 1 THEN ids[j] ELSE ids[j - 1]
    <3>1. CASE j = 1
      <4>1. s[j] = ids[i]
        BY <3>1, <2>1, <2>2
      <4> QED BY <4>1, <3>1, <2>1, <1>5
    <3>2. CASE j > (k + 1) + 1
      <4>1. s[j] = ids[j] /\ j # i /\ j # i + 1 /\ j # 1
        BY <3>2, <2>1, <2>2, <1>1
      <4>2. ids[j] # ids[i] /\ ids[j] # ids[i + 1]
        BY <4>1, <2>1, <1>1
      <4> QED BY <4>1, <4>2, <3>2, <1>5
    <3>3. CASE j = (k + 1) + 1
      <4>1. s[j] = ids[i + 1] /\ j = i + 1 /\ j - 1 = i /\ j # 1 /\ ~ j > (k + 1) + 1
            /\ i # i + 1
        BY <3>3, <2>1, <2>2, <1>1
      <4>2. ids[i] # ids[i + 1]
        BY <4>1, <2>1, <1>1
      <4> QED BY <4>1, <4>2, <1>5
    <3>4. CASE j < (k + 1) + 1 /\ j # 1
      <4>1. s[j] = ids[j - 1] /\ j - 1 \in 1..n /\ j - 1 # i /\ j - 1 # i + 1
            /\ ~ j > (k + 1) + 1
        BY <3>4, <2>1, <2>2, <1>1
      <4>2. ids[j - 1] # ids[i] /\ ids[j - 1] # ids[i + 1]
        BY <4>1, <2>1, <1>1
      <4> QED BY <4>1, <4>2, <3>4, <1>5
    <3> QED BY <3>1, <3>2, <3>3, <3>4, <2>1, <1>1
  <2> QED BY <2>3, <1>6, <1>8 DEF RotatedBy, n, t
<1> QED BY <1>7, <1>8

\* The chain of exchanges is a rotation of the leaves by one place.
LEMMA RotatedTree ==
  ASSUME NEW t \in Trees, IsInjective(LeavesOf[t]), Len(LeavesOf[t]) > 1, NEW downward \in BOOLEAN
  PROVE  LET new == Rotate(t, LeavesOf[t], downward)
         IN  /\ new \in Trees /\ ShapeOf[new] = ShapeOf[t]
             /\ LeavesOf[new] = Rotated(LeavesOf[t], downward)
             /\ ToSet(LeavesOf[new]) = ToSet(LeavesOf[t]) /\ IsInjective(LeavesOf[new])
<1> DEFINE ids == LeavesOf[t]
           n == Len(ids)
<1>1. ids \in Seq(Panes) /\ n \in Nat /\ n - 1 \in Nat /\ n > 1
      /\ \A i \in 1..n : ids[i] \in Panes /\ ids[i] \in ToSet(ids)
  BY JoinedLeaves, SequenceIs
<1>2. IsInjective(ids)
  OBVIOUS
<1>i. \A i, j \in 1..n : ids[i] = ids[j] => i = j
  BY <1>1, <1>2, InjectiveIs
<1> HIDE DEF ids
<1>3. PICK f : /\ Rotate(t, ids, downward) = f[n - 1]
               /\ f[0] = t
               /\ \A k \in 1..n - 1 : f[k] = Exchanged(f[k - 1], ids, n, downward, k)
  BY <1>1, RotateIs
<1> DEFINE T == {k \in Nat : k <= n - 1 =>
                   /\ f[k] \in Trees /\ ShapeOf[f[k]] = ShapeOf[t]
                   /\ ToSet(LeavesOf[f[k]]) = ToSet(ids) /\ IsInjective(LeavesOf[f[k]])
                   /\ RotatedBy(LeavesOf[f[k]], ids, downward, k)}
<1> HIDE DEF n
<1>4. 0 \in T
  <2>1. RotatedBy(ids, ids, downward, 0)
    <3>1. \A j \in 1..n :
            ids[j] = IF downward
                     THEN IF j = n THEN ids[n - 0] ELSE IF j < n - 0 THEN ids[j] ELSE ids[j + 1]
                     ELSE IF j = 1 THEN ids[0 + 1] ELSE IF j > 0 + 1 THEN ids[j] ELSE ids[j - 1]
      BY <1>1
    <3> QED BY <3>1 DEF RotatedBy, n
  <2> QED BY <2>1, <1>2, <1>3 DEF ids
<1>5. ASSUME NEW k \in Nat, k \in T PROVE k + 1 \in T
  <2> SUFFICES ASSUME k + 1 <= n - 1
               PROVE  /\ f[k + 1] \in Trees /\ ShapeOf[f[k + 1]] = ShapeOf[t]
                      /\ ToSet(LeavesOf[f[k + 1]]) = ToSet(ids) /\ IsInjective(LeavesOf[f[k + 1]])
                      /\ RotatedBy(LeavesOf[f[k + 1]], ids, downward, k + 1)
    OBVIOUS
  <2> DEFINE i == IF downward THEN n - (k + 1) ELSE k + 1
             s == LeavesOf[f[k]]
  <2>1. /\ f[k] \in Trees /\ ShapeOf[f[k]] = ShapeOf[t]
        /\ ToSet(s) = ToSet(ids) /\ IsInjective(s) /\ RotatedBy(s, ids, downward, k)
    BY <1>5, <1>1
  <2>2. i \in 1..n /\ i + 1 \in 1..n /\ i # i + 1
    BY <1>1
  <2>3. f[k + 1] = SwapIds(f[k], ids[i], ids[i + 1])
    <3>1. k + 1 \in 1..n - 1 /\ (k + 1) - 1 = k
      OBVIOUS
    <3>2. f[k + 1] = Exchanged(f[k], ids, n, downward, k + 1)
      BY <3>1, <1>3
    <3> QED BY <3>2 DEF Exchanged
  <2>s. s \in Seq(Panes)
    BY <2>1, JoinedLeaves
  <2> HIDE DEF i
  <2>4. /\ ids[i] \in Panes /\ ids[i + 1] \in Panes /\ ids[i] # ids[i + 1]
        /\ ids[i] \in ToSet(s) /\ ids[i + 1] \in ToSet(s)
    BY <2>1, <2>2, <1>1, <1>i
  <2>5. Swappable(f[k], ids[i], ids[i + 1])
    BY <2>4 DEF Swappable, HasLeaf
  <2>6. /\ f[k + 1] \in Trees /\ ShapeOf[f[k + 1]] = ShapeOf[f[k]]
        /\ LeavesOf[f[k + 1]] = Exchange(s, ids[i], ids[i + 1])
    BY <2>1, <2>3, <2>4, <2>5, SwappedTree
  <2> HIDE DEF s
  <2>7. /\ ToSet(Exchange(s, ids[i], ids[i + 1])) = ToSet(s)
        /\ IsInjective(Exchange(s, ids[i], ids[i + 1]))
    BY <2>s, <2>1, <2>4, ExchangeIs
  <2>8. RotatedBy(Exchange(s, ids[i], ids[i + 1]), ids, downward, k + 1)
    <3>1. i = IF downward THEN Len(ids) - (k + 1) ELSE k + 1
      BY DEF i, n
    <3>2. k + 1 <= Len(ids) - 1
      BY DEF n
    <3> QED BY <3>1, <3>2, <2>s, <2>1, <1>1, <1>2, RotatedFurther
  <2> QED BY <2>1, <2>6, <2>7, <2>8
<1> HIDE DEF T
<1>6. Nat \subseteq T
  BY <1>4, <1>5, UpFromZero
<1> DEFINE new == f[n - 1]
<1>7. /\ new \in Trees /\ ShapeOf[new] = ShapeOf[t]
      /\ ToSet(LeavesOf[new]) = ToSet(ids) /\ IsInjective(LeavesOf[new])
      /\ RotatedBy(LeavesOf[new], ids, downward, n - 1)
  BY <1>1, <1>6 DEF T
<1> HIDE DEF new
<1>8. LeavesOf[new] = Rotated(ids, downward)
  <2>1. LeavesOf[new] \in Seq(Panes) /\ Len(LeavesOf[new]) = n
    BY <1>7, JoinedLeaves DEF RotatedBy, n
  <2>2. ASSUME NEW j \in 1..n
        PROVE  LeavesOf[new][j] = IF downward THEN IF j = n THEN ids[1] ELSE ids[j + 1]
                                  ELSE IF j = 1 THEN ids[n] ELSE ids[j - 1]
    <3>1. LeavesOf[new][j] =
            IF downward
            THEN IF j = n THEN ids[n - (n - 1)]
                 ELSE IF j < n - (n - 1) THEN ids[j] ELSE ids[j + 1]
            ELSE IF j = 1 THEN ids[(n - 1) + 1]
                 ELSE IF j > (n - 1) + 1 THEN ids[j] ELSE ids[j - 1]
      BY <1>7 DEF RotatedBy, n
    <3>2. n - (n - 1) = 1 /\ (n - 1) + 1 = n /\ ~ j < 1 /\ ~ j > n
      BY <1>1
    <3> QED BY <3>1, <3>2
  <2>3. DOMAIN ids = 1..n
    BY <1>1, SequenceIs DEF n
  <2>4. Rotated(ids, downward) = [j \in 1..n |-> IF downward THEN IF j = n THEN ids[1] ELSE ids[j + 1]
                                                ELSE IF j = 1 THEN ids[n] ELSE ids[j - 1]]
    BY <2>3 DEF Rotated, n
  <2>5. LeavesOf[new] = [j \in 1..n |-> LeavesOf[new][j]]
    BY <2>1
  <2> QED BY <2>2, <2>4, <2>5
<1> QED BY <1>3, <1>7, <1>8 DEF new, ids

-----------------------------------------------------------------------------
(* Preset layouts: the same leaves in the same order, in a tree whose shape *)
(* only depends on how many they are.                                       *)

LEMMA SlicesJoined ==
  ASSUME NEW R, NEW s \in Seq(R), NEW a \in Nat, NEW b \in Nat, NEW c \in Nat,
         a <= b, b <= c, c <= Len(s)
  PROVE  Joined(SubSeq(s, a + 1, b), SubSeq(s, b + 1, c)) = SubSeq(s, a + 1, c)
<1> DEFINE l == SubSeq(s, a + 1, b)
           r == SubSeq(s, b + 1, c)
           u == SubSeq(s, a + 1, c)
           w == Joined(l, r)
<1>0. Len(s) \in Nat
  BY SequenceIs
<1>1. l \in Seq(R) /\ Len(l) = b - a /\ \A i \in 1..b - a : l[i] = s[a + i]
  <2>1. a + 1 \in 1..(Len(s) + 1) /\ b \in 0..Len(s) /\ b - (a + 1) + 1 = b - a
        /\ \A i \in 1..b - a : (a + 1) + i - 1 = a + i
    BY <1>0
  <2>2. /\ l \in Seq(R) /\ Len(l) = IF a + 1 <= b THEN b - (a + 1) + 1 ELSE 0
        /\ \A i \in 1..(b - (a + 1) + 1) : l[i] = s[(a + 1) + i - 1]
    BY <2>1, SubSequence
  <2> HIDE DEF l
  <2> QED BY <2>1, <2>2
<1>2. r \in Seq(R) /\ Len(r) = c - b /\ \A i \in 1..c - b : r[i] = s[b + i]
  <2>1. b + 1 \in 1..(Len(s) + 1) /\ c \in 0..Len(s) /\ c - (b + 1) + 1 = c - b
        /\ \A i \in 1..c - b : (b + 1) + i - 1 = b + i
    BY <1>0
  <2>2. /\ r \in Seq(R) /\ Len(r) = IF b + 1 <= c THEN c - (b + 1) + 1 ELSE 0
        /\ \A i \in 1..(c - (b + 1) + 1) : r[i] = s[(b + 1) + i - 1]
    BY <2>1, SubSequence
  <2> HIDE DEF r
  <2> QED BY <2>1, <2>2
<1>3. u \in Seq(R) /\ Len(u) = c - a /\ \A i \in 1..c - a : u[i] = s[a + i]
  <2>1. a + 1 \in 1..(Len(s) + 1) /\ c \in 0..Len(s) /\ c - (a + 1) + 1 = c - a
        /\ \A i \in 1..c - a : (a + 1) + i - 1 = a + i
    BY <1>0
  <2>2. /\ u \in Seq(R) /\ Len(u) = IF a + 1 <= c THEN c - (a + 1) + 1 ELSE 0
        /\ \A i \in 1..(c - (a + 1) + 1) : u[i] = s[(a + 1) + i - 1]
    BY <2>1, SubSequence
  <2> HIDE DEF u
  <2> QED BY <2>1, <2>2
<1> HIDE DEF l, r, u
<1>4. w \in Seq(R) /\ Joins(w, l, r)
  BY <1>1, <1>2, JoinedJoins
<1>5. \A k \in 1..Len(l) + Len(r) :
        \/ k \in 1..Len(l) /\ w[k] = l[k]
        \/ k - Len(l) \in 1..Len(r) /\ w[k] = r[k - Len(l)]
  BY <1>1, <1>2, JoinedElements
<1> HIDE DEF w
<1>6. Len(w) = c - a /\ Len(l) + Len(r) = c - a
  BY <1>1, <1>2, <1>4 DEF Joins
<1>7. ASSUME NEW k \in 1..c - a PROVE w[k] = u[k]
  <2>1. CASE k \in 1..Len(l) /\ w[k] = l[k]
    BY <2>1, <1>1, <1>3
  <2>2. CASE k - Len(l) \in 1..Len(r) /\ w[k] = r[k - Len(l)]
    <3>1. k - (b - a) \in 1..c - b /\ b + (k - (b - a)) = a + k
      BY <2>2, <1>1, <1>2
    <3>2. w[k] = s[a + k]
      BY <3>1, <2>2, <1>1, <1>2
    <3> QED BY <3>2, <1>3
  <2> QED BY <2>1, <2>2, <1>5, <1>6
<1>8. w = u
  BY <1>3, <1>4, <1>6, <1>7, SameSequence
<1> QED BY <1>8 DEF w, l, r, u

LEMMA EvenRatio == \A k \in Nat : k > 1 => <<1, k>> \in Ratios
BY DEF Ratios

\* The chain of the last k nodes.
StackOf(f, nodes, d, m, h) ==
  \A k \in 1..m :
    /\ f[k] \in TreesUpTo[h + (k - 1)] /\ f[k] \in Trees
    /\ k = 1 => f[k] = nodes[m]
    /\ k # 1 => /\ LeavesOf[f[k]] = Joined(LeavesOf[nodes[m - k + 1]], LeavesOf[f[k - 1]])
                /\ ShapeOf[f[k]] = Shaped(d, ShapeOf[nodes[m - k + 1]], ShapeOf[f[k - 1]])

\* Each of m nodes is a tree of height h at most; they hold consecutive parts
\* of ps, which end at the places c; they have the shapes of the others.
LowNodes(nodes, m, h) == \A i \in 1..m : nodes[i] \in TreesUpTo[h]

HoldParts(nodes, ps, m, c) ==
  \A i \in 1..m : c[i - 1] <= c[i] /\ LeavesOf[nodes[i]] = SubSeq(ps, c[i - 1] + 1, c[i])

SameShapes(nodes, others, m) == \A i \in 1..m : ShapeOf[nodes[i]] = ShapeOf[others[i]]

LEMMA StackTrees ==
  ASSUME NEW nodes, NEW m \in Nat, m >= 1, Len(nodes) = m, NEW d \in Dirs,
         NEW h \in Nat, h + m - 1 <= MaxPanes, LowNodes(nodes, m, h)
  PROVE  \E f : StackEven(nodes, d) = f[m] /\ StackOf(f, nodes, d, m, h)
<1>1. PICK f : /\ StackEven(nodes, d) = f[m]
               /\ \A k \in 1..m : f[k] = IF k = 1 THEN nodes[m]
                                         ELSE Split(d, <<1, k>>, nodes[m - k + 1], f[k - 1])
  BY StackEvenIs
<1> DEFINE Good(k) == f[k] \in TreesUpTo[h + (k - 1)] /\ f[k] \in Trees
           T == {k \in Nat : k \in 1..m => Good(k)}
<1>2. \A k \in 1..m : TreesUpTo[h + (k - 1)] \subseteq Trees
  <2> SUFFICES ASSUME NEW k \in 1..m PROVE TreesUpTo[h + (k - 1)] \subseteq Trees
    OBVIOUS
  <2>1. h + (k - 1) \in Nat /\ h + (k - 1) <= MaxPanes
    BY MaxPanesIs
  <2> QED BY <2>1, LowEnough
<1>3. 0 \in T
  OBVIOUS
<1>4. ASSUME NEW k \in Nat, k \in T PROVE k + 1 \in T
  <2> SUFFICES ASSUME k + 1 \in 1..m PROVE Good(k + 1)
    BY DEF T
  <2>1. CASE k = 0
    <3>1. f[k + 1] = nodes[m] /\ m \in 1..m /\ h + ((k + 1) - 1) = h
      <4>1. k + 1 = 1 /\ 1 \in 1..m /\ m \in 1..m /\ h + ((k + 1) - 1) = h
        BY <2>1
      <4>2. f[1] = nodes[m]
        BY <4>1, <1>1
      <4> QED BY <4>1, <4>2
    <3>2. f[k + 1] \in TreesUpTo[h + ((k + 1) - 1)]
      BY <3>1 DEF LowNodes
    <3> QED BY <3>2, <1>2
  <2>2. CASE k # 0
    <3>1. /\ k \in 1..m /\ k + 1 # 1 /\ (k + 1) - 1 = k /\ m - (k + 1) + 1 \in 1..m
          /\ h + (k - 1) \in Nat /\ (h + (k - 1)) + 1 = h + ((k + 1) - 1) /\ h <= h + (k - 1)
          /\ k + 1 > 1 /\ k + 1 \in Nat
      BY <2>2
    <3>2. f[k] \in TreesUpTo[h + (k - 1)]
      BY <3>1, <1>4
    <3> DEFINE node == nodes[m - (k + 1) + 1]
    <3>3. node \in TreesUpTo[h + (k - 1)]
      <4>1. node \in TreesUpTo[h]
        BY <3>1 DEF LowNodes
      <4> HIDE DEF node
      <4> QED BY <4>1, <3>1, HeightsGrow
    <3>4. f[k + 1] = Split(d, <<1, k + 1>>, node, f[k])
      BY <3>1, <1>1
    <3> HIDE DEF node
    <3>5. f[k + 1] \in TreesUpTo[(h + (k - 1)) + 1]
      BY <3>1, <3>2, <3>3, <3>4, EvenRatio, SplitIsHigher
    <3>6. f[k + 1] \in TreesUpTo[h + ((k + 1) - 1)]
      BY <3>1, <3>5
    <3> QED BY <3>6, <1>2
  <2> QED BY <2>1, <2>2
<1> HIDE DEF T
<1>5. Nat \subseteq T
  BY <1>3, <1>4, UpFromZero
<1>6. ASSUME NEW k \in 1..m PROVE Good(k)
  BY <1>5 DEF T
<1>7. ASSUME NEW k \in 1..m, k # 1
      PROVE  /\ LeavesOf[f[k]] = Joined(LeavesOf[nodes[m - k + 1]], LeavesOf[f[k - 1]])
             /\ ShapeOf[f[k]] = Shaped(d, ShapeOf[nodes[m - k + 1]], ShapeOf[f[k - 1]])
  <2>1. f[k] = Split(d, <<1, k>>, nodes[m - k + 1], f[k - 1]) /\ f[k] \in Trees
    BY <1>1, <1>6, <1>7
  <2> QED BY <2>1, SplitLeaves
<1>8. StackOf(f, nodes, d, m, h)
  BY <1>1, <1>6, <1>7 DEF StackOf
<1> QED BY <1>1, <1>8

\* Nodes that hold consecutive parts of ps, in a row.
LEMMA StackLeaves ==
  ASSUME NEW ps \in Seq(Panes),
         NEW nodes, NEW m \in Nat, m >= 1, Len(nodes) = m, NEW d \in Dirs,
         NEW h \in Nat, h + m - 1 <= MaxPanes, LowNodes(nodes, m, h),
         NEW c \in [0..m -> Nat], c[0] = 0, c[m] = Len(ps),
         HoldParts(nodes, ps, m, c)
  PROVE  /\ StackEven(nodes, d) \in TreesUpTo[h + (m - 1)] /\ StackEven(nodes, d) \in Trees
         /\ LeavesOf[StackEven(nodes, d)] = ps
<1>1. PICK f : StackEven(nodes, d) = f[m] /\ StackOf(f, nodes, d, m, h)
  BY StackTrees
<1> DEFINE T == {k \in Nat : k + 1 \in 1..m =>
                   /\ c[m - (k + 1)] <= Len(ps)
                   /\ LeavesOf[f[k + 1]] = SubSeq(ps, c[m - (k + 1)] + 1, Len(ps))}
<1>2. 0 \in T
  <2>1. m \in 1..m /\ m - (0 + 1) = m - 1 /\ 0 + 1 = 1 /\ 1 \in 1..m
    OBVIOUS
  <2>2. f[1] = nodes[m]
    BY <1>1, <2>1 DEF StackOf
  <2>3. c[m - 1] <= c[m] /\ LeavesOf[nodes[m]] = SubSeq(ps, c[m - 1] + 1, c[m])
    BY <2>1 DEF HoldParts
  <2> QED BY <2>1, <2>2, <2>3
<1>3. ASSUME NEW k \in Nat, k \in T PROVE k + 1 \in T
  <2> SUFFICES ASSUME (k + 1) + 1 \in 1..m
               PROVE  /\ c[m - ((k + 1) + 1)] <= Len(ps)
                      /\ LeavesOf[f[(k + 1) + 1]] = SubSeq(ps, c[m - ((k + 1) + 1)] + 1, Len(ps))
    OBVIOUS
  <2> DEFINE q == (k + 1) + 1
             j == m - q + 1
  <2>1. /\ k + 1 \in 1..m /\ q - 1 = k + 1 /\ q # 1 /\ q \in 1..m
        /\ j \in 1..m /\ j - 1 = m - q /\ j = m - (k + 1)
        /\ j \in 0..m /\ j - 1 \in 0..m
    OBVIOUS
  <2>2. /\ c[j] <= Len(ps)
        /\ LeavesOf[f[k + 1]] = SubSeq(ps, c[j] + 1, Len(ps))
    BY <1>3, <2>1
  <2>3. LeavesOf[f[q]] = Joined(LeavesOf[nodes[j]], LeavesOf[f[k + 1]])
    BY <1>1, <2>1 DEF StackOf
  <2> HIDE DEF q, j
  <2>4. c[j - 1] <= c[j] /\ LeavesOf[nodes[j]] = SubSeq(ps, c[j - 1] + 1, c[j])
    BY <2>1 DEF HoldParts
  <2>5. c[j - 1] \in Nat /\ c[j] \in Nat /\ Len(ps) \in Nat
    BY <2>1, SequenceIs
  <2>6. LeavesOf[f[q]] = SubSeq(ps, c[j - 1] + 1, Len(ps))
    <3>1. Len(ps) <= Len(ps)
      BY <2>5
    <3>2. Joined(SubSeq(ps, c[j - 1] + 1, c[j]), SubSeq(ps, c[j] + 1, Len(ps)))
            = SubSeq(ps, c[j - 1] + 1, Len(ps))
      <4> DEFINE x == c[j - 1]
                 y == c[j]
                 z == Len(ps)
      <4>1. x \in Nat /\ y \in Nat /\ z \in Nat /\ x <= y /\ y <= z /\ z <= Len(ps)
        BY <3>1, <2>2, <2>4, <2>5
      <4> HIDE DEF x, y, z
      <4>2. Joined(SubSeq(ps, x + 1, y), SubSeq(ps, y + 1, z)) = SubSeq(ps, x + 1, z)
        BY <4>1, SlicesJoined, ZenonT(30)
      <4> QED BY <4>2 DEF x, y, z
    <3> QED BY <3>2, <2>2, <2>3, <2>4
  <2>7. c[j - 1] <= Len(ps)
    BY <2>2, <2>4, <2>5
  <2>8. c[m - q] <= Len(ps) /\ LeavesOf[f[q]] = SubSeq(ps, c[m - q] + 1, Len(ps))
    BY <2>1, <2>6, <2>7
  <2> QED BY <2>8 DEF q
<1> HIDE DEF T
<1>4. Nat \subseteq T
  BY <1>2, <1>3, UpFromZero
<1>5. LeavesOf[f[m]] = SubSeq(ps, 1, Len(ps))
  <2>1. m - 1 \in Nat /\ (m - 1) + 1 = m /\ m \in 1..m /\ m - m = 0 /\ 0 + 1 = 1
    OBVIOUS
  <2>2. LeavesOf[f[(m - 1) + 1]] = SubSeq(ps, c[m - ((m - 1) + 1)] + 1, Len(ps))
    BY <1>4, <2>1 DEF T
  <2> QED BY <2>1, <2>2
<1>6. SubSeq(ps, 1, Len(ps)) = ps
  OBVIOUS
<1>7. f[m] \in TreesUpTo[h + (m - 1)] /\ f[m] \in Trees
  <2>1. m \in 1..m
    OBVIOUS
  <2> QED BY <2>1, <1>1 DEF StackOf
<1> QED BY <1>1, <1>5, <1>6, <1>7

\* The shape of a chain is that of its nodes.
LEMMA StackShape ==
  ASSUME NEW nodes, NEW others, NEW m \in Nat, m >= 1, Len(nodes) = m, Len(others) = m, NEW d \in Dirs,
         NEW h \in Nat, h + m - 1 <= MaxPanes,
         LowNodes(nodes, m, h), LowNodes(others, m, h), SameShapes(nodes, others, m)
  PROVE  ShapeOf[StackEven(nodes, d)] = ShapeOf[StackEven(others, d)]
<1>1. PICK f : StackEven(nodes, d) = f[m] /\ StackOf(f, nodes, d, m, h)
  BY StackTrees
<1>2. PICK g : StackEven(others, d) = g[m] /\ StackOf(g, others, d, m, h)
  BY StackTrees
<1> DEFINE T == {k \in Nat : k + 1 \in 1..m => ShapeOf[f[k + 1]] = ShapeOf[g[k + 1]]}
<1>3. 0 \in T
  <2>1. m \in 1..m /\ 0 + 1 = 1 /\ 1 \in 1..m
    OBVIOUS
  <2>2. f[1] = nodes[m] /\ g[1] = others[m]
    BY <1>1, <1>2, <2>1 DEF StackOf
  <2>3. ShapeOf[nodes[m]] = ShapeOf[others[m]]
    BY <2>1 DEF SameShapes
  <2> QED BY <2>1, <2>2, <2>3
<1>4. ASSUME NEW k \in Nat, k \in T PROVE k + 1 \in T
  <2> SUFFICES ASSUME (k + 1) + 1 \in 1..m
               PROVE  ShapeOf[f[(k + 1) + 1]] = ShapeOf[g[(k + 1) + 1]]
    OBVIOUS
  <2> DEFINE q == (k + 1) + 1
             j == m - q + 1
  <2>1. k + 1 \in 1..m /\ q - 1 = k + 1 /\ q # 1 /\ q \in 1..m /\ j \in 1..m
    OBVIOUS
  <2>2. ShapeOf[f[k + 1]] = ShapeOf[g[k + 1]]
    BY <1>4, <2>1
  <2>3. /\ ShapeOf[f[q]] = Shaped(d, ShapeOf[nodes[j]], ShapeOf[f[k + 1]])
        /\ ShapeOf[g[q]] = Shaped(d, ShapeOf[others[j]], ShapeOf[g[k + 1]])
    BY <1>1, <1>2, <2>1 DEF StackOf
  <2> HIDE DEF q, j
  <2>4. ShapeOf[f[q]] = ShapeOf[g[q]]
    BY <2>1, <2>2, <2>3 DEF SameShapes
  <2> QED BY <2>4 DEF q
<1> HIDE DEF T
<1>5. Nat \subseteq T
  BY <1>3, <1>4, UpFromZero
<1>6. m - 1 \in Nat /\ (m - 1) + 1 = m /\ m \in 1..m
  OBVIOUS
<1>7. ShapeOf[f[(m - 1) + 1]] = ShapeOf[g[(m - 1) + 1]]
  BY <1>5, <1>6 DEF T
<1> QED BY <1>1, <1>2, <1>6, <1>7

LEMMA OneItem ==
  ASSUME NEW R, NEW s \in Seq(R), Len(s) = 1, NEW x, s[1] = x
  PROVE  s = <<x>>
OBVIOUS

LEMMA AcrossIs == \A d \in Dirs : Across(d) \in Dirs
BY DEF Across, Dirs

\* Leaves in a row.
LEMMA ChainedIs ==
  ASSUME NEW ps \in Seq(Panes), NEW d \in Dirs, Len(ps) >= 1, Len(ps) <= MaxPanes
  PROVE  /\ Len(ps) - 1 \in Nat
         /\ Chained(ps, d) \in TreesUpTo[Len(ps) - 1] /\ Chained(ps, d) \in Trees
         /\ LeavesOf[Chained(ps, d)] = ps
<1> DEFINE n == Len(ps)
           nodes == [i \in DOMAIN ps |-> Leaf(ps[i])]
           c == [i \in 0..n |-> i]
<1>1. n \in Nat /\ n >= 1 /\ DOMAIN ps = 1..n /\ \A i \in 1..n : ps[i] \in Panes
  BY SequenceIs
<1> HIDE DEF n
<1>2. Len(nodes) = n /\ \A i \in 1..n : nodes[i] = Leaf(ps[i])
  BY <1>1
<1>3. \A i \in 1..n : nodes[i] \in TreesUpTo[0]
  BY <1>1, <1>2, LeafIsTree
<1>4. c \in [0..n -> Nat] /\ c[0] = 0 /\ c[n] = Len(ps)
  BY <1>1 DEF n
<1>5. ASSUME NEW i \in 1..n
      PROVE  c[i - 1] <= c[i] /\ LeavesOf[nodes[i]] = SubSeq(ps, c[i - 1] + 1, c[i])
  <2>1. c[i - 1] = i - 1 /\ c[i] = i /\ (i - 1) + 1 = i /\ i - 1 <= i
    BY <1>1
  <2>2. LeavesOf[nodes[i]] = <<ps[i]>>
    BY <1>1, <1>2, LeafLeaves
  <2>3. SubSeq(ps, i, i) = <<ps[i]>>
    <3>1. i \in 1..(n + 1) /\ i \in 0..n /\ i <= i /\ i - i + 1 = 1 /\ i + 1 - 1 = i
      BY <1>1
    <3>2. /\ SubSeq(ps, i, i) \in Seq(Panes)
          /\ Len(SubSeq(ps, i, i)) = IF i <= i THEN i - i + 1 ELSE 0
          /\ \A j \in 1..(i - i + 1) : SubSeq(ps, i, i)[j] = ps[i + j - 1]
      BY <3>1, SubSequence DEF n
    <3>3. Len(SubSeq(ps, i, i)) = 1 /\ SubSeq(ps, i, i)[1] = ps[i]
      BY <3>1, <3>2
    <3> QED BY <3>2, <3>3, OneItem
  <2> QED BY <2>1, <2>2, <2>3
<1>6. /\ StackEven(nodes, d) \in TreesUpTo[0 + (n - 1)] /\ StackEven(nodes, d) \in Trees
      /\ LeavesOf[StackEven(nodes, d)] = ps
  <2>1. 0 \in Nat /\ 0 + n - 1 <= MaxPanes
    BY <1>1, MaxPanesIs DEF n
  <2>2. LowNodes(nodes, n, 0)
    BY <1>3 DEF LowNodes
  <2> HIDE DEF nodes, c
  <2>3. HoldParts(nodes, ps, n, c)
    BY <1>5 DEF HoldParts
  <2> QED BY <2>1, <2>2, <2>3, <1>1, <1>2, <1>4, StackLeaves
<1>7. n - 1 \in Nat /\ 0 + (n - 1) = n - 1
  BY <1>1
<1> QED BY <1>6, <1>7 DEF n, Chained

LEMMA ChainedShape ==
  ASSUME NEW ps \in Seq(Panes), NEW qs \in Seq(Panes), NEW d \in Dirs,
         Len(ps) = Len(qs), Len(ps) >= 1, Len(ps) <= MaxPanes
  PROVE  ShapeOf[Chained(ps, d)] = ShapeOf[Chained(qs, d)]
<1> DEFINE n == Len(ps)
           nodes == [i \in DOMAIN ps |-> Leaf(ps[i])]
           others == [i \in DOMAIN qs |-> Leaf(qs[i])]
<1>1. n \in Nat /\ n >= 1 /\ DOMAIN ps = 1..n /\ \A i \in 1..n : ps[i] \in Panes
  BY SequenceIs
<1>2. DOMAIN qs = 1..n /\ \A i \in 1..n : qs[i] \in Panes
  BY SequenceIs
<1> HIDE DEF n
<1>3. /\ Len(nodes) = n /\ \A i \in 1..n : nodes[i] = Leaf(ps[i])
      /\ Len(others) = n /\ \A i \in 1..n : others[i] = Leaf(qs[i])
  BY <1>1, <1>2
<1> HIDE DEF nodes, others
<1>4. LowNodes(nodes, n, 0) /\ LowNodes(others, n, 0)
  BY <1>1, <1>2, <1>3, LeafIsTree DEF LowNodes
<1>5. SameShapes(nodes, others, n)
  BY <1>1, <1>2, <1>3, LeafLeaves DEF SameShapes
<1>6. 0 \in Nat /\ 0 + n - 1 <= MaxPanes
  BY <1>1, MaxPanesIs DEF n
<1>7. ShapeOf[StackEven(nodes, d)] = ShapeOf[StackEven(others, d)]
  BY <1>1, <1>3, <1>4, <1>5, <1>6, StackShape
<1> QED BY <1>7 DEF Chained, nodes, others

LEMMA TailIs ==
  ASSUME NEW R, NEW s \in Seq(R), Len(s) > 1
  PROVE  /\ Tail(s) \in Seq(R) /\ Len(Tail(s)) = Len(s) - 1 /\ s[1] \in R
         /\ Joined(<<s[1]>>, Tail(s)) = s
<1>1. Tail(s) \in Seq(R) /\ Len(Tail(s)) = Len(s) - 1 /\ s[1] \in R
  OBVIOUS
<1>2. <<s[1]>> \o Tail(s) = s
  OBVIOUS
<1> QED BY <1>1, <1>2 DEF Joined

LEMMA MainAndStackIs ==
  ASSUME NEW ps \in Seq(Panes), NEW d \in Dirs, Len(ps) >= 1, Len(ps) <= MaxPanes
  PROVE  MainAndStack(ps, d) \in Trees /\ LeavesOf[MainAndStack(ps, d)] = ps
<1>0. Len(ps) \in Nat
  BY SequenceIs
<1>1. CASE Len(ps) = 1
  <2>1. MainAndStack(ps, d) = Leaf(ps[1]) /\ ps[1] \in Panes /\ ps = <<ps[1]>>
    BY <1>1 DEF MainAndStack
  <2> QED BY <2>1, LeafLeaves
<1>2. CASE Len(ps) # 1
  <2> DEFINE rest == Chained(Tail(ps), Across(d))
             n == Len(ps)
             k == Len(Tail(ps)) - 1
  <2>1. /\ Tail(ps) \in Seq(Panes) /\ Len(Tail(ps)) = n - 1 /\ ps[1] \in Panes
        /\ Joined(<<ps[1]>>, Tail(ps)) = ps
    BY <1>0, <1>2, TailIs
  <2>2. Across(d) \in Dirs /\ Len(Tail(ps)) >= 1 /\ Len(Tail(ps)) <= MaxPanes
    BY <1>0, <1>2, <2>1, AcrossIs, MaxPanesIs
  <2>3. /\ k \in Nat /\ rest \in TreesUpTo[k] /\ rest \in Trees /\ LeavesOf[rest] = Tail(ps)
    BY <2>1, <2>2, ChainedIs
  <2>4. MainAndStack(ps, d) = Split(d, <<1, 2>>, Leaf(ps[1]), rest)
    BY <1>2 DEF MainAndStack
  <2>5. k + 1 \in Nat /\ k + 1 <= MaxPanes
    BY <2>1, <1>0, MaxPanesIs, <2>3
  <2> HIDE DEF rest, k, n
  <2>6. Leaf(ps[1]) \in TreesUpTo[k]
    BY <2>1, <2>3, LeafIsTree
  <2>7. MainAndStack(ps, d) \in Trees
    BY <2>3, <2>4, <2>5, <2>6, EvenSplit, SplitIsHigher, LowEnough
  <2>8. LeavesOf[MainAndStack(ps, d)] = Joined(LeavesOf[Leaf(ps[1])], LeavesOf[rest])
    BY <2>4, <2>7, SplitLeaves
  <2> QED BY <2>1, <2>3, <2>7, <2>8, LeafLeaves
<1> QED BY <1>1, <1>2

LEMMA MainAndStackShape ==
  ASSUME NEW ps \in Seq(Panes), NEW qs \in Seq(Panes), NEW d \in Dirs,
         Len(ps) = Len(qs), Len(ps) >= 1, Len(ps) <= MaxPanes
  PROVE  ShapeOf[MainAndStack(ps, d)] = ShapeOf[MainAndStack(qs, d)]
<1>0. Len(ps) \in Nat
  BY SequenceIs
<1>1. CASE Len(ps) = 1
  <2>1. /\ MainAndStack(ps, d) = Leaf(ps[1]) /\ ps[1] \in Panes
        /\ MainAndStack(qs, d) = Leaf(qs[1]) /\ qs[1] \in Panes
    <3>1. 1 \in 1..Len(ps) /\ 1 \in 1..Len(qs) /\ Len(qs) = 1
      BY <1>1
    <3>2. ps[1] \in Panes /\ qs[1] \in Panes
      BY <3>1, SequenceIs
    <3> QED BY <1>1, <3>1, <3>2 DEF MainAndStack
  <2> QED BY <2>1, LeafLeaves
<1>2. CASE Len(ps) # 1
  <2>1. /\ Tail(ps) \in Seq(Panes) /\ Len(Tail(ps)) = Len(ps) - 1 /\ ps[1] \in Panes
        /\ Tail(qs) \in Seq(Panes) /\ Len(Tail(qs)) = Len(ps) - 1 /\ qs[1] \in Panes
    BY <1>0, <1>2, TailIs
  <2>2. Across(d) \in Dirs /\ Len(Tail(ps)) >= 1 /\ Len(Tail(ps)) <= MaxPanes
        /\ Len(Tail(ps)) = Len(Tail(qs))
    BY <1>0, <1>2, <2>1, AcrossIs, MaxPanesIs
  <2>3. ShapeOf[Chained(Tail(ps), Across(d))] = ShapeOf[Chained(Tail(qs), Across(d))]
    BY <2>1, <2>2, ChainedShape
  <2>4. ASSUME NEW s \in Seq(Panes), Len(s) = Len(ps)
        PROVE  ShapeOf[MainAndStack(s, d)] = Shaped(d, ShapeOf[Leaf(s[1])], ShapeOf[Chained(Tail(s), Across(d))])
    <3>1. MainAndStack(s, d) = Split(d, <<1, 2>>, Leaf(s[1]), Chained(Tail(s), Across(d)))
      BY <1>2, <2>4 DEF MainAndStack
    <3>2. MainAndStack(s, d) \in Trees
      BY <2>4, MainAndStackIs
    <3> QED BY <3>1, <3>2, SplitLeaves
  <2> QED BY <2>1, <2>3, <2>4, LeafLeaves
<1> QED BY <1>1, <1>2

\* tiled: as many rows as the side of the smallest square with room for all.
LEMMA CeilSqrtIs ==
  ASSUME NEW n \in Nat, n >= 1
  PROVE  CeilSqrt(n) \in 1..n
<1> DEFINE D == {r \in 1..n : (r - 1) * (r - 1) < n}
<1>1. 1 \in D
  OBVIOUS
<1>2. PICK r \in D : \A h \in D : h <= r
  <2>1. D \subseteq 1..n /\ D # {}
    BY <1>1
  <2> HIDE DEF D
  <2> QED BY <2>1, LargestThereIs
<1>3. r \in 1..n /\ (r - 1) * (r - 1) < n
  OBVIOUS
<1>4. r * r >= n
  <2>1. CASE r = n
    <3>1. n * 1 <= n * n
      BY TimesGrows
    <3> QED BY <3>1, <2>1
  <2>2. CASE r # n
    <3>1. r + 1 \in 1..n /\ (r + 1) - 1 = r /\ ~ r + 1 <= r
      BY <1>3, <2>2
    <3>2. r + 1 \notin D
      BY <3>1, <1>2
    <3>3. ~ r * r < n
      BY <3>1, <3>2
    <3>4. r * r \in Nat
      BY <1>3
    <3> QED BY <3>3, <3>4
  <2> QED BY <2>1, <2>2
<1>5. \E k \in 1..n : k * k >= n /\ (k - 1) * (k - 1) < n
  BY <1>3, <1>4
<1> QED BY <1>5 DEF CeilSqrt

LEMMA CeilDivIs ==
  ASSUME NEW n \in Nat, n >= 1, NEW k \in 1..n
  PROVE  /\ CeilDiv(n, k) \in 1..n
         /\ n <= k * CeilDiv(n, k) /\ k * (CeilDiv(n, k) - 1) < n
<1> DEFINE q == CeilDiv(n, k)
           m == n + k - 1
           e == m % k
<1>1. m \in Nat /\ k \in Nat /\ k > 0
  OBVIOUS
<1>2. q \in Nat /\ e \in 0..k - 1 /\ m = k * q + e
  <2>1. q = m \div k
    BY DEF CeilDiv
  <2> HIDE DEF m, q
  <2> QED BY <2>1, <1>1, Divided
<1> HIDE DEF q, e
<1>3. n + k - 1 = k * q + e
  BY <1>2
<1> DEFINE kq == k * q
<1>4. kq \in Nat /\ n <= kq /\ kq < n + k
  BY <1>1, <1>2, <1>3
<1>5. k * (q - 1) = kq - k
  BY <1>1, <1>2
<1>6. q >= 1
  <2>1. q = 0 => kq = 0
    BY <1>1
  <2> HIDE DEF kq
  <2> QED BY <2>1, <1>4, <1>2
<1>7. q <= n
  <2> SUFFICES ASSUME q >= n + 1 PROVE FALSE
    BY <1>2
  <2>1. k * (n + 1) <= k * q
    BY <1>1, <1>2, TimesGrows
  <2>2. k * (n + 1) = k * n + k
    BY <1>1
  <2>3. n * 1 <= n * k
    BY <1>1, TimesGrows
  <2>4. n * k = k * n /\ n * 1 = n
    BY <1>1
  <2> DEFINE nk == k * n
  <2>5. nk \in Nat /\ nk + k <= kq /\ n <= nk
    BY <1>1, <2>1, <2>2, <2>3, <2>4
  <2> HIDE DEF nk, kq
  <2> QED BY <2>5, <1>4, <1>1
<1>8. kq - k < n
  BY <1>4, <1>1
<1> QED BY <1>2, <1>4, <1>5, <1>6, <1>7, <1>8 DEF q

\* The rows of n panes, q in each but the last.
EndOfRow(i, n, q) == IF i * q < n THEN i * q ELSE n
RowOf(ps, q, i) == SubSeq(ps, (i - 1) * q + 1, EndOfRow(i, Len(ps), q))

LEMMA RowsIs ==
  ASSUME NEW n \in Nat, n >= 1, NEW q \in 1..n, NEW m, m = CeilDiv(n, q)
  PROVE  /\ m \in 1..n /\ (q - 1) + m - 1 < n
         /\ EndOfRow(0, n, q) = 0 /\ EndOfRow(m, n, q) = n
         /\ \A i \in 0..m : EndOfRow(i, n, q) \in 0..n
         /\ \A i \in 1..m :
              /\ EndOfRow(i - 1, n, q) = (i - 1) * q
              /\ EndOfRow(i, n, q) - EndOfRow(i - 1, n, q) \in 1..q
<1>1. m \in 1..n /\ n <= q * m /\ q * (m - 1) < n
  BY CeilDivIs
<1>2. q \in Nat /\ q >= 1
  OBVIOUS
<1>3. (q - 1) + m - 1 < n
  <2>1. CASE m = 1
    BY <2>1, <1>2
  <2>2. CASE m # 1
    <3>1. m - 2 \in Nat
      BY <2>2, <1>1
    <3>2. (m - 2) * 1 <= (m - 2) * q
      BY <3>1, <1>2, TimesGrows
    <3>3. (m - 2) * q = q * (m - 1) - q /\ (m - 2) * 1 = m - 2
      BY <1>1, <1>2
    <3> DEFINE w == q * (m - 1)
    <3>4. w < n /\ m - 2 <= w - q /\ w \in Int
      BY <1>1, <3>2, <3>3, <1>2
    <3> HIDE DEF w
    <3> QED BY <3>4, <1>1, <1>2
  <2> QED BY <2>1, <2>2
<1>4. EndOfRow(0, n, q) = 0
  <2>1. 0 * q = 0
    BY <1>2
  <2> QED BY <2>1 DEF EndOfRow
<1>5. EndOfRow(m, n, q) = n
  <2>1. m * q = q * m /\ m * q \in Nat
    BY <1>1, <1>2
  <2> QED BY <2>1, <1>1 DEF EndOfRow
<1>6. ASSUME NEW i \in 0..m PROVE EndOfRow(i, n, q) \in 0..n
  <2>1. i * q \in Nat
    BY <1>1, <1>2
  <2> QED BY <2>1 DEF EndOfRow
<1>7. ASSUME NEW i \in 1..m
      PROVE  /\ EndOfRow(i - 1, n, q) = (i - 1) * q
             /\ EndOfRow(i, n, q) - EndOfRow(i - 1, n, q) \in 1..q
  <2>1. i - 1 \in Nat /\ m - 1 \in Nat /\ i - 1 <= m - 1
    BY <1>1
  <2>2. q * (i - 1) <= q * (m - 1)
    BY <2>1, <1>2, TimesGrows
  <2>3. (i - 1) * q = q * (i - 1) /\ i * q = (i - 1) * q + q /\ (i - 1) * q \in Nat
        /\ q * (m - 1) \in Nat /\ q * (i - 1) \in Nat
    BY <2>1, <1>2
  <2> DEFINE w == (i - 1) * q
             z == q * (m - 1)
  <2>4. w \in Nat /\ z \in Nat /\ w <= z /\ z < n /\ i * q = w + q
    BY <2>2, <2>3, <1>1
  <2>5. EndOfRow(i - 1, n, q) = w
    BY <2>4 DEF EndOfRow
  <2>6. EndOfRow(i, n, q) = IF w + q < n THEN w + q ELSE n
    BY <2>4 DEF EndOfRow
  <2> HIDE DEF w, z
  <2>7. (IF w + q < n THEN w + q ELSE n) - w \in 1..q
    BY <2>4, <1>2
  <2> QED BY <2>5, <2>6, <2>7 DEF w
<1> QED BY <1>1, <1>3, <1>4, <1>5, <1>6, <1>7

\* Each row is a part of the panes, of a length that depends on how many
\* there are.
LEMMA RowOfIs ==
  ASSUME NEW ps \in Seq(Panes), NEW n \in Nat, n = Len(ps), n >= 1, NEW q \in 1..n,
         NEW i \in 1..CeilDiv(n, q)
  PROVE  /\ RowOf(ps, q, i) = SubSeq(ps, EndOfRow(i - 1, n, q) + 1, EndOfRow(i, n, q))
         /\ RowOf(ps, q, i) \in Seq(Panes)
         /\ Len(RowOf(ps, q, i)) = EndOfRow(i, n, q) - EndOfRow(i - 1, n, q)
         /\ Len(RowOf(ps, q, i)) \in 1..q
<1> DEFINE a == EndOfRow(i - 1, n, q)
           b == EndOfRow(i, n, q)
<1>1. /\ a = (i - 1) * q /\ b - a \in 1..q
      /\ a \in 0..n /\ b \in 0..n
  <2>1. i - 1 \in 0..CeilDiv(n, q) /\ i \in 0..CeilDiv(n, q)
    BY RowsIs
  <2> QED BY <2>1, RowsIs
<1>2. RowOf(ps, q, i) = SubSeq(ps, a + 1, b)
  BY <1>1 DEF RowOf
<1> HIDE DEF a, b
<1>3. /\ a + 1 \in 1..(Len(ps) + 1) /\ b \in 0..Len(ps) /\ a + 1 <= b
      /\ b - (a + 1) + 1 = b - a
  BY <1>1
<1>4. /\ SubSeq(ps, a + 1, b) \in Seq(Panes)
      /\ Len(SubSeq(ps, a + 1, b)) = IF a + 1 <= b THEN b - (a + 1) + 1 ELSE 0
  BY <1>3, SubSequence
<1>5. Len(SubSeq(ps, a + 1, b)) = b - a
  BY <1>3, <1>4
<1> QED BY <1>1, <1>2, <1>4, <1>5 DEF a, b

\* The rows of tiled, each a chain.
RowsOf(ps, n, q) == [i \in 1..CeilDiv(n, q) |-> Chained(RowOf(ps, q, i), "Horizontal")]

LEMMA TiledRows ==
  ASSUME NEW ps
  PROVE  LET n == Len(ps)
         IN  Tiled(ps) = StackEven(RowsOf(ps, n, CeilDiv(n, CeilSqrt(n))), "Vertical")
<1> DEFINE n == Len(ps)
           q == CeilDiv(n, CeilSqrt(n))
           R(i) == SubSeq(ps, (i - 1) * q + 1, IF i * q < n THEN i * q ELSE n)
<1>1. \A i : RowOf(ps, q, i) = R(i)
  BY DEF RowOf, EndOfRow
<1>2. Tiled(ps) = StackEven([i \in 1..CeilDiv(n, q) |-> Chained(R(i), "Horizontal")], "Vertical")
  BY DEF Tiled
<1> HIDE DEF q, n, R
<1>3. [i \in 1..CeilDiv(n, q) |-> Chained(R(i), "Horizontal")] = RowsOf(ps, n, q)
  BY <1>1 DEF RowsOf
<1> QED BY <1>2, <1>3 DEF q, n

LEMMA RowsAreNodes ==
  ASSUME NEW ps \in Seq(Panes), NEW n \in Nat, n = Len(ps), n >= 1, n <= MaxPanes,
         NEW q \in 1..n, NEW m, m = CeilDiv(n, q)
  PROVE  /\ Len(RowsOf(ps, n, q)) = m
         /\ LowNodes(RowsOf(ps, n, q), m, q - 1)
         /\ HoldParts(RowsOf(ps, n, q), ps, m, [i \in 0..m |-> EndOfRow(i, n, q)])
<1> DEFINE nodes == RowsOf(ps, n, q)
           c == [i \in 0..m |-> EndOfRow(i, n, q)]
<1>0. m \in 1..n
  BY RowsIs
<1>1. nodes = [i \in 1..m |-> Chained(RowOf(ps, q, i), "Horizontal")]
  BY DEF RowsOf
<1> HIDE DEF nodes
<1>2. Len(nodes) = m /\ \A i \in 1..m : nodes[i] = Chained(RowOf(ps, q, i), "Horizontal")
  BY <1>0, <1>1
<1>d. "Horizontal" \in Dirs
  BY DEF Dirs
<1>3. ASSUME NEW i \in 1..m
      PROVE  /\ nodes[i] \in TreesUpTo[q - 1]
             /\ c[i - 1] <= c[i] /\ LeavesOf[nodes[i]] = SubSeq(ps, c[i - 1] + 1, c[i])
  <2> DEFINE row == RowOf(ps, q, i)
  <2>1. /\ row = SubSeq(ps, EndOfRow(i - 1, n, q) + 1, EndOfRow(i, n, q))
        /\ row \in Seq(Panes)
        /\ Len(row) \in 1..q
    BY RowOfIs
  <2>2. /\ c[i - 1] = EndOfRow(i - 1, n, q) /\ c[i] = EndOfRow(i, n, q)
        /\ EndOfRow(i - 1, n, q) \in 0..n /\ EndOfRow(i, n, q) \in 0..n
        /\ EndOfRow(i, n, q) - EndOfRow(i - 1, n, q) \in 1..q
    <3>1. i - 1 \in 0..m /\ i \in 0..m
      BY <1>0
    <3> QED BY <3>1, RowsIs
  <2>3. c[i - 1] <= c[i]
    <3> DEFINE x == EndOfRow(i - 1, n, q)
               y == EndOfRow(i, n, q)
    <3>1. c[i - 1] = x /\ c[i] = y /\ x \in 0..n /\ y \in 0..n /\ y - x \in 1..q
      BY <2>2
    <3> HIDE DEF x, y, c
    <3> QED BY <3>1
  <2> HIDE DEF row
  <2>4. Len(row) >= 1 /\ Len(row) <= MaxPanes /\ Len(row) - 1 <= q - 1 /\ q - 1 \in Nat
    BY <2>1, MaxPanesIs
  <2>5. /\ Len(row) - 1 \in Nat
        /\ Chained(row, "Horizontal") \in TreesUpTo[Len(row) - 1]
        /\ LeavesOf[Chained(row, "Horizontal")] = row
    BY <2>1, <2>4, <1>d, ChainedIs
  <2>6. Chained(row, "Horizontal") \in TreesUpTo[q - 1]
    BY <2>4, <2>5, HeightsGrow
  <2>7. nodes[i] = Chained(row, "Horizontal")
    BY <1>2 DEF row
  <2>8. row = SubSeq(ps, c[i - 1] + 1, c[i])
    BY <2>1, <2>2
  <2> QED BY <2>3, <2>5, <2>6, <2>7, <2>8
<1> HIDE DEF c
<1>4. LowNodes(nodes, m, q - 1) /\ HoldParts(nodes, ps, m, c)
  BY <1>3 DEF LowNodes, HoldParts
<1> QED BY <1>2, <1>4 DEF nodes, c

LEMMA TiledIs ==
  ASSUME NEW ps \in Seq(Panes), Len(ps) >= 1, Len(ps) <= MaxPanes
  PROVE  Tiled(ps) \in Trees /\ LeavesOf[Tiled(ps)] = ps
<1> DEFINE n == Len(ps)
           q == CeilDiv(n, CeilSqrt(n))
           m == CeilDiv(n, q)
           nodes == RowsOf(ps, n, q)
           c == [i \in 0..m |-> EndOfRow(i, n, q)]
<1>1. n \in Nat /\ n >= 1 /\ n <= MaxPanes /\ n = Len(ps)
  BY SequenceIs
<1>2. Tiled(ps) = StackEven(nodes, "Vertical")
  BY TiledRows
<1> HIDE DEF n
<1>3. q \in 1..n
  BY <1>1, CeilSqrtIs, CeilDivIs
<1> HIDE DEF q
<1>4. /\ m \in 1..n /\ (q - 1) + m - 1 < n
      /\ EndOfRow(0, n, q) = 0 /\ EndOfRow(m, n, q) = n
      /\ \A i \in 0..m : EndOfRow(i, n, q) \in 0..n
  BY <1>1, <1>3, RowsIs
<1>5. Len(nodes) = m /\ LowNodes(nodes, m, q - 1) /\ HoldParts(nodes, ps, m, c)
  BY <1>1, <1>3, RowsAreNodes
<1> HIDE DEF m, nodes
<1>6. c \in [0..m -> Nat] /\ c[0] = 0 /\ c[m] = Len(ps)
  BY <1>1, <1>4
<1> HIDE DEF c
<1>7. m \in Nat /\ m >= 1 /\ q - 1 \in Nat /\ (q - 1) + m - 1 <= MaxPanes /\ "Vertical" \in Dirs
  BY <1>1, <1>3, <1>4, MaxPanesIs DEF Dirs
<1>8. StackEven(nodes, "Vertical") \in Trees /\ LeavesOf[StackEven(nodes, "Vertical")] = ps
  BY <1>5, <1>6, <1>7, StackLeaves
<1> QED BY <1>2, <1>8

LEMMA TiledShape ==
  ASSUME NEW ps \in Seq(Panes), NEW qs \in Seq(Panes),
         Len(ps) = Len(qs), Len(ps) >= 1, Len(ps) <= MaxPanes
  PROVE  ShapeOf[Tiled(ps)] = ShapeOf[Tiled(qs)]
<1> DEFINE n == Len(ps)
           q == CeilDiv(n, CeilSqrt(n))
           m == CeilDiv(n, q)
           nodes == RowsOf(ps, n, q)
           others == RowsOf(qs, n, q)
<1>1. n \in Nat /\ n >= 1 /\ n <= MaxPanes /\ n = Len(ps) /\ n = Len(qs)
  BY SequenceIs
<1>2. Tiled(ps) = StackEven(nodes, "Vertical") /\ Tiled(qs) = StackEven(others, "Vertical")
  BY TiledRows
<1> HIDE DEF n
<1>3. q \in 1..n
  BY <1>1, CeilSqrtIs, CeilDivIs
<1> HIDE DEF q
<1>4. m \in 1..n /\ (q - 1) + m - 1 < n
  BY <1>1, <1>3, RowsIs
<1>5a. Len(nodes) = m /\ LowNodes(nodes, m, q - 1)
  <2> HIDE DEF nodes, others
  <2>1. Len(nodes) = m /\ LowNodes(nodes, m, q - 1) /\ HoldParts(nodes, ps, m, [i \in 0..m |-> EndOfRow(i, n, q)])
    BY <1>1, <1>3, RowsAreNodes DEF nodes
  <2> QED BY <2>1
<1>5b. Len(others) = m /\ LowNodes(others, m, q - 1)
  <2> HIDE DEF nodes, others
  <2>1. Len(others) = m /\ LowNodes(others, m, q - 1) /\ HoldParts(others, qs, m, [i \in 0..m |-> EndOfRow(i, n, q)])
    BY <1>1, <1>3, RowsAreNodes DEF others
  <2> QED BY <2>1
<1>5. Len(nodes) = m /\ LowNodes(nodes, m, q - 1)
      /\ Len(others) = m /\ LowNodes(others, m, q - 1)
  BY <1>5a, <1>5b
<1>d. "Horizontal" \in Dirs /\ "Vertical" \in Dirs
  BY DEF Dirs
<1>6. ASSUME NEW i \in 1..m PROVE ShapeOf[nodes[i]] = ShapeOf[others[i]]
  <2>1. /\ nodes[i] = Chained(RowOf(ps, q, i), "Horizontal")
        /\ others[i] = Chained(RowOf(qs, q, i), "Horizontal")
    BY DEF RowsOf
  <2> DEFINE one == RowOf(ps, q, i)
             two == RowOf(qs, q, i)
  <2>2. /\ one \in Seq(Panes) /\ two \in Seq(Panes) /\ Len(one) \in 1..q /\ Len(one) = Len(two)
    BY <1>1, <1>3, RowOfIs
  <2> HIDE DEF one, two
  <2>3. Len(one) >= 1 /\ Len(one) <= MaxPanes
    BY <2>2, <1>1, <1>3, MaxPanesIs
  <2>4. ShapeOf[Chained(one, "Horizontal")] = ShapeOf[Chained(two, "Horizontal")]
    BY <2>2, <2>3, <1>d, ChainedShape
  <2> QED BY <2>1, <2>4 DEF one, two
<1> HIDE DEF m, nodes, others
<1>7. SameShapes(nodes, others, m)
  BY <1>6 DEF SameShapes
<1>8. m \in Nat /\ m >= 1 /\ q - 1 \in Nat /\ (q - 1) + m - 1 <= MaxPanes
  BY <1>1, <1>3, <1>4, MaxPanesIs
<1>9. ShapeOf[StackEven(nodes, "Vertical")] = ShapeOf[StackEven(others, "Vertical")]
  BY <1>5, <1>7, <1>8, <1>d, StackShape
<1> QED BY <1>2, <1>9

Kinds == {Cycle[i] : i \in DOMAIN Cycle}

LEMMA KindsAre ==
  /\ Kinds = {"EvenHorizontal", "EvenVertical", "MainVertical", "MainHorizontal", "Tiled"}
  /\ NoKind \notin Kinds
  /\ \A k \in Kinds \cup {NoKind} : NextKind(k) \in Kinds /\ PrevKind(k) \in Kinds
<1>1. /\ DOMAIN Cycle = 1..5 /\ Len(Cycle) = 5
      /\ Cycle[1] = "EvenHorizontal" /\ Cycle[2] = "EvenVertical" /\ Cycle[3] = "MainVertical"
      /\ Cycle[4] = "MainHorizontal" /\ Cycle[5] = "Tiled"
  BY DEF Cycle
<1>2. Kinds = {"EvenHorizontal", "EvenVertical", "MainVertical", "MainHorizontal", "Tiled"}
  BY <1>1 DEF Kinds
<1>3. NoKind \notin Kinds
  BY <1>2 DEF NoKind
<1>4. \A i \in 1..5 : Cycle[i] \in Kinds
  BY <1>1 DEF Kinds
<1>5. ASSUME NEW k \in Kinds PROVE IndexOf(Cycle, k) \in 1..5 /\ Cycle[IndexOf(Cycle, k)] = k
  <2>1. \E i \in DOMAIN Cycle : Cycle[i] = k
    BY DEF Kinds
  <2> QED BY <2>1, <1>1 DEF IndexOf
<1>6. Last(Cycle) = Cycle[5]
  BY <1>1 DEF Last
<1>7. ASSUME NEW k \in Kinds PROVE CyclicNext(Cycle, k) \in Kinds /\ CyclicPrev(Cycle, k) \in Kinds
  <2> DEFINE j == IndexOf(Cycle, k)
  <2>1. j \in 1..5 /\ Cycle[j] = k
    BY <1>5
  <2> HIDE DEF j
  <2>2. k # Last(Cycle) => j + 1 \in 1..5
    BY <2>1, <1>6
  <2>3. k # Cycle[1] => j - 1 \in 1..5
    BY <2>1
  <2>4. /\ k # Last(Cycle) => Cycle[j + 1] \in Kinds
        /\ k # Cycle[1] => Cycle[j - 1] \in Kinds
        /\ Cycle[1] \in Kinds /\ Last(Cycle) \in Kinds
    BY <2>2, <2>3, <1>4, <1>6
  <2> QED BY <2>4 DEF CyclicNext, CyclicPrev, j
<1>8. ASSUME NEW k \in Kinds \cup {NoKind} PROVE NextKind(k) \in Kinds /\ PrevKind(k) \in Kinds
  BY <1>4, <1>6, <1>7 DEF NextKind, PrevKind
<1> QED BY <1>2, <1>3, <1>8

\* A preset layout keeps the panes and their order.
LEMMA ArrangedIs ==
  ASSUME NEW kind \in Kinds, NEW ps \in Seq(Panes), Len(ps) >= 1, Len(ps) <= MaxPanes
  PROVE  Arrange(kind, ps) \in Trees /\ LeavesOf[Arrange(kind, ps)] = ps
<1>1. "Horizontal" \in Dirs /\ "Vertical" \in Dirs
  BY DEF Dirs
<1>2. /\ Chained(ps, "Horizontal") \in Trees /\ LeavesOf[Chained(ps, "Horizontal")] = ps
      /\ Chained(ps, "Vertical") \in Trees /\ LeavesOf[Chained(ps, "Vertical")] = ps
  BY <1>1, ChainedIs
<1>3. /\ MainAndStack(ps, "Horizontal") \in Trees /\ LeavesOf[MainAndStack(ps, "Horizontal")] = ps
      /\ MainAndStack(ps, "Vertical") \in Trees /\ LeavesOf[MainAndStack(ps, "Vertical")] = ps
  BY <1>1, MainAndStackIs
<1>4. Tiled(ps) \in Trees /\ LeavesOf[Tiled(ps)] = ps
  BY TiledIs
<1> QED BY <1>2, <1>3, <1>4, KindsAre DEF Arrange

\* Its shape depends on their number.
LEMMA ArrangedShape ==
  ASSUME NEW kind \in Kinds, NEW ps \in Seq(Panes), NEW qs \in Seq(Panes),
         Len(ps) = Len(qs), Len(ps) >= 1, Len(ps) <= MaxPanes
  PROVE  ShapeOf[Arrange(kind, ps)] = ShapeOf[Arrange(kind, qs)]
<1>1. "Horizontal" \in Dirs /\ "Vertical" \in Dirs
  BY DEF Dirs
<1>2. /\ ShapeOf[Chained(ps, "Horizontal")] = ShapeOf[Chained(qs, "Horizontal")]
      /\ ShapeOf[Chained(ps, "Vertical")] = ShapeOf[Chained(qs, "Vertical")]
  BY <1>1, ChainedShape
<1>3. /\ ShapeOf[MainAndStack(ps, "Horizontal")] = ShapeOf[MainAndStack(qs, "Horizontal")]
      /\ ShapeOf[MainAndStack(ps, "Vertical")] = ShapeOf[MainAndStack(qs, "Vertical")]
  BY <1>1, MainAndStackShape
<1>4. ShapeOf[Tiled(ps)] = ShapeOf[Tiled(qs)]
  BY TiledShape
<1> QED BY <1>2, <1>3, <1>4, KindsAre DEF Arrange

-----------------------------------------------------------------------------
(* Dividers moved.                                                         *)

\* A tree of the same height, leaves and shape.
Alike(t, u, n) ==
  /\ u \in TreesUpTo[n] /\ u \in Trees
  /\ LeavesOf[u] = LeavesOf[t] /\ ShapeOf[u] = ShapeOf[t]

LEMMA AlikeItself ==
  ASSUME NEW n \in Nat, n <= MaxPanes, NEW t \in TreesUpTo[n]
  PROVE  Alike(t, t, n)
BY LowEnough DEF Alike

LEMMA AlikeSplit ==
  ASSUME NEW n \in Nat, n <= MaxPanes, NEW t \in TreesUpTo[n], ~ IsLeaf(t),
         NEW r \in Ratios, NEW a, NEW b, Alike(t.first, a, n - 1), Alike(t.second, b, n - 1)
  PROVE  Alike(t, Split(t.dir, r, a, b), n)
<1>1. /\ n - 1 \in Nat /\ (n - 1) + 1 = n /\ t.dir \in Dirs
  BY SidesAreLower
<1>2. t \in Trees
  BY LowEnough
<1> DEFINE u == Split(t.dir, r, a, b)
<1>3. u \in TreesUpTo[n] /\ u \in Trees
  <2>1. u \in TreesUpTo[(n - 1) + 1]
    BY <1>1, SplitIsHigher DEF Alike
  <2> QED BY <2>1, <1>1, LowEnough
<1>4. /\ LeavesOf[u] = Joined(LeavesOf[a], LeavesOf[b])
      /\ ShapeOf[u] = Shaped(t.dir, ShapeOf[a], ShapeOf[b])
  BY <1>3, SplitLeaves
<1>5. /\ LeavesOf[t] = Joined(LeavesOf[t.first], LeavesOf[t.second])
      /\ ShapeOf[t] = Shaped(t.dir, ShapeOf[t.first], ShapeOf[t.second])
  BY <1>2, LeavesOfIs, ShapeOfIs
<1> QED BY <1>3, <1>4, <1>5 DEF Alike

\* The node at a path that goes on from a split.
LEMMA NodeBelow ==
  ASSUME NEW t \in Trees, ~ IsLeaf(t), NEW way \in Paths
  PROVE  /\ way = << >> => NodeAt(t, way) = t
         /\ way # << >> /\ way[1] = "first" => NodeAt(t, way) = NodeAt(t.first, Tail(way))
         /\ way # << >> /\ way[1] # "first" => NodeAt(t, way) = NodeAt(t.second, Tail(way))
BY NodeAtIs

LEMMA SidesAt ==
  ASSUME NEW t \in Trees, ~ IsLeaf(t), NEW way \in Paths
  PROVE  /\ way = << >> => Sides(t, way) = <<ToSet(LeavesOf[t.first]), ToSet(LeavesOf[t.second])>>
         /\ way # << >> /\ way[1] = "first" => Sides(t, way) = Sides(t.first, Tail(way))
         /\ way # << >> /\ way[1] # "first" => Sides(t, way) = Sides(t.second, Tail(way))
BY NodeBelow DEF Sides

LEMMA SameWay ==
  ASSUME NEW p \in Paths, NEW q \in Paths, p # << >>, q # << >>, p[1] = q[1], Tail(p) = Tail(q)
  PROVE  p = q
<1>1. /\ Len(p) \in Nat /\ Len(p) >= 1 /\ Len(Tail(p)) = Len(p) - 1
      /\ \A i \in 1..Len(p) - 1 : Tail(p)[i] = p[i + 1]
  BY DEF Paths
<1>2. /\ Len(q) \in Nat /\ Len(q) >= 1 /\ Len(Tail(q)) = Len(q) - 1
      /\ \A i \in 1..Len(q) - 1 : Tail(q)[i] = q[i + 1]
  BY DEF Paths
<1>3. Len(p) = Len(q)
  <2> DEFINE m == Len(p)
             n == Len(q)
             l == Len(Tail(p))
  <2>1. m \in Nat /\ l = m - 1
    BY <1>1
  <2>2. n \in Nat /\ Len(Tail(q)) = n - 1
    BY <1>2
  <2>3. l = n - 1
    BY <2>2
  <2> HIDE DEF m, n, l
  <2>4. m = n
    BY <2>1, <2>2, <2>3
  <2> QED BY <2>4 DEF m, n
<1>4. ASSUME NEW i \in 1..Len(p) PROVE p[i] = q[i]
  <2>1. CASE i = 1
    BY <2>1
  <2>2. CASE i # 1
    <3>1. i - 1 \in 1..Len(p) - 1 /\ (i - 1) + 1 = i
      BY <2>2, <1>1
    <3> QED BY <3>1, <1>1, <1>2, <1>3
  <2> QED BY <2>1, <2>2
<1> QED BY <1>3, <1>4 DEF Paths

\* divider_at finds dividers.
LEMMA FoundDivider ==
  ASSUME NEW at
  PROVE  \A t \in Trees, a \in Rects :
           DividerAt(t, at, a) # NoPath => ~ IsLeaf(NodeAt(t, DividerAt(t, at, a)))
<1> DEFINE S == {t \in Trees : \A a \in Rects :
                   DividerAt(t, at, a) # NoPath => ~ IsLeaf(NodeAt(t, DividerAt(t, at, a)))}
<1>1. ASSUME NEW t \in Trees, IsLeaf(t) PROVE t \in S
  BY <1>1, DividerAtIs
<1>2. ASSUME NEW t \in Trees, ~ IsLeaf(t), t.first \in S, t.second \in S PROVE t \in S
  <2> SUFFICES ASSUME NEW a \in Rects, DividerAt(t, at, a) # NoPath
               PROVE  ~ IsLeaf(NodeAt(t, DividerAt(t, at, a)))
    OBVIOUS
  <2> DEFINE way == DividerAt(t, at, a)
             one == DividerAt(t.first, at, Areas(t, a)[1])
             two == DividerAt(t.second, at, Areas(t, a)[2])
  <2>1. Areas(t, a)[1] \in Rects /\ Areas(t, a)[2] \in Rects
    BY <1>2, AreasIs
  <2>2. t.first \in Trees /\ t.second \in Trees
    BY <1>2
  <2>3. way = Found(t, at, a, one, two) /\ way \in Paths
    BY <1>2, DividerAtIs
  <2>4. /\ one \in Paths \cup {NoPath} /\ (one # NoPath => ~ IsLeaf(NodeAt(t.first, one)))
        /\ two \in Paths \cup {NoPath} /\ (two # NoPath => ~ IsLeaf(NodeAt(t.second, two)))
    BY <1>2, <2>1, <2>2, DividerAtIs
  <2>5. way \in {<< >>, Step("first", one), Step("second", two)}
    BY <2>3 DEF Found
  <2> HIDE DEF one, two, way
  <2>6. CASE way = << >>
    BY <2>6, <2>3, <1>2, NodeBelow DEF way
  <2>7. CASE way = Step("first", one) /\ way # << >>
    <3>1. one \in Paths /\ one # NoPath /\ way = <<"first">> \o one
      BY <2>3, <2>4, <2>7, PathIs DEF Step
    <3>2. way[1] = "first" /\ Tail(way) = one
      BY <3>1, PathIs
    <3>3. NodeAt(t, way) = NodeAt(t.first, one)
      BY <3>2, <2>3, <2>7, <1>2, NodeBelow
    <3> QED BY <3>1, <3>3, <2>4 DEF way
  <2>8. CASE way = Step("second", two) /\ way # << >>
    <3>1. two \in Paths /\ two # NoPath /\ way = <<"second">> \o two
      BY <2>3, <2>4, <2>8, PathIs DEF Step
    <3>2. way[1] = "second" /\ Tail(way) = two
      BY <3>1, PathIs
    <3>3. NodeAt(t, way) = NodeAt(t.second, two)
      BY <3>2, <2>3, <2>8, <1>2, NodeBelow
    <3> QED BY <3>1, <3>3, <2>4 DEF way
  <2> QED BY <2>5, <2>6, <2>7, <2>8
<1> HIDE DEF S
<1>3. Trees \subseteq S
  BY <1>1, <1>2, FromTheLeaves
<1> QED BY <1>3 DEF S

\* What set_ratio_by_path leaves as it was: all but the ratio at the end of the
\* path.
OthersStay(t, u, way) == \A other \in Paths \ {way} : RatioStays(t, u, other)

AfterMove(t, u, way, n) ==
  /\ Alike(t, u, n)
  /\ Sides(u, way) = Sides(t, way)
  /\ IsLeaf(NodeAt(u, way)) <=> IsLeaf(NodeAt(t, way))
  /\ OthersStay(t, u, way)

\* A split one of whose sides was changed in this way.
LEMMA FirstMoved ==
  ASSUME NEW t \in Trees, ~ IsLeaf(t), NEW u \in Trees, ~ IsLeaf(u), u.ratio = t.ratio, u.second = t.second,
         NEW way \in Paths, way # << >>, way[1] = "first", OthersStay(t.first, u.first, Tail(way))
  PROVE  OthersStay(t, u, way)
<1> SUFFICES ASSUME NEW other \in Paths \ {way} PROVE RatioStays(t, u, other)
  BY DEF OthersStay
<1>1. CASE other = << >>
  BY <1>1, NodeBelow DEF RatioStays
<1>2. CASE other # << >> /\ other[1] = "first"
  <2>1. Tail(other) \in Paths /\ Tail(other) # Tail(way)
    BY <1>2, PathIs, SameWay
  <2>2. RatioStays(t.first, u.first, Tail(other))
    BY <2>1 DEF OthersStay
  <2>3. NodeAt(t, other) = NodeAt(t.first, Tail(other)) /\ NodeAt(u, other) = NodeAt(u.first, Tail(other))
    BY <1>2, NodeBelow
  <2> QED BY <2>2, <2>3 DEF RatioStays
<1>3. CASE other # << >> /\ other[1] # "first"
  BY <1>3, NodeBelow DEF RatioStays
<1> QED BY <1>1, <1>2, <1>3

LEMMA SecondMoved ==
  ASSUME NEW t \in Trees, ~ IsLeaf(t), NEW u \in Trees, ~ IsLeaf(u), u.ratio = t.ratio, u.first = t.first,
         NEW way \in Paths, way # << >>, way[1] # "first", OthersStay(t.second, u.second, Tail(way))
  PROVE  OthersStay(t, u, way)
<1> SUFFICES ASSUME NEW other \in Paths \ {way} PROVE RatioStays(t, u, other)
  BY DEF OthersStay
<1>1. CASE other = << >>
  BY <1>1, NodeBelow DEF RatioStays
<1>2. CASE other # << >> /\ other[1] # "first"
  <2>1. other[1] = "second" /\ way[1] = "second" /\ Tail(other) \in Paths
    BY <1>2, PathIs
  <2>2. Tail(other) # Tail(way)
    BY <1>2, <2>1, SameWay
  <2>3. RatioStays(t.second, u.second, Tail(other))
    BY <2>1, <2>2 DEF OthersStay
  <2>4. NodeAt(t, other) = NodeAt(t.second, Tail(other)) /\ NodeAt(u, other) = NodeAt(u.second, Tail(other))
    BY <1>2, NodeBelow
  <2> QED BY <2>3, <2>4 DEF RatioStays
<1>3. CASE other # << >> /\ other[1] = "first"
  BY <1>3, NodeBelow DEF RatioStays
<1> QED BY <1>1, <1>2, <1>3

LEMMA DividerMoved ==
  ASSUME NEW at \in Nat \X Nat
  PROVE  \A t \in Trees, n \in Nat, way \in Paths, a \in Rects :
           n <= MaxPanes /\ t \in TreesUpTo[n] => AfterMove(t, SetRatio(t, way, at, a), way, n)
<1> DEFINE S == {t \in Trees : \A n \in Nat, way \in Paths, a \in Rects :
                   n <= MaxPanes /\ t \in TreesUpTo[n] =>
                     AfterMove(t, SetRatio(t, way, at, a), way, n)}
<1>1. ASSUME NEW t \in Trees, IsLeaf(t) PROVE t \in S
  <2> SUFFICES ASSUME NEW n \in Nat, NEW way \in Paths, NEW a \in Rects,
                      n <= MaxPanes, t \in TreesUpTo[n]
               PROVE  AfterMove(t, SetRatio(t, way, at, a), way, n)
    OBVIOUS
  <2>1. SetRatio(t, way, at, a) = t
    BY <1>1, SetRatioIs
  <2>2. Alike(t, t, n)
    BY AlikeItself
  <2> QED BY <2>1, <2>2 DEF AfterMove, OthersStay, RatioStays
<1>2. ASSUME NEW t \in Trees, ~ IsLeaf(t), t.first \in S, t.second \in S PROVE t \in S
  <2> SUFFICES ASSUME NEW n \in Nat, NEW way \in Paths, NEW a \in Rects,
                      n <= MaxPanes, t \in TreesUpTo[n]
               PROVE  AfterMove(t, SetRatio(t, way, at, a), way, n)
    OBVIOUS
  <2> DEFINE one == SetRatio(t.first, Tail(way), at, Areas(t, a)[1])
             two == SetRatio(t.second, Tail(way), at, Areas(t, a)[2])
             u == SetRatio(t, way, at, a)
  <2>1. u = Moved(t, way, at, a, one, two)
    BY <1>2, SetRatioIs
  <2>2. /\ n - 1 \in Nat /\ n - 1 <= MaxPanes
        /\ t.first \in TreesUpTo[n - 1] /\ t.second \in TreesUpTo[n - 1]
        /\ t.dir \in Dirs /\ t.ratio \in Ratios
    BY <1>2, SidesAreLower, MaxPanesIs
  <2>3. Alike(t.first, t.first, n - 1) /\ Alike(t.second, t.second, n - 1)
    BY <2>2, AlikeItself
  <2>4. Areas(t, a)[1] \in Rects /\ Areas(t, a)[2] \in Rects
    BY <1>2, AreasIs
  <2>5. CASE way = << >>
    <3>1. PICK r \in Ratios : u = Split(t.dir, r, t.first, t.second)
      BY <1>2, <2>1, <2>5, DividerUnderIs DEF Moved
    <3>2. Alike(t, u, n)
      BY <3>1, <2>3, <1>2, AlikeSplit
    <3>3. ~ IsLeaf(u) /\ u.first = t.first /\ u.second = t.second
      BY <3>1, SplitIs
    <3>4. Sides(u, way) = Sides(t, way)
      BY <3>2, <3>3, <2>5, <1>2, SidesAt DEF Alike
    <3>5. u \in Trees
      BY <3>2 DEF Alike
    <3> HIDE DEF u
    <3>6. ~ IsLeaf(NodeAt(u, way)) /\ ~ IsLeaf(NodeAt(t, way))
      BY <3>3, <3>5, <2>5, <1>2, NodeBelow
    <3>7. ASSUME NEW other \in Paths \ {way} PROVE RatioStays(t, u, other)
      BY <3>3, <3>5, <2>5, <1>2, NodeBelow DEF RatioStays
    <3> QED BY <3>2, <3>4, <3>6, <3>7 DEF AfterMove, OthersStay, u
  <2>6. CASE way # << >> /\ way[1] = "first"
    <3>1. Tail(way) \in Paths
      BY <2>6, PathIs
    <3>2. AfterMove(t.first, one, Tail(way), n - 1)
      BY <3>1, <2>2, <2>4, <1>2
    <3> HIDE DEF one, two
    <3>3. u = Split(t.dir, t.ratio, one, t.second)
      BY <2>1, <2>6 DEF Moved
    <3>4. Alike(t, u, n)
      BY <3>2, <3>3, <2>2, <2>3, <1>2, AlikeSplit DEF AfterMove
    <3>5. ~ IsLeaf(u) /\ u.first = one /\ u.second = t.second /\ u.ratio = t.ratio
      BY <3>3, SplitIs
    <3>6. u \in Trees
      BY <3>4 DEF Alike
    <3> HIDE DEF u
    <3>7. Sides(u, way) = Sides(one, Tail(way)) /\ Sides(t, way) = Sides(t.first, Tail(way))
      BY <3>5, <3>6, <2>6, <1>2, SidesAt
    <3>8. NodeAt(u, way) = NodeAt(one, Tail(way)) /\ NodeAt(t, way) = NodeAt(t.first, Tail(way))
      BY <3>5, <3>6, <2>6, <1>2, NodeBelow
    <3>9. OthersStay(t, u, way)
      BY <3>2, <3>5, <3>6, <2>6, <1>2, FirstMoved DEF AfterMove
    <3> QED BY <3>2, <3>4, <3>7, <3>8, <3>9 DEF AfterMove, u
  <2>7. CASE way # << >> /\ way[1] # "first"
    <3>1. Tail(way) \in Paths
      BY <2>7, PathIs
    <3>2. AfterMove(t.second, two, Tail(way), n - 1)
      BY <3>1, <2>2, <2>4, <1>2
    <3> HIDE DEF one, two
    <3>3. u = Split(t.dir, t.ratio, t.first, two)
      BY <2>1, <2>7 DEF Moved
    <3>4. Alike(t, u, n)
      BY <3>2, <3>3, <2>2, <2>3, <1>2, AlikeSplit DEF AfterMove
    <3>5. ~ IsLeaf(u) /\ u.second = two /\ u.first = t.first /\ u.ratio = t.ratio
      BY <3>3, SplitIs
    <3>6. u \in Trees
      BY <3>4 DEF Alike
    <3> HIDE DEF u
    <3>7. Sides(u, way) = Sides(two, Tail(way)) /\ Sides(t, way) = Sides(t.second, Tail(way))
      BY <3>5, <3>6, <2>7, <1>2, SidesAt
    <3>8. NodeAt(u, way) = NodeAt(two, Tail(way)) /\ NodeAt(t, way) = NodeAt(t.second, Tail(way))
      BY <3>5, <3>6, <2>7, <1>2, NodeBelow
    <3>9. OthersStay(t, u, way)
      BY <3>2, <3>5, <3>6, <2>7, <1>2, SecondMoved DEF AfterMove
    <3> QED BY <3>2, <3>4, <3>7, <3>8, <3>9 DEF AfterMove, u
  <2> QED BY <2>5, <2>6, <2>7
<1> HIDE DEF S
<1>3. Trees \subseteq S
  BY <1>1, <1>2, FromTheLeaves
<1> QED BY <1>3 DEF S

LEMMA PaneResized ==
  ASSUME NEW p \in Panes, NEW d \in Dirs, NEW k \in Int
  PROVE  \A t \in Trees, n \in Nat :
           n <= MaxPanes /\ t \in TreesUpTo[n] => Alike(t, ResizePane(t, p, d, k).tree, n)
<1> DEFINE S == {t \in Trees : \A n \in Nat :
                   n <= MaxPanes /\ t \in TreesUpTo[n] => Alike(t, ResizePane(t, p, d, k).tree, n)}
<1>1. ASSUME NEW t \in Trees, IsLeaf(t) PROVE t \in S
  <2>1. ResizePane(t, p, d, k).tree = t
    BY <1>1, ResizePaneIs
  <2> QED BY <2>1, AlikeItself
<1>2. ASSUME NEW t \in Trees, ~ IsLeaf(t), t.first \in S, t.second \in S PROVE t \in S
  <2> SUFFICES ASSUME NEW n \in Nat, n <= MaxPanes, t \in TreesUpTo[n]
               PROVE  Alike(t, ResizePane(t, p, d, k).tree, n)
    OBVIOUS
  <2> DEFINE one == ResizePane(t.first, p, d, k)
             two == ResizePane(t.second, p, d, k)
  <2>1. ResizePane(t, p, d, k) = Resized(t, p, d, k, one, two)
    BY <1>2, ResizePaneIs
  <2>2. /\ n - 1 \in Nat /\ n - 1 <= MaxPanes
        /\ t.first \in TreesUpTo[n - 1] /\ t.second \in TreesUpTo[n - 1]
        /\ t.dir \in Dirs /\ t.ratio \in Ratios
    BY <1>2, SidesAreLower, MaxPanesIs
  <2>3. Alike(t.first, t.first, n - 1) /\ Alike(t.second, t.second, n - 1)
    BY <2>2, AlikeItself
  <2>4. Alike(t.first, one.tree, n - 1) /\ Alike(t.second, two.tree, n - 1)
    BY <1>2, <2>2
  <2> DEFINE r == Clamped(20 * t.ratio[1] + k * t.ratio[2], 20 * t.ratio[2])
  <2>5. r \in Ratios
    BY <2>2, NudgedIs
  <2> HIDE DEF one, two, r
  <2>6. /\ Alike(t, Split(t.dir, t.ratio, one.tree, t.second), n)
        /\ Alike(t, Split(t.dir, t.ratio, t.first, two.tree), n)
        /\ Alike(t, Split(t.dir, r, t.first, t.second), n)
        /\ Alike(t, t, n)
    BY <1>2, <2>2, <2>3, <2>4, <2>5, AlikeSplit, AlikeItself
  <2>7. Resized(t, p, d, k, one, two).tree \in
          {Split(t.dir, t.ratio, one.tree, t.second), Split(t.dir, t.ratio, t.first, two.tree),
           Split(t.dir, r, t.first, t.second), t}
    BY DEF Resized, r
  <2> QED BY <2>1, <2>6, <2>7
<1> HIDE DEF S
<1>3. Trees \subseteq S
  BY <1>1, <1>2, FromTheLeaves
<1> QED BY <1>3 DEF S

-----------------------------------------------------------------------------
(* The panes on the screen.                                                *)

LEMMA CellsAre ==
  ASSUME NEW r \in Rects
  PROVE  Cells(r) = {at \in Int \X Int : Covers(r, at)}
<1>1. r.x \in Nat /\ r.y \in Nat /\ r.cols \in Nat /\ r.rows \in Nat
  BY DEF Rects
<1>2. ASSUME NEW i, NEW j
      PROVE  <<i, j>> \in Cells(r) <=> i \in Int /\ j \in Int /\ Covers(r, <<i, j>>)
  BY <1>1 DEF Cells, Covers
<1>3. ASSUME NEW at \in Cells(r) PROVE at \in Int \X Int /\ Covers(r, at)
  <2>1. PICK i, j : at = <<i, j>>
    BY DEF Cells
  <2> QED BY <2>1, <1>2
<1>4. ASSUME NEW at \in Int \X Int, Covers(r, at) PROVE at \in Cells(r)
  <2>1. PICK i \in Int, j \in Int : at = <<i, j>>
    OBVIOUS
  <2> QED BY <2>1, <1>2, <1>4
<1> QED BY <1>3, <1>4

\* The areas of the two sides of a split are apart and inside of it, and what
\* neither has is the divider.
LEMMA AreasApart ==
  ASSUME NEW area \in Rects, NEW d \in Dirs, NEW ratio \in Ratios, NEW at \in Int \X Int
  PROVE  LET both == SplitRect(area, d, ratio)
         IN  /\ Covers(both[1], at) => Covers(area, at)
             /\ Covers(both[2], at) => Covers(area, at)
             /\ ~ (Covers(both[1], at) /\ Covers(both[2], at))
             /\ Covers(area, at) /\ ~ Covers(both[1], at) /\ ~ Covers(both[2], at)
                  => OnDivider(d, both[1], area, at)
<1>1. /\ area.x \in Nat /\ area.y \in Nat /\ area.cols \in Nat /\ area.rows \in Nat
      /\ at[1] \in Int /\ at[2] \in Int
  BY DEF Rects
<1>2. CASE d = "Horizontal"
  <2> DEFINE n == FirstCells(area.cols, ratio)
             u == Usable(area.cols)
  <2>1. n \in Nat /\ u \in Nat /\ n <= u
    BY <1>1, FirstCellsIs
  <2>2. u = IF area.cols = 0 THEN 0 ELSE area.cols - 1
    BY DEF Usable
  <2>3. SplitRect(area, d, ratio) = <<Rect(area.x, area.y, n, area.rows),
                                      Rect(area.x + n + 1, area.y, u - n, area.rows)>>
    BY <1>2 DEF SplitRect
  <2> HIDE DEF n, u
  <2> QED BY <1>1, <1>2, <2>1, <2>2, <2>3 DEF Rect, Covers, OnDivider, Near, Abs
<1>3. CASE d = "Vertical"
  <2> DEFINE n == FirstCells(area.rows, ratio)
             u == Usable(area.rows)
  <2>1. n \in Nat /\ u \in Nat /\ n <= u
    BY <1>1, FirstCellsIs
  <2>2. u = IF area.rows = 0 THEN 0 ELSE area.rows - 1
    BY DEF Usable
  <2>3. SplitRect(area, d, ratio) = <<Rect(area.x, area.y, area.cols, n),
                                      Rect(area.x, area.y + n + 1, area.cols, u - n)>>
    BY <1>3 DEF SplitRect
  <2> HIDE DEF n, u
  <2> QED BY <1>1, <1>3, <2>1, <2>2, <2>3 DEF Rect, Covers, OnDivider, Near, Abs
<1> QED BY <1>2, <1>3 DEF Dirs

\* The panes of a tree in an area: all there, inside it, apart, and a divider
\* in reach of every other cell.
Apart(f) == \A p, q \in DOMAIN f : p # q => Cells(f[p]) \cap Cells(f[q]) = {}
Within(f, a) == \A p \in DOMAIN f : f[p] \in Rects /\ Cells(f[p]) \subseteq Cells(a)
Uncovered(f, at) == \A p \in DOMAIN f : at \notin Cells(f[p])
Reached(t, f, a) == \A at \in Cells(a) : Uncovered(f, at) => DividerAt(t, at, a) # NoPath

Tiling(t, a) ==
  /\ DOMAIN Place(t, a) = ToSet(LeavesOf[t])
  /\ Within(Place(t, a), a) /\ Apart(Place(t, a)) /\ Reached(t, Place(t, a), a)

LEMMA StepIs ==
  ASSUME NEW child \in {"first", "second"}, NEW path \in Paths
  PROVE  Step(child, path) # NoPath
<1>1. <<child>> \o path \in Paths
  BY PathIs
<1> QED BY <1>1, PathIs DEF Step

LEMMA TilesOfLeaf ==
  ASSUME NEW t \in Trees, IsLeaf(t), NEW a \in Rects
  PROVE  Tiling(t, a)
<1> DEFINE f == Place(t, a)
<1>1. t.pane \in Panes /\ f = Alone(t.pane, a)
  BY PlaceIs, TreeIs
<1> HIDE DEF f
<1>2. DOMAIN f = {t.pane} /\ f[t.pane] = a
  BY <1>1, PlacementIs
<1>3. ToSet(LeavesOf[t]) = {t.pane}
  BY JoinedLeaves, OneLeaf
<1>4. Within(f, a) /\ Apart(f) /\ Reached(t, f, a)
  BY <1>2 DEF Within, Apart, Reached, Uncovered
<1> QED BY <1>2, <1>3, <1>4 DEF Tiling, f

LEMMA TilesOfSplit ==
  ASSUME NEW t \in Trees, ~ IsLeaf(t), NEW a \in Rects, IsInjective(LeavesOf[t]),
         Tiling(t.first, Areas(t, a)[1]), Tiling(t.second, Areas(t, a)[2])
  PROVE  Tiling(t, a)
<1> DEFINE both == Areas(t, a)
           r1 == both[1]
           r2 == both[2]
           one == Place(t.first, r1)
           two == Place(t.second, r2)
           f == Place(t, a)
<1>1. r1 \in Rects /\ r2 \in Rects
  BY AreasIs
<1>2. t.first \in Trees /\ t.second \in Trees /\ t.dir \in Dirs /\ t.ratio \in Ratios
  BY TreeIs
<1>3. f = Beside(one, two)
  BY PlaceIs
<1>4. one \in Placements /\ two \in Placements
  BY <1>1, <1>2, PlaceIs
<1>5. /\ ToSet(LeavesOf[t]) = ToSet(LeavesOf[t.first]) \cup ToSet(LeavesOf[t.second])
      /\ ToSet(LeavesOf[t.first]) \cap ToSet(LeavesOf[t.second]) = {}
  BY JoinedLeaves, JoinedElements, JoinedInjective
<1>6. /\ DOMAIN one = ToSet(LeavesOf[t.first]) /\ DOMAIN two = ToSet(LeavesOf[t.second])
      /\ Within(one, r1) /\ Apart(one) /\ Reached(t.first, one, r1)
      /\ Within(two, r2) /\ Apart(two) /\ Reached(t.second, two, r2)
  BY DEF Tiling
<1>7. both = SplitRect(a, t.dir, t.ratio)
  BY DEF Areas
<1>8. /\ Cells(a) = {at \in Int \X Int : Covers(a, at)}
      /\ Cells(r1) = {at \in Int \X Int : Covers(r1, at)}
      /\ Cells(r2) = {at \in Int \X Int : Covers(r2, at)}
  BY <1>1, CellsAre
<1>9. /\ \A at \in Int \X Int :
           DividerAt(t, at, a) = Found(t, at, a, DividerAt(t.first, at, r1), DividerAt(t.second, at, r2))
      /\ \A at \in Int \X Int : /\ DividerAt(t.first, at, r1) \in Paths \cup {NoPath}
                                /\ DividerAt(t.second, at, r2) \in Paths \cup {NoPath}
  BY <1>1, <1>2, DividerAtIs
<1> HIDE DEF both, r1, r2, one, two, f
<1>10. ASSUME NEW at \in Int \X Int
       PROVE  /\ Covers(r1, at) => Covers(a, at)
              /\ Covers(r2, at) => Covers(a, at)
              /\ ~ (Covers(r1, at) /\ Covers(r2, at))
              /\ Covers(a, at) /\ ~ Covers(r1, at) /\ ~ Covers(r2, at) => OnDivider(t.dir, r1, a, at)
  BY <1>2, <1>7, AreasApart DEF r1, r2
<1>11. Cells(r1) \subseteq Cells(a) /\ Cells(r2) \subseteq Cells(a) /\ Cells(r1) \cap Cells(r2) = {}
  BY <1>8, <1>10
<1>12. /\ DOMAIN f = DOMAIN one \cup DOMAIN two /\ DOMAIN one \cap DOMAIN two = {}
       /\ \A p \in DOMAIN one : f[p] = one[p]
       /\ \A p \in DOMAIN two : f[p] = two[p]
  BY <1>3, <1>4, <1>5, <1>6, PlacementIs
<1>13. Within(f, a)
  BY <1>6, <1>11, <1>12 DEF Within
<1>14. Apart(f)
  <2> SUFFICES ASSUME NEW p \in DOMAIN f, NEW q \in DOMAIN f, p # q
               PROVE  Cells(f[p]) \cap Cells(f[q]) = {}
    BY DEF Apart
  <2>1. CASE p \in DOMAIN one /\ q \in DOMAIN one
    BY <2>1, <1>6, <1>12 DEF Apart
  <2>2. CASE p \in DOMAIN two /\ q \in DOMAIN two
    BY <2>2, <1>6, <1>12 DEF Apart
  <2>3. CASE p \in DOMAIN one /\ q \in DOMAIN two
    BY <2>3, <1>6, <1>11, <1>12 DEF Within
  <2>4. CASE p \in DOMAIN two /\ q \in DOMAIN one
    BY <2>4, <1>6, <1>11, <1>12 DEF Within
  <2> QED BY <2>1, <2>2, <2>3, <2>4, <1>12
<1>15. Reached(t, f, a)
  <2> SUFFICES ASSUME NEW at \in Cells(a), Uncovered(f, at)
               PROVE  DividerAt(t, at, a) # NoPath
    BY DEF Reached
  <2>1. Uncovered(one, at) /\ Uncovered(two, at)
    BY <1>12 DEF Uncovered
  <2>2. at \in Int \X Int /\ Covers(a, at)
    BY <1>8
  <2> DEFINE w1 == DividerAt(t.first, at, r1)
             w2 == DividerAt(t.second, at, r2)
  <2>3. /\ DividerAt(t, at, a) = Found(t, at, a, w1, w2)
        /\ w1 \in Paths \cup {NoPath} /\ w2 \in Paths \cup {NoPath}
    BY <1>9, <2>2
  <2>4. Covers(r1, at) => w1 # NoPath
    BY <1>6, <1>8, <2>1, <2>2 DEF Reached
  <2>5. Covers(r2, at) => w2 # NoPath
    BY <1>6, <1>8, <2>1, <2>2 DEF Reached
  <2> HIDE DEF w1, w2
  <2>6. Covers(r1, at) => Step("first", w1) # NoPath
    BY <2>3, <2>4, StepIs
  <2>7. Covers(r2, at) => Step("second", w2) # NoPath
    BY <2>3, <2>5, StepIs
  <2>8. ~ Covers(r1, at) /\ ~ Covers(r2, at) => OnDivider(t.dir, r1, a, at)
    BY <1>10, <2>2
  <2>9. << >> # NoPath
    BY PathIs
  <2>10. Found(t, at, a, w1, w2) = IF OnDivider(t.dir, r1, a, at) THEN << >>
                                   ELSE IF Covers(r1, at) THEN Step("first", w1)
                                   ELSE IF Covers(r2, at) THEN Step("second", w2)
                                   ELSE NoPath
    BY DEF Found, r1, r2, both
  <2> QED BY <2>3, <2>6, <2>7, <2>8, <2>9, <2>10
<1> QED BY <1>5, <1>6, <1>12, <1>13, <1>14, <1>15 DEF Tiling, f

\* In an area of any size, every tree whose panes are all different tiles it.
LEMMA TreesTile ==
  \A t \in Trees, a \in Rects : IsInjective(LeavesOf[t]) => Tiling(t, a)
<1> DEFINE S == {t \in Trees : \A a \in Rects : IsInjective(LeavesOf[t]) => Tiling(t, a)}
<1>1. ASSUME NEW t \in Trees, IsLeaf(t) PROVE t \in S
  BY <1>1, TilesOfLeaf
<1>2. ASSUME NEW t \in Trees, ~ IsLeaf(t), t.first \in S, t.second \in S PROVE t \in S
  <2> SUFFICES ASSUME NEW a \in Rects, IsInjective(LeavesOf[t]) PROVE Tiling(t, a)
    OBVIOUS
  <2>1. IsInjective(LeavesOf[t.first]) /\ IsInjective(LeavesOf[t.second])
    BY <1>2, JoinedLeaves, JoinedInjective
  <2>2. Areas(t, a)[1] \in Rects /\ Areas(t, a)[2] \in Rects
    BY <1>2, AreasIs
  <2>3. Tiling(t.first, Areas(t, a)[1]) /\ Tiling(t.second, Areas(t, a)[2])
    BY <1>2, <2>1, <2>2
  <2> QED BY <1>2, <2>3, TilesOfSplit
<1> HIDE DEF S
<1>3. Trees \subseteq S
  BY <1>1, <1>2, FromTheLeaves
<1> QED BY <1>3 DEF S

-----------------------------------------------------------------------------
(* The edits of the sequence of leaves.                                    *)

\* A sequence without repetitions is as long as it has elements.
LEMMA AsManyElements ==
  ASSUME NEW R, NEW s \in Seq(R), IsInjective(s)
  PROVE  IsFiniteSet(ToSet(s)) /\ Cardinality(ToSet(s)) = Len(s)
<1> DEFINE T == {n \in Nat : \A q \in Seq(R) : Len(q) = n /\ IsInjective(q) =>
                   IsFiniteSet(ToSet(q)) /\ Cardinality(ToSet(q)) = n}
<1>1. 0 \in T
  <2>1. ASSUME NEW q \in Seq(R), Len(q) = 0 PROVE ToSet(q) = {}
    BY <2>1 DEF ToSet
  <2> QED BY <2>1, FS_EmptySet
<1>2. ASSUME NEW n \in Nat, n \in T PROVE n + 1 \in T
  <2> SUFFICES ASSUME NEW q \in Seq(R), Len(q) = n + 1, IsInjective(q)
               PROVE  IsFiniteSet(ToSet(q)) /\ Cardinality(ToSet(q)) = n + 1
    OBVIOUS
  <2> DEFINE a == SubSeq(q, 1, n)
             x == q[n + 1]
  <2>1. /\ a \in Seq(R) /\ Len(a) = n /\ \A i \in 1..n : a[i] = q[i]
    OBVIOUS
  <2>2. \A i, j \in 1..n + 1 : q[i] = q[j] => i = j
    BY InjectiveIs
  <2> HIDE DEF a
  <2>3. IsInjective(a)
    BY <2>1, <2>2, InjectiveIs
  <2>4. IsFiniteSet(ToSet(a)) /\ Cardinality(ToSet(a)) = n
    BY <1>2, <2>1, <2>3
  <2>5. ToSet(q) = {q[i] : i \in 1..n + 1}
    BY SequenceIs
  <2>a. ToSet(a) = {a[i] : i \in 1..n}
    BY <2>1, SequenceIs
  <2>6. ToSet(q) = ToSet(a) \cup {x} /\ x \notin ToSet(a)
    BY <2>1, <2>2, <2>5, <2>a
  <2> HIDE DEF x
  <2>7. IsFiniteSet(ToSet(a) \cup {x}) /\ Cardinality(ToSet(a) \cup {x}) = n + 1
    BY <2>4, <2>6, FS_AddElement
  <2> QED BY <2>6, <2>7
<1> HIDE DEF T
<1>3. Nat \subseteq T
  BY <1>1, <1>2, UpFromZero
<1>4. Len(s) \in T
  BY <1>3
<1> QED BY <1>4 DEF T

\* InsertAfter, Delete and Relabel keep a sequence without repetitions so.
LEMMA InsertedOnce ==
  ASSUME NEW R, NEW s \in Seq(R), IsInjective(s), NEW x \in ToSet(s), NEW e \in R, e \notin ToSet(s)
  PROVE  LET t == InsertAfter(s, x, e)
         IN  /\ t \in Seq(R) /\ Len(t) = Len(s) + 1 /\ IsInjective(t)
             /\ ToSet(t) = ToSet(s) \cup {e}
<1> DEFINE t == InsertAfter(s, x, e)
<1>1. PICK k \in 1..Len(s) : s[k] = x
  BY SequenceIs
<1>2. t \in Seq(R) /\ Inserted(t, s, k, e)
  BY <1>1, InsertedIs
<1> HIDE DEF t
<1>3. /\ Len(t) = Len(s) + 1
      /\ \A j \in 1..Len(s) + 1 : t[j] = IF j <= k THEN s[j] ELSE IF j = k + 1 THEN e ELSE s[j - 1]
  BY <1>2 DEF Inserted
<1> DEFINE n == Len(s)
<1>4. n \in Nat /\ k \in Nat /\ k >= 1 /\ k <= n
  BY SequenceIs
<1>5. /\ \A i \in 1..n : s[i] \in ToSet(s)
      /\ \A y \in ToSet(s) : \E i \in 1..n : s[i] = y
      /\ \A i, j \in 1..n : s[i] = s[j] => i = j
  BY SequenceIs, InjectiveIs
<1> HIDE DEF n
<1>6. /\ \A j \in 1..k : t[j] = s[j]
      /\ t[k + 1] = e
      /\ \A j \in k + 2..n + 1 : t[j] = s[j - 1] /\ j - 1 \in 1..n
  BY <1>3, <1>4 DEF n
<1>7. IsInjective(t)
  <2> SUFFICES ASSUME NEW i \in 1..n + 1, NEW j \in 1..n + 1, t[i] = t[j] PROVE i = j
    BY <1>2, <1>3, InjectiveIs DEF n
  <2> DEFINE back(m) == IF m <= k THEN m ELSE m - 1
  <2>1. \A m \in 1..n + 1 : m # k + 1 => back(m) \in 1..n /\ t[m] = s[back(m)]
    BY <1>4, <1>6
  <2>2. i # k + 1 /\ j # k + 1 => back(i) = back(j)
    BY <2>1, <1>5
  <2>3. i = k + 1 <=> j = k + 1
    BY <2>1, <1>5, <1>6
  <2> QED BY <2>2, <2>3, <1>4
<1>8. ToSet(t) = {t[i] : i \in 1..n + 1}
  <2>1. Len(t) = n + 1
    BY <1>3 DEF n
  <2> QED BY <1>2, <2>1, SequenceIs
<1>9. ASSUME NEW y \in ToSet(t) PROVE y \in ToSet(s) \cup {e}
  <2>1. PICK i \in 1..n + 1 : t[i] = y
    BY <1>8
  <2>2. i \in 1..k \/ i = k + 1 \/ i \in k + 2..n + 1
    BY <1>4
  <2>3. CASE i \in 1..k
    <3>1. i \in 1..n /\ t[i] = s[i]
      BY <2>3, <1>4, <1>6
    <3>2. s[i] \in ToSet(s)
      BY <3>1, <1>5
    <3> QED BY <3>1, <3>2, <2>1
  <2>4. CASE i = k + 1
    BY <2>4, <2>1, <1>6
  <2>5. CASE i \in k + 2..n + 1
    <3>1. i - 1 \in 1..n /\ t[i] = s[i - 1]
      BY <2>5, <1>6
    <3>2. s[i - 1] \in ToSet(s)
      BY <3>1, <1>5
    <3> QED BY <3>1, <3>2, <2>1
  <2> QED BY <2>2, <2>3, <2>4, <2>5
<1>10. ASSUME NEW y \in ToSet(s) PROVE y \in ToSet(t)
  <2>1. PICK i \in 1..n : s[i] = y
    BY <1>5
  <2>2. CASE i <= k
    <3>1. i \in 1..k /\ i \in 1..n + 1
      BY <2>1, <2>2, <1>4
    <3>2. t[i] = y
      BY <3>1, <2>1, <1>6
    <3> QED BY <3>1, <3>2, <1>8
  <2>3. CASE i > k
    <3>1. i + 1 \in k + 2..n + 1 /\ (i + 1) - 1 = i
      BY <2>3, <1>4
    <3>2. t[i + 1] = y
      BY <3>1, <2>1, <1>6
    <3> QED BY <3>1, <3>2, <1>4, <1>8
  <2> QED BY <2>2, <2>3, <1>4
<1>11. e \in ToSet(t)
  BY <1>4, <1>6, <1>8
<1> QED BY <1>2, <1>3, <1>7, <1>9, <1>10, <1>11 DEF t

LEMMA DeletedOnce ==
  ASSUME NEW R, NEW s \in Seq(R), IsInjective(s), NEW x \in ToSet(s)
  PROVE  LET t == Delete(s, x)
         IN  /\ t \in Seq(R) /\ Len(t) = Len(s) - 1 /\ IsInjective(t)
             /\ ToSet(t) = ToSet(s) \ {x}
<1> DEFINE t == Delete(s, x)
<1>1. PICK k \in 1..Len(s) : s[k] = x
  BY SequenceIs
<1>2. t \in Seq(R) /\ Deleted(t, s, k)
  BY <1>1, DeletedIs
<1> HIDE DEF t
<1> DEFINE n == Len(s)
<1>3. /\ Len(t) = n - 1
      /\ \A j \in 1..n - 1 : t[j] = IF j < k THEN s[j] ELSE s[j + 1]
  BY <1>2 DEF Deleted
<1>4. n \in Nat /\ k \in 1..n
  BY SequenceIs
<1>5. /\ \A i \in 1..n : s[i] \in ToSet(s)
      /\ \A y \in ToSet(s) : \E i \in 1..n : s[i] = y
      /\ \A i, j \in 1..n : s[i] = s[j] => i = j
  BY SequenceIs, InjectiveIs
<1> HIDE DEF n
<1> DEFINE up(j) == IF j < k THEN j ELSE j + 1
<1>6. \A j \in 1..n - 1 : up(j) \in 1..n /\ up(j) # k /\ t[j] = s[up(j)]
  BY <1>3, <1>4
<1>7. IsInjective(t)
  <2> SUFFICES ASSUME NEW i \in 1..n - 1, NEW j \in 1..n - 1, t[i] = t[j] PROVE i = j
    BY <1>2, <1>3, InjectiveIs
  <2>1. up(i) = up(j)
    BY <1>5, <1>6
  <2> QED BY <2>1, <1>4
<1>8. ToSet(t) = {t[i] : i \in 1..n - 1}
  BY <1>2, <1>3, SequenceIs
<1>9. ASSUME NEW y \in ToSet(t) PROVE y \in ToSet(s) \ {x}
  <2>1. PICK j \in 1..n - 1 : t[j] = y
    BY <1>8
  <2> QED BY <2>1, <1>1, <1>4, <1>5, <1>6
<1>10. ASSUME NEW y \in ToSet(s) \ {x} PROVE y \in ToSet(t)
  <2>1. PICK i \in 1..n : s[i] = y
    BY <1>5
  <2>2. i # k
    BY <2>1, <1>1
  <2>3. CASE i < k
    <3>1. i \in 1..n - 1 /\ t[i] = y
      BY <2>1, <2>3, <1>3, <1>4
    <3> QED BY <3>1, <1>8
  <2>4. CASE i > k
    <3>1. i - 1 \in 1..n - 1 /\ (i - 1) + 1 = i /\ ~ (i - 1 < k)
      BY <2>4, <1>4
    <3>2. t[i - 1] = y
      BY <3>1, <2>1, <1>3
    <3> QED BY <3>1, <3>2, <1>8
  <2> QED BY <2>2, <2>3, <2>4, <1>4
<1> QED BY <1>2, <1>3, <1>7, <1>9, <1>10 DEF t, n

LEMMA RelabelledOnce ==
  ASSUME NEW R, NEW s \in Seq(R), IsInjective(s), NEW a \in ToSet(s), NEW b \in R, b \notin ToSet(s)
  PROVE  LET t == Relabel(s, a, b)
         IN  /\ t \in Seq(R) /\ Len(t) = Len(s) /\ IsInjective(t)
             /\ ToSet(t) = (ToSet(s) \ {a}) \cup {b}
<1> DEFINE t == Relabel(s, a, b)
           n == Len(s)
<1>1. n \in Nat /\ DOMAIN s = 1..n /\ \A i \in 1..n : s[i] \in R
  BY SequenceIs
<1>2. /\ \A i \in 1..n : s[i] \in ToSet(s)
      /\ \A y \in ToSet(s) : \E i \in 1..n : s[i] = y
      /\ \A i, j \in 1..n : s[i] = s[j] => i = j
  BY SequenceIs, InjectiveIs
<1> HIDE DEF n
<1>3. t = [i \in 1..n |-> IF s[i] = a THEN b ELSE s[i]]
  BY <1>1 DEF Relabel
<1>4. t \in Seq(R) /\ Len(t) = n /\ \A i \in 1..n : t[i] = IF s[i] = a THEN b ELSE s[i]
  BY <1>1, <1>3
<1> HIDE DEF t
<1>5. IsInjective(t)
  <2> SUFFICES ASSUME NEW i \in 1..n, NEW j \in 1..n, t[i] = t[j] PROVE i = j
    BY <1>4, InjectiveIs
  <2> QED BY <1>2, <1>4
<1>6. ToSet(t) = {t[i] : i \in 1..n}
  BY <1>4, SequenceIs
<1>7. ToSet(t) = (ToSet(s) \ {a}) \cup {b}
  BY <1>2, <1>4, <1>6
<1> QED BY <1>4, <1>5, <1>7 DEF t, n

-----------------------------------------------------------------------------
(* The window.                                                             *)

\* The tree holds each pane of the window once, one of which is active; it has
\* room for no more than MaxPanes; and it has the shape of its preset.  The
\* last pane and the zoomed pane may have gone.
TreeHolds ==
  /\ tree \in Trees
  /\ IsInjective(LeavesOf[tree]) /\ ToSet(LeavesOf[tree]) = panes
  /\ Len(LeavesOf[tree]) <= MaxPanes
  /\ active_pane \in panes
  /\ last_pane \in Panes \cup {None} /\ zoomed \in Panes \cup {None}
  /\ layout_kind \in Kinds \cup {NoKind}
  /\ PresetShapeHolds

LEMMA TreeFacts ==
  ASSUME TreeHolds
  PROVE  /\ tree \in Trees /\ LeavesOf[tree] \in Seq(Panes)
         /\ IsInjective(LeavesOf[tree]) /\ ToSet(LeavesOf[tree]) = panes
         /\ Len(LeavesOf[tree]) \in Nat /\ Len(LeavesOf[tree]) >= 1
         /\ Len(LeavesOf[tree]) <= MaxPanes
         /\ panes \subseteq Panes /\ Cardinality(panes) = Len(LeavesOf[tree])
         /\ active_pane \in panes /\ active_pane \in Panes
         /\ tree \in TreesUpTo[Len(LeavesOf[tree]) - 1] /\ Len(LeavesOf[tree]) - 1 \in Nat
         /\ tree \in TreesUpTo[MaxPanes] /\ MaxPanes \in Nat
<1>1. tree \in Trees /\ IsInjective(LeavesOf[tree]) /\ ToSet(LeavesOf[tree]) = panes
      /\ Len(LeavesOf[tree]) <= MaxPanes /\ active_pane \in panes
  BY DEF TreeHolds
<1>2. LeavesOf[tree] \in Seq(Panes)
  BY <1>1, LeavesOfIs
<1>3. panes \subseteq Panes /\ Len(LeavesOf[tree]) \in Nat
  BY <1>1, <1>2, SequenceIs
<1>4. Cardinality(panes) = Len(LeavesOf[tree])
  BY <1>1, <1>2, AsManyElements
<1>5. Len(LeavesOf[tree]) - 1 \in Nat /\ tree \in TreesUpTo[Len(LeavesOf[tree]) - 1]
  BY <1>1, LowerThanLeaves
<1>6. tree \in TreesUpTo[MaxPanes] /\ MaxPanes \in Nat
  BY <1>1, MaxPanesIs DEF Trees
<1> QED BY <1>1, <1>2, <1>3, <1>4, <1>5, <1>6

LEMMA TreeStarts == Init => TreeHolds
<1> SUFFICES ASSUME NEW p \in Panes, tree = Leaf(p), panes = {p}, active_pane = p,
                    last_pane = None, zoomed = None, layout_kind = NoKind
             PROVE  TreeHolds
  BY DEF Init
<1>1. tree \in Trees /\ LeavesOf[tree] = <<p>>
  BY LeafLeaves
<1>2. Len(LeavesOf[tree]) <= MaxPanes /\ IsInjective(LeavesOf[tree]) /\ ToSet(LeavesOf[tree]) = {p}
  BY <1>1, OneLeaf, PanesAssumption
<1> QED BY <1>1, <1>2 DEF TreeHolds, PresetShapeHolds

\* A change of focus, to a pane of the window.
LEMMA FocusKeeps ==
  ASSUME TreeHolds, NEW p \in panes, FocusOn(p), UNCHANGED <<tree, panes, layout_kind>>
  PROVE  TreeHolds'
<1>1. active_pane' \in panes /\ last_pane' \in Panes \cup {None} /\ zoomed' \in Panes \cup {None}
  BY TreeFacts DEF FocusOn, TreeHolds
<1> QED BY <1>1 DEF TreeHolds, PresetShapeHolds

LEMMA FocusIsFocus ==
  ASSUME TreeHolds, NEW p, FocusOn(p), UNCHANGED <<tree, panes>>
  PROVE  Abstract' = SetActivePane(Abstract, p)
BY DEF FocusOn, Abstract, SetActivePane

\* split.
LEMMA SplitKeeps ==
  ASSUME TreeHolds, NEW p \in Panes, NEW d \in Dirs, SplitActive(p, d)
  PROVE  /\ TreeHolds'
         /\ Abstract' = SplitActiveLeaf(Abstract, p)
<1> DEFINE s == LeavesOf[tree]
           t == SplitLeaf(tree, active_pane, p, d)
<1>1. /\ p \notin panes /\ Cardinality(panes) < MaxPanes
      /\ panes' = panes \cup {p} /\ tree' = t
      /\ FocusOn(p) /\ layout_kind' = NoKind
  BY DEF SplitActive
<1>2. /\ Len(s) - 1 < MaxPanes /\ Len(s) - 1 \in Nat /\ tree \in TreesUpTo[Len(s) - 1]
      /\ Len(s) < MaxPanes /\ Len(s) \in Nat
  BY <1>1, TreeFacts
<1>3. t \in Trees /\ LeavesOf[t] = InsertAfter(s, active_pane, p)
  BY <1>2, TreeFacts, SplitLeafIs
<1>4. /\ InsertAfter(s, active_pane, p) \in Seq(Panes)
      /\ Len(InsertAfter(s, active_pane, p)) = Len(s) + 1
      /\ IsInjective(InsertAfter(s, active_pane, p))
      /\ ToSet(InsertAfter(s, active_pane, p)) = ToSet(s) \cup {p}
  BY <1>1, TreeFacts, InsertedOnce
<1>5. p # active_pane /\ active_pane' = p /\ last_pane' = active_pane /\ zoomed' = None
  BY <1>1, TreeFacts DEF FocusOn
<1> HIDE DEF t
<1>6. TreeHolds'
  <2>1. tree' \in Trees /\ IsInjective(LeavesOf[tree']) /\ ToSet(LeavesOf[tree']) = panes'
    BY <1>1, <1>3, <1>4, TreeFacts
  <2>2. Len(LeavesOf[tree']) <= MaxPanes
    BY <1>1, <1>2, <1>3, <1>4, MaxPanesIs
  <2>3. active_pane' \in panes' /\ last_pane' \in Panes /\ zoomed' = None
    BY <1>1, <1>5, TreeFacts
  <2> QED BY <1>1, <2>1, <2>2, <2>3 DEF TreeHolds, PresetShapeHolds
<1>7. Abstract' = SplitActiveLeaf(Abstract, p)
  <2>1. LeavesOf[tree'] = InsertAfter(LeavesOf[tree], active_pane, p)
    BY <1>1, <1>3
  <2> QED BY <1>1, <1>5, <2>1 DEF Abstract, SplitActiveLeaf, SetActivePane
<1> QED BY <1>6, <1>7

\* remove_pane.
LEMMA RemoveKeeps ==
  ASSUME TreeHolds, NEW p \in Panes, RemovePane(p)
  PROVE  /\ TreeHolds'
         /\ Abstract' = CollapsePane(Abstract, p)
<1> DEFINE s == LeavesOf[tree]
           r == RemoveLeaf(tree, p)
<1>1. /\ p \in panes /\ panes' = panes \ {p} /\ r.removed = "Collapsed" /\ tree' = r.tree
      /\ last_pane' = IF last_pane = p THEN None ELSE last_pane
      /\ active_pane' = IF active_pane = p THEN LeavesOf[tree'][1] ELSE active_pane
      /\ zoomed' = None /\ layout_kind' = NoKind
  BY DEF RemovePane
<1>2. LeafTakenOut(tree, p, MaxPanes)
  BY TreeFacts, RemovedLeaf
<1>3. tree' \in Trees /\ LeavesOf[tree'] = Delete(s, p)
  BY <1>1, <1>2, TreeFacts DEF LeafTakenOut
<1>4. /\ Delete(s, p) \in Seq(Panes) /\ Len(Delete(s, p)) = Len(s) - 1
      /\ IsInjective(Delete(s, p)) /\ ToSet(Delete(s, p)) = ToSet(s) \ {p}
  BY <1>1, TreeFacts, DeletedOnce
<1>5. Len(LeavesOf[tree']) - 1 \in Nat /\ LeavesOf[tree'] \in Seq(Panes)
  BY <1>3, LowerThanLeaves, LeavesOfIs
<1>6. LeavesOf[tree'][1] \in ToSet(LeavesOf[tree'])
  <2>1. 1 \in 1..Len(LeavesOf[tree'])
    BY <1>5
  <2> QED BY <1>5, <2>1, SequenceIs
<1>7. TreeHolds'
  <2>1. IsInjective(LeavesOf[tree']) /\ ToSet(LeavesOf[tree']) = panes'
    BY <1>1, <1>3, <1>4, TreeFacts
  <2>2. Len(LeavesOf[tree']) <= MaxPanes
    BY <1>3, <1>4, TreeFacts
  <2>3. active_pane' \in panes'
    BY <1>1, <1>6, <2>1, TreeFacts
  <2>4. last_pane' \in Panes \cup {None}
    BY <1>1 DEF TreeHolds
  <2> QED BY <1>1, <1>3, <2>1, <2>2, <2>3, <2>4 DEF TreeHolds, PresetShapeHolds
<1>8. Abstract' = CollapsePane(Abstract, p)
  BY <1>1, <1>3 DEF Abstract, CollapsePane
<1> QED BY <1>7, <1>8

\* swap_with_active.
LEMMA SwapKeeps ==
  ASSUME TreeHolds, NEW p \in Panes, SwapWithActivePane(p)
  PROVE  /\ TreeHolds'
         /\ Abstract' = SwapWithActive(Abstract, p)
<1> DEFINE s == LeavesOf[tree]
           t == SwapIds(tree, active_pane, p)
<1>1. /\ zoomed' = None /\ layout_kind' = NoKind /\ Swappable(tree, active_pane, p)
      /\ tree' = t /\ UNCHANGED <<panes, active_pane, last_pane>>
  BY DEF SwapWithActivePane
<1>2. tree' \in Trees /\ LeavesOf[tree'] = Exchange(s, active_pane, p)
  BY <1>1, TreeFacts, SwappedTree
<1>3. active_pane \in ToSet(s) /\ p \in ToSet(s)
  BY <1>1 DEF Swappable, HasLeaf
<1>4. /\ Len(Exchange(s, active_pane, p)) = Len(s)
      /\ ToSet(Exchange(s, active_pane, p)) = ToSet(s)
      /\ IsInjective(Exchange(s, active_pane, p))
  BY <1>3, TreeFacts, ExchangeIs
<1>5. TreeHolds'
  BY <1>1, <1>2, <1>4, TreeFacts DEF TreeHolds, PresetShapeHolds
<1>6. Abstract' = SwapWithActive(Abstract, p)
  <2>1. SwapWithActive(Abstract, p) =
          [Abstract EXCEPT !.layout = Exchange(s, active_pane, p), !.zoomed = None]
    BY DEF Abstract, SwapWithActive
  <2> QED BY <1>1, <1>2, <2>1 DEF Abstract
<1> QED BY <1>5, <1>6

\* rotate_panes.
LEMMA RotateKeeps ==
  ASSUME TreeHolds, NEW downward \in BOOLEAN, RotatePanes(downward)
  PROVE  /\ TreeHolds'
         /\ Abstract' = RotatePanesOf(Abstract, downward)
<1> DEFINE s == LeavesOf[tree]
<1>1. /\ Len(s) > 1 /\ zoomed' = None /\ layout_kind' = NoKind
      /\ UNCHANGED <<panes, active_pane, last_pane>>
      /\ tree' = Rotate(tree, s, downward)
  BY DEF RotatePanes
<1>2. /\ tree' \in Trees /\ LeavesOf[tree'] = Rotated(s, downward)
      /\ ToSet(LeavesOf[tree']) = ToSet(s) /\ IsInjective(LeavesOf[tree'])
  BY <1>1, TreeFacts, RotatedTree
<1>3. Len(Rotated(s, downward)) = Len(s)
  <2>1. s \in Seq(Panes) /\ Len(s) \in Nat /\ DOMAIN s = 1..Len(s)
    BY TreeFacts, SequenceIs
  <2> QED BY <2>1 DEF Rotated
<1>4. TreeHolds'
  BY <1>1, <1>2, <1>3, TreeFacts DEF TreeHolds, PresetShapeHolds
<1>5. Abstract' = RotatePanesOf(Abstract, downward)
  <2>1. RotatePanesOf(Abstract, downward) =
          [Abstract EXCEPT !.layout = Rotated(s, downward), !.zoomed = None]
    BY DEF Abstract, RotatePanesOf
  <2> QED BY <1>1, <1>2, <2>1 DEF Abstract
<1> QED BY <1>4, <1>5

\* apply_layout.
LEMMA ArrangeKeeps ==
  ASSUME TreeHolds, NEW kind \in Kinds, ApplyLayout(kind)
  PROVE  /\ TreeHolds'
         /\ Abstract' = ApplyLayoutOf(Abstract)
<1> DEFINE s == LeavesOf[tree]
<1>1. /\ zoomed' = None /\ layout_kind' = kind
      /\ UNCHANGED <<panes, active_pane, last_pane>>
      /\ tree' = Arrange(kind, s)
  BY DEF ApplyLayout
<1>2. tree' \in Trees /\ LeavesOf[tree'] = s
  BY <1>1, TreeFacts, ArrangedIs
<1>3. TreeHolds'
  BY <1>1, <1>2, TreeFacts DEF TreeHolds, PresetShapeHolds
<1>4. Abstract' = ApplyLayoutOf(Abstract)
  BY <1>1, <1>2 DEF Abstract, ApplyLayoutOf
<1> QED BY <1>3, <1>4

\* next_layout and previous_layout.
LEMMA CycleKeeps ==
  ASSUME TreeHolds, NextLayout \/ PrevLayout
  PROVE  /\ TreeHolds'
         /\ Abstract' = ApplyLayoutOf(Abstract)
<1>1. layout_kind \in Kinds \cup {NoKind}
  BY DEF TreeHolds
<1>2. NextKind(layout_kind) \in Kinds /\ PrevKind(layout_kind) \in Kinds
  BY <1>1, KindsAre
<1>3. PICK kind \in Kinds : ApplyLayout(kind)
  BY <1>2 DEF NextLayout, PrevLayout
<1> QED BY <1>3, ArrangeKeeps

\* toggle_zoom.
LEMMA ZoomKeeps ==
  ASSUME TreeHolds, ToggleZoom
  PROVE  /\ TreeHolds'
         /\ Abstract' = ToggleZoomOf(Abstract)
<1>1. /\ zoomed' = IF zoomed = None /\ Cardinality(panes) > 1 THEN active_pane ELSE None
      /\ UNCHANGED <<tree, panes, active_pane, last_pane, layout_kind>>
  BY DEF ToggleZoom
<1>2. TreeHolds'
  BY <1>1, TreeFacts DEF TreeHolds, PresetShapeHolds
<1>3. Abstract' = ToggleZoomOf(Abstract)
  BY <1>1, TreeFacts DEF Abstract, ToggleZoomOf
<1> QED BY <1>2, <1>3

\* focus_pane and focus_last_pane.
LEMMA FocusPaneKeeps ==
  ASSUME TreeHolds, NEW p \in Panes, FocusPane(p)
  PROVE  /\ TreeHolds'
         /\ Abstract' = SetActivePane(Abstract, p)
BY FocusKeeps, FocusIsFocus DEF FocusPane

LEMMA FocusLastKeeps ==
  ASSUME TreeHolds, FocusLastPane
  PROVE  /\ TreeHolds'
         /\ Abstract' = FocusLastPaneOf(Abstract)
<1>1. last_pane \in panes /\ FocusOn(last_pane) /\ UNCHANGED <<tree, panes, layout_kind>>
  BY DEF FocusLastPane
<1>2. TreeHolds'
  BY <1>1, FocusKeeps
<1>3. Abstract' = SetActivePane(Abstract, last_pane)
  BY <1>1, FocusIsFocus
<1> QED BY <1>1, <1>2, <1>3 DEF FocusLastPaneOf, Abstract

\* Another pane in the place of one, in a tree that keeps its shape.
LEMMA GraftKeeps ==
  ASSUME TreeHolds, NEW out \in Panes, NEW in \in Panes, GraftLeaf(out, in)
  PROVE  /\ TreeHolds'
         /\ Abstract' = GraftPane(Abstract, out, in)
<1> DEFINE s == LeavesOf[tree]
<1>1. /\ out \in panes /\ in \notin panes /\ panes' = (panes \ {out}) \cup {in}
      /\ tree' = ReplaceLeaf(tree, out, in)
      /\ active_pane' = IF active_pane = out THEN in ELSE active_pane
      /\ UNCHANGED <<last_pane, zoomed, layout_kind>>
  BY DEF GraftLeaf
<1>2. tree' \in Trees /\ LeavesOf[tree'] = Relabel(s, out, in) /\ ShapeOf[tree'] = ShapeOf[tree]
  BY <1>1, TreeFacts, ReplacedLeaf
<1>3. /\ Relabel(s, out, in) \in Seq(Panes) /\ Len(Relabel(s, out, in)) = Len(s)
      /\ IsInjective(Relabel(s, out, in))
      /\ ToSet(Relabel(s, out, in)) = (ToSet(s) \ {out}) \cup {in}
  BY <1>1, TreeFacts, RelabelledOnce
<1>4. ASSUME layout_kind # NoKind
      PROVE  ShapeOf[tree'] = ShapeOf[Arrange(layout_kind, LeavesOf[tree'])]
  <2>1. layout_kind \in Kinds /\ ShapeOf[tree] = ShapeOf[Arrange(layout_kind, s)]
    BY <1>4 DEF TreeHolds, PresetShapeHolds
  <2>2. ShapeOf[Arrange(layout_kind, s)] = ShapeOf[Arrange(layout_kind, Relabel(s, out, in))]
    BY <1>3, <2>1, TreeFacts, ArrangedShape
  <2> QED BY <1>2, <2>1, <2>2
<1>5. TreeHolds'
  <2>1. IsInjective(LeavesOf[tree']) /\ ToSet(LeavesOf[tree']) = panes'
        /\ Len(LeavesOf[tree']) <= MaxPanes /\ active_pane' \in panes'
    BY <1>1, <1>2, <1>3, TreeFacts
  <2>2. /\ last_pane' \in Panes \cup {None} /\ zoomed' \in Panes \cup {None}
        /\ layout_kind' \in Kinds \cup {NoKind}
    BY <1>1 DEF TreeHolds
  <2>3. PresetShapeHolds'
    BY <1>1, <1>4 DEF PresetShapeHolds
  <2> QED BY <1>2, <2>1, <2>2, <2>3 DEF TreeHolds
<1>6. Abstract' = GraftPane(Abstract, out, in)
  <2>1. GraftPane(Abstract, out, in) =
          [Abstract EXCEPT !.layout = Relabel(s, out, in), !.panes = (panes \ {out}) \cup {in},
                           !.active_pane = IF active_pane = out THEN in ELSE active_pane]
    BY DEF Abstract, GraftPane
  <2> QED BY <1>1, <1>2, <2>1 DEF Abstract
<1> QED BY <1>5, <1>6

\* Every step of the window, and of the window alone.
LEMMA TreeKept ==
  ASSUME TreeHolds, [Next]_vars
  PROVE  TreeHolds'
<1>1. CASE \E p \in Panes, d \in Dirs : SplitActive(p, d)
  BY <1>1, SplitKeeps
<1>2. CASE \E p \in Panes : RemovePane(p)
  BY <1>2, RemoveKeeps
<1>3. CASE \E p \in Panes : SwapWithActivePane(p)
  BY <1>3, SwapKeeps
<1>4. CASE \E downward \in BOOLEAN : RotatePanes(downward)
  BY <1>4, RotateKeeps
<1>5. CASE \E k \in Kinds : ApplyLayout(k)
  BY <1>5, ArrangeKeeps
<1>6. CASE NextLayout \/ PrevLayout
  BY <1>6, CycleKeeps
<1>7. CASE ToggleZoom
  BY <1>7, ZoomKeeps
<1>8. CASE \E p \in Panes : FocusPane(p)
  BY <1>8, FocusPaneKeeps
<1>9. CASE FocusLastPane
  BY <1>9, FocusLastKeeps
<1>10. CASE \E out, in \in Panes : GraftLeaf(out, in)
  BY <1>10, GraftKeeps
<1>11. CASE UNCHANGED vars
  BY <1>11 DEF vars, TreeHolds, PresetShapeHolds
<1> QED
  BY <1>1, <1>2, <1>3, <1>4, <1>5, <1>6, <1>7, <1>8, <1>9, <1>10, <1>11 DEF Next, Kinds

-----------------------------------------------------------------------------
(* The window, its dividers and those who hold them.                       *)

\* What a client holds since a press: a divider of the tree it saw, which was
\* between these panes.
HoldsDivider(held) ==
  \E t \in Trees, way \in Paths :
    /\ ~ IsLeaf(t) /\ ~ IsLeaf(NodeAt(t, way))
    /\ held = [layout |-> t, path |-> way, sides |-> Sides(t, way)]

LayoutHolds ==
  /\ TreeHolds
  /\ \A c \in DOMAIN dragging : HoldsDivider(dragging[c])

LEMMA ReleaseKeeps ==
  ASSUME LayoutHolds, TreeHolds', NEW c, dragging' = Released(c)
  PROVE  LayoutHolds'
BY DEF LayoutHolds, Released

\* A tree with other ratios.
LEMMA AlikeKeeps ==
  ASSUME TreeHolds, Alike(tree, tree', MaxPanes),
         UNCHANGED <<panes, active_pane, last_pane, zoomed, layout_kind>>
  PROVE  TreeHolds'
BY DEF TreeHolds, PresetShapeHolds, Alike

LEMMA ViewportIs == Viewport \in Rects /\ Viewports \subseteq Rects
BY LayoutAssumption DEF Rects

LEMMA PressKeeps ==
  ASSUME LayoutHolds, NEW c \in Clients, NEW at \in Pointers, Press(c, at)
  PROVE  LayoutHolds'
<1> DEFINE seen == IF zoomed' # None THEN Leaf(zoomed') ELSE tree'
           path == DividerAt(seen, at, Viewport)
<1>1. Visible' = seen
  BY DEF Visible
<1>2. TreeHolds'
  <2>1. UNCHANGED <<tree, panes, layout_kind>>
    BY DEF Press
  <2>2. CASE UNCHANGED <<active_pane, last_pane, zoomed>>
    BY <2>1, <2>2 DEF LayoutHolds, TreeHolds, PresetShapeHolds
  <2>3. CASE \E p \in panes : FocusOn(p)
    BY <2>1, <2>3, FocusKeeps DEF LayoutHolds
  <2> QED BY <2>2, <2>3 DEF Press
<1>3. seen \in Trees
  <2>1. tree' \in Trees /\ zoomed' \in Panes \cup {None}
    BY <1>2 DEF TreeHolds
  <2> QED BY <2>1, LeafLeaves
<1>4. \/ dragging' = Released(c)
      \/ /\ path # NoPath
         /\ dragging' = Put(dragging, c, [layout |-> seen, path |-> path, sides |-> Sides(seen, path)])
  BY <1>1 DEF Press
<1> HIDE DEF seen, path
<1>5. CASE dragging' = Released(c)
  BY <1>2, <1>5, ReleaseKeeps
<1>6. CASE /\ path # NoPath
           /\ dragging' = Put(dragging, c, [layout |-> seen, path |-> path, sides |-> Sides(seen, path)])
  <2>1. path \in Paths /\ ~ IsLeaf(seen) /\ ~ IsLeaf(NodeAt(seen, path))
    <3>1. /\ DividerAt(seen, at, Viewport) \in Paths \cup {NoPath}
          /\ IsLeaf(seen) => DividerAt(seen, at, Viewport) = NoPath
      BY <1>3, ViewportIs, DividerAtIs
    <3>2. DividerAt(seen, at, Viewport) # NoPath
            => ~ IsLeaf(NodeAt(seen, DividerAt(seen, at, Viewport)))
      BY <1>3, ViewportIs, FoundDivider
    <3> QED BY <1>6, <3>1, <3>2 DEF path
  <2> DEFINE new == [layout |-> seen, path |-> path, sides |-> Sides(seen, path)]
  <2>2. HoldsDivider(new)
    BY <1>3, <2>1 DEF HoldsDivider
  <2> HIDE DEF new
  <2>3. dragging' = Put(dragging, c, new)
    BY <1>6 DEF new
  <2>4. \A k \in DOMAIN dragging' : HoldsDivider(dragging'[k])
    BY <2>2, <2>3 DEF LayoutHolds, Put
  <2> QED BY <1>2, <2>4 DEF LayoutHolds, HoldsDivider
<1> QED BY <1>4, <1>5, <1>6

\* drag_divider, if the window looks as it did.
LEMMA DragMoves ==
  ASSUME LayoutHolds, NEW c \in DOMAIN dragging, NEW at \in Pointers, dragging[c].layout = Visible,
         tree' = SetRatio(tree, dragging[c].path, at, Viewport)
  PROVE  /\ Visible = tree
         /\ dragging[c] = [layout |-> tree, path |-> dragging[c].path, sides |-> dragging[c].sides]
         /\ dragging[c].path \in Paths /\ ~ IsLeaf(NodeAt(tree, dragging[c].path))
         /\ dragging[c].sides = Sides(tree, dragging[c].path)
         /\ AfterMove(tree, tree', dragging[c].path, MaxPanes)
<1>1. PICK t \in Trees, way \in Paths :
        /\ ~ IsLeaf(t) /\ ~ IsLeaf(NodeAt(t, way))
        /\ dragging[c] = [layout |-> t, path |-> way, sides |-> Sides(t, way)]
  BY DEF LayoutHolds, HoldsDivider
<1>2. t = Visible
  BY <1>1
<1>3. Visible = tree
  <2>1. IsLeaf(Leaf(zoomed))
    BY LeafIs
  <2> QED BY <1>1, <1>2, <2>1 DEF Visible
<1>4. at \in Nat \X Nat
  BY LayoutAssumption
<1>5. AfterMove(tree, SetRatio(tree, way, at, Viewport), way, MaxPanes)
  BY <1>4, ViewportIs, TreeFacts, DividerMoved DEF LayoutHolds
<1>6. tree' = SetRatio(tree, way, at, Viewport)
  BY <1>1
<1> QED BY <1>1, <1>2, <1>3, <1>5, <1>6

LEMMA DragKeeps ==
  ASSUME LayoutHolds, NEW c \in DOMAIN dragging, NEW at \in Pointers, DragDivider(c, at)
  PROVE  LayoutHolds'
<1> DEFINE held == dragging[c]
<1>1. UNCHANGED <<panes, active_pane, last_pane, zoomed, layout_kind>>
  BY DEF DragDivider
<1>2. CASE /\ held.layout = Visible
           /\ tree' = SetRatio(tree, held.path, at, Viewport)
           /\ dragging' = [dragging EXCEPT ![c].layout = tree']
  <2>1. /\ held = [layout |-> tree, path |-> held.path, sides |-> held.sides]
        /\ held.path \in Paths /\ ~ IsLeaf(NodeAt(tree, held.path))
        /\ held.sides = Sides(tree, held.path)
        /\ AfterMove(tree, tree', held.path, MaxPanes)
    BY <1>2, DragMoves
  <2>2. TreeHolds'
    BY <1>1, <2>1, AlikeKeeps DEF LayoutHolds, AfterMove
  <2>3. /\ tree' \in Trees /\ ~ IsLeaf(tree') /\ ~ IsLeaf(NodeAt(tree', held.path))
        /\ held.sides = Sides(tree', held.path)
    <3>1. tree' \in Trees /\ ~ IsLeaf(NodeAt(tree', held.path))
          /\ held.sides = Sides(tree', held.path)
      BY <2>1 DEF AfterMove, Alike
    <3> QED BY <3>1, <2>1, NodeAtIs
  <2> DEFINE new == [layout |-> tree', path |-> held.path, sides |-> held.sides]
  <2>4. HoldsDivider(new)
    BY <2>1, <2>3 DEF HoldsDivider
  <2>5. dragging' = [dragging EXCEPT ![c] = new]
    <3> DEFINE y == held.path
               z == held.sides
               next == tree'
    <3>1. dragging[c] = [layout |-> tree, path |-> y, sides |-> z]
      BY <2>1
    <3>2. dragging' = [dragging EXCEPT ![c].layout = next]
      BY <1>2
    <3>3. new = [layout |-> next, path |-> y, sides |-> z]
      OBVIOUS
    <3> HIDE DEF y, z, new, next
    <3>4. [dragging EXCEPT ![c].layout = next] =
            [dragging EXCEPT ![c] = [layout |-> next, path |-> y, sides |-> z]]
      <4>1. [dragging[c] EXCEPT !.layout = next] = [layout |-> next, path |-> y, sides |-> z]
        BY <3>1
      <4> QED BY <4>1
    <3> QED BY <3>2, <3>3, <3>4
  <2> HIDE DEF new
  <2>6. \A k \in DOMAIN dragging' : HoldsDivider(dragging'[k])
    BY <2>4, <2>5 DEF LayoutHolds
  <2> QED BY <2>2, <2>6 DEF LayoutHolds, HoldsDivider
<1>3. CASE dragging' = Released(c) /\ UNCHANGED tree
  <2>1. TreeHolds'
    BY <1>1, <1>3 DEF LayoutHolds, TreeHolds, PresetShapeHolds
  <2> QED BY <1>3, <2>1, ReleaseKeeps
<1> QED BY <1>2, <1>3 DEF DragDivider

\* resize_active.
LEMMA ResizeKeeps ==
  ASSUME LayoutHolds, NEW d \in Dirs, NEW n \in {-1, 1}, ResizeActive(d, n)
  PROVE  LayoutHolds'
<1>1. Alike(tree, ResizePane(tree, active_pane, d, n).tree, MaxPanes)
  <2>1. n \in Int
    OBVIOUS
  <2>2. /\ tree \in Trees /\ tree \in TreesUpTo[MaxPanes] /\ MaxPanes \in Nat
        /\ active_pane \in Panes
    BY TreeFacts DEF LayoutHolds
  <2> QED BY <2>1, <2>2, PaneResized
<1>2. /\ tree' = ResizePane(tree, active_pane, d, n).tree
      /\ UNCHANGED <<panes, active_pane, last_pane, zoomed, layout_kind, dragging>>
  BY DEF ResizeActive
<1>3. TreeHolds'
  BY <1>1, <1>2, AlikeKeeps DEF LayoutHolds
<1> QED BY <1>2, <1>3 DEF LayoutHolds

\* select_pane.
LEMMA DirectionKeeps ==
  ASSUME LayoutHolds, NEW dir \in Directions, FocusDirection(dir)
  PROVE  LayoutHolds'
<1>1. PICK p \in Neighbors(Place(tree, Viewport), active_pane, dir) : FocusOn(p)
  BY DEF FocusDirection
<1>2. p \in DOMAIN Place(tree, Viewport)
  BY DEF Neighbors
<1>3. p \in panes
  <2>1. Tiling(tree, Viewport)
    BY ViewportIs, TreesTile DEF LayoutHolds, TreeHolds
  <2> QED BY <1>2, <2>1 DEF Tiling, LayoutHolds, TreeHolds
<1>4. UNCHANGED <<tree, panes, layout_kind, dragging>>
  BY DEF FocusDirection
<1>5. TreeHolds'
  BY <1>1, <1>3, <1>4, FocusKeeps DEF LayoutHolds
<1> QED BY <1>4, <1>5 DEF LayoutHolds

LEMMA LayoutStarts == LayoutInit => LayoutHolds
BY TreeStarts DEF LayoutInit, LayoutHolds

LEMMA LayoutKept ==
  ASSUME LayoutHolds, [LayoutNext]_layoutVars
  PROVE  LayoutHolds'
<1>1. CASE Next /\ UNCHANGED <<dragging, moves>>
  BY <1>1, TreeKept DEF LayoutHolds
<1>2. CASE \E c \in Clients, at \in Pointers : Press(c, at)
  BY <1>2, PressKeeps
<1>3. CASE \E c \in DOMAIN dragging : Release(c)
  <2>1. TreeHolds'
    BY <1>3 DEF Release, LayoutHolds, TreeHolds, PresetShapeHolds, vars
  <2> QED BY <1>3, <2>1, ReleaseKeeps DEF Release
<1>4. CASE \E c \in DOMAIN dragging : \E at \in Pointers : DragDivider(c, at)
  BY <1>4, DragKeeps
<1>5. CASE \E d \in Dirs, n \in {-1, 1} : ResizeActive(d, n)
  BY <1>5, ResizeKeeps
<1>6. CASE \E dir \in Directions : FocusDirection(dir)
  BY <1>6, DirectionKeeps
<1>7. CASE UNCHANGED layoutVars
  BY <1>7 DEF layoutVars, vars, LayoutHolds, TreeHolds, PresetShapeHolds
<1> QED BY <1>1, <1>2, <1>3, <1>4, <1>5, <1>6, <1>7 DEF LayoutNext

-----------------------------------------------------------------------------
(* The theorems.                                                           *)

\* The invariant: the tree holds each pane of the window once, the active one
\* among them, with the shape of the preset that is recorded; and what each
\* client has hold of is a divider of the tree it saw.
THEOREM LayoutInvariant == LayoutSpec => []LayoutHolds
<1>1. LayoutInit => LayoutHolds
  BY LayoutStarts
<1>2. LayoutHolds /\ [LayoutNext]_layoutVars => LayoutHolds'
  BY LayoutKept
<1> QED BY <1>1, <1>2, PTL DEF LayoutSpec

\* Every edit that breaks up a preset arrangement forgets it, so that
\* next_layout cycles from the one the window shows.
THEOREM PresetsHold == LayoutSpec => []PresetShapeHolds
<1>1. LayoutHolds => PresetShapeHolds
  BY DEF LayoutHolds, TreeHolds
<1> QED BY <1>1, LayoutInvariant, PTL

\* Panes and dividers share out the cells of every area, whatever the depth of
\* the tree, the ratios and the size, down to areas with no cells.
THEOREM ScreenPartitioned == LayoutSpec => []PanesPartitionScreen
<1>1. ASSUME LayoutHolds PROVE PanesPartitionScreen
  <2> SUFFICES ASSUME NEW v \in Viewports \cup {Viewport}
               PROVE  LET rects == Place(tree, v)
                          taken == UNION {Cells(rects[p]) : p \in panes}
                      IN  /\ taken \subseteq Cells(v)
                          /\ \A p, q \in panes : p # q => Cells(rects[p]) \cap Cells(rects[q]) = {}
                          /\ \A at \in Cells(v) \ taken : DividerAt(tree, at, v) # NoPath
    BY DEF PanesPartitionScreen
  <2>1. Tiling(tree, v) /\ ToSet(LeavesOf[tree]) = panes
    BY <1>1, ViewportIs, TreesTile DEF LayoutHolds, TreeHolds
  <2> DEFINE f == Place(tree, v)
             taken == UNION {Cells(f[p]) : p \in panes}
  <2> HIDE DEF f
  <2>2. DOMAIN f = panes /\ Within(f, v) /\ Apart(f) /\ Reached(tree, f, v)
    BY <2>1 DEF Tiling, f
  <2>3. taken \subseteq Cells(v)
    BY <2>2 DEF Within
  <2>4. \A p, q \in panes : p # q => Cells(f[p]) \cap Cells(f[q]) = {}
    BY <2>2 DEF Apart
  <2>5. \A at \in Cells(v) \ taken : DividerAt(tree, at, v) # NoPath
    BY <2>2 DEF Reached, Uncovered
  <2> QED BY <2>3, <2>4, <2>5 DEF f
<1> QED BY <1>1, LayoutInvariant, PTL

\* The recursions over the tree (split_leaf, remove_pane, swap_ids and their
\* chain, replace_leaf, the presets) are edits of the sequence of its leaves.
THEOREM StepsFollow == LayoutSpec => StepsFollowWindow
<1> DEFINE Follows ==
      /\ \A p \in Panes, d \in Dirs :
           SplitActive(p, d) => Abstract' = SplitActiveLeaf(Abstract, p)
      /\ \A p \in Panes :
           /\ RemovePane(p) => Abstract' = CollapsePane(Abstract, p)
           /\ SwapWithActivePane(p) => Abstract' = SwapWithActive(Abstract, p)
           /\ FocusPane(p) => Abstract' = SetActivePane(Abstract, p)
      /\ \A downward \in BOOLEAN :
           RotatePanes(downward) => Abstract' = RotatePanesOf(Abstract, downward)
      /\ NextLayout \/ PrevLayout => Abstract' = ApplyLayoutOf(Abstract)
      /\ ToggleZoom => Abstract' = ToggleZoomOf(Abstract)
      /\ FocusLastPane => Abstract' = FocusLastPaneOf(Abstract)
      /\ \A out, in \in Panes : GraftLeaf(out, in) => Abstract' = GraftPane(Abstract, out, in)
<1>1. ASSUME LayoutHolds PROVE Follows
  <2>1. TreeHolds
    BY <1>1 DEF LayoutHolds
  <2>2. \A p \in Panes, d \in Dirs :
          SplitActive(p, d) => Abstract' = SplitActiveLeaf(Abstract, p)
    BY <2>1, SplitKeeps
  <2>3. \A p \in Panes : RemovePane(p) => Abstract' = CollapsePane(Abstract, p)
    BY <2>1, RemoveKeeps
  <2>4. \A p \in Panes : SwapWithActivePane(p) => Abstract' = SwapWithActive(Abstract, p)
    BY <2>1, SwapKeeps
  <2>5. \A p \in Panes : FocusPane(p) => Abstract' = SetActivePane(Abstract, p)
    BY <2>1, FocusPaneKeeps
  <2>6. \A downward \in BOOLEAN :
          RotatePanes(downward) => Abstract' = RotatePanesOf(Abstract, downward)
    BY <2>1, RotateKeeps
  <2>7. NextLayout \/ PrevLayout => Abstract' = ApplyLayoutOf(Abstract)
    BY <2>1, CycleKeeps
  <2>8. ToggleZoom => Abstract' = ToggleZoomOf(Abstract)
    BY <2>1, ZoomKeeps
  <2>9. FocusLastPane => Abstract' = FocusLastPaneOf(Abstract)
    BY <2>1, FocusLastKeeps
  <2>10. \A out, in \in Panes : GraftLeaf(out, in) => Abstract' = GraftPane(Abstract, out, in)
    BY <2>1, GraftKeeps
  <2> QED BY <2>2, <2>3, <2>4, <2>5, <2>6, <2>7, <2>8, <2>9, <2>10
<1>2. LayoutHolds => [Follows]_vars
  BY <1>1
<1> HIDE DEF Follows
<1>3. LayoutSpec => [][Follows]_vars
  BY <1>2, LayoutInvariant, PTL
<1> QED BY <1>3 DEF StepsFollowWindow, Follows

\* A drag moves the divider that was taken hold of, and only it.
THEOREM GrabbedDividerMoves == LayoutSpec => DragMovesGrabbedDivider
<1> DEFINE Moves ==
      \A c \in DOMAIN dragging, at \in Pointers :
        moves' # moves /\ DragDivider(c, at) =>
          /\ Sides(tree', dragging[c].path) = dragging[c].sides
          /\ LeavesOf[tree'] = LeavesOf[tree] /\ ShapeOf[tree'] = ShapeOf[tree]
          /\ \A path \in ShortPaths \ {dragging[c].path} : RatioStays(tree, tree', path)
<1>1. ASSUME LayoutHolds PROVE Moves
  <2> SUFFICES ASSUME NEW c \in DOMAIN dragging, NEW at \in Pointers,
                      moves' # moves, DragDivider(c, at)
               PROVE  /\ Sides(tree', dragging[c].path) = dragging[c].sides
                      /\ LeavesOf[tree'] = LeavesOf[tree] /\ ShapeOf[tree'] = ShapeOf[tree]
                      /\ \A path \in ShortPaths \ {dragging[c].path} :
                           RatioStays(tree, tree', path)
    OBVIOUS
  <2>1. dragging[c].layout = Visible /\ tree' = SetRatio(tree, dragging[c].path, at, Viewport)
    BY DEF DragDivider
  <2>2. /\ dragging[c].sides = Sides(tree, dragging[c].path)
        /\ AfterMove(tree, tree', dragging[c].path, MaxPanes)
    BY <1>1, <2>1, DragMoves
  <2>3. /\ Sides(tree', dragging[c].path) = dragging[c].sides
        /\ LeavesOf[tree'] = LeavesOf[tree] /\ ShapeOf[tree'] = ShapeOf[tree]
    BY <2>2 DEF AfterMove, Alike
  <2>4. OthersStay(tree, tree', dragging[c].path)
    BY <2>2 DEF AfterMove
  <2>5. ShortPaths \subseteq Paths
    BY MaxPanesIs DEF ShortPaths, Paths
  <2>6. \A path \in ShortPaths \ {dragging[c].path} : RatioStays(tree, tree', path)
    BY <2>4, <2>5 DEF OthersStay
  <2> QED BY <2>3, <2>6
<1>2. LayoutHolds => [Moves]_layoutVars
  BY <1>1
<1> HIDE DEF Moves
<1>3. LayoutSpec => [][Moves]_layoutVars
  BY <1>2, LayoutInvariant, PTL
<1> QED BY <1>3 DEF DragMovesGrabbedDivider, Moves
=============================================================================
