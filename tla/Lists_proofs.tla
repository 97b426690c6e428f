---------------------------- MODULE Lists_proofs ----------------------------
(***************************************************************************)
(* What lists that are put together and filtered consist of, for lists of  *)
(* every length, and the inductions these facts need.                      *)
(***************************************************************************)
EXTENDS Lists, SequencesExt, WellFoundedInduction, TLAPS

-----------------------------------------------------------------------------
(* Induction, for sets.                                                    *)

\* Induction over the naturals, for a set of them.
LEMMA UpFromZero ==
  ASSUME NEW S, 0 \in S, \A n \in Nat : n \in S => n + 1 \in S
  PROVE  Nat \subseteq S
<1> DEFINE T == Nat \ S
<1> SUFFICES ASSUME T # {} PROVE FALSE
  OBVIOUS
<1>1. PICK x \in T : \A y \in T : ~ (<<y, x>> \in OpToRel(<, Nat))
  BY NatLessThanWellFounded, WFMin
<1>2. \A y \in T : ~ y < x
  BY <1>1 DEF OpToRel
<1>3. x # 0 /\ x - 1 \in Nat /\ x - 1 < x /\ x - 1 + 1 = x
  OBVIOUS
<1>4. x - 1 \in S
  BY <1>2, <1>3
<1> QED BY <1>3, <1>4

\* Induction over lists, for a set of them.
LEMMA UpFromEmpty ==
  ASSUME NEW R, NEW P, <<>> \in P,
         \A s \in Seq(R), x \in R : s \in P => Append(s, x) \in P
  PROVE  Seq(R) \subseteq P
<1> DEFINE T == {n \in Nat : \A s \in Seq(R) : Len(s) = n => s \in P}
<1>1. 0 \in T
  <2>1. \A s \in Seq(R) : Len(s) = 0 => s = <<>>
    OBVIOUS
  <2> QED BY <2>1
<1>2. ASSUME NEW n \in Nat, n \in T PROVE n + 1 \in T
  <2> SUFFICES ASSUME NEW s \in Seq(R), Len(s) = n + 1 PROVE s \in P
    OBVIOUS
  <2> DEFINE t == [i \in 1..n |-> s[i]]
  <2>1. t \in Seq(R) /\ Len(t) = n /\ s[n + 1] \in R
    OBVIOUS
  <2> HIDE DEF t
  <2>2. /\ Append(t, s[n + 1]) \in Seq(R) /\ Len(Append(t, s[n + 1])) = n + 1
        /\ \A i \in 1..n + 1 : Append(t, s[n + 1])[i] = IF i <= n THEN t[i] ELSE s[n + 1]
    BY <2>1
  <2>3. \A i \in 1..n + 1 : Append(t, s[n + 1])[i] = s[i]
    BY <2>2 DEF t
  <2>4. s = Append(t, s[n + 1])
    BY <2>2, <2>3
  <2>5. t \in P
    BY <1>2, <2>1
  <2> QED BY <2>1, <2>4, <2>5
<1> HIDE DEF T
<1>3. Nat \subseteq T
  BY <1>1, <1>2, UpFromZero
<1> QED BY <1>3 DEF T

-----------------------------------------------------------------------------
(* Lists put together.                                                     *)

Joined(a, b) == a \o b
ChainUpTo(lists, m, f) ==
  f = [i \in 0..m |-> IF i = 0 THEN <<>> ELSE Joined(f[i - 1], lists[i])]

LEMMA ChainChosen ==
  ASSUME NEW lists
  PROVE  Chain(lists) = (CHOOSE f : ChainUpTo(lists, Len(lists), f))[Len(lists)]
BY DEF Chain, ChainUpTo, Joined

\* There is a function that satisfies the equation of Chain.
LEMMA ChainsExist ==
  ASSUME NEW lists
  PROVE  \A m \in Nat : \E f : ChainUpTo(lists, m, f)
<1> DEFINE T == {m \in Nat : \E f : ChainUpTo(lists, m, f)}
<1>1. 0 \in T
  <2> DEFINE f == [i \in 0..0 |-> <<>>]
  <2>1. f = [i \in 0..0 |-> IF i = 0 THEN <<>> ELSE Joined(f[i - 1], lists[i])]
    OBVIOUS
  <2> QED BY <2>1 DEF ChainUpTo
<1>2. ASSUME NEW m \in Nat, m \in T PROVE m + 1 \in T
  <2>1. PICK f : ChainUpTo(lists, m, f)
    BY <1>2
  <2> DEFINE g == [i \in 0..m + 1 |-> IF i = 0 THEN <<>> ELSE Joined(f[i - 1], lists[i])]
             b == [i \in 0..m + 1 |-> IF i = 0 THEN <<>> ELSE Joined(g[i - 1], lists[i])]
  <2>2. \A i \in 0..m : g[i] = f[i]
    BY <2>1 DEF ChainUpTo
  <2>3. \A i \in 0..m + 1 : i # 0 => i - 1 \in 0..m
    OBVIOUS
  <2>4. \A i \in 0..m + 1 : g[i] = b[i]
    BY <2>2, <2>3
  <2>5. /\ DOMAIN g = 0..m + 1 /\ g = [i \in DOMAIN g |-> g[i]]
        /\ DOMAIN b = 0..m + 1 /\ b = [i \in DOMAIN b |-> b[i]]
    OBVIOUS
  <2> HIDE DEF g, b
  <2>6. g = b
    BY <2>4, <2>5
  <2>7. ChainUpTo(lists, m + 1, g)
    BY <2>6 DEF ChainUpTo, b
  <2> QED BY <2>7
<1> HIDE DEF T
<1>3. Nat \subseteq T
  BY <1>1, <1>2, UpFromZero
<1> QED BY <1>3 DEF T

\* Chain is the last value of a function that satisfies its equation.
LEMMA ChainIs ==
  ASSUME NEW R, NEW lists \in Seq(R)
  PROVE  \E f : /\ Chain(lists) = f[Len(lists)] /\ f[0] = <<>>
                /\ \A i \in 1..Len(lists) : f[i] = Joined(f[i - 1], lists[i])
<1> DEFINE f == CHOOSE h : ChainUpTo(lists, Len(lists), h)
<1>1. \E h : ChainUpTo(lists, Len(lists), h)
  <2>1. Len(lists) \in Nat
    OBVIOUS
  <2>2. \A m \in Nat : \E h : ChainUpTo(lists, m, h)
    BY ChainsExist
  <2> QED BY <2>1, <2>2, Zenon
<1>2. ChainUpTo(lists, Len(lists), f) /\ Chain(lists) = f[Len(lists)]
  BY <1>1, ChainChosen, Zenon
<1> HIDE DEF f
<1>3. \A i \in 0..Len(lists) : f[i] = IF i = 0 THEN <<>> ELSE Joined(f[i - 1], lists[i])
  BY <1>2 DEF ChainUpTo
<1>4. Len(lists) \in Nat
  OBVIOUS
<1> QED BY <1>2, <1>3, <1>4

\* A chain of no list is empty; that of one list more ends with it.
LEMMA ChainOfNone == Chain(<<>>) = <<>>
<1>1. PICK f : Chain(<<>>) = f[Len(<<>>)] /\ f[0] = <<>>
  <2>1. <<>> \in Seq({})
    OBVIOUS
  <2> QED BY <2>1, ChainIs
<1> QED BY <1>1

LEMMA ChainOfMore ==
  ASSUME NEW R, NEW lists \in Seq(R), NEW l \in R
  PROVE  Chain(Append(lists, l)) = Chain(lists) \o l
<1> DEFINE n == Len(lists)
           more == Append(lists, l)
<1>1. n \in Nat /\ more \in Seq(R) /\ Len(more) = n + 1
      /\ more[n + 1] = l /\ \A i \in 1..n : more[i] = lists[i]
  OBVIOUS
<1> HIDE DEF n, more
<1>2. PICK f : /\ Chain(lists) = f[n] /\ f[0] = <<>>
               /\ \A i \in 1..n : f[i] = Joined(f[i - 1], lists[i])
  BY ChainIs DEF n
<1>3. PICK g : /\ Chain(more) = g[n + 1] /\ g[0] = <<>>
               /\ \A i \in 1..n + 1 : g[i] = Joined(g[i - 1], more[i])
  <2>1. \E g : /\ Chain(more) = g[Len(more)] /\ g[0] = <<>>
               /\ \A i \in 1..Len(more) : g[i] = Joined(g[i - 1], more[i])
    BY <1>1, ChainIs, Zenon
  <2> QED BY <1>1, <2>1
<1> DEFINE T == {i \in Nat : i <= n => g[i] = f[i]}
<1>4. 0 \in T
  BY <1>2, <1>3
<1>5. ASSUME NEW i \in Nat, i \in T PROVE i + 1 \in T
  <2> SUFFICES ASSUME i + 1 <= n PROVE g[i + 1] = f[i + 1]
    OBVIOUS
  <2>1. i + 1 \in 1..n /\ i + 1 \in 1..n + 1 /\ i + 1 - 1 = i
    BY <1>1
  <2>2. f[i + 1] = Joined(f[i], lists[i + 1])
    BY <1>2, <2>1
  <2>3. g[i + 1] = Joined(g[i], lists[i + 1])
    BY <1>1, <1>3, <2>1
  <2> QED BY <1>1, <1>5, <2>2, <2>3
<1> HIDE DEF T
<1>6. n \in T
  BY <1>1, <1>4, <1>5, UpFromZero
<1>7. g[n] = f[n]
  BY <1>1, <1>6 DEF T
<1>8. g[n + 1] = Joined(g[n], l)
  BY <1>1, <1>3
<1> QED BY <1>2, <1>3, <1>7, <1>8 DEF Joined, more

LEMMA ListsOf ==
  ASSUME NEW R
  PROVE  /\ <<>> \in Seq(R)
         /\ \A s \in Seq(R), x \in R : Append(s, x) \in Seq(R)
         /\ \A s, t \in Seq(R) : s \o t \in Seq(R)
OBVIOUS

\* A chain of lists of some kind of elements is such a list.
LEMMA ChainOfKind ==
  ASSUME NEW R, NEW lists \in Seq(Seq(R))
  PROVE  Chain(lists) \in Seq(R)
<1> DEFINE P == {ls \in Seq(Seq(R)) : Chain(ls) \in Seq(R)}
<1>1. <<>> \in P
  <2>1. <<>> \in Seq(Seq(R)) /\ <<>> \in Seq(R)
    BY ListsOf, Zenon
  <2> QED BY <2>1, ChainOfNone, Zenon
<1>2. ASSUME NEW ls \in Seq(Seq(R)), NEW l \in Seq(R), ls \in P PROVE Append(ls, l) \in P
  <2>1. Chain(Append(ls, l)) = Chain(ls) \o l
    BY ChainOfMore
  <2>2. Append(ls, l) \in Seq(Seq(R)) /\ Chain(ls) \in Seq(R)
    BY <1>2, ListsOf, Zenon
  <2>3. Chain(ls) \o l \in Seq(R)
    BY <2>2, ListsOf, Zenon
  <2> QED BY <2>1, <2>2, <2>3, Zenon
<1> HIDE DEF P
<1>3. Seq(Seq(R)) \subseteq P
  BY <1>1, <1>2, UpFromEmpty
<1> QED BY <1>3 DEF P

\* What is made of each element, for one element more.
LEMMA OneMade ==
  ASSUME NEW R, NEW F, NEW s \in Seq(R), NEW x \in R
  PROVE  [i \in DOMAIN Append(s, x) |-> F[Append(s, x)[i]]] =
           Append([i \in DOMAIN s |-> F[s[i]]], F[x])
<1> DEFINE n == Len(s)
           a == [i \in DOMAIN s |-> F[s[i]]]
           A == {F[y] : y \in R}
<1>1. /\ n \in Nat /\ DOMAIN s = 1..n /\ DOMAIN Append(s, x) = 1..n + 1
      /\ Append(s, x)[n + 1] = x /\ \A i \in 1..n : Append(s, x)[i] = s[i]
  OBVIOUS
<1>2. a \in Seq(A) /\ Len(a) = n /\ F[x] \in A
  BY <1>1
<1>3. /\ DOMAIN Append(a, F[x]) = 1..n + 1
      /\ Append(a, F[x]) = [i \in DOMAIN Append(a, F[x]) |-> Append(a, F[x])[i]]
      /\ Append(a, F[x])[n + 1] = F[x] /\ \A i \in 1..n : Append(a, F[x])[i] = a[i]
  BY <1>1, <1>2
<1>4. \A i \in 1..n + 1 : F[Append(s, x)[i]] = Append(a, F[x])[i]
  <2>1. \A i \in 1..n : F[Append(s, x)[i]] = Append(a, F[x])[i]
    BY <1>1, <1>3
  <2>2. F[Append(s, x)[n + 1]] = Append(a, F[x])[n + 1]
    BY <1>1, <1>3
  <2>3. \A i \in 1..n + 1 : i \in 1..n \/ i = n + 1
    BY <1>1
  <2> QED BY <2>1, <2>2, <2>3
<1> HIDE DEF a
<1>5. [i \in DOMAIN Append(s, x) |-> F[Append(s, x)[i]]] = Append(a, F[x])
  BY <1>1, <1>3, <1>4
<1> QED BY <1>5 DEF a

-----------------------------------------------------------------------------
(* Lists filtered.                                                         *)

\* Filtering, for one element more.
LEMMA KeptOfNone == \A S : Kept(<<>>, S) = <<>>
BY ChainOfNone DEF Kept

LEMMA KeptOfMore ==
  ASSUME NEW R, NEW list \in Seq(R), NEW x \in R, NEW S
  PROVE  Kept(Append(list, x), S) = IF x \in S THEN Kept(list, S) \o <<x>> ELSE Kept(list, S)
<1> DEFINE F == [y \in R |-> IF y \in S THEN <<y>> ELSE <<>>]
           a == [i \in DOMAIN list |-> F[list[i]]]
<1>1. /\ \A i \in DOMAIN list : list[i] \in R
      /\ \A i \in DOMAIN Append(list, x) : Append(list, x)[i] \in R
  OBVIOUS
<1>2. Kept(list, S) = Chain(a)
  BY <1>1 DEF Kept
<1>3. Kept(Append(list, x), S) = Chain([i \in DOMAIN Append(list, x) |-> F[Append(list, x)[i]]])
  BY <1>1 DEF Kept
<1>4. a \in Seq(Seq(R)) /\ F[x] \in Seq(R)
  <2>1. \A y \in R : F[y] \in Seq(R)
    OBVIOUS
  <2> HIDE DEF F
  <2>2. \A i \in DOMAIN list : a[i] \in Seq(R)
    BY <1>1, <2>1
  <2>3. DOMAIN list = 1..Len(list) /\ Len(list) \in Nat
    OBVIOUS
  <2> DEFINE T == Seq(R)
  <2>4. T = Seq(R)
    OBVIOUS
  <2> HIDE DEF T
  <2>5. a \in Seq(T)
    BY <2>2, <2>3, <2>4
  <2> QED BY <2>1, <2>4, <2>5
<1> HIDE DEF a, F
<1>5. [i \in DOMAIN Append(list, x) |-> F[Append(list, x)[i]]] = Append(a, F[x])
  BY OneMade DEF a
<1>6. Kept(Append(list, x), S) = Kept(list, S) \o F[x]
  BY <1>2, <1>3, <1>4, <1>5, ChainOfMore
<1>7. Chain(a) \in Seq(R)
  BY <1>4, ChainOfKind
<1> QED BY <1>2, <1>6, <1>7 DEF F

\* One element more, of the elements.
LEMMA OneElement ==
  ASSUME NEW R, NEW kept \in Seq(R), NEW x \in R
  PROVE  kept \o <<x>> \in Seq(R) /\ ToSet(kept \o <<x>>) = ToSet(kept) \cup {x}
<1>1. /\ kept \o <<x>> \in Seq(R) /\ Len(kept \o <<x>>) = Len(kept) + 1
      /\ (kept \o <<x>>)[Len(kept) + 1] = x
      /\ \A i \in 1..Len(kept) : (kept \o <<x>>)[i] = kept[i]
  OBVIOUS
<1>2. DOMAIN (kept \o <<x>>) = 1..(Len(kept) + 1) /\ DOMAIN kept = 1..Len(kept) /\ Len(kept) \in Nat
  BY <1>1
<1> QED BY <1>1, <1>2 DEF ToSet

\* The elements of a list that are in S, of whatever kind they are.
LEMMA KeptElements ==
  ASSUME NEW R, NEW list \in Seq(R), NEW S
  PROVE  Kept(list, S) \in Seq(R) /\ ToSet(Kept(list, S)) = ToSet(list) \cap S
<1> DEFINE Good(l) == Kept(l, S) \in Seq(R) /\ ToSet(Kept(l, S)) = ToSet(l) \cap S
           P == {l \in Seq(R) : Good(l)}
<1>1. <<>> \in P
  <2>1. Kept(<<>>, S) = <<>> /\ <<>> \in Seq(R) /\ ToSet(<<>>) = {}
    BY KeptOfNone DEF ToSet
  <2> QED BY <2>1
<1>2. ASSUME NEW l \in Seq(R), NEW x \in R, l \in P PROVE Append(l, x) \in P
  <2>1. Append(l, x) \in Seq(R) /\ ToSet(Append(l, x)) = ToSet(l) \cup {x}
    <3>1. Append(l, x) = l \o <<x>>
      OBVIOUS
    <3> QED BY <3>1, OneElement
  <2>2. Good(l)
    BY <1>2
  <2>3. CASE x \in S
    <3>1. Kept(Append(l, x), S) = Kept(l, S) \o <<x>>
      BY <2>3, KeptOfMore
    <3> HIDE DEF Good
    <3>2. Kept(l, S) \o <<x>> \in Seq(R) /\ ToSet(Kept(l, S) \o <<x>>) = ToSet(Kept(l, S)) \cup {x}
      BY <2>2, OneElement DEF Good
    <3>3. Good(Append(l, x))
      BY <2>1, <2>2, <2>3, <3>1, <3>2 DEF Good
    <3> QED BY <2>1, <3>3
  <2>4. CASE x \notin S
    <3>1. Kept(Append(l, x), S) = Kept(l, S)
      BY <2>4, KeptOfMore
    <3> QED BY <2>1, <2>2, <2>4, <3>1
  <2> QED BY <2>3, <2>4
<1> HIDE DEF P
<1>3. Seq(R) \subseteq P
  BY <1>1, <1>2, UpFromEmpty
<1> QED BY <1>3 DEF P

\* What is kept of a list, of which before some elements have been left out that
\* were not to be kept.
LEMMA KeptOfLeft ==
  ASSUME NEW R, NEW S, NEW list \in Seq(R), NEW left \in [DOMAIN list -> BOOLEAN],
         \A i \in DOMAIN list : list[i] \in S => left[i]
  PROVE  Kept(Chain([i \in DOMAIN list |-> IF left[i] THEN <<list[i]>> ELSE <<>>]), S)
           = Kept(list, S)
<1> DEFINE n == Len(list)
           piece(i) == IF left[i] THEN <<list[i]>> ELSE <<>>
           some(m) == [i \in 1..m |-> piece(i)]
           first(m) == [i \in 1..m |-> list[i]]
           T == {m \in Nat : m <= n => Kept(Chain(some(m)), S) = Kept(first(m), S)}
<1>1. n \in Nat /\ DOMAIN list = 1..n /\ \A i \in 1..n : list[i] \in R
  OBVIOUS
<1>2. \A i \in 1..n : piece(i) \in Seq(R)
  BY <1>1
<1>3. 0 \in T
  <2>1. some(0) = <<>> /\ first(0) = <<>>
    OBVIOUS
  <2> HIDE DEF some, first
  <2> QED BY <2>1, ChainOfNone
<1>4. ASSUME NEW m \in Nat, m \in T PROVE m + 1 \in T
  <2> SUFFICES ASSUME m + 1 <= n PROVE Kept(Chain(some(m + 1)), S) = Kept(first(m + 1), S)
    OBVIOUS
  <2> DEFINE U == Seq(R)
             x == list[m + 1]
  <2>1. m + 1 \in 1..n /\ x \in R /\ \A i \in 1..m : i \in 1..n
    BY <1>1
  <2>2. first(m) \in Seq(R) /\ first(m + 1) = Append(first(m), x)
    BY <1>1, <2>1
  <2>3. piece(m + 1) \in U /\ \A i \in 1..m : piece(i) \in U
    BY <1>2, <2>1
  <2> HIDE DEF piece, U
  <2>4. some(m) \in Seq(U) /\ some(m + 1) = Append(some(m), piece(m + 1))
    BY <2>3
  <2> HIDE DEF some, first
  <2>5. Chain(some(m + 1)) = Chain(some(m)) \o piece(m + 1)
    BY <2>3, <2>4, ChainOfMore
  <2>6. Chain(some(m)) \in Seq(R)
    BY <2>4, ChainOfKind DEF U
  <2>7. Kept(Chain(some(m)), S) = Kept(first(m), S)
    BY <1>4
  <2> DEFINE More(l, y) == IF y \in S THEN Kept(l, S) \o <<y>> ELSE Kept(l, S)
  <2>0. \A l \in Seq(R), y \in R : Kept(Append(l, y), S) = More(l, y)
    <3> SUFFICES ASSUME NEW l \in Seq(R), NEW y \in R PROVE Kept(Append(l, y), S) = More(l, y)
      OBVIOUS
    <3> QED BY KeptOfMore
  <2> HIDE DEF x
  <2>8. Kept(first(m + 1), S) = More(first(m), x)
    <3> HIDE DEF More
    <3> QED BY <2>0, <2>1, <2>2
  <2>9. CASE left[m + 1]
    <3>1. Chain(some(m + 1)) = Append(Chain(some(m)), x)
      BY <2>5, <2>6, <2>9 DEF piece, x
    <3>2. Kept(Append(Chain(some(m)), x), S) = More(Chain(some(m)), x)
      <4> HIDE DEF More
      <4> QED BY <2>0, <2>1, <2>6
    <3>3. More(Chain(some(m)), x) = More(first(m), x)
      BY <2>7
    <3> HIDE DEF More
    <3> QED BY <2>8, <3>1, <3>2, <3>3
  <2>10. CASE ~ left[m + 1]
    <3>1. x \notin S
      BY <1>1, <2>1, <2>10 DEF x
    <3>2. Chain(some(m + 1)) = Chain(some(m))
      BY <2>5, <2>6, <2>10 DEF piece
    <3> QED BY <2>7, <2>8, <3>1, <3>2
  <2> QED BY <2>1, <2>9, <2>10
<1> HIDE DEF T
<1>5. n \in T
  BY <1>1, <1>3, <1>4, UpFromZero
<1>6. some(n) = [i \in DOMAIN list |-> IF left[i] THEN <<list[i]>> ELSE <<>>] /\ first(n) = list
  BY <1>1
<1> HIDE DEF some, first
<1> QED BY <1>1, <1>5, <1>6 DEF T
=============================================================================
