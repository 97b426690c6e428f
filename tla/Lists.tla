------------------------------- MODULE Lists -------------------------------
(***************************************************************************)
(* Lists put together and filtered: what `extend`, `retain` and `filter`   *)
(* make of a Vec.                                                          *)
(***************************************************************************)
EXTENDS Naturals, Sequences

\* The lists one after the other.
Chain(lists) ==
  LET Up[i \in 0..Len(lists)] == IF i = 0 THEN <<>> ELSE Up[i - 1] \o lists[i]
  IN  Up[Len(lists)]

\* The elements of list that are in S, in their order.
Kept(list, S) == Chain([i \in DOMAIN list |-> IF list[i] \in S THEN <<list[i]>> ELSE <<>>])
=============================================================================
