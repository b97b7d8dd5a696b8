-------------------------------- MODULE Lists -------------------------------
(***************************************************************************)
(* Lists of descriptors as epoll keeps them, in the order of their edges,  *)
(* and lists of nodes that are linked by pointers.                         *)
(***************************************************************************)
EXTENDS Integers, Sequences, FiniteSetsExt, SequencesExt

(* The entries of list that are in F, in their order. *)
Kept(list, F) ==
  LET kept[n \in 0 .. Len(list)] ==
        IF n = 0 THEN <<>>
        ELSE IF list[n] \in F THEN Append(kept[n - 1], list[n])
        ELSE kept[n - 1]
  IN kept[Len(list)]

(* The list with those of F at its end that it does not have yet. *)
Listed(list, F) == list \o SetToSeq(F \ ToSet(list))

(* The nodes that a walk of so many steps is at, one after another, and    *)
(* null when it has come to the end.                                       *)
Walk(start, next, steps, null) ==
  LET at[n \in 0 .. steps] ==
        IF n = 0 THEN start ELSE IF at[n - 1] = null THEN null ELSE next[at[n - 1]]
  IN at

(* The nodes from start on, of a list whose nodes are in S. *)
Linked(start, next, S, null) ==
  LET at == Walk(start, next, Cardinality(S), null)
  IN {at[n] : n \in 0 .. Cardinality(S)} \ {null}
=============================================================================
