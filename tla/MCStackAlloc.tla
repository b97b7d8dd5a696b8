---------------------------- MODULE MCStackAlloc ---------------------------
(***************************************************************************)
(* StackAlloc for TLC: what the elements of the pools may be, and the      *)
(* symmetry of the blocks and of the pools that are used directly.         *)
(***************************************************************************)
EXTENDS StackAlloc, TLC

MCElements == {Opaque} \cup {Node(v, a) : v \in Values, a \in Slots \cup {Null}}

Symmetric == Permutations(Blocks) \cup Permutations(Pools \ Stacks)
=============================================================================
