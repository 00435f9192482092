---------------------------- MODULE MCLinkedList ----------------------------
(***************************************************************************)
(* An instance of the pointer-level lists for TLC: the addresses and the   *)
(* data are only compared, so both may be permuted.                        *)
(***************************************************************************)
EXTENDS LinkedList, TLC

Symmetry == Permutations(LISTS) \union Permutations(ADDRS) \union Permutations(DATA)
=============================================================================
