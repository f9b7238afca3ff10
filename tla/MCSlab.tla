------------------------------- MODULE MCSlab -------------------------------
(* Small instances of Slab for TLC: a class of two elements per page and a *)
(* class of one, as ZUS_MAX_SLABS_PER_BLOCK >> index gives for the two     *)
(* largest classes.                                                        *)
EXTENDS Slab, TLC

MCPerPage == [c \in Classes |-> IF c = 0 THEN 2 ELSE 1]

Symmetry == Permutations(Threads) \cup Permutations(Pages)
=============================================================================
