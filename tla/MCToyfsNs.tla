----------------------------- MODULE MCToyfsNs ------------------------------
(* Instances of ToyfsNs: two names of one slot and one of two.             *)
EXTENDS ToyfsNs, TLC

CONSTANTS n1, n2, n3

MCNames == {n1, n2, n3}
MCNde == n1 :> 1 @@ n2 :> 2 @@ n3 :> 1

Symmetry == {f @@ g : f \in Permutations(Threads), g \in Permutations({n1, n3})}
=============================================================================
