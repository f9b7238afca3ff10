---------------------------- MODULE MCToyfsFile -----------------------------
(* Instances of ToyfsFile for TLC.                                         *)
EXTENDS ToyfsFile, TLC

(* How many dblkrefs and iblkrefs fill a page.  The first makes each of    *)
(* the three allocations behind a new block of a file fail.                *)
TightPer == [d |-> 2, i |-> 1]
MCPer == [d |-> 2, i |-> 2]

(* All ranges of a file.                                                   *)
AllRanges == {r \in Offs \X Offs : r[1] < r[2]}

Symmetry == Permutations(Files)
=============================================================================
