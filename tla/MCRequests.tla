----------------------------- MODULE MCRequests -----------------------------
(***************************************************************************)
(* What the daemon does at the kernel's request besides mounting, in small *)
(* instances: commands (Dispatch), T2 I/O (IomEnc, MdTable), debug         *)
(* messages (Ddbg) and the layout of a file (ToyfsMap).  They share no     *)
(* state, so that one of them moves in a behaviour and the others stay in  *)
(* one initial state.                                                      *)
(***************************************************************************)
EXTENDS Dispatch, MdTable, Ddbg, ToyfsMap, TLC

VARIABLE part

MCWords == [wbinv |-> 1, t2io |-> 2, zusmem |-> 3]
MCSizeLists == UNION {[1 .. n -> {2, 6}] : n \in 0 .. 2} \cup {<<4, 2, 6>>, <<6, 9, 3>>}
AllOps == Required \cup DOMAIN Missing
MCVectors == {Required, AllOps, AllOps \ {"free_inode"}}
Msg(p, l, n) == [place |-> p, line |-> l, len |-> n]
MCLibs == <<[name |-> "m1", msgs |-> <<Msg("p1", "1", 1), Msg("p2", "2", 3), Msg("p2", "1", 1)>>],
            [name |-> "m2", msgs |-> <<Msg("p1", "2", 2)>>]>>

Symmetry == Permutations(Chans) \cup Permutations(Zis)

Init ==
  /\ part \in {"cmd", "iom", "md", "dbg", "map"}
  /\ CmdInit /\ IomInit /\ MdInit /\ DbgInit /\ MapInit
  /\ part # "cmd" => vec = Required
  /\ part # "map" => fsize = 0 /\ \A p \in DOMAIN fblk : fblk[p] = "none"
  /\ part # "md" => msize = [k \in Tiers |-> <<>>]

Next ==
  /\ part' = part
  /\ \/ part = "cmd" /\ CmdNext /\ UNCHANGED <<iomVars, mdVars, dbgVars, mapVars>>
     \/ part = "iom" /\ IomNext /\ UNCHANGED <<cmdVars, mdVars, dbgVars, mapVars>>
     \/ part = "md" /\ MdNext /\ UNCHANGED <<cmdVars, iomVars, dbgVars, mapVars>>
     \/ part = "dbg" /\ DbgNext /\ UNCHANGED <<cmdVars, iomVars, mdVars, mapVars>>
     \/ part = "map" /\ MapNext /\ UNCHANGED <<cmdVars, iomVars, mdVars, dbgVars>>

Spec == Init /\ [][Next]_<<part, cmdVars, iomVars, mdVars, dbgVars, mapVars>>
=============================================================================
