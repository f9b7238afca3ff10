------------------------------ MODULE MCAlloc -------------------------------
(***************************************************************************)
(* The two allocators side by side in small instances: PageAlloc, and Slab *)
(* with a class of two elements per page and a class of one.  The two      *)
(* share no state, so that one of them moves in a behaviour and the other  *)
(* stays idle.                                                             *)
(***************************************************************************)
EXTENDS PageAlloc

CONSTANTS
  Parts,                                        \* the ones to move
  SlabThreads, NSlabs, SlabPages, NFreeWant     \* of Slab

VARIABLES
  part,                                         \* the allocator that moves
  slock, spc,                                   \* lock and pc of Slab
  up, pool, meta, pcpu, uc, list, nfree, nused, req, elem, owned

slabVars ==
  <<slock, spc, up, pool, meta, pcpu, uc, list, nfree, nused, req, elem, owned>>

S == INSTANCE Slab WITH Threads <- SlabThreads, Pages <- SlabPages, NClasses <- 2,
                        PerPage <- [c \in {0, 1} |-> 2 - c], lock <- slock, pc <- spc

AllocInit == part \in Parts /\ Init /\ S!Init

AllocNext ==
  /\ part' = part
  /\ \/ part = "pages" /\ Next /\ UNCHANGED slabVars
     \/ part = "slab" /\ S!Next /\ UNCHANGED vars

AllocSpec == AllocInit /\ [][AllocNext]_<<part, vars, slabVars>>

(* With the fairness of the one whose calls have to end.                   *)
PagesSpec == AllocSpec /\ Fairness
SlabSpec == AllocSpec /\ S!Fairness

(***************************************************************************)
(* Every zus_malloc and zus_free returns (slab.c:422): the round over the  *)
(* slabs of other cpus, with a trylock each, ends, and no thread waits for *)
(* the lock of its own slab, or of the slab of its element, for ever.      *)
(***************************************************************************)
SlabCallsEnd == S!CallsEnd
=============================================================================
