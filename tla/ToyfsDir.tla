------------------------------ MODULE ToyfsDir ------------------------------
(***************************************************************************)
(* The pages of a toyfs directory (fs/toyfs/dir.c), as functions of the    *)
(* sequence of pages.  A page is an array of slots; a name takes the slot  *)
(* of its dirent and as many after it as its length needs, which hold the  *)
(* rest of the name.                                                       *)
(***************************************************************************)
EXTENDS Integers, Sequences, FiniteSets

CONSTANTS
  Names,     \* names of directory entries
  Nde,       \* Nde[n]: the slots that name n takes (_namelen_to_nde)
  NSlots,    \* ARRAY_SIZE(dentries->de)
  Inos       \* inode numbers

ASSUME DirAssumption ==
  /\ NSlots \in Nat \ {0}
  /\ Nde \in [Names -> 1 .. NSlots]
  /\ Inos \subseteq Nat \ {0}

Slots == 1 .. NSlots

Free == [k |-> "free"]                     \* d_nlen = 0
Rest == [k |-> "tail"]                     \* bytes of the name before it
Dirent(n, i) == [k |-> "de", n |-> n, i |-> i]

IsDirent(s) == s.k = "de"
EmptyPage == [s \in Slots |-> Free]
NoSlot == 0

(* _next_dirent *)
NextDirent(pg, s) == s + IF IsDirent(pg[s]) THEN Nde[pg[s].n] ELSE 1

(* The slots that a walk over the page comes to, from the first one on:    *)
(* the least set of slots that the walk does not leave.                    *)
Visited(pg) ==
  LET Closed(S) == \A s \in S : NextDirent(pg, s) \in Slots => NextDirent(pg, s) \in S
  IN  {s \in Slots : \A S \in SUBSET Slots : 1 \in S /\ Closed(S) => s \in S}

FirstOf(S) == IF S = {} THEN 0 ELSE CHOOSE s \in S : \A r \in S : s <= r

(* _find_dirent: the first slot on the walk that has the name.             *)
FindDirent(pg, n) == FirstOf({s \in Visited(pg) : IsDirent(pg[s]) /\ pg[s].n = n})

CountFreeMut(pg, s) == NSlots + 1 - s

(* _count_free_de *)
CountFree(pg, s) ==
  LET Used == {r \in s .. NSlots : pg[r] # Free}
  IN  (IF Used = {} THEN NSlots + 1 ELSE CHOOSE r \in Used : \A q \in Used : r <= q) - s

(* _search_free: the first slot on the walk with room for the name.  A run *)
(* of free slots that is too short is skipped as a whole; it is too short  *)
(* from its later slots on, too.                                           *)
SearchFree(pg, n) == FirstOf({s \in Visited(pg) : CountFree(pg, s) >= Nde[n]})
-----------------------------------------------------------------------------
(* A place in a directory is <<page, slot>>.                               *)

NoPlace == <<0, NoSlot>>

(* The first page in which a slot was found; slot[p]: what page p gives.   *)
FirstPlace(slot) ==
  LET p == FirstOf({q \in DOMAIN slot : slot[q] # NoSlot})
  IN  IF p = 0 THEN NoPlace ELSE <<p, slot[p]>>

(* toyfs_lookup_dirent *)
LookupDirent(pages, n) == FirstPlace([p \in DOMAIN pages |-> FindDirent(pages[p], n)])

(* The loop of _acquire_dirent; NoPlace: a page has to be added.           *)
AcquireDirent(pages, n) == FirstPlace([p \in DOMAIN pages |-> SearchFree(pages[p], n)])

OffOfMut(at) == 2 + at[2] - 1

(* d_off of the dirent at a place; 0 and 1 are "." and "..".               *)
OffOf(at) == 2 + (at[1] - 1) * NSlots + at[2] - 1

(* _set_dirent: the slots of the name are cleared and then written.        *)
SetDirent(pages, at, n, i) ==
  [pages EXCEPT ![at[1]] =
     [s \in Slots |-> IF s = at[2] THEN Dirent(n, i)
                      ELSE IF s \in at[2] + 1 .. at[2] + Nde[n] - 1 THEN Rest
                      ELSE @[s]]]

ResetDirentMut(pages, at) ==
  [pages EXCEPT ![at[1]] =
     [s \in Slots |-> IF s \in at[2] .. at[2] + Nde[@[at[2]].n] THEN Free ELSE @[s]]]

(* _reset_dirent *)
ResetDirent(pages, at) ==
  [pages EXCEPT ![at[1]] =
     [s \in Slots |-> IF s \in at[2] .. at[2] + Nde[@[at[2]].n] - 1 THEN Free ELSE @[s]]]

At(pages, at) == pages[at[1]][at[2]]

(* The places of the dirents of a directory, whatever a walk makes of them. *)
Places(pages) == {at \in (DOMAIN pages) \X Slots : IsDirent(At(pages, at))}

Dirents(pages) == {At(pages, at) : at \in Places(pages)}
-----------------------------------------------------------------------------
(* toyfs_readdir.                                                          *)

(* The entries that a call from a position on comes to, in its walks over  *)
(* the pages.                                                              *)
Due(pages, pos) ==
  LET Walk(p) == {<<p, s>> : s \in Visited(pages[p])}
  IN  {at \in UNION {Walk(p) : p \in DOMAIN pages} :
         IsDirent(At(pages, at)) /\ OffOf(at) >= pos}

Before(x, y) == x[1] < y[1] \/ (x[1] = y[1] /\ x[2] <= y[2])

EmitPosMut(at) == OffOf(at)

(* _emit_dirent: the position after an entry was emitted.                  *)
EmitPos(at) == OffOf(at) + 1

(* _iterate_dir from a position on, with a buffer that takes k entries: the *)
(* places it emits, the first ones of the walk, the position it leaves     *)
(* behind and whether there is more.  "." and ".." come first and fit.     *)
IterateDir(pages, pos, k) ==
  LET from == IF pos = 0 THEN 2 ELSE pos
      room == IF pos = 0 THEN k - 2 ELSE k
      due == Due(pages, from)
      out == {at \in due : Cardinality({x \in due : Before(x, at)}) <= room}
      last == CHOOSE at \in out : \A x \in out : Before(x, at)
  IN  [out |-> out, pos |-> IF out = {} THEN from ELSE EmitPos(last), more |-> out # due]
=============================================================================
