------------------------------ MODULE ToyfsMap ------------------------------
(***************************************************************************)
(* How the layout of a toyfs file is found out: SEEK_DATA and SEEK_HOLE    *)
(* (toyfs_seek) and fiemap (toyfs_fiemap) of fs/toyfs/file.c, each called  *)
(* again and again by a reader that goes on where the last answer ended.   *)
(*                                                                         *)
(* Abstractions.  The list of iblkrefs is a function from pages; a block   *)
(* is shared when its dblkref counts more than one reference.  Blocks may  *)
(* lie behind i_size, as a write that fails leaves them.  The layout does  *)
(* not change while it is read.                                            *)
(* External: the reader, and zufs_fiemap_fill_next_extent, which stores an *)
(* extent while there is room and then says that there is none left.       *)
(***************************************************************************)
EXTENDS Integers, Sequences, SequencesExt

CONSTANTS
  MapPages,     \* pages of the file
  MapPageSize,  \* PAGE_SIZE
  FieMax        \* extents_max of the reader's calls

ASSUME MapAssumption ==
  /\ MapPages \in Nat \ {0} /\ MapPageSize \in Nat \ {0}
  /\ FieMax \subseteq Nat \ {0}

VARIABLES
  fblk,     \* fblk[p]: the block of page p, "none", "own" or "shared"
  fsize,    \* i_size
  fseek,    \* the seeking reader: what it seeks, from where, the bytes it found
  ffie      \* the fiemap reader: the page it has come to, the pages it got

mapVars == <<fblk, fsize, fseek, ffie>>

MapOffs == 0 .. MapPages * MapPageSize

MapTypeOK ==
  /\ fsize \in MapOffs
  /\ fseek.off \in MapOffs /\ fseek.got \subseteq MapOffs
  /\ ffie.next \in 0 .. MapPages

SeekFrom(i) == [for |-> "data", from |-> i, off |-> i, start |-> i, got |-> {}]
NoFiemap == [next |-> 0, got |-> <<>>, shared |-> {}, end |-> FALSE]

MapInit ==
  /\ fblk \in [0 .. MapPages - 1 -> {"none", "own", "shared"}]
  /\ fsize \in MapOffs
  /\ \E i \in 0 .. fsize : fseek = SeekFrom(i)
  /\ ffie = NoFiemap
-----------------------------------------------------------------------------
NextPageMut(off) == off + MapPageSize

(* _next_page *)
NextPage(off) == ((off + MapPageSize) \div MapPageSize) * MapPageSize

(* _seek_block: -1 when there is nothing before i_size.                    *)
SeekBlock(from, exist) ==
  LET seek[off \in Nat] ==
        IF off >= fsize THEN -1
        ELSE IF (fblk[off \div MapPageSize] # "none") = exist THEN off
        ELSE seek[NextPage(off)]
  IN seek[from]

(* A reader takes -1 for the end of the file.                              *)
SeekData ==
  /\ fseek.for = "data"
  /\ LET r == SeekBlock(fseek.off, TRUE)
     IN fseek' = IF r = -1 THEN [fseek EXCEPT !.for = "end"]
                 ELSE [fseek EXCEPT !.for = "hole", !.off = r, !.start = r]
  /\ UNCHANGED <<fblk, fsize, ffie>>

SeekHole ==
  /\ fseek.for = "hole"
  /\ LET r == SeekBlock(fseek.off, FALSE)
         to == IF r = -1 THEN fsize ELSE r
     IN fseek' = [fseek EXCEPT !.for = IF r = -1 THEN "end" ELSE "data", !.off = to,
                               !.got = @ \cup (fseek.start .. to - 1)]
  /\ UNCHANGED <<fblk, fsize, ffie>>
-----------------------------------------------------------------------------
(* The iblkrefs from the page of an offset on (_fetch_iblkref_from).       *)
IblkrefsFrom(p) ==
  SetToSortSeq({q \in p .. MapPages - 1 : fblk[q] # "none"}, <)

ExtentMut(l, j) ==
  LET n == IF fblk[l[j]] = "own" /\ j < Len(l) THEN 2 ELSE 1
  IN [p |-> l[j], n |-> n, shared |-> fblk[l[j]] = "shared", last |-> j + n > Len(l)]

(* The inner loop of _fiemap, at the j-th iblkref.  It compares the blocks *)
(* that follow with the first one, so that an extent has two at most, and  *)
(* only the first one's count decides whether it is shared.                *)
Extent(l, j) ==
  LET n == IF fblk[l[j]] = "own" /\ j < Len(l) /\ l[j + 1] <= l[j] + 1 THEN 2 ELSE 1
  IN [p |-> l[j], n |-> n, shared |-> fblk[l[j]] = "shared", last |-> j + n > Len(l)]

(* _fiemap with room for max extents.                                      *)
Fiemap(p, max) ==
  LET l == IblkrefsFrom(p)
      from[j \in 1 .. Len(l) + 1, k \in 0 .. max] ==
        IF j > Len(l) \/ k = 0 THEN <<>>
        ELSE LET e == Extent(l, j)
             IN <<e>> \o IF e.last THEN <<>> ELSE from[j + e.n, k - 1]
  IN from[1, max]

(* toyfs_fiemap: a reader goes on behind the last extent, until there is   *)
(* none or the last one says so.                                           *)
FiemapCall(max) ==
  /\ ~ffie.end
  /\ LET r == Fiemap(ffie.next, max)
         pages(e) == [k \in 1 .. e.n |-> e.p + k - 1]
     IN ffie' =
          IF r = <<>> THEN [ffie EXCEPT !.end = TRUE]
          ELSE [next |-> Last(r).p + Last(r).n,
                got |-> ffie.got \o FlattenSeq([k \in DOMAIN r |-> pages(r[k])]),
                shared |-> ffie.shared \cup {e.p : e \in {x \in Range(r) : x.shared}},
                end |-> Last(r).last]
  /\ UNCHANGED <<fblk, fsize, fseek>>

(* The readers begin again.                                                *)
ReadAgain ==
  /\ fseek.for = "end" /\ ffie.end
  /\ \E i \in 0 .. fsize : fseek' = SeekFrom(i)
  /\ ffie' = NoFiemap
  /\ UNCHANGED <<fblk, fsize>>

MapNext ==
  \/ SeekData
  \/ SeekHole
  \/ \E max \in FieMax : FiemapCall(max)
  \/ ReadAgain
-----------------------------------------------------------------------------
(***************************************************************************)
(* A reader that seeks data and holes in turn, from any offset, finds the  *)
(* bytes of the file that have a block, all of them and no others          *)
(* (_seek_block).                                                          *)
(***************************************************************************)
SeekExact ==
  LET found == {i \in fseek.from .. fsize - 1 : fblk[i \div MapPageSize] # "none"}
  IN fseek.got = found \/ (fseek.for # "end" /\ fseek.got \subseteq found)

(***************************************************************************)
(* However few extents a call has room for, fiemap lists every page that   *)
(* has a block once and in order, ends after the last one, and calls       *)
(* shared only what is (_fiemap).                                          *)
(***************************************************************************)
FiemapExact ==
  /\ ffie.got = IblkrefsFrom(0) \/ (~ffie.end /\ IsPrefix(ffie.got, IblkrefsFrom(0)))
  /\ \A p \in ffie.shared : fblk[p] = "shared"

(***************************************************************************)
(* A copy made by either kind of reader has all the data of the file.      *)
(***************************************************************************)
LayoutExact == MapTypeOK /\ SeekExact /\ FiemapExact
=============================================================================
