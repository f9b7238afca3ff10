----------------------------- MODULE ToyfsFile ------------------------------
(***************************************************************************)
(* The data of toyfs files (fs/toyfs/file.c, mmap.c and the page pool of   *)
(* super.c): pages shared between files by clone, copied on write, and     *)
(* allocated from a pool that also feeds its own bookkeeping.              *)
(*                                                                         *)
(* Each file maps page numbers to blocks (its sorted list of iblkrefs); a  *)
(* block has a reference count (its dblkref).  Threads run one call at a   *)
(* time, one page per step.  The kernel serialises the calls on one file;  *)
(* calls on different files meet in the pool and in the reference counts   *)
(* of shared blocks, under s_mutex or without it, as the code has it.      *)
(*                                                                         *)
(* Abstractions.  A page is PageSize bytes of a small set of values.  A    *)
(* dblkref in use is identified with its block, free dblkrefs and iblkrefs *)
(* are counted.  The pool is a set: pages are alike, so the model pops the *)
(* lowest where the code pops the last one pushed.  The content of a free  *)
(* page is left out.  Calls are issued with arguments that pass _check_io  *)
(* and _check_falloc.                                                      *)
(***************************************************************************)
EXTENDS Integers, FiniteSets

CONSTANTS
  Threads,
  NoThread,     \* "s_mutex is free"
  Files,
  NPages,       \* bound: pages of a file
  PageSize,
  NBlocks,      \* pages in the pool once the inodes are allocated
  Per,          \* Per["d"], Per["i"]: dblkrefs and iblkrefs that fit in a page
  Values,       \* bytes written by the calls, besides 0
  Ops,          \* the calls that are issued
  Ranges,       \* and the ranges <<from, end>> of bytes they are issued for
  MaxRef        \* bound: references to a block when a clone is issued

ASSUME ConstantsAssumption ==
  /\ NoThread \notin Threads
  /\ IsFiniteSet(Files)
  /\ NPages \in Nat \ {0}
  /\ PageSize \in Nat \ {0}
  /\ NBlocks \in Nat
  /\ Per \in [{"d", "i"} -> Nat \ {0}]
  /\ Values \subseteq Nat
  /\ \A r \in Ranges : r[1] \in Nat /\ r[2] \in r[1] + 1 .. NPages * PageSize
  /\ Ops \subseteq {"write", "falloc", "punch", "zero", "collapse", "trunc",
                    "clonefile", "clonerange", "mmap"}
  /\ MaxRef \in Nat

NoBlock == 0
Blocks == 1 .. NBlocks
FilePages == 0 .. NPages - 1
MaxOff == NPages * PageSize
Offs == 0 .. MaxOff
Bytes == Values \cup {0}

VARIABLES
  mem,      \* the pool, the reference counts and the contents of the blocks
  blk,      \* blk[f][p]: the block of page p of file f
  isize,    \* i_size
  iblocks,  \* i_blocks
  slock,    \* holder of s_mutex across steps
  op        \* op[t]: the call a thread is in

files == <<blk, isize, iblocks>>
vars == <<mem, files, slock, op>>

(* A call k on file f, with the other file s of a clone: the range from ..  *)
(* end with the cursor off, the offset src in s, the byte v; b and r are   *)
(* locals of _unique_pmemb.                                                *)
Call(k, f, s, from, end, src, v) ==
  [k |-> k, f |-> f, s |-> s, from |-> from, off |-> from, end |-> end,
   src |-> src, v |-> v, b |-> NoBlock, r |-> 0]

(* Between calls; err says that the last one returned -ENOSPC.             *)
Idle(err) == [k |-> "none", err |-> err]

Kinds == Ops \cup {"load", "store"}

TypeOK ==
  /\ mem.pages \subseteq Blocks
  /\ mem.bfree \in Nat
  /\ mem.free \in [{"d", "i"} -> Nat]
  /\ mem.refcnt \in [Blocks -> Nat]
  /\ mem.data \in [Blocks -> [0 .. PageSize - 1 -> Bytes]]
  /\ blk \in [Files -> [FilePages -> Blocks \cup {NoBlock}]]
  /\ isize \in [Files -> Offs]
  /\ iblocks \in [Files -> Nat]
  /\ slock \in Threads \cup {NoThread}
  /\ \A t \in Threads : op[t] \in {Idle(TRUE), Idle(FALSE)} \/ op[t].k \in Kinds

Zeros == [i \in 0 .. PageSize - 1 |-> 0]

(* _pool_setup and _sbi_setup; the page of the first inodes is already     *)
(* taken, but not from f_bfree.                                            *)
Init ==
  /\ mem = [pages |-> Blocks,
            bfree |-> NBlocks + 1,
            free |-> [x \in {"d", "i"} |-> 0],
            refcnt |-> [b \in Blocks |-> 0],
            data |-> [b \in Blocks |-> Zeros]]
  /\ blk = [f \in Files |-> [p \in FilePages |-> NoBlock]]
  /\ isize = [f \in Files |-> 0]
  /\ iblocks = [f \in Files |-> 0]
  /\ slock = NoThread
  /\ op = [t \in Threads |-> Idle(FALSE)]

Page(off) == off \div PageSize
NextPage(off) == (Page(off) + 1) * PageSize
Least(a, b) == IF a < b THEN a ELSE b
-----------------------------------------------------------------------------
(* The pool (super.c) and the block references, as functions of mem.       *)

\* The page that is popped.
Top(m) == CHOOSE b \in m.pages : \A c \in m.pages : b <= c

AcquirePmemb(m) ==
  [m EXCEPT !.pages = @ \ {Top(m)}, !.bfree = @ - 1, !.data[Top(m)] = Zeros]

ReleasePmemb(m, b) ==
  [m EXCEPT !.pages = @ \cup {b}, !.bfree = @ + 1, !.data[b] = Zeros]

(* _pool_pop_dblkref and _pool_pop_iblkref: a page of the pool is cut up   *)
(* when the list is empty.                                                 *)
CanAcquire(m, x) == m.free[x] > 0 \/ m.pages # {}

AcquireRef(m, x) ==
  IF m.free[x] > 0
  THEN [m EXCEPT !.free[x] = @ - 1]
  ELSE [m EXCEPT !.pages = @ \ {Top(m)}, !.free[x] = Per[x] - 1]

ReleaseRef(m, x) == [m EXCEPT !.free[x] = @ + 1]

NoSpace(m) == [b |-> NoBlock, m |-> m]

NewDblkrefMut(m) ==
  IF m.pages = {} \/ m.bfree = 0
  THEN NoSpace(m)
  ELSE LET b == Top(m)
           n == AcquirePmemb(m)
       IN  IF CanAcquire(n, "d")
           THEN [b |-> b, m |-> [AcquireRef(n, "d") EXCEPT !.refcnt[b] = 1]]
           ELSE NoSpace(n)

(* _new_dblkref: a block with one reference, and what becomes of mem.      *)
NewDblkref(m) ==
  IF m.pages = {} \/ m.bfree = 0
  THEN NoSpace(m)
  ELSE LET b == Top(m)
           n == AcquirePmemb(m)
       IN  IF CanAcquire(n, "d")
           THEN [b |-> b, m |-> [AcquireRef(n, "d") EXCEPT !.refcnt[b] = 1]]
           ELSE NoSpace(ReleasePmemb(n, b))

FreeDblkref(m, b) == ReleasePmemb(ReleaseRef(m, "d"), b)

DecrefMut(m, b) ==
  LET n == [m EXCEPT !.refcnt[b] = @ - 1]
  IN  IF n.refcnt[b] <= 1 THEN FreeDblkref(n, b) ELSE n

(* _decref_dblkref                                                         *)
Decref(m, b) ==
  LET n == [m EXCEPT !.refcnt[b] = @ - 1]
  IN  IF n.refcnt[b] = 0 THEN FreeDblkref(n, b) ELSE n

(* _new_iblkref                                                            *)
NewIblkref(m) ==
  LET n == NewDblkref(m)
  IN  IF n.b = NoBlock THEN n
      ELSE IF CanAcquire(n.m, "i") THEN [b |-> n.b, m |-> AcquireRef(n.m, "i")]
      ELSE NoSpace(Decref(n.m, n.b))

CopyMut(m, b) == NewDblkref(m)

(* A new block with the content of block b.                                *)
Copy(m, b) ==
  LET n == NewDblkref(m)
  IN  IF n.b = NoBlock THEN n ELSE [n EXCEPT !.m.data[n.b] = m.data[b]]

RequireMut(f, p) ==
  LET b == blk[f][p]
  IN  IF b = NoBlock THEN NewIblkref(mem) ELSE [b |-> b, m |-> mem]

(* _require_iblkref: the block to write page p of f into.  A shared block  *)
(* is copied; the count of the block that f gives up stays as it is.       *)
Require(f, p) ==
  LET b == blk[f][p]
  IN  IF b = NoBlock THEN NewIblkref(mem)
      ELSE IF mem.refcnt[b] > 1 THEN Copy(mem, b)
      ELSE [b |-> b, m |-> mem]

FillMut(m, b, lo, hi, v) ==
  [m EXCEPT !.data[b] =
     [i \in 0 .. PageSize - 1 |-> IF lo <= i /\ i < hi - 1 THEN v ELSE @[i]]]

(* The bytes lo .. hi - 1 of block b become v.                             *)
Fill(m, b, lo, hi, v) ==
  [m EXCEPT !.data[b] =
     [i \in 0 .. PageSize - 1 |-> IF lo <= i /\ i < hi THEN v ELSE @[i]]]
-----------------------------------------------------------------------------
(* Steps of a call.                                                        *)

(* The calls a thread can make.                                            *)
Aligned(off) == off % PageSize = 0

Calls ==
  UNION {{Call(k, f, f, r[1], r[2], 0, 0) :
            k \in {"falloc", "punch", "zero", "collapse"}, f \in Files, r \in Ranges},
         {Call("write", f, f, r[1], r[2], 0, v) : f \in Files, r \in Ranges, v \in Values},
         {Call("trunc", f, f, 0, size, 0, 0) : f \in Files, size \in Offs},
         {Call("clonefile", f, s, 0, 0, 0, 0) : f \in Files, s \in Files},
         {Call("clonerange", f, s, r[1], r[2], src, 0) :
            f \in Files, s \in Files, r \in Ranges, src \in Offs},
         {Call("mmap", f, f, off, off + 1, 0, v) :
            f \in Files, off \in Offs, v \in Values}}

IsClone(c) == c.k \in {"clonefile", "clonerange"}

IsValid(c) ==
  /\ c.k \in Ops
  /\ c.k \in {"collapse", "clonerange"} => Aligned(c.from) /\ Aligned(c.end) /\ Aligned(c.src)
  /\ IsClone(c) => /\ c.f # c.s
                   /\ c.src + (c.end - c.from) <= MaxOff
                   /\ \A b \in Blocks : mem.refcnt[b] < MaxRef
  /\ c.k = "mmap" => c.from < isize[c.f]

InUse(f) == \E t \in Threads : op[t].k # "none" /\ f \in {op[t].f, op[t].s}

Begin(t, c) ==
  /\ op[t].k = "none"
  /\ IsValid(c)
  /\ ~InUse(c.f) /\ ~InUse(c.s)
  /\ op' = [op EXCEPT ![t] = c]
  /\ UNCHANGED <<mem, files, slock>>

CanLock(t) == slock \in {NoThread, t}

Advance(t, off) == op' = [op EXCEPT ![t].off = off]

Return(t) == op' = [op EXCEPT ![t] = Idle(FALSE)]

Fail(t) == op' = [op EXCEPT ![t] = Idle(TRUE)]

SetBlkMut(f, p, b) ==
  /\ blk' = [blk EXCEPT ![f][p] = b]
  /\ iblocks' = [iblocks EXCEPT ![f] = @ + 1]

(* Page p of f refers to b, with an iblkref of its own if it had none.     *)
SetBlk(f, p, b) ==
  /\ blk' = [blk EXCEPT ![f][p] = b]
  /\ iblocks' = IF blk[f][p] = NoBlock THEN [iblocks EXCEPT ![f] = @ + 1] ELSE iblocks

(* i_size after bytes up to end were written.                              *)
Extend(f, end) == isize' = [isize EXCEPT ![f] = IF end > @ THEN end ELSE @]

(* _write and _falloc_range, one page.                                     *)
RwPage(t) ==
  LET o == op[t]
      n == Require(o.f, Page(o.off))
      nxt == NextPage(o.off)
      lo == o.off % PageSize
  IN
  /\ o.k \in {"write", "falloc"} /\ o.off < o.end
  /\ CanLock(t)
  /\ n.b # NoBlock
  /\ mem' = IF o.k = "write"
            THEN Fill(n.m, n.b, lo, lo + Least(nxt, o.end) - o.off, o.v)
            ELSE n.m
  /\ SetBlk(o.f, Page(o.off), n.b)
  /\ Advance(t, nxt)
  /\ UNCHANGED <<isize, slock>>

(* -ENOSPC: what was written stays, i_size does not follow.                *)
RwNoSpace(t) ==
  LET o == op[t]
      n == Require(o.f, Page(o.off))
  IN
  /\ o.k \in {"write", "falloc"} /\ o.off < o.end
  /\ CanLock(t)
  /\ n.b = NoBlock
  /\ mem' = n.m
  /\ Fail(t)
  /\ UNCHANGED <<files, slock>>

RwEnd(t) ==
  LET o == op[t] IN
  /\ o.k \in {"write", "falloc"} /\ o.off >= o.end
  /\ Extend(o.f, o.end)
  /\ Return(t)
  /\ UNCHANGED <<mem, blk, iblocks, slock>>

(* _drop_iblkref                                                           *)
Drop(t, f, p) ==
  /\ CanLock(t)
  /\ mem' = ReleaseRef(Decref(mem, blk[f][p]), "i")
  /\ blk' = [blk EXCEPT ![f][p] = NoBlock]
  /\ iblocks' = [iblocks EXCEPT ![f] = @ - 1]

(* _punch_hole (also of _collapse_range), one page: part of a page is      *)
(* zeroed in place, a whole page is dropped.                               *)
PunchPage(t) ==
  LET o == op[t]
      p == Page(o.off)
      b == blk[o.f][p]
      len == Least(NextPage(o.off), o.end) - o.off
      lo == o.off % PageSize
  IN
  /\ o.k \in {"punch", "collapse"} /\ o.off < o.end
  /\ \/ b = NoBlock /\ UNCHANGED <<mem, blk, iblocks>>
     \/ /\ b # NoBlock /\ len < PageSize
        /\ mem' = Fill(mem, b, lo, lo + len, 0)
        /\ UNCHANGED <<blk, iblocks>>
     \/ b # NoBlock /\ len = PageSize /\ Drop(t, o.f, p)
  /\ Advance(t, NextPage(o.off))
  /\ UNCHANGED <<isize, slock>>

PunchEnd(t) ==
  /\ op[t].k = "punch" /\ op[t].off >= op[t].end
  /\ Return(t)
  /\ UNCHANGED <<mem, files, slock>>

CollapsedSizeMut(size, len) == size - len

CollapsedSize(size, len) == IF len <= size THEN size - len ELSE size

(* The rest of _collapse_range: the size shrinks and the blocks above the  *)
(* range move down.                                                        *)
CollapseEnd(t) ==
  LET o == op[t]
      len == o.end - o.from
  IN
  /\ o.k = "collapse" /\ o.off >= o.end
  /\ isize' = [isize EXCEPT ![o.f] = CollapsedSize(@, len)]
  /\ blk' = [blk EXCEPT ![o.f] =
               [p \in FilePages |->
                  IF p < Page(o.from) THEN @[p]
                  ELSE IF p + Page(len) < NPages THEN @[p + Page(len)]
                  ELSE NoBlock]]
  /\ Return(t)
  /\ UNCHANGED <<mem, iblocks, slock>>

(* The pages of f from page p on that have a block.                        *)
BlocksFrom(f, p) == {q \in FilePages : q >= p /\ blk[f][q] # NoBlock}

First(S) == CHOOSE p \in S : \A q \in S : p <= q

(* _zero_range, one block, in place.  The first round uses the offset the  *)
(* range starts at, even when that offset lies in a hole before the block: *)
(* it may then clear bytes after the end of the range, or leave bytes of   *)
(* the range as they are.                                                  *)
ZeroBlk(t) ==
  LET o == op[t]
      S == BlocksFrom(o.f, Page(o.off))
      p == First(S)
      off == IF o.off = o.from THEN o.from ELSE p * PageSize
      lo == off % PageSize
      len == Least((p + 1) * PageSize, o.end) - off
  IN
  /\ o.k = "zero"
  /\ S # {} /\ p * PageSize < o.end
  /\ mem' = Fill(mem, blk[o.f][p], lo, lo + len, 0)
  /\ Advance(t, (p + 1) * PageSize)
  /\ UNCHANGED <<files, slock>>

ZeroEnd(t) ==
  LET o == op[t]
      S == BlocksFrom(o.f, Page(o.off))
  IN
  /\ o.k = "zero"
  /\ S # {} => First(S) * PageSize >= o.end
  /\ Return(t)
  /\ UNCHANGED <<mem, files, slock>>

DropFromMut(size) == Page(size) + 1

(* The first page that _drop_range drops.                                  *)
DropFrom(size) == IF size % PageSize = 0 THEN Page(size) ELSE Page(size) + 1

DoomedMut(o) ==
  IF o.k = "trunc" /\ o.end < isize[o.f] THEN BlocksFrom(o.f, DropFrom(o.end)) ELSE {}

(* toyfs_truncate to a smaller size and _clone_entire_file_range drop      *)
(* blocks one by one.                                                      *)
Doomed(o) ==
  IF o.k = "clonefile" THEN BlocksFrom(o.f, 0)
  ELSE IF o.k = "trunc" /\ o.end < isize[o.f] THEN BlocksFrom(o.f, DropFrom(o.end))
  ELSE {}

DropRange(t) ==
  LET o == op[t] IN
  /\ o.k \in {"trunc", "clonefile"}
  /\ slock # t /\ Doomed(o) # {}
  /\ Drop(t, o.f, First(Doomed(o)))
  /\ UNCHANGED <<isize, slock, op>>

(* The block that _zero_after clears the end of.                           *)
TailBlk(o) ==
  IF o.end < isize[o.f] /\ o.end % PageSize # 0 THEN blk[o.f][Page(o.end)] ELSE NoBlock

TruncEnd(t) ==
  LET o == op[t]
      b == TailBlk(o)
  IN
  /\ o.k = "trunc" /\ Doomed(o) = {}
  /\ b # NoBlock => mem.refcnt[b] <= 1
  /\ mem' = IF b = NoBlock THEN mem
            ELSE Fill(mem, b, o.end % PageSize, PageSize, 0)
  /\ isize' = [isize EXCEPT ![o.f] = o.end]
  /\ Return(t)
  /\ UNCHANGED <<blk, iblocks, slock>>

(* _unique_pmemb on behalf of toyfs_truncate, without s_mutex: the shared  *)
(* block is copied, then its count is loaded and stored.                   *)
TruncCopy(t) ==
  LET o == op[t]
      n == Copy(mem, TailBlk(o))
  IN
  /\ o.k = "trunc" /\ Doomed(o) = {}
  /\ TailBlk(o) # NoBlock /\ mem.refcnt[TailBlk(o)] > 1
  /\ CanLock(t)
  /\ mem' = n.m
  /\ IF n.b = NoBlock
     THEN Fail(t) /\ isize' = [isize EXCEPT ![o.f] = o.end]
     ELSE op' = [op EXCEPT ![t].k = "load", ![t].b = n.b] /\ UNCHANGED isize
  /\ UNCHANGED <<blk, iblocks, slock>>

TruncLoad(t) ==
  LET o == op[t] IN
  /\ o.k = "load"
  /\ op' = [op EXCEPT ![t].k = "store", ![t].r = mem.refcnt[TailBlk(o)]]
  /\ UNCHANGED <<mem, files, slock>>

TruncStore(t) ==
  LET o == op[t]
      m == [mem EXCEPT !.refcnt[TailBlk(o)] = o.r - 1]
  IN
  /\ o.k = "store"
  /\ mem' = Fill(m, o.b, o.end % PageSize, PageSize, 0)
  /\ blk' = [blk EXCEPT ![o.f][Page(o.end)] = o.b]
  /\ isize' = [isize EXCEPT ![o.f] = o.end]
  /\ Return(t)
  /\ UNCHANGED <<iblocks, slock>>

(* The clones hold s_mutex over all their pages.                           *)
CloneLock(t) ==
  LET o == op[t] IN
  /\ IsClone(o)
  /\ o.k = "clonefile" => Doomed(o) = {}
  /\ slock = NoThread
  /\ slock' = t
  /\ UNCHANGED <<mem, files, op>>

(* -ENOSPC: the pages cloned so far stay.                                  *)
CloneFail(t) ==
  /\ slock' = NoThread
  /\ Fail(t)
  /\ UNCHANGED files

(* _clone_entire_file_range, one block of the source.                      *)
ShareBlk(t) ==
  LET o == op[t]
      S == BlocksFrom(o.s, Page(o.off))
      p == First(S)
      b == blk[o.s][p]
  IN
  /\ o.k = "clonefile" /\ slock = t
  /\ S # {}
  /\ \/ /\ ~CanAcquire(mem, "i")
        /\ UNCHANGED mem
        /\ CloneFail(t)
     \/ /\ CanAcquire(mem, "i")
        /\ mem' = [AcquireRef(mem, "i") EXCEPT !.refcnt[b] = @ + 1]
        /\ SetBlk(o.f, p, b)
        /\ Advance(t, (p + 1) * PageSize)
        /\ UNCHANGED <<isize, slock>>

ShareEnd(t) ==
  LET o == op[t] IN
  /\ o.k = "clonefile" /\ slock = t
  /\ BlocksFrom(o.s, Page(o.off)) = {}
  /\ isize' = [isize EXCEPT ![o.f] = isize[o.s]]
  /\ slock' = NoThread
  /\ Return(t)
  /\ UNCHANGED <<mem, blk, iblocks>>

CloneAdvance(t) == op' = [op EXCEPT ![t].off = @ + PageSize, ![t].src = @ + PageSize]

SharePageMut(m, b, sb) == [m EXCEPT !.refcnt[sb] = @ + 1]

(* _share_page: a page of block b comes to refer to sb.                    *)
SharePage(m, b, sb) == [Decref(m, b) EXCEPT !.refcnt[sb] = @ + 1]

(* _clone_range with a block in the source.                                *)
ClonePage(t) ==
  LET o == op[t]
      p == Page(o.off)
      sb == blk[o.s][Page(o.src)]
      n == Require(o.f, p)
  IN
  /\ o.k = "clonerange" /\ slock = t /\ o.off < o.end
  /\ sb # NoBlock
  /\ \/ n.b = NoBlock /\ mem' = n.m /\ CloneFail(t)
     \/ /\ n.b # NoBlock
        /\ mem' = SharePage(n.m, n.b, sb)
        /\ SetBlk(o.f, p, sb)
        /\ Extend(o.f, NextPage(o.off))
        /\ CloneAdvance(t)
        /\ UNCHANGED slock

(* _clone_range with a hole in the source: a block of the destination is   *)
(* made its own (_unique_pmemb) and zeroed.                                *)
CloneHole(t) ==
  LET o == op[t]
      p == Page(o.off)
      b == blk[o.f][p]
      n == IF mem.refcnt[b] > 1 THEN Copy(mem, b) ELSE [b |-> b, m |-> mem]
      m == IF n.b # b THEN [n.m EXCEPT !.refcnt[b] = @ - 1] ELSE n.m
  IN
  /\ o.k = "clonerange" /\ slock = t /\ o.off < o.end
  /\ blk[o.s][Page(o.src)] = NoBlock
  /\ \/ b = NoBlock /\ CloneAdvance(t) /\ UNCHANGED <<mem, files, slock>>
     \/ b # NoBlock /\ n.b = NoBlock /\ mem' = n.m /\ CloneFail(t)
     \/ /\ b # NoBlock /\ n.b # NoBlock
        /\ mem' = Fill(m, n.b, 0, PageSize, 0)
        /\ SetBlk(o.f, p, n.b)
        /\ Extend(o.f, NextPage(o.off))
        /\ CloneAdvance(t)
        /\ UNCHANGED slock

CloneEnd(t) ==
  LET o == op[t] IN
  /\ o.k = "clonerange" /\ slock = t /\ o.off >= o.end
  /\ slock' = NoThread
  /\ Return(t)
  /\ UNCHANGED <<mem, files>>

(* A store through a mapping: _get_block_wr gives the block there is, or a *)
(* new one, and the byte changes in it.                                    *)
MmapWrite(t) ==
  LET o == op[t]
      p == Page(o.off)
      b == blk[o.f][p]
      n == IF b # NoBlock THEN [b |-> b, m |-> mem] ELSE Require(o.f, p)
      i == o.off % PageSize
  IN
  /\ o.k = "mmap"
  /\ b = NoBlock => CanLock(t)
  /\ \/ n.b = NoBlock /\ mem' = n.m /\ Fail(t) /\ UNCHANGED <<blk, iblocks>>
     \/ /\ n.b # NoBlock
        /\ mem' = Fill(n.m, n.b, i, i + 1, o.v)
        /\ SetBlk(o.f, p, n.b)
        /\ Return(t)
  /\ UNCHANGED <<isize, slock>>

Step(t) ==
  \/ RwPage(t) \/ RwNoSpace(t) \/ RwEnd(t)
  \/ PunchPage(t) \/ PunchEnd(t) \/ CollapseEnd(t)
  \/ ZeroBlk(t) \/ ZeroEnd(t)
  \/ DropRange(t) \/ TruncEnd(t) \/ TruncCopy(t) \/ TruncLoad(t) \/ TruncStore(t)
  \/ CloneLock(t) \/ ShareBlk(t) \/ ShareEnd(t)
  \/ ClonePage(t) \/ CloneHole(t) \/ CloneEnd(t)
  \/ MmapWrite(t)

Next == \E t \in Threads : Step(t) \/ \E c \in Calls : Begin(t, c)

Spec == Init /\ [][Next]_vars
-----------------------------------------------------------------------------
(* Properties.                                                             *)

(* The places that refer to block b.                                       *)
Refs(b) == {fp \in Files \X FilePages : blk[fp[1]][fp[2]] = b}

LiveBlocks == {b \in Blocks : Refs(b) # {}}

(* The assertion in _decref_dblkref (file.c:86) is true whenever a file    *)
(* drops one of its pages: a block some file refers to has a positive      *)
(* count.                                                                  *)
LiveRefcnt == \A b \in LiveBlocks : mem.refcnt[b] > 0

(* A block is never given away while a file refers to it: its count is at  *)
(* least the number of references (writes leave it too high, never too     *)
(* low), and the page pool does not hold it.                               *)
RefsCovered ==
  \A b \in LiveBlocks : /\ mem.refcnt[b] >= Cardinality(Refs(b))
                        /\ b \notin mem.pages

(* i_blocks, which stat reports and _free_iblkref asserts on, counts the   *)
(* blocks of the file through writes, holes, collapses and failed clones.  *)
IBlocks == \A f \in Files : iblocks[f] = Cardinality(BlocksFrom(f, 0))

(* The new blocks of truncates between the copy and the change of the file. *)
InCopy == {op[t].b : t \in {u \in Threads : op[u].k \in {"load", "store"}}}

(* Blocks that are lost to the file system: no file refers to them, no     *)
(* call works on them, but their count keeps them from being freed.        *)
Stranded == {b \in Blocks : mem.refcnt[b] > 0} \ (LiveBlocks \cup InCopy)

(* Every page of the device is in the pool, or a block of a file, or cut   *)
(* into dblkrefs or iblkrefs, or stranded, and it is one of these only,    *)
(* after any call, the failing ones included; f_bfree counts the blocks of *)
(* the files and the stranded ones as used.                                *)
PoolConserved ==
  LET held == LiveBlocks \cup InCopy
      data == Cardinality(held) + Cardinality(Stranded)
      dblkrefs == mem.free["d"] + data
      iblkrefs == mem.free["i"] +
                  Cardinality({fp \in Files \X FilePages : blk[fp[1]][fp[2]] # NoBlock})
  IN  /\ NBlocks = Cardinality(mem.pages) + data
                    + dblkrefs \div Per["d"] + iblkrefs \div Per["i"]
      /\ mem.pages \cap (held \cup Stranded) = {}
      /\ mem.bfree = NBlocks + 1 - data

(* How far the count of block b is above what refers to it.                *)
Drift(b) ==
  mem.refcnt[b] - Cardinality(Refs(b)) - (IF b \in InCopy THEN 1 ELSE 0)

(* A step of t writes or clones over a page whose block b is shared: the   *)
(* page gets a block of its own and b keeps the reference.                 *)
GivesUp(t, b) ==
  /\ op[t].k \in {"write", "falloc", "clonerange"} /\ op[t].off < op[t].end
  /\ blk[op[t].f][Page(op[t].off)] = b /\ mem.refcnt[b] > 1
  /\ op[t].k = "clonerange" => blk[op[t].s][Page(op[t].src)] # NoBlock

(* The only way to lose a reference, and with the last of them the page,   *)
(* is the copy on write of _require_iblkref (file.c:414-419), one at a     *)
(* time; drops, truncates, collapses, clones over holes and all that fails *)
(* half way keep the counts of all blocks as far from the references as    *)
(* they were.                                                              *)
LostByCowOnly ==
  [][\A b \in Blocks :
       \/ Drift(b)' = Drift(b)
       \/ Drift(b)' = Drift(b) + 1 /\ \E t \in Threads : GivesUp(t, b)]_vars

(* The accounts of the pool and the files' own counters, after any call    *)
(* that succeeds, fails for want of space or is half way (_new_dblkref,    *)
(* _free_iblkref, toyfs_statfs); a stranded block is on the account, which *)
(* does not make it usable.                                                *)
PoolExact == TypeOK /\ IBlocks /\ PoolConserved

(* The byte at offset i of file f.                                         *)
Byte(f, i) ==
  LET b == blk[f][Page(i)] IN IF b = NoBlock THEN 0 ELSE mem.data[b][i % PageSize]

(* What a read of the whole file returns (_read).                          *)
Content(f) == [i \in 0 .. isize[f] - 1 |-> Byte(f, i)]

Target(t, f) == op[t].k # "none" /\ op[t].f = f

Shares(f, g) == \E p, q \in FilePages : blk[f][p] # NoBlock /\ blk[f][p] = blk[g][q]

(* Files that share blocks after a clone are independent: a step of write, *)
(* fallocate, collapse, truncate or clone changes what is read from the    *)
(* file it is called on and from no other.  Punch, zero-range and stores   *)
(* through a mapping write a shared block in place (file.c:482): they do   *)
(* change other files, but only those that share a block with theirs.      *)
CowIsolated ==
  [][\A f \in Files :
       Content(f)' # Content(f) =>
         \E t \in Threads :
           \/ Target(t, f)
           \/ op[t].k \in {"zero", "punch", "mmap"} /\ Shares(op[t].f, f)]_vars

(* Copying on write loses nothing: a step of write leaves the bytes of its *)
(* file outside the range as they were, and plain fallocate leaves all of  *)
(* them.  (Not so punch and zero-range, which write shared blocks in       *)
(* place: another page of the same file may share the block.)              *)
OnlyItsRange ==
  [][\A t \in Threads, f \in Files :
       (Target(t, f) /\ op[t].k \in {"write", "falloc"}) =>
         \A i \in 0 .. isize[f] - 1 :
           (op[t].k = "falloc" \/ i \notin op[t].from .. op[t].end - 1)
             => Byte(f, i)' = Byte(f, i)]_vars

(* A call changes the bytes it is about and no others, of its file and of  *)
(* the files that share pages with it (_write, _clone).            *)
NothingElseChanges == OnlyItsRange /\ CowIsolated

Returned(t) == op'[t] = Idle(FALSE)

(* When write or punch returns without an error, a read of its range gives *)
(* the bytes written, or zeros.                                            *)
LandsOnReturn(t, f) ==
  (op[t].k \in {"write", "punch"} /\ Returned(t)) =>
    \A i \in op[t].from .. op[t].end - 1 : Byte(f, i)' = op[t].v

(* When truncate to a smaller size returns without an error, no byte of    *)
(* the old tail is left to reappear when the file grows again.             *)
TailZero(t, f) ==
  (op[t].k \in {"trunc", "store"} /\ op[t].end < isize[f] /\ Returned(t)) =>
    \A i \in op[t].end .. MaxOff - 1 : Byte(f, i)' = 0

(* What a call that returned promised is what is read afterwards (_write,  *)
(* _punch_hole_at, toyfs_truncate).                                        *)
EffectOnReturn ==
  [][\A t \in Threads, f \in Files :
       Target(t, f) => LandsOnReturn(t, f) /\ TailZero(t, f)]_vars

(* A clone that returns without an error leaves two equal files.           *)
CloneEqual ==
  [][\A t \in Threads, f \in Files, s \in Files :
       (Target(t, f) /\ op[t].k = "clonefile" /\ op[t].s = s /\ Returned(t)) =>
         Content(f)' = Content(s)']_vars

(* A clone is a copy in its own right, when it is made and ever after      *)
(* (_clone, _write).                                                       *)
ClonesIndependent == CowIsolated /\ CloneEqual
=============================================================================
