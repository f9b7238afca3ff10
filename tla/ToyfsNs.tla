------------------------------ MODULE ToyfsNs -------------------------------
(***************************************************************************)
(* Names and inodes of toyfs (fs/toyfs/inode.c, dir.c, namei.c, symlink.c  *)
(* and the inode table and pool of super.c): inodes made, linked, renamed, *)
(* unlinked, looked up and evicted while directories are read.             *)
(*                                                                         *)
(* The kernel is the environment.  It serialises the calls that use one    *)
(* directory, as the VFS does (a lookup shares the directory with other    *)
(* lookups, whatever changes it has it alone), keeps the directories of    *)
(* the inodes it holds, and drops an inode from its cache when it pleases; *)
(* it may do that while a lookup is on its way to the same inode.          *)
(*                                                                         *)
(* Abstractions.  An inode in pmem (toyfs_inode) is identified with its    *)
(* number, of which each is used once; file data is in ToyfsFile.  A       *)
(* toyfs_inode_info exists at most once for an inode: whole, or half made. *)
(* Pages and free inodes are counted; f_favail, which always changes with  *)
(* f_ffree, is left out.  Not issued: O_TMPFILE, lookups of "." and "..",  *)
(* the eviction of the root, calls on a half made inode (the first use of  *)
(* one dereferences NULL) and on a name that an overwriting rename left    *)
(* with the inode it should have replaced.                                 *)
(*                                                                         *)
(* The operations are composed by what toyfs means them to return.  The    *)
(* dispatcher does not take toyfs_new_inode so: zus.h types the operation  *)
(* as an int and toyfs returns a pointer, so that _new_inode takes an inode*)
(* for an error, and NULL for a success without an inode.  What is checked *)
(* and proved here is true of toyfs under a dispatcher that agrees with it.*)
(***************************************************************************)
EXTENDS ToyfsDir

CONSTANTS
  Threads,
  Root,         \* TOYFS_ROOT_INO
  NPages,       \* pages of the pool, and f_files
  InoPerPage,   \* TOYFS_INODES_PER_PAGE
  Kinds,        \* kinds of inodes that are made
  MaxHeld,      \* bound: handles of one inode when a lookup is issued
  BufSize,      \* entries a readdir buffer takes
  ScanDirs,     \* bound: the directories that are read
  XattrInos,    \* bound: the inodes that get attributes
  MaxFfree      \* bound: f_ffree when a creation fails after toyfs_alloc_ii

ASSUME NsAssumption ==
  /\ IsFiniteSet(Threads)
  /\ Root \in Inos
  /\ \A i \in Inos : Root <= i
  /\ NPages \in Nat \ {0}
  /\ InoPerPage \in Nat \ {0}
  /\ Kinds \subseteq {"dir", "reg", "lnk", "lnk32", "longlnk"}
  /\ MaxHeld \in Nat \ {0}
  /\ BufSize \in Nat /\ BufSize >= 2
  /\ ScanDirs \subseteq Inos /\ XattrInos \subseteq Inos
  /\ MaxFfree \in Nat

VARIABLES
  node,     \* node[i]: the inode in pmem
  tii,      \* tii[i]: its toyfs_inode_info, "none", "full" or "half"
  ref,      \* tii->ref
  tab,      \* the inodes with a toyfs_inode_ref in s_itable
  mem,      \* free pages and inodes, s_statvfs
  top,      \* s_top_ino
  op,       \* op[t]: the call a thread is in
  held,     \* external: held[i]: handles of i the kernel has
  stale,    \* names left behind by an overwriting rename
  rd,       \* a directory being read
  uaf,      \* an inode_ref was used after it was freed
  lost      \* pages of symlinks that were dropped without being released

vars == <<node, tii, ref, tab, mem, top, op, held, stale, rd, uaf, lost>>
tiiVars == <<tii, ref, tab, held>>

NoNode == [live |-> FALSE, kind |-> "none", nlink |-> 0, size |-> 0, pages |-> <<>>,
           xattr |-> FALSE]
Node(kind, nlink) == [NoNode EXCEPT !.live = TRUE, !.kind = kind, !.nlink = nlink]

NoScan == [d |-> 0, pos |-> 0, due |-> {}, seen |-> {}, missed |-> {}, dup |-> FALSE]
Idle == [k |-> "none", d |-> 0, i |-> 0]

TypeOK ==
  /\ \A i \in Inos : /\ node[i].nlink \in Nat /\ node[i].size \in Nat
                     /\ node[i].kind \in Kinds \cup {"none", "dir"}
                     /\ node[i].live = FALSE => node[i] = NoNode
  /\ tii \in [Inos -> {"none", "full", "half"}]
  /\ ref \in [Inos -> Nat] /\ held \in [Inos -> Nat]
  /\ tab \subseteq Inos
  /\ mem \in [pages : Nat, ifree : Nat, bfree : Nat, ffree : Nat]
  /\ top \in Nat
  /\ \A t \in Threads : op[t].k \in {"none", "create", "undo", "store", "found", "iget"}
  /\ uaf \in BOOLEAN /\ lost \in Nat

(* _sbi_init: the root is in the table, with no reference and a page of    *)
(* inodes cut from the pool.                                               *)
Init ==
  /\ node = [i \in Inos |-> IF i = Root THEN Node("dir", 2) ELSE NoNode]
  /\ tii = [i \in Inos |-> IF i = Root THEN "full" ELSE "none"]
  /\ ref = [i \in Inos |-> 0]
  /\ tab = {Root}
  /\ mem = [pages |-> NPages - 1, ifree |-> InoPerPage - 1,
            bfree |-> NPages, ffree |-> NPages - 1]
  /\ top = Root + 1
  /\ op = [t \in Threads |-> Idle]
  /\ held = [i \in Inos |-> IF i = Root THEN 1 ELSE 0]
  /\ stale = {}
  /\ rd = NoScan
  /\ uaf = FALSE
  /\ lost = 0
-----------------------------------------------------------------------------
(* The pool (super.c).                                                     *)

HasPage(m) == m.pages > 0 /\ m.bfree > 0

AcquirePmemb(m) == [m EXCEPT !.pages = @ - 1, !.bfree = @ - 1]

ReleasePmembs(m, n) == [m EXCEPT !.pages = @ + n, !.bfree = @ + n]

HasInode(m) == m.ifree > 0 \/ m.pages > 0

(* _pool_pop_inode: a page of inodes is added when there is no free one.   *)
AcquireInode(m) ==
  IF m.ifree > 0 THEN [m EXCEPT !.ifree = @ - 1]
  ELSE [m EXCEPT !.pages = @ - 1, !.ifree = InoPerPage - 1]

ReleaseInode(m) == [m EXCEPT !.ifree = @ + 1]

AllocIi(m) == [m EXCEPT !.ffree = @ - 1]
FreeIi(m) == [m EXCEPT !.ffree = @ + 1]

(* The table: an inode stays in it without an inode_info unless removed.   *)
ITrack(i) == tab \cup {i}
IUntrack(i, remove) == IF remove THEN tab \ {i} ELSE tab

(* Pages the inode owns besides its place in a page of inodes.             *)
SymPages(x) == IF x.kind \in {"lnk32", "longlnk"} THEN 1 ELSE 0
XattrPages(x) == IF x.xattr THEN 1 ELSE 0
OwnPages(x) == Len(x.pages) + SymPages(x) + XattrPages(x)
-----------------------------------------------------------------------------
(* Links between inodes, as functions of node and mem.                     *)

IsDir(x) == x.kind = "dir"

StdAddDentryMut(nd, d, i) == [nd EXCEPT ![i].nlink = @ + 1]

(* zus_std_add_dentry *)
StdAddDentry(nd, d, i) ==
  LET x == [nd EXCEPT ![i].nlink = @ + 1]
  IN  IF IsDir(nd[i]) THEN [x EXCEPT ![d].nlink = @ + 1] ELSE x

(* zus_std_remove_dentry *)
StdRemoveDentry(nd, d, i) ==
  IF IsDir(nd[i]) THEN [nd EXCEPT ![i].nlink = @ - 2, ![d].nlink = @ - 1]
  ELSE [nd EXCEPT ![i].nlink = @ - 1]

CanAdd(nd, m, d, n) == AcquireDirent(nd[d].pages, n) # NoPlace \/ HasPage(m)

(* toyfs_add_dirent, where CanAdd: i_size counts dirents here.             *)
AddDirent(nd, m, d, n, i) ==
  LET at == AcquireDirent(nd[d].pages, n)
      full == at = NoPlace
      pages == IF full THEN Append(nd[d].pages, EmptyPage) ELSE nd[d].pages
      place == IF full THEN <<Len(pages), 1>> ELSE at
      x == [nd EXCEPT ![d].pages = SetDirent(pages, place, n, i), ![d].size = @ + 1]
  IN  [nd |-> StdAddDentry(x, d, i), m |-> IF full THEN AcquirePmemb(m) ELSE m]

(* toyfs_remove_dirent                                                     *)
RemoveDirent(nd, d, n, i) ==
  LET x == [nd EXCEPT ![d].pages = ResetDirent(@, LookupDirent(@, n)), ![d].size = @ - 1]
  IN  StdRemoveDentry(x, d, i)

(* The end of toyfs_remove_dentry.                                         *)
ForceFree(nd, i) ==
  IF IsDir(nd[i]) /\ nd[i].nlink = 1 /\ nd[i].size = 0
  THEN [nd EXCEPT ![i].nlink = 0] ELSE nd

(* toyfs_rename once the target is known to be absent.                     *)
MoveDirent(nd, m, d, n, d2, n2, i) ==
  LET a == AddDirent(nd, m, d2, n2, i)
      x == RemoveDirent(a.nd, d, n, i)
  IN  [nd |-> IF IsDir(x[i]) THEN [x EXCEPT ![i].nlink = @ + 1] ELSE x, m |-> a.m]

Has(nd, d, n) == LookupDirent(nd[d].pages, n) # NoPlace
InoOf(nd, d, n) == At(nd[d].pages, LookupDirent(nd[d].pages, n)).i
-----------------------------------------------------------------------------
Live == {i \in Inos : node[i].live}

(* The links: what the dirents of the live directories say.                *)
Links == UNION {{<<d, e.n, e.i>> : e \in Dirents(node[d].pages)} : d \in Live}

(* What the kernel can call.                                               *)

Usable(i) == held[i] > 0 /\ tii[i] = "full" /\ node[i].live
Creating(i) == \E t \in Threads : op[t].k = "create" /\ op[t].i = i

(* A directory: the kernel has no name for it before its dirent is there.  *)
UsableDir(d) == Usable(d) /\ IsDir(node[d]) /\ node[d].nlink > 0 /\ ~Creating(d)

Shared(d) == \E t \in Threads : op[t].k \in {"found", "iget"} /\ op[t].d = d
Exclusive(d) == \E t \in Threads : op[t].k \in {"create", "undo", "store"} /\ op[t].d = d
Locked(d) == Shared(d) \/ Exclusive(d)

(* The entry n of d, in the kernel's cache, for a call that changes it.    *)
Cached(d, n) ==
  /\ UsableDir(d) /\ ~Locked(d)
  /\ Has(node, d, n) /\ <<d, n>> \notin stale
  /\ Usable(InoOf(node, d, n))

Absent(d, n) == UsableDir(d) /\ ~Locked(d) /\ ~Has(node, d, n)

(* A directory that is being read: the entries that were there all the     *)
(* time, due to be read and seen already.                                  *)
KeepScan(nd) ==
  rd' = IF rd.d = 0 THEN rd
        ELSE LET now == Dirents(nd[rd.d].pages)
             IN  [rd EXCEPT !.due = @ \cap now, !.seen = @ \cap now]

(* The inode number is consumed only once an inode was acquired.           *)
NewInode(t, d, n, kind) ==
  /\ op[t] = Idle /\ top \in Inos
  /\ mem.ffree > 0 /\ HasInode(mem)
  /\ Absent(d, n)
  /\ LET m == AcquireInode(AllocIi(mem))
         x == Node(kind, IF kind = "dir" THEN 1 ELSE 0)
     IN  /\ SymPages(x) = 1 => HasPage(m)
         /\ mem' = IF SymPages(x) = 1 THEN AcquirePmemb(m) ELSE m
         /\ node' = [node EXCEPT ![top] = x]
  /\ tab' = ITrack(top)
  /\ tii' = [tii EXCEPT ![top] = "full"]
  /\ ref' = [ref EXCEPT ![top] = 1]
  /\ held' = [held EXCEPT ![top] = 1]
  /\ op' = [op EXCEPT ![t] = [k |-> "create", d |-> d, i |-> top, n |-> n]]
  /\ top' = top + 1
  /\ UNCHANGED <<stale, rd, uaf, lost>>

(* toyfs_new_inode fails with an inode_info made: no inode, or an inode    *)
(* that is released again since it is a long symlink and has no page.      *)
NewInodeFail(t, d, n, kind) ==
  /\ op[t] = Idle /\ top \in Inos
  /\ mem.ffree > 0 /\ mem.ffree <= MaxFfree
  /\ \/ /\ ~HasInode(mem)
        /\ mem' = AllocIi(mem)
        /\ top' = top
     \/ /\ HasInode(mem)
        /\ SymPages(Node(kind, 0)) = 1 /\ ~HasPage(AcquireInode(mem))
        /\ mem' = ReleaseInode(AcquireInode(AllocIi(mem)))
        /\ top' = top + 1
  /\ Absent(d, n)
  /\ op' = [op EXCEPT ![t] = [k |-> "undo", d |-> d, i |-> 0]]
  /\ UNCHANGED <<node, tiiVars, stale, rd, uaf, lost>>

(* Then toyfs_tii_free counts it in f_ffree, without the lock that every   *)
(* other change of f_ffree is made under: it reads the count ...           *)
UndoLoad(t) ==
  /\ op[t].k = "undo"
  /\ op' = [op EXCEPT ![t] = [k |-> "store", d |-> @.d, i |-> 0, r |-> mem.ffree]]
  /\ UNCHANGED <<node, tiiVars, mem, top, stale, rd, uaf, lost>>

UndoStoreMut(t) ==
  /\ op[t].k = "store"
  /\ op' = [op EXCEPT ![t] = Idle]
  /\ UNCHANGED <<node, tiiVars, mem, top, stale, rd, uaf, lost>>

(* ... and writes it, one higher than it was then.                         *)
UndoStore(t) ==
  /\ op[t].k = "store"
  /\ mem' = [mem EXCEPT !.ffree = op[t].r + 1]
  /\ op' = [op EXCEPT ![t] = Idle]
  /\ UNCHANGED <<node, tiiVars, top, stale, rd, uaf, lost>>

Finish(t) == op' = [op EXCEPT ![t] = Idle]

(* toyfs_add_dentry, and the end of the creation.                          *)
AddDentry(t) ==
  /\ op[t].k = "create"
  /\ CanAdd(node, mem, op[t].d, op[t].n)
  /\ LET a == AddDirent(node, mem, op[t].d, op[t].n, op[t].i)
     IN  node' = a.nd /\ mem' = a.m
  /\ KeepScan(node')
  /\ Finish(t)
  /\ UNCHANGED <<tiiVars, top, stale, uaf, lost>>

(* toyfs_add_dentry of one more name for an inode.                         *)
Link(d, n, i) ==
  /\ Usable(i) /\ ~IsDir(node[i]) /\ node[i].nlink > 0 /\ ~Creating(i)
  /\ Absent(d, n)
  /\ CanAdd(node, mem, d, n)
  /\ LET a == AddDirent(node, mem, d, n, i) IN node' = a.nd /\ mem' = a.m
  /\ KeepScan(node')
  /\ UNCHANGED <<tiiVars, top, op, stale, uaf, lost>>

(* toyfs_remove_dentry; a directory with entries stays (-ENOTEMPTY).       *)
RemoveDentry(d, n) ==
  /\ Cached(d, n)
  /\ LET i == InoOf(node, d, n)
     IN  /\ ~(IsDir(node[i]) /\ node[i].size > 0) /\ ~Locked(i)
         /\ node' = ForceFree(RemoveDirent(node, d, n, i), i)
  /\ KeepScan(node')
  /\ UNCHANGED <<tiiVars, mem, top, op, stale, uaf, lost>>

(* toyfs_rename to a name that is not there.  Bound: a directory moves     *)
(* only within its directory or to the root, so never below itself.        *)
Rename(d, n, d2, n2) ==
  /\ Absent(d2, n2) /\ Cached(d, n)
  /\ IsDir(node[InoOf(node, d, n)]) => d2 \in {d, Root}
  /\ CanAdd(node, mem, d2, n2)
  /\ LET a == MoveDirent(node, mem, d, n, d2, n2, InoOf(node, d, n))
     IN  node' = a.nd /\ mem' = a.m
  /\ KeepScan(node')
  /\ UNCHANGED <<tiiVars, top, op, stale, uaf, lost>>

(* toyfs_rename over a name that is there: only the old dirent goes.       *)
RenameOver(d, n, d2, n2) ==
  /\ Cached(d2, n2) /\ Cached(d, n)
  /\ LET i == InoOf(node, d, n)
         j == InoOf(node, d2, n2)
         x == RemoveDirent(node, d, n, i)
     IN  /\ i # j /\ IsDir(node[i]) = IsDir(node[j])
         /\ ~Locked(j) /\ node[j].size = 0
         /\ node' = IF IsDir(x[i]) THEN [x EXCEPT ![i].nlink = @ + 1] ELSE x
  /\ stale' = stale \cup {<<d2, n2>>}
  /\ KeepScan(node')
  /\ UNCHANGED <<tiiVars, mem, top, op, uaf, lost>>

(* _require_xattr, the first time an attribute is set.                     *)
SetXattr(i) ==
  /\ i \in XattrInos /\ Usable(i) /\ ~node[i].xattr /\ HasPage(mem)
  /\ node' = [node EXCEPT ![i].xattr = TRUE]
  /\ mem' = AcquirePmemb(mem)
  /\ UNCHANGED <<tiiVars, top, op, stale, rd, uaf, lost>>
-----------------------------------------------------------------------------
(* A lookup: toyfs_lookup, then toyfs_iget finds the inode_ref and, later, *)
(* takes the lock of the inodes and uses it.                               *)

Lookup(t, d, n) ==
  /\ op[t] = Idle /\ UsableDir(d) /\ ~Exclusive(d) /\ Has(node, d, n)
  /\ held[InoOf(node, d, n)] < MaxHeld
  /\ op' = [op EXCEPT ![t] = [k |-> "found", d |-> d, i |-> InoOf(node, d, n)]]
  /\ UNCHANGED <<node, tiiVars, mem, top, stale, rd, uaf, lost>>

FindInodeRef(t) ==
  /\ op[t].k = "found"
  /\ op' = [op EXCEPT ![t] = IF @.i \in tab THEN [@ EXCEPT !.k = "iget"] ELSE Idle]
  /\ UNCHANGED <<node, tiiVars, mem, top, stale, rd, uaf, lost>>

(* toyfs_alloc_ii leaves ti, ino and zi of a new toyfs_inode_info unset.   *)
IgetNew(t) ==
  /\ op[t].k = "iget" /\ tii[op[t].i] = "none"
  /\ LET i == op[t].i
         ok == mem.ffree > 0
     IN  /\ uaf' = (uaf \/ i \notin tab)
         /\ tii' = IF ok THEN [tii EXCEPT ![i] = "half"] ELSE tii
         /\ ref' = IF ok THEN [ref EXCEPT ![i] = 1] ELSE ref
         /\ held' = IF ok THEN [held EXCEPT ![i] = @ + 1] ELSE held
         /\ mem' = IF ok THEN AllocIi(mem) ELSE mem
  /\ Finish(t)
  /\ UNCHANGED <<node, tab, top, stale, rd, lost>>

IgetHitMut(t) ==
  /\ op[t].k = "iget" /\ tii[op[t].i] # "none"
  /\ held' = [held EXCEPT ![op[t].i] = @ + 1]
  /\ uaf' = (uaf \/ op[t].i \notin tab)
  /\ Finish(t)
  /\ UNCHANGED <<node, tii, ref, tab, mem, top, stale, rd, lost>>

IgetHit(t) ==
  /\ op[t].k = "iget" /\ tii[op[t].i] # "none"
  /\ ref' = [ref EXCEPT ![op[t].i] = @ + 1]
  /\ held' = [held EXCEPT ![op[t].i] = @ + 1]
  /\ uaf' = (uaf \/ op[t].i \notin tab)
  /\ Finish(t)
  /\ UNCHANGED <<node, tii, tab, mem, top, stale, rd, lost>>
-----------------------------------------------------------------------------
(* toyfs_evict, also the operation free_inode.                             *)

ReleasedMut(x) == Len(x.pages) + IF x.kind = "longlnk" THEN 1 ELSE 0

(* The pages that toyfs_free_inode releases: a symlink of exactly the size *)
(* of i_symlink has one, which toyfs_release_symlink does not release.     *)
Released(x) ==
  Len(x.pages) + XattrPages(x) + IF x.kind = "longlnk" THEN 1 ELSE 0

EvictLastMut(i) ==
  /\ ref[i] = 1
  /\ tii' = [tii EXCEPT ![i] = "none"]
  /\ ref' = [ref EXCEPT ![i] = 0]
  /\ tab' = IUntrack(i, TRUE)
  /\ node' = [node EXCEPT ![i] = NoNode]
  /\ mem' = FreeIi(ReleasePmembs(ReleaseInode(mem), Released(node[i])))
  /\ lost' = lost

EvictKeepMut(i) ==
  /\ ref[i] = 1
  /\ tii' = [tii EXCEPT ![i] = "none"]
  /\ ref' = [ref EXCEPT ![i] = 0]
  /\ mem' = FreeIi(mem)
  /\ UNCHANGED <<node, tab, lost>>

(* The last reference: an inode with links only loses its inode_info, one  *)
(* without is freed, but for a directory with entries, which stays.        *)
EvictLast(i) ==
  LET x == node[i]
      gone == x.nlink = 0
      free == gone /\ ~(IsDir(x) /\ x.size > 0)
  IN  /\ ref[i] = 1
      /\ tii' = [tii EXCEPT ![i] = "none"]
      /\ ref' = [ref EXCEPT ![i] = 0]
      /\ tab' = IUntrack(i, gone)
      /\ node' = IF free THEN [node EXCEPT ![i] = NoNode] ELSE node
      /\ mem' = FreeIi(IF free THEN ReleasePmembs(ReleaseInode(mem), Released(x)) ELSE mem)
      /\ lost' = IF free /\ x.kind = "lnk32" THEN lost + 1 ELSE lost

EvictRef(i) ==
  /\ ref[i] > 1
  /\ ref' = [ref EXCEPT ![i] = @ - 1]
  /\ UNCHANGED <<node, tii, tab, mem, lost>>

(* The kernel keeps a directory for as long as it has an inode below it or *)
(* a call in it.                                                           *)
InUse(i) ==
  \/ Locked(i) \/ Creating(i) \/ rd.d = i
  \/ \E e \in Dirents(node[i].pages) : held[e.i] > 0

Evict(i) ==
  /\ i # Root /\ Usable(i)
  /\ held[i] = 1 => ~InUse(i)
  /\ EvictRef(i) \/ EvictLast(i)
  /\ held' = [held EXCEPT ![i] = @ - 1]
  /\ UNCHANGED <<top, op, stale, rd, uaf>>

(* No room for the dirent: the dispatcher gives the new inode back.        *)
AddDentryFail(t) ==
  /\ op[t].k = "create"
  /\ ~CanAdd(node, mem, op[t].d, op[t].n)
  /\ EvictLast(op[t].i)
  /\ held' = [held EXCEPT ![op[t].i] = 0]
  /\ Finish(t)
  /\ UNCHANGED <<top, stale, rd, uaf>>
-----------------------------------------------------------------------------
(* toyfs_readdir, call after call, as the directory changes.               *)

StartScan(d) ==
  /\ rd.d = 0 /\ d \in ScanDirs /\ UsableDir(d)
  /\ rd' = [NoScan EXCEPT !.d = d, !.due = Dirents(node[d].pages)]
  /\ UNCHANGED <<node, tiiVars, mem, top, op, stale, uaf, lost>>

(* The scan is over when there is no more; it should have missed nothing.  *)
ReadDir ==
  /\ rd.d # 0 /\ UsableDir(rd.d) /\ ~Exclusive(rd.d)
  /\ LET r == IterateDir(node[rd.d].pages, rd.pos, BufSize)
         got == {At(node[rd.d].pages, at) : at \in r.out}
         twice == got \cap rd.seen # {} \/ Cardinality(got) < Cardinality(r.out)
     IN  rd' = IF r.more
               THEN [rd EXCEPT !.pos = r.pos, !.due = @ \ got,
                               !.seen = @ \cup (rd.due \cap got), !.dup = @ \/ twice]
               ELSE [NoScan EXCEPT !.missed = rd.due \ got, !.dup = rd.dup \/ twice]
  /\ UNCHANGED <<node, tiiVars, mem, top, op, stale, uaf, lost>>

(* The reader closes the directory before its end.                         *)
EndScan ==
  /\ rd.d # 0
  /\ rd' = NoScan
  /\ UNCHANGED <<node, tiiVars, mem, top, op, stale, uaf, lost>>
-----------------------------------------------------------------------------
Next ==
  \/ \E t \in Threads :
       \/ AddDentry(t) \/ AddDentryFail(t) \/ UndoLoad(t) \/ UndoStore(t)
       \/ FindInodeRef(t) \/ IgetNew(t) \/ IgetHit(t)
       \/ \E l \in Links : Lookup(t, l[1], l[2])
       \/ \E d \in Inos, n \in Names, kind \in Kinds :
            NewInode(t, d, n, kind) \/ NewInodeFail(t, d, n, kind)
  \/ \E l \in Links :
       \/ RemoveDentry(l[1], l[2])
       \/ \E d \in Inos, n \in Names :
            Rename(l[1], l[2], d, n) \/ RenameOver(l[1], l[2], d, n)
  \/ \E d \in Inos, n \in Names, i \in Inos : Link(d, n, i)
  \/ \E i \in Inos : SetXattr(i) \/ Evict(i) \/ StartScan(i)
  \/ ReadDir
  \/ EndScan

Spec == Init /\ [][Next]_vars
-----------------------------------------------------------------------------
LinksTo(i) == {l \in Links : l[3] = i}
SubDirs(d) == {l \in Links : l[1] = d /\ IsDir(node[l[3]])}

(* Every link count says how many dirents lead to the inode; a directory   *)
(* counts itself, the root its missing dirent, and each subdirectory, also *)
(* across renames (zus_std_add_dentry, zus_std_remove_dentry).             *)
NlinkExact ==
  \A i \in Live :
    node[i].nlink = Cardinality(LinksTo(i))
                      + IF ~IsDir(node[i]) \/ (node[i].nlink = 0 /\ node[i].size = 0) THEN 0
                        ELSE Cardinality(SubDirs(i)) + IF i = Root THEN 2 ELSE 1

(* The pages of the inodes, each by its owner and a number.                *)
Owned == UNION {{i} \X (1 .. OwnPages(node[i])) : i \in Inos}

(* Whatever is created, fails halfway or is freed, each page is free or in *)
(* one use (inodes, directories, symlinks, attributes), and f_bfree counts *)
(* the ones that are not owned; but for one page lost with each symlink of *)
(* exactly the size of i_symlink that was freed: toyfs_new_inode takes the *)
(* page at that size, toyfs_release_symlink gives it back only above it.   *)
PoolConserved ==
  LET owned == Cardinality(Owned)
      inodes == Cardinality(Live) + mem.ifree
  IN  /\ inodes % InoPerPage = 0
      /\ mem.pages + inodes \div InoPerPage + owned + lost = NPages
      /\ mem.bfree = NPages - owned - lost

(* How far f_ffree is from f_files less the inode_infos there are, those   *)
(* that a failed toyfs_new_inode is about to free included.                *)
Undoing == {t \in Threads : op[t].k \in {"undo", "store"}}
Skew ==
  mem.ffree + Cardinality({i \in Inos : tii[i] # "none"}) + Cardinality(Undoing) - NPages

(* f_ffree stays exact through creations, igets, evictions and failures,   *)
(* but for the one change that is not made under s_mutex: a count that     *)
(* toyfs_tii_free writes after a failed creation, when another call has    *)
(* changed f_ffree since it was read.                                      *)
FfreeByRace ==
  [][Skew' # Skew => \E t \in Threads : op[t].k = "store" /\ op[t].r # mem.ffree]_vars

(* What the kernel holds is there: each handle it got from toyfs_new_inode *)
(* or toyfs_iget is one reference of an inode_info that is in the table.   *)
HandlesValid ==
  \A i \in Inos \ {Root} :
    /\ ref[i] = held[i]
    /\ held[i] > 0 <=> tii[i] # "none"
    /\ held[i] > 0 => i \in tab /\ node[i].live

(* toyfs_iget uses the inode_ref it found before it took the lock only     *)
(* while it exists, whoever evicts the inode in between.                   *)
IgetSafe == ~uaf

(* A name leads to an inode that exists and that toyfs_iget finds.         *)
LinkedSurvive == \A l \in Links : node[l[3]].live /\ l[3] \in tab

(* Nothing that is named, held or being looked up is freed under its user, *)
(* in whatever order lookups, evictions and removals come (toyfs_iget,     *)
(* toyfs_evict).                                                           *)
HandlesSafe == TypeOK /\ HandlesValid /\ IgetSafe /\ LinkedSurvive

(* An inode that nobody can reach any more was freed.  A directory stays:  *)
(* toyfs_evict sees the link it has to itself.                             *)
NoOrphans ==
  \A i \in Live : held[i] = 0 /\ LinksTo(i) = {} => IsDir(node[i])

(* An inode is there as long as somebody names, holds or looks it up, and, *)
(* unless it is a directory, no longer (toyfs_iget, toyfs_evict).          *)
InodesKept == HandlesSafe /\ NoOrphans

(* A directory finds each of its names, at the one dirent it has, and its  *)
(* size is the number of its dirents.                                      *)
DirConsistent ==
  \A d \in Live : LET pages == node[d].pages IN
    /\ node[d].size = Cardinality(Places(pages))
    /\ \A at \in Places(pages) : LookupDirent(pages, At(pages, at).n) = at

(* A reader that reaches the end has got every entry that was there all    *)
(* the time, in whatever calls it came and whatever changed in between.    *)
ReaddirComplete == rd.missed = {}

(* ... and each of them once.                                              *)
ReaddirOnce == ~rd.dup

(* Reading a directory in pieces while it changes (_iterate_dir).          *)
ReaddirRight == ReaddirComplete /\ ReaddirOnce

(* The directories implement the name space: every call is one change of   *)
(* one link, or none.                                                      *)
Abs == INSTANCE NameSpace WITH links <- Links
NameSpaceSpec == Abs!Spec
=============================================================================
