----------------------------- MODULE PageAlloc ------------------------------
(***************************************************************************)
(* The page allocator: pa.c and the reference counts of zus.h.             *)
(*                                                                         *)
(* Threads allocate blocks of pages, take further references and put them; *)
(* the last put frees the page.  The free list pa->head and pa->size are   *)
(* protected by pa->lock, but page->refcount is a lock-free atomic: a page *)
(* being freed has a zero count before it is on the list.                  *)
(*                                                                         *)
(* Abstractions.  A page is its number bn.  The list is the set of its     *)
(* entries: the scan takes the first fitting entry, the model any fitting  *)
(* one.  A reference is held by an owner, so that the count can be         *)
(* compared with who holds the page; an owner holds at most one reference  *)
(* per page.  The bytes of a page are not modelled, only when they are     *)
(* thrown away (fba_punch_hole).                                           *)
(***************************************************************************)
EXTENDS Integers, FiniteSets

CONSTANTS
  Threads,      \* threads calling the allocator
  NoThread,     \* "pa->lock is not held"
  Owners,       \* clients that can hold a reference to a page
  ChunkPages,   \* PA_PAGES_AT_A_TIME
  MaxPages,     \* PA_SIZE / PAGE_SIZE
  BlockSizes,   \* the values of npages = 1 << order that callers ask for
  NeedMlock,    \* NEED_MLOCK: allocated pages are mlock()ed
  WeakGet       \* callers use pa_get_page on pages they only know the address of

ASSUME ConstantsAssumption ==
  /\ NoThread \notin Threads
  /\ IsFiniteSet(Owners)
  /\ ChunkPages \in Nat \ {0}
  /\ MaxPages \in Nat
  /\ BlockSizes \subseteq {1, 2, 4, 8, 16, 32}    \* order <= PA_MAX_ORDER
  /\ NeedMlock \in BOOLEAN
  /\ WeakGet \in BOOLEAN

VARIABLES
  size,         \* pa->size: pages initialised so far
  head,         \* pa->head: the pages on the free list
  refcount,     \* page->refcount
  lock,         \* holder of pa->lock
  pc,           \* where each thread is
  want,         \* block size and owner of the allocation a thread is in
  page,         \* the page a thread is allocating or freeing
  allocated,    \* pages returned by pa_alloc_order and not yet freed by a put
  holders       \* holders[p]: the owners of the references to p

callers == <<allocated, holders>>
vars == <<size, head, refcount, lock, pc, want, page, callers>>

Pages == 0 .. MaxPages - 1

\* The n pages that start at page p.
Block(p, n) == p .. p + n - 1

PCs == {"idle", "scan", "grow", "mlock", "relist", "punch", "list"}

\* Threads with a block in hand that is neither on the list nor owned.
Carrying == {"mlock", "relist", "punch", "list"}

\* The pages a thread has in hand.
InHand(t) == IF pc[t] \in Carrying THEN Block(page[t], want[t].n) ELSE {}

TypeOK ==
  /\ size \in 0 .. MaxPages
  /\ head \subseteq Pages
  /\ refcount \in [Pages -> Nat]
  /\ lock \in Threads \cup {NoThread}
  /\ pc \in [Threads -> PCs]
  /\ want \in [Threads -> [n : BlockSizes \cup {1}, o : Owners]]
  /\ page \in [Threads -> Nat]
  /\ allocated \subseteq Pages
  /\ holders \in [Pages -> SUBSET Owners]
-----------------------------------------------------------------------------
Init ==
  /\ size = 0
  /\ head = {}
  /\ refcount = [p \in Pages |-> 0]
  /\ lock = NoThread
  /\ pc = [t \in Threads |-> "idle"]
  /\ \E o \in Owners : want = [t \in Threads |-> [n |-> 1, o |-> o]]
  /\ page = [t \in Threads |-> 0]
  /\ allocated = {}
  /\ holders = [p \in Pages |-> {}]

Goto(t, label) == pc' = [pc EXCEPT ![t] = label]

(* pa_alloc_order, up to the scan.  An empty list is grown first.          *)
AllocLock(t, n, o) ==
  /\ pc[t] = "idle"
  /\ lock = NoThread
  /\ lock' = t
  /\ want' = [want EXCEPT ![t] = [n |-> n, o |-> o]]
  /\ Goto(t, IF head = {} THEN "grow" ELSE "scan")
  /\ UNCHANGED <<size, head, refcount, page, callers>>

CanGrowMut == size <= MaxPages
CanGrow == size + ChunkPages <= MaxPages

(* _init_page_of_pages succeeds: another chunk of pages is on the list.    *)
(* Their refcount is 0, the fresh file they live in reads as zeros.        *)
AllocGrow(t) ==
  /\ pc[t] = "grow"
  /\ CanGrow
  /\ size' = size + ChunkPages
  /\ head' = head \cup (size .. size + ChunkPages - 1)
  /\ Goto(t, "scan")
  /\ UNCHANGED <<refcount, lock, want, page, callers>>

AllocFailMut(t) ==
  /\ pc[t] = "grow"
  /\ ~CanGrow
  /\ Goto(t, "scan")
  /\ UNCHANGED <<size, head, refcount, lock, want, page, callers>>

(* _init_page_of_pages fails: unlock and return NULL.                      *)
AllocFail(t) ==
  /\ pc[t] = "grow"
  /\ ~CanGrow
  /\ lock' = NoThread
  /\ Goto(t, "idle")
  /\ UNCHANGED <<size, head, refcount, want, page, callers>>

(* _pa_is_free: all the scan knows of the other pages of a block.          *)
IsFree(p) == refcount[p] = 0

FitsMut(n) ==
  {p \in head : /\ p % n = 0
                /\ p + n < size
                /\ \A q \in Block(p, n) \ {p} : IsFree(q)}

(* The entries of the list a block of n pages can start at.                *)
Fits(n) ==
  {p \in head : /\ p % n = 0
                /\ p + n - 1 <= size
                /\ \A q \in Block(p, n) \ {p} : IsFree(q)}

GiveMut(t, p, n) ==
  /\ allocated' = allocated \cup {p}
  /\ holders' = [holders EXCEPT ![p] = {want[t].o}]
  /\ Goto(t, "idle")

(* pa_alloc_order returns the block to its caller.                         *)
Give(t, p, n) ==
  /\ allocated' = allocated \cup Block(p, n)
  /\ holders' = [q \in Pages |->
                   IF q \in Block(p, n) THEN holders[q] \cup {want[t].o}
                                        ELSE holders[q]]
  /\ Goto(t, "idle")

TakeBlockMut(p, n) ==
  /\ head' = head
  /\ refcount' = [q \in Pages |-> IF q \in Block(p, n) THEN 1 ELSE refcount[q]]

(* _alloc_one_page on every page of the block.                             *)
TakeBlock(p, n) ==
  /\ head' = head \ Block(p, n)
  /\ refcount' = [q \in Pages |-> IF q \in Block(p, n) THEN 1 ELSE refcount[q]]

(* The scan finds a block; the lock is released before mlock().            *)
AllocScan(t) ==
  /\ pc[t] = "scan"
  /\ \E p \in Fits(want[t].n) :
       /\ TakeBlock(p, want[t].n)
       /\ page' = [page EXCEPT ![t] = p]
       /\ IF NeedMlock
          THEN Goto(t, "mlock") /\ UNCHANGED callers
          ELSE Give(t, p, want[t].n)
  /\ lock' = NoThread
  /\ UNCHANGED <<size, want>>

(* The scan reaches the end of the list: grow, then rescan.                *)
AllocNoFit(t) ==
  /\ pc[t] = "scan"
  /\ Fits(want[t].n) = {}
  /\ Goto(t, "grow")
  /\ UNCHANGED <<size, head, refcount, lock, want, page, callers>>

AllocMlock(t) ==
  /\ pc[t] = "mlock"
  /\ Give(t, page[t], want[t].n)
  /\ UNCHANGED <<size, head, refcount, lock, want, page>>

(* mlock() fails: the block's memory is punched out ...                    *)
AllocMlockFail(t) ==
  /\ pc[t] = "mlock"
  /\ Goto(t, "relist")
  /\ UNCHANGED <<size, head, refcount, lock, want, page, callers>>

(* ... and the block goes back on the list, its counts left at 1.          *)
AllocRelist(t) ==
  /\ pc[t] = "relist"
  /\ lock = NoThread
  /\ head' = head \cup Block(page[t], want[t].n)
  /\ Goto(t, "idle")
  /\ UNCHANGED <<size, refcount, lock, want, page, callers>>

GetMut(p, o) ==
  /\ p < size
  /\ o \notin holders[p]
  /\ WeakGet \/ holders[p] # {}
  /\ refcount' = [refcount EXCEPT ![p] = @ + 1]
  /\ holders' = [holders EXCEPT ![p] = @ \cup {o}]
  /\ UNCHANGED <<size, head, lock, pc, want, page, allocated>>

(* pa_get_page when it takes a reference (the loop of compare-exchanges is *)
(* one atomic step); it changes nothing when the count is 0.               *)
Get(p, o) ==
  /\ p < size
  /\ o \notin holders[p]
  /\ WeakGet \/ holders[p] # {}
  /\ refcount[p] # 0
  /\ refcount' = [refcount EXCEPT ![p] = @ + 1]
  /\ holders' = [holders EXCEPT ![p] = @ \cup {o}]
  /\ UNCHANGED <<size, head, lock, pc, want, page, allocated>>

PutMut(t, p, o) ==
  /\ pc[t] = "idle"
  /\ o \in holders[p]
  /\ holders' = [holders EXCEPT ![p] = @ \ {o}]
  /\ refcount' = [refcount EXCEPT ![p] = @ - 1]
  /\ IF refcount[p] \in {1, 2}
     THEN /\ allocated' = allocated \ {p}
          /\ Goto(t, "punch")
          /\ page' = [page EXCEPT ![t] = p]
          /\ want' = [want EXCEPT ![t].n = 1]
     ELSE UNCHANGED <<pc, page, want, allocated>>
  /\ UNCHANGED <<size, head, lock>>

(* pa_put_page (and pa_free): decrement; the thread that brings the count  *)
(* to 0 goes on to free the page.                                          *)
Put(t, p, o) ==
  /\ pc[t] = "idle"
  /\ o \in holders[p]
  /\ holders' = [holders EXCEPT ![p] = @ \ {o}]
  /\ refcount' = [refcount EXCEPT ![p] = @ - 1]
  /\ IF refcount[p] = 1
     THEN /\ allocated' = allocated \ {p}
          /\ Goto(t, "punch")
          /\ page' = [page EXCEPT ![t] = p]
          /\ want' = [want EXCEPT ![t].n = 1]
     ELSE UNCHANGED <<pc, page, want, allocated>>
  /\ UNCHANGED <<size, head, lock>>

FreePunchMut(t) ==
  /\ pc[t] = "punch"
  /\ head' = head \cup {page[t]}
  /\ Goto(t, "list")
  /\ UNCHANGED <<size, refcount, lock, want, page, callers>>

(* __pa_free: the memory is punched out (its result is ignored) ...        *)
FreePunch(t) ==
  /\ pc[t] = "punch"
  /\ Goto(t, "list")
  /\ UNCHANGED <<size, head, refcount, lock, want, page, callers>>

FreeListMut(t) ==
  /\ pc[t] = "list"
  /\ lock = NoThread
  /\ Goto(t, "idle")
  /\ UNCHANGED <<size, head, refcount, lock, want, page, callers>>

(* ... and the page goes on the list, under the lock.                      *)
FreeList(t) ==
  /\ pc[t] = "list"
  /\ lock = NoThread
  /\ head' = head \cup {page[t]}
  /\ Goto(t, "idle")
  /\ UNCHANGED <<size, refcount, lock, want, page, callers>>

Next ==
  \/ \E t \in Threads :
       \/ \E n \in BlockSizes, o \in Owners : AllocLock(t, n, o)
       \/ AllocGrow(t)
       \/ AllocFail(t)
       \/ AllocScan(t)
       \/ AllocNoFit(t)
       \/ AllocMlock(t)
       \/ AllocMlockFail(t)
       \/ AllocRelist(t)
       \/ \E p \in Pages, o \in Owners : Put(t, p, o)
       \/ FreePunch(t)
       \/ FreeList(t)
  \/ \E p \in Pages, o \in Owners : Get(p, o)

Spec == Init /\ [][Next]_vars

(***************************************************************************)
(* A thread inside pa_alloc_order or __pa_free keeps running.  The lock is *)
(* a spin lock, not a queue, so getting it needs strong fairness.  Nobody  *)
(* is obliged to call the allocator.                                       *)
(***************************************************************************)
InsideStep(t) ==
  \/ AllocGrow(t) \/ AllocFail(t) \/ AllocScan(t) \/ AllocNoFit(t)
  \/ AllocMlock(t) \/ AllocMlockFail(t) \/ FreePunch(t)

LockStep(t) == AllocRelist(t) \/ FreeList(t)

Fairness == \A t \in Threads : WF_vars(InsideStep(t)) /\ SF_vars(LockStep(t))
-----------------------------------------------------------------------------
(* The use of the allocator that is safe: single pages, and speculative    *)
(* references only where mlock() cannot fail.                              *)
SafeUse == BlockSizes = {1} /\ (NeedMlock => ~WeakGet)

(***************************************************************************)
(* A page on the free list is held by nobody: the last put frees the page  *)
(* and no earlier one (pa_put_page), and a page is not handed out while    *)
(* it is listed (_alloc_one_page).                                         *)
(***************************************************************************)
FreeNotHeld == \A p \in head : holders[p] = {}

(***************************************************************************)
(* The pages a thread is still freeing, or has taken off the list and not  *)
(* yet returned, are in nobody else's hands: not listed, not owned, not    *)
(* carried by a second thread.  Punching a hole in them (pa_alloc_order's  *)
(* mlock path and __pa_free do it without the lock) loses nobody's data.   *)
(***************************************************************************)
InHandExclusive ==
  \A t \in Threads : \A p \in InHand(t) :
    /\ p \notin head
    /\ holders[p] = {}
    /\ \A u \in Threads \ {t} : p \notin InHand(u)

(***************************************************************************)
(* The reference count of a page that is owned is the number of references *)
(* to it, so that pa_put_page frees at the last one.                       *)
(***************************************************************************)
CountsMatch ==
  \A p \in Pages : holders[p] # {} => refcount[p] = Cardinality(holders[p])

(***************************************************************************)
(* No page is ever lost: every initialised page is listed, owned or in a   *)
(* thread's hands.  With all threads out of the allocator and no           *)
(* references left, pa_fini counts as many free pages as pa->size and      *)
(* reports no leak.                                                        *)
(***************************************************************************)
NoLeak ==
  \A p \in Pages : p < size =>
    p \in head \/ holders[p] # {} \/ \E t \in Threads : p \in InHand(t)

(***************************************************************************)
(* A page is in one place, listed or with owners or in one thread's hands, *)
(* also while it goes from one to the other without the lock (pa_put_page, *)
(* __pa_free, and pa_alloc_order once mlock failed).                       *)
(***************************************************************************)
PagesExclusive == FreeNotHeld /\ InHandExclusive

(***************************************************************************)
(* Pages and references are accounted for: counts are never below 0 and are *)
(* the references of owned pages, pa->size stays within PA_SIZE, and every *)
(* page below it is somewhere (pa_get_page, pa_put_page, pa_fini).         *)
(***************************************************************************)
PagesAccounted == TypeOK /\ CountsMatch /\ NoLeak

(***************************************************************************)
(* Blocks of several pages (pa_alloc_order, pa_free_order) keep all of     *)
(* this for each of their pages, also with speculative references to some  *)
(* of them.                                                                *)
(***************************************************************************)
BlocksSafe == InHandExclusive /\ CountsMatch /\ NoLeak

(***************************************************************************)
(* pa_alloc_order gives up only when PA_SIZE is exhausted and the list has *)
(* no aligned block of free pages left.                                    *)
(***************************************************************************)
AlignedFree(n) ==
  \E p \in Pages : /\ p % n = 0
                   /\ p + n <= size
                   /\ Block(p, n) \subseteq head

FailsOnlyWhenFull ==
  [][\A t \in Threads :
       pc[t] = "grow" /\ pc'[t] = "idle" => ~AlignedFree(want[t].n)]_vars

(***************************************************************************)
(* A call of the allocator ends: the goto rescan of pa_alloc_order grows   *)
(* the pool each time around and cannot spin.                              *)
(***************************************************************************)
CallsEnd == \A t \in Threads : pc[t] # "idle" ~> pc[t] = "idle"

(***************************************************************************)
(* The allocator implements the pool of pages of PagePool.                 *)
(***************************************************************************)
Pool == INSTANCE PagePool WITH allocated <- allocated, holders <- holders

Refinement == Pool!Spec
=============================================================================
