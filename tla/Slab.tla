-------------------------------- MODULE Slab --------------------------------
(***************************************************************************)
(* The slab allocator behind zus_malloc and zus_free (slab.c).             *)
(*                                                                         *)
(* There is one slab per cpu, each with a spin lock and one list of free   *)
(* elements per size class.  An allocation tries the slabs of all cpus,    *)
(* its own first, without blocking, and only then waits for its own slab   *)
(* and grows it by a page.  A free goes to the slab the element's page     *)
(* belongs to, which it finds by reading page->sinfo.slab_cpu without a    *)
(* lock; the last element freed may give the page back.                    *)
(*                                                                         *)
(* Abstractions.  An element is <<page, slot>>.  A list is the set of its  *)
(* elements (the code takes the head and appends to the tail; the model    *)
(* takes any).  What a slab does under its lock is one action, taking and  *)
(* releasing the lock are separate, so that trylock can fail.  The page    *)
(* allocator is the pool of PagePool, which PageAlloc implements for the   *)
(* single pages slab.c asks for.                                           *)
(***************************************************************************)
EXTENDS Integers, FiniteSets

CONSTANTS
  Threads,      \* threads calling zus_malloc and zus_free
  NoThread,     \* "the spin lock is free"
  NSlabs,       \* gsa->nslabs, the number of cpus
  Pages,        \* the pages of the page allocator
  NClasses,     \* ZUS_SLAB_LISTS
  PerPage,      \* PerPage[c]: ZUS_MAX_SLABS_PER_BLOCK >> c
  NFreeWant     \* ZUS_SLAB_NFREE_WANT

Cpus == 0 .. NSlabs - 1
Classes == 0 .. NClasses - 1

ASSUME ConstantsAssumption ==
  /\ NoThread \notin Threads
  /\ NSlabs \in Nat \ {0}
  /\ IsFiniteSet(Pages)
  /\ NClasses \in Nat \ {0}
  /\ PerPage \in [Classes -> Nat \ {0}]
  /\ NFreeWant \in Nat

VARIABLES
  up,       \* g_gsa # NULL
  pool,     \* pages in the page allocator
  meta,     \* meta[p]: page->use_count, size class + 1, or 0
  pcpu,     \* pcpu[p]: page->sinfo.slab_cpu
  uc,       \* uc[p]: page->sinfo.slab_uc
  list,     \* list[k][c]: free elements of class c in the slab of cpu k
  nfree,    \* slab_list->nfree
  nused,    \* slab_list->nused
  lock,     \* lock[k]: holder of the spin lock of slab k
  pc,       \* where each thread is
  req,      \* the call a thread is in: class, own cpu and slabs tried so far
  elem,     \* the element a thread is freeing
  owned     \* elements in the hands of the users, each with its class

memVars == <<pool, meta, pcpu, uc, list, nfree, nused>>
vars == <<up, memVars, lock, pc, req, elem, owned>>

PageOf(e) == e[1]

\* The elements a page is cut into for class c.
ElemsOf(p, c) == {<<p, i>> : i \in 0 .. PerPage[c] - 1}

Elems == UNION {ElemsOf(p, c) : p \in Pages, c \in Classes}

PCs == {"idle", "try", "look", "lock", "alloc", "flock", "free"}

TypeOK ==
  /\ up \in BOOLEAN
  /\ pool \subseteq Pages
  /\ meta \in [Pages -> 0 .. NClasses]
  /\ pcpu \in [Pages -> Cpus]
  /\ uc \in [Pages -> Nat]
  /\ list \in [Cpus -> [Classes -> SUBSET Elems]]
  /\ nfree \in [Cpus -> [Classes -> Nat]]
  /\ nused \in [Cpus -> [Classes -> Nat]]
  /\ lock \in [Cpus -> Threads \cup {NoThread}]
  /\ pc \in [Threads -> PCs]
  /\ req \in [Threads -> [c : Classes, cpu : Cpus, i : 0 .. NSlabs]]
  /\ elem \in [Threads -> Elems]
  /\ owned \subseteq Elems \X Classes
-----------------------------------------------------------------------------
(* zus_slab_init: empty slabs over a fresh page allocator.                 *)
Init ==
  /\ up = TRUE
  /\ pool = Pages
  /\ meta = [p \in Pages |-> 0]
  /\ pcpu = [p \in Pages |-> 0]
  /\ uc = [p \in Pages |-> 0]
  /\ list = [k \in Cpus |-> [c \in Classes |-> {}]]
  /\ nfree = [k \in Cpus |-> [c \in Classes |-> 0]]
  /\ nused = [k \in Cpus |-> [c \in Classes |-> 0]]
  /\ lock = [k \in Cpus |-> NoThread]
  /\ pc = [t \in Threads |-> "idle"]
  /\ req = [t \in Threads |-> [c |-> 0, cpu |-> 0, i |-> 0]]
  /\ \E p \in Pages : elem = [t \in Threads |-> <<p, 0>>]
  /\ owned = {}

Goto(t, label) == pc' = [pc EXCEPT ![t] = label]

(* _zus_gsa_sslab_at: the slab a thread's search has come to.              *)
Cursor(t) == (req[t].cpu + req[t].i) % NSlabs

Acquire(t, k) == lock[k] = NoThread /\ lock' = [lock EXCEPT ![k] = t]

Release(k) == lock' = [lock EXCEPT ![k] = NoThread]

(* What _slab_iscold may see: it reads the two counters without the lock.  *)
ColdViews(k, c) ==
  IF lock[k] = NoThread THEN {nfree[k][c] = 0 /\ nused[k][c] = 0} ELSE BOOLEAN

(* zus_malloc of a size of class c by a thread running on cpu k.           *)
Malloc(t, c, k) ==
  /\ up
  /\ pc[t] = "idle"
  /\ req' = [req EXCEPT ![t] = [c |-> c, cpu |-> k, i |-> 0]]
  /\ \E cold \in ColdViews(k, c) : Goto(t, IF cold THEN "lock" ELSE "try")
  /\ UNCHANGED <<up, memVars, lock, elem, owned>>

NextSlabMut(t) ==
  /\ req' = [req EXCEPT ![t].i = (@ + 1) % NSlabs]
  /\ Goto(t, "try")

(* The end of the loop body of _zus_gsa_malloc: after all slabs were tried *)
(* the cursor is back at the thread's own.                                 *)
NextSlab(t) ==
  /\ req' = [req EXCEPT ![t].i = @ + 1]
  /\ Goto(t, IF req[t].i + 1 < NSlabs THEN "try" ELSE "lock")

TryLock(t) ==
  /\ pc[t] = "try"
  /\ Acquire(t, Cursor(t))
  /\ Goto(t, "look")
  /\ UNCHANGED <<up, memVars, req, elem, owned>>

TryFail(t) ==
  /\ pc[t] = "try"
  /\ lock[Cursor(t)] # NoThread
  /\ NextSlab(t)
  /\ UNCHANGED <<up, memVars, lock, elem, owned>>

LookEmpty(t) ==
  LET k == Cursor(t) IN
  /\ pc[t] = "look"
  /\ nfree[k][req[t].c] = 0
  /\ Release(k)
  /\ NextSlab(t)
  /\ UNCHANGED <<up, memVars, elem, owned>>

TakeElemMut(k, c, e, lst, nf, u) ==
  /\ list' = [lst EXCEPT ![k][c] = @ \ {e}]
  /\ nfree' = [nf EXCEPT ![k][c] = @ - 1]
  /\ nused' = [nused EXCEPT ![k][c] = @ + 1]
  /\ uc' = u
  /\ owned' = owned \cup {<<e, c>>}

(* _slab_alloc_elem and the use count of the page, on the given lists,     *)
(* counters and use counts.                                                *)
TakeElem(k, c, e, lst, nf, u) ==
  /\ list' = [lst EXCEPT ![k][c] = @ \ {e}]
  /\ nfree' = [nf EXCEPT ![k][c] = @ - 1]
  /\ nused' = [nused EXCEPT ![k][c] = @ + 1]
  /\ uc' = [u EXCEPT ![PageOf(e)] = @ + 1]
  /\ owned' = owned \cup {<<e, c>>}

(* _slab_alloc on a list that is not empty.                                *)
TakeFree(t, k, c) ==
  /\ nfree[k][c] # 0
  /\ \E e \in list[k][c] : TakeElem(k, c, e, list, nfree, uc)
  /\ Release(k)
  /\ Goto(t, "idle")
  /\ UNCHANGED <<up, pool, meta, pcpu, req, elem>>

LookTake(t) ==
  /\ pc[t] = "look"
  /\ TakeFree(t, Cursor(t), req[t].c)

LockOwn(t) ==
  /\ pc[t] = "lock"
  /\ Acquire(t, Cursor(t))
  /\ Goto(t, "alloc")
  /\ UNCHANGED <<up, memVars, req, elem, owned>>

AllocTake(t) ==
  /\ pc[t] = "alloc"
  /\ TakeFree(t, Cursor(t), req[t].c)

(* _slab_increase gets a page, cuts it (_slab_page_init) and the element   *)
(* is taken from it.                                                       *)
AllocGrow(t) ==
  LET k == Cursor(t)
      c == req[t].c
  IN
  /\ pc[t] = "alloc"
  /\ nfree[k][c] = 0
  /\ \E p \in pool :
       /\ pool' = pool \ {p}
       /\ meta' = [meta EXCEPT ![p] = c + 1]
       /\ pcpu' = [pcpu EXCEPT ![p] = k]
       /\ \E e \in list[k][c] \cup ElemsOf(p, c) :
            TakeElem(k, c, e,
                     [list EXCEPT ![k][c] = @ \cup ElemsOf(p, c)],
                     [nfree EXCEPT ![k][c] = @ + PerPage[c]],
                     [uc EXCEPT ![p] = 0])
  /\ Release(k)
  /\ Goto(t, "idle")
  /\ UNCHANGED <<up, req, elem>>

(* pa_alloc has no page (PA_SIZE is exhausted or mlock() failed): the      *)
(* caller gets posix_memalign() memory, which is not the slab's.           *)
AllocFail(t) ==
  /\ pc[t] = "alloc"
  /\ nfree[Cursor(t)][req[t].c] = 0
  /\ Release(Cursor(t))
  /\ Goto(t, "idle")
  /\ UNCHANGED <<up, memVars, req, elem, owned>>

(* zus_free (and zus_free_page): the slab is found without a lock, from    *)
(* the page the element is in.                                             *)
Free(t, e, c) ==
  /\ up
  /\ pc[t] = "idle"
  /\ <<e, c>> \in owned
  /\ owned' = owned \ {<<e, c>>}
  /\ elem' = [elem EXCEPT ![t] = e]
  /\ req' = [req EXCEPT ![t] = [c |-> c, cpu |-> pcpu[PageOf(e)], i |-> 0]]
  /\ Goto(t, "flock")
  /\ UNCHANGED <<up, memVars, lock>>

FreeLock(t) ==
  /\ pc[t] = "flock"
  /\ Acquire(t, Cursor(t))
  /\ Goto(t, "free")
  /\ UNCHANGED <<up, memVars, req, elem, owned>>

KeepPageMut(p, k, c) == nfree[k][c] + 1 < NFreeWant

(* The two early returns of __slab_free.                                   *)
KeepPage(p, k, c) == uc[p] - 1 # 0 \/ nfree[k][c] + 1 < NFreeWant

FreeElemMut(t) ==
  LET k == Cursor(t)
      e == elem[t]
      p == PageOf(e)
      c == meta[p] - 1
  IN
  /\ pc[t] = "free"
  /\ c \in Classes
  /\ nused' = [nused EXCEPT ![k][c] = @ - 1]
  /\ IF KeepPage(p, k, c)
     THEN /\ list' = [list EXCEPT ![k][c] = @ \cup {e}]
          /\ nfree' = [nfree EXCEPT ![k][c] = @ + 1]
          /\ uc' = [uc EXCEPT ![p] = @ - 1]
          /\ UNCHANGED <<pool, meta, pcpu>>
     ELSE /\ list' = list
          /\ nfree' = [nfree EXCEPT ![k][c] = @ + 1 - PerPage[c]]
          /\ uc' = [uc EXCEPT ![p] = 0]
          /\ meta' = [meta EXCEPT ![p] = 0]
          /\ pcpu' = [pcpu EXCEPT ![p] = 0]
          /\ pool' = pool \cup {p}
  /\ Release(k)
  /\ Goto(t, "idle")
  /\ UNCHANGED <<up, req, elem, owned>>

(* _slab_free under the lock: the element goes on its list; when it was    *)
(* the last one in use of its page and enough elements stay free, all of   *)
(* the page's elements leave the list (_slab_page_fini) and the page goes  *)
(* back to the page allocator.                                             *)
FreeElem(t) ==
  LET k == Cursor(t)
      e == elem[t]
      p == PageOf(e)
      c == meta[p] - 1
  IN
  /\ pc[t] = "free"
  /\ c \in Classes
  /\ nused' = [nused EXCEPT ![k][c] = @ - 1]
  /\ IF KeepPage(p, k, c)
     THEN /\ list' = [list EXCEPT ![k][c] = @ \cup {e}]
          /\ nfree' = [nfree EXCEPT ![k][c] = @ + 1]
          /\ uc' = [uc EXCEPT ![p] = @ - 1]
          /\ UNCHANGED <<pool, meta, pcpu>>
     ELSE /\ list' = [list EXCEPT ![k][c] = (@ \cup {e}) \ ElemsOf(p, c)]
          /\ nfree' = [nfree EXCEPT ![k][c] = @ + 1 - PerPage[c]]
          /\ uc' = [uc EXCEPT ![p] = 0]
          /\ meta' = [meta EXCEPT ![p] = 0]
          /\ pcpu' = [pcpu EXCEPT ![p] = 0]
          /\ pool' = pool \cup {p}
  /\ Release(k)
  /\ Goto(t, "idle")
  /\ UNCHANGED <<up, req, elem, owned>>

ListPagesMut(k, c) ==
  {PageOf(e) : e \in IF nfree[k][c] < NFreeWant THEN {} ELSE list[k][c]}

(* The pages with a free element on a list.                                *)
ListPages(k, c) == {PageOf(e) : e \in list[k][c]}

(* zus_slab_fini, with no call in progress.  Each list gives back its      *)
(* pages, up to the first one that is still in use ("Slab-Leak!").         *)
Fini ==
  /\ up
  /\ \A t \in Threads : pc[t] = "idle"
  /\ up' = FALSE
  /\ \E gone \in SUBSET Pages :
       /\ \A p \in gone : meta[p] # 0 /\ uc[p] = 0
       /\ \A k \in Cpus, c \in Classes :
            (\A p \in ListPages(k, c) : uc[p] = 0) => ListPages(k, c) \subseteq gone
       /\ pool' = pool \cup gone
       /\ list' = [k \in Cpus |-> [c \in Classes |->
                     {e \in list[k][c] : PageOf(e) \notin gone}]]
       /\ nfree' = [k \in Cpus |-> [c \in Classes |->
            nfree[k][c] - Cardinality({e \in list[k][c] : PageOf(e) \in gone})]]
       /\ meta' = [p \in Pages |-> IF p \in gone THEN 0 ELSE meta[p]]
       /\ pcpu' = [p \in Pages |-> IF p \in gone THEN 0 ELSE pcpu[p]]
  /\ nused' = [k \in Cpus |-> [c \in Classes |-> 0]]
  /\ UNCHANGED <<uc, lock, pc, req, elem, owned>>

Next ==
  \/ \E t \in Threads :
       \/ \E c \in Classes, k \in Cpus : Malloc(t, c, k)
       \/ TryLock(t)
       \/ TryFail(t)
       \/ LookEmpty(t)
       \/ LookTake(t)
       \/ LockOwn(t)
       \/ AllocTake(t)
       \/ AllocGrow(t)
       \/ AllocFail(t)
       \/ \E ec \in owned : Free(t, ec[1], ec[2])
       \/ FreeLock(t)
       \/ FreeElem(t)
  \/ Fini

Spec == Init /\ [][Next]_vars

(***************************************************************************)
(* A thread inside a call keeps running.  Waiting for a spin lock needs    *)
(* strong fairness.  Callers need not call, and Fini need not happen.      *)
(***************************************************************************)
Fairness ==
  \A t \in Threads :
    /\ WF_vars(TryLock(t) \/ TryFail(t) \/ LookEmpty(t) \/ LookTake(t))
    /\ WF_vars(AllocTake(t) \/ AllocGrow(t) \/ AllocFail(t) \/ FreeElem(t))
    /\ SF_vars(LockOwn(t) \/ FreeLock(t))
-----------------------------------------------------------------------------
(* Elements out of the lists: with the users or with a thread freeing it.  *)
Out == {ec[1] : ec \in owned} \cup
       {elem[t] : t \in {u \in Threads : pc[u] \in {"flock", "free"}}}

(***************************************************************************)
(* An element is never handed out while somebody has it: an element on a   *)
(* free list is with no user and no freeing thread, and on that one list.  *)
(***************************************************************************)
FreeListsDisjoint ==
  \A k \in Cpus, c \in Classes : \A e \in list[k][c] :
    /\ e \notin Out
    /\ \A l \in Cpus, d \in Classes : <<l, d>> # <<k, c>> => e \notin list[l][d]

(***************************************************************************)
(* A page is cut for one class and owned by one slab as long as any of its *)
(* elements is out: it is not in the page allocator, and every one of its  *)
(* elements is either out or on the list its page names, so that the page  *)
(* goes back only when it is whole.                                        *)
(***************************************************************************)
PagesWhole ==
  \A p \in Pages :
    IF meta[p] = 0
    THEN p \in pool /\ \A e \in Out : PageOf(e) # p
    ELSE /\ p \notin pool
         /\ \A e \in ElemsOf(p, meta[p] - 1) :
              e \in list[pcpu[p]][meta[p] - 1] <=> e \notin Out

(***************************************************************************)
(* An element keeps the class it was allocated for.                        *)
(***************************************************************************)
ClassKept == \A ec \in owned : meta[PageOf(ec[1])] = ec[2] + 1

(***************************************************************************)
(* slab_uc counts the elements of the page that are out, nfree and nused   *)
(* the free and the used elements of the list (the ZUS_WARN_ON of          *)
(* _slab_list_empty never fires).                                          *)
(***************************************************************************)
CountsExact ==
  up =>
    /\ \A p \in Pages : uc[p] = Cardinality({e \in Out : PageOf(e) = p})
    /\ \A k \in Cpus, c \in Classes :
         /\ nfree[k][c] = Cardinality(list[k][c])
         /\ nused[k][c] =
              Cardinality({e \in Out : pcpu[PageOf(e)] = k
                                       /\ meta[PageOf(e)] = c + 1})

(***************************************************************************)
(* The cpu that zus_free read without a lock is still the page's when the  *)
(* lock of that slab is taken, and so is the class.                        *)
(***************************************************************************)
CpuNotStale ==
  \A t \in Threads : pc[t] \in {"flock", "free"} =>
    /\ pcpu[PageOf(elem[t])] = Cursor(t)
    /\ meta[PageOf(elem[t])] = req[t].c + 1

(***************************************************************************)
(* zus_slab_fini gives every page back when the users gave every element   *)
(* back: pa_fini then reports no leak.                                     *)
(***************************************************************************)
FiniClean == ~up /\ owned = {} => pool = Pages

(***************************************************************************)
(* What the users have is theirs: well-formed lists, an element in one     *)
(* place only and of the class that was asked for, through every order of  *)
(* allocations and frees on the slabs of several cpus (_zus_gsa_malloc,    *)
(* __slab_free).                                                           *)
(***************************************************************************)
ElementsSafe == TypeOK /\ FreeListsDisjoint /\ ClassKept

(***************************************************************************)
(* No page goes back with an element in use, none is left out, during the  *)
(* life of the slabs and at their end (__slab_free, zus_slab_fini).        *)
(***************************************************************************)
PagesSafe == PagesWhole /\ FiniClean

(***************************************************************************)
(* Every zus_malloc and zus_free returns: the round over the slabs of      *)
(* other cpus ends, and no thread waits for a lock forever.                *)
(***************************************************************************)
CallsEnd == \A t \in Threads : pc[t] # "idle" ~> pc[t] = "idle"
=============================================================================
