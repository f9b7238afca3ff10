-------------------------- MODULE PageAllocProofs ---------------------------
(***************************************************************************)
(* Proofs about PageAlloc, for any number of threads, owners and pages.    *)
(***************************************************************************)
EXTENDS PageAlloc, FiniteSetTheorems, TLAPS

(* Pages on the list, owned pages and their counts.                        *)
PageInv ==
  \A p \in Pages :
    /\ p \in head => holders[p] = {} /\ p < size
    /\ holders[p] # {} => p < size /\ refcount[p] = Cardinality(holders[p])
    /\ ~NeedMlock /\ holders[p] = {} => refcount[p] = 0

(* The page a thread carries between the list and its owners.              *)
HandInv ==
  \A t \in Threads : pc[t] \in Carrying =>
    /\ page[t] \in Pages
    /\ page[t] < size
    /\ page[t] \notin head
    /\ holders[page[t]] = {}
    /\ refcount[page[t]] = (IF pc[t] \in {"mlock", "relist"} THEN 1 ELSE 0)
    /\ pc[t] \in {"mlock", "relist"} => NeedMlock

(* No two threads carry the same page.                                     *)
HandsApart ==
  \A t, u \in Threads :
    t # u /\ pc[t] \in Carrying /\ pc[u] \in Carrying => page[t] # page[u]

(* NoLeak, for blocks of one page.                                         *)
Accounted ==
  \A p \in Pages : p < size =>
    \/ p \in head
    \/ holders[p] # {}
    \/ \E t \in Threads : pc[t] \in Carrying /\ page[t] = p

(* Exactly the owned pages count as handed out.                            *)
OwnedAllocated == \A p \in Pages : p \in allocated <=> holders[p] # {}

(* The inductive invariant.                                                *)
IInv ==
  TypeOK /\ PageInv /\ HandInv /\ HandsApart /\ Accounted /\ OwnedAllocated
-----------------------------------------------------------------------------
(* With single pages a block is its first page.                            *)
LEMMA OnePageBlock == \A p \in Int : Block(p, 1) = {p}
  BY DEF Block

(* Under SafeUse every allocation is of one page.                          *)
LEMMA WantOne ==
  ASSUME SafeUse, TypeOK
  PROVE  \A t \in Threads : want[t].n = 1 /\ want[t].o \in Owners
  BY DEF SafeUse, TypeOK

(* Counting the references of a page.                                      *)
LEMMA CountRefs ==
  ASSUME NEW S \in SUBSET Owners, NEW o \in Owners
  PROVE  /\ Cardinality(S) \in Nat
         /\ Cardinality(S) = 0 <=> S = {}
         /\ o \notin S => Cardinality(S \cup {o}) = Cardinality(S) + 1
         /\ o \in S => Cardinality(S \ {o}) = Cardinality(S) - 1
         /\ Cardinality({o}) = 1
  <1>1. IsFiniteSet(S)
    BY FS_Subset, ConstantsAssumption
  <1>2. QED
    BY <1>1, FS_CardinalityType, FS_EmptySet, FS_AddElement, FS_RemoveElement,
       FS_Singleton

(* The invariant holds at first.                                           *)
LEMMA InitIInv == SafeUse /\ Init => IInv
  <1> SUFFICES ASSUME SafeUse, Init PROVE IInv
    OBVIOUS
  <1>1. TypeOK
    BY ConstantsAssumption DEF Init, TypeOK, PCs
  <1>2. PageInv /\ HandInv /\ HandsApart /\ Accounted /\ OwnedAllocated
    BY ConstantsAssumption
       DEF Init, OwnedAllocated, PageInv, HandInv, HandsApart, Accounted, Carrying, Pages
  <1>3. QED
    BY <1>1, <1>2 DEF IInv

(* Taking a single page off the list.                                      *)
LEMMA ScanPreserves ==
  ASSUME SafeUse, IInv, NEW t \in Threads, AllocScan(t)
  PROVE  IInv'
  <1> USE DEF IInv
  <1>1. want[t].n = 1 /\ want[t].o \in Owners
    BY WantOne
  <1>2. PICK p \in Fits(1) :
          /\ TakeBlock(p, 1)
          /\ page' = [page EXCEPT ![t] = p]
          /\ IF NeedMlock
             THEN Goto(t, "mlock") /\ UNCHANGED callers
             ELSE Give(t, p, 1)
    BY <1>1 DEF AllocScan
  <1>3. p \in Pages /\ p \in head /\ p \in Nat
    BY <1>2 DEF Fits, TypeOK, Pages
  <1>4. /\ head' = head \ {p}
        /\ refcount' = [refcount EXCEPT ![p] = 1]
        /\ size' = size /\ want' = want /\ lock' = NoThread
    <2>1. Block(p, 1) = {p}
      BY <1>3, OnePageBlock
    <2>2. refcount' = [q \in Pages |-> IF q = p THEN 1 ELSE refcount[q]]
      BY <1>2, <2>1 DEF TakeBlock
    <2>3. refcount' = [refcount EXCEPT ![p] = 1]
      BY <1>3, <2>2 DEF TypeOK
    <2>4. QED
      BY <1>2, <2>1, <2>3 DEF TakeBlock, AllocScan
  <1>5. pc[t] = "scan"
    BY DEF AllocScan
  <1>6. CASE NeedMlock
    <2>1. /\ holders' = holders /\ allocated' = allocated
          /\ pc' = [pc EXCEPT ![t] = "mlock"]
      BY <1>2, <1>6 DEF Goto, callers
    <2>2. TypeOK'
      BY <1>2, <1>3, <1>4, <2>1 DEF TypeOK, PCs
    <2>3. PageInv'
      BY <1>3, <1>4, <2>1, <1>6 DEF PageInv, TypeOK
    <2>4. HandInv'
      BY <1>2, <1>3, <1>4, <1>5, <2>1, <1>6
         DEF HandInv, PageInv, TypeOK, Carrying
    <2>5. HandsApart'
      BY <1>2, <1>3, <1>4, <1>5, <2>1 DEF HandsApart, HandInv, TypeOK, Carrying
    <2>6. Accounted'
      BY <1>2, <1>3, <1>4, <1>5, <2>1 DEF Accounted, TypeOK, Carrying
    <2>7. QED
      BY <2>1, <2>2, <2>3, <2>4, <2>5, <2>6 DEF OwnedAllocated
  <1>7. CASE ~NeedMlock
    <2>1. holders[p] = {}
      BY <1>3 DEF PageInv
    <2>2. /\ holders' = [holders EXCEPT ![p] = {want[t].o}]
          /\ allocated' = allocated \cup {p}
          /\ pc' = [pc EXCEPT ![t] = "idle"]
      <3>1. Block(p, 1) = {p}
        BY <1>3, OnePageBlock
      <3>2. holders' = [q \in Pages |-> IF q = p THEN holders[q] \cup {want[t].o}
                                                 ELSE holders[q]]
        BY <1>2, <1>7, <3>1 DEF Give
      <3>3. holders' = [holders EXCEPT ![p] = {want[t].o}]
        BY <1>3, <2>1, <3>2 DEF TypeOK
      <3>4. QED
        BY <1>2, <1>7, <3>1, <3>3 DEF Give, Goto
    <2>3. TypeOK'
      BY <1>1, <1>2, <1>3, <1>4, <2>2 DEF TypeOK, PCs
    <2>4. PageInv'
      BY <1>1, <1>3, <1>4, <2>2, <1>7, CountRefs DEF PageInv, TypeOK
    <2>5. HandInv'
      BY <1>2, <1>3, <1>4, <1>5, <2>2 DEF HandInv, TypeOK, Carrying
    <2>6. HandsApart'
      BY <1>2, <1>3, <1>4, <1>5, <2>2 DEF HandsApart, TypeOK, Carrying
    <2>7. Accounted'
      BY <1>1, <1>2, <1>3, <1>4, <1>5, <2>2 DEF Accounted, TypeOK, Carrying
    <2>8. OwnedAllocated'
      BY <1>3, <2>2 DEF OwnedAllocated, TypeOK
    <2>9. QED
      BY <2>3, <2>4, <2>5, <2>6, <2>7, <2>8
  <1>8. QED
    BY <1>6, <1>7

(* Initialising another chunk of pages.                                    *)
LEMMA GrowPreserves ==
  ASSUME SafeUse, IInv, NEW t \in Threads, AllocGrow(t)
  PROVE  IInv'
  <1> USE ConstantsAssumption DEF IInv, AllocGrow, CanGrow, Goto, callers
  <1>1. TypeOK'
    BY DEF TypeOK, PCs, Pages
  <1>2. PageInv'
    BY DEF PageInv, TypeOK, Pages
  <1>3. HandInv'
    BY DEF HandInv, TypeOK, Carrying, Pages
  <1>4. HandsApart'
    BY DEF HandsApart, TypeOK, Carrying
  <1>5. Accounted'
    <2> SUFFICES ASSUME NEW p \in Pages, p < size'
                 PROVE  (\/ p \in head
                         \/ holders[p] # {}
                         \/ \E u \in Threads : pc[u] \in Carrying /\ page[u] = p)'
      BY DEF Accounted
    <2>1. CASE p < size
      <3>1. CASE p \in head \/ holders[p] # {}
        BY <3>1
      <3>2. CASE \E u \in Threads : pc[u] \in Carrying /\ page[u] = p
        <4>1. PICK u \in Threads : pc[u] \in Carrying /\ page[u] = p
          BY <3>2
        <4>2. pc'[u] \in Carrying /\ page'[u] = p
          BY <4>1 DEF TypeOK, Carrying
        <4>3. QED
          BY <4>2
      <3>3. QED
        BY <2>1, <3>1, <3>2 DEF Accounted
    <2>2. CASE ~(p < size)
      BY <2>2 DEF TypeOK, Pages
    <2>3. QED
      BY <2>1, <2>2
  <1>6. QED
    BY <1>1, <1>2, <1>3, <1>4, <1>5 DEF OwnedAllocated

(* Returning an mlock()ed page to the caller.                              *)
LEMMA MlockPreserves ==
  ASSUME SafeUse, IInv, NEW t \in Threads, AllocMlock(t)
  PROVE  IInv'
  <1> USE DEF IInv
  <1>1. want[t].n = 1 /\ want[t].o \in Owners
    BY WantOne
  <1>2. /\ pc[t] = "mlock" /\ page[t] \in Pages /\ page[t] < size
        /\ page[t] \notin head /\ holders[page[t]] = {}
        /\ refcount[page[t]] = 1 /\ NeedMlock
    BY DEF AllocMlock, HandInv, Carrying
  <1>3. /\ holders' = [holders EXCEPT ![page[t]] = {want[t].o}]
        /\ allocated' = allocated \cup {page[t]}
        /\ pc' = [pc EXCEPT ![t] = "idle"]
        /\ UNCHANGED <<size, head, refcount, lock, want, page>>
    <2>1. Block(page[t], 1) = {page[t]}
      BY <1>2, OnePageBlock DEF Pages
    <2>2. holders' = [q \in Pages |->
                        IF q = page[t] THEN holders[q] \cup {want[t].o}
                                       ELSE holders[q]]
      BY <1>1, <2>1 DEF AllocMlock, Give
    <2>3. holders' = [holders EXCEPT ![page[t]] = {want[t].o}]
      BY <1>2, <2>2 DEF TypeOK
    <2>4. QED
      BY <1>1, <2>1, <2>3 DEF AllocMlock, Give, Goto
  <1>4. TypeOK'
    BY <1>1, <1>2, <1>3 DEF TypeOK, PCs
  <1>5. PageInv'
    BY <1>1, <1>2, <1>3, CountRefs DEF PageInv, TypeOK
  <1>6. HandInv'
    BY <1>2, <1>3 DEF HandInv, HandsApart, TypeOK, Carrying
  <1>7. HandsApart'
    BY <1>2, <1>3 DEF HandsApart, TypeOK, Carrying
  <1>8. Accounted'
    BY <1>1, <1>2, <1>3 DEF Accounted, TypeOK, Carrying
  <1>9. OwnedAllocated'
    BY <1>2, <1>3 DEF OwnedAllocated, TypeOK
  <1>10. QED
    BY <1>4, <1>5, <1>6, <1>7, <1>8, <1>9

(* The mlock() failure path puts the page back on the list.                *)
LEMMA RelistPreserves ==
  ASSUME SafeUse, IInv, NEW t \in Threads, AllocRelist(t)
  PROVE  IInv'
  <1> USE DEF IInv
  <1>1. want[t].n = 1
    BY WantOne
  <1>2. /\ pc[t] = "relist" /\ page[t] \in Pages /\ page[t] < size
        /\ page[t] \notin head /\ holders[page[t]] = {} /\ NeedMlock
    BY DEF AllocRelist, HandInv, Carrying
  <1>3. Block(page[t], 1) = {page[t]}
    BY <1>2, OnePageBlock DEF Pages
  <1>4. /\ head' = head \cup {page[t]}
        /\ pc' = [pc EXCEPT ![t] = "idle"]
        /\ UNCHANGED <<size, refcount, lock, want, page, allocated, holders>>
    BY <1>1, <1>3 DEF AllocRelist, Goto, callers
  <1>5. TypeOK'
    BY <1>2, <1>4 DEF TypeOK, PCs
  <1>6. PageInv'
    BY <1>2, <1>4 DEF PageInv, TypeOK
  <1>7. HandInv'
    BY <1>2, <1>4 DEF HandInv, HandsApart, TypeOK, Carrying
  <1>8. HandsApart'
    BY <1>2, <1>4 DEF HandsApart, TypeOK, Carrying
  <1>9. Accounted'
    BY <1>2, <1>4 DEF Accounted, TypeOK, Carrying
  <1>10. QED
    BY <1>4, <1>5, <1>6, <1>7, <1>8, <1>9 DEF OwnedAllocated

(* A further reference.  Where the count can be nonzero on an unowned page *)
(* (after a failed mlock()), the getter knows an owner.                    *)
LEMMA GetPreserves ==
  ASSUME SafeUse, IInv, NEW p \in Pages, NEW o \in Owners, Get(p, o)
  PROVE  IInv' /\ holders[p] # {}
  <1> USE DEF IInv
  <1>1. holders[p] # {}
    BY DEF Get, SafeUse, PageInv
  <1>2. /\ refcount' = [refcount EXCEPT ![p] = @ + 1]
        /\ holders' = [holders EXCEPT ![p] = @ \cup {o}]
        /\ o \notin holders[p]
        /\ UNCHANGED <<size, head, lock, pc, want, page, allocated>>
    BY DEF Get
  <1>3. holders[p] \in SUBSET Owners /\ refcount[p] \in Nat
    BY DEF TypeOK
  <1>4. Cardinality(holders[p] \cup {o}) = refcount[p] + 1
    <2>1. refcount[p] = Cardinality(holders[p])
      BY <1>1 DEF PageInv
    <2>2. o \notin holders[p] =>
            Cardinality(holders[p] \cup {o}) = Cardinality(holders[p]) + 1
      BY <1>3, CountRefs
    <2>3. QED
      BY <1>2, <2>1, <2>2
  <1>5. TypeOK'
    BY <1>2, <1>3 DEF TypeOK
  <1>6. PageInv'
    BY <1>1, <1>2, <1>4 DEF PageInv, TypeOK
  <1>7. HandInv'
    BY <1>1, <1>2 DEF HandInv, TypeOK
  <1>8. HandsApart'
    BY <1>2 DEF HandsApart
  <1>9. Accounted'
    BY <1>1, <1>2 DEF Accounted, TypeOK
  <1>10. OwnedAllocated'
    BY <1>1, <1>2 DEF OwnedAllocated, TypeOK
  <1>11. QED
    BY <1>1, <1>5, <1>6, <1>7, <1>8, <1>9, <1>10

(* Putting a reference; the last put leaves the page in the thread's hand. *)
LEMMA PutPreserves ==
  ASSUME SafeUse, IInv, NEW t \in Threads, NEW p \in Pages, NEW o \in Owners,
         Put(t, p, o)
  PROVE  IInv'
  <1> USE DEF IInv
  <1>1. /\ pc[t] = "idle" /\ o \in holders[p]
        /\ holders' = [holders EXCEPT ![p] = @ \ {o}]
        /\ refcount' = [refcount EXCEPT ![p] = @ - 1]
        /\ UNCHANGED <<size, head, lock>>
    BY DEF Put
  <1>2. holders[p] \in SUBSET Owners /\ p < size /\ p \notin head
    BY <1>1 DEF TypeOK, PageInv
  <1>3. /\ refcount[p] = Cardinality(holders[p]) /\ refcount[p] \in Nat
        /\ refcount[p] # 0
        /\ Cardinality(holders[p] \ {o}) = refcount[p] - 1
        /\ refcount[p] = 1 <=> holders[p] \ {o} = {}
    <2>1. refcount[p] = Cardinality(holders[p])
      BY <1>1 DEF PageInv
    <2>2. holders[p] \ {o} \in SUBSET Owners
      BY <1>2
    <2>3. /\ Cardinality(holders[p]) \in Nat
          /\ Cardinality(holders[p]) = 0 <=> holders[p] = {}
          /\ o \in holders[p] =>
               Cardinality(holders[p] \ {o}) = Cardinality(holders[p]) - 1
      BY <1>2, CountRefs
    <2>4. Cardinality(holders[p] \ {o}) = 0 <=> holders[p] \ {o} = {}
      BY <2>2, CountRefs
    <2>5. QED
      BY <1>1, <2>1, <2>3, <2>4
  <1>4. CASE refcount[p] = 1
    <2>1. /\ pc' = [pc EXCEPT ![t] = "punch"]
          /\ page' = [page EXCEPT ![t] = p]
          /\ want' = [want EXCEPT ![t].n = 1]
          /\ allocated' = allocated \ {p}
      BY <1>4 DEF Put, Goto
    <2>2. TypeOK'
      <3>1. want' \in [Threads -> [n : BlockSizes \cup {1}, o : Owners]]
        BY <2>1 DEF TypeOK
      <3>2. refcount' \in [Pages -> Nat]
        BY <1>1, <1>4 DEF TypeOK
      <3>3. holders' \in [Pages -> SUBSET Owners]
        BY <1>1 DEF TypeOK
      <3>4. page' \in [Threads -> Nat] /\ pc' \in [Threads -> PCs]
        BY <2>1 DEF TypeOK, PCs, Pages
      <3>5. QED
        BY <1>1, <2>1, <3>1, <3>2, <3>3, <3>4 DEF TypeOK
    <2>3. PageInv'
      BY <1>1, <1>2, <1>3, <1>4 DEF PageInv, TypeOK
    <2>4. HandInv'
      BY <1>1, <1>2, <1>3, <1>4, <2>1 DEF HandInv, TypeOK, Carrying
    <2>5. HandsApart'
      BY <1>1, <2>1 DEF HandsApart, HandInv, TypeOK, Carrying
    <2>6. Accounted'
      BY <1>1, <2>1 DEF Accounted, TypeOK, Carrying
    <2>7. OwnedAllocated'
      BY <1>1, <1>3, <1>4, <2>1 DEF OwnedAllocated, TypeOK
    <2>8. QED
      BY <2>2, <2>3, <2>4, <2>5, <2>6, <2>7
  <1>5. CASE refcount[p] # 1
    <2>1. UNCHANGED <<pc, page, want, allocated>>
      BY <1>5 DEF Put
    <2>2. TypeOK'
      BY <1>1, <1>3, <2>1 DEF TypeOK
    <2>3. PageInv'
      BY <1>1, <1>2, <1>3, <1>5 DEF PageInv, TypeOK
    <2>4. HandInv'
      BY <1>1, <1>2, <2>1 DEF HandInv, TypeOK
    <2>5. HandsApart'
      BY <2>1 DEF HandsApart
    <2>6. Accounted'
      BY <1>1, <1>3, <1>5, <2>1 DEF Accounted, TypeOK
    <2>7. OwnedAllocated'
      BY <1>1, <1>3, <1>5, <2>1 DEF OwnedAllocated, TypeOK
    <2>8. QED
      BY <2>2, <2>3, <2>4, <2>5, <2>6, <2>7
  <1>6. QED
    BY <1>4, <1>5

(* __pa_free puts the page on the list.                                    *)
LEMMA FreeListPreserves ==
  ASSUME SafeUse, IInv, NEW t \in Threads, FreeList(t)
  PROVE  IInv'
  <1> USE DEF IInv
  <1>1. /\ pc[t] = "list" /\ page[t] \in Pages /\ page[t] < size
        /\ page[t] \notin head /\ holders[page[t]] = {}
        /\ refcount[page[t]] = 0
    BY DEF FreeList, HandInv, Carrying
  <1>2. /\ head' = head \cup {page[t]}
        /\ pc' = [pc EXCEPT ![t] = "idle"]
        /\ UNCHANGED <<size, refcount, lock, want, page, allocated, holders>>
    BY DEF FreeList, Goto, callers
  <1>3. TypeOK'
    BY <1>1, <1>2 DEF TypeOK, PCs
  <1>4. PageInv'
    BY <1>1, <1>2 DEF PageInv, TypeOK
  <1>5. HandInv'
    BY <1>1, <1>2 DEF HandInv, HandsApart, TypeOK, Carrying
  <1>6. HandsApart'
    BY <1>1, <1>2 DEF HandsApart, TypeOK, Carrying
  <1>7. Accounted'
    BY <1>1, <1>2 DEF Accounted, TypeOK, Carrying
  <1>8. QED
    BY <1>2, <1>3, <1>4, <1>5, <1>6, <1>7 DEF OwnedAllocated

(* The steps that only move a thread or the lock.                          *)
LEMMA ControlPreserves ==
  ASSUME SafeUse, IInv, NEW t \in Threads,
         \/ \E n \in BlockSizes, o \in Owners : AllocLock(t, n, o)
         \/ AllocFail(t) \/ AllocNoFit(t) \/ AllocMlockFail(t) \/ FreePunch(t)
  PROVE  IInv'
  <1> USE DEF IInv, Goto, callers, OwnedAllocated
  <1>1. ASSUME NEW n \in BlockSizes, NEW o \in Owners, AllocLock(t, n, o)
        PROVE  IInv'
    BY <1>1 DEF AllocLock, TypeOK, PCs, PageInv, HandInv, HandsApart, Accounted,
       Carrying
  <1>2. CASE AllocFail(t)
    BY <1>2 DEF AllocFail, TypeOK, PCs, PageInv, HandInv, HandsApart, Accounted,
       Carrying
  <1>3. CASE AllocNoFit(t)
    BY <1>3 DEF AllocNoFit, TypeOK, PCs, PageInv, HandInv, HandsApart, Accounted,
       Carrying
  <1>4. CASE AllocMlockFail(t)
    BY <1>4 DEF AllocMlockFail, TypeOK, PCs, PageInv, HandInv, HandsApart,
       Accounted, Carrying
  <1>5. CASE FreePunch(t)
    BY <1>5 DEF FreePunch, TypeOK, PCs, PageInv, HandInv, HandsApart, Accounted,
       Carrying
  <1>6. QED
    BY <1>1, <1>2, <1>3, <1>4, <1>5

(* Every step keeps the invariant.                                         *)
LEMMA NextIInv == SafeUse /\ IInv /\ [Next]_vars => IInv'
  <1> SUFFICES ASSUME SafeUse, IInv, [Next]_vars PROVE IInv'
    OBVIOUS
  <1>1. CASE UNCHANGED vars
    BY <1>1 DEF vars, callers, IInv, TypeOK, PageInv, HandInv, HandsApart,
       Accounted, OwnedAllocated
  <1>2. ASSUME NEW p \in Pages, NEW o \in Owners, Get(p, o) PROVE IInv'
    BY <1>2, GetPreserves
  <1>3. ASSUME NEW t \in Threads, NEW p \in Pages, NEW o \in Owners, Put(t, p, o)
        PROVE  IInv'
    BY <1>3, PutPreserves
  <1>4. ASSUME NEW t \in Threads,
               \/ AllocGrow(t) \/ AllocScan(t) \/ AllocMlock(t)
               \/ AllocRelist(t) \/ FreeList(t)
        PROVE  IInv'
    BY <1>4, GrowPreserves, ScanPreserves, MlockPreserves, RelistPreserves,
       FreeListPreserves
  <1>5. ASSUME NEW t \in Threads,
               \/ \E n \in BlockSizes, o \in Owners : AllocLock(t, n, o)
               \/ AllocFail(t) \/ AllocNoFit(t) \/ AllocMlockFail(t)
               \/ FreePunch(t)
        PROVE  IInv'
    BY <1>5, ControlPreserves
  <1>6. QED
    BY <1>1, <1>2, <1>3, <1>4, <1>5 DEF Next

(***************************************************************************)
(* Under SafeUse the inductive invariant holds in every reachable state.   *)
(***************************************************************************)
THEOREM Inductive == ASSUME SafeUse PROVE Spec => []IInv
  <1>1. Init => IInv
    BY InitIInv
  <1>2. IInv /\ [Next]_vars => IInv'
    BY NextIInv
  <1>3. QED
    BY <1>1, <1>2, PTL DEF Spec

(***************************************************************************)
(* The state of the allocator stays well typed; in particular no put takes *)
(* a reference count below 0 and pa->size never exceeds PA_SIZE.           *)
(***************************************************************************)
THEOREM TypeCorrect == ASSUME SafeUse PROVE Spec => []TypeOK
  <1>1. IInv => TypeOK
    BY DEF IInv
  <1>2. QED
    BY <1>1, Inductive, PTL

(***************************************************************************)
(* A page on pa->head is owned by nobody: pa_put_page frees at the last    *)
(* put only, and pa_alloc_order never hands out a page it leaves listed.   *)
(***************************************************************************)
THEOREM FreePagesNotHeld == ASSUME SafeUse PROVE Spec => []FreeNotHeld
  <1>1. IInv => FreeNotHeld
    BY DEF IInv, PageInv, FreeNotHeld, TypeOK
  <1>2. QED
    BY <1>1, Inductive, PTL

(***************************************************************************)
(* page->refcount of an owned page counts its references.                  *)
(***************************************************************************)
THEOREM CountsAreReferences == ASSUME SafeUse PROVE Spec => []CountsMatch
  <1>1. IInv => CountsMatch
    BY DEF IInv, PageInv, CountsMatch
  <1>2. QED
    BY <1>1, Inductive, PTL

(* The pages in hand under SafeUse.                                        *)
LEMMA InHandOne ==
  ASSUME SafeUse, IInv, NEW t \in Threads
  PROVE  InHand(t) = IF pc[t] \in Carrying THEN {page[t]} ELSE {}
  <1>1. want[t].n = 1
    BY WantOne DEF IInv
  <1>2. pc[t] \in Carrying => Block(page[t], 1) = {page[t]}
    BY OnePageBlock DEF IInv, HandInv, Pages
  <1>3. QED
    BY <1>1, <1>2 DEF InHand

(***************************************************************************)
(* A page that __pa_free or the mlock() failure path punches is in that    *)
(* one thread's hands: not listed, not owned, not freed twice.             *)
(***************************************************************************)
THEOREM PagesInHandExclusive == ASSUME SafeUse PROVE Spec => []InHandExclusive
  <1>1. IInv => InHandExclusive
    <2> SUFFICES ASSUME IInv,
                        NEW t \in Threads, NEW p \in InHand(t)
                 PROVE  /\ p \notin head /\ holders[p] = {}
                        /\ \A u \in Threads \ {t} : p \notin InHand(u)
      BY DEF InHandExclusive
    <2>1. pc[t] \in Carrying /\ p = page[t]
      BY InHandOne
    <2>2. p \notin head /\ holders[p] = {}
      BY <2>1 DEF IInv, HandInv
    <2>3. ASSUME NEW u \in Threads \ {t} PROVE p \notin InHand(u)
      BY <2>1, InHandOne DEF IInv, HandsApart
    <2>4. QED
      BY <2>2, <2>3
  <1>2. QED
    BY <1>1, Inductive, PTL

(***************************************************************************)
(* No page is lost, whatever interleaving of allocations, failed mlock()s, *)
(* gets and puts: pa_fini's leak count is 0 once everybody has let go.     *)
(***************************************************************************)
THEOREM NothingLeaks == ASSUME SafeUse PROVE Spec => []NoLeak
  <1>1. IInv => NoLeak
    BY InHandOne DEF IInv, Accounted, NoLeak
  <1>2. QED
    BY <1>1, Inductive, PTL

(***************************************************************************)
(* A page is listed, owned or carried by one thread, and only one of these *)
(* (pa_put_page, __pa_free, pa_alloc_order).                               *)
(***************************************************************************)
THEOREM PagesAreExclusive == ASSUME SafeUse PROVE Spec => []PagesExclusive
  BY FreePagesNotHeld, PagesInHandExclusive, PTL DEF PagesExclusive

(***************************************************************************)
(* Counts are the references, pa->size stays within PA_SIZE and no page is *)
(* lost (pa_get_page, pa_put_page, pa_fini).                               *)
(***************************************************************************)
THEOREM PagesAreAccounted == ASSUME SafeUse PROVE Spec => []PagesAccounted
  BY TypeCorrect, CountsAreReferences, NothingLeaks, PTL DEF PagesAccounted

(***************************************************************************)
(* The allocator implements PagePool: what its callers see of alloc, get   *)
(* and put, whatever the interleaving, is a pool that hands out only pages *)
(* nobody holds.                                                           *)
(***************************************************************************)
THEOREM ImplementsPool == ASSUME SafeUse PROVE Spec => Refinement
  <1>1. Init => Pool!Init
    BY DEF Init, Pool!Init, Pages, Pool!Pages
  <1>2. IInv /\ [Next]_vars => [Pool!Next]_<<allocated, holders>>
    <2> SUFFICES ASSUME IInv, [Next]_vars, callers' # callers
                 PROVE  Pool!Next
      BY DEF callers
    <2>1. ASSUME NEW p \in Pages, NEW o \in Owners, holders[p] = {},
                 allocated' = allocated \cup {p},
                 holders' = [holders EXCEPT ![p] = {o}]
          PROVE  Pool!Next
      <3>1. Pool!Block(p, 1) = {p}
        BY DEF Pool!Block, Pages
      <3>2. holders' = [q \in Pages |-> IF q \in {p} THEN {o} ELSE holders[q]]
        BY <2>1 DEF IInv, TypeOK
      <3>3. Pool!Alloc(p, 1, o)
        BY <2>1, <3>1, <3>2 DEF Pool!Alloc, Pool!Pages, Pages, IInv, OwnedAllocated
      <3>4. QED
        BY <3>3 DEF Pool!Next, SafeUse, Pool!Pages, Pages
    <2>2. ASSUME NEW t \in Threads, AllocScan(t) PROVE Pool!Next
      <3>1. want[t].n = 1 /\ want[t].o \in Owners
        BY WantOne DEF IInv
      <3>2. PICK p \in Fits(1) :
              IF NeedMlock THEN UNCHANGED callers ELSE Give(t, p, 1)
        BY <2>2, <3>1 DEF AllocScan
      <3>3. p \in Pages /\ p \in Int /\ holders[p] = {}
        BY DEF Fits, IInv, TypeOK, PageInv, Pages
      <3>4. /\ holders' = [q \in Pages |->
                             IF q \in {p} THEN holders[q] \cup {want[t].o}
                                          ELSE holders[q]]
            /\ allocated' = allocated \cup {p}
        BY <3>2, <3>3, OnePageBlock DEF Give
      <3>5. holders' = [holders EXCEPT ![p] = {want[t].o}]
        BY <3>3, <3>4 DEF IInv, TypeOK
      <3>6. QED
        BY <2>1, <3>1, <3>3, <3>4, <3>5
    <2>3. ASSUME NEW t \in Threads, AllocMlock(t) PROVE Pool!Next
      <3>1. want[t].n = 1 /\ want[t].o \in Owners
        BY WantOne DEF IInv
      <3>2. page[t] \in Pages /\ page[t] \in Int /\ holders[page[t]] = {}
        BY <2>3 DEF AllocMlock, IInv, HandInv, Carrying, Pages
      <3>3. /\ holders' = [q \in Pages |->
                             IF q \in {page[t]} THEN holders[q] \cup {want[t].o}
                                                ELSE holders[q]]
            /\ allocated' = allocated \cup {page[t]}
        BY <2>3, <3>1, <3>2, OnePageBlock DEF AllocMlock, Give
      <3>4. holders' = [holders EXCEPT ![page[t]] = {want[t].o}]
        BY <3>2, <3>3 DEF IInv, TypeOK
      <3>5. QED
        BY <2>1, <3>1, <3>2, <3>3, <3>4
    <2>4. ASSUME NEW p \in Pages, NEW o \in Owners, Get(p, o) PROVE Pool!Next
      <3>1. Pool!Get(p, o)
        BY <2>4, GetPreserves DEF Get, Pool!Get, IInv, OwnedAllocated
      <3>2. QED
        BY <3>1 DEF Pool!Next, Pool!Pages, Pages
    <2>5. ASSUME NEW t \in Threads, NEW p \in Pages, NEW o \in Owners, Put(t, p, o)
          PROVE  Pool!Next
      <3>1. Pool!Put(p, o)
        <4>1. o \in holders[p] /\ refcount[p] = Cardinality(holders[p])
          BY <2>5 DEF Put, IInv, PageInv
        <4>2. holders[p] \in SUBSET Owners
          BY DEF IInv, TypeOK
        <4>3. refcount[p] = 1 <=> holders[p] = {o}
          <5>1. Cardinality(holders[p] \ {o}) = Cardinality(holders[p]) - 1
            BY <4>1, <4>2, CountRefs
          <5>2. Cardinality(holders[p] \ {o}) = 0 <=> holders[p] \ {o} = {}
            BY <4>2, CountRefs
          <5>3. Cardinality(holders[p]) \in Nat
            BY <4>2, CountRefs
          <5>4. QED
            BY <4>1, <5>1, <5>2, <5>3
        <4>4. QED
          BY <2>5, <4>1, <4>3 DEF Put, Pool!Put
      <3>2. QED
        BY <3>1 DEF Pool!Next, Pool!Pages, Pages
    <2>6. ASSUME NEW t \in Threads,
                 \/ \E n \in BlockSizes, o \in Owners : AllocLock(t, n, o)
                 \/ AllocGrow(t) \/ AllocFail(t) \/ AllocNoFit(t)
                 \/ AllocMlockFail(t) \/ AllocRelist(t) \/ FreePunch(t)
                 \/ FreeList(t)
          PROVE  FALSE
      BY <2>6 DEF AllocLock, AllocGrow, AllocFail, AllocNoFit, AllocMlockFail,
         AllocRelist, FreePunch, FreeList, callers
    <2>7. QED
      BY <2>2, <2>3, <2>4, <2>5, <2>6 DEF Next, vars, callers
  <1>3. QED
    BY <1>1, <1>2, Inductive, PTL DEF Spec, Refinement, Pool!Spec
-----------------------------------------------------------------------------
(***************************************************************************)
(* Blocks of several pages.  They are safe with one thread: a second one   *)
(* may be freeing a page of the block, with a zero count and not yet on    *)
(* the list.  The last block of the pool must end where the pool ends, so  *)
(* that the block sizes divide the chunks (PA_PAGES_AT_A_TIME is 32768).   *)
(***************************************************************************)
BlockUse ==
  /\ \E t : Threads = {t}
  /\ NeedMlock => ~WeakGet
  /\ \A n \in BlockSizes : ChunkPages % n = 0

(* The block a thread carries is whole and nobody else's; one that is      *)
(* being freed is a single page.                                           *)
BlockHand ==
  \A t \in Threads : pc[t] \in Carrying =>
    /\ page[t] + want[t].n <= size
    /\ \A q \in Block(page[t], want[t].n) :
         /\ q \notin head /\ holders[q] = {}
         /\ refcount[q] = (IF pc[t] \in {"mlock", "relist"} THEN 1 ELSE 0)
    /\ IF pc[t] \in {"mlock", "relist"} THEN NeedMlock ELSE want[t].n = 1

(* The pool grows by whole blocks.                                         *)
WholeBlocks == \A n \in BlockSizes \cup {1} : size % n = 0

(* The inductive invariant for blocks.                                     *)
BlockInv == TypeOK /\ PageInv /\ BlockHand /\ NoLeak /\ WholeBlocks

(* Blocks end where the pool ends, whatever their size.                    *)
LEMMA BlockEnds ==
  ASSUME NEW n \in BlockSizes \cup {1}, NEW p \in Nat, NEW s \in Nat,
         p % n = 0, s % n = 0, p < s
  PROVE  p + n <= s
  <1>1. n \in {1, 2, 4, 8, 16, 32}
    BY ConstantsAssumption
  <1>2. QED
    BY <1>1

(* A pool that grows by whole blocks has whole blocks.                     *)
LEMMA BlocksAdd ==
  ASSUME BlockUse, NEW n \in BlockSizes \cup {1}, NEW s \in Nat, s % n = 0
  PROVE  (s + ChunkPages) % n = 0
  <1>1. n \in {1, 2, 4, 8, 16, 32} /\ ChunkPages \in Nat
    BY ConstantsAssumption
  <1>2. ChunkPages % n = 0
    BY <1>1 DEF BlockUse
  <1>3. QED
    BY <1>1, <1>2

(* Sizes are numbers, and there is one thread.                             *)
LEMMA BlockFacts ==
  ASSUME BlockUse, BlockInv, NEW t \in Threads
  PROVE  /\ Threads = {t}
         /\ want[t].n \in BlockSizes \cup {1} /\ want[t].n \in Nat \ {0}
         /\ want[t].o \in Owners /\ page[t] \in Nat
         /\ size \in Nat /\ \A p \in Nat : p < size => p \in Pages
  <1>1. Threads = {t}
    BY DEF BlockUse
  <1>2. /\ want[t] \in [n : BlockSizes \cup {1}, o : Owners] /\ page[t] \in Nat
        /\ size \in 0 .. MaxPages
    BY DEF BlockInv, TypeOK
  <1>3. want[t].n \in BlockSizes \cup {1} /\ want[t].o \in Owners
    BY <1>2
  <1>4. want[t].n \in {1, 2, 4, 8, 16, 32}
    BY <1>3, ConstantsAssumption
  <1>5. want[t].n \in Nat \ {0}
    BY <1>4
  <1>6. size \in Nat /\ \A p \in Nat : p < size => p \in Pages
    BY <1>2, ConstantsAssumption DEF Pages
  <1>7. QED
    BY <1>1, <1>2, <1>3, <1>5, <1>6

(* A block goes to its owner.                                              *)
LEMMA GiveHolds ==
  ASSUME BlockInv, NEW t \in Threads, NEW p \in Nat, NEW n, want[t].o \in Owners,
         Give(t, p, n), \A q \in Block(p, n) : q \in Pages /\ holders[q] = {}
  PROVE  /\ holders' \in [Pages -> SUBSET Owners] /\ allocated' \subseteq Pages
         /\ \A q \in Pages :
              holders'[q] = IF q \in Block(p, n) THEN {want[t].o} ELSE holders[q]
         /\ Cardinality({want[t].o}) = 1
  BY FS_Singleton DEF BlockInv, TypeOK, Give

(* The scan takes a block of free pages off the list.                      *)
LEMMA BlockScan ==
  ASSUME BlockUse, BlockInv, NEW t \in Threads, AllocScan(t)
  PROVE  BlockInv'
  <1> DEFINE n == want[t].n
  <1>1. /\ Threads = {t} /\ n \in BlockSizes \cup {1} /\ n \in Nat \ {0}
        /\ want[t].o \in Owners /\ size \in Nat /\ \A p \in Nat : p < size => p \in Pages
    BY BlockFacts
  <1>2. PICK p \in Fits(n) :
          /\ TakeBlock(p, n)
          /\ page' = [page EXCEPT ![t] = p]
          /\ IF NeedMlock
             THEN Goto(t, "mlock") /\ UNCHANGED callers
             ELSE Give(t, p, n)
    BY DEF AllocScan
  <1>3. /\ pc[t] = "scan" /\ lock' = NoThread /\ UNCHANGED <<size, want>>
        /\ pc \in [Threads -> PCs] /\ page \in [Threads -> Nat]
    BY DEF AllocScan, BlockInv, TypeOK
  <1>4. p \in head /\ p \in Nat /\ p < size /\ p % n = 0
    BY <1>2 DEF Fits, BlockInv, TypeOK, PageInv, Pages
  <1>5. p + n <= size
    <2>1. size % n = 0
      BY <1>1 DEF BlockInv, WholeBlocks
    <2> HIDE DEF n
    <2>2. QED
      BY <1>1, <1>4, <2>1, BlockEnds
  <1> HIDE DEF n
  <1>6. \A q \in Block(p, n) : q \in Nat /\ q < size /\ q \in Pages
    BY <1>1, <1>4, <1>5 DEF Block
  <1>7. \A q \in Block(p, n) : q \in head
    <2>1. ASSUME NEW q \in Block(p, n), q # p
          PROVE  q \in head
      <3>1. refcount[q] = 0 /\ q \in Pages /\ q < size
        BY <1>2, <1>6, <2>1 DEF Fits, IsFree
      <3>2. holders[q] = {}
        <4>1. holders[q] \in SUBSET Owners
          BY <3>1 DEF BlockInv, TypeOK
        <4>2. IsFiniteSet(holders[q])
          BY <4>1, FS_Subset, ConstantsAssumption
        <4>3. holders[q] # {} => Cardinality(holders[q]) = 0
          BY <3>1 DEF BlockInv, PageInv
        <4>4. QED
          BY <4>2, <4>3, FS_EmptySet
      <3>3. InHand(t) = {}
        BY <1>3 DEF InHand, Carrying
      <3>4. QED
        BY <1>1, <3>1, <3>2, <3>3 DEF BlockInv, NoLeak
    <2>2. QED
      BY <1>4, <2>1
  <1>8. \A q \in Block(p, n) : holders[q] = {}
    BY <1>6, <1>7 DEF BlockInv, PageInv
  <1>9. /\ head' = head \ Block(p, n)
        /\ refcount' \in [Pages -> Nat]
        /\ \A q \in Pages : refcount'[q] = IF q \in Block(p, n) THEN 1 ELSE refcount[q]
    BY <1>2 DEF TakeBlock, BlockInv, TypeOK
  <1>10. page' \in [Threads -> Nat] /\ page'[t] = p /\ want'[t].n = n
    BY <1>2, <1>3, <1>4 DEF n
  <1>11. CASE NeedMlock
    <2>1. /\ holders' = holders /\ allocated' = allocated
          /\ pc' \in [Threads -> PCs] /\ pc'[t] = "mlock"
      BY <1>2, <1>3, <1>11 DEF Goto, callers, PCs
    <2>2. TypeOK'
      BY <1>3, <1>9, <1>10, <2>1, ConstantsAssumption DEF BlockInv, TypeOK
    <2>3. PageInv'
      BY <1>3, <1>8, <1>9, <1>11, <2>1 DEF BlockInv, PageInv
    <2>4. BlockHand'
      BY <1>1, <1>3, <1>5, <1>6, <1>8, <1>9, <1>10, <1>11, <2>1 DEF BlockHand, Carrying
    <2>5. NoLeak'
      <3>1. InHand(t)' = Block(p, n) /\ InHand(t) = {}
        BY <1>3, <1>10, <2>1 DEF InHand, Carrying
      <3>2. QED
        BY <1>1, <1>3, <1>9, <2>1, <3>1 DEF BlockInv, NoLeak
    <2>6. QED
      BY <1>3, <2>2, <2>3, <2>4, <2>5 DEF BlockInv, WholeBlocks
  <1>12. CASE ~NeedMlock
    <2>1. Give(t, p, n)
      BY <1>2, <1>12
    <2>2. /\ holders' \in [Pages -> SUBSET Owners] /\ allocated' \subseteq Pages
          /\ \A q \in Pages :
               holders'[q] = IF q \in Block(p, n) THEN {want[t].o} ELSE holders[q]
          /\ Cardinality({want[t].o}) = 1
      BY <1>1, <1>4, <1>6, <1>8, <2>1, GiveHolds
    <2>3. pc' \in [Threads -> PCs] /\ pc'[t] = "idle"
      BY <1>3, <2>1 DEF Give, Goto, PCs
    <2>4. TypeOK'
      BY <1>3, <1>9, <1>10, <2>2, <2>3, ConstantsAssumption DEF BlockInv, TypeOK
    <2>5. PageInv'
      BY <1>3, <1>6, <1>9, <1>12, <2>2 DEF BlockInv, PageInv
    <2>6. BlockHand'
      BY <1>1, <2>3 DEF BlockHand, Carrying
    <2>7. NoLeak'
      <3>1. InHand(t) = {}
        BY <1>3 DEF InHand, Carrying
      <3>2. QED
        BY <1>1, <1>3, <1>9, <2>2, <3>1 DEF BlockInv, NoLeak
    <2>8. QED
      BY <1>3, <2>4, <2>5, <2>6, <2>7 DEF BlockInv, WholeBlocks
  <1>13. QED
    BY <1>11, <1>12

(* Another chunk of pages.                                                 *)
LEMMA BlockGrow ==
  ASSUME BlockUse, BlockInv, NEW t \in Threads, AllocGrow(t)
  PROVE  BlockInv'
  <1>1. /\ Threads = {t} /\ size \in Nat
    BY BlockFacts
  <1>2. /\ pc[t] = "grow" /\ size' = size + ChunkPages /\ size' <= MaxPages
        /\ head' = head \cup (size .. size + ChunkPages - 1)
        /\ pc' = [pc EXCEPT ![t] = "scan"]
        /\ UNCHANGED <<refcount, lock, want, page, allocated, holders>>
    BY DEF AllocGrow, CanGrow, Goto, callers
  <1>3. pc' \in [Threads -> PCs] /\ pc'[t] = "scan"
    BY <1>2 DEF BlockInv, TypeOK, PCs
  <1>4. TypeOK'
    BY <1>1, <1>2, <1>3, ConstantsAssumption DEF BlockInv, TypeOK, Pages
  <1>5. PageInv'
    BY <1>1, <1>2, ConstantsAssumption DEF BlockInv, PageInv, TypeOK, Pages
  <1>6. BlockHand'
    BY <1>1, <1>3 DEF BlockHand, Carrying
  <1>7. NoLeak'
    <2>1. InHand(t) = {}
      BY <1>2 DEF InHand, Carrying
    <2>2. ASSUME NEW p \in Pages, p < size'
          PROVE  p \in head' \/ holders'[p] # {}
      <3>1. CASE p < size
        BY <1>1, <1>2, <2>1, <3>1 DEF BlockInv, NoLeak
      <3>2. CASE ~(p < size)
        BY <1>1, <1>2, <2>2, <3>2, ConstantsAssumption DEF Pages
      <3>3. QED
        BY <3>1, <3>2
    <2>3. QED
      BY <2>2 DEF NoLeak
  <1>8. WholeBlocks'
    <2>1. ASSUME NEW n \in BlockSizes \cup {1}
          PROVE  size' % n = 0
      <3>1. size % n = 0
        BY DEF BlockInv, WholeBlocks
      <3>2. QED
        BY <1>1, <1>2, <3>1, BlocksAdd
    <2>2. QED
      BY <2>1 DEF WholeBlocks
  <1>9. QED
    BY <1>4, <1>5, <1>6, <1>7, <1>8 DEF BlockInv

(* The end of an allocation with mlock(), good or bad.                     *)
LEMMA BlockMlock ==
  ASSUME BlockUse, BlockInv, NEW t \in Threads, AllocMlock(t) \/ AllocRelist(t)
  PROVE  BlockInv'
  <1> DEFINE n == want[t].n
             p == page[t]
  <1>1. /\ Threads = {t} /\ n \in Nat \ {0} /\ want[t].o \in Owners /\ p \in Nat
        /\ size \in Nat /\ \A x \in Nat : x < size => x \in Pages
    BY BlockFacts
  <1>2. /\ pc[t] \in {"mlock", "relist"} /\ UNCHANGED <<size, refcount, want, page>>
        /\ pc \in [Threads -> PCs] /\ lock' = lock
    BY DEF AllocMlock, AllocRelist, BlockInv, TypeOK
  <1>3. /\ p + n <= size /\ NeedMlock
        /\ \A q \in Block(p, n) : q \notin head /\ holders[q] = {} /\ refcount[q] = 1
    BY <1>2 DEF BlockInv, BlockHand, Carrying
  <1>4. InHand(t) = Block(p, n)
    BY <1>2 DEF InHand, Carrying
  <1> HIDE DEF n, p
  <1>5. \A q \in Block(p, n) : q \in Nat /\ q < size /\ q \in Pages
    BY <1>1, <1>3 DEF Block
  <1>6. CASE AllocMlock(t)
    <2>1. Give(t, p, n) /\ head' = head
      BY <1>6 DEF AllocMlock, n, p
    <2>2. /\ holders' \in [Pages -> SUBSET Owners] /\ allocated' \subseteq Pages
          /\ \A q \in Pages :
               holders'[q] = IF q \in Block(p, n) THEN {want[t].o} ELSE holders[q]
          /\ Cardinality({want[t].o}) = 1
      BY <1>1, <1>3, <1>5, <2>1, GiveHolds
    <2>3. pc' \in [Threads -> PCs] /\ pc'[t] = "idle"
      BY <1>2, <2>1 DEF Give, Goto, PCs
    <2>4. TypeOK'
      BY <1>2, <2>1, <2>2, <2>3 DEF BlockInv, TypeOK
    <2>5. PageInv'
      BY <1>2, <1>3, <1>5, <2>1, <2>2 DEF BlockInv, PageInv
    <2>6. BlockHand'
      BY <1>1, <2>3 DEF BlockHand, Carrying
    <2>7. NoLeak'
      BY <1>1, <1>2, <1>4, <2>1, <2>2 DEF BlockInv, NoLeak
    <2>8. QED
      BY <1>2, <2>4, <2>5, <2>6, <2>7 DEF BlockInv, WholeBlocks
  <1>7. CASE AllocRelist(t)
    <2>1. /\ head' = head \cup Block(p, n) /\ pc' = [pc EXCEPT ![t] = "idle"]
          /\ UNCHANGED <<allocated, holders>>
      BY <1>7 DEF AllocRelist, Goto, callers, n, p
    <2>2. pc' \in [Threads -> PCs] /\ pc'[t] = "idle"
      BY <1>2, <2>1 DEF PCs
    <2>3. TypeOK'
      BY <1>2, <1>5, <2>1, <2>2 DEF BlockInv, TypeOK
    <2>4. PageInv'
      BY <1>2, <1>3, <1>5, <2>1 DEF BlockInv, PageInv
    <2>5. BlockHand'
      BY <1>1, <2>2 DEF BlockHand, Carrying
    <2>6. NoLeak'
      BY <1>1, <1>2, <1>4, <2>1 DEF BlockInv, NoLeak
    <2>7. QED
      BY <1>2, <2>3, <2>4, <2>5, <2>6 DEF BlockInv, WholeBlocks
  <1>8. QED
    BY <1>6, <1>7

(* References to a page of a block.                                        *)
LEMMA BlockGet ==
  ASSUME BlockUse, BlockInv, NEW p \in Pages, NEW o \in Owners, Get(p, o)
  PROVE  BlockInv'
  <1>1. holders[p] # {}
    BY DEF Get, BlockUse, BlockInv, PageInv
  <1>2. /\ refcount' = [refcount EXCEPT ![p] = @ + 1]
        /\ holders' = [holders EXCEPT ![p] = @ \cup {o}]
        /\ o \notin holders[p]
        /\ UNCHANGED <<size, head, lock, pc, want, page, allocated>>
    BY DEF Get
  <1>3. /\ holders \in [Pages -> SUBSET Owners] /\ refcount \in [Pages -> Nat]
        /\ holders[p] \in SUBSET Owners
    BY DEF BlockInv, TypeOK
  <1>4. Cardinality(holders[p] \cup {o}) = refcount[p] + 1
    <2>1. refcount[p] = Cardinality(holders[p])
      BY <1>1 DEF BlockInv, PageInv
    <2>2. o \notin holders[p] =>
            Cardinality(holders[p] \cup {o}) = Cardinality(holders[p]) + 1
      BY <1>3, CountRefs
    <2>3. QED
      BY <1>2, <2>1, <2>2
  <1>5. TypeOK'
    BY <1>2, <1>3 DEF BlockInv, TypeOK
  <1>6. PageInv'
    BY <1>1, <1>2, <1>3, <1>4 DEF BlockInv, PageInv
  <1>7. BlockHand'
    <2>1. ASSUME NEW t \in Threads, pc[t] \in Carrying, NEW q \in Block(page[t], want[t].n)
          PROVE  holders'[q] = holders[q] /\ refcount'[q] = refcount[q]
      <3>1. q # p
        BY <1>1, <2>1 DEF BlockInv, BlockHand
      <3>2. QED
        BY <1>2, <1>3, <3>1
    <2>2. QED
      BY <1>2, <2>1 DEF BlockInv, BlockHand
  <1>8. NoLeak'
    <2>1. \A t \in Threads : InHand(t)' = InHand(t)
      BY <1>2 DEF InHand
    <2>2. \A q \in Pages : holders[q] # {} => holders'[q] # {}
      BY <1>2, <1>3
    <2>3. QED
      BY <1>2, <2>1, <2>2 DEF BlockInv, NoLeak
  <1>9. QED
    BY <1>2, <1>5, <1>6, <1>7, <1>8 DEF BlockInv, WholeBlocks

(* A put of a page of a block.                                             *)
LEMMA BlockPut ==
  ASSUME BlockUse, BlockInv, NEW t \in Threads, NEW p \in Pages, NEW o \in Owners,
         Put(t, p, o)
  PROVE  BlockInv'
  <1>1. /\ pc[t] = "idle" /\ o \in holders[p]
        /\ holders' = [holders EXCEPT ![p] = @ \ {o}]
        /\ refcount' = [refcount EXCEPT ![p] = @ - 1]
        /\ UNCHANGED <<size, head, lock>>
    BY DEF Put
  <1>2. /\ Threads = {t} /\ p \in Nat /\ p < size /\ p \notin head /\ size \in Nat
        /\ holders \in [Pages -> SUBSET Owners] /\ refcount \in [Pages -> Nat]
        /\ pc \in [Threads -> PCs] /\ page \in [Threads -> Nat]
    BY <1>1, BlockFacts, ConstantsAssumption DEF BlockInv, TypeOK, PageInv, Pages
  <1>3. /\ refcount[p] # 0 /\ refcount[p] \in Nat
        /\ Cardinality(holders[p] \ {o}) = refcount[p] - 1
        /\ refcount[p] = 1 <=> holders[p] \ {o} = {}
    <2>1. refcount[p] = Cardinality(holders[p])
      BY <1>1 DEF BlockInv, PageInv
    <2>2. holders[p] \in SUBSET Owners /\ holders[p] \ {o} \in SUBSET Owners
      BY <1>2
    <2>3. /\ Cardinality(holders[p]) \in Nat
          /\ Cardinality(holders[p]) = 0 <=> holders[p] = {}
          /\ o \in holders[p] =>
               Cardinality(holders[p] \ {o}) = Cardinality(holders[p]) - 1
      BY <2>2, CountRefs
    <2>4. Cardinality(holders[p] \ {o}) = 0 <=> holders[p] \ {o} = {}
      BY <2>2, CountRefs
    <2>5. QED
      BY <1>1, <2>1, <2>3, <2>4
  <1>4. /\ holders' \in [Pages -> SUBSET Owners] /\ refcount' \in [Pages -> Nat]
        /\ \A q \in Pages : /\ holders'[q] = IF q = p THEN holders[q] \ {o} ELSE holders[q]
                            /\ refcount'[q] = IF q = p THEN refcount[q] - 1 ELSE refcount[q]
    <2>1. refcount[p] - 1 \in Nat /\ holders[p] \ {o} \in SUBSET Owners
      BY <1>2, <1>3
    <2>2. holders' \in [Pages -> SUBSET Owners] /\ refcount' \in [Pages -> Nat]
      BY <1>1, <1>2, <2>1
    <2>3. \A q \in Pages : holders'[q] = IF q = p THEN holders[q] \ {o} ELSE holders[q]
      BY <1>1, <1>2
    <2>4. \A q \in Pages : refcount'[q] = IF q = p THEN refcount[q] - 1 ELSE refcount[q]
      BY <1>1, <1>2
    <2>5. QED
      BY <2>2, <2>3, <2>4
  <1>5. PageInv'
    BY <1>1, <1>2, <1>3, <1>4 DEF BlockInv, PageInv
  <1>6. InHand(t) = {}
    BY <1>1 DEF InHand, Carrying
  <1>7. CASE refcount[p] = 1
    <2>1. /\ pc' = [pc EXCEPT ![t] = "punch"]
          /\ page' = [page EXCEPT ![t] = p]
          /\ want' = [want EXCEPT ![t].n = 1]
          /\ allocated' = allocated \ {p}
      BY <1>7 DEF Put, Goto
    <2>2. want' \in [Threads -> [n : BlockSizes \cup {1}, o : Owners]]
      BY <2>1 DEF BlockInv, TypeOK
    <2>3. want'[t].n = 1 /\ page'[t] = p /\ pc'[t] = "punch"
      BY <1>2, <2>1 DEF BlockInv, TypeOK
    <2>4. TypeOK'
      <3>1. page' \in [Threads -> Nat] /\ pc' \in [Threads -> PCs]
        BY <1>2, <2>1 DEF PCs
      <3>2. QED
        BY <1>1, <1>4, <2>1, <2>2, <3>1 DEF BlockInv, TypeOK
    <2>5. Block(p, 1) = {p}
      BY <1>2, OnePageBlock
    <2>6. holders'[p] = {} /\ refcount'[p] = 0
      BY <1>3, <1>4, <1>7
    <2>7. BlockHand'
      <3>1. p + 1 <= size
        BY <1>2
      <3>2. QED
        BY <1>1, <1>2, <2>3, <2>5, <2>6, <3>1 DEF BlockHand, Carrying
    <2>8. NoLeak'
      <3>1. InHand(t)' = {p}
        BY <2>3, <2>5 DEF InHand, Carrying
      <3>2. QED
        BY <1>1, <1>2, <1>4, <1>6, <3>1 DEF BlockInv, NoLeak
    <2>9. QED
      BY <1>1, <1>5, <2>4, <2>7, <2>8 DEF BlockInv, WholeBlocks
  <1>8. CASE refcount[p] # 1
    <2>1. UNCHANGED <<pc, page, want, allocated>>
      BY <1>8 DEF Put
    <2>2. TypeOK'
      BY <1>1, <1>4, <2>1 DEF BlockInv, TypeOK
    <2>3. BlockHand'
      BY <1>1, <1>2, <2>1 DEF BlockHand, Carrying
    <2>4. NoLeak'
      BY <1>1, <1>2, <1>3, <1>4, <1>6, <1>8 DEF BlockInv, NoLeak
    <2>5. QED
      BY <1>1, <1>5, <2>2, <2>3, <2>4 DEF BlockInv, WholeBlocks
  <1>9. QED
    BY <1>7, <1>8

(* The other steps: a page goes back on the list, or a thread moves.       *)
LEMMA BlockControl ==
  ASSUME BlockUse, BlockInv, NEW t \in Threads,
         \/ \E n \in BlockSizes, o \in Owners : AllocLock(t, n, o)
         \/ AllocFail(t) \/ AllocNoFit(t) \/ AllocMlockFail(t) \/ FreePunch(t)
         \/ FreeList(t)
  PROVE  BlockInv'
  <1>1. /\ Threads = {t} /\ pc \in [Threads -> PCs] /\ size \in Nat /\ page[t] \in Nat
    BY BlockFacts DEF BlockInv, TypeOK
  <1>2. UNCHANGED <<size, refcount, page, allocated, holders>>
    BY DEF AllocLock, AllocFail, AllocNoFit, AllocMlockFail, FreePunch, FreeList, callers
  <1>3. ASSUME NEW n \in BlockSizes, NEW o \in Owners, AllocLock(t, n, o)
        PROVE  BlockInv'
    <2>1. /\ want' = [want EXCEPT ![t] = [n |-> n, o |-> o]] /\ head' = head /\ lock' = t
          /\ pc[t] = "idle" /\ pc' \in [Threads -> PCs] /\ pc'[t] \in {"grow", "scan"}
      BY <1>1, <1>3 DEF AllocLock, Goto, PCs
    <2>2. want' \in [Threads -> [n : BlockSizes \cup {1}, o : Owners]]
      BY <2>1 DEF BlockInv, TypeOK
    <2>3. TypeOK' /\ PageInv' /\ BlockHand' /\ WholeBlocks'
      BY <1>1, <1>2, <2>1, <2>2
         DEF BlockInv, TypeOK, PageInv, BlockHand, Carrying, WholeBlocks
    <2>4. NoLeak'
      BY <1>1, <1>2, <2>1 DEF BlockInv, NoLeak, InHand, Carrying
    <2>5. QED
      BY <2>3, <2>4 DEF BlockInv
  <1>4. CASE AllocFail(t) \/ AllocNoFit(t)
    <2>1. /\ want' = want /\ head' = head /\ lock' \in {lock, NoThread}
          /\ pc[t] \in {"grow", "scan"}
          /\ pc' \in [Threads -> PCs] /\ pc'[t] \in {"idle", "grow"}
      BY <1>1, <1>4 DEF AllocFail, AllocNoFit, Goto, PCs
    <2>2. TypeOK' /\ PageInv' /\ BlockHand' /\ WholeBlocks'
      BY <1>1, <1>2, <2>1 DEF BlockInv, TypeOK, PageInv, BlockHand, Carrying, WholeBlocks
    <2>3. NoLeak'
      BY <1>1, <1>2, <2>1 DEF BlockInv, NoLeak, InHand, Carrying
    <2>4. QED
      BY <2>2, <2>3 DEF BlockInv
  <1>5. CASE AllocMlockFail(t) \/ FreePunch(t)
    <2>1. /\ want' = want /\ head' = head /\ lock' = lock /\ pc' \in [Threads -> PCs]
          /\ \/ pc[t] = "mlock" /\ pc'[t] = "relist"
             \/ pc[t] = "punch" /\ pc'[t] = "list"
      BY <1>1, <1>5 DEF AllocMlockFail, FreePunch, Goto, PCs
    <2>2. TypeOK' /\ PageInv' /\ BlockHand' /\ WholeBlocks'
      BY <1>1, <1>2, <2>1 DEF BlockInv, TypeOK, PageInv, BlockHand, Carrying, WholeBlocks
    <2>3. NoLeak'
      BY <1>1, <1>2, <2>1 DEF BlockInv, NoLeak, InHand, Carrying
    <2>4. QED
      BY <2>2, <2>3 DEF BlockInv
  <1>6. CASE FreeList(t)
    <2>1. /\ want' = want /\ head' = head \cup {page[t]} /\ lock' = lock
          /\ pc' \in [Threads -> PCs] /\ pc[t] = "list" /\ pc'[t] = "idle"
      BY <1>1, <1>6 DEF FreeList, Goto, PCs
    <2>2. Block(page[t], want[t].n) = {page[t]}
      BY <1>1, <2>1, OnePageBlock DEF BlockInv, BlockHand, Carrying
    <2>3. page[t] \in Pages /\ page[t] < size /\ holders[page[t]] = {} /\ refcount[page[t]] = 0
      BY <1>1, <2>1, <2>2, ConstantsAssumption
         DEF BlockInv, BlockHand, Carrying, TypeOK, Pages
    <2>4. TypeOK' /\ PageInv' /\ BlockHand' /\ WholeBlocks'
      BY <1>1, <1>2, <2>1, <2>3 DEF BlockInv, TypeOK, PageInv, BlockHand, Carrying, WholeBlocks
    <2>5. NoLeak'
      <3>1. InHand(t) = {page[t]}
        BY <2>1, <2>2 DEF InHand, Carrying
      <3>2. QED
        BY <1>1, <1>2, <2>1, <3>1 DEF BlockInv, NoLeak
    <2>6. QED
      BY <2>4, <2>5 DEF BlockInv
  <1>7. QED
    BY <1>3, <1>4, <1>5, <1>6

(* Every step preserves the invariant for blocks.                          *)
LEMMA NextBlockInv == BlockUse /\ BlockInv /\ [Next]_vars => BlockInv'
  <1> SUFFICES ASSUME BlockUse, BlockInv, [Next]_vars PROVE BlockInv'
    OBVIOUS
  <1>1. CASE UNCHANGED vars
    BY <1>1 DEF vars, callers, BlockInv, TypeOK, PageInv, BlockHand, NoLeak, InHand, WholeBlocks
  <1>2. ASSUME NEW p \in Pages, NEW o \in Owners, Get(p, o) PROVE BlockInv'
    BY <1>2, BlockGet
  <1>3. ASSUME NEW t \in Threads, NEW p \in Pages, NEW o \in Owners, Put(t, p, o)
        PROVE  BlockInv'
    BY <1>3, BlockPut
  <1>4. ASSUME NEW t \in Threads,
               AllocGrow(t) \/ AllocScan(t) \/ AllocMlock(t) \/ AllocRelist(t)
        PROVE  BlockInv'
    BY <1>4, BlockGrow, BlockScan, BlockMlock
  <1>5. ASSUME NEW t \in Threads,
               \/ \E n \in BlockSizes, o \in Owners : AllocLock(t, n, o)
               \/ AllocFail(t) \/ AllocNoFit(t) \/ AllocMlockFail(t)
               \/ FreePunch(t) \/ FreeList(t)
        PROVE  BlockInv'
    BY <1>5, BlockControl
  <1>6. QED
    BY <1>1, <1>2, <1>3, <1>4, <1>5 DEF Next

(* With one thread the inductive invariant for blocks holds.               *)
THEOREM BlocksInductive == ASSUME BlockUse PROVE Spec => []BlockInv
  <1>1. Init => BlockInv
    <2> SUFFICES ASSUME Init PROVE BlockInv
      OBVIOUS
    <2>1. TypeOK
      BY ConstantsAssumption DEF Init, TypeOK, PCs
    <2>2. PageInv /\ BlockHand /\ NoLeak
      BY ConstantsAssumption DEF Init, PageInv, BlockHand, NoLeak, Carrying, Pages
    <2>3. WholeBlocks
      <3>1. ASSUME NEW n \in BlockSizes \cup {1} PROVE 0 % n = 0
        <4>1. n \in {1, 2, 4, 8, 16, 32}
          BY ConstantsAssumption
        <4>2. QED
          BY <4>1
      <3>2. QED
        BY <3>1 DEF Init, WholeBlocks
    <2>4. QED
      BY <2>1, <2>2, <2>3 DEF BlockInv
  <1>2. QED
    BY <1>1, NextBlockInv, PTL DEF Spec

(***************************************************************************)
(* Single pages with any number of threads, and blocks of up to            *)
(* 1 << PA_MAX_ORDER pages with one thread, are handed out to one owner at *)
(* a time, counted and never lost.                                         *)
(***************************************************************************)
THEOREM BlocksAreSafe == ASSUME SafeUse \/ BlockUse PROVE Spec => []BlocksSafe
  <1>1. CASE SafeUse
    BY <1>1, PagesInHandExclusive, CountsAreReferences, NothingLeaks, PTL DEF BlocksSafe
  <1>2. CASE BlockUse
    <2>1. BlockInv => BlocksSafe
      <3> SUFFICES ASSUME BlockInv PROVE BlocksSafe
        OBVIOUS
      <3>1. InHandExclusive
        BY <1>2 DEF BlockUse, BlockInv, BlockHand, InHandExclusive, InHand
      <3>2. CountsMatch /\ NoLeak
        BY DEF BlockInv, PageInv, CountsMatch
      <3>3. QED
        BY <3>1, <3>2 DEF BlocksSafe
    <2>2. QED
      BY <1>2, <2>1, BlocksInductive, PTL
  <1>3. QED
    BY <1>1, <1>2
-----------------------------------------------------------------------------
(* The lock is held from the scan on, and the pool is grown only when the  *)
(* list has no block.                                                      *)
GrowsWhenFull ==
  \A t \in Threads :
    /\ pc[t] \in {"scan", "grow"} => lock = t
    /\ pc[t] = "grow" => ~AlignedFree(want[t].n)

(* A list without a fitting entry has no aligned block: a listed page has  *)
(* no references, except after a failed mlock() and then blocks are single *)
(* pages.                                                                  *)
LEMMA NoFitNoBlock ==
  ASSUME TypeOK, PageInv, SafeUse \/ ~NeedMlock, NEW n \in BlockSizes \cup {1},
         Fits(n) = {} \/ head = {}
  PROVE  ~AlignedFree(n)
  <1> SUFFICES ASSUME AlignedFree(n) PROVE FALSE
    OBVIOUS
  <1>1. n \in Nat \ {0} /\ (SafeUse => n = 1)
    BY ConstantsAssumption DEF SafeUse
  <1>2. PICK p \in Pages : p % n = 0 /\ p + n <= size /\ Block(p, n) \subseteq head
    BY DEF AlignedFree
  <1>3. p \in Nat /\ size \in Nat
    BY ConstantsAssumption DEF Pages, TypeOK
  <1>4. p \in head
    BY <1>1, <1>2, <1>3 DEF Block
  <1>5. \A q \in Block(p, n) \ {p} : IsFree(q)
    <2>1. CASE SafeUse
      BY <1>1, <1>3, <2>1, OnePageBlock
    <2>2. CASE ~NeedMlock
      BY <1>2, <2>2 DEF PageInv, TypeOK, IsFree
    <2>3. QED
      BY <2>1, <2>2
  <1>6. p + n - 1 <= size
    BY <1>1, <1>2, <1>3
  <1>7. p \in Fits(n)
    BY <1>2, <1>4, <1>5, <1>6 DEF Fits
  <1>8. QED
    BY <1>4, <1>7

(* No step spoils GrowsWhenFull: the list changes only under the lock.     *)
LEMMA NextGrowsWhenFull ==
  ASSUME TypeOK, PageInv, SafeUse \/ ~NeedMlock, GrowsWhenFull, [Next]_vars
  PROVE  GrowsWhenFull'
  <1> USE DEF Goto
  <1>1. CASE UNCHANGED vars
    BY <1>1 DEF vars, GrowsWhenFull, AlignedFree
  <1>2. CASE \E p \in Pages, o \in Owners : Get(p, o)
    BY <1>2 DEF Get, GrowsWhenFull, AlignedFree
  <1>3. ASSUME NEW t \in Threads, NEW n \in BlockSizes, NEW o \in Owners, AllocLock(t, n, o)
        PROVE  GrowsWhenFull'
    <2>1. /\ lock = NoThread /\ lock' = t /\ size' = size /\ head' = head
          /\ want' = [want EXCEPT ![t] = [n |-> n, o |-> o]]
          /\ pc' = [pc EXCEPT ![t] = IF head = {} THEN "grow" ELSE "scan"]
      BY <1>3 DEF AllocLock
    <2>2. \A u \in Threads : pc[u] \notin {"scan", "grow"}
      BY <2>1, ConstantsAssumption DEF GrowsWhenFull
    <2>3. \A u \in Threads : pc'[u] \in {"scan", "grow"} => u = t
      BY <2>1, <2>2 DEF TypeOK
    <2>4. want'[t].n = n /\ (pc'[t] = "grow" => head = {})
      BY <2>1 DEF TypeOK
    <2>5. head = {} => ~AlignedFree(n)
      BY NoFitNoBlock
    <2>6. AlignedFree(n)' <=> AlignedFree(n)
      BY <2>1 DEF AlignedFree
    <2>7. QED
      BY <2>1, <2>3, <2>4, <2>5, <2>6 DEF GrowsWhenFull, AlignedFree
  <1>4. ASSUME NEW t \in Threads, AllocNoFit(t) PROVE GrowsWhenFull'
    <2>1. /\ UNCHANGED <<lock, size, head, want>> /\ pc[t] = "scan" /\ Fits(want[t].n) = {}
          /\ pc' = [pc EXCEPT ![t] = "grow"]
      BY <1>4 DEF AllocNoFit
    <2>2. want[t].n \in BlockSizes \cup {1}
      BY DEF TypeOK
    <2>3. ~AlignedFree(want[t].n)
      BY <2>1, <2>2, NoFitNoBlock
    <2>4. QED
      BY <2>1, <2>3 DEF GrowsWhenFull, AlignedFree, TypeOK
  <1>5. ASSUME NEW t \in Threads, AllocGrow(t) \/ AllocFail(t) \/ AllocScan(t)
        PROVE  GrowsWhenFull'
    <2>1. pc[t] \in {"scan", "grow"}
      BY <1>5 DEF AllocGrow, AllocFail, AllocScan
    <2>2. \A u \in Threads : pc[u] \in {"scan", "grow"} => u = t
      BY <2>1 DEF GrowsWhenFull
    <2>3. \/ lock' = lock /\ pc' = [pc EXCEPT ![t] = "scan"]
          \/ pc' = [pc EXCEPT ![t] = "idle"]
          \/ pc' = [pc EXCEPT ![t] = "mlock"]
      BY <1>5 DEF AllocGrow, AllocFail, AllocScan, Give
    <2>4. QED
      BY <2>1, <2>2, <2>3 DEF GrowsWhenFull, TypeOK
  <1>6. ASSUME NEW t \in Threads, AllocRelist(t) \/ FreeList(t)
        PROVE  GrowsWhenFull'
    <2>1. lock = NoThread /\ pc' = [pc EXCEPT ![t] = "idle"]
      BY <1>6 DEF AllocRelist, FreeList
    <2>2. \A u \in Threads : pc[u] \notin {"scan", "grow"}
      BY <2>1, ConstantsAssumption DEF GrowsWhenFull
    <2>3. QED
      BY <2>1, <2>2 DEF GrowsWhenFull, TypeOK
  <1>7. ASSUME NEW t \in Threads,
               \/ AllocMlock(t) \/ AllocMlockFail(t) \/ FreePunch(t)
               \/ \E p \in Pages, o \in Owners : Put(t, p, o)
        PROVE  GrowsWhenFull'
    <2>1. UNCHANGED <<lock, size, head>>
      BY <1>7 DEF AllocMlock, AllocMlockFail, FreePunch, Put
    <2>2. \A u \in Threads : pc'[u] \in {"scan", "grow"} => pc'[u] = pc[u] /\ want'[u] = want[u]
      <3>1. CASE AllocMlock(t) \/ AllocMlockFail(t) \/ FreePunch(t)
        BY <3>1 DEF AllocMlock, AllocMlockFail, FreePunch, Give, TypeOK
      <3>2. CASE \E p \in Pages, o \in Owners : Put(t, p, o)
        <4>1. \/ UNCHANGED <<pc, want>>
              \/ pc' = [pc EXCEPT ![t] = "punch"] /\ want' = [want EXCEPT ![t].n = 1]
          BY <3>2 DEF Put
        <4>2. QED
          BY <4>1 DEF TypeOK
      <3>3. QED
        BY <1>7, <3>1, <3>2
    <2>3. QED
      BY <2>1, <2>2 DEF GrowsWhenFull, AlignedFree
  <1>8. QED
    BY <1>1, <1>2, <1>3, <1>4, <1>5, <1>6, <1>7 DEF Next

(***************************************************************************)
(* pa_alloc_order returns NULL only when the list has no block of the size *)
(* asked for: with single pages for any number of threads, with blocks for *)
(* one thread where mlock() is not used.  (A failed mlock() leaves counts  *)
(* at 1 on listed pages, and a block over such a page is never found.)     *)
(***************************************************************************)
THEOREM FailureMeansFull ==
  ASSUME SafeUse \/ (BlockUse /\ ~NeedMlock)
  PROVE  Spec => FailsOnlyWhenFull
  <1>1. Init => GrowsWhenFull
    BY DEF Init, GrowsWhenFull
  <1>2. TypeOK /\ PageInv /\ GrowsWhenFull /\ [Next]_vars => GrowsWhenFull'
    BY NextGrowsWhenFull
  <1>3. GrowsWhenFull /\ [Next]_vars =>
          [\A t \in Threads :
             pc[t] = "grow" /\ pc'[t] = "idle" => ~AlignedFree(want[t].n)]_vars
    BY DEF GrowsWhenFull
  <1>4. IInv => TypeOK /\ PageInv
    BY DEF IInv
  <1>5. BlockInv => TypeOK /\ PageInv
    BY DEF BlockInv
  <1>6. Spec => []TypeOK /\ []PageInv
    <2>1. CASE SafeUse
      BY <1>4, <2>1, Inductive, PTL
    <2>2. CASE BlockUse
      BY <1>5, <2>2, BlocksInductive, PTL
    <2>3. QED
      BY <2>1, <2>2
  <1>7. QED
    BY <1>1, <1>2, <1>3, <1>6, PTL DEF Spec, FailsOnlyWhenFull
=============================================================================
