----------------------------- MODULE SlabProofs -----------------------------
(***************************************************************************)
(* Proofs about Slab, for any number of threads, cpus, size classes and    *)
(* pages, any division of a page and any NFreeWant.                        *)
(***************************************************************************)
EXTENDS Slab, FiniteSetTheorems, TLAPS

Freeing(t) == pc[t] \in {"flock", "free"}

(* A free element is on the list its page names.                           *)
ListsRight ==
  \A k \in Cpus, c \in Classes : \A e \in list[k][c] :
    /\ meta[PageOf(e)] = c + 1
    /\ pcpu[PageOf(e)] = k
    /\ e \in ElemsOf(PageOf(e), c)

(* An element that is out is one of those its page is cut into.            *)
OutRight ==
  \A e \in Out : /\ meta[PageOf(e)] # 0
                 /\ e \in ElemsOf(PageOf(e), meta[PageOf(e)] - 1)

(* A free element is not out.                                              *)
FreeNotOut == \A k \in Cpus, c \in Classes : \A e \in list[k][c] : e \notin Out

(* The part that only the memory and the set of elements out decide.       *)
MemInv == ListsRight /\ OutRight /\ FreeNotOut /\ PagesWhole /\ CountsExact

(* An element that is out is in one pair of hands.                         *)
OneHolder ==
  /\ \A ec \in owned, t \in Threads : Freeing(t) => elem[t] # ec[1]
  /\ \A t, u \in Threads : t # u /\ Freeing(t) /\ Freeing(u) => elem[t] # elem[u]

(* A thread that is freeing looks at the slab it found, and at no other.   *)
FreeCursor == \A t \in Threads : Freeing(t) => req[t].i = 0

(* The round over the slabs ends at the thread's own.                      *)
RoundBounded ==
  \A t \in Threads : pc[t] \in {"try", "look"} => req[t].i < NSlabs

Locked == {"look", "alloc", "free"}

(* Who works on a slab holds its lock.                                     *)
LockHeld == \A t \in Threads : pc[t] \in Locked => lock[Cursor(t)] = t

(* zus_slab_fini is the last call.                                         *)
Quiet == up \/ \A t \in Threads : pc[t] = "idle"

(* The inductive invariant.                                                *)
IInv ==
  /\ TypeOK
  /\ MemInv
  /\ ClassKept
  /\ CpuNotStale
  /\ OneHolder
  /\ FreeCursor
  /\ RoundBounded
  /\ LockHeld
  /\ Quiet
  /\ FiniClean
-----------------------------------------------------------------------------
(* What the provers need of elements: each is in one page, a page is cut   *)
(* into PerPage[c] of them, and there are finitely many.                   *)
LEMMA ElemsOfFacts ==
  ASSUME NEW p \in Pages, NEW c \in Classes
  PROVE  /\ \A e \in ElemsOf(p, c) : e \in Elems /\ PageOf(e) = p
         /\ <<p, 0>> \in ElemsOf(p, c)
         /\ IsFiniteSet(ElemsOf(p, c))
         /\ Cardinality(ElemsOf(p, c)) = PerPage[c]
  <1> DEFINE n == PerPage[c]
             S == 0 .. n - 1
             f == [i \in S |-> <<p, i>>]
  <1>1. n \in Nat \ {0}
    BY ConstantsAssumption
  <1>2. \A e \in ElemsOf(p, c) : e \in Elems /\ PageOf(e) = p
    <2>1. ElemsOf(p, c) \in {ElemsOf(q, d) : q \in Pages, d \in Classes}
      OBVIOUS
    <2>2. \A e \in ElemsOf(p, c) : e \in Elems
      BY <2>1 DEF Elems
    <2>3. \A e \in ElemsOf(p, c) : PageOf(e) = p
      BY DEF ElemsOf, PageOf
    <2>4. QED
      BY <2>2, <2>3
  <1>3. <<p, 0>> \in ElemsOf(p, c)
    BY <1>1 DEF ElemsOf
  <1>4. f \in Bijection(S, ElemsOf(p, c))
    BY DEF Bijection, Injection, Surjection, IsInjective, ElemsOf
  <1>5. IsFiniteSet(S) /\ Cardinality(S) = n
    <2>1. 0 \in Int /\ n - 1 \in Int /\ ~(0 > n - 1) /\ n - 1 - 0 + 1 = n
      BY <1>1
    <2> HIDE DEF n
    <2>2. QED
      BY <2>1, FS_Interval
  <1>6. IsFiniteSet(ElemsOf(p, c)) /\ Cardinality(ElemsOf(p, c)) = n
    BY <1>4, <1>5, FS_Bijection DEF ExistsBijection
  <1>7. QED
    BY <1>2, <1>3, <1>6

(* The elements of all pages.                                              *)
LEMMA ElemsFacts ==
  /\ \A e \in Elems : PageOf(e) \in Pages
  /\ IsFiniteSet(Elems)
  <1>1. \A e \in Elems : PageOf(e) \in Pages
    BY DEF Elems, ElemsOf, PageOf
  <1> DEFINE PC == Pages \X Classes
             F == {ElemsOf(p, c) : p \in Pages, c \in Classes}
             g == [x \in PC |-> ElemsOf(x[1], x[2])]
  <1>2. IsFiniteSet(PC)
    <2>1. IsFiniteSet(Classes)
      BY ConstantsAssumption, FS_Interval DEF Classes
    <2>2. QED
      BY <2>1, FS_Product, ConstantsAssumption
  <1>3. g \in Surjection(PC, F)
    <2>1. \A x \in PC : x[1] \in Pages /\ x[2] \in Classes
      OBVIOUS
    <2>2. g \in [PC -> F]
      BY <2>1
    <2>3. \A y \in F : \E x \in PC : g[x] = y
      <3> SUFFICES ASSUME NEW y \in F
                   PROVE  \E x \in PC : g[x] = y
        OBVIOUS
      <3>1. PICK p \in Pages, c \in Classes : y = ElemsOf(p, c)
        OBVIOUS
      <3>2. <<p, c>> \in PC /\ g[<<p, c>>] = y
        BY <3>1
      <3>3. QED
        BY <3>2
    <2>4. QED
      BY <2>2, <2>3 DEF Surjection
  <1>4. IsFiniteSet(F)
    BY <1>2, <1>3, FS_Surjection
  <1>5. \A T \in F : IsFiniteSet(T)
    <2> SUFFICES ASSUME NEW T \in F PROVE IsFiniteSet(T)
      OBVIOUS
    <2>1. PICK p \in Pages, c \in Classes : T = ElemsOf(p, c)
      OBVIOUS
    <2> HIDE DEF F
    <2>2. QED
      BY <2>1, ElemsOfFacts
  <1>6. IsFiniteSet(UNION F)
    BY <1>4, <1>5, FS_UNION
  <1>7. QED
    BY <1>1, <1>6 DEF Elems

(* Who has an element that is out.                                         *)
LEMMA OutMembers ==
  \A e : e \in Out <=> \/ \E ec \in owned : e = ec[1]
                       \/ \E t \in Threads : Freeing(t) /\ e = elem[t]
  BY DEF Out, Freeing

(* What is out are elements.                                               *)
LEMMA OutElems ==
  ASSUME TypeOK
  PROVE  Out \subseteq Elems
  BY DEF Out, TypeOK

(* A page in use names a list.                                             *)
LEMMA PageList ==
  ASSUME TypeOK, NEW p \in Pages
  PROVE  /\ meta[p] \in Nat
         /\ pcpu[p] \in Cpus
         /\ meta[p] # 0 => meta[p] - 1 \in Classes
  <1>1. meta[p] \in 0 .. NClasses /\ pcpu[p] \in Cpus
    BY DEF TypeOK
  <1>2. QED
    BY <1>1, ConstantsAssumption DEF Classes

(* Counting a set of elements that gains one.                              *)
LEMMA CountAdd ==
  ASSUME NEW S \in SUBSET Elems, NEW e \in Elems, e \notin S
  PROVE  /\ Cardinality(S) \in Nat
         /\ Cardinality(S \cup {e}) = Cardinality(S) + 1
  BY ElemsFacts, FS_Subset, FS_CardinalityType, FS_AddElement

(* The same for an element that leaves a set.                              *)
LEMMA CountRemove ==
  ASSUME NEW S \in SUBSET Elems, NEW e \in S
  PROVE  /\ Cardinality(S) \in Nat \ {0}
         /\ Cardinality(S \ {e}) = Cardinality(S) - 1
  <1>1. IsFiniteSet(S)
    BY ElemsFacts, FS_Subset
  <1>2. Cardinality(S) \in Nat /\ Cardinality(S) # 0
    BY <1>1, FS_CardinalityType, FS_EmptySet
  <1>3. QED
    BY <1>1, <1>2, FS_RemoveElement

(* A set counts zero when it is empty.                                     *)
LEMMA CountEmpty ==
  ASSUME NEW S \in SUBSET Elems
  PROVE  /\ Cardinality(S) \in Nat
         /\ Cardinality(S) = 0 <=> S = {}
  BY ElemsFacts, FS_Subset, FS_CardinalityType, FS_EmptySet
-----------------------------------------------------------------------------
(* Steps that leave the memory and the set of elements out alone.          *)
LEMMA MemSame ==
  ASSUME MemInv, UNCHANGED <<up, memVars>>, Out' = Out
  PROVE  MemInv'
  BY DEF MemInv, memVars, ListsRight, OutRight, FreeNotOut, PagesWhole, CountsExact

(* _slab_alloc_elem on a list that is not empty.                           *)
LEMMA MemTake ==
  ASSUME TypeOK, MemInv, up,
         NEW k \in Cpus, NEW c \in Classes, NEW e \in list[k][c],
         TakeElem(k, c, e, list, nfree, uc),
         UNCHANGED <<up, pool, meta, pcpu>>,
         Out' = Out \cup {e}
  PROVE  MemInv'
  <1> USE DEF MemInv
  <1>a. e \in Elems
    BY DEF TypeOK
  <1>1. /\ e \in Elems
        /\ e \notin Out
        /\ PageOf(e) \in Pages
        /\ meta[PageOf(e)] = c + 1
        /\ pcpu[PageOf(e)] = k
        /\ e \in ElemsOf(PageOf(e), c)
        /\ c \in Nat
    BY <1>a, ElemsFacts DEF ListsRight, FreeNotOut, Classes
  <1>2. \A l \in Cpus, d \in Classes :
          IF l = k /\ d = c
          THEN /\ list'[l][d] = list[k][c] \ {e}
               /\ nfree'[l][d] = nfree[k][c] - 1
               /\ nused'[l][d] = nused[k][c] + 1
          ELSE /\ list'[l][d] = list[l][d]
               /\ nfree'[l][d] = nfree[l][d]
               /\ nused'[l][d] = nused[l][d]
    BY DEF TakeElem, TypeOK
  <1>3. \A p \in Pages :
          uc'[p] = IF p = PageOf(e) THEN uc[p] + 1 ELSE uc[p]
    BY <1>1 DEF TakeElem, TypeOK
  <1>4. Out \subseteq Elems
    BY OutElems
  <1>5. ListsRight'
    BY <1>2 DEF ListsRight
  <1>6. OutRight'
    BY <1>1 DEF OutRight
  <1>7. FreeNotOut'
    <2> SUFFICES ASSUME NEW l \in Cpus, NEW d \in Classes, NEW x \in list'[l][d]
                 PROVE  x \notin Out'
      BY DEF FreeNotOut
    <2>1. x \in list[l][d]
      BY <1>2
    <2>2. x # e
      BY <1>1, <1>2, <2>1 DEF ListsRight, Classes
    <2>3. QED
      BY <2>1, <2>2 DEF FreeNotOut
  <1>8. PagesWhole'
    <2> SUFFICES ASSUME NEW p \in Pages
                 PROVE  IF meta[p] = 0
                        THEN p \in pool /\ \A x \in Out' : PageOf(x) # p
                        ELSE /\ p \notin pool
                             /\ \A x \in ElemsOf(p, meta[p] - 1) :
                                  x \in list'[pcpu[p]][meta[p] - 1] <=> x \notin Out'
      BY DEF PagesWhole
    <2>1. CASE meta[p] = 0
      BY <1>1, <2>1 DEF PagesWhole
    <2>2. CASE meta[p] # 0
      <3>1. pcpu[p] \in Cpus /\ meta[p] - 1 \in Classes
        BY <2>2, PageList
      <3>2. ASSUME NEW x \in ElemsOf(p, meta[p] - 1)
            PROVE  x \in list'[pcpu[p]][meta[p] - 1] <=> x \notin Out'
        <4>1. PageOf(x) = p
          BY <3>1, ElemsOfFacts
        <4>2. x = e => pcpu[p] = k /\ meta[p] - 1 = c
          BY <1>1, <4>1
        <4>3. x \in list[pcpu[p]][meta[p] - 1] <=> x \notin Out
          BY <2>2 DEF PagesWhole
        <4>4. x \in list'[pcpu[p]][meta[p] - 1]
                <=> x \in list[pcpu[p]][meta[p] - 1] /\ x # e
          BY <1>2, <3>1, <4>2
        <4>5. QED
          BY <4>3, <4>4
      <3>3. QED
        BY <2>2, <3>2 DEF PagesWhole
    <2>3. QED
      BY <2>1, <2>2
  <1>9. CountsExact'
    <2>1. ASSUME NEW p \in Pages
          PROVE  uc'[p] = Cardinality({x \in Out' : PageOf(x) = p})
      <3> DEFINE U == {x \in Out : PageOf(x) = p}
      <3>1. uc[p] = Cardinality(U)
        BY DEF CountsExact
      <3>2. {x \in Out' : PageOf(x) = p}
              = IF p = PageOf(e) THEN U \cup {e} ELSE U
        BY <1>1
      <3>3. U \subseteq Elems /\ e \notin U
        BY <1>1, <1>4
      <3>4. Cardinality(U \cup {e}) = Cardinality(U) + 1
        BY <1>1, <3>3, CountAdd
      <3>5. QED
        BY <1>3, <3>1, <3>2, <3>4
    <2>2. ASSUME NEW l \in Cpus, NEW d \in Classes
          PROVE  nfree'[l][d] = Cardinality(list'[l][d])
      <3>1. list[k][c] \subseteq Elems
        BY DEF TypeOK
      <3>2. Cardinality(list[k][c] \ {e}) = Cardinality(list[k][c]) - 1
        BY <3>1, CountRemove
      <3>3. nfree[l][d] = Cardinality(list[l][d])
        BY DEF CountsExact
      <3>4. QED
        BY <1>2, <3>2, <3>3
    <2>3. ASSUME NEW l \in Cpus, NEW d \in Classes
          PROVE  nused'[l][d] =
                   Cardinality({x \in Out' : pcpu[PageOf(x)] = l
                                             /\ meta[PageOf(x)] = d + 1})
      <3> DEFINE U == {x \in Out : pcpu[PageOf(x)] = l /\ meta[PageOf(x)] = d + 1}
      <3>1. nused[l][d] = Cardinality(U)
        BY DEF CountsExact
      <3>2. {x \in Out' : pcpu[PageOf(x)] = l /\ meta[PageOf(x)] = d + 1}
              = IF l = k /\ d = c THEN U \cup {e} ELSE U
        BY <1>1 DEF Classes
      <3>3. U \subseteq Elems /\ e \notin U
        BY <1>1, <1>4
      <3>4. Cardinality(U \cup {e}) = Cardinality(U) + 1
        BY <1>1, <3>3, CountAdd
      <3>5. QED
        BY <1>2, <3>1, <3>2, <3>4
    <2>4. QED
      BY <2>1, <2>2, <2>3 DEF CountsExact
  <1>10. QED
    BY <1>5, <1>6, <1>7, <1>8, <1>9

(* _slab_increase, and the element it was called for.                      *)
LEMMA MemGrow ==
  ASSUME TypeOK, MemInv, up,
         NEW k \in Cpus, NEW c \in Classes, nfree[k][c] = 0,
         NEW p \in pool, NEW e \in list[k][c] \cup ElemsOf(p, c),
         pool' = pool \ {p},
         meta' = [meta EXCEPT ![p] = c + 1],
         pcpu' = [pcpu EXCEPT ![p] = k],
         TakeElem(k, c, e,
                  [list EXCEPT ![k][c] = @ \cup ElemsOf(p, c)],
                  [nfree EXCEPT ![k][c] = @ + PerPage[c]],
                  [uc EXCEPT ![p] = 0]),
         up' = up,
         Out' = Out \cup {e}
  PROVE  MemInv'
  <1> USE DEF MemInv
  <1>1. /\ p \in Pages
        /\ meta[p] = 0
        /\ \A x \in Out : PageOf(x) # p
    BY DEF TypeOK, PagesWhole
  <1>2. list[k][c] = {}
    <2>1. list[k][c] \subseteq Elems
      BY DEF TypeOK
    <2>2. Cardinality(list[k][c]) = 0
      BY DEF CountsExact
    <2>3. QED
      BY <2>1, <2>2, CountEmpty
  <1>3. /\ e \in ElemsOf(p, c)
        /\ e \in Elems
        /\ PageOf(e) = p
        /\ e \notin Out
        /\ c \in Nat
    <2>1. e \in ElemsOf(p, c) /\ c \in Nat
      BY <1>2 DEF Classes
    <2>2. e \in Elems /\ PageOf(e) = p
      BY <1>1, <2>1, ElemsOfFacts
    <2>3. QED
      BY <1>1, <2>1, <2>2
  <1>a. \A x \in ElemsOf(p, c) : PageOf(x) = p
    BY <1>1, ElemsOfFacts
  <1>4. \A l \in Cpus, d \in Classes :
          IF l = k /\ d = c
          THEN /\ list'[l][d] = ElemsOf(p, c) \ {e}
               /\ nfree'[l][d] = PerPage[c] - 1
               /\ nused'[l][d] = nused[k][c] + 1
          ELSE /\ list'[l][d] = list[l][d]
               /\ nfree'[l][d] = nfree[l][d]
               /\ nused'[l][d] = nused[l][d]
    <2>1. PerPage[c] \in Nat
      BY ConstantsAssumption
    <2>2. QED
      BY <1>2, <2>1 DEF TakeElem, TypeOK
  <1>5. \A q \in Pages : /\ uc'[q] = IF q = p THEN 1 ELSE uc[q]
                         /\ meta'[q] = IF q = p THEN c + 1 ELSE meta[q]
                         /\ pcpu'[q] = IF q = p THEN k ELSE pcpu[q]
    BY <1>1, <1>3 DEF TakeElem, TypeOK
  <1>6. \A x \in Out : x \in Elems /\ PageOf(x) \in Pages /\ PageOf(x) # p
    BY <1>1, OutElems, ElemsFacts
  <1>7. \A l \in Cpus, d \in Classes : \A x \in list[l][d] :
          x \in Elems /\ PageOf(x) \in Pages /\ PageOf(x) # p
    <2> SUFFICES ASSUME NEW l \in Cpus, NEW d \in Classes, NEW x \in list[l][d]
                 PROVE  x \in Elems /\ PageOf(x) \in Pages /\ PageOf(x) # p
      OBVIOUS
    <2>1. x \in Elems
      BY DEF TypeOK
    <2>2. meta[PageOf(x)] # 0
      BY DEF ListsRight, Classes
    <2>3. QED
      BY <1>1, <2>1, <2>2, ElemsFacts
  <1>8. ListsRight'
    <2> SUFFICES ASSUME NEW l \in Cpus, NEW d \in Classes, NEW x \in list'[l][d]
                 PROVE  /\ meta'[PageOf(x)] = d + 1
                        /\ pcpu'[PageOf(x)] = l
                        /\ x \in ElemsOf(PageOf(x), d)
      BY DEF ListsRight
    <2>1. CASE l = k /\ d = c
      <3>1. x \in ElemsOf(p, c) /\ PageOf(x) = p
        BY <1>a, <1>4, <2>1
      <3>2. QED
        BY <1>1, <1>5, <2>1, <3>1
    <2>2. CASE ~(l = k /\ d = c)
      <3>1. x \in list[l][d]
        BY <1>4, <2>2
      <3>2. QED
        BY <1>5, <1>7, <3>1 DEF ListsRight
    <2>3. QED
      BY <2>1, <2>2
  <1>9. OutRight'
    <2> SUFFICES ASSUME NEW x \in Out'
                 PROVE  /\ meta'[PageOf(x)] # 0
                        /\ x \in ElemsOf(PageOf(x), meta'[PageOf(x)] - 1)
      BY DEF OutRight
    <2>1. CASE x = e
      <3>1. meta'[PageOf(x)] = c + 1 /\ c + 1 - 1 = c /\ c + 1 # 0
        BY <1>1, <1>3, <1>5, <2>1
      <3>2. QED
        BY <1>3, <2>1, <3>1
    <2>2. CASE x \in Out
      BY <1>5, <1>6, <2>2 DEF OutRight
    <2>3. QED
      BY <2>1, <2>2
  <1>10. FreeNotOut'
    <2> SUFFICES ASSUME NEW l \in Cpus, NEW d \in Classes, NEW x \in list'[l][d]
                 PROVE  x \notin Out'
      BY DEF FreeNotOut
    <2>1. CASE l = k /\ d = c
      <3>1. x \in ElemsOf(p, c) /\ PageOf(x) = p /\ x # e
        BY <1>a, <1>4, <2>1
      <3>2. QED
        BY <1>6, <3>1
    <2>2. CASE ~(l = k /\ d = c)
      BY <1>3, <1>4, <1>7, <2>2 DEF FreeNotOut
    <2>3. QED
      BY <2>1, <2>2
  <1>11. PagesWhole'
    <2> SUFFICES ASSUME NEW q \in Pages
                 PROVE  IF meta'[q] = 0
                        THEN q \in pool' /\ \A x \in Out' : PageOf(x) # q
                        ELSE /\ q \notin pool'
                             /\ \A x \in ElemsOf(q, meta'[q] - 1) :
                                  x \in list'[pcpu'[q]][meta'[q] - 1] <=> x \notin Out'
      BY DEF PagesWhole
    <2>1. CASE q = p
      <3>1. meta'[q] = c + 1 /\ c + 1 # 0 /\ meta'[q] - 1 = c /\ pcpu'[q] = k
        BY <1>3, <1>5, <2>1
      <3>2. \A x \in ElemsOf(p, c) : x \notin Out
        BY <1>1, ElemsOfFacts
      <3>3. QED
        BY <1>3, <1>4, <2>1, <3>1, <3>2
    <2>2. CASE q # p /\ meta[q] = 0
      BY <1>3, <1>5, <2>2 DEF PagesWhole
    <2>3. CASE q # p /\ meta[q] # 0
      <3>1. meta'[q] = meta[q] /\ pcpu'[q] = pcpu[q] /\ q \notin pool'
        BY <1>5, <2>3 DEF PagesWhole
      <3>2. pcpu[q] \in Cpus /\ meta[q] - 1 \in Classes
        BY <2>3, PageList
      <3>3. ASSUME NEW x \in ElemsOf(q, meta[q] - 1)
            PROVE  x \in list'[pcpu[q]][meta[q] - 1] <=> x \notin Out'
        <4>a. PageOf(x) = q
          BY <3>2, ElemsOfFacts
        <4>1. PageOf(x) = q /\ x # e /\ x \notin ElemsOf(p, c)
          BY <1>a, <1>3, <2>3, <4>a
        <4>2. x \in list'[pcpu[q]][meta[q] - 1] <=> x \in list[pcpu[q]][meta[q] - 1]
          BY <1>2, <1>4, <3>2, <4>1
        <4>3. QED
          BY <2>3, <4>1, <4>2 DEF PagesWhole
      <3>4. QED
        BY <2>3, <3>1, <3>3
    <2>4. QED
      BY <2>1, <2>2, <2>3
  <1>12. CountsExact'
    <2>1. ASSUME NEW q \in Pages
          PROVE  uc'[q] = Cardinality({x \in Out' : PageOf(x) = q})
      <3>1. CASE q = p
        <4>1. {x \in Out' : PageOf(x) = q} = {e}
          BY <1>1, <1>3, <3>1
        <4>2. Cardinality({e}) = 1
          BY FS_Singleton
        <4>3. QED
          BY <1>5, <3>1, <4>1, <4>2
      <3>2. CASE q # p
        <4>1. {x \in Out' : PageOf(x) = q} = {x \in Out : PageOf(x) = q}
          BY <1>3, <3>2
        <4>2. QED
          BY <1>5, <3>2, <4>1 DEF CountsExact
      <3>3. QED
        BY <3>1, <3>2
    <2>2. ASSUME NEW l \in Cpus, NEW d \in Classes
          PROVE  nfree'[l][d] = Cardinality(list'[l][d])
      <3>1. ElemsOf(p, c) \subseteq Elems /\ Cardinality(ElemsOf(p, c)) = PerPage[c]
        BY <1>1, ElemsOfFacts
      <3>2. Cardinality(ElemsOf(p, c) \ {e}) = PerPage[c] - 1
        BY <1>3, <3>1, CountRemove
      <3>3. nfree[l][d] = Cardinality(list[l][d])
        BY DEF CountsExact
      <3>4. QED
        BY <1>4, <3>2, <3>3
    <2>3. ASSUME NEW l \in Cpus, NEW d \in Classes
          PROVE  nused'[l][d] =
                   Cardinality({x \in Out' : pcpu'[PageOf(x)] = l
                                             /\ meta'[PageOf(x)] = d + 1})
      <3> DEFINE U == {x \in Out : pcpu[PageOf(x)] = l /\ meta[PageOf(x)] = d + 1}
                 V == {x \in Out' : pcpu'[PageOf(x)] = l /\ meta'[PageOf(x)] = d + 1}
      <3>1. nused[l][d] = Cardinality(U)
        BY DEF CountsExact
      <3>2. V = IF l = k /\ d = c THEN U \cup {e} ELSE U
        <4>1. \A x \in Out : pcpu'[PageOf(x)] = pcpu[PageOf(x)]
                             /\ meta'[PageOf(x)] = meta[PageOf(x)]
          BY <1>5, <1>6
        <4>2. pcpu'[PageOf(e)] = k /\ meta'[PageOf(e)] = c + 1
          BY <1>1, <1>3, <1>5
        <4>3. d + 1 = c + 1 <=> d = c
          BY DEF Classes
        <4>4. QED
          BY <4>1, <4>2, <4>3
      <3>3. U \subseteq Elems /\ e \notin U
        BY <1>3, <1>6
      <3>4. Cardinality(U \cup {e}) = Cardinality(U) + 1
        BY <1>3, <3>3, CountAdd
      <3>5. nused'[l][d] = Cardinality(V)
        <4> HIDE DEF U, V
        <4>1. CASE l = k /\ d = c
          BY <1>4, <3>1, <3>2, <3>4, <4>1
        <4>2. CASE ~(l = k /\ d = c)
          BY <1>4, <3>1, <3>2, <4>2
        <4>3. QED
          BY <4>1, <4>2
      <3>6. QED
        BY <3>5
    <2>4. QED
      BY <2>1, <2>2, <2>3 DEF CountsExact
  <1>13. QED
    BY <1>8, <1>9, <1>10, <1>11, <1>12

(* An element that is out, seen from its page and its list.                *)
LEMMA OutElem ==
  ASSUME TypeOK, MemInv, up, NEW e \in Out, NEW p, p = PageOf(e)
  PROVE  /\ e \in Elems
         /\ p \in Pages
         /\ pcpu[p] \in Cpus
         /\ meta[p] - 1 \in Classes
         /\ meta[p] \in Nat \ {0}
         /\ e \in ElemsOf(p, meta[p] - 1)
         /\ \A l \in Cpus, d \in Classes : e \notin list[l][d]
         /\ uc[p] \in Nat \ {0}
         /\ nused[pcpu[p]][meta[p] - 1] \in Nat \ {0}
  <1> USE DEF MemInv
  <1>1. e \in Elems /\ p \in Pages
    BY OutElems, ElemsFacts
  <1>2. meta[p] # 0 /\ e \in ElemsOf(p, meta[p] - 1)
    BY DEF OutRight
  <1>3. pcpu[p] \in Cpus /\ meta[p] - 1 \in Classes /\ meta[p] \in Nat
    BY <1>1, <1>2, PageList
  <1>4. \A l \in Cpus, d \in Classes : e \notin list[l][d]
    BY DEF FreeNotOut
  <1>5. uc[p] \in Nat \ {0}
    <2> DEFINE U == {x \in Out : PageOf(x) = p}
    <2>1. uc[p] = Cardinality(U)
      BY <1>1 DEF CountsExact
    <2>2. U \subseteq Elems /\ e \in U
      BY OutElems
    <2>3. QED
      BY <2>1, <2>2, CountRemove
  <1>6. nused[pcpu[p]][meta[p] - 1] \in Nat \ {0}
    <2> DEFINE l == pcpu[p]
               d == meta[p] - 1
               U == {x \in Out : pcpu[PageOf(x)] = l /\ meta[PageOf(x)] = d + 1}
    <2>1. nused[l][d] = Cardinality(U)
      BY <1>3 DEF CountsExact
    <2>2. d + 1 = meta[p]
      BY <1>3
    <2>3. U \subseteq Elems /\ e \in U
      BY <2>2, OutElems
    <2>4. QED
      BY <2>1, <2>3, CountRemove
  <1>7. QED
    BY <1>1, <1>2, <1>3, <1>4, <1>5, <1>6

(* __slab_free when the page stays: an element goes back on its list.      *)
LEMMA MemKeep ==
  ASSUME TypeOK, MemInv, up,
         NEW e \in Out, NEW p, NEW k, NEW c,
         p = PageOf(e), k = pcpu[p], c = meta[p] - 1,
         list' = [list EXCEPT ![k][c] = @ \cup {e}],
         nfree' = [nfree EXCEPT ![k][c] = @ + 1],
         nused' = [nused EXCEPT ![k][c] = @ - 1],
         uc' = [uc EXCEPT ![p] = @ - 1],
         UNCHANGED <<up, pool, meta, pcpu>>,
         Out' = Out \ {e}
  PROVE  MemInv'
  <1> USE DEF MemInv
  <1>1. /\ e \in Elems
        /\ p \in Pages
        /\ k \in Cpus
        /\ c \in Classes
        /\ meta[p] = c + 1 /\ c \in Nat
        /\ e \in ElemsOf(p, c)
    <2>1. /\ e \in Elems /\ p \in Pages /\ k \in Cpus /\ c \in Classes
          /\ meta[p] \in Nat \ {0} /\ e \in ElemsOf(p, c)
      BY OutElem
    <2>2. QED
      BY <2>1 DEF Classes
  <1>2. \A l \in Cpus, d \in Classes :
          IF l = k /\ d = c
          THEN /\ list'[l][d] = list[k][c] \cup {e}
               /\ nfree'[l][d] = nfree[k][c] + 1
               /\ nused'[l][d] = nused[k][c] - 1
          ELSE /\ list'[l][d] = list[l][d]
               /\ nfree'[l][d] = nfree[l][d]
               /\ nused'[l][d] = nused[l][d]
    BY <1>1 DEF TypeOK
  <1>3. \A q \in Pages : uc'[q] = IF q = p THEN uc[q] - 1 ELSE uc[q]
    BY <1>1 DEF TypeOK
  <1>4. Out \subseteq Elems
    BY OutElems
  <1>5. ListsRight'
    <2> SUFFICES ASSUME NEW l \in Cpus, NEW d \in Classes, NEW x \in list'[l][d]
                 PROVE  /\ meta[PageOf(x)] = d + 1
                        /\ pcpu[PageOf(x)] = l
                        /\ x \in ElemsOf(PageOf(x), d)
      BY DEF ListsRight
    <2>1. CASE x \in list[l][d]
      BY <2>1 DEF ListsRight
    <2>2. CASE x \notin list[l][d]
      <3>1. x = e /\ l = k /\ d = c
        BY <1>2, <2>2
      <3>2. QED
        BY <1>1, <3>1
    <2>3. QED
      BY <2>1, <2>2
  <1>6. OutRight'
    BY DEF OutRight
  <1>7. FreeNotOut'
    BY <1>2 DEF FreeNotOut
  <1>8. PagesWhole'
    <2> SUFFICES ASSUME NEW q \in Pages
                 PROVE  IF meta[q] = 0
                        THEN q \in pool /\ \A x \in Out' : PageOf(x) # q
                        ELSE /\ q \notin pool
                             /\ \A x \in ElemsOf(q, meta[q] - 1) :
                                  x \in list'[pcpu[q]][meta[q] - 1] <=> x \notin Out'
      BY DEF PagesWhole
    <2>1. CASE meta[q] = 0
      BY <2>1 DEF PagesWhole
    <2>2. CASE meta[q] # 0
      <3>1. pcpu[q] \in Cpus /\ meta[q] - 1 \in Classes
        BY <2>2, PageList
      <3>2. ASSUME NEW x \in ElemsOf(q, meta[q] - 1)
            PROVE  x \in list'[pcpu[q]][meta[q] - 1] <=> x \notin Out'
        <4>1. PageOf(x) = q
          BY <3>1, ElemsOfFacts
        <4>2. x = e => pcpu[q] = k /\ meta[q] - 1 = c
          BY <4>1
        <4>3. x \in list[pcpu[q]][meta[q] - 1] <=> x \notin Out
          BY <2>2 DEF PagesWhole
        <4>4. x \in list'[pcpu[q]][meta[q] - 1]
                <=> x \in list[pcpu[q]][meta[q] - 1] \/ x = e
          BY <1>2, <3>1, <4>2
        <4>5. QED
          BY <4>3, <4>4
      <3>3. QED
        BY <2>2, <3>2 DEF PagesWhole
    <2>3. QED
      BY <2>1, <2>2
  <1>9. CountsExact'
    <2>1. ASSUME NEW q \in Pages
          PROVE  uc'[q] = Cardinality({x \in Out' : PageOf(x) = q})
      <3> DEFINE U == {x \in Out : PageOf(x) = q}
      <3>1. uc[q] = Cardinality(U)
        BY DEF CountsExact
      <3>2. U \subseteq Elems
        BY <1>4
      <3>3. CASE q = p
        <4>1. {x \in Out' : PageOf(x) = q} = U \ {e} /\ e \in U
          BY <3>3
        <4>2. Cardinality(U \ {e}) = Cardinality(U) - 1
          BY <3>2, <4>1, CountRemove
        <4>3. QED
          BY <1>3, <3>1, <3>3, <4>1, <4>2
      <3>4. CASE q # p
        <4>1. {x \in Out' : PageOf(x) = q} = U
          BY <3>4
        <4>2. QED
          BY <1>3, <3>1, <3>4, <4>1
      <3>5. QED
        BY <3>3, <3>4
    <2>2. ASSUME NEW l \in Cpus, NEW d \in Classes
          PROVE  nfree'[l][d] = Cardinality(list'[l][d])
      <3>1. list[k][c] \subseteq Elems /\ e \notin list[k][c]
        BY <1>1 DEF TypeOK, FreeNotOut
      <3>2. Cardinality(list[k][c] \cup {e}) = Cardinality(list[k][c]) + 1
        BY <1>1, <3>1, CountAdd
      <3>3. nfree[l][d] = Cardinality(list[l][d])
        BY DEF CountsExact
      <3>4. CASE l = k /\ d = c
        <4>1. list'[l][d] = list[k][c] \cup {e} /\ nfree'[l][d] = nfree[k][c] + 1
          BY <1>2, <3>4
        <4>2. QED
          BY <3>2, <3>3, <3>4, <4>1
      <3>5. CASE ~(l = k /\ d = c)
        BY <1>2, <3>3, <3>5
      <3>6. QED
        BY <3>4, <3>5
    <2>3. ASSUME NEW l \in Cpus, NEW d \in Classes
          PROVE  nused'[l][d] =
                   Cardinality({x \in Out' : pcpu'[PageOf(x)] = l
                                             /\ meta'[PageOf(x)] = d + 1})
      <3> DEFINE U == {x \in Out : pcpu[PageOf(x)] = l /\ meta[PageOf(x)] = d + 1}
                 V == {x \in Out' : pcpu'[PageOf(x)] = l /\ meta'[PageOf(x)] = d + 1}
      <3>1. nused[l][d] = Cardinality(U)
        BY DEF CountsExact
      <3>2. U \subseteq Elems
        BY <1>4
      <3>3. CASE l = k /\ d = c
        <4>1. V = U \ {e} /\ e \in U
          BY <1>1, <3>3
        <4>2. Cardinality(U \ {e}) = Cardinality(U) - 1
          BY <3>2, <4>1, CountRemove
        <4>3. QED
          BY <1>2, <3>1, <3>3, <4>1, <4>2
      <3>4. CASE ~(l = k /\ d = c)
        <4>1. e \notin U
          BY <1>1, <3>4 DEF Classes
        <4>2. V = U
          BY <4>1
        <4>3. nused'[l][d] = nused[l][d]
          BY <1>2, <3>4
        <4>4. QED
          BY <3>1, <4>2, <4>3
      <3>5. QED
        BY <3>3, <3>4
    <2>4. QED
      BY <2>1, <2>2, <2>3 DEF CountsExact
  <1>10. QED
    BY <1>5, <1>6, <1>7, <1>8, <1>9

(* __slab_free when the last element of a page comes back and the page     *)
(* goes (_slab_page_fini, pa_free).                                        *)
LEMMA MemBack ==
  ASSUME TypeOK, MemInv, up,
         NEW e \in Out, NEW p, NEW k, NEW c,
         p = PageOf(e), k = pcpu[p], c = meta[p] - 1, uc[p] - 1 = 0,
         list' = [list EXCEPT ![k][c] = (@ \cup {e}) \ ElemsOf(p, c)],
         nfree' = [nfree EXCEPT ![k][c] = @ + 1 - PerPage[c]],
         nused' = [nused EXCEPT ![k][c] = @ - 1],
         uc' = [uc EXCEPT ![p] = 0],
         meta' = [meta EXCEPT ![p] = 0],
         pcpu' = [pcpu EXCEPT ![p] = 0],
         pool' = pool \cup {p},
         up' = up,
         Out' = Out \ {e}
  PROVE  /\ MemInv'
         /\ nfree'[k][c] \in Nat
         /\ \A x \in Out' : PageOf(x) # p
  <1> USE DEF MemInv
  <1>1. /\ e \in Elems
        /\ p \in Pages
        /\ k \in Cpus
        /\ c \in Classes
        /\ meta[p] = c + 1 /\ c \in Nat
        /\ e \in ElemsOf(p, c)
        /\ e \notin list[k][c]
        /\ PerPage[c] \in Nat
        /\ uc[p] = 1
    <2>1. /\ e \in Elems /\ p \in Pages /\ k \in Cpus /\ c \in Classes
          /\ meta[p] \in Nat \ {0} /\ e \in ElemsOf(p, c) /\ e \notin list[k][c]
          /\ uc[p] \in Nat
      BY OutElem
    <2>2. QED
      BY <2>1, ConstantsAssumption DEF Classes
  <1>2. Out \subseteq Elems
    BY OutElems
  <1>3. {x \in Out : PageOf(x) = p} = {e}
    <2> DEFINE U == {x \in Out : PageOf(x) = p}
    <2>1. U \subseteq Elems /\ e \in U
      BY <1>2
    <2>2. Cardinality(U) = 1
      BY <1>1 DEF CountsExact
    <2>3. IsFiniteSet(U)
      BY <2>1, ElemsFacts, FS_Subset
    <2> HIDE DEF U
    <2>4. PICK y : U = {y}
      BY <2>2, <2>3, FS_Singleton
    <2>5. QED
      BY <2>1, <2>4 DEF U
  <1>4. \A x \in ElemsOf(p, c) : x \in Elems /\ PageOf(x) = p /\ (x = e \/ x \in list[k][c])
    <2>a. \A x \in ElemsOf(p, c) : x \in Elems /\ PageOf(x) = p
      BY <1>1, ElemsOfFacts
    <2> SUFFICES ASSUME NEW x \in ElemsOf(p, c)
                 PROVE  x \in Elems /\ PageOf(x) = p /\ (x = e \/ x \in list[k][c])
      OBVIOUS
    <2>1. x \in Elems /\ PageOf(x) = p
      BY <2>a
    <2>2. x # e => x \notin Out
      BY <1>3, <2>1
    <2>3. x \in list[k][c] <=> x \notin Out
      BY <1>1 DEF PagesWhole
    <2>4. QED
      BY <2>1, <2>2, <2>3
  <1>5. \A x \in list[k][c] : PageOf(x) = p => x \in ElemsOf(p, c)
    BY <1>1 DEF ListsRight
  <1>6. \A l \in Cpus, d \in Classes :
          IF l = k /\ d = c
          THEN /\ list'[l][d] = {x \in list[k][c] : PageOf(x) # p}
               /\ nfree'[l][d] = nfree[k][c] + 1 - PerPage[c]
               /\ nused'[l][d] = nused[k][c] - 1
          ELSE /\ list'[l][d] = list[l][d]
               /\ nfree'[l][d] = nfree[l][d]
               /\ nused'[l][d] = nused[l][d]
    <2>1. (list[k][c] \cup {e}) \ ElemsOf(p, c) = {x \in list[k][c] : PageOf(x) # p}
      BY <1>1, <1>4, <1>5
    <2>2. QED
      BY <1>1, <2>1 DEF TypeOK
  <1>7. \A q \in Pages : /\ uc'[q] = IF q = p THEN 0 ELSE uc[q]
                         /\ meta'[q] = IF q = p THEN 0 ELSE meta[q]
                         /\ pcpu'[q] = IF q = p THEN 0 ELSE pcpu[q]
    BY <1>1 DEF TypeOK
  <1>8. \A x \in Out' : x \in Out /\ PageOf(x) \in Pages /\ PageOf(x) # p
    BY <1>2, <1>3, ElemsFacts
  <1>9. \A l \in Cpus, d \in Classes : \A x \in list'[l][d] :
          x \in list[l][d] /\ PageOf(x) \in Pages /\ PageOf(x) # p
    <2> SUFFICES ASSUME NEW l \in Cpus, NEW d \in Classes, NEW x \in list'[l][d]
                 PROVE  x \in list[l][d] /\ PageOf(x) \in Pages /\ PageOf(x) # p
      OBVIOUS
    <2>1. x \in list[l][d]
      BY <1>6
    <2>2. PageOf(x) \in Pages
      BY <2>1, ElemsFacts DEF TypeOK
    <2>3. meta[PageOf(x)] = d + 1 /\ pcpu[PageOf(x)] = l
      BY <2>1 DEF ListsRight
    <2>4. PageOf(x) = p => l = k /\ d = c
      BY <1>1, <2>3 DEF Classes
    <2>5. QED
      BY <1>6, <2>1, <2>2, <2>4
  <1>10. ListsRight'
    <2> SUFFICES ASSUME NEW l \in Cpus, NEW d \in Classes, NEW x \in list'[l][d]
                 PROVE  /\ meta'[PageOf(x)] = d + 1
                        /\ pcpu'[PageOf(x)] = l
                        /\ x \in ElemsOf(PageOf(x), d)
      BY DEF ListsRight
    <2>1. x \in list[l][d] /\ PageOf(x) \in Pages /\ PageOf(x) # p
      BY <1>9
    <2>2. QED
      BY <1>7, <2>1 DEF ListsRight
  <1>11. OutRight'
    BY <1>7, <1>8 DEF OutRight
  <1>12. FreeNotOut'
    BY <1>9 DEF FreeNotOut
  <1>13. PagesWhole'
    <2> SUFFICES ASSUME NEW q \in Pages
                 PROVE  IF meta'[q] = 0
                        THEN q \in pool' /\ \A x \in Out' : PageOf(x) # q
                        ELSE /\ q \notin pool'
                             /\ \A x \in ElemsOf(q, meta'[q] - 1) :
                                  x \in list'[pcpu'[q]][meta'[q] - 1] <=> x \notin Out'
      BY DEF PagesWhole
    <2>1. CASE q = p
      BY <1>7, <1>8, <2>1
    <2>2. CASE q # p /\ meta[q] = 0
      BY <1>7, <1>8, <2>2 DEF PagesWhole
    <2>3. CASE q # p /\ meta[q] # 0
      <3>1. meta'[q] = meta[q] /\ pcpu'[q] = pcpu[q] /\ q \notin pool'
        BY <1>7, <2>3 DEF PagesWhole
      <3>2. pcpu[q] \in Cpus /\ meta[q] - 1 \in Classes
        BY <2>3, PageList
      <3>3. ASSUME NEW x \in ElemsOf(q, meta[q] - 1)
            PROVE  x \in list'[pcpu[q]][meta[q] - 1] <=> x \notin Out'
        <4>1. PageOf(x) = q
          BY <3>2, ElemsOfFacts
        <4>2. x \in list'[pcpu[q]][meta[q] - 1] <=> x \in list[pcpu[q]][meta[q] - 1]
          BY <1>6, <2>3, <3>2, <4>1
        <4>3. QED
          BY <2>3, <4>1, <4>2 DEF PagesWhole
      <3>4. QED
        BY <2>3, <3>1, <3>3
    <2>4. QED
      BY <2>1, <2>2, <2>3
  <1>14. nfree'[k][c] = Cardinality(list'[k][c]) /\ nfree'[k][c] \in Nat
    <2> DEFINE E == ElemsOf(p, c)
               L == list[k][c] \cup {e}
    <2>1. list[k][c] \subseteq Elems /\ L \subseteq Elems
      BY <1>1 DEF TypeOK
    <2>2. Cardinality(L) = Cardinality(list[k][c]) + 1
      BY <1>1, <2>1, CountAdd
    <2>a. Cardinality(list[k][c]) \in Nat
      BY <2>1, CountEmpty
    <2>3. IsFiniteSet(L)
      BY <2>1, ElemsFacts, FS_Subset
    <2>4. L \cap E = E
      BY <1>4
    <2>5. Cardinality(L \ E) = Cardinality(L) - Cardinality(E)
      <3> HIDE DEF E, L
      <3>1. Cardinality(L \ E) = Cardinality(L) - Cardinality(L \cap E)
        BY <2>3, FS_Difference
      <3>2. QED
        BY <2>4, <3>1
    <2>6. Cardinality(E) = PerPage[c]
      BY <1>1, ElemsOfFacts
    <2>7. L \ E \subseteq Elems
      BY <2>1
    <2>8. Cardinality(L \ E) \in Nat
      BY <2>7, CountEmpty
    <2>9. list'[k][c] = L \ E
      BY <1>1 DEF TypeOK
    <2>10. nfree[k][c] = Cardinality(list[k][c])
      BY <1>1 DEF CountsExact
    <2>11. nfree'[k][c] = nfree[k][c] + 1 - PerPage[c]
      BY <1>1, <1>6
    <2> HIDE DEF E, L
    <2>12. nfree[k][c] + 1 = Cardinality(L)
      BY <2>2, <2>10
    <2>13. nfree'[k][c] = Cardinality(L) - PerPage[c]
      BY <1>1, <2>a, <2>10, <2>11, <2>12
    <2>14. nfree'[k][c] = Cardinality(L \ E)
      BY <2>5, <2>6, <2>13
    <2>15. QED
      BY <2>8, <2>9, <2>14
  <1>15. CountsExact'
    <2>1. ASSUME NEW q \in Pages
          PROVE  uc'[q] = Cardinality({x \in Out' : PageOf(x) = q})
      <3>1. CASE q = p
        <4>1. {x \in Out' : PageOf(x) = q} = {}
          BY <1>8, <3>1
        <4>2. QED
          BY <1>7, <3>1, <4>1, FS_EmptySet
      <3>2. CASE q # p
        <4>1. {x \in Out' : PageOf(x) = q} = {x \in Out : PageOf(x) = q}
          BY <3>2
        <4>2. QED
          BY <1>7, <3>2, <4>1 DEF CountsExact
      <3>3. QED
        BY <3>1, <3>2
    <2>2. ASSUME NEW l \in Cpus, NEW d \in Classes
          PROVE  nfree'[l][d] = Cardinality(list'[l][d])
      <3>1. CASE l = k /\ d = c
        BY <1>14, <3>1
      <3>2. CASE ~(l = k /\ d = c)
        <4>1. list'[l][d] = list[l][d] /\ nfree'[l][d] = nfree[l][d]
          BY <1>6, <3>2
        <4>2. QED
          BY <4>1 DEF CountsExact
      <3>3. QED
        BY <3>1, <3>2
    <2>3. ASSUME NEW l \in Cpus, NEW d \in Classes
          PROVE  nused'[l][d] =
                   Cardinality({x \in Out' : pcpu'[PageOf(x)] = l
                                             /\ meta'[PageOf(x)] = d + 1})
      <3> DEFINE U == {x \in Out : pcpu[PageOf(x)] = l /\ meta[PageOf(x)] = d + 1}
                 V == {x \in Out' : pcpu'[PageOf(x)] = l /\ meta'[PageOf(x)] = d + 1}
      <3>1. nused[l][d] = Cardinality(U)
        BY DEF CountsExact
      <3>2. U \subseteq Elems
        BY <1>2
      <3>3. V = U \ {e}
        <4>1. \A x \in Out' : pcpu'[PageOf(x)] = pcpu[PageOf(x)]
                              /\ meta'[PageOf(x)] = meta[PageOf(x)]
          BY <1>7, <1>8
        <4>2. QED
          BY <4>1
      <3>4. CASE l = k /\ d = c
        <4>1. e \in U
          BY <1>1, <3>4
        <4>2. Cardinality(U \ {e}) = Cardinality(U) - 1
          BY <3>2, <4>1, CountRemove
        <4>3. QED
          BY <1>6, <3>1, <3>3, <3>4, <4>2
      <3>5. CASE ~(l = k /\ d = c)
        <4>1. e \notin U
          BY <1>1, <3>5 DEF Classes
        <4>2. V = U
          BY <3>3, <4>1
        <4>3. nused'[l][d] = nused[l][d]
          BY <1>6, <3>5
        <4>4. QED
          BY <3>1, <4>2, <4>3
      <3>6. QED
        BY <3>4, <3>5
    <2>4. QED
      BY <2>1, <2>2, <2>3 DEF CountsExact
  <1>16. QED
    BY <1>8, <1>10, <1>11, <1>12, <1>13, <1>14, <1>15
-----------------------------------------------------------------------------
(* Typing an update of one list of one slab.                               *)
LEMMA ListUpdate ==
  ASSUME NEW S, NEW f \in [Cpus -> [Classes -> S]],
         NEW k \in Cpus, NEW c \in Classes, NEW v \in S
  PROVE  [f EXCEPT ![k][c] = v] \in [Cpus -> [Classes -> S]]
  OBVIOUS

(* _zus_gsa_sslab_at stays inside the table of slabs.                      *)
LEMMA CursorFacts ==
  ASSUME TypeOK, NEW t \in Threads
  PROVE  /\ Cursor(t) \in Cpus
         /\ req[t].c \in Classes
         /\ req[t].i = 0 => Cursor(t) = req[t].cpu
  <1>1. /\ req[t].c \in Classes
        /\ req[t].cpu \in 0 .. NSlabs - 1
        /\ req[t].i \in 0 .. NSlabs
    BY DEF TypeOK, Cpus
  <1>2. QED
    BY <1>1, ConstantsAssumption DEF Cursor, Cpus

(* A step of a thread that neither was freeing nor is, on memory that does *)
(* not change.                                                             *)
LEMMA WalkStep ==
  ASSUME IInv, NEW t \in Threads, ~Freeing(t), ~Freeing(t)',
         \A u \in Threads \ {t} : pc'[u] = pc[u] /\ req'[u] = req[u],
         UNCHANGED <<up, memVars, elem, owned>>
  PROVE  MemInv' /\ ClassKept' /\ CpuNotStale' /\ OneHolder' /\ FreeCursor'
  <1> USE DEF IInv
  <1>1. \A u \in Threads : /\ Freeing(u)' <=> Freeing(u)
                           /\ Freeing(u) => req'[u] = req[u]
    BY DEF Freeing
  <1>2. Out' = Out
    <2>1. \A x : x \in Out' <=> x \in Out
      BY <1>1, OutMembers DEF Out, Freeing
    <2>2. QED
      BY <2>1
  <1>3. MemInv'
    BY <1>2, MemSame
  <1>4. ClassKept'
    BY DEF ClassKept, memVars
  <1>5. CpuNotStale'
    BY <1>1 DEF CpuNotStale, memVars, Freeing, Cursor
  <1>6. OneHolder' /\ FreeCursor'
    BY <1>1 DEF OneHolder, FreeCursor
  <1>7. QED
    BY <1>3, <1>4, <1>5, <1>6

(* Taking, keeping and releasing the lock of a slab.                       *)
LEMMA LockStep ==
  ASSUME TypeOK, LockHeld, NEW t \in Threads,
         \A u \in Threads \ {t} : pc'[u] = pc[u] /\ req'[u] = req[u],
         \/ lock' = lock /\ pc'[t] \notin Locked
         \/ Acquire(t, Cursor(t)) /\ req' = req
         \/ pc[t] \in Locked /\ Release(Cursor(t)) /\ pc'[t] \notin Locked
  PROVE  LockHeld'
  <1>1. Cursor(t) \in Cpus
    BY CursorFacts
  <1>2. ASSUME NEW u \in Threads, u # t, pc'[u] \in Locked
        PROVE  lock'[Cursor(u)'] = u
    <2>1. Cursor(u)' = Cursor(u) /\ lock[Cursor(u)] = u /\ Cursor(u) \in Cpus
      BY <1>2, CursorFacts DEF LockHeld, Cursor
    <2>2. Cursor(u) # Cursor(t) \/ lock' = lock
      BY <1>2, <2>1, ConstantsAssumption DEF Acquire, LockHeld
    <2>3. QED
      BY <1>1, <2>1, <2>2 DEF Acquire, Release, TypeOK
  <1>3. pc'[t] \in Locked => lock'[Cursor(t)'] = t
    BY <1>1 DEF Acquire, Cursor, TypeOK
  <1>4. QED
    BY <1>2, <1>3 DEF LockHeld

(* zus_malloc up to the element, and its failure.                          *)
LEMMA WalkPreserves ==
  ASSUME IInv, NEW t \in Threads,
         \/ \E c \in Classes, k \in Cpus : Malloc(t, c, k)
         \/ TryLock(t)
         \/ TryFail(t)
         \/ LookEmpty(t)
         \/ LockOwn(t)
         \/ AllocFail(t)
  PROVE  IInv'
  <1> USE DEF IInv
  <1>1. Cursor(t) \in Cpus /\ req[t].c \in Classes
    BY CursorFacts
  <1>2. /\ up /\ up' = up
        /\ UNCHANGED <<memVars, elem, owned>>
        /\ \A u \in Threads \ {t} : pc'[u] = pc[u] /\ req'[u] = req[u]
        /\ ~Freeing(t) /\ ~Freeing(t)'
    BY DEF Malloc, TryLock, TryFail, LookEmpty, LockOwn, AllocFail, Goto, NextSlab,
           Freeing, Quiet, TypeOK
  <1>3. MemInv' /\ ClassKept' /\ CpuNotStale' /\ OneHolder' /\ FreeCursor'
    BY <1>2, WalkStep
  <1>4. TypeOK' /\ RoundBounded'
    <2>1. ASSUME NEW c \in Classes, NEW k \in Cpus, Malloc(t, c, k)
          PROVE  TypeOK' /\ RoundBounded'
      BY <2>1, ConstantsAssumption DEF Malloc, Goto, TypeOK, PCs, memVars, RoundBounded
    <2>2. CASE TryLock(t) \/ LockOwn(t)
      <3>1. TypeOK'
        <4>1. lock' \in [Cpus -> Threads \cup {NoThread}]
          BY <1>1, <2>2 DEF TryLock, LockOwn, Acquire, TypeOK
        <4>2. pc' \in [Threads -> PCs]
          BY <2>2 DEF TryLock, LockOwn, Goto, TypeOK, PCs
        <4>3. UNCHANGED <<up, memVars, req, elem, owned>>
          BY <2>2 DEF TryLock, LockOwn
        <4>4. QED
          BY <4>1, <4>2, <4>3 DEF TypeOK, memVars
      <3>2. RoundBounded'
        BY <2>2 DEF TryLock, LockOwn, Goto, TypeOK, RoundBounded
      <3>3. QED
        BY <3>1, <3>2
    <2>3. CASE TryFail(t) \/ LookEmpty(t)
      <3>1. req[t].i < NSlabs /\ req[t].i \in 0 .. NSlabs
        BY <2>3 DEF TryFail, LookEmpty, RoundBounded, TypeOK
      <3>2. /\ req' = [req EXCEPT ![t].i = @ + 1]
            /\ pc' = [pc EXCEPT ![t] = IF req[t].i + 1 < NSlabs THEN "try" ELSE "lock"]
            /\ UNCHANGED <<up, memVars, elem, owned>>
        BY <2>3 DEF TryFail, LookEmpty, NextSlab, Goto
      <3>3. req' \in [Threads -> [c : Classes, cpu : Cpus, i : 0 .. NSlabs]]
        <4>1. req[t].i + 1 \in 0 .. NSlabs
          BY <3>1, ConstantsAssumption
        <4>2. [req[t] EXCEPT !.i = @ + 1] \in [c : Classes, cpu : Cpus, i : 0 .. NSlabs]
          BY <4>1 DEF TypeOK
        <4>3. QED
          BY <3>2, <4>2 DEF TypeOK
      <3>4. lock' \in [Cpus -> Threads \cup {NoThread}]
        BY <1>1, <2>3 DEF TryFail, LookEmpty, Release, TypeOK
      <3>5. TypeOK'
        BY <3>2, <3>3, <3>4 DEF TypeOK, PCs, memVars
      <3>6. RoundBounded'
        <4>1. \A u \in Threads \ {t} : pc'[u] = pc[u] /\ req'[u] = req[u]
          BY <1>2
        <4>2. pc'[t] = "try" => req[t].i + 1 < NSlabs
          BY <3>2 DEF TypeOK
        <4>3. pc'[t] # "look" /\ req'[t].i = req[t].i + 1
          BY <3>2 DEF TypeOK
        <4>4. QED
          BY <4>1, <4>2, <4>3 DEF RoundBounded
      <3>7. QED
        BY <3>5, <3>6
    <2>4. CASE AllocFail(t)
      BY <1>1, <2>4 DEF AllocFail, Release, Goto, TypeOK, PCs, memVars, RoundBounded
    <2>5. QED
      BY <2>1, <2>2, <2>3, <2>4
  <1>5. LockHeld'
    <2>1. \/ lock' = lock /\ pc'[t] \notin Locked
          \/ Acquire(t, Cursor(t)) /\ req' = req
          \/ pc[t] \in Locked /\ Release(Cursor(t)) /\ pc'[t] \notin Locked
      BY DEF Malloc, TryLock, TryFail, LookEmpty, LockOwn, AllocFail, Goto, NextSlab,
             Locked, TypeOK
    <2>2. QED
      BY <1>2, <2>1, LockStep
  <1>6. Quiet' /\ FiniClean'
    BY <1>2 DEF Quiet, FiniClean
  <1>7. QED
    BY <1>3, <1>4, <1>5, <1>6

(* A free element becomes the user's.                                      *)
LEMMA HandTake ==
  ASSUME IInv, NEW t \in Threads, ~Freeing(t), ~Freeing(t)',
         \A u \in Threads \ {t} : pc'[u] = pc[u],
         UNCHANGED <<req, elem>>,
         NEW e, NEW c, e \notin Out,
         owned' = owned \cup {<<e, c>>},
         meta'[PageOf(e)] = c + 1,
         \A x \in Out : /\ meta'[PageOf(x)] = meta[PageOf(x)]
                        /\ pcpu'[PageOf(x)] = pcpu[PageOf(x)]
  PROVE  /\ Out' = Out \cup {e}
         /\ ClassKept' /\ CpuNotStale' /\ OneHolder' /\ FreeCursor'
  <1> USE DEF IInv
  <1>1. \A u \in Threads : Freeing(u)' <=> Freeing(u)
    BY DEF Freeing
  <1>2. \A u \in Threads : Freeing(u) => elem[u] \in Out
    BY OutMembers
  <1>3. Out' = Out \cup {e}
    <2>1. \A x : x \in Out' <=> \/ \E ec \in owned' : x = ec[1]
                                \/ \E u \in Threads : Freeing(u) /\ x = elem[u]
      BY <1>1 DEF Out, Freeing
    <2>2. ASSUME NEW x
          PROVE  (\E ec \in owned' : x = ec[1]) <=> (\E ec \in owned : x = ec[1]) \/ x = e
      <3>1. <<e, c>> \in owned' /\ <<e, c>>[1] = e
        OBVIOUS
      <3>2. \A ec \in owned' : ec \in owned \/ ec[1] = e
        OBVIOUS
      <3>3. owned \subseteq owned'
        OBVIOUS
      <3>4. QED
        BY <3>1, <3>2, <3>3
    <2>3. \A x : x \in Out' <=> x \in Out \/ x = e
      BY <2>1, <2>2, OutMembers
    <2>4. QED
      BY <2>3
  <1>4. ClassKept'
    <2> SUFFICES ASSUME NEW ec \in owned'
                 PROVE  meta'[PageOf(ec[1])] = ec[2] + 1
      BY DEF ClassKept
    <2>1. CASE ec \in owned
      BY <2>1, OutMembers DEF ClassKept
    <2>2. CASE ec = <<e, c>>
      BY <2>2
    <2>3. QED
      BY <2>1, <2>2
  <1>5. CpuNotStale'
    <2> SUFFICES ASSUME NEW u \in Threads, Freeing(u)
                 PROVE  /\ pcpu'[PageOf(elem[u])] = Cursor(u)
                        /\ meta'[PageOf(elem[u])] = req[u].c + 1
      BY <1>1 DEF CpuNotStale, Cursor, Freeing
    <2>1. QED
      BY <1>2 DEF CpuNotStale, Freeing
  <1>6. OneHolder'
    BY <1>1, <1>2 DEF OneHolder
  <1>7. FreeCursor'
    BY <1>1 DEF FreeCursor
  <1>8. QED
    BY <1>3, <1>4, <1>5, <1>6, <1>7

(* _slab_alloc of a free element.                                          *)
LEMMA TakePreserves ==
  ASSUME IInv, NEW t \in Threads, LookTake(t) \/ AllocTake(t)
  PROVE  IInv'
  <1> USE DEF IInv
  <1> DEFINE k == Cursor(t)
             c == req[t].c
  <1>1. k \in Cpus /\ c \in Classes
    BY CursorFacts
  <1>2. TakeFree(t, k, c) /\ pc[t] \in {"look", "alloc"}
    BY DEF LookTake, AllocTake
  <1> HIDE DEF k, c
  <1>3. PICK e \in list[k][c] : TakeElem(k, c, e, list, nfree, uc)
    BY <1>2 DEF TakeFree
  <1>4. /\ nfree[k][c] # 0
        /\ Release(k)
        /\ pc' = [pc EXCEPT ![t] = "idle"]
        /\ UNCHANGED <<up, pool, meta, pcpu, req, elem>>
    BY <1>2 DEF TakeFree, Goto
  <1>5. /\ up
        /\ ~Freeing(t) /\ ~Freeing(t)'
        /\ \A u \in Threads \ {t} : pc'[u] = pc[u]
    BY <1>2, <1>4 DEF Quiet, Freeing, TypeOK
  <1>6. e \in Elems /\ e \notin Out /\ meta[PageOf(e)] = c + 1
    BY <1>1 DEF TypeOK, MemInv, FreeNotOut, ListsRight
  <1>7. owned' = owned \cup {<<e, c>>}
    BY <1>3 DEF TakeElem
  <1>8. /\ Out' = Out \cup {e}
        /\ ClassKept' /\ CpuNotStale' /\ OneHolder' /\ FreeCursor'
    BY <1>4, <1>5, <1>6, <1>7, HandTake
  <1>9. MemInv'
    BY <1>1, <1>3, <1>4, <1>5, <1>8, MemTake
  <1>10. TypeOK'
    <2>1. PageOf(e) \in Pages
      BY <1>6, ElemsFacts
    <2>2. /\ list' \in [Cpus -> [Classes -> SUBSET Elems]]
          /\ nfree' \in [Cpus -> [Classes -> Nat]]
          /\ nused' \in [Cpus -> [Classes -> Nat]]
          /\ uc' \in [Pages -> Nat]
      <3>1. /\ list \in [Cpus -> [Classes -> SUBSET Elems]]
            /\ nfree \in [Cpus -> [Classes -> Nat]]
            /\ nused \in [Cpus -> [Classes -> Nat]]
            /\ uc \in [Pages -> Nat]
        BY DEF TypeOK
      <3>2. /\ list[k][c] \ {e} \in SUBSET Elems
            /\ nfree[k][c] - 1 \in Nat
            /\ nused[k][c] + 1 \in Nat
        BY <1>1, <1>4, <3>1
      <3>3. /\ list' = [list EXCEPT ![k][c] = list[k][c] \ {e}]
            /\ nfree' = [nfree EXCEPT ![k][c] = nfree[k][c] - 1]
            /\ nused' = [nused EXCEPT ![k][c] = nused[k][c] + 1]
            /\ uc' = [uc EXCEPT ![PageOf(e)] = @ + 1]
        BY <1>3 DEF TakeElem
      <3>4. uc' \in [Pages -> Nat]
        BY <2>1, <3>1, <3>3
      <3>5. QED
        BY <1>1, <3>1, <3>2, <3>3, <3>4, ListUpdate
    <2>3. owned' \subseteq Elems \X Classes
      BY <1>1, <1>6, <1>7 DEF TypeOK
    <2>4. lock' \in [Cpus -> Threads \cup {NoThread}] /\ pc' \in [Threads -> PCs]
      BY <1>1, <1>4 DEF Release, TypeOK, PCs
    <2>5. QED
      BY <1>4, <2>2, <2>3, <2>4 DEF TypeOK
  <1>11. LockHeld'
    BY <1>2, <1>4, <1>5, LockStep DEF k, Locked, TypeOK
  <1>12. RoundBounded' /\ Quiet' /\ FiniClean'
    BY <1>4, <1>5 DEF RoundBounded, Quiet, FiniClean, TypeOK
  <1>13. QED
    BY <1>8, <1>9, <1>10, <1>11, <1>12

(* _slab_alloc that grows the slab.                                        *)
LEMMA GrowPreserves ==
  ASSUME IInv, NEW t \in Threads, AllocGrow(t)
  PROVE  IInv'
  <1> USE DEF IInv
  <1> DEFINE k == Cursor(t)
             c == req[t].c
             lst(p) == [list EXCEPT ![k][c] = @ \cup ElemsOf(p, c)]
             nf == [nfree EXCEPT ![k][c] = @ + PerPage[c]]
             u0(p) == [uc EXCEPT ![p] = 0]
  <1>1. k \in Cpus /\ c \in Classes
    BY CursorFacts
  <1>2. PICK p \in pool :
          /\ pool' = pool \ {p}
          /\ meta' = [meta EXCEPT ![p] = c + 1]
          /\ pcpu' = [pcpu EXCEPT ![p] = k]
          /\ \E e \in list[k][c] \cup ElemsOf(p, c) : TakeElem(k, c, e, lst(p), nf, u0(p))
    BY DEF AllocGrow
  <1>3. PICK e \in list[k][c] \cup ElemsOf(p, c) : TakeElem(k, c, e, lst(p), nf, u0(p))
    BY <1>2
  <1>4. /\ nfree[k][c] = 0
        /\ pc[t] = "alloc"
        /\ Release(k)
        /\ pc' = [pc EXCEPT ![t] = "idle"]
        /\ UNCHANGED <<up, req, elem>>
    BY DEF AllocGrow, Goto
  <1>5. /\ up
        /\ ~Freeing(t) /\ ~Freeing(t)'
        /\ \A u \in Threads \ {t} : pc'[u] = pc[u]
    BY <1>4 DEF Quiet, Freeing, TypeOK
  <1>6. /\ p \in Pages /\ meta[p] = 0
        /\ \A x \in Out : PageOf(x) # p /\ PageOf(x) \in Pages
    BY OutElems, ElemsFacts DEF TypeOK, MemInv, PagesWhole
  <1>7. e \in ElemsOf(p, c) /\ e \in Elems /\ PageOf(e) = p /\ e \notin Out
    <2>1. list[k][c] \subseteq Elems
      BY <1>1 DEF TypeOK
    <2>2. Cardinality(list[k][c]) = 0
      BY <1>1, <1>4, <1>5 DEF MemInv, CountsExact
    <2>3. list[k][c] = {}
      BY <2>1, <2>2, CountEmpty
    <2>4. e \in ElemsOf(p, c)
      BY <2>3
    <2>5. e \in Elems /\ PageOf(e) = p
      BY <1>1, <1>6, <2>4, ElemsOfFacts
    <2>6. QED
      BY <1>6, <2>4, <2>5
  <1>8. owned' = owned \cup {<<e, c>>}
    BY <1>3 DEF TakeElem
  <1>9. /\ meta'[PageOf(e)] = c + 1
        /\ \A x \in Out : /\ meta'[PageOf(x)] = meta[PageOf(x)]
                          /\ pcpu'[PageOf(x)] = pcpu[PageOf(x)]
    BY <1>2, <1>6, <1>7 DEF TypeOK
  <1>10. /\ Out' = Out \cup {e}
         /\ ClassKept' /\ CpuNotStale' /\ OneHolder' /\ FreeCursor'
    <2> HIDE DEF k, c
    <2>1. QED
      BY <1>4, <1>5, <1>7, <1>8, <1>9, HandTake
  <1>11. MemInv'
    BY <1>1, <1>2, <1>3, <1>4, <1>5, <1>10, MemGrow
  <1>12. TypeOK'
    <2>1. PerPage[c] \in Nat \ {0}
      BY <1>1, ConstantsAssumption
    <2>2. ElemsOf(p, c) \subseteq Elems
      BY <1>1, <1>6, ElemsOfFacts
    <2>3. /\ lst(p) \in [Cpus -> [Classes -> SUBSET Elems]]
          /\ nf \in [Cpus -> [Classes -> Nat]]
          /\ nf[k][c] # 0
          /\ u0(p) \in [Pages -> Nat]
      BY <1>1, <1>4, <2>1, <2>2 DEF TypeOK
    <2>4. /\ list' = [lst(p) EXCEPT ![k][c] = @ \ {e}]
          /\ nfree' = [nf EXCEPT ![k][c] = @ - 1]
          /\ nused' = [nused EXCEPT ![k][c] = @ + 1]
          /\ uc' = [u0(p) EXCEPT ![PageOf(e)] = @ + 1]
      BY <1>3 DEF TakeElem
    <2>5. /\ list' \in [Cpus -> [Classes -> SUBSET Elems]]
          /\ nfree' \in [Cpus -> [Classes -> Nat]]
          /\ nused' \in [Cpus -> [Classes -> Nat]]
          /\ uc' \in [Pages -> Nat]
      <3> HIDE DEF k, c, lst, nf, u0
      <3>1. /\ lst(p)[k][c] \ {e} \in SUBSET Elems
            /\ nf[k][c] - 1 \in Nat
            /\ nused \in [Cpus -> [Classes -> Nat]]
            /\ nused[k][c] + 1 \in Nat
        BY <1>1, <2>3 DEF TypeOK
      <3>2. uc' \in [Pages -> Nat]
        BY <1>6, <1>7, <2>3, <2>4
      <3>3. QED
        BY <1>1, <2>3, <2>4, <3>1, <3>2, ListUpdate
    <2>6. c + 1 \in 0 .. NClasses
      BY <1>1, ConstantsAssumption DEF Classes
    <2>7. /\ pool' \subseteq Pages
          /\ meta' \in [Pages -> 0 .. NClasses]
          /\ pcpu' \in [Pages -> Cpus]
      BY <1>1, <1>2, <2>6 DEF TypeOK
    <2>8. owned' \subseteq Elems \X Classes
      BY <1>1, <1>7, <1>8 DEF TypeOK
    <2>9. lock' \in [Cpus -> Threads \cup {NoThread}] /\ pc' \in [Threads -> PCs]
      BY <1>1, <1>4 DEF Release, TypeOK, PCs
    <2>10. QED
      BY <1>4, <2>5, <2>7, <2>8, <2>9 DEF TypeOK
  <1>13. LockHeld'
    BY <1>4, <1>5, LockStep DEF Locked, TypeOK
  <1>14. RoundBounded' /\ Quiet' /\ FiniClean'
    BY <1>4, <1>5 DEF RoundBounded, Quiet, FiniClean, TypeOK
  <1>15. QED
    BY <1>10, <1>11, <1>12, <1>13, <1>14

(* zus_free up to the lock of the slab.                                    *)
LEMMA FreePreserves ==
  ASSUME IInv, NEW t \in Threads, NEW ec \in owned, Free(t, ec[1], ec[2])
  PROVE  IInv'
  <1> USE DEF IInv
  <1> DEFINE e == ec[1]
             c == ec[2]
             k == pcpu[PageOf(e)]
  <1>1. ec = <<e, c>> /\ e \in Elems /\ c \in Classes
    BY DEF TypeOK
  <1>2. e \in Out
    BY OutMembers
  <1>3. PageOf(e) \in Pages /\ k \in Cpus /\ k \in 0 .. NSlabs - 1
    BY <1>1, ElemsFacts DEF TypeOK, Cpus
  <1>4. /\ up
        /\ pc[t] = "idle"
        /\ owned' = owned \ {ec}
        /\ elem' = [elem EXCEPT ![t] = e]
        /\ req' = [req EXCEPT ![t] = [c |-> c, cpu |-> k, i |-> 0]]
        /\ pc' = [pc EXCEPT ![t] = "flock"]
        /\ UNCHANGED <<up, memVars, lock>>
    BY <1>1 DEF Free, Goto
  <1>5. \A u \in Threads : IF u = t
                           THEN /\ ~Freeing(u) /\ Freeing(u)' /\ elem'[u] = e
                                /\ pc'[u] = "flock"
                                /\ req'[u] = [c |-> c, cpu |-> k, i |-> 0]
                           ELSE /\ Freeing(u)' <=> Freeing(u)
                                /\ pc'[u] = pc[u] /\ elem'[u] = elem[u]
                                /\ req'[u] = req[u]
    BY <1>4 DEF Freeing, TypeOK
  <1>6. Cursor(t)' = k /\ \A u \in Threads \ {t} : Cursor(u)' = Cursor(u)
    <2>1. Cursor(t)' = (k + 0) % NSlabs
      BY <1>5 DEF Cursor
    <2>2. (k + 0) % NSlabs = k
      BY <1>3, ConstantsAssumption
    <2>3. QED
      BY <1>5, <2>1, <2>2 DEF Cursor
  <1> HIDE DEF e, c, k
  <1>7. \A oc \in owned' : oc \in owned /\ oc[1] # e
    <2> SUFFICES ASSUME NEW oc \in owned', oc[1] = e
                 PROVE  FALSE
      BY <1>4
    <2>1. oc \in owned /\ oc # ec
      BY <1>4
    <2>2. oc = <<oc[1], oc[2]>> /\ oc[2] \in Classes
      BY <2>1 DEF TypeOK
    <2>3. meta[PageOf(e)] = oc[2] + 1 /\ meta[PageOf(e)] = c + 1
      BY <2>1 DEF ClassKept, e, c
    <2>4. oc[2] = c
      BY <1>1, <2>2, <2>3 DEF Classes
    <2>5. QED
      BY <1>1, <2>1, <2>2, <2>4
  <1>8. Out' = Out
    <2>1. ASSUME NEW x
          PROVE  x \in Out' <=> \/ \E oc \in owned' : x = oc[1]
                                \/ \E u \in Threads : Freeing(u)' /\ x = elem'[u]
      BY DEF Out, Freeing
    <2>2. \A x \in Out' : x \in Out
      BY <1>2, <1>4, <1>5, <2>1, OutMembers
    <2>3. \A x \in Out : x \in Out'
      <3> SUFFICES ASSUME NEW x \in Out PROVE x \in Out'
        OBVIOUS
      <3>1. CASE x = e
        BY <1>5, <2>1, <3>1
      <3>2. CASE x # e
        <4>1. (\E oc \in owned : x = oc[1]) => \E oc \in owned' : x = oc[1]
          BY <1>4, <3>2 DEF e
        <4>2. (\E u \in Threads : Freeing(u) /\ x = elem[u])
                => \E u \in Threads : Freeing(u)' /\ x = elem'[u]
          BY <1>5
        <4>3. QED
          BY <2>1, <4>1, <4>2, OutMembers
      <3>3. QED
        BY <3>1, <3>2
    <2>4. QED
      BY <2>2, <2>3
  <1>9. MemInv'
    BY <1>4, <1>8, MemSame
  <1>10. ClassKept'
    BY <1>4 DEF ClassKept, memVars
  <1>11. CpuNotStale'
    <2> SUFFICES ASSUME NEW u \in Threads, Freeing(u)'
                 PROVE  /\ pcpu[PageOf(elem'[u])] = Cursor(u)'
                        /\ meta[PageOf(elem'[u])] = req'[u].c + 1
      BY <1>4 DEF CpuNotStale, memVars, Freeing
    <2>1. CASE u = t
      <3>1. meta[PageOf(e)] = c + 1
        BY DEF ClassKept, e, c
      <3>2. QED
        BY <1>5, <1>6, <2>1, <3>1 DEF k
    <2>2. CASE u # t
      BY <1>5, <1>6, <2>2 DEF CpuNotStale, Freeing
    <2>3. QED
      BY <2>1, <2>2
  <1>12. OneHolder'
    <2>1. \A u \in Threads : Freeing(u) => elem[u] # e
      BY DEF OneHolder, e
    <2>2. QED
      BY <1>5, <1>7, <2>1 DEF OneHolder
  <1>13. FreeCursor'
    BY <1>5 DEF FreeCursor
  <1>14. TypeOK'
    <2>1. elem' \in [Threads -> Elems] /\ pc' \in [Threads -> PCs]
      BY <1>1, <1>4 DEF TypeOK, PCs
    <2>2. [c |-> c, cpu |-> k, i |-> 0] \in [c : Classes, cpu : Cpus, i : 0 .. NSlabs]
      BY <1>1, <1>3, ConstantsAssumption
    <2>3. req' \in [Threads -> [c : Classes, cpu : Cpus, i : 0 .. NSlabs]]
      BY <1>4, <2>2 DEF TypeOK
    <2>4. QED
      BY <1>4, <2>1, <2>3 DEF TypeOK, memVars
  <1>15. LockHeld'
    BY <1>4, <1>5, LockStep DEF Locked
  <1>16. RoundBounded' /\ Quiet' /\ FiniClean'
    BY <1>4, <1>5 DEF RoundBounded, Quiet, FiniClean
  <1>17. QED
    BY <1>9, <1>10, <1>11, <1>12, <1>13, <1>14, <1>15, <1>16

(* zus_free taking the lock.                                               *)
LEMMA FreeLockPreserves ==
  ASSUME IInv, NEW t \in Threads, FreeLock(t)
  PROVE  IInv'
  <1> USE DEF IInv
  <1>1. Cursor(t) \in Cpus
    BY CursorFacts
  <1>2. /\ pc[t] = "flock"
        /\ Acquire(t, Cursor(t))
        /\ pc' = [pc EXCEPT ![t] = "free"]
        /\ UNCHANGED <<up, memVars, req, elem, owned>>
    BY DEF FreeLock, Goto
  <1>3. /\ \A u \in Threads : Freeing(u)' <=> Freeing(u)
        /\ \A u \in Threads \ {t} : pc'[u] = pc[u]
        /\ pc'[t] = "free"
        /\ up
    BY <1>2 DEF Freeing, Quiet, TypeOK
  <1>4. Out' = Out
    <2>1. \A x : x \in Out' <=> x \in Out
      BY <1>2, <1>3, OutMembers DEF Out, Freeing
    <2>2. QED
      BY <2>1
  <1>5. MemInv'
    BY <1>2, <1>4, MemSame
  <1>6. ClassKept' /\ OneHolder' /\ FreeCursor'
    BY <1>2, <1>3 DEF ClassKept, OneHolder, FreeCursor, memVars
  <1>7. CpuNotStale'
    BY <1>2, <1>3 DEF CpuNotStale, memVars, Freeing, Cursor
  <1>8. TypeOK'
    <2>1. lock' \in [Cpus -> Threads \cup {NoThread}]
      BY <1>1, <1>2 DEF Acquire, TypeOK
    <2>2. pc' \in [Threads -> PCs]
      BY <1>2 DEF TypeOK, PCs
    <2>3. QED
      BY <1>2, <2>1, <2>2 DEF TypeOK, memVars
  <1>9. LockHeld'
    BY <1>2, <1>3, LockStep
  <1>10. RoundBounded' /\ Quiet' /\ FiniClean'
    BY <1>2, <1>3 DEF RoundBounded, Quiet, FiniClean
  <1>11. QED
    BY <1>5, <1>6, <1>7, <1>8, <1>9, <1>10

(* _slab_free under the lock.                                              *)
LEMMA FreeElemPreserves ==
  ASSUME IInv, NEW t \in Threads, FreeElem(t)
  PROVE  IInv'
  <1> USE DEF IInv
  <1> DEFINE k == Cursor(t)
             e == elem[t]
             p == PageOf(e)
             c == meta[p] - 1
  <1>1. pc[t] = "free" /\ c \in Classes
    BY DEF FreeElem
  <1>2. Freeing(t) /\ up /\ e \in Out
    BY <1>1, OutMembers DEF Freeing, Quiet
  <1>3. k = pcpu[p]
    BY <1>1 DEF CpuNotStale
  <1>4. /\ e \in Elems /\ p \in Pages /\ k \in Cpus
        /\ uc[p] \in Nat \ {0} /\ nused[k][c] \in Nat \ {0}
    BY <1>2, <1>3, OutElem
  <1>5. /\ nused' = [nused EXCEPT ![k][c] = @ - 1]
        /\ Release(k)
        /\ pc' = [pc EXCEPT ![t] = "idle"]
        /\ UNCHANGED <<up, req, elem, owned>>
    BY DEF FreeElem, Goto
  <1>6. IF KeepPage(p, k, c)
        THEN /\ list' = [list EXCEPT ![k][c] = @ \cup {e}]
             /\ nfree' = [nfree EXCEPT ![k][c] = @ + 1]
             /\ uc' = [uc EXCEPT ![p] = @ - 1]
             /\ UNCHANGED <<pool, meta, pcpu>>
        ELSE /\ list' = [list EXCEPT ![k][c] = (@ \cup {e}) \ ElemsOf(p, c)]
             /\ nfree' = [nfree EXCEPT ![k][c] = @ + 1 - PerPage[c]]
             /\ uc' = [uc EXCEPT ![p] = 0]
             /\ meta' = [meta EXCEPT ![p] = 0]
             /\ pcpu' = [pcpu EXCEPT ![p] = 0]
             /\ pool' = pool \cup {p}
    BY DEF FreeElem
  <1> HIDE DEF k, e, p, c
  <1>7. \A u \in Threads : IF u = t
                           THEN ~Freeing(u)' /\ pc'[u] = "idle"
                           ELSE pc'[u] = pc[u] /\ (Freeing(u)' <=> Freeing(u))
    BY <1>5 DEF Freeing, TypeOK
  <1>8. /\ \A oc \in owned : oc[1] # e
        /\ \A u \in Threads \ {t} : Freeing(u) => elem[u] # e
    BY <1>2 DEF OneHolder, e
  <1>9. Out' = Out \ {e}
    <2>1. ASSUME NEW x
          PROVE  x \in Out' <=> \/ \E oc \in owned : x = oc[1]
                                \/ \E u \in Threads : Freeing(u)' /\ x = elem[u]
      BY <1>5 DEF Out, Freeing
    <2>2. \A x \in Out' : x \in Out /\ x # e
      BY <1>7, <1>8, <2>1, OutMembers
    <2>3. ASSUME NEW x \in Out, x # e
          PROVE  x \in Out'
      <3>1. (\E u \in Threads : Freeing(u) /\ x = elem[u])
              => \E u \in Threads : Freeing(u)' /\ x = elem[u]
        BY <1>7, <2>3 DEF e
      <3>2. QED
        BY <2>1, <3>1, OutMembers
    <2>4. QED
      BY <2>2, <2>3
  <1>10. /\ MemInv'
         /\ \A x \in Out' : /\ meta'[PageOf(x)] = meta[PageOf(x)]
                            /\ pcpu'[PageOf(x)] = pcpu[PageOf(x)]
         /\ list' \in [Cpus -> [Classes -> SUBSET Elems]]
         /\ nfree' \in [Cpus -> [Classes -> Nat]]
         /\ uc' \in [Pages -> Nat]
         /\ meta' \in [Pages -> 0 .. NClasses]
         /\ pcpu' \in [Pages -> Cpus]
         /\ pool' \subseteq Pages
    <2>1. /\ list \in [Cpus -> [Classes -> SUBSET Elems]]
          /\ nfree \in [Cpus -> [Classes -> Nat]]
          /\ uc \in [Pages -> Nat]
          /\ meta \in [Pages -> 0 .. NClasses]
          /\ pcpu \in [Pages -> Cpus]
          /\ pool \subseteq Pages
      BY DEF TypeOK
    <2>2. CASE KeepPage(p, k, c)
      <3>a. /\ list' = [list EXCEPT ![k][c] = list[k][c] \cup {e}]
            /\ nfree' = [nfree EXCEPT ![k][c] = nfree[k][c] + 1]
            /\ uc' = [uc EXCEPT ![p] = @ - 1]
            /\ UNCHANGED <<pool, meta, pcpu>>
        BY <1>6, <2>2
      <3>1. MemInv'
        BY <1>2, <1>3, <1>5, <3>a, <1>9, <2>2, MemKeep DEF p, c
      <3>2. list' \in [Cpus -> [Classes -> SUBSET Elems]]
        <4>1. list[k][c] \cup {e} \in SUBSET Elems
          BY <1>1, <1>4, <2>1
        <4>2. QED
          BY <1>1, <1>4, <3>a, <2>1, <4>1, ListUpdate
      <3>3. nfree' \in [Cpus -> [Classes -> Nat]]
        <4>1. nfree[k][c] + 1 \in Nat
          BY <1>1, <1>4, <2>1
        <4>2. QED
          BY <1>1, <1>4, <3>a, <2>1, <4>1, ListUpdate
      <3>4. uc' \in [Pages -> Nat]
        <4>1. uc[p] - 1 \in Nat
          BY <1>4
        <4>2. QED
          BY <1>4, <2>1, <3>a, <4>1
      <3>5. QED
        BY <3>a, <2>1, <2>2, <3>1, <3>2, <3>3, <3>4
    <2>3. CASE ~KeepPage(p, k, c)
      <3>a. /\ list' = [list EXCEPT ![k][c] = (list[k][c] \cup {e}) \ ElemsOf(p, c)]
            /\ nfree' = [nfree EXCEPT ![k][c] = nfree[k][c] + 1 - PerPage[c]]
            /\ uc' = [uc EXCEPT ![p] = 0]
            /\ meta' = [meta EXCEPT ![p] = 0]
            /\ pcpu' = [pcpu EXCEPT ![p] = 0]
            /\ pool' = pool \cup {p}
        BY <1>6, <2>3
      <3>1. uc[p] - 1 = 0
        BY <2>3 DEF KeepPage
      <3>2. /\ MemInv'
            /\ nfree'[k][c] \in Nat
            /\ \A x \in Out' : PageOf(x) # p
        BY <1>2, <1>3, <1>5, <3>a, <1>9, <2>3, <3>1, MemBack DEF p, c
      <3>3. \A x \in Out' : /\ meta'[PageOf(x)] = meta[PageOf(x)]
                            /\ pcpu'[PageOf(x)] = pcpu[PageOf(x)]
        <4>1. \A x \in Out' : PageOf(x) \in Pages
          BY <1>9, OutElems, ElemsFacts
        <4>2. QED
          BY <3>a, <2>1, <2>3, <3>2, <4>1
      <3>4. list' \in [Cpus -> [Classes -> SUBSET Elems]]
        <4>1. (list[k][c] \cup {e}) \ ElemsOf(p, c) \in SUBSET Elems
          BY <1>1, <1>4, <2>1
        <4>2. QED
          BY <1>1, <1>4, <3>a, <2>1, <4>1, ListUpdate
      <3>5. nfree' \in [Cpus -> [Classes -> Nat]]
        <4>1. nfree'[k][c] = nfree[k][c] + 1 - PerPage[c]
          BY <1>1, <1>4, <3>a, <2>1, <2>3
        <4>2. QED
          BY <1>1, <1>4, <3>a, <2>1, <3>2, <4>1, ListUpdate
      <3>6. uc' \in [Pages -> Nat]
        BY <1>4, <3>a, <2>1, <2>3
      <3>7. 0 \in Cpus /\ 0 \in 0 .. NClasses
        BY ConstantsAssumption DEF Cpus
      <3>8. /\ meta' \in [Pages -> 0 .. NClasses]
            /\ pcpu' \in [Pages -> Cpus]
            /\ pool' \subseteq Pages
        BY <1>4, <3>a, <2>1, <2>3, <3>7
      <3>9. QED
        BY <3>2, <3>3, <3>4, <3>5, <3>6, <3>8
    <2>4. QED
      BY <2>2, <2>3
  <1>11. ClassKept'
    <2>1. \A oc \in owned : oc[1] \in Out'
      BY <1>8, <1>9, OutMembers
    <2>2. QED
      BY <1>5, <1>10, <2>1 DEF ClassKept
  <1>12. CpuNotStale'
    <2> SUFFICES ASSUME NEW u \in Threads, Freeing(u)'
                 PROVE  /\ pcpu'[PageOf(elem[u])] = Cursor(u)
                        /\ meta'[PageOf(elem[u])] = req[u].c + 1
      BY <1>5 DEF CpuNotStale, Freeing, Cursor
    <2>1. u # t /\ Freeing(u)
      BY <1>7
    <2>2. elem[u] \in Out'
      BY <1>8, <1>9, <2>1, OutMembers
    <2>3. QED
      BY <1>10, <2>1, <2>2 DEF CpuNotStale, Freeing
  <1>13. OneHolder' /\ FreeCursor'
    BY <1>5, <1>7 DEF OneHolder, FreeCursor
  <1>14. TypeOK'
    <2>1. nused' \in [Cpus -> [Classes -> Nat]]
      <3>1. nused \in [Cpus -> [Classes -> Nat]] /\ nused[k][c] - 1 \in Nat
        BY <1>4 DEF TypeOK
      <3>2. QED
        BY <1>1, <1>4, <1>5, <3>1, ListUpdate
    <2>2. lock' \in [Cpus -> Threads \cup {NoThread}] /\ pc' \in [Threads -> PCs]
      BY <1>4, <1>5 DEF Release, TypeOK, PCs
    <2>3. QED
      BY <1>5, <1>10, <2>1, <2>2 DEF TypeOK
  <1>15. LockHeld'
    BY <1>1, <1>5, <1>7, LockStep DEF k, Locked
  <1>16. RoundBounded' /\ Quiet' /\ FiniClean'
    BY <1>2, <1>5, <1>7 DEF RoundBounded, Quiet, FiniClean
  <1>17. QED
    BY <1>10, <1>11, <1>12, <1>13, <1>14, <1>15, <1>16

(* zus_slab_fini: the pages that go have nothing out; when nothing is out  *)
(* at all, every page goes.                                                *)
LEMMA FiniPreserves ==
  ASSUME IInv, Fini
  PROVE  IInv'
  <1> USE DEF IInv
  <1>1. /\ up /\ ~up'
        /\ \A t \in Threads : pc[t] = "idle"
        /\ nused' = [k \in Cpus |-> [c \in Classes |-> 0]]
        /\ UNCHANGED <<uc, lock, pc, req, elem, owned>>
    BY DEF Fini
  <1>2. PICK gone \in SUBSET Pages :
          /\ \A p \in gone : meta[p] # 0 /\ uc[p] = 0
          /\ \A k \in Cpus, c \in Classes :
               (\A p \in ListPages(k, c) : uc[p] = 0) => ListPages(k, c) \subseteq gone
          /\ pool' = pool \cup gone
          /\ list' = [k \in Cpus |-> [c \in Classes |->
                        {e \in list[k][c] : PageOf(e) \notin gone}]]
          /\ nfree' = [k \in Cpus |-> [c \in Classes |->
               nfree[k][c] - Cardinality({e \in list[k][c] : PageOf(e) \in gone})]]
          /\ meta' = [p \in Pages |-> IF p \in gone THEN 0 ELSE meta[p]]
          /\ pcpu' = [p \in Pages |-> IF p \in gone THEN 0 ELSE pcpu[p]]
    BY DEF Fini
  <1>3. \A k \in Cpus, c \in Classes :
          list'[k][c] = {e \in list[k][c] : PageOf(e) \notin gone}
    BY <1>2
  <1>4. \A p \in Pages : /\ meta'[p] = IF p \in gone THEN 0 ELSE meta[p]
                         /\ pcpu'[p] = IF p \in gone THEN 0 ELSE pcpu[p]
    BY <1>2
  <1>5. Out' = Out
    BY <1>1 DEF Out
  <1>6. \A p \in Pages : uc[p] = 0 => \A x \in Out : PageOf(x) # p
    <2> SUFFICES ASSUME NEW p \in Pages, uc[p] = 0
                 PROVE  \A x \in Out : PageOf(x) # p
      OBVIOUS
    <2> DEFINE U == {x \in Out : PageOf(x) = p}
    <2>1. Cardinality(U) = 0
      BY <1>1 DEF MemInv, CountsExact
    <2>2. U \subseteq Elems
      BY OutElems
    <2> HIDE DEF U
    <2>3. U = {}
      BY <2>1, <2>2, CountEmpty
    <2>4. QED
      BY <2>3 DEF U
  <1>7. \A x \in Out : PageOf(x) \in Pages /\ PageOf(x) \notin gone
    BY <1>2, <1>6, OutElems, ElemsFacts
  <1>8. \A k \in Cpus, c \in Classes : \A e \in list[k][c] :
          e \in Elems /\ PageOf(e) \in Pages
    BY ElemsFacts DEF TypeOK
  <1>9. MemInv'
    <2> USE DEF MemInv
    <2>1. ListsRight'
      BY <1>3, <1>4, <1>8 DEF ListsRight
    <2>2. OutRight'
      BY <1>4, <1>5, <1>7 DEF OutRight
    <2>3. FreeNotOut'
      BY <1>3, <1>5 DEF FreeNotOut
    <2>4. PagesWhole'
      <3> SUFFICES ASSUME NEW q \in Pages
                   PROVE  IF meta'[q] = 0
                          THEN q \in pool' /\ \A x \in Out' : PageOf(x) # q
                          ELSE /\ q \notin pool'
                               /\ \A x \in ElemsOf(q, meta'[q] - 1) :
                                    x \in list'[pcpu'[q]][meta'[q] - 1] <=> x \notin Out'
        BY DEF PagesWhole
      <3>1. CASE q \in gone
        BY <1>2, <1>4, <1>5, <1>7, <3>1
      <3>2. CASE q \notin gone /\ meta[q] = 0
        BY <1>2, <1>4, <1>5, <3>2 DEF PagesWhole
      <3>3. CASE q \notin gone /\ meta[q] # 0
        <4>1. meta'[q] = meta[q] /\ pcpu'[q] = pcpu[q] /\ q \notin pool'
          BY <1>2, <1>4, <3>3 DEF PagesWhole
        <4>2. pcpu[q] \in Cpus /\ meta[q] - 1 \in Classes
          BY <3>3, PageList
        <4>3. ASSUME NEW x \in ElemsOf(q, meta[q] - 1)
              PROVE  x \in list'[pcpu[q]][meta[q] - 1] <=> x \notin Out
          <5>1. PageOf(x) = q
            BY <4>2, ElemsOfFacts
          <5>2. x \in list'[pcpu[q]][meta[q] - 1] <=> x \in list[pcpu[q]][meta[q] - 1]
            BY <1>3, <3>3, <4>2, <5>1
          <5>3. QED
            BY <3>3, <5>2 DEF PagesWhole
        <4>4. QED
          BY <1>5, <3>3, <4>1, <4>3
      <3>4. QED
        BY <3>1, <3>2, <3>3
    <2>5. CountsExact'
      BY <1>1 DEF CountsExact
    <2>6. QED
      BY <2>1, <2>2, <2>3, <2>4, <2>5
  <1>10. ClassKept'
    <2>1. \A oc \in owned : oc[1] \in Out
      BY OutMembers
    <2>2. QED
      BY <1>1, <1>4, <1>7, <2>1 DEF ClassKept
  <1>11. FiniClean'
    <2> SUFFICES ASSUME owned = {} PROVE pool' = Pages
      BY <1>1 DEF FiniClean
    <2>1. Out = {}
      BY <1>1 DEF Out
    <2>2. \A p \in Pages : uc[p] = 0
      <3>1. \A p \in Pages : {x \in Out : PageOf(x) = p} = {}
        BY <2>1
      <3>2. QED
        BY <1>1, <3>1, FS_EmptySet DEF MemInv, CountsExact
    <2>3. \A k \in Cpus, c \in Classes : ListPages(k, c) \subseteq gone
      <3> SUFFICES ASSUME NEW k \in Cpus, NEW c \in Classes
                   PROVE  ListPages(k, c) \subseteq gone
        OBVIOUS
      <3>1. ListPages(k, c) \subseteq Pages
        BY <1>8 DEF ListPages
      <3>2. QED
        BY <1>2, <2>2, <3>1
    <2>4. ASSUME NEW p \in Pages, p \notin pool
          PROVE  p \in gone
      <3>1. meta[p] # 0
        BY <2>4 DEF MemInv, PagesWhole
      <3>2. pcpu[p] \in Cpus /\ meta[p] - 1 \in Classes
        BY <3>1, PageList
      <3>3. <<p, 0>> \in ElemsOf(p, meta[p] - 1) /\ PageOf(<<p, 0>>) = p
        BY <3>2, ElemsOfFacts
      <3>4. <<p, 0>> \in list[pcpu[p]][meta[p] - 1]
        BY <2>1, <3>1, <3>3 DEF MemInv, PagesWhole
      <3>5. p \in ListPages(pcpu[p], meta[p] - 1)
        BY <3>3, <3>4 DEF ListPages
      <3>6. QED
        BY <2>3, <3>2, <3>5
    <2>5. QED
      BY <1>2, <2>4 DEF TypeOK
  <1>12. TypeOK'
    <2>1. \A k \in Cpus, c \in Classes :
            nfree[k][c] - Cardinality({e \in list[k][c] : PageOf(e) \in gone}) \in Nat
      <3> SUFFICES ASSUME NEW k \in Cpus, NEW c \in Classes
                   PROVE  nfree[k][c]
                            - Cardinality({e \in list[k][c] : PageOf(e) \in gone}) \in Nat
        OBVIOUS
      <3> DEFINE L == list[k][c]
                 G == {e \in L : PageOf(e) \in gone}
      <3>1. L \subseteq Elems /\ nfree[k][c] = Cardinality(L)
        <4>1. L \subseteq Elems
          BY <1>8
        <4>2. nfree[k][c] = Cardinality(L)
          BY <1>1 DEF MemInv, CountsExact
        <4>3. QED
          BY <4>1, <4>2
      <3>2. IsFiniteSet(L)
        BY <3>1, ElemsFacts, FS_Subset
      <3>3. G \in SUBSET L
        OBVIOUS
      <3> HIDE DEF L, G
      <3>4. Cardinality(G) <= Cardinality(L) /\ IsFiniteSet(G)
        BY <3>2, <3>3, FS_Subset
      <3>5. Cardinality(G) \in Nat /\ Cardinality(L) \in Nat
        BY <3>2, <3>4, FS_CardinalityType
      <3>6. nfree[k][c] - Cardinality(G) \in Nat
        BY <3>1, <3>4, <3>5
      <3>7. QED
        BY <3>6 DEF G, L
    <2>2. nfree' \in [Cpus -> [Classes -> Nat]]
      BY <1>2, <2>1
    <2>3. list' \in [Cpus -> [Classes -> SUBSET Elems]]
      <3>1. \A k \in Cpus, c \in Classes :
              {e \in list[k][c] : PageOf(e) \notin gone} \in SUBSET Elems
        BY <1>8
      <3>2. QED
        BY <1>2, <3>1
    <2>4. nused' \in [Cpus -> [Classes -> Nat]]
      BY <1>1
    <2>5. pool' \subseteq Pages
      BY <1>2 DEF TypeOK
    <2>6. 0 \in Cpus /\ 0 \in 0 .. NClasses
      BY ConstantsAssumption DEF Cpus
    <2>7. meta' \in [Pages -> 0 .. NClasses] /\ pcpu' \in [Pages -> Cpus]
      BY <1>2, <2>6 DEF TypeOK
    <2>8. up' \in BOOLEAN
      BY DEF Fini
    <2>9. QED
      BY <1>1, <2>2, <2>3, <2>4, <2>5, <2>7, <2>8 DEF TypeOK
  <1>13. CpuNotStale' /\ OneHolder' /\ FreeCursor'
    BY <1>1 DEF CpuNotStale, OneHolder, FreeCursor, Freeing
  <1>14. LockHeld' /\ RoundBounded' /\ Quiet'
    BY <1>1 DEF LockHeld, Locked, RoundBounded, Quiet
  <1>15. QED
    BY <1>9, <1>10, <1>11, <1>12, <1>13, <1>14
-----------------------------------------------------------------------------
(* A fresh allocator satisfies the invariant.                              *)
LEMMA InitIInv == Init => IInv
  <1> SUFFICES ASSUME Init PROVE IInv
    OBVIOUS
  <1> USE DEF Init
  <1>1. 0 \in Cpus /\ 0 \in Classes /\ 0 \in 0 .. NSlabs /\ 0 \in 0 .. NClasses
    BY ConstantsAssumption DEF Cpus, Classes
  <1>2. TypeOK
    <2>1. PICK p \in Pages : elem = [t \in Threads |-> <<p, 0>>]
      OBVIOUS
    <2>2. <<p, 0>> \in Elems
      BY <1>1, ElemsOfFacts
    <2>3. elem \in [Threads -> Elems]
      BY <2>1, <2>2
    <2>4. QED
      BY <1>1, <2>3 DEF TypeOK, PCs
  <1>3. Out = {}
    BY DEF Out
  <1>4. MemInv
    <2>1. CountsExact
      <3>1. \A p \in Pages : {e \in Out : PageOf(e) = p} = {}
        BY <1>3
      <3>2. \A k \in Cpus, c \in Classes :
              {e \in Out : pcpu[PageOf(e)] = k /\ meta[PageOf(e)] = c + 1} = {}
        BY <1>3
      <3>3. \A k \in Cpus, c \in Classes : list[k][c] = {} /\ nfree[k][c] = 0 /\ nused[k][c] = 0
        OBVIOUS
      <3>4. QED
        BY <3>1, <3>2, <3>3, FS_EmptySet DEF CountsExact
    <2>2. ListsRight /\ OutRight /\ FreeNotOut
      BY <1>3 DEF ListsRight, OutRight, FreeNotOut
    <2>3. PagesWhole
      BY <1>3 DEF PagesWhole
    <2>4. QED
      BY <2>1, <2>2, <2>3 DEF MemInv
  <1>5. ClassKept /\ CpuNotStale /\ OneHolder /\ FreeCursor
    BY DEF ClassKept, CpuNotStale, OneHolder, FreeCursor, Freeing
  <1>6. RoundBounded /\ LockHeld /\ Quiet /\ FiniClean
    BY DEF RoundBounded, LockHeld, Locked, Quiet, FiniClean
  <1>7. QED
    BY <1>2, <1>4, <1>5, <1>6 DEF IInv

(* And so does a step that changes nothing.                                *)
LEMMA StutterIInv == IInv /\ UNCHANGED vars => IInv'
  <1> SUFFICES ASSUME IInv, UNCHANGED vars PROVE IInv'
    OBVIOUS
  <1> USE DEF vars, memVars
  <1>1. Out' = Out
    BY DEF Out
  <1>2. MemInv'
    BY <1>1, MemSame DEF IInv
  <1>3. TypeOK' /\ ClassKept' /\ CpuNotStale'
    BY DEF IInv, TypeOK, ClassKept, CpuNotStale, Cursor
  <1>4. OneHolder' /\ FreeCursor' /\ RoundBounded' /\ LockHeld'
    BY DEF IInv, OneHolder, FreeCursor, RoundBounded, LockHeld, Cursor, Freeing
  <1>5. Quiet' /\ FiniClean'
    BY DEF IInv, Quiet, FiniClean
  <1>6. QED
    BY <1>2, <1>3, <1>4, <1>5 DEF IInv

(* The inductive invariant holds: every step of a thread and the end of    *)
(* the allocator keep the lists, the counts and the hands consistent.      *)
THEOREM SlabInductive == Spec => []IInv
  <1>1. IInv /\ [Next]_vars => IInv'
    <2> SUFFICES ASSUME IInv, [Next]_vars PROVE IInv'
      OBVIOUS
    <2>1. ASSUME NEW t \in Threads,
                 \/ \E c \in Classes, k \in Cpus : Malloc(t, c, k)
                 \/ TryLock(t) \/ TryFail(t) \/ LookEmpty(t)
                 \/ LockOwn(t) \/ AllocFail(t)
          PROVE  IInv'
      BY <2>1, WalkPreserves
    <2>2. ASSUME NEW t \in Threads, LookTake(t) \/ AllocTake(t)
          PROVE  IInv'
      BY <2>2, TakePreserves
    <2>3. ASSUME NEW t \in Threads, AllocGrow(t)
          PROVE  IInv'
      BY <2>3, GrowPreserves
    <2>4. ASSUME NEW t \in Threads, NEW ec \in owned, Free(t, ec[1], ec[2])
          PROVE  IInv'
      BY <2>4, FreePreserves
    <2>5. ASSUME NEW t \in Threads, FreeLock(t)
          PROVE  IInv'
      BY <2>5, FreeLockPreserves
    <2>6. ASSUME NEW t \in Threads, FreeElem(t)
          PROVE  IInv'
      BY <2>6, FreeElemPreserves
    <2>7. CASE Fini
      BY <2>7, FiniPreserves
    <2>8. CASE UNCHANGED vars
      BY <2>8, StutterIInv
    <2>9. QED
      BY <2>1, <2>2, <2>3, <2>4, <2>5, <2>6, <2>7, <2>8 DEF Next
  <1>2. QED
    BY InitIInv, <1>1, PTL DEF Spec

(* zus_malloc never hands out an element that somebody has: the free lists *)
(* are disjoint from each other and from what is out, and an element keeps *)
(* the size class it was asked for.                                        *)
THEOREM SlabElementsSafe == Spec => []ElementsSafe
  <1>1. IInv => ElementsSafe
    <2> SUFFICES ASSUME IInv PROVE ElementsSafe
      OBVIOUS
    <2>1. FreeListsDisjoint
      <3> SUFFICES ASSUME NEW k \in Cpus, NEW c \in Classes, NEW e \in list[k][c]
                   PROVE  /\ e \notin Out
                          /\ \A l \in Cpus, d \in Classes :
                               <<l, d>> # <<k, c>> => e \notin list[l][d]
        BY DEF FreeListsDisjoint
      <3>1. e \notin Out
        BY DEF IInv, MemInv, FreeNotOut
      <3>2. ASSUME NEW l \in Cpus, NEW d \in Classes, e \in list[l][d]
            PROVE  l = k /\ d = c
        <4>1. pcpu[PageOf(e)] = k /\ pcpu[PageOf(e)] = l
          BY <3>2 DEF IInv, MemInv, ListsRight
        <4>2. meta[PageOf(e)] = c + 1 /\ meta[PageOf(e)] = d + 1
          BY <3>2 DEF IInv, MemInv, ListsRight
        <4>3. QED
          BY <4>1, <4>2 DEF Classes
      <3>3. QED
        BY <3>1, <3>2
    <2>2. QED
      BY <2>1 DEF ElementsSafe, IInv
  <1>2. QED
    BY SlabInductive, <1>1, PTL

(* __slab_free gives a page back only when it is whole, and zus_slab_fini  *)
(* leaves none behind when the users freed everything.                     *)
THEOREM SlabPagesSafe == Spec => []PagesSafe
  <1>1. IInv => PagesSafe
    BY DEF IInv, MemInv, PagesSafe
  <1>2. QED
    BY SlabInductive, <1>1, PTL

(* slab_uc, nfree and nused count what they say: the ZUS_WARN_ON of        *)
(* _slab_list_empty and of the use counts cannot fire.                     *)
THEOREM SlabCountsExact == Spec => []CountsExact
  <1>1. IInv => CountsExact
    BY DEF IInv, MemInv
  <1>2. QED
    BY SlabInductive, <1>1, PTL

(* The cpu and the class zus_free reads from the page without a lock are   *)
(* those of the page for as long as the free is under way.                 *)
THEOREM SlabCpuNotStale == Spec => []CpuNotStale
  <1>1. IInv => CpuNotStale
    BY DEF IInv
  <1>2. QED
    BY SlabInductive, <1>1, PTL

(* One thread at a time works on a slab.                                   *)
SlabExclusive ==
  \A t, u \in Threads :
    pc[t] \in Locked /\ pc[u] \in Locked /\ Cursor(t) = Cursor(u) => t = u

(* No two threads are between taking and releasing the lock of one slab:   *)
(* what the model does in one step under the lock, no other thread can     *)
(* interleave with.                                                        *)
THEOREM SlabMutualExclusion == Spec => []SlabExclusive
  <1>1. IInv => SlabExclusive
    BY DEF IInv, LockHeld, SlabExclusive
  <1>2. QED
    BY SlabInductive, <1>1, PTL
=============================================================================
