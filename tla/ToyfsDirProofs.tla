--------------------------- MODULE ToyfsDirProofs ---------------------------
(***************************************************************************)
(* Facts about the pages of a directory, for names of any length and pages *)
(* of any size: a walk comes to every dirent and to nothing inside a name, *)
(* a name is found where it was put, and a dirent that comes or goes       *)
(* leaves the others alone.                                                *)
(***************************************************************************)
EXTENDS ToyfsDir, FiniteSetTheorems, SequenceTheorems, NaturalsInduction,
        WellFoundedInduction, TLAPS

SlotVals == {Free, Rest} \cup {Dirent(n, i) : n \in Names, i \in Inos}
PageType == [Slots -> SlotVals]

(* The dirent in slot s has bytes of its name in slot r.                   *)
Covers(pg, s, r) == IsDirent(pg[s]) /\ s < r /\ r < s + Nde[pg[s].n]

(* A page is cut into free slots and dirents with the slots of their names. *)
PageOk(pg) ==
  /\ pg \in PageType
  /\ \A s \in Slots : IsDirent(pg[s]) => s + Nde[pg[s].n] <= NSlots + 1
  /\ \A r \in Slots : pg[r] = Rest <=> \E s \in Slots : Covers(pg, s, r)

(* ... and no two dirents of a directory have one name.                    *)
DirOk(pages) ==
  /\ pages \in Seq(PageType)
  /\ \A p \in DOMAIN pages : PageOk(pages[p])
  /\ \A x \in Places(pages), y \in Places(pages) : At(pages, x).n = At(pages, y).n => x = y
-----------------------------------------------------------------------------
(* A set of numbers has a smallest one.                                    *)
LEMMA SmallestNat ==
  ASSUME NEW T \in SUBSET Nat, T # {}
  PROVE  \E j \in T : \A k \in T : j <= k
  <1> DEFINE R == OpToRel(<, Nat)
  <1>1. IsWellFoundedOn(R, Nat)
    BY NatLessThanWellFounded
  <1> HIDE DEF R
  <1>2. PICK j \in T : \A k \in T : ~(<<k, j>> \in R)
    BY <1>1, WFMin
  <1>3. \A k \in T : ~(k < j)
    BY <1>2 DEF R, OpToRel
  <1>4. QED
    BY <1>3

(* FirstOf is the smallest element, and 0 without one.                     *)
LEMMA FirstOfFacts ==
  ASSUME NEW S \in SUBSET (Nat \ {0})
  PROVE  /\ S = {} => FirstOf(S) = 0
         /\ S # {} => FirstOf(S) \in S /\ FirstOf(S) # 0 /\ \A r \in S : FirstOf(S) <= r
  <1>1. CASE S = {}
    BY <1>1 DEF FirstOf
  <1>2. CASE S # {}
    <2>1. \E s \in S : \A r \in S : s <= r
      BY <1>2, SmallestNat
    <2>2. QED
      BY <1>2, <2>1 DEF FirstOf
  <1>3. QED
    BY <1>1, <1>2

(* The set of a single element has that element as its first.              *)
LEMMA FirstOfOne ==
  ASSUME NEW x \in Nat \ {0}
  PROVE  FirstOf({x}) = x
  BY FirstOfFacts

(* What a slot holds.                                                      *)
LEMMA SlotCases ==
  ASSUME NEW v \in SlotVals
  PROVE  /\ v = Free \/ v = Rest \/ IsDirent(v)
         /\ IsDirent(v) => v # Free /\ v # Rest /\ v.n \in Names /\ v.i \in Inos
                             /\ v = Dirent(v.n, v.i)
         /\ Free # Rest
  BY DEF SlotVals, Free, Rest, Dirent, IsDirent

(* Dirents by their fields.                                                *)
LEMMA DirentFacts ==
  ASSUME NEW n \in Names, NEW i \in Inos
  PROVE  /\ Dirent(n, i) \in SlotVals /\ IsDirent(Dirent(n, i))
         /\ Dirent(n, i).n = n /\ Dirent(n, i).i = i
  BY DEF SlotVals, Dirent, IsDirent

(* Slots without a dirent.                                                 *)
LEMMA EmptyFacts ==
  /\ Free \in SlotVals /\ Rest \in SlotVals /\ ~IsDirent(Free) /\ ~IsDirent(Rest)
  /\ Free # Rest
  BY DEF SlotVals, Free, Rest, IsDirent

(* The slots of a dirent.                                                  *)
LEMMA NdeFacts ==
  /\ NSlots \in Nat /\ NSlots > 0
  /\ \A n \in Names : Nde[n] \in Nat /\ 1 <= Nde[n] /\ Nde[n] <= NSlots
  BY DirAssumption
-----------------------------------------------------------------------------
Walkable(pg, S) == \A s \in S : NextDirent(pg, s) \in Slots => NextDirent(pg, s) \in S

(* A walk over a page comes to all free slots and dirents, and to no slot  *)
(* inside a name.                                                          *)
LEMMA VisitedIs ==
  ASSUME NEW pg, PageOk(pg)
  PROVE  Visited(pg) = {s \in Slots : pg[s] # Rest}
  <1> DEFINE Heads == {s \in Slots : pg[s] # Rest}
  <1>1. \A s \in Slots : pg[s] \in SlotVals
    BY DEF PageOk, PageType
  <1>2. Visited(pg) = {s \in Slots : \A S \in SUBSET Slots :
                                       1 \in S /\ Walkable(pg, S) => s \in S}
    BY DEF Visited, Walkable
  <1>3. \A s \in Slots : IsDirent(pg[s]) => Nde[pg[s].n] \in Nat /\ Nde[pg[s].n] >= 1
    BY <1>1, SlotCases, NdeFacts
  <1>4. 1 \in Heads
    <2>1. 1 \in Slots
      BY NdeFacts DEF Slots
    <2>2. ~\E s \in Slots : Covers(pg, s, 1)
      BY DEF Covers, Slots
    <2>3. QED
      BY <2>1, <2>2 DEF PageOk
  <1>5. Walkable(pg, Heads)
    <2> SUFFICES ASSUME NEW s \in Heads, NextDirent(pg, s) \in Slots,
                        pg[NextDirent(pg, s)] = Rest
                 PROVE  FALSE
      BY DEF Walkable
    <2> DEFINE r == NextDirent(pg, s)
    <2>1. PICK q \in Slots : Covers(pg, q, r)
      BY DEF PageOk
    <2>2. q # s
      BY <2>1, <1>3 DEF Covers, NextDirent, Slots
    <2>3. ~(q < s)
      <3> SUFFICES ASSUME q < s PROVE FALSE
        OBVIOUS
      <3>1. s < r
        BY <1>3 DEF NextDirent, Slots
      <3>2. Covers(pg, q, s)
        BY <2>1, <3>1, <1>3 DEF Covers, Slots
      <3>3. QED
        BY <3>2 DEF PageOk
    <2>4. s < q /\ q < r /\ IsDirent(pg[q])
      BY <2>1, <2>2, <2>3 DEF Covers, Slots
    <2>5. Covers(pg, s, q)
      BY <2>4, <1>3 DEF Covers, NextDirent, Slots
    <2>6. pg[q] = Rest
      BY <2>5 DEF PageOk
    <2>7. QED
      BY <2>4, <2>6, EmptyFacts
  <1>6. Heads \subseteq Visited(pg)
    <2> SUFFICES ASSUME Heads \ Visited(pg) # {} PROVE FALSE
      OBVIOUS
    <2>1. PICK s \in Heads \ Visited(pg) : \A r \in Heads \ Visited(pg) : s <= r
      <3>1. Heads \ Visited(pg) \in SUBSET Nat
        BY NdeFacts DEF Slots
      <3> HIDE DEF Heads
      <3>2. QED
        BY <3>1, SmallestNat
    <2>2. PICK S \in SUBSET Slots : 1 \in S /\ Walkable(pg, S) /\ s \notin S
      BY <1>2, <2>1
    <2>3. s # 1 /\ s - 1 \in Slots
      BY <2>1, <2>2, NdeFacts DEF Slots
    <2>4. \A r \in Heads : r < s => r \in S
      BY <1>2, <2>1, <2>2 DEF Slots
    <2>5. \A r \in Heads : r < s => NextDirent(pg, r) # s
      BY <2>1, <2>2, <2>4 DEF Walkable
    <2>6. ~IsDirent(pg[s - 1]) => pg[s - 1] = Rest
      BY <2>3, <2>5 DEF NextDirent, Slots
    <2>7. pg[s - 1] = Rest
      <3> SUFFICES ASSUME IsDirent(pg[s - 1]) PROVE FALSE
        BY <2>6
      <3>1. s - 1 \in Heads
        BY <2>3, <1>1, SlotCases
      <3>2. Nde[pg[s - 1].n] > 1
        BY <2>5, <3>1, <1>3 DEF NextDirent, Slots
      <3>3. Covers(pg, s - 1, s)
        BY <3>2, <2>3, <1>3 DEF Covers, Slots
      <3>4. QED
        BY <2>3, <3>3, <2>1 DEF PageOk
    <2>8. PICK q \in Slots : Covers(pg, q, s - 1)
      BY <2>3, <2>7 DEF PageOk
    <2>9. ~Covers(pg, q, s)
      BY <2>1 DEF PageOk
    <2>10. q \in Heads /\ q < s /\ NextDirent(pg, q) = s
      BY <2>8, <2>9, <1>1, <1>3, SlotCases DEF Covers, NextDirent, Slots
    <2>11. QED
      BY <2>5, <2>10
  <1>7. Visited(pg) \subseteq Heads
    BY <1>2, <1>4, <1>5
  <1>8. QED
    BY <1>6, <1>7

(* _find_dirent finds the name wherever it is in the page.                 *)
LEMMA FindIs ==
  ASSUME NEW pg, PageOk(pg), NEW n
  PROVE  /\ FindDirent(pg, n) # NoSlot =>
              /\ FindDirent(pg, n) \in Slots
              /\ IsDirent(pg[FindDirent(pg, n)]) /\ pg[FindDirent(pg, n)].n = n
         /\ FindDirent(pg, n) = NoSlot =>
              \A s \in Slots : IsDirent(pg[s]) => pg[s].n # n
  <1> DEFINE Hits == {s \in Visited(pg) : IsDirent(pg[s]) /\ pg[s].n = n}
  <1>1. Hits = {s \in Slots : IsDirent(pg[s]) /\ pg[s].n = n}
    BY VisitedIs, EmptyFacts
  <1>2. Hits \in SUBSET (Nat \ {0})
    BY <1>1, NdeFacts DEF Slots
  <1>3. FindDirent(pg, n) = FirstOf(Hits)
    BY DEF FindDirent
  <1> HIDE DEF Hits
  <1>4. (Hits = {} => FirstOf(Hits) = 0)
          /\ (Hits # {} => FirstOf(Hits) \in Hits /\ FirstOf(Hits) # 0)
    BY <1>2, FirstOfFacts
  <1>5. QED
    BY <1>1, <1>3, <1>4 DEF NoSlot

(* FirstPlace gives a page that has a slot whenever there is one.          *)
LEMMA FirstPlaceIs ==
  ASSUME NEW slot, DOMAIN slot \in SUBSET (Nat \ {0})
  PROVE  /\ FirstPlace(slot) # NoPlace =>
              \E p \in DOMAIN slot : slot[p] # NoSlot /\ FirstPlace(slot) = <<p, slot[p]>>
         /\ FirstPlace(slot) = NoPlace => \A p \in DOMAIN slot : slot[p] = NoSlot
  <1> DEFINE Hits == {q \in DOMAIN slot : slot[q] # NoSlot}
             p == FirstOf(Hits)
  <1>1. FirstPlace(slot) = IF p = 0 THEN NoPlace ELSE <<p, slot[p]>>
    BY DEF FirstPlace
  <1>2. (Hits = {} => p = 0) /\ (Hits # {} => p \in Hits /\ p # 0)
    BY FirstOfFacts
  <1> HIDE DEF p
  <1>3. CASE Hits = {}
    BY <1>1, <1>2, <1>3
  <1>4. CASE Hits # {}
    <2>1. FirstPlace(slot) = <<p, slot[p]>> /\ p \in DOMAIN slot /\ slot[p] # NoSlot /\ p # 0
      BY <1>1, <1>2, <1>4
    <2>2. QED
      BY <2>1 DEF NoPlace
  <1>5. QED
    BY <1>3, <1>4

(* The pages of a sequence.                                                *)
LEMMA PagesDomain ==
  ASSUME NEW T, NEW pages \in Seq(T)
  PROVE  /\ DOMAIN pages = 1 .. Len(pages) /\ Len(pages) \in Nat
         /\ DOMAIN pages \in SUBSET (Nat \ {0})
         /\ \A p \in DOMAIN pages : pages[p] \in T
  OBVIOUS

(* toyfs_lookup_dirent finds a name if and only if a dirent has it.        *)
LEMMA LookupIs ==
  ASSUME NEW pages, DirOk(pages), NEW n
  PROVE  /\ LookupDirent(pages, n) # NoPlace =>
              /\ LookupDirent(pages, n) \in Places(pages)
              /\ At(pages, LookupDirent(pages, n)).n = n
         /\ LookupDirent(pages, n) = NoPlace => \A x \in Places(pages) : At(pages, x).n # n
  <1> DEFINE slot == [p \in DOMAIN pages |-> FindDirent(pages[p], n)]
  <1>1. DOMAIN slot \in SUBSET (Nat \ {0}) /\ DOMAIN slot = DOMAIN pages
    BY PagesDomain DEF DirOk
  <1>2. LookupDirent(pages, n) = FirstPlace(slot)
    BY DEF LookupDirent
  <1>3. \A p \in DOMAIN pages : slot[p] = FindDirent(pages[p], n) /\ PageOk(pages[p])
    BY DEF DirOk
  <1> HIDE DEF slot
  <1>4. /\ FirstPlace(slot) # NoPlace =>
             \E p \in DOMAIN slot : slot[p] # NoSlot /\ FirstPlace(slot) = <<p, slot[p]>>
        /\ FirstPlace(slot) = NoPlace => \A p \in DOMAIN slot : slot[p] = NoSlot
    BY <1>1, FirstPlaceIs
  <1>5. ASSUME FirstPlace(slot) # NoPlace
        PROVE  FirstPlace(slot) \in Places(pages) /\ At(pages, FirstPlace(slot)).n = n
    <2>1. PICK p \in DOMAIN pages : slot[p] # NoSlot /\ FirstPlace(slot) = <<p, slot[p]>>
      BY <1>1, <1>4, <1>5
    <2>2. slot[p] \in Slots /\ IsDirent(pages[p][slot[p]]) /\ pages[p][slot[p]].n = n
      BY <1>3, <2>1, FindIs
    <2>3. At(pages, <<p, slot[p]>>) = pages[p][slot[p]]
      BY DEF At
    <2>4. QED
      BY <2>1, <2>2, <2>3 DEF Places
  <1>6. ASSUME FirstPlace(slot) = NoPlace, NEW x \in Places(pages)
        PROVE  At(pages, x).n # n
    <2>1. x[1] \in DOMAIN pages /\ x[2] \in Slots /\ IsDirent(pages[x[1]][x[2]])
      BY DEF Places, At
    <2>2. FindDirent(pages[x[1]], n) = NoSlot
      BY <1>1, <1>3, <1>4, <1>6, <2>1
    <2>3. QED
      BY <1>3, <2>1, <2>2, FindIs DEF At
  <1>7. QED
    BY <1>2, <1>5, <1>6

(* A name is found at its own dirent.                                      *)
LEMMA LookupFinds ==
  ASSUME NEW pages, DirOk(pages), NEW x \in Places(pages)
  PROVE  LookupDirent(pages, At(pages, x).n) = x
  BY LookupIs DEF DirOk
-----------------------------------------------------------------------------
(* There is room for the name at a place.                                  *)
RoomAt(pg, s, n) ==
  /\ s \in Slots /\ s + Nde[n] <= NSlots + 1
  /\ \A r \in Slots : s <= r /\ r < s + Nde[n] => pg[r] = Free

Room(pages, at, n) ==
  /\ at \in (DOMAIN pages) \X Slots
  /\ RoomAt(pages[at[1]], at[2], n)

(* _count_free_de counts free slots, up to the end of the page.            *)
LEMMA CountFreeIs ==
  ASSUME NEW pg, NEW s \in Slots
  PROVE  /\ CountFree(pg, s) \in Nat /\ s + CountFree(pg, s) <= NSlots + 1
         /\ \A r \in Slots : s <= r /\ r < s + CountFree(pg, s) => pg[r] = Free
  <1> DEFINE Used == {r \in s .. NSlots : pg[r] # Free}
  <1>1. CountFree(pg, s) =
          (IF Used = {} THEN NSlots + 1 ELSE CHOOSE r \in Used : \A q \in Used : r <= q) - s
    BY DEF CountFree
  <1>2. Used \in SUBSET Nat /\ s \in Nat /\ NSlots \in Nat /\ s <= NSlots
    BY NdeFacts DEF Slots
  <1>3. CASE Used = {}
    <2>1. CountFree(pg, s) = (NSlots + 1) - s
      BY <1>1, <1>3
    <2>2. QED
      BY <1>2, <1>3, <2>1 DEF Slots
  <1>4. CASE Used # {}
    <2>1. \E r \in Used : \A q \in Used : r <= q
      <3> HIDE DEF Used
      <3>1. QED
        BY <1>2, <1>4, SmallestNat
    <2>2. PICK r \in Used : CountFree(pg, s) = r - s /\ \A q \in Used : r <= q
      BY <1>1, <1>4, <2>1
    <2>3. QED
      BY <1>2, <2>2 DEF Slots
  <1>5. QED
    BY <1>3, <1>4

(* _search_free finds only slots with room for the name.                   *)
LEMMA SearchIs ==
  ASSUME NEW pg, PageOk(pg), NEW n \in Names, SearchFree(pg, n) # NoSlot
  PROVE  RoomAt(pg, SearchFree(pg, n), n)
  <1> DEFINE Hits == {s \in Visited(pg) : CountFree(pg, s) >= Nde[n]}
  <1>1. Hits \subseteq Slots
    BY VisitedIs
  <1>2. Hits \in SUBSET (Nat \ {0})
    BY <1>1, NdeFacts DEF Slots
  <1>3. SearchFree(pg, n) = FirstOf(Hits)
    BY DEF SearchFree
  <1>4. FirstOf(Hits) \in Hits
    <2> HIDE DEF Hits
    <2>1. QED
      BY <1>2, <1>3, FirstOfFacts DEF NoSlot
  <1>5. PICK s \in Hits : s = SearchFree(pg, n)
    BY <1>3, <1>4
  <1>6. s \in Slots /\ CountFree(pg, s) >= Nde[n]
    BY <1>1
  <1>7. /\ CountFree(pg, s) \in Nat /\ s + CountFree(pg, s) <= NSlots + 1
        /\ \A r \in Slots : s <= r /\ r < s + CountFree(pg, s) => pg[r] = Free
    BY <1>6, CountFreeIs
  <1>8. RoomAt(pg, s, n)
    BY <1>6, <1>7, NdeFacts DEF RoomAt, Slots
  <1>9. QED
    BY <1>5, <1>8

(* _acquire_dirent finds only places with room for the name.               *)
LEMMA AcquireIs ==
  ASSUME NEW pages, DirOk(pages), NEW n \in Names, AcquireDirent(pages, n) # NoPlace
  PROVE  Room(pages, AcquireDirent(pages, n), n)
  <1> DEFINE slot == [p \in DOMAIN pages |-> SearchFree(pages[p], n)]
  <1>1. DOMAIN slot \in SUBSET (Nat \ {0}) /\ DOMAIN slot = DOMAIN pages
    BY PagesDomain DEF DirOk
  <1>2. AcquireDirent(pages, n) = FirstPlace(slot)
    BY DEF AcquireDirent
  <1>3. \A p \in DOMAIN pages : slot[p] = SearchFree(pages[p], n) /\ PageOk(pages[p])
    BY DEF DirOk
  <1> HIDE DEF slot
  <1>4. PICK p \in DOMAIN slot : slot[p] # NoSlot /\ FirstPlace(slot) = <<p, slot[p]>>
    BY <1>1, <1>2, FirstPlaceIs
  <1>5. RoomAt(pages[p], slot[p], n)
    BY <1>1, <1>3, <1>4, SearchIs
  <1>6. QED
    BY <1>1, <1>2, <1>4, <1>5 DEF Room, RoomAt

(* A new page has room for any name.                                       *)
LEMMA EmptyPageIs ==
  /\ PageOk(EmptyPage)
  /\ \A s \in Slots : ~IsDirent(EmptyPage[s])
  /\ \A n \in Names : RoomAt(EmptyPage, 1, n)
  <1>1. \A s \in Slots : EmptyPage[s] = Free
    BY DEF EmptyPage
  <1>2. EmptyPage \in PageType
    BY EmptyFacts DEF EmptyPage, PageType
  <1>3. PageOk(EmptyPage)
    BY <1>1, <1>2, EmptyFacts DEF PageOk, Covers
  <1>4. \A n \in Names : RoomAt(EmptyPage, 1, n)
    BY <1>1, NdeFacts DEF RoomAt, Slots
  <1>5. QED
    BY <1>1, <1>3, <1>4, EmptyFacts
-----------------------------------------------------------------------------
SetPage(pg, s, n, i) ==
  [r \in Slots |-> IF r = s THEN Dirent(n, i)
                   ELSE IF r \in s + 1 .. s + Nde[n] - 1 THEN Rest ELSE pg[r]]

ResetPage(pg, s) ==
  [r \in Slots |-> IF r \in s .. s + Nde[pg[s].n] - 1 THEN Free ELSE pg[r]]

(* _set_dirent on one page.                                                *)
LEMMA SetPageIs ==
  ASSUME NEW pg, PageOk(pg), NEW s, NEW n \in Names, NEW i \in Inos, RoomAt(pg, s, n)
  PROVE  /\ PageOk(SetPage(pg, s, n, i))
         /\ SetPage(pg, s, n, i)[s] = Dirent(n, i)
         /\ ~IsDirent(pg[s])
         /\ \A r \in Slots \ {s} : /\ IsDirent(SetPage(pg, s, n, i)[r]) <=> IsDirent(pg[r])
                                   /\ IsDirent(pg[r]) => SetPage(pg, s, n, i)[r] = pg[r]
  <1> DEFINE new == SetPage(pg, s, n, i)
             In(r) == s < r /\ r < s + Nde[n]
  <1>1. /\ s \in Nat /\ s \in Slots /\ Nde[n] \in Nat /\ 1 <= Nde[n] /\ s + Nde[n] <= NSlots + 1
        /\ NSlots \in Nat /\ \A r \in Slots : r \in Nat
        /\ \A r \in Slots : In(r) \/ r = s => pg[r] = Free
    BY NdeFacts DEF RoomAt, Slots
  <1>2. /\ new[s] = Dirent(n, i)
        /\ \A r \in Slots : In(r) => new[r] = Rest
        /\ \A r \in Slots : r # s /\ ~In(r) => new[r] = pg[r]
        /\ new \in PageType
    <2>1. Rest \in SlotVals /\ Dirent(n, i) \in SlotVals /\ \A r \in Slots : pg[r] \in SlotVals
      BY EmptyFacts, DirentFacts DEF PageOk, PageType
    <2>2. QED
      BY <1>1, <2>1 DEF SetPage, PageType
  <1>3. IsDirent(Dirent(n, i)) /\ Dirent(n, i).n = n /\ ~IsDirent(Free) /\ ~IsDirent(Rest)
          /\ Free # Rest
        /\ Dirent(n, i) # Rest
    BY DirentFacts, EmptyFacts
  <1> HIDE DEF new
  <1>4. \A r \in Slots \ {s} : /\ IsDirent(new[r]) <=> IsDirent(pg[r])
                               /\ IsDirent(pg[r]) => new[r] = pg[r]
    BY <1>1, <1>2, <1>3
  <1>5. \A r \in Slots : IsDirent(new[r]) => r + Nde[new[r].n] <= NSlots + 1
    BY <1>1, <1>2, <1>3, <1>4 DEF PageOk
  <1>6. ASSUME NEW r \in Slots
        PROVE  new[r] = Rest <=> \E q \in Slots : Covers(new, q, r)
    <2>1. \A q \in Slots : Covers(new, q, r) <=> (q = s /\ In(r)) \/ (q # s /\ Covers(pg, q, r))
      BY <1>1, <1>2, <1>3, <1>4 DEF Covers
    <2>2. \A q \in Slots : Covers(pg, q, r) => q # s
      BY <1>1, <1>3 DEF Covers
    <2>3. pg[r] = Rest <=> \E q \in Slots : Covers(pg, q, r)
      BY DEF PageOk
    <2>4. new[r] = Rest <=> In(r) \/ pg[r] = Rest
      BY <1>1, <1>2, <1>3
    <2>5. QED
      BY <1>1, <2>1, <2>2, <2>3, <2>4
  <1>7. PageOk(new)
    BY <1>2, <1>5, <1>6 DEF PageOk
  <1>8. QED
    BY <1>1, <1>2, <1>3, <1>4, <1>7 DEF new

(* _reset_dirent on one page.                                              *)
LEMMA ResetPageIs ==
  ASSUME NEW pg, PageOk(pg), NEW s \in Slots, IsDirent(pg[s])
  PROVE  /\ PageOk(ResetPage(pg, s))
         /\ ~IsDirent(ResetPage(pg, s)[s])
         /\ \A r \in Slots \ {s} : /\ IsDirent(ResetPage(pg, s)[r]) <=> IsDirent(pg[r])
                                   /\ IsDirent(pg[r]) => ResetPage(pg, s)[r] = pg[r]
  <1> DEFINE new == ResetPage(pg, s)
             w == Nde[pg[s].n]
             In(r) == s <= r /\ r < s + w
  <1>1. /\ w \in Nat /\ 1 <= w /\ s + w <= NSlots + 1
        /\ NSlots \in Nat /\ s \in Nat /\ \A r \in Slots : r \in Nat
    <2>1. pg[s] \in SlotVals
      BY DEF PageOk, PageType
    <2>2. pg[s].n \in Names
      BY <2>1, SlotCases
    <2>3. QED
      BY <2>2, NdeFacts DEF PageOk, Slots
  <1>2. /\ \A r \in Slots : In(r) => new[r] = Free
        /\ \A r \in Slots : ~In(r) => new[r] = pg[r]
        /\ new \in PageType
    <2>1. Free \in SlotVals /\ \A r \in Slots : pg[r] \in SlotVals
      BY EmptyFacts DEF PageOk, PageType
    <2>2. QED
      BY <1>1, <2>1 DEF ResetPage, PageType
  <1>3. \A r \in Slots : In(r) /\ r # s => pg[r] = Rest
    <2> SUFFICES ASSUME NEW r \in Slots, In(r), r # s PROVE pg[r] = Rest
      OBVIOUS
    <2>1. Covers(pg, s, r)
      BY <1>1 DEF Covers
    <2>2. QED
      BY <2>1 DEF PageOk
  <1>4. ~IsDirent(Free) /\ ~IsDirent(Rest) /\ Free # Rest /\ pg[s] # Rest
    BY EmptyFacts
  <1> HIDE DEF new
  <1>5. In(s)
    BY <1>1
  <1>6. \A r \in Slots : IsDirent(new[r]) => r # s /\ ~In(r) /\ new[r] = pg[r]
    BY <1>2, <1>4, <1>5
  <1>7. \A r \in Slots \ {s} : IsDirent(pg[r]) => ~In(r) /\ new[r] = pg[r]
    BY <1>2, <1>3, <1>4
  <1>8. \A r \in Slots : IsDirent(new[r]) => r + Nde[new[r].n] <= NSlots + 1
    BY <1>6 DEF PageOk
  <1>9. ASSUME NEW r \in Slots
        PROVE  new[r] = Rest <=> \E q \in Slots : Covers(new, q, r)
    <2>1. new[r] = Rest <=> ~In(r) /\ pg[r] = Rest
      BY <1>2, <1>4
    <2>2. ASSUME new[r] = Rest PROVE \E q \in Slots : Covers(new, q, r)
      <3>1. PICK q \in Slots : Covers(pg, q, r)
        BY <2>1, <2>2 DEF PageOk
      <3>2. q # s
        BY <1>1, <2>1, <2>2, <3>1 DEF Covers
      <3>3. Covers(new, q, r)
        BY <1>7, <3>1, <3>2 DEF Covers
      <3>4. QED
        BY <3>3
    <2>3. ASSUME NEW q \in Slots, Covers(new, q, r) PROVE new[r] = Rest
      <3>1. Covers(pg, q, r) /\ IsDirent(pg[q]) /\ q # s /\ ~In(q)
        BY <1>6, <2>3 DEF Covers
      <3>2. pg[r] = Rest
        BY <3>1 DEF PageOk
      <3>3. ~In(r)
        <4> SUFFICES ASSUME In(r) PROVE FALSE
          OBVIOUS
        <4>1. r # s /\ q < s
          BY <1>1, <1>4, <3>1, <3>2 DEF Covers
        <4>2. Covers(pg, q, s)
          <5>1. pg[q].n \in Names
            BY <3>1, SlotCases DEF PageOk, PageType
          <5>2. Nde[pg[q].n] \in Nat
            BY <5>1, NdeFacts
          <5>3. QED
            BY <1>1, <3>1, <4>1, <5>2 DEF Covers
        <4>3. QED
          BY <1>4, <4>2 DEF PageOk
      <3>4. QED
        BY <2>1, <3>2, <3>3
    <2>4. QED
      BY <2>2, <2>3
  <1>10. PageOk(new)
    BY <1>2, <1>8, <1>9 DEF PageOk
  <1>11. QED
    BY <1>4, <1>6, <1>7, <1>10 DEF new
-----------------------------------------------------------------------------
(* The places of a directory.                                              *)
LEMMA PlacesFacts ==
  ASSUME NEW pages, DirOk(pages)
  PROVE  /\ DOMAIN pages = 1 .. Len(pages) /\ Len(pages) \in Nat
         /\ IsFiniteSet(Places(pages)) /\ Cardinality(Places(pages)) \in Nat
         /\ \A x : x \in Places(pages) <=>
              \E p \in DOMAIN pages, s \in Slots : x = <<p, s>> /\ IsDirent(pages[p][s])
         /\ \A x \in Places(pages) :
              /\ x[1] \in DOMAIN pages /\ x[2] \in Slots /\ x = <<x[1], x[2]>>
              /\ IsDirent(At(pages, x))
              /\ At(pages, x) = Dirent(At(pages, x).n, At(pages, x).i)
              /\ At(pages, x).n \in Names /\ At(pages, x).i \in Inos
  <1>1. DOMAIN pages = 1 .. Len(pages) /\ Len(pages) \in Nat
    BY PagesDomain DEF DirOk
  <1>2. IsFiniteSet((DOMAIN pages) \X Slots)
    <2>1. IsFiniteSet(1 .. Len(pages)) /\ IsFiniteSet(1 .. NSlots)
      BY <1>1, NdeFacts, FS_Interval
    <2>2. QED
      BY <1>1, <2>1, FS_Product DEF Slots
  <1>3. Places(pages) \in SUBSET ((DOMAIN pages) \X Slots)
    BY DEF Places
  <1>4. IsFiniteSet(Places(pages)) /\ Cardinality(Places(pages)) \in Nat
    BY <1>2, <1>3, FS_Subset, FS_CardinalityType
  <1>5. \A x : x \in Places(pages) <=>
              \E p \in DOMAIN pages, s \in Slots : x = <<p, s>> /\ IsDirent(pages[p][s])
    BY DEF Places, At
  <1>6. ASSUME NEW x \in Places(pages)
        PROVE  /\ x[1] \in DOMAIN pages /\ x[2] \in Slots /\ x = <<x[1], x[2]>>
               /\ IsDirent(At(pages, x))
               /\ At(pages, x) = Dirent(At(pages, x).n, At(pages, x).i)
               /\ At(pages, x).n \in Names /\ At(pages, x).i \in Inos
    <2>1. x[1] \in DOMAIN pages /\ x[2] \in Slots /\ x = <<x[1], x[2]>> /\ IsDirent(At(pages, x))
      BY DEF Places
    <2>2. At(pages, x) \in SlotVals
      BY <2>1 DEF At, DirOk, PageOk, PageType
    <2>3. QED
      BY <2>1, <2>2, SlotCases
  <1>7. QED
    BY <1>1, <1>4, <1>5, <1>6

(* _set_dirent adds one dirent and leaves the others where they are.       *)
LEMMA SetIs ==
  ASSUME NEW pages, DirOk(pages), NEW at, NEW n \in Names, NEW i \in Inos,
         Room(pages, at, n), \A x \in Places(pages) : At(pages, x).n # n
  PROVE  /\ DirOk(SetDirent(pages, at, n, i))
         /\ Len(SetDirent(pages, at, n, i)) = Len(pages)
         /\ at \notin Places(pages)
         /\ Places(SetDirent(pages, at, n, i)) = Places(pages) \cup {at}
         /\ At(SetDirent(pages, at, n, i), at) = Dirent(n, i)
         /\ \A x \in Places(pages) : At(SetDirent(pages, at, n, i), x) = At(pages, x)
  <1>1. PICK p \in DOMAIN pages, s \in Slots : at = <<p, s>>
    BY DEF Room
  <1> DEFINE pg == SetPage(pages[p], s, n, i)
             new == [pages EXCEPT ![p] = pg]
  <1>2. SetDirent(pages, at, n, i) = new
    BY <1>1 DEF SetDirent, SetPage
  <1>3. /\ DOMAIN pages = 1 .. Len(pages) /\ Len(pages) \in Nat
        /\ pages \in Seq(PageType) /\ \A q \in DOMAIN pages : PageOk(pages[q])
    BY PlacesFacts DEF DirOk
  <1>4. RoomAt(pages[p], s, n)
    BY <1>1 DEF Room
  <1>5. /\ PageOk(pg) /\ pg[s] = Dirent(n, i) /\ ~IsDirent(pages[p][s])
        /\ \A r \in Slots \ {s} : /\ IsDirent(pg[r]) <=> IsDirent(pages[p][r])
                                  /\ IsDirent(pages[p][r]) => pg[r] = pages[p][r]
    BY <1>3, <1>4, SetPageIs
  <1> HIDE DEF pg
  <1>6. new \in Seq(PageType) /\ Len(new) = Len(pages) /\ DOMAIN new = DOMAIN pages
        /\ \A q \in DOMAIN pages : new[q] = IF q = p THEN pg ELSE pages[q]
    <2>1. pg \in PageType
      BY <1>5 DEF PageOk
    <2>2. QED
      BY <1>3, <2>1, ExceptSeq
  <1> HIDE DEF new
  <1>7. IsDirent(Dirent(n, i)) /\ Dirent(n, i).n = n
    BY DirentFacts
  <1>8. \A q \in DOMAIN pages, r \in Slots :
          /\ IsDirent(new[q][r]) <=> (q = p /\ r = s) \/ IsDirent(pages[q][r])
          /\ IsDirent(pages[q][r]) => new[q][r] = pages[q][r]
    BY <1>5, <1>6, <1>7
  <1>9. at \notin Places(pages) /\ Places(new) = Places(pages) \cup {at}
    <2>1. at \notin Places(pages)
      BY <1>1, <1>5 DEF Places, At
    <2>2. \A q \in DOMAIN pages, r \in Slots :
            <<q, r>> \in Places(new) <=> <<q, r>> = at \/ <<q, r>> \in Places(pages)
      BY <1>1, <1>6, <1>8 DEF Places, At
    <2>3. Places(new) \subseteq (DOMAIN pages) \X Slots
            /\ Places(pages) \subseteq (DOMAIN pages) \X Slots
          /\ at \in (DOMAIN pages) \X Slots
      BY <1>1, <1>6 DEF Places
    <2>4. QED
      BY <2>1, <2>2, <2>3
  <1>10. At(new, at) = Dirent(n, i) /\ \A x \in Places(pages) : At(new, x) = At(pages, x)
    <2>1. At(new, at) = Dirent(n, i)
      BY <1>1, <1>5, <1>6 DEF At
    <2>2. QED
      BY <1>8, <2>1 DEF Places, At
  <1>11. DirOk(new)
    <2>1. \A q \in DOMAIN new : PageOk(new[q])
      BY <1>3, <1>5, <1>6
    <2>2. \A x \in Places(new), y \in Places(new) : At(new, x).n = At(new, y).n => x = y
      BY <1>7, <1>9, <1>10 DEF DirOk
    <2>3. QED
      BY <1>6, <2>1, <2>2 DEF DirOk
  <1>12. QED
    BY <1>2, <1>6, <1>9, <1>10, <1>11

(* _reset_dirent takes one dirent away and leaves the others.              *)
LEMMA ResetIs ==
  ASSUME NEW pages, DirOk(pages), NEW at \in Places(pages)
  PROVE  /\ DirOk(ResetDirent(pages, at))
         /\ Len(ResetDirent(pages, at)) = Len(pages)
         /\ Places(ResetDirent(pages, at)) = Places(pages) \ {at}
         /\ \A x \in Places(pages) \ {at} : At(ResetDirent(pages, at), x) = At(pages, x)
  <1>1. PICK p \in DOMAIN pages, s \in Slots : at = <<p, s>> /\ IsDirent(pages[p][s])
    BY PlacesFacts
  <1> DEFINE pg == ResetPage(pages[p], s)
             new == [pages EXCEPT ![p] = pg]
  <1>2. ResetDirent(pages, at) = new
    BY <1>1 DEF ResetDirent, ResetPage
  <1>3. /\ DOMAIN pages = 1 .. Len(pages) /\ Len(pages) \in Nat
        /\ pages \in Seq(PageType) /\ \A q \in DOMAIN pages : PageOk(pages[q])
    BY PlacesFacts DEF DirOk
  <1>5. /\ PageOk(pg) /\ ~IsDirent(pg[s])
        /\ \A r \in Slots \ {s} : /\ IsDirent(pg[r]) <=> IsDirent(pages[p][r])
                                  /\ IsDirent(pages[p][r]) => pg[r] = pages[p][r]
    BY <1>1, <1>3, ResetPageIs
  <1> HIDE DEF pg
  <1>6. new \in Seq(PageType) /\ Len(new) = Len(pages) /\ DOMAIN new = DOMAIN pages
        /\ \A q \in DOMAIN pages : new[q] = IF q = p THEN pg ELSE pages[q]
    <2>1. pg \in PageType
      BY <1>5 DEF PageOk
    <2>2. QED
      BY <1>3, <2>1, ExceptSeq
  <1> HIDE DEF new
  <1>8. \A q \in DOMAIN pages, r \in Slots :
          /\ IsDirent(new[q][r]) <=> ~(q = p /\ r = s) /\ IsDirent(pages[q][r])
          /\ ~(q = p /\ r = s) /\ IsDirent(pages[q][r]) => new[q][r] = pages[q][r]
    BY <1>5, <1>6
  <1>9. Places(new) = Places(pages) \ {at}
    <2>2. \A q \in DOMAIN pages, r \in Slots :
            <<q, r>> \in Places(new) <=> <<q, r>> # at /\ <<q, r>> \in Places(pages)
      BY <1>1, <1>6, <1>8 DEF Places, At
    <2>3. Places(new) \subseteq (DOMAIN pages) \X Slots
            /\ Places(pages) \subseteq (DOMAIN pages) \X Slots
      BY <1>6 DEF Places
    <2>4. QED
      BY <2>2, <2>3
  <1>10. \A x \in Places(pages) \ {at} : At(new, x) = At(pages, x)
    BY <1>1, <1>8 DEF Places, At
  <1>11. DirOk(new)
    <2>1. \A q \in DOMAIN new : PageOk(new[q])
      BY <1>3, <1>5, <1>6
    <2>2. \A x \in Places(new), y \in Places(new) : At(new, x).n = At(new, y).n => x = y
      BY <1>9, <1>10 DEF DirOk
    <2>3. QED
      BY <1>6, <2>1, <2>2 DEF DirOk
  <1>12. QED
    BY <1>2, <1>6, <1>9, <1>10, <1>11

(* A page is added at the end.                                             *)
LEMMA AppendIs ==
  ASSUME NEW pages, DirOk(pages)
  PROVE  /\ DirOk(Append(pages, EmptyPage))
         /\ Len(Append(pages, EmptyPage)) = Len(pages) + 1
         /\ Places(Append(pages, EmptyPage)) = Places(pages)
         /\ \A x \in Places(pages) : At(Append(pages, EmptyPage), x) = At(pages, x)
         /\ \A n \in Names : Room(Append(pages, EmptyPage), <<Len(pages) + 1, 1>>, n)
  <1> DEFINE new == Append(pages, EmptyPage)
             p == Len(pages) + 1
  <1>1. /\ DOMAIN pages = 1 .. Len(pages) /\ Len(pages) \in Nat
        /\ pages \in Seq(PageType) /\ \A q \in DOMAIN pages : PageOk(pages[q])
    BY PlacesFacts DEF DirOk
  <1>2. /\ PageOk(EmptyPage) /\ \A s \in Slots : ~IsDirent(EmptyPage[s])
        /\ \A n \in Names : RoomAt(EmptyPage, 1, n)
    BY EmptyPageIs
  <1>3. /\ new \in Seq(PageType) /\ Len(new) = Len(pages) + 1
        /\ \A q \in 1 .. Len(pages) : new[q] = pages[q]
        /\ new[p] = EmptyPage
    BY <1>1, <1>2, AppendProperties DEF PageOk
  <1>4. DOMAIN new = DOMAIN pages \cup {p} /\ p \notin DOMAIN pages
    BY <1>1, <1>3
  <1> HIDE DEF new, p
  <1>5. Places(new) = Places(pages)
    <2>1. \A q \in DOMAIN new, r \in Slots : <<q, r>> \in Places(new) <=> <<q, r>> \in Places(pages)
      BY <1>1, <1>2, <1>3, <1>4 DEF Places, At
    <2>2. Places(new) \subseteq (DOMAIN new) \X Slots
            /\ Places(pages) \subseteq (DOMAIN new) \X Slots
      BY <1>4 DEF Places
    <2>3. QED
      BY <2>1, <2>2
  <1>6. \A x \in Places(pages) : At(new, x) = At(pages, x)
    BY <1>1, <1>3 DEF Places, At
  <1>7. DirOk(new)
    <2>1. \A q \in DOMAIN new : PageOk(new[q])
      BY <1>1, <1>2, <1>3, <1>4
    <2>2. \A x \in Places(new), y \in Places(new) : At(new, x).n = At(new, y).n => x = y
      BY <1>5, <1>6 DEF DirOk
    <2>3. QED
      BY <1>3, <2>1, <2>2 DEF DirOk
  <1>8. \A n \in Names : Room(new, <<p, 1>>, n)
    BY <1>2, <1>3, <1>4, NdeFacts DEF Room, Slots
  <1>9. QED
    BY <1>3, <1>5, <1>6, <1>7, <1>8 DEF new, p

(* A directory without pages.                                              *)
LEMMA NoPagesIs ==
  /\ DirOk(<<>>) /\ Places(<<>>) = {} /\ <<>> \in Seq(PageType)
  <1>1. <<>> \in Seq(PageType) /\ DOMAIN <<>> = {}
    OBVIOUS
  <1>2. Places(<<>>) = {}
    BY <1>1 DEF Places
  <1>3. QED
    BY <1>1, <1>2 DEF DirOk
-----------------------------------------------------------------------------
(* d_off tells the places of a directory apart, in the order of the walk.  *)
LEMMA ScaleLess ==
  ASSUME NEW a \in Nat, NEW b \in Nat, NEW n \in Nat, a < b
  PROVE  a * n + n <= b * n
  <1>1. b = (a + 1) + (b - (a + 1)) /\ b - (a + 1) \in Nat
    OBVIOUS
  <1>2. PICK c \in Nat : b = (a + 1) + c
    BY <1>1
  <1>3. ((a + 1) + c) * n = (a * n + n) + c * n
    OBVIOUS
  <1>4. c * n \in Nat /\ a * n \in Nat
    OBVIOUS
  <1>5. QED
    BY <1>2, <1>3, <1>4

(* Offsets order the places of a directory and tell them apart.            *)
LEMMA OffIs ==
  ASSUME NEW pages, DirOk(pages), NEW x \in Places(pages)
  PROVE  /\ OffOf(x) \in Nat /\ 2 <= OffOf(x) /\ OffOf(x) <= Len(pages) * NSlots + 1
         /\ \A y \in Places(pages) : Before(x, y) <=> OffOf(x) <= OffOf(y)
         /\ \A y \in Places(pages) : OffOf(x) = OffOf(y) => x = y
  <1> DEFINE N == NSlots
  <1>1. N \in Nat /\ N > 0 /\ Len(pages) \in Nat
    BY NdeFacts, PlacesFacts
  <1>2. \A y \in Places(pages) : /\ y[1] \in Nat /\ 1 <= y[1] /\ y[1] <= Len(pages)
                                 /\ y[2] \in Nat /\ 1 <= y[2] /\ y[2] <= N
                                 /\ y = <<y[1], y[2]>>
    BY <1>1, PlacesFacts DEF Slots
  <1>3. ASSUME NEW p \in Nat, NEW s \in Nat, 1 <= p, 1 <= s, s <= N
        PROVE  /\ OffOf(<<p, s>>) = (p - 1) * N + (s + 1) /\ (p - 1) * N \in Nat
               /\ OffOf(<<p, s>>) \in Nat /\ 2 <= OffOf(<<p, s>>)
    <2>1. (p - 1) * N \in Nat
      BY <1>1, <1>3
    <2>2. PICK k \in Nat : k = (p - 1) * N
      BY <2>1
    <2>3. OffOf(<<p, s>>) = 2 + k + s - 1
      BY <2>2 DEF OffOf
    <2>4. QED
      BY <1>3, <2>2, <2>3
  <1>4. ASSUME NEW p \in Nat, NEW s \in Nat, 1 <= p, 1 <= s, s <= N,
               NEW q \in Nat, NEW r \in Nat, 1 <= q, 1 <= r, r <= N, p < q
        PROVE  OffOf(<<p, s>>) < OffOf(<<q, r>>)
    <2>1. p - 1 \in Nat /\ q - 1 \in Nat /\ p - 1 < q - 1
      BY <1>4
    <2>2. (p - 1) * N + N <= (q - 1) * N
      BY <1>1, <2>1, ScaleLess
    <2>3. PICK a \in Nat, b \in Nat : a = (p - 1) * N /\ b = (q - 1) * N
      BY <1>3, <1>4
    <2>4. OffOf(<<p, s>>) = a + (s + 1) /\ OffOf(<<q, r>>) = b + (r + 1)
      BY <1>3, <1>4, <2>3
    <2>5. QED
      BY <1>1, <1>4, <2>2, <2>3, <2>4
  <1> HIDE DEF N
  <1>5. PICK p \in Nat, s \in Nat : /\ x = <<p, s>> /\ 1 <= p /\ p <= Len(pages)
                                    /\ 1 <= s /\ s <= N
    BY <1>2
  <1>6. OffOf(x) \in Nat /\ 2 <= OffOf(x)
    BY <1>3, <1>5
  <1>7. OffOf(x) <= Len(pages) * N + 1
    <2>1. p - 1 \in Nat /\ p - 1 < Len(pages)
      BY <1>1, <1>5
    <2>2. (p - 1) * N + N <= Len(pages) * N
      BY <1>1, <2>1, ScaleLess
    <2>3. PICK a \in Nat : a = (p - 1) * N
      BY <1>3, <1>5
    <2>4. PICK b \in Nat : b = Len(pages) * N
      BY <1>1
    <2>5. OffOf(x) = a + (s + 1)
      BY <1>3, <1>5, <2>3
    <2>6. QED
      BY <1>1, <1>5, <2>2, <2>3, <2>4, <2>5
  <1>8. ASSUME NEW y \in Places(pages)
        PROVE  /\ Before(x, y) <=> OffOf(x) <= OffOf(y)
               /\ OffOf(x) = OffOf(y) => x = y
    <2>1. PICK q \in Nat, r \in Nat : y = <<q, r>> /\ 1 <= q /\ 1 <= r /\ r <= N
      BY <1>2
    <2>2. OffOf(y) \in Nat
      BY <1>3, <2>1
    <2>3. Before(x, y) <=> p < q \/ (p = q /\ s <= r)
      BY <1>5, <2>1 DEF Before
    <2>4. CASE p < q
      <3>1. OffOf(x) < OffOf(y)
        BY <1>4, <1>5, <2>1, <2>4
      <3>2. QED
        BY <1>6, <2>2, <2>3, <2>4, <3>1
    <2>5. CASE q < p
      <3>1. OffOf(y) < OffOf(x)
        BY <1>4, <1>5, <2>1, <2>5
      <3>2. QED
        BY <1>6, <2>2, <2>3, <2>5, <3>1
    <2>6. CASE p = q
      <3>1. PICK a \in Nat : a = (p - 1) * N
        BY <1>3, <1>5
      <3>2. OffOf(x) = a + (s + 1) /\ OffOf(y) = a + (r + 1)
        BY <1>3, <1>5, <2>1, <2>6, <3>1
      <3>3. QED
        BY <1>5, <2>1, <2>3, <2>6, <3>2
    <2>7. QED
      BY <2>4, <2>5, <2>6
  <1>9. QED
    BY <1>6, <1>7, <1>8 DEF N

(* A walk from a position on comes to every dirent from there on.          *)
LEMMA DueIs ==
  ASSUME NEW pages, DirOk(pages), NEW pos
  PROVE  Due(pages, pos) = {x \in Places(pages) : OffOf(x) >= pos}
  <1>1. ASSUME NEW x \in Places(pages) PROVE x[2] \in Visited(pages[x[1]])
    <2>1. x[1] \in DOMAIN pages /\ x[2] \in Slots /\ IsDirent(pages[x[1]][x[2]])
      BY PlacesFacts DEF At
    <2>2. PageOk(pages[x[1]])
      BY <2>1 DEF DirOk
    <2>3. pages[x[1]][x[2]] # Rest
      BY <2>1, EmptyFacts
    <2>4. QED
      BY <2>1, <2>2, <2>3, VisitedIs
  <1> DEFINE Walk(p) == {<<p, s>> : s \in Visited(pages[p])}
             Walks == UNION {Walk(p) : p \in DOMAIN pages}
  <1>2. Due(pages, pos) = {x \in Walks : IsDirent(At(pages, x)) /\ OffOf(x) >= pos}
    BY DEF Due
  <1>3. ASSUME NEW x \in Walks PROVE x \in (DOMAIN pages) \X Slots
    BY DEF Visited
  <1>4. ASSUME NEW x \in Places(pages) PROVE x \in Walks /\ IsDirent(At(pages, x))
    <2>1. x \in (DOMAIN pages) \X Slots /\ IsDirent(At(pages, x))
      BY DEF Places
    <2>2. x = <<x[1], x[2]>> /\ x[1] \in DOMAIN pages
      BY <2>1
    <2>3. x \in Walk(x[1])
      BY <1>1, <2>2
    <2>4. QED
      BY <2>1, <2>2, <2>3
  <1>5. \A x : x \in Walks /\ IsDirent(At(pages, x)) <=> x \in Places(pages)
    BY <1>3, <1>4 DEF Places
  <1> HIDE DEF Walks
  <1>6. QED
    BY <1>2, <1>5

(* Of some places of a directory there is a last one.                      *)
LEMMA LastIs ==
  ASSUME NEW pages, DirOk(pages), NEW S \in SUBSET Places(pages), S # {}
  PROVE  \E x \in S : \A y \in S : OffOf(y) <= OffOf(x)
  <1>1. PICK b \in Nat : b = Len(pages) * NSlots + 1
    BY NdeFacts, PlacesFacts
  <1>2. \A x \in S : OffOf(x) \in Nat /\ OffOf(x) <= b
    BY <1>1, OffIs
  <1> DEFINE T == {b - OffOf(x) : x \in S}
  <1>3. T \in SUBSET Nat /\ T # {}
    BY <1>2
  <1>4. PICK j \in T : \A k \in T : j <= k
    BY <1>3, SmallestNat
  <1>5. PICK x \in S : j = b - OffOf(x)
    BY <1>4
  <1>6. \A y \in S : b - OffOf(x) <= b - OffOf(y)
    BY <1>4, <1>5
  <1>7. \A y \in S : OffOf(y) <= OffOf(x)
    BY <1>2, <1>6
  <1>8. QED
    BY <1>7

(* The first entries of a walk, as many as there is room for.              *)
Front(due, room) == {x \in due : Cardinality({y \in due : Before(y, x)}) <= room}

(* With an entry, all the earlier ones are among them.                     *)
LEMMA FrontIs ==
  ASSUME NEW pages, DirOk(pages), NEW due \in SUBSET Places(pages), NEW room \in Int,
         NEW x \in Front(due, room), NEW y \in due, OffOf(y) <= OffOf(x)
  PROVE  y \in Front(due, room)
  <1> DEFINE U(z) == {w \in due : Before(w, z)}
  <1>1. x \in due /\ Cardinality(U(x)) <= room
    BY DEF Front
  <1>2. IsFiniteSet(due)
    BY PlacesFacts, FS_Subset
  <1>3. U(x) = {w \in due : OffOf(w) <= OffOf(x)} /\ U(y) = {w \in due : OffOf(w) <= OffOf(y)}
    BY <1>1, OffIs
  <1>4. \A w \in due : OffOf(w) \in Nat
    BY OffIs
  <1>5. U(y) \in SUBSET U(x)
    BY <1>1, <1>3, <1>4
  <1>6. IsFiniteSet(U(x))
    BY <1>2, FS_Subset
  <1>7. Cardinality(U(y)) <= Cardinality(U(x)) /\ Cardinality(U(y)) \in Nat
          /\ Cardinality(U(x)) \in Nat
    BY <1>5, <1>6, FS_Subset, FS_CardinalityType
  <1> HIDE DEF U
  <1>8. Cardinality(U(y)) <= room
    BY <1>1, <1>7
  <1>9. QED
    BY <1>8 DEF Front, U

(* What one call of readdir emits: all entries from its position on up to  *)
(* the one it leaves behind.                                               *)
Emits(pages, pos, r) ==
  /\ r.out \in SUBSET Places(pages) /\ r.pos \in Nat /\ pos <= r.pos
  /\ \A x \in r.out : pos <= OffOf(x) /\ OffOf(x) < r.pos
  /\ \A x \in Places(pages) : pos <= OffOf(x) /\ x \notin r.out => r.pos <= OffOf(x)
  /\ ~r.more => \A x \in Places(pages) : pos <= OffOf(x) => x \in r.out

(* _iterate_dir emits the entries up to the position that it returns.      *)
LEMMA IterateIs ==
  ASSUME NEW pages, DirOk(pages), NEW pos \in Nat, NEW k \in Nat, k >= 2
  PROVE  Emits(pages, pos, IterateDir(pages, pos, k))
  <1> DEFINE from == IF pos = 0 THEN 2 ELSE pos
             room == IF pos = 0 THEN k - 2 ELSE k
             due == Due(pages, from)
             out == Front(due, room)
             last == CHOOSE at \in out : \A x \in out : Before(x, at)
             r == IterateDir(pages, pos, k)
  <1>1. r = [out |-> out, pos |-> IF out = {} THEN from ELSE EmitPos(last), more |-> out # due]
    BY DEF IterateDir, Front
  <1>2. from \in Nat /\ pos <= from /\ room \in Int
    OBVIOUS
  <1>3. \A x \in Places(pages) : OffOf(x) \in Nat /\ 2 <= OffOf(x)
    BY OffIs
  <1>4. \A x \in Places(pages) : from <= OffOf(x) <=> pos <= OffOf(x)
    BY <1>3
  <1>5. due = {x \in Places(pages) : OffOf(x) >= from}
    BY DueIs
  <1> HIDE DEF from, room, due
  <1>6. \A x : x \in due <=> x \in Places(pages) /\ pos <= OffOf(x)
    BY <1>2, <1>3, <1>4, <1>5
  <1>7. out \in SUBSET due /\ due \in SUBSET Places(pages)
    BY <1>6 DEF Front
  <1>8. \A x \in out, y \in due : OffOf(y) <= OffOf(x) => y \in out
    BY <1>2, <1>7, FrontIs
  <1> HIDE DEF out
  <1>9. r.out = out /\ (~r.more => out = due)
    <2> DEFINE p == IF out = {} THEN from ELSE EmitPos(last)
    <2>1. PICK b : b = (out # due)
      OBVIOUS
    <2>2. r = [out |-> out, pos |-> p, more |-> b]
      BY <1>1, <2>1, Zenon
    <2> HIDE DEF p, r
    <2>3. r.out = out /\ r.more = b
      BY <2>2
    <2>4. QED
      BY <2>1, <2>3, Zenon
  <1> DEFINE all == ~r.more => \A x \in Places(pages) : pos <= OffOf(x) => x \in r.out
  <1>10. all
    BY <1>6, <1>9, Zenon
  <1> HIDE DEF all
  <1>11. CASE out = {}
    <2>1. r.pos = from
      BY <1>1, <1>11
    <2>2. \A x \in due : from <= OffOf(x)
      BY <1>2, <1>3, <1>5
    <2> HIDE DEF r
    <2>3. /\ r.out \in SUBSET Places(pages) /\ r.pos \in Nat /\ pos <= r.pos
          /\ \A x \in r.out : pos <= OffOf(x) /\ OffOf(x) < r.pos
          /\ \A x \in Places(pages) : pos <= OffOf(x) /\ x \notin r.out => r.pos <= OffOf(x)
      BY <1>2, <1>6, <1>7, <1>9, <1>11, <2>1, <2>2
    <2>4. QED
      BY <1>10, <2>3, Zenon DEF Emits, all, r
  <1>12. CASE out # {}
    <2>1. \E x \in out : \A y \in out : OffOf(y) <= OffOf(x)
      BY <1>7, <1>12, LastIs
    <2>2. \A x \in out, y \in out : Before(x, y) <=> OffOf(x) <= OffOf(y)
      BY <1>7, OffIs
    <2>3. \E at \in out : \A x \in out : Before(x, at)
      BY <2>1, <2>2
    <2>4. last \in out /\ \A x \in out : Before(x, last)
      BY <2>3
    <2>5. r.pos = OffOf(last) + 1
      BY <1>1, <1>12 DEF EmitPos
    <2> HIDE DEF r, last
    <2>6. \A x \in out : OffOf(x) <= OffOf(last)
      BY <2>2, <2>4
    <2>7. OffOf(last) \in Nat /\ pos <= OffOf(last)
      BY <1>3, <1>6, <1>7, <2>4
    <2>8. \A x \in out : pos <= OffOf(x) /\ OffOf(x) < OffOf(last) + 1
      BY <1>3, <1>6, <1>7, <2>6, <2>7
    <2>9. \A x \in Places(pages) : pos <= OffOf(x) /\ x \notin out => OffOf(last) + 1 <= OffOf(x)
      BY <1>3, <1>6, <1>8, <2>4, <2>7
    <2>10. r.pos \in Nat /\ pos <= r.pos
      BY <2>5, <2>7
    <2>11. /\ r.out \in SUBSET Places(pages) /\ r.pos \in Nat /\ pos <= r.pos
           /\ \A x \in r.out : pos <= OffOf(x) /\ OffOf(x) < r.pos
           /\ \A x \in Places(pages) : pos <= OffOf(x) /\ x \notin r.out => r.pos <= OffOf(x)
      BY <1>6, <1>7, <1>9, <2>5, <2>8, <2>9, <2>10
    <2>12. QED
      BY <1>10, <2>11, Zenon DEF Emits, all, r
  <1>13. QED
    BY <1>11, <1>12

(* Two places do not hold the same dirent, so that as many entries are     *)
(* emitted as places.                                                      *)
LEMMA EmittedOnce ==
  ASSUME NEW pages, DirOk(pages), NEW S \in SUBSET Places(pages)
  PROVE  /\ Cardinality({At(pages, x) : x \in S}) = Cardinality(S) /\ Cardinality(S) \in Nat
         /\ \A x \in Places(pages), y \in Places(pages) : At(pages, x) = At(pages, y) => x = y
  <1> DEFINE T == {At(pages, x) : x \in S}
             f == [x \in S |-> At(pages, x)]
  <1>1. \A x \in Places(pages), y \in Places(pages) : At(pages, x) = At(pages, y) => x = y
    BY DEF DirOk
  <1>2. IsFiniteSet(S) /\ Cardinality(S) \in Nat
    BY PlacesFacts, FS_Subset, FS_CardinalityType
  <1>3. f \in Surjection(S, T)
    BY DEF Surjection
  <1>4. f \in Injection(S, T)
    BY <1>1 DEF Injection, IsInjective
  <1> HIDE DEF f, T
  <1>5. Cardinality(T) = Cardinality(S)
    BY <1>2, <1>3, <1>4, FS_Surjection
  <1>6. QED
    BY <1>1, <1>2, <1>5 DEF T
=============================================================================
